---------------------------- MODULE GraceNotice ----------------------------
(***************************************************************************)
(* GrantLifecycle with a history variable: how long ago each grant last    *)
(* gave access, or was not there.                                          *)
(***************************************************************************)
EXTENDS GrantProperties

VARIABLE notice    \* notice[p]: ticks since, counted up to Grace

\* The clock of a grant runs while it is threatened, warned or under review.
Noticed(p) ==
    IF grant'[p].status \notin {"GRACE", "NEEDS_REVIEW"} THEN 0
    ELSE IF Tick /\ notice[p] < Grace THEN notice[p] + 1
    ELSE notice[p]

NoticeInit == Init /\ notice = [p \in Policies |-> 0]
NoticeNext == Next /\ notice' = [p \in Policies |-> Noticed(p)]
NoticeSpec == NoticeInit /\ [][NoticeNext]_<<vars, notice>>

\* What was not given as notice yet is still left of the grace period, however
\* often leaves, scans and cascades restarted it.
NoticeOwed == \A p \in Policies :
    /\ notice[p] \in 0..Grace
    /\ p \in Due \cup Running => notice[p] + grant[p].deadline >= Grace

\* No grant is revoked, and no user removed, before a whole grace period has
\* passed since the grant last was ACTIVE (README.md:24).
FullNotice ==
    [][\A p \in Policies :
          grant[p].status # "REVOKED" /\ grant'[p].status = "REVOKED"
             => notice[p] = Grace
      ]_<<vars, notice>>
=============================================================================
