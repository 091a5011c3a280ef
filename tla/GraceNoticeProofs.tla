------------------------- MODULE GraceNoticeProofs -------------------------
(***************************************************************************)
(* Nobody is removed before a whole grace period has passed since their    *)
(* grant last gave access.  The invariant says how much of it is owed; a   *)
(* revocation happens at deadline 0, when nothing is.                      *)
(***************************************************************************)
EXTENDS GraceNotice, GrantLifecycleProofs

NoticeInv == TypeOK /\ NoticeOwed

NoticeVars == <<vars, notice>>

\* A step that is not the clock's leaves a deadline where it was, ends it, or
\* starts it at a whole grace period.
LEMMA LegalOwes ==
    ASSUME NoticeInv, LegalStep, ~Tick,
           notice' = [p \in Policies |-> Noticed(p)]
    PROVE  NoticeOwed'
<1>1. ASSUME NEW p \in Policies
      PROVE  notice'[p] \in 0..Grace
    BY ConstantsAssumption DEF NoticeInv, NoticeOwed, Noticed
<1>2. ASSUME NEW p \in Policies, grant'[p].status = "GRACE",
             grant'[p].deadline # NoDeadline
      PROVE  notice'[p] + grant'[p].deadline >= Grace
  <2>1. notice'[p] = notice[p]
      BY <1>2 DEF Noticed
  <2>2. notice[p] \in 0..Grace
      BY DEF NoticeInv, NoticeOwed
  <2>3. grant[p] \in Grants
      BY DEF NoticeInv, TypeOK
  <2>4. Move(grant[p], grant'[p])
      BY DEF LegalStep, Legal
  <2>5. CASE /\ grant'[p].status = grant[p].status
             /\ grant'[p].deadline = grant[p].deadline
    <3>1. grant[p].deadline \in 0..Grace
        BY <1>2, <2>3, <2>5 DEF Grants, Deadlines
    <3>2. p \in Due \cup Running
        BY <1>2, <2>5, <3>1, ConstantsAssumption DEF Due, Running, HasStatus
    <3>3. QED BY <2>1, <2>5, <3>2 DEF NoticeInv, NoticeOwed
  <2>6. CASE grant'[p].deadline = Grace
      BY <2>1, <2>2, <2>6, ConstantsAssumption
  <2>7. QED BY <1>2, <2>4, <2>5, <2>6 DEF Move
<1>3. QED BY <1>1, <1>2, ConstantsAssumption
          DEF NoticeOwed, Due, Running, HasStatus, NoDeadline

\* A tick takes one from a running deadline and adds one to the notice.
LEMMA TickOwes ==
    ASSUME NoticeInv, Tick, notice' = [p \in Policies |-> Noticed(p)]
    PROVE  NoticeOwed'
<1>1. ASSUME NEW p \in Policies
      PROVE  notice'[p] \in 0..Grace
    BY ConstantsAssumption DEF NoticeInv, NoticeOwed, Noticed
<1>2. ASSUME NEW p \in Policies, p \in (Due \cup Running)'
      PROVE  notice'[p] + grant'[p].deadline >= Grace
  <2>1. /\ grant[p].status = "GRACE" /\ grant'[p].status = "GRACE"
        /\ grant'[p].deadline = Elapsed(grant[p].deadline)
        /\ grant'[p].deadline \in Deadlines
        /\ grant'[p].deadline # NoDeadline
    <3>1. grant'[p].deadline \in Deadlines
        BY TickStep DEF NoticeInv, TypeOK, Grants
    <3>2. /\ grant'[p].status = "GRACE"
          /\ grant'[p].deadline = 0 \/ grant'[p].deadline > 0
        BY <1>2 DEF Due, Running, HasStatus
    <3>3. grant'[p].deadline # NoDeadline
        BY <3>2 DEF NoDeadline
    <3>4. QED BY <3>1, <3>2, <3>3, TickStep DEF NoticeInv
  <2>2. grant[p].deadline \in Deadlines
      BY DEF NoticeInv, TypeOK, Grants
  <2>3. grant[p].deadline \in 0..Grace
      BY <2>1, <2>2 DEF Deadlines, NoDeadline, Elapsed
  <2>4. notice[p] \in 0..Grace /\ notice[p] + grant[p].deadline >= Grace
      BY <2>1, <2>3, ConstantsAssumption
         DEF NoticeInv, NoticeOwed, Due, Running, HasStatus
  <2>5. notice'[p] = IF notice[p] < Grace THEN notice[p] + 1 ELSE notice[p]
      BY <2>1 DEF Noticed
  <2>6. QED BY <2>1, <2>3, <2>4, <2>5, ConstantsAssumption DEF Elapsed
<1>3. QED BY <1>1, <1>2 DEF NoticeOwed

LEMMA NoticeStep ==
    ASSUME NoticeInv, [NoticeNext]_NoticeVars PROVE NoticeInv'
<1>1. CASE NoticeNext
  <2>1. TypeOK' /\ (LegalStep \/ Tick)
      BY <1>1, NextStep DEF NoticeInv, NoticeNext
  <2>2. NoticeOwed'
      BY <1>1, <2>1, LegalOwes, TickOwes DEF NoticeNext
  <2>3. QED BY <2>1, <2>2 DEF NoticeInv
<1>2. CASE UNCHANGED NoticeVars
  <2>1. TypeOK' /\ grant' = grant /\ notice' = notice
      BY <1>2, Stutter DEF NoticeInv, NoticeVars
  <2>2. QED BY <2>1
            DEF NoticeInv, NoticeOwed, Due, Running, HasStatus
<1>3. QED BY <1>1, <1>2

\* For every set of policies and every history of updates, faults and
\* commands, what was not given as notice is still left of the grace period.
THEOREM NoticeInvariant == NoticeSpec => []NoticeInv
<1>1. NoticeInit => NoticeInv
  <2>1. Init => TypeOK
      BY InitType
  <2>2. QED BY <2>1, ConstantsAssumption
            DEF NoticeInit, NoticeInv, NoticeOwed, Init, NoGrant, Due,
                Running, HasStatus
<1>2. NoticeInv /\ [NoticeNext]_NoticeVars => NoticeInv'
    BY NoticeStep
<1>3. QED BY <1>1, <1>2, PTL DEF NoticeSpec, NoticeVars

\* The part of it TLC checks.
THEOREM AlwaysOwed == NoticeSpec => []NoticeOwed
<1>1. NoticeInv => NoticeOwed
    BY DEF NoticeInv
<1>2. QED BY <1>1, NoticeInvariant, PTL

\* README.md:24: nobody's grant is revoked before a whole grace period has
\* passed since it last was ACTIVE.
THEOREM NoticeGiven == NoticeSpec => FullNotice
<1>1. NoticeInv /\ [NoticeNext]_NoticeVars =>
        [\A p \in Policies :
            grant[p].status # "REVOKED" /\ grant'[p].status = "REVOKED"
               => notice[p] = Grace]_NoticeVars
  <2>1. ASSUME NoticeInv, NoticeNext, NEW p \in Policies,
               grant[p].status # "REVOKED", grant'[p].status = "REVOKED"
        PROVE  notice[p] = Grace
    <3>1. LegalStep
        BY <2>1, NextStep, TickStep DEF NoticeInv, NoticeNext
    <3>2. grant[p].status = "GRACE" /\ grant[p].deadline = 0
        BY <2>1, <3>1 DEF LegalStep, Legal, Move
    <3>3. p \in Due
        BY <3>2 DEF Due, HasStatus
    <3>4. QED BY <2>1, <3>2, <3>3, ConstantsAssumption
              DEF NoticeInv, NoticeOwed
  <2>2. QED BY <2>1
<1>2. QED BY <1>1, NoticeInvariant, PTL DEF NoticeSpec, FullNotice, NoticeVars

\* The history variable only watches: its behaviours are behaviours of
\* GrantLifecycle, so that whatever holds of those holds here.
THEOREM OnlyWatches == NoticeSpec => Spec
<1>1. NoticeInit => Init
    BY DEF NoticeInit
<1>2. [NoticeNext]_NoticeVars => [Next]_vars
    BY DEF NoticeNext, NoticeVars
<1>3. QED BY <1>1, <1>2, PTL DEF NoticeSpec, Spec, NoticeVars
=============================================================================
