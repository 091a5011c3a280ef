-------------------------- MODULE SessionProperties --------------------------
(***************************************************************************)
(* What interleaved sessions keep, and, last, what they do not.            *)
(***************************************************************************)
EXTENDS GrantSessions

Phases == {"lock", "upsert", "load", "claim", "turn", "flush", "evaluate",
           "remove", "approve", "write", "unlock", "commit"}

\* Every row, lock and session keeps to the values it can have.
TypeOK ==
    /\ inside \in BOOLEAN
    /\ db \in [Rows -> Saved \cup {NoRow}]
    /\ locked \in [Locks -> Sessions \cup {Nobody}]
    /\ profile \in Sessions \cup {Nobody}
    /\ eval \in Sessions \cup {Nobody}
    /\ \A s \in Sessions :
          /\ sess[s].at \in Phases
          /\ sess[s].saw \in BOOLEAN
          /\ sess[s].row \in Locks \cup {NewRow}
          /\ sess[s].todo \subseteq Locks
          /\ sess[s].copy \in [Rows -> Saved \cup {NoRow}]
          /\ sess[s].change \in [Rows -> Change \cup {NoRow}]

\* Whoever is in the protected chat is on record, or the session that lets
\* them in (a compliant join request or Check) is still to commit: no order of
\* sessions admits a user and loses the row.
InsideHasRow ==
    inside => \/ Stored # {}
              \/ \E s \in Open : Kind[s] \in {"check", "request"} /\ sess[s].saw

\* A row that was revoked keeps no deadline, although the expiry watcher loads
\* its rows long before it writes them and each UPDATE names only the columns
\* its own session changed: no other session's deadline survives next to its
\* REVOKED, or is added to it.
RevokedIsSettled ==
    \A r \in Rows : db[r].status = "REVOKED" => db[r].deadline = "none"

\* However sessions wait for the locks of rows, of the profile and of Redis: if
\* none that is open can go on, then each waits for another of them, and
\* PostgreSQL detects it (deadlock_timeout).  No lock outlives its session and
\* nothing is waited for that no error or commit will release.
StandstillIsDeadlock ==
    Open # {} => \/ \E s \in Open : ENABLED Step(s)
                 \/ Deadlocked(Open)

\* Sessions do deadlock: both watchers keep the locks of the rows of a loop
\* until its one commit (grace_watcher.py:415, grace_restoration.py:297), as
\* does a leave handler those of its SELECT and its cascade.  But the handlers
\* of updates and of presses of Check never deadlock among themselves: every
\* cycle has a watcher in it.  An update handler locks the profile before any
\* row, so that one of them at most holds rows, and Check holds none when it
\* comes to its flush.
CyclesHaveAWatcher == \A S \in SUBSET Open :
    Deadlocked(S) => \E s \in S : Kind[s] \in {"expiry", "restoration"}

\* Nothing in the code says that the updates of one user are handled one after
\* the other, and aiogram does not.  They are, from the first statement to the
\* commit: by the row lock that recording last_seen_at takes on the profile
\* (user_service.py:46).
UpdatesInTurn == \A s, t \in Open :
    {Kind[s], Kind[t]} \subseteq {"request", "left", "joined"} => s = t

\* chat_member.py:174: the row lock of the leave handler makes its decision
\* hold until it commits.  No row that was revoked, restored to review or
\* deleted meanwhile is put into GRACE: only one that gives access is.  (The
\* scan and the cascades of the watchers and of the leave handler write GRACE
\* without that lock; they are not sessions of this row.)
GraceOnlyFromAccess ==
    [][\A r \in Rows :
          db[r].status # "GRACE" /\ db'[r].status = "GRACE"
             => db[r].status = "ACTIVE"
      ]_vars

Contract == INSTANCE RowContract WITH row <- db

\* Sessions that interleave at every await, and wait for one another's locks,
\* do to the committed rows only what the contract says: a leave warns only who
\* has access or was warned when it commits, a revocation takes the deadline
\* along, no row disappears.
RefinesRows == Contract!Spec

-----------------------------------------------------------------------------
(* Said of the code, and not so.                                           *)

\* join_request.py:87 and check.py:120 ask for the one row or none of a user
\* and a policy: scalar_one_or_none raises if there are two.
AtMostOneRow == Cardinality(Stored) <= 1
=============================================================================
