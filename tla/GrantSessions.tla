---------------------------- MODULE GrantSessions ----------------------------
(***************************************************************************)
(* The database sessions that work on one user's grant for one policy,     *)
(* statement by statement: what GrantLifecycle does in one step is here    *)
(* interrupted at every await.  A session reads committed rows, talks to   *)
(* Telegram, writes row by row, each under the row lock of its UPDATE,     *)
(* which it keeps while it awaits and asks for the next, and commits once; *)
(* an UPDATE names only the columns whose value changed in the session.    *)
(*                                                                         *)
(* There is no unique key on (policy_id, user_id): the user may have       *)
(* several rows.  The user's profile exists.  The loops and cascades also  *)
(* reach rows of the user for other policies: these are locks here, and    *)
(* nothing else.  What a cascade writes to this policy's rows, missing     *)
(* channels, and failures of Telegram are GrantLifecycle's.                *)
(***************************************************************************)
EXTENDS Naturals, FiniteSets

CONSTANTS
    Sessions,      \* the sessions that may run beside one another
    Kind,          \* Kind[s]: what session s runs, over and over
    MaxOpen,       \* bound: sessions that are open at the same time
    Rows,          \* bound: primary keys of the user's rows for the policy
    Others,        \* bound: rows of the user for other policies
    NewRow,        \* the row a session is still to insert
    Nobody         \* no session

Kinds == {"check", "request", "left", "joined", "expiry", "restoration"}

ASSUME SessionsAssumption ==
    /\ Kind \in [Sessions -> Kinds]
    /\ MaxOpen \in Nat
    /\ Rows \cap Others = {}
    /\ NewRow \notin Rows \cup Others
    /\ Nobody \notin Sessions

VARIABLES
    inside,      \* is the user in the protected chat?
    db,          \* db[r]: row r as committed, NoRow if there is none
    locked,      \* locked[r]: the session that holds the row lock of r
    profile,     \* the session that holds the lock of the user_profiles row
    eval,        \* the session that set eval_lock:{policy}:{user} in Redis
    sess         \* sess[s]: where session s is, its verdict and its rows:
                 \* todo those its SELECT has still to lock, copy those it
                 \* read and has not come to, change what it has flushed,
                 \* row the one in hand

tables == <<db, locked, profile>>
vars   == <<inside, tables, eval, sess>>

NoRow == [status |-> "NONE", deadline |-> "none"]
Saved == [status   : {"NEEDS_REVIEW", "ACTIVE", "GRACE", "REVOKED"},
          deadline : {"none", "running", "passed"}]
\* The columns an UPDATE sets; "same" for one it does not name.
Change == [status   : {"same", "NEEDS_REVIEW", "ACTIVE", "GRACE", "REVOKED"},
           deadline : {"same", "none", "running", "passed"}]

Stored == {r \in Rows : db[r] # NoRow}
Locks  == Rows \cup Others

-----------------------------------------------------------------------------
(* What the sessions do: which step follows which.  A loop over rows comes *)
(* back to its "turn".                                                     *)

CheckSteps ==
    [start    |-> "lock",     lock    |-> "evaluate", evaluate |-> "load",
     load     |-> "write",    write   |-> "approve",  approve  |-> "unlock",
     unlock   |-> "commit"]

RequestStepsBlind ==          \* slip: the new grant is never added
    [start    |-> "upsert",   upsert  |-> "evaluate", evaluate |-> "load",
     load     |-> "approve",  approve |-> "commit"]

RequestSteps ==
    [start    |-> "upsert",   upsert  |-> "evaluate", evaluate |-> "load",
     load     |-> "approve",  approve |-> "write",    write    |-> "commit"]

LeftStepsLate ==              \* slip: the profile is touched after the rows
    [start    |-> "load",     load    |-> "claim",    claim    |-> "upsert",
     upsert   |-> "turn",     turn    |-> "evaluate", evaluate |-> "write",
     write    |-> "turn",     flush   |-> "turn"]

LeftSteps ==
    [start    |-> "upsert",   upsert  |-> "load",     load     |-> "claim",
     claim    |-> "turn",     turn    |-> "evaluate", evaluate |-> "write",
     write    |-> "turn",     flush   |-> "turn"]

JoinedSteps ==
    [start    |-> "upsert",   upsert  |-> "load",     load     |-> "claim",
     claim    |-> "turn",     turn    |-> "evaluate", evaluate |-> "write",
     write    |-> "approve",  approve |-> "turn"]

ExpirySteps ==
    [start    |-> "load",     load    |-> "turn",     turn     |-> "remove",
     remove   |-> "write",    write   |-> "turn",     flush    |-> "turn"]

RestorationSteps ==
    [start    |-> "load",     load    |-> "turn",     turn     |-> "evaluate",
     evaluate |-> "write",    write   |-> "turn",     flush    |-> "turn"]

Program == [check  |-> CheckSteps,  request     |-> RequestSteps,
            left   |-> LeftSteps,   joined      |-> JoinedSteps,
            expiry |-> ExpirySteps, restoration |-> RestorationSteps]

After(s, step) == Program[Kind[s]][step]

NoRows    == [r \in Rows |-> NoRow]
Closed(s) == [at |-> After(s, "start"), saw |-> FALSE, row |-> NewRow,
              todo |-> {}, copy |-> NoRows, change |-> NoRows]
Open      == {s \in Sessions : sess[s].at # After(s, "start")}
Runnable  == IF Cardinality(Open) < MaxOpen THEN Sessions ELSE Open

At(s, step)   == sess[s].at = step
Unwritten(s)  == {r \in Rows : sess[s].copy[r] # NoRow}
Written(s)    == {r \in Rows : sess[s].change[r] # NoRow}

\* At the turn of a loop neither the row nor the verdict is of use any more.
GoTo(s, step, e) ==
    sess' = [sess EXCEPT ![s] = [e EXCEPT
        !.at  = step,
        !.row = IF step = "turn" THEN NewRow ELSE @,
        !.saw = @ /\ step # "turn"]]
GoOn(s, e) == GoTo(s, After(s, sess[s].at), e)

EndKeepsRows(s) ==            \* slip: the transaction is left open
    /\ sess'    = [sess EXCEPT ![s] = Closed(s)]
    /\ locked'  = locked
    /\ profile' = IF profile = s THEN Nobody ELSE profile

\* The session ends, by a commit or not: its row locks are released.
End(s) ==
    /\ sess'    = [sess EXCEPT ![s] = Closed(s)]
    /\ locked'  = [r \in Locks |-> IF locked[r] = s THEN Nobody ELSE locked[r]]
    /\ profile' = IF profile = s THEN Nobody ELSE profile

\* An exception ends it without a commit; check_callback releases its lock.
Raises(s) ==
    /\ End(s)
    /\ eval' = IF Kind[s] = "check" THEN Nobody ELSE eval

-----------------------------------------------------------------------------
(* Locks.                                                                  *)

\* A press of Check while the key is set is answered and changes nothing.
lock_eval(s) ==
    /\ At(s, "lock")
    /\ eval = Nobody
    /\ eval' = s
    /\ GoOn(s, sess[s])
    /\ UNCHANGED <<inside, tables>>

\* The key is deleted whoever set it.
unlock_eval(s) ==
    /\ At(s, "unlock")
    /\ eval' = Nobody
    /\ GoOn(s, sess[s])
    /\ UNCHANGED <<inside, tables>>

\* The ten seconds given to the lock are over.
lock_expires ==
    /\ eval # Nobody
    /\ eval' = Nobody
    /\ UNCHANGED <<inside, tables, sess>>

\* An update may come long after what it tells of, and a chat_member update may
\* tell of no change of membership.  The UPDATE of last_seen_at locks the
\* profile until the session ends.
upsert_profile(s) ==
    /\ At(s, "upsert")
    /\ profile = Nobody
    /\ profile' = s
    /\ GoOn(s, sess[s])
    /\ UNCHANGED <<inside, db, locked, eval>>

-----------------------------------------------------------------------------
(* Reading.                                                                *)

\* scalar_one_or_none: more than one row raises, and the session rolls back;
\* check_callback releases its lock on the way.
load_by_key(s) ==
    /\ At(s, "load")
    /\ Kind[s] \in {"check", "request"}
    /\ \/ Cardinality(Stored) > 1 /\ Raises(s)
       \/ /\ Stored = {}
          /\ GoOn(s, sess[s])
          /\ UNCHANGED <<locked, profile, eval>>
       \/ /\ Cardinality(Stored) = 1
          /\ \E r \in Stored :
                GoOn(s, [sess[s] EXCEPT !.row = r, !.copy[r] = db[r]])
          /\ UNCHANGED <<locked, profile, eval>>
    /\ UNCHANGED <<inside, db>>

\* chat_member_handler selects FOR UPDATE the rows that are not revoked, of
\* every policy that requires the channel.
load_for_update(s) ==
    /\ At(s, "load")
    /\ Kind[s] \in {"left", "joined"}
    /\ \E others \in SUBSET Others :
          LET found == {r \in Stored : db[r].status # "REVOKED"} \cup others
          IN  \/ found = {} /\ End(s)
              \/ /\ \E r \in found :
                       GoOn(s, [sess[s] EXCEPT !.row = r, !.todo = found])
                 /\ UNCHANGED <<locked, profile>>
    /\ UNCHANGED <<inside, db, eval>>

WithoutForUpdate(s, r) == locked           \* slip: a plain SELECT

WithForUpdate(s, r) == [locked EXCEPT ![r] = s]

\* The SELECT locks one row after the other, in whatever order it finds them,
\* and waits for each.  A row that changed meanwhile is read again: if it is
\* revoked by then it is not returned, but stays locked.
claim(s) ==
    /\ At(s, "claim")
    /\ locked[sess[s].row] = Nobody
    /\ locked' = WithForUpdate(s, sess[s].row)
    /\ LET r    == sess[s].row
           rest == sess[s].todo \ {r}
           e    == [sess[s] EXCEPT !.todo = rest, !.copy =
                       IF r \in Rows /\ db[r].status # "REVOKED"
                       THEN [@ EXCEPT ![r] = db[r]] ELSE @]
       IN  \/ rest = {} /\ GoOn(s, e)
           \/ \E q \in rest : GoTo(s, "claim", [e EXCEPT !.row = q])
    /\ UNCHANGED <<inside, db, profile, eval>>

\* The watchers select by status and deadline, without a lock; the rows found
\* may all be of other policies.
load_by_deadline(s) ==
    /\ At(s, "load")
    /\ Kind[s] \in {"expiry", "restoration"}
    /\ LET due   == IF Kind[s] = "expiry" THEN "passed" ELSE "running"
           found == {r \in Stored : db[r] = [status |-> "GRACE", deadline |-> due]}
       IN  /\ found \cup Others # {}
           /\ GoOn(s, [sess[s] EXCEPT !.copy =
                  [r \in Rows |-> IF r \in found THEN db[r] ELSE NoRow]])
    /\ UNCHANGED <<inside, tables, eval>>

-----------------------------------------------------------------------------
(* The loops.                                                              *)

\* The next row, in any order; at the end of the loop the commit.  In between
\* the loop comes to a row of another policy, of its own or by a cascade; the
\* rows that the cascade of a join comes to raise when they are written, if
\* their missing channels are not loaded.
turn(s) ==
    /\ At(s, "turn")
    /\ \/ /\ \E r \in Unwritten(s) : GoOn(s, [sess[s] EXCEPT !.row = r])
          /\ UNCHANGED <<locked, profile>>
       \/ /\ Unwritten(s) = {}
          /\ GoTo(s, "commit", sess[s])
          /\ UNCHANGED <<locked, profile>>
       \/ /\ Kind[s] # "joined"
          /\ \E o \in Others : /\ locked[o] # s
                               /\ GoTo(s, "flush", [sess[s] EXCEPT !.row = o])
          /\ UNCHANGED <<locked, profile>>
       \/ Kind[s] = "joined" /\ Written(s) # {} /\ End(s)
    /\ UNCHANGED <<inside, db, eval>>

\* A flush of the row of another policy.
flush(s) ==
    /\ At(s, "flush")
    /\ locked[sess[s].row] = Nobody
    /\ locked' = [locked EXCEPT ![sess[s].row] = s]
    /\ GoOn(s, sess[s])
    /\ UNCHANGED <<inside, db, profile, eval>>

\* The user leaves and joins channels as they like, the join request goes by
\* cached verdicts, and the restoration watcher passes over a grant that waits
\* for another one: any verdict is possible at any time.
\* Where the verdict leaves nothing to do the loop goes on with the next row.
evaluate(s) ==
    /\ At(s, "evaluate")
    /\ \E saw \in BOOLEAN :
          IF (Kind[s] = "left" /\ saw)
             \/ (Kind[s] \in {"joined", "restoration"} /\ ~saw)
          THEN GoTo(s, "turn", [sess[s] EXCEPT !.copy[sess[s].row] = NoRow])
          ELSE GoOn(s, [sess[s] EXCEPT !.saw = saw])
    /\ UNCHANGED <<inside, tables, eval>>

-----------------------------------------------------------------------------
(* Telegram.                                                               *)

\* The user may have a join request pending, unless they are in.
approve(s) ==
    /\ At(s, "approve")
    /\ \E asked \in {FALSE, ~inside} :
          /\ inside' = (inside \/ (sess[s].saw /\ asked))
          /\ IF Kind[s] = "request" /\ sess[s].saw /\ ~asked
             THEN End(s)     \* the approval failed: no grant is written
             ELSE GoOn(s, sess[s]) /\ UNCHANGED <<locked, profile>>
    /\ UNCHANGED <<db, eval>>

remove_and_unban(s) ==
    /\ At(s, "remove")
    /\ inside' = FALSE
    /\ GoOn(s, sess[s])
    /\ UNCHANGED <<tables, eval>>

-----------------------------------------------------------------------------
(* Writing.                                                                *)

\* What the session assigns, given the row it loaded (NoRow if none).
Assigned(kind, saw, old) ==
    CASE kind = "left" /\ old.status # "NEEDS_REVIEW" ->
            [status |-> "GRACE", deadline |-> "running"]
      [] kind = "left" /\ old.status = "NEEDS_REVIEW" ->
            [status |-> "same", deadline |-> "same"]
      [] kind = "expiry" -> [status |-> "REVOKED", deadline |-> "none"]
      [] kind \in {"check", "request"} /\ ~saw ->
            [status   |-> IF kind = "check" /\ old.deadline # "none"
                          THEN "same" ELSE "NEEDS_REVIEW",
             deadline |-> "same"]
      [] OTHER -> [status |-> "ACTIVE", deadline |-> "none"]

\* SQLAlchemy leaves out a column set to the value it had; a grace period that
\* starts again ends at another instant.
NetChange(old, new) ==
    [status   |-> IF new.status = old.status THEN "same" ELSE new.status,
     deadline |-> IF new.deadline = old.deadline /\ new.deadline # "running"
                  THEN "same" ELSE new.deadline]

Unused == {r \in Rows : db[r] = NoRow /\ locked[r] = Nobody}

\* The row the session writes: the one in hand, or else any new one.
Target(s) == IF sess[s].row = NewRow THEN Unused ELSE {sess[s].row}

\* log_event flushes the session: the UPDATE waits for the lock of its row,
\* while the session keeps those of the rows it wrote before.
write(s) ==
    /\ At(s, "write")
    /\ sess[s].row # NewRow => locked[sess[s].row] \in {Nobody, s}
    /\ \E r \in Target(s) :
          /\ locked' = [locked EXCEPT ![r] = s]
          /\ LET old == sess[s].copy[r]
                 new == Assigned(Kind[s], sess[s].saw, old)
             IN  GoOn(s, [sess[s] EXCEPT !.copy[r] = NoRow,
                                         !.change[r] = NetChange(old, new)])
    /\ UNCHANGED <<inside, db, profile, eval>>

UpdatedBlank(row, ch) == ch   \* slip: columns that did not change are lost

Updated(row, ch) ==
    [status   |-> IF ch.status = "same" THEN row.status ELSE ch.status,
     deadline |-> IF ch.deadline = "same" THEN row.deadline ELSE ch.deadline]

commit(s) ==
    /\ At(s, "commit")
    /\ db' = [r \in Rows |-> IF r \in Written(s)
                             THEN Updated(db[r], sess[s].change[r]) ELSE db[r]]
    /\ End(s)
    /\ UNCHANGED <<inside, eval>>

-----------------------------------------------------------------------------
(* Cycles.                                                                 *)

\* s stands before a lock that t holds.
WaitsFor(s, t) ==
    /\ s # t
    /\ \/ At(s, "upsert") /\ profile = t
       \/ /\ sess[s].at \in {"claim", "flush", "write"}
          /\ sess[s].row \in Locks
          /\ locked[sess[s].row] = t

\* Each waits for one of them.
Deadlocked(S) == S # {} /\ \A s \in S : \E t \in S : WaitsFor(s, t)

Cycle(S) == Deadlocked(S) /\ \A T \in SUBSET S : Deadlocked(T) => T = S

\* PostgreSQL breaks a cycle by an error in one of its sessions, whose work is
\* rolled back: a watcher catches the error, but its commit then fails as well.
deadlock_detected(S) ==
    /\ Cycle(S)
    /\ \E s \in S : Raises(s)
    /\ UNCHANGED <<inside, db>>

-----------------------------------------------------------------------------
(* The clock.                                                              *)

deadline_passes(r) ==
    /\ db[r].deadline = "running"
    /\ db' = [db EXCEPT ![r].deadline = "passed"]
    /\ UNCHANGED <<inside, locked, profile, eval, sess>>

-----------------------------------------------------------------------------
Init ==
    /\ inside = FALSE
    /\ db = [r \in Rows |-> NoRow]
    /\ locked = [r \in Locks |-> Nobody]
    /\ profile = Nobody
    /\ eval = Nobody
    /\ sess = [s \in Sessions |-> Closed(s)]

Step(s) ==
    \/ lock_eval(s) \/ unlock_eval(s) \/ upsert_profile(s)
    \/ load_by_key(s) \/ load_for_update(s) \/ claim(s) \/ load_by_deadline(s)
    \/ turn(s) \/ flush(s) \/ evaluate(s)
    \/ approve(s) \/ remove_and_unban(s) \/ write(s) \/ commit(s)

Next ==
    \/ \E s \in Runnable : Step(s)
    \/ \E S \in SUBSET Open : deadlock_detected(S)
    \/ lock_expires
    \/ \E r \in Rows : deadline_passes(r)

Spec == Init /\ [][Next]_vars
=============================================================================
