---------------------------- MODULE SessionProofs ----------------------------
(***************************************************************************)
(* Theorems about GrantSessions for every set of sessions, whatever each   *)
(* of them runs, every table, any rows of other policies and every bound   *)
(* on open sessions: what the sessions keep although each of them is       *)
(* interrupted at every await and waits for one row lock after another.    *)
(***************************************************************************)
EXTENDS SessionProperties, TLAPS, FiniteSetTheorems

Single      == {"check", "request"}
Handlers    == {"left", "joined"}
Watchers    == {"expiry", "restoration"}
UpdateKinds == {"request", "left", "joined"}

-----------------------------------------------------------------------------
(* Programs.                                                               *)

\* A session of kind k has such a step.
HasStep(k, step) ==
    \/ k = "check"       /\ step \in {"lock", "evaluate", "load", "write",
                                      "approve", "unlock", "commit"}
    \/ k = "request"     /\ step \in {"upsert", "evaluate", "load", "approve",
                                      "write", "commit"}
    \/ k = "left"        /\ step \in {"upsert", "load", "claim", "turn", "flush",
                                      "evaluate", "write", "commit"}
    \/ k = "joined"      /\ step \in {"upsert", "load", "claim", "turn",
                                      "evaluate", "write", "approve", "commit"}
    \/ k = "expiry"      /\ step \in {"load", "turn", "flush", "remove",
                                      "write", "commit"}
    \/ k = "restoration" /\ step \in {"load", "turn", "flush", "evaluate",
                                      "write", "commit"}

LEMMA Flow ==
    ASSUME NEW s \in Sessions
    PROVE  /\ Kind[s] \in Kinds
           /\ Kind[s] = "check" =>
                 /\ After(s, "start")    = "lock"
                 /\ After(s, "lock")     = "evaluate"
                 /\ After(s, "evaluate") = "load"
                 /\ After(s, "load")     = "write"
                 /\ After(s, "write")    = "approve"
                 /\ After(s, "approve")  = "unlock"
                 /\ After(s, "unlock")   = "commit"
           /\ Kind[s] = "request" =>
                 /\ After(s, "start")    = "upsert"
                 /\ After(s, "upsert")   = "evaluate"
                 /\ After(s, "evaluate") = "load"
                 /\ After(s, "load")     = "approve"
                 /\ After(s, "approve")  = "write"
                 /\ After(s, "write")    = "commit"
           /\ Kind[s] \in Handlers =>
                 /\ After(s, "start")    = "upsert"
                 /\ After(s, "upsert")   = "load"
                 /\ After(s, "load")     = "claim"
                 /\ After(s, "claim")    = "turn"
                 /\ After(s, "turn")     = "evaluate"
                 /\ After(s, "evaluate") = "write"
           /\ Kind[s] = "left" =>
                 /\ After(s, "write")    = "turn"
                 /\ After(s, "flush")    = "turn"
           /\ Kind[s] = "joined" =>
                 /\ After(s, "write")    = "approve"
                 /\ After(s, "approve")  = "turn"
           /\ Kind[s] \in Watchers =>
                 /\ After(s, "start")    = "load"
                 /\ After(s, "load")     = "turn"
                 /\ After(s, "write")    = "turn"
                 /\ After(s, "flush")    = "turn"
           /\ Kind[s] = "expiry" =>
                 /\ After(s, "turn")     = "remove"
                 /\ After(s, "remove")   = "write"
           /\ Kind[s] = "restoration" =>
                 /\ After(s, "turn")     = "evaluate"
                 /\ After(s, "evaluate") = "write"
<1>1. Kind[s] \in Kinds
    BY SessionsAssumption
<1>2. CASE Kind[s] = "check"
    BY <1>1, <1>2 DEF After, Program, CheckSteps, Handlers, Watchers
<1>3. CASE Kind[s] = "request"
    BY <1>1, <1>3 DEF After, Program, RequestSteps, Handlers, Watchers
<1>4. CASE Kind[s] = "left"
    BY <1>1, <1>4 DEF After, Program, LeftSteps, Handlers, Watchers
<1>5. CASE Kind[s] = "joined"
    BY <1>1, <1>5 DEF After, Program, JoinedSteps, Handlers, Watchers
<1>6. CASE Kind[s] = "expiry"
    BY <1>1, <1>6 DEF After, Program, ExpirySteps, Handlers, Watchers
<1>7. CASE Kind[s] = "restoration"
    BY <1>1, <1>7 DEF After, Program, RestorationSteps, Handlers, Watchers
<1>8. QED BY <1>1, <1>2, <1>3, <1>4, <1>5, <1>6, <1>7 DEF Kinds

-----------------------------------------------------------------------------
(* The inductive invariant.                                                *)

\* What a session has read and not come to: rows that were there when it read
\* them and are there still.  The rows of the expiry watcher were due; those
\* of the leave and join handlers are locked, so that the leave handler finds
\* each status still as it read it.
ReadOK(s, r) ==
    LET row == sess[s].copy[r]
    IN  row # NoRow =>
          /\ row \in Saved /\ db[r] # NoRow
          /\ Kind[s] = "expiry" =>
                row = [status |-> "GRACE", deadline |-> "passed"]
          /\ Kind[s] \in Handlers => locked[r] = s
          /\ Kind[s] = "left" => /\ db[r].status = row.status
                                 /\ row.status # "REVOKED"

\* The columns the leave handler names, for a row of that status: it alone
\* begins a grace period.
LeaveNames(status, ch) ==
    \/ status = "ACTIVE" /\ ch = [status |-> "GRACE", deadline |-> "running"]
    \/ status = "GRACE"  /\ ch = [status |-> "same",  deadline |-> "running"]
    \/ ch = [status |-> "same", deadline |-> "same"]

\* What neither it nor the expiry watcher names: nobody else warns or revokes.
OthersName(ch) ==
    /\ ch.status \notin {"GRACE", "REVOKED"}
    /\ ch.deadline \in {"same", "none"}
    /\ ch.status = "NEEDS_REVIEW" => ch.deadline = "same"

\* What a session has flushed: the columns its UPDATE or INSERT names, and the
\* lock of the row, kept to the end, so that what the leave handler decided is
\* right when it commits.  Only Check and the join request insert.
ChangeOK(s, r) ==
    LET ch == sess[s].change[r]
    IN  ch # NoRow =>
          /\ ch \in Change /\ locked[r] = s
          /\ db[r] = NoRow => ch.status # "same" /\ Kind[s] \in Single
          /\ Kind[s] = "expiry" =>
                ch = [status |-> "REVOKED", deadline |-> "none"]
          /\ Kind[s] = "left" => LeaveNames(db[r].status, ch)
          /\ Kind[s] \notin {"expiry", "left"} => OthersName(ch)

\* Check and the join request lock only the row they write.
HeldOK(s, r) ==
    locked[r] = s /\ Kind[s] \in Single => r \in Rows /\ sess[s].change[r] # NoRow

RowsOK(s) == /\ \A r \in Rows  : ReadOK(s, r) /\ ChangeOK(s, r)
             /\ \A r \in Locks : HeldOK(s, r)

\* It has read and locked no row yet.
Idle(s) == \/ sess[s].at \in {"lock", "upsert", "load"}
           \/ sess[s].at = "evaluate" /\ Kind[s] \in Single

\* A session with one row has yet to write it, or has.
ToWrite(s) == /\ Kind[s] \in Single
              /\ \/ sess[s].at = "write"
                 \/ sess[s].at = "approve" /\ Kind[s] = "request"
HasWritten(s) == /\ Kind[s] \in {"check", "request", "joined"}
                 /\ \/ sess[s].at = "unlock"
                    \/ sess[s].at = "commit"  /\ Kind[s] # "joined"
                    \/ sess[s].at = "approve" /\ Kind[s] # "request"

\* The row in hand, and what is done.
InHand(s) ==
    /\ Idle(s) => /\ Unwritten(s) = {} /\ Written(s) = {}
                  /\ \A r \in Locks : locked[r] # s
                  /\ sess[s].row = NewRow
    /\ sess[s].at = "claim" => /\ sess[s].row \in sess[s].todo
                               /\ \A r \in sess[s].todo : locked[r] # s
    /\ sess[s].at = "flush" => /\ sess[s].row \in Others
                               /\ locked[sess[s].row] # s
    /\ sess[s].at \in {"evaluate", "remove", "write"} /\ Kind[s] \notin Single =>
          sess[s].row \in Unwritten(s)
    /\ ToWrite(s) => /\ Written(s) = {}
                     /\ \/ sess[s].row = NewRow /\ Unwritten(s) = {}
                        \/ sess[s].row \in Unwritten(s)
    /\ HasWritten(s) => Written(s) # {}

SessionOK(s) == HasStep(Kind[s], sess[s].at) /\ RowsOK(s) /\ InHand(s)

\* InsideHasRow, with the session that still owes the row made precise: it has
\* approved the request, so nothing but its commit ends it; a deadlock does
\* not, as it waits for no row that is new.
Owes(s) == /\ \/ Kind[s] = "check"   /\ sess[s].at \in {"unlock", "commit"}
              \/ Kind[s] = "request" /\ sess[s].at \in {"write", "commit"}
           /\ sess[s].saw

Admitted == inside => Stored # {} \/ \E s \in Sessions : Owes(s)

Session == [at     : Phases,
            saw    : BOOLEAN,
            row    : Locks \cup {NewRow},
            todo   : SUBSET Locks,
            copy   : [Rows -> Saved \cup {NoRow}],
            change : [Rows -> Change \cup {NoRow}]]

IInv ==
    /\ TypeOK
    /\ sess \in [Sessions -> Session]
    /\ RevokedIsSettled
    /\ Admitted
    /\ \A s \in Sessions : SessionOK(s)

-----------------------------------------------------------------------------
(* What every step shares.                                                 *)

\* Which kinds of session are at a step.
LEMMA Place ==
    ASSUME IInv, NEW s \in Sessions
    PROVE  /\ sess[s] \in Session /\ Kind[s] \in Kinds
           /\ sess[s].at = "lock"   => Kind[s] = "check"
           /\ sess[s].at = "unlock" => Kind[s] = "check"
           /\ sess[s].at = "upsert" => Kind[s] \in UpdateKinds
           /\ sess[s].at = "claim"  => Kind[s] \in Handlers
           /\ sess[s].at = "flush"  => Kind[s] \in Watchers \cup {"left"}
           /\ sess[s].at = "turn"   => Kind[s] \in Watchers \cup Handlers
           /\ sess[s].at = "remove" => Kind[s] = "expiry"
           /\ sess[s].at = "evaluate" => Kind[s] # "expiry"
           /\ sess[s].at = "approve"  =>
                 Kind[s] \in {"check", "request", "joined"}
<1>1. sess[s] \in Session /\ Kind[s] \in Kinds /\ HasStep(Kind[s], sess[s].at)
    BY Flow DEF IInv, SessionOK
<1>2. QED BY <1>1 DEF HasStep, Kinds, UpdateKinds, Handlers, Watchers

\* The session that goes on is where it goes with the record it is given.
LEMMA WentTo ==
    ASSUME IInv, NEW s \in Sessions, NEW step \in Phases, NEW e \in Session,
           GoTo(s, step, e)
    PROVE  /\ sess' \in [Sessions -> Session]
           /\ sess'[s].at = step
           /\ sess'[s].copy = e.copy /\ sess'[s].change = e.change
           /\ sess'[s].todo = e.todo
           /\ sess'[s].row = IF step = "turn" THEN NewRow ELSE e.row
           /\ sess'[s].saw = (e.saw /\ step # "turn")
           /\ \A t \in Sessions \ {s} : sess'[t] = sess[t]
<1> DEFINE row == IF step = "turn" THEN NewRow ELSE e.row
           saw == e.saw /\ step # "turn"
           f   == [e EXCEPT !.at = step, !.row = row, !.saw = saw]
<1>0. row \in Locks \cup {NewRow} /\ saw \in BOOLEAN
    BY DEF Session
<1> HIDE DEF row, saw
<1>1. /\ f \in Session
      /\ f.at = step /\ f.copy = e.copy /\ f.change = e.change
      /\ f.todo = e.todo
      /\ f.row = row /\ f.saw = saw
    BY <1>0 DEF Session
<1>2. sess' = [sess EXCEPT ![s] = f]
    BY DEF GoTo, f, row, saw
<1> HIDE DEF f
<1>3. /\ sess' \in [Sessions -> Session] /\ sess'[s] = f
      /\ \A t \in Sessions \ {s} : sess'[t] = sess[t]
    BY <1>1, <1>2 DEF IInv
<1>4. QED BY <1>1, <1>3 DEF row, saw

LEMMA Ended ==
    ASSUME IInv, NEW s \in Sessions, End(s)
    PROVE  /\ sess' \in [Sessions -> Session] /\ sess'[s] = Closed(s)
           /\ \A t \in Sessions \ {s} : sess'[t] = sess[t]
           /\ locked' \in [Locks -> Sessions \cup {Nobody}]
           /\ profile' \in Sessions \cup {Nobody}
           /\ \A r \in Locks : locked'[r] # s
           /\ \A t \in Sessions \ {s}, r \in Locks :
                 locked'[r] = t <=> locked[r] = t
<1>1. After(s, "start") \in {"lock", "upsert", "load"}
    BY Flow DEF Kinds, Handlers, Watchers
<1>2. NoRows \in [Rows -> Saved \cup {NoRow}]
      /\ NoRows \in [Rows -> Change \cup {NoRow}]
    BY DEF NoRows
<1>3. Closed(s) \in Session
    BY <1>1, <1>2 DEF Closed, Session, Phases
<1>4. QED BY <1>3, SessionsAssumption DEF IInv, TypeOK, End

\* A closed session satisfies whatever is asked of sessions.
LEMMA ClosedOK ==
    ASSUME NEW s \in Sessions, sess'[s] = Closed(s),
           \A r \in Locks : locked'[r] # s
    PROVE  SessionOK(s)'
<1>1. /\ sess'[s].at = After(s, "start") /\ sess'[s].row = NewRow
      /\ \A r \in Rows : sess'[s].copy[r] = NoRow /\ sess'[s].change[r] = NoRow
    BY DEF Closed, NoRows
<1>2. /\ Kind[s] \in Kinds
      /\ HasStep(Kind[s], After(s, "start"))
      /\ After(s, "start") \in {"lock", "upsert", "load"}
    BY Flow DEF Kinds, HasStep, Handlers, Watchers
<1>3. RowsOK(s)'
    BY <1>1 DEF RowsOK, ReadOK, ChangeOK, HeldOK
<1>4. Unwritten(s)' = {} /\ Written(s)' = {}
    BY <1>1 DEF Unwritten, Written
<1>5. InHand(s)'
    BY <1>1, <1>2, <1>4 DEF InHand, ToWrite, HasWritten
<1>6. QED BY <1>1, <1>2, <1>3, <1>5 DEF SessionOK

\* What a step must leave of the rows for session t to be undisturbed: those
\* it has locked keep their lock and their status, and no row is deleted.
RowsKept(t) ==
    /\ \A r \in Locks : locked'[r] = t <=> locked[r] = t
    /\ \A r \in Rows : locked[r] = t => db'[r].status = db[r].status
    /\ \A r \in Rows : db[r] # NoRow => db'[r] # NoRow

LEMMA Framed ==
    ASSUME IInv, NEW t \in Sessions, sess'[t] = sess[t], RowsKept(t)
    PROVE  SessionOK(t)'
<1>1. SessionOK(t) /\ sess[t] \in Session
    BY DEF IInv
<1>2. /\ Unwritten(t)' = Unwritten(t) /\ Written(t)' = Written(t)
      /\ Idle(t)' = Idle(t) /\ ToWrite(t)' = ToWrite(t)
      /\ HasWritten(t)' = HasWritten(t)
    BY DEF Unwritten, Written, Idle, ToWrite, HasWritten
<1>3. ASSUME NEW r \in Rows PROVE ReadOK(t, r)' /\ ChangeOK(t, r)'
  <2>1. ReadOK(t, r) /\ ChangeOK(t, r) /\ r \in Locks
      BY <1>1 DEF SessionOK, RowsOK, Locks
  <2>2. ReadOK(t, r)'
      BY <2>1 DEF ReadOK, RowsKept, Handlers
  <2>3. ChangeOK(t, r)'
      BY <2>1 DEF ChangeOK, RowsKept
  <2>4. QED BY <2>2, <2>3
<1>4. \A r \in Locks : HeldOK(t, r)'
    BY <1>1 DEF SessionOK, RowsOK, HeldOK, RowsKept
<1>5. InHand(t)'
  <2>1. InHand(t) /\ sess[t].todo \subseteq Locks /\ Others \subseteq Locks
      BY <1>1 DEF SessionOK, Session, Locks
  <2>2. QED BY <1>2, <2>1 DEF InHand, RowsKept
<1>6. QED BY <1>1, <1>3, <1>4, <1>5 DEF SessionOK, RowsOK

\* The part of the invariant that is about sessions, after a step.
SessionsKept == /\ sess' \in [Sessions -> Session]
                /\ \A t \in Sessions : SessionOK(t)'

\* A step that changes no row and no lock, of a session that keeps what it has
\* read and flushed: what is left to show is where it went.
LEMMA Advanced ==
    ASSUME IInv, NEW s \in Sessions, NEW step \in Phases, NEW e \in Session,
           GoTo(s, step, e), e.copy = sess[s].copy, e.change = sess[s].change,
           UNCHANGED <<db, locked>>,
           HasStep(Kind[s], step), InHand(s)'
    PROVE  SessionsKept
<1>1. /\ sess' \in [Sessions -> Session] /\ sess'[s].at = step
      /\ sess'[s].copy = sess[s].copy /\ sess'[s].change = sess[s].change
      /\ \A t \in Sessions \ {s} : sess'[t] = sess[t]
    BY WentTo
<1>2. RowsOK(s)'
  <2>1. RowsOK(s)
      BY DEF IInv, SessionOK
  <2>2. QED BY <1>1, <2>1 DEF RowsOK, ReadOK, ChangeOK, HeldOK
<1>3. SessionOK(s)'
    BY <1>1, <1>2 DEF SessionOK
<1>4. ASSUME NEW t \in Sessions \ {s} PROVE SessionOK(t)'
  <2>1. RowsKept(t)
      BY DEF RowsKept
  <2>2. QED BY <1>1, <2>1, Framed
<1>5. QED BY <1>1, <1>3, <1>4 DEF SessionsKept

\* A session that ends without a commit.
LEMMA Quit ==
    ASSUME IInv, NEW s \in Sessions, End(s), UNCHANGED db
    PROVE  SessionsKept
<1>1. ASSUME NEW t \in Sessions \ {s} PROVE SessionOK(t)'
  <2>1. RowsKept(t)
      BY Ended DEF RowsKept, Locks
  <2>2. QED BY <2>1, Ended, Framed
<1>2. QED BY <1>1, Ended, ClosedOK DEF SessionsKept

\* The user is let in by nobody, or by a session that owes a row, or there is
\* a row.
LEMMA StillAdmitted ==
    ASSUME IInv, inside' => inside,
           \A r \in Rows : db[r] # NoRow => db'[r] # NoRow,
           \A t \in Sessions : Owes(t) => Owes(t)' \/ Stored' # {}
    PROVE  Admitted'
BY DEF IInv, Admitted, Stored

\* Without a change of the table of grants the invariant is about sessions,
\* the admission, and the types of the rest.
LEMMA KeepsRows ==
    ASSUME IInv, SessionsKept, Admitted', UNCHANGED db,
           inside' \in BOOLEAN,
           locked' \in [Locks -> Sessions \cup {Nobody}],
           profile' \in Sessions \cup {Nobody},
           eval' \in Sessions \cup {Nobody}
    PROVE  IInv'
<1>1. RevokedIsSettled'
    BY DEF IInv, RevokedIsSettled
<1>2. ASSUME NEW t \in Sessions
      PROVE  /\ sess'[t].at \in Phases /\ sess'[t].saw \in BOOLEAN
             /\ sess'[t].row \in Locks \cup {NewRow}
             /\ sess'[t].todo \subseteq Locks
             /\ sess'[t].copy \in [Rows -> Saved \cup {NoRow}]
             /\ sess'[t].change \in [Rows -> Change \cup {NoRow}]
    BY DEF SessionsKept, Session
<1>3. db' \in [Rows -> Saved \cup {NoRow}]
    BY DEF IInv, TypeOK
<1>4. TypeOK'
    BY <1>2, <1>3 DEF TypeOK
<1>5. QED BY <1>1, <1>4 DEF IInv, SessionsKept

-----------------------------------------------------------------------------
(* Steps that write no row.                                                *)

\* A session that goes on with what it has read and flushed.
LEMMA Onward ==
    ASSUME IInv, NEW s \in Sessions, NEW step \in Phases, NEW e \in Session,
           GoTo(s, step, e), e.copy = sess[s].copy, e.change = sess[s].change
    PROVE  /\ sess'[s].at = step
           /\ sess'[s].row = IF step = "turn" THEN NewRow ELSE e.row
           /\ sess'[s].saw = (e.saw /\ step # "turn")
           /\ sess'[s].todo = e.todo
           /\ Unwritten(s)' = Unwritten(s) /\ Written(s)' = Written(s)
           /\ \A t \in Sessions \ {s} : Owes(t)' = Owes(t)
BY WentTo DEF Unwritten, Written, Owes

\* The locks of Redis and of the profile.
LEMMA LockStep ==
    ASSUME IInv, NEW s \in Sessions,
           lock_eval(s) \/ unlock_eval(s) \/ upsert_profile(s)
    PROVE  IInv'
<1> DEFINE step == After(s, sess[s].at)
<1>1. /\ GoTo(s, step, sess[s]) /\ UNCHANGED <<db, locked, inside>>
      /\ sess[s].at \in {"lock", "unlock", "upsert"}
      /\ profile' \in Sessions \cup {Nobody} /\ eval' \in Sessions \cup {Nobody}
    BY DEF lock_eval, unlock_eval, upsert_profile, At, tables, GoOn, IInv, TypeOK
<1>2. sess[s] \in Session /\ InHand(s)
    BY DEF IInv, SessionOK
<1>3. \/ sess[s].at = "lock"   /\ step = "evaluate" /\ Kind[s] = "check"
      \/ sess[s].at = "upsert" /\ step = "evaluate" /\ Kind[s] = "request"
      \/ sess[s].at = "upsert" /\ step = "load"     /\ Kind[s] \in Handlers
      \/ sess[s].at = "unlock" /\ step = "commit"   /\ Kind[s] = "check"
    BY <1>1, Place, Flow DEF UpdateKinds, Handlers
<1>4. step \in Phases /\ HasStep(Kind[s], step)
    BY <1>3 DEF Phases, HasStep, Handlers
<1> HIDE DEF step
<1>5. InHand(s)'
  <2>1. /\ Unwritten(s)' = Unwritten(s) /\ Written(s)' = Written(s)
        /\ sess'[s].at = step /\ sess'[s].row = sess[s].row
      BY <1>1, <1>2, <1>3, <1>4, Onward
  <2>2. CASE sess[s].at # "unlock"
    <3>1. Idle(s) /\ step \in {"evaluate", "load"}
        BY <1>3, <2>2 DEF Idle
    <3>2. step = "evaluate" => Kind[s] \in Single
        BY <1>3 DEF Single
    <3>3. QED BY <1>1, <1>2, <2>1, <3>1, <3>2
              DEF InHand, Idle, ToWrite, HasWritten, Single
  <2>3. CASE sess[s].at = "unlock"
    <3>1. HasWritten(s) /\ step = "commit" /\ Kind[s] = "check"
        BY <1>3, <2>3 DEF HasWritten
    <3>2. QED BY <1>1, <1>2, <2>1, <3>1
              DEF InHand, Idle, ToWrite, HasWritten, Single
  <2>4. QED BY <2>2, <2>3
<1>6. SessionsKept
    BY <1>1, <1>2, <1>4, <1>5, Advanced
<1>7. Admitted'
  <2>1. Owes(s) => Owes(s)'
    <3>1. sess'[s].at = step /\ sess'[s].saw = (sess[s].saw /\ step # "turn")
        BY <1>1, <1>2, <1>4, Onward
    <3>2. QED BY <1>3, <3>1 DEF Owes
  <2>2. \A t \in Sessions \ {s} : Owes(t)' = Owes(t)
      BY <1>1, <1>2, <1>4, Onward
  <2>3. QED BY <1>1, <2>1, <2>2, StillAdmitted
<1>8. QED BY <1>1, <1>6, <1>7, KeepsRows DEF IInv, TypeOK

\* A removal ends the user's presence, and with it what is owed.
LEMMA RemoveStep ==
    ASSUME IInv, NEW s \in Sessions, remove_and_unban(s)
    PROVE  IInv'
<1>1. /\ sess[s].at = "remove" /\ Kind[s] = "expiry"
      /\ GoTo(s, "write", sess[s])
      /\ UNCHANGED <<db, locked, profile, eval>> /\ inside' = FALSE
    BY Place, Flow DEF remove_and_unban, At, tables, GoOn
<1>2. sess[s] \in Session /\ InHand(s) /\ "write" \in Phases
    BY DEF IInv, SessionOK, Phases
<1>3. InHand(s)'
  <2>1. /\ Unwritten(s)' = Unwritten(s)
        /\ sess'[s].at = "write" /\ sess'[s].row = sess[s].row
      BY <1>1, <1>2, Onward
  <2>2. QED BY <1>1, <1>2, <2>1 DEF InHand, Idle, ToWrite, HasWritten, Single
<1>4. SessionsKept
    BY <1>1, <1>2, <1>3, Advanced DEF HasStep
<1>5. Admitted'
    BY <1>1 DEF Admitted
<1>6. QED BY <1>1, <1>4, <1>5, KeepsRows DEF IInv, TypeOK

\* An approval: whoever is let in has a row, or the session owes it.
LEMMA ApproveStep ==
    ASSUME IInv, NEW s \in Sessions, approve(s)
    PROVE  IInv'
<1> DEFINE step == After(s, "approve")
<1>1. PICK asked \in {FALSE, ~inside} :
         /\ inside' = (inside \/ (sess[s].saw /\ asked))
         /\ IF Kind[s] = "request" /\ sess[s].saw /\ ~asked
            THEN End(s)
            ELSE GoOn(s, sess[s]) /\ UNCHANGED <<locked, profile>>
    BY DEF approve
<1>2. /\ sess[s].at = "approve" /\ UNCHANGED <<db, eval>>
      /\ sess[s] \in Session /\ InHand(s)
      /\ inside' \in BOOLEAN
    BY <1>1 DEF approve, At, IInv, TypeOK, SessionOK
<1>3. Kind[s] \in {"check", "request", "joined"}
    BY <1>2, Place
<1>4. ~Owes(s)
    BY <1>2 DEF Owes
<1>5. Kind[s] = "joined" => Stored # {}
  <2> SUFFICES ASSUME Kind[s] = "joined" PROVE Stored # {}
      OBVIOUS
  <2>1. PICK r \in Rows : sess[s].change[r] # NoRow
      BY <1>2 DEF InHand, HasWritten, Written
  <2>2. db[r] # NoRow
      BY <2>1 DEF IInv, SessionOK, RowsOK, ChangeOK, Single
  <2>3. QED BY <2>2 DEF Stored
<1>6. CASE End(s) /\ ~asked
  <2>1. SessionsKept
      BY <1>2, <1>6, Quit
  <2>2. Admitted'
    <3>1. \A t \in Sessions \ {s} : Owes(t)' = Owes(t)
        BY <1>6, Ended DEF Owes
    <3>2. QED BY <1>1, <1>2, <1>4, <1>6, <3>1, StillAdmitted
  <2>3. QED BY <1>2, <1>6, <2>1, <2>2, Ended, KeepsRows DEF IInv, TypeOK
<1>7. CASE GoOn(s, sess[s]) /\ UNCHANGED <<locked, profile>>
  <2>1. GoTo(s, step, sess[s])
      BY <1>2, <1>7 DEF GoOn
  <2>2. \/ Kind[s] = "check"   /\ step = "unlock"
        \/ Kind[s] = "request" /\ step = "write"
        \/ Kind[s] = "joined"  /\ step = "turn"
      BY <1>3, Flow
  <2>3. step \in Phases /\ HasStep(Kind[s], step)
      BY <2>2 DEF Phases, HasStep
  <2> HIDE DEF step
  <2>4. /\ Unwritten(s)' = Unwritten(s) /\ Written(s)' = Written(s)
        /\ sess'[s].at = step
        /\ sess'[s].row = IF step = "turn" THEN NewRow ELSE sess[s].row
        /\ sess'[s].saw = (sess[s].saw /\ step # "turn")
        /\ \A t \in Sessions \ {s} : Owes(t)' = Owes(t)
      BY <1>2, <2>1, <2>3, Onward
  <2>5. InHand(s)'
      BY <1>2, <2>2, <2>4 DEF InHand, Idle, ToWrite, HasWritten, Single
  <2>6. SessionsKept
      BY <1>2, <1>7, <2>1, <2>3, <2>5, Advanced
  <2>7. Admitted'
    <3>1. CASE inside' => inside
        BY <1>2, <1>4, <2>4, <3>1, StillAdmitted
    <3>2. CASE sess[s].saw /\ Kind[s] # "joined"
      <4>1. Owes(s)'
          BY <2>2, <2>4, <3>2 DEF Owes
      <4>2. QED BY <4>1 DEF Admitted
    <3>3. CASE Kind[s] = "joined"
        BY <1>2, <1>5, <3>3 DEF Admitted, Stored
    <3>4. QED BY <1>1, <3>1, <3>2, <3>3
  <2>8. QED BY <1>2, <1>7, <2>6, <2>7, KeepsRows DEF IInv, TypeOK
<1>8. QED BY <1>1, <1>6, <1>7

\* The loop takes the next row, or commits, or flushes a row of another policy,
\* or ends by an error.
LEMMA TurnStep ==
    ASSUME IInv, NEW s \in Sessions, turn(s)
    PROVE  IInv'
<1>1. /\ sess[s].at = "turn" /\ UNCHANGED <<inside, db, eval>>
      /\ sess[s] \in Session /\ InHand(s)
      /\ Kind[s] \in Watchers \cup Handlers
    BY Place DEF turn, At, IInv, SessionOK
<1>2. ~Owes(s)
    BY <1>1 DEF Owes
<1>3. CASE End(s)
  <2>1. SessionsKept
      BY <1>1, <1>3, Quit
  <2>2. Admitted'
    <3>1. \A t \in Sessions \ {s} : Owes(t)' = Owes(t)
        BY <1>3, Ended DEF Owes
    <3>2. QED BY <1>1, <1>2, <3>1, StillAdmitted
  <2>3. QED BY <1>1, <1>3, <2>1, <2>2, Ended, KeepsRows DEF IInv, TypeOK
<1>4. ASSUME NEW step \in {"evaluate", "remove", "commit", "flush"},
             NEW r \in Locks \cup {NewRow},
             GoTo(s, step, [sess[s] EXCEPT !.row = r]),
             UNCHANGED <<locked, profile>>,
             HasStep(Kind[s], step),
             step = "flush" => r \in Others /\ locked[r] # s,
             step \in {"evaluate", "remove"} => r \in Unwritten(s)
      PROVE  IInv'
  <2> DEFINE e == [sess[s] EXCEPT !.row = r]
  <2>1. /\ e \in Session /\ e.copy = sess[s].copy /\ e.change = sess[s].change
        /\ e.row = r
      BY <1>1 DEF Session
  <2>2. GoTo(s, step, e) /\ step \in Phases
      BY <1>4 DEF Phases
  <2> HIDE DEF e
  <2>3. /\ Unwritten(s)' = Unwritten(s) /\ Written(s)' = Written(s)
        /\ sess'[s].at = step /\ sess'[s].row = r
        /\ \A t \in Sessions \ {s} : Owes(t)' = Owes(t)
      BY <1>4, <2>1, <2>2, Onward
  <2>4. InHand(s)'
      BY <1>1, <1>4, <2>3
         DEF InHand, Idle, ToWrite, HasWritten, Single, Watchers, Handlers
  <2>5. SessionsKept
      BY <1>1, <1>4, <2>1, <2>2, <2>4, Advanced
  <2>6. Admitted'
      BY <1>1, <1>2, <2>3, StillAdmitted
  <2>7. QED BY <1>1, <1>4, <2>5, <2>6, KeepsRows DEF IInv, TypeOK
<1>5. CASE /\ \E r \in Unwritten(s) : GoOn(s, [sess[s] EXCEPT !.row = r])
           /\ UNCHANGED <<locked, profile>>
  <2>1. PICK r \in Unwritten(s) : GoOn(s, [sess[s] EXCEPT !.row = r])
      BY <1>5
  <2>2. PICK step \in {"evaluate", "remove"} :
           After(s, "turn") = step /\ HasStep(Kind[s], step)
      BY <1>1, Flow DEF HasStep, Watchers, Handlers
  <2>3. GoTo(s, step, [sess[s] EXCEPT !.row = r])
      BY <1>1, <2>1, <2>2 DEF GoOn
  <2>4. r \in Locks \cup {NewRow}
      BY DEF Unwritten, Locks
  <2>5. QED BY <1>4, <1>5, <2>2, <2>3, <2>4
<1>6. CASE GoTo(s, "commit", sess[s]) /\ UNCHANGED <<locked, profile>>
  <2>1. sess[s] = [sess[s] EXCEPT !.row = sess[s].row]
        /\ sess[s].row \in Locks \cup {NewRow}
      BY <1>1 DEF Session
  <2>2. HasStep(Kind[s], "commit")
      BY <1>1 DEF HasStep, Watchers, Handlers
  <2>3. GoTo(s, "commit", [sess[s] EXCEPT !.row = sess[s].row])
      BY <1>6, <2>1
  <2>4. QED BY <1>4, <1>6, <2>1, <2>2, <2>3
<1>7. CASE /\ Kind[s] # "joined"
           /\ \E o \in Others : /\ locked[o] # s
                                /\ GoTo(s, "flush", [sess[s] EXCEPT !.row = o])
           /\ UNCHANGED <<locked, profile>>
  <2>1. PICK o \in Others : /\ locked[o] # s
                            /\ GoTo(s, "flush", [sess[s] EXCEPT !.row = o])
      BY <1>7
  <2>2. o \in Locks \cup {NewRow} /\ HasStep(Kind[s], "flush")
      BY <1>1, <1>7 DEF Locks, HasStep, Watchers, Handlers
  <2>3. QED BY <1>4, <1>7, <2>1, <2>2
<1>8. QED BY <1>3, <1>5, <1>6, <1>7 DEF turn

-----------------------------------------------------------------------------
(* Reading and locking.                                                    *)

\* Row r is read by session s into what it takes along.
ReadNow(s, r, row) ==
    /\ row = db[r] /\ db[r] # NoRow
    /\ Kind[s] = "expiry" => row = [status |-> "GRACE", deadline |-> "passed"]
    /\ Kind[s] \in Handlers => locked'[r] = s
    /\ Kind[s] = "left" => row.status # "REVOKED"

\* A step that takes locks that nobody has, reads rows, or forgets some.
LEMMA Read ==
    ASSUME IInv, NEW s \in Sessions, NEW step \in Phases, NEW e \in Session,
           GoTo(s, step, e), e.change = sess[s].change, UNCHANGED db,
           locked' \in [Locks -> Sessions \cup {Nobody}],
           \A r \in Locks : locked'[r] # locked[r] =>
              locked[r] = Nobody /\ locked'[r] = s /\ Kind[s] \notin Single,
           \A r \in Rows : \/ e.copy[r] \in {sess[s].copy[r], NoRow}
                           \/ ReadNow(s, r, e.copy[r]),
           HasStep(Kind[s], step), InHand(s)'
    PROVE  SessionsKept
<1>1. /\ sess' \in [Sessions -> Session] /\ sess'[s].at = step
      /\ sess'[s].copy = e.copy /\ sess'[s].change = sess[s].change
      /\ \A t \in Sessions \ {s} : sess'[t] = sess[t]
    BY WentTo
<1>2. ASSUME NEW r \in Rows PROVE ReadOK(s, r)' /\ ChangeOK(s, r)'
  <2>1. /\ ReadOK(s, r) /\ ChangeOK(s, r) /\ r \in Locks
        /\ locked[r] = s => locked'[r] = s
        /\ db[r] \in Saved \cup {NoRow}
      BY SessionsAssumption DEF IInv, TypeOK, SessionOK, RowsOK, Locks
  <2>2. ChangeOK(s, r)'
      BY <1>1, <2>1 DEF ChangeOK
  <2>3. CASE e.copy[r] \in {sess[s].copy[r], NoRow}
      BY <1>1, <2>1, <2>2, <2>3 DEF ReadOK, Handlers
  <2>4. CASE ReadNow(s, r, e.copy[r])
      BY <1>1, <2>1, <2>2, <2>4 DEF ReadOK, ReadNow
  <2>5. QED BY <2>3, <2>4
<1>3. \A r \in Locks : HeldOK(s, r)'
  <2>1. \A r \in Locks : HeldOK(s, r)
      BY DEF IInv, SessionOK, RowsOK
  <2>2. QED BY <1>1, <2>1 DEF HeldOK
<1>4. SessionOK(s)'
    BY <1>1, <1>2, <1>3 DEF SessionOK, RowsOK
<1>5. ASSUME NEW t \in Sessions \ {s} PROVE SessionOK(t)'
  <2>1. RowsKept(t)
    <3>1. \A r \in Locks : locked'[r] = t <=> locked[r] = t
        BY SessionsAssumption
    <3>2. QED BY <3>1 DEF RowsKept
  <2>2. QED BY <1>1, <2>1, Framed
<1>6. QED BY <1>1, <1>4, <1>5 DEF SessionsKept

\* A session that owed nothing before its step disturbs no admission.
LEMMA NothingOwed ==
    ASSUME IInv, NEW s \in Sessions, ~Owes(s), UNCHANGED <<inside, db>>,
           \A t \in Sessions \ {s} : sess'[t] = sess[t]
    PROVE  Admitted'
<1>1. \A t \in Sessions \ {s} : Owes(t)' = Owes(t)
    BY DEF Owes
<1>2. QED BY <1>1, StillAdmitted

\* Membership is looked up; the session goes on with a verdict, or the loop
\* passes over the row.
LEMMA EvaluateStep ==
    ASSUME IInv, NEW s \in Sessions, evaluate(s)
    PROVE  IInv'
<1>1. /\ sess[s].at = "evaluate" /\ UNCHANGED <<inside, tables, eval>>
      /\ sess[s] \in Session /\ InHand(s)
    BY DEF evaluate, At, IInv, SessionOK
<1>2. Kind[s] \in Kinds /\ Kind[s] # "expiry"
    BY <1>1, Place
<1>3. ~Owes(s)
    BY <1>1 DEF Owes
<1>4. SessionsKept /\ \A t \in Sessions \ {s} : sess'[t] = sess[t]
  <2>1. ASSUME NEW saw \in BOOLEAN, GoOn(s, [sess[s] EXCEPT !.saw = saw])
        PROVE  SessionsKept /\ \A t \in Sessions \ {s} : sess'[t] = sess[t]
    <3> DEFINE e    == [sess[s] EXCEPT !.saw = saw]
               step == After(s, "evaluate")
    <3>1. /\ e \in Session /\ e.copy = sess[s].copy /\ e.change = sess[s].change
          /\ e.row = sess[s].row
        BY <1>1 DEF Session
    <3>2. GoTo(s, step, e)
        BY <1>1, <2>1 DEF GoOn
    <3>3. /\ step \in Phases /\ HasStep(Kind[s], step)
          /\ \/ Kind[s] \in Single    /\ step = "load"
             \/ Kind[s] \notin Single /\ step = "write"
        BY <1>2, Flow DEF Phases, HasStep, Kinds, Handlers, Watchers, Single
    <3> HIDE DEF e, step
    <3>4. /\ Unwritten(s)' = Unwritten(s) /\ Written(s)' = Written(s)
          /\ sess'[s].at = step /\ sess'[s].row = sess[s].row
        BY <3>1, <3>2, <3>3, Onward
    <3>5. InHand(s)'
        BY <1>1, <3>3, <3>4
           DEF InHand, Idle, ToWrite, HasWritten, Single, tables
    <3>6. SessionsKept
        BY <1>1, <3>1, <3>2, <3>3, <3>5, Advanced DEF tables
    <3>7. QED BY <3>1, <3>2, <3>3, <3>6, WentTo
  <2>2. ASSUME Kind[s] \in {"left", "joined", "restoration"},
               GoTo(s, "turn", [sess[s] EXCEPT !.copy[sess[s].row] = NoRow])
        PROVE  SessionsKept /\ \A t \in Sessions \ {s} : sess'[t] = sess[t]
    <3> DEFINE copy == [sess[s].copy EXCEPT ![sess[s].row] = NoRow]
               e    == [sess[s] EXCEPT !.copy = copy]
    <3>1. /\ copy \in [Rows -> Saved \cup {NoRow}]
          /\ \A r \in Rows : copy[r] \in {sess[s].copy[r], NoRow}
        BY <1>1 DEF Session
    <3>2. GoTo(s, "turn", e)
        BY <2>2
    <3> HIDE DEF copy
    <3>3. e \in Session /\ e.copy = copy /\ e.change = sess[s].change
        BY <1>1, <3>1 DEF Session
    <3> HIDE DEF e
    <3>4. "turn" \in Phases /\ HasStep(Kind[s], "turn")
        BY <2>2 DEF Phases, HasStep
    <3>5. sess'[s].at = "turn" /\ \A t \in Sessions \ {s} : sess'[t] = sess[t]
        BY <3>2, <3>3, <3>4, WentTo
    <3>6. InHand(s)'
        BY <3>5 DEF InHand, Idle, ToWrite, HasWritten
    <3>7. locked' \in [Locks -> Sessions \cup {Nobody}]
        BY <1>1 DEF IInv, TypeOK, tables
    <3>8. SessionsKept
        BY <1>1, <3>1, <3>2, <3>3, <3>4, <3>6, <3>7, Read DEF tables
    <3>9. QED BY <3>5, <3>8
  <2>3. QED BY <2>1, <2>2 DEF evaluate
<1>5. Admitted'
    BY <1>1, <1>3, <1>4, NothingOwed DEF tables
<1>6. QED BY <1>1, <1>4, <1>5, KeepsRows DEF IInv, TypeOK, tables

\* The row of another policy is locked when nobody holds it.
LEMMA FlushStep ==
    ASSUME IInv, NEW s \in Sessions, flush(s)
    PROVE  IInv'
<1>1. /\ sess[s].at = "flush" /\ UNCHANGED <<inside, db, profile, eval>>
      /\ sess[s] \in Session /\ InHand(s)
      /\ locked[sess[s].row] = Nobody
      /\ locked' = [locked EXCEPT ![sess[s].row] = s]
      /\ Kind[s] \in Watchers \cup {"left"}
    BY Place DEF flush, At, IInv, SessionOK
<1>2. GoTo(s, "turn", sess[s])
    BY <1>1, Flow DEF flush, GoOn, Watchers
<1>3. /\ locked' \in [Locks -> Sessions \cup {Nobody}]
      /\ \A r \in Locks : locked'[r] # locked[r] =>
            locked[r] = Nobody /\ locked'[r] = s /\ Kind[s] \notin Single
    BY <1>1 DEF IInv, TypeOK, Single, Watchers
<1>4. "turn" \in Phases /\ HasStep(Kind[s], "turn")
    BY <1>1 DEF Phases, HasStep, Watchers
<1>5. sess'[s].at = "turn" /\ \A t \in Sessions \ {s} : sess'[t] = sess[t]
    BY <1>1, <1>2, <1>4, WentTo
<1>6. InHand(s)'
    BY <1>5 DEF InHand, Idle, ToWrite, HasWritten
<1>7. SessionsKept
    BY <1>1, <1>2, <1>3, <1>4, <1>6, Read
<1>8. Admitted'
    BY <1>1, <1>5, NothingOwed DEF Owes
<1>9. QED BY <1>1, <1>3, <1>7, <1>8, KeepsRows DEF IInv, TypeOK

LEMMA LoadByKeyStep ==
    ASSUME IInv, NEW s \in Sessions, load_by_key(s)
    PROVE  IInv'
<1> DEFINE step == After(s, "load")
<1>1. /\ sess[s].at = "load" /\ Kind[s] \in Single /\ UNCHANGED <<inside, db>>
      /\ sess[s] \in Session /\ InHand(s) /\ RowsOK(s)
    BY DEF load_by_key, At, Single, IInv, SessionOK
<1>2. ~Owes(s) /\ Idle(s)
    BY <1>1 DEF Owes, Idle
<1>3. /\ step \in Phases /\ HasStep(Kind[s], step)
      /\ \/ Kind[s] = "check"   /\ step = "write"
         \/ Kind[s] = "request" /\ step = "approve"
    BY <1>1, Flow DEF Phases, HasStep, Single
<1>4. CASE Raises(s)
  <2>1. End(s) /\ eval' \in Sessions \cup {Nobody}
      BY <1>4 DEF Raises, IInv, TypeOK
  <2>2. SessionsKept
      BY <1>1, <2>1, Quit
  <2>3. Admitted'
      BY <1>1, <1>2, <2>1, Ended, NothingOwed
  <2>4. QED BY <1>1, <2>1, <2>2, <2>3, Ended, KeepsRows DEF IInv, TypeOK
<1>5. ASSUME NEW r \in Locks \cup {NewRow}, NEW copy,
             copy \in [Rows -> Saved \cup {NoRow}],
             GoOn(s, [sess[s] EXCEPT !.row = r, !.copy = copy]),
             UNCHANGED <<locked, profile, eval>>,
             \/ r = NewRow /\ \A q \in Rows : copy[q] = NoRow
             \/ /\ r \in Rows /\ copy[r] = db[r] /\ db[r] # NoRow
                /\ \A q \in Rows \ {r} : copy[q] = sess[s].copy[q]
      PROVE  IInv'
  <2> DEFINE e == [sess[s] EXCEPT !.row = r, !.copy = copy]
  <2>1. /\ e \in Session /\ e.copy = copy /\ e.change = sess[s].change
        /\ e.row = r
      BY <1>1, <1>5 DEF Session
  <2>2. GoTo(s, step, e)
      BY <1>1, <1>5 DEF GoOn
  <2> HIDE DEF e, step
  <2>3. /\ sess'[s].at = step /\ sess'[s].row = r /\ sess'[s].copy = copy
        /\ sess'[s].change = sess[s].change
        /\ \A t \in Sessions \ {s} : sess'[t] = sess[t]
      BY <1>3, <2>1, <2>2, WentTo
  <2>4. ToWrite(s)' /\ ~Idle(s)' /\ ~HasWritten(s)'
      BY <1>1, <1>3, <2>3 DEF ToWrite, Idle, HasWritten, Single
  <2>5. /\ Written(s)' = {}
        /\ \/ r = NewRow /\ Unwritten(s)' = {}
           \/ r \in Unwritten(s)'
    <3>1. Written(s) = {}
        BY <1>1, <1>2 DEF InHand
    <3>2. QED BY <1>5, <2>3, <3>1 DEF Written, Unwritten
  <2>6. InHand(s)'
      BY <1>1, <1>3, <2>3, <2>4, <2>5 DEF InHand
  <2>7. \A q \in Rows : \/ e.copy[q] \in {sess[s].copy[q], NoRow}
                        \/ ReadNow(s, q, e.copy[q])
      BY <1>1, <1>5, <2>1 DEF ReadNow, Single, Handlers
  <2>8. locked' \in [Locks -> Sessions \cup {Nobody}]
      BY <1>5 DEF IInv, TypeOK
  <2>9. SessionsKept
      BY <1>1, <1>3, <1>5, <2>1, <2>2, <2>6, <2>7, <2>8, Read
  <2>10. Admitted'
      BY <1>1, <1>2, <2>3, NothingOwed
  <2>11. QED BY <1>1, <1>5, <2>9, <2>10, KeepsRows DEF IInv, TypeOK
<1>6. CASE /\ Stored = {} /\ GoOn(s, sess[s])
           /\ UNCHANGED <<locked, profile, eval>>
  <2>1. sess[s].row = NewRow /\ \A q \in Rows : sess[s].copy[q] = NoRow
      BY <1>1, <1>2 DEF InHand, Unwritten
  <2>2. /\ sess[s].copy \in [Rows -> Saved \cup {NoRow}]
        /\ sess[s] = [sess[s] EXCEPT !.row = NewRow, !.copy = sess[s].copy]
      BY <1>1, <2>1 DEF Session
  <2>3. GoOn(s, [sess[s] EXCEPT !.row = NewRow, !.copy = sess[s].copy])
      BY <1>6, <2>2
  <2>4. QED BY <1>5, <1>6, <2>1, <2>2, <2>3
<1>7. CASE /\ \E r \in Stored :
                 GoOn(s, [sess[s] EXCEPT !.row = r, !.copy[r] = db[r]])
           /\ UNCHANGED <<locked, profile, eval>>
  <2>1. PICK r \in Stored :
           GoOn(s, [sess[s] EXCEPT !.row = r, !.copy[r] = db[r]])
      BY <1>7
  <2> DEFINE copy == [sess[s].copy EXCEPT ![r] = db[r]]
  <2>2. r \in Rows /\ db[r] # NoRow /\ db[r] \in Saved \cup {NoRow}
      BY DEF Stored, IInv, TypeOK
  <2>3. /\ copy \in [Rows -> Saved \cup {NoRow}] /\ copy[r] = db[r]
        /\ \A q \in Rows \ {r} : copy[q] = sess[s].copy[q]
      BY <1>1, <2>2 DEF Session
  <2>4. GoOn(s, [sess[s] EXCEPT !.row = r, !.copy = copy])
    <3>1. [sess[s] EXCEPT !.row = r, !.copy[r] = db[r]]
             = [sess[s] EXCEPT !.row = r, !.copy = copy]
        BY <1>1 DEF Session
    <3>2. QED BY <2>1, <3>1
  <2> HIDE DEF copy
  <2>5. r \in Locks
      BY <2>2 DEF Locks
  <2>6. QED BY <1>5, <1>7, <2>2, <2>3, <2>4, <2>5
<1>8. QED BY <1>4, <1>6, <1>7 DEF load_by_key

\* The SELECT FOR UPDATE begins: it finds nothing, or has rows to lock.
LEMMA LoadForUpdateStep ==
    ASSUME IInv, NEW s \in Sessions, load_for_update(s)
    PROVE  IInv'
<1>1. /\ sess[s].at = "load" /\ Kind[s] \in Handlers
      /\ UNCHANGED <<inside, db, eval>>
      /\ sess[s] \in Session /\ InHand(s)
    BY DEF load_for_update, At, Handlers, IInv, SessionOK
<1>2. ~Owes(s) /\ Idle(s)
    BY <1>1 DEF Owes, Idle
<1>3. CASE End(s)
  <2>1. SessionsKept
      BY <1>1, <1>3, Quit
  <2>2. Admitted'
      BY <1>1, <1>2, <1>3, Ended, NothingOwed
  <2>3. QED BY <1>1, <1>3, <2>1, <2>2, Ended, KeepsRows DEF IInv, TypeOK
<1>4. ASSUME NEW found \in SUBSET Locks, NEW r \in found,
             GoOn(s, [sess[s] EXCEPT !.row = r, !.todo = found]),
             UNCHANGED <<locked, profile>>
      PROVE  IInv'
  <2> DEFINE e == [sess[s] EXCEPT !.row = r, !.todo = found]
  <2>1. /\ e \in Session /\ e.copy = sess[s].copy /\ e.change = sess[s].change
        /\ e.row = r /\ e.todo = found
      BY <1>1 DEF Session
  <2>2. GoTo(s, "claim", e) /\ "claim" \in Phases /\ HasStep(Kind[s], "claim")
      BY <1>1, <1>4, Flow DEF GoOn, Phases, HasStep, Handlers
  <2> HIDE DEF e
  <2>3. /\ sess'[s].at = "claim" /\ sess'[s].row = r /\ sess'[s].todo = found
        /\ \A t \in Sessions \ {s} : sess'[t] = sess[t]
      BY <2>1, <2>2, WentTo
  <2>4. InHand(s)'
    <3>1. \A q \in Locks : locked[q] # s
        BY <1>1, <1>2 DEF InHand
    <3>2. QED BY <1>4, <2>3, <3>1 DEF InHand, Idle, ToWrite, HasWritten
  <2>5. SessionsKept
      BY <1>1, <1>4, <2>1, <2>2, <2>4, Advanced
  <2>6. Admitted'
      BY <1>1, <1>2, <2>3, NothingOwed
  <2>7. QED BY <1>1, <1>4, <2>5, <2>6, KeepsRows DEF IInv, TypeOK
<1>5. CASE ~End(s)
  <2>1. PICK others \in SUBSET Others :
           \E r \in {q \in Stored : db[q].status # "REVOKED"} \cup others :
              /\ GoOn(s, [sess[s] EXCEPT !.row = r, !.todo =
                    {q \in Stored : db[q].status # "REVOKED"} \cup others])
              /\ UNCHANGED <<locked, profile>>
      BY <1>5 DEF load_for_update
  <2>2. {q \in Stored : db[q].status # "REVOKED"} \cup others \in SUBSET Locks
      BY DEF Stored, Locks
  <2>3. QED BY <1>4, <2>1, <2>2
<1>6. QED BY <1>3, <1>5

\* It locks a row that nobody holds, and reads what the row is then.
LEMMA ClaimStep ==
    ASSUME IInv, NEW s \in Sessions, claim(s)
    PROVE  IInv'
<1> DEFINE r    == sess[s].row
           rest == sess[s].todo \ {r}
           copy == IF r \in Rows /\ db[r].status # "REVOKED"
                   THEN [sess[s].copy EXCEPT ![r] = db[r]] ELSE sess[s].copy
           e    == [sess[s] EXCEPT !.todo = rest, !.copy = copy]
<1>1. /\ sess[s].at = "claim" /\ UNCHANGED <<inside, db, profile, eval>>
      /\ sess[s] \in Session /\ InHand(s) /\ Kind[s] \in Handlers
      /\ locked[r] = Nobody /\ locked' = [locked EXCEPT ![r] = s]
      /\ \/ rest = {} /\ GoTo(s, "turn", e)
         \/ \E q \in rest : GoTo(s, "claim", [e EXCEPT !.row = q])
  <2>1. sess[s].at = "claim" /\ Kind[s] \in Handlers
      BY Place DEF claim, At
  <2>2. GoOn(s, e) => GoTo(s, "turn", e)
      BY <2>1, Flow DEF GoOn
  <2>3. [sess[s] EXCEPT !.todo = rest, !.copy =
            IF r \in Rows /\ db[r].status # "REVOKED"
            THEN [@ EXCEPT ![r] = db[r]] ELSE @] = e
      OBVIOUS
  <2>4. \/ rest = {} /\ GoOn(s, e)
        \/ \E q \in rest : GoTo(s, "claim", [e EXCEPT !.row = q])
      BY <2>3 DEF claim
  <2>5. /\ UNCHANGED <<inside, db, profile, eval>>
        /\ locked[r] = Nobody /\ locked' = [locked EXCEPT ![r] = s]
      BY DEF claim, WithForUpdate
  <2>6. sess[s] \in Session /\ InHand(s)
      BY DEF IInv, SessionOK
  <2> HIDE DEF e, r, rest
  <2>7. QED BY <2>1, <2>2, <2>4, <2>5, <2>6
<1>2. /\ r \in sess[s].todo /\ r \in Locks
      /\ rest \subseteq Locks /\ \A q \in rest : locked[q] # s
      /\ r \in Rows => db[r] \in Saved \cup {NoRow}
    BY <1>1 DEF InHand, Session, IInv, TypeOK
<1>3. /\ copy \in [Rows -> Saved \cup {NoRow}]
      /\ locked' \in [Locks -> Sessions \cup {Nobody}] /\ locked'[r] = s
    BY <1>1, <1>2 DEF Session, IInv, TypeOK
<1>4. \A q \in Rows : copy[q] \in {sess[s].copy[q], NoRow} \/ ReadNow(s, q, copy[q])
  <2>1. ASSUME NEW q \in Rows, q = r, db[r].status # "REVOKED", db[r] # NoRow
        PROVE  ReadNow(s, q, copy[q])
      BY <1>1, <1>2, <1>3, <2>1 DEF ReadNow, Session, Handlers
  <2>2. \A q \in Rows : \/ copy[q] = sess[s].copy[q]
                        \/ q = r /\ db[r].status # "REVOKED" /\ copy[q] = db[r]
      BY <1>1 DEF Session
  <2> HIDE DEF copy
  <2>3. QED BY <2>1, <2>2
<1>5. \A q \in Locks : locked'[q] # locked[q] =>
         locked[q] = Nobody /\ locked'[q] = s /\ Kind[s] \notin Single
    BY <1>1 DEF Single, Handlers, IInv, TypeOK
<1>6. ASSUME NEW step \in {"turn", "claim"}, NEW f \in Session,
             GoTo(s, step, f), f.copy = copy, f.change = sess[s].change,
             f.todo = rest, step = "claim" => f.row \in rest
      PROVE  IInv'
  <2> HIDE DEF copy, rest
  <2>1. step \in Phases /\ HasStep(Kind[s], step)
      BY <1>1 DEF Phases, HasStep, Handlers
  <2>2. /\ sess'[s].at = step /\ sess'[s].todo = rest
        /\ step = "claim" => sess'[s].row \in rest
        /\ \A t \in Sessions \ {s} : sess'[t] = sess[t]
      BY <1>6, <2>1, WentTo
  <2>3. step = "claim" => \A q \in rest : locked'[q] # s
      BY <1>1, <1>2 DEF rest, IInv, TypeOK
  <2>4. InHand(s)'
      BY <2>2, <2>3 DEF InHand, Idle, ToWrite, HasWritten
  <2>5. SessionsKept
      BY <1>1, <1>3, <1>4, <1>5, <1>6, <2>1, <2>4, Read
  <2>6. Admitted'
      BY <1>1, <2>2, NothingOwed DEF Owes
  <2>7. QED BY <1>1, <1>3, <2>5, <2>6, KeepsRows DEF IInv, TypeOK
<1>7. /\ e \in Session /\ e.copy = copy /\ e.change = sess[s].change
      /\ e.todo = rest
  <2> HIDE DEF copy
  <2>1. QED BY <1>1, <1>2, <1>3 DEF Session
<1>8. ASSUME NEW q \in rest
      PROVE  LET f == [e EXCEPT !.row = q]
             IN  /\ f \in Session /\ f.copy = copy /\ f.change = sess[s].change
                 /\ f.todo = rest /\ f.row = q
  <2> HIDE DEF e, copy, rest
  <2>1. q \in Locks
      BY <1>2
  <2>2. QED BY <1>7, <2>1 DEF Session
<1> HIDE DEF e, rest, copy, r
<1>9. QED BY <1>1, <1>6, <1>7, <1>8

LEMMA LoadByDeadlineStep ==
    ASSUME IInv, NEW s \in Sessions, load_by_deadline(s)
    PROVE  IInv'
<1> DEFINE due   == IF Kind[s] = "expiry" THEN "passed" ELSE "running"
           found == {r \in Stored : db[r] = [status |-> "GRACE", deadline |-> due]}
           copy  == [r \in Rows |-> IF r \in found THEN db[r] ELSE NoRow]
           e     == [sess[s] EXCEPT !.copy = copy]
<1>1. /\ sess[s].at = "load" /\ Kind[s] \in Watchers
      /\ UNCHANGED <<inside, tables, eval>>
      /\ sess[s] \in Session /\ InHand(s)
    BY DEF load_by_deadline, At, Watchers, IInv, SessionOK
<1>2. GoTo(s, "turn", e)
    BY <1>1, Flow DEF load_by_deadline, GoOn
<1>3. copy \in [Rows -> Saved \cup {NoRow}]
    BY DEF IInv, TypeOK
<1>4. \A r \in Rows : copy[r] = NoRow \/ ReadNow(s, r, copy[r])
    BY <1>1 DEF Stored, ReadNow, Watchers, Handlers
<1> HIDE DEF copy
<1>5. e \in Session /\ e.copy = copy /\ e.change = sess[s].change
    BY <1>1, <1>3 DEF Session
<1> HIDE DEF e
<1>6. "turn" \in Phases /\ HasStep(Kind[s], "turn")
    BY <1>1 DEF Phases, HasStep, Watchers
<1>7. sess'[s].at = "turn" /\ \A t \in Sessions \ {s} : sess'[t] = sess[t]
    BY <1>2, <1>5, <1>6, WentTo
<1>8. InHand(s)'
    BY <1>7 DEF InHand, Idle, ToWrite, HasWritten
<1>9. locked' \in [Locks -> Sessions \cup {Nobody}]
    BY <1>1 DEF IInv, TypeOK, tables
<1>10. SessionsKept
    BY <1>1, <1>2, <1>4, <1>5, <1>6, <1>8, <1>9, Read DEF tables
<1>11. Admitted'
    BY <1>1, <1>7, NothingOwed DEF Owes, tables
<1>12. QED BY <1>1, <1>10, <1>11, KeepsRows DEF IInv, TypeOK, tables

-----------------------------------------------------------------------------
(* Writing.                                                                *)

\* What an UPDATE or INSERT names, given the row that was read.
LEMMA Named ==
    ASSUME NEW kind \in Kinds, NEW saw \in BOOLEAN,
           NEW old \in Saved \cup {NoRow}
    PROVE  LET ch == NetChange(old, Assigned(kind, saw, old))
           IN  /\ ch \in Change
               /\ old = NoRow => ch.status # "same"
               /\ kind = "left" /\ old.status \notin {"NONE", "REVOKED"} =>
                     LeaveNames(old.status, ch)
               /\ kind = "expiry" /\ old = [status   |-> "GRACE",
                                           deadline |-> "passed"] =>
                     ch = [status |-> "REVOKED", deadline |-> "none"]
               /\ kind \notin {"expiry", "left"} => OthersName(ch)
<1> DEFINE new == Assigned(kind, saw, old)
<1>1. CASE kind = "left"
  <2>1. CASE old.status = "NEEDS_REVIEW"
    <3>1. new = [status |-> "same", deadline |-> "same"]
        BY <1>1, <2>1 DEF Assigned
    <3>2. QED BY <1>1, <2>1, <3>1 DEF NetChange, Change, Saved, NoRow, LeaveNames,
       OthersName
  <2>2. CASE old.status # "NEEDS_REVIEW"
    <3>1. new = [status |-> "GRACE", deadline |-> "running"]
        BY <1>1, <2>2 DEF Assigned
    <3>2. QED BY <1>1, <2>2, <3>1 DEF NetChange, Change, Saved, NoRow, LeaveNames,
       OthersName
  <2>3. QED BY <2>1, <2>2
<1>2. CASE kind = "expiry"
  <2>1. new = [status |-> "REVOKED", deadline |-> "none"]
      BY <1>2 DEF Assigned
  <2>2. QED BY <1>2, <2>1 DEF NetChange, Change, Saved, NoRow, LeaveNames,
       OthersName
<1>3. CASE kind \in {"check", "request"} /\ ~saw
  <2>1. /\ new.deadline = "same" /\ new.status \in {"same", "NEEDS_REVIEW"}
        /\ old = NoRow => new.status = "NEEDS_REVIEW"
      BY <1>3 DEF Assigned, NoRow
  <2>2. QED BY <1>3, <2>1 DEF NetChange, Change, Saved, NoRow, LeaveNames,
       OthersName
<1>4. CASE /\ kind \notin {"left", "expiry"}
           /\ ~(kind \in {"check", "request"} /\ ~saw)
  <2>1. new = [status |-> "ACTIVE", deadline |-> "none"]
      BY <1>4 DEF Assigned
  <2>2. QED BY <1>4, <2>1 DEF NetChange, Change, Saved, NoRow, LeaveNames,
       OthersName
<1>5. QED BY <1>1, <1>2, <1>3, <1>4

LEMMA WriteStep ==
    ASSUME IInv, NEW s \in Sessions, write(s)
    PROVE  IInv'
<1> DEFINE step == After(s, "write")
           net(r) == NetChange(sess[s].copy[r],
                        Assigned(Kind[s], sess[s].saw, sess[s].copy[r]))
<1>1. PICK r \in Target(s) :
         /\ locked' = [locked EXCEPT ![r] = s]
         /\ GoOn(s, [sess[s] EXCEPT !.copy[r] = NoRow, !.change[r] = net(r)])
    BY DEF write
<1>2. /\ sess[s].at = "write" /\ UNCHANGED <<inside, db, profile, eval>>
      /\ sess[s].row # NewRow => locked[sess[s].row] \in {Nobody, s}
      /\ sess[s] \in Session /\ InHand(s) /\ RowsOK(s) /\ HasStep(Kind[s], "write")
    BY DEF write, At, IInv, SessionOK
<1>3. /\ step \in Phases /\ HasStep(Kind[s], step)
      /\ \/ Kind[s] = "check"   /\ step = "approve"
         \/ Kind[s] = "request" /\ step = "commit"
         \/ Kind[s] = "joined"  /\ step = "approve"
         \/ Kind[s] \in Watchers \cup {"left"} /\ step = "turn"
    BY <1>2, Flow DEF Phases, HasStep, Kinds, Watchers, Handlers
<1>4. /\ r \in Rows /\ locked[r] \in {Nobody, s}
      /\ \/ sess[s].copy[r] = NoRow /\ db[r] = NoRow /\ Kind[s] \in Single
         \/ sess[s].copy[r] # NoRow
  <2>1. CASE sess[s].row = NewRow
    <3>1. r \in Rows /\ locked[r] = Nobody /\ db[r] = NoRow
        BY <2>1 DEF Target, Unused
    <3>2. Kind[s] \in Single
      <4>1. NewRow \notin Unwritten(s)
          BY SessionsAssumption DEF Unwritten
      <4>2. QED BY <1>2, <2>1, <4>1 DEF InHand
    <3>3. Unwritten(s) = {}
        BY <1>2, <2>1, <3>2, SessionsAssumption DEF InHand, ToWrite, Unwritten
    <3>4. QED BY <3>1, <3>2, <3>3 DEF Unwritten
  <2>2. CASE sess[s].row # NewRow
    <3>1. r = sess[s].row
        BY <2>2 DEF Target
    <3>2. r \in Unwritten(s)
        BY <1>2, <2>2, <3>1 DEF InHand, ToWrite
    <3>3. QED BY <1>2, <2>2, <3>1, <3>2 DEF Unwritten
  <2>3. QED BY <2>1, <2>2
<1>5. /\ sess[s].copy[r] \in Saved \cup {NoRow}
      /\ sess[s].saw \in BOOLEAN /\ Kind[s] \in Kinds
    BY <1>2, <1>4, Flow DEF Session
<1>6. LET old == sess[s].copy[r]
          ch  == net(r)
      IN  /\ ch \in Change
          /\ old = NoRow => ch.status # "same"
          /\ Kind[s] = "left" /\ old.status \notin {"NONE", "REVOKED"} =>
                LeaveNames(old.status, ch)
          /\ Kind[s] = "expiry" /\ old = [status   |-> "GRACE",
                                         deadline |-> "passed"] =>
                ch = [status |-> "REVOKED", deadline |-> "none"]
          /\ Kind[s] \notin {"expiry", "left"} => OthersName(ch)
    BY <1>5, Named
<1> DEFINE copy   == [sess[s].copy EXCEPT ![r] = NoRow]
           change == [sess[s].change EXCEPT ![r] = net(r)]
           e      == [sess[s] EXCEPT !.copy = copy, !.change = change]
<1>7. GoTo(s, step, e)
  <2>1. [sess[s] EXCEPT !.copy[r] = NoRow, !.change[r] = net(r)] = e
      BY <1>2 DEF Session
  <2> HIDE DEF e
  <2>2. QED BY <1>1, <1>2, <2>1 DEF GoOn
<1> HIDE DEF net, step
<1>8. /\ copy \in [Rows -> Saved \cup {NoRow}] /\ copy[r] = NoRow
      /\ \A q \in Rows \ {r} : copy[q] = sess[s].copy[q]
      /\ change \in [Rows -> Change \cup {NoRow}] /\ change[r] = net(r)
      /\ \A q \in Rows \ {r} : change[q] = sess[s].change[q]
    BY <1>2, <1>4, <1>6 DEF Session
<1> HIDE DEF copy, change
<1>9. /\ e \in Session /\ e.copy = copy /\ e.change = change
      /\ e.saw = sess[s].saw
    BY <1>2, <1>8 DEF Session
<1> HIDE DEF e
<1>10. /\ sess' \in [Sessions -> Session] /\ sess'[s].at = step
       /\ sess'[s].copy = copy /\ sess'[s].change = change
       /\ sess'[s].saw = (sess[s].saw /\ step # "turn")
       /\ \A t \in Sessions \ {s} : sess'[t] = sess[t]
    BY <1>3, <1>7, <1>9, WentTo
<1>11. /\ locked' \in [Locks -> Sessions \cup {Nobody}] /\ locked'[r] = s
       /\ \A q \in Locks \ {r} : locked'[q] = locked[q]
    BY <1>1, <1>4 DEF IInv, TypeOK, Locks
<1>12. ASSUME NEW q \in Rows \ {r} PROVE ReadOK(s, q)' /\ ChangeOK(s, q)'
  <2>1. /\ ReadOK(s, q) /\ ChangeOK(s, q) /\ q \in Locks
        /\ locked'[q] = locked[q]
      BY <1>2, <1>11 DEF RowsOK, Locks
  <2>2. /\ sess'[s].copy[q] = sess[s].copy[q]
        /\ sess'[s].change[q] = sess[s].change[q] /\ db'[q] = db[q]
      BY <1>2, <1>8, <1>10
  <2>3. QED BY <2>1, <2>2 DEF ReadOK, ChangeOK
<1>13. ReadOK(s, r)' /\ ChangeOK(s, r)'
  <2> DEFINE old == sess[s].copy[r]
             ch  == net(r)
  <2>1. /\ sess'[s].copy[r] = NoRow /\ sess'[s].change[r] = ch
        /\ locked'[r] = s /\ db'[r] = db[r]
      BY <1>2, <1>8, <1>10, <1>11
  <2>2. old # NoRow =>
          /\ old \in Saved /\ db[r] # NoRow
          /\ Kind[s] = "expiry" =>
                old = [status |-> "GRACE", deadline |-> "passed"]
          /\ Kind[s] = "left" => /\ db[r].status = old.status
                                 /\ old.status # "REVOKED"
      BY <1>2, <1>4 DEF RowsOK, ReadOK
  <2> HIDE DEF ch
  <2>3. /\ ch \in Change
        /\ old = NoRow => ch.status # "same"
        /\ Kind[s] = "left" /\ old.status \notin {"NONE", "REVOKED"} =>
              LeaveNames(old.status, ch)
        /\ Kind[s] = "expiry" /\ old = [status   |-> "GRACE",
                                       deadline |-> "passed"] =>
              ch = [status |-> "REVOKED", deadline |-> "none"]
        /\ Kind[s] \notin {"expiry", "left"} => OthersName(ch)
      BY <1>6 DEF ch
  <2> HIDE DEF old
  <2>4. old = NoRow => Kind[s] \in Single
      BY <1>4 DEF old
  <2>5. Kind[s] = "left" => LeaveNames(db[r].status, ch)
      BY <2>2, <2>3, <2>4 DEF Saved, Single
  <2>6. db[r] = NoRow => ch.status # "same" /\ Kind[s] \in Single
      BY <2>2, <2>3, <2>4
  <2>7. Kind[s] = "expiry" => ch = [status |-> "REVOKED", deadline |-> "none"]
      BY <2>2, <2>3, <2>4 DEF Single
  <2>8. QED BY <2>1, <2>3, <2>5, <2>6, <2>7 DEF ReadOK, ChangeOK
<1>14. ASSUME NEW q \in Locks PROVE HeldOK(s, q)'
  <2>1. HeldOK(s, q)
      BY <1>2 DEF RowsOK
  <2>2. change[r] # NoRow
      BY <1>6, <1>8 DEF NoRow, Change
  <2>3. QED BY <1>4, <1>8, <1>10, <1>11, <2>1, <2>2 DEF HeldOK
<1>15. SessionOK(s)'
  <2>1. RowsOK(s)'
      BY <1>12, <1>13, <1>14 DEF RowsOK
  <2>2. Written(s)' # {}
    <3>1. change[r] # NoRow
        BY <1>6, <1>8 DEF NoRow, Change
    <3>2. QED BY <1>4, <1>10, <3>1 DEF Written
  <2>3. InHand(s)'
      BY <1>3, <1>10, <2>2 DEF InHand, Idle, ToWrite, HasWritten, Single
  <2>4. QED BY <1>3, <1>10, <2>1, <2>3 DEF SessionOK
<1>16. ASSUME NEW t \in Sessions \ {s} PROVE SessionOK(t)'
  <2>1. \A q \in Locks : locked'[q] = t <=> locked[q] = t
      BY <1>4, <1>11, SessionsAssumption
  <2>2. RowsKept(t)
      BY <1>2, <2>1 DEF RowsKept
  <2>3. QED BY <1>10, <2>2, Framed
<1>17. SessionsKept
    BY <1>10, <1>15, <1>16 DEF SessionsKept
<1>18. Admitted'
  <2>1. Owes(s) => Owes(s)'
      BY <1>2, <1>3, <1>10 DEF Owes, Watchers
  <2>2. \A t \in Sessions \ {s} : Owes(t)' = Owes(t)
      BY <1>10 DEF Owes
  <2>3. QED BY <1>2, <2>1, <2>2, StillAdmitted
<1>19. QED BY <1>2, <1>11, <1>17, <1>18, KeepsRows DEF IInv, TypeOK

\* The row a commit leaves: what the contract allows.
LEMMA CommittedRow ==
    ASSUME IInv, NEW s \in Sessions, NEW r \in Written(s),
           db'[r] = Updated(db[r], sess[s].change[r])
    PROVE  db'[r] \in Saved /\ locked[r] = s /\ Contract!Move(r)
<1> DEFINE ch == sess[s].change[r]
<1>1. r \in Rows /\ ch # NoRow /\ ChangeOK(s, r)
    BY DEF IInv, SessionOK, RowsOK, Written
<1>2. /\ ch \in Change /\ locked[r] = s
      /\ db[r] = NoRow => ch.status # "same" /\ Kind[s] \in Single
      /\ Kind[s] = "expiry" => ch = [status |-> "REVOKED", deadline |-> "none"]
      /\ Kind[s] = "left" => LeaveNames(db[r].status, ch)
      /\ Kind[s] \notin {"expiry", "left"} => OthersName(ch)
    BY <1>1 DEF ChangeOK
<1>3. db[r] \in Saved \cup {NoRow}
    BY <1>1 DEF IInv, TypeOK
<1>4. db'[r] = [status   |-> IF ch.status = "same" THEN db[r].status
                             ELSE ch.status,
                deadline |-> IF ch.deadline = "same" THEN db[r].deadline
                             ELSE ch.deadline]
    BY DEF Updated
<1> HIDE DEF ch
<1>5. db'[r] \in Saved
    BY <1>2, <1>3, <1>4 DEF Saved, Change, NoRow
<1>6. CASE Kind[s] = "expiry"
  <2>1. Contract!Revoke(r)
      BY <1>2, <1>4, <1>6 DEF Contract!Revoke, Contract!Absent, NoRow, Single
  <2>2. QED BY <1>2, <1>5, <2>1 DEF Contract!Move
<1>7. CASE Kind[s] = "left"
  <2>1. Contract!Warn(r) \/ Contract!Keep(r)
      BY <1>2, <1>3, <1>4, <1>7
         DEF LeaveNames, Contract!Warn, Contract!Keep, Saved, NoRow, Single
  <2>2. QED BY <1>2, <1>5, <2>1 DEF Contract!Move
<1>8. CASE Kind[s] \notin {"expiry", "left"} /\ db[r] = NoRow
  <2>1. Contract!Insert(r)
      BY <1>2, <1>4, <1>8
         DEF OthersName, Contract!Insert, Contract!Absent, NoRow, Change
  <2>2. QED BY <1>2, <1>5, <2>1 DEF Contract!Move
<1>9. CASE Kind[s] \notin {"expiry", "left"} /\ db[r] # NoRow
  <2>1. Contract!Restore(r) \/ Contract!Review(r)
      BY <1>2, <1>4, <1>9 DEF OthersName, Contract!Restore, Contract!Review,
         Contract!Absent, NoRow, Change
  <2>2. QED BY <1>2, <1>5, <2>1 DEF Contract!Move
<1>10. QED BY <1>6, <1>7, <1>8, <1>9

\* What the contract allows keeps a revoked row without a deadline, and puts
\* only a grant that is ACTIVE into GRACE.
LEMMA MovedRow ==
    ASSUME NEW r \in Rows, db[r] \in Saved \cup {NoRow}, db'[r] \in Saved,
           db[r].status = "REVOKED" => db[r].deadline = "none",
           Contract!Move(r)
    PROVE  /\ db'[r].status = "REVOKED" => db'[r].deadline = "none"
           /\ db[r].status # "GRACE" /\ db'[r].status = "GRACE" =>
                 db[r].status = "ACTIVE"
BY DEF Contract!Move, Contract!Keep, Contract!Insert, Contract!Restore,
   Contract!Review, Contract!Warn, Contract!Revoke, Contract!Absent, NoRow

LEMMA CommitStep ==
    ASSUME IInv, NEW s \in Sessions, commit(s)
    PROVE  /\ IInv' /\ Contract!Commit
           /\ \A r \in Rows :
                 db[r].status # "GRACE" /\ db'[r].status = "GRACE" =>
                    db[r].status = "ACTIVE"
<1>1. /\ sess[s].at = "commit" /\ End(s) /\ UNCHANGED <<inside, eval>>
      /\ db' = [r \in Rows |-> IF r \in Written(s)
                    THEN Updated(db[r], sess[s].change[r]) ELSE db[r]]
    BY DEF commit, At
<1>2. Written(s) \subseteq Rows
    BY DEF Written
<1>3. Owes(s) => Written(s) # {}
  <2>1. InHand(s)
      BY DEF IInv, SessionOK
  <2>2. QED BY <1>1, <2>1 DEF Owes, InHand, HasWritten
<1>4. ASSUME NEW r \in Written(s)
      PROVE  /\ db'[r] \in Saved /\ locked[r] = s
             /\ db'[r].status = "REVOKED" => db'[r].deadline = "none"
             /\ db[r].status # "GRACE" /\ db'[r].status = "GRACE" =>
                   db[r].status = "ACTIVE"
             /\ Contract!Move(r)
  <2>1. db'[r] \in Saved /\ locked[r] = s /\ Contract!Move(r)
      BY <1>1, <1>2, CommittedRow
  <2>2. QED BY <1>2, <2>1, MovedRow DEF IInv, TypeOK, RevokedIsSettled
<1>5. \A r \in Rows \ Written(s) : db'[r] = db[r]
    BY <1>1
<1>6. \A r \in Written(s) : db'[r] # NoRow
    BY <1>4 DEF Saved, NoRow
<1>7. db' \in [Rows -> Saved \cup {NoRow}]
  <2>1. \A r \in Rows : db'[r] \in Saved \cup {NoRow}
      BY <1>4, <1>5 DEF IInv, TypeOK
  <2>2. QED BY <1>1, <2>1
<1>8. SessionsKept
  <2>1. ASSUME NEW t \in Sessions \ {s} PROVE SessionOK(t)'
    <3>1. RowsKept(t)
        BY <1>1, <1>4, <1>5, <1>6, Ended DEF RowsKept
    <3>2. QED BY <1>1, <3>1, Ended, Framed
  <2>2. QED BY <1>1, <2>1, Ended, ClosedOK DEF SessionsKept
<1>9. RevokedIsSettled'
    BY <1>4, <1>5 DEF IInv, RevokedIsSettled
<1>10. Admitted'
  <2>1. \A r \in Rows : db[r] # NoRow => db'[r] # NoRow
      BY <1>5, <1>6
  <2>2. Owes(s) => Stored' # {}
      BY <1>2, <1>3, <1>6 DEF Stored
  <2>3. \A t \in Sessions \ {s} : Owes(t)' = Owes(t)
      BY <1>1, Ended DEF Owes
  <2>4. QED BY <1>1, <2>1, <2>2, <2>3, StillAdmitted
<1>11. TypeOK'
  <2>1. ASSUME NEW t \in Sessions
        PROVE  /\ sess'[t].at \in Phases /\ sess'[t].saw \in BOOLEAN
               /\ sess'[t].row \in Locks \cup {NewRow}
               /\ sess'[t].todo \subseteq Locks
               /\ sess'[t].copy \in [Rows -> Saved \cup {NoRow}]
               /\ sess'[t].change \in [Rows -> Change \cup {NoRow}]
      BY <1>8 DEF SessionsKept, Session
  <2>2. QED BY <1>1, <1>7, <2>1, Ended DEF IInv, TypeOK
<1>12. \A r \in Rows : db[r].status # "GRACE" /\ db'[r].status = "GRACE" =>
                           db[r].status = "ACTIVE"
    BY <1>4, <1>5
<1>13. Contract!Commit
    BY <1>4, <1>5 DEF Contract!Commit, Contract!Move, Contract!Keep
<1>14. QED BY <1>8, <1>9, <1>10, <1>11, <1>12, <1>13 DEF IInv, SessionsKept

-----------------------------------------------------------------------------
(* PostgreSQL and the clock.                                               *)

\* A session in a cycle is rolled back: it waits for a row that is there, or
\* has let nobody in.
LEMMA DeadlockStep ==
    ASSUME IInv, NEW S \in SUBSET Open, deadlock_detected(S)
    PROVE  IInv' /\ UNCHANGED db
<1>0. PICK s \in S : Raises(s)
    BY DEF deadlock_detected
<1> s \in Sessions
    BY DEF Open
<1>1. /\ End(s) /\ UNCHANGED <<inside, db>> /\ eval' \in Sessions \cup {Nobody}
    BY <1>0 DEF deadlock_detected, Raises, IInv, TypeOK
<1>2. PICK t \in Sessions : WaitsFor(s, t)
    BY DEF deadlock_detected, Cycle, Deadlocked, Open
<1>3. SessionsKept
    BY <1>1, Quit
<1>4. Owes(s) => Stored # {}
  <2> SUFFICES ASSUME Owes(s) PROVE Stored # {}
      OBVIOUS
  <2>1. /\ sess[s].at = "write" /\ Kind[s] = "request" /\ sess[s].row \in Locks
      BY <1>2 DEF WaitsFor, Owes, At
  <2>2. sess[s].row \in Unwritten(s)
      BY <2>1, SessionsAssumption
         DEF IInv, SessionOK, InHand, ToWrite, Single, Locks
  <2>3. db[sess[s].row] # NoRow /\ sess[s].row \in Rows
      BY <2>2 DEF IInv, SessionOK, RowsOK, ReadOK, Unwritten
  <2>4. QED BY <2>3 DEF Stored
<1>5. Admitted'
  <2>1. Stored' = Stored /\ \A u \in Sessions \ {s} : Owes(u)' = Owes(u)
      BY <1>1, Ended DEF Owes, Stored
  <2>2. QED BY <1>1, <1>4, <2>1, StillAdmitted
<1>6. QED BY <1>1, <1>3, <1>5, Ended, KeepsRows DEF IInv, TypeOK

LEMMA ExpiryOfLock ==
    ASSUME IInv, lock_expires
    PROVE  IInv' /\ UNCHANGED db
<1>1. UNCHANGED <<inside, tables, sess>> /\ eval' = Nobody
    BY DEF lock_expires
<1>2. SessionsKept
  <2>1. ASSUME NEW t \in Sessions PROVE SessionOK(t)'
    <3>1. RowsKept(t)
        BY <1>1 DEF RowsKept, tables
    <3>2. QED BY <1>1, <3>1, Framed
  <2>2. QED BY <1>1, <2>1 DEF SessionsKept, IInv
<1>3. Admitted'
    BY <1>1, StillAdmitted DEF Owes, tables
<1>4. QED BY <1>1, <1>2, <1>3, KeepsRows DEF IInv, TypeOK, tables

LEMMA DeadlineStep ==
    ASSUME IInv, NEW r \in Rows, deadline_passes(r)
    PROVE  /\ IInv' /\ Contract!Pass
           /\ \A q \in Rows : db'[q].status = db[q].status
<1>1. /\ db[r].deadline = "running" /\ db[r] \in Saved
      /\ db' = [db EXCEPT ![r] = [db[r] EXCEPT !.deadline = "passed"]]
      /\ UNCHANGED <<inside, locked, profile, eval, sess>>
    BY DEF deadline_passes, IInv, TypeOK, NoRow
<1>2. /\ db'[r] \in Saved /\ db'[r].status = db[r].status
      /\ \A q \in Rows \ {r} : db'[q] = db[q]
    BY <1>1 DEF IInv, TypeOK, Saved
<1>3. db' \in [Rows -> Saved \cup {NoRow}]
    BY <1>1, <1>2 DEF IInv, TypeOK
<1>4. db[r] # NoRow /\ db'[r] # NoRow
    BY <1>1, <1>2 DEF Saved, NoRow
<1>5. SessionsKept
  <2>1. ASSUME NEW t \in Sessions PROVE SessionOK(t)'
    <3>1. RowsKept(t)
        BY <1>1, <1>2, <1>4 DEF RowsKept
    <3>2. QED BY <1>1, <3>1, Framed
  <2>2. QED BY <1>1, <2>1 DEF SessionsKept, IInv
<1>6. Admitted'
    BY <1>1, <1>2, <1>4, StillAdmitted DEF Owes
<1>7. RevokedIsSettled'
    BY <1>1, <1>2 DEF IInv, RevokedIsSettled
<1>8. TypeOK'
    BY <1>1, <1>3 DEF IInv, TypeOK
<1>9. Contract!Pass
    BY <1>1 DEF Contract!Pass
<1>10. QED BY <1>2, <1>5, <1>6, <1>7, <1>8, <1>9 DEF IInv, SessionsKept

-----------------------------------------------------------------------------
(* The theorems.                                                           *)

LEMMA InitInvariant == Init => IInv
<1> SUFFICES ASSUME Init PROVE IInv
    OBVIOUS
<1>1. ASSUME NEW s \in Sessions
      PROVE  /\ sess[s] = Closed(s) /\ sess[s].at = After(s, "start")
             /\ sess[s].row = NewRow
             /\ \A r \in Rows : sess[s].copy[r] = NoRow
                                /\ sess[s].change[r] = NoRow
    BY DEF Init, Closed, NoRows
<1>2. \A s \in Sessions : Closed(s) \in Session
  <2>1. \A s \in Sessions : After(s, "start") \in Phases
      BY Flow DEF Kinds, Handlers, Watchers, Phases
  <2>2. NoRows \in [Rows -> Saved \cup {NoRow}]
        /\ NoRows \in [Rows -> Change \cup {NoRow}]
      BY DEF NoRows
  <2>3. QED BY <2>1, <2>2 DEF Closed, Session
<1>3. sess \in [Sessions -> Session]
    BY <1>2 DEF Init
<1>4. ASSUME NEW s \in Sessions PROVE SessionOK(s)
  <2>1. /\ Kind[s] \in Kinds
        /\ HasStep(Kind[s], After(s, "start"))
        /\ After(s, "start") \in {"lock", "upsert", "load"}
      BY Flow DEF Kinds, HasStep, Handlers, Watchers
  <2>2. \A r \in Locks : locked[r] # s
      BY SessionsAssumption DEF Init
  <2>3. RowsOK(s)
      BY <1>1, <2>2 DEF RowsOK, ReadOK, ChangeOK, HeldOK
  <2>4. Unwritten(s) = {} /\ Written(s) = {}
      BY <1>1 DEF Unwritten, Written
  <2>5. InHand(s)
      BY <1>1, <2>1, <2>2, <2>4 DEF InHand, ToWrite, HasWritten
  <2>6. QED BY <1>1, <2>1, <2>3, <2>5 DEF SessionOK
<1>5. ASSUME NEW s \in Sessions
      PROVE  /\ sess[s].at \in Phases /\ sess[s].saw \in BOOLEAN
             /\ sess[s].row \in Locks \cup {NewRow}
             /\ sess[s].todo \subseteq Locks
             /\ sess[s].copy \in [Rows -> Saved \cup {NoRow}]
             /\ sess[s].change \in [Rows -> Change \cup {NoRow}]
    BY <1>3 DEF Session
<1>6. TypeOK
    BY <1>5 DEF Init, TypeOK
<1>7. QED BY <1>3, <1>4, <1>6
          DEF Init, IInv, RevokedIsSettled, Admitted, NoRow

\* A step of a session, other than its commit, changes no row.
LEMMA ReadsOnly ==
    ASSUME NEW s \in Sessions, Step(s)
    PROVE  commit(s) \/ UNCHANGED db
BY DEF Step, lock_eval, unlock_eval, upsert_profile, load_by_key,
   load_for_update, claim, load_by_deadline, turn, flush, evaluate, approve,
   remove_and_unban, write, tables

LEMMA NextInvariant == IInv /\ [Next]_vars => IInv'
<1> SUFFICES ASSUME IInv, [Next]_vars PROVE IInv'
    OBVIOUS
<1>1. ASSUME NEW s \in Sessions, Step(s) PROVE IInv'
    BY <1>1, LockStep, LoadByKeyStep, LoadForUpdateStep, ClaimStep,
       LoadByDeadlineStep, TurnStep, FlushStep, EvaluateStep, ApproveStep,
       RemoveStep, WriteStep, CommitStep DEF Step
<1>2. ASSUME NEW S \in SUBSET Open, deadlock_detected(S) PROVE IInv'
    BY <1>2, DeadlockStep
<1>3. ASSUME NEW r \in Rows, deadline_passes(r) PROVE IInv'
    BY <1>3, DeadlineStep
<1>4. CASE lock_expires
    BY <1>4, ExpiryOfLock
<1>5. CASE UNCHANGED vars
  <2>1. ASSUME NEW t \in Sessions PROVE SessionOK(t)'
    <3>1. RowsKept(t)
        BY <1>5 DEF RowsKept, vars, tables
    <3>2. QED BY <1>5, <3>1, Framed DEF vars
  <2>2. SessionsKept
      BY <1>5, <2>1 DEF SessionsKept, IInv, vars
  <2>3. Admitted'
      BY <1>5, StillAdmitted DEF Owes, vars, tables
  <2>4. QED BY <1>5, <2>2, <2>3, KeepsRows DEF IInv, TypeOK, vars, tables
<1>6. QED BY <1>1, <1>2, <1>3, <1>4, <1>5 DEF Next, Runnable, Open

LEMMA InvariantHolds == Spec => []IInv
<1>1. QED BY InitInvariant, NextInvariant, PTL DEF Spec

\* In every reachable state every row, lock and session keeps to its type.
THEOREM SessionsTyped == Spec => []TypeOK
<1>1. IInv => TypeOK
    BY DEF IInv
<1>2. QED BY <1>1, InvariantHolds, PTL

\* However sessions interleave, whatever columns each UPDATE leaves out: no
\* deadline stands next to REVOKED.
THEOREM RevocationSettles == Spec => []RevokedIsSettled
<1>1. IInv => RevokedIsSettled
    BY DEF IInv
<1>2. QED BY <1>1, InvariantHolds, PTL

\* However sessions interleave, and whichever of them PostgreSQL rolls back:
\* who was let into the chat is on record, or the session that let them in is
\* still to commit the row.
THEOREM AdmissionRecorded == Spec => []InsideHasRow
<1>1. IInv => InsideHasRow
  <2> SUFFICES ASSUME IInv PROVE InsideHasRow
      OBVIOUS
  <2>1. ASSUME NEW s \in Sessions, Owes(s)
        PROVE  /\ s \in Open /\ sess[s].saw
               /\ Kind[s] \in {"check", "request"}
      BY <2>1, Flow DEF Owes, Open
  <2>2. QED BY <2>1 DEF IInv, Admitted, InsideHasRow
<1>2. QED BY <1>1, InvariantHolds, PTL

\* The row lock of the leave handler makes its decision hold: however many
\* sessions run beside it, only a row that is ACTIVE at the commit enters GRACE.
THEOREM GraceNeedsAccess == Spec => GraceOnlyFromAccess
<1> DEFINE Kept == \A r \in Rows :
        db[r].status # "GRACE" /\ db'[r].status = "GRACE"
           => db[r].status = "ACTIVE"
<1>1. IInv /\ [Next]_vars => [Kept]_vars
  <2> SUFFICES ASSUME IInv, Next PROVE Kept
      OBVIOUS
  <2>1. ASSUME NEW s \in Sessions, Step(s) PROVE Kept
      BY <2>1, ReadsOnly, CommitStep
  <2>2. ASSUME NEW S \in SUBSET Open, deadlock_detected(S) PROVE Kept
      BY <2>2, DeadlockStep
  <2>3. ASSUME NEW r \in Rows, deadline_passes(r) PROVE Kept
      BY <2>3, DeadlineStep
  <2>4. CASE lock_expires
      BY <2>4, ExpiryOfLock
  <2>5. QED BY <2>1, <2>2, <2>3, <2>4 DEF Next, Runnable, Open
<1>2. QED BY <1>1, InvariantHolds, PTL DEF Spec, GraceOnlyFromAccess

\* However sessions interleave: each commit does to each row what the contract
\* allows, and nothing but commits and the clock touches the table.
THEOREM SessionsImplement == Spec => RefinesRows
<1>1. Init => Contract!Init
    BY DEF Init, Contract!Init, Contract!Absent, NoRow
<1>2. IInv /\ [Next]_vars => [Contract!Next]_db
  <2> SUFFICES ASSUME IInv, [Next]_vars PROVE Contract!Next \/ UNCHANGED db
      OBVIOUS
  <2>1. ASSUME NEW s \in Sessions, Step(s) PROVE Contract!Next \/ UNCHANGED db
      BY <2>1, ReadsOnly, CommitStep DEF Contract!Next
  <2>2. ASSUME NEW S \in SUBSET Open, deadlock_detected(S) PROVE UNCHANGED db
      BY <2>2, DeadlockStep
  <2>3. ASSUME NEW r \in Rows, deadline_passes(r) PROVE Contract!Next
      BY <2>3, DeadlineStep DEF Contract!Next
  <2>4. CASE lock_expires \/ UNCHANGED vars
      BY <2>4, ExpiryOfLock DEF vars, tables
  <2>5. QED BY <2>1, <2>2, <2>3, <2>4 DEF Next, Runnable, Open
<1>3. QED BY <1>1, <1>2, InvariantHolds, PTL
          DEF Spec, RefinesRows, Contract!Spec

-----------------------------------------------------------------------------
(* Waiting.                                                                *)

\* Who waits, being open, waits for the lock of a row, and for a session that
\* is open too.
LEMMA Waits ==
    ASSUME IInv, NEW s \in Open, NEW t \in Sessions, WaitsFor(s, t)
    PROVE  /\ sess[s].at \in {"claim", "flush", "write"}
           /\ sess[s].row \in Locks /\ locked[sess[s].row] = t
           /\ t \in Open
<1>1. s \in Sessions /\ ~At(s, "upsert")
    BY Place, Flow DEF Open, At, UpdateKinds, Handlers
<1>2. /\ sess[s].at \in {"claim", "flush", "write"}
      /\ sess[s].row \in Locks /\ locked[sess[s].row] = t
    BY <1>1 DEF WaitsFor
<1>3. ~Idle(t)
    BY <1>2 DEF IInv, SessionOK, InHand
<1>4. After(t, "start") \in {"lock", "upsert", "load"}
    BY Flow DEF Kinds, Handlers, Watchers
<1>5. t \in Open
    BY <1>3, <1>4 DEF Idle, Open
<1>6. QED BY <1>2, <1>5

\* No lock outlives its session: if everyone who is open waits, then for one
\* another.  It is StandstillIsDeadlock said without ENABLED.
THEOREM StandstillExplained ==
    Spec => [](Open # {} /\ (\A s \in Open : \E t \in Sessions : WaitsFor(s, t))
                  => Deadlocked(Open))
<1>1. IInv => (Open # {} /\ (\A s \in Open : \E t \in Sessions : WaitsFor(s, t))
                  => Deadlocked(Open))
    BY Waits DEF Deadlocked
<1>2. QED BY <1>1, InvariantHolds, PTL

\* A handler of an update that has begun holds the profile.
InTurn == \A t \in Open : Kind[t] \in UpdateKinds => profile = t

\* A step changes the session that takes it.  But for its first one, it leaves
\* the profile alone or, at its end, releases it.
LEMMA OneSession ==
    ASSUME IInv, NEW s \in Sessions, Step(s) \/ Raises(s)
    PROVE  /\ \A t \in Sessions \ {s} : sess'[t] = sess[t]
           /\ \/ upsert_profile(s)
              \/ ~At(s, "upsert") /\ profile' = profile
              \/ End(s)
<1>1. End(s) \/ \E step, e : GoTo(s, step, e)
  <2>1. End(s) \/ (\E e : GoOn(s, e)) \/ \E step, e : GoTo(s, step, e)
      BY DEF Step, Raises, lock_eval, unlock_eval,
         upsert_profile, load_by_key, load_for_update, claim, load_by_deadline,
         turn, flush, evaluate, approve, remove_and_unban, write, commit
  <2>2. QED BY <2>1 DEF GoOn
<1>2. \A t \in Sessions \ {s} : sess'[t] = sess[t]
    BY <1>1 DEF End, GoTo, IInv
<1>3. upsert_profile(s) \/ (~At(s, "upsert") /\ profile' = profile) \/ End(s)
    BY DEF Step, Raises, lock_eval, unlock_eval, load_by_key,
       load_for_update, claim, load_by_deadline, turn, flush, evaluate,
       approve, remove_and_unban, write, commit, At, tables
<1>4. QED BY <1>2, <1>3

LEMMA StaysInTurn ==
    ASSUME IInv, InTurn, NEW s \in Sessions, Step(s) \/ Raises(s)
    PROVE  InTurn'
<1>1. \A t \in Sessions \ {s} : t \in Open' <=> t \in Open
    BY OneSession DEF Open
<1>2. Open \subseteq Sessions /\ Open' \subseteq Sessions
    BY DEF Open
<1>3. CASE upsert_profile(s)
  <2>1. \A t \in Open : Kind[t] \notin UpdateKinds
      BY <1>2, <1>3, SessionsAssumption DEF InTurn, upsert_profile
  <2>2. profile' = s
      BY <1>3 DEF upsert_profile
  <2>3. QED BY <1>1, <1>2, <2>1, <2>2 DEF InTurn
<1>4. CASE ~At(s, "upsert") /\ profile' = profile
  <2>1. Kind[s] \in UpdateKinds => s \in Open
      BY <1>4, Flow DEF UpdateKinds, Handlers, At, Open
  <2>2. QED BY <1>1, <1>2, <1>4, <2>1 DEF InTurn
<1>5. CASE End(s)
  <2>1. sess'[s].at = After(s, "start")
    <3>1. sess'[s] = Closed(s)
        BY <1>5, Ended
    <3>2. QED BY <3>1 DEF Closed
  <2>2. s \notin Open'
      BY <2>1 DEF Open
  <2>3. QED BY <1>1, <1>2, <1>5, <2>2 DEF InTurn, End
<1>6. QED BY <1>3, <1>4, <1>5, OneSession

LEMMA AlwaysInTurn == Spec => []InTurn
<1>1. Init => InTurn
    BY DEF Init, InTurn, Closed, Open
<1>2. IInv /\ InTurn /\ [Next]_vars => InTurn'
  <2> SUFFICES ASSUME IInv, InTurn, [Next]_vars PROVE InTurn'
      OBVIOUS
  <2>1. CASE \E s \in Sessions : Step(s) \/ Raises(s)
      BY <2>1, StaysInTurn
  <2>2. CASE lock_expires \/ UNCHANGED vars \/ \E r \in Rows : deadline_passes(r)
    <3>1. profile' = profile /\ sess' = sess
        BY <2>2 DEF lock_expires, deadline_passes, vars, tables
    <3>2. QED BY <3>1 DEF InTurn, Open
  <2>3. QED BY <2>1, <2>2 DEF Next, Runnable, Open, deadlock_detected
<1>3. QED BY <1>1, <1>2, InvariantHolds, PTL DEF Spec

\* However many updates of one user arrive at once: their handlers follow one
\* another.
THEOREM OneAfterTheOther == Spec => []UpdatesInTurn
<1>1. InTurn => UpdatesInTurn
    BY DEF InTurn, UpdatesInTurn, UpdateKinds
<1>2. QED BY <1>1, AlwaysInTurn, PTL

\* However many sessions wait for one another's rows: without a watcher they
\* are no cycle, since of those that wait one at most holds a row.
THEOREM CyclesNeedAWatcher == Spec => []CyclesHaveAWatcher
<1>1. IInv /\ InTurn => CyclesHaveAWatcher
  <2> SUFFICES ASSUME IInv, InTurn, NEW S \in SUBSET Open, Deadlocked(S),
                      \A s \in S : Kind[s] \notin Watchers
               PROVE  FALSE
      BY DEF CyclesHaveAWatcher, Watchers
  <2>1. S \subseteq Open /\ Open \subseteq Sessions
      BY DEF Open
  <2>2. ASSUME NEW s \in S, NEW t \in S, WaitsFor(s, t)
        PROVE  profile = t
    <3>1. /\ locked[sess[s].row] = t /\ sess[s].row \in Locks
          /\ s \in Open /\ t \in Open /\ t \in Sessions
        BY <2>1, <2>2, Waits
    <3>2. PICK u \in S : WaitsFor(t, u)
        BY DEF Deadlocked
    <3>3. sess[t].at \in {"claim", "flush", "write"}
        BY <2>1, <3>1, <3>2, Waits
    <3>4. Kind[t] \notin Single
      <4> SUFFICES ASSUME Kind[t] \in Single PROVE FALSE
          OBVIOUS
      <4>1. sess[t].at = "write"
          BY <3>1, <3>3, Place DEF Single, Handlers, Watchers
      <4>2. Written(t) = {}
          BY <3>1, <4>1 DEF IInv, SessionOK, InHand, ToWrite
      <4>3. sess[s].row \in Written(t)
          BY <3>1 DEF IInv, SessionOK, RowsOK, HeldOK, Written
      <4>4. QED BY <4>2, <4>3
    <3>5. Kind[t] \in UpdateKinds
        BY <3>1, <3>4, Place DEF Kinds, Single, UpdateKinds, Watchers
    <3>6. QED BY <3>1, <3>5 DEF InTurn
  <2>3. PICK s \in S, t \in S : WaitsFor(s, t)
      BY DEF Deadlocked
  <2>4. PICK u \in S : WaitsFor(t, u)
      BY DEF Deadlocked
  <2>5. t # u
      BY <2>4 DEF WaitsFor
  <2>6. QED BY <2>2, <2>3, <2>4, <2>5
<1>2. QED BY <1>1, InvariantHolds, AlwaysInTurn, PTL
=============================================================================
