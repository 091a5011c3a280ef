----------------------------- MODULE RowContract -----------------------------
(***************************************************************************)
(* What can happen to one user's rows of membership_grants for one policy  *)
(* while sessions work on them at the same time: no session, no lock, only *)
(* what is committed.  It is weaker than GrantContract, because a session  *)
(* writes on what it read before and names only the columns it changed.    *)
(***************************************************************************)

CONSTANT Rows

VARIABLE row    \* row[r]: status and deadline of row r as committed

Absent == [status |-> "NONE", deadline |-> "none"]

Init == row = [r \in Rows |-> Absent]

Keep(r) == row'[r] = row[r]

Insert(r) ==
    /\ row[r] = Absent
    /\ row'[r] \in [status : {"ACTIVE", "NEEDS_REVIEW"}, deadline : {"none"}]

\* The user qualified when the session looked.  A column that had its value
\* then keeps the one it has now.
Restore(r) ==
    /\ row[r] # Absent
    /\ row'[r] \in [status   : {row[r].status, "ACTIVE"},
                    deadline : {row[r].deadline, "none"}]

\* The user did not qualify; a deadline is neither set nor moved.
Review(r) ==
    /\ row[r] # Absent
    /\ row'[r] = [status |-> "NEEDS_REVIEW", deadline |-> row[r].deadline]

\* A grace period starts, or starts again, for a grant that gives access or
\* was warned at this very moment.
Warn(r) ==
    /\ row[r].status \in {"ACTIVE", "GRACE"}
    /\ row'[r] = [status |-> "GRACE", deadline |-> "running"]

\* Both columns at once, whatever became of the row since it was due.
Revoke(r) ==
    /\ row[r] # Absent
    /\ row'[r] = [status |-> "REVOKED", deadline |-> "none"]

Move(r) == Keep(r) \/ Insert(r) \/ Restore(r) \/ Review(r) \/ Warn(r) \/ Revoke(r)

\* One commit may change several rows.
Commit == \A r \in Rows : Move(r)

Pass == \E r \in Rows :
    /\ row[r].deadline = "running"
    /\ row' = [row EXCEPT ![r] = [@ EXCEPT !.deadline = "passed"]]

Next == Commit \/ Pass

Spec == Init /\ [][Next]_row
=============================================================================
