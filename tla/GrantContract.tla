---------------------------- MODULE GrantContract ----------------------------
(***************************************************************************)
(* What the bot promises about one user's grants, whatever the order of    *)
(* updates, button presses, jobs and commands: the transitions of          *)
(* GrantStatus and of grace_expires_at that are possible at all.           *)
(***************************************************************************)
EXTENDS Integers

CONSTANTS Policies, Grace

VARIABLES
    status,    \* status[p]: the status of the grant for policy p
    deadline   \* deadline[p]: the time left in its grace period, -1 if none

None == -1

Init == /\ status   = [p \in Policies |-> "NONE"]
        /\ deadline = [p \in Policies |-> None]

\* The grant is untouched, or only its list of missing channels changed.
Keep(p) == status'[p] = status[p] /\ deadline'[p] = deadline[p]

\* Whatever it was, the user qualifies now.
Approve(p) == status'[p] = "ACTIVE" /\ deadline'[p] = None

\* Whatever it was but a running grace period, the user qualifies now, and a
\* deadline stays behind.
ApproveHalf(p) == /\ \/ status[p] = "NEEDS_REVIEW"
                     \/ status[p] = "GRACE" /\ deadline[p] <= 0
                  /\ status'[p] = "ACTIVE" /\ deadline'[p] = deadline[p]

\* A whole grace period starts, for a grant that gave access or was warned.
Warn(p) == /\ status[p] \in {"ACTIVE", "GRACE"}
           /\ status'[p] = "GRACE" /\ deadline'[p] = Grace

\* A channel the grant depends on is threatened.
Threaten(p) == /\ status[p] = "ACTIVE"
               /\ status'[p] = "GRACE" /\ deadline'[p] = None

\* The user does not qualify; a deadline is neither set nor moved.
Review(p) == status'[p] = "NEEDS_REVIEW" /\ deadline'[p] = deadline[p]

\* Access ends, and only when a grace period has run out.
Revoke(p) == /\ status[p] = "GRACE" /\ deadline[p] = 0
             /\ status'[p] = "REVOKED" /\ deadline'[p] = None

Change == \A p \in Policies :
    \/ Keep(p) \/ Approve(p) \/ ApproveHalf(p)
    \/ Warn(p) \/ Threaten(p) \/ Review(p) \/ Revoke(p)

Left(d) == IF d > 0 THEN d - 1 ELSE d

Tick == /\ status' = status
        /\ deadline' = [p \in Policies |-> Left(deadline[p])]

Next == Change \/ Tick

Spec == Init /\ [][Next]_<<status, deadline>>
=============================================================================
