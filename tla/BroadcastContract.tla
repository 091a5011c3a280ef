--------------------------- MODULE BroadcastContract ---------------------------
(***************************************************************************)
(* What a broadcast promises.  It is confirmed once, at once or for later; *)
(* sent in at most one run, in which no subscriber receives it twice; and  *)
(* once it has ended, by its run, a deletion or a missed date, nobody      *)
(* receives it any more.                                                   *)
(***************************************************************************)
CONSTANTS Jobs, Subscribers

VARIABLES
    phase,     \* phase[j]: "new", "scheduled", "sending" or "ended"
    got        \* got[j]: the subscribers that received j

vars == <<phase, got>>

Init ==
    /\ phase = [j \in Jobs |-> "new"]
    /\ got   = [j \in Jobs |-> {}]

Move(j, from, to) ==
    /\ phase[j] \in from
    /\ phase' = [phase EXCEPT ![j] = to]
    /\ UNCHANGED got

Schedule(j) == Move(j, {"new"}, "scheduled")
Start(j)    == Move(j, {"new", "scheduled"}, "sending")
End(j)      == Move(j, {"scheduled", "sending"}, "ended")

Deliver(j, s) ==
    /\ phase[j] = "sending"
    /\ s \notin got[j]
    /\ got' = [got EXCEPT ![j] = @ \cup {s}]
    /\ UNCHANGED phase

\* The bot stops: every run under way ends.
Stop ==
    /\ phase' = [j \in Jobs |-> IF phase[j] = "sending" THEN "ended" ELSE phase[j]]
    /\ UNCHANGED got

Next ==
    \/ \E j \in Jobs : Schedule(j) \/ Start(j) \/ End(j)
    \/ \E j \in Jobs, s \in Subscribers : Deliver(j, s)
    \/ Stop

Spec == Init /\ [][Next]_vars
=============================================================================
