----------------------------- MODULE MCSessions -----------------------------
EXTENDS SessionProperties, TLC

CONSTANTS
    c, d, q, l, j, x, m,    \* sessions
    r1, r2, r3              \* rows

AllKinds ==
    (c :> "check")  @@ (d :> "check") @@ (q :> "request") @@ (l :> "left") @@
    (j :> "joined") @@ (x :> "expiry") @@ (m :> "restoration")

\* One session of each kind; two presses of Check.
EachOnce    == {c, q, l, j, x, m}
EachKind    == [s \in EachOnce |-> AllKinds[s]]
Presses     == {c, d}
PressesKind == [s \in Presses |-> "check"]

RowSymmetry == Permutations(Rows)
=============================================================================
