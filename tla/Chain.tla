-------------------------------- MODULE Chain --------------------------------
(***************************************************************************)
(* Two policies in a chain: p1 protects a and requires r, p2 protects b    *)
(* and requires a, so that what happens to a under p1 cascades to p2.      *)
(***************************************************************************)
EXTENDS TLC

CONSTANTS p1, p2, r, a, b

ChainPolicies  == {p1, p2}
ChainChats     == {r, a, b}
ChainProtected == (p1 :> a) @@ (p2 :> b)
ChainRequired  == (p1 :> {r}) @@ (p2 :> {a})
BothRequired   == (p1 :> {r}) @@ (p2 :> {a, r})    \* p2 requires two channels
Nothing        == {}
EditBoth       == {<<p2, r>>, <<p2, a>>}
ToggleOne      == {p1}
=============================================================================
