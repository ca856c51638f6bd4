----------------------------- MODULE MCSavedDB -----------------------------
(***************************************************************************)
(* A labeled database of three items.  x and y share a felt and both       *)
(* locations, so that they open two bundles; z lies at one bundle index.   *)
(***************************************************************************)
EXTENDS SavedDB

CONSTANTS p, q, x, y, z, f1, f2, f3, f4, f5, L1, L2

MCFelts == (x :> <<f1, f2>>) @@ (y :> <<f1, f3>>) @@ (z :> <<f4, f5>>)
MCLocs  == (x :> <<0, 2>>) @@ (y :> <<2, 0>>) @@ (z :> <<0, 1>>)

ASSUME ItemsAreApart == ItemsApart

Row(i, l) == [item |-> i, label |-> l]
MCRows == {<<Row(x, L1), Row(y, L2), Row(z, L1)>>, <<Row(x, L1), Row(x, L2)>>}
MCBatches == {<<Row(x, L1), Row(z, L2)>>, <<Row(y, L1)>>, <<Row(x, L2)>>}

\* The files differ in name only.
FileSymmetry == Permutations(Paths)
=============================================================================
