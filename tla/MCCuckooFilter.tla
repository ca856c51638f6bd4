--------------------------- MODULE MCCuckooFilter ---------------------------
(***************************************************************************)
(* A bin of up to six felts: four buckets of two slots, three turns before *)
(* the overflow slot is used.  The first two felts have the same tag, one  *)
(* of them because its tag would be zero.                                  *)
(***************************************************************************)
EXTENDS CuckooFilter, Bitwise, TLC

CONSTANTS e, f, g, h

MCHash == (e :> 8) @@ (f :> 1) @@ (g :> 2) @@ (h :> 7)
MCTagHash == [t \in Tags |-> CASE t = 1 -> 5 [] t = 2 -> 2 [] OTHER -> 4]
MCXor == [p \in Buckets \X Buckets |-> p[1] ^^ p[2]]
=============================================================================
