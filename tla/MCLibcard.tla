----------------------------- MODULE MCLibcard -----------------------------
(* Instances of Libcard for TLC: the first handle is redundant or for one  *)
(* card, the second redundant, and only the first executes.                 *)
EXTENDS Libcard, TLC

CONSTANTS c1, c2, h1, h2

MixedHandles == h1 :> {"redundant", c1} @@ h2 :> {"redundant"}
=============================================================================
