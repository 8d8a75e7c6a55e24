---------------------------- MODULE MCHwHandles ----------------------------
(* Instances of HwHandles for TLC.                                         *)
EXTENDS HwHandles, TLC
CardsOf == {ACCEL_REDUNDANT, 0, 128}
AllOrNone == {{}, {"deflate", "inflate"}}
SizeClasses ==
  [p \in Pieces |-> {CASE p \in {1, 2} -> "ibuf" [] p \in {3, 4} -> "obuf" [] OTHER -> "wsp"}]
Symmetric == Permutations(Threads) \cup Permutations(Streams)
=============================================================================
