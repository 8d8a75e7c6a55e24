---------------------------- MODULE MCDdcbQueue ----------------------------
(* Instances of DdcbQueue for TLC: threads are interchangeable.            *)
EXTENDS DdcbQueue, TLC

ThreadSymmetry == Permutations(Threads)
=============================================================================
