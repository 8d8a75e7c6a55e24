---------------------------- MODULE MCAgzipDaemon ----------------------------
(* Instances of AgzipDaemon for TLC: the first card fails in every way and  *)
(* comes back, the second is missing or works.                              *)
EXTENDS AgzipDaemon

CONSTANT Second  \* what the second card may be
MCDevices == [c \in Cards |-> IF c = 0 THEN Kinds ELSE Second]
=============================================================================
