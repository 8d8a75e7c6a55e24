--------------------------- MODULE MCZlibWrapper ---------------------------
(* Instances of ZlibWrapper for TLC.                                       *)
EXTENDS ZlibWrapper
=============================================================================
