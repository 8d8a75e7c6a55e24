----------------------------- MODULE MCHwDeflate -----------------------------
(* Instances of HwDeflate for TLC.                                          *)
EXTENDS HwDeflate

\* A header that makes the stream longer than the data.
OneHeader == {[name |-> 0, comment |-> 0, extra |-> 1, flags |-> {"FEXTRA"}]}
=============================================================================
