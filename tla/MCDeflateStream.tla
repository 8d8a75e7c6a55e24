-------------------------- MODULE MCDeflateStream --------------------------
(* Instances of DeflateStream for TLC.                                     *)
EXTENDS DeflateStream

GzHead(n, c, e, flags) == [name |-> n, comment |-> c, extra |-> e, flags |-> flags]

\* No optional field, all of them, the longest that pass the check without a lost
\* byte, and one that does not pass it.
MCHeaders == {NoHead,
              GzHead(3, 2, 1, {"FEXTRA", "FHCRC"}),
              GzHead(HeaderLimit - 1, 1, 0, {"FHCRC"}),
              GzHead(0, 0, HeaderLimit + 6, {"FEXTRA"})}
=============================================================================
