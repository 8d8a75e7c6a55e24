--------------------------- MODULE MCCardClients ---------------------------
(* Instances of CardClients for TLC.                                       *)
EXTENDS CardClients, TLC

Site(g, f, k, m) == [gzip |-> g, foreign |-> f, kind |-> k, modes |-> m]

\* A GZIP card, a foreign card and an empty slot, opened one at a time in either
\* mode; the same as a master; and redundant handles with one card of three missing.
MCSites == {Site({0}, {1}, "single", {"IRQ", "POLLING"}),
            Site({0}, {1}, "single", {"MASTER"}),
            Site({0, 2}, {}, "redundant", {"IRQ"})}
=============================================================================
