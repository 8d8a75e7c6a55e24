----------------------------- MODULE MCHwInflate -----------------------------
(* Instances of HwInflate for TLC: files of MCInflateStream with the bits   *)
(* of their blocks.                                                         *)
EXTENDS HwInflate, MCInflateStream

\* The bits of token i, the last block being final: an empty block of the fixed code is
\* 11 0 0000000, an empty stored one ends with 0000ffff; all others are ones.
TokenBits(tokens, i) ==
  LET t == tokens[i]
      final == IF \E m \in (i + 1)..Len(tokens) : tokens[m].k = "hdr" THEN 0 ELSE 1
  IN  CASE t.k = "hdr" /\ t.stored -> <<final>> \o [k \in 1..(t.bits - 33) |-> 0] \o NoBytes
        [] t.k = "hdr" /\ ~t.stored -> <<final>> \o (IF t.bits = 3 THEN <<1, 0>> ELSE [k \in 1..(t.bits - 1) |-> 1])
        [] t.k = "eob" -> [k \in 1..t.bits |-> 0]
        [] OTHER -> [k \in 1..t.bits |-> 1]

WithBits(format, h, dict, bad, tokens) ==
  File(format, h, dict, bad, tokens) @@
    [bits |-> FlattenSeq([i \in 1..Len(tokens) |-> TokenBits(tokens, i)])]

\* What a flush and the end of a raw stream leave behind the data: empty blocks.
FlushedTail == Hdr(3) \o Sym(8, 2) \o Eob(7) \o Hdr(3) \o Eob(7)
                 \o Hdr(3) \o Sym(8, 1) \o Eob(7) \o Hdr(3) \o Eob(7)
MCHwFiles == {WithBits("DEFL", Plain, FALSE, FALSE, FlushedTail),
              WithBits("DEFL", Plain, FALSE, FALSE, Hdr(20) \o Sym(4, 1) \o Sym(13, 3) \o Eob(3)),
              WithBits("ZLIB", Plain, TRUE, FALSE, Hdr(3) \o Sym(9, 2) \o Eob(7)),
              WithBits("GZIP", <<Absent, 1, Absent, FALSE>>, FALSE, TRUE, Hdr(3) \o Eob(7))}
=============================================================================
