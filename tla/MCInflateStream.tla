-------------------------- MODULE MCInflateStream --------------------------
(* Instances of InflateStream for TLC: files with their derived fields.    *)
EXTENDS InflateStream, SequencesExt, FiniteSetsExt

Hdr(bits) == <<[k |-> "hdr", bits |-> bits, stored |-> FALSE, out |-> 0]>>
Sym(bits, out) == <<[k |-> "sym", bits |-> bits, stored |-> FALSE, out |-> out]>>
Eob(bits) == <<[k |-> "eob", bits |-> bits, stored |-> FALSE, out |-> 0]>>
\* A stored block of n bytes, whose header takes the given bits.
Stored(bits, n) ==
  <<[k |-> "hdr", bits |-> bits, stored |-> TRUE, out |-> 0]>>
    \o [i \in 1..n |-> [k |-> "raw", bits |-> 8, stored |-> FALSE, out |-> 1]]
    \o <<[k |-> "eob", bits |-> 0, stored |-> FALSE, out |-> 0]>>

SumBefore(s, i, Of(_)) == FoldLeft(LAMBDA a, t : a + Of(t), 0, SubSeq(s, 1, i - 1))
\* The header of the block that token i is in, or 0.
HeaderOf(s, i) ==
  LET marks == {m \in 1..(i - 1) : s[m].k \in {"hdr", "eob"}} IN
  IF marks = {} THEN 0 ELSE LET m == Max(marks) IN IF s[m].k = "hdr" THEN m ELSE 0

File(format, h, dict, bad, tokens) ==
  [format |-> format, extra |-> h[1], name |-> h[2], comment |-> h[3], hcrc |-> h[4],
   dict |-> dict, bad |-> bad,
   header |-> HeaderBytes([format |-> format, extra |-> h[1], name |-> h[2], comment |-> h[3],
                           hcrc |-> h[4], dict |-> dict]),
   body |-> [i \in 1..Len(tokens) |->
               [k |-> tokens[i].k, bits |-> tokens[i].bits, stored |-> tokens[i].stored]],
   at    |-> [i \in 1..(Len(tokens) + 1) |-> SumBefore(tokens, i, LAMBDA t : t.bits)],
   outAt |-> [i \in 1..(Len(tokens) + 1) |-> SumBefore(tokens, i, LAMBDA t : t.out)],
   hdrOf |-> [i \in 1..(Len(tokens) + 1) |-> HeaderOf(tokens, i)]]

Plain == <<Absent, Absent, Absent, FALSE>>

\* A dynamic block whose header ends with a word and one that crosses it, symbols that
\* spill, short codes inside one byte.
TwoBlocks == Hdr(20) \o Sym(4, 1) \o Sym(15, 3) \o Eob(3) \o Hdr(64) \o Sym(2, 1) \o Sym(2, 1) \o Eob(2)
\* A header that starts in the byte of the last symbol, after an end-of-block marker in it.
ShortCodes == Hdr(3) \o Sym(8, 2) \o Eob(2) \o Hdr(3) \o Sym(9, 1) \o Eob(7)
\* A stored block between two others, and an empty one (a flush).
Copyblock == Hdr(3) \o Sym(8, 1) \o Eob(7) \o Stored(38, 2) \o Stored(40, 0) \o Hdr(10) \o Sym(7, 2) \o Eob(7)

MCFiles == {File("DEFL", Plain, FALSE, FALSE, TwoBlocks),
            File("ZLIB", Plain, FALSE, FALSE, ShortCodes),
            File("ZLIB", Plain, TRUE, FALSE, Hdr(30) \o Sym(9, 2) \o Eob(4)),
            File("DEFL", Plain, TRUE, FALSE, Hdr(30) \o Sym(9, 2) \o Eob(4)),
            File("DEFL", Plain, FALSE, FALSE, Copyblock),
            File("GZIP", <<2, 0, 1, TRUE>>, FALSE, FALSE, Hdr(3) \o Sym(8, 2) \o Eob(7)),
            File("GZIP", <<Absent, 0, Absent, FALSE>>, FALSE, TRUE, Hdr(3) \o Eob(7))}

MCBuffers == {[extra |-> 2, name |-> 2, comment |-> 2], [extra |-> 2, name |-> 1, comment |-> 1]}
=============================================================================
