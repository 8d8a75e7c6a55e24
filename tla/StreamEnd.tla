------------------------------ MODULE StreamEnd ------------------------------
(***************************************************************************)
(* The search for the end of a raw deflate stream, __check_stream_end of   *)
(* lib/hardware.c.                                                         *)
(*                                                                         *)
(* The accelerator stops when the output is full, so that it does not see  *)
(* an empty final block that follows.  The adapter looks for it in up to   *)
(* 16 bytes, which come from the scratch of the stream and then from the   *)
(* application's input.                                                    *)
(*                                                                         *)
(* bits[i] is bit i of these bytes, in the order of RFC 1951.              *)
(***************************************************************************)
LOCAL INSTANCE Integers
LOCAL INSTANCE Sequences

\* struct stream_ending: sizeof(d)
D_BYTES == 16

\* Where the search starts: avail_in bytes, scratch of them from the scratch, at bit proc_bits.
Ending(bits, avail_in, scratch, proc_bits) ==
  [bits |-> bits, avail_in |-> avail_in, scratch |-> scratch, proc_bits |-> proc_bits,
   idx |-> 0, state |-> "READ_HDR", ret |-> "OK"]

Position(e) == 8 * e.idx + e.proc_bits

\* get_bits, and whether they are all there
Readable(e, n) == Position(e) + n <= 8 * e.avail_in
get_bits(e, n) == [i \in 1..n |-> e.bits[Position(e) + i - 1]]

\* drop_bits.  At the end of the bytes the position stays where it was.
drop_bits(e, n) ==
  LET idx == e.idx + (e.proc_bits + n) \div 8 IN
  IF idx >= e.avail_in THEN e ELSE [e EXCEPT !.idx = idx, !.proc_bits = (@ + n) % 8]

sync_to_byte(e) == IF e.proc_bits = 0 THEN e ELSE [e EXCEPT !.idx = @ + 1, !.proc_bits = 0]

Zeros(n) == [i \in 1..n |-> 0]
\* 0000ffff: the length 0 and its complement.
NoBytes == Zeros(16) \o [i \in 1..16 |-> 1]

\* Mutated form: the first block ends the search.
FinalIgnored(e) == "END"
\* "If we saw the BFINAL bit, we can safely exit"
AfterBlock(e) == IF e.ret = "STREAM_END" THEN "END" ELSE "READ_HDR"

\* The state of the search after a block header.
ReadHdr(e) ==
  LET h == get_bits(e, 3)
      t == [drop_bits(e, 3) EXCEPT !.ret = IF h[1] = 1 THEN "STREAM_END" ELSE @]
  IN  CASE h[2] = 0 /\ h[3] = 0 -> [t EXCEPT !.state = "COPY_BLOCK"]
        [] h[2] = 1 /\ h[3] = 0 -> [t EXCEPT !.state = "FIXED_HUFFMAN"]
        [] OTHER -> [t EXCEPT !.state = "GO_HOME"]

\* ... and after what has to be an empty block with these bits.
ReadEmpty(e, code) ==
  IF get_bits(e, Len(code)) = code
  THEN [drop_bits(e, Len(code)) EXCEPT !.state = AfterBlock(e)]
  ELSE [drop_bits(e, Len(code)) EXCEPT !.state = "GO_HOME"]

GoHome(e) == [e EXCEPT !.state = "GO_HOME"]

\* One pass through the switch.
SearchStep(e) ==
  CASE e.state = "READ_HDR" -> IF Readable(e, 3) THEN ReadHdr(e) ELSE GoHome(e)
    [] e.state = "FIXED_HUFFMAN" -> IF Readable(e, 7) THEN ReadEmpty(e, Zeros(7)) ELSE GoHome(e)
    [] e.state = "COPY_BLOCK" ->
         LET t == sync_to_byte(e) IN IF Readable(t, 32) THEN ReadEmpty(t, NoBytes) ELSE GoHome(t)
    [] OTHER -> e

\* The loop; each pass takes at least three bits or ends it.
Search(e) ==
  LET after[n \in Nat] ==
        IF n = 0 THEN e ELSE CHOOSE t \in {SearchStep(x) : x \in {after[n - 1]}} : TRUE
  IN  after[8 * e.avail_in]

\* Whether the end was found, and the number of bytes the application's input is advanced by.
Found(e) == Search(e).state = "END"

Advance(e) == IF e.idx <= e.scratch THEN 0 ELSE e.idx - e.scratch + 1
=============================================================================
