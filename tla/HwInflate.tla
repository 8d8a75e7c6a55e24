------------------------------ MODULE HwInflate ------------------------------
(***************************************************************************)
(* zlib's inflate on top of a hardware decompression stream,               *)
(* lib/hardware.c.                                                         *)
(*                                                                         *)
(* The accelerator writes into the application's buffer if it is large,    *)
(* otherwise into a buffer of the adapter, from which every call gives out *)
(* what fits.  Output can wait in three places: in the adapter's buffer,   *)
(* at the end of the dictionary, and as input that was not decoded.  The   *)
(* stream below is the one of InflateStream; a step of the loop of         *)
(* h_inflate is one step here.                                             *)
(***************************************************************************)
EXTENDS InflateStream, StreamEnd

CONSTANTS
  ObufSizes,    \* zlib_obuf_total: 0 if buffering is disabled
  Modes,        \* flush modes the application uses
  NoSearch      \* ZLIB_FLAG_DISABLE_CV_FOR_Z_STREAM_END

ASSUME AdapterAssumption == /\ ObufSizes \subseteq Nat /\ NoSearch \in BOOLEAN
                            /\ Modes \subseteq {"NO", "PARTIAL", "SYNC", "FULL", "BLOCK", "FINISH"}
ASSUME BitsAssumption == \A f \in Files : f.bits \in [1..f.at[NTok(f) + 1] -> {0, 1}]

VARIABLES
  z,        \* z_stream of the application
  s,        \* struct hw_state
  at,       \* h_inflate: not called, in its loop, or before its search for the end
  ret       \* what the last call of h_inflate returned

hvars == <<file, strm, pc, rc, z, s, at, ret>>

\* obuf is the number of bytes in the output buffer, obuf - obuf_next in the code;
\* flat: the hardware writes to flat buffers, which the application's is not; internal:
\* the call in progress uses the adapter's buffer.
EmptyBuffers(total, flat) ==
  [obuf_total |-> total, obuf |-> 0, obuf_avail |-> total, rc |-> "OK", flat |-> flat,
   internal |-> FALSE]

NewStream == [avail_in |-> 0, avail_out |-> 0, total_in |-> 0, total_out |-> 0, mode |-> "NO"]

\* h_inflateInit2_
HInit == /\ Init
         /\ z = NewStream
         /\ s \in {EmptyBuffers(n, flat) : n \in ObufSizes, flat \in BOOLEAN}
         /\ at = "out" /\ ret = "OK"

\* What zedc_inflate makes of the flush mode, and a failed DDCB of its result.
ZedcFlush(mode) == IF mode \in {"BLOCK", "FINISH"} THEN mode ELSE "NO"
ZlibRc(code) == IF code = "EXECUTE_ERROR" THEN "STREAM_ERROR" ELSE code

-----------------------------------------------------------------------------
(* The buffers.  A pair <<application's stream, hw_state>> goes through     *)
(* the steps of the loop; t is the hardware stream.                         *)

\* Mutated form: the place that was given out is not free again.
PlaceLost(avail, n) == avail
PlaceFreed(avail, n) == avail + n

\* Mutated form: the position the next bytes are read from stays.
NextKept(obuf, n) == obuf
NextMoved(obuf, n) == obuf - n

\* h_flush_obuf
h_flush_obuf(p) ==
  LET n == Smaller(p[1].avail_out, p[2].obuf) IN
  <<[p[1] EXCEPT !.avail_out = @ - n, !.total_out = @ + n],
    [p[2] EXCEPT !.obuf = NextMoved(@, n), !.obuf_avail = PlaceFreed(@, n)]>>

\* "Use internal buffer if the given output buffer is smaller": for the whole call.
UsesInternal(out) == s.flat \/ s.obuf_total > out

\* What zedc_inflate left behind, after it wrote n bytes.
Received(p, t, n, code) ==
  LET q == [p[1] EXCEPT !.avail_in = t.avail_in, !.total_in = t.total_in]
  IN  IF p[2].internal
      THEN <<q, [p[2] EXCEPT !.obuf = n, !.obuf_avail = @ - n, !.rc = ZlibRc(code)]>>
      ELSE <<[q EXCEPT !.avail_out = @ - n, !.total_out = @ + n], [p[2] EXCEPT !.rc = ZlibRc(code)]>>

\* "need new output buffer"
Waits(p, t) == (p[2].obuf # 0 \/ t.obytes_in_dict # 0) /\ p[1].avail_out = 0

\* Mutated form: whatever the mode, as an earlier version did.
NoInput(p) == p[1].avail_in = 0
\* "Original idea: Do not send 0 data to HW"
NothingToSend(p) == p[1].avail_in = 0 /\ p[1].mode \in {"NO", "PARTIAL", "FULL"}

\* Mutated form: the end is returned when the accelerator saw it.
EndWithOutputLeft(p, t) == p[2].rc = "STREAM_END"
\* "Hardware saw FEOB and output buffer is empty"
AllOut(p, t) == p[2].rc = "STREAM_END" /\ p[2].obuf_avail = p[2].obuf_total /\ t.obytes_in_dict = 0

-----------------------------------------------------------------------------
(* __check_stream_end                                                       *)

\* Bit i of the file, and of what follows it.
FileBit(i) == IF i \in 0..(file.at[NTok(file) + 1] - 1) THEN file.bits[i + 1] ELSE 1

\* __in_hdr_scratch_len
ScratchLen(t) == (t.hdr_ib + t.tree_bits + t.pad_bits + t.scratch_ib + t.scratch_bits) \div 8

\* The bytes the search looks at, by their index in the file.
SearchedByte(t, k) == IF k < ScratchLen(t) THEN t.area[k] ELSE t.total_in + k - ScratchLen(t)

\* The search after zedc_inflate left t.
SearchFrom(t) ==
  LET n == Smaller(D_BYTES, ScratchLen(t) + t.avail_in) IN
  Search(Ending([i \in 0..(8 * n - 1) |-> FileBit(8 * SearchedByte(t, i \div 8) + (i % 8))],
                n, ScratchLen(t), t.proc_bits))

\* "Do not try this [for] ZLIB or GZIP", nor inside a block with a tree
Searches(p, t) ==
  /\ ~NoSearch /\ p[2].rc # "STREAM_END" /\ p[1].avail_out = 0
  /\ file.format = "DEFL" /\ t.tree_bits = 0

-----------------------------------------------------------------------------
(* Operations                                                               *)

\* The call goes on at next with p, or returns code.
GoOn(p, next)  == z' = p[1] /\ s' = p[2] /\ at' = next /\ UNCHANGED ret
Leave(p, code) == z' = p[1] /\ s' = [p[2] EXCEPT !.internal = FALSE] /\ at' = "out" /\ ret' = code

\* zedc_read_pending_output, after the end was seen.
ReadPending(p) ==
  \E n \in {Smaller(p[1].avail_out, strm.obytes_in_dict)} :
     /\ strm' = [strm EXCEPT !.obytes_in_dict = @ - n]
     /\ UNCHANGED <<file, pc, rc>>
     /\ Leave(<<[p[1] EXCEPT !.avail_out = @ - n, !.total_out = @ + n], p[2]>>,
              IF n < strm.obytes_in_dict THEN "OK" ELSE "STREAM_END")

\* __inflate with the application's input and the buffer that is used.  total_out of the
\* hardware stream is set to that of z, which is the same when the buffer is empty.
__inflate(p) ==
  /\ Call(ZedcFlush(p[1].mode), p[1].avail_in - strm.avail_in,
          IF p[2].internal THEN p[2].obuf_total ELSE p[1].avail_out)
  /\ \E q \in {h_flush_obuf(Received(p, strm', strm'.total_out - strm.total_out, rc'))} :
        IF q[2].rc \in {"NEED_DICT", "STREAM_ERROR", "DATA_ERROR"} THEN Leave(q, q[2].rc)
        ELSE GoOn(q, "search")

\* The loop's body up to the call of the hardware stream.
Iterate ==
  /\ at = "loop" /\ pc # "failed"
  /\ \E p \in {h_flush_obuf(<<z, s>>)} :
       IF p[2].rc = "STREAM_END" /\ p[2].obuf = 0 THEN ReadPending(p)
       ELSE IF Waits(p, strm) \/ NothingToSend(p) THEN Leave(p, "OK") /\ UNCHANGED vars
       ELSE IF p[2].obuf_avail # p[2].obuf_total THEN Leave(p, "DATA_ERROR") /\ UNCHANGED vars
       ELSE __inflate(p)

\* What becomes of the hardware stream when n bytes of input belong to the end.
__reset_hdr_scratch_len(t, n) ==
  IF n = 0 THEN t
  ELSE [t EXCEPT !.hdr_ib = 0, !.tree_bits = 0, !.pad_bits = 0, !.scratch_ib = 0, !.scratch_bits = 0]

\* The rest of the loop's body.
LoopEnd(p) ==
  CASE AllOut(p, strm)      -> Leave(p, "STREAM_END")
    [] ~AllOut(p, strm) /\ p[1].avail_out = 0 -> Leave(p, "OK")
    [] ~AllOut(p, strm) /\ p[1].avail_out # 0 /\ strm.block_req -> Leave(p, p[2].rc)
    [] OTHER -> IF p[1].avail_in # 0 THEN GoOn(p, "loop") ELSE Leave(p, "OK")

\* __check_stream_end and the rest of the loop's body.
CheckStreamEnd ==
  /\ at = "search" /\ pc # "failed"
  /\ \E e \in {IF Searches(<<z, s>>, strm) THEN SearchFrom(strm) ELSE [state |-> "GO_HOME"]} :
       IF e.state = "END"
       THEN /\ strm' = __reset_hdr_scratch_len(strm, Advance(e))
            /\ LoopEnd(<<[z EXCEPT !.avail_in = @ - Advance(e), !.total_in = @ + Advance(e)],
                         [s EXCEPT !.rc = "STREAM_END"]>>)
       ELSE UNCHANGED strm /\ LoopEnd(<<z, s>>)
  /\ UNCHANGED <<file, pc, rc>>

\* A header that zedc_inflate refused (ZEDC_ERR_GZIP_HDR) is not among the errors that the
\* loop looks at: in this call and in all that follow every byte of input is refused again,
\* and the application gets Z_OK.
HeaderRefused == pc = "failed" /\ rc = "ERR_GZIP_HDR"
Refused ==
  LET n == IF z.avail_out # 0 THEN z.avail_in
           ELSE IF at = "loop" THEN Smaller(z.avail_in, 1) ELSE 0
  IN  /\ at # "out" /\ HeaderRefused
      /\ Leave(<<[z EXCEPT !.avail_in = @ - n, !.total_in = @ + n], s>>, "OK")
      /\ UNCHANGED vars

\* h_inflate is called with in more bytes of input and room for out bytes.
Begin(mode, in, out) ==
  /\ at = "out" /\ s.obuf_total # 0 /\ ret # "STREAM_END"
  /\ pc \in {"open", "ended"} \/ HeaderRefused
  /\ z.total_in + z.avail_in + in <= FileLen(file)
  /\ z' = [z EXCEPT !.avail_in = @ + in, !.avail_out = out, !.mode = mode]
  /\ s' = [s EXCEPT !.internal = UsesInternal(out)]
  /\ at' = "loop"
  /\ UNCHANGED <<file, strm, pc, rc, ret>>

\* "Special case: buffering fully disabled"
Unbuffered(mode, in, out) ==
  /\ s.obuf_total = 0
  /\ Call(ZedcFlush(mode), in, out)
  /\ z' = [avail_in |-> strm'.avail_in, total_in |-> strm'.total_in, total_out |-> strm'.total_out,
           avail_out |-> out - (strm'.total_out - strm.total_out), mode |-> mode]
  /\ s' = [s EXCEPT !.rc = ZlibRc(rc')] /\ ret' = ZlibRc(rc')
  /\ UNCHANGED at

\* h_inflateSetDictionary
HSetDictionary == at = "out" /\ SetDictionary /\ UNCHANGED <<z, s, at, ret>>

\* h_inflateGetHeader
HGetHeader(head) == at = "out" /\ z.avail_in = 0 /\ GetHeader(head) /\ UNCHANGED <<z, s, at, ret>>

\* h_inflateReset and h_inflateReset2
HReset == /\ at = "out"
          /\ Reset
          /\ z' = NewStream /\ s' = EmptyBuffers(s.obuf_total, s.flat)
          /\ ret' = "OK" /\ UNCHANGED at

HNext ==
  \/ Iterate
  \/ CheckStreamEnd
  \/ Refused
  \/ \E mode \in Modes, in \in Chunks, out \in OutSizes :
       Begin(mode, in, out) \/ Unbuffered(mode, in, out)
  \/ HSetDictionary
  \/ \E head \in HeaderBuffers : HGetHeader(head)
  \/ HReset

\* An application that wants the file calls again and again with more input, as long as it
\* has some, and with room for output.
HFeeds ==
  \E mode \in Modes, in \in Chunks, out \in OutSizes \ {0} :
     /\ in > 0 \/ z.total_in + z.avail_in = FileLen(file)
     /\ ret = "NEED_DICT" => strm.havedict
     /\ Begin(mode, in, out) \/ Unbuffered(mode, in, out)

HSpec == /\ HInit /\ [][HNext]_hvars
         /\ WF_hvars(Iterate \/ CheckStreamEnd \/ Refused)
         /\ SF_hvars(HFeeds) /\ WF_hvars(HSetDictionary)

-----------------------------------------------------------------------------
(* Properties                                                               *)

\* The streams and the buffer have their types.
HTypeOK ==
  /\ TypeOK
  /\ z.avail_in \in 0..FileLen(file) /\ z.total_in \in 0..FileLen(file) /\ z.avail_out \in Nat
  /\ z.total_out \in 0..OutLen(file) /\ z.mode \in Modes \cup {"NO"}
  /\ s.obuf_total \in ObufSizes /\ s.obuf \in 0..s.obuf_total /\ {s.flat, s.internal} \subseteq BOOLEAN
  /\ at \in {"out", "loop", "search"}
  /\ {ret, s.rc} \subseteq {"OK", "NEED_DICT", "ERR_GZIP_HDR", "STREAM_END", "STREAM_ERROR", "DATA_ERROR"}

\* All that was decompressed is delivered, in the buffer or at the end of the dictionary,
\* each byte in one of them.
HOutputOnce ==
  pc \in {"open", "ended"} => z.total_out + s.obuf + strm.obytes_in_dict = file.outAt[strm.tok]

\* The accelerator never writes to a buffer from which the application did not get
\* everything: the bookkeeping agrees on what is in it ("obuf should be empty here!").
BufferAgrees == /\ s.obuf_avail = s.obuf_total - s.obuf
                /\ ret = "DATA_ERROR" => pc = "failed"

\* Z_STREAM_END says that the application has all of the output, and that only empty
\* blocks follow what was decoded; the input was not advanced beyond the file.
HEndIsEnd ==
  ret = "STREAM_END" =>
    /\ z.total_out = OutLen(file) /\ s.obuf = 0 /\ strm.obytes_in_dict = 0
    /\ pc = "open" => file.outAt[strm.tok] = OutLen(file)

\* An application that goes on calling with the input it has and room for output is told of
\* the end of the file, of an error, or that a dictionary is missing when it is too late to
\* give it, unless it starts again.  Not so if the header was refused, unless buffering is
\* disabled: it is never told.
HInflateEnds ==
  []<>(\/ ret \in {"STREAM_END", "STREAM_ERROR", "DATA_ERROR", "ERR_GZIP_HDR"}
       \/ ret = "NEED_DICT" /\ pc = "fault"
       \/ HeaderRefused /\ s.obuf_total # 0
       \/ z.total_in + z.avail_in = 0)

\* The application gets every decompressed byte once, from the three places where it can
\* wait, and then the end.
HDelivered == HTypeOK /\ HOutputOnce /\ BufferAgrees /\ HEndIsEnd
=============================================================================
