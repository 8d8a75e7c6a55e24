------------------------------ MODULE HwDeflate ------------------------------
(***************************************************************************)
(* zlib's deflate on top of a hardware compression stream, lib/hardware.c. *)
(*                                                                         *)
(* The adapter collects the input of many calls in a buffer, so that the   *)
(* accelerator gets large requests, and gives out what the accelerator     *)
(* wrote from a second buffer, in pieces that fit the caller's.  The       *)
(* stream below is the one of DeflateStream; a step of the loop of         *)
(* h_deflate is one step here.                                             *)
(***************************************************************************)
EXTENDS DeflateStream

CONSTANTS
  IbufSizes,    \* zlib_ibuf_total: 0 if buffering is disabled
  PageSize,     \* sysconf(_SC_PAGESIZE)
  Modes         \* flush modes the application uses

ASSUME BufferAssumption == /\ IbufSizes \subseteq Nat /\ PageSize \in Nat
                           /\ Modes \subseteq {"NO", "SYNC", "FULL", "FINISH"}
\* The factor of h_deflateBound is the accelerator's worst case; its page takes a FIFO that is
\* written out before and after a request: 2 * 256 of 4096 bytes.
ASSUME PageAssumption == MaxOut <= 15 /\ 2 * FifoSize <= PageSize

VARIABLES
  z,        \* z_stream of the application
  s,        \* struct hw_state
  busy,     \* a call of h_deflate is in progress
  ret       \* what the last call of h_deflate returned

hvars == <<strm, pc, rc, z, s, busy, ret>>

\* Mutated form: the page for left-over bytes and header is not added.
BoundWithoutPage(sourceLen) == (sourceLen * 15) \div 8
h_deflateBound(sourceLen) == (sourceLen * 15) \div 8 + PageSize

\* output_buffer_bytes
output_buffer_bytes(t) == t.obuf - t.obuf_next

\* The two buffers empty.
EmptyBuffers(ibuf_total) ==
  LET obuf_total == IF ibuf_total = 0 THEN 0 ELSE h_deflateBound(ibuf_total) IN
  [ibuf_total |-> ibuf_total, ibuf |-> 0, obuf_total |-> obuf_total, obuf_next |-> 0,
   obuf |-> 0, obuf_avail |-> obuf_total, rc |-> "OK",
   due |-> 0]   \* history: bytes the stream wrote and the application did not get

\* mode is the flush mode of the last call.
NewStream == [avail_in |-> 0, avail_out |-> 0, total_in |-> 0, mode |-> "NO"]

\* h_deflateInit2_
HInit == /\ Init
         /\ z = NewStream
         /\ s \in {EmptyBuffers(n) : n \in IbufSizes}
         /\ busy = FALSE /\ ret = "OK"

-----------------------------------------------------------------------------
(* The buffers.  A pair <<application's stream, hw_state>> goes through     *)
(* the steps of the loop.                                                   *)

\* Mutated form: all the input is taken, whatever the room.
TakesAll(p) == p[1].avail_in
Taken(p) == Smaller(p[1].avail_in, p[2].ibuf_total - p[2].ibuf)

\* h_read_ibuf
h_read_ibuf(p) ==
  LET n == Taken(p) IN
  <<[p[1] EXCEPT !.avail_in = @ - n, !.total_in = @ + n], [p[2] EXCEPT !.ibuf = @ + n]>>

\* h_flush_obuf
h_flush_obuf(p) ==
  LET n == Smaller(p[1].avail_out, output_buffer_bytes(p[2])) IN
  <<[p[1] EXCEPT !.avail_out = @ - n],
    [p[2] EXCEPT !.obuf_next = @ + n, !.obuf_avail = @ + n, !.due = @ - n]>>

\* Mutated form: the accelerator is started while output is left in the buffer.
NeverWaitsForRoom(p) == FALSE
\* "need more output space"
NeedsRoom(p) == p[1].avail_out = 0

\* Mutated form: only a full buffer is sent.
StartsFull(p) == p[2].ibuf = p[2].ibuf_total
\* "user likes to flush or no more ibuf space avail"
Starts(p) == p[1].mode # "NO" \/ p[2].ibuf = p[2].ibuf_total

\* Mutated form: the stream is told to finish with every request.
FlushAlways(p) == p[1].mode
\* Mutated form: the input that was collected is looked at instead.
FlushByTotal(p) == IF p[1].total_in # 0 THEN "NO" ELSE p[1].mode
\* "If we still have more input data we must not tell hardware to finish/flush"
FlushOf(p) == IF p[1].avail_in # 0 THEN "NO" ELSE p[1].mode

\* Mutated form: the collected input is not dropped when it was absorbed.
InputKept(t) == t
Absorbed(t) == [t EXCEPT !.ibuf = 0]

\* The output buffer after the stream t has written to it.
Written(p, t, code) ==
  <<p[1], [p[2] EXCEPT !.obuf_next = 0, !.obuf = p[2].obuf_total - t.avail_out,
                       !.obuf_avail = t.avail_out, !.rc = code,
                       !.due = @ + p[2].obuf_total - t.avail_out]>>

\* Mutated form: whether the hardware saw the end is not looked at.
EndsWithoutEob(p) == p[1].avail_in = 0 /\ p[2].ibuf = 0 /\ output_buffer_bytes(p[2]) = 0
\* "nothing to do anymore"
AtEnd(p) == /\ p[2].rc = "STREAM_END" /\ p[1].avail_in = 0 /\ p[2].ibuf = 0
            /\ output_buffer_bytes(p[2]) = 0

-----------------------------------------------------------------------------
(* Operations                                                               *)

\* Go on with p: the call returns code, or its loop goes on (code "LOOP").
Go(p, code) ==
  /\ z' = p[1] /\ s' = p[2]
  /\ IF code = "LOOP" THEN UNCHANGED <<busy, ret>> ELSE busy' = FALSE /\ ret' = code

\* The end of the loop's body.
LoopEnd(p) ==
  \E q \in {h_flush_obuf(p)} :
     CASE NeedsRoom(q) -> Go(q, "OK")
       [] ~NeedsRoom(q) /\ q[1].mode = "FINISH" /\ AtEnd(q) -> Go(q, "STREAM_END")
       [] OTHER -> Go(q, IF q[1].avail_in # 0 THEN "LOOP" ELSE "OK")

\* One iteration.
Iterate ==
  /\ busy /\ s.ibuf_total # 0 /\ pc # "failed"
  /\ \E p \in {h_flush_obuf(h_read_ibuf(<<z, s>>))} :
       \/ NeedsRoom(p) /\ Go(p, "OK") /\ UNCHANGED vars
       \/ ~NeedsRoom(p) /\ ~Starts(p) /\ LoopEnd(p) /\ UNCHANGED vars
       \/ /\ ~NeedsRoom(p) /\ Starts(p)
          /\ Deflate(FlushOf(p), p[2].ibuf, p[2].obuf_total)
          /\ \E q \in {Written(p, strm', rc')} :
               IF strm'.avail_in # 0 THEN Go(q, "STREAM_ERROR")
               ELSE LoopEnd(<<q[1], Absorbed(q[2])>>)

\* The stream failed with all input absorbed, as when a result is refused after its input
\* was counted: h_deflate looks at the input only.
FailureSwallowed == pc = "failed" /\ s.ibuf_total # 0 /\ strm.avail_in = 0
\* The application gets Z_OK; what the code does with the stream after that is not followed.
Unreported ==
  /\ busy /\ FailureSwallowed
  /\ Go(<<z, s>>, "OK") /\ UNCHANGED vars

\* h_deflate is called with in more bytes of input and room for out bytes.  An application
\* that has asked to finish keeps doing so and gives no more input.
Begin(flush, in, out) ==
  /\ ~busy /\ s.ibuf_total # 0 /\ ret # "STREAM_END" /\ pc # "failed"
  /\ z.mode = "FINISH" => flush = "FINISH" /\ in = 0
  /\ z.total_in + z.avail_in + in <= MaxIn
  /\ z' = [z EXCEPT !.avail_in = @ + in, !.avail_out = out, !.mode = flush]
  /\ busy' = TRUE
  /\ UNCHANGED <<strm, pc, rc, s, ret>>

\* "Special case: buffering fully disabled"
Unbuffered(flush, in, out) ==
  /\ s.ibuf_total = 0 /\ pc # "failed" /\ ret # "STREAM_END"
  /\ z.mode = "FINISH" => flush = "FINISH" /\ in = 0
  /\ Deflate(flush, in, out)
  /\ z' = [avail_in |-> strm'.avail_in, avail_out |-> strm'.avail_out,
           total_in |-> strm'.total_in, mode |-> flush]
  /\ s' = [s EXCEPT !.rc = rc']
  /\ ret' = rc'
  /\ UNCHANGED busy

\* h_deflateReset
HReset == /\ ~busy
          /\ Reset
          /\ z' = NewStream /\ s' = EmptyBuffers(s.ibuf_total)
          /\ ret' = "OK" /\ UNCHANGED busy

\* h_deflateSetDictionary
HSetDictionary == /\ ~busy /\ z.total_in = 0
                  /\ SetDictionary
                  /\ UNCHANGED <<z, s, busy, ret>>

\* h_deflateSetHeader
HSetHeader(h) == ~busy /\ SetHeader(h) /\ UNCHANGED <<z, s, busy, ret>>

\* The buffers of the copy: the collected input, and obuf_total - obuf_avail bytes of
\* output at the same place.
CopiedBuffers(t) == [t EXCEPT !.obuf = t.obuf_next + (t.obuf_total - t.obuf_avail)]

\* h_deflateCopy, after which we follow the copy
HCopy == /\ ~busy /\ ret # "STREAM_END"
         /\ Copy
         /\ s' = CopiedBuffers(s)
         /\ UNCHANGED <<z, busy, ret>>

HNext ==
  \/ Iterate
  \/ Unreported
  \/ \E flush \in Modes, in \in 0..MaxIn, out \in OutSizes :
       Begin(flush, in, out) \/ Unbuffered(flush, in, out)
  \/ HReset
  \/ HSetDictionary
  \/ \E h \in Headers : HSetHeader(h)
  \/ HCopy

\* An application that has asked to finish goes on with room for output.
Finish == \E out \in OutSizes \ {0} :
            z.mode = "FINISH" /\ (Begin("FINISH", 0, out) \/ Unbuffered("FINISH", 0, out))

HSpec == HInit /\ [][HNext]_hvars /\ WF_hvars(Iterate \/ Unreported) /\ WF_hvars(Finish)

-----------------------------------------------------------------------------
(* Properties                                                               *)

\* Both streams and the buffers have their types.
HTypeOK ==
  /\ TypeOK
  /\ z \in [avail_in : 0..MaxIn, avail_out : Nat, total_in : 0..MaxIn, mode : Modes \cup {"NO"}]
  /\ s.ibuf_total \in IbufSizes /\ s.ibuf \in 0..s.ibuf_total
  /\ s.obuf_next \in 0..s.obuf /\ s.obuf \in 0..s.obuf_total /\ s.obuf_avail \in 0..s.obuf_total
  /\ busy \in BOOLEAN
  /\ {ret, s.rc} \subseteq {"OK", "STREAM_END", "STREAM_ERROR"}

\* What the application gave is what was compressed and what waits in the buffer: no input
\* is lost or compressed twice when it is collected over calls and loops.
InputOnce == pc # "failed" => z.total_in = strm.total_in + s.ibuf

\* What the stream wrote and the application did not get is in the output buffer, where
\* the next call, and a copy of the stream, looks for it.
OutputOnce ==
  /\ s.due = output_buffer_bytes(s)
  /\ s.obuf_avail = s.obuf_total - output_buffer_bytes(s)

\* The stream is only asked to finish when the application has asked for it, and with the
\* last of its input.
FinishIsLast == pc \in {"finishing", "ended"} /\ s.ibuf_total # 0 => z.mode = "FINISH" /\ z.avail_in = 0 /\ s.ibuf = 0

\* Z_STREAM_END: the input was compressed to its end, and the stream with its trailer has
\* been delivered.
EndIsEnd == ret = "STREAM_END" =>
  /\ pc = "ended" /\ z.avail_in = 0 /\ strm.trailer_len = z.total_in
  /\ s.due = 0 /\ strm.owed = 0

\* The output buffer takes all that becomes of a full input buffer, with the header, what
\* was left over and the end of the stream: "not all input absorbed" is not seen unless the
\* accelerator failed.
BoundSuffices == ret = "STREAM_ERROR" => pc = "failed"

\* A flush that did not run out of room leaves nothing behind.
FlushDelivers ==
  ~busy /\ pc = "open" /\ s.ibuf_total # 0 /\ z.mode \in {"SYNC", "FULL"} /\ z.avail_out # 0
    => z.avail_in = 0 /\ s.ibuf = 0 /\ s.due = 0 /\ strm.owed = 0

\* An application that asks to finish, and goes on calling with room for output, is told of
\* the end of the stream or of an error, unless it starts again.  Not so if a failure of the
\* stream was swallowed: what h_deflate returns from then on is not followed.
FinishEnds ==
  z.mode = "FINISH" ~> \/ ret \in {"STREAM_END", "STREAM_ERROR"} \/ z.mode # "FINISH"
                       \/ FailureSwallowed

\* Every byte of input is compressed once and every byte of output given out once, up to the
\* end of the stream, with buffers that are large enough.
BytesOnce == HTypeOK /\ InputOnce /\ OutputOnce /\ EndIsEnd /\ BoundSuffices

\* The flush mode reaches the stream with the last of the input, and takes everything with it.
FlushReaches == FinishIsLast /\ FlushDelivers
=============================================================================
