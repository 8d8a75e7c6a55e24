---------------------------- MODULE DeflateStream ----------------------------
(***************************************************************************)
(* One hardware compression stream, lib/deflate.c with the output FIFO of  *)
(* include/deflate_fifo.h.                                                 *)
(*                                                                         *)
(* An application calls zedc_deflate with some input and some room for     *)
(* output until it gets ZEDC_STREAM_END.  A call writes the header, at     *)
(* most one DDCB's worth of compressed data, flush markers, the end-of-    *)
(* block marker and the trailer.  The accelerator writes into the          *)
(* application's buffer; everything else goes through the FIFO, which has  *)
(* to keep what does not fit.                                              *)
(*                                                                         *)
(* Bytes are numbered in the order in which the stream emits them, from    *)
(* the next one the application is to get; the FIFO holds such numbers.    *)
(* A call blocks its caller until the DDCB is done, so it is one step.     *)
(***************************************************************************)
EXTENDS Integers, Sequences

CONSTANTS
  FifoSize,     \* ZEDC_FIFO_SIZE
  HeaderLimit,  \* what deflate_add_header allows for name + comment + extra
  Formats,      \* formats of this instance: "DEFL", "GZIP", "ZLIB"
  Headers,      \* what the application may give to zedc_deflateSetHeader
  MaxIn,        \* bound: bytes of input of one stream
  OutSizes,     \* bound: sizes of the output buffer of one call
  MaxOut,       \* bits of output one byte of input may become
  MaxObits,     \* bits one DDCB can leave unwritten, ZEDC_ONUMBYTES * 8
  OBytes,       \* samples of the byte with the bits left over
  SkipLastDict, \* strm->flags & ZEDC_FLG_SKIP_LAST_DICT
  LateDict      \* the application sets dictionaries of raw streams at any time

NoHead == [name |-> 0, comment |-> 0, extra |-> 0, flags |-> {}]

ASSUME FifoAssumption == FifoSize \in Nat \ {0} /\ HeaderLimit \in Nat
ASSUME FormatAssumption == Formats \subseteq {"DEFL", "GZIP", "ZLIB"} /\ Formats # {}
ASSUME HeadersAssumption ==
  Headers \subseteq [name : Nat, comment : Nat, extra : Nat, flags : SUBSET {"FEXTRA", "FHCRC"}]
ASSUME BoundsAssumption == /\ MaxIn \in Nat /\ OutSizes \subseteq Nat /\ {MaxOut, MaxObits} \subseteq Nat
                           /\ OBytes \subseteq 0..255
                           /\ SkipLastDict \in BOOLEAN /\ LateDict \in BOOLEAN
\* What a DDCB leaves over fits the FIFO with the end of the stream: 31 + 3 + 8 bytes of 255.
ASSUME RoomAssumption == MaxObits >= 8 /\ MaxObits \div 8 + 11 < FifoSize

VARIABLES
  strm,     \* struct zedc_stream_s
  pc,       \* "open", "finishing" (asked to finish), "failed" or "ended"
  rc        \* what the last call returned

vars == <<strm, pc, rc>>

\* Versions of the dictionary: a number of bytes compressed so far, or one of these.
User    == -1
Nothing == -2

Smaller(a, b) == IF a < b THEN a ELSE b
The(set) == CHOOSE x \in set : TRUE

-----------------------------------------------------------------------------
(* The FIFO                                                                *)

fifo_free(s) == FifoSize - Len(s.out_fifo) - 1

\* n times fifo_push, whose result is ignored: what does not fit is lost.
Push(s, n) ==
  [s EXCEPT !.out_fifo = @ \o [i \in 1..Smaller(n, fifo_free(s)) |-> s.owed + i],
            !.owed = @ + n]

\* fifo_push32: all four bytes or none.
Push32(s) == IF fifo_free(s) < 4 THEN [s EXCEPT !.owed = @ + 4] ELSE Push(s, 4)

\* The application gets n bytes, the first of which should have number 1.
Renumbered(fifo, n) == [i \in 1..Len(fifo) |-> fifo[i] - n]

deflate_write_out_fifo(s) ==
  LET n == Smaller(s.avail_out, Len(s.out_fifo)) IN
  [s EXCEPT !.out_fifo = Renumbered(SubSeq(@, n + 1, Len(@)), n),
            !.owed = @ - n, !.avail_out = @ - n]

-----------------------------------------------------------------------------
(* Header, markers and trailer                                             *)

HeaderFits(h) == h.name + h.comment + h.extra <= HeaderLimit

\* A string is sent with its terminating zero, if it is not empty.
ZString(len) == IF len > 0 THEN len + 1 ELSE 0

\* The bytes of the optional fields of a GZIP header.
HeaderFields(h) ==
  (IF "FEXTRA" \in h.flags THEN 2 + h.extra ELSE 0)
    + ZString(h.name) + ZString(h.comment) + (IF "FHCRC" \in h.flags THEN 2 ELSE 0)

\* deflate_add_header of a GZIP stream.  The first three bytes are pushed before the
\* lengths are looked at.
GzipHeader(s) ==
  IF ~HeaderFits(s.gzip_head) THEN Push(s, 3)
  ELSE The({[Push(mtime, 2 + HeaderFields(s.gzip_head)) EXCEPT !.header_added = TRUE] :
            mtime \in {Push32(flags) : flags \in {Push(s, 4)}}})

ZlibHeader(s) ==
  LET cmf == Push(s, 2) IN
  [(IF s.havedict THEN Push32(cmf) ELSE cmf) EXCEPT !.header_added = TRUE]

deflate_add_header(s) == CASE s.format = "DEFL" -> s
                           [] s.format = "GZIP" -> GzipHeader(s)
                           [] s.format = "ZLIB" -> ZlibHeader(s)

HeaderFailed(s) == s.format = "GZIP" /\ ~s.header_added /\ ~HeaderFits(s.gzip_head)

\* bmsk: the n bits that are left over.
Pending(obyte, n) == obyte % 2^n

\* Mutated form: the final block's header is shifted by one bit too many.
EobBytesShifted(obyte, n) ==
  IF n = 0 THEN <<128, 1, 0>> ELSE <<Pending(obyte, n), (3 * 2^n) % 256, 0>>
\* The bytes deflate_write_eob pushes.
EobBytes(obyte, n) ==
  IF n = 0 THEN <<128, 1, 0>> ELSE <<Pending(obyte, n), (3 * 2^(n-1)) % 256, 0>>

\* Mutated form: the extra byte is pushed for 6 bits already.
SyncBytesExtra(obyte, n) ==
  (IF n = 0 THEN <<0, 0>> ELSE <<Pending(obyte, n), 0>> \o (IF n > 5 THEN <<0>> ELSE <<>>))
  \o <<0, 0, 255, 255>>
\* The bytes deflate_sync_flush pushes.
SyncBytes(obyte, n) ==
  (IF n = 0 THEN <<0, 0>> ELSE <<Pending(obyte, n), 0>> \o (IF n > 6 THEN <<0>> ELSE <<>>))
  \o <<0, 0, 255, 255>>

\* Mutated form: it waits until no bits are left over.
EobWaitsForByte(s) == ~s.eob_added /\ s.onumbits = 0
EobPossible(s) == ~s.eob_added /\ s.onumbits < 8

deflate_write_eob(s) ==
  IF ~EobPossible(s) THEN s
  ELSE [Push(s, Len(EobBytes(s.obyte, s.onumbits))) EXCEPT !.onumbits = 0, !.eob_added = TRUE]

deflate_add_trailer(s) ==
  IF ~s.eob_added \/ s.trailer_added THEN s
  ELSE LET t == CASE s.format = "DEFL" -> s
                  [] s.format = "GZIP" -> Push32(Push32(s))
                  [] s.format = "ZLIB" -> Push32(s)
       IN  [t EXCEPT !.trailer_added = TRUE, !.trailer_len = s.total_in]

\* HDR_BTYPE_FIXED: the three bits of the header of the next block are left over.
deflate_sync_flush(s) ==
  [Push(s, Len(SyncBytes(s.obyte, s.onumbits))) EXCEPT !.obyte = 2, !.onumbits = 3]

-----------------------------------------------------------------------------
(* The accelerator (external)                                              *)

\* What one DDCB may report: bytes consumed, bytes written, bits left over.  Input is
\* left only when the output buffer is full, and some is consumed each time.
Results(s) ==
  {r \in [inp : 1..s.avail_in, outp : {1, Smaller(s.avail_out, (MaxOut * s.avail_in) \div 8)},
          onumbits : (0..7) \cup {8, MaxObits}, obyte : OBytes] :
     /\ r.inp < s.avail_in => r.outp = s.avail_out
     /\ r.onumbits > 7 => r.outp = s.avail_out}

\* Or what it must not report: nothing written, or bits left over that had room.
BadResults(s) ==
  {r \in [inp : 1..s.avail_in, outp : {0, 1}, onumbits : {0, 8}, obyte : {0}] :
     r.outp = 0 \/ (r.onumbits > 7 /\ s.avail_out > 1)}

\* The try without saving the dictionary: the data is expected to fit.
Skips(s, flush) ==
  SkipLastDict /\ flush \in {"FINISH", "FULL"} /\ s.avail_out >= s.avail_in
\* The second try saves it.
Saves(s, flush, r) == ~Skips(s, flush) \/ r.inp # s.avail_in

\* Mutated form: the page is counted up.
PageAdvanced(s) == s.wsp_page + 1
PageToggled(s) == 1 - s.wsp_page

\* The page the accelerator may write to becomes the current one before the request
\* is sent.
Requested(s) == [s EXCEPT !.wsp_page = PageToggled(s)]

\* Mutated form: the bytes that did not fit are dropped.
UnwrittenDropped(s, r) == [s EXCEPT !.owed = @ + r.onumbits \div 8]
\* deflate_process_results: whole bytes left over go into the FIFO.
Unwritten(s, r) == Push(s, r.onumbits \div 8)

\* The dictionaries after it: the window went to the page the accelerator may write to.
SavedDict(s, flush, r) ==
  [s.dict EXCEPT ![1 - s.wsp_page] = IF Saves(s, flush, r) THEN s.total_in + r.inp ELSE @]

\* The result of a good request.
Processed(s, flush, r) ==
  LET total == s.total_in + r.inp
      t == [Requested(s) EXCEPT !.avail_in = @ - r.inp, !.total_in = total,
                     !.avail_out = @ - r.outp, !.out_fifo = Renumbered(@, r.outp),
                     !.dict_len = 1, !.window = total,
                     !.dict = SavedDict(s, flush, r),
                     !.onumbits = r.onumbits % 8, !.obyte = r.obyte]
  IN  The({Unwritten(x, r) : x \in {t}})

\* Mutated form: the input that is left is not looked at.
FinishesAnyway(s, flush) == flush = "FINISH"
\* "Instructed to finish and no input data"
Finishes(s, flush) == flush = "FINISH" /\ s.avail_in = 0

Finished(s, flush) ==
  IF Finishes(s, flush)
  THEN The({deflate_write_out_fifo(t) : t \in {deflate_add_trailer(e) : e \in {deflate_write_eob(s)}}})
  ELSE s

\* Mutated form: a full flush keeps the dictionary.
FullFlushKeepsDict(s) == s
FullFlush(s) == [s EXCEPT !.dict_len = 0]

Flushed(s, flush) ==
  CASE flush = "SYNC" -> The({deflate_write_out_fifo(t) : t \in {deflate_sync_flush(s)}})
    [] flush = "FULL" -> The({FullFlush(deflate_write_out_fifo(t)) : t \in {deflate_sync_flush(s)}})
    [] OTHER -> s

Done(s) == s.eob_added /\ s.trailer_added /\ s.out_fifo = <<>>

-----------------------------------------------------------------------------
(* Operations                                                              *)

\* __deflateInit_state.  avail_in and gzip_head are not touched.
Fresh(format, head, avail_in) ==
  [format |-> format, gzip_head |-> head, avail_in |-> avail_in, avail_out |-> 0,
   total_in |-> 0, out_fifo |-> <<>>, onumbits |-> 3, obyte |-> 2,
   header_added |-> FALSE, eob_added |-> FALSE, trailer_added |-> FALSE, havedict |-> FALSE,
   wsp_page |-> 0, dict_len |-> 0, dict |-> [p \in {0, 1} |-> Nothing],
   \* history: bytes emitted and not delivered, what the dictionary has to be, and
   \* total_in in the trailer
   owed |-> 0, window |-> Nothing, trailer_len |-> 0]

\* zedc_deflateInit2
Init == /\ strm \in {Fresh(f, NoHead, 0) : f \in Formats}
        /\ pc = "open" /\ rc = "OK"

\* The caller gets code, and its buffer back: avail_out says what is left of it.
Return(s, code) == strm' = s /\ rc' = code

\* The call after the output FIFO was written out first, in state s.
Continue(s, flush) ==
  \/ /\ Done(s)
     /\ Return(s, "STREAM_END") /\ pc' = "ended"
  \/ /\ ~Done(s) /\ (s.avail_out = 0 \/ s.avail_in = 0)
     /\ Return(s, "OK") /\ pc' = IF flush = "FINISH" THEN "finishing" ELSE "open"
  \/ /\ ~Done(s) /\ s.avail_out # 0 /\ s.avail_in # 0
     /\ \/ \E r \in Results(s) :
           \E t \in {Flushed(f, flush) : f \in {Finished(p, flush) : p \in {Processed(s, flush, r)}}} :
              /\ Return(t, IF Done(t) THEN "STREAM_END" ELSE "OK")
              /\ pc' = IF Done(t) THEN "ended" ELSE IF flush = "FINISH" THEN "finishing" ELSE "open"
        \* The request fails, or the result is refused after it was counted.
        \/ Return(Requested(s), "STREAM_ERROR") /\ pc' = "failed"
        \/ \E r \in BadResults(s) :
              /\ Return([Requested(s) EXCEPT !.avail_in = @ - r.inp, !.total_in = @ + r.inp],
                        "STREAM_ERROR")
              /\ pc' = "failed"

\* zedc_deflate(strm, flush) with in more bytes of input and room for out bytes.
\* A caller that has asked to finish keeps doing so and gives no more input; a call of a
\* stream at its end says so again.
Deflate(flush, in, out) ==
  /\ pc = "open" \/ (pc \in {"finishing", "ended"} /\ flush = "FINISH" /\ in = 0)
  /\ strm.total_in + strm.avail_in + in <= MaxIn
  /\ \E s1 \in {[strm EXCEPT !.avail_in = @ + in, !.avail_out = out]} :
     \E s2 \in {IF s1.header_added THEN s1 ELSE deflate_add_header(s1)} :
     \E s3 \in {deflate_write_out_fifo(s2)} :
       \/ /\ HeaderFailed(s1)
          /\ Return(s2, "STREAM_ERROR") /\ pc' = "failed"
       \/ /\ ~HeaderFailed(s1) /\ s3.avail_out = 0
          /\ Return(s3, "OK") /\ pc' = IF flush = "FINISH" THEN "finishing" ELSE "open"
       \/ /\ ~HeaderFailed(s1) /\ s3.avail_out # 0
          /\ \E s4 \in {Finished(s3, flush)} : Continue(s4, flush)

\* zedc_deflateSetHeader
SetHeader(h) ==
  /\ pc = "open"
  /\ strm' = [strm EXCEPT !.gzip_head = h]
  /\ UNCHANGED <<pc, rc>>

\* zedc_deflateSetDictionary.  The dictionary always goes to page 0.
SetDictionary ==
  /\ pc = "open"
  /\ LateDict \/ strm.total_in = 0
  /\ IF strm.header_added THEN rc' = "STREAM_ERROR" /\ UNCHANGED strm
     ELSE /\ strm' = [strm EXCEPT !.dict[0] = User, !.dict_len = 1, !.havedict = TRUE,
                                  !.window = User]
          /\ rc' = "OK"
  /\ UNCHANGED pc

\* "Try only to copy what is really needed": the page in use.
Copied(s) == [s EXCEPT !.dict[1 - s.wsp_page] = Nothing]

\* zedc_deflateCopy.  The copy is independent of its source, so we follow the copy.
Copy ==
  /\ pc \in {"open", "finishing"}
  /\ strm' = Copied(strm)
  /\ UNCHANGED <<pc, rc>>

\* zedc_deflateReset, with the input that is left dropped by the application.
Reset ==
  /\ strm' = Fresh(strm.format, strm.gzip_head, 0)
  /\ pc' = "open" /\ rc' = "OK"

Next ==
  \/ \E flush \in {"NO", "SYNC", "FULL", "FINISH"}, in \in 0..MaxIn, out \in OutSizes :
       Deflate(flush, in, out)
  \/ \E h \in Headers : SetHeader(h)
  \/ SetDictionary
  \/ Copy
  \/ Reset

Spec == Init /\ [][Next]_vars

-----------------------------------------------------------------------------
(* Properties                                                              *)

\* The stream has its type; the FIFO keeps one byte free.
TypeOK ==
  /\ strm.format \in Formats /\ strm.gzip_head \in Headers \cup {NoHead}
  /\ strm.avail_in \in 0..MaxIn /\ strm.avail_out \in Nat /\ strm.total_in \in 0..MaxIn
  /\ strm.owed \in Nat
  /\ Len(strm.out_fifo) < FifoSize
  /\ strm.onumbits \in 0..7 /\ strm.obyte \in 0..255
  /\ strm.wsp_page \in {0, 1} /\ strm.dict_len \in {0, 1}
  /\ strm.dict \in [{0, 1} -> Int] /\ strm.window \in Int
  /\ strm.trailer_len \in 0..MaxIn
  /\ {strm.header_added, strm.eob_added, strm.trailer_added, strm.havedict} \subseteq BOOLEAN
  /\ pc \in {"open", "finishing", "failed", "ended"}
  /\ rc \in {"OK", "STREAM_END", "STREAM_ERROR"}

\* Every byte of header, data, markers and trailer reaches the application, in the
\* order it was emitted: none is lost in a full FIFO, none is overtaken by what the
\* accelerator writes directly.
InOrder ==
  pc # "failed" => strm.out_fifo = [i \in 1..strm.owed |-> i]

Bits(bytes) == [i \in 1..8*Len(bytes) |-> (bytes[(i-1) \div 8 + 1] \div 2^((i-1) % 8)) % 2]
Zeros(n) == [i \in 1..n |-> 0]
Padded(bits) == bits \o Zeros((-Len(bits)) % 8)
\* The bits of the byte that is not complete yet.
LeftOver == SubSeq(Bits(<<strm.obyte>>), 1, strm.onumbits)

\* The bytes pushed at the end are, after the bits left over: an end-of-block marker
\* (7 bits), the header of a final block with fixed codes (1, then 01 with the low bit
\* first), an end-of-block marker, padding (RFC 1951).
EobBits == Bits(EobBytes(strm.obyte, strm.onumbits)) =
             Padded(LeftOver \o Zeros(7) \o <<1, 1, 0>> \o Zeros(7))

\* And for a flush: an end-of-block marker, the header of a stored block that is not
\* final, padding, and the length 0 with its complement.
SyncBits == Bits(SyncBytes(strm.obyte, strm.onumbits)) =
              Padded(LeftOver \o Zeros(7) \o <<0, 0, 0>>)
                \o Zeros(16) \o [i \in 1..16 |-> 1]

\* The dictionary the next DDCB reads is the window of the data compressed so far, or
\* the one the application has set: page toggling, the try without saving it, flushes
\* and copies leave the right one in the right page.
DictCurrent ==
  (pc = "open" \/ (pc = "finishing" /\ strm.avail_in # 0)) /\ strm.dict_len # 0
    => strm.dict[strm.wsp_page] = strm.window

\* The trailer is written once, after the end-of-block marker, and counts all the input;
\* ZEDC_STREAM_END is returned when it has been delivered.
TrailerFinal ==
  /\ pc # "failed" /\ strm.trailer_added =>
       strm.eob_added /\ strm.avail_in = 0 /\ strm.trailer_len = strm.total_in
  /\ pc = "ended" => strm.trailer_added /\ strm.owed = 0

\* An application that keeps calling with ZEDC_FINISH gets to the end: once the input is
\* consumed, a call with room for output delivers something or ends the stream.
FinishProgress ==
  pc = "finishing" /\ strm.avail_in = 0 =>
    \A out \in OutSizes \ {0} :
      LET t == Finished(deflate_write_out_fifo([strm EXCEPT !.avail_out = out]), "FINISH")
      IN  Done(t) \/ t.owed < strm.owed \/ (t.eob_added /\ ~strm.eob_added)

\* Both markers have the bits that end or continue the stream, for every byte left over.
MarkerBits == EobBits /\ SyncBits

\* The end of a stream is complete when it is reached, and calls get there.
EndIsReached == TypeOK /\ TrailerFinal /\ FinishProgress
=============================================================================
