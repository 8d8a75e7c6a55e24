---------------------------- MODULE InflateStream ----------------------------
(***************************************************************************)
(* One hardware decompression stream, lib/inflate.c.                       *)
(*                                                                         *)
(* An application gives a compressed file in pieces of any size to         *)
(* zedc_inflate, and takes the output in pieces of any size.  A call       *)
(* parses header and trailer byte by byte, and sends at most one DDCB      *)
(* (two if it guessed that the data fits).  The accelerator stops where    *)
(* the input or the room for output ends, in the middle of a block and of  *)
(* a byte, and keeps nothing: the driver has to put together, in one       *)
(* buffer, the tree of the block in progress and the input bits that were  *)
(* not decoded, which is what most of this module is about.                *)
(*                                                                         *)
(* The compressed data is a sequence of tokens (block headers, symbols,    *)
(* bytes of stored blocks, end-of-block markers) with their lengths in     *)
(* bits.  An input byte is known by its index in the file, and so are the  *)
(* bytes of the buffer: the properties say which ones have to be there.    *)
(* A call blocks its caller until the DDCB is done, so it is one step.     *)
(***************************************************************************)
EXTENDS Integers, Sequences, FiniteSets

CONSTANTS
  Files,         \* compressed files of this instance
  HeaderBuffers, \* what the application may give to zedc_inflateGetHeader
  Chunks,        \* bound: bytes of input a call adds
  OutSizes,      \* bound: sizes of the output buffer of one call
  TreeLen,       \* ZEDC_TREE_LEN
  XlenBits,      \* width of strm->xlen, 16
  Flushes,       \* flush modes the application uses
  SkipLastDict,  \* strm->flags & ZEDC_FLG_SKIP_LAST_DICT
  MayFail,       \* DDCBs may fail
  LateDict       \* the application sets dictionaries after a DDCB was sent, too

\* Length of an optional field that is not there.
Absent == -1
\* zedc_inflateGetHeader was not called.
NoBuffers == [extra |-> -1, name |-> -1, comment |-> -1]

Kinds == {"hdr", "sym", "raw", "eob"}
Token == [k : Kinds, bits : Nat, stored : BOOLEAN]

Ones(n) == [i \in 1..n |-> 1]
ZString(len) == IF len = Absent THEN <<>> ELSE Append(Ones(len), 0)

\* Only bytes whose value the parser looks at have one.
HeaderBytes(f) ==
  CASE f.format = "DEFL" -> <<>>
    [] f.format = "ZLIB" -> Ones(2) \o (IF f.dict THEN Ones(4) ELSE <<>>)
    [] f.format = "GZIP" ->
         Ones(10) \o (IF f.extra = Absent THEN <<>> ELSE <<f.extra, 0>> \o Ones(f.extra))
           \o ZString(f.name) \o ZString(f.comment) \o (IF f.hcrc THEN Ones(2) ELSE <<>>)

\* header are the bytes of the header, at[i] is the first bit of token i in the body,
\* outAt[i] the output before it, hdrOf[i] the header of the block it is in the middle of
\* (0: of none).
Numbered(f) ==
  /\ f.at \in [1..(Len(f.body) + 1) -> Nat] /\ f.at[1] = 0
  /\ f.outAt \in [1..(Len(f.body) + 1) -> Nat] /\ f.outAt[1] = 0
  /\ \A i \in 1..Len(f.body) : /\ f.at[i + 1] = f.at[i] + f.body[i].bits
                               /\ f.outAt[i + 1] >= f.outAt[i]

\* A block is a header, symbols or the bytes of a stored block, and an end-of-block marker,
\* which has no bits behind stored bytes (RFC 1951).
InBlocks(f) ==
  /\ f.hdrOf \in [1..(Len(f.body) + 1) -> 0..Len(f.body)]
  /\ f.hdrOf[1] = 0 /\ f.hdrOf[Len(f.body) + 1] = 0
  /\ \A i \in 1..Len(f.body) :
       LET t == f.body[i]
           h == f.hdrOf[i]
           stored == f.body[h].stored
       IN  /\ h = 0 <=> t.k = "hdr"
           /\ f.hdrOf[i + 1] = CASE t.k = "hdr" -> i [] t.k = "eob" -> 0 [] OTHER -> h
           /\ t.k = "hdr" => t.bits > (IF t.stored THEN 32 ELSE 0)
           /\ t.k = "sym" => t.bits > 0 /\ ~stored
           /\ t.k = "raw" => t.bits = 8 /\ stored
           /\ t.k = "eob" => (t.bits = 0 <=> stored)

ASSUME FilesAssumption ==
  \A f \in Files :
     /\ f.format \in {"DEFL", "GZIP", "ZLIB"}
     /\ f.extra \in 0..255 \cup {Absent} /\ {f.name, f.comment} \subseteq Nat \cup {Absent}
     /\ {f.hcrc, f.dict, f.bad} \subseteq BOOLEAN /\ (f.bad => f.format # "DEFL")
     /\ f.header = HeaderBytes(f)
     /\ f.body \in Seq(Token) \ {<<>>}
     /\ Numbered(f) /\ InBlocks(f)

\* Bytes that the tree of the block of token i takes in the buffer.
TreeBytes(f, i) ==
  LET h == f.hdrOf[i] IN
  CASE h = 0 -> 0
    [] h # 0 /\ f.body[h].stored -> 8
    [] OTHER -> 8 * ((f.body[h].bits + 70) \div 64)

\* The buffer has room for the tree of a block and the longest token in it.
ASSUME BoundsAssumption ==
  /\ HeaderBuffers \subseteq [extra : Nat, name : Nat, comment : Nat]
  /\ Chunks \subseteq Nat /\ OutSizes \subseteq Nat
  /\ XlenBits \in Nat /\ 2^XlenBits > 255
  /\ TreeLen \in Nat
  /\ \A f \in Files : \A i \in 1..Len(f.body) :
       TreeBytes(f, i) + (f.body[i].bits + 7) \div 8 <= TreeLen
  /\ Flushes \subseteq {"NO", "BLOCK", "FINISH"}
  /\ {SkipLastDict, MayFail, LateDict} \subseteq BOOLEAN

VARIABLES
  file,     \* the file being decompressed; no step changes it
  strm,     \* struct zedc_stream_s
  pc,       \* "open", "fault" (needs a dictionary), "failed" or "ended"
  rc        \* what the last call returned

vars == <<file, strm, pc, rc>>

User    == -1   \* versions of the dictionary: a number of bytes decompressed so far,
Nothing == -2   \* or one of these
Junk    == -1   \* a byte of the buffer that has no meaning

Smaller(a, b) == IF a < b THEN a ELSE b
NotNegative(a) == IF a < 0 THEN 0 ELSE a
The(set) == CHOOSE x \in set : TRUE

-----------------------------------------------------------------------------
(* The file (RFC 1950, 1951, 1952)                                         *)

HeaderLen(f)  == Len(f.header)
TrailerLen(f) == CASE f.format = "DEFL" -> 0 [] f.format = "ZLIB" -> 4 [] f.format = "GZIP" -> 8
NTok(f)       == Len(f.body)
BodyLen(f)    == (f.at[NTok(f) + 1] + 7) \div 8
FileLen(f)    == HeaderLen(f) + BodyLen(f) + TrailerLen(f)
OutLen(f)     == f.outAt[NTok(f) + 1]

\* The first bit of token i in the file.
Bit(f, i) == 8 * HeaderLen(f) + f.at[i]

-----------------------------------------------------------------------------
(* Header                                                                  *)

More(state) == [state |-> state, restart |-> FALSE]
\* A field with its own buffer starts: gzip_header_idx is set to 0.
Field(state) == [state |-> state, restart |-> TRUE]

FLAGS_CHECK_FHCRC(f)    == More(IF f.hcrc THEN "FHCRC1" ELSE "DONE")
FLAGS_CHECK_FCOMMENT(f) == IF f.comment # Absent THEN Field("FCOMMENT") ELSE FLAGS_CHECK_FHCRC(f)
FLAGS_CHECK_FNAME(f)    == IF f.name # Absent THEN Field("FNAME") ELSE FLAGS_CHECK_FCOMMENT(f)
FLAGS_CHECK_EXTRA(f)    == IF f.extra # Absent THEN More("EXTRA_LEN1") ELSE FLAGS_CHECK_FNAME(f)

\* Mutated form: the counter is compared with the bytes that are left after this one.
LastExtraLate(xlen) == xlen = 0
LastExtra(xlen) == xlen = 1

\* The state after a byte b.
GzipNext(s, b) ==
  CASE s.header_state = "START"      -> FLAGS_CHECK_EXTRA(file)
    [] s.header_state = "EXTRA_LEN1" -> Field("EXTRA_LEN2")
    [] s.header_state = "EXTRA_LEN2" -> More("EXTRA")
    [] s.header_state = "EXTRA"    -> IF LastExtra(s.xlen) THEN FLAGS_CHECK_FNAME(file) ELSE More("EXTRA")
    [] s.header_state = "FNAME"    -> IF b = 0 THEN FLAGS_CHECK_FCOMMENT(file) ELSE More("FNAME")
    [] s.header_state = "FCOMMENT" -> IF b = 0 THEN FLAGS_CHECK_FHCRC(file) ELSE More("FCOMMENT")
    [] s.header_state = "FHCRC1"   -> More("FHCRC2")
    [] s.header_state = "FHCRC2"   -> More("DONE")

XlenNext(s, b) ==
  CASE s.header_state = "EXTRA_LEN1" -> b
    [] s.header_state = "EXTRA_LEN2" -> s.xlen + 256 * b
    [] s.header_state = "EXTRA" /\ ~LastExtra(s.xlen) -> (s.xlen - 1) % 2^XlenBits
    [] OTHER -> s.xlen

\* The buffer that takes the bytes of this state.
BufferOf(state) ==
  CASE state = "EXTRA" -> "extra" [] state = "FNAME" -> "name" [] state = "FCOMMENT" -> "comment"
    [] OTHER -> "none"

\* Mutated form: the index goes on from the field before.
IndexRestartsNever(n, idx) == idx
IndexRestarts(n, idx) == IF n.restart THEN 0 ELSE idx

\* inflate_rem_gzip_header with the byte b: <<stream, result>>.
inflate_rem_gzip_header(s, b) ==
  IF s.prefx_idx < 9 THEN <<s, "MORE">>
  ELSE LET n      == GzipNext(s, b)
           buf    == BufferOf(s.header_state)
           stores == buf # "none" /\ s.gzip_head # NoBuffers
           idx    == IF stores THEN s.gzip_header_idx + 1 ELSE s.gzip_header_idx
       IN  IF stores /\ s.gzip_header_idx >= s.gzip_head[buf] THEN <<s, "ERROR">>
           ELSE <<[s EXCEPT !.header_state = n.state, !.xlen = XlenNext(s, b),
                            !.gzip_header_idx = IndexRestarts(n, idx),
                            !.saved = IF stores THEN [@ EXCEPT ![buf] = idx] ELSE @],
                  IF n.state = "DONE" THEN "OK" ELSE "MORE">>

\* inflate_rem_zlib_header.  FDICT makes the header four bytes longer.
inflate_rem_zlib_header(s) ==
  CASE s.prefx_idx < 1 -> <<s, "MORE">>
    [] s.prefx_idx = 1 -> IF file.dict THEN <<[s EXCEPT !.header_state = "ZLIB_ADLER"], "MORE">>
                          ELSE <<[s EXCEPT !.header_state = "DONE"], "OK">>
    [] s.prefx_idx = 5 -> <<[s EXCEPT !.header_state = "DONE", !.havedict = FALSE], "NEED_DICT">>
    [] OTHER -> <<s, "MORE">>

\* The byte the parser looks at; behind the header they have no zeros here.
NextByte(s) == IF s.total_in < HeaderLen(file) THEN file.header[s.total_in + 1] ELSE 1

Counted(s) == [s EXCEPT !.avail_in = @ - 1, !.total_in = @ + 1, !.prefx_idx = @ + 1]

HeaderByte(s) ==
  The({<<Counted(h[1]), h[2]>> :
       h \in {IF file.format = "ZLIB" THEN inflate_rem_zlib_header(s)
              ELSE inflate_rem_gzip_header(s, NextByte(s))}})

\* The loop of inflate_format_rem_header.
HeaderLoop(s) ==
  LET after[n \in Nat] ==
        IF n = 0 THEN <<s, "MORE">>
        ELSE The({IF h[2] = "MORE" THEN HeaderByte(h[1]) ELSE h : h \in {after[n - 1]}})
  IN  after[s.avail_in]

\* inflate_format_rem_header.  When the input ends before the header its result is OK.
inflate_format_rem_header(s, flush) ==
  The({LET result == CASE h[2] = "ERROR" -> "ERR_GZIP_HDR"
                       [] h[2] = "NEED_DICT" -> "NEED_DICT"
                       [] OTHER -> "OK"
       IN  <<[h[1] EXCEPT !.block_req = ~s.prefx_len /\ flush = "BLOCK" /\ result = "OK"], result>> :
       h \in {HeaderLoop([s EXCEPT !.prefx_len = TRUE])}})

-----------------------------------------------------------------------------
(* Trailer and output                                                      *)

\* inflate_format_rem_trailer: the stream, and whether the trailer is complete, goes on
\* or has a wrong checksum (which is seen with its fourth byte).
inflate_format_rem_trailer(s) ==
  LET left == TrailerLen(file) - s.postfx_idx
      wrong == file.bad /\ TrailerLen(file) > 0 /\ s.postfx_idx + Smaller(left, s.avail_in) >= 4
      n == IF wrong THEN NotNegative(4 - s.postfx_idx) ELSE Smaller(left, s.avail_in)
      t == [s EXCEPT !.postfx_idx = @ + n, !.avail_in = @ - n, !.total_in = @ + n]
  IN  <<t, IF wrong THEN "ERROR" ELSE IF n < left THEN "MORE" ELSE "OK">>

\* Mutated form: the checksum is enough.
EndsWithOutputLeft(s) == TRUE
\* "must re-enter" while output is left in the dictionary.
Ends(s) == s.obytes_in_dict = 0

\* Mutated form: the bytes are not taken from the count.
PendingKept(s, n) == [s EXCEPT !.avail_out = @ - n, !.total_out = @ + n]
PendingTaken(s, n) == [s EXCEPT !.avail_out = @ - n, !.total_out = @ + n, !.obytes_in_dict = @ - n]

\* inflate_flush_output_buffer
inflate_flush_output_buffer(s) == PendingTaken(s, Smaller(s.avail_out, s.obytes_in_dict))
Overrun(s) == s.obytes_in_dict # 0 /\ s.dict_len < s.obytes_in_dict

-----------------------------------------------------------------------------
(* The accelerator (external)                                              *)

\* set_inflate_asiv: what the request says of the buffer.
Request(s) ==
  [len      |-> (s.hdr_ib + s.tree_bits + s.pad_bits + s.scratch_ib + s.scratch_bits) \div 8,
   hdr_bits |-> s.tree_bits,
   pre      |-> s.tree_bits + s.scratch_bits]

\* Mutated form: the request reads the page it writes to.
PageKept(s) == s.wsp_page
PageToggled(s) == 1 - s.wsp_page

OutOf(s, j) == file.outAt[j] - file.outAt[s.tok]

\* The tokens before which the accelerator may stop: everything before is complete in the
\* input, no symbol starts without room, and it stops at the end of the final block, at
\* the end of the input, or with the output full.
Stops(s) == {j \in s.tok..(NTok(file) + 1) :
  /\ j = s.tok \/ Bit(file, j) <= 8 * (s.total_in + s.avail_in)
  /\ \A m \in s.tok..(j-1) : file.outAt[m + 1] > file.outAt[m] => OutOf(s, m) < s.avail_out
  /\ \/ j = NTok(file) + 1
     \/ OutOf(s, j) >= s.avail_out
     \/ Bit(file, j + 1) > 8 * (s.total_in + s.avail_in)
  /\ j <= NTok(file) => file.body[j].bits > 0}

\* What it reports then.  processed counts the bits of the header and of the data.
Report(s, in, j) ==
  LET hb      == file.hdrOf[j]
      spilled == NotNegative(OutOf(s, j) - s.avail_out)
      stored  == hb # 0 /\ file.body[hb].stored
  IN  [to |-> j,
       processed |-> IF j = s.tok THEN 0 ELSE in.hdr_bits + file.at[j] - file.at[s.tok],
       out_hdr_bits |-> CASE hb = 0 -> 0 [] stored -> 40 [] OTHER -> file.body[hb].bits,
       hdr_start |-> IF hb < s.tok THEN 0 ELSE in.hdr_bits + file.at[hb] - file.at[s.tok],
       passed_eob  |-> \E m \in s.tok..(j-1) : file.body[m].k = "eob",
       reached_eob |-> j > s.tok /\ file.body[j - 1].k = "eob",
       final_eob   |-> j > s.tok /\ j = NTok(file) + 1,
       copyblock_len |-> IF stored THEN Cardinality({m \in j..NTok(file) :
                                           file.hdrOf[m] = hb /\ file.body[m].k = "raw"}) ELSE 0,
       outp_returned |-> OutOf(s, j) - spilled,
       obytes_in_dict |-> spilled]

\* A symbol refers to a dictionary that was not given.
NeedsDict(s, j) == file.dict /\ s.dict_len = 0 /\ file.outAt[s.tok] = 0 /\ file.outAt[j] > 0

\* The try without saving the dictionary is taken when it got everything.
Saves(s, flush, a) ==
  ~(/\ SkipLastDict /\ flush = "FINISH" /\ s.avail_out > 2 * s.avail_in
    /\ a.final_eob /\ a.obytes_in_dict = 0)

-----------------------------------------------------------------------------
(* Tree and scratch                                                        *)

InScratchBytes(s) == (s.scratch_bits + s.scratch_ib) \div 8

\* memmove inside the buffer, and from the input.
Moved(area, target, src, cnt) ==
  [k \in DOMAIN area |-> IF k \in target..(target + cnt - 1) THEN area[src + k - target] ELSE area[k]]
CopiedIn(area, target, byte, cnt) ==
  [k \in DOMAIN area |-> IF k \in target..(target + cnt - 1) THEN byte + k - target ELSE area[k]]
\* A count below zero is a very large one in the code.
Destroyed(area) == [k \in DOMAIN area |-> Junk]

\* "copy abs(src_offs) bytes behind the tree ... copy remaining cnt bytes": cnt bytes
\* that start offs bytes after the beginning of the input, before it if offs < 0.
Assembled(s, in, target, offs, cnt) ==
  The({IF cnt < back THEN Destroyed(s.area)
       ELSE CopiedIn(Moved(s.area, target, in.len - back, back), target + back,
                     s.total_in + (IF back > 0 THEN 0 ELSE offs), cnt - back) :
       back \in {IF cnt > 0 /\ offs < 0 THEN -offs ELSE 0}})

\* Bits up to the next multiple of 64.
Padding(bits) == (64 - (bits % 64)) % 64

\* "tree starts in scratch/data: avoid copying bytes that exist in scratch already"
InPlace(s, in, a) == IF a.hdr_start = 0 /\ in.hdr_bits = 0 THEN InScratchBytes(s) ELSE 0

HeaderBegins(s, in, a) == a.hdr_start - in.hdr_bits + s.scratch_ib

extract_new_tree(s, in, a) ==
  The({[s EXCEPT !.hdr_ib = offs % 8, !.tree_bits = a.out_hdr_bits,
                 !.pad_bits = Padding((offs % 8) + a.out_hdr_bits),
                 !.area = Assembled(s, in, skip, offs \div 8 - InScratchBytes(s) + skip,
                            NotNegative((a.out_hdr_bits + (offs % 8) + 7) \div 8 - skip))] :
       offs \in {HeaderBegins(s, in, a)}, skip \in {InPlace(s, in, a)}})

PartialByte(offs) == IF offs % 8 = 0 THEN 0 ELSE 1

\* Bytes that go to the scratch, when processing stopped at bit offs of scratch and input,
\* which is in byte src_offs of the input, and the input that is used up with them.  The
\* output is full: "copy only a partial byte"; otherwise "copy all remaining input bytes".
Kept(src_offs, offs) == IF src_offs >= 0 THEN PartialByte(offs) ELSE -src_offs
Used(src_offs, offs) == IF src_offs >= 0 THEN src_offs + PartialByte(offs) ELSE 0
Full(s, a) == s.avail_out <= a.outp_returned

ScratchAfter(s, in, offs, src_offs, used, cnt) ==
  [s EXCEPT !.inp_data_offs = used,
            !.scratch_bits = cnt * 8 - (offs % 8), !.scratch_ib = offs % 8,
            !.area = Assembled(s, in, ((s.tree_bits + s.hdr_ib + 63) \div 64) * 8, src_offs, cnt)]

StopBit(s, in, a) == a.processed - in.hdr_bits + s.scratch_ib

scratch_update(s, in, a) ==
  The({IF Full(s, a)
       THEN ScratchAfter(s, in, offs, src, Used(src, offs), Kept(src, offs))
       ELSE ScratchAfter(s, in, offs, src, s.avail_in, Kept(src, offs) + s.avail_in - Used(src, offs)) :
       offs \in {StopBit(s, in, a)}, src \in {StopBit(s, in, a) \div 8 - InScratchBytes(s)}})

\* inp_proc_update; what wraps around is more than any input.
in_data_used(in, a) ==
  IF a.processed + 7 < in.pre THEN 2^20 ELSE (a.processed - in.pre + 7) \div 8

\* Mutated form: a tree is kept beyond its block.
EobIgnored(s, a) == s
\* "all tree parameters are obsolete, a new tree is expected"
EobPassed(s, a) == IF a.passed_eob THEN [s EXCEPT !.tree_bits = 0, !.pad_bits = 0, !.hdr_ib = 0] ELSE s

NewHeader(in, a) ==
  /\ a.out_hdr_bits > 0 /\ ~(a.passed_eob /\ a.reached_eob)
  /\ a.hdr_start > 0 \/ in.hdr_bits = 0

setup_tree(s, in, a) ==
  IF a.final_eob
  THEN [EobPassed(s, a) EXCEPT !.inp_data_offs = in_data_used(in, a), !.scratch_bits = 0]
  ELSE The({scratch_update(u, in, a) : u \in
             {IF NewHeader(in, a) THEN extract_new_tree(t, in, a) ELSE t : t \in {EobPassed(s, a)}}})

TreeOverrun(s, in, a) == a.processed = 0 /\ s.avail_in > TreeLen - in.len

\* "if no input data processed copy input-data to tree area"
Collected(s, in) ==
  [s EXCEPT !.area = CopiedIn(@, in.len, s.total_in, s.avail_in),
            !.inp_data_offs = s.avail_in, !.scratch_bits = @ + 8 * s.avail_in]

\* The header that stands for the rest of a stored block.
StoredHeader(len) == -10 - len
\* "If we cut within a copyblock a new header must be provided"
CopyblockHeader(s, a) ==
  IF a.copyblock_len = 0 \/ a.out_hdr_bits = 0 THEN s
  ELSE [s EXCEPT !.area = [k \in DOMAIN s.area |-> CASE k = 0 -> StoredHeader(a.copyblock_len)
                                                     [] k \in 1..6 -> Junk
                                                     [] OTHER -> s.area[k]],
                 !.hdr_ib = 0, !.tree_bits = 40, !.pad_bits = 24]

post_scratch_upd(s, in, a) ==
  The({CopyblockHeader(t, a) :
       t \in {IF a.processed = 0 THEN Collected(s, in) ELSE setup_tree(s, in, a)}})

\* get_inflate_asv, with the page written by the accelerator.
get_inflate_asv(s, flush, a) ==
  LET total == file.outAt[a.to] IN
  [s EXCEPT !.wsp_page = PageToggled(s),
            !.dict[1 - s.wsp_page] =
               IF ~Saves(s, flush, a) THEN @ ELSE IF total = 0 THEN s.dict[s.wsp_page] ELSE total,
            !.dict_len = IF ~Saves(s, flush, a) THEN 0 ELSE IF s.havedict THEN total + 1 ELSE total,
            !.obytes_in_dict = a.obytes_in_dict, !.proc_bits = a.processed % 8,
            !.eob_seen = a.final_eob, !.tok = a.to]

\* The input and output that a request used.
Advanced(s, a) ==
  [s EXCEPT !.avail_out = @ - a.outp_returned, !.total_out = @ + a.outp_returned,
            !.avail_in = @ - s.inp_data_offs, !.total_in = @ + s.inp_data_offs]

-----------------------------------------------------------------------------
(* Operations                                                              *)

\* Mutated form: bits of the stream before stay in the scratch.
ScratchBitsAfterReset(s) == s.scratch_bits
\* "HW.... was missing"
ScratchBitsCleared(s) == 0

\* __inflateInit_state.  avail_in, gzip_head and what is in the buffers are not touched,
\* nor the bit of data_type that asks the caller to stop.
__inflateInit_state(s) ==
  [s EXCEPT !.total_in = 0, !.total_out = 0, !.wsp_page = 0, !.dict_len = 0,
            !.obytes_in_dict = 0, !.eob_seen = FALSE, !.havedict = FALSE, !.hdr_ib = 0,
            !.scratch_ib = 0, !.scratch_bits = ScratchBitsCleared(s), !.tree_bits = 0,
            !.proc_bits = 0, !.pad_bits = 0, !.inp_data_offs = 0, !.prefx_len = FALSE, !.prefx_idx = 0,
            !.xlen = 0, !.header_state = "START", !.postfx_idx = 0, !.tok = 1]

AreaLen == TreeLen + 8

\* The stream after zedc_inflateInit2.
EmptyStream ==
  [avail_in |-> 0, avail_out |-> 0, total_in |-> 0, total_out |-> 0,
    header_state |-> "START", prefx_len |-> FALSE, prefx_idx |-> 0, xlen |-> 0,
    gzip_head |-> NoBuffers, gzip_header_idx |-> 0, block_req |-> FALSE,
    saved |-> [extra |-> 0, name |-> 0, comment |-> 0], postfx_idx |-> 0,
    area |-> [k \in 0..(AreaLen - 1) |-> Junk], tree_bits |-> 0, pad_bits |-> 0,
    hdr_ib |-> 0, proc_bits |-> 0, scratch_ib |-> 0, scratch_bits |-> 0, inp_data_offs |-> 0,
    wsp_page |-> 0, dict_len |-> 0, dict |-> [p \in {0, 1} |-> Nothing],
    obytes_in_dict |-> 0, eob_seen |-> FALSE, havedict |-> FALSE,
    tok |-> 1]   \* history: the token the next DDCB starts with

Init ==
  /\ file \in Files
  /\ strm = EmptyStream
  /\ pc = "open" /\ rc = "OK"

\* Bytes behind what the next request uses are never looked at again.
Trimmed(s) == [k \in DOMAIN s.area |-> IF k < Request(s).len THEN s.area[k] ELSE Junk]

\* The caller gets code, and its buffer back.
Return(s, code, next) ==
  /\ strm' = [s EXCEPT !.avail_out = 0, !.inp_data_offs = 0, !.area = Trimmed(s)]
  /\ rc' = code /\ pc' = next

\* The end of a call after the final block.
Trailer(s) ==
  \E t \in {inflate_format_rem_trailer(s)} :
     CASE t[2] = "ERROR" -> Return(t[1], "DATA_ERROR", "failed")
       [] t[2] = "MORE"  -> Return(t[1], "OK", "open")
       [] t[2] = "OK"    -> IF Ends(t[1]) THEN Return(t[1], "STREAM_END", "ended")
                            ELSE Return(t[1], "OK", "open")

\* The result of a good request.
Processed(s, flush, in, a) ==
  IF TreeOverrun(s, in, a) THEN Return(s, "STREAM_ERROR", "failed")
  ELSE \E t \in {post_scratch_upd(q, in, a) : q \in {get_inflate_asv(s, flush, a)}} :
         IF t.inp_data_offs > t.avail_in THEN Return(t, "STREAM_ERROR", "failed")
         ELSE \E u \in {Advanced(t, a)} :
                IF u.eob_seen THEN Trailer(u) ELSE Return(u, "OK", "open")

Execute(s, flush) ==
  \E in \in {Request(s)} :
     \/ \E j \in Stops(s) :
          IF NeedsDict(s, j)
          THEN Return([s EXCEPT !.wsp_page = PageToggled(s)], "NEED_DICT", "fault")
          ELSE \E a \in {Report(s, in, j)} : Processed(s, flush, in, a)
     \/ MayFail /\ Return([s EXCEPT !.wsp_page = PageToggled(s)], "EXECUTE_ERROR", "failed")

\* The call from the header on.
Header(s, flush) ==
  \E h \in {IF file.format = "DEFL" \/ s.header_state = "DONE" THEN <<s, "OK">>
            ELSE inflate_format_rem_header(s, flush)} :
    \E t \in {h[1]} :
      CASE h[2] # "OK" -> Return(t, h[2], IF h[2] = "NEED_DICT" THEN "open" ELSE "failed")
        [] h[2] = "OK" /\ t.block_req -> Return(t, "OK", "open")
        [] h[2] = "OK" /\ ~t.block_req /\ t.avail_in = 0 /\ t.scratch_bits = 0 -> Return(t, "OK", "open")
        [] OTHER -> Execute(t, flush)

\* zedc_inflate with in more bytes of input and room for out bytes.
Inflate(flush, in, out) ==
  /\ pc = "open"
  /\ strm.total_in + strm.avail_in + in <= FileLen(file)
  /\ \E s \in {[strm EXCEPT !.avail_in = @ + in, !.avail_out = out]} :
       IF Overrun(s) THEN Return(s, "STREAM_ERROR", "failed")
       ELSE \E t \in {inflate_flush_output_buffer(s)} :
              CASE t.eob_seen -> Trailer(t)
                [] ~t.eob_seen /\ t.avail_out = 0 -> Return(t, "OK", "open")
                [] OTHER -> Header(t, flush)

\* zedc_inflateSetDictionary with the right dictionary (another one is refused if the
\* format is ZLIB).  It always goes to page 0.
SetDictionary ==
  /\ file.dict /\ ~strm.havedict /\ strm.tok = 1
  /\ \/ pc = "fault" /\ LateDict
     \/ pc = "open" /\ file.format = "ZLIB" /\ rc = "NEED_DICT"
     \/ pc = "open" /\ file.format = "DEFL" /\ (LateDict \/ strm.total_in = 0)
  /\ strm' = [strm EXCEPT !.dict[0] = User, !.dict_len = 1, !.havedict = TRUE]
  /\ pc' = "open" /\ rc' = "OK"
  /\ UNCHANGED file

\* zedc_inflateGetHeader, before the first call as zlib asks for
GetHeader(head) ==
  /\ file.format = "GZIP" /\ pc = "open" /\ strm.total_in = 0 /\ strm.avail_in = 0
  /\ strm' = [strm EXCEPT !.gzip_head = head]
  /\ UNCHANGED <<file, pc, rc>>

\* zedc_inflateReset: the application starts again with the file.
Reset ==
  /\ strm' = [__inflateInit_state(strm) EXCEPT !.avail_in = 0,
                !.saved = [extra |-> 0, name |-> 0, comment |-> 0]]
  /\ pc' = "open" /\ rc' = "OK"
  /\ UNCHANGED file

Call(flush, in, out) == Inflate(flush, in, out) /\ UNCHANGED file

Next ==
  \/ \E flush \in Flushes, in \in Chunks, out \in OutSizes : Call(flush, in, out)
  \/ SetDictionary
  \/ \E head \in HeaderBuffers : GetHeader(head)
  \/ Reset

\* What an application that wants the file does: it calls with input as long as it has
\* some, with room for output, and gives the dictionary it is asked for.
Feeds ==
  \E flush \in Flushes, in \in Chunks, out \in OutSizes \ {0} :
     /\ in > 0 \/ strm.total_in + strm.avail_in = FileLen(file)
     /\ rc = "NEED_DICT" => strm.havedict
     /\ Call(flush, in, out)

Spec == Init /\ [][Next]_vars /\ WF_vars(Feeds) /\ WF_vars(SetDictionary)

-----------------------------------------------------------------------------
(* Properties                                                              *)

\* The stream has its type; what is kept between two calls fits into the buffer.
TypeOK ==
  /\ file \in Files
  /\ {strm.avail_in, strm.total_in} \subseteq 0..FileLen(file) /\ strm.avail_out = 0
  /\ strm.total_out \in 0..OutLen(file)
  /\ strm.header_state \in {"START", "ZLIB_ADLER", "EXTRA_LEN1", "EXTRA_LEN2", "EXTRA", "FNAME",
                            "FCOMMENT", "FHCRC1", "FHCRC2", "DONE"}
  /\ strm.gzip_head \in HeaderBuffers \cup {NoBuffers}
  /\ strm.xlen \in 0..(2^XlenBits - 1) /\ strm.gzip_header_idx \in Nat
  /\ strm.postfx_idx \in 0..TrailerLen(file)
  /\ strm.area \in [0..(AreaLen - 1) -> Int]
  /\ {strm.hdr_ib, strm.scratch_ib, strm.proc_bits} \subseteq 0..7 /\ strm.pad_bits \in 0..63
  /\ strm.tree_bits \in Nat /\ strm.scratch_bits \in Nat
  /\ Request(strm).len <= TreeLen
  /\ strm.wsp_page \in {0, 1} /\ strm.dict \in [{0, 1} -> Int] /\ strm.dict_len \in Nat
  /\ strm.tok \in 1..(NTok(file) + 1)
  /\ {strm.prefx_len, strm.block_req, strm.eob_seen, strm.havedict} \subseteq BOOLEAN
  /\ pc \in {"open", "fault", "failed", "ended"}
  /\ rc \in {"OK", "NEED_DICT", "ERR_GZIP_HDR", "STREAM_END", "STREAM_ERROR", "DATA_ERROR",
             "EXECUTE_ERROR"}

\* The body is being decompressed, and another DDCB may be sent.
InBody == pc = "open" /\ ~strm.eob_seen
            /\ (file.format = "DEFL" \/ strm.header_state = "DONE")

ScratchBase == (strm.hdr_ib + strm.tree_bits + strm.pad_bits) \div 8
ScratchBytes == (strm.scratch_ib + strm.scratch_bits) \div 8

\* What the next request gives to the accelerator, scratch and then input, is the file from
\* the first bit that was not decoded: nothing is lost, repeated or shifted, whatever the
\* pieces were, and the scratch begins where the accelerator looks for it.
ScratchHoldsRest ==
  InBody =>
    LET first == Bit(file, strm.tok) \div 8 IN
    /\ (strm.hdr_ib + strm.tree_bits + strm.pad_bits) % 64 = 0
    /\ (strm.scratch_ib + strm.scratch_bits) % 8 = 0
    /\ strm.scratch_ib = Bit(file, strm.tok) % 8
    /\ \A k \in 0..(ScratchBytes - 1) : strm.area[ScratchBase + k] = first + k
    /\ strm.total_in = first + ScratchBytes

\* In the middle of a block the request has its tree, bit for bit, or for a stored block a
\* header with the number of bytes that are left; elsewhere it has none.
TreeKept ==
  InBody =>
    LET hb == file.hdrOf[strm.tok] IN
    CASE hb = 0 -> strm.tree_bits = 0
      [] hb # 0 /\ file.body[hb].stored ->
           /\ strm.tree_bits = 40 /\ strm.hdr_ib = 0
           /\ strm.area[0] = StoredHeader(Cardinality({m \in strm.tok..NTok(file) :
                                file.hdrOf[m] = hb /\ file.body[m].k = "raw"}))
      [] OTHER ->
           /\ strm.tree_bits = file.body[hb].bits /\ strm.hdr_ib = Bit(file, hb) % 8
           /\ \A k \in 0..((strm.hdr_ib + strm.tree_bits + 7) \div 8 - 1) :
                strm.area[k] = Bit(file, hb) \div 8 + k

\* The header parser takes the bytes of the header and not one more, in pieces of any size
\* and with any of the optional fields.
HeaderConsumed ==
  pc = "open" /\ file.format # "DEFL" =>
    IF strm.header_state = "DONE" THEN strm.total_in >= HeaderLen(file)
    ELSE strm.total_in < HeaderLen(file) /\ strm.scratch_bits = 0

\* The fields of the header end up complete in the buffers of zedc_inflateGetHeader, and
\* the header is refused only if one of them is too small.
HeaderSaved ==
  LET has == [extra |-> NotNegative(file.extra), name |-> file.name + 1, comment |-> file.comment + 1] IN
  strm.gzip_head # NoBuffers =>
    /\ strm.header_state = "DONE" => strm.saved = has
    /\ rc = "ERR_GZIP_HDR" => \E field \in DOMAIN has : has[field] > strm.gzip_head[field]

\* What was decompressed is what the caller got and what waits in the dictionary, which is
\* that of the last DDCB.
OutputOnce ==
  pc \in {"open", "ended"} =>
    /\ strm.total_out + strm.obytes_in_dict = file.outAt[strm.tok]
    /\ strm.obytes_in_dict > 0 => /\ strm.dict[strm.wsp_page] = file.outAt[strm.tok]
                                  /\ strm.dict_len >= strm.obytes_in_dict

\* The dictionary the next DDCB reads is the window of the output so far, or the one the
\* application has set.
InDictIsWindow ==
  InBody /\ strm.dict_len # 0 =>
    strm.dict[strm.wsp_page] = IF file.outAt[strm.tok] = 0 THEN User ELSE file.outAt[strm.tok]

\* ZEDC_STREAM_END says that all the output was delivered and the file, with a trailer
\* that agrees, was read to its last byte and not further; no call finds its own
\* bookkeeping in error.
EndIsEnd ==
  /\ pc = "ended" => /\ strm.total_out = OutLen(file) /\ strm.total_in = FileLen(file)
                     /\ ~file.bad /\ strm.avail_in = 0
  /\ rc # "STREAM_ERROR"

\* An application that goes on calling with the input it has and some room for output gets
\* to the end of the file, or to an error, unless it starts again.
InflateEnds == []<>(pc # "open" \/ (strm.tok = 1 /\ strm.total_in + strm.avail_in = 0))

\* The next DDCB gets the input, the tree and the dictionary that continue the last one.
RequestHoldsRest == TypeOK /\ ScratchHoldsRest /\ TreeKept /\ InDictIsWindow

\* The header is consumed and saved, whatever pieces it comes in.
HeaderParsed == HeaderConsumed /\ HeaderSaved

\* The application gets all the output once, and then the end.
Delivered == OutputOnce /\ EndIsEnd
=============================================================================
