---------------------------- MODULE DeflateProofs ----------------------------
(***************************************************************************)
(* Theorems about DeflateStream for any amount of input, any buffers and   *)
(* any results of the accelerator: no byte is lost or overtaken, the       *)
(* dictionary is the right one, and the end of a stream is complete.       *)
(* Theorems about HwDeflate for buffers of any size: every byte of input   *)
(* is compressed once and every byte of output given out once, the output  *)
(* buffer is large enough, and a flush takes everything with it.           *)
(***************************************************************************)
EXTENDS HwDeflate, SequenceTheorems, TLAPS

\* The headers the application gives leave the FIFO its free byte.  The code's limit of 240
\* bytes admits one that is a byte too long, when all the fields are there.
HeadersFit == \A h \in Headers \cup {NoHead} : HeaderFits(h) => 10 + HeaderFields(h) < FifoSize

-----------------------------------------------------------------------------
(* The inductive invariant, of a stream v in the state p of its application *)

Fields ==
  {"format", "gzip_head", "avail_in", "avail_out", "total_in", "out_fifo", "onumbits", "obyte",
   "header_added", "eob_added", "trailer_added", "havedict", "wsp_page", "dict_len", "dict",
   "owed", "window", "trailer_len"}

Stream(v) ==
  /\ DOMAIN v = Fields
  /\ v.format \in Formats /\ v.gzip_head \in Headers \cup {NoHead}
  /\ v.avail_in \in 0..MaxIn /\ v.avail_out \in Nat /\ v.total_in \in 0..MaxIn
  /\ v.out_fifo \in Seq(Int) /\ v.onumbits \in 0..7 /\ v.obyte \in 0..255
  /\ v.header_added \in BOOLEAN /\ v.eob_added \in BOOLEAN
  /\ v.trailer_added \in BOOLEAN /\ v.havedict \in BOOLEAN
  /\ v.wsp_page \in {0, 1} /\ v.dict_len \in {0, 1} /\ v.dict \in [{0, 1} -> Int]
  /\ v.owed \in Nat /\ v.window \in Int /\ v.trailer_len \in 0..MaxIn

Typed(v) == /\ Stream(v) /\ v.total_in + v.avail_in <= MaxIn
            /\ Len(v.out_fifo) < FifoSize /\ Len(v.out_fifo) <= v.owed

\* The FIFO holds all that is owed, in order.
Numbers(n) == [i \in 1..n |-> i]
Ordered(v) == v.out_fifo = Numbers(v.owed)

\* The header has been emitted, if there is one.
Begun(v) == v.format # "DEFL" => v.header_added

\* The header goes into an empty FIFO.
FifoSound(v) == Ordered(v) /\ (~Begun(v) => v.owed = 0)

\* The page in use is the first one until data was compressed.
DictSound(v, p) ==
  /\ v.total_in = 0 => v.wsp_page = 0
  /\ (p = "open" \/ (p = "finishing" /\ v.avail_in # 0)) /\ v.dict_len # 0
       => v.dict[v.wsp_page] = v.window

\* The two marks of the end are set together, when the application has asked for it.
EndSound(v, p) ==
  /\ p # "open" => Begun(v)
  /\ v.eob_added <=> v.trailer_added
  /\ v.trailer_added => v.avail_in = 0 /\ v.trailer_len = v.total_in /\ p \in {"finishing", "ended"}
  /\ p = "ended" => v.trailer_added /\ v.out_fifo = <<>>

Sound(v, p) ==
  /\ Typed(v)
  /\ p # "failed" => EndSound(v, p) /\ (~LateDict => DictSound(v, p)) /\ (HeadersFit => FifoSound(v))

Phases == {"open", "finishing", "failed", "ended"}

IInv == Sound(strm, pc) /\ pc \in Phases /\ rc \in {"OK", "STREAM_END", "STREAM_ERROR"}

-----------------------------------------------------------------------------
(* The FIFO                                                                 *)

LEMMA SmallerIsMin ==
  ASSUME NEW a \in Nat, NEW b \in Nat
  PROVE  /\ Smaller(a, b) \in Nat /\ Smaller(a, b) <= a /\ Smaller(a, b) <= b
         /\ Smaller(a, b) \in {a, b}
BY DEF Smaller

LEMMA TheOnly == ASSUME NEW x PROVE The({x}) = x
BY DEF The

\* What is left of a FIFO after its first n bytes.
LEMMA FifoTail ==
  ASSUME NEW f \in Seq(Int), NEW n \in 0..Len(f)
  PROVE  LET g == Renumbered(SubSeq(f, n + 1, Len(f)), n) IN
         /\ g \in Seq(Int) /\ Len(g) = Len(f) - n
         /\ \A k \in Nat : f = Numbers(k) => g = Numbers(k - n)
<1> DEFINE h == SubSeq(f, n + 1, Len(f))
           g == Renumbered(h, n)
<1>0. PICK m \in Nat : m = Len(f) - n
  OBVIOUS
<1>1. h \in Seq(Int) /\ Len(h) = m /\ \A i \in 1..m : h[i] = f[n + i]
  BY <1>0, SubSeqProperties
<1>2. g = [i \in 1..m |-> f[n + i] - n]
  BY <1>1 DEF Renumbered
<1>3. g \in Seq(Int) /\ Len(g) = m
  <2>1. \A i \in 1..m : f[n + i] - n \in Int
    BY <1>0, ElementOfSeq
  <2>2. g \in [1..m -> Int]
    BY <1>2, <2>1
  <2>3. QED BY <2>2
<1>4. ASSUME NEW k \in Nat, f = Numbers(k) PROVE g = Numbers(k - n)
  <2>1. Len(f) = k
    BY <1>4 DEF Numbers
  <2>2. \A i \in 1..m : f[n + i] - n = i
    BY <1>0, <1>4, <2>1 DEF Numbers
  <2>3. QED BY <1>0, <1>2, <2>1, <2>2 DEF Numbers
<1>5. QED BY <1>0, <1>3, <1>4

\* m more bytes behind those of a FIFO.
LEMMA FifoMore ==
  ASSUME NEW f \in Seq(Int), NEW k \in Nat, NEW m \in Nat
  PROVE  LET g == f \o [i \in 1..m |-> k + i] IN
         /\ g \in Seq(Int) /\ Len(g) = Len(f) + m
         /\ f = Numbers(k) => g = Numbers(k + m)
<1> DEFINE e == [i \in 1..m |-> k + i]
           g == f \o e
<1>1. e \in Seq(Int) /\ Len(e) = m /\ \A i \in 1..m : e[i] = k + i
  OBVIOUS
<1> HIDE DEF e
<1>2. g \in Seq(Int) /\ Len(g) = Len(f) + m
  BY <1>1
<1>3. ASSUME f = Numbers(k) PROVE g = Numbers(k + m)
  <2>1. Len(f) = k /\ \A i \in 1..k : f[i] = i
    BY <1>3 DEF Numbers
  <2>2. ASSUME NEW i \in 1..k+m PROVE g[i] = i
    <3>1. CASE i <= k
      BY <1>1, <2>1, <3>1
    <3>2. CASE i > k
      <4>1. g[i] = e[i - k] /\ i - k \in 1..m
        BY <1>1, <2>1, <3>2
      <4>2. e[i - k] = k + (i - k)
        BY <1>1, <4>1
      <4>3. QED BY <4>1, <4>2
    <3> HIDE DEF g
    <3>3. QED BY <3>1, <3>2
  <2> HIDE DEF g
  <2>3. g = [i \in 1..k+m |-> g[i]]
    BY <1>1, <1>2, <2>1
  <2>4. QED BY <2>2, <2>3 DEF Numbers
<1>4. QED BY <1>2, <1>3 DEF e

LEMMA OrderedLength ==
  ASSUME NEW v, Typed(v), Ordered(v)
  PROVE  Len(v.out_fifo) = v.owed
BY DEF Typed, Stream, Ordered, Numbers

LEMMA EmptyOrdered ==
  ASSUME NEW v, Typed(v)
  PROVE  /\ v.out_fifo = <<>> <=> Len(v.out_fifo) = 0
         /\ v.owed = 0 => v.out_fifo = <<>> /\ Ordered(v)
BY EmptySeq DEF Typed, Stream, Ordered, Numbers

-----------------------------------------------------------------------------
(* What the steps of a call do to a stream                                  *)

\* The input, the output buffer and the dictionaries.
DataKept(v, t) ==
  /\ t.format = v.format /\ t.gzip_head = v.gzip_head /\ t.avail_in = v.avail_in
  /\ t.total_in = v.total_in /\ t.wsp_page = v.wsp_page /\ t.dict = v.dict /\ t.window = v.window
\* What was emitted.
MarksKept(v, t) ==
  /\ t.header_added = v.header_added /\ t.eob_added = v.eob_added
  /\ t.trailer_added = v.trailer_added /\ t.trailer_len = v.trailer_len

\* n bytes more, in order if they fit.
Emitted(v, t, n) ==
  /\ t.owed = v.owed + n
  /\ Ordered(v) /\ v.owed + n < FifoSize => Ordered(t)
\* The bits of the byte that is not complete, and the dictionary in use.
BitsKept(v, t) == t.onumbits = v.onumbits /\ t.obyte = v.obyte
OthersKept(v, t) ==
  t.avail_out = v.avail_out /\ t.dict_len = v.dict_len /\ t.havedict = v.havedict

LEMMA Pushed ==
  ASSUME NEW v, Typed(v), NEW n \in Nat
  PROVE  LET t == Push(v, n) IN
         /\ Typed(t) /\ Emitted(v, t, n)
         /\ DataKept(v, t) /\ MarksKept(v, t) /\ BitsKept(v, t) /\ OthersKept(v, t)
<1> DEFINE m == Smaller(n, fifo_free(v))
           f == v.out_fifo \o [i \in 1..m |-> v.owed + i]
           t == Push(v, n)
<1>1. /\ Stream(v) /\ v.out_fifo \in Seq(Int) /\ v.owed \in Nat
      /\ Len(v.out_fifo) < FifoSize /\ Len(v.out_fifo) <= v.owed
      /\ Len(v.out_fifo) \in Nat /\ FifoSize \in Nat
  BY FifoAssumption DEF Typed, Stream
<1>2. fifo_free(v) \in Nat /\ fifo_free(v) = FifoSize - Len(v.out_fifo) - 1
  BY <1>1 DEF fifo_free
<1>3. m \in Nat /\ m <= n /\ m <= fifo_free(v) /\ (n <= fifo_free(v) => m = n)
  BY <1>2 DEF Smaller
<1> HIDE DEF m
<1>4. f \in Seq(Int) /\ Len(f) = Len(v.out_fifo) + m
  BY <1>1, <1>3, FifoMore
<1>5. v.out_fifo = Numbers(v.owed) => f = Numbers(v.owed + m)
  BY <1>1, <1>3, FifoMore
<1>6. PICK o \in Nat : o = v.owed + n
  BY <1>1
<1>7. t = [v EXCEPT !.out_fifo = f, !.owed = o]
  BY <1>6 DEF Push, m
<1> HIDE DEF f, t
<1>8. Stream(t) /\ t.out_fifo = f /\ t.owed = o
  BY <1>1, <1>4, <1>7 DEF Stream, Fields
<1>9. DataKept(v, t) /\ MarksKept(v, t)
  BY <1>1, <1>7 DEF Stream, Fields, DataKept, MarksKept
<1>10. BitsKept(v, t) /\ OthersKept(v, t)
  BY <1>1, <1>7 DEF Stream, Fields, BitsKept, OthersKept
<1>11. Typed(t)
  <2>1. t.total_in + t.avail_in <= MaxIn
    BY <1>9 DEF Typed, DataKept
  <2>2. Len(f) < FifoSize /\ Len(f) <= o
    <3>1. PICK k \in Nat : k = Len(v.out_fifo)
      BY <1>1
    <3>2. Len(f) = k + m
      BY <1>4, <3>1
    <3>3. m <= FifoSize - k - 1
      BY <1>2, <1>3, <3>1
    <3>4. k + m <= o
      BY <1>1, <1>3, <1>6, <3>1
    <3>5. QED BY <1>1, <1>3, <3>2, <3>3, <3>4
  <2>3. QED BY <1>8, <2>1, <2>2 DEF Typed
<1>12. Emitted(v, t, n)
  <2>1. ASSUME Ordered(v), v.owed + n < FifoSize PROVE Ordered(t)
    <3>1. Len(v.out_fifo) = v.owed
      BY <2>1, OrderedLength
    <3>2. m = n
      BY <1>1, <1>2, <1>3, <2>1, <3>1
    <3>3. QED BY <1>5, <1>6, <1>8, <2>1, <3>2 DEF Ordered
  <2>2. QED BY <1>6, <1>8, <2>1 DEF Emitted
<1>13. QED BY <1>9, <1>10, <1>11, <1>12 DEF t

LEMMA Pushed32 ==
  ASSUME NEW v, Typed(v)
  PROVE  LET t == Push32(v) IN
         /\ Typed(t) /\ Emitted(v, t, 4)
         /\ DataKept(v, t) /\ MarksKept(v, t) /\ BitsKept(v, t) /\ OthersKept(v, t)
<1> DEFINE t == Push32(v)
<1>1. CASE fifo_free(v) < 4
  <2>1. Stream(v) /\ v.owed \in Nat /\ FifoSize \in Nat
    BY FifoAssumption DEF Typed, Stream
  <2>2. PICK o \in Nat : o = v.owed + 4
    BY <2>1
  <2>3. t = [v EXCEPT !.owed = o]
    BY <1>1, <2>2 DEF Push32
  <2> HIDE DEF t
  <2>4. Stream(t) /\ t.owed = o /\ t.out_fifo = v.out_fifo
    BY <2>1, <2>3 DEF Stream, Fields
  <2>5. DataKept(v, t) /\ MarksKept(v, t) /\ BitsKept(v, t) /\ OthersKept(v, t)
    BY <2>1, <2>3 DEF Stream, Fields, DataKept, MarksKept, BitsKept, OthersKept
  <2>6. Typed(t)
    BY <2>1, <2>2, <2>4, <2>5 DEF Typed, DataKept, Stream
  <2>7. ~(Ordered(v) /\ v.owed + 4 < FifoSize)
    BY <1>1, <2>1, OrderedLength DEF fifo_free
  <2>8. QED BY <2>2, <2>4, <2>5, <2>6, <2>7 DEF t, Emitted
<1>2. CASE ~(fifo_free(v) < 4)
  BY <1>2, Pushed DEF Push32
<1>3. QED BY <1>1, <1>2

\* At most a FIFO goes into the application's buffer, and all of it if there is room.
Drains(v, t) == /\ t.avail_out <= v.avail_out /\ v.avail_out < t.avail_out + FifoSize
                /\ t.avail_out # 0 => t.out_fifo = <<>>

\* The application gets what fits its buffer.
LEMMA WrittenOut ==
  ASSUME NEW v, Typed(v)
  PROVE  LET t == deflate_write_out_fifo(v) IN
         /\ Typed(t) /\ t.owed <= v.owed
         /\ Ordered(v) => Ordered(t)
         /\ Drains(v, t)
         /\ v.out_fifo = <<>> => t.out_fifo = <<>>
         /\ v.out_fifo # <<>> /\ v.avail_out # 0 => t.owed < v.owed
         /\ DataKept(v, t) /\ MarksKept(v, t) /\ BitsKept(v, t)
         /\ t.dict_len = v.dict_len /\ t.havedict = v.havedict
<1> DEFINE n == Smaller(v.avail_out, Len(v.out_fifo))
           f == Renumbered(SubSeq(v.out_fifo, n + 1, Len(v.out_fifo)), n)
           t == deflate_write_out_fifo(v)
<1>1. /\ Stream(v) /\ v.out_fifo \in Seq(Int) /\ v.owed \in Nat /\ v.avail_out \in Nat
      /\ Len(v.out_fifo) < FifoSize /\ Len(v.out_fifo) <= v.owed /\ FifoSize \in Nat
  BY FifoAssumption DEF Typed, Stream
<1>2. PICK k \in Nat : k = Len(v.out_fifo)
  BY <1>1
<1>3. n \in 0..k /\ n <= v.avail_out /\ n \in {v.avail_out, k}
  BY <1>1, <1>2 DEF Smaller
<1> HIDE DEF n
<1>4. f \in Seq(Int) /\ Len(f) = k - n
  BY <1>1, <1>2, <1>3, FifoTail
<1>5. v.out_fifo = Numbers(v.owed) => f = Numbers(v.owed - n)
  BY <1>1, <1>2, <1>3, FifoTail
<1>6. PICK o \in Nat : o = v.owed - n
  BY <1>1, <1>2, <1>3
<1>7. PICK a \in Nat : a = v.avail_out - n
  BY <1>1, <1>3
<1>8. t = [v EXCEPT !.out_fifo = f, !.owed = o, !.avail_out = a]
  BY <1>6, <1>7 DEF deflate_write_out_fifo, n
<1> HIDE DEF f, t
<1>9. Stream(t) /\ t.out_fifo = f /\ t.owed = o /\ t.avail_out = a
  BY <1>1, <1>4, <1>8 DEF Stream, Fields
<1>10. /\ DataKept(v, t) /\ MarksKept(v, t) /\ BitsKept(v, t)
       /\ t.dict_len = v.dict_len /\ t.havedict = v.havedict
  BY <1>1, <1>8 DEF Stream, Fields, DataKept, MarksKept, BitsKept
<1>11. Typed(t)
  <2>1. t.total_in + t.avail_in <= MaxIn
    BY <1>10 DEF Typed, DataKept
  <2>2. Len(f) < FifoSize /\ Len(f) <= o
    BY <1>1, <1>2, <1>3, <1>4, <1>6
  <2>3. QED BY <1>9, <2>1, <2>2 DEF Typed
<1>12. Ordered(v) => Ordered(t)
  BY <1>5, <1>6, <1>9 DEF Ordered
<1>13. a # 0 => f = <<>>
  <2>1. ASSUME a # 0 PROVE Len(f) = 0
    BY <1>1, <1>2, <1>3, <1>4, <1>7, <2>1
  <2>2. QED BY <1>4, <2>1, EmptySeq
<1>14. v.out_fifo = <<>> => f = <<>>
  <2>1. ASSUME v.out_fifo = <<>> PROVE Len(f) = 0
    BY <1>2, <1>3, <1>4, <2>1
  <2>2. QED BY <1>4, <2>1, EmptySeq
<1>15. v.out_fifo # <<>> /\ v.avail_out # 0 => o < v.owed
  <2>1. ASSUME v.out_fifo # <<>>, v.avail_out # 0 PROVE n > 0
    BY <1>1, <1>2, <1>3, <2>1, EmptySeq
  <2>2. QED BY <1>1, <1>3, <1>6, <2>1
<1>16. o <= v.owed
  BY <1>1, <1>3, <1>6
<1>17. a <= v.avail_out /\ v.avail_out < a + FifoSize
  <2>1. n <= k /\ k < FifoSize
    BY <1>1, <1>2, <1>3
  <2>2. QED BY <1>1, <1>3, <1>7, <2>1
<1>18. Drains(v, t)
  BY <1>9, <1>13, <1>17 DEF Drains
<1>19. QED BY <1>9, <1>10, <1>11, <1>12, <1>14, <1>15, <1>16, <1>18 DEF t

-----------------------------------------------------------------------------
(* Header, end of the stream and flush markers                              *)

\* The fields a header has no part in.
HeaderKeeps(v, t) ==
  /\ DataKept(v, t) /\ BitsKept(v, t) /\ t.avail_out = v.avail_out /\ t.dict_len = v.dict_len
  /\ t.eob_added = v.eob_added /\ t.trailer_added = v.trailer_added
  /\ t.trailer_len = v.trailer_len

LEMMA HeaderMarked ==
  ASSUME NEW v, Typed(v)
  PROVE  LET t == [v EXCEPT !.header_added = TRUE] IN
         /\ Typed(t) /\ t.header_added /\ HeaderKeeps(v, t)
         /\ t.owed = v.owed /\ t.out_fifo = v.out_fifo
BY DEF Typed, Stream, Fields, HeaderKeeps, DataKept, BitsKept

LEMMA FieldsNat ==
  ASSUME NEW h \in Headers \cup {NoHead}
  PROVE  HeaderFields(h) \in Nat
<1>1. h.name \in Nat /\ h.comment \in Nat /\ h.extra \in Nat
  BY HeadersAssumption DEF NoHead
<1>2. ZString(h.name) \in Nat /\ ZString(h.comment) \in Nat
  BY <1>1 DEF ZString
<1>3. QED BY <1>1, <1>2 DEF HeaderFields

LEMMA HeaderEmitted ==
  ASSUME NEW v, Typed(v), ~v.header_added
  PROVE  LET t == deflate_add_header(v) IN
         /\ Typed(t) /\ HeaderKeeps(v, t)
         /\ HeadersFit /\ v.owed = 0 /\ ~HeaderFailed(v) => Ordered(t)
         /\ v.format = "DEFL" => t = v
         /\ v.format # "DEFL" /\ ~HeaderFailed(v) => t.header_added
<1>1. /\ Stream(v) /\ v.format \in {"DEFL", "GZIP", "ZLIB"} /\ v.owed \in Nat
      /\ v.gzip_head \in Headers \cup {NoHead}
  BY FormatAssumption DEF Typed, Stream
<1>2. CASE v.format = "DEFL"
  <2>1. deflate_add_header(v) = v
    BY <1>2 DEF deflate_add_header
  <2>2. HeaderKeeps(v, v)
    BY DEF HeaderKeeps, DataKept, BitsKept
  <2>3. QED BY <1>2, <2>1, <2>2, EmptyOrdered
<1>3. CASE v.format = "GZIP" /\ ~HeaderFits(v.gzip_head)
  <2>1. deflate_add_header(v) = Push(v, 3)
    BY <1>3 DEF deflate_add_header, GzipHeader
  <2>2. HeaderFailed(v)
    BY <1>3 DEF HeaderFailed
  <2>3. Typed(Push(v, 3)) /\ HeaderKeeps(v, Push(v, 3))
    BY Pushed DEF HeaderKeeps, MarksKept, OthersKept
  <2>4. QED BY <1>3, <2>1, <2>2, <2>3
<1>4. CASE v.format = "GZIP" /\ HeaderFits(v.gzip_head)
  <2>1. PICK n \in Nat : n = HeaderFields(v.gzip_head)
    BY <1>1, FieldsNat
  <2>2. PICK m \in Nat : m = 2 + n
    OBVIOUS
  <2>3. PICK a : a = Push(v, 4)
    OBVIOUS
  <2>4. PICK b : b = Push32(a)
    OBVIOUS
  <2>5. PICK c : c = Push(b, m)
    OBVIOUS
  <2>6. PICK t : t = [c EXCEPT !.header_added = TRUE]
    OBVIOUS
  <2>7. deflate_add_header(v) = t
    <3>1. GzipHeader(v) = The({[Push(mtime, 2 + n) EXCEPT !.header_added = TRUE] :
                               mtime \in {Push32(flags) : flags \in {Push(v, 4)}}})
      BY <1>4, <2>1 DEF GzipHeader
    <3>2. {Push32(flags) : flags \in {Push(v, 4)}} = {b}
      BY <2>3, <2>4
    <3>3. {[Push(mtime, 2 + n) EXCEPT !.header_added = TRUE] : mtime \in {b}} = {t}
      BY <2>2, <2>5, <2>6
    <3>4. The({t}) = t
      BY TheOnly
    <3>5. GzipHeader(v) = t
      BY <3>1, <3>2, <3>3, <3>4
    <3>6. QED BY <1>4, <3>5 DEF deflate_add_header
  <2>8. Typed(a) /\ Emitted(v, a, 4) /\ HeaderKeeps(v, a)
    BY <2>3, Pushed DEF HeaderKeeps, MarksKept, OthersKept
  <2>9. Typed(b) /\ Emitted(a, b, 4) /\ HeaderKeeps(a, b)
    BY <2>4, <2>8, Pushed32 DEF HeaderKeeps, MarksKept, OthersKept
  <2>10. Typed(c) /\ Emitted(b, c, m) /\ HeaderKeeps(b, c)
    BY <2>5, <2>9, Pushed DEF HeaderKeeps, MarksKept, OthersKept
  <2>11. /\ Typed(t) /\ HeaderKeeps(c, t) /\ t.header_added
         /\ t.owed = c.owed /\ t.out_fifo = c.out_fifo
    BY <2>6, <2>10, HeaderMarked
  <2>12. HeaderKeeps(v, t)
    BY <2>8, <2>9, <2>10, <2>11 DEF HeaderKeeps, DataKept, BitsKept
  <2>13. ASSUME HeadersFit, v.owed = 0 PROVE Ordered(t)
    <3>1. Ordered(v)
      BY <2>13, EmptyOrdered
    <3>2. 10 + n < FifoSize /\ FifoSize \in Nat
      BY <1>1, <1>4, <2>1, <2>13, FifoAssumption DEF HeadersFit
    <3>3. Ordered(a) /\ a.owed = 4
      BY <2>8, <2>13, <3>1, <3>2 DEF Emitted
    <3>4. Ordered(b) /\ b.owed = 8
      BY <2>9, <3>2, <3>3 DEF Emitted
    <3>5. Ordered(c)
      BY <2>2, <2>10, <3>2, <3>4 DEF Emitted
    <3>6. QED BY <2>11, <3>5 DEF Ordered
  <2>14. QED BY <1>4, <2>7, <2>11, <2>12, <2>13
<1>5. CASE v.format = "ZLIB"
  <2>1. PICK a : a = Push(v, 2)
    OBVIOUS
  <2>2. PICK c : c = IF v.havedict THEN Push32(a) ELSE a
    OBVIOUS
  <2>3. PICK t : t = [c EXCEPT !.header_added = TRUE]
    OBVIOUS
  <2>4. deflate_add_header(v) = t
    BY <1>5, <2>1, <2>2, <2>3 DEF deflate_add_header, ZlibHeader
  <2>5. Typed(a) /\ Emitted(v, a, 2) /\ HeaderKeeps(v, a)
    BY <2>1, Pushed DEF HeaderKeeps, MarksKept, OthersKept
  <2>6. /\ Typed(c) /\ HeaderKeeps(a, c)
        /\ Ordered(a) /\ a.owed + 4 < FifoSize => Ordered(c)
    <3>1. CASE v.havedict
      BY <2>2, <2>5, <3>1, Pushed32 DEF HeaderKeeps, MarksKept, OthersKept, Emitted
    <3>2. CASE ~v.havedict
      BY <2>2, <2>5, <3>2 DEF HeaderKeeps, DataKept, BitsKept
    <3>3. QED BY <3>1, <3>2
  <2>7. /\ Typed(t) /\ HeaderKeeps(c, t) /\ t.header_added
        /\ t.owed = c.owed /\ t.out_fifo = c.out_fifo
    BY <2>3, <2>6, HeaderMarked
  <2>8. HeaderKeeps(v, t)
    BY <2>5, <2>6, <2>7 DEF HeaderKeeps, DataKept, BitsKept
  <2>9. ASSUME v.owed = 0 PROVE Ordered(t)
    <3>1. FifoSize \in Nat /\ FifoSize > 11
      BY FifoAssumption, RoomAssumption, BoundsAssumption
    <3>2. Ordered(a) /\ a.owed = 2
      BY <2>5, <2>9, <3>1, EmptyOrdered DEF Emitted
    <3>3. Ordered(c)
      BY <2>6, <3>1, <3>2
    <3>4. QED BY <2>7, <3>3 DEF Ordered
  <2>10. QED BY <1>5, <2>4, <2>7, <2>8, <2>9
<1>6. QED BY <1>1, <1>2, <1>3, <1>4, <1>5

\* A trailer has at most 8 bytes, an end-of-block marker with the final block 3.
TrailerKeeps(v, t) ==
  /\ DataKept(v, t) /\ t.avail_out = v.avail_out /\ t.dict_len = v.dict_len
  /\ t.header_added = v.header_added

LEMMA EobWritten ==
  ASSUME NEW v, Typed(v)
  PROVE  LET t == deflate_write_eob(v) IN
         /\ Typed(t) /\ TrailerKeeps(v, t) /\ t.eob_added
         /\ t.trailer_added = v.trailer_added /\ t.trailer_len = v.trailer_len
         /\ v.eob_added => t = v
         /\ Ordered(v) /\ v.owed + 3 < FifoSize /\ ~v.eob_added => Ordered(t) /\ t.owed = v.owed + 3
<1>1. CASE v.eob_added
  BY <1>1 DEF deflate_write_eob, EobPossible, TrailerKeeps, DataKept
<1>2. CASE ~v.eob_added
  <2>1. EobPossible(v)
    <3>1. v.onumbits \in 0..7
      BY DEF Typed, Stream
    <3>2. QED BY <1>2, <3>1 DEF EobPossible
  <2>2. Len(EobBytes(v.obyte, v.onumbits)) = 3
    BY DEF EobBytes
  <2>3. PICK a : a = Push(v, 3)
    OBVIOUS
  <2>4. PICK t : t = [a EXCEPT !.onumbits = 0, !.eob_added = TRUE]
    OBVIOUS
  <2>5. deflate_write_eob(v) = t
    BY <2>1, <2>2, <2>3, <2>4 DEF deflate_write_eob
  <2>6. /\ Typed(a) /\ Emitted(v, a, 3) /\ TrailerKeeps(v, a)
        /\ a.trailer_added = v.trailer_added /\ a.trailer_len = v.trailer_len
    BY <2>3, Pushed DEF TrailerKeeps, MarksKept, OthersKept
  <2>7. /\ Typed(t) /\ TrailerKeeps(a, t) /\ t.eob_added
        /\ t.trailer_added = a.trailer_added /\ t.trailer_len = a.trailer_len
        /\ t.owed = a.owed /\ t.out_fifo = a.out_fifo
    BY <2>4, <2>6 DEF Typed, Stream, Fields, TrailerKeeps, DataKept
  <2>8. TrailerKeeps(v, t)
    BY <2>6, <2>7 DEF TrailerKeeps, DataKept
  <2>9. Ordered(v) /\ v.owed + 3 < FifoSize => Ordered(t) /\ t.owed = v.owed + 3
    BY <2>6, <2>7 DEF Emitted, Ordered
  <2>10. QED BY <1>2, <2>5, <2>6, <2>7, <2>8, <2>9
<1>3. QED BY <1>1, <1>2

LEMMA TrailerAdded ==
  ASSUME NEW v, Typed(v), v.eob_added
  PROVE  LET t == deflate_add_trailer(v) IN
         /\ Typed(t) /\ TrailerKeeps(v, t) /\ t.eob_added /\ t.trailer_added
         /\ t.trailer_len = IF v.trailer_added THEN v.trailer_len ELSE v.total_in
         /\ v.trailer_added => t = v
         /\ Ordered(v) /\ v.owed + 8 < FifoSize => Ordered(t)
<1>1. CASE v.trailer_added
  BY <1>1 DEF deflate_add_trailer, TrailerKeeps, DataKept
<1>2. CASE ~v.trailer_added
  <2>1. PICK a : a = Push32(v)
    OBVIOUS
  <2>2. PICK b : b = Push32(a)
    OBVIOUS
  <2>3. PICK c : c = CASE v.format = "DEFL" -> v [] v.format = "GZIP" -> b [] v.format = "ZLIB" -> a
    OBVIOUS
  <2>4. PICK t : t = [c EXCEPT !.trailer_added = TRUE, !.trailer_len = v.total_in]
    OBVIOUS
  <2>5. deflate_add_trailer(v) = t
    BY <1>2, <2>1, <2>2, <2>3, <2>4 DEF deflate_add_trailer
  <2>6. Typed(a) /\ Emitted(v, a, 4) /\ TrailerKeeps(v, a) /\ a.eob_added
    BY <2>1, Pushed32 DEF TrailerKeeps, MarksKept, OthersKept
  <2>7. Typed(b) /\ Emitted(a, b, 4) /\ TrailerKeeps(a, b) /\ b.eob_added
    BY <2>2, <2>6, Pushed32 DEF TrailerKeeps, MarksKept, OthersKept
  <2>8. v.format \in {"DEFL", "GZIP", "ZLIB"} /\ v.owed \in Nat
    BY FormatAssumption DEF Typed, Stream
  <2>9. c \in {v, a, b}
    BY <2>3, <2>8
  <2>10. Typed(c) /\ TrailerKeeps(v, c) /\ c.eob_added
    BY <2>6, <2>7, <2>9 DEF TrailerKeeps, DataKept
  <2>11. Ordered(v) /\ v.owed + 8 < FifoSize => Ordered(c)
    <3>1. ASSUME Ordered(v), v.owed + 8 < FifoSize PROVE Ordered(a) /\ Ordered(b)
      <4>1. FifoSize \in Nat
        BY FifoAssumption
      <4>2. Ordered(a) /\ a.owed = v.owed + 4
        BY <2>6, <2>8, <3>1, <4>1 DEF Emitted
      <4>3. QED BY <2>7, <2>8, <3>1, <4>1, <4>2 DEF Emitted
    <3>2. QED BY <2>9, <3>1
  <2>12. /\ Typed(t) /\ TrailerKeeps(c, t) /\ t.eob_added /\ t.trailer_added
         /\ t.trailer_len = v.total_in /\ t.owed = c.owed /\ t.out_fifo = c.out_fifo
    <3>1. PICK m \in 0..MaxIn : m = v.total_in
      BY DEF Typed, Stream
    <3> t = [c EXCEPT !.trailer_added = TRUE, !.trailer_len = m] /\ Stream(c)
      BY <2>4, <2>10, <3>1 DEF Typed
    <3>2. Stream(t) /\ t.trailer_added /\ t.trailer_len = v.total_in
      BY <3>1 DEF Stream, Fields
    <3>3. t.owed = c.owed /\ t.out_fifo = c.out_fifo /\ t.eob_added
      BY <2>4, <2>10 DEF Typed, Stream, Fields
    <3>4. TrailerKeeps(c, t)
      BY <2>4, <2>10 DEF Typed, Stream, Fields, TrailerKeeps, DataKept
    <3>5. Typed(t)
      BY <2>10, <3>2, <3>3, <3>4 DEF Typed, TrailerKeeps, DataKept
    <3>6. QED BY <3>2, <3>3, <3>4, <3>5
  <2>13. TrailerKeeps(v, t)
    BY <2>10, <2>12 DEF TrailerKeeps, DataKept
  <2>14. QED BY <1>2, <2>5, <2>11, <2>12, <2>13 DEF Ordered
<1>3. QED BY <1>1, <1>2

LEMMA FinishedEffect ==
  ASSUME NEW v, Typed(v), v.avail_in = 0, v.eob_added <=> v.trailer_added
  PROVE  LET t == Finished(v, "FINISH") IN
         /\ Typed(t) /\ DataKept(v, t) /\ t.dict_len = v.dict_len
         /\ t.header_added = v.header_added /\ t.eob_added /\ t.trailer_added
         /\ t.trailer_len = IF v.trailer_added THEN v.trailer_len ELSE v.total_in
         /\ Ordered(v) /\ (v.eob_added \/ v.owed + 11 < FifoSize) => Ordered(t)
         /\ v.eob_added => t = deflate_write_out_fifo(v)
         /\ Drains(v, t)
<1>1. PICK e : e = deflate_write_eob(v)
  OBVIOUS
<1>2. PICK a : a = deflate_add_trailer(e)
  OBVIOUS
<1>3. PICK t : t = deflate_write_out_fifo(a)
  OBVIOUS
<1>4. Finished(v, "FINISH") = t
  <2>1. Finished(v, "FINISH") =
          The({deflate_write_out_fifo(x) : x \in {deflate_add_trailer(y) : y \in {deflate_write_eob(v)}}})
    BY DEF Finished, Finishes
  <2>2. {deflate_add_trailer(y) : y \in {deflate_write_eob(v)}} = {a}
    BY <1>1, <1>2
  <2>3. {deflate_write_out_fifo(x) : x \in {a}} = {t}
    BY <1>3
  <2>4. The({t}) = t
    BY TheOnly
  <2>5. QED BY <2>1, <2>2, <2>3, <2>4
<1>5. /\ Typed(e) /\ TrailerKeeps(v, e) /\ e.eob_added
      /\ e.trailer_added = v.trailer_added /\ e.trailer_len = v.trailer_len
      /\ v.eob_added => e = v
      /\ Ordered(v) /\ v.owed + 3 < FifoSize /\ ~v.eob_added => Ordered(e) /\ e.owed = v.owed + 3
  BY <1>1, EobWritten
<1>6. /\ Typed(a) /\ TrailerKeeps(e, a) /\ a.eob_added /\ a.trailer_added
      /\ a.trailer_len = IF e.trailer_added THEN e.trailer_len ELSE e.total_in
      /\ e.trailer_added => a = e
      /\ Ordered(e) /\ e.owed + 8 < FifoSize => Ordered(a)
  BY <1>2, <1>5, TrailerAdded
<1>7. /\ Typed(t) /\ (Ordered(a) => Ordered(t)) /\ DataKept(a, t) /\ MarksKept(a, t)
      /\ t.dict_len = a.dict_len /\ Drains(a, t)
  BY <1>3, <1>6, WrittenOut
<1>8. v.eob_added => a = v
  BY <1>5, <1>6
<1>9. ASSUME Ordered(v), ~v.eob_added, v.owed + 11 < FifoSize PROVE Ordered(a)
  <2>1. v.owed \in Nat /\ FifoSize \in Nat
    BY FifoAssumption DEF Typed, Stream
  <2>2. Ordered(e) /\ e.owed = v.owed + 3
    BY <1>5, <1>9, <2>1
  <2>3. QED BY <1>6, <1>9, <2>1, <2>2
<1>10. DataKept(v, t) /\ t.dict_len = v.dict_len /\ t.header_added = v.header_added
  BY <1>5, <1>6, <1>7 DEF TrailerKeeps, DataKept, MarksKept
<1>11. /\ t.eob_added /\ t.trailer_added
       /\ t.trailer_len = IF v.trailer_added THEN v.trailer_len ELSE v.total_in
  BY <1>5, <1>6, <1>7 DEF TrailerKeeps, DataKept, MarksKept
<1>12. Drains(v, t)
  BY <1>5, <1>6, <1>7 DEF TrailerKeeps, Drains
<1>13. QED BY <1>3, <1>4, <1>7, <1>8, <1>9, <1>10, <1>11, <1>12

LEMMA FlushMarked ==
  ASSUME NEW v, Typed(v)
  PROVE  LET t == deflate_sync_flush(v) IN
         /\ Typed(t) /\ DataKept(v, t) /\ MarksKept(v, t) /\ t.dict_len = v.dict_len
         /\ t.avail_out = v.avail_out
         /\ Ordered(v) /\ v.owed + 7 < FifoSize => Ordered(t)
<1>1. PICK n \in 0..7 : n = Len(SyncBytes(v.obyte, v.onumbits))
  BY DEF SyncBytes, Typed, Stream
<1>2. PICK a : a = Push(v, n)
  OBVIOUS
<1>3. PICK t : t = [a EXCEPT !.obyte = 2, !.onumbits = 3]
  OBVIOUS
<1>4. deflate_sync_flush(v) = t
  BY <1>1, <1>2, <1>3 DEF deflate_sync_flush
<1>5. /\ Typed(a) /\ Emitted(v, a, n) /\ DataKept(v, a) /\ MarksKept(v, a)
      /\ a.dict_len = v.dict_len /\ a.avail_out = v.avail_out
  BY <1>1, <1>2, Pushed DEF OthersKept
<1>6. /\ Typed(t) /\ DataKept(a, t) /\ MarksKept(a, t) /\ t.dict_len = a.dict_len
      /\ t.avail_out = a.avail_out
      /\ t.owed = a.owed /\ t.out_fifo = a.out_fifo
  BY <1>3, <1>5 DEF Typed, Stream, Fields, DataKept, MarksKept
<1>7. DataKept(v, t) /\ MarksKept(v, t) /\ t.dict_len = v.dict_len
  BY <1>5, <1>6 DEF DataKept, MarksKept
<1>8. ASSUME Ordered(v), v.owed + 7 < FifoSize PROVE Ordered(t)
  <2>1. v.owed \in Nat /\ FifoSize \in Nat
    BY FifoAssumption DEF Typed, Stream
  <2>2. v.owed + n < FifoSize
    BY <1>8, <2>1
  <2>3. Ordered(a)
    BY <1>5, <1>8, <2>2 DEF Emitted
  <2>4. QED BY <1>6, <2>3 DEF Ordered
<1>9. QED BY <1>4, <1>5, <1>6, <1>7, <1>8

\* A flush, of a stream that was not told to finish.
LEMMA FlushedEffect ==
  ASSUME NEW v, Typed(v), NEW flush \in {"NO", "SYNC", "FULL", "FINISH"}
  PROVE  LET t == Flushed(v, flush) IN
         /\ Typed(t) /\ DataKept(v, t) /\ MarksKept(v, t)
         /\ t.dict_len = IF flush = "FULL" THEN 0 ELSE v.dict_len
         /\ Ordered(v) /\ v.owed + 7 < FifoSize => Ordered(t)
         /\ flush \in {"NO", "FINISH"} => t = v
         /\ flush \in {"SYNC", "FULL"} => Drains(v, t)
<1>1. CASE flush \in {"NO", "FINISH"}
  <2>1. Flushed(v, flush) = v
    BY <1>1 DEF Flushed
  <2>2. QED BY <1>1, <2>1 DEF DataKept, MarksKept
<1>2. CASE flush \in {"SYNC", "FULL"}
  <2>1. PICK a : a = deflate_sync_flush(v)
    OBVIOUS
  <2>2. PICK b : b = deflate_write_out_fifo(a)
    OBVIOUS
  <2>3. PICK t : t = IF flush = "FULL" THEN FullFlush(b) ELSE b
    OBVIOUS
  <2>4. Flushed(v, flush) = t
    <3>1. /\ {deflate_write_out_fifo(x) : x \in {a}} = {b}
          /\ {FullFlush(deflate_write_out_fifo(x)) : x \in {a}} = {FullFlush(b)}
      BY <2>2
    <3>2. The({b}) = b /\ The({FullFlush(b)}) = FullFlush(b)
      BY TheOnly
    <3>3. QED BY <1>2, <2>1, <2>3, <3>1, <3>2 DEF Flushed
  <2>5. /\ Typed(a) /\ DataKept(v, a) /\ MarksKept(v, a) /\ a.dict_len = v.dict_len
        /\ a.avail_out = v.avail_out
        /\ Ordered(v) /\ v.owed + 7 < FifoSize => Ordered(a)
    BY <2>1, FlushMarked
  <2>6. /\ Typed(b) /\ DataKept(a, b) /\ MarksKept(a, b) /\ b.dict_len = a.dict_len
        /\ Ordered(a) => Ordered(b)
        /\ Drains(a, b)
    BY <2>2, <2>5, WrittenOut
  <2>7. /\ Typed(t) /\ DataKept(b, t) /\ MarksKept(b, t)
        /\ t.dict_len = IF flush = "FULL" THEN 0 ELSE b.dict_len
        /\ t.owed = b.owed /\ t.out_fifo = b.out_fifo /\ t.avail_out = b.avail_out
    <3>1. CASE flush = "FULL"
      <4>1. t = [b EXCEPT !.dict_len = 0]
        BY <2>3, <3>1 DEF FullFlush
      <4>2. /\ Stream(t) /\ t.dict_len = 0 /\ t.owed = b.owed /\ t.out_fifo = b.out_fifo
            /\ t.avail_out = b.avail_out
        BY <2>6, <4>1 DEF Typed, Stream, Fields
      <4>3. DataKept(b, t) /\ MarksKept(b, t)
        BY <2>6, <4>1 DEF Typed, Stream, Fields, DataKept, MarksKept
      <4>4. Typed(t)
        BY <2>6, <4>2, <4>3 DEF Typed, DataKept
      <4>5. QED BY <3>1, <4>2, <4>3, <4>4
    <3>2. CASE flush # "FULL"
      BY <2>3, <2>6, <3>2 DEF DataKept, MarksKept
    <3>3. QED BY <3>1, <3>2
  <2>8. DataKept(v, t) /\ MarksKept(v, t)
    BY <2>5, <2>6, <2>7 DEF DataKept, MarksKept
  <2>9. Drains(v, t)
    BY <2>5, <2>6, <2>7 DEF Drains
  <2>10. QED BY <1>2, <2>4, <2>5, <2>6, <2>7, <2>8, <2>9 DEF Ordered
<1>3. QED BY <1>1, <1>2

-----------------------------------------------------------------------------
(* The request to the accelerator                                           *)

LEMMA PageOther ==
  ASSUME NEW v, Typed(v)
  PROVE  PageToggled(v) \in {0, 1} /\ PageToggled(v) = 1 - v.wsp_page /\ v.wsp_page \in {0, 1}
BY DEF Typed, Stream, PageToggled

LEMMA RequestTyped ==
  ASSUME NEW v, Typed(v)
  PROVE  Typed(Requested(v))
<1>1. PICK q \in {0, 1} : q = PageToggled(v)
  BY PageOther
<1>2. Requested(v) = [v EXCEPT !.wsp_page = q]
  BY <1>1 DEF Requested
<1>3. QED BY <1>2 DEF Typed, Stream, Fields

LEMMA ResultBounds ==
  ASSUME NEW v, Typed(v), v.avail_in # 0, v.avail_out # 0, NEW r \in Results(v)
  PROVE  /\ r.inp \in 1..v.avail_in /\ r.outp \in 0..v.avail_out /\ r.obyte \in 0..255
         /\ r.onumbits % 8 \in 0..7
         /\ r.onumbits \div 8 \in Nat /\ r.onumbits \div 8 + 11 < FifoSize
<1>1. /\ v.avail_in \in Nat /\ v.avail_out \in Nat /\ MaxOut \in Nat /\ MaxObits \in Nat
      /\ FifoSize \in Nat
  BY BoundsAssumption, FifoAssumption DEF Typed, Stream
<1>2. PICK m \in Nat : m = (MaxOut * v.avail_in) \div 8
  BY <1>1
<1>3. /\ r.inp \in 1..v.avail_in /\ r.outp \in {1, Smaller(v.avail_out, m)}
      /\ r.onumbits \in (0..7) \cup {8, MaxObits} /\ r.obyte \in OBytes
  BY <1>2 DEF Results
<1>4. Smaller(v.avail_out, m) \in 0..v.avail_out
  BY <1>1, <1>2 DEF Smaller
<1>5. r.outp \in 0..v.avail_out
  BY <1>1, <1>3, <1>4
<1>6. r.onumbits % 8 \in 0..7 /\ r.onumbits \div 8 \in Nat
  BY <1>1, <1>3
<1>7. r.onumbits \div 8 + 11 < FifoSize
  <2>1. MaxObits \div 8 >= 1
    BY <1>1, RoomAssumption
  <2>2. CASE r.onumbits \in 0..7
    BY <1>1, <2>1, <2>2, RoomAssumption
  <2>3. CASE r.onumbits = 8
    BY <1>1, <2>1, <2>3, RoomAssumption
  <2>4. CASE r.onumbits = MaxObits
    BY <2>4, RoomAssumption
  <2>5. QED BY <1>3, <2>2, <2>3, <2>4
<1>8. QED BY <1>3, <1>5, <1>6, <1>7, BoundsAssumption

\* Input is counted.
LEMMA ConsumedTyped ==
  ASSUME NEW v, Typed(v), NEW n \in 1..v.avail_in
  PROVE  Typed([v EXCEPT !.avail_in = @ - n, !.total_in = @ + n])
<1>1. /\ Stream(v) /\ MaxIn \in Nat /\ v.avail_in \in 0..MaxIn /\ v.total_in \in 0..MaxIn
      /\ v.total_in + v.avail_in <= MaxIn
  BY BoundsAssumption DEF Typed, Stream
<1>2. PICK in \in 0..MaxIn : in = v.avail_in - n
  BY <1>1
<1>3. PICK total \in 0..MaxIn : total = v.total_in + n
  BY <1>1
<1>4. total + in <= MaxIn
  BY <1>1, <1>2, <1>3
<1>5. PICK t : t = [v EXCEPT !.avail_in = in, !.total_in = total]
  OBVIOUS
<1>6. t = [v EXCEPT !.avail_in = @ - n, !.total_in = @ + n]
  BY <1>1, <1>2, <1>3, <1>5 DEF Stream, Fields
<1>7. Typed(t)
  BY <1>4, <1>5 DEF Typed, Stream, Fields
<1>8. QED BY <1>6, <1>7

\* A good result.
LEMMA ProcessedEffect ==
  ASSUME NEW v, Typed(v), v.out_fifo = <<>>, v.avail_in # 0, v.avail_out # 0,
         NEW r \in Results(v), NEW flush
  PROVE  LET t == Processed(v, flush, r) IN
         /\ Typed(t) /\ MarksKept(v, t) /\ t.format = v.format
         /\ t.avail_in = v.avail_in - r.inp /\ t.total_in = v.total_in + r.inp
         /\ t.avail_out = v.avail_out - r.outp
         /\ t.dict_len = 1 /\ t.window = t.total_in
         /\ t.wsp_page = 1 - v.wsp_page
         /\ Saves(v, flush, r) => t.dict[t.wsp_page] = t.total_in
         /\ Ordered(v) => Ordered(t) /\ t.owed + 11 < FifoSize
<1>1. /\ r.inp \in 1..v.avail_in /\ r.outp \in 0..v.avail_out /\ r.obyte \in 0..255
      /\ r.onumbits % 8 \in 0..7
      /\ r.onumbits \div 8 \in Nat /\ r.onumbits \div 8 + 11 < FifoSize
  BY ResultBounds
<1>2. /\ Stream(v) /\ v.avail_in \in 0..MaxIn /\ v.total_in \in 0..MaxIn /\ v.avail_out \in Nat
      /\ v.total_in + v.avail_in <= MaxIn /\ MaxIn \in Nat /\ FifoSize \in Nat /\ v.owed \in Nat
      /\ v.dict \in [{0, 1} -> Int]
  BY BoundsAssumption, FifoAssumption DEF Typed, Stream
<1>3. PICK n \in Nat : n = r.onumbits \div 8
  BY <1>1
<1>4. PICK b \in 0..7 : b = r.onumbits % 8
  BY <1>1
<1> PICK i \in Nat : i = r.inp /\ 1 <= i /\ i <= v.avail_in
  BY <1>1, <1>2
<1>5. PICK in \in 0..MaxIn : in = v.avail_in - r.inp
  BY <1>2
<1>6. PICK total \in 0..MaxIn : total = v.total_in + r.inp
  BY <1>2
<1>7. PICK out \in Nat : out = v.avail_out - r.outp
  BY <1>1, <1>2
<1>8. PICK q \in {0, 1} : q = 1 - v.wsp_page /\ q = PageToggled(v)
  BY PageOther
<1>9. PICK d \in [{0, 1} -> Int] :
        d = SavedDict(v, flush, r) /\ (Saves(v, flush, r) => d[q] = total)
  <2>1. PICK d : d = [v.dict EXCEPT ![q] = IF Saves(v, flush, r) THEN total ELSE @]
    OBVIOUS
  <2>2. total \in Int /\ v.dict[q] \in Int
    BY <1>2, <1>6
  <2>3. d \in [{0, 1} -> Int] /\ (Saves(v, flush, r) => d[q] = total)
    BY <1>2, <2>1, <2>2
  <2>4. d = SavedDict(v, flush, r)
    BY <1>6, <1>8, <2>1 DEF SavedDict
  <2>5. QED BY <2>3, <2>4
<1>10. Renumbered(v.out_fifo, r.outp) = <<>>
  <2>1. Len(v.out_fifo) = 0
    OBVIOUS
  <2>2. Renumbered(v.out_fifo, r.outp) = [k \in 1..0 |-> v.out_fifo[k] - r.outp]
    BY <2>1 DEF Renumbered
  <2>3. QED BY <2>2
<1>11. PICK a : a = [Requested(v) EXCEPT !.avail_in = @ - r.inp, !.total_in = v.total_in + r.inp,
                     !.avail_out = @ - r.outp, !.out_fifo = Renumbered(@, r.outp),
                     !.dict_len = 1, !.window = v.total_in + r.inp,
                     !.dict = SavedDict(v, flush, r),
                     !.onumbits = r.onumbits % 8, !.obyte = r.obyte]
  OBVIOUS
<1>12. PICK t : t = Push(a, n)
  OBVIOUS
<1>13. Processed(v, flush, r) = t
  <2>1. Processed(v, flush, r) = The({Unwritten(x, r) : x \in {a}})
    BY <1>11 DEF Processed
  <2>2. {Unwritten(x, r) : x \in {a}} = {t}
    BY <1>3, <1>12 DEF Unwritten
  <2>3. QED BY <2>1, <2>2, TheOnly
<1>14. a = [v EXCEPT !.wsp_page = q, !.avail_in = in, !.total_in = total, !.avail_out = out,
                    !.out_fifo = <<>>, !.dict_len = 1, !.window = total, !.dict = d,
                    !.onumbits = b, !.obyte = r.obyte]
  <2>1. Requested(v) = [v EXCEPT !.wsp_page = q]
    BY <1>8 DEF Requested
  <2>2. DOMAIN v = Fields
    BY <1>2 DEF Stream
  <2>3. a = [v EXCEPT !.wsp_page = q, !.avail_in = v.avail_in - r.inp,
                      !.total_in = v.total_in + r.inp, !.avail_out = v.avail_out - r.outp,
                      !.out_fifo = Renumbered(v.out_fifo, r.outp),
                      !.dict_len = 1, !.window = v.total_in + r.inp,
                      !.dict = SavedDict(v, flush, r),
                      !.onumbits = r.onumbits % 8, !.obyte = r.obyte]
    BY <1>11, <2>1, <2>2 DEF Fields
  <2>4. QED BY <1>4, <1>5, <1>6, <1>7, <1>8, <1>9, <1>10, <2>2, <2>3 DEF Fields
<1>15. /\ Stream(a) /\ a.out_fifo = <<>> /\ a.owed = v.owed
       /\ a.avail_in = in /\ a.total_in = total /\ a.dict_len = 1 /\ a.window = total
       /\ a.wsp_page = q /\ a.dict = d /\ a.format = v.format
  <2>1. /\ a.out_fifo = <<>> /\ a.owed = v.owed
        /\ a.avail_in = in /\ a.total_in = total /\ a.dict_len = 1 /\ a.window = total
        /\ a.wsp_page = q /\ a.dict = d /\ a.format = v.format
    BY <1>2, <1>14 DEF Stream, Fields
  <2>2. Stream(a)
    <3>1. PICK e \in 0..255 : e = r.obyte
      BY <1>1
    <3>2. DOMAIN a = Fields
      BY <1>2, <1>14 DEF Stream
    <3>3. /\ a.onumbits = b /\ a.obyte = e /\ a.avail_out = out /\ a.gzip_head = v.gzip_head
          /\ MarksKept(v, a) /\ a.havedict = v.havedict
      BY <1>2, <1>14, <3>1 DEF Stream, Fields, MarksKept
    <3>4. a.out_fifo \in Seq(Int) /\ total \in Int
      BY <1>2, <2>1
    <3>5. QED BY <1>2, <2>1, <3>2, <3>3, <3>4 DEF Stream, MarksKept
  <2>3. QED BY <2>1, <2>2
<1>16. MarksKept(v, a) /\ a.avail_out = out
  BY <1>2, <1>14 DEF Stream, Fields, MarksKept
<1>17. Typed(a)
  <2>1. Len(a.out_fifo) = 0
    BY <1>15
  <2>2. 0 < FifoSize /\ 0 <= a.owed
    BY <1>2, <1>15, FifoAssumption
  <2>3. a.total_in + a.avail_in <= MaxIn
    <3>1. total + in = v.total_in + v.avail_in
      <4>1. in = v.avail_in - i /\ total = v.total_in + i
        BY <1>5, <1>6
      <4>2. PICK x \in Nat, y \in Nat : x = v.total_in /\ y = v.avail_in
        BY <1>2
      <4>3. in \in Int /\ total \in Int
        BY <1>2
      <4>4. in = y - i /\ total = x + i
        BY <4>1, <4>2
      <4>5. total + in = x + y
        BY <4>3, <4>4
      <4>6. QED BY <4>2, <4>5
    <3>2. QED BY <1>2, <1>15, <3>1
  <2>4. QED BY <1>15, <2>1, <2>2, <2>3 DEF Typed
<1>18. /\ Typed(t) /\ Emitted(a, t, n) /\ DataKept(a, t) /\ MarksKept(a, t)
       /\ t.dict_len = a.dict_len /\ t.avail_out = a.avail_out
  BY <1>12, <1>17, Pushed DEF OthersKept
<1>19. ASSUME Ordered(v) PROVE Ordered(t) /\ t.owed + 11 < FifoSize
  <2>1. Len(v.out_fifo) = 0
    OBVIOUS
  <2>2. v.owed = 0
    BY <1>19, <2>1, OrderedLength
  <2>3. Ordered(a) /\ a.owed = 0
    BY <1>15, <1>17, <2>2, EmptyOrdered
  <2>4. n + 11 < FifoSize
    BY <1>1, <1>3
  <2>5. 0 + n < FifoSize /\ 0 + n = n
    BY <1>2, <2>4
  <2>6. QED BY <1>18, <2>3, <2>4, <2>5 DEF Emitted
<1>20. MarksKept(v, t)
  BY <1>16, <1>18 DEF MarksKept
<1>21. /\ t.format = v.format /\ t.avail_in = in /\ t.total_in = total /\ t.dict_len = 1
       /\ t.window = total /\ t.wsp_page = q /\ t.dict = d
  BY <1>15, <1>18 DEF DataKept
<1>22. QED BY <1>5, <1>6, <1>7, <1>8, <1>9, <1>13, <1>18, <1>16, <1>19, <1>20, <1>21

-----------------------------------------------------------------------------
(* The invariant in the phases of a call                                    *)

Alive == Phases \ {"failed"}

LEMMA FailedSound ==
  ASSUME NEW v, Typed(v)
  PROVE  Sound(v, "failed")
BY DEF Sound

\* A call with ZEDC_FINISH.
LEMMA FinishingSound ==
  ASSUME NEW v, NEW p \in Alive, Sound(v, p), Begun(v)
  PROVE  Sound(v, "finishing")
BY DEF Sound, EndSound, DictSound, Alive, Phases

LEMMA DoneSound ==
  ASSUME NEW v, NEW p \in Alive, Sound(v, p), Done(v)
  PROVE  Sound(v, "ended")
BY DEF Sound, EndSound, DictSound, Alive, Phases, Done

LEMMA WrittenSound ==
  ASSUME NEW v, NEW p \in Alive, Sound(v, p)
  PROVE  LET t == deflate_write_out_fifo(v) IN
         /\ Sound(t, p) /\ (Begun(v) => Begun(t))
         /\ t.avail_out # 0 => t.out_fifo = <<>>
<1>1. PICK t : t = deflate_write_out_fifo(v)
  OBVIOUS
<1>2. Typed(v) /\ v.owed \in Nat
  BY DEF Sound, Typed, Stream
<1>3. /\ Typed(t) /\ t.owed <= v.owed
      /\ Ordered(v) => Ordered(t)
      /\ t.avail_out # 0 => t.out_fifo = <<>>
      /\ v.out_fifo = <<>> => t.out_fifo = <<>>
      /\ DataKept(v, t) /\ MarksKept(v, t) /\ t.dict_len = v.dict_len
  BY <1>1, <1>2, WrittenOut DEF Drains
<1>4. Begun(t) <=> Begun(v)
  BY <1>3 DEF Begun, DataKept, MarksKept
<1>5. EndSound(v, p) => EndSound(t, p)
  BY <1>3, <1>4 DEF EndSound, DataKept, MarksKept
<1>6. DictSound(v, p) => DictSound(t, p)
  BY <1>3 DEF DictSound, DataKept
<1>7. FifoSound(v) => FifoSound(t)
  <2>1. t.owed \in Nat
    BY <1>3 DEF Typed, Stream
  <2>2. QED BY <1>2, <1>3, <1>4, <2>1 DEF FifoSound
<1>8. QED BY <1>1, <1>3, <1>4, <1>5, <1>6, <1>7 DEF Sound, Alive

LEMMA HeaderSound ==
  ASSUME NEW v, NEW p \in Alive, Sound(v, p), ~v.header_added, ~HeaderFailed(v)
  PROVE  LET t == deflate_add_header(v) IN Sound(t, p) /\ Begun(t)
<1>1. PICK t : t = deflate_add_header(v)
  OBVIOUS
<1>2. Typed(v)
  BY DEF Sound
<1>3. CASE v.format = "DEFL"
  <2>1. t = v
    BY <1>1, <1>2, <1>3, HeaderEmitted
  <2>2. QED BY <1>1, <1>3, <2>1 DEF Begun
<1>4. CASE v.format # "DEFL"
  <2>1. /\ Typed(t) /\ HeaderKeeps(v, t) /\ t.header_added
        /\ HeadersFit /\ v.owed = 0 => Ordered(t)
    BY <1>1, <1>2, <1>4, HeaderEmitted
  <2>2. ~Begun(v) /\ Begun(t)
    BY <1>4, <2>1 DEF Begun
  <2>3. p = "open"
    BY <2>2 DEF Sound, EndSound, Alive
  <2>4. EndSound(t, p)
    BY <2>1, <2>2, <2>3 DEF Sound, EndSound, HeaderKeeps, DataKept
  <2>5. DictSound(v, p) => DictSound(t, p)
    BY <2>1 DEF DictSound, HeaderKeeps, DataKept
  <2>6. FifoSound(v) /\ HeadersFit => FifoSound(t)
    BY <2>1, <2>2 DEF FifoSound
  <2>7. QED BY <1>1, <2>1, <2>2, <2>4, <2>5, <2>6 DEF Sound, Alive
<1>5. QED BY <1>3, <1>4

\* "Instructed to finish and no input data"
LEMMA FinishedSound ==
  ASSUME NEW v, Sound(v, "finishing"), v.avail_in = 0,
         HeadersFit => v.eob_added \/ v.owed + 11 < FifoSize
  PROVE  LET t == Finished(v, "FINISH") IN Sound(t, "finishing") /\ Begun(t)
<1>1. PICK t : t = Finished(v, "FINISH")
  OBVIOUS
<1>2. Typed(v) /\ (v.eob_added <=> v.trailer_added) /\ Begun(v)
  BY DEF Sound, EndSound
<1>3. /\ Typed(t) /\ DataKept(v, t) /\ t.dict_len = v.dict_len
      /\ t.header_added = v.header_added /\ t.eob_added /\ t.trailer_added
      /\ t.trailer_len = IF v.trailer_added THEN v.trailer_len ELSE v.total_in
      /\ Ordered(v) /\ (v.eob_added \/ v.owed + 11 < FifoSize) => Ordered(t)
  BY <1>1, <1>2, FinishedEffect
<1>4. Begun(t)
  BY <1>2, <1>3 DEF Begun, DataKept
<1>5. EndSound(t, "finishing")
  BY <1>3, <1>4 DEF Sound, EndSound, DataKept
<1>6. DictSound(v, "finishing") => DictSound(t, "finishing")
  BY <1>3 DEF DictSound, DataKept
<1>7. HeadersFit /\ FifoSound(v) => FifoSound(t)
  BY <1>3, <1>4 DEF FifoSound
<1>8. QED BY <1>1, <1>3, <1>4, <1>5, <1>6, <1>7 DEF Sound

\* A good result, and what is done after it.
LEMMA ProcessedSound ==
  ASSUME NEW v, NEW p \in {"open", "finishing"}, Sound(v, p), Begun(v),
         v.out_fifo = <<>>, v.avail_in # 0, v.avail_out # 0,
         NEW r \in Results(v), NEW flush \in {"NO", "SYNC", "FULL", "FINISH"}
  PROVE  LET t == Processed(v, flush, r) IN
         /\ Sound(t, "finishing") /\ Begun(t) /\ ~t.eob_added
         /\ flush \in {"NO", "SYNC"} => Sound(t, "open")
         /\ HeadersFit => t.owed + 11 < FifoSize
<1>1. PICK t : t = Processed(v, flush, r)
  OBVIOUS
<1>2. Typed(v) /\ v.avail_in \in Nat /\ v.total_in \in Nat
  BY BoundsAssumption DEF Sound, Typed, Stream
<1>3. /\ Typed(t) /\ MarksKept(v, t) /\ t.format = v.format
      /\ t.avail_in = v.avail_in - r.inp /\ t.total_in = v.total_in + r.inp
      /\ t.dict_len = 1 /\ t.window = t.total_in /\ t.wsp_page = 1 - v.wsp_page
      /\ Saves(v, flush, r) => t.dict[t.wsp_page] = t.total_in
      /\ Ordered(v) => Ordered(t) /\ t.owed + 11 < FifoSize
  BY <1>1, <1>2, ProcessedEffect
<1>4. r.inp \in 1..v.avail_in
  BY <1>2, ResultBounds
<1>5. t.total_in # 0 /\ (t.avail_in # 0 => r.inp # v.avail_in)
  BY <1>2, <1>3, <1>4
<1>6. ~v.trailer_added /\ ~v.eob_added
  BY DEF Sound, EndSound
<1>7. Begun(t) /\ ~t.eob_added /\ ~t.trailer_added
  BY <1>3, <1>6 DEF Begun, MarksKept
<1>8. EndSound(t, "finishing") /\ EndSound(t, "open")
  BY <1>7 DEF EndSound
<1>9. t.avail_in # 0 => t.dict[t.wsp_page] = t.window
  BY <1>3, <1>5 DEF Saves
<1>10. flush \in {"NO", "SYNC"} => t.dict[t.wsp_page] = t.window
  BY <1>3 DEF Saves, Skips
<1>11. DictSound(t, "finishing") /\ (flush \in {"NO", "SYNC"} => DictSound(t, "open"))
  BY <1>5, <1>9, <1>10 DEF DictSound
<1>12. HeadersFit => FifoSound(t) /\ t.owed + 11 < FifoSize
  BY <1>3, <1>7 DEF Sound, FifoSound
<1>13. QED BY <1>1, <1>3, <1>7, <1>8, <1>11, <1>12 DEF Sound

LEMMA FlushedSound ==
  ASSUME NEW v, NEW flush \in {"NO", "SYNC", "FULL"}, Sound(v, "finishing"), Begun(v), ~v.eob_added,
         flush \in {"NO", "SYNC"} => Sound(v, "open"),
         HeadersFit => v.owed + 11 < FifoSize
  PROVE  LET t == Flushed(v, flush) IN Sound(t, "open") /\ Begun(t)
<1>1. PICK t : t = Flushed(v, flush)
  OBVIOUS
<1>2. Typed(v) /\ v.owed \in Nat /\ ~v.trailer_added /\ FifoSize \in Nat
  BY FifoAssumption DEF Sound, EndSound, Typed, Stream
<1>3. /\ Typed(t) /\ DataKept(v, t) /\ MarksKept(v, t)
      /\ t.dict_len = IF flush = "FULL" THEN 0 ELSE v.dict_len
      /\ Ordered(v) /\ v.owed + 7 < FifoSize => Ordered(t)
  BY <1>1, <1>2, FlushedEffect
<1>4. Begun(t) /\ ~t.eob_added /\ ~t.trailer_added
  BY <1>2, <1>3 DEF Begun, DataKept, MarksKept
<1>5. EndSound(t, "open")
  BY <1>4 DEF EndSound
<1>6. ~LateDict => DictSound(t, "open")
  <2>1. CASE flush = "FULL"
    BY <1>3, <2>1 DEF Sound, DictSound, DataKept
  <2>2. CASE flush # "FULL"
    BY <1>3, <2>2 DEF Sound, DictSound, DataKept
  <2>3. QED BY <2>1, <2>2
<1>7. HeadersFit => FifoSound(t)
  <2>1. HeadersFit => v.owed + 7 < FifoSize
    BY <1>2
  <2>2. QED BY <1>3, <1>4, <2>1 DEF Sound, FifoSound
<1>8. QED BY <1>1, <1>3, <1>4, <1>5, <1>6, <1>7 DEF Sound

-----------------------------------------------------------------------------
(* The steps                                                                *)

LEMMA FreshSound ==
  ASSUME NEW f \in Formats, NEW h \in Headers \cup {NoHead}
  PROVE  Sound(Fresh(f, h, 0), "open")
<1>1. PICK t : t = Fresh(f, h, 0)
  OBVIOUS
<1>2. /\ DOMAIN t = Fields /\ t.format = f /\ t.gzip_head = h /\ t.avail_in = 0 /\ t.avail_out = 0
      /\ t.total_in = 0 /\ t.out_fifo = <<>> /\ t.onumbits = 3 /\ t.obyte = 2
      /\ ~t.header_added /\ ~t.eob_added /\ ~t.trailer_added /\ t.havedict = FALSE
      /\ t.wsp_page = 0 /\ t.dict_len = 0 /\ t.dict = [p \in {0, 1} |-> Nothing]
      /\ t.owed = 0 /\ t.window = Nothing /\ t.trailer_len = 0
  BY <1>1 DEF Fresh, Fields
<1>3. /\ t.header_added \in BOOLEAN /\ t.eob_added \in BOOLEAN /\ t.trailer_added \in BOOLEAN
      /\ t.dict \in [{0, 1} -> Int] /\ t.out_fifo \in Seq(Int) /\ Len(t.out_fifo) = 0
      /\ Nothing \in Int /\ MaxIn \in Nat /\ FifoSize > 0
  BY <1>1, <1>2, BoundsAssumption, FifoAssumption DEF Fresh, Nothing
<1>4. Typed(t)
  <2>1. 0 \in 0..MaxIn /\ 0 \in Nat /\ Nothing \in Int /\ 3 \in 0..7 /\ 2 \in 0..255
    BY <1>3
  <2>2. Stream(t)
    BY <1>2, <1>3, <2>1 DEF Stream
  <2>3. t.total_in + t.avail_in <= MaxIn /\ Len(t.out_fifo) < FifoSize /\ Len(t.out_fifo) <= t.owed
    BY <1>2, <1>3, FifoAssumption
  <2>4. QED BY <2>2, <2>3 DEF Typed
<1>5. EndSound(t, "open") /\ DictSound(t, "open")
  BY <1>2 DEF EndSound, DictSound
<1>6. FifoSound(t)
  BY <1>2, <1>4, EmptyOrdered DEF FifoSound
<1>7. QED BY <1>1, <1>4, <1>5, <1>6 DEF Sound

LEMMA InitSound == Init => IInv
<1> SUFFICES ASSUME Init PROVE IInv
  OBVIOUS
<1>1. PICK f \in Formats : strm = Fresh(f, NoHead, 0)
  BY DEF Init
<1>2. Sound(Fresh(f, NoHead, 0), "open")
  BY FreshSound
<1>3. QED BY <1>1, <1>2 DEF Init, IInv, Phases

\* A call starts: an application that finishes gives no more input.
LEMMA CallSound ==
  ASSUME NEW v, NEW p \in Alive, Sound(v, p), NEW in \in 0..MaxIn, NEW out \in Nat,
         p # "open" => in = 0, v.total_in + v.avail_in + in <= MaxIn
  PROVE  Sound([v EXCEPT !.avail_in = @ + in, !.avail_out = out], p)
<1>1. /\ Typed(v) /\ Stream(v) /\ MaxIn \in Nat /\ v.avail_in \in 0..MaxIn
      /\ v.total_in \in 0..MaxIn /\ out \in Nat
  BY BoundsAssumption DEF Sound, Typed, Stream
<1>2. PICK n \in 0..MaxIn : n = v.avail_in + in
  BY <1>1
<1>3. PICK t : t = [v EXCEPT !.avail_in = n, !.avail_out = out]
  OBVIOUS
<1>4. t = [v EXCEPT !.avail_in = @ + in, !.avail_out = out]
  BY <1>1, <1>2, <1>3 DEF Stream, Fields
<1>5. /\ MarksKept(v, t) /\ t.format = v.format /\ t.avail_in = n
      /\ t.total_in = v.total_in /\ t.wsp_page = v.wsp_page /\ t.dict = v.dict
      /\ t.window = v.window /\ t.dict_len = v.dict_len /\ t.owed = v.owed
      /\ t.out_fifo = v.out_fifo
  BY <1>1, <1>3 DEF Stream, Fields, MarksKept
<1>6. Stream(t)
  BY <1>1, <1>3 DEF Stream, Fields
<1>7. Typed(t)
  <2>1. t.total_in + t.avail_in <= MaxIn
    BY <1>1, <1>2, <1>5
  <2>2. QED BY <1>1, <1>5, <1>6, <2>1 DEF Typed
<1>8. p # "open" => t.avail_in = v.avail_in
  BY <1>1, <1>2, <1>5
<1>9. EndSound(t, p)
  BY <1>5, <1>8 DEF Sound, EndSound, Begun, MarksKept, Alive
<1>10. ~LateDict => DictSound(t, p)
  BY <1>5, <1>8 DEF Sound, DictSound, Alive
<1>11. HeadersFit => FifoSound(t)
  BY <1>5 DEF Sound, FifoSound, Begun, Ordered, MarksKept, Alive
<1>12. QED BY <1>4, <1>7, <1>9, <1>10, <1>11 DEF Sound

\* After the buffers were written out: the rest of a call, in state v.
LEMMA ContinueStep ==
  ASSUME NEW v, NEW p \in Alive, NEW flush \in {"NO", "SYNC", "FULL", "FINISH"},
         Sound(v, p), Begun(v), p # "open" => flush = "FINISH",
         v.avail_in # 0 => v.out_fifo = <<>>,
         Continue(v, flush)
  PROVE  IInv'
<1>1. CASE Done(v) /\ Return(v, "STREAM_END") /\ pc' = "ended"
  <2>1. Sound(v, "ended")
    BY <1>1, DoneSound
  <2>2. QED BY <1>1, <2>1 DEF IInv, Return, Phases
<1>2. CASE Return(v, "OK") /\ pc' = IF flush = "FINISH" THEN "finishing" ELSE "open"
  <2>1. CASE flush = "FINISH"
    <3>1. Sound(v, "finishing")
      BY FinishingSound
    <3>2. QED BY <1>2, <2>1, <3>1 DEF IInv, Return, Phases
  <2>2. CASE flush # "FINISH"
    BY <1>2, <2>2 DEF IInv, Return, Phases
  <2>3. QED BY <2>1, <2>2
<1>3. CASE /\ v.avail_out # 0 /\ v.avail_in # 0
           /\ \E r \in Results(v) :
                \E t \in {Flushed(f, flush) : f \in {Finished(x, flush) : x \in {Processed(v, flush, r)}}} :
                   /\ Return(t, IF Done(t) THEN "STREAM_END" ELSE "OK")
                   /\ pc' = IF Done(t) THEN "ended" ELSE IF flush = "FINISH" THEN "finishing" ELSE "open"
  <2>1. PICK r \in Results(v) :
          \E t \in {Flushed(f, flush) : f \in {Finished(x, flush) : x \in {Processed(v, flush, r)}}} :
             /\ Return(t, IF Done(t) THEN "STREAM_END" ELSE "OK")
             /\ pc' = IF Done(t) THEN "ended" ELSE IF flush = "FINISH" THEN "finishing" ELSE "open"
    BY <1>3
  <2>2. PICK x : x = Processed(v, flush, r)
    OBVIOUS
  <2>3. PICK f : f = Finished(x, flush)
    OBVIOUS
  <2>4. PICK t : t = Flushed(f, flush)
    OBVIOUS
  <2>5. /\ strm' = t /\ rc' \in {"STREAM_END", "OK"}
        /\ pc' = IF Done(t) THEN "ended" ELSE IF flush = "FINISH" THEN "finishing" ELSE "open"
    BY <2>1, <2>2, <2>3, <2>4 DEF Return
  <2>6. p \in {"open", "finishing"}
    BY <1>3 DEF Sound, EndSound, Alive, Phases
  <2>7. /\ Sound(x, "finishing") /\ Begun(x) /\ ~x.eob_added
        /\ flush \in {"NO", "SYNC"} => Sound(x, "open")
        /\ HeadersFit => x.owed + 11 < FifoSize
    BY <1>3, <2>2, <2>6, ProcessedSound
  <2>8. Sound(t, IF flush = "FINISH" THEN "finishing" ELSE "open")
    <3>1. CASE flush = "FINISH" /\ x.avail_in = 0
      <4>1. Sound(f, "finishing")
        BY <2>3, <2>7, <3>1, FinishedSound
      <4>2. t = f
        BY <2>4, <3>1 DEF Flushed
      <4>3. QED BY <3>1, <4>1, <4>2
    <3>2. CASE flush = "FINISH" /\ x.avail_in # 0
      BY <2>3, <2>4, <2>7, <3>2 DEF Flushed, Finished, Finishes
    <3>3. CASE flush # "FINISH"
      <4>1. f = x
        BY <2>3, <3>3 DEF Finished, Finishes
      <4>2. Sound(t, "open")
        BY <2>4, <2>7, <3>3, <4>1, FlushedSound
      <4>3. QED BY <3>3, <4>2
    <3>4. QED BY <3>1, <3>2, <3>3
  <2>9. Done(t) => Sound(t, "ended")
    BY <2>8, DoneSound DEF Alive, Phases
  <2>10. QED BY <2>5, <2>8, <2>9 DEF IInv, Phases
<1>4. CASE Return(Requested(v), "STREAM_ERROR") /\ pc' = "failed"
  <2>1. Sound(Requested(v), "failed")
    BY RequestTyped DEF Sound
  <2>2. QED BY <1>4, <2>1 DEF IInv, Return, Phases
<1>5. CASE /\ v.avail_out # 0 /\ v.avail_in # 0
           /\ \E r \in BadResults(v) :
                /\ Return([Requested(v) EXCEPT !.avail_in = @ - r.inp, !.total_in = @ + r.inp],
                          "STREAM_ERROR")
                /\ pc' = "failed"
  <2>1. PICK r \in BadResults(v) :
                /\ Return([Requested(v) EXCEPT !.avail_in = @ - r.inp, !.total_in = @ + r.inp],
                          "STREAM_ERROR")
                /\ pc' = "failed"
    BY <1>5
  <2>2. PICK q : q = Requested(v)
    OBVIOUS
  <2>3. Typed(q) /\ q.avail_in = v.avail_in
    <3>1. Typed(v) /\ DOMAIN v = Fields
      BY DEF Sound, Typed, Stream
    <3>2. q.avail_in = v.avail_in
      BY <2>2, <3>1 DEF Requested, Fields
    <3>3. QED BY <2>2, <3>1, <3>2, RequestTyped
  <2>4. PICK t : t = [q EXCEPT !.avail_in = @ - r.inp, !.total_in = @ + r.inp]
    OBVIOUS
  <2>5. r.inp \in 1..q.avail_in
    BY <2>3 DEF BadResults
  <2>6. Typed(t)
    BY <2>3, <2>4, <2>5, ConsumedTyped
  <2>7. Sound(t, "failed") /\ strm' = t /\ rc' = "STREAM_ERROR"
    BY <2>1, <2>2, <2>4, <2>6, FailedSound DEF Return
  <2>8. QED BY <2>1, <2>7 DEF IInv, Phases
<1>6. QED BY <1>1, <1>2, <1>3, <1>4, <1>5 DEF Continue

LEMMA DeflateStep ==
  ASSUME IInv, NEW flush \in {"NO", "SYNC", "FULL", "FINISH"}, NEW in \in 0..MaxIn,
         NEW out \in Nat, Deflate(flush, in, out)
  PROVE  IInv'
<1>1. PICK v : v = strm
  OBVIOUS
<1>2. PICK p \in Alive : p = pc
  BY DEF Deflate, Alive, Phases
<1>3. /\ p # "open" => flush = "FINISH" /\ in = 0
      /\ v.total_in + v.avail_in + in <= MaxIn
      /\ Sound(v, p)
  BY <1>1, <1>2 DEF Deflate, IInv
<1>4. PICK s1 : s1 = [v EXCEPT !.avail_in = @ + in, !.avail_out = out]
  OBVIOUS
<1>5. PICK s2 : s2 = IF s1.header_added THEN s1 ELSE deflate_add_header(s1)
  OBVIOUS
<1>6. PICK s3 : s3 = deflate_write_out_fifo(s2)
  OBVIOUS
<1>7. PICK s4 : s4 = Finished(s3, flush)
  OBVIOUS
<1>8. \/ /\ HeaderFailed(s1)
         /\ Return(s2, "STREAM_ERROR") /\ pc' = "failed"
      \/ /\ ~HeaderFailed(s1) /\ s3.avail_out = 0
         /\ Return(s3, "OK") /\ pc' = IF flush = "FINISH" THEN "finishing" ELSE "open"
      \/ /\ ~HeaderFailed(s1) /\ s3.avail_out # 0
         /\ Continue(s4, flush)
  BY <1>1, <1>4, <1>5, <1>6, <1>7 DEF Deflate
<1>9. Sound(s1, p)
  BY <1>2, <1>3, <1>4, CallSound
<1>10. CASE HeaderFailed(s1) /\ Return(s2, "STREAM_ERROR") /\ pc' = "failed"
  <2>1. Typed(s1) /\ ~s1.header_added
    BY <1>9, <1>10 DEF Sound, HeaderFailed
  <2>2. Typed(s2)
    BY <1>5, <2>1, HeaderEmitted
  <2>3. Sound(s2, "failed")
    BY <2>2, FailedSound
  <2>4. QED BY <1>10, <2>3 DEF IInv, Return, Phases
<1>11. ASSUME ~HeaderFailed(s1)
       PROVE  Sound(s3, p) /\ Begun(s3) /\ (s3.avail_out # 0 => s3.out_fifo = <<>>)
  <2>1. Sound(s2, p) /\ Begun(s2)
    <3>1. CASE s1.header_added
      BY <1>5, <1>9, <3>1 DEF Begun
    <3>2. CASE ~s1.header_added
      BY <1>2, <1>5, <1>9, <1>11, <3>2, HeaderSound
    <3>3. QED BY <3>1, <3>2
  <2>2. QED BY <1>2, <1>6, <2>1, WrittenSound
<1>12. CASE /\ ~HeaderFailed(s1) /\ Return(s3, "OK")
            /\ pc' = IF flush = "FINISH" THEN "finishing" ELSE "open"
  <2>1. CASE flush = "FINISH"
    <3>1. Sound(s3, "finishing")
      BY <1>2, <1>11, <1>12, FinishingSound
    <3>2. QED BY <1>12, <2>1, <3>1 DEF IInv, Return, Phases
  <2>2. CASE flush # "FINISH"
    BY <1>3, <1>11, <1>12, <2>2 DEF IInv, Return, Phases
  <2>3. QED BY <2>1, <2>2
<1>13. CASE ~HeaderFailed(s1) /\ s3.avail_out # 0 /\ Continue(s4, flush)
  <2>1. Sound(s3, p) /\ Begun(s3) /\ s3.out_fifo = <<>>
    BY <1>11, <1>13
  <2>2. CASE Finishes(s3, flush)
    <3>1. Sound(s3, "finishing") /\ flush = "FINISH" /\ s3.avail_in = 0
      BY <1>2, <2>1, <2>2, FinishingSound DEF Finishes
    <3>2. HeadersFit => s3.owed + 11 < FifoSize
      <4>1. ASSUME HeadersFit PROVE s3.owed = 0
        <5>1. Typed(s3) /\ Ordered(s3)
          BY <3>1, <4>1 DEF Sound, FifoSound
        <5>2. Len(s3.out_fifo) = 0
          BY <2>1
        <5>3. QED BY <5>1, <5>2, OrderedLength
      <4>2. 11 < FifoSize
        BY RoomAssumption, BoundsAssumption, FifoAssumption
      <4>3. QED BY <4>1, <4>2
    <3>3. Sound(s4, "finishing") /\ Begun(s4)
      BY <1>7, <3>1, <3>2, FinishedSound
    <3>4. s4.avail_in = 0
      <4>1. Typed(s3) /\ (s3.eob_added <=> s3.trailer_added)
        BY <3>1 DEF Sound, EndSound
      <4>2. DataKept(s3, s4)
        BY <1>7, <3>1, <4>1, FinishedEffect
      <4>3. QED BY <3>1, <4>2 DEF DataKept
    <3>5. "finishing" \in Alive
      BY DEF Alive, Phases
    <3>6. QED BY <1>13, <3>1, <3>3, <3>4, <3>5, ContinueStep
  <2>3. CASE ~Finishes(s3, flush)
    <3>1. s4 = s3
      BY <1>7, <2>3 DEF Finished
    <3>2. QED BY <1>2, <1>3, <1>13, <2>1, <3>1, ContinueStep
  <2>4. QED BY <2>2, <2>3
<1>14. QED BY <1>8, <1>10, <1>12, <1>13

LEMMA SetHeaderStep ==
  ASSUME IInv, NEW h \in Headers, SetHeader(h)
  PROVE  IInv'
<1>1. PICK v : v = strm
  OBVIOUS
<1>2. PICK t : t = [v EXCEPT !.gzip_head = h]
  OBVIOUS
<1>3. Sound(v, "open") /\ strm' = t /\ pc' = "open" /\ rc' = rc
  BY <1>1, <1>2 DEF IInv, SetHeader
<1>4. Typed(v)
  BY <1>3 DEF Sound
<1>5. /\ Typed(t) /\ MarksKept(v, t) /\ t.format = v.format /\ t.avail_in = v.avail_in
      /\ t.total_in = v.total_in /\ t.wsp_page = v.wsp_page /\ t.dict = v.dict
      /\ t.window = v.window /\ t.dict_len = v.dict_len /\ t.owed = v.owed
      /\ t.out_fifo = v.out_fifo
  BY <1>2, <1>4 DEF Typed, Stream, Fields, MarksKept
<1>6. EndSound(t, "open") /\ (~LateDict => DictSound(t, "open"))
  BY <1>3, <1>5 DEF Sound, EndSound, DictSound, MarksKept
<1>7. HeadersFit => FifoSound(t)
  BY <1>3, <1>5 DEF Sound, FifoSound, Begun, Ordered, MarksKept
<1>8. QED BY <1>3, <1>5, <1>6, <1>7 DEF IInv, Sound, Phases

\* The dictionary goes to the page in use, as no data was compressed yet.
LEMMA SetDictionaryStep ==
  ASSUME IInv, SetDictionary
  PROVE  IInv'
<1>1. PICK v : v = strm
  OBVIOUS
<1>2. Sound(v, "open") /\ pc' = "open" /\ (LateDict \/ v.total_in = 0)
  BY <1>1 DEF IInv, SetDictionary
<1>3. CASE v.header_added
  BY <1>1, <1>2, <1>3 DEF IInv, SetDictionary, Phases
<1>4. CASE ~v.header_added
  <2>1. PICK d : d = [v.dict EXCEPT ![0] = User]
    OBVIOUS
  <2>2. PICK t : t = [v EXCEPT !.dict = d, !.dict_len = 1, !.havedict = TRUE, !.window = User]
    OBVIOUS
  <2>3. Typed(v) /\ DOMAIN v = Fields /\ v.dict \in [{0, 1} -> Int] /\ User \in Int
    BY <1>2 DEF Sound, Typed, Stream, User
  <2>4. strm' = t /\ rc' = "OK"
    BY <1>1, <1>4, <2>1, <2>2, <2>3 DEF SetDictionary, Fields
  <2>5. d \in [{0, 1} -> Int] /\ d[0] = User
    BY <2>1, <2>3
  <2>6. /\ MarksKept(v, t) /\ t.format = v.format /\ t.avail_in = v.avail_in
        /\ t.total_in = v.total_in /\ t.wsp_page = v.wsp_page /\ t.dict = d
        /\ t.window = User /\ t.dict_len = 1 /\ t.owed = v.owed
        /\ t.out_fifo = v.out_fifo
    BY <2>2, <2>3 DEF Fields, MarksKept
  <2>7. Typed(t)
    BY <2>2, <2>3, <2>5 DEF Typed, Stream, Fields
  <2>8. EndSound(t, "open")
    BY <1>2, <2>6 DEF Sound, EndSound, MarksKept
  <2>9. ~LateDict => DictSound(t, "open")
    BY <1>2, <2>5, <2>6 DEF Sound, DictSound
  <2>10. HeadersFit => FifoSound(t)
    BY <1>2, <2>6 DEF Sound, FifoSound, Begun, Ordered, MarksKept
  <2>11. QED BY <1>2, <2>4, <2>7, <2>8, <2>9, <2>10 DEF IInv, Sound, Phases
<1>5. QED BY <1>3, <1>4

\* The page that is not copied is not in use.
LEMMA CopyStep ==
  ASSUME IInv, Copy
  PROVE  IInv'
<1>1. PICK v : v = strm
  OBVIOUS
<1>2. PICK p \in {"open", "finishing"} : p = pc
  BY DEF Copy
<1>3. PICK q \in {0, 1} : q = 1 - v.wsp_page /\ q # v.wsp_page
  BY <1>1 DEF IInv, Sound, Typed, Stream
<1>4. PICK d : d = [v.dict EXCEPT ![q] = Nothing]
  OBVIOUS
<1>5. PICK t : t = [v EXCEPT !.dict = d]
  OBVIOUS
<1>6. /\ Typed(v) /\ DOMAIN v = Fields /\ v.dict \in [{0, 1} -> Int] /\ Nothing \in Int
      /\ Sound(v, p) /\ v.wsp_page \in {0, 1}
  BY <1>1, <1>2 DEF IInv, Sound, Typed, Stream, Nothing
<1>7. strm' = t /\ pc' = p /\ rc' = rc
  BY <1>1, <1>2, <1>3, <1>4, <1>5, <1>6 DEF Copy, Copied, Fields
<1>8. d \in [{0, 1} -> Int] /\ d[v.wsp_page] = v.dict[v.wsp_page]
  BY <1>3, <1>4, <1>6
<1>9. /\ MarksKept(v, t) /\ t.format = v.format /\ t.avail_in = v.avail_in
      /\ t.total_in = v.total_in /\ t.wsp_page = v.wsp_page /\ t.dict = d
      /\ t.window = v.window /\ t.dict_len = v.dict_len /\ t.owed = v.owed
      /\ t.out_fifo = v.out_fifo
  BY <1>5, <1>6 DEF Fields, MarksKept
<1>10. Typed(t)
  BY <1>5, <1>6, <1>8 DEF Typed, Stream, Fields
<1>11. EndSound(t, p)
  BY <1>6, <1>9 DEF Sound, EndSound, Begun, MarksKept
<1>12. ~LateDict => DictSound(t, p)
  BY <1>6, <1>8, <1>9 DEF Sound, DictSound
<1>13. HeadersFit => FifoSound(t)
  BY <1>6, <1>9 DEF Sound, FifoSound, Begun, Ordered, MarksKept
<1>14. QED BY <1>7, <1>10, <1>11, <1>12, <1>13 DEF IInv, Sound, Phases

LEMMA ResetStep ==
  ASSUME IInv, Reset
  PROVE  IInv'
<1>1. PICK f \in Formats : f = strm.format
  BY DEF IInv, Sound, Typed, Stream
<1>2. PICK h \in Headers \cup {NoHead} : h = strm.gzip_head
  BY DEF IInv, Sound, Typed, Stream
<1>3. PICK t : t = Fresh(f, h, 0)
  OBVIOUS
<1>4. Sound(t, "open")
  BY <1>3, FreshSound
<1>5. strm' = t /\ pc' = "open" /\ rc' = "OK"
  BY <1>1, <1>2, <1>3 DEF Reset
<1>6. QED BY <1>4, <1>5 DEF IInv, Phases

LEMMA NextSound == IInv /\ [Next]_vars => IInv'
<1> SUFFICES ASSUME IInv, [Next]_vars PROVE IInv'
  OBVIOUS
<1>1. ASSUME NEW flush \in {"NO", "SYNC", "FULL", "FINISH"}, NEW in \in 0..MaxIn,
             NEW out \in OutSizes, Deflate(flush, in, out)
      PROVE  IInv'
  BY <1>1, DeflateStep, BoundsAssumption
<1>2. ASSUME NEW h \in Headers, SetHeader(h) PROVE IInv'
  BY <1>2, SetHeaderStep
<1>3. CASE SetDictionary
  BY <1>3, SetDictionaryStep
<1>4. CASE Copy
  BY <1>4, CopyStep
<1>5. CASE Reset
  BY <1>5, ResetStep
<1>6. CASE UNCHANGED vars
  BY <1>6 DEF IInv, vars
<1>7. QED BY <1>1, <1>2, <1>3, <1>4, <1>5, <1>6 DEF Next

-----------------------------------------------------------------------------
(* The theorems                                                             *)

\* The parts of the invariant hold in every state of every stream.
THEOREM StreamInvariant == Spec => []IInv
<1>1. Init => IInv
  BY InitSound
<1>2. IInv /\ [Next]_vars => IInv'
  BY NextSound
<1>3. QED BY <1>1, <1>2, PTL DEF Spec

LEMMA TypesFollow ==
  ASSUME IInv
  PROVE  TypeOK
BY DEF IInv, Sound, Typed, Stream, Phases, TypeOK

\* With a dictionary set before any data only, the next DDCB reads the window of the data
\* compressed so far, or the dictionary of the application: toggling the page before the
\* request is sent, the try without saving it, flushes and copies leave the right one in
\* the page that is in use.
THEOREM DictionaryIsWindow == ASSUME LateDict = FALSE PROVE Spec => []DictCurrent
<1>1. IInv => DictCurrent
  BY DEF IInv, Sound, DictSound, DictCurrent
<1>2. QED BY <1>1, StreamInvariant, PTL

\* With headers that fit the FIFO, every byte of header, data, markers and trailer reaches
\* the application in the order it was emitted, whatever buffers it gives and however many
\* bits the accelerator leaves over.
THEOREM BytesInOrder == ASSUME HeadersFit PROVE Spec => []InOrder
<1>1. IInv => InOrder
  BY DEF IInv, Sound, FifoSound, Ordered, Numbers, InOrder
<1>2. QED BY <1>1, StreamInvariant, PTL

LEMMA TrailerFollows ==
  ASSUME HeadersFit, IInv
  PROVE  TrailerFinal
<1>1. ASSUME pc # "failed", strm.trailer_added
      PROVE  strm.eob_added /\ strm.avail_in = 0 /\ strm.trailer_len = strm.total_in
  BY <1>1 DEF IInv, Sound, EndSound
<1>2. ASSUME pc = "ended" PROVE strm.trailer_added /\ strm.owed = 0
  <2>1. PICK v : v = strm
    OBVIOUS
  <2>2. Typed(v) /\ Ordered(v) /\ v.trailer_added /\ v.out_fifo = <<>>
    BY <1>2, <2>1 DEF IInv, Sound, EndSound, FifoSound
  <2>3. Len(v.out_fifo) = 0
    BY <2>2
  <2>4. QED BY <2>1, <2>2, <2>3, OrderedLength
<1>3. QED BY <1>1, <1>2 DEF TrailerFinal

\* A call to finish, without input and with room, gives out bytes, adds the end or is there.
LEMMA ProgressFollows ==
  ASSUME IInv
  PROVE  FinishProgress
<1> SUFFICES ASSUME pc = "finishing", strm.avail_in = 0, NEW out \in OutSizes \ {0}
             PROVE  LET t == Finished(deflate_write_out_fifo([strm EXCEPT !.avail_out = out]), "FINISH")
                    IN  Done(t) \/ t.owed < strm.owed \/ (t.eob_added /\ ~strm.eob_added)
  BY DEF FinishProgress
<1>1. PICK s0 : s0 = strm
  OBVIOUS
<1>2. PICK v : v = [s0 EXCEPT !.avail_out = out]
  OBVIOUS
<1>3. PICK w : w = deflate_write_out_fifo(v)
  OBVIOUS
<1>4. PICK t : t = Finished(w, "FINISH")
  OBVIOUS
<1>5. Typed(s0) /\ DOMAIN s0 = Fields /\ (s0.eob_added <=> s0.trailer_added) /\ out \in Nat \ {0}
  BY <1>1, BoundsAssumption DEF IInv, Sound, EndSound, Typed, Stream
<1>6. /\ Typed(v) /\ v.avail_out = out /\ v.out_fifo = s0.out_fifo /\ v.owed = s0.owed
      /\ v.eob_added = s0.eob_added /\ v.trailer_added = s0.trailer_added
      /\ v.avail_in = s0.avail_in
  BY <1>2, <1>5 DEF Typed, Stream, Fields
<1>7. /\ Typed(w) /\ (v.out_fifo = <<>> => w.out_fifo = <<>>)
      /\ v.out_fifo # <<>> => w.owed < v.owed
      /\ w.eob_added = v.eob_added /\ w.trailer_added = v.trailer_added
      /\ w.avail_in = v.avail_in
  BY <1>3, <1>5, <1>6, WrittenOut DEF DataKept, MarksKept
<1>8. w.avail_in = 0 /\ (w.eob_added <=> w.trailer_added)
  BY <1>1, <1>5, <1>6, <1>7
<1>9. t.eob_added /\ t.trailer_added /\ (w.eob_added => t = deflate_write_out_fifo(w))
  BY <1>4, <1>7, <1>8, FinishedEffect
<1>10. CASE ~s0.eob_added
  BY <1>1, <1>2, <1>3, <1>4, <1>9, <1>10
<1>11. CASE s0.eob_added
  <2>1. t.owed <= w.owed /\ (w.out_fifo = <<>> => t.out_fifo = <<>>) /\ Typed(t)
    BY <1>6, <1>7, <1>9, <1>11, WrittenOut
  <2>2. CASE v.out_fifo = <<>>
    BY <1>2, <1>1, <1>3, <1>4, <1>7, <1>9, <2>1, <2>2 DEF Done
  <2>3. CASE v.out_fifo # <<>>
    <3>1. t.owed \in Nat /\ w.owed \in Nat /\ v.owed \in Nat
      BY <1>6, <1>7, <2>1 DEF Typed, Stream
    <3>2. t.owed < s0.owed
      BY <1>6, <1>7, <2>1, <2>3, <3>1
    <3>3. QED BY <1>1, <1>2, <1>3, <1>4, <3>2
  <2>4. QED BY <2>2, <2>3
<1>12. QED BY <1>10, <1>11

\* The end of a stream: one trailer, behind the end-of-block marker, that counts all the
\* input; ZEDC_STREAM_END only when it has been delivered; and each call to finish with
\* room for output gets nearer to it.
THEOREM EndIsComplete == ASSUME HeadersFit PROVE Spec => []EndIsReached
<1>1. IInv => EndIsReached
  BY TypesFollow, TrailerFollows, ProgressFollows DEF EndIsReached
<1>2. QED BY <1>1, StreamInvariant, PTL

-----------------------------------------------------------------------------
(* The bits of the markers                                                  *)

\* The powers of two that shift the bits of a byte.
LEMMA Powers ==
  /\ 2^0 = 1 /\ 2^1 = 2 /\ 2^2 = 4 /\ 2^3 = 8
  /\ 2^4 = 16 /\ 2^5 = 32 /\ 2^6 = 64 /\ 2^7 = 128
OBVIOUS

\* A power of two is one of these.
LEMMA PowerOf ==
  ASSUME NEW j \in 0..7
  PROVE  2^j \in {1, 2, 4, 8, 16, 32, 64, 128} /\ 2^j \in Nat \ {0}
<1>1. j \in {0, 1, 2, 3, 4, 5, 6, 7}
  OBVIOUS
<1>2. 2^j \in {1, 2, 4, 8, 16, 32, 64, 128}
  <2>1. CASE j = 0
    BY <2>1, Powers
  <2>2. CASE j = 1
    BY <2>2, Powers
  <2>3. CASE j = 2
    BY <2>3, Powers
  <2>4. CASE j = 3
    BY <2>4, Powers
  <2>5. CASE j = 4
    BY <2>5, Powers
  <2>6. CASE j = 5
    BY <2>6, Powers
  <2>7. CASE j = 6
    BY <2>7, Powers
  <2>8. CASE j = 7
    BY <2>8, Powers
  <2>9. QED BY <1>1, <2>1, <2>2, <2>3, <2>4, <2>5, <2>6, <2>7, <2>8
<1>3. QED BY <1>2

\* Bit j of a byte, the lowest is bit 0.
BitOf(byte, j) == (byte \div 2^j) % 2

\* The bits of the lower half of a byte, by division.
LEMMA LowBits ==
  ASSUME NEW byte \in Nat
  PROVE  /\ BitOf(byte, 0) = byte % 2 /\ BitOf(byte, 1) = (byte \div 2) % 2
         /\ BitOf(byte, 2) = (byte \div 4) % 2 /\ BitOf(byte, 3) = (byte \div 8) % 2
<1>1. byte \div 1 = byte
  OBVIOUS
<1>2. QED BY <1>1, Powers DEF BitOf

\* The bits of the upper half.
LEMMA HighBits ==
  ASSUME NEW byte \in Nat
  PROVE  /\ BitOf(byte, 4) = (byte \div 16) % 2 /\ BitOf(byte, 5) = (byte \div 32) % 2
         /\ BitOf(byte, 6) = (byte \div 64) % 2 /\ BitOf(byte, 7) = (byte \div 128) % 2
BY Powers DEF BitOf

\* A bit is zero or one.
LEMMA BitOfNat ==
  ASSUME NEW byte \in Nat, NEW j \in 0..7
  PROVE  BitOf(byte, j) \in {0, 1}
<1>1. PICK m \in Nat \ {0} : m = 2^j
  BY PowerOf
<1>2. PICK d \in Nat : d = byte \div m
  OBVIOUS
<1>3. d % 2 \in {0, 1}
  OBVIOUS
<1>4. QED BY <1>1, <1>2, <1>3 DEF BitOf

\* Bit j of byte k of a sequence of bytes.
LEMMA BitsGive ==
  ASSUME NEW bytes \in Seq(Nat)
  PROVE  /\ Bits(bytes) \in Seq(Nat) /\ Len(Bits(bytes)) = 8 * Len(bytes)
         /\ \A k \in 1..Len(bytes), j \in 0..7 : Bits(bytes)[8 * (k - 1) + j + 1] = BitOf(bytes[k], j)
<1>1. PICK n \in Nat : n = 8 * Len(bytes)
  OBVIOUS
<1>2. Bits(bytes) = [i \in 1..n |-> BitOf(bytes[(i - 1) \div 8 + 1], (i - 1) % 8)]
  BY <1>1, Zenon DEF Bits, BitOf
<1>3. ASSUME NEW i \in 1..n
      PROVE  BitOf(bytes[(i - 1) \div 8 + 1], (i - 1) % 8) \in Nat
  <2>1. (i - 1) \div 8 + 1 \in 1..Len(bytes) /\ (i - 1) % 8 \in 0..7
    BY <1>1
  <2>2. PICK byte \in Nat : byte = bytes[(i - 1) \div 8 + 1]
    BY <2>1
  <2>3. BitOf(byte, (i - 1) % 8) \in {0, 1}
    BY <2>1, <2>2, BitOfNat
  <2>4. QED BY <2>2, <2>3
<1>4. ASSUME NEW k \in 1..Len(bytes), NEW j \in 0..7
      PROVE  Bits(bytes)[8 * (k - 1) + j + 1] = BitOf(bytes[k], j)
  <2>1. PICK i \in 1..n : i = 8 * (k - 1) + j + 1
    BY <1>1
  <2>2. (i - 1) \div 8 + 1 = k /\ (i - 1) % 8 = j
    BY <2>1
  <2>3. QED BY <1>2, <2>1, <2>2
<1>5. QED BY <1>1, <1>2, <1>3, <1>4

\* What is pushed first is a number.
LEMMA PendingIsNat ==
  ASSUME NEW obyte \in 0..255, NEW n \in 0..7
  PROVE  Pending(obyte, n) \in Nat
<1>1. PICK m \in Nat \ {0} : m = 2^n
  BY PowerOf
<1>2. obyte % m \in Nat
  BY <1>1
<1>3. QED BY <1>1, <1>2 DEF Pending

\* The bits left over are the low bits of what is pushed first, the others are zero.
LEMMA PendingGives ==
  ASSUME NEW obyte \in 0..255, NEW n \in 0..7, NEW j \in 0..7
  PROVE  BitOf(Pending(obyte, n), j) = IF j < n THEN BitOf(obyte, j) ELSE 0
<1>1. j \in {0, 1, 2, 3, 4, 5, 6, 7} /\ n \in {0, 1, 2, 3, 4, 5, 6, 7}
  OBVIOUS
<1>2. PICK b \in Nat, p \in Nat : b = obyte /\ p = Pending(obyte, n)
  <2>1. obyte \in Nat
    OBVIOUS
  <2>2. Pending(obyte, n) \in Nat
    BY PendingIsNat
  <2>3. QED BY <2>1, <2>2
<1>3. /\ BitOf(p, 0) = p % 2 /\ BitOf(p, 1) = (p \div 2) % 2
      /\ BitOf(p, 2) = (p \div 4) % 2 /\ BitOf(p, 3) = (p \div 8) % 2
      /\ BitOf(b, 0) = b % 2 /\ BitOf(b, 1) = (b \div 2) % 2
      /\ BitOf(b, 2) = (b \div 4) % 2 /\ BitOf(b, 3) = (b \div 8) % 2
  <2>1. /\ BitOf(p, 0) = p % 2 /\ BitOf(p, 1) = (p \div 2) % 2
        /\ BitOf(p, 2) = (p \div 4) % 2 /\ BitOf(p, 3) = (p \div 8) % 2
    BY <1>2, LowBits, Zenon
  <2>2. /\ BitOf(b, 0) = b % 2 /\ BitOf(b, 1) = (b \div 2) % 2
        /\ BitOf(b, 2) = (b \div 4) % 2 /\ BitOf(b, 3) = (b \div 8) % 2
    BY <1>2, LowBits, Zenon
  <2>3. QED BY <2>1, <2>2, Zenon
<1>4. /\ BitOf(p, 4) = (p \div 16) % 2 /\ BitOf(p, 5) = (p \div 32) % 2
      /\ BitOf(p, 6) = (p \div 64) % 2 /\ BitOf(p, 7) = (p \div 128) % 2
      /\ BitOf(b, 4) = (b \div 16) % 2 /\ BitOf(b, 5) = (b \div 32) % 2
      /\ BitOf(b, 6) = (b \div 64) % 2 /\ BitOf(b, 7) = (b \div 128) % 2
  <2>1. /\ BitOf(p, 4) = (p \div 16) % 2 /\ BitOf(p, 5) = (p \div 32) % 2
        /\ BitOf(p, 6) = (p \div 64) % 2 /\ BitOf(p, 7) = (p \div 128) % 2
    BY <1>2, HighBits, Zenon
  <2>2. /\ BitOf(b, 4) = (b \div 16) % 2 /\ BitOf(b, 5) = (b \div 32) % 2
        /\ BitOf(b, 6) = (b \div 64) % 2 /\ BitOf(b, 7) = (b \div 128) % 2
    BY <1>2, HighBits, Zenon
  <2>3. QED BY <2>1, <2>2, Zenon
<1>5. CASE n = 0
  <2>1. p = b % 1
    BY <1>2, <1>5, Powers DEF Pending
  <2>2. PICK q \in Nat : b = 1 * q + p /\ p \in 0..0
    BY <2>1
  <2>3. /\ p % 2 = 0 /\ (p \div 2) % 2 = 0
        /\ (p \div 4) % 2 = 0 /\ (p \div 8) % 2 = 0
    BY <2>2
  <2>4. /\ BitOf(p, 0) = 0 /\ BitOf(p, 1) = 0
        /\ BitOf(p, 2) = 0 /\ BitOf(p, 3) = 0
    <3>1. BitOf(p, 0) = 0 /\ BitOf(p, 1) = 0
      BY <1>3, <2>3, Zenon
    <3>2. BitOf(p, 2) = 0 /\ BitOf(p, 3) = 0
      BY <1>3, <2>3, Zenon
    <3>3. QED BY <3>1, <3>2
  <2>5. /\ (p \div 16) % 2 = 0 /\ (p \div 32) % 2 = 0
        /\ (p \div 64) % 2 = 0 /\ (p \div 128) % 2 = 0
    BY <2>2
  <2>6. /\ BitOf(p, 4) = 0 /\ BitOf(p, 5) = 0
        /\ BitOf(p, 6) = 0 /\ BitOf(p, 7) = 0
    <3>1. BitOf(p, 4) = 0 /\ BitOf(p, 5) = 0
      BY <1>4, <2>5, Zenon
    <3>2. BitOf(p, 6) = 0 /\ BitOf(p, 7) = 0
      BY <1>4, <2>5, Zenon
    <3>3. QED BY <3>1, <3>2
  <2>7. QED BY <1>1, <1>2, <1>5, <2>4, <2>6
<1>6. CASE n = 1
  <2>1. p = b % 2
    BY <1>2, <1>6, Powers DEF Pending
  <2>2. PICK q \in Nat : b = 2 * q + p /\ p \in 0..1
    BY <2>1
  <2>3. /\ p % 2 = b % 2 /\ (p \div 2) % 2 = 0
        /\ (p \div 4) % 2 = 0 /\ (p \div 8) % 2 = 0
    BY <2>2
  <2>4. /\ BitOf(p, 0) = BitOf(b, 0) /\ BitOf(p, 1) = 0
        /\ BitOf(p, 2) = 0 /\ BitOf(p, 3) = 0
    <3>1. BitOf(p, 0) = BitOf(b, 0) /\ BitOf(p, 1) = 0
      BY <1>3, <2>3, Zenon
    <3>2. BitOf(p, 2) = 0 /\ BitOf(p, 3) = 0
      BY <1>3, <2>3, Zenon
    <3>3. QED BY <3>1, <3>2
  <2>5. /\ (p \div 16) % 2 = 0 /\ (p \div 32) % 2 = 0
        /\ (p \div 64) % 2 = 0 /\ (p \div 128) % 2 = 0
    BY <2>2
  <2>6. /\ BitOf(p, 4) = 0 /\ BitOf(p, 5) = 0
        /\ BitOf(p, 6) = 0 /\ BitOf(p, 7) = 0
    <3>1. BitOf(p, 4) = 0 /\ BitOf(p, 5) = 0
      BY <1>4, <2>5, Zenon
    <3>2. BitOf(p, 6) = 0 /\ BitOf(p, 7) = 0
      BY <1>4, <2>5, Zenon
    <3>3. QED BY <3>1, <3>2
  <2>7. QED BY <1>1, <1>2, <1>6, <2>4, <2>6
<1>7. CASE n = 2
  <2>1. p = b % 4
    BY <1>2, <1>7, Powers DEF Pending
  <2>2. PICK q \in Nat : b = 4 * q + p /\ p \in 0..3
    BY <2>1
  <2>3. /\ p % 2 = b % 2 /\ (p \div 2) % 2 = (b \div 2) % 2
        /\ (p \div 4) % 2 = 0 /\ (p \div 8) % 2 = 0
    BY <2>2
  <2>4. /\ BitOf(p, 0) = BitOf(b, 0) /\ BitOf(p, 1) = BitOf(b, 1)
        /\ BitOf(p, 2) = 0 /\ BitOf(p, 3) = 0
    <3>1. BitOf(p, 0) = BitOf(b, 0) /\ BitOf(p, 1) = BitOf(b, 1)
      BY <1>3, <2>3, Zenon
    <3>2. BitOf(p, 2) = 0 /\ BitOf(p, 3) = 0
      BY <1>3, <2>3, Zenon
    <3>3. QED BY <3>1, <3>2
  <2>5. /\ (p \div 16) % 2 = 0 /\ (p \div 32) % 2 = 0
        /\ (p \div 64) % 2 = 0 /\ (p \div 128) % 2 = 0
    BY <2>2
  <2>6. /\ BitOf(p, 4) = 0 /\ BitOf(p, 5) = 0
        /\ BitOf(p, 6) = 0 /\ BitOf(p, 7) = 0
    <3>1. BitOf(p, 4) = 0 /\ BitOf(p, 5) = 0
      BY <1>4, <2>5, Zenon
    <3>2. BitOf(p, 6) = 0 /\ BitOf(p, 7) = 0
      BY <1>4, <2>5, Zenon
    <3>3. QED BY <3>1, <3>2
  <2>7. QED BY <1>1, <1>2, <1>7, <2>4, <2>6
<1>8. CASE n = 3
  <2>1. p = b % 8
    BY <1>2, <1>8, Powers DEF Pending
  <2>2. PICK q \in Nat : b = 8 * q + p /\ p \in 0..7
    BY <2>1
  <2>3. /\ p % 2 = b % 2 /\ (p \div 2) % 2 = (b \div 2) % 2
        /\ (p \div 4) % 2 = (b \div 4) % 2 /\ (p \div 8) % 2 = 0
    BY <2>2
  <2>4. /\ BitOf(p, 0) = BitOf(b, 0) /\ BitOf(p, 1) = BitOf(b, 1)
        /\ BitOf(p, 2) = BitOf(b, 2) /\ BitOf(p, 3) = 0
    <3>1. BitOf(p, 0) = BitOf(b, 0) /\ BitOf(p, 1) = BitOf(b, 1)
      BY <1>3, <2>3, Zenon
    <3>2. BitOf(p, 2) = BitOf(b, 2) /\ BitOf(p, 3) = 0
      BY <1>3, <2>3, Zenon
    <3>3. QED BY <3>1, <3>2
  <2>5. /\ (p \div 16) % 2 = 0 /\ (p \div 32) % 2 = 0
        /\ (p \div 64) % 2 = 0 /\ (p \div 128) % 2 = 0
    BY <2>2
  <2>6. /\ BitOf(p, 4) = 0 /\ BitOf(p, 5) = 0
        /\ BitOf(p, 6) = 0 /\ BitOf(p, 7) = 0
    <3>1. BitOf(p, 4) = 0 /\ BitOf(p, 5) = 0
      BY <1>4, <2>5, Zenon
    <3>2. BitOf(p, 6) = 0 /\ BitOf(p, 7) = 0
      BY <1>4, <2>5, Zenon
    <3>3. QED BY <3>1, <3>2
  <2>7. QED BY <1>1, <1>2, <1>8, <2>4, <2>6
<1>9. CASE n = 4
  <2>1. p = b % 16
    BY <1>2, <1>9, Powers DEF Pending
  <2>2. PICK q \in Nat : b = 16 * q + p /\ p \in 0..15
    BY <2>1
  <2>3. /\ p % 2 = b % 2 /\ (p \div 2) % 2 = (b \div 2) % 2
        /\ (p \div 4) % 2 = (b \div 4) % 2 /\ (p \div 8) % 2 = (b \div 8) % 2
    BY <2>2
  <2>4. /\ BitOf(p, 0) = BitOf(b, 0) /\ BitOf(p, 1) = BitOf(b, 1)
        /\ BitOf(p, 2) = BitOf(b, 2) /\ BitOf(p, 3) = BitOf(b, 3)
    <3>1. BitOf(p, 0) = BitOf(b, 0) /\ BitOf(p, 1) = BitOf(b, 1)
      BY <1>3, <2>3, Zenon
    <3>2. BitOf(p, 2) = BitOf(b, 2) /\ BitOf(p, 3) = BitOf(b, 3)
      BY <1>3, <2>3, Zenon
    <3>3. QED BY <3>1, <3>2
  <2>5. /\ (p \div 16) % 2 = 0 /\ (p \div 32) % 2 = 0
        /\ (p \div 64) % 2 = 0 /\ (p \div 128) % 2 = 0
    BY <2>2
  <2>6. /\ BitOf(p, 4) = 0 /\ BitOf(p, 5) = 0
        /\ BitOf(p, 6) = 0 /\ BitOf(p, 7) = 0
    <3>1. BitOf(p, 4) = 0 /\ BitOf(p, 5) = 0
      BY <1>4, <2>5, Zenon
    <3>2. BitOf(p, 6) = 0 /\ BitOf(p, 7) = 0
      BY <1>4, <2>5, Zenon
    <3>3. QED BY <3>1, <3>2
  <2>7. QED BY <1>1, <1>2, <1>9, <2>4, <2>6
<1>10. CASE n = 5
  <2>1. p = b % 32
    BY <1>2, <1>10, Powers DEF Pending
  <2>2. PICK q \in Nat : b = 32 * q + p /\ p \in 0..31
    BY <2>1
  <2>3. /\ p % 2 = b % 2 /\ (p \div 2) % 2 = (b \div 2) % 2
        /\ (p \div 4) % 2 = (b \div 4) % 2 /\ (p \div 8) % 2 = (b \div 8) % 2
    BY <2>2
  <2>4. /\ BitOf(p, 0) = BitOf(b, 0) /\ BitOf(p, 1) = BitOf(b, 1)
        /\ BitOf(p, 2) = BitOf(b, 2) /\ BitOf(p, 3) = BitOf(b, 3)
    <3>1. BitOf(p, 0) = BitOf(b, 0) /\ BitOf(p, 1) = BitOf(b, 1)
      BY <1>3, <2>3, Zenon
    <3>2. BitOf(p, 2) = BitOf(b, 2) /\ BitOf(p, 3) = BitOf(b, 3)
      BY <1>3, <2>3, Zenon
    <3>3. QED BY <3>1, <3>2
  <2>5. /\ (p \div 16) % 2 = (b \div 16) % 2 /\ (p \div 32) % 2 = 0
        /\ (p \div 64) % 2 = 0 /\ (p \div 128) % 2 = 0
    BY <2>2
  <2>6. /\ BitOf(p, 4) = BitOf(b, 4) /\ BitOf(p, 5) = 0
        /\ BitOf(p, 6) = 0 /\ BitOf(p, 7) = 0
    <3>1. BitOf(p, 4) = BitOf(b, 4) /\ BitOf(p, 5) = 0
      BY <1>4, <2>5, Zenon
    <3>2. BitOf(p, 6) = 0 /\ BitOf(p, 7) = 0
      BY <1>4, <2>5, Zenon
    <3>3. QED BY <3>1, <3>2
  <2>7. QED BY <1>1, <1>2, <1>10, <2>4, <2>6
<1>11. CASE n = 6
  <2>1. p = b % 64
    BY <1>2, <1>11, Powers DEF Pending
  <2>2. PICK q \in Nat : b = 64 * q + p /\ p \in 0..63
    BY <2>1
  <2>3. /\ p % 2 = b % 2 /\ (p \div 2) % 2 = (b \div 2) % 2
        /\ (p \div 4) % 2 = (b \div 4) % 2 /\ (p \div 8) % 2 = (b \div 8) % 2
    BY <2>2
  <2>4. /\ BitOf(p, 0) = BitOf(b, 0) /\ BitOf(p, 1) = BitOf(b, 1)
        /\ BitOf(p, 2) = BitOf(b, 2) /\ BitOf(p, 3) = BitOf(b, 3)
    <3>1. BitOf(p, 0) = BitOf(b, 0) /\ BitOf(p, 1) = BitOf(b, 1)
      BY <1>3, <2>3, Zenon
    <3>2. BitOf(p, 2) = BitOf(b, 2) /\ BitOf(p, 3) = BitOf(b, 3)
      BY <1>3, <2>3, Zenon
    <3>3. QED BY <3>1, <3>2
  <2>5. /\ (p \div 16) % 2 = (b \div 16) % 2 /\ (p \div 32) % 2 = (b \div 32) % 2
        /\ (p \div 64) % 2 = 0 /\ (p \div 128) % 2 = 0
    BY <2>2
  <2>6. /\ BitOf(p, 4) = BitOf(b, 4) /\ BitOf(p, 5) = BitOf(b, 5)
        /\ BitOf(p, 6) = 0 /\ BitOf(p, 7) = 0
    <3>1. BitOf(p, 4) = BitOf(b, 4) /\ BitOf(p, 5) = BitOf(b, 5)
      BY <1>4, <2>5, Zenon
    <3>2. BitOf(p, 6) = 0 /\ BitOf(p, 7) = 0
      BY <1>4, <2>5, Zenon
    <3>3. QED BY <3>1, <3>2
  <2>7. QED BY <1>1, <1>2, <1>11, <2>4, <2>6
<1>12. CASE n = 7
  <2>1. p = b % 128
    BY <1>2, <1>12, Powers DEF Pending
  <2>2. PICK q \in Nat : b = 128 * q + p /\ p \in 0..127
    BY <2>1
  <2>3. /\ p % 2 = b % 2 /\ (p \div 2) % 2 = (b \div 2) % 2
        /\ (p \div 4) % 2 = (b \div 4) % 2 /\ (p \div 8) % 2 = (b \div 8) % 2
    BY <2>2
  <2>4. /\ BitOf(p, 0) = BitOf(b, 0) /\ BitOf(p, 1) = BitOf(b, 1)
        /\ BitOf(p, 2) = BitOf(b, 2) /\ BitOf(p, 3) = BitOf(b, 3)
    <3>1. BitOf(p, 0) = BitOf(b, 0) /\ BitOf(p, 1) = BitOf(b, 1)
      BY <1>3, <2>3, Zenon
    <3>2. BitOf(p, 2) = BitOf(b, 2) /\ BitOf(p, 3) = BitOf(b, 3)
      BY <1>3, <2>3, Zenon
    <3>3. QED BY <3>1, <3>2
  <2>5. /\ (p \div 16) % 2 = (b \div 16) % 2 /\ (p \div 32) % 2 = (b \div 32) % 2
        /\ (p \div 64) % 2 = (b \div 64) % 2 /\ (p \div 128) % 2 = 0
    BY <2>2
  <2>6. /\ BitOf(p, 4) = BitOf(b, 4) /\ BitOf(p, 5) = BitOf(b, 5)
        /\ BitOf(p, 6) = BitOf(b, 6) /\ BitOf(p, 7) = 0
    <3>1. BitOf(p, 4) = BitOf(b, 4) /\ BitOf(p, 5) = BitOf(b, 5)
      BY <1>4, <2>5, Zenon
    <3>2. BitOf(p, 6) = BitOf(b, 6) /\ BitOf(p, 7) = 0
      BY <1>4, <2>5, Zenon
    <3>3. QED BY <3>1, <3>2
  <2>7. QED BY <1>1, <1>2, <1>12, <2>4, <2>6
<1>13. QED BY <1>1, <1>5, <1>6, <1>7, <1>8, <1>9, <1>10, <1>11, <1>12

\* The start of the final block in the middle byte: two ones, the first of them behind bit
\* n - 2, where the marker before it ends.
FinalBlock(n) == (3 * 2^(n-1)) % 256

\* Its bits.
LEMMA OnesGive ==
  ASSUME NEW n \in 1..7, NEW j \in 0..7
  PROVE  FinalBlock(n) \in Nat /\ BitOf(FinalBlock(n), j) = IF j = n - 1 \/ j = n THEN 1 ELSE 0
<1>1. j \in {0, 1, 2, 3, 4, 5, 6, 7} /\ n \in {1, 2, 3, 4, 5, 6, 7}
  OBVIOUS
<1>2. CASE n = 1
  <2>1. FinalBlock(n) = 3
    BY <1>2, Powers DEF FinalBlock
  <2>2. /\ BitOf(3, 0) = 1 /\ BitOf(3, 1) = 1 /\ BitOf(3, 2) = 0 /\ BitOf(3, 3) = 0
        /\ BitOf(3, 4) = 0 /\ BitOf(3, 5) = 0 /\ BitOf(3, 6) = 0 /\ BitOf(3, 7) = 0
    BY LowBits, HighBits
  <2>3. QED BY <1>1, <1>2, <2>1, <2>2
<1>3. CASE n = 2
  <2>1. FinalBlock(n) = 6
    BY <1>3, Powers DEF FinalBlock
  <2>2. /\ BitOf(6, 0) = 0 /\ BitOf(6, 1) = 1 /\ BitOf(6, 2) = 1 /\ BitOf(6, 3) = 0
        /\ BitOf(6, 4) = 0 /\ BitOf(6, 5) = 0 /\ BitOf(6, 6) = 0 /\ BitOf(6, 7) = 0
    BY LowBits, HighBits
  <2>3. QED BY <1>1, <1>3, <2>1, <2>2
<1>4. CASE n = 3
  <2>1. FinalBlock(n) = 12
    BY <1>4, Powers DEF FinalBlock
  <2>2. /\ BitOf(12, 0) = 0 /\ BitOf(12, 1) = 0 /\ BitOf(12, 2) = 1 /\ BitOf(12, 3) = 1
        /\ BitOf(12, 4) = 0 /\ BitOf(12, 5) = 0 /\ BitOf(12, 6) = 0 /\ BitOf(12, 7) = 0
    BY LowBits, HighBits
  <2>3. QED BY <1>1, <1>4, <2>1, <2>2
<1>5. CASE n = 4
  <2>1. FinalBlock(n) = 24
    BY <1>5, Powers DEF FinalBlock
  <2>2. /\ BitOf(24, 0) = 0 /\ BitOf(24, 1) = 0 /\ BitOf(24, 2) = 0 /\ BitOf(24, 3) = 1
        /\ BitOf(24, 4) = 1 /\ BitOf(24, 5) = 0 /\ BitOf(24, 6) = 0 /\ BitOf(24, 7) = 0
    BY LowBits, HighBits
  <2>3. QED BY <1>1, <1>5, <2>1, <2>2
<1>6. CASE n = 5
  <2>1. FinalBlock(n) = 48
    BY <1>6, Powers DEF FinalBlock
  <2>2. /\ BitOf(48, 0) = 0 /\ BitOf(48, 1) = 0 /\ BitOf(48, 2) = 0 /\ BitOf(48, 3) = 0
        /\ BitOf(48, 4) = 1 /\ BitOf(48, 5) = 1 /\ BitOf(48, 6) = 0 /\ BitOf(48, 7) = 0
    BY LowBits, HighBits
  <2>3. QED BY <1>1, <1>6, <2>1, <2>2
<1>7. CASE n = 6
  <2>1. FinalBlock(n) = 96
    BY <1>7, Powers DEF FinalBlock
  <2>2. /\ BitOf(96, 0) = 0 /\ BitOf(96, 1) = 0 /\ BitOf(96, 2) = 0 /\ BitOf(96, 3) = 0
        /\ BitOf(96, 4) = 0 /\ BitOf(96, 5) = 1 /\ BitOf(96, 6) = 1 /\ BitOf(96, 7) = 0
    BY LowBits, HighBits
  <2>3. QED BY <1>1, <1>7, <2>1, <2>2
<1>8. CASE n = 7
  <2>1. FinalBlock(n) = 192
    BY <1>8, Powers DEF FinalBlock
  <2>2. /\ BitOf(192, 0) = 0 /\ BitOf(192, 1) = 0 /\ BitOf(192, 2) = 0 /\ BitOf(192, 3) = 0
        /\ BitOf(192, 4) = 0 /\ BitOf(192, 5) = 0 /\ BitOf(192, 6) = 1 /\ BitOf(192, 7) = 1
    BY LowBits, HighBits
  <2>3. QED BY <1>1, <1>8, <2>1, <2>2
<1>9. QED BY <1>1, <1>2, <1>3, <1>4, <1>5, <1>6, <1>7, <1>8

\* Bytes whose bits are known.
LEMMA PlainBytes ==
  ASSUME NEW j \in 0..7
  PROVE  /\ BitOf(0, j) = 0 /\ BitOf(255, j) = 1
         /\ BitOf(128, j) = IF j = 7 THEN 1 ELSE 0
         /\ BitOf(1, j) = IF j = 0 THEN 1 ELSE 0
<1>1. j \in {0, 1, 2, 3, 4, 5, 6, 7}
  OBVIOUS
<1>2. /\ BitOf(0, 0) = 0 /\ BitOf(0, 1) = 0 /\ BitOf(0, 2) = 0 /\ BitOf(0, 3) = 0
      /\ BitOf(0, 4) = 0 /\ BitOf(0, 5) = 0 /\ BitOf(0, 6) = 0 /\ BitOf(0, 7) = 0
  BY LowBits, HighBits
<1>3. /\ BitOf(255, 0) = 1 /\ BitOf(255, 1) = 1 /\ BitOf(255, 2) = 1 /\ BitOf(255, 3) = 1
      /\ BitOf(255, 4) = 1 /\ BitOf(255, 5) = 1 /\ BitOf(255, 6) = 1 /\ BitOf(255, 7) = 1
  BY LowBits, HighBits
<1>4. /\ BitOf(128, 0) = 0 /\ BitOf(128, 1) = 0 /\ BitOf(128, 2) = 0 /\ BitOf(128, 3) = 0
      /\ BitOf(128, 4) = 0 /\ BitOf(128, 5) = 0 /\ BitOf(128, 6) = 0 /\ BitOf(128, 7) = 1
  BY LowBits, HighBits
<1>5. /\ BitOf(1, 0) = 1 /\ BitOf(1, 1) = 0 /\ BitOf(1, 2) = 0 /\ BitOf(1, 3) = 0
      /\ BitOf(1, 4) = 0 /\ BitOf(1, 5) = 0 /\ BitOf(1, 6) = 0 /\ BitOf(1, 7) = 0
  BY LowBits, HighBits
<1>6. QED BY <1>1, <1>2, <1>3, <1>4, <1>5

\* The place of a bit in a sequence of bytes.
LEMMA PlaceOf ==
  ASSUME NEW len \in Nat, NEW i \in 1..(8 * len)
  PROVE  \E k \in 1..len, j \in 0..7 : i = 8 * (k - 1) + j + 1
<1>1. PICK k \in 1..len : k = (i - 1) \div 8 + 1
  OBVIOUS
<1>2. PICK j \in 0..7 : j = (i - 1) % 8
  OBVIOUS
<1>3. i = 8 * (k - 1) + j + 1
  BY <1>1, <1>2
<1>4. QED BY <1>3

\* Bit i of the bytes of deflate_write_eob: the bits left over, two ones behind them and
\* the marker, otherwise zeros.
EobBit(obyte, n, i) ==
  IF i <= n THEN BitOf(obyte, i - 1) ELSE IF i = n + 8 \/ i = n + 9 THEN 1 ELSE 0

\* deflate_write_eob pushes three bytes, of these bits.
LEMMA EobBytesGive ==
  ASSUME NEW obyte \in 0..255, NEW n \in 0..7
  PROVE  LET str == Bits(EobBytes(obyte, n))
         IN  str \in Seq(Nat) /\ Len(str) = 24 /\ \A i \in 1..24 : str[i] = EobBit(obyte, n, i)
<1>1. PICK first \in Nat, second \in Nat : EobBytes(obyte, n) = <<first, second, 0>>
          /\ \A j \in 0..7 : /\ BitOf(first, j) = EobBit(obyte, n, j + 1)
                             /\ BitOf(second, j) = EobBit(obyte, n, j + 9)
  <2>1. CASE n = 0
    <3>1. EobBytes(obyte, n) = <<128, 1, 0>>
      BY <2>1 DEF EobBytes
    <3>2. ASSUME NEW j \in 0..7
          PROVE  BitOf(128, j) = EobBit(obyte, n, j + 1) /\ BitOf(1, j) = EobBit(obyte, n, j + 9)
      BY <2>1, PlainBytes DEF EobBit
    <3>3. QED BY <3>1, <3>2
  <2>2. CASE n # 0
    <3>1. PICK p, q : p = Pending(obyte, n) /\ q = FinalBlock(n)
      OBVIOUS
    <3>2. EobBytes(obyte, n) = <<p, q, 0>>
      BY <2>2, <3>1 DEF EobBytes, FinalBlock
    <3>3. ASSUME NEW j \in 0..7
          PROVE  /\ p \in Nat /\ q \in Nat
                 /\ BitOf(p, j) = IF j < n THEN BitOf(obyte, j) ELSE 0
                 /\ BitOf(q, j) = IF j = n - 1 \/ j = n THEN 1 ELSE 0
      <4>1. n \in 1..7
        BY <2>2
      <4>2. p \in Nat /\ BitOf(p, j) = IF j < n THEN BitOf(obyte, j) ELSE 0
        BY <3>1, PendingGives, PendingIsNat
      <4>3. q \in Nat /\ BitOf(q, j) = IF j = n - 1 \/ j = n THEN 1 ELSE 0
        BY <3>1, <4>1, OnesGive
      <4>4. QED BY <4>2, <4>3
    <3>4. p \in Nat /\ q \in Nat
      BY <3>3
    <3>5. ASSUME NEW j \in 0..7
          PROVE  BitOf(p, j) = EobBit(obyte, n, j + 1) /\ BitOf(q, j) = EobBit(obyte, n, j + 9)
      <4>1. j + 1 - 1 = j /\ (j + 1 <= n <=> j < n) /\ j + 1 # n + 8 /\ j + 1 # n + 9 /\ ~(j + 9 <= n)
            /\ (j + 9 = n + 8 <=> j = n - 1) /\ (j + 9 = n + 9 <=> j = n)
        BY <2>2
      <4>2. QED BY <3>3, <4>1 DEF EobBit
    <3>6. QED BY <3>2, <3>4, <3>5
  <2>3. QED BY <2>1, <2>2
<1>2. PICK bytes \in Seq(Nat) : /\ bytes = EobBytes(obyte, n) /\ Len(bytes) = 3
                                /\ bytes[1] = first /\ bytes[2] = second /\ bytes[3] = 0
  <2>1. EobBytes(obyte, n) = <<first, second, 0>>
    BY <1>1
  <2>2. PICK bytes : bytes = <<first, second, 0>>
    OBVIOUS
  <2>3. /\ bytes \in Seq(Nat) /\ Len(bytes) = 3
        /\ bytes[1] = first /\ bytes[2] = second /\ bytes[3] = 0
    BY <2>2
  <2>4. QED BY <2>1, <2>2, <2>3
<1>3. PICK str : str = Bits(bytes)
  OBVIOUS
<1>4. /\ str \in Seq(Nat) /\ Len(str) = 24
      /\ \A k \in 1..3, j \in 0..7 : str[8 * (k - 1) + j + 1] = BitOf(bytes[k], j)
  <2>1. /\ Bits(bytes) \in Seq(Nat) /\ Len(Bits(bytes)) = 8 * Len(bytes)
        /\ \A k \in 1..Len(bytes), j \in 0..7 : Bits(bytes)[8 * (k - 1) + j + 1] = BitOf(bytes[k], j)
    BY BitsGive
  <2>2. QED BY <1>2, <1>3, <2>1
<1>5. ASSUME NEW i \in 1..24
      PROVE  str[i] = EobBit(obyte, n, i)
  <2>1. PICK k \in 1..3, j \in 0..7 : i = 8 * (k - 1) + j + 1
    BY PlaceOf
  <2>2. str[i] = BitOf(bytes[k], j)
    BY <1>4, <2>1
  <2>3. CASE k = 1
    BY <1>1, <1>2, <2>1, <2>2, <2>3
  <2>4. CASE k = 2
    BY <1>1, <1>2, <2>1, <2>2, <2>4
  <2>5. CASE k = 3
    <3>1. str[i] = 0
      BY <1>2, <2>2, <2>5, PlainBytes
    <3>2. ~(i <= n) /\ i # n + 8 /\ i # n + 9
      BY <2>1, <2>5
    <3>3. QED BY <3>1, <3>2 DEF EobBit
  <2>6. QED BY <2>3, <2>4, <2>5
<1>6. QED BY <1>2, <1>3, <1>4, <1>5

\* Bit i of the bytes of deflate_sync_flush, of m bits: the bits left over, zeros, and the
\* complement of the length.
SyncBit(obyte, n, m, i) ==
  IF i <= n THEN BitOf(obyte, i - 1) ELSE IF i > m - 16 THEN 1 ELSE 0

\* The pieces that deflate_sync_flush pushes, as one sequence.
LEMMA TwoAndFour ==
  ASSUME NEW x \in Nat, NEW y \in Nat
  PROVE  <<x, y>> \o <<0, 0, 255, 255>> = <<x, y, 0, 0, 255, 255>>
<1>1. PICK a, e, u : a = <<x, y>> /\ e = <<0, 0, 255, 255>> /\ u = <<x, y, 0, 0, 255, 255>>
  OBVIOUS
<1>2. /\ a \in Seq(Nat) /\ Len(a) = 2 /\ a[1] = x /\ a[2] = y
      /\ e \in Seq(Nat) /\ Len(e) = 4 /\ e[1] = 0 /\ e[2] = 0 /\ e[3] = 255 /\ e[4] = 255
  BY <1>1
<1>3. /\ u \in Seq(Nat) /\ Len(u) = 6
      /\ u[1] = x /\ u[2] = y /\ u[3] = 0 /\ u[4] = 0 /\ u[5] = 255 /\ u[6] = 255
  BY <1>1
<1>4. PICK t : t = a \o e
  OBVIOUS
<1>5. t = a \o e /\ a \in Seq(Nat) /\ e \in Seq(Nat)
  BY <1>2, <1>4
<1>6. t \in Seq(Nat) /\ Len(t) = Len(a) + Len(e)
  BY <1>5
<1>7. \A i \in 1..Len(a) : t[i] = a[i]
  BY <1>5
<1>8. \A i \in 1..Len(e) : t[Len(a) + i] = e[i]
  BY <1>5
<1>9. /\ Len(t) = 6
      /\ \A i \in 1..2 : t[i] = a[i]
      /\ \A i \in 1..4 : t[2 + i] = e[i]
  BY <1>2, <1>6, <1>7, <1>8
<1>10. t[1] = x /\ t[2] = y /\ t[3] = 0 /\ t[4] = 0 /\ t[5] = 255 /\ t[6] = 255
  BY <1>2, <1>9
<1>11. t = u
  <2>1. \A i \in 1..6 : t[i] = u[i]
    BY <1>3, <1>10
  <2>2. t \in Seq(Nat) /\ Len(t) = 6 /\ u \in Seq(Nat) /\ Len(u) = 6
    BY <1>3, <1>6, <1>9
  <2>3. t = [i \in 1..6 |-> t[i]] /\ u = [i \in 1..6 |-> u[i]]
    BY <2>2
  <2>4. QED BY <2>1, <2>3
<1>12. QED BY <1>1, <1>4, <1>11, Zenon

\* Two bytes and the third one.
LEMMA TwoAndOne ==
  ASSUME NEW x \in Nat, NEW y \in Nat, NEW c \in Nat
  PROVE  <<x, y>> \o <<c>> = <<x, y, c>>
<1>1. PICK a, e, u : a = <<x, y>> /\ e = <<c>> /\ u = <<x, y, c>>
  OBVIOUS
<1>2. /\ a \in Seq(Nat) /\ Len(a) = 2 /\ a[1] = x /\ a[2] = y
      /\ e \in Seq(Nat) /\ Len(e) = 1 /\ e[1] = c
  BY <1>1
<1>3. /\ u \in Seq(Nat) /\ Len(u) = 3
      /\ u[1] = x /\ u[2] = y /\ u[3] = c
  BY <1>1
<1>4. PICK t : t = a \o e
  OBVIOUS
<1>5. t = a \o e /\ a \in Seq(Nat) /\ e \in Seq(Nat)
  BY <1>2, <1>4
<1>6. t \in Seq(Nat) /\ Len(t) = Len(a) + Len(e)
  BY <1>5
<1>7. \A i \in 1..Len(a) : t[i] = a[i]
  BY <1>5
<1>8. \A i \in 1..Len(e) : t[Len(a) + i] = e[i]
  BY <1>5
<1>9. /\ Len(t) = 3
      /\ \A i \in 1..2 : t[i] = a[i]
      /\ \A i \in 1..1 : t[2 + i] = e[i]
  BY <1>2, <1>6, <1>7, <1>8
<1>10. t[1] = x /\ t[2] = y /\ t[3] = c
  BY <1>2, <1>9
<1>11. t = u
  <2>1. \A i \in 1..3 : t[i] = u[i]
    BY <1>3, <1>10
  <2>2. t \in Seq(Nat) /\ Len(t) = 3 /\ u \in Seq(Nat) /\ Len(u) = 3
    BY <1>3, <1>6, <1>9
  <2>3. t = [i \in 1..3 |-> t[i]] /\ u = [i \in 1..3 |-> u[i]]
    BY <2>2
  <2>4. QED BY <2>1, <2>3
<1>12. QED BY <1>1, <1>4, <1>11, Zenon

\* Three bytes and the length with its complement.
LEMMA ThreeAndFour ==
  ASSUME NEW x \in Nat, NEW y \in Nat, NEW c \in Nat
  PROVE  <<x, y, c>> \o <<0, 0, 255, 255>> = <<x, y, c, 0, 0, 255, 255>>
<1>1. PICK a, e, u : a = <<x, y, c>> /\ e = <<0, 0, 255, 255>> /\ u = <<x, y, c, 0, 0, 255, 255>>
  OBVIOUS
<1>2. /\ a \in Seq(Nat) /\ Len(a) = 3 /\ a[1] = x /\ a[2] = y /\ a[3] = c
      /\ e \in Seq(Nat) /\ Len(e) = 4 /\ e[1] = 0 /\ e[2] = 0 /\ e[3] = 255 /\ e[4] = 255
  BY <1>1
<1>3. /\ u \in Seq(Nat) /\ Len(u) = 7
      /\ u[1] = x /\ u[2] = y /\ u[3] = c /\ u[4] = 0 /\ u[5] = 0 /\ u[6] = 255 /\ u[7] = 255
  BY <1>1
<1>4. PICK t : t = a \o e
  OBVIOUS
<1>5. t = a \o e /\ a \in Seq(Nat) /\ e \in Seq(Nat)
  BY <1>2, <1>4
<1>6. t \in Seq(Nat) /\ Len(t) = Len(a) + Len(e)
  BY <1>5
<1>7. \A i \in 1..Len(a) : t[i] = a[i]
  BY <1>5
<1>8. \A i \in 1..Len(e) : t[Len(a) + i] = e[i]
  BY <1>5
<1>9. /\ Len(t) = 7
      /\ \A i \in 1..3 : t[i] = a[i]
      /\ \A i \in 1..4 : t[3 + i] = e[i]
  BY <1>2, <1>6, <1>7, <1>8
<1>10. t[1] = x /\ t[2] = y /\ t[3] = c /\ t[4] = 0 /\ t[5] = 0 /\ t[6] = 255 /\ t[7] = 255
  BY <1>2, <1>9
<1>11. t = u
  <2>1. \A i \in 1..7 : t[i] = u[i]
    BY <1>3, <1>10
  <2>2. t \in Seq(Nat) /\ Len(t) = 7 /\ u \in Seq(Nat) /\ Len(u) = 7
    BY <1>3, <1>6, <1>9
  <2>3. t = [i \in 1..7 |-> t[i]] /\ u = [i \in 1..7 |-> u[i]]
    BY <2>2
  <2>4. QED BY <2>1, <2>3
<1>12. QED BY <1>1, <1>4, <1>11, Zenon

\* The bits of a sync marker: six bytes, or seven when the third zero bit falls in the next.
SyncLen(n) == IF n > 6 THEN 56 ELSE 48

\* The bits of a sync marker are those of the byte left over, zeros and sixteen ones.
SyncSays(obyte, n) ==
  LET str == Bits(SyncBytes(obyte, n))
  IN  /\ str \in Seq(Nat) /\ Len(str) = SyncLen(n)
      /\ \A i \in 1..SyncLen(n) : str[i] = SyncBit(obyte, n, SyncLen(n), i)

\* deflate_sync_flush pushes bytes of these bits, with any bits left over.
LEMMA SyncBytesGive ==
  \A obyte \in 0..255, n \in 0..7 : SyncSays(obyte, n)
<1> SUFFICES ASSUME NEW obyte \in 0..255, NEW n \in 0..7
             PROVE  SyncSays(obyte, n)
  OBVIOUS
<1>1. PICK m \in {48, 56} : m = SyncLen(n) /\ m = IF n > 6 THEN 56 ELSE 48
  BY DEF SyncLen
<1>2. PICK p : p = Pending(obyte, n)
  OBVIOUS
<1>3. p \in Nat /\ \A j \in 0..7 : BitOf(p, j) = IF j < n THEN BitOf(obyte, j) ELSE 0
  <2>1. Pending(obyte, n) \in Nat
    BY PendingIsNat
  <2>2. ASSUME NEW j \in 0..7
        PROVE  BitOf(Pending(obyte, n), j) = IF j < n THEN BitOf(obyte, j) ELSE 0
    BY PendingGives
  <2>3. QED BY <1>2, <2>1, <2>2
<1>4. n = 0 => p = 0
  BY <1>2, Powers DEF Pending
<1>5. PICK len \in {6, 7} : len = IF n > 6 THEN 7 ELSE 6
  OBVIOUS
<1>6. PICK bytes \in Seq(Nat) :
        /\ bytes = SyncBytes(obyte, n) /\ Len(bytes) = len /\ bytes[1] = p
        /\ \A k \in 2..(len - 2) : bytes[k] = 0
        /\ bytes[len - 1] = 255 /\ bytes[len] = 255
  <2>1. CASE n = 0
    <3>1. SyncBytes(obyte, n) = <<0, 0, 0, 0, 255, 255>>
      <4>1. SyncBytes(obyte, n) = <<0, 0>> \o <<0, 0, 255, 255>>
        BY <2>1 DEF SyncBytes
      <4>2. QED BY <4>1, TwoAndFour
    <3>2. PICK b : b = <<0, 0, 0, 0, 255, 255>>
      OBVIOUS
    <3>3. /\ b \in Seq(Nat) /\ Len(b) = 6 /\ b[1] = p /\ b[2] = 0 /\ b[3] = 0 /\ b[4] = 0
          /\ b[5] = 255 /\ b[6] = 255
      BY <1>3, <1>4, <2>1, <3>2
    <3>4. \A k \in 2..4 : b[k] = 0
      BY <3>3
    <3>5. len = 6 /\ len - 2 = 4 /\ len - 1 = 5
      BY <1>5, <2>1
    <3>6. b = SyncBytes(obyte, n)
      BY <3>1, <3>2, Zenon
    <3>7. QED BY <3>3, <3>4, <3>5, <3>6
  <2>2. CASE n # 0 /\ n <= 6
    <3>1. SyncBytes(obyte, n) = <<p, 0, 0, 0, 255, 255>>
      <4>1. SyncBytes(obyte, n) = (<<p, 0>> \o <<>>) \o <<0, 0, 255, 255>>
        BY <1>2, <2>2 DEF SyncBytes
      <4>2. <<p, 0>> \o <<>> = <<p, 0>>
        BY <1>3
      <4>3. <<p, 0>> \o <<0, 0, 255, 255>> = <<p, 0, 0, 0, 255, 255>>
        BY <1>3, TwoAndFour
      <4>4. QED BY <4>1, <4>2, <4>3
    <3>2. PICK b : b = <<p, 0, 0, 0, 255, 255>>
      OBVIOUS
    <3>3. /\ b \in Seq(Nat) /\ Len(b) = 6 /\ b[1] = p /\ b[2] = 0 /\ b[3] = 0 /\ b[4] = 0
          /\ b[5] = 255 /\ b[6] = 255
      BY <1>3, <1>4, <2>2, <3>2
    <3>4. \A k \in 2..4 : b[k] = 0
      BY <3>3
    <3>5. len = 6 /\ len - 2 = 4 /\ len - 1 = 5
      BY <1>5, <2>2
    <3>6. b = SyncBytes(obyte, n)
      BY <3>1, <3>2, Zenon
    <3>7. QED BY <3>3, <3>4, <3>5, <3>6
  <2>3. CASE n = 7
    <3>1. SyncBytes(obyte, n) = <<p, 0, 0, 0, 0, 255, 255>>
      <4>1. SyncBytes(obyte, n) = (<<p, 0>> \o <<0>>) \o <<0, 0, 255, 255>>
        BY <1>2, <2>3 DEF SyncBytes
      <4>2. <<p, 0>> \o <<0>> = <<p, 0, 0>>
        BY <1>3, TwoAndOne
      <4>3. <<p, 0, 0>> \o <<0, 0, 255, 255>> = <<p, 0, 0, 0, 0, 255, 255>>
        BY <1>3, ThreeAndFour
      <4>4. PICK e : e = <<0, 0, 255, 255>>
        OBVIOUS
      <4>5. PICK b : b = <<p, 0, 0, 0, 0, 255, 255>>
        OBVIOUS
      <4>6. SyncBytes(obyte, n) = (<<p, 0>> \o <<0>>) \o e
        BY <4>1, <4>4, Zenon
      <4>7. <<p, 0, 0>> \o e = b
        BY <4>3, <4>4, <4>5, Zenon
      <4>8. SyncBytes(obyte, n) = b
        BY <4>2, <4>6, <4>7, Zenon
      <4>9. QED BY <4>5, <4>8, Zenon
    <3>2. PICK b : b = <<p, 0, 0, 0, 0, 255, 255>>
      OBVIOUS
    <3>3. /\ b \in Seq(Nat) /\ Len(b) = 7 /\ b[1] = p /\ b[2] = 0 /\ b[3] = 0 /\ b[4] = 0 /\ b[5] = 0
          /\ b[6] = 255 /\ b[7] = 255
      BY <1>3, <1>4, <2>3, <3>2
    <3>4. \A k \in 2..5 : b[k] = 0
      BY <3>3
    <3>5. len = 7 /\ len - 2 = 5 /\ len - 1 = 6
      BY <1>5, <2>3
    <3>6. b = SyncBytes(obyte, n)
      BY <3>1, <3>2, Zenon
    <3>7. QED BY <3>3, <3>4, <3>5, <3>6
  <2>4. QED BY <2>1, <2>2, <2>3
<1>7. PICK str : str = Bits(bytes)
  OBVIOUS
<1>8. m = 8 * len /\ (n < 7 \/ len = 7)
  BY <1>1, <1>5
<1>9. /\ str \in Seq(Nat) /\ Len(str) = m
      /\ \A k \in 1..len, j \in 0..7 : str[8 * (k - 1) + j + 1] = BitOf(bytes[k], j)
  <2>1. /\ Bits(bytes) \in Seq(Nat) /\ Len(Bits(bytes)) = 8 * Len(bytes)
        /\ \A k \in 1..Len(bytes), j \in 0..7 : Bits(bytes)[8 * (k - 1) + j + 1] = BitOf(bytes[k], j)
    BY BitsGive
  <2>2. QED BY <1>6, <1>7, <1>8, <2>1
<1>10. ASSUME NEW i \in 1..m
       PROVE  str[i] = SyncBit(obyte, n, m, i)
  <2>1. PICK k \in 1..len, j \in 0..7 : i = 8 * (k - 1) + j + 1
    <3>1. len \in Nat /\ i \in 1..(8 * len)
      BY <1>8
    <3>2. QED BY <3>1, PlaceOf
  <2>2. str[i] = BitOf(bytes[k], j)
    BY <1>9, <2>1
  <2>3. CASE k = 1
    <3>1. str[i] = IF j < n THEN BitOf(obyte, j) ELSE 0
      BY <1>3, <1>6, <2>2, <2>3
    <3>2. i - 1 = j /\ (i <= n <=> j < n) /\ ~(i > m - 16)
      BY <1>8, <2>1, <2>3
    <3>3. QED BY <3>1, <3>2 DEF SyncBit
  <2>4. CASE k \in 2..(len - 2)
    <3>1. str[i] = 0
      <4>1. bytes[k] = 0
        BY <1>6, <2>4
      <4>2. BitOf(0, j) = 0
        BY PlainBytes
      <4>3. QED BY <2>2, <4>1, <4>2
    <3>2. ~(i <= n) /\ ~(i > m - 16)
      BY <1>8, <2>1, <2>4
    <3>3. QED BY <3>1, <3>2 DEF SyncBit
  <2>5. CASE k = len - 1 \/ k = len
    <3>1. str[i] = 1
      <4>1. bytes[k] = 255
        BY <1>6, <2>5
      <4>2. BitOf(255, j) = 1
        BY PlainBytes
      <4>3. QED BY <2>2, <4>1, <4>2
    <3>2. ~(i <= n) /\ i > m - 16
      BY <1>8, <2>1, <2>5
    <3>3. QED BY <3>1, <3>2 DEF SyncBit
  <2>6. QED BY <1>5, <2>1, <2>3, <2>4, <2>5
<1>11. str = Bits(SyncBytes(obyte, n))
  BY <1>6, <1>7
<1>12. QED BY <1>1, <1>9, <1>10, <1>11, Zenon DEF SyncSays

\* The bits left over, as the properties have them.
LEMMA LeftOverGives ==
  ASSUME strm.obyte \in 0..255, strm.onumbits \in 0..7
  PROVE  /\ LeftOver \in Seq(Nat) /\ Len(LeftOver) = strm.onumbits
         /\ \A i \in 1..strm.onumbits : LeftOver[i] = BitOf(strm.obyte, i - 1)
<1>1. PICK o \in 0..255, n \in 0..7 : o = strm.obyte /\ n = strm.onumbits
  OBVIOUS
<1>2. PICK a : a = <<o>>
  BY <1>1
<1>3. a \in Seq(Nat) /\ Len(a) = 1 /\ a[1] = o
  BY <1>1, <1>2
<1>4. PICK b : b = Bits(a)
  OBVIOUS
<1>5. /\ b \in Seq(Nat) /\ Len(b) = 8 * Len(a)
      /\ \A k \in 1..Len(a), j \in 0..7 : b[8 * (k - 1) + j + 1] = BitOf(a[k], j)
  BY <1>3, <1>4, BitsGive
<1>6. Len(b) = 8 /\ \A i \in 1..8 : b[i] = BitOf(o, i - 1)
  <2>1. Len(b) = 8
    BY <1>3, <1>5
  <2>2. ASSUME NEW i \in 1..8
        PROVE  b[i] = BitOf(o, i - 1)
    <3>1. PICK j \in 0..7 : j = i - 1 /\ i = 8 * (1 - 1) + j + 1
      OBVIOUS
    <3>2. b[8 * (1 - 1) + j + 1] = BitOf(a[1], j)
      BY <1>3, <1>5
    <3>3. QED BY <1>3, <3>1, <3>2
  <2>3. QED BY <2>1, <2>2
<1>7. PICK l : l = SubSeq(b, 1, n)
  OBVIOUS
<1>8. LeftOver = l
  BY <1>1, <1>2, <1>4, <1>7 DEF LeftOver
<1>9. n \in Nat /\ n <= 8 /\ b \in Seq(Nat) /\ Len(b) = 8
  <2>1. n \in Nat /\ n <= 8
    BY <1>1
  <2>2. b \in Seq(Nat) /\ Len(b) = 8
    BY <1>5, <1>6
  <2>3. QED BY <2>1, <2>2
<1>10. ASSUME NEW i \in 1..n
       PROVE  b[i] \in Nat
  <2>1. i \in 1..Len(b)
    BY <1>9
  <2>2. QED BY <1>9, <2>1, ElementOfSeq
<1>11. /\ SubSeq(b, 1, n) \in Seq(Nat)
       /\ Len(SubSeq(b, 1, n)) = IF 1 <= n THEN n - 1 + 1 ELSE 0
       /\ \A i \in 1..(n - 1 + 1) : SubSeq(b, 1, n)[i] = b[1 + i - 1]
  BY <1>9, <1>10, SubSeqProperties
<1>12. l \in Seq(Nat) /\ Len(l) = n
  BY <1>7, <1>9, <1>11
<1>13. ASSUME NEW i \in 1..n
       PROVE  l[i] = BitOf(o, i - 1)
  <2>1. i \in 1..8 /\ i \in 1..(n - 1 + 1) /\ 1 + i - 1 = i
    BY <1>9
  <2>2. QED BY <1>6, <1>7, <1>11, <2>1
<1>14. QED BY <1>1, <1>8, <1>12, <1>13

\* A run of zero bits.
LEMMA ZerosGive ==
  ASSUME NEW n \in Nat
  PROVE  Zeros(n) \in Seq(Nat) /\ Len(Zeros(n)) = n /\ \A i \in 1..n : Zeros(n)[i] = 0
BY DEF Zeros

\* Bits, filled up with zeros to a multiple of eight.
LEMMA PaddedGives ==
  ASSUME NEW bits \in Seq(Nat)
  PROVE  /\ Padded(bits) \in Seq(Nat)
         /\ \A full \in Nat :
              full % 8 = 0 /\ full >= Len(bits) /\ full < Len(bits) + 8 =>
                /\ Len(Padded(bits)) = full
                /\ \A i \in 1..full : Padded(bits)[i] = IF i <= Len(bits) THEN bits[i] ELSE 0
<1>1. PICK len \in Nat : len = Len(bits)
  OBVIOUS
<1>2. PICK fill \in 0..7 : fill = (-len) % 8
  OBVIOUS
<1>3. PICK c : c = Zeros(fill)
  OBVIOUS
<1>4. c \in Seq(Nat) /\ Len(c) = fill /\ \A i \in 1..fill : c[i] = 0
  BY <1>3, ZerosGive
<1>5. PICK u : u = bits \o c
  OBVIOUS
<1>6. Padded(bits) = u
  BY <1>1, <1>2, <1>3, <1>5 DEF Padded
<1>7. u = bits \o c /\ bits \in Seq(Nat) /\ c \in Seq(Nat)
  BY <1>4, <1>5
<1>8. u \in Seq(Nat) /\ Len(u) = Len(bits) + Len(c)
  BY <1>7
<1>9. \A i \in 1..Len(bits) : u[i] = bits[i]
  BY <1>7
<1>10. \A i \in 1..Len(c) : u[Len(bits) + i] = c[i]
  BY <1>7
<1>11. \A i \in 1..fill : u[len + i] = 0
  BY <1>1, <1>4, <1>10
<1>12. ASSUME NEW full \in Nat, full % 8 = 0, full >= len, full < len + 8
       PROVE  /\ Len(u) = full
              /\ \A i \in 1..full : u[i] = IF i <= len THEN bits[i] ELSE 0
  <2>1. fill = full - len
    BY <1>2, <1>12
  <2>2. Len(u) = full
    BY <1>1, <1>4, <1>8, <2>1
  <2>3. ASSUME NEW i \in 1..full, ~(i <= len)
        PROVE  u[i] = 0
    <3>1. PICK k \in 1..fill : i = len + k
      BY <2>1, <2>3
    <3>2. QED BY <1>11, <3>1
  <2>4. \A i \in 1..full : i <= len => u[i] = bits[i]
    BY <1>1, <1>9
  <2>5. QED BY <2>2, <2>3, <2>4
<1>13. QED BY <1>1, <1>6, <1>8, <1>12

\* The bits left over, an end-of-block marker and three bits more.
Marked(x, y, c) == LeftOver \o Zeros(7) \o <<x, y, c>>

\* Their places.
LEMMA MarkedGives ==
  ASSUME NEW x \in Nat, NEW y \in Nat, NEW c \in Nat, strm.obyte \in 0..255, strm.onumbits \in 0..7
  PROVE  /\ Marked(x, y, c) \in Seq(Nat) /\ Len(Marked(x, y, c)) = strm.onumbits + 10
         /\ \A i \in 1..(strm.onumbits + 10) :
              Marked(x, y, c)[i] = IF i <= strm.onumbits THEN BitOf(strm.obyte, i - 1)
                                   ELSE IF i = strm.onumbits + 8 THEN x
                                   ELSE IF i = strm.onumbits + 9 THEN y
                                   ELSE IF i = strm.onumbits + 10 THEN c ELSE 0
<1>1. PICK o \in 0..255, n \in 0..7 : o = strm.obyte /\ n = strm.onumbits
  OBVIOUS
<1>2. PICK l, m, e : l = LeftOver /\ m = Zeros(7) /\ e = <<x, y, c>>
  OBVIOUS
<1>3. l \in Seq(Nat) /\ Len(l) = n /\ \A i \in 1..n : l[i] = BitOf(o, i - 1)
  BY <1>1, <1>2, LeftOverGives
<1>4. m \in Seq(Nat) /\ Len(m) = 7 /\ \A i \in 1..7 : m[i] = 0
  BY <1>2, ZerosGive
<1>5. e \in Seq(Nat) /\ Len(e) = 3 /\ e[1] = x /\ e[2] = y /\ e[3] = c
  BY <1>2
<1>6. PICK t : t = l \o m
  OBVIOUS
<1>7. /\ t \in Seq(Nat) /\ Len(t) = n + 7
      /\ \A i \in 1..n : t[i] = BitOf(o, i - 1)
      /\ \A i \in 1..7 : t[n + i] = 0
  <2>1. t = l \o m /\ l \in Seq(Nat) /\ m \in Seq(Nat)
    BY <1>3, <1>4, <1>6
  <2>2. t \in Seq(Nat) /\ Len(t) = Len(l) + Len(m)
    BY <2>1
  <2>3. \A i \in 1..Len(l) : t[i] = l[i]
    BY <2>1
  <2>4. \A i \in 1..Len(m) : t[Len(l) + i] = m[i]
    BY <2>1
  <2>5. QED BY <1>3, <1>4, <2>2, <2>3, <2>4
<1>8. PICK u : u = t \o e
  OBVIOUS
<1>9. PICK n7 \in Nat : n7 = n + 7
  BY <1>1
<1>10. /\ u \in Seq(Nat) /\ Len(u) = n7 + 3
       /\ \A i \in 1..n7 : u[i] = t[i]
       /\ u[n7 + 1] = x /\ u[n7 + 2] = y /\ u[n7 + 3] = c
  <2>1. u = t \o e /\ t \in Seq(Nat) /\ e \in Seq(Nat)
    BY <1>5, <1>7, <1>8
  <2>2. u \in Seq(Nat) /\ Len(u) = Len(t) + Len(e)
    BY <2>1
  <2>3. \A i \in 1..Len(t) : u[i] = t[i]
    BY <2>1
  <2>4. \A i \in 1..Len(e) : u[Len(t) + i] = e[i]
    BY <2>1
  <2>5. Len(t) = n7
    BY <1>7, <1>9
  <2>6. QED BY <1>5, <2>2, <2>3, <2>4, <2>5
<1>11. u = Marked(x, y, c)
  BY <1>2, <1>6, <1>8 DEF Marked
<1>12. n \in Nat
  BY <1>1
<1>13. ASSUME NEW i \in 1..(n + 10)
       PROVE  u[i] = IF i <= n THEN BitOf(o, i - 1)
                     ELSE IF i = n + 8 THEN x ELSE IF i = n + 9 THEN y
                     ELSE IF i = n + 10 THEN c ELSE 0
  <2>1. CASE i <= n
    <3>1. i \in 1..n /\ i \in 1..n7
      BY <1>9, <1>12, <2>1
    <3>2. u[i] = BitOf(o, i - 1)
      BY <1>7, <1>10, <3>1
    <3>3. QED BY <2>1, <3>2
  <2>2. CASE ~(i <= n) /\ i <= n7
    <3>1. PICK k \in 1..7 : i = n + k
      BY <1>9, <1>12, <2>2
    <3>2. t[n + k] = 0
      BY <1>7
    <3>3. i \in 1..n7 /\ i # n + 8 /\ i # n + 9 /\ i # n + 10
      BY <1>9, <1>12, <2>2
    <3>4. u[i] = t[i]
      BY <1>10, <3>3
    <3>5. QED BY <2>2, <3>1, <3>2, <3>3, <3>4
  <2>3. CASE ~(i <= n7)
    <3>1. i = n7 + 1 \/ i = n7 + 2 \/ i = n7 + 3
      BY <1>9, <1>12, <2>3
    <3>2. n7 + 1 = n + 8 /\ n7 + 2 = n + 9 /\ n7 + 3 = n + 10 /\ ~(i <= n)
      BY <1>9, <1>12, <2>3
    <3>3. QED BY <1>10, <1>12, <3>1, <3>2
  <2>4. QED BY <2>1, <2>2, <2>3
<1>14. Len(u) = n + 10
  BY <1>9, <1>10, <1>12
<1>15. QED BY <1>1, <1>10, <1>11, <1>13, <1>14

\* The final marker has the bits RFC 1951 asks for, with any bits left over.
LEMMA EobFollows ==
  ASSUME strm.obyte \in 0..255, strm.onumbits \in 0..7
  PROVE  EobBits
<1>1. PICK o \in 0..255, n \in 0..7 : o = strm.obyte /\ n = strm.onumbits
  OBVIOUS
<1>2. PICK str : str = Bits(EobBytes(o, n))
  OBVIOUS
<1>3. str \in Seq(Nat) /\ Len(str) = 24 /\ \A i \in 1..24 : str[i] = EobBit(o, n, i)
  BY <1>2, EobBytesGive
<1>4. PICK m : m = Marked(1, 1, 0)
  OBVIOUS
<1>5. /\ m \in Seq(Nat) /\ Len(m) = n + 10
      /\ \A i \in 1..(n + 10) : m[i] = IF i <= n THEN BitOf(o, i - 1)
                                       ELSE IF i = n + 8 THEN 1
                                       ELSE IF i = n + 9 THEN 1
                                       ELSE IF i = n + 10 THEN 0 ELSE 0
  <2>1. /\ Marked(1, 1, 0) \in Seq(Nat) /\ Len(Marked(1, 1, 0)) = strm.onumbits + 10
        /\ \A i \in 1..(strm.onumbits + 10) :
             Marked(1, 1, 0)[i] = IF i <= strm.onumbits THEN BitOf(strm.obyte, i - 1)
                                  ELSE IF i = strm.onumbits + 8 THEN 1
                                  ELSE IF i = strm.onumbits + 9 THEN 1
                                  ELSE IF i = strm.onumbits + 10 THEN 0 ELSE 0
    BY MarkedGives
  <2>2. QED BY <1>1, <1>4, <2>1
<1>6. PICK c : c = Zeros(7)
  OBVIOUS
<1>7. c \in Seq(Nat) /\ Len(c) = 7 /\ \A i \in 1..7 : c[i] = 0
  BY <1>6, ZerosGive
<1>8. PICK u : u = m \o c
  OBVIOUS
<1>9. PICK n10 \in Nat : n10 = n + 10
  BY <1>1
<1>10. /\ u \in Seq(Nat) /\ Len(u) = n10 + 7
       /\ \A i \in 1..n10 : u[i] = m[i]
       /\ \A i \in 1..7 : u[n10 + i] = 0
  <2>1. u = m \o c /\ m \in Seq(Nat) /\ c \in Seq(Nat)
    BY <1>5, <1>7, <1>8
  <2>2. u \in Seq(Nat) /\ Len(u) = Len(m) + Len(c)
    BY <2>1
  <2>3. \A i \in 1..Len(m) : u[i] = m[i]
    BY <2>1
  <2>4. \A i \in 1..Len(c) : u[Len(m) + i] = c[i]
    BY <2>1
  <2>5. Len(m) = n10
    BY <1>5, <1>9
  <2>6. QED BY <1>7, <2>2, <2>3, <2>4, <2>5
<1>11. n \in Nat /\ n <= 7
  BY <1>1
<1>12. ASSUME NEW i \in 1..24
       PROVE  EobBit(o, n, i) = IF i <= n10 + 7 THEN u[i] ELSE 0
  <2>1. CASE i <= n10
    <3>1. i \in 1..n10 /\ i \in 1..(n + 10)
      BY <1>9, <1>11, <2>1
    <3>2. u[i] = m[i]
      BY <1>10, <3>1
    <3>3. m[i] = IF i <= n THEN BitOf(o, i - 1) ELSE IF i = n + 8 \/ i = n + 9 THEN 1 ELSE 0
      BY <1>5, <3>1
    <3>4. i <= n10 + 7
      BY <1>9, <2>1
    <3>5. QED BY <3>2, <3>3, <3>4 DEF EobBit
  <2>2. CASE ~(i <= n10)
    <3>1. ~(i <= n) /\ i # n + 8 /\ i # n + 9
      BY <1>9, <1>11, <2>2
    <3>2. EobBit(o, n, i) = 0
      BY <3>1 DEF EobBit
    <3>3. i <= n10 + 7 => u[i] = 0
      <4>1. ASSUME i <= n10 + 7
            PROVE  u[i] = 0
        <5>1. PICK k \in 1..7 : i = n10 + k
          BY <1>9, <2>2, <4>1
        <5>2. QED BY <1>10, <5>1
      <4>2. QED BY <4>1
    <3>4. QED BY <3>2, <3>3
  <2>3. QED BY <2>1, <2>2
<1>13. PICK r : r = Padded(u)
  OBVIOUS
<1>14. r \in Seq(Nat) /\ Len(r) = 24 /\ \A i \in 1..24 : r[i] = IF i <= n10 + 7 THEN u[i] ELSE 0
  <2>1. /\ r \in Seq(Nat)
        /\ \A full \in Nat :
             full % 8 = 0 /\ full >= Len(u) /\ full < Len(u) + 8 =>
               /\ Len(r) = full
               /\ \A i \in 1..full : r[i] = IF i <= Len(u) THEN u[i] ELSE 0
    BY <1>10, <1>13, PaddedGives
  <2>2. Len(u) = n10 + 7 /\ 24 % 8 = 0 /\ 24 >= n10 + 7 /\ 24 < n10 + 7 + 8
    BY <1>9, <1>10, <1>11
  <2>3. 24 \in Nat /\ 24 % 8 = 0 /\ 24 >= Len(u) /\ 24 < Len(u) + 8
    BY <1>9, <1>11, <2>2
  <2>4. Len(r) = 24 /\ \A i \in 1..24 : r[i] = IF i <= Len(u) THEN u[i] ELSE 0
    BY <2>1, <2>3, Zenon
  <2>5. QED BY <2>1, <2>2, <2>4
<1>15. str = r
  <2>1. \A i \in 1..24 : str[i] = r[i]
    BY <1>3, <1>12, <1>14
  <2>2. str \in Seq(Nat) /\ Len(str) = 24 /\ r \in Seq(Nat) /\ Len(r) = 24
    BY <1>3, <1>14
  <2>3. str = [i \in 1..24 |-> str[i]] /\ r = [i \in 1..24 |-> r[i]]
    BY <2>2
  <2>4. QED BY <2>1, <2>3
<1>16. r = Padded(LeftOver \o Zeros(7) \o <<1, 1, 0>> \o Zeros(7))
  BY <1>4, <1>6, <1>8, <1>13 DEF Marked
<1>17. str = Bits(EobBytes(strm.obyte, strm.onumbits))
  BY <1>1, <1>2
<1>18. QED BY <1>15, <1>16, <1>17, Zenon DEF EobBits

\* The sync marker has the bits RFC 1951 asks for, with any bits left over.
LEMMA SyncFollows ==
  ASSUME strm.obyte \in 0..255, strm.onumbits \in 0..7
  PROVE  SyncBits
<1>1. PICK o \in 0..255, n \in 0..7 : o = strm.obyte /\ n = strm.onumbits
  OBVIOUS
<1>2. SyncSays(o, n)
  BY <1>1, SyncBytesGive
<1>3. PICK m \in {48, 56} : m = SyncLen(n) /\ m = IF n > 6 THEN 56 ELSE 48
  BY DEF SyncLen
<1>4. PICK str : str = Bits(SyncBytes(o, n))
  OBVIOUS
<1>5. str \in Seq(Nat) /\ Len(str) = m /\ \A i \in 1..m : str[i] = SyncBit(o, n, m, i)
  BY <1>2, <1>3, <1>4, Zenon DEF SyncSays
<1>6. PICK a : a = Marked(0, 0, 0)
  OBVIOUS
<1>7. /\ a \in Seq(Nat) /\ Len(a) = n + 10
      /\ \A i \in 1..(n + 10) : a[i] = IF i <= n THEN BitOf(o, i - 1) ELSE 0
  <2>1. /\ Marked(0, 0, 0) \in Seq(Nat) /\ Len(Marked(0, 0, 0)) = strm.onumbits + 10
        /\ \A i \in 1..(strm.onumbits + 10) :
             Marked(0, 0, 0)[i] = IF i <= strm.onumbits THEN BitOf(strm.obyte, i - 1)
                                  ELSE IF i = strm.onumbits + 8 THEN 0
                                  ELSE IF i = strm.onumbits + 9 THEN 0
                                  ELSE IF i = strm.onumbits + 10 THEN 0 ELSE 0
    BY MarkedGives
  <2>2. QED BY <1>1, <1>6, <2>1
<1>8. PICK full \in {16, 24} : full = m - 32
  BY <1>3
<1>9. n + 10 <= full /\ full < n + 18 /\ n \in Nat
  BY <1>1, <1>3, <1>8
<1>10. PICK r : r = Padded(a)
  OBVIOUS
<1>11. /\ r \in Seq(Nat) /\ Len(r) = full
       /\ \A i \in 1..full : r[i] = IF i <= n THEN BitOf(o, i - 1) ELSE 0
  <2>1. /\ r \in Seq(Nat)
        /\ \A k \in Nat :
             k % 8 = 0 /\ k >= Len(a) /\ k < Len(a) + 8 =>
               /\ Len(r) = k
               /\ \A i \in 1..k : r[i] = IF i <= Len(a) THEN a[i] ELSE 0
    <3>1. a \in Seq(Nat)
      BY <1>7
    <3>2. /\ Padded(a) \in Seq(Nat)
          /\ \A k \in Nat :
               k % 8 = 0 /\ k >= Len(a) /\ k < Len(a) + 8 =>
                 /\ Len(Padded(a)) = k
                 /\ \A i \in 1..k : Padded(a)[i] = IF i <= Len(a) THEN a[i] ELSE 0
      BY <3>1, PaddedGives
    <3>3. QED BY <1>10, <3>2
  <2>2. full \in Nat /\ full % 8 = 0 /\ full >= Len(a) /\ full < Len(a) + 8
    BY <1>7, <1>8, <1>9
  <2>3. Len(r) = full /\ \A i \in 1..full : r[i] = IF i <= Len(a) THEN a[i] ELSE 0
    BY <2>1, <2>2, Zenon
  <2>4. ASSUME NEW i \in 1..full
        PROVE  r[i] = IF i <= n THEN BitOf(o, i - 1) ELSE 0
    <3>1. r[i] = IF i <= n + 10 THEN a[i] ELSE 0
      BY <1>7, <2>3
    <3>2. CASE i <= n + 10
      <4>1. i \in 1..(n + 10)
        BY <1>8, <1>9, <3>2
      <4>2. QED BY <1>7, <3>1, <3>2, <4>1
    <3>3. CASE ~(i <= n + 10)
      <4>1. ~(i <= n)
        BY <1>8, <1>9, <3>3
      <4>2. QED BY <3>1, <3>3, <4>1
    <3>4. QED BY <3>2, <3>3
  <2>5. QED BY <2>1, <2>3, <2>4
<1>12. PICK c : c = Zeros(16)
  OBVIOUS
<1>13. c \in Seq(Nat) /\ Len(c) = 16 /\ \A i \in 1..16 : c[i] = 0
  BY <1>12, ZerosGive
<1>14. PICK e : e = [i \in 1..16 |-> 1]
  OBVIOUS
<1>15. e \in Seq(Nat) /\ Len(e) = 16 /\ \A i \in 1..16 : e[i] = 1
  BY <1>14
<1>16. PICK u : u = r \o c
  OBVIOUS
<1>17. /\ u \in Seq(Nat) /\ Len(u) = full + 16
       /\ \A i \in 1..full : u[i] = r[i]
       /\ \A i \in 1..16 : u[full + i] = 0
  <2>1. u = r \o c /\ r \in Seq(Nat) /\ c \in Seq(Nat)
    BY <1>11, <1>13, <1>16
  <2>2. u \in Seq(Nat) /\ Len(u) = Len(r) + Len(c)
    BY <2>1
  <2>3. \A i \in 1..Len(r) : u[i] = r[i]
    BY <2>1
  <2>4. \A i \in 1..Len(c) : u[Len(r) + i] = c[i]
    BY <2>1
  <2>5. Len(r) = full
    BY <1>11
  <2>6. QED BY <1>13, <2>2, <2>3, <2>4, <2>5
<1>18. PICK f16 \in Nat : f16 = full + 16 /\ m = f16 + 16
  BY <1>3, <1>8
<1>19. PICK w : w = u \o e
  OBVIOUS
<1>20. /\ w \in Seq(Nat) /\ Len(w) = m
       /\ \A i \in 1..f16 : w[i] = u[i]
       /\ \A i \in 1..16 : w[f16 + i] = 1
  <2>1. w = u \o e /\ u \in Seq(Nat) /\ e \in Seq(Nat)
    BY <1>15, <1>17, <1>19
  <2>2. w \in Seq(Nat) /\ Len(w) = Len(u) + Len(e)
    BY <2>1
  <2>3. \A i \in 1..Len(u) : w[i] = u[i]
    BY <2>1
  <2>4. \A i \in 1..Len(e) : w[Len(u) + i] = e[i]
    BY <2>1
  <2>5. Len(u) = f16
    BY <1>17, <1>18
  <2>6. Len(w) = m
    BY <1>15, <1>18, <2>2, <2>5
  <2>7. QED BY <1>15, <2>2, <2>3, <2>4, <2>5, <2>6
<1>21. ASSUME NEW i \in 1..m
       PROVE  w[i] = SyncBit(o, n, m, i)
  <2>1. m - 16 = f16
    BY <1>3, <1>18
  <2>2. CASE i <= full
    <3>1. i \in 1..full /\ i \in 1..f16 /\ ~(i > m - 16)
      BY <1>8, <1>18, <2>1, <2>2
    <3>2. w[i] = IF i <= n THEN BitOf(o, i - 1) ELSE 0
      BY <1>11, <1>17, <1>20, <3>1
    <3>3. QED BY <3>1, <3>2 DEF SyncBit
  <2>3. CASE ~(i <= full) /\ i <= f16
    <3>1. PICK k \in 1..16 : i = full + k
      BY <1>8, <1>18, <2>3
    <3>2. i \in 1..f16 /\ ~(i <= n) /\ ~(i > m - 16)
      BY <1>8, <1>9, <1>18, <2>1, <2>3
    <3>3. u[full + k] = 0
      BY <1>17
    <3>4. w[i] = 0
      BY <1>20, <3>1, <3>2, <3>3
    <3>5. QED BY <3>2, <3>4 DEF SyncBit
  <2>4. CASE ~(i <= f16)
    <3>1. PICK k \in 1..16 : i = f16 + k
      BY <1>18, <2>4
    <3>2. i > m - 16 /\ ~(i <= n)
      BY <1>8, <1>9, <1>18, <2>1, <2>4
    <3>3. w[f16 + k] = 1
      BY <1>20
    <3>4. QED BY <3>1, <3>2, <3>3 DEF SyncBit
  <2>5. QED BY <2>2, <2>3, <2>4
<1>22. str = w
  <2>1. m \in Nat
    BY <1>3
  <2>2. str \in Seq(Nat) /\ Len(str) = m /\ w \in Seq(Nat) /\ Len(w) = m
    BY <1>5, <1>20
  <2>3. str = [i \in 1..m |-> str[i]] /\ w = [i \in 1..m |-> w[i]]
    BY <2>1, <2>2
  <2>4. \A i \in 1..m : str[i] = w[i]
    BY <1>5, <1>21
  <2>5. QED BY <2>3, <2>4
<1>23. w = Padded(LeftOver \o Zeros(7) \o <<0, 0, 0>>) \o Zeros(16) \o [i \in 1..16 |-> 1]
  BY <1>6, <1>10, <1>12, <1>14, <1>16, <1>19 DEF Marked
<1>24. str = Bits(SyncBytes(strm.obyte, strm.onumbits))
  BY <1>1, <1>4
<1>25. QED BY <1>22, <1>23, <1>24, Zenon DEF SyncBits

\* deflate_write_eob and deflate_sync_flush, with any byte and any number of bits left over
\* from the accelerator: the bits left over are kept, and after them stand the end-of-block
\* marker, the header of the last block or of an empty stored block with its length, and
\* what fills up the last byte.
THEOREM MarkersAreComplete == Spec => []MarkerBits
<1>1. IInv => MarkerBits
  <2>1. SUFFICES ASSUME IInv
                 PROVE  MarkerBits
    OBVIOUS
  <2>2. strm.obyte \in 0..255 /\ strm.onumbits \in 0..7
    BY <2>1 DEF IInv, Sound, Typed, Stream
  <2>3. QED BY <2>2, EobFollows, SyncFollows DEF MarkerBits
<1>2. QED BY <1>1, StreamInvariant, PTL

-----------------------------------------------------------------------------
(* The inductive invariant, for a stream t in phase ph, the application's   *)
(* stream a and the buffers b                                               *)

\* What a stream can be in, with its input within the bound.
Client(a) ==
  /\ a \in [avail_in : 0..MaxIn, avail_out : Nat, total_in : 0..MaxIn, mode : Modes \cup {"NO"}]
  /\ a.total_in + a.avail_in <= MaxIn

BufferFields == {"ibuf_total", "ibuf", "obuf_total", "obuf_next", "obuf", "obuf_avail", "rc", "due"}
Results3 == {"OK", "STREAM_END", "STREAM_ERROR"}
Room(n) == IF n = 0 THEN 0 ELSE h_deflateBound(n)

\* The output that is due is what the buffer holds.
Buffers(b) ==
  /\ DOMAIN b = BufferFields
  /\ b.ibuf_total \in IbufSizes /\ b.ibuf \in 0..b.ibuf_total
  /\ b.obuf_total = Room(b.ibuf_total)
  /\ b.obuf \in 0..b.obuf_total /\ b.obuf_next \in 0..b.obuf
  /\ b.due = output_buffer_bytes(b)
  /\ b.obuf_avail = b.obuf_total - b.due
  /\ b.rc \in Results3

\* A stream that works has all the input but what is collected, and takes requests whole; it
\* finishes with the last of it.
Working(t, ph, a, b) ==
  /\ Client(a) /\ Buffers(b)
  /\ b.rc = "STREAM_END" => ph = "ended"
  /\ ph # "failed" =>
       /\ a.total_in = t.total_in + b.ibuf
       /\ b.ibuf_total # 0 => t.avail_in = 0
       /\ ph # "open" /\ b.ibuf_total # 0 => a.mode = "FINISH" /\ a.avail_in = 0 /\ b.ibuf = 0

\* Nothing waits in front of the stream, in it, or behind it.
Empty(t, a, b) == a.avail_in = 0 /\ b.ibuf = 0 /\ b.due = 0 /\ t.out_fifo = <<>>

\* What a call says holds until the next one.
Reported(t, ph, a, b, bu, re) ==
  /\ bu \in BOOLEAN /\ re \in Results3 /\ (bu => b.ibuf_total # 0)
  /\ re = "STREAM_ERROR" => ph = "failed"
  /\ re = "STREAM_END" => ~bu /\ ph = "ended" /\ Empty(t, a, b)
  /\ ~bu /\ ph = "open" /\ b.ibuf_total # 0 /\ a.mode \in {"SYNC", "FULL"} /\ a.avail_out # 0
       => Empty(t, a, b)

HIInv == IInv /\ Working(strm, pc, z, s) /\ Reported(strm, pc, z, s, busy, ret)

-----------------------------------------------------------------------------
(* What a call of the stream does                                           *)

Flushes == {"NO", "SYNC", "FULL", "FINISH"}

\* The most that becomes of n bytes of input.
Expanded(n) == (MaxOut * n) \div 8

\* The code says where the stream is, and it only finishes when it is told to.
CallCodes(flush) ==
  /\ rc' = "STREAM_ERROR" <=> pc' = "failed"
  /\ rc' = "STREAM_END" <=> pc' = "ended"
  /\ pc' \in {"finishing", "ended"} => flush = "FINISH"

LEMMA ExpandedNat ==
  ASSUME NEW n \in Nat
  PROVE  Expanded(n) \in Nat
<1>1. PICK m \in Nat : m = MaxOut * n
  BY BoundsAssumption
<1>2. QED BY <1>1 DEF Expanded

\* The numbers of a stream, and a FIFO that takes what a request leaves over.
LEMMA Numeric ==
  ASSUME NEW u, Typed(u)
  PROVE  /\ u.avail_in \in Nat /\ u.avail_out \in Nat /\ u.total_in \in Nat
         /\ FifoSize \in Nat /\ FifoSize > 11 /\ Expanded(u.avail_in) \in Nat
<1>1. u.avail_in \in Nat /\ u.avail_out \in Nat /\ u.total_in \in Nat
  BY BoundsAssumption DEF Typed, Stream
<1>2. FifoSize \in Nat /\ FifoSize > 11
  BY BoundsAssumption, FifoAssumption, RoomAssumption
<1>3. QED BY <1>1, <1>2, ExpandedNat

\* With room, a result consumes all the input and leaves more than a FIFO of room.
LEMMA RoomyResult ==
  ASSUME NEW u, Typed(u), u.avail_in # 0, u.avail_out > FifoSize + Expanded(u.avail_in),
         NEW r \in Results(u)
  PROVE  r.inp = u.avail_in /\ u.avail_out - r.outp >= FifoSize
<1>1. /\ u.avail_in \in Nat /\ u.avail_out \in Nat /\ FifoSize \in Nat /\ FifoSize > 11
      /\ Expanded(u.avail_in) \in Nat
  BY Numeric
<1>2. PICK e \in Nat : e = Expanded(u.avail_in)
  BY <1>1
<1>3. PICK a \in Nat : a = u.avail_out
  BY <1>1
<1>4. /\ r.inp \in 1..u.avail_in /\ r.outp \in {1, Smaller(a, e)}
      /\ r.inp < u.avail_in => r.outp = a
  BY <1>2, <1>3 DEF Results, Expanded
<1>5. Smaller(a, e) = e
  BY <1>1, <1>2, <1>3 DEF Smaller
<1>6. r.outp \in {1, e} /\ a > FifoSize + e
  BY <1>2, <1>3, <1>4, <1>5
<1>7. r.outp # a
  BY <1>1, <1>6
<1>8. r.inp = u.avail_in
  BY <1>1, <1>4, <1>7
<1>9. a - r.outp >= FifoSize
  BY <1>1, <1>6
<1>10. QED BY <1>3, <1>8, <1>9

\* A stream t after u: input is counted and room used; with enough room the input is consumed,
\* and a flush leaves nothing in the FIFO.
Consumes(u, t, flush, room) ==
  /\ t.avail_in + t.total_in = u.avail_in + u.total_in
  /\ t.avail_out <= u.avail_out
  /\ room => t.avail_in = 0 /\ (flush \in {"SYNC", "FULL"} => t.out_fifo = <<>>)

LEMMA ContinueEffect ==
  ASSUME NEW u, NEW p \in Alive, NEW flush \in Flushes, Sound(u, p),
         p # "open" => flush = "FINISH", u.avail_out # 0 => u.out_fifo = <<>>, Continue(u, flush)
  PROVE  /\ CallCodes(flush)
         /\ u.avail_in = 0 => strm' = u
         /\ Consumes(u, strm', flush,
                     pc' # "failed" /\ u.avail_out > FifoSize + Expanded(u.avail_in))
<1> DEFINE room == u.avail_out > FifoSize + Expanded(u.avail_in)
<1>1. /\ Typed(u) /\ u.avail_in \in Nat /\ u.avail_out \in Nat /\ u.total_in \in Nat
      /\ FifoSize \in Nat /\ FifoSize > 11 /\ Expanded(u.avail_in) \in Nat
  BY Numeric DEF Sound
<1>2. room => u.avail_out # 0
  BY <1>1
<1>3. CASE Done(u) /\ Return(u, "STREAM_END") /\ pc' = "ended"
  <2>1. u.avail_in = 0 /\ p # "open" /\ u.out_fifo = <<>>
    BY <1>3 DEF Done, Sound, EndSound, Alive
  <2>2. strm' = u /\ rc' = "STREAM_END"
    BY <1>3 DEF Return
  <2>3. QED BY <1>1, <1>3, <2>1, <2>2 DEF CallCodes, Consumes
<1>4. CASE /\ u.avail_out = 0 \/ u.avail_in = 0
           /\ Return(u, "OK") /\ pc' = IF flush = "FINISH" THEN "finishing" ELSE "open"
  <2>1. strm' = u /\ rc' = "OK"
    BY <1>4 DEF Return
  <2>2. room => u.avail_in = 0 /\ u.out_fifo = <<>>
    BY <1>2, <1>4
  <2>3. QED BY <1>1, <1>4, <2>1, <2>2 DEF CallCodes, Consumes
<1>5. CASE /\ u.avail_out # 0 /\ u.avail_in # 0
           /\ \E r \in Results(u) :
                \E t \in {Flushed(f, flush) : f \in {Finished(x, flush) : x \in {Processed(u, flush, r)}}} :
                   /\ Return(t, IF Done(t) THEN "STREAM_END" ELSE "OK")
                   /\ pc' = IF Done(t) THEN "ended" ELSE IF flush = "FINISH" THEN "finishing" ELSE "open"
  <2>1. PICK r \in Results(u) :
          \E t \in {Flushed(f, flush) : f \in {Finished(x, flush) : x \in {Processed(u, flush, r)}}} :
             /\ Return(t, IF Done(t) THEN "STREAM_END" ELSE "OK")
             /\ pc' = IF Done(t) THEN "ended" ELSE IF flush = "FINISH" THEN "finishing" ELSE "open"
    BY <1>5
  <2>2. PICK x : x = Processed(u, flush, r)
    OBVIOUS
  <2>3. PICK f : f = Finished(x, flush)
    OBVIOUS
  <2>4. PICK t : t = Flushed(f, flush)
    OBVIOUS
  <2>5. /\ strm' = t /\ rc' = IF Done(t) THEN "STREAM_END" ELSE "OK"
        /\ pc' = IF Done(t) THEN "ended" ELSE IF flush = "FINISH" THEN "finishing" ELSE "open"
    BY <2>1, <2>2, <2>3, <2>4 DEF Return
  <2>6. u.out_fifo = <<>> /\ ~u.eob_added /\ ~u.trailer_added
    BY <1>5 DEF Sound, EndSound, Alive
  <2>7. r.inp \in 1..u.avail_in /\ r.outp \in 0..u.avail_out
    BY <1>1, <1>5, ResultBounds
  <2>8. /\ Typed(x) /\ MarksKept(u, x)
        /\ x.avail_in = u.avail_in - r.inp /\ x.total_in = u.total_in + r.inp
        /\ x.avail_out = u.avail_out - r.outp
    BY <1>1, <1>5, <2>2, <2>6, ProcessedEffect
  <2>9. ~x.eob_added /\ ~x.trailer_added
    BY <2>6, <2>8 DEF MarksKept
  <2>10. Consumes(u, x, "NO", room) /\ (room => x.avail_out >= FifoSize)
    <3>1. x.avail_in + x.total_in = u.avail_in + u.total_in /\ x.avail_out <= u.avail_out
      BY <1>1, <2>7, <2>8
    <3>2. ASSUME room PROVE x.avail_in = 0 /\ x.avail_out >= FifoSize
      <4>1. r.inp = u.avail_in /\ u.avail_out - r.outp >= FifoSize
        BY <1>1, <1>5, <3>2, RoomyResult
      <4>2. QED BY <1>1, <2>8, <4>1
    <3>3. QED BY <3>1, <3>2 DEF Consumes
  <2>11. CASE flush = "FINISH" /\ x.avail_in = 0
    <3>1. t = f /\ Typed(f) /\ DataKept(x, f) /\ Drains(x, f)
      BY <2>3, <2>4, <2>8, <2>9, <2>11, FinishedEffect DEF Flushed
    <3>2. t.avail_in = x.avail_in /\ t.total_in = x.total_in /\ t.avail_out <= x.avail_out
      BY <3>1 DEF DataKept, Drains
    <3>3. t.avail_out \in Nat /\ x.avail_out \in Nat
      BY <2>8, <3>1 DEF Typed, Stream
    <3>4. Consumes(u, t, flush, room)
      BY <1>1, <2>10, <2>11, <3>2, <3>3 DEF Consumes
    <3>5. QED BY <1>5, <2>5, <2>11, <3>4 DEF CallCodes
  <2>12. CASE ~(flush = "FINISH" /\ x.avail_in = 0)
    <3>1. f = x
      BY <2>3, <2>12 DEF Finished, Finishes
    <3>2. /\ Typed(t) /\ DataKept(x, t) /\ MarksKept(x, t)
          /\ flush \in {"NO", "FINISH"} => t = x
          /\ flush \in {"SYNC", "FULL"} => Drains(x, t)
      BY <2>4, <2>8, <3>1, FlushedEffect DEF Flushes
    <3>3. ~Done(t)
      BY <2>9, <3>2 DEF MarksKept, Done
    <3>4. t.avail_in = x.avail_in /\ t.total_in = x.total_in
      BY <3>2 DEF DataKept
    <3>5. t.avail_out \in Nat /\ x.avail_out \in Nat
      BY <2>8, <3>2 DEF Typed, Stream
    <3>6. t.avail_out <= x.avail_out
      BY <3>2, <3>5 DEF Drains, Flushes
    <3>7. ASSUME room, flush \in {"SYNC", "FULL"} PROVE t.out_fifo = <<>>
      <4>1. t.avail_out # 0
        BY <1>1, <2>10, <3>2, <3>5, <3>7 DEF Drains
      <4>2. QED BY <3>2, <3>7, <4>1 DEF Drains
    <3>8. Consumes(u, t, flush, room)
      BY <1>1, <2>10, <3>4, <3>5, <3>6, <3>7 DEF Consumes
    <3>9. QED BY <1>5, <2>5, <3>3, <3>8 DEF CallCodes
  <2>13. QED BY <2>11, <2>12
<1>6. CASE u.avail_in # 0 /\ Return(Requested(u), "STREAM_ERROR") /\ pc' = "failed"
  <2>1. PICK t : t = Requested(u)
    OBVIOUS
  <2>2. t.avail_in = u.avail_in /\ t.total_in = u.total_in /\ t.avail_out = u.avail_out
    BY <1>1, <2>1 DEF Requested, Typed, Stream, Fields
  <2>3. strm' = t /\ rc' = "STREAM_ERROR"
    BY <1>6, <2>1 DEF Return
  <2>4. QED BY <1>1, <1>6, <2>2, <2>3 DEF CallCodes, Consumes
<1>7. CASE /\ u.avail_out # 0 /\ u.avail_in # 0
           /\ \E r \in BadResults(u) :
                /\ Return([Requested(u) EXCEPT !.avail_in = @ - r.inp, !.total_in = @ + r.inp],
                          "STREAM_ERROR")
                /\ pc' = "failed"
  <2>1. PICK r \in BadResults(u) :
                /\ Return([Requested(u) EXCEPT !.avail_in = @ - r.inp, !.total_in = @ + r.inp],
                          "STREAM_ERROR")
                /\ pc' = "failed"
    BY <1>7
  <2>2. PICK q : q = Requested(u)
    OBVIOUS
  <2>3. /\ q.avail_in = u.avail_in /\ q.total_in = u.total_in /\ q.avail_out = u.avail_out
        /\ DOMAIN q = Fields
    BY <1>1, <2>2 DEF Requested, Typed, Stream, Fields
  <2>4. PICK n \in 1..u.avail_in : n = r.inp
    BY DEF BadResults
  <2>5. PICK t : t = [q EXCEPT !.avail_in = @ - n, !.total_in = @ + n]
    OBVIOUS
  <2>6. t.avail_in = u.avail_in - n /\ t.total_in = u.total_in + n /\ t.avail_out = u.avail_out
    BY <2>3, <2>5 DEF Fields
  <2>7. t.avail_in + t.total_in = u.avail_in + u.total_in
    BY <1>1, <2>6
  <2>8. strm' = t /\ rc' = "STREAM_ERROR" /\ pc' = "failed"
    BY <2>1, <2>2, <2>4, <2>5 DEF Return
  <2>9. QED BY <1>1, <2>6, <2>7, <2>8 DEF CallCodes, Consumes
<1>8. QED BY <1>3, <1>4, <1>5, <1>6, <1>7 DEF Continue

LEMMA CallEffect ==
  ASSUME IInv, NEW flush \in Flushes, NEW in \in 0..MaxIn, NEW out \in Nat, Deflate(flush, in, out)
  PROVE  /\ CallCodes(flush)
         /\ strm'.avail_in + strm'.total_in = strm.avail_in + strm.total_in + in
         /\ strm'.avail_out <= out
         /\ pc' # "failed" /\ out >= 2 * FifoSize + Expanded(strm.avail_in + in)
              => strm'.avail_in = 0 /\ (flush \in {"SYNC", "FULL"} => strm'.out_fifo = <<>>)
<1>1. PICK u : u = strm
  OBVIOUS
<1>2. PICK p \in Alive : p = pc
  BY DEF Deflate, Alive, Phases
<1>3. /\ p # "open" => flush = "FINISH" /\ in = 0
      /\ u.total_in + u.avail_in + in <= MaxIn
      /\ Sound(u, p)
  BY <1>1, <1>2 DEF Deflate, IInv
<1>4. PICK s1 : s1 = [u EXCEPT !.avail_in = @ + in, !.avail_out = out]
  OBVIOUS
<1>5. PICK s2 : s2 = IF s1.header_added THEN s1 ELSE deflate_add_header(s1)
  OBVIOUS
<1>6. PICK s3 : s3 = deflate_write_out_fifo(s2)
  OBVIOUS
<1>7. PICK s4 : s4 = Finished(s3, flush)
  OBVIOUS
<1>8. \/ /\ HeaderFailed(s1)
         /\ Return(s2, "STREAM_ERROR") /\ pc' = "failed"
      \/ /\ ~HeaderFailed(s1) /\ s3.avail_out = 0
         /\ Return(s3, "OK") /\ pc' = IF flush = "FINISH" THEN "finishing" ELSE "open"
      \/ /\ ~HeaderFailed(s1) /\ s3.avail_out # 0
         /\ Continue(s4, flush)
  BY <1>1, <1>4, <1>5, <1>6, <1>7 DEF Deflate
<1>9. Sound(s1, p) /\ Typed(s1) /\ Typed(u)
  BY <1>2, <1>3, <1>4, CallSound DEF Sound
<1>10. s1.avail_in = u.avail_in + in /\ s1.avail_out = out /\ s1.total_in = u.total_in
  BY <1>4, <1>9 DEF Typed, Stream, Fields
<1>11. s2.avail_in = s1.avail_in /\ s2.avail_out = out /\ s2.total_in = s1.total_in /\ Typed(s2)
  BY <1>5, <1>9, <1>10, HeaderEmitted DEF HeaderKeeps, DataKept
<1>12. /\ s3.avail_in = s1.avail_in /\ s3.total_in = s1.total_in /\ Typed(s3)
       /\ s3.avail_out <= out /\ out < s3.avail_out + FifoSize
       /\ s3.avail_out # 0 => s3.out_fifo = <<>>
  BY <1>6, <1>11, WrittenOut DEF DataKept, Drains
<1>13. /\ u.avail_in \in Nat /\ u.total_in \in Nat /\ in \in Nat /\ FifoSize \in Nat /\ FifoSize > 11
       /\ s3.avail_out \in Nat /\ Expanded(u.avail_in + in) \in Nat
  <2>1. in \in Nat
    BY BoundsAssumption
  <2>2. u.avail_in \in Nat /\ u.total_in \in Nat /\ s3.avail_out \in Nat /\ FifoSize \in Nat /\ FifoSize > 11
    BY <1>9, <1>12, Numeric
  <2>3. QED BY <2>1, <2>2, ExpandedNat
<1>14. CASE HeaderFailed(s1) /\ Return(s2, "STREAM_ERROR") /\ pc' = "failed"
  BY <1>1, <1>10, <1>11, <1>13, <1>14 DEF Return, CallCodes
<1>15. CASE /\ s3.avail_out = 0
            /\ Return(s3, "OK") /\ pc' = IF flush = "FINISH" THEN "finishing" ELSE "open"
  BY <1>1, <1>10, <1>12, <1>13, <1>15 DEF Return, CallCodes
<1>16. CASE ~HeaderFailed(s1) /\ s3.avail_out # 0 /\ Continue(s4, flush)
  <2>1. Sound(s3, p) /\ Begun(s3) /\ s3.out_fifo = <<>>
    <3>1. Sound(s2, p) /\ Begun(s2)
      <4>1. CASE s1.header_added
        BY <1>5, <1>9, <4>1 DEF Begun
      <4>2. CASE ~s1.header_added
        BY <1>2, <1>5, <1>9, <1>16, <4>2, HeaderSound
      <4>3. QED BY <4>1, <4>2
    <3>2. QED BY <1>2, <1>6, <1>12, <1>16, <3>1, WrittenSound
  <2>2. CASE Finishes(s3, flush)
    <3>1. Sound(s3, "finishing") /\ flush = "FINISH" /\ s3.avail_in = 0
      BY <1>2, <2>1, <2>2, FinishingSound DEF Finishes
    <3>2. HeadersFit => s3.owed + 11 < FifoSize
      <4>1. ASSUME HeadersFit PROVE s3.owed = 0
        <5>1. Ordered(s3)
          BY <3>1, <4>1 DEF Sound, FifoSound
        <5>2. Len(s3.out_fifo) = 0
          BY <2>1
        <5>3. QED BY <1>12, <5>1, <5>2, OrderedLength
      <4>2. QED BY <1>13, <4>1
    <3>3. Sound(s4, "finishing")
      BY <1>7, <3>1, <3>2, FinishedSound
    <3>4. s4.avail_in = 0 /\ s4.total_in = s3.total_in /\ s4.avail_out <= s3.avail_out
          /\ (s4.avail_out # 0 => s4.out_fifo = <<>>) /\ Typed(s4)
      <4>1. s3.eob_added <=> s3.trailer_added
        BY <3>1 DEF Sound, EndSound
      <4>2. DataKept(s3, s4) /\ Drains(s3, s4) /\ Typed(s4)
        BY <1>7, <1>12, <3>1, <4>1, FinishedEffect
      <4>3. QED BY <3>1, <4>2 DEF DataKept, Drains
    <3>5. "finishing" \in Alive
      BY DEF Alive, Phases
    <3>6. CallCodes(flush) /\ strm' = s4
      BY <1>16, <3>1, <3>3, <3>4, <3>5, ContinueEffect
    <3>7. s4.avail_out \in Nat
      BY <3>4, Numeric
    <3>8. QED BY <1>1, <1>10, <1>12, <1>13, <3>1, <3>4, <3>6, <3>7
  <2>3. CASE ~Finishes(s3, flush)
    <3>1. s4 = s3
      BY <1>7, <2>3 DEF Finished
    <3>2. /\ CallCodes(flush)
          /\ Consumes(s3, strm', flush,
                      pc' # "failed" /\ s3.avail_out > FifoSize + Expanded(s3.avail_in))
      BY <1>2, <1>3, <1>16, <2>1, <3>1, ContinueEffect
    <3>3. strm'.avail_in + strm'.total_in = u.avail_in + u.total_in + in
      BY <1>10, <1>12, <1>13, <3>2 DEF Consumes
    <3>4. ASSUME out >= 2 * FifoSize + Expanded(u.avail_in + in)
          PROVE  s3.avail_out > FifoSize + Expanded(s3.avail_in)
      BY <1>10, <1>12, <1>13, <3>4
    <3>5. Typed(strm')
      BY DeflateStep DEF Flushes, IInv, Sound
    <3>6. strm'.avail_out \in Nat
      BY <3>5 DEF Typed, Stream
    <3>7. QED BY <1>1, <1>12, <1>13, <3>2, <3>3, <3>4, <3>6 DEF Consumes
  <2>4. QED BY <2>2, <2>3
<1>17. QED BY <1>8, <1>14, <1>15, <1>16

-----------------------------------------------------------------------------
(* The buffers                                                              *)

\* The output buffer takes all that becomes of the input buffer, behind what the FIFO had.
LEMMA Enough ==
  ASSUME NEW n \in Nat, NEW k \in 0..n
  PROVE  h_deflateBound(n) \in Nat /\ h_deflateBound(n) >= 2 * FifoSize + Expanded(k)
<1>1. MaxOut \in 0..15 /\ PageSize \in Nat /\ FifoSize \in Nat /\ 2 * FifoSize <= PageSize
  BY BoundsAssumption, BufferAssumption, FifoAssumption, PageAssumption
<1>2. PICK m : m = MaxOut * k
  OBVIOUS
<1>3. m \in Nat /\ m <= 15 * n
  BY <1>1, <1>2
<1>4. PICK e : e = m \div 8
  OBVIOUS
<1>5. PICK g : g = (15 * n) \div 8
  OBVIOUS
<1>6. e \in Nat /\ g \in Nat /\ e <= g
  BY <1>3, <1>4, <1>5
<1>7. Expanded(k) = e /\ h_deflateBound(n) = g + PageSize
  <2>1. n * 15 = 15 * n
    OBVIOUS
  <2>2. QED BY <1>2, <1>4, <1>5, <2>1 DEF Expanded, h_deflateBound
<1>8. QED BY <1>1, <1>6, <1>7

LEMMA BufferNumbers ==
  ASSUME NEW b, Buffers(b)
  PROVE  /\ b.ibuf_total \in Nat /\ b.ibuf \in Nat /\ b.ibuf <= b.ibuf_total
         /\ b.obuf_total \in Nat /\ b.obuf \in Nat /\ b.obuf_next \in Nat
         /\ b.due = b.obuf - b.obuf_next /\ b.due \in Nat
         /\ b.ibuf_total = 0 => b.ibuf = 0 /\ b.due = 0
<1>1. b.ibuf_total \in Nat
  BY BufferAssumption DEF Buffers
<1>2. b.obuf_total \in Nat
  BY <1>1, Enough DEF Buffers, Room
<1>3. b.ibuf_total = 0 => b.obuf_total = 0
  BY DEF Buffers, Room
<1>4. QED BY <1>1, <1>2, <1>3 DEF Buffers, output_buffer_bytes

LEMMA ClientNumbers ==
  ASSUME NEW a, Client(a)
  PROVE  a.avail_in \in Nat /\ a.avail_out \in Nat /\ a.total_in \in Nat
BY BoundsAssumption DEF Client

\* What the loop goes on with is the same call.
SameCall(a, b, p) ==
  /\ p[1].mode = a.mode
  /\ p[2].ibuf_total = b.ibuf_total /\ p[2].obuf_total = b.obuf_total /\ p[2].rc = b.rc
  /\ a.avail_in = 0 => p[1].avail_in = 0 /\ p[2].ibuf = b.ibuf

LEMMA ReadWorking ==
  ASSUME NEW t, NEW ph, NEW a, NEW b, Working(t, ph, a, b), t.total_in \in Nat
  PROVE  LET p == h_read_ibuf(<<a, b>>) IN Working(t, ph, p[1], p[2]) /\ SameCall(a, b, p)
<1>1. PICK n : n = Taken(<<a, b>>)
  OBVIOUS
<1>2. PICK p : p = h_read_ibuf(<<a, b>>)
  OBVIOUS
<1>3. /\ a.avail_in \in Nat /\ a.avail_out \in Nat /\ a.total_in \in Nat
      /\ b.ibuf_total \in Nat /\ b.ibuf \in Nat /\ b.ibuf <= b.ibuf_total
  BY BufferNumbers, ClientNumbers DEF Working
<1>4. n \in Nat /\ n <= a.avail_in /\ n <= b.ibuf_total - b.ibuf
  <2>1. PICK k \in Nat : k = b.ibuf_total - b.ibuf
    BY <1>3
  <2>2. n = Smaller(a.avail_in, k)
    BY <1>1, <2>1 DEF Taken
  <2>3. QED BY <1>3, <2>1, <2>2, SmallerIsMin
<1>5. /\ p[1] = [a EXCEPT !.avail_in = @ - n, !.total_in = @ + n]
      /\ p[2] = [b EXCEPT !.ibuf = @ + n]
  BY <1>1, <1>2 DEF h_read_ibuf
<1>6. PICK c : c = p[1]
  OBVIOUS
<1>7. PICK d : d = p[2]
  OBVIOUS
<1>8. Client(a) /\ Buffers(b)
  BY DEF Working
<1>9. /\ c.avail_in = a.avail_in - n /\ c.total_in = a.total_in + n
      /\ c.mode = a.mode /\ c.avail_out = a.avail_out
  BY <1>5, <1>6, <1>8 DEF Client
<1>10. Client(c)
  <2>1. c.avail_in \in 0..MaxIn /\ c.total_in \in 0..MaxIn /\ c.total_in + c.avail_in <= MaxIn
    BY <1>3, <1>4, <1>8, <1>9, BoundsAssumption DEF Client
  <2>2. QED BY <1>3, <1>5, <1>6, <1>8, <1>9, <2>1 DEF Client
<1>11. /\ DOMAIN d = BufferFields /\ d.ibuf = b.ibuf + n
       /\ d.ibuf_total = b.ibuf_total /\ d.obuf_total = b.obuf_total /\ d.rc = b.rc
       /\ d.obuf = b.obuf /\ d.obuf_next = b.obuf_next /\ d.obuf_avail = b.obuf_avail
       /\ d.due = b.due
  BY <1>5, <1>7, <1>8 DEF Buffers, BufferFields
<1>12. Buffers(d)
  BY <1>3, <1>4, <1>8, <1>11 DEF Buffers, output_buffer_bytes
<1>13. a.avail_in = 0 => c.avail_in = 0 /\ d.ibuf = b.ibuf
  BY <1>3, <1>4, <1>9, <1>11
<1>14. ph # "failed" => c.total_in = t.total_in + d.ibuf
  BY <1>3, <1>4, <1>9, <1>11 DEF Working
<1>15. Working(t, ph, c, d)
  BY <1>9, <1>10, <1>11, <1>12, <1>13, <1>14 DEF Working
<1>16. QED BY <1>2, <1>6, <1>7, <1>9, <1>11, <1>13, <1>15 DEF SameCall

LEMMA FlushWorking ==
  ASSUME NEW t, NEW ph, NEW a, NEW b, Working(t, ph, a, b)
  PROVE  LET p == h_flush_obuf(<<a, b>>) IN
         /\ Working(t, ph, p[1], p[2]) /\ SameCall(a, b, p)
         /\ p[1].avail_in = a.avail_in /\ p[2].ibuf = b.ibuf
         /\ p[1].avail_out # 0 => p[2].due = 0
<1>1. PICK n : n = Smaller(a.avail_out, output_buffer_bytes(b))
  OBVIOUS
<1>2. PICK p : p = h_flush_obuf(<<a, b>>)
  OBVIOUS
<1>3. /\ a.avail_in \in Nat /\ a.avail_out \in Nat /\ a.total_in \in Nat
      /\ b.obuf_total \in Nat /\ b.obuf \in Nat /\ b.obuf_next \in Nat
      /\ b.due = b.obuf - b.obuf_next /\ b.due \in Nat
  BY BufferNumbers, ClientNumbers DEF Working
<1>4. n \in Nat /\ n <= a.avail_out /\ n <= b.due /\ n \in {a.avail_out, b.due}
  BY <1>1, <1>3, SmallerIsMin DEF output_buffer_bytes
<1>5. /\ p[1] = [a EXCEPT !.avail_out = @ - n]
      /\ p[2] = [b EXCEPT !.obuf_next = @ + n, !.obuf_avail = @ + n, !.due = @ - n]
  BY <1>1, <1>2 DEF h_flush_obuf
<1>6. PICK c : c = p[1]
  OBVIOUS
<1>7. PICK d : d = p[2]
  OBVIOUS
<1>8. Client(a) /\ Buffers(b)
  BY DEF Working
<1>9. /\ c.avail_in = a.avail_in /\ c.total_in = a.total_in
      /\ c.mode = a.mode /\ c.avail_out = a.avail_out - n
  BY <1>5, <1>6, <1>8 DEF Client
<1>10. Client(c)
  BY <1>3, <1>4, <1>5, <1>6, <1>8, <1>9 DEF Client
<1>11. /\ DOMAIN d = BufferFields /\ d.ibuf = b.ibuf
       /\ d.ibuf_total = b.ibuf_total /\ d.obuf_total = b.obuf_total /\ d.rc = b.rc
       /\ d.obuf = b.obuf /\ d.obuf_next = b.obuf_next + n /\ d.obuf_avail = b.obuf_avail + n
       /\ d.due = b.due - n
  BY <1>5, <1>7, <1>8 DEF Buffers, BufferFields
<1>12. Buffers(d)
  BY <1>3, <1>4, <1>8, <1>11 DEF Buffers, output_buffer_bytes
<1>13. c.avail_out # 0 => d.due = 0
  BY <1>3, <1>4, <1>9, <1>11
<1>14. Working(t, ph, c, d)
  BY <1>9, <1>10, <1>11, <1>12 DEF Working
<1>15. QED BY <1>2, <1>6, <1>7, <1>9, <1>11, <1>13, <1>14 DEF SameCall

\* What the stream has written is all that is due.
LEMMA WrittenBuffers ==
  ASSUME NEW a, NEW b, Buffers(b), b.due = 0, NEW t, t.avail_out \in Nat,
         t.avail_out <= b.obuf_total, NEW code \in Results3
  PROVE  LET q == Written(<<a, b>>, t, code) IN
         /\ q[1] = a /\ Buffers(q[2]) /\ q[2].rc = code /\ q[2].ibuf = b.ibuf
         /\ q[2].ibuf_total = b.ibuf_total
<1>1. b.obuf_total \in Nat
  BY BufferNumbers
<1>2. PICK m \in Nat : m = t.avail_out
  OBVIOUS
<1>3. PICK k \in Nat : k = b.obuf_total - m
  BY <1>1, <1>2
<1>4. PICK q : q = Written(<<a, b>>, t, code)
  OBVIOUS
<1>5. /\ q[1] = a
      /\ q[2] = [b EXCEPT !.obuf_next = 0, !.obuf = b.obuf_total - t.avail_out,
                          !.obuf_avail = t.avail_out, !.rc = code,
                          !.due = @ + b.obuf_total - t.avail_out]
  BY <1>4 DEF Written
<1>6. PICK d : d = q[2]
  OBVIOUS
<1>7. /\ DOMAIN d = BufferFields /\ d.ibuf = b.ibuf
      /\ d.ibuf_total = b.ibuf_total /\ d.obuf_total = b.obuf_total /\ d.rc = code
      /\ d.obuf = k /\ d.obuf_next = 0 /\ d.obuf_avail = m /\ d.due = k
  BY <1>1, <1>2, <1>3, <1>5, <1>6 DEF Buffers, BufferFields
<1>8. Buffers(d)
  BY <1>1, <1>2, <1>3, <1>7 DEF Buffers, output_buffer_bytes
<1>9. QED BY <1>4, <1>5, <1>6, <1>7, <1>8

LEMMA AbsorbedBuffers ==
  ASSUME NEW b, Buffers(b)
  PROVE  LET d == Absorbed(b) IN
         Buffers(d) /\ d.ibuf = 0 /\ d.rc = b.rc /\ d.ibuf_total = b.ibuf_total /\ d.due = b.due
<1>1. PICK d : d = Absorbed(b)
  OBVIOUS
<1>2. /\ DOMAIN d = BufferFields /\ d.ibuf = 0
      /\ d.ibuf_total = b.ibuf_total /\ d.obuf_total = b.obuf_total /\ d.rc = b.rc
      /\ d.obuf = b.obuf /\ d.obuf_next = b.obuf_next /\ d.obuf_avail = b.obuf_avail
      /\ d.due = b.due
  BY <1>1 DEF Absorbed, Buffers, BufferFields
<1>3. b.ibuf_total \in Nat
  BY BufferNumbers
<1>4. Buffers(d)
  BY <1>2, <1>3 DEF Buffers, output_buffer_bytes
<1>5. QED BY <1>1, <1>2, <1>4

-----------------------------------------------------------------------------
(* The loop                                                                 *)

\* What is known of a call in progress and of the stream after this iteration, when it
\* goes on with a and b.
LoopSound(a, b) ==
  /\ Working(strm', pc', a, b) /\ b.ibuf_total # 0
  /\ busy = TRUE /\ ret = "OK"
  /\ pc' = "ended" => strm'.out_fifo = <<>>

LEMMA GoesOn ==
  ASSUME NEW p, LoopSound(p[1], p[2]), Go(p, "LOOP")
  PROVE  Working(strm', pc', z', s') /\ Reported(strm', pc', z', s', busy', ret')
BY DEF Go, LoopSound, Reported, Results3

LEMMA Returns ==
  ASSUME NEW p, NEW code \in Results3, LoopSound(p[1], p[2]), Go(p, code),
         code = "STREAM_ERROR" => pc' = "failed",
         code = "STREAM_END" => pc' = "ended" /\ Empty(strm', p[1], p[2]),
         pc' = "open" /\ p[1].mode \in {"SYNC", "FULL"} /\ p[1].avail_out # 0
           => Empty(strm', p[1], p[2])
  PROVE  Working(strm', pc', z', s') /\ Reported(strm', pc', z', s', busy', ret')
<1>1. z' = p[1] /\ s' = p[2] /\ busy' = FALSE /\ ret' = code
  BY DEF Go, Results3
<1>2. QED BY <1>1 DEF LoopSound, Reported

LEMMA LoopEndSound ==
  ASSUME NEW a, NEW b, LoopSound(a, b), LoopEnd(<<a, b>>),
         pc' = "open" /\ a.mode \in {"SYNC", "FULL"} /\ a.avail_in = 0
           => b.ibuf = 0 /\ strm'.out_fifo = <<>>
  PROVE  Working(strm', pc', z', s') /\ Reported(strm', pc', z', s', busy', ret')
<1>1. PICK q : q = h_flush_obuf(<<a, b>>)
  OBVIOUS
<1>2. /\ Working(strm', pc', q[1], q[2]) /\ SameCall(a, b, q)
      /\ q[1].avail_in = a.avail_in /\ q[2].ibuf = b.ibuf
      /\ q[1].avail_out # 0 => q[2].due = 0
  BY <1>1, FlushWorking DEF LoopSound
<1>3. LoopSound(q[1], q[2])
  BY <1>2 DEF LoopSound, SameCall
<1>4. CASE Go(q, "LOOP")
  BY <1>3, <1>4, GoesOn
<1>5. CASE NeedsRoom(q) /\ Go(q, "OK")
  <2>1. q[1].avail_out = 0
    BY <1>5 DEF NeedsRoom
  <2>2. QED BY <1>3, <1>5, <2>1, Returns DEF Results3
<1>6. CASE ~NeedsRoom(q) /\ AtEnd(q) /\ Go(q, "STREAM_END")
  <2>1. /\ q[2].rc = "STREAM_END" /\ q[1].avail_in = 0 /\ q[2].ibuf = 0 /\ q[2].due = 0
        /\ pc' = "ended"
    BY <1>2, <1>6 DEF AtEnd, NeedsRoom, Working
  <2>2. Empty(strm', q[1], q[2])
    BY <1>3, <2>1 DEF Empty, LoopSound
  <2>3. QED BY <1>3, <1>6, <2>1, <2>2, Returns DEF Results3
<1>7. CASE ~NeedsRoom(q) /\ q[1].avail_in = 0 /\ Go(q, "OK")
  <2>1. q[2].due = 0
    BY <1>2, <1>7 DEF NeedsRoom
  <2>2. pc' = "open" /\ q[1].mode \in {"SYNC", "FULL"} => Empty(strm', q[1], q[2])
    BY <1>2, <1>7, <2>1 DEF Empty, SameCall
  <2>3. QED BY <1>3, <1>7, <2>2, Returns DEF Results3
<1>8. QED
  <2>1. \/ NeedsRoom(q) /\ Go(q, "OK")
        \/ ~NeedsRoom(q) /\ AtEnd(q) /\ Go(q, "STREAM_END")
        \/ ~NeedsRoom(q) /\ Go(q, IF q[1].avail_in # 0 THEN "LOOP" ELSE "OK")
    BY <1>1 DEF LoopEnd
  <2>2. QED BY <1>4, <1>5, <1>6, <1>7, <2>1

LEMMA IterateStep ==
  ASSUME HIInv, Iterate
  PROVE  HIInv'
<1>1. /\ IInv /\ Working(strm, pc, z, s) /\ Reported(strm, pc, z, s, busy, ret)
      /\ busy = TRUE /\ s.ibuf_total # 0 /\ pc # "failed" /\ ret = "OK"
  BY DEF HIInv, Iterate, Reported, Results3
<1>2. strm.total_in \in Nat /\ strm.avail_in = 0 /\ (pc = "ended" => strm.out_fifo = <<>>)
  BY <1>1, Numeric DEF IInv, Sound, EndSound, Working
<1>3. PICK r : r = h_read_ibuf(<<z, s>>)
  OBVIOUS
<1>4. Working(strm, pc, r[1], r[2]) /\ SameCall(z, s, r) /\ r = <<r[1], r[2]>>
  <2>1. r = <<r[1], r[2]>>
    BY <1>3 DEF h_read_ibuf
  <2>2. QED BY <1>1, <1>2, <1>3, <2>1, ReadWorking
<1>5. PICK p : p = h_flush_obuf(r)
  OBVIOUS
<1>6. PICK a : a = p[1]
  OBVIOUS
<1>7. PICK b : b = p[2]
  OBVIOUS
<1>8. p = <<a, b>>
  BY <1>5, <1>6, <1>7 DEF h_flush_obuf
<1>9. /\ Working(strm, pc, a, b) /\ b.ibuf_total # 0
      /\ a.avail_out # 0 => b.due = 0
  <2>1. Working(strm, pc, a, b) /\ SameCall(r[1], r[2], p) /\ (a.avail_out # 0 => b.due = 0)
    BY <1>4, <1>5, <1>6, <1>7, FlushWorking
  <2>2. QED BY <1>1, <1>4, <1>7, <2>1 DEF SameCall
<1>10. \/ NeedsRoom(p) /\ Go(p, "OK") /\ UNCHANGED vars
       \/ ~NeedsRoom(p) /\ ~Starts(p) /\ LoopEnd(p) /\ UNCHANGED vars
       \/ /\ ~NeedsRoom(p) /\ Starts(p)
          /\ Deflate(FlushOf(p), b.ibuf, b.obuf_total)
          /\ \E q \in {Written(p, strm', rc')} :
               IF strm'.avail_in # 0 THEN Go(q, "STREAM_ERROR")
               ELSE LoopEnd(<<q[1], Absorbed(q[2])>>)
  BY <1>3, <1>5, <1>7 DEF Iterate
<1>11. ASSUME UNCHANGED vars PROVE IInv' /\ LoopSound(a, b)
  BY <1>1, <1>2, <1>9, <1>11 DEF vars, IInv, LoopSound
<1>12. CASE NeedsRoom(p) /\ Go(p, "OK") /\ UNCHANGED vars
  <2>1. a.avail_out = 0
    BY <1>6, <1>12 DEF NeedsRoom
  <2>2. Working(strm', pc', z', s') /\ Reported(strm', pc', z', s', busy', ret')
    BY <1>6, <1>7, <1>11, <1>12, <2>1, Returns DEF Results3
  <2>3. QED BY <1>11, <1>12, <2>2 DEF HIInv
<1>13. CASE ~Starts(p) /\ LoopEnd(p) /\ UNCHANGED vars
  <2>1. a.mode = "NO"
    BY <1>6, <1>13 DEF Starts
  <2>2. Working(strm', pc', z', s') /\ Reported(strm', pc', z', s', busy', ret')
    BY <1>8, <1>11, <1>13, <2>1, LoopEndSound
  <2>3. QED BY <1>11, <1>13, <2>2 DEF HIInv
<1>14. CASE /\ ~NeedsRoom(p)
            /\ Deflate(FlushOf(p), b.ibuf, b.obuf_total)
            /\ \E q \in {Written(p, strm', rc')} :
                 IF strm'.avail_in # 0 THEN Go(q, "STREAM_ERROR")
                 ELSE LoopEnd(<<q[1], Absorbed(q[2])>>)
  <2>1. PICK flush : flush = FlushOf(p)
    OBVIOUS
  <2>2. flush = IF a.avail_in # 0 THEN "NO" ELSE a.mode
    BY <1>6, <2>1 DEF FlushOf
  <2>3. Client(a) /\ Buffers(b) /\ b.due = 0
    BY <1>6, <1>9, <1>14 DEF NeedsRoom, Working
  <2>4. flush \in Flushes
    BY <2>2, <2>3, BufferAssumption DEF Client, Flushes
  <2>5. /\ b.ibuf_total \in Nat /\ b.ibuf \in 0..b.ibuf_total /\ b.obuf_total \in Nat
        /\ b.obuf_total >= 2 * FifoSize + Expanded(b.ibuf)
    <3>1. b.ibuf_total \in Nat /\ b.ibuf \in 0..b.ibuf_total
      BY <2>3, BufferNumbers
    <3>2. b.obuf_total = h_deflateBound(b.ibuf_total)
      BY <1>9, <2>3 DEF Buffers, Room
    <3>3. QED BY <3>1, <3>2, Enough
  <2>6. b.ibuf \in 0..MaxIn /\ a.total_in = strm.total_in + b.ibuf /\ a.total_in \in Nat
    <3>1. a.total_in = strm.total_in + b.ibuf
      BY <1>1, <1>9 DEF Working
    <3>2. a.total_in \in Nat /\ a.total_in <= MaxIn /\ MaxIn \in Nat
      BY <2>3, BoundsAssumption DEF Client
    <3>3. QED BY <1>2, <2>5, <3>1, <3>2
  <2>7. Deflate(flush, b.ibuf, b.obuf_total)
    BY <1>14, <2>1
  <2>8. IInv'
    BY <1>1, <2>4, <2>5, <2>6, <2>7, DeflateStep DEF Flushes
  <2>9. /\ CallCodes(flush)
        /\ strm'.avail_in + strm'.total_in = a.total_in
        /\ strm'.avail_out <= b.obuf_total
        /\ pc' # "failed" => strm'.avail_in = 0 /\ (flush \in {"SYNC", "FULL"} => strm'.out_fifo = <<>>)
    <3>1. strm.avail_in + strm.total_in + b.ibuf = a.total_in /\ strm.avail_in + b.ibuf = b.ibuf
      BY <1>2, <2>5, <2>6
    <3>2. QED BY <1>1, <2>4, <2>5, <2>6, <2>7, <3>1, CallEffect
  <2>10. /\ strm'.avail_out \in Nat /\ strm'.avail_in \in Nat /\ strm'.total_in \in Nat
         /\ rc' \in Results3 /\ pc' \in Phases
         /\ pc' = "ended" => strm'.out_fifo = <<>>
    <3>1. Sound(strm', pc') /\ pc' \in Phases /\ rc' \in Results3
      BY <2>8 DEF IInv, Results3
    <3>2. QED BY <3>1, Numeric DEF Sound, EndSound
  <2>11. PICK q : q = Written(p, strm', rc')
    OBVIOUS
  <2>12. PICK d : d = q[2]
    OBVIOUS
  <2>13. /\ q[1] = a /\ Buffers(d) /\ d.rc = rc' /\ d.ibuf = b.ibuf
         /\ d.ibuf_total = b.ibuf_total
    BY <1>8, <2>3, <2>9, <2>10, <2>11, <2>12, WrittenBuffers
  <2>14. \/ strm'.avail_in # 0 /\ Go(q, "STREAM_ERROR")
         \/ strm'.avail_in = 0 /\ LoopEnd(<<a, Absorbed(d)>>)
    BY <1>14, <2>11, <2>12, <2>13
  <2>15. CASE strm'.avail_in # 0 /\ Go(q, "STREAM_ERROR")
    <3>1. pc' = "failed"
      BY <2>9, <2>15
    <3>2. LoopSound(a, d)
      BY <1>1, <1>9, <2>3, <2>9, <2>13, <3>1 DEF LoopSound, Working, CallCodes
    <3>3. QED BY <2>8, <2>12, <2>13, <2>15, <3>1, <3>2, Returns DEF HIInv, Results3
  <2>16. CASE strm'.avail_in = 0 /\ LoopEnd(<<a, Absorbed(d)>>)
    <3>1. PICK e : e = Absorbed(d)
      OBVIOUS
    <3>2. Buffers(e) /\ e.ibuf = 0 /\ e.rc = rc' /\ e.ibuf_total # 0
      BY <1>9, <2>13, <3>1, AbsorbedBuffers
    <3>3. Working(strm', pc', a, e)
      <4>1. rc' = "STREAM_END" => pc' = "ended"
        BY <2>9 DEF CallCodes
      <4>2. a.total_in = strm'.total_in + e.ibuf
        BY <2>6, <2>9, <2>10, <2>16, <3>2
      <4>3. pc' \notin {"failed", "open"} => a.mode = "FINISH" /\ a.avail_in = 0
        BY <2>2, <2>9, <2>10 DEF CallCodes, Phases
      <4>4. QED BY <2>3, <2>16, <3>2, <4>1, <4>2, <4>3 DEF Working
    <3>4. LoopSound(a, e)
      BY <1>1, <2>10, <3>2, <3>3 DEF LoopSound
    <3>5. pc' = "open" /\ a.mode \in {"SYNC", "FULL"} /\ a.avail_in = 0
            => e.ibuf = 0 /\ strm'.out_fifo = <<>>
      BY <2>2, <2>9, <3>2
    <3>6. LoopEnd(<<a, e>>)
      BY <2>16, <3>1
    <3>7. QED BY <2>8, <3>4, <3>5, <3>6, LoopEndSound DEF HIInv
  <2>17. QED BY <2>14, <2>15, <2>16
<1>15. QED BY <1>10, <1>12, <1>13, <1>14

-----------------------------------------------------------------------------
(* The other operations                                                     *)

\* The buffers of a stream at its start.
LEMMA EmptySound ==
  ASSUME NEW n \in IbufSizes
  PROVE  LET b == EmptyBuffers(n) IN
         /\ Client(NewStream) /\ Buffers(b) /\ b.ibuf = 0 /\ b.rc = "OK" /\ b.due = 0
<1>1. PICK b : b = EmptyBuffers(n)
  OBVIOUS
<1>2. PICK m : m = Room(n)
  OBVIOUS
<1>3. m \in Nat
  BY <1>2, BufferAssumption, Enough DEF Room
<1>4. /\ DOMAIN b = BufferFields /\ b.ibuf_total = n /\ b.ibuf = 0 /\ b.obuf_total = m
      /\ b.obuf_next = 0 /\ b.obuf = 0 /\ b.obuf_avail = m /\ b.rc = "OK" /\ b.due = 0
  BY <1>1, <1>2 DEF EmptyBuffers, Room, BufferFields
<1>5. n \in Nat
  BY BufferAssumption
<1>6. Buffers(b)
  BY <1>2, <1>3, <1>4, <1>5 DEF Buffers, output_buffer_bytes, Results3
<1>7. Client(NewStream)
  BY BoundsAssumption DEF NewStream, Client
<1>8. QED BY <1>1, <1>4, <1>6, <1>7

LEMMA HInitSound == HInit => HIInv
<1> SUFFICES ASSUME HInit PROVE HIInv
  OBVIOUS
<1>1. IInv
  BY InitSound DEF HInit
<1>2. PICK n \in IbufSizes : s = EmptyBuffers(n)
  BY DEF HInit
<1>3. z = NewStream /\ Client(z) /\ Buffers(s) /\ s.ibuf = 0 /\ s.rc = "OK" /\ s.due = 0
  BY <1>2, EmptySound DEF HInit
<1>4. strm.total_in = 0 /\ strm.avail_in = 0 /\ pc = "open"
  BY DEF HInit, Init, Fresh
<1>5. z.total_in = 0 /\ z.mode = "NO" /\ busy = FALSE /\ ret = "OK"
  BY <1>3 DEF HInit, NewStream
<1>6. Working(strm, pc, z, s)
  BY <1>3, <1>4, <1>5 DEF Working
<1>7. Reported(strm, pc, z, s, busy, ret)
  BY <1>5 DEF Reported, Results3
<1>8. QED BY <1>1, <1>6, <1>7 DEF HIInv

LEMMA UnreportedStep ==
  ASSUME HIInv, Unreported
  PROVE  HIInv'
<1>1. z' = z /\ s' = s /\ busy' = FALSE /\ ret' = "OK"
  BY DEF Unreported, Go
<1>2. pc = "failed" /\ strm' = strm /\ pc' = pc /\ rc' = rc
  BY DEF Unreported, FailureSwallowed, vars
<1>3. IInv' /\ Working(strm', pc', z', s')
  BY <1>1, <1>2 DEF HIInv, IInv
<1>4. Reported(strm', pc', z', s', busy', ret')
  BY <1>1, <1>2 DEF Reported, Results3
<1>5. QED BY <1>3, <1>4 DEF HIInv

LEMMA BeginStep ==
  ASSUME HIInv, NEW flush \in Modes, NEW in \in 0..MaxIn, NEW out \in OutSizes,
         Begin(flush, in, out)
  PROVE  HIInv'
<1>1. /\ z' = [z EXCEPT !.avail_in = @ + in, !.avail_out = out, !.mode = flush]
      /\ busy' = TRUE /\ s' = s /\ ret' = ret /\ strm' = strm /\ pc' = pc /\ rc' = rc
      /\ s.ibuf_total # 0 /\ ret # "STREAM_END"
      /\ z.mode = "FINISH" => flush = "FINISH" /\ in = 0
      /\ z.total_in + z.avail_in + in <= MaxIn
  BY DEF Begin
<1>2. Working(strm, pc, z, s) /\ Reported(strm, pc, z, s, busy, ret) /\ Client(z)
  BY DEF HIInv, Working
<1>3. z.avail_in \in Nat /\ z.total_in \in Nat /\ in \in Nat /\ out \in Nat /\ MaxIn \in Nat
  BY <1>2, ClientNumbers, BoundsAssumption
<1>4. /\ z'.avail_in = z.avail_in + in /\ z'.avail_out = out /\ z'.total_in = z.total_in
      /\ z'.mode = flush
  BY <1>1, <1>2 DEF Client
<1>5. Client(z')
  <2>1. z.avail_in + in \in 0..MaxIn
    BY <1>1, <1>3
  <2>2. z'.total_in + z'.avail_in <= MaxIn
    BY <1>1, <1>3, <1>4
  <2>3. QED BY <1>1, <1>2, <1>3, <2>1, <2>2 DEF Client
<1>6. Working(strm', pc', z', s')
  <2>1. z.mode = "FINISH" /\ z.avail_in = 0 => z'.mode = "FINISH" /\ z'.avail_in = 0
    BY <1>1, <1>3, <1>4
  <2>2. QED BY <1>1, <1>2, <1>4, <1>5, <2>1 DEF Working
<1>7. Reported(strm', pc', z', s', busy', ret')
  BY <1>1, <1>2 DEF Reported
<1>8. QED BY <1>1, <1>6, <1>7 DEF HIInv, IInv

LEMMA UnbufferedStep ==
  ASSUME HIInv, NEW flush \in Modes, NEW in \in 0..MaxIn, NEW out \in OutSizes,
         Unbuffered(flush, in, out)
  PROVE  HIInv'
<1>1. /\ z' = [avail_in |-> strm'.avail_in, avail_out |-> strm'.avail_out,
               total_in |-> strm'.total_in, mode |-> flush]
      /\ s' = [s EXCEPT !.rc = rc'] /\ busy' = busy /\ ret' = rc'
      /\ s.ibuf_total = 0 /\ Deflate(flush, in, out)
  BY DEF Unbuffered
<1>2. /\ IInv /\ Buffers(s) /\ busy = FALSE
  BY <1>1 DEF HIInv, Working, Reported
<1>3. flush \in Flushes /\ out \in Nat
  BY BufferAssumption, BoundsAssumption DEF Flushes
<1>4. IInv' /\ CallCodes(flush)
  BY <1>1, <1>2, <1>3, DeflateStep, CallEffect DEF Flushes
<1>5. Sound(strm', pc') /\ pc' \in Phases /\ rc' \in Results3 /\ Stream(strm')
      /\ strm'.total_in + strm'.avail_in <= MaxIn
  BY <1>4 DEF IInv, Sound, Typed, Results3
<1>6. /\ DOMAIN s' = BufferFields /\ s'.ibuf = s.ibuf /\ s'.ibuf_total = s.ibuf_total
      /\ s'.obuf_total = s.obuf_total /\ s'.obuf_next = s.obuf_next /\ s'.obuf = s.obuf
      /\ s'.obuf_avail = s.obuf_avail /\ s'.due = s.due /\ s'.rc = rc'
  BY <1>1, <1>2 DEF Buffers, BufferFields
<1>7. Buffers(s') /\ s'.ibuf = 0 /\ s'.due = 0
  BY <1>1, <1>2, <1>5, <1>6, BufferNumbers DEF Buffers, output_buffer_bytes
<1>8. Client(z')
  BY <1>1, <1>5 DEF Client, Stream
<1>9. Working(strm', pc', z', s')
  <2>1. strm'.total_in \in Nat
    BY <1>5, Numeric DEF Sound
  <2>2. z'.total_in = strm'.total_in + s'.ibuf
    BY <1>1, <1>7, <2>1
  <2>3. QED BY <1>1, <1>4, <1>6, <1>7, <1>8, <2>2 DEF Working, CallCodes
<1>10. Reported(strm', pc', z', s', busy', ret')
  <2>1. pc' = "ended" => Empty(strm', z', s')
    BY <1>1, <1>5, <1>7 DEF Sound, EndSound, Empty
  <2>2. QED BY <1>1, <1>2, <1>4, <1>5, <1>6, <2>1 DEF Reported, CallCodes
<1>11. QED BY <1>4, <1>9, <1>10 DEF HIInv

LEMMA HResetStep ==
  ASSUME HIInv, HReset
  PROVE  HIInv'
<1>1. /\ z' = NewStream /\ s' = EmptyBuffers(s.ibuf_total) /\ ret' = "OK" /\ busy' = FALSE
      /\ Reset
  BY DEF HReset, HIInv, Reported
<1>2. IInv'
  BY <1>1, ResetStep DEF HIInv
<1>3. s.ibuf_total \in IbufSizes
  BY DEF HIInv, Working, Buffers
<1>4. Client(z') /\ Buffers(s') /\ s'.ibuf = 0 /\ s'.rc = "OK"
  BY <1>1, <1>3, EmptySound
<1>5. strm'.total_in = 0 /\ strm'.avail_in = 0 /\ pc' = "open"
  BY <1>1 DEF Reset, Fresh
<1>6. z'.total_in = 0 /\ z'.mode = "NO"
  BY <1>1 DEF NewStream
<1>7. Working(strm', pc', z', s')
  BY <1>4, <1>5, <1>6 DEF Working
<1>8. Reported(strm', pc', z', s', busy', ret')
  BY <1>1, <1>5, <1>6 DEF Reported, Results3
<1>9. QED BY <1>2, <1>7, <1>8 DEF HIInv

\* An operation that leaves the counters and the FIFO of the stream alone.
LEMMA Untouched ==
  ASSUME HIInv, z' = z, busy' = busy, ret' = ret, pc' = pc,
         DOMAIN s' = BufferFields, \A f \in BufferFields : s'[f] = s[f],
         strm'.total_in = strm.total_in, strm'.avail_in = strm.avail_in,
         strm'.out_fifo = strm.out_fifo, IInv'
  PROVE  HIInv'
<1>1. /\ s'.ibuf = s.ibuf /\ s'.ibuf_total = s.ibuf_total /\ s'.obuf_total = s.obuf_total
      /\ s'.obuf_next = s.obuf_next /\ s'.obuf = s.obuf /\ s'.obuf_avail = s.obuf_avail
      /\ s'.rc = s.rc /\ s'.due = s.due
  BY DEF BufferFields
<1>2. Working(strm', pc', z', s')
  BY <1>1 DEF HIInv, Working, Buffers, output_buffer_bytes
<1>3. Reported(strm', pc', z', s', busy', ret')
  BY <1>1 DEF HIInv, Reported, Empty
<1>4. QED BY <1>2, <1>3 DEF HIInv

LEMMA HSetDictionaryStep ==
  ASSUME HIInv, HSetDictionary
  PROVE  HIInv'
<1>1. SetDictionary /\ z' = z /\ s' = s /\ busy' = busy /\ ret' = ret /\ pc' = pc
  BY DEF HSetDictionary, SetDictionary
<1>2. IInv'
  BY <1>1, SetDictionaryStep DEF HIInv
<1>3. DOMAIN strm = Fields
  BY DEF HIInv, IInv, Sound, Typed, Stream
<1>4. /\ strm'.total_in = strm.total_in /\ strm'.avail_in = strm.avail_in
      /\ strm'.out_fifo = strm.out_fifo
  BY <1>1, <1>3 DEF SetDictionary, Fields
<1>5. DOMAIN s = BufferFields
  BY DEF HIInv, Working, Buffers
<1>6. QED BY <1>1, <1>2, <1>4, <1>5, Untouched

LEMMA HSetHeaderStep ==
  ASSUME HIInv, NEW h \in Headers, HSetHeader(h)
  PROVE  HIInv'
<1>1. SetHeader(h) /\ z' = z /\ s' = s /\ busy' = busy /\ ret' = ret /\ pc' = pc
  BY DEF HSetHeader, SetHeader
<1>2. IInv'
  BY <1>1, SetHeaderStep DEF HIInv
<1>3. DOMAIN strm = Fields
  BY DEF HIInv, IInv, Sound, Typed, Stream
<1>4. /\ strm'.total_in = strm.total_in /\ strm'.avail_in = strm.avail_in
      /\ strm'.out_fifo = strm.out_fifo
  BY <1>1, <1>3 DEF SetHeader, Fields
<1>5. DOMAIN s = BufferFields
  BY DEF HIInv, Working, Buffers
<1>6. QED BY <1>1, <1>2, <1>4, <1>5, Untouched

\* The copy has the output of its source at the same place.
LEMMA HCopyStep ==
  ASSUME HIInv, HCopy
  PROVE  HIInv'
<1>1. Copy /\ z' = z /\ s' = CopiedBuffers(s) /\ busy' = busy /\ ret' = ret /\ pc' = pc
  BY DEF HCopy, Copy
<1>2. IInv'
  BY <1>1, CopyStep DEF HIInv
<1>3. DOMAIN strm = Fields
  BY DEF HIInv, IInv, Sound, Typed, Stream
<1>4. /\ strm'.total_in = strm.total_in /\ strm'.avail_in = strm.avail_in
      /\ strm'.out_fifo = strm.out_fifo
  BY <1>1, <1>3 DEF Copy, Copied, Fields
<1>5. Buffers(s)
  BY DEF HIInv, Working
<1>6. /\ s.obuf_total \in Nat /\ s.obuf \in Nat /\ s.obuf_next \in Nat
      /\ s.due = s.obuf - s.obuf_next /\ s.obuf_avail = s.obuf_total - s.due
  BY <1>5, BufferNumbers DEF Buffers
<1>7. s.obuf_next + (s.obuf_total - s.obuf_avail) = s.obuf
  BY <1>6
<1>8. s' = [s EXCEPT !.obuf = s.obuf]
  BY <1>1, <1>7 DEF CopiedBuffers
<1>9. DOMAIN s' = BufferFields /\ \A f \in BufferFields : s'[f] = s[f]
  BY <1>5, <1>8 DEF Buffers
<1>10. QED BY <1>1, <1>2, <1>4, <1>9, Untouched

-----------------------------------------------------------------------------
(* Theorems                                                                 *)

LEMMA HNextSound == HIInv /\ [HNext]_hvars => HIInv'
<1> SUFFICES ASSUME HIInv, [HNext]_hvars PROVE HIInv'
  OBVIOUS
<1>1. CASE Iterate
  BY <1>1, IterateStep
<1>2. CASE Unreported
  BY <1>2, UnreportedStep
<1>3. ASSUME NEW flush \in Modes, NEW in \in 0..MaxIn, NEW out \in OutSizes,
             Begin(flush, in, out) \/ Unbuffered(flush, in, out)
      PROVE  HIInv'
  BY <1>3, BeginStep, UnbufferedStep
<1>4. CASE HReset
  BY <1>4, HResetStep
<1>5. CASE HSetDictionary
  BY <1>5, HSetDictionaryStep
<1>6. ASSUME NEW h \in Headers, HSetHeader(h) PROVE HIInv'
  BY <1>6, HSetHeaderStep
<1>7. CASE HCopy
  BY <1>7, HCopyStep
<1>8. CASE UNCHANGED hvars
  BY <1>8 DEF hvars, HIInv, IInv
<1>9. QED BY <1>1, <1>2, <1>3, <1>4, <1>5, <1>6, <1>7, <1>8 DEF HNext

\* The stream keeps its invariant under the adapter, which holds all the input and output that
\* the stream does not.
THEOREM AdapterInvariant == HSpec => []HIInv
<1>1. HInit => HIInv
  BY HInitSound
<1>2. HIInv /\ [HNext]_hvars => HIInv'
  BY HNextSound
<1>3. QED BY <1>1, <1>2, PTL DEF HSpec

\* What the FIFO does not hold was delivered.
LEMMA NothingOwed ==
  ASSUME HeadersFit, IInv, pc # "failed", strm.out_fifo = <<>>
  PROVE  strm.owed = 0
<1>1. Typed(strm) /\ Ordered(strm)
  BY DEF IInv, Sound, FifoSound
<1>2. Len(strm.out_fifo) = 0
  OBVIOUS
<1>3. QED BY <1>1, <1>2, OrderedLength

LEMMA AdapterTypes == HIInv => HTypeOK
<1> SUFFICES ASSUME HIInv PROVE HTypeOK
  OBVIOUS
<1>1. TypeOK
  BY TypesFollow DEF HIInv
<1>2. Client(z) /\ Buffers(s) /\ busy \in BOOLEAN /\ ret \in Results3
  BY DEF HIInv, Working, Reported
<1>3. s.obuf_avail \in 0..s.obuf_total
  <2>1. /\ s.obuf_total \in Nat /\ s.due \in Nat /\ s.due = s.obuf - s.obuf_next
        /\ s.obuf_avail = s.obuf_total - s.due
        /\ s.obuf \in 0..s.obuf_total /\ s.obuf_next \in 0..s.obuf
    BY <1>2, BufferNumbers DEF Buffers
  <2>2. QED BY <2>1
<1>4. QED BY <1>1, <1>2, <1>3 DEF HTypeOK, Client, Buffers, Results3

\* With headers that fit the FIFO, every byte of input is compressed once and every byte the
\* stream writes is given out once, over all calls, buffers and copies; the output buffer of
\* h_deflateBound takes what becomes of a full input buffer; and Z_STREAM_END comes when the
\* trailer, with the length of all the input, has been delivered.
THEOREM BytesCompressedOnce == ASSUME HeadersFit PROVE HSpec => []BytesOnce
<1>1. HIInv => BytesOnce
  <2> SUFFICES ASSUME HIInv PROVE BytesOnce
    OBVIOUS
  <2>1. IInv /\ Working(strm, pc, z, s) /\ Reported(strm, pc, z, s, busy, ret)
    BY DEF HIInv
  <2>2. InputOnce
    BY <2>1 DEF Working, InputOnce
  <2>3. OutputOnce
    BY <2>1 DEF Working, Buffers, OutputOnce
  <2>4. EndIsEnd
    <3> SUFFICES ASSUME ret = "STREAM_END"
                 PROVE  /\ pc = "ended" /\ z.avail_in = 0 /\ strm.trailer_len = z.total_in
                        /\ s.due = 0 /\ strm.owed = 0
      BY DEF EndIsEnd
    <3>1. pc = "ended" /\ Empty(strm, z, s)
      BY <2>1 DEF Reported
    <3>2. strm.owed = 0
      BY <2>1, <3>1, NothingOwed DEF Empty
    <3>3. strm.trailer_len = strm.total_in /\ strm.total_in \in Nat
      BY <2>1, <3>1, Numeric DEF IInv, Sound, EndSound
    <3>4. z.total_in = strm.total_in
      BY <2>1, <3>1, <3>3 DEF Working, Empty
    <3>5. QED BY <3>1, <3>2, <3>3, <3>4 DEF Empty
  <2>5. BoundSuffices
    BY <2>1 DEF Reported, BoundSuffices
  <2>6. QED BY <2>2, <2>3, <2>4, <2>5, AdapterTypes DEF BytesOnce
<1>2. QED BY <1>1, AdapterInvariant, PTL

\* The stream is asked to finish with the last of the input, and only when the application
\* has asked for it; a flush that did not run out of room leaves nothing in front of the
\* stream, in its FIFO, or behind it.
THEOREM FlushTakesAll == ASSUME HeadersFit PROVE HSpec => []FlushReaches
<1>1. HIInv => FlushReaches
  <2> SUFFICES ASSUME HIInv PROVE FlushReaches
    OBVIOUS
  <2>1. IInv /\ Working(strm, pc, z, s) /\ Reported(strm, pc, z, s, busy, ret)
    BY DEF HIInv
  <2>2. FinishIsLast
    BY <2>1 DEF Working, FinishIsLast
  <2>3. FlushDelivers
    BY <2>1, NothingOwed DEF Reported, Empty, FlushDelivers
  <2>4. QED BY <2>2, <2>3 DEF FlushReaches
<1>2. QED BY <1>1, AdapterInvariant, PTL
=============================================================================
