---------------------------- MODULE InflateProofs ----------------------------
(***************************************************************************)
(* Theorems about InflateStream for every file, every size of the pieces   *)
(* in which input and output are given, every size of the tree buffer that *)
(* takes the trees of the files, and with DDCBs that fail: the header is   *)
(* parsed, what the next request gets continues the last one, and all the  *)
(* output comes once and then the end.                                     *)
(***************************************************************************)
EXTENDS InflateStream, FiniteSetTheorems, WellFoundedInduction, TLAPS

\* An extra field that is there has some bytes.
ExtraUsed == \A f \in Files : f.extra # 0

-----------------------------------------------------------------------------
(* The inductive invariant.  It is about a stream v that reads file f.     *)

Fields ==
  {"avail_in", "avail_out", "total_in", "total_out", "header_state", "prefx_len", "prefx_idx",
   "xlen", "gzip_head", "gzip_header_idx", "block_req", "saved", "postfx_idx", "area",
   "tree_bits", "pad_bits", "hdr_ib", "proc_bits", "scratch_ib", "scratch_bits",
   "inp_data_offs", "wsp_page", "dict_len", "dict", "obytes_in_dict", "eob_seen", "havedict",
   "tok"}

States == {"START", "ZLIB_ADLER", "EXTRA_LEN1", "EXTRA_LEN2", "EXTRA", "FNAME", "FCOMMENT",
           "FHCRC1", "FHCRC2", "DONE"}

\* Nothing was put into the buffers of the application.
Unsaved == [extra |-> 0, name |-> 0, comment |-> 0]

Stream(f, v) ==
  /\ DOMAIN v = Fields
  /\ v.avail_in \in Nat /\ v.total_in \in Nat /\ v.total_in + v.avail_in <= FileLen(f)
  /\ v.avail_out \in Nat /\ v.total_out \in 0..OutLen(f)
  /\ v.header_state \in States /\ v.prefx_len \in BOOLEAN /\ v.prefx_idx \in Nat
  /\ v.xlen \in 0..(2^XlenBits - 1) /\ v.gzip_header_idx \in Nat
  /\ v.gzip_head \in HeaderBuffers \cup {NoBuffers}
  /\ v.saved = [extra |-> v.saved.extra, name |-> v.saved.name, comment |-> v.saved.comment]
  /\ v.gzip_head = NoBuffers => v.saved = Unsaved
  /\ f.format # "GZIP" => v.gzip_head = NoBuffers
  /\ v.block_req \in BOOLEAN /\ v.postfx_idx \in 0..TrailerLen(f)
  /\ v.area \in [0..(AreaLen - 1) -> Int]
  /\ v.tree_bits \in Nat /\ v.pad_bits \in 0..63 /\ v.hdr_ib \in 0..7 /\ v.proc_bits \in 0..7
  /\ v.scratch_ib \in 0..7 /\ v.scratch_bits \in Nat /\ v.inp_data_offs \in Nat
  /\ Request(v).len <= TreeLen
  /\ v.wsp_page \in {0, 1} /\ v.dict_len \in Nat /\ v.dict \in [{0, 1} -> Int]
  /\ v.obytes_in_dict \in Nat /\ v.eob_seen \in BOOLEAN /\ v.havedict \in BOOLEAN
  /\ v.tok \in 1..(NTok(f) + 1)

Parsed(f, v) == f.format = "DEFL" \/ v.header_state = "DONE"

\* Where the optional fields of a gzip header begin.
NameAt(f) == IF f.extra = Absent THEN 10 ELSE 12 + f.extra
CommentAt(f) == NameAt(f) + f.name + 1
CrcAt(f) == CommentAt(f) + f.comment + 1

\* The state of the parser before byte p.
StateAt(f, p) ==
  CASE p >= HeaderLen(f) -> "DONE"
    [] p < HeaderLen(f) /\ f.format = "ZLIB" -> IF p < 2 THEN "START" ELSE "ZLIB_ADLER"
    [] p < HeaderLen(f) /\ f.format = "GZIP" ->
         IF p < 10 THEN "START"
         ELSE IF p < NameAt(f)
         THEN IF p = 10 THEN "EXTRA_LEN1" ELSE IF p = 11 THEN "EXTRA_LEN2" ELSE "EXTRA"
         ELSE IF p < CommentAt(f) THEN "FNAME"
         ELSE IF p < CrcAt(f) THEN "FCOMMENT"
         ELSE IF p = CrcAt(f) THEN "FHCRC1" ELSE "FHCRC2"

\* Bytes before byte p of a field of len bytes that begins at from.
Got(p, from, len) == IF p <= from THEN 0 ELSE IF p < from + len THEN p - from ELSE len

Lengths(f) == [extra |-> NotNegative(f.extra), name |-> f.name + 1, comment |-> f.comment + 1]
SavedAt(f, p) == [extra   |-> Got(p, 12, NotNegative(f.extra)),
                  name    |-> Got(p, NameAt(f), f.name + 1),
                  comment |-> Got(p, CommentAt(f), f.comment + 1)]

XlenAt(f, v) ==
  /\ v.header_state = "EXTRA_LEN2" => v.xlen = f.extra /\ v.gzip_header_idx = 0
  /\ v.header_state = "EXTRA" => v.xlen = NameAt(f) - v.prefx_idx

HeaderSound(f, v) ==
  f.format # "DEFL" =>
    /\ v.prefx_idx <= HeaderLen(f) /\ v.header_state = StateAt(f, v.prefx_idx)
    /\ v.header_state # "DONE" => v.total_in = v.prefx_idx
    /\ v.header_state = "DONE" => v.total_in >= HeaderLen(f)
    /\ XlenAt(f, v)
    /\ v.gzip_head # NoBuffers =>
         /\ v.saved = SavedAt(f, v.prefx_idx)
         /\ BufferOf(v.header_state) # "none" =>
              v.gzip_header_idx = v.saved[BufferOf(v.header_state)]

\* Nothing was sent.
Fresh(v) ==
  /\ v.tok = 1 /\ v.total_out = 0 /\ v.obytes_in_dict = 0 /\ ~v.eob_seen /\ v.postfx_idx = 0
  /\ v.scratch_bits = 0 /\ v.scratch_ib = 0
  /\ v.tree_bits = 0 /\ v.hdr_ib = 0 /\ v.pad_bits = 0
  /\ v.wsp_page = 0 /\ v.dict_len = 0

StoredIn(f, i) == f.hdrOf[i] # 0 /\ f.body[f.hdrOf[i]].stored
TreeBits(f, i) == IF f.hdrOf[i] = 0 THEN 0 ELSE IF StoredIn(f, i) THEN 40 ELSE f.body[f.hdrOf[i]].bits
TreeIb(f, i) == IF f.hdrOf[i] = 0 \/ StoredIn(f, i) THEN 0 ELSE Bit(f, f.hdrOf[i]) % 8

\* Bytes of a stored block from token i on.
RawLeft(f, i) ==
  Cardinality({m \in i..NTok(f) : f.hdrOf[m] = f.hdrOf[i] /\ f.body[m].k = "raw"})

\* The bits of the buffer and of the input that the next request starts with, when n bytes
\* were read.
BitsAt(f, v, n) ==
  /\ v.tok <= NTok(f) /\ f.body[v.tok].bits > 0
  /\ 8 * n = Bit(f, v.tok) + v.scratch_bits
  /\ v.scratch_ib = Bit(f, v.tok) % 8
  /\ v.scratch_bits < 8 \/ 8 * n < Bit(f, v.tok + 1)
  /\ v.tree_bits = TreeBits(f, v.tok) /\ v.hdr_ib = TreeIb(f, v.tok)
  /\ v.pad_bits = Padding(v.hdr_ib + v.tree_bits)

BitsSound(f, v) == BitsAt(f, v, v.total_in)

Base(v) == (v.hdr_ib + v.tree_bits + v.pad_bits) \div 8

AreaSound(f, v) ==
  /\ \A k \in 0..(InScratchBytes(v) - 1) : v.area[Base(v) + k] = Bit(f, v.tok) \div 8 + k
  /\ StoredIn(f, v.tok) => v.area[0] = StoredHeader(RawLeft(f, v.tok))
  /\ f.hdrOf[v.tok] # 0 /\ ~StoredIn(f, v.tok) =>
       \A k \in 0..((v.hdr_ib + v.tree_bits + 7) \div 8 - 1) :
          v.area[k] = Bit(f, f.hdrOf[v.tok]) \div 8 + k

BodySound(f, v) == Parsed(f, v) /\ ~v.eob_seen => BitsSound(f, v) /\ AreaSound(f, v)

OutSound(f, v) ==
  /\ v.total_out + v.obytes_in_dict = f.outAt[v.tok]
  /\ v.obytes_in_dict > 0 => v.dict[v.wsp_page] = f.outAt[v.tok] /\ v.dict_len >= v.obytes_in_dict

EndSound(f, v) ==
  /\ v.eob_seen => /\ v.tok = NTok(f) + 1 /\ Parsed(f, v)
                   /\ v.total_in = HeaderLen(f) + BodyLen(f) + v.postfx_idx
                   /\ f.bad => v.postfx_idx < 4
  /\ ~v.eob_seen => v.postfx_idx = 0

Sound(f, v) ==
  /\ Stream(f, v) /\ HeaderSound(f, v) /\ (~Parsed(f, v) => Fresh(v))
  /\ BodySound(f, v) /\ OutSound(f, v) /\ EndSound(f, v)

Window(f, i) == IF f.outAt[i] = 0 THEN User ELSE f.outAt[i]

\* The dictionary, when it is only set before anything is sent.
DictSound(f, v) ==
  /\ v.total_in = 0 \/ ~Parsed(f, v) => v.wsp_page = 0
  /\ Parsed(f, v) /\ ~v.eob_seen /\ v.dict_len # 0 => v.dict[v.wsp_page] = Window(f, v.tok)
  /\ v.havedict = TRUE /\ ~v.eob_seen => v.dict_len # 0

\* A header that was refused did not fit.
TooLong(f, v) == \E field \in {"extra", "name", "comment"} : Lengths(f)[field] > v.gzip_head[field]

Ended(f, v) ==
  /\ v.eob_seen /\ v.obytes_in_dict = 0 /\ v.postfx_idx = TrailerLen(f) /\ ~f.bad /\ v.avail_in = 0

IInv ==
  /\ file \in Files /\ Stream(file, strm) /\ strm.avail_out = 0
  /\ pc \in {"open", "fault", "failed", "ended"}
  /\ rc \in {"OK", "NEED_DICT", "ERR_GZIP_HDR", "STREAM_END", "DATA_ERROR", "EXECUTE_ERROR"}
  /\ strm.gzip_head # NoBuffers /\ strm.header_state = "DONE" => strm.saved = Lengths(file)
  /\ rc = "ERR_GZIP_HDR" => pc = "failed" /\ TooLong(file, strm)
  /\ rc = "NEED_DICT" => Parsed(file, strm)
  /\ pc = "fault" => rc = "NEED_DICT"
  /\ pc # "failed" => Sound(file, strm)
  /\ pc = "ended" => Ended(file, strm)
  /\ ~LateDict /\ pc = "open" => /\ DictSound(file, strm)
                                 /\ rc = "NEED_DICT" => strm.wsp_page = 0

-----------------------------------------------------------------------------
(* Numbers and files                                                        *)

LEMMA TheOnly == ASSUME NEW x PROVE The({x}) = x
BY DEF The

LEMMA LeastIn ==
  ASSUME NEW S \in SUBSET Nat, S # {}
  PROVE  \E x \in S : \A y \in S : x <= y
<1>1. PICK x \in S : \A y \in S : ~(<<y, x>> \in OpToRel(<, Nat))
  BY WFMin, NatLessThanWellFounded, Zenon
<1>2. ASSUME NEW y \in S
      PROVE  x <= y
  <2>1. x \in Nat /\ y \in Nat
    OBVIOUS
  <2>2. ~(y < x)
    BY <1>1, <2>1, Zenon DEF OpToRel
  <2>3. QED BY <2>1, <2>2
<1>3. QED BY <1>2

\* What a file is.
LEMMA FileGives ==
  ASSUME NEW f \in Files
  PROVE  /\ f.format \in {"DEFL", "GZIP", "ZLIB"} /\ (f.bad => f.format # "DEFL")
         /\ f.extra \in 0..255 \cup {Absent}
         /\ f.name \in Nat \cup {Absent} /\ f.comment \in Nat \cup {Absent}
         /\ f.hcrc \in BOOLEAN /\ f.dict \in BOOLEAN /\ f.bad \in BOOLEAN
         /\ f.header = HeaderBytes(f)
         /\ NTok(f) \in Nat \ {0}
         /\ \A i \in 1..NTok(f) : /\ f.body[i].k \in Kinds /\ f.body[i].bits \in Nat
                                  /\ f.body[i].stored \in BOOLEAN
         /\ Numbered(f) /\ InBlocks(f)
<1>1. /\ {f.name, f.comment} \subseteq Nat \cup {Absent}
      /\ {f.hcrc, f.dict, f.bad} \subseteq BOOLEAN
      /\ f.body \in Seq(Token) /\ f.body # <<>>
  BY FilesAssumption
<1>2. Len(f.body) \in Nat /\ \A i \in 1..Len(f.body) : f.body[i] \in Token
  BY <1>1
<1>3. Len(f.body) # 0
  BY <1>1
<1>4. QED BY <1>1, <1>2, <1>3, FilesAssumption DEF Token, NTok

\* The numbers of a file; at and outAt never decrease.
LEMMA NumbersGive ==
  ASSUME NEW f \in Files, NEW i \in 1..(NTok(f) + 1)
  PROVE  /\ f.at[i] \in Nat /\ f.outAt[i] \in Nat
         /\ f.at[1] = 0 /\ f.outAt[1] = 0
         /\ i <= NTok(f) => /\ i + 1 \in 1..(NTok(f) + 1)
                            /\ f.at[i + 1] = f.at[i] + f.body[i].bits
                            /\ f.outAt[i + 1] >= f.outAt[i]
<1>1. NTok(f) \in Nat \ {0} /\ Numbered(f) /\ NTok(f) = Len(f.body)
  BY FileGives DEF NTok
<1>2. QED BY <1>1 DEF Numbered

LEMMA NumbersGrow ==
  ASSUME NEW f \in Files, NEW i \in 1..(NTok(f) + 1), NEW j \in 1..(NTok(f) + 1), i <= j
  PROVE  f.at[i] <= f.at[j] /\ f.outAt[i] <= f.outAt[j]
<1>1. NTok(f) \in Nat
  BY FileGives
<1> DEFINE S == {k \in Nat : i <= k /\ k <= j /\ (f.at[k] < f.at[i] \/ f.outAt[k] < f.outAt[i])}
<1>2. ASSUME S # {}
      PROVE  FALSE
  <2>1. PICK k \in S : \A y \in S : k <= y
    BY <1>2, LeastIn
  <2>2. k # i /\ k - 1 \in 1..NTok(f) /\ i <= k - 1 /\ k - 1 <= j
    BY <1>1, <2>1, NumbersGive
  <2>3. k - 1 \notin S
    BY <2>1, <2>2
  <2>4. PICK p \in 1..NTok(f) : p = k - 1
    BY <2>2
  <2>5. /\ f.at[p] >= f.at[i] /\ f.outAt[p] >= f.outAt[i]
    <3>1. p \in 1..(NTok(f) + 1)
      BY <1>1, <2>4
    <3>2. f.at[p] \in Nat /\ f.outAt[p] \in Nat /\ f.at[i] \in Nat /\ f.outAt[i] \in Nat
      BY <3>1, NumbersGive
    <3>3. QED BY <2>2, <2>3, <2>4, <3>2
  <2>6. /\ f.at[p] \in Nat /\ f.outAt[p] \in Nat /\ f.body[p].bits \in Nat
        /\ f.at[p + 1] = f.at[p] + f.body[p].bits /\ f.outAt[p + 1] >= f.outAt[p]
    BY <1>1, <2>4, NumbersGive, FileGives
  <2>7. p + 1 = k /\ f.at[k] \in Nat /\ f.outAt[k] \in Nat /\ f.at[i] \in Nat /\ f.outAt[i] \in Nat
    BY <1>1, <2>2, <2>4, NumbersGive
  <2>8. QED BY <2>1, <2>5, <2>6, <2>7
<1>3. j \notin S /\ j \in Nat
  BY <1>2
<1>4. f.at[i] \in Nat /\ f.outAt[i] \in Nat /\ f.at[j] \in Nat /\ f.outAt[j] \in Nat
  BY NumbersGive
<1>5. QED BY <1>3, <1>4

\* Sequences that follow each other.
LEMMA Concatenated ==
  ASSUME NEW p \in Seq(Nat), NEW q \in Seq(Nat)
  PROVE  /\ p \o q \in Seq(Nat) /\ Len(p \o q) = Len(p) + Len(q)
         /\ \A i \in 1..Len(p) : (p \o q)[i] = p[i]
         /\ \A i \in 1..Len(q) : (p \o q)[Len(p) + i] = q[i]
OBVIOUS

LEMMA OnesGive ==
  ASSUME NEW n \in Nat
  PROVE  Ones(n) \in Seq(Nat) /\ Len(Ones(n)) = n /\ \A i \in 1..n : Ones(n)[i] = 1
BY DEF Ones

\* A string with its zero.
LEMMA ZStringGives ==
  ASSUME NEW len \in Nat \cup {Absent}
  PROVE  /\ ZString(len) \in Seq(Nat) /\ Len(ZString(len)) = len + 1
         /\ \A i \in 1..len : ZString(len)[i] = 1
         /\ len # Absent => ZString(len)[len + 1] = 0
<1>1. CASE len = Absent
  BY <1>1 DEF ZString, Absent
<1>2. CASE len # Absent
  <2>1. len \in Nat
    BY <1>2
  <2>2. PICK o : o = Ones(len)
    OBVIOUS
  <2>3. o \in Seq(Nat) /\ Len(o) = len /\ \A i \in 1..len : o[i] = 1
    BY <2>1, <2>2, OnesGive
  <2>4. ZString(len) = Append(o, 0)
    BY <1>2, <2>2 DEF ZString
  <2>5. QED BY <2>1, <2>3, <2>4
<1>3. QED BY <1>1, <1>2

\* The bytes of a gzip header that the parser looks at.
LEMMA GzipBytes ==
  ASSUME NEW f \in Files, f.format = "GZIP"
  PROVE  /\ HeaderLen(f) = CrcAt(f) + (IF f.hcrc THEN 2 ELSE 0)
         /\ NameAt(f) \in Nat /\ CommentAt(f) \in Nat /\ CrcAt(f) \in Nat
         /\ 10 <= NameAt(f) /\ NameAt(f) <= CommentAt(f) /\ CommentAt(f) <= CrcAt(f)
         /\ f.extra # Absent => f.header[11] = f.extra /\ f.header[12] = 0
         /\ \A p \in NameAt(f)..(CommentAt(f) - 1) :
              f.header[p + 1] = IF p = CommentAt(f) - 1 THEN 0 ELSE 1
         /\ \A p \in CommentAt(f)..(CrcAt(f) - 1) :
              f.header[p + 1] = IF p = CrcAt(f) - 1 THEN 0 ELSE 1
<1> DEFINE ext == IF f.extra = Absent THEN <<>> ELSE <<f.extra, 0>> \o Ones(f.extra)
           crc == IF f.hcrc THEN Ones(2) ELSE <<>>
<1>1. /\ f.extra \in 0..255 \cup {Absent}
      /\ f.name \in Nat \cup {Absent} /\ f.comment \in Nat \cup {Absent} /\ f.hcrc \in BOOLEAN
      /\ f.header = HeaderBytes(f)
  BY FileGives
<1>2. PICK o : o = Ones(10)
  OBVIOUS
<1>3. PICK e : e = ext
  OBVIOUS
<1>4. PICK n : n = ZString(f.name)
  OBVIOUS
<1>5. PICK c : c = ZString(f.comment)
  OBVIOUS
<1>6. PICK k : k = crc
  OBVIOUS
<1>7. f.header = o \o e \o n \o c \o k
  BY <1>1, <1>2, <1>3, <1>4, <1>5, <1>6 DEF HeaderBytes
<1>8. o \in Seq(Nat) /\ Len(o) = 10
  BY <1>2, OnesGive
<1>9. e \in Seq(Nat) /\ 10 + Len(e) = NameAt(f) /\ (f.extra # Absent => e[1] = f.extra /\ e[2] = 0)
  <2>1. CASE f.extra = Absent
    BY <1>3, <2>1 DEF NameAt
  <2>2. CASE f.extra # Absent
    <3>1. f.extra \in Nat
      BY <1>1, <2>2
    <3>2. PICK r : r = Ones(f.extra)
      OBVIOUS
    <3>3. r \in Seq(Nat) /\ Len(r) = f.extra
      BY <3>1, <3>2, OnesGive
    <3>4. e = <<f.extra, 0>> \o r
      BY <1>3, <2>2, <3>2
    <3>5. PICK t : t = <<f.extra, 0>>
      OBVIOUS
    <3>6. t \in Seq(Nat) /\ Len(t) = 2 /\ t[1] = f.extra /\ t[2] = 0
      BY <3>1, <3>5
    <3>7. e \in Seq(Nat) /\ Len(e) = 2 + f.extra /\ e[1] = f.extra /\ e[2] = 0
      BY <3>3, <3>4, <3>5, <3>6, Concatenated
    <3>8. QED BY <2>2, <3>1, <3>7 DEF NameAt
  <2>3. QED BY <2>1, <2>2
<1>10. /\ n \in Seq(Nat) /\ Len(n) = f.name + 1 /\ (\A i \in 1..f.name : n[i] = 1)
       /\ f.name # Absent => n[f.name + 1] = 0
  BY <1>1, <1>4, ZStringGives
<1>11. /\ c \in Seq(Nat) /\ Len(c) = f.comment + 1 /\ (\A i \in 1..f.comment : c[i] = 1)
       /\ f.comment # Absent => c[f.comment + 1] = 0
  BY <1>1, <1>5, ZStringGives
<1>12. k \in Seq(Nat) /\ Len(k) = IF f.hcrc THEN 2 ELSE 0
  BY <1>6, OnesGive
<1>13. PICK a : a = o \o e
  OBVIOUS
<1>14. /\ a \in Seq(Nat) /\ Len(a) = NameAt(f)
       /\ f.extra # Absent => a[11] = f.extra /\ a[12] = 0
  <2>1. /\ a \in Seq(Nat) /\ Len(a) = Len(o) + Len(e)
        /\ \A i \in 1..Len(e) : a[Len(o) + i] = e[i]
    BY <1>8, <1>9, <1>13, Concatenated
  <2>2. ASSUME f.extra # Absent
        PROVE  a[11] = f.extra /\ a[12] = 0
    <3>1. f.extra \in Nat
      BY <1>1, <2>2
    <3>2. Len(e) \in Nat
      BY <1>9
    <3>3. 10 + Len(e) = 12 + f.extra
      BY <1>9, <2>2 DEF NameAt
    <3>4. 1 \in 1..Len(e) /\ 2 \in 1..Len(e)
      BY <3>1, <3>2, <3>3
    <3>5. a[Len(o) + 1] = e[1] /\ a[Len(o) + 2] = e[2]
      BY <2>1, <3>4
    <3>6. a[11] = e[1] /\ a[12] = e[2]
      BY <1>8, <3>5
    <3>7. QED BY <1>9, <2>2, <3>6
  <2>3. QED BY <1>8, <1>9, <2>1, <2>2
<1>15. PICK b : b = a \o n
  OBVIOUS
<1>16. /\ b \in Seq(Nat) /\ Len(b) = NameAt(f) + f.name + 1
       /\ \A i \in 1..NameAt(f) : b[i] = a[i]
       /\ \A i \in 1..(f.name + 1) : b[NameAt(f) + i] = n[i]
  <2>1. /\ b \in Seq(Nat) /\ Len(b) = Len(a) + Len(n)
        /\ \A i \in 1..Len(a) : b[i] = a[i]
        /\ \A i \in 1..Len(n) : b[Len(a) + i] = n[i]
    BY <1>10, <1>14, <1>15, Concatenated
  <2>2. Len(a) = NameAt(f) /\ Len(n) = f.name + 1 /\ f.name \in Int /\ NameAt(f) \in Int
    BY <1>1, <1>10, <1>14 DEF Absent
  <2>3. QED BY <2>1, <2>2
<1>17. PICK d : d = b \o c
  OBVIOUS
<1>18. /\ d \in Seq(Nat) /\ Len(d) = CommentAt(f) + f.comment + 1
       /\ \A i \in 1..CommentAt(f) : d[i] = b[i]
       /\ \A i \in 1..(f.comment + 1) : d[CommentAt(f) + i] = c[i]
  <2>1. /\ d \in Seq(Nat) /\ Len(d) = Len(b) + Len(c)
        /\ \A i \in 1..Len(b) : d[i] = b[i]
        /\ \A i \in 1..Len(c) : d[Len(b) + i] = c[i]
    BY <1>11, <1>16, <1>17, Concatenated
  <2>2. Len(b) = CommentAt(f) /\ Len(c) = f.comment + 1 /\ f.comment \in Int /\ CommentAt(f) \in Int
    BY <1>1, <1>11, <1>16 DEF CommentAt, Absent
  <2>3. QED BY <2>1, <2>2
<1>19. /\ f.header \in Seq(Nat) /\ Len(f.header) = CrcAt(f) + (IF f.hcrc THEN 2 ELSE 0)
       /\ \A i \in 1..CrcAt(f) : f.header[i] = d[i]
  <2>1. f.header = d \o k
    BY <1>7, <1>13, <1>15, <1>17
  <2>2. /\ d \o k \in Seq(Nat) /\ Len(d \o k) = Len(d) + Len(k)
        /\ \A i \in 1..Len(d) : (d \o k)[i] = d[i]
    BY <1>12, <1>18, Concatenated
  <2>3. Len(d) = CrcAt(f)
    BY <1>18 DEF CrcAt
  <2>4. QED BY <1>12, <2>1, <2>2, <2>3
<1>20. /\ NameAt(f) \in Nat /\ CommentAt(f) \in Nat /\ CrcAt(f) \in Nat /\ 10 <= NameAt(f)
       /\ CommentAt(f) = NameAt(f) + f.name + 1 /\ CrcAt(f) = CommentAt(f) + f.comment + 1
       /\ NameAt(f) <= CommentAt(f) /\ CommentAt(f) <= CrcAt(f)
       /\ f.extra # Absent => 12 <= NameAt(f)
  <2>1. f.name + 1 \in Nat /\ f.comment + 1 \in Nat /\ f.name \in Int /\ f.comment \in Int
    BY <1>1 DEF Absent
  <2>2. NameAt(f) \in Nat /\ 10 <= NameAt(f) /\ (f.extra # Absent => 12 <= NameAt(f))
    BY <1>1 DEF NameAt
  <2>3. CommentAt(f) = NameAt(f) + f.name + 1 /\ CrcAt(f) = CommentAt(f) + f.comment + 1
    BY DEF CommentAt, CrcAt
  <2>4. QED BY <2>1, <2>2, <2>3
<1> f.name \in Int /\ f.comment \in Int
  BY <1>1 DEF Absent
<1>21. f.extra # Absent => f.header[11] = f.extra /\ f.header[12] = 0
  <2>1. ASSUME f.extra # Absent, NEW i \in 11..12
        PROVE  f.header[i] = a[i]
    <3>1. i \in 1..NameAt(f) /\ i \in 1..CommentAt(f) /\ i \in 1..CrcAt(f)
      BY <1>20, <2>1
    <3>2. QED BY <1>16, <1>18, <1>19, <3>1
  <2>2. QED BY <1>14, <2>1
<1>22. ASSUME NEW p \in NameAt(f)..(CommentAt(f) - 1)
       PROVE  f.header[p + 1] = IF p = CommentAt(f) - 1 THEN 0 ELSE 1
  <2>1. PICK i \in 1..(f.name + 1) : i = p + 1 - NameAt(f)
    BY <1>1, <1>20
  <2>2. p + 1 = NameAt(f) + i /\ p + 1 \in 1..CommentAt(f) /\ p + 1 \in 1..CrcAt(f)
    BY <1>20, <2>1
  <2>3. f.header[p + 1] = b[p + 1]
    BY <1>18, <1>19, <2>2
  <2>4. f.header[p + 1] = n[i]
    BY <1>16, <2>1, <2>2, <2>3
  <2>5. i = f.name + 1 <=> p = CommentAt(f) - 1
    BY <1>20, <2>1
  <2>6. i # f.name + 1 => i \in 1..f.name
    BY <2>1
  <2>7. f.name # Absent
    BY <2>1 DEF Absent
  <2>8. QED BY <1>10, <2>4, <2>5, <2>6, <2>7
<1>23. ASSUME NEW p \in CommentAt(f)..(CrcAt(f) - 1)
       PROVE  f.header[p + 1] = IF p = CrcAt(f) - 1 THEN 0 ELSE 1
  <2>1. PICK i \in 1..(f.comment + 1) : i = p + 1 - CommentAt(f)
    BY <1>1, <1>20
  <2>2. p + 1 = CommentAt(f) + i /\ p + 1 \in 1..CrcAt(f)
    BY <1>20, <2>1
  <2>3. f.header[p + 1] = c[i]
    BY <1>18, <1>19, <2>2
  <2>4. i = f.comment + 1 <=> p = CrcAt(f) - 1
    BY <1>20, <2>1
  <2>5. i # f.comment + 1 => i \in 1..f.comment
    BY <2>1
  <2>6. f.comment # Absent
    BY <2>1 DEF Absent
  <2>7. QED BY <1>11, <2>3, <2>4, <2>5, <2>6
<1>24. QED BY <1>19, <1>20, <1>21, <1>22, <1>23 DEF HeaderLen

\* The length of a header.
LEMMA HeaderLength ==
  ASSUME NEW f \in Files
  PROVE  /\ HeaderLen(f) \in Nat
         /\ f.format = "DEFL" => HeaderLen(f) = 0
         /\ f.format = "ZLIB" => HeaderLen(f) = IF f.dict THEN 6 ELSE 2
         /\ f.format = "GZIP" => HeaderLen(f) >= 10
<1>1. f.header = HeaderBytes(f) /\ f.format \in {"DEFL", "GZIP", "ZLIB"}
      /\ f.dict \in BOOLEAN /\ f.hcrc \in BOOLEAN
  BY FileGives
<1>2. CASE f.format = "DEFL"
  BY <1>1, <1>2 DEF HeaderBytes, HeaderLen
<1>3. CASE f.format = "ZLIB"
  <2>1. PICK o, q : o = Ones(2) /\ q = Ones(4)
    OBVIOUS
  <2>2. o \in Seq(Nat) /\ Len(o) = 2 /\ q \in Seq(Nat) /\ Len(q) = 4
    BY <2>1, OnesGive
  <2>3. CASE f.dict
    <3>1. f.header = o \o q
      BY <1>1, <1>3, <2>1, <2>3 DEF HeaderBytes
    <3>2. Len(o \o q) = Len(o) + Len(q)
      BY <2>2, Concatenated
    <3>3. QED BY <1>3, <2>2, <2>3, <3>1, <3>2 DEF HeaderLen
  <2>4. CASE ~f.dict
    <3>1. f.header = o \o <<>>
      BY <1>1, <1>3, <2>1, <2>4 DEF HeaderBytes
    <3>2. o \o <<>> = o
      BY <2>2
    <3>3. QED BY <1>3, <2>2, <2>4, <3>1, <3>2 DEF HeaderLen
  <2>5. QED BY <2>3, <2>4
<1>4. CASE f.format = "GZIP"
  BY <1>1, <1>4, GzipBytes
<1>5. QED BY <1>1, <1>2, <1>3, <1>4

\* Token i takes its bits before the next ones.
LEMMA BitsGrow ==
  ASSUME NEW f \in Files, NEW i \in 1..NTok(f), NEW j \in (i + 1)..(NTok(f) + 1)
  PROVE  Bit(f, i) + f.body[i].bits <= Bit(f, j)
<1>1. /\ NTok(f) \in Nat /\ f.body[i].bits \in Nat
      /\ i + 1 \in 1..(NTok(f) + 1) /\ j \in 1..(NTok(f) + 1)
  BY FileGives
<1>2. f.at[i + 1] = f.at[i] + f.body[i].bits /\ f.at[i] \in Nat /\ f.at[i + 1] \in Nat /\ f.at[j] \in Nat
  BY <1>1, NumbersGive
<1>3. f.at[i + 1] <= f.at[j]
  BY <1>1, NumbersGrow
<1>4. HeaderLen(f) \in Nat
  BY HeaderLength
<1>5. QED BY <1>1, <1>2, <1>3, <1>4 DEF Bit

\* What follows what in a block.
LEMMA BlocksGive ==
  ASSUME NEW f \in Files, NEW i \in 1..NTok(f)
  PROVE  /\ f.hdrOf[i] \in 0..NTok(f) /\ f.hdrOf[i + 1] \in 0..NTok(f)
         /\ f.hdrOf[1] = 0 /\ f.hdrOf[NTok(f) + 1] = 0
         /\ f.hdrOf[i] = 0 <=> f.body[i].k = "hdr"
         /\ f.hdrOf[i + 1] = CASE f.body[i].k = "hdr" -> i [] f.body[i].k = "eob" -> 0
                               [] OTHER -> f.hdrOf[i]
         /\ f.body[i].k = "hdr" => f.body[i].bits > (IF f.body[i].stored THEN 32 ELSE 0)
         /\ f.body[i].k = "sym" => f.body[i].bits > 0 /\ ~f.body[f.hdrOf[i]].stored
         /\ f.body[i].k = "raw" => f.body[i].bits = 8 /\ f.body[f.hdrOf[i]].stored
         /\ f.body[i].k = "eob" => (f.body[i].bits = 0 <=> f.body[f.hdrOf[i]].stored)
<1>1. NTok(f) \in Nat /\ InBlocks(f) /\ NTok(f) = Len(f.body)
  BY FileGives DEF NTok
<1>2. f.hdrOf[i] \in 0..NTok(f) /\ f.hdrOf[i + 1] \in 0..NTok(f)
  <2>1. f.hdrOf \in [1..(NTok(f) + 1) -> 0..NTok(f)]
    BY <1>1, Zenon DEF InBlocks
  <2>2. i \in 1..(NTok(f) + 1) /\ i + 1 \in 1..(NTok(f) + 1)
    BY <1>1
  <2>3. QED BY <2>1, <2>2
<1>3. f.hdrOf[1] = 0 /\ f.hdrOf[NTok(f) + 1] = 0
  BY <1>1 DEF InBlocks
<1>4. /\ f.hdrOf[i] = 0 <=> f.body[i].k = "hdr"
      /\ f.hdrOf[i + 1] = CASE f.body[i].k = "hdr" -> i [] f.body[i].k = "eob" -> 0
                            [] OTHER -> f.hdrOf[i]
      /\ f.body[i].k = "hdr" => f.body[i].bits > (IF f.body[i].stored THEN 32 ELSE 0)
  BY <1>1, Zenon DEF InBlocks
<1>5. /\ f.body[i].k = "sym" => f.body[i].bits > 0 /\ ~f.body[f.hdrOf[i]].stored
      /\ f.body[i].k = "raw" => f.body[i].bits = 8 /\ f.body[f.hdrOf[i]].stored
      /\ f.body[i].k = "eob" => (f.body[i].bits = 0 <=> f.body[f.hdrOf[i]].stored)
  BY <1>1, Zenon DEF InBlocks
<1>6. QED BY <1>2, <1>3, <1>4, <1>5

\* The header of a block begins it.
LEMMA HeaderOfBlock ==
  ASSUME NEW f \in Files, NEW i \in 1..(NTok(f) + 1), f.hdrOf[i] # 0
  PROVE  /\ f.hdrOf[i] \in 1..(i - 1) /\ f.body[f.hdrOf[i]].k = "hdr"
         /\ \A m \in (f.hdrOf[i] + 1)..i : f.hdrOf[m] = f.hdrOf[i]
<1> DEFINE Good(k) == f.hdrOf[k] # 0 =>
             /\ f.hdrOf[k] \in 1..(k - 1) /\ f.body[f.hdrOf[k]].k = "hdr"
             /\ \A m \in (f.hdrOf[k] + 1)..k : f.hdrOf[m] = f.hdrOf[k]
           S == {k \in Nat : k \in 1..(NTok(f) + 1) /\ ~Good(k)}
<1>1. NTok(f) \in Nat \ {0}
  BY FileGives
<1>2. ASSUME S # {}
      PROVE  FALSE
  <2>1. PICK k \in S : \A y \in S : k <= y
    BY <1>2, LeastIn
  <2>2. k # 1
    <3>1. 1 \in 1..NTok(f)
      BY <1>1
    <3>2. f.hdrOf[1] = 0
      BY <3>1, BlocksGive
    <3>3. Good(1)
      BY <3>2
    <3>4. QED BY <2>1, <3>3
  <2>3. PICK p \in 1..NTok(f) : k = p + 1
    BY <1>1, <2>1, <2>2
  <2>4. Good(p)
    BY <1>1, <2>1, <2>3
  <2>5. /\ f.hdrOf[p] \in 0..NTok(f)
        /\ f.hdrOf[p] = 0 <=> f.body[p].k = "hdr"
        /\ f.hdrOf[k] = CASE f.body[p].k = "hdr" -> p [] f.body[p].k = "eob" -> 0
                          [] OTHER -> f.hdrOf[p]
    BY <2>3, BlocksGive
  <2>6. CASE f.body[p].k = "hdr"
    BY <2>1, <2>3, <2>5, <2>6
  <2>7. CASE f.body[p].k = "eob"
    BY <2>1, <2>5, <2>7
  <2>8. CASE f.body[p].k \notin {"hdr", "eob"}
    <3>1. f.hdrOf[k] = f.hdrOf[p] /\ f.hdrOf[p] # 0
      BY <2>5, <2>8
    <3>2. f.hdrOf[k] \in 1..(k - 1) /\ f.body[f.hdrOf[k]].k = "hdr"
      BY <2>3, <2>4, <3>1
    <3>3. \A m \in (f.hdrOf[k] + 1)..k : f.hdrOf[m] = f.hdrOf[k]
      BY <2>3, <2>4, <3>1
    <3>4. QED BY <2>1, <3>2, <3>3
  <2>9. QED BY <2>6, <2>7, <2>8
<1>3. i \notin S /\ i \in Nat
  BY <1>1, <1>2
<1>4. Good(i)
  BY <1>3
<1>5. QED BY <1>4

\* Inside a block there are no other headers and no markers.
LEMMA NoneInBlock ==
  ASSUME NEW f \in Files, NEW i \in 1..(NTok(f) + 1), f.hdrOf[i] # 0,
         NEW m \in (f.hdrOf[i] + 1)..(i - 1)
  PROVE  f.body[m].k \notin {"hdr", "eob"}
<1>1. /\ f.hdrOf[i] \in 1..(i - 1) /\ NTok(f) \in Nat
      /\ \A k \in (f.hdrOf[i] + 1)..i : f.hdrOf[k] = f.hdrOf[i]
  BY HeaderOfBlock, FileGives
<1>2. m \in 1..NTok(f) /\ m \in (f.hdrOf[i] + 1)..i /\ m + 1 \in (f.hdrOf[i] + 1)..i
  BY <1>1
<1>3. f.hdrOf[m] # 0 /\ f.hdrOf[m + 1] # 0
  BY <1>1, <1>2
<1>4. QED BY <1>2, <1>3, BlocksGive

\* Blocks follow each other without a gap.
LEMMA BetweenBlocks ==
  ASSUME NEW f \in Files, NEW i \in 2..(NTok(f) + 1), f.hdrOf[i] = 0
  PROVE  f.body[i - 1].k = "eob"
<1>1. NTok(f) \in Nat
  BY FileGives
<1>2. PICK p \in 1..NTok(f) : i = p + 1
  BY <1>1
<1>3. p = i - 1
  BY <1>1, <1>2
<1>4. f.body[p].k = "eob"
  BY <1>1, <1>2, BlocksGive
<1>5. QED BY <1>3, <1>4

\* The first bit of a token, and the last byte of the body.
LEMMA BitsGive ==
  ASSUME NEW f \in Files, NEW i \in 1..(NTok(f) + 1)
  PROVE  /\ Bit(f, i) \in Nat /\ Bit(f, i) >= 8 * HeaderLen(f)
         /\ Bit(f, i) = 8 * HeaderLen(f) + f.at[i]
         /\ Bit(f, 1) = 8 * HeaderLen(f)
         /\ Bit(f, i) <= Bit(f, NTok(f) + 1)
         /\ i <= NTok(f) => Bit(f, i + 1) = Bit(f, i) + f.body[i].bits
<1>1. NTok(f) \in Nat /\ NTok(f) + 1 \in 1..(NTok(f) + 1) /\ i <= NTok(f) + 1
  BY FileGives
<1>2. HeaderLen(f) \in Nat /\ f.at[i] \in Nat /\ f.at[1] = 0 /\ f.at[NTok(f) + 1] \in Nat
  BY <1>1, HeaderLength, NumbersGive
<1>3. f.at[i] <= f.at[NTok(f) + 1]
  BY <1>1, NumbersGrow
<1>4. i <= NTok(f) => f.at[i + 1] = f.at[i] + f.body[i].bits /\ f.body[i].bits \in Nat
  BY <1>1, NumbersGive, FileGives
<1>5. QED BY <1>1, <1>2, <1>3, <1>4 DEF Bit

LEMMA LengthsGive ==
  ASSUME NEW f \in Files
  PROVE  /\ HeaderLen(f) \in Nat /\ BodyLen(f) \in Nat /\ TrailerLen(f) \in Nat /\ OutLen(f) \in Nat
         /\ FileLen(f) = HeaderLen(f) + BodyLen(f) + TrailerLen(f) /\ FileLen(f) \in Nat
         /\ HeaderLen(f) + BodyLen(f) = (Bit(f, NTok(f) + 1) + 7) \div 8
         /\ f.bad => TrailerLen(f) >= 4
<1>1. NTok(f) \in Nat /\ NTok(f) + 1 \in 1..(NTok(f) + 1)
  BY FileGives
<1>2. HeaderLen(f) \in Nat /\ f.at[NTok(f) + 1] \in Nat /\ f.outAt[NTok(f) + 1] \in Nat
  BY <1>1, HeaderLength, NumbersGive
<1>3. TrailerLen(f) \in Nat /\ (f.bad => TrailerLen(f) >= 4)
  BY FileGives DEF TrailerLen
<1>4. BodyLen(f) = (f.at[NTok(f) + 1] + 7) \div 8 /\ Bit(f, NTok(f) + 1) = 8 * HeaderLen(f) + f.at[NTok(f) + 1]
  BY DEF BodyLen, Bit
<1>5. BodyLen(f) \in Nat /\ HeaderLen(f) + BodyLen(f) = (Bit(f, NTok(f) + 1) + 7) \div 8
  BY <1>2, <1>4
<1>6. QED BY <1>2, <1>3, <1>5 DEF FileLen, OutLen

-----------------------------------------------------------------------------
(* The loop over the header's bytes                                         *)

\* One pass, and the passes up to n.
Pass(h) == IF h[2] = "MORE" THEN HeaderByte(h[1]) ELSE h
Passes(v, g, n) ==
  g = [k \in 0..n |-> IF k = 0 THEN <<v, "MORE">> ELSE Pass(g[k - 1])]

LEMMA PassesExist ==
  ASSUME NEW v, NEW n \in Nat
  PROVE  \E g : Passes(v, g, n)
<1> DEFINE S == {k \in Nat : ~\E g : Passes(v, g, k)}
<1>1. ASSUME S # {}
      PROVE  FALSE
  <2>1. PICK k \in S : \A y \in S : k <= y
    BY <1>1, LeastIn
  <2>2. CASE k = 0
    <3>1. PICK g : g = [i \in 0..0 |-> <<v, "MORE">>]
      OBVIOUS
    <3>2. Passes(v, g, 0)
      BY <3>1 DEF Passes
    <3>3. QED BY <2>1, <2>2, <3>2
  <2>3. CASE k # 0
    <3>1. PICK m \in Nat : k = m + 1
      BY <2>1, <2>3
    <3>2. m \notin S
      BY <2>1, <3>1
    <3>3. PICK h : Passes(v, h, m)
      BY <3>2
    <3>4. PICK g : g = [i \in 0..k |-> IF i <= m THEN h[i] ELSE Pass(h[m])]
      OBVIOUS
    <3>5. ASSUME NEW i \in 0..k
          PROVE  g[i] = IF i = 0 THEN <<v, "MORE">> ELSE Pass(g[i - 1])
      <4>1. CASE i = 0
        BY <3>1, <3>3, <3>4, <4>1 DEF Passes
      <4>2. CASE i # 0 /\ i <= m
        <5>1. i \in 0..m /\ i - 1 \in 0..k /\ i - 1 <= m
          BY <3>1, <4>2
        <5>2. h[i] = Pass(h[i - 1])
          BY <3>3, <4>2, <5>1 DEF Passes
        <5>3. g[i] = h[i] /\ g[i - 1] = h[i - 1]
          BY <3>4, <4>2, <5>1
        <5>4. QED BY <4>2, <5>2, <5>3
      <4>3. CASE i = k
        <5>1. g[k] = Pass(h[m]) /\ g[m] = h[m] /\ k - 1 = m /\ k # 0
          BY <3>1, <3>4
        <5>2. QED BY <4>3, <5>1
      <4>4. QED BY <3>1, <4>1, <4>2, <4>3
    <3>6. g = [i \in 0..k |-> IF i = 0 THEN <<v, "MORE">> ELSE Pass(g[i - 1])]
      <4>1. g = [i \in 0..k |-> g[i]]
        BY <3>4
      <4>2. QED BY <3>5, <4>1
    <3>7. QED BY <2>1, <3>6 DEF Passes
  <2>4. QED BY <2>2, <2>3
<1>2. QED BY <1>1

LEMMA PassesAgree ==
  ASSUME NEW v, NEW g, NEW h, NEW n \in Nat, NEW m \in Nat, Passes(v, g, n), Passes(v, h, m),
         NEW k \in 0..n, k <= m
  PROVE  g[k] = h[k]
<1> DEFINE S == {i \in Nat : i <= n /\ i <= m /\ g[i] # h[i]}
<1>1. ASSUME S # {}
      PROVE  FALSE
  <2>1. PICK i \in S : \A y \in S : i <= y
    BY <1>1, LeastIn
  <2>2. i # 0
    BY <2>1 DEF Passes
  <2>3. i - 1 \notin S /\ i - 1 \in Nat
    BY <2>1, <2>2
  <2>4. g[i - 1] = h[i - 1]
    BY <2>1, <2>3
  <2>5. i \in 0..n /\ i \in 0..m
    BY <2>1
  <2>6. g[i] = Pass(g[i - 1])
    BY <2>2, <2>5 DEF Passes
  <2>7. h[i] = Pass(h[i - 1])
    BY <2>2, <2>5 DEF Passes
  <2>8. QED BY <2>1, <2>4, <2>6, <2>7
<1>2. QED BY <1>1

\* What the recursive function is at any number.
LEMMA RunExists ==
  ASSUME NEW v
  PROVE  \E g : g = [n \in Nat |-> IF n = 0 THEN <<v, "MORE">> ELSE Pass(g[n - 1])]
<1> DEFINE of(n) == CHOOSE g : Passes(v, g, n)
<1>1. ASSUME NEW n \in Nat
      PROVE  Passes(v, of(n), n)
  BY PassesExist
<1>2. PICK g : g = [n \in Nat |-> of(n)[n]]
  OBVIOUS
<1>3. ASSUME NEW n \in Nat
      PROVE  g[n] = IF n = 0 THEN <<v, "MORE">> ELSE Pass(g[n - 1])
  <2>1. PICK h : h = of(n)
    OBVIOUS
  <2>2. Passes(v, h, n) /\ g[n] = h[n]
    BY <1>1, <1>2, <2>1
  <2>3. h[n] = IF n = 0 THEN <<v, "MORE">> ELSE Pass(h[n - 1])
    BY <2>2 DEF Passes
  <2>4. ASSUME n # 0
        PROVE  h[n - 1] = g[n - 1]
    <3>1. PICK m \in Nat : m = n - 1
      BY <2>4
    <3>2. PICK e : e = of(m)
      OBVIOUS
    <3>3. Passes(v, e, m) /\ g[m] = e[m]
      BY <1>1, <1>2, <3>2
    <3>4. h[m] = e[m]
      BY <2>2, <3>1, <3>3, PassesAgree
    <3>5. QED BY <3>1, <3>3, <3>4
  <2>5. QED BY <2>2, <2>3, <2>4
<1> HIDE DEF of
<1>4. g = [n \in Nat |-> g[n]]
  BY <1>2
<1>5. g = [n \in Nat |-> IF n = 0 THEN <<v, "MORE">> ELSE Pass(g[n - 1])]
  BY <1>3, <1>4
<1>6. QED BY <1>5

\* The loop makes as many passes as there are bytes.
LEMMA LoopUnfolds ==
  ASSUME NEW v, v.avail_in \in Nat
  PROVE  \E g : /\ g[0] = <<v, "MORE">>
                /\ \A n \in Nat : g[n + 1] = Pass(g[n])
                /\ HeaderLoop(v) = g[v.avail_in]
<1>1. ASSUME NEW x
      PROVE  The({IF h[2] = "MORE" THEN HeaderByte(h[1]) ELSE h : h \in {x}}) = Pass(x)
  <2>1. {IF h[2] = "MORE" THEN HeaderByte(h[1]) ELSE h : h \in {x}} = {Pass(x)}
    BY DEF Pass
  <2>2. QED BY <2>1, TheOnly
<1> DEFINE after == CHOOSE g : g = [n \in Nat |-> IF n = 0 THEN <<v, "MORE">>
              ELSE The({IF h[2] = "MORE" THEN HeaderByte(h[1]) ELSE h : h \in {g[n - 1]}})]
<1>2. HeaderLoop(v) = after[v.avail_in]
  BY DEF HeaderLoop
<1>3. PICK e : e = [n \in Nat |-> IF n = 0 THEN <<v, "MORE">> ELSE Pass(e[n - 1])]
  BY RunExists
<1>4. e = [n \in Nat |-> IF n = 0 THEN <<v, "MORE">>
              ELSE The({IF h[2] = "MORE" THEN HeaderByte(h[1]) ELSE h : h \in {e[n - 1]}})]
  BY <1>1, <1>3
<1>5. after = [n \in Nat |-> IF n = 0 THEN <<v, "MORE">>
              ELSE The({IF h[2] = "MORE" THEN HeaderByte(h[1]) ELSE h : h \in {after[n - 1]}})]
  BY <1>4
<1> HIDE DEF after
<1>6. after = [n \in Nat |-> IF n = 0 THEN <<v, "MORE">> ELSE Pass(after[n - 1])]
  BY <1>1, <1>5
<1>7. after[0] = <<v, "MORE">>
  BY <1>6
<1>8. ASSUME NEW n \in Nat
      PROVE  after[n + 1] = Pass(after[n])
  <2>1. n + 1 \in Nat /\ n + 1 # 0 /\ (n + 1) - 1 = n
    OBVIOUS
  <2>2. QED BY <1>6, <2>1
<1>9. QED BY <1>2, <1>7, <1>8

-----------------------------------------------------------------------------
(* The header: one byte                                                     *)

\* Stream x is v but for some fields.
Same(v, x, changed) == DOMAIN x = Fields /\ \A field \in Fields \ changed : x[field] = v[field]

HeaderFields == {"avail_in", "total_in", "header_state", "prefx_idx", "xlen", "gzip_header_idx",
                 "saved", "havedict", "prefx_len", "block_req"}

\* The parser has not got to the end of the header.
Reading(f, v) == Stream(f, v) /\ HeaderSound(f, v) /\ Fresh(v)
                   /\ f.format # "DEFL" /\ v.header_state # "DONE"

LEMMA FreshKept ==
  ASSUME NEW v, NEW x, Fresh(v), Same(v, x, HeaderFields)
  PROVE  Fresh(x)
BY DEF Fresh, Same, Fields, HeaderFields

LEMMA StreamKept ==
  ASSUME NEW f, NEW v, NEW x, Stream(f, v), Same(v, x, HeaderFields),
         x.avail_in \in Nat, x.total_in \in Nat, x.total_in + x.avail_in <= FileLen(f),
         x.header_state \in States, x.prefx_idx \in Nat, x.xlen \in 0..(2^XlenBits - 1),
         x.gzip_header_idx \in Nat, x.havedict \in BOOLEAN, x.prefx_len \in BOOLEAN,
         x.block_req \in BOOLEAN,
         x.saved = [extra |-> x.saved.extra, name |-> x.saved.name, comment |-> x.saved.comment],
         x.gzip_head = NoBuffers => x.saved = Unsaved
  PROVE  Stream(f, x)
<1>1. /\ x.avail_out = v.avail_out /\ x.total_out = v.total_out /\ x.gzip_head = v.gzip_head
      /\ x.postfx_idx = v.postfx_idx /\ x.area = v.area /\ x.tree_bits = v.tree_bits
      /\ x.pad_bits = v.pad_bits /\ x.hdr_ib = v.hdr_ib /\ x.proc_bits = v.proc_bits
      /\ x.scratch_ib = v.scratch_ib /\ x.scratch_bits = v.scratch_bits
      /\ x.inp_data_offs = v.inp_data_offs /\ x.wsp_page = v.wsp_page /\ x.dict_len = v.dict_len
      /\ x.dict = v.dict /\ x.obytes_in_dict = v.obytes_in_dict /\ x.eob_seen = v.eob_seen
      /\ x.tok = v.tok /\ DOMAIN x = Fields
  BY DEF Same, Fields, HeaderFields
<1>2. Request(x).len = Request(v).len
  BY <1>1 DEF Request
<1>3. QED BY <1>1, <1>2 DEF Stream

\* The parser's state and its position.
LEMMA StateGives ==
  ASSUME NEW f \in Files, NEW p \in Nat
  PROVE  /\ StateAt(f, p) \in States
         /\ f.format # "DEFL" => (StateAt(f, p) = "DONE" <=> p >= HeaderLen(f))
<1>1. HeaderLen(f) \in Nat /\ f.format \in {"DEFL", "GZIP", "ZLIB"}
      /\ (f.format = "DEFL" => HeaderLen(f) = 0)
  BY HeaderLength, FileGives
<1>2. QED BY <1>1 DEF StateAt, States

LEMMA GzipStateGives ==
  ASSUME NEW f \in Files, f.format = "GZIP", NEW p \in 0..(HeaderLen(f) - 1)
  PROVE  LET st == StateAt(f, p) IN
         /\ st \in {"START", "EXTRA_LEN1", "EXTRA_LEN2", "EXTRA", "FNAME", "FCOMMENT", "FHCRC1", "FHCRC2"}
         /\ st = "START" <=> p < 10
         /\ st = "EXTRA_LEN1" <=> p = 10 /\ f.extra # Absent
         /\ st = "EXTRA_LEN2" <=> p = 11 /\ f.extra # Absent
         /\ st = "EXTRA" <=> 12 <= p /\ p < NameAt(f) /\ f.extra # Absent
         /\ st = "FNAME" <=> NameAt(f) <= p /\ p < CommentAt(f)
         /\ st = "FCOMMENT" <=> CommentAt(f) <= p /\ p < CrcAt(f)
         /\ st = "FHCRC1" <=> p = CrcAt(f)
         /\ st = "FHCRC2" <=> p > CrcAt(f)
<1>1. /\ NameAt(f) \in Nat /\ CommentAt(f) \in Nat /\ CrcAt(f) \in Nat /\ 10 <= NameAt(f)
      /\ NameAt(f) <= CommentAt(f) /\ CommentAt(f) <= CrcAt(f)
      /\ HeaderLen(f) = CrcAt(f) + (IF f.hcrc THEN 2 ELSE 0)
      /\ f.extra \in 0..255 \cup {Absent} /\ HeaderLen(f) \in Nat
  BY GzipBytes, FileGives, HeaderLength
<1>2. p \in Nat /\ p < HeaderLen(f)
  BY <1>1
<1>3. f.extra = Absent => NameAt(f) = 10
  BY DEF NameAt
<1>4. f.extra # Absent => NameAt(f) >= 12
  BY <1>1 DEF NameAt
<1>5. StateAt(f, p) = IF p < 10 THEN "START"
         ELSE IF p < NameAt(f)
         THEN IF p = 10 THEN "EXTRA_LEN1" ELSE IF p = 11 THEN "EXTRA_LEN2" ELSE "EXTRA"
         ELSE IF p < CommentAt(f) THEN "FNAME"
         ELSE IF p < CrcAt(f) THEN "FCOMMENT"
         ELSE IF p = CrcAt(f) THEN "FHCRC1" ELSE "FHCRC2"
  BY <1>1, <1>2 DEF StateAt
<1>6. PICK a, b, c : a = NameAt(f) /\ b = CommentAt(f) /\ c = CrcAt(f)
  OBVIOUS
<1>7. QED BY <1>1, <1>2, <1>3, <1>4, <1>5

\* What the checks of the flags lead to.
LEMMA FlagsGive ==
  ASSUME NEW f \in Files, f.format = "GZIP"
  PROVE  /\ FLAGS_CHECK_FHCRC(f) = More(StateAt(f, CrcAt(f)))
         /\ FLAGS_CHECK_FCOMMENT(f) = [state |-> StateAt(f, CommentAt(f)), restart |-> f.comment # Absent]
         /\ FLAGS_CHECK_FNAME(f) = [state   |-> StateAt(f, NameAt(f)),
                                    restart |-> f.name # Absent \/ f.comment # Absent]
         /\ FLAGS_CHECK_EXTRA(f) = [state   |-> StateAt(f, 10),
                                    restart |-> f.extra = Absent /\ (f.name # Absent \/ f.comment # Absent)]
<1>1. /\ NameAt(f) \in Nat /\ CommentAt(f) \in Nat /\ CrcAt(f) \in Nat /\ 10 <= NameAt(f)
      /\ NameAt(f) <= CommentAt(f) /\ CommentAt(f) <= CrcAt(f)
      /\ HeaderLen(f) = CrcAt(f) + (IF f.hcrc THEN 2 ELSE 0)
      /\ f.extra \in 0..255 \cup {Absent} /\ HeaderLen(f) \in Nat /\ f.hcrc \in BOOLEAN
      /\ f.name \in Nat \cup {Absent} /\ f.comment \in Nat \cup {Absent}
  BY GzipBytes, FileGives, HeaderLength
<1>2. CommentAt(f) = NameAt(f) + f.name + 1 /\ CrcAt(f) = CommentAt(f) + f.comment + 1
  BY DEF CommentAt, CrcAt
<1>3. FLAGS_CHECK_FHCRC(f) = More(StateAt(f, CrcAt(f)))
  <2>1. CASE f.hcrc
    <3>1. CrcAt(f) \in 0..(HeaderLen(f) - 1)
      BY <1>1, <2>1
    <3>2. StateAt(f, CrcAt(f)) = "FHCRC1"
      BY <3>1, GzipStateGives
    <3>3. QED BY <2>1, <3>2 DEF FLAGS_CHECK_FHCRC
  <2>2. CASE ~f.hcrc
    <3>1. StateAt(f, CrcAt(f)) = "DONE"
      BY <1>1, <2>2, StateGives
    <3>2. QED BY <2>2, <3>1 DEF FLAGS_CHECK_FHCRC
  <2>3. QED BY <1>1, <2>1, <2>2
<1>4. FLAGS_CHECK_FCOMMENT(f) = [state |-> StateAt(f, CommentAt(f)), restart |-> f.comment # Absent]
  <2>1. CASE f.comment # Absent
    <3>1. CommentAt(f) < CrcAt(f)
      BY <1>1, <1>2, <2>1
    <3>2. CommentAt(f) \in 0..(HeaderLen(f) - 1)
      BY <1>1, <3>1
    <3>3. StateAt(f, CommentAt(f)) = "FCOMMENT"
      BY <1>1, <3>1, <3>2, GzipStateGives
    <3>4. QED BY <2>1, <3>3 DEF FLAGS_CHECK_FCOMMENT, Field
  <2>2. CASE f.comment = Absent
    <3>1. CommentAt(f) = CrcAt(f)
      BY <1>1, <1>2, <2>2 DEF Absent
    <3>2. QED BY <1>3, <2>2, <3>1 DEF FLAGS_CHECK_FCOMMENT, More
  <2>3. QED BY <2>1, <2>2
<1>5. FLAGS_CHECK_FNAME(f) = [state   |-> StateAt(f, NameAt(f)),
                              restart |-> f.name # Absent \/ f.comment # Absent]
  <2>1. CASE f.name # Absent
    <3>1. NameAt(f) < CommentAt(f)
      BY <1>1, <1>2, <2>1
    <3>2. NameAt(f) \in 0..(HeaderLen(f) - 1)
      BY <1>1, <3>1
    <3>3. StateAt(f, NameAt(f)) = "FNAME"
      BY <1>1, <3>1, <3>2, GzipStateGives
    <3>4. QED BY <2>1, <3>3 DEF FLAGS_CHECK_FNAME, Field
  <2>2. CASE f.name = Absent
    <3>1. NameAt(f) = CommentAt(f)
      BY <1>1, <1>2, <2>2 DEF Absent
    <3>2. QED BY <1>4, <2>2, <3>1 DEF FLAGS_CHECK_FNAME
  <2>3. QED BY <2>1, <2>2
<1>6. FLAGS_CHECK_EXTRA(f) = [state   |-> StateAt(f, 10),
                              restart |-> f.extra = Absent /\ (f.name # Absent \/ f.comment # Absent)]
  <2>1. CASE f.extra # Absent
    <3>1. 12 <= NameAt(f)
      BY <1>1, <2>1 DEF NameAt
    <3>2. 10 \in 0..(HeaderLen(f) - 1)
      BY <1>1, <3>1
    <3>3. StateAt(f, 10) = "EXTRA_LEN1"
      BY <2>1, <3>2, GzipStateGives
    <3>4. QED BY <2>1, <3>3 DEF FLAGS_CHECK_EXTRA, More
  <2>2. CASE f.extra = Absent
    <3>1. NameAt(f) = 10
      BY <2>2 DEF NameAt
    <3>2. QED BY <1>5, <2>2, <3>1 DEF FLAGS_CHECK_EXTRA
  <2>3. QED BY <2>1, <2>2
<1>7. QED BY <1>3, <1>4, <1>5, <1>6

LEMMA GotGives ==
  ASSUME NEW p \in Nat, NEW from \in Nat, NEW len \in Nat
  PROVE  /\ Got(p, from, len) \in 0..len
         /\ Got(p + 1, from, len) = Got(p, from, len) + (IF from <= p /\ p < from + len THEN 1 ELSE 0)
         /\ p <= from => Got(p, from, len) = 0
         /\ from <= p /\ p < from + len => Got(p, from, len) < len
         /\ p >= from + len => Got(p, from, len) = len
BY DEF Got

\* The byte before which the parser is belongs to at most one field.
LEMMA SavedNext ==
  ASSUME NEW f \in Files, f.format = "GZIP", NEW p \in 0..(HeaderLen(f) - 1)
  PROVE  LET b == BufferOf(StateAt(f, p)) IN
         /\ b \in {"none", "extra", "name", "comment"}
         /\ b = "none" => SavedAt(f, p + 1) = SavedAt(f, p)
         /\ b # "none" => /\ SavedAt(f, p)[b] \in Nat /\ SavedAt(f, p)[b] < Lengths(f)[b]
                          /\ SavedAt(f, p + 1) = [SavedAt(f, p) EXCEPT ![b] = SavedAt(f, p)[b] + 1]
<1>1. /\ NameAt(f) \in Nat /\ CommentAt(f) \in Nat /\ CrcAt(f) \in Nat /\ 10 <= NameAt(f)
      /\ NameAt(f) <= CommentAt(f) /\ CommentAt(f) <= CrcAt(f) /\ p \in Nat
      /\ f.extra \in 0..255 \cup {Absent} /\ f.name + 1 \in Nat /\ f.comment + 1 \in Nat
  BY GzipBytes, FileGives, HeaderLength DEF Absent
<1>2. CommentAt(f) = NameAt(f) + (f.name + 1) /\ CrcAt(f) = CommentAt(f) + (f.comment + 1)
  BY <1>1, FileGives DEF CommentAt, CrcAt, Absent
<1>3. PICK e, n, c : e = NotNegative(f.extra) /\ n = f.name + 1 /\ c = f.comment + 1
  OBVIOUS
<1>4. e \in Nat /\ n \in Nat /\ c \in Nat /\ (f.extra # Absent => NameAt(f) = 12 + e)
      /\ (f.extra = Absent => e = 0)
  BY <1>1, <1>3 DEF NotNegative, NameAt, Absent
<1>5. PICK st : st = StateAt(f, p)
  OBVIOUS
<1>6. /\ st \in {"START", "EXTRA_LEN1", "EXTRA_LEN2", "EXTRA", "FNAME", "FCOMMENT", "FHCRC1", "FHCRC2"}
      /\ st = "EXTRA" <=> 12 <= p /\ p < 12 + e
      /\ st = "FNAME" <=> NameAt(f) <= p /\ p < NameAt(f) + n
      /\ st = "FCOMMENT" <=> CommentAt(f) <= p /\ p < CommentAt(f) + c
  <2>1. /\ st \in {"START", "EXTRA_LEN1", "EXTRA_LEN2", "EXTRA", "FNAME", "FCOMMENT", "FHCRC1", "FHCRC2"}
        /\ st = "EXTRA" <=> 12 <= p /\ p < NameAt(f) /\ f.extra # Absent
        /\ st = "FNAME" <=> NameAt(f) <= p /\ p < CommentAt(f)
        /\ st = "FCOMMENT" <=> CommentAt(f) <= p /\ p < CrcAt(f)
    BY <1>5, GzipStateGives
  <2>2. QED BY <1>1, <1>2, <1>3, <1>4, <2>1
<1>7. PICK x, y, z : /\ x = Got(p, 12, e) /\ y = Got(p, NameAt(f), n) /\ z = Got(p, CommentAt(f), c)
  OBVIOUS
<1>8. /\ x \in Nat /\ y \in Nat /\ z \in Nat
      /\ Got(p + 1, 12, e) = x + (IF st = "EXTRA" THEN 1 ELSE 0)
      /\ Got(p + 1, NameAt(f), n) = y + (IF st = "FNAME" THEN 1 ELSE 0)
      /\ Got(p + 1, CommentAt(f), c) = z + (IF st = "FCOMMENT" THEN 1 ELSE 0)
      /\ st = "EXTRA" => x < e
      /\ st = "FNAME" => y < n
      /\ st = "FCOMMENT" => z < c
  <2>1. /\ x \in 0..e /\ Got(p + 1, 12, e) = x + (IF 12 <= p /\ p < 12 + e THEN 1 ELSE 0)
        /\ 12 <= p /\ p < 12 + e => x < e
    BY <1>1, <1>4, <1>7 DEF Got
  <2>2. /\ y \in 0..n
        /\ Got(p + 1, NameAt(f), n) = y + (IF NameAt(f) <= p /\ p < NameAt(f) + n THEN 1 ELSE 0)
        /\ NameAt(f) <= p /\ p < NameAt(f) + n => y < n
    BY <1>1, <1>4, <1>7 DEF Got
  <2>3. /\ z \in 0..c
        /\ Got(p + 1, CommentAt(f), c) = z + (IF CommentAt(f) <= p /\ p < CommentAt(f) + c THEN 1 ELSE 0)
        /\ CommentAt(f) <= p /\ p < CommentAt(f) + c => z < c
    BY <1>1, <1>4, <1>7 DEF Got
  <2>4. QED BY <1>4, <1>6, <2>1, <2>2, <2>3
<1>9. /\ SavedAt(f, p) = [extra |-> x, name |-> y, comment |-> z]
      /\ SavedAt(f, p + 1) = [extra   |-> x + (IF st = "EXTRA" THEN 1 ELSE 0),
                              name    |-> y + (IF st = "FNAME" THEN 1 ELSE 0),
                              comment |-> z + (IF st = "FCOMMENT" THEN 1 ELSE 0)]
      /\ Lengths(f) = [extra |-> e, name |-> n, comment |-> c]
  BY <1>3, <1>7, <1>8 DEF SavedAt, Lengths
<1>10. CASE st = "EXTRA"
  BY <1>5, <1>8, <1>9, <1>10 DEF BufferOf
<1>11. CASE st = "FNAME"
  BY <1>5, <1>8, <1>9, <1>11 DEF BufferOf
<1>12. CASE st = "FCOMMENT"
  BY <1>5, <1>8, <1>9, <1>12 DEF BufferOf
<1>13. CASE st \notin {"EXTRA", "FNAME", "FCOMMENT"}
  BY <1>5, <1>8, <1>9, <1>13 DEF BufferOf
<1>14. QED BY <1>10, <1>11, <1>12, <1>13

\* What was saved of the field that begins at p.
LEMMA SavedAtStart ==
  ASSUME NEW f \in Files, f.format = "GZIP", NEW p \in Nat
  PROVE  /\ p = 12 => SavedAt(f, p)["extra"] = 0
         /\ p = NameAt(f) => SavedAt(f, p)["name"] = 0
         /\ p = CommentAt(f) => SavedAt(f, p)["comment"] = 0
BY DEF SavedAt, Got

\* The end of the header: everything was saved.
LEMMA SavedAtEnd ==
  ASSUME NEW f \in Files, f.format = "GZIP", NEW p \in Nat, p >= HeaderLen(f)
  PROVE  SavedAt(f, p) = Lengths(f)
<1>1. /\ NameAt(f) \in Nat /\ CommentAt(f) \in Nat /\ CrcAt(f) \in Nat /\ 10 <= NameAt(f)
      /\ NameAt(f) <= CommentAt(f) /\ CommentAt(f) <= CrcAt(f) /\ CrcAt(f) <= HeaderLen(f)
      /\ f.extra \in 0..255 \cup {Absent} /\ f.name + 1 \in Nat /\ f.comment + 1 \in Nat
      /\ HeaderLen(f) \in Nat
  BY GzipBytes, FileGives, HeaderLength DEF Absent
<1>2. CommentAt(f) = NameAt(f) + (f.name + 1) /\ CrcAt(f) = CommentAt(f) + (f.comment + 1)
  BY <1>1, FileGives DEF CommentAt, CrcAt, Absent
<1>3. NotNegative(f.extra) \in Nat /\ (f.extra # Absent => NameAt(f) = 12 + NotNegative(f.extra))
      /\ (f.extra = Absent => NotNegative(f.extra) = 0)
  BY <1>1 DEF NotNegative, NameAt, Absent
<1>4. Got(p, 12, NotNegative(f.extra)) = NotNegative(f.extra)
  <2>1. CASE f.extra = Absent
    BY <1>3, <2>1, GotGives
  <2>2. CASE f.extra # Absent
    <3>1. p >= 12 + NotNegative(f.extra)
      BY <1>1, <1>3, <2>2
    <3>2. QED BY <1>3, <3>1, GotGives
  <2>3. QED BY <2>1, <2>2
<1>5. Got(p, NameAt(f), f.name + 1) = f.name + 1
  <2>1. PICK n \in Nat : n = f.name + 1
    BY <1>1
  <2>2. p >= NameAt(f) + n
    BY <1>1, <1>2, <2>1
  <2>3. Got(p, NameAt(f), n) = n
    BY <1>1, <2>2 DEF Got
  <2>4. QED BY <2>1, <2>3
<1>6. Got(p, CommentAt(f), f.comment + 1) = f.comment + 1
  <2>1. PICK n \in Nat : n = f.comment + 1
    BY <1>1
  <2>2. p >= CommentAt(f) + n
    BY <1>1, <1>2, <2>1
  <2>3. Got(p, CommentAt(f), n) = n
    BY <1>1, <2>2 DEF Got
  <2>4. QED BY <2>1, <2>3
<1>7. QED BY <1>4, <1>5, <1>6 DEF SavedAt, Lengths

\* What comes where an optional field may begin.
LEMMA FieldsBegin ==
  ASSUME NEW f \in Files, f.format = "GZIP"
  PROVE  /\ StateAt(f, CrcAt(f)) \in {"FHCRC1", "DONE"}
         /\ StateAt(f, CommentAt(f)) \in {"FCOMMENT", "FHCRC1", "DONE"}
         /\ StateAt(f, CommentAt(f)) = "FCOMMENT" <=> f.comment # Absent
         /\ StateAt(f, NameAt(f)) \in {"FNAME", "FCOMMENT", "FHCRC1", "DONE"}
         /\ StateAt(f, NameAt(f)) = "FNAME" <=> f.name # Absent
         /\ StateAt(f, NameAt(f)) = "FCOMMENT" => f.comment # Absent /\ NameAt(f) = CommentAt(f)
         /\ f.extra = Absent => NameAt(f) = 10
<1>1. StateAt(f, CrcAt(f)) = IF f.hcrc THEN "FHCRC1" ELSE "DONE"
  <2>1. FLAGS_CHECK_FHCRC(f) = More(StateAt(f, CrcAt(f)))
    BY FlagsGive
  <2>2. FLAGS_CHECK_FHCRC(f).state = IF f.hcrc THEN "FHCRC1" ELSE "DONE"
    BY DEF FLAGS_CHECK_FHCRC, More
  <2>3. QED BY <2>1, <2>2 DEF More
<1>2. StateAt(f, CommentAt(f)) = IF f.comment # Absent THEN "FCOMMENT" ELSE StateAt(f, CrcAt(f))
  <2>1. FLAGS_CHECK_FCOMMENT(f).state = StateAt(f, CommentAt(f))
    BY FlagsGive
  <2>2. FLAGS_CHECK_FHCRC(f).state = StateAt(f, CrcAt(f))
    BY FlagsGive DEF More
  <2>3. FLAGS_CHECK_FCOMMENT(f).state
          = IF f.comment # Absent THEN "FCOMMENT" ELSE FLAGS_CHECK_FHCRC(f).state
    BY DEF FLAGS_CHECK_FCOMMENT, Field
  <2>4. QED BY <2>1, <2>2, <2>3
<1>3. StateAt(f, NameAt(f)) = IF f.name # Absent THEN "FNAME" ELSE StateAt(f, CommentAt(f))
  <2>1. FLAGS_CHECK_FNAME(f).state = StateAt(f, NameAt(f))
    BY FlagsGive
  <2>2. FLAGS_CHECK_FCOMMENT(f).state = StateAt(f, CommentAt(f))
    BY FlagsGive
  <2>3. FLAGS_CHECK_FNAME(f).state
          = IF f.name # Absent THEN "FNAME" ELSE FLAGS_CHECK_FCOMMENT(f).state
    BY DEF FLAGS_CHECK_FNAME, Field
  <2>4. QED BY <2>1, <2>2, <2>3
<1>4. f.name = Absent => CommentAt(f) = NameAt(f)
  <2>1. NameAt(f) \in Nat
    BY GzipBytes
  <2>2. QED BY <2>1 DEF CommentAt, Absent
<1>5. f.extra = Absent => NameAt(f) = 10
  BY DEF NameAt
<1>6. QED BY <1>1, <1>2, <1>3, <1>4, <1>5

LEMMA BufferGives ==
  ASSUME NEW st
  PROVE  /\ BufferOf(st) \in {"none", "extra", "name", "comment"}
         /\ BufferOf(st) = "extra" <=> st = "EXTRA"
         /\ BufferOf(st) = "name" <=> st = "FNAME"
         /\ BufferOf(st) = "comment" <=> st = "FCOMMENT"
BY DEF BufferOf

\* State st at byte p is followed by state n, where the bytes go to buffer b.
Leads(f, p, st, n, b) ==
  /\ n.state = StateAt(f, p + 1) /\ n.restart \in BOOLEAN
  /\ n.state = "EXTRA_LEN2" => n.restart = TRUE
  /\ b # "none" /\ n.restart = TRUE => SavedAt(f, p + 1)[b] = 0
  /\ b # "none" /\ n.restart = FALSE =>
       b = BufferOf(st) \/ (st = "EXTRA_LEN2" /\ SavedAt(f, p + 1)[b] = 0)

\* The next state, and where the index of the field it is in begins.
LEMMA GzipNextGives ==
  ASSUME file \in Files, ExtraUsed, NEW w, Reading(file, w), file.format = "GZIP",
         NEW p \in Nat, p = w.prefx_idx, p >= 9
  PROVE  Leads(file, p, w.header_state, GzipNext(w, NextByte(w)), BufferOf(StateAt(file, p + 1)))
<1> DEFINE f == file
<1>1. PICK n : n = GzipNext(w, NextByte(w))
  OBVIOUS
<1>2. PICK b : b = BufferOf(StateAt(file, p + 1))
  OBVIOUS
<1> USE <1>1, <1>2
<1>3. /\ NameAt(f) \in Nat /\ CommentAt(f) \in Nat /\ CrcAt(f) \in Nat /\ 10 <= NameAt(f)
      /\ NameAt(f) <= CommentAt(f) /\ CommentAt(f) <= CrcAt(f)
      /\ HeaderLen(f) = CrcAt(f) + (IF f.hcrc THEN 2 ELSE 0)
      /\ f.extra \in 0..255 \cup {Absent} /\ HeaderLen(f) \in Nat /\ f.hcrc \in BOOLEAN
      /\ f.extra # 0
  BY GzipBytes, FileGives, HeaderLength DEF ExtraUsed
<1>4. /\ w.header_state = StateAt(f, p) /\ w.header_state # "DONE" /\ w.total_in = p /\ XlenAt(f, w)
  BY DEF Reading, HeaderSound
<1>5. p < HeaderLen(f) /\ p \in 0..(HeaderLen(f) - 1)
  BY <1>3, <1>4, StateGives
<1>6. PICK st : st = w.header_state
  OBVIOUS
<1>7. /\ st \in {"START", "EXTRA_LEN1", "EXTRA_LEN2", "EXTRA", "FNAME", "FCOMMENT", "FHCRC1", "FHCRC2"}
      /\ st = "START" <=> p < 10
      /\ st = "EXTRA_LEN1" <=> p = 10 /\ f.extra # Absent
      /\ st = "EXTRA_LEN2" <=> p = 11 /\ f.extra # Absent
      /\ st = "EXTRA" <=> 12 <= p /\ p < NameAt(f) /\ f.extra # Absent
      /\ st = "FNAME" <=> NameAt(f) <= p /\ p < CommentAt(f)
      /\ st = "FCOMMENT" <=> CommentAt(f) <= p /\ p < CrcAt(f)
      /\ st = "FHCRC1" <=> p = CrcAt(f)
      /\ st = "FHCRC2" <=> p > CrcAt(f)
  BY <1>4, <1>5, <1>6, GzipStateGives
<1>8. f.extra # Absent => NameAt(f) = 12 + f.extra
  BY DEF NameAt
<1>9. NextByte(w) = f.header[p + 1]
  BY <1>4, <1>5 DEF NextByte
<1>10. /\ n.state = StateAt(f, p + 1) /\ n.restart \in BOOLEAN
       /\ n.state = "EXTRA_LEN2" => n.restart = TRUE
       /\ b # "none" /\ n.restart = TRUE => SavedAt(f, p + 1)[b] = 0
       /\ b # "none" /\ n.restart = FALSE =>
            b = BufferOf(st) \/ (st = "EXTRA_LEN2" /\ SavedAt(f, p + 1)[b] = 0)
  <2>1. CASE st = "START"
    <3>1. p + 1 = 10 /\ n = FLAGS_CHECK_EXTRA(f)
      BY <1>6, <1>7, <2>1 DEF GzipNext
    <3>2. n = [state   |-> StateAt(f, 10),
               restart |-> f.extra = Absent /\ (f.name # Absent \/ f.comment # Absent)]
      BY <3>1, FlagsGive
    <3>3. CASE f.extra # Absent
      <4>1. 10 \in 0..(HeaderLen(f) - 1)
        BY <1>3, <1>8, <3>3
      <4>2. StateAt(f, 10) = "EXTRA_LEN1"
        BY <3>3, <4>1, GzipStateGives
      <4>3. QED BY <3>1, <3>2, <3>3, <4>2 DEF BufferOf
    <3>4. CASE f.extra = Absent
      <4>1. /\ NameAt(f) = 10 /\ StateAt(f, 10) \in {"FNAME", "FCOMMENT", "FHCRC1", "DONE"}
            /\ StateAt(f, 10) = "FNAME" => f.name # Absent
            /\ StateAt(f, 10) = "FCOMMENT" => f.comment # Absent /\ CommentAt(f) = 10
        <5>1. NameAt(f) = 10
          BY <3>4, FieldsBegin
        <5>2. /\ StateAt(f, NameAt(f)) \in {"FNAME", "FCOMMENT", "FHCRC1", "DONE"}
              /\ StateAt(f, NameAt(f)) = "FNAME" <=> f.name # Absent
              /\ StateAt(f, NameAt(f)) = "FCOMMENT" => f.comment # Absent /\ NameAt(f) = CommentAt(f)
          BY FieldsBegin
        <5>3. QED BY <5>1, <5>2
      <4>2. SavedAt(f, 10)["name"] = 0 /\ (CommentAt(f) = 10 => SavedAt(f, 10)["comment"] = 0)
        BY <4>1, SavedAtStart
      <4>3. /\ n.state = StateAt(f, p + 1) /\ n.restart \in BOOLEAN
            /\ f.name # Absent \/ f.comment # Absent => n.restart = TRUE
        <5>1. n.state = StateAt(f, p + 1)
          BY <3>1, <3>2
        <5>2. n.restart = (f.extra = Absent /\ (f.name # Absent \/ f.comment # Absent))
          BY <3>2, SMT
        <5>3. QED BY <3>4, <5>1, <5>2
      <4>4. /\ StateAt(f, p + 1) \in {"FNAME", "FCOMMENT", "FHCRC1", "DONE"}
            /\ StateAt(f, p + 1) = "FNAME" => n.restart = TRUE /\ SavedAt(f, p + 1)["name"] = 0
            /\ StateAt(f, p + 1) = "FCOMMENT" => n.restart = TRUE /\ SavedAt(f, p + 1)["comment"] = 0
        BY <3>1, <4>1, <4>2, <4>3
      <4>5. QED BY <4>3, <4>4, BufferGives
    <3>5. QED BY <3>3, <3>4
  <2>2. CASE st = "EXTRA_LEN1"
    <3>1. n = [state |-> "EXTRA_LEN2", restart |-> TRUE]
      BY <1>6, <2>2 DEF GzipNext, Field
    <3>2. p + 1 = 11 /\ f.extra # Absent /\ 11 \in 0..(HeaderLen(f) - 1)
      BY <1>3, <1>7, <1>8, <2>2
    <3>3. StateAt(f, p + 1) = "EXTRA_LEN2"
      BY <3>2, GzipStateGives
    <3>4. QED BY <3>1, <3>3 DEF BufferOf
  <2>3. CASE st = "EXTRA_LEN2"
    <3>1. n = [state |-> "EXTRA", restart |-> FALSE]
      BY <1>6, <2>3 DEF GzipNext, More
    <3>2. p + 1 = 12 /\ f.extra # Absent /\ 12 \in 0..(HeaderLen(f) - 1) /\ 12 < NameAt(f)
      BY <1>3, <1>7, <1>8, <2>3 DEF Absent
    <3>3. StateAt(f, p + 1) = "EXTRA"
      BY <3>2, GzipStateGives
    <3>4. SavedAt(f, p + 1)["extra"] = 0
      BY <3>2, SavedAtStart
    <3>5. QED BY <2>3, <3>1, <3>3, <3>4 DEF BufferOf
  <2>4. CASE st = "EXTRA"
    <3>1. w.xlen = NameAt(f) - p /\ 12 <= p /\ p < NameAt(f) /\ f.extra # Absent
      BY <1>4, <1>6, <1>7, <2>4 DEF XlenAt
    <3>2. CASE p + 1 = NameAt(f)
      <4>1. LastExtra(w.xlen)
        BY <1>3, <3>1, <3>2 DEF LastExtra
      <4>2. n = [state   |-> StateAt(f, p + 1), restart |-> f.name # Absent \/ f.comment # Absent]
        <5>1. n = FLAGS_CHECK_FNAME(f)
          BY <1>6, <2>4, <4>1 DEF GzipNext
        <5>2. QED BY <3>2, <5>1, FlagsGive
      <4>3. /\ StateAt(f, p + 1) \in {"FNAME", "FCOMMENT", "FHCRC1", "DONE"}
            /\ StateAt(f, p + 1) = "FNAME" => f.name # Absent
            /\ StateAt(f, p + 1) = "FCOMMENT" => f.comment # Absent /\ CommentAt(f) = p + 1
        <5>1. /\ StateAt(f, NameAt(f)) \in {"FNAME", "FCOMMENT", "FHCRC1", "DONE"}
              /\ StateAt(f, NameAt(f)) = "FNAME" <=> f.name # Absent
              /\ StateAt(f, NameAt(f)) = "FCOMMENT" => f.comment # Absent /\ NameAt(f) = CommentAt(f)
          BY FieldsBegin
        <5>2. QED BY <3>2, <5>1
      <4>4. SavedAt(f, p + 1)["name"] = 0
            /\ (CommentAt(f) = p + 1 => SavedAt(f, p + 1)["comment"] = 0)
        BY <3>2, SavedAtStart
      <4>5. /\ n.state = StateAt(f, p + 1) /\ n.restart \in BOOLEAN
            /\ f.name # Absent \/ f.comment # Absent => n.restart = TRUE
        <5>1. n.state = StateAt(f, p + 1)
          BY <4>2
        <5>2. n.restart = (f.name # Absent \/ f.comment # Absent)
          BY <4>2, SMT
        <5>3. QED BY <5>1, <5>2
      <4>6. QED BY <4>3, <4>4, <4>5, BufferGives
    <3>3. CASE p + 1 # NameAt(f)
      <4>1. ~LastExtra(w.xlen)
        BY <1>3, <3>1, <3>3 DEF LastExtra
      <4>2. n = [state |-> "EXTRA", restart |-> FALSE]
        BY <1>6, <2>4, <4>1 DEF GzipNext, More
      <4>3. p + 1 \in 0..(HeaderLen(f) - 1) /\ p + 1 < NameAt(f) /\ 12 <= p + 1
        BY <1>3, <3>1, <3>3
      <4>4. StateAt(f, p + 1) = "EXTRA"
        BY <3>1, <4>3, GzipStateGives
      <4>5. QED BY <2>4, <4>2, <4>4 DEF BufferOf
    <3>4. QED BY <3>2, <3>3
  <2>5. CASE st = "FNAME"
    <3>1. NameAt(f) <= p /\ p < CommentAt(f)
      BY <1>7, <2>5
    <3>2. f.header[p + 1] = IF p = CommentAt(f) - 1 THEN 0 ELSE 1
      <4>1. p \in NameAt(f)..(CommentAt(f) - 1)
        BY <1>3, <3>1
      <4>2. QED BY <4>1, GzipBytes
    <3>3. CASE p + 1 = CommentAt(f)
      <4>1. n = FLAGS_CHECK_FCOMMENT(f)
        <5>1. NextByte(w) = 0
          BY <1>3, <1>9, <3>2, <3>3
        <5>2. QED BY <1>6, <2>5, <5>1 DEF GzipNext
      <4>2. n = [state |-> StateAt(f, p + 1), restart |-> f.comment # Absent]
        BY <3>3, <4>1, FlagsGive
      <4>3. /\ StateAt(f, p + 1) \in {"FCOMMENT", "FHCRC1", "DONE"}
            /\ StateAt(f, p + 1) = "FCOMMENT" => f.comment # Absent
        <5>1. /\ StateAt(f, CommentAt(f)) \in {"FCOMMENT", "FHCRC1", "DONE"}
              /\ StateAt(f, CommentAt(f)) = "FCOMMENT" <=> f.comment # Absent
          BY FieldsBegin
        <5>2. QED BY <3>3, <5>1
      <4>4. SavedAt(f, p + 1)["comment"] = 0
        BY <3>3, SavedAtStart
      <4>5. /\ n.state = StateAt(f, p + 1) /\ n.restart \in BOOLEAN
            /\ f.comment # Absent => n.restart = TRUE
        <5>1. n.state = StateAt(f, p + 1)
          BY <4>2
        <5>2. n.restart = (f.comment # Absent)
          BY <4>2, SMT
        <5>3. QED BY <5>1, <5>2
      <4>6. QED BY <4>3, <4>4, <4>5, BufferGives
    <3>4. CASE p + 1 # CommentAt(f)
      <4>1. NextByte(w) # 0
        BY <1>3, <1>9, <3>2, <3>4
      <4>2. n = [state |-> "FNAME", restart |-> FALSE]
        BY <1>6, <2>5, <4>1 DEF GzipNext, More
      <4>3. p + 1 \in 0..(HeaderLen(f) - 1) /\ NameAt(f) <= p + 1 /\ p + 1 < CommentAt(f)
        BY <1>3, <3>1, <3>4
      <4>4. StateAt(f, p + 1) = "FNAME"
        BY <4>3, GzipStateGives
      <4>5. QED BY <2>5, <4>2, <4>4 DEF BufferOf
    <3>5. QED BY <3>3, <3>4
  <2>6. CASE st = "FCOMMENT"
    <3>1. CommentAt(f) <= p /\ p < CrcAt(f)
      BY <1>7, <2>6
    <3>2. f.header[p + 1] = IF p = CrcAt(f) - 1 THEN 0 ELSE 1
      <4>1. p \in CommentAt(f)..(CrcAt(f) - 1)
        BY <1>3, <3>1
      <4>2. QED BY <4>1, GzipBytes
    <3>3. CASE p + 1 = CrcAt(f)
      <4>1. n = FLAGS_CHECK_FHCRC(f)
        <5>1. NextByte(w) = 0
          BY <1>3, <1>9, <3>2, <3>3
        <5>2. QED BY <1>6, <2>6, <5>1 DEF GzipNext
      <4>2. n = [state |-> StateAt(f, p + 1), restart |-> FALSE]
        BY <3>3, <4>1, FlagsGive DEF More
      <4>3. StateAt(f, p + 1) \in {"FHCRC1", "DONE"}
        BY <3>3, FieldsBegin
      <4>4. QED BY <4>2, <4>3 DEF BufferOf
    <3>4. CASE p + 1 # CrcAt(f)
      <4>1. NextByte(w) # 0
        BY <1>3, <1>9, <3>2, <3>4
      <4>2. n = [state |-> "FCOMMENT", restart |-> FALSE]
        BY <1>6, <2>6, <4>1 DEF GzipNext, More
      <4>3. p + 1 \in 0..(HeaderLen(f) - 1) /\ CommentAt(f) <= p + 1 /\ p + 1 < CrcAt(f)
        BY <1>3, <3>1, <3>4
      <4>4. StateAt(f, p + 1) = "FCOMMENT"
        BY <4>3, GzipStateGives
      <4>5. QED BY <2>6, <4>2, <4>4 DEF BufferOf
    <3>5. QED BY <3>3, <3>4
  <2>7. CASE st = "FHCRC1"
    <3>1. n = [state |-> "FHCRC2", restart |-> FALSE]
      BY <1>6, <2>7 DEF GzipNext, More
    <3>2. p + 1 \in 0..(HeaderLen(f) - 1) /\ p + 1 > CrcAt(f)
      BY <1>3, <1>5, <1>7, <2>7
    <3>3. StateAt(f, p + 1) = "FHCRC2"
      BY <3>2, GzipStateGives
    <3>4. QED BY <3>1, <3>3 DEF BufferOf
  <2>8. CASE st = "FHCRC2"
    <3>1. n = [state |-> "DONE", restart |-> FALSE]
      BY <1>6, <2>8 DEF GzipNext, More
    <3>2. p + 1 >= HeaderLen(f)
      BY <1>3, <1>5, <1>7, <2>8
    <3>3. StateAt(f, p + 1) = "DONE"
      BY <3>2, StateGives
    <3>4. QED BY <3>1, <3>3 DEF BufferOf
  <2>9. QED BY <1>7, <2>1, <2>2, <2>3, <2>4, <2>5, <2>6, <2>7, <2>8
<1>11. Leads(f, p, w.header_state, n, b)
  BY <1>6, <1>10, Zenon DEF Leads
<1>12. QED BY <1>11

LEMMA SmallRest ==
  ASSUME NEW a \in Nat, NEW b \in Nat, a < b
  PROVE  a % b = a
OBVIOUS

\* The bytes that are left of the extra field.
LEMMA XlenGives ==
  ASSUME file \in Files, ExtraUsed, NEW w, Reading(file, w), file.format = "GZIP",
         NEW p \in Nat, p = w.prefx_idx, p >= 9, NEW y, y = XlenNext(w, NextByte(w))
  PROVE  /\ y \in 0..(2^XlenBits - 1)
         /\ StateAt(file, p + 1) = "EXTRA_LEN2" => y = file.extra
         /\ StateAt(file, p + 1) = "EXTRA" => y = NameAt(file) - (p + 1)
<1> DEFINE f == file
<1>1. /\ NameAt(f) \in Nat /\ CommentAt(f) \in Nat /\ CrcAt(f) \in Nat /\ 10 <= NameAt(f)
      /\ NameAt(f) <= CommentAt(f) /\ CommentAt(f) <= CrcAt(f) /\ CrcAt(f) <= HeaderLen(f)
      /\ f.extra \in 0..255 \cup {Absent} /\ HeaderLen(f) \in Nat /\ f.extra # 0
      /\ f.extra # Absent => f.header[11] = f.extra /\ f.header[12] = 0
  BY GzipBytes, FileGives, HeaderLength DEF ExtraUsed
<1>2. PICK K \in Nat : K = 2^XlenBits /\ K > 255
  <2>1. 2^XlenBits \in Int /\ 2^XlenBits > 255
    BY BoundsAssumption
  <2>2. QED BY <2>1
<1>3. /\ w.header_state = StateAt(f, p) /\ w.header_state # "DONE" /\ w.total_in = p /\ XlenAt(f, w)
      /\ w.xlen \in 0..(K - 1)
  BY <1>2 DEF Reading, HeaderSound, Stream
<1>4. p < HeaderLen(f) /\ p \in 0..(HeaderLen(f) - 1)
  BY <1>1, <1>3, StateGives
<1>5. PICK st : st = w.header_state
  OBVIOUS
<1>6. /\ st = "START" <=> p < 10
      /\ st = "EXTRA_LEN1" <=> p = 10 /\ f.extra # Absent
      /\ st = "EXTRA_LEN2" <=> p = 11 /\ f.extra # Absent
      /\ st = "EXTRA" <=> 12 <= p /\ p < NameAt(f) /\ f.extra # Absent
  BY <1>3, <1>4, <1>5, GzipStateGives
<1>7. /\ StateAt(f, p + 1) = "EXTRA_LEN2" => p + 1 = 11 /\ f.extra # Absent
      /\ StateAt(f, p + 1) = "EXTRA" => 12 <= p + 1 /\ p + 1 < NameAt(f) /\ f.extra # Absent
  <2>1. CASE p + 1 >= HeaderLen(f)
    <3>1. StateAt(f, p + 1) = "DONE"
      BY <2>1, StateGives
    <3>2. QED BY <3>1
  <2>2. CASE p + 1 < HeaderLen(f)
    <3>1. p + 1 \in 0..(HeaderLen(f) - 1)
      BY <1>1, <2>2
    <3>2. QED BY <3>1, GzipStateGives
  <2>3. QED BY <1>1, <2>1, <2>2
<1>8. f.extra # Absent => NameAt(f) = 12 + f.extra
  BY DEF NameAt
<1>9. NextByte(w) = f.header[p + 1]
  BY <1>3, <1>4 DEF NextByte
<1>10. CASE st = "EXTRA_LEN1"
  <2>1. y = f.extra /\ p = 10 /\ f.extra # Absent
    BY <1>1, <1>5, <1>6, <1>9, <1>10 DEF XlenNext
  <2>2. QED BY <1>1, <1>2, <1>7, <2>1 DEF Absent
<1>11. CASE st = "EXTRA_LEN2"
  <2>1. p = 11 /\ f.extra # Absent /\ NextByte(w) = 0 /\ w.xlen = f.extra
    BY <1>1, <1>3, <1>5, <1>6, <1>9, <1>11 DEF XlenAt
  <2>2. y = w.xlen + 256 * 0
    BY <1>5, <1>11, <2>1 DEF XlenNext
  <2>3. y = f.extra /\ f.extra \in 0..255
    BY <1>1, <2>1, <2>2
  <2>4. QED BY <1>1, <1>2, <1>7, <1>8, <2>1, <2>3
<1>12. CASE st = "EXTRA"
  <2>1. w.xlen = NameAt(f) - p /\ 12 <= p /\ p < NameAt(f)
    BY <1>3, <1>5, <1>6, <1>12 DEF XlenAt
  <2>2. CASE LastExtra(w.xlen)
    <3>1. y = w.xlen /\ p + 1 = NameAt(f)
      BY <1>1, <1>5, <1>12, <2>1, <2>2 DEF XlenNext, LastExtra
    <3>2. QED BY <1>1, <1>2, <1>3, <1>7, <2>1, <3>1
  <2>3. CASE ~LastExtra(w.xlen)
    <3>1. y = (w.xlen - 1) % K
      BY <1>2, <1>5, <1>12, <2>3 DEF XlenNext
    <3>2. w.xlen - 1 \in Nat /\ w.xlen - 1 < K
      BY <1>1, <1>3, <2>1
    <3>3. y = w.xlen - 1
      BY <3>1, <3>2, SmallRest
    <3>4. QED BY <1>1, <1>2, <1>3, <1>7, <2>1, <3>2, <3>3
  <2>4. QED BY <2>2, <2>3
<1>13. CASE st \notin {"EXTRA_LEN1", "EXTRA_LEN2", "EXTRA"}
  <2>1. y = w.xlen
    BY <1>5, <1>13 DEF XlenNext
  <2>2. p # 10 \/ f.extra = Absent
    BY <1>6, <1>13
  <2>3. StateAt(f, p + 1) \notin {"EXTRA_LEN2", "EXTRA"}
    <3>1. f.extra = Absent \/ p \notin 10..(NameAt(f) - 1)
      BY <1>1, <1>6, <1>13
    <3>2. f.extra # Absent => NameAt(f) >= 13
      BY <1>1, <1>8
    <3>3. QED BY <1>1, <1>6, <1>7, <1>13, <2>2, <3>1, <3>2
  <2>4. QED BY <1>2, <1>3, <2>1, <2>3
<1>14. QED BY <1>10, <1>11, <1>12, <1>13

\* The parser may forget that there is a dictionary, and does not make one up.
DictKept(v, x) == x.havedict = TRUE => v.havedict = TRUE

\* What one pass of the loop does: x is the stream after it and c what it says.
ByteOutcome(f, v, x, c) ==
  /\ Same(v, x, HeaderFields) /\ Stream(f, x)
  /\ x.avail_in = v.avail_in - 1 /\ x.total_in = v.total_in + 1
  /\ DictKept(v, x)
  /\ c \in {"MORE", "OK", "NEED_DICT", "ERROR"}
  /\ c # "ERROR" => HeaderSound(f, x)
  /\ c = "MORE" => x.header_state # "DONE"
  /\ c \in {"OK", "NEED_DICT"} => x.header_state = "DONE" /\ x.total_in = HeaderLen(f)
  /\ c = "ERROR" => TooLong(f, x) /\ x.header_state # "DONE"

\* A byte is counted.
LEMMA CountedGives ==
  ASSUME NEW f, NEW u, DOMAIN u = Fields, NEW x, x = Counted(u)
  PROVE  /\ DOMAIN x = Fields /\ x.avail_in = u.avail_in - 1 /\ x.total_in = u.total_in + 1
         /\ x.prefx_idx = u.prefx_idx + 1
         /\ \A field \in Fields \ {"avail_in", "total_in", "prefx_idx"} : x[field] = u[field]
BY DEF Counted, Fields

\* What a reading stream is.
LEMMA ReadingGives ==
  ASSUME file \in Files, NEW w, Reading(file, w)
  PROVE  /\ w.prefx_idx \in 0..(HeaderLen(file) - 1) /\ w.header_state = StateAt(file, w.prefx_idx)
         /\ w.total_in = w.prefx_idx /\ HeaderLen(file) \in Nat
         /\ DOMAIN w = Fields /\ w.xlen \in 0..(2^XlenBits - 1) /\ w.gzip_header_idx \in Nat
         /\ w.gzip_head \in HeaderBuffers \cup {NoBuffers}
         /\ w.avail_in \in Nat /\ w.total_in + w.avail_in <= FileLen(file)
         /\ XlenAt(file, w) /\ w.havedict \in BOOLEAN /\ w.prefx_len \in BOOLEAN /\ w.block_req \in BOOLEAN
         /\ w.saved = [extra |-> w.saved.extra, name |-> w.saved.name, comment |-> w.saved.comment]
         /\ file.format # "GZIP" => w.gzip_head = NoBuffers
         /\ w.gzip_head = NoBuffers => w.saved = Unsaved
         /\ w.gzip_head # NoBuffers =>
              /\ w.saved = SavedAt(file, w.prefx_idx)
              /\ BufferOf(w.header_state) # "none" =>
                   w.gzip_header_idx = w.saved[BufferOf(w.header_state)]
<1>1. /\ w.header_state = StateAt(file, w.prefx_idx) /\ w.header_state # "DONE"
      /\ w.total_in = w.prefx_idx /\ w.prefx_idx \in Nat
  BY DEF Reading, HeaderSound, Stream
<1>2. HeaderLen(file) \in Nat
  BY HeaderLength
<1>3. w.prefx_idx \in 0..(HeaderLen(file) - 1)
  <2>1. ~(w.prefx_idx >= HeaderLen(file))
    BY <1>1, StateGives DEF Reading
  <2>2. QED BY <1>1, <1>2, <2>1
<1>4. QED BY <1>1, <1>2, <1>3 DEF Reading, HeaderSound, Stream

\* The stream after a byte that is a part of the header.
LEMMA NextSound ==
  ASSUME file \in Files, NEW w, Reading(file, w), w.avail_in # 0,
         NEW x, Same(w, x, HeaderFields),
         x.avail_in = w.avail_in - 1, x.total_in = w.total_in + 1, x.prefx_idx = w.prefx_idx + 1,
         x.header_state = StateAt(file, x.prefx_idx),
         x.xlen \in 0..(2^XlenBits - 1), XlenAt(file, x), x.gzip_header_idx \in Nat,
         x.havedict \in BOOLEAN, DictKept(w, x),
         x.prefx_len = w.prefx_len, x.block_req = w.block_req,
         x.saved = [extra |-> x.saved.extra, name |-> x.saved.name, comment |-> x.saved.comment],
         x.gzip_head = NoBuffers => x.saved = Unsaved,
         x.gzip_head # NoBuffers =>
            /\ x.saved = SavedAt(file, x.prefx_idx)
            /\ BufferOf(x.header_state) # "none" =>
                 x.gzip_header_idx = x.saved[BufferOf(x.header_state)],
         NEW c, c \in {"MORE", "OK", "NEED_DICT"},
         c = "MORE" <=> x.header_state # "DONE"
  PROVE  ByteOutcome(file, w, x, c)
<1>1. /\ w.prefx_idx \in 0..(HeaderLen(file) - 1) /\ HeaderLen(file) \in Nat
      /\ w.total_in = w.prefx_idx /\ w.avail_in \in Nat /\ w.total_in + w.avail_in <= FileLen(file)
      /\ w.prefx_len \in BOOLEAN /\ w.block_req \in BOOLEAN
      /\ file.format # "GZIP" => w.gzip_head = NoBuffers
  BY ReadingGives
<1>2. FileLen(file) \in Nat
  BY LengthsGive
<1>3. /\ x.avail_in \in Nat /\ x.total_in \in Nat /\ x.prefx_idx \in Nat
      /\ x.total_in + x.avail_in <= FileLen(file) /\ x.prefx_idx <= HeaderLen(file)
      /\ x.total_in = x.prefx_idx
  BY <1>1, <1>2
<1>4. x.header_state \in States /\ (x.header_state = "DONE" <=> x.prefx_idx >= HeaderLen(file))
  BY <1>3, StateGives DEF Reading
<1>5. Stream(file, x)
  BY <1>1, <1>3, <1>4, StreamKept DEF Reading
<1>6. x.gzip_head = w.gzip_head
  BY DEF Same, Fields, HeaderFields
<1>7. HeaderSound(file, x)
  BY <1>1, <1>3, <1>4, <1>6 DEF HeaderSound
<1>8. x.header_state = "DONE" => x.total_in = HeaderLen(file)
  BY <1>1, <1>3, <1>4
<1>9. QED BY <1>5, <1>7, <1>8 DEF ByteOutcome

LEMMA GzipByte ==
  ASSUME file \in Files, ExtraUsed, NEW w, Reading(file, w), w.avail_in # 0, file.format = "GZIP",
         NEW r, r = inflate_rem_gzip_header(w, NextByte(w)), NEW x, x = Counted(r[1])
  PROVE  ByteOutcome(file, w, x, r[2])
<1> DEFINE f == file
<1>1. PICK p \in Nat : p = w.prefx_idx
  BY DEF Reading, Stream
<1>2. /\ p \in 0..(HeaderLen(f) - 1) /\ w.header_state = StateAt(f, p)
      /\ w.total_in = p /\ HeaderLen(f) \in Nat /\ DOMAIN w = Fields
      /\ w.xlen \in 0..(2^XlenBits - 1) /\ w.gzip_header_idx \in Nat
      /\ w.gzip_head \in HeaderBuffers \cup {NoBuffers}
      /\ w.avail_in \in Nat /\ w.total_in + w.avail_in <= FileLen(f)
      /\ XlenAt(f, w) /\ w.havedict \in BOOLEAN /\ w.prefx_len \in BOOLEAN /\ w.block_req \in BOOLEAN
      /\ w.saved = [extra |-> w.saved.extra, name |-> w.saved.name, comment |-> w.saved.comment]
      /\ w.gzip_head = NoBuffers => w.saved = Unsaved
      /\ w.gzip_head # NoBuffers =>
           /\ w.saved = SavedAt(f, p)
           /\ BufferOf(w.header_state) # "none" =>
                w.gzip_header_idx = w.saved[BufferOf(w.header_state)]
  BY <1>1, ReadingGives
<1>3. HeaderLen(f) >= 10
  BY HeaderLength
<1>4. PICK buf : buf = BufferOf(w.header_state)
  OBVIOUS
<1>5. /\ buf \in {"none", "extra", "name", "comment"}
      /\ buf = "none" => SavedAt(f, p + 1) = SavedAt(f, p)
      /\ buf # "none" => /\ SavedAt(f, p)[buf] \in Nat /\ SavedAt(f, p)[buf] < Lengths(f)[buf]
                         /\ SavedAt(f, p + 1) = [SavedAt(f, p) EXCEPT ![buf] = SavedAt(f, p)[buf] + 1]
  BY <1>2, <1>4, SavedNext
<1>6. CASE p < 9
  <2>1. r[1] = w /\ r[2] = "MORE"
    BY <1>1, <1>6 DEF inflate_rem_gzip_header
  <2>2. /\ DOMAIN x = Fields /\ x.avail_in = w.avail_in - 1 /\ x.total_in = w.total_in + 1
        /\ x.prefx_idx = w.prefx_idx + 1
        /\ \A field \in Fields \ {"avail_in", "total_in", "prefx_idx"} : x[field] = w[field]
    BY <1>2, <2>1, CountedGives
  <2>3. Same(w, x, HeaderFields)
    BY <2>2 DEF Same, HeaderFields
  <2>4. /\ x.header_state = w.header_state /\ x.xlen = w.xlen /\ x.gzip_header_idx = w.gzip_header_idx
        /\ x.havedict = w.havedict /\ x.prefx_len = w.prefx_len /\ x.block_req = w.block_req
        /\ x.saved = w.saved /\ x.gzip_head = w.gzip_head
    BY <2>2 DEF Fields
  <2>5. p + 1 \in 0..(HeaderLen(f) - 1) /\ p + 1 < 10 /\ p < 10
    BY <1>2, <1>3, <1>6
  <2>6. StateAt(f, p + 1) = "START" /\ StateAt(f, p) = "START"
    BY <1>2, <2>5, GzipStateGives
  <2>7. x.header_state = StateAt(f, x.prefx_idx) /\ x.header_state = "START"
    BY <1>1, <1>2, <2>2, <2>4, <2>6
  <2>8. BufferOf(x.header_state) = "none" /\ buf = "none"
    BY <1>2, <1>4, <2>4, <2>7, BufferGives
  <2>9. XlenAt(f, x)
    BY <2>7 DEF XlenAt
  <2>10. x.gzip_head # NoBuffers => x.saved = SavedAt(f, x.prefx_idx)
    BY <1>1, <1>2, <1>5, <2>2, <2>4, <2>8
  <2>11. DictKept(w, x) /\ x.havedict \in BOOLEAN
    BY <1>2, <2>4 DEF DictKept
  <2>12. QED BY <1>2, <2>1, <2>2, <2>3, <2>4, <2>7, <2>8, <2>9, <2>10, <2>11, NextSound
<1>7. CASE p >= 9
  <2>1. PICK n : n = GzipNext(w, NextByte(w))
    OBVIOUS
  <2>2. PICK b : b = BufferOf(StateAt(f, p + 1))
    OBVIOUS
  <2>3. PICK y : y = XlenNext(w, NextByte(w))
    OBVIOUS
  <2>4. PICK stores \in BOOLEAN : stores <=> buf # "none" /\ w.gzip_head # NoBuffers
    OBVIOUS
  <2>5. PICK idx \in Nat : idx = IF stores THEN w.gzip_header_idx + 1 ELSE w.gzip_header_idx
    BY <1>2
  <2>6. /\ n.state = StateAt(f, p + 1) /\ n.restart \in BOOLEAN
        /\ n.state = "EXTRA_LEN2" => n.restart = TRUE
        /\ b # "none" /\ n.restart = TRUE => SavedAt(f, p + 1)[b] = 0
        /\ b # "none" /\ n.restart = FALSE =>
             b = buf \/ (w.header_state = "EXTRA_LEN2" /\ SavedAt(f, p + 1)[b] = 0)
    <3>1. Leads(f, p, w.header_state, n, b)
      BY <1>1, <1>7, <2>1, <2>2, GzipNextGives
    <3>2. QED BY <1>4, <3>1, Zenon DEF Leads
  <2>7. /\ y \in 0..(2^XlenBits - 1)
        /\ StateAt(f, p + 1) = "EXTRA_LEN2" => y = f.extra
        /\ StateAt(f, p + 1) = "EXTRA" => y = NameAt(f) - (p + 1)
    BY <1>1, <1>7, <2>3, XlenGives
  <2>8. r = IF stores /\ w.gzip_header_idx >= w.gzip_head[buf] THEN <<w, "ERROR">>
            ELSE <<[w EXCEPT !.header_state = n.state, !.xlen = y,
                             !.gzip_header_idx = IndexRestarts(n, idx),
                             !.saved = IF stores THEN [@ EXCEPT ![buf] = idx] ELSE @],
                   IF n.state = "DONE" THEN "OK" ELSE "MORE">>
    <3>1. ~(w.prefx_idx < 9)
      BY <1>1, <1>7
    <3>2. stores = (buf # "none" /\ w.gzip_head # NoBuffers)
      BY <2>4
    <3>3. QED BY <1>4, <2>1, <2>3, <2>5, <3>1, <3>2, Zenon DEF inflate_rem_gzip_header
  <2>9. CASE stores /\ w.gzip_header_idx >= w.gzip_head[buf]
    <3>1. r[1] = w /\ r[2] = "ERROR"
      BY <2>8, <2>9
    <3>2. /\ DOMAIN x = Fields /\ x.avail_in = w.avail_in - 1 /\ x.total_in = w.total_in + 1
          /\ x.prefx_idx = w.prefx_idx + 1
          /\ \A field \in Fields \ {"avail_in", "total_in", "prefx_idx"} : x[field] = w[field]
      BY <1>2, <3>1, CountedGives
    <3>3. Same(w, x, HeaderFields)
      BY <3>2 DEF Same, HeaderFields
    <3>4. /\ x.header_state = w.header_state /\ x.xlen = w.xlen /\ x.gzip_header_idx = w.gzip_header_idx
          /\ x.havedict = w.havedict /\ x.prefx_len = w.prefx_len /\ x.block_req = w.block_req
          /\ x.saved = w.saved /\ x.gzip_head = w.gzip_head
      BY <3>2 DEF Fields
    <3>5. /\ x.avail_in \in Nat /\ x.total_in \in Nat /\ x.prefx_idx \in Nat
          /\ x.total_in + x.avail_in <= FileLen(f)
      <4>1. FileLen(f) \in Nat
        BY LengthsGive
      <4>2. QED BY <1>1, <1>2, <3>2, <4>1
    <3>6. x.header_state \in States /\ x.header_state # "DONE"
      BY <1>2, <3>4, StateGives DEF Reading
    <3>7. Stream(f, x)
      BY <1>2, <3>3, <3>4, <3>5, <3>6, StreamKept DEF Reading
    <3>8. TooLong(f, x)
      <4>1. buf \in {"extra", "name", "comment"} /\ w.gzip_head \in HeaderBuffers
        BY <1>2, <1>5, <2>4, <2>9
      <4>2. w.gzip_header_idx = SavedAt(f, p)[buf] /\ w.gzip_header_idx < Lengths(f)[buf]
        BY <1>2, <1>4, <1>5, <2>4, <2>9
      <4>3. w.gzip_head[buf] \in Nat /\ Lengths(f)[buf] \in Int
        <5>1. w.gzip_head \in [extra : Nat, name : Nat, comment : Nat]
          BY <4>1, BoundsAssumption
        <5>2. f.extra \in Int /\ f.name \in Int /\ f.comment \in Int
          BY FileGives DEF Absent
        <5>3. QED BY <4>1, <5>1, <5>2 DEF Lengths, NotNegative
      <4>4. Lengths(f)[buf] > x.gzip_head[buf]
        BY <1>2, <2>9, <3>4, <4>2, <4>3
      <4>5. QED BY <4>1, <4>4 DEF TooLong
    <3>9. QED BY <3>1, <3>2, <3>3, <3>4, <3>6, <3>7, <3>8 DEF ByteOutcome, DictKept
  <2>10. CASE ~(stores /\ w.gzip_header_idx >= w.gzip_head[buf])
    <3>1. PICK u : u = [w EXCEPT !.header_state = n.state, !.xlen = y,
                             !.gzip_header_idx = IndexRestarts(n, idx),
                             !.saved = IF stores THEN [@ EXCEPT ![buf] = idx] ELSE @]
      OBVIOUS
    <3>2. r[1] = u /\ r[2] = IF n.state = "DONE" THEN "OK" ELSE "MORE"
      BY <2>8, <2>10, <3>1
    <3>3. /\ DOMAIN u = Fields /\ u.header_state = n.state /\ u.xlen = y
          /\ u.gzip_header_idx = IndexRestarts(n, idx)
          /\ u.saved = IF stores THEN [w.saved EXCEPT ![buf] = idx] ELSE w.saved
          /\ \A field \in Fields \ {"header_state", "xlen", "gzip_header_idx", "saved"} :
               u[field] = w[field]
      BY <1>2, <3>1 DEF Fields
    <3>4. /\ DOMAIN x = Fields /\ x.avail_in = u.avail_in - 1 /\ x.total_in = u.total_in + 1
          /\ x.prefx_idx = u.prefx_idx + 1
          /\ \A field \in Fields \ {"avail_in", "total_in", "prefx_idx"} : x[field] = u[field]
      BY <3>2, <3>3, CountedGives
    <3>5. Same(w, x, HeaderFields)
      BY <3>3, <3>4 DEF Same, HeaderFields
    <3>6. /\ x.header_state = n.state /\ x.xlen = y /\ x.gzip_header_idx = IndexRestarts(n, idx)
          /\ x.saved = IF stores THEN [w.saved EXCEPT ![buf] = idx] ELSE w.saved
          /\ x.havedict = w.havedict /\ x.prefx_len = w.prefx_len /\ x.block_req = w.block_req
          /\ x.gzip_head = w.gzip_head /\ x.avail_in = w.avail_in - 1 /\ x.total_in = w.total_in + 1
          /\ x.prefx_idx = w.prefx_idx + 1
      BY <3>3, <3>4 DEF Fields
    <3>7. x.prefx_idx = p + 1 /\ x.header_state = StateAt(f, x.prefx_idx)
      BY <1>1, <2>6, <3>6
    <3>8. x.gzip_header_idx \in Nat /\ (n.restart = TRUE => x.gzip_header_idx = 0)
          /\ (n.restart = FALSE => x.gzip_header_idx = idx)
      BY <2>5, <2>6, <3>6 DEF IndexRestarts
    <3>9. XlenAt(f, x)
      BY <2>6, <2>7, <3>6, <3>7, <3>8 DEF XlenAt
    <3>10. x.saved = [extra |-> x.saved.extra, name |-> x.saved.name, comment |-> x.saved.comment]
      <4>1. CASE stores
        <5>1. x.saved = [w.saved EXCEPT ![buf] = idx]
          BY <3>6, <4>1
        <5>2. QED BY <1>2, <5>1
      <4>2. CASE ~stores
        <5>1. x.saved = w.saved
          BY <3>6, <4>2
        <5>2. QED BY <1>2, <5>1
      <4>3. QED BY <4>1, <4>2
    <3>11. ASSUME x.gzip_head # NoBuffers
           PROVE  /\ x.saved = SavedAt(f, x.prefx_idx)
                  /\ b # "none" => x.gzip_header_idx = x.saved[b]
      <4>1. w.gzip_head # NoBuffers /\ w.saved = SavedAt(f, p)
        BY <1>2, <3>6, <3>11
      <4>2. x.saved = SavedAt(f, p + 1) /\ (buf # "none" => idx = SavedAt(f, p + 1)[buf])
        <5>1. CASE buf = "none"
          BY <1>5, <2>4, <3>6, <4>1, <5>1
        <5>2. CASE buf # "none"
          <6>1. idx = w.gzip_header_idx + 1 /\ w.gzip_header_idx = w.saved[buf]
            BY <1>2, <1>4, <2>4, <2>5, <4>1, <5>2
          <6>2. idx = SavedAt(f, p)[buf] + 1
            BY <4>1, <6>1
          <6>3. x.saved = [SavedAt(f, p) EXCEPT ![buf] = SavedAt(f, p)[buf] + 1]
            BY <2>4, <3>6, <4>1, <5>2, <6>2
          <6>4. buf \in DOMAIN SavedAt(f, p)
            BY <1>5, <5>2 DEF SavedAt
          <6>5. QED BY <1>5, <5>2, <6>2, <6>3, <6>4
        <5>3. QED BY <5>1, <5>2
      <4>3. ASSUME b # "none"
            PROVE  x.gzip_header_idx = x.saved[b]
        <5>1. CASE n.restart = TRUE
          BY <2>6, <3>8, <4>2, <4>3, <5>1
        <5>2. CASE n.restart = FALSE /\ b = buf
          BY <2>6, <3>8, <4>2, <4>3, <5>2
        <5>3. CASE n.restart = FALSE /\ b # buf
          <6>1. w.header_state = "EXTRA_LEN2" /\ SavedAt(f, p + 1)[b] = 0
            BY <2>6, <4>3, <5>3
          <6>2. buf = "none" /\ w.gzip_header_idx = 0
            BY <1>2, <1>4, <6>1, BufferGives DEF XlenAt
          <6>3. idx = 0
            BY <2>4, <2>5, <6>2
          <6>4. QED BY <3>8, <4>2, <5>3, <6>1, <6>3
        <5>4. QED BY <2>6, <5>1, <5>2, <5>3
      <4>4. QED BY <3>7, <4>2, <4>3
    <3>12. x.gzip_head = NoBuffers => x.saved = Unsaved
      BY <1>2, <2>4, <3>6
    <3>13. b = BufferOf(x.header_state)
      BY <2>2, <3>7
    <3>14. /\ r[2] \in {"MORE", "OK"} /\ (r[2] = "MORE" <=> x.header_state # "DONE")
           /\ x.havedict \in BOOLEAN /\ DictKept(w, x)
      BY <1>2, <3>2, <3>6 DEF DictKept
    <3>15. PICK c : c = r[2]
      OBVIOUS
    <3>16. ByteOutcome(f, w, x, c)
      <4>1. f \in Files /\ Reading(f, w) /\ w.avail_in # 0
        BY <1>2
      <4>2. /\ x.avail_in = w.avail_in - 1 /\ x.total_in = w.total_in + 1
            /\ x.prefx_idx = w.prefx_idx + 1 /\ x.header_state = StateAt(f, x.prefx_idx)
            /\ x.prefx_len = w.prefx_len /\ x.block_req = w.block_req
        BY <1>1, <3>6, <3>7
      <4>3. x.xlen \in 0..(2^XlenBits - 1)
        BY <2>7, <3>6
      <4>4. x.gzip_head # NoBuffers =>
               /\ x.saved = SavedAt(f, x.prefx_idx)
               /\ BufferOf(x.header_state) # "none" =>
                    x.gzip_header_idx = x.saved[BufferOf(x.header_state)]
        BY <3>11, <3>13
      <4>5. c \in {"MORE", "OK", "NEED_DICT"} /\ (c = "MORE" <=> x.header_state # "DONE")
        BY <3>14, <3>15
      <4>6. x.gzip_header_idx \in Nat /\ x.havedict \in BOOLEAN /\ DictKept(w, x)
        BY <3>8, <3>14
      <4>7. QED BY <4>1, <3>5, <4>2, <4>3, <3>9, <4>6, <3>10, <3>12, <4>4, <4>5, NextSound
    <3>17. QED BY <3>15, <3>16
  <2>11. QED BY <2>9, <2>10
<1>8. QED BY <1>1, <1>6, <1>7

LEMMA ZlibByte ==
  ASSUME file \in Files, NEW w, Reading(file, w), w.avail_in # 0, file.format = "ZLIB",
         NEW r, r = inflate_rem_zlib_header(w), NEW x, x = Counted(r[1])
  PROVE  ByteOutcome(file, w, x, r[2])
<1> DEFINE f == file
<1>1. PICK p \in Nat : p = w.prefx_idx
  BY DEF Reading, Stream
<1>2. /\ p \in 0..(HeaderLen(f) - 1) /\ w.header_state = StateAt(f, p)
      /\ HeaderLen(f) \in Nat /\ DOMAIN w = Fields
      /\ w.xlen \in 0..(2^XlenBits - 1) /\ w.gzip_header_idx \in Nat
      /\ w.havedict \in BOOLEAN
      /\ w.saved = [extra |-> w.saved.extra, name |-> w.saved.name, comment |-> w.saved.comment]
      /\ w.gzip_head = NoBuffers /\ w.saved = Unsaved
  BY <1>1, ReadingGives
<1>3. HeaderLen(f) = (IF f.dict THEN 6 ELSE 2) /\ f.dict \in BOOLEAN
  BY HeaderLength, FileGives
<1>4. \A q \in Nat : StateAt(f, q) = IF q >= HeaderLen(f) THEN "DONE"
                                     ELSE IF q < 2 THEN "START" ELSE "ZLIB_ADLER"
  BY <1>2 DEF StateAt
<1>5. PICK u, c : u = r[1] /\ c = r[2]
  OBVIOUS
<1>6. /\ DOMAIN u = Fields /\ u.header_state = StateAt(f, p + 1) /\ u.havedict \in {w.havedict, FALSE}
      /\ \A field \in Fields \ {"header_state", "havedict"} : u[field] = w[field]
      /\ c \in {"MORE", "OK", "NEED_DICT"} /\ (c = "MORE" <=> StateAt(f, p + 1) # "DONE")
  <2>1. CASE p = 0
    <3>1. u = w /\ c = "MORE"
      BY <1>1, <1>5, <2>1 DEF inflate_rem_zlib_header
    <3>2. StateAt(f, 0) = "START" /\ StateAt(f, p + 1) = "START"
      BY <1>3, <1>4, <2>1
    <3>3. QED BY <1>2, <2>1, <3>1, <3>2
  <2>2. CASE p = 1 /\ f.dict
    <3>1. u = [w EXCEPT !.header_state = "ZLIB_ADLER"] /\ c = "MORE"
      BY <1>1, <1>5, <2>2 DEF inflate_rem_zlib_header
    <3>2. StateAt(f, p + 1) = "ZLIB_ADLER"
      BY <1>3, <1>4, <2>2
    <3>3. QED BY <1>2, <3>1, <3>2 DEF Fields
  <2>3. CASE p = 1 /\ ~f.dict
    <3>1. u = [w EXCEPT !.header_state = "DONE"] /\ c = "OK"
      BY <1>1, <1>5, <2>3 DEF inflate_rem_zlib_header
    <3>2. StateAt(f, p + 1) = "DONE"
      BY <1>3, <1>4, <2>3
    <3>3. QED BY <1>2, <3>1, <3>2 DEF Fields
  <2>4. CASE p = 5
    <3>1. u = [w EXCEPT !.header_state = "DONE", !.havedict = FALSE] /\ c = "NEED_DICT"
      BY <1>1, <1>5, <2>4 DEF inflate_rem_zlib_header
    <3>2. StateAt(f, p + 1) = "DONE"
      BY <1>3, <1>4, <2>4
    <3>3. QED BY <1>2, <3>1, <3>2 DEF Fields
  <2>5. CASE p \in 2..4
    <3>1. u = w /\ c = "MORE"
      BY <1>1, <1>5, <2>5 DEF inflate_rem_zlib_header
    <3>2. HeaderLen(f) = 6
      BY <1>2, <1>3, <2>5
    <3>3. StateAt(f, p) = "ZLIB_ADLER" /\ StateAt(f, p + 1) = "ZLIB_ADLER"
      BY <1>4, <2>5, <3>2
    <3>4. QED BY <1>2, <3>1, <3>3
  <2>6. p \in {0, 1, 5} \/ p \in 2..4
    BY <1>2, <1>3
  <2>7. QED BY <2>1, <2>2, <2>3, <2>4, <2>5, <2>6
<1>7. /\ DOMAIN x = Fields /\ x.avail_in = u.avail_in - 1 /\ x.total_in = u.total_in + 1
      /\ x.prefx_idx = u.prefx_idx + 1
      /\ \A field \in Fields \ {"avail_in", "total_in", "prefx_idx"} : x[field] = u[field]
  BY <1>5, <1>6, CountedGives
<1>8. Same(w, x, HeaderFields)
  BY <1>6, <1>7 DEF Same, HeaderFields
<1>9. /\ x.header_state = u.header_state /\ x.xlen = w.xlen /\ x.gzip_header_idx = w.gzip_header_idx
      /\ x.havedict = u.havedict /\ x.prefx_len = w.prefx_len /\ x.block_req = w.block_req
      /\ x.saved = w.saved /\ x.gzip_head = w.gzip_head /\ x.prefx_idx = w.prefx_idx + 1
      /\ x.avail_in = w.avail_in - 1 /\ x.total_in = w.total_in + 1
  BY <1>6, <1>7 DEF Fields
<1>10. x.header_state = StateAt(f, x.prefx_idx) /\ x.header_state \in {"START", "ZLIB_ADLER", "DONE"}
  BY <1>1, <1>4, <1>6, <1>9
<1>11. XlenAt(f, x)
  BY <1>10 DEF XlenAt
<1>12. ByteOutcome(f, w, x, c)
  <2>1. x.havedict \in BOOLEAN /\ DictKept(w, x)
    BY <1>2, <1>6, <1>9 DEF DictKept
  <2>2. QED BY <1>2, <1>6, <1>8, <1>9, <1>10, <1>11, <1>1, <2>1, NextSound
<1>13. QED BY <1>5, <1>12

\* One byte of the header.
LEMMA HeaderByteGives ==
  ASSUME file \in Files, ExtraUsed, NEW w, Reading(file, w), w.avail_in # 0
  PROVE  \E x, c : HeaderByte(w) = <<x, c>> /\ ByteOutcome(file, w, x, c)
<1>1. file.format = "ZLIB" \/ file.format = "GZIP"
  BY FileGives DEF Reading
<1>2. ASSUME NEW r
      PROVE  The({<<Counted(h[1]), h[2]>> : h \in {r}}) = <<Counted(r[1]), r[2]>>
  <2>1. {<<Counted(h[1]), h[2]>> : h \in {r}} = {<<Counted(r[1]), r[2]>>}
    OBVIOUS
  <2>2. QED BY <2>1, TheOnly
<1>3. CASE file.format = "ZLIB"
  <2>1. PICK r : r = inflate_rem_zlib_header(w)
    OBVIOUS
  <2>2. HeaderByte(w) = <<Counted(r[1]), r[2]>>
    BY <1>2, <1>3, <2>1 DEF HeaderByte
  <2>3. ByteOutcome(file, w, Counted(r[1]), r[2])
    BY <1>3, <2>1, ZlibByte
  <2>4. QED BY <2>2, <2>3
<1>4. CASE file.format = "GZIP"
  <2>1. PICK r : r = inflate_rem_gzip_header(w, NextByte(w))
    OBVIOUS
  <2>2. HeaderByte(w) = <<Counted(r[1]), r[2]>>
    BY <1>2, <1>4, <2>1 DEF HeaderByte
  <2>3. ByteOutcome(file, w, Counted(r[1]), r[2])
    BY <1>4, <2>1, GzipByte
  <2>4. QED BY <2>2, <2>3
<1>5. QED BY <1>1, <1>3, <1>4

\* What the loop leaves: stream x, and what its last pass said.
LoopOutcome(f, v, x, c) ==
  /\ Same(v, x, HeaderFields) /\ Stream(f, x)
  /\ x.total_in + x.avail_in = v.total_in + v.avail_in
  /\ DictKept(v, x)
  /\ c \in {"MORE", "OK", "NEED_DICT", "ERROR"}
  /\ c # "ERROR" => HeaderSound(f, x)
  /\ c = "MORE" => x.header_state # "DONE"
  /\ c \in {"OK", "NEED_DICT"} => x.header_state = "DONE" /\ x.total_in = HeaderLen(f)
  /\ c = "ERROR" => TooLong(f, x) /\ x.header_state # "DONE"

LEMMA HeaderLoopGives ==
  ASSUME file \in Files, ExtraUsed, NEW w, Reading(file, w)
  PROVE  \E x, c : /\ HeaderLoop(w) = <<x, c>> /\ LoopOutcome(file, w, x, c)
                   /\ c = "MORE" => x.avail_in = 0
<1>1. w.avail_in \in Nat /\ DOMAIN w = Fields
  BY DEF Reading, Stream
<1>2. PICK g : /\ g[0] = <<w, "MORE">>
               /\ \A n \in Nat : g[n + 1] = Pass(g[n])
               /\ HeaderLoop(w) = g[w.avail_in]
  BY <1>1, LoopUnfolds
<1> DEFINE Good(n) == \E x, c : /\ g[n] = <<x, c>> /\ LoopOutcome(file, w, x, c)
                                /\ c = "MORE" => x.avail_in = w.avail_in - n
           S == {n \in Nat : n <= w.avail_in /\ ~Good(n)}
<1>3. ASSUME S # {}
      PROVE  FALSE
  <2>1. PICK n \in S : \A y \in S : n <= y
    BY <1>3, LeastIn
  <2>2. CASE n = 0
    <3>1. Same(w, w, HeaderFields)
      BY <1>1 DEF Same
    <3>2. LoopOutcome(file, w, w, "MORE")
      BY <3>1 DEF LoopOutcome, Reading, DictKept
    <3>3. Good(0)
      BY <1>1, <1>2, <3>2
    <3>4. QED BY <2>1, <2>2, <3>3
  <2>3. CASE n # 0
    <3>1. PICK m \in Nat : n = m + 1
      BY <2>1, <2>3
    <3>2. Good(m) /\ m < w.avail_in
      BY <1>1, <2>1, <3>1
    <3>3. PICK x, c : /\ g[m] = <<x, c>> /\ LoopOutcome(file, w, x, c)
                      /\ c = "MORE" => x.avail_in = w.avail_in - m
      BY <3>2
    <3>4. g[n] = IF c = "MORE" THEN HeaderByte(x) ELSE <<x, c>>
      BY <1>2, <3>1, <3>3 DEF Pass
    <3>5. CASE c # "MORE"
      BY <2>1, <3>3, <3>4, <3>5
    <3>6. CASE c = "MORE"
      <4>1. Reading(file, x)
        <5>1. Fresh(w) /\ file.format # "DEFL"
          BY DEF Reading
        <5>2. Fresh(x)
          BY <3>3, <5>1, FreshKept DEF LoopOutcome
        <5>3. QED BY <3>3, <3>6, <5>1, <5>2 DEF Reading, LoopOutcome
      <4>2. x.avail_in # 0 /\ x.avail_in \in Nat /\ x.total_in \in Nat /\ x.avail_in = w.avail_in - m
        BY <1>1, <3>2, <3>3, <3>6 DEF LoopOutcome, Stream
      <4>3. PICK u, d : HeaderByte(x) = <<u, d>> /\ ByteOutcome(file, x, u, d)
        BY <4>1, <4>2, HeaderByteGives
      <4>4. g[n] = <<u, d>>
        BY <3>4, <3>6, <4>3
      <4>5. Same(w, u, HeaderFields)
        BY <3>3, <4>3 DEF LoopOutcome, ByteOutcome, Same
      <4>6. DictKept(w, u)
        BY <3>3, <4>3 DEF LoopOutcome, ByteOutcome, DictKept
      <4>7. u.total_in + u.avail_in = w.total_in + w.avail_in
        BY <3>3, <4>2, <4>3 DEF LoopOutcome, ByteOutcome
      <4>8. LoopOutcome(file, w, u, d)
        BY <4>3, <4>5, <4>7, <4>6 DEF LoopOutcome, ByteOutcome
      <4>9. u.avail_in = w.avail_in - n
        BY <1>1, <3>1, <4>2, <4>3 DEF ByteOutcome
      <4>10. QED BY <2>1, <4>4, <4>8, <4>9
    <3>7. QED BY <3>5, <3>6
  <2>4. QED BY <2>2, <2>3
<1>4. Good(w.avail_in)
  BY <1>1, <1>3
<1>5. PICK x, c : /\ g[w.avail_in] = <<x, c>> /\ LoopOutcome(file, w, x, c)
                  /\ c = "MORE" => x.avail_in = w.avail_in - w.avail_in
  BY <1>4
<1>6. QED BY <1>1, <1>2, <1>5

-----------------------------------------------------------------------------
(* The header: a call                                                       *)

\* What a call leaves that has parsed what it got of the header.
ParseOutcome(f, v, x, c) ==
  /\ Same(v, x, HeaderFields) /\ Stream(f, x)
  /\ x.total_in + x.avail_in = v.total_in + v.avail_in
  /\ DictKept(v, x)
  /\ c \in {"OK", "NEED_DICT", "ERR_GZIP_HDR"}
  /\ c # "ERR_GZIP_HDR" => HeaderSound(f, x)
  /\ c = "OK" /\ x.header_state # "DONE" => x.avail_in = 0
  /\ c = "NEED_DICT" => x.header_state = "DONE"
  /\ c # "ERR_GZIP_HDR" /\ x.header_state = "DONE" => x.total_in = HeaderLen(f)
  /\ c = "ERR_GZIP_HDR" => TooLong(f, x) /\ x.header_state # "DONE"

\* The two flags of a call are of no interest to the parser.
LEMMA FlagsKeep ==
  ASSUME NEW f, NEW v, NEW x, Stream(f, v), Same(v, x, {"prefx_len", "block_req"}),
         x.prefx_len \in BOOLEAN, x.block_req \in BOOLEAN
  PROVE  /\ Stream(f, x) /\ (HeaderSound(f, v) => HeaderSound(f, x)) /\ Same(v, x, HeaderFields)
         /\ x.header_state = v.header_state /\ x.total_in = v.total_in /\ x.avail_in = v.avail_in
         /\ x.gzip_head = v.gzip_head
<1>1. /\ x.header_state = v.header_state /\ x.total_in = v.total_in /\ x.avail_in = v.avail_in
      /\ x.prefx_idx = v.prefx_idx /\ x.xlen = v.xlen /\ x.gzip_header_idx = v.gzip_header_idx
      /\ x.saved = v.saved /\ x.gzip_head = v.gzip_head /\ x.havedict = v.havedict
  BY DEF Same, Fields
<1>2. Same(v, x, HeaderFields)
  BY DEF Same, HeaderFields
<1>3. HeaderSound(f, v) => HeaderSound(f, x)
  BY <1>1 DEF HeaderSound, XlenAt
<1>4. /\ v.avail_in \in Nat /\ v.total_in \in Nat /\ v.total_in + v.avail_in <= FileLen(f)
      /\ v.header_state \in States /\ v.prefx_idx \in Nat /\ v.xlen \in 0..(2^XlenBits - 1)
      /\ v.gzip_header_idx \in Nat /\ v.havedict \in BOOLEAN
      /\ v.saved = [extra |-> v.saved.extra, name |-> v.saved.name, comment |-> v.saved.comment]
      /\ v.gzip_head = NoBuffers => v.saved = Unsaved
  BY DEF Stream
<1>5. Stream(f, x)
  BY <1>1, <1>2, <1>4, StreamKept
<1>6. QED BY <1>1, <1>2, <1>3, <1>5

LEMMA RemHeaderGives ==
  ASSUME file \in Files, ExtraUsed, NEW w, Reading(file, w), NEW flush
  PROVE  \E x, c : inflate_format_rem_header(w, flush) = <<x, c>> /\ ParseOutcome(file, w, x, c)
<1>1. PICK u : u = [w EXCEPT !.prefx_len = TRUE]
  OBVIOUS
<1>2. DOMAIN w = Fields /\ w.block_req \in BOOLEAN /\ Stream(file, w) /\ HeaderSound(file, w)
      /\ Fresh(w) /\ file.format # "DEFL" /\ w.header_state # "DONE" /\ w.prefx_len \in BOOLEAN
  BY DEF Reading, Stream
<1>3. /\ Same(w, u, {"prefx_len", "block_req"}) /\ u.prefx_len = TRUE /\ u.block_req = w.block_req
  BY <1>1, <1>2 DEF Same, Fields
<1>4. /\ Stream(file, u) /\ HeaderSound(file, u) /\ Same(w, u, HeaderFields)
      /\ u.header_state = w.header_state /\ u.total_in = w.total_in /\ u.avail_in = w.avail_in
  BY <1>2, <1>3, FlagsKeep
<1>5. Reading(file, u)
  BY <1>2, <1>4, FreshKept DEF Reading
<1>6. PICK y, d : /\ HeaderLoop(u) = <<y, d>> /\ LoopOutcome(file, u, y, d)
                  /\ d = "MORE" => y.avail_in = 0
  BY <1>5, HeaderLoopGives
<1>7. PICK c : c = CASE d = "ERROR" -> "ERR_GZIP_HDR" [] d = "NEED_DICT" -> "NEED_DICT" [] OTHER -> "OK"
  OBVIOUS
<1>8. PICK req \in BOOLEAN : req = (~w.prefx_len /\ flush = "BLOCK" /\ c = "OK")
  OBVIOUS
<1>9. PICK x : x = [y EXCEPT !.block_req = req]
  OBVIOUS
<1>10. inflate_format_rem_header(w, flush) = <<x, c>>
  <2>1. {LET result == CASE h[2] = "ERROR" -> "ERR_GZIP_HDR"
                         [] h[2] = "NEED_DICT" -> "NEED_DICT"
                         [] OTHER -> "OK"
         IN  <<[h[1] EXCEPT !.block_req = ~w.prefx_len /\ flush = "BLOCK" /\ result = "OK"], result>> :
         h \in {HeaderLoop(u)}} = {<<x, c>>}
    BY <1>6, <1>7, <1>8, <1>9
  <2>2. QED BY <1>1, <2>1, TheOnly DEF inflate_format_rem_header
<1>11. Stream(file, y) /\ DOMAIN y = Fields /\ y.prefx_len \in BOOLEAN
  BY <1>6 DEF LoopOutcome, Stream
<1>12. Same(y, x, {"prefx_len", "block_req"}) /\ x.prefx_len = y.prefx_len /\ x.block_req = req
  BY <1>9, <1>11 DEF Same, Fields
<1>13. /\ Stream(file, x) /\ (HeaderSound(file, y) => HeaderSound(file, x)) /\ Same(y, x, HeaderFields)
       /\ x.header_state = y.header_state /\ x.total_in = y.total_in /\ x.avail_in = y.avail_in
       /\ x.gzip_head = y.gzip_head
  <2>1. x.prefx_len \in BOOLEAN /\ x.block_req \in BOOLEAN
    BY <1>8, <1>11, <1>12
  <2>2. QED BY <1>11, <1>12, <2>1, FlagsKeep
<1>14. Same(w, x, HeaderFields)
  BY <1>4, <1>6, <1>13 DEF Same, LoopOutcome
<1>15. DictKept(w, x)
  <2>1. x.havedict = y.havedict
    BY <1>12 DEF Same, Fields
  <2>2. u.havedict = w.havedict
    BY <1>3 DEF Same, Fields
  <2>3. QED BY <1>6, <2>1, <2>2 DEF LoopOutcome, DictKept
<1>16. TooLong(file, y) => TooLong(file, x)
  BY <1>13 DEF TooLong
<1>17. ParseOutcome(file, w, x, c)
  BY <1>4, <1>6, <1>7, <1>13, <1>14, <1>15, <1>16 DEF ParseOutcome, LoopOutcome
<1>18. QED BY <1>10, <1>17

\* A stream that has sent nothing yet, and is where the body begins if the header is parsed.
LEMMA FreshSound ==
  ASSUME NEW f \in Files, NEW v, Stream(f, v), HeaderSound(f, v), Fresh(v),
         Parsed(f, v) => v.total_in = HeaderLen(f)
  PROVE  Sound(f, v)
<1>1. /\ v.tok = 1 /\ v.total_out = 0 /\ v.obytes_in_dict = 0 /\ ~v.eob_seen /\ v.postfx_idx = 0
      /\ v.scratch_bits = 0 /\ v.scratch_ib = 0
      /\ v.tree_bits = 0 /\ v.hdr_ib = 0 /\ v.pad_bits = 0
  BY DEF Fresh
<1>2. 1 \in 1..NTok(f) /\ 1 \in 1..(NTok(f) + 1)
  BY FileGives
<1>3. f.hdrOf[1] = 0 /\ f.body[1].bits > 0
  <2>1. /\ f.hdrOf[1] = 0
        /\ f.hdrOf[1] = 0 <=> f.body[1].k = "hdr"
        /\ f.body[1].k = "hdr" => f.body[1].bits > (IF f.body[1].stored THEN 32 ELSE 0)
    BY <1>2, BlocksGive
  <2>2. f.body[1].bits \in Nat /\ f.body[1].stored \in BOOLEAN
    BY <1>2, FileGives
  <2>3. QED BY <2>1, <2>2
<1>4. Bit(f, 1) = 8 * HeaderLen(f) /\ HeaderLen(f) \in Nat /\ NTok(f) \in Nat /\ 1 <= NTok(f)
  BY <1>2, BitsGive, HeaderLength, FileGives
<1>5. f.outAt[1] = 0
  BY <1>2, NumbersGive
<1>6. OutSound(f, v)
  BY <1>1, <1>5 DEF OutSound
<1>7. EndSound(f, v)
  BY <1>1 DEF EndSound
<1>8. ~StoredIn(f, 1) /\ TreeBits(f, 1) = 0 /\ TreeIb(f, 1) = 0
  BY <1>3 DEF StoredIn, TreeBits, TreeIb
<1>9. Padding(0) = 0
  BY DEF Padding
<1>10. ASSUME Parsed(f, v)
       PROVE  BitsSound(f, v) /\ AreaSound(f, v)
  <2>1. 8 * v.total_in = Bit(f, v.tok) + v.scratch_bits
    BY <1>1, <1>4, <1>10
  <2>2. v.scratch_ib = Bit(f, v.tok) % 8
    BY <1>1, <1>4
  <2>3. BitsSound(f, v)
    BY <1>1, <1>3, <1>4, <1>8, <1>9, <2>1, <2>2 DEF BitsSound, BitsAt
  <2>4. InScratchBytes(v) = 0
    BY <1>1 DEF InScratchBytes
  <2>5. AreaSound(f, v)
    BY <1>1, <1>3, <1>8, <2>4 DEF AreaSound
  <2>6. QED BY <2>3, <2>5
<1>11. QED BY <1>6, <1>7, <1>10 DEF Sound, BodySound

-----------------------------------------------------------------------------
(* What a call leaves                                                       *)

LEMMA ByteOfBit ==
  ASSUME NEW a \in Nat
  PROVE  a = 8 * (a \div 8) + (a % 8) /\ a \div 8 \in Nat /\ a % 8 \in 0..7
OBVIOUS

LEMMA PaddingGives ==
  ASSUME NEW b \in Nat
  PROVE  Padding(b) \in 0..63 /\ b + Padding(b) = 64 * ((b + 63) \div 64)
BY DEF Padding

\* The tree of the block that token i is in.
LEMMA TreeGives ==
  ASSUME NEW f \in Files, NEW i \in 1..NTok(f)
  PROVE  /\ TreeBits(f, i) \in Nat /\ TreeIb(f, i) \in 0..7
         /\ TreeBits(f, i) = 0 <=> f.hdrOf[i] = 0
         /\ 8 * ((TreeIb(f, i) + TreeBits(f, i) + 63) \div 64) <= TreeBytes(f, i)
         /\ TreeBytes(f, i) \in Nat
<1>1. NTok(f) \in Nat /\ i \in 1..(NTok(f) + 1)
  BY FileGives
<1>2. PICK h \in Int : h = f.hdrOf[i]
  BY BlocksGive
<1>3. CASE h = 0
  BY <1>2, <1>3 DEF TreeBits, TreeIb, TreeBytes
<1>4. CASE h # 0
  <2>1. h \in 1..(i - 1) /\ f.body[h].k = "hdr"
    BY <1>1, <1>2, <1>4, HeaderOfBlock
  <2>2. h \in 1..NTok(f) /\ h \in 1..(NTok(f) + 1)
    BY <1>1, <2>1
  <2>3. PICK b \in Nat : b = f.body[h].bits
    BY <2>2, FileGives
  <2>4. b > 0 /\ f.body[h].stored \in BOOLEAN
    <3>1. f.body[h].bits > (IF f.body[h].stored THEN 32 ELSE 0) /\ f.body[h].stored \in BOOLEAN
      BY <2>1, <2>2, BlocksGive, FileGives
    <3>2. QED BY <2>3, <3>1
  <2>5. PICK r \in 0..7 : r = Bit(f, h) % 8
    <3>1. Bit(f, h) \in Nat
      BY <2>2, BitsGive
    <3>2. QED BY <3>1
  <2>6. CASE f.body[h].stored
    BY <1>2, <1>4, <2>6 DEF TreeBits, TreeIb, TreeBytes, StoredIn
  <2>7. CASE ~f.body[h].stored
    <3>1. TreeBits(f, i) = b /\ TreeIb(f, i) = r /\ TreeBytes(f, i) = 8 * ((b + 70) \div 64)
      BY <1>2, <1>4, <2>3, <2>5, <2>7 DEF TreeBits, TreeIb, TreeBytes, StoredIn
    <3>2. 8 * ((r + b + 63) \div 64) <= 8 * ((b + 70) \div 64)
      BY <2>3, <2>5
    <3>3. PICK x \in Nat, y \in Nat : x = 8 * ((r + b + 63) \div 64) /\ y = 8 * ((b + 70) \div 64)
      BY <2>3, <2>5
    <3>4. x <= y
      BY <3>2, <3>3
    <3>5. 8 * ((TreeIb(f, i) + TreeBits(f, i) + 63) \div 64) = x /\ TreeBytes(f, i) = y
      BY <3>1, <3>3
    <3>6. TreeBits(f, i) \in Nat /\ TreeIb(f, i) \in 0..7 /\ TreeBits(f, i) # 0
      BY <2>3, <2>4, <2>5, <3>1
    <3>7. QED BY <1>2, <1>4, <3>4, <3>5, <3>6
  <2>8. QED BY <2>4, <2>6, <2>7
<1>5. QED BY <1>3, <1>4

\* The buffer has room for the tree of token i and c bytes of scratch, when n bytes were read
\* and b bits of them are left.
LEMMA RoomGives ==
  ASSUME NEW f \in Files, NEW i \in 1..NTok(f), f.body[i].bits > 0, NEW n \in Nat, NEW b \in Nat,
         8 * n = Bit(f, i) + b, b < 8 \/ 8 * n < Bit(f, i + 1),
         NEW c \in Nat, 8 * c = (Bit(f, i) % 8) + b
  PROVE  8 * ((TreeIb(f, i) + TreeBits(f, i) + 63) \div 64) + c <= TreeLen
<1>1. PICK size \in Nat : size = f.body[i].bits
  BY FileGives
<1>2. NTok(f) \in Nat /\ i \in 1..(NTok(f) + 1)
  BY FileGives
<1>3. PICK p \in Nat : p = Bit(f, i) /\ Bit(f, i + 1) = p + size
  BY <1>1, <1>2, BitsGive
<1>4. PICK r \in 0..7 : r = Bit(f, i) % 8
  BY <1>3
<1>5. c <= (size + 7) \div 8
  <2>1. CASE b < 8
    BY <1>1, <1>4, <2>1
  <2>2. CASE 8 * n < Bit(f, i + 1)
    <3>1. b < size
      BY <1>1, <1>3, <2>2
    <3>2. 8 * c < 7 + size
      BY <1>1, <1>4, <3>1
    <3>3. QED BY <1>1, <3>2
  <2>3. QED BY <2>1, <2>2
<1>6. PICK tree \in Nat : tree = TreeBytes(f, i)
  BY TreeGives
<1>7. tree + (size + 7) \div 8 <= TreeLen /\ TreeLen \in Nat
  BY <1>1, <1>6, BoundsAssumption DEF NTok
<1>8. PICK t \in Nat : t = 8 * ((TreeIb(f, i) + TreeBits(f, i) + 63) \div 64) /\ t <= tree
  <2>1. TreeBits(f, i) \in Nat /\ TreeIb(f, i) \in 0..7
        /\ 8 * ((TreeIb(f, i) + TreeBits(f, i) + 63) \div 64) <= TreeBytes(f, i)
    BY TreeGives
  <2>2. QED BY <1>6, <2>1
<1>9. QED BY <1>1, <1>5, <1>6, <1>7, <1>8

\* The buffer that the next request reads when n bytes were read: the tree, padded, and the
\* scratch.  There is room for both.
LEMMA BitsFit ==
  ASSUME NEW f \in Files, NEW v, v.tok \in 1..(NTok(f) + 1), v.scratch_bits \in Nat,
         NEW n \in Nat, BitsAt(f, v, n)
  PROVE  /\ v.hdr_ib \in 0..7 /\ v.tree_bits \in Nat /\ v.pad_bits \in 0..63 /\ v.scratch_ib \in 0..7
         /\ Base(v) \in Nat /\ InScratchBytes(v) \in Nat
         /\ 8 * Base(v) = v.hdr_ib + v.tree_bits + v.pad_bits
         /\ Base(v) = 8 * ((v.hdr_ib + v.tree_bits + 63) \div 64)
         /\ (v.hdr_ib + v.tree_bits + 7) \div 8 <= Base(v)
         /\ 8 * InScratchBytes(v) = v.scratch_ib + v.scratch_bits
         /\ Bit(f, v.tok) = 8 * (Bit(f, v.tok) \div 8) + v.scratch_ib
         /\ Bit(f, v.tok) \div 8 = n - InScratchBytes(v)
         /\ Request(v).len = Base(v) + InScratchBytes(v) /\ Request(v).len <= TreeLen
<1>1. Bit(f, v.tok) \in Nat /\ v.tok \in 1..NTok(f) /\ NTok(f) \in Nat
  <2>1. NTok(f) \in Nat /\ v.tok <= NTok(f)
    BY FileGives DEF BitsAt
  <2>2. QED BY <2>1, BitsGive
<1>2. /\ v.tree_bits = TreeBits(f, v.tok) /\ v.hdr_ib = TreeIb(f, v.tok)
      /\ v.pad_bits = Padding(v.hdr_ib + v.tree_bits)
      /\ 8 * n = Bit(f, v.tok) + v.scratch_bits
      /\ v.scratch_ib = Bit(f, v.tok) % 8
      /\ f.body[v.tok].bits > 0
      /\ v.scratch_bits < 8 \/ 8 * n < Bit(f, v.tok + 1)
  BY DEF BitsAt
<1>3. v.hdr_ib \in 0..7 /\ v.tree_bits \in Nat /\ v.scratch_ib \in 0..7
  BY <1>1, <1>2, TreeGives
<1>4. PICK t \in Nat : t = v.hdr_ib + v.tree_bits
  BY <1>3
<1>5. v.pad_bits \in 0..63 /\ t + v.pad_bits = 64 * ((t + 63) \div 64)
  BY <1>2, <1>4, PaddingGives
<1>6. /\ Base(v) \in Nat /\ 8 * Base(v) = t + v.pad_bits /\ Base(v) = 8 * ((t + 63) \div 64)
      /\ (t + 7) \div 8 <= Base(v)
  <2>1. Base(v) = (t + v.pad_bits) \div 8
    BY <1>4 DEF Base
  <2>2. Base(v) = 8 * ((t + 63) \div 64)
    BY <1>4, <1>5, <2>1
  <2>3. QED BY <1>4, <1>5, <2>2
<1>7. Bit(f, v.tok) = 8 * (Bit(f, v.tok) \div 8) + v.scratch_ib
  BY <1>1, <1>2, ByteOfBit
<1>8. /\ InScratchBytes(v) \in Nat /\ 8 * InScratchBytes(v) = v.scratch_ib + v.scratch_bits
      /\ Bit(f, v.tok) \div 8 = n - InScratchBytes(v)
  <2>1. v.scratch_ib + v.scratch_bits = 8 * (n - Bit(f, v.tok) \div 8)
    <3>1. 8 * n = Bit(f, v.tok) + v.scratch_bits
      BY <1>2
    <3>2. Bit(f, v.tok) \div 8 \in Nat
      BY <1>1
    <3>3. QED BY <1>1, <1>3, <1>7, <3>1, <3>2
  <2>2. InScratchBytes(v) = n - Bit(f, v.tok) \div 8
    BY <1>1, <1>3, <2>1 DEF InScratchBytes
  <2>3. QED BY <1>1, <1>3, <2>1, <2>2
<1>9. Request(v).len = Base(v) + InScratchBytes(v)
  <2>1. Request(v).len = (t + v.pad_bits + v.scratch_ib + v.scratch_bits) \div 8
    BY <1>4 DEF Request
  <2>2. Request(v).len = (8 * (Base(v) + InScratchBytes(v))) \div 8
    BY <1>3, <1>4, <1>5, <1>6, <1>8, <2>1
  <2>3. QED BY <1>6, <1>8, <2>2
<1>10. Base(v) + InScratchBytes(v) <= TreeLen
  <2>1. 8 * InScratchBytes(v) = (Bit(f, v.tok) % 8) + v.scratch_bits
    BY <1>2, <1>8
  <2>2. 8 * ((TreeIb(f, v.tok) + TreeBits(f, v.tok) + 63) \div 64) + InScratchBytes(v) <= TreeLen
    BY <1>1, <1>2, <1>8, <2>1, RoomGives
  <2>3. Base(v) = 8 * ((TreeIb(f, v.tok) + TreeBits(f, v.tok) + 63) \div 64)
    BY <1>2, <1>4, <1>6
  <2>4. QED BY <2>2, <2>3
<1>11. QED BY <1>3, <1>4, <1>5, <1>6, <1>7, <1>8, <1>9, <1>10

LEMMA RequestGives ==
  ASSUME NEW f \in Files, NEW v, Stream(f, v), BitsSound(f, v)
  PROVE  /\ Base(v) \in Nat /\ InScratchBytes(v) \in Nat
         /\ 8 * Base(v) = v.hdr_ib + v.tree_bits + v.pad_bits
         /\ Base(v) = 8 * ((v.hdr_ib + v.tree_bits + 63) \div 64)
         /\ (v.hdr_ib + v.tree_bits + 7) \div 8 <= Base(v)
         /\ 8 * InScratchBytes(v) = v.scratch_ib + v.scratch_bits
         /\ Bit(f, v.tok) = 8 * (Bit(f, v.tok) \div 8) + v.scratch_ib
         /\ Bit(f, v.tok) \div 8 = v.total_in - InScratchBytes(v)
         /\ Request(v).len = Base(v) + InScratchBytes(v) /\ Request(v).len <= TreeLen
<1>1. v.tok \in 1..(NTok(f) + 1) /\ v.scratch_bits \in Nat /\ v.total_in \in Nat
      /\ BitsAt(f, v, v.total_in)
  BY DEF Stream, BitsSound
<1>2. QED BY <1>1, BitsFit

\* The parts of the invariant that do not look at the counts of the caller's buffers.
LEMMA PartsKept ==
  ASSUME NEW f, NEW v, NEW x,
         Same(v, x, {"avail_in", "avail_out", "inp_data_offs", "prefx_len", "block_req"})
  PROVE  /\ HeaderSound(f, v) => HeaderSound(f, x)
         /\ Fresh(v) => Fresh(x)
         /\ Parsed(f, x) <=> Parsed(f, v)
         /\ BodySound(f, v) => BodySound(f, x)
         /\ OutSound(f, v) => OutSound(f, x)
         /\ EndSound(f, v) => EndSound(f, x)
         /\ DictSound(f, v) => DictSound(f, x)
         /\ Request(x) = Request(v)
<1>1. /\ x.total_out = v.total_out /\ x.gzip_head = v.gzip_head
      /\ x.postfx_idx = v.postfx_idx /\ x.area = v.area /\ x.tree_bits = v.tree_bits
      /\ x.pad_bits = v.pad_bits /\ x.hdr_ib = v.hdr_ib /\ x.proc_bits = v.proc_bits
      /\ x.scratch_ib = v.scratch_ib /\ x.scratch_bits = v.scratch_bits
      /\ x.wsp_page = v.wsp_page /\ x.dict_len = v.dict_len
      /\ x.dict = v.dict /\ x.obytes_in_dict = v.obytes_in_dict /\ x.eob_seen = v.eob_seen
      /\ x.tok = v.tok /\ x.header_state = v.header_state /\ x.total_in = v.total_in
      /\ x.prefx_idx = v.prefx_idx /\ x.xlen = v.xlen /\ x.gzip_header_idx = v.gzip_header_idx
      /\ x.saved = v.saved /\ x.havedict = v.havedict
  BY DEF Same, Fields
<1>2. HeaderSound(f, v) => HeaderSound(f, x)
  BY <1>1 DEF HeaderSound, XlenAt
<1>3. Fresh(v) => Fresh(x)
  BY <1>1 DEF Fresh
<1>4. Parsed(f, x) <=> Parsed(f, v)
  BY <1>1 DEF Parsed
<1>5. InScratchBytes(x) = InScratchBytes(v) /\ Base(x) = Base(v) /\ Request(x) = Request(v)
  BY <1>1 DEF InScratchBytes, Base, Request
<1>6. BitsSound(f, v) => BitsSound(f, x)
  BY <1>1 DEF BitsSound, BitsAt
<1>7. AreaSound(f, v) => AreaSound(f, x)
  BY <1>1, <1>5 DEF AreaSound
<1>8. BodySound(f, v) => BodySound(f, x)
  BY <1>1, <1>4, <1>6, <1>7 DEF BodySound
<1>9. OutSound(f, v) => OutSound(f, x)
  BY <1>1 DEF OutSound
<1>10. EndSound(f, v) => EndSound(f, x)
  BY <1>1, <1>4 DEF EndSound
<1>11. DictSound(f, v) => DictSound(f, x)
  BY <1>1, <1>4 DEF DictSound
<1>12. QED BY <1>2, <1>3, <1>4, <1>5, <1>8, <1>9, <1>10, <1>11

\* The fields of a header that was parsed.
LEMMA FieldsSaved ==
  ASSUME NEW f \in Files, NEW v, Stream(f, v), HeaderSound(f, v),
         v.gzip_head # NoBuffers, v.header_state = "DONE"
  PROVE  v.saved = Lengths(f)
<1>1. f.format = "GZIP" /\ v.prefx_idx \in Nat
  BY DEF HeaderSound, Stream
<1>2. v.saved = SavedAt(f, v.prefx_idx) /\ v.header_state = StateAt(f, v.prefx_idx)
  BY <1>1 DEF HeaderSound
<1>3. v.prefx_idx >= HeaderLen(f)
  BY <1>1, <1>2, StateGives
<1>4. QED BY <1>1, <1>2, <1>3, SavedAtEnd

\* A call returns: what the next request does not use is forgotten.
LEMMA ReturnGives ==
  ASSUME file \in Files, NEW v, Stream(file, v), NEW code, NEW next, Return(v, code, next),
         UNCHANGED file,
         next \in {"open", "fault", "failed", "ended"},
         code \in {"OK", "NEED_DICT", "ERR_GZIP_HDR", "STREAM_END", "DATA_ERROR", "EXECUTE_ERROR"},
         v.gzip_head # NoBuffers /\ v.header_state = "DONE" => v.saved = Lengths(file),
         code = "ERR_GZIP_HDR" => next = "failed" /\ TooLong(file, v),
         code = "NEED_DICT" => Parsed(file, v),
         next = "fault" => code = "NEED_DICT",
         next # "failed" => Sound(file, v),
         next = "ended" => Ended(file, v),
         ~LateDict /\ next = "open" => DictSound(file, v) /\ (code = "NEED_DICT" => v.wsp_page = 0)
  PROVE  IInv'
<1> DEFINE f == file
<1>1. PICK x : x = strm'
  OBVIOUS
<1>2. x = [v EXCEPT !.avail_out = 0, !.inp_data_offs = 0, !.area = Trimmed(v)]
      /\ rc' = code /\ pc' = next /\ file' = file
  BY <1>1 DEF Return
<1>3. DOMAIN v = Fields /\ v.area \in [0..(AreaLen - 1) -> Int]
  BY DEF Stream
<1>4. v.hdr_ib \in Nat /\ v.tree_bits \in Nat /\ v.pad_bits \in Nat
  <2>1. v.hdr_ib \in 0..7 /\ v.tree_bits \in Nat /\ v.pad_bits \in 0..63
    BY DEF Stream
  <2>2. QED BY <2>1
<1>5. Same(v, x, {"avail_out", "inp_data_offs", "area"})
      /\ x.avail_out = 0 /\ x.inp_data_offs = 0 /\ x.area = Trimmed(v)
  BY <1>2, <1>3 DEF Same, Fields
<1>6. /\ x.total_out = v.total_out /\ x.gzip_head = v.gzip_head
      /\ x.postfx_idx = v.postfx_idx /\ x.tree_bits = v.tree_bits
      /\ x.pad_bits = v.pad_bits /\ x.hdr_ib = v.hdr_ib /\ x.proc_bits = v.proc_bits
      /\ x.scratch_ib = v.scratch_ib /\ x.scratch_bits = v.scratch_bits
      /\ x.wsp_page = v.wsp_page /\ x.dict_len = v.dict_len
      /\ x.dict = v.dict /\ x.obytes_in_dict = v.obytes_in_dict /\ x.eob_seen = v.eob_seen
      /\ x.tok = v.tok /\ x.header_state = v.header_state /\ x.total_in = v.total_in
      /\ x.prefx_idx = v.prefx_idx /\ x.xlen = v.xlen /\ x.gzip_header_idx = v.gzip_header_idx
      /\ x.saved = v.saved /\ x.avail_in = v.avail_in /\ x.prefx_len = v.prefx_len
      /\ x.block_req = v.block_req /\ x.havedict = v.havedict
  BY <1>5 DEF Same, Fields
<1>7. InScratchBytes(x) = InScratchBytes(v) /\ Base(x) = Base(v) /\ Request(x) = Request(v)
  BY <1>6 DEF InScratchBytes, Base, Request
<1>8. x.area = [k \in 0..(AreaLen - 1) |-> IF k < Request(v).len THEN v.area[k] ELSE Junk]
  BY <1>3, <1>5 DEF Trimmed
<1>9. x.area \in [0..(AreaLen - 1) -> Int]
  <2>1. ASSUME NEW k \in 0..(AreaLen - 1)
        PROVE  (IF k < Request(v).len THEN v.area[k] ELSE Junk) \in Int
    <3>1. v.area[k] \in Int
      BY <1>3
    <3>2. QED BY <3>1 DEF Junk
  <2>2. QED BY <1>8, <2>1
<1>10. Stream(f, x)
  BY <1>5, <1>6, <1>7, <1>9 DEF Stream, Same
<1>11. Parsed(f, x) <=> Parsed(f, v)
  BY <1>6 DEF Parsed
<1>12. ASSUME BodySound(f, v)
       PROVE  BodySound(f, x)
  <2>1. ASSUME Parsed(f, v), ~v.eob_seen
        PROVE  BitsSound(f, x) /\ AreaSound(f, x)
    <3>1. BitsSound(f, v) /\ AreaSound(f, v)
      BY <1>12, <2>1 DEF BodySound
    <3>2. BitsSound(f, x)
      BY <1>6, <3>1 DEF BitsSound, BitsAt
    <3>3. /\ Base(v) \in Nat /\ InScratchBytes(v) \in Nat
          /\ 8 * Base(v) = v.hdr_ib + v.tree_bits + v.pad_bits
          /\ (v.hdr_ib + v.tree_bits + 7) \div 8 <= Base(v)
          /\ Request(v).len = Base(v) + InScratchBytes(v) /\ Request(v).len <= TreeLen
      BY <3>1, RequestGives
    <3>4. TreeLen \in Nat /\ AreaLen = TreeLen + 8
      BY BoundsAssumption DEF AreaLen
    <3>5. ASSUME NEW k \in Nat, k < Request(v).len
          PROVE  x.area[k] = v.area[k]
      BY <1>8, <3>3, <3>4, <3>5
    <3>6. ASSUME NEW k \in 0..(InScratchBytes(v) - 1)
          PROVE  x.area[Base(v) + k] = Bit(f, v.tok) \div 8 + k
      <4>1. v.area[Base(v) + k] = Bit(f, v.tok) \div 8 + k
        BY <3>1 DEF AreaSound
      <4>2. Base(v) + k \in Nat /\ Base(v) + k < Request(v).len
        BY <3>3
      <4>3. QED BY <3>5, <4>1, <4>2
    <3>7. ASSUME StoredIn(f, v.tok)
          PROVE  x.area[0] = StoredHeader(RawLeft(f, v.tok))
      <4>1. v.area[0] = StoredHeader(RawLeft(f, v.tok)) /\ v.tree_bits = TreeBits(f, v.tok)
        BY <3>1, <3>7 DEF AreaSound, BitsSound, BitsAt
      <4>2. v.tree_bits = 40
        BY <3>7, <4>1 DEF TreeBits, StoredIn
      <4>3. v.hdr_ib \in Nat /\ v.pad_bits \in Nat
        BY <1>4
      <4>4. Base(v) > 0
        BY <3>3, <4>2, <4>3
      <4>5. QED BY <3>3, <3>5, <4>1, <4>4
    <3>8. ASSUME f.hdrOf[v.tok] # 0, ~StoredIn(f, v.tok),
                 NEW k \in 0..((v.hdr_ib + v.tree_bits + 7) \div 8 - 1)
          PROVE  x.area[k] = Bit(f, f.hdrOf[v.tok]) \div 8 + k
      <4>1. v.area[k] = Bit(f, f.hdrOf[v.tok]) \div 8 + k
        BY <3>1, <3>8 DEF AreaSound
      <4>2. (v.hdr_ib + v.tree_bits + 7) \div 8 \in Int
        BY <1>4
      <4>3. k \in Nat /\ k < Request(v).len
        BY <3>3, <4>2
      <4>4. QED BY <3>5, <4>1, <4>3
    <3>9. AreaSound(f, x)
      BY <1>6, <1>7, <3>6, <3>7, <3>8 DEF AreaSound
    <3>10. QED BY <3>2, <3>9
  <2>2. QED BY <1>6, <1>11, <2>1 DEF BodySound
<1>13. ASSUME Sound(f, v)
       PROVE  Sound(f, x)
  <2>1. HeaderSound(f, x)
    BY <1>6, <1>13 DEF Sound, HeaderSound, XlenAt
  <2>2. ~Parsed(f, x) => Fresh(x)
    BY <1>6, <1>11, <1>13 DEF Sound, Fresh
  <2>3. OutSound(f, x)
    BY <1>6, <1>13 DEF Sound, OutSound
  <2>4. EndSound(f, x)
    BY <1>6, <1>11, <1>13 DEF Sound, EndSound
  <2>5. BodySound(f, x)
    BY <1>12, <1>13 DEF Sound
  <2>6. QED BY <1>10, <2>1, <2>2, <2>3, <2>4, <2>5 DEF Sound
<1>14. DictSound(f, v) => DictSound(f, x)
  BY <1>6, <1>11 DEF DictSound
<1>15. (TooLong(f, v) => TooLong(f, x)) /\ (Ended(f, v) => Ended(f, x))
  BY <1>6 DEF TooLong, Ended
<1>16. QED BY <1>1, <1>2, <1>5, <1>6, <1>10, <1>11, <1>13, <1>14, <1>15 DEF IInv

\* What a sound stream has decompressed is at most the whole.
LEMMA OutGives ==
  ASSUME NEW f \in Files, NEW v, Stream(f, v), OutSound(f, v)
  PROVE  /\ v.total_out + v.obytes_in_dict <= OutLen(f) /\ ~Overrun(v)
         /\ v.total_out \in Nat /\ v.obytes_in_dict \in Nat
<1>1. /\ v.tok \in 1..(NTok(f) + 1) /\ v.total_out \in 0..OutLen(f) /\ v.obytes_in_dict \in Nat
      /\ v.dict_len \in Nat
  BY DEF Stream
<1>2. NTok(f) \in Nat /\ OutLen(f) \in Nat
  BY FileGives, LengthsGive
<1>3. NTok(f) + 1 \in 1..(NTok(f) + 1) /\ v.tok <= NTok(f) + 1
  BY <1>1, <1>2
<1>4. f.outAt[v.tok] <= OutLen(f)
  BY <1>1, <1>3, NumbersGrow DEF OutLen
<1>5. v.total_out + v.obytes_in_dict = f.outAt[v.tok]
      /\ (v.obytes_in_dict > 0 => v.dict_len >= v.obytes_in_dict)
  BY DEF OutSound
<1>6. ~Overrun(v)
  BY <1>1, <1>5 DEF Overrun
<1>7. QED BY <1>1, <1>2, <1>4, <1>5, <1>6

\* Output that waited is delivered.
LEMMA FlushGives ==
  ASSUME NEW f \in Files, NEW v, Sound(f, v), NEW x, x = inflate_flush_output_buffer(v)
  PROVE  /\ Sound(f, x) /\ (DictSound(f, v) => DictSound(f, x)) /\ (Fresh(v) => Fresh(x))
         /\ Same(v, x, {"avail_out", "total_out", "obytes_in_dict"})
         /\ x.avail_out # 0 => x.obytes_in_dict = 0
<1>1. Stream(f, v) /\ HeaderSound(f, v) /\ OutSound(f, v) /\ EndSound(f, v) /\ BodySound(f, v)
      /\ (~Parsed(f, v) => Fresh(v))
  BY DEF Sound
<1>2. /\ DOMAIN v = Fields /\ v.avail_out \in Nat
      /\ v.total_out + v.obytes_in_dict <= OutLen(f) /\ v.total_out \in Nat /\ v.obytes_in_dict \in Nat
  BY <1>1, OutGives DEF Stream
<1>3. OutLen(f) \in Nat
  BY LengthsGive
<1>4. PICK n \in Nat : n = Smaller(v.avail_out, v.obytes_in_dict)
  BY <1>2 DEF Smaller
<1>5. n <= v.avail_out /\ n <= v.obytes_in_dict /\ (n # v.avail_out => n = v.obytes_in_dict)
  BY <1>2, <1>4 DEF Smaller
<1>6. x = [v EXCEPT !.avail_out = @ - n, !.total_out = @ + n, !.obytes_in_dict = @ - n]
  BY <1>4 DEF inflate_flush_output_buffer, PendingTaken
<1>7. /\ Same(v, x, {"avail_out", "total_out", "obytes_in_dict"})
      /\ x.avail_out = v.avail_out - n /\ x.total_out = v.total_out + n
      /\ x.obytes_in_dict = v.obytes_in_dict - n
  BY <1>2, <1>6 DEF Same, Fields
<1>8. /\ x.gzip_head = v.gzip_head
      /\ x.postfx_idx = v.postfx_idx /\ x.area = v.area /\ x.tree_bits = v.tree_bits
      /\ x.pad_bits = v.pad_bits /\ x.hdr_ib = v.hdr_ib /\ x.proc_bits = v.proc_bits
      /\ x.scratch_ib = v.scratch_ib /\ x.scratch_bits = v.scratch_bits
      /\ x.wsp_page = v.wsp_page /\ x.dict_len = v.dict_len
      /\ x.dict = v.dict /\ x.eob_seen = v.eob_seen
      /\ x.tok = v.tok /\ x.header_state = v.header_state /\ x.total_in = v.total_in
      /\ x.prefx_idx = v.prefx_idx /\ x.xlen = v.xlen /\ x.gzip_header_idx = v.gzip_header_idx
      /\ x.saved = v.saved /\ x.avail_in = v.avail_in /\ x.prefx_len = v.prefx_len
      /\ x.block_req = v.block_req /\ x.havedict = v.havedict /\ x.inp_data_offs = v.inp_data_offs
      /\ DOMAIN x = Fields
  BY <1>7 DEF Same, Fields
<1>9. /\ x.avail_out \in Nat /\ x.total_out \in 0..OutLen(f) /\ x.obytes_in_dict \in Nat
      /\ x.total_out + x.obytes_in_dict = v.total_out + v.obytes_in_dict
      /\ x.obytes_in_dict <= v.obytes_in_dict /\ (x.avail_out # 0 => x.obytes_in_dict = 0)
  BY <1>2, <1>3, <1>5, <1>7
<1>10. InScratchBytes(x) = InScratchBytes(v) /\ Base(x) = Base(v) /\ Request(x) = Request(v)
  BY <1>8 DEF InScratchBytes, Base, Request
<1>11. Stream(f, x)
  BY <1>1, <1>8, <1>9, <1>10 DEF Stream
<1>12. HeaderSound(f, x) /\ (Parsed(f, x) <=> Parsed(f, v))
  BY <1>1, <1>8 DEF HeaderSound, XlenAt, Parsed
<1>13. ASSUME Fresh(v)
       PROVE  Fresh(x)
  <2>1. v.obytes_in_dict = 0
    BY <1>13 DEF Fresh
  <2>2. n = 0
    BY <1>5, <2>1
  <2>3. QED BY <1>2, <1>7, <1>8, <1>13, <2>2 DEF Fresh
<1>14. BitsSound(f, v) => BitsSound(f, x)
  BY <1>8 DEF BitsSound, BitsAt
<1>15. AreaSound(f, v) => AreaSound(f, x)
  BY <1>8, <1>10 DEF AreaSound
<1>16. BodySound(f, x)
  BY <1>1, <1>8, <1>12, <1>14, <1>15 DEF BodySound
<1>17. OutSound(f, x)
  <2>1. x.obytes_in_dict > 0 => v.obytes_in_dict > 0 /\ v.dict_len >= x.obytes_in_dict
    <3>1. v.dict_len \in Nat
      BY <1>1 DEF Stream
    <3>2. QED BY <1>1, <1>2, <1>9, <3>1 DEF OutSound
  <2>2. QED BY <1>1, <1>8, <1>9, <2>1 DEF OutSound
<1>18. EndSound(f, x)
  BY <1>1, <1>8, <1>12 DEF EndSound
<1>19. Sound(f, x)
  BY <1>1, <1>11, <1>12, <1>13, <1>16, <1>17, <1>18 DEF Sound
<1>20. DictSound(f, v) => DictSound(f, x)
  BY <1>8, <1>12 DEF DictSound
<1>21. QED BY <1>7, <1>9, <1>13, <1>19, <1>20

\* The trailer: x is the stream behind what was read of it, c what is known.
TrailerOutcome(f, v, x, c) ==
  /\ Same(v, x, {"postfx_idx", "avail_in", "total_in"}) /\ Stream(f, x)
  /\ x.total_in >= v.total_in
  /\ c \in {"ERROR", "MORE", "OK"}
  /\ c # "ERROR" => Sound(f, x)
  /\ c = "OK" => x.postfx_idx = TrailerLen(f) /\ ~f.bad /\ x.avail_in = 0

LEMMA TrailerGives ==
  ASSUME file \in Files, NEW v, Sound(file, v), v.eob_seen
  PROVE  \E x, c : inflate_format_rem_trailer(v) = <<x, c>> /\ TrailerOutcome(file, v, x, c)
<1> DEFINE f == file
<1>1. Stream(f, v) /\ HeaderSound(f, v) /\ OutSound(f, v) /\ EndSound(f, v)
  BY DEF Sound
<1>2. /\ DOMAIN v = Fields /\ v.avail_in \in Nat /\ v.total_in \in Nat
      /\ v.total_in + v.avail_in <= FileLen(f) /\ v.postfx_idx \in 0..TrailerLen(f)
  BY <1>1 DEF Stream
<1>3. /\ HeaderLen(f) \in Nat /\ BodyLen(f) \in Nat /\ TrailerLen(f) \in Nat
      /\ FileLen(f) = HeaderLen(f) + BodyLen(f) + TrailerLen(f)
      /\ f.bad => TrailerLen(f) >= 4
      /\ f.bad \in BOOLEAN
  BY LengthsGive, FileGives
<1>4. /\ v.total_in = HeaderLen(f) + BodyLen(f) + v.postfx_idx /\ Parsed(f, v)
      /\ v.tok = NTok(f) + 1 /\ (f.bad => v.postfx_idx < 4)
  BY <1>1 DEF EndSound
<1>5. PICK left \in Nat : left = TrailerLen(f) - v.postfx_idx
  BY <1>2, <1>3
<1>6. PICK m \in Nat : m = Smaller(left, v.avail_in)
  BY <1>2 DEF Smaller
<1>7. m <= left /\ m <= v.avail_in
  BY <1>2, <1>6 DEF Smaller
<1>8. PICK wrong \in BOOLEAN : wrong = (f.bad /\ TrailerLen(f) > 0 /\ v.postfx_idx + m >= 4)
  OBVIOUS
<1>9. PICK n \in Nat : n = (IF wrong THEN NotNegative(4 - v.postfx_idx) ELSE m) /\ n <= m
  <2>1. CASE wrong
    <3>1. v.postfx_idx < 4 /\ v.postfx_idx + m >= 4
      BY <1>4, <1>8, <2>1
    <3>2. NotNegative(4 - v.postfx_idx) = 4 - v.postfx_idx
      BY <1>2, <1>3, <3>1 DEF NotNegative
    <3>3. 4 - v.postfx_idx \in Nat /\ 4 - v.postfx_idx <= m
      BY <1>2, <1>3, <3>1
    <3>4. QED BY <2>1, <3>2, <3>3
  <2>2. CASE ~wrong
    BY <2>2
  <2>3. QED BY <2>1, <2>2
<1>10. PICK x : x = [v EXCEPT !.postfx_idx = @ + n, !.avail_in = @ - n, !.total_in = @ + n]
  OBVIOUS
<1>11. PICK c : c = IF wrong THEN "ERROR" ELSE IF n < left THEN "MORE" ELSE "OK"
  OBVIOUS
<1>12. inflate_format_rem_trailer(v) = <<x, c>>
  BY <1>5, <1>6, <1>8, <1>9, <1>10, <1>11, Zenon DEF inflate_format_rem_trailer
<1>13. /\ Same(v, x, {"postfx_idx", "avail_in", "total_in"})
       /\ x.postfx_idx = v.postfx_idx + n /\ x.avail_in = v.avail_in - n /\ x.total_in = v.total_in + n
  BY <1>2, <1>10 DEF Same, Fields
<1>14. /\ x.gzip_head = v.gzip_head /\ x.avail_out = v.avail_out /\ x.total_out = v.total_out
       /\ x.area = v.area /\ x.tree_bits = v.tree_bits
       /\ x.pad_bits = v.pad_bits /\ x.hdr_ib = v.hdr_ib /\ x.proc_bits = v.proc_bits
       /\ x.scratch_ib = v.scratch_ib /\ x.scratch_bits = v.scratch_bits
       /\ x.wsp_page = v.wsp_page /\ x.dict_len = v.dict_len
       /\ x.dict = v.dict /\ x.eob_seen = v.eob_seen
       /\ x.tok = v.tok /\ x.header_state = v.header_state /\ x.obytes_in_dict = v.obytes_in_dict
       /\ x.prefx_idx = v.prefx_idx /\ x.xlen = v.xlen /\ x.gzip_header_idx = v.gzip_header_idx
       /\ x.saved = v.saved /\ x.prefx_len = v.prefx_len
       /\ x.block_req = v.block_req /\ x.havedict = v.havedict /\ x.inp_data_offs = v.inp_data_offs
       /\ DOMAIN x = Fields
  BY <1>13 DEF Same, Fields
<1>15. /\ x.postfx_idx \in 0..TrailerLen(f) /\ x.avail_in \in Nat /\ x.total_in \in Nat
       /\ x.total_in + x.avail_in <= FileLen(f) /\ x.total_in >= v.total_in
       /\ x.total_in = HeaderLen(f) + BodyLen(f) + x.postfx_idx
  BY <1>2, <1>3, <1>4, <1>5, <1>7, <1>9, <1>13
<1>16. Request(x) = Request(v)
  BY <1>14 DEF Request
<1>17. Stream(f, x)
  BY <1>1, <1>14, <1>15, <1>16 DEF Stream
<1>18. ASSUME c # "ERROR"
       PROVE  Sound(f, x)
  <2>1. ~wrong /\ n = m
    <3>1. ~wrong
      BY <1>11, <1>18
    <3>2. QED BY <1>9, <3>1
  <2>2. ASSUME f.bad
        PROVE  x.postfx_idx < 4
    <3>1. TrailerLen(f) > 0
      BY <1>3, <2>2
    <3>2. ~(v.postfx_idx + m >= 4)
      BY <1>8, <2>1, <2>2, <3>1
    <3>3. QED BY <1>2, <1>3, <1>13, <2>1, <3>2
  <2>3. EndSound(f, x)
    BY <1>4, <1>14, <1>15, <2>2 DEF EndSound, Parsed
  <2>4. OutSound(f, x)
    BY <1>1, <1>14 DEF OutSound
  <2>5. HeaderSound(f, x)
    <3>1. f.format # "DEFL" => v.header_state = "DONE" /\ v.total_in >= HeaderLen(f)
      BY <1>1, <1>4 DEF HeaderSound, Parsed
    <3>2. f.format # "DEFL" => x.total_in >= HeaderLen(f)
      BY <1>2, <1>3, <1>15, <3>1
    <3>3. QED BY <1>1, <1>14, <3>1, <3>2 DEF HeaderSound, XlenAt
  <2>6. Parsed(f, x) /\ x.eob_seen
    BY <1>4, <1>14 DEF Parsed
  <2>7. QED BY <1>17, <2>3, <2>4, <2>5, <2>6 DEF Sound, BodySound
<1>19. ASSUME c = "OK"
       PROVE  x.postfx_idx = TrailerLen(f) /\ ~f.bad /\ x.avail_in = 0
  <2>1. ~wrong /\ n = m /\ ~(n < left)
    BY <1>9, <1>11, <1>19
  <2>2. n = left
    BY <1>7, <1>9, <2>1
  <2>3. x.postfx_idx = TrailerLen(f)
    BY <1>2, <1>3, <1>5, <1>13, <2>2
  <2>4. ~f.bad
    BY <1>3, <1>8, <1>13, <2>1, <2>3
  <2>5. QED BY <1>3, <1>15, <2>3, <2>4
<1>20. TrailerOutcome(f, v, x, c)
  <2>1. c \in {"ERROR", "MORE", "OK"}
    BY <1>11
  <2>2. QED BY <1>13, <1>15, <1>17, <1>18, <1>19, <2>1 DEF TrailerOutcome
<1>21. QED BY <1>12, <1>20

\* A call that reads the trailer.
LEMMA TrailerStep ==
  ASSUME file \in Files, NEW v, Sound(file, v), v.eob_seen, Trailer(v), UNCHANGED file,
         ~LateDict => DictSound(file, v)
  PROVE  IInv'
<1>1. PICK x, c : inflate_format_rem_trailer(v) = <<x, c>> /\ TrailerOutcome(file, v, x, c)
  BY TrailerGives
<1>2. /\ Stream(file, x) /\ c \in {"ERROR", "MORE", "OK"}
      /\ c # "ERROR" => Sound(file, x)
      /\ c = "OK" => x.postfx_idx = TrailerLen(file) /\ ~file.bad /\ x.avail_in = 0
  BY <1>1 DEF TrailerOutcome
<1>3. /\ x.gzip_head = v.gzip_head /\ x.header_state = v.header_state /\ x.saved = v.saved
      /\ x.eob_seen = v.eob_seen /\ x.wsp_page = v.wsp_page /\ x.dict_len = v.dict_len
      /\ x.obytes_in_dict = v.obytes_in_dict
  BY <1>1 DEF TrailerOutcome, Same, Fields
<1>4. x.gzip_head # NoBuffers /\ x.header_state = "DONE" => x.saved = Lengths(file)
  BY <1>3, FieldsSaved DEF Sound
<1>5. ~LateDict => DictSound(file, x)
  <2>1. Parsed(file, v) /\ Parsed(file, x)
    BY <1>3 DEF Sound, EndSound, Parsed
  <2>2. x.total_in = 0 => v.total_in = 0
    <3>1. x.total_in >= v.total_in
      BY <1>1 DEF TrailerOutcome
    <3>2. v.total_in \in Nat
      BY DEF Sound, Stream
    <3>3. QED BY <3>1, <3>2
  <2>3. QED BY <1>3, <2>1, <2>2 DEF DictSound
<1>6. \/ c = "ERROR" /\ Return(x, "DATA_ERROR", "failed")
      \/ c = "MORE" /\ Return(x, "OK", "open")
      \/ c = "OK" /\ Ends(x) /\ Return(x, "STREAM_END", "ended")
      \/ c = "OK" /\ ~Ends(x) /\ Return(x, "OK", "open")
  <2>1. PICK t : t = <<x, c>> /\ CASE t[2] = "ERROR" -> Return(t[1], "DATA_ERROR", "failed")
                                   [] t[2] = "MORE"  -> Return(t[1], "OK", "open")
                                   [] t[2] = "OK"    -> IF Ends(t[1]) THEN Return(t[1], "STREAM_END", "ended")
                                                        ELSE Return(t[1], "OK", "open")
    BY <1>1, Zenon DEF Trailer
  <2>2. t[1] = x /\ t[2] = c
    BY <2>1
  <2>3. QED BY <1>2, <2>1, <2>2
<1>7. CASE c = "ERROR" /\ Return(x, "DATA_ERROR", "failed")
  BY <1>2, <1>4, <1>7, ReturnGives
<1>8. CASE c = "OK" /\ Ends(x) /\ Return(x, "STREAM_END", "ended")
  <2>1. Ended(file, x)
    BY <1>2, <1>3, <1>8 DEF Ended, Ends
  <2>2. QED BY <1>2, <1>4, <1>8, <2>1, ReturnGives
<1>9. CASE c # "ERROR" /\ Return(x, "OK", "open")
  BY <1>2, <1>4, <1>5, <1>9, ReturnGives
<1>10. QED BY <1>6, <1>7, <1>8, <1>9

-----------------------------------------------------------------------------
(* A request: the copies                                                    *)

\* One way to count.
LEMMA AssembledUnfolds ==
  ASSUME NEW v, NEW in, NEW target, NEW offs, NEW cnt, NEW back,
         back = IF cnt > 0 /\ offs < 0 THEN -offs ELSE 0
  PROVE  Assembled(v, in, target, offs, cnt) =
           IF cnt < back THEN Destroyed(v.area)
           ELSE CopiedIn(Moved(v.area, target, in.len - back, back), target + back,
                         v.total_in + (IF back > 0 THEN 0 ELSE offs), cnt - back)
<1> DEFINE Copy(b) == IF cnt < b THEN Destroyed(v.area)
                      ELSE CopiedIn(Moved(v.area, target, in.len - b, b), target + b,
                                    v.total_in + (IF b > 0 THEN 0 ELSE offs), cnt - b)
<1>1. Assembled(v, in, target, offs, cnt) = The({Copy(b) : b \in {back}})
  BY Zenon DEF Assembled
<1> HIDE DEF Copy
<1>2. {Copy(b) : b \in {back}} = {Copy(back)}
  OBVIOUS
<1>3. The({Copy(back)}) = Copy(back)
  BY TheOnly
<1>4. QED BY <1>1, <1>2, <1>3 DEF Copy

\* What Assembled copies lies in the buffer and in the input.
LEMMA AssembledTyped ==
  ASSUME NEW v, NEW in, v.area \in [0..(AreaLen - 1) -> Int], v.total_in \in Nat,
         in.len \in Nat, in.len <= AreaLen,
         NEW target \in Nat, NEW offs \in Int, -offs <= in.len, NEW cnt \in Nat
  PROVE  Assembled(v, in, target, offs, cnt) \in [0..(AreaLen - 1) -> Int]
<1>1. PICK back \in Nat : back = IF cnt > 0 /\ offs < 0 THEN -offs ELSE 0
  OBVIOUS
<1>2. Assembled(v, in, target, offs, cnt) =
        IF cnt < back THEN Destroyed(v.area)
        ELSE CopiedIn(Moved(v.area, target, in.len - back, back), target + back,
                      v.total_in + (IF back > 0 THEN 0 ELSE offs), cnt - back)
  BY <1>1, AssembledUnfolds
<1>3. DOMAIN v.area = 0..(AreaLen - 1)
  OBVIOUS
<1>4. CASE cnt < back
  BY <1>2, <1>3, <1>4 DEF Destroyed, Junk
<1>5. CASE ~(cnt < back)
  <2>1. PICK m : m = Moved(v.area, target, in.len - back, back)
    OBVIOUS
  <2>2. m = [k \in 0..(AreaLen - 1) |->
               IF k \in target..(target + back - 1) THEN v.area[in.len - back + k - target] ELSE v.area[k]]
    BY <1>3, <2>1 DEF Moved
  <2>3. ASSUME NEW k \in 0..(AreaLen - 1)
        PROVE  (IF k \in target..(target + back - 1) THEN v.area[in.len - back + k - target]
                ELSE v.area[k]) \in Int
    <3>1. ASSUME k \in target..(target + back - 1)
          PROVE  in.len - back + k - target \in 0..(AreaLen - 1)
      <4>1. AreaLen \in Nat /\ back <= in.len
        BY <1>1, BoundsAssumption DEF AreaLen
      <4>2. QED BY <3>1, <4>1
    <3>2. QED BY <2>3, <3>1
  <2>4. m \in [0..(AreaLen - 1) -> Int]
    BY <2>2, <2>3
  <2>5. PICK byte \in Int : byte = v.total_in + (IF back > 0 THEN 0 ELSE offs)
    OBVIOUS
  <2>6. Assembled(v, in, target, offs, cnt) =
          [k \in 0..(AreaLen - 1) |->
             IF k \in (target + back)..(target + back + (cnt - back) - 1)
             THEN byte + k - (target + back) ELSE m[k]]
    BY <1>2, <1>5, <2>1, <2>4, <2>5 DEF CopiedIn
  <2>7. ASSUME NEW k \in 0..(AreaLen - 1)
        PROVE  (IF k \in (target + back)..(target + back + (cnt - back) - 1)
                THEN byte + k - (target + back) ELSE m[k]) \in Int
    BY <2>4
  <2>8. QED BY <2>6, <2>7
<1>6. QED BY <1>4, <1>5

\* What is copied lies in the input and at the end of the scratch, and there is room for it.
Copyable(v, in, target, offs, cnt) ==
  /\ v.area \in [0..(AreaLen - 1) -> Int] /\ v.total_in \in Nat
  /\ in.len \in Nat /\ in.len <= AreaLen
  /\ target \in Nat /\ offs \in Int /\ -offs <= in.len /\ cnt \in Nat
  /\ cnt > 0 => -offs <= cnt
  /\ target + cnt <= AreaLen
  /\ \A k \in 0..(cnt - 1) : k < -offs => v.area[in.len + offs + k] = v.total_in + offs + k

Copied(v, g, target, offs, cnt) ==
  /\ \A k \in 0..(cnt - 1) : g[target + k] = v.total_in + offs + k
  /\ \A k \in 0..(AreaLen - 1) : k < target \/ k >= target + cnt => g[k] = v.area[k]

\* The bytes it copies, which begin offs bytes after the input: those before the input are the
\* end of the scratch.
LEMMA AssembledGives ==
  ASSUME NEW v, NEW in, NEW target, NEW offs, NEW cnt, Copyable(v, in, target, offs, cnt),
         NEW g, g = Assembled(v, in, target, offs, cnt)
  PROVE  Copied(v, g, target, offs, cnt) /\ g \in [0..(AreaLen - 1) -> Int]
<1> target \in Nat /\ offs \in Int /\ cnt \in Nat /\ v.area \in [0..(AreaLen - 1) -> Int]
    /\ v.total_in \in Nat /\ in.len \in Nat /\ in.len <= AreaLen /\ -offs <= in.len
  BY DEF Copyable
<1> /\ cnt > 0 => -offs <= cnt
    /\ target + cnt <= AreaLen
    /\ \A k \in 0..(cnt - 1) : k < -offs => v.area[in.len + offs + k] = v.total_in + offs + k
  BY DEF Copyable
<1>1. PICK back \in Nat : back = IF cnt > 0 /\ offs < 0 THEN -offs ELSE 0
  OBVIOUS
<1>2. ~(cnt < back)
  BY <1>1
<1>3. PICK m : m = Moved(v.area, target, in.len - back, back)
  OBVIOUS
<1>4. PICK byte \in Int : byte = v.total_in + (IF back > 0 THEN 0 ELSE offs)
  OBVIOUS
<1>5. g = CopiedIn(m, target + back, byte, cnt - back)
  <2>1. g = IF cnt < back THEN Destroyed(v.area)
            ELSE CopiedIn(Moved(v.area, target, in.len - back, back), target + back,
                          v.total_in + (IF back > 0 THEN 0 ELSE offs), cnt - back)
    BY <1>1, AssembledUnfolds
  <2>2. QED BY <1>2, <1>3, <1>4, <2>1
<1>6. AreaLen \in Nat
  BY BoundsAssumption DEF AreaLen
<1>7. DOMAIN m = 0..(AreaLen - 1)
      /\ \A k \in 0..(AreaLen - 1) :
           m[k] = IF k \in target..(target + back - 1) THEN v.area[in.len - back + k - target] ELSE v.area[k]
  BY <1>3 DEF Moved
<1>8. \A k \in 0..(AreaLen - 1) :
        g[k] = IF k \in (target + back)..(target + back + (cnt - back) - 1)
               THEN byte + k - (target + back) ELSE m[k]
  BY <1>5, <1>7 DEF CopiedIn
<1>9. ASSUME NEW k \in 0..(cnt - 1)
      PROVE  g[target + k] = v.total_in + offs + k
  <2>1. PICK i \in 0..(AreaLen - 1) : i = target + k
    BY <1>6, <1>9
  <2>2. CASE k < back
    <3>1. back = -offs /\ offs < 0
      BY <1>1, <1>9, <2>2
    <3>2. i \in target..(target + back - 1) /\ i \notin (target + back)..(target + back + (cnt - back) - 1)
      BY <1>2, <1>9, <2>1, <2>2
    <3>3. g[i] = v.area[in.len - back + i - target]
      BY <1>7, <1>8, <3>2
    <3>4. in.len - back + i - target = in.len + offs + k /\ k < -offs
      <4>1. k \in Int /\ i \in Int /\ i = target + k /\ in.len \in Int
        BY <1>9, <2>1
      <4>2. k < -offs
        BY <2>2, <3>1
      <4>3. in.len - back + i - target = in.len + offs + k
        BY <3>1, <4>1
      <4>4. QED BY <4>2, <4>3
    <3>5. QED BY <1>9, <2>1, <3>3, <3>4
  <2>3. CASE k >= back
    <3>1. i \in (target + back)..(target + back + (cnt - back) - 1)
      BY <1>2, <1>9, <2>1, <2>3
    <3>2. g[i] = byte + i - (target + back)
      BY <1>8, <3>1
    <3>3. byte - back = v.total_in + offs
      <4>1. cnt > 0
        BY <1>9
      <4>2. QED BY <1>1, <1>4, <4>1
    <3>4. QED BY <1>4, <1>9, <2>1, <3>2, <3>3
  <2>4. QED BY <1>9, <2>2, <2>3
<1>10. ASSUME NEW k \in 0..(AreaLen - 1), k < target \/ k >= target + cnt
       PROVE  g[k] = v.area[k]
  <2>1. k \notin target..(target + back - 1)
        /\ k \notin (target + back)..(target + back + (cnt - back) - 1)
    BY <1>2, <1>10
  <2>2. QED BY <1>7, <1>8, <1>10, <2>1
<1>11. Copied(v, g, target, offs, cnt)
  BY <1>9, <1>10 DEF Copied
<1>12. g \in [0..(AreaLen - 1) -> Int]
  BY AssembledTyped
<1>13. QED BY <1>11, <1>12

-----------------------------------------------------------------------------
(* A request: what comes back                                               *)

\* A stream that sends a request.
Sending(f, v) ==
  /\ Sound(f, v) /\ Parsed(f, v) /\ ~v.eob_seen
  /\ v.obytes_in_dict = 0 /\ v.avail_out # 0 /\ (v.avail_in # 0 \/ v.scratch_bits # 0)

\* The parts of it that the lemmas below use.
LEMMA SendingGives ==
  ASSUME NEW f \in Files, NEW v, Sending(f, v)
  PROVE  /\ Stream(f, v) /\ BitsAt(f, v, v.total_in) /\ BitsSound(f, v) /\ AreaSound(f, v)
         /\ v.avail_in \in Nat /\ v.total_in \in Nat /\ v.avail_out \in Nat \ {0}
         /\ v.scratch_bits \in Nat /\ v.tok \in 1..NTok(f) /\ NTok(f) \in Nat
         /\ v.area \in [0..(AreaLen - 1) -> Int] /\ DOMAIN v = Fields
         /\ v.total_in + v.avail_in <= FileLen(f)
<1>1. /\ Stream(f, v) /\ BitsSound(f, v) /\ AreaSound(f, v)
  BY DEF Sending, Sound, BodySound
<1>2. BitsAt(f, v, v.total_in) /\ v.tok <= NTok(f)
  BY <1>1 DEF BitsSound, BitsAt
<1>3. /\ v.avail_in \in Nat /\ v.total_in \in Nat /\ v.avail_out \in Nat
      /\ v.scratch_bits \in Nat /\ v.tok \in 1..(NTok(f) + 1)
      /\ v.area \in [0..(AreaLen - 1) -> Int] /\ DOMAIN v = Fields
      /\ v.total_in + v.avail_in <= FileLen(f)
  BY <1>1 DEF Stream
<1>4. v.avail_out # 0 /\ NTok(f) \in Nat
  BY FileGives DEF Sending
<1>5. v.tok \in 1..NTok(f)
  BY <1>2, <1>3, <1>4
<1>6. QED BY <1>1, <1>2, <1>3, <1>4, <1>5

\* Where the accelerator stops.
LEMMA StopGives ==
  ASSUME file \in Files, NEW v, Sending(file, v), NEW j \in Stops(v)
  PROVE  /\ j \in v.tok..(NTok(file) + 1) /\ j \in 1..(NTok(file) + 1)
         /\ j # v.tok => /\ Bit(file, j) <= 8 * (v.total_in + v.avail_in)
                         /\ Bit(file, v.tok + 1) <= Bit(file, j) /\ Bit(file, v.tok) < Bit(file, j)
         /\ j <= NTok(file) => file.body[j].bits > 0
         /\ j <= NTok(file) /\ OutOf(v, j) < v.avail_out =>
              Bit(file, j + 1) > 8 * (v.total_in + v.avail_in)
<1>1. v.tok \in 1..NTok(file) /\ NTok(file) \in Nat
  BY SendingGives
<1>2. /\ j \in v.tok..(NTok(file) + 1)
      /\ j = v.tok \/ Bit(file, j) <= 8 * (v.total_in + v.avail_in)
      /\ \/ j = NTok(file) + 1
         \/ OutOf(v, j) >= v.avail_out
         \/ Bit(file, j + 1) > 8 * (v.total_in + v.avail_in)
      /\ j <= NTok(file) => file.body[j].bits > 0
  BY DEF Stops
<1>3. j \in 1..(NTok(file) + 1)
  BY <1>1, <1>2
<1>4. ASSUME j # v.tok
      PROVE  Bit(file, v.tok + 1) <= Bit(file, j) /\ Bit(file, v.tok) < Bit(file, j)
  <2>1. v.tok + 1 \in 1..(NTok(file) + 1) /\ v.tok \in 1..(NTok(file) + 1) /\ v.tok + 1 <= j
    BY <1>1, <1>2, <1>4
  <2>2. file.at[v.tok + 1] <= file.at[j]
    BY <1>3, <2>1, NumbersGrow
  <2>3. /\ Bit(file, v.tok + 1) = 8 * HeaderLen(file) + file.at[v.tok + 1]
        /\ Bit(file, j) = 8 * HeaderLen(file) + file.at[j]
        /\ file.at[v.tok + 1] \in Nat /\ file.at[j] \in Nat /\ HeaderLen(file) \in Nat
    BY <1>3, <2>1, BitsGive, NumbersGive, LengthsGive
  <2>4. Bit(file, v.tok + 1) = Bit(file, v.tok) + file.body[v.tok].bits
        /\ Bit(file, v.tok) \in Nat
    BY <1>1, <2>1, BitsGive
  <2>5. file.body[v.tok].bits > 0 /\ file.body[v.tok].bits \in Nat
    BY <1>1, SendingGives, FileGives DEF BitsAt
  <2>6. QED BY <2>2, <2>3, <2>4, <2>5
<1>5. ASSUME j <= NTok(file), OutOf(v, j) < v.avail_out
      PROVE  Bit(file, j + 1) > 8 * (v.total_in + v.avail_in)
  <2>1. OutOf(v, j) \in Int /\ v.avail_out \in Nat /\ j # NTok(file) + 1
    <3>1. v.tok \in 1..(NTok(file) + 1)
      BY <1>1
    <3>2. file.outAt[j] \in Nat /\ file.outAt[v.tok] \in Nat
      BY <1>3, <3>1, NumbersGive
    <3>3. QED BY <1>1, <1>3, <1>5, <3>2, SendingGives DEF OutOf
  <2>2. QED BY <1>2, <1>5, <2>1
<1>6. QED BY <1>2, <1>3, <1>4, <1>5

\* What it reports when it stops before token j.
Reported(f, v, j, a) ==
  /\ a.to = j
  /\ a.processed = IF j = v.tok THEN 0 ELSE v.tree_bits + f.at[j] - f.at[v.tok]
  /\ a.out_hdr_bits = TreeBits(f, j)
  /\ a.hdr_start = IF f.hdrOf[j] < v.tok THEN 0
                   ELSE v.tree_bits + f.at[f.hdrOf[j]] - f.at[v.tok]
  /\ a.passed_eob = TRUE <=> \E m \in v.tok..(j - 1) : f.body[m].k = "eob"
  /\ a.reached_eob = TRUE <=> j > v.tok /\ f.body[j - 1].k = "eob"
  /\ a.final_eob = (j = NTok(f) + 1)
  /\ a.copyblock_len = IF StoredIn(f, j) THEN RawLeft(f, j) ELSE 0
  /\ a.outp_returned \in Nat /\ a.obytes_in_dict \in Nat
  /\ a.outp_returned <= v.avail_out
  /\ a.outp_returned + a.obytes_in_dict = OutOf(v, j)
  /\ OutOf(v, j) >= v.avail_out => a.outp_returned = v.avail_out

LEMMA ReportGives ==
  ASSUME file \in Files, NEW v, Sending(file, v), NEW j \in Stops(v), NEW a, a = Report(v, Request(v), j)
  PROVE  Reported(file, v, j, a)
<1>1. v.tok \in 1..NTok(file) /\ NTok(file) \in Nat /\ v.avail_out \in Nat
  BY SendingGives
<1>2. j \in v.tok..(NTok(file) + 1) /\ j \in 1..(NTok(file) + 1)
  BY StopGives
<1>3. PICK spilled \in Nat : /\ spilled = NotNegative(OutOf(v, j) - v.avail_out)
                             /\ OutOf(v, j) \in Nat /\ spilled <= OutOf(v, j)
                             /\ OutOf(v, j) - spilled <= v.avail_out
                             /\ OutOf(v, j) >= v.avail_out => OutOf(v, j) - spilled = v.avail_out
  <2>1. v.tok \in 1..(NTok(file) + 1) /\ v.tok <= j
    BY <1>1, <1>2
  <2>2. file.outAt[v.tok] <= file.outAt[j] /\ file.outAt[v.tok] \in Nat /\ file.outAt[j] \in Nat
    BY <1>2, <2>1, NumbersGrow, NumbersGive
  <2>3. PICK o \in Nat : o = OutOf(v, j)
    BY <2>2 DEF OutOf
  <2>4. NotNegative(o - v.avail_out) \in Nat
    BY <1>1, <2>3 DEF NotNegative
  <2>5. NotNegative(o - v.avail_out) <= o /\ o - NotNegative(o - v.avail_out) <= v.avail_out
        /\ (o >= v.avail_out => o - NotNegative(o - v.avail_out) = v.avail_out)
    BY <1>1, <2>3 DEF NotNegative
  <2>6. QED BY <2>3, <2>4, <2>5
<1>4. /\ a.outp_returned = OutOf(v, j) - spilled /\ a.obytes_in_dict = spilled /\ a.to = j
      /\ a.copyblock_len = IF StoredIn(file, j) THEN RawLeft(file, j) ELSE 0
  BY <1>3 DEF Report, StoredIn, RawLeft
<1>5. /\ a.processed = IF j = v.tok THEN 0 ELSE v.tree_bits + file.at[j] - file.at[v.tok]
      /\ a.hdr_start = IF file.hdrOf[j] < v.tok THEN 0
                       ELSE v.tree_bits + file.at[file.hdrOf[j]] - file.at[v.tok]
  BY DEF Report, Request
<1>6. a.out_hdr_bits = TreeBits(file, j)
  <2>1. a.out_hdr_bits = CASE file.hdrOf[j] = 0 -> 0
                           [] file.hdrOf[j] # 0 /\ file.body[file.hdrOf[j]].stored -> 40
                           [] OTHER -> file.body[file.hdrOf[j]].bits
    BY DEF Report
  <2>2. QED BY <2>1 DEF TreeBits, StoredIn
<1>7. /\ a.passed_eob = (\E m \in v.tok..(j - 1) : file.body[m].k = "eob")
      /\ a.reached_eob = (j > v.tok /\ file.body[j - 1].k = "eob")
      /\ a.final_eob = (j > v.tok /\ j = NTok(file) + 1)
  BY DEF Report
<1>8. a.final_eob = (j = NTok(file) + 1)
  BY <1>1, <1>2, <1>7
<1>9. a.passed_eob = TRUE <=> \E m \in v.tok..(j - 1) : file.body[m].k = "eob"
  BY <1>7, Zenon
<1>10. a.reached_eob = TRUE <=> j > v.tok /\ file.body[j - 1].k = "eob"
  BY <1>7, Zenon
<1>11. /\ a.outp_returned \in Nat /\ a.obytes_in_dict \in Nat
       /\ a.outp_returned <= v.avail_out
       /\ a.outp_returned + a.obytes_in_dict = OutOf(v, j)
       /\ OutOf(v, j) >= v.avail_out => a.outp_returned = v.avail_out
  BY <1>1, <1>3, <1>4
<1>12. QED BY <1>4, <1>5, <1>6, <1>8, <1>9, <1>10, <1>11 DEF Reported

\* What get_inflate_asv takes from it.
AsvFields == {"wsp_page", "dict", "dict_len", "obytes_in_dict", "proc_bits", "eob_seen", "tok"}

LEMMA AsvGives ==
  ASSUME file \in Files, NEW v, DOMAIN v = Fields, v.wsp_page \in {0, 1}, v.dict \in [{0, 1} -> Int],
         v.havedict \in BOOLEAN, NEW flush, NEW a, file.outAt[a.to] \in Nat,
         NEW q, q = get_inflate_asv(v, flush, a)
  PROVE  /\ Same(v, q, AsvFields)
         /\ q.wsp_page = 1 - v.wsp_page /\ q.wsp_page \in {0, 1} /\ q.obytes_in_dict = a.obytes_in_dict
         /\ q.proc_bits = a.processed % 8 /\ q.eob_seen = a.final_eob /\ q.tok = a.to
         /\ q.dict \in [{0, 1} -> Int] /\ q.dict_len \in Nat
         /\ Saves(v, flush, a) =>
              /\ q.dict[q.wsp_page] = IF file.outAt[a.to] = 0 THEN v.dict[v.wsp_page] ELSE file.outAt[a.to]
              /\ q.dict_len = IF v.havedict THEN file.outAt[a.to] + 1 ELSE file.outAt[a.to]
         /\ ~Saves(v, flush, a) => q.dict_len = 0
<1>1. PICK total \in Nat : total = file.outAt[a.to]
  OBVIOUS
<1>2. PICK d \in Int : d = IF ~Saves(v, flush, a) THEN v.dict[1 - v.wsp_page]
                           ELSE IF total = 0 THEN v.dict[v.wsp_page] ELSE total
  <2>1. v.dict[1 - v.wsp_page] \in Int /\ v.dict[v.wsp_page] \in Int
    OBVIOUS
  <2>2. QED BY <2>1
<1>3. PICK len \in Nat : len = IF ~Saves(v, flush, a) THEN 0 ELSE IF v.havedict THEN total + 1 ELSE total
  OBVIOUS
<1>4. PICK dict : dict = [v.dict EXCEPT ![1 - v.wsp_page] = d]
  OBVIOUS
<1>5. q = [v EXCEPT !.wsp_page = 1 - v.wsp_page, !.dict = dict, !.dict_len = len,
                    !.obytes_in_dict = a.obytes_in_dict, !.proc_bits = a.processed % 8,
                    !.eob_seen = a.final_eob, !.tok = a.to]
  BY <1>1, <1>2, <1>3, <1>4 DEF get_inflate_asv, PageToggled, Fields
<1>6. /\ Same(v, q, AsvFields)
      /\ q.wsp_page = 1 - v.wsp_page /\ q.dict = dict /\ q.dict_len = len
      /\ q.obytes_in_dict = a.obytes_in_dict
      /\ q.proc_bits = a.processed % 8 /\ q.eob_seen = a.final_eob /\ q.tok = a.to
  BY <1>5 DEF Same, Fields, AsvFields
<1>7. 1 - v.wsp_page \in {0, 1}
  OBVIOUS
<1>8. dict \in [{0, 1} -> Int] /\ dict[1 - v.wsp_page] = d
  BY <1>4, <1>7
<1>9. QED BY <1>1, <1>2, <1>3, <1>6, <1>7, <1>8

\* Stored bytes that are left.
LEMMA RawLeftGives ==
  ASSUME NEW f \in Files, NEW i \in 1..NTok(f), StoredIn(f, i), f.body[i].bits > 0
  PROVE  RawLeft(f, i) \in Nat \ {0}
<1>1. NTok(f) \in Nat
  BY FileGives
<1>2. f.body[i].k = "raw"
  <2>1. f.body[i].k \in Kinds /\ f.body[i].bits \in Nat
    BY FileGives
  <2>2. f.hdrOf[i] # 0 /\ f.body[f.hdrOf[i]].stored
    BY DEF StoredIn
  <2>3. /\ f.hdrOf[i] = 0 <=> f.body[i].k = "hdr"
        /\ f.body[i].k = "sym" => f.body[i].bits > 0 /\ ~f.body[f.hdrOf[i]].stored
        /\ f.body[i].k = "eob" => (f.body[i].bits = 0 <=> f.body[f.hdrOf[i]].stored)
    BY BlocksGive
  <2>4. QED BY <2>1, <2>2, <2>3 DEF Kinds
<1>3. PICK S : S = {m \in i..NTok(f) : f.hdrOf[m] = f.hdrOf[i] /\ f.body[m].k = "raw"}
  OBVIOUS
<1>4. S \subseteq i..NTok(f) /\ i \in S
  BY <1>1, <1>2, <1>3
<1>5. IsFiniteSet(S)
  <2>1. IsFiniteSet(i..NTok(f))
    BY <1>1, FS_Interval
  <2>2. QED BY <1>4, <2>1, FS_Subset
<1>6. Cardinality(S) \in Nat
  BY <1>5, FS_CardinalityType
<1>7. Cardinality(S) # 0
  BY <1>4, <1>5, FS_EmptySet
<1>8. QED BY <1>3, <1>6, <1>7 DEF RawLeft

\* The header of the rest of a stored block, where there is one.
LEMMA CopyblockGives ==
  ASSUME NEW f \in Files, NEW j \in 1..(NTok(f) + 1), j <= NTok(f) => f.body[j].bits > 0,
         NEW a, a.out_hdr_bits = TreeBits(f, j),
         a.copyblock_len = IF StoredIn(f, j) THEN RawLeft(f, j) ELSE 0,
         NEW s, DOMAIN s = Fields, s.area \in [0..(AreaLen - 1) -> Int],
         NEW t, t = CopyblockHeader(s, a)
  PROVE  /\ ~StoredIn(f, j) => t = s
         /\ StoredIn(f, j) =>
              /\ Same(s, t, {"area", "hdr_ib", "tree_bits", "pad_bits"})
              /\ t.hdr_ib = 0 /\ t.tree_bits = 40 /\ t.pad_bits = 24
              /\ t.area \in [0..(AreaLen - 1) -> Int]
              /\ t.area[0] = StoredHeader(RawLeft(f, j))
              /\ \A k \in 7..(AreaLen - 1) : t.area[k] = s.area[k]
<1>1. NTok(f) \in Nat /\ f.hdrOf[NTok(f) + 1] = 0
  BY FileGives DEF InBlocks, NTok
<1>2. CASE ~StoredIn(f, j)
  BY <1>2 DEF CopyblockHeader
<1>3. CASE StoredIn(f, j)
  <2>1. j \in 1..NTok(f)
    BY <1>1, <1>3 DEF StoredIn
  <2>2. PICK len \in Nat \ {0} : len = RawLeft(f, j)
    BY <1>1, <1>3, <2>1, RawLeftGives
  <2>3. a.copyblock_len = len /\ a.out_hdr_bits = 40
    BY <1>3, <2>2 DEF TreeBits, StoredIn
  <2>4. PICK g : g = [k \in DOMAIN s.area |-> CASE k = 0 -> StoredHeader(a.copyblock_len)
                                                [] k \in 1..6 -> Junk
                                                [] OTHER -> s.area[k]]
    OBVIOUS
  <2>5. t = [s EXCEPT !.area = g, !.hdr_ib = 0, !.tree_bits = 40, !.pad_bits = 24]
    <3>1. ~(a.copyblock_len = 0 \/ a.out_hdr_bits = 0)
      BY <2>2, <2>3
    <3>2. QED BY <2>4, <3>1, Zenon DEF CopyblockHeader
  <2>6. /\ Same(s, t, {"area", "hdr_ib", "tree_bits", "pad_bits"})
        /\ t.hdr_ib = 0 /\ t.tree_bits = 40 /\ t.pad_bits = 24 /\ t.area = g
    BY <2>5 DEF Same, Fields
  <2>7. g = [k \in 0..(AreaLen - 1) |-> CASE k = 0 -> StoredHeader(len)
                                          [] k \in 1..6 -> Junk
                                          [] OTHER -> s.area[k]]
    BY <2>3, <2>4
  <2>8. AreaLen \in Nat /\ AreaLen >= 8
    BY BoundsAssumption DEF AreaLen
  <2>9. g \in [0..(AreaLen - 1) -> Int]
    <3>1. ASSUME NEW k \in 0..(AreaLen - 1)
          PROVE  (CASE k = 0 -> StoredHeader(len) [] k \in 1..6 -> Junk [] OTHER -> s.area[k]) \in Int
      <4>1. StoredHeader(len) \in Int
        BY <2>2 DEF StoredHeader
      <4>2. Junk \in Int
        BY DEF Junk
      <4>3. s.area[k] \in Int
        BY <3>1
      <4>4. QED BY <4>1, <4>2, <4>3
    <3>2. QED BY <2>7, <3>1
  <2>10. g[0] = StoredHeader(len)
    BY <2>7, <2>8
  <2>11. \A k \in 7..(AreaLen - 1) : g[k] = s.area[k]
    BY <2>7, <2>8
  <2>12. QED BY <1>3, <2>2, <2>6, <2>9, <2>10, <2>11
<1>4. QED BY <1>2, <1>3

-----------------------------------------------------------------------------
(* A request: what is put together for the next one                         *)

\* What the next request starts with, after n bytes of input.
Continues(f, t, n) == BitsAt(f, t, n) /\ AreaSound(f, t)

\* What post_scratch_upd changes, and what it makes of the stream q.
ScratchFields == {"area", "tree_bits", "hdr_ib", "pad_bits", "scratch_bits", "scratch_ib", "inp_data_offs"}

ScratchOutcome(f, q, t) ==
  /\ Same(q, t, ScratchFields) /\ t.area \in [0..(AreaLen - 1) -> Int]
  /\ t.hdr_ib \in 0..7 /\ t.tree_bits \in Nat /\ t.pad_bits \in 0..63 /\ t.scratch_ib \in 0..7
  /\ t.scratch_bits \in Nat /\ t.inp_data_offs \in Nat /\ Request(t).len <= TreeLen
  /\ t.inp_data_offs <= q.avail_in /\ q.total_in + t.inp_data_offs > 0
  /\ q.tok <= NTok(f) => Continues(f, t, q.total_in + t.inp_data_offs)
  /\ q.tok = NTok(f) + 1 => q.total_in + t.inp_data_offs = HeaderLen(f) + BodyLen(f)

\* A scratch behind the place for the tree, and the tree if it is not for a stored block.
Placed(f, s, n) ==
  /\ s.tok \in 1..NTok(f) /\ f.body[s.tok].bits > 0
  /\ 8 * n = Bit(f, s.tok) + s.scratch_bits /\ s.scratch_ib = Bit(f, s.tok) % 8
  /\ s.scratch_bits < 8 \/ 8 * n < Bit(f, s.tok + 1)
  /\ \A k \in 0..(InScratchBytes(s) - 1) :
       s.area[8 * ((TreeIb(f, s.tok) + TreeBits(f, s.tok) + 63) \div 64) + k] = Bit(f, s.tok) \div 8 + k
  /\ ~StoredIn(f, s.tok) =>
       /\ s.tree_bits = TreeBits(f, s.tok) /\ s.hdr_ib = TreeIb(f, s.tok)
       /\ s.pad_bits = Padding(s.hdr_ib + s.tree_bits)
       /\ f.hdrOf[s.tok] # 0 =>
            \A k \in 0..((s.hdr_ib + s.tree_bits + 7) \div 8 - 1) :
               s.area[k] = Bit(f, f.hdrOf[s.tok]) \div 8 + k

LEMMA PlacedGives ==
  ASSUME NEW f \in Files, NEW s, DOMAIN s = Fields, s.area \in [0..(AreaLen - 1) -> Int],
         s.scratch_bits \in Nat, NEW n \in Nat, Placed(f, s, n),
         NEW a, a.out_hdr_bits = TreeBits(f, s.tok),
         a.copyblock_len = IF StoredIn(f, s.tok) THEN RawLeft(f, s.tok) ELSE 0,
         NEW t, t = CopyblockHeader(s, a)
  PROVE  /\ Same(s, t, {"area", "hdr_ib", "tree_bits", "pad_bits"})
         /\ t.area \in [0..(AreaLen - 1) -> Int] /\ Continues(f, t, n)
<1>1. /\ s.tok \in 1..NTok(f) /\ f.body[s.tok].bits > 0
      /\ 8 * n = Bit(f, s.tok) + s.scratch_bits /\ s.scratch_ib = Bit(f, s.tok) % 8
      /\ s.scratch_bits < 8 \/ 8 * n < Bit(f, s.tok + 1)
  BY DEF Placed
<1>2. NTok(f) \in Nat /\ s.tok \in 1..(NTok(f) + 1) /\ s.tok <= NTok(f)
  BY <1>1, FileGives
<1>3. CASE ~StoredIn(f, s.tok)
  <2>1. t = s
    BY <1>1, <1>2, <1>3, CopyblockGives
  <2>2. /\ s.tree_bits = TreeBits(f, s.tok) /\ s.hdr_ib = TreeIb(f, s.tok)
        /\ s.pad_bits = Padding(s.hdr_ib + s.tree_bits)
        /\ f.hdrOf[s.tok] # 0 =>
            \A k \in 0..((s.hdr_ib + s.tree_bits + 7) \div 8 - 1) :
               s.area[k] = Bit(f, f.hdrOf[s.tok]) \div 8 + k
    BY <1>3 DEF Placed
  <2>3. BitsAt(f, s, n)
    BY <1>1, <1>2, <2>2 DEF BitsAt
  <2>4. Base(s) = 8 * ((s.hdr_ib + s.tree_bits + 63) \div 64)
    BY <1>2, <2>3, BitsFit
  <2>5. \A k \in 0..(InScratchBytes(s) - 1) : s.area[Base(s) + k] = Bit(f, s.tok) \div 8 + k
    BY <2>2, <2>4 DEF Placed
  <2>6. AreaSound(f, s)
    BY <1>3, <2>2, <2>5 DEF AreaSound
  <2>7. Same(s, t, {"area", "hdr_ib", "tree_bits", "pad_bits"})
    BY <2>1 DEF Same
  <2>8. QED BY <2>1, <2>3, <2>6, <2>7 DEF Continues
<1>4. CASE StoredIn(f, s.tok)
  <2>1. /\ Same(s, t, {"area", "hdr_ib", "tree_bits", "pad_bits"})
        /\ t.hdr_ib = 0 /\ t.tree_bits = 40 /\ t.pad_bits = 24
        /\ t.area \in [0..(AreaLen - 1) -> Int]
        /\ t.area[0] = StoredHeader(RawLeft(f, s.tok))
        /\ \A k \in 7..(AreaLen - 1) : t.area[k] = s.area[k]
    BY <1>1, <1>2, <1>4, CopyblockGives
  <2>2. t.tok = s.tok /\ t.scratch_bits = s.scratch_bits /\ t.scratch_ib = s.scratch_ib
    BY <2>1 DEF Same, Fields
  <2>3. TreeBits(f, s.tok) = 40 /\ TreeIb(f, s.tok) = 0 /\ Padding(40) = 24
    BY <1>4 DEF TreeBits, TreeIb, StoredIn, Padding
  <2>4. BitsAt(f, t, n)
    BY <1>1, <1>2, <2>1, <2>2, <2>3 DEF BitsAt
  <2>5. Base(t) = 8 /\ InScratchBytes(t) = InScratchBytes(s)
    BY <2>1, <2>2 DEF Base, InScratchBytes
  <2>6. InScratchBytes(s) \in Nat /\ 8 + InScratchBytes(s) <= TreeLen /\ TreeLen \in Nat
        /\ AreaLen = TreeLen + 8
    <3>1. InScratchBytes(t) \in Nat /\ Request(t).len = Base(t) + InScratchBytes(t)
          /\ Request(t).len <= TreeLen
      BY <1>2, <2>2, <2>4, BitsFit
    <3>2. QED BY <2>5, <3>1, BoundsAssumption DEF AreaLen
  <2>7. ASSUME NEW k \in 0..(InScratchBytes(t) - 1)
        PROVE  t.area[Base(t) + k] = Bit(f, t.tok) \div 8 + k
    <3>1. s.area[8 + k] = Bit(f, s.tok) \div 8 + k
      <4>1. 8 * ((TreeIb(f, s.tok) + TreeBits(f, s.tok) + 63) \div 64) = 8
        BY <2>3
      <4>2. QED BY <2>5, <4>1 DEF Placed
    <3>2. 8 + k \in 7..(AreaLen - 1)
      BY <2>5, <2>6
    <3>3. QED BY <2>1, <2>2, <2>5, <3>1, <3>2
  <2>8. AreaSound(f, t)
    BY <1>4, <2>1, <2>2, <2>7 DEF AreaSound
  <2>9. QED BY <2>1, <2>4, <2>8 DEF Continues
<1>5. QED BY <1>3, <1>4

\* The stream q is v with what get_inflate_asv took of the answer a, which is that the
\* accelerator stopped before token j.
Answered(f, v, q, j, a) ==
  /\ Sending(f, v) /\ j \in Stops(v) /\ a = Report(v, Request(v), j)
  /\ Same(v, q, AsvFields) /\ q.tok = j

LEMMA AnsweredGives ==
  ASSUME file \in Files, NEW v, NEW q, NEW j, NEW a, Answered(file, v, q, j, a)
  PROVE  /\ DOMAIN q = Fields /\ q.area = v.area /\ q.area \in [0..(AreaLen - 1) -> Int]
         /\ q.tree_bits = v.tree_bits /\ q.hdr_ib = v.hdr_ib /\ q.pad_bits = v.pad_bits
         /\ q.scratch_ib = v.scratch_ib /\ q.scratch_bits = v.scratch_bits
         /\ q.total_in = v.total_in /\ q.avail_in = v.avail_in /\ q.avail_out = v.avail_out
         /\ InScratchBytes(q) = InScratchBytes(v)
         /\ Request(v).len \in Nat /\ Request(v).len <= TreeLen /\ TreeLen \in Nat
         /\ Request(v).hdr_bits = v.tree_bits /\ Request(v).pre = v.tree_bits + v.scratch_bits
         /\ AreaLen = TreeLen + 8
         /\ q.tok = j /\ j \in 1..(NTok(file) + 1) /\ NTok(file) \in Nat
<1>1. /\ DOMAIN q = Fields /\ q.area = v.area
      /\ q.tree_bits = v.tree_bits /\ q.hdr_ib = v.hdr_ib /\ q.pad_bits = v.pad_bits
      /\ q.scratch_ib = v.scratch_ib /\ q.scratch_bits = v.scratch_bits
      /\ q.total_in = v.total_in /\ q.avail_in = v.avail_in /\ q.avail_out = v.avail_out
  BY DEF Answered, Same, Fields, AsvFields
<1>2. v.area \in [0..(AreaLen - 1) -> Int] /\ Stream(file, v) /\ BitsSound(file, v) /\ NTok(file) \in Nat
  BY SendingGives DEF Answered
<1>3. InScratchBytes(q) = InScratchBytes(v)
  BY <1>1 DEF InScratchBytes
<1>4. Request(v).len \in Nat /\ Request(v).len <= TreeLen
  <2>1. Request(v).len = Base(v) + InScratchBytes(v) /\ Base(v) \in Nat /\ InScratchBytes(v) \in Nat
        /\ Request(v).len <= TreeLen
    BY <1>2, RequestGives
  <2>2. QED BY <2>1
<1>5. TreeLen \in Nat /\ AreaLen = TreeLen + 8
  BY BoundsAssumption DEF AreaLen
<1>6. j \in 1..(NTok(file) + 1) /\ q.tok = j
  BY StopGives DEF Answered
<1>7. Request(v).hdr_bits = v.tree_bits /\ Request(v).pre = v.tree_bits + v.scratch_bits
  BY DEF Request
<1>8. QED BY <1>1, <1>2, <1>3, <1>4, <1>5, <1>6, <1>7

LEMMA OutcomeGives ==
  ASSUME NEW f \in Files, NEW q, q.tok \in 1..NTok(f), q.total_in \in Nat, q.avail_in \in Nat,
         NEW t, Same(q, t, ScratchFields), t.area \in [0..(AreaLen - 1) -> Int],
         t.scratch_bits \in Nat, t.inp_data_offs \in Nat, t.inp_data_offs <= q.avail_in,
         NEW n \in Nat, n = q.total_in + t.inp_data_offs, n > 0, Continues(f, t, n)
  PROVE  ScratchOutcome(f, q, t)
<1>1. t.tok = q.tok
  BY DEF Same, Fields, ScratchFields
<1>2. NTok(f) \in Nat /\ t.tok \in 1..(NTok(f) + 1) /\ q.tok # NTok(f) + 1
  BY <1>1, FileGives
<1>3. BitsAt(f, t, n)
  BY DEF Continues
<1>4. /\ t.hdr_ib \in 0..7 /\ t.tree_bits \in Nat /\ t.pad_bits \in 0..63 /\ t.scratch_ib \in 0..7
      /\ Request(t).len <= TreeLen
  BY <1>2, <1>3, BitsFit
<1>5. QED BY <1>2, <1>4 DEF ScratchOutcome

\* No token was complete: the input is added to the scratch.
LEMMA CollectedGives ==
  ASSUME file \in Files, NEW v, NEW q, NEW j, NEW a, Answered(file, v, q, j, a), j = v.tok,
         NEW t, t = CopyblockHeader(Collected(q, Request(v)), a)
  PROVE  ScratchOutcome(file, q, t) /\ v.avail_in <= TreeLen - Request(v).len
<1>1. /\ Sending(file, v) /\ j \in Stops(v) /\ a = Report(v, Request(v), j)
  BY DEF Answered
<1>2. /\ Stream(file, v) /\ BitsAt(file, v, v.total_in) /\ BitsSound(file, v) /\ AreaSound(file, v)
      /\ v.avail_in \in Nat /\ v.total_in \in Nat /\ v.avail_out \in Nat \ {0}
      /\ v.scratch_bits \in Nat /\ j \in 1..NTok(file) /\ NTok(file) \in Nat
  BY <1>1, SendingGives
<1>3. /\ DOMAIN q = Fields /\ q.area = v.area /\ q.area \in [0..(AreaLen - 1) -> Int]
      /\ q.tree_bits = v.tree_bits /\ q.hdr_ib = v.hdr_ib /\ q.pad_bits = v.pad_bits
      /\ q.scratch_ib = v.scratch_ib /\ q.scratch_bits = v.scratch_bits
      /\ q.total_in = v.total_in /\ q.avail_in = v.avail_in
      /\ Request(v).len \in Nat /\ Request(v).len <= TreeLen /\ TreeLen \in Nat
      /\ AreaLen = TreeLen + 8 /\ q.tok = j
  BY AnsweredGives
<1>4. PICK len \in Nat : len = Request(v).len
  BY <1>3
<1>5. PICK in \in Nat : in = v.avail_in
  BY <1>2
<1>6. PICK n \in Nat : n = v.total_in + in
  BY <1>2, <1>5
<1>7. PICK base \in Nat, sb \in Nat :
        /\ base = Base(v) /\ sb = InScratchBytes(v) /\ len = base + sb
        /\ base = 8 * ((v.hdr_ib + v.tree_bits + 63) \div 64)
        /\ (v.hdr_ib + v.tree_bits + 7) \div 8 <= base
        /\ 8 * sb = v.scratch_ib + v.scratch_bits
        /\ Bit(file, j) \div 8 = v.total_in - sb
  BY <1>2, <1>4, RequestGives
<1>8. base \in Nat /\ sb \in Nat /\ len = base + sb /\ in \in Nat /\ len \in Nat
  BY <1>4, <1>5, <1>7
<1>9. Bit(file, j) \div 8 = v.total_in - sb /\ sb = InScratchBytes(v) /\ base = Base(v)
  BY <1>7
<1>10. PICK g : g = CopiedIn(q.area, len, v.total_in, in)
  OBVIOUS
<1>11. PICK c : c = Collected(q, Request(v))
  OBVIOUS
<1>12. /\ Same(q, c, {"area", "inp_data_offs", "scratch_bits"})
       /\ c.area = g /\ c.inp_data_offs = in /\ c.scratch_bits = v.scratch_bits + 8 * in
  <2>1. c = [q EXCEPT !.area = g, !.inp_data_offs = in, !.scratch_bits = v.scratch_bits + 8 * in]
    BY <1>3, <1>4, <1>5, <1>10, <1>11 DEF Collected, Fields
  <2>2. QED BY <1>3, <2>1 DEF Same, Fields
<1>13. /\ DOMAIN c = Fields /\ c.tok = j /\ c.scratch_ib = v.scratch_ib
       /\ c.tree_bits = v.tree_bits /\ c.hdr_ib = v.hdr_ib /\ c.pad_bits = v.pad_bits
  BY <1>3, <1>12 DEF Same, Fields
<1>14. /\ v.tree_bits = TreeBits(file, j) /\ v.hdr_ib = TreeIb(file, j)
       /\ v.pad_bits = Padding(v.hdr_ib + v.tree_bits)
       /\ v.scratch_ib = Bit(file, j) % 8
       /\ 8 * v.total_in = Bit(file, j) + v.scratch_bits
       /\ file.body[j].bits > 0
  BY <1>2 DEF BitsAt
<1>15. 8 * n < Bit(file, j + 1)
  <2>1. OutOf(v, j) = 0
    <3>1. file.outAt[j] \in Nat
      BY <1>2, NumbersGive
    <3>2. QED BY <3>1 DEF OutOf
  <2>2. Bit(file, j + 1) > 8 * (v.total_in + v.avail_in)
    BY <1>1, <1>2, <2>1, StopGives
  <2>3. Bit(file, j + 1) \in Nat
    BY <1>2, BitsGive
  <2>4. QED BY <1>2, <1>5, <1>6, <2>2, <2>3
<1>16. 8 * n = Bit(file, j) + c.scratch_bits /\ c.scratch_bits \in Nat /\ Bit(file, j) \in Nat
  <2>1. Bit(file, j) \in Nat
    BY <1>2, BitsGive
  <2>2. QED BY <1>2, <1>5, <1>6, <1>12, <1>14, <2>1
<1>17. base + (sb + in) <= TreeLen
  <2>1. v.scratch_ib \in Nat
    BY <1>14, <1>16
  <2>2. 8 * (sb + in) = (Bit(file, j) % 8) + c.scratch_bits
    BY <1>2, <1>5, <1>7, <1>12, <1>14, <2>1
  <2>3. 8 * ((TreeIb(file, j) + TreeBits(file, j) + 63) \div 64) + (sb + in) <= TreeLen
    BY <1>2, <1>5, <1>7, <1>14, <1>15, <1>16, <2>2, RoomGives
  <2>4. QED BY <1>7, <1>14, <2>3
<1>18. InScratchBytes(c) = sb + in
  <2>1. c.scratch_bits + c.scratch_ib = 8 * (sb + in)
    <3>1. c.scratch_bits = v.scratch_bits + 8 * in /\ c.scratch_ib = v.scratch_ib
          /\ 8 * sb = v.scratch_ib + v.scratch_bits
      BY <1>7, <1>12, <1>13
    <3>2. v.scratch_bits \in Nat /\ v.scratch_ib \in Nat
      BY <1>2, <1>14, <1>16
    <3>3. QED BY <1>8, <3>1, <3>2
  <2>2. InScratchBytes(c) = (8 * (sb + in)) \div 8
    BY <2>1 DEF InScratchBytes
  <2>3. QED BY <1>8, <2>2
<1>19. /\ \A k \in 0..(AreaLen - 1) :
            g[k] = IF k \in len..(len + in - 1) THEN v.total_in + k - len ELSE v.area[k]
       /\ g \in [0..(AreaLen - 1) -> Int]
  <2>1. DOMAIN q.area = 0..(AreaLen - 1)
    BY <1>3
  <2>2. g = [k \in 0..(AreaLen - 1) |->
               IF k \in len..(len + in - 1) THEN v.total_in + k - len ELSE v.area[k]]
    BY <1>3, <1>10, <2>1 DEF CopiedIn
  <2>3. ASSUME NEW k \in 0..(AreaLen - 1)
        PROVE  (IF k \in len..(len + in - 1) THEN v.total_in + k - len ELSE v.area[k]) \in Int
    <3>1. v.area[k] \in Int
      BY <1>3, <2>3
    <3>2. v.total_in + k - len \in Int
      BY <1>2, <1>4, <2>3
    <3>3. QED BY <3>1, <3>2
  <2>4. QED BY <2>2, <2>3
<1>20. ASSUME NEW k \in 0..(sb + in - 1)
       PROVE  g[base + k] = Bit(file, j) \div 8 + k
  <2>1. PICK i \in 0..(AreaLen - 1) : i = base + k
    <3>1. TreeLen \in Nat /\ AreaLen = TreeLen + 8
      BY <1>3
    <3>2. base + k \in 0..(AreaLen - 1)
      BY <1>8, <1>17, <1>20, <3>1
    <3>3. QED BY <3>2
  <2>2. CASE k < sb
    <3>1. g[i] = v.area[i]
      <4>1. i \notin len..(len + in - 1)
        BY <1>8, <1>20, <2>1, <2>2
      <4>2. QED BY <1>19, <4>1
    <3>2. v.area[Base(v) + k] = Bit(file, j) \div 8 + k
      <4>1. k \in 0..(InScratchBytes(v) - 1) /\ v.tok = j
        BY <1>8, <1>9, <1>20, <2>2
      <4>2. QED BY <1>2, <4>1 DEF AreaSound
    <3>3. QED BY <1>9, <2>1, <3>1, <3>2
  <2>3. CASE k >= sb
    <3>1. i \in len..(len + in - 1)
      BY <1>8, <1>20, <2>1, <2>3
    <3>2. g[i] = v.total_in + i - len
      BY <1>19, <3>1
    <3>3. v.total_in + i - len = Bit(file, j) \div 8 + k
      BY <1>2, <1>8, <1>9, <1>20, <2>1
    <3>4. QED BY <2>1, <3>2, <3>3
  <2>4. QED BY <1>8, <1>20, <2>2, <2>3
<1>21. ASSUME file.hdrOf[j] # 0, ~StoredIn(file, j), NEW k \in 0..((c.hdr_ib + c.tree_bits + 7) \div 8 - 1)
       PROVE  g[k] = Bit(file, file.hdrOf[j]) \div 8 + k
  <2>1. v.area[k] = Bit(file, file.hdrOf[j]) \div 8 + k
    BY <1>2, <1>13, <1>21 DEF AreaSound
  <2>2. (v.hdr_ib + v.tree_bits + 7) \div 8 \in Int
    BY <1>2, <1>14, TreeGives
  <2>3. k \in 0..(AreaLen - 1) /\ k < len
    <3>1. k \in Nat /\ k < (v.hdr_ib + v.tree_bits + 7) \div 8
      BY <1>13, <1>21, <2>2
    <3>2. (v.hdr_ib + v.tree_bits + 7) \div 8 <= base
      BY <1>7
    <3>3. k < base
      BY <1>8, <2>2, <3>1, <3>2
    <3>4. len <= TreeLen /\ TreeLen \in Nat /\ AreaLen = TreeLen + 8
      BY <1>3, <1>4
    <3>5. QED BY <1>8, <3>1, <3>3, <3>4
  <2>4. QED BY <1>4, <1>5, <1>19, <2>1, <2>3
<1>22. Placed(file, c, n)
  <2>1. /\ c.tok \in 1..NTok(file) /\ file.body[c.tok].bits > 0
        /\ 8 * n = Bit(file, c.tok) + c.scratch_bits /\ c.scratch_ib = Bit(file, c.tok) % 8
        /\ 8 * n < Bit(file, c.tok + 1)
    BY <1>2, <1>13, <1>14, <1>15, <1>16
  <2>2. base = 8 * ((TreeIb(file, j) + TreeBits(file, j) + 63) \div 64)
    BY <1>7, <1>14
  <2>3. \A k \in 0..(InScratchBytes(c) - 1) :
          c.area[8 * ((TreeIb(file, c.tok) + TreeBits(file, c.tok) + 63) \div 64) + k]
            = Bit(file, c.tok) \div 8 + k
    BY <1>12, <1>13, <1>18, <1>20, <2>2
  <2>4. /\ c.tree_bits = TreeBits(file, c.tok) /\ c.hdr_ib = TreeIb(file, c.tok)
        /\ c.pad_bits = Padding(c.hdr_ib + c.tree_bits)
    BY <1>13, <1>14
  <2>5. QED BY <1>12, <1>13, <1>21, <2>1, <2>3, <2>4 DEF Placed
<1>23. /\ Same(c, t, {"area", "hdr_ib", "tree_bits", "pad_bits"})
       /\ t.area \in [0..(AreaLen - 1) -> Int] /\ Continues(file, t, n)
  <2>1. a.out_hdr_bits = TreeBits(file, j)
        /\ a.copyblock_len = IF StoredIn(file, j) THEN RawLeft(file, j) ELSE 0
    <3>1. Reported(file, v, j, a)
      BY <1>1, ReportGives
    <3>2. QED BY <3>1 DEF Reported
  <2>2. QED BY <1>11, <1>12, <1>13, <1>16, <1>19, <1>22, <2>1, PlacedGives
<1>24. t.scratch_bits = c.scratch_bits /\ t.inp_data_offs = in /\ Same(q, t, ScratchFields)
  BY <1>12, <1>23 DEF Same, Fields, ScratchFields
<1>25. n > 0
  <2>1. v.avail_in # 0 \/ v.scratch_bits # 0
    BY <1>1 DEF Sending
  <2>2. CASE v.avail_in # 0
    BY <1>2, <1>5, <1>6, <2>2
  <2>3. CASE v.scratch_bits # 0
    <3>1. c.scratch_bits > 0
      BY <1>2, <1>5, <1>12, <2>3
    <3>2. QED BY <1>6, <1>16, <3>1
  <2>4. QED BY <2>1, <2>2, <2>3
<1>26. ScratchOutcome(file, q, t)
  <2>1. q.tok \in 1..NTok(file) /\ q.total_in \in Nat /\ q.avail_in \in Nat
        /\ n = q.total_in + t.inp_data_offs /\ t.inp_data_offs \in Nat /\ t.inp_data_offs <= q.avail_in
        /\ t.scratch_bits \in Nat
    BY <1>2, <1>3, <1>5, <1>6, <1>16, <1>24
  <2>2. QED BY <1>23, <1>24, <1>25, <2>1, OutcomeGives
<1>27. v.avail_in <= TreeLen - Request(v).len
  <2>1. TreeLen \in Nat /\ len = Request(v).len /\ in = v.avail_in
    BY <1>3, <1>4, <1>5
  <2>2. QED BY <1>8, <1>17, <2>1
<1>28. QED BY <1>26, <1>27

\* A block ended: its tree is not kept.
LEMMA EobPassedGives ==
  ASSUME NEW q, DOMAIN q = Fields, NEW a, NEW e, e = EobPassed(q, a)
  PROVE  /\ Same(q, e, {"tree_bits", "pad_bits", "hdr_ib"})
         /\ \/ a.passed_eob /\ e.tree_bits = 0 /\ e.pad_bits = 0 /\ e.hdr_ib = 0
            \/ ~a.passed_eob /\ e.tree_bits = q.tree_bits /\ e.pad_bits = q.pad_bits
                             /\ e.hdr_ib = q.hdr_ib
<1>1. CASE a.passed_eob
  <2>1. e = [q EXCEPT !.tree_bits = 0, !.pad_bits = 0, !.hdr_ib = 0]
    BY <1>1 DEF EobPassed
  <2>2. QED BY <1>1, <2>1 DEF Same, Fields
<1>2. CASE ~a.passed_eob
  BY <1>2 DEF EobPassed, Same
<1>3. QED BY <1>1, <1>2

\* Behind the last token the body ends.
LEMMA FinalGives ==
  ASSUME file \in Files, NEW v, NEW q, NEW j, NEW a, Answered(file, v, q, j, a), j = NTok(file) + 1,
         NEW t, t = CopyblockHeader(setup_tree(q, Request(v), a), a)
  PROVE  ScratchOutcome(file, q, t)
<1>1. Sending(file, v) /\ j \in Stops(v) /\ Reported(file, v, j, a)
  BY ReportGives DEF Answered
<1>2. /\ Stream(file, v) /\ BitsAt(file, v, v.total_in)
      /\ v.avail_in \in Nat /\ v.total_in \in Nat
      /\ v.scratch_bits \in Nat /\ v.tok \in 1..NTok(file) /\ NTok(file) \in Nat
  BY <1>1, SendingGives
<1>3. /\ DOMAIN q = Fields /\ q.area \in [0..(AreaLen - 1) -> Int]
      /\ q.tree_bits = v.tree_bits /\ q.hdr_ib = v.hdr_ib /\ q.pad_bits = v.pad_bits
      /\ q.scratch_ib = v.scratch_ib /\ q.scratch_bits = v.scratch_bits
      /\ q.total_in = v.total_in /\ q.avail_in = v.avail_in /\ q.tok = j
      /\ Request(v).len <= TreeLen /\ TreeLen \in Nat /\ Request(v).pre = v.tree_bits + v.scratch_bits
  BY AnsweredGives
<1>4. PICK p \in Nat, o \in Nat : p = Bit(file, j) /\ o = Bit(file, v.tok)
  BY <1>2, BitsGive
<1>5. /\ p <= 8 * (v.total_in + v.avail_in) /\ Bit(file, v.tok + 1) <= p /\ o < p
  BY <1>1, <1>2, <1>4, StopGives
<1>6. /\ v.hdr_ib \in 0..7 /\ v.tree_bits \in Nat /\ v.pad_bits \in 0..63 /\ v.scratch_ib \in 0..7
  BY <1>2 DEF Stream
<1>7. /\ 8 * v.total_in = o + v.scratch_bits
      /\ v.scratch_bits < 8 \/ 8 * v.total_in < Bit(file, v.tok + 1)
  BY <1>2, <1>4 DEF BitsAt
<1>8. a.processed = v.tree_bits + p - o
  <2>1. p = 8 * HeaderLen(file) + file.at[j] /\ o = 8 * HeaderLen(file) + file.at[v.tok]
        /\ file.at[j] \in Nat /\ file.at[v.tok] \in Nat /\ HeaderLen(file) \in Nat
    BY <1>2, <1>4, BitsGive, NumbersGive, LengthsGive
  <2>2. a.processed = v.tree_bits + file.at[j] - file.at[v.tok]
    BY <1>1, <1>2 DEF Reported
  <2>3. QED BY <1>6, <2>1, <2>2
<1>9. 8 * v.total_in <= p + 7
  <2>1. CASE v.scratch_bits < 8
    BY <1>2, <1>4, <1>5, <1>7, <2>1
  <2>2. CASE 8 * v.total_in < Bit(file, v.tok + 1)
    <3>1. Bit(file, v.tok + 1) \in Nat
      BY <1>2, BitsGive
    <3>2. QED BY <1>2, <1>4, <1>5, <2>2, <3>1
  <2>3. QED BY <1>7, <2>1, <2>2
<1>10. PICK n \in Nat : n = HeaderLen(file) + BodyLen(file) /\ n = (p + 7) \div 8
  BY <1>4, LengthsGive
<1>11. in_data_used(Request(v), a) = n - v.total_in
  <2>1. PICK pr \in Int : pr = a.processed /\ pr = v.tree_bits + p - o
    BY <1>4, <1>6, <1>8
  <2>2. PICK pre \in Int : pre = Request(v).pre /\ pre = v.tree_bits + v.scratch_bits
    BY <1>2, <1>3, <1>6
  <2>3. pr - pre = p - 8 * v.total_in
    <3>1. v.tree_bits \in Int /\ v.scratch_bits \in Int /\ v.total_in \in Int /\ p \in Int /\ o \in Int
      BY <1>2, <1>4, <1>6
    <3>2. 8 * v.total_in = o + v.scratch_bits
      BY <1>7
    <3>3. QED BY <2>1, <2>2, <3>1, <3>2
  <2>4. ~(pr + 7 < pre)
    BY <1>2, <1>4, <1>9, <2>1, <2>2, <2>3
  <2>5. pr - pre + 7 = p + 7 - 8 * v.total_in
    BY <1>2, <1>4, <2>1, <2>2, <2>3
  <2>6. (p + 7 - 8 * v.total_in) \div 8 = (p + 7) \div 8 - v.total_in
    BY <1>2, <1>4
  <2>7. in_data_used(Request(v), a) = (pr - pre + 7) \div 8
    BY <2>1, <2>2, <2>4 DEF in_data_used
  <2>8. QED BY <1>10, <2>5, <2>6, <2>7
<1>12. PICK used \in Nat : used = n - v.total_in /\ used <= v.avail_in
  BY <1>2, <1>4, <1>5, <1>9, <1>10
<1>13. PICK e : e = EobPassed(q, a)
  OBVIOUS
<1>14. /\ Same(q, e, {"tree_bits", "pad_bits", "hdr_ib"}) /\ e.tree_bits \in {0, q.tree_bits}
       /\ e.pad_bits \in {0, q.pad_bits} /\ e.hdr_ib \in {0, q.hdr_ib}
  BY <1>3, <1>13, EobPassedGives
<1>15. PICK c : c = setup_tree(q, Request(v), a)
  OBVIOUS
<1>16. c = [e EXCEPT !.inp_data_offs = used, !.scratch_bits = 0]
  <2>1. a.final_eob
    BY <1>1 DEF Reported
  <2>2. QED BY <1>11, <1>12, <1>13, <1>15, <2>1 DEF setup_tree
<1>17. /\ Same(q, c, ScratchFields) /\ c.area = q.area /\ c.scratch_ib = v.scratch_ib
       /\ c.tree_bits \in {0, v.tree_bits} /\ c.pad_bits \in {0, v.pad_bits} /\ c.hdr_ib \in {0, v.hdr_ib}
       /\ c.inp_data_offs = used /\ c.scratch_bits = 0 /\ DOMAIN c = Fields
  <2>1. DOMAIN e = Fields
    BY <1>14 DEF Same
  <2>2. /\ Same(e, c, {"inp_data_offs", "scratch_bits"}) /\ c.inp_data_offs = used /\ c.scratch_bits = 0
    BY <1>16, <2>1 DEF Same, Fields
  <2>3. Same(q, c, ScratchFields) /\ DOMAIN c = Fields
    BY <1>14, <2>2 DEF Same, Fields, ScratchFields
  <2>4. c.area = e.area /\ c.scratch_ib = e.scratch_ib /\ c.tree_bits = e.tree_bits
        /\ c.pad_bits = e.pad_bits /\ c.hdr_ib = e.hdr_ib
    BY <2>2 DEF Same, Fields
  <2>5. e.area = q.area /\ e.scratch_ib = q.scratch_ib
    BY <1>14 DEF Same, Fields
  <2>6. QED BY <1>3, <1>14, <2>2, <2>3, <2>4, <2>5
<1>18. t = c
  <2>1. ~StoredIn(file, j)
    <3>1. file.hdrOf[j] = 0
      BY FileGives DEF InBlocks, NTok
    <3>2. QED BY <3>1 DEF StoredIn
  <2>2. a.out_hdr_bits = TreeBits(file, j)
        /\ a.copyblock_len = IF StoredIn(file, j) THEN RawLeft(file, j) ELSE 0
    BY <1>1 DEF Reported
  <2>3. j \in 1..(NTok(file) + 1) /\ (j <= NTok(file) => file.body[j].bits > 0)
    BY <1>2
  <2>4. QED BY <1>3, <1>15, <1>17, <2>1, <2>2, <2>3, CopyblockGives
<1>19. /\ t.hdr_ib \in 0..7 /\ t.tree_bits \in Nat /\ t.pad_bits \in 0..63 /\ t.scratch_ib \in 0..7
       /\ t.hdr_ib <= v.hdr_ib /\ t.tree_bits <= v.tree_bits /\ t.pad_bits <= v.pad_bits
       /\ t.scratch_ib = v.scratch_ib /\ t.scratch_bits = 0
  <2>1. t.hdr_ib \in 0..7 /\ t.hdr_ib <= v.hdr_ib
    BY <1>6, <1>17, <1>18
  <2>2. t.tree_bits \in Nat /\ t.tree_bits <= v.tree_bits
    BY <1>6, <1>17, <1>18
  <2>3. t.pad_bits \in 0..63 /\ t.pad_bits <= v.pad_bits
    BY <1>6, <1>17, <1>18
  <2>4. QED BY <1>6, <1>17, <1>18, <2>1, <2>2, <2>3
<1>20. Request(t).len <= TreeLen
  <2>1. Request(t).len = (t.hdr_ib + t.tree_bits + t.pad_bits + t.scratch_ib + t.scratch_bits) \div 8
        /\ Request(v).len = (v.hdr_ib + v.tree_bits + v.pad_bits + v.scratch_ib + v.scratch_bits) \div 8
    BY DEF Request
  <2>2. PICK x \in Nat, y \in Nat :
          /\ x = t.hdr_ib + t.tree_bits + t.pad_bits + t.scratch_ib + t.scratch_bits
          /\ y = v.hdr_ib + v.tree_bits + v.pad_bits + v.scratch_ib + v.scratch_bits
          /\ x <= y
    <3>1. t.hdr_ib \in Nat /\ t.pad_bits \in Nat /\ t.tree_bits \in Nat /\ t.scratch_ib \in Nat
      BY <1>19
    <3>2. v.hdr_ib \in Nat /\ v.pad_bits \in Nat /\ v.tree_bits \in Nat
      BY <1>6
    <3>3. QED BY <1>2, <1>19, <3>1, <3>2
  <2>3. QED BY <1>3, <2>1, <2>2
<1>21. v.total_in + used = n /\ n > 0
  BY <1>2, <1>4, <1>5, <1>10, <1>12
<1>22. q.tok = NTok(file) + 1 /\ q.tok \in Nat /\ ~(q.tok <= NTok(file))
  BY <1>2, <1>3
<1>23. /\ Same(q, t, ScratchFields) /\ t.area \in [0..(AreaLen - 1) -> Int]
       /\ t.scratch_bits \in Nat /\ t.inp_data_offs \in Nat
       /\ t.inp_data_offs <= q.avail_in /\ q.total_in + t.inp_data_offs > 0
       /\ q.total_in + t.inp_data_offs = HeaderLen(file) + BodyLen(file)
  BY <1>3, <1>10, <1>12, <1>17, <1>18, <1>21
<1>24. QED BY <1>19, <1>20, <1>22, <1>23 DEF ScratchOutcome

\* When the accelerator stopped in the last byte of the scratch there was one, which is the
\* end of what the request gave from the buffer.
LEMMA ScratchEnd ==
  ASSUME file \in Files, NEW v, Sending(file, v), NEW j \in Stops(v), j # v.tok,
         Bit(file, j) < 8 * v.total_in
  PROVE  /\ v.scratch_bits < 8 /\ InScratchBytes(v) = 1 /\ Bit(file, v.tok) \div 8 = v.total_in - 1
         /\ Request(v).len = Base(v) + 1 /\ v.area[Base(v)] = v.total_in - 1
<1>1. /\ Stream(file, v) /\ BitsAt(file, v, v.total_in) /\ BitsSound(file, v) /\ AreaSound(file, v)
      /\ v.total_in \in Nat /\ v.scratch_bits \in Nat /\ v.tok \in 1..NTok(file) /\ NTok(file) \in Nat
  BY SendingGives
<1>2. /\ Base(v) \in Nat /\ InScratchBytes(v) \in Nat
      /\ 8 * InScratchBytes(v) = v.scratch_ib + v.scratch_bits
      /\ Bit(file, v.tok) \div 8 = v.total_in - InScratchBytes(v)
      /\ Request(v).len = Base(v) + InScratchBytes(v)
  BY <1>1, RequestGives
<1>3. /\ j \in 1..(NTok(file) + 1)
      /\ Bit(file, v.tok + 1) <= Bit(file, j) /\ Bit(file, v.tok) < Bit(file, j)
  BY StopGives
<1>4. PICK p \in Nat, o \in Nat, e \in Nat : p = Bit(file, j) /\ o = Bit(file, v.tok) /\ e = Bit(file, v.tok + 1)
  <2>1. v.tok \in 1..(NTok(file) + 1) /\ v.tok + 1 \in 1..(NTok(file) + 1)
    BY <1>1
  <2>2. QED BY <1>3, <2>1, BitsGive
<1>5. v.scratch_bits < 8
  <2>1. v.scratch_bits < 8 \/ 8 * v.total_in < e
    BY <1>1, <1>4 DEF BitsAt
  <2>2. QED BY <1>1, <1>3, <1>4, <2>1
<1>6. v.scratch_ib \in 0..7
  BY <1>1 DEF Stream
<1>7. InScratchBytes(v) = 1
  <2>1. InScratchBytes(v) <= 1
    BY <1>1, <1>2, <1>5, <1>6
  <2>2. InScratchBytes(v) # 0
    <3>1. o < 8 * v.total_in
      BY <1>1, <1>3, <1>4
    <3>2. o \div 8 < v.total_in
      BY <1>1, <1>4, <3>1
    <3>3. QED BY <1>1, <1>2, <1>4, <3>2
  <2>3. QED BY <1>2, <2>1, <2>2
<1>8. v.area[Base(v)] = v.total_in - 1
  <2>1. v.area[Base(v) + 0] = Bit(file, v.tok) \div 8 + 0
    BY <1>1, <1>7 DEF AreaSound
  <2>2. QED BY <1>1, <1>2, <1>7, <2>1
<1>9. QED BY <1>1, <1>2, <1>5, <1>7, <1>8

TreeFields == {"area", "tree_bits", "hdr_ib", "pad_bits"}

\* The stream u has the tree that token j needs, and the end of the scratch is where it was.
TreeOutcome(f, v, q, u, j) ==
  /\ Same(q, u, TreeFields) /\ u.area \in [0..(AreaLen - 1) -> Int]
  /\ 8 * ((u.hdr_ib + u.tree_bits + 63) \div 64) = 8 * ((TreeIb(f, j) + TreeBits(f, j) + 63) \div 64)
  /\ u.hdr_ib \in Nat /\ u.tree_bits \in Nat
  /\ ~StoredIn(f, j) =>
       /\ u.tree_bits = TreeBits(f, j) /\ u.hdr_ib = TreeIb(f, j)
       /\ u.pad_bits = Padding(u.hdr_ib + u.tree_bits)
       /\ f.hdrOf[j] # 0 =>
            \A k \in 0..((u.hdr_ib + u.tree_bits + 7) \div 8 - 1) :
               u.area[k] = Bit(f, f.hdrOf[j]) \div 8 + k
  /\ Bit(f, j) < 8 * v.total_in => u.area[Request(v).len - 1] = v.total_in - 1

\* The tree of the stream after the answer.
TreeAfter(v, q, a) ==
  IF NewHeader(Request(v), a) THEN extract_new_tree(EobPassed(q, a), Request(v), a) ELSE EobPassed(q, a)

\* Between two blocks there is none.
LEMMA TreeEnded ==
  ASSUME file \in Files, NEW v, NEW q, NEW j, NEW a, Answered(file, v, q, j, a),
         j # v.tok, j <= NTok(file), file.hdrOf[j] = 0
  PROVE  TreeOutcome(file, v, q, TreeAfter(v, q, a), j)
<1>1. Sending(file, v) /\ j \in Stops(v) /\ Reported(file, v, j, a)
  BY ReportGives DEF Answered
<1>2. v.tok \in 1..NTok(file) /\ NTok(file) \in Nat /\ v.total_in \in Nat
  BY <1>1, SendingGives
<1>3. /\ DOMAIN q = Fields /\ q.area = v.area /\ q.area \in [0..(AreaLen - 1) -> Int]
  BY AnsweredGives
<1>4. j \in 2..(NTok(file) + 1) /\ v.tok \in 1..(j - 1) /\ j \in 1..(NTok(file) + 1)
  <2>1. j \in v.tok..(NTok(file) + 1)
    BY <1>1, StopGives
  <2>2. QED BY <1>2, <2>1
<1>5. a.passed_eob = TRUE
  <2>1. file.body[j - 1].k = "eob"
    BY <1>4, BetweenBlocks
  <2>2. j - 1 \in v.tok..(j - 1)
    BY <1>2, <1>4
  <2>3. QED BY <1>1, <2>1, <2>2 DEF Reported
<1>6. TreeBits(file, j) = 0 /\ TreeIb(file, j) = 0 /\ ~StoredIn(file, j)
  BY DEF TreeBits, TreeIb, StoredIn
<1>7. PICK e : e = EobPassed(q, a)
  OBVIOUS
<1>8. TreeAfter(v, q, a) = e
  <2>1. ~NewHeader(Request(v), a)
    BY <1>1, <1>6 DEF NewHeader, Reported
  <2>2. QED BY <1>7, <2>1 DEF TreeAfter
<1>9. Same(q, e, {"tree_bits", "pad_bits", "hdr_ib"}) /\ e.tree_bits = 0 /\ e.pad_bits = 0 /\ e.hdr_ib = 0
  BY <1>3, <1>5, <1>7, EobPassedGives
<1>10. Same(q, e, TreeFields) /\ e.area = v.area
  BY <1>3, <1>9 DEF Same, TreeFields, Fields
<1>11. Padding(0) = 0
  BY DEF Padding
<1>12. ASSUME Bit(file, j) < 8 * v.total_in
       PROVE  v.area[Request(v).len - 1] = v.total_in - 1
  <2>1. Request(v).len = Base(v) + 1 /\ v.area[Base(v)] = v.total_in - 1
    BY <1>1, <1>12, ScratchEnd
  <2>2. Base(v) \in Nat
    BY <1>1, SendingGives, RequestGives
  <2>3. Request(v).len - 1 = Base(v)
    BY <2>1, <2>2
  <2>4. QED BY <2>1, <2>3
<1>13. QED BY <1>3, <1>6, <1>8, <1>9, <1>10, <1>11, <1>12 DEF TreeOutcome

\* In the middle of a block that went on it is the one the request had.
LEMMA TreeContinued ==
  ASSUME file \in Files, NEW v, NEW q, NEW j, NEW a, Answered(file, v, q, j, a),
         j # v.tok, j <= NTok(file), file.hdrOf[j] # 0, file.hdrOf[j] < v.tok
  PROVE  TreeOutcome(file, v, q, TreeAfter(v, q, a), j)
<1>1. Sending(file, v) /\ j \in Stops(v) /\ Reported(file, v, j, a)
  BY ReportGives DEF Answered
<1>2. v.tok \in 1..NTok(file) /\ NTok(file) \in Nat /\ v.total_in \in Nat
      /\ BitsAt(file, v, v.total_in) /\ AreaSound(file, v)
  BY <1>1, SendingGives
<1>3. /\ DOMAIN q = Fields /\ q.area = v.area /\ q.area \in [0..(AreaLen - 1) -> Int]
      /\ q.tree_bits = v.tree_bits /\ q.hdr_ib = v.hdr_ib /\ q.pad_bits = v.pad_bits
      /\ Request(v).hdr_bits = v.tree_bits
  BY AnsweredGives
<1>4. v.tok \in 1..(j - 1) /\ j \in 1..(NTok(file) + 1)
  <2>1. j \in v.tok..(NTok(file) + 1)
    BY <1>1, StopGives
  <2>2. QED BY <1>2, <2>1
<1>5. PICK h \in 1..(j - 1) : h = file.hdrOf[j] /\ \A m \in (h + 1)..j : file.hdrOf[m] = h
  BY <1>4, HeaderOfBlock
<1>6. file.hdrOf[v.tok] = h
  <2>1. v.tok \in (h + 1)..j
    BY <1>2, <1>4, <1>5
  <2>2. QED BY <1>5, <2>1
<1>7. ~a.passed_eob
  <2>1. ASSUME NEW m \in v.tok..(j - 1)
        PROVE  file.body[m].k # "eob"
    <3>1. m \in (file.hdrOf[j] + 1)..(j - 1)
      BY <1>2, <1>4, <1>5, <2>1
    <3>2. QED BY <1>4, <3>1, NoneInBlock
  <2>2. a.passed_eob = (\E m \in v.tok..(j - 1) : file.body[m].k = "eob")
    BY DEF Answered, Report
  <2>3. QED BY <2>1, <2>2, Zenon
<1>8. /\ TreeBits(file, j) = v.tree_bits /\ TreeIb(file, j) = v.hdr_ib
      /\ v.pad_bits = Padding(v.hdr_ib + v.tree_bits)
      /\ StoredIn(file, j) <=> StoredIn(file, v.tok)
      /\ v.tree_bits \in Nat /\ v.hdr_ib \in Nat /\ v.tree_bits # 0
  <2>1. /\ v.tree_bits = TreeBits(file, v.tok) /\ v.hdr_ib = TreeIb(file, v.tok)
        /\ v.pad_bits = Padding(v.hdr_ib + v.tree_bits)
    BY <1>2 DEF BitsAt
  <2>2. TreeBits(file, v.tok) \in Nat /\ TreeIb(file, v.tok) \in 0..7 /\ TreeBits(file, v.tok) # 0
    BY <1>2, <1>5, <1>6, TreeGives
  <2>3. StoredIn(file, j) <=> StoredIn(file, v.tok)
    BY <1>5, <1>6 DEF StoredIn
  <2>4. TreeBits(file, j) = TreeBits(file, v.tok) /\ TreeIb(file, j) = TreeIb(file, v.tok)
    BY <1>5, <1>6, <2>3 DEF TreeBits, TreeIb
  <2>5. QED BY <2>1, <2>2, <2>3, <2>4
<1>9. PICK e : e = EobPassed(q, a)
  OBVIOUS
<1>10. TreeAfter(v, q, a) = e
  <2>1. a.hdr_start = 0
    BY <1>1 DEF Reported
  <2>2. ~NewHeader(Request(v), a)
    BY <1>3, <1>8, <2>1 DEF NewHeader
  <2>3. QED BY <1>9, <2>2 DEF TreeAfter
<1>11. Same(q, e, {"tree_bits", "pad_bits", "hdr_ib"}) /\ e.tree_bits = v.tree_bits
       /\ e.pad_bits = v.pad_bits /\ e.hdr_ib = v.hdr_ib
  BY <1>3, <1>7, <1>9, EobPassedGives
<1>12. Same(q, e, TreeFields) /\ e.area = v.area
  BY <1>3, <1>11 DEF Same, TreeFields, Fields
<1>13. ASSUME ~StoredIn(file, j), NEW k \in 0..((v.hdr_ib + v.tree_bits + 7) \div 8 - 1)
       PROVE  v.area[k] = Bit(file, file.hdrOf[j]) \div 8 + k
  BY <1>2, <1>5, <1>6, <1>8, <1>13 DEF AreaSound
<1>14. ASSUME Bit(file, j) < 8 * v.total_in
       PROVE  v.area[Request(v).len - 1] = v.total_in - 1
  <2>1. Request(v).len = Base(v) + 1 /\ v.area[Base(v)] = v.total_in - 1
    BY <1>1, <1>14, ScratchEnd
  <2>2. Base(v) \in Nat
    BY <1>1, SendingGives, RequestGives
  <2>3. Request(v).len - 1 = Base(v)
    BY <2>1, <2>2
  <2>4. QED BY <2>1, <2>3
<1>15. QED BY <1>3, <1>8, <1>10, <1>11, <1>12, <1>13, <1>14 DEF TreeOutcome

\* A header that was reported anew is copied from where it begins, after what it has in the
\* scratch if it is the first thing there.
InScratch(v, h) == IF h = v.tok THEN InScratchBytes(v) ELSE 0

LEMMA TreeCopied ==
  ASSUME file \in Files, NEW v, NEW q, NEW j, NEW a, Answered(file, v, q, j, a),
         j # v.tok, j <= NTok(file), NEW h, h = file.hdrOf[j], h # 0, ~(h < v.tok),
         NEW u, u = TreeAfter(v, q, a)
  PROVE  /\ Same(q, u, TreeFields) /\ u.hdr_ib = Bit(file, h) % 8 /\ u.tree_bits = TreeBits(file, j)
         /\ u.pad_bits = Padding(u.hdr_ib + u.tree_bits)
         /\ \E e : /\ e.area = v.area /\ e.total_in = v.total_in
                   /\ u.area = Assembled(e, Request(v), InScratch(v, h),
                                 Bit(file, h) \div 8 - v.total_in + InScratch(v, h),
                                 NotNegative((u.tree_bits + u.hdr_ib + 7) \div 8 - InScratch(v, h)))
<1>1. Sending(file, v) /\ j \in Stops(v) /\ Reported(file, v, j, a)
  BY ReportGives DEF Answered
<1>2. /\ v.tok \in 1..NTok(file) /\ NTok(file) \in Nat /\ v.total_in \in Nat
      /\ Stream(file, v) /\ BitsAt(file, v, v.total_in) /\ BitsSound(file, v)
  BY <1>1, SendingGives
<1>3. /\ DOMAIN q = Fields /\ q.area = v.area /\ q.total_in = v.total_in
      /\ q.scratch_ib = v.scratch_ib /\ q.scratch_bits = v.scratch_bits
      /\ Request(v).hdr_bits = v.tree_bits
  BY AnsweredGives
<1>4. v.tok \in 1..(j - 1) /\ j \in 1..(NTok(file) + 1) /\ j \in 1..NTok(file)
  <2>1. j \in v.tok..(NTok(file) + 1)
    BY <1>1, StopGives
  <2>2. QED BY <1>2, <2>1
<1>5. h \in 1..(j - 1) /\ h \in v.tok..NTok(file) /\ h \in 1..NTok(file)
      /\ file.body[h].k = "hdr"
  <2>1. h \in 1..(j - 1) /\ file.body[h].k = "hdr"
    BY <1>4, HeaderOfBlock
  <2>2. QED BY <1>2, <1>4, <2>1
<1>6. PICK p \in Nat, o \in Nat : p = Bit(file, h) /\ o = Bit(file, v.tok)
  <2>1. h \in 1..(NTok(file) + 1) /\ v.tok \in 1..(NTok(file) + 1)
    BY <1>2, <1>5
  <2>2. QED BY <2>1, BitsGive
<1>7. /\ a.hdr_start = v.tree_bits + p - o /\ v.tree_bits \in Nat
      /\ h = v.tok => v.tree_bits = 0 /\ p = o
      /\ h # v.tok => p > o
  <2>1. v.tree_bits \in Nat
    BY <1>2 DEF Stream
  <2>2. h \in 1..(NTok(file) + 1) /\ v.tok \in 1..(NTok(file) + 1)
    BY <1>2, <1>5
  <2>3. p = 8 * HeaderLen(file) + file.at[h] /\ o = 8 * HeaderLen(file) + file.at[v.tok]
        /\ file.at[h] \in Nat /\ file.at[v.tok] \in Nat /\ HeaderLen(file) \in Nat
    BY <1>6, <2>2, BitsGive, NumbersGive, LengthsGive
  <2>4. a.hdr_start = v.tree_bits + file.at[h] - file.at[v.tok]
    BY <1>1 DEF Reported
  <2>5. ASSUME h = v.tok
        PROVE  v.tree_bits = 0 /\ p = o
    <3>1. file.hdrOf[v.tok] = 0
      BY <1>2, <1>5, <2>5, BlocksGive
    <3>2. QED BY <1>2, <1>6, <2>5, <3>1 DEF BitsAt, TreeBits
  <2>6. ASSUME h # v.tok
        PROVE  p > o
    <3>1. h \in (v.tok + 1)..(NTok(file) + 1)
      BY <1>2, <1>5, <2>6
    <3>2. o + file.body[v.tok].bits <= p
      BY <1>2, <1>6, <3>1, BitsGrow
    <3>3. file.body[v.tok].bits > 0 /\ file.body[v.tok].bits \in Nat
      BY <1>2, FileGives DEF BitsAt
    <3>4. QED BY <1>6, <3>2, <3>3
  <2>7. a.hdr_start = v.tree_bits + p - o
    BY <2>1, <2>3, <2>4
  <2>8. QED BY <2>1, <2>5, <2>6, <2>7
<1>8. PICK e : e = EobPassed(q, a)
  OBVIOUS
<1>9. Same(q, e, {"tree_bits", "pad_bits", "hdr_ib"})
  BY <1>3, <1>8, EobPassedGives
<1>10. /\ DOMAIN e = Fields /\ e.area = v.area /\ e.total_in = v.total_in /\ e.scratch_ib = v.scratch_ib
       /\ e.scratch_bits = v.scratch_bits /\ InScratchBytes(e) = InScratchBytes(v)
  <2>1. /\ DOMAIN e = Fields /\ e.area = v.area /\ e.total_in = v.total_in /\ e.scratch_ib = v.scratch_ib
        /\ e.scratch_bits = v.scratch_bits
    BY <1>3, <1>9 DEF Same, Fields
  <2>2. QED BY <2>1 DEF InScratchBytes
<1>11. NewHeader(Request(v), a)
  <2>1. a.out_hdr_bits = TreeBits(file, j) /\ TreeBits(file, j) \in Nat /\ TreeBits(file, j) # 0
    BY <1>1, <1>4, TreeGives DEF Reported
  <2>2. ~a.reached_eob
    <3>1. file.body[j - 1].k # "eob"
      <4>1. PICK i \in 1..NTok(file) : j = i + 1 /\ i = j - 1
        BY <1>2, <1>4
      <4>2. file.body[i].k = "eob" => file.hdrOf[i + 1] = 0
        BY <4>1, BlocksGive
      <4>3. QED BY <4>1, <4>2
    <3>2. a.reached_eob = (j > v.tok /\ file.body[j - 1].k = "eob")
      BY DEF Answered, Report
    <3>3. QED BY <3>1, <3>2, Zenon
  <2>3. a.hdr_start > 0 \/ Request(v).hdr_bits = 0
    BY <1>3, <1>6, <1>7
  <2>4. QED BY <2>1, <2>2, <2>3 DEF NewHeader
<1>12. PICK offs \in Int : offs = HeaderBegins(e, Request(v), a) /\ offs = p - o + v.scratch_ib
  <2>1. v.scratch_ib \in Int
    <3>1. v.scratch_ib \in 0..7
      BY <1>2 DEF Stream
    <3>2. QED BY <3>1
  <2>2. HeaderBegins(e, Request(v), a) = a.hdr_start - v.tree_bits + v.scratch_ib
    BY <1>3, <1>10 DEF HeaderBegins
  <2>3. QED BY <1>6, <1>7, <2>1, <2>2
<1>13. PICK skip : skip = InPlace(e, Request(v), a) /\ skip = InScratch(v, h)
  <2>1. CASE h = v.tok
    BY <1>3, <1>6, <1>7, <1>10, <2>1 DEF InPlace, InScratch
  <2>2. CASE h # v.tok
    <3>1. a.hdr_start # 0
      BY <1>6, <1>7, <2>2
    <3>2. QED BY <2>2, <3>1 DEF InPlace, InScratch
  <2>3. QED BY <2>1, <2>2
<1>14. /\ InScratchBytes(v) \in Nat
       /\ offs % 8 = p % 8 /\ offs \div 8 - InScratchBytes(v) = p \div 8 - v.total_in
       /\ offs \div 8 - InScratchBytes(v) + skip = p \div 8 - v.total_in + skip
  <2>1. InScratchBytes(v) \in Nat /\ o = 8 * (o \div 8) + v.scratch_ib
        /\ o \div 8 = v.total_in - InScratchBytes(v)
    BY <1>2, <1>6, RequestGives
  <2>2. PICK b \in Nat : b = o \div 8
    BY <1>6
  <2>3. offs = p - 8 * b
    <3>1. v.scratch_ib \in Int
      <4>1. v.scratch_ib \in 0..7
        BY <1>2 DEF Stream
      <4>2. QED BY <4>1
    <3>2. QED BY <1>6, <1>12, <2>1, <2>2, <3>1
  <2>4. offs % 8 = p % 8 /\ offs \div 8 = p \div 8 - b
    BY <1>6, <1>12, <2>2, <2>3
  <2>5. p \div 8 \in Int
    BY <1>6
  <2>6. PICK sb \in Nat : sb = InScratchBytes(v)
    BY <2>1
  <2>7. offs \div 8 - sb = p \div 8 - v.total_in
    BY <1>2, <2>1, <2>2, <2>4, <2>5, <2>6
  <2>8. QED BY <2>4, <2>6, <2>7
<1> DEFINE Tree(b, k) ==
      [e EXCEPT !.hdr_ib = b % 8, !.tree_bits = a.out_hdr_bits,
                !.pad_bits = Padding((b % 8) + a.out_hdr_bits),
                !.area = Assembled(e, Request(v), k, b \div 8 - InScratchBytes(e) + k,
                           NotNegative((a.out_hdr_bits + (b % 8) + 7) \div 8 - k))]
<1>15. extract_new_tree(e, Request(v), a) =
         The({Tree(b, k) : b \in {HeaderBegins(e, Request(v), a)}, k \in {InPlace(e, Request(v), a)}})
  BY SMT DEF extract_new_tree
<1>16. u = Tree(offs, skip)
  <2> HIDE DEF Tree
  <2>1. u = extract_new_tree(e, Request(v), a)
    BY <1>8, <1>11 DEF TreeAfter
  <2>2. {Tree(b, k) : b \in {HeaderBegins(e, Request(v), a)}, k \in {InPlace(e, Request(v), a)}}
          = {Tree(offs, skip)}
    BY <1>12, <1>13
  <2>3. The({Tree(offs, skip)}) = Tree(offs, skip)
    BY TheOnly
  <2>4. QED BY <1>15, <2>1, <2>2, <2>3, SMT
<1>17. /\ Same(e, u, TreeFields) /\ u.hdr_ib = offs % 8 /\ u.tree_bits = a.out_hdr_bits
       /\ u.pad_bits = Padding((offs % 8) + a.out_hdr_bits)
       /\ u.area = Assembled(e, Request(v), skip, offs \div 8 - InScratchBytes(e) + skip,
                             NotNegative((a.out_hdr_bits + (offs % 8) + 7) \div 8 - skip))
  <2>1. PICK x : x = offs % 8
    OBVIOUS
  <2>2. PICK y : y = Padding((offs % 8) + a.out_hdr_bits)
    OBVIOUS
  <2>3. PICK g : g = Assembled(e, Request(v), skip, offs \div 8 - InScratchBytes(e) + skip,
                             NotNegative((a.out_hdr_bits + (offs % 8) + 7) \div 8 - skip))
    OBVIOUS
  <2>4. u = [e EXCEPT !.hdr_ib = x, !.tree_bits = a.out_hdr_bits, !.pad_bits = y, !.area = g]
    BY <1>16, <2>1, <2>2, <2>3, Zenon
  <2>5. /\ Same(e, u, TreeFields) /\ u.hdr_ib = x /\ u.tree_bits = a.out_hdr_bits
        /\ u.pad_bits = y /\ u.area = g
    BY <1>10, <2>4 DEF Same, Fields, TreeFields
  <2>6. QED BY <2>1, <2>2, <2>3, <2>5
<1>18. Same(q, u, TreeFields)
  BY <1>9, <1>17 DEF Same, TreeFields, Fields
<1>19. a.out_hdr_bits = TreeBits(file, j)
  BY <1>1 DEF Reported
<1>20. u.area = Assembled(e, Request(v), InScratch(v, h),
                          Bit(file, h) \div 8 - v.total_in + InScratch(v, h),
                          NotNegative((u.tree_bits + u.hdr_ib + 7) \div 8 - InScratch(v, h)))
  BY <1>6, <1>10, <1>13, <1>14, <1>17, Zenon
<1>21. u.hdr_ib = Bit(file, h) % 8
  BY <1>6, <1>14, <1>17
<1>22. QED BY <1>10, <1>17, <1>18, <1>19, <1>20, <1>21

\* The end of what the request gave from the buffer.
LEMMA ScratchLast ==
  ASSUME NEW f \in Files, NEW v, Sending(f, v), InScratchBytes(v) # 0
  PROVE  v.area[Request(v).len - 1] = v.total_in - 1
<1>1. AreaSound(f, v) /\ Stream(f, v) /\ BitsSound(f, v) /\ v.total_in \in Nat
  BY SendingGives
<1>2. /\ Base(v) \in Nat /\ InScratchBytes(v) \in Nat
      /\ Bit(f, v.tok) \div 8 = v.total_in - InScratchBytes(v)
      /\ Request(v).len = Base(v) + InScratchBytes(v)
  BY <1>1, RequestGives
<1>3. PICK k \in 0..(InScratchBytes(v) - 1) : k = InScratchBytes(v) - 1
  BY <1>2
<1>4. v.area[Base(v) + k] = Bit(f, v.tok) \div 8 + k
  BY <1>1 DEF AreaSound
<1>5. Base(v) + k = Request(v).len - 1 /\ Bit(f, v.tok) \div 8 + k = v.total_in - 1
  BY <1>1, <1>2, <1>3
<1>6. QED BY <1>4, <1>5

\* The tree of a block whose header is the first thing of the request: its beginning is in the
\* scratch, and the rest is copied behind it.
LEMMA TreeFirst ==
  ASSUME file \in Files, NEW v, NEW q, NEW j, NEW a, Answered(file, v, q, j, a),
         j # v.tok, j <= NTok(file), file.hdrOf[j] = v.tok, ~StoredIn(file, j)
  PROVE  TreeOutcome(file, v, q, TreeAfter(v, q, a), j)
<1>1. Sending(file, v) /\ j \in Stops(v)
  BY DEF Answered
<1>2. /\ v.tok \in 1..NTok(file) /\ NTok(file) \in Nat /\ v.total_in \in Nat
      /\ Stream(file, v) /\ BitsAt(file, v, v.total_in) /\ BitsSound(file, v) /\ AreaSound(file, v)
      /\ v.area \in [0..(AreaLen - 1) -> Int]
  BY <1>1, SendingGives
<1>3. Request(v).len \in Nat /\ Request(v).len <= TreeLen /\ TreeLen \in Nat /\ AreaLen = TreeLen + 8
  BY AnsweredGives
<1>4. j \in 1..NTok(file) /\ v.tok # 0 /\ ~(v.tok < v.tok)
  <2>1. j \in v.tok..(NTok(file) + 1)
    BY <1>1, StopGives
  <2>2. QED BY <1>2, <2>1
<1>5. PICK u : u = TreeAfter(v, q, a)
  OBVIOUS
<1>6. PICK sb \in Nat : sb = InScratchBytes(v)
  BY <1>2, RequestGives
<1>7. /\ Same(q, u, TreeFields) /\ u.hdr_ib = Bit(file, v.tok) % 8 /\ u.tree_bits = TreeBits(file, j)
      /\ u.pad_bits = Padding(u.hdr_ib + u.tree_bits)
      /\ \E e : /\ e.area = v.area /\ e.total_in = v.total_in
                /\ u.area = Assembled(e, Request(v), sb, Bit(file, v.tok) \div 8 - v.total_in + sb,
                                      NotNegative((u.tree_bits + u.hdr_ib + 7) \div 8 - sb))
  BY <1>4, <1>5, <1>6, TreeCopied DEF InScratch
<1>8. PICK e : /\ e.area = v.area /\ e.total_in = v.total_in
               /\ u.area = Assembled(e, Request(v), sb, Bit(file, v.tok) \div 8 - v.total_in + sb,
                                     NotNegative((u.tree_bits + u.hdr_ib + 7) \div 8 - sb))
  BY <1>7
<1>9. /\ Base(v) = 0 /\ Bit(file, v.tok) \div 8 = v.total_in - sb /\ Request(v).len = sb
  <2>1. file.hdrOf[v.tok] = 0
    <3>1. file.body[v.tok].k = "hdr"
      <4>1. j \in 1..(NTok(file) + 1) /\ file.hdrOf[j] # 0
        BY <1>2, <1>4
      <4>2. QED BY <4>1, HeaderOfBlock
    <3>2. QED BY <1>2, <3>1, BlocksGive
  <2>2. v.tree_bits = 0 /\ v.hdr_ib = 0
    BY <1>2, <2>1 DEF BitsAt, TreeBits, TreeIb
  <2>3. Base(v) = 8 * ((v.hdr_ib + v.tree_bits + 63) \div 64)
        /\ Bit(file, v.tok) \div 8 = v.total_in - InScratchBytes(v)
        /\ Request(v).len = Base(v) + InScratchBytes(v)
    BY <1>2, RequestGives
  <2>4. Base(v) = 0
    BY <2>2, <2>3
  <2>5. QED BY <1>6, <2>3, <2>4
<1>10. /\ u.tree_bits \in Nat /\ u.hdr_ib \in 0..7 /\ u.hdr_ib = TreeIb(file, j)
       /\ 8 * ((u.hdr_ib + u.tree_bits + 63) \div 64) <= TreeLen
  <2>1. TreeIb(file, j) = Bit(file, v.tok) % 8
    BY <1>4 DEF TreeIb
  <2>2. /\ TreeBits(file, j) \in Nat /\ TreeIb(file, j) \in 0..7
        /\ 8 * ((TreeIb(file, j) + TreeBits(file, j) + 63) \div 64) <= TreeBytes(file, j)
        /\ TreeBytes(file, j) \in Nat
    BY <1>4, TreeGives
  <2>3. PICK size \in Nat : size = file.body[j].bits
    BY <1>4, FileGives
  <2>4. TreeBytes(file, j) + (size + 7) \div 8 <= TreeLen
    BY <1>4, <2>3, BoundsAssumption DEF NTok
  <2>5. TreeBytes(file, j) <= TreeLen
    BY <1>3, <2>2, <2>3, <2>4
  <2>6. QED BY <1>3, <1>7, <2>1, <2>2, <2>5
<1>11. PICK bytes \in Nat : bytes = (u.tree_bits + u.hdr_ib + 7) \div 8 /\ bytes <= TreeLen
  <2>1. PICK t \in Nat : t = u.hdr_ib + u.tree_bits /\ t = u.tree_bits + u.hdr_ib
    BY <1>10
  <2>2. (t + 7) \div 8 <= 8 * ((t + 63) \div 64) /\ (t + 7) \div 8 \in Nat
    BY <2>1
  <2>3. 8 * ((t + 63) \div 64) <= TreeLen
    BY <1>10, <2>1
  <2>4. QED BY <1>3, <2>1, <2>2, <2>3
<1>12. PICK cnt \in Nat : cnt = NotNegative(bytes - sb) /\ (sb + cnt = bytes \/ (cnt = 0 /\ sb >= bytes))
  BY <1>6, <1>11 DEF NotNegative
<1>13. u.area = Assembled(e, Request(v), sb, 0, cnt)
  <2>1. Bit(file, v.tok) \div 8 - v.total_in + sb = 0
    BY <1>2, <1>6, <1>9
  <2>2. QED BY <1>8, <1>11, <1>12, <2>1
<1>14. e.area \in [0..(AreaLen - 1) -> Int] /\ e.total_in \in Nat
  BY <1>2, <1>8
<1>15. Request(v).len <= AreaLen /\ sb + cnt <= AreaLen
  BY <1>3, <1>6, <1>9, <1>11, <1>12
<1>16. /\ \A k \in 0..(cnt - 1) : u.area[sb + k] = v.total_in + k
       /\ \A k \in 0..(AreaLen - 1) : k < sb \/ k >= sb + cnt => u.area[k] = e.area[k]
       /\ u.area \in [0..(AreaLen - 1) -> Int]
  <2>1. PICK in : in = Request(v)
    OBVIOUS
  <2>2. PICK offs \in Int : offs = 0
    OBVIOUS
  <2>3. in.len \in Nat /\ in.len <= AreaLen /\ -offs <= in.len
    BY <1>3, <1>15, <2>1, <2>2
  <2>4. Copyable(e, in, sb, offs, cnt)
    <3>1. \A k \in 0..(cnt - 1) : k < -offs => e.area[in.len + offs + k] = e.total_in + offs + k
      BY <1>12, <2>2
    <3>2. cnt > 0 => -offs <= cnt
      BY <1>12, <2>2
    <3>3. QED BY <1>6, <1>12, <1>14, <1>15, <2>2, <2>3, <3>1, <3>2 DEF Copyable
  <2>5. u.area = Assembled(e, in, sb, offs, cnt)
    BY <1>13, <2>1, <2>2
  <2>6. Copied(e, u.area, sb, offs, cnt) /\ u.area \in [0..(AreaLen - 1) -> Int]
    BY <2>4, <2>5, AssembledGives
  <2>7. \A k \in 0..(cnt - 1) : e.total_in + offs + k = v.total_in + k
    BY <1>2, <1>8, <2>2
  <2>8. QED BY <2>6, <2>7 DEF Copied
<1>17. ASSUME NEW k \in Nat, k < sb
       PROVE  u.area[k] = v.area[k]
  <2>1. k \in 0..(AreaLen - 1)
    BY <1>3, <1>9, <1>17
  <2>2. QED BY <1>8, <1>16, <1>17, <2>1
<1>18. ASSUME NEW k \in 0..((u.hdr_ib + u.tree_bits + 7) \div 8 - 1)
       PROVE  u.area[k] = Bit(file, v.tok) \div 8 + k
  <2>1. k \in Nat /\ k < bytes
    <3>1. u.hdr_ib + u.tree_bits + 7 = u.tree_bits + u.hdr_ib + 7
      BY <1>10
    <3>2. k \in 0..(bytes - 1)
      BY <1>11, <1>18, <3>1
    <3>3. QED BY <1>11, <3>2
  <2>2. CASE k < sb
    <3>1. k \in 0..(InScratchBytes(v) - 1)
      BY <1>6, <2>1, <2>2
    <3>2. v.area[Base(v) + k] = Bit(file, v.tok) \div 8 + k
      BY <1>2, <3>1 DEF AreaSound
    <3>3. QED BY <1>9, <1>17, <2>1, <2>2, <3>2
  <2>3. CASE ~(k < sb)
    <3>1. PICK i \in 0..(cnt - 1) : k = sb + i
      <4>1. sb + cnt = bytes
        BY <1>6, <1>11, <1>12, <2>1, <2>3
      <4>2. k - sb \in 0..(cnt - 1) /\ k = sb + (k - sb)
        BY <1>6, <1>12, <2>1, <2>3, <4>1
      <4>3. QED BY <4>2
    <3>2. u.area[k] = v.total_in + i
      BY <1>16, <3>1
    <3>3. QED BY <1>2, <1>6, <1>9, <3>1, <3>2
  <2>4. QED BY <2>2, <2>3
<1>19. ASSUME Bit(file, j) < 8 * v.total_in
       PROVE  u.area[Request(v).len - 1] = v.total_in - 1
  <2>1. InScratchBytes(v) = 1
    BY <1>1, <1>19, ScratchEnd
  <2>2. v.area[Request(v).len - 1] = v.total_in - 1
    BY <1>1, <2>1, ScratchLast
  <2>3. Request(v).len - 1 \in Nat /\ Request(v).len - 1 < sb
    BY <1>6, <1>9, <2>1
  <2>4. QED BY <1>17, <2>2, <2>3
<1>20. TreeOutcome(file, v, q, u, j)
  <2>1. 8 * ((u.hdr_ib + u.tree_bits + 63) \div 64) = 8 * ((TreeIb(file, j) + TreeBits(file, j) + 63) \div 64)
    BY <1>7, <1>10
  <2>2. u.hdr_ib \in Nat
    BY <1>10
  <2>3. \A k \in 0..((u.hdr_ib + u.tree_bits + 7) \div 8 - 1) :
           u.area[k] = Bit(file, file.hdrOf[j]) \div 8 + k
    BY <1>18
  <2>4. QED BY <1>7, <1>10, <1>16, <1>19, <2>1, <2>2, <2>3 DEF TreeOutcome
<1>21. QED BY <1>5, <1>20

\* The header of a later block, which begins in the last byte of the scratch or in the input.
LEMMA LaterHeader ==
  ASSUME file \in Files, NEW v, NEW q, NEW j, NEW a, Answered(file, v, q, j, a),
         j # v.tok, j <= NTok(file), NEW h, h = file.hdrOf[j], h # 0, h # v.tok, ~(h < v.tok)
  PROVE  /\ h \in 1..NTok(file) /\ Bit(file, h) \in Nat /\ Bit(file, v.tok) < Bit(file, h)
         /\ Bit(file, h) + file.body[h].bits <= Bit(file, j)
         /\ v.total_in - InScratchBytes(v) <= Bit(file, h) \div 8
         /\ v.total_in - 1 <= Bit(file, h) \div 8
<1>1. Sending(file, v) /\ j \in Stops(v)
  BY DEF Answered
<1>2. /\ v.tok \in 1..NTok(file) /\ NTok(file) \in Nat /\ v.total_in \in Nat /\ v.scratch_bits \in Nat
      /\ Stream(file, v) /\ BitsAt(file, v, v.total_in) /\ BitsSound(file, v)
  BY <1>1, SendingGives
<1>3. j \in 1..(NTok(file) + 1)
  BY <1>1, StopGives
<1>4. h \in 1..(j - 1) /\ h \in (v.tok + 1)..(NTok(file) + 1) /\ h \in 1..NTok(file)
  <2>1. h \in 1..(j - 1)
    BY <1>3, HeaderOfBlock
  <2>2. QED BY <1>2, <1>3, <2>1
<1>5. PICK p \in Nat, o \in Nat : p = Bit(file, h) /\ o = Bit(file, v.tok)
  <2>1. h \in 1..(NTok(file) + 1) /\ v.tok \in 1..(NTok(file) + 1)
    BY <1>2, <1>4
  <2>2. QED BY <2>1, BitsGive
<1>6. PICK size \in Nat : size = file.body[v.tok].bits /\ size > 0
  <2>1. file.body[v.tok].bits > 0
    BY <1>2 DEF BitsAt
  <2>2. QED BY <1>2, <2>1, FileGives
<1>7. o + size <= p /\ Bit(file, v.tok + 1) = o + size
  <2>1. v.tok \in 1..(NTok(file) + 1) /\ v.tok <= NTok(file)
    BY <1>2
  <2>2. QED BY <1>2, <1>4, <1>5, <1>6, <2>1, BitsGrow, BitsGive
<1>8. Bit(file, h) + file.body[h].bits <= Bit(file, j)
  <2>1. j \in (h + 1)..(NTok(file) + 1)
    BY <1>2, <1>3, <1>4
  <2>2. QED BY <1>4, <2>1, BitsGrow
<1>9. PICK sb \in Nat : sb = InScratchBytes(v) /\ o \div 8 = v.total_in - sb
  BY <1>2, <1>5, RequestGives
<1>10. v.total_in - sb <= p \div 8
  BY <1>2, <1>5, <1>6, <1>7, <1>9
<1>11. v.total_in - 1 <= p \div 8
  <2>1. 8 * v.total_in = o + v.scratch_bits
        /\ (v.scratch_bits < 8 \/ 8 * v.total_in < Bit(file, v.tok + 1))
    BY <1>2, <1>5 DEF BitsAt
  <2>2. 8 * v.total_in <= p + 7
    <3>1. CASE v.scratch_bits < 8
      BY <1>2, <1>5, <1>6, <1>7, <2>1, <3>1
    <3>2. CASE 8 * v.total_in < Bit(file, v.tok + 1)
      BY <1>2, <1>5, <1>6, <1>7, <3>2
    <3>3. QED BY <2>1, <3>1, <3>2
  <2>3. QED BY <1>2, <1>5, <2>2
<1>12. QED BY <1>4, <1>5, <1>6, <1>7, <1>8, <1>9, <1>10, <1>11

\* Its tree.
LEMMA TreeLater ==
  ASSUME file \in Files, NEW v, NEW q, NEW j, NEW a, Answered(file, v, q, j, a),
         j # v.tok, j <= NTok(file), NEW h, h = file.hdrOf[j], h # 0, h # v.tok, ~(h < v.tok),
         ~StoredIn(file, j)
  PROVE  TreeOutcome(file, v, q, TreeAfter(v, q, a), j)
<1>1. Sending(file, v) /\ j \in Stops(v)
  BY DEF Answered
<1>2. /\ v.tok \in 1..NTok(file) /\ NTok(file) \in Nat /\ v.total_in \in Nat
      /\ Stream(file, v) /\ BitsSound(file, v)
      /\ v.area \in [0..(AreaLen - 1) -> Int]
  BY <1>1, SendingGives
<1>3. Request(v).len \in Nat /\ Request(v).len <= TreeLen /\ TreeLen \in Nat /\ AreaLen = TreeLen + 8
  BY AnsweredGives
<1>4. j \in 1..NTok(file)
  <2>1. j \in v.tok..(NTok(file) + 1)
    BY <1>1, StopGives
  <2>2. QED BY <1>2, <2>1
<1>5. PICK u : u = TreeAfter(v, q, a)
  OBVIOUS
<1>6. PICK sb \in Nat, base \in Nat : sb = InScratchBytes(v) /\ base = Base(v) /\ Request(v).len = base + sb
  BY <1>2, RequestGives
<1>7. /\ h \in 1..NTok(file) /\ Bit(file, h) \in Nat /\ Bit(file, v.tok) < Bit(file, h)
      /\ Bit(file, h) + file.body[h].bits <= Bit(file, j)
      /\ v.total_in - InScratchBytes(v) <= Bit(file, h) \div 8
      /\ v.total_in - 1 <= Bit(file, h) \div 8
  BY LaterHeader
<1>8. /\ Same(q, u, TreeFields) /\ u.hdr_ib = Bit(file, h) % 8 /\ u.tree_bits = TreeBits(file, j)
      /\ u.pad_bits = Padding(u.hdr_ib + u.tree_bits)
      /\ \E e : /\ e.area = v.area /\ e.total_in = v.total_in
                /\ u.area = Assembled(e, Request(v), 0, Bit(file, h) \div 8 - v.total_in + 0,
                                      NotNegative((u.tree_bits + u.hdr_ib + 7) \div 8 - 0))
  BY <1>5, TreeCopied DEF InScratch
<1>9. PICK e : /\ e.area = v.area /\ e.total_in = v.total_in
               /\ u.area = Assembled(e, Request(v), 0, Bit(file, h) \div 8 - v.total_in + 0,
                                     NotNegative((u.tree_bits + u.hdr_ib + 7) \div 8 - 0))
  BY <1>8
<1>10. /\ u.tree_bits \in Nat /\ u.tree_bits > 0 /\ u.hdr_ib \in 0..7 /\ u.hdr_ib = TreeIb(file, j)
       /\ u.tree_bits = file.body[h].bits
       /\ 8 * ((u.hdr_ib + u.tree_bits + 63) \div 64) <= TreeLen
  <2>1. TreeIb(file, j) = Bit(file, h) % 8 /\ TreeBits(file, j) = file.body[h].bits
    BY DEF TreeIb, TreeBits
  <2>2. /\ TreeBits(file, j) \in Nat /\ TreeIb(file, j) \in 0..7 /\ TreeBits(file, j) # 0
        /\ 8 * ((TreeIb(file, j) + TreeBits(file, j) + 63) \div 64) <= TreeBytes(file, j)
        /\ TreeBytes(file, j) \in Nat
    BY <1>4, TreeGives
  <2>3. PICK size \in Nat : size = file.body[j].bits
    BY <1>4, FileGives
  <2>4. TreeBytes(file, j) + (size + 7) \div 8 <= TreeLen
    BY <1>4, <2>3, BoundsAssumption DEF NTok
  <2>5. TreeBytes(file, j) <= TreeLen
    BY <1>3, <2>2, <2>3, <2>4
  <2>6. 8 * ((TreeIb(file, j) + TreeBits(file, j) + 63) \div 64) <= TreeLen
    <3>1. PICK x \in Nat : x = TreeIb(file, j) + TreeBits(file, j)
      BY <2>2
    <3>2. QED BY <1>3, <2>2, <2>5, <3>1
  <2>7. PICK ib \in Nat, bits \in Nat : ib = u.hdr_ib /\ bits = u.tree_bits
                                       /\ ib = TreeIb(file, j) /\ bits = TreeBits(file, j)
    <3>1. TreeIb(file, j) \in Nat /\ TreeBits(file, j) \in Nat
      BY <2>2
    <3>2. u.hdr_ib = TreeIb(file, j) /\ u.tree_bits = TreeBits(file, j)
      <4>1. u.hdr_ib = Bit(file, h) % 8 /\ u.tree_bits = TreeBits(file, j)
        BY <1>8
      <4>2. QED BY <2>1, <4>1
    <3>3. QED BY <3>1, <3>2
  <2>8. 8 * ((ib + bits + 63) \div 64) <= TreeLen /\ ib \in 0..7 /\ bits # 0
    BY <2>2, <2>6, <2>7
  <2>9. QED BY <2>1, <2>7, <2>8
<1>11. PICK bytes \in Nat \ {0} : /\ bytes = (u.tree_bits + u.hdr_ib + 7) \div 8 /\ bytes <= TreeLen
                                  /\ bytes = (u.hdr_ib + u.tree_bits + 7) \div 8
  <2>1. PICK t \in Nat \ {0} : t = u.hdr_ib + u.tree_bits /\ t = u.tree_bits + u.hdr_ib
    BY <1>10
  <2>2. (t + 7) \div 8 <= 8 * ((t + 63) \div 64) /\ (t + 7) \div 8 \in Nat \ {0}
    BY <2>1
  <2>3. 8 * ((t + 63) \div 64) <= TreeLen
    BY <1>10, <2>1
  <2>4. QED BY <1>3, <2>1, <2>2, <2>3
<1>12. PICK offs \in Int : offs = Bit(file, h) \div 8 - v.total_in
  BY <1>2, <1>7
<1>13. PICK zero \in Nat : zero = 0
  OBVIOUS
<1>14. u.area = Assembled(e, Request(v), zero, offs, bytes)
  <2>1. NotNegative((u.tree_bits + u.hdr_ib + 7) \div 8 - 0) = bytes
    BY <1>11 DEF NotNegative
  <2>2. Bit(file, h) \div 8 - v.total_in + 0 = offs
    BY <1>12
  <2>3. QED BY <1>9, <1>13, <2>1, <2>2
<1>15. Copyable(e, Request(v), zero, offs, bytes)
  <2>1. PICK in : in = Request(v)
    OBVIOUS
  <2>2. -offs <= sb /\ -offs <= 1
    <3>1. PICK b \in Nat : b = Bit(file, h) \div 8
      BY <1>7
    <3>2. PICK t \in Nat : t = v.total_in
      BY <1>2
    <3>3. t - sb <= b
      BY <1>6, <1>7, <3>1, <3>2
    <3>4. t - 1 <= b
      BY <1>7, <3>1, <3>2
    <3>5. offs = b - t
      BY <1>12, <3>1, <3>2
    <3>6. sb \in Nat
      BY <1>6
    <3>7. QED BY <3>3, <3>4, <3>5, <3>6
  <2>3. ASSUME NEW k \in 0..(bytes - 1), k < -offs
        PROVE  e.area[in.len + offs + k] = e.total_in + offs + k
    <3>1. k = 0 /\ offs = -1
      BY <1>11, <1>12, <2>2, <2>3
    <3>2. InScratchBytes(v) # 0
      BY <1>6, <2>2, <3>1
    <3>3. v.area[Request(v).len - 1] = v.total_in - 1
      BY <1>1, <3>2, ScratchLast
    <3>4. in.len + offs + k = Request(v).len - 1 /\ e.total_in + offs + k = v.total_in - 1
      BY <1>2, <1>3, <1>9, <2>1, <3>1
    <3>5. QED BY <1>9, <3>3, <3>4
  <2>4. in.len \in Nat /\ in.len <= AreaLen /\ -offs <= in.len
    BY <1>3, <1>6, <1>12, <2>1, <2>2
  <2>5. (bytes > 0 => -offs <= bytes) /\ zero + bytes <= AreaLen
    BY <1>3, <1>11, <1>12, <1>13, <2>2
  <2>6. e.area \in [0..(AreaLen - 1) -> Int] /\ e.total_in \in Nat
    BY <1>2, <1>9
  <2>7. Copyable(e, in, zero, offs, bytes)
    BY <1>11, <1>12, <1>13, <2>3, <2>4, <2>5, <2>6 DEF Copyable
  <2>8. QED BY <2>1, <2>7
<1>16. Copied(e, u.area, zero, offs, bytes) /\ u.area \in [0..(AreaLen - 1) -> Int]
  BY <1>14, <1>15, AssembledGives
<1>17. ASSUME NEW k \in 0..(bytes - 1)
       PROVE  u.area[k] = Bit(file, h) \div 8 + k
  <2>1. u.area[zero + k] = e.total_in + offs + k
    BY <1>16 DEF Copied
  <2>2. zero + k = k /\ e.total_in + offs + k = Bit(file, h) \div 8 + k
    <3>1. PICK b \in Nat : b = Bit(file, h) \div 8
      BY <1>7
    <3>2. QED BY <1>2, <1>9, <1>12, <1>13, <3>1
  <2>3. QED BY <2>1, <2>2
<1>18. ASSUME Bit(file, j) < 8 * v.total_in
       PROVE  u.area[Request(v).len - 1] = v.total_in - 1
  <2>1. /\ sb = 1 /\ Bit(file, v.tok) \div 8 = v.total_in - 1 /\ Request(v).len = base + 1
        /\ v.area[base] = v.total_in - 1
    BY <1>1, <1>6, <1>18, ScratchEnd
  <2>2. PICK d \in Nat : d = u.tree_bits /\ d > 0
    BY <1>10
  <2>3. PICK y \in Nat : y = Bit(file, j)
    <3>1. j \in 1..(NTok(file) + 1)
      BY <1>2, <1>4
    <3>2. QED BY <3>1, BitsGive
  <2>4. PICK ti \in Nat : ti = v.total_in
    BY <1>2
  <2>5. PICK p \in Nat : p = Bit(file, h) /\ p + d < 8 * ti
    <3>1. PICK p \in Nat : p = Bit(file, h)
      BY <1>7
    <3>2. p + d <= y
      BY <1>7, <1>10, <2>2, <2>3, <3>1
    <3>3. y < 8 * ti
      BY <1>18, <2>3, <2>4
    <3>4. QED BY <2>3, <3>1, <3>2, <3>3
  <2>6. p \div 8 = v.total_in - 1
    <3>1. ti - 1 <= p \div 8
      BY <1>7, <2>5, <2>4
    <3>2. p \div 8 = ti - 1
      BY <2>5, <3>1
    <3>3. QED BY <2>4, <3>2
  <2>7. bytes = 1
    <3>1. PICK r \in 0..7 : r = u.hdr_ib /\ r = p % 8
      BY <1>8, <1>10, <2>5
    <3>2. p = 8 * (ti - 1) + r
      <4>1. p = 8 * (p \div 8) + (p % 8)
        BY <2>5, ByteOfBit
      <4>2. p \div 8 = ti - 1 /\ p % 8 = r
        BY <2>6, <2>4, <3>1
      <4>3. QED BY <4>1, <4>2
    <3>3. d + r < 8 /\ d + r > 0
      BY <2>5, <2>2, <3>2
    <3>4. (d + r + 7) \div 8 = 1
      BY <3>3
    <3>5. QED BY <1>11, <2>2, <3>1, <3>4
  <2>8. CASE base = 0
    <3>1. u.area[0] = Bit(file, h) \div 8 + 0
      BY <1>17, <2>7
    <3>2. QED BY <1>2, <2>1, <2>5, <2>6, <2>8, <3>1
  <2>9. CASE base # 0
    <3>1. base \in 0..(AreaLen - 1) /\ base >= zero + bytes
      BY <1>3, <1>6, <1>13, <2>1, <2>7, <2>9
    <3>2. u.area[base] = e.area[base]
      BY <1>16, <3>1 DEF Copied
    <3>3. Request(v).len - 1 = base
      BY <1>6, <2>1
    <3>4. QED BY <1>9, <2>1, <3>2, <3>3
  <2>10. QED BY <2>8, <2>9
<1>19. TreeOutcome(file, v, q, u, j)
  <2>1. 8 * ((u.hdr_ib + u.tree_bits + 63) \div 64) = 8 * ((TreeIb(file, j) + TreeBits(file, j) + 63) \div 64)
    BY <1>8, <1>10
  <2>2. u.hdr_ib \in Nat
    BY <1>10
  <2>3. \A k \in 0..((u.hdr_ib + u.tree_bits + 7) \div 8 - 1) :
           u.area[k] = Bit(file, file.hdrOf[j]) \div 8 + k
    BY <1>11, <1>17
  <2>4. QED BY <1>8, <1>10, <1>16, <1>18, <2>1, <2>2, <2>3 DEF TreeOutcome
<1>20. QED BY <1>5, <1>19

\* The header of a stored block is written anew later, but its room is kept free.
LEMMA TreeStored ==
  ASSUME file \in Files, NEW v, NEW q, NEW j, NEW a, Answered(file, v, q, j, a),
         j # v.tok, j <= NTok(file), NEW h, h = file.hdrOf[j], h # 0, ~(h < v.tok),
         StoredIn(file, j)
  PROVE  TreeOutcome(file, v, q, TreeAfter(v, q, a), j)
<1>1. Sending(file, v) /\ j \in Stops(v)
  BY DEF Answered
<1>2. /\ v.tok \in 1..NTok(file) /\ NTok(file) \in Nat /\ v.total_in \in Nat /\ v.scratch_bits \in Nat
      /\ Stream(file, v) /\ BitsAt(file, v, v.total_in) /\ BitsSound(file, v)
      /\ v.area \in [0..(AreaLen - 1) -> Int]
  BY <1>1, SendingGives
<1>3. Request(v).len \in Nat /\ Request(v).len <= TreeLen /\ TreeLen \in Nat /\ AreaLen = TreeLen + 8
  BY AnsweredGives
<1>4. j \in 1..(NTok(file) + 1) /\ v.tok \in 1..(NTok(file) + 1) /\ h \in 1..(j - 1) /\ h \in 1..NTok(file)
  <2>1. j \in v.tok..(NTok(file) + 1)
    BY <1>1, StopGives
  <2>2. j \in 1..(NTok(file) + 1)
    BY <1>2, <2>1
  <2>3. h \in 1..(j - 1)
    BY <2>2, HeaderOfBlock
  <2>4. QED BY <1>2, <2>2, <2>3
<1>5. PICK u : u = TreeAfter(v, q, a)
  OBVIOUS
<1>6. PICK sb \in Nat, o \in Nat : /\ sb = InScratchBytes(v) /\ o = Bit(file, v.tok) /\ o \div 8 = v.total_in - sb
                                   /\ sb <= Request(v).len
  <2>1. /\ InScratchBytes(v) \in Nat /\ Base(v) \in Nat
        /\ Bit(file, v.tok) \div 8 = v.total_in - InScratchBytes(v)
        /\ Request(v).len = Base(v) + InScratchBytes(v)
    BY <1>2, RequestGives
  <2>2. Bit(file, v.tok) \in Nat
    BY <1>4, BitsGive
  <2>3. QED BY <1>3, <2>1, <2>2
<1>7. PICK skip \in Nat : /\ skip = InScratch(v, h)
                          /\ skip = IF h = v.tok THEN sb ELSE 0
  BY <1>6 DEF InScratch
<1>8. /\ Same(q, u, TreeFields) /\ u.hdr_ib = Bit(file, h) % 8 /\ u.tree_bits = TreeBits(file, j)
      /\ u.pad_bits = Padding(u.hdr_ib + u.tree_bits)
      /\ \E e : /\ e.area = v.area /\ e.total_in = v.total_in
                /\ u.area = Assembled(e, Request(v), InScratch(v, h),
                              Bit(file, h) \div 8 - v.total_in + InScratch(v, h),
                              NotNegative((u.tree_bits + u.hdr_ib + 7) \div 8 - InScratch(v, h)))
  BY <1>5, TreeCopied
<1>9. PICK e : /\ e.area = v.area /\ e.total_in = v.total_in
               /\ u.area = Assembled(e, Request(v), skip, Bit(file, h) \div 8 - v.total_in + skip,
                                     NotNegative((u.tree_bits + u.hdr_ib + 7) \div 8 - skip))
  BY <1>7, <1>8
<1>10. PICK p \in Nat : /\ p = Bit(file, h) /\ v.total_in - sb <= p \div 8
                        /\ h = v.tok => p \div 8 = v.total_in - sb
  <2>1. h \in 1..(NTok(file) + 1)
    BY <1>2, <1>4
  <2>2. PICK p \in Nat : p = Bit(file, h)
    BY <2>1, BitsGive
  <2>3. CASE h = v.tok
    <3>1. p \div 8 = v.total_in - sb
      BY <1>6, <2>2, <2>3
    <3>2. p \div 8 \in Int
      BY <2>2
    <3>3. QED BY <2>2, <2>3, <3>1, <3>2
  <2>4. CASE h # v.tok
    <3>1. v.total_in - InScratchBytes(v) <= Bit(file, h) \div 8
      BY <2>4, LaterHeader
    <3>2. QED BY <1>6, <2>2, <2>4, <3>1
  <2>5. QED BY <2>3, <2>4
<1>11. u.tree_bits = 40 /\ TreeBits(file, j) = 40 /\ TreeIb(file, j) = 0 /\ u.hdr_ib \in 0..7
  <2>1. TreeBits(file, j) = 40 /\ TreeIb(file, j) = 0
    BY DEF TreeBits, TreeIb, StoredIn
  <2>2. p % 8 \in 0..7
    BY <1>10
  <2>3. QED BY <1>8, <1>10, <2>1, <2>2
<1>12. u.area \in [0..(AreaLen - 1) -> Int]
  <2>1. PICK cnt \in Nat : cnt = NotNegative((u.tree_bits + u.hdr_ib + 7) \div 8 - skip)
    <3>1. PICK x \in Int : x = (u.tree_bits + u.hdr_ib + 7) \div 8 - skip
      BY <1>7, <1>11
    <3>2. QED BY <3>1 DEF NotNegative
  <2>2. PICK offs \in Int : offs = Bit(file, h) \div 8 - v.total_in + skip
    BY <1>2, <1>7, <1>10
  <2>3. -offs <= sb
    <3>1. PICK b \in Nat : b = p \div 8
      BY <1>10
    <3>2. v.total_in - sb <= b /\ offs = b - v.total_in + skip
      BY <1>10, <2>2, <3>1
    <3>3. QED BY <1>2, <1>6, <1>7, <2>2, <3>1, <3>2
  <2>4. PICK in : in = Request(v)
    OBVIOUS
  <2>5. in.len \in Nat /\ in.len <= AreaLen /\ -offs <= in.len
    BY <1>3, <1>6, <2>2, <2>3, <2>4
  <2>6. e.area \in [0..(AreaLen - 1) -> Int] /\ e.total_in \in Nat
    BY <1>2, <1>9
  <2>7. Assembled(e, in, skip, offs, cnt) \in [0..(AreaLen - 1) -> Int]
    BY <1>7, <2>1, <2>2, <2>5, <2>6, AssembledTyped
  <2>8. QED BY <1>9, <2>1, <2>2, <2>4, <2>7
<1>13. ~(Bit(file, j) < 8 * v.total_in)
  <2>1. ASSUME Bit(file, j) < 8 * v.total_in
        PROVE  FALSE
    <3>1. v.scratch_bits < 8
      BY <1>1, <2>1, ScratchEnd
    <3>2. 8 * v.total_in = o + v.scratch_bits
      BY <1>2, <1>6 DEF BitsAt
    <3>3. PICK y \in Nat : y = Bit(file, j)
      BY <1>4, BitsGive
    <3>4. PICK size \in Nat : size = file.body[h].bits /\ size > 32
      <4>1. file.body[h].k = "hdr"
        BY <1>4, HeaderOfBlock
      <4>2. file.body[h].stored
        BY DEF StoredIn
      <4>3. file.body[h].bits > 32
        BY <1>4, <4>1, <4>2, BlocksGive
      <4>4. QED BY <1>4, <4>3, FileGives
    <3>5. p + size <= y
      <4>1. j \in (h + 1)..(NTok(file) + 1)
        BY <1>2, <1>4
      <4>2. QED BY <1>4, <1>10, <3>3, <3>4, <4>1, BitsGrow
    <3>6. o <= p
      <4>1. CASE h = v.tok
        BY <1>6, <1>10, <4>1
      <4>2. CASE h # v.tok
        <5>1. Bit(file, v.tok) < Bit(file, h)
          BY <4>2, LaterHeader
        <5>2. QED BY <1>6, <1>10, <5>1
      <4>3. QED BY <4>1, <4>2
    <3>7. y < 8 * v.total_in
      BY <2>1, <3>3
    <3>8. PICK b \in Nat, x \in Nat : b = v.scratch_bits /\ x = 8 * v.total_in
      BY <1>2
    <3>9. b < 8 /\ x = o + b /\ y < x /\ size > 32
      BY <3>1, <3>2, <3>4, <3>7, <3>8
    <3>10. QED BY <3>5, <3>6, <3>9
  <2>2. QED BY <2>1
<1>14. TreeOutcome(file, v, q, u, j)
  <2>1. 8 * ((u.hdr_ib + u.tree_bits + 63) \div 64) = 8 * ((TreeIb(file, j) + TreeBits(file, j) + 63) \div 64)
    BY <1>11
  <2>2. u.hdr_ib \in Nat /\ u.tree_bits \in Nat
    BY <1>11
  <2>3. QED BY <1>8, <1>12, <1>13, <2>1, <2>2 DEF TreeOutcome
<1>15. QED BY <1>5, <1>14

\* The tree that the next request needs, whatever the stream was in the middle of.
LEMMA TreeOutcomeGives ==
  ASSUME file \in Files, NEW v, NEW q, NEW j, NEW a, Answered(file, v, q, j, a),
         j # v.tok, j <= NTok(file)
  PROVE  TreeOutcome(file, v, q, TreeAfter(v, q, a), j)
<1>1. PICK h : h = file.hdrOf[j]
  OBVIOUS
<1>2. v.tok \in Nat /\ h \in Nat
  <2>1. Sending(file, v) /\ j \in Stops(v)
    BY DEF Answered
  <2>2. v.tok \in 1..NTok(file) /\ NTok(file) \in Nat /\ j \in 1..(NTok(file) + 1)
    BY <2>1, SendingGives, StopGives
  <2>3. j \in 1..NTok(file)
    BY <2>2
  <2>4. h \in 0..NTok(file)
    BY <1>1, <2>3, BlocksGive
  <2>5. QED BY <2>2, <2>4
<1>3. CASE h = 0
  BY <1>1, <1>3, TreeEnded
<1>4. CASE h # 0 /\ h < v.tok
  BY <1>1, <1>4, TreeContinued
<1>5. CASE h # 0 /\ ~(h < v.tok) /\ StoredIn(file, j)
  BY <1>1, <1>5, TreeStored
<1>6. CASE h = v.tok /\ ~StoredIn(file, j)
  BY <1>1, <1>6, TreeFirst
<1>7. CASE h # 0 /\ h # v.tok /\ ~(h < v.tok) /\ ~StoredIn(file, j)
  BY <1>1, <1>7, TreeLater
<1>8. QED BY <1>2, <1>3, <1>4, <1>5, <1>6, <1>7

\* The numbers of scratch_update, when processing stopped before bit b of the file: what is
\* used of the input and what is kept of it and of the scratch.
CutAt(ti, ai, b, used, cnt, bits) ==
  /\ used \in Nat /\ used <= ai /\ cnt \in Nat /\ bits \in Nat
  /\ ti + used > 0
  /\ cnt = ti + used - b \div 8
  /\ bits = cnt * 8 - (b % 8)
  /\ 8 * (ti + used) = b + bits

LEMMA CutNumbers ==
  ASSUME NEW ti \in Nat, NEW ai \in Nat, NEW o \in Nat, NEW b \in Nat, o < b, b <= 8 * (ti + ai),
         b < 8 * ti => o \div 8 = ti - 1,
         NEW offs \in Int, offs % 8 = b % 8, NEW src \in Int, src = b \div 8 - ti
  PROVE  /\ src >= -1
         /\ CutAt(ti, ai, b, Used(src, offs), Kept(src, offs), Kept(src, offs) * 8 - (offs % 8))
         /\ Kept(src, offs) * 8 - (offs % 8) < 8
         /\ CutAt(ti, ai, b, ai, Kept(src, offs) + ai - Used(src, offs),
                  (Kept(src, offs) + ai - Used(src, offs)) * 8 - (offs % 8))
<1>1. PICK y \in Nat : y = b \div 8
  OBVIOUS
<1>2. PICK r \in 0..7 : r = b % 8
  OBVIOUS
<1>3. b = 8 * y + r /\ offs % 8 = r /\ src = y - ti
  BY <1>1, <1>2, ByteOfBit
<1>4. PICK part \in {0, 1} : part = PartialByte(offs) /\ part = IF r = 0 THEN 0 ELSE 1
  BY <1>3 DEF PartialByte
<1>5. src < 0 => src = -1 /\ r > 0
  <2>1. ASSUME src < 0
        PROVE  src = -1 /\ r > 0
    <3>1. b < 8 * ti
      BY <1>2, <1>3, <2>1
    <3>2. 8 * (ti - 1) <= o
      BY <3>1
    <3>3. QED BY <1>2, <1>3, <2>1, <3>2
  <2>2. QED BY <2>1
<1>6. y + part <= ti + ai
  BY <1>2, <1>3, <1>4
<1>7. PICK used \in Nat : used = Used(src, offs) /\ used = IF src >= 0 THEN src + part ELSE 0
  <2>1. Used(src, offs) = IF src >= 0 THEN src + part ELSE 0
    BY <1>4 DEF Used
  <2>2. QED BY <1>4, <2>1
<1>8. PICK kept \in Nat : kept = Kept(src, offs) /\ kept = IF src >= 0 THEN part ELSE -src
  BY <1>4 DEF Kept
<1>9. /\ used <= ai /\ kept = ti + used - y /\ kept * 8 - r \in Nat /\ kept * 8 - r < 8
      /\ 8 * (ti + used) = b + (kept * 8 - r) /\ ti + used > 0
  <2>1. CASE src >= 0
    BY <1>2, <1>3, <1>4, <1>6, <1>7, <1>8, <2>1
  <2>2. CASE src < 0
    BY <1>2, <1>3, <1>5, <1>7, <1>8, <2>2
  <2>3. QED BY <2>1, <2>2
<1>10. CutAt(ti, ai, b, Used(src, offs), Kept(src, offs), Kept(src, offs) * 8 - (offs % 8))
  <2>1. CutAt(ti, ai, b, used, kept, kept * 8 - r)
    BY <1>1, <1>2, <1>9 DEF CutAt
  <2>2. QED BY <1>3, <1>7, <1>8, <2>1
<1>11. PICK cnt \in Int : cnt = kept + ai - used
  OBVIOUS
<1>12. /\ cnt \in Nat /\ cnt = ti + ai - y /\ cnt * 8 - r \in Nat
       /\ 8 * (ti + ai) = b + (cnt * 8 - r) /\ ti + ai > 0
  BY <1>2, <1>3, <1>9, <1>11
<1>13. CutAt(ti, ai, b, ai, Kept(src, offs) + ai - Used(src, offs),
             (Kept(src, offs) + ai - Used(src, offs)) * 8 - (offs % 8))
  <2>1. CutAt(ti, ai, b, ai, cnt, cnt * 8 - r)
    BY <1>1, <1>2, <1>12 DEF CutAt
  <2>2. QED BY <1>3, <1>7, <1>8, <1>11, <2>1
<1>14. src >= -1
  BY <1>5
<1>15. Kept(src, offs) * 8 - (offs % 8) < 8
  BY <1>3, <1>8, <1>9
<1>16. QED BY <1>10, <1>13, <1>14, <1>15

\* What scratch_update makes of the stream u: which part of the input it copies where.
LEMMA UpdateUnfolds ==
  ASSUME NEW u, NEW in, NEW a, DOMAIN u = Fields,
         NEW offs, offs = StopBit(u, in, a), NEW src, src = offs \div 8 - InScratchBytes(u),
         NEW used, NEW cnt,
         used = IF Full(u, a) THEN Used(src, offs) ELSE u.avail_in,
         cnt = IF Full(u, a) THEN Kept(src, offs) ELSE Kept(src, offs) + u.avail_in - Used(src, offs),
         NEW c, c = scratch_update(u, in, a)
  PROVE  /\ Same(u, c, {"inp_data_offs", "scratch_bits", "scratch_ib", "area"})
         /\ c.inp_data_offs = used /\ c.scratch_ib = offs % 8 /\ c.scratch_bits = cnt * 8 - (offs % 8)
         /\ c.area = Assembled(u, in, ((u.tree_bits + u.hdr_ib + 63) \div 64) * 8, src, cnt)
<1> DEFINE Update(b, k) ==
      IF Full(u, a)
      THEN ScratchAfter(u, in, b, k, Used(k, b), Kept(k, b))
      ELSE ScratchAfter(u, in, b, k, u.avail_in, Kept(k, b) + u.avail_in - Used(k, b))
<1> DEFINE All == {Update(b, k) : b \in {StopBit(u, in, a)},
                                  k \in {StopBit(u, in, a) \div 8 - InScratchBytes(u)}}
<1>1. c = The(All)
  BY SMT DEF scratch_update
<1>2. c = Update(offs, src)
  <2> HIDE DEF Update
  <2>1. All = {Update(offs, src)}
    OBVIOUS
  <2> HIDE DEF All
  <2>2. QED BY <1>1, <2>1, TheOnly
<1>3. c = ScratchAfter(u, in, offs, src, used, cnt)
  BY <1>2
<1>4. PICK x : x = cnt * 8 - (offs % 8)
  OBVIOUS
<1>5. PICK y : y = offs % 8
  OBVIOUS
<1>6. PICK g : g = Assembled(u, in, ((u.tree_bits + u.hdr_ib + 63) \div 64) * 8, src, cnt)
  OBVIOUS
<1>7. c = [u EXCEPT !.inp_data_offs = used, !.scratch_bits = x, !.scratch_ib = y, !.area = g]
  BY <1>3, <1>4, <1>5, <1>6, Zenon DEF ScratchAfter
<1>8. /\ Same(u, c, {"inp_data_offs", "scratch_bits", "scratch_ib", "area"})
      /\ c.inp_data_offs = used /\ c.scratch_bits = x /\ c.scratch_ib = y /\ c.area = g
  BY <1>7 DEF Same, Fields
<1>9. QED BY <1>4, <1>5, <1>6, <1>8

\* setup_tree, except at the end of the body.
LEMMA SetupUnfolds ==
  ASSUME NEW v, NEW q, NEW a, ~a.final_eob
  PROVE  setup_tree(q, Request(v), a) = scratch_update(TreeAfter(v, q, a), Request(v), a)
<1> DEFINE Tree(t) == IF NewHeader(Request(v), a) THEN extract_new_tree(t, Request(v), a) ELSE t
           Trees == {Tree(t) : t \in {EobPassed(q, a)}}
           Update(u) == scratch_update(u, Request(v), a)
           All == {Update(u) : u \in Trees}
<1>1. setup_tree(q, Request(v), a) = The(All)
  BY SMT DEF setup_tree
<1>2. TreeAfter(v, q, a) = Tree(EobPassed(q, a))
  BY DEF TreeAfter
<1>3. Trees = {TreeAfter(v, q, a)}
  <2> HIDE DEF Tree
  <2>1. QED BY <1>2
<1>4. All = {Update(TreeAfter(v, q, a))}
  <2> HIDE DEF Trees, Update
  <2>1. QED BY <1>3
<1>5. The({Update(TreeAfter(v, q, a))}) = Update(TreeAfter(v, q, a))
  BY TheOnly
<1> HIDE DEF All
<1>6. QED BY <1>1, <1>4, <1>5

\* What is kept of the input and the scratch when processing stopped before token j.
LEMMA CutPlaced ==
  ASSUME file \in Files, NEW v, NEW q, NEW j, NEW a, Answered(file, v, q, j, a),
         j # v.tok, j <= NTok(file), NEW u, u = TreeAfter(v, q, a),
         NEW c, c = scratch_update(u, Request(v), a)
  PROVE  /\ Same(q, c, ScratchFields) /\ DOMAIN c = Fields /\ c.area \in [0..(AreaLen - 1) -> Int]
         /\ c.scratch_bits \in Nat /\ c.inp_data_offs \in Nat /\ c.inp_data_offs <= q.avail_in
         /\ q.total_in + c.inp_data_offs > 0
         /\ Placed(file, c, q.total_in + c.inp_data_offs)
<1>1. Sending(file, v) /\ j \in Stops(v) /\ Reported(file, v, j, a)
  BY ReportGives DEF Answered
<1>2. /\ v.tok \in 1..NTok(file) /\ NTok(file) \in Nat
      /\ Stream(file, v) /\ BitsAt(file, v, v.total_in) /\ BitsSound(file, v)
  BY <1>1, SendingGives
<1>3. /\ DOMAIN q = Fields /\ q.total_in = v.total_in /\ q.avail_in = v.avail_in
      /\ q.scratch_ib = v.scratch_ib /\ q.scratch_bits = v.scratch_bits /\ q.tok = j
      /\ q.avail_out = v.avail_out
      /\ Request(v).len \in Nat /\ Request(v).len <= TreeLen /\ TreeLen \in Nat /\ AreaLen = TreeLen + 8
      /\ Request(v).hdr_bits = v.tree_bits
  BY AnsweredGives
<1>4. PICK ti \in Nat, ai \in Nat : ti = v.total_in /\ ai = v.avail_in
  BY <1>1, SendingGives
<1>5. j \in 1..NTok(file) /\ j \in 1..(NTok(file) + 1) /\ v.tok \in 1..(NTok(file) + 1)
  <2>1. j \in v.tok..(NTok(file) + 1)
    BY <1>1, StopGives
  <2>2. QED BY <1>2, <2>1
<1>6. PICK o \in Nat, b \in Nat : o = Bit(file, v.tok) /\ b = Bit(file, j)
  BY <1>5, BitsGive
<1>7. o < b /\ b <= 8 * (ti + ai)
  BY <1>1, <1>4, <1>6, StopGives
<1>8. TreeOutcome(file, v, q, u, j)
  BY TreeOutcomeGives
<1>9. /\ Same(q, u, TreeFields) /\ u.area \in [0..(AreaLen - 1) -> Int]
      /\ u.hdr_ib \in Nat /\ u.tree_bits \in Nat
      /\ b < 8 * ti => u.area[Request(v).len - 1] = ti - 1
  BY <1>4, <1>6, <1>8 DEF TreeOutcome
<1>10. /\ DOMAIN u = Fields /\ u.total_in = ti /\ u.avail_in = ai /\ u.scratch_ib = v.scratch_ib
       /\ u.scratch_bits = v.scratch_bits /\ u.tok = j /\ u.avail_out = v.avail_out
       /\ InScratchBytes(u) = InScratchBytes(v)
  <2>1. /\ DOMAIN u = Fields /\ u.total_in = ti /\ u.avail_in = ai /\ u.scratch_ib = v.scratch_ib
        /\ u.scratch_bits = v.scratch_bits /\ u.tok = j /\ u.avail_out = v.avail_out
    BY <1>3, <1>4, <1>9 DEF Same, Fields, TreeFields
  <2>2. QED BY <2>1 DEF InScratchBytes
<1>11. PICK base \in Nat : /\ base = ((u.tree_bits + u.hdr_ib + 63) \div 64) * 8
                           /\ base = 8 * ((TreeIb(file, j) + TreeBits(file, j) + 63) \div 64)
                           /\ (u.hdr_ib + u.tree_bits + 7) \div 8 <= base
  <2>1. PICK x \in Nat : x = u.hdr_ib + u.tree_bits /\ x = u.tree_bits + u.hdr_ib
    BY <1>9
  <2>2. ((x + 63) \div 64) * 8 \in Nat /\ ((x + 63) \div 64) * 8 = 8 * ((x + 63) \div 64)
        /\ (x + 7) \div 8 <= 8 * ((x + 63) \div 64)
    BY <2>1
  <2>3. 8 * ((x + 63) \div 64) = 8 * ((TreeIb(file, j) + TreeBits(file, j) + 63) \div 64)
    BY <1>8, <2>1 DEF TreeOutcome
  <2>4. QED BY <2>1, <2>2, <2>3
<1>12. PICK sb \in Nat : /\ sb = InScratchBytes(v) /\ o \div 8 = ti - sb /\ o = 8 * (o \div 8) + v.scratch_ib
                         /\ sb <= Request(v).len
  <2>1. /\ Base(v) \in Nat /\ InScratchBytes(v) \in Nat
        /\ Bit(file, v.tok) = 8 * (Bit(file, v.tok) \div 8) + v.scratch_ib
        /\ Bit(file, v.tok) \div 8 = v.total_in - InScratchBytes(v)
        /\ Request(v).len = Base(v) + InScratchBytes(v)
    BY <1>2, RequestGives
  <2>2. InScratchBytes(v) <= Request(v).len
    BY <2>1
  <2>3. QED BY <1>4, <1>6, <2>1, <2>2
<1>13. b < 8 * ti => o \div 8 = ti - 1 /\ sb = 1
  BY <1>1, <1>4, <1>6, <1>12, ScratchEnd
<1>14. PICK offs \in Int : /\ offs = StopBit(u, Request(v), a)
                           /\ offs % 8 = b % 8 /\ offs \div 8 - sb = b \div 8 - ti
  <2>1. PICK tb \in Nat, ib \in Int : tb = v.tree_bits /\ ib = v.scratch_ib
    <3>1. v.tree_bits \in Nat /\ v.scratch_ib \in 0..7
      BY <1>2 DEF Stream
    <3>2. QED BY <3>1
  <2>2. PICK pr \in Int : pr = a.processed /\ pr = tb + b - o
    <3>1. b = 8 * HeaderLen(file) + file.at[j] /\ o = 8 * HeaderLen(file) + file.at[v.tok]
          /\ file.at[j] \in Nat /\ file.at[v.tok] \in Nat /\ HeaderLen(file) \in Nat
      BY <1>5, <1>6, BitsGive, NumbersGive, LengthsGive
    <3>2. a.processed = tb + file.at[j] - file.at[v.tok]
      BY <1>1, <2>1 DEF Reported
    <3>3. QED BY <1>6, <2>1, <3>1, <3>2
  <2>3. StopBit(u, Request(v), a) = pr - tb + ib
    BY <1>3, <1>10, <2>1, <2>2 DEF StopBit
  <2>4. PICK y \in Nat : y = o \div 8
    BY <1>6
  <2>5. o = 8 * y + ib /\ y = ti - sb
    BY <1>12, <2>1, <2>4
  <2>6. pr - tb + ib = b - 8 * y
    BY <1>6, <2>1, <2>2, <2>4, <2>5
  <2>7. PICK d \in Int : d = b - 8 * y
    BY <1>6, <2>4
  <2>8. d % 8 = b % 8 /\ d \div 8 = b \div 8 - y
    BY <1>6, <2>4, <2>7
  <2>9. d \div 8 - sb = b \div 8 - ti
    <3>1. PICK z \in Nat : z = b \div 8
      BY <1>6
    <3>2. d \div 8 = z - y /\ y = ti - sb
      BY <2>5, <2>8, <3>1
    <3>3. QED BY <1>4, <1>12, <2>4, <3>1, <3>2
  <2>10. QED BY <2>3, <2>6, <2>7, <2>8, <2>9
<1>15. PICK src \in Int : src = offs \div 8 - InScratchBytes(u) /\ src = b \div 8 - ti
  BY <1>4, <1>6, <1>10, <1>12, <1>14
<1>16. PICK used : used = IF Full(u, a) THEN Used(src, offs) ELSE u.avail_in
  OBVIOUS
<1>17. PICK cnt : cnt = IF Full(u, a) THEN Kept(src, offs) ELSE Kept(src, offs) + u.avail_in - Used(src, offs)
  OBVIOUS
<1>18. PICK bits : bits = cnt * 8 - (offs % 8)
  OBVIOUS
<1>19. /\ src >= -1
       /\ CutAt(ti, ai, b, Used(src, offs), Kept(src, offs), Kept(src, offs) * 8 - (offs % 8))
       /\ Kept(src, offs) * 8 - (offs % 8) < 8
       /\ CutAt(ti, ai, b, ai, Kept(src, offs) + ai - Used(src, offs),
                (Kept(src, offs) + ai - Used(src, offs)) * 8 - (offs % 8))
  <2>1. b < 8 * ti => o \div 8 = ti - 1
    BY <1>13
  <2>2. offs % 8 = b % 8
    BY <1>14
  <2>3. src = b \div 8 - ti
    BY <1>15
  <2>4. ti \in Nat /\ ai \in Nat /\ o \in Nat /\ b \in Nat /\ offs \in Int /\ src \in Int
    BY <1>4, <1>6, <1>14, <1>15
  <2>5. QED BY <1>7, <2>1, <2>2, <2>3, <2>4, CutNumbers
<1>20. CutAt(ti, ai, b, used, cnt, bits) /\ (Full(u, a) => bits < 8)
  BY <1>10, <1>16, <1>17, <1>18, <1>19
<1>21. /\ used \in Nat /\ used <= ai /\ cnt \in Nat /\ bits \in Nat /\ ti + used > 0
       /\ cnt = ti + used - b \div 8 /\ 8 * (ti + used) = b + bits
  BY <1>20 DEF CutAt
<1>22. PICK n \in Nat : n = ti + used
  BY <1>4, <1>21
<1>23. bits < 8 \/ 8 * n < Bit(file, j + 1)
  <2>1. CASE Full(u, a)
    BY <1>20, <2>1
  <2>2. CASE ~Full(u, a)
    <3>1. used = ai
      BY <1>10, <1>16, <2>2
    <3>2. OutOf(v, j) < v.avail_out
      <4>1. a.outp_returned \in Nat /\ (OutOf(v, j) >= v.avail_out => a.outp_returned = v.avail_out)
        BY <1>1 DEF Reported
      <4>2. ~(v.avail_out <= a.outp_returned)
        BY <1>10, <2>2 DEF Full
      <4>3. OutOf(v, j) \in Int /\ v.avail_out \in Nat
        <5>1. file.outAt[j] \in Nat /\ file.outAt[v.tok] \in Nat
          BY <1>5, NumbersGive
        <5>2. QED BY <1>1, <5>1, SendingGives DEF OutOf
      <4>4. QED BY <4>1, <4>2, <4>3
    <3>3. Bit(file, j + 1) > 8 * (v.total_in + v.avail_in)
      BY <1>1, <3>2, StopGives
    <3>4. Bit(file, j + 1) \in Nat
      <4>1. j + 1 \in 1..(NTok(file) + 1)
        BY <1>2, <1>5
      <4>2. QED BY <4>1, BitsGive
    <3>5. QED BY <1>4, <1>22, <3>1, <3>3, <3>4
  <2>3. QED BY <2>1, <2>2
<1>24. /\ Same(u, c, {"inp_data_offs", "scratch_bits", "scratch_ib", "area"})
       /\ c.inp_data_offs = used /\ c.scratch_ib = offs % 8 /\ c.scratch_bits = bits
       /\ c.area = Assembled(u, Request(v), base, src, cnt)
  BY <1>10, <1>11, <1>14, <1>15, <1>16, <1>17, <1>18, UpdateUnfolds
<1>25. file.body[j].bits > 0
  BY <1>1, StopGives
<1>26. base + cnt <= TreeLen
  <2>1. 8 * cnt = (b % 8) + bits
    <3>1. PICK r \in 0..7 : r = b % 8
      BY <1>6
    <3>2. bits = cnt * 8 - r
      BY <1>14, <1>18, <3>1
    <3>3. QED BY <1>21, <3>1, <3>2
  <2>2. 8 * n = Bit(file, j) + bits
    BY <1>6, <1>21, <1>22
  <2>3. 8 * cnt = (Bit(file, j) % 8) + bits
    BY <1>6, <2>1
  <2>4. 8 * ((TreeIb(file, j) + TreeBits(file, j) + 63) \div 64) + cnt <= TreeLen
    BY <1>5, <1>21, <1>22, <1>23, <1>25, <2>2, <2>3, RoomGives
  <2>5. QED BY <1>11, <2>4
<1>27. Copyable(u, Request(v), base, src, cnt)
  <2>1. PICK in : in = Request(v)
    OBVIOUS
  <2>2. src < 0 => src = -1 /\ sb = 1 /\ b < 8 * ti
    <3>1. ASSUME src < 0
          PROVE  b < 8 * ti
      <4>1. PICK y \in Nat : y = b \div 8
        BY <1>6
      <4>2. y < ti
        BY <1>4, <1>15, <3>1, <4>1
      <4>3. QED BY <1>4, <1>6, <4>1, <4>2
    <3>2. QED BY <1>13, <1>15, <1>19, <3>1
  <2>3. -src <= cnt
    <3>1. PICK y \in Nat : y = b \div 8
      BY <1>6
    <3>2. src = y - ti /\ cnt = ti + used - y
      BY <1>15, <1>21, <3>1
    <3>3. QED BY <1>4, <1>21, <3>1, <3>2
  <2>4. ASSUME NEW k \in 0..(cnt - 1), k < -src
        PROVE  u.area[in.len + src + k] = u.total_in + src + k
    <3>1. src = -1 /\ k = 0 /\ b < 8 * ti
      BY <1>15, <2>2, <2>4
    <3>2. in.len + src + k = Request(v).len - 1 /\ u.total_in + src + k = ti - 1
      BY <1>3, <1>4, <1>10, <2>1, <3>1
    <3>3. QED BY <1>9, <3>1, <3>2
  <2>5. in.len \in Nat /\ in.len <= AreaLen /\ -src <= in.len
    BY <1>3, <1>12, <1>15, <2>1, <2>2
  <2>6. base + cnt <= AreaLen
    BY <1>3, <1>11, <1>21, <1>26
  <2>7. u.total_in \in Nat
    BY <1>4, <1>10
  <2>8. Copyable(u, in, base, src, cnt)
    BY <1>9, <1>11, <1>15, <1>21, <2>3, <2>4, <2>5, <2>6, <2>7 DEF Copyable
  <2>9. QED BY <2>1, <2>8
<1>28. Copied(u, c.area, base, src, cnt) /\ c.area \in [0..(AreaLen - 1) -> Int]
  BY <1>24, <1>27, AssembledGives
<1>29. /\ DOMAIN c = Fields /\ c.tok = j /\ Same(q, c, ScratchFields)
       /\ c.tree_bits = u.tree_bits /\ c.hdr_ib = u.hdr_ib /\ c.pad_bits = u.pad_bits
  <2>1. /\ DOMAIN c = Fields /\ c.tok = j
        /\ c.tree_bits = u.tree_bits /\ c.hdr_ib = u.hdr_ib /\ c.pad_bits = u.pad_bits
    BY <1>10, <1>24 DEF Same, Fields
  <2>2. Same(q, c, ScratchFields)
    BY <1>9, <1>24 DEF Same, TreeFields, ScratchFields, Fields
  <2>3. QED BY <2>1, <2>2
<1>30. InScratchBytes(c) = cnt
  <2>1. PICK r \in 0..7 : r = offs % 8
    BY <1>6, <1>14
  <2>2. bits = cnt * 8 - r
    BY <1>18, <2>1
  <2>3. InScratchBytes(c) = (bits + r) \div 8
    BY <1>24, <2>1 DEF InScratchBytes
  <2>4. bits + r = 8 * cnt
    BY <1>21, <2>1, <2>2
  <2>5. QED BY <1>21, <2>3, <2>4
<1>31. ASSUME NEW k \in 0..(cnt - 1)
       PROVE  c.area[base + k] = b \div 8 + k
  <2>1. c.area[base + k] = u.total_in + src + k
    BY <1>28 DEF Copied
  <2>2. PICK y \in Nat : y = b \div 8
    BY <1>6
  <2>3. u.total_in + src + k = y + k
    BY <1>4, <1>10, <1>15, <2>2
  <2>4. QED BY <2>1, <2>2, <2>3
<1>32. ASSUME ~StoredIn(file, j)
       PROVE  /\ c.tree_bits = TreeBits(file, j) /\ c.hdr_ib = TreeIb(file, j)
              /\ c.pad_bits = Padding(c.hdr_ib + c.tree_bits)
              /\ file.hdrOf[j] # 0 =>
                   \A k \in 0..((c.hdr_ib + c.tree_bits + 7) \div 8 - 1) :
                      c.area[k] = Bit(file, file.hdrOf[j]) \div 8 + k
  <2>1. /\ u.tree_bits = TreeBits(file, j) /\ u.hdr_ib = TreeIb(file, j)
        /\ u.pad_bits = Padding(u.hdr_ib + u.tree_bits)
        /\ file.hdrOf[j] # 0 =>
             \A k \in 0..((u.hdr_ib + u.tree_bits + 7) \div 8 - 1) :
                u.area[k] = Bit(file, file.hdrOf[j]) \div 8 + k
    BY <1>8, <1>32 DEF TreeOutcome
  <2>2. ASSUME NEW k \in 0..((u.hdr_ib + u.tree_bits + 7) \div 8 - 1)
        PROVE  c.area[k] = u.area[k]
    <3>1. PICK x \in Int : x = (u.hdr_ib + u.tree_bits + 7) \div 8
      BY <1>9
    <3>2. k \in 0..(AreaLen - 1) /\ k < base
      BY <1>3, <1>11, <1>21, <1>26, <2>2, <3>1
    <3>3. QED BY <1>28, <3>2 DEF Copied
  <2>3. QED BY <1>29, <2>1, <2>2
<1>33. Placed(file, c, n)
  <2>1. c.tok \in 1..NTok(file) /\ file.body[c.tok].bits > 0
    BY <1>5, <1>25, <1>29
  <2>2. 8 * n = Bit(file, c.tok) + c.scratch_bits /\ c.scratch_ib = Bit(file, c.tok) % 8
    BY <1>6, <1>14, <1>21, <1>22, <1>24, <1>29
  <2>3. c.scratch_bits < 8 \/ 8 * n < Bit(file, c.tok + 1)
    BY <1>23, <1>24, <1>29
  <2>4. \A k \in 0..(InScratchBytes(c) - 1) :
          c.area[8 * ((TreeIb(file, c.tok) + TreeBits(file, c.tok) + 63) \div 64) + k]
             = Bit(file, c.tok) \div 8 + k
    BY <1>6, <1>11, <1>29, <1>30, <1>31
  <2>5. QED BY <1>29, <1>32, <2>1, <2>2, <2>3, <2>4 DEF Placed
<1>34. q.total_in + c.inp_data_offs = n
  BY <1>3, <1>4, <1>22, <1>24
<1>35. QED BY <1>3, <1>4, <1>21, <1>22, <1>24, <1>28, <1>29, <1>33, <1>34

\* What is put together when processing stopped before token j, in the body.
LEMMA CutGives ==
  ASSUME file \in Files, NEW v, NEW q, NEW j, NEW a, Answered(file, v, q, j, a),
         j # v.tok, j <= NTok(file),
         NEW t, t = CopyblockHeader(setup_tree(q, Request(v), a), a)
  PROVE  ScratchOutcome(file, q, t)
<1>1. Sending(file, v) /\ j \in Stops(v) /\ Reported(file, v, j, a)
  BY ReportGives DEF Answered
<1>2. q.tok = j /\ q.total_in = v.total_in /\ q.avail_in = v.avail_in
      /\ v.total_in \in Nat /\ v.avail_in \in Nat /\ NTok(file) \in Nat
  BY <1>1, AnsweredGives, SendingGives
<1>3. PICK c : c = setup_tree(q, Request(v), a)
  OBVIOUS
<1>4. c = scratch_update(TreeAfter(v, q, a), Request(v), a)
  <2>1. ~a.final_eob
    <3>1. a.final_eob = (j = NTok(file) + 1)
      BY <1>1 DEF Reported
    <3>2. j \in 1..(NTok(file) + 1)
      BY <1>1, StopGives
    <3>3. ~(j = NTok(file) + 1)
      BY <1>2, <3>2
    <3>4. QED BY <3>1, <3>3, Zenon
  <2>2. QED BY <1>3, <2>1, SetupUnfolds
<1>5. /\ Same(q, c, ScratchFields) /\ DOMAIN c = Fields /\ c.area \in [0..(AreaLen - 1) -> Int]
      /\ c.scratch_bits \in Nat /\ c.inp_data_offs \in Nat /\ c.inp_data_offs <= q.avail_in
      /\ q.total_in + c.inp_data_offs > 0
      /\ Placed(file, c, q.total_in + c.inp_data_offs)
  BY <1>4, CutPlaced
<1>6. PICK n \in Nat : n = q.total_in + c.inp_data_offs
  BY <1>2, <1>5
<1>7. c.tok = j
  BY <1>2, <1>5 DEF Same, Fields, ScratchFields
<1>8. /\ Same(c, t, {"area", "hdr_ib", "tree_bits", "pad_bits"})
      /\ t.area \in [0..(AreaLen - 1) -> Int] /\ Continues(file, t, n)
  <2>1. a.out_hdr_bits = TreeBits(file, c.tok)
        /\ a.copyblock_len = IF StoredIn(file, c.tok) THEN RawLeft(file, c.tok) ELSE 0
    BY <1>1, <1>7 DEF Reported
  <2>2. Placed(file, c, n)
    BY <1>5, <1>6
  <2>3. t = CopyblockHeader(c, a)
    BY <1>3
  <2>4. QED BY <1>5, <1>6, <2>1, <2>2, <2>3, PlacedGives
<1>9. Same(q, t, ScratchFields) /\ t.scratch_bits = c.scratch_bits /\ t.inp_data_offs = c.inp_data_offs
  BY <1>5, <1>8 DEF Same, Fields, ScratchFields
<1>10. q.tok \in 1..NTok(file)
  <2>1. j \in 1..(NTok(file) + 1)
    BY <1>1, StopGives
  <2>2. QED BY <1>2, <2>1
<1>11. /\ t.scratch_bits \in Nat /\ t.inp_data_offs \in Nat /\ t.inp_data_offs <= q.avail_in
       /\ n = q.total_in + t.inp_data_offs /\ n > 0 /\ q.total_in \in Nat /\ q.avail_in \in Nat
  BY <1>2, <1>5, <1>6, <1>9
<1>12. QED BY <1>8, <1>9, <1>10, <1>11, OutcomeGives

\* What post_scratch_upd makes of the stream, wherever the accelerator stopped.
LEMMA PostGives ==
  ASSUME file \in Files, NEW v, NEW q, NEW j, NEW a, Answered(file, v, q, j, a)
  PROVE  ScratchOutcome(file, q, post_scratch_upd(q, Request(v), a)) /\ ~TreeOverrun(v, Request(v), a)
<1>1. Sending(file, v) /\ j \in Stops(v) /\ Reported(file, v, j, a)
  BY ReportGives DEF Answered
<1> DEFINE Next0 == IF a.processed = 0 THEN Collected(q, Request(v)) ELSE setup_tree(q, Request(v), a)
           Copy(t) == CopyblockHeader(t, a)
           All == {Copy(t) : t \in {Next0}}
<1>2. post_scratch_upd(q, Request(v), a) = Copy(Next0)
  <2>1. post_scratch_upd(q, Request(v), a) = The(All)
    BY SMT DEF post_scratch_upd
  <2>2. All = {Copy(Next0)}
    <3> HIDE DEF Next0, Copy
    <3>1. QED OBVIOUS
  <2>3. PICK c : c = Copy(Next0)
    OBVIOUS
  <2>4. The({c}) = c
    BY TheOnly
  <2> HIDE DEF All, Copy, Next0
  <2>5. QED BY <2>1, <2>2, <2>3, <2>4
<1>3. CASE j = v.tok
  <2>1. a.processed = 0
    BY <1>1, <1>3 DEF Reported
  <2>2. ScratchOutcome(file, q, CopyblockHeader(Collected(q, Request(v)), a))
        /\ v.avail_in <= TreeLen - Request(v).len
    BY <1>3, CollectedGives
  <2>3. ~TreeOverrun(v, Request(v), a)
    <3>1. v.avail_in \in Nat /\ TreeLen \in Nat /\ Request(v).len \in Nat
      BY <1>1, SendingGives, AnsweredGives
    <3>2. QED BY <2>2, <3>1 DEF TreeOverrun
  <2>4. QED BY <1>2, <2>1, <2>2, <2>3
<1>4. CASE j # v.tok
  <2>1. PICK o \in Nat, b \in Nat : /\ o = file.at[v.tok] /\ b = file.at[j] /\ o < b
    <3>1. Bit(file, v.tok) < Bit(file, j) /\ j \in 1..(NTok(file) + 1)
      BY <1>1, <1>4, StopGives
    <3>2. v.tok \in 1..(NTok(file) + 1)
      BY <1>1, SendingGives
    <3>3. /\ Bit(file, v.tok) = 8 * HeaderLen(file) + file.at[v.tok]
          /\ Bit(file, j) = 8 * HeaderLen(file) + file.at[j]
          /\ file.at[v.tok] \in Nat /\ file.at[j] \in Nat /\ HeaderLen(file) \in Nat
      BY <3>1, <3>2, BitsGive, NumbersGive, LengthsGive
    <3>4. QED BY <3>1, <3>3
  <2>2. a.processed # 0
    <3>1. a.processed = v.tree_bits + b - o
      BY <1>1, <1>4, <2>1 DEF Reported
    <3>2. v.tree_bits \in Nat
      BY <1>1, SendingGives DEF Stream
    <3>3. QED BY <2>1, <3>1, <3>2
  <2>3. ~TreeOverrun(v, Request(v), a)
    BY <2>2 DEF TreeOverrun
  <2>4. ScratchOutcome(file, q, CopyblockHeader(setup_tree(q, Request(v), a), a))
    <3>1. j \in 1..(NTok(file) + 1) /\ NTok(file) \in Nat
      BY AnsweredGives
    <3>2. CASE j <= NTok(file)
      BY <1>4, <3>2, CutGives
    <3>3. CASE j = NTok(file) + 1
      BY <3>3, FinalGives
    <3>4. QED BY <3>1, <3>2, <3>3
  <2>5. QED BY <1>2, <2>2, <2>3, <2>4
<1>5. QED BY <1>3, <1>4

-----------------------------------------------------------------------------
(* A request: the stream behind it                                          *)

\* The stream u behind the answer a of a request of v that stopped before token j, when q
\* is the stream with the answer and t has the scratch for the next request.
Behind(f, v, flush, j, a, q, t, u) ==
  /\ Sending(f, v) /\ j \in Stops(v) /\ a = Report(v, Request(v), j)
  /\ q = get_inflate_asv(v, flush, a)
  /\ t = post_scratch_upd(q, Request(v), a)
  /\ u = Advanced(t, a)

\* What it keeps of v, and what it has of the answer and of t.
LEMMA BehindGives ==
  ASSUME file \in Files, NEW v, NEW flush, NEW j, NEW a, NEW q, NEW t, NEW u,
         Behind(file, v, flush, j, a, q, t, u)
  PROVE  /\ Answered(file, v, q, j, a) /\ Reported(file, v, j, a) /\ ~TreeOverrun(v, Request(v), a)
         /\ Same(v, u, AsvFields \cup ScratchFields \cup {"avail_out", "total_out", "avail_in", "total_in"})
         /\ Same(t, u, {"avail_out", "total_out", "avail_in", "total_in"})
         /\ t.avail_in = v.avail_in /\ t.inp_data_offs \in Nat /\ t.inp_data_offs <= v.avail_in
         /\ u.avail_out = v.avail_out - a.outp_returned /\ u.total_out = v.total_out + a.outp_returned
         /\ u.avail_in = v.avail_in - t.inp_data_offs /\ u.total_in = v.total_in + t.inp_data_offs
         /\ u.wsp_page = 1 - v.wsp_page /\ u.wsp_page \in {0, 1} /\ u.dict \in [{0, 1} -> Int]
         /\ u.dict_len \in Nat /\ u.obytes_in_dict = a.obytes_in_dict
         /\ u.proc_bits = a.processed % 8 /\ u.eob_seen = (j = NTok(file) + 1) /\ u.tok = j
         /\ u.dict = q.dict /\ u.wsp_page = q.wsp_page /\ u.dict_len = q.dict_len
         /\ Saves(v, flush, a) =>
              /\ q.dict[q.wsp_page] = IF file.outAt[j] = 0 THEN v.dict[v.wsp_page] ELSE file.outAt[j]
              /\ q.dict_len = IF v.havedict THEN file.outAt[j] + 1 ELSE file.outAt[j]
         /\ ~Saves(v, flush, a) => q.dict_len = 0
         /\ ScratchOutcome(file, q, t) /\ q.tok = j /\ q.total_in = v.total_in
         /\ j \in 1..(NTok(file) + 1) /\ file.outAt[j] \in Nat
<1>1. /\ Sending(file, v) /\ j \in Stops(v) /\ a = Report(v, Request(v), j)
      /\ q = get_inflate_asv(v, flush, a) /\ t = post_scratch_upd(q, Request(v), a)
      /\ u = Advanced(t, a)
  BY DEF Behind
<1>2. Reported(file, v, j, a)
  BY <1>1, ReportGives
<1>3. a.to = j /\ a.final_eob = (j = NTok(file) + 1)
  BY <1>2 DEF Reported
<1>4. j \in 1..(NTok(file) + 1)
  BY <1>1, StopGives
<1>5. file.outAt[j] \in Nat
  BY <1>4, NumbersGive
<1>6. /\ DOMAIN v = Fields /\ v.wsp_page \in {0, 1} /\ v.dict \in [{0, 1} -> Int] /\ v.havedict \in BOOLEAN
  BY <1>1, SendingGives DEF Stream
<1>7. /\ Same(v, q, AsvFields)
      /\ q.wsp_page = 1 - v.wsp_page /\ q.wsp_page \in {0, 1} /\ q.obytes_in_dict = a.obytes_in_dict
      /\ q.proc_bits = a.processed % 8 /\ q.eob_seen = a.final_eob /\ q.tok = a.to
      /\ q.dict \in [{0, 1} -> Int] /\ q.dict_len \in Nat
      /\ Saves(v, flush, a) =>
           /\ q.dict[q.wsp_page] = IF file.outAt[a.to] = 0 THEN v.dict[v.wsp_page] ELSE file.outAt[a.to]
           /\ q.dict_len = IF v.havedict THEN file.outAt[a.to] + 1 ELSE file.outAt[a.to]
      /\ ~Saves(v, flush, a) => q.dict_len = 0
  BY <1>1, <1>3, <1>5, <1>6, AsvGives
<1>8. Answered(file, v, q, j, a)
  BY <1>1, <1>3, <1>7 DEF Answered
<1>9. ScratchOutcome(file, q, t) /\ ~TreeOverrun(v, Request(v), a)
  BY <1>1, <1>8, PostGives
<1>10. /\ Same(q, t, ScratchFields) /\ DOMAIN t = Fields /\ t.inp_data_offs \in Nat
       /\ t.inp_data_offs <= q.avail_in
  BY <1>9 DEF ScratchOutcome, Same
<1>11. /\ Same(t, u, {"avail_out", "total_out", "avail_in", "total_in"})
       /\ u.avail_out = t.avail_out - a.outp_returned /\ u.total_out = t.total_out + a.outp_returned
       /\ u.avail_in = t.avail_in - t.inp_data_offs /\ u.total_in = t.total_in + t.inp_data_offs
  BY <1>1, <1>10 DEF Advanced, Same, Fields
<1>12. Same(v, u, AsvFields \cup ScratchFields \cup {"avail_out", "total_out", "avail_in", "total_in"})
  BY <1>7, <1>10, <1>11 DEF Same
<1>13. /\ t.avail_in = v.avail_in /\ t.avail_out = v.avail_out /\ t.total_in = v.total_in
       /\ t.total_out = v.total_out /\ q.avail_in = v.avail_in /\ q.total_in = v.total_in
  BY <1>7, <1>10 DEF Same, Fields, AsvFields, ScratchFields
<1>14. /\ u.wsp_page = q.wsp_page /\ u.dict = q.dict /\ u.dict_len = q.dict_len
       /\ u.obytes_in_dict = q.obytes_in_dict /\ u.proc_bits = q.proc_bits
       /\ u.eob_seen = q.eob_seen /\ u.tok = q.tok
  BY <1>10, <1>11 DEF Same, Fields, ScratchFields
<1>15. QED BY <1>2, <1>3, <1>4, <1>5, <1>7, <1>8, <1>9, <1>10, <1>11, <1>12, <1>13, <1>14

LEMMA BehindSound ==
  ASSUME file \in Files, NEW v, NEW flush, NEW j, NEW a, NEW q, NEW t, NEW u,
         Behind(file, v, flush, j, a, q, t, u)
  PROVE  Sound(file, u)
<1> DEFINE f == file
<1>1. /\ Sending(f, v) /\ Stream(f, v) /\ Parsed(f, v) /\ ~v.eob_seen /\ v.obytes_in_dict = 0
      /\ HeaderSound(f, v) /\ OutSound(f, v) /\ EndSound(f, v)
  BY DEF Behind, Sending, Sound
<1>2. /\ Answered(f, v, q, j, a) /\ Reported(f, v, j, a) /\ ~TreeOverrun(v, Request(v), a)
      /\ Same(v, u, AsvFields \cup ScratchFields \cup {"avail_out", "total_out", "avail_in", "total_in"})
      /\ Same(t, u, {"avail_out", "total_out", "avail_in", "total_in"})
      /\ t.avail_in = v.avail_in /\ t.inp_data_offs \in Nat /\ t.inp_data_offs <= v.avail_in
      /\ u.avail_out = v.avail_out - a.outp_returned /\ u.total_out = v.total_out + a.outp_returned
      /\ u.avail_in = v.avail_in - t.inp_data_offs /\ u.total_in = v.total_in + t.inp_data_offs
      /\ u.wsp_page = 1 - v.wsp_page /\ u.wsp_page \in {0, 1} /\ u.dict \in [{0, 1} -> Int]
      /\ u.dict_len \in Nat /\ u.obytes_in_dict = a.obytes_in_dict
      /\ u.proc_bits = a.processed % 8 /\ u.eob_seen = (j = NTok(f) + 1) /\ u.tok = j
      /\ u.dict = q.dict /\ u.wsp_page = q.wsp_page /\ u.dict_len = q.dict_len
      /\ Saves(v, flush, a) =>
           /\ q.dict[q.wsp_page] = IF f.outAt[j] = 0 THEN v.dict[v.wsp_page] ELSE f.outAt[j]
           /\ q.dict_len = IF v.havedict THEN f.outAt[j] + 1 ELSE f.outAt[j]
      /\ ~Saves(v, flush, a) => q.dict_len = 0
      /\ ScratchOutcome(f, q, t) /\ q.tok = j /\ q.total_in = v.total_in
      /\ j \in 1..(NTok(f) + 1) /\ f.outAt[j] \in Nat
  BY BehindGives
<1>3. /\ u.header_state = v.header_state /\ u.prefx_len = v.prefx_len /\ u.prefx_idx = v.prefx_idx
      /\ u.xlen = v.xlen /\ u.gzip_head = v.gzip_head /\ u.gzip_header_idx = v.gzip_header_idx
      /\ u.block_req = v.block_req /\ u.saved = v.saved /\ u.postfx_idx = v.postfx_idx
      /\ u.havedict = v.havedict /\ DOMAIN u = Fields
  BY <1>2 DEF Same, Fields, AsvFields, ScratchFields
<1>4. /\ u.area = t.area /\ u.tree_bits = t.tree_bits /\ u.pad_bits = t.pad_bits /\ u.hdr_ib = t.hdr_ib
      /\ u.scratch_ib = t.scratch_ib /\ u.scratch_bits = t.scratch_bits
      /\ u.inp_data_offs = t.inp_data_offs /\ u.tok = t.tok
  BY <1>2 DEF Same, Fields
<1>5. PICK ao \in Nat, oo \in Nat, w \in Nat : /\ ao = a.outp_returned /\ oo = a.obytes_in_dict
                                               /\ w = f.outAt[v.tok] /\ ao <= v.avail_out
                                               /\ w + ao + oo = f.outAt[j]
  <2>1. v.tok \in 1..NTok(f) /\ NTok(f) \in Nat
    BY <1>1, SendingGives
  <2>2. v.tok \in 1..(NTok(f) + 1)
    BY <2>1
  <2>3. f.outAt[v.tok] \in Nat
    BY <2>2, NumbersGive
  <2>4. /\ a.outp_returned \in Nat /\ a.obytes_in_dict \in Nat /\ a.outp_returned <= v.avail_out
        /\ a.outp_returned + a.obytes_in_dict = f.outAt[j] - f.outAt[v.tok]
    BY <1>2 DEF Reported, OutOf
  <2>5. PICK ao \in Nat, oo \in Nat, w \in Nat :
             ao = a.outp_returned /\ oo = a.obytes_in_dict /\ w = f.outAt[v.tok]
    BY <2>3, <2>4
  <2>6. f.outAt[j] \in Nat
    BY <1>2
  <2>7. ao <= v.avail_out /\ w + ao + oo = f.outAt[j]
    BY <2>4, <2>5, <2>6
  <2>8. QED BY <2>5, <2>7
<1>6. v.total_out = w /\ v.avail_in \in Nat /\ v.total_in \in Nat /\ v.avail_out \in Nat
      /\ v.total_in + v.avail_in <= FileLen(f) /\ FileLen(f) \in Nat
  <2>1. v.total_out + v.obytes_in_dict = f.outAt[v.tok]
    BY <1>1 DEF OutSound
  <2>2. v.total_out \in Nat
    BY <1>1, OutGives
  <2>3. v.avail_in \in Nat /\ v.total_in \in Nat /\ v.avail_out \in Nat
        /\ v.total_in + v.avail_in <= FileLen(f)
    BY <1>1, SendingGives
  <2>4. QED BY <1>1, <1>5, <2>1, <2>2, <2>3, LengthsGive
<1>7. /\ u.avail_in \in Nat /\ u.total_in \in Nat /\ u.total_in >= v.total_in
      /\ u.total_in + u.avail_in <= FileLen(f) /\ u.avail_out \in Nat
      /\ u.total_out = w + ao /\ u.obytes_in_dict = oo
  BY <1>2, <1>5, <1>6
<1>8. f.outAt[j] <= OutLen(f) /\ OutLen(f) \in Nat
  <2>1. NTok(f) + 1 \in 1..(NTok(f) + 1) /\ j <= NTok(f) + 1
    BY <1>2, FileGives
  <2>2. QED BY <1>2, <2>1, NumbersGrow, LengthsGive DEF OutLen
<1>9. u.proc_bits \in 0..7
  <2>1. PICK p \in Nat : p = a.processed
    <3>1. v.tok \in 1..(NTok(f) + 1) /\ v.tree_bits \in Nat
      BY <1>1 DEF Stream
    <3>2. f.at[v.tok] \in Nat /\ f.at[j] \in Nat
      BY <1>2, <3>1, NumbersGive
    <3>3. j # v.tok => f.at[v.tok] <= f.at[j]
      <4>1. j \in v.tok..(NTok(f) + 1)
        BY <1>1 DEF Behind, Stops
      <4>2. v.tok <= j
        BY <3>1, <4>1
      <4>3. QED BY <1>2, <3>1, <4>2, NumbersGrow
    <3>4. a.processed = IF j = v.tok THEN 0 ELSE v.tree_bits + f.at[j] - f.at[v.tok]
      BY <1>2 DEF Reported
    <3>5. QED BY <3>1, <3>2, <3>3, <3>4
  <2>2. u.proc_bits = p % 8
    BY <1>2, <2>1
  <2>3. QED BY <2>2
<1>10. Request(u) = Request(t) /\ InScratchBytes(u) = InScratchBytes(t) /\ Base(u) = Base(t)
  BY <1>4 DEF Request, InScratchBytes, Base
<1>11. Stream(f, u)
  <2>1. /\ t.area \in [0..(AreaLen - 1) -> Int]
        /\ t.hdr_ib \in 0..7 /\ t.tree_bits \in Nat /\ t.pad_bits \in 0..63 /\ t.scratch_ib \in 0..7
        /\ t.scratch_bits \in Nat /\ t.inp_data_offs \in Nat /\ Request(t).len <= TreeLen
    BY <1>2 DEF ScratchOutcome
  <2>2. /\ v.header_state \in States /\ v.prefx_len \in BOOLEAN /\ v.prefx_idx \in Nat
        /\ v.xlen \in 0..(2^XlenBits - 1) /\ v.gzip_header_idx \in Nat
        /\ v.gzip_head \in HeaderBuffers \cup {NoBuffers}
        /\ v.saved = [extra |-> v.saved.extra, name |-> v.saved.name, comment |-> v.saved.comment]
        /\ v.gzip_head = NoBuffers => v.saved = Unsaved
        /\ f.format # "GZIP" => v.gzip_head = NoBuffers
        /\ v.block_req \in BOOLEAN /\ v.postfx_idx \in 0..TrailerLen(f) /\ v.havedict \in BOOLEAN
    BY <1>1 DEF Stream
  <2>3. u.total_out \in 0..OutLen(f)
    BY <1>5, <1>7, <1>8
  <2>4. u.obytes_in_dict \in Nat /\ u.eob_seen \in BOOLEAN
    BY <1>2, <1>7
  <2>5. QED BY <1>2, <1>3, <1>4, <1>7, <1>9, <1>10, <2>1, <2>2, <2>3, <2>4 DEF Stream
<1>12. Parsed(f, u)
  BY <1>1, <1>3 DEF Parsed
<1>13. HeaderSound(f, u)
  <2>1. u.header_state = "DONE" \/ f.format = "DEFL"
    BY <1>12 DEF Parsed
  <2>2. f.format # "DEFL" => u.total_in >= HeaderLen(f)
    <3>1. f.format # "DEFL" => v.total_in >= HeaderLen(f)
      BY <1>1, <1>3, <2>1 DEF HeaderSound
    <3>2. HeaderLen(f) \in Nat
      BY LengthsGive
    <3>3. QED BY <1>6, <1>7, <3>1, <3>2
  <2>3. QED BY <1>1, <1>3, <2>1, <2>2 DEF HeaderSound, XlenAt
<1>14. BodySound(f, u)
  <2>1. ASSUME ~u.eob_seen
        PROVE  BitsSound(f, u) /\ AreaSound(f, u)
    <3>1. j # NTok(f) + 1
      BY <1>2, <2>1, Zenon
    <3>2. q.tok <= NTok(f)
      BY <1>2, <3>1, FileGives
    <3>3. Continues(f, t, u.total_in)
      BY <1>2, <3>2 DEF ScratchOutcome
    <3>4. BitsAt(f, u, u.total_in)
      BY <1>4, <3>3 DEF Continues, BitsAt
    <3>5. AreaSound(f, u)
      BY <1>4, <1>10, <3>3 DEF Continues, AreaSound
    <3>6. QED BY <3>4, <3>5 DEF BitsSound
  <2>2. QED BY <2>1 DEF BodySound
<1>15. OutSound(f, u)
  <2>1. u.total_out + u.obytes_in_dict = f.outAt[u.tok]
    BY <1>2, <1>5, <1>7
  <2>2. ASSUME u.obytes_in_dict > 0
        PROVE  u.dict[u.wsp_page] = f.outAt[u.tok] /\ u.dict_len >= u.obytes_in_dict
    <3>1. a.obytes_in_dict # 0
      BY <1>2, <2>2
    <3>2. Saves(v, flush, a)
      BY <3>1 DEF Saves
    <3>3. /\ u.dict[u.wsp_page] = IF f.outAt[j] = 0 THEN v.dict[v.wsp_page] ELSE f.outAt[j]
          /\ u.dict_len = IF v.havedict THEN f.outAt[j] + 1 ELSE f.outAt[j]
      BY <1>2, <3>2
    <3>4. f.outAt[j] # 0 /\ f.outAt[j] >= oo
      BY <1>5, <1>7, <2>2
    <3>5. QED BY <1>2, <1>5, <1>7, <3>3, <3>4
  <2>3. QED BY <2>1, <2>2 DEF OutSound
<1>16. EndSound(f, u)
  <2>1. v.postfx_idx = 0
    BY <1>1 DEF EndSound
  <2>2. ASSUME j = NTok(f) + 1
        PROVE  u.total_in = HeaderLen(f) + BodyLen(f)
    BY <1>2, <2>2 DEF ScratchOutcome
  <2>3. HeaderLen(f) \in Nat /\ BodyLen(f) \in Nat
    BY LengthsGive
  <2>4. u.eob_seen => u.tok = NTok(f) + 1
    BY <1>2, Zenon
  <2>5. u.eob_seen => u.total_in = HeaderLen(f) + BodyLen(f) + u.postfx_idx
    BY <1>2, <1>3, <2>1, <2>2, <2>3, <2>4
  <2>6. QED BY <1>3, <1>12, <2>1, <2>4, <2>5 DEF EndSound
<1>17. QED BY <1>11, <1>12, <1>13, <1>14, <1>15, <1>16 DEF Sound

\* The dictionary for the next request is the window of the output, if that of this one was.
LEMMA BehindDict ==
  ASSUME file \in Files, NEW v, NEW flush, NEW j, NEW a, NEW q, NEW t, NEW u,
         Behind(file, v, flush, j, a, q, t, u), DictSound(file, v)
  PROVE  DictSound(file, u)
<1> DEFINE f == file
<1>1. Sending(f, v) /\ Parsed(f, v) /\ ~v.eob_seen /\ Stream(f, v)
  BY DEF Behind, Sending, Sound
<1>2. /\ Answered(f, v, q, j, a) /\ Reported(f, v, j, a) /\ ~TreeOverrun(v, Request(v), a)
      /\ Same(v, u, AsvFields \cup ScratchFields \cup {"avail_out", "total_out", "avail_in", "total_in"})
      /\ Same(t, u, {"avail_out", "total_out", "avail_in", "total_in"})
      /\ t.avail_in = v.avail_in /\ t.inp_data_offs \in Nat /\ t.inp_data_offs <= v.avail_in
      /\ u.avail_out = v.avail_out - a.outp_returned /\ u.total_out = v.total_out + a.outp_returned
      /\ u.avail_in = v.avail_in - t.inp_data_offs /\ u.total_in = v.total_in + t.inp_data_offs
      /\ u.wsp_page = 1 - v.wsp_page /\ u.wsp_page \in {0, 1} /\ u.dict \in [{0, 1} -> Int]
      /\ u.dict_len \in Nat /\ u.obytes_in_dict = a.obytes_in_dict
      /\ u.proc_bits = a.processed % 8 /\ u.eob_seen = (j = NTok(f) + 1) /\ u.tok = j
      /\ u.dict = q.dict /\ u.wsp_page = q.wsp_page /\ u.dict_len = q.dict_len
      /\ Saves(v, flush, a) =>
           /\ q.dict[q.wsp_page] = IF f.outAt[j] = 0 THEN v.dict[v.wsp_page] ELSE f.outAt[j]
           /\ q.dict_len = IF v.havedict THEN f.outAt[j] + 1 ELSE f.outAt[j]
      /\ ~Saves(v, flush, a) => q.dict_len = 0
      /\ ScratchOutcome(f, q, t) /\ q.tok = j /\ q.total_in = v.total_in
      /\ j \in 1..(NTok(f) + 1) /\ f.outAt[j] \in Nat
  BY BehindGives
<1>3. u.havedict = v.havedict /\ u.header_state = v.header_state
  BY <1>2 DEF Same, Fields, AsvFields, ScratchFields
<1>4. Parsed(f, u)
  BY <1>1, <1>3 DEF Parsed
<1>5. u.total_in # 0
  <2>1. q.total_in + t.inp_data_offs > 0
    BY <1>2 DEF ScratchOutcome
  <2>2. v.total_in \in Nat
    BY <1>1, SendingGives
  <2>3. QED BY <1>2, <2>1, <2>2
<1>6. ASSUME ~u.eob_seen
      PROVE  /\ u.dict_len # 0 => u.dict[u.wsp_page] = Window(f, u.tok)
             /\ u.havedict = TRUE => u.dict_len # 0
  <2>1. ~a.final_eob
    BY <1>2, <1>6, Zenon DEF Reported
  <2>2. Saves(v, flush, a)
    BY <2>1 DEF Saves
  <2>3. /\ u.dict[u.wsp_page] = IF f.outAt[j] = 0 THEN v.dict[v.wsp_page] ELSE f.outAt[j]
        /\ u.dict_len = IF v.havedict THEN f.outAt[j] + 1 ELSE f.outAt[j]
    BY <1>2, <2>2
  <2>4. v.havedict \in BOOLEAN /\ v.tok \in 1..(NTok(f) + 1) /\ v.dict_len \in Nat
    BY <1>1 DEF Stream
  <2>5. CASE f.outAt[j] # 0
    BY <1>2, <1>3, <2>3, <2>5 DEF Window
  <2>6. CASE f.outAt[j] = 0
    <3>1. f.outAt[v.tok] = 0
      <4>1. j \in v.tok..(NTok(f) + 1)
        BY <1>1 DEF Behind, Stops
      <4>2. v.tok <= j
        BY <2>4, <4>1
      <4>3. f.outAt[v.tok] <= f.outAt[j] /\ f.outAt[v.tok] \in Nat
        BY <1>2, <2>4, <4>2, NumbersGrow, NumbersGive
      <4>4. QED BY <2>6, <4>3
    <3>2. u.dict_len # 0 <=> v.havedict
      BY <2>3, <2>4, <2>6
    <3>3. v.havedict = TRUE => v.dict_len # 0
      BY <1>1 DEF DictSound
    <3>4. v.dict_len # 0 => v.dict[v.wsp_page] = Window(f, v.tok)
      BY <1>1 DEF DictSound
    <3>5. Window(f, v.tok) = User /\ Window(f, u.tok) = User
      BY <1>2, <2>6, <3>1 DEF Window
    <3>6. QED BY <1>3, <2>3, <2>4, <2>6, <3>2, <3>3, <3>4, <3>5
  <2>7. QED BY <2>5, <2>6
<1>7. QED BY <1>4, <1>5, <1>6 DEF DictSound

\* A request that was answered.
LEMMA ProcessedStep ==
  ASSUME file \in Files, NEW v, NEW flush, Sending(file, v), NEW j \in Stops(v),
         Processed(v, flush, Request(v), Report(v, Request(v), j)), UNCHANGED file,
         ~LateDict => DictSound(file, v)
  PROVE  IInv'
<1>1. PICK a : a = Report(v, Request(v), j)
  OBVIOUS
<1>2. PICK q : q = get_inflate_asv(v, flush, a)
  OBVIOUS
<1>3. PICK t : t = post_scratch_upd(q, Request(v), a)
  OBVIOUS
<1>4. PICK u : u = Advanced(t, a)
  OBVIOUS
<1>5. Behind(file, v, flush, j, a, q, t, u)
  BY <1>1, <1>2, <1>3, <1>4 DEF Behind
<1>6. Sound(file, u)
  BY <1>5, BehindSound
<1>7. ~LateDict => DictSound(file, u)
  BY <1>5, BehindDict
<1>8. ~TreeOverrun(v, Request(v), a) /\ ~(t.inp_data_offs > t.avail_in)
  <2>1. ~TreeOverrun(v, Request(v), a) /\ t.avail_in = v.avail_in /\ t.inp_data_offs \in Nat
        /\ t.inp_data_offs <= v.avail_in
    BY <1>5, BehindGives
  <2>2. v.avail_in \in Nat
    BY SendingGives
  <2>3. QED BY <2>1, <2>2
<1>9. Processed(v, flush, Request(v), a)
  BY <1>1
<1>10. \E x \in {post_scratch_upd(y, Request(v), a) : y \in {get_inflate_asv(v, flush, a)}} :
          IF x.inp_data_offs > x.avail_in THEN Return(x, "STREAM_ERROR", "failed")
          ELSE \E z \in {Advanced(x, a)} :
                 IF z.eob_seen THEN Trailer(z) ELSE Return(z, "OK", "open")
  BY <1>8, <1>9, Zenon DEF Processed
<1>11. IF t.inp_data_offs > t.avail_in THEN Return(t, "STREAM_ERROR", "failed")
       ELSE \E z \in {Advanced(t, a)} :
              IF z.eob_seen THEN Trailer(z) ELSE Return(z, "OK", "open")
  BY <1>2, <1>3, <1>10, Zenon
<1>12. IF u.eob_seen THEN Trailer(u) ELSE Return(u, "OK", "open")
  BY <1>4, <1>8, <1>11, Zenon
<1>13. CASE u.eob_seen
  BY <1>6, <1>7, <1>12, <1>13, TrailerStep
<1>14. CASE ~u.eob_seen
  <2>1. Return(u, "OK", "open")
    BY <1>12, <1>14
  <2>2. Stream(file, u) /\ HeaderSound(file, u)
    BY <1>6 DEF Sound
  <2>3. u.gzip_head # NoBuffers /\ u.header_state = "DONE" => u.saved = Lengths(file)
    BY <2>2, FieldsSaved
  <2>4. QED BY <1>6, <1>7, <2>1, <2>2, <2>3, ReturnGives
<1>15. QED BY <1>13, <1>14

\* A request, answered or not.
LEMMA ExecuteStep ==
  ASSUME file \in Files, NEW v, NEW flush, Sending(file, v), Execute(v, flush), UNCHANGED file,
         ~LateDict => DictSound(file, v)
  PROVE  IInv'
<1>1. PICK x : x = [v EXCEPT !.wsp_page = PageToggled(v)]
  OBVIOUS
<1>2. /\ Stream(file, v) /\ HeaderSound(file, v) /\ Parsed(file, v) /\ ~v.eob_seen
      /\ BodySound(file, v) /\ OutSound(file, v) /\ EndSound(file, v) /\ v.obytes_in_dict = 0
  BY DEF Sending, Sound
<1>3. DOMAIN v = Fields /\ v.wsp_page \in {0, 1}
  BY <1>2 DEF Stream
<1>4. Same(v, x, {"wsp_page"}) /\ x.wsp_page = 1 - v.wsp_page
  BY <1>1, <1>3 DEF Same, Fields, PageToggled
<1>5. x.wsp_page \in {0, 1}
  BY <1>3, <1>4
<1>6. /\ x.total_out = v.total_out /\ x.gzip_head = v.gzip_head /\ x.avail_out = v.avail_out
      /\ x.postfx_idx = v.postfx_idx /\ x.area = v.area /\ x.tree_bits = v.tree_bits
      /\ x.pad_bits = v.pad_bits /\ x.hdr_ib = v.hdr_ib /\ x.proc_bits = v.proc_bits
      /\ x.scratch_ib = v.scratch_ib /\ x.scratch_bits = v.scratch_bits
      /\ x.dict = v.dict /\ x.eob_seen = v.eob_seen /\ x.dict_len = v.dict_len
      /\ x.tok = v.tok /\ x.header_state = v.header_state /\ x.total_in = v.total_in
      /\ x.prefx_idx = v.prefx_idx /\ x.xlen = v.xlen /\ x.gzip_header_idx = v.gzip_header_idx
      /\ x.saved = v.saved /\ x.avail_in = v.avail_in /\ x.prefx_len = v.prefx_len
      /\ x.block_req = v.block_req /\ x.havedict = v.havedict /\ x.inp_data_offs = v.inp_data_offs
      /\ x.obytes_in_dict = v.obytes_in_dict /\ DOMAIN x = Fields
  BY <1>4 DEF Same, Fields
<1>7. InScratchBytes(x) = InScratchBytes(v) /\ Base(x) = Base(v) /\ Request(x) = Request(v)
  BY <1>6 DEF InScratchBytes, Base, Request
<1>8. Stream(file, x)
  BY <1>2, <1>5, <1>6, <1>7 DEF Stream
<1>9. HeaderSound(file, x) /\ Parsed(file, x)
  BY <1>2, <1>6 DEF HeaderSound, XlenAt, Parsed
<1>10. BodySound(file, x)
  <2>1. BitsSound(file, x)
    BY <1>2, <1>6 DEF BodySound, BitsSound, BitsAt
  <2>2. AreaSound(file, x)
    BY <1>2, <1>6, <1>7 DEF BodySound, AreaSound
  <2>3. QED BY <2>1, <2>2 DEF BodySound
<1>11. OutSound(file, x)
  BY <1>2, <1>6 DEF OutSound
<1>12. EndSound(file, x)
  BY <1>2, <1>6, <1>9 DEF EndSound
<1>13. Sound(file, x)
  BY <1>8, <1>9, <1>10, <1>11, <1>12 DEF Sound
<1>14. x.gzip_head # NoBuffers /\ x.header_state = "DONE" => x.saved = Lengths(file)
  BY <1>8, <1>9, FieldsSaved
<1>15. CASE Return(x, "NEED_DICT", "fault")
  BY <1>8, <1>9, <1>13, <1>14, <1>15, ReturnGives
<1>16. CASE Return(x, "EXECUTE_ERROR", "failed")
  BY <1>8, <1>14, <1>16, ReturnGives
<1>17. ASSUME NEW j \in Stops(v), Processed(v, flush, Request(v), Report(v, Request(v), j))
       PROVE  IInv'
  BY <1>17, ProcessedStep
<1>18. \/ Return(x, "NEED_DICT", "fault") \/ Return(x, "EXECUTE_ERROR", "failed")
       \/ \E j \in Stops(v) : Processed(v, flush, Request(v), Report(v, Request(v), j))
  BY <1>1, Zenon DEF Execute
<1>19. QED BY <1>15, <1>16, <1>17, <1>18

-----------------------------------------------------------------------------
(* Operations                                                               *)

\* What a call has of the header, or leaves of it.
HeaderOutcome(f, v, x, c) ==
  /\ Stream(f, x) /\ x.avail_out = v.avail_out /\ x.obytes_in_dict = v.obytes_in_dict
  /\ x.eob_seen = v.eob_seen
  /\ c \in {"OK", "NEED_DICT", "ERR_GZIP_HDR"}
  /\ c = "ERR_GZIP_HDR" => TooLong(f, x) /\ x.header_state # "DONE"
  /\ c # "ERR_GZIP_HDR" => Sound(f, x) /\ (~LateDict => DictSound(f, x))
  /\ c = "NEED_DICT" => Parsed(f, x) /\ x.wsp_page = 0
  /\ c = "OK" /\ ~Parsed(f, x) => x.avail_in = 0 /\ x.scratch_bits = 0

LEMMA HeaderGives ==
  ASSUME file \in Files, ExtraUsed, NEW v, Sound(file, v), NEW flush,
         ~LateDict => DictSound(file, v)
  PROVE  \E x, c : /\ (IF file.format = "DEFL" \/ v.header_state = "DONE" THEN <<v, "OK">>
                       ELSE inflate_format_rem_header(v, flush)) = <<x, c>>
                   /\ HeaderOutcome(file, v, x, c)
<1>1. Stream(file, v) /\ HeaderSound(file, v)
  BY DEF Sound
<1>2. CASE Parsed(file, v)
  <2>1. HeaderOutcome(file, v, v, "OK")
    BY <1>1, <1>2 DEF HeaderOutcome
  <2>2. QED BY <1>2, <2>1 DEF Parsed
<1>3. CASE ~Parsed(file, v)
  <2>1. Fresh(v) /\ Reading(file, v)
    BY <1>1, <1>3 DEF Sound, Reading, Parsed
  <2>2. PICK x, c : /\ inflate_format_rem_header(v, flush) = <<x, c>>
                    /\ ParseOutcome(file, v, x, c)
    BY <2>1, RemHeaderGives
  <2>3. /\ Same(v, x, HeaderFields) /\ Stream(file, x) /\ DictKept(v, x)
        /\ c \in {"OK", "NEED_DICT", "ERR_GZIP_HDR"}
        /\ c # "ERR_GZIP_HDR" => HeaderSound(file, x)
        /\ c = "OK" /\ x.header_state # "DONE" => x.avail_in = 0
        /\ c = "NEED_DICT" => x.header_state = "DONE"
        /\ c # "ERR_GZIP_HDR" /\ x.header_state = "DONE" => x.total_in = HeaderLen(file)
        /\ c = "ERR_GZIP_HDR" => TooLong(file, x) /\ x.header_state # "DONE"
    BY <2>2 DEF ParseOutcome
  <2>4. /\ x.avail_out = v.avail_out /\ x.obytes_in_dict = v.obytes_in_dict
        /\ x.eob_seen = v.eob_seen
    BY <2>3 DEF Same, Fields, HeaderFields
  <2>5. Fresh(x)
    BY <2>1, <2>3, FreshKept
  <2>6. x.scratch_bits = 0 /\ x.wsp_page = 0 /\ x.dict_len = 0 /\ v.dict_len = 0 /\ ~v.eob_seen
    BY <2>1, <2>5 DEF Fresh
  <2>7. file.format # "DEFL"
    BY <1>3 DEF Parsed
  <2>8. c # "ERR_GZIP_HDR" => Sound(file, x)
    BY <2>3, <2>5, <2>7, FreshSound DEF Parsed
  <2>9. ~LateDict => DictSound(file, x)
    <3>1. ASSUME ~LateDict
          PROVE  ~(x.havedict = TRUE)
      BY <2>3, <2>6, <3>1 DEF DictSound, DictKept
    <3>2. QED BY <2>6, <3>1 DEF DictSound
  <2>10. HeaderOutcome(file, v, x, c)
    BY <2>3, <2>4, <2>6, <2>7, <2>8, <2>9 DEF HeaderOutcome, Parsed
  <2>11. QED BY <1>3, <2>2, <2>10 DEF Parsed
<1>4. QED BY <1>2, <1>3

\* The call from the header on.
LEMMA HeaderStep ==
  ASSUME file \in Files, ExtraUsed, NEW v, Sound(file, v), NEW flush, Header(v, flush),
         ~v.eob_seen, v.avail_out # 0, v.obytes_in_dict = 0, UNCHANGED file,
         ~LateDict => DictSound(file, v)
  PROVE  IInv'
<1>1. PICK x, c : /\ (IF file.format = "DEFL" \/ v.header_state = "DONE" THEN <<v, "OK">>
                      ELSE inflate_format_rem_header(v, flush)) = <<x, c>>
                  /\ HeaderOutcome(file, v, x, c)
  BY HeaderGives
<1>2. /\ Stream(file, x) /\ x.avail_out = v.avail_out /\ x.obytes_in_dict = v.obytes_in_dict
      /\ x.eob_seen = v.eob_seen
      /\ c \in {"OK", "NEED_DICT", "ERR_GZIP_HDR"}
      /\ c = "ERR_GZIP_HDR" => TooLong(file, x) /\ x.header_state # "DONE"
      /\ c # "ERR_GZIP_HDR" => Sound(file, x) /\ (~LateDict => DictSound(file, x))
      /\ c = "NEED_DICT" => Parsed(file, x) /\ x.wsp_page = 0
      /\ c = "OK" /\ ~Parsed(file, x) => x.avail_in = 0 /\ x.scratch_bits = 0
  BY <1>1 DEF HeaderOutcome
<1>3. c # "ERR_GZIP_HDR" /\ x.gzip_head # NoBuffers /\ x.header_state = "DONE" => x.saved = Lengths(file)
  BY <1>2, FieldsSaved DEF Sound
<1>4. \E h \in {<<x, c>>} : \E t \in {h[1]} :
        CASE h[2] # "OK" -> Return(t, h[2], IF h[2] = "NEED_DICT" THEN "open" ELSE "failed")
          [] h[2] = "OK" /\ t.block_req -> Return(t, "OK", "open")
          [] h[2] = "OK" /\ ~t.block_req /\ t.avail_in = 0 /\ t.scratch_bits = 0 -> Return(t, "OK", "open")
          [] OTHER -> Execute(t, flush)
  BY <1>1, Zenon DEF Header
<1>5. (CASE c # "OK" -> Return(x, c, IF c = "NEED_DICT" THEN "open" ELSE "failed")
         [] c = "OK" /\ x.block_req -> Return(x, "OK", "open")
         [] c = "OK" /\ ~x.block_req /\ x.avail_in = 0 /\ x.scratch_bits = 0 -> Return(x, "OK", "open")
         [] OTHER -> Execute(x, flush))
  BY <1>4
<1>6. \/ c = "ERR_GZIP_HDR" /\ Return(x, c, "failed")
      \/ c = "NEED_DICT" /\ Return(x, c, "open")
      \/ c = "OK" /\ Return(x, "OK", "open")
      \/ c = "OK" /\ ~(x.avail_in = 0 /\ x.scratch_bits = 0) /\ Execute(x, flush)
  BY <1>2, <1>5
<1>7. CASE c = "ERR_GZIP_HDR" /\ Return(x, c, "failed")
  BY <1>2, <1>7, ReturnGives
<1>8. CASE c = "NEED_DICT" /\ Return(x, c, "open")
  BY <1>2, <1>3, <1>8, ReturnGives
<1>9. CASE c = "OK" /\ Return(x, "OK", "open")
  BY <1>2, <1>3, <1>9, ReturnGives
<1>10. CASE c = "OK" /\ ~(x.avail_in = 0 /\ x.scratch_bits = 0) /\ Execute(x, flush)
  <2>1. Sending(file, x)
    BY <1>2, <1>10 DEF Sending
  <2>2. QED BY <1>2, <1>10, <2>1, ExecuteStep
<1>11. QED BY <1>6, <1>7, <1>8, <1>9, <1>10

\* zedc_inflate
LEMMA InflateStep ==
  ASSUME IInv, ExtraUsed, NEW flush, NEW in \in Chunks, NEW out \in OutSizes,
         Inflate(flush, in, out), UNCHANGED file
  PROVE  IInv'
<1>1. file \in Files /\ Stream(file, strm) /\ Sound(file, strm) /\ (~LateDict => DictSound(file, strm))
  BY DEF IInv, Inflate
<1>2. PICK s : /\ s = [strm EXCEPT !.avail_in = @ + in, !.avail_out = out]
               /\ IF Overrun(s) THEN Return(s, "STREAM_ERROR", "failed")
                  ELSE \E t \in {inflate_flush_output_buffer(s)} :
                         CASE t.eob_seen -> Trailer(t)
                           [] ~t.eob_seen /\ t.avail_out = 0 -> Return(t, "OK", "open")
                           [] OTHER -> Header(t, flush)
  BY DEF Inflate
<1>3. in \in Nat /\ out \in Nat
  BY BoundsAssumption
<1>4. /\ DOMAIN strm = Fields /\ strm.avail_in \in Nat /\ strm.total_in \in Nat
      /\ strm.total_in + strm.avail_in + in <= FileLen(file)
  BY <1>1 DEF Stream, Inflate
<1>5. /\ Same(strm, s, {"avail_in", "avail_out"}) /\ s.avail_in = strm.avail_in + in
      /\ s.avail_out = out
  BY <1>2, <1>4 DEF Same, Fields
<1>6. /\ s.total_out = strm.total_out /\ s.gzip_head = strm.gzip_head
      /\ s.postfx_idx = strm.postfx_idx /\ s.area = strm.area /\ s.tree_bits = strm.tree_bits
      /\ s.pad_bits = strm.pad_bits /\ s.hdr_ib = strm.hdr_ib /\ s.proc_bits = strm.proc_bits
      /\ s.scratch_ib = strm.scratch_ib /\ s.scratch_bits = strm.scratch_bits
      /\ s.wsp_page = strm.wsp_page /\ s.dict_len = strm.dict_len
      /\ s.dict = strm.dict /\ s.eob_seen = strm.eob_seen /\ s.obytes_in_dict = strm.obytes_in_dict
      /\ s.tok = strm.tok /\ s.header_state = strm.header_state /\ s.total_in = strm.total_in
      /\ s.prefx_idx = strm.prefx_idx /\ s.xlen = strm.xlen /\ s.gzip_header_idx = strm.gzip_header_idx
      /\ s.saved = strm.saved /\ s.prefx_len = strm.prefx_len
      /\ s.block_req = strm.block_req /\ s.havedict = strm.havedict
      /\ s.inp_data_offs = strm.inp_data_offs /\ DOMAIN s = Fields
  BY <1>5 DEF Same, Fields
<1>7. Same(strm, s, {"avail_in", "avail_out", "inp_data_offs", "prefx_len", "block_req"})
  BY <1>5 DEF Same
<1>8. /\ HeaderSound(file, strm) => HeaderSound(file, s)
      /\ Fresh(strm) => Fresh(s)
      /\ Parsed(file, s) <=> Parsed(file, strm)
      /\ BodySound(file, strm) => BodySound(file, s)
      /\ OutSound(file, strm) => OutSound(file, s)
      /\ EndSound(file, strm) => EndSound(file, s)
      /\ DictSound(file, strm) => DictSound(file, s)
      /\ Request(s) = Request(strm)
  BY <1>7, PartsKept
<1>9. s.avail_in \in Nat /\ s.total_in + s.avail_in <= FileLen(file)
  BY <1>3, <1>4, <1>5, <1>6
<1>10. Stream(file, s)
  BY <1>1, <1>3, <1>5, <1>6, <1>8, <1>9 DEF Stream
<1>11. Sound(file, s) /\ (~LateDict => DictSound(file, s))
  BY <1>1, <1>8, <1>10 DEF Sound
<1>12. ~Overrun(s)
  BY <1>1, <1>10, <1>11, OutGives DEF Sound
<1>13. PICK t : t = inflate_flush_output_buffer(s)
  OBVIOUS
<1>14. /\ Sound(file, t) /\ (DictSound(file, s) => DictSound(file, t)) /\ (Fresh(s) => Fresh(t))
       /\ Same(s, t, {"avail_out", "total_out", "obytes_in_dict"})
       /\ t.avail_out # 0 => t.obytes_in_dict = 0
  BY <1>1, <1>11, <1>13, FlushGives
<1>15. ~LateDict => DictSound(file, t)
  BY <1>11, <1>14
<1>16. (CASE t.eob_seen -> Trailer(t)
          [] ~t.eob_seen /\ t.avail_out = 0 -> Return(t, "OK", "open")
          [] OTHER -> Header(t, flush))
  <2>1. \E y \in {t} : CASE y.eob_seen -> Trailer(y)
                         [] ~y.eob_seen /\ y.avail_out = 0 -> Return(y, "OK", "open")
                         [] OTHER -> Header(y, flush)
    BY <1>2, <1>12, <1>13, Zenon
  <2>2. QED BY <2>1
<1>17. CASE t.eob_seen
  <2>1. Trailer(t)
    BY <1>16, <1>17
  <2>2. QED BY <1>1, <1>14, <1>15, <1>17, <2>1, TrailerStep
<1>18. CASE ~t.eob_seen /\ t.avail_out = 0
  <2>1. Return(t, "OK", "open")
    BY <1>16, <1>18
  <2>2. Stream(file, t) /\ HeaderSound(file, t)
    BY <1>14 DEF Sound
  <2>3. t.gzip_head # NoBuffers /\ t.header_state = "DONE" => t.saved = Lengths(file)
    BY <1>1, <2>2, FieldsSaved
  <2>4. QED BY <1>1, <1>14, <1>15, <2>1, <2>2, <2>3, ReturnGives
<1>19. CASE ~t.eob_seen /\ t.avail_out # 0
  <2>1. Header(t, flush)
    BY <1>16, <1>19
  <2>2. t.obytes_in_dict = 0
    BY <1>14, <1>19
  <2>3. QED BY <1>1, <1>14, <1>15, <1>19, <2>1, <2>2, HeaderStep
<1>20. QED BY <1>17, <1>18, <1>19

\* Nothing is saved before the first byte.
LEMMA SavedFirst ==
  ASSUME NEW f \in Files, f.format = "GZIP"
  PROVE  SavedAt(f, 0) = Unsaved
<1>1. NameAt(f) \in Nat /\ CommentAt(f) \in Nat
  BY GzipBytes
<1>2. QED BY <1>1 DEF SavedAt, Got, Unsaved

\* What is true of a stream that starts.
LEMMA StartSound ==
  ASSUME NEW f \in Files, NEW v, Stream(f, v), Fresh(v), v.total_in = 0, v.prefx_idx = 0,
         v.header_state = "START", v.saved = Unsaved, ~v.havedict
  PROVE  Sound(f, v) /\ DictSound(f, v)
<1>1. /\ HeaderLen(f) \in Nat
      /\ f.format = "DEFL" => HeaderLen(f) = 0
      /\ f.format = "ZLIB" => HeaderLen(f) = IF f.dict THEN 6 ELSE 2
      /\ f.format = "GZIP" => HeaderLen(f) >= 10
      /\ f.format \in {"DEFL", "GZIP", "ZLIB"}
  BY HeaderLength, FileGives
<1>2. f.format # "DEFL" => StateAt(f, 0) = "START"
  BY <1>1 DEF StateAt
<1>3. BufferOf("START") = "none"
  BY BufferGives
<1>4. v.gzip_head # NoBuffers => v.saved = SavedAt(f, 0)
  BY SavedFirst DEF Stream
<1>5. HeaderSound(f, v)
  BY <1>1, <1>2, <1>3, <1>4 DEF HeaderSound, XlenAt
<1>6. Parsed(f, v) => v.total_in = HeaderLen(f)
  BY <1>1 DEF Parsed
<1>7. Sound(f, v)
  BY <1>5, <1>6, FreshSound
<1>8. DictSound(f, v)
  <2>1. ~(v.havedict = TRUE) /\ v.wsp_page = 0 /\ v.dict_len = 0
    BY DEF Fresh
  <2>2. QED BY <2>1 DEF DictSound
<1>9. QED BY <1>7, <1>8

LEMMA InitGives ==
  ASSUME Init
  PROVE  IInv
<1>1. file \in Files /\ strm = EmptyStream /\ pc = "open" /\ rc = "OK"
  BY DEF Init
<1>2. DOMAIN strm = Fields
  BY <1>1 DEF EmptyStream, Fields
<1>3. /\ strm.avail_in = 0 /\ strm.avail_out = 0 /\ strm.total_in = 0 /\ strm.total_out = 0
      /\ strm.header_state = "START" /\ strm.prefx_len = FALSE /\ strm.prefx_idx = 0 /\ strm.xlen = 0
      /\ strm.gzip_head = NoBuffers /\ strm.gzip_header_idx = 0 /\ strm.block_req = FALSE
      /\ strm.saved = Unsaved /\ strm.postfx_idx = 0
      /\ strm.tree_bits = 0 /\ strm.pad_bits = 0 /\ strm.hdr_ib = 0 /\ strm.proc_bits = 0
      /\ strm.scratch_ib = 0 /\ strm.scratch_bits = 0 /\ strm.inp_data_offs = 0
      /\ strm.wsp_page = 0 /\ strm.dict_len = 0
      /\ strm.obytes_in_dict = 0 /\ strm.eob_seen = FALSE /\ strm.havedict = FALSE /\ strm.tok = 1
      /\ strm.area = [k \in 0..(AreaLen - 1) |-> Junk] /\ strm.dict = [p \in {0, 1} |-> Nothing]
  BY <1>1 DEF EmptyStream, Unsaved
<1>4. strm.area \in [0..(AreaLen - 1) -> Int] /\ strm.dict \in [{0, 1} -> Int]
  BY <1>3 DEF Junk, Nothing
<1>5. Request(strm).len = 0
  BY <1>3 DEF Request
<1>6. /\ FileLen(file) \in Nat /\ OutLen(file) \in Nat /\ TrailerLen(file) \in Nat
      /\ NTok(file) \in Nat /\ TreeLen \in Nat /\ 2^XlenBits > 255 /\ 2^XlenBits \in Nat
  <2>1. 2^XlenBits \in Nat
    BY BoundsAssumption
  <2>2. QED BY <1>1, <2>1, FileGives, LengthsGive, BoundsAssumption
<1>7. strm.saved = [extra |-> strm.saved.extra, name |-> strm.saved.name, comment |-> strm.saved.comment]
  BY <1>3 DEF Unsaved
<1>8. /\ 0 \in 0..FileLen(file) /\ 0 \in 0..OutLen(file) /\ 0 \in 0..TrailerLen(file)
     /\ 0 \in 0..(2^XlenBits - 1) /\ 1 \in 1..(NTok(file) + 1) /\ 0 <= TreeLen
     /\ 0 \in 0..63 /\ 0 \in 0..7 /\ 0 \in Nat /\ 0 + 0 <= FileLen(file) /\ "START" \in States
  BY <1>6 DEF States
<1>9. Stream(file, strm)
  <2>1. Request(strm).len <= TreeLen
    BY <1>5, <1>8
  <2>2. strm.gzip_head \in HeaderBuffers \cup {NoBuffers}
    BY <1>3
  <2>3. strm.total_in + strm.avail_in <= FileLen(file)
    BY <1>3, <1>8
  <2>4. QED BY <1>2, <1>3, <1>4, <1>7, <1>8, <2>1, <2>2, <2>3 DEF Stream
<1>10. Fresh(strm)
  BY <1>3 DEF Fresh
<1>11. Sound(file, strm) /\ DictSound(file, strm)
  BY <1>1, <1>3, <1>9, <1>10, StartSound
<1>12. QED BY <1>1, <1>3, <1>9, <1>11 DEF IInv

\* zedc_inflateReset
LEMMA ResetStep ==
  ASSUME IInv, Reset
  PROVE  IInv'
<1>1. file \in Files /\ Stream(file, strm) /\ strm.avail_out = 0 /\ DOMAIN strm = Fields
  BY DEF IInv, Stream
<1>2. PICK x : x = strm'
  OBVIOUS
<1>3. PICK y : y = __inflateInit_state(strm)
  OBVIOUS
<1>4. /\ x = [y EXCEPT !.avail_in = 0, !.saved = Unsaved]
      /\ pc' = "open" /\ rc' = "OK" /\ file' = file
  BY <1>2, <1>3 DEF Reset, Unsaved
<1>5. /\ DOMAIN y = Fields /\ y.total_in = 0 /\ y.total_out = 0 /\ y.wsp_page = 0 /\ y.dict_len = 0
      /\ y.obytes_in_dict = 0 /\ y.eob_seen = FALSE /\ y.havedict = FALSE /\ y.hdr_ib = 0
      /\ y.scratch_ib = 0 /\ y.scratch_bits = 0 /\ y.tree_bits = 0
      /\ y.proc_bits = 0 /\ y.pad_bits = 0 /\ y.inp_data_offs = 0 /\ y.prefx_len = FALSE
      /\ y.prefx_idx = 0 /\ y.xlen = 0 /\ y.header_state = "START" /\ y.postfx_idx = 0 /\ y.tok = 1
      /\ y.avail_out = strm.avail_out /\ y.gzip_head = strm.gzip_head
      /\ y.gzip_header_idx = strm.gzip_header_idx /\ y.block_req = strm.block_req
      /\ y.area = strm.area /\ y.dict = strm.dict
  <2>1. y = [strm EXCEPT !.total_in = 0, !.total_out = 0, !.wsp_page = 0, !.dict_len = 0,
               !.obytes_in_dict = 0, !.eob_seen = FALSE, !.havedict = FALSE, !.hdr_ib = 0,
               !.scratch_ib = 0, !.scratch_bits = 0, !.tree_bits = 0,
               !.proc_bits = 0, !.pad_bits = 0, !.inp_data_offs = 0, !.prefx_len = FALSE, !.prefx_idx = 0,
               !.xlen = 0, !.header_state = "START", !.postfx_idx = 0, !.tok = 1]
    BY <1>3 DEF __inflateInit_state, ScratchBitsCleared
  <2>2. /\ DOMAIN y = Fields /\ y.total_in = 0 /\ y.total_out = 0 /\ y.wsp_page = 0 /\ y.dict_len = 0
        /\ y.obytes_in_dict = 0 /\ y.eob_seen = FALSE /\ y.havedict = FALSE /\ y.hdr_ib = 0
    BY <1>1, <2>1 DEF Fields
  <2>3. /\ y.scratch_ib = 0 /\ y.scratch_bits = 0 /\ y.tree_bits = 0
        /\ y.proc_bits = 0 /\ y.pad_bits = 0 /\ y.inp_data_offs = 0 /\ y.prefx_len = FALSE
    BY <1>1, <2>1 DEF Fields
  <2>4. /\ y.prefx_idx = 0 /\ y.xlen = 0 /\ y.header_state = "START" /\ y.postfx_idx = 0 /\ y.tok = 1
    BY <1>1, <2>1 DEF Fields
  <2>5. /\ y.avail_out = strm.avail_out /\ y.gzip_head = strm.gzip_head
        /\ y.gzip_header_idx = strm.gzip_header_idx /\ y.block_req = strm.block_req
        /\ y.area = strm.area /\ y.dict = strm.dict
    BY <1>1, <2>1 DEF Fields
  <2>6. QED BY <2>2, <2>3, <2>4, <2>5
<1>6. Same(y, x, {"avail_in", "saved"}) /\ x.avail_in = 0 /\ x.saved = Unsaved
  BY <1>4, <1>5 DEF Same, Fields
<1>7. /\ DOMAIN x = Fields /\ x.total_in = 0 /\ x.total_out = 0 /\ x.wsp_page = 0 /\ x.dict_len = 0
      /\ x.obytes_in_dict = 0 /\ x.eob_seen = FALSE /\ x.havedict = FALSE /\ x.hdr_ib = 0
      /\ x.scratch_ib = 0 /\ x.scratch_bits = 0 /\ x.tree_bits = 0
      /\ x.proc_bits = 0 /\ x.pad_bits = 0 /\ x.inp_data_offs = 0 /\ x.prefx_len = FALSE
      /\ x.prefx_idx = 0 /\ x.xlen = 0 /\ x.header_state = "START" /\ x.postfx_idx = 0 /\ x.tok = 1
      /\ x.avail_out = strm.avail_out /\ x.gzip_head = strm.gzip_head
      /\ x.gzip_header_idx = strm.gzip_header_idx /\ x.block_req = strm.block_req
      /\ x.area = strm.area /\ x.dict = strm.dict
  BY <1>5, <1>6 DEF Same, Fields
<1>8. Request(x).len = 0
  BY <1>7 DEF Request
<1>9. /\ FileLen(file) \in Nat /\ OutLen(file) \in Nat /\ TrailerLen(file) \in Nat
      /\ NTok(file) \in Nat /\ TreeLen \in Nat /\ 2^XlenBits > 255 /\ 2^XlenBits \in Nat
  <2>1. 2^XlenBits \in Nat
    BY BoundsAssumption
  <2>2. QED BY <1>1, <2>1, FileGives, LengthsGive, BoundsAssumption
<1>10. x.saved = [extra |-> x.saved.extra, name |-> x.saved.name, comment |-> x.saved.comment]
  BY <1>6 DEF Unsaved
<1>11. /\ strm.gzip_header_idx \in Nat /\ strm.gzip_head \in HeaderBuffers \cup {NoBuffers}
       /\ strm.block_req \in BOOLEAN /\ strm.area \in [0..(AreaLen - 1) -> Int]
       /\ strm.dict \in [{0, 1} -> Int] /\ (file.format # "GZIP" => strm.gzip_head = NoBuffers)
  BY <1>1 DEF Stream
<1>12. /\ 0 \in 0..FileLen(file) /\ 0 \in 0..OutLen(file) /\ 0 \in 0..TrailerLen(file)
     /\ 0 \in 0..(2^XlenBits - 1) /\ 1 \in 1..(NTok(file) + 1) /\ 0 <= TreeLen
     /\ 0 \in 0..63 /\ 0 \in 0..7 /\ 0 \in Nat /\ 0 + 0 <= FileLen(file) /\ "START" \in States
  BY <1>9 DEF States
<1>13. Stream(file, x)
  <2>1. Request(x).len <= TreeLen
    BY <1>8, <1>12
  <2>2. x.total_in + x.avail_in <= FileLen(file)
    BY <1>6, <1>7, <1>12
  <2>3. QED BY <1>1, <1>6, <1>7, <1>10, <1>11, <1>12, <2>1, <2>2 DEF Stream
<1>14. Fresh(x)
  BY <1>7 DEF Fresh
<1>15. Sound(file, x) /\ DictSound(file, x)
  BY <1>1, <1>6, <1>7, <1>13, <1>14, StartSound
<1>16. QED BY <1>1, <1>2, <1>4, <1>7, <1>13, <1>15 DEF IInv

\* zedc_inflateGetHeader
LEMMA GetHeaderStep ==
  ASSUME IInv, NEW head \in HeaderBuffers, GetHeader(head)
  PROVE  IInv'
<1>1. /\ file \in Files /\ Stream(file, strm) /\ DOMAIN strm = Fields /\ Sound(file, strm)
      /\ strm.avail_out = 0 /\ pc = "open" /\ file.format = "GZIP" /\ strm.total_in = 0
      /\ rc \in {"OK", "NEED_DICT", "ERR_GZIP_HDR", "STREAM_END", "DATA_ERROR", "EXECUTE_ERROR"}
  BY DEF IInv, Stream, GetHeader
<1>2. PICK x : x = strm'
  OBVIOUS
<1>3. x = [strm EXCEPT !.gzip_head = head] /\ file' = file /\ pc' = pc /\ rc' = rc
  BY <1>2 DEF GetHeader
<1>4. Same(strm, x, {"gzip_head"}) /\ x.gzip_head = head
  BY <1>1, <1>3 DEF Same, Fields
<1>5. /\ x.total_out = strm.total_out /\ x.avail_in = strm.avail_in /\ x.avail_out = strm.avail_out
      /\ x.postfx_idx = strm.postfx_idx /\ x.area = strm.area /\ x.tree_bits = strm.tree_bits
      /\ x.pad_bits = strm.pad_bits /\ x.hdr_ib = strm.hdr_ib /\ x.proc_bits = strm.proc_bits
      /\ x.scratch_ib = strm.scratch_ib /\ x.scratch_bits = strm.scratch_bits
      /\ x.wsp_page = strm.wsp_page /\ x.dict_len = strm.dict_len
      /\ x.dict = strm.dict /\ x.eob_seen = strm.eob_seen /\ x.obytes_in_dict = strm.obytes_in_dict
      /\ x.tok = strm.tok /\ x.header_state = strm.header_state /\ x.total_in = strm.total_in
      /\ x.prefx_idx = strm.prefx_idx /\ x.xlen = strm.xlen /\ x.gzip_header_idx = strm.gzip_header_idx
      /\ x.saved = strm.saved /\ x.prefx_len = strm.prefx_len
      /\ x.block_req = strm.block_req /\ x.havedict = strm.havedict
      /\ x.inp_data_offs = strm.inp_data_offs /\ DOMAIN x = Fields
  BY <1>4 DEF Same, Fields
<1>6. head # NoBuffers
  <2>1. head \in [extra : Nat, name : Nat, comment : Nat]
    BY BoundsAssumption
  <2>2. head.extra \in Nat
    BY <2>1
  <2>3. NoBuffers.extra = -1
    BY DEF NoBuffers
  <2>4. QED BY <2>2, <2>3
<1>7. InScratchBytes(x) = InScratchBytes(strm) /\ Base(x) = Base(strm) /\ Request(x) = Request(strm)
  BY <1>5 DEF InScratchBytes, Base, Request
<1>8. Stream(file, x)
  BY <1>1, <1>4, <1>5, <1>6, <1>7 DEF Stream
<1>9. strm.header_state = "START" /\ strm.prefx_idx = 0
  <2>1. HeaderLen(file) \in Nat /\ HeaderLen(file) >= 10
    BY <1>1, HeaderLength
  <2>2. /\ strm.header_state = StateAt(file, strm.prefx_idx)
        /\ strm.header_state # "DONE" => strm.total_in = strm.prefx_idx
        /\ strm.header_state = "DONE" => strm.total_in >= HeaderLen(file)
    BY <1>1 DEF Sound, HeaderSound
  <2>3. strm.prefx_idx = 0
    BY <1>1, <2>1, <2>2
  <2>4. StateAt(file, 0) = "START"
    BY <1>1, <2>1 DEF StateAt
  <2>5. QED BY <2>2, <2>3, <2>4
<1>10. strm.saved = Unsaved
  <2>1. CASE strm.gzip_head = NoBuffers
    BY <1>1, <2>1 DEF Stream
  <2>2. CASE strm.gzip_head # NoBuffers
    <3>1. strm.saved = SavedAt(file, strm.prefx_idx)
      BY <1>1, <2>2 DEF Sound, HeaderSound
    <3>2. QED BY <1>1, <1>9, <3>1, SavedFirst
  <2>3. QED BY <2>1, <2>2
<1>11. Fresh(strm) /\ ~Parsed(file, strm)
  BY <1>1, <1>9 DEF Sound, Parsed
<1>12. Fresh(x)
  BY <1>5, <1>11 DEF Fresh
<1>13. ~Parsed(file, x)
  BY <1>1, <1>5, <1>9 DEF Parsed
<1>14. HeaderSound(file, x)
  <2>1. BufferOf("START") = "none"
    BY BufferGives
  <2>2. x.saved = SavedAt(file, x.prefx_idx)
    BY <1>1, <1>5, <1>9, <1>10, SavedFirst
  <2>3. HeaderSound(file, strm)
    BY <1>1 DEF Sound
  <2>4. QED BY <1>5, <1>9, <2>1, <2>2, <2>3 DEF HeaderSound, XlenAt
<1>15. Sound(file, x)
  BY <1>1, <1>8, <1>12, <1>13, <1>14, FreshSound
<1>16. DictSound(file, strm) => DictSound(file, x)
  BY <1>5, <1>11, <1>13 DEF DictSound
<1>17. rc # "ERR_GZIP_HDR" /\ rc # "NEED_DICT"
  BY <1>1, <1>11 DEF IInv
<1>18. QED BY <1>1, <1>2, <1>3, <1>5, <1>8, <1>9, <1>15, <1>16, <1>17 DEF IInv

\* zedc_inflateSetDictionary
LEMMA SetDictionaryStep ==
  ASSUME IInv, SetDictionary
  PROVE  IInv'
<1>1. /\ file \in Files /\ Stream(file, strm) /\ DOMAIN strm = Fields /\ Sound(file, strm)
      /\ strm.avail_out = 0 /\ strm.tok = 1
  <2>1. pc # "failed"
    BY DEF SetDictionary
  <2>2. QED BY <2>1 DEF IInv, Stream, SetDictionary
<1>2. PICK x : x = strm'
  OBVIOUS
<1>3. x = [strm EXCEPT !.dict[0] = User, !.dict_len = 1, !.havedict = TRUE]
      /\ file' = file /\ pc' = "open" /\ rc' = "OK"
  BY <1>2 DEF SetDictionary
<1>4. strm.dict \in [{0, 1} -> Int] /\ strm.wsp_page \in {0, 1} /\ User \in Int
  BY <1>1 DEF Stream, User
<1>5. /\ Same(strm, x, {"dict", "dict_len", "havedict"}) /\ x.dict = [strm.dict EXCEPT ![0] = User]
      /\ x.dict_len = 1 /\ x.havedict = TRUE
  BY <1>1, <1>3 DEF Same, Fields
<1>6. x.dict \in [{0, 1} -> Int] /\ x.dict[0] = User
  BY <1>4, <1>5
<1>7. /\ x.total_out = strm.total_out /\ x.avail_in = strm.avail_in /\ x.avail_out = strm.avail_out
      /\ x.postfx_idx = strm.postfx_idx /\ x.area = strm.area /\ x.tree_bits = strm.tree_bits
      /\ x.pad_bits = strm.pad_bits /\ x.hdr_ib = strm.hdr_ib /\ x.proc_bits = strm.proc_bits
      /\ x.scratch_ib = strm.scratch_ib /\ x.scratch_bits = strm.scratch_bits
      /\ x.wsp_page = strm.wsp_page /\ x.gzip_head = strm.gzip_head
      /\ x.eob_seen = strm.eob_seen /\ x.obytes_in_dict = strm.obytes_in_dict
      /\ x.tok = strm.tok /\ x.header_state = strm.header_state /\ x.total_in = strm.total_in
      /\ x.prefx_idx = strm.prefx_idx /\ x.xlen = strm.xlen /\ x.gzip_header_idx = strm.gzip_header_idx
      /\ x.saved = strm.saved /\ x.prefx_len = strm.prefx_len /\ x.block_req = strm.block_req
      /\ x.inp_data_offs = strm.inp_data_offs /\ DOMAIN x = Fields
  BY <1>5 DEF Same, Fields
<1>8. InScratchBytes(x) = InScratchBytes(strm) /\ Base(x) = Base(strm) /\ Request(x) = Request(strm)
  BY <1>7 DEF InScratchBytes, Base, Request
<1>9. Stream(file, x)
  <2>1. x.dict_len \in Nat /\ x.havedict \in BOOLEAN
    <3>1. x.dict_len = 1
      BY <1>5, Zenon
    <3>2. x.dict_len \in Nat
      BY <3>1
    <3>3. x.havedict \in BOOLEAN
      BY <1>5, Zenon
    <3>4. QED BY <3>2, <3>3, Zenon
  <2>2. Stream(file, strm)
    BY <1>1
  <2>3. Request(x).len <= TreeLen /\ x.wsp_page \in {0, 1}
    BY <1>4, <1>7, <1>8, <2>2 DEF Stream
  <2>4. QED BY <1>6, <1>7, <2>1, <2>2, <2>3 DEF Stream
<1>10. Parsed(file, strm) /\ Parsed(file, x)
  <2>1. \/ rc = "NEED_DICT"
        \/ file.format = "DEFL"
    BY DEF SetDictionary, IInv
  <2>2. Parsed(file, strm)
    BY <2>1 DEF IInv, Parsed
  <2>3. QED BY <1>7, <2>2 DEF Parsed
<1>11. HeaderSound(file, x) /\ EndSound(file, x)
  BY <1>1, <1>7, <1>10 DEF Sound, HeaderSound, XlenAt, EndSound
<1>12. BodySound(file, x)
  <2>1. BitsSound(file, strm) => BitsSound(file, x)
    BY <1>7 DEF BitsSound, BitsAt
  <2>2. AreaSound(file, strm) => AreaSound(file, x)
    BY <1>7, <1>8 DEF AreaSound
  <2>3. QED BY <1>1, <1>7, <1>10, <2>1, <2>2 DEF Sound, BodySound
<1>13. file.outAt[1] = 0
  <2>1. 1 \in 1..(NTok(file) + 1)
    BY <1>1, FileGives
  <2>2. QED BY <1>1, <2>1, NumbersGive
<1>14. OutSound(file, x)
  <2>1. strm.total_out + strm.obytes_in_dict = 0
    BY <1>1, <1>13 DEF Sound, OutSound
  <2>2. strm.total_out \in Nat /\ strm.obytes_in_dict \in Nat
    BY <1>1, OutGives DEF Sound
  <2>3. x.obytes_in_dict = 0
    BY <1>7, <2>1, <2>2
  <2>4. QED BY <1>1, <1>7, <1>13, <2>1, <2>3 DEF OutSound
<1>15. Sound(file, x)
  BY <1>9, <1>10, <1>11, <1>12, <1>14 DEF Sound
<1>16. ~LateDict => DictSound(file, x)
  <2>1. ASSUME ~LateDict
        PROVE  strm.wsp_page = 0
    <3>1. pc = "open"
      BY <2>1 DEF SetDictionary
    <3>2. CASE rc = "NEED_DICT"
      BY <2>1, <3>1, <3>2 DEF IInv
    <3>3. CASE rc # "NEED_DICT"
      <4>1. strm.total_in = 0
        BY <2>1, <3>3 DEF SetDictionary
      <4>2. QED BY <2>1, <3>1, <4>1 DEF IInv, DictSound
    <3>4. QED BY <3>2, <3>3
  <2>2. Window(file, x.tok) = User
    BY <1>1, <1>7, <1>13 DEF Window
  <2>3. QED BY <1>5, <1>6, <1>7, <2>1, <2>2 DEF DictSound
<1>17. x.gzip_head # NoBuffers /\ x.header_state = "DONE" => x.saved = Lengths(file)
  BY <1>1, <1>9, <1>11, FieldsSaved
<1>18. QED BY <1>1, <1>2, <1>3, <1>7, <1>9, <1>15, <1>16, <1>17 DEF IInv

\* Every step keeps the invariant.
LEMMA NextKeeps ==
  ASSUME IInv, ExtraUsed, [Next]_vars
  PROVE  IInv'
<1>1. ASSUME NEW flush \in Flushes, NEW in \in Chunks, NEW out \in OutSizes, Call(flush, in, out)
      PROVE  IInv'
  BY <1>1, InflateStep DEF Call
<1>2. CASE SetDictionary
  BY <1>2, SetDictionaryStep
<1>3. ASSUME NEW head \in HeaderBuffers, GetHeader(head)
      PROVE  IInv'
  BY <1>3, GetHeaderStep
<1>4. CASE Reset
  BY <1>4, ResetStep
<1>5. CASE UNCHANGED vars
  <2>1. file' = file /\ strm' = strm /\ pc' = pc /\ rc' = rc
    BY <1>5 DEF vars
  <2>2. QED BY <2>1 DEF IInv
<1>6. QED BY <1>1, <1>2, <1>3, <1>4, <1>5 DEF Next

-----------------------------------------------------------------------------
(* Theorems                                                                 *)

\* The type invariant, from the invariant.
LEMMA TypeFromIInv ==
  ASSUME IInv
  PROVE  TypeOK
<1>1. /\ file \in Files /\ Stream(file, strm) /\ strm.avail_out = 0
      /\ pc \in {"open", "fault", "failed", "ended"}
      /\ rc \in {"OK", "NEED_DICT", "ERR_GZIP_HDR", "STREAM_END", "DATA_ERROR", "EXECUTE_ERROR"}
  BY DEF IInv
<1>2. strm.avail_in \in 0..FileLen(file) /\ strm.total_in \in 0..FileLen(file)
  <2>1. /\ strm.avail_in \in Nat /\ strm.total_in \in Nat
        /\ strm.total_in + strm.avail_in <= FileLen(file)
    BY <1>1 DEF Stream
  <2>2. FileLen(file) \in Nat
    BY <1>1, LengthsGive
  <2>3. QED BY <2>1, <2>2
<1>3. QED BY <1>1, <1>2 DEF Stream, States, TypeOK

\* Scratch and tree of the next request, from the invariant.
LEMMA RestFromIInv ==
  ASSUME IInv
  PROVE  ScratchHoldsRest /\ TreeKept
<1>1. CASE ~InBody
  BY <1>1 DEF ScratchHoldsRest, TreeKept
<1>2. CASE InBody
  <2>1. /\ file \in Files /\ Stream(file, strm) /\ BodySound(file, strm)
        /\ Parsed(file, strm) /\ ~strm.eob_seen
    BY <1>2 DEF IInv, InBody, Sound, Parsed
  <2>2. BitsSound(file, strm) /\ AreaSound(file, strm) /\ BitsAt(file, strm, strm.total_in)
    BY <2>1 DEF BodySound, BitsSound
  <2>3. /\ Base(strm) \in Nat /\ InScratchBytes(strm) \in Nat
        /\ 8 * Base(strm) = strm.hdr_ib + strm.tree_bits + strm.pad_bits
        /\ Base(strm) = 8 * ((strm.hdr_ib + strm.tree_bits + 63) \div 64)
        /\ (strm.hdr_ib + strm.tree_bits + 7) \div 8 <= Base(strm)
        /\ 8 * InScratchBytes(strm) = strm.scratch_ib + strm.scratch_bits
        /\ Bit(file, strm.tok) = 8 * (Bit(file, strm.tok) \div 8) + strm.scratch_ib
        /\ Bit(file, strm.tok) \div 8 = strm.total_in - InScratchBytes(strm)
        /\ Request(strm).len = Base(strm) + InScratchBytes(strm) /\ Request(strm).len <= TreeLen
    BY <2>1, <2>2, RequestGives
  <2>4. PICK o \in Nat : o = (strm.hdr_ib + strm.tree_bits + 63) \div 64
    <3>1. strm.hdr_ib \in 0..7 /\ strm.tree_bits \in Nat
      BY <2>1 DEF Stream
    <3>2. QED BY <3>1
  <2>5. strm.total_in \in Nat /\ strm.scratch_ib \in Nat /\ strm.scratch_bits \in Nat
        /\ strm.hdr_ib \in Nat
    <3>1. strm.total_in \in Nat /\ strm.scratch_ib \in 0..7 /\ strm.scratch_bits \in Nat
          /\ strm.hdr_ib \in 0..7
      BY <2>1 DEF Stream
    <3>2. QED BY <3>1
  <2>6. (strm.hdr_ib + strm.tree_bits + strm.pad_bits) % 64 = 0
    <3>1. PICK m : m = strm.hdr_ib + strm.tree_bits + strm.pad_bits
      OBVIOUS
    <3>2. m = 64 * o
      BY <2>3, <2>4, <3>1
    <3>3. (64 * o) % 64 = 0
      OBVIOUS
    <3>4. QED BY <3>1, <3>2, <3>3
  <2>7. (strm.scratch_ib + strm.scratch_bits) % 8 = 0 /\ InScratchBytes(strm) = ScratchBytes
    <3>1. PICK m \in Nat : m = InScratchBytes(strm)
      BY <2>3
    <3>2. PICK t : t = strm.scratch_ib + strm.scratch_bits
      OBVIOUS
    <3>3. t = 8 * m
      BY <2>3, <3>1, <3>2
    <3>4. (8 * m) % 8 = 0 /\ (8 * m) \div 8 = m
      OBVIOUS
    <3>5. ScratchBytes = t \div 8
      BY <3>2 DEF ScratchBytes
    <3>6. t % 8 = 0 /\ ScratchBytes = m
      BY <3>3, <3>4, <3>5
    <3>7. QED BY <3>1, <3>2, <3>6
  <2>8. ScratchBase = Base(strm)
    BY DEF ScratchBase, Base
  <2>9. strm.scratch_ib = Bit(file, strm.tok) % 8
    BY <2>2 DEF BitsAt
  <2>10. strm.total_in = Bit(file, strm.tok) \div 8 + ScratchBytes
    BY <2>3, <2>5, <2>7
  <2>11. \A k \in 0..(ScratchBytes - 1) : strm.area[ScratchBase + k] = Bit(file, strm.tok) \div 8 + k
    BY <2>2, <2>7, <2>8 DEF AreaSound
  <2>12. ScratchHoldsRest
    BY <2>6, <2>7, <2>9, <2>10, <2>11 DEF ScratchHoldsRest
  <2>13. PICK hb : hb = file.hdrOf[strm.tok]
    OBVIOUS
  <2>14. strm.tree_bits = TreeBits(file, strm.tok) /\ strm.hdr_ib = TreeIb(file, strm.tok)
    BY <2>2 DEF BitsAt
  <2>15. hb = 0 => strm.tree_bits = 0
    BY <2>13, <2>14 DEF TreeBits
  <2>16. hb # 0 /\ file.body[hb].stored =>
           /\ strm.tree_bits = 40 /\ strm.hdr_ib = 0
           /\ strm.area[0] = StoredHeader(Cardinality({m \in strm.tok..NTok(file) :
                                file.hdrOf[m] = hb /\ file.body[m].k = "raw"}))
    BY <2>2, <2>13, <2>14 DEF TreeBits, TreeIb, StoredIn, AreaSound, RawLeft
  <2>17. hb # 0 /\ ~file.body[hb].stored =>
           /\ strm.tree_bits = file.body[hb].bits /\ strm.hdr_ib = Bit(file, hb) % 8
           /\ \A k \in 0..((strm.hdr_ib + strm.tree_bits + 7) \div 8 - 1) :
                strm.area[k] = Bit(file, hb) \div 8 + k
    BY <2>2, <2>13, <2>14 DEF TreeBits, TreeIb, StoredIn, AreaSound
  <2>18. TreeKept
    BY <2>13, <2>15, <2>16, <2>17 DEF TreeKept
  <2>19. QED BY <2>12, <2>18
<1>3. QED BY <1>1, <1>2

\* The dictionary of the next request, from the invariant.
LEMMA DictFromIInv ==
  ASSUME IInv, ~LateDict
  PROVE  InDictIsWindow
BY DEF IInv, InDictIsWindow, InBody, DictSound, Parsed, Window

\* The header, from the invariant.
LEMMA HeaderFromIInv ==
  ASSUME IInv
  PROVE  HeaderParsed
<1>1. HeaderConsumed
  <2>1. ASSUME pc = "open", file.format # "DEFL"
        PROVE  IF strm.header_state = "DONE" THEN strm.total_in >= HeaderLen(file)
               ELSE strm.total_in < HeaderLen(file) /\ strm.scratch_bits = 0
    <3>1. file \in Files /\ Stream(file, strm) /\ HeaderSound(file, strm)
          /\ (~Parsed(file, strm) => Fresh(strm))
      BY <2>1 DEF IInv, Sound
    <3>2. /\ strm.prefx_idx <= HeaderLen(file) /\ strm.header_state = StateAt(file, strm.prefx_idx)
          /\ strm.header_state # "DONE" => strm.total_in = strm.prefx_idx
          /\ strm.header_state = "DONE" => strm.total_in >= HeaderLen(file)
      BY <2>1, <3>1 DEF HeaderSound
    <3>3. strm.prefx_idx \in Nat /\ HeaderLen(file) \in Nat
      BY <3>1, LengthsGive DEF Stream
    <3>4. strm.header_state # "DONE" => strm.prefx_idx < HeaderLen(file)
      BY <2>1, <3>1, <3>2, <3>3, StateGives
    <3>5. strm.header_state # "DONE" => strm.scratch_bits = 0
      BY <2>1, <3>1 DEF Parsed, Fresh
    <3>6. QED BY <3>2, <3>4, <3>5
  <2>2. QED BY <2>1 DEF HeaderConsumed
<1>2. HeaderSaved
  <2>1. /\ strm.gzip_head # NoBuffers /\ strm.header_state = "DONE" => strm.saved = Lengths(file)
        /\ rc = "ERR_GZIP_HDR" => TooLong(file, strm)
    BY DEF IInv
  <2>2. DOMAIN Lengths(file) = {"extra", "name", "comment"}
    BY DEF Lengths
  <2>3. rc = "ERR_GZIP_HDR" => \E field \in DOMAIN Lengths(file) : Lengths(file)[field] > strm.gzip_head[field]
    BY <2>1, <2>2 DEF TooLong
  <2>4. QED BY <2>1, <2>3 DEF HeaderSaved, Lengths
<1>3. QED BY <1>1, <1>2 DEF HeaderParsed

\* The output and the end, from the invariant.
LEMMA DeliveredFromIInv ==
  ASSUME IInv
  PROVE  Delivered
<1>1. file \in Files /\ Stream(file, strm) /\ rc # "STREAM_ERROR"
  BY DEF IInv
<1>2. OutputOnce
  BY DEF IInv, Sound, OutSound, OutputOnce
<1>3. ASSUME pc = "ended"
      PROVE  /\ strm.total_out = OutLen(file) /\ strm.total_in = FileLen(file)
             /\ ~file.bad /\ strm.avail_in = 0
  <2>1. Ended(file, strm) /\ OutSound(file, strm) /\ EndSound(file, strm)
    BY <1>3 DEF IInv, Sound
  <2>2. /\ strm.eob_seen /\ strm.obytes_in_dict = 0 /\ strm.postfx_idx = TrailerLen(file)
        /\ ~file.bad /\ strm.avail_in = 0
    BY <2>1 DEF Ended
  <2>3. /\ strm.tok = NTok(file) + 1
        /\ strm.total_in = HeaderLen(file) + BodyLen(file) + strm.postfx_idx
    BY <2>1, <2>2 DEF EndSound
  <2>4. strm.total_in = FileLen(file)
    BY <2>2, <2>3 DEF FileLen
  <2>5. strm.total_out = OutLen(file)
    <3>1. strm.total_out + strm.obytes_in_dict = OutLen(file)
      BY <2>1, <2>3 DEF OutSound, OutLen
    <3>2. strm.total_out \in Nat
      BY <1>1, <2>1, OutGives
    <3>3. QED BY <2>2, <3>1, <3>2
  <2>6. QED BY <2>2, <2>4, <2>5
<1>4. QED BY <1>1, <1>2, <1>3 DEF EndIsEnd, Delivered

\* The inductive invariant: in every state the stream that the next call starts from is
\* sound (header parser, scratch and tree of lib/inflate.c, dictionary and counters agree).
THEOREM Invariance ==
  ASSUME ExtraUsed
  PROVE  Spec => []IInv
<1>1. Init => IInv
  BY InitGives
<1>2. IInv /\ [Next]_vars => IInv'
  BY NextKeeps
<1>3. QED BY <1>1, <1>2, PTL DEF Spec

\* Types; the scratch that a request gets before the input (scratch_update) continues the
\* file at the first bit that was not decoded, and the tree before it (extract_new_tree, or
\* the header of a cut stored block) is that of the block in progress; with dictionaries set
\* at any time.
THEOREM RequestContinues ==
  ASSUME ExtraUsed
  PROVE  Spec => [](TypeOK /\ ScratchHoldsRest /\ TreeKept)
<1>1. IInv => TypeOK /\ ScratchHoldsRest /\ TreeKept
  BY TypeFromIInv, RestFromIInv
<1>2. QED BY <1>1, Invariance, PTL

\* All of that and the dictionary, when the application sets one only before a request was
\* sent: the next request gets the input, the tree and the window that continue the last.
THEOREM RequestIsWhole ==
  ASSUME ExtraUsed, ~LateDict
  PROVE  Spec => []RequestHoldsRest
<1>1. IInv => RequestHoldsRest
  BY TypeFromIInv, RestFromIInv, DictFromIInv DEF RequestHoldsRest
<1>2. QED BY <1>1, Invariance, PTL

\* inflate_format_rem_header takes the bytes of the header and not one more, its fields end
\* up complete in the buffers of zedc_inflateGetHeader, and it refuses only what does not fit.
THEOREM HeaderIsParsed ==
  ASSUME ExtraUsed
  PROVE  Spec => []HeaderParsed
<1>1. IInv => HeaderParsed
  BY HeaderFromIInv
<1>2. QED BY <1>1, Invariance, PTL

\* What was decompressed is what the caller got and what waits in the dictionary; STREAM_END
\* comes with all of it, at the last byte of a file whose checksum is right, and no call
\* finds its own bookkeeping in error.
THEOREM OutputDelivered ==
  ASSUME ExtraUsed
  PROVE  Spec => []Delivered
<1>1. IInv => Delivered
  BY DeliveredFromIInv
<1>2. QED BY <1>1, Invariance, PTL
=============================================================================
