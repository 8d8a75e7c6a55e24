--------------------------- MODULE CardFlashProofs ---------------------------
(***************************************************************************)
(* Proofs about CardFlash: what success of a program says about the flash  *)
(* and the files, and that a partition is whole or somebody knows that it  *)
(* is not, for any number of programs, partitions and images of any size,  *)
(* and all failures of the card.                                           *)
(***************************************************************************)
EXTENDS CardFlash, SequenceTheorems, FiniteSetTheorems, WellFoundedInduction, TLAPS

-----------------------------------------------------------------------------
(* Premises                                                                *)

Writers == Asking({"show", "conv", "reverse", "read"})

\* An image fits into its partition, also the one that is copied over another.
ImagesFit ==
  /\ Len(NewImage) <= get_rbf_size
  /\ \A s \in Starts, p \in {"0", "1"} : get_rbf_size <= Len(s.flash[p])

\* No program writes to an image that another one programs, nor to a file to which a partition
\* is saved.
FilesApart ==
  /\ \A d \in Writers : d.out # ImageFile /\ \A c \in Asking({"update"}) : d.out # c.in
  /\ \A c \in Asking({"read"}), d \in Asking({"show", "conv", "reverse"}) : c.out # d.out

\* One process writes product data to the card.
OneVpdUpdate ==
  \A t, u \in Tools : \A c \in Commands[t], d \in Commands[u] :
    c.op = "vpdupdate" /\ d.op = "vpdupdate" => t = u

-----------------------------------------------------------------------------
(* The inductive invariant                                                 *)

Images == {"0", "1"}
Pcs == {"ended", "start", "lstat", "fstat", "readfile", "erase", "program", "verify",
        "check", "readflash", "convert", "flush", "write"}

\* How far a program can write in a partition.
Reach(p) == IF p = "v" THEN LINES_IN_VPD ELSE get_rbf_size

FlashOK ==
  /\ flash = [p \in Partitions |-> flash[p]]
  /\ \A p \in Images : flash[p] \in Seq(Nat) /\ get_rbf_size <= Len(flash[p])
  /\ IsSequence(flash["v"]) /\ Len(flash["v"]) = LINES_IN_VPD
  /\ \A p \in Partitions : \E s \in Starts : Len(flash[p]) = Len(s.flash[p])

FileOK ==
  /\ file = [f \in DOMAIN file |-> file[f]]
  /\ \A f \in DOMAIN file : file[f] = None \/ IsSequence(file[f])
  /\ \A c \in Asking({"update", "vpdupdate", "conv", "reverse"}) : c.in \in DOMAIN file
  /\ \A c \in Writers : c.out \in DOMAIN file
  /\ \A c \in Asking({"update"}) : file[c.in] \in Seq(Block) \cup {None}
  /\ ImageFile \in DOMAIN file /\ file[ImageFile] \in Seq(Block) \cup {None}
  /\ copy \in Seq(Block) /\ Len(copy) <= Len(NewImage)
  /\ copy # <<>> => /\ file[ImageFile] \in Seq(Block)
                    /\ Len(file[ImageFile]) + Len(copy) <= Len(NewImage)

Others ==
  /\ disturbed \in [Tools -> SUBSET {"flash", "file"}]
  /\ reported \subseteq Partitions
  /\ budget \in [run : 0 .. MaxRuns, fault : 0 .. MaxFaults]

IsTool(r) == r = [cmd |-> r.cmd, pc |-> r.pc, buf |-> r.buf, size |-> r.size, off |-> r.off,
                  errno |-> r.errno, rc |-> r.rc]

\* Where a program can be.
TypedTool(t) ==
  /\ IsTool(tool[t])
  /\ tool[t].cmd \in Commands[t] \cup {None}
  /\ tool[t].pc \in Pcs
  /\ IsSequence(tool[t].buf)
  /\ tool[t].size \in Nat
  /\ tool[t].off \in 0 .. Len(tool[t].buf)
  /\ tool[t].errno \in {"", "EIO", "ENOSPC"}
  /\ tool[t].rc \in {"ok", "fail"}
PcOK(t) ==
  /\ tool[t].pc \notin {"program", "verify"} => tool[t].off = 0
  /\ tool[t].pc = "program" /\ Is(t, {"vpdupdate"}) => tool[t].off \in {0, Len(tool[t].buf)}
  /\ tool[t].cmd = None => tool[t].pc = "ended" /\ tool[t].rc = "fail"
  /\ tool[t].pc \in {"lstat", "fstat", "readfile", "verify"} => Is(t, {"update"})
  /\ tool[t].pc \in {"erase", "program"} => Is(t, {"update", "vpdupdate"})
  /\ tool[t].pc \in {"lstat", "fstat", "readfile", "erase", "program", "verify"} /\ Is(t, {"update"})
       => Partition(t) \in Images
  /\ tool[t].pc = "check" => Is(t, {"vpdupdate"})
  /\ tool[t].pc = "convert" => Is(t, {"conv", "reverse"})
  /\ tool[t].pc = "flush" => Is(t, {"show", "conv", "reverse"})
  /\ tool[t].pc = "readflash" => Is(t, {"show", "read"})
  /\ tool[t].pc = "write" => Is(t, {"read"})
ToolOK(t) == TypedTool(t) /\ PcOK(t)

\* What a program knows of its files, genwqe_update of the size of its image.
OpenOK(t) ==
  /\ tool[t].pc \in {"fstat", "readfile"} => file[tool[t].cmd.in] # None
  /\ tool[t].pc \in {"check", "convert"} => IsSequence(file[tool[t].cmd.in])
  /\ tool[t].pc \in {"convert", "flush"} \/ (tool[t].pc = "readflash" /\ Is(t, {"show"})) =>
       IsSequence(file[tool[t].cmd.out])
  /\ tool[t].pc = "fstat" => /\ Len(file[tool[t].cmd.in]) <= get_rbf_size
                             /\ "file" \notin disturbed[t] => Len(file[tool[t].cmd.in]) = get_rbf_size
  /\ tool[t].pc = "readfile" => /\ tool[t].size <= get_rbf_size
                                /\ "file" \notin disturbed[t] => tool[t].size = get_rbf_size

\* What was written, or will be.
Holds(t) == tool[t].pc \in {"erase", "program", "verify"} \/ Good(t, {"update", "vpdupdate"})
BufOK(t) ==
  Holds(t) =>
    /\ Is(t, {"update"}) => /\ Partition(t) \in Images
                            /\ tool[t].buf \in Seq(Block) /\ Len(tool[t].buf) <= get_rbf_size
                            /\ "file" \notin disturbed[t] => Len(tool[t].buf) = get_rbf_size
    /\ Is(t, {"vpdupdate"}) => /\ Len(tool[t].buf) = LINES_IN_VPD
                               /\ \A i \in DOMAIN tool[t].buf : tool[t].buf[i] # ErasedField

\* What was programmed is there, unless somebody else was.
Verified(t) == /\ Good(t, {"update", "vpdupdate"})
               /\ tool[t].cmd.op = "update" => tool[t].cmd.verify
               /\ tool[t].errno # "ENOSPC"
WrittenOK(t) ==
  "flash" \notin disturbed[t] =>
    /\ tool[t].pc = "program" => \A i \in 1 .. tool[t].off :
         \/ flash[Partition(t)][i] = tool[t].buf[i]
         \/ Partition(t) \in Images /\ flash[Partition(t)][i] = Wrong
    /\ Verified(t) => \A i \in 1 .. Len(tool[t].buf) : flash[Partition(t)][i] = tool[t].buf[i]

\* Programs that saved a partition, or are about to, each have a file of their own.
Saves(t) == tool[t].cmd # None /\ Is(t, {"read"}) /\ tool[t].pc \in {"readflash", "write"}
Saved(t) == Good(t, {"read"})
SaveOK(t) ==
  /\ Saves(t) => file[tool[t].cmd.out] = <<>>
  /\ tool[t].pc = "write" => tool[t].buf \in Seq(Nat)
  /\ tool[t].pc = "write" /\ "flash" \notin disturbed[t] =>
       tool[t].buf = SubSeq(flash[Partition(t)], 1, get_rbf_size)
  /\ Saved(t) => file[tool[t].cmd.out] # None
  /\ Saved(t) /\ "flash" \notin disturbed[t] =>
       file[tool[t].cmd.out] = SubSeq(flash[Partition(t)], 1, get_rbf_size)
SavesApart ==
  \A t, u \in Tools : (Saves(t) \/ Saved(t)) /\ (Saves(u) \/ Saved(u)) /\ t # u =>
    tool[t].cmd.out # tool[u].cmd.out

\* An erased block is one that somebody still has to program, or was reported.
Programs(t, p, i) == /\ tool[t].pc = "program" /\ Partition(t) = p
                     /\ tool[t].off < i /\ i <= Len(tool[t].buf)
ErasedOK ==
  \A p \in Partitions : \A i \in DOMAIN flash[p] :
    flash[p][i] = Erased(p) => /\ i <= Reach(p)
                               /\ p \in reported \/ \E t \in Tools : Programs(t, p, i)

Local(t) == ToolOK(t) /\ OpenOK(t) /\ BufOK(t) /\ WrittenOK(t) /\ SaveOK(t)

IInv ==
  /\ FlashOK /\ FileOK /\ Others
  /\ tool = [t \in Tools |-> tool[t]]
  /\ \A t \in Tools : Local(t)
  /\ SavesApart /\ ErasedOK

\* Product data that a program writes are good, and partly written ones have erased fields.
Correct(bin) == Whole(bin) /\ CrcGood(bin)
WritesVpd(t) == tool[t].pc \in {"erase", "program"} /\ Is(t, {"vpdupdate"})
VpdWriter(t) ==
  WritesVpd(t) => /\ Correct(tool[t].buf)
                  /\ tool[t].pc = "program" /\ tool[t].off = 0 =>
                       \A k \in DOMAIN flash["v"] : flash["v"][k] = ErasedField
VpdOK == VpdIsWhole /\ \A t \in Tools : VpdWriter(t)

-----------------------------------------------------------------------------
(* Sequences                                                               *)

LEMMA SequenceIs ==
  ASSUME NEW s, IsSequence(s)
  PROVE  Len(s) \in Nat /\ DOMAIN s = 1 .. Len(s)
BY LenProperties DEF IsSequence

LEMMA SequenceIn ==
  ASSUME NEW s, IsSequence(s), NEW S, \A i \in 1 .. Len(s) : s[i] \in S
  PROVE  s \in Seq(S)
<1>1. PICK R : R = {s[i] : i \in DOMAIN s}
  OBVIOUS
<1>2. s \in Seq(R)
  BY <1>1 DEF IsSequence
<1>3. s \in [1 .. Len(s) -> R] /\ Len(s) \in Nat
  BY <1>2, LenProperties
<1>4. s \in [1 .. Len(s) -> S]
  BY <1>3
<1>5. QED BY <1>3, <1>4, SeqDef

LEMMA SeqIsSequence ==
  ASSUME NEW S, NEW s \in Seq(S)
  PROVE  IsSequence(s) /\ Len(s) \in Nat /\ DOMAIN s = 1 .. Len(s) /\ \A i \in 1 .. Len(s) : s[i] \in S
<1>1. s \in [1 .. Len(s) -> S] /\ Len(s) \in Nat
  BY LenProperties
<1>2. PICK R : R = {s[i] : i \in DOMAIN s}
  OBVIOUS
<1>3. s \in [1 .. Len(s) -> R]
  BY <1>1, <1>2
<1>4. s \in Seq(R)
  BY <1>1, <1>3, SeqDef
<1>5. QED BY <1>1, <1>2, <1>4 DEF IsSequence

LEMMA FunctionIsSequence ==
  ASSUME NEW n \in Nat, NEW s, s = [i \in 1 .. n |-> s[i]]
  PROVE  IsSequence(s) /\ Len(s) = n
<1>1. PICK R : R = {s[i] : i \in DOMAIN s}
  OBVIOUS
<1>2. s \in [1 .. n -> R]
  BY <1>1
<1>3. s \in Seq(R)
  BY <1>2, SeqDef
<1>4. DOMAIN s = 1 .. n /\ DOMAIN s = 1 .. Len(s) /\ Len(s) \in Nat
  BY <1>2, <1>3, LenProperties
<1>5. Len(s) = n
  BY <1>4
<1>6. QED BY <1>1, <1>3, <1>5 DEF IsSequence

LEMMA SequencesEqual ==
  ASSUME NEW s, NEW t, IsSequence(s), IsSequence(t), Len(s) = Len(t), \A i \in 1 .. Len(s) : s[i] = t[i]
  PROVE  s = t
<1>1. PICK R : R = {s[i] : i \in 1 .. Len(s)}
  OBVIOUS
<1>2. s \in Seq(R) /\ t \in Seq(R)
  BY <1>1, SequenceIn
<1>3. QED BY <1>2, SeqEqual

\* A part of a sequence.
LEMMA PartOf ==
  ASSUME NEW s, IsSequence(s), NEW m \in Nat \ {0}, NEW n \in Nat, n <= Len(s), m <= n + 1
  PROVE  /\ IsSequence(SubSeq(s, m, n)) /\ Len(SubSeq(s, m, n)) = n - m + 1
         /\ \A i \in 1 .. n - m + 1 : SubSeq(s, m, n)[i] = s[m + i - 1]
<1>1. PICK R : R = {s[i] : i \in DOMAIN s}
  OBVIOUS
<1>2. s \in Seq(R) /\ Len(s) \in Nat
  BY <1>1, SequenceIs DEF IsSequence
<1>3. SubSeq(s, m, n) \in Seq(R)
  BY <1>2, SubSeqProperties
<1>4. /\ Len(SubSeq(s, m, n)) = n - m + 1
      /\ \A i \in 1 .. n - m + 1 : SubSeq(s, m, n)[i] = s[m + i - 1]
  BY <1>2, SubSeqProperties
<1>5. QED BY <1>3, <1>4, SeqIsSequence

LEMMA ConcatGives ==
  ASSUME NEW s, NEW t, IsSequence(s), IsSequence(t), NEW k, k = s \o t
  PROVE  /\ IsSequence(k) /\ Len(k) = Len(s) + Len(t)
         /\ \A i \in 1 .. Len(s) : k[i] = s[i]
         /\ \A i \in 1 .. Len(t) : k[Len(s) + i] = t[i]
<1>1. PICK R : R = {s[i] : i \in 1 .. Len(s)} \cup {t[i] : i \in 1 .. Len(t)}
  OBVIOUS
<1>2. s \in Seq(R) /\ t \in Seq(R) /\ Len(s) \in Nat /\ Len(t) \in Nat
  BY <1>1, SequenceIn, SequenceIs
<1>3. /\ k \in Seq(R) /\ Len(k) = Len(s) + Len(t)
      /\ \A i \in 1 .. Len(s) + Len(t) : k[i] = IF i <= Len(s) THEN s[i] ELSE t[i - Len(s)]
  BY <1>2, ConcatProperties
<1>4. IsSequence(k)
  BY <1>3, SeqIsSequence
<1>5. \A i \in 1 .. Len(s) : k[i] = s[i]
  BY <1>2, <1>3
<1>6. ASSUME NEW i \in 1 .. Len(t)
      PROVE  k[Len(s) + i] = t[i]
  <2>1. Len(s) + i \in 1 .. Len(s) + Len(t) /\ ~(Len(s) + i <= Len(s)) /\ Len(s) + i - Len(s) = i
    BY <1>2
  <2>2. QED BY <1>3, <2>1
<1>7. QED BY <1>3, <1>4, <1>5, <1>6

\* Overwrite within a sequence changes what is overwritten and keeps the size.
LEMMA OverwriteGives ==
  ASSUME NEW s, NEW c, IsSequence(s), IsSequence(c), NEW off \in Nat, off + Len(c) <= Len(s),
         NEW o, o = Overwrite(s, off, c)
  PROVE  /\ IsSequence(o) /\ Len(o) = Len(s)
         /\ \A i \in 1 .. Len(c) : o[off + i] = c[i]
         /\ \A i \in 1 .. Len(s) : ~(off < i /\ i <= off + Len(c)) => o[i] = s[i]
<1>1. Len(s) \in Nat /\ Len(c) \in Nat
  BY SequenceIs
<1> DEFINE a == SubSeq(s, 1, off)
           b == SubSeq(s, off + Len(c) + 1, Len(s))
<1>2. IsSequence(a) /\ Len(a) = off /\ \A i \in 1 .. off : a[i] = s[i]
  BY <1>1, PartOf
<1>3. /\ IsSequence(b) /\ Len(b) = Len(s) - off - Len(c)
      /\ \A i \in 1 .. Len(s) - off - Len(c) : b[i] = s[off + Len(c) + i]
  <2>1. PICK m \in Nat \ {0} : m = off + Len(c) + 1 /\ m <= Len(s) + 1
    BY <1>1
  <2>2. PICK k : k = SubSeq(s, m, Len(s))
    OBVIOUS
  <2>3. /\ IsSequence(k) /\ Len(k) = Len(s) - m + 1
        /\ \A i \in 1 .. Len(s) - m + 1 : k[i] = s[m + i - 1]
    BY <1>1, <2>1, <2>2, PartOf
  <2>4. Len(s) - m + 1 = Len(s) - off - Len(c)
    BY <1>1, <2>1
  <2>5. ASSUME NEW i \in 1 .. Len(s) - off - Len(c)
        PROVE  k[i] = s[off + Len(c) + i]
    <3>1. m + i - 1 = off + Len(c) + i
      BY <1>1, <2>1
    <3>2. QED BY <2>3, <2>4, <3>1
  <2>6. b = k
    BY <2>1, <2>2
  <2>7. QED BY <2>3, <2>4, <2>5, <2>6
<1> HIDE DEF a, b
<1>4. PICK ac : ac = a \o c
  OBVIOUS
<1>5. /\ IsSequence(ac) /\ Len(ac) = Len(a) + Len(c)
      /\ \A i \in 1 .. Len(a) : ac[i] = a[i]
      /\ \A i \in 1 .. Len(c) : ac[Len(a) + i] = c[i]
  <2>1. IsSequence(ac) /\ Len(ac) = Len(a) + Len(c)
    BY <1>2, <1>4, ConcatGives
  <2>2. \A i \in 1 .. Len(a) : ac[i] = a[i]
    BY <1>2, <1>4, ConcatGives
  <2>3. \A i \in 1 .. Len(c) : ac[Len(a) + i] = c[i]
    BY <1>2, <1>4, ConcatGives
  <2>4. QED BY <2>1, <2>2, <2>3
<1>6. PICK acb : acb = ac \o b
  OBVIOUS
<1>7. /\ IsSequence(acb) /\ Len(acb) = Len(ac) + Len(b)
      /\ \A i \in 1 .. Len(ac) : acb[i] = ac[i]
      /\ \A i \in 1 .. Len(b) : acb[Len(ac) + i] = b[i]
  <2> IsSequence(ac) /\ IsSequence(b)
    BY <1>3, <1>5
  <2>1. IsSequence(acb) /\ Len(acb) = Len(ac) + Len(b)
    BY <1>6, ConcatGives
  <2>2. \A i \in 1 .. Len(ac) : acb[i] = ac[i]
    BY <1>6, ConcatGives
  <2>3. \A i \in 1 .. Len(b) : acb[Len(ac) + i] = b[i]
    BY <1>6, ConcatGives
  <2>4. QED BY <2>1, <2>2, <2>3
<1>8. o = acb
  BY <1>4, <1>6 DEF Overwrite, a, b
<1>9. Len(a) = off /\ Len(ac) = off + Len(c) /\ Len(b) = Len(s) - off - Len(c)
  BY <1>2, <1>3, <1>5
<1>10. IsSequence(o) /\ Len(o) = Len(s)
  <2>1. Len(acb) = Len(s)
    BY <1>1, <1>7, <1>9
  <2>2. QED BY <1>7, <1>8, <2>1
<1>11. ASSUME NEW i \in 1 .. Len(c)
       PROVE  o[off + i] = c[i]
  <2>1. off + i \in 1 .. Len(ac)
    BY <1>1, <1>9
  <2>2. QED BY <1>5, <1>7, <1>8, <1>9, <2>1
<1>12. ASSUME NEW i \in 1 .. Len(s), ~(off < i /\ i <= off + Len(c))
       PROVE  o[i] = s[i]
  <2>1. CASE i <= off
    <3>1. i \in 1 .. off /\ i \in 1 .. Len(ac)
      BY <1>1, <1>9, <2>1
    <3>2. QED BY <1>2, <1>5, <1>7, <1>8, <1>9, <3>1
  <2>2. CASE i > off + Len(c)
    <3>1. PICK j \in Int : j = i - Len(ac)
      <4>1. i - Len(ac) \in Int
        BY <1>1, <1>9
      <4>2. QED BY <4>1, Zenon
    <3>2. j \in 1 .. Len(b) /\ j \in 1 .. Len(s) - off - Len(c) /\ i = Len(ac) + j /\ i = off + Len(c) + j
      BY <1>1, <1>9, <2>2, <3>1
    <3>3. o[i] = b[j]
      BY <1>7, <1>8, <3>2
    <3>4. b[j] = s[off + Len(c) + j]
      BY <1>3, <3>2
    <3>5. QED BY <3>2, <3>3, <3>4
  <2>3. QED BY <1>1, <1>12, <2>1, <2>2
<1>13. QED BY <1>10, <1>11, <1>12

\* ... and over an empty file leaves what was written.
LEMMA OverwriteEmpty ==
  ASSUME NEW c, IsSequence(c)
  PROVE  Overwrite(<<>>, 0, c) = c
<1>1. Len(c) \in Nat
  BY SequenceIs
<1>2. PICK R : R = {c[i] : i \in DOMAIN c}
  OBVIOUS
<1>3. c \in Seq(R)
  BY <1>2 DEF IsSequence
<1>4. SubSeq(<<>>, 1, 0) = <<>>
  BY SubSeqEmpty
<1>5. SubSeq(<<>>, 0 + Len(c) + 1, Len(<<>>)) = <<>>
  <2>1. Len(<<>>) = 0
    BY EmptySeq
  <2>2. 0 + Len(c) + 1 \in Int /\ 0 < 0 + Len(c) + 1
    BY <1>1
  <2>3. QED BY <2>1, <2>2, SubSeqEmpty
<1>6. Overwrite(<<>>, 0, c) = (<<>> \o c) \o <<>>
  BY <1>4, <1>5 DEF Overwrite
<1>7. (<<>> \o c) = c /\ c \o <<>> = c
  BY <1>3, ConcatEmptySeq
<1>8. QED BY <1>6, <1>7

-----------------------------------------------------------------------------
(* What a step changes                                                     *)

\* Only the program t goes on.
Only(t) == tool' = [tool EXCEPT ![t] = tool'[t]]

LEMMA OnlyIs ==
  ASSUME IInv, NEW t \in Tools, Only(t)
  PROVE  tool' = [u \in Tools |-> tool'[u]] /\ \A u \in Tools \ {t} : tool'[u] = tool[u]
BY DEF Only, IInv

LEMMA ToolIs ==
  ASSUME IInv, NEW t \in Tools
  PROVE  /\ ToolOK(t) /\ IsTool(tool[t]) /\ IsSequence(tool[t].buf) /\ Len(tool[t].buf) \in Nat
         /\ DOMAIN tool[t].buf = 1 .. Len(tool[t].buf)
         /\ tool[t].off \in Nat /\ tool[t].off <= Len(tool[t].buf)
<1>1. ToolOK(t)
  BY DEF IInv, Local
<1>2. IsTool(tool[t]) /\ IsSequence(tool[t].buf) /\ tool[t].off \in 0 .. Len(tool[t].buf)
  BY <1>1 DEF ToolOK, TypedTool, PcOK
<1>3. Len(tool[t].buf) \in Nat /\ DOMAIN tool[t].buf = 1 .. Len(tool[t].buf)
  BY <1>2, SequenceIs
<1>4. QED BY <1>1, <1>2, <1>3

LEMMA FlashIs ==
  ASSUME IInv, NEW p \in Partitions
  PROVE  IsSequence(flash[p]) /\ Len(flash[p]) \in Nat /\ DOMAIN flash[p] = 1 .. Len(flash[p])
         /\ \A i \in DOMAIN flash[p] : i \in Nat
<1>1. p \in Images => flash[p] \in Seq(Nat)
  BY DEF IInv, FlashOK
<1>2. p \notin Images => IsSequence(flash[p])
  BY DEF IInv, FlashOK, Images, Partitions
<1>3. IsSequence(flash[p])
  BY <1>1, <1>2, SeqIsSequence
<1>4. QED BY <1>3, SequenceIs

LEMMA GoesGives ==
  ASSUME IInv, NEW t \in Tools, NEW pc, Goes(t, pc)
  PROVE  /\ Only(t) /\ IsTool(tool'[t])
         /\ tool'[t].pc = pc /\ tool'[t].cmd = tool[t].cmd /\ tool'[t].buf = tool[t].buf
         /\ tool'[t].size = tool[t].size /\ tool'[t].off = tool[t].off
         /\ tool'[t].errno = tool[t].errno /\ tool'[t].rc = tool[t].rc
<1>1. PICK r : r = tool[t]
  OBVIOUS
<1>2. IsTool(r) /\ tool = [u \in Tools |-> tool[u]]
  BY <1>1 DEF IInv, Local, ToolOK, TypedTool, PcOK
<1>3. tool' = [tool EXCEPT ![t] = [r EXCEPT !.pc = pc]]
  BY <1>1, <1>2 DEF Goes
<1>4. tool'[t] = [r EXCEPT !.pc = pc]
  BY <1>2, <1>3
<1>5. Only(t)
  BY <1>3, <1>4 DEF Only
<1>6. PICK q : q = [r EXCEPT !.pc = pc]
  OBVIOUS
<1>7. q = [cmd |-> r.cmd, pc |-> pc, buf |-> r.buf, size |-> r.size, off |-> r.off,
           errno |-> r.errno, rc |-> r.rc]
  BY <1>2, <1>6 DEF IsTool
<1>8. IsTool(q) /\ q.pc = pc /\ q.cmd = r.cmd /\ q.buf = r.buf /\ q.size = r.size /\ q.off = r.off
      /\ q.errno = r.errno /\ q.rc = r.rc
  BY <1>7 DEF IsTool
<1>9. QED BY <1>1, <1>4, <1>5, <1>6, <1>8

LEMMA SameRc ==
  ASSUME NEW r, IsTool(r)
  PROVE  [r EXCEPT !.rc = r.rc] = r
BY DEF IsTool

LEMMA EndedIs ==
  /\ IsTool(Ended) /\ Ended.pc = "ended" /\ Ended.cmd = None /\ Ended.rc = "fail"
  /\ Ended.size = 0 /\ Ended.off = 0 /\ Ended.errno = "" /\ Ended.buf = <<>>
<1>1. PICK e : e = <<>>
  OBVIOUS
<1>2. PICK q : q = Ended
  OBVIOUS
<1>3. q = [cmd |-> None, pc |-> "ended", buf |-> e, size |-> 0, off |-> 0, errno |-> "", rc |-> "fail"]
  BY <1>1, <1>2, Zenon DEF Ended
<1>4. /\ q.pc = "ended" /\ q.cmd = None /\ q.rc = "fail"
      /\ q.size = 0 /\ q.off = 0 /\ q.errno = "" /\ q.buf = e
  BY <1>3
<1>5. IsTool(q)
  BY <1>3, <1>4, Zenon DEF IsTool
<1>6. QED BY <1>1, <1>2, <1>4, <1>5, Zenon

LEMMA FailGives ==
  ASSUME IInv, NEW t \in Tools, NEW errno, EndsWith(t, errno, "fail")
  PROVE  Only(t) /\ tool'[t] = Ended
<1>1. tool = [u \in Tools |-> tool[u]]
  BY DEF IInv
<1>2. tool' = [tool EXCEPT ![t] = [Ended EXCEPT !.rc = "fail"]]
  BY DEF EndsWith
<1>3. [Ended EXCEPT !.rc = "fail"] = Ended
  <2>1. [Ended EXCEPT !.rc = Ended.rc] = Ended
    BY EndedIs, SameRc, Zenon
  <2>2. QED BY <2>1, EndedIs, Zenon
<1>4. QED BY <1>1, <1>2, <1>3 DEF Only

LEMMA OkGives ==
  ASSUME IInv, NEW t \in Tools, NEW errno, EndsWith(t, errno, "ok")
  PROVE  /\ Only(t) /\ IsTool(tool'[t])
         /\ tool'[t].pc = "ended" /\ tool'[t].cmd = tool[t].cmd /\ tool'[t].buf = tool[t].buf
         /\ tool'[t].size = 0 /\ tool'[t].off = 0 /\ tool'[t].errno = errno /\ tool'[t].rc = "ok"
<1>1. PICK r : r = tool[t]
  OBVIOUS
<1>2. IsTool(r) /\ tool = [u \in Tools |-> tool[u]]
  BY <1>1 DEF IInv, Local, ToolOK, TypedTool, PcOK
<1>3. PICK q : q = [r EXCEPT !.pc = "ended", !.size = 0, !.off = 0, !.errno = errno, !.rc = "ok"]
  OBVIOUS
<1>4. tool' = [tool EXCEPT ![t] = q]
  BY <1>1, <1>2, <1>3 DEF EndsWith
<1>5. tool'[t] = q /\ Only(t)
  BY <1>2, <1>4 DEF Only
<1>6. q = [cmd |-> r.cmd, pc |-> "ended", buf |-> r.buf, size |-> 0, off |-> 0,
           errno |-> errno, rc |-> "ok"]
  BY <1>2, <1>3 DEF IsTool
<1>7. IsTool(q) /\ q.pc = "ended" /\ q.cmd = r.cmd /\ q.buf = r.buf /\ q.size = 0 /\ q.off = 0
      /\ q.errno = errno /\ q.rc = "ok"
  BY <1>6 DEF IsTool
<1>8. QED BY <1>1, <1>5, <1>7

\* A program that has ended without success, and what it remembers.
LEMMA EndedLocal ==
  ASSUME NEW t \in Tools, tool'[t] = Ended
  PROVE  /\ Local(t)' /\ ~Saves(t)' /\ ~Saved(t)' /\ \A p, i : ~Programs(t, p, i)'
<1>1. PICK e : e = <<>>
  OBVIOUS
<1>2. /\ IsTool(tool'[t]) /\ tool'[t].pc = "ended" /\ tool'[t].cmd = None /\ tool'[t].rc = "fail"
      /\ tool'[t].size = 0 /\ tool'[t].off = 0 /\ tool'[t].errno = "" /\ tool'[t].buf = e
  BY <1>1, EndedIs, Zenon
<1>3. IsSequence(e) /\ Len(e) = 0
  BY <1>1, SeqIsSequence, EmptySeq
<1>4. ToolOK(t)'
  <2>1. /\ tool'[t].off \in 0 .. Len(tool'[t].buf) /\ IsSequence(tool'[t].buf)
        /\ tool'[t].pc \in Pcs
    <3>1. 0 \in 0 .. Len(e)
      BY <1>3
    <3>2. QED BY <1>2, <1>3, <3>1, Zenon DEF Pcs
  <2>2. tool'[t].cmd \in Commands[t] \cup {None} /\ tool'[t].size \in Nat
    <3>1. tool'[t].cmd \in Commands[t] \cup {None}
      BY <1>2, Zenon
    <3>2. 0 \in Nat
      OBVIOUS
    <3>3. QED BY <1>2, <3>1, <3>2, Zenon
  <2>3. tool'[t].errno \in {"", "EIO", "ENOSPC"} /\ tool'[t].rc \in {"ok", "fail"}
    BY <1>2, Zenon
  <2>4. tool'[t].pc \notin {"lstat", "fstat", "readfile", "erase", "program", "verify", "check",
                           "convert", "flush", "readflash", "write"}
    BY <1>2
  <2>5. QED BY <1>2, <2>1, <2>2, <2>3, <2>4, Zenon DEF ToolOK, TypedTool, PcOK
<1>5. OpenOK(t)' /\ BufOK(t)' /\ WrittenOK(t)' /\ SaveOK(t)' /\ ~Saves(t)' /\ ~Saved(t)'
  BY <1>2 DEF OpenOK, BufOK, Holds, WrittenOK, Verified, SaveOK, Saves, Saved, Good
<1>6. \A p, i : ~Programs(t, p, i)'
  BY <1>2 DEF Programs
<1>7. QED BY <1>5, <1>6, <1>4 DEF Local

\* The same of the first state.
LEMMA EndedIsLocal ==
  ASSUME NEW t \in Tools, tool[t] = Ended
  PROVE  /\ Local(t) /\ ~Saves(t) /\ ~Saved(t) /\ \A p, i : ~Programs(t, p, i)
<1>1. PICK e : e = <<>>
  OBVIOUS
<1>2. /\ IsTool(tool[t]) /\ tool[t].pc = "ended" /\ tool[t].cmd = None /\ tool[t].rc = "fail"
      /\ tool[t].size = 0 /\ tool[t].off = 0 /\ tool[t].errno = "" /\ tool[t].buf = e
  BY <1>1, EndedIs, Zenon
<1>3. IsSequence(e) /\ Len(e) = 0
  BY <1>1, SeqIsSequence, EmptySeq
<1>4. ToolOK(t)
  <2>1. /\ tool[t].off \in 0 .. Len(tool[t].buf) /\ IsSequence(tool[t].buf)
        /\ tool[t].pc \in Pcs
    <3>1. 0 \in 0 .. Len(e)
      BY <1>3
    <3>2. QED BY <1>2, <1>3, <3>1, Zenon DEF Pcs
  <2>2. tool[t].cmd \in Commands[t] \cup {None} /\ tool[t].size \in Nat
    <3>1. tool[t].cmd \in Commands[t] \cup {None}
      BY <1>2, Zenon
    <3>2. 0 \in Nat
      OBVIOUS
    <3>3. QED BY <1>2, <3>1, <3>2, Zenon
  <2>3. tool[t].errno \in {"", "EIO", "ENOSPC"} /\ tool[t].rc \in {"ok", "fail"}
    BY <1>2, Zenon
  <2>4. tool[t].pc \notin {"lstat", "fstat", "readfile", "erase", "program", "verify", "check",
                           "convert", "flush", "readflash", "write"}
    BY <1>2
  <2>5. QED BY <1>2, <2>1, <2>2, <2>3, <2>4, Zenon DEF ToolOK, TypedTool, PcOK
<1>5. OpenOK(t) /\ BufOK(t) /\ WrittenOK(t) /\ SaveOK(t) /\ ~Saves(t) /\ ~Saved(t)
  BY <1>2 DEF OpenOK, BufOK, Holds, WrittenOK, Verified, SaveOK, Saves, Saved, Good
<1>6. \A p, i : ~Programs(t, p, i)
  BY <1>2 DEF Programs
<1>7. QED BY <1>5, <1>6, <1>4 DEF Local

\* A program that makes no step is as sound as before, if what others change tells it so.
LEMMA LocalKept ==
  ASSUME NEW t \in Tools, Local(t), tool'[t] = tool[t], disturbed[t] \subseteq disturbed'[t],
         tool[t].cmd # None =>
           \A p \in {Partition(t)} \cap Partitions : flash'[p] = flash[p] \/ "flash" \in disturbed'[t],
         OpenOK(t)',
         Saves(t) \/ Saved(t) => file'[tool[t].cmd.out] = file[tool[t].cmd.out]
  PROVE  Local(t)' /\ (Saves(t)' <=> Saves(t)) /\ (Saved(t)' <=> Saved(t))
         /\ \A p, i : Programs(t, p, i)' <=> Programs(t, p, i)
<1>1. ToolOK(t)'
  BY DEF Local, ToolOK, TypedTool, PcOK, Is, Partition
<1>2. OpenOK(t)'
  OBVIOUS
<1>3. BufOK(t)'
  BY DEF Local, BufOK, Holds, Good, Is, Partition
<1>4. \A p, i : Programs(t, p, i)' <=> Programs(t, p, i)
  BY DEF Programs, Partition
<1>5. (Saves(t)' <=> Saves(t)) /\ (Saved(t)' <=> Saved(t))
  BY DEF Saves, Saved, Good, Is
<1>6. tool[t].cmd # None => tool[t].cmd \in Commands[t]
  BY DEF Local, ToolOK, TypedTool, PcOK
<1>7. tool[t].cmd # None /\ Is(t, {"vpdupdate"}) => Partition(t) = "v"
  BY <1>6, FlashAssumption DEF Asking, Is, Partition
<1>8. tool[t].cmd # None /\ Is(t, {"read"}) => Partition(t) \in Partitions
  BY <1>6, FlashAssumption DEF Asking, Is, Partition, Partitions
<1>9. WrittenOK(t)'
  <2>1. SUFFICES ASSUME "flash" \notin disturbed'[t], tool[t].pc = "program" \/ Verified(t)
                 PROVE  flash'[Partition(t)] = flash[Partition(t)]
    BY DEF Local, WrittenOK, Verified, Good, Is, Partition
  <2>2. tool[t].cmd # None /\ Is(t, {"update", "vpdupdate"})
    BY <2>1 DEF Local, ToolOK, TypedTool, PcOK, Verified, Good, Is
  <2>3. Holds(t)
    BY <2>1 DEF Holds, Verified
  <2>4. Is(t, {"update"}) => Partition(t) \in Images
    BY <2>3 DEF Local, BufOK
  <2>5. Partition(t) \in Partitions
    BY <2>2, <2>4, <1>7 DEF Images, Partitions, Is
  <2>6. QED BY <2>1, <2>2, <2>5
<1>10. SaveOK(t)'
  <2>1. SUFFICES ASSUME "flash" \notin disturbed'[t], tool[t].pc = "write" \/ Saved(t)
                 PROVE  flash'[Partition(t)] = flash[Partition(t)]
    <3>1. tool[t].pc = "write" => tool[t].buf \in Seq(Nat)
      BY DEF Local, SaveOK
    <3>2. QED BY <1>5, <2>1, <3>1 DEF Local, SaveOK, Partition
  <2>2. tool[t].cmd # None /\ Is(t, {"read"})
    BY <2>1 DEF Local, ToolOK, TypedTool, PcOK, Saved, Good, Is
  <2>3. QED BY <1>8, <2>1, <2>2
<1>11. QED BY <1>1, <1>2, <1>3, <1>4, <1>5, <1>9, <1>10 DEF Local

\* Two programs keep their files apart if none takes another file.
LEMMA ApartKept ==
  ASSUME IInv, NEW t \in Tools, Only(t),
         Saves(t)' \/ Saved(t)' => (Saves(t) \/ Saved(t)) /\ tool'[t].cmd = tool[t].cmd
  PROVE  SavesApart'
<1>1. \A u \in Tools \ {t} : tool'[u] = tool[u]
  BY OnlyIs
<1>2. \A u \in Tools : Saves(u)' \/ Saved(u)' => (Saves(u) \/ Saved(u)) /\ tool'[u].cmd = tool[u].cmd
  <2> TAKE u \in Tools
  <2>1. CASE u # t
    <3>1. tool'[u] = tool[u]
      BY <1>1, <2>1
    <3>2. QED BY <3>1 DEF Saves, Saved, Good, Is
  <2>2. QED BY <2>1
<1>3. SUFFICES ASSUME NEW u \in Tools, NEW v \in Tools, Saves(u)' \/ Saved(u)', Saves(v)' \/ Saved(v)', u # v
               PROVE  tool'[u].cmd.out # tool'[v].cmd.out
  BY DEF SavesApart
<1>4. /\ (Saves(u) \/ Saved(u)) /\ tool'[u].cmd = tool[u].cmd
      /\ (Saves(v) \/ Saved(v)) /\ tool'[v].cmd = tool[v].cmd
  BY <1>2, <1>3
<1>5. QED BY <1>2, <1>3, <1>4 DEF SavesApart, IInv

\* ... and the erased blocks are accounted for if their writer goes on, or they are reported.
LEMMA ErasedKept ==
  ASSUME IInv, NEW t \in Tools, Only(t), flash' = flash, reported \subseteq reported',
         \A p \in Partitions, i \in Nat : Programs(t, p, i) => Programs(t, p, i)' \/ p \in reported'
  PROVE  ErasedOK'
<1>1. \A u \in Tools \ {t} : tool'[u] = tool[u]
  BY OnlyIs
<1>2. \A u \in Tools, p \in Partitions, i \in Nat : Programs(u, p, i) => Programs(u, p, i)' \/ p \in reported'
  <2> TAKE u \in Tools, p \in Partitions, i \in Nat
  <2>1. CASE u # t
    <3>1. tool'[u] = tool[u]
      BY <1>1, <2>1
    <3>2. QED BY <3>1 DEF Programs, Partition
  <2>2. QED BY <2>1
<1>3. \A p \in Partitions : \A i \in DOMAIN flash[p] : i \in Nat
  BY FlashIs
<1>4. QED BY <1>2, <1>3 DEF ErasedOK, IInv, Reach

\* A step that changes the state of one program and what is reported.
LEMMA ToolStep ==
  ASSUME IInv, NEW t \in Tools, Only(t), Local(t)', UNCHANGED <<flash, file, copy, disturbed>>,
         Others', ErasedOK',
         Saves(t)' \/ Saved(t)' => (Saves(t) \/ Saved(t)) /\ tool'[t].cmd = tool[t].cmd
  PROVE  IInv'
<1>1. tool' = [u \in Tools |-> tool'[u]] /\ \A u \in Tools \ {t} : tool'[u] = tool[u]
  BY OnlyIs
<1>2. FlashOK' /\ FileOK'
  BY DEF FlashOK, FileOK, IInv
<1>3. ASSUME NEW u \in Tools \ {t}
      PROVE  Local(u)'
  <2>1. Local(u) /\ tool'[u] = tool[u]
    BY <1>1 DEF IInv
  <2>2. OpenOK(u)'
    BY <2>1 DEF Local, OpenOK, Is
  <2>3. QED BY <2>1, <2>2, LocalKept
<1>4. \A u \in Tools : Local(u)'
  BY <1>3
<1>5. SavesApart'
  BY ApartKept
<1>6. QED BY <1>1, <1>2, <1>4, <1>5 DEF IInv

\* What the bounds allow.
LEMMA BudgetStep ==
  ASSUME IInv, UNCHANGED budget \/ Fault
  PROVE  budget' \in [run : 0 .. MaxRuns, fault : 0 .. MaxFaults]
BY FlashAssumption DEF IInv, Others, Fault

\* A program fails.
LEMMA FailStep ==
  ASSUME IInv, NEW t \in Tools, NEW errno, EndsWith(t, errno, "fail"), UNCHANGED <<flash, file, copy, disturbed>>,
         UNCHANGED budget \/ Fault, reported \subseteq reported', reported' \subseteq Partitions,
         tool[t].pc = "program" /\ tool[t].off < Len(tool[t].buf) => Partition(t) \in reported'
  PROVE  IInv'
<1>1. Only(t) /\ tool'[t] = Ended
  BY FailGives
<1>2. Local(t)' /\ ~Saves(t)' /\ ~Saved(t)'
  BY <1>1, EndedLocal
<1>3. Others'
  BY BudgetStep DEF Others, IInv
<1>4. tool[t].off \in Nat /\ Len(tool[t].buf) \in Nat
  BY ToolIs
<1>5. ErasedOK'
  <2>1. ASSUME NEW p \in Partitions, NEW i \in Nat, Programs(t, p, i)
        PROVE  p \in reported'
    BY <1>4, <2>1 DEF Programs
  <2>2. QED BY <1>1, <2>1, ErasedKept
<1>6. QED BY <1>1, <1>2, <1>3, <1>5, ToolStep

LEMMA SizeGives ==
  ASSUME IInv, NEW t \in Tools, NEW pc, NEW size,
         tool' = [tool EXCEPT ![t].pc = pc, ![t].size = size]
  PROVE  /\ Only(t) /\ IsTool(tool'[t])
         /\ tool'[t].cmd = tool[t].cmd /\ tool'[t].pc = pc /\ tool'[t].buf = tool[t].buf /\ tool'[t].size = size
         /\ tool'[t].off = tool[t].off /\ tool'[t].errno = tool[t].errno /\ tool'[t].rc = tool[t].rc
<1>1. PICK r : r = tool[t]
  OBVIOUS
<1>2. IsTool(r) /\ tool = [u \in Tools |-> tool[u]]
  BY <1>1, ToolIs DEF IInv
<1>3. PICK q : q = [r EXCEPT !.pc = pc, !.size = size]
  OBVIOUS
<1>4. tool' = [tool EXCEPT ![t] = q]
  BY <1>1, <1>2, <1>3
<1>5. tool'[t] = q /\ Only(t)
  BY <1>2, <1>4 DEF Only
<1>6. q = [cmd |-> r.cmd, pc |-> pc, buf |-> r.buf, size |-> size, off |-> r.off, errno |-> r.errno, rc |-> r.rc]
  BY <1>2, <1>3 DEF IsTool
<1>7. IsTool(q) /\ q.cmd = r.cmd /\ q.pc = pc /\ q.buf = r.buf /\ q.size = size /\ q.off = r.off /\ q.errno = r.errno /\ q.rc = r.rc
  BY <1>6 DEF IsTool
<1>8. QED BY <1>1, <1>5, <1>7

LEMMA BufGives ==
  ASSUME IInv, NEW t \in Tools, NEW pc, NEW buf,
         tool' = [tool EXCEPT ![t].pc = pc, ![t].buf = buf]
  PROVE  /\ Only(t) /\ IsTool(tool'[t])
         /\ tool'[t].cmd = tool[t].cmd /\ tool'[t].pc = pc /\ tool'[t].buf = buf /\ tool'[t].size = tool[t].size
         /\ tool'[t].off = tool[t].off /\ tool'[t].errno = tool[t].errno /\ tool'[t].rc = tool[t].rc
<1>1. PICK r : r = tool[t]
  OBVIOUS
<1>2. IsTool(r) /\ tool = [u \in Tools |-> tool[u]]
  BY <1>1, ToolIs DEF IInv
<1>3. PICK q : q = [r EXCEPT !.pc = pc, !.buf = buf]
  OBVIOUS
<1>4. tool' = [tool EXCEPT ![t] = q]
  BY <1>1, <1>2, <1>3
<1>5. tool'[t] = q /\ Only(t)
  BY <1>2, <1>4 DEF Only
<1>6. q = [cmd |-> r.cmd, pc |-> pc, buf |-> buf, size |-> r.size, off |-> r.off, errno |-> r.errno, rc |-> r.rc]
  BY <1>2, <1>3 DEF IsTool
<1>7. IsTool(q) /\ q.cmd = r.cmd /\ q.pc = pc /\ q.buf = buf /\ q.size = r.size /\ q.off = r.off /\ q.errno = r.errno /\ q.rc = r.rc
  BY <1>6 DEF IsTool
<1>8. QED BY <1>1, <1>5, <1>7

LEMMA OffGives ==
  ASSUME IInv, NEW t \in Tools, NEW off,
         tool' = [tool EXCEPT ![t].off = off]
  PROVE  /\ Only(t) /\ IsTool(tool'[t])
         /\ tool'[t].cmd = tool[t].cmd /\ tool'[t].pc = tool[t].pc /\ tool'[t].buf = tool[t].buf /\ tool'[t].size = tool[t].size
         /\ tool'[t].off = off /\ tool'[t].errno = tool[t].errno /\ tool'[t].rc = tool[t].rc
<1>1. PICK r : r = tool[t]
  OBVIOUS
<1>2. IsTool(r) /\ tool = [u \in Tools |-> tool[u]]
  BY <1>1, ToolIs DEF IInv
<1>3. PICK q : q = [r EXCEPT !.off = off]
  OBVIOUS
<1>4. tool' = [tool EXCEPT ![t] = q]
  BY <1>1, <1>2, <1>3
<1>5. tool'[t] = q /\ Only(t)
  BY <1>2, <1>4 DEF Only
<1>6. q = [cmd |-> r.cmd, pc |-> r.pc, buf |-> r.buf, size |-> r.size, off |-> off, errno |-> r.errno, rc |-> r.rc]
  BY <1>2, <1>3 DEF IsTool
<1>7. IsTool(q) /\ q.cmd = r.cmd /\ q.pc = r.pc /\ q.buf = r.buf /\ q.size = r.size /\ q.off = off /\ q.errno = r.errno /\ q.rc = r.rc
  BY <1>6 DEF IsTool
<1>8. QED BY <1>1, <1>5, <1>7

\* A program goes on, and says why it is sound; nothing else changes.
LEMMA GoOn ==
  ASSUME IInv, NEW t \in Tools, Only(t), Local(t)', UNCHANGED <<flash, file, copy, disturbed, reported>>,
         UNCHANGED budget \/ Fault, tool[t].pc # "program",
         Saves(t)' \/ Saved(t)' => (Saves(t) \/ Saved(t)) /\ tool'[t].cmd = tool[t].cmd
  PROVE  IInv'
<1>1. Others'
  BY BudgetStep DEF Others, IInv
<1>2. \A p, i : ~Programs(t, p, i)
  BY DEF Programs
<1>3. ErasedOK'
  BY <1>2, ErasedKept
<1>4. QED BY <1>1, <1>3, ToolStep

\* Where nothing is written or saved yet.
LEMMA IdleLocal ==
  ASSUME NEW t \in Tools, ToolOK(t)', tool'[t].pc \in {"start", "lstat", "check", "convert", "flush", "readflash"},
         OpenOK(t)', tool'[t].pc = "readflash" => Is(t, {"show"})'
  PROVE  Local(t)' /\ ~Saves(t)' /\ ~Saved(t)'
<1>1. BufOK(t)' /\ WrittenOK(t)'
  BY DEF BufOK, Holds, Good, WrittenOK, Verified
<1>2. ~Saves(t)' /\ ~Saved(t)'
  BY DEF Saves, Saved, Good, Is
<1>3. SaveOK(t)'
  BY <1>2 DEF SaveOK
<1>4. QED BY <1>1, <1>2, <1>3 DEF Local

-----------------------------------------------------------------------------
(* The steps of genwqe_update up to the write                              *)

LEMMA UpdateStartKeeps ==
  ASSUME IInv, NEW t \in Tools, UpdateStart(t)
  PROVE  IInv'
<1>1. tool[t].pc = "start" /\ tool[t].cmd.op = "update" /\ UNCHANGED <<flash, file, copy, disturbed, reported>>
      /\ (UNCHANGED budget \/ Fault)
  BY DEF UpdateStart, At
<1>2. CASE tool[t].cmd.part \in {"0", "1"} /\ Goes(t, "lstat")
  <2>1. /\ Only(t) /\ IsTool(tool'[t])
        /\ tool'[t].pc = "lstat" /\ tool'[t].cmd = tool[t].cmd /\ tool'[t].buf = tool[t].buf
        /\ tool'[t].size = tool[t].size /\ tool'[t].off = tool[t].off
        /\ tool'[t].errno = tool[t].errno /\ tool'[t].rc = tool[t].rc
    BY <1>2, GoesGives
  <2>2. ToolOK(t)'
    <3>1. TypedTool(t)'
      BY <2>1, ToolIs DEF ToolOK, TypedTool, Pcs
    <3>2. PcOK(t)'
      BY <1>1, <1>2, <2>1, ToolIs DEF ToolOK, PcOK, Is, Partition, Images
    <3>3. QED BY <3>1, <3>2 DEF ToolOK
  <2>3. Local(t)' /\ ~Saves(t)' /\ ~Saved(t)'
    BY <2>1, <2>2, IdleLocal DEF OpenOK
  <2>4. QED BY <1>1, <2>1, <2>3, GoOn
<1>3. CASE EndsWith(t, tool[t].errno, "fail")
  <2>1. reported' \subseteq Partitions /\ reported \subseteq reported'
    BY <1>1 DEF IInv, Others
  <2>2. QED BY <1>1, <1>3, <2>1, FailStep
<1>4. QED BY <1>2, <1>3 DEF UpdateStart, Ends

LEMMA CheckSizeKeeps ==
  ASSUME IInv, NEW t \in Tools, CheckSize(t)
  PROVE  IInv'
<1>1. tool[t].pc = "lstat" /\ tool[t].cmd.op = "update" /\ UNCHANGED <<flash, file, copy, disturbed, reported, budget>>
  BY DEF CheckSize, At
<1>2. CASE SizeFits(tool[t].cmd.in) /\ Goes(t, "fstat")
  <2>1. /\ Only(t) /\ IsTool(tool'[t])
        /\ tool'[t].pc = "fstat" /\ tool'[t].cmd = tool[t].cmd /\ tool'[t].buf = tool[t].buf
        /\ tool'[t].size = tool[t].size /\ tool'[t].off = tool[t].off
        /\ tool'[t].errno = tool[t].errno /\ tool'[t].rc = tool[t].rc
    BY <1>2, GoesGives
  <2>2. ToolOK(t)'
    <3>1. TypedTool(t)'
      BY <2>1, ToolIs DEF ToolOK, TypedTool, Pcs
    <3>2. PcOK(t)'
      BY <1>1, <1>2, <2>1, ToolIs DEF ToolOK, PcOK, Is, Partition, SizeFits
    <3>3. QED BY <3>1, <3>2 DEF ToolOK
  <2>3. OpenOK(t)'
    BY <1>1, <1>2, <2>1, FlashAssumption DEF OpenOK, SizeFits
  <2>4. BufOK(t)' /\ WrittenOK(t)' /\ SaveOK(t)' /\ ~Saves(t)' /\ ~Saved(t)'
    BY <2>1 DEF BufOK, Holds, Good, WrittenOK, Verified, SaveOK, Saves, Saved
  <2>5. Local(t)'
    BY <2>2, <2>3, <2>4 DEF Local
  <2>6. QED BY <1>1, <2>1, <2>4, <2>5, GoOn
<1>3. CASE EndsWith(t, tool[t].errno, "fail")
  <2>1. reported' \subseteq Partitions /\ reported \subseteq reported'
    BY <1>1 DEF IInv, Others
  <2>2. QED BY <1>1, <1>3, <2>1, FailStep
<1>4. QED BY <1>2, <1>3 DEF CheckSize, Ends

\* The file of a program is a sequence, an image that of genwqe_update.
LEMMA InputIs ==
  ASSUME IInv, NEW t \in Tools, tool[t].cmd # None, Is(t, {"update", "vpdupdate", "conv", "reverse"}),
         file[tool[t].cmd.in] # None
  PROVE  /\ tool[t].cmd.in \in DOMAIN file /\ IsSequence(file[tool[t].cmd.in])
         /\ Len(file[tool[t].cmd.in]) \in Nat
         /\ Is(t, {"update"}) => file[tool[t].cmd.in] \in Seq(Block)
<1>1. tool[t].cmd \in Asking({"update", "vpdupdate", "conv", "reverse"})
      /\ (Is(t, {"update"}) => tool[t].cmd \in Asking({"update"}))
  BY ToolIs DEF ToolOK, TypedTool, PcOK, Asking, Is
<1>2. tool[t].cmd.in \in DOMAIN file /\ IsSequence(file[tool[t].cmd.in])
  BY <1>1 DEF IInv, FileOK
<1>3. Is(t, {"update"}) => file[tool[t].cmd.in] \in Seq(Block)
  BY <1>1 DEF IInv, FileOK
<1>4. QED BY <1>2, <1>3, SequenceIs

LEMMA FstatKeeps ==
  ASSUME IInv, NEW t \in Tools, Fstat(t)
  PROVE  IInv'
<1>1. tool[t].pc = "fstat" /\ tool[t].cmd.op = "update" /\ UNCHANGED <<flash, file, copy, disturbed, reported, budget>>
      /\ tool' = [tool EXCEPT ![t].pc = "readfile", ![t].size = Len(file[tool[t].cmd.in])]
  BY DEF Fstat, At
<1>2. PICK n : n = Len(file[tool[t].cmd.in])
  OBVIOUS
<1>3. n \in Nat
  <2>1. tool[t].cmd # None /\ Is(t, {"update"})
    BY <1>1, ToolIs DEF ToolOK, PcOK, Is
  <2>2. file[tool[t].cmd.in] # None
    BY <1>1 DEF IInv, Local, OpenOK
  <2>3. QED BY <1>2, <2>1, <2>2, InputIs, SeqIsSequence DEF Is
<1>4. /\ Only(t) /\ IsTool(tool'[t])
      /\ tool'[t].cmd = tool[t].cmd /\ tool'[t].pc = "readfile" /\ tool'[t].buf = tool[t].buf /\ tool'[t].size = n
      /\ tool'[t].off = tool[t].off /\ tool'[t].errno = tool[t].errno /\ tool'[t].rc = tool[t].rc
  <2>1. tool' = [tool EXCEPT ![t].pc = "readfile", ![t].size = n]
    BY <1>1, <1>2
  <2>2. QED BY <2>1, SizeGives
<1>5. ToolOK(t)'
  <2>1. TypedTool(t)'
    BY <1>3, <1>4, ToolIs DEF ToolOK, TypedTool, Pcs
  <2>2. PcOK(t)'
    BY <1>1, <1>4, ToolIs DEF ToolOK, PcOK, Is, Partition
  <2>3. QED BY <2>1, <2>2 DEF ToolOK
<1>6. OpenOK(t)
  BY DEF IInv, Local
<1>7. OpenOK(t)'
  BY <1>1, <1>2, <1>4, <1>6 DEF OpenOK
<1>8. BufOK(t)' /\ WrittenOK(t)' /\ SaveOK(t)' /\ ~Saves(t)' /\ ~Saved(t)'
  BY <1>4 DEF BufOK, Holds, Good, WrittenOK, Verified, SaveOK, Saves, Saved
<1>9. Local(t)'
  BY <1>5, <1>7, <1>8 DEF Local
<1>10. QED BY <1>1, <1>4, <1>8, <1>9, GoOn

LEMMA ReadFileKeeps ==
  ASSUME IInv, NEW t \in Tools, ReadFile(t)
  PROVE  IInv'
<1>1. tool[t].pc = "readfile" /\ tool[t].cmd.op = "update" /\ UNCHANGED <<flash, file, copy, disturbed, reported, budget>>
  BY DEF ReadFile, At
<1>2. PICK f : f = file[tool[t].cmd.in]
  OBVIOUS
<1>3. f \in Seq(Block) /\ Len(f) \in Nat /\ IsSequence(f)
  <2>1. tool[t].cmd # None /\ Is(t, {"update"})
    BY <1>1, ToolIs DEF ToolOK, PcOK, Is
  <2>2. file[tool[t].cmd.in] # None
    BY <1>1 DEF IInv, Local, OpenOK
  <2>3. QED BY <1>2, <2>1, <2>2, InputIs, SeqIsSequence DEF Is
<1>4. CASE ~(Len(f) < tool[t].size)
  <2>1. PICK n \in Nat : n = tool[t].size
    BY ToolIs DEF ToolOK, TypedTool, PcOK
  <2>2. PICK b : b = SubSeq(f, 1, n)
    OBVIOUS
  <2>3. n <= Len(f) /\ n <= get_rbf_size /\ ("file" \notin disturbed[t] => n = get_rbf_size)
    BY <1>1, <1>3, <1>4, <2>1 DEF IInv, Local, OpenOK
  <2>4. IsSequence(b) /\ Len(b) = n - 1 + 1 /\ \A i \in 1 .. n - 1 + 1 : b[i] = f[1 + i - 1]
    BY <1>3, <2>2, <2>3, PartOf
  <2>5. Len(b) = n /\ \A i \in 1 .. n : b[i] = f[i]
    BY <2>4
  <2>6. b \in Seq(Block)
    <3>1. \A i \in 1 .. Len(b) : b[i] \in Block
      BY <1>3, <2>3, <2>5, SeqIsSequence
    <3>2. QED BY <2>4, <3>1, SequenceIn
  <2>7. tool' = [tool EXCEPT ![t].pc = "erase", ![t].buf = b]
    BY <1>2, <1>4, <2>1, <2>2 DEF ReadFile
  <2>8. /\ Only(t) /\ IsTool(tool'[t])
        /\ tool'[t].cmd = tool[t].cmd /\ tool'[t].pc = "erase" /\ tool'[t].buf = b /\ tool'[t].size = tool[t].size
        /\ tool'[t].off = tool[t].off /\ tool'[t].errno = tool[t].errno /\ tool'[t].rc = tool[t].rc
    BY <2>7, BufGives
  <2>9. ToolOK(t)'
    <3>1. tool[t].off = 0 /\ 0 \in 0 .. Len(b)
      BY <1>1, <2>1, <2>5, ToolIs DEF ToolOK, PcOK
    <3>2. TypedTool(t)'
      BY <2>4, <2>8, <3>1, ToolIs DEF ToolOK, TypedTool, Pcs
    <3>3. PcOK(t)'
      BY <1>1, <2>8, <3>1, ToolIs DEF ToolOK, PcOK, Is, Partition
    <3>4. QED BY <3>2, <3>3 DEF ToolOK
  <2>10. BufOK(t)'
    BY <1>1, <2>3, <2>5, <2>6, <2>8, ToolIs DEF BufOK, ToolOK, TypedTool, PcOK, Is, Partition
  <2>11. OpenOK(t)' /\ WrittenOK(t)' /\ SaveOK(t)' /\ ~Saves(t)' /\ ~Saved(t)'
    BY <2>8 DEF OpenOK, Good, WrittenOK, Verified, SaveOK, Saves, Saved
  <2>12. Local(t)'
    BY <2>9, <2>10, <2>11 DEF Local
  <2>13. QED BY <1>1, <2>8, <2>11, <2>12, GoOn
<1>5. CASE EndsWith(t, "", "fail")
  <2>1. reported' \subseteq Partitions /\ reported \subseteq reported'
    BY <1>1 DEF IInv, Others
  <2>2. QED BY <1>1, <1>5, <2>1, FailStep
<1>6. QED BY <1>2, <1>4, <1>5 DEF ReadFile, ShortRead

-----------------------------------------------------------------------------
(* The conversions                                                         *)

\* A set of numbers has a least one.
LEMMA LeastIn ==
  ASSUME NEW S \in SUBSET Nat, S # {}
  PROVE  \E x \in S : \A y \in S : x <= y
<1>1. PICK x \in S : \A y \in S : ~(<<y, x>> \in OpToRel(<, Nat))
  BY WFMin, NatLessThanWellFounded, Zenon
<1>2. ASSUME NEW y \in S
      PROVE  x <= y
  <2>1. x \in Nat /\ y \in Nat
    OBVIOUS
  <2>2. ~(y < x)
    BY <1>1, <2>1, Zenon DEF OpToRel
  <2>3. QED BY <2>1, <2>2
<1>3. QED BY <1>2

LEMMA OkGivesHeads ==
  ASSUME NEW bin, bin_2_csv(bin).ok
  PROVE  \A k \in DOMAIN bin : bin[k].head = k
<1>1. Refused(bin) = {}
  BY DEF bin_2_csv
<1>2. QED BY <1>1 DEF Refused

\* No field of good product data looks like an erased one.
LEMMA HeadsNotErased ==
  ASSUME NEW bin, IsSequence(bin), \A k \in DOMAIN bin : bin[k].head = k
  PROVE  \A k \in DOMAIN bin : bin[k] # ErasedField
<1>1. DOMAIN bin = 1 .. Len(bin)
  BY SequenceIs
<1>2. PICK r : r = ErasedField
  OBVIOUS
<1>3. r.head = 0
  BY <1>2 DEF ErasedField
<1>4. QED BY <1>1, <1>2, <1>3

LEMMA CsvIs ==
  ASSUME NEW bin, IsSequence(bin)
  PROVE  IsSequence(bin_2_csv(bin).csv)
<1>1. Len(bin) \in Nat /\ DOMAIN bin = 1 .. Len(bin)
  BY SequenceIs
<1> DEFINE bad == Refused(bin)
           first == IF bad = {} THEN Len(bin) + 1 ELSE CHOOSE k \in bad : \A j \in bad : k <= j
           start == IF bad # {} /\ bin[first].head = first
                    THEN << [head |-> first, whole |-> FALSE, text |-> <<>>, lost |-> 0] >> ELSE <<>>
           front == [k \in 1 .. first - 1 |-> LineOf(k, bin[k].data)]
<1>2. first \in Nat \ {0}
  <2>1. bad \in SUBSET Nat /\ 0 \notin bad
    BY <1>1 DEF Refused
  <2>2. CASE bad # {}
    <3>1. \E k \in bad : \A j \in bad : k <= j
      BY <2>1, <2>2, LeastIn
    <3>2. (CHOOSE k \in bad : \A j \in bad : k <= j) \in bad
      BY <3>1, Zenon
    <3>3. QED BY <2>1, <2>2, <3>2
  <2>3. QED BY <1>1, <2>2
<1>3. bin_2_csv(bin).csv = front \o start
  BY DEF bin_2_csv
<1> HIDE DEF bad, first
<1>4. IsSequence(front)
  <2>1. PICK n \in Nat : n = first - 1
    BY <1>2
  <2>2. front = [k \in 1 .. n |-> front[k]]
    BY <2>1
  <2>3. QED BY <2>1, <2>2, FunctionIsSequence
<1>5. IsSequence(start)
  <2>1. PICK x : x = [head |-> first, whole |-> FALSE, text |-> <<>>, lost |-> 0]
    OBVIOUS
  <2>2. <<x>> \in Seq({x}) /\ <<>> \in Seq({x})
    OBVIOUS
  <2>3. start = <<x>> \/ start = <<>>
    BY <2>1
  <2>4. QED BY <2>2, <2>3, SeqIsSequence
<1> HIDE DEF front, start
<1>6. PICK k : k = front \o start
  OBVIOUS
<1>7. IsSequence(k)
  BY <1>4, <1>5, <1>6, ConcatGives
<1>8. QED BY <1>3, <1>6, <1>7

LEMMA BinIs ==
  ASSUME NEW csv, IsSequence(csv), csv_2_bin(csv).ok
  PROVE  /\ IsSequence(csv_2_bin(csv).bin) /\ Len(csv_2_bin(csv).bin) = LINES_IN_VPD
         /\ Cardinality(Lines(csv)) = LINES_IN_VPD
         /\ \A i \in DOMAIN csv : ~ParseError(csv[i], CheckLine(csv, i))
         /\ csv_2_bin(csv).bin = [k \in 1 .. LINES_IN_VPD |->
                                    [head |-> k, data |-> Data(k, Token(LineAt(csv, k)))]]
<1>1. \A i \in DOMAIN csv : ~ParseError(csv[i], CheckLine(csv, i))
  BY DEF csv_2_bin
<1> DEFINE bin == [k \in 1 .. Cardinality(Lines(csv)) |->
                     [head |-> k, data |-> Data(k, Token(LineAt(csv, k)))]]
<1>2. csv_2_bin(csv).bin = bin /\ Complete(bin)
  BY <1>1 DEF csv_2_bin
<1>3. IsFiniteSet(Lines(csv)) /\ Cardinality(Lines(csv)) \in Nat
  <2>1. IsFiniteSet(1 .. Len(csv)) /\ DOMAIN csv = 1 .. Len(csv)
    BY SequenceIs, FS_Interval
  <2>2. Lines(csv) \subseteq 1 .. Len(csv)
    BY <2>1 DEF Lines
  <2>3. QED BY <2>1, <2>2, FS_Subset, FS_CardinalityType
<1>4. bin = [k \in 1 .. Cardinality(Lines(csv)) |-> bin[k]]
  OBVIOUS
<1> HIDE DEF bin
<1>5. IsSequence(bin) /\ Len(bin) = Cardinality(Lines(csv))
  BY <1>3, <1>4, FunctionIsSequence
<1>6. Len(bin) = LINES_IN_VPD
  BY <1>2 DEF Complete
<1>7. QED BY <1>1, <1>2, <1>5, <1>6 DEF bin

LEMMA CorrectedIs ==
  ASSUME NEW bin, IsSequence(bin)
  PROVE  IsSequence(Corrected(bin)) /\ Len(Corrected(bin)) = Len(bin)
<1>1. Len(bin) \in Nat /\ DOMAIN bin = 1 .. Len(bin)
  BY SequenceIs
<1>2. PICK k : k = Corrected(bin)
  OBVIOUS
<1>3. bin = [i \in 1 .. Len(bin) |-> bin[i]]
  <2>1. PICK R : R = {bin[i] : i \in DOMAIN bin}
    OBVIOUS
  <2>2. bin \in [1 .. Len(bin) -> R]
    BY <2>1, LenProperties DEF IsSequence
  <2>3. QED BY <2>2
<1>4. k = [i \in 1 .. Len(bin) |-> k[i]]
  BY <1>2, <1>3 DEF Corrected
<1>5. QED BY <1>1, <1>2, <1>4, FunctionIsSequence

-----------------------------------------------------------------------------
(* The steps of the programs for product data that write nothing           *)

LEMMA VpdStartKeeps ==
  ASSUME IInv, NEW t \in Tools, VpdStart(t)
  PROVE  IInv'
<1>1. tool[t].pc = "start" /\ tool[t].cmd.op = "vpdupdate" /\ UNCHANGED <<flash, file, copy, disturbed, reported>>
      /\ (UNCHANGED budget \/ Fault)
  BY DEF VpdStart, At
<1>2. CASE file[tool[t].cmd.in] # None /\ Goes(t, "check")
  <2>1. /\ Only(t) /\ IsTool(tool'[t])
        /\ tool'[t].pc = "check" /\ tool'[t].cmd = tool[t].cmd /\ tool'[t].buf = tool[t].buf
        /\ tool'[t].size = tool[t].size /\ tool'[t].off = tool[t].off
        /\ tool'[t].errno = tool[t].errno /\ tool'[t].rc = tool[t].rc
    BY <1>2, GoesGives
  <2>2. ToolOK(t)'
    <3>1. TypedTool(t)'
      BY <2>1, ToolIs DEF ToolOK, TypedTool, Pcs
    <3>2. PcOK(t)'
      BY <1>1, <1>2, <2>1, ToolIs DEF ToolOK, PcOK, Is, Partition
    <3>3. QED BY <3>1, <3>2 DEF ToolOK
  <2>3. Local(t)' /\ ~Saves(t)' /\ ~Saved(t)'
    <3>1. IsSequence(file[tool[t].cmd.in])
      BY <1>1, <1>2, InputIs, ToolIs DEF Is, ToolOK, PcOK
    <3>2. OpenOK(t)'
      BY <1>1, <2>1, <3>1 DEF OpenOK
    <3>3. QED BY <2>1, <2>2, <3>2, IdleLocal
  <2>4. QED BY <1>1, <2>1, <2>3, GoOn
<1>3. CASE EndsWith(t, tool[t].errno, "fail")
  <2>1. reported' \subseteq Partitions /\ reported \subseteq reported'
    BY <1>1 DEF IInv, Others
  <2>2. QED BY <1>1, <1>3, <2>1, FailStep
<1>4. QED BY <1>2, <1>3 DEF VpdStart, Ends

\* What genwqe_vpdupdate programs is whole and has the right checksum.
LEMMA AcceptedGives ==
  ASSUME NEW f, IsSequence(f), Accepted(f), NEW b, b = SubSeq(f, 1, LINES_IN_VPD)
  PROVE  /\ IsSequence(b) /\ Len(b) = LINES_IN_VPD /\ Correct(b)
         /\ \A i \in DOMAIN b : b[i] # ErasedField
<1>1. PICK n \in Nat : n = LINES_IN_VPD
  BY RefAssumption
<1>2. n <= Len(f) /\ b = SubSeq(f, 1, n) /\ CrcGood(b) /\ bin_2_csv(b).ok
  BY <1>1, SequenceIs DEF Accepted
<1>3. IsSequence(b) /\ Len(b) = n - 1 + 1
  BY <1>1, <1>2, PartOf
<1>4. Len(b) = LINES_IN_VPD
  BY <1>1, <1>3
<1>5. Correct(b)
  BY <1>2, <1>4 DEF Correct, Whole
<1>6. \A i \in DOMAIN b : b[i] # ErasedField
  BY <1>2, <1>3, OkGivesHeads, HeadsNotErased
<1>7. QED BY <1>3, <1>4, <1>5, <1>6

LEMMA UpdateVpdKeeps ==
  ASSUME IInv, NEW t \in Tools, UpdateVpd(t)
  PROVE  IInv'
<1>1. tool[t].pc = "check" /\ tool[t].cmd.op = "vpdupdate" /\ UNCHANGED <<flash, file, copy, disturbed, reported, budget>>
  BY DEF UpdateVpd, At
<1>2. CASE Accepted(file[tool[t].cmd.in])
  <2>1. PICK b : b = SubSeq(file[tool[t].cmd.in], 1, LINES_IN_VPD)
    OBVIOUS
  <2>2. IsSequence(file[tool[t].cmd.in])
    BY <1>1 DEF IInv, Local, OpenOK
  <2>3. IsSequence(b) /\ Len(b) = LINES_IN_VPD /\ \A i \in DOMAIN b : b[i] # ErasedField
    BY <1>2, <2>1, <2>2, AcceptedGives
  <2>4. tool' = [tool EXCEPT ![t].pc = "erase", ![t].buf = b]
    BY <1>2, <2>1 DEF UpdateVpd
  <2>5. /\ Only(t) /\ IsTool(tool'[t])
        /\ tool'[t].cmd = tool[t].cmd /\ tool'[t].pc = "erase" /\ tool'[t].buf = b /\ tool'[t].size = tool[t].size
        /\ tool'[t].off = tool[t].off /\ tool'[t].errno = tool[t].errno /\ tool'[t].rc = tool[t].rc
    BY <2>4, BufGives
  <2>6. ToolOK(t)'
    <3>1. tool[t].off = 0 /\ 0 \in 0 .. Len(b)
      BY <1>1, <2>3, ToolIs, SequenceIs DEF ToolOK, PcOK
    <3>2. TypedTool(t)'
      BY <2>3, <2>5, <3>1, ToolIs DEF ToolOK, TypedTool, Pcs
    <3>3. PcOK(t)'
      BY <1>1, <2>5, <3>1, ToolIs DEF ToolOK, PcOK, Is, Partition
    <3>4. QED BY <3>2, <3>3 DEF ToolOK
  <2>7. BufOK(t)'
    BY <1>1, <2>3, <2>5 DEF BufOK, Is
  <2>8. OpenOK(t)' /\ WrittenOK(t)' /\ SaveOK(t)' /\ ~Saves(t)' /\ ~Saved(t)'
    BY <2>5 DEF OpenOK, Good, WrittenOK, Verified, SaveOK, Saves, Saved
  <2>9. Local(t)'
    BY <2>6, <2>7, <2>8 DEF Local
  <2>10. QED BY <1>1, <2>5, <2>8, <2>9, GoOn
<1>3. CASE EndsWith(t, tool[t].errno, "fail")
  <2>1. reported' \subseteq Partitions /\ reported \subseteq reported'
    BY <1>1 DEF IInv, Others
  <2>2. QED BY <1>1, <1>3, <2>1, FailStep
<1>4. QED BY <1>2, <1>3 DEF UpdateVpd, Ends

\* A program has the text or the fields it is going to write.
LEMMA FlushLocal ==
  ASSUME IInv, NEW t \in Tools, Is(t, {"show", "conv", "reverse"}), tool[t].pc \in {"readflash", "convert"},
         tool[t].cmd # None, IsTool(tool'[t]), tool'[t].cmd = tool[t].cmd, tool'[t].pc = "flush", file' = file,
         IsSequence(tool'[t].buf), tool'[t].size = tool[t].size, tool'[t].off = tool[t].off,
         tool'[t].errno = tool[t].errno, tool'[t].rc \in {"ok", "fail"}
  PROVE  Local(t)' /\ ~Saves(t)' /\ ~Saved(t)'
<1>1. tool[t].off = 0 /\ 0 \in 0 .. Len(tool'[t].buf)
  BY ToolIs, SequenceIs DEF ToolOK, PcOK
<1>2. TypedTool(t)'
  BY <1>1, ToolIs DEF ToolOK, TypedTool, Pcs
<1>3. PcOK(t)'
  BY <1>1 DEF PcOK, Is
<1>4. OpenOK(t)'
  <2>1. OpenOK(t)
    BY DEF IInv, Local
  <2>2. tool[t].pc = "readflash" => Is(t, {"show"})
    BY ToolIs DEF ToolOK, PcOK, Is
  <2>3. QED BY <2>1, <2>2 DEF OpenOK
<1>5. QED BY <1>2, <1>3, <1>4, IdleLocal DEF ToolOK

LEMMA DumpVpdKeeps ==
  ASSUME IInv, NEW t \in Tools, DumpVpd(t)
  PROVE  IInv'
<1>1. tool[t].pc = "readflash" /\ tool[t].cmd.op = "show" /\ UNCHANGED <<flash, file, copy, disturbed, reported>>
      /\ (UNCHANGED budget \/ Fault) /\ tool[t].cmd # None
  BY ToolIs DEF DumpVpd, At, ToolOK, PcOK
<1>2. ASSUME NEW r, r = bin_2_csv(ReadVpd),
             tool' = [tool EXCEPT ![t].pc = "flush", ![t].buf = r.csv]
      PROVE  IInv'
  <2>1. IsSequence(ReadVpd)
    <3>1. IsSequence(flash["v"]) /\ Len(flash["v"]) = LINES_IN_VPD
      BY DEF IInv, FlashOK
    <3>2. PICK n \in Nat : n = LINES_IN_VPD
      BY RefAssumption
    <3>3. IsSequence(SubSeq(flash["v"], 1, n))
      BY <3>1, <3>2, PartOf
    <3>4. QED BY <3>2, <3>3 DEF ReadVpd
  <2>2. PICK c : c = r.csv
    OBVIOUS
  <2>4. IsSequence(c)
    BY <1>2, <2>1, <2>2, CsvIs
  <2>5. tool' = [tool EXCEPT ![t].pc = "flush", ![t].buf = c]
    BY <1>2, <2>2
  <2>6. /\ Only(t) /\ IsTool(tool'[t])
        /\ tool'[t].cmd = tool[t].cmd /\ tool'[t].pc = "flush" /\ tool'[t].buf = c /\ tool'[t].size = tool[t].size
        /\ tool'[t].off = tool[t].off /\ tool'[t].errno = tool[t].errno /\ tool'[t].rc \in {"ok", "fail"}
    <3>1. PICK o : o = tool[t]
      OBVIOUS
    <3>2. IsTool(o) /\ tool = [u \in Tools |-> tool[u]]
      BY <3>1, ToolIs DEF IInv
    <3>3. PICK q : q = [o EXCEPT !.pc = "flush", !.buf = c]
      OBVIOUS
    <3>4. tool' = [tool EXCEPT ![t] = q]
      BY <2>5, <3>1, <3>2, <3>3
    <3>5. tool'[t] = q /\ Only(t)
      BY <3>2, <3>4 DEF Only
    <3>6. q = [cmd |-> o.cmd, pc |-> "flush", buf |-> c, size |-> o.size, off |-> o.off, errno |-> o.errno,
               rc |-> o.rc]
      BY <3>2, <3>3 DEF IsTool
    <3>7. /\ IsTool(q) /\ q.cmd = o.cmd /\ q.pc = "flush" /\ q.buf = c /\ q.size = o.size /\ q.off = o.off
          /\ q.errno = o.errno /\ q.rc \in {"ok", "fail"}
      BY <3>1, <3>6, ToolIs DEF IsTool, ToolOK, TypedTool
    <3>8. QED BY <3>1, <3>5, <3>7
  <2>7. Local(t)' /\ ~Saves(t)' /\ ~Saved(t)'
    BY <1>1, <2>4, <2>6, FlushLocal DEF Is
  <2>8. QED BY <1>1, <2>6, <2>7, GoOn
<1>3. CASE EndsWith(t, "EIO", "fail")
  <2>1. reported' \subseteq Partitions /\ reported \subseteq reported'
    BY <1>1 DEF IInv, Others
  <2>2. QED BY <1>1, <1>3, <2>1, FailStep
<1>4. QED BY <1>2, <1>3 DEF DumpVpd

LEMMA ConvertCsvKeeps ==
  ASSUME IInv, NEW t \in Tools, ConvertCsv(t)
  PROVE  IInv'
<1>1. tool[t].pc = "convert" /\ tool[t].cmd.op = "conv" /\ UNCHANGED <<flash, file, copy, disturbed, reported, budget>>
      /\ tool[t].cmd # None
  BY ToolIs DEF ConvertCsv, At, ToolOK, PcOK
<1>2. ASSUME NEW r, r = csv_2_bin(file[tool[t].cmd.in]), r.ok,
             tool' = [tool EXCEPT ![t].pc = "flush", ![t].buf = Checked(t, r.bin)]
      PROVE  IInv'
  <2>1. IsSequence(file[tool[t].cmd.in])
    BY <1>1 DEF IInv, Local, OpenOK
  <2>2. IsSequence(r.bin)
    BY <1>2, <2>1, BinIs
  <2>3. PICK b : b = Checked(t, r.bin)
    OBVIOUS
  <2>4. IsSequence(b)
    BY <2>2, <2>3, CorrectedIs DEF Checked
  <2>5. tool' = [tool EXCEPT ![t].pc = "flush", ![t].buf = b]
    BY <1>2, <2>3
  <2>6. /\ Only(t) /\ IsTool(tool'[t])
        /\ tool'[t].cmd = tool[t].cmd /\ tool'[t].pc = "flush" /\ tool'[t].buf = b /\ tool'[t].size = tool[t].size
        /\ tool'[t].off = tool[t].off /\ tool'[t].errno = tool[t].errno /\ tool'[t].rc = tool[t].rc
    BY <2>5, BufGives
  <2>7. Local(t)' /\ ~Saves(t)' /\ ~Saved(t)'
    BY <1>1, <2>4, <2>6, FlushLocal, ToolIs DEF Is, ToolOK, TypedTool
  <2>8. QED BY <1>1, <2>6, <2>7, GoOn
<1>3. CASE EndsWith(t, tool[t].errno, "fail")
  <2>1. reported' \subseteq Partitions /\ reported \subseteq reported'
    BY <1>1 DEF IInv, Others
  <2>2. QED BY <1>1, <1>3, <2>1, FailStep
<1>4. QED BY <1>2, <1>3 DEF ConvertCsv, Ends

\* A program that wrote no partition and saved none has ended with success.
LEMMA WrittenNowhere ==
  ASSUME IInv, NEW t \in Tools, IsTool(tool'[t]), tool'[t].pc = "ended", tool'[t].cmd = tool[t].cmd,
         tool'[t].buf = tool[t].buf, tool'[t].size = 0, tool'[t].off = 0, tool'[t].errno = tool[t].errno,
         tool'[t].rc = "ok", tool[t].cmd # None, tool[t].cmd.op \in {"show", "conv", "reverse"}
  PROVE  Local(t)' /\ ~Saves(t)' /\ ~Saved(t)'
<1>1. 0 \in 0 .. Len(tool[t].buf)
  BY ToolIs
<1>2. TypedTool(t)'
  <2>1. TypedTool(t)
    BY ToolIs DEF ToolOK
  <2>2. IsSequence(tool'[t].buf) /\ tool'[t].off \in 0 .. Len(tool'[t].buf)
    BY <1>1, <2>1, Zenon DEF TypedTool
  <2>3. tool'[t].pc \in Pcs /\ tool'[t].size \in Nat /\ tool'[t].rc \in {"ok", "fail"}
    BY DEF Pcs
  <2>4. tool'[t].cmd \in Commands[t] \cup {None} /\ tool'[t].errno \in {"", "EIO", "ENOSPC"}
    BY <2>1 DEF TypedTool
  <2>5. QED BY <2>2, <2>3, <2>4 DEF TypedTool
<1>3. PcOK(t)'
  BY DEF PcOK
<1>4. OpenOK(t)' /\ BufOK(t)' /\ WrittenOK(t)' /\ ~Saves(t)' /\ ~Saved(t)'
  BY DEF OpenOK, BufOK, Holds, Good, WrittenOK, Verified, Saves, Saved
<1>5. SaveOK(t)'
  BY <1>4 DEF SaveOK
<1>6. QED BY <1>2, <1>3, <1>4, <1>5 DEF Local, ToolOK

LEMMA ReverseCsvKeeps ==
  ASSUME IInv, NEW t \in Tools, ReverseCsv(t)
  PROVE  IInv'
<1>1. tool[t].pc = "convert" /\ tool[t].cmd.op = "reverse" /\ UNCHANGED <<flash, file, copy, disturbed, reported, budget>>
      /\ tool[t].cmd # None
  BY ToolIs DEF ReverseCsv, At, ToolOK, PcOK
<1>2. PICK f : f = file[tool[t].cmd.in]
  OBVIOUS
<1>3. IsSequence(f)
  BY <1>1, <1>2 DEF IInv, Local, OpenOK
<1>4. CASE tool' = [tool EXCEPT ![t].pc = "flush", ![t].buf = bin_2_csv(f).csv]
  <2>1. PICK c : c = bin_2_csv(f).csv
    OBVIOUS
  <2>2. IsSequence(c)
    BY <1>3, <2>1, CsvIs
  <2>3. tool' = [tool EXCEPT ![t].pc = "flush", ![t].buf = c]
    BY <1>4, <2>1
  <2>4. /\ Only(t) /\ IsTool(tool'[t])
        /\ tool'[t].cmd = tool[t].cmd /\ tool'[t].pc = "flush" /\ tool'[t].buf = c /\ tool'[t].size = tool[t].size
        /\ tool'[t].off = tool[t].off /\ tool'[t].errno = tool[t].errno /\ tool'[t].rc = tool[t].rc
    BY <2>3, BufGives
  <2>5. Local(t)' /\ ~Saves(t)' /\ ~Saved(t)'
    BY <1>1, <2>2, <2>4, FlushLocal, ToolIs DEF Is, ToolOK, TypedTool
  <2>6. QED BY <1>1, <2>4, <2>5, GoOn
<1>5. CASE EndsWith(t, tool[t].errno, "ok")
  <2>1. /\ Only(t) /\ IsTool(tool'[t])
        /\ tool'[t].pc = "ended" /\ tool'[t].cmd = tool[t].cmd /\ tool'[t].buf = tool[t].buf
        /\ tool'[t].size = 0 /\ tool'[t].off = 0 /\ tool'[t].errno = tool[t].errno /\ tool'[t].rc = "ok"
    BY <1>5, OkGives
  <2>2. tool'[t].cmd.op = "reverse"
    BY <1>1, <2>1
  <2>3. Local(t)' /\ ~Saves(t)' /\ ~Saved(t)'
    BY <1>1, <2>1, <2>2, WrittenNowhere
  <2>4. QED BY <1>1, <2>1, <2>3, GoOn
<1>6. QED BY <1>2, <1>4, <1>5 DEF ReverseCsv, Ends

\* genwqe_flash_read has the partition, or what the ioctl left of it.
LEMMA FlashReadKeeps ==
  ASSUME IInv, NEW t \in Tools, FlashRead(t)
  PROVE  IInv'
<1>1. tool[t].pc = "readflash" /\ tool[t].cmd.op = "read" /\ UNCHANGED <<flash, file, copy, disturbed, reported>>
      /\ (UNCHANGED budget \/ Fault) /\ tool[t].cmd # None
  BY ToolIs DEF FlashRead, At, ToolOK, PcOK
<1>2. CASE tool' = [tool EXCEPT ![t].pc = "write", ![t].buf = SubSeq(flash[Partition(t)], 1, get_rbf_size)]
  <2>1. PICK b : b = SubSeq(flash[Partition(t)], 1, get_rbf_size)
    OBVIOUS
  <2>2. tool[t].cmd \in Asking({"read"})
    BY <1>1, ToolIs DEF ToolOK, TypedTool, Asking
  <2>3. Partition(t) \in Images
    BY <2>2, FlashAssumption DEF Partition, Images
  <2>4. PICK s \in Seq(Nat) : s = flash[Partition(t)] /\ get_rbf_size <= Len(s)
    BY <2>3 DEF IInv, FlashOK
  <2>5. PICK n \in Nat : n = get_rbf_size
    BY FlashAssumption
  <2>6. IsSequence(s) /\ Len(s) \in Nat /\ \A i \in 1 .. Len(s) : s[i] \in Nat
    BY SeqIsSequence
  <2>7. IsSequence(b) /\ Len(b) = n - 1 + 1 /\ \A i \in 1 .. n - 1 + 1 : b[i] = s[1 + i - 1]
    BY <2>1, <2>4, <2>5, <2>6, PartOf
  <2>8. b \in Seq(Nat)
    <3>1. \A i \in 1 .. Len(b) : b[i] \in Nat
      BY <2>4, <2>5, <2>6, <2>7
    <3>2. QED BY <2>7, <3>1, SequenceIn
  <2>9. tool' = [tool EXCEPT ![t].pc = "write", ![t].buf = b]
    BY <1>2, <2>1
  <2>10. /\ Only(t) /\ IsTool(tool'[t])
         /\ tool'[t].cmd = tool[t].cmd /\ tool'[t].pc = "write" /\ tool'[t].buf = b /\ tool'[t].size = tool[t].size
         /\ tool'[t].off = tool[t].off /\ tool'[t].errno = tool[t].errno /\ tool'[t].rc = tool[t].rc
    BY <2>9, BufGives
  <2>11. ToolOK(t)'
    <3>1. tool[t].off = 0 /\ 0 \in 0 .. Len(b)
      BY <1>1, <2>7, ToolIs, SequenceIs DEF ToolOK, PcOK
    <3>2. TypedTool(t)'
      BY <2>7, <2>10, <3>1, ToolIs DEF ToolOK, TypedTool, Pcs
    <3>3. PcOK(t)'
      BY <1>1, <2>10, <3>1, ToolIs DEF ToolOK, PcOK, Is, Partition
    <3>4. QED BY <3>2, <3>3 DEF ToolOK
  <2>12. Saves(t) /\ Saves(t)' /\ ~Saved(t)' /\ file[tool[t].cmd.out] = <<>>
    <3>1. Saves(t) /\ Saves(t)' /\ ~Saved(t)'
      BY <1>1, <2>10 DEF Saves, Saved, Good, Is
    <3>2. QED BY <3>1 DEF IInv, Local, SaveOK
  <2>13. SaveOK(t)'
    BY <1>1, <2>1, <2>8, <2>10, <2>12 DEF SaveOK, Partition
  <2>14. OpenOK(t)' /\ BufOK(t)' /\ WrittenOK(t)'
    BY <2>10 DEF OpenOK, BufOK, Holds, Good, WrittenOK, Verified
  <2>15. Local(t)'
    BY <2>11, <2>13, <2>14 DEF Local
  <2>16. QED BY <1>1, <2>10, <2>12, <2>15, GoOn
<1>3. CASE EndsWith(t, "EIO", "fail")
  <2>1. reported' \subseteq Partitions /\ reported \subseteq reported'
    BY <1>1 DEF IInv, Others
  <2>2. QED BY <1>1, <1>3, <2>1, FailStep
<1>4. QED BY <1>2, <1>3 DEF FlashRead, ReadFailed

-----------------------------------------------------------------------------
(* The end of a write                                                      *)

\* The options say which partition a program writes or reads.
LEMMA PartitionIs ==
  ASSUME IInv, NEW t \in Tools, tool[t].cmd # None
  PROVE  (Is(t, {"vpdupdate"}) => Partition(t) = "v") /\ (Is(t, {"read"}) => Partition(t) \in Images)
<1>1. PICK c \in Commands[t] : c = tool[t].cmd
  BY ToolIs DEF ToolOK, TypedTool
<1>2. (c.op = "vpdupdate" => c \in Asking({"vpdupdate"})) /\ (c.op = "read" => c \in Asking({"read"}))
  BY DEF Asking
<1>3. (c.op = "vpdupdate" => c.part = "v") /\ (c.op = "read" => c.part \in {"0", "1"})
  BY <1>2, FlashAssumption
<1>4. QED BY <1>1, <1>3 DEF Is, Partition, Images

LEMMA ZeroWithin == \A n \in Nat : 0 \in 0 .. n
OBVIOUS

\* A program that succeeds.
LEMMA OkTool ==
  ASSUME IInv, NEW t \in Tools, tool[t].cmd # None, NEW errno \in {"", "EIO", "ENOSPC"}, EndsWith(t, errno, "ok")
  PROVE  ToolOK(t)' /\ OpenOK(t)' /\ ~Saves(t)'
<1>1. /\ Only(t) /\ IsTool(tool'[t])
      /\ tool'[t].pc = "ended" /\ tool'[t].cmd = tool[t].cmd /\ tool'[t].buf = tool[t].buf
      /\ tool'[t].size = 0 /\ tool'[t].off = 0 /\ tool'[t].errno = errno /\ tool'[t].rc = "ok"
  BY OkGives
<1>2. 0 \in 0 .. Len(tool[t].buf)
  <2>1. PICK n \in Nat : n = Len(tool[t].buf)
    BY ToolIs
  <2>2. QED BY <2>1, ZeroWithin, Zenon
<1>3. TypedTool(t)'
  <2>1. TypedTool(t)
    BY ToolIs DEF ToolOK
  <2>2. IsSequence(tool'[t].buf) /\ tool'[t].off \in 0 .. Len(tool'[t].buf)
    BY <1>1, <1>2, <2>1, Zenon DEF TypedTool
  <2>3. tool'[t].pc \in Pcs /\ tool'[t].size \in Nat /\ tool'[t].rc \in {"ok", "fail"}
    <3>1. 0 \in Nat
      OBVIOUS
    <3>2. QED BY <1>1, <3>1, Zenon DEF Pcs
  <2>4. tool'[t].cmd \in Commands[t] \cup {None} /\ tool'[t].errno \in {"", "EIO", "ENOSPC"}
    BY <1>1, <2>1 DEF TypedTool
  <2>5. QED BY <1>1, <2>2, <2>3, <2>4 DEF TypedTool
<1>4. PcOK(t)'
  BY <1>1 DEF PcOK
<1>5. OpenOK(t)' /\ ~Saves(t)'
  BY <1>1 DEF OpenOK, Saves
<1>6. QED BY <1>3, <1>4, <1>5 DEF ToolOK

LEMMA VerifyKeeps ==
  ASSUME IInv, NEW t \in Tools, Verify(t)
  PROVE  IInv'
<1>1. /\ tool[t].pc = "verify" /\ tool[t].cmd.op = "update" /\ tool[t].cmd # None /\ Partition(t) \in Images
      /\ UNCHANGED <<flash, file, copy, disturbed, reported, budget>>
  BY ToolIs DEF Verify, ToolOK, PcOK, Is
<1>2. /\ tool[t].buf \in Seq(Block) /\ Len(tool[t].buf) <= get_rbf_size
      /\ "file" \notin disturbed[t] => Len(tool[t].buf) = get_rbf_size
  BY <1>1 DEF IInv, Local, BufOK, Holds, Is
<1>3. CASE /\ Same(tool[t].buf, SubSeq(flash[Partition(t)], 1, Len(tool[t].buf)))
           /\ EndsWith(t, tool[t].errno, "ok")
  <2>1. /\ Only(t) /\ IsTool(tool'[t])
        /\ tool'[t].pc = "ended" /\ tool'[t].cmd = tool[t].cmd /\ tool'[t].buf = tool[t].buf
        /\ tool'[t].size = 0 /\ tool'[t].off = 0 /\ tool'[t].errno = tool[t].errno /\ tool'[t].rc = "ok"
    BY <1>3, OkGives
  <2>2. ToolOK(t)' /\ OpenOK(t)' /\ ~Saves(t)'
    BY <1>1, <1>3, OkTool, ToolIs DEF ToolOK, TypedTool
  <2>3. PICK s \in Seq(Nat) : s = flash[Partition(t)] /\ get_rbf_size <= Len(s)
    BY <1>1 DEF IInv, FlashOK
  <2>4. PICK n \in Nat : n = Len(tool[t].buf)
    BY ToolIs
  <2>5. n <= Len(s)
    BY <1>2, <2>3, <2>4, FlashAssumption, SeqIsSequence
  <2>6. \A i \in 1 .. n - 1 + 1 : SubSeq(s, 1, n)[i] = s[1 + i - 1]
    BY <2>4, <2>5, PartOf, SeqIsSequence
  <2>7. \A i \in 1 .. Len(tool[t].buf) : flash[Partition(t)][i] = tool[t].buf[i]
    <3> TAKE i \in 1 .. Len(tool[t].buf)
    <3>1. tool[t].buf = SubSeq(s, 1, n)
      BY <1>3, <2>3, <2>4 DEF Same
    <3>2. i \in 1 .. n - 1 + 1 /\ 1 + i - 1 = i
      BY <2>4
    <3>3. QED BY <2>3, <2>6, <3>1, <3>2
  <2>8. BufOK(t)' /\ WrittenOK(t)' /\ SaveOK(t)' /\ ~Saved(t)'
    <3>1. ~Saved(t)' /\ SaveOK(t)'
      BY <1>1, <2>1, <2>2 DEF Saved, Good, SaveOK
    <3>2. BufOK(t)'
      BY <1>1, <1>2, <2>1 DEF BufOK, Is, Partition
    <3>3. WrittenOK(t)'
      BY <1>1, <2>1, <2>7 DEF WrittenOK, Partition
    <3>4. QED BY <3>1, <3>2, <3>3
  <2>9. Local(t)'
    BY <2>2, <2>8 DEF Local
  <2>10. QED BY <1>1, <2>1, <2>2, <2>8, <2>9, GoOn
<1>4. CASE EndsWith(t, "", "fail")
  <2>1. reported' \subseteq Partitions /\ reported \subseteq reported'
    BY <1>1 DEF IInv, Others
  <2>2. QED BY <1>1, <1>4, <2>1, FailStep
<1>5. QED BY <1>3, <1>4 DEF Verify, Ends

\* genwqe_update met ENOSPC, and says that it succeeded.
LEMMA NoSpaceLocal ==
  ASSUME IInv, NEW t \in Tools, tool[t].pc \in {"program", "verify"}, tool[t].cmd.op = "update",
         tool[t].cmd # None, EndsWith(t, "ENOSPC", "ok"), disturbed'[t] = disturbed[t]
  PROVE  Only(t) /\ Local(t)' /\ ~Saves(t)' /\ ~Saved(t)' /\ tool'[t].errno = "ENOSPC"
<1>1. /\ Only(t) /\ IsTool(tool'[t])
      /\ tool'[t].pc = "ended" /\ tool'[t].cmd = tool[t].cmd /\ tool'[t].buf = tool[t].buf
      /\ tool'[t].size = 0 /\ tool'[t].off = 0 /\ tool'[t].errno = "ENOSPC" /\ tool'[t].rc = "ok"
  BY OkGives
<1>2. /\ Partition(t) \in Images /\ tool[t].buf \in Seq(Block) /\ Len(tool[t].buf) <= get_rbf_size
      /\ "file" \notin disturbed[t] => Len(tool[t].buf) = get_rbf_size
  BY DEF IInv, Local, BufOK, Holds, Is
<1>3. ToolOK(t)' /\ OpenOK(t)' /\ ~Saves(t)'
  BY OkTool
<1>4. ~Saved(t)' /\ SaveOK(t)'
  BY <1>1, <1>3 DEF Saved, Good, SaveOK
<1>5. BufOK(t)'
  BY <1>1, <1>2 DEF BufOK, Is, Partition
<1>6. WrittenOK(t)'
  BY <1>1 DEF WrittenOK, Verified
<1>7. QED BY <1>1, <1>3, <1>4, <1>5, <1>6 DEF Local

LEMMA VerifyFailsKeeps ==
  ASSUME IInv, NEW t \in Tools, VerifyFails(t)
  PROVE  IInv'
<1>1. /\ tool[t].pc = "verify" /\ tool[t].cmd.op = "update" /\ tool[t].cmd # None
      /\ UNCHANGED <<flash, file, copy, disturbed, reported>> /\ Fault
  BY ToolIs DEF VerifyFails, ToolOK, PcOK, Is
<1>2. CASE EndsWith(t, "ENOSPC", "ok")
  <2>1. Only(t) /\ Local(t)' /\ ~Saves(t)' /\ ~Saved(t)'
    BY <1>1, <1>2, NoSpaceLocal
  <2>2. QED BY <1>1, <2>1, GoOn
<1>3. CASE EndsWith(t, "EIO", "fail")
  <2>1. reported' \subseteq Partitions /\ reported \subseteq reported'
    BY <1>1 DEF IInv, Others
  <2>2. QED BY <1>1, <1>3, <2>1, FailStep
<1>4. QED BY <1>2, <1>3 DEF VerifyFails

\* What a program that has programmed its buffer leaves: no erased block.
LEMMA NothingErased ==
  ASSUME IInv, NEW t \in Tools, tool[t].pc = "program", tool[t].off >= Len(tool[t].buf), disturbed[t] = {},
         NEW i \in DOMAIN flash[Partition(t)], flash[Partition(t)][i] = Erased(Partition(t))
  PROVE  FALSE
<1>1. Is(t, {"update", "vpdupdate"}) /\ (Is(t, {"update"}) => Partition(t) \in Images) /\ tool[t].cmd # None
  BY ToolIs DEF ToolOK, PcOK
<1>2. Is(t, {"vpdupdate"}) => Partition(t) = "v"
  BY <1>1, PartitionIs
<1>3. Partition(t) \in Partitions
  BY <1>1, <1>2 DEF Is, Images, Partitions
<1>4. i \in Nat \ {0} /\ i <= Reach(Partition(t))
  <2>1. i <= Reach(Partition(t))
    BY <1>3 DEF IInv, ErasedOK
  <2>2. i \in 1 .. Len(flash[Partition(t)]) /\ Len(flash[Partition(t)]) \in Nat
    BY <1>3, FlashIs
  <2>3. QED BY <2>1, <2>2
<1>5. BufOK(t) /\ WrittenOK(t) /\ Holds(t)
  BY DEF IInv, Local, Holds
<1>6. Len(tool[t].buf) = Reach(Partition(t)) /\ tool[t].off = Len(tool[t].buf)
  <2>1. Is(t, {"update"}) => Len(tool[t].buf) = get_rbf_size /\ Partition(t) # "v"
    BY <1>1, <1>5 DEF BufOK, Images
  <2>2. Is(t, {"vpdupdate"}) => Len(tool[t].buf) = LINES_IN_VPD
    BY <1>5 DEF BufOK
  <2>3. tool[t].off \in Nat /\ Len(tool[t].buf) \in Nat /\ tool[t].off <= Len(tool[t].buf)
    BY ToolIs
  <2>4. tool[t].off = Len(tool[t].buf)
    BY <2>3
  <2>5. QED BY <1>1, <1>2, <2>1, <2>2, <2>4 DEF Reach, Is
<1>7. i \in 1 .. tool[t].off /\ i \in 1 .. Len(tool[t].buf) /\ i \in DOMAIN tool[t].buf
  BY <1>4, <1>6, ToolIs
<1>8. \/ flash[Partition(t)][i] = tool[t].buf[i]
      \/ Partition(t) \in Images /\ flash[Partition(t)][i] = Wrong
  BY <1>5, <1>7 DEF WrittenOK
<1>9. CASE Is(t, {"update"})
  <2>1. Erased(Partition(t)) = 0
    BY <1>1, <1>9 DEF Erased, Images
  <2>2. tool[t].buf \in Seq(Block)
    BY <1>5, <1>9 DEF BufOK
  <2>3. tool[t].buf[i] # 0
    BY <1>7, <2>2, SeqIsSequence DEF Block
  <2>4. QED BY <1>8, <2>1, <2>3 DEF Wrong
<1>10. CASE Is(t, {"vpdupdate"})
  <2>1. Erased(Partition(t)) = ErasedField /\ Partition(t) \notin Images
    BY <1>2, <1>10 DEF Erased, Images
  <2>2. tool[t].buf[i] # ErasedField
    BY <1>5, <1>7, <1>10 DEF BufOK
  <2>3. QED BY <1>8, <2>1, <2>2
<1>11. QED BY <1>1, <1>9, <1>10 DEF Is

LEMMA ProgrammedKeeps ==
  ASSUME IInv, NEW t \in Tools, Programmed(t)
  PROVE  IInv'
<1>1. /\ tool[t].pc = "program" /\ tool[t].off >= Len(tool[t].buf)
      /\ UNCHANGED <<flash, file, copy, disturbed, budget>>
      /\ reported' = IF disturbed[t] = {} THEN reported \ {Partition(t)} ELSE reported
  BY DEF Programmed
<1>2. Is(t, {"update", "vpdupdate"}) /\ (Is(t, {"update"}) => Partition(t) \in Images) /\ tool[t].cmd # None
  BY <1>1, ToolIs DEF ToolOK, PcOK
<1>3. Is(t, {"vpdupdate"}) => Partition(t) = "v"
  BY <1>2, PartitionIs
<1>4. tool[t].off \in Nat /\ Len(tool[t].buf) \in Nat /\ tool[t].off = Len(tool[t].buf)
  <2>1. tool[t].off \in Nat /\ Len(tool[t].buf) \in Nat /\ tool[t].off <= Len(tool[t].buf)
    BY ToolIs
  <2>2. QED BY <1>1, <2>1
<1>5. BufOK(t) /\ WrittenOK(t) /\ Holds(t)
  BY <1>1 DEF IInv, Local, Holds
<1>6. Only(t) /\ Local(t)' /\ ~Saves(t)' /\ ~Saved(t)'
  <2>1. CASE tool[t].cmd.op = "update" /\ Goes(t, "verify")
    <3>1. /\ Only(t) /\ IsTool(tool'[t])
          /\ tool'[t].pc = "verify" /\ tool'[t].cmd = tool[t].cmd /\ tool'[t].buf = tool[t].buf
          /\ tool'[t].size = tool[t].size /\ tool'[t].off = tool[t].off
          /\ tool'[t].errno = tool[t].errno /\ tool'[t].rc = tool[t].rc
      BY <2>1, GoesGives
    <3>2. TypedTool(t)'
      BY <3>1, ToolIs DEF ToolOK, TypedTool, Pcs
    <3>3. PcOK(t)'
      BY <1>2, <2>1, <3>1 DEF PcOK, Is, Partition
    <3>4. BufOK(t)'
      BY <1>1, <1>5, <2>1, <3>1 DEF BufOK, Is, Partition
    <3>5. OpenOK(t)' /\ WrittenOK(t)' /\ SaveOK(t)' /\ ~Saves(t)' /\ ~Saved(t)'
      BY <3>1 DEF OpenOK, Good, WrittenOK, Verified, SaveOK, Saves, Saved
    <3>6. QED BY <3>1, <3>2, <3>3, <3>4, <3>5 DEF Local, ToolOK
  <2>2. CASE ~(tool[t].cmd.op = "update" /\ tool[t].cmd.verify) /\ EndsWith(t, tool[t].errno, "ok")
    <3>1. /\ Only(t) /\ IsTool(tool'[t])
          /\ tool'[t].pc = "ended" /\ tool'[t].cmd = tool[t].cmd /\ tool'[t].buf = tool[t].buf
          /\ tool'[t].size = 0 /\ tool'[t].off = 0 /\ tool'[t].errno = tool[t].errno /\ tool'[t].rc = "ok"
      BY <2>2, OkGives
    <3>2. ToolOK(t)' /\ OpenOK(t)' /\ ~Saves(t)'
      BY <1>2, <2>2, OkTool, ToolIs DEF ToolOK, TypedTool
    <3>3. ~Saved(t)' /\ SaveOK(t)'
      BY <1>2, <3>1, <3>2 DEF Saved, Good, SaveOK, Is
    <3>4. BufOK(t)'
      BY <1>1, <1>5, <3>1 DEF BufOK, Is, Partition
    <3>5. WrittenOK(t)'
      <4>1. SUFFICES ASSUME "flash" \notin disturbed[t], tool[t].cmd.op # "update", NEW i \in 1 .. Len(tool[t].buf)
                     PROVE  flash[Partition(t)][i] = tool[t].buf[i]
        BY <1>1, <2>2, <3>1 DEF WrittenOK, Verified, Partition
      <4>2. Partition(t) \notin Images
        BY <1>2, <1>3, <4>1 DEF Is, Images
      <4>3. QED BY <1>1, <1>4, <1>5, <4>1, <4>2 DEF WrittenOK
    <3>6. QED BY <3>1, <3>2, <3>3, <3>4, <3>5 DEF Local
  <2>3. QED BY <2>1, <2>2 DEF Programmed, Ends
<1>7. Others'
  BY <1>1 DEF Others, IInv
<1>8. ErasedOK'
  <2>1. ASSUME NEW p \in Partitions, NEW i \in DOMAIN flash[p], flash[p][i] = Erased(p)
        PROVE  i <= Reach(p) /\ (p \in reported' \/ \E u \in Tools : Programs(u, p, i)')
    <3>1. i <= Reach(p) /\ (p \in reported \/ \E u \in Tools : Programs(u, p, i))
      BY <2>1 DEF IInv, ErasedOK
    <3>2. disturbed[t] = {} => p # Partition(t)
      BY <1>1, <2>1, NothingErased
    <3>3. p \in reported => p \in reported'
      BY <1>1, <3>2
    <3>4. ASSUME NEW u \in Tools, Programs(u, p, i)
          PROVE  Programs(u, p, i)'
      <4>1. i \in Nat
        BY FlashIs
      <4>2. u # t
        BY <1>4, <3>4, <4>1 DEF Programs
      <4>3. tool'[u] = tool[u]
        BY <1>6, <4>2, OnlyIs
      <4>4. QED BY <3>4, <4>3 DEF Programs, Partition
    <3>5. QED BY <3>1, <3>3, <3>4
  <2>2. QED BY <1>1, <2>1 DEF ErasedOK, Reach
<1>9. QED BY <1>1, <1>6, <1>7, <1>8, ToolStep

-----------------------------------------------------------------------------
(* The steps that write a file                                             *)

\* A program writes its file, which no image is and no other program saves a partition to.
LEMMA FileStep ==
  ASSUME IInv, FilesApart, NEW t \in Tools, Only(t), Local(t)', tool[t].cmd # None,
         Is(t, {"show", "conv", "reverse", "read"}),
         NEW c, IsSequence(c), file' = [file EXCEPT ![tool[t].cmd.out] = c],
         UNCHANGED <<flash, copy, disturbed, reported>>, UNCHANGED budget \/ Fault, tool[t].pc # "program",
         \A u \in Tools \ {t} : Saves(u) \/ Saved(u) => tool[u].cmd.out # tool[t].cmd.out,
         Saves(t)' \/ Saved(t)' => tool'[t].cmd = tool[t].cmd
  PROVE  IInv'
<1>1. tool' = [u \in Tools |-> tool'[u]] /\ \A u \in Tools \ {t} : tool'[u] = tool[u]
  BY OnlyIs
<1>2. PICK out : out = tool[t].cmd.out
  OBVIOUS
<1>3. tool[t].cmd \in Writers
  BY ToolIs DEF ToolOK, TypedTool, Is, Writers, Asking
<1>4. out \in DOMAIN file /\ out # ImageFile /\ \A d \in Asking({"update"}) : out # d.in
  BY <1>2, <1>3 DEF IInv, FileOK, FilesApart
<1>5. /\ file'[out] = c /\ DOMAIN file' = DOMAIN file
      /\ \A f \in DOMAIN file : f # out => file'[f] = file[f]
      /\ file' = [f \in DOMAIN file' |-> file'[f]]
  <2>1. file = [f \in DOMAIN file |-> file[f]]
    BY DEF IInv, FileOK
  <2>2. file' = [file EXCEPT ![out] = c]
    BY <1>2
  <2>3. QED BY <1>4, <2>1, <2>2
<1>6. FlashOK'
  BY DEF IInv, FlashOK
<1>7. FileOK'
  <2>1. FileOK
    BY DEF IInv
  <2>2. \A f \in DOMAIN file' : file'[f] = None \/ IsSequence(file'[f])
    BY <1>5, <2>1 DEF FileOK
  <2>3. \A d \in Asking({"update"}) : d.in \in DOMAIN file
    <3>1. Asking({"update"}) \subseteq Asking({"update", "vpdupdate", "conv", "reverse"})
      BY DEF Asking
    <3>2. QED BY <2>1, <3>1 DEF FileOK
  <2>4. \A d \in Asking({"update"}) : file'[d.in] \in Seq(Block) \cup {None}
    BY <1>4, <1>5, <2>1, <2>3 DEF FileOK
  <2>5. file'[ImageFile] = file[ImageFile]
    BY <1>4, <1>5, <2>1 DEF FileOK
  <2>6. QED BY <1>5, <2>1, <2>2, <2>4, <2>5 DEF FileOK
<1>8. Others'
  BY BudgetStep DEF Others, IInv
<1>9. ASSUME NEW u \in Tools \ {t}
      PROVE  Local(u)'
  <2>1. Local(u) /\ tool'[u] = tool[u] /\ OpenOK(u)
    BY <1>1 DEF IInv, Local
  <2>2. ToolOK(u)
    BY <2>1 DEF Local
  <2>3. tool[u].pc \in {"fstat", "readfile"} => file'[tool[u].cmd.in] = file[tool[u].cmd.in]
    <3>1. SUFFICES ASSUME tool[u].pc \in {"fstat", "readfile"}
                   PROVE  file'[tool[u].cmd.in] = file[tool[u].cmd.in]
      OBVIOUS
    <3>2. tool[u].cmd \in Asking({"update"})
      BY <2>2, <3>1 DEF ToolOK, TypedTool, PcOK, Is, Asking
    <3>3. tool[u].cmd.in \in DOMAIN file
      <4>1. Asking({"update"}) \subseteq Asking({"update", "vpdupdate", "conv", "reverse"})
        BY DEF Asking
      <4>2. QED BY <3>2, <4>1 DEF IInv, FileOK
    <3>4. QED BY <1>4, <1>5, <3>2, <3>3
  <2>4. tool[u].pc \in {"check", "convert"} => IsSequence(file'[tool[u].cmd.in])
    <3>1. SUFFICES ASSUME tool[u].pc \in {"check", "convert"}
                   PROVE  IsSequence(file'[tool[u].cmd.in])
      OBVIOUS
    <3>2. tool[u].cmd \in Asking({"update", "vpdupdate", "conv", "reverse"})
      BY <2>2, <3>1 DEF ToolOK, TypedTool, PcOK, Is, Asking
    <3>3. tool[u].cmd.in \in DOMAIN file
      BY <3>2 DEF IInv, FileOK
    <3>4. IsSequence(file[tool[u].cmd.in])
      BY <2>1, <3>1 DEF OpenOK
    <3>5. QED BY <1>5, <3>3, <3>4
  <2>5. tool[u].pc \in {"convert", "flush"} \/ (tool[u].pc = "readflash" /\ Is(u, {"show"})) =>
          IsSequence(file'[tool[u].cmd.out])
    <3>1. SUFFICES ASSUME tool[u].pc \in {"convert", "flush"} \/ (tool[u].pc = "readflash" /\ Is(u, {"show"}))
                   PROVE  IsSequence(file'[tool[u].cmd.out])
      OBVIOUS
    <3>2. tool[u].cmd \in Writers
      BY <2>2, <3>1 DEF ToolOK, TypedTool, PcOK, Is, Asking, Writers
    <3>3. tool[u].cmd.out \in DOMAIN file
      BY <3>2 DEF IInv, FileOK
    <3>4. IsSequence(file[tool[u].cmd.out])
      BY <2>1, <3>1 DEF OpenOK
    <3>5. QED BY <1>5, <3>3, <3>4
  <2>6. OpenOK(u)'
    BY <2>1, <2>3, <2>4, <2>5 DEF OpenOK, Is
  <2>7. Saves(u) \/ Saved(u) => file'[tool[u].cmd.out] = file[tool[u].cmd.out]
    <3>1. SUFFICES ASSUME Saves(u) \/ Saved(u)
                   PROVE  file'[tool[u].cmd.out] = file[tool[u].cmd.out]
      OBVIOUS
    <3>2. tool[u].cmd \in Writers
      BY <2>2, <3>1 DEF ToolOK, TypedTool, PcOK, Is, Asking, Writers, Saves, Saved, Good
    <3>3. tool[u].cmd.out \in DOMAIN file
      BY <3>2 DEF IInv, FileOK
    <3>4. QED BY <1>2, <1>5, <3>1, <3>3
  <2>8. QED BY <2>1, <2>6, <2>7, LocalKept
<1>10. SavesApart'
  <2>1. SUFFICES ASSUME NEW u \in Tools, NEW v \in Tools, Saves(u)' \/ Saved(u)', Saves(v)' \/ Saved(v)', u # v
                 PROVE  tool'[u].cmd.out # tool'[v].cmd.out
    BY DEF SavesApart
  <2>2. ASSUME NEW w \in Tools \ {t}, Saves(w)' \/ Saved(w)'
        PROVE  (Saves(w) \/ Saved(w)) /\ tool'[w] = tool[w]
    <3>1. tool'[w] = tool[w]
      BY <1>1
    <3>2. QED BY <2>2, <3>1 DEF Saves, Saved, Good, Is
  <2>3. CASE u = t
    BY <2>1, <2>2, <2>3
  <2>4. CASE v = t
    BY <2>1, <2>2, <2>4
  <2>5. CASE u # t /\ v # t
    BY <2>1, <2>2, <2>5 DEF IInv, SavesApart
  <2>6. QED BY <2>3, <2>4, <2>5
<1>11. ErasedOK'
  <2>1. \A p, i : ~Programs(t, p, i)
    BY DEF Programs
  <2>2. QED BY <2>1, ErasedKept
<1>12. \A u \in Tools : Local(u)'
  BY <1>9
<1>13. QED BY <1>1, <1>6, <1>7, <1>8, <1>10, <1>11, <1>12 DEF IInv

LEMMA EmptyIs == IsSequence(<<>>) /\ Len(<<>>) = 0 /\ <<>> # None
<1>1. PICK e \in Seq(Nat) : e = <<>>
  BY EmptySeq
<1>2. IsSequence(e) /\ e # None
  BY SeqIsSequence, FlashAssumption
<1>3. QED BY <1>1, <1>2, EmptySeq

\* A program for product data writes no file to which a partition is saved.
LEMMA NotSavedTo ==
  ASSUME IInv, FilesApart, NEW t \in Tools, tool[t].cmd # None, Is(t, {"show", "conv", "reverse"}),
         NEW u \in Tools \ {t}, Saves(u) \/ Saved(u)
  PROVE  tool[u].cmd.out # tool[t].cmd.out
<1>1. tool[t].cmd \in Asking({"show", "conv", "reverse"})
  BY ToolIs DEF ToolOK, TypedTool, Is, Asking
<1>2. tool[u].cmd \in Asking({"read"})
  BY ToolIs DEF ToolOK, TypedTool, PcOK, Is, Asking, Saves, Saved, Good
<1>3. QED BY <1>1, <1>2 DEF FilesApart

\* Opening a file empties it.
LEMMA Opened ==
  ASSUME IInv, NEW t \in Tools, tool[t].cmd # None, Is(t, {"show", "conv", "reverse", "read"}), NEW c,
         file' = [file EXCEPT ![tool[t].cmd.out] = c]
  PROVE  file'[tool[t].cmd.out] = c
<1>1. tool[t].cmd \in Writers
  BY ToolIs DEF ToolOK, TypedTool, Is, Asking, Writers
<1>2. tool[t].cmd.out \in DOMAIN file /\ file = [f \in DOMAIN file |-> file[f]]
  BY <1>1 DEF IInv, FileOK
<1>3. QED BY <1>2

LEMMA ShowStartKeeps ==
  ASSUME IInv, FilesApart, NEW t \in Tools, ShowStart(t)
  PROVE  IInv'
<1>1. PICK e : e = <<>>
  OBVIOUS
<1>2. /\ tool[t].pc = "start" /\ tool[t].cmd.op = "show" /\ UNCHANGED <<flash, copy, disturbed, reported>>
      /\ (UNCHANGED budget \/ Fault) /\ tool[t].cmd # None /\ file' = [file EXCEPT ![tool[t].cmd.out] = e]
  BY <1>1, ToolIs DEF ShowStart, At, ToolOK, PcOK, Empty
<1>3. IsSequence(e)
  BY <1>1, EmptyIs
<1>4. Is(t, {"show", "conv", "reverse"}) /\ Is(t, {"show", "conv", "reverse", "read"})
  BY <1>2 DEF Is
<1>5. \A u \in Tools \ {t} : Saves(u) \/ Saved(u) => tool[u].cmd.out # tool[t].cmd.out
  BY <1>2, <1>4, NotSavedTo
<1>6. CASE Goes(t, "readflash")
  <2>1. /\ Only(t) /\ IsTool(tool'[t])
        /\ tool'[t].pc = "readflash" /\ tool'[t].cmd = tool[t].cmd /\ tool'[t].buf = tool[t].buf
        /\ tool'[t].size = tool[t].size /\ tool'[t].off = tool[t].off
        /\ tool'[t].errno = tool[t].errno /\ tool'[t].rc = tool[t].rc
    BY <1>6, GoesGives
  <2>2. ToolOK(t)'
    <3>1. TypedTool(t)'
      BY <2>1, ToolIs DEF ToolOK, TypedTool, Pcs
    <3>2. PcOK(t)'
      BY <1>2, <2>1, ToolIs DEF ToolOK, PcOK, Is
    <3>3. QED BY <3>1, <3>2 DEF ToolOK
  <2>3. OpenOK(t)'
    <3>1. file'[tool[t].cmd.out] = e
      BY <1>2, <1>4, Opened
    <3>2. QED BY <1>3, <2>1, <3>1 DEF OpenOK
  <2>4. Local(t)' /\ ~Saves(t)' /\ ~Saved(t)'
    BY <1>2, <2>1, <2>2, <2>3, IdleLocal DEF Is
  <2>5. QED BY <1>2, <1>3, <1>4, <1>5, <2>1, <2>4, FileStep
<1>7. CASE EndsWith(t, tool[t].errno, "fail")
  <2>1. Only(t) /\ Local(t)' /\ ~Saves(t)' /\ ~Saved(t)'
    BY <1>7, FailGives, EndedLocal
  <2>2. QED BY <1>2, <1>3, <1>4, <1>5, <2>1, FileStep
<1>8. QED BY <1>6, <1>7 DEF ShowStart, Ends

LEMMA ConvStartKeeps ==
  ASSUME IInv, FilesApart, NEW t \in Tools, ConvStart(t)
  PROVE  IInv'
<1>1. PICK e : e = <<>>
  OBVIOUS
<1>2. /\ tool[t].pc = "start" /\ Is(t, {"conv", "reverse"}) /\ UNCHANGED <<flash, copy, disturbed, reported, budget>>
      /\ tool[t].cmd # None
  BY ToolIs DEF ConvStart, ToolOK, PcOK, Is
<1>3. IsSequence(e)
  BY <1>1, EmptyIs
<1>4. /\ Is(t, {"show", "conv", "reverse"}) /\ Is(t, {"show", "conv", "reverse", "read"})
      /\ Is(t, {"update", "vpdupdate", "conv", "reverse"})
  BY <1>2 DEF Is
<1>5. \A u \in Tools \ {t} : Saves(u) \/ Saved(u) => tool[u].cmd.out # tool[t].cmd.out
  BY <1>2, <1>4, NotSavedTo
<1>6. CASE file[tool[t].cmd.in] # None /\ Empty(t) /\ Goes(t, "convert")
  <2>1. /\ Only(t) /\ IsTool(tool'[t])
        /\ tool'[t].pc = "convert" /\ tool'[t].cmd = tool[t].cmd /\ tool'[t].buf = tool[t].buf
        /\ tool'[t].size = tool[t].size /\ tool'[t].off = tool[t].off
        /\ tool'[t].errno = tool[t].errno /\ tool'[t].rc = tool[t].rc
    BY <1>6, GoesGives
  <2>2. ToolOK(t)'
    <3>1. TypedTool(t)'
      BY <2>1, ToolIs DEF ToolOK, TypedTool, Pcs
    <3>2. PcOK(t)'
      BY <1>2, <2>1, ToolIs DEF ToolOK, PcOK, Is
    <3>3. QED BY <3>1, <3>2 DEF ToolOK
  <2>3. file' = [file EXCEPT ![tool[t].cmd.out] = e]
    BY <1>1, <1>6 DEF Empty
  <2>4. OpenOK(t)'
    <3>1. file'[tool[t].cmd.out] = e
      BY <1>2, <1>4, <2>3, Opened
    <3>2. IsSequence(file[tool[t].cmd.in])
      BY <1>2, <1>4, <1>6, InputIs
    <3>3. tool[t].cmd.in \in DOMAIN file /\ file = [f \in DOMAIN file |-> file[f]]
      BY <1>2, <1>4, <1>6, InputIs DEF IInv, FileOK
    <3>4. file'[tool[t].cmd.in] \in {e, file[tool[t].cmd.in]}
      BY <2>3, <3>3
    <3>5. QED BY <1>3, <2>1, <3>1, <3>2, <3>4 DEF OpenOK
  <2>5. Local(t)' /\ ~Saves(t)' /\ ~Saved(t)'
    BY <1>2, <2>1, <2>2, <2>4, IdleLocal
  <2>6. QED BY <1>2, <1>3, <1>4, <1>5, <2>1, <2>3, <2>5, FileStep
<1>7. CASE EndsWith(t, tool[t].errno, "fail") /\ UNCHANGED file
  <2>1. reported' \subseteq Partitions /\ reported \subseteq reported'
    BY <1>2 DEF IInv, Others
  <2>2. QED BY <1>2, <1>7, <2>1, FailStep
<1>8. QED BY <1>6, <1>7 DEF ConvStart, Ends

\* What is written over a file is a file.
LEMMA OverwrittenIs ==
  ASSUME NEW s, NEW c, IsSequence(s), IsSequence(c)
  PROVE  IsSequence(Overwrite(s, 0, c))
<1>1. PICK R : R = {s[i] : i \in 1 .. Len(s)} \cup {c[i] : i \in 1 .. Len(c)}
  OBVIOUS
<1>2. s \in Seq(R) /\ c \in Seq(R) /\ Len(s) \in Nat /\ Len(c) \in Nat
  BY <1>1, SequenceIn, SequenceIs
<1>3. SubSeq(s, 1, 0) = <<>>
  BY SubSeqEmpty
<1>4. PICK b : b = SubSeq(s, 0 + Len(c) + 1, Len(s))
  OBVIOUS
<1>5. b \in Seq(R)
  <2>1. CASE Len(c) < Len(s)
    <3>1. PICK m \in Nat \ {0} : m = 0 + Len(c) + 1 /\ m <= Len(s) + 1
      BY <1>2, <2>1
    <3>2. \A i \in m .. Len(s) : s[i] \in R
      BY <1>2, <3>1
    <3>3. SubSeq(s, m, Len(s)) \in Seq(R)
      BY <1>2, <3>1, SubSeqProperties
    <3>4. QED BY <1>4, <3>1, <3>3
  <2>2. CASE ~(Len(c) < Len(s))
    <3>1. 0 + Len(c) + 1 \in Int /\ Len(s) \in Int /\ Len(s) < 0 + Len(c) + 1
      BY <1>2, <2>2
    <3>2. b = <<>>
      BY <1>4, <3>1, SubSeqEmpty
    <3>3. QED BY <3>2
  <2>3. QED BY <2>1, <2>2
<1>6. PICK r : r = (<<>> \o c) \o b
  OBVIOUS
<1>7. r \in Seq(R)
  BY <1>2, <1>5, <1>6, ConcatProperties, ConcatEmptySeq
<1>8. Overwrite(s, 0, c) = r
  BY <1>3, <1>4, <1>6 DEF Overwrite
<1>9. QED BY <1>7, <1>8, SeqIsSequence

LEMMA FlushKeeps ==
  ASSUME IInv, FilesApart, NEW t \in Tools, Flush(t)
  PROVE  IInv'
<1>1. /\ tool[t].pc = "flush" /\ UNCHANGED <<flash, copy, disturbed, reported, budget>>
      /\ tool[t].cmd # None /\ Is(t, {"show", "conv", "reverse"}) /\ tool[t].rc \in {"ok", "fail"}
  BY ToolIs DEF Flush, ToolOK, TypedTool, PcOK
<1>2. PICK c : c = Overwrite(file[tool[t].cmd.out], 0, tool[t].buf)
  OBVIOUS
<1>3. IsSequence(c)
  <2>1. IsSequence(file[tool[t].cmd.out])
    BY <1>1 DEF IInv, Local, OpenOK
  <2>2. QED BY <1>2, <2>1, ToolIs, OverwrittenIs
<1>4. Is(t, {"show", "conv", "reverse", "read"}) /\ tool[t].cmd.op \in {"show", "conv", "reverse"}
  BY <1>1 DEF Is
<1>5. \A u \in Tools \ {t} : Saves(u) \/ Saved(u) => tool[u].cmd.out # tool[t].cmd.out
  BY <1>1, NotSavedTo
<1>6. file' = [file EXCEPT ![tool[t].cmd.out] = c]
  <2>1. FileOK /\ tool[t].cmd \in Writers
    BY <1>1, ToolIs DEF IInv, ToolOK, TypedTool, Is, Writers, Asking
  <2>2. tool[t].cmd.out \in DOMAIN file
    BY <2>1 DEF FileOK
  <2>3. QED BY <1>2, <2>2 DEF Flush
<1>7. CASE EndsWith(t, tool[t].errno, "ok")
  <2>1. /\ Only(t) /\ IsTool(tool'[t])
        /\ tool'[t].pc = "ended" /\ tool'[t].cmd = tool[t].cmd /\ tool'[t].buf = tool[t].buf
        /\ tool'[t].size = 0 /\ tool'[t].off = 0 /\ tool'[t].errno = tool[t].errno /\ tool'[t].rc = "ok"
    BY <1>7, OkGives
  <2>2. Local(t)' /\ ~Saves(t)' /\ ~Saved(t)'
    BY <1>1, <1>4, <2>1, WrittenNowhere
  <2>3. QED BY <1>1, <1>3, <1>4, <1>5, <1>6, <2>1, <2>2, FileStep
<1>8. CASE EndsWith(t, tool[t].errno, "fail")
  <2>1. Only(t) /\ Local(t)' /\ ~Saves(t)' /\ ~Saved(t)'
    BY <1>8, FailGives, EndedLocal
  <2>2. QED BY <1>1, <1>3, <1>4, <1>5, <1>6, <2>1, FileStep
<1>9. QED BY <1>1, <1>7, <1>8 DEF Flush, Ends

LEMMA ReadStartKeeps ==
  ASSUME IInv, FilesApart, NEW t \in Tools, ReadStart(t)
  PROVE  IInv'
<1>1. PICK e : e = <<>>
  OBVIOUS
<1>2. /\ tool[t].pc = "start" /\ tool[t].cmd.op = "read" /\ UNCHANGED <<flash, copy, disturbed, reported, budget>>
      /\ tool[t].cmd # None
  BY ToolIs DEF ReadStart, At, ToolOK, PcOK
<1>3. IsSequence(e) /\ e # None
  BY <1>1, EmptyIs
<1>4. Is(t, {"show", "conv", "reverse", "read"})
  BY <1>2 DEF Is
<1>5. CASE file[tool[t].cmd.out] = None /\ Empty(t) /\ Goes(t, "readflash")
  <2>1. /\ Only(t) /\ IsTool(tool'[t])
        /\ tool'[t].pc = "readflash" /\ tool'[t].cmd = tool[t].cmd /\ tool'[t].buf = tool[t].buf
        /\ tool'[t].size = tool[t].size /\ tool'[t].off = tool[t].off
        /\ tool'[t].errno = tool[t].errno /\ tool'[t].rc = tool[t].rc
    BY <1>5, GoesGives
  <2>2. ToolOK(t)'
    <3>1. TypedTool(t)'
      BY <2>1, ToolIs DEF ToolOK, TypedTool, Pcs
    <3>2. PcOK(t)'
      BY <1>2, <2>1, ToolIs DEF ToolOK, PcOK, Is
    <3>3. QED BY <3>1, <3>2 DEF ToolOK
  <2>3. file' = [file EXCEPT ![tool[t].cmd.out] = e]
    BY <1>1, <1>5 DEF Empty
  <2>4. file'[tool[t].cmd.out] = e
    BY <1>2, <1>4, <2>3, Opened
  <2>5. ASSUME NEW u \in Tools \ {t}, Saves(u) \/ Saved(u)
        PROVE  tool[u].cmd.out # tool[t].cmd.out
    <3>1. file[tool[u].cmd.out] # None
      BY <1>1, <1>3, <2>5 DEF IInv, Local, SaveOK
    <3>2. QED BY <1>5, <3>1
  <2>6. OpenOK(t)' /\ BufOK(t)' /\ WrittenOK(t)' /\ ~Saved(t)'
    BY <1>2, <2>1 DEF OpenOK, BufOK, Holds, Good, WrittenOK, Verified, Saved, Is
  <2>7. SaveOK(t)'
    BY <1>1, <2>1, <2>4, <2>6 DEF SaveOK
  <2>8. Local(t)'
    BY <2>2, <2>6, <2>7 DEF Local
  <2>9. QED BY <1>2, <1>3, <1>4, <2>1, <2>3, <2>5, <2>8, FileStep
<1>6. CASE EndsWith(t, tool[t].errno, "fail") /\ UNCHANGED file
  <2>1. reported' \subseteq Partitions /\ reported \subseteq reported'
    BY <1>2 DEF IInv, Others
  <2>2. QED BY <1>2, <1>6, <2>1, FailStep
<1>7. QED BY <1>5, <1>6 DEF ReadStart, Ends

LEMMA WriteFileKeeps ==
  ASSUME IInv, FilesApart, NEW t \in Tools, WriteFile(t)
  PROVE  IInv'
<1>1. /\ tool[t].pc = "write" /\ tool[t].cmd.op = "read" /\ UNCHANGED <<flash, copy, disturbed, reported>>
      /\ tool[t].cmd # None
  BY ToolIs DEF WriteFile, At, ToolOK, PcOK
<1>2. Is(t, {"show", "conv", "reverse", "read"}) /\ Is(t, {"read"})
  BY <1>1 DEF Is
<1>3. Saves(t) /\ SaveOK(t)
  BY <1>1, <1>2 DEF Saves, IInv, Local
<1>4. file[tool[t].cmd.out] = <<>> /\ tool[t].buf \in Seq(Nat)
  BY <1>1, <1>3 DEF SaveOK
<1>5. PICK b \in Seq(Nat) : b = tool[t].buf
  BY <1>4
<1>6. IsSequence(b) /\ Len(b) \in Nat /\ b # None
  BY SeqIsSequence, FlashAssumption
<1>7. ASSUME NEW u \in Tools \ {t}, Saves(u) \/ Saved(u)
      PROVE  tool[u].cmd.out # tool[t].cmd.out
  BY <1>3, <1>7 DEF IInv, SavesApart
<1>8. tool[t].cmd.out \in DOMAIN file
  <2>1. FileOK /\ tool[t].cmd \in Writers
    BY <1>1, <1>2, ToolIs DEF IInv, ToolOK, TypedTool, Is, Writers, Asking
  <2>2. QED BY <2>1 DEF FileOK
<1>9. CASE /\ file' = [file EXCEPT ![tool[t].cmd.out] = Overwrite(@, 0, tool[t].buf)]
           /\ EndsWith(t, tool[t].errno, "ok") /\ UNCHANGED budget
  <2>1. /\ Only(t) /\ IsTool(tool'[t])
        /\ tool'[t].pc = "ended" /\ tool'[t].cmd = tool[t].cmd /\ tool'[t].buf = tool[t].buf
        /\ tool'[t].size = 0 /\ tool'[t].off = 0 /\ tool'[t].errno = tool[t].errno /\ tool'[t].rc = "ok"
    BY <1>9, OkGives
  <2>2. ToolOK(t)' /\ OpenOK(t)' /\ ~Saves(t)'
    BY <1>1, <1>9, OkTool, ToolIs DEF ToolOK, TypedTool
  <2>3. Overwrite(file[tool[t].cmd.out], 0, tool[t].buf) = b
    BY <1>4, <1>5, <1>6, OverwriteEmpty
  <2>4. file' = [file EXCEPT ![tool[t].cmd.out] = b]
    BY <1>8, <1>9, <2>3
  <2>5. file'[tool[t].cmd.out] = b
    BY <1>1, <1>2, <2>4, Opened
  <2>6. BufOK(t)' /\ WrittenOK(t)' /\ Saved(t)'
    BY <1>1, <2>1 DEF BufOK, Holds, Good, WrittenOK, Verified, Saved
  <2>7. SaveOK(t)'
    <3>1. "flash" \notin disturbed[t] => b = SubSeq(flash[Partition(t)], 1, get_rbf_size)
      BY <1>1, <1>3, <1>5 DEF SaveOK
    <3>2. QED BY <1>1, <1>6, <2>1, <2>2, <2>5, <3>1 DEF SaveOK, Partition
  <2>8. Local(t)'
    BY <2>2, <2>6, <2>7 DEF Local
  <2>9. QED BY <1>1, <1>2, <1>6, <1>7, <1>9, <2>1, <2>4, <2>8, FileStep
<1>10. ASSUME NEW n \in 0 .. Len(tool[t].buf) - 1,
              file' = [file EXCEPT ![tool[t].cmd.out] = Overwrite(@, 0, SubSeq(tool[t].buf, 1, n))],
              EndsWith(t, tool[t].errno, "fail"), Fault
       PROVE  IInv'
  <2>1. PICK c : c = SubSeq(b, 1, n)
    OBVIOUS
  <2>2. IsSequence(c)
    <3>1. n \in Nat /\ n <= Len(b)
      BY <1>5, <1>6
    <3>2. QED BY <1>6, <2>1, <3>1, PartOf
  <2>3. Overwrite(file[tool[t].cmd.out], 0, SubSeq(tool[t].buf, 1, n)) = c
    BY <1>4, <1>5, <2>1, <2>2, OverwriteEmpty
  <2>4. file' = [file EXCEPT ![tool[t].cmd.out] = c]
    BY <1>8, <1>10, <2>3
  <2>5. Only(t) /\ Local(t)' /\ ~Saves(t)' /\ ~Saved(t)'
    BY <1>10, FailGives, EndedLocal
  <2>6. QED BY <1>1, <1>2, <1>7, <1>10, <2>2, <2>4, <2>5, FileStep
<1>11. QED BY <1>9, <1>10 DEF WriteFile, Ends

-----------------------------------------------------------------------------
(* The steps that write a partition                                        *)

\* A program that writes a partition has a buffer that fits and holds nothing erased.
LEMMA WriterIs ==
  ASSUME IInv, NEW t \in Tools, tool[t].pc \in {"erase", "program"}
  PROVE  /\ tool[t].cmd # None /\ Partition(t) \in Partitions /\ BufOK(t) /\ Holds(t)
         /\ Is(t, {"update", "vpdupdate"}) /\ (Partition(t) = "v" <=> Is(t, {"vpdupdate"}))
         /\ IsSequence(flash[Partition(t)]) /\ Len(flash[Partition(t)]) \in Nat
         /\ Len(tool[t].buf) <= Len(flash[Partition(t)]) /\ Len(tool[t].buf) <= Reach(Partition(t))
         /\ Partition(t) \in Images => tool[t].buf \in Seq(Block) /\ flash[Partition(t)] \in Seq(Nat)
         /\ \A i \in 1 .. Len(tool[t].buf) : tool[t].buf[i] # Erased(Partition(t))
<1>1. tool[t].cmd # None /\ Is(t, {"update", "vpdupdate"}) /\ (Is(t, {"update"}) => Partition(t) \in Images)
  BY ToolIs DEF ToolOK, PcOK
<1>2. Is(t, {"vpdupdate"}) => Partition(t) = "v"
  BY <1>1, PartitionIs
<1>3. Partition(t) \in Partitions /\ (Partition(t) = "v" <=> Is(t, {"vpdupdate"})) /\ ~(Is(t, {"update"}) /\ Is(t, {"vpdupdate"}))
  BY <1>1, <1>2 DEF Is, Images, Partitions
<1>4. BufOK(t) /\ Holds(t) /\ FlashOK
  BY DEF IInv, Local, Holds
<1>5. IsSequence(flash[Partition(t)]) /\ Len(flash[Partition(t)]) \in Nat
  BY <1>3, FlashIs
<1>6. CASE Is(t, {"update"})
  <2>1. Partition(t) \in Images /\ tool[t].buf \in Seq(Block) /\ Len(tool[t].buf) <= get_rbf_size
    BY <1>4, <1>6 DEF BufOK
  <2>2. flash[Partition(t)] \in Seq(Nat) /\ get_rbf_size <= Len(flash[Partition(t)])
    BY <1>4, <2>1 DEF FlashOK
  <2>3. Len(tool[t].buf) <= Len(flash[Partition(t)])
    <3>1. PICK n \in Nat : n = get_rbf_size
      BY FlashAssumption
    <3>2. QED BY <1>5, <2>1, <2>2, <3>1, ToolIs
  <2>4. Reach(Partition(t)) = get_rbf_size /\ Erased(Partition(t)) = 0
    BY <2>1 DEF Reach, Erased, Images
  <2>5. \A i \in 1 .. Len(tool[t].buf) : tool[t].buf[i] # 0
    BY <2>1, SeqIsSequence DEF Block
  <2>6. QED BY <1>1, <1>3, <1>4, <1>5, <2>1, <2>2, <2>3, <2>4, <2>5
<1>7. CASE Is(t, {"vpdupdate"})
  <2>1. Partition(t) = "v" /\ Partition(t) \notin Images
    BY <1>2, <1>7 DEF Images
  <2>2. Len(tool[t].buf) = LINES_IN_VPD /\ \A i \in DOMAIN tool[t].buf : tool[t].buf[i] # ErasedField
    BY <1>4, <1>7 DEF BufOK
  <2>3. Len(flash[Partition(t)]) = LINES_IN_VPD
    BY <1>4, <2>1 DEF FlashOK
  <2>4. Reach(Partition(t)) = LINES_IN_VPD /\ Erased(Partition(t)) = ErasedField
    BY <2>1 DEF Reach, Erased
  <2>5. Len(tool[t].buf) <= LINES_IN_VPD
    BY <2>2, ToolIs
  <2>6. \A i \in 1 .. Len(tool[t].buf) : tool[t].buf[i] # ErasedField
    BY <2>2, ToolIs
  <2>7. QED BY <1>1, <1>3, <1>4, <1>5, <2>1, <2>3, <2>4, <2>5, <2>6
<1>8. QED BY <1>1, <1>6, <1>7 DEF Is

\* A program writes a partition; the others that work on it have been disturbed.
LEMMA FlashStep ==
  ASSUME IInv, NEW t \in Tools, Only(t), Local(t)', ~Saves(t)', ~Saved(t)', tool[t].cmd # None,
         Partition(t) \in Partitions, NEW q, IsSequence(q), Len(q) = Len(flash[Partition(t)]),
         Partition(t) \in Images => q \in Seq(Nat), flash' = [flash EXCEPT ![Partition(t)] = q],
         Tell(t, OthersOf(t), "flash"), UNCHANGED <<file, copy>>, UNCHANGED budget \/ Fault,
         reported' \subseteq Partitions, ErasedOK'
  PROVE  IInv'
<1>1. tool' = [u \in Tools |-> tool'[u]] /\ \A u \in Tools \ {t} : tool'[u] = tool[u]
  BY OnlyIs
<1>2. PICK p \in Partitions : p = Partition(t)
  OBVIOUS
<1>3. /\ flash'[p] = q /\ \A r \in Partitions \ {p} : flash'[r] = flash[r]
      /\ flash' = [r \in Partitions |-> flash'[r]]
  <2>1. flash = [r \in Partitions |-> flash[r]]
    BY DEF IInv, FlashOK
  <2>2. flash' = [flash EXCEPT ![p] = q]
    BY <1>2
  <2>3. QED BY <2>1, <2>2
<1>4. \A r \in Partitions : Len(flash'[r]) = Len(flash[r])
  BY <1>2, <1>3
<1>5. FlashOK'
  <2>1. FlashOK /\ "v" \in Partitions /\ Images \subseteq Partitions
    BY DEF IInv, Partitions, Images
  <2>2. \A r \in Images : flash'[r] \in Seq(Nat) /\ get_rbf_size <= Len(flash'[r])
    BY <1>2, <1>3, <1>4, <2>1 DEF FlashOK
  <2>3. IsSequence(flash'["v"]) /\ Len(flash'["v"]) = LINES_IN_VPD
    BY <1>2, <1>3, <1>4, <2>1 DEF FlashOK
  <2>4. \A r \in Partitions : \E s \in Starts : Len(flash'[r]) = Len(s.flash[r])
    BY <1>4, <2>1 DEF FlashOK
  <2>5. QED BY <1>3, <2>2, <2>3, <2>4 DEF FlashOK
<1>6. FileOK'
  BY DEF IInv, FileOK
<1>7. /\ disturbed' \in [Tools -> SUBSET {"flash", "file"}]
      /\ \A u \in Tools : /\ disturbed[u] \subseteq disturbed'[u]
                          /\ "file" \in disturbed'[u] => "file" \in disturbed[u]
                          /\ u \in OthersOf(t) \ {t} => "flash" \in disturbed'[u]
  BY DEF IInv, Others, Tell
<1>8. Others'
  BY <1>7, BudgetStep DEF Others
<1>9. ASSUME NEW u \in Tools \ {t}
      PROVE  Local(u)'
  <2>1. Local(u) /\ tool'[u] = tool[u] /\ OpenOK(u)
    BY <1>1 DEF IInv, Local
  <2>2. OpenOK(u)'
    BY <1>7, <2>1 DEF OpenOK, Is
  <2>3. tool[u].cmd # None =>
          \A r \in {Partition(u)} \cap Partitions : flash'[r] = flash[r] \/ "flash" \in disturbed'[u]
    <3>1. SUFFICES ASSUME tool[u].cmd # None, Partition(u) \in Partitions
                   PROVE  flash'[Partition(u)] = flash[Partition(u)] \/ "flash" \in disturbed'[u]
      OBVIOUS
    <3>2. CASE Partition(u) = p
      BY <1>2, <1>7, <3>1, <3>2 DEF OthersOf, Partition
    <3>3. CASE Partition(u) # p
      BY <1>3, <3>1, <3>3
    <3>4. QED BY <3>2, <3>3
  <2>4. QED BY <1>7, <2>1, <2>2, <2>3, LocalKept
<1>10. SavesApart'
  BY ApartKept
<1>11. \A u \in Tools : Local(u)'
  BY <1>9
<1>12. QED BY <1>1, <1>5, <1>6, <1>8, <1>10, <1>11 DEF IInv

LEMMA EraseKeeps ==
  ASSUME IInv, NEW t \in Tools, Erase(t)
  PROVE  IInv'
<1>1. /\ tool[t].pc = "erase" /\ Goes(t, "program") /\ Tell(t, OthersOf(t), "flash")
      /\ UNCHANGED <<file, copy, reported, budget>>
      /\ Put(t, 0, [i \in DOMAIN tool[t].buf |-> Erased(Partition(t))])
  BY DEF Erase
<1>2. /\ tool[t].cmd # None /\ Partition(t) \in Partitions /\ BufOK(t) /\ Holds(t)
      /\ Is(t, {"update", "vpdupdate"})
      /\ IsSequence(flash[Partition(t)]) /\ Len(flash[Partition(t)]) \in Nat
      /\ Len(tool[t].buf) <= Len(flash[Partition(t)]) /\ Len(tool[t].buf) <= Reach(Partition(t))
      /\ Partition(t) \in Images => tool[t].buf \in Seq(Block) /\ flash[Partition(t)] \in Seq(Nat)
  BY <1>1, WriterIs
<1>3. PICK n \in Nat : n = Len(tool[t].buf) /\ DOMAIN tool[t].buf = 1 .. n
  BY ToolIs
<1>4. PICK c : c = [i \in 1 .. n |-> Erased(Partition(t))]
  OBVIOUS
<1>5. IsSequence(c) /\ Len(c) = n /\ \A i \in 1 .. n : c[i] = Erased(Partition(t))
  <2>1. c = [i \in 1 .. n |-> c[i]]
    BY <1>4
  <2>2. QED BY <1>4, <2>1, FunctionIsSequence
<1>6. PICK s : s = flash[Partition(t)]
  OBVIOUS
<1>7. PICK o : o = Overwrite(s, 0, c)
  OBVIOUS
<1>8. /\ IsSequence(o) /\ Len(o) = Len(s)
      /\ \A i \in 1 .. Len(c) : o[0 + i] = c[i]
      /\ \A i \in 1 .. Len(s) : ~(0 < i /\ i <= 0 + Len(c)) => o[i] = s[i]
  <2>1. 0 + Len(c) <= Len(s) /\ IsSequence(s) /\ IsSequence(c) /\ 0 \in Nat
    BY <1>2, <1>3, <1>5, <1>6
  <2>2. IsSequence(o) /\ Len(o) = Len(s)
    BY <1>7, <2>1, OverwriteGives
  <2>3. \A i \in 1 .. Len(c) : o[0 + i] = c[i]
    BY <1>7, <2>1, OverwriteGives
  <2>4. \A i \in 1 .. Len(s) : ~(0 < i /\ i <= 0 + Len(c)) => o[i] = s[i]
    BY <1>7, <2>1, OverwriteGives
  <2>5. QED BY <2>2, <2>3, <2>4
<1>9. flash' = [flash EXCEPT ![Partition(t)] = o]
  BY <1>1, <1>2, <1>3, <1>4, <1>6, <1>7 DEF Put, IInv, FlashOK
<1>10. \A i \in 1 .. n : o[i] = Erased(Partition(t))
  <2> TAKE i \in 1 .. n
  <2>1. 0 + i = i
    OBVIOUS
  <2>2. QED BY <1>5, <1>8, <2>1
<1>11. \A i \in 1 .. Len(s) : i > n => o[i] = s[i]
  BY <1>5, <1>8
<1>12. Partition(t) \in Images => o \in Seq(Nat)
  <2>1. SUFFICES ASSUME Partition(t) \in Images
                 PROVE  o \in Seq(Nat)
    OBVIOUS
  <2>2. Erased(Partition(t)) = 0 /\ s \in Seq(Nat)
    BY <1>2, <1>6, <2>1 DEF Erased, Images
  <2>3. \A i \in 1 .. Len(o) : o[i] \in Nat
    BY <1>2, <1>6, <1>8, <1>10, <1>11, <2>2, SeqIsSequence
  <2>4. QED BY <1>8, <2>3, SequenceIn
<1>13. /\ Only(t) /\ IsTool(tool'[t])
       /\ tool'[t].pc = "program" /\ tool'[t].cmd = tool[t].cmd /\ tool'[t].buf = tool[t].buf
       /\ tool'[t].size = tool[t].size /\ tool'[t].off = tool[t].off
       /\ tool'[t].errno = tool[t].errno /\ tool'[t].rc = tool[t].rc
  BY <1>1, GoesGives
<1>14. tool[t].off = 0
  BY <1>1, ToolIs DEF ToolOK, PcOK
<1>15. ToolOK(t)'
  <2>1. TypedTool(t)'
    BY <1>13, ToolIs DEF ToolOK, TypedTool, Pcs
  <2>2. Is(t, {"update"}) => Partition(t) \in Images
    BY <1>1, ToolIs DEF ToolOK, PcOK
  <2>3. PcOK(t)'
    BY <1>2, <1>13, <1>14, <2>2 DEF PcOK, Is, Partition
  <2>4. QED BY <2>1, <2>3 DEF ToolOK
<1>16. OpenOK(t)' /\ SaveOK(t)' /\ ~Saves(t)' /\ ~Saved(t)'
  BY <1>13 DEF OpenOK, Good, SaveOK, Saves, Saved
<1>17. disturbed'[t] = disturbed[t]
  BY <1>1 DEF IInv, Others, Tell
<1>18. BufOK(t)'
  BY <1>2, <1>13, <1>17 DEF BufOK, Is, Partition
<1>19. WrittenOK(t)'
  <2>1. \A i \in 1 .. 0 : FALSE
    OBVIOUS
  <2>2. QED BY <1>13, <1>14, <2>1 DEF WrittenOK, Verified, Good
<1>20. Local(t)'
  BY <1>15, <1>16, <1>18, <1>19 DEF Local
<1>21. ErasedOK'
  <2>1. SUFFICES ASSUME NEW p \in Partitions, NEW i \in DOMAIN flash'[p], flash'[p][i] = Erased(p)
                 PROVE  i <= Reach(p) /\ (p \in reported' \/ \E u \in Tools : Programs(u, p, i)')
    BY DEF ErasedOK, Reach
  <2>2. CASE flash[p][i] = Erased(p) /\ i \in DOMAIN flash[p]
    <3>1. i <= Reach(p) /\ (p \in reported \/ \E u \in Tools : Programs(u, p, i))
      BY <2>2 DEF IInv, ErasedOK
    <3>2. ASSUME NEW u \in Tools, Programs(u, p, i)
          PROVE  Programs(u, p, i)'
      <4>1. tool'[u] = tool[u]
        BY <1>1, <1>13, <3>2, OnlyIs DEF Programs
      <4>2. QED BY <3>2, <4>1 DEF Programs, Partition
    <3>3. QED BY <1>1, <3>1, <3>2
  <2>3. CASE ~(flash[p][i] = Erased(p) /\ i \in DOMAIN flash[p])
    <3>1. p = Partition(t) /\ flash'[p] = o
      <4>1. p # Partition(t) => flash'[p] = flash[p]
        BY <1>2, <1>9 DEF IInv, FlashOK
      <4>2. p = Partition(t)
        BY <2>1, <2>3, <4>1
      <4>3. QED BY <1>2, <1>9, <4>2 DEF IInv, FlashOK
    <3>2. i \in 1 .. Len(s) /\ Len(s) \in Nat /\ DOMAIN s = 1 .. Len(s)
      BY <1>2, <1>6, <1>8, <2>1, <3>1, SequenceIs
    <3>3. i \in Nat /\ 0 < i /\ i <= n
      BY <1>6, <1>11, <2>1, <2>3, <3>1, <3>2
    <3>4. i <= Reach(p)
      <4>1. PICK r \in Nat : r = Reach(p)
        BY FlashAssumption, RefAssumption DEF Reach
      <4>2. QED BY <1>2, <1>3, <3>1, <3>3, <4>1
    <3>5. Programs(t, p, i)'
      BY <1>3, <1>13, <1>14, <3>1, <3>3 DEF Programs, Partition
    <3>6. QED BY <3>4, <3>5
  <2>4. QED BY <2>2, <2>3
<1>22. reported' \subseteq Partitions
  BY <1>1 DEF IInv, Others
<1>23. QED BY <1>1, <1>2, <1>6, <1>8, <1>9, <1>12, <1>13, <1>16, <1>20, <1>21, <1>22, FlashStep

\* What is programmed next is a part of the buffer.
LEMMA ChunkIs ==
  ASSUME IInv, NEW t \in Tools, tool[t].pc = "program", tool[t].off < Len(tool[t].buf), NEW c, c = Chunk(t)
  PROVE  /\ IsSequence(c) /\ Len(c) \in Nat \ {0} /\ tool[t].off + Len(c) <= Len(tool[t].buf)
         /\ \A i \in 1 .. Len(c) : c[i] = tool[t].buf[tool[t].off + i]
         /\ Is(t, {"vpdupdate"}) => tool[t].off = 0 /\ c = tool[t].buf
         /\ ~Is(t, {"vpdupdate"}) => Len(c) = 1
<1>1. Partition(t) = "v" <=> Is(t, {"vpdupdate"})
  BY WriterIs
<1>2. PICK n \in Nat, m \in Nat : n = tool[t].off /\ m = Len(tool[t].buf)
  BY ToolIs
<1>3. IsSequence(tool[t].buf) /\ n < m
  BY <1>2, ToolIs
<1>4. CASE Is(t, {"vpdupdate"})
  <2>1. n = 0
    BY <1>2, <1>3, <1>4, ToolIs DEF ToolOK, PcOK
  <2>2. c = tool[t].buf
    BY <1>1, <1>4 DEF Chunk
  <2>3. \A i \in 1 .. m : c[i] = tool[t].buf[n + i]
    <3> TAKE i \in 1 .. m
    <3>1. n + i = i
      BY <2>1
    <3>2. QED BY <2>2, <3>1
  <2>4. m \in Nat \ {0} /\ n + m <= m
    BY <1>3, <2>1
  <2>5. QED BY <1>2, <1>3, <1>4, <2>1, <2>2, <2>3, <2>4
<1>5. CASE ~Is(t, {"vpdupdate"})
  <2>1. c = SubSeq(tool[t].buf, n + 1, n + 1)
    BY <1>1, <1>2, <1>5 DEF Chunk
  <2>2. PICK k \in Nat \ {0} : k = n + 1 /\ k <= m
    BY <1>3
  <2>3. /\ IsSequence(c) /\ Len(c) = k - k + 1
        /\ \A i \in 1 .. k - k + 1 : c[i] = tool[t].buf[k + i - 1]
    <3>1. c = SubSeq(tool[t].buf, k, k)
      BY <2>1, <2>2
    <3>2. k \in Nat /\ k <= Len(tool[t].buf) /\ k <= k + 1
      BY <1>2, <2>2
    <3>3. QED BY <1>3, <2>2, <3>1, <3>2, PartOf
  <2>4. Len(c) = 1 /\ n + 1 <= m /\ 1 \in Nat \ {0}
    BY <2>2, <2>3
  <2>5. \A i \in 1 .. Len(c) : c[i] = tool[t].buf[n + i]
    <3> TAKE i \in 1 .. Len(c)
    <3>1. i \in 1 .. k - k + 1 /\ k + i - 1 = n + i
      BY <2>2, <2>4
    <3>2. QED BY <2>3, <3>1
  <2>6. QED BY <1>2, <1>5, <2>3, <2>4, <2>5
<1>6. QED BY <1>4, <1>5

\* The next part of the buffer is programmed, a block of an image perhaps wrongly.
LEMMA ProgramStep ==
  ASSUME IInv, NEW t \in Tools, tool[t].pc = "program", tool[t].off < Len(tool[t].buf),
         NEW w, IsSequence(w), Len(w) = Len(Chunk(t)),
         \A i \in 1 .. Len(w) : \/ w[i] = tool[t].buf[tool[t].off + i]
                                \/ Partition(t) \in Images /\ w[i] = Wrong,
         Put(t, tool[t].off, w), tool' = [tool EXCEPT ![t].off = @ + Len(Chunk(t))],
         Tell(t, OthersOf(t), "flash"), UNCHANGED <<file, copy, reported>>, UNCHANGED budget \/ Fault
  PROVE  IInv'
<1>1. /\ tool[t].cmd # None /\ Partition(t) \in Partitions /\ BufOK(t) /\ Holds(t)
      /\ Is(t, {"update", "vpdupdate"})
      /\ IsSequence(flash[Partition(t)]) /\ Len(flash[Partition(t)]) \in Nat
      /\ Len(tool[t].buf) <= Len(flash[Partition(t)])
      /\ Partition(t) \in Images => tool[t].buf \in Seq(Block) /\ flash[Partition(t)] \in Seq(Nat)
      /\ \A i \in 1 .. Len(tool[t].buf) : tool[t].buf[i] # Erased(Partition(t))
  BY WriterIs
<1>2. PICK off \in Nat, m \in Nat : off = tool[t].off /\ m = Len(tool[t].buf)
  BY ToolIs
<1>3. PICK n : n = Len(w)
  OBVIOUS
<1>4. n \in Nat \ {0} /\ off + n <= m /\ (Is(t, {"vpdupdate"}) => off = 0 /\ n = m)
  <2>1. PICK c : c = Chunk(t)
    OBVIOUS
  <2>2. Len(c) \in Nat \ {0} /\ off + Len(c) <= m /\ (Is(t, {"vpdupdate"}) => off = 0 /\ Len(c) = m)
    BY <1>2, <2>1, ChunkIs
  <2>3. QED BY <1>3, <2>1, <2>2
<1>5. PICK s : s = flash[Partition(t)]
  OBVIOUS
<1>6. PICK o : o = Overwrite(s, off, w)
  OBVIOUS
<1>7. /\ IsSequence(o) /\ Len(o) = Len(s)
      /\ \A i \in 1 .. n : o[off + i] = w[i]
      /\ \A i \in 1 .. Len(s) : ~(off < i /\ i <= off + n) => o[i] = s[i]
  <2>1. off + Len(w) <= Len(s) /\ IsSequence(s)
    BY <1>1, <1>2, <1>3, <1>4, <1>5
  <2>2. IsSequence(o) /\ Len(o) = Len(s)
    BY <1>6, <2>1, OverwriteGives
  <2>3. \A i \in 1 .. Len(w) : o[off + i] = w[i]
    BY <1>6, <2>1, OverwriteGives
  <2>4. \A i \in 1 .. Len(s) : ~(off < i /\ i <= off + Len(w)) => o[i] = s[i]
    BY <1>6, <2>1, OverwriteGives
  <2>5. QED BY <1>3, <2>2, <2>3, <2>4
<1>8. flash' = [flash EXCEPT ![Partition(t)] = o]
  BY <1>1, <1>2, <1>5, <1>6 DEF Put, IInv, FlashOK
<1>9. ASSUME NEW i \in Nat, off < i, i <= off + n
      PROVE  /\ o[i] = tool[t].buf[i] \/ (Partition(t) \in Images /\ o[i] = Wrong)
             /\ o[i] # Erased(Partition(t))
  <2>1. PICK j \in Nat : j = i - off
    BY <1>9
  <2>2. j \in 1 .. n /\ off + j = i /\ i \in 1 .. m
    BY <1>4, <1>9, <2>1
  <2>3. o[i] = w[j]
    BY <1>7, <2>2
  <2>4. w[j] = tool[t].buf[i] \/ (Partition(t) \in Images /\ w[j] = Wrong)
    <3>1. j \in 1 .. Len(w) /\ tool[t].off + j = i
      BY <1>2, <1>3, <2>2
    <3>2. \/ w[j] = tool[t].buf[tool[t].off + j]
          \/ Partition(t) \in Images /\ w[j] = Wrong
      BY <3>1
    <3>3. QED BY <3>1, <3>2
  <2>5. tool[t].buf[i] # Erased(Partition(t))
    BY <1>1, <1>2, <2>2
  <2>6. Partition(t) \in Images => Wrong # Erased(Partition(t))
    BY DEF Images, Erased, Wrong
  <2>7. QED BY <2>3, <2>4, <2>5, <2>6
<1>10. Partition(t) \in Images => o \in Seq(Nat)
  <2>1. SUFFICES ASSUME Partition(t) \in Images
                 PROVE  o \in Seq(Nat)
    OBVIOUS
  <2>2. tool[t].buf \in Seq(Block) /\ s \in Seq(Nat) /\ Len(s) \in Nat
    BY <1>1, <1>5, <2>1
  <2>3. ASSUME NEW i \in 1 .. Len(o)
        PROVE  o[i] \in Nat
    <3>1. i \in Nat /\ i \in 1 .. Len(s)
      BY <1>7, <2>2
    <3>2. CASE off < i /\ i <= off + n
      <4>1. o[i] = tool[t].buf[i] \/ o[i] = Wrong
        BY <1>9, <3>1, <3>2
      <4>2. i \in 1 .. m
        BY <1>4, <3>1, <3>2
      <4>3. tool[t].buf[i] \in Nat
        BY <1>2, <2>2, <4>2, SeqIsSequence DEF Block
      <4>4. QED BY <4>1, <4>3 DEF Wrong
    <3>3. CASE ~(off < i /\ i <= off + n)
      BY <1>7, <2>2, <3>1, <3>3, SeqIsSequence
    <3>4. QED BY <3>2, <3>3
  <2>4. QED BY <1>7, <2>3, SequenceIn
<1>11. /\ Only(t) /\ IsTool(tool'[t])
       /\ tool'[t].cmd = tool[t].cmd /\ tool'[t].pc = tool[t].pc /\ tool'[t].buf = tool[t].buf
       /\ tool'[t].size = tool[t].size
       /\ tool'[t].off = off + n /\ tool'[t].errno = tool[t].errno /\ tool'[t].rc = tool[t].rc
  <2>1. PICK k : k = off + n
    OBVIOUS
  <2>2. tool = [u \in Tools |-> tool[u]] /\ IsTool(tool[t])
    BY ToolIs DEF IInv
  <2>3. tool' = [tool EXCEPT ![t].off = k]
    BY <1>2, <1>3, <2>1, <2>2
  <2>4. QED BY <2>1, <2>3, OffGives
<1>12. disturbed'[t] = disturbed[t]
  BY DEF IInv, Others, Tell
<1>13. ToolOK(t)'
  <2>1. TypedTool(t)'
    <3>1. off + n \in 0 .. m
      BY <1>4
    <3>2. QED BY <1>2, <1>11, <3>1, ToolIs DEF ToolOK, TypedTool
  <2>2. PcOK(t)'
    <3>1. Is(t, {"vpdupdate"}) => off + n = m
      BY <1>4
    <3>2. Is(t, {"update"}) => Partition(t) \in Images
      BY ToolIs DEF ToolOK, PcOK
    <3>3. QED BY <1>1, <1>2, <1>11, <3>1, <3>2 DEF PcOK, Is, Partition
  <2>3. QED BY <2>1, <2>2 DEF ToolOK
<1>14. OpenOK(t)' /\ SaveOK(t)' /\ ~Saves(t)' /\ ~Saved(t)'
  BY <1>11 DEF OpenOK, Good, SaveOK, Saves, Saved
<1>15. BufOK(t)'
  BY <1>1, <1>11, <1>12 DEF BufOK, Is, Partition
<1>16. flash'[Partition(t)] = o
  BY <1>1, <1>8 DEF IInv, FlashOK
<1>17. WrittenOK(t)'
  <2>1. SUFFICES ASSUME "flash" \notin disturbed[t], NEW i \in 1 .. off + n
                 PROVE  \/ o[i] = tool[t].buf[i]
                        \/ Partition(t) \in Images /\ o[i] = Wrong
    BY <1>11, <1>12, <1>16 DEF WrittenOK, Verified, Good, Partition
  <2>2. CASE off < i
    BY <1>9, <2>1, <2>2
  <2>3. CASE ~(off < i)
    <3>1. i \in 1 .. off /\ i \in 1 .. Len(s)
      BY <1>1, <1>2, <1>4, <1>5, <2>3
    <3>2. \/ s[i] = tool[t].buf[i]
          \/ Partition(t) \in Images /\ s[i] = Wrong
      BY <1>2, <1>5, <2>1, <3>1 DEF IInv, Local, WrittenOK
    <3>3. QED BY <1>7, <2>3, <3>1, <3>2
  <2>4. QED BY <2>2, <2>3
<1>18. Local(t)'
  BY <1>13, <1>14, <1>15, <1>17 DEF Local
<1>19. ErasedOK'
  <2>1. SUFFICES ASSUME NEW p \in Partitions, NEW i \in DOMAIN flash'[p], flash'[p][i] = Erased(p)
                 PROVE  i <= Reach(p) /\ (p \in reported' \/ \E u \in Tools : Programs(u, p, i)')
    BY DEF ErasedOK, Reach
  <2>2. /\ i \in DOMAIN flash[p] /\ flash[p][i] = Erased(p) /\ i \in Nat
        /\ p = Partition(t) => ~(off < i /\ i <= off + n)
    <3>1. CASE p = Partition(t)
      <4>1. i \in 1 .. Len(s) /\ i \in Nat /\ DOMAIN s = 1 .. Len(s)
        BY <1>1, <1>5, <1>7, <1>16, <2>1, <3>1, SequenceIs
      <4>2. ~(off < i /\ i <= off + n)
        BY <1>9, <1>16, <2>1, <3>1, <4>1
      <4>3. QED BY <1>5, <1>7, <1>16, <2>1, <3>1, <4>1, <4>2
    <3>2. CASE p # Partition(t)
      <4>1. flash'[p] = flash[p]
        BY <1>1, <1>8, <3>2 DEF IInv, FlashOK
      <4>2. QED BY <2>1, <3>2, <4>1, FlashIs
    <3>3. QED BY <3>1, <3>2
  <2>3. i <= Reach(p) /\ (p \in reported \/ \E u \in Tools : Programs(u, p, i))
    BY <2>2 DEF IInv, ErasedOK
  <2>4. ASSUME NEW u \in Tools, Programs(u, p, i)
        PROVE  Programs(u, p, i)'
    <3>1. CASE u = t
      <4>1. p = Partition(t) /\ off < i /\ i <= m
        BY <1>2, <2>4, <3>1 DEF Programs
      <4>2. off + n < i
        BY <1>4, <2>2, <4>1
      <4>3. QED BY <1>2, <1>11, <3>1, <4>1, <4>2 DEF Programs, Partition
    <3>2. CASE u # t
      <4>1. tool'[u] = tool[u]
        BY <1>11, <3>2, OnlyIs
      <4>2. QED BY <2>4, <4>1 DEF Programs, Partition
    <3>3. QED BY <3>1, <3>2
  <2>5. QED BY <2>3, <2>4
<1>20. reported' \subseteq Partitions
  BY DEF IInv, Others
<1>21. QED BY <1>1, <1>5, <1>7, <1>8, <1>10, <1>11, <1>14, <1>18, <1>19, <1>20, FlashStep

LEMMA ProgramKeeps ==
  ASSUME IInv, NEW t \in Tools, Program(t)
  PROVE  IInv'
<1>1. /\ tool[t].pc = "program" /\ tool[t].off < Len(tool[t].buf)
      /\ tool' = [tool EXCEPT ![t].off = @ + Len(Chunk(t))] /\ Tell(t, OthersOf(t), "flash")
      /\ UNCHANGED <<file, copy, reported>>
  BY DEF Program
<1>2. PICK c : c = Chunk(t)
  OBVIOUS
<1>3. IsSequence(c) /\ \A i \in 1 .. Len(c) : c[i] = tool[t].buf[tool[t].off + i]
  BY <1>1, <1>2, ChunkIs
<1>4. CASE Put(t, tool[t].off, c) /\ UNCHANGED budget
  BY <1>1, <1>2, <1>3, <1>4, ProgramStep
<1>5. CASE Partition(t) # "v" /\ Put(t, tool[t].off, <<Wrong>>) /\ Fault
  <2>1. PICK w : w = <<Wrong>>
    OBVIOUS
  <2>2. Partition(t) \in Images
    BY <1>1, <1>5, WriterIs DEF Partitions, Images
  <2>3. w \in Seq({Wrong}) /\ Len(w) = 1
    BY <2>1
  <2>4. IsSequence(w) /\ \A i \in 1 .. Len(w) : w[i] = Wrong
    <3>1. PICK S : S = {Wrong} /\ w \in Seq(S)
      BY <2>3
    <3>2. IsSequence(w) /\ \A i \in 1 .. Len(w) : w[i] \in S
      BY <3>1, SeqIsSequence
    <3>3. QED BY <3>1, <3>2
  <2>5. Len(c) = 1
    BY <1>1, <1>2, <1>5, ChunkIs, WriterIs
  <2>6. QED BY <1>1, <1>2, <1>5, <2>1, <2>2, <2>3, <2>4, <2>5, ProgramStep
<1>6. QED BY <1>2, <1>4, <1>5 DEF Program

LEMMA ProgramFailsKeeps ==
  ASSUME IInv, NEW t \in Tools, ProgramFails(t)
  PROVE  IInv'
<1>1. /\ tool[t].pc = "program" /\ Fault /\ Tell(t, OthersOf(t), "flash")
      /\ UNCHANGED <<file, copy>>
      /\ reported' = IF tool'[t].rc = "ok" /\ tool'[t].errno # "ENOSPC" THEN reported
                     ELSE reported \cup {Partition(t)}
  BY DEF ProgramFails
<1>2. /\ tool[t].cmd # None /\ Partition(t) \in Partitions
      /\ IsSequence(flash[Partition(t)]) /\ Len(flash[Partition(t)]) \in Nat
      /\ Len(tool[t].buf) <= Len(flash[Partition(t)])
      /\ Partition(t) \in Images => tool[t].buf \in Seq(Block) /\ flash[Partition(t)] \in Seq(Nat)
  BY <1>1, WriterIs
<1>3. /\ Only(t) /\ Local(t)' /\ ~Saves(t)' /\ ~Saved(t)'
      /\ tool'[t].rc = "ok" => tool'[t].errno = "ENOSPC"
  <2>1. PICK e \in {"EIO", "ENOSPC"} : WriteFailed(t, e)
    BY DEF ProgramFails
  <2>2. CASE EndsWith(t, e, "fail")
    <3>1. Only(t) /\ tool'[t] = Ended /\ Local(t)' /\ ~Saves(t)' /\ ~Saved(t)'
      BY <2>2, FailGives, EndedLocal
    <3>2. tool'[t].rc = "fail"
      BY <3>1, EndedIs, Zenon
    <3>3. QED BY <3>1, <3>2
  <2>3. CASE tool[t].cmd.op = "update" /\ EndsWith(t, "ENOSPC", "ok")
    <3>1. disturbed'[t] = disturbed[t]
      BY <1>1 DEF Tell
    <3>2. QED BY <1>1, <1>2, <2>3, <3>1, NoSpaceLocal
  <2>4. QED BY <2>1, <2>2, <2>3 DEF WriteFailed
<1>4. reported' = reported \cup {Partition(t)} /\ reported' \subseteq Partitions
  BY <1>1, <1>2, <1>3 DEF IInv, Others
<1>5. PICK s : s = flash[Partition(t)]
  OBVIOUS
<1>6. ASSUME NEW q, IsSequence(q), Len(q) = Len(s), Partition(t) \in Images => q \in Seq(Nat),
             \A i \in 1 .. Len(s) : q[i] = Erased(Partition(t)) => s[i] = Erased(Partition(t)),
             flash' = [flash EXCEPT ![Partition(t)] = q]
      PROVE  IInv'
  <2>1. ErasedOK'
    <3>1. SUFFICES ASSUME NEW p \in Partitions, NEW i \in DOMAIN flash'[p], flash'[p][i] = Erased(p)
                   PROVE  i <= Reach(p) /\ (p \in reported' \/ \E u \in Tools : Programs(u, p, i)')
      BY DEF ErasedOK, Reach
    <3>2. CASE p = Partition(t)
      <4>1. flash'[p] = q
        BY <1>2, <1>6, <3>2 DEF IInv, FlashOK
      <4>2. DOMAIN q = 1 .. Len(s) /\ DOMAIN s = 1 .. Len(s)
        BY <1>2, <1>5, <1>6, SequenceIs
      <4>3. s[i] = Erased(p) /\ i \in DOMAIN s
        BY <1>6, <3>1, <3>2, <4>1, <4>2
      <4>4. i <= Reach(p)
        BY <1>5, <3>2, <4>3 DEF IInv, ErasedOK
      <4>5. QED BY <1>4, <3>2, <4>4
    <3>3. CASE p # Partition(t)
      <4>1. flash'[p] = flash[p]
        BY <1>2, <1>6, <3>3 DEF IInv, FlashOK
      <4>2. i <= Reach(p) /\ (p \in reported \/ \E u \in Tools : Programs(u, p, i))
        BY <3>1, <4>1 DEF IInv, ErasedOK
      <4>3. ASSUME NEW u \in Tools, Programs(u, p, i)
            PROVE  Programs(u, p, i)'
        <5>1. u # t
          BY <3>3, <4>3 DEF Programs
        <5>2. tool'[u] = tool[u]
          BY <1>3, <5>1, OnlyIs
        <5>3. QED BY <4>3, <5>2 DEF Programs, Partition
      <4>4. QED BY <1>4, <4>2, <4>3
    <3>4. QED BY <3>2, <3>3
  <2>2. QED BY <1>1, <1>2, <1>3, <1>4, <1>5, <1>6, <2>1, FlashStep
<1>7. CASE UNCHANGED flash
  <2>1. flash' = [flash EXCEPT ![Partition(t)] = s]
    BY <1>2, <1>5, <1>7 DEF IInv, FlashOK
  <2>2. QED BY <1>2, <1>5, <1>6, <2>1
<1>8. ASSUME tool[t].off < Len(tool[t].buf), NEW n \in 1 .. Len(Chunk(t)), Put(t, tool[t].off, SubSeq(Chunk(t), 1, n))
      PROVE  IInv'
  <2>1. PICK c : c = Chunk(t)
    OBVIOUS
  <2>2. PICK off \in Nat, m \in Nat : off = tool[t].off /\ m = Len(tool[t].buf)
    BY ToolIs
  <2>3. /\ IsSequence(c) /\ Len(c) \in Nat \ {0} /\ off + Len(c) <= m
        /\ \A i \in 1 .. Len(c) : c[i] = tool[t].buf[off + i]
    BY <1>1, <1>8, <2>1, <2>2, ChunkIs
  <2>4. n \in Nat /\ n <= Len(c) /\ off + n <= m
    BY <1>8, <2>1, <2>2, <2>3
  <2>5. PICK w : w = SubSeq(c, 1, n)
    OBVIOUS
  <2>6. IsSequence(w) /\ Len(w) = n /\ \A i \in 1 .. n : w[i] = tool[t].buf[off + i]
    <3>1. IsSequence(w) /\ Len(w) = n - 1 + 1 /\ \A i \in 1 .. n - 1 + 1 : w[i] = c[1 + i - 1]
      BY <2>3, <2>4, <2>5, PartOf
    <3>2. ASSUME NEW i \in 1 .. n
          PROVE  w[i] = tool[t].buf[off + i]
      <4>1. i \in 1 .. n - 1 + 1 /\ 1 + i - 1 = i /\ i \in 1 .. Len(c)
        BY <2>3, <2>4
      <4>2. QED BY <2>3, <3>1, <4>1
    <3>3. Len(w) = n
      BY <2>4, <3>1
    <3>4. QED BY <3>1, <3>2, <3>3
  <2>7. PICK o : o = Overwrite(s, off, w)
    OBVIOUS
  <2>8. /\ IsSequence(o) /\ Len(o) = Len(s)
        /\ \A i \in 1 .. n : o[off + i] = w[i]
        /\ \A i \in 1 .. Len(s) : ~(off < i /\ i <= off + n) => o[i] = s[i]
    <3>1. off + Len(w) <= Len(s) /\ IsSequence(s) /\ IsSequence(w)
      BY <1>2, <1>5, <2>2, <2>4, <2>6
    <3>2. IsSequence(o) /\ Len(o) = Len(s)
      BY <2>7, <3>1, OverwriteGives
    <3>3. \A i \in 1 .. Len(w) : o[off + i] = w[i]
      BY <2>7, <3>1, OverwriteGives
    <3>4. \A i \in 1 .. Len(s) : ~(off < i /\ i <= off + Len(w)) => o[i] = s[i]
      BY <2>7, <3>1, OverwriteGives
    <3>5. QED BY <2>6, <3>2, <3>3, <3>4
  <2>9. flash' = [flash EXCEPT ![Partition(t)] = o]
    BY <1>2, <1>5, <1>8, <2>1, <2>2, <2>5, <2>7 DEF Put, IInv, FlashOK
  <2>10. ASSUME NEW i \in 1 .. Len(s)
         PROVE  /\ o[i] \in {s[i], tool[t].buf[i]}
                /\ o[i] = s[i] \/ (o[i] = tool[t].buf[i] /\ i \in 1 .. m)
    <3>1. CASE off < i /\ i <= off + n
      <4>1. PICK j \in Nat : j = i - off
        BY <1>2, <1>5, <3>1
      <4>2. j \in 1 .. n /\ off + j = i /\ i \in 1 .. m
        BY <1>2, <1>5, <2>4, <3>1, <4>1
      <4>3. QED BY <2>6, <2>8, <4>2
    <3>2. QED BY <2>8, <3>1
  <2>11. \A i \in 1 .. Len(s) : o[i] = Erased(Partition(t)) => s[i] = Erased(Partition(t))
    BY <1>1, <2>2, <2>10, WriterIs
  <2>12. Partition(t) \in Images => o \in Seq(Nat)
    <3>1. SUFFICES ASSUME Partition(t) \in Images
                   PROVE  o \in Seq(Nat)
      OBVIOUS
    <3>2. \A i \in 1 .. m : tool[t].buf[i] \in Nat
      BY <1>2, <2>2, <3>1, SeqIsSequence DEF Block
    <3>3. \A i \in 1 .. Len(s) : s[i] \in Nat
      BY <1>2, <1>5, <3>1, SeqIsSequence
    <3>4. \A i \in 1 .. Len(o) : o[i] \in Nat
      BY <2>8, <2>10, <3>2, <3>3
    <3>5. QED BY <2>8, <3>4, SequenceIn
  <2>13. QED BY <1>6, <2>8, <2>9, <2>11, <2>12
<1>9. QED BY <1>7, <1>8 DEF ProgramFails

-----------------------------------------------------------------------------
(* Programs start and are killed, images are replaced                      *)

LEMMA RecordIs ==
  ASSUME NEW c, NEW p, NEW b, NEW n, NEW o, NEW e, NEW r, NEW q,
         q = [cmd |-> c, pc |-> p, buf |-> b, size |-> n, off |-> o, errno |-> e, rc |-> r]
  PROVE  IsTool(q) /\ q.cmd = c /\ q.pc = p /\ q.buf = b /\ q.size = n /\ q.off = o /\ q.errno = e /\ q.rc = r
BY DEF IsTool

LEMMA StartKeeps ==
  ASSUME IInv, NEW t \in Tools, Start(t)
  PROVE  IInv'
<1>1. /\ tool[t].pc = "ended" /\ budget.run > 0 /\ UNCHANGED <<flash, file, copy, reported>>
      /\ disturbed' = [disturbed EXCEPT ![t] = {}] /\ budget' = [budget EXCEPT !.run = @ - 1]
  BY DEF Start
<1>2. PICK c \in Commands[t] :
        tool' = [tool EXCEPT ![t] = [cmd |-> c, pc |-> "start", buf |-> <<>>, size |-> 0, off |-> 0,
                                     errno |-> "", rc |-> "ok"]]
  BY DEF Start
<1>3. PICK q : q = [cmd |-> c, pc |-> "start", buf |-> <<>>, size |-> 0, off |-> 0, errno |-> "", rc |-> "ok"]
  OBVIOUS
<1>4. /\ IsTool(q) /\ q.cmd = c /\ q.pc = "start" /\ q.buf = <<>> /\ q.size = 0 /\ q.off = 0
      /\ q.errno = "" /\ q.rc = "ok"
  <2>1. PICK p : p = "start"
    OBVIOUS
  <2>2. PICK b : b = <<>>
    OBVIOUS
  <2>3. PICK n : n = 0
    OBVIOUS
  <2>4. PICK e : e = ""
    OBVIOUS
  <2>5. PICK r : r = "ok"
    OBVIOUS
  <2>6. q = [cmd |-> c, pc |-> p, buf |-> b, size |-> n, off |-> n, errno |-> e, rc |-> r]
    BY <1>3, <2>1, <2>2, <2>3, <2>4, <2>5, Zenon
  <2>7. IsTool(q) /\ q.cmd = c /\ q.pc = p /\ q.buf = b /\ q.size = n /\ q.off = n /\ q.errno = e /\ q.rc = r
    BY <2>6, RecordIs
  <2>8. QED BY <2>1, <2>2, <2>3, <2>4, <2>5, <2>7, Zenon
<1>5. tool' = [tool EXCEPT ![t] = q]
  BY <1>2, <1>3, Zenon
<1>6. Only(t) /\ tool'[t] = q
  BY <1>5 DEF IInv, Only
<1>7. Local(t)' /\ ~Saves(t)' /\ ~Saved(t)'
  <2>1. c # None
    BY FlashAssumption
  <2>2. TypedTool(t)'
    <3>1. IsSequence(q.buf) /\ q.off \in 0 .. Len(q.buf) /\ q.size \in Nat
      <4>1. PICK e : e = <<>> /\ IsSequence(e) /\ Len(e) = 0
        BY EmptyIs
      <4>2. 0 \in 0 .. Len(e) /\ 0 \in Nat
        BY <4>1
      <4>3. QED BY <1>4, <4>1, <4>2, Zenon
    <3>2. q.pc \in Pcs /\ q.errno \in {"", "EIO", "ENOSPC"} /\ q.rc \in {"ok", "fail"}
      BY <1>4, Zenon DEF Pcs
    <3>3. q.cmd \in Commands[t] \cup {None}
      BY <1>4
    <3>4. QED BY <1>4, <1>6, <3>1, <3>2, <3>3 DEF TypedTool
  <2>3. PcOK(t)'
    BY <1>4, <1>6, <2>1 DEF PcOK
  <2>4. OpenOK(t)'
    BY <1>4, <1>6 DEF OpenOK
  <2>5. QED BY <1>4, <1>6, <2>2, <2>3, <2>4, IdleLocal DEF ToolOK
<1>8. ASSUME NEW u \in Tools \ {t}
      PROVE  Local(u)'
  <2>1. Local(u) /\ tool'[u] = tool[u] /\ disturbed'[u] = disturbed[u]
    BY <1>1, <1>6, OnlyIs DEF IInv, Others
  <2>2. OpenOK(u)'
    BY <1>1, <2>1 DEF Local, OpenOK, Is
  <2>3. QED BY <1>1, <2>1, <2>2, LocalKept
<1>9. FlashOK' /\ FileOK'
  BY <1>1 DEF FlashOK, FileOK, IInv
<1>10. Others'
  <2>1. disturbed' \in [Tools -> SUBSET {"flash", "file"}] /\ reported' \subseteq Partitions
    BY <1>1 DEF IInv, Others
  <2>2. budget' \in [run : 0 .. MaxRuns, fault : 0 .. MaxFaults]
    BY <1>1, FlashAssumption DEF IInv, Others
  <2>3. QED BY <2>1, <2>2 DEF Others
<1>11. SavesApart'
  BY <1>6, <1>7, ApartKept
<1>12. ErasedOK'
  <2>1. \A p, i : ~Programs(t, p, i)
    BY <1>1 DEF Programs
  <2>2. QED BY <1>1, <1>6, <2>1, ErasedKept
<1>13. tool' = [u \in Tools |-> tool'[u]]
  BY <1>6, OnlyIs
<1>14. \A u \in Tools : Local(u)'
  BY <1>7, <1>8
<1>15. QED BY <1>9, <1>10, <1>11, <1>12, <1>13, <1>14 DEF IInv

LEMMA KillKeeps ==
  ASSUME IInv, NEW t \in Tools, Kill(t)
  PROVE  IInv'
<1>1. /\ tool[t].pc # "ended" /\ Fault /\ EndsWith(t, tool[t].errno, "fail")
      /\ reported' = reported \cup {p \in {Partition(t)} : Writing(t)}
      /\ UNCHANGED <<flash, file, copy, disturbed>>
  BY DEF Kill, Ends
<1>2. Writing(t) => Partition(t) \in Partitions
  <2>1. tool[t].pc = "verify" => Partition(t) \in Images
    BY ToolIs DEF ToolOK, PcOK, Is
  <2>2. QED BY <2>1, WriterIs DEF Writing, Images, Partitions
<1>3. reported \subseteq reported' /\ reported' \subseteq Partitions
  BY <1>1, <1>2 DEF IInv, Others
<1>4. tool[t].pc = "program" => Partition(t) \in reported'
  BY <1>1 DEF Writing
<1>5. QED BY <1>1, <1>3, <1>4, FailStep

\* The image file is replaced: who updates from it has been disturbed, and it is never too long.
LEMMA ImageStep ==
  ASSUME IInv, ImagesFit, FilesApart, NEW q \in Seq(Block), file' = [file EXCEPT ![ImageFile] = q],
         copy' \in Seq(Block), Len(q) + Len(copy') <= Len(NewImage),
         Tell(None, Updating, "file"), UNCHANGED <<flash, tool, reported>>, UNCHANGED budget \/ Fault
  PROVE  IInv'
<1>1. Len(q) \in Nat /\ Len(copy') \in Nat /\ Len(NewImage) \in Nat /\ get_rbf_size \in Nat
  BY FlashAssumption, SeqIsSequence
<1>2. Len(q) <= get_rbf_size /\ Len(copy') <= Len(NewImage) /\ IsSequence(q)
  <2>1. Len(NewImage) <= get_rbf_size
    BY DEF ImagesFit
  <2>2. QED BY <1>1, <2>1, SeqIsSequence
<1>3. /\ file'[ImageFile] = q /\ DOMAIN file' = DOMAIN file /\ ImageFile \in DOMAIN file
      /\ \A f \in DOMAIN file : f # ImageFile => file'[f] = file[f]
      /\ file' = [f \in DOMAIN file' |-> file'[f]]
  BY DEF IInv, FileOK
<1>4. FlashOK' /\ SavesApart' /\ ErasedOK' /\ tool' = [t \in Tools |-> tool'[t]]
  <2>1. FlashOK' /\ tool' = [t \in Tools |-> tool'[t]]
    BY DEF IInv, FlashOK
  <2>2. SavesApart'
    BY DEF IInv, SavesApart, Saves, Saved, Good, Is
  <2>3. ErasedOK'
    BY DEF IInv, ErasedOK, Programs, Partition, Reach
  <2>4. QED BY <2>1, <2>2, <2>3
<1>5. FileOK'
  <2>1. FileOK
    BY DEF IInv
  <2>2. \A f \in DOMAIN file' : file'[f] = None \/ IsSequence(file'[f])
    BY <1>2, <1>3, <2>1 DEF FileOK
  <2>3. \A d \in Asking({"update"}) : d.in \in DOMAIN file
    <3>1. Asking({"update"}) \subseteq Asking({"update", "vpdupdate", "conv", "reverse"})
      BY DEF Asking
    <3>2. QED BY <2>1, <3>1 DEF FileOK
  <2>4. \A d \in Asking({"update"}) : file'[d.in] \in Seq(Block) \cup {None}
    BY <1>3, <2>1, <2>3 DEF FileOK
  <2>5. QED BY <1>2, <1>3, <2>1, <2>2, <2>4 DEF FileOK
<1>6. /\ disturbed' \in [Tools -> SUBSET {"flash", "file"}]
      /\ \A u \in Tools : /\ disturbed[u] \subseteq disturbed'[u]
                          /\ u \in Updating => "file" \in disturbed'[u]
  BY FlashAssumption DEF IInv, Others, Tell, Updating
<1>7. Others'
  BY <1>6, BudgetStep DEF IInv, Others
<1>8. ASSUME NEW u \in Tools
      PROVE  Local(u)'
  <2>1. Local(u) /\ tool'[u] = tool[u] /\ OpenOK(u) /\ ToolOK(u)
    BY DEF IInv, Local
  <2>2. tool[u].pc \in {"fstat", "readfile"} =>
          "file" \in disturbed'[u] /\ file'[tool[u].cmd.in] \in {file[tool[u].cmd.in], q} /\ file'[tool[u].cmd.in] # None
    <3>1. SUFFICES ASSUME tool[u].pc \in {"fstat", "readfile"}
                   PROVE  "file" \in disturbed'[u] /\ file'[tool[u].cmd.in] \in {file[tool[u].cmd.in], q}
                          /\ file'[tool[u].cmd.in] # None
      OBVIOUS
    <3>2. tool[u].cmd \in Asking({"update"}) /\ u \in Updating
      BY <2>1, <3>1 DEF ToolOK, TypedTool, PcOK, Is, Asking, Updating
    <3>3. tool[u].cmd.in \in DOMAIN file
      <4>1. Asking({"update"}) \subseteq Asking({"update", "vpdupdate", "conv", "reverse"})
        BY DEF Asking
      <4>2. QED BY <3>2, <4>1 DEF IInv, FileOK
    <3>4. file'[tool[u].cmd.in] \in {file[tool[u].cmd.in], q}
      BY <1>3, <3>3
    <3>5. q # None
      <4>1. q \in Seq(Nat)
        BY <1>2, SequenceIn, SeqIsSequence DEF Block
      <4>2. QED BY <4>1, FlashAssumption
    <3>6. file[tool[u].cmd.in] # None
      BY <2>1, <3>1 DEF OpenOK
    <3>7. QED BY <1>6, <3>2, <3>4, <3>5, <3>6
  <2>3. tool[u].pc \in {"check", "convert"} => IsSequence(file'[tool[u].cmd.in])
    <3>1. SUFFICES ASSUME tool[u].pc \in {"check", "convert"}
                   PROVE  IsSequence(file'[tool[u].cmd.in])
      OBVIOUS
    <3>2. tool[u].cmd \in Asking({"update", "vpdupdate", "conv", "reverse"})
      BY <2>1, <3>1 DEF ToolOK, TypedTool, PcOK, Is, Asking
    <3>3. tool[u].cmd.in \in DOMAIN file
      BY <3>2 DEF IInv, FileOK
    <3>4. IsSequence(file[tool[u].cmd.in])
      BY <2>1, <3>1 DEF OpenOK
    <3>5. QED BY <1>2, <1>3, <3>3, <3>4
  <2>4. tool[u].pc \in {"convert", "flush"} \/ (tool[u].pc = "readflash" /\ Is(u, {"show"})) =>
          IsSequence(file'[tool[u].cmd.out])
    <3>1. SUFFICES ASSUME tool[u].pc \in {"convert", "flush"} \/ (tool[u].pc = "readflash" /\ Is(u, {"show"}))
                   PROVE  IsSequence(file'[tool[u].cmd.out])
      OBVIOUS
    <3>2. tool[u].cmd \in Writers
      BY <2>1, <3>1 DEF ToolOK, TypedTool, PcOK, Is, Asking, Writers
    <3>3. tool[u].cmd.out \in DOMAIN file
      BY <3>2 DEF IInv, FileOK
    <3>4. IsSequence(file[tool[u].cmd.out])
      BY <2>1, <3>1 DEF OpenOK
    <3>5. QED BY <1>2, <1>3, <3>3, <3>4
  <2>5. OpenOK(u)'
    <3>1. tool[u].pc = "fstat" => Len(file'[tool[u].cmd.in]) <= get_rbf_size
      BY <1>2, <2>1, <2>2 DEF OpenOK
    <3>2. QED BY <2>1, <2>2, <2>3, <2>4, <3>1 DEF OpenOK, Is
  <2>6. Saves(u) \/ Saved(u) => file'[tool[u].cmd.out] = file[tool[u].cmd.out]
    <3>1. SUFFICES ASSUME Saves(u) \/ Saved(u)
                   PROVE  file'[tool[u].cmd.out] = file[tool[u].cmd.out]
      OBVIOUS
    <3>2. tool[u].cmd \in Writers
      BY <2>1, <3>1 DEF ToolOK, TypedTool, PcOK, Is, Asking, Writers, Saves, Saved, Good
    <3>3. tool[u].cmd.out \in DOMAIN file /\ tool[u].cmd.out # ImageFile
      BY <3>2 DEF IInv, FileOK, FilesApart
    <3>4. QED BY <1>3, <3>3
  <2>7. QED BY <1>6, <2>1, <2>5, <2>6, LocalKept
<1>9. QED BY <1>4, <1>5, <1>7, <1>8 DEF IInv

LEMMA CopyBeginsKeeps ==
  ASSUME IInv, ImagesFit, FilesApart, CopyBegins
  PROVE  IInv'
<1>1. PICK q \in Seq(Block) : q = <<>> /\ Len(q) = 0
  BY EmptySeq
<1>2. file' = [file EXCEPT ![ImageFile] = q] /\ copy' = NewImage /\ Fault
      /\ Tell(None, Updating, "file") /\ UNCHANGED <<flash, tool, reported>>
  BY <1>1 DEF CopyBegins
<1>3. copy' \in Seq(Block) /\ Len(q) + Len(copy') <= Len(NewImage)
  BY <1>1, <1>2, FlashAssumption, SeqIsSequence
<1>4. QED BY <1>2, <1>3, ImageStep

LEMMA CopyBlockKeeps ==
  ASSUME IInv, ImagesFit, FilesApart, CopyBlock
  PROVE  IInv'
<1>1. copy # <<>> /\ copy \in Seq(Block) /\ file[ImageFile] \in Seq(Block)
      /\ Len(file[ImageFile]) + Len(copy) <= Len(NewImage)
  BY DEF CopyBlock, IInv, FileOK
<1>2. PICK f \in Seq(Block), c \in Seq(Block) : f = file[ImageFile] /\ c = copy
  BY <1>1
<1>3. Head(c) \in Block /\ Tail(c) \in Seq(Block) /\ Len(Tail(c)) = Len(c) - 1
  BY <1>1, <1>2, HeadTailProperties
<1>4. PICK q : q = Append(f, Head(c))
  OBVIOUS
<1>5. q \in Seq(Block) /\ Len(q) = Len(f) + 1
  BY <1>3, <1>4, AppendProperties
<1>6. file' = [file EXCEPT ![ImageFile] = q] /\ copy' = Tail(c) /\ UNCHANGED budget
      /\ Tell(None, Updating, "file") /\ UNCHANGED <<flash, tool, reported>>
  BY <1>2, <1>4 DEF CopyBlock, IInv, FileOK
<1>7. copy' \in Seq(Block) /\ Len(q) + Len(copy') <= Len(NewImage)
  <2>1. Len(f) \in Nat /\ Len(c) \in Nat /\ Len(NewImage) \in Nat
    BY FlashAssumption, SeqIsSequence
  <2>2. QED BY <1>1, <1>2, <1>3, <1>5, <1>6, <2>1
<1>8. QED BY <1>5, <1>6, <1>7, ImageStep

-----------------------------------------------------------------------------
(* The invariant holds                                                     *)

LEMMA InitEstablishes ==
  ASSUME ImagesFit, Init
  PROVE  IInv
<1>1. PICK s \in Starts : flash = s.flash /\ file = s.file
  BY DEF Init
<1>2. /\ tool = [t \in Tools |-> Ended] /\ copy = <<>> /\ disturbed = [t \in Tools |-> {}] /\ reported = {}
      /\ budget = [run |-> MaxRuns, fault |-> MaxFaults]
  BY DEF Init
<1>3. FlashOK
  <2>1. /\ \A p \in {"0", "1"} : s.flash[p] \in Seq(Block)
        /\ IsSequence(s.flash["v"]) /\ Len(s.flash["v"]) = LINES_IN_VPD
        /\ s.flash = [p \in Partitions |-> s.flash[p]]
    BY FlashAssumption
  <2>2. \A p \in Images : get_rbf_size <= Len(flash[p])
    BY <1>1 DEF ImagesFit, Images
  <2>3. ASSUME NEW p \in Images
        PROVE  flash[p] \in Seq(Nat)
    <3>1. flash[p] \in Seq(Block)
      BY <1>1, <2>1 DEF Images
    <3>2. IsSequence(flash[p]) /\ \A i \in 1 .. Len(flash[p]) : flash[p][i] \in Nat
      BY <3>1, SeqIsSequence DEF Block
    <3>3. QED BY <3>2, SequenceIn
  <2>4. flash = [p \in Partitions |-> flash[p]]
    BY <1>1, <2>1
  <2>5. QED BY <1>1, <2>1, <2>2, <2>3, <2>4 DEF FlashOK
<1>4. FileOK
  <2>1. /\ \A f \in DOMAIN s.file : s.file[f] = None \/ IsSequence(s.file[f])
        /\ \A c \in Asking({"update", "vpdupdate", "conv", "reverse"}) : c.in \in DOMAIN s.file
        /\ \A c \in Asking({"show", "conv", "reverse", "read"}) : c.out \in DOMAIN s.file
        /\ \A c \in Asking({"update"}) : s.file[c.in] \in Seq(Block) \cup {None}
        /\ s.file = [f \in DOMAIN s.file |-> s.file[f]]
        /\ ImageFile \in DOMAIN s.file /\ s.file[ImageFile] \in Seq(Block) \cup {None}
    BY FlashAssumption
  <2>2. copy \in Seq(Block) /\ Len(copy) <= Len(NewImage)
    <3>1. PICK e \in Seq(Block) : e = <<>> /\ Len(e) = 0
      BY EmptySeq
    <3>2. Len(NewImage) \in Nat
      BY FlashAssumption, SeqIsSequence
    <3>3. QED BY <1>2, <3>1, <3>2
  <2>3. QED BY <1>1, <1>2, <2>1, <2>2 DEF FileOK, Writers
<1>5. Others
  BY <1>2, FlashAssumption DEF Others
<1>6. tool = [t \in Tools |-> tool[t]] /\ \A t \in Tools : tool[t] = Ended
  BY <1>2
<1>7. \A t \in Tools : Local(t) /\ ~Saves(t) /\ ~Saved(t)
  BY <1>6, EndedIsLocal
<1>8. SavesApart
  BY <1>7 DEF SavesApart
<1>9. ErasedOK
  <2>1. \A p \in {"0", "1"} : \A i \in DOMAIN s.flash[p] : s.flash[p][i] # 0
    <3>1. \A p \in {"0", "1"} : s.flash[p] \in Seq(Block)
      BY FlashAssumption
    <3>2. QED BY <3>1, SeqIsSequence DEF Block
  <2>2. \A i \in DOMAIN s.flash["v"] : s.flash["v"][i] # ErasedField
    BY FlashAssumption
  <2>3. QED BY <1>1, <2>1, <2>2 DEF ErasedOK, Erased, Partitions
<1>10. QED BY <1>3, <1>4, <1>5, <1>6, <1>7, <1>8, <1>9 DEF IInv

LEMMA StutterKeeps ==
  ASSUME IInv, UNCHANGED vars
  PROVE  IInv'
<1>1. FlashOK' /\ FileOK' /\ Others' /\ tool' = [t \in Tools |-> tool'[t]]
  BY DEF IInv, vars, FlashOK, FileOK, Others
<1>2. SavesApart' /\ ErasedOK'
  BY DEF IInv, vars, SavesApart, Saves, Saved, Good, Is, ErasedOK, Programs, Partition, Reach
<1>3. ASSUME NEW t \in Tools
      PROVE  Local(t)'
  <2>1. Local(t) /\ tool' = tool /\ flash' = flash /\ file' = file /\ disturbed' = disturbed
    BY DEF IInv, vars
  <2>2. OpenOK(t)'
    BY <2>1 DEF Local, OpenOK, Is
  <2>3. QED BY <2>1, <2>2, LocalKept
<1>4. QED BY <1>1, <1>2, <1>3 DEF IInv

LEMMA NextKeeps ==
  ASSUME ImagesFit, FilesApart, IInv, [Next]_vars
  PROVE  IInv'
<1>1. ASSUME NEW t \in Tools, Update(t)
      PROVE  IInv'
  BY <1>1, UpdateStartKeeps, CheckSizeKeeps, FstatKeeps, ReadFileKeeps, VerifyKeeps, VerifyFailsKeeps DEF Update
<1>2. ASSUME NEW t \in Tools, Slu(t)
      PROVE  IInv'
  BY <1>2, EraseKeeps, ProgramKeeps, ProgramFailsKeeps, ProgrammedKeeps DEF Slu
<1>3. ASSUME NEW t \in Tools, Vpd(t)
      PROVE  IInv'
  BY <1>3, VpdStartKeeps, UpdateVpdKeeps, ShowStartKeeps, DumpVpdKeeps DEF Vpd
<1>4. ASSUME NEW t \in Tools, Convert(t)
      PROVE  IInv'
  BY <1>4, ConvStartKeeps, ConvertCsvKeeps, ReverseCsvKeeps DEF Convert
<1>5. ASSUME NEW t \in Tools, Read(t)
      PROVE  IInv'
  BY <1>5, ReadStartKeeps, FlashReadKeeps, WriteFileKeeps DEF Read
<1>6. ASSUME NEW t \in Tools, Runs(t)
      PROVE  IInv'
  BY <1>1, <1>2, <1>3, <1>4, <1>5, <1>6, FlushKeeps DEF Runs
<1>7. QED BY <1>6, StartKeeps, KillKeeps, CopyBeginsKeeps, CopyBlockKeeps, StutterKeeps DEF Next

\* The inductive invariant: what each program knows of its files and of its partition.
THEOREM Invariance ==
  ASSUME ImagesFit, FilesApart
  PROVE  Spec => []IInv
<1>1. Init => IInv
  BY InitEstablishes
<1>2. IInv /\ [Next]_vars => IInv'
  BY NextKeeps
<1>3. QED BY <1>1, <1>2, PTL DEF Spec

-----------------------------------------------------------------------------
(* Success is true                                                         *)

LEMMA Typed ==
  ASSUME IInv
  PROVE  TypeOK
<1>1. \A p \in Partitions : Len(flash[p]) \in {Len(s.flash[p]) : s \in Starts}
  BY DEF IInv, FlashOK
<1>2. ASSUME NEW f \in DOMAIN file, file[f] # None
      PROVE  Len(file[f]) \in Nat
  <2>1. IsSequence(file[f])
    BY <1>2 DEF IInv, FileOK
  <2>2. QED BY <2>1, SequenceIs
<1>3. Len(copy) \in 0 .. Len(NewImage)
  <2>1. copy \in Seq(Block) /\ Len(copy) <= Len(NewImage)
    BY DEF IInv, FileOK
  <2>2. Len(copy) \in Nat /\ Len(NewImage) \in Nat
    BY <2>1, FlashAssumption, SeqIsSequence
  <2>3. QED BY <2>1, <2>2
<1>4. Others
  BY DEF IInv
<1>5. ASSUME NEW t \in Tools
      PROVE  /\ tool[t].cmd \in Commands[t] \cup {None} /\ tool[t].pc \in Pcs
             /\ tool[t].off \in 0 .. Len(tool[t].buf)
             /\ tool[t].errno \in {"", "EIO", "ENOSPC"} /\ tool[t].rc \in {"ok", "fail"}
             /\ disturbed[t] \subseteq {"flash", "file"}
  <2>1. TypedTool(t)
    BY ToolIs DEF ToolOK
  <2>2. disturbed[t] \subseteq {"flash", "file"}
    BY <1>4 DEF Others
  <2>3. QED BY <2>1, <2>2 DEF TypedTool
<1>6. reported \subseteq Partitions /\ budget \in [run : 0 .. MaxRuns, fault : 0 .. MaxFaults]
  BY <1>4 DEF Others
<1>7. QED BY <1>1, <1>2, <1>3, <1>5, <1>6 DEF TypeOK, Pcs

\* A program that wrote a partition and read it back, or wrote product data, undisturbed.
LEMMA VerifiedOnCard ==
  ASSUME IInv, NEW t \in Tools, Verified(t), "flash" \notin disturbed[t]
  PROVE  /\ tool[t].buf = SubSeq(flash[Partition(t)], 1, Len(tool[t].buf))
         /\ tool[t].cmd.op = "update" /\ "file" \notin disturbed[t] => Len(tool[t].buf) = get_rbf_size
<1>1. tool[t].pc = "ended" /\ tool[t].rc = "ok" /\ Is(t, {"update", "vpdupdate"})
  BY DEF Verified, Good, Is
<1>2. tool[t].cmd # None
  BY <1>1, ToolIs DEF ToolOK, PcOK
<1>3. BufOK(t) /\ Holds(t) /\ WrittenOK(t) /\ FlashOK
  BY DEF IInv, Local, Holds, Verified
<1>4. PICK n \in Nat : n = Len(tool[t].buf)
  BY ToolIs
<1>5. Partition(t) \in Partitions /\ n <= Len(flash[Partition(t)])
  <2>1. CASE Is(t, {"update"})
    <3>1. Partition(t) \in Images /\ n <= get_rbf_size
      BY <1>3, <1>4, <2>1 DEF BufOK
    <3>2. Partition(t) \in Partitions /\ get_rbf_size <= Len(flash[Partition(t)])
      BY <1>3, <3>1 DEF FlashOK, Images, Partitions
    <3>3. get_rbf_size \in Nat /\ Len(flash[Partition(t)]) \in Nat
      BY <3>2, FlashAssumption, FlashIs
    <3>4. QED BY <3>1, <3>2, <3>3
  <2>2. CASE Is(t, {"vpdupdate"})
    <3>1. Partition(t) = "v"
      BY <1>2, <2>2, PartitionIs
    <3>2. n = LINES_IN_VPD /\ Len(flash["v"]) = LINES_IN_VPD
      BY <1>3, <1>4, <2>2 DEF BufOK, FlashOK
    <3>3. QED BY <3>1, <3>2 DEF Partitions
  <2>3. QED BY <1>1, <2>1, <2>2 DEF Is
<1>6. PICK s : s = flash[Partition(t)]
  OBVIOUS
<1>7. PICK b : b = tool[t].buf
  OBVIOUS
<1>8. \A i \in 1 .. n : s[i] = b[i]
  BY <1>3, <1>4, <1>6, <1>7 DEF WrittenOK
<1>9. IsSequence(s) /\ IsSequence(b) /\ Len(b) = n /\ n <= Len(s)
  BY <1>4, <1>5, <1>6, <1>7, FlashIs, ToolIs
<1>10. PICK q : q = SubSeq(s, 1, n)
  OBVIOUS
<1>11. IsSequence(q) /\ Len(q) = n /\ \A i \in 1 .. n : q[i] = s[i]
  <2>1. IsSequence(q) /\ Len(q) = n - 1 + 1 /\ \A i \in 1 .. n - 1 + 1 : q[i] = s[1 + i - 1]
    BY <1>9, <1>10, PartOf
  <2>2. QED BY <2>1
<1>12. b = q
  BY <1>8, <1>9, <1>11, SequencesEqual
<1>13. b = SubSeq(flash[Partition(t)], 1, Len(b))
  BY <1>6, <1>9, <1>10, <1>12
<1>14. tool[t].cmd.op = "update" /\ "file" \notin disturbed[t] => Len(tool[t].buf) = get_rbf_size
  BY <1>3 DEF BufOK, Is
<1>15. QED BY <1>7, <1>13, <1>14

\* What success of a program says: genwqe_update and genwqe_vpdupdate have their image or their
\* product data in the flash, whatever the card programmed, genwqe_flash_read has the partition in
\* its file, for images and partitions of any size and any number of programs.
THEOREM Success ==
  ASSUME ImagesFit, FilesApart
  PROVE  Spec => []SuccessIsTrue
<1>1. ASSUME IInv
      PROVE  SuccessIsTrue
  <2>1. TypeOK
    BY <1>1, Typed
  <2>2. SuccessIsOnCard
    <3>1. SUFFICES ASSUME NEW t \in Tools, Good(t, {"update", "vpdupdate"}),
                          tool[t].cmd.op = "update" => tool[t].cmd.verify,
                          tool[t].errno # "ENOSPC", "flash" \notin disturbed[t]
                   PROVE  /\ tool[t].buf = SubSeq(flash[Partition(t)], 1, Len(tool[t].buf))
                          /\ tool[t].cmd.op = "update" /\ "file" \notin disturbed[t]
                               => Len(tool[t].buf) = get_rbf_size
      BY DEF SuccessIsOnCard
    <3>2. Verified(t)
      BY <3>1 DEF Verified
    <3>3. QED BY <1>1, <3>1, <3>2, VerifiedOnCard
  <2>3. ReadIsPartition
    BY <1>1 DEF IInv, Local, SaveOK, Saved, ReadIsPartition
  <2>4. QED BY <2>1, <2>2, <2>3 DEF SuccessIsTrue
<1>2. QED BY <1>1, Invariance, PTL

-----------------------------------------------------------------------------
(* Product data are whole                                                  *)

\* A step that neither writes product data nor makes ready to.
Quiet(t) == Only(t) /\ ~WritesVpd(t)'

LEMMA GoesQuiet ==
  ASSUME IInv, NEW t \in Tools, NEW pc \in Pcs \ {"erase", "program"}, Goes(t, pc)
  PROVE  Quiet(t)
BY GoesGives DEF Quiet, WritesVpd

LEMMA EndsQuiet ==
  ASSUME IInv, NEW t \in Tools, NEW errno, NEW rc \in {"ok", "fail"}, EndsWith(t, errno, rc)
  PROVE  Quiet(t)
<1>1. CASE rc = "ok"
  BY <1>1, OkGives DEF Quiet, WritesVpd
<1>2. CASE rc = "fail"
  <2>1. Only(t) /\ tool'[t] = Ended
    BY <1>2, FailGives
  <2>2. tool'[t].pc = "ended"
    BY <2>1, EndedIs, Zenon
  <2>3. QED BY <2>1, <2>2 DEF Quiet, WritesVpd
<1>3. QED BY <1>1, <1>2

LEMMA BufQuiet ==
  ASSUME IInv, NEW t \in Tools, NEW pc \in Pcs \ {"erase", "program"}, NEW buf,
         tool' = [tool EXCEPT ![t].pc = pc, ![t].buf = buf]
  PROVE  Quiet(t)
BY BufGives DEF Quiet, WritesVpd

\* What other programs write stays good when one goes on that does not write product data.
LEMMA VpdKept ==
  ASSUME IInv, VpdOK, NEW t \in Tools, Only(t), VpdWriter(t)', flash'["v"] = flash["v"]
  PROVE  VpdOK'
<1>1. \A u \in Tools \ {t} : tool'[u] = tool[u]
  BY OnlyIs
<1>2. VpdIsWhole'
  BY DEF VpdOK, VpdIsWhole
<1>3. ASSUME NEW u \in Tools \ {t}
      PROVE  VpdWriter(u)'
  <2>1. tool'[u] = tool[u] /\ VpdWriter(u)
    BY <1>1 DEF VpdOK
  <2>2. QED BY <2>1 DEF VpdWriter, WritesVpd, Is
<1>4. QED BY <1>2, <1>3 DEF VpdOK

LEMMA QuietStep ==
  ASSUME IInv, VpdOK, NEW t \in Tools, Quiet(t), UNCHANGED flash
  PROVE  VpdOK'
BY VpdKept DEF Quiet, VpdWriter

\* One program at a time writes product data.
LEMMA OneWriter ==
  ASSUME IInv, OneVpdUpdate, NEW t \in Tools, NEW u \in Tools, WritesVpd(t), WritesVpd(u)
  PROVE  t = u
<1>1. tool[t].cmd # None /\ tool[u].cmd # None
  BY ToolIs DEF ToolOK, PcOK, WritesVpd
<1>2. tool[t].cmd \in Commands[t] /\ tool[u].cmd \in Commands[u]
  BY <1>1, ToolIs DEF ToolOK, TypedTool
<1>3. QED BY <1>2 DEF OneVpdUpdate, WritesVpd, Is

\* That program goes on, and leaves the product data as they must be.
LEMMA VpdStep ==
  ASSUME IInv, OneVpdUpdate, NEW t \in Tools, WritesVpd(t), Only(t), VpdWriter(t)', VpdIsWhole'
  PROVE  VpdOK'
<1>1. ASSUME NEW u \in Tools \ {t}
      PROVE  VpdWriter(u)'
  <2>1. tool'[u] = tool[u]
    BY OnlyIs
  <2>2. ~WritesVpd(u)
    BY OneWriter
  <2>3. QED BY <2>1, <2>2 DEF VpdWriter, WritesVpd, Is
<1>2. QED BY <1>1 DEF VpdOK

\* What a write leaves in the partition, and that it leaves the others alone.
LEMMA PutGives ==
  ASSUME IInv, NEW t \in Tools, Partition(t) \in Partitions, NEW off \in Nat, NEW c, IsSequence(c),
         off + Len(c) <= Len(flash[Partition(t)]), Put(t, off, c)
  PROVE  /\ IsSequence(flash'[Partition(t)]) /\ Len(flash'[Partition(t)]) = Len(flash[Partition(t)])
         /\ \A i \in 1 .. Len(c) : flash'[Partition(t)][off + i] = c[i]
         /\ \A i \in 1 .. Len(flash[Partition(t)]) :
              ~(off < i /\ i <= off + Len(c)) => flash'[Partition(t)][i] = flash[Partition(t)][i]
         /\ \A p \in Partitions \ {Partition(t)} : flash'[p] = flash[p]
<1>1. PICK s : s = flash[Partition(t)]
  OBVIOUS
<1>2. PICK o : o = Overwrite(s, off, c)
  OBVIOUS
<1>3. flash' = [flash EXCEPT ![Partition(t)] = o]
  BY <1>1, <1>2 DEF Put, IInv, FlashOK
<1>4. flash'[Partition(t)] = o /\ \A p \in Partitions \ {Partition(t)} : flash'[p] = flash[p]
  BY <1>3 DEF IInv, FlashOK
<1>5. IsSequence(s) /\ off + Len(c) <= Len(s)
  BY <1>1, FlashIs
<1>6. IsSequence(o) /\ Len(o) = Len(s)
  BY <1>2, <1>5, OverwriteGives
<1>7. \A i \in 1 .. Len(c) : o[off + i] = c[i]
  BY <1>2, <1>5, OverwriteGives
<1>8. \A i \in 1 .. Len(s) : ~(off < i /\ i <= off + Len(c)) => o[i] = s[i]
  BY <1>2, <1>5, OverwriteGives
<1>9. QED BY <1>1, <1>4, <1>6, <1>7, <1>8

\* What a writer of product data has, and where it writes.
LEMMA VpdWriterIs ==
  ASSUME IInv, VpdOK, NEW t \in Tools, WritesVpd(t)
  PROVE  /\ Partition(t) = "v" /\ "v" \in Partitions /\ LINES_IN_VPD \in Nat \ {0}
         /\ Len(tool[t].buf) = LINES_IN_VPD /\ Len(flash["v"]) = LINES_IN_VPD
         /\ DOMAIN flash["v"] = 1 .. LINES_IN_VPD /\ Correct(tool[t].buf)
<1>1. Is(t, {"vpdupdate"}) /\ tool[t].pc \in {"erase", "program"}
  BY DEF WritesVpd
<1>2. Partition(t) = "v" /\ BufOK(t) /\ Holds(t)
  BY <1>1, WriterIs
<1>3. Len(tool[t].buf) = LINES_IN_VPD
  BY <1>1, <1>2 DEF BufOK
<1>4. Len(flash["v"]) = LINES_IN_VPD /\ "v" \in Partitions /\ IsSequence(flash["v"])
  BY DEF IInv, FlashOK, Partitions
<1>5. DOMAIN flash["v"] = 1 .. LINES_IN_VPD
  BY <1>4, SequenceIs
<1>6. QED BY <1>2, <1>3, <1>4, <1>5, RefAssumption DEF VpdOK, VpdWriter

\* A program that writes an image leaves the product data alone.
LEMMA ImageLeavesVpd ==
  ASSUME IInv, NEW t \in Tools, tool[t].pc \in {"erase", "program"}, ~Is(t, {"vpdupdate"}),
         NEW off, NEW c, Put(t, off, c)
  PROVE  flash'["v"] = flash["v"]
<1>1. Partition(t) # "v"
  BY WriterIs
<1>2. QED BY <1>1 DEF Put, IInv, FlashOK, Partitions

\* Product data are written from the first field on.
LEMMA VpdPutGives ==
  ASSUME IInv, NEW t \in Tools, Partition(t) = "v", NEW c, IsSequence(c), Len(c) <= Len(flash["v"]), Put(t, 0, c)
  PROVE  /\ IsSequence(flash'["v"]) /\ Len(flash'["v"]) = Len(flash["v"])
         /\ \A i \in 1 .. Len(c) : flash'["v"][i] = c[i]
         /\ \A i \in 1 .. Len(flash["v"]) : i > Len(c) => flash'["v"][i] = flash["v"][i]
<1>1. Partition(t) \in Partitions /\ 0 \in Nat /\ Len(c) \in Nat
  BY SequenceIs DEF Partitions
<1>2. 0 + Len(c) <= Len(flash[Partition(t)])
  BY <1>1
<1>3. PICK s : s = flash'["v"]
  OBVIOUS
<1>4. IsSequence(s) /\ Len(s) = Len(flash["v"])
  BY <1>1, <1>2, <1>3, PutGives
<1>5. \A i \in 1 .. Len(c) : s[0 + i] = c[i]
  BY <1>1, <1>2, <1>3, PutGives
<1>6. \A i \in 1 .. Len(flash["v"]) : ~(0 < i /\ i <= 0 + Len(c)) => s[i] = flash["v"][i]
  BY <1>1, <1>2, <1>3, PutGives
<1>7. ASSUME NEW i \in 1 .. Len(c)
      PROVE  s[i] = c[i]
  <2>1. 0 + i = i
    OBVIOUS
  <2>2. QED BY <1>5, <2>1
<1>8. ASSUME NEW i \in 1 .. Len(flash["v"]), i > Len(c)
      PROVE  s[i] = flash["v"][i]
  <2>1. ~(i <= 0 + Len(c))
    BY <1>1, <1>8
  <2>2. QED BY <1>6, <2>1
<1>9. QED BY <1>3, <1>4, <1>7, <1>8

LEMMA EraseKeepsVpd ==
  ASSUME IInv, VpdOK, OneVpdUpdate, NEW t \in Tools, Erase(t)
  PROVE  VpdOK'
<1>1. tool[t].pc = "erase" /\ Goes(t, "program")
      /\ Put(t, 0, [i \in DOMAIN tool[t].buf |-> Erased(Partition(t))])
  BY DEF Erase
<1>2. /\ Only(t) /\ tool'[t].pc = "program" /\ tool'[t].cmd = tool[t].cmd
      /\ tool'[t].buf = tool[t].buf /\ tool'[t].off = tool[t].off
  BY <1>1, GoesGives
<1>3. CASE ~Is(t, {"vpdupdate"})
  <2>1. flash'["v"] = flash["v"]
    BY <1>1, <1>3, ImageLeavesVpd
  <2>2. VpdWriter(t)'
    BY <1>2, <1>3 DEF VpdWriter, WritesVpd, Is
  <2>3. QED BY <1>2, <2>1, <2>2, VpdKept
<1>4. CASE Is(t, {"vpdupdate"})
  <2>1. WritesVpd(t)
    BY <1>1, <1>4 DEF WritesVpd
  <2>2. PICK n \in Nat \ {0} : n = LINES_IN_VPD
    BY RefAssumption
  <2>3. /\ Partition(t) = "v" /\ "v" \in Partitions /\ Len(tool[t].buf) = n /\ Len(flash["v"]) = n
        /\ Correct(tool[t].buf)
    BY <2>1, <2>2, VpdWriterIs
  <2>4. DOMAIN tool[t].buf = 1 .. n /\ Erased("v") = ErasedField
    BY <2>3, ToolIs DEF Erased
  <2>5. PICK c : c = [i \in 1 .. n |-> ErasedField]
    OBVIOUS
  <2>6. IsSequence(c) /\ Len(c) = n /\ \A i \in 1 .. n : c[i] = ErasedField
    <3>1. c = [i \in 1 .. n |-> c[i]]
      BY <2>5
    <3>2. QED BY <2>5, <3>1, FunctionIsSequence
  <2>7. Put(t, 0, c)
    BY <1>1, <2>3, <2>4, <2>5
  <2>8. /\ IsSequence(flash'["v"]) /\ Len(flash'["v"]) = n
        /\ \A i \in 1 .. n : flash'["v"][i] = c[i]
    <3>1. Len(c) <= Len(flash["v"])
      BY <2>3, <2>6
    <3>2. QED BY <2>3, <2>6, <2>7, <3>1, VpdPutGives
  <2>9. \A k \in 1 .. n : flash'["v"][k] = ErasedField
    BY <2>6, <2>8
  <2>10. DOMAIN flash'["v"] = 1 .. n /\ 1 \in 1 .. n
    BY <2>8, SequenceIs
  <2>11. VpdIsWhole'
    BY <2>9, <2>10 DEF VpdIsWhole
  <2>12. VpdWriter(t)'
    BY <1>2, <2>3, <2>9, <2>10 DEF VpdWriter
  <2>13. QED BY <1>2, <2>1, <2>11, <2>12, VpdStep
<1>5. QED BY <1>3, <1>4

LEMMA ProgramKeepsVpd ==
  ASSUME IInv, VpdOK, OneVpdUpdate, NEW t \in Tools, Program(t)
  PROVE  VpdOK'
<1>1. /\ tool[t].pc = "program" /\ tool[t].off < Len(tool[t].buf)
      /\ tool' = [tool EXCEPT ![t].off = @ + Len(Chunk(t))]
      /\ Put(t, tool[t].off, Chunk(t)) \/ (Partition(t) # "v" /\ Put(t, tool[t].off, <<Wrong>>))
  BY DEF Program
<1>2. PICK off : off = tool[t].off + Len(Chunk(t))
  OBVIOUS
<1>3. tool' = [tool EXCEPT ![t].off = off]
  BY <1>1, <1>2 DEF IInv
<1>4. /\ Only(t) /\ tool'[t].pc = tool[t].pc /\ tool'[t].cmd = tool[t].cmd
      /\ tool'[t].buf = tool[t].buf /\ tool'[t].off = off
  BY <1>3, OffGives
<1>5. CASE ~Is(t, {"vpdupdate"})
  <2>1. flash'["v"] = flash["v"]
    BY <1>1, <1>5, ImageLeavesVpd
  <2>2. VpdWriter(t)'
    BY <1>4, <1>5 DEF VpdWriter, WritesVpd, Is
  <2>3. QED BY <1>4, <2>1, <2>2, VpdKept
<1>6. CASE Is(t, {"vpdupdate"})
  <2>1. WritesVpd(t)
    BY <1>1, <1>6 DEF WritesVpd
  <2>2. PICK n \in Nat \ {0} : n = LINES_IN_VPD
    BY RefAssumption
  <2>3. /\ Partition(t) = "v" /\ "v" \in Partitions /\ Len(tool[t].buf) = n /\ Len(flash["v"]) = n
        /\ Correct(tool[t].buf)
    BY <2>1, <2>2, VpdWriterIs
  <2>4. tool[t].off = 0 /\ Chunk(t) = tool[t].buf
    BY <1>1, <1>6, ChunkIs
  <2>5. PICK b : b = tool[t].buf
    OBVIOUS
  <2>6. Put(t, 0, b) /\ off = n /\ IsSequence(b) /\ Len(b) = n
    BY <1>1, <1>2, <2>3, <2>4, <2>5, ToolIs
  <2>7. /\ IsSequence(flash'["v"]) /\ Len(flash'["v"]) = n
        /\ \A i \in 1 .. n : flash'["v"][i] = b[i]
    <3>1. Len(b) <= Len(flash["v"])
      BY <2>3, <2>6
    <3>2. QED BY <2>3, <2>6, <3>1, VpdPutGives
  <2>8. flash'["v"] = b
    <3>1. PICK s : s = flash'["v"]
      OBVIOUS
    <3>2. s = b
      BY <2>6, <2>7, <3>1, SequencesEqual
    <3>3. QED BY <3>1, <3>2
  <2>9. VpdIsWhole'
    BY <2>3, <2>5, <2>8 DEF VpdIsWhole, Correct
  <2>10. VpdWriter(t)'
    BY <1>4, <2>3, <2>6 DEF VpdWriter
  <2>11. QED BY <1>4, <2>1, <2>9, <2>10, VpdStep
<1>7. QED BY <1>5, <1>6

LEMMA ProgramFailsKeepsVpd ==
  ASSUME IInv, VpdOK, OneVpdUpdate, NEW t \in Tools, ProgramFails(t)
  PROVE  VpdOK'
<1>1. tool[t].pc = "program"
  BY DEF ProgramFails
<1>2. Quiet(t)
  BY EndsQuiet DEF ProgramFails, WriteFailed
<1>3. CASE UNCHANGED flash
  BY <1>2, <1>3, QuietStep
<1>4. ASSUME tool[t].off < Len(tool[t].buf), NEW m \in 1 .. Len(Chunk(t)), Put(t, tool[t].off, SubSeq(Chunk(t), 1, m))
      PROVE  VpdOK'
  <2>1. CASE ~Is(t, {"vpdupdate"})
    <3>1. flash'["v"] = flash["v"]
      BY <1>1, <1>4, <2>1, ImageLeavesVpd
    <3>2. QED BY <1>2, <3>1, VpdKept DEF Quiet, VpdWriter
  <2>2. CASE Is(t, {"vpdupdate"})
    <3>1. WritesVpd(t)
      BY <1>1, <2>2 DEF WritesVpd
    <3>2. PICK n \in Nat \ {0} : n = LINES_IN_VPD
      BY RefAssumption
    <3>3. /\ Partition(t) = "v" /\ "v" \in Partitions /\ Len(tool[t].buf) = n /\ Len(flash["v"]) = n
          /\ DOMAIN flash["v"] = 1 .. n /\ Correct(tool[t].buf)
      BY <3>1, <3>2, VpdWriterIs
    <3>4. tool[t].off = 0 /\ Chunk(t) = tool[t].buf
      BY <1>1, <1>4, <2>2, ChunkIs
    <3>5. \A k \in 1 .. n : flash["v"][k] = ErasedField
      BY <1>1, <3>1, <3>3, <3>4 DEF VpdOK, VpdWriter
    <3>6. PICK b : b = tool[t].buf
      OBVIOUS
    <3>7. IsSequence(b) /\ Len(b) = n /\ m \in 1 .. n
      BY <1>4, <3>3, <3>4, <3>6, ToolIs
    <3>8. PICK c : c = SubSeq(b, 1, m)
      OBVIOUS
    <3>9. IsSequence(c) /\ Len(c) = m /\ \A i \in 1 .. m : c[i] = b[i]
      <4>1. IsSequence(c) /\ Len(c) = m - 1 + 1 /\ \A i \in 1 .. m - 1 + 1 : c[i] = b[1 + i - 1]
        BY <3>7, <3>8, PartOf
      <4>2. QED BY <3>7, <4>1
    <3>10. Put(t, 0, c)
      BY <1>4, <3>4, <3>6, <3>8
    <3>11. /\ IsSequence(flash'["v"]) /\ Len(flash'["v"]) = n
           /\ \A i \in 1 .. m : flash'["v"][i] = c[i]
           /\ \A i \in 1 .. n : i > m => flash'["v"][i] = flash["v"][i]
      <4>1. Len(c) <= Len(flash["v"])
        BY <3>3, <3>7, <3>9
      <4>2. QED BY <3>3, <3>9, <3>10, <4>1, VpdPutGives
    <3>12. CASE m = n
      <4>1. \A i \in 1 .. n : flash'["v"][i] = b[i]
        BY <3>9, <3>11, <3>12
      <4>2. PICK s : s = flash'["v"]
        OBVIOUS
      <4>3. s = b
        BY <3>7, <3>11, <4>1, <4>2, SequencesEqual
      <4>4. VpdIsWhole'
        BY <3>3, <3>6, <4>2, <4>3 DEF VpdIsWhole, Correct
      <4>5. QED BY <1>2, <3>1, <4>4, VpdStep DEF Quiet, VpdWriter
    <3>13. CASE m # n
      <4>1. n \in 1 .. n /\ n > m
        BY <3>7, <3>13
      <4>2. flash'["v"][n] = ErasedField
        BY <3>5, <3>11, <4>1
      <4>3. n \in DOMAIN flash'["v"]
        BY <3>11, <4>1, SequenceIs
      <4>4. VpdIsWhole'
        BY <4>2, <4>3 DEF VpdIsWhole
      <4>5. QED BY <1>2, <3>1, <4>4, VpdStep DEF Quiet, VpdWriter
    <3>14. QED BY <3>12, <3>13
  <2>3. QED BY <2>1, <2>2
<1>5. QED BY <1>3, <1>4 DEF ProgramFails

LEMMA ReadFileKeepsVpd ==
  ASSUME IInv, VpdOK, NEW t \in Tools, ReadFile(t)
  PROVE  VpdOK'
<1>1. At(t, "update", "readfile") /\ UNCHANGED flash
  BY DEF ReadFile
<1>2. CASE ShortRead(t)
  BY <1>1, <1>2, EndsQuiet, QuietStep DEF ShortRead
<1>3. CASE ~ShortRead(t)
  <2>1. PICK b : b = SubSeq(file[tool[t].cmd.in], 1, tool[t].size)
    OBVIOUS
  <2>2. tool' = [tool EXCEPT ![t].pc = "erase", ![t].buf = b]
    BY <1>3, <2>1 DEF ReadFile
  <2>3. /\ Only(t) /\ IsTool(tool'[t])
        /\ tool'[t].cmd = tool[t].cmd /\ tool'[t].pc = "erase" /\ tool'[t].buf = b /\ tool'[t].size = tool[t].size
        /\ tool'[t].off = tool[t].off /\ tool'[t].errno = tool[t].errno /\ tool'[t].rc = tool[t].rc
    BY <2>2, BufGives
  <2>4. Quiet(t)
    BY <1>1, <2>3 DEF Quiet, WritesVpd, At, Is
  <2>5. QED BY <1>1, <2>4, QuietStep
<1>4. QED BY <1>2, <1>3

LEMMA UpdateVpdKeepsVpd ==
  ASSUME IInv, VpdOK, NEW t \in Tools, UpdateVpd(t)
  PROVE  VpdOK'
<1>1. At(t, "vpdupdate", "check") /\ UNCHANGED flash
  BY DEF UpdateVpd
<1>2. CASE Accepted(file[tool[t].cmd.in])
  <2>1. PICK b : b = SubSeq(file[tool[t].cmd.in], 1, LINES_IN_VPD)
    OBVIOUS
  <2>2. tool' = [tool EXCEPT ![t].pc = "erase", ![t].buf = b]
    BY <1>2, <2>1 DEF UpdateVpd
  <2>3. /\ Only(t) /\ IsTool(tool'[t])
        /\ tool'[t].cmd = tool[t].cmd /\ tool'[t].pc = "erase" /\ tool'[t].buf = b /\ tool'[t].size = tool[t].size
        /\ tool'[t].off = tool[t].off /\ tool'[t].errno = tool[t].errno /\ tool'[t].rc = tool[t].rc
    BY <2>2, BufGives
  <2>4. IsSequence(file[tool[t].cmd.in])
    BY <1>1 DEF At, IInv, Local, OpenOK
  <2>5. Correct(b)
    BY <1>2, <2>1, <2>4, AcceptedGives
  <2>6. VpdWriter(t)'
    BY <2>3, <2>5 DEF VpdWriter
  <2>7. QED BY <1>1, <2>3, <2>6, VpdKept
<1>3. CASE ~Accepted(file[tool[t].cmd.in])
  BY <1>1, <1>3, EndsQuiet, QuietStep DEF UpdateVpd, Ends
<1>4. QED BY <1>2, <1>3

LEMMA DumpVpdQuiet ==
  ASSUME IInv, NEW t \in Tools, DumpVpd(t)
  PROVE  Quiet(t)
<1>1. ASSUME NEW r, tool' = [tool EXCEPT ![t].pc = "flush", ![t].buf = r.csv]
      PROVE  Quiet(t)
  <2>1. PICK q : q = [tool[t] EXCEPT !.pc = "flush", !.buf = r.csv]
    OBVIOUS
  <2>2. tool' = [tool EXCEPT ![t] = q]
    BY <1>1, <2>1
  <2>3. tool'[t] = q /\ Only(t)
    BY <2>2 DEF Only, IInv
  <2>4. q.pc = "flush"
    <3>1. IsTool(tool[t])
      BY ToolIs
    <3>2. QED BY <2>1, <3>1 DEF IsTool
  <2>5. QED BY <2>3, <2>4 DEF Quiet, WritesVpd
<1>2. QED BY <1>1, EndsQuiet DEF DumpVpd

LEMMA StartQuiet ==
  ASSUME IInv, NEW t \in Tools, Start(t)
  PROVE  Quiet(t)
<1>1. PICK c \in Commands[t] :
        tool' = [tool EXCEPT ![t] = [cmd |-> c, pc |-> "start", buf |-> <<>>, size |-> 0, off |-> 0,
                                     errno |-> "", rc |-> "ok"]]
  BY DEF Start
<1>2. PICK e : e = <<>>
  OBVIOUS
<1>3. PICK q : q = [cmd |-> c, pc |-> "start", buf |-> e, size |-> 0, off |-> 0, errno |-> "", rc |-> "ok"]
  OBVIOUS
<1>4. tool' = [tool EXCEPT ![t] = q]
  BY <1>1, <1>2, <1>3, Zenon
<1>5. tool'[t] = q /\ Only(t)
  BY <1>4 DEF Only, IInv
<1>6. q.pc = "start"
  BY <1>3, RecordIs
<1>7. QED BY <1>5, <1>6 DEF Quiet, WritesVpd

\* The programs that go on without writing product data.
LEMMA QuietRun ==
  ASSUME IInv, VpdOK, NEW t \in Tools,
         \/ UpdateStart(t) \/ CheckSize(t) \/ Fstat(t) \/ Verify(t) \/ VerifyFails(t) \/ Programmed(t)
         \/ VpdStart(t) \/ ShowStart(t) \/ DumpVpd(t) \/ ConvStart(t) \/ ConvertCsv(t) \/ ReverseCsv(t)
         \/ Flush(t) \/ ReadStart(t) \/ FlashRead(t) \/ WriteFile(t) \/ Start(t) \/ Kill(t)
  PROVE  VpdOK'
<1>1. UNCHANGED flash
  BY DEF UpdateStart, CheckSize, Fstat, Verify, VerifyFails, Programmed, VpdStart, ShowStart, DumpVpd, ConvStart,
         ConvertCsv, ReverseCsv, Flush, ReadStart, FlashRead, WriteFile, Start, Kill
<1>2. SUFFICES Quiet(t)
  BY <1>1, QuietStep
<1>3. CASE UpdateStart(t) \/ CheckSize(t)
  <2>1. Goes(t, "lstat") \/ Goes(t, "fstat") \/ EndsWith(t, tool[t].errno, "fail")
    BY <1>3 DEF UpdateStart, CheckSize, Ends
  <2>2. QED BY <2>1, GoesQuiet, EndsQuiet DEF Pcs
<1>4. CASE Fstat(t)
  <2>1. PICK n : n = Len(file[tool[t].cmd.in])
    OBVIOUS
  <2>2. tool' = [tool EXCEPT ![t].pc = "readfile", ![t].size = n]
    BY <1>4, <2>1 DEF Fstat
  <2>3. /\ Only(t) /\ IsTool(tool'[t])
        /\ tool'[t].cmd = tool[t].cmd /\ tool'[t].pc = "readfile" /\ tool'[t].buf = tool[t].buf /\ tool'[t].size = n
        /\ tool'[t].off = tool[t].off /\ tool'[t].errno = tool[t].errno /\ tool'[t].rc = tool[t].rc
    BY <2>2, SizeGives
  <2>4. QED BY <2>3 DEF Quiet, WritesVpd
<1>5. CASE Verify(t) \/ VerifyFails(t) \/ Programmed(t)
  <2>1. Goes(t, "verify") \/ \E e, rc : rc \in {"ok", "fail"} /\ EndsWith(t, e, rc)
    BY <1>5 DEF Verify, VerifyFails, Programmed, Ends
  <2>2. QED BY <2>1, GoesQuiet, EndsQuiet DEF Pcs
<1>6. CASE VpdStart(t) \/ ShowStart(t) \/ ConvStart(t) \/ ReadStart(t)
  <2>1. Goes(t, "check") \/ Goes(t, "readflash") \/ Goes(t, "convert") \/ EndsWith(t, tool[t].errno, "fail")
    BY <1>6 DEF VpdStart, ShowStart, ConvStart, ReadStart, Ends
  <2>2. QED BY <2>1, GoesQuiet, EndsQuiet DEF Pcs
<1>7. CASE ConvertCsv(t) \/ ReverseCsv(t) \/ FlashRead(t)
  <2>1. ASSUME NEW b, tool' = [tool EXCEPT ![t].pc = "flush", ![t].buf = b]
        PROVE  Quiet(t)
    BY <2>1, BufQuiet DEF Pcs
  <2>2. ASSUME NEW b, tool' = [tool EXCEPT ![t].pc = "write", ![t].buf = b]
        PROVE  Quiet(t)
    BY <2>2, BufQuiet DEF Pcs
  <2>3. CASE ConvertCsv(t)
    <3>1. PICK r : IF r.ok THEN tool' = [tool EXCEPT ![t].pc = "flush", ![t].buf = Checked(t, r.bin)]
                   ELSE Ends(t, "fail")
      BY <2>3 DEF ConvertCsv
    <3>2. PICK b : b = Checked(t, r.bin)
      OBVIOUS
    <3>3. QED BY <2>1, <3>1, <3>2, EndsQuiet DEF Ends
  <2>4. CASE ReverseCsv(t)
    <3>1. PICK b : b = bin_2_csv(file[tool[t].cmd.in]).csv
      OBVIOUS
    <3>2. Ends(t, "ok") \/ tool' = [tool EXCEPT ![t].pc = "flush", ![t].buf = b]
      BY <2>4, <3>1 DEF ReverseCsv
    <3>3. QED BY <2>1, <3>2, EndsQuiet DEF Ends
  <2>5. CASE FlashRead(t)
    <3>1. PICK b : b = SubSeq(flash[Partition(t)], 1, get_rbf_size)
      OBVIOUS
    <3>2. EndsWith(t, "EIO", "fail") \/ tool' = [tool EXCEPT ![t].pc = "write", ![t].buf = b]
      BY <2>5, <3>1 DEF FlashRead, ReadFailed
    <3>3. QED BY <2>2, <3>2, EndsQuiet
  <2>6. QED BY <1>7, <2>3, <2>4, <2>5
<1>8. CASE Flush(t) \/ WriteFile(t) \/ Kill(t)
  <2>1. tool[t].rc \in {"ok", "fail"}
    BY ToolIs DEF ToolOK, TypedTool
  <2>2. \E e, rc : rc \in {"ok", "fail"} /\ EndsWith(t, e, rc)
    BY <1>8, <2>1 DEF Flush, WriteFile, Kill, Ends
  <2>3. QED BY <2>2, EndsQuiet
<1>9. QED BY <1>3, <1>4, <1>5, <1>6, <1>7, <1>8, DumpVpdQuiet, StartQuiet

LEMMA UnchangedKeepsVpd ==
  ASSUME VpdOK, UNCHANGED <<flash, tool>>
  PROVE  VpdOK'
BY DEF VpdOK, VpdIsWhole, VpdWriter, WritesVpd, Is

LEMMA NextKeepsVpd ==
  ASSUME OneVpdUpdate, IInv, VpdOK, [Next]_vars
  PROVE  VpdOK'
<1>1. ASSUME NEW t \in Tools, Update(t)
      PROVE  VpdOK'
  BY <1>1, QuietRun, ReadFileKeepsVpd DEF Update
<1>2. ASSUME NEW t \in Tools, Slu(t)
      PROVE  VpdOK'
  BY <1>2, QuietRun, EraseKeepsVpd, ProgramKeepsVpd, ProgramFailsKeepsVpd DEF Slu
<1>3. ASSUME NEW t \in Tools, Vpd(t)
      PROVE  VpdOK'
  BY <1>3, QuietRun, UpdateVpdKeepsVpd DEF Vpd
<1>4. ASSUME NEW t \in Tools, Convert(t) \/ Read(t) \/ Flush(t) \/ Start(t) \/ Kill(t)
      PROVE  VpdOK'
  BY <1>4, QuietRun DEF Convert, Read
<1>5. ASSUME NEW t \in Tools, Runs(t)
      PROVE  VpdOK'
  BY <1>1, <1>2, <1>3, <1>4, <1>5 DEF Runs
<1>6. ASSUME CopyBegins \/ CopyBlock \/ UNCHANGED vars
      PROVE  VpdOK'
  BY <1>6, UnchangedKeepsVpd DEF CopyBegins, CopyBlock, vars
<1>7. QED BY <1>4, <1>5, <1>6 DEF Next

LEMMA InitEstablishesVpd ==
  ASSUME Init
  PROVE  VpdOK
<1>1. VpdIsWhole
  BY DEF Init, VpdIsWhole
<1>2. ASSUME NEW t \in Tools
      PROVE  VpdWriter(t)
  <2>1. tool[t] = Ended
    BY DEF Init
  <2>2. tool[t].pc = "ended"
    BY <2>1, EndedIs, Zenon
  <2>3. QED BY <2>2 DEF VpdWriter, WritesVpd
<1>3. QED BY <1>1, <1>2 DEF VpdOK

\* A partition holds a whole image or good product data, unless a write of it goes on or has been
\* reported as failed: after any failures of the card and kills, whatever the files hold.
THEOREM WholeFlash ==
  ASSUME ImagesFit, FilesApart, OneVpdUpdate
  PROVE  Spec => []FlashIsWhole
<1>1. Init => IInv /\ VpdOK
  BY InitEstablishes, InitEstablishesVpd
<1>2. IInv /\ VpdOK /\ [Next]_vars => IInv' /\ VpdOK'
  BY NextKeeps, NextKeepsVpd
<1>3. ASSUME IInv, VpdOK
      PROVE  FlashIsWhole
  <2>1. ASSUME NEW p \in Partitions, NEW i \in DOMAIN flash[p], flash[p][i] = Erased(p)
        PROVE  p \in reported \/ \E t \in Tools : tool[t].cmd # None /\ Writing(t) /\ Partition(t) = p
    <3>1. p \in reported \/ \E t \in Tools : Programs(t, p, i)
      BY <1>3, <2>1 DEF IInv, ErasedOK
    <3>2. ASSUME NEW t \in Tools, Programs(t, p, i)
          PROVE  tool[t].cmd # None /\ Writing(t) /\ Partition(t) = p
      <4>1. tool[t].pc = "program" /\ Partition(t) = p
        BY <3>2 DEF Programs
      <4>2. tool[t].cmd # None
        BY <1>3, <4>1, ToolIs DEF ToolOK, PcOK
      <4>3. QED BY <4>1, <4>2 DEF Writing
    <3>3. QED BY <3>1, <3>2
  <2>2. TornIsReported
    BY <2>1 DEF TornIsReported
  <2>3. QED BY <1>3, <2>2 DEF VpdOK, FlashIsWhole
<1>4. QED BY <1>1, <1>2, <1>3, PTL DEF Spec
=============================================================================
