----------------------------- MODULE CardFlash -----------------------------
(***************************************************************************)
(* The programs that read and write the flash of a card, and the functions *)
(* of libcard they call: genwqe_update writes an image to partition 0 or   *)
(* 1, genwqe_vpdupdate writes the product data to partition v or shows it, *)
(* genwqe_vpdconv converts product data between CSV and binary files, and  *)
(* a caller of genwqe_flash_read saves a partition.  The programs run side *)
(* by side, on the same files and the same card; each may be killed, the   *)
(* card may fail, and an image file may be replaced while it is used.      *)
(*                                                                         *)
(* An image is a sequence of blocks, a file what was written to it.        *)
(* Options, messages and memory that cannot be had are left out.           *)
(***************************************************************************)
EXTENDS VpdFile

CONSTANTS
  Tools,      \* processes, which run one program after the other
  Commands,   \* the command lines of each: records of op, in, out, part, verify and crc
  ImageFile,  \* the file that is replaced while programs run
  NewImage,   \* ... by this image
  Starts,     \* what the files and the partitions "0", "1" and "v" hold at first
  CardType,   \* what sysfs says of the card
  card_types, \* the size of the image of each known type
  MaxRuns,    \* bound: programs run
  MaxFaults,  \* bound: failures of the card, programs killed, images replaced
  None        \* no file, no command

VARIABLES
  flash,      \* the partitions
  file,       \* the files
  copy,       \* blocks the user's copy has still to write to ImageFile
  tool,       \* of each process: the command cmd, where it is (pc), its buffer buf, the size
              \*   fstat found, how much of buf the card has taken (off), errno, and rc
  disturbed,  \* history: of each process, whether since its start its partition ("flash")
              \*   or the image file ("file") was changed by another
  reported,   \* history: partitions of which a write ended with an error, a kill or what
              \*   genwqe_update makes of ENOSPC, and none came to its end since, undisturbed
  seen,       \* history: product data that was in the flash or in a binary file, without
              \*   the checksum
  budget      \* what is left of the bounds

vars == <<flash, file, copy, tool, disturbed, reported, seen, budget>>

Partitions == {"0", "1", "v"}
ErasedField == [head |-> 0, data |-> <<>>]
Erased(p) == IF p = "v" THEN ErasedField ELSE 0
Wrong == 9  \* a block the card has programmed wrongly

\* The size an image must have for this card, 0 if the type is unknown.
get_rbf_size == IF CardType \in DOMAIN card_types THEN card_types[CardType] ELSE 0

DataOf(bin) == [k \in 1 .. LINES_IN_VPD - 1 |-> bin[k].data]
Whole(bin) == Len(bin) = LINES_IN_VPD /\ bin_2_csv(bin).ok

\* What a programmed block of an image may hold.
Block == Nat \ {0}
IsSequence(s) == s \in Seq({s[i] : i \in DOMAIN s})

\* The command lines of some programs.
Asking(ops) == {c \in UNION {Commands[t] : t \in Tools} : c.op \in ops}

\* Images hold blocks, the other partition fields, as many as the table; nothing is erased at first.
\* A name on a command line is the name of a file; what genwqe_update is given is an image.
ASSUME FlashAssumption ==
  /\ None \notin Tools /\ None \notin Seq(Nat) /\ get_rbf_size \in Nat
  /\ NewImage \in Seq(Block) /\ MaxRuns \in Nat /\ MaxFaults \in Nat
  /\ \A c \in Asking({"vpdupdate"}) : c.part = "v"
  /\ \A c \in Asking({"read"}) : c.part \in {"0", "1"}
  /\ \A t \in Tools : None \notin Commands[t] /\ \A c \in Commands[t] :
       c.op \in {"update", "vpdupdate", "show", "conv", "reverse", "read"}
  /\ \A s \in Starts :
       /\ \A p \in {"0", "1"} : s.flash[p] \in Seq(Block)
       /\ IsSequence(s.flash["v"]) /\ Len(s.flash["v"]) = LINES_IN_VPD
       /\ \A k \in DOMAIN s.flash["v"] : s.flash["v"][k] # ErasedField
       /\ \A f \in DOMAIN s.file : s.file[f] = None \/ IsSequence(s.file[f])
       /\ \A c \in Asking({"update", "vpdupdate", "conv", "reverse"}) : c.in \in DOMAIN s.file
       /\ \A c \in Asking({"show", "conv", "reverse", "read"}) : c.out \in DOMAIN s.file
       /\ \A c \in Asking({"update"}) : s.file[c.in] \in Seq(Block) \cup {None}
       /\ s.flash = [p \in Partitions |-> s.flash[p]]
       /\ s.file = [f \in DOMAIN s.file |-> s.file[f]]
       /\ ImageFile \in DOMAIN s.file /\ s.file[ImageFile] \in Seq(Block) \cup {None}

Ended == [cmd |-> None, pc |-> "ended", buf |-> <<>>, size |-> 0, off |-> 0, errno |-> "",
          rc |-> "fail"]

Init ==
  /\ \E s \in Starts : flash = s.flash /\ file = s.file
  /\ copy = <<>>
  /\ tool = [t \in Tools |-> Ended]
  /\ disturbed = [t \in Tools |-> {}]
  /\ reported = {}
  /\ seen = {DataOf(b) : b \in {x \in {flash["v"]} : Whole(x)}}
  /\ budget = [run |-> MaxRuns, fault |-> MaxFaults]

-----------------------------------------------------------------------------
At(t, op, pc) == tool[t].pc = pc /\ tool[t].cmd.op = op
Goes(t, pc) == tool' = [tool EXCEPT ![t].pc = pc]
\* The program ends; of one that succeeded, command and buffer are kept as history.
EndsWith(t, errno, rc) ==
  tool' = [tool EXCEPT ![t] = IF rc # "ok" THEN [Ended EXCEPT !.rc = rc]
                              ELSE [@ EXCEPT !.pc = "ended", !.size = 0, !.off = 0,
                                               !.errno = errno, !.rc = rc]]
Ends(t, rc) == EndsWith(t, tool[t].errno, rc)
Fault == budget.fault > 0 /\ budget' = [budget EXCEPT !.fault = @ - 1]

\* Mutated form: what comes behind the new part is cut off.
OverwriteAndCut(s, off, c) == SubSeq(s, 1, off) \o c

\* s with c written at offset off.
Overwrite(s, off, c) == SubSeq(s, 1, off) \o c \o SubSeq(s, off + Len(c) + 1, Len(s))

Tell(t, others, what) ==
  disturbed' = [u \in Tools |-> IF u \in others \ {t} THEN disturbed[u] \cup {what}
                                                      ELSE disturbed[u]]

Start(t) ==
  /\ tool[t].pc = "ended" /\ budget.run > 0
  /\ \E c \in Commands[t] :
       tool' = [tool EXCEPT ![t] = [cmd |-> c, pc |-> "start", buf |-> <<>>, size |-> 0, off |-> 0,
                                    errno |-> "", rc |-> "ok"]]
  /\ disturbed' = [disturbed EXCEPT ![t] = {}]
  /\ budget' = [budget EXCEPT !.run = @ - 1]
  /\ UNCHANGED <<flash, file, copy, reported, seen>>

-----------------------------------------------------------------------------
(* genwqe_update                                                           *)

\* The partition is checked and the card opened, which may fail.
UpdateStart(t) ==
  /\ At(t, "update", "start")
  /\ \/ /\ tool[t].cmd.part \in {"0", "1"}
        /\ Goes(t, "lstat") /\ UNCHANGED budget
     \/ /\ tool[t].cmd.part \notin {"0", "1"}
        /\ Ends(t, "fail") /\ UNCHANGED budget
     \/ Ends(t, "fail") /\ Fault
  /\ UNCHANGED <<flash, file, copy, disturbed, reported, seen>>

\* The file must have the size of an image of this card.
SizeFits(f) == file[f] # None /\ Len(file[f]) = get_rbf_size

CheckSize(t) ==
  /\ At(t, "update", "lstat")
  /\ IF SizeFits(tool[t].cmd.in) THEN Goes(t, "fstat") ELSE Ends(t, "fail")
  /\ UNCHANGED <<flash, file, copy, disturbed, reported, seen, budget>>

\* genwqe_flash_update takes the size again, from the file it opened.
Fstat(t) ==
  /\ At(t, "update", "fstat")
  /\ tool' = [tool EXCEPT ![t].pc = "readfile", ![t].size = Len(file[tool[t].cmd.in])]
  /\ UNCHANGED <<flash, file, copy, disturbed, reported, seen, budget>>

\* Mutated form: waits for the rest.
ReadsOn(t) == Goes(t, "readfile")

\* The file is shorter than it was.
ShortRead(t) == EndsWith(t, "", "fail")

\* ... and reads so much.
ReadFile(t) ==
  /\ At(t, "update", "readfile")
  /\ LET f == file[tool[t].cmd.in]
     IN IF Len(f) < tool[t].size THEN ShortRead(t)
        ELSE tool' = [tool EXCEPT ![t].pc = "erase", ![t].buf = SubSeq(f, 1, tool[t].size)]
  /\ UNCHANGED <<flash, file, copy, disturbed, reported, seen, budget>>

-----------------------------------------------------------------------------
(* The ioctl that writes: the partition is erased as far as it is needed,  *)
(* then programmed block by block; the product data in one.                *)

Writing(t) == tool[t].pc \in {"program", "verify"}
Partition(t) == tool[t].cmd.part
OthersOf(t) == {u \in Tools : tool[u].cmd # None /\ tool[u].cmd.part = Partition(t)}

\* The product data is in the flash once more.
Seen == seen' = seen \cup {DataOf(b) : b \in {x \in {flash'["v"]} : Whole(x)}}

Put(t, off, part) ==
  flash' = [flash EXCEPT ![Partition(t)] = Overwrite(@, off, part)]

Erase(t) ==
  /\ tool[t].pc = "erase"
  /\ Put(t, 0, [i \in DOMAIN tool[t].buf |-> Erased(Partition(t))])
  /\ Goes(t, "program")
  /\ Tell(t, OthersOf(t), "flash")
  /\ UNCHANGED <<file, copy, reported, seen, budget>>

Chunk(t) == LET s == tool[t] IN
  IF Partition(t) = "v" THEN s.buf ELSE SubSeq(s.buf, s.off + 1, s.off + 1)

\* A block of an image may be programmed wrongly, and nothing says so.
Program(t) ==
  /\ tool[t].pc = "program" /\ tool[t].off < Len(tool[t].buf)
  /\ \/ Put(t, tool[t].off, Chunk(t)) /\ UNCHANGED budget
     \/ Partition(t) # "v" /\ Put(t, tool[t].off, <<Wrong>>) /\ Fault
  /\ tool' = [tool EXCEPT ![t].off = @ + Len(Chunk(t))]
  /\ Tell(t, OthersOf(t), "flash")
  /\ Seen
  /\ UNCHANGED <<file, copy, reported>>

\* Mutated form: the result of the ioctl is not looked at.
WriteIgnored(t, errno) == EndsWith(t, errno, "ok")

\* What the caller of the ioctl makes of an error: genwqe_update takes ENOSPC, whatever failed
\* with it, for an image that cannot be read back.
WriteFailed(t, errno) ==
  EndsWith(t, errno, IF errno = "ENOSPC" /\ tool[t].cmd.op = "update" THEN "ok" ELSE "fail")

\* The ioctl fails; some of the product data may have been programmed.
ProgramFails(t) ==
  /\ tool[t].pc = "program"
  /\ \/ UNCHANGED flash
     \/ /\ tool[t].off < Len(tool[t].buf)
        /\ \E n \in 1 .. Len(Chunk(t)) : Put(t, tool[t].off, SubSeq(Chunk(t), 1, n))
  /\ \E e \in {"EIO", "ENOSPC"} : WriteFailed(t, e)
  /\ Fault
  /\ Tell(t, OthersOf(t), "flash")
  /\ reported' = IF tool'[t].rc = "ok" /\ tool'[t].errno # "ENOSPC" THEN reported
                 ELSE reported \cup {Partition(t)}
  /\ Seen
  /\ UNCHANGED <<file, copy>>

\* It returns 0: genwqe_flash_update reads the image back, if it was told to.
Programmed(t) ==
  /\ tool[t].pc = "program" /\ tool[t].off >= Len(tool[t].buf)
  /\ IF tool[t].cmd.op = "update" /\ tool[t].cmd.verify THEN Goes(t, "verify") ELSE Ends(t, "ok")
  /\ reported' = IF disturbed[t] = {} THEN reported \ {Partition(t)} ELSE reported
  /\ UNCHANGED <<flash, file, copy, disturbed, seen, budget>>

\* Mutated form: the last block is not compared.
SameButLast(buf, vbuf) == \A i \in 1 .. Len(buf) - 1 : buf[i] = vbuf[i]

\* The image read back is compared with the buffer.
Same(buf, vbuf) == buf = vbuf

Verify(t) ==
  /\ tool[t].pc = "verify"
  /\ IF Same(tool[t].buf, SubSeq(flash[Partition(t)], 1, Len(tool[t].buf)))
     THEN Ends(t, "ok") ELSE EndsWith(t, "", "fail")
  /\ UNCHANGED <<flash, file, copy, disturbed, reported, seen, budget>>

\* Reading back fails; with ENOSPC genwqe_update takes it for an image that cannot be read.
VerifyFails(t) ==
  /\ tool[t].pc = "verify"
  /\ \E e \in {"EIO", "ENOSPC"} : EndsWith(t, e, IF e = "ENOSPC" THEN "ok" ELSE "fail")
  /\ Fault
  /\ UNCHANGED <<flash, file, copy, disturbed, reported, seen>>

-----------------------------------------------------------------------------
(* genwqe_vpdupdate -u                                                     *)

VpdStart(t) ==
  /\ At(t, "vpdupdate", "start")
  /\ \/ file[tool[t].cmd.in] # None /\ Goes(t, "check") /\ UNCHANGED budget
     \/ file[tool[t].cmd.in] = None /\ Ends(t, "fail") /\ UNCHANGED budget
     \/ Ends(t, "fail") /\ Fault
  /\ UNCHANGED <<flash, file, copy, disturbed, reported, seen>>

\* Mutated form: the checksum is only warned of.
AcceptedAnyCrc(bin) ==
  Len(bin) >= LINES_IN_VPD /\ bin_2_csv(SubSeq(bin, 1, LINES_IN_VPD)).ok

\* What __update_vpd asks of its input.
Accepted(bin) == Len(bin) >= LINES_IN_VPD /\ LET b == SubSeq(bin, 1, LINES_IN_VPD)
                                             IN CrcGood(b) /\ bin_2_csv(b).ok

UpdateVpd(t) ==
  /\ At(t, "vpdupdate", "check")
  /\ IF Accepted(file[tool[t].cmd.in])
     THEN tool' = [tool EXCEPT ![t].pc = "erase",
                               ![t].buf = SubSeq(file[tool[t].cmd.in], 1, LINES_IN_VPD)]
     ELSE Ends(t, "fail")
  /\ UNCHANGED <<flash, file, copy, disturbed, reported, seen, budget>>

-----------------------------------------------------------------------------
(* Programs that write a file: it is emptied when it is opened, and gets   *)
(* its contents when it is closed.                                         *)

Empty(t) == file' = [file EXCEPT ![tool[t].cmd.out] = <<>>]

\* genwqe_vpdupdate -s opens the file before the card.
ShowStart(t) ==
  /\ At(t, "show", "start")
  /\ Empty(t)
  /\ \/ Goes(t, "readflash") /\ UNCHANGED budget
     \/ Ends(t, "fail") /\ Fault
  /\ UNCHANGED <<flash, copy, disturbed, reported, seen>>

\* genwqe_read_vpd
ReadVpd == SubSeq(flash["v"], 1, LINES_IN_VPD)

\* A wrong checksum, and product data in which the dump breaks off, are only reported: the
\* program succeeds.
DumpVpd(t) ==
  /\ At(t, "show", "readflash")
  /\ \/ \E r \in {bin_2_csv(ReadVpd)} :
          tool' = [tool EXCEPT ![t].pc = "flush", ![t].buf = r.csv]
        /\ UNCHANGED budget
     \/ EndsWith(t, "EIO", "fail") /\ Fault
  /\ UNCHANGED <<flash, file, copy, disturbed, reported, seen>>

ConvStart(t) ==
  /\ tool[t].pc = "start" /\ tool[t].cmd.op \in {"conv", "reverse"}
  /\ IF file[tool[t].cmd.in] = None THEN Ends(t, "fail") /\ UNCHANGED file
     ELSE Empty(t) /\ Goes(t, "convert")
  /\ UNCHANGED <<flash, copy, disturbed, reported, seen, budget>>

\* The checksum is put right, unless --crcoff is given.
Checked(t, bin) == IF tool[t].cmd.crc THEN Corrected(bin) ELSE bin

ConvertCsv(t) ==
  /\ At(t, "conv", "convert")
  /\ \E r \in {csv_2_bin(file[tool[t].cmd.in])} :
       IF r.ok THEN tool' = [tool EXCEPT ![t].pc = "flush", ![t].buf = Checked(t, r.bin)]
       ELSE Ends(t, "fail")
  /\ UNCHANGED <<flash, file, copy, disturbed, reported, seen, budget>>

\* --reverse ends with success, whatever the conversion says.
ReverseCsv(t) ==
  /\ At(t, "reverse", "convert")
  /\ LET f == file[tool[t].cmd.in] IN
       IF Len(f) # LINES_IN_VPD THEN Ends(t, "ok")
       ELSE tool' = [tool EXCEPT ![t].pc = "flush", ![t].buf = bin_2_csv(f).csv]
  /\ LET f == file[tool[t].cmd.in] IN seen' = seen \cup {DataOf(b) : b \in {x \in {f} : Whole(x)}}
  /\ UNCHANGED <<flash, file, copy, disturbed, reported, budget>>

Flush(t) ==
  /\ tool[t].pc = "flush"
  /\ file' = [file EXCEPT ![tool[t].cmd.out] = Overwrite(@, 0, tool[t].buf)]
  /\ Ends(t, tool[t].rc)
  /\ UNCHANGED <<flash, copy, disturbed, reported, seen, budget>>

-----------------------------------------------------------------------------
(* genwqe_flash_read: never over a file that exists.                       *)

ReadStart(t) ==
  /\ At(t, "read", "start")
  /\ IF file[tool[t].cmd.out] # None THEN Ends(t, "fail") /\ UNCHANGED file
     ELSE Empty(t) /\ Goes(t, "readflash")
  /\ UNCHANGED <<flash, copy, disturbed, reported, seen, budget>>

\* Mutated form: the result of the ioctl is not looked at.
ReadIgnored(t) ==
  tool' = [tool EXCEPT ![t].pc = "write", ![t].buf = [i \in 1 .. get_rbf_size |-> 0]]

\* The ioctl fails: the buffer is full of zeros, and the empty file stays.
ReadFailed(t) == EndsWith(t, "EIO", "fail")

FlashRead(t) ==
  /\ At(t, "read", "readflash")
  /\ \/ /\ tool' = [tool EXCEPT ![t].pc = "write",
                                ![t].buf = SubSeq(flash[Partition(t)], 1, get_rbf_size)]
        /\ UNCHANGED budget
     \/ ReadFailed(t) /\ Fault
  /\ UNCHANGED <<flash, file, copy, disturbed, reported, seen>>

\* A short write leaves what was written.
WriteFile(t) ==
  /\ At(t, "read", "write")
  /\ \/ /\ file' = [file EXCEPT ![tool[t].cmd.out] = Overwrite(@, 0, tool[t].buf)]
        /\ Ends(t, "ok") /\ UNCHANGED budget
     \/ \E n \in 0 .. Len(tool[t].buf) - 1 :
          /\ file' = [file EXCEPT ![tool[t].cmd.out] = Overwrite(@, 0, SubSeq(tool[t].buf, 1, n))]
          /\ Ends(t, "fail") /\ Fault
  /\ UNCHANGED <<flash, copy, disturbed, reported, seen>>

-----------------------------------------------------------------------------
(* The world around the programs                                           *)

Kill(t) ==
  /\ tool[t].pc # "ended" /\ Fault
  /\ Ends(t, "fail")
  /\ reported' = reported \cup {p \in {Partition(t)} : Writing(t)}
  /\ UNCHANGED <<flash, file, copy, disturbed, seen>>

Updating == {t \in Tools : tool[t].pc # "ended" /\ tool[t].cmd.op = "update"}

\* The user copies another image over the file, block by block, while a program uses it.
CopyBegins ==
  /\ copy = <<>> /\ Fault
  /\ \E t \in Updating : tool[t].pc \in {"start", "lstat", "fstat", "readfile"}
  /\ file' = [file EXCEPT ![ImageFile] = <<>>]
  /\ copy' = NewImage
  /\ Tell(None, Updating, "file")
  /\ UNCHANGED <<flash, tool, reported, seen>>

CopyBlock ==
  /\ copy # <<>>
  /\ file' = [file EXCEPT ![ImageFile] = Append(@, Head(copy))]
  /\ copy' = Tail(copy)
  /\ Tell(None, Updating, "file")
  /\ UNCHANGED <<flash, tool, reported, seen, budget>>

-----------------------------------------------------------------------------
Is(t, ops) == tool[t].cmd.op \in ops
Update(t) == Is(t, {"update"}) /\ (UpdateStart(t) \/ CheckSize(t) \/ Fstat(t) \/ ReadFile(t) \/ Verify(t)
                                  \/ VerifyFails(t))
Slu(t) == tool[t].pc \in {"erase", "program"} /\ (Erase(t) \/ Program(t) \/ ProgramFails(t)
                                                  \/ Programmed(t))
Vpd(t) == Is(t, {"vpdupdate", "show"}) /\ (VpdStart(t) \/ UpdateVpd(t) \/ ShowStart(t) \/ DumpVpd(t))
Convert(t) == Is(t, {"conv", "reverse"}) /\ (ConvStart(t) \/ ConvertCsv(t) \/ ReverseCsv(t))
Read(t) == Is(t, {"read"}) /\ (ReadStart(t) \/ FlashRead(t) \/ WriteFile(t))
Runs(t) == tool[t].pc # "ended" /\ (Update(t) \/ Slu(t) \/ Vpd(t) \/ Convert(t) \/ Flush(t) \/ Read(t))

Next ==
  \/ \E t \in Tools : Start(t) \/ Runs(t) \/ Kill(t)
  \/ CopyBegins \/ CopyBlock

\* A program that is not killed goes on, and the card answers its requests.
Fairness == \A t \in Tools : WF_vars(Runs(t))

Spec == Init /\ [][Next]_vars /\ Fairness

-----------------------------------------------------------------------------
(* Properties                                                              *)

Good(t, ops) == tool[t].pc = "ended" /\ tool[t].rc = "ok" /\ tool[t].cmd.op \in ops

\* The types of the variables; the partitions keep their size.
TypeOK ==
  /\ \A p \in Partitions : Len(flash[p]) \in {Len(s.flash[p]) : s \in Starts}
  /\ \A f \in DOMAIN file : file[f] # None => Len(file[f]) \in Nat
  /\ Len(copy) \in 0 .. Len(NewImage)
  /\ \A t \in Tools :
       /\ tool[t].cmd \in Commands[t] \cup {None}
       /\ tool[t].pc \in {"ended", "start", "lstat", "fstat", "readfile", "erase", "program", "verify",
                          "check", "readflash", "convert", "flush", "write"}
       /\ tool[t].off \in 0 .. Len(tool[t].buf)
       /\ tool[t].errno \in {"", "EIO", "ENOSPC"}
       /\ tool[t].rc \in {"ok", "fail"}
       /\ disturbed[t] \subseteq {"flash", "file"}
  /\ reported \subseteq Partitions
  /\ budget \in [run : 0 .. MaxRuns, fault : 0 .. MaxFaults]

\* genwqe_update with verification and genwqe_vpdupdate -u say that they succeeded only when what
\* they read from their file is in the flash, also when a block was programmed wrongly, and the
\* image is a whole one if the file did not change meanwhile. Not with ENOSPC, which genwqe_update
\* calls a success, and not if another program wrote the partition.
SuccessIsOnCard ==
  \A t \in Tools :
    /\ Good(t, {"update", "vpdupdate"})
    /\ tool[t].cmd.op = "update" => tool[t].cmd.verify
    /\ tool[t].errno # "ENOSPC" /\ "flash" \notin disturbed[t]
    => /\ tool[t].buf = SubSeq(flash[Partition(t)], 1, Len(tool[t].buf))
       /\ tool[t].cmd.op = "update" /\ "file" \notin disturbed[t]
          => Len(tool[t].buf) = get_rbf_size

\* Whatever files genwqe_vpdupdate is given, in whatever state their writers left them: the
\* product data of the card are in the format and have the right checksum, or are the ones that
\* the card came with, or a write of them broke off.
VpdIsWhole ==
  \/ \E k \in DOMAIN flash["v"] : flash["v"][k] = ErasedField
  \/ \E s \in Starts : flash["v"] = s.flash["v"]
  \/ Whole(flash["v"]) /\ CrcGood(flash["v"])

\* A partition with erased blocks is being written, or a program that wrote it was killed, said
\* that it failed, or, genwqe_update, got ENOSPC and said that it succeeded without verification.
\* (A file that shrinks while genwqe_update runs is written as far as it goes.)
TornIsReported ==
  \A p \in Partitions :
    (\E i \in DOMAIN flash[p] : flash[p][i] = Erased(p)) =>
      \/ p \in reported
      \/ \E t \in Tools : tool[t].cmd # None /\ Writing(t) /\ Partition(t) = p

\* The number that digits stand for.
Number(digits) ==
  LET upTo[i \in 0 .. Len(digits)] == IF i = 0 THEN 0 ELSE 16 * upTo[i - 1] + digits[i]
  IN upTo[Len(digits)]

\* The lines of a CSV file that hold the field k.
LinesOf(csv, k) == SelectSeq(csv, LAMBDA line : ~Skipped(line) /\ line.head = k)

\* Files that programs write product data to, as CSV.
DumpFiles == {c.out : c \in {d \in UNION {Commands[t] : t \in Tools} : d.op \in {"show", "reverse"}}}

\* A CSV file that genwqe_vpdconv converts holds each line once, and the binary fields say what
\* the text says: the same number, the same characters. Texts that are cut with their line, or
\* have commas or quotes, are not among them.
ConvertedIsAsked ==
  \A t \in Tools :
    tool[t].cmd # None /\ tool[t].cmd.op = "conv" /\ tool[t].pc = "flush"
      /\ tool[t].cmd.in \notin DumpFiles =>
      LET csv == file[tool[t].cmd.in] IN
      \A k \in 1 .. LINES_IN_VPD - 1 :
        /\ Len(LinesOf(csv, k)) = 1
        /\ LET line == LinesOf(csv, k)[1]
               data == tool[t].buf[k].data
           IN /\ Len(data) = Width(k)
              /\ line.lost = 0 => IF Ref[k].mode = "X" THEN Number(data) = Number(line.text)
                                  ELSE Printed(k, data) = line.text

\* What genwqe_vpdconv makes of a CSV file, genwqe_vpdupdate takes, unless --crcoff is given.
ConvertedIsAccepted ==
  \A t \in Tools : Good(t, {"conv"}) /\ tool[t].cmd.crc => Accepted(tool[t].buf)

\* A dump of product data that is converted gives data that were in the flash or a binary file:
\* one that broke off, or of a card with torn data, is refused.
DumpRestores ==
  \A t \in Tools :
    /\ Good(t, {"conv"}) /\ tool[t].cmd.in \in DumpFiles
    => Len(tool[t].buf) = LINES_IN_VPD /\ DataOf(tool[t].buf) \in seen

\* genwqe_flash_read succeeds only with the contents of the partition in the file.
ReadIsPartition ==
  \A t \in Tools :
    Good(t, {"read"}) /\ "flash" \notin disturbed[t] =>
      file[tool[t].cmd.out] = SubSeq(flash[Partition(t)], 1, get_rbf_size)

\* Each program ends, whatever the card, the files and the other programs do.
ToolsEnd == \A t \in Tools : tool[t].pc # "ended" ~> tool[t].pc = "ended"

\* Success of genwqe_update with verification, of genwqe_vpdupdate -u and of genwqe_flash_read
\* means that flash and file hold the same. Of genwqe_vpdupdate -s and genwqe_vpdconv --reverse
\* success means nothing, they succeed also when the dump breaks off: what becomes of such a file
\* is what DumpRestores is about.
SuccessIsTrue == TypeOK /\ SuccessIsOnCard /\ ReadIsPartition

\* A partition holds a whole image or good product data, or someone was told that it does not.
FlashIsWhole == VpdIsWhole /\ TornIsReported

\* Product data keep their meaning when they are converted there and back.
ConversionsAgree == ConvertedIsAsked /\ ConvertedIsAccepted /\ DumpRestores
=============================================================================
