----------------------------- MODULE MCCardFlash -----------------------------
(* Instances of CardFlash for TLC: four of the ten lines of product data,   *)
(* images of two blocks, a process for the product data and one for images  *)
(* and dumps.                                                               *)
EXTENDS CardFlash

CONSTANTS t1, t2

\* RV, PN, M0 and CS.
MCRef == << [length |-> 1, mode |-> "X"], [length |-> 2, mode |-> "A"],
            [length |-> 1, mode |-> "X"], [length |-> 3, mode |-> "X"] >>
MCVersion == <<1, 2>>

F(k, data) == [head |-> k, data |-> data]
Product(pn, m0) == Corrected(<<F(1, MCVersion), F(2, pn), F(3, m0), F(4, <<>>)>>)

L(k, text) == [head |-> k, whole |-> TRUE, text |-> text, lost |-> 0]
Remark == [head |-> Comment, whole |-> FALSE, text |-> <<>>, lost |-> 0]
Broken(k) == [head |-> k, whole |-> FALSE, text |-> <<>>, lost |-> 0]
CS == L(4, <<1, 1>>)

\* CSV files: with remarks and short texts; out of order; without the last
\* line, or with one more; with the wrong version; with a line cut by a missing comma.
CsvFiles == [
  good |-> << Remark, L(1, <<1, 2>>), L(2, <<5>>), Remark, L(3, <<7>>), Broken(4), CS >>,
  order |-> << L(1, <<1, 2>>), L(3, <<7, 8>>), L(2, <<5, 6>>), CS >>,
  short |-> << L(1, <<1, 2>>), L(2, <<5, 6>>), L(3, <<7, 8>>) >>,
  long |-> << L(1, <<1, 2>>), L(2, <<5, 6>>), L(3, <<7, 8>>), CS, CS >>,
  version |-> << L(1, <<2, 1>>), L(2, <<5, 6>>), L(3, <<7, 8>>), CS >>,
  cut |-> << L(1, <<1, 2>>), L(2, <<5, 6>>), [L(3, <<7, 8>>) EXCEPT !.lost = 1], CS >> ]

MCFile == CsvFiles @@ [bin |-> None, dump |-> None, rbf |-> <<1, 1>>, read |-> None]
FlashWith(v) == [p \in {"0", "1"} |-> <<7, 7>>] @@ [p \in {"v"} |-> v]

\* The product data on the card: good; of an older version; with a label that is none; with
\* a wrong checksum.
OnCard == Product(<<5, 0>>, <<1, 1>>)
MCStarts == {[file |-> MCFile, flash |-> FlashWith(v)] :
             v \in { OnCard, [OnCard EXCEPT ![1].data = <<1, 1>>], [OnCard EXCEPT ![3].head = 0],
                     [OnCard EXCEPT ![4].data = <<0, 0, 0, 0, 0, 0>>] }}

Command(op, in, out, part, verify, crc) ==
  [op |-> op, in |-> in, out |-> out, part |-> part, verify |-> verify, crc |-> crc]
MCCommands == [t \in Tools |-> IF t = t1
  THEN { Command("conv", f, "bin", "-", FALSE, TRUE) : f \in DOMAIN CsvFiles \cup {"dump"} }
       \cup { Command("conv", "good", "bin", "-", FALSE, FALSE),
              Command("vpdupdate", "bin", "-", "v", FALSE, FALSE) }
  ELSE { Command("show", "-", "dump", "-", FALSE, FALSE),
         Command("reverse", "bin", "dump", "-", FALSE, FALSE),
         Command("update", "rbf", "-", "1", TRUE, FALSE),
         Command("update", "rbf", "-", "0", FALSE, FALSE),
         Command("update", "rbf", "-", "v", TRUE, FALSE),
         Command("read", "-", "read", "1", FALSE, FALSE) }]

MCcard_types == [ c \in {"GenWQE5-A7"} |-> 2 ]
MCNewImage == <<2, 2>>
=============================================================================
