------------------------------ MODULE VpdFile ------------------------------
(***************************************************************************)
(* The two conversions of the vital product data of a card,                *)
(* tools/genwqe_vpd_common.c: from the binary form in the flash to lines   *)
(* of comma separated values and back.                                     *)
(*                                                                         *)
(* A binary form is a sequence of fields [head, data].  head is the line   *)
(* of the reference table whose label, length and mode the field has, 0 if *)
(* there is none.  data is a sequence of characters or of hex digits.      *)
(*                                                                         *)
(* A line of a CSV file is [head, whole, text, lost].  head is the same,   *)
(* with Comment for a line whose key has not two characters.  whole: it    *)
(* has four fields at least.  text is what stands in the fourth, up to the *)
(* end of the line.  lost is the number of characters of text that go with *)
(* the end of the line: csv_2_bin takes away the last two characters, "\n" *)
(* and the character before it, which is a "\r" or a comma, or a digit.    *)
(***************************************************************************)
EXTENDS Integers, FiniteSets, SequencesExt

CONSTANTS
  Ref,     \* vpd_ref_102: a sequence of [length, mode], the mode "A" or "X"
  Version  \* VPD_VERSION, two digits a byte

LINES_IN_VPD == Len(Ref)

\* The characters of an "A" field that matter; all others are letters.
NUL == 0
Comma == 2
Quote == 3

Comment == -1

-----------------------------------------------------------------------------
Width(k) == IF Ref[k].mode = "X" THEN 2 * Ref[k].length ELSE Ref[k].length

Zeros(n) == [i \in 1 .. n |-> 0]

\* The checksum of a binary form tells any two of them apart.
genwqe_crc32_gen(bin) ==
  LET upTo[k \in 0 .. Len(bin)] == IF k = 0 THEN <<>> ELSE upTo[k - 1] \o bin[k].data
  IN upTo[Len(bin)]

\* The last field holds the checksum of the others (the checksum of all is 0).
CrcGood(bin) == bin[Len(bin)].data = genwqe_crc32_gen(Front(bin))

ASSUME RefAssumption ==
  /\ LINES_IN_VPD \in Nat \ {0, 1}
  /\ \A k \in DOMAIN Ref : Ref[k].length \in Nat \ {0} /\ Ref[k].mode \in {"A", "X"}
  /\ Ref[1].mode = "X" /\ Len(Version) = Width(1)
  /\ Ref[LINES_IN_VPD].mode = "X"
  /\ LET sum[k \in 0 .. LINES_IN_VPD] == IF k = 0 THEN 0 ELSE sum[k - 1] + Width(k)
     IN Width(LINES_IN_VPD) = sum[LINES_IN_VPD - 1]

-----------------------------------------------------------------------------
(* From binary to CSV                                                      *)

\* Characters that cannot be printed are left out.
Printed(k, data) == IF Ref[k].mode = "A" THEN SelectSeq(data, LAMBDA c : c # NUL) ELSE data

WrongVersion(k, data) == k = 1 /\ data # Version

LineOf(k, data) == [head |-> k, whole |-> TRUE, text |-> Printed(k, data), lost |-> 0]

\* The fields that are refused; the table gives their order.
Refused(bin) == {k \in DOMAIN bin : bin[k].head # k \/ WrongVersion(k, bin[k].data)}

\* What was printed before an error stays in the file, the start of its line too if the version
\* is wrong.
bin_2_csv(bin) ==
  LET bad == Refused(bin)
      first == IF bad = {} THEN Len(bin) + 1 ELSE CHOOSE k \in bad : \A j \in bad : k <= j
      start == IF bad # {} /\ bin[first].head = first
               THEN << [head |-> first, whole |-> FALSE, text |-> <<>>, lost |-> 0] >> ELSE <<>>
  IN [csv |-> [k \in 1 .. first - 1 |-> LineOf(k, bin[k].data)] \o start, ok |-> bad = {}]

-----------------------------------------------------------------------------
(* From CSV to binary                                                      *)

\* What is left of the text when its line is cut.
Cut(line) == SubSeq(line.text, 1, Len(line.text) - line.lost)

\* The fourth field of the cut line: a comma ends it, quotes are skipped.
Token(line) ==
  LET text == Cut(line)
      commas == {i \in DOMAIN text : Ref[line.head].mode = "A" /\ text[i] = Comma}
      end == IF commas = {} THEN Len(text) + 1 ELSE CHOOSE i \in commas : \A j \in commas : i <= j
  IN SelectSeq(SubSeq(text, 1, end - 1),
               LAMBDA c : Ref[line.head].mode = "X" \/ c # Quote)

\* Mutated form: digits are converted from the start of the field.
DataFromStart(k, token) == token \o Zeros(Width(k) - Len(token))

\* Characters are filled up with NUL behind them, digits with 0 before them.
Data(k, token) ==
  IF Ref[k].mode = "A" THEN token \o Zeros(Width(k) - Len(token))
                       ELSE Zeros(Width(k) - Len(token)) \o token

Skipped(line) == line.head = Comment \/ ~line.whole

\* The line does not fit the next line of the table. Behind the end of the table the code
\* compares with what lies there: the line is refused, or the program dies, or the number of
\* lines is refused in the end.
ParseError(line, next) ==
  /\ line.head # Comment
  /\ \/ next > LINES_IN_VPD
     \/ line.head # next
     \/ /\ line.whole
        /\ \/ Len(Token(line)) > Width(next)
           \/ WrongVersion(next, Data(next, Token(line)))

\* The lines of the file that count, by their numbers.
Lines(csv) == {i \in DOMAIN csv : ~Skipped(csv[i])}

\* The line of the table that line i of the file is compared with.
CheckLine(csv, i) == 1 + Cardinality({j \in 1 .. i - 1 : ~Skipped(csv[j])})

\* Mutated form: the lines are not counted.
NotCounted(bin) == bin # <<>>

\* All lines of the table were there.
Complete(bin) == Len(bin) = LINES_IN_VPD

\* Where no line is out of place, line k of the table is the one with its label.
LineAt(csv, k) == csv[CHOOSE i \in DOMAIN csv : csv[i].head = k /\ csv[i].whole]

csv_2_bin(csv) ==
  IF \E i \in DOMAIN csv : ParseError(csv[i], CheckLine(csv, i)) THEN [bin |-> <<>>, ok |-> FALSE]
  ELSE LET bin == [k \in 1 .. Cardinality(Lines(csv)) |->
                     [head |-> k, data |-> Data(k, Token(LineAt(csv, k)))]]
       IN [bin |-> bin, ok |-> Complete(bin)]

\* Mutated form: the checksum covers the four bytes it is written to.
CorrectedOverAll(bin) == [bin EXCEPT ![Len(bin)].data = genwqe_crc32_gen(bin)]

\* vpdconv puts the right checksum into the last four bytes.
Corrected(bin) == [bin EXCEPT ![Len(bin)].data = genwqe_crc32_gen(Front(bin))]
=============================================================================
