-------------------------- MODULE CardClientsProofs --------------------------
(***************************************************************************)
(* Theorems about CardClients for every number of handles and cards and    *)
(* every site: the card contexts say of their clients what is so, commands *)
(* go to cards that are served, and the destructor frees every AFU.        *)
(***************************************************************************)
EXTENDS CardClients, FiniteSetTheorems, WellFoundedInduction, TLAPS

-----------------------------------------------------------------------------
(* The inductive invariant                                                 *)

\* A handle in use is one of its site.
OfSite == \A h \in Handles :
  pc[h] # "closed" => kind[h] = site.kind /\ want[h] \in site.modes

\* The destructor runs while no call is under way, and from card to card.
ExitQuiet == exit # None =>
  /\ \A h \in Handles : pc[h] \in {"open", "closed"}
  /\ \A c \in Cards : c < exit => ~afu[c] /\ loop[c] = "none"

\* The lock that is held over several steps is that of the card being opened.
LockOwned == \A c \in Cards, h \in Handles :
  lock[c] = h <=> pc[h] = "afu_open" /\ card_next[h] = c

\* A card is open, is being opened by its first client, or is closed.
DeviceOf(c) ==
  /\ loop[c] # "none" => /\ afu[c] /\ lock[c] = None
                         /\ c \in site.gzip
                         /\ loop[c] \in site.modes /\ mode[c] \in site.modes
  /\ lock[c] # None => clients[c] = 0 /\ mode[c] = want[lock[c]]
  /\ afu[c] => /\ loop[c] # "none" \/ lock[c] # None
               /\ c \in site.gzip \cup site.foreign
DeviceState == \A c \in Cards : DeviceOf(c)

\* How many places card c is from the next one of the loop in card_open.
Ahead(h, c) == IF c >= card_next[h] THEN c - card_next[h] ELSE c - card_next[h] + NumCards

\* The loops over the cards: one turn, or one for each card.
LeftOK(h) ==
  pc[h] \in {"inc", "afu_open", "dec"} => left[h] > 0 /\ (kind[h] = "single" => left[h] = 1)

\* What a handle has open.
SingleHolds(h) == kind[h] = "single" =>
  /\ pc[h] \in {"inc", "afu_open"} => holds[h] = {} /\ ctx[h] = card_next[h]
  /\ pc[h] \in {"open", "submit", "queued", "dec"} => ctx[h] # None /\ holds[h] = {ctx[h]}

RedundantHolds(h) == kind[h] = "redundant" =>
  /\ pc[h] \in {"inc", "afu_open"} => \A c \in Cards :
       IF Ahead(h, c) < left[h] THEN c \notin holds[h]
                                ELSE Countable(c) => c \in holds[h]
  /\ pc[h] \in {"open", "submit", "queued"} => \A c \in Cards : Countable(c) => c \in holds[h]
  /\ pc[h] = "dec" => \A c \in Cards :
       IF c < NumCards - left[h] THEN c \notin holds[h]
                                 ELSE Countable(c) => c \in holds[h]
  /\ pc[h] # "closed" /\ holds[h] # {} => ctx[h] # None

HoldsOf(h) ==
  /\ LeftOK(h) /\ SingleHolds(h) /\ RedundantHolds(h)
  /\ pc[h] = "closed" => holds[h] = {}

\* The card a command goes to is served.
Submitted == \A h \in Handles : pc[h] \in {"submit", "queued"} =>
  ctx[h] # None /\ (Orderly => loop[ctx[h]] # "none")

Sharing == ClientsCounted /\ ModeShared /\ ClientsHaveDevice
Holds   == \A h \in Handles : HoldsOf(h)
Devices == OfSite /\ ExitQuiet /\ LockOwned /\ DeviceState

CInv == TypeOK /\ Devices /\ Holds /\ Sharing /\ Submitted /\ QueuedIsServed

-----------------------------------------------------------------------------
(* Helpers                                                                 *)

LEMMA NextCardValue ==
  ASSUME NEW c \in Cards
  PROVE  NextCard(c) \in Cards /\ NextCard(c) = IF c + 1 = NumCards THEN 0 ELSE c + 1
BY CardsAssumption, SMT DEF Cards, NextCard

LEMMA NoneIsNoHandle == \A h \in Handles : h # None
BY HandlesAssumption

LEMMA NoneIsNoCard == (\A c \in Cards : c # None) /\ \A n \in 0..NumCards : n # None
BY HandlesAssumption, CardsAssumption DEF Cards

LEMMA HoldersFinite ==
  ASSUME NEW c
  PROVE  IsFiniteSet(Holders(c)) /\ Cardinality(Holders(c)) \in Nat
<1>1. IsFiniteSet(Holders(c))
  BY HandlesAssumption, FS_Subset DEF Holders
<1>2. QED BY <1>1, FS_CardinalityType

\* A counter of 0 means that nobody has the card open, and any other that somebody has.
LEMMA ZeroClients ==
  ASSUME ClientsCounted, NEW c \in Cards, Countable(c)
  PROVE  clients[c] = 0 <=> \A h \in Handles : c \notin holds[h]
<1>1. clients[c] = Cardinality(Holders(c))
  BY DEF ClientsCounted
<1>2. Cardinality(Holders(c)) = 0 <=> Holders(c) = {}
  BY HoldersFinite, FS_EmptySet
<1>3. QED BY <1>1, <1>2 DEF Holders

-----------------------------------------------------------------------------
(* Initial states                                                          *)

LEMMA InitCInv == Init => CInv
<1> SUFFICES ASSUME Init PROVE CInv
  OBVIOUS
<1> USE CardsAssumption DEF Init
<1>1. TypeOK
  BY SMT DEF TypeOK, Cards
<1>2. OfSite /\ ExitQuiet /\ LockOwned
  BY NoneIsNoHandle DEF OfSite, ExitQuiet, LockOwned
<1>3. DeviceState
  BY DEF DeviceState, DeviceOf
<1>4. Holds
  BY DEF Holds, HoldsOf, LeftOK, SingleHolds, RedundantHolds
<1>5. ClientsCounted
  <2>1. \A c \in Cards : Holders(c) = {}
    BY DEF Holders
  <2>2. QED BY <2>1, FS_EmptySet DEF ClientsCounted
<1>6. ModeShared /\ ClientsHaveDevice /\ Submitted /\ QueuedIsServed
  BY DEF ModeShared, ClientsHaveDevice, Submitted, QueuedIsServed
<1>7. QED BY <1>1, <1>2, <1>3, <1>4, <1>5, <1>6 DEF CInv, Devices, Sharing

-----------------------------------------------------------------------------
(* Types                                                                   *)

\* What card_open does after __client_inc.
LEMMA AfterIncType ==
  ASSUME TypeOK, Holds, NEW h \in Handles, pc[h] \in {"inc", "afu_open"}, NEW good \in BOOLEAN,
         AfterInc(h, card_next[h], good)
  PROVE  /\ pc' \in [Handles -> {"closed", "inc", "afu_open", "open", "dec", "submit", "queued"}]
         /\ kind' = kind /\ want' = want
         /\ ctx' \in [Handles -> Cards \cup {None}]
         /\ card_next' \in [Handles -> Cards]
         /\ left' \in [Handles -> 0..NumCards]
         /\ holds' \in [Handles -> SUBSET Cards]
<1>1. left[h] \in 1..NumCards
  BY CardsAssumption DEF TypeOK, Holds, HoldsOf, LeftOK
<1>2. left' = [left EXCEPT ![h] = left[h] - 1] /\ left[h] - 1 \in 0..NumCards
  BY <1>1, CardsAssumption DEF AfterInc
<1>3. card_next[h] \in Cards /\ NextCard(card_next[h]) \in Cards
  BY NextCardValue DEF TypeOK
<1>4. left' \in [Handles -> 0..NumCards]
  BY <1>2 DEF TypeOK
<1> HIDE DEF NextCard
<1>5. card_next' \in [Handles -> Cards]
  BY <1>3 DEF TypeOK, AfterInc
<1>6. ctx' \in [Handles -> Cards \cup {None}] /\ holds' \in [Handles -> SUBSET Cards]
  BY <1>3 DEF TypeOK, AfterInc
<1>7. pc' \in [Handles -> {"closed", "inc", "afu_open", "open", "dec", "submit", "queued"}]
  BY DEF TypeOK, AfterInc, Returns
<1>8. QED BY <1>4, <1>5, <1>6, <1>7 DEF AfterInc

\* The steps of __client_inc that end it, with their result.
IncEnds(h, good) ==
  /\ AfterInc(h, card_next[h], good)
  /\ clients' = [clients EXCEPT ![card_next[h]] = IF good THEN @ + 1 ELSE @]
  /\ UNCHANGED <<site, exit>>

LEMMA IncType ==
  ASSUME CInv, NEW h \in Handles, Inc(h)
  PROVE  TypeOK'
<1> DEFINE c == card_next[h]
<1>1. c \in Cards /\ want[h] \in {"IRQ", "POLLING", "MASTER"} /\ mode[c] \in {"IRQ", "POLLING", "MASTER"}
  BY DEF CInv, TypeOK
<1>2. ASSUME NEW good \in BOOLEAN, IncEnds(h, good), pc[h] \in {"inc", "afu_open"},
             mode' \in {mode, [mode EXCEPT ![c] = want[h]]},
             lock' \in {lock, [lock EXCEPT ![c] = None]},
             afu' \in [Cards -> BOOLEAN], 
             loop' \in [Cards -> {"none", "IRQ", "POLLING", "MASTER"}]
      PROVE  TypeOK'
  <2>1. /\ pc' \in [Handles -> {"closed", "inc", "afu_open", "open", "dec", "submit", "queued"}]
        /\ kind' = kind /\ want' = want
        /\ ctx' \in [Handles -> Cards \cup {None}]
        /\ card_next' \in [Handles -> Cards]
        /\ left' \in [Handles -> 0..NumCards]
        /\ holds' \in [Handles -> SUBSET Cards]
    BY <1>2, AfterIncType DEF CInv, IncEnds
  <2>2. clients' \in [Cards -> Int]
    BY <1>2 DEF CInv, TypeOK, IncEnds
  <2>3. mode' \in [Cards -> {"IRQ", "POLLING", "MASTER"}] /\ lock' \in [Cards -> Handles \cup {None}]
    BY <1>1, <1>2 DEF CInv, TypeOK
  <2>4. QED BY <1>2, <2>1, <2>2, <2>3 DEF CInv, TypeOK, IncEnds
<1>3. CASE IncOther(h)
  <2>1. IncEnds(h, Joins(h, c)) /\ Joins(h, c) \in BOOLEAN
    BY <1>3 DEF Inc, IncOther, IncEnds, Counted, Joins, CInv, TypeOK
  <2>2. UNCHANGED <<mode, lock, afu, loop>> /\ pc[h] = "inc"
    BY <1>3 DEF IncOther
  <2>3. QED BY <1>2, <2>1, <2>2 DEF CInv, TypeOK
<1>4. CASE IncReopen(h)
  <2>1. IncEnds(h, TRUE) /\ mode' = [mode EXCEPT ![c] = want[h]]
    BY <1>4 DEF Inc, IncReopen, IncEnds, Counted
  <2>2. UNCHANGED <<lock, afu, loop>> /\ pc[h] = "inc"
    BY <1>4 DEF IncReopen
  <2>3. QED BY <1>2, <2>1, <2>2 DEF CInv, TypeOK
<1>5. CASE IncFails(h)
  <2>1. IncEnds(h, FALSE) /\ mode' = [mode EXCEPT ![c] = want[h]]
    BY <1>5 DEF Inc, IncFails, IncEnds, Counted, CInv, TypeOK
  <2>2. UNCHANGED <<lock, afu, loop>> /\ pc[h] = "inc"
    BY <1>5 DEF IncFails
  <2>3. QED BY <1>2, <2>1, <2>2 DEF CInv, TypeOK
<1>6. CASE IncOpenDev(h)
  BY <1>1, <1>6 DEF Inc, IncOpenDev, CInv, TypeOK
<1>7. CASE IncFinish(h)
  <2> DEFINE good == c \in site.gzip
  <2>1. IncEnds(h, good) /\ pc[h] = "afu_open"
    BY <1>7 DEF Inc, IncFinish, IncEnds, Counted, CInv, TypeOK
  <2>2. mode' = mode /\ lock' = [lock EXCEPT ![c] = None]
    BY <1>7 DEF IncFinish, Unlocked
  <2>3. afu' \in [Cards -> BOOLEAN] /\ loop' \in [Cards -> {"none", "IRQ", "POLLING", "MASTER"}]
    BY <1>1, <1>7 DEF IncFinish, CInv, TypeOK
  <2> HIDE DEF good
  <2>4. good \in BOOLEAN BY DEF good
  <2>5. QED BY <1>2, <2>1, <2>2, <2>3, <2>4
<1>8. QED BY <1>3, <1>4, <1>5, <1>6, <1>7 DEF Inc

\* The card that ddcb_execute stops at, of those with afu_h # NULL if there are any.
LEMMA SelectUsable ==
  ASSUME TypeOK, NEW h \in Handles
  PROVE  /\ Select(h) \in Cards
         /\ (\E c \in Cards : afu[c]) => afu[Select(h)]
<1> DEFINE after(k) == (card_next[h] + k) % NumCards
           hits == {k \in 1..NumCards : Usable(after(k))}
<1>1. card_next[h] \in Cards
  BY DEF TypeOK
<1>2. \A k \in 1..NumCards : after(k) \in Cards
  BY <1>1, CardsAssumption, SMT DEF Cards
<1>3. CASE hits = {}
  <2>1. Select(h) = card_next[h]
    BY <1>3, Zenon DEF Select
  <2>2. ASSUME NEW c \in Cards, afu[c] PROVE FALSE
    <3> DEFINE k == IF c > card_next[h] THEN c - card_next[h] ELSE c - card_next[h] + NumCards
    <3>1. k \in 1..NumCards /\ after(k) = c
      BY <1>1, CardsAssumption, SMT DEF Cards
    <3>2. k \in hits
      BY <2>2, <3>1 DEF Usable
    <3>3. QED BY <1>3, <3>2
  <2>3. QED BY <1>1, <2>1, <2>2
<1>4. CASE hits # {}
  <2> DEFINE first == CHOOSE k \in hits : \A j \in hits : k <= j
  <2>1. Select(h) = after(first)
    BY <1>4, Zenon DEF Select
  <2>2. hits \subseteq Nat
    BY CardsAssumption
  <2>3. PICK k \in hits : \A j \in hits : ~(<<j, k>> \in OpToRel(<, Nat))
    BY <1>4, <2>2, WFMin, NatLessThanWellFounded, Zenon
  <2>4. \A j \in hits : k <= j
    <3> TAKE j \in hits
    <3>1. j \in Nat /\ k \in Nat
      BY <2>2
    <3>2. ~(j < k)
      BY <2>3, <3>1, Zenon DEF OpToRel
    <3> HIDE DEF hits
    <3>3. QED BY <3>1, <3>2
  <2>5. first \in hits
    BY <2>4, Zenon
  <2>6. QED BY <1>2, <2>1, <2>5 DEF Usable
<1>5. QED BY <1>3, <1>4

-----------------------------------------------------------------------------
(* Who holds what                                                          *)

\* One more handle has card c open, or one less.
LEMMA CountUp ==
  ASSUME TypeOK, NEW h \in Handles, NEW c \in Cards, c \notin holds[h],
         holds' = [holds EXCEPT ![h] = @ \cup {c}]
  PROVE  /\ Cardinality(Holders(c)') = Cardinality(Holders(c)) + 1
         /\ \A d \in Cards \ {c} : Holders(d)' = Holders(d)
<1>1. Holders(c)' = Holders(c) \cup {h} /\ h \notin Holders(c)
  BY DEF TypeOK, Holders
<1>2. \A d \in Cards \ {c} : Holders(d)' = Holders(d)
  BY DEF TypeOK, Holders
<1>3. QED BY <1>1, <1>2, HoldersFinite, FS_AddElement

LEMMA CountDown ==
  ASSUME TypeOK, NEW h \in Handles, NEW c \in Cards, c \in holds[h],
         holds' = [holds EXCEPT ![h] = @ \ {c}]
  PROVE  /\ Cardinality(Holders(c)') = Cardinality(Holders(c)) - 1
         /\ \A d \in Cards \ {c} : Holders(d)' = Holders(d)
<1>1. Holders(c)' = Holders(c) \ {h} /\ h \in Holders(c)
  BY DEF TypeOK, Holders
<1>2. \A d \in Cards \ {c} : Holders(d)' = Holders(d)
  BY DEF TypeOK, Holders
<1>3. QED BY <1>1, <1>2, HoldersFinite, FS_RemoveElement

\* The fields of all handles but h.
OthersKept(h) == \A g \in Handles \ {h} :
  /\ pc'[g] = pc[g] /\ kind'[g] = kind[g] /\ want'[g] = want[g] /\ ctx'[g] = ctx[g]
  /\ card_next'[g] = card_next[g] /\ left'[g] = left[g] /\ holds'[g] = holds[g]

LEMMA HoldsKept ==
  ASSUME Holds, NEW h \in Handles, OthersKept(h), UNCHANGED site, HoldsOf(h)'
  PROVE  Holds'
<1>1. ASSUME NEW g \in Handles \ {h} PROVE HoldsOf(g)'
  <2>1. HoldsOf(g)
    BY DEF Holds
  <2>2. \A c \in Cards : Ahead(g, c)' = Ahead(g, c) /\ Countable(c)' = Countable(c)
    BY DEF OthersKept, Ahead, Countable, Uniform
  <2>3. QED BY <2>1, <2>2 DEF OthersKept, HoldsOf, LeftOK, SingleHolds, RedundantHolds
<1>2. \A g \in Handles : HoldsOf(g)'
  BY <1>1
<1>3. QED BY <1>2 DEF Holds

\* card_open, one card further.
LEMMA IncEndsHolds ==
  ASSUME CInv, NEW h \in Handles, NEW good \in BOOLEAN, IncEnds(h, good),
         pc[h] \in {"inc", "afu_open"},
         kind[h] = "redundant" /\ Countable(card_next[h]) => good
  PROVE  Holds' /\ card_next[h] \notin holds[h]
<1> PICK c \in Cards : c = card_next[h]
  BY DEF CInv, TypeOK
<1>1. HoldsOf(h) /\ kind[h] = site.kind
  BY DEF CInv, Holds, Devices, OfSite
<1>2. left[h] \in 1..NumCards /\ card_next[h] \in Cards
  BY <1>1, CardsAssumption DEF HoldsOf, LeftOK, SingleHolds, RedundantHolds, CInv, TypeOK
<1>3. kind[h] \in {"single", "redundant"}
  BY DEF CInv, TypeOK
<1>4. /\ holds'[h] = IF good THEN holds[h] \cup {c} ELSE holds[h]
      /\ ctx'[h] = IF good THEN c ELSE IF kind[h] = "single" THEN None ELSE ctx[h]
      /\ card_next'[h] = IF kind[h] = "single" THEN c ELSE NextCard(c)
      /\ left'[h] = left[h] - 1
      /\ pc'[h] = IF left[h] > 1 THEN "inc" ELSE Returns(h, good)
      /\ kind'[h] = kind[h]
  BY DEF IncEnds, AfterInc, CInv, TypeOK
<1>5. OthersKept(h) /\ UNCHANGED site
  BY DEF IncEnds, AfterInc, CInv, TypeOK, OthersKept
<1>6. \A d \in Cards : Countable(d)' = Countable(d)
  BY <1>5 DEF Countable, Uniform
<1>7. c \notin holds[h]
  <2>1. Ahead(h, c) = 0
    BY CardsAssumption DEF Ahead, Cards
  <2>2. QED BY <1>1, <1>2, <1>3, <2>1 DEF HoldsOf, LeftOK, SingleHolds, RedundantHolds
<1>8. CASE kind[h] = "single"
  <2>1. pc'[h] = (IF good THEN "open" ELSE "closed") /\ holds[h] = {}
    BY <1>1, <1>2, <1>4, <1>8 DEF HoldsOf, LeftOK, SingleHolds, RedundantHolds, Returns
  <2>2. HoldsOf(h)'
    BY <1>4, <1>8, <2>1, NoneIsNoCard DEF HoldsOf, LeftOK, SingleHolds, RedundantHolds
  <2>3. QED BY <1>5, <1>7, <2>2, HoldsKept DEF CInv
<1>9. CASE kind[h] = "redundant"
  <2>1. \A d \in Cards : Ahead(h, d)' = IF d = c THEN NumCards - 1 ELSE Ahead(h, d) - 1
    BY <1>4, <1>9, NextCardValue, CardsAssumption DEF Ahead, Cards
  <2>2. \A d \in Cards : Ahead(h, d) \in 0..NumCards-1 /\ (Ahead(h, d) = 0 <=> d = c)
    BY CardsAssumption DEF Ahead, Cards
  <2>3. Countable(c) => c \in holds'[h]
    BY <1>4, <1>9
  <2>4. pc'[h] \in {"inc", "open"} /\ (pc'[h] = "open" => left[h] = 1)
    BY <1>2, <1>4, <1>9 DEF Returns
  <2>5. \A d \in Cards \ {c} : d \in holds'[h] <=> d \in holds[h]
    BY <1>4
  <2>6. \A d \in Cards : IF Ahead(h, d) < left[h] THEN d \notin holds[h]
                          ELSE Countable(d) => d \in holds[h]
    BY <1>1, <1>9 DEF HoldsOf, LeftOK, SingleHolds, RedundantHolds
  <2>7. \A d \in Cards : IF Ahead(h, d)' < left'[h] THEN d \notin holds'[h]
                          ELSE Countable(d) => d \in holds'[h]
    <3> TAKE d \in Cards
    <3>1. CASE d = c
      BY <1>2, <1>4, <2>1, <2>3, <3>1, CardsAssumption
    <3>2. CASE d # c
      <4>1. Ahead(h, d)' < left'[h] <=> Ahead(h, d) < left[h]
        BY <1>2, <1>4, <2>1, <2>2, <3>2, CardsAssumption
      <4>2. QED BY <2>5, <2>6, <3>2, <4>1
    <3>3. QED BY <3>1, <3>2
  <2>8. left[h] = 1 => \A d \in Cards : Countable(d) => d \in holds'[h]
    BY <2>2, <2>3, <2>5, <2>6, CardsAssumption
  <2>9. pc'[h] = "inc" => left'[h] > 0
    BY <1>2, <1>4, <2>4, <1>9 DEF Returns
  <2>10. holds'[h] # {} => ctx'[h] # None
    BY <1>1, <1>4, <1>9, NoneIsNoCard DEF HoldsOf, LeftOK, SingleHolds, RedundantHolds
  <2>11. HoldsOf(h)'
    BY <1>4, <1>6, <1>9, <2>4, <2>7, <2>8, <2>9, <2>10 DEF HoldsOf, LeftOK, SingleHolds, RedundantHolds
  <2>12. QED BY <1>5, <1>7, <2>11, HoldsKept DEF CInv
<1>10. QED BY <1>3, <1>8, <1>9

-----------------------------------------------------------------------------
(* __client_inc                                                            *)

\* While a call is under way the process does not end.
LEMMA CallsWhileRunning ==
  ASSUME CInv, NEW h \in Handles, pc[h] \notin {"open", "closed"}
  PROVE  exit = None /\ kind[h] = site.kind /\ want[h] \in site.modes
BY DEF CInv, Devices, ExitQuiet, OfSite

LEMMA IncRuns ==
  ASSUME CInv, NEW h \in Handles, Inc(h)
  PROVE  /\ pc[h] \in {"inc", "afu_open"}
         /\ exit = None /\ kind[h] = site.kind /\ want[h] \in site.modes
         /\ UNCHANGED <<site, exit>>
<1>1. pc[h] \in {"inc", "afu_open"} /\ UNCHANGED <<site, exit>>
  BY DEF Inc, IncOther, IncReopen, IncFails, IncOpenDev, IncFinish
<1>2. QED BY <1>1, CallsWhileRunning

\* A card with clients is open, in a mode of its site.
LEMMA CountedIsOpen ==
  ASSUME CInv, NEW c \in Cards, Countable(c), clients[c] # 0, exit = None
  PROVE  afu[c] /\ loop[c] # "none" /\ mode[c] \in site.modes
<1>1. PICK g \in Handles : c \in holds[g]
  BY ZeroClients DEF CInv, Sharing
<1>2. QED BY <1>1 DEF CInv, Sharing, ClientsHaveDevice, Devices, DeviceState, DeviceOf

\* The lock is held by a first client only.
LEMMA OpeningCard ==
  ASSUME CInv, NEW h \in Handles, pc[h] = "afu_open"
  PROVE  /\ lock[card_next[h]] = h /\ clients[card_next[h]] = 0
         /\ mode[card_next[h]] = want[h] /\ loop[card_next[h]] = "none"
<1>1. card_next[h] \in Cards
  BY DEF CInv, TypeOK
<1>2. lock[card_next[h]] = h /\ h # None
  BY <1>1, NoneIsNoHandle DEF CInv, Devices, LockOwned
<1>3. QED BY <1>1, <1>2 DEF CInv, Devices, DeviceState, DeviceOf

\* What __client_inc leaves on its card when it returns good or not, if it returns.
IncDone(h, c, good) ==
  /\ IncEnds(h, good)
  /\ good => mode'[c] = want[h]
  /\ Countable(c) => (good => afu'[c] /\ loop'[c] # "none") /\ (kind[h] = "redundant" => good)
  /\ clients[c] # 0 => mode'[c] = mode[c] /\ afu'[c] = afu[c] /\ loop'[c] = loop[c]
  /\ lock'[c] = None

LEMMA IncSteps ==
  ASSUME CInv, NEW h \in Handles, Inc(h), NEW c \in Cards, c = card_next[h]
  PROVE  /\ IncOpenDev(h) \/ \E good \in BOOLEAN : IncDone(h, c, good)
         /\ \A d \in Cards \ {c} : /\ mode'[d] = mode[d] /\ lock'[d] = lock[d]
                                   /\ afu'[d] = afu[d] /\ loop'[d] = loop[d]
<1>1. exit = None /\ kind[h] = site.kind /\ want[h] \in site.modes /\ UNCHANGED <<site, exit>>
  BY IncRuns
<1>2. CASE IncOther(h)
  <2>1. IncEnds(h, Joins(h, c)) /\ Joins(h, c) \in BOOLEAN
    BY <1>1, <1>2 DEF IncOther, IncEnds, Counted, Joins, CInv, TypeOK
  <2>2. UNCHANGED <<mode, lock, afu, loop>> /\ clients[c] # 0 /\ lock[c] = None
    BY <1>2 DEF IncOther
  <2>3. Countable(c) => afu[c] /\ loop[c] # "none" /\ mode[c] \in site.modes
    BY <1>1, <2>2, CountedIsOpen
  <2>4. Countable(c) /\ kind[h] = "redundant" => Joins(h, c)
    BY <1>1, <2>2, <2>3 DEF Countable, Uniform, Joins
  <2>5. IncDone(h, c, Joins(h, c))
    BY <2>1, <2>2, <2>3, <2>4 DEF IncDone, Joins
  <2>6. QED BY <2>1, <2>2, <2>5
<1>3. CASE IncReopen(h)
  <2>1. IncEnds(h, TRUE) /\ mode' = [mode EXCEPT ![c] = want[h]]
    BY <1>1, <1>3 DEF IncReopen, IncEnds, Counted
  <2>2. UNCHANGED <<lock, afu, loop>> /\ clients[c] = 0 /\ lock[c] = None /\ loop[c] # "none"
    BY <1>3 DEF IncReopen, NeedsOpen
  <2>3. afu[c]
    BY <2>2 DEF CInv, Devices, DeviceState, DeviceOf
  <2>4. IncDone(h, c, TRUE)
    BY <2>1, <2>2, <2>3 DEF IncDone, CInv, TypeOK
  <2>5. QED BY <2>1, <2>2, <2>4 DEF CInv, TypeOK
<1>4. CASE IncFails(h)
  <2>1. IncEnds(h, FALSE) /\ mode' = [mode EXCEPT ![c] = want[h]]
    BY <1>1, <1>4 DEF IncFails, IncEnds, Counted, CInv, TypeOK
  <2>2. UNCHANGED <<lock, afu, loop>> /\ clients[c] = 0 /\ lock[c] = None /\ c \notin site.gzip
    BY <1>4 DEF IncFails
  <2>3. Countable(c) => kind[h] # "redundant"
    BY <1>1, <2>2 DEF Countable
  <2>4. IncDone(h, c, FALSE)
    BY <2>1, <2>2, <2>3 DEF IncDone
  <2>5. QED BY <2>1, <2>2, <2>4 DEF CInv, TypeOK
<1>5. CASE IncOpenDev(h)
  BY <1>5 DEF IncOpenDev, CInv, TypeOK
<1>6. CASE IncFinish(h)
  <2> DEFINE good == c \in site.gzip
  <2>1. IncEnds(h, good) /\ pc[h] = "afu_open" /\ UNCHANGED mode
    BY <1>1, <1>6 DEF IncFinish, IncEnds, Counted, CInv, TypeOK
  <2>2. /\ afu' = [afu EXCEPT ![c] = good] /\ lock' = [lock EXCEPT ![c] = None]
        /\ loop' = [loop EXCEPT ![c] = IF good THEN mode[c] ELSE "none"]
    BY <1>6 DEF IncFinish, Unlocked
  <2>3. clients[c] = 0 /\ mode[c] = want[h] /\ mode[c] # "none"
    BY <2>1, OpeningCard DEF CInv, TypeOK
  <2>4. Countable(c) /\ kind[h] = "redundant" => good
    BY <1>1 DEF Countable
  <2> HIDE DEF good
  <2>5. afu'[c] = good /\ lock'[c] = None /\ (good => loop'[c] # "none")
    BY <2>2, <2>3 DEF CInv, TypeOK
  <2>6. IncDone(h, c, good)
    BY <2>1, <2>3, <2>4, <2>5 DEF IncDone
  <2>7. good \in BOOLEAN BY DEF good
  <2>8. QED BY <2>1, <2>2, <2>6, <2>7 DEF CInv, TypeOK
<1>7. QED BY <1>2, <1>3, <1>4, <1>5, <1>6 DEF Inc

LEMMA IncHolds ==
  ASSUME CInv, NEW h \in Handles, Inc(h)
  PROVE  Holds'
<1> PICK c \in Cards : c = card_next[h]
  BY DEF CInv, TypeOK
<1>1. pc[h] \in {"inc", "afu_open"} /\ UNCHANGED site
  BY IncRuns
<1>2. CASE IncOpenDev(h)
  <2>1. OthersKept(h)
    BY <1>2 DEF IncOpenDev, OthersKept, CInv, TypeOK
  <2>2. \A d \in Cards : Ahead(h, d)' = Ahead(h, d) /\ Countable(d)' = Countable(d)
    BY <1>1, <1>2 DEF IncOpenDev, Ahead, Countable, Uniform
  <2>3. HoldsOf(h)
    BY DEF CInv, Holds
  <2>4. pc'[h] = "afu_open" /\ pc[h] = "inc"
    BY <1>2 DEF IncOpenDev, CInv, TypeOK
  <2>5. HoldsOf(h)'
    BY <1>2, <2>2, <2>3, <2>4 DEF IncOpenDev, HoldsOf, LeftOK, SingleHolds, RedundantHolds
  <2>6. QED BY <1>1, <2>1, <2>5, HoldsKept DEF CInv
<1>3. ASSUME NEW good \in BOOLEAN, IncDone(h, c, good) PROVE Holds'
  BY <1>1, <1>3, IncEndsHolds DEF IncDone
<1>4. QED BY <1>2, <1>3, IncSteps

LEMMA IncSharing ==
  ASSUME CInv, NEW h \in Handles, Inc(h)
  PROVE  Sharing'
<1> PICK c \in Cards : c = card_next[h]
  BY DEF CInv, TypeOK
<1>1. /\ pc[h] \in {"inc", "afu_open"} /\ exit = None /\ kind[h] = site.kind
      /\ UNCHANGED <<site, exit>>
  BY IncRuns
<1>2. \A d \in Cards : Countable(d)' = Countable(d)
  BY <1>1 DEF Countable, Uniform
<1>3. \A d \in Cards \ {c} : mode'[d] = mode[d] /\ afu'[d] = afu[d] /\ loop'[d] = loop[d]
  BY IncSteps
<1>4. Countable(c) /\ clients[c] = 0 => \A g \in Handles : c \notin holds[g]
  BY ZeroClients DEF CInv, Sharing
<1>5. CASE IncOpenDev(h)
  <2>1. UNCHANGED <<clients, want, holds>> /\ clients[c] = 0
    BY <1>5 DEF IncOpenDev
  <2>2. ClientsCounted'
    BY <1>2, <2>1 DEF CInv, Sharing, ClientsCounted, Holders
  <2>3. ModeShared'
    BY <1>2, <1>3, <1>4, <2>1 DEF CInv, TypeOK, Sharing, ModeShared
  <2>4. ClientsHaveDevice'
    BY <1>1, <1>2, <1>3, <1>4, <2>1 DEF CInv, TypeOK, Sharing, ClientsHaveDevice
  <2>5. QED BY <2>2, <2>3, <2>4 DEF Sharing
<1>6. ASSUME NEW good \in BOOLEAN, IncDone(h, c, good) PROVE Sharing'
  <2>1. c \notin holds[h]
    BY <1>1, <1>6, IncEndsHolds DEF IncDone
  <2>2. /\ clients' = [clients EXCEPT ![c] = IF good THEN @ + 1 ELSE @]
        /\ holds' = [holds EXCEPT ![h] = IF good THEN @ \cup {c} ELSE @]
        /\ UNCHANGED want
    BY <1>6 DEF IncDone, IncEnds, AfterInc
  <2>3. ClientsCounted'
    <3>1. CASE good
      <4>1. /\ Cardinality(Holders(c)') = Cardinality(Holders(c)) + 1
            /\ \A d \in Cards \ {c} : Holders(d)' = Holders(d)
        BY <2>1, <2>2, <3>1, CountUp DEF CInv
      <4>2. /\ clients'[c] = clients[c] + 1
            /\ \A d \in Cards \ {c} : clients'[d] = clients[d]
        BY <2>2, <3>1 DEF CInv, TypeOK
      <4>3. QED BY <1>2, <4>1, <4>2 DEF CInv, Sharing, ClientsCounted
    <3>2. CASE ~good
      <4>1. \A d \in Cards : clients'[d] = clients[d] /\ Holders(d)' = Holders(d)
        BY <2>2, <3>2 DEF CInv, TypeOK, Holders
      <4>2. QED BY <1>2, <4>1 DEF CInv, Sharing, ClientsCounted
    <3>3. QED BY <3>1, <3>2
  <2>4. ASSUME NEW g \in Handles, NEW d \in holds'[g], Countable(d), d \in Cards
        PROVE  mode'[d] = want[g] /\ afu'[d] /\ loop'[d] # "none"
    <3>1. CASE d \in holds[g]
      <4>1. mode[d] = want[g] /\ afu[d] /\ loop[d] # "none"
        BY <1>1, <2>4, <3>1 DEF CInv, Sharing, ModeShared, ClientsHaveDevice
      <4>2. d = c => clients[c] # 0
        BY <1>4, <2>4, <3>1
      <4>3. QED BY <1>3, <1>6, <2>4, <4>1, <4>2 DEF IncDone
    <3>2. CASE d \notin holds[g]
      <4>1. g = h /\ d = c /\ good
        BY <2>2, <2>4, <3>2 DEF CInv, TypeOK
      <4>2. QED BY <1>6, <2>4, <4>1 DEF IncDone
    <3>3. QED BY <3>1, <3>2
  <2>5. \A g \in Handles : holds'[g] \subseteq Cards
    BY <2>2 DEF CInv, TypeOK
  <2>6. ModeShared' /\ ClientsHaveDevice'
    BY <1>2, <2>2, <2>4, <2>5 DEF ModeShared, ClientsHaveDevice
  <2>7. QED BY <2>3, <2>6 DEF Sharing
<1>7. QED BY <1>5, <1>6, IncSteps

LEMMA IncDevices ==
  ASSUME CInv, NEW h \in Handles, Inc(h)
  PROVE  Devices'
<1> PICK c \in Cards : c = card_next[h]
  BY DEF CInv, TypeOK
<1>1. /\ pc[h] \in {"inc", "afu_open"} /\ exit = None /\ kind[h] = site.kind
      /\ want[h] \in site.modes /\ UNCHANGED <<site, exit>>
  BY IncRuns
<1>2. /\ UNCHANGED <<kind, want>>
      /\ \A g \in Handles \ {h} : pc'[g] = pc[g] /\ card_next'[g] = card_next[g]
  <2>1. CASE IncOpenDev(h)
    BY <2>1 DEF IncOpenDev, CInv, TypeOK
  <2>2. ASSUME NEW good \in BOOLEAN, AfterInc(h, c, good)
        PROVE  /\ UNCHANGED <<kind, want>>
               /\ \A g \in Handles \ {h} : pc'[g] = pc[g] /\ card_next'[g] = card_next[g]
    BY <2>2 DEF AfterInc, CInv, TypeOK
  <2>3. QED BY <2>1, <2>2, IncSteps DEF IncDone, IncEnds
<1>3. \A d \in Cards \ {c} : /\ mode'[d] = mode[d] /\ lock'[d] = lock[d]
                             /\ afu'[d] = afu[d] /\ loop'[d] = loop[d] /\ clients'[d] = clients[d]
  BY IncSteps DEF IncDone, IncEnds, IncOpenDev, CInv, TypeOK
<1>4. OfSite' /\ ExitQuiet'
  BY <1>1, <1>2 DEF CInv, Devices, OfSite, ExitQuiet
<1>5. h # None /\ lock[c] \in {None, h}
  <2>1. CASE pc[h] = "inc"
    BY <2>1, NoneIsNoHandle DEF Inc, IncOther, IncReopen, IncFails, IncOpenDev, IncFinish
  <2>2. CASE pc[h] = "afu_open"
    BY <2>2, OpeningCard, NoneIsNoHandle
  <2>3. QED BY <1>1, <2>1, <2>2
<1>6. CASE IncOpenDev(h)
  <2>1. /\ pc'[h] = "afu_open" /\ lock'[c] = h /\ card_next' = card_next
        /\ afu'[c] /\ clients'[c] = 0 /\ loop'[c] = "none"
        /\ mode'[c] = want'[h] /\ c \in site.gzip \cup site.foreign
        /\ pc[h] = "inc" /\ lock[c] = None
    BY <1>6 DEF IncOpenDev, NeedsOpen, CInv, TypeOK
  <2>2. LockOwned'
    BY <1>2, <1>3, <1>5, <2>1, NoneIsNoHandle DEF CInv, Devices, LockOwned
  <2>3. DeviceState'
    BY <1>1, <1>2, <1>3, <1>5, <2>1 DEF CInv, Devices, DeviceState, DeviceOf
  <2>4. QED BY <1>4, <2>2, <2>3 DEF Devices
<1>7. ASSUME NEW good \in BOOLEAN, IncDone(h, c, good) PROVE Devices'
  <2>1. pc'[h] # "afu_open" /\ lock'[c] = None
    BY <1>7 DEF IncDone, IncEnds, AfterInc, Returns, CInv, TypeOK
  <2>2. LockOwned'
    BY <1>2, <1>3, <1>5, <2>1, NoneIsNoHandle DEF CInv, Devices, LockOwned
  <2>3. afu'[c] <=> loop'[c] # "none"
    <3>1. CASE IncFinish(h)
      <4>1. mode[c] # "none"
        BY DEF CInv, TypeOK
      <4>2. QED BY <3>1, <4>1 DEF IncFinish, CInv, TypeOK
    <3>2. CASE ~IncFinish(h) /\ ~IncOpenDev(h)
      BY <3>2, NoneIsNoHandle DEF Inc, IncOther, IncReopen, IncFails, CInv, Devices, DeviceState, DeviceOf
    <3>3. CASE IncOpenDev(h)
      BY <2>1, <3>3 DEF IncOpenDev, CInv, TypeOK
    <3>4. QED BY <3>1, <3>2, <3>3
  <2>4. loop'[c] # "none" => c \in site.gzip /\ loop'[c] \in site.modes /\ mode'[c] \in site.modes
    <3>1. loop[c] # "none" => c \in site.gzip /\ loop[c] \in site.modes /\ mode[c] \in site.modes
      BY DEF CInv, Devices, DeviceState, DeviceOf
    <3>2. CASE IncFinish(h)
      <4>1. mode[c] = want[h]
        BY <3>2, OpeningCard DEF IncFinish
      <4>2. QED BY <1>1, <3>2, <4>1 DEF IncFinish, CInv, TypeOK
    <3>3. CASE ~IncFinish(h)
      <4>1. loop' = loop /\ mode' \in {mode, [mode EXCEPT ![c] = want[h]]}
        BY <3>3 DEF Inc, IncOther, IncReopen, IncFails, IncOpenDev
      <4>2. QED BY <1>1, <3>1, <4>1 DEF CInv, TypeOK
    <3>4. QED BY <3>2, <3>3
  <2>5. DeviceState'
    <3>1. \A d \in Cards \ {c} : DeviceOf(d)'
      BY <1>1, <1>2, <1>3 DEF CInv, Devices, DeviceState, DeviceOf
    <3>2. (c \in site.gzip \cup site.foreign /\ UNCHANGED site) \/ ~afu'[c]
      BY <1>1, <2>3, <2>4
    <3>3. QED BY <1>1, <2>1, <2>3, <2>4, <3>1, <3>2 DEF DeviceState, DeviceOf
  <2>6. QED BY <1>4, <2>2, <2>5 DEF Devices
<1>8. QED BY <1>6, <1>7, IncSteps

LEMMA IncServed ==
  ASSUME CInv, NEW h \in Handles, Inc(h)
  PROVE  Submitted' /\ QueuedIsServed'
<1> PICK c \in Cards : c = card_next[h]
  BY DEF CInv, TypeOK
<1>1. pc[h] \in {"inc", "afu_open"} /\ UNCHANGED site
  BY IncRuns
<1>2. (Orderly' <=> Orderly) /\ (MastersApart' <=> MastersApart)
  BY <1>1 DEF Orderly, MastersApart, Uniform
<1>3. \A d \in Cards : loop[d] # "none" => loop'[d] = loop[d]
  <2>1. CASE IncFinish(h)
    <3>1. loop[c] = "none"
      BY <2>1, OpeningCard DEF IncFinish
    <3>2. QED BY <2>1, <3>1 DEF IncFinish, CInv, TypeOK
  <2>2. CASE ~IncFinish(h)
    BY <2>2 DEF Inc, IncOther, IncReopen, IncFails, IncOpenDev
  <2>3. QED BY <2>1, <2>2
<1>4. /\ pc'[h] \notin {"submit", "queued"}
      /\ \A g \in Handles \ {h} : pc'[g] = pc[g] /\ ctx'[g] = ctx[g]
  <2>1. CASE IncOpenDev(h)
    BY <2>1 DEF IncOpenDev, CInv, TypeOK
  <2>2. ASSUME NEW good \in BOOLEAN, AfterInc(h, c, good)
        PROVE  /\ pc'[h] \notin {"submit", "queued"}
               /\ \A g \in Handles \ {h} : pc'[g] = pc[g] /\ ctx'[g] = ctx[g]
    BY <2>2 DEF AfterInc, Returns, CInv, TypeOK
  <2>3. QED BY <2>1, <2>2, IncSteps DEF IncDone, IncEnds
<1>5. ASSUME NEW g \in Handles, pc'[g] \in {"submit", "queued"}
      PROVE  /\ ctx'[g] # None /\ (Orderly => loop'[ctx'[g]] # "none")
             /\ pc'[g] = "queued" /\ Orderly /\ MastersApart => loop'[ctx'[g]] \in {"IRQ", "POLLING"}
  <2>1. g # h /\ pc[g] = pc'[g] /\ ctx'[g] = ctx[g]
    BY <1>4, <1>5
  <2>2. ctx[g] \in Cards
    BY <1>5, <2>1 DEF CInv, TypeOK, Submitted
  <2>3. QED BY <1>3, <1>5, <2>1, <2>2 DEF CInv, Submitted, QueuedIsServed
<1>6. QED BY <1>2, <1>5 DEF Submitted, QueuedIsServed

-----------------------------------------------------------------------------
(* The calls                                                               *)

\* The card that __client_dec works on.
DecCard(h) == IF kind[h] = "single" THEN ctx[h] ELSE NumCards - left[h]

LEMMA DecCardHeld ==
  ASSUME CInv, NEW h \in Handles, pc[h] = "dec"
  PROVE  /\ DecCard(h) \in Cards /\ left[h] \in 1..NumCards
         /\ Countable(DecCard(h)) => DecCard(h) \in holds[h]
<1>1. HoldsOf(h) /\ kind[h] \in {"single", "redundant"} /\ left[h] \in 0..NumCards
  BY DEF CInv, TypeOK, Holds
<1>2. left[h] \in 1..NumCards
  BY <1>1, CardsAssumption DEF HoldsOf, LeftOK
<1>3. CASE kind[h] = "single"
  BY <1>1, <1>2, <1>3 DEF DecCard, HoldsOf, SingleHolds, CInv, TypeOK
<1>4. CASE kind[h] = "redundant"
  <2>1. DecCard(h) = NumCards - left[h] /\ DecCard(h) \in Cards
    BY <1>2, <1>4, CardsAssumption DEF DecCard, Cards
  <2>2. ~(DecCard(h) < NumCards - left[h])
    BY <1>2, <2>1, CardsAssumption
  <2>3. QED BY <1>1, <1>2, <1>4, <2>1, <2>2 DEF HoldsOf, RedundantHolds
<1>5. QED BY <1>1, <1>3, <1>4

LEMMA CallType ==
  ASSUME CInv, NEW h \in Handles, Call(h)
  PROVE  TypeOK'
<1> USE DEF CInv, TypeOK
<1>1. ASSUME NEW c \in Cards, NEW m \in site.modes, Open(h, c, m) PROVE TypeOK'
  <2>1. site.kind \in {"single", "redundant"} /\ m \in {"IRQ", "POLLING", "MASTER"}
    BY SitesAssumption
  <2>2. 1 \in 0..NumCards /\ NumCards \in 0..NumCards
    BY CardsAssumption
  <2>3. QED BY <1>1, <2>1, <2>2 DEF Call, Open, ctxVars
<1>2. CASE Close(h)
  <2>1. 1 \in 0..NumCards /\ NumCards \in 0..NumCards
    BY CardsAssumption
  <2>2. QED BY <1>2, <2>1 DEF Call, Close, ctxVars
<1>3. CASE Dec(h)
  <2>1. pc[h] = "dec"
    BY <1>3 DEF Dec
  <2>2. left[h] \in 1..NumCards
    BY <2>1, DecCardHeld
  <2>3. left[h] - 1 \in 0..NumCards
    BY <2>2, CardsAssumption
  <2>4. left' \in [Handles -> 0..NumCards]
    BY <1>3, <2>3 DEF Dec
  <2>5. clients' \in [Cards -> Int] /\ holds' \in [Handles -> SUBSET Cards]
    <3>1. DecCard(h) \in Cards
      BY <2>1, DecCardHeld
    <3>2. clients' = [clients EXCEPT ![DecCard(h)] = @ - 1] /\ holds' = [holds EXCEPT ![h] = @ \ {DecCard(h)}]
      BY <1>3 DEF Dec, DecCount, DecCard
    <3>3. QED BY <3>1, <3>2
  <2>6. QED BY <1>3, <2>4, <2>5 DEF Call, Dec
<1>4. CASE Execute(h)
  <2>1. Select(h) \in Cards
    BY SelectUsable
  <2>2. QED BY <1>4, <2>1 DEF Call, Execute, ctxVars
<1>5. CASE Refuse(h) \/ Submit(h) \/ Serve(h)
  BY <1>5 DEF Call, Refuse, Submit, Serve, ctxVars
<1>6. QED BY <1>1, <1>2, <1>3, <1>4, <1>5 DEF Call

\* The calls change fields of one handle only, and on the way to a command no holds.
LEMMA CallFrame ==
  ASSUME CInv, NEW h \in Handles, Call(h)
  PROVE  /\ OthersKept(h) /\ exit = None
         /\ UNCHANGED <<site, exit, mode, lock, afu, loop>>
         /\ ~Dec(h) => UNCHANGED <<clients, holds>>
         /\ pc[h] # "closed" => UNCHANGED <<kind, want>>
         /\ pc[h] # "afu_open" /\ pc'[h] # "afu_open"
BY DEF Call, Open, Close, Dec, Execute, Refuse, Submit, Serve, ctxVars, OthersKept, CInv, TypeOK

LEMMA CallHolds ==
  ASSUME CInv, NEW h \in Handles, Call(h)
  PROVE  Holds'
<1>1. OthersKept(h) /\ UNCHANGED site
  BY CallFrame
<1>2. HoldsOf(h) /\ kind[h] \in {"single", "redundant"} /\ left[h] \in 0..NumCards
  BY DEF CInv, TypeOK, Holds
<1>3. \A d \in Cards : Countable(d)' = Countable(d)
  BY <1>1 DEF Countable, Uniform
<1> SUFFICES HoldsOf(h)'
  BY <1>1, HoldsKept DEF CInv
<1>4. ASSUME NEW c \in Cards, NEW m \in site.modes, Open(h, c, m) PROVE HoldsOf(h)'
  <2>1. /\ pc'[h] = "inc" /\ kind'[h] = site.kind /\ card_next'[h] = c
        /\ ctx'[h] = (IF site.kind = "single" THEN c ELSE None)
        /\ left'[h] = (IF site.kind = "single" THEN 1 ELSE NumCards)
        /\ holds'[h] = {}
    BY <1>2, <1>4 DEF Open, CInv, TypeOK, HoldsOf
  <2>2. \A d \in Cards : Ahead(h, d)' < NumCards
    BY <2>1, CardsAssumption DEF Ahead, Cards
  <2>3. QED BY <2>1, <2>2, CardsAssumption DEF HoldsOf, LeftOK, SingleHolds, RedundantHolds
<1>5. CASE Close(h)
  <2>1. /\ pc'[h] = "dec" /\ kind'[h] = kind[h] /\ ctx'[h] = ctx[h]
        /\ left'[h] = (IF kind[h] = "single" THEN 1 ELSE NumCards)
        /\ holds'[h] = holds[h] /\ pc[h] = "open"
    BY <1>5 DEF Close, CInv, TypeOK
  <2>2. \A d \in Cards : ~(d < NumCards - NumCards)
    BY CardsAssumption DEF Cards
  <2>3. QED BY <1>2, <1>3, <2>1, <2>2, CardsAssumption DEF HoldsOf, LeftOK, SingleHolds, RedundantHolds
<1>6. CASE Dec(h)
  <2>1. /\ pc[h] = "dec" /\ left'[h] = left[h] - 1 /\ kind'[h] = kind[h]
        /\ pc'[h] = (IF left[h] > 1 THEN "dec" ELSE "closed")
        /\ ctx'[h] = (IF left[h] > 1 THEN ctx[h] ELSE None)
        /\ holds'[h] = holds[h] \ {DecCard(h)}
    BY <1>6 DEF Dec, DecCard, CInv, TypeOK
  <2>2. left[h] \in 1..NumCards /\ holds[h] \subseteq Cards
    BY <2>1, DecCardHeld DEF CInv, TypeOK
  <2>3. CASE kind[h] = "single"
    BY <1>2, <2>1, <2>2, <2>3 DEF DecCard, HoldsOf, LeftOK, SingleHolds, RedundantHolds
  <2>4. CASE kind[h] = "redundant"
    <3>1. DecCard(h) = NumCards - left[h]
      BY <2>4 DEF DecCard
    <3>2. \A d \in Cards : d < NumCards - left'[h] <=> d < NumCards - left[h] \/ d = DecCard(h)
      BY <2>1, <2>2, <3>1, CardsAssumption DEF Cards
    <3>3. \A d \in Cards : IF d < NumCards - left'[h] THEN d \notin holds'[h]
                                                     ELSE Countable(d) => d \in holds'[h]
      BY <1>2, <2>1, <2>4, <3>2 DEF HoldsOf, LeftOK, SingleHolds, RedundantHolds
    <3>4. left[h] = 1 => holds'[h] = {}
      <4>1. left[h] = 1 => \A d \in Cards : d < NumCards - left'[h]
        BY <2>1, CardsAssumption DEF Cards
      <4>2. holds'[h] \subseteq Cards
        BY <2>1, <2>2
      <4>3. QED BY <3>3, <4>1, <4>2
    <3>5. QED BY <1>2, <1>3, <2>1, <2>2, <2>4, <3>3, <3>4 DEF HoldsOf, LeftOK, SingleHolds, RedundantHolds
  <2>5. QED BY <1>2, <2>3, <2>4
<1>7. CASE Execute(h)
  <2>1. /\ pc[h] = "open" /\ pc'[h] = "submit" /\ kind'[h] = kind[h] /\ holds'[h] = holds[h]
        /\ kind[h] = "single" => ctx'[h] = ctx[h]
    BY <1>7 DEF Execute, CInv, TypeOK
  <2>2. ctx'[h] # None
    BY <1>7 DEF Execute
  <2>3. QED BY <1>2, <1>3, <2>1, <2>2 DEF HoldsOf, LeftOK, SingleHolds, RedundantHolds
<1>8. CASE Refuse(h) \/ Submit(h) \/ Serve(h)
  <2>1. /\ pc[h] \in {"submit", "queued"} /\ pc'[h] \in {"open", "queued"}
        /\ kind'[h] = kind[h] /\ holds'[h] = holds[h] /\ ctx'[h] = ctx[h]
    BY <1>8 DEF Refuse, Submit, Serve, CInv, TypeOK
  <2>2. QED BY <1>2, <1>3, <2>1 DEF HoldsOf, LeftOK, SingleHolds, RedundantHolds
<1>9. QED BY <1>4, <1>5, <1>6, <1>7, <1>8 DEF Call

LEMMA CallDevices ==
  ASSUME CInv, NEW h \in Handles, Call(h)
  PROVE  Devices'
<1>1. /\ OthersKept(h) /\ exit = None
      /\ UNCHANGED <<site, exit, mode, lock, afu, loop>>
      /\ pc[h] # "closed" => UNCHANGED <<kind, want>>
      /\ pc[h] # "afu_open" /\ pc'[h] # "afu_open"
  BY CallFrame
<1>2. OfSite'
  <2>1. ASSUME NEW c \in Cards, NEW m \in site.modes, Open(h, c, m)
        PROVE  kind'[h] = site.kind /\ want'[h] \in site.modes
    BY <2>1 DEF Open, CInv, TypeOK
  <2>2. Close(h) \/ Dec(h) \/ Execute(h) \/ Refuse(h) \/ Submit(h) \/ Serve(h) => pc[h] # "closed"
    BY DEF Close, Dec, Execute, Refuse, Submit, Serve
  <2>3. pc'[h] # "closed" => kind'[h] = site.kind /\ want'[h] \in site.modes
    BY <1>1, <2>1, <2>2 DEF Call, CInv, Devices, OfSite
  <2>4. QED BY <1>1, <2>3 DEF OthersKept, CInv, Devices, OfSite
<1>3. ExitQuiet' /\ LockOwned'
  BY <1>1 DEF OthersKept, CInv, Devices, ExitQuiet, LockOwned
<1>4. \A c \in Cards : lock[c] # None => lock[c] \in Handles \ {h} /\ clients'[c] = clients[c]
  <2> TAKE c \in Cards
  <2>1. lock[c] # None => lock[c] \in Handles \ {h}
    BY <1>1 DEF CInv, TypeOK, Devices, LockOwned
  <2>2. CASE Dec(h)
    <3>1. DecCard(h) \in Cards
      BY <2>2, DecCardHeld DEF Dec
    <3>2. clients' = [clients EXCEPT ![DecCard(h)] = @ - 1] /\ lock[DecCard(h)] = None
      BY <2>2 DEF Dec, DecCount, DecCard
    <3>3. QED BY <2>1, <3>1, <3>2 DEF CInv, TypeOK
  <2>3. CASE ~Dec(h)
    BY <2>1, <2>3, CallFrame
  <2>4. QED BY <2>2, <2>3
<1>5. DeviceState'
  BY <1>1, <1>4 DEF OthersKept, CInv, Devices, DeviceState, DeviceOf
<1>6. QED BY <1>2, <1>3, <1>5 DEF Devices

LEMMA CallSharing ==
  ASSUME CInv, NEW h \in Handles, Call(h)
  PROVE  Sharing'
<1>1. /\ OthersKept(h) /\ exit = None
      /\ UNCHANGED <<site, exit, mode, lock, afu, loop>>
      /\ ~Dec(h) => UNCHANGED <<clients, holds>>
      /\ pc[h] # "closed" => UNCHANGED <<kind, want>>
  BY CallFrame
<1>2. \A d \in Cards : Countable(d)' = Countable(d)
  BY <1>1 DEF Countable, Uniform
<1>3. CASE Dec(h)
  <2> PICK c \in Cards : c = DecCard(h)
    BY <1>3, DecCardHeld DEF Dec
  <2>1. /\ clients' = [clients EXCEPT ![c] = @ - 1]
        /\ holds' = [holds EXCEPT ![h] = @ \ {c}]
        /\ pc[h] = "dec"
    BY <1>3 DEF Dec, DecCount, DecCard
  <2>2. Countable(c) => c \in holds[h]
    BY <2>1, DecCardHeld
  <2>3. ClientsCounted'
    <3>1. \A d \in Cards \ {c} : clients'[d] = clients[d] /\ Holders(d)' = Holders(d)
      BY <2>1 DEF CInv, TypeOK, Holders
    <3>2. clients'[c] = clients[c] - 1
      BY <2>1 DEF CInv, TypeOK
    <3>3. Countable(c) => Cardinality(Holders(c)') = Cardinality(Holders(c)) - 1
      BY <2>1, <2>2, CountDown DEF CInv
    <3>4. QED BY <1>2, <3>1, <3>2, <3>3 DEF CInv, Sharing, ClientsCounted
  <2>4. \A g \in Handles : holds'[g] \subseteq holds[g] /\ holds[g] \subseteq Cards
    BY <2>1 DEF CInv, TypeOK
  <2>5. ModeShared' /\ ClientsHaveDevice'
    BY <1>1, <1>2, <2>1, <2>4 DEF CInv, Sharing, ModeShared, ClientsHaveDevice
  <2>6. QED BY <2>3, <2>5 DEF Sharing
<1>4. CASE ~Dec(h)
  <2>1. ClientsCounted' /\ ClientsHaveDevice'
    BY <1>1, <1>2, <1>4 DEF CInv, TypeOK, Sharing, ClientsCounted, ClientsHaveDevice, Holders
  <2>2. \A g \in Handles : holds[g] = {} \/ want'[g] = want[g]
    <3>1. pc[h] = "closed" => holds[h] = {}
      BY DEF CInv, Holds, HoldsOf
    <3>2. QED BY <1>1, <3>1 DEF OthersKept
  <2>3. ModeShared'
    BY <1>1, <1>2, <1>4, <2>2 DEF CInv, TypeOK, Sharing, ModeShared
  <2>4. QED BY <2>1, <2>3 DEF Sharing
<1>5. QED BY <1>3, <1>4

LEMMA CallServed ==
  ASSUME CInv, NEW h \in Handles, Call(h)
  PROVE  Submitted' /\ QueuedIsServed'
<1>1. OthersKept(h) /\ exit = None /\ UNCHANGED <<site, mode, loop>>
  BY CallFrame
<1>2. (Orderly' <=> Orderly) /\ (MastersApart' <=> MastersApart)
  BY <1>1 DEF Orderly, MastersApart, Uniform
<1>3. Submitted'
  <2>1. ASSUME Execute(h) PROVE ctx'[h] # None /\ (Orderly => loop[ctx'[h]] # "none")
    <3>1. ctx'[h] # None /\ pc[h] = "open" /\ HoldsOf(h) /\ kind[h] = site.kind
      BY <2>1 DEF Execute, CInv, Holds, Devices, OfSite
    <3>2. ASSUME NEW c \in holds[h], Countable(c) PROVE afu[c] /\ loop[c] # "none"
      BY <1>1, <3>2 DEF CInv, Sharing, ClientsHaveDevice
    <3>3. CASE kind[h] = "single"
      <4>1. ctx'[h] = ctx[h] /\ ctx[h] \in holds[h] /\ Countable(ctx[h])
        BY <2>1, <3>1, <3>3 DEF Execute, HoldsOf, SingleHolds, Countable
      <4>2. QED BY <3>1, <3>2, <4>1
    <3>4. CASE kind[h] = "redundant" /\ Orderly
      <4>1. PICK g \in Cards : g \in site.gzip
        BY <3>1, <3>4, SitesAssumption DEF Orderly, CInv, TypeOK
      <4>2. \A c \in site.gzip : Countable(c)
        BY <3>1, <3>4 DEF Orderly, Countable
      <4>3. \A c \in Cards \cap site.gzip : c \in holds[h] /\ afu[c] /\ loop[c] # "none"
        BY <3>1, <3>2, <3>4, <4>2 DEF HoldsOf, RedundantHolds
      <4>4. Select(h) \in Cards /\ afu[Select(h)]
        BY <4>1, <4>3, SelectUsable DEF CInv
      <4>5. Select(h) \in site.gzip
        BY <3>1, <3>4, <4>4 DEF Orderly, CInv, Devices, DeviceState, DeviceOf
      <4>6. ctx'[h] = Select(h)
        BY <2>1, <3>4, <4>4 DEF Execute, Usable, CInv, TypeOK
      <4>7. QED BY <3>1, <4>3, <4>4, <4>5, <4>6
    <3>5. kind[h] \in {"single", "redundant"}
      BY DEF CInv, TypeOK
    <3>6. QED BY <3>1, <3>3, <3>4, <3>5
  <2>2. ASSUME ~Execute(h), pc'[h] \in {"submit", "queued"}
        PROVE  pc[h] = "submit" /\ ctx'[h] = ctx[h]
    BY <2>2 DEF Call, Open, Close, Dec, Refuse, Submit, Serve, CInv, TypeOK
  <2>3. QED BY <1>1, <1>2, <2>1, <2>2 DEF OthersKept, CInv, Submitted
<1>4. QueuedIsServed'
  <2>1. ASSUME Submit(h), Orderly, MastersApart PROVE loop[ctx'[h]] \in {"IRQ", "POLLING"}
    <3> PICK c \in Cards : c = ctx[h] /\ ctx' = ctx
      BY <2>1 DEF Submit, CInv, TypeOK, Submitted
    <3>1. mode[c] # "MASTER" /\ loop[c] # "none"
      BY <2>1 DEF Submit, CInv, Submitted
    <3>2. mode[c] \in site.modes /\ loop[c] \in site.modes
      BY <3>1 DEF CInv, Devices, DeviceState, DeviceOf
    <3>3. loop[c] # "MASTER"
      BY <2>1, <3>1, <3>2 DEF MastersApart, Uniform
    <3>4. QED BY <3>1, <3>3 DEF CInv, TypeOK
  <2>2. pc'[h] = "queued" => Submit(h)
    BY DEF Call, Open, Close, Dec, Execute, Refuse, Submit, Serve, CInv, TypeOK
  <2>3. QED BY <1>1, <1>2, <2>1, <2>2 DEF OthersKept, CInv, QueuedIsServed
<1>5. QED BY <1>3, <1>4

-----------------------------------------------------------------------------
(* The destructor                                                          *)

LEMMA ExitStep ==
  ASSUME CInv, Exit \/ CardDevClose, UNCHANGED site
  PROVE  CInv'
<1>1. UNCHANGED <<clients, mode, lock, pc, kind, want, ctx, card_next, left, holds, site>>
  BY DEF Exit, CardDevClose, ctxVars
<1>2. /\ \A h \in Handles : pc[h] \in {"open", "closed"}
      /\ \A c \in Cards : lock[c] = None
  BY DEF Exit, CardDevClose, CInv, TypeOK, Devices, ExitQuiet, LockOwned
<1>3. CASE Exit
  <2>1. UNCHANGED <<afu, loop>> /\ exit' = 0 /\ 0 # None
    BY <1>3, NoneIsNoCard, CardsAssumption DEF Exit, ctxVars
  <2>2. QED
    <3>1. TypeOK'
      BY <1>1, <2>1, CardsAssumption DEF CInv, TypeOK
    <3>2. Devices'
      BY <1>1, <1>2, <2>1 DEF CInv, Devices, OfSite, ExitQuiet, LockOwned, DeviceState, DeviceOf, Cards
    <3>3. Sharing'
      BY <1>1, <2>1 DEF CInv, Sharing, ClientsCounted, ModeShared, ClientsHaveDevice,
                        Countable, Uniform, Holders
    <3>4. Holds'
      BY <1>1 DEF CInv, Holds, HoldsOf, LeftOK, SingleHolds, RedundantHolds, Ahead, Countable, Uniform
    <3>5. Submitted' /\ QueuedIsServed'
      BY <1>1, <1>2 DEF Submitted, QueuedIsServed
    <3>6. QED BY <3>1, <3>2, <3>3, <3>4, <3>5 DEF CInv
<1>4. CASE CardDevClose
  <2> PICK n \in Cards : n = exit /\ n # None
    BY <1>4, CardsAssumption DEF CardDevClose, CInv, TypeOK, Cards
  <2>1. /\ exit' = n + 1 /\ n + 1 \in 0..NumCards /\ exit' # None
        /\ loop' = [loop EXCEPT ![n] = "none"]
        /\ afu' = IF loop[n] # "none" THEN [afu EXCEPT ![n] = FALSE] ELSE afu
    BY <1>4, NoneIsNoCard, CardsAssumption DEF CardDevClose, ClosesAfu, Cards
  <2>2. loop'[n] = "none" /\ ~afu'[n]
    BY <1>2, <2>1 DEF CInv, TypeOK, Devices, DeviceState, DeviceOf
  <2>3. \A c \in Cards \ {n} : loop'[c] = loop[c] /\ afu'[c] = afu[c]
    BY <2>1 DEF CInv, TypeOK
  <2>4. TypeOK'
    BY <1>1, <2>1 DEF CInv, TypeOK
  <2>5. ExitQuiet'
    <3>1. \A c \in Cards : c < exit' => c = n \/ c < exit
      BY <2>1 DEF Cards
    <3>2. QED BY <1>1, <1>2, <2>2, <2>3, <3>1 DEF CInv, Devices, ExitQuiet
  <2>6. DeviceState'
    BY <1>1, <1>2, <2>2, <2>3 DEF CInv, Devices, DeviceState, DeviceOf
  <2>7. Devices'
    BY <1>1, <2>5, <2>6 DEF CInv, Devices, OfSite, LockOwned
  <2>8. Sharing'
    BY <1>1, <2>1 DEF CInv, Sharing, ClientsCounted, ModeShared, ClientsHaveDevice,
                      Countable, Uniform, Holders
  <2>9. Holds'
    BY <1>1 DEF CInv, Holds, HoldsOf, LeftOK, SingleHolds, RedundantHolds, Ahead, Countable, Uniform
  <2>10. Submitted' /\ QueuedIsServed'
    BY <1>1, <1>2 DEF Submitted, QueuedIsServed
  <2>11. QED BY <2>4, <2>7, <2>8, <2>9, <2>10 DEF CInv
<1>5. QED BY <1>3, <1>4

-----------------------------------------------------------------------------
(* The theorems                                                            *)

LEMMA NextCInv == CInv /\ [Next]_vars => CInv'
<1> SUFFICES ASSUME CInv, [Next]_vars PROVE CInv'
  OBVIOUS
<1>1. ASSUME NEW h \in Handles, Inc(h) PROVE CInv'
  BY <1>1, IncType, IncDevices, IncHolds, IncSharing, IncServed DEF CInv
<1>2. ASSUME NEW h \in Handles, Call(h) PROVE CInv'
  BY <1>2, CallType, CallDevices, CallHolds, CallSharing, CallServed DEF CInv
<1>3. ASSUME (Exit \/ CardDevClose) /\ UNCHANGED site PROVE CInv'
  BY <1>3, ExitStep
<1>4. CASE UNCHANGED vars
  BY <1>4 DEF vars, ctxVars, CInv, TypeOK, Devices, OfSite, ExitQuiet, LockOwned, DeviceState,
              DeviceOf, Holds, HoldsOf, LeftOK, SingleHolds, RedundantHolds, Ahead, Countable,
              Uniform, Sharing, ClientsCounted, ModeShared, ClientsHaveDevice, Holders,
              Submitted, QueuedIsServed, Orderly, MastersApart
<1>5. QED BY <1>1, <1>2, <1>3, <1>4 DEF Next

\* The invariant holds in every reachable state.
THEOREM ContextsInvariant == Spec => []CInv
BY InitCInv, NextCInv, PTL DEF Spec

\* lib/ddcb_capi.c, "Thread open counter": with any number of handles that open and close cards
\* in any order, the client counter of a card is the number of handles that have it open, the
\* mode of the card is what they asked for, and its device and done thread are there.
THEOREM ContextsCorrect == Spec => []ContextsShared
<1>1. CInv => ContextsShared
  BY DEF CInv, Sharing, ContextsShared
<1>2. QED BY <1>1, ContextsInvariant, PTL

\* ddcb_execute: an open handle has a card, and a command that was queued is in the queue of a
\* done thread that works on it.
THEOREM CommandsReachDevice == Spec => []CommandsServed
<1>1. CInv => OpenHasCard
  <2> SUFFICES ASSUME CInv, site.kind = "single" \/ (site.gzip # {} /\ Uniform),
                      NEW h \in Handles, pc[h] = "open"
               PROVE  ctx[h] # None
    BY DEF OpenHasCard
  <2>1. kind[h] = site.kind /\ kind[h] \in {"single", "redundant"} /\ HoldsOf(h)
    BY DEF CInv, TypeOK, Devices, OfSite, Holds
  <2>2. site.gzip \subseteq Cards
    BY SitesAssumption DEF CInv, TypeOK
  <2>3. QED BY <2>1, <2>2 DEF HoldsOf, SingleHolds, RedundantHolds, Countable
<1>2. CInv => PicksOpenCard /\ QueuedIsServed
  BY DEF CInv, PicksOpenCard, Submitted
<1>3. QED BY <1>1, <1>2, ContextsInvariant, PTL DEF CommandsServed

\* The destructor of the library: when it has gone over the cards, every AFU is freed and no
\* done thread is left, also of a card that a client never closed.
THEOREM DestructorFrees == Spec => []ExitFreesAfus
<1>1. CInv => ExitFreesAfus
  BY NoneIsNoCard, CardsAssumption DEF CInv, Devices, ExitQuiet, ExitFreesAfus, Cards
<1>2. QED BY <1>1, ContextsInvariant, PTL
=============================================================================
