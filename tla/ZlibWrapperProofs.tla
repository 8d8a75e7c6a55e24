-------------------------- MODULE ZlibWrapperProofs --------------------------
(***************************************************************************)
(* Theorems about ZlibWrapper for every number of streams and heap         *)
(* objects: every object has one owner, and no switch between hardware and *)
(* software, no restart, reset or copy loses what a stream was told.       *)
(***************************************************************************)
EXTENDS ZlibWrapper, FiniteSetTheorems, TLAPS

-----------------------------------------------------------------------------
(* The inductive invariant                                                 *)

\* Wrapper states and streams below belong to one stream of the application each.
Links ==
  /\ \A i \in Ids : w[i] # Free => \E s \in Opens : strm[s].state = i
  /\ \A j \in Ids : low[j] # Free => \E s \in Opens : W(s).priv_data = j
  /\ \A s, t \in Opens : s # t =>
       strm[s].state # strm[t].state /\ W(s).priv_data # W(t).priv_data

\* What a wrapper state x, the stream l below it, the requests a and total_in > 0 have to do
\* with each other; "old" is a zlib that cannot be asked for its dictionary.
SoundInflate(x, l, a, old) ==
  /\ ~a.lost
  /\ a.head => x.gzhead /\ (l.format = "gzip" => l.head)
  /\ a.dict => l.dict
  /\ l.dict => a.dict \/ x.dictionary
  /\ x.impl = "SW" /\ old /\ a.dict => x.dictionary

SoundDeflate(x, l, a) ==
  /\ x.windowBits = a.format /\ ~x.dictionary
  /\ ~a.lost => (l.dict <=> a.dict) /\ (a.head /\ l.format = "gzip" => l.head)

Sound(x, l, a, fed, old) ==
  /\ x \in WrapperStates /\ l \in LowStreams /\ a \in Requests
  /\ x.kind = l.kind /\ x.kind = a.kind /\ x.impl = l.impl
  /\ a.data = fed /\ (a.data => l.used)
  /\ l.format \in {a.format, x.windowBits}
  /\ x.kind = "inflate" => SoundInflate(x, l, a, old)
  /\ x.kind = "deflate" => SoundDeflate(x, l, a)

SoundStream(s) == Sound(W(s), Low(s), asked[s], strm[s].fed, ~z_hasGetDictionary)

Core == TypeOK /\ Links /\ \A s \in Opens : SoundStream(s)
Configured == cfg \in [inflate : Impls, deflate : Impls, lib : SwLibs]
ZInv == Configured /\ (RestartsWork => Core)

-----------------------------------------------------------------------------
(* Objects come, change and go                                             *)

LEMMA FreeIdFree ==
  ASSUME NEW heap, HasFree(heap)
  PROVE  FreeId(heap) \in Ids /\ heap[FreeId(heap)] = Free
BY Zenon DEF HasFree, FreeId

\* The objects of an open stream.
LEMMA OpenObjects ==
  ASSUME Core, NEW s \in Opens
  PROVE  /\ s \in Streams /\ strm[s].state \in Ids
         /\ W(s) = w[strm[s].state] /\ W(s) \in WrapperStates /\ W(s).priv_data \in Ids
         /\ Low(s) = low[W(s).priv_data] /\ Low(s) \in LowStreams
         /\ asked[s] \in Requests /\ strm[s].fed \in BOOLEAN
         /\ W(s) # Free /\ Low(s) # Free
<1>1. s \in Streams /\ strm[s].state # None /\ strm[s] \in [state : Ids \cup {None}, fed : BOOLEAN]
  BY DEF Opens, Core, TypeOK
<1>2. Sound(W(s), Low(s), asked[s], strm[s].fed, ~z_hasGetDictionary)
  BY DEF Core, SoundStream
<1>3. W(s) \in WrapperStates /\ Low(s) \in LowStreams /\ asked[s] \in Requests
  BY <1>2 DEF Sound
<1>4. W(s).priv_data \in Ids /\ W(s) # Free /\ Low(s) # Free
  BY <1>3 DEF WrapperStates, LowStreams, Kinds, Free
<1>5. QED BY <1>1, <1>3, <1>4 DEF W, Low

\* An open stream gets a wrapper state x and a stream below l, in its place or in a free one.
LEMMA Replaced ==
  ASSUME Core, NEW s \in Opens, NEW j \in Ids, NEW x, NEW l, NEW a, NEW fed,
         Sound(x, l, a, fed, ~z_hasGetDictionary), x.priv_data = j,
         j = W(s).priv_data \/ low[j] = Free,
         w' = [w EXCEPT ![strm[s].state] = x],
         low' \in [Ids -> {Free} \cup LowStreams],
         low'[j] = l, W(s).priv_data # j => low'[W(s).priv_data] = Free,
         \A k \in Ids \ {j, W(s).priv_data} : low'[k] = low[k],
         strm' \in [Streams -> [state : Ids \cup {None}, fed : BOOLEAN]],
         strm'[s].state = strm[s].state, strm'[s].fed = fed,
         \A t \in Streams \ {s} : strm'[t] = strm[t],
         asked' = [asked EXCEPT ![s] = a], cfg' = cfg
  PROVE  Core'
<1> PICK i \in Ids : i = strm[s].state
  BY OpenObjects
<1> PICK p \in Ids : p = W(s).priv_data
  BY OpenObjects
<1>1. /\ x \in WrapperStates /\ l \in LowStreams /\ a \in Requests
      /\ x # Free /\ l # Free
  BY DEF Sound, WrapperStates, LowStreams, Kinds, Free
<1>2. TypeOK'
  BY <1>1 DEF Core, TypeOK
<1>3. Opens' = Opens /\ \A t \in Streams : strm'[t].state = strm[t].state
  BY DEF Opens
<1>4. w'[i] = x /\ \A k \in Ids \ {i} : w'[k] = w[k]
  BY DEF Core, TypeOK
<1>5. \A t \in Opens \ {s} : /\ t \in Streams /\ strm[t].state \in Ids \ {i}
                             /\ W(t).priv_data \in Ids \ {j, p} /\ Low(t) = low[W(t).priv_data]
                             /\ W(t) = w[strm[t].state] /\ low[W(t).priv_data] # Free
  BY OpenObjects DEF Core, Links
<1>6. W(s)' = x /\ Low(s)' = l
  BY <1>3, <1>4, OpenObjects DEF W, Low
<1>7. \A t \in Opens \ {s} : W(t)' = W(t) /\ Low(t)' = Low(t)
  <2> TAKE t \in Opens \ {s}
  <2>1. W(t)' = w'[strm'[t].state] /\ Low(t)' = low'[(W(t)').priv_data]
    BY DEF W, Low
  <2>2. W(t)' = W(t)
    BY <1>3, <1>4, <1>5, <2>1
  <2>3. QED BY <1>5, <2>1, <2>2
<1>8. Links'
  <2>1. ASSUME NEW k \in Ids, w'[k] # Free PROVE \E t \in Opens' : strm'[t].state = k
    BY <1>3, <1>4, <2>1, OpenObjects DEF Core, Links
  <2>2. ASSUME NEW k \in Ids, low'[k] # Free PROVE \E t \in Opens' : (W(t)').priv_data = k
    <3>1. CASE k = j
      BY <1>3, <1>6, <3>1
    <3>2. CASE k # j
      <4>1. k # p /\ low[k] # Free
        BY <2>2, <3>2
      <4>2. PICK t \in Opens : W(t).priv_data = k
        BY <4>1 DEF Core, Links
      <4>3. QED BY <1>3, <1>7, <4>1, <4>2
    <3>3. QED BY <3>1, <3>2
  <2>3. ASSUME NEW t \in Opens', NEW u \in Opens', t # u
        PROVE  strm'[t].state # strm'[u].state /\ (W(t)').priv_data # (W(u)').priv_data
    BY <1>3, <1>5, <1>6, <1>7, <2>3 DEF Core, Links
  <2>4. QED BY <2>1, <2>2, <2>3 DEF Links
<1>9. z_hasGetDictionary' = z_hasGetDictionary
  BY DEF z_hasGetDictionary
<1>10. asked'[s] = a /\ \A t \in Streams \ {s} : asked'[t] = asked[t]
  BY OpenObjects DEF Core, TypeOK
<1>11. ASSUME NEW t \in Opens PROVE SoundStream(t)'
  <2>1. CASE t = s
    BY <1>6, <1>9, <1>10, <2>1 DEF SoundStream
  <2>2. CASE t # s
    <3>1. SoundStream(t) /\ strm'[t] = strm[t] /\ asked'[t] = asked[t]
      BY <1>5, <1>10, <2>2 DEF Core
    <3>2. QED BY <1>7, <1>9, <2>2, <3>1 DEF SoundStream
  <2>3. QED BY <2>1, <2>2
<1>12. QED BY <1>2, <1>3, <1>8, <1>11 DEF Core

\* The same with the stream below where it was.
LEMMA Changed ==
  ASSUME Core, NEW s \in Opens, NEW x, NEW l, NEW a, NEW fed,
         Sound(x, l, a, fed, ~z_hasGetDictionary), x.priv_data = W(s).priv_data,
         w' = [w EXCEPT ![strm[s].state] = x], low' = [low EXCEPT ![W(s).priv_data] = l],
         strm' = [strm EXCEPT ![s].fed = fed], asked' = [asked EXCEPT ![s] = a], cfg' = cfg
  PROVE  Core'
<1> PICK j \in Ids : j = W(s).priv_data
  BY OpenObjects
<1>1. fed \in BOOLEAN /\ l \in LowStreams
  BY DEF Sound, Requests
<1>2. low'[j] = l /\ \A k \in Ids \ {j} : low'[k] = low[k]
  BY DEF Core, TypeOK
<1>3. low' \in [Ids -> {Free} \cup LowStreams]
  BY <1>1 DEF Core, TypeOK
<1>4. /\ strm' \in [Streams -> [state : Ids \cup {None}, fed : BOOLEAN]]
      /\ strm'[s].state = strm[s].state /\ strm'[s].fed = fed
      /\ \A t \in Streams \ {s} : strm'[t] = strm[t]
  BY <1>1, OpenObjects DEF Core, TypeOK
<1>5. QED BY <1>2, <1>3, <1>4, Replaced

\* The stream below is ended and another one is started.
LEMMA Started ==
  ASSUME Core, NEW s \in Opens, NEW j \in Ids, j = W(s).priv_data \/ low[j] = Free,
         NEW x, NEW l, NEW a, NEW fed,
         Sound(x, l, a, fed, ~z_hasGetDictionary), x.priv_data = j,
         w' = [w EXCEPT ![strm[s].state] = x], low' = [low EXCEPT ![W(s).priv_data] = Free, ![j] = l],
         strm' = [strm EXCEPT ![s].fed = fed], asked' = [asked EXCEPT ![s] = a], cfg' = cfg
  PROVE  Core'
<1>1. fed \in BOOLEAN /\ l \in LowStreams
  BY DEF Sound, Requests
<1>2. /\ low'[j] = l /\ (W(s).priv_data # j => low'[W(s).priv_data] = Free)
      /\ \A k \in Ids \ {j, W(s).priv_data} : low'[k] = low[k]
  BY OpenObjects DEF Core, TypeOK
<1>3. low' \in [Ids -> {Free} \cup LowStreams]
  BY <1>1 DEF Core, TypeOK
<1>4. /\ strm' \in [Streams -> [state : Ids \cup {None}, fed : BOOLEAN]]
      /\ strm'[s].state = strm[s].state /\ strm'[s].fed = fed
      /\ \A t \in Streams \ {s} : strm'[t] = strm[t]
  BY <1>1, OpenObjects DEF Core, TypeOK
<1>5. QED BY <1>2, <1>3, <1>4, Replaced

\* A new stream, whose objects were free.
LEMMA Added ==
  ASSUME Core, NEW s \in Streams \ Opens, NEW i \in Ids, NEW j \in Ids, w[i] = Free, low[j] = Free,
         NEW x, NEW l, NEW a, NEW fed, Sound(x, l, a, fed, ~z_hasGetDictionary), x.priv_data = j,
         w' = [w EXCEPT ![i] = x], low' = [low EXCEPT ![j] = l],
         strm' = [strm EXCEPT ![s] = [state |-> i, fed |-> fed]],
         asked' = [asked EXCEPT ![s] = a], cfg' = cfg
  PROVE  Core'
<1>1. /\ x \in WrapperStates /\ l \in LowStreams /\ a \in Requests /\ fed \in BOOLEAN
      /\ x # Free /\ l # Free /\ i # None
  BY WrapperAssumption DEF Sound, WrapperStates, LowStreams, Requests, Kinds, Free
<1>2. TypeOK'
  BY <1>1 DEF Core, TypeOK
<1>3. /\ strm'[s].state = i /\ strm'[s].fed = fed /\ \A t \in Streams \ {s} : strm'[t] = strm[t]
      /\ asked'[s] = a /\ \A t \in Streams \ {s} : asked'[t] = asked[t]
      /\ w'[i] = x /\ \A k \in Ids \ {i} : w'[k] = w[k]
      /\ low'[j] = l /\ \A k \in Ids \ {j} : low'[k] = low[k]
  BY DEF Core, TypeOK
<1>4. Opens' = Opens \cup {s} /\ Opens \subseteq Streams
  BY <1>1, <1>3 DEF Opens
<1>5. \A t \in Opens : /\ t # s /\ strm[t].state \in Ids \ {i} /\ W(t).priv_data \in Ids \ {j}
                       /\ Low(t) = low[W(t).priv_data] /\ W(t) = w[strm[t].state]
  BY OpenObjects
<1>6. W(s)' = x /\ Low(s)' = l
  BY <1>3 DEF W, Low
<1>7. \A t \in Opens : W(t)' = W(t) /\ Low(t)' = Low(t)
  <2> TAKE t \in Opens
  <2>1. W(t)' = w'[strm'[t].state] /\ Low(t)' = low'[(W(t)').priv_data]
    BY DEF W, Low
  <2>2. W(t)' = W(t)
    BY <1>3, <1>4, <1>5, <2>1
  <2>3. QED BY <1>3, <1>5, <2>1, <2>2
<1>8. Links'
  <2>1. ASSUME NEW k \in Ids, w'[k] # Free PROVE \E t \in Opens' : strm'[t].state = k
    BY <1>3, <1>4, <1>5, <2>1 DEF Core, Links
  <2>2. ASSUME NEW k \in Ids, low'[k] # Free PROVE \E t \in Opens' : (W(t)').priv_data = k
    BY <1>3, <1>4, <1>6, <1>7, <2>2 DEF Core, Links
  <2>3. ASSUME NEW t \in Opens', NEW u \in Opens', t # u
        PROVE  strm'[t].state # strm'[u].state /\ (W(t)').priv_data # (W(u)').priv_data
    BY <1>3, <1>4, <1>5, <1>6, <1>7, <2>3 DEF Core, Links
  <2>4. QED BY <2>1, <2>2, <2>3 DEF Links
<1>9. z_hasGetDictionary' = z_hasGetDictionary
  BY DEF z_hasGetDictionary
<1>10. ASSUME NEW t \in Opens' PROVE SoundStream(t)'
  <2>1. CASE t = s
    BY <1>3, <1>6, <1>9, <2>1 DEF SoundStream
  <2>2. CASE t # s
    <3>1. t \in Opens /\ SoundStream(t) /\ strm'[t] = strm[t] /\ asked'[t] = asked[t]
      BY <1>3, <1>4, <1>10, <2>2 DEF Core
    <3>2. QED BY <1>7, <1>9, <3>1 DEF SoundStream
  <2>3. QED BY <2>1, <2>2
<1>11. QED BY <1>2, <1>8, <1>10 DEF Core

\* A stream ends and both its objects are freed.
LEMMA Ended ==
  ASSUME Core, NEW s \in Opens,
         w' = [w EXCEPT ![strm[s].state] = Free], low' = [low EXCEPT ![W(s).priv_data] = Free],
         strm' = [strm EXCEPT ![s].state = None], asked' = [asked EXCEPT ![s] = Closed], cfg' = cfg
  PROVE  Core'
<1> PICK i \in Ids : i = strm[s].state
  BY OpenObjects
<1> PICK p \in Ids : p = W(s).priv_data
  BY OpenObjects
<1>1. TypeOK'
  BY OpenObjects DEF Core, TypeOK
<1>2. /\ strm'[s].state = None /\ \A t \in Streams \ {s} : strm'[t] = strm[t] /\ asked'[t] = asked[t]
      /\ w'[i] = Free /\ \A k \in Ids \ {i} : w'[k] = w[k]
      /\ low'[p] = Free /\ \A k \in Ids \ {p} : low'[k] = low[k]
  BY OpenObjects DEF Core, TypeOK
<1>3. Opens' = Opens \ {s} /\ Opens \subseteq Streams
  BY <1>2 DEF Opens
<1>4. \A t \in Opens \ {s} : /\ strm[t].state \in Ids \ {i} /\ W(t).priv_data \in Ids \ {p}
                             /\ Low(t) = low[W(t).priv_data] /\ W(t) = w[strm[t].state]
  BY OpenObjects DEF Core, Links
<1>5. \A t \in Opens \ {s} : W(t)' = W(t) /\ Low(t)' = Low(t)
  <2> TAKE t \in Opens \ {s}
  <2>1. W(t)' = w'[strm'[t].state] /\ Low(t)' = low'[(W(t)').priv_data]
    BY DEF W, Low
  <2>2. W(t)' = W(t)
    BY <1>2, <1>3, <1>4, <2>1
  <2>3. QED BY <1>2, <1>4, <2>1, <2>2
<1>6. Links'
  <2>1. ASSUME NEW k \in Ids, w'[k] # Free PROVE \E t \in Opens' : strm'[t].state = k
    BY <1>2, <1>3, <1>4, <2>1 DEF Core, Links
  <2>2. ASSUME NEW k \in Ids, low'[k] # Free PROVE \E t \in Opens' : (W(t)').priv_data = k
    <3>1. k # p /\ low[k] # Free
      BY <1>2, <2>2
    <3>2. PICK t \in Opens : W(t).priv_data = k
      BY <3>1 DEF Core, Links
    <3>3. QED BY <1>3, <1>5, <3>1, <3>2
  <2>3. ASSUME NEW t \in Opens', NEW u \in Opens', t # u
        PROVE  strm'[t].state # strm'[u].state /\ (W(t)').priv_data # (W(u)').priv_data
    BY <1>2, <1>3, <1>5, <2>3 DEF Core, Links
  <2>4. QED BY <2>1, <2>2, <2>3 DEF Links
<1>7. z_hasGetDictionary' = z_hasGetDictionary
  BY DEF z_hasGetDictionary
<1>8. ASSUME NEW t \in Opens' PROVE SoundStream(t)'
  <2>1. t \in Opens \ {s} /\ SoundStream(t) /\ strm'[t] = strm[t] /\ asked'[t] = asked[t]
    BY <1>2, <1>3, <1>8 DEF Core
  <2>2. QED BY <1>5, <1>7, <2>1 DEF SoundStream
<1>9. QED BY <1>1, <1>6, <1>8 DEF Core

-----------------------------------------------------------------------------
(* What the operations make of a stream                                    *)

\* The parts of a stream that is sound.
LEMMA SoundParts ==
  ASSUME NEW x, NEW l, NEW a, NEW fed, NEW old, Sound(x, l, a, fed, old)
  PROVE  /\ x \in WrapperStates /\ l \in LowStreams /\ a \in Requests
         /\ x.kind \in Kinds /\ x.impl \in Impls /\ x.windowBits \in Formats
         /\ l.format \in Formats /\ a.format \in Formats /\ fed \in BOOLEAN
         /\ l.used \in BOOLEAN /\ l.dict \in BOOLEAN /\ l.head \in BOOLEAN
         /\ a.head \in BOOLEAN /\ a.dict \in BOOLEAN /\ a.lost \in BOOLEAN
BY DEF Sound, WrapperStates, LowStreams, Requests

\* A stream that has just been initialised.
LEMMA NewSound ==
  ASSUME NEW kind \in Kinds, NEW impl \in Impls, NEW b \in BOOLEAN, NEW j \in Ids,
         NEW format \in Formats, NEW old
  PROVE  Sound(NewW(kind, Result(impl, b), j, format), NewLow(kind, impl, format),
               NewAsked(kind, format), FALSE, old)
BY DEF Sound, SoundInflate, SoundDeflate, NewW, NewLow, NewAsked, Result, StaysSwitchable,
       WrapperStates, LowStreams, Requests, Kinds

\* deflate and inflateSync: data is taken or not.
LEMMA FedSound ==
  ASSUME NEW x, NEW l, NEW a, NEW fed, NEW old, Sound(x, l, a, fed, old),
         NEW took \in BOOLEAN, NEW used \in BOOLEAN, took \/ l.used => used
  PROVE  Sound(x, [l EXCEPT !.used = used], [a EXCEPT !.data = a.data \/ took], fed \/ took, old)
<1> DEFINE m == [l EXCEPT !.used = used]
           b == [a EXCEPT !.data = a.data \/ took]
<1>1. m \in LowStreams /\ b \in Requests
  BY SoundParts DEF Sound, LowStreams, Requests
<1>2. /\ m.kind = l.kind /\ m.impl = l.impl /\ m.format = l.format /\ m.head = l.head
      /\ m.dict = l.dict /\ m.used = used
      /\ b.kind = a.kind /\ b.format = a.format /\ b.head = a.head /\ b.dict = a.dict
      /\ b.lost = a.lost /\ b.data = (a.data \/ took)
  BY SoundParts DEF LowStreams, Requests
<1>3. a.data = fed /\ (a.data => l.used)
  BY DEF Sound
<1> HIDE DEF m, b
<1>4. SoundInflate(x, l, a, old) => SoundInflate(x, m, b, old)
  BY <1>2 DEF SoundInflate
<1>5. SoundDeflate(x, l, a) => SoundDeflate(x, m, b)
  BY <1>2 DEF SoundDeflate
<1>6. Sound(x, m, b, fed \/ took, old)
  BY <1>1, <1>2, <1>3, <1>4, <1>5 DEF Sound
<1>7. QED BY <1>6 DEF m, b

\* A reset below.
LEMMA ResetLowParts ==
  ASSUME NEW l \in LowStreams, NEW format \in Formats
  PROVE  /\ ResetLow(l, format) \in LowStreams
         /\ ResetLow(l, format).kind = l.kind /\ ResetLow(l, format).impl = l.impl
         /\ ResetLow(l, format).format = format /\ ~ResetLow(l, format).dict
         /\ l.kind = "deflate" => ResetLow(l, format).head = l.head
<1>1. KeptHead(l) \in BOOLEAN /\ (l.kind = "deflate" => KeptHead(l) = l.head)
  BY DEF KeptHead, LowStreams
<1>2. l.kind \in Kinds /\ l.impl \in Impls
  BY DEF LowStreams
<1>3. NewLow(l.kind, l.impl, format) \in LowStreams
  BY <1>2 DEF NewLow, LowStreams
<1>4. QED BY <1>1, <1>2, <1>3 DEF ResetLow, NewLow, LowStreams

\* deflateReset.
LEMMA DeflateResetSound ==
  ASSUME NEW x, NEW l, NEW a, NEW fed, NEW old, Sound(x, l, a, fed, old), x.kind = "deflate"
  PROVE  Sound(x, ResetLow(l, l.format),
               [NewAsked("deflate", a.format) EXCEPT !.head = a.head, !.lost = a.lost], FALSE, old)
<1> DEFINE m == ResetLow(l, l.format)
           b == [NewAsked("deflate", a.format) EXCEPT !.head = a.head, !.lost = a.lost]
<1>1. l.kind = "deflate" /\ l.impl = x.impl
  BY DEF Sound
<1>2. /\ m \in LowStreams /\ m.kind = "deflate" /\ m.impl = x.impl /\ m.format = l.format
      /\ ~m.dict /\ m.head = l.head
  BY <1>1, ResetLowParts, SoundParts
<1>3. b \in Requests
  BY SoundParts DEF NewAsked, Requests, Kinds
<1>4. /\ b.kind = "deflate" /\ b.format = a.format /\ b.head = a.head /\ ~b.dict /\ ~b.data
      /\ b.lost = a.lost
  BY DEF NewAsked
<1> HIDE DEF m, b
<1>5. SoundDeflate(x, m, b)
  BY <1>2, <1>4 DEF Sound, SoundDeflate
<1>6. l.format \in {a.format, x.windowBits} /\ x \in WrapperStates /\ b.data = FALSE
  BY <1>3, <1>4 DEF Sound, Requests
<1>7. Sound(x, m, b, FALSE, old)
  BY <1>2, <1>3, <1>4, <1>5, <1>6 DEF Sound
<1>8. QED BY <1>7 DEF m, b

\* inflateReset and inflateReset2 forget what was asked; the second may change the format.
LEMMA InflateResetSound ==
  ASSUME NEW x, NEW l, NEW a, NEW fed, NEW old, Sound(x, l, a, fed, old), x.kind = "inflate",
         NEW y \in WrapperStates, y.kind = x.kind, y.impl = x.impl, y.windowBits = x.windowBits,
         NEW low_format \in Formats, NEW format \in Formats, low_format \in {format, x.windowBits}
  PROVE  Sound(y, ResetLow(l, low_format), NewAsked("inflate", format), FALSE, old)
<1> DEFINE m == ResetLow(l, low_format)
           b == NewAsked("inflate", format)
<1>1. l.kind = "inflate" /\ l.impl = x.impl
  BY DEF Sound
<1>2. /\ m \in LowStreams /\ m.kind = "inflate" /\ m.impl = x.impl /\ m.format = low_format
      /\ ~m.dict
  BY <1>1, ResetLowParts, SoundParts
<1>3. b \in Requests
  BY DEF NewAsked, Requests, Kinds
<1>4. /\ b.kind = "inflate" /\ b.format = format /\ ~b.head /\ ~b.dict /\ b.data = FALSE /\ ~b.lost
  BY DEF NewAsked
<1> HIDE DEF m, b
<1>5. SoundInflate(y, m, b, old)
  BY <1>2, <1>4 DEF SoundInflate
<1>6. Sound(y, m, b, FALSE, old)
  BY <1>2, <1>3, <1>4, <1>5 DEF Sound
<1>7. QED BY <1>6 DEF m, b

\* deflateCopy.
LEMMA CopySound ==
  ASSUME NEW x, NEW l, NEW a, NEW fed, NEW old, Sound(x, l, a, fed, old), NEW j \in Ids
  PROVE  Sound(CopiedW(x, j), l, a, fed, old)
BY SoundParts DEF Sound, SoundInflate, SoundDeflate, WrapperStates, LowStreams, Requests, CopiedW

\* deflateSetDictionary and deflateSetHeader.
LEMMA SetDictionarySound ==
  ASSUME NEW x, NEW l, NEW a, NEW fed, NEW old, Sound(x, l, a, fed, old), x.kind = "deflate"
  PROVE  /\ Sound(x, [l EXCEPT !.dict = TRUE], [a EXCEPT !.dict = TRUE], fed, old)
         /\ Sound(x, [l EXCEPT !.head = TRUE], [a EXCEPT !.head = TRUE], fed, old)
<1>1. Sound(x, [l EXCEPT !.dict = TRUE], [a EXCEPT !.dict = TRUE], fed, old)
  BY SoundParts DEF Sound, SoundDeflate, WrapperStates, LowStreams, Requests
<1>2. Sound(x, [l EXCEPT !.head = TRUE], [a EXCEPT !.head = TRUE], fed, old)
  BY SoundParts DEF Sound, SoundDeflate, WrapperStates, LowStreams, Requests
<1>3. QED BY <1>1, <1>2

\* deflatePrime and inflatePrime.
LEMMA PrimeSound ==
  ASSUME NEW x, NEW l, NEW a, NEW fed, NEW old, Sound(x, l, a, fed, old)
  PROVE  Sound(x, [l EXCEPT !.primed = TRUE], [a EXCEPT !.primed = TRUE], fed, old)
BY SoundParts DEF Sound, SoundInflate, SoundDeflate, WrapperStates, LowStreams, Requests

\* deflateParams, when the stream starts again in software.
LEMMA RestartSound ==
  ASSUME NEW x, NEW l, NEW a, NEW fed, NEW old, Sound(x, l, a, fed, old), x.kind = "deflate",
         fed = FALSE, NEW j \in Ids, NEW y, y = [x EXCEPT !.impl = "SW", !.priv_data = j],
         NEW lost \in BOOLEAN, a.lost \/ l.dict \/ l.head => lost
  PROVE  Sound(y, NewLow("deflate", "SW", x.windowBits), [a EXCEPT !.lost = lost], FALSE, old)
<1> DEFINE m == NewLow("deflate", "SW", x.windowBits)
           b == [a EXCEPT !.lost = lost]
<1>1. x.windowBits = a.format /\ ~x.dictionary /\ a.data = FALSE /\ a.kind = "deflate"
      /\ (~a.lost => (l.dict <=> a.dict) /\ (a.head /\ l.format = "gzip" => l.head))
      /\ (l.format = a.format)
  BY SoundParts DEF Sound, SoundDeflate
<1>2. /\ y \in WrapperStates /\ y.kind = "deflate" /\ y.impl = "SW"
      /\ y.windowBits = x.windowBits /\ ~y.dictionary
  <2>1. x \in WrapperStates
    BY SoundParts
  <2>2. y \in WrapperStates /\ y.kind = x.kind /\ y.impl = "SW"
        /\ y.windowBits = x.windowBits /\ y.dictionary = x.dictionary
    BY <2>1 DEF WrapperStates, Impls
  <2>3. QED BY <1>1, <2>2
<1>3. /\ m \in LowStreams /\ m.kind = "deflate" /\ m.impl = "SW" /\ m.format = x.windowBits
      /\ ~m.dict
  BY SoundParts DEF NewLow, LowStreams, Impls, Kinds
<1>4. /\ b \in Requests /\ b.kind = a.kind /\ b.format = a.format /\ b.data = a.data
      /\ b.dict = a.dict /\ b.head = a.head /\ b.lost = lost
  BY SoundParts DEF Requests
<1> HIDE DEF m, b
<1>5. SoundDeflate(y, m, b)
  BY <1>1, <1>2, <1>3, <1>4, SoundParts DEF SoundDeflate
<1>6. Sound(y, m, b, FALSE, old)
  BY <1>1, <1>2, <1>3, <1>4, <1>5 DEF Sound
<1>7. QED BY <1>6 DEF m, b

\* inflateGetHeader.
LEMMA GetHeaderSound ==
  ASSUME NEW x, NEW l, NEW a, NEW fed, NEW old, Sound(x, l, a, fed, old), x.kind = "inflate"
  PROVE  Sound([x EXCEPT !.gzhead = TRUE], GotHeader(x, l), [a EXCEPT !.head = TRUE], fed, old)
BY SoundParts DEF Sound, SoundInflate, SoundDeflate, WrapperStates, LowStreams, Requests,
   GotHeader, z_inflateGetHeader

\* inflateSetDictionary.
LEMMA InflateSetDictionarySound ==
  ASSUME NEW x, NEW l, NEW a, NEW fed, Sound(x, l, a, fed, ~z_hasGetDictionary),
         x.kind = "inflate", NEW accepts \in BOOLEAN
  PROVE  Sound(CopiedDictionary(x), [l EXCEPT !.dict = l.dict \/ accepts],
               [a EXCEPT !.dict = a.dict \/ accepts], fed, ~z_hasGetDictionary)
BY SoundParts DEF Sound, SoundInflate, SoundDeflate, WrapperStates, LowStreams, Requests,
   CopiedDictionary, z_hasGetDictionary

\* inflate without a switch.
LEMMA CalledSound ==
  ASSUME NEW x, NEW l, NEW a, NEW fed, NEW old, Sound(x, l, a, fed, old), NEW took \in BOOLEAN
  PROVE  Sound([x EXCEPT !.allow_switching = FALSE], [l EXCEPT !.used = l.used \/ took],
               [a EXCEPT !.data = a.data \/ took], fed \/ took, old)
<1>1. x \in WrapperStates
  BY SoundParts
<1>2. Sound([x EXCEPT !.allow_switching = FALSE], l, a, fed, old)
  BY <1>1 DEF Sound, SoundInflate, SoundDeflate, WrapperStates
<1>3. QED BY <1>2, FedSound, SoundParts

\* Starting again below with format, header and dictionary.
LEMMA SwitchedSound ==
  ASSUME NEW x, NEW l, NEW a, NEW fed, Sound(x, l, a, fed, ~z_hasGetDictionary),
         x.kind = "inflate", fed = FALSE, NEW j \in Ids, NEW impl \in Impls, NEW allow \in BOOLEAN,
         NEW y, y = [x EXCEPT !.impl = impl, !.priv_data = j, !.allow_switching = allow],
         NEW had, had = inflateGetDictionary(x, l)
  PROVE  Sound(IF had THEN CopiedDictionary(y) ELSE y,
               DictionaryAgain(HeaderAgain(y, NewLow("inflate", impl, x.windowBits)), had),
               a, FALSE, ~z_hasGetDictionary)
<1> DEFINE n == NewLow("inflate", impl, x.windowBits)
           z == IF had THEN CopiedDictionary(y) ELSE y
           m == DictionaryAgain(HeaderAgain(y, n), had)
<1>1. had \in BOOLEAN /\ x \in WrapperStates /\ x.windowBits \in Formats
  BY SoundParts DEF inflateGetDictionary, WrapperStates
<1>2. /\ a.kind = "inflate" /\ a \in Requests /\ ~a.lost /\ a.data = FALSE
      /\ (a.head => x.gzhead) /\ (a.dict => had) /\ (had => a.dict \/ x.dictionary)
  <2>1. /\ a.kind = "inflate" /\ a.data = FALSE /\ a \in Requests /\ x.impl \in Impls
        /\ SoundInflate(x, l, a, ~z_hasGetDictionary)
    <3>1. fed = FALSE /\ a \in Requests /\ x.impl \in Impls
      BY SoundParts
    <3>2. QED BY <3>1 DEF Sound
  <2>2. ~a.lost /\ (a.head => x.gzhead) /\ (a.dict => l.dict) /\ (l.dict => a.dict \/ x.dictionary)
    BY <2>1 DEF SoundInflate
  <2>3. CASE x.impl = "HW" \/ z_hasGetDictionary
    BY <2>1, <2>2, <2>3 DEF inflateGetDictionary
  <2>4. CASE ~(x.impl = "HW" \/ z_hasGetDictionary)
    BY <2>1, <2>2, <2>4 DEF inflateGetDictionary, SoundInflate, Impls
  <2>5. QED BY <2>3, <2>4
<1>3. /\ y \in WrapperStates /\ y.kind = "inflate" /\ y.impl = impl /\ y.windowBits = x.windowBits
      /\ y.gzhead = x.gzhead /\ y.dictionary = x.dictionary
  BY <1>1 DEF WrapperStates
<1>4. /\ z \in WrapperStates /\ z.kind = "inflate" /\ z.impl = impl /\ z.windowBits = x.windowBits
      /\ z.gzhead = x.gzhead
      /\ (x.dictionary \/ (had /\ impl = "SW" /\ ~z_hasGetDictionary) => z.dictionary)
  BY <1>1, <1>3 DEF CopiedDictionary, WrapperStates
<1>5. n \in LowStreams /\ n.kind = "inflate" /\ n.impl = impl /\ n.format = x.windowBits
  BY <1>1 DEF NewLow, LowStreams, Kinds
<1> HIDE DEF n
<1>6. /\ HeaderAgain(y, n) \in LowStreams /\ HeaderAgain(y, n).kind = "inflate"
      /\ HeaderAgain(y, n).impl = impl /\ HeaderAgain(y, n).format = x.windowBits
      /\ (y.gzhead /\ x.windowBits = "gzip" => HeaderAgain(y, n).head)
  BY <1>3, <1>5 DEF HeaderAgain, GotHeader, z_inflateGetHeader, LowStreams, Impls
<1>7. /\ m \in LowStreams /\ m.kind = "inflate" /\ m.impl = impl /\ m.format = x.windowBits
      /\ m.dict = had /\ m.head = HeaderAgain(y, n).head
  BY <1>1, <1>6 DEF DictionaryAgain, LowStreams
<1> HIDE DEF z, m
<1>8. SoundInflate(z, m, a, ~z_hasGetDictionary)
  BY <1>2, <1>3, <1>4, <1>6, <1>7 DEF SoundInflate
<1>9. Sound(z, m, a, FALSE, ~z_hasGetDictionary)
  BY <1>2, <1>4, <1>7, <1>8 DEF Sound
<1>10. QED BY <1>9 DEF z, m, n

-----------------------------------------------------------------------------
(* The operations                                                          *)

\* An open stream is sound.
LEMMA OpenSound ==
  ASSUME Core, NEW s \in Streams, NEW kind, Open(s, kind)
  PROVE  /\ s \in Opens /\ W(s).kind = kind
         /\ Sound(W(s), Low(s), asked[s], strm[s].fed, ~z_hasGetDictionary)
BY DEF Open, Opens, Core, SoundStream

\* What an action leaves alone it could have assigned to itself.
LEMMA Unchanged ==
  ASSUME Core, NEW s \in Opens
  PROVE  /\ w = [w EXCEPT ![strm[s].state] = W(s)] /\ low = [low EXCEPT ![W(s).priv_data] = Low(s)]
         /\ strm = [strm EXCEPT ![s].fed = strm[s].fed]
         /\ asked = [asked EXCEPT ![s] = asked[s]]
<1>1. w = [w EXCEPT ![strm[s].state] = W(s)]
  BY OpenObjects DEF Core, TypeOK
<1>2. low = [low EXCEPT ![W(s).priv_data] = Low(s)]
  BY OpenObjects DEF Core, TypeOK
<1>3. asked = [asked EXCEPT ![s] = asked[s]]
  BY OpenObjects DEF Core, TypeOK
<1>4. strm = [strm EXCEPT ![s].fed = strm[s].fed]
  <2>1. strm[s] = [strm[s] EXCEPT !.fed = strm[s].fed]
    BY OpenObjects DEF Core, TypeOK
  <2>2. strm = [strm EXCEPT ![s] = strm[s]]
    BY OpenObjects DEF Core, TypeOK
  <2>3. QED BY <2>1, <2>2
<1>5. QED BY <1>1, <1>2, <1>3, <1>4

LEMMA EndStep ==
  ASSUME Core, NEW s \in Streams, deflateEnd(s) \/ inflateEnd(s)
  PROVE  Core'
BY OpenSound, Ended DEF deflateEnd, inflateEnd, End, __deflateEnd, __inflateEnd

LEMMA DeflateResetStep ==
  ASSUME Core, NEW s \in Streams, deflateReset(s)
  PROVE  Core'
<1>1. /\ s \in Opens /\ W(s).kind = "deflate"
      /\ Sound(W(s), Low(s), asked[s], strm[s].fed, ~z_hasGetDictionary)
  BY OpenSound DEF deflateReset
<1>2. Sound(W(s), ResetLow(Low(s), Low(s).format),
            [NewAsked("deflate", asked[s].format) EXCEPT !.head = asked[s].head,
                                                         !.lost = asked[s].lost],
            FALSE, ~z_hasGetDictionary)
  BY <1>1, DeflateResetSound
<1>3. w' = [w EXCEPT ![strm[s].state] = W(s)]
  BY <1>1, Unchanged DEF deflateReset
<1>4. /\ low' = [low EXCEPT ![W(s).priv_data] = ResetLow(Low(s), Low(s).format)]
      /\ strm' = [strm EXCEPT ![s].fed = FALSE] /\ cfg' = cfg
      /\ asked' = [asked EXCEPT ![s] = [NewAsked("deflate", asked[s].format) EXCEPT
                                           !.head = asked[s].head, !.lost = asked[s].lost]]
  BY <1>1, OpenObjects DEF deflateReset, Core, TypeOK
<1>5. QED BY <1>1, <1>2, <1>3, <1>4, Changed

LEMMA InflateResetStep ==
  ASSUME Core, NEW s \in Streams, inflateReset(s)
  PROVE  Core'
<1>1. /\ s \in Opens /\ W(s).kind = "inflate"
      /\ Sound(W(s), Low(s), asked[s], strm[s].fed, ~z_hasGetDictionary)
  BY OpenSound DEF inflateReset
<1>2. /\ Forgotten(W(s)) \in WrapperStates /\ Forgotten(W(s)).kind = W(s).kind
      /\ Forgotten(W(s)).impl = W(s).impl /\ Forgotten(W(s)).windowBits = W(s).windowBits
      /\ Forgotten(W(s)).priv_data = W(s).priv_data
  <2>1. W(s) \in WrapperStates
    BY <1>1, SoundParts
  <2>2. QED BY <2>1 DEF Forgotten, WrapperStates
<1>3. Low(s).format \in {asked[s].format, W(s).windowBits}
  BY <1>1 DEF Sound
<1>4. Sound(Forgotten(W(s)), ResetLow(Low(s), Low(s).format), NewAsked("inflate", asked[s].format),
            FALSE, ~z_hasGetDictionary)
  BY <1>1, <1>2, <1>3, SoundParts, InflateResetSound
<1>5. /\ w' = [w EXCEPT ![strm[s].state] = Forgotten(W(s))]
      /\ low' = [low EXCEPT ![W(s).priv_data] = ResetLow(Low(s), Low(s).format)]
      /\ strm' = [strm EXCEPT ![s].fed = FALSE] /\ cfg' = cfg
      /\ asked' = [asked EXCEPT ![s] = NewAsked("inflate", asked[s].format)]
  BY <1>1, OpenObjects DEF inflateReset, Core, TypeOK
<1>6. QED BY <1>1, <1>2, <1>4, <1>5, Changed

LEMMA InflateReset2Step ==
  ASSUME Core, NEW s \in Streams, NEW format \in Formats, inflateReset2(s, format)
  PROVE  Core'
<1> DEFINE y == [W(s) EXCEPT !.allow_switching = TRUE, !.dictionary = FALSE]
<1>1. /\ s \in Opens /\ W(s).kind = "inflate"
      /\ Sound(W(s), Low(s), asked[s], strm[s].fed, ~z_hasGetDictionary)
  BY OpenSound DEF inflateReset2
<1>2. /\ y \in WrapperStates /\ y.kind = W(s).kind /\ y.impl = W(s).impl
      /\ y.windowBits = W(s).windowBits /\ y.priv_data = W(s).priv_data
  <2>1. W(s) \in WrapperStates
    BY <1>1, SoundParts
  <2>2. QED BY <2>1 DEF WrapperStates
<1>3. /\ w' = [w EXCEPT ![strm[s].state] = y]
      /\ low' = [low EXCEPT ![W(s).priv_data] = ResetLow(Low(s), format)]
      /\ strm' = [strm EXCEPT ![s].fed = FALSE] /\ cfg' = cfg
      /\ asked' = [asked EXCEPT ![s] = NewAsked("inflate", format)]
  BY <1>1, OpenObjects DEF inflateReset2, Core, TypeOK
<1> HIDE DEF y
<1>4. Sound(y, ResetLow(Low(s), format), NewAsked("inflate", format), FALSE, ~z_hasGetDictionary)
  BY <1>1, <1>2, InflateResetSound
<1>5. QED BY <1>1, <1>2, <1>3, <1>4, Changed

LEMMA DeflateStep ==
  ASSUME Core, NEW s \in Streams, NEW n \in Sizes, deflate(s, n)
  PROVE  Core'
<1>1. s \in Opens /\ Sound(W(s), Low(s), asked[s], strm[s].fed, ~z_hasGetDictionary)
  BY OpenSound DEF deflate
<1>2. PICK took \in BOOLEAN, wrote \in BOOLEAN :
        /\ low' = [low EXCEPT ![W(s).priv_data] =
                      [low[W(s).priv_data] EXCEPT !.used = low[W(s).priv_data].used \/ took \/ wrote]]
        /\ strm' = [strm EXCEPT ![s].fed = strm[s].fed \/ took]
        /\ asked' = [asked EXCEPT ![s] = [asked[s] EXCEPT !.data = asked[s].data \/ took]]
        /\ w' = w /\ cfg' = cfg
  BY DEF deflate
<1>3. Sound(W(s), [Low(s) EXCEPT !.used = Low(s).used \/ took \/ wrote],
            [asked[s] EXCEPT !.data = asked[s].data \/ took], strm[s].fed \/ took,
            ~z_hasGetDictionary)
  BY <1>1, FedSound, SoundParts
<1>4. w' = [w EXCEPT ![strm[s].state] = W(s)]
  BY <1>1, <1>2, Unchanged
<1>5. low' = [low EXCEPT ![W(s).priv_data] = [Low(s) EXCEPT !.used = Low(s).used \/ took \/ wrote]]
  BY <1>2 DEF Low
<1>6. QED BY <1>1, <1>2, <1>3, <1>4, <1>5, Changed

LEMMA InflateSyncStep ==
  ASSUME Core, NEW s \in Streams, NEW n \in Sizes, inflateSync(s, n)
  PROVE  Core'
<1>1. s \in Opens /\ Sound(W(s), Low(s), asked[s], strm[s].fed, ~z_hasGetDictionary)
  BY OpenSound DEF inflateSync
<1>2. Sound(W(s), [Low(s) EXCEPT !.used = TRUE], [asked[s] EXCEPT !.data = TRUE], TRUE,
            ~z_hasGetDictionary)
  <2>1. Sound(W(s), [Low(s) EXCEPT !.used = TRUE], [asked[s] EXCEPT !.data = asked[s].data \/ TRUE],
              strm[s].fed \/ TRUE, ~z_hasGetDictionary)
    BY <1>1, FedSound, SoundParts
  <2>2. (asked[s].data \/ TRUE) = TRUE /\ (strm[s].fed \/ TRUE) = TRUE
    OBVIOUS
  <2>3. QED BY <2>1, <2>2
<1>3. w' = [w EXCEPT ![strm[s].state] = W(s)]
  BY <1>1, Unchanged DEF inflateSync
<1>4. /\ low' = [low EXCEPT ![W(s).priv_data] = [Low(s) EXCEPT !.used = TRUE]]
      /\ asked' = [asked EXCEPT ![s] = [asked[s] EXCEPT !.data = TRUE]]
      /\ strm' = [strm EXCEPT ![s].fed = TRUE] /\ cfg' = cfg
  BY DEF inflateSync, Low
<1>5. QED BY <1>1, <1>2, <1>3, <1>4, Changed

\* deflateSetDictionary, deflateSetHeader, deflatePrime and inflatePrime.
LEMMA SettingStep ==
  ASSUME Core, NEW s \in Streams,
         deflateSetDictionary(s) \/ deflateSetHeader(s) \/ deflatePrime(s) \/ inflatePrime(s)
  PROVE  Core'
<1>1. /\ s \in Opens
      /\ Sound(W(s), Low(s), asked[s], strm[s].fed, ~z_hasGetDictionary)
      /\ deflateSetDictionary(s) \/ deflateSetHeader(s) => W(s).kind = "deflate"
  BY OpenSound DEF deflateSetDictionary, deflateSetHeader, deflatePrime, inflatePrime
<1>2. w' = w /\ strm' = strm /\ cfg' = cfg
  BY DEF deflateSetDictionary, deflateSetHeader, deflatePrime, inflatePrime, Prime
<1>3. w' = [w EXCEPT ![strm[s].state] = W(s)] /\ strm' = [strm EXCEPT ![s].fed = strm[s].fed]
  BY <1>1, <1>2, Unchanged
<1>4. CASE deflateSetDictionary(s)
  <2>1. Sound(W(s), [Low(s) EXCEPT !.dict = TRUE], [asked[s] EXCEPT !.dict = TRUE],
              strm[s].fed, ~z_hasGetDictionary)
    BY <1>1, <1>4, SetDictionarySound
  <2>2. /\ low' = [low EXCEPT ![W(s).priv_data] = [Low(s) EXCEPT !.dict = TRUE]]
        /\ asked' = [asked EXCEPT ![s] = [asked[s] EXCEPT !.dict = TRUE]]
    BY <1>4 DEF deflateSetDictionary, Low
  <2>3. QED BY <1>1, <1>2, <1>3, <2>1, <2>2, Changed
<1>5. CASE deflateSetHeader(s)
  <2>1. Sound(W(s), [Low(s) EXCEPT !.head = TRUE], [asked[s] EXCEPT !.head = TRUE],
              strm[s].fed, ~z_hasGetDictionary)
    BY <1>1, <1>5, SetDictionarySound
  <2>2. /\ low' = [low EXCEPT ![W(s).priv_data] = [Low(s) EXCEPT !.head = TRUE]]
        /\ asked' = [asked EXCEPT ![s] = [asked[s] EXCEPT !.head = TRUE]]
    BY <1>5 DEF deflateSetHeader, Low
  <2>3. QED BY <1>1, <1>2, <1>3, <2>1, <2>2, Changed
<1>6. CASE deflatePrime(s) \/ inflatePrime(s)
  <2>1. Sound(W(s), [Low(s) EXCEPT !.primed = TRUE], [asked[s] EXCEPT !.primed = TRUE],
              strm[s].fed, ~z_hasGetDictionary)
    BY <1>1, PrimeSound
  <2>2. /\ low' = [low EXCEPT ![W(s).priv_data] = [Low(s) EXCEPT !.primed = TRUE]]
        /\ asked' = [asked EXCEPT ![s] = [asked[s] EXCEPT !.primed = TRUE]]
    BY <1>6 DEF deflatePrime, inflatePrime, Prime, Low
  <2>3. QED BY <1>1, <1>2, <1>3, <2>1, <2>2, Changed
<1>7. QED BY <1>4, <1>5, <1>6

LEMMA GetHeaderStep ==
  ASSUME Core, NEW s \in Streams, inflateGetHeader(s)
  PROVE  Core'
<1>1. /\ s \in Opens /\ W(s).kind = "inflate"
      /\ Sound(W(s), Low(s), asked[s], strm[s].fed, ~z_hasGetDictionary)
  BY OpenSound DEF inflateGetHeader
<1>2. Sound([W(s) EXCEPT !.gzhead = TRUE], GotHeader(W(s), Low(s)),
            [asked[s] EXCEPT !.head = TRUE], strm[s].fed, ~z_hasGetDictionary)
  BY <1>1, GetHeaderSound
<1>3. strm' = [strm EXCEPT ![s].fed = strm[s].fed]
  BY <1>1, Unchanged DEF inflateGetHeader
<1>4. /\ w' = [w EXCEPT ![strm[s].state] = [W(s) EXCEPT !.gzhead = TRUE]]
      /\ low' = [low EXCEPT ![W(s).priv_data] = GotHeader(W(s), Low(s))]
      /\ asked' = [asked EXCEPT ![s] = [asked[s] EXCEPT !.head = TRUE]] /\ cfg' = cfg
  BY <1>1, OpenObjects DEF inflateGetHeader, Core, TypeOK
<1>5. [W(s) EXCEPT !.gzhead = TRUE].priv_data = W(s).priv_data
  BY <1>1, OpenObjects DEF WrapperStates
<1>6. QED BY <1>1, <1>2, <1>3, <1>4, <1>5, Changed

LEMMA InflateSetDictionaryStep ==
  ASSUME Core, NEW s \in Streams, inflateSetDictionary(s)
  PROVE  Core'
<1>1. /\ s \in Opens /\ W(s).kind = "inflate"
      /\ Sound(W(s), Low(s), asked[s], strm[s].fed, ~z_hasGetDictionary)
  BY OpenSound DEF inflateSetDictionary
<1>2. PICK ok \in BOOLEAN :
        /\ low' = [low EXCEPT ![W(s).priv_data] =
                      [Low(s) EXCEPT !.dict = Low(s).dict \/ AcceptsDictionary(W(s), Low(s), ok)]]
        /\ asked' = [asked EXCEPT ![s] =
                        [asked[s] EXCEPT !.dict = asked[s].dict \/ AcceptsDictionary(W(s), Low(s), ok)]]
  BY DEF inflateSetDictionary, Low
<1>3. AcceptsDictionary(W(s), Low(s), ok) \in BOOLEAN
  BY DEF AcceptsDictionary, h_inflateSetDictionary, z_inflateSetDictionary
<1>4. Sound(CopiedDictionary(W(s)),
            [Low(s) EXCEPT !.dict = Low(s).dict \/ AcceptsDictionary(W(s), Low(s), ok)],
            [asked[s] EXCEPT !.dict = asked[s].dict \/ AcceptsDictionary(W(s), Low(s), ok)],
            strm[s].fed, ~z_hasGetDictionary)
  BY <1>1, <1>3, InflateSetDictionarySound
<1>5. strm' = [strm EXCEPT ![s].fed = strm[s].fed]
  BY <1>1, Unchanged DEF inflateSetDictionary
<1>6. w' = [w EXCEPT ![strm[s].state] = CopiedDictionary(W(s))] /\ cfg' = cfg
  BY <1>1, OpenObjects DEF inflateSetDictionary, Core, TypeOK
<1>7. CopiedDictionary(W(s)).priv_data = W(s).priv_data
  BY <1>1, OpenObjects DEF WrapperStates, CopiedDictionary
<1>8. QED BY <1>1, <1>2, <1>4, <1>5, <1>6, <1>7, Changed

\* A stream that is not open changes total_in only.
LEMMA FedChanged ==
  ASSUME Core, NEW s \in Streams \ Opens, NEW fed \in BOOLEAN,
         strm' = [strm EXCEPT ![s].fed = fed], UNCHANGED <<cfg, w, low, asked>>
  PROVE  Core'
<1>1. /\ \A t \in Streams : strm'[t].state = strm[t].state
      /\ \A t \in Streams \ {s} : strm'[t] = strm[t]
      /\ strm' \in [Streams -> [state : Ids \cup {None}, fed : BOOLEAN]]
  BY DEF Core, TypeOK
<1>2. TypeOK'
  BY <1>1 DEF Core, TypeOK
<1>3. Opens' = Opens /\ Opens \subseteq Streams \ {s}
  BY <1>1 DEF Opens
<1>4. \A t \in Opens : W(t)' = W(t) /\ Low(t)' = Low(t)
  BY <1>1, <1>3 DEF W, Low
<1>5. Links'
  BY <1>1, <1>3, <1>4 DEF Core, Links
<1>6. z_hasGetDictionary' = z_hasGetDictionary
  BY DEF z_hasGetDictionary
<1>7. ASSUME NEW t \in Opens PROVE SoundStream(t)'
  <2>1. SoundStream(t) /\ strm'[t] = strm[t] /\ asked'[t] = asked[t]
    BY <1>1, <1>3 DEF Core
  <2>2. QED BY <1>4, <1>6, <2>1 DEF SoundStream
<1>8. QED BY <1>2, <1>3, <1>5, <1>7 DEF Core

\* How opening can end.
LEMMA TriesResults ==
  ASSUME NEW impl \in Impls, NEW place, NEW r \in Tries(impl, place)
  PROVE  \/ r = Failed /\ (place \in SwFails \/ ~SwLoaded)
         \/ \E i \in Impls, b \in BOOLEAN : r = Result(i, b) /\ r # Failed
<1>1. \A i \in Impls, b \in BOOLEAN : Result(i, b) # Failed
  BY DEF Result, Failed, Impls
<1>2. \/ r \in SwResults(place)
      \/ \E i \in Impls, b \in BOOLEAN : r = Result(i, b)
  BY DEF Tries, SwAgain, Impls
<1>3. r \in SwResults(place) => r = Failed /\ (place \in SwFails \/ ~SwLoaded)
  BY DEF SwResults
<1>4. QED BY <1>1, <1>2, <1>3

LEMMA OpenedStep ==
  ASSUME Core, NEW s \in Streams, NEW kind \in Kinds, NEW impl \in Impls,
         NEW r \in Tries(impl, "init"), NEW format \in Formats, Opened(s, kind, r, format)
  PROVE  Core'
<1>1. s \in Streams \ Opens /\ HasFree(w) /\ HasFree(low) /\ cfg' = cfg
  BY DEF Opened, Opens
<1>2. CASE r = Failed
  BY <1>1, <1>2, FedChanged DEF Opened
<1>3. CASE r # Failed
  <2>1. PICK i \in Ids, j \in Ids : i = FreeId(w) /\ j = FreeId(low) /\ w[i] = Free /\ low[j] = Free
    BY <1>1, FreeIdFree
  <2>2. PICK m \in Impls, b \in BOOLEAN : r = Result(m, b)
    BY <1>3, TriesResults
  <2>3. r.impl = m
    BY <2>2 DEF Result
  <2>4. Sound(NewW(kind, r, j, format), NewLow(kind, m, format), NewAsked(kind, format), FALSE,
              ~z_hasGetDictionary)
    BY <2>2, NewSound
  <2>5. NewW(kind, r, j, format).priv_data = j
    BY DEF NewW
  <2>6. /\ w' = [w EXCEPT ![i] = NewW(kind, r, j, format)]
        /\ low' = [low EXCEPT ![j] = NewLow(kind, m, format)]
        /\ strm' = [strm EXCEPT ![s] = [state |-> i, fed |-> FALSE]]
        /\ asked' = [asked EXCEPT ![s] = NewAsked(kind, format)]
    BY <1>3, <2>1, <2>3 DEF Opened
  <2>7. QED BY <1>1, <2>1, <2>4, <2>5, <2>6, Added
<1>4. QED BY <1>2, <1>3

LEMMA InitStep ==
  ASSUME Core, NEW s \in Streams, NEW format \in Formats, NEW level0 \in BOOLEAN,
         deflateInit2_(s, format, level0) \/ inflateInit2_(s, format)
  PROVE  Core'
<1>1. cfg.deflate \in Impls /\ cfg.inflate \in Impls /\ FirstImpl(cfg.deflate, level0) \in Impls
  BY DEF Core, TypeOK, FirstImpl, Impls
<1>2. CASE deflateInit2_(s, format, level0)
  <2>1. PICK r \in Tries(FirstImpl(cfg.deflate, level0), "init") : Opened(s, "deflate", r, format)
    BY <1>2 DEF deflateInit2_, __deflateInit2_
  <2>2. QED BY <1>1, <2>1, OpenedStep DEF Kinds
<1>3. CASE inflateInit2_(s, format)
  <2>1. PICK r \in Tries(cfg.inflate, "init") : Opened(s, "inflate", r, format)
    BY <1>3 DEF inflateInit2_, __inflateInit2_
  <2>2. QED BY <1>1, <2>1, OpenedStep DEF Kinds
<1>4. QED BY <1>2, <1>3

LEMMA CopyStep ==
  ASSUME Core, NEW dest \in Streams, NEW source \in Streams, deflateCopy(dest, source)
  PROVE  Core'
<1>1. /\ dest \in Streams \ Opens /\ HasFree(w) /\ HasFree(low) /\ cfg' = cfg
      /\ source \in Opens
      /\ Sound(W(source), Low(source), asked[source], strm[source].fed, ~z_hasGetDictionary)
  BY OpenSound DEF deflateCopy, Opens
<1>2. CASE strm' = [strm EXCEPT ![dest].fed = strm[source].fed] /\ UNCHANGED <<w, low, asked>>
  <2>1. strm[source].fed \in BOOLEAN
    BY <1>1, SoundParts
  <2>2. QED BY <1>1, <1>2, <2>1, FedChanged
<1>3. CASE ~(strm' = [strm EXCEPT ![dest].fed = strm[source].fed] /\ UNCHANGED <<w, low, asked>>)
  <2>1. PICK i \in Ids, j \in Ids : i = FreeId(w) /\ j = FreeId(low) /\ w[i] = Free /\ low[j] = Free
    BY <1>1, FreeIdFree
  <2>2. /\ w' = [w EXCEPT ![i] = CopiedW(W(source), j)]
        /\ low' = [low EXCEPT ![j] = Low(source)]
        /\ strm' = [strm EXCEPT ![dest] = [state |-> i, fed |-> strm[source].fed]]
        /\ asked' = [asked EXCEPT ![dest] = asked[source]]
    BY <1>3, <2>1 DEF deflateCopy
  <2>3. Sound(CopiedW(W(source), j), Low(source), asked[source], strm[source].fed, ~z_hasGetDictionary)
    BY <1>1, CopySound
  <2>4. CopiedW(W(source), j).priv_data = j
    BY <1>1, OpenObjects DEF CopiedW, WrapperStates
  <2>5. QED BY <1>1, <2>1, <2>2, <2>3, <2>4, Added
<1>4. QED BY <1>2, <1>3

\* When the stream below is ended there is room for another.
LEMMA RoomAgain ==
  ASSUME Core, NEW s \in Opens
  PROVE  LET freed == [low EXCEPT ![W(s).priv_data] = Free] IN
         /\ FreeId(freed) \in Ids
         /\ FreeId(freed) = W(s).priv_data \/ low[FreeId(freed)] = Free
         /\ freed \in [Ids -> {Free} \cup LowStreams]
<1> DEFINE freed == [low EXCEPT ![W(s).priv_data] = Free]
<1>1. freed \in [Ids -> {Free} \cup LowStreams]
  BY DEF Core, TypeOK
<1>2. \A k \in Ids : freed[k] = IF k = W(s).priv_data THEN Free ELSE low[k]
  BY DEF Core, TypeOK
<1> HIDE DEF freed
<1>3. HasFree(freed)
  BY <1>2, OpenObjects DEF HasFree
<1>4. FreeId(freed) \in Ids /\ freed[FreeId(freed)] = Free
  BY <1>3, FreeIdFree
<1>5. FreeId(freed) = W(s).priv_data \/ low[FreeId(freed)] = Free
  BY <1>2, <1>4
<1>6. QED BY <1>1, <1>4, <1>5 DEF freed

LEMMA ParamsStep ==
  ASSUME Core, RestartsWork, NEW s \in Streams, NEW level0 \in BOOLEAN, deflateParams(s, level0)
  PROVE  Core'
<1>1. /\ s \in Opens /\ W(s).kind = "deflate" /\ cfg' = cfg
      /\ Sound(W(s), Low(s), asked[s], strm[s].fed, ~z_hasGetDictionary)
  BY OpenSound DEF deflateParams
<1>2. CASE ~Restarts(s, level0)
  <2>1. UNCHANGED vars
    BY <1>2 DEF deflateParams, vars
  <2>2. w' = [w EXCEPT ![strm[s].state] = W(s)] /\ low' = [low EXCEPT ![W(s).priv_data] = Low(s)]
        /\ strm' = [strm EXCEPT ![s].fed = strm[s].fed] /\ asked' = [asked EXCEPT ![s] = asked[s]]
    BY <1>1, <2>1, Unchanged DEF vars
  <2>3. QED BY <1>1, <2>2, Changed
<1>3. CASE Restarts(s, level0)
  <2> DEFINE freed == [low EXCEPT ![W(s).priv_data] = Free]
  <2>1. PICK j \in Ids : /\ j = FreeId(freed)
                         /\ (j = W(s).priv_data \/ low[j] = Free)
                         /\ freed \in [Ids -> {Free} \cup LowStreams]
    BY <1>1, RoomAgain
  <2> PICK lost \in BOOLEAN : lost = (asked[s].lost \/ Low(s).dict \/ Low(s).head)
    OBVIOUS
  <2> DEFINE x == [W(s) EXCEPT !.impl = "SW", !.priv_data = j]
             l == NewLow("deflate", "SW", W(s).windowBits)
             a == [asked[s] EXCEPT !.lost = lost]
  <2>2. PICK r \in Tries(FirstImpl("HW", TRUE), "params") :
          /\ low' = IF r = Failed THEN freed ELSE [freed EXCEPT ![j] = l]
          /\ w' = [w EXCEPT ![strm[s].state] =
                     [W(s) EXCEPT !.impl = "SW", !.priv_data = IF r = Failed THEN W(s).priv_data ELSE j]]
          /\ strm' = [strm EXCEPT ![s].fed = FALSE]
          /\ asked' = [asked EXCEPT ![s] = a]
    <3>1. Restart(s)
      BY <1>3 DEF deflateParams
    <3>2. QED BY <2>1, <3>1 DEF Restart, __deflateInit2_, __deflateEnd, W
  <2>3. r # Failed
    BY TriesResults, <2>2 DEF RestartsWork, FirstImpl, Impls
  <2>4. strm[s].fed = FALSE
    <3>1. strm[s].fed \in BOOLEAN
      BY <1>1, SoundParts
    <3>2. QED BY <1>3, <3>1 DEF Restarts
  <2>5. Sound(x, l, a, FALSE, ~z_hasGetDictionary)
    BY <1>1, <2>4, RestartSound
  <2>6. x.priv_data = j
    BY <1>1, OpenObjects DEF WrapperStates
  <2>7. /\ w' = [w EXCEPT ![strm[s].state] = x] /\ low' = [freed EXCEPT ![j] = l]
        /\ asked' = [asked EXCEPT ![s] = a]
    BY <2>2, <2>3
  <2>8. low' = [low EXCEPT ![W(s).priv_data] = Free, ![j] = l] /\ cfg' = cfg
    BY <2>7, <1>1
  <2> HIDE DEF freed, x, l, a
  <2>9. strm' = [strm EXCEPT ![s].fed = FALSE]
    BY <2>2
  <2>10. QED BY <1>1, <2>1, <2>5, <2>6, <2>7, <2>8, <2>9, Started
<1>4. QED BY <1>2, <1>3

\* The call of the stream below at the end of inflate.
LEMMA CalledStep ==
  ASSUME Core, NEW s \in Opens, NEW x, NEW l, NEW j \in Ids, NEW n, Called(s, x, l, j, n), cfg' = cfg,
         Sound(x, l, asked[s], strm[s].fed, ~z_hasGetDictionary), x.priv_data = j,
         j = W(s).priv_data \/ low[j] = Free
  PROVE  Core'
<1>1. PICK took \in BOOLEAN :
        /\ low' = [low EXCEPT ![W(s).priv_data] = Free,
                              ![j] = [l EXCEPT !.used = l.used \/ took]]
        /\ w' = [w EXCEPT ![strm[s].state] = [x EXCEPT !.allow_switching = FALSE]]
        /\ strm' = [strm EXCEPT ![s].fed = strm[s].fed \/ took]
        /\ asked' = [asked EXCEPT ![s] = [asked[s] EXCEPT !.data = asked[s].data \/ took]]
  BY DEF Called
<1>2. Sound([x EXCEPT !.allow_switching = FALSE], [l EXCEPT !.used = l.used \/ took],
            [asked[s] EXCEPT !.data = asked[s].data \/ took], strm[s].fed \/ took,
            ~z_hasGetDictionary)
  BY CalledSound
<1>3. [x EXCEPT !.allow_switching = FALSE].priv_data = j
  <2>1. x \in WrapperStates
    BY SoundParts
  <2>2. QED BY <2>1 DEF WrapperStates
<1>4. QED BY <1>1, <1>2, <1>3, Started

LEMMA SwitchStep ==
  ASSUME Core, RestartsWork, NEW s \in Opens, W(s).kind = "inflate", NEW n, Undecided(s),
         Switch(s, n), cfg' = cfg
  PROVE  Core'
<1>1. Sound(W(s), Low(s), asked[s], strm[s].fed, ~z_hasGetDictionary)
  BY DEF Core, SoundStream
<1> DEFINE freed == [low EXCEPT ![W(s).priv_data] = Free]
<1>2. PICK j \in Ids : j = FreeId(freed) /\ (j = W(s).priv_data \/ low[j] = Free)
  BY RoomAgain
<1>3. SwitchTo(s) \in Impls
  BY DEF SwitchTo, Core, TypeOK, Impls
<1>4. PICK r \in Tries(SwitchTo(s), "switch") :
        LET had == inflateGetDictionary(W(s), Low(s))
            x == Switched(W(s), r, j)
            l == HeaderAgain(x, NewLow("inflate", r.impl, x.windowBits)) IN
        r # Failed =>
          \/ End(s, freed)
          \/ Called(s, IF had THEN CopiedDictionary(x) ELSE x, DictionaryAgain(l, had), j, n)
  BY <1>2 DEF Switch, __inflateInit2_, __inflateEnd
<1>5. PICK impl \in Impls, b \in BOOLEAN : r = Result(impl, b) /\ r # Failed
  BY <1>3, <1>4, TriesResults DEF RestartsWork
<1>6. PICK allow \in BOOLEAN : allow = StaysSwitchable(r, W(s).allow_switching)
  BY DEF StaysSwitchable
<1>7. PICK had : had = inflateGetDictionary(W(s), Low(s))
  OBVIOUS
<1>8. PICK x : x = Switched(W(s), r, j)
  OBVIOUS
<1>9. r.impl = impl
  BY <1>5 DEF Result
<1>10. W(s) \in WrapperStates
  BY <1>1, SoundParts
<1>11. x = [W(s) EXCEPT !.impl = impl, !.priv_data = j, !.allow_switching = allow]
  BY <1>5, <1>6, <1>8, <1>9 DEF Switched
<1>12. x \in WrapperStates /\ x.windowBits = W(s).windowBits /\ x.priv_data = j
  BY <1>10, <1>11 DEF WrapperStates
<1>13. PICK l : l = HeaderAgain(x, NewLow("inflate", impl, W(s).windowBits))
  OBVIOUS
<1>14. \/ End(s, freed)
       \/ Called(s, IF had THEN CopiedDictionary(x) ELSE x, DictionaryAgain(l, had), j, n)
  BY <1>4, <1>5, <1>7, <1>8, <1>9, <1>12, <1>13
<1>15. strm[s].fed = FALSE
  <2>1. strm[s].fed \in BOOLEAN
    BY <1>1, SoundParts
  <2>2. QED BY <2>1 DEF Undecided
<1>16. Sound(IF had THEN CopiedDictionary(x) ELSE x, DictionaryAgain(l, had), asked[s], strm[s].fed,
             ~z_hasGetDictionary)
  <2>1. PICK x0, l0, a0 : x0 = W(s) /\ l0 = Low(s) /\ a0 = asked[s]
    OBVIOUS
  <2>2. Sound(x0, l0, a0, FALSE, ~z_hasGetDictionary) /\ x0.kind = "inflate"
        /\ had = inflateGetDictionary(x0, l0)
    BY <1>1, <1>7, <1>15, <2>1
  <2>3. x = [x0 EXCEPT !.impl = impl, !.priv_data = j, !.allow_switching = allow]
    BY <1>11, <2>1
  <2>4. Sound(IF had THEN CopiedDictionary(x) ELSE x,
              DictionaryAgain(HeaderAgain(x, NewLow("inflate", impl, x0.windowBits)), had),
              a0, FALSE, ~z_hasGetDictionary)
    BY <2>2, <2>3, SwitchedSound
  <2>5. QED BY <1>13, <1>15, <2>1, <2>4
<1>17. (IF had THEN CopiedDictionary(x) ELSE x).priv_data = j
  BY <1>12 DEF CopiedDictionary, WrapperStates
<1>18. QED BY <1>2, <1>14, <1>16, <1>17, Ended, CalledStep DEF End

LEMMA InflateStep ==
  ASSUME Core, RestartsWork, NEW s \in Streams, NEW n \in Sizes, inflate(s, n)
  PROVE  Core'
<1>1. /\ s \in Opens /\ W(s).kind = "inflate" /\ cfg' = cfg
      /\ Sound(W(s), Low(s), asked[s], strm[s].fed, ~z_hasGetDictionary)
  BY OpenSound DEF inflate
<1>2. CASE WantsSwitch(s, n)
  BY <1>1, <1>2, SwitchStep DEF inflate, WantsSwitch
<1>3. CASE ~WantsSwitch(s, n)
  <2>1. Called(s, W(s), Low(s), W(s).priv_data, n)
    BY <1>3 DEF inflate
  <2>2. W(s).priv_data \in Ids
    BY <1>1, OpenObjects
  <2>3. QED BY <1>1, <2>1, <2>2, CalledStep
<1>4. QED BY <1>2, <1>3

-----------------------------------------------------------------------------
(* The theorems                                                            *)

LEMMA InitZInv == Init => ZInv
<1> SUFFICES ASSUME Init PROVE Core
  BY DEF ZInv, Configured, Core, TypeOK
<1>1. TypeOK
  BY DEF Init, TypeOK
<1>2. Opens = {}
  BY DEF Init, Opens
<1>3. Links
  BY <1>2 DEF Init, Links
<1>4. QED BY <1>1, <1>2, <1>3 DEF Core

\* zlib_set_inflate_impl and zlib_set_deflate_impl are for streams to come.
LEMMA ImplStep ==
  ASSUME Core, NEW i \in Impls, zlib_set_inflate_impl(i) \/ zlib_set_deflate_impl(i)
  PROVE  Core'
<1>1. UNCHANGED <<strm, w, low, asked>>
  BY DEF zlib_set_inflate_impl, zlib_set_deflate_impl
<1>2. cfg' \in [inflate : Impls, deflate : Impls, lib : SwLibs] /\ cfg'.lib = cfg.lib
  BY DEF Core, TypeOK, zlib_set_inflate_impl, zlib_set_deflate_impl
<1>3. TypeOK'
  BY <1>1, <1>2 DEF Core, TypeOK
<1>4. Opens' = Opens /\ \A t \in Opens : W(t)' = W(t) /\ Low(t)' = Low(t)
  BY <1>1 DEF Opens, W, Low
<1>5. Links'
  BY <1>1, <1>4 DEF Core, Links
<1>6. z_hasGetDictionary' = z_hasGetDictionary
  BY <1>2 DEF z_hasGetDictionary
<1>7. ASSUME NEW t \in Opens PROVE SoundStream(t)'
  <2>1. SoundStream(t)
    BY DEF Core
  <2>2. QED BY <1>1, <1>4, <1>6, <2>1 DEF SoundStream
<1>8. QED BY <1>2, <1>3, <1>4, <1>5, <1>7 DEF Core

\* No call changes the zlib that is loaded.
LEMMA LibStays ==
  ASSUME Configured, [Next]_vars
  PROVE  Configured' /\ cfg'.lib = cfg.lib
<1>1. ASSUME NEW i \in Impls, zlib_set_inflate_impl(i) \/ zlib_set_deflate_impl(i)
      PROVE  Configured' /\ cfg'.lib = cfg.lib
  BY <1>1 DEF zlib_set_inflate_impl, zlib_set_deflate_impl, Configured
<1>2. ASSUME NEW s \in Streams,
             \/ \E f \in Formats, l \in BOOLEAN : deflateInit2_(s, f, l)
             \/ \E f \in Formats : inflateInit2_(s, f) \/ inflateReset2(s, f)
             \/ deflateEnd(s) \/ inflateEnd(s) \/ deflateReset(s) \/ inflateReset(s)
      PROVE  cfg' = cfg
  BY <1>2 DEF deflateInit2_, inflateInit2_, Opened, inflateReset2, deflateEnd, inflateEnd, End,
              deflateReset, inflateReset
<1>3. ASSUME NEW s \in Streams,
             \/ \E source \in Streams : deflateCopy(s, source)
             \/ \E n \in Sizes : deflate(s, n) \/ inflate(s, n) \/ inflateSync(s, n)
             \/ deflateSetDictionary(s) \/ deflateSetHeader(s) \/ deflatePrime(s) \/ inflatePrime(s)
             \/ \E l \in BOOLEAN : deflateParams(s, l)
             \/ inflateGetHeader(s) \/ inflateSetDictionary(s)
      PROVE  cfg' = cfg
  BY <1>3 DEF deflateCopy, deflate, inflate, inflateSync, deflateSetDictionary, deflateSetHeader,
              deflatePrime, inflatePrime, Prime, deflateParams, inflateGetHeader, inflateSetDictionary
<1>4. CASE UNCHANGED vars
  BY <1>4 DEF vars, Configured
<1>5. QED BY <1>1, <1>2, <1>3, <1>4 DEF Next, Configured

LEMMA NextZInv ==
  ASSUME ZInv, [Next]_vars
  PROVE  ZInv'
<1> SUFFICES ASSUME RestartsWork' PROVE Core'
  BY LibStays DEF ZInv
<1>1. CASE UNCHANGED vars
  <2>1. Core /\ UNCHANGED <<cfg, strm, w, low, asked>>
    BY <1>1 DEF ZInv, vars, RestartsWork, SwLoaded
  <2>2. Opens' = Opens /\ \A t \in Opens : W(t)' = W(t) /\ Low(t)' = Low(t)
    BY <2>1 DEF Opens, W, Low
  <2>3. TypeOK' /\ Links'
    BY <2>1, <2>2 DEF Core, TypeOK, Links
  <2>4. ASSUME NEW t \in Opens PROVE SoundStream(t)'
    <3>1. SoundStream(t)
      BY <2>1 DEF Core
    <3>2. QED BY <2>1, <2>2, <3>1 DEF SoundStream, z_hasGetDictionary
  <2>5. QED BY <2>2, <2>3, <2>4 DEF Core
<1>2. CASE Next
  <2>1. RestartsWork /\ Core
    BY <1>2, LibStays DEF ZInv, RestartsWork, SwLoaded
  <2>2. ASSUME NEW i \in Impls, zlib_set_inflate_impl(i) \/ zlib_set_deflate_impl(i)
        PROVE  Core'
    BY <2>1, <2>2, ImplStep
  <2>3. ASSUME NEW s \in Streams, NEW f \in Formats, NEW l \in BOOLEAN,
               deflateInit2_(s, f, l) \/ inflateInit2_(s, f) \/ inflateReset2(s, f)
        PROVE  Core'
    BY <2>1, <2>3, InitStep, InflateReset2Step
  <2>4. ASSUME NEW s \in Streams,
               deflateEnd(s) \/ inflateEnd(s) \/ deflateReset(s) \/ inflateReset(s)
        PROVE  Core'
    BY <2>1, <2>4, EndStep, DeflateResetStep, InflateResetStep
  <2>5. ASSUME NEW s \in Streams, NEW source \in Streams, deflateCopy(s, source)
        PROVE  Core'
    BY <2>1, <2>5, CopyStep
  <2>6. ASSUME NEW s \in Streams, NEW n \in Sizes, deflate(s, n) \/ inflate(s, n) \/ inflateSync(s, n)
        PROVE  Core'
    BY <2>1, <2>6, DeflateStep, InflateStep, InflateSyncStep
  <2>7. ASSUME NEW s \in Streams,
               \/ deflateSetDictionary(s) \/ deflateSetHeader(s) \/ deflatePrime(s) \/ inflatePrime(s)
               \/ inflateGetHeader(s) \/ inflateSetDictionary(s)
        PROVE  Core'
    BY <2>1, <2>7, SettingStep, GetHeaderStep, InflateSetDictionaryStep
  <2>8. ASSUME NEW s \in Streams, NEW l \in BOOLEAN, deflateParams(s, l)
        PROVE  Core'
    BY <2>1, <2>8, ParamsStep
  <2>9. QED BY <1>2, <2>2, <2>3, <2>4, <2>5, <2>6, <2>7, <2>8 DEF Next
<1>3. QED BY <1>1, <1>2

\* The invariant of the front end: when software can always take over, every object has its
\* owner and every stream below is what the wrapper state and the application's calls say.
THEOREM WrapperInvariant == Spec => []ZInv
<1>1. Init => ZInv
  BY InitZInv
<1>2. ZInv /\ [Next]_vars => ZInv'
  BY NextZInv
<1>3. QED BY <1>1, <1>2, PTL DEF Spec

\* One owner for every wrapper state and every stream below, however a call of the front end
\* ended: with the switch, a fall back to software, a copy or a refusal.
THEOREM ObjectsOwned == Spec => []Owned
<1>1. ZInv => Owned
  <2> SUFFICES ASSUME Core PROVE Exclusive
    BY DEF ZInv, Owned
  <2>1. \A i \in Ids : w[i] # Free => \E s \in Opens : strm[s].state = i
    BY DEF Core, Links
  <2>2. \A s, t \in Opens : strm[s].state = strm[t].state => s = t
    BY DEF Core, Links
  <2>3. ASSUME NEW s \in Opens
        PROVE  /\ w[strm[s].state] # Free /\ Low(s) # Free
               /\ Low(s).kind = W(s).kind /\ Low(s).impl = W(s).impl
    <3>1. W(s) # Free /\ Low(s) # Free
      BY OpenObjects
    <3>2. QED BY <3>1 DEF Core, SoundStream, Sound, W
  <2>4. ASSUME NEW j \in Ids, low[j] # Free
        PROVE  Cardinality({s \in Opens : W(s).priv_data = j}) = 1
    <3>1. PICK s \in Opens : W(s).priv_data = j
      BY <2>4 DEF Core, Links
    <3>2. {t \in Opens : W(t).priv_data = j} = {s}
      BY <3>1 DEF Core, Links
    <3>3. QED BY <3>2, FS_Singleton
  <2>5. QED BY <2>1, <2>2, <2>3, <2>4 DEF Exclusive
<1>2. QED BY <1>1, WrapperInvariant, PTL

\* Format, dictionary, header and data of every stream survive the switch between hardware and
\* software, fall backs, resets and copies, as far as the wrapper saves them.
THEOREM StreamsKept == Spec => []StreamKept
<1>1. ZInv => StreamKept
  <2> SUFFICES ASSUME Core PROVE TypeOK /\ SettingsKept /\ DataKept
    BY DEF ZInv, StreamKept
  <2>1. ASSUME NEW s \in Opens, ~NotSaved(s) PROVE Kept(s)
    <3>1. PICK x, l, a : x = W(s) /\ l = Low(s) /\ a = asked[s]
      OBVIOUS
    <3>2. /\ Sound(x, l, a, strm[s].fed, ~z_hasGetDictionary)
          /\ x.windowBits = a.format /\ ~a.lost /\ (x.dictionary => a.dict)
      BY <2>1, <3>1 DEF Core, SoundStream, NotSaved
    <3>3. l.format = a.format
      BY <3>2 DEF Sound
    <3>4. (l.dict <=> a.dict) /\ (a.head /\ l.format = "gzip" => l.head)
      <4>1. CASE x.kind = "inflate"
        BY <3>2, <4>1 DEF Sound, SoundInflate
      <4>2. CASE x.kind = "deflate"
        BY <3>2, <4>2 DEF Sound, SoundDeflate
      <4>3. QED BY <3>2, <4>1, <4>2, SoundParts DEF Kinds
    <3>5. l.dict \in BOOLEAN /\ a.dict \in BOOLEAN
      BY <3>2, SoundParts
    <3>6. l.dict = a.dict
      BY <3>4, <3>5
    <3>7. QED BY <3>1, <3>3, <3>4, <3>6 DEF Kept
  <2>2. SettingsKept
    BY <2>1 DEF SettingsKept
  <2>3. DataKept
    BY DEF DataKept, Core, SoundStream, Sound
  <2>4. QED BY <2>2, <2>3 DEF Core
<1>2. QED BY <1>1, WrapperInvariant, PTL
=============================================================================
