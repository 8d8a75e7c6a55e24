-------------------------- MODULE HwHandlesProofs --------------------------
(***************************************************************************)
(* Theorems about HwHandles for any number of threads, streams, cards,     *)
(* handles and pieces of memory: card handles are open while they are used *)
(* and closed once, and memory is given back once and the way it was       *)
(* taken.                                                                  *)
(***************************************************************************)
EXTENDS HwHandles, FiniteSetTheorems, TLAPS

-----------------------------------------------------------------------------
(* The inductive invariant                                                 *)

\* A call that opens or copies a stream is alone in that: its stream is closed, and no other
\* call is about it.  A copy has a workspace of its own, and its source stays open.
CallOK(t) ==
  /\ strm[th[t].for] = Closed
  /\ \A u \in Threads : th[u] # Idle /\ th[u].for = th[t].for => u = t
  /\ th[t].at = "opening" => th[t].device = None
  /\ th[t].from = None => th[t].wsp = None
  /\ th[t].from # None => /\ th[t].wsp # None /\ th[t].kind = "deflate"
                          /\ strm[th[t].from] # Closed /\ strm[th[t].from].kind = "deflate"
CallsOK ==
  /\ cfg.done => \A t \in Threads : th[t] = Idle
  /\ \A t \in Threads : th[t] # Idle => CallOK(t)

\* Does the handle h serve streams of this card and type?
Serves(h, card_no, type) ==
  /\ h \in Handles /\ handle[h] # Free /\ handle[h].card = card_no
  /\ handle[h].type = type \/ (cfg.cache /\ RetypeCached)

\* What the cache has, and what is only used with it.
CacheOK ==
  /\ \A c \in Cards : zedc_cards[c] # None => cfg.cache /\ InCache(c)
  /\ ~cfg.done => \A c \in Cards : zedc_cards[c] # None =>
       handle[zedc_cards[c]] # Free /\ handle[zedc_cards[c]].card = c
  /\ cfg.cache => \A t \in Threads :
       th[t] # Idle /\ ~InCache(th[t].card_no) => th[t].device = None
  /\ cfg.cache /\ ~RetypeCached =>
       /\ \A h \in Handles : handle[h] # Free => handle[h].type = accel.type
       /\ \A t \in Threads : th[t] # Idle => th[t].card_type = accel.type
       /\ \A s \in Streams : strm[s] # Closed => strm[s].card_type = accel.type
  /\ cfg.cache => \A h \in Handles : handle[h] # Free =>
       h \in lost \/ (~cfg.done /\ \E c \in Cards : zedc_cards[c] = h)

\* The handles that streams and calls have are open.
DevicesOK ==
  ~cfg.done =>
    /\ \A s \in Streams : strm[s] # Closed =>
         Serves(strm[s].device, strm[s].card_no, strm[s].card_type)
    /\ ~cfg.cache => \A t \in Threads : th[t] # Idle /\ th[t].device # None =>
         Serves(th[t].device, th[t].card_no, th[t].card_type)

\* Without the cache a handle belongs to one stream or one call.
StreamUses(s, h) == strm[s] # Closed /\ strm[s].device = h
CallUses(t, h) == th[t] # Idle /\ th[t].device = h
Unshared ==
  ~cfg.cache => \A h \in Handles :
    /\ \A s, x \in Streams : StreamUses(s, h) /\ StreamUses(x, h) => s = x
    /\ \A t, u \in Threads : CallUses(t, h) /\ CallUses(u, h) => t = u
    /\ \A s \in Streams, t \in Threads : ~(StreamUses(s, h) /\ CallUses(t, h))
    /\ handle[h] # Free => \/ \E s \in Streams : StreamUses(s, h)
                           \/ \E t \in Threads : CallUses(t, h)

\* Memory in use belongs to one buffer of one stream, to one call, or was leaked.
StreamHas(s, r, p) == strm[s] # Closed /\ strm[s].base[r] = p
CallHas(t, p) == th[t] # Idle /\ th[t].wsp = p
PieceOK(p) ==
  /\ \A s, x \in Streams, r, q \in Roles :
       StreamHas(s, r, p) /\ StreamHas(x, q, p) => s = x /\ r = q
  /\ \A t, u \in Threads : CallHas(t, p) /\ CallHas(u, p) => t = u
  /\ \A s \in Streams, r \in Roles, t \in Threads : ~(StreamHas(s, r, p) /\ CallHas(t, p))
  /\ mem[p] = "free" => p \notin leaked
  /\ mem[p] = "free" \/ p \in leaked =>
       /\ \A s \in Streams, r \in Roles : ~StreamHas(s, r, p)
       /\ \A t \in Threads : ~CallHas(t, p)
  /\ mem[p] # "free" /\ p \notin leaked =>
       \/ \E s \in Streams, r \in Roles : StreamHas(s, r, p)
       \/ \E t \in Threads : CallHas(t, p)
MemoryOK ==
  /\ \A p \in Pieces : PieceOK(p)
  /\ \A s \in Streams : strm[s] # Closed /\ strm[s].kind = "inflate" => strm[s].base["ibuf"] = None

\* How memory for this type and kind is given back, and so was taken.
Kept(type, kind) == IF kind \in cfg.flat /\ type = "GENWQE" THEN "driver" ELSE "heap"
KeptOK ==
  ~RetypeCached =>
    /\ \A s \in Streams, r \in Roles : strm[s] # Closed /\ strm[s].base[r] # None =>
         mem[strm[s].base[r]] = Kept(strm[s].card_type, strm[s].kind)
    /\ \A t \in Threads : th[t] # Idle /\ th[t].wsp # None =>
         mem[th[t].wsp] = Kept(th[t].card_type, "deflate")

HInv ==
  /\ TypeOK /\ CallsOK /\ CacheOK /\ DevicesOK /\ Unshared /\ OpensCounted /\ MemoryOK /\ KeptOK

-----------------------------------------------------------------------------
(* Handles and counters                                                    *)

HandleRecords == {Free} \cup [card : Cards, type : Types]
CallRecords ==
  [at : {"opening", "opened"}, for : Streams, kind : Kinds, card_no : Cards, card_type : Types,
   device : Handles \cup {None}, from : Streams \cup {None}, wsp : Pieces \cup {None}]
StreamRecords ==
  [kind : Kinds, card_no : Cards, card_type : Types, device : Handles,
   base : [Roles -> Pieces \cup {None}]]

\* The fields of a call.
LEMMA CallFields ==
  ASSUME TypeOK, NEW t \in Threads, th[t] # Idle
  PROVE  /\ th[t] \in CallRecords
         /\ th[t].at \in {"opening", "opened"} /\ th[t].for \in Streams /\ th[t].kind \in Kinds
         /\ th[t].card_no \in Cards /\ th[t].card_type \in Types
         /\ th[t].device \in Handles \cup {None} /\ th[t].from \in Streams \cup {None}
         /\ th[t].wsp \in Pieces \cup {None}
<1>1. th[t] \in CallRecords
  BY DEF TypeOK, CallRecords
<1>2. QED
  BY <1>1 DEF CallRecords

\* The fields of a stream.
LEMMA StreamFields ==
  ASSUME TypeOK, NEW s \in Streams, strm[s] # Closed
  PROVE  /\ strm[s] \in StreamRecords
         /\ strm[s].kind \in Kinds /\ strm[s].card_no \in Cards /\ strm[s].card_type \in Types
         /\ strm[s].device \in Handles /\ strm[s].base \in [Roles -> Pieces \cup {None}]
         /\ \A r \in Roles : strm[s].base[r] \in Pieces \cup {None}
<1>1. strm[s] \in StreamRecords
  BY DEF TypeOK, StreamRecords
<1>2. QED
  BY <1>1 DEF StreamRecords

\* Records of calls and streams are not those of idle threads and closed streams.
LEMMA RecordsDiffer ==
  /\ \A x \in CallRecords : x # Idle
  /\ \A x \in StreamRecords : x # Closed
  /\ \A x \in [card : Cards, type : Types] : x # Free
<1>1. \A x \in CallRecords : x # Idle
  BY DEF CallRecords, Idle
<1>2. \A x \in StreamRecords : x # Closed
  BY DEF StreamRecords, Closed, Kinds
<1>3. \A x \in [card : Cards, type : Types] : x # Free
  BY HandlesAssumption DEF Free
<1>4. QED
  BY <1>1, <1>2, <1>3

\* The handles of a type that are open.
OpenOf(hd, a) == {h \in Handles : hd[h] # Free /\ hd[h].type = a}

LEMMA OpenOfFinite ==
  ASSUME NEW hd, NEW a
  PROVE  IsFiniteSet(OpenOf(hd, a)) /\ Cardinality(OpenOf(hd, a)) \in Nat
<1>1. OpenOf(hd, a) \subseteq Handles
  BY DEF OpenOf
<1>2. QED
  BY <1>1, HandlesAssumption, FS_Subset, FS_CardinalityType

\* A handle that opens or closes changes the number of its type by one.
LEMMA OpenOfAdd ==
  ASSUME NEW hd, NEW hx, NEW h \in Handles, hd[h] = Free, hx[h] # Free,
         \A x \in Handles \ {h} : hx[x] = hd[x], NEW a
  PROVE  Cardinality(OpenOf(hx, a)) =
           Cardinality(OpenOf(hd, a)) + IF hx[h].type = a THEN 1 ELSE 0
<1>1. CASE hx[h].type = a
  <2>1. OpenOf(hx, a) = OpenOf(hd, a) \cup {h} /\ h \notin OpenOf(hd, a)
    BY <1>1 DEF OpenOf
  <2>2. Cardinality(OpenOf(hd, a) \cup {h}) = Cardinality(OpenOf(hd, a)) + 1
    BY <2>1, OpenOfFinite, FS_AddElement
  <2>3. QED
    BY <1>1, <2>1, <2>2
<1>2. CASE hx[h].type # a
  <2>1. OpenOf(hx, a) = OpenOf(hd, a)
    BY <1>2 DEF OpenOf
  <2>2. QED
    BY <1>2, <2>1, OpenOfFinite
<1>3. QED
  BY <1>1, <1>2

LEMMA OpenOfRemove ==
  ASSUME NEW hd \in [Handles -> HandleRecords], NEW h \in Handles, hd[h] # Free, NEW a
  PROVE  Cardinality(OpenOf([hd EXCEPT ![h] = Free], a)) =
           Cardinality(OpenOf(hd, a)) - IF hd[h].type = a THEN 1 ELSE 0
<1>1. CASE hd[h].type = a
  <2>1. OpenOf([hd EXCEPT ![h] = Free], a) = OpenOf(hd, a) \ {h} /\ h \in OpenOf(hd, a)
    BY <1>1 DEF OpenOf
  <2>2. Cardinality(OpenOf(hd, a) \ {h}) = Cardinality(OpenOf(hd, a)) - 1
    BY <2>1, OpenOfFinite, FS_RemoveElement
  <2>3. QED
    BY <1>1, <2>1, <2>2
<1>2. CASE hd[h].type # a
  <2>1. OpenOf([hd EXCEPT ![h] = Free], a) = OpenOf(hd, a)
    BY <1>2 DEF OpenOf
  <2>2. QED
    BY <1>2, <2>1, OpenOfFinite
<1>3. QED
  BY <1>1, <1>2

\* The counters, in terms of OpenOf.
Tallied(st, hd) == \A a \in Types : st[a].open - st[a].close = Cardinality(OpenOf(hd, a))
LEMMA OpensTallied == OpensCounted <=> Tallied(stats, handle)
  BY DEF OpensCounted, Tallied, OpenOf

Tallies == [Types -> [open : 0..MaxOpens, close : 0..MaxOpens]]

\* Closing a handle that is open keeps the count, and its bound.
LEMMA CloseTallied ==
  ASSUME NEW st \in Tallies, NEW hd \in [Handles -> HandleRecords], Tallied(st, hd),
         NEW h \in Handles, hd[h] # Free,
         NEW s2, s2 = [st EXCEPT ![hd[h].type]["close"] = @ + 1]
  PROVE  s2 \in Tallies /\ Tallied(s2, [hd EXCEPT ![h] = Free])
<1>1. hd[h].type \in Types
  BY DEF HandleRecords
<1>2. PICK b \in Types : b = hd[h].type
  BY <1>1
<1>3. Cardinality(OpenOf(hd, b)) >= 1
  <2>1. h \in OpenOf(hd, b)
    BY <1>2 DEF OpenOf
  <2>2. QED
    BY <2>1, OpenOfFinite, FS_EmptySet
<1>4. st[b] \in [open : 0..MaxOpens, close : 0..MaxOpens] /\ st[b].open - st[b].close >= 1
  BY <1>3, OpenOfFinite DEF Tallies, Tallied
<1>5. s2 = [st EXCEPT ![b] = [open |-> st[b].open, close |-> st[b].close + 1]]
  <2>1. [st[b] EXCEPT !["close"] = st[b]["close"] + 1] = [open |-> st[b].open, close |-> st[b].close + 1]
    BY <1>4
  <2>2. s2 = [st EXCEPT ![b] = [st[b] EXCEPT !["close"] = st[b]["close"] + 1]]
    BY <1>2
  <2>3. QED
    BY <2>1, <2>2
<1>6. [open |-> st[b].open, close |-> st[b].close + 1] \in [open : 0..MaxOpens, close : 0..MaxOpens]
  BY <1>4, HandlesAssumption
<1>7. s2 \in Tallies
  BY <1>5, <1>6 DEF Tallies
<1>8. Tallied(s2, [hd EXCEPT ![h] = Free])
  <2> SUFFICES ASSUME NEW a \in Types
               PROVE  s2[a].open - s2[a].close = Cardinality(OpenOf([hd EXCEPT ![h] = Free], a))
    BY DEF Tallied
  <2>1. Cardinality(OpenOf([hd EXCEPT ![h] = Free], a)) =
          Cardinality(OpenOf(hd, a)) - IF a = b THEN 1 ELSE 0
    BY <1>2, OpenOfRemove
  <2>2. st[a].open - st[a].close = Cardinality(OpenOf(hd, a)) /\ st[a].open \in Int /\ st[a].close \in Int
    BY DEF Tallied, Tallies
  <2>3. s2[a].open = st[a].open /\ s2[a].close = st[a].close + IF a = b THEN 1 ELSE 0
    BY <1>5, <2>2 DEF Tallies
  <2>4. QED
    BY <2>1, <2>2, <2>3, OpenOfFinite
<1>9. QED
  BY <1>7, <1>8

\* Opening one counts it, as long as the bound allows.
LEMMA OpenTallied ==
  ASSUME NEW st \in Tallies, NEW hd \in [Handles -> HandleRecords], Tallied(st, hd),
         NEW h \in Handles, hd[h] = Free, NEW r, r # Free, r.type \in Types,
         st[r.type].open < MaxOpens,
         NEW s2, s2 = [st EXCEPT ![r.type]["open"] = @ + 1]
  PROVE  s2 \in Tallies /\ Tallied(s2, [hd EXCEPT ![h] = r])
<1>1. PICK b \in Types : b = r.type
  OBVIOUS
<1>2. st[b] \in [open : 0..MaxOpens, close : 0..MaxOpens]
  BY DEF Tallies
<1>3. s2 = [st EXCEPT ![b] = [open |-> st[b].open + 1, close |-> st[b].close]]
  <2>1. [st[b] EXCEPT !["open"] = st[b]["open"] + 1] = [open |-> st[b].open + 1, close |-> st[b].close]
    BY <1>2
  <2>2. s2 = [st EXCEPT ![b] = [st[b] EXCEPT !["open"] = st[b]["open"] + 1]]
    BY <1>1
  <2>3. QED
    BY <2>1, <2>2
<1>4. [open |-> st[b].open + 1, close |-> st[b].close] \in [open : 0..MaxOpens, close : 0..MaxOpens]
  BY <1>1, <1>2, HandlesAssumption
<1>5. s2 \in Tallies
  BY <1>3, <1>4 DEF Tallies
<1>6. Tallied(s2, [hd EXCEPT ![h] = r])
  <2> SUFFICES ASSUME NEW a \in Types
               PROVE  s2[a].open - s2[a].close = Cardinality(OpenOf([hd EXCEPT ![h] = r], a))
    BY DEF Tallied
  <2>1. Cardinality(OpenOf([hd EXCEPT ![h] = r], a)) = Cardinality(OpenOf(hd, a)) + IF a = b THEN 1 ELSE 0
    <3> DEFINE hx == [hd EXCEPT ![h] = r]
    <3>1. hx[h] = r /\ \A x \in Handles \ {h} : hx[x] = hd[x]
      OBVIOUS
    <3>2. Cardinality(OpenOf(hx, a)) = Cardinality(OpenOf(hd, a)) + IF hx[h].type = a THEN 1 ELSE 0
      <4> HIDE DEF hx
      <4>1. QED
        BY <3>1, OpenOfAdd
    <3>3. QED
      BY <1>1, <3>1, <3>2
  <2>2. st[a].open - st[a].close = Cardinality(OpenOf(hd, a)) /\ st[a].open \in Int /\ st[a].close \in Int
    BY DEF Tallied, Tallies
  <2>3. s2[a].open = st[a].open + (IF a = b THEN 1 ELSE 0) /\ s2[a].close = st[a].close
    BY <1>3, <2>2 DEF Tallies
  <2>4. QED
    BY <2>1, <2>2, <2>3, OpenOfFinite
<1>7. QED
  BY <1>5, <1>6

\* __zedc_close of nothing, or of an open handle.
LEMMA CloseKeeps ==
  ASSUME TypeOK, OpensCounted, NEW h, h = None \/ (h \in Handles /\ handle[h] # Free), __zedc_close(h)
  PROVE  /\ handle' \in [Handles -> HandleRecords] /\ stats' \in Tallies /\ OpensCounted'
         /\ h = None \/ cfg.cache => handle' = handle
         /\ ~(h = None \/ cfg.cache) => handle' = [handle EXCEPT ![h] = Free]
<1>1. handle \in [Handles -> HandleRecords] /\ stats \in Tallies /\ Tallied(stats, handle)
  BY OpensTallied DEF TypeOK, HandleRecords, Tallies
<1>2. CASE h = None \/ cfg.cache
  <2>1. handle' = handle /\ stats' = stats
    BY <1>2 DEF __zedc_close
  <2>2. OpensCounted'
    BY <2>1 DEF OpensCounted
  <2>3. QED
    BY <1>1, <1>2, <2>1, <2>2
<1>3. CASE ~(h = None \/ cfg.cache)
  <2>1. h \in Handles /\ handle[h] # Free
    BY <1>3
  <2>2. handle' = [handle EXCEPT ![h] = Free]
        /\ stats' = [stats EXCEPT ![handle[h].type]["close"] = @ + 1]
    BY <1>3 DEF __zedc_close, zedc_close, Counted
  <2>3. stats' \in Tallies /\ Tallied(stats', [handle EXCEPT ![h] = Free])
    BY <1>1, <2>1, <2>2, CloseTallied
  <2>4. handle' \in [Handles -> HandleRecords]
    BY <1>1, <2>1, <2>2 DEF HandleRecords
  <2>5. OpensCounted'
    BY <2>2, <2>3, HandlesAssumption DEF OpensCounted, Tallied, OpenOf
  <2>6. QED
    BY <1>3, <2>2, <2>3, <2>4, <2>5
<1>4. QED
  BY <1>2, <1>3

\* The handle that __zedc_open returns is one for the card and type that were asked for.
LEMMA DeviceServes ==
  ASSUME HInv, NEW t \in Threads, th[t].at = "opened", Device(t) # None
  PROVE  Serves(Device(t), th[t].card_no, th[t].card_type)
<1>1. th[t] # Idle
  BY DEF Idle
<1>2. ~cfg.done
  BY <1>1 DEF HInv, CallsOK
<1>3. th[t].card_no \in Cards
  BY <1>1, CallFields DEF HInv
<1>4. CASE ~cfg.cache
  <2>1. Device(t) = th[t].device
    BY <1>4 DEF Device
  <2>2. QED
    BY <1>1, <1>2, <1>4, <2>1 DEF HInv, DevicesOK
<1>5. CASE cfg.cache
  <2>1. InCache(th[t].card_no)
    <3> SUFFICES ASSUME ~InCache(th[t].card_no)
                 PROVE  FALSE
      OBVIOUS
    <3>1. Device(t) = th[t].device
      BY DEF Device
    <3>2. QED
      BY <1>1, <1>5, <3>1 DEF HInv, CacheOK
  <2>2. PICK h \in Handles : h = Device(t) /\ h = zedc_cards[th[t].card_no]
    BY <1>3, <1>5, <2>1 DEF Device, HInv, TypeOK
  <2>3. handle[h] # Free /\ handle[h].card = th[t].card_no
    BY <1>2, <1>3, <2>2 DEF HInv, CacheOK
  <2>4. handle[h].type = th[t].card_type \/ RetypeCached
    BY <1>1, <1>5, <2>3 DEF HInv, CacheOK
  <2>5. QED
    BY <1>5, <2>2, <2>3, <2>4 DEF Serves
<1>6. QED
  BY <1>4, <1>5

-----------------------------------------------------------------------------
(* Every action keeps the invariant                                        *)

LEMMA InitHInv == Init => HInv
<1> SUFFICES ASSUME Init
             PROVE  HInv
  OBVIOUS
<1>1. TypeOK
  <2>1. cfg \in [cache : Caching, flat : Flats, buffered : Buffered, done : BOOLEAN]
    BY DEF Init
  <2>2. stats \in [Types -> [open : 0..MaxOpens, close : 0..MaxOpens]]
    BY HandlesAssumption DEF Init
  <2>3. QED
    BY <2>1, <2>2 DEF Init, TypeOK
<1>2. CallsOK /\ DevicesOK /\ MemoryOK /\ KeptOK
  BY HandlesAssumption DEF Init, CallsOK, DevicesOK, MemoryOK, PieceOK, KeptOK, StreamHas, CallHas
<1>3. CacheOK /\ Unshared
  BY DEF Init, CacheOK, Unshared, StreamUses, CallUses
<1>4. OpensCounted
  <2> SUFFICES ASSUME NEW a \in Types
               PROVE  stats[a].open - stats[a].close = Cardinality(OpenOf(handle, a))
    BY OpensTallied DEF Tallied
  <2>1. OpenOf(handle, a) = {}
    BY DEF Init, OpenOf
  <2>2. Cardinality({}) = 0
    BY FS_EmptySet
  <2>3. stats[a].open - stats[a].close = 0
    BY DEF Init
  <2>4. QED
    BY <2>1, <2>2, <2>3
<1>5. QED
  BY <1>1, <1>2, <1>3, <1>4 DEF HInv

LEMMA AcceleratorKeeps ==
  ASSUME HInv, NEW a \in Types, NEW c \in Cards, zlib_set_accelerator(a, c)
  PROVE  HInv'
<1> USE DEF zlib_set_accelerator
<1>1. TypeOK'
  BY DEF HInv, TypeOK
<1>2. CallsOK' /\ DevicesOK' /\ Unshared' /\ KeptOK'
  BY DEF HInv, CallsOK, CallOK, DevicesOK, Unshared, KeptOK, StreamUses, CallUses, Serves, Kept
<1>3. OpensCounted'
  BY DEF HInv, OpensCounted
<1>4. MemoryOK'
  BY DEF HInv, MemoryOK, PieceOK, StreamHas, CallHas
<1>5. CacheOK'
  <2>1. cfg.cache /\ ~RetypeCached => accel'.type = accel.type
    OBVIOUS
  <2>2. QED
    BY <2>1 DEF HInv, CacheOK
<1>6. QED
  BY <1>1, <1>2, <1>3, <1>4, <1>5 DEF HInv

\* What a call starts with.
LEMMA OpeningFields ==
  ASSUME TypeOK, NEW s \in Streams, NEW k \in Kinds, NEW c \in Cards, NEW a \in Types,
         NEW f \in Streams \cup {None}, NEW p \in Pieces \cup {None},
         NEW x, x = Opening(s, k, c, a, f, p)
  PROVE  /\ x \in CallRecords
         /\ x.for = s /\ x.kind = k /\ x.card_no = c /\ x.card_type = a
         /\ x.device = Cached(c) /\ x.from = f /\ x.wsp = p
         /\ x.at = "opening" => x.device = None
<1>1. Cached(c) \in Handles \cup {None}
  BY DEF Cached, TypeOK
<1>2. QED
  BY <1>1 DEF Opening, CallRecords

LEMMA OpenKeeps ==
  ASSUME HInv, NEW t \in Threads, NEW s \in Streams, NEW k \in Kinds, Open(t, s, k)
  PROVE  HInv'
<1> DEFINE x == Opening(s, k, accel.card, accel.type, None, None)
<1>1. accel.card \in Cards /\ accel.type \in Types
  BY DEF HInv, TypeOK
<1>2. /\ x \in CallRecords /\ x # Idle
      /\ x.for = s /\ x.kind = k /\ x.card_no = accel.card /\ x.card_type = accel.type
      /\ x.device = Cached(accel.card) /\ x.from = None /\ x.wsp = None
      /\ x.at = "opening" => x.device = None
  <2>1. TypeOK
    BY DEF HInv
  <2>2. x = Opening(s, k, accel.card, accel.type, None, None)
    OBVIOUS
  <2> HIDE DEF x
  <2>3. PICK c \in Cards, a \in Types : c = accel.card /\ a = accel.type
    BY <1>1
  <2>4. x = Opening(s, k, c, a, None, None)
    BY <2>2, <2>3
  <2>5. PICK f \in Streams \cup {None}, p \in Pieces \cup {None} : f = None /\ p = None
    OBVIOUS
  <2>6. x = Opening(s, k, c, a, f, p)
    BY <2>4, <2>5
  <2>7. /\ x \in CallRecords
        /\ x.for = s /\ x.kind = k /\ x.card_no = c /\ x.card_type = a
        /\ x.device = Cached(c) /\ x.from = f /\ x.wsp = p
        /\ x.at = "opening" => x.device = None
    BY <2>1, <2>6, OpeningFields
  <2>8. QED
    BY <2>3, <2>5, <2>7, RecordsDiffer
<1> HIDE DEF x
<1>3. /\ th[t] = Idle /\ th'[t] = x /\ \A u \in Threads \ {t} : th'[u] = th[u]
      /\ th' = [th EXCEPT ![t] = x]
  BY DEF Open, x, HInv, TypeOK
<1>4. ~cfg.done /\ strm[s] = Closed /\ \A u \in Threads : th[u] # Idle => th[u].for # s
  BY DEF Open, Unused
<1>5. UNCHANGED <<cfg, accel, handle, zedc_cards, mem, strm, stats, lost, leaked>>
  BY DEF Open
<1>6. ~cfg.cache => x.device = None
  BY <1>2 DEF Cached
<1>7. TypeOK'
  <2>1. th' \in [Threads -> {Idle} \cup CallRecords]
    BY <1>2, <1>3 DEF HInv, TypeOK, CallRecords
  <2>2. QED
    BY <1>5, <2>1 DEF HInv, TypeOK, CallRecords
<1>8. CallsOK'
  <2> SUFFICES ASSUME NEW u \in Threads, th'[u] # Idle
               PROVE  CallOK(u)'
    BY <1>4, <1>5 DEF CallsOK
  <2>1. CASE u = t
    BY <1>2, <1>3, <1>4, <1>5, <2>1 DEF CallOK
  <2>2. CASE u # t
    BY <1>2, <1>3, <1>4, <1>5, <2>2 DEF CallOK, HInv, CallsOK
  <2>3. QED
    BY <2>1, <2>2
<1>9. CacheOK'
  <2>1. ~InCache(x.card_no) => x.device = None
    BY <1>1, <1>2 DEF HInv, CacheOK, Cached
  <2>2. QED
    BY <1>2, <1>3, <1>5, <2>1 DEF HInv, CacheOK
<1>10. DevicesOK'
  BY <1>2, <1>3, <1>5, <1>6 DEF HInv, DevicesOK, Serves
<1>11. Unshared'
  BY <1>3, <1>5, <1>6, HandlesAssumption DEF HInv, Unshared, StreamUses, CallUses
<1>12. OpensCounted'
  BY <1>5 DEF HInv, OpensCounted
<1>13. MemoryOK'
  BY <1>2, <1>3, <1>5, HandlesAssumption DEF HInv, MemoryOK, PieceOK, StreamHas, CallHas
<1>14. KeptOK'
  BY <1>2, <1>3, <1>5 DEF HInv, KeptOK, Kept
<1>15. QED
  BY <1>7, <1>8, <1>9, <1>10, <1>11, <1>12, <1>13, <1>14 DEF HInv

LEMMA NoPlaceKeeps ==
  ASSUME HInv, NEW t \in Threads, NoPlace(t)
  PROVE  HInv'
<1> DEFINE x == [th[t] EXCEPT !.at = "opened"]
<1>1. th[t] # Idle
  BY DEF NoPlace, Idle
<1>2. /\ x \in CallRecords /\ x # Idle /\ x.at = "opened"
      /\ x.for = th[t].for /\ x.kind = th[t].kind /\ x.card_no = th[t].card_no
      /\ x.card_type = th[t].card_type /\ x.device = th[t].device /\ x.from = th[t].from
      /\ x.wsp = th[t].wsp
  <2>1. th[t] \in CallRecords
    BY <1>1, CallFields DEF HInv
  <2>2. x \in CallRecords
    BY <2>1 DEF CallRecords
  <2>3. QED
    BY <2>1, <2>2, RecordsDiffer DEF CallRecords
<1>3. th' = [th EXCEPT ![t] = x] /\ UNCHANGED <<cfg, accel, handle, zedc_cards, mem, strm, stats, lost, leaked>>
  BY DEF NoPlace
<1> HIDE DEF x
<1>4. th'[t] = x /\ \A u \in Threads \ {t} : th'[u] = th[u]
  BY <1>3 DEF HInv, TypeOK
<1>5. TypeOK'
  <2>1. th' \in [Threads -> {Idle} \cup CallRecords]
    BY <1>2, <1>3 DEF HInv, TypeOK, CallRecords
  <2>2. QED
    BY <1>3, <2>1 DEF HInv, TypeOK, CallRecords
<1>6. CallsOK'
  <2>1. ~cfg.done
    BY <1>1 DEF HInv, CallsOK
  <2> SUFFICES ASSUME NEW u \in Threads, th'[u] # Idle
               PROVE  CallOK(u)'
    BY <1>3, <2>1 DEF CallsOK
  <2>2. CallOK(t)
    BY <1>1 DEF HInv, CallsOK
  <2>3. CASE u = t
    BY <1>1, <1>2, <1>3, <1>4, <2>2, <2>3 DEF CallOK
  <2>4. CASE u # t
    BY <1>1, <1>2, <1>3, <1>4, <2>4 DEF CallOK, HInv, CallsOK
  <2>5. QED
    BY <2>3, <2>4
<1>7. CacheOK'
  BY <1>1, <1>2, <1>3, <1>4 DEF HInv, CacheOK
<1>8. DevicesOK'
  BY <1>1, <1>2, <1>3, <1>4 DEF HInv, DevicesOK, Serves
<1>9. Unshared'
  BY <1>1, <1>2, <1>3, <1>4 DEF HInv, Unshared, StreamUses, CallUses
<1>10. OpensCounted'
  BY <1>3 DEF HInv, OpensCounted
<1>11. MemoryOK'
  BY <1>1, <1>2, <1>3, <1>4 DEF HInv, MemoryOK, PieceOK, StreamHas, CallHas
<1>12. KeptOK'
  BY <1>1, <1>2, <1>3, <1>4 DEF HInv, KeptOK, Kept
<1>13. QED
  BY <1>5, <1>6, <1>7, <1>8, <1>9, <1>10, <1>11, <1>12 DEF HInv

\* accel_open succeeded: the handle was nobody's.
OpenSucceeds(t) ==
  /\ th[t].at = "opening" /\ ~(cfg.cache /\ ~InCache(th[t].card_no))
  /\ \E h \in Handles : handle[h] = Free
  /\ stats[th[t].card_type].open < MaxOpens
  /\ StoreHandle(t, FreeHandle)
  /\ handle' = zedc_open(t)
  /\ stats' = Counted("open", th[t].card_type)
  /\ th' = [th EXCEPT ![t].at = "opened", ![t].device = FreeHandle]
  /\ UNCHANGED <<cfg, accel, mem, strm, leaked>>
OpenFails(t) ==
  /\ th[t].at = "opening"
  /\ StoreHandle(t, None)
  /\ th' = [th EXCEPT ![t].at = "opened"]
  /\ UNCHANGED <<cfg, accel, mem, strm, leaked, handle, stats>>
LEMMA OpenCardCases ==
  ASSUME NEW t, OpenCard(t)
  PROVE  OpenSucceeds(t) \/ OpenFails(t)
  BY DEF OpenCard, OpenSucceeds, OpenFails

LEMMA OpenSucceedsKeeps ==
  ASSUME HInv, NEW t \in Threads, OpenSucceeds(t)
  PROVE  HInv'
<1> DEFINE h == FreeHandle
           x == [th[t] EXCEPT !.at = "opened", !.device = h]
           r == [card |-> th[t].card_no, type |-> th[t].card_type]
<1>1. th[t] # Idle
  BY DEF OpenSucceeds, Idle
<1>2. ~cfg.done
  BY <1>1 DEF HInv, CallsOK
<1>3. h \in Handles /\ handle[h] = Free
  BY DEF OpenSucceeds, FreeHandle
<1>4. th[t] \in CallRecords /\ th[t].card_no \in Cards /\ th[t].card_type \in Types /\ th[t].at = "opening"
  BY <1>1, CallFields DEF HInv, OpenSucceeds
<1>5. /\ x \in CallRecords /\ x # Idle /\ x.at = "opened"
      /\ x.for = th[t].for /\ x.kind = th[t].kind /\ x.card_no = th[t].card_no
      /\ x.card_type = th[t].card_type /\ x.device = h /\ x.from = th[t].from
      /\ x.wsp = th[t].wsp
  <2>1. x \in CallRecords
    BY <1>3, <1>4 DEF CallRecords
  <2>2. QED
    BY <1>4, <2>1, RecordsDiffer DEF CallRecords
<1>6. r \in [card : Cards, type : Types] /\ r # Free /\ r.card = th[t].card_no /\ r.type = th[t].card_type
  BY <1>4, RecordsDiffer
<1>7. th' = [th EXCEPT ![t] = x] /\ handle' = [handle EXCEPT ![h] = r]
      /\ UNCHANGED <<cfg, accel, mem, strm, leaked>>
  BY DEF OpenSucceeds, zedc_open
<1>8. IF cfg.cache
      THEN /\ zedc_cards' = [zedc_cards EXCEPT ![th[t].card_no] = h]
           /\ lost' = lost \cup ({zedc_cards[th[t].card_no]} \ {None})
           /\ InCache(th[t].card_no)
      ELSE UNCHANGED <<zedc_cards, lost>>
  BY DEF OpenSucceeds, StoreHandle
<1>9. stats' \in Tallies /\ OpensCounted'
  <2>1. handle \in [Handles -> HandleRecords] /\ stats \in Tallies /\ Tallied(stats, handle)
    BY OpensTallied DEF HInv, TypeOK, HandleRecords, Tallies
  <2>2. stats' = [stats EXCEPT ![r.type]["open"] = @ + 1] /\ stats[r.type].open < MaxOpens
    BY <1>6 DEF OpenSucceeds, Counted
  <2>3. r.type \in Types
    BY <1>4, <1>6
  <2> HIDE DEF h, r
  <2>4. stats' \in Tallies /\ Tallied(stats', [handle EXCEPT ![h] = r])
    BY <1>3, <1>6, <2>1, <2>2, <2>3, OpenTallied
  <2>5. QED
    BY <1>7, <2>4, HandlesAssumption DEF OpensCounted, Tallied, OpenOf
<1> HIDE DEF h, x, r
<1>10. /\ th'[t] = x /\ \A u \in Threads \ {t} : th'[u] = th[u]
       /\ handle'[h] = r /\ \A g \in Handles \ {h} : handle'[g] = handle[g]
  BY <1>3, <1>7 DEF HInv, TypeOK
<1>11. TypeOK'
  <2>1. th' \in [Threads -> {Idle} \cup CallRecords]
    BY <1>5, <1>7 DEF HInv, TypeOK, CallRecords
  <2>2. handle' \in [Handles -> {Free} \cup [card : Cards, type : Types]]
    BY <1>3, <1>6, <1>7 DEF HInv, TypeOK
  <2>3. zedc_cards' \in [Cards -> Handles \cup {None}] /\ lost' \subseteq Handles
    BY <1>3, <1>4, <1>8 DEF HInv, TypeOK
  <2>4. QED
    BY <1>7, <1>9, <2>1, <2>2, <2>3 DEF HInv, TypeOK, CallRecords, Tallies
<1>12. CallsOK'
  <2> SUFFICES ASSUME NEW u \in Threads, th'[u] # Idle
               PROVE  CallOK(u)'
    BY <1>2, <1>7 DEF CallsOK
  <2>1. CallOK(t)
    BY <1>1 DEF HInv, CallsOK
  <2>2. CASE u = t
    BY <1>1, <1>5, <1>7, <1>10, <2>1, <2>2 DEF CallOK
  <2>3. CASE u # t
    BY <1>1, <1>5, <1>7, <1>10, <2>3 DEF CallOK, HInv, CallsOK
  <2>4. QED
    BY <2>2, <2>3
<1>13. CacheOK'
  <2>1. \A c \in Cards : zedc_cards'[c] # None => cfg.cache /\ InCache(c)
    BY <1>8 DEF HInv, CacheOK, TypeOK
  <2>2. \A c \in Cards : zedc_cards'[c] # None =>
          handle'[zedc_cards'[c]] # Free /\ handle'[zedc_cards'[c]].card = c
    <3> SUFFICES ASSUME NEW c \in Cards, zedc_cards'[c] # None
                 PROVE  handle'[zedc_cards'[c]] # Free /\ handle'[zedc_cards'[c]].card = c
      OBVIOUS
    <3>1. CASE cfg.cache /\ c = th[t].card_no
      <4>1. zedc_cards'[c] = h
        BY <1>4, <1>8, <3>1 DEF HInv, TypeOK
      <4>2. QED
        BY <1>6, <1>10, <3>1, <4>1
    <3>2. CASE ~(cfg.cache /\ c = th[t].card_no)
      <4>1. zedc_cards'[c] = zedc_cards[c]
        BY <1>8, <3>2 DEF HInv, TypeOK
      <4>2. zedc_cards[c] \in Handles /\ handle[zedc_cards[c]] # Free /\ handle[zedc_cards[c]].card = c
        BY <1>2, <4>1 DEF HInv, CacheOK, TypeOK
      <4>3. QED
        BY <1>3, <1>10, <4>1, <4>2
    <3>3. QED
      BY <3>1, <3>2
  <2>3. cfg.cache => \A u \in Threads : th'[u] # Idle /\ ~InCache(th'[u].card_no) => th'[u].device = None
    BY <1>5, <1>8, <1>10 DEF HInv, CacheOK
  <2>4. cfg.cache /\ ~RetypeCached =>
          /\ \A g \in Handles : handle'[g] # Free => handle'[g].type = accel.type
          /\ \A u \in Threads : th'[u] # Idle => th'[u].card_type = accel.type
    BY <1>1, <1>5, <1>6, <1>10 DEF HInv, CacheOK
  <2>5. cfg.cache => \A g \in Handles : handle'[g] # Free => g \in lost' \/ \E c \in Cards : zedc_cards'[c] = g
    <3> SUFFICES ASSUME cfg.cache, NEW g \in Handles, handle'[g] # Free
                 PROVE  g \in lost' \/ \E c \in Cards : zedc_cards'[c] = g
      OBVIOUS
    <3>1. CASE g = h
      <4>1. zedc_cards'[th[t].card_no] = h
        BY <1>4, <1>8 DEF HInv, TypeOK
      <4>2. QED
        BY <1>4, <3>1, <4>1
    <3>2. CASE g # h
      <4>1. g \in lost \/ \E c \in Cards : zedc_cards[c] = g
        BY <1>2, <1>10, <3>2 DEF HInv, CacheOK
      <4>2. CASE g \in lost
        BY <1>8, <4>2
      <4>3. ASSUME NEW c \in Cards, zedc_cards[c] = g
            PROVE  g \in lost' \/ zedc_cards'[c] = g
        BY <1>8, <4>3, HandlesAssumption DEF HInv, TypeOK
      <4>4. QED
        BY <4>1, <4>2, <4>3
    <3>3. QED
      BY <3>1, <3>2
  <2>6. QED
    BY <1>2, <1>7, <2>1, <2>2, <2>3, <2>4, <2>5 DEF HInv, CacheOK
\* Nobody has the new handle: what streams and calls have is open.
<1>14. \A s \in Streams : ~StreamUses(s, h)
  BY <1>2, <1>3 DEF HInv, DevicesOK, Serves, StreamUses
<1>15. ~cfg.cache => \A u \in Threads : ~CallUses(u, h)
  BY <1>2, <1>3, HandlesAssumption DEF HInv, DevicesOK, Serves, CallUses
<1>16. DevicesOK'
  <2>1. \A s \in Streams : strm[s] # Closed => Serves(strm[s].device, strm[s].card_no, strm[s].card_type)'
    BY <1>2, <1>3, <1>7, <1>10 DEF HInv, DevicesOK, Serves
  <2>2. ~cfg.cache => \A u \in Threads : th'[u] # Idle /\ th'[u].device # None =>
          Serves(th[u].device, th[u].card_no, th[u].card_type)'
    <3> SUFFICES ASSUME ~cfg.cache, NEW u \in Threads, th'[u] # Idle, th'[u].device # None
                 PROVE  Serves(th[u].device, th[u].card_no, th[u].card_type)'
      OBVIOUS
    <3>1. CASE u = t
      BY <1>3, <1>5, <1>6, <1>7, <1>10, <3>1 DEF Serves
    <3>2. CASE u # t
      BY <1>2, <1>3, <1>7, <1>10, <3>2 DEF HInv, DevicesOK, Serves
    <3>3. QED
      BY <3>1, <3>2
  <2>3. QED
    BY <1>7, <2>1, <2>2 DEF DevicesOK
<1>17. Unshared'
  <2> SUFFICES ASSUME ~cfg.cache, NEW g \in Handles
               PROVE  /\ \A s, y \in Streams : StreamUses(s, g)' /\ StreamUses(y, g)' => s = y
                      /\ \A v, u \in Threads : CallUses(v, g)' /\ CallUses(u, g)' => v = u
                      /\ \A s \in Streams, u \in Threads : ~(StreamUses(s, g)' /\ CallUses(u, g)')
                      /\ handle'[g] # Free => \/ \E s \in Streams : StreamUses(s, g)'
                                              \/ \E u \in Threads : CallUses(u, g)'
    BY <1>7 DEF Unshared
  <2>1. \A s \in Streams : StreamUses(s, g)' <=> StreamUses(s, g)
    BY <1>7 DEF StreamUses
  <2>2. CASE g = h
    <3>1. \A u \in Threads : CallUses(u, g)' <=> u = t
      BY <1>5, <1>10, <1>15, <2>2 DEF CallUses
    <3>2. QED
      BY <1>14, <2>1, <2>2, <3>1
  <2>3. CASE g # h
    <3>1. th[t].device = None
      BY <1>1, <1>4 DEF HInv, CallsOK, CallOK
    <3>2. \A u \in Threads : CallUses(u, g)' <=> CallUses(u, g)
      BY <1>5, <1>10, <2>3, <3>1, HandlesAssumption DEF CallUses
    <3>3. QED
      BY <1>10, <2>1, <2>3, <3>2 DEF HInv, Unshared
  <2>4. QED
    BY <2>2, <2>3
<1>18. MemoryOK'
  BY <1>1, <1>5, <1>7, <1>10 DEF HInv, MemoryOK, PieceOK, StreamHas, CallHas
<1>19. KeptOK'
  BY <1>1, <1>5, <1>7, <1>10 DEF HInv, KeptOK, Kept
<1>20. QED
  BY <1>9, <1>11, <1>12, <1>13, <1>16, <1>17, <1>18, <1>19 DEF HInv

LEMMA OpenFailsKeeps ==
  ASSUME HInv, NEW t \in Threads, OpenFails(t)
  PROVE  HInv'
<1> DEFINE x == [th[t] EXCEPT !.at = "opened"]
<1>1. th[t] # Idle
  BY DEF OpenFails, Idle
<1>2. th[t] \in CallRecords /\ th[t].card_no \in Cards
  BY <1>1, CallFields DEF HInv
<1>3. /\ x \in CallRecords /\ x # Idle /\ x.at = "opened"
      /\ x.for = th[t].for /\ x.kind = th[t].kind /\ x.card_no = th[t].card_no
      /\ x.card_type = th[t].card_type /\ x.device = th[t].device /\ x.from = th[t].from
      /\ x.wsp = th[t].wsp
  <2>1. x \in CallRecords
    BY <1>2 DEF CallRecords
  <2>2. QED
    BY <1>2, <2>1, RecordsDiffer DEF CallRecords
<1>4. th' = [th EXCEPT ![t] = x] /\ UNCHANGED <<cfg, accel, handle, mem, strm, stats, leaked>>
  BY DEF OpenFails
<1>5. IF cfg.cache
      THEN /\ zedc_cards' = [zedc_cards EXCEPT ![th[t].card_no] = None]
           /\ lost' = lost \cup ({zedc_cards[th[t].card_no]} \ {None})
      ELSE UNCHANGED <<zedc_cards, lost>>
  BY DEF OpenFails, StoreHandle
<1> HIDE DEF x
<1>6. th'[t] = x /\ \A u \in Threads \ {t} : th'[u] = th[u]
  BY <1>4 DEF HInv, TypeOK
<1>7. ~cfg.done
  BY <1>1 DEF HInv, CallsOK
<1>8. TypeOK'
  <2>1. th' \in [Threads -> {Idle} \cup CallRecords]
    BY <1>3, <1>4 DEF HInv, TypeOK, CallRecords
  <2>2. zedc_cards' \in [Cards -> Handles \cup {None}] /\ lost' \subseteq Handles
    BY <1>2, <1>5 DEF HInv, TypeOK
  <2>3. QED
    BY <1>4, <2>1, <2>2 DEF HInv, TypeOK, CallRecords
<1>9. CallsOK'
  <2> SUFFICES ASSUME NEW u \in Threads, th'[u] # Idle
               PROVE  CallOK(u)'
    BY <1>4, <1>7 DEF CallsOK
  <2>2. CallOK(t)
    BY <1>1 DEF HInv, CallsOK
  <2>3. CASE u = t
    BY <1>1, <1>3, <1>4, <1>6, <2>2, <2>3 DEF CallOK
  <2>4. CASE u # t
    BY <1>1, <1>3, <1>4, <1>6, <2>4 DEF CallOK, HInv, CallsOK
  <2>5. QED
    BY <2>3, <2>4
<1>10. CacheOK'
  <2>1. \A c \in Cards : zedc_cards'[c] # None => zedc_cards'[c] = zedc_cards[c]
    BY <1>5 DEF HInv, TypeOK
  <2>2. cfg.cache => \A g \in Handles : handle[g] # Free => g \in lost' \/ \E c \in Cards : zedc_cards'[c] = g
    <3> SUFFICES ASSUME cfg.cache, NEW g \in Handles, handle[g] # Free
                 PROVE  g \in lost' \/ \E c \in Cards : zedc_cards'[c] = g
      OBVIOUS
    <3>1. g \in lost \/ \E c \in Cards : zedc_cards[c] = g
      BY <1>7 DEF HInv, CacheOK
    <3>2. CASE g \in lost
      BY <1>5, <3>2
    <3>3. ASSUME NEW c \in Cards, zedc_cards[c] = g
          PROVE  g \in lost' \/ zedc_cards'[c] = g
      BY <1>5, <3>3, HandlesAssumption DEF HInv, TypeOK
    <3>4. QED
      BY <3>1, <3>2, <3>3
  <2>3. cfg.cache => \A u \in Threads : th'[u] # Idle /\ ~InCache(th'[u].card_no) => th'[u].device = None
    BY <1>1, <1>3, <1>6 DEF HInv, CacheOK
  <2>4. cfg.cache /\ ~RetypeCached => \A u \in Threads : th'[u] # Idle => th'[u].card_type = accel.type
    BY <1>1, <1>3, <1>6 DEF HInv, CacheOK
  <2>5. QED
    BY <1>4, <1>7, <2>1, <2>2, <2>3, <2>4 DEF HInv, CacheOK
<1>11. DevicesOK'
  BY <1>1, <1>3, <1>4, <1>6 DEF HInv, DevicesOK, Serves
<1>12. Unshared'
  BY <1>1, <1>3, <1>4, <1>6 DEF HInv, Unshared, StreamUses, CallUses
<1>13. OpensCounted'
  BY <1>4 DEF HInv, OpensCounted
<1>14. MemoryOK'
  BY <1>1, <1>3, <1>4, <1>6 DEF HInv, MemoryOK, PieceOK, StreamHas, CallHas
<1>15. KeptOK'
  BY <1>1, <1>3, <1>4, <1>6 DEF HInv, KeptOK, Kept
<1>16. QED
  BY <1>8, <1>9, <1>10, <1>11, <1>12, <1>13, <1>14, <1>15 DEF HInv

-----------------------------------------------------------------------------
(* Memory                                                                  *)

\* Pieces for some roles are free, and each role has another one.
LEMMA PlaceFree ==
  ASSUME NEW R \in SUBSET Roles, Places(R) # {}, NEW f, f = Place(R)
  PROVE  /\ f \in [Roles -> Pieces \cup {None}]
         /\ \A r \in Roles \ R : f[r] = None
         /\ \A r \in R : f[r] \in Pieces /\ mem[f[r]] = "free"
         /\ \A r, q \in R : f[r] = f[q] => r = q
<1> DEFINE g == CHOOSE g \in Places(R) : TRUE
<1>1. g \in Places(R)
  OBVIOUS
<1>2. /\ g \in [R -> FreePieces]
      /\ \A r \in R : g[r] \in Pieces /\ mem[g[r]] = "free"
      /\ \A r, q \in R : g[r] = g[q] => r = q
  BY <1>1 DEF Places, FreePieces
<1>3. f = [r \in Roles |-> IF r \in R THEN g[r] ELSE None]
  BY DEF Place
<1> HIDE DEF g
<1>4. QED
  BY <1>2, <1>3

\* The card's memory is of the heap, of the driver, or cannot be had; if it can it will be
\* given back the way it was taken.
LEMMA MemalignKept ==
  ASSUME HInv, NEW h \in Handles, handle[h] # Free, NEW k
  PROVE  /\ zedc_memalign(h, k) \in {"heap", "driver", "null"}
         /\ zedc_memalign(h, k) # "null" => zedc_memalign(h, k) = Kept(handle[h].type, k)
         /\ zedc_free(h, k) = Kept(handle[h].type, k)
<1>1. handle[h].type \in {"GENWQE", "CAPI"}
  BY HandlesAssumption DEF HInv, TypeOK
<1>2. QED
  BY <1>1 DEF zedc_memalign, accel_malloc, zedc_free, Kept

-----------------------------------------------------------------------------
(* The end of a call                                                       *)

\* A call fails: it closes its handle and leaves its workspace, if it has one.
GivesUp(t) ==
  /\ th[t].at = "opened"
  /\ __zedc_close(Device(t))
  /\ leaked' = leaked \cup ({th[t].wsp} \ {None})
  /\ th' = [th EXCEPT ![t] = Idle]
  /\ UNCHANGED <<cfg, accel, zedc_cards, lost, mem, strm>>

\* A device that is closed in the end of a call, or of a stream, had no other user.
LEMMA GivesUpKeeps ==
  ASSUME HInv, NEW t \in Threads, GivesUp(t)
  PROVE  HInv'
<1> DEFINE h == Device(t)
<1>1. th[t] # Idle
  BY DEF GivesUp, Idle
<1>2. ~cfg.done
  BY <1>1 DEF HInv, CallsOK
<1>3. h = None \/ (h \in Handles /\ handle[h] # Free)
  BY DeviceServes DEF GivesUp, Serves
<1>4. /\ handle' \in [Handles -> HandleRecords] /\ stats' \in Tallies /\ OpensCounted'
      /\ h = None \/ cfg.cache => handle' = handle
      /\ ~(h = None \/ cfg.cache) => handle' = [handle EXCEPT ![h] = Free]
  <2>1. TypeOK /\ OpensCounted /\ __zedc_close(h)
    BY DEF HInv, GivesUp
  <2> HIDE DEF h
  <2>2. QED
    BY <1>3, <2>1, CloseKeeps
<1>5. ~cfg.cache => h = th[t].device
  BY DEF Device
<1>6. th'[t] = Idle /\ \A u \in Threads \ {t} : th'[u] = th[u]
  BY DEF GivesUp, HInv, TypeOK
<1>7. th' = [th EXCEPT ![t] = Idle] /\ UNCHANGED <<cfg, accel, zedc_cards, lost, mem, strm>>
      /\ leaked' = leaked \cup ({th[t].wsp} \ {None})
  BY DEF GivesUp
<1> HIDE DEF h
<1>8. \A g \in Handles : IF ~cfg.cache /\ g = h THEN handle'[g] = Free ELSE handle'[g] = handle[g]
  BY <1>3, <1>4, HandlesAssumption DEF HInv, TypeOK
<1>9. th[t].wsp \in Pieces \cup {None}
  BY <1>1, CallFields DEF HInv
<1>10. TypeOK'
  <2>1. th' \in [Threads -> {Idle} \cup CallRecords]
    BY <1>7 DEF HInv, TypeOK, CallRecords
  <2>2. leaked' \subseteq Pieces
    BY <1>7, <1>9 DEF HInv, TypeOK
  <2>3. QED
    BY <1>4, <1>7, <2>1, <2>2 DEF HInv, TypeOK, CallRecords, Tallies, HandleRecords
<1>11. CallsOK'
  BY <1>2, <1>6, <1>7 DEF HInv, CallsOK, CallOK
<1>12. CacheOK'
  BY <1>2, <1>6, <1>7, <1>8 DEF HInv, CacheOK, TypeOK
<1>13. ~cfg.cache => /\ \A s \in Streams : strm[s] # Closed => strm[s].device # h
                     /\ \A u \in Threads \ {t} : th[u] # Idle /\ th[u].device # None => th[u].device # h
  <2> SUFFICES ASSUME ~cfg.cache, h # None
               PROVE  /\ \A s \in Streams : strm[s] # Closed => strm[s].device # h
                      /\ \A u \in Threads \ {t} : th[u] # Idle => th[u].device # h
    BY StreamFields, HandlesAssumption DEF HInv
  <2>1. h \in Handles /\ CallUses(t, h)
    BY <1>1, <1>3, <1>5 DEF CallUses
  <2>2. QED
    BY <2>1 DEF HInv, Unshared, CallUses, StreamUses
<1>14. DevicesOK'
  <2>1. \A s \in Streams : strm[s] # Closed => Serves(strm[s].device, strm[s].card_no, strm[s].card_type)'
    BY <1>2, <1>7, <1>8, <1>13 DEF HInv, DevicesOK, Serves
  <2>2. ~cfg.cache => \A u \in Threads : th'[u] # Idle /\ th'[u].device # None =>
          Serves(th[u].device, th[u].card_no, th[u].card_type)'
    BY <1>2, <1>6, <1>7, <1>8, <1>13 DEF HInv, DevicesOK, Serves
  <2>3. QED
    BY <1>6, <1>7, <2>1, <2>2 DEF DevicesOK
<1>15. Unshared'
  <2> SUFFICES ASSUME ~cfg.cache, NEW g \in Handles
               PROVE  /\ \A s, y \in Streams : StreamUses(s, g)' /\ StreamUses(y, g)' => s = y
                      /\ \A v, u \in Threads : CallUses(v, g)' /\ CallUses(u, g)' => v = u
                      /\ \A s \in Streams, u \in Threads : ~(StreamUses(s, g)' /\ CallUses(u, g)')
                      /\ handle'[g] # Free => \/ \E s \in Streams : StreamUses(s, g)'
                                              \/ \E u \in Threads : CallUses(u, g)'
    BY <1>7 DEF Unshared
  <2>1. \A s \in Streams : StreamUses(s, g)' <=> StreamUses(s, g)
    BY <1>7 DEF StreamUses
  <2>2. \A u \in Threads : CallUses(u, g)' <=> CallUses(u, g) /\ u # t
    BY <1>6 DEF CallUses
  <2>3. g # h => ~CallUses(t, g)
    BY <1>5 DEF CallUses
  <2>4. g # h => handle'[g] = handle[g]
    BY <1>8
  <2>5. g = h => handle'[g] = Free
    BY <1>8
  <2>6. QED
    BY <2>1, <2>2, <2>3, <2>4, <2>5 DEF HInv, Unshared
<1>16. MemoryOK'
  <2> SUFFICES ASSUME NEW p \in Pieces
               PROVE  PieceOK(p)'
    BY <1>7 DEF HInv, MemoryOK
  <2>1. \A s \in Streams, r \in Roles : StreamHas(s, r, p)' <=> StreamHas(s, r, p)
    BY <1>7 DEF StreamHas
  <2>2. \A u \in Threads : CallHas(u, p)' <=> CallHas(u, p) /\ u # t
    BY <1>6 DEF CallHas
  <2>3. PieceOK(p)
    BY DEF HInv, MemoryOK
  <2>4. p \in leaked' <=> p \in leaked \/ CallHas(t, p)
    BY <1>1, <1>7, HandlesAssumption DEF CallHas
  <2>5. mem'[p] = mem[p]
    BY <1>7
  <2>6. QED
    BY <2>1, <2>2, <2>3, <2>4, <2>5 DEF PieceOK
<1>17. KeptOK'
  BY <1>6, <1>7 DEF HInv, KeptOK, Kept
<1>18. QED
  BY <1>4, <1>10, <1>11, <1>12, <1>14, <1>15, <1>16, <1>17 DEF HInv

\* A call has its stream: the buffers in R are new, the workspace of a copy was the call's.
Builds(t, R, base) ==
  /\ th[t].at = "opened" /\ Device(t) # None
  /\ R \in SUBSET Roles /\ Places(R) # {}
  /\ th[t].kind = "inflate" => "ibuf" \notin R
  /\ th[t].from # None => "wsp" \notin R
  /\ R # {} => zedc_memalign(Device(t), th[t].kind) # "null"
  /\ base = [Place(R) EXCEPT !["wsp"] = IF th[t].from = None THEN @ ELSE th[t].wsp]
  /\ mem' = Taken(mem, Place(R), zedc_memalign(Device(t), th[t].kind))
  /\ strm' = [strm EXCEPT ![th[t].for] =
       [kind |-> th[t].kind, card_no |-> th[t].card_no, card_type |-> th[t].card_type,
        device |-> Device(t), base |-> base]]
  /\ th' = [th EXCEPT ![t] = Idle]
  /\ UNCHANGED <<cfg, accel, handle, zedc_cards, stats, lost, leaked>>

LEMMA BuildsKeeps ==
  ASSUME HInv, NEW t \in Threads, NEW R, NEW base, Builds(t, R, base)
  PROVE  HInv'
<1> DEFINE h == Device(t)
           how == zedc_memalign(Device(t), th[t].kind)
           f == Place(R)
           s == th[t].for
           x == [kind |-> th[t].kind, card_no |-> th[t].card_no, card_type |-> th[t].card_type,
                 device |-> Device(t), base |-> base]
<1>1. th[t] # Idle /\ R \in SUBSET Roles
  BY DEF Builds, Idle
<1>2. ~cfg.done
  BY <1>1 DEF HInv, CallsOK
<1>3. /\ th[t] \in CallRecords /\ s \in Streams /\ th[t].kind \in Kinds
      /\ th[t].card_no \in Cards /\ th[t].card_type \in Types
      /\ th[t].wsp \in Pieces \cup {None} /\ CallOK(t)
  BY <1>1, CallFields DEF HInv, CallsOK
<1>4. Serves(h, th[t].card_no, th[t].card_type) /\ h \in Handles /\ handle[h] # Free
  BY DeviceServes DEF Builds, Serves
<1>5. /\ f \in [Roles -> Pieces \cup {None}]
      /\ \A r \in Roles \ R : f[r] = None
      /\ \A r \in R : f[r] \in Pieces /\ mem[f[r]] = "free"
      /\ \A r, q \in R : f[r] = f[q] => r = q
  BY <1>1, PlaceFree DEF Builds
<1>6. /\ how \in {"heap", "driver", "null"} /\ (R # {} => how # "null")
      /\ how # "null" => how = Kept(handle[h].type, th[t].kind)
  <2>1. R # {} => how # "null"
    BY DEF Builds
  <2>2. PICK g \in Handles : g = h /\ handle[g] # Free
    BY <1>4
  <2>3. QED
    BY <2>1, <2>2, MemalignKept
<1>7. /\ strm' = [strm EXCEPT ![s] = x] /\ th' = [th EXCEPT ![t] = Idle]
      /\ mem' = Taken(mem, f, how)
      /\ UNCHANGED <<cfg, accel, handle, zedc_cards, stats, lost, leaked>>
  BY DEF Builds
<1>8. base = [f EXCEPT !["wsp"] = IF th[t].from = None THEN @ ELSE th[t].wsp]
  BY DEF Builds
<1>9. /\ th[t].kind = "inflate" => "ibuf" \notin R
      /\ th[t].from # None => "wsp" \notin R
  BY DEF Builds
<1>10. /\ x.kind = th[t].kind /\ x.card_no = th[t].card_no /\ x.card_type = th[t].card_type
       /\ x.device = h /\ x.base = base
  OBVIOUS
<1>11. base \in [Roles -> Pieces \cup {None}] /\ \A r \in Roles :
         base[r] = IF r = "wsp" /\ th[t].from # None THEN th[t].wsp ELSE f[r]
  BY <1>3, <1>5, <1>8 DEF Roles
<1>12. x \in StreamRecords /\ x # Closed
  <2>1. x \in StreamRecords
    BY <1>3, <1>4, <1>11 DEF StreamRecords
  <2>2. QED
    BY <2>1, RecordsDiffer
<1> HIDE DEF x, h, how, f, s
<1>13. /\ th'[t] = Idle /\ \A u \in Threads \ {t} : th'[u] = th[u]
       /\ strm'[s] = x /\ \A y \in Streams \ {s} : strm'[y] = strm[y]
       /\ strm[s] = Closed
       /\ \A u \in Threads : th[u] # Idle /\ th[u].for = s => u = t
  BY <1>3, <1>7 DEF HInv, TypeOK, CallOK, s
<1>14. \A p \in Pieces : mem'[p] = IF \E r \in R : f[r] = p THEN how ELSE mem[p]
  BY <1>1, <1>5, <1>7, HandlesAssumption DEF Taken
<1>15. TypeOK'
  <2>1. th' \in [Threads -> {Idle} \cup CallRecords]
    BY <1>7 DEF HInv, TypeOK, CallRecords
  <2>2. strm' \in [Streams -> {Closed} \cup StreamRecords]
    BY <1>7, <1>12 DEF HInv, TypeOK, StreamRecords
  <2>3. mem' \in [Pieces -> {"free", "heap", "driver"}]
    BY <1>6, <1>7, <1>14 DEF HInv, TypeOK, Taken
  <2>4. QED
    BY <1>7, <2>1, <2>2, <2>3 DEF HInv, TypeOK, CallRecords, StreamRecords
<1>16. CallsOK'
  <2> SUFFICES ASSUME NEW u \in Threads, th'[u] # Idle
               PROVE  CallOK(u)'
    BY <1>2, <1>7 DEF CallsOK
  <2>1. u # t /\ th'[u] = th[u] /\ CallOK(u) /\ th[u].for # s /\ th[u].for \in Streams
        /\ (th[u].from # None => th[u].from \in Streams)
    BY <1>13, CallFields DEF HInv, CallsOK
  <2>2. th[u].from # s
    BY <1>3, <1>13, <2>1, HandlesAssumption DEF CallOK
  <2>3. QED
    BY <1>13, <2>1, <2>2 DEF CallOK
<1>17. CacheOK'
  <2>1. cfg.cache /\ ~RetypeCached => x.card_type = accel.type
    BY <1>1, <1>10 DEF HInv, CacheOK
  <2>2. QED
    BY <1>7, <1>13, <2>1 DEF HInv, CacheOK
<1>18. DevicesOK'
  BY <1>2, <1>4, <1>7, <1>10, <1>13 DEF HInv, DevicesOK, Serves
<1>19. Unshared'
  <2> SUFFICES ASSUME ~cfg.cache, NEW g \in Handles
               PROVE  /\ \A a, b \in Streams : StreamUses(a, g)' /\ StreamUses(b, g)' => a = b
                      /\ \A v, u \in Threads : CallUses(v, g)' /\ CallUses(u, g)' => v = u
                      /\ \A a \in Streams, u \in Threads : ~(StreamUses(a, g)' /\ CallUses(u, g)')
                      /\ handle'[g] # Free => \/ \E a \in Streams : StreamUses(a, g)'
                                              \/ \E u \in Threads : CallUses(u, g)'
    BY <1>7 DEF Unshared
  <2>1. \A a \in Streams : StreamUses(a, g)' <=> (IF a = s THEN g = h ELSE StreamUses(a, g))
    BY <1>10, <1>12, <1>13 DEF StreamUses
  <2>2. \A u \in Threads : CallUses(u, g)' <=> CallUses(u, g) /\ u # t
    BY <1>13 DEF CallUses
  <2>3. CallUses(t, g) <=> g = h
    BY <1>1 DEF CallUses, Device, h
  <2>4. ~StreamUses(s, g)
    BY <1>13 DEF StreamUses
  <2>5. /\ \A a, b \in Streams : StreamUses(a, g) /\ StreamUses(b, g) => a = b
        /\ \A v, u \in Threads : CallUses(v, g) /\ CallUses(u, g) => v = u
        /\ \A a \in Streams, u \in Threads : ~(StreamUses(a, g) /\ CallUses(u, g))
        /\ handle[g] # Free => \/ \E a \in Streams : StreamUses(a, g)
                               \/ \E u \in Threads : CallUses(u, g)
    BY DEF HInv, Unshared
  <2>6. handle'[g] = handle[g] /\ s \in Streams
    BY <1>3, <1>7 DEF s
  <2>7. QED
    BY <2>1, <2>2, <2>3, <2>4, <2>5, <2>6
<1>20. OpensCounted'
  BY <1>7 DEF HInv, OpensCounted
<1>21. MemoryOK'
  <2>1. \A y \in Streams : strm'[y] # Closed /\ strm'[y].kind = "inflate" => strm'[y].base["ibuf"] = None
    <3>1. x.kind = "inflate" => base["ibuf"] = None
      BY <1>5, <1>9, <1>10, <1>11 DEF Roles
    <3>2. QED
      BY <1>10, <1>13, <3>1 DEF HInv, MemoryOK
  <2> SUFFICES ASSUME NEW p \in Pieces
               PROVE  PieceOK(p)'
    BY <2>1 DEF MemoryOK
  <2>2. PieceOK(p)
    BY DEF HInv, MemoryOK
  <2>3. \A y \in Streams, r \in Roles : StreamHas(y, r, p)' <=>
          (IF y = s THEN base[r] = p ELSE StreamHas(y, r, p))
    BY <1>10, <1>12, <1>13 DEF StreamHas
  <2>4. \A u \in Threads : CallHas(u, p)' <=> CallHas(u, p) /\ u # t
    BY <1>13 DEF CallHas
  <2>5. \A r \in Roles : ~StreamHas(s, r, p)
    BY <1>13 DEF StreamHas
  <2>6. p \in leaked' <=> p \in leaked
    BY <1>7
  <2>7. CallHas(t, p) <=> th[t].from # None /\ p = th[t].wsp
    BY <1>1, <1>3, HandlesAssumption DEF CallHas, CallOK
  <2>8. CASE \E r \in R : f[r] = p
    <3>1. PICK r0 \in R : f[r0] = p
      BY <2>8
    <3>2. mem[p] = "free" /\ mem'[p] # "free"
      BY <1>5, <1>6, <1>14, <3>1
    <3>3. /\ \A y \in Streams, r \in Roles : ~StreamHas(y, r, p)
          /\ \A u \in Threads : ~CallHas(u, p)
          /\ p \notin leaked
      BY <2>2, <3>2 DEF PieceOK
    <3>4. t \in Threads
      OBVIOUS
    <3>5. \A r \in Roles : base[r] = p <=> r = r0
      BY <1>1, <1>5, <1>9, <1>11, <2>7, <3>1, <3>3, <3>4, HandlesAssumption
    <3>6. s \in Streams /\ r0 \in Roles
      BY <1>1, <1>3 DEF s
    <3>7. QED
      BY <2>3, <2>4, <2>6, <3>2, <3>3, <3>5, <3>6 DEF PieceOK
  <2>9. CASE ~\E r \in R : f[r] = p
    <3>1. mem'[p] = mem[p]
      BY <1>14, <2>9
    <3>2. \A r \in Roles : base[r] = p <=> r = "wsp" /\ CallHas(t, p)
      BY <1>5, <1>11, <2>7, <2>9, HandlesAssumption
    <3>3. s \in Streams /\ "wsp" \in Roles
      BY <1>3 DEF s, Roles
    <3>4. QED
      BY <2>2, <2>3, <2>4, <2>5, <2>6, <3>1, <3>2, <3>3 DEF PieceOK
  <2>10. QED
    BY <2>8, <2>9
<1>22. KeptOK'
  <2> SUFFICES ASSUME ~RetypeCached
               PROVE  /\ \A y \in Streams, r \in Roles : strm'[y] # Closed /\ strm'[y].base[r] # None =>
                           mem'[strm'[y].base[r]] = Kept(strm'[y].card_type, strm'[y].kind)
                      /\ \A u \in Threads : th'[u] # Idle /\ th'[u].wsp # None =>
                           mem'[th'[u].wsp] = Kept(th'[u].card_type, "deflate")
    BY <1>7 DEF KeptOK, Kept
  <2>1. \A p \in Pieces : mem[p] # "free" => mem'[p] = mem[p]
    BY <1>5, <1>14
  <2>2. ASSUME NEW u \in Threads, th[u] # Idle, th[u].wsp # None
        PROVE  mem'[th[u].wsp] = Kept(th[u].card_type, "deflate")
    <3>1. th[u].wsp \in Pieces
      BY <2>2, CallFields DEF HInv
    <3>2. mem[th[u].wsp] = Kept(th[u].card_type, "deflate")
      BY <2>2 DEF HInv, KeptOK
    <3>3. QED
      BY <2>1, <3>1, <3>2 DEF Kept
  <2>3. ASSUME NEW y \in Streams, NEW r \in Roles, strm[y] # Closed, strm[y].base[r] # None
        PROVE  mem'[strm[y].base[r]] = Kept(strm[y].card_type, strm[y].kind)
    <3>1. strm[y].base[r] \in Pieces
      BY <2>3, StreamFields DEF HInv
    <3>2. mem[strm[y].base[r]] = Kept(strm[y].card_type, strm[y].kind)
      BY <2>3 DEF HInv, KeptOK
    <3>3. QED
      BY <2>1, <3>1, <3>2 DEF Kept
  <2>4. ASSUME NEW r \in Roles, base[r] # None
        PROVE  mem'[base[r]] = Kept(x.card_type, x.kind)
    <3>1. CASE r = "wsp" /\ th[t].from # None
      <4>1. base[r] = th[t].wsp /\ th[t].kind = "deflate"
        BY <1>3, <1>11, <3>1 DEF CallOK
      <4>2. QED
        BY <1>1, <1>10, <2>2, <2>4, <4>1
    <3>2. CASE ~(r = "wsp" /\ th[t].from # None)
      <4>1. base[r] = f[r] /\ r \in R /\ f[r] \in Pieces
        BY <1>5, <1>11, <2>4, <3>2
      <4>2. mem'[base[r]] = how /\ how # "null"
        BY <1>6, <1>14, <4>1
      <4>3. handle[h].type = th[t].card_type
        BY <1>4 DEF Serves
      <4>4. QED
        BY <1>6, <1>10, <4>2, <4>3
    <3>3. QED
      BY <3>1, <3>2
  <2>5. QED
    BY <1>10, <1>13, <2>2, <2>3, <2>4
<1>23. QED
  BY <1>15, <1>16, <1>17, <1>18, <1>19, <1>20, <1>21, <1>22 DEF HInv

\* The labels of an error path free what was allocated before, and nothing else.
LEMMA UnwindsAll ==
  ASSUME HInv, NEW k \in Kinds, NEW at \in Roles \cup {"init"}, at # "wsp",
         NEW R, R = Before(k, at), Places(R) # {}, NEW how
  PROVE  GivenBack(Taken(mem, Place(R), how), Place(R), Unwinds(at, k)) = mem
<1> DEFINE f == Place(R)
           g == GivenBack(Taken(mem, f, how), f, Unwinds(at, k))
<1>1. R \in SUBSET Roles /\ Unwinds(at, k) \subseteq Roles /\ R \subseteq Unwinds(at, k)
  BY DEF Before, Unwinds, Wanted, Roles, Kinds
<1>2. /\ \A r \in Roles \ R : f[r] = None
      /\ \A r \in R : f[r] \in Pieces /\ mem[f[r]] = "free"
  BY <1>1, PlaceFree
<1> HIDE DEF f
<1>3. \A p \in Pieces : g[p] = mem[p]
  <2> SUFFICES ASSUME NEW p \in Pieces
               PROVE  g[p] = mem[p]
    OBVIOUS
  <2>1. CASE \E r \in Unwinds(at, k) : f[r] = p
    <3>1. g[p] = "free"
      BY <2>1 DEF GivenBack
    <3>2. mem[p] = "free"
      BY <1>1, <1>2, <2>1, HandlesAssumption
    <3>3. QED
      BY <3>1, <3>2
  <2>2. CASE ~\E r \in Unwinds(at, k) : f[r] = p
    <3>1. \A r \in Roles : f[r] # p
      BY <1>1, <1>2, <2>2, HandlesAssumption
    <3>2. QED
      BY <2>2, <3>1 DEF GivenBack, Taken
  <2>3. QED
    BY <2>1, <2>2
<1>4. g = [p \in Pieces |-> mem[p]] /\ mem = [p \in Pieces |-> mem[p]]
  BY <1>3 DEF GivenBack, HInv, TypeOK
<1>5. QED
  BY <1>4 DEF f

LEMMA BuildKeeps ==
  ASSUME HInv, NEW t \in Threads, Build(t)
  PROVE  HInv'
<1> DEFINE h == Device(t)
           k == th[t].kind
<1>1. th[t] # Idle /\ th[t].at = "opened" /\ th[t].from = None
      /\ th' = [th EXCEPT ![t] = Idle] /\ UNCHANGED <<cfg, accel, zedc_cards, lost, leaked>>
  BY DEF Build, Idle
<1>2. th[t].wsp = None /\ k \in Kinds
  BY <1>1, CallFields DEF HInv, CallsOK, CallOK
<1>3. CASE h = None
  <2>1. UNCHANGED <<handle, stats, mem, strm>>
    BY <1>3 DEF Build
  <2>2. GivesUp(t)
    BY <1>1, <1>2, <1>3, <2>1 DEF GivesUp, __zedc_close
  <2>3. QED
    BY <2>2, GivesUpKeeps
<1>4. CASE h # None
  <2>1. PICK at \in StopsAt(k, h) :
          /\ Possible(k, h, at)
          /\ \E f \in {Place(Before(k, at))} :
             IF at = "nowhere"
             THEN /\ mem' = Taken(mem, f, zedc_memalign(h, k))
                  /\ strm' = [strm EXCEPT ![th[t].for] =
                       [kind |-> k, card_no |-> th[t].card_no,
                        card_type |-> th[t].card_type, device |-> h, base |-> f]]
                  /\ UNCHANGED <<handle, stats>>
             ELSE /\ mem' = GivenBack(Taken(mem, f, zedc_memalign(h, k)), f, Unwinds(at, k))
                  /\ __zedc_close(h) /\ UNCHANGED strm
    BY <1>4 DEF Build
  <2> DEFINE R == Before(k, at)
  <2>2. Places(R) # {} /\ (zedc_memalign(h, k) = "null" => R = {})
    BY <2>1 DEF Possible
  <2>3. CASE at = "nowhere"
    <3>1. R \in SUBSET Roles /\ (k = "inflate" => "ibuf" \notin R)
      BY <2>3 DEF Before, Wanted, Roles
    <3>2. Place(R) \in [Roles -> Pieces \cup {None}]
      BY <2>2, <3>1, PlaceFree
    <3>3. Place(R) = [Place(R) EXCEPT !["wsp"] = IF th[t].from = None THEN @ ELSE th[t].wsp]
      BY <1>1, <3>2
    <3>4. Builds(t, R, Place(R))
      BY <1>1, <1>4, <2>1, <2>2, <2>3, <3>1, <3>3 DEF Builds
    <3>5. QED
      BY <3>4, BuildsKeeps
  <2>4. CASE at # "nowhere"
    <3>1. at \in Roles \cup {"init"} /\ at # "wsp"
      BY <2>4 DEF StopsAt, Wanted, Roles
    <3>2. mem' = mem
      BY <1>2, <2>1, <2>2, <2>4, <3>1, UnwindsAll
    <3>3. GivesUp(t)
      BY <1>1, <1>2, <2>1, <2>4, <3>2 DEF GivesUp
    <3>4. QED
      BY <3>3, GivesUpKeeps
  <2>5. QED
    BY <2>3, <2>4
<1>5. QED
  BY <1>3, <1>4

LEMMA BuildCopyKeeps ==
  ASSUME HInv, NEW t \in Threads, BuildCopy(t)
  PROVE  HInv'
<1> DEFINE h == Device(t)
           R == CopyWants(t)
<1>1. th[t] # Idle /\ th[t].at = "opened" /\ th[t].from # None
      /\ th' = [th EXCEPT ![t] = Idle] /\ UNCHANGED <<cfg, accel, zedc_cards, lost>>
  BY DEF BuildCopy, Idle
<1>2. th[t].wsp \in Pieces /\ th[t].wsp # None /\ th[t].kind = "deflate"
  BY <1>1, CallFields DEF HInv, CallsOK, CallOK
<1>3. R \in SUBSET Roles /\ "wsp" \notin R
  BY DEF CopyWants, Roles
<1>4. CASE /\ h # None /\ (zedc_memalign(h, "deflate") = "null" => R = {}) /\ Places(R) # {}
           /\ \E f \in {Place(R)} :
              /\ mem' = Taken(mem, f, zedc_memalign(h, "deflate"))
              /\ strm' = [strm EXCEPT ![th[t].for] =
                   [kind |-> "deflate", card_no |-> th[t].card_no, card_type |-> th[t].card_type,
                    device |-> h, base |-> [f EXCEPT !["wsp"] = th[t].wsp]]]
           /\ UNCHANGED <<handle, stats, leaked>>
  <2> DEFINE base == [Place(R) EXCEPT !["wsp"] = IF th[t].from = None THEN @ ELSE th[t].wsp]
  <2>1. base = [Place(R) EXCEPT !["wsp"] = th[t].wsp]
    BY <1>1
  <2>2. Builds(t, R, base)
    BY <1>1, <1>2, <1>3, <1>4, <2>1 DEF Builds
  <2>3. QED
    BY <2>2, BuildsKeeps
<1>5. CASE __zedc_close(h) /\ leaked' = leaked \cup {th[t].wsp} /\ UNCHANGED <<mem, strm>>
  <2>1. GivesUp(t)
    BY <1>1, <1>2, <1>5 DEF GivesUp
  <2>2. QED
    BY <2>1, GivesUpKeeps
<1>6. QED
  BY <1>4, <1>5 DEF BuildCopy

\* h_deflateCopy starts: its workspace was free, and is of the kind that the source's is.
LEMMA CopyKeeps ==
  ASSUME HInv, NEW t \in Threads, NEW s \in Streams, NEW src \in Streams, Copy(t, s, src)
  PROVE  HInv'
<1> DEFINE o == strm[src]
           f == Place({"wsp"})
           p0 == f["wsp"]
           x == Opening(s, "deflate", o.card_no, o.card_type, src, p0)
           how == zedc_memalign(o.device, "deflate")
<1>1. ~cfg.done /\ th[t] = Idle /\ Unused(s) /\ o # Closed /\ o.kind = "deflate"
      /\ how # "null" /\ Places({"wsp"}) # {}
      /\ mem' = Taken(mem, f, how) /\ th' = [th EXCEPT ![t] = x]
      /\ UNCHANGED <<cfg, accel, handle, zedc_cards, strm, stats, lost, leaked>>
  BY DEF Copy
<1>2. o.card_no \in Cards /\ o.card_type \in Types /\ o.device \in Handles
      /\ Serves(o.device, o.card_no, o.card_type)
  BY <1>1, StreamFields DEF HInv, DevicesOK
<1>3. /\ f \in [Roles -> Pieces \cup {None}]
      /\ \A r \in Roles \ {"wsp"} : f[r] = None
      /\ p0 \in Pieces /\ mem[p0] = "free"
  BY <1>1, PlaceFree DEF Roles
<1>4. how \in {"heap", "driver"} /\ how = Kept(handle[o.device].type, "deflate")
  <2>1. PICK g \in Handles : g = o.device /\ handle[g] # Free
    BY <1>2 DEF Serves
  <2>2. QED
    BY <1>1, <2>1, MemalignKept
<1>5. /\ x \in CallRecords /\ x # Idle
      /\ x.for = s /\ x.kind = "deflate" /\ x.card_no = o.card_no /\ x.card_type = o.card_type
      /\ x.device = Cached(o.card_no) /\ x.from = src /\ x.wsp = p0
      /\ x.at = "opening" => x.device = None
  <2>1. TypeOK
    BY DEF HInv
  <2>2. x = Opening(s, "deflate", o.card_no, o.card_type, src, p0)
    OBVIOUS
  <2> HIDE DEF x
  <2>3. PICK c \in Cards, a \in Types, k \in Kinds, g \in Streams \cup {None}, q \in Pieces \cup {None} :
          c = o.card_no /\ a = o.card_type /\ k = "deflate" /\ g = src /\ q = p0
    BY <1>2, <1>3 DEF Kinds
  <2>4. x = Opening(s, k, c, a, g, q)
    BY <2>2, <2>3
  <2>5. /\ x \in CallRecords
        /\ x.for = s /\ x.kind = k /\ x.card_no = c /\ x.card_type = a
        /\ x.device = Cached(c) /\ x.from = g /\ x.wsp = q
        /\ x.at = "opening" => x.device = None
    BY <2>1, <2>4, OpeningFields
  <2>6. QED
    BY <2>3, <2>5, RecordsDiffer
<1> HIDE DEF x, how, p0, f
<1>6. /\ th'[t] = x /\ \A u \in Threads \ {t} : th'[u] = th[u]
      /\ strm[s] = Closed /\ \A u \in Threads : th[u] # Idle => th[u].for # s
  BY <1>1 DEF HInv, TypeOK, Unused
<1>7. \A p \in Pieces : mem'[p] = IF p = p0 THEN how ELSE mem[p]
  BY <1>1, <1>3, HandlesAssumption DEF Taken, Roles, p0
<1>8. ~cfg.cache => x.device = None
  BY <1>5 DEF Cached
<1>9. TypeOK'
  <2>1. th' \in [Threads -> {Idle} \cup CallRecords]
    BY <1>1, <1>5 DEF HInv, TypeOK, CallRecords
  <2>2. mem' \in [Pieces -> {"free", "heap", "driver"}]
    BY <1>1, <1>4, <1>7 DEF HInv, TypeOK, Taken
  <2>3. QED
    BY <1>1, <2>1, <2>2 DEF HInv, TypeOK, CallRecords
<1>10. CallsOK'
  <2> SUFFICES ASSUME NEW u \in Threads, th'[u] # Idle
               PROVE  CallOK(u)'
    BY <1>1 DEF CallsOK
  <2>1. CASE u = t
    BY <1>1, <1>3, <1>5, <1>6, <2>1, HandlesAssumption DEF CallOK
  <2>2. CASE u # t
    BY <1>1, <1>5, <1>6, <2>2 DEF CallOK, HInv, CallsOK
  <2>3. QED
    BY <2>1, <2>2
<1>11. CacheOK'
  <2>1. ~InCache(x.card_no) => x.device = None
    BY <1>2, <1>5 DEF HInv, CacheOK, Cached
  <2>2. cfg.cache /\ ~RetypeCached => x.card_type = accel.type
    BY <1>1, <1>5 DEF HInv, CacheOK
  <2>3. QED
    BY <1>1, <1>6, <2>1, <2>2 DEF HInv, CacheOK
<1>12. DevicesOK'
  BY <1>1, <1>6, <1>8 DEF HInv, DevicesOK, Serves
<1>13. Unshared'
  BY <1>1, <1>6, <1>8, HandlesAssumption DEF HInv, Unshared, StreamUses, CallUses
<1>14. OpensCounted'
  BY <1>1 DEF HInv, OpensCounted
<1>15. MemoryOK'
  <2> SUFFICES ASSUME NEW p \in Pieces
               PROVE  PieceOK(p)'
    BY <1>1 DEF HInv, MemoryOK
  <2>1. PieceOK(p)
    BY DEF HInv, MemoryOK
  <2>2. \A y \in Streams, r \in Roles : StreamHas(y, r, p)' <=> StreamHas(y, r, p)
    BY <1>1 DEF StreamHas
  <2>3. \A u \in Threads : CallHas(u, p)' <=> (IF u = t THEN p = p0 ELSE CallHas(u, p))
    BY <1>5, <1>6 DEF CallHas
  <2>4. ~CallHas(t, p)
    BY <1>1 DEF CallHas
  <2>5. p \in leaked' <=> p \in leaked
    BY <1>1
  <2>6. CASE p = p0
    <3>1. mem[p] = "free" /\ mem'[p] # "free"
      BY <1>3, <1>4, <1>7, <2>6
    <3>2. /\ \A y \in Streams, r \in Roles : ~StreamHas(y, r, p)
          /\ \A u \in Threads : ~CallHas(u, p)
          /\ p \notin leaked
      BY <2>1, <3>1 DEF PieceOK
    <3>3. QED
      BY <2>2, <2>3, <2>5, <2>6, <3>1, <3>2 DEF PieceOK
  <2>7. CASE p # p0
    <3>1. mem'[p] = mem[p]
      BY <1>7, <2>7
    <3>2. \A u \in Threads : CallHas(u, p)' <=> CallHas(u, p)
      BY <2>3, <2>4, <2>7
    <3>3. QED
      BY <2>1, <2>2, <2>5, <3>1, <3>2 DEF PieceOK
  <2>8. QED
    BY <2>6, <2>7
<1>16. KeptOK'
  <2> SUFFICES ASSUME ~RetypeCached
               PROVE  /\ \A y \in Streams, r \in Roles : strm[y] # Closed /\ strm[y].base[r] # None =>
                           mem'[strm[y].base[r]] = Kept(strm[y].card_type, strm[y].kind)
                      /\ \A u \in Threads : th'[u] # Idle /\ th'[u].wsp # None =>
                           mem'[th'[u].wsp] = Kept(th'[u].card_type, "deflate")
    BY <1>1 DEF KeptOK, Kept
  <2>1. \A p \in Pieces : mem[p] # "free" => mem'[p] = mem[p]
    BY <1>3, <1>7
  <2>2. ASSUME NEW u \in Threads, th'[u] # Idle, th'[u].wsp # None
        PROVE  mem'[th'[u].wsp] = Kept(th'[u].card_type, "deflate")
    <3>1. CASE u = t
      <4>1. mem'[p0] = how
        BY <1>3, <1>7
      <4>2. handle[o.device].type = o.card_type
        BY <1>2 DEF Serves
      <4>3. QED
        BY <1>4, <1>5, <1>6, <3>1, <4>1, <4>2
    <3>2. CASE u # t
      <4>1. th[u] # Idle /\ th[u].wsp # None /\ th'[u] = th[u]
        BY <1>6, <2>2, <3>2
      <4>2. th[u].wsp \in Pieces
        BY <4>1, CallFields DEF HInv
      <4>3. mem[th[u].wsp] = Kept(th[u].card_type, "deflate")
        BY <4>1 DEF HInv, KeptOK
      <4>4. QED
        BY <2>1, <4>1, <4>2, <4>3 DEF Kept
    <3>3. QED
      BY <3>1, <3>2
  <2>3. ASSUME NEW y \in Streams, NEW r \in Roles, strm[y] # Closed, strm[y].base[r] # None
        PROVE  mem'[strm[y].base[r]] = Kept(strm[y].card_type, strm[y].kind)
    <3>1. strm[y].base[r] \in Pieces
      BY <2>3, StreamFields DEF HInv
    <3>2. mem[strm[y].base[r]] = Kept(strm[y].card_type, strm[y].kind)
      BY <2>3 DEF HInv, KeptOK
    <3>3. QED
      BY <2>1, <3>1, <3>2 DEF Kept
  <2>4. QED
    BY <2>2, <2>3
<1>17. QED
  BY <1>9, <1>10, <1>11, <1>12, <1>13, <1>14, <1>15, <1>16 DEF HInv

-----------------------------------------------------------------------------
(* The end of a stream, and of the library                                 *)

LEMMA EndKeeps ==
  ASSUME HInv, NEW s \in Streams, End(s)
  PROVE  HInv'
<1> DEFINE h == strm[s].device
           f == strm[s].base
<1>1. /\ ~cfg.done /\ strm[s] # Closed
      /\ \A t \in Threads : th[t] # Idle => th[t].from # s
      /\ mem' = GivenBack(mem, f, EndFrees(s)) /\ strm' = [strm EXCEPT ![s] = Closed]
      /\ UNCHANGED <<cfg, accel, zedc_cards, th, lost, leaked>>
  BY DEF End
<1>2. /\ h \in Handles /\ handle[h] # Free /\ strm[s].kind \in Kinds
      /\ f \in [Roles -> Pieces \cup {None}]
  BY <1>1, StreamFields DEF HInv, DevicesOK, Serves
<1>3. /\ handle' \in [Handles -> HandleRecords] /\ stats' \in Tallies /\ OpensCounted'
      /\ cfg.cache => handle' = handle
      /\ ~cfg.cache => handle' = [handle EXCEPT ![h] = Free]
  <2>1. TypeOK /\ OpensCounted /\ __zedc_close(h) /\ h # None
    BY <1>2, HandlesAssumption DEF HInv, End
  <2> HIDE DEF h
  <2>2. QED
    BY <1>2, <2>1, CloseKeeps
<1>4. \A p \in Pieces : mem'[p] = IF \E r \in Roles : StreamHas(s, r, p) THEN "free" ELSE mem[p]
  <2>1. \A r \in Roles \ EndFrees(s) : f[r] = None
    BY <1>1, <1>2 DEF EndFrees, HInv, MemoryOK, Roles, Kinds
  <2>2. EndFrees(s) \subseteq Roles
    BY DEF EndFrees, Roles
  <2>3. QED
    BY <1>1, <2>1, <2>2, HandlesAssumption DEF GivenBack, StreamHas
<1>5. ~cfg.cache => /\ \A y \in Streams \ {s} : strm[y] # Closed => strm[y].device # h
                    /\ \A u \in Threads : th[u] # Idle => th[u].device # h
  <2>1. StreamUses(s, h)
    BY <1>1 DEF StreamUses
  <2>2. QED
    BY <1>2, <2>1 DEF HInv, Unshared, CallUses, StreamUses
<1> HIDE DEF h, f
<1>6. /\ strm'[s] = Closed /\ \A y \in Streams \ {s} : strm'[y] = strm[y]
      /\ \A g \in Handles : IF ~cfg.cache /\ g = h THEN handle'[g] = Free ELSE handle'[g] = handle[g]
  BY <1>1, <1>2, <1>3 DEF HInv, TypeOK
<1>7. TypeOK'
  <2>1. strm' \in [Streams -> {Closed} \cup StreamRecords]
    BY <1>1 DEF HInv, TypeOK, StreamRecords
  <2>2. mem' \in [Pieces -> {"free", "heap", "driver"}]
    BY <1>1, <1>4 DEF HInv, TypeOK, GivenBack
  <2>3. QED
    BY <1>1, <1>3, <2>1, <2>2 DEF HInv, TypeOK, StreamRecords, Tallies, HandleRecords
<1>8. CallsOK'
  <2> SUFFICES ASSUME NEW u \in Threads, th[u] # Idle
               PROVE  CallOK(u)'
    BY <1>1 DEF CallsOK
  <2>1. CallOK(u) /\ th[u].from # s /\ th[u].for \in Streams /\ th[u].from \in Streams \cup {None}
    BY <1>1, CallFields DEF HInv, CallsOK
  <2>2. QED
    BY <1>1, <1>6, <2>1 DEF CallOK
<1>9. CacheOK'
  <2>1. cfg.cache => handle' = handle
    BY <1>3
  <2>2. QED
    BY <1>1, <1>6, <2>1 DEF HInv, CacheOK
<1>10. DevicesOK'
  <2>1. \A y \in Streams : strm'[y] # Closed => Serves(strm[y].device, strm[y].card_no, strm[y].card_type)'
    BY <1>1, <1>5, <1>6 DEF HInv, DevicesOK, Serves
  <2>2. ~cfg.cache => \A u \in Threads : th'[u] # Idle /\ th'[u].device # None =>
          Serves(th[u].device, th[u].card_no, th[u].card_type)'
    <3>1. \A u \in Threads : th'[u] = th[u]
      BY <1>1
    <3>2. QED
      BY <1>1, <1>5, <1>6, <3>1 DEF HInv, DevicesOK, Serves
  <2>3. QED
    BY <1>1, <2>1, <2>2 DEF DevicesOK
<1>11. Unshared'
  <2> SUFFICES ASSUME ~cfg.cache, NEW g \in Handles
               PROVE  /\ \A a, b \in Streams : StreamUses(a, g)' /\ StreamUses(b, g)' => a = b
                      /\ \A v, u \in Threads : CallUses(v, g)' /\ CallUses(u, g)' => v = u
                      /\ \A a \in Streams, u \in Threads : ~(StreamUses(a, g)' /\ CallUses(u, g)')
                      /\ handle'[g] # Free => \/ \E a \in Streams : StreamUses(a, g)'
                                              \/ \E u \in Threads : CallUses(u, g)'
    BY <1>1 DEF Unshared
  <2>1. \A a \in Streams : StreamUses(a, g)' <=> StreamUses(a, g) /\ a # s
    BY <1>6 DEF StreamUses
  <2>2. \A u \in Threads : CallUses(u, g)' <=> CallUses(u, g)
    BY <1>1 DEF CallUses
  <2>3. g # h => ~StreamUses(s, g)
    BY DEF StreamUses, h
  <2>4. g # h => handle'[g] = handle[g]
    BY <1>6
  <2>5. g = h => handle'[g] = Free
    BY <1>6
  <2>6. QED
    BY <2>1, <2>2, <2>3, <2>4, <2>5 DEF HInv, Unshared
<1>12. MemoryOK'
  <2>1. \A y \in Streams : strm'[y] # Closed /\ strm'[y].kind = "inflate" => strm'[y].base["ibuf"] = None
    BY <1>6 DEF HInv, MemoryOK
  <2> SUFFICES ASSUME NEW p \in Pieces
               PROVE  PieceOK(p)'
    BY <2>1 DEF MemoryOK
  <2>2. PieceOK(p)
    BY DEF HInv, MemoryOK
  <2>3. \A y \in Streams, r \in Roles : StreamHas(y, r, p)' <=> StreamHas(y, r, p) /\ y # s
    BY <1>6 DEF StreamHas
  <2>4. \A u \in Threads : CallHas(u, p)' <=> CallHas(u, p)
    BY <1>1 DEF CallHas
  <2>5. p \in leaked' <=> p \in leaked
    BY <1>1
  <2>6. CASE \E r \in Roles : StreamHas(s, r, p)
    <3>1. mem'[p] = "free"
      BY <1>4, <2>6
    <3>2. p \notin leaked
      BY <2>2, <2>6 DEF PieceOK
    <3>3. \A y \in Streams, r \in Roles : ~StreamHas(y, r, p)'
      BY <2>2, <2>3, <2>6 DEF PieceOK
    <3>4. \A u \in Threads : ~CallHas(u, p)'
      BY <2>2, <2>4, <2>6 DEF PieceOK
    <3>5. QED
      BY <2>5, <3>1, <3>2, <3>3, <3>4 DEF PieceOK
  <2>7. CASE ~\E r \in Roles : StreamHas(s, r, p)
    <3>1. mem'[p] = mem[p]
      BY <1>4, <2>7
    <3>2. \A y \in Streams, r \in Roles : StreamHas(y, r, p)' <=> StreamHas(y, r, p)
      BY <2>3, <2>7
    <3>3. QED
      BY <2>2, <2>4, <2>5, <3>1, <3>2 DEF PieceOK
  <2>8. QED
    BY <2>6, <2>7
<1>13. KeptOK'
  <2> SUFFICES ASSUME ~RetypeCached
               PROVE  /\ \A y \in Streams, r \in Roles : strm'[y] # Closed /\ strm'[y].base[r] # None =>
                           mem'[strm'[y].base[r]] = Kept(strm'[y].card_type, strm'[y].kind)
                      /\ \A u \in Threads : th[u] # Idle /\ th[u].wsp # None =>
                           mem'[th[u].wsp] = Kept(th[u].card_type, "deflate")
    BY <1>1 DEF KeptOK, Kept
  <2>1. ASSUME NEW y \in Streams, NEW r \in Roles, strm'[y] # Closed, strm'[y].base[r] # None
        PROVE  mem'[strm'[y].base[r]] = Kept(strm'[y].card_type, strm'[y].kind)
    <3>1. y # s /\ strm'[y] = strm[y]
      BY <1>6, <2>1
    <3>2. PICK p \in Pieces : p = strm[y].base[r]
      BY <2>1, <3>1, StreamFields DEF HInv
    <3>3. \A q \in Roles : ~StreamHas(s, q, p)
      BY <2>1, <3>1, <3>2 DEF HInv, MemoryOK, PieceOK, StreamHas
    <3>4. mem'[p] = mem[p]
      BY <1>4, <3>3
    <3>5. mem[p] = Kept(strm[y].card_type, strm[y].kind)
      BY <2>1, <3>1, <3>2 DEF HInv, KeptOK
    <3>6. QED
      BY <3>1, <3>2, <3>4, <3>5
  <2>2. ASSUME NEW u \in Threads, th[u] # Idle, th[u].wsp # None
        PROVE  mem'[th[u].wsp] = Kept(th[u].card_type, "deflate")
    <3>1. PICK p \in Pieces : p = th[u].wsp
      BY <2>2, CallFields DEF HInv
    <3>2. \A q \in Roles : ~StreamHas(s, q, p)
      BY <2>2, <3>1 DEF HInv, MemoryOK, PieceOK, CallHas
    <3>3. mem'[p] = mem[p]
      BY <1>4, <3>2
    <3>4. mem[p] = Kept(th[u].card_type, "deflate")
      BY <2>2, <3>1 DEF HInv, KeptOK
    <3>5. QED
      BY <3>1, <3>3, <3>4
  <2>3. QED
    BY <2>1, <2>2
<1>14. QED
  BY <1>3, <1>7, <1>8, <1>9, <1>10, <1>11, <1>12, <1>13 DEF HInv

\* Closing several open handles at once keeps the count.
LEMMA ManyClosed ==
  ASSUME NEW st \in Tallies, NEW hd \in [Handles -> HandleRecords], Tallied(st, hd),
         NEW C \in SUBSET Handles, \A h \in C : hd[h] # Free,
         NEW s2, s2 = [a \in Types |-> [st[a] EXCEPT !.close = @ + Cardinality({h \in C : hd[h].type = a})]],
         NEW h2, h2 = [h \in Handles |-> IF h \in C THEN Free ELSE hd[h]]
  PROVE  s2 \in Tallies /\ Tallied(s2, h2)
<1>1. \A a \in Types :
        /\ s2[a] \in [open : 0..MaxOpens, close : 0..MaxOpens]
        /\ s2[a].open - s2[a].close = Cardinality(OpenOf(h2, a))
  <2> SUFFICES ASSUME NEW a \in Types
               PROVE  /\ s2[a] \in [open : 0..MaxOpens, close : 0..MaxOpens]
                      /\ s2[a].open - s2[a].close = Cardinality(OpenOf(h2, a))
    OBVIOUS
  <2> DEFINE X == {h \in C : hd[h].type = a}
  <2>1. X \subseteq OpenOf(hd, a) /\ OpenOf(hd, a) \cap X = X /\ OpenOf(h2, a) = OpenOf(hd, a) \ X
    BY DEF OpenOf
  <2>2. /\ IsFiniteSet(OpenOf(hd, a)) /\ Cardinality(OpenOf(hd, a)) \in Nat
        /\ Cardinality(X) \in Nat /\ Cardinality(X) <= Cardinality(OpenOf(hd, a))
    BY <2>1, OpenOfFinite, FS_Subset, FS_CardinalityType
  <2>3. Cardinality(OpenOf(h2, a)) = Cardinality(OpenOf(hd, a)) - Cardinality(X)
    BY <2>1, <2>2, FS_Difference
  <2>4. s2[a] = [st[a] EXCEPT !.close = @ + Cardinality(X)]
    OBVIOUS
  <2> HIDE DEF X
  <2>5. st[a] \in [open : 0..MaxOpens, close : 0..MaxOpens]
        /\ st[a].open - st[a].close = Cardinality(OpenOf(hd, a))
    BY DEF Tallies, Tallied
  <2>6. s2[a].open = st[a].open /\ s2[a].close = st[a].close + Cardinality(X)
        /\ s2[a] = [open |-> st[a].open, close |-> st[a].close + Cardinality(X)]
    BY <2>4, <2>5
  <2>7. st[a].open \in 0..MaxOpens /\ st[a].close + Cardinality(X) \in 0..MaxOpens
    BY <2>2, <2>5, HandlesAssumption
  <2>8. s2[a].open - s2[a].close = Cardinality(OpenOf(h2, a))
    BY <2>2, <2>3, <2>5, <2>6
  <2>9. QED
    BY <2>6, <2>7, <2>8
<1>2. s2 \in Tallies
  BY <1>1 DEF Tallies
<1>3. QED
  BY <1>1, <1>2 DEF Tallied

LEMMA DoneKeeps ==
  ASSUME HInv, zedc_hw_done
  PROVE  HInv'
<1> DEFINE C == ClosedAtEnd
<1>1. /\ ~cfg.done /\ \A t \in Threads : th[t] = Idle
      /\ cfg' = [cfg EXCEPT !.done = TRUE]
      /\ UNCHANGED <<accel, zedc_cards, mem, strm, th, lost, leaked>>
  BY DEF zedc_hw_done
<1>2. cfg'.cache = cfg.cache /\ cfg'.flat = cfg.flat /\ cfg'.done = TRUE
      /\ cfg' \in [cache : Caching, flat : Flats, buffered : Buffered, done : BOOLEAN]
  BY <1>1 DEF HInv, TypeOK
<1>3. C \in SUBSET Handles /\ \A h \in C : handle[h] # Free
  BY <1>1 DEF ClosedAtEnd, HInv, TypeOK, CacheOK
<1>4. /\ handle' \in [Handles -> HandleRecords] /\ stats' \in Tallies /\ OpensCounted'
      /\ IF cfg.cache THEN handle' = [h \in Handles |-> IF h \in C THEN Free ELSE handle[h]]
         ELSE handle' = handle
  <2>1. handle \in [Handles -> HandleRecords] /\ stats \in Tallies /\ Tallied(stats, handle)
    BY OpensTallied DEF HInv, TypeOK, HandleRecords, Tallies
  <2>2. CASE ~cfg.cache
    <3>1. handle' = handle /\ stats' = stats
      BY <2>2 DEF zedc_hw_done
    <3>2. QED
      BY <2>1, <2>2, <3>1 DEF HInv, OpensCounted
  <2>3. CASE cfg.cache
    <3>1. /\ handle' = [h \in Handles |-> IF h \in C THEN Free ELSE handle[h]]
          /\ stats' = [a \in Types |-> [stats[a] EXCEPT
                         !.close = @ + Cardinality({h \in C : handle[h].type = a})]]
      BY <2>3 DEF zedc_hw_done
    <3> HIDE DEF C
    <3>2. stats' \in Tallies /\ Tallied(stats', handle')
      BY <1>3, <2>1, <3>1, ManyClosed
    <3>3. handle' \in [Handles -> HandleRecords]
      BY <2>1, <3>1 DEF HandleRecords
    <3>4. OpensCounted'
      BY <3>2 DEF OpensCounted, Tallied, OpenOf
    <3>5. QED
      BY <2>3, <3>1, <3>2, <3>3, <3>4
  <2>4. QED
    BY <2>2, <2>3
<1>5. TypeOK'
  BY <1>1, <1>2, <1>4 DEF HInv, TypeOK, HandleRecords, Tallies
<1>6. CallsOK' /\ DevicesOK'
  BY <1>1, <1>2 DEF CallsOK, DevicesOK
<1>7. CacheOK'
  <2>1. cfg.cache => \A h \in Handles : handle'[h] # Free => handle[h] = handle'[h] /\ h \in lost
    <3> SUFFICES ASSUME cfg.cache, NEW h \in Handles, handle'[h] # Free
                 PROVE  handle[h] = handle'[h] /\ h \in lost
      OBVIOUS
    <3>1. h \notin C /\ handle'[h] = handle[h]
      BY <1>4
    <3>2. \A c \in Cards : zedc_cards[c] # h
      BY <3>1, HandlesAssumption DEF ClosedAtEnd
    <3>3. QED
      BY <1>1, <3>1, <3>2 DEF HInv, CacheOK
  <2>2. QED
    BY <1>1, <1>2, <2>1 DEF HInv, CacheOK
<1>8. Unshared'
  BY <1>1, <1>2, <1>4 DEF HInv, Unshared, StreamUses, CallUses
<1>9. MemoryOK'
  BY <1>1 DEF HInv, MemoryOK, PieceOK, StreamHas, CallHas
<1>10. KeptOK'
  BY <1>1, <1>2 DEF HInv, KeptOK, Kept
<1>11. QED
  BY <1>4, <1>5, <1>6, <1>7, <1>8, <1>9, <1>10 DEF HInv

LEMMA StutterKeeps == HInv /\ UNCHANGED vars => HInv'
<1> SUFFICES ASSUME HInv, UNCHANGED vars
             PROVE  HInv'
  OBVIOUS
<1> USE DEF vars
<1>1. TypeOK' /\ CallsOK' /\ CacheOK' /\ DevicesOK'
  BY DEF HInv, TypeOK, CallsOK, CallOK, CacheOK, DevicesOK, Serves
<1>2. Unshared' /\ OpensCounted' /\ KeptOK'
  BY DEF HInv, Unshared, StreamUses, CallUses, OpensCounted, KeptOK, Kept
<1>3. MemoryOK'
  BY DEF HInv, MemoryOK, PieceOK, StreamHas, CallHas
<1>4. QED
  BY <1>1, <1>2, <1>3 DEF HInv

LEMMA NextKeeps == HInv /\ [Next]_vars => HInv'
<1> SUFFICES ASSUME HInv, [Next]_vars
             PROVE  HInv'
  OBVIOUS
<1>1. ASSUME NEW a \in Types, NEW c \in Cards, zlib_set_accelerator(a, c)
      PROVE  HInv'
  BY <1>1, AcceleratorKeeps
<1>2. ASSUME NEW t \in Threads, NEW s \in Streams, NEW k \in Kinds, Open(t, s, k)
      PROVE  HInv'
  BY <1>2, OpenKeeps
<1>3. ASSUME NEW t \in Threads, NEW s \in Streams, NEW src \in Streams,
             Copy(t, s, src) \/ CopyRefused(t, s, src)
      PROVE  HInv'
  <2>1. CASE Copy(t, s, src)
    BY <2>1, CopyKeeps
  <2>2. CASE CopyRefused(t, s, src)
    BY <2>2, StutterKeeps DEF CopyRefused
  <2>3. QED
    BY <1>3, <2>1, <2>2
<1>4. ASSUME NEW t \in Threads, OpenCard(t) \/ NoPlace(t) \/ Build(t) \/ BuildCopy(t)
      PROVE  HInv'
  <2>1. CASE OpenCard(t)
    BY <2>1, OpenCardCases, OpenSucceedsKeeps, OpenFailsKeeps
  <2>2. CASE NoPlace(t)
    BY <2>2, NoPlaceKeeps
  <2>3. CASE Build(t)
    BY <2>3, BuildKeeps
  <2>4. CASE BuildCopy(t)
    BY <2>4, BuildCopyKeeps
  <2>5. QED
    BY <1>4, <2>1, <2>2, <2>3, <2>4
<1>5. ASSUME NEW s \in Streams, End(s)
      PROVE  HInv'
  BY <1>5, EndKeeps
<1>6. CASE zedc_hw_done
  BY <1>6, DoneKeeps
<1>7. CASE UNCHANGED vars
  BY <1>7, StutterKeeps
<1>8. QED
  BY <1>1, <1>2, <1>3, <1>4, <1>5, <1>6, <1>7 DEF Next

-----------------------------------------------------------------------------
(* The theorems                                                            *)

\* The invariant holds in every reachable state.
THEOREM HandlesInvariant == Spec => []HInv
<1>1. QED
  BY InitHInv, NextKeeps, PTL DEF Spec

\* One owner, in terms of the sets of owners that the properties are about.
LEMMA UsersAlone ==
  ASSUME HInv, ~cfg.cache, NEW h \in Handles, handle[h] # Free
  PROVE  \E u \in Users(h) : Users(h) = {u}
<1>1. \A u \in Users(h) :
        \/ \E s \in Streams : u = <<"stream", s>> /\ StreamUses(s, h)
        \/ \E t \in Threads : u = <<"call", t>> /\ CallUses(t, h)
  BY DEF Users, Opened, Busy, StreamUses, CallUses
<1>2. \A u, v \in Users(h) : u = v
  BY <1>1 DEF HInv, Unshared
<1>3. Users(h) # {}
  <2>1. \A s \in Streams : StreamUses(s, h) => <<"stream", s>> \in Users(h)
    BY DEF Users, Opened, StreamUses
  <2>2. \A t \in Threads : CallUses(t, h) => <<"call", t>> \in Users(h)
    BY DEF Users, Busy, CallUses
  <2>3. (\E s \in Streams : StreamUses(s, h)) \/ (\E t \in Threads : CallUses(t, h))
    BY DEF HInv, Unshared
  <2>4. QED
    BY <2>1, <2>2, <2>3
<1>4. QED
  BY <1>2, <1>3

LEMMA OwnersAlone ==
  ASSUME HInv, NEW p \in Pieces
  PROVE  /\ mem[p] = "free" \/ p \in leaked => Owners(p) = {}
         /\ mem[p] # "free" /\ p \notin leaked => \E o \in Owners(p) : Owners(p) = {o}
<1>1. \A o \in Owners(p) :
        \/ \E s \in Streams, r \in Roles : o = <<"stream", <<s, r>>>> /\ StreamHas(s, r, p)
        \/ \E t \in Threads : o = <<"call", t>> /\ CallHas(t, p)
  BY DEF Owners, Opened, Busy, StreamHas, CallHas
<1>2. PieceOK(p)
  BY DEF HInv, MemoryOK
<1>3. \A o, q \in Owners(p) : o = q
  BY <1>1, <1>2 DEF PieceOK
<1>4. \A s \in Streams, r \in Roles : StreamHas(s, r, p) => <<"stream", <<s, r>>>> \in Owners(p)
  BY DEF Owners, Opened, StreamHas
<1>5. \A t \in Threads : CallHas(t, p) => <<"call", t>> \in Owners(p)
  BY DEF Owners, Busy, CallHas
<1>6. mem[p] = "free" \/ p \in leaked => Owners(p) = {}
  BY <1>1, <1>2 DEF PieceOK
<1>7. mem[p] # "free" /\ p \notin leaked => Owners(p) # {}
  BY <1>2, <1>4, <1>5 DEF PieceOK
<1>8. QED
  BY <1>3, <1>6, <1>7

\* lib/hardware.c, __zedc_open and __zedc_close, lib/libddcb.c: streams and calls work on open
\* handles of the card they asked for, with and without the cache; a handle is open because of
\* one of them, or the cache; and the statistics count the cards that are open.
THEOREM HandlesAreOwned == Spec => []CardsOwned
<1>1. HInv => CardsOwned
  <2> SUFFICES ASSUME HInv
               PROVE  CardsOwned
    OBVIOUS
  <2>1. HandlesUsable
    <3> SUFFICES ASSUME ~cfg.done
                 PROVE  /\ \A s \in Opened : IsOpen(strm[s].device)
                        /\ \A t \in Busy : th[t].at = "opened" => Device(t) = None \/ IsOpen(Device(t))
                        /\ \A c \in Cards : zedc_cards[c] # None => IsOpen(zedc_cards[c])
      BY DEF HandlesUsable
    <3>1. \A s \in Opened : IsOpen(strm[s].device)
      BY DEF HInv, DevicesOK, Serves, Opened, IsOpen
    <3>2. \A t \in Busy : th[t].at = "opened" => Device(t) = None \/ IsOpen(Device(t))
      BY DeviceServes DEF Serves, Busy, IsOpen
    <3>3. \A c \in Cards : zedc_cards[c] # None => IsOpen(zedc_cards[c])
      BY DEF HInv, CacheOK, TypeOK, IsOpen
    <3>4. QED
      BY <3>1, <3>2, <3>3
  <2>2. HandlesOwned
    BY UsersAlone DEF HandlesOwned, HInv, CacheOK, IsOpen
  <2>3. CardAsked
    BY DEF HInv, DevicesOK, Serves, CardAsked, Opened
  <2>4. QED
    BY <2>1, <2>2, <2>3 DEF CardsOwned, HInv
<1>2. QED
  BY <1>1, HandlesInvariant, PTL

\* lib/hardware.c and lib/libzHW.c: buffers and workspaces are given back once, on all error
\* paths but those of h_deflateCopy, and to the driver or the heap they came from.
THEOREM MemoryIsOwned == Spec => []MemorySound
<1>1. HInv => MemorySound
  <2> SUFFICES ASSUME HInv
               PROVE  MemorySound
    OBVIOUS
  <2>1. MemoryOwned
    <3>1. \A p \in Pieces : PieceOK(p)
      BY DEF HInv, MemoryOK
    <3>2. QED
      BY <3>1, OwnersAlone DEF MemoryOwned, PieceOK
  <2>2. FreedAsTaken
    <3> SUFFICES ASSUME ~cfg.done, ~RetypeCached, NEW s \in Opened, NEW r \in Roles, strm[s].base[r] # None
                 PROVE  mem[strm[s].base[r]] = zedc_free(strm[s].device, strm[s].kind)
      BY DEF FreedAsTaken
    <3>1. s \in Streams /\ strm[s] # Closed
      BY DEF Opened
    <3>2. Serves(strm[s].device, strm[s].card_no, strm[s].card_type)
      BY <3>1 DEF HInv, DevicesOK
    <3>3. mem[strm[s].base[r]] = Kept(strm[s].card_type, strm[s].kind)
      BY <3>1 DEF HInv, KeptOK
    <3>4. QED
      BY <3>2, <3>3 DEF Serves, Kept, zedc_free
  <2>3. QED
    BY <2>1, <2>2 DEF MemorySound
<1>2. QED
  BY <1>1, HandlesInvariant, PTL
=============================================================================
