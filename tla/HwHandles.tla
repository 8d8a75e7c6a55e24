----------------------------- MODULE HwHandles -----------------------------
(* What a hardware stream is made of, and how it comes and goes: the card   *)
(* handle (src/lib/libzHW.c on src/lib/libddcb.c), which may be shared      *)
(* through the cache of src/lib/hardware.c, the two buffers of the adapter  *)
(* and the workspace of the stream, in memory of the process or of the      *)
(* driver.  Threads open, copy and end streams; there is no lock around the *)
(* cache, whose lookup, store and second read are steps of their own.       *)
EXTENDS Integers, FiniteSets

CONSTANTS Threads, Streams, None,
          Cards,           \* card numbers, ACCEL_REDUNDANT among them or not
          Types,           \* of {"GENWQE", "CAPI"}
          Caching,         \* of BOOLEAN: is ZLIB_FLAG_CACHE_HANDLES set
          Flats,           \* sets of the kinds with ZLIB_FLAG_USE_FLAT_BUFFERS
          Buffered,        \* sets of the kinds whose buffers have a size (zlib_ibuf_total, zlib_obuf_total)
          Handles, Pieces, \* addresses of handles and of memory; bounds
          Fits,            \* what an address can be used for; a bound where it is not everything
          MaxOpens,        \* a bound on the number of opens of a card
          CopyFails,       \* what may fail in h_deflateCopy
          RetypeCached     \* may the type of the accelerator change while handles are cached

ACCEL_REDUNDANT == -1
ZEDC_CARDS_LENGTH == 128

ASSUME HandlesAssumption ==
  /\ Cards \subseteq Int /\ IsFiniteSet(Handles) /\ MaxOpens \in Nat
  /\ Fits \in [Pieces -> SUBSET {"ibuf", "obuf", "wsp"}]
  /\ None \notin Cards \cup Handles \cup Pieces \cup Streams
  /\ Types \subseteq {"GENWQE", "CAPI"} /\ Flats \cup Buffered \subseteq SUBSET {"deflate", "inflate"}
  /\ Caching \subseteq BOOLEAN /\ RetypeCached \in BOOLEAN
  /\ CopyFails \subseteq {"workspace", "open", "ibuf", "obuf"}

VARIABLES cfg,         \* the flags, which streams are buffered, and if the library was unloaded
          accel,       \* zlib_accelerator, zlib_card
          handle,      \* struct zedc_dev_t and the card below, by address
          zedc_cards,  \* the cache, by card number
          mem,         \* allocated memory, by address: "free", "heap" or "driver"
          strm,        \* struct hw_state
          th,          \* where a thread is in h_deflateInit2_, h_inflateInit2_ or h_deflateCopy
          stats,       \* num_open and num_close of the accelerator types
          lost,        \* handles that a store to the cache replaced
          leaked       \* workspaces of copies that failed

vars == <<cfg, accel, handle, zedc_cards, mem, strm, th, stats, lost, leaked>>

Kinds == {"deflate", "inflate"}
Roles == {"ibuf", "obuf", "wsp"}
Free == [card |-> None]
Closed == [kind |-> "closed"]
Idle == [at |-> "idle"]

TypeOK ==
  /\ cfg \in [cache : Caching, flat : Flats, buffered : Buffered, done : BOOLEAN]
  /\ accel \in [type : Types, card : Cards]
  /\ handle \in [Handles -> {Free} \cup [card : Cards, type : Types]]
  /\ zedc_cards \in [Cards -> Handles \cup {None}]
  /\ mem \in [Pieces -> {"free", "heap", "driver"}]
  /\ strm \in [Streams -> {Closed} \cup
               [kind : Kinds, card_no : Cards, card_type : Types, device : Handles,
                base : [Roles -> Pieces \cup {None}]]]
  /\ th \in [Threads -> {Idle} \cup
             [at : {"opening", "opened"}, for : Streams, kind : Kinds, card_no : Cards,
              card_type : Types, device : Handles \cup {None},
              from : Streams \cup {None}, wsp : Pieces \cup {None}]]
  /\ stats \in [Types -> [open : 0..MaxOpens, close : 0..MaxOpens]]
  /\ lost \subseteq Handles /\ leaked \subseteq Pieces

\* zedc_hw_init takes both flags away when the environment asks for CAPI.
Init ==
  /\ accel \in [type : Types, card : Cards]
  /\ cfg \in [cache : Caching, flat : Flats, buffered : Buffered, done : {FALSE}]
  /\ accel.type # "GENWQE" => ~cfg.cache /\ cfg.flat = {}
  /\ handle = [h \in Handles |-> Free] /\ zedc_cards = [c \in Cards |-> None]
  /\ mem = [p \in Pieces |-> "free"] /\ strm = [s \in Streams |-> Closed]
  /\ th = [t \in Threads |-> Idle]
  /\ stats = [a \in Types |-> [open |-> 0, close |-> 0]] /\ lost = {} /\ leaked = {}

zlib_set_accelerator(type, card_no) ==
  /\ ~cfg.done /\ (type # accel.type => RetypeCached \/ ~cfg.cache)
  /\ accel' = [type |-> type, card |-> card_no]
  /\ UNCHANGED <<cfg, handle, zedc_cards, mem, strm, th, stats, lost, leaked>>

(**************************** Cards and memory ***************************)
FreeHandle == CHOOSE h \in Handles : handle[h] = Free
FreePieces == {p \in Pieces : mem[p] = "free"}

\* Mutated form: memory of the heap for a redundant handle.
MallocAlways(h) ==
  IF handle[h].type = "CAPI" \/ handle[h].card = ACCEL_REDUNDANT THEN "heap" ELSE "driver"
\* GenWQE maps memory of its driver, but not for a redundant handle; CAPI takes the heap.
accel_malloc(h) ==
  IF handle[h].type = "CAPI" THEN "heap"
  ELSE IF handle[h].card = ACCEL_REDUNDANT THEN "null" ELSE "driver"
zedc_memalign(h, kind) == IF kind \in cfg.flat THEN accel_malloc(h) ELSE "heap"
\* What zedc_free would take the memory for.
zedc_free(h, kind) == IF kind \in cfg.flat /\ handle[h].type = "GENWQE" THEN "driver" ELSE "heap"

\* Mutated form: num_open whatever is counted.
CountedAsOpen(counter, type) == [stats EXCEPT ![type].open = @ + 1]
Counted(counter, type) == [stats EXCEPT ![type][counter] = @ + 1]

\* zedc_close: the card's handle and its counter, with the handles h before.
zedc_close(h) ==
  /\ handle' = [handle EXCEPT ![h] = Free]
  /\ stats' = Counted("close", handle[h].type)
\* Mutated form: a cached handle is closed too.
ClosesCached(h) == IF h = None THEN UNCHANGED <<handle, stats>> ELSE zedc_close(h)
\* Mutated form: a close that is ignored counts.
CountsIgnored(h) ==
  IF h = None THEN UNCHANGED <<handle, stats>>
  ELSE IF cfg.cache THEN stats' = Counted("close", handle[h].type) /\ UNCHANGED handle
  ELSE zedc_close(h)
__zedc_close(h) ==
  IF h = None \/ cfg.cache THEN UNCHANGED <<handle, stats>> ELSE zedc_close(h)

(************************* Opening, through the cache ********************)
\* Mutated form: the card is not compared.
CachedAny(card_no) ==
  IF cfg.cache /\ \E c \in Cards : zedc_cards[c] # None
  THEN zedc_cards[CHOOSE c \in Cards : zedc_cards[c] # None] ELSE None
\* The handle that is taken without opening anything.
Cached(card_no) == IF cfg.cache THEN zedc_cards[card_no] ELSE None
InCache(card_no) == card_no = ACCEL_REDUNDANT \/ card_no \in 0..(ZEDC_CARDS_LENGTH - 1)

Opening(s, kind, card_no, card_type, from, wsp) ==
  LET c == Cached(card_no) IN
  [at |-> IF c = None THEN "opening" ELSE "opened", for |-> s, kind |-> kind, card_no |-> card_no,
   card_type |-> card_type, device |-> c, from |-> from, wsp |-> wsp]

Unused(s) == strm[s] = Closed /\ \A t \in Threads : th[t] # Idle => th[t].for # s

\* The application calls h_deflateInit2_ or h_inflateInit2_.
Open(t, s, kind) ==
  /\ ~cfg.done /\ th[t] = Idle /\ Unused(s)
  /\ th' = [th EXCEPT ![t] = Opening(s, kind, accel.card, accel.type, None, None)]
  /\ UNCHANGED <<cfg, accel, handle, zedc_cards, mem, strm, stats, lost, leaked>>

\* zedc_open: the handle, with the card that accel_open opened.
zedc_open(t) == [handle EXCEPT ![FreeHandle] = [card |-> th[t].card_no, type |-> th[t].card_type]]

\* The store of its result into the cache, of NULL too when it failed.
StoreHandle(t, h) ==
  LET c == th[t].card_no IN
  IF cfg.cache
  THEN /\ zedc_cards' = [zedc_cards EXCEPT ![c] = h]
       /\ lost' = lost \cup ({zedc_cards[c]} \ {None})
  ELSE UNCHANGED <<zedc_cards, lost>>

OpenCard(t) ==
  /\ th[t].at = "opening" /\ ~(cfg.cache /\ ~InCache(th[t].card_no))
  /\ \/ /\ \E h \in Handles : handle[h] = Free
        /\ stats[th[t].card_type].open < MaxOpens
        /\ StoreHandle(t, FreeHandle)
        /\ handle' = zedc_open(t)
        /\ stats' = Counted("open", th[t].card_type)
        /\ th' = [th EXCEPT ![t].at = "opened", ![t].device = FreeHandle]
     \/ /\ th[t].from # None => "open" \in CopyFails
        /\ StoreHandle(t, None)
        /\ th' = [th EXCEPT ![t].at = "opened"]
        /\ UNCHANGED <<handle, stats>>
  /\ UNCHANGED <<cfg, accel, mem, strm, leaked>>

\* A number that the cache has no place for.
NoPlace(t) ==
  /\ th[t].at = "opening" /\ cfg.cache /\ ~InCache(th[t].card_no)
  /\ th' = [th EXCEPT ![t].at = "opened"]
  /\ UNCHANGED <<cfg, accel, handle, zedc_cards, mem, strm, stats, lost, leaked>>

\* __zedc_open returns what is in the cache by then.
Device(t) ==
  IF cfg.cache /\ InCache(th[t].card_no) THEN zedc_cards[th[t].card_no] ELSE th[t].device

(******************************* Building ********************************)
\* What the stream allocates; the address of a role is a free one of its own.
Wanted(kind) ==
  {"wsp"} \cup
  IF kind \notin cfg.buffered THEN {} ELSE IF kind = "deflate" THEN {"ibuf", "obuf"} ELSE {"obuf"}
\* Free pieces for the roles R, each another one.
Places(R) ==
  {f \in [R -> FreePieces] : \A a \in R : a \in Fits[f[a]] /\ \A b \in R : f[a] = f[b] => a = b}
Place(R) ==
  LET f == CHOOSE f \in Places(R) : TRUE IN [r \in Roles |-> IF r \in R THEN f[r] ELSE None]
\* The memory with the pieces of f taken by "how"; and with those of R given back.
Taken(m, f, how) == [p \in Pieces |-> IF \E r \in Roles : f[r] = p THEN how ELSE m[p]]
GivenBack(m, f, R) == [p \in Pieces |-> IF \E r \in R : f[r] = p THEN "free" ELSE m[p]]

\* Mutated form: the output buffer has no label of its own.
UnwindsToIbuf(at, kind) ==
  CASE at = "ibuf" -> {} [] at = "obuf" -> IF kind = "deflate" THEN {"ibuf"} ELSE {}
    [] at = "init" -> IF kind = "deflate" THEN {"ibuf"} ELSE {"obuf"}
\* The goto labels: what is freed when the allocation of "at", or the init below, fails.
Unwinds(at, kind) ==
  CASE at = "ibuf" -> {} [] at = "obuf" -> IF kind = "deflate" THEN {"ibuf"} ELSE {}
    [] at = "init" -> IF kind = "deflate" THEN {"ibuf", "obuf"} ELSE {"obuf"}

\* Where the building stops: a buffer, or zedc_deflateInit2 / zedc_inflateInit2 (the card has
\* another application, no workspace, no such format), which frees its workspace itself.
StopsAt(kind, h) ==
  (Wanted(kind) \ {"wsp"}) \cup {"init"} \cup
  IF zedc_memalign(h, kind) = "null" THEN {} ELSE {"nowhere"}
Before(kind, at) ==
  CASE at = "init" -> Wanted(kind) \ {"wsp"}
    [] at = "nowhere" -> Wanted(kind)
    [] at = "obuf" -> Wanted(kind) \cap {"ibuf"}
    [] at = "ibuf" -> {}

\* Without driver memory the first allocation is the one that fails.
Possible(kind, h, at) ==
  /\ zedc_memalign(h, kind) = "null" => Before(kind, at) = {}
  /\ Places(Before(kind, at)) # {}

Build(t) ==
  /\ th[t].at = "opened" /\ th[t].from = None
  /\ \E h \in {Device(t)} :
     LET s == th[t].for
         kind == th[t].kind
     IN IF h = None
        THEN UNCHANGED <<handle, stats, mem, strm>>
        ELSE \E at \in StopsAt(kind, h) :
             /\ Possible(kind, h, at)
             /\ \E f \in {Place(Before(kind, at))} :
                IF at = "nowhere"
                THEN /\ mem' = Taken(mem, f, zedc_memalign(h, kind))
                     /\ strm' = [strm EXCEPT ![s] =
                          [kind |-> kind, card_no |-> th[t].card_no,
                           card_type |-> th[t].card_type, device |-> h, base |-> f]]
                     /\ UNCHANGED <<handle, stats>>
                ELSE /\ mem' = GivenBack(Taken(mem, f, zedc_memalign(h, kind)), f, Unwinds(at, kind))
                     /\ __zedc_close(h) /\ UNCHANGED strm
  /\ th' = [th EXCEPT ![t] = Idle]
  /\ UNCHANGED <<cfg, accel, zedc_cards, lost, leaked>>

(******************************** Copying ********************************)
\* h_deflateCopy up to __zedc_open: the workspace comes from the source's device.
Copy(t, s, src) ==
  /\ ~cfg.done /\ th[t] = Idle /\ Unused(s)
  /\ strm[src] # Closed /\ strm[src].kind = "deflate"
  /\ zedc_memalign(strm[src].device, "deflate") # "null" /\ Places({"wsp"}) # {}
  /\ \E f \in {Place({"wsp"})}, o \in {strm[src]} :
     /\ mem' = Taken(mem, f, zedc_memalign(o.device, "deflate"))
     /\ th' = [th EXCEPT ![t] = Opening(s, "deflate", o.card_no, o.card_type, src, f["wsp"])]
  /\ UNCHANGED <<cfg, accel, handle, zedc_cards, strm, stats, lost, leaked>>

\* The workspace of the copy cannot be allocated: nothing happened.
CopyRefused(t, s, src) ==
  /\ ~cfg.done /\ th[t] = Idle /\ Unused(s)
  /\ strm[src] # Closed /\ strm[src].kind = "deflate"
  /\ "workspace" \in CopyFails \/ zedc_memalign(strm[src].device, "deflate") = "null"
  /\ UNCHANGED vars

\* The buffers of the copy.
CopyWants(t) == {r \in {"ibuf", "obuf"} : strm[th[t].from].base[r] # None}
\* Where h_deflateCopy stops.  err_free_ibuf_base calls free() whatever memory it was: what is
\* undefined for memory of the driver is left out.
CopyStopsAt(t, h) ==
  IF h = None THEN {"open"}
  ELSE {r \in CopyWants(t) \cap CopyFails : r = "obuf" => zedc_memalign(h, "deflate") = "heap"}

\* No error path gives the workspace back.
BuildCopy(t) ==
  /\ th[t].at = "opened" /\ th[t].from # None
  /\ \E h \in {Device(t)} :
     \/ /\ h # None /\ (zedc_memalign(h, "deflate") = "null" => CopyWants(t) = {})
        /\ Places(CopyWants(t)) # {}
        /\ \E f \in {Place(CopyWants(t))} :
           /\ mem' = Taken(mem, f, zedc_memalign(h, "deflate"))
           /\ strm' = [strm EXCEPT ![th[t].for] =
                [kind |-> "deflate", card_no |-> th[t].card_no, card_type |-> th[t].card_type,
                 device |-> h, base |-> [f EXCEPT !["wsp"] = th[t].wsp]]]
        /\ UNCHANGED <<handle, stats, leaked>>
     \/ /\ CopyStopsAt(t, h) # {}
        /\ __zedc_close(h)
        /\ leaked' = leaked \cup {th[t].wsp}
        /\ UNCHANGED <<mem, strm>>
  /\ th' = [th EXCEPT ![t] = Idle]
  /\ UNCHANGED <<cfg, accel, zedc_cards, lost>>

(********************************* Ending ********************************)
\* h_deflateEnd; h_inflateEnd frees no input buffer, as it never has one.
EndFrees(s) == IF strm[s].kind = "deflate" THEN Roles ELSE {"obuf", "wsp"}

\* h_deflateEnd, h_inflateEnd.  The application ends no stream that is being copied.
End(s) ==
  /\ ~cfg.done /\ strm[s] # Closed
  /\ \A t \in Threads : th[t] # Idle => th[t].from # s
  /\ mem' = GivenBack(mem, strm[s].base, EndFrees(s))
  /\ __zedc_close(strm[s].device)
  /\ strm' = [strm EXCEPT ![s] = Closed]
  /\ UNCHANGED <<cfg, accel, zedc_cards, th, lost, leaked>>

\* Mutated form: the loop stops before the place of the redundant card.
ClosedWithoutLast == {zedc_cards[c] : c \in Cards \ {ACCEL_REDUNDANT}} \ {None}
ClosedAtEnd == {zedc_cards[c] : c \in Cards} \ {None}

\* The destructor of the library, when no call is under way.
zedc_hw_done ==
  /\ ~cfg.done /\ \A t \in Threads : th[t] = Idle
  /\ cfg' = [cfg EXCEPT !.done = TRUE]
  /\ IF ~cfg.cache THEN UNCHANGED <<handle, stats>>
     ELSE \E C \in {ClosedAtEnd} :
          /\ handle' = [h \in Handles |-> IF h \in C THEN Free ELSE handle[h]]
          /\ stats' = [a \in Types |-> [stats[a] EXCEPT
                         !.close = @ + Cardinality({h \in C : handle[h].type = a})]]
  /\ UNCHANGED <<accel, zedc_cards, mem, strm, th, lost, leaked>>

Next ==
  \/ \E a \in Types, c \in Cards : zlib_set_accelerator(a, c)
  \/ \E t \in Threads, s \in Streams, k \in Kinds : Open(t, s, k)
  \/ \E t \in Threads, s, src \in Streams : Copy(t, s, src) \/ CopyRefused(t, s, src)
  \/ \E t \in Threads :
     th[t] # Idle /\ (OpenCard(t) \/ NoPlace(t) \/ Build(t) \/ BuildCopy(t))
  \/ \E s \in Streams : End(s)
  \/ zedc_hw_done

Spec == Init /\ [][Next]_vars

(******************************* Properties ******************************)
IsOpen(h) == h \in Handles /\ handle[h] # Free
Opened == {s \in Streams : strm[s] # Closed}
Busy == {t \in Threads : th[t] # Idle}

\* No stream, and no call that is under way, works on a handle that was closed
\* (hardware.c:137: a cached handle outlives the streams that use it).
HandlesUsable ==
  ~cfg.done => /\ \A s \in Opened : IsOpen(strm[s].device)
               /\ \A t \in Busy : th[t].at = "opened" => Device(t) = None \/ IsOpen(Device(t))
               /\ \A c \in Cards : zedc_cards[c] # None => IsOpen(zedc_cards[c])

\* A card stays open for a reason: one stream or call of its own, or the cache; only a store
\* to the cache by a second thread makes it forget one (hardware.c:128), and unloading the
\* library leaves no other open (hardware.c:1708).
Users(h) ==
  {<<"stream", s>> : s \in {x \in Opened : strm[x].device = h}} \cup
  {<<"call", t>> : t \in {x \in Busy : th[x].device = h}}
HandlesOwned ==
  \A h \in Handles : IsOpen(h) =>
    IF cfg.cache THEN h \in lost \/ (~cfg.done /\ \E c \in Cards : zedc_cards[c] = h)
    ELSE \E u \in Users(h) : Users(h) = {u}

\* A stream works on the card that it was opened for, and a copy on the card of its source;
\* the type may differ only in the cache, which does not compare it (hardware.c:127).
CardAsked ==
  ~cfg.done => \A s \in Opened :
    /\ handle[strm[s].device].card = strm[s].card_no
    /\ RetypeCached \/ handle[strm[s].device].type = strm[s].card_type

\* Every piece of memory has exactly one owner and no owner has given it back: the error paths
\* of hardware.c:327 free what they allocated, once, and copies share nothing (hardware.c:376).
\* Only a copy that failed leaves its workspace behind (hardware.c:426).
Owners(p) ==
  {<<"stream", x>> : x \in {y \in Opened \X Roles : strm[y[1]].base[y[2]] = p}} \cup
  {<<"call", t>> : t \in {u \in Busy : th[u].wsp = p}}
MemoryOwned ==
  \A p \in Pieces :
    IF mem[p] = "free" THEN Owners(p) = {} /\ p \notin leaked
    ELSE IF p \in leaked THEN Owners(p) = {} ELSE \E o \in Owners(p) : Owners(p) = {o}

\* Memory will be given back the way it was taken: munmap for the driver's, free for the
\* heap's, also the workspace of a copy, which came from the source's handle (libzHW.c:538),
\* unless the cache has handles of several types.
FreedAsTaken ==
  ~cfg.done /\ ~RetypeCached => \A s \in Opened, r \in Roles :
    strm[s].base[r] # None => mem[strm[s].base[r]] = zedc_free(strm[s].device, strm[s].kind)

\* With the statistics on, the counters of libddcb.c:233 and libddcb.c:277 tell how many
\* cards are open.
OpensCounted ==
  \A a \in Types :
    stats[a].open - stats[a].close =
      Cardinality({h \in Handles : handle[h] # Free /\ handle[h].type = a})

\* Streams work on open handles of the card they asked for, and cards are closed once.
CardsOwned == TypeOK /\ HandlesUsable /\ HandlesOwned /\ CardAsked /\ OpensCounted

\* Memory is given back once, and the way it was taken.
MemorySound == MemoryOwned /\ FreedAsTaken
=============================================================================
