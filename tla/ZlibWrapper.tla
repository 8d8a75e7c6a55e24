---------------------------- MODULE ZlibWrapper ----------------------------
(* The zlib front end (src/lib/wrapper.c).  An application's z_stream gets  *)
(* a wrapper state that remembers the parameters of the stream and points   *)
(* to the stream below, either of the zlib that was loaded (src/lib/        *)
(* software.c) or of the hardware (src/lib/hardware.c).  Which of the two   *)
(* works is chosen at init, changed when init fails, and for inflate        *)
(* changed once more at the first call that has data.  Calls on one stream  *)
(* come one after the other; both kinds of states are heap objects.         *)
EXTENDS Integers, FiniteSets

CONSTANTS Streams,        \* the z_stream structures of the application
          Inflating,      \* those it may use to decompress
          Apart,          \* a bound: streams of one kind at a time; they share nothing but cfg
          Ids,            \* addresses of heap objects; a bound
          None,
          Formats,        \* of {"raw", "zlib", "gzip"}: what windowBits asks for
          Sizes, zlib_inflate_threshold,   \* avail_in of a call, and where hardware pays
          SwLibs,         \* of {"none", "old", "full"}: the zlib that is loaded
          SwFails         \* of {"init", "switch", "params"}: where software init may fail

ASSUME WrapperAssumption ==
  /\ Apart \in BOOLEAN /\ None \notin Ids
  /\ Inflating \subseteq Streams /\ Formats \subseteq {"raw", "zlib", "gzip"}
  /\ Sizes \subseteq Nat /\ zlib_inflate_threshold \in Nat
  /\ SwLibs \subseteq {"none", "old", "full"} /\ SwFails \subseteq {"init", "switch", "params"}

VARIABLES cfg,      \* of the process: zlib_inflate_impl, zlib_deflate_impl, the zlib loaded
          strm,     \* z_stream -> [state, fed]: fed is total_in > 0
          w,        \* struct _internal_state, by address
          low,      \* the streams below, by address
          asked     \* z_stream -> what the application asked for with calls that succeeded

vars == <<cfg, strm, w, low, asked>>

Impls == {"HW", "SW"}
Kinds == {"inflate", "deflate"}
Free == [kind |-> "free"]
Closed == [kind |-> "closed"]

WrapperStates ==
  [kind : Kinds, impl : Impls, priv_data : Ids, allow_switching : BOOLEAN,
   windowBits : Formats, gzhead : BOOLEAN, dictionary : BOOLEAN]
LowStreams ==
  [kind : Kinds, impl : Impls, format : Formats, head : BOOLEAN, dict : BOOLEAN,
   primed : BOOLEAN, used : BOOLEAN]
Requests ==
  [kind : Kinds, format : Formats, head : BOOLEAN, dict : BOOLEAN, primed : BOOLEAN,
   data : BOOLEAN, lost : BOOLEAN]

TypeOK ==
  /\ cfg \in [inflate : Impls, deflate : Impls, lib : SwLibs]
  /\ strm \in [Streams -> [state : Ids \cup {None}, fed : BOOLEAN]]
  /\ w \in [Ids -> {Free} \cup WrapperStates]
  /\ low \in [Ids -> {Free} \cup LowStreams]
  /\ asked \in [Streams -> {Closed} \cup Requests]

\* The functions that ZLIB_DEFLATE_IMPL and ZLIB_INFLATE_IMPL choose, and dlopen's result.
Init ==
  /\ cfg \in [inflate : Impls, deflate : Impls, lib : SwLibs]
  /\ strm = [s \in Streams |-> [state |-> None, fed |-> FALSE]]
  /\ w = [i \in Ids |-> Free] /\ low = [i \in Ids |-> Free]
  /\ asked = [s \in Streams |-> Closed]

zlib_set_inflate_impl(i) == cfg' = [cfg EXCEPT !.inflate = i] /\ UNCHANGED <<strm, w, low, asked>>
zlib_set_deflate_impl(i) == cfg' = [cfg EXCEPT !.deflate = i] /\ UNCHANGED <<strm, w, low, asked>>

FreeId(heap) == CHOOSE i \in Ids : heap[i] = Free
HasFree(heap) == \E i \in Ids : heap[i] = Free
W(s) == w[strm[s].state]
Low(s) == low[W(s).priv_data]
Open(s, kind) == strm[s].state # None /\ W(s).kind = kind

(*************************** The streams below ***************************)
NewLow(kind, impl, format) ==
  [kind |-> kind, impl |-> impl, format |-> format, head |-> FALSE, dict |-> FALSE,
   primed |-> FALSE, used |-> FALSE]

z_hasGetDictionary == cfg.lib = "full"
\* check_sym: without a zlib, or with another version, no function but zlibVersion is there.
SwLoaded == cfg.lib # "none"

\* Software decompression wants a dictionary of a wrapped stream when it asks for it, which
\* is after data only; hardware compares it with the one that was asked for, if zlib.
z_inflateSetDictionary(l, ok) == l.format = "raw" \/ (l.format = "zlib" /\ l.used /\ ok)
h_inflateSetDictionary(l, ok) == l.format # "zlib" \/ (l.used /\ ok)
z_inflateGetHeader(l) == l.format = "gzip"
z_deflateSetDictionary(l) == l.format = "raw" \/ (l.format = "zlib" /\ ~l.used)
h_deflateSetDictionary(l) == l.format = "raw" \/ ~l.used
z_deflateSetHeader(l) == l.format = "gzip"

\* A reset below: hardware keeps its gzip header, for zlib that is so with deflate only.
KeptHead(l) == l.head /\ (l.impl = "HW" \/ l.kind = "deflate")
ResetLow(l, format) ==
  [NewLow(l.kind, l.impl, format) EXCEPT !.head = KeptHead(l)]

(******************************** Opening ********************************)
\* How initialising can end: with the first implementation, with software after a failure,
\* or, if software fails too, not at all.
Result(impl, fallback) == [impl |-> impl, fallback |-> fallback]
Failed == Result("none", TRUE)
SwResults(place) == IF place \in SwFails \/ ~SwLoaded THEN {Failed} ELSE {}
SwAgain(place) == IF SwLoaded THEN {Result("SW", TRUE)} ELSE {}
Tries(impl, place) ==
  SwResults(place) \cup
  IF impl = "HW" THEN {Result("HW", FALSE)} \cup SwAgain(place)
  ELSE IF SwLoaded THEN {Result("SW", FALSE)} ELSE {}

\* After a fall back to software the stream stays there.
StaysSwitchable(r, on) == on /\ ~r.fallback

\* Hardware has no level 0.
FirstImpl(impl, level0) == IF level0 THEN "SW" ELSE impl
__deflateInit2_(impl, level0, place) == Tries(FirstImpl(impl, level0), place)
__inflateInit2_(impl, place) == Tries(impl, place)

NewW(kind, r, priv, format) ==
  [kind |-> kind, impl |-> r.impl, priv_data |-> priv,
   allow_switching |-> kind = "inflate" /\ StaysSwitchable(r, TRUE), windowBits |-> format,
   gzhead |-> FALSE, dictionary |-> FALSE]
NewAsked(kind, format) ==
  [kind |-> kind, format |-> format, head |-> FALSE, dict |-> FALSE, primed |-> FALSE,
   data |-> FALSE, lost |-> FALSE]

\* A stream that could be initialised gets a wrapper state, otherwise that is freed again.
Opened(s, kind, r, format) ==
  /\ strm[s].state = None /\ HasFree(w) /\ HasFree(low)
  /\ Apart => \A t \in Streams : strm[t].state # None => W(t).kind = kind
  /\ IF r = Failed
     THEN strm' = [strm EXCEPT ![s].fed = FALSE] /\ UNCHANGED <<w, low, asked>>
     ELSE LET i == FreeId(w)  j == FreeId(low) IN
          /\ strm' = [strm EXCEPT ![s] = [state |-> i, fed |-> FALSE]]
          /\ w' = [w EXCEPT ![i] = NewW(kind, r, j, format)]
          /\ low' = [low EXCEPT ![j] = NewLow(kind, r.impl, format)]
          /\ asked' = [asked EXCEPT ![s] = NewAsked(kind, format)]
  /\ UNCHANGED cfg

deflateInit2_(s, format, level0) ==
  \E r \in __deflateInit2_(cfg.deflate, level0, "init") : Opened(s, "deflate", r, format)

inflateInit2_(s, format) ==
  /\ s \in Inflating
  /\ \E r \in __inflateInit2_(cfg.inflate, "init") : Opened(s, "inflate", r, format)

(**************************** End, reset, copy ****************************)
\* The stream below is freed, whatever it returns.
__deflateEnd(s, l) == [l EXCEPT ![W(s).priv_data] = Free]
__inflateEnd(s, l) == [l EXCEPT ![W(s).priv_data] = Free]

End(s, freed) ==
  /\ low' = freed
  /\ w' = [w EXCEPT ![strm[s].state] = Free]
  /\ strm' = [strm EXCEPT ![s].state = None]
  /\ asked' = [asked EXCEPT ![s] = Closed]
  /\ UNCHANGED cfg
deflateEnd(s) == Open(s, "deflate") /\ End(s, __deflateEnd(s, low))
inflateEnd(s) == Open(s, "inflate") /\ End(s, __inflateEnd(s, low))

deflateReset(s) ==
  /\ Open(s, "deflate")
  /\ low' = [low EXCEPT ![W(s).priv_data] = ResetLow(@, @.format)]
  /\ strm' = [strm EXCEPT ![s].fed = FALSE]
  /\ asked' = [asked EXCEPT ![s] = [NewAsked("deflate", @.format) EXCEPT
                                       !.head = asked[s].head, !.lost = asked[s].lost]]
  /\ UNCHANGED <<cfg, w>>

\* What inflateReset forgets in the wrapper state.
Forgotten(x) == [x EXCEPT !.allow_switching = TRUE, !.gzhead = FALSE, !.dictionary = FALSE]

inflateReset(s) ==
  /\ Open(s, "inflate")
  /\ w' = [w EXCEPT ![strm[s].state] = Forgotten(@)]
  /\ low' = [low EXCEPT ![W(s).priv_data] = ResetLow(@, @.format)]
  /\ strm' = [strm EXCEPT ![s].fed = FALSE]
  /\ asked' = [asked EXCEPT ![s] = NewAsked("inflate", @.format)]
  /\ UNCHANGED cfg

\* The new windowBits go to the stream below only, the header stays in the wrapper state.
inflateReset2(s, format) ==
  /\ Open(s, "inflate")
  /\ w' = [w EXCEPT ![strm[s].state] = [@ EXCEPT !.allow_switching = TRUE, !.dictionary = FALSE]]
  /\ low' = [low EXCEPT ![W(s).priv_data] = ResetLow(@, format)]
  /\ strm' = [strm EXCEPT ![s].fed = FALSE]
  /\ asked' = [asked EXCEPT ![s] = NewAsked("inflate", format)]
  /\ UNCHANGED cfg

\* Mutated form: the copy goes on with the stream below of its source.
SharedPriv(x, j) == x
\* Mutated form: its pointer to the stream below stays empty.
EmptyPriv(x, j) == [x EXCEPT !.priv_data = None]
CopiedW(x, j) == [x EXCEPT !.priv_data = j]

\* A copy has a wrapper state and a stream below of its own; hardware may refuse one.
deflateCopy(dest, source) ==
  /\ strm[dest].state = None /\ Open(source, "deflate") /\ HasFree(w) /\ HasFree(low)
  /\ \/ /\ Low(source).impl = "HW"
        /\ strm' = [strm EXCEPT ![dest].fed = strm[source].fed]
        /\ UNCHANGED <<w, low, asked>>
     \/ LET i == FreeId(w)  j == FreeId(low) IN
        /\ w' = [w EXCEPT ![i] = CopiedW(W(source), j)]
        /\ low' = [low EXCEPT ![j] = Low(source)]
        /\ strm' = [strm EXCEPT ![dest] = [state |-> i, fed |-> strm[source].fed]]
        /\ asked' = [asked EXCEPT ![dest] = asked[source]]
  /\ UNCHANGED cfg

(******************************* Compressing ******************************)
\* Data goes to the stream below; without input there may be output alone (a header).
deflate(s, n) ==
  /\ Open(s, "deflate")
  /\ \E took \in {FALSE, n > 0}, wrote \in BOOLEAN :
       /\ low' = [low EXCEPT ![W(s).priv_data].used = @ \/ took \/ wrote]
       /\ strm' = [strm EXCEPT ![s].fed = @ \/ took]
       /\ asked' = [asked EXCEPT ![s].data = @ \/ took]
  /\ UNCHANGED <<cfg, w>>

deflateSetDictionary(s) ==
  /\ Open(s, "deflate")
  /\ IF W(s).impl = "HW" THEN h_deflateSetDictionary(Low(s)) ELSE z_deflateSetDictionary(Low(s))
  /\ low' = [low EXCEPT ![W(s).priv_data].dict = TRUE]
  /\ asked' = [asked EXCEPT ![s].dict = TRUE]
  /\ UNCHANGED <<cfg, strm, w>>

deflateSetHeader(s) ==
  /\ Open(s, "deflate")
  /\ W(s).impl = "HW" \/ z_deflateSetHeader(Low(s))
  /\ low' = [low EXCEPT ![W(s).priv_data].head = TRUE]
  /\ asked' = [asked EXCEPT ![s].head = TRUE]
  /\ UNCHANGED <<cfg, strm, w>>

\* Bits to go before the data; hardware has no such function.
Prime(s) ==
  /\ W(s).impl = "SW"
  /\ low' = [low EXCEPT ![W(s).priv_data].primed = TRUE]
  /\ asked' = [asked EXCEPT ![s].primed = TRUE]
  /\ UNCHANGED <<cfg, strm, w>>

deflatePrime(s) == Open(s, "deflate") /\ Prime(s)
inflatePrime(s) == Open(s, "inflate") /\ Prime(s)

\* Mutated form: the level is changed whatever was compressed before.
RestartsForLevel(s, level0) == W(s).impl = "HW" /\ level0
\* Hardware cannot change its level; a stream that has no data yet starts again in software.
Restarts(s, level0) == W(s).impl = "HW" /\ ~strm[s].fed /\ level0

\* Ending and starting again in deflateParams, which loses dictionary and header.  If software
\* fails too the wrapper state keeps the pointer to what was freed.
Restart(s) ==
  \E r \in __deflateInit2_("HW", TRUE, "params") :
    LET freed == __deflateEnd(s, low)  j == FreeId(freed) IN
    /\ low' = IF r = Failed THEN freed ELSE [freed EXCEPT ![j] = NewLow("deflate", "SW", W(s).windowBits)]
    /\ w' = [w EXCEPT ![strm[s].state] =
               [W(s) EXCEPT !.impl = "SW", !.priv_data = IF r = Failed THEN @ ELSE j]]
    /\ strm' = [strm EXCEPT ![s].fed = FALSE]
    /\ asked' = [asked EXCEPT ![s].lost = @ \/ Low(s).dict \/ Low(s).head]

deflateParams(s, level0) ==
  /\ Open(s, "deflate")
  /\ IF Restarts(s, level0) THEN Restart(s) ELSE UNCHANGED <<strm, w, low, asked>>
  /\ UNCHANGED cfg

(****************************** Decompressing ******************************)
\* Mutated form: the private copy of the dictionary is asked for always.
CachedDictionary(x, l) == x.dictionary
\* An old zlib cannot be asked for the dictionary: the wrapper state has a copy of it.
inflateGetDictionary(x, l) ==
  IF x.impl = "HW" \/ z_hasGetDictionary THEN l.dict ELSE x.dictionary

\* inflateGetHeader and inflateSetDictionary, on wrapper state and stream below.
GotHeader(x, l) == [l EXCEPT !.head = @ \/ x.impl = "HW" \/ z_inflateGetHeader(l)]
AcceptsDictionary(x, l, ok) ==
  IF x.impl = "HW" THEN h_inflateSetDictionary(l, ok) ELSE z_inflateSetDictionary(l, ok)
\* Without z_inflateGetDictionary the copy is made even of a dictionary that was refused.
CopiedDictionary(x) == [x EXCEPT !.dictionary = @ \/ (x.impl = "SW" /\ ~z_hasGetDictionary)]

inflateGetHeader(s) ==
  /\ Open(s, "inflate")
  /\ w' = [w EXCEPT ![strm[s].state].gzhead = TRUE]
  /\ low' = [low EXCEPT ![W(s).priv_data] = GotHeader(W(s), @)]
  /\ asked' = [asked EXCEPT ![s].head = TRUE]
  /\ UNCHANGED <<cfg, strm>>

inflateSetDictionary(s) ==
  /\ Open(s, "inflate")
  /\ \E ok \in BOOLEAN :
       LET accepts == AcceptsDictionary(W(s), Low(s), ok) IN
       /\ low' = [low EXCEPT ![W(s).priv_data].dict = @ \/ accepts]
       /\ asked' = [asked EXCEPT ![s].dict = @ \/ accepts]
  /\ w' = [w EXCEPT ![strm[s].state] = CopiedDictionary(@)]
  /\ UNCHANGED <<cfg, strm>>

\* The bytes up to a marker are skipped, in software.
inflateSync(s, n) ==
  /\ Open(s, "inflate") /\ W(s).impl = "SW" /\ n > 0
  /\ low' = [low EXCEPT ![W(s).priv_data].used = TRUE]
  /\ strm' = [strm EXCEPT ![s].fed = TRUE]
  /\ asked' = [asked EXCEPT ![s].data = TRUE]
  /\ UNCHANGED <<cfg, w>>

\* The choice between hardware and software is open until the stream below was called.
Undecided(s) == ~strm[s].fed /\ W(s).allow_switching

\* Small input is not worth the hardware, large input is if the application wants hardware.
WantsSwitch(s, n) ==
  /\ Undecided(s)
  /\ \/ n < zlib_inflate_threshold /\ W(s).impl = "HW"
     \/ n >= zlib_inflate_threshold /\ W(s).impl = "SW" /\ cfg.inflate = "HW"
SwitchTo(s) == IF W(s).impl = "HW" THEN "SW" ELSE cfg.inflate

HeaderAgain(x, l) == IF x.gzhead THEN GotHeader(x, l) ELSE l
DictionaryAgain(l, had) == [l EXCEPT !.dict = had]

\* The call of the stream below, after which the choice is made for good.
Called(s, x, l, j, n) ==
  \E took \in {FALSE, n > 0} :
    /\ low' = [low EXCEPT ![W(s).priv_data] = Free, ![j] = [l EXCEPT !.used = @ \/ took]]
    /\ w' = [w EXCEPT ![strm[s].state] = [x EXCEPT !.allow_switching = FALSE]]
    /\ strm' = [strm EXCEPT ![s].fed = @ \/ took]
    /\ asked' = [asked EXCEPT ![s].data = @ \/ took]

\* What is left of the wrapper state when the stream below was started again, or was not.
Switched(x, r, j) ==
  [x EXCEPT !.impl = IF r = Failed THEN "SW" ELSE r.impl, !.priv_data = j,
            !.allow_switching = StaysSwitchable(r, @)]

\* The switch: end the stream below, start the other, hand over header and dictionary.
\* If the dictionary is refused the whole stream is ended; if nothing can be started the
\* z_stream has no state any more and the wrapper state is left behind.
Switch(s, n) ==
  \E r \in __inflateInit2_(SwitchTo(s), "switch") :
    LET had == inflateGetDictionary(W(s), Low(s))
        freed == __inflateEnd(s, low)  j == FreeId(freed)
        x == Switched(W(s), r, j)
        l == HeaderAgain(x, NewLow("inflate", r.impl, x.windowBits)) IN
    CASE r = Failed ->
           /\ low' = freed
           /\ w' = [w EXCEPT ![strm[s].state] = x]
           /\ strm' = [strm EXCEPT ![s].state = None]
           /\ asked' = [asked EXCEPT ![s] = Closed]
      [] r # Failed /\ had /\ ~AcceptsDictionary(x, l, FALSE) -> End(s, freed)
      [] OTHER ->
           Called(s, IF had THEN CopiedDictionary(x) ELSE x, DictionaryAgain(l, had), j, n)

\* Without data nothing is decided: inflate returns Z_BUF_ERROR.
inflate(s, n) ==
  /\ Open(s, "inflate")
  /\ Undecided(s) => n > 0
  /\ IF WantsSwitch(s, n) THEN Switch(s, n) ELSE Called(s, W(s), Low(s), W(s).priv_data, n)
  /\ UNCHANGED cfg

Next ==
  \/ \E i \in Impls : zlib_set_inflate_impl(i) \/ zlib_set_deflate_impl(i)
  \/ \E s \in Streams :
       \/ \E f \in Formats, l \in BOOLEAN : deflateInit2_(s, f, l)
       \/ \E f \in Formats : inflateInit2_(s, f) \/ inflateReset2(s, f)
       \/ deflateEnd(s) \/ inflateEnd(s) \/ deflateReset(s) \/ inflateReset(s)
       \/ \E source \in Streams : deflateCopy(s, source)
       \/ \E n \in Sizes : deflate(s, n) \/ inflate(s, n) \/ inflateSync(s, n)
       \/ deflateSetDictionary(s) \/ deflateSetHeader(s) \/ deflatePrime(s) \/ inflatePrime(s)
       \/ \E l \in BOOLEAN : deflateParams(s, l)
       \/ inflateGetHeader(s) \/ inflateSetDictionary(s)

Spec == Init /\ [][Next]_vars

(******************************* Properties *******************************)
Opens == {s \in Streams : strm[s].state # None}

\* Software can be started in place of hardware.  If not, deflateParams leaves a pointer to what
\* it freed, and what is done with such a stream is not defined.
RestartsWork == SwLoaded /\ SwFails \cap {"switch", "params"} = {}

\* Every wrapper state belongs to one z_stream and every stream below to one wrapper state
\* of its kind, whatever was switched, copied, restarted or refused: nothing is left behind
\* and nothing is freed that is still in use.
Exclusive ==
  /\ \A i \in Ids : w[i] # Free => \E s \in Opens : strm[s].state = i
  /\ \A s, t \in Opens : strm[s].state = strm[t].state => s = t
  /\ \A s \in Opens : /\ w[strm[s].state] # Free /\ Low(s) # Free
                      /\ Low(s).kind = W(s).kind /\ Low(s).impl = W(s).impl
  /\ \A j \in Ids : low[j] # Free =>
       Cardinality({s \in Opens : W(s).priv_data = j}) = 1
Owned == RestartsWork => Exclusive

\* What the wrapper does not save: the windowBits of inflateReset2, bits of inflatePrime, what
\* deflateParams loses; and the dictionary that an old zlib refused and that it saves.
NotSaved(s) ==
  \/ W(s).windowBits # asked[s].format \/ asked[s].primed \/ asked[s].lost
  \/ W(s).dictionary /\ ~asked[s].dict

Kept(s) ==
  /\ Low(s).format = asked[s].format /\ Low(s).dict = asked[s].dict
  /\ asked[s].head /\ Low(s).format = "gzip" => Low(s).head

\* The stream below has the format, dictionary and header the application asked for, also
\* after the switch between hardware and software, a fall back, a reset or a copy.
SettingsKept == \A s \in Opens : NotSaved(s) \/ Kept(s)

\* Data the application gave away is in the stream below it: no switch and no restart throws
\* it away, and total_in tells.
DataKept == \A s \in Opens : /\ asked[s].data => Low(s).used
                             /\ asked[s].data = strm[s].fed

\* Neither what a stream was told nor what it was given is lost.
StreamKept == RestartsWork => TypeOK /\ SettingsKept /\ DataKept
=============================================================================
