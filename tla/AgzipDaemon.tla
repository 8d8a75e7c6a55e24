----------------------------- MODULE AgzipDaemon -----------------------------
(***************************************************************************)
(* The monitor of the CAPI GZIP cards, tools/agzipd.c: one thread per card *)
(* with a state machine that opens the master AFU, reads the state of all  *)
(* contexts and starts again when the card fails; a server thread; one     *)
(* thread per client that reads what the card threads write, without any   *)
(* lock; and the main thread, which waits, and stops the card threads when *)
(* the server ends or a signal comes.                                      *)
(*                                                                         *)
(* The contexts of a card are read from one register instead of eight, and *)
(* the work load, the build date and the host name are left out.           *)
(***************************************************************************)
EXTENDS Integers, FiniteSets, FiniteSetsExt

CONSTANTS
  Cards,        \* 0 .. MAX_CAPI_CARDS-1
  Ctxs,         \* contexts of a card, 0 .. n
  Clients,      \* connections to the server
  Devices,      \* what each card may be, and turn into: a function from Cards to sets of
                \*   "good"; "missing" (cannot be opened); "foreign" (wrong version, vendor or
                \*   device, or no attach); "old" (cannot be mapped, or its release is too low);
                \*   "dead" (no register can be read, also the release not)
  Shows,        \* the flags that contexts of a good card have, of 'M', 'I', 'W', 'R', 'E'
  HeapFailCnt,  \* what malloc leaves in fail_cnt: 0, 1, 2, or 3 for any other number
  HeapMaxCtx,   \* ... and in max_ctx
  None          \* no collection

ASSUME CardsAssumption == Cards = 0 .. Cardinality(Cards) - 1 /\ Cards # {}
ASSUME ShowsAssumption == Shows \subseteq {"M", "I", "W", "R", "E"} /\ Shows # {}
ASSUME CtxsAssumption == Ctxs = 0 .. Cardinality(Ctxs) - 1 /\ Ctxs # {}
ASSUME FiniteAssumption == IsFiniteSet(Cards) /\ IsFiniteSet(Ctxs) /\ \A s \in SUBSET Ctxs : s # None
ASSUME HeapAssumption == HeapFailCnt \subseteq 0..3 /\ HeapMaxCtx \subseteq Int

Kinds == {"good", "missing", "foreign", "old", "dead"}
ASSUME DevicesAssumption == Devices \in [Cards -> SUBSET Kinds]
States == {"DO_CARD_OPEN", "COLLECT_STATIC_DATA", "COLLECT_TRANS_DATA", "DO_CARD_CLOSE",
           "CARD_CLOSED", "CARD_FAIL"}
Flags == {"N", "M", "I", "W", "R", "E"}
Last == Cardinality(Cards) - 1

VARIABLES
  dev,       \* what the card is now
  held,      \* AFU handles the process has of it, capped at 2
  \* struct card_data_s, and the variables of card_thread
  afu_h,     \* "NULL", "open", or "freed": it still points to a handle that was freed
  state, fail_cnt, card_status, qstat, act, max_ctx,
  version,   \* "unset", "read", or "dead" (0xdead)
  \* collect_trans_data
  todo,      \* None outside of it, or the contexts still to read
  ctx, found, rc,
  thread,    \* "none", "running", "cancelled" (asked to stop), "gone"
  freed,     \* the card_data_s was given back
  \* history
  row,       \* failures to open since the last success, capped at 2
  opened,    \* the card was opened once
  lost,      \* a handle was lost in card_open
  \* the other threads
  main,      \* "create", "serve", "cancel", "join", "free", "ended"
  at,        \* the card main is at
  server,    \* "none", "start", "accept", "ended"
  signalled, \* history: a signal came
  client,    \* "none", "read", "send"
  reads      \* the card a client reads

cdVars == <<afu_h, state, fail_cnt, card_status, qstat, act, max_ctx, version, todo, ctx, found, rc>>
historyVars == <<row, opened, lost>>
mainVars == <<main, at, server, signalled, thread, freed>>
clientVars == <<client, reads>>
dvars == <<dev, held, cdVars, historyVars, mainVars, clientVars>>

DInit ==
  /\ dev \in {d \in [Cards -> Kinds] : \A c \in Cards : d[c] \in Devices[c]}
  /\ held = [c \in Cards |-> 0]
  /\ afu_h = [c \in Cards |-> "NULL"]
  /\ state = [c \in Cards |-> "DO_CARD_OPEN"]
  /\ fail_cnt \in [Cards -> HeapFailCnt]
  /\ card_status = [c \in Cards |-> "DO_CARD_OPEN"]
  /\ qstat = [c \in Cards |-> [x \in Ctxs |-> "N"]]
  /\ act = [c \in Cards |-> 0]
  /\ max_ctx \in [Cards -> HeapMaxCtx]
  /\ version = [c \in Cards |-> "unset"]
  /\ todo = [c \in Cards |-> None]
  /\ ctx = [c \in Cards |-> 0] /\ found = [c \in Cards |-> 0] /\ rc = [c \in Cards |-> 0]
  /\ thread = [c \in Cards |-> "none"] /\ freed = [c \in Cards |-> FALSE]
  /\ row = [c \in Cards |-> 0]
  /\ opened = [c \in Cards |-> FALSE] /\ lost = [c \in Cards |-> FALSE]
  /\ main = "create" /\ at = 0 /\ server = "none" /\ signalled = FALSE
  /\ client = [k \in Clients |-> "none"] /\ reads = [k \in Clients |-> 0]

Capped(n) == IF n > 2 THEN 2 ELSE n

-----------------------------------------------------------------------------
(* The card thread                                                         *)

\* What reading a register of the card gives; one that fails gives all ones.
Readable(c) == dev[c] = "good"

\* A turn of the loop starts.  Between two turns pthread_cancel takes effect (usleep).
Turn(c, s) == thread[c] = "running" /\ state[c] = s /\ todo[c] = None

\* The end of a turn.  The clients see the new state.
GoesTo(c, s) ==
  /\ state' = [state EXCEPT ![c] = s]
  /\ card_status' = [card_status EXCEPT ![c] = s]

\* Mutated form: counting goes on where it was.
NotCleared(c) == fail_cnt
\* cd->fail_cnt = 0
Cleared(c) == [fail_cnt EXCEPT ![c] = 0]

\* cd->fail_cnt++, where 3 is every number that does not become 2 any more.
OneMore(c) == IF fail_cnt[c] < 3 THEN fail_cnt[c] + 1 ELSE 3

\* "2 == cd->fail_cnt"
FailsFor(c, s) == IF OneMore(c) = 2 THEN "CARD_FAIL" ELSE s

\* Mutated form: nothing is freed on the way out.
FreesNone(kind) == FALSE
\* The errors after which card_open frees the handle before it forgets it; up to the
\* attach it does not.
Frees(kind) == kind \in {"old", "dead"}

\* card_open
OpenFails(c) ==
  LET keeps == dev[c] # "missing" /\ ~Frees(dev[c]) IN
  /\ dev[c] # "good"
  /\ afu_h' = [afu_h EXCEPT ![c] = "NULL"]
  /\ held' = [held EXCEPT ![c] = IF keeps THEN Capped(@ + 1) ELSE @]
  /\ lost' = [lost EXCEPT ![c] = @ \/ dev[c] = "foreign"]
  /\ fail_cnt' = [fail_cnt EXCEPT ![c] = OneMore(c)]
  /\ row' = [row EXCEPT ![c] = Capped(@ + 1)]
  /\ GoesTo(c, FailsFor(c, "DO_CARD_OPEN"))
  /\ UNCHANGED opened

OpenSucceeds(c) ==
  /\ dev[c] = "good"
  /\ afu_h' = [afu_h EXCEPT ![c] = "open"]
  /\ held' = [held EXCEPT ![c] = Capped(@ + 1)]
  /\ fail_cnt' = Cleared(c)
  /\ row' = [row EXCEPT ![c] = 0] /\ opened' = [opened EXCEPT ![c] = TRUE]
  /\ GoesTo(c, "COLLECT_STATIC_DATA")
  /\ UNCHANGED lost

DoOpen(c) ==
  /\ Turn(c, "DO_CARD_OPEN")
  /\ OpenFails(c) \/ OpenSucceeds(c)
  /\ UNCHANGED <<dev, qstat, act, max_ctx, version, todo, ctx, found, rc, mainVars, clientVars>>

\* collect_static_data
CollectStatic(c) ==
  /\ Turn(c, "COLLECT_STATIC_DATA")
  /\ version' = [version EXCEPT ![c] = IF Readable(c) THEN "read" ELSE "dead"]
  /\ GoesTo(c, IF Readable(c) THEN "COLLECT_TRANS_DATA" ELSE "DO_CARD_CLOSE")
  /\ UNCHANGED <<dev, held, afu_h, fail_cnt, qstat, act, max_ctx, todo, ctx, found, rc,
                 historyVars, mainVars, clientVars>>

\* collect_trans_data: all contexts are set to 'N' and the register with the active ones is
\* read ...
CollectBegin(c) ==
  /\ Turn(c, "COLLECT_TRANS_DATA")
  /\ qstat' = [qstat EXCEPT ![c] = [x \in Ctxs |-> "N"]]
  /\ \E active \in IF Readable(c) THEN SUBSET Ctxs ELSE {Ctxs} :
       todo' = [todo EXCEPT ![c] = active]
  /\ UNCHANGED <<dev, held, afu_h, state, fail_cnt, card_status, act, max_ctx, version, ctx, found, rc,
                 historyVars, mainVars, clientVars>>

\* Mutated form: the result of the read is not kept.
ReadNotKept(c) == 0
\* rc of the status register of one context
ReadRc(c) == IF Readable(c) THEN 0 ELSE -1

\* Mutated form: a master is not counted.
CountsNoMaster(c, flag) == IF flag = "M" THEN found[c] ELSE found[c] + 1
\* act++
Counts(c, flag) == found[c] + 1

\* ... then the status of each of these, in turn; all ones look like an error ...
CollectCtx(c) == \E flag \in IF Readable(c) THEN Shows ELSE {"E"} :
  /\ todo[c] # None /\ todo[c] # {}
  /\ ctx' = [ctx EXCEPT ![c] = Min(todo[c])]
  /\ todo' = [todo EXCEPT ![c] = @ \ {Min(@)}]
  /\ qstat' = [qstat EXCEPT ![c][Min(todo[c])] = flag]
  /\ found' = [found EXCEPT ![c] = Counts(c, flag)]
  /\ rc' = [rc EXCEPT ![c] = ReadRc(c)]
  /\ UNCHANGED <<dev, held, afu_h, state, fail_cnt, card_status, act, max_ctx, version,
                 historyVars, mainVars, clientVars>>

\* Mutated form: one too many.
PastLast(c) == ctx[c] + 2
\* "Save Latest context i found"
LatestCtx(c) == ctx[c] + 1

\* ... and the summary is written.  The rc of the last context decides.
CollectEnd(c) ==
  /\ todo[c] = {}
  /\ todo' = [todo EXCEPT ![c] = None]
  /\ max_ctx' = [max_ctx EXCEPT ![c] = LatestCtx(c)]
  /\ act' = [act EXCEPT ![c] = found[c]]
  /\ GoesTo(c, IF rc[c] = 0 THEN "COLLECT_TRANS_DATA" ELSE "DO_CARD_CLOSE")
  /\ ctx' = [ctx EXCEPT ![c] = 0] /\ found' = [found EXCEPT ![c] = 0] /\ rc' = [rc EXCEPT ![c] = 0]
  /\ UNCHANGED <<dev, held, afu_h, fail_cnt, qstat, version,
                 historyVars, mainVars, clientVars>>

\* Mutated form: the registers are read again without opening the card.
ReadsAgain == "COLLECT_STATIC_DATA"
\* Mutated form: the state is not left.
StaysClosed == "CARD_CLOSED"
\* Where CARD_CLOSED leads to.
AfterClosed == "DO_CARD_OPEN"

\* card_close, which leaves the pointer as it is.
DoClose(c) ==
  /\ Turn(c, "DO_CARD_CLOSE")
  /\ IF afu_h[c] = "NULL"
     THEN /\ fail_cnt' = [fail_cnt EXCEPT ![c] = OneMore(c)]
          /\ GoesTo(c, FailsFor(c, "DO_CARD_CLOSE"))
          /\ UNCHANGED <<afu_h, held>>
     ELSE /\ afu_h' = [afu_h EXCEPT ![c] = "freed"]
          /\ held' = [held EXCEPT ![c] = @ - 1]
          /\ fail_cnt' = Cleared(c)
          /\ GoesTo(c, "CARD_CLOSED")
  /\ UNCHANGED <<dev, qstat, act, max_ctx, version, todo, ctx, found, rc,
                 historyVars, mainVars, clientVars>>

Closed(c) ==
  /\ Turn(c, "CARD_CLOSED")
  /\ GoesTo(c, AfterClosed)
  /\ UNCHANGED <<dev, held, afu_h, fail_cnt, qstat, act, max_ctx, version, todo, ctx, found, rc,
                 historyVars, mainVars, clientVars>>

\* The thread shows the error and ends for good.
Fail(c) ==
  /\ Turn(c, "CARD_FAIL")
  /\ qstat' = [qstat EXCEPT ![c] = [x \in Ctxs |-> "E"]]
  /\ GoesTo(c, "CARD_FAIL")
  /\ thread' = [thread EXCEPT ![c] = "gone"]
  /\ UNCHANGED <<dev, held, afu_h, fail_cnt, act, max_ctx, version, todo, ctx, found, rc,
                 historyVars, main, at, server, signalled, freed, clientVars>>

\* pthread_cancel takes effect.
Cancelled(c) ==
  /\ thread[c] = "cancelled" /\ todo[c] = None
  /\ thread' = [thread EXCEPT ![c] = "gone"]
  /\ UNCHANGED <<dev, held, cdVars, historyVars, main, at, server, signalled, freed,
                 clientVars>>

CardThread(c) ==
  \/ DoOpen(c) \/ CollectStatic(c) \/ CollectBegin(c) \/ CollectCtx(c) \/ CollectEnd(c)
  \/ DoClose(c) \/ Closed(c) \/ Fail(c)

\* The card is pulled, replaced, reset or fails.
DeviceChanges(c) ==
  /\ \E d \in Devices[c] \ {dev[c]} : dev' = [dev EXCEPT ![c] = d]
  /\ UNCHANGED <<held, cdVars, historyVars, mainVars, clientVars>>

-----------------------------------------------------------------------------
(* main and the server                                                     *)

\* create_card_thread for each card, then the server is started.
Create ==
  /\ main = "create"
  /\ thread' = [thread EXCEPT ![at] = "running"]
  /\ IF at = Last THEN main' = "serve" /\ server' = "start" /\ at' = 0
     ELSE at' = at + 1 /\ UNCHANGED <<main, server>>
  /\ UNCHANGED <<dev, held, cdVars, historyVars, signalled, freed, clientVars>>

\* SockServ: socket, bind and listen, of which each may fail ...
Listen ==
  /\ server = "start" /\ main # "ended"
  /\ server' \in {"accept", "ended"}
  /\ UNCHANGED <<dev, held, cdVars, historyVars, main, at, signalled, thread, freed, clientVars>>

\* ... then a thread for each client.  If it cannot be created, the server ends.
Accept(k) ==
  /\ server = "accept" /\ main # "ended" /\ client[k] = "none"
  /\ \/ client' = [client EXCEPT ![k] = "read"] /\ UNCHANGED server
     \/ server' = "ended" /\ UNCHANGED client
  /\ UNCHANGED <<dev, held, cdVars, historyVars, main, at, signalled, thread, freed,
                 reads>>

\* main waits for the server thread, and for signals, which the kernel gives to it.
StopServing ==
  /\ main = "serve"
  /\ \/ server = "ended" /\ UNCHANGED signalled
     \/ signalled' = TRUE
  /\ main' = "cancel" /\ at' = 0
  /\ UNCHANGED <<dev, held, cdVars, historyVars, server, thread, freed, clientVars>>

\* Mutated form: the thread is not told to stop.
NotAsked(t) == t
\* pthread_cancel
Asked(t) == IF t = "running" THEN "cancelled" ELSE t

\* do_exit: each card thread is cancelled ...
Cancel ==
  /\ main = "cancel"
  /\ thread' = [thread EXCEPT ![at] = Asked(@)]
  /\ main' = "join"
  /\ UNCHANGED <<dev, held, cdVars, historyVars, at, server, signalled, freed, clientVars>>

\* Mutated form: nobody waits for the thread.
NotAwaited == TRUE
Joined == thread[at] = "gone"
\* ... and joined ...
Join ==
  /\ main = "join" /\ Joined
  /\ IF at = Last THEN main' = "free" /\ at' = 0 ELSE main' = "cancel" /\ at' = at + 1
  /\ UNCHANGED <<dev, held, cdVars, historyVars, server, signalled, thread, freed, clientVars>>

\* ... before the data of all cards is freed and the process exits.
Free ==
  /\ main = "free"
  /\ freed' = [freed EXCEPT ![at] = TRUE]
  /\ IF at = Last THEN main' = "ended" /\ UNCHANGED at ELSE at' = at + 1 /\ UNCHANGED main
  /\ UNCHANGED <<dev, held, cdVars, historyVars, server, signalled, thread, clientVars>>

-----------------------------------------------------------------------------
(* A client thread                                                         *)

\* json_object_add_card of one card, wherever its thread is.
ReadCard(k) ==
  /\ client[k] = "read" /\ main # "ended" /\ ~freed[reads[k]]
  /\ client' = [client EXCEPT ![k] = IF reads[k] = Last THEN "send" ELSE "read"]
  /\ reads' = [reads EXCEPT ![k] = IF @ = Last THEN @ ELSE @ + 1]
  /\ UNCHANGED <<dev, held, cdVars, historyVars, mainVars>>

\* Mutated form: the signal of a closed connection is delivered and ends the process.
PipeKills(closed) == IF closed THEN "ended" ELSE main
\* SIGPIPE is blocked in this thread, and the result of send is not looked at.
AfterSend(closed) == main

\* ServNewSock: never ends, whether the peer is still there or not.
Send(k) == \E closed \in BOOLEAN :
  /\ client[k] = "send" /\ main # "ended"
  /\ client' = [client EXCEPT ![k] = "read"] /\ reads' = [reads EXCEPT ![k] = 0]
  /\ main' = AfterSend(closed)
  /\ UNCHANGED <<dev, held, cdVars, historyVars, at, server, signalled, thread, freed>>

-----------------------------------------------------------------------------

CardSteps(c) == CardThread(c) \/ Cancelled(c)
Exits == Cancel \/ Join \/ Free

DNext ==
  \/ \E c \in Cards : CardSteps(c) \/ DeviceChanges(c)
  \/ Create \/ Listen \/ StopServing \/ Exits
  \/ \E k \in Clients : Accept(k) \/ ReadCard(k) \/ Send(k)

\* Threads run.  Nothing is assumed of the cards, the clients and the signals.
DSpec == /\ DInit /\ [][DNext]_dvars
        /\ \A c \in Cards : WF_dvars(CardSteps(c))
        /\ WF_dvars(Create) /\ WF_dvars(Exits)

-----------------------------------------------------------------------------
(* Properties                                                              *)

\* Every variable has its type.
DTypeOK ==
  /\ dev \in [Cards -> Kinds] /\ held \in [Cards -> 0..2]
  /\ afu_h \in [Cards -> {"NULL", "open", "freed"}]
  /\ state \in [Cards -> States] /\ card_status \in [Cards -> States]
  /\ fail_cnt \in [Cards -> 0..3] /\ row \in [Cards -> 0..2]
  /\ qstat \in [Cards -> [Ctxs -> Flags]]
  /\ act \in [Cards -> 0..Cardinality(Ctxs)]
  /\ max_ctx \in [Cards -> (0..Cardinality(Ctxs)) \cup HeapMaxCtx]
  /\ version \in [Cards -> {"unset", "read", "dead"}]
  /\ todo \in [Cards -> (SUBSET Ctxs) \cup {None}]
  /\ ctx \in [Cards -> Ctxs] /\ found \in [Cards -> 0..Cardinality(Ctxs)]
  /\ rc \in [Cards -> {0, -1}]
  /\ thread \in [Cards -> {"none", "running", "cancelled", "gone"}]
  /\ freed \in [Cards -> BOOLEAN] /\ opened \in [Cards -> BOOLEAN] /\ lost \in [Cards -> BOOLEAN]
  /\ main \in {"create", "serve", "cancel", "join", "free", "ended"} /\ at \in Cards
  /\ server \in {"none", "start", "accept", "ended"} /\ signalled \in BOOLEAN
  /\ client \in [Clients -> {"none", "read", "send"}]
  /\ reads \in [Clients -> Cards]

\* Registers are read, and handles closed, only while the handle is open: not before the
\* card is opened, and not with the pointer that card_close leaves behind.
AfuOpen == \A c \in Cards :
  state[c] \in {"COLLECT_STATIC_DATA", "COLLECT_TRANS_DATA", "DO_CARD_CLOSE"} => afu_h[c] = "open"

\* The process has one handle of a card that is open and none of one that is not, however
\* often the card failed.  (The errors up to the attach lose one.)
HandlesAccounted == \A c \in Cards :
  ~lost[c] => held[c] = IF afu_h[c] = "open" THEN 1 ELSE 0

\* A card that was opened once is given up only after two failures in a row.
GivesUpAfterTwo == \A c \in Cards : state[c] = "CARD_FAIL" /\ opened[c] => row[c] = 2

\* "Number of how many context id are in ctx list": between two collections "attached" and
\* the list agree, and max_ctx cuts nothing off.
SummaryAgrees == \A c \in Cards :
  todo[c] = None /\ state[c] # "CARD_FAIL" =>
    act[c] = Cardinality({x \in Ctxs : x < max_ctx[c] /\ qstat[c][x] # "N"})

\* The data of a card is freed only after its thread ended.
FreedAfterThread == \A c \in Cards : freed[c] => thread[c] = "gone"

\* The process ends because of a signal, or because the server could not be started or a
\* client thread not be created; a client that goes away does not end it.
EndsForAReason ==
  main \in {"cancel", "join", "free", "ended"} => signalled \/ server = "ended"

Serving == main = "serve"

\* A card that dies is not reported as normal for ever: it is closed, to be opened again.
DeadIsClosed == \A c \in Cards :
  <>[](dev[c] = "dead" /\ Serving) => []<>(afu_h[c] # "open")

\* A card that works, or works again, is monitored, unless its thread has given up.
GoodIsMonitored == \A c \in Cards :
  <>[](dev[c] = "good" /\ Serving) =>
    <>[](state[c] = "COLLECT_TRANS_DATA" \/ thread[c] = "gone")

\* After a signal, or the end of the server, the process ends.
ExitEnds == main = "cancel" ~> main = "ended"

\* Handles and data of a card are there as long as they are used, and given back once.
ResourcesSafe == DTypeOK /\ AfuOpen /\ HandlesAccounted /\ FreedAfterThread

\* What clients are told of a card, that it failed or how many contexts it has, is so; and
\* they do not end the daemon.
ReportsTrue == GivesUpAfterTwo /\ SummaryAgrees /\ EndsForAReason

\* The daemon follows what its cards do, and ends when it is told to.
FollowsCards == DeadIsClosed /\ GoodIsMonitored /\ ExitEnds
=============================================================================
