----------------------------- MODULE CardClients -----------------------------
(***************************************************************************)
(* Who has which CAPI card open, lib/ddcb_capi.c: card_open, card_close,   *)
(* __client_inc, __client_dec, card_dev_open, the part of the done thread  *)
(* that opens the AFU, and the choice of the card in ddcb_execute.         *)
(*                                                                         *)
(* A handle (struct ttxs) is used by one thread.  A card context is shared *)
(* by all handles and has a lock, a client counter, the mode of its first  *)
(* client and one done thread, which is never stopped before the process   *)
(* ends.  How a queued command gets its answer is the subject of           *)
(* DdcbQueue; here it is one step of the done thread.  The library's       *)
(* destructor closes what is still open when the process exits.            *)
(***************************************************************************)
EXTENDS Integers, FiniteSets

CONSTANTS
  Handles,    \* the handles applications open and close
  None,       \* no handle, no card (NULL)
  NumCards,   \* NUM_CARDS
  Sites       \* machines with their applications: records of
              \*   gzip     cards whose AFU can be opened
              \*   foreign  CAPI cards that are no GZIP card: the device opens, the
              \*            AFU does not
              \*   kind     how applications open: "single" or "redundant"
              \*   modes    the modes they ask for: "IRQ", "POLLING", "MASTER"

Cards == 0 .. NumCards-1

ASSUME CardsAssumption == NumCards \in Nat \ {0}
ASSUME HandlesAssumption == IsFiniteSet(Handles) /\ None \notin Handles \cup (0..NumCards)
ASSUME SitesAssumption == \A s \in Sites :
  /\ s.gzip \subseteq Cards /\ s.foreign \subseteq Cards \ s.gzip
  /\ s.kind \in {"single", "redundant"}
  /\ s.modes \subseteq {"IRQ", "POLLING", "MASTER"}

VARIABLES
  site,       \* the machine this is
  exit,       \* None, or how many cards the destructor has closed
  \* struct dev_ctx
  clients, mode, lock,
  afu,        \* afu_h # NULL
  loop,       \* what the done thread runs: "none" (no thread), or as its mode was
  \* struct ttxs
  pc, kind, want, ctx, card_next,
  left,       \* iterations left in the loop over the cards
  holds       \* history: cards on which __client_inc was good and is not undone

ctxVars == <<clients, mode, lock, afu, loop>>
vars == <<site, exit, ctxVars, pc, kind, want, ctx, card_next, left, holds>>

\* Mutated form: the index runs off the end.
NextCardUnwrapped(c) == c + 1
NextCard(c) == (c + 1) % NumCards

Init ==
  /\ site \in Sites /\ exit = None
  /\ clients = [c \in Cards |-> 0]
  /\ mode = [c \in Cards |-> "IRQ"]
  /\ lock = [c \in Cards |-> None]
  /\ afu = [c \in Cards |-> FALSE]
  /\ loop = [c \in Cards |-> "none"]
  /\ pc = [h \in Handles |-> "closed"]
  /\ kind = [h \in Handles |-> "single"]
  /\ want = [h \in Handles |-> "IRQ"]
  /\ ctx = [h \in Handles |-> None]
  /\ card_next = [h \in Handles |-> 0]
  /\ left = [h \in Handles |-> 0]
  /\ holds = [h \in Handles |-> {}]

-----------------------------------------------------------------------------
(* card_open                                                               *)

\* card_open(c, m), or card_open(ACCEL_REDUNDANT, m) with the random first card c.
Open(h, c, m) ==
  LET k == site.kind IN
  /\ pc[h] = "closed"
  /\ pc' = [pc EXCEPT ![h] = "inc"]
  /\ kind' = [kind EXCEPT ![h] = k]
  /\ want' = [want EXCEPT ![h] = m]
  /\ ctx' = [ctx EXCEPT ![h] = IF k = "single" THEN c ELSE None]
  /\ card_next' = [card_next EXCEPT ![h] = c]
  /\ left' = [left EXCEPT ![h] = IF k = "single" THEN 1 ELSE NumCards]
  /\ UNCHANGED <<ctxVars, holds>>

\* Mutated form: the handle is returned whatever happened.
ReturnsAlways(h, good) == "open"
\* A single card that cannot be opened gives NULL; a redundant handle is returned in
\* any case.
Returns(h, good) == IF kind[h] = "single" /\ ~good THEN "closed" ELSE "open"

\* What card_open does with the result of __client_inc on card c.
AfterInc(h, c, good) ==
  /\ holds' = [holds EXCEPT ![h] = IF good THEN @ \cup {c} ELSE @]
  /\ ctx' = [ctx EXCEPT ![h] = IF good THEN c ELSE IF kind[h] = "single" THEN None ELSE @]
  /\ card_next' = [card_next EXCEPT ![h] = IF kind[h] = "single" THEN @ ELSE NextCard(c)]
  /\ left' = [left EXCEPT ![h] = @ - 1]
  /\ pc' = [pc EXCEPT ![h] = IF left[h] > 1 THEN "inc"
                             ELSE Returns(h, good)]
  /\ UNCHANGED <<kind, want>>

\* Mutated form: the mode of the new client is not compared.
JoinsAnyMode(h, c) == clients[c] # 0
\* __client_inc on a card that has clients: the modes must agree.
Joins(h, c) == clients[c] # 0 /\ want[h] = mode[c]

\* Mutated form: the done thread is taken to be there.
NeverNeedsOpen(c) == FALSE
\* card_dev_open has something to do: ddcb_done_tid is not set.
NeedsOpen(c) == loop[c] = "none"

\* Mutated form: the mutex is not given back.
StaysLocked(c) == lock
\* pthread_mutex_unlock(&ctx->lock) of a card that was locked over several steps
Unlocked(c) == [lock EXCEPT ![c] = None]

\* Mutated form: the counter goes up even if the open fails.
CountedAlways(c, good) == [clients EXCEPT ![c] = @ + 1]
\* "increment clients only if good"
Counted(c, good) == IF good THEN [clients EXCEPT ![c] = @ + 1] ELSE clients

IncOther(h) ==
  LET c == card_next[h] IN
  /\ pc[h] = "inc" /\ lock[c] = None
  /\ clients[c] # 0
  /\ clients' = Counted(c, Joins(h, c))
  /\ AfterInc(h, c, Joins(h, c))
  /\ UNCHANGED <<mode, lock, afu, loop>>

\* ... on a card without clients.  card_dev_open has nothing to do when the done
\* thread of an earlier client is still there.
IncReopen(h) ==
  LET c == card_next[h] IN
  /\ pc[h] = "inc" /\ lock[c] = None
  /\ clients[c] = 0 /\ ~NeedsOpen(c)
  /\ mode' = [mode EXCEPT ![c] = want[h]]
  /\ clients' = Counted(c, TRUE)
  /\ AfterInc(h, c, TRUE)
  /\ UNCHANGED <<lock, afu, loop>>

\* Otherwise the new done thread opens the device while the caller has the lock and
\* waits for open_done_sem.  There is no such device ...
IncFails(h) ==
  LET c == card_next[h] IN
  /\ pc[h] = "inc" /\ lock[c] = None
  /\ clients[c] = 0 /\ NeedsOpen(c)
  /\ c \notin site.gzip \cup site.foreign
  /\ mode' = [mode EXCEPT ![c] = want[h]]
  /\ clients' = Counted(c, FALSE)
  /\ AfterInc(h, c, FALSE)
  /\ UNCHANGED <<lock, afu, loop>>

\* ... or cxl_afu_open_dev sets afu_h, which everybody can see ...
IncOpenDev(h) ==
  LET c == card_next[h] IN
  /\ pc[h] = "inc" /\ lock[c] = None
  /\ clients[c] = 0 /\ NeedsOpen(c)
  /\ c \in site.gzip \cup site.foreign
  /\ mode' = [mode EXCEPT ![c] = want[h]]
  /\ lock' = [lock EXCEPT ![c] = h]
  /\ afu' = [afu EXCEPT ![c] = TRUE]
  /\ pc' = [pc EXCEPT ![h] = "afu_open"]
  /\ UNCHANGED <<clients, loop, kind, want, ctx, card_next, left, holds>>

\* ... and the rest of __afu_open succeeds or takes it back.
IncFinish(h) ==
  LET c == card_next[h]
      good == c \in site.gzip
  IN
  /\ pc[h] = "afu_open"
  /\ afu' = [afu EXCEPT ![c] = good]
  /\ loop' = [loop EXCEPT ![c] = IF good THEN mode[c] ELSE "none"]
  /\ lock' = Unlocked(c)
  /\ clients' = Counted(c, good)
  /\ AfterInc(h, c, good)
  /\ UNCHANGED mode

-----------------------------------------------------------------------------
(* card_close                                                              *)

Close(h) ==
  /\ pc[h] = "open"
  /\ pc' = [pc EXCEPT ![h] = "dec"]
  /\ left' = [left EXCEPT ![h] = IF kind[h] = "single" THEN 1 ELSE NumCards]
  /\ UNCHANGED <<ctxVars, kind, want, ctx, card_next, holds>>

\* clients--, whatever it was.
DecCount(c) == [clients EXCEPT ![c] = @ - 1]

\* __client_dec: of the card, or of all the cards from 0 on.
Dec(h) ==
  LET c == IF kind[h] = "single" THEN ctx[h] ELSE NumCards - left[h] IN
  /\ pc[h] = "dec" /\ lock[c] = None
  /\ clients' = DecCount(c)
  /\ holds' = [holds EXCEPT ![h] = @ \ {c}]
  /\ left' = [left EXCEPT ![h] = @ - 1]
  /\ pc' = [pc EXCEPT ![h] = IF left[h] > 1 THEN "dec" ELSE "closed"]
  /\ ctx' = [ctx EXCEPT ![h] = IF left[h] > 1 THEN @ ELSE None]
  /\ UNCHANGED <<mode, lock, afu, loop, kind, want, card_next>>

-----------------------------------------------------------------------------
(* ddcb_execute                                                            *)

\* Mutated form: afu_h is not looked at.
AnyUsable(c) == TRUE
\* my_ctx[c].afu_h != NULL, read without the lock.
Usable(c) == afu[c]

\* The card a redundant handle stops at: the next one with afu_h # NULL, and after
\* a whole turn the one it started from.
Select(h) ==
  LET after(k) == (card_next[h] + k) % NumCards
      hits == {k \in 1..NumCards : Usable(after(k))}
  IN  IF hits = {} THEN card_next[h]
      ELSE after(CHOOSE k \in hits : \A j \in hits : k <= j)

\* Choosing the card, without its lock.
Execute(h) ==
  /\ pc[h] = "open"
  /\ IF kind[h] = "single" THEN UNCHANGED <<ctx, card_next>>
     ELSE /\ card_next' = [card_next EXCEPT ![h] = Select(h)]
          /\ ctx' = [ctx EXCEPT ![h] = IF Usable(Select(h)) THEN Select(h) ELSE @]
  /\ ctx'[h] # None
  /\ pc' = [pc EXCEPT ![h] = "submit"]
  /\ UNCHANGED <<ctxVars, kind, want, left, holds>>

\* __ddcb_execute_multi: "no DMA in Master Mode"
Refuse(h) ==
  /\ pc[h] = "submit" /\ mode[ctx[h]] = "MASTER"
  /\ pc' = [pc EXCEPT ![h] = "open"]
  /\ UNCHANGED <<ctxVars, kind, want, ctx, card_next, left, holds>>

\* The command is put into the queue, under the lock, and the caller waits.
Submit(h) ==
  /\ pc[h] = "submit" /\ mode[ctx[h]] # "MASTER"
  /\ lock[ctx[h]] = None
  /\ pc' = [pc EXCEPT ![h] = "queued"]
  /\ UNCHANGED <<ctxVars, kind, want, ctx, card_next, left, holds>>

\* The done thread of the card completes it; the one of a master only sleeps.
Serve(h) ==
  /\ pc[h] = "queued"
  /\ loop[ctx[h]] \in {"IRQ", "POLLING"}
  /\ pc' = [pc EXCEPT ![h] = "open"]
  /\ UNCHANGED <<ctxVars, kind, want, ctx, card_next, left, holds>>

-----------------------------------------------------------------------------
(* The end of the process                                                  *)

\* exit() while no call is under way; "We have a testcase which does not close the
\* afu handles properly, but just does exit()."
Exit ==
  /\ exit = None
  /\ \A h \in Handles : pc[h] \in {"open", "closed"}
  /\ exit' = 0
  /\ UNCHANGED <<ctxVars, pc, kind, want, ctx, card_next, left, holds>>

\* Mutated form: the cleanup handler does not insist.
ClosesIdleAfu(c) == clients[c] = 0
\* __afu_close in the cleanup handler of the done thread: force, whatever clients is.
ClosesAfu(c) == TRUE

\* card_dev_close of the next card: a done thread is cancelled and joined, and its
\* cleanup handler closes the AFU.
CardDevClose ==
  /\ exit # None /\ exit < NumCards
  /\ exit' = exit + 1
  /\ loop' = [loop EXCEPT ![exit] = "none"]
  /\ afu' = IF loop[exit] # "none" /\ ClosesAfu(exit) THEN [afu EXCEPT ![exit] = FALSE]
            ELSE afu
  /\ UNCHANGED <<clients, mode, lock, pc, kind, want, ctx, card_next, left, holds>>

-----------------------------------------------------------------------------

Inc(h) ==
  /\ IncOther(h) \/ IncReopen(h) \/ IncFails(h) \/ IncOpenDev(h) \/ IncFinish(h)
  /\ UNCHANGED <<site, exit>>

Call(h) == exit = None /\ UNCHANGED <<site, exit>> /\
  (\/ \E c \in Cards, m \in site.modes : Open(h, c, m)
   \/ Close(h) \/ Dec(h)
   \/ Execute(h) \/ Refuse(h) \/ Submit(h) \/ Serve(h))

Next ==
  \/ \E h \in Handles : Inc(h) \/ Call(h)
  \/ (Exit \/ CardDevClose) /\ UNCHANGED site

Spec == Init /\ [][Next]_vars

\* A call that was entered goes on, and so does the destructor.  Mutexes are not
\* handed over in turn (SF).
FairSpec ==
  /\ Spec
  /\ \A h \in Handles :
       /\ SF_vars(Inc(h)) /\ SF_vars(Call(h) /\ Dec(h)) /\ SF_vars(Call(h) /\ Submit(h))
       /\ WF_vars(Call(h) /\ Refuse(h)) /\ WF_vars(Call(h) /\ Serve(h))
  /\ WF_vars(CardDevClose /\ UNCHANGED site)

-----------------------------------------------------------------------------
(* Properties                                                              *)

\* Every variable has its type.
TypeOK ==
  /\ site \in Sites /\ exit \in 0..NumCards \cup {None}
  /\ clients \in [Cards -> Int]
  /\ mode \in [Cards -> {"IRQ", "POLLING", "MASTER"}]
  /\ lock \in [Cards -> Handles \cup {None}]
  /\ afu \in [Cards -> BOOLEAN]
  /\ loop \in [Cards -> {"none", "IRQ", "POLLING", "MASTER"}]
  /\ pc \in [Handles -> {"closed", "inc", "afu_open", "open", "dec", "submit", "queued"}]
  /\ kind \in [Handles -> {"single", "redundant"}]
  /\ want \in [Handles -> {"IRQ", "POLLING", "MASTER"}]
  /\ ctx \in [Handles -> Cards \cup {None}]
  /\ card_next \in [Handles -> Cards]
  /\ left \in [Handles -> 0..NumCards]
  /\ holds \in [Handles -> SUBSET Cards]

\* All handles ask for one mode.
Uniform == \A m, n \in site.modes : m = n

\* The cards whose clients the code counts right.  card_close of a redundant handle
\* counts down on every card, also where card_open did not count up: because the card
\* cannot be opened, or is open in another mode.
Countable(c) == site.kind = "single" \/ (c \in site.gzip /\ Uniform)

Holders(c) == {h \in Handles : c \in holds[h]}

\* "Thread open counter": clients is the number of handles that have the card open.
ClientsCounted ==
  \A c \in Cards : Countable(c) => clients[c] = Cardinality(Holders(c))

\* The mode of a card does not change under a handle that has it open.
ModeShared ==
  \A h \in Handles : \A c \in holds[h] : Countable(c) => mode[c] = want[h]

\* A card that counts clients has its device open and a thread that serves it.
ClientsHaveDevice ==
  exit = None => \A h \in Handles : \A c \in holds[h] :
    Countable(c) => afu[c] /\ loop[c] # "none"

\* An open handle refers to a card.  (libddcb.h, accel_open: "handle on success or
\* NULL".)  A redundant handle gets one if any card can be opened.
OpenHasCard ==
  site.kind = "single" \/ (site.gzip # {} /\ Uniform) =>
    \A h \in Handles : pc[h] = "open" => ctx[h] # None

\* The machines on which every command is served.  With redundant handles ddcb_execute can
\* pick a foreign card, whose afu_h is set and taken back, and one it has miscounted; and
\* the done thread of a master stays, and does not serve those who come later.
Orderly == site.kind = "single" \/ (site.gzip # {} /\ site.foreign = {} /\ Uniform)
MastersApart == "MASTER" \in site.modes => Uniform

\* "afu_h != NULL device is open": the card a redundant handle picks by its afu_h is
\* one that was opened.
PicksOpenCard ==
  Orderly => \A h \in Handles :
    pc[h] = "submit" /\ kind[h] = "redundant" => loop[ctx[h]] # "none"

\* libddcb.h, accel_ddcb_execute: it blocks "until finished or a timeout occurs".
\* So a command is only put into a queue that a done thread works on.
QueuedIsServed ==
  Orderly /\ MastersApart => \A h \in Handles :
    pc[h] = "queued" => loop[ctx[h]] \in {"IRQ", "POLLING"}

\* The destructor frees every AFU, also that of a card whose clients never closed it.
ExitFreesAfus == exit = NumCards => \A c \in Cards : ~afu[c] /\ loop[c] = "none"

\* Opening and executing come to an end, with handles competing for the cards.
CallsReturn ==
  \A h \in Handles : /\ pc[h] = "inc" ~> pc[h] \in {"open", "closed"}
                     /\ pc[h] = "submit" ~> pc[h] = "open"
                     /\ pc[h] = "dec" ~> pc[h] = "closed"
                     /\ pc[h] = "queued" ~> pc[h] = "open"

\* A card context says of all its clients what is so: how many there are, which mode they
\* asked for, and that its device is open.
ContextsShared == TypeOK /\ ClientsCounted /\ ModeShared /\ ClientsHaveDevice

\* The card a command goes to was opened, and a done thread works on its queue.
CommandsServed == OpenHasCard /\ PicksOpenCard /\ QueuedIsServed
=============================================================================
