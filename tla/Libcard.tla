------------------------------- MODULE Libcard -------------------------------
(***************************************************************************)
(* GenWQE cards, lib/libcard.c: single handles with a descriptor of their  *)
(* own, redundant handles that share the list __fd_m_list of descriptors   *)
(* of all cards, the inotify thread that sees cards come back, the health  *)
(* thread that closes what failed or was closed, and the retries of        *)
(* __genwqe_card_execute.                                                  *)
(*                                                                         *)
(* Everything under fds_mutex is one step.  An ioctl is a step of its own, *)
(* on a descriptor that was taken under the mutex and may have been closed *)
(* and opened again for another card since.  The health thread wakes up on *)
(* a semaphore and every 4 seconds, so it may run at any time.  Malloc     *)
(* does not fail, and the open mode is the same for all handles.           *)
(***************************************************************************)
EXTENDS Integers, FiniteSets, Sequences, Functions

CONSTANTS
  Cards,     \* the cards of the machine
  Handles,   \* struct card_dev_t, each used by one thread
  Fds,       \* descriptors the process may have
  Chain,     \* DDCBs of a request
  MaxFaults, \* bound on how often a card fails or goes away
  Callers,   \* handles that execute requests
  OpensAs,   \* what each handle is opened for: cards, "redundant"
  None       \* no card, no handle (NULL)

INVALID_FD == -1

ASSUME CardAssumption == None \notin Cards /\ IsFiniteSet(Cards) /\ IsFiniteSet(Handles)
ASSUME OpenAssumption == Callers \subseteq Handles /\ OpensAs \in [Handles -> SUBSET (Cards \cup {"redundant"})]
ASSUME FdAssumption == IsFiniteSet(Fds) /\ Fds \subseteq Nat
ASSUME ChainAssumption == Chain \in Nat \ {0} /\ MaxFaults \in Nat

VARIABLES
  \* the machine
  hw,            \* card is "used" (works), "bad" (still there) or "gone"
  file,          \* open files: which card, and whether it is still that card
  faults,        \* how many failed so far
  attrib,        \* cards of which an IN_ATTRIB event waits to be read
  \* struct lib_data_t and __fd_m_list
  fd_list,       \* the shared descriptors, struct fd_node
  genwqe_state,
  fd_m_count, fd_s_count,
  inotify_card,  \* inotify_card while inotify_event is INOTIFY_ATTRIB, else None
  \* struct card_dev_t
  dev_state,     \* "none" before the open, "freed" after the delete
  card_no,       \* a card or "redundant"
  fd_s,
  m_fd_ptr,      \* the node, by its descriptor
  \* a call of __genwqe_card_execute
  pc, fd, cmd,
  ran,           \* history: DDCBs the card has completed
  exiting        \* the destructor: "no", "marked", "done"

env == <<hw, faults, file, attrib>>
lib == <<fd_list, genwqe_state, fd_m_count, fd_s_count>>
dev == <<dev_state, card_no, fd_s, m_fd_ptr>>
call == <<pc, fd, cmd, ran>>
vars == <<env, lib, inotify_card, dev, call, exiting>>

NoFile == [card |-> None, live |-> FALSE]

Init ==
  /\ hw = [c \in Cards |-> "used"]
  /\ faults = 0
  /\ file = [f \in Fds |-> NoFile]
  /\ attrib = {}
  /\ fd_list = <<>>
  /\ genwqe_state = [c \in Cards |-> "CARD_CLOSED"]
  /\ fd_m_count = 0 /\ fd_s_count = 0
  /\ inotify_card = None
  /\ dev_state = [h \in Handles |-> "none"]
  /\ card_no = [h \in Handles |-> None]
  /\ fd_s = [h \in Handles |-> INVALID_FD]
  /\ m_fd_ptr = [h \in Handles |-> INVALID_FD]
  /\ pc = [h \in Handles |-> "idle"]
  /\ fd = [h \in Handles |-> INVALID_FD]
  /\ cmd = [h \in Handles |-> 1]
  /\ ran = [h \in Handles |-> <<>>]
  /\ exiting = "no"

-----------------------------------------------------------------------------
(* The machine                                                             *)

Fault == exiting = "no" /\ faults < MaxFaults /\ faults' = faults + 1

\* A card hits an error, or is taken away: its descriptors do not work any more.
CardFails(c) ==
  /\ Fault /\ hw[c] = "used" /\ hw' = [hw EXCEPT ![c] = "bad"]
  /\ UNCHANGED <<file, attrib, lib, inotify_card, dev, call, exiting>>
CardGoes(c) ==
  /\ Fault /\ hw[c] # "gone" /\ hw' = [hw EXCEPT ![c] = "gone"]
  /\ file' = [f \in Fds |-> IF file[f].card = c THEN [file[f] EXCEPT !.live = FALSE] ELSE file[f]]
  /\ UNCHANGED <<attrib, lib, inotify_card, dev, call, exiting>>
\* It comes back, and udev sets the attributes of its node in /dev.
CardReturns(c) ==
  /\ exiting = "no" /\ hw[c] = "gone" /\ hw' = [hw EXCEPT ![c] = "used"]
  /\ attrib' = attrib \cup {c}
  /\ UNCHANGED <<file, faults, lib, inotify_card, dev, call, exiting>>

Works(f) == f \in Fds /\ file[f].live /\ hw[file[f].card] = "used"

\* The k-th of a set of numbers, from the smallest on.
Nth(set, k) == CHOOSE n \in set : Cardinality({m \in set : m < n}) = k-1
\* What is left of a list when only the positions in keep stay.
Kept(list, keep) == [k \in 1..Cardinality(keep) |-> list[Nth(keep, k)]]

\* open(2) returns the lowest descriptors that are not in use.
FreeFds == {f \in Fds : file[f] = NoFile}
FreeFd(k) == Nth(FreeFds, k)
Opens(c) == hw[c] = "used"
CloseFiles(fs, files) == [f \in Fds |-> IF f \in fs THEN NoFile ELSE files[f]]

-----------------------------------------------------------------------------
(* The list of descriptors                                                 *)

Node(f, c) == [fd |-> f, card |-> c]
ListFds(list) == {list[i].fd : i \in DOMAIN list}
Head0(list) == IF list = <<>> THEN INVALID_FD ELSE list[1].fd

Redundant(h) == card_no[h] = "redundant"
Listed(h) == dev_state[h] \in {"have_fd", "req_close"}
MDevs == {h \in Handles : Listed(h) /\ Redundant(h)}
SDevs == {h \in Handles : Listed(h) /\ ~Redundant(h)}

\* __fd_m_head_all: the pointers of all redundant handles go to the head.
HeadAll(ptr, list) == [h \in Handles |-> IF h \in MDevs THEN Head0(list) ELSE ptr[h]]

\* __m_open_add of the cards cs, one after the other: those that can be opened get a
\* node at the end of the list, and the pointers go to the head if it was empty.
OpenAdd(cs) ==
  LET good == Kept(cs, {i \in DOMAIN cs : Opens(cs[i])})
      n == IF Len(good) <= Cardinality(FreeFds) THEN Len(good) ELSE Cardinality(FreeFds)
      nodes == [k \in 1..n |-> Node(FreeFd(k), good[k])]
      list == fd_list \o nodes
  IN  [list |-> list, opened |-> {good[k] : k \in 1..n},
       files |-> [f \in Fds |-> IF \E k \in 1..n : FreeFd(k) = f
                               THEN [card |-> good[CHOOSE k \in 1..n : FreeFd(k) = f], live |-> TRUE]
                               ELSE file[f]],
       ptr |-> IF fd_list = <<>> THEN HeadAll(m_fd_ptr, list) ELSE m_fd_ptr]

SetOpen(cs) == [c \in Cards |-> IF c \in cs THEN "CARD_OPEN" ELSE genwqe_state[c]]

\* Mutated form: the pointer stays where it is.
AfterSame(f) == f
\* __fd_m_get_and_inc: the node after the one of f, the head after the last.
After(f) ==
  LET i == CHOOSE j \in DOMAIN fd_list : fd_list[j].fd = f IN
  IF i = Len(fd_list) THEN Head0(fd_list) ELSE fd_list[i+1].fd

-----------------------------------------------------------------------------
(* genwqe_card_open, genwqe_card_close                                     *)

NewDev(h, c, s, f, ptr) ==
  /\ dev_state' = [dev_state EXCEPT ![h] = s]
  /\ card_no' = [card_no EXCEPT ![h] = c]
  /\ fd_s' = [fd_s EXCEPT ![h] = f]
  /\ m_fd_ptr' = ptr

\* A handle without descriptor, or for a card of another application, is left to
\* the health thread by genwqe_card_close.
Outcome(good) == IF good THEN "have_fd" ELSE "req_close"

\* __genwqe_open_one.  app: __card_check_app is content.
OpenSingle(h, c, app) ==
  /\ exiting = "no" /\ dev_state[h] = "none"
  /\ IF Opens(c) /\ FreeFds # {}
     THEN /\ file' = [file EXCEPT ![FreeFd(1)] = [card |-> c, live |-> TRUE]]
          /\ fd_s_count' = fd_s_count + 1
          /\ NewDev(h, c, Outcome(app), FreeFd(1), m_fd_ptr)
     ELSE /\ UNCHANGED <<file, fd_s_count>>
          /\ NewDev(h, c, Outcome(FALSE), INVALID_FD, m_fd_ptr)
  /\ UNCHANGED <<hw, faults, attrib, fd_list, genwqe_state, fd_m_count, inotify_card, call, exiting>>

\* __m_open_all: the cards of /dev that are not open yet.
ToOpen == {c \in Cards : hw[c] # "gone" /\ genwqe_state[c] = "CARD_CLOSED"}

\* __genwqe_open_all, in the order scandir gives.
OpenRedundant(h, app) ==
  /\ exiting = "no" /\ dev_state[h] = "none"
  /\ \E order \in {o \in [1..Cardinality(ToOpen) -> ToOpen] : IsInjective(o)} :
     \E m \in {OpenAdd(order)} :
       LET found == m.opened \cup {c \in Cards : hw[c] # "gone" /\ genwqe_state[c] = "CARD_OPEN"}
           f == IF found = {} THEN INVALID_FD ELSE Head0(m.list)
       IN  /\ fd_list' = m.list /\ file' = m.files
           /\ genwqe_state' = SetOpen(m.opened)
           /\ fd_m_count' = fd_m_count + Cardinality(m.opened)
           /\ NewDev(h, "redundant", Outcome(f # INVALID_FD /\ app), f, [m.ptr EXCEPT ![h] = f])
  /\ UNCHANGED <<hw, faults, attrib, fd_s_count, inotify_card, call, exiting>>

\* genwqe_card_close, without the mutex.
Close(h) ==
  /\ exiting = "no" /\ dev_state[h] = "have_fd" /\ pc[h] = "idle"
  /\ dev_state' = [dev_state EXCEPT ![h] = "req_close"]
  /\ UNCHANGED <<env, lib, inotify_card, card_no, fd_s, m_fd_ptr, call, exiting>>

\* The calls of hs end, or cannot go on as their handle is gone.
Returned(hs) ==
  /\ pc' = [h \in Handles |-> IF h \in hs THEN "idle" ELSE pc[h]]
  /\ fd' = [h \in Handles |-> IF h \in hs THEN INVALID_FD ELSE fd[h]]
  /\ cmd' = [h \in Handles |-> IF h \in hs THEN 1 ELSE cmd[h]]
  /\ ran' = [h \in Handles |-> IF h \in hs THEN <<>> ELSE ran[h]]

-----------------------------------------------------------------------------
(* The inotify thread                                                      *)

\* __inotify_handle_event reads, without the mutex, that the card was gone before, and
\* leaves it to the health thread, over the card it left there before.
Notify(c) ==
  /\ exiting = "no" /\ c \in attrib
  /\ attrib' = attrib \ {c}
  /\ inotify_card' = IF genwqe_state[c] = "CARD_CLOSED" THEN c ELSE inotify_card
  /\ UNCHANGED <<hw, faults, file, lib, dev, call, exiting>>

-----------------------------------------------------------------------------
(* The health thread                                                       *)

\* GENWQE_GET_CARD_STATE of f does not say GENWQE_CARD_USED.  On a dead file the
\* ioctl fails, which is not looked at, and the answer is what it was before: stale
\* are the descriptors for which that looks good.
Bad(f, files, stale) == f \notin stale /\ ~(files[f].live /\ hw[files[f].card] = "used")

\* Mutated form: the others keep their place in the list.
HeadKept(ptr, list) == ptr
\* Every __fd_m_del is followed by __fd_m_head_all.
HeadAfterDel(ptr, list) == HeadAll(ptr, list)

\* Mutated form: the card stays marked as open.
StillOpen(state, cs) == state
SetClosed(state, cs) == [c \in Cards |-> IF c \in cs THEN "CARD_CLOSED" ELSE state[c]]

\* Mutated form: a redundant handle is deleted with its card, as a single one is.
DeletesWithCard(h) == dev_state[h] = "req_close" \/ ~Works(fd_s[h])
\* Redundant handles that __mhealth_check deletes.
Deletes(h) == dev_state[h] = "req_close"

\* __node_delete of hs
Freed(hs, ptr) ==
  /\ dev_state' = [h \in Handles |-> IF h \in hs THEN "freed" ELSE dev_state[h]]
  /\ card_no' = [h \in Handles |-> IF h \in hs THEN None ELSE card_no[h]]
  /\ fd_s' = [h \in Handles |-> IF h \in hs THEN INVALID_FD ELSE fd_s[h]]
  /\ m_fd_ptr' = [h \in Handles |-> IF h \in hs THEN INVALID_FD ELSE ptr[h]]
  /\ Returned(hs)

\* Nodes of the list m that __mhealth_check removes: the card is marked as open and does
\* not work.  When a second node of a card is looked at it is marked as closed.
FailedNodes(m, stale) ==
  LET open(i) == m.list[i].card \in m.opened \/ genwqe_state[m.list[i].card] = "CARD_OPEN"
      bad == {i \in DOMAIN m.list : open(i) /\ Bad(m.list[i].fd, m.files, stale)}
  IN  {i \in bad : \A j \in bad : j < i => m.list[j].card # m.list[i].card}

\* __inotify_handle opens the card that came back.
Reopened == OpenAdd(IF inotify_card = None THEN <<>> ELSE <<inotify_card>>)

\* __fd_m_del of all nodes in closed
Without(list, closed) == Kept(list, {i \in DOMAIN list : list[i] \notin closed})

\* __mhealth_check: __inotify_handle, the handles that were closed, then all nodes if no
\* handle is left and else those that failed.  What the inotify thread leaves there while
\* __inotify_handle opens a card is overwritten by its INOTIFY_IDLE, and lost.
MHealth(stale) ==
  \E m \in {Reopened} :
  \E failed \in {FailedNodes(m, stale)}, deleted \in {{h \in MDevs : Deletes(h)}} :
  \E closed \in {{m.list[i] : i \in IF deleted = MDevs THEN DOMAIN m.list ELSE failed}} :
  \E list \in {Without(m.list, closed)} :
    /\ inotify_card' = IF m.opened # {} THEN None ELSE inotify_card
    /\ attrib' \in IF m.opened # {} THEN SUBSET attrib ELSE {attrib}
    /\ fd_list' = list
    /\ file' = CloseFiles({n.fd : n \in closed}, m.files)
    /\ genwqe_state' = SetClosed(SetOpen(m.opened), {n.card : n \in closed})
    /\ fd_m_count' = fd_m_count + Cardinality(m.opened) - Cardinality(closed)
    /\ Freed(deleted, IF closed # {} /\ deleted # MDevs THEN HeadAfterDel(m.ptr, list) ELSE m.ptr)
    /\ UNCHANGED fd_s_count

\* Mutated form: the descriptor of a handle that is closed is forgotten.
SDeletedKeeps(h) == {}
SDeletedCloses(h) == {fd_s[h]} \ {INVALID_FD}

\* __shealth_check: a single handle is deleted with its card, also while its owner
\* still has it.
SHealth(stale) ==
  LET deleted == {h \in SDevs : \/ dev_state[h] = "req_close"
                                \/ fd_s[h] # INVALID_FD /\ Bad(fd_s[h], file, stale)}
      closed == UNION {SDeletedCloses(h) : h \in deleted}
  IN  /\ file' = CloseFiles(closed, file)
      /\ fd_s_count' = fd_s_count - Cardinality({h \in deleted : fd_s[h] # INVALID_FD})
      /\ Freed(deleted, m_fd_ptr)
      /\ UNCHANGED <<fd_list, genwqe_state, fd_m_count, inotify_card, attrib>>

\* Mutated form: single handles first.
PrefersSingle == SDevs = {}
\* "only check s_list if no m_list"
PrefersRedundant == MDevs # {}

\* __fixup_fd_lists in __health_thread
DeadFds == {f \in Fds : file[f] # NoFile /\ ~file[f].live}
Health ==
  /\ exiting = "no"
  /\ \E stale \in SUBSET DeadFds : IF PrefersRedundant THEN MHealth(stale) ELSE SHealth(stale)
  /\ UNCHANGED <<hw, faults, exiting>>

-----------------------------------------------------------------------------
(* __genwqe_card_execute                                                   *)

\* __fd_get; the caller has h, whose memory is still there.
FdGet(h) ==
  /\ fd' = [fd EXCEPT ![h] = IF Redundant(h) THEN m_fd_ptr[h] ELSE fd_s[h]]
  /\ m_fd_ptr' = IF Redundant(h) /\ m_fd_ptr[h] # INVALID_FD
                 THEN [m_fd_ptr EXCEPT ![h] = After(m_fd_ptr[h])] ELSE m_fd_ptr

\* genwqe_card_fileno, genwqe_pin_memory and genwqe_unpin_memory take a descriptor in
\* the same way: a redundant handle pins on one card only and then goes on to the next.
UseDescriptor(h) ==
  /\ h \in Callers
  /\ exiting = "no" /\ dev_state[h] = "have_fd" /\ pc[h] = "idle" /\ Redundant(h)
  /\ m_fd_ptr[h] # INVALID_FD
  /\ m_fd_ptr' = [m_fd_ptr EXCEPT ![h] = After(m_fd_ptr[h])]
  /\ UNCHANGED <<env, lib, inotify_card, dev_state, card_no, fd_s, call, exiting>>

Execute(h) ==
  /\ h \in Callers
  /\ exiting = "no" /\ dev_state[h] = "have_fd" /\ pc[h] = "idle"
  /\ FdGet(h)
  /\ pc' = [pc EXCEPT ![h] = "ioctl"]
  /\ cmd' = [cmd EXCEPT ![h] = 1] /\ ran' = [ran EXCEPT ![h] = <<>>]
  /\ UNCHANGED <<env, lib, inotify_card, dev_state, card_no, fd_s, exiting>>

\* The ioctl is good: on with the chain.
Completes(h) ==
  /\ exiting = "no" /\ dev_state[h] = "have_fd" /\ pc[h] = "ioctl" /\ Works(fd[h])
  /\ ran' = [ran EXCEPT ![h] = Append(@, cmd[h])]
  /\ cmd' = [cmd EXCEPT ![h] = @ + 1]
  /\ pc' = [pc EXCEPT ![h] = IF cmd[h] = Chain THEN "idle" ELSE @]
  /\ fd' = [fd EXCEPT ![h] = IF cmd[h] = Chain THEN INVALID_FD ELSE @]
  /\ UNCHANGED <<env, lib, inotify_card, dev, exiting>>

\* It fails, which a DDCB may do on a card that works, or the card is busy: a single
\* handle tries a busy card again, which is no step here, and gives up otherwise; a
\* redundant one gives up after CONFIG_RETRY_TIMEOUT seconds.
GivesUp(h) ==
  /\ exiting = "no" /\ dev_state[h] = "have_fd" /\ pc[h] = "ioctl"
  /\ Returned({h})
  /\ UNCHANGED <<env, lib, inotify_card, dev, exiting>>

\* Mutated form: the whole request is sent to the other card.
ResumeAtFirst(h) == 1
ResumeAt(h) == cmd[h]

\* Until then it tries the next card, with the DDCB that failed.
Retries(h) ==
  /\ exiting = "no" /\ dev_state[h] = "have_fd" /\ pc[h] = "ioctl" /\ Redundant(h)
  /\ FdGet(h)
  /\ cmd' = [cmd EXCEPT ![h] = ResumeAt(h)]
  /\ UNCHANGED <<env, lib, inotify_card, dev_state, card_no, fd_s, pc, ran, exiting>>

-----------------------------------------------------------------------------

\* Mutated form: only the handles of single mode are marked.
MarkedSingle == SDevs
\* libcard_exit asks for all handles to be closed ...
Marked == SDevs \cup MDevs
\* ... and, when the threads are gone, does what the health thread does.  The
\* program has no calls under way.
ExitMark ==
  /\ exiting = "no" /\ \A h \in Handles : pc[h] = "idle"
  /\ exiting' = "marked"
  /\ dev_state' = [h \in Handles |-> IF h \in Marked THEN "req_close" ELSE dev_state[h]]
  /\ UNCHANGED <<env, lib, inotify_card, card_no, fd_s, m_fd_ptr, call>>
ExitFixup ==
  /\ exiting = "marked" /\ exiting' = "done"
  /\ IF PrefersRedundant THEN MHealth({}) ELSE SHealth({})
  /\ UNCHANGED <<hw, faults, attrib>>

CardStep == \E c \in Cards : CardFails(c) \/ CardGoes(c) \/ CardReturns(c)
HandleStep(h) ==
  \/ \E app \in BOOLEAN, c \in OpensAs[h] :
       IF c = "redundant" THEN OpenRedundant(h, app) ELSE OpenSingle(h, c, app)
  \/ Close(h) \/ UseDescriptor(h) \/ Execute(h) \/ Completes(h) \/ GivesUp(h) \/ Retries(h)
Exit == ExitMark \/ ExitFixup

Next == \/ CardStep
        \/ \E c \in Cards : Notify(c)
        \/ Health
        \/ \E h \in Handles : HandleStep(h)
        \/ Exit

Spec == Init /\ [][Next]_vars

\* The health thread runs every 4 seconds; a call that was entered goes on, and a card
\* that works is not always busy.  That 30 seconds pass is not assumed.
FairSpec == Spec /\ WF_vars(Health) /\ \A h \in Callers :
  /\ SF_vars(Completes(h)) /\ WF_vars(Retries(h))
  /\ WF_vars(GivesUp(h) /\ ~Redundant(h) /\ ~Works(fd[h]))

-----------------------------------------------------------------------------
(* Properties                                                              *)

\* Every variable has its type.
TypeOK ==
  /\ hw \in [Cards -> {"used", "bad", "gone"}]
  /\ file \in [Fds -> [card : Cards \cup {None}, live : BOOLEAN]]
  /\ attrib \subseteq Cards /\ faults \in 0..MaxFaults
  /\ fd_list \in Seq([fd : Fds, card : Cards])
  /\ genwqe_state \in [Cards -> {"CARD_OPEN", "CARD_CLOSED"}]
  /\ {fd_m_count, fd_s_count} \subseteq 0..Cardinality(Fds)
  /\ inotify_card \in Cards \cup {None}
  /\ dev_state \in [Handles -> {"none", "have_fd", "req_close", "freed"}]
  /\ card_no \in [Handles -> Cards \cup {"redundant", None}]
  /\ {fd_s[h] : h \in Handles} \cup {m_fd_ptr[h] : h \in Handles} \cup {fd[h] : h \in Handles}
       \subseteq Fds \cup {INVALID_FD}
  /\ pc \in [Handles -> {"idle", "ioctl"}]
  /\ cmd \in [Handles -> 1..Chain+1] /\ \A h \in Handles : ran[h] \in Seq(1..Chain) /\ Len(ran[h]) <= Chain
  /\ exiting \in {"no", "marked", "done"}

\* A redundant handle points to a node that is in the list, which the health thread
\* changes under it; NULL only while the list is empty.
CursorInList ==
  \A h \in MDevs : /\ m_fd_ptr[h] \in ListFds(fd_list) \cup {INVALID_FD}
                   /\ dev_state[h] = "have_fd" /\ fd_list # <<>> => m_fd_ptr[h] # INVALID_FD

\* No descriptor is lost, used by two, or closed under its owner: the open files are
\* those of the list and of the single handles, each once, on their cards, and the
\* counters count them.
DescriptorsOwned ==
  LET singles == {h \in SDevs : fd_s[h] # INVALID_FD} IN
  /\ {f \in Fds : file[f] # NoFile} = ListFds(fd_list) \cup {fd_s[h] : h \in singles}
  /\ \A i \in DOMAIN fd_list : file[fd_list[i].fd].card = fd_list[i].card
  /\ \A h \in singles : file[fd_s[h]].card = card_no[h] /\ fd_s[h] \notin ListFds(fd_list)
  /\ Cardinality(ListFds(fd_list)) = Len(fd_list) /\ fd_m_count = Len(fd_list)
  /\ Cardinality({fd_s[h] : h \in singles}) = Cardinality(singles)
  /\ fd_s_count = Cardinality(singles)

\* A card that is marked as open, and so is not opened again when it comes back, has a
\* descriptor in the list.
OpenCardListed ==
  \A c \in Cards : genwqe_state[c] = "CARD_OPEN" => \E i \in DOMAIN fd_list : fd_list[i].card = c

\* A request that moves from card to card has every DDCB completed once and in order.
ChainOnce == \A h \in Handles : ran[h] = [i \in 1..cmd[h]-1 |-> i]

\* A redundant handle is there until its owner closes it, whatever happens to the cards; a
\* single one is taken from its owner only with its card, and not while the health thread
\* has redundant handles to look after.
FreedForCause ==
  [][\A h \in Handles : dev_state[h] # "freed" /\ dev_state'[h] = "freed" =>
       \/ dev_state[h] = "req_close"
       \/ ~Redundant(h) /\ fd_s[h] # INVALID_FD /\ ~Works(fd_s[h]) /\ MDevs = {}]_vars

\* A redundant request does not fail to find a card of the list that works.
WorkingCardIsUsed ==
  \A h \in Handles :
    pc[h] = "ioctl" ~> \/ pc[h] = "idle" \/ dev_state[h] = "freed"
                      \/ ~ \E f \in ListFds(fd_list) : Works(f)

\* What was closed is freed, a single handle when no redundant one is left.
ClosedIsFreed ==
  \A h \in Handles :
    dev_state[h] = "req_close" ~> \/ dev_state[h] = "freed" \/ exiting # "no"
                                  \/ ~Redundant(h) /\ MDevs # {}

\* At the end of the program no shared descriptor is left, and those of single handles
\* only if there were redundant handles too.
ExitClosesCards ==
  [][exiting' = "done" => /\ fd_list' = <<>> /\ MDevs' = {}
                          /\ SDevs' # {} => MDevs # {}]_vars

\* The list that handles, health thread and inotify thread share agrees with the open files,
\* the states of the cards, and the pointers into it.
ListConsistent == TypeOK /\ CursorInList /\ DescriptorsOwned /\ OpenCardListed

\* Handles that were closed are freed, single ones when no redundant one is left; of the
\* others only single handles whose card failed are; and the end of the program leaves
\* single handles behind only if it found redundant ones too.
HandlesFreed == FreedForCause /\ ClosedIsFreed /\ ExitClosesCards
=============================================================================
