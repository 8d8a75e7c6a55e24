------------------------------ MODULE DdcbQueue ------------------------------
(***************************************************************************)
(* The DDCB queue of one CAPI card context, lib/ddcb_capi.c.               *)
(*                                                                         *)
(* Application threads hand chains of commands to __ddcb_execute_multi,    *)
(* which puts each command into the next slot of a ring shared with the    *)
(* accelerator (AFU) and blocks until the last one was posted.  One done   *)
(* thread per context walks the ring behind them: from the interrupt loop  *)
(* __ddcb_process_irqs or from __ddcb_process_polling it calls             *)
(* __ddcb_done_post, which completes the oldest slot.                      *)
(*                                                                         *)
(* What runs under ctx->lock is one step.  sem_wait and everything between *)
(* two critical sections is a step of its own.  Every thread has a handle  *)
(* (struct ttxs) of its own, as every zedc stream has on CAPI, so the      *)
(* thread also names the handle.  The context is open and its mode fixed.  *)
(***************************************************************************)
EXTENDS Integers, FiniteSets

CONSTANTS
  Threads,    \* application threads, one ttx each
  NoThread,   \* the NULL ttx of a slot that was never used
  NumDdcbs,   \* NUM_DDCBS, the depth of the ring
  MaxChain,   \* bound: longest chain of commands of one call
  SeqMod,     \* ddcb_seqnum counts modulo SeqMod (2^16 in the code)
  StartSeq,   \* the first sequence number (0xf00d)
  PollingModes, \* whether a context may have DDCB_MODE_POLLING, of BOOLEAN
  Faults      \* what the environment may do wrong in this instance

FaultKinds == {"DATA_STORAGE", "AFU_ERROR", "RESERVED",
               "SELECTFAIL", "TIMEOUT", "LOST_IRQ"}

ASSUME NumDdcbsAssumption == NumDdcbs \in Nat \ {0}
ASSUME MaxChainAssumption == MaxChain \in Nat \ {0}
ASSUME SeqAssumption == SeqMod \in Nat /\ SeqMod > NumDdcbs /\ StartSeq \in 0..SeqMod-1
ASSUME ThreadsAssumption == IsFiniteSet(Threads) /\ NoThread \notin Threads
ASSUME ModeAssumption == PollingModes \subseteq BOOLEAN /\ Faults \subseteq FaultKinds

VARIABLES
  \* struct dev_ctx, protected by ctx->lock
  waitq,        \* per slot: status, ttx, cmd, thread_wait
  ddcb,         \* per slot, shared with the AFU: rsvd_0e, rsvd_c0, retc (is set)
  ddcb_in, ddcb_out, ddcb_seqnum,
  overdue,      \* slots whose q_in_time is ctx->tout or more seconds ago
  free_sem,     \* semaphore value
  \* struct ttxs and the threads in __ddcb_execute_multi
  wait_sem, compl_code,
  pc,           \* where thread t is
  chain,        \* number of commands of its current call
  next,         \* the command of the chain it enqueues next (my_cmd)
  posted,       \* history: its commands that ddcb_2_cmd has written to
  flaws,        \* history, with polling: what went wrong with one of them
  \* the done thread; ctx->mode & DDCB_MODE_POLLING, which never changes
  done_pc, done_code, polling,
  \* the AFU and the event queue of its file descriptor (external)
  afu_next, afu_busy, afu_seq, started, events

ctxVars    == <<waitq, ddcb, ddcb_in, ddcb_out, ddcb_seqnum, overdue, free_sem>>
threadVars == <<wait_sem, compl_code, pc, chain, next, posted, flaws>>
doneVars   == <<done_pc, done_code, polling>>
afuVars    == <<afu_next, afu_busy, afu_seq, started, events>>
vars       == <<ctxVars, threadVars, doneVars, afuVars>>

Slots     == 0 .. NumDdcbs-1
Seqnums   == 0 .. SeqMod-1
Commands  == 1 .. MaxChain
Codes     == {"OK", "IRQTIMEOUT", "SELECTFAIL", "EVENTFAIL", "EXEC_DDCB"}
Events    == {"AFU_INTERRUPT", "DATA_STORAGE", "AFU_ERROR", "RESERVED"}
Flaws     == {"error",      \* it was posted with an error code
              "mismatch"}   \* it was given the AFU's result of another command

NextSlot(i) == (i + 1) % NumDdcbs

\* Mutated form: the 16 bit counter does not wrap.
NextSeqWide(s) == s + 1
\* Mutated form: the counter is not incremented.
NextSeqSame(s) == s
NextSeq(s) == (s + 1) % SeqMod

\* ttx and cmd of a free slot are never read; they are modelled as cleared.
FreeEntry(w) == [status |-> "FREE", ttx |-> NoThread, cmd |-> 1, thread_wait |-> w]
InSlots == {i \in Slots : waitq[i].status = "IN"}

Init ==
  /\ waitq = [i \in Slots |-> FreeEntry(FALSE)]
  /\ ddcb = [i \in Slots |-> [rsvd_0e |-> 0, rsvd_c0 |-> 0, retc |-> FALSE]]
  /\ ddcb_in = 0 /\ ddcb_out = 0 /\ ddcb_seqnum = StartSeq
  /\ overdue = {}
  /\ free_sem = NumDdcbs
  /\ wait_sem = [t \in Threads |-> 0]
  /\ compl_code = [t \in Threads |-> "OK"]
  /\ pc = [t \in Threads |-> "idle"]
  /\ chain = [t \in Threads |-> 1]
  /\ next = [t \in Threads |-> 1]
  /\ posted = [t \in Threads |-> {}]
  /\ flaws = [t \in Threads |-> {}]
  /\ polling \in PollingModes
  /\ done_pc = (IF polling THEN "drain" ELSE "select")
  /\ done_code = "OK"
  /\ afu_next = 0 /\ afu_busy = FALSE /\ afu_seq = 0
  /\ started = {} /\ events = {}

-----------------------------------------------------------------------------
(* Application threads: __ddcb_execute_multi                               *)

\* A caller enters with a chain of n commands.
Call(t, n) ==
  /\ pc[t] = "idle"
  /\ pc' = [pc EXCEPT ![t] = "take"]
  /\ chain' = [chain EXCEPT ![t] = n]
  /\ next' = [next EXCEPT ![t] = 1]
  /\ UNCHANGED <<ctxVars, wait_sem, compl_code, posted, flaws, doneVars, afuVars>>

\* sem_wait(&ctx->free_sem)
TakeFree(t) ==
  /\ pc[t] = "take"
  /\ free_sem > 0
  /\ free_sem' = free_sem - 1
  /\ pc' = [pc EXCEPT ![t] = "enqueue"]
  /\ UNCHANGED <<waitq, ddcb, ddcb_in, ddcb_out, ddcb_seqnum, overdue,
                 wait_sem, compl_code, chain, next, posted, flaws, doneVars, afuVars>>

\* Mutated form: the retc of the slot's previous command is left in place.
cmd_2_ddcb_keeps_retc(i, seq) == ddcb' = [ddcb EXCEPT ![i].rsvd_0e = seq]
\* cmd_2_ddcb: the sequence number goes into the reserved field, retc is cleared.
cmd_2_ddcb(i, seq) == ddcb' = [ddcb EXCEPT ![i].rsvd_0e = seq, ![i].retc = FALSE]

\* Mutated form: every command of the chain asks for a wake-up.
AlwaysWakes(t) == TRUE
\* Mutated form: the first command of the chain asks for it.
FirstWakes(t) == next[t] = 1
\* Only the last command of the chain asks for a wake-up.
LastWakes(t) == next[t] = chain[t]

\* The critical section of one command: fill the slot at ddcb_in, advance, start
\* the AFU.
Enqueue(t) ==
  LET idx  == ddcb_in
      last == next[t] = chain[t]
  IN
  /\ pc[t] = "enqueue"
  /\ waitq' = [waitq EXCEPT ![idx] =
                 [status |-> "IN", ttx |-> t, cmd |-> next[t],
                  thread_wait |-> LastWakes(t) \/ waitq[idx].thread_wait]]
  /\ overdue' = overdue \ {idx}
  /\ ddcb_seqnum' = NextSeq(ddcb_seqnum)
  /\ ddcb_in' = NextSlot(ddcb_in)
  /\ cmd_2_ddcb(idx, ddcb_seqnum)
  /\ started' = started \cup {idx}
  /\ pc' = [pc EXCEPT ![t] = IF last THEN "wait" ELSE "take"]
  /\ next' = [next EXCEPT ![t] = IF last THEN @ ELSE @ + 1]
  /\ UNCHANGED <<ddcb_out, free_sem, wait_sem, compl_code, chain, posted, flaws,
                 doneVars, afu_next, afu_busy, afu_seq, events>>

\* Mutated form: a signal ends the wait.
WaitInterrupted(t) == TRUE
\* TEMP_FAILURE_RETRY(sem_wait()): only a token ends the wait.
WaitOver(t) == wait_sem[t] > 0

\* sem_wait(&ttx->wait_sem)
Wakeup(t) ==
  /\ pc[t] = "wait"
  /\ WaitOver(t)
  /\ wait_sem' = [wait_sem EXCEPT ![t] = @ - 1]
  /\ pc' = [pc EXCEPT ![t] = "return"]
  /\ UNCHANGED <<ctxVars, compl_code, chain, next, posted, flaws, doneVars, afuVars>>

\* The caller is given ttx->compl_code and its commands are its own again.  (What
\* stays in compl_code is never read; it is modelled as cleared.)
Return(t) ==
  /\ pc[t] = "return"
  /\ pc' = [pc EXCEPT ![t] = "idle"]
  /\ chain' = [chain EXCEPT ![t] = 1]
  /\ next' = [next EXCEPT ![t] = 1]
  /\ posted' = [posted EXCEPT ![t] = {}]
  /\ flaws' = [flaws EXCEPT ![t] = {}]
  /\ compl_code' = [compl_code EXCEPT ![t] = "OK"]
  /\ UNCHANGED <<ctxVars, wait_sem, doneVars, afuVars>>

-----------------------------------------------------------------------------
(* The done thread: __ddcb_done_post and the two processing loops          *)

\* Mutated form: the status of the slot is not looked at.
CompletesAnySlot(code) ==
  /\ code = "IRQTIMEOUT" => ddcb_out \in overdue
  /\ code = "OK" => ddcb[ddcb_out].retc
\* Mutated form: retc is not looked at.
CompletesUnfinished(code) ==
  /\ waitq[ddcb_out].status = "IN"
  /\ code = "IRQTIMEOUT" => ddcb_out \in overdue
\* Mutated form: the select timeout does not complete anything.
CompletesNoTimeout(code) ==
  /\ waitq[ddcb_out].status = "IN"
  /\ code # "IRQTIMEOUT"
  /\ code = "OK" => ddcb[ddcb_out].retc
\* __ddcb_done_post(ctx, code) completes the slot at ddcb_out ...
Completes(code) ==
  /\ waitq[ddcb_out].status = "IN"
  /\ code = "IRQTIMEOUT" => ddcb_out \in overdue
  /\ code = "OK" => ddcb[ddcb_out].retc

\* What ddcb_2_cmd returns: the AFU has copied the sequence number of this DDCB.
ddcb_2_cmd(i) == ddcb[i].rsvd_0e = ddcb[i].rsvd_c0

\* A bad sequence number replaces the code, but only one that is an error already.
PostedCode(i, code) == IF code # "OK" /\ ~ddcb_2_cmd(i) THEN "EXEC_DDCB" ELSE code

FlawsOf(i, result) ==
  {f \in Flaws : /\ polling
                 /\ f = "error" => result # "OK"
                 /\ f = "mismatch" => ddcb[i].retc /\ ~ddcb_2_cmd(i)}

\* ... with that effect, all of it under ctx->lock.
DonePost(code) ==
  LET idx    == ddcb_out
      ttx    == waitq[idx].ttx
      result == PostedCode(idx, code)
  IN
  /\ posted' = [posted EXCEPT ![ttx] = @ \cup {waitq[idx].cmd}]
  /\ flaws' = [flaws EXCEPT ![ttx] = @ \cup FlawsOf(idx, result)]
  /\ compl_code' = [compl_code EXCEPT ![ttx] = result]
  /\ free_sem' = free_sem + 1
  /\ wait_sem' = [wait_sem EXCEPT ![ttx] = IF waitq[idx].thread_wait THEN @ + 1 ELSE @]
  /\ waitq' = [waitq EXCEPT ![idx] = FreeEntry(FALSE)]
  /\ ddcb_out' = NextSlot(ddcb_out)
  /\ overdue' = overdue \ {idx}
  /\ UNCHANGED <<ddcb, ddcb_in, ddcb_seqnum, pc, chain, next, afuVars>>

\* select() finds no event within 100 msec.
SelectTimeout ==
  /\ done_pc = "select"
  /\ events = {}
  /\ done_pc' = "once" /\ done_code' = "IRQTIMEOUT"
  /\ UNCHANGED <<ctxVars, threadVars, polling, afuVars>>

\* select() fails, and not with EINTR.
SelectFails ==
  /\ "SELECTFAIL" \in Faults
  /\ done_pc = "select"
  /\ done_pc' = "drain" /\ done_code' = "SELECTFAIL"
  /\ UNCHANGED <<ctxVars, threadVars, polling, afuVars>>

\* cxl_read_event() delivers event e.  (When it fails, or select() returns with
\* EINTR, the loop starts again and nothing has changed.)
ReadEvent(e) ==
  /\ done_pc = "select"
  /\ e \in events
  /\ events' = events \ {e}
  /\ done_pc' = IF e = "RESERVED" THEN "once" ELSE "drain"
  /\ done_code' = IF e = "AFU_INTERRUPT" THEN "OK" ELSE "EVENTFAIL"
  /\ UNCHANGED <<ctxVars, threadVars, polling, afu_next, afu_busy, afu_seq, started>>

\* One round of: while (__ddcb_done_post(ctx, code)).  The polling loop starts over.
\* The code is the argument of the calls, a constant of each, and is dropped with them.
DrainPost == done_pc = "drain" /\ Completes(done_code) /\ DonePost(done_code)
             /\ UNCHANGED doneVars
DrainStop == done_pc = "drain" /\ ~Completes(done_code)
             /\ done_pc' = (IF polling THEN "drain" ELSE "select") /\ done_code' = "OK"
             /\ UNCHANGED <<ctxVars, threadVars, polling, afuVars>>

\* A single __ddcb_done_post(), whose result is ignored.
OncePost == done_pc = "once" /\ Completes(done_code) /\ DonePost(done_code)
            /\ done_pc' = "select" /\ done_code' = "OK" /\ UNCHANGED polling
OnceNothing == done_pc = "once" /\ ~Completes(done_code)
            /\ done_pc' = "select" /\ done_code' = "OK"
            /\ UNCHANGED <<ctxVars, threadVars, polling, afuVars>>

-----------------------------------------------------------------------------
(* The environment: time and the accelerator                               *)

\* ctx->tout seconds have passed since slot i was filled.  Older slots first.  The polling
\* loop looks neither at the time nor at events.
Expire(i) ==
  /\ "TIMEOUT" \in Faults /\ ~polling
  /\ i \in InSlots \ overdue
  /\ i # ddcb_out => (i - 1) % NumDdcbs \in overdue
  /\ overdue' = overdue \cup {i}
  /\ UNCHANGED <<waitq, ddcb, ddcb_in, ddcb_out, ddcb_seqnum, free_sem,
                 threadVars, doneVars, afuVars>>

\* The AFU walks the ring by itself and takes the next started DDCB ...
AfuFetch ==
  /\ ~afu_busy /\ afu_next \in started
  /\ afu_busy' = TRUE
  /\ afu_seq' = ddcb[afu_next].rsvd_0e
  /\ started' = started \ {afu_next}
  /\ UNCHANGED <<ctxVars, threadVars, doneVars, afu_next, events>>

\* ... and writes the result into the same slot, whoever owns it by then.
AfuComplete ==
  /\ afu_busy
  /\ ddcb' = [ddcb EXCEPT ![afu_next].rsvd_c0 = afu_seq, ![afu_next].retc = TRUE]
  /\ afu_busy' = FALSE
  /\ afu_next' = NextSlot(afu_next) /\ afu_seq' = 0
  /\ \/ events' = events \cup (IF polling THEN {} ELSE {"AFU_INTERRUPT"})
     \/ "LOST_IRQ" \in Faults /\ UNCHANGED events
  /\ UNCHANGED <<waitq, ddcb_in, ddcb_out, ddcb_seqnum, overdue, free_sem,
                 threadVars, doneVars, started>>

\* The driver reports an event other than the completion interrupt.
FaultEvent(e) ==
  /\ e \in Faults \cap Events /\ ~polling
  /\ e \notin events
  /\ events' = events \cup {e}
  /\ UNCHANGED <<ctxVars, threadVars, doneVars, afu_next, afu_busy, afu_seq, started>>

-----------------------------------------------------------------------------

ThreadStep(t) ==
  \/ \E n \in Commands : Call(t, n)
  \/ TakeFree(t)
  \/ Enqueue(t)
  \/ Wakeup(t)
  \/ Return(t)

DoneStep ==
  \/ SelectTimeout
  \/ SelectFails
  \/ \E e \in Events : ReadEvent(e)
  \/ DrainPost
  \/ DrainStop
  \/ OncePost
  \/ OnceNothing

AfuStep == AfuFetch \/ AfuComplete

Next ==
  \/ \E t \in Threads : ThreadStep(t)
  \/ DoneStep
  \/ AfuStep
  \/ \E i \in Slots : Expire(i)
  \/ \E e \in Events : FaultEvent(e)

Spec == Init /\ [][Next]_vars

\* The kernel schedules every thread.  A POSIX semaphore is not a fair queue, so
\* that sem_wait is not overtaken for ever is an assumption of its own (SF).
ThreadFairness ==
  \A t \in Threads : /\ WF_vars(Enqueue(t)) /\ WF_vars(Wakeup(t)) /\ WF_vars(Return(t))
                     /\ SF_vars(TakeFree(t))

\* With interrupts nothing is assumed of the AFU, only that time passes.  With polling
\* nothing ever times out, and the AFU has to execute what was started.
FairSpec == Spec /\ ThreadFairness /\ WF_vars(DoneStep)
                 /\ (\A i \in Slots : WF_vars(Expire(i)))
                 /\ WF_vars(polling /\ AfuStep)

-----------------------------------------------------------------------------
(* Properties                                                              *)

\* Every variable has its type.
TypeOK ==
  /\ waitq \in [Slots -> [status : {"FREE", "IN"}, ttx : Threads \cup {NoThread},
                          cmd : Commands, thread_wait : BOOLEAN]]
  /\ ddcb \in [Slots -> [rsvd_0e : Seqnums, rsvd_c0 : Seqnums, retc : BOOLEAN]]
  /\ ddcb_in \in Slots /\ ddcb_out \in Slots /\ ddcb_seqnum \in Seqnums
  /\ overdue \subseteq Slots
  /\ free_sem \in 0..NumDdcbs
  /\ wait_sem \in [Threads -> Nat]
  /\ compl_code \in [Threads -> Codes]
  /\ pc \in [Threads -> {"idle", "take", "enqueue", "wait", "return"}]
  /\ chain \in [Threads -> Commands] /\ next \in [Threads -> Commands]
  /\ posted \in [Threads -> SUBSET Commands]
  /\ flaws \in [Threads -> SUBSET Flaws]
  /\ done_pc \in {"select", "once", "drain"} /\ done_code \in Codes \ {"EXEC_DDCB"}
  /\ polling \in BOOLEAN
  /\ afu_next \in Slots /\ afu_busy \in BOOLEAN /\ afu_seq \in Seqnums
  /\ started \subseteq Slots /\ events \subseteq Events

\* Threads that hold a token of free_sem and have not used it yet.
Holding == {t \in Threads : pc[t] = "enqueue"}
\* How many slots the semaphore says are in use, and how far slot i is from ddcb_out.
NumIn   == NumDdcbs - free_sem - Cardinality(Holding)
Dist(i) == IF i >= ddcb_out THEN i - ddcb_out ELSE i - ddcb_out + NumDdcbs

\* The semaphore, the two indices and the status fields, which different code
\* paths update, describe one ring: the slots in use are the NumIn slots from
\* ddcb_out on, and ddcb_in is the slot after them.
RingConsistent ==
  /\ NumIn >= 0
  /\ \A i \in Slots : waitq[i].status = "IN" <=> Dist(i) < NumIn
  /\ ddcb_in = IF ddcb_out + NumIn < NumDdcbs THEN ddcb_out + NumIn
               ELSE ddcb_out + NumIn - NumDdcbs

\* A thread that is past sem_wait(free_sem) never fills a slot that is in use,
\* however many threads are there at the same time.
NoOverwrite == \A t \in Threads : pc[t] = "enqueue" => waitq[ddcb_in].status = "FREE"

\* A blocked thread is woken exactly once: the wake-up has been posted or is owed
\* by exactly one slot in use, and no wake-up is left over for its next call.
WakeupOwed ==
  /\ \A i \in Slots : waitq[i].thread_wait =>
       /\ waitq[i].status = "IN"
       /\ pc[waitq[i].ttx] = "wait" /\ wait_sem[waitq[i].ttx] = 0
       /\ \A j \in Slots : waitq[j].thread_wait /\ waitq[j].ttx = waitq[i].ttx => j = i
  /\ \A t \in Threads :
       /\ wait_sem[t] \in {0, 1}
       /\ wait_sem[t] = 1 => pc[t] = "wait"
       /\ pc[t] = "wait" => \/ wait_sem[t] = 1
                            \/ \E i \in Slots : waitq[i].thread_wait /\ waitq[i].ttx = t

\* The caller gets its commands back only when all of them were posted: no slot
\* still points to them or to its handle, which it may now free.
ReturnedChainPosted ==
  \A t \in Threads : pc[t] \in {"return", "idle"} =>
    /\ \A i \in InSlots : waitq[i].ttx # t
    /\ pc[t] = "return" => posted[t] = 1..chain[t]

\* The DDCBs in use carry consecutive sequence numbers up to ddcb_seqnum, the order
\* in which the AFU was told to start them.
SeqnumsConsecutive ==
  \A i \in InSlots : ddcb[i].rsvd_0e = (ddcb_seqnum - NumIn + Dist(i)) % SeqMod

\* With polling no command is completed before the AFU is done with it, whatever else goes
\* wrong: the AFU works on slots in use only.
AfuStaysInWindow ==
  polling => /\ started \subseteq InSlots
             /\ afu_busy => afu_next \in InSlots /\ afu_seq = ddcb[afu_next].rsvd_0e

\* So with polling a call returns OK and each command has the AFU's result, and its own one.
OwnAnswers ==
  polling => \A t \in Threads : pc[t] = "return" => compl_code[t] = "OK" /\ flaws[t] = {}

\* A call that was entered returns.
ExecuteReturns ==
  \A t \in Threads : pc[t] = "take" ~> pc[t] = "idle"

\* The queue of the abstract service: the slots in use, oldest first.
ServiceQueue ==
  [k \in 1..Cardinality(InSlots) |->
     LET slot == waitq[(ddcb_out + k - 1) % NumDdcbs]
     IN  [ttx |-> slot.ttx, last |-> slot.thread_wait]]

\* What is left of the call of thread t, and how far the call is.
ServiceTodo  == [t \in Threads |-> IF pc[t] \in {"take", "enqueue"}
                                   THEN chain[t] - next[t] + 1 ELSE 0]
ServiceState == [t \in Threads |-> IF pc[t] = "idle" THEN "idle"
                                   ELSE IF pc[t] = "return" \/ wait_sem[t] > 0 THEN "done"
                                   ELSE "busy"]

Service == INSTANCE DdcbService WITH
  Capacity <- NumDdcbs,
  queue    <- ServiceQueue,
  todo     <- ServiceTodo,
  state    <- ServiceState,
  code     <- compl_code

\* The ring, the two semaphores and the done thread implement the bounded FIFO
\* service: commands complete in the order they were queued, a call is released
\* by its own last command and by nothing else.
ImplementsService == Service!Spec

\* DDCBs carry consecutive numbers, with polling the AFU stays within the slots in use, and
\* so each call gets its own results.
AnswersAgree == SeqnumsConsecutive /\ AfuStaysInWindow /\ OwnAnswers
=============================================================================
