----------------------------- MODULE CapiProofs -----------------------------
(***************************************************************************)
(* Theorems about the two users of CAPI cards that stand by themselves.    *)
(*                                                                         *)
(* DdcbQueue, for every set of threads, depth of the ring, length of the   *)
(* chains, completion mode and set of faults: the ring, the wakeups, the   *)
(* answers a caller gets, and the bounded first-in first-out service of    *)
(* DdcbService that the queue implements.                                  *)
(*                                                                         *)
(* AgzipDaemon, for every number of cards, contexts and clients: its AFU   *)
(* handles and card data are there as long as they are used, and what it   *)
(* tells its clients is so.                                                *)
(***************************************************************************)
EXTENDS DdcbQueue, AgzipDaemon, FiniteSetTheorems, SequenceTheorems, WellFoundedInduction, TLAPS

-----------------------------------------------------------------------------
(* The queue                                                               *)

\* The index after slot i, without the remainder.
LEMMA NextSlotValue ==
  ASSUME NEW i \in Slots
  PROVE  /\ NextSlot(i) \in Slots
         /\ NextSlot(i) = IF i + 1 = NumDdcbs THEN 0 ELSE i + 1
BY NumDdcbsAssumption, SMT DEF Slots, NextSlot

\* Sequence numbers stay in their range when they wrap.
LEMMA NextSeqType ==
  ASSUME NEW s \in Seqnums
  PROVE  NextSeq(s) \in Seqnums
BY SeqAssumption, NumDdcbsAssumption, SMT DEF Seqnums, NextSeq

\* The threads between the two semaphore operations are finitely many.
LEMMA HoldingFinite == IsFiniteSet(Holding) /\ Cardinality(Holding) \in Nat
<1>1. IsFiniteSet(Holding)
  BY ThreadsAssumption, FS_Subset DEF Holding
<1>2. QED BY <1>1, FS_CardinalityType

\* The next command to enqueue is one of the chain.
NextInChain == \A t \in Threads : next[t] <= chain[t]

\* The invariant: the types need the ring (free_sem never exceeds NumDdcbs) and the
\* position in the chain, and the ring needs the types.
IInv == TypeOK /\ NextInChain /\ RingConsistent

\* What a step on which no count depends leaves as it is.
RingFrame == /\ UNCHANGED <<ddcb_in, ddcb_out, free_sem, waitq>>
             /\ Holding' = Holding

LEMMA RingFramed == RingConsistent /\ RingFrame => RingConsistent'
BY DEF RingConsistent, RingFrame, NumIn, Dist

-----------------------------------------------------------------------------
(* Initial states                                                          *)

LEMMA InitIInv == Init => IInv
<1> SUFFICES ASSUME Init PROVE IInv
  OBVIOUS
<1> USE NumDdcbsAssumption, MaxChainAssumption, SeqAssumption, ModeAssumption
<1>1. Holding = {}
  BY DEF Init, Holding
<1>2. NumIn = 0
  BY <1>1, FS_EmptySet DEF Init, NumIn
<1>3. TypeOK
  <2>1. FreeEntry(FALSE) \in [status : {"FREE", "IN"}, ttx : Threads \cup {NoThread},
                             cmd : Commands, thread_wait : BOOLEAN]
    BY DEF FreeEntry, Commands
  <2>2. waitq \in [Slots -> [status : {"FREE", "IN"}, ttx : Threads \cup {NoThread},
                             cmd : Commands, thread_wait : BOOLEAN]]
    BY <2>1, Zenon DEF Init
  <2>3. ddcb \in [Slots -> [rsvd_0e : Seqnums, rsvd_c0 : Seqnums, retc : BOOLEAN]]
    BY DEF Init, Seqnums
  <2>4. ddcb_in \in Slots /\ ddcb_out \in Slots /\ ddcb_seqnum \in Seqnums
        /\ overdue \subseteq Slots /\ free_sem \in 0..NumDdcbs
        /\ afu_next \in Slots /\ afu_seq \in Seqnums
        /\ started \subseteq Slots /\ events \subseteq Events
    BY DEF Init, Slots, Seqnums
  <2>5. /\ chain \in [Threads -> Commands] /\ next \in [Threads -> Commands]
        /\ posted \in [Threads -> SUBSET Commands]
        /\ flaws \in [Threads -> SUBSET Flaws]
        /\ compl_code \in [Threads -> Codes]
        /\ wait_sem \in [Threads -> Nat]
        /\ pc \in [Threads -> {"idle", "take", "enqueue", "wait", "return"}]
    BY DEF Init, Commands, Codes, Flaws
  <2>6. /\ done_pc \in {"select", "once", "drain"} /\ done_code \in Codes \ {"EXEC_DDCB"}
        /\ afu_busy \in BOOLEAN
    BY DEF Init, Codes
  <2>7. polling \in BOOLEAN
    BY ModeAssumption DEF Init
  <2>8. QED BY <2>2, <2>3, <2>4, <2>5, <2>6, <2>7 DEF TypeOK
<1>4. RingConsistent
  BY <1>2 DEF Init, RingConsistent, Dist, Slots, FreeEntry
<1>5. NextInChain
  BY DEF Init, NextInChain
<1>6. QED BY <1>3, <1>4, <1>5 DEF IInv

-----------------------------------------------------------------------------
(* The three steps that move the ring                                      *)

\* sem_wait(free_sem): the token moves from the semaphore to the thread.
LEMMA TakeFreeCount ==
  ASSUME IInv, NEW t \in Threads, TakeFree(t)
  PROVE  NumIn' = NumIn
<1>1. Holding' = Holding \cup {t} /\ t \notin Holding
  BY DEF IInv, TypeOK, TakeFree, Holding
<1>2. Cardinality(Holding') = Cardinality(Holding) + 1 /\ Cardinality(Holding) \in Nat
  BY <1>1, HoldingFinite, FS_AddElement
<1>3. QED BY <1>2, NumDdcbsAssumption DEF IInv, TypeOK, TakeFree, NumIn

LEMMA TakeFreeIInv ==
  ASSUME IInv, NEW t \in Threads, TakeFree(t)
  PROVE  IInv'
<1> USE NumDdcbsAssumption
<1>3. NumIn' = NumIn
  BY TakeFreeCount
<1>4. TypeOK'
  BY DEF IInv, TypeOK, TakeFree, doneVars, afuVars
<1>5. RingConsistent'
  BY <1>3 DEF IInv, TakeFree, RingConsistent, Dist
<1>6. NextInChain'
  BY DEF IInv, NextInChain, TakeFree
<1>7. QED BY <1>4, <1>5, <1>6 DEF IInv

\* Filling the slot at ddcb_in, the first free one: the token becomes a slot in use.
LEMMA EnqueueCount ==
  ASSUME IInv, NEW t \in Threads, Enqueue(t)
  PROVE  /\ NumIn' = NumIn + 1 /\ NumIn \in Nat /\ NumIn < NumDdcbs
         /\ \A i \in Slots : Dist(i)' = Dist(i)
         /\ ddcb_in \in Slots \ InSlots /\ Dist(ddcb_in) = NumIn
         /\ InSlots' = InSlots \cup {ddcb_in}
<1>1. Holding' = Holding \ {t} /\ t \in Holding
  BY DEF IInv, TypeOK, Enqueue, Holding
<1>2. Cardinality(Holding') = Cardinality(Holding) - 1
      /\ Cardinality(Holding) \in Nat /\ Cardinality(Holding') \in Nat
  BY <1>1, HoldingFinite, FS_RemoveElement, FS_CardinalityType
<1>3. NumIn' = NumIn + 1 /\ NumIn \in Nat /\ NumIn < NumDdcbs
  BY <1>2, NumDdcbsAssumption DEF IInv, TypeOK, RingConsistent, Enqueue, NumIn
<1>4. \A i \in Slots : Dist(i)' = Dist(i)
  BY DEF Enqueue, Dist
<1>5. ddcb_in \in Slots /\ Dist(ddcb_in) = NumIn
  BY <1>3, NumDdcbsAssumption DEF IInv, TypeOK, RingConsistent, Dist, Slots
<1>6. ddcb_in \notin InSlots
  BY <1>3, <1>5 DEF IInv, RingConsistent, InSlots
<1>7. InSlots' = InSlots \cup {ddcb_in}
  BY <1>5 DEF IInv, TypeOK, Enqueue, InSlots
<1>8. QED BY <1>3, <1>4, <1>5, <1>6, <1>7

LEMMA EnqueueIInv ==
  ASSUME IInv, NEW t \in Threads, Enqueue(t)
  PROVE  IInv'
<1> USE NumDdcbsAssumption
<1>3. NumIn' = NumIn + 1 /\ NumIn \in Nat /\ NumIn < NumDdcbs
  BY EnqueueCount
<1>4. ddcb_in' \in Slots /\ ddcb_in' = IF ddcb_in + 1 = NumDdcbs THEN 0 ELSE ddcb_in + 1
  BY NextSlotValue DEF IInv, TypeOK, Enqueue
<1>5. TypeOK'
  <2>1. waitq' \in [Slots -> [status : {"FREE", "IN"}, ttx : Threads \cup {NoThread},
                              cmd : Commands, thread_wait : BOOLEAN]]
    <3> DEFINE wake == LastWakes(t) \/ waitq[ddcb_in].thread_wait
               entry == [status |-> "IN", ttx |-> t, cmd |-> next[t], thread_wait |-> wake]
    <3>1. wake \in BOOLEAN
      OBVIOUS
    <3>2. waitq' = [waitq EXCEPT ![ddcb_in] = entry]
      BY Zenon DEF Enqueue
    <3> HIDE DEF wake
    <3>3. next[t] \in Commands
      BY DEF IInv, TypeOK
    <3>4. entry \in [status : {"FREE", "IN"}, ttx : Threads \cup {NoThread},
                     cmd : Commands, thread_wait : BOOLEAN]
      BY <3>1, <3>3
    <3> HIDE DEF entry
    <3>5. QED BY <3>2, <3>4 DEF IInv, TypeOK
  <2>2. ddcb' \in [Slots -> [rsvd_0e : Seqnums, rsvd_c0 : Seqnums, retc : BOOLEAN]]
    BY DEF IInv, TypeOK, Enqueue, cmd_2_ddcb
  <2>3. ddcb_seqnum' \in Seqnums
    BY NextSeqType DEF IInv, TypeOK, Enqueue
  <2>4. next' \in [Threads -> Commands]
    <3>1. next[t] \in Commands /\ chain[t] \in Commands /\ next[t] <= chain[t]
      BY DEF IInv, TypeOK, NextInChain
    <3>2. next[t] # chain[t] => next[t] + 1 \in Commands
      BY <3>1, MaxChainAssumption DEF Commands
    <3>3. QED BY <3>1, <3>2 DEF IInv, TypeOK, Enqueue
  <2>5. QED BY <1>4, <2>1, <2>2, <2>3, <2>4 DEF IInv, TypeOK, Enqueue, doneVars
<1>6. RingConsistent'
  <2>1. \A i \in Slots : Dist(i)' = Dist(i)
    BY EnqueueCount
  <2>2. \A i \in Slots : Dist(i) = NumIn <=> i = ddcb_in
    BY <1>3 DEF IInv, TypeOK, RingConsistent, Dist, Slots
  <2>3. \A i \in Slots : waitq'[i].status = IF i = ddcb_in THEN "IN" ELSE waitq[i].status
    BY DEF IInv, TypeOK, Enqueue
  <2>4. \A i \in Slots : Dist(i) \in Nat
    BY DEF IInv, TypeOK, Dist, Slots
  <2>5. \A i \in Slots : waitq'[i].status = "IN" <=> Dist(i)' < NumIn'
    BY <1>3, <2>1, <2>2, <2>3, <2>4 DEF IInv, RingConsistent
  <2>6. ddcb_in' = IF ddcb_out' + NumIn' < NumDdcbs THEN ddcb_out' + NumIn'
                   ELSE ddcb_out' + NumIn' - NumDdcbs
    <3>1. ddcb_out \in 0..NumDdcbs-1 /\ ddcb_out' = ddcb_out
      BY DEF IInv, TypeOK, Enqueue, Slots
    <3>2. ddcb_in = IF ddcb_out + NumIn < NumDdcbs THEN ddcb_out + NumIn
                    ELSE ddcb_out + NumIn - NumDdcbs
      BY DEF IInv, RingConsistent
    <3>3. QED BY <3>1, <3>2, <1>3, <1>4
  <2>7. QED BY <1>3, <2>5, <2>6 DEF RingConsistent
<1>7. NextInChain'
  <2>1. \A u \in Threads : next[u] \in Int /\ chain[u] \in Int /\ next[u] <= chain[u]
    BY DEF IInv, TypeOK, NextInChain, Commands
  <2>2. /\ next' = [next EXCEPT ![t] = IF next[t] = chain[t] THEN @ ELSE @ + 1]
        /\ chain' = chain /\ DOMAIN next = Threads
    BY Zenon DEF IInv, TypeOK, Enqueue
  <2>3. QED BY <2>1, <2>2 DEF NextInChain
<1>8. QED BY <1>5, <1>6, <1>7 DEF IInv

\* __ddcb_done_post: the oldest slot in use becomes free and its token goes back.
LEMMA DonePostCount ==
  ASSUME IInv, NEW code, Completes(code), DonePost(code)
  PROVE  /\ Holding' = Holding
         /\ NumIn' = NumIn - 1 /\ NumIn \in Nat /\ NumIn <= NumDdcbs /\ 0 < NumIn
         /\ ddcb_out \in InSlots /\ Dist(ddcb_out) = 0
         /\ \A i \in Slots : Dist(i)' = IF i = ddcb_out THEN NumDdcbs - 1 ELSE Dist(i) - 1
         /\ InSlots' = InSlots \ {ddcb_out}
<1>1. Holding' = Holding
  BY DEF DonePost, Holding
<1>2. NumIn' = NumIn - 1 /\ NumIn \in Nat /\ NumIn <= NumDdcbs
  BY <1>1, HoldingFinite, NumDdcbsAssumption DEF IInv, TypeOK, RingConsistent, DonePost, NumIn
<1>3. ddcb_out \in InSlots /\ Dist(ddcb_out) = 0 /\ 0 < NumIn
  <2>1. ddcb_out \in InSlots
    BY DEF IInv, TypeOK, Completes, InSlots
  <2>2. Dist(ddcb_out) = 0
    BY NumDdcbsAssumption DEF IInv, TypeOK, Dist, Slots
  <2>3. QED BY <2>1, <2>2 DEF IInv, RingConsistent, InSlots
<1>4. ddcb_out' = IF ddcb_out + 1 = NumDdcbs THEN 0 ELSE ddcb_out + 1
  BY NextSlotValue DEF IInv, TypeOK, DonePost
<1>5. \A i \in Slots : Dist(i)' = IF i = ddcb_out THEN NumDdcbs - 1 ELSE Dist(i) - 1
  BY <1>4, NumDdcbsAssumption DEF IInv, TypeOK, Dist, Slots
<1>6. InSlots' = InSlots \ {ddcb_out}
  BY <1>3 DEF IInv, TypeOK, DonePost, FreeEntry, InSlots
<1>7. QED BY <1>1, <1>2, <1>3, <1>5, <1>6

LEMMA DonePostIInv ==
  ASSUME IInv, NEW code \in Codes \ {"EXEC_DDCB"}, Completes(code), DonePost(code),
         done_pc' \in {"select", "once", "drain"}, done_code' \in Codes \ {"EXEC_DDCB"},
         polling' = polling
  PROVE  IInv'
<1> USE NumDdcbsAssumption
<1>1. Holding' = Holding
  BY DonePostCount
<1>2. NumIn' = NumIn - 1 /\ NumIn \in Nat /\ NumIn <= NumDdcbs
  BY DonePostCount
<1>3. ddcb_out \in Slots /\ Dist(ddcb_out) = 0 /\ 0 < NumIn
  BY DonePostCount DEF InSlots
<1>4. ddcb_out' \in Slots /\ ddcb_out' = IF ddcb_out + 1 = NumDdcbs THEN 0 ELSE ddcb_out + 1
  BY NextSlotValue DEF IInv, TypeOK, DonePost
<1>5. TypeOK'
  <2>1. waitq' \in [Slots -> [status : {"FREE", "IN"}, ttx : Threads \cup {NoThread},
                              cmd : Commands, thread_wait : BOOLEAN]]
    BY MaxChainAssumption DEF IInv, TypeOK, DonePost, FreeEntry, Commands
  <2>2. free_sem' \in 0..NumDdcbs
    BY <1>1, <1>2, <1>3, HoldingFinite DEF IInv, TypeOK, DonePost, NumIn
  <2>3. wait_sem' \in [Threads -> Nat]
    <3> DEFINE ttx == waitq[ddcb_out].ttx
               woken == IF waitq[ddcb_out].thread_wait THEN wait_sem[ttx] + 1
                        ELSE wait_sem[ttx]
    <3>1. wait_sem' = [wait_sem EXCEPT ![ttx] = woken]
      BY Zenon DEF DonePost
    <3>2. ttx \in Threads => woken \in Nat
      BY DEF IInv, TypeOK
    <3> HIDE DEF woken, ttx
    <3>3. QED BY <3>1, <3>2 DEF IInv, TypeOK
  <2>4. compl_code' \in [Threads -> Codes]
    BY DEF IInv, TypeOK, DonePost, PostedCode, Codes
  <2>5. posted' \in [Threads -> SUBSET Commands] /\ flaws' \in [Threads -> SUBSET Flaws]
    <3>1. posted' \in [Threads -> SUBSET Commands]
      <4> DEFINE ttx == waitq[ddcb_out].ttx
                 cmd == waitq[ddcb_out].cmd
      <4>1. posted' = [posted EXCEPT ![ttx] = @ \cup {cmd}]
        BY Zenon DEF DonePost
      <4>2. cmd \in Commands
        BY <1>3 DEF IInv, TypeOK
      <4> HIDE DEF ttx, cmd
      <4>3. posted \in [Threads -> SUBSET Commands]
        BY DEF IInv, TypeOK
      <4>4. QED BY <4>1, <4>2, <4>3
    <3> DEFINE more == FlawsOf(ddcb_out, PostedCode(ddcb_out, code))
    <3>2. more \subseteq Flaws
      BY DEF FlawsOf
    <3>3. flaws' = [flaws EXCEPT ![waitq[ddcb_out].ttx] = @ \cup more]
      BY Zenon DEF DonePost
    <3> HIDE DEF more
    <3>4. QED BY <3>1, <3>2, <3>3 DEF IInv, TypeOK
  <2>6. overdue' \subseteq Slots
    BY DEF IInv, TypeOK, DonePost
  <2>7. QED BY <1>4, <2>1, <2>2, <2>3, <2>4, <2>5, <2>6
            DEF IInv, TypeOK, DonePost, afuVars
<1>6. RingConsistent'
  <2>1. \A i \in Slots : Dist(i)' = IF i = ddcb_out THEN NumDdcbs - 1 ELSE Dist(i) - 1
    BY DonePostCount
  <2>2. \A i \in Slots : waitq'[i].status = IF i = ddcb_out THEN "FREE" ELSE waitq[i].status
    BY DEF IInv, TypeOK, DonePost, FreeEntry
  <2>3. \A i \in Slots : Dist(i) \in Nat
    BY DEF IInv, TypeOK, Dist, Slots
  <2>4. \A i \in Slots : waitq'[i].status = "IN" <=> Dist(i)' < NumIn'
    BY <1>2, <1>3, <2>1, <2>2, <2>3 DEF IInv, RingConsistent
  <2>5. ddcb_in' = IF ddcb_out' + NumIn' < NumDdcbs THEN ddcb_out' + NumIn'
                   ELSE ddcb_out' + NumIn' - NumDdcbs
    BY <1>2, <1>3, <1>4 DEF IInv, TypeOK, RingConsistent, DonePost, Slots
  <2>6. QED BY <1>2, <1>3, <2>4, <2>5 DEF RingConsistent
<1>7. NextInChain'
  BY DEF IInv, NextInChain, DonePost
<1>8. QED BY <1>5, <1>6, <1>7 DEF IInv

-----------------------------------------------------------------------------
(* All the other steps leave the ring alone                                *)

LEMMA ThreadStepsIInv ==
  ASSUME IInv, NEW t \in Threads,
         (\E n \in Commands : Call(t, n)) \/ Wakeup(t) \/ Return(t)
  PROVE  IInv'
<1> USE DEF IInv
<1>1. CASE \E n \in Commands : Call(t, n)
  <2> PICK n \in Commands : Call(t, n)
    BY <1>1
  <2>1. TypeOK'
    BY MaxChainAssumption DEF TypeOK, Call, Commands, ctxVars, doneVars, afuVars
  <2>2. NextInChain'
    BY DEF TypeOK, NextInChain, Call, Commands
  <2>3. RingFrame
    BY DEF TypeOK, Call, RingFrame, Holding, ctxVars
  <2>4. QED BY <2>1, <2>2, <2>3, RingFramed
<1>2. CASE Wakeup(t)
  <2>1. TypeOK'
    BY <1>2 DEF TypeOK, Wakeup, WaitOver, ctxVars, doneVars, afuVars
  <2>2. NextInChain'
    BY <1>2 DEF NextInChain, Wakeup
  <2>3. RingFrame
    BY <1>2 DEF TypeOK, Wakeup, RingFrame, Holding, ctxVars
  <2>4. QED BY <2>1, <2>2, <2>3, RingFramed
<1>3. CASE Return(t)
  <2>1. TypeOK'
    BY <1>3, MaxChainAssumption
    DEF TypeOK, Return, Commands, Codes, ctxVars, doneVars, afuVars
  <2>2. NextInChain'
    BY <1>3 DEF TypeOK, NextInChain, Return
  <2>3. RingFrame
    BY <1>3 DEF TypeOK, Return, RingFrame, Holding, ctxVars
  <2>4. QED BY <2>1, <2>2, <2>3, RingFramed
<1>4. QED BY <1>1, <1>2, <1>3

\* The done thread between two calls of __ddcb_done_post.
DoneLoop == SelectTimeout \/ SelectFails \/ (\E e \in Events : ReadEvent(e))
            \/ DrainStop \/ OnceNothing

LEMMA DoneLoopIInv ==
  ASSUME IInv, DoneLoop
  PROVE  IInv'
<1> USE DEF IInv, DoneLoop
<1>1. TypeOK'
  <2> USE DEF TypeOK, Codes, ctxVars, threadVars, afuVars
  <2>1. CASE SelectTimeout  BY <2>1 DEF SelectTimeout
  <2>2. CASE SelectFails    BY <2>2 DEF SelectFails
  <2>3. CASE \E e \in Events : ReadEvent(e)  BY <2>3 DEF ReadEvent
  <2>4. CASE DrainStop      BY <2>4 DEF DrainStop
  <2>5. CASE OnceNothing    BY <2>5 DEF OnceNothing
  <2>6. QED BY <2>1, <2>2, <2>3, <2>4, <2>5
<1>2. UNCHANGED <<ctxVars, threadVars>>
  BY DEF SelectTimeout, SelectFails, ReadEvent, DrainStop, OnceNothing
<1>3. NextInChain' /\ RingFrame
  BY <1>2 DEF NextInChain, RingFrame, Holding, ctxVars, threadVars
<1>4. QED BY <1>1, <1>3, RingFramed

\* Time, the AFU and the driver.
Environment == AfuStep \/ (\E i \in Slots : Expire(i)) \/ (\E e \in Events : FaultEvent(e))

LEMMA EnvironmentIInv ==
  ASSUME IInv, Environment
  PROVE  IInv'
<1> USE DEF IInv, Environment
<1>1. TypeOK'
  <2> USE DEF TypeOK, threadVars, doneVars
  <2>1. CASE AfuFetch     BY <2>1 DEF AfuFetch, ctxVars
  <2>2. CASE AfuComplete
    <3>1. ddcb' \in [Slots -> [rsvd_0e : Seqnums, rsvd_c0 : Seqnums, retc : BOOLEAN]]
      BY <2>2 DEF AfuComplete
    <3>2. afu_next' \in Slots /\ afu_seq' \in Seqnums /\ afu_busy' \in BOOLEAN
      <4>1. afu_next \in Slots
        OBVIOUS
      <4>2. NextSlot(afu_next) \in Slots
        BY <4>1, NextSlotValue
      <4>3. 0 \in Seqnums
        BY SeqAssumption, NumDdcbsAssumption DEF Seqnums
      <4>4. QED BY <2>2, <4>2, <4>3 DEF AfuComplete
    <3>3. events' \subseteq Events
      BY <2>2 DEF AfuComplete, Events
    <3>4. QED BY <2>2, <3>1, <3>2, <3>3 DEF AfuComplete
  <2>3. CASE \E i \in Slots : Expire(i)
    BY <2>3 DEF Expire, afuVars, InSlots
  <2>4. CASE \E e \in Events : FaultEvent(e)
    BY <2>4 DEF FaultEvent, ctxVars
  <2>5. QED BY <2>1, <2>2, <2>3, <2>4 DEF AfuStep
<1>2. NextInChain' /\ RingFrame
  BY DEF AfuStep, AfuFetch, AfuComplete, Expire, FaultEvent, NextInChain, RingFrame,
         Holding, ctxVars, threadVars
<1>3. QED BY <1>1, <1>2, RingFramed

-----------------------------------------------------------------------------

LEMMA NextIInv == IInv /\ [Next]_vars => IInv'
<1> SUFFICES ASSUME IInv, [Next]_vars PROVE IInv'
  OBVIOUS
<1>1. ASSUME NEW t \in Threads, ThreadStep(t) PROVE IInv'
  BY <1>1, TakeFreeIInv, EnqueueIInv, ThreadStepsIInv DEF ThreadStep
<1>2. CASE DrainPost \/ OncePost
  <2>1. done_code \in Codes \ {"EXEC_DDCB"}
    BY DEF IInv, TypeOK
  <2>2. /\ Completes(done_code) /\ DonePost(done_code)
        /\ done_pc' \in {"select", "once", "drain"}
        /\ done_code' \in Codes \ {"EXEC_DDCB"} /\ polling' = polling
    BY <1>2 DEF DrainPost, OncePost, IInv, TypeOK, doneVars, Codes
  <2>3. QED BY <2>1, <2>2, DonePostIInv
<1>3. CASE DoneLoop
  BY <1>3, DoneLoopIInv
<1>4. CASE Environment
  BY <1>4, EnvironmentIInv
<1>5. CASE UNCHANGED vars
  BY <1>5 DEF vars, ctxVars, threadVars, doneVars, afuVars, IInv, TypeOK, NextInChain,
              RingConsistent, NumIn, Holding, Dist
<1>6. QED BY <1>1, <1>2, <1>3, <1>4, <1>5 DEF Next, DoneStep, DoneLoop, Environment

LEMMA Invariant == Spec => []IInv
BY InitIInv, NextIInv, PTL DEF Spec

\* Type correctness of the queue, lib/ddcb_capi.c.
THEOREM TypeCorrect == Spec => []TypeOK
<1>1. IInv => TypeOK  BY DEF IInv
<1>2. QED BY <1>1, Invariant, PTL

\* The semaphore, the indices and the status fields always describe one ring.
THEOREM RingCorrect == Spec => []RingConsistent
<1>1. IInv => RingConsistent  BY DEF IInv
<1>2. QED BY <1>1, Invariant, PTL

\* A thread past sem_wait(free_sem) has a slot to fill, and the ring is not full.
LEMMA HoldingNotEmpty ==
  ASSUME IInv, NEW t \in Threads, pc[t] = "enqueue"
  PROVE  NumIn \in Nat /\ NumIn < NumDdcbs
<1>1. Cardinality(Holding) >= 1 /\ Cardinality(Holding) \in Nat
  BY HoldingFinite, FS_EmptySet DEF Holding
<1>2. QED BY <1>1, NumDdcbsAssumption DEF IInv, TypeOK, RingConsistent, NumIn

LEMMA OverwriteFromIInv == IInv => NoOverwrite
<1> SUFFICES ASSUME IInv, NEW t \in Threads, pc[t] = "enqueue"
             PROVE  waitq[ddcb_in].status = "FREE"
  BY DEF NoOverwrite
<1>1. NumIn \in Nat /\ NumIn < NumDdcbs
  BY HoldingNotEmpty
<1>2. ddcb_in \in Slots /\ Dist(ddcb_in) = NumIn
  BY <1>1, NumDdcbsAssumption DEF IInv, TypeOK, RingConsistent, Dist, Slots
<1>3. waitq[ddcb_in].status # "IN"
  BY <1>1, <1>2 DEF IInv, RingConsistent
<1>4. QED BY <1>2, <1>3 DEF IInv, TypeOK

\* No slot in use is ever filled again: a thread past sem_wait(free_sem) finds the
\* slot at ddcb_in free.
THEOREM NeverOverwrites == Spec => []NoOverwrite
BY OverwriteFromIInv, Invariant, PTL

-----------------------------------------------------------------------------
(* A blocked caller is woken exactly once, and not before every command of *)
(* its chain was posted                                                    *)

\* Only slots that were never used have no handle.
OwnersKnown == \A i \in InSlots : waitq[i].ttx \in Threads

\* A thread that has commands in the ring is inside its call, and has not been woken.
OwnersBusy ==
  \A i \in InSlots : /\ pc[waitq[i].ttx] \in {"take", "enqueue", "wait"}
                     /\ wait_sem[waitq[i].ttx] = 0

\* The slot that owes the wake-up is the youngest one of its thread.
WakeupIsLast ==
  \A i \in InSlots : waitq[i].thread_wait =>
    \A j \in InSlots : waitq[j].ttx = waitq[i].ttx => Dist(j) <= Dist(i)

\* The commands of its chain that thread t has put into the ring so far.
Enqueued(t) == CASE pc[t] = "idle" -> {}
                 [] pc[t] \in {"take", "enqueue"} -> 1..next[t]-1
                 [] pc[t] \in {"wait", "return"} -> 1..chain[t]

\* Each of them was posted or is in a slot.
Accounted ==
  \A t \in Threads : \A c \in Commands :
    c \in Enqueued(t) <=> \/ c \in posted[t]
                          \/ \E i \in InSlots : waitq[i].ttx = t /\ waitq[i].cmd = c

WInv == WakeupOwed /\ OwnersKnown /\ OwnersBusy /\ WakeupIsLast /\ Accounted

\* What the steps leave alone that touch neither a slot nor a thread.
ThreadFrame == UNCHANGED <<waitq, ddcb_out, wait_sem, pc, chain, next, posted>>

LEMMA ThreadFramed == WInv /\ ThreadFrame => WInv'
<1> SUFFICES ASSUME WInv, ThreadFrame PROVE WInv'
  OBVIOUS
<1>1. InSlots' = InSlots /\ \A i \in Slots : Dist(i)' = Dist(i)
  BY DEF ThreadFrame, InSlots, Dist
<1>2. WakeupOwed'
  BY DEF WInv, ThreadFrame, WakeupOwed
<1>3. OwnersKnown' /\ OwnersBusy'
  BY <1>1 DEF WInv, ThreadFrame, OwnersKnown, OwnersBusy
<1>4. WakeupIsLast'
  BY <1>1 DEF WInv, ThreadFrame, WakeupIsLast, InSlots
<1>5. Accounted'
  <2>1. \A t \in Threads : Enqueued(t)' = Enqueued(t)
    BY DEF ThreadFrame, Enqueued
  <2>2. QED BY <1>1, <2>1 DEF WInv, ThreadFrame, Accounted
<1>6. QED BY <1>2, <1>3, <1>4, <1>5 DEF WInv

-----------------------------------------------------------------------------

LEMMA InitWInv == Init => WInv
<1> SUFFICES ASSUME Init PROVE WInv
  OBVIOUS
<1>1. InSlots = {}
  BY DEF Init, InSlots, FreeEntry
<1>2. WakeupOwed
  BY DEF Init, WakeupOwed, FreeEntry
<1>3. Accounted
  BY <1>1 DEF Init, Accounted, Enqueued
<1>4. QED BY <1>1, <1>2, <1>3 DEF WInv, OwnersKnown, OwnersBusy, WakeupIsLast

\* Entering a call and taking a token.
LEMMA CallTakeWInv ==
  ASSUME IInv, WInv, NEW t \in Threads, (\E n \in Commands : Call(t, n)) \/ TakeFree(t)
  PROVE  WInv'
<1>1. /\ pc[t] \in {"idle", "take"} /\ pc' = [pc EXCEPT ![t] = IF pc[t] = "idle" THEN "take" ELSE "enqueue"]
      /\ UNCHANGED <<waitq, ddcb_out, wait_sem, posted>>
      /\ next' = IF pc[t] = "idle" THEN [next EXCEPT ![t] = 1] ELSE next
      /\ \A u \in Threads \ {t} : chain'[u] = chain[u]
  BY DEF IInv, TypeOK, Call, TakeFree, ctxVars
<1>2. InSlots' = InSlots /\ \A i \in Slots : Dist(i)' = Dist(i)
  BY <1>1 DEF InSlots, Dist
<1>3. pc[t] = "idle" => \A i \in InSlots : waitq[i].ttx # t
  BY DEF WInv, OwnersBusy
<1>4. WakeupOwed'
  BY <1>1 DEF WInv, IInv, TypeOK, WakeupOwed
<1>5. OwnersKnown' /\ OwnersBusy' /\ WakeupIsLast'
  <2>1. OwnersKnown' /\ WakeupIsLast'
    BY <1>1, <1>2 DEF WInv, OwnersKnown, WakeupIsLast, InSlots
  <2>2. OwnersBusy'
    BY <1>1, <1>2, <1>3 DEF WInv, IInv, TypeOK, OwnersBusy, OwnersKnown
  <2>3. QED BY <2>1, <2>2
<1>6. Accounted'
  <2>1. \A u \in Threads : Enqueued(u)' = Enqueued(u)
    BY <1>1 DEF IInv, TypeOK, Enqueued
  <2>2. QED BY <1>1, <1>2, <2>1 DEF WInv, Accounted
<1>7. QED BY <1>4, <1>5, <1>6 DEF WInv

\* The next command goes into the slot at ddcb_in, which is free and the farthest.
LEMMA EnqueueWInv ==
  ASSUME IInv, WInv, NEW t \in Threads, Enqueue(t)
  PROVE  WInv'
<1> DEFINE last == next[t] = chain[t]
<1>1. /\ ddcb_in \in Slots /\ waitq[ddcb_in].status = "FREE"
      /\ \A i \in InSlots : Dist(i) < Dist(ddcb_in)
  <2>1. pc[t] = "enqueue"
    BY DEF Enqueue
  <2>2. waitq[ddcb_in].status = "FREE"
    BY <2>1, OverwriteFromIInv DEF NoOverwrite
  <2>3. NumIn \in Nat /\ NumIn < NumDdcbs
    BY <2>1, HoldingNotEmpty
  <2>4. ddcb_in \in Slots /\ Dist(ddcb_in) = NumIn
    BY <2>3, NumDdcbsAssumption DEF IInv, TypeOK, RingConsistent, Dist, Slots
  <2>5. \A i \in InSlots : Dist(i) < NumIn
    BY DEF IInv, RingConsistent, InSlots
  <2>6. QED BY <2>2, <2>4, <2>5
<1>2. waitq[ddcb_in].thread_wait = FALSE
  BY <1>1 DEF IInv, TypeOK, WInv, WakeupOwed
<1>3. /\ waitq' = [waitq EXCEPT ![ddcb_in] = [status |-> "IN", ttx |-> t, cmd |-> next[t],
                                             thread_wait |-> last]]
      /\ pc' = [pc EXCEPT ![t] = IF last THEN "wait" ELSE "take"]
      /\ next' = [next EXCEPT ![t] = IF last THEN @ ELSE @ + 1]
      /\ UNCHANGED <<ddcb_out, wait_sem, chain, posted>>
      /\ pc[t] = "enqueue"
  BY <1>2 DEF Enqueue, LastWakes
<1>4. InSlots' = InSlots \cup {ddcb_in} /\ ddcb_in \notin InSlots
      /\ \A i \in Slots : Dist(i)' = Dist(i)
  BY <1>1, <1>3 DEF InSlots, Dist, IInv, TypeOK
<1>5. wait_sem[t] = 0 /\ \A i \in Slots : waitq[i].thread_wait => waitq[i].ttx # t
  BY <1>3 DEF IInv, TypeOK, WInv, WakeupOwed
<1>6. /\ \A i \in Slots \ {ddcb_in} : waitq'[i] = waitq[i]
      /\ waitq'[ddcb_in] = [status |-> "IN", ttx |-> t, cmd |-> next[t], thread_wait |-> last]
      /\ \A u \in Threads \ {t} : pc'[u] = pc[u] /\ next'[u] = next[u]
      /\ pc'[t] = IF last THEN "wait" ELSE "take"
      /\ next'[t] = IF last THEN next[t] ELSE next[t] + 1
  BY <1>1, <1>3 DEF IInv, TypeOK
<1> HIDE DEF last
<1>7. WakeupOwed'
  <2>1. ASSUME NEW i \in Slots, waitq'[i].thread_wait
        PROVE  /\ waitq'[i].status = "IN" /\ pc'[waitq'[i].ttx] = "wait"
               /\ wait_sem'[waitq'[i].ttx] = 0
               /\ \A j \in Slots : waitq'[j].thread_wait /\ waitq'[j].ttx = waitq'[i].ttx => j = i
    <3>1. CASE i = ddcb_in
      BY <2>1, <3>1, <1>3, <1>5, <1>6
    <3>2. CASE i # ddcb_in
      <4>1. waitq[i].thread_wait /\ waitq'[i] = waitq[i] /\ waitq[i].ttx # t /\ i \in InSlots
        BY <2>1, <3>2, <1>5, <1>6 DEF WInv, WakeupOwed, InSlots
      <4>2. waitq[i].ttx \in Threads
        BY <4>1 DEF WInv, OwnersKnown
      <4>3. QED BY <4>1, <4>2, <1>3, <1>6 DEF WInv, WakeupOwed
    <3>3. QED BY <3>1, <3>2
  <2>2. ASSUME NEW u \in Threads
        PROVE  /\ wait_sem'[u] \in {0, 1}
               /\ wait_sem'[u] = 1 => pc'[u] = "wait"
               /\ pc'[u] = "wait" => \/ wait_sem'[u] = 1
                                     \/ \E i \in Slots : waitq'[i].thread_wait /\ waitq'[i].ttx = u
    <3>1. CASE u = t
      BY <3>1, <1>1, <1>3, <1>5, <1>6
    <3>2. CASE u # t
      BY <3>2, <1>1, <1>2, <1>3, <1>6 DEF WInv, WakeupOwed
    <3>3. QED BY <3>1, <3>2
  <2>3. QED BY <2>1, <2>2 DEF WakeupOwed
<1>8. OwnersKnown'
  BY <1>4, <1>6 DEF WInv, OwnersKnown, InSlots
<1>9. OwnersBusy'
  <2> SUFFICES ASSUME NEW i \in InSlots'
               PROVE  /\ pc'[waitq'[i].ttx] \in {"take", "enqueue", "wait"}
                      /\ wait_sem'[waitq'[i].ttx] = 0
    BY DEF OwnersBusy
  <2>1. CASE i = ddcb_in
    BY <2>1, <1>3, <1>5, <1>6
  <2>2. CASE i # ddcb_in
    <3>1. i \in InSlots /\ waitq'[i] = waitq[i] /\ waitq[i].ttx \in Threads
      BY <2>2, <1>4, <1>6 DEF WInv, OwnersKnown, InSlots
    <3>2. QED BY <3>1, <1>3, <1>5, <1>6 DEF WInv, OwnersBusy
  <2>3. QED BY <2>1, <2>2
<1>10. WakeupIsLast'
  <2> SUFFICES ASSUME NEW i \in InSlots', waitq'[i].thread_wait,
                      NEW j \in InSlots', waitq'[j].ttx = waitq'[i].ttx
               PROVE  Dist(j)' <= Dist(i)'
    BY DEF WakeupIsLast
  <2>1. Dist(i) \in Int /\ Dist(j) \in Int /\ Dist(ddcb_in) \in Int
        /\ Dist(i)' = Dist(i) /\ Dist(j)' = Dist(j)
    BY <1>1, <1>4, NumDdcbsAssumption DEF IInv, TypeOK, InSlots, Dist, Slots
  <2>2. CASE i = ddcb_in
    BY <2>1, <2>2, <1>1, <1>4
  <2>3. CASE i # ddcb_in
    <3>1. i \in InSlots /\ waitq'[i] = waitq[i] /\ waitq[i].thread_wait /\ waitq[i].ttx # t
      BY <2>3, <1>4, <1>5, <1>6 DEF InSlots
    <3>2. j \in InSlots /\ waitq'[j] = waitq[j]
      BY <3>1, <1>4, <1>6 DEF InSlots
    <3>3. QED BY <2>1, <3>1, <3>2 DEF WInv, WakeupIsLast
  <2>4. QED BY <2>2, <2>3
<1>11. Accounted'
  <2> SUFFICES ASSUME NEW u \in Threads, NEW c \in Commands
               PROVE  c \in Enqueued(u)' <=>
                        \/ c \in posted'[u]
                        \/ \E i \in InSlots' : waitq'[i].ttx = u /\ waitq'[i].cmd = c
    BY DEF Accounted
  <2>1. (\E i \in InSlots' : waitq'[i].ttx = u /\ waitq'[i].cmd = c)
        <=> \/ u = t /\ c = next[t]
            \/ \E i \in InSlots : waitq[i].ttx = u /\ waitq[i].cmd = c
    BY <1>4, <1>6 DEF InSlots
  <2>2. c \in Enqueued(u)' <=> c \in Enqueued(u) \/ (u = t /\ c = next[t])
    <3>1. CASE u # t
      BY <3>1, <1>3, <1>6 DEF Enqueued
    <3>2. CASE u = t
      <4>1. next[t] \in Nat /\ chain[t] \in Nat /\ c \in Nat /\ c >= 1 /\ next[t] >= 1
        BY MaxChainAssumption DEF IInv, TypeOK, Commands
      <4>2. Enqueued(t) = 1..next[t]-1
        BY <1>3 DEF Enqueued
      <4>3. Enqueued(t)' = 1..next[t]
        <5>1. CASE last
          <6>1. pc'[t] = "wait" /\ chain'[t] = next[t]
            BY <5>1, <1>3, <1>6 DEF last
          <6>2. QED BY <6>1 DEF Enqueued
        <5>2. CASE ~last
          <6>1. pc'[t] = "take" /\ next'[t] - 1 = next[t]
            BY <5>2, <4>1, <1>6
          <6>2. QED BY <6>1 DEF Enqueued
        <5>3. QED BY <5>1, <5>2
      <4>4. QED BY <3>2, <4>1, <4>2, <4>3
    <3>3. QED BY <3>1, <3>2
  <2>3. QED BY <2>1, <2>2, <1>3 DEF WInv, Accounted
<1>12. QED BY <1>7, <1>8, <1>9, <1>10, <1>11 DEF WInv
\* sem_wait(wait_sem) is over, and the call returns.
LEMMA LeaveWInv ==
  ASSUME IInv, WInv, NEW t \in Threads, Wakeup(t) \/ Return(t)
  PROVE  WInv'
<1>1. /\ UNCHANGED <<waitq, ddcb_out>>
      /\ InSlots' = InSlots /\ \A i \in Slots : Dist(i)' = Dist(i)
  BY DEF Wakeup, Return, ctxVars, InSlots, Dist
<1>2. \A i \in InSlots : waitq[i].ttx # t
  BY DEF Wakeup, WaitOver, Return, WInv, OwnersBusy
<1>3. \A i \in Slots : waitq[i].thread_wait => waitq[i].ttx # t
  BY <1>2 DEF WInv, WakeupOwed, InSlots
<1>4. \A u \in Threads \ {t} :
        /\ pc'[u] = pc[u] /\ wait_sem'[u] = wait_sem[u]
        /\ chain'[u] = chain[u] /\ next'[u] = next[u] /\ posted'[u] = posted[u]
  BY DEF IInv, TypeOK, Wakeup, Return
<1>5. wait_sem'[t] = 0 /\ pc'[t] \in {"return", "idle"}
  BY DEF IInv, TypeOK, WInv, WakeupOwed, Wakeup, WaitOver, Return
<1>6. WakeupOwed'
  <2>1. \A i \in Slots : waitq[i].thread_wait => waitq[i].ttx \in Threads \ {t}
    BY <1>3 DEF WInv, WakeupOwed, OwnersKnown, InSlots
  <2>2. QED BY <1>1, <1>3, <1>4, <1>5, <2>1 DEF WInv, WakeupOwed
<1>7. OwnersKnown' /\ OwnersBusy' /\ WakeupIsLast'
  <2>1. OwnersKnown' /\ WakeupIsLast'
    BY <1>1 DEF WInv, OwnersKnown, WakeupIsLast, InSlots
  <2>2. OwnersBusy'
    BY <1>1, <1>2, <1>4 DEF WInv, OwnersBusy, OwnersKnown
  <2>3. QED BY <2>1, <2>2
<1>8. Accounted'
  <2>1. ASSUME NEW u \in Threads, NEW c \in Commands
        PROVE  c \in Enqueued(u)' <=>
                 \/ c \in posted'[u]
                 \/ \E i \in InSlots : waitq[i].ttx = u /\ waitq[i].cmd = c
    <3>1. CASE u # t
      <4>1. Enqueued(u)' = Enqueued(u)
        BY <3>1, <1>4 DEF Enqueued
      <4>2. QED BY <3>1, <4>1, <1>4 DEF WInv, Accounted
    <3>2. CASE u = t /\ Wakeup(t)
      <4>1. Enqueued(u)' = Enqueued(u) /\ posted' = posted
        BY <3>2 DEF Wakeup, Enqueued, IInv, TypeOK
      <4>2. QED BY <4>1 DEF WInv, Accounted
    <3>3. CASE u = t /\ Return(t)
      <4>1. Enqueued(u)' = {} /\ posted'[u] = {}
        BY <3>3 DEF Return, Enqueued, IInv, TypeOK
      <4>2. QED BY <3>3, <4>1, <1>2
    <3>4. QED BY <3>1, <3>2, <3>3
  <2>2. QED BY <2>1, <1>1 DEF Accounted
<1>9. QED BY <1>6, <1>7, <1>8 DEF WInv

\* The oldest slot is posted.  If it owes the wake-up it is the only one left of its
\* thread, because it is also the youngest one.
LEMMA DonePostWInv ==
  ASSUME IInv, WInv, NEW code \in Codes, Completes(code), DonePost(code)
  PROVE  WInv'
<1> DEFINE idx == ddcb_out
           ttx == waitq[idx].ttx
           wakes == waitq[idx].thread_wait
<1>1. idx \in InSlots /\ ttx \in Threads /\ idx \in Slots
  BY DEF IInv, TypeOK, Completes, InSlots, WInv, OwnersKnown
<1>2. /\ InSlots' = InSlots \ {idx}
      /\ \A i \in Slots \ {idx} : waitq'[i] = waitq[i]
      /\ waitq'[idx].thread_wait = FALSE
  BY <1>1 DEF IInv, TypeOK, DonePost, FreeEntry, InSlots
<1>3. /\ UNCHANGED <<pc, chain, next>>
      /\ \A u \in Threads : posted'[u] = IF u = ttx THEN posted[u] \cup {waitq[idx].cmd}
                                         ELSE posted[u]
      /\ \A u \in Threads : wait_sem'[u] = IF u = ttx /\ wakes THEN wait_sem[u] + 1
                                           ELSE wait_sem[u]
  BY <1>1 DEF IInv, TypeOK, DonePost
<1>4. \A i \in InSlots' : Dist(i)' = Dist(i) - 1 /\ Dist(i) \in Int /\ Dist(i) > 0
  <2>1. ddcb_out' = IF ddcb_out + 1 = NumDdcbs THEN 0 ELSE ddcb_out + 1
    BY <1>1, NextSlotValue DEF DonePost
  <2>2. QED BY <1>1, <1>2, <2>1, NumDdcbsAssumption DEF InSlots, Dist, Slots
<1>5. Dist(idx) = 0
  BY <1>1, NumDdcbsAssumption DEF Dist, Slots
<1>6. wakes => wait_sem[ttx] = 0 /\ pc[ttx] = "wait"
  BY <1>1 DEF WInv, WakeupOwed
<1>7. wakes => \A i \in InSlots' : waitq[i].ttx # ttx
  BY <1>1, <1>2, <1>4, <1>5 DEF WInv, WakeupIsLast
<1>8. \A i \in Slots : waitq'[i].thread_wait =>
        /\ i \in InSlots' /\ i # idx /\ waitq'[i] = waitq[i]
        /\ waitq[i].ttx \in Threads /\ ~(wakes /\ waitq[i].ttx = ttx)
  BY <1>1, <1>2, <1>7 DEF WInv, WakeupOwed, OwnersKnown, InSlots
<1> HIDE DEF idx, ttx, wakes
<1>9. WakeupOwed'
  <2>1. ASSUME NEW i \in Slots, waitq'[i].thread_wait
        PROVE  /\ waitq'[i].status = "IN" /\ pc'[waitq'[i].ttx] = "wait"
               /\ wait_sem'[waitq'[i].ttx] = 0
               /\ \A j \in Slots : waitq'[j].thread_wait /\ waitq'[j].ttx = waitq'[i].ttx => j = i
    BY <2>1, <1>3, <1>8 DEF WInv, WakeupOwed
  <2>2. ASSUME NEW u \in Threads
        PROVE  /\ wait_sem'[u] \in {0, 1}
               /\ wait_sem'[u] = 1 => pc'[u] = "wait"
               /\ pc'[u] = "wait" => \/ wait_sem'[u] = 1
                                     \/ \E i \in Slots : waitq'[i].thread_wait /\ waitq'[i].ttx = u
    <3>1. CASE u = ttx /\ wakes
      BY <3>1, <1>3, <1>6
    <3>2. CASE ~(u = ttx /\ wakes)
      <4>1. wait_sem'[u] = wait_sem[u] /\ pc'[u] = pc[u]
        BY <3>2, <1>3
      <4>2. ASSUME NEW i \in Slots, waitq[i].thread_wait, waitq[i].ttx = u
            PROVE  waitq'[i] = waitq[i]
        BY <3>2, <4>2, <1>2 DEF ttx, wakes
      <4>3. QED BY <4>1, <4>2 DEF WInv, WakeupOwed
    <3>3. QED BY <3>1, <3>2
  <2>3. QED BY <2>1, <2>2 DEF WakeupOwed
<1>10. OwnersKnown' /\ OwnersBusy'
  <2>1. ASSUME NEW i \in InSlots'
        PROVE  /\ i \in InSlots /\ waitq'[i] = waitq[i] /\ waitq[i].ttx \in Threads
               /\ ~(wakes /\ waitq[i].ttx = ttx)
    BY <1>2, <1>7 DEF WInv, OwnersKnown, InSlots
  <2>2. QED BY <2>1, <1>3 DEF WInv, OwnersKnown, OwnersBusy
<1>11. WakeupIsLast'
  <2>1. \A i \in InSlots' : i \in InSlots /\ waitq'[i] = waitq[i]
    BY <1>2 DEF InSlots
  <2>2. QED BY <2>1, <1>4 DEF WInv, WakeupIsLast
<1>12. Accounted'
  <2> SUFFICES ASSUME NEW u \in Threads, NEW c \in Commands
               PROVE  c \in Enqueued(u)' <=>
                        \/ c \in posted'[u]
                        \/ \E i \in InSlots' : waitq'[i].ttx = u /\ waitq'[i].cmd = c
    BY DEF Accounted
  <2>1. Enqueued(u)' = Enqueued(u)
    BY <1>3 DEF Enqueued
  <2>2. (\E i \in InSlots : waitq[i].ttx = u /\ waitq[i].cmd = c)
        <=> \/ u = ttx /\ c = waitq[idx].cmd
            \/ \E i \in InSlots' : waitq'[i].ttx = u /\ waitq'[i].cmd = c
    BY <1>1, <1>2 DEF InSlots, ttx
  <2>3. c \in posted'[u] <=> c \in posted[u] \/ (u = ttx /\ c = waitq[idx].cmd)
    BY <1>3
  <2>4. c \in Enqueued(u) <=> \/ c \in posted[u]
                            \/ \E i \in InSlots : waitq[i].ttx = u /\ waitq[i].cmd = c
    BY DEF WInv, Accounted
  <2>5. QED BY <2>1, <2>2, <2>3, <2>4
<1>13. QED BY <1>9, <1>10, <1>11, <1>12 DEF WInv

-----------------------------------------------------------------------------

LEMMA NextWInv == IInv /\ WInv /\ [Next]_vars => WInv'
<1> SUFFICES ASSUME IInv, WInv, [Next]_vars PROVE WInv'
  OBVIOUS
<1>1. ASSUME NEW t \in Threads, ThreadStep(t) PROVE WInv'
  BY <1>1, CallTakeWInv, EnqueueWInv, LeaveWInv DEF ThreadStep
<1>2. CASE DrainPost \/ OncePost
  <2>1. done_code \in Codes /\ Completes(done_code) /\ DonePost(done_code)
    BY <1>2 DEF DrainPost, OncePost, IInv, TypeOK
  <2>2. QED BY <2>1, DonePostWInv
<1>3. CASE DoneLoop
  BY <1>3, ThreadFramed DEF DoneLoop, SelectTimeout, SelectFails, ReadEvent, DrainStop,
     OnceNothing, ThreadFrame, ctxVars, threadVars
<1>4. CASE Environment
  BY <1>4, ThreadFramed DEF Environment, AfuStep, AfuFetch, AfuComplete, Expire, FaultEvent,
     ThreadFrame, ctxVars, threadVars
<1>5. CASE UNCHANGED vars
  BY <1>5, ThreadFramed DEF vars, ctxVars, threadVars, ThreadFrame
<1>6. QED BY <1>1, <1>2, <1>3, <1>4, <1>5 DEF Next, DoneStep, DoneLoop, Environment

LEMMA WInvariant == Spec => []WInv
BY InitIInv, NextIInv, InitWInv, NextWInv, PTL DEF Spec

\* A blocked caller is woken exactly once (__ddcb_done_post, thread_wait).
THEOREM WokenOnce == Spec => []WakeupOwed
<1>1. WInv => WakeupOwed  BY DEF WInv
<1>2. QED BY <1>1, WInvariant, PTL

\* When __ddcb_execute_multi returns, the done thread has posted every command of the
\* chain and no slot refers to the handle any more.
THEOREM ChainPosted == Spec => []ReturnedChainPosted
<1>1. ASSUME IInv, WInv PROVE ReturnedChainPosted
  <2> SUFFICES ASSUME NEW t \in Threads, pc[t] \in {"return", "idle"}
               PROVE  /\ \A i \in InSlots : waitq[i].ttx # t
                      /\ pc[t] = "return" => posted[t] = 1..chain[t]
    BY DEF ReturnedChainPosted
  <2>1. \A i \in InSlots : waitq[i].ttx # t
    BY <1>1 DEF WInv, OwnersBusy
  <2>2. pc[t] = "return" => posted[t] = 1..chain[t]
    <3> SUFFICES ASSUME pc[t] = "return" PROVE posted[t] = 1..chain[t]
      OBVIOUS
    <3>1. Enqueued(t) = 1..chain[t]
      BY DEF Enqueued
    <3>2. chain[t] \in Commands /\ posted[t] \subseteq Commands
      BY <1>1 DEF IInv, TypeOK
    <3>3. 1..chain[t] \subseteq Commands
      BY <3>2, MaxChainAssumption DEF Commands
    <3>4. \A c \in Commands : c \in 1..chain[t] <=> c \in posted[t]
      BY <1>1, <2>1, <3>1 DEF WInv, Accounted
    <3>5. QED BY <3>2, <3>3, <3>4
  <2>3. QED BY <2>1, <2>2
<1>2. QED BY <1>1, Invariant, WInvariant, PTL

-----------------------------------------------------------------------------
(* Sequence numbers                                                        *)

\* Counting back over no more than the depth of the ring wraps at most once.
LEMMA SeqBack ==
  ASSUME NEW s \in Seqnums, NEW k \in 0..NumDdcbs
  PROVE  (s - k) % SeqMod = IF s >= k THEN s - k ELSE s - k + SeqMod
BY SeqAssumption, NumDdcbsAssumption, SMT DEF Seqnums

LEMMA NextSeqValue ==
  ASSUME NEW s \in Seqnums
  PROVE  NextSeq(s) = IF s + 1 = SeqMod THEN 0 ELSE s + 1
BY SeqAssumption, NumDdcbsAssumption, SMT DEF Seqnums, NextSeq

\* The number of the slot k places before ddcb_in stays the same when another
\* number is drawn.
LEMMA SeqBackNext ==
  ASSUME NEW s \in Seqnums, NEW k \in 0..NumDdcbs-1
  PROVE  (NextSeq(s) - (k + 1)) % SeqMod = (s - k) % SeqMod
<1>1. k \in 0..NumDdcbs /\ k + 1 \in 0..NumDdcbs
  BY NumDdcbsAssumption
<1>2. NextSeq(s) \in Seqnums
  BY NextSeqType
<1>3. (NextSeq(s) - (k + 1)) % SeqMod = IF NextSeq(s) >= k + 1 THEN NextSeq(s) - (k + 1)
                                        ELSE NextSeq(s) - (k + 1) + SeqMod
  BY <1>1, <1>2, SeqBack
<1>4. (s - k) % SeqMod = IF s >= k THEN s - k ELSE s - k + SeqMod
  BY <1>1, SeqBack
<1>5. s \in Nat /\ SeqMod \in Nat /\ k \in Nat /\ k < SeqMod /\ s < SeqMod
  BY SeqAssumption, NumDdcbsAssumption DEF Seqnums
<1> HIDE DEF NextSeq
<1>6. QED BY <1>3, <1>4, <1>5, NextSeqValue

\* How far slot i is from the slot after the youngest one.
Behind(i) == NumIn - Dist(i)

LEMMA BehindInSlots ==
  ASSUME IInv, NEW i \in InSlots
  PROVE  /\ i \in Slots /\ NumIn \in 0..NumDdcbs /\ Dist(i) \in 0..NumDdcbs-1
         /\ Behind(i) \in 1..NumDdcbs
         /\ ddcb_seqnum - NumIn + Dist(i) = ddcb_seqnum - Behind(i)
<1>1. i \in Slots /\ Dist(i) < NumIn
  BY DEF IInv, RingConsistent, InSlots
<1>2. Dist(i) \in 0..NumDdcbs-1
  BY <1>1, NumDdcbsAssumption DEF IInv, TypeOK, Dist, Slots
<1>3. NumIn \in 0..NumDdcbs
  BY HoldingFinite, NumDdcbsAssumption DEF IInv, TypeOK, RingConsistent, NumIn
<1>4. ddcb_seqnum \in Int
  BY SeqAssumption DEF IInv, TypeOK, Seqnums
<1>5. QED BY <1>1, <1>2, <1>3, <1>4, NumDdcbsAssumption DEF Behind

-----------------------------------------------------------------------------
(* Polling: what a slot in use can look like                               *)

\* A slot is started, then worked on, then has its result, and never two of these.
Polled ==
  /\ done_pc = "drain" /\ done_code = "OK"
  /\ started \subseteq InSlots
  /\ afu_busy => /\ afu_next \in InSlots \ started
                 /\ afu_seq = ddcb[afu_next].rsvd_0e
  /\ \A i \in InSlots : ddcb[i].retc => /\ i \notin started /\ ~(afu_busy /\ afu_next = i)
                                        /\ ddcb_2_cmd(i)
  /\ \A t \in Threads : compl_code[t] = "OK" /\ flaws[t] = {}

AInv == SeqnumsConsecutive /\ (polling => Polled)

\* What the steps of the done thread's loop, of time and of the driver leave alone.
SlotFrame == UNCHANGED <<waitq, ddcb, ddcb_in, ddcb_out, ddcb_seqnum, free_sem, pc>>

LEMMA SlotFramed ==
  ASSUME SlotFrame
  PROVE  /\ InSlots' = InSlots /\ SeqnumsConsecutive' = SeqnumsConsecutive
         /\ \A i \in Slots : ddcb_2_cmd(i)' = ddcb_2_cmd(i)
<1>1. InSlots' = InSlots /\ \A i \in Slots : ddcb_2_cmd(i)' = ddcb_2_cmd(i)
  BY DEF SlotFrame, InSlots, ddcb_2_cmd
<1>2. NumIn' = NumIn /\ \A i \in Slots : Dist(i)' = Dist(i)
  BY DEF SlotFrame, NumIn, Holding, Dist
<1>3. SeqnumsConsecutive' = SeqnumsConsecutive
  BY <1>1, <1>2 DEF SlotFrame, SeqnumsConsecutive, InSlots
<1>4. QED BY <1>1, <1>3

LEMMA InitAInv == Init => AInv
<1> SUFFICES ASSUME Init PROVE AInv
  OBVIOUS
<1>1. InSlots = {}
  BY DEF Init, InSlots, FreeEntry
<1>2. polling => Polled
  BY <1>1 DEF Init, Polled
<1>3. QED BY <1>1, <1>2 DEF AInv, SeqnumsConsecutive

\* The calls outside the critical section that fills a slot.
LEMMA CallsAInv ==
  ASSUME IInv, AInv, NEW t \in Threads,
         (\E n \in Commands : Call(t, n)) \/ TakeFree(t) \/ Wakeup(t) \/ Return(t)
  PROVE  AInv'
<1>1. /\ UNCHANGED <<waitq, ddcb, ddcb_out, ddcb_seqnum, doneVars, afuVars>>
      /\ compl_code' \in {compl_code, [compl_code EXCEPT ![t] = "OK"]}
      /\ flaws' \in {flaws, [flaws EXCEPT ![t] = {}]}
  BY DEF Call, TakeFree, Wakeup, Return, ctxVars
<1>2. NumIn' = NumIn
  <2>1. CASE TakeFree(t)
    BY <2>1, TakeFreeCount
  <2>2. CASE (\E n \in Commands : Call(t, n)) \/ Wakeup(t) \/ Return(t)
    <3>1. Holding' = Holding /\ free_sem' = free_sem
      BY <2>2 DEF IInv, TypeOK, Call, Wakeup, Return, Holding, ctxVars
    <3>2. QED BY <3>1 DEF NumIn
  <2>3. QED BY <2>1, <2>2
<1>3. InSlots' = InSlots /\ \A i \in Slots : Dist(i)' = Dist(i)
  BY <1>1 DEF InSlots, Dist
<1>4. SeqnumsConsecutive'
  BY <1>1, <1>2, <1>3 DEF AInv, SeqnumsConsecutive, InSlots
<1>5. ASSUME polling PROVE Polled'
  <2>1. Polled
    BY <1>5 DEF AInv
  <2>2. \A u \in Threads : compl_code'[u] = "OK" /\ flaws'[u] = {}
    BY <1>1, <2>1 DEF IInv, TypeOK, Polled
  <2>3. QED BY <1>1, <1>3, <2>1, <2>2 DEF Polled, doneVars, afuVars, ddcb_2_cmd
<1>6. QED BY <1>1, <1>4, <1>5 DEF AInv, doneVars

\* The new slot gets the next number and its result is cleared; the AFU is not there.
LEMMA EnqueueAInv ==
  ASSUME IInv, AInv, NEW t \in Threads, Enqueue(t)
  PROVE  AInv'
<1>1. /\ NumIn' = NumIn + 1 /\ NumIn \in Nat /\ NumIn < NumDdcbs
      /\ \A i \in Slots : Dist(i)' = Dist(i)
      /\ ddcb_in \in Slots \ InSlots /\ Dist(ddcb_in) = NumIn
      /\ InSlots' = InSlots \cup {ddcb_in}
  BY EnqueueCount
<1>2. /\ \A i \in InSlots : ddcb'[i] = ddcb[i]
      /\ ddcb'[ddcb_in].rsvd_0e = ddcb_seqnum /\ ddcb'[ddcb_in].retc = FALSE
  BY <1>1 DEF IInv, TypeOK, Enqueue, cmd_2_ddcb, InSlots
<1>3. /\ ddcb_seqnum' = NextSeq(ddcb_seqnum) /\ started' = started \cup {ddcb_in}
      /\ UNCHANGED <<compl_code, flaws, doneVars, afu_next, afu_busy, afu_seq>>
  BY DEF Enqueue
<1>4. ddcb_seqnum \in Seqnums
  BY DEF IInv, TypeOK
<1>5. SeqnumsConsecutive'
  <2> SUFFICES ASSUME NEW i \in InSlots'
               PROVE  ddcb'[i].rsvd_0e = (ddcb_seqnum' - NumIn' + Dist(i)') % SeqMod
    BY DEF SeqnumsConsecutive
  <2>1. CASE i = ddcb_in
    <3>1. ddcb_seqnum' - NumIn' + Dist(i)' = NextSeq(ddcb_seqnum) - (0 + 1)
      BY <1>1, <1>3, <1>4, <2>1, NextSeqType, SeqAssumption DEF Seqnums
    <3>2. (NextSeq(ddcb_seqnum) - (0 + 1)) % SeqMod = (ddcb_seqnum - 0) % SeqMod
      BY <1>4, SeqBackNext, NumDdcbsAssumption
    <3>3. (ddcb_seqnum - 0) % SeqMod = ddcb_seqnum
      BY <1>4, SeqBack, NumDdcbsAssumption, SeqAssumption DEF Seqnums
    <3>4. QED BY <1>2, <2>1, <3>1, <3>2, <3>3
  <2>2. CASE i # ddcb_in
    <3>1. i \in InSlots
      BY <1>1, <2>2
    <3>2. /\ Dist(i) \in 0..NumDdcbs-1 /\ Behind(i) \in 1..NumDdcbs
          /\ ddcb_seqnum - NumIn + Dist(i) = ddcb_seqnum - Behind(i) /\ i \in Slots
      BY <3>1, BehindInSlots
    <3>3. Behind(i) \in 0..NumDdcbs-1
      BY <1>1, <3>2, NumDdcbsAssumption DEF Behind
    <3>4. ddcb_seqnum' - NumIn' + Dist(i)' = NextSeq(ddcb_seqnum) - (Behind(i) + 1)
      BY <1>1, <1>3, <1>4, <3>2, NextSeqType, SeqAssumption DEF Seqnums, Behind
    <3>5. (NextSeq(ddcb_seqnum) - (Behind(i) + 1)) % SeqMod = (ddcb_seqnum - Behind(i)) % SeqMod
      BY <1>4, <3>3, SeqBackNext
    <3>6. ddcb[i].rsvd_0e = (ddcb_seqnum - NumIn + Dist(i)) % SeqMod
      BY <3>1 DEF AInv, SeqnumsConsecutive
    <3>7. QED BY <1>2, <3>1, <3>2, <3>4, <3>5, <3>6
  <2>3. QED BY <2>1, <2>2
<1>6. ASSUME polling PROVE Polled'
  <2>1. Polled
    BY <1>6 DEF AInv
  <2>2. QED BY <1>1, <1>2, <1>3, <2>1 DEF Polled, doneVars, ddcb_2_cmd
<1>7. QED BY <1>3, <1>5, <1>6 DEF AInv, doneVars

\* The oldest slot has its result, so the AFU is not working on it.
LEMMA DonePostAInv ==
  ASSUME IInv, AInv, Completes(done_code), DonePost(done_code), polling' = polling,
         polling => UNCHANGED doneVars
  PROVE  AInv'
<1>1. /\ NumIn' = NumIn - 1 /\ NumIn \in Nat
      /\ ddcb_out \in InSlots /\ Dist(ddcb_out) = 0
      /\ \A i \in Slots : Dist(i)' = IF i = ddcb_out THEN NumDdcbs - 1 ELSE Dist(i) - 1
      /\ InSlots' = InSlots \ {ddcb_out}
  BY DonePostCount
<1>2. UNCHANGED <<ddcb, ddcb_seqnum, afuVars>>
  BY DEF DonePost
<1>3. SeqnumsConsecutive'
  <2> SUFFICES ASSUME NEW i \in InSlots'
               PROVE  ddcb[i].rsvd_0e = (ddcb_seqnum - NumIn' + Dist(i)') % SeqMod
    BY <1>2 DEF SeqnumsConsecutive
  <2>1. i \in InSlots /\ i # ddcb_out
    BY <1>1
  <2>2. i \in Slots /\ Dist(i) \in Int /\ ddcb_seqnum \in Int
    BY <2>1, BehindInSlots, SeqAssumption DEF IInv, TypeOK, Seqnums
  <2>3. ddcb_seqnum - NumIn' + Dist(i)' = ddcb_seqnum - NumIn + Dist(i)
    BY <1>1, <2>1, <2>2
  <2>4. QED BY <2>1, <2>3 DEF AInv, SeqnumsConsecutive
<1>4. ASSUME polling PROVE Polled'
  <2>1. Polled /\ UNCHANGED doneVars
    BY <1>4 DEF AInv
  <2>2. ddcb[ddcb_out].retc /\ ddcb_2_cmd(ddcb_out)
    BY <1>1, <2>1 DEF Polled, Completes
  <2>3. PostedCode(ddcb_out, done_code) = "OK"
    BY <2>1 DEF Polled, PostedCode
  <2>4. \A u \in Threads : compl_code'[u] = "OK" /\ flaws'[u] = {}
    <3>1. compl_code' = [compl_code EXCEPT ![waitq[ddcb_out].ttx] = "OK"]
      BY <2>3 DEF DonePost
    <3>2. flaws' = [flaws EXCEPT ![waitq[ddcb_out].ttx] = @ \cup {}]
      <4>1. FlawsOf(ddcb_out, "OK") = {}
        BY <2>2 DEF FlawsOf, Flaws
      <4>2. QED BY <2>3, <4>1 DEF DonePost
    <3>3. QED BY <2>1, <3>1, <3>2 DEF IInv, TypeOK, Polled
  <2>5. started \subseteq InSlots' /\ (afu_busy => afu_next \in InSlots' \ started)
    BY <1>1, <2>1, <2>2 DEF Polled
  <2>6. QED BY <1>1, <1>2, <2>1, <2>4, <2>5 DEF Polled, doneVars, afuVars, ddcb_2_cmd
<1>5. QED BY <1>3, <1>4 DEF AInv

\* With polling the done thread has no other step than these two.
LEMMA DoneLoopAInv ==
  ASSUME IInv, AInv, DoneLoop
  PROVE  AInv'
<1>1. /\ UNCHANGED <<ctxVars, threadVars, polling, afu_next, afu_busy, afu_seq, started>>
      /\ polling /\ done_pc = "drain" /\ done_code = "OK" => UNCHANGED <<done_pc, done_code>>
  BY DEF DoneLoop, SelectTimeout, SelectFails, ReadEvent, DrainStop, OnceNothing, afuVars
<1>2. SlotFrame
  BY <1>1 DEF SlotFrame, ctxVars, threadVars
<1>3. ASSUME polling PROVE Polled'
  <2>1. Polled
    BY <1>3 DEF AInv
  <2>2. UNCHANGED <<done_pc, done_code, compl_code, flaws, afu_next, afu_busy, afu_seq,
                    started, ddcb>>
    BY <1>1, <1>3, <2>1 DEF Polled, ctxVars, threadVars
  <2>3. QED BY <1>2, <2>1, <2>2, SlotFramed DEF Polled, ddcb_2_cmd
<1>4. QED BY <1>1, <1>2, <1>3, SlotFramed DEF AInv

\* The AFU fetches a started slot and writes the result with its number into it.
LEMMA AfuStepAInv ==
  ASSUME IInv, AInv, AfuStep
  PROVE  AInv'
<1>1. /\ UNCHANGED <<waitq, ddcb_in, ddcb_out, ddcb_seqnum, free_sem, threadVars, doneVars>>
      /\ \A i \in Slots : ddcb'[i].rsvd_0e = ddcb[i].rsvd_0e
      /\ \A i \in Slots : i # afu_next => ddcb'[i] = ddcb[i]
  <2>1. CASE AfuFetch
    BY <2>1 DEF AfuFetch, ctxVars
  <2>2. CASE AfuComplete
    BY <2>2 DEF IInv, TypeOK, AfuComplete
  <2>3. QED BY <2>1, <2>2 DEF AfuStep
<1>2. InSlots' = InSlots
  BY <1>1 DEF InSlots
<1>3. SeqnumsConsecutive'
  <2>1. NumIn' = NumIn /\ \A i \in Slots : Dist(i)' = Dist(i)
    BY <1>1 DEF NumIn, Holding, Dist, threadVars
  <2>2. QED BY <1>1, <1>2, <2>1 DEF AInv, SeqnumsConsecutive, InSlots
<1>4. ASSUME polling, AfuFetch PROVE Polled'
  <2>1. Polled
    BY <1>4 DEF AInv
  <2>2. afu_next \in InSlots /\ ~ddcb[afu_next].retc
    BY <1>4, <2>1 DEF Polled, AfuFetch
  <2>3. /\ afu_busy' = TRUE /\ afu_seq' = ddcb[afu_next].rsvd_0e
        /\ started' = started \ {afu_next} /\ UNCHANGED <<afu_next, ddcb>>
    BY <1>4 DEF AfuFetch, ctxVars
  <2>4. QED BY <1>1, <1>2, <2>1, <2>2, <2>3 DEF Polled, threadVars, doneVars, ddcb_2_cmd
<1>5. ASSUME polling, AfuComplete PROVE Polled'
  <2>1. Polled
    BY <1>5 DEF AInv
  <2>2. /\ afu_next \in InSlots \ started /\ afu_seq = ddcb[afu_next].rsvd_0e
        /\ afu_busy' = FALSE /\ started' = started
    BY <1>5, <2>1 DEF Polled, AfuComplete
  <2>3. ddcb'[afu_next].rsvd_0e = ddcb[afu_next].rsvd_0e /\ ddcb'[afu_next].rsvd_c0 = afu_seq
    BY <1>1, <1>5 DEF IInv, TypeOK, AfuComplete
  <2>4. \A i \in InSlots : ddcb'[i].retc => i \notin started /\ ddcb_2_cmd(i)'
    <3> TAKE i \in InSlots
    <3>1. CASE i = afu_next
      BY <2>2, <2>3, <3>1 DEF ddcb_2_cmd
    <3>2. CASE i # afu_next
      BY <1>1, <2>1, <3>2 DEF Polled, ddcb_2_cmd, InSlots
    <3>3. QED BY <3>1, <3>2
  <2>5. QED BY <1>1, <1>2, <2>1, <2>2, <2>4 DEF Polled, threadVars, doneVars
<1>6. QED BY <1>1, <1>3, <1>4, <1>5 DEF AInv, AfuStep, doneVars

LEMMA TimeAndDriverAInv ==
  ASSUME IInv, AInv, (\E i \in Slots : Expire(i)) \/ (\E e \in Events : FaultEvent(e))
  PROVE  AInv'
<1>1. /\ SlotFrame
      /\ UNCHANGED <<threadVars, doneVars, afu_next, afu_busy, afu_seq, started>>
  BY DEF Expire, FaultEvent, SlotFrame, ctxVars, threadVars, afuVars
<1>2. Polled' = Polled
  BY <1>1, SlotFramed DEF Polled, SlotFrame, ddcb_2_cmd, threadVars, doneVars
<1>3. QED BY <1>1, <1>2, SlotFramed DEF AInv, doneVars

LEMMA NextAInv == IInv /\ AInv /\ [Next]_vars => AInv'
<1> SUFFICES ASSUME IInv, AInv, [Next]_vars PROVE AInv'
  OBVIOUS
<1>1. ASSUME NEW t \in Threads, ThreadStep(t) PROVE AInv'
  BY <1>1, CallsAInv, EnqueueAInv DEF ThreadStep
<1>2. CASE DrainPost \/ OncePost
  <2>1. /\ Completes(done_code) /\ DonePost(done_code) /\ polling' = polling
        /\ polling => UNCHANGED doneVars
    BY <1>2 DEF DrainPost, OncePost, AInv, Polled, doneVars
  <2>2. QED BY <2>1, DonePostAInv
<1>3. CASE DoneLoop
  BY <1>3, DoneLoopAInv
<1>4. CASE Environment
  BY <1>4, AfuStepAInv, TimeAndDriverAInv DEF Environment
<1>5. CASE UNCHANGED vars
  <2>1. SlotFrame /\ UNCHANGED <<threadVars, doneVars, afuVars>>
    BY <1>5 DEF vars, ctxVars, threadVars, SlotFrame
  <2>2. Polled' = Polled
    BY <2>1, SlotFramed DEF Polled, SlotFrame, ddcb_2_cmd, threadVars, doneVars, afuVars
  <2>3. QED BY <2>1, <2>2, SlotFramed DEF AInv, doneVars
<1>6. QED BY <1>1, <1>2, <1>3, <1>4, <1>5 DEF Next, DoneStep, DoneLoop, Environment

LEMMA AInvariant == Spec => []AInv
BY InitIInv, NextIInv, InitAInv, NextAInv, PTL DEF Spec

\* The numbers that cmd_2_ddcb draws are consecutive along the ring, and in a polling
\* context the AFU works on slots in use only and every call gets the results of its
\* own commands, without an error, whatever else goes wrong.
THEOREM CallsGetOwnAnswers == Spec => []AnswersAgree
<1>1. AInv => AnswersAgree
  BY DEF AInv, Polled, AnswersAgree, AfuStaysInWindow, OwnAnswers
<1>2. QED BY <1>1, AInvariant, PTL

-----------------------------------------------------------------------------
(* Refinement of DdcbService: the queue of the service                     *)

\* Two facts about sequences given as functions.
LEMMA AppendIs ==
  ASSUME NEW S, NEW n \in Nat, NEW q \in [1..n -> S], NEW r \in [1..n+1 -> S],
         \A k \in 1..n : r[k] = q[k]
  PROVE  r = Append(q, r[n+1])
<1>1. q \in Seq(S) /\ r \in Seq(S)
  BY SeqDef, SMT
<1>2. Len(q) = n /\ Len(r) = n + 1
  BY <1>1, LenProperties, SMT
<1>3. r[n+1] \in S
  BY SMT
<1>4. /\ Append(q, r[n+1]) \in Seq(S) /\ Len(Append(q, r[n+1])) = n + 1
      /\ \A k \in 1..n+1 : Append(q, r[n+1])[k] = IF k <= n THEN q[k] ELSE r[n+1]
  BY <1>1, <1>2, <1>3, AppendProperties, SMT
<1>5. \A k \in 1..Len(r) : r[k] = Append(q, r[n+1])[k]
  BY <1>2, <1>4, SMT
<1>6. QED BY <1>1, <1>2, <1>4, <1>5, SeqEqual, Zenon

LEMMA TailIs ==
  ASSUME NEW S, NEW n \in Nat, n > 0, NEW q \in [1..n -> S], NEW r \in [1..n-1 -> S],
         \A k \in 1..n-1 : r[k] = q[k+1]
  PROVE  q # <<>> /\ Head(q) = q[1] /\ r = Tail(q)
<1>1. q \in Seq(S) /\ r \in Seq(S)
  BY SeqDef, SMT
<1>2. Len(q) = n /\ Len(r) = n - 1
  BY <1>1, LenProperties, SMT
<1>3. q # <<>> /\ Head(q) = q[1]
  BY <1>2, SMT
<1>4. Tail(q) \in Seq(S) /\ Len(Tail(q)) = n - 1
      /\ \A k \in 1..n-1 : Tail(q)[k] = q[k+1]
  BY <1>1, <1>2, <1>3, HeadTailProperties, SMT
<1>5. \A k \in 1..Len(r) : r[k] = Tail(q)[k]
  BY <1>2, <1>4, SMT
<1>6. QED BY <1>1, <1>2, <1>3, <1>4, <1>5, SeqEqual, Zenon

\* The number of slots in use, which the semaphore knows, as a set.
QInv == IsFiniteSet(InSlots) /\ Cardinality(InSlots) = NumIn

LEMMA InitQInv == Init => QInv
<1> SUFFICES ASSUME Init PROVE QInv
  OBVIOUS
<1>1. InSlots = {} /\ Holding = {}
  BY DEF Init, InSlots, FreeEntry, Holding
<1>2. NumIn = 0
  BY <1>1, FS_EmptySet, NumDdcbsAssumption DEF Init, NumIn
<1>3. QED BY <1>1, <1>2, FS_EmptySet DEF QInv

\* The steps that neither fill nor post a slot.
OtherStep ==
  \/ \E t \in Threads : (\E n \in Commands : Call(t, n)) \/ TakeFree(t) \/ Wakeup(t) \/ Return(t)
  \/ DoneLoop
  \/ Environment

LEMMA OtherStepRing ==
  ASSUME IInv, OtherStep
  PROVE  /\ NumIn' = NumIn /\ UNCHANGED <<waitq, ddcb_in, ddcb_out>>
         /\ InSlots' = InSlots
<1>1. UNCHANGED <<waitq, ddcb_in, ddcb_out>>
  <2>1. CASE DoneLoop
    BY <2>1 DEF DoneLoop, SelectTimeout, SelectFails, ReadEvent, DrainStop, OnceNothing, ctxVars
  <2>2. CASE Environment
    BY <2>2 DEF Environment, AfuStep, AfuFetch, AfuComplete, Expire, FaultEvent, ctxVars
  <2>3. QED BY <2>1, <2>2 DEF OtherStep, Call, TakeFree, Wakeup, Return, ctxVars
<1>2. InSlots' = InSlots
  BY <1>1 DEF InSlots
<1>3. CASE \E t \in Threads : TakeFree(t)
  BY <1>1, <1>2, <1>3, TakeFreeCount
<1>4. CASE \E t \in Threads : (\E n \in Commands : Call(t, n)) \/ Wakeup(t) \/ Return(t)
  <2>1. free_sem' = free_sem /\ Holding' = Holding
    BY <1>4 DEF IInv, TypeOK, Call, Wakeup, Return, Holding, ctxVars
  <2>2. QED BY <1>1, <1>2, <2>1 DEF NumIn
<1>5. CASE DoneLoop \/ Environment
  <2>1. UNCHANGED <<free_sem, pc>>
    <3>1. CASE DoneLoop
      BY <3>1 DEF DoneLoop, SelectTimeout, SelectFails, ReadEvent, DrainStop, OnceNothing,
                  ctxVars, threadVars
    <3>2. CASE Environment
      BY <3>2 DEF Environment, AfuStep, AfuFetch, AfuComplete, Expire, FaultEvent,
                  ctxVars, threadVars
    <3>3. QED BY <1>5, <3>1, <3>2
  <2>2. QED BY <1>1, <1>2, <2>1 DEF NumIn, Holding
<1>6. QED BY <1>3, <1>4, <1>5 DEF OtherStep

\* Every step is one of three kinds: it fills a slot, posts one, or does neither.
LEMMA StepKinds ==
  ASSUME IInv, Next
  PROVE  \/ \E t \in Threads : Enqueue(t)
         \/ done_code \in Codes /\ Completes(done_code) /\ DonePost(done_code)
         \/ OtherStep
BY DEF Next, ThreadStep, DoneStep, DrainPost, OncePost, OtherStep, DoneLoop, Environment,
       IInv, TypeOK

LEMMA NextQInv == IInv /\ QInv /\ [Next]_vars => QInv'
<1> SUFFICES ASSUME IInv, QInv, [Next]_vars PROVE QInv'
  OBVIOUS
<1>1. CASE \E t \in Threads : Enqueue(t)
  <2>1. /\ NumIn' = NumIn + 1 /\ ddcb_in \notin InSlots
        /\ InSlots' = InSlots \cup {ddcb_in}
    BY <1>1, EnqueueCount
  <2>2. QED BY <2>1, FS_AddElement DEF QInv
<1>2. CASE done_code \in Codes /\ Completes(done_code) /\ DonePost(done_code)
  <2>1. /\ NumIn' = NumIn - 1 /\ ddcb_out \in InSlots
        /\ InSlots' = InSlots \ {ddcb_out}
    BY <1>2, DonePostCount
  <2>2. QED BY <2>1, FS_RemoveElement DEF QInv
<1>3. CASE OtherStep
  BY <1>3, OtherStepRing DEF QInv
<1>4. CASE UNCHANGED vars
  <2>1. InSlots' = InSlots /\ NumIn' = NumIn
    BY <1>4 DEF vars, ctxVars, threadVars, InSlots, NumIn, Holding
  <2>2. QED BY <2>1 DEF QInv
<1>5. QED BY <1>1, <1>2, <1>3, <1>4, StepKinds

LEMMA QInvariant == Spec => []QInv
BY InitIInv, NextIInv, InitQInv, NextQInv, PTL DEF Spec

-----------------------------------------------------------------------------
(* Refinement of DdcbService: every step is a step of the service          *)

\* The k-th slot from slot o on, without the remainder.
LEMMA FromSlot ==
  ASSUME NEW o \in Slots, NEW k \in 1..NumDdcbs
  PROVE  /\ (o + k - 1) % NumDdcbs \in Slots
         /\ (o + k - 1) % NumDdcbs = IF o + k - 1 < NumDdcbs THEN o + k - 1
                                    ELSE o + k - 1 - NumDdcbs
BY NumDdcbsAssumption, SMT DEF Slots

\* The k-th command of the service, and the slot it is in.
At(k) == (ddcb_out + k - 1) % NumDdcbs
Entry(i) == [ttx |-> waitq[i].ttx, last |-> waitq[i].thread_wait]
Entries == [ttx : Threads \cup {NoThread}, last : BOOLEAN]

LEMMA QueueValue ==
  ASSUME IInv, QInv
  PROVE  /\ NumIn \in 0..NumDdcbs
         /\ ServiceQueue = [k \in 1..NumIn |-> Entry(At(k))]
         /\ ServiceQueue \in [1..NumIn -> Entries]
<1>1. NumIn \in 0..NumDdcbs
  BY HoldingFinite, NumDdcbsAssumption DEF IInv, TypeOK, RingConsistent, NumIn
<1>2. ServiceQueue = [k \in 1..NumIn |-> Entry(At(k))]
  BY Zenon DEF QInv, ServiceQueue, Entry, At
<1>3. ASSUME NEW k \in 1..NumIn PROVE Entry(At(k)) \in Entries
  <2>1. k \in 1..NumDdcbs
    BY <1>1, NumDdcbsAssumption
  <2>2. At(k) \in Slots
    BY <2>1, FromSlot DEF IInv, TypeOK, At
  <2>3. QED BY <2>2 DEF IInv, TypeOK, Entry, Entries
<1>4. QED BY <1>1, <1>2, <1>3, Zenon

LEMMA OtherStepQueue ==
  ASSUME IInv, QInv, QInv', OtherStep
  PROVE  ServiceQueue' = ServiceQueue
<1>1. UNCHANGED <<waitq, ddcb_out>> /\ InSlots' = InSlots
  BY OtherStepRing
<1>2. QED BY <1>1 DEF ServiceQueue

\* A function that differs from another one in one place.
LEMMA ExceptIs ==
  ASSUME NEW D, NEW f, NEW g, NEW x \in D, NEW e,
         f = [u \in D |-> f[u]], g = [u \in D |-> g[u]],
         \A u \in D : g[u] = IF u = x THEN e ELSE f[u]
  PROVE  g = [f EXCEPT ![x] = e]
<1>1. [f EXCEPT ![x] = e] = [u \in D |-> IF u = x THEN e ELSE f[u]]
  BY Zenon
<1>2. [u \in D |-> IF u = x THEN e ELSE f[u]] = [u \in D |-> g[u]]
  BY Zenon
<1>3. QED BY <1>1, <1>2, Zenon

LEMMA ServiceFunctions ==
  /\ ServiceTodo = [u \in Threads |-> ServiceTodo[u]]
  /\ ServiceState = [u \in Threads |-> ServiceState[u]]
  /\ ServiceTodo' = [u \in Threads |-> ServiceTodo'[u]]
  /\ ServiceState' = [u \in Threads |-> ServiceState'[u]]
BY Zenon DEF ServiceTodo, ServiceState

LEMMA InitService == Init => Service!Init
<1> SUFFICES ASSUME Init PROVE Service!Init
  OBVIOUS
<1>1. ServiceQueue = <<>>
  <2>1. Cardinality(InSlots) = 0
    BY FS_EmptySet DEF Init, InSlots, FreeEntry
  <2>2. 1..0 = {}
    OBVIOUS
  <2>3. QED BY <2>1, <2>2 DEF ServiceQueue
<1>2. ServiceTodo = [t \in Threads |-> 0] /\ ServiceState = [t \in Threads |-> "idle"]
  BY DEF Init, ServiceTodo, ServiceState
<1>3. compl_code = [t \in Threads |-> "OK"]
  BY DEF Init
<1>4. QED BY <1>1, <1>2, <1>3 DEF Service!Init

LEMMA CallService ==
  ASSUME IInv, WInv, NEW t \in Threads, NEW n \in Commands, Call(t, n),
         ServiceQueue' = ServiceQueue
  PROVE  Service!Call(t, n)
<1>1. /\ pc[t] = "idle" /\ pc' = [pc EXCEPT ![t] = "take"]
      /\ chain' = [chain EXCEPT ![t] = n] /\ next' = [next EXCEPT ![t] = 1]
      /\ UNCHANGED <<wait_sem, compl_code>>
  BY DEF Call
<1>2. wait_sem[t] = 0 /\ n \in Nat
  BY <1>1 DEF WInv, WakeupOwed, Commands
<1>3. /\ pc'[t] = "take" /\ chain'[t] - next'[t] + 1 = n
      /\ \A u \in Threads \ {t} : pc'[u] = pc[u] /\ chain'[u] = chain[u] /\ next'[u] = next[u]
  BY <1>1, <1>2 DEF IInv, TypeOK
<1>4. /\ ServiceState[t] = "idle"
      /\ \A u \in Threads : ServiceState'[u] = IF u = t THEN "busy" ELSE ServiceState[u]
  BY <1>1, <1>2, <1>3 DEF ServiceState
<1>5. \A u \in Threads : ServiceTodo'[u] = IF u = t THEN n ELSE ServiceTodo[u]
  BY <1>3 DEF ServiceTodo
<1>6. /\ ServiceState' = [ServiceState EXCEPT ![t] = "busy"]
      /\ ServiceTodo' = [ServiceTodo EXCEPT ![t] = n]
  BY <1>4, <1>5, ExceptIs, ServiceFunctions
<1>7. QED BY <1>1, <1>4, <1>6 DEF Service!Call

\* sem_wait(free_sem), and the end of sem_wait(wait_sem), are not steps of the service.
LEMMA TakeFreeWakeupService ==
  ASSUME IInv, WInv, NEW t \in Threads, TakeFree(t) \/ Wakeup(t),
         ServiceQueue' = ServiceQueue
  PROVE  UNCHANGED Service!vars
<1>1. ServiceState' = ServiceState
  BY DEF IInv, TypeOK, WInv, WakeupOwed, TakeFree, Wakeup, WaitOver, ServiceState
<1>2. ServiceTodo' = ServiceTodo
  BY DEF IInv, TypeOK, TakeFree, Wakeup, ServiceTodo
<1>3. compl_code' = compl_code
  BY DEF TakeFree, Wakeup
<1>4. QED BY <1>1, <1>2, <1>3 DEF Service!vars

LEMMA ReturnService ==
  ASSUME IInv, WInv, NEW t \in Threads, Return(t), ServiceQueue' = ServiceQueue
  PROVE  Service!Return(t)
<1>1. /\ pc[t] = "return" /\ pc' = [pc EXCEPT ![t] = "idle"]
      /\ chain' = [chain EXCEPT ![t] = 1] /\ next' = [next EXCEPT ![t] = 1]
      /\ wait_sem' = wait_sem /\ compl_code' = [compl_code EXCEPT ![t] = "OK"]
  BY DEF Return
<1>2. ServiceState[t] = "done" /\ ServiceState' = [ServiceState EXCEPT ![t] = "idle"]
  BY <1>1 DEF IInv, TypeOK, ServiceState
<1>3. ServiceTodo' = ServiceTodo
  BY <1>1 DEF IInv, TypeOK, ServiceTodo
<1>4. QED BY <1>1, <1>2, <1>3 DEF Service!Return

\* The commands of the service are those of the slots in use, the oldest one first.
LEMMA AtInSlots ==
  ASSUME IInv, NEW k \in 1..NumIn
  PROVE  At(k) \in InSlots /\ Dist(At(k)) = k - 1
<1>1. NumIn \in 0..NumDdcbs
  BY HoldingFinite, NumDdcbsAssumption DEF IInv, TypeOK, RingConsistent, NumIn
<1>2. k \in 1..NumDdcbs /\ ddcb_out \in Slots
  BY <1>1, NumDdcbsAssumption DEF IInv, TypeOK
<1>3. /\ At(k) \in Slots
      /\ At(k) = IF ddcb_out + k - 1 < NumDdcbs THEN ddcb_out + k - 1
                 ELSE ddcb_out + k - 1 - NumDdcbs
  BY <1>2, FromSlot DEF At
<1>4. Dist(At(k)) = k - 1
  BY <1>2, <1>3, NumDdcbsAssumption DEF Dist, Slots
<1>5. Dist(At(k)) < NumIn
  BY <1>1, <1>2, <1>4, NumDdcbsAssumption
<1>6. QED BY <1>3, <1>4, <1>5 DEF IInv, RingConsistent, InSlots

\* Filling a slot is Submit: the new command is behind the others.
LEMMA EnqueueService ==
  ASSUME IInv, WInv, QInv, QInv', NEW t \in Threads, Enqueue(t)
  PROVE  Service!Submit(t)
<1> DEFINE cmd == [ttx |-> t, last |-> ServiceTodo[t] = 1]
<1>1. /\ NumIn' = NumIn + 1 /\ NumIn \in Nat /\ NumIn < NumDdcbs
      /\ ddcb_in \in Slots \ InSlots
  BY EnqueueCount
<1>2. /\ pc[t] = "enqueue" /\ ddcb_out' = ddcb_out
      /\ pc' = [pc EXCEPT ![t] = IF next[t] = chain[t] THEN "wait" ELSE "take"]
      /\ next' = [next EXCEPT ![t] = IF next[t] = chain[t] THEN @ ELSE @ + 1]
      /\ UNCHANGED <<wait_sem, compl_code, chain>>
  BY DEF Enqueue
<1>3. /\ next[t] \in Nat /\ chain[t] \in Nat /\ next[t] <= chain[t]
      /\ wait_sem[t] = 0
  BY <1>2, MaxChainAssumption DEF IInv, TypeOK, NextInChain, Commands, WInv, WakeupOwed
<1>4. /\ pc'[t] = (IF next[t] = chain[t] THEN "wait" ELSE "take")
      /\ next'[t] = IF next[t] = chain[t] THEN next[t] ELSE next[t] + 1
      /\ \A u \in Threads \ {t} : pc'[u] = pc[u] /\ next'[u] = next[u]
  BY <1>2 DEF IInv, TypeOK
<1>5. ServiceTodo[t] = chain[t] - next[t] + 1
  BY <1>2 DEF ServiceTodo
<1>6. ServiceTodo[t] > 0 /\ ServiceTodo' = [ServiceTodo EXCEPT ![t] = @ - 1]
  <2>1. ServiceTodo'[t] = ServiceTodo[t] - 1
    BY <1>2, <1>3, <1>4, <1>5 DEF ServiceTodo
  <2>2. \A u \in Threads \ {t} : ServiceTodo'[u] = ServiceTodo[u]
    BY <1>2, <1>4 DEF ServiceTodo
  <2>3. ServiceTodo' = [ServiceTodo EXCEPT ![t] = ServiceTodo[t] - 1]
    BY <2>1, <2>2, ExceptIs, ServiceFunctions
  <2>4. QED BY <1>3, <1>5, <2>3
<1>7. ServiceState' = ServiceState
  BY <1>2, <1>3, <1>4 DEF ServiceState
<1>8. ServiceQueue \in [1..NumIn -> Entries]
      /\ \A k \in 1..NumIn : ServiceQueue[k] = Entry(At(k))
  BY QueueValue
<1>9. waitq'[ddcb_in] = [status |-> "IN", ttx |-> t, cmd |-> next[t],
                         thread_wait |-> ServiceTodo[t] = 1]
      /\ \A i \in InSlots : waitq'[i] = waitq[i]
  <2>1. waitq[ddcb_in].thread_wait = FALSE
    BY <1>1 DEF IInv, TypeOK, WInv, WakeupOwed, InSlots
  <2>2. LastWakes(t) = (ServiceTodo[t] = 1)
    BY <1>3, <1>5 DEF LastWakes
  <2>3. waitq' = [waitq EXCEPT ![ddcb_in] = [status |-> "IN", ttx |-> t, cmd |-> next[t],
                                            thread_wait |-> ServiceTodo[t] = 1]]
    BY <2>1, <2>2 DEF Enqueue
  <2>4. QED BY <1>1, <2>3 DEF IInv, TypeOK, InSlots
<1>10. ServiceQueue' = [k \in 1..NumIn+1 |-> Entry(At(k))']
  BY <1>1, Zenon DEF QInv, ServiceQueue, Entry, At
<1>11. \A k \in 1..NumIn : Entry(At(k))' = Entry(At(k))
  BY <1>2, <1>9, AtInSlots DEF Entry, At
<1>12. ASSUME NEW k \in Nat, k = NumIn + 1 PROVE Entry(At(k))' = cmd
  <2>1. At(k) = ddcb_in
    <3>1. k \in 1..NumDdcbs /\ ddcb_out \in Slots
      BY <1>1, <1>12, NumDdcbsAssumption DEF IInv, TypeOK
    <3>2. At(k) = IF ddcb_out + NumIn < NumDdcbs THEN ddcb_out + NumIn
                  ELSE ddcb_out + NumIn - NumDdcbs
      BY <1>1, <1>12, <3>1, FromSlot DEF At, Slots
    <3>3. QED BY <3>2 DEF IInv, RingConsistent
  <2>2. At(k)' = ddcb_in
    BY <1>2, <2>1 DEF At
  <2>3. QED BY <1>9, <2>2 DEF Entry
<1>13. ServiceQueue' = Append(ServiceQueue, cmd) /\ Len(ServiceQueue) = NumIn
  <2>1. cmd \in Entries
    BY DEF Entries
  <2> HIDE DEF cmd
  <2>2. \A k \in 1..NumIn+1 : Entry(At(k))' = IF k <= NumIn THEN ServiceQueue[k] ELSE cmd
    BY <1>1, <1>8, <1>11, <1>12
  <2>3. /\ ServiceQueue' \in [1..NumIn+1 -> Entries] /\ ServiceQueue'[NumIn+1] = cmd
        /\ \A k \in 1..NumIn : ServiceQueue'[k] = ServiceQueue[k]
    BY <1>1, <1>8, <1>10, <2>1, <2>2
  <2>4. ServiceQueue' = Append(ServiceQueue, cmd)
    BY <1>1, <1>8, <2>3, AppendIs
  <2>5. Len(ServiceQueue) = NumIn
    BY <1>1, <1>8
  <2>6. QED BY <2>4, <2>5
<1>14. QED BY <1>1, <1>2, <1>6, <1>7, <1>13 DEF Service!Submit

\* Posting the oldest slot is Complete, and its wake-up ends the call.
LEMMA DonePostService ==
  ASSUME IInv, WInv, QInv, QInv', done_code \in Codes, Completes(done_code),
         DonePost(done_code)
  PROVE  \E c \in Codes : Service!Complete(c)
<1> DEFINE ttx == waitq[ddcb_out].ttx
           wakes == waitq[ddcb_out].thread_wait
           c == PostedCode(ddcb_out, done_code)
<1>1. /\ NumIn' = NumIn - 1 /\ NumIn \in Nat /\ NumIn <= NumDdcbs /\ 0 < NumIn
      /\ ddcb_out \in InSlots /\ InSlots' = InSlots \ {ddcb_out} /\ Dist(ddcb_out) = 0
  BY DonePostCount
<1>2. ttx \in Threads /\ ddcb_out \in Slots /\ wakes \in BOOLEAN
  BY <1>1 DEF IInv, TypeOK, InSlots, WInv, OwnersKnown
<1>3. c \in Codes /\ compl_code' = [compl_code EXCEPT ![ttx] = c]
  BY Zenon DEF DonePost, PostedCode, Codes
<1>4. /\ UNCHANGED <<pc, chain, next>>
      /\ \A u \in Threads : wait_sem'[u] = IF u = ttx /\ wakes THEN wait_sem[u] + 1
                                           ELSE wait_sem[u]
      /\ \A i \in InSlots' : waitq'[i] = waitq[i]
  BY <1>1, <1>2 DEF IInv, TypeOK, DonePost, InSlots
<1>5. pc[ttx] \in {"take", "enqueue", "wait"} /\ wait_sem[ttx] = 0
  BY <1>1 DEF WInv, OwnersBusy
<1>6. ServiceQueue \in [1..NumIn -> Entries]
      /\ \A k \in 1..NumIn : ServiceQueue[k] = Entry(At(k))
  BY QueueValue
<1>7. At(1) = ddcb_out
  BY <1>2, FromSlot, NumDdcbsAssumption DEF At, Slots
<1>8. \A k \in 1..NumIn-1 : Entry(At(k))' = Entry(At(k + 1))
  <2> SUFFICES ASSUME NEW k \in 1..NumIn-1 PROVE Entry(At(k))' = Entry(At(k + 1))
    OBVIOUS
  <2>1. k + 1 \in 1..NumIn /\ k \in 1..NumDdcbs /\ k + 1 \in 1..NumDdcbs
    BY <1>1, NumDdcbsAssumption
  <2>2. At(k + 1) \in InSlots /\ Dist(At(k + 1)) = k + 1 - 1
    BY <2>1, AtInSlots
  <2>3. At(k + 1) # ddcb_out
    BY <1>1, <2>1, <2>2
  <2>4. At(k)' = At(k + 1)
    <3>1. ddcb_out' \in Slots
          /\ ddcb_out' = IF ddcb_out + 1 = NumDdcbs THEN 0 ELSE ddcb_out + 1
      BY <1>2, NextSlotValue DEF DonePost
    <3>2. (ddcb_out' + k - 1) % NumDdcbs = IF ddcb_out' + k - 1 < NumDdcbs THEN ddcb_out' + k - 1
                                           ELSE ddcb_out' + k - 1 - NumDdcbs
      BY <2>1, <3>1, FromSlot
    <3>3. (ddcb_out + (k + 1) - 1) % NumDdcbs
            = IF ddcb_out + (k + 1) - 1 < NumDdcbs THEN ddcb_out + (k + 1) - 1
              ELSE ddcb_out + (k + 1) - 1 - NumDdcbs
      BY <1>2, <2>1, FromSlot
    <3>4. (ddcb_out' + k - 1) % NumDdcbs = (ddcb_out + (k + 1) - 1) % NumDdcbs
      BY <1>2, <2>1, <3>1, <3>2, <3>3, NumDdcbsAssumption DEF Slots
    <3>5. QED BY <3>4 DEF At
  <2>5. QED BY <1>1, <1>4, <2>2, <2>3, <2>4 DEF Entry
<1>9. ServiceQueue' = [k \in 1..NumIn-1 |-> Entry(At(k))']
  BY <1>1, Zenon DEF QInv, ServiceQueue, Entry, At
<1>10. /\ ServiceQueue # <<>> /\ ServiceQueue' = Tail(ServiceQueue)
       /\ Head(ServiceQueue) = [ttx |-> ttx, last |-> wakes]
  <2>1. /\ ServiceQueue' \in [1..NumIn-1 -> Entries]
        /\ \A k \in 1..NumIn-1 : ServiceQueue'[k] = ServiceQueue[k + 1]
    BY <1>1, <1>6, <1>8, <1>9
  <2>2. /\ ServiceQueue # <<>> /\ ServiceQueue' = Tail(ServiceQueue)
        /\ Head(ServiceQueue) = ServiceQueue[1]
    BY <1>1, <1>6, <2>1, TailIs
  <2>3. ServiceQueue[1] = Entry(ddcb_out)
    BY <1>1, <1>6, <1>7
  <2>4. QED BY <2>2, <2>3 DEF Entry
<1>11. ServiceTodo' = ServiceTodo
  BY <1>4 DEF ServiceTodo
<1> HIDE DEF ttx, wakes, c
<1>12. ServiceState' = [ServiceState EXCEPT ![ttx] = IF wakes THEN "done" ELSE @]
  <2>1. \A u \in Threads : ServiceState'[u] = IF u = ttx /\ wakes THEN "done" ELSE ServiceState[u]
    BY <1>2, <1>4, <1>5 DEF ServiceState
  <2>2. \A u \in Threads : ServiceState'[u] = IF u = ttx THEN IF wakes THEN "done" ELSE ServiceState[ttx]
                                              ELSE ServiceState[u]
    BY <2>1
  <2>3. QED BY <1>2, <2>2, ExceptIs, ServiceFunctions
<1>13. Service!Complete(c)
  <2>1. Head(ServiceQueue).ttx = ttx /\ Head(ServiceQueue).last = wakes
    BY <1>10
  <2>2. /\ compl_code' = [compl_code EXCEPT ![Head(ServiceQueue).ttx] = c]
        /\ ServiceState' = [ServiceState EXCEPT ![Head(ServiceQueue).ttx] =
                               IF Head(ServiceQueue).last THEN "done" ELSE @]
    BY <1>3, <1>12, <2>1, Zenon
  <2>3. QED BY <1>10, <1>11, <2>2 DEF Service!Complete
<1>14. QED BY <1>3, <1>13

LEMMA NextService ==
  ASSUME IInv, WInv, QInv, QInv', [Next]_vars
  PROVE  [Service!Next]_(Service!vars)
<1>1. ASSUME NEW t \in Threads, Enqueue(t) PROVE Service!Next
  BY <1>1, EnqueueService DEF Service!Next
<1>2. CASE done_code \in Codes /\ Completes(done_code) /\ DonePost(done_code)
  BY <1>2, DonePostService DEF Service!Next
<1>3. CASE OtherStep
  <2>1. ServiceQueue' = ServiceQueue
    BY <1>3, OtherStepQueue
  <2>2. ASSUME NEW t \in Threads, NEW n \in Commands, Call(t, n) PROVE Service!Next
    BY <2>1, <2>2, CallService DEF Service!Next, Commands
  <2>3. ASSUME NEW t \in Threads, TakeFree(t) \/ Wakeup(t) PROVE UNCHANGED Service!vars
    BY <2>1, <2>3, TakeFreeWakeupService
  <2>4. ASSUME NEW t \in Threads, Return(t) PROVE Service!Next
    BY <2>1, <2>4, ReturnService DEF Service!Next
  <2>5. CASE DoneLoop \/ Environment
    <3>1. UNCHANGED threadVars
      <4>1. CASE DoneLoop
        BY <4>1 DEF DoneLoop, SelectTimeout, SelectFails, ReadEvent, DrainStop, OnceNothing
      <4>2. CASE Environment
        BY <4>2 DEF Environment, AfuStep, AfuFetch, AfuComplete, Expire, FaultEvent
      <4>3. QED BY <2>5, <4>1, <4>2
    <3>2. UNCHANGED <<ServiceTodo, ServiceState, compl_code>>
      BY <3>1 DEF threadVars, ServiceTodo, ServiceState
    <3>3. QED BY <2>1, <3>2 DEF Service!vars
  <2>6. QED BY <1>3, <2>2, <2>3, <2>4, <2>5 DEF OtherStep
<1>4. CASE UNCHANGED vars
  BY <1>4 DEF vars, ctxVars, threadVars, ServiceQueue, InSlots, ServiceTodo, ServiceState,
              Service!vars
<1>5. QED BY <1>1, <1>2, <1>3, <1>4, StepKinds

\* The ring, its semaphores and its done thread implement the bounded first-in first-out
\* service: no step of __ddcb_execute_multi, __ddcb_done_post, the AFU or the clock is
\* more than one step of the service.
THEOREM QueueImplementsService == Spec => ImplementsService
<1>1. Init => Service!Init
  BY InitService
<1>2. IInv /\ WInv /\ QInv /\ QInv' /\ [Next]_vars => [Service!Next]_(Service!vars)
  BY NextService
<1>3. QED BY <1>1, <1>2, Invariant, WInvariant, QInvariant, PTL
          DEF Spec, ImplementsService, Service!Spec

-----------------------------------------------------------------------------
(* The daemon: the inductive invariant                                     *)

\* The handle a card thread has: it is open exactly in the states that use it, and then
\* the process has it.
HandleOK(c) ==
  /\ afu_h[c] = "open" <=> state[c] \in {"COLLECT_STATIC_DATA", "COLLECT_TRANS_DATA", "DO_CARD_CLOSE"}
  /\ afu_h[c] = "open" => held[c] > 0
  /\ ~lost[c] => held[c] = IF afu_h[c] = "open" THEN 1 ELSE 0

\* fail_cnt counts the failures in a row, once it was cleared.
FailuresCounted(c) ==
  CASE state[c] = "DO_CARD_OPEN" -> opened[c] => fail_cnt[c] = row[c] /\ row[c] < 2
    [] state[c] = "CARD_FAIL"    -> opened[c] => row[c] = 2
    [] OTHER                     -> fail_cnt[c] = 0 /\ row[c] = 0

\* The contexts of a card that are in use.
InUse(c) == {x \in Ctxs : qstat[c][x] # "N"}

\* A collection has found what it has shown, and all that is before the contexts to do.
Collecting(c) == IF todo[c] = None THEN ctx[c] = 0 /\ found[c] = 0 /\ rc[c] = 0
  ELSE /\ state[c] = "COLLECT_TRANS_DATA"
       /\ found[c] = Cardinality(InUse(c))
       /\ \A x \in InUse(c) : x <= ctx[c] /\ \A y \in todo[c] : x < y

\* The summary is that of the list.
Summary(c) == todo[c] = None /\ state[c] # "CARD_FAIL" =>
  act[c] = Cardinality({x \in Ctxs : x < max_ctx[c] /\ qstat[c][x] # "N"})

CardOK(c) == HandleOK(c) /\ FailuresCounted(c) /\ Collecting(c) /\ Summary(c)

\* main stops the card threads one after the other.
Stopped ==
  /\ main \notin {"free", "ended"} => \A c \in Cards : ~freed[c]
  /\ main \in {"cancel", "join"} => \A c \in Cards : c < at => thread[c] = "gone"
  /\ main \in {"free", "ended"} => \A c \in Cards : thread[c] = "gone"

MInv == DTypeOK /\ (\A c \in Cards : CardOK(c)) /\ Stopped /\ EndsForAReason

-----------------------------------------------------------------------------
(* Helpers                                                                 *)

LEMMA Constants ==
  /\ Cardinality(Cards) \in Nat \ {0} /\ Cards = 0..Last /\ Last \in Nat
  /\ Cardinality(Ctxs) \in Nat \ {0} /\ Ctxs = 0..Cardinality(Ctxs)-1
<1>1. Cardinality(Cards) \in Nat /\ Cardinality(Ctxs) \in Nat
  BY FiniteAssumption, FS_CardinalityType
<1>2. Cardinality(Cards) # 0 /\ Cardinality(Ctxs) # 0
  BY <1>1, CardsAssumption, CtxsAssumption
<1>3. QED BY <1>1, <1>2, CardsAssumption, CtxsAssumption DEF Last

\* Min, of the contexts that are still to read.
LEMMA MinOfSet ==
  ASSUME NEW S \in SUBSET Ctxs, S # {}
  PROVE  Min(S) \in S /\ \A y \in S : Min(S) <= y
<1>1. S \subseteq Nat
  BY Constants
<1>2. PICK x \in S : \A y \in S : ~(<<y, x>> \in OpToRel(<, Nat))
  BY <1>1, WFMin, NatLessThanWellFounded, Zenon
<1>3. \A y \in S : x <= y
  <2> TAKE y \in S
  <2>1. x \in Nat /\ y \in Nat
    BY <1>1
  <2>2. ~(y < x)
    BY <1>2, <2>1, Zenon DEF OpToRel
  <2>3. QED BY <2>1, <2>2
<1>4. QED BY <1>3, Zenon DEF Min

LEMMA InUseFinite ==
  ASSUME DTypeOK, NEW c \in Cards
  PROVE  /\ IsFiniteSet(InUse(c)) /\ Cardinality(InUse(c)) \in 0..Cardinality(Ctxs)
<1>1. InUse(c) \subseteq Ctxs
  BY DEF InUse
<1>2. QED BY <1>1, Constants, FiniteAssumption, FS_Subset, FS_CardinalityType

\* What CardOK is about.
CardKept(c) ==
  /\ held'[c] = held[c] /\ afu_h'[c] = afu_h[c] /\ state'[c] = state[c]
  /\ fail_cnt'[c] = fail_cnt[c] /\ qstat'[c] = qstat[c] /\ act'[c] = act[c]
  /\ max_ctx'[c] = max_ctx[c] /\ todo'[c] = todo[c] /\ ctx'[c] = ctx[c]
  /\ found'[c] = found[c] /\ rc'[c] = rc[c]
  /\ row'[c] = row[c] /\ opened'[c] = opened[c] /\ lost'[c] = lost[c]

LEMMA KeptOK ==
  ASSUME NEW c \in Cards, CardKept(c), CardOK(c)
  PROVE  CardOK(c)'
<1>1. InUse(c)' = InUse(c)
  BY DEF CardKept, InUse
<1>2. HandleOK(c)'
  BY DEF CardKept, CardOK, HandleOK
<1>3. FailuresCounted(c)'
  BY DEF CardKept, CardOK, FailuresCounted
<1>4. Collecting(c)'
  BY <1>1 DEF CardKept, CardOK, Collecting
<1>5. Summary(c)'
  BY DEF CardKept, CardOK, Summary
<1>6. QED BY <1>2, <1>3, <1>4, <1>5 DEF CardOK

-----------------------------------------------------------------------------
(* Initial states                                                          *)

LEMMA InitMInv == DInit => MInv
<1> SUFFICES ASSUME DInit PROVE MInv
  OBVIOUS
<1>1. DTypeOK
  <2>1. 0 \in Cards /\ 0 \in Ctxs /\ 0 \in 0..Cardinality(Ctxs)
    BY Constants
  <2>2. dev \in [Cards -> Kinds]
    BY DEF DInit
  <2>3. fail_cnt \in [Cards -> 0..3] /\ max_ctx \in [Cards -> (0..Cardinality(Ctxs)) \cup HeapMaxCtx]
    BY HeapAssumption DEF DInit
  <2>4. held \in [Cards -> 0..2] /\ row \in [Cards -> 0..2] /\ act \in [Cards -> 0..Cardinality(Ctxs)]
        /\ found \in [Cards -> 0..Cardinality(Ctxs)] /\ ctx \in [Cards -> Ctxs]
        /\ rc \in [Cards -> {0, -1}]
    BY <2>1 DEF DInit
  <2>5. state \in [Cards -> States] /\ card_status \in [Cards -> States]
        /\ qstat \in [Cards -> [Ctxs -> Flags]]
    BY DEF DInit, States, Flags
  <2>6. reads \in [Clients -> Cards] /\ at \in Cards /\ client \in [Clients -> {"none", "read", "send"}]
    BY <2>1 DEF DInit
  <2>7. QED BY <2>2, <2>3, <2>4, <2>5, <2>6 DEF DInit, DTypeOK
<1>2. ASSUME NEW c \in Cards PROVE CardOK(c)
  <2>1. {x \in Ctxs : x < max_ctx[c] /\ qstat[c][x] # "N"} = {}
    BY DEF DInit
  <2>2. Summary(c)
    BY <2>1, FS_EmptySet DEF DInit, Summary
  <2>3. QED BY <2>2 DEF DInit, CardOK, HandleOK, FailuresCounted, Collecting
<1>3. Stopped /\ EndsForAReason
  BY DEF DInit, Stopped, EndsForAReason
<1>4. QED BY <1>1, <1>2, <1>3 DEF MInv

-----------------------------------------------------------------------------
(* The card thread                                                         *)

\* A card thread writes the data of its card only, and ends for good.
LEMMA CardFrame ==
  ASSUME MInv, NEW c \in Cards, CardSteps(c)
  PROVE  /\ UNCHANGED <<dev, main, at, server, signalled, freed, client, reads>>
         /\ \A d \in Cards \ {c} : CardKept(d)
         /\ \/ thread' = thread
            \/ /\ thread[c] \in {"running", "cancelled"}
               /\ thread' = [thread EXCEPT ![c] = "gone"]
<1> USE DEF CardKept, GoesTo, MInv, DTypeOK, mainVars, clientVars, historyVars
<1>1. CASE DoOpen(c)
  <2>1. CASE OpenFails(c)
    BY <1>1, <2>1 DEF DoOpen, OpenFails
  <2>2. CASE OpenSucceeds(c)
    BY <1>1, <2>2 DEF DoOpen, OpenSucceeds, Cleared
  <2>3. QED BY <1>1, <2>1, <2>2 DEF DoOpen
<1>2. CASE CollectStatic(c)
  BY <1>2 DEF CollectStatic
<1>3. CASE CollectBegin(c)
  BY <1>3 DEF CollectBegin
<1>4. CASE CollectCtx(c)
  <2>1. PICK flag \in Flags : qstat' = [qstat EXCEPT ![c] = [qstat[c] EXCEPT ![Min(todo[c])] = flag]]
    BY <1>4, ShowsAssumption DEF CollectCtx, Flags
  <2>2. QED BY <1>4, <2>1 DEF CollectCtx
<1>5. CASE CollectEnd(c)
  BY <1>5 DEF CollectEnd
<1>6. CASE DoClose(c)
  BY <1>6 DEF DoClose, Cleared
<1>7. CASE Closed(c)
  BY <1>7 DEF Closed
<1>8. CASE Fail(c)
  BY <1>8 DEF Fail, Turn
<1>9. CASE Cancelled(c)
  BY <1>9 DEF Cancelled, cdVars
<1>10. QED BY <1>1, <1>2, <1>3, <1>4, <1>5, <1>6, <1>7, <1>8, <1>9 DEF CardSteps, CardThread

\* Opening fails, and the second time in a row gives up, or it succeeds.
LEMMA OpenStep ==
  ASSUME MInv, NEW c \in Cards, DoOpen(c)
  PROVE  DTypeOK' /\ CardOK(c)'
<1>1. /\ state[c] = "DO_CARD_OPEN" /\ todo[c] = None /\ CardOK(c) /\ DTypeOK
      /\ held[c] \in 0..2 /\ fail_cnt[c] \in 0..3 /\ row[c] \in 0..2
      /\ lost[c] \in BOOLEAN /\ opened[c] \in BOOLEAN
  BY DEF MInv, DTypeOK, DoOpen, Turn
<1>2. afu_h[c] # "open" /\ (~lost[c] => held[c] = 0) /\ (opened[c] => fail_cnt[c] = row[c] /\ row[c] < 2)
  BY <1>1 DEF CardOK, HandleOK, FailuresCounted
<1>3. /\ UNCHANGED <<dev, qstat, act, max_ctx, version, todo, ctx, found, rc,
                     main, at, server, signalled, thread, freed, client, reads>>
  BY DEF DoOpen, mainVars, clientVars
<1>4. CASE OpenFails(c)
  <2>1. PICK n \in 0..2, l \in BOOLEAN :
           /\ held' = [held EXCEPT ![c] = n] /\ lost' = [lost EXCEPT ![c] = l] /\ (~l => n = 0)
    <3> DEFINE keeps == dev[c] # "missing" /\ ~Frees(dev[c])
               n == IF keeps THEN Capped(held[c] + 1) ELSE held[c]
               l == lost[c] \/ dev[c] = "foreign"
    <3>1. n \in 0..2 /\ l \in BOOLEAN
      BY <1>1 DEF Capped
    <3>2. keeps => dev[c] = "foreign"
      BY <1>4 DEF OpenFails, Frees, MInv, DTypeOK, Kinds
    <3>3. ~l => n = 0
      BY <1>2, <3>2
    <3>4. held' = [held EXCEPT ![c] = n] /\ lost' = [lost EXCEPT ![c] = l]
      BY <1>4 DEF OpenFails
    <3> HIDE DEF n, l
    <3>5. QED BY <3>1, <3>3, <3>4
  <2>2. OneMore(c) \in 0..3 /\ (opened[c] => OneMore(c) = Capped(row[c] + 1)) /\ Capped(row[c] + 1) \in 1..2
    BY <1>1, <1>2 DEF OneMore, Capped
  <2>3. PICK s \in States : /\ s = FailsFor(c, "DO_CARD_OPEN")
                            /\ state' = [state EXCEPT ![c] = s] /\ card_status' = [card_status EXCEPT ![c] = s]
    BY <1>4 DEF OpenFails, GoesTo, FailsFor, States
  <2>4. /\ afu_h' = [afu_h EXCEPT ![c] = "NULL"]
        /\ fail_cnt' = [fail_cnt EXCEPT ![c] = OneMore(c)]
        /\ row' = [row EXCEPT ![c] = Capped(row[c] + 1)] /\ opened' = opened
    BY <1>4 DEF OpenFails
  <2>5. DTypeOK'
    BY <1>1, <1>3, <2>1, <2>2, <2>3, <2>4 DEF DTypeOK
  <2>6. s \in {"DO_CARD_OPEN", "CARD_FAIL"} /\ (s = "CARD_FAIL" <=> OneMore(c) = 2)
    BY <2>3 DEF FailsFor
  <2>7. /\ held'[c] = n /\ lost'[c] = l /\ state'[c] = s /\ afu_h'[c] = "NULL"
        /\ fail_cnt'[c] = OneMore(c) /\ row'[c] = Capped(row[c] + 1) /\ opened'[c] = opened[c]
    BY <2>1, <2>3, <2>4 DEF MInv, DTypeOK
  <2>8. HandleOK(c)'
    BY <2>1, <2>6, <2>7 DEF HandleOK
  <2>9. FailuresCounted(c)'
    BY <2>2, <2>6, <2>7 DEF FailuresCounted
  <2>10. Collecting(c)' /\ Summary(c)'
    BY <1>1, <1>3, <2>6, <2>7 DEF CardOK, Collecting, Summary
  <2>11. QED BY <2>5, <2>8, <2>9, <2>10 DEF CardOK
<1>5. CASE OpenSucceeds(c)
  <2>1. /\ afu_h' = [afu_h EXCEPT ![c] = "open"] /\ held' = [held EXCEPT ![c] = Capped(held[c] + 1)]
        /\ fail_cnt' = [fail_cnt EXCEPT ![c] = 0] /\ row' = [row EXCEPT ![c] = 0]
        /\ opened' = [opened EXCEPT ![c] = TRUE] /\ lost' = lost
        /\ state' = [state EXCEPT ![c] = "COLLECT_STATIC_DATA"]
        /\ card_status' = [card_status EXCEPT ![c] = "COLLECT_STATIC_DATA"]
    BY <1>5 DEF OpenSucceeds, GoesTo, Cleared
  <2>2. Capped(held[c] + 1) \in 1..2 /\ (held[c] = 0 => Capped(held[c] + 1) = 1)
    BY <1>1 DEF Capped
  <2>3. DTypeOK'
    BY <1>1, <1>3, <2>1, <2>2 DEF DTypeOK, States
  <2>4. /\ afu_h'[c] = "open" /\ held'[c] = Capped(held[c] + 1) /\ fail_cnt'[c] = 0 /\ row'[c] = 0
        /\ opened'[c] /\ lost'[c] = lost[c] /\ state'[c] = "COLLECT_STATIC_DATA"
    BY <2>1 DEF MInv, DTypeOK
  <2>5. HandleOK(c)' /\ FailuresCounted(c)'
    BY <1>2, <2>2, <2>4 DEF HandleOK, FailuresCounted
  <2>6. Collecting(c)' /\ Summary(c)'
    BY <1>1, <1>3, <2>4 DEF CardOK, Collecting, Summary
  <2>7. QED BY <2>3, <2>5, <2>6 DEF CardOK
<1>6. QED BY <1>4, <1>5 DEF DoOpen

LEMMA CloseStep ==
  ASSUME MInv, NEW c \in Cards, DoClose(c)
  PROVE  DTypeOK' /\ CardOK(c)'
<1>1. state[c] = "DO_CARD_CLOSE" /\ todo[c] = None /\ CardOK(c) /\ DTypeOK /\ held[c] \in 0..2
  BY DEF MInv, DTypeOK, DoClose, Turn
<1>2. afu_h[c] = "open" /\ held[c] \in 1..2 /\ (~lost[c] => held[c] = 1) /\ row[c] = 0
  BY <1>1 DEF CardOK, HandleOK, FailuresCounted
<1>3. /\ afu_h' = [afu_h EXCEPT ![c] = "freed"] /\ held' = [held EXCEPT ![c] = held[c] - 1]
      /\ fail_cnt' = [fail_cnt EXCEPT ![c] = 0]
      /\ state' = [state EXCEPT ![c] = "CARD_CLOSED"]
      /\ card_status' = [card_status EXCEPT ![c] = "CARD_CLOSED"]
      /\ UNCHANGED <<dev, qstat, act, max_ctx, version, todo, ctx, found, rc, row, opened, lost,
                     main, at, server, signalled, thread, freed, client, reads>>
  BY <1>2 DEF DoClose, GoesTo, Cleared, historyVars, mainVars, clientVars
<1>4. DTypeOK'
  BY <1>1, <1>2, <1>3 DEF DTypeOK, States
<1>5. /\ afu_h'[c] = "freed" /\ held'[c] = held[c] - 1 /\ fail_cnt'[c] = 0
      /\ state'[c] = "CARD_CLOSED"
  BY <1>3 DEF MInv, DTypeOK
<1>6. HandleOK(c)' /\ FailuresCounted(c)'
  BY <1>2, <1>3, <1>5 DEF HandleOK, FailuresCounted
<1>7. Collecting(c)' /\ Summary(c)'
  BY <1>1, <1>3, <1>5 DEF CardOK, Collecting, Summary
<1>8. QED BY <1>4, <1>6, <1>7 DEF CardOK

\* The turns that only go from one state to the next.
LEMMA TurnStep ==
  ASSUME MInv, NEW c \in Cards, CollectStatic(c) \/ Closed(c)
  PROVE  DTypeOK' /\ CardOK(c)'
<1>1. PICK s \in States :
        /\ state[c] = "COLLECT_STATIC_DATA" => s \in {"COLLECT_TRANS_DATA", "DO_CARD_CLOSE"}
        /\ state[c] = "CARD_CLOSED" => s = "DO_CARD_OPEN"
        /\ state' = [state EXCEPT ![c] = s] /\ card_status' = [card_status EXCEPT ![c] = s]
  <2>1. CASE CollectStatic(c)
    BY <2>1 DEF CollectStatic, Turn, GoesTo, States
  <2>2. CASE Closed(c)
    BY <2>2 DEF Closed, Turn, GoesTo, States, AfterClosed
  <2>3. QED BY <2>1, <2>2
<1>2. /\ state[c] \in {"COLLECT_STATIC_DATA", "CARD_CLOSED"} /\ todo[c] = None
      /\ UNCHANGED <<dev, held, afu_h, fail_cnt, qstat, act, max_ctx, todo, ctx, found, rc,
                     row, opened, lost, main, at, server, signalled, thread, freed, client, reads>>
      /\ version' \in [Cards -> {"unset", "read", "dead"}]
  BY DEF CollectStatic, Closed, Turn, historyVars, mainVars, clientVars, MInv, DTypeOK
<1>3. DTypeOK'
  BY <1>1, <1>2 DEF MInv, DTypeOK
<1>4. state'[c] = s /\ CardOK(c)
  BY <1>1 DEF MInv, DTypeOK
<1>5. HandleOK(c)' /\ FailuresCounted(c)'
  BY <1>1, <1>2, <1>4 DEF CardOK, HandleOK, FailuresCounted
<1>6. Collecting(c)' /\ Summary(c)'
  BY <1>1, <1>2, <1>4 DEF CardOK, Collecting, Summary
<1>7. QED BY <1>3, <1>5, <1>6 DEF CardOK

-----------------------------------------------------------------------------
(* The collection of the contexts                                          *)

LEMMA BeginStep ==
  ASSUME MInv, NEW c \in Cards, CollectBegin(c)
  PROVE  DTypeOK' /\ CardOK(c)'
<1>1. PICK a \in SUBSET Ctxs : todo' = [todo EXCEPT ![c] = a]
  BY DEF CollectBegin
<1>2. /\ qstat' = [qstat EXCEPT ![c] = [x \in Ctxs |-> "N"]]
      /\ UNCHANGED <<dev, held, afu_h, state, fail_cnt, card_status, act, max_ctx, version, ctx, found, rc,
                     row, opened, lost, main, at, server, signalled, thread, freed, client, reads>>
      /\ state[c] = "COLLECT_TRANS_DATA" /\ todo[c] = None
  BY DEF CollectBegin, Turn, historyVars, mainVars, clientVars
<1>3. DTypeOK'
  BY <1>1, <1>2 DEF MInv, DTypeOK, Flags
<1>4. qstat'[c] = [x \in Ctxs |-> "N"] /\ todo'[c] = a /\ a # None
  BY <1>1, <1>2, FiniteAssumption DEF MInv, DTypeOK
<1>5. InUse(c)' = {}
  BY <1>4 DEF InUse
<1>6. CardOK(c) BY DEF MInv
<1>7. Collecting(c)' /\ Summary(c)'
  BY <1>2, <1>4, <1>5, <1>6, FS_EmptySet DEF CardOK, Collecting, Summary
<1>8. HandleOK(c)' /\ FailuresCounted(c)'
  BY <1>2, <1>6 DEF CardOK, HandleOK, FailuresCounted
<1>9. QED BY <1>3, <1>7, <1>8 DEF CardOK

LEMMA CtxStep ==
  ASSUME MInv, NEW c \in Cards, CollectCtx(c)
  PROVE  DTypeOK' /\ CardOK(c)'
<1>1. todo[c] \in SUBSET Ctxs /\ todo[c] # {} /\ todo[c] # None
  BY DEF CollectCtx, MInv, DTypeOK
<1>2. PICK m \in todo[c] : m = Min(todo[c]) /\ \A y \in todo[c] : m <= y
  BY <1>1, MinOfSet
<1>3. PICK flag \in Flags \ {"N"}, r \in {0, -1} :
        /\ qstat' = [qstat EXCEPT ![c] = [qstat[c] EXCEPT ![m] = flag]]
        /\ rc' = [rc EXCEPT ![c] = r]
  BY <1>2, ShowsAssumption DEF CollectCtx, Flags, ReadRc
<1>4. /\ ctx' = [ctx EXCEPT ![c] = m] /\ todo' = [todo EXCEPT ![c] = todo[c] \ {m}]
      /\ found' = [found EXCEPT ![c] = found[c] + 1]
      /\ UNCHANGED <<dev, held, afu_h, state, fail_cnt, card_status, act, max_ctx, version,
                     row, opened, lost, main, at, server, signalled, thread, freed, client, reads>>
  BY <1>2 DEF CollectCtx, Counts, historyVars, mainVars, clientVars
<1>5. CardOK(c) /\ m \in Ctxs /\ Ctxs \subseteq Int
  BY <1>1, Constants DEF MInv
<1>6. /\ qstat'[c] = [qstat[c] EXCEPT ![m] = flag] /\ ctx'[c] = m
      /\ todo'[c] = todo[c] \ {m} /\ found'[c] = found[c] + 1
  BY <1>3, <1>4 DEF MInv, DTypeOK
<1>7. /\ state[c] = "COLLECT_TRANS_DATA" /\ found[c] = Cardinality(InUse(c))
      /\ \A x \in InUse(c) : x <= ctx[c] /\ \A y \in todo[c] : x < y
  BY <1>1, <1>5 DEF CardOK, Collecting
<1>8. InUse(c)' = InUse(c) \cup {m} /\ m \notin InUse(c)
  <2>1. m \notin InUse(c)
    BY <1>5, <1>7
  <2>2. \A x \in Ctxs : qstat'[c][x] = IF x = m THEN flag ELSE qstat[c][x]
    BY <1>5, <1>6 DEF MInv, DTypeOK
  <2>3. QED BY <1>5, <2>1, <2>2 DEF InUse
<1>9. IsFiniteSet(InUse(c)) /\ InUse(c)' \subseteq Ctxs
  BY InUseFinite DEF MInv, InUse
<1>10. found'[c] = Cardinality(InUse(c)') /\ found[c] + 1 \in 0..Cardinality(Ctxs)
  <2>1. Cardinality(InUse(c)') = Cardinality(InUse(c)) + 1
    BY <1>8, <1>9, FS_AddElement
  <2>2. Cardinality(InUse(c)') <= Cardinality(Ctxs)
    BY <1>9, FiniteAssumption, FS_Subset
  <2>3. Cardinality(InUse(c)) \in Nat
    BY <1>9, FS_CardinalityType
  <2>4. QED BY <1>6, <1>7, <2>1, <2>2, <2>3, Constants
<1>11. DTypeOK'
  <2>1. qstat' \in [Cards -> [Ctxs -> Flags]] /\ rc' \in [Cards -> {0, -1}]
    BY <1>3, <1>5 DEF MInv, DTypeOK
  <2>2. ctx' \in [Cards -> Ctxs] /\ todo' \in [Cards -> (SUBSET Ctxs) \cup {None}]
        /\ found' \in [Cards -> 0..Cardinality(Ctxs)]
    BY <1>1, <1>4, <1>5, <1>10 DEF MInv, DTypeOK
  <2>3. QED BY <1>4, <2>1, <2>2 DEF MInv, DTypeOK
<1>12. \A x \in InUse(c)' : x <= ctx'[c] /\ \A y \in todo'[c] : x < y
  <2>1. \A y \in todo'[c] : m < y /\ y \in todo[c]
    BY <1>1, <1>2, <1>5, <1>6
  <2>2. \A x \in InUse(c) : x < m /\ x \in Ctxs
    BY <1>7 DEF InUse
  <2>3. m \in Int /\ ctx'[c] = m /\ Ctxs \subseteq Int /\ todo[c] \subseteq Ctxs
    BY <1>1, <1>5, <1>6
  <2>4. \A x \in InUse(c)' : x = m \/ (x \in InUse(c) /\ x \in Int /\ x < m)
    BY <1>8, <2>2, <2>3
  <2>5. \A y \in todo'[c] : y \in Int /\ m < y
    BY <2>1, <2>3
  <2>6. QED BY <2>3, <2>4, <2>5
<1>13. todo'[c] # None
  BY <1>1, <1>6, FiniteAssumption
<1>14. Collecting(c)' /\ Summary(c)'
  BY <1>4, <1>7, <1>10, <1>12, <1>13 DEF Collecting, Summary
<1>15. HandleOK(c)' /\ FailuresCounted(c)'
  BY <1>4, <1>5 DEF CardOK, HandleOK, FailuresCounted
<1>16. QED BY <1>11, <1>14, <1>15 DEF CardOK

LEMMA EndStep ==
  ASSUME MInv, NEW c \in Cards, CollectEnd(c)
  PROVE  DTypeOK' /\ CardOK(c)'
<1>1. PICK s \in {"COLLECT_TRANS_DATA", "DO_CARD_CLOSE"} :
        state' = [state EXCEPT ![c] = s] /\ card_status' = [card_status EXCEPT ![c] = s]
  BY DEF CollectEnd, GoesTo
<1>2. /\ todo' = [todo EXCEPT ![c] = None]
      /\ max_ctx' = [max_ctx EXCEPT ![c] = ctx[c] + 1] /\ act' = [act EXCEPT ![c] = found[c]]
      /\ ctx' = [ctx EXCEPT ![c] = 0] /\ found' = [found EXCEPT ![c] = 0] /\ rc' = [rc EXCEPT ![c] = 0]
      /\ UNCHANGED <<dev, held, afu_h, fail_cnt, qstat, version,
                     row, opened, lost, main, at, server, signalled, thread, freed, client, reads>>
      /\ todo[c] = {} /\ todo[c] # None
  BY FiniteAssumption DEF CollectEnd, LatestCtx, historyVars, mainVars, clientVars
<1>3. DTypeOK'
  <2>1. ctx[c] \in Ctxs /\ found[c] \in 0..Cardinality(Ctxs)
    BY DEF MInv, DTypeOK
  <2>2. 0 \in Ctxs /\ ctx[c] + 1 \in 0..Cardinality(Ctxs) /\ 0 \in 0..Cardinality(Ctxs)
    BY <2>1, Constants
  <2>3. /\ ctx' \in [Cards -> Ctxs] /\ found' \in [Cards -> 0..Cardinality(Ctxs)]
        /\ max_ctx' \in [Cards -> (0..Cardinality(Ctxs)) \cup HeapMaxCtx] /\ act' \in [Cards -> 0..Cardinality(Ctxs)]
    BY <1>2, <2>1, <2>2 DEF MInv, DTypeOK
  <2>4. QED BY <1>1, <1>2, <2>3 DEF MInv, DTypeOK, States
<1>4. /\ state'[c] = s /\ todo'[c] = None /\ max_ctx'[c] = ctx[c] + 1 /\ act'[c] = found[c]
      /\ ctx'[c] = 0 /\ found'[c] = 0 /\ rc'[c] = 0
  BY <1>1, <1>2 DEF MInv, DTypeOK
<1>5. /\ state[c] = "COLLECT_TRANS_DATA" /\ found[c] = Cardinality(InUse(c))
      /\ \A x \in InUse(c) : x <= ctx[c]
  BY <1>2 DEF MInv, CardOK, Collecting
<1>6. {x \in Ctxs : x < max_ctx'[c] /\ qstat'[c][x] # "N"} = InUse(c)
  <2>1. ctx[c] \in Ctxs
    BY DEF MInv, DTypeOK
  <2>2. ctx[c] \in Int /\ Ctxs \subseteq Int
    BY <2>1, Constants
  <2>3. \A x \in InUse(c) : x < ctx[c] + 1
    BY <1>5, <2>2 DEF InUse
  <2>4. QED BY <1>2, <1>4, <2>3 DEF InUse
<1>7. Collecting(c)' /\ Summary(c)'
  BY <1>4, <1>5, <1>6 DEF Collecting, Summary
<1>8. HandleOK(c)' /\ FailuresCounted(c)'
  BY <1>2, <1>4, <1>5 DEF MInv, CardOK, HandleOK, FailuresCounted
<1>9. QED BY <1>3, <1>7, <1>8 DEF CardOK

\* The thread ends, by itself or because main asked for it.
LEMMA GoneStep ==
  ASSUME MInv, NEW c \in Cards, Fail(c) \/ Cancelled(c)
  PROVE  DTypeOK' /\ CardOK(c)'
<1>1. CASE Fail(c)
  <2>1. /\ qstat' = [qstat EXCEPT ![c] = [x \in Ctxs |-> "E"]]
        /\ state' = [state EXCEPT ![c] = "CARD_FAIL"]
        /\ card_status' = [card_status EXCEPT ![c] = "CARD_FAIL"]
        /\ thread' = [thread EXCEPT ![c] = "gone"]
        /\ UNCHANGED <<dev, held, afu_h, fail_cnt, act, max_ctx, version, todo, ctx, found, rc,
                       row, opened, lost, main, at, server, signalled, freed, client, reads>>
        /\ state[c] = "CARD_FAIL" /\ todo[c] = None
    BY <1>1 DEF Fail, GoesTo, Turn, historyVars, clientVars
  <2>2. DTypeOK'
    BY <2>1 DEF MInv, DTypeOK, States, Flags
  <2>3. state'[c] = "CARD_FAIL" /\ CardOK(c)
    BY <2>1 DEF MInv, DTypeOK
  <2>4. HandleOK(c)' /\ FailuresCounted(c)' /\ Collecting(c)' /\ Summary(c)'
    BY <2>1, <2>3 DEF CardOK, HandleOK, FailuresCounted, Collecting, Summary
  <2>5. QED BY <2>2, <2>4 DEF CardOK
<1>2. CASE Cancelled(c)
  <2>1. /\ thread' = [thread EXCEPT ![c] = "gone"]
        /\ UNCHANGED <<dev, held, cdVars, row, opened, lost, main, at, server, signalled, freed,
                       client, reads>>
    BY <1>2 DEF Cancelled, historyVars, clientVars
  <2>2. DTypeOK' /\ CardKept(c)
    BY <2>1 DEF cdVars, MInv, DTypeOK, CardKept
  <2>3. QED BY <2>2, KeptOK DEF MInv
<1>3. QED BY <1>1, <1>2

LEMMA CardStep ==
  ASSUME MInv, NEW c \in Cards, CardSteps(c)
  PROVE  MInv'
<1>1. DTypeOK' /\ CardOK(c)'
  BY OpenStep, TurnStep, BeginStep, CtxStep, EndStep, CloseStep, GoneStep DEF CardSteps, CardThread
<1>2. \A d \in Cards \ {c} : CardOK(d)'
  BY CardFrame, KeptOK DEF MInv
<1>3. /\ UNCHANGED <<main, at, server, signalled, freed>>
      /\ \A d \in Cards : thread[d] = "gone" => thread'[d] = "gone"
  BY CardFrame DEF MInv, DTypeOK
<1>4. Stopped' /\ EndsForAReason'
  BY <1>3 DEF MInv, Stopped, EndsForAReason
<1>5. QED BY <1>1, <1>2, <1>4 DEF MInv

-----------------------------------------------------------------------------
(* main, the server and the clients                                        *)

LEMMA MainStep ==
  ASSUME MInv,
         \/ \E c \in Cards : DeviceChanges(c)
         \/ Create \/ Listen \/ StopServing \/ Exits
         \/ \E k \in Clients : Accept(k) \/ ReadCard(k) \/ Send(k)
  PROVE  MInv'
<1>1. UNCHANGED <<held, cdVars, historyVars>>
  BY DEF DeviceChanges, Create, Listen, StopServing, Exits, Cancel, Join, Free, Accept, ReadCard, Send
<1>2. \A c \in Cards : CardOK(c)'
  BY <1>1, KeptOK DEF CardKept, cdVars, historyVars, MInv
<1>3. \A c \in Cards : c # Last => c + 1 \in Cards
  BY Constants
<1>4. 0 \in Cards /\ Cards \subseteq Int /\ (\A c \in Cards : c <= Last)
  BY Constants
<1> USE DEF MInv, DTypeOK, cdVars, historyVars, mainVars, clientVars, Stopped, EndsForAReason
<1>5. ASSUME NEW c \in Cards, DeviceChanges(c) PROVE MInv'
  <2>1. dev' \in [Cards -> Kinds]
    <3>1. Devices[c] \subseteq Kinds
      BY DevicesAssumption
    <3>2. QED BY <1>5, <3>1 DEF DeviceChanges
  <2>2. QED BY <1>2, <1>5, <2>1 DEF DeviceChanges
<1>6. CASE Create
  BY <1>1, <1>2, <1>3, <1>4, <1>6 DEF Create
<1>7. CASE Listen \/ StopServing
  <2>1. CASE Listen
    BY <1>1, <1>2, <2>1 DEF Listen
  <2>2. CASE StopServing
    <3>1. \A c \in Cards : ~(c < 0)
      BY <1>4, Constants
    <3>2. QED BY <1>1, <1>2, <1>4, <2>2, <3>1 DEF StopServing
  <2>3. QED BY <1>7, <2>1, <2>2
<1>8. CASE Cancel
  <2>1. at \in Cards /\ thread' \in [Cards -> {"none", "running", "cancelled", "gone"}]
        /\ \A c \in Cards : thread[c] = "gone" => thread'[c] = "gone"
    BY <1>8 DEF Cancel, Asked
  <2>2. QED BY <1>1, <1>2, <1>8, <2>1 DEF Cancel
<1>9. CASE Join
  <2>1. \A c \in Cards : c < at + 1 => thread[c] = "gone"
    BY <1>4, <1>9 DEF Join, Joined
  <2>2. QED BY <1>1, <1>2, <1>3, <1>4, <1>9, <2>1 DEF Join
<1>10. CASE Free
  BY <1>1, <1>2, <1>3, <1>4, <1>10 DEF Free
<1>11. ASSUME NEW k \in Clients, Accept(k) PROVE MInv'
  BY <1>1, <1>2, <1>11 DEF Accept
<1>12. ASSUME NEW k \in Clients, ReadCard(k) PROVE MInv'
  BY <1>1, <1>2, <1>3, <1>12 DEF ReadCard
<1>13. ASSUME NEW k \in Clients, Send(k) PROVE MInv'
  BY <1>1, <1>2, <1>4, <1>13 DEF Send, AfterSend
<1>14. QED BY <1>5, <1>6, <1>7, <1>8, <1>9, <1>10, <1>11, <1>12, <1>13 DEF Exits

-----------------------------------------------------------------------------
(* The theorems                                                            *)

LEMMA NextMInv == MInv /\ [DNext]_dvars => MInv'
<1> SUFFICES ASSUME MInv, [DNext]_dvars PROVE MInv'
  OBVIOUS
<1>1. ASSUME DNext PROVE MInv'
  BY <1>1, CardStep, MainStep DEF DNext
<1>2. CASE UNCHANGED dvars
  <2>1. UNCHANGED <<held, cdVars, historyVars>>
    BY <1>2 DEF dvars
  <2>2. \A c \in Cards : CardOK(c)'
    BY <2>1, KeptOK DEF CardKept, cdVars, historyVars, MInv
  <2>3. DTypeOK' /\ Stopped' /\ EndsForAReason'
    BY <1>2 DEF dvars, cdVars, historyVars, mainVars, clientVars, MInv, DTypeOK, Stopped, EndsForAReason
  <2>4. QED BY <2>2, <2>3 DEF MInv
<1>3. QED BY <1>1, <1>2

\* The invariant holds in every reachable state.
THEOREM DaemonInvariant == DSpec => []MInv
BY InitMInv, NextMInv, PTL DEF DSpec

\* tools/agzipd.c: registers are read and AFUs closed only while the handle is open, the process
\* has no handle of a closed card (unless card_open lost one before the attach), and the data of
\* a card is freed after its thread ended, whatever the cards, signals and clients do.
THEOREM DaemonKeepsResources == DSpec => []ResourcesSafe
<1>1. MInv => AfuOpen /\ HandlesAccounted /\ FreedAfterThread
  BY DEF MInv, CardOK, HandleOK, Stopped, AfuOpen, HandlesAccounted, FreedAfterThread, DTypeOK
<1>2. QED BY <1>1, DaemonInvariant, PTL DEF ResourcesSafe, MInv

\* tools/agzipd.c: a card is given up after two failures in a row only, the number of attached
\* contexts that clients are told is that of the list, and the daemon ends for a reason.
THEOREM DaemonReportsTrue == DSpec => []ReportsTrue
<1>1. MInv => GivesUpAfterTwo /\ SummaryAgrees
  BY DEF MInv, CardOK, FailuresCounted, Summary, GivesUpAfterTwo, SummaryAgrees
<1>2. MInv => ReportsTrue
  BY <1>1 DEF MInv, ReportsTrue
<1>3. QED BY <1>2, DaemonInvariant, PTL
=============================================================================
