----------------------------- MODULE DdcbService -----------------------------
(***************************************************************************)
(* What the DDCB queue promises to the threads that call accel_ddcb_execute*)
(* (include/libddcb.h): one bounded first-in first-out queue of commands.  *)
(* A call puts the commands of its chain into the queue one after the      *)
(* other, is blocked until the last one was completed, and returns the     *)
(* code of the last one.  There is no ring, no semaphore, no done thread   *)
(* and no AFU here: a command at the head of the queue may complete at any *)
(* time, with any code.                                                    *)
(***************************************************************************)
EXTENDS Naturals, Sequences

CONSTANTS
  Threads,    \* the callers
  Capacity,   \* how many commands may be in the queue
  MaxChain,   \* bound: longest chain of one call
  Codes       \* completion codes

VARIABLES
  queue,      \* the commands in progress: [ttx, last]
  todo,       \* per thread: commands of its call that are not in the queue yet
  state,      \* "idle", "busy" or "done" (all commands were completed)
  code        \* per thread: the code of the command of its call completed last

vars == <<queue, todo, state, code>>

Init ==
  /\ queue = <<>>
  /\ todo = [t \in Threads |-> 0]
  /\ state = [t \in Threads |-> "idle"]
  /\ code = [t \in Threads |-> "OK"]

Call(t, n) ==
  /\ state[t] = "idle"
  /\ state' = [state EXCEPT ![t] = "busy"]
  /\ todo' = [todo EXCEPT ![t] = n]
  /\ UNCHANGED <<queue, code>>

Submit(t) ==
  /\ todo[t] > 0
  /\ Len(queue) < Capacity
  /\ queue' = Append(queue, [ttx |-> t, last |-> todo[t] = 1])
  /\ todo' = [todo EXCEPT ![t] = @ - 1]
  /\ UNCHANGED <<state, code>>

Complete(c) ==
  /\ queue # <<>>
  /\ LET cmd == Head(queue) IN
       /\ code' = [code EXCEPT ![cmd.ttx] = c]
       /\ state' = [state EXCEPT ![cmd.ttx] = IF cmd.last THEN "done" ELSE @]
  /\ queue' = Tail(queue)
  /\ UNCHANGED todo

Return(t) ==
  /\ state[t] = "done"
  /\ state' = [state EXCEPT ![t] = "idle"]
  /\ code' = [code EXCEPT ![t] = "OK"]
  /\ UNCHANGED <<queue, todo>>

Next ==
  \/ \E t \in Threads : (\E n \in 1..MaxChain : Call(t, n)) \/ Submit(t) \/ Return(t)
  \/ \E c \in Codes : Complete(c)

Spec == Init /\ [][Next]_vars
=============================================================================
