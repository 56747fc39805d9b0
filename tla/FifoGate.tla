------------------------------ MODULE FifoGate ------------------------------
(***************************************************************************)
(* The promise chain of FifoGate (client/fifo-gate.ts).  runExclusive      *)
(* remembers the promise at the tail of the chain as its predecessor, puts *)
(* a pending promise of its own there, awaits the predecessor, runs the    *)
(* operation and resolves its own promise in a finally block.              *)
(*                                                                         *)
(* Calls are numbered in the order in which they are made; call n creates  *)
(* promise n, and promise 0 is the resolved promise that the tail starts   *)
(* with.  Nothing but the chain orders the calls: a step may be taken by   *)
(* any call whose predecessor happens to be resolved.                      *)
(***************************************************************************)
EXTENDS Naturals, Sequences

CONSTANT MaxCalls   \* bound on the calls of one behaviour

ASSUME MaxCallsAssumption == MaxCalls \in Nat

Calls == 1..MaxCalls
Promises == 0..MaxCalls

VARIABLES
  tail,          \* #tail: the promise created last
  predecessor,   \* predecessor[n]: the promise that call n awaits
  resolved,      \* resolved[p]: promise p has been resolved
  phase          \* phase[n]: how far call n has come

vars == <<tail, predecessor, resolved, phase>>

Settled == {"fulfilled", "rejected"}
Phases == {"absent", "awaiting", "running"} \cup Settled

TypeOK ==
  /\ tail \in Promises
  /\ predecessor \in [Calls -> Promises]
  /\ resolved \in [Promises -> BOOLEAN]
  /\ phase \in [Calls -> Phases]

Init ==
  /\ tail = 0
  /\ predecessor = [n \in Calls |-> 0]
  /\ resolved = [p \in Promises |-> p = 0]
  /\ phase = [n \in Calls |-> "absent"]

\* Faulty variant: the call leaves no promise of its own at the tail.
RunExclusiveUnchained(n) ==
  /\ phase[n] = "absent"
  /\ \A m \in 1..(n - 1) : phase[m] # "absent"
  /\ predecessor' = [predecessor EXCEPT ![n] = tail]
  /\ phase' = [phase EXCEPT ![n] = "awaiting"]
  /\ UNCHANGED <<tail, resolved>>

\* runExclusive up to its await: executed synchronously by the caller.
RunExclusive(n) ==
  /\ phase[n] = "absent"
  /\ n = tail + 1
  /\ predecessor' = [predecessor EXCEPT ![n] = tail]
  /\ tail' = n
  /\ phase' = [phase EXCEPT ![n] = "awaiting"]
  /\ UNCHANGED resolved

\* The await of the predecessor returns and the operation begins.
Begin(n) ==
  /\ phase[n] = "awaiting"
  /\ resolved[predecessor[n]]
  /\ phase' = [phase EXCEPT ![n] = "running"]
  /\ UNCHANGED <<tail, predecessor, resolved>>

\* Faulty variant: the release is not in a finally block.
ReleaseOnSuccess(n, result) ==
  /\ phase[n] = "running"
  /\ phase' = [phase EXCEPT ![n] = result]
  /\ resolved' = [resolved EXCEPT ![n] = (result = "fulfilled")]
  /\ UNCHANGED <<tail, predecessor>>

\* The operation returns or throws; the finally block releases the successor.
Release(n, result) ==
  /\ phase[n] = "running"
  /\ phase' = [phase EXCEPT ![n] = result]
  /\ resolved' = [resolved EXCEPT ![n] = TRUE]
  /\ UNCHANGED <<tail, predecessor>>

Step(n) == Begin(n) \/ \E result \in Settled : Release(n, result)

Next == \E n \in Calls : RunExclusive(n) \/ Step(n)

\* The runtime resumes a continuation whose promise is resolved, and every
\* operation handed to the gate settles.
Fairness == \A n \in Calls : WF_vars(Step(n))

Spec == Init /\ [][Next]_vars /\ Fairness

-----------------------------------------------------------------------------
(* Properties *)

\* A call runs only after every earlier call has settled, so two operations
\* never overlap and none overtakes another: the chain alone gives mutual
\* exclusion in call order (fifo-gate.ts:5-17).
RunsAfterAllEarlier ==
  \A m, n \in Calls : m < n /\ phase[n] \notin {"absent", "awaiting"} => phase[m] \in Settled

\* The gate implements ExclusiveQueue: the calls still awaiting are the queue,
\* in call order, and the call in the try block has the turn, which an operation
\* that is rejected gives up like one that is fulfilled (the finally of
\* fifo-gate.ts:14-16).
Started == {n \in Calls : phase[n] \notin {"absent", "awaiting"}}
FirstAwaiting == CHOOSE k \in 1..(tail + 1) : k \notin Started /\ 1..(k - 1) \subseteq Started
Waiting == [i \in 1..(tail + 1 - FirstAwaiting) |-> FirstAwaiting - 1 + i]
Running ==
  IF \E n \in Calls : phase[n] = "running" THEN CHOOSE n \in Calls : phase[n] = "running" ELSE 0

Queue == INSTANCE ExclusiveQueue
           WITH Callers <- Calls, NoCaller <- 0, waiting <- Waiting, running <- Running
QueueSafety == Queue!Init /\ [][Queue!Next]_(Queue!vars)
ImplementsQueue == Queue!Spec
=============================================================================
