--------------------------- MODULE ExclusiveQueue ---------------------------
(***************************************************************************)
(* What the operation gate of a client promises: the operations handed to  *)
(* it run one at a time, in the order in which they were handed over, and  *)
(* an operation that fails gives the turn on just as one that succeeds.    *)
(*                                                                         *)
(* FifoGate shows that the promise chain of client/fifo-gate.ts implements *)
(* this module; ModbusClient uses it as the gate of the Modbus client.     *)
(***************************************************************************)
EXTENDS Sequences, SequencesExt

CONSTANTS
  Callers,   \* those who may hand an operation to the gate
  NoCaller   \* the value of running when no operation runs

VARIABLES
  waiting,   \* callers whose operation has not started, oldest first
  running    \* the caller whose operation has the turn

vars == <<waiting, running>>

TypeOK ==
  /\ waiting \in Seq(Callers)
  /\ running \in Callers \cup {NoCaller}

Init ==
  /\ waiting = << >>
  /\ running = NoCaller

\* A caller has at most one operation at the gate.
Idle(c) == c # running /\ ~ Contains(waiting, c)

Arrive(c) ==
  /\ Idle(c)
  /\ waiting' = Append(waiting, c)
  /\ UNCHANGED running

Start ==
  /\ running = NoCaller
  /\ waiting # << >>
  /\ running' = Head(waiting)
  /\ waiting' = Tail(waiting)

Settle ==
  /\ running # NoCaller
  /\ running' = NoCaller
  /\ UNCHANGED waiting

Next == (\E c \in Callers : Arrive(c)) \/ Start \/ Settle

Spec == Init /\ [][Next]_vars /\ WF_vars(Start) /\ WF_vars(Settle)
=============================================================================
