------------------------ MODULE GateAndAdapterProofs ------------------------
(***************************************************************************)
(* Proofs about the two parts that the Modbus client is built on: the gate *)
(* at which its operations take turns, for every number of calls, and the  *)
(* adapter that sends its requests, for any callers and requests.          *)
(*                                                                         *)
(* The invariant of the gate says how the chain hangs together: call n     *)
(* awaits promise n - 1, a promise is resolved exactly when its call has   *)
(* settled, and the calls that have started are an initial segment of the  *)
(* calls made.  That of the adapter adds that one call at most is under    *)
(* way and that the timeout is the configured one whenever none is.        *)
(***************************************************************************)
EXTENDS FifoGate, TransportAdapter, TLAPS

\* Calls are made in order, and each awaits the promise of the one before it.
Chain ==
  \A n \in Calls :
    /\ phase[n] # "absent" <=> n <= tail
    /\ phase[n] # "absent" => predecessor[n] = n - 1

\* A promise is resolved by its own call, in the finally block, and only there.
ResolvedBySettling ==
  \A p \in Promises : resolved[p] <=> (p = 0 \/ (p \in Calls /\ phase[p] \in Settled))

\* The started calls are an initial segment of the calls made.
StartedPrefix == \E k \in 1..(tail + 1) : Started = 1..(k - 1)

IInv ==
  /\ TypeOK
  /\ Chain
  /\ ResolvedBySettling
  /\ RunsAfterAllEarlier
  /\ StartedPrefix

-----------------------------------------------------------------------------
LEMMA InitIInv == Init => IInv
<1> SUFFICES ASSUME Init PROVE IInv
  OBVIOUS
<1> USE MaxCallsAssumption DEF Init
<1>1. TypeOK
  BY DEF TypeOK, Calls, Promises, Phases, Settled
<1>2. Chain /\ RunsAfterAllEarlier
  BY DEF Chain, RunsAfterAllEarlier, Calls
<1>3. ResolvedBySettling
  BY DEF ResolvedBySettling, Calls, Promises, Settled
<1>4. StartedPrefix
  <2>1. Started = 1..(1 - 1)
    BY DEF Started, Calls
  <2>2. 1 \in 1..(tail + 1)
    OBVIOUS
  <2>. QED
    BY <2>1, <2>2 DEF StartedPrefix
<1>. QED
  BY <1>1, <1>2, <1>3, <1>4 DEF IInv

\* Making a call starts and settles nothing.
LEMMA RunExclusiveIInv ==
  ASSUME IInv, NEW n \in Calls, RunExclusive(n)
  PROVE  IInv'
<1> USE MaxCallsAssumption DEF RunExclusive
<1>0. /\ TypeOK /\ Chain /\ ResolvedBySettling /\ RunsAfterAllEarlier /\ StartedPrefix
      /\ n \in Nat /\ tail \in Nat
  BY DEF IInv, TypeOK, Calls, Promises
<1>1. TypeOK'
  BY <1>0 DEF TypeOK, Calls, Promises, Phases
<1>2. Chain'
  BY <1>0 DEF TypeOK, Chain, Calls, Promises
<1>3. ResolvedBySettling'
  BY <1>0 DEF TypeOK, ResolvedBySettling, Settled
<1>4. RunsAfterAllEarlier'
  BY <1>0 DEF TypeOK, RunsAfterAllEarlier, Settled
<1>5. Started' = Started
  BY <1>0 DEF TypeOK, Started
<1>6. StartedPrefix'
  BY <1>0, <1>5 DEF StartedPrefix
<1>. QED
  BY <1>1, <1>2, <1>3, <1>4, <1>6 DEF IInv

\* A call whose await returns is the first that has not started: all calls
\* before it have settled.
LEMMA BeginIsFirst ==
  ASSUME IInv, NEW n \in Calls, Begin(n)
  PROVE  /\ \A m \in Calls : m < n => phase[m] \in Settled
         /\ Started = 1..(n - 1)
         /\ n <= tail
<1> USE MaxCallsAssumption DEF Begin
<1>0. /\ TypeOK /\ Chain /\ ResolvedBySettling /\ RunsAfterAllEarlier /\ StartedPrefix
      /\ n \in Nat /\ tail \in Nat /\ n <= MaxCalls
  BY DEF IInv, TypeOK, Calls, Promises
<1>1. predecessor[n] = n - 1 /\ n <= tail
  BY <1>0 DEF Chain
<1>2. \A m \in Calls : m < n => phase[m] \in Settled
  <2> SUFFICES ASSUME NEW m \in Calls, m < n PROVE phase[m] \in Settled
    OBVIOUS
  <2>1. n - 1 \in Calls /\ n - 1 \in Promises
    BY <1>0 DEF Calls, Promises
  <2>2. phase[n - 1] \in Settled
    BY <1>0, <1>1, <2>1 DEF ResolvedBySettling, Calls
  <2>3. CASE m = n - 1
    BY <2>2, <2>3
  <2>4. CASE m < n - 1
    BY <1>0, <2>1, <2>2, <2>4 DEF RunsAfterAllEarlier, Settled
  <2>. QED
    BY <2>3, <2>4 DEF Calls
<1>3. PICK k \in 1..(tail + 1) : Started = 1..(k - 1)
  BY <1>0 DEF StartedPrefix
<1>4. n \notin Started /\ \A m \in 1..(n - 1) : m \in Started
  BY <1>0, <1>2 DEF Started, Settled, Calls
<1>5. k = n
  <2>1. n \notin 1..(k - 1) /\ n >= 1
    BY <1>0, <1>3, <1>4 DEF Calls
  <2>2. k > n - 1
    <3> SUFFICES ASSUME k <= n - 1 PROVE FALSE
      BY <1>0
    <3>1. k \in 1..(n - 1)
      BY <1>0
    <3>2. k \in 1..(k - 1)
      BY <1>3, <1>4, <3>1
    <3>. QED
      BY <3>2
  <2>. QED
    BY <1>0, <2>1, <2>2
<1>. QED
  BY <1>1, <1>2, <1>3, <1>5

LEMMA BeginIInv ==
  ASSUME IInv, NEW n \in Calls, Begin(n)
  PROVE  IInv' /\ Started' = 1..n
<1> USE MaxCallsAssumption
<1>0. /\ TypeOK /\ Chain /\ ResolvedBySettling /\ RunsAfterAllEarlier
      /\ n \in Nat /\ tail \in Nat
  BY DEF IInv, TypeOK, Calls, Promises
<1>a. /\ phase' = [phase EXCEPT ![n] = "running"]
      /\ UNCHANGED <<tail, predecessor, resolved>>
      /\ phase[n] = "awaiting"
  BY DEF Begin
<1>b. /\ \A m \in Calls : m < n => phase[m] \in Settled
      /\ Started = 1..(n - 1)
      /\ n <= tail
  BY BeginIsFirst
<1>1. TypeOK'
  BY <1>0, <1>a DEF TypeOK, Phases
<1>2. Chain'
  BY <1>0, <1>a DEF TypeOK, Chain
<1>3. ResolvedBySettling'
  BY <1>0, <1>a DEF TypeOK, ResolvedBySettling, Settled
<1>4. RunsAfterAllEarlier'
  BY <1>0, <1>a, <1>b DEF TypeOK, RunsAfterAllEarlier, Settled
<1>5. Started' = 1..n
  <2>1. Started' = Started \cup {n}
    BY <1>0, <1>a DEF TypeOK, Started
  <2>2. 1..n = 1..(n - 1) \cup {n}
    <3>1. n >= 1
      BY DEF Calls
    <3>. QED
      BY <1>0, <3>1
  <2>. QED
    BY <1>b, <2>1, <2>2
<1>6. StartedPrefix'
  <2>1. n + 1 \in 1..(tail' + 1) /\ (n + 1) - 1 = n
    BY <1>0, <1>a, <1>b DEF Calls
  <2>. QED
    BY <1>5, <2>1 DEF StartedPrefix
<1>. QED
  BY <1>1, <1>2, <1>3, <1>4, <1>5, <1>6 DEF IInv

LEMMA ReleaseIInv ==
  ASSUME IInv, NEW n \in Calls, NEW ending \in Settled, Release(n, ending)
  PROVE  IInv' /\ Started' = Started
<1> USE MaxCallsAssumption DEF Release
<1>0. /\ TypeOK /\ Chain /\ ResolvedBySettling /\ RunsAfterAllEarlier /\ StartedPrefix
      /\ n \in Nat /\ n \in Promises
  BY DEF IInv, Calls, Promises
<1>1. TypeOK'
  BY <1>0 DEF TypeOK, Phases
<1>2. Chain'
  BY <1>0 DEF TypeOK, Chain, Settled
<1>3. ResolvedBySettling'
  BY <1>0 DEF TypeOK, ResolvedBySettling, Calls, Promises, Settled
<1>4. RunsAfterAllEarlier'
  BY <1>0 DEF TypeOK, RunsAfterAllEarlier, Settled
<1>5. Started' = Started
  BY <1>0 DEF TypeOK, Started, Settled
<1>6. StartedPrefix'
  BY <1>0, <1>5 DEF StartedPrefix
<1>. QED
  BY <1>1, <1>2, <1>3, <1>4, <1>5, <1>6 DEF IInv

LEMMA StutterIInv == IInv /\ UNCHANGED vars => IInv'
BY DEF IInv, vars, TypeOK, Chain, ResolvedBySettling, RunsAfterAllEarlier, StartedPrefix, Started

LEMMA NextIInv == IInv /\ [Next]_vars => IInv'
<1> SUFFICES ASSUME IInv, [Next]_vars PROVE IInv'
  OBVIOUS
<1>1. CASE \E n \in Calls : RunExclusive(n)
  BY <1>1, RunExclusiveIInv
<1>2. CASE \E n \in Calls : Begin(n)
  BY <1>2, BeginIInv
<1>3. CASE \E n \in Calls : \E ending \in Settled : Release(n, ending)
  BY <1>3, ReleaseIInv
<1>4. CASE UNCHANGED vars
  BY <1>4, StutterIInv
<1>. QED
  BY <1>1, <1>2, <1>3, <1>4 DEF Next, Step

THEOREM SpecIInv == Spec => []IInv
BY InitIInv, NextIInv, PTL DEF Spec

\* Mutual exclusion in call order, for any number of calls.
THEOREM GateExclusion == Spec => []RunsAfterAllEarlier
<1>1. IInv => RunsAfterAllEarlier
  BY DEF IInv
<1>. QED
  BY <1>1, SpecIInv, PTL

-----------------------------------------------------------------------------
(* The refinement mapping: Waiting and Running of a state in IInv. *)

LEMMA FirstAwaitingUnique ==
  ASSUME tail \in Nat, NEW k \in 1..(tail + 1), Started = 1..(k - 1)
  PROVE  FirstAwaiting = k
<1>1. k \notin Started /\ 1..(k - 1) \subseteq Started
  OBVIOUS
<1>2. \A j \in 1..(tail + 1) : j \notin Started /\ 1..(j - 1) \subseteq Started => j = k
  OBVIOUS
<1>. QED
  BY <1>1, <1>2 DEF FirstAwaiting

\* The same in the successor state of a step.
LEMMA FirstAwaitingUniqueNext ==
  ASSUME tail' \in Nat, NEW k \in 1..(tail' + 1), Started' = 1..(k - 1)
  PROVE  FirstAwaiting' = k
<1>1. k \notin Started' /\ 1..(k - 1) \subseteq Started'
  OBVIOUS
<1>2. \A j \in 1..(tail' + 1) : j \notin Started' /\ 1..(j - 1) \subseteq Started' => j = k
  OBVIOUS
<1>3. FirstAwaiting' = CHOOSE j \in 1..(tail' + 1) : j \notin Started' /\ 1..(j - 1) \subseteq Started'
  BY DEF FirstAwaiting
<1>. QED
  BY <1>1, <1>2, <1>3

LEMMA WaitingIsASequence ==
  ASSUME IInv
  PROVE  /\ FirstAwaiting \in 1..(tail + 1)
         /\ Started = 1..(FirstAwaiting - 1)
         /\ Waiting \in Seq(Calls)
         /\ Len(Waiting) = tail + 1 - FirstAwaiting
<1>0. TypeOK /\ StartedPrefix /\ tail \in Nat /\ tail <= MaxCalls
  BY MaxCallsAssumption DEF IInv, TypeOK, Promises
<1>1. PICK k \in 1..(tail + 1) : Started = 1..(k - 1)
  BY <1>0 DEF StartedPrefix
<1>2. FirstAwaiting = k
  BY <1>0, <1>1, FirstAwaitingUnique
<1>3. \A i \in 1..(tail + 1 - k) : k - 1 + i \in Calls
  BY <1>0, MaxCallsAssumption DEF Calls
<1>4. tail + 1 - k \in Nat
  BY <1>0
<1>5. Waiting \in [1..(tail + 1 - k) -> Calls]
  BY <1>2, <1>3 DEF Waiting
<1>. QED
  BY <1>1, <1>2, <1>4, <1>5

LEMMA RunningIsUnique ==
  ASSUME IInv, NEW n \in Calls, phase[n] = "running"
  PROVE  Running = n
<1>1. \A m \in Calls : phase[m] = "running" => m = n
  BY DEF IInv, RunsAfterAllEarlier, Settled, Calls
<1>. QED
  BY <1>1 DEF Running

LEMMA NothingRuns ==
  ASSUME \A m \in Calls : phase[m] # "running"
  PROVE  Running = 0
BY DEF Running

LEMMA InitImplements == Init => Queue!Init
<1> SUFFICES ASSUME Init PROVE Queue!Init
  OBVIOUS
<1>1. Running = 0
  BY NothingRuns DEF Init
<1>2. tail = 0 /\ IInv
  BY InitIInv DEF Init
<1>3. Waiting \in Seq(Calls) /\ Len(Waiting) = 0
  BY <1>2, WaitingIsASequence
<1>4. Waiting = << >>
  BY <1>3
<1>. QED
  BY <1>1, <1>4 DEF Queue!Init

LEMMA RunExclusiveImplements ==
  ASSUME IInv, NEW n \in Calls, RunExclusive(n)
  PROVE  Queue!Arrive(n)
<1>0. /\ TypeOK /\ tail \in Nat /\ n = tail + 1 /\ tail' = n
      /\ phase[n] = "absent" /\ phase' = [phase EXCEPT ![n] = "awaiting"]
  BY MaxCallsAssumption DEF IInv, TypeOK, Promises, RunExclusive
<1>1. PICK k \in 1..(tail + 1) : FirstAwaiting = k /\ Started = 1..(k - 1)
  BY WaitingIsASequence
<1>2. Waiting \in Seq(Calls) /\ Len(Waiting) = tail + 1 - k
  BY <1>1, WaitingIsASequence
<1>3. FirstAwaiting' = k
  <2>1. Started' = Started
    BY <1>0 DEF TypeOK, Started
  <2>. QED
    BY <1>0, <1>1, <2>1, FirstAwaitingUniqueNext
<1>4. /\ Waiting = [i \in 1..(tail + 1 - k) |-> k - 1 + i]
      /\ Waiting' = [i \in 1..(tail' + 1 - k) |-> k - 1 + i]
  BY <1>1, <1>3 DEF Waiting
<1>5. Waiting' = Append(Waiting, n)
  BY <1>0, <1>1, <1>2, <1>4
<1>6. Running' = Running
  BY <1>0 DEF Running, TypeOK
<1>7. n # Running
  BY <1>0 DEF Running, Calls
<1>8. \A i \in 1..Len(Waiting) : Waiting[i] # n
  BY <1>0, <1>1, <1>2, <1>4
<1>. QED
  BY <1>2, <1>5, <1>6, <1>7, <1>8 DEF Queue!Arrive, Queue!Idle, Queue!Contains

LEMMA BeginImplements ==
  ASSUME IInv, NEW n \in Calls, Begin(n)
  PROVE  Queue!Start
<1>0. /\ TypeOK /\ tail \in Nat /\ tail' = tail
      /\ phase' = [phase EXCEPT ![n] = "running"]
  BY MaxCallsAssumption DEF IInv, TypeOK, Promises, Begin
<1>1. /\ \A m \in Calls : m < n => phase[m] \in Settled
      /\ Started = 1..(n - 1)
      /\ n \in 1..tail
      /\ IInv' /\ Started' = 1..n
  BY <1>0, BeginIsFirst, BeginIInv DEF Calls
<1>2. FirstAwaiting = n
  BY <1>0, <1>1, FirstAwaitingUnique
<1>3. FirstAwaiting' = n + 1
  <2>1. n + 1 \in 1..(tail' + 1) /\ Started' = 1..((n + 1) - 1)
    BY <1>0, <1>1
  <2>. QED
    BY <1>0, <2>1, FirstAwaitingUniqueNext
<1>4. /\ Waiting = [i \in 1..(tail + 1 - n) |-> n - 1 + i]
      /\ Waiting' = [i \in 1..(tail + 1 - (n + 1)) |-> (n + 1) - 1 + i]
  BY <1>0, <1>2, <1>3 DEF Waiting
<1>5. Waiting \in Seq(Calls) /\ Len(Waiting) = tail + 1 - n /\ Waiting # << >>
  <2>1. Waiting \in Seq(Calls) /\ Len(Waiting) = tail + 1 - n
    BY <1>2, WaitingIsASequence
  <2>. QED
    BY <1>0, <1>1, <2>1
<1>6. Head(Waiting) = n
  BY <1>0, <1>1, <1>4, <1>5
<1>7. Waiting' = Tail(Waiting)
  BY SMTT(60), <1>0, <1>1, <1>4, <1>5
<1>8. Running = 0
  <2>1. \A m \in Calls : phase[m] = "running" => m \in Started
    BY DEF Started
  <2>2. \A m \in Calls : phase[m] # "running"
    BY <1>1, <2>1 DEF Settled, Calls
  <2>. QED
    BY <2>2, NothingRuns
<1>9. Running' = n
  <2>1. \A m \in Calls : phase'[m] = "running" <=> m = n
    <3>1. \A m \in Calls : phase[m] # "running"
      <4>1. \A m \in Calls : phase[m] = "running" => m \in Started
        BY DEF Started
      <4>. QED
        BY <1>1, <4>1 DEF Settled, Calls
    <3>. QED
      BY <1>0, <3>1 DEF TypeOK
  <2>. QED
    BY <2>1 DEF Running
<1>. QED
  BY <1>5, <1>6, <1>7, <1>8, <1>9 DEF Queue!Start

LEMMA ReleaseImplements ==
  ASSUME IInv, NEW n \in Calls, NEW ending \in Settled, Release(n, ending)
  PROVE  Queue!Settle
<1>0. /\ TypeOK /\ tail' = tail /\ Started' = Started
      /\ phase[n] = "running" /\ phase' = [phase EXCEPT ![n] = ending]
  BY ReleaseIInv DEF IInv, Release
<1>1. FirstAwaiting' = FirstAwaiting
  BY <1>0 DEF FirstAwaiting
<1>2. Waiting' = Waiting
  BY <1>0, <1>1 DEF Waiting
<1>3. Running = n /\ n # 0
  BY <1>0, RunningIsUnique DEF Calls
<1>4. Running' = 0
  <2>1. \A m \in Calls : phase[m] = "running" => m = n
    BY <1>0 DEF IInv, RunsAfterAllEarlier, Settled, Calls
  <2>2. \A m \in Calls : phase'[m] # "running"
    BY <1>0, <2>1 DEF TypeOK, Settled
  <2>. QED
    BY <2>2 DEF Running
<1>. QED
  BY <1>2, <1>3, <1>4 DEF Queue!Settle

LEMMA StepImplements == IInv /\ [Next]_vars => [Queue!Next]_(Queue!vars)
<1> SUFFICES ASSUME IInv, [Next]_vars PROVE [Queue!Next]_(Queue!vars)
  OBVIOUS
<1>1. CASE \E n \in Calls : RunExclusive(n)
  BY <1>1, RunExclusiveImplements DEF Queue!Next
<1>2. CASE \E n \in Calls : Begin(n)
  BY <1>2, BeginImplements DEF Queue!Next
<1>3. CASE \E n \in Calls : \E ending \in Settled : Release(n, ending)
  BY <1>3, ReleaseImplements DEF Queue!Next
<1>4. CASE UNCHANGED vars
  BY <1>4 DEF vars, Queue!vars, Waiting, Running, FirstAwaiting, Started
<1>. QED
  BY <1>1, <1>2, <1>3, <1>4 DEF Next, Step

\* The promise chain implements the exclusive queue, for any number of calls:
\* every behaviour of the chain is, seen through Waiting and Running, one of
\* the queue.  (The fairness of the queue is checked with TLC only.)
THEOREM GateImplementsQueue == Spec => QueueSafety
BY SpecIInv, InitImplements, StepImplements, PTL DEF Spec, QueueSafety

-----------------------------------------------------------------------------
(* The adapter *)

Requesting(c) == Busy(c) \in {"read", "write"}

CallsAreFunctions == call = [c \in Callers |-> call[c]]

OneAtATime == \A c, d \in Callers : Busy(c) # "none" /\ Busy(d) # "none" => c = d

\* A connection keeps its configured timeout, and only a request that brought
\* its own changes it for as long as it is under way.
TimeoutIsNormal ==
  used => \/ timeout = NormalTimeout
          \/ \E c \in Callers : Requesting(c) /\ call[c].request.timeout # None

ConnectsAfresh == \A c \in Callers : Busy(c) = "connect" => closePromise # "resolved"

AdapterInv ==
  /\ CallsAreFunctions
  /\ OneAtATime
  /\ TimeoutIsNormal
  /\ ConnectsAfresh
  /\ RequestsUseTheirTimeout
  /\ ResolvedCloseMeansDown

LEMMA InitAdapterInv == AdapterInit => AdapterInv
BY DEF AdapterInit, AdapterInv, CallsAreFunctions, OneAtATime, TimeoutIsNormal, ConnectsAfresh,
  RequestsUseTheirTimeout,
       ResolvedCloseMeansDown, Busy, Quiet, Requesting

\* The calls after one of them changes.
LEMMA OneCallChanges ==
  ASSUME CallsAreFunctions, NEW c \in Callers, NEW new, call' = [call EXCEPT ![c] = new]
  PROVE  /\ CallsAreFunctions'
         /\ call'[c] = new
         /\ \A d \in Callers : d # c => call'[d] = call[d]
BY DEF CallsAreFunctions

\* A step that ends the call of the one who is at work leaves nobody at work.
LEMMA EndingLeavesIdle ==
  ASSUME CallsAreFunctions, OneAtATime, NEW c \in Callers, Busy(c) # "none",
         call' = [call EXCEPT ![c] = Quiet]
  PROVE  CallsAreFunctions' /\ \A d \in Callers : Busy(d)' = "none"
<1>1. call'[c] = Quiet /\ \A d \in Callers : d # c => call'[d] = call[d]
  BY OneCallChanges
<1>2. CallsAreFunctions'
  BY OneCallChanges
<1>3. ASSUME NEW d \in Callers PROVE Busy(d)' = "none"
  <2>1. CASE d = c
    BY <1>1, <2>1 DEF Busy, Quiet
  <2>2. CASE d # c
    BY <1>1, <2>2 DEF Busy, OneAtATime
  <2> QED
    BY <2>1, <2>2
<1> QED
  BY <1>2, <1>3

\* A step that begins a call while nobody is at work leaves its caller alone at
\* work.
LEMMA BeginningIsAlone ==
  ASSUME CallsAreFunctions, Idle, NEW c \in Callers, NEW new, call' = [call EXCEPT ![c] = new]
  PROVE  /\ CallsAreFunctions'
         /\ call'[c] = new
         /\ \A d \in Callers : d # c => Busy(d)' = "none"
         /\ OneAtATime'
<1>1. call'[c] = new /\ \A d \in Callers : d # c => call'[d] = call[d]
  BY OneCallChanges
<1>2. CallsAreFunctions'
  BY OneCallChanges
<1>3. \A d \in Callers : d # c => Busy(d)' = "none"
  BY <1>1 DEF Busy, Idle
<1>4. OneAtATime'
  BY <1>3 DEF OneAtATime
<1> QED
  BY <1>1, <1>2, <1>3, <1>4

LEMMA NextAdapterInv == AdapterInv /\ [AdapterNext]_adapterVars => AdapterInv'
<1> SUFFICES ASSUME AdapterInv, [AdapterNext]_adapterVars PROVE AdapterInv'
  OBVIOUS
<1> USE DEF AdapterInv
<1>1. CASE Drop
  BY <1>1 DEF Drop, CallsAreFunctions, OneAtATime, TimeoutIsNormal, ConnectsAfresh,
    RequestsUseTheirTimeout,
              ResolvedCloseMeansDown, Busy, Requesting
<1>2. ASSUME NEW r \in Requests, Refuse(r) PROVE AdapterInv'
  BY <1>2 DEF Refuse, CallsAreFunctions, OneAtATime, TimeoutIsNormal, ConnectsAfresh,
    RequestsUseTheirTimeout,
              ResolvedCloseMeansDown, Busy, Requesting
<1>3. ASSUME NEW c \in Callers, Connect(c) PROVE AdapterInv'
  <2>1. /\ CallsAreFunctions' /\ OneAtATime' /\ call'[c] = [op |-> "connect"]
        /\ \A d \in Callers : d # c => Busy(d)' = "none"
    BY <1>3, BeginningIsAlone DEF Connect
  <2>2. \A d \in Callers : ~ Requesting(d)'
    BY <2>1 DEF Requesting, Busy
  <2>3. TimeoutIsNormal' /\ RequestsUseTheirTimeout'
    BY <1>3, <2>2 DEF Connect, TimeoutIsNormal, RequestsUseTheirTimeout, Requesting
  <2>4. ConnectsAfresh' /\ ResolvedCloseMeansDown'
    BY <1>3 DEF Connect, ConnectsAfresh, ResolvedCloseMeansDown
  <2> QED
    BY <2>1, <2>3, <2>4
<1>4. ASSUME NEW c \in Callers, ConnectEnds(c) PROVE AdapterInv'
  <2>1. CallsAreFunctions' /\ \A d \in Callers : Busy(d)' = "none"
    BY <1>4, EndingLeavesIdle DEF ConnectEnds
  <2>2. ~ \E d \in Callers : Requesting(d)
    BY <1>4 DEF ConnectEnds, OneAtATime, Requesting
  <2>3. TimeoutIsNormal'
    BY <1>4, <2>2 DEF ConnectEnds, TimeoutIsNormal
  <2>4. ResolvedCloseMeansDown'
    BY <1>4 DEF ConnectEnds, ConnectsAfresh, ResolvedCloseMeansDown
  <2> QED
    BY <2>1, <2>3, <2>4 DEF OneAtATime, ConnectsAfresh, RequestsUseTheirTimeout
<1>5. ASSUME NEW c \in Callers, Close(c) PROVE AdapterInv'
  <2>1. ~ \E d \in Callers : Requesting(d)
    BY <1>5 DEF Close, Idle, Requesting
  <2>2. TimeoutIsNormal'
    BY <1>5, <2>1 DEF Close, TimeoutIsNormal
  <2>3. ResolvedCloseMeansDown'
    BY <1>5 DEF Close, ResolvedCloseMeansDown
  <2>4. CASE UNCHANGED call
    BY <1>5, <2>2, <2>3, <2>4
       DEF Close, Idle, CallsAreFunctions, OneAtATime, ConnectsAfresh, RequestsUseTheirTimeout, Busy
  <2>5. CASE call' = [call EXCEPT ![c] = [op |-> "close"]]
    <3>1. /\ CallsAreFunctions' /\ OneAtATime' /\ call'[c] = [op |-> "close"]
          /\ \A d \in Callers : d # c => Busy(d)' = "none"
      BY <1>5, <2>5, BeginningIsAlone DEF Close
    <3>2. \A d \in Callers : Busy(d)' \in {"none", "close"}
      BY <3>1 DEF Busy
    <3> QED
      BY <2>2, <2>3, <3>1, <3>2 DEF ConnectsAfresh, RequestsUseTheirTimeout
  <2> QED
    BY <1>5, <2>4, <2>5 DEF Close
<1>6. ASSUME NEW c \in Callers, CloseResolves(c) \/ CloseRejects(c) PROVE AdapterInv'
  <2>1. CallsAreFunctions' /\ \A d \in Callers : Busy(d)' = "none"
    BY <1>6, EndingLeavesIdle DEF CloseResolves, CloseRejects
  <2>2. ~ \E d \in Callers : Requesting(d)
    BY <1>6 DEF CloseResolves, CloseRejects, OneAtATime, Requesting
  <2>3. TimeoutIsNormal'
    BY <1>6, <2>2 DEF CloseResolves, CloseRejects, TimeoutIsNormal
  <2>4. ResolvedCloseMeansDown'
    BY <1>6 DEF CloseResolves, CloseRejects, ResolvedCloseMeansDown
  <2> QED
    BY <2>1, <2>3, <2>4 DEF OneAtATime, ConnectsAfresh, RequestsUseTheirTimeout
<1>7. ASSUME NEW c \in Callers, NEW got, NEW kind, Settle(c, got, kind) PROVE AdapterInv'
  <2>1. CallsAreFunctions' /\ \A d \in Callers : Busy(d)' = "none"
    BY <1>7, EndingLeavesIdle DEF Settle
  <2>2. \A d \in Callers : Requesting(d) => d = c
    BY <1>7 DEF Settle, OneAtATime, Requesting
  <2>3. TimeoutIsNormal'
    BY <1>7, <2>2 DEF Settle, TimeoutIsNormal
  <2>4. ResolvedCloseMeansDown'
    BY <1>7 DEF Settle, ResolvedCloseMeansDown
  <2> QED
    BY <2>1, <2>3, <2>4 DEF OneAtATime, ConnectsAfresh, RequestsUseTheirTimeout
<1>8. ASSUME NEW c \in Callers, NEW r \in Requests, Send(c, r) PROVE AdapterInv'
  <2> DEFINE new == [op |-> r.op, request |-> r, sentUnder |-> timeout']
  <2>1. /\ CallsAreFunctions' /\ OneAtATime' /\ call'[c] = new
        /\ \A d \in Callers : d # c => Busy(d)' = "none"
    BY <1>8, BeginningIsAlone DEF Send
  <2>2. timeout = NormalTimeout
    BY <1>8 DEF Send, Idle, Connected, TimeoutIsNormal, Requesting
  <2>3. Busy(c)' \in {"read", "write"} /\ call'[c].request = r /\ call'[c].sentUnder = timeout'
    BY <2>1, RequestsAssumption DEF Busy
  <2>4. RequestsUseTheirTimeout'
    <3>1. timeout' = IF r.timeout = None THEN NormalTimeout ELSE r.timeout
      BY <1>8, <2>2 DEF Send
    <3> QED
      BY <2>1, <2>3, <3>1 DEF RequestsUseTheirTimeout
  <2>5. TimeoutIsNormal'
    BY <1>8, <2>2, <2>3 DEF Send, TimeoutIsNormal, Requesting
  <2>6. ConnectsAfresh' /\ ResolvedCloseMeansDown'
    BY <1>8, <2>1, <2>3 DEF Send, ConnectsAfresh, ResolvedCloseMeansDown
  <2> QED
    BY <2>1, <2>4, <2>5, <2>6
<1>9. CASE UNCHANGED adapterVars
  BY <1>9 DEF adapterVars, CallsAreFunctions, OneAtATime, TimeoutIsNormal, ConnectsAfresh,
    RequestsUseTheirTimeout,
              ResolvedCloseMeansDown, Busy, Requesting
<1> QED
  BY <1>1, <1>2, <1>3, <1>4, <1>5, <1>6, <1>7, <1>8, <1>9 DEF AdapterNext, Answered, Fails

\* Whatever was asked before, a request runs under its own timeout if it has
\* one and under the configured one if not.
THEOREM AdapterTimeouts == AdapterSpec => []RequestsUseTheirTimeout
<1>1. AdapterInv => RequestsUseTheirTimeout
  BY DEF AdapterInv
<1> QED
  BY InitAdapterInv, NextAdapterInv, <1>1, PTL DEF AdapterSpec

\* A close() that has resolved leaves no open socket.
THEOREM AdapterCloses == AdapterSpec => []ResolvedCloseMeansDown
<1>1. AdapterInv => ResolvedCloseMeansDown
  BY DEF AdapterInv
<1> QED
  BY InitAdapterInv, NextAdapterInv, <1>1, PTL DEF AdapterSpec

\* What the three outcomes of a request mean, of an answer.
LEMMA AnswerMeansWhatHappened ==
  ASSUME NEW c \in Callers, Answered(c)
  PROVE  OutcomesMeanWhatHappened'
<1>1. CASE link = "open" /\ Settle(c, "exact", IF Busy(c) = "read" THEN "words" ELSE "acknowledged")
  <2>1. reply' = [op |-> Busy(c), got |-> "exact"] /\ result' \in {"words", "acknowledged"}
    BY <1>1 DEF Settle
  <2> QED
    BY <2>1 DEF OutcomesMeanWhatHappened, DisconnectedCodes, SocketCodes, NoResponseCodes
<1>2. ASSUME NEW got \in {"no words", "other count", "other write"}, Settle(c, got, "invalid_response")
      PROVE  OutcomesMeanWhatHappened'
  <2>1. reply' = [op |-> Busy(c), got |-> got] /\ result' = "invalid_response"
    BY <1>2 DEF Settle
  <2> QED
    BY <2>1 DEF OutcomesMeanWhatHappened, DisconnectedCodes, SocketCodes, NoResponseCodes
<1> QED
  BY <1>1, <1>2 DEF Answered

\* What an error of the library is told to be.
LEMMA KindsOfErrors ==
  ASSUME NEW op, NEW error \in Errors
  PROVE  /\ Kind(op, error) \notin {"words", "acknowledged"}
         /\ Kind(op, error) = "illegal_address" => op = "read" /\ error = "illegal data address"
         /\ error \in DisconnectedCodes \cup SocketCodes \cup NoResponseCodes \cup {"ETIMEDOUT"} =>
              Kind(op, error) \in ReconnectKinds
<1>1. KindOfCode(error) \in {"timeout", "disconnected", "no_response", "socket", "modbus"}
  BY DEF KindOfCode
<1>2. error \in DisconnectedCodes \cup SocketCodes \cup NoResponseCodes \cup {"ETIMEDOUT"} =>
        KindOfCode(error) \in ReconnectKinds /\ error # "illegal data address"
  BY DEF KindOfCode, ReconnectKinds, DisconnectedCodes, SocketCodes, NoResponseCodes
<1> QED
  BY <1>1, <1>2 DEF Kind

LEMMA ErrorMeansWhatHappened ==
  ASSUME NEW c \in Callers, Fails(c)
  PROVE  OutcomesMeanWhatHappened'
<1>1. PICK error \in Errors : Settle(c, error, Kind(Busy(c), error))
  BY DEF Fails
<1>2. reply' = [op |-> Busy(c), got |-> error] /\ result' = Kind(Busy(c), error)
  BY <1>1 DEF Settle
<1>3. reply'.got = error
  BY <1>2
<1> QED
  BY <1>2, <1>3, KindsOfErrors DEF OutcomesMeanWhatHappened

\* No other step touches an outcome, except to forget it.
LEMMA NextOutcomes == OutcomesMeanWhatHappened /\ [AdapterNext]_adapterVars => OutcomesMeanWhatHappened'
<1> SUFFICES ASSUME OutcomesMeanWhatHappened, [AdapterNext]_adapterVars PROVE OutcomesMeanWhatHappened'
  OBVIOUS
<1>1. ASSUME UNCHANGED <<reply, result>> PROVE OutcomesMeanWhatHappened'
  BY <1>1 DEF OutcomesMeanWhatHappened
<1>2. ASSUME reply' = None PROVE OutcomesMeanWhatHappened'
  BY <1>2 DEF OutcomesMeanWhatHappened
<1>3. CASE Drop \/ UNCHANGED adapterVars
  BY <1>1, <1>3 DEF Drop, adapterVars
<1>4. ASSUME NEW r \in Requests, Refuse(r) PROVE OutcomesMeanWhatHappened'
  BY <1>2, <1>4 DEF Refuse
<1>5. ASSUME NEW c \in Callers, NEW r \in Requests, Send(c, r) PROVE OutcomesMeanWhatHappened'
  BY <1>2, <1>5 DEF Send
<1>6. ASSUME NEW c \in Callers,
             Connect(c) \/ ConnectEnds(c) \/ Close(c) \/ CloseResolves(c) \/ CloseRejects(c)
      PROVE  OutcomesMeanWhatHappened'
  BY <1>1, <1>6 DEF Connect, ConnectEnds, Close, CloseResolves, CloseRejects
<1> QED
  BY <1>3, <1>4, <1>5, <1>6, AnswerMeansWhatHappened, ErrorMeansWhatHappened DEF AdapterNext

\* Words and acknowledgements only of exact answers, an illegal address only of
\* a read the device refused, and after every error that leaves a request
\* unanswered the client reconnects: whatever came before.
THEOREM AdapterOutcomes == AdapterSpec => []OutcomesMeanWhatHappened
<1>1. AdapterInit => OutcomesMeanWhatHappened
  BY DEF AdapterInit, OutcomesMeanWhatHappened
<1> QED
  BY <1>1, NextOutcomes, PTL DEF AdapterSpec
=============================================================================
