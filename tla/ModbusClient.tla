---------------------------- MODULE ModbusClient ----------------------------
(***************************************************************************)
(* IdmModbusClient (client/idm-modbus-client.ts) with the write safety     *)
(* state it owns (client/write-safety.ts): public operations take turns at *)
(* the gate, and the operation whose turn it is connects, closes, sends,   *)
(* retries and records.  A turn is a sequence of steps; between two steps  *)
(* the socket may drop, time may pass, callers may queue up and the        *)
(* synchronous controls that bypass the gate may run.                      *)
(*                                                                         *)
(* Data is abstracted: a batch is a number of requests, a value is left    *)
(* out, and an error is one of four classes:                               *)
(*   link     timeout, disconnected, socket, no_response (reconnect kinds) *)
(*   device   modbus, invalid_response                                     *)
(*   illegal  IllegalAddressError (Modbus exception code 2)                *)
(*   other    an error that is not a normalized transport failure          *)
(***************************************************************************)
EXTENDS Integers, Sequences

CONSTANTS
  Callers,          \* tasks of the application that call the client
  NoCaller,
  EepromRegs,       \* writable registers of write class EEPROM
  CyclicRegs,       \* writable registers of write class CYCLIC
  VolatileRegs,     \* writable registers of the other write classes
  NoReg,
  MaxRetries,       \* attempts per request (option maxRetries)
  MaxRequests,      \* bound on the requests of one batch or detection
  EepromInterval,   \* EEPROM_WRITE_INTERVAL_SECONDS, in ticks
  CyclicTtl,        \* DEFAULT_CYCLIC_WRITE_TTL_SECONDS, in ticks
  MaxTime           \* bound on the clock

ASSUME CallersAssumption == NoCaller \notin Callers
ASSUME MaxRetriesAssumption == MaxRetries \in Nat \ {0}
ASSUME MaxRequestsAssumption == MaxRequests \in Nat \ {0}
ASSUME TimeAssumption == EepromInterval \in Nat /\ CyclicTtl \in Nat /\ MaxTime \in Nat

VARIABLES
  waiting,        \* gate: callers queued behind the running one
  running,        \* gate: the caller whose operation has the turn
  request,        \* request[c]: what caller c asked for
  stage,          \* what the running operation awaits
  purpose,        \* why it is closing or connecting
  attempt,        \* attempts of the current request that failed
  left,           \* requests of the operation not yet answered
  link,           \* #transport: none, or its socket state
  closePromise,   \* #closePromise of the transport (modbus-serial-adapter.ts)
  suspect,        \* #connectionSuspect
  lastWrite,      \* #lastEepromWrites
  deadline,       \* #cyclicWriteDeadlines
  now,            \* performance.now() in ticks
  tainted,        \* history: a request on this transport went unanswered
  outcome         \* history: what the caller of the last operation got

gateVars   == <<waiting, running, request, outcome>>
turnVars   == <<stage, purpose, attempt, left>>
linkVars   == <<link, closePromise, tainted>>
safetyVars == <<lastWrite, deadline>>
vars == <<gateVars, turnVars, linkVars, suspect, safetyVars, now>>

Gate == INSTANCE ExclusiveQueue

Never == -1   \* no timestamp in the map
Times == 0..MaxTime
WritableRegs == EepromRegs \cup CyclicRegs \cup VolatileRegs

ReadOps == {"read", "batch", "probe", "detect"}
LifecycleOps == {"connect", "disconnect", "forceReconnect"}
Requests ==
  [op : ReadOps \cup LifecycleOps, reg : {NoReg}] \cup
  [op : {"write", "dryRun"}, reg : WritableRegs]
NoRequest == [op |-> "none", reg |-> NoReg]

ErrorKinds == {"link", "device", "illegal", "other"}
Outcomes == {"pending", "returned", "thrown"}

TypeOK ==
  /\ waiting \in Seq(Callers)
  /\ running \in Callers \cup {NoCaller}
  /\ request \in [Callers -> Requests \cup {NoRequest}]
  /\ stage \in {"idle", "begin", "closing", "connecting", "probe", "ready", "answer", "backoff"}
  /\ purpose \in {"none", "lifecycle", "ensure", "probe", "retry"}
  /\ attempt \in 0..(MaxRetries - 1)
  /\ left \in 0..MaxRequests
  /\ link \in {"none", "opening", "open", "lost"}
  /\ closePromise \in {"none", "pending", "resolved", "rejected"}
  /\ suspect \in BOOLEAN
  /\ lastWrite \in [EepromRegs -> Times \cup {Never}]
  /\ deadline \in [CyclicRegs -> Nat \cup {Never}]
  /\ now \in Times
  /\ tainted \in BOOLEAN
  /\ outcome \in Outcomes

Init ==
  /\ Gate!Init
  /\ request = [c \in Callers |-> NoRequest]
  /\ stage = "idle" /\ purpose = "none" /\ attempt = 0 /\ left = 0
  /\ link = "none" /\ closePromise = "none" /\ suspect = FALSE /\ tainted = FALSE
  /\ lastWrite = [r \in EepromRegs |-> Never]
  /\ deadline = [r \in CyclicRegs |-> Never]
  /\ now = 0
  /\ outcome = "pending"

Op == request[running].op
Reg == request[running].reg

\* Detection probes with one attempt, every other request with maxRetries.
Attempts == IF Op = "detect" THEN 1 ELSE MaxRetries

-----------------------------------------------------------------------------
(* Taking turns *)

Call(c, req) ==
  /\ Gate!Arrive(c)
  /\ request' = [request EXCEPT ![c] = req]
  /\ UNCHANGED <<outcome, turnVars, linkVars, suspect, safetyVars, now>>

Start ==
  /\ Gate!Start
  /\ stage' = "begin"
  /\ outcome' = "pending"
  /\ UNCHANGED <<request, purpose, attempt, left, linkVars, suspect, safetyVars, now>>

\* The operation returns or throws: the turn ends either way.
Settle ==
  /\ Gate!Settle
  /\ request' = [request EXCEPT ![running] = NoRequest]
  /\ stage' = "idle"
  /\ purpose' = "none"
  /\ attempt' = 0
  /\ left' = 0
  /\ outcome' \in {"returned", "thrown"}

Return == Settle /\ outcome' = "returned"
Throw == Settle /\ outcome' = "thrown"

-----------------------------------------------------------------------------
(* Opening and closing the transport *)

\* #connectLocked on a transport that is not connected: a new transport
\* replaces it, whatever the old one's state, and connect() is awaited.
OpenTransport(p) ==
  /\ stage' = "connecting"
  /\ purpose' = p
  /\ link' = "opening"
  /\ closePromise' = "none"
  /\ tainted' = FALSE

\* #closeTransportLocked on a transport: the adapter hands out the promise of
\* an earlier close if there was one, and one already resolved if its socket
\* is not open.
CloseTransport(p) ==
  /\ stage' = "closing"
  /\ purpose' = p
  /\ closePromise' = IF closePromise # "none" THEN closePromise
                     ELSE IF link = "open" THEN "pending" ELSE "resolved"
  /\ UNCHANGED link

\* Faulty variant: a connected transport is reused even when it is suspect.
EnsureConnectedTrusting(p) ==
  \/ /\ link = "open"
     /\ stage' = "ready" /\ purpose' = "none"
     /\ UNCHANGED <<linkVars, suspect>>
  \/ link # "open" /\ OpenTransport(p) /\ suspect' = FALSE

\* #ensureConnectedLocked: only a connected transport that is not suspect is
\* used as it is, and a suspect one is closed before the fresh connect.
EnsureConnected(p) ==
  \/ /\ link = "open" /\ ~ suspect
     /\ stage' = "ready" /\ purpose' = "none"
     /\ UNCHANGED <<linkVars, suspect>>
  \/ /\ suspect /\ link # "none"
     /\ CloseTransport(p)
     /\ UNCHANGED <<suspect, tainted>>
  \/ /\ IF suspect THEN link = "none" ELSE link # "open"
     /\ OpenTransport(p)
     /\ suspect' = FALSE

\* The current request is over: the operation goes on with its next one, or
\* returns.  A batch sends its next request at once; a detection probes anew.
FinishRequest ==
  \/ left = 1 /\ Return
  \/ /\ left > 1
     /\ left' = left - 1
     /\ attempt' = 0
     /\ stage' = IF Op = "batch" THEN "ready" ELSE "probe"
     /\ purpose' = "none"
     /\ UNCHANGED gateVars

\* A probe turns a known transport failure into null and is done with it;
\* every other operation, and the first connect of a detection, throws.
FailConnection(kind) ==
  IF kind # "other" /\ (purpose = "probe" \/ (purpose = "retry" /\ Op \in {"probe", "detect"}))
  THEN FinishRequest
  ELSE Throw

CloseSucceeds ==
  /\ stage = "closing"
  /\ closePromise \in {"pending", "resolved"}
  /\ \/ /\ Op = "disconnect"
        /\ link' = "none" /\ closePromise' = "none" /\ tainted' = FALSE
        /\ Return
        /\ UNCHANGED suspect
     \/ /\ Op # "disconnect"
        /\ OpenTransport(purpose)
        /\ suspect' = (suspect /\ purpose = "retry")
        /\ UNCHANGED <<gateVars, attempt, left>>
  /\ UNCHANGED <<safetyVars, now>>

\* Faulty variant: suspicion is cleared in a finally block around the close.
CloseFailsForgiving ==
  /\ stage = "closing"
  /\ closePromise \in {"pending", "rejected"}
  /\ closePromise' = "rejected"
  /\ suspect' = FALSE
  /\ FailConnection("link")
  /\ UNCHANGED <<link, tainted, safetyVars, now>>

\* Faulty variant: a rejected close is tried again until it succeeds.
CloseFailsInsisting ==
  /\ stage = "closing"
  /\ closePromise \in {"pending", "rejected"}
  /\ closePromise' = "rejected"
  /\ UNCHANGED <<gateVars, turnVars, link, tainted, suspect, safetyVars, now>>

\* The client keeps a transport whose close() is rejected, and the adapter
\* keeps the rejected promise.
CloseFails ==
  /\ stage = "closing"
  /\ closePromise \in {"pending", "rejected"}
  /\ closePromise' = "rejected"
  /\ FailConnection("link")
  /\ UNCHANGED <<link, tainted, suspect, safetyVars, now>>

ConnectSucceeds ==
  /\ stage = "connecting"
  /\ link' = "open"
  /\ \/ purpose = "lifecycle" /\ Return
     \/ /\ purpose # "lifecycle"
        /\ stage' = IF purpose = "retry" THEN "backoff" ELSE "ready"
        /\ purpose' = "none"
        /\ UNCHANGED <<gateVars, attempt, left>>
  /\ UNCHANGED <<closePromise, tainted, suspect, safetyVars, now>>

\* A reconnect between two attempts may fail with a reconnect kind: the next
\* attempt then finds no transport.  Any other failure ends the request.
ConnectFails(kind) ==
  /\ stage = "connecting"
  /\ kind \in {"link", "other"}
  /\ link' = "none"
  /\ \/ /\ purpose = "retry" /\ kind = "link"
        /\ stage' = "backoff" /\ purpose' = "none"
        /\ UNCHANGED <<gateVars, attempt, left>>
     \/ ~ (purpose = "retry" /\ kind = "link") /\ FailConnection(kind)
  /\ UNCHANGED <<closePromise, tainted, suspect, safetyVars, now>>

-----------------------------------------------------------------------------
(* Beginning an operation *)

\* Faulty variant: the boundary is off by one tick.
ThrottledTooBriefly(r) ==
  /\ r \in EepromRegs
  /\ lastWrite[r] # Never
  /\ now - lastWrite[r] < EepromInterval - 1

\* #createWritePlan refuses an EEPROM register acknowledged too recently.
Throttled(r) ==
  /\ r \in EepromRegs
  /\ lastWrite[r] # Never
  /\ now - lastWrite[r] < EepromInterval

\* The operation is over before it touches the transport: a register that must
\* not be read, a malformed probe and a refused plan throw, an empty batch and
\* a dry run return.
BeginWithoutTraffic ==
  /\ stage = "begin"
  /\ \/ Op \in {"read", "probe", "write", "dryRun"} /\ Throw
     \/ Op \in {"batch", "dryRun"} /\ Return
  /\ UNCHANGED <<linkVars, suspect, safetyVars, now>>

BeginRequests ==
  /\ stage = "begin"
  /\ Op \in ReadOps \cup {"write"}
  /\ ~ (Op = "write" /\ Throttled(Reg))
  /\ left' \in IF Op \in {"batch", "detect"} THEN 1..MaxRequests ELSE {1}
  /\ EnsureConnected(IF Op = "probe" THEN "probe" ELSE "ensure")
  /\ UNCHANGED <<gateVars, attempt, safetyVars, now>>

NextProbe ==
  /\ stage = "probe"
  /\ EnsureConnected("probe")
  /\ UNCHANGED <<gateVars, attempt, left, safetyVars, now>>

BeginConnect ==
  /\ stage = "begin" /\ Op = "connect"
  /\ \/ link = "open" /\ Return /\ UNCHANGED linkVars
     \/ link # "open" /\ OpenTransport("lifecycle") /\ UNCHANGED <<gateVars, attempt, left>>
  /\ UNCHANGED <<suspect, safetyVars, now>>

BeginDisconnect ==
  /\ stage = "begin" /\ Op = "disconnect"
  /\ \/ link = "none" /\ Return /\ UNCHANGED linkVars
     \/ /\ link # "none"
        /\ CloseTransport("lifecycle")
        /\ UNCHANGED <<gateVars, attempt, left, tainted>>
  /\ UNCHANGED <<suspect, safetyVars, now>>

BeginForceReconnect ==
  /\ stage = "begin" /\ Op = "forceReconnect"
  /\ \/ link = "none" /\ OpenTransport("lifecycle") /\ suspect' = FALSE
     \/ link # "none" /\ CloseTransport("lifecycle") /\ UNCHANGED <<suspect, tainted>>
  /\ UNCHANGED <<gateVars, attempt, left, safetyVars, now>>

-----------------------------------------------------------------------------
(* Requests and retries *)

\* The catch block of the retry loops.  The last attempt throws without
\* reconnecting or sleeping; probes turn a known failure into null, and a
\* batch falls back to its next request on a device failure.
AttemptFails(kind) ==
  LET made == attempt + 1 IN
  /\ suspect' = (suspect \/ kind = "link")
  /\ tainted' = (tainted \/ (kind = "link" /\ stage = "answer"))
  /\ \/ /\ kind \in {"illegal", "other"} \/ made = Attempts
        /\ IF \/ Op \in {"probe", "detect"} /\ kind # "other"
              \/ Op = "batch" /\ kind \in {"device", "illegal"}
           THEN FinishRequest
           ELSE Throw
        /\ UNCHANGED <<link, closePromise>>
     \/ /\ kind = "link" /\ made < Attempts
        /\ attempt' = made
        /\ IF link = "none" THEN OpenTransport("retry") ELSE CloseTransport("retry")
        /\ UNCHANGED <<gateVars, left>>
     \/ /\ kind = "device" /\ made < Attempts
        /\ attempt' = made
        /\ stage' = "backoff"
        /\ UNCHANGED <<gateVars, purpose, left, link, closePromise>>

\* The request goes out on the connected transport ...
Send ==
  /\ stage = "ready" /\ link = "open"
  /\ stage' = "answer"
  /\ UNCHANGED <<gateVars, purpose, attempt, left, linkVars, suspect, safetyVars, now>>

\* ... and without one #requireTransportLocked fails the attempt.
SendWithoutTransport ==
  /\ stage = "ready" /\ link # "open"
  /\ AttemptFails("link")
  /\ UNCHANGED <<safetyVars, now>>

\* recordSuccessfulWrite
Record(r) ==
  /\ lastWrite' = [e \in EepromRegs |-> IF e = r THEN now ELSE lastWrite[e]]
  /\ deadline' = [k \in CyclicRegs |-> IF k = r THEN now + CyclicTtl ELSE deadline[k]]

\* A valid answer or acknowledgement: the link is trusted again, and a write
\* is recorded at the time its acknowledgement is processed.
Answered ==
  /\ stage = "answer" /\ link = "open"
  /\ suspect' = FALSE
  /\ FinishRequest
  /\ IF Op = "write" THEN Record(Reg) ELSE UNCHANGED safetyVars
  /\ UNCHANGED <<linkVars, now>>

\* Faulty variant: the write is recorded whatever became of it.
RequestFailsRecorded(kind) ==
  /\ stage = "answer"
  /\ kind \in ErrorKinds
  /\ AttemptFails(kind)
  /\ IF Op = "write" THEN Record(Reg) ELSE UNCHANGED safetyVars
  /\ UNCHANGED now

\* A lost link, a timeout or an error answer; a write may have been applied.
RequestFails(kind) ==
  /\ stage = "answer"
  /\ kind \in ErrorKinds
  /\ AttemptFails(kind)
  /\ UNCHANGED <<safetyVars, now>>

\* The sleep between two attempts is over.
RetryNow ==
  /\ stage = "backoff"
  /\ stage' = "ready"
  /\ UNCHANGED <<gateVars, purpose, attempt, left, linkVars, suspect, safetyVars, now>>

-----------------------------------------------------------------------------
(* What happens at any time *)

\* The device or the network closes the connection.
Drop ==
  /\ link = "open"
  /\ link' = "lost"
  /\ UNCHANGED <<gateVars, turnVars, closePromise, tainted, suspect, safetyVars, now>>

Tick ==
  /\ now < MaxTime
  /\ now' = now + 1
  /\ UNCHANGED <<gateVars, turnVars, linkVars, suspect, safetyVars>>

\* resetWriteThrottle and resetCyclicWriteState bypass the gate.
ResetWriteThrottle(R) ==
  /\ lastWrite' = [r \in EepromRegs |-> IF r \in R THEN Never ELSE lastWrite[r]]
  /\ UNCHANGED <<gateVars, turnVars, linkVars, suspect, deadline, now>>

ResetCyclicWriteState(R) ==
  /\ deadline' = [r \in CyclicRegs |-> IF r \in R THEN Never ELSE deadline[r]]
  /\ UNCHANGED <<gateVars, turnVars, linkVars, suspect, lastWrite, now>>

\* One register, or every register when none is given.
Selections(Regs) == {{r} : r \in Regs} \cup {Regs}

-----------------------------------------------------------------------------

\* The steps of the operation whose turn it is.
TurnStep ==
  \/ BeginWithoutTraffic \/ BeginRequests \/ NextProbe
  \/ BeginConnect \/ BeginDisconnect \/ BeginForceReconnect
  \/ CloseSucceeds \/ CloseFails \/ ConnectSucceeds
  \/ \E kind \in {"link", "other"} : ConnectFails(kind)
  \/ Send \/ SendWithoutTransport \/ Answered \/ RetryNow
  \/ \E kind \in ErrorKinds : RequestFails(kind)

Control ==
  \/ \E R \in Selections(EepromRegs) : ResetWriteThrottle(R)
  \/ \E R \in Selections(CyclicRegs) : ResetCyclicWriteState(R)

Next ==
  \/ \E c \in Callers, req \in Requests : Call(c, req)
  \/ Start \/ TurnStep \/ Control \/ Drop \/ Tick

\* The runtime starts the next operation, every connect, request and sleep
\* ends (they carry timeouts) and every close() settles (which is up to the
\* close callback of modbus-serial: the client sets no timeout on it).
Spec == Init /\ [][Next]_vars /\ WF_vars(Start) /\ WF_vars(TurnStep)

-----------------------------------------------------------------------------
(* Properties *)

Written(r) == stage \notin {"idle", "begin"} /\ Op = "write" /\ Reg = r

\* No write to an EEPROM register is under way within the interval after the
\* last acknowledged write to it, whatever the other callers do and whenever
\* the acknowledgement came (plan, write and commit share one turn:
\* idm-modbus-client.ts:643-649, write-safety.ts:283-296).
EepromSpacing ==
  \A r \in EepromRegs :
    Written(r) => lastWrite[r] = Never \/ now - lastWrite[r] >= EepromInterval

\* No request goes out on a transport on which an earlier request was left
\* unanswered: its late answer could be taken for the answer to this one
\* (idm-modbus-client.ts:943-953, 1048-1057).
FreshLink == stage = "answer" => ~ tainted

\* Suspicion survives until the tainted transport is gone, across turns,
\* failed closes and error answers.
TaintedIsSuspect == tainted => suspect /\ link # "none"

\* An entry of the safety state is renewed only in the step in which the write
\* to its register returns to its caller: a write that was refused, that failed
\* in any way or that ran out of attempts throws and counts for nothing, even if
\* the device may have applied it (README.md:138-139).
WriteReturns(r) == Op = "write" /\ Reg = r /\ outcome = "pending" /\ outcome' = "returned"
OnlyAcknowledgedWritesCount ==
  [][ /\ \A r \in EepromRegs : lastWrite'[r] \notin {lastWrite[r], Never} => WriteReturns(r)
      /\ \A r \in CyclicRegs : deadline'[r] \notin {deadline[r], Never} => WriteReturns(r)
    ]_vars

\* Once a suspect transport's close was rejected the client is stuck on that
\* transport: every operation closes it first and fails on the memoised
\* rejection, disconnect and forceReconnect too.  The one way out is a connect
\* that finds the socket lost (idm-modbus-client.ts:745-759, 966-975;
\* modbus-serial-adapter.ts:206-209).
Stuck == suspect /\ closePromise = "rejected"
OnlyConnectGetsUnstuck == [][Stuck => Stuck' \/ (stage = "begin" /\ Op = "connect" /\ link = "lost")]_vars

\* Every call is eventually answered: no failure of the link, of a close or of
\* the device leaves the gate taken.
EveryCallReturns == \A c \in Callers : ~ Gate!Idle(c) ~> Gate!Idle(c)
=============================================================================
