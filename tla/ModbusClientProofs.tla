------------------------- MODULE ModbusClientProofs -------------------------
(***************************************************************************)
(* Proofs about ModbusClient for every set of callers and registers, every *)
(* retry budget, interval, TTL and bound.                                  *)
(***************************************************************************)
EXTENDS ModbusClient, TLAPS

\* An operation that returns and one that throws end their turn alike.
USE DEF Return, Throw

\* Someone has the turn exactly while the client is at work.
TurnTaken == stage = "idle" <=> running = NoCaller

\* Only batches and detections have several requests, only a detection probes
\* again, and only probes connect in order to probe.
TurnShape ==
  /\ left > 1 => Op \in {"batch", "detect"}
  /\ stage = "probe" => Op = "detect"
  /\ stage \in {"idle", "begin"} => purpose = "none" /\ left = 0
  /\ purpose = "probe" => Op \in {"probe", "detect"}

\* The stages at which a transport is trusted, and an answer is awaited on one.
TrustedStages == {"connecting", "ready", "answer", "backoff"}
TrustedIsFresh ==
  /\ stage \in TrustedStages => ~ tainted
  /\ stage = "answer" => link # "none"

IInv ==
  /\ TypeOK
  /\ TurnTaken
  /\ TurnShape
  /\ TaintedIsSuspect
  /\ TrustedIsFresh
  /\ EepromSpacing

-----------------------------------------------------------------------------
LEMMA InitIInv == Init => IInv
<1> SUFFICES ASSUME Init PROVE IInv
  OBVIOUS
<1>1. TypeOK
  <2>1. waiting \in Seq(Callers)
    BY DEF Init, Gate!Init
  <2>2. request \in [Callers -> Requests \cup {NoRequest}]
    BY DEF Init
  <2>3. /\ attempt \in 0..(MaxRetries - 1) /\ left \in 0..MaxRequests /\ now \in Times
        /\ lastWrite \in [EepromRegs -> Times \cup {Never}]
        /\ deadline \in [CyclicRegs -> Nat \cup {Never}]
    BY MaxRetriesAssumption, MaxRequestsAssumption, TimeAssumption DEF Init, Times
  <2>. QED
    BY <2>1, <2>2, <2>3 DEF Init, Gate!Init, TypeOK, Outcomes
<1>2. TurnTaken /\ TurnShape /\ TaintedIsSuspect /\ TrustedIsFresh /\ EepromSpacing
  BY DEF Init, Gate!Init, TurnTaken, TurnShape, TaintedIsSuspect, TrustedIsFresh, TrustedStages,
     EepromSpacing, Written
<1>. QED
  BY <1>1, <1>2 DEF IInv

\* The gate's steps keep the types of its variables.
LEMMA GateTypes ==
  ASSUME TypeOK
  PROVE  /\ \A c \in Callers : Gate!Arrive(c) => waiting' \in Seq(Callers) /\ running' \in Callers \cup {NoCaller}
         /\ Gate!Start => waiting' \in Seq(Callers) /\ running' \in Callers
         /\ Gate!Settle => waiting' \in Seq(Callers) /\ running' = NoCaller
<1>0. waiting \in Seq(Callers) /\ running \in Callers \cup {NoCaller}
  BY DEF TypeOK
<1>1. \A c \in Callers : Append(waiting, c) \in Seq(Callers)
  BY <1>0
<1>2. waiting # << >> => Head(waiting) \in Callers /\ Tail(waiting) \in Seq(Callers)
  BY <1>0
<1>. QED
  BY <1>0, <1>1, <1>2 DEF Gate!Arrive, Gate!Start, Gate!Settle

LEMMA CallIInv ==
  ASSUME IInv, NEW c \in Callers, NEW req \in Requests, Call(c, req)
  PROVE  IInv'
<1>0. TypeOK /\ c # running /\ running' = running
  BY DEF IInv, Call, Gate!Arrive, Gate!Idle
<1>1. Op' = Op /\ Reg' = Reg
  BY <1>0, CallersAssumption DEF Call, Op, Reg, TypeOK
<1>2. TypeOK'
  BY <1>0, GateTypes DEF Call, TypeOK, turnVars, linkVars, safetyVars
<1>3. (TurnTaken /\ TurnShape /\ TaintedIsSuspect /\ TrustedIsFresh /\ EepromSpacing)'
  BY <1>0, <1>1
    DEF IInv, Call, turnVars, linkVars, safetyVars, TurnTaken, TurnShape, TaintedIsSuspect,
     TrustedIsFresh, TrustedStages, EepromSpacing, Written
<1>. QED
  BY <1>2, <1>3 DEF IInv

LEMMA StartIInv == ASSUME IInv, Start PROVE IInv'
<1>1. TypeOK'
  BY GateTypes DEF IInv, Start, TypeOK, Outcomes, linkVars, safetyVars
<1>2. running' # NoCaller
  BY GateTypes, CallersAssumption DEF IInv, Start
<1>3. (TurnTaken /\ TurnShape /\ TaintedIsSuspect /\ TrustedIsFresh /\ EepromSpacing)'
  BY <1>2 DEF IInv, Start, Gate!Start, linkVars, safetyVars, TurnTaken, TurnShape, TaintedIsSuspect,
     TrustedIsFresh, TrustedStages, EepromSpacing, Written
<1>. QED
  BY <1>1, <1>3 DEF IInv

-----------------------------------------------------------------------------
(* The ways a turn goes on *)

\* The turn ends: nothing of it is left over.
LEMMA SettleEffect ==
  ASSUME IInv, Settle
  PROVE  /\ waiting' \in Seq(Callers) /\ running' = NoCaller
         /\ request' \in [Callers -> Requests \cup {NoRequest}]
         /\ stage' = "idle" /\ purpose' = "none" /\ attempt' = 0 /\ left' = 0
         /\ attempt' \in 0..(MaxRetries - 1) /\ left' \in 0..MaxRequests
         /\ running # NoCaller /\ outcome' \in Outcomes
<1>1. TypeOK
  BY DEF IInv
<1>2. waiting' \in Seq(Callers) /\ running' = NoCaller /\ running # NoCaller
  BY <1>1, GateTypes DEF Settle, Gate!Settle
<1>3. request' \in [Callers -> Requests \cup {NoRequest}]
  BY <1>1 DEF Settle, TypeOK
<1>. QED
  BY <1>2, <1>3, MaxRetriesAssumption, MaxRequestsAssumption DEF Settle, Outcomes

\* The turn goes on with the same request record.
LEMMA SameTurn ==
  ASSUME UNCHANGED gateVars
  PROVE  /\ Op' = Op /\ Reg' = Reg /\ running' = running
         /\ waiting' = waiting /\ request' = request /\ outcome' = outcome
BY DEF gateVars, Op, Reg

\* The request ends: the turn ends with it, or goes on to the next request of
\* a batch or of a detection, but not of a write.
LEMMA FinishRequestEffect ==
  ASSUME IInv, FinishRequest, stage \notin {"idle", "begin"}
  PROVE  /\ waiting' \in Seq(Callers) /\ running' \in Callers \cup {NoCaller}
         /\ request' \in [Callers -> Requests \cup {NoRequest}] /\ outcome' \in Outcomes
         /\ stage' \in {"idle", "ready", "probe"} /\ purpose' = "none"
         /\ attempt' \in 0..(MaxRetries - 1) /\ left' \in 0..MaxRequests
         /\ stage' = "idle" => running' = NoCaller /\ left' = 0
         /\ stage' # "idle" => running' = running /\ running # NoCaller /\ Op' = Op /\ Op # "write"
         /\ stage' = "ready" => Op = "batch"
         /\ stage' = "probe" => Op = "detect"
         /\ left' > 1 => Op \in {"batch", "detect"}
<1>1. CASE left = 1 /\ Settle
  BY <1>1, SettleEffect
<1>2. CASE left > 1 /\ ~ Settle
  <2>1. /\ left' = left - 1 /\ attempt' = 0 /\ purpose' = "none"
        /\ stage' = IF Op = "batch" THEN "ready" ELSE "probe"
        /\ UNCHANGED gateVars
    BY <1>2 DEF FinishRequest
  <2>2. TypeOK /\ TurnTaken /\ TurnShape
    BY DEF IInv
  <2>3. Op \in {"batch", "detect"}
    BY <1>2, <2>2 DEF TurnShape
  <2>4. left' \in 0..MaxRequests /\ attempt' \in 0..(MaxRetries - 1)
    BY <1>2, <2>1, <2>2, MaxRequestsAssumption, MaxRetriesAssumption DEF TypeOK
  <2>. QED
    BY <2>1, <2>2, <2>3, <2>4, SameTurn DEF TypeOK, TurnTaken
<1>3. CASE left > 1 /\ Settle
  BY <1>3, SettleEffect, CallersAssumption DEF Settle
<1>. QED
  BY <1>1, <1>2, <1>3 DEF FinishRequest

\* A step that ends the turn and leaves the safety state and the clock alone
\* keeps the invariant, provided a tainted transport stays suspect.
LEMMA SettleIInv ==
  ASSUME IInv, Settle, UNCHANGED <<safetyVars, now>>,
         link' \in {"none", "opening", "open", "lost"},
         closePromise' \in {"none", "pending", "resolved", "rejected"},
         suspect' \in BOOLEAN, tainted' \in BOOLEAN,
         TaintedIsSuspect'
  PROVE  IInv'
<1>1. TypeOK'
  BY SettleEffect DEF IInv, TypeOK, safetyVars
<1>2. (TurnTaken /\ TurnShape /\ TrustedIsFresh /\ EepromSpacing)'
  BY SettleEffect DEF TurnTaken, TurnShape, TrustedIsFresh, TrustedStages, EepromSpacing, Written
<1>. QED
  BY <1>1, <1>2 DEF IInv

\* The same for a step that ends the request; a tainted transport must not be
\* carried over to the next request of a batch.
LEMMA EndOfRequestIInv ==
  ASSUME IInv, FinishRequest, stage \notin {"idle", "begin"},
         UNCHANGED <<safetyVars, now>>,
         link' \in {"none", "opening", "open", "lost"},
         closePromise' \in {"none", "pending", "resolved", "rejected"},
         suspect' \in BOOLEAN, tainted' \in BOOLEAN,
         TaintedIsSuspect',
         Op = "batch" => ~ tainted'
  PROVE  IInv'
<1>1. CASE Settle
  BY <1>1, SettleIInv
<1>2. CASE FinishRequest /\ ~ Settle
  <2>1. TypeOK'
    BY <1>2, FinishRequestEffect DEF IInv, TypeOK, safetyVars
  <2>2. (TurnTaken /\ TurnShape /\ EepromSpacing)'
    BY <1>2, FinishRequestEffect DEF TurnTaken, TurnShape, EepromSpacing, Written
  <2>3. TrustedIsFresh'
    BY <1>2, FinishRequestEffect DEF FinishRequest, TrustedIsFresh, TrustedStages
  <2>. QED
    BY <2>1, <2>2, <2>3 DEF IInv
<1>. QED
  BY <1>1, <1>2

\* A step within the turn that leaves the safety state and the clock alone: a
\* write gets past the planning stage only when it is not throttled.
LEMMA WithinTurnIInv ==
  ASSUME IInv, UNCHANGED gateVars, UNCHANGED <<safetyVars, now>>,
         stage # "idle",
         stage' \in {"closing", "connecting", "probe", "ready", "answer", "backoff"},
         purpose' \in {"none", "lifecycle", "ensure", "probe", "retry"},
         attempt' \in 0..(MaxRetries - 1), left' \in 0..MaxRequests,
         link' \in {"none", "opening", "open", "lost"},
         closePromise' \in {"none", "pending", "resolved", "rejected"},
         suspect' \in BOOLEAN, tainted' \in BOOLEAN,
         TaintedIsSuspect', TrustedIsFresh',
         purpose' = "probe" => Op \in {"probe", "detect"},
         stage' = "probe" => Op = "detect",
         left' > 1 => Op \in {"batch", "detect"},
         Op = "write" /\ stage = "begin" => ~ Throttled(Reg)
  PROVE  IInv'
<1>1. TypeOK'
  BY SameTurn DEF IInv, TypeOK, safetyVars
<1>2. (TurnTaken /\ TurnShape)'
  BY SameTurn DEF IInv, TurnTaken, TurnShape
<1>3. EepromSpacing'
  <2> SUFFICES ASSUME NEW r \in EepromRegs, Written(r)'
               PROVE  lastWrite'[r] = Never \/ now' - lastWrite'[r] >= EepromInterval
    BY DEF EepromSpacing
  <2>1. Op = "write" /\ Reg = r /\ lastWrite' = lastWrite /\ now' = now
    BY SameTurn DEF Written, safetyVars
  <2>2. CASE stage = "begin"
    <3>1. now \in Int /\ EepromInterval \in Int /\ (lastWrite[r] = Never \/ lastWrite[r] \in Int)
      BY TimeAssumption DEF IInv, TypeOK, Times
    <3>. QED
      BY <2>1, <2>2, <3>1 DEF Throttled
  <2>3. CASE stage # "begin"
    BY <2>1, <2>3 DEF IInv, EepromSpacing, Written
  <2>. QED
    BY <2>2, <2>3
<1>. QED
  BY <1>1, <1>2, <1>3 DEF IInv

\* What ensuring the connection leaves behind.
LEMMA EnsureConnectedEffect ==
  ASSUME IInv, NEW p \in {"ensure", "probe"}, EnsureConnected(p)
  PROVE  /\ stage' \in {"closing", "connecting", "ready"}
         /\ purpose' \in {"none", p}
         /\ link' \in {"none", "opening", "open", "lost"}
         /\ closePromise' \in {"none", "pending", "resolved", "rejected"}
         /\ suspect' \in BOOLEAN /\ tainted' \in BOOLEAN
         /\ TaintedIsSuspect' /\ TrustedIsFresh'
<1>0. TypeOK /\ TaintedIsSuspect
  BY DEF IInv
<1>1. CASE link = "open" /\ ~ suspect /\ stage' = "ready" /\ purpose' = "none" /\ UNCHANGED <<linkVars, suspect>>
  BY <1>0, <1>1 DEF TypeOK, linkVars, TaintedIsSuspect, TrustedIsFresh, TrustedStages
<1>2. CASE suspect /\ link # "none" /\ CloseTransport(p) /\ UNCHANGED <<suspect, tainted>>
  BY <1>0, <1>2 DEF TypeOK, CloseTransport, TaintedIsSuspect, TrustedIsFresh, TrustedStages
<1>3. CASE OpenTransport(p) /\ suspect' = FALSE
  BY <1>0, <1>3 DEF TypeOK, OpenTransport, TaintedIsSuspect, TrustedIsFresh, TrustedStages
<1>. QED
  BY <1>1, <1>2, <1>3 DEF EnsureConnected

LEMMA BeginRequestsIInv == ASSUME IInv, BeginRequests PROVE IInv'
<1>1. /\ left' \in 0..MaxRequests
      /\ left' > 1 => Op \in {"batch", "detect"}
      /\ Op = "write" => ~ Throttled(Reg)
  BY MaxRequestsAssumption DEF BeginRequests
<1>2. PICK p \in {"ensure", "probe"} : EnsureConnected(p) /\ (p = "probe" => Op = "probe")
  BY DEF BeginRequests
<1>3. attempt' \in 0..(MaxRetries - 1) /\ UNCHANGED gateVars /\ UNCHANGED <<safetyVars, now>> /\ stage = "begin"
  BY DEF BeginRequests, IInv, TypeOK
<1>. QED
  BY <1>1, <1>2, <1>3, EnsureConnectedEffect, WithinTurnIInv

LEMMA NextProbeIInv == ASSUME IInv, NextProbe PROVE IInv'
<1>1. /\ attempt' \in 0..(MaxRetries - 1) /\ left' \in 0..MaxRequests
      /\ UNCHANGED gateVars /\ UNCHANGED <<safetyVars, now>> /\ stage = "probe"
      /\ Op = "detect"
  BY DEF NextProbe, IInv, TypeOK, TurnShape
<1>2. EnsureConnected("probe")
  BY DEF NextProbe
<1>. QED
  BY <1>1, <1>2, EnsureConnectedEffect, WithinTurnIInv

\* A transport just created is not tainted.
OpenTransportEffect(p) ==
  /\ stage' = "connecting" /\ purpose' = p
  /\ link' \in {"none", "opening", "open", "lost"}
  /\ closePromise' \in {"none", "pending", "resolved", "rejected"}
  /\ tainted' \in BOOLEAN /\ TaintedIsSuspect' /\ TrustedIsFresh'

LEMMA OpenTransportIsFresh == ASSUME NEW p, OpenTransport(p) PROVE OpenTransportEffect(p)
BY DEF OpenTransport, OpenTransportEffect, TaintedIsSuspect, TrustedIsFresh

LEMMA BeginConnectIInv == ASSUME IInv, BeginConnect PROVE IInv'
<1>0. /\ stage = "begin" /\ Op = "connect" /\ left = 0 /\ attempt \in 0..(MaxRetries - 1) /\ left \in 0..MaxRequests
      /\ suspect' = suspect /\ suspect' \in BOOLEAN /\ UNCHANGED <<safetyVars, now>>
  BY DEF BeginConnect, IInv, TypeOK, TurnShape
<1>1. CASE Settle /\ UNCHANGED linkVars
  BY <1>0, <1>1, SettleIInv DEF IInv, TypeOK, TaintedIsSuspect, linkVars
<1>2. CASE OpenTransport("lifecycle") /\ UNCHANGED <<gateVars, attempt, left>>
  <2>1. attempt' \in 0..(MaxRetries - 1) /\ left' \in 0..MaxRequests /\ ~ (left' > 1) /\ UNCHANGED gateVars
    BY <1>0, <1>2
  <2>2. OpenTransportEffect("lifecycle")
    BY <1>2, OpenTransportIsFresh
  <2>. QED
    BY <1>0, <2>1, <2>2, WithinTurnIInv DEF OpenTransportEffect
<1>. QED
  BY <1>1, <1>2 DEF BeginConnect

LEMMA BeginDisconnectIInv == ASSUME IInv, BeginDisconnect PROVE IInv'
<1>0. /\ stage = "begin" /\ Op = "disconnect" /\ left = 0 /\ attempt \in 0..(MaxRetries - 1) /\ left \in 0..MaxRequests
      /\ suspect' = suspect /\ suspect' \in BOOLEAN /\ UNCHANGED <<safetyVars, now>>
  BY DEF BeginDisconnect, IInv, TypeOK, TurnShape
<1>1. CASE Settle /\ UNCHANGED linkVars
  BY <1>0, <1>1, SettleIInv DEF IInv, TypeOK, TaintedIsSuspect, linkVars
<1>2. CASE CloseTransport("lifecycle") /\ UNCHANGED <<gateVars, attempt, left, tainted>>
  <2>1. attempt' = attempt /\ left' = left /\ UNCHANGED gateVars /\ tainted' = tainted
    BY <1>2
  <2>. QED
    BY <1>0, <1>2, <2>1, WithinTurnIInv
       DEF CloseTransport, IInv, TypeOK, TaintedIsSuspect, TrustedIsFresh, TrustedStages
<1>. QED
  BY <1>1, <1>2 DEF BeginDisconnect

LEMMA BeginForceReconnectIInv == ASSUME IInv, BeginForceReconnect PROVE IInv'
<1>0. /\ stage = "begin" /\ Op = "forceReconnect" /\ left = 0 /\ attempt \in 0..(MaxRetries - 1) /\ left \in 0..MaxRequests
      /\ attempt' = attempt /\ left' = left /\ UNCHANGED gateVars /\ UNCHANGED <<safetyVars, now>>
  BY DEF BeginForceReconnect, IInv, TypeOK, TurnShape
<1>1. CASE OpenTransport("lifecycle") /\ suspect' = FALSE
  <2>1. attempt' \in 0..(MaxRetries - 1) /\ left' \in 0..MaxRequests /\ ~ (left' > 1)
    BY <1>0
  <2>2. OpenTransportEffect("lifecycle")
    BY <1>1, OpenTransportIsFresh
  <2>. QED
    BY <1>0, <1>1, <2>1, <2>2, WithinTurnIInv DEF OpenTransportEffect
<1>2. CASE CloseTransport("lifecycle") /\ UNCHANGED <<suspect, tainted>>
  BY <1>0, <1>2, WithinTurnIInv
     DEF CloseTransport, IInv, TypeOK, TaintedIsSuspect, TrustedIsFresh, TrustedStages
<1>. QED
  BY <1>1, <1>2 DEF BeginForceReconnect

LEMMA BeginWithoutTrafficIInv == ASSUME IInv, BeginWithoutTraffic PROVE IInv'
<1>1. UNCHANGED <<linkVars, suspect>> /\ UNCHANGED <<safetyVars, now>> /\ Settle
  BY DEF BeginWithoutTraffic
<1>. QED
  BY <1>1, SettleIInv DEF IInv, TypeOK, TaintedIsSuspect, linkVars

-----------------------------------------------------------------------------
(* Closing and connecting *)

LEMMA CloseSucceedsIInv == ASSUME IInv, CloseSucceeds PROVE IInv'
<1>0. stage = "closing" /\ UNCHANGED <<safetyVars, now>>
  BY DEF CloseSucceeds
<1>1. CASE Settle /\ link' = "none" /\ closePromise' = "none" /\ tainted' = FALSE /\ UNCHANGED suspect
  BY <1>0, <1>1, SettleIInv DEF IInv, TypeOK, TaintedIsSuspect
<1>2. CASE OpenTransport(purpose) /\ suspect' = (suspect /\ purpose = "retry") /\ UNCHANGED <<gateVars, attempt, left>>
  <2>1. /\ attempt' \in 0..(MaxRetries - 1) /\ left' \in 0..MaxRequests /\ left' = left /\ UNCHANGED gateVars
        /\ suspect' \in BOOLEAN /\ purpose \in {"none", "lifecycle", "ensure", "probe", "retry"}
    BY <1>2 DEF IInv, TypeOK
  <2>2. (left > 1 => Op \in {"batch", "detect"}) /\ (purpose = "probe" => Op \in {"probe", "detect"})
    BY DEF IInv, TurnShape
  <2>. QED
    BY <1>0, <1>2, <2>1, <2>2, WithinTurnIInv, OpenTransportIsFresh DEF OpenTransportEffect
<1>. QED
  BY <1>1, <1>2 DEF CloseSucceeds

LEMMA FailConnectionIInv ==
  ASSUME IInv, NEW kind \in ErrorKinds, FailConnection(kind), stage \in {"closing", "connecting"},
         UNCHANGED <<suspect, safetyVars, now>>,
         link' \in {"none", "opening", "open", "lost"},
         closePromise' \in {"none", "pending", "resolved", "rejected"},
         tainted' = tainted, tainted => link' # "none"
  PROVE  IInv'
<1>1. suspect' \in BOOLEAN /\ tainted' \in BOOLEAN /\ TaintedIsSuspect' /\ UNCHANGED <<safetyVars, now>>
  BY DEF IInv, TypeOK, TaintedIsSuspect
<1>2. (FinishRequest /\ Op # "batch") \/ Settle
  BY DEF FailConnection, IInv, TurnShape
<1>. QED
  BY <1>1, <1>2, SettleIInv, EndOfRequestIInv

LEMMA CloseFailsIInv == ASSUME IInv, CloseFails PROVE IInv'
<1>1. /\ FailConnection("link") /\ stage = "closing" /\ UNCHANGED <<suspect, safetyVars, now>>
      /\ link' = link /\ tainted' = tainted /\ closePromise' = "rejected"
  BY DEF CloseFails
<1>2. link \in {"none", "opening", "open", "lost"} /\ (tainted => link # "none") /\ "link" \in ErrorKinds
  BY DEF IInv, TypeOK, TaintedIsSuspect, ErrorKinds
<1>. QED
  BY <1>1, <1>2, FailConnectionIInv

LEMMA ConnectSucceedsIInv == ASSUME IInv, ConnectSucceeds PROVE IInv'
<1>0. /\ stage = "connecting" /\ ~ tainted /\ link' = "open" /\ closePromise' = closePromise
      /\ tainted' = tainted /\ suspect' = suspect /\ UNCHANGED <<safetyVars, now>>
  BY DEF ConnectSucceeds, IInv, TrustedIsFresh, TrustedStages
<1>1. /\ link' \in {"none", "opening", "open", "lost"}
      /\ closePromise' \in {"none", "pending", "resolved", "rejected"}
      /\ suspect' \in BOOLEAN /\ tainted' \in BOOLEAN /\ TaintedIsSuspect' /\ (stage' # "answer" => TrustedIsFresh')
  BY <1>0 DEF IInv, TypeOK, TaintedIsSuspect, TrustedIsFresh
<1>2. CASE Settle
  BY <1>0, <1>1, <1>2, SettleIInv
<1>3. CASE /\ stage' = IF purpose = "retry" THEN "backoff" ELSE "ready"
           /\ purpose' = "none" /\ UNCHANGED <<gateVars, attempt, left>>
  <2>1. /\ attempt' \in 0..(MaxRetries - 1) /\ left' \in 0..MaxRequests /\ UNCHANGED gateVars
        /\ left' > 1 => Op \in {"batch", "detect"}
    BY <1>3 DEF IInv, TypeOK, TurnShape
  <2>2. stage' \in {"backoff", "ready"}
    BY <1>3
  <2>. QED
    BY <1>0, <1>1, <1>3, <2>1, <2>2, WithinTurnIInv
<1>. QED
  BY <1>2, <1>3 DEF ConnectSucceeds

LEMMA ConnectFailsIInv ==
  ASSUME IInv, NEW kind \in {"link", "other"}, ConnectFails(kind)
  PROVE  IInv'
<1>0. /\ stage = "connecting" /\ ~ tainted /\ link' = "none" /\ closePromise' = closePromise
      /\ tainted' = tainted /\ suspect' = suspect /\ UNCHANGED <<safetyVars, now>>
  BY DEF ConnectFails, IInv, TrustedIsFresh, TrustedStages
<1>1. /\ link' \in {"none", "opening", "open", "lost"}
      /\ closePromise' \in {"none", "pending", "resolved", "rejected"}
      /\ suspect' \in BOOLEAN /\ tainted' \in BOOLEAN /\ TaintedIsSuspect' /\ (stage' # "answer" => TrustedIsFresh')
  BY <1>0 DEF IInv, TypeOK, TaintedIsSuspect, TrustedIsFresh
<1>2. CASE FailConnection(kind)
  BY <1>0, <1>1, <1>2, FailConnectionIInv DEF ErrorKinds
<1>3. CASE stage' = "backoff" /\ purpose' = "none" /\ UNCHANGED <<gateVars, attempt, left>>
  <2>1. /\ attempt' \in 0..(MaxRetries - 1) /\ left' \in 0..MaxRequests /\ UNCHANGED gateVars
        /\ left' > 1 => Op \in {"batch", "detect"}
    BY <1>3 DEF IInv, TypeOK, TurnShape
  <2>. QED
    BY <1>0, <1>1, <1>3, <2>1, WithinTurnIInv
<1>. QED
  BY <1>2, <1>3 DEF ConnectFails

-----------------------------------------------------------------------------
(* Requests and retries *)

LEMMA AttemptsBounded == Attempts \in Nat /\ Attempts <= MaxRetries /\ Attempts >= 1
BY MaxRetriesAssumption DEF Attempts

\* A failed attempt: only a link failure taints, and it makes suspect as well.
LEMMA AttemptFailsIInv ==
  ASSUME IInv, NEW kind \in ErrorKinds, AttemptFails(kind), UNCHANGED <<safetyVars, now>>,
         stage \in {"ready", "answer"}
  PROVE  IInv'
<1>0. /\ TypeOK /\ ~ tainted /\ attempt \in Nat
      /\ suspect' = (suspect \/ kind = "link")
      /\ tainted' = (tainted \/ (kind = "link" /\ stage = "answer"))
  BY DEF IInv, TypeOK, TrustedIsFresh, TrustedStages, AttemptFails
<1>1. suspect' \in BOOLEAN /\ tainted' \in BOOLEAN /\ (tainted' => suspect' /\ kind = "link" /\ link # "none")
  BY <1>0 DEF IInv, TypeOK, TrustedIsFresh
<1>2. CASE (FinishRequest \/ Settle) /\ (FinishRequest /\ Op = "batch" => kind # "link" \/ Settle) /\ UNCHANGED <<link, closePromise>>
  <2>1. TaintedIsSuspect' /\ link' = link /\ closePromise' = closePromise
    BY <1>1, <1>2 DEF TaintedIsSuspect
  <2>2. CASE Settle
    BY <1>0, <1>1, <2>1, <2>2, SettleIInv DEF TypeOK
  <2>3. CASE FinishRequest /\ ~ Settle
    BY <1>0, <1>1, <1>2, <2>1, <2>3, EndOfRequestIInv DEF TypeOK
  <2>. QED
    BY <1>2, <2>2, <2>3
<1>3. CASE /\ kind = "link" /\ attempt + 1 < Attempts /\ attempt' = attempt + 1
           /\ IF link = "none" THEN OpenTransport("retry") ELSE CloseTransport("retry")
           /\ UNCHANGED <<gateVars, left>>
  <2>0. attempt' \in 0..(MaxRetries - 1)
    BY <1>0, <1>3, AttemptsBounded, MaxRetriesAssumption
  <2>1. /\ left' \in 0..MaxRequests /\ UNCHANGED gateVars
        /\ left' > 1 => Op \in {"batch", "detect"}
    BY <1>3 DEF IInv, TypeOK, TurnShape
  <2>2. CASE OpenTransport("retry")
    BY <1>0, <1>1, <2>0, <2>1, <2>2, WithinTurnIInv, OpenTransportIsFresh DEF OpenTransportEffect
  <2>3. CASE link # "none" /\ CloseTransport("retry")
    <3>1. /\ stage' = "closing" /\ purpose' = "retry" /\ link' = link
          /\ closePromise' \in {"none", "pending", "resolved", "rejected"}
      BY <1>0, <2>3 DEF CloseTransport, TypeOK
    <3>2. TaintedIsSuspect' /\ TrustedIsFresh'
      BY <1>1, <2>3, <3>1 DEF TaintedIsSuspect, TrustedIsFresh, TrustedStages
    <3>. QED
      BY <1>0, <1>1, <2>0, <2>1, <3>1, <3>2, WithinTurnIInv DEF TypeOK
  <2>. QED
    BY <1>3, <2>2, <2>3
<1>4. CASE /\ kind = "device" /\ attempt + 1 < Attempts /\ attempt' = attempt + 1
           /\ stage' = "backoff" /\ UNCHANGED <<gateVars, purpose, left, link, closePromise>>
  <2>0. attempt' \in 0..(MaxRetries - 1)
    BY <1>0, <1>4, AttemptsBounded, MaxRetriesAssumption
  <2>1. /\ left' \in 0..MaxRequests /\ UNCHANGED gateVars
        /\ left' > 1 => Op \in {"batch", "detect"}
        /\ purpose' = purpose /\ (purpose = "probe" => Op \in {"probe", "detect"})
    BY <1>4 DEF IInv, TypeOK, TurnShape
  <2>2. tainted' = FALSE /\ link' = link /\ closePromise' = closePromise
    BY <1>0, <1>4
  <2>3. TaintedIsSuspect' /\ TrustedIsFresh'
    BY <1>4, <2>2 DEF TaintedIsSuspect, TrustedIsFresh
  <2>. QED
    BY <1>0, <1>1, <1>4, <2>0, <2>1, <2>2, <2>3, WithinTurnIInv DEF TypeOK
<1>. QED
  BY <1>2, <1>3, <1>4 DEF AttemptFails

LEMMA SendIInv == ASSUME IInv, Send PROVE IInv'
<1>1. /\ stage = "ready" /\ stage' = "answer" /\ link = "open" /\ UNCHANGED gateVars /\ UNCHANGED <<safetyVars, now>>
      /\ UNCHANGED <<purpose, attempt, left, link, closePromise, tainted, suspect>>
  BY DEF Send, linkVars
<1>2. TaintedIsSuspect' /\ TrustedIsFresh'
  BY <1>1 DEF IInv, TaintedIsSuspect, TrustedIsFresh, TrustedStages
<1>. QED
  BY <1>1, <1>2, WithinTurnIInv DEF IInv, TypeOK, TurnShape

LEMMA RetryNowIInv == ASSUME IInv, RetryNow PROVE IInv'
<1>1. /\ stage = "backoff" /\ stage' = "ready" /\ UNCHANGED gateVars /\ UNCHANGED <<safetyVars, now>>
      /\ UNCHANGED <<purpose, attempt, left, link, closePromise, tainted, suspect>>
  BY DEF RetryNow, linkVars
<1>2. TaintedIsSuspect' /\ TrustedIsFresh'
  BY <1>1 DEF IInv, TaintedIsSuspect, TrustedIsFresh, TrustedStages
<1>. QED
  BY <1>1, <1>2, WithinTurnIInv DEF IInv, TypeOK, TurnShape

LEMMA SendWithoutTransportIInv == ASSUME IInv, SendWithoutTransport PROVE IInv'
BY AttemptFailsIInv DEF SendWithoutTransport, ErrorKinds

LEMMA RequestFailsIInv ==
  ASSUME IInv, NEW kind \in ErrorKinds, RequestFails(kind)
  PROVE  IInv'
BY AttemptFailsIInv DEF RequestFails

\* An acknowledged write is recorded only when its turn ends, so the record
\* cannot throttle the write that caused it.
LEMMA AnsweredIInv == ASSUME IInv, Answered PROVE IInv'
<1>0. /\ stage = "answer" /\ ~ tainted /\ FinishRequest /\ suspect' = FALSE
      /\ UNCHANGED <<link, closePromise, tainted, now>>
  BY DEF Answered, linkVars, IInv, TrustedIsFresh, TrustedStages
<1>1. TaintedIsSuspect'
  BY <1>0 DEF TaintedIsSuspect
<1>2. CASE UNCHANGED safetyVars
  BY <1>0, <1>1, <1>2, EndOfRequestIInv DEF IInv, TypeOK
<1>3. CASE Op = "write" /\ Record(Reg)
  <2>1. Settle
    BY <1>0, <1>3 DEF FinishRequest, IInv, TurnShape
  <2>2. /\ lastWrite' \in [EepromRegs -> Times \cup {Never}]
        /\ deadline' \in [CyclicRegs -> Nat \cup {Never}]
    <3>1. now \in Times /\ now + CyclicTtl \in Nat
      BY TimeAssumption DEF IInv, TypeOK, Times
    <3>. QED
      BY <1>3, <3>1 DEF IInv, TypeOK, Record
  <2>3. TypeOK'
    BY <1>0, <2>1, <2>2, SettleEffect DEF IInv, TypeOK
  <2>4. (TurnTaken /\ TurnShape /\ TrustedIsFresh /\ EepromSpacing)'
    BY <2>1, SettleEffect
      DEF TurnTaken, TurnShape, TrustedIsFresh, TrustedStages, EepromSpacing, Written
  <2>. QED
    BY <1>1, <2>3, <2>4 DEF IInv
<1>. QED
  BY <1>2, <1>3 DEF Answered

-----------------------------------------------------------------------------
(* What happens at any time *)

LEMMA DropIInv == ASSUME IInv, Drop PROVE IInv'
<1>1. TypeOK'
  BY DEF IInv, Drop, TypeOK, gateVars, turnVars, safetyVars
<1>2. (TurnTaken /\ TurnShape /\ TaintedIsSuspect /\ TrustedIsFresh /\ EepromSpacing)'
  BY DEF IInv, Drop, gateVars, turnVars, safetyVars, TurnTaken, TurnShape, TaintedIsSuspect,
    TrustedIsFresh,
     EepromSpacing, Written, Op, Reg
<1>. QED
  BY <1>1, <1>2 DEF IInv

\* Time only lengthens the distance to the last acknowledged write.
LEMMA TickIInv == ASSUME IInv, Tick PROVE IInv'
<1>1. TypeOK'
  BY TimeAssumption DEF IInv, Tick, TypeOK, Times, gateVars, turnVars, linkVars, safetyVars
<1>2. (TurnTaken /\ TurnShape /\ TaintedIsSuspect /\ TrustedIsFresh)'
  BY DEF IInv, Tick, gateVars, turnVars, linkVars, TurnTaken, TurnShape, TaintedIsSuspect,
    TrustedIsFresh, Op
<1>3. EepromSpacing'
  <2>1. \A r \in EepromRegs : Written(r)' <=> Written(r)
    BY DEF Tick, gateVars, turnVars, Written, Op, Reg
  <2>2. \A r \in EepromRegs : lastWrite'[r] = lastWrite[r] /\ (lastWrite[r] = Never \/ lastWrite[r] \in Int)
    BY DEF IInv, TypeOK, Times, Tick, safetyVars
  <2>3. now' = now + 1 /\ now \in Int /\ EepromInterval \in Int
    BY TimeAssumption DEF IInv, TypeOK, Times, Tick
  <2>. QED
    BY <2>1, <2>2, <2>3 DEF IInv, EepromSpacing
<1>. QED
  BY <1>1, <1>2, <1>3 DEF IInv

LEMMA ControlIInv == ASSUME IInv, Control PROVE IInv'
<1>1. /\ UNCHANGED <<gateVars, turnVars, linkVars, suspect, now>>
      /\ lastWrite' = lastWrite \/ (\E R : lastWrite' = [r \in EepromRegs |-> IF r \in R THEN Never ELSE lastWrite[r]])
      /\ deadline' = deadline \/ (\E R : deadline' = [r \in CyclicRegs |-> IF r \in R THEN Never ELSE deadline[r]])
  BY DEF Control, ResetWriteThrottle, ResetCyclicWriteState
<1>2. /\ lastWrite' \in [EepromRegs -> Times \cup {Never}]
      /\ \A r \in EepromRegs : lastWrite'[r] \in {lastWrite[r], Never}
      /\ deadline' \in [CyclicRegs -> Nat \cup {Never}]
  BY <1>1 DEF IInv, TypeOK
<1>3. TypeOK'
  BY <1>1, <1>2 DEF IInv, TypeOK, gateVars, turnVars, linkVars
<1>4. (TurnTaken /\ TurnShape /\ TaintedIsSuspect /\ TrustedIsFresh)'
  BY <1>1 DEF IInv, gateVars, turnVars, linkVars, TurnTaken, TurnShape, TaintedIsSuspect,
    TrustedIsFresh, Op
<1>5. EepromSpacing'
  BY <1>1, <1>2 DEF IInv, gateVars, turnVars, EepromSpacing, Written, Op, Reg
<1>. QED
  BY <1>3, <1>4, <1>5 DEF IInv

LEMMA StutterIInv == ASSUME IInv, UNCHANGED vars PROVE IInv'
BY DEF IInv, vars, gateVars, turnVars, linkVars, safetyVars, TypeOK, TurnTaken, TurnShape,
  TaintedIsSuspect,
   TrustedIsFresh, EepromSpacing, Written, Op, Reg

LEMMA TurnStepIInv == ASSUME IInv, TurnStep PROVE IInv'
BY BeginWithoutTrafficIInv, BeginRequestsIInv, NextProbeIInv, BeginConnectIInv, BeginDisconnectIInv,
   BeginForceReconnectIInv, CloseSucceedsIInv, CloseFailsIInv, ConnectSucceedsIInv, ConnectFailsIInv,
   SendIInv, SendWithoutTransportIInv, AnsweredIInv, RetryNowIInv, RequestFailsIInv DEF TurnStep

LEMMA NextIInv == IInv /\ [Next]_vars => IInv'
BY CallIInv, StartIInv, TurnStepIInv, ControlIInv, DropIInv, TickIInv, StutterIInv DEF Next

THEOREM SpecIInv == Spec => []IInv
BY InitIInv, NextIInv, PTL DEF Spec

\* The variables of the client keep their types.
THEOREM ClientTypes == Spec => []TypeOK
<1>1. IInv => TypeOK
  BY DEF IInv
<1>. QED
  BY <1>1, SpecIInv, PTL

\* No EEPROM register is written within the interval after its last
\* acknowledged write, for any number of callers and any interval.
THEOREM ClientSpacesEepromWrites == Spec => []EepromSpacing
<1>1. IInv => EepromSpacing
  BY DEF IInv
<1>. QED
  BY <1>1, SpecIInv, PTL

\* No request is sent on a transport with an unanswered request.
THEOREM ClientUsesFreshLinks == Spec => []FreshLink
<1>1. IInv => FreshLink
  BY DEF IInv, TrustedIsFresh, TrustedStages, FreshLink
<1>. QED
  BY <1>1, SpecIInv, PTL

-----------------------------------------------------------------------------
(* Action properties *)

\* A socket is being opened exactly while a connect is awaited, only a
\* transport that was connected once has a close promise, and no request is
\* tried on a transport that the client is stuck on.
LinkShape ==
  /\ stage = "connecting" => link = "opening" /\ closePromise = "none"
  /\ link = "opening" => stage = "connecting"
  /\ closePromise # "none" => link \in {"open", "lost"}
  /\ stage \in {"ready", "answer", "backoff"} => ~ Stuck

\* A transport is created for a connect, and closed only when it was connected.
LEMMA OpenTransportShape == ASSUME NEW p, OpenTransport(p) PROVE LinkShape'
BY DEF OpenTransport, LinkShape

LEMMA CloseTransportShape ==
  ASSUME IInv, LinkShape, NEW p, CloseTransport(p), link # "none", stage # "connecting"
  PROVE  LinkShape' /\ (closePromise = "rejected" => closePromise' = "rejected")
BY DEF CloseTransport, LinkShape, IInv, TypeOK

\* A step that leaves the transport and suspicion alone, or that makes it only
\* less suspect, and awaits no connect.
LEMMA SameLinkShape ==
  ASSUME LinkShape, link' = link, closePromise' = closePromise, suspect' => suspect,
         stage # "connecting", stage' # "connecting",
         stage' \in {"ready", "answer", "backoff"} => stage \in {"ready", "answer", "backoff"} \/ ~ suspect'
  PROVE  LinkShape'
BY DEF LinkShape, Stuck

LEMMA EnsureConnectedShape ==
  ASSUME IInv, LinkShape, NEW p, EnsureConnected(p), stage # "connecting"
  PROVE  LinkShape' /\ (Stuck => Stuck')
<1>1. CASE link = "open" /\ ~ suspect /\ stage' = "ready" /\ UNCHANGED <<linkVars, suspect>>
  BY <1>1, SameLinkShape DEF linkVars, Stuck
<1>2. CASE suspect /\ link # "none" /\ CloseTransport(p) /\ UNCHANGED <<suspect, tainted>>
  BY <1>2, CloseTransportShape DEF Stuck
<1>3. CASE (IF suspect THEN link = "none" ELSE link # "open") /\ OpenTransport(p)
  BY <1>3, OpenTransportShape DEF LinkShape, Stuck
<1> QED
  BY <1>1, <1>2, <1>3 DEF EnsureConnected

\* The steps that begin an operation or probe anew.
LEMMA BeginShape ==
  ASSUME IInv, LinkShape,
         \/ BeginWithoutTraffic \/ BeginRequests \/ NextProbe
         \/ BeginConnect \/ BeginDisconnect \/ BeginForceReconnect
  PROVE  LinkShape' /\ (Stuck => Stuck' \/ (stage = "begin" /\ Op = "connect" /\ link = "lost"))
<1>1. ASSUME Settle, UNCHANGED <<linkVars, suspect>>, stage # "connecting" PROVE LinkShape' /\ (Stuck => Stuck')
  BY <1>1, SameLinkShape DEF Settle, linkVars, Stuck
<1>2. CASE BeginWithoutTraffic
  BY <1>1, <1>2 DEF BeginWithoutTraffic
<1>3. CASE BeginRequests \/ NextProbe
  BY <1>3, EnsureConnectedShape DEF BeginRequests, NextProbe
<1>4. CASE BeginConnect
  <2>1. CASE Settle /\ UNCHANGED linkVars
    BY <1>1, <1>4, <2>1 DEF BeginConnect
  <2>2. CASE link # "open" /\ OpenTransport("lifecycle")
    BY <1>4, <2>2, OpenTransportShape DEF BeginConnect, LinkShape, Stuck
  <2> QED
    BY <1>4, <2>1, <2>2 DEF BeginConnect
<1>5. CASE BeginDisconnect
  <2>1. CASE Settle /\ UNCHANGED linkVars
    BY <1>1, <1>5, <2>1 DEF BeginDisconnect
  <2>2. CASE link # "none" /\ CloseTransport("lifecycle")
    BY <1>5, <2>2, CloseTransportShape DEF BeginDisconnect, Stuck
  <2> QED
    BY <1>5, <2>1, <2>2 DEF BeginDisconnect
<1>6. CASE BeginForceReconnect
  <2>1. CASE link = "none" /\ OpenTransport("lifecycle")
    BY <2>1, OpenTransportShape DEF LinkShape, Stuck
  <2>2. CASE link # "none" /\ CloseTransport("lifecycle") /\ UNCHANGED <<suspect, tainted>>
    BY <1>6, <2>2, CloseTransportShape DEF BeginForceReconnect, Stuck
  <2> QED
    BY <1>6, <2>1, <2>2 DEF BeginForceReconnect
<1> QED
  BY <1>2, <1>3, <1>4, <1>5, <1>6

\* A failed close or connect sends no request of a batch.
LEMMA FailConnectionStage ==
  ASSUME IInv, NEW kind, FailConnection(kind)
  PROVE  stage' \in {"idle", "probe"}
<1>1. CASE Settle
  BY <1>1 DEF Settle
<1>2. CASE FinishRequest /\ Op # "batch"
  BY <1>2 DEF FinishRequest, Settle
<1> QED
  BY <1>1, <1>2 DEF FailConnection, IInv, TurnShape

LEMMA CloseShape ==
  ASSUME IInv, LinkShape, CloseSucceeds \/ CloseFails
  PROVE  LinkShape' /\ (Stuck => Stuck')
<1>1. CASE CloseSucceeds
  <2>1. ~ Stuck
    BY <1>1 DEF CloseSucceeds, Stuck
  <2>2. CASE link' = "none" /\ closePromise' = "none" /\ Settle
    BY <2>1, <2>2 DEF LinkShape, Settle
  <2>3. CASE OpenTransport(purpose)
    BY <2>1, <2>3, OpenTransportShape
  <2> QED
    BY <1>1, <2>2, <2>3 DEF CloseSucceeds
<1>2. CASE CloseFails
  <2>1. stage' \in {"idle", "probe"}
    BY <1>2, FailConnectionStage DEF CloseFails
  <2> QED
    BY <1>2, <2>1 DEF CloseFails, LinkShape, Stuck
<1> QED
  BY <1>1, <1>2

LEMMA ConnectShape ==
  ASSUME IInv, LinkShape, ConnectSucceeds \/ \E kind \in {"link", "other"} : ConnectFails(kind)
  PROVE  LinkShape' /\ (Stuck => Stuck')
<1>1. stage = "connecting" /\ link' \in {"open", "none"} /\ closePromise' = closePromise
  BY DEF ConnectSucceeds, ConnectFails
<1>2. stage' # "connecting"
  <2>1. CASE ConnectSucceeds
    BY <2>1 DEF ConnectSucceeds, Settle
  <2>2. ASSUME NEW kind \in {"link", "other"}, ConnectFails(kind) PROVE stage' # "connecting"
    BY <2>2, FailConnectionStage DEF ConnectFails
  <2> QED
    BY <2>1, <2>2
<1> QED
  BY <1>1, <1>2 DEF LinkShape, Stuck

\* The stages after a request is over.
LEMMA FinishRequestStage == ASSUME FinishRequest PROVE stage' \in {"idle", "ready", "probe"}
BY DEF FinishRequest, Settle

\* A request that fails on its link leads to a close or to the end of the turn
\* or of the probe.
LEMMA AttemptShape ==
  ASSUME IInv, LinkShape, NEW kind \in ErrorKinds, AttemptFails(kind), stage \in {"ready", "answer"}
  PROVE  LinkShape' /\ (Stuck => Stuck')
<1>0. suspect' = (suspect \/ kind = "link") /\ suspect \in BOOLEAN
  BY DEF AttemptFails, IInv, TypeOK
<1>1. CASE UNCHANGED <<link, closePromise>> /\ (kind = "link" => stage' \in {"idle", "probe"}) /\ stage' # "connecting"
  <2>1. CASE kind = "link"
    BY <1>1, <2>1, <1>0 DEF LinkShape, Stuck
  <2>2. CASE kind # "link"
    BY <1>0, <1>1, <2>2, SameLinkShape DEF Stuck
  <2> QED
    BY <2>1, <2>2
<1>2. CASE /\ kind = "link"
           /\ IF link = "none" THEN OpenTransport("retry") ELSE CloseTransport("retry")
  <2>1. CASE link = "none" /\ OpenTransport("retry")
    BY <2>1, OpenTransportShape DEF LinkShape, Stuck
  <2>2. CASE link # "none" /\ CloseTransport("retry")
    BY <1>0, <1>2, <2>2, CloseTransportShape DEF Stuck
  <2> QED
    BY <1>2, <2>1, <2>2
<1>3. CASE (kind = "link" => Settle \/ (FinishRequest /\ Op # "batch")) /\ (FinishRequest \/ Settle)
           /\ UNCHANGED <<link, closePromise>>
  <2>1. stage' # "connecting"
    BY <1>3, FinishRequestStage DEF Settle
  <2>2. FinishRequest /\ Op # "batch" => stage' \in {"idle", "probe"}
    BY DEF FinishRequest, Settle
  <2> QED
    BY <1>1, <1>3, <2>1, <2>2 DEF Settle
<1>4. CASE kind = "device" /\ stage' = "backoff" /\ UNCHANGED <<link, closePromise>>
  BY <1>1, <1>4
<1> QED
  BY <1>2, <1>3, <1>4 DEF AttemptFails

LEMMA RequestShape ==
  ASSUME IInv, LinkShape,
         \/ Send \/ SendWithoutTransport \/ Answered \/ RetryNow
         \/ \E kind \in ErrorKinds : RequestFails(kind)
  PROVE  LinkShape' /\ (Stuck => Stuck')
<1>1. CASE Send \/ RetryNow
  BY <1>1, SameLinkShape DEF Send, RetryNow, linkVars, Stuck
<1>2. CASE SendWithoutTransport \/ \E kind \in ErrorKinds : RequestFails(kind)
  BY <1>2, AttemptShape DEF SendWithoutTransport, RequestFails, ErrorKinds
<1>3. CASE Answered
  <2>1. stage' # "connecting" /\ stage = "answer" /\ link' = link /\ closePromise' = closePromise /\ suspect' = FALSE
    BY <1>3, FinishRequestStage DEF Answered, linkVars
  <2>2. ~ Stuck
    BY <2>1 DEF LinkShape
  <2> QED
    BY <2>1, <2>2, SameLinkShape
<1> QED
  BY <1>1, <1>2, <1>3

\* Steps outside the turn, and those that only pass it on.
LEMMA OtherShape ==
  ASSUME IInv, LinkShape,
         \/ \E c \in Callers, req \in Requests : Call(c, req)
         \/ Start \/ Control \/ Drop \/ Tick \/ UNCHANGED vars
  PROVE  LinkShape' /\ (Stuck => Stuck')
<1>1. CASE Drop
  BY <1>1 DEF Drop, turnVars, LinkShape, Stuck
<1>2. CASE Start
  BY <1>2 DEF Start, linkVars, LinkShape, Stuck, Gate!Start, IInv, TurnTaken
<1>3. CASE UNCHANGED <<turnVars, linkVars, suspect>>
  BY <1>3 DEF turnVars, linkVars, LinkShape, Stuck
<1> QED
  BY <1>1, <1>2, <1>3 DEF Call, Control, ResetWriteThrottle, ResetCyclicWriteState, Tick, vars

LEMMA NextShape ==
  ASSUME IInv, LinkShape, [Next]_vars
  PROVE  LinkShape' /\ (Stuck => Stuck' \/ (stage = "begin" /\ Op = "connect" /\ link = "lost"))
<1>1. CASE TurnStep
  BY <1>1, BeginShape, CloseShape, ConnectShape, RequestShape DEF TurnStep
<1> QED
  BY <1>1, OtherShape DEF Next

\* Once stuck on a transport whose close was rejected, the client stays so
\* until a connect finds the socket lost, whoever calls whatever.
THEOREM ClientStaysStuck == Spec => OnlyConnectGetsUnstuck
<1>1. Init => LinkShape
  BY DEF Init, LinkShape, Stuck
<1>2. IInv /\ LinkShape /\ [Next]_vars => LinkShape'
  BY NextShape
<1>3. IInv /\ LinkShape /\ [Next]_vars =>
        [Stuck => Stuck' \/ (stage = "begin" /\ Op = "connect" /\ link = "lost")]_vars
  BY NextShape
<1> QED
  BY <1>1, <1>2, <1>3, SpecIInv, PTL DEF Spec, OnlyConnectGetsUnstuck

\* What recording a write changes: the entry of its register.
LEMMA RecordEffect ==
  ASSUME NEW r, Record(r)
  PROVE  /\ \A e \in EepromRegs : lastWrite'[e] # lastWrite[e] => e = r
         /\ \A k \in CyclicRegs : deadline'[k] # deadline[k] => k = r
BY DEF Record

\* An operation that has the turn has not told its caller anything yet.
NotYetOver == running # NoCaller => outcome = "pending"

LEMMA NextNotYetOver ==
  ASSUME IInv, NotYetOver, [Next]_vars
  PROVE  NotYetOver'
<1>1. CASE UNCHANGED gateVars
  BY <1>1 DEF gateVars, NotYetOver
<1>2. CASE Settle
  BY <1>2 DEF Settle, Gate!Settle, NotYetOver
<1>3. CASE (\E c \in Callers, req \in Requests : Call(c, req)) \/ Start
  BY <1>3 DEF Call, Start, Gate!Arrive, NotYetOver
<1>4. CASE TurnStep
  <2>1. ASSUME FinishRequest PROVE Settle \/ UNCHANGED gateVars
    BY <2>1 DEF FinishRequest, Return
  <2>2. ASSUME NEW kind, FailConnection(kind) \/ AttemptFails(kind) PROVE Settle \/ UNCHANGED gateVars
    BY <2>1, <2>2 DEF FailConnection, AttemptFails, Throw
  <2>3. CASE BeginWithoutTraffic \/ BeginRequests \/ NextProbe \/ BeginConnect \/ BeginDisconnect \/ BeginForceReconnect
    BY <1>1, <1>2, <2>3 DEF BeginWithoutTraffic, BeginRequests, NextProbe, BeginConnect, BeginDisconnect,
                            BeginForceReconnect, Return, Throw
  <2>4. CASE CloseSucceeds \/ CloseFails \/ ConnectSucceeds \/ \E kind \in {"link", "other"} : ConnectFails(kind)
    BY <1>1, <1>2, <2>2, <2>4 DEF CloseSucceeds, CloseFails, ConnectSucceeds, ConnectFails, Return
  <2>5. CASE Send \/ SendWithoutTransport \/ Answered \/ RetryNow \/ \E kind \in ErrorKinds : RequestFails(kind)
    BY <1>1, <1>2, <2>1, <2>2, <2>5 DEF Send, SendWithoutTransport, Answered, RetryNow, RequestFails
  <2> QED
    BY <1>4, <2>3, <2>4, <2>5 DEF TurnStep
<1>5. CASE Control \/ Drop \/ Tick \/ UNCHANGED vars
  BY <1>1, <1>5 DEF Control, ResetWriteThrottle, ResetCyclicWriteState, Drop, Tick, vars
<1> QED
  BY <1>3, <1>4, <1>5 DEF Next

\* The record is made in the step that ends the turn of its write.
LEMMA AnsweredRenews ==
  ASSUME IInv, NotYetOver, Answered
  PROVE  /\ \A r \in EepromRegs : lastWrite'[r] \notin {lastWrite[r], Never} => WriteReturns(r)
         /\ \A r \in CyclicRegs : deadline'[r] \notin {deadline[r], Never} => WriteReturns(r)
<1>1. CASE Op = "write" /\ Record(Reg)
  <2>1. Return
    BY <1>1 DEF Answered, FinishRequest, IInv, TurnShape
  <2>2. running # NoCaller /\ outcome = "pending" /\ outcome' = "returned"
    BY <2>1, SettleEffect DEF Return, NotYetOver
  <2> QED
    BY <1>1, <2>2, RecordEffect DEF WriteReturns
<1>2. CASE UNCHANGED safetyVars
  BY <1>2 DEF safetyVars
<1> QED
  BY <1>1, <1>2 DEF Answered

\* The steps other than an acknowledgement keep or forget every entry.
LEMMA OthersForget ==
  ASSUME [Next]_vars, ~ Answered
  PROVE  /\ \A r \in EepromRegs : lastWrite'[r] \in {lastWrite[r], Never}
         /\ \A r \in CyclicRegs : deadline'[r] \in {deadline[r], Never}
<1>1. CASE UNCHANGED safetyVars
  BY <1>1 DEF safetyVars
<1>2. CASE Control
  BY <1>2 DEF Control, ResetWriteThrottle, ResetCyclicWriteState
<1>3. CASE TurnStep
  <2>1. CASE BeginWithoutTraffic \/ BeginRequests \/ NextProbe \/ BeginConnect \/ BeginDisconnect \/ BeginForceReconnect
    BY <1>1, <2>1 DEF BeginWithoutTraffic, BeginRequests, NextProbe, BeginConnect, BeginDisconnect,
                      BeginForceReconnect, safetyVars
  <2>2. CASE CloseSucceeds \/ CloseFails \/ ConnectSucceeds \/ \E kind \in {"link", "other"} : ConnectFails(kind)
    BY <1>1, <2>2 DEF CloseSucceeds, CloseFails, ConnectSucceeds, ConnectFails, safetyVars
  <2>3. CASE Send \/ SendWithoutTransport \/ RetryNow \/ \E kind \in ErrorKinds : RequestFails(kind)
    BY <1>1, <2>3 DEF Send, SendWithoutTransport, RetryNow, RequestFails, safetyVars
  <2> QED
    BY <1>3, <2>1, <2>2, <2>3 DEF TurnStep
<1>4. CASE (\E c \in Callers, req \in Requests : Call(c, req)) \/ Start \/ Drop \/ Tick \/ UNCHANGED vars
  BY <1>1, <1>4 DEF Call, Start, Drop, Tick, vars
<1> QED
  BY <1>2, <1>3, <1>4 DEF Next

\* The safety state is renewed by acknowledged writes only, each for its own
\* register and in the step that returns to the writer.
THEOREM ClientCountsAcknowledged == Spec => OnlyAcknowledgedWritesCount
<1>1. ASSUME IInv, NotYetOver, [Next]_vars
      PROVE  /\ \A r \in EepromRegs : lastWrite'[r] \notin {lastWrite[r], Never} =>
                  WriteReturns(r)
             /\ \A r \in CyclicRegs : deadline'[r] \notin {deadline[r], Never} =>
                  WriteReturns(r)
  BY <1>1, AnsweredRenews, OthersForget
<1>2. Init => NotYetOver
  BY DEF Init, NotYetOver
<1>3. IInv /\ NotYetOver /\ [Next]_vars => NotYetOver'
  BY NextNotYetOver
<1> QED
  BY <1>1, <1>2, <1>3, SpecIInv, PTL DEF Spec, OnlyAcknowledgedWritesCount
=============================================================================
