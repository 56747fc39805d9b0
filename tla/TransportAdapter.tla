-------------------------- MODULE TransportAdapter --------------------------
(***************************************************************************)
(* The transport of a client (transport/modbus-serial-adapter.ts, types.ts *)
(* and errors.ts) over one modbus-serial client: whose timeout a request   *)
(* runs under, which requests go out, how replies and errors are told      *)
(* apart, and the memoised close().                                        *)
(*                                                                         *)
(* The client calls its transport in turns (ExclusiveQueue) and makes a    *)
(* new one for every connection.  Each call here is one attempt; which     *)
(* attempts are made is in ModbusClient.  destroy(), which the client      *)
(* never calls, is left out.                                               *)
(***************************************************************************)
EXTENDS Integers

CONSTANTS
  Callers,
  Requests,       \* what callers ask for: [op, address, count, timeout]
  NormalTimeout,  \* of the configuration, in milliseconds
  None            \* null or undefined

ASSUME RequestsAssumption == \A r \in Requests : r.op \in {"read", "write"}

VARIABLES
  link,          \* of the modbus-serial client: "none", "opening", "open" or "closed"
  timeout,       \* of the modbus-serial client
  closePromise,  \* "none", "pending", "resolved" or "rejected"
  used,          \* the client still holds this transport
  call,          \* by caller: the request under way and the timeout it was sent under
  reply,         \* history: the last request's operation and what it got
  result         \* history: what the last request's caller got

adapterVars == <<link, timeout, closePromise, used, call, reply, result>>

-----------------------------------------------------------------------------
(* Requests (types.ts) *)

MaxCount(op) == IF op = "read" THEN 125 ELSE 123
MaxTimeout == 2147483647

\* createModbusReadRequest and createModbusWriteRequest do not throw.
Legal(r) ==
  /\ r.address \in 0..65535 /\ r.count \in 1..MaxCount(r.op)
  /\ r.address + r.count <= 65536
  /\ r.timeout # None => 1 <= r.timeout /\ r.timeout <= MaxTimeout

-----------------------------------------------------------------------------
(* Errors *)

ModbusCodes == {"illegal data address", "other exception"}
DisconnectedCodes == {"ENOTCONN", "ERR_SOCKET_CLOSED", "ERR_STREAM_DESTROYED"}
SocketCodes == {"EAI_AGAIN", "ECONNABORTED", "ECONNREFUSED", "ECONNRESET", "EHOSTUNREACH",
                "ENETDOWN", "ENETUNREACH", "ENOTFOUND", "EPIPE"}
NoResponseCodes == {"ERR_STREAM_PREMATURE_CLOSE"}
\* An error of the library without a code it is known by.
Errors == ModbusCodes \cup DisconnectedCodes \cup SocketCodes \cup NoResponseCodes \cup {"ETIMEDOUT", "other"}

KindOfCode(error) ==
  CASE error = "ETIMEDOUT" -> "timeout"
    [] error \in DisconnectedCodes -> "disconnected"
    [] error \in NoResponseCodes -> "no_response"
    [] error \in SocketCodes -> "socket"
    [] OTHER -> "modbus"

\* Faulty variant: a write's exceptions are told apart like a read's.
KindAlike(op, error) == IF error = "illegal data address" THEN "illegal_address" ELSE KindOfCode(error)

\* normalizeAdapterError, of reads and writes.
Kind(op, error) ==
  IF error = "illegal data address" /\ op = "read" THEN "illegal_address" ELSE KindOfCode(error)

\* After these the client looks for a new connection.
ReconnectKinds == {"timeout", "disconnected", "socket", "no_response"}

-----------------------------------------------------------------------------
(* Connecting and closing *)

Quiet == [op |-> "none"]
Busy(c) == call[c].op
Idle == \A c \in Callers : Busy(c) = "none"
Connected == used /\ link = "open"

AdapterInit ==
  /\ link = "none" /\ timeout = None /\ closePromise = "none" /\ used = FALSE
  /\ call = [c \in Callers |-> Quiet]
  /\ reply = None /\ result = None

\* Faulty variant: a transport is connected again after it was closed.
ConnectAgain(c) ==
  /\ Idle /\ ~ Connected
  /\ link' = "opening" /\ timeout' = NormalTimeout /\ used' = TRUE
  /\ call' = [call EXCEPT ![c] = [op |-> "connect"]]
  /\ UNCHANGED <<closePromise, reply, result>>

\* A transport that lost its connection, or was never closed, is replaced.
Connect(c) ==
  /\ Idle /\ ~ Connected
  /\ link' = "opening" /\ timeout' = NormalTimeout /\ used' = TRUE /\ closePromise' = "none"
  /\ call' = [call EXCEPT ![c] = [op |-> "connect"]]
  /\ UNCHANGED <<reply, result>>

ConnectEnds(c) ==
  /\ Busy(c) = "connect"
  /\ \/ link' = "open" /\ UNCHANGED used
     \/ link' = "closed" /\ used' = FALSE
  /\ call' = [call EXCEPT ![c] = Quiet]
  /\ UNCHANGED <<timeout, closePromise, reply, result>>

\* The client lets go of a transport whose close() resolved.
Close(c) ==
  /\ Idle /\ used
  /\ IF closePromise # "none"
     THEN used' = (closePromise # "resolved") /\ UNCHANGED <<closePromise, call>>
     ELSE IF link # "open"
     THEN closePromise' = "resolved" /\ used' = FALSE /\ UNCHANGED call
     ELSE /\ closePromise' = "pending" /\ call' = [call EXCEPT ![c] = [op |-> "close"]]
          /\ UNCHANGED used
  /\ UNCHANGED <<link, timeout, reply, result>>

\* The callback of close() without a status: modbus-serial has closed its socket.
CloseResolves(c) ==
  /\ Busy(c) = "close"
  /\ link' = "closed" /\ closePromise' = "resolved" /\ used' = FALSE
  /\ call' = [call EXCEPT ![c] = Quiet]
  /\ UNCHANGED <<timeout, reply, result>>

\* The callback with an error, or close() throws and the socket may stay.
CloseRejects(c) ==
  /\ Busy(c) = "close"
  /\ link' \in {link, "closed"} /\ closePromise' = "rejected"
  /\ call' = [call EXCEPT ![c] = Quiet]
  /\ UNCHANGED <<timeout, used, reply, result>>

Drop == link = "open" /\ link' = "closed" /\ UNCHANGED <<timeout, closePromise, used, call, reply, result>>

-----------------------------------------------------------------------------
(* Requests *)

Refuse(r) ==
  /\ Idle /\ ~ Legal(r)
  /\ reply' = None /\ result' = "range_error"
  /\ UNCHANGED <<link, timeout, closePromise, used, call>>

Send(c, r) ==
  /\ Idle /\ Connected /\ Legal(r)
  /\ timeout' = IF r.timeout = None THEN timeout ELSE r.timeout
  /\ call' = [call EXCEPT ![c] = [op |-> r.op, request |-> r, sentUnder |-> timeout']]
  /\ reply' = None /\ result' = None
  /\ UNCHANGED <<link, closePromise, used>>

\* Faulty variant: a read that fails leaves its timeout behind.
SettleRestoringOnSuccess(c, got, kind) ==
  /\ Busy(c) \in {"read", "write"}
  /\ reply' = [op |-> Busy(c), got |-> got] /\ result' = kind
  /\ timeout' = IF call[c].request.timeout = None \/ kind # "words" THEN timeout ELSE NormalTimeout
  /\ call' = [call EXCEPT ![c] = Quiet]
  /\ UNCHANGED <<link, closePromise, used>>

Settle(c, got, kind) ==
  /\ Busy(c) \in {"read", "write"}
  /\ reply' = [op |-> Busy(c), got |-> got] /\ result' = kind
  /\ timeout' = IF call[c].request.timeout = None THEN timeout ELSE NormalTimeout
  /\ call' = [call EXCEPT ![c] = Quiet]
  /\ UNCHANGED <<link, closePromise, used>>

\* A read's words may be none at all or too few, a write's acknowledgement
\* another one's.
Answered(c) ==
  \/ link = "open" /\ Settle(c, "exact", IF Busy(c) = "read" THEN "words" ELSE "acknowledged")
  \/ \E got \in IF Busy(c) = "read" THEN {"no words", "other count"} ELSE {"other write"} :
       link = "open" /\ Settle(c, got, "invalid_response")

Fails(c) == \E error \in Errors : Settle(c, error, Kind(Busy(c), error))

-----------------------------------------------------------------------------

AdapterNext ==
  \/ Drop
  \/ \E r \in Requests : Refuse(r)
  \/ \E c \in Callers :
       \/ Connect(c) \/ ConnectEnds(c) \/ Close(c) \/ CloseResolves(c) \/ CloseRejects(c)
       \/ Answered(c) \/ Fails(c)
       \/ \E r \in Requests : Send(c, r)

AdapterSpec == AdapterInit /\ [][AdapterNext]_adapterVars

-----------------------------------------------------------------------------
(* Properties *)

\* A request runs under its own timeout if it has one and else under the
\* configured one, whatever the requests before it left behind (the shared
\* client has one timeout only, adapter 226-249).
RequestsUseTheirTimeout ==
  \A c \in Callers : Busy(c) \in {"read", "write"} =>
    call[c].sentUnder = IF call[c].request.timeout = None THEN NormalTimeout ELSE call[c].request.timeout

\* Once close() has resolved, the socket it was meant to close is not open: the
\* resolution kept for later calls is not that of an earlier connection
\* (adapter 206-216, client 746-760, 971).
ResolvedCloseMeansDown == closePromise = "resolved" => link # "open"

\* Callers get words only of a complete answer, an illegal address only if the
\* device refused a read with it, and after every error that leaves the
\* request unanswered the client reconnects (adapter 80-157, client 167-172).
OutcomesMeanWhatHappened ==
  reply # None =>
  /\ result \in {"words", "acknowledged"} => reply.got = "exact"
  /\ result = "illegal_address" => reply = [op |-> "read", got |-> "illegal data address"]
  /\ reply.got \in DisconnectedCodes \cup SocketCodes \cup NoResponseCodes \cup {"ETIMEDOUT"} =>
       result \in ReconnectKinds
=============================================================================
