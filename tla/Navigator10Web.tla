--------------------------- MODULE Navigator10Web ---------------------------
(***************************************************************************)
(* IdmNavigator10WebClient (web/navigator10.ts) and the WebSocket wrapper  *)
(* it talks through.  Requests, connect and close take turns in a promise  *)
(* chain of the same form as FifoGate; a turn connects and authorizes if   *)
(* it must, sends one request, awaits one message and, if that fails,      *)
(* closes, sleeps and tries again on a new socket.                         *)
(*                                                                         *)
(* Nothing in a message says which request it answers: the client takes    *)
(* the oldest message that its socket holds.  Here an answer is the caller *)
(* whose request it answers, which the client cannot see.                  *)
(***************************************************************************)
EXTENDS Naturals, Sequences, FiniteSets

CONSTANTS
  Callers,              \* tasks of the application that call the client
  NoCaller,
  Sockets,              \* identities of WebSocket objects, reused when dead
  NoSocket,
  MaxReconnectAttempts, \* option maxReconnectAttempts
  MaxSettings,          \* bound on the requests of one readData
  MaxOrphans            \* bound on the abandoned sockets alive at a time

ASSUME NobodyAssumption == NoCaller \notin Callers /\ NoSocket \notin Sockets
\* The PIN that a socket is opened with is no request of a caller's.
ASSUME PinAssumption == "auth" \notin Callers
ASSUME AttemptsAssumption == MaxReconnectAttempts \in Nat \ {0}
ASSUME SettingsAssumption == MaxSettings \in Nat \ {0}

VARIABLES
  waiting,      \* #queue: callers queued behind the running one
  running,      \* #queue: the caller that has the turn
  job,          \* job[c]: what caller c asked for and has left to do
  stage,        \* what the turn awaits
  attempt,      \* reconnect attempts of the request made so far
  socket,       \* #socket
  alive,        \* WebSockets that are open or may still open
  orphans,      \* history: WebSockets given up by a connect timeout
  inbox,        \* #messages of the socket
  unanswered,   \* what the device has received on the socket and not answered
  leftOver,     \* history: the last attempt of a request gave up on the socket
  authorized    \* history: the device has accepted the PIN on the socket

queueVars  == <<waiting, running, job>>
socketVars == <<socket, alive, inbox, unanswered, leftOver, authorized>>
vars == <<queueVars, stage, attempt, socketVars, orphans>>

Queue == INSTANCE ExclusiveQueue

Jobs == [op : {"connect", "close"}, left : {0}] \cup [op : {"read"}, left : 1..MaxSettings]
NoJob == [op |-> "none", left |-> 0]
Verdicts == {"authorized", "rejected", "unrecognized"}
Stages == {"idle", "begin", "opening", "authorizing", "ready", "receiving", "pausing"}

TypeOK ==
  /\ waiting \in Seq(Callers)
  /\ running \in Callers \cup {NoCaller}
  /\ job \in [Callers -> Jobs \cup {NoJob}]
  /\ stage \in Stages
  /\ attempt \in 0..MaxReconnectAttempts
  /\ socket \in Sockets \cup {NoSocket}
  /\ alive \subseteq Sockets
  /\ orphans \subseteq Sockets
  /\ inbox \in Seq(Callers \cup Verdicts)
  /\ unanswered \in Seq(Callers \cup {"auth"})
  /\ leftOver \in BOOLEAN /\ authorized \in BOOLEAN

Init ==
  /\ Queue!Init
  /\ job = [c \in Callers |-> NoJob]
  /\ stage = "idle" /\ attempt = 0
  /\ socket = NoSocket /\ alive = {} /\ orphans = {}
  /\ inbox = <<>> /\ unanswered = <<>> /\ leftOver = FALSE /\ authorized = FALSE

Op == job[running].op

-----------------------------------------------------------------------------
(* Calls and turns *)

Call(c, j) ==
  /\ job[c] = NoJob
  /\ Queue!Arrive(c)
  /\ job' = [job EXCEPT ![c] = j]
  /\ UNCHANGED <<stage, attempt, socketVars, orphans>>

\* readData goes on to its next setting, after its delay if it has one.
NextSetting(c) ==
  /\ job[c] # NoJob
  /\ Queue!Arrive(c)
  /\ UNCHANGED <<job, stage, attempt, socketVars, orphans>>

Start ==
  /\ Queue!Start
  /\ stage' = "begin"
  /\ UNCHANGED <<job, attempt, socketVars, orphans>>

EndTurn(j) ==
  /\ Queue!Settle
  /\ job' = [job EXCEPT ![running] = j]
  /\ stage' = "idle"
  /\ attempt' = 0

\* The operation of the turn throws, or its caller has no more to do.
EndCall == EndTurn(NoJob)

-----------------------------------------------------------------------------
(* Connecting and closing *)

\* #closeUnlocked: the socket is forgotten and its close handshake begun.
CloseUnlocked ==
  /\ socket' = NoSocket
  /\ alive' = alive \ {socket}
  /\ inbox' = <<>> /\ unanswered' = <<>> /\ leftOver' = FALSE /\ authorized' = FALSE

\* #connectUnlocked up to the socket factory: a live socket is kept, whatever
\* its queue holds.
ConnectUnlocked ==
  \/ /\ socket \in alive
     /\ IF Op = "connect" THEN EndCall
        ELSE stage' = "ready" /\ UNCHANGED <<queueVars, attempt>>
     /\ UNCHANGED socketVars
  \/ /\ socket \notin alive
     /\ stage' = "opening"
     /\ socket' = NoSocket
     /\ inbox' = <<>> /\ unanswered' = <<>> /\ leftOver' = FALSE /\ authorized' = FALSE
     /\ UNCHANGED <<queueVars, attempt, alive>>

BeginRequest ==
  /\ stage = "begin" /\ Op \in {"connect", "read"}
  /\ ConnectUnlocked
  /\ UNCHANGED orphans

BeginClose ==
  /\ stage = "begin" /\ Op = "close"
  /\ CloseUnlocked
  /\ EndCall
  /\ UNCHANGED orphans

OpenSucceeds ==
  /\ stage = "opening"
  /\ \E s \in Sockets \ alive :
       /\ socket' = s
       /\ alive' = alive \cup {s}
  /\ unanswered' = <<"auth">>
  /\ stage' = "authorizing"
  /\ UNCHANGED <<queueVars, attempt, inbox, leftOver, authorized, orphans>>

\* Faulty variant: a failed attempt leaves its socket in place.
TryAgainOnTheSameSocket ==
  \/ /\ Op = "read" /\ attempt < MaxReconnectAttempts
     /\ attempt' = attempt + 1
     /\ stage' = "pausing"
     /\ UNCHANGED <<queueVars, socketVars>>
  \/ /\ Op = "read" /\ attempt = MaxReconnectAttempts
     /\ EndCall
     /\ leftOver' = TRUE
     /\ UNCHANGED <<socket, alive, inbox, unanswered, authorized>>

\* Faulty variant: the attempts are not counted.
TryAgainForever ==
  /\ Op = "read"
  /\ stage' = "pausing"
  /\ CloseUnlocked
  /\ UNCHANGED <<queueVars, attempt>>

\* The reconnect loop of #request: every attempt closes first, and the last
\* one to fail leaves its socket as it is.
TryAgain ==
  \/ /\ Op = "read" /\ attempt < MaxReconnectAttempts
     /\ attempt' = attempt + 1
     /\ stage' = "pausing"
     /\ CloseUnlocked
     /\ UNCHANGED queueVars
  \/ /\ Op = "read" /\ attempt = MaxReconnectAttempts
     /\ EndCall
     /\ leftOver' = TRUE
     /\ UNCHANGED <<socket, alive, inbox, unanswered, authorized>>

\* Faulty variant: a socket that was not authorized is forgotten, not closed.
ConnectFailsForgetting(retry) ==
  /\ socket' = NoSocket
  /\ inbox' = <<>> /\ unanswered' = <<>> /\ leftOver' = FALSE /\ authorized' = FALSE
  /\ UNCHANGED alive
  /\ IF retry /\ 0 < attempt /\ attempt < MaxReconnectAttempts
     THEN attempt' = attempt + 1 /\ stage' = "pausing" /\ UNCHANGED queueVars
     ELSE EndCall

\* Faulty variant: the socket that was not authorized stays in place.
ConnectFailsKeeping(retry) ==
  /\ UNCHANGED socketVars
  /\ IF retry /\ 0 < attempt /\ attempt < MaxReconnectAttempts
     THEN attempt' = attempt + 1 /\ stage' = "pausing" /\ UNCHANGED queueVars
     ELSE EndCall

\* #connectUnlocked throws after closing the socket: out of the first connect
\* of a request and out of connect() as it is, into the loop otherwise.
ConnectFails(retry) ==
  /\ CloseUnlocked
  /\ IF retry /\ 0 < attempt /\ attempt < MaxReconnectAttempts
     THEN attempt' = attempt + 1 /\ stage' = "pausing" /\ UNCHANGED queueVars
     ELSE EndCall

OpenFails ==
  /\ stage = "opening"
  /\ ConnectFails(TRUE)
  /\ UNCHANGED orphans

\* The connect timeout rejects, but nothing closes the WebSocket it waited for.
OpenTimesOut ==
  /\ stage = "opening"
  /\ Cardinality(orphans) < MaxOrphans
  /\ \E s \in Sockets \ alive :
       /\ orphans' = orphans \cup {s}
       /\ alive' = alive \cup {s}
  /\ socket' = NoSocket /\ inbox' = <<>> /\ unanswered' = <<>> /\ leftOver' = FALSE /\ authorized' = FALSE
  /\ IF 0 < attempt /\ attempt < MaxReconnectAttempts
     THEN attempt' = attempt + 1 /\ stage' = "pausing" /\ UNCHANGED queueVars
     ELSE EndCall

Authorized ==
  /\ stage = "authorizing" /\ inbox # <<>> /\ Head(inbox) = "authorized"
  /\ inbox' = Tail(inbox)
  /\ authorized' = TRUE
  /\ IF Op = "connect" THEN EndCall
     ELSE stage' = "ready" /\ UNCHANGED <<queueVars, attempt>>
  /\ UNCHANGED <<socket, alive, unanswered, leftOver, orphans>>

\* Faulty variant: a rejected PIN is presented again by the reconnect loop.
NotAuthorizedRetrying ==
  /\ stage = "authorizing" /\ inbox # <<>> /\ Head(inbox) # "authorized"
  /\ ConnectFails(TRUE)
  /\ UNCHANGED orphans

\* A rejected PIN ends the request; an answer that is not recognized is tried
\* again like a failed connection.
NotAuthorized ==
  /\ stage = "authorizing" /\ inbox # <<>> /\ Head(inbox) # "authorized"
  /\ ConnectFails(Head(inbox) # "rejected")
  /\ UNCHANGED orphans

\* No authorization: a timeout, or the device closes the socket.
AuthorizationMissing ==
  /\ stage = "authorizing" /\ inbox = <<>>
  /\ ConnectFails(TRUE)
  /\ UNCHANGED orphans

-----------------------------------------------------------------------------
(* Requests *)

Reconnect ==
  /\ stage = "pausing"
  /\ ConnectUnlocked
  /\ UNCHANGED orphans

\* #requestOnce
Send ==
  /\ stage = "ready" /\ socket \in alive
  /\ unanswered' = Append(unanswered, running)
  /\ stage' = "receiving"
  /\ UNCHANGED <<queueVars, attempt, socket, alive, inbox, leftOver, authorized, orphans>>

SendFails ==
  /\ stage = "ready" /\ socket \notin alive
  /\ TryAgain
  /\ UNCHANGED orphans

\* receiveText returns the oldest message; readData asks for its next setting
\* unless it has no more or the answer does not parse.
Receive ==
  /\ stage = "receiving" /\ inbox # <<>>
  /\ inbox' = Tail(inbox)
  /\ \/ EndCall
     \/ job[running].left > 1 /\ EndTurn([op |-> "read", left |-> job[running].left - 1])
  /\ UNCHANGED <<socket, alive, unanswered, leftOver, authorized, orphans>>

\* The request times out, or the socket closes while it is awaited.
ReceiveFails ==
  /\ stage = "receiving" /\ inbox = <<>>
  /\ TryAgain
  /\ UNCHANGED orphans

-----------------------------------------------------------------------------
(* The device *)

\* Requests on one socket are answered in order, however late.
Answer ==
  /\ socket \in alive /\ unanswered # <<>>
  /\ \E message \in IF Head(unanswered) = "auth" THEN Verdicts ELSE {Head(unanswered)} :
       inbox' = Append(inbox, message)
  /\ unanswered' = Tail(unanswered)
  /\ UNCHANGED <<queueVars, stage, attempt, socket, alive, leftOver, authorized, orphans>>

Drop(s) ==
  /\ s \in alive
  /\ alive' = alive \ {s}
  /\ orphans' = orphans \ {s}
  /\ UNCHANGED <<queueVars, stage, attempt, socket, inbox, unanswered, leftOver, authorized>>

-----------------------------------------------------------------------------

TurnStep ==
  \/ BeginRequest \/ BeginClose \/ OpenSucceeds \/ OpenFails \/ OpenTimesOut
  \/ Authorized \/ NotAuthorized \/ AuthorizationMissing
  \/ Reconnect \/ Send \/ SendFails \/ Receive \/ ReceiveFails

Next ==
  \/ \E c \in Callers : NextSetting(c) \/ \E j \in Jobs : Call(c, j)
  \/ Start \/ TurnStep \/ Answer
  \/ \E s \in Sockets : Drop(s)

\* The runtime resumes what is ready; connects, receives and sleeps end, since
\* each carries a timeout.  The device need not answer.
Spec ==
  /\ Init /\ [][Next]_vars
  /\ WF_vars(Start) /\ WF_vars(TurnStep) /\ \A c \in Callers : WF_vars(NextSetting(c))

-----------------------------------------------------------------------------
(* Properties *)

\* An answer is handed to the request it answers, as long as no request has
\* given up on the socket that is still in use: each reconnect attempt drops
\* the messages and the late answers of the one before (navigator10.ts:266-278).
AnswersTheirRequest ==
  stage = "receiving" /\ inbox # <<>> /\ ~ leftOver => Head(inbox) = running

\* A request goes out on a socket that the device has accepted the PIN on: any
\* socket that is open counts as a session (208), so whatever ends a connect
\* half-way, and whatever close() comes between the settings of a read, leaves
\* none that was not authorized (navigator10.ts:207-250, 306-315).
RequestsAreAuthorized == stage = "receiving" => authorized

\* The client holds one session: every other WebSocket that is still alive was
\* left behind by a connect that timed out (navigator10.ts:67-89, 224-225).
OnlyTimeoutsLeaveSockets == alive \ {socket} \subseteq orphans

\* A PIN that was rejected is not presented again by the same call, neither in
\* the reconnect loop nor for the next setting (navigator10.ts:226, 259, 280).
RejectedPinEndsTheCall ==
  [][\A c \in Callers :
       stage = "authorizing" /\ running = c /\ inbox # <<>> /\ Head(inbox) = "rejected" /\ stage' # stage
         => job'[c] = NoJob]_vars

\* Every call returns or throws, whatever the device does and however often
\* the connection is lost.
EveryCallReturns == \A c \in Callers : job[c] # NoJob ~> job[c] = NoJob
=============================================================================
