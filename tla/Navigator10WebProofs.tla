------------------------ MODULE Navigator10WebProofs ------------------------
(***************************************************************************)
(* The Navigator 10 web client hands answers to the requests they answer,  *)
(* sends requests on authorized sockets only, leaks no socket of its own   *)
(* and presents a rejected PIN once: for any callers, sockets, settings    *)
(* and reconnect attempts.                                                 *)
(***************************************************************************)
EXTENDS Navigator10Web, TLAPS

-----------------------------------------------------------------------------
(* Turns *)

\* The types of the turn's variables, and someone has the turn exactly while
\* something is awaited.
TurnOK ==
  /\ waiting \in Seq(Callers)
  /\ running \in Callers \cup {NoCaller}
  /\ job \in [Callers -> Jobs \cup {NoJob}]
  /\ stage \in Stages
  /\ attempt \in 0..MaxReconnectAttempts
  /\ stage = "idle" <=> running = NoCaller

LEMMA EndTurnKeepsTurns ==
  ASSUME TurnOK, NEW j \in Jobs \cup {NoJob}, EndTurn(j)
  PROVE  TurnOK' /\ stage' = "idle" /\ running' = NoCaller
<1>1. waiting' = waiting /\ running' = NoCaller /\ stage' = "idle" /\ attempt' = 0
  BY DEF EndTurn, Queue!Settle
<1>2. job' \in [Callers -> Jobs \cup {NoJob}]
  BY DEF EndTurn, TurnOK
<1> QED
  BY <1>1, <1>2, AttemptsAssumption DEF TurnOK, Stages

LEMMA EndCallKeepsTurns ==
  ASSUME TurnOK, EndCall
  PROVE  TurnOK' /\ stage' = "idle" /\ running' = NoCaller
BY EndTurnKeepsTurns DEF EndCall

\* The turn goes on to await something else.
LEMMA GoingOnKeepsTurns ==
  ASSUME TurnOK, UNCHANGED queueVars, stage # "idle", stage' \in Stages, stage' # "idle",
         attempt' \in 0..MaxReconnectAttempts
  PROVE  TurnOK'
BY DEF TurnOK, queueVars

LEMMA ArriveKeepsTurns ==
  ASSUME TurnOK, NEW c \in Callers, Queue!Arrive(c), job' \in [Callers -> Jobs \cup {NoJob}],
         UNCHANGED <<stage, attempt>>
  PROVE  TurnOK'
<1>1. waiting' \in Seq(Callers) /\ running' = running
  BY DEF TurnOK, Queue!Arrive
<1> QED
  BY <1>1 DEF TurnOK

LEMMA StartKeepsTurns ==
  ASSUME TurnOK, Start
  PROVE  TurnOK' /\ stage = "idle" /\ stage' = "begin"
<1>1. waiting \in Seq(Callers) /\ waiting # <<>> /\ running = NoCaller
  BY DEF TurnOK, Start, Queue!Start
<1>2. Head(waiting) \in Callers /\ Tail(waiting) \in Seq(Callers)
  BY <1>1
<1>3. waiting' \in Seq(Callers) /\ running' \in Callers
  BY <1>2 DEF Start, Queue!Start
<1> QED
  BY <1>1, <1>3, NobodyAssumption DEF TurnOK, Start, Stages

\* Reconnecting counts up to the limit.
LEMMA ReconnectKeepsTurns ==
  ASSUME TurnOK, stage # "idle",
         IF attempt < MaxReconnectAttempts /\ stage' = "pausing"
         THEN attempt' = attempt + 1 /\ UNCHANGED queueVars ELSE EndCall
  PROVE  TurnOK' /\ stage' \in {"idle", "pausing"}
<1>1. CASE EndCall
  BY <1>1, EndCallKeepsTurns
<1>2. CASE attempt < MaxReconnectAttempts /\ stage' = "pausing" /\ attempt' = attempt + 1 /\ UNCHANGED queueVars
  <2>1. attempt' \in 0..MaxReconnectAttempts
    BY <1>2, AttemptsAssumption DEF TurnOK
  <2> QED
    BY <1>2, <2>1, GoingOnKeepsTurns DEF Stages
<1> QED
  BY <1>1, <1>2

\* A connect that fails, and a request that does.
LEMMA ConnectFailsKeepsTurns ==
  ASSUME TurnOK, stage # "idle", NEW retry, ConnectFails(retry)
  PROVE  TurnOK' /\ stage' \in {"idle", "pausing"}
BY ReconnectKeepsTurns, EndCallKeepsTurns DEF ConnectFails

LEMMA TryAgainKeepsTurns ==
  ASSUME TurnOK, stage # "idle", TryAgain
  PROVE  TurnOK' /\ stage' \in {"idle", "pausing"}
BY ReconnectKeepsTurns, EndCallKeepsTurns DEF TryAgain

LEMMA ConnectUnlockedKeepsTurns ==
  ASSUME TurnOK, stage # "idle", ConnectUnlocked
  PROVE  TurnOK' /\ stage' \in {"idle", "ready", "opening"}
<1>1. CASE EndCall
  BY <1>1, EndCallKeepsTurns
<1>2. CASE stage' \in {"ready", "opening"} /\ UNCHANGED <<queueVars, attempt>>
  BY <1>2, GoingOnKeepsTurns DEF Stages, TurnOK
<1> QED
  BY <1>1, <1>2 DEF ConnectUnlocked

-----------------------------------------------------------------------------
(* Sockets *)

SocketTypes ==
  /\ socket \in Sockets \cup {NoSocket}
  /\ alive \subseteq Sockets
  /\ orphans \subseteq Sockets
  /\ inbox \in Seq(Callers \cup Verdicts)
  /\ unanswered \in Seq(Callers \cup {"auth"})
  /\ leftOver \in BOOLEAN /\ authorized \in BOOLEAN

\* A socket is opened in the place of none, and is new until it is authorized.
Opening ==
  /\ stage = "opening" => socket = NoSocket
  /\ stage \in {"opening", "authorizing"} => ~ leftOver

\* Unless a request gave up on it, a socket carries the one exchange that is
\* under way and nothing else.
OneExchange ==
  ~ leftOver =>
  /\ stage = "authorizing" =>
       \/ inbox = <<>> /\ unanswered = <<"auth">>
       \/ (\E v \in Verdicts : inbox = <<v>>) /\ unanswered = <<>>
  /\ stage = "receiving" =>
       \/ inbox = <<>> /\ unanswered = <<running>>
       \/ inbox = <<running>> /\ unanswered = <<>>
  /\ stage \notin {"authorizing", "receiving"} => inbox = <<>> /\ unanswered = <<>>

\* A socket that the client keeps is authorized, except while it is about to be.
KeptIsAuthorized ==
  /\ socket # NoSocket /\ stage # "authorizing" => authorized
  /\ stage \in {"ready", "receiving"} => authorized

SocketsOK ==
  /\ SocketTypes
  /\ Opening
  /\ OneExchange
  /\ KeptIsAuthorized
  /\ OnlyTimeoutsLeaveSockets

IInv == TurnOK /\ SocketsOK

LEMMA InitIInv == Init => IInv
<1> SUFFICES ASSUME Init PROVE IInv
  OBVIOUS
<1>1. TurnOK
  BY AttemptsAssumption DEF Init, Queue!Init, TurnOK, Stages
<1>2. SocketTypes
  <2>1. <<>> \in Seq(Callers \cup Verdicts) /\ <<>> \in Seq(Callers \cup {"auth"})
    OBVIOUS
  <2> QED
    BY <2>1 DEF Init, SocketTypes
<1>3. Opening /\ OneExchange /\ KeptIsAuthorized /\ OnlyTimeoutsLeaveSockets
  BY DEF Init, Opening, OneExchange, KeptIsAuthorized, OnlyTimeoutsLeaveSockets
<1> QED
  BY <1>1, <1>2, <1>3 DEF IInv, SocketsOK

\* The client forgets its socket.
Forgotten ==
  /\ socket' = NoSocket /\ inbox' = <<>> /\ unanswered' = <<>> /\ leftOver' = FALSE /\ authorized' = FALSE

LEMMA ForgettingKeepsSockets ==
  ASSUME Forgotten, alive' \subseteq Sockets, orphans' \subseteq Sockets, alive' \subseteq orphans',
         stage' \in {"idle", "pausing", "opening"}
  PROVE  SocketsOK'
<1>1. SocketTypes'
  <2>1. <<>> \in Seq(Callers \cup Verdicts) /\ <<>> \in Seq(Callers \cup {"auth"})
    OBVIOUS
  <2> QED
    BY <2>1 DEF Forgotten, SocketTypes
<1>2. Opening' /\ OneExchange' /\ KeptIsAuthorized'
  BY DEF Forgotten, Opening, OneExchange, KeptIsAuthorized
<1>3. OnlyTimeoutsLeaveSockets'
  BY DEF OnlyTimeoutsLeaveSockets
<1> QED
  BY <1>1, <1>2, <1>3 DEF SocketsOK

LEMMA ClosingKeepsSockets ==
  ASSUME SocketsOK, CloseUnlocked, UNCHANGED orphans, stage' \in {"idle", "pausing", "opening"}
  PROVE  SocketsOK'
BY ForgettingKeepsSockets
  DEF CloseUnlocked, Forgotten, SocketsOK, SocketTypes, OnlyTimeoutsLeaveSockets

\* The socket and its messages stay as they are, and no exchange is under way.
LEMMA KeepingKeepsSockets ==
  ASSUME SocketsOK, UNCHANGED <<socketVars, orphans>>,
         stage \notin {"opening", "authorizing", "receiving"},
         stage' \notin {"opening", "authorizing", "receiving"},
         stage' = "ready" => stage = "ready" \/ socket # NoSocket
  PROVE  SocketsOK'
BY DEF socketVars, SocketsOK, SocketTypes, Opening, OneExchange, KeptIsAuthorized,
  OnlyTimeoutsLeaveSockets

LEMMA ConnectUnlockedKeepsSockets ==
  ASSUME IInv, stage \in {"begin", "pausing"}, ConnectUnlocked, UNCHANGED orphans
  PROVE  SocketsOK'
<1>0. stage' \in {"idle", "ready", "opening"}
  BY ConnectUnlockedKeepsTurns DEF IInv
<1>1. CASE socket \in alive /\ UNCHANGED socketVars /\ stage' # "opening"
  <2>1. socket # NoSocket
    BY <1>1, NobodyAssumption DEF IInv, SocketsOK, SocketTypes
  <2> QED
    BY <1>0, <1>1, <2>1, KeepingKeepsSockets DEF IInv
<1>2. CASE socket \notin alive /\ Forgotten /\ UNCHANGED alive /\ stage' = "opening"
  BY <1>2, ForgettingKeepsSockets DEF IInv, SocketsOK, SocketTypes, OnlyTimeoutsLeaveSockets
<1> QED
  BY <1>1, <1>2, EndCallKeepsTurns DEF ConnectUnlocked, Forgotten, IInv

\* The last attempt of a request leaves its socket with whatever it holds.
LEMMA TryAgainKeepsSockets ==
  ASSUME IInv, stage \in {"ready", "receiving"}, TryAgain, UNCHANGED orphans
  PROVE  SocketsOK'
<1>1. stage' \in {"idle", "pausing"}
  BY TryAgainKeepsTurns DEF IInv
<1>2. CASE CloseUnlocked
  BY <1>1, <1>2, ClosingKeepsSockets DEF IInv
<1>3. CASE leftOver' = TRUE /\ UNCHANGED <<socket, alive, inbox, unanswered, authorized>>
  BY <1>1, <1>3 DEF IInv, SocketsOK, SocketTypes, Opening, OneExchange, KeptIsAuthorized,
    OnlyTimeoutsLeaveSockets
<1> QED
  BY <1>2, <1>3 DEF TryAgain

-----------------------------------------------------------------------------
(* Every step *)

LEMMA CallKeeps ==
  ASSUME IInv, NEW c \in Callers, NextSetting(c) \/ \E j \in Jobs : Call(c, j)
  PROVE  IInv'
<1>1. /\ Queue!Arrive(c) /\ UNCHANGED <<stage, attempt, socketVars, orphans>>
      /\ job' \in [Callers -> Jobs \cup {NoJob}]
  BY DEF NextSetting, Call, IInv, TurnOK
<1>2. TurnOK'
  BY <1>1, ArriveKeepsTurns DEF IInv
<1>3. SocketsOK'
  BY <1>1 DEF Queue!Arrive, socketVars, IInv, SocketsOK, SocketTypes, Opening, OneExchange,
    KeptIsAuthorized,
              OnlyTimeoutsLeaveSockets
<1> QED
  BY <1>2, <1>3 DEF IInv

LEMMA StartKeeps == ASSUME IInv, Start PROVE IInv'
<1>1. TurnOK' /\ stage = "idle" /\ stage' = "begin"
  BY StartKeepsTurns DEF IInv
<1>2. SocketsOK'
  BY <1>1, KeepingKeepsSockets DEF IInv, Start
<1> QED
  BY <1>1, <1>2 DEF IInv

LEMMA BeginRequestKeeps == ASSUME IInv, BeginRequest \/ Reconnect PROVE IInv'
<1>1. stage \in {"begin", "pausing"} /\ ConnectUnlocked /\ UNCHANGED orphans
  BY DEF BeginRequest, Reconnect
<1> QED
  BY <1>1, ConnectUnlockedKeepsTurns, ConnectUnlockedKeepsSockets DEF IInv

LEMMA BeginCloseKeeps == ASSUME IInv, BeginClose PROVE IInv'
BY EndCallKeepsTurns, ClosingKeepsSockets DEF BeginClose, IInv

LEMMA OpenSucceedsKeeps == ASSUME IInv, OpenSucceeds PROVE IInv'
<1>1. /\ stage = "opening" /\ stage' = "authorizing" /\ unanswered' = <<"auth">>
      /\ UNCHANGED <<queueVars, attempt, inbox, leftOver, authorized, orphans>>
  BY DEF OpenSucceeds
<1>2. PICK s \in Sockets \ alive : socket' = s /\ alive' = alive \cup {s}
  BY DEF OpenSucceeds
<1>3. ~ leftOver /\ socket = NoSocket /\ inbox = <<>>
  BY <1>1 DEF IInv, SocketsOK, Opening, OneExchange
<1>4. SocketTypes'
  BY <1>1, <1>2 DEF IInv, SocketsOK, SocketTypes
<1>5. Opening' /\ OneExchange' /\ KeptIsAuthorized'
  BY <1>1, <1>3 DEF Opening, OneExchange, KeptIsAuthorized
<1>6. OnlyTimeoutsLeaveSockets'
  BY <1>1, <1>2, <1>3, NobodyAssumption DEF IInv, SocketsOK, SocketTypes, OnlyTimeoutsLeaveSockets
<1>7. TurnOK'
  BY <1>1, GoingOnKeepsTurns DEF IInv, TurnOK, Stages
<1> QED
  BY <1>4, <1>5, <1>6, <1>7 DEF IInv, SocketsOK

LEMMA ConnectEndsKeeps ==
  ASSUME IInv, OpenFails \/ NotAuthorized \/ AuthorizationMissing
  PROVE  IInv'
<1>1. PICK retry : ConnectFails(retry) /\ stage # "idle" /\ UNCHANGED orphans
  BY DEF OpenFails, NotAuthorized, AuthorizationMissing
<1>2. TurnOK' /\ stage' \in {"idle", "pausing"}
  BY <1>1, ConnectFailsKeepsTurns DEF IInv
<1> QED
  BY <1>1, <1>2, ClosingKeepsSockets DEF ConnectFails, IInv

LEMMA OpenTimesOutKeeps == ASSUME IInv, OpenTimesOut PROVE IInv'
<1>1. TurnOK' /\ stage' \in {"idle", "pausing"}
  BY ReconnectKeepsTurns, EndCallKeepsTurns DEF OpenTimesOut, IInv
<1>2. PICK s \in Sockets \ alive : orphans' = orphans \cup {s} /\ alive' = alive \cup {s}
  BY DEF OpenTimesOut
<1>3. alive \subseteq orphans /\ alive \subseteq Sockets /\ orphans \subseteq Sockets
  BY NobodyAssumption
     DEF OpenTimesOut, IInv, SocketsOK, SocketTypes, Opening, OnlyTimeoutsLeaveSockets
<1>4. Forgotten
  BY DEF OpenTimesOut, Forgotten
<1>5. SocketsOK'
  BY <1>1, <1>2, <1>3, <1>4, ForgettingKeepsSockets
<1> QED
  BY <1>1, <1>5 DEF IInv

LEMMA AuthorizedKeeps == ASSUME IInv, Authorized PROVE IInv'
<1>1. /\ stage = "authorizing" /\ inbox # <<>> /\ inbox' = Tail(inbox) /\ authorized' = TRUE
      /\ UNCHANGED <<socket, alive, unanswered, leftOver, orphans>>
  BY DEF Authorized
<1>2. TurnOK' /\ stage' \in {"idle", "ready"}
  <2>1. CASE EndCall
    BY <2>1, EndCallKeepsTurns DEF IInv
  <2>2. CASE stage' = "ready" /\ UNCHANGED <<queueVars, attempt>>
    BY <1>1, <2>2, GoingOnKeepsTurns DEF IInv, TurnOK, Stages
  <2> QED
    BY <2>1, <2>2 DEF Authorized
<1>3. ~ leftOver /\ unanswered = <<>> /\ \E v \in Verdicts : inbox = <<v>>
  BY <1>1 DEF IInv, SocketsOK, Opening, OneExchange
<1>4. inbox' = <<>>
  BY <1>1, <1>3
<1>5. SocketTypes' /\ Opening' /\ OneExchange' /\ KeptIsAuthorized' /\ OnlyTimeoutsLeaveSockets'
  BY <1>1, <1>2, <1>3, <1>4
     DEF IInv, SocketsOK, SocketTypes, Opening, OneExchange, KeptIsAuthorized,
       OnlyTimeoutsLeaveSockets
<1> QED
  BY <1>2, <1>5 DEF IInv, SocketsOK

LEMMA SendKeeps == ASSUME IInv, Send PROVE IInv'
<1>1. /\ stage = "ready" /\ stage' = "receiving" /\ unanswered' = Append(unanswered, running)
      /\ UNCHANGED <<queueVars, attempt, socket, alive, inbox, leftOver, authorized, orphans>>
  BY DEF Send
<1>2. running \in Callers /\ running' = running
  BY <1>1 DEF IInv, TurnOK, queueVars
<1>3. TurnOK'
  BY <1>1, GoingOnKeepsTurns DEF IInv, TurnOK, Stages
<1>4. unanswered \in Seq(Callers \cup {"auth"}) /\ (~ leftOver => inbox = <<>> /\ unanswered = <<>>)
  BY <1>1 DEF IInv, SocketsOK, SocketTypes, OneExchange
<1>5. unanswered' \in Seq(Callers \cup {"auth"}) /\ (~ leftOver => unanswered' = <<running>>)
  <2>1. Append(<<>>, running) = <<running>>
    OBVIOUS
  <2>2. running \in Callers \cup {"auth"}
    BY <1>2
  <2>3. unanswered' \in Seq(Callers \cup {"auth"})
    BY <1>1, <1>4, <2>2
  <2> QED
    BY <1>1, <1>4, <2>1, <2>3
<1>6. SocketTypes' /\ Opening' /\ KeptIsAuthorized' /\ OnlyTimeoutsLeaveSockets'
  BY <1>1, <1>5
    DEF IInv, SocketsOK, SocketTypes, Opening, KeptIsAuthorized, OnlyTimeoutsLeaveSockets
<1>7. OneExchange'
  BY <1>1, <1>2, <1>4, <1>5 DEF OneExchange
<1> QED
  BY <1>3, <1>6, <1>7 DEF IInv, SocketsOK

LEMMA RequestFailsKeeps == ASSUME IInv, SendFails \/ ReceiveFails PROVE IInv'
<1>1. stage \in {"ready", "receiving"} /\ TryAgain /\ UNCHANGED orphans
  BY DEF SendFails, ReceiveFails
<1> QED
  BY <1>1, TryAgainKeepsTurns, TryAgainKeepsSockets DEF IInv

\* One setting less is left to read.
LEMMA OneLess ==
  ASSUME TurnOK, NEW c \in Callers, job[c].left > 1
  PROVE  [op |-> "read", left |-> job[c].left - 1] \in Jobs
<1>1. job[c] \in Jobs \cup {NoJob}
  BY DEF TurnOK
<1>2. job[c].left \in 1..MaxSettings
  BY <1>1 DEF Jobs, NoJob
<1>3. job[c].left - 1 \in 1..MaxSettings
  BY <1>2, SettingsAssumption
<1> QED
  BY <1>3 DEF Jobs

LEMMA ReceiveKeeps == ASSUME IInv, Receive PROVE IInv'
<1>1. /\ stage = "receiving" /\ inbox # <<>> /\ inbox' = Tail(inbox)
      /\ UNCHANGED <<socket, alive, unanswered, leftOver, authorized, orphans>>
  BY DEF Receive
<1>2. running \in Callers
  BY <1>1 DEF IInv, TurnOK
<1>3. PICK j \in Jobs \cup {NoJob} : EndTurn(j)
  BY <1>2, OneLess DEF Receive, EndCall, IInv
<1>4. TurnOK' /\ stage' = "idle"
  BY <1>3, EndTurnKeepsTurns DEF IInv
<1>5. inbox' \in Seq(Callers \cup Verdicts) /\ (~ leftOver => inbox' = <<>> /\ unanswered = <<>>)
  <2>1. inbox \in Seq(Callers \cup Verdicts) /\ (~ leftOver => inbox = <<running>> /\ unanswered = <<>>)
    BY <1>1 DEF IInv, SocketsOK, SocketTypes, OneExchange
  <2>2. Tail(<<running>>) = <<>>
    OBVIOUS
  <2> QED
    BY <1>1, <2>1, <2>2
<1>6. SocketTypes' /\ Opening' /\ OneExchange' /\ KeptIsAuthorized' /\ OnlyTimeoutsLeaveSockets'
  BY <1>1, <1>4, <1>5
     DEF IInv, SocketsOK, SocketTypes, Opening, OneExchange, KeptIsAuthorized,
       OnlyTimeoutsLeaveSockets
<1> QED
  BY <1>4, <1>6 DEF IInv, SocketsOK

\* The device answers the exchange that is under way, and what a socket with
\* left-over messages holds does not matter.
LEMMA AnswerKeeps == ASSUME IInv, Answer PROVE IInv'
<1>0. /\ unanswered # <<>> /\ unanswered' = Tail(unanswered)
      /\ UNCHANGED <<queueVars, stage, attempt, socket, alive, leftOver, authorized, orphans>>
  BY DEF Answer
<1>1. PICK message \in IF Head(unanswered) = "auth" THEN Verdicts ELSE {Head(unanswered)} :
        inbox' = Append(inbox, message)
  BY DEF Answer
<1>2. inbox \in Seq(Callers \cup Verdicts) /\ unanswered \in Seq(Callers \cup {"auth"})
  BY DEF IInv, SocketsOK, SocketTypes
<1>3. Head(unanswered) \in Callers \cup {"auth"} /\ Tail(unanswered) \in Seq(Callers \cup {"auth"})
  BY <1>0, <1>2
<1>4. message \in Callers \cup Verdicts
  BY <1>1, <1>3
<1>5. SocketTypes' /\ Opening' /\ KeptIsAuthorized' /\ OnlyTimeoutsLeaveSockets'
  <2>1. inbox' \in Seq(Callers \cup Verdicts)
    BY <1>1, <1>2, <1>4
  <2> QED
    BY <1>0, <1>3, <2>1
      DEF IInv, SocketsOK, SocketTypes, Opening, KeptIsAuthorized, OnlyTimeoutsLeaveSockets
<1>6. OneExchange'
  <2> SUFFICES ASSUME ~ leftOver PROVE OneExchange'
    BY <1>0 DEF OneExchange
  <2>1. CASE stage = "authorizing" /\ inbox = <<>> /\ unanswered = <<"auth">>
    <3>1. Head(unanswered) = "auth" /\ unanswered' = <<>> /\ inbox' = <<message>> /\ message \in Verdicts
      BY <1>0, <1>1, <2>1
    <3> QED
      BY <1>0, <2>1, <3>1 DEF OneExchange
  <2>2. CASE stage = "receiving" /\ inbox = <<>> /\ unanswered = <<running>>
    <3>1. running \in Callers /\ running' = running
      BY <1>0, <2>2 DEF IInv, TurnOK, queueVars
    <3>2. Head(unanswered) = running /\ running # "auth"
      BY <2>2, <3>1, PinAssumption
    <3>3. unanswered' = <<>> /\ inbox' = <<running>>
      BY <1>0, <1>1, <2>2, <3>2
    <3> QED
      BY <1>0, <2>2, <3>1, <3>3 DEF OneExchange
  <2> QED
    BY <1>0, <2>1, <2>2 DEF IInv, SocketsOK, OneExchange
<1>7. TurnOK'
  BY <1>0 DEF IInv, TurnOK, queueVars
<1> QED
  BY <1>5, <1>6, <1>7 DEF IInv, SocketsOK

LEMMA DropKeeps == ASSUME IInv, (\E s \in Sockets : Drop(s)) \/ UNCHANGED vars PROVE IInv'
<1>1. /\ UNCHANGED <<queueVars, stage, attempt, socket, inbox, unanswered, leftOver, authorized>>
      /\ alive' \subseteq alive /\ orphans' \subseteq orphans
      /\ alive' \cap orphans \subseteq orphans'
  BY DEF Drop, vars, socketVars
<1>2. TurnOK'
  BY <1>1 DEF IInv, TurnOK, queueVars
<1>3. SocketTypes' /\ Opening' /\ OneExchange' /\ KeptIsAuthorized'
  BY <1>1 DEF IInv, SocketsOK, SocketTypes, Opening, OneExchange, KeptIsAuthorized, queueVars
<1>4. OnlyTimeoutsLeaveSockets'
  BY <1>1 DEF IInv, SocketsOK, OnlyTimeoutsLeaveSockets
<1> QED
  BY <1>2, <1>3, <1>4 DEF IInv, SocketsOK

LEMMA NextKeeps == IInv /\ [Next]_vars => IInv'
BY CallKeeps, StartKeeps, BeginRequestKeeps, BeginCloseKeeps, OpenSucceedsKeeps, ConnectEndsKeeps,
   OpenTimesOutKeeps, AuthorizedKeeps, SendKeeps, RequestFailsKeeps, ReceiveKeeps, AnswerKeeps, DropKeeps
   DEF Next, TurnStep

THEOREM SpecIInv == Spec => []IInv
BY InitIInv, NextKeeps, PTL DEF Spec

-----------------------------------------------------------------------------
(* What it implies *)

\* The variables of the client keep their types.
THEOREM NavigatorTypes == Spec => []TypeOK
<1>1. IInv => TypeOK
  BY DEF IInv, TurnOK, SocketsOK, SocketTypes, TypeOK
<1> QED
  BY <1>1, SpecIInv, PTL

\* A request gets its own answer unless an earlier one gave up on the socket,
\* however late and in whatever order the device and the callers act.
THEOREM NavigatorAnswers == Spec => []AnswersTheirRequest
<1>1. ASSUME IInv, stage = "receiving", inbox # <<>>, ~ leftOver PROVE Head(inbox) = running
  <2>1. inbox = <<running>>
    BY <1>1 DEF IInv, SocketsOK, OneExchange
  <2> QED
    BY <2>1
<1>2. IInv => AnswersTheirRequest
  BY <1>1 DEF AnswersTheirRequest
<1> QED
  BY <1>2, SpecIInv, PTL

\* Requests go out on sockets on which the PIN was accepted.
THEOREM NavigatorAuthorizes == Spec => []RequestsAreAuthorized
<1>1. IInv => RequestsAreAuthorized
  BY DEF IInv, SocketsOK, KeptIsAuthorized, RequestsAreAuthorized
<1> QED
  BY <1>1, SpecIInv, PTL

\* Every WebSocket alive is the one in use or was given up by a connect timeout.
THEOREM NavigatorLeavesNoSockets == Spec => []OnlyTimeoutsLeaveSockets
<1>1. IInv => OnlyTimeoutsLeaveSockets
  BY DEF IInv, SocketsOK
<1> QED
  BY <1>1, SpecIInv, PTL

\* The step after a rejected PIN is the end of its call.
LEMMA RejectedStep ==
  ASSUME IInv, [Next]_vars, stage = "authorizing", inbox # <<>>, Head(inbox) = "rejected", stage' # stage
  PROVE  NotAuthorized
<1>1. running # NoCaller
  BY DEF IInv, TurnOK
<1>2. ~ Start
  BY <1>1 DEF Start, Queue!Start
<1>3. ~ TurnStep \/ NotAuthorized
  BY DEF TurnStep, BeginRequest, BeginClose, OpenSucceeds, OpenFails, OpenTimesOut, Authorized,
         AuthorizationMissing, Reconnect, Send, SendFails, Receive, ReceiveFails
<1>4. ~ (Answer \/ (\E s \in Sockets : Drop(s)) \/ UNCHANGED vars)
  BY DEF Answer, Drop, vars
<1>5. ~ \E c \in Callers : NextSetting(c) \/ \E j \in Jobs : Call(c, j)
  BY DEF NextSetting, Call
<1> QED
  BY <1>2, <1>3, <1>4, <1>5 DEF Next

\* A PIN that the device rejected is not presented again by the same call.
THEOREM NavigatorGivesUpRejectedPins == Spec => RejectedPinEndsTheCall
<1>1. ASSUME IInv, [Next]_vars, NEW c \in Callers,
             stage = "authorizing", running = c, inbox # <<>>, Head(inbox) = "rejected", stage' # stage
      PROVE  job'[c] = NoJob
  <2>1. NotAuthorized
    BY <1>1, RejectedStep
  <2>2. EndCall
    BY <1>1, <2>1 DEF NotAuthorized, ConnectFails
  <2> QED
    BY <1>1, <2>2 DEF EndCall, EndTurn, IInv, TurnOK
<1>2. IInv /\ [Next]_vars =>
        [\A c \in Callers :
           stage = "authorizing" /\ running = c /\ inbox # <<>> /\ Head(inbox) = "rejected" /\ stage' # stage
             => job'[c] = NoJob]_vars
  BY <1>1
<1> QED
  BY <1>2, SpecIInv, PTL DEF Spec, RejectedPinEndsTheCall
=============================================================================
