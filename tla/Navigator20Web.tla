--------------------------- MODULE Navigator20Web ---------------------------
(***************************************************************************)
(* IdmNavigator20WebClient (web/navigator20.ts).  login and close take     *)
(* turns in a promise chain; readData does not, so reads run side by side, *)
(* logging in through the chain when they find no usable path or a stale   *)
(* CSRF token, and share the paths and the probe answers of the last login.*)
(* WebPages says what is made of the device's responses.                   *)
(*                                                                         *)
(* Steps are of two kinds, as in the runtime: continuations that are ready *)
(* (a turn that can start, a read whose login has returned or that has     *)
(* text to parse) all run before anything that awaits the network or the   *)
(* application.  Among themselves they run in any order.                   *)
(***************************************************************************)
EXTENDS WebPages, Sequences

CONSTANTS
  Callers,    \* tasks of the application that call the client
  NoCaller,
  Paths       \* DEFAULT_NAVIGATOR20_PATHS

ASSUME NobodyAssumption == NoCaller \notin Callers

VARIABLES
  waiting, running,  \* #queue
  job,               \* job[c]: the method that caller c awaits
  pc,                \* where the call of c is
  todo,              \* todo[c]: selected paths that the read of c has not read
  useProbes,         \* useProbes[c]: local useProbeResponses
  csrfRetried,       \* csrfRetried[c]: local csrfRetried
  stage,             \* what the login that has the turn awaits
  toProbe, usable,   \* its candidates left, and found usable so far
  loginFormReturned, \* #loginFormReturned
  dataPaths,         \* #dataPaths
  probes,            \* the paths that #probeResponses has an entry for
  hasRead,           \* history: the read of c has read a path
  closedOver,        \* history: a close ran between the login of c and its selection
  lastPage           \* history: the last answer to the running login that tells of the PIN

queueVars == <<waiting, running>>
readVars  == <<todo, useProbes, csrfRetried>>
formVars  == <<loginFormReturned, lastPage>>
loginVars == <<stage, toProbe, usable, formVars>>
history   == <<hasRead, closedOver>>
vars == <<queueVars, job, pc, readVars, loginVars, dataPaths, probes, history>>

Queue == INSTANCE ExclusiveQueue

TypeOK ==
  /\ waiting \in Seq(Callers)
  /\ running \in Callers \cup {NoCaller}
  /\ job \in [Callers -> {"none", "login", "close", "read"}]
  /\ pc \in [Callers -> {"none", "turn", "resume", "loop", "fetch"}]
  /\ todo \in [Callers -> SUBSET Paths]
  /\ useProbes \in [Callers -> BOOLEAN]
  /\ csrfRetried \in [Callers -> BOOLEAN]
  /\ stage \in {"idle", "entering", "probing"}
  /\ toProbe \subseteq Paths /\ usable \subseteq Paths
  /\ loginFormReturned \in BOOLEAN /\ lastPage \in PostAnswers
  /\ dataPaths \subseteq Paths /\ probes \subseteq Paths
  /\ hasRead \in [Callers -> BOOLEAN]
  /\ closedOver \in [Callers -> BOOLEAN]

Init ==
  /\ Queue!Init
  /\ job = [c \in Callers |-> "none"]
  /\ pc = [c \in Callers |-> "none"]
  /\ todo = [c \in Callers |-> {}]
  /\ useProbes = [c \in Callers |-> FALSE]
  /\ csrfRetried = [c \in Callers |-> FALSE]
  /\ stage = "idle" /\ toProbe = {} /\ usable = {}
  /\ loginFormReturned = FALSE /\ lastPage = "nothing"
  /\ dataPaths = {} /\ probes = {}
  /\ hasRead = [c \in Callers |-> FALSE]
  /\ closedOver = [c \in Callers |-> FALSE]

\* No continuation is ready: the event loop may turn to the next event.
Drained ==
  /\ \A c \in Callers : pc[c] \notin {"resume", "loop"}
  /\ running # NoCaller \/ waiting = <<>>

-----------------------------------------------------------------------------
(* Calls *)

CallQueued(c, method) ==
  /\ Drained
  /\ job[c] = "none"
  /\ Queue!Arrive(c)
  /\ job' = [job EXCEPT ![c] = method]
  /\ pc' = [pc EXCEPT ![c] = "turn"]
  /\ UNCHANGED <<readVars, loginVars, dataPaths, probes, history>>

\* readData selects its paths among the usable ones, or takes all of those.
Select(wanted) == IF wanted \cap dataPaths # {} THEN wanted \cap dataPaths ELSE dataPaths

\* readData with usable paths starts at once, outside of the queue ...
ReadNow(c, wanted) ==
  /\ Drained
  /\ job[c] = "none" /\ dataPaths # {}
  /\ job' = [job EXCEPT ![c] = "read"]
  /\ pc' = [pc EXCEPT ![c] = "loop"]
  /\ todo' = [todo EXCEPT ![c] = Select(wanted)]
  /\ probes' = {}
  /\ UNCHANGED <<queueVars, useProbes, csrfRetried, loginVars, dataPaths, history>>

\* ... and without any it awaits a login of its own.
ReadAfterLogin(c) == dataPaths = {} /\ CallQueued(c, "read")

\* The call of c returns or throws.
Finish(c) ==
  /\ job' = [job EXCEPT ![c] = "none"]
  /\ pc' = [pc EXCEPT ![c] = "none"]
  /\ todo' = [todo EXCEPT ![c] = {}]
  /\ useProbes' = [useProbes EXCEPT ![c] = FALSE]
  /\ csrfRetried' = [csrfRetried EXCEPT ![c] = FALSE]
  /\ hasRead' = [hasRead EXCEPT ![c] = FALSE]
  /\ closedOver' = [closedOver EXCEPT ![c] = FALSE]

-----------------------------------------------------------------------------
(* Turns: login and close *)

\* A login only begins, since it awaits the network at once.
StartLogin ==
  /\ Queue!Start
  /\ job[running'] # "close"
  /\ stage' = "entering"
  /\ UNCHANGED <<job, pc, readVars, toProbe, usable, formVars, dataPaths, probes, history>>

\* A close clears the session before it awaits anything.
StartClose ==
  /\ Queue!Start
  /\ job[running'] = "close"
  /\ dataPaths' = {} /\ probes' = {}
  /\ loginFormReturned' = FALSE /\ lastPage' = "nothing"
  /\ closedOver' = [c \in Callers |-> closedOver[c] \/ pc[c] = "resume"]
  /\ UNCHANGED <<job, pc, readVars, stage, toProbe, usable, hasRead>>

CloseEnds ==
  /\ Drained
  /\ running # NoCaller /\ job[running] = "close"
  /\ Queue!Settle
  /\ Finish(running)
  /\ UNCHANGED <<loginVars, dataPaths, probes>>

\* The device answers the first page, or the second, and then the posts of its
\* form; what comes of those shows only in the probes that follow.
LoginEntered ==
  /\ Drained
  /\ stage = "entering" /\ "nothing" \in InitialAnswers
  /\ stage' = "probing" /\ toProbe' = Paths /\ usable' = {}
  /\ probes' = {}
  /\ \E login \in tryLogin(loginFormReturned) :
       loginFormReturned' = login.formReturned /\ lastPage' = login.lastPage
  /\ UNCHANGED <<queueVars, job, pc, readVars, dataPaths, history>>

Probe(p, answer) ==
  /\ Drained
  /\ stage = "probing" /\ p \in toProbe
  /\ toProbe' = toProbe \ {p}
  /\ IF answer = "data" THEN usable' = usable \cup {p} /\ probes' = probes \cup {p}
                        ELSE UNCHANGED <<usable, probes>>
  /\ loginFormReturned' = (loginFormReturned \/ answer = "refused")
  /\ lastPage' = IF answer = "refused" THEN answer ELSE lastPage
  /\ UNCHANGED <<queueVars, job, pc, readVars, stage, dataPaths, history>>

\* Faulty variant: a login that finds no usable path succeeds.
LoginSucceedsAnyway ==
  /\ Drained
  /\ stage = "probing" /\ toProbe = {}
  /\ dataPaths' = usable
  /\ stage' = "idle" /\ usable' = {}
  /\ Queue!Settle
  /\ IF job[running] = "login"
     THEN Finish(running)
     ELSE pc' = [pc EXCEPT ![running] = "resume"] /\ UNCHANGED <<job, readVars, history>>
  /\ lastPage' = "nothing"
  /\ UNCHANGED <<toProbe, loginFormReturned, probes>>

\* The continuation of a read behind its login is ready once the turn is over.
LoginSucceeds ==
  /\ Drained
  /\ stage = "probing" /\ toProbe = {} /\ usable # {}
  /\ dataPaths' = usable
  /\ stage' = "idle" /\ usable' = {}
  /\ Queue!Settle
  /\ IF job[running] = "login"
     THEN Finish(running)
     ELSE pc' = [pc EXCEPT ![running] = "resume"] /\ UNCHANGED <<job, readVars, history>>
  /\ lastPage' = "nothing"
  /\ UNCHANGED <<toProbe, loginFormReturned, probes>>

\* The device cannot be reached, or no path is usable: the session is cleared
\* and the call that logged in throws.
LoginFails(error) ==
  /\ Drained
  /\ \/ stage = "entering" /\ error = "connection" /\ InitialAnswers # {"nothing"}
     \/ /\ stage = "probing" /\ toProbe = {} /\ usable = {}
        /\ error = IF loginFormReturned THEN "authentication" ELSE "response"
  /\ stage' = "idle"
  /\ dataPaths' = {} /\ probes' = {}
  /\ loginFormReturned' = FALSE /\ lastPage' = "nothing"
  /\ Queue!Settle
  /\ Finish(running)
  /\ UNCHANGED <<toProbe, usable>>

-----------------------------------------------------------------------------
(* readData *)

\* The login that the read awaited has returned: the first one is followed by
\* the selection of the paths, one after a CSRF failure by the same path again.
Resume(c, wanted) ==
  /\ pc[c] = "resume"
  /\ pc' = [pc EXCEPT ![c] = "loop"]
  /\ useProbes' = [useProbes EXCEPT ![c] = TRUE]
  /\ IF todo[c] = {}
     THEN todo' = [todo EXCEPT ![c] = Select(wanted)] /\ UNCHANGED csrfRetried
     ELSE csrfRetried' = [csrfRetried EXCEPT ![c] = TRUE] /\ UNCHANGED todo
  /\ UNCHANGED <<queueVars, job, loginVars, dataPaths, probes, history>>

\* A path whose probe answer is at hand is read without a request.
TakeProbe(c, p) ==
  /\ pc[c] = "loop" /\ p \in todo[c]
  /\ useProbes[c] /\ p \in probes
  /\ probes' = probes \ {p}
  /\ todo' = [todo EXCEPT ![c] = todo[c] \ {p}]
  /\ hasRead' = [hasRead EXCEPT ![c] = TRUE]
  /\ UNCHANGED <<queueVars, job, pc, useProbes, csrfRetried, loginVars, dataPaths, closedOver>>

Request(c, p) ==
  /\ pc[c] = "loop" /\ p \in todo[c]
  /\ ~ (useProbes[c] /\ p \in probes)
  /\ probes' = probes \ {p}
  /\ pc' = [pc EXCEPT ![c] = "fetch"]
  /\ UNCHANGED <<queueVars, job, readVars, loginVars, dataPaths, history>>

Answered(c, p, answer) ==
  /\ Drained
  /\ answer = "data"
  /\ pc[c] = "fetch" /\ p \in todo[c]
  /\ todo' = [todo EXCEPT ![c] = todo[c] \ {p}]
  /\ pc' = [pc EXCEPT ![c] = "loop"]
  /\ hasRead' = [hasRead EXCEPT ![c] = TRUE]
  /\ UNCHANGED <<queueVars, job, useProbes, csrfRetried, loginVars, dataPaths, probes, closedOver>>

\* Faulty variant: the request is repeated instead, as often as it takes.
TokenRejectedRepeating(c, answer) ==
  /\ Drained
  /\ answer = "token rejected"
  /\ pc[c] = "fetch"
  /\ pc' = [pc EXCEPT ![c] = "loop"]
  /\ UNCHANGED <<queueVars, job, readVars, loginVars, dataPaths, probes, history>>

\* The first rejected CSRF token of a read is followed by one more login.
TokenRejected(c, answer) ==
  /\ Drained
  /\ answer = "token rejected"
  /\ pc[c] = "fetch" /\ ~ csrfRetried[c]
  /\ Queue!Arrive(c)
  /\ pc' = [pc EXCEPT ![c] = "turn"]
  /\ UNCHANGED <<job, readVars, loginVars, dataPaths, probes, history>>

\* The second rejected token, any other failure, or an answer that is a login
\* page or a refusal.
ReadThrows(c, answer) ==
  /\ Drained
  /\ answer # "data" /\ (answer = "token rejected" => csrfRetried[c])
  /\ pc[c] = "fetch"
  /\ probes' = {}
  /\ Finish(c)
  /\ UNCHANGED <<queueVars, loginVars, dataPaths>>

\* What was read is cached and returned.
ReadReturns(c) ==
  /\ pc[c] = "loop" /\ todo[c] = {}
  /\ probes' = {}
  /\ Finish(c)
  /\ UNCHANGED <<queueVars, loginVars, dataPaths>>

-----------------------------------------------------------------------------

ReadStep(c) ==
  \/ \E wanted \in SUBSET Paths : Resume(c, wanted)
  \/ \E p \in Paths : TakeProbe(c, p) \/ Request(c, p)
  \/ \E p \in Paths, answer \in ReadAnswers : Answered(c, p, answer)
  \/ \E answer \in ReadAnswers : TokenRejected(c, answer) \/ ReadThrows(c, answer)
  \/ ReadReturns(c)

QueueStep ==
  \/ StartLogin \/ StartClose \/ CloseEnds
  \/ LoginEntered \/ LoginSucceeds
  \/ \E error \in {"connection", "authentication", "response"} : LoginFails(error)
  \/ \E p \in Paths, answer \in ProbeAnswers : Probe(p, answer)

Next ==
  \/ \E c \in Callers :
       \/ \E method \in {"login", "close"} : CallQueued(c, method)
       \/ ReadAfterLogin(c)
       \/ \E wanted \in SUBSET Paths : ReadNow(c, wanted)
       \/ ReadStep(c)
  \/ QueueStep

\* The runtime runs what is ready, and every HTTP request ends (each carries a
\* timeout).  An event waits whenever a continuation is ready (Drained), so its
\* step is enabled again and again rather than continuously; strong fairness
\* says that the event loop takes its events in the order they came.
Spec ==
  /\ Init /\ [][Next]_vars
  /\ SF_vars(QueueStep) /\ \A c \in Callers : SF_vars(ReadStep(c))

-----------------------------------------------------------------------------
(* Properties *)

\* A read that returns has read a path, unless a close() queued behind its
\* login ran before the read selected its paths (navigator20.ts:142-151,
\* 184-194).
DataUnlessClosed ==
  [][\A c \in Callers : pc[c] = "loop" /\ ReadReturns(c) => hasRead[c] \/ closedOver[c]]_vars

\* A login without a usable path is an error ("NAV2 web detection failed after
\* trying ... endpoint candidates", navigator20.ts:142-150), so readData, which
\* logs in when it has no paths, never returns and caches no data as data.
NeverCachesNothing ==
  [][\A c \in Callers : pc[c] = "loop" /\ ReadReturns(c) => hasRead[c]]_vars

\* A login that fails without a usable path blames the PIN exactly if the last page
\* to tell of the PIN is the login form or the text of a refusal: the last page of
\* this login, not of one before it, that answered a post, or a probe with such a
\* page (navigator20.ts:142-150, 269-304, 318-320).  Status 401 or 403 to a post or
\* a probe does not count, although it refuses the PIN as plainly: what #requestText
\* throws of it is swallowed (345-346, 286-289, 311-314), and a login that is
\* answered nothing else ends as a response error.
LoginFailureNamesItsCause ==
  [][/\ LoginFails("authentication") => lastPage \in {"form", "refused"}
     /\ LoginFails("response") => lastPage \in {"nothing", "entered"}]_vars

\* Every call returns or throws, however often a token is rejected and a login
\* fails (204-211).
EveryCallReturns == \A c \in Callers : job[c] # "none" ~> job[c] = "none"
=============================================================================
