------------------------ MODULE Navigator20WebProofs ------------------------
(***************************************************************************)
(* A read of the Navigator 2.0 client returns with data unless a close     *)
(* came in between, and a failed login names what its own pages told, for  *)
(* any callers, paths and numbers of posts.  The first needs to know what  *)
(* a read has in hand while it waits for its turn to go on; the second what*)
(* any sequence of posts can leave in the flag of the login form.          *)
(***************************************************************************)
EXTENDS Navigator20Web, WellFoundedInduction, TLAPS

-----------------------------------------------------------------------------
(* The posts of the login form *)

\* A set of numbers has a least one.
LEMMA Smallest ==
  ASSUME NEW T \in SUBSET Nat, T # {}
  PROVE  \E x \in T : \A y \in T : x <= y
<1>1. PICK x \in T : \A y \in T : ~ (<<y, x>> \in OpToRel(<, Nat))
  BY NatLessThanWellFounded, WFMin
<1>2. ASSUME NEW y \in T PROVE ~ (y < x)
  <2>1. y \in Nat /\ x \in Nat
    OBVIOUS
  <2> QED
    BY <1>1, <2>1, Zenon DEF OpToRel
<1> QED
  BY <1>2

\* What is so for 0, and for each next number, is so for all.
LEMMA Counting ==
  ASSUME NEW T \in SUBSET Nat, 0 \in T, \A n \in T : n + 1 \in T
  PROVE  T = Nat
<1> SUFFICES ASSUME Nat \ T # {} PROVE FALSE
  OBVIOUS
<1>1. PICK x \in Nat \ T : \A y \in Nat \ T : x <= y
  BY Smallest
<1>2. x # 0 /\ x - 1 \in Nat
  OBVIOUS
<1>3. x - 1 \in T
  BY <1>1, <1>2
<1>4. (x - 1) + 1 \in T
  BY <1>3
<1> QED
  BY <1>2, <1>4

\* Where the posts can be after each of them.
NoPost(formReturned) == [formReturned |-> formReturned, next |-> 1, lastPage |-> "nothing"]

OnePost(logins, n) ==
  UNION {IF login.next = n THEN {Posted(login, answer) : answer \in PostAnswers}
                           ELSE {login} : login \in logins}

Posting(f, formReturned, k) ==
  f = [n \in 0..k |-> IF n = 0 THEN {NoPost(formReturned)} ELSE OnePost(f[n - 1], n)]

LEMMA PostingExists ==
  ASSUME NEW formReturned, NEW k \in Nat
  PROVE  \E f : Posting(f, formReturned, k)
<1> DEFINE T == {n \in Nat : \E f : Posting(f, formReturned, n)}
<1>1. 0 \in T
  <2>1. Posting([m \in 0..0 |-> {NoPost(formReturned)}], formReturned, 0)
    BY DEF Posting
  <2> QED
    BY <2>1
<1>2. ASSUME NEW n \in T PROVE n + 1 \in T
  <2>1. PICK g : Posting(g, formReturned, n)
    OBVIOUS
  <2> DEFINE h == [m \in 0..(n + 1) |-> IF m <= n THEN g[m] ELSE OnePost(g[n], n + 1)]
  <2>2. ASSUME NEW m \in 0..(n + 1)
        PROVE  h[m] = IF m = 0 THEN {NoPost(formReturned)} ELSE OnePost(h[m - 1], m)
    <3>1. CASE m = n + 1
      BY <3>1
    <3>2. CASE m # n + 1
      <4>1. m \in 0..n /\ h[m] = g[m] /\ (m # 0 => h[m - 1] = g[m - 1])
        BY <3>2
      <4> QED
        BY <2>1, <4>1 DEF Posting
    <3> QED
      BY <3>1, <3>2
  <2>3. Posting(h, formReturned, n + 1)
    BY <2>2 DEF Posting
  <2> QED
    BY <2>3
<1> HIDE DEF T
<1>3. T = Nat
  BY <1>1, <1>2, Counting DEF T
<1> QED
  BY <1>3 DEF T

\* A login whose flag says what its last page told.
Blaming == {"form", "refused"}

Honest == {login \in [formReturned : BOOLEAN, next : Int, lastPage : {"nothing", "entered"} \cup Blaming] :
             login.formReturned = (login.lastPage \in Blaming)}

\* There are no other answers to a post.
LEMMA AnswersToPosts == PostAnswers \subseteq {"nothing", "entered"} \cup Blaming
<1>1. ASSUME NEW response
      PROVE  PostAnswer(response) \in {"nothing", "entered", "form", "refused"}
  BY Zenon DEF PostAnswer
<1> QED
  BY <1>1 DEF PostAnswers, Blaming

LEMMA PostedIsHonest ==
  ASSUME NEW login \in Honest, NEW answer \in PostAnswers
  PROVE  Posted(login, answer) \in Honest
<1> DEFINE path == (login.next - 1) \div PinFields
<1>1. /\ LoginPaths \in Nat /\ PinFields \in Nat \ {0} /\ login.next \in Int
      /\ login.formReturned \in BOOLEAN /\ login.formReturned = (login.lastPage \in Blaming)
      /\ login.lastPage \in {"nothing", "entered"} \cup Blaming
  BY FormAssumption DEF Honest
<1>2. path \in Int
  BY <1>1
<1>3. (path + 1) * PinFields + 1 \in Int /\ LoginPaths * PinFields + 1 \in Int /\ login.next + 1 \in Int
  BY <1>1, <1>2
<1>4. CASE answer = "refused"
  BY <1>3, <1>4 DEF Posted, Honest, Blaming
<1>5. CASE answer = "form"
  BY <1>3, <1>5 DEF Posted, Honest, Blaming
<1>6. CASE answer = "entered"
  <2>1. Posted(login, answer) = [formReturned |-> FALSE, next |-> LoginPaths * PinFields + 1,
                                 lastPage |-> "entered"]
    BY <1>6, Zenon DEF Posted
  <2>2. FALSE = ("entered" \in Blaming)
    BY DEF Blaming
  <2>3. Posted(login, answer) \in
          [formReturned : BOOLEAN, next : Int, lastPage : {"nothing", "entered"} \cup Blaming]
    BY <1>3, <2>1
  <2>4. Posted(login, answer).formReturned = FALSE /\ Posted(login, answer).lastPage = "entered"
    BY <2>1
  <2>5. Posted(login, answer).formReturned = (Posted(login, answer).lastPage \in Blaming)
    BY <2>2, <2>4, Zenon
  <2> QED
    BY <2>3, <2>5, Zenon DEF Honest
<1>7. CASE answer = "nothing"
  <2>1. Posted(login, answer) = [formReturned |-> login.formReturned, next |-> login.next + 1,
                                 lastPage |-> login.lastPage]
    BY <1>7, Zenon DEF Posted
  <2> QED
    BY <1>1, <1>3, <2>1 DEF Honest
<1> QED
  BY <1>4, <1>5, <1>6, <1>7, AnswersToPosts DEF Blaming

LEMMA OnePostIsHonest ==
  ASSUME NEW logins \in SUBSET Honest, NEW n
  PROVE  OnePost(logins, n) \subseteq Honest
BY PostedIsHonest DEF OnePost

\* However the device answers the posts of a login, its flag is set exactly if
\* the last page of this login was the form or a refusal.
LEMMA LoginsAreHonest ==
  ASSUME NEW formReturned
  PROVE  tryLogin(formReturned) \subseteq Honest
<1> DEFINE k == LoginPaths * PinFields
           f == CHOOSE f : Posting(f, FALSE, k)
<1>1. k \in Nat
  BY FormAssumption
<1>2. Posting(f, FALSE, k)
  BY <1>1, PostingExists
<1>3. tryLogin(formReturned) = f[k]
  BY DEF tryLogin, Posts, Posting, OnePost, NoPost
<1> HIDE DEF f, k
<1>4. \A n \in 0..k : f[n] = IF n = 0 THEN {NoPost(FALSE)} ELSE OnePost(f[n - 1], n)
  BY <1>1, <1>2 DEF Posting
<1> DEFINE T == {n \in Nat : n <= k => f[n] \subseteq Honest}
<1>5. 0 \in T
  <2>1. f[0] = {NoPost(FALSE)}
    <3>1. 0 \in 0..k
      BY <1>1
    <3> QED
      BY <1>4, <3>1, Zenon
  <2>2. NoPost(FALSE) \in Honest
    <3>1. 1 \in Int
      OBVIOUS
    <3>2. FALSE = ("nothing" \in Blaming)
      BY DEF Blaming
    <3> QED
      BY <3>1, <3>2 DEF NoPost, Honest
  <2> QED
    BY <2>1, <2>2
<1>6. ASSUME NEW n \in T PROVE n + 1 \in T
  <2> SUFFICES ASSUME n + 1 <= k PROVE f[n + 1] \subseteq Honest
    OBVIOUS
  <2>1. f[n] \subseteq Honest
    BY <1>1
  <2>2. f[n + 1] = OnePost(f[n], n + 1)
    BY <1>1, <1>4
  <2> QED
    BY <2>1, <2>2, OnePostIsHonest
<1> HIDE DEF T
<1>7. T = Nat
  BY <1>5, <1>6, Counting DEF T
<1> QED
  BY <1>1, <1>3, <1>7 DEF T

-----------------------------------------------------------------------------
(* A failed login *)

\* From the posts on, the flag says what the last page of this login told.
FlagIsOwn ==
  stage = "probing" =>
    /\ lastPage \in {"nothing", "entered"} \cup Blaming
    /\ loginFormReturned = (lastPage \in Blaming)

LEMMA FlagStaysOwn == FlagIsOwn /\ [Next]_vars => FlagIsOwn'
<1> SUFFICES ASSUME FlagIsOwn, [Next]_vars PROVE FlagIsOwn'
  OBVIOUS
<1> USE DEF FlagIsOwn
<1>1. ASSUME NEW c \in Callers, NEW method, CallQueued(c, method) PROVE FlagIsOwn'
  BY <1>1 DEF CallQueued, loginVars, formVars
<1>2. ASSUME NEW c \in Callers, ReadAfterLogin(c) PROVE FlagIsOwn'
  BY <1>1, <1>2 DEF ReadAfterLogin
<1>3. ASSUME NEW c \in Callers, NEW wanted, ReadNow(c, wanted) PROVE FlagIsOwn'
  BY <1>3 DEF ReadNow, loginVars, formVars
<1>4. ASSUME NEW c \in Callers, ReadStep(c) PROVE FlagIsOwn'
  BY <1>4
    DEF ReadStep, Resume, TakeProbe, Request, Answered, TokenRejected, ReadThrows, ReadReturns,
     loginVars, formVars
<1>5. CASE StartLogin
  BY <1>5 DEF StartLogin
<1>6. CASE StartClose
  <2>1. loginFormReturned' = FALSE /\ lastPage' = "nothing"
    BY <1>6, Zenon DEF StartClose
  <2>2. FALSE = ("nothing" \in Blaming)
    BY DEF Blaming
  <2> QED
    BY <2>1, <2>2, Zenon
<1>7. CASE CloseEnds
  BY <1>7 DEF CloseEnds, loginVars, formVars
<1>8. CASE LoginEntered
  <2>1. PICK login \in tryLogin(loginFormReturned) :
          loginFormReturned' = login.formReturned /\ lastPage' = login.lastPage
    BY <1>8 DEF LoginEntered
  <2>2. login \in Honest
    BY <2>1, LoginsAreHonest
  <2> QED
    BY <2>1, <2>2 DEF Honest
<1>9. CASE LoginSucceeds
  BY <1>9 DEF LoginSucceeds
<1>10. ASSUME NEW error, LoginFails(error) PROVE FlagIsOwn'
  BY <1>10 DEF LoginFails
<1>11. ASSUME NEW p \in Paths, NEW answer, Probe(p, answer) PROVE FlagIsOwn'
  <2>1. stage = "probing" /\ stage' = "probing"
    BY <1>11 DEF Probe
  <2>2. CASE answer = "refused"
    <3>1. loginFormReturned' = TRUE /\ lastPage' = "refused"
      BY <1>11, <2>2, Zenon DEF Probe
    <3> QED
      BY <3>1 DEF Blaming
  <2>3. CASE answer # "refused"
    <3>1. loginFormReturned' = (loginFormReturned \/ FALSE) /\ lastPage' = lastPage
      BY <1>11, <2>3, Zenon DEF Probe
    <3>2. loginFormReturned = (lastPage \in Blaming)
      BY <2>1, Zenon
    <3>3. ((lastPage \in Blaming) \/ FALSE) = (lastPage \in Blaming)
      OBVIOUS
    <3>4. loginFormReturned' = (lastPage \in Blaming)
      BY <3>1, <3>2, <3>3, Zenon
    <3> QED
      BY <2>1, <3>1, <3>4, Zenon
  <2> QED
    BY <2>2, <2>3
<1>12. CASE UNCHANGED vars
  BY <1>12 DEF vars, loginVars, formVars
<1> QED
  BY <1>1, <1>2, <1>3, <1>4, <1>5, <1>6, <1>7, <1>8, <1>9, <1>10, <1>11, <1>12 DEF Next, QueueStep

\* A failed login blames the PIN exactly if the last page to tell of it is the
\* form or the text of a refusal, whatever earlier logins and the reads beside it
\* met, and however often the device answered with status 401 or 403, which the
\* login does not count as a page.
THEOREM LoginsNameTheirCause == Spec => LoginFailureNamesItsCause
<1>1. Init => FlagIsOwn
  BY DEF Init, FlagIsOwn
<1>2. ASSUME FlagIsOwn
      PROVE  /\ LoginFails("authentication") => lastPage \in {"form", "refused"}
             /\ LoginFails("response") => lastPage \in {"nothing", "entered"}
  BY <1>2 DEF FlagIsOwn, LoginFails, Blaming
<1>3. FlagIsOwn /\ [Next]_vars =>
        [/\ LoginFails("authentication") => lastPage \in {"form", "refused"}
         /\ LoginFails("response") => lastPage \in {"nothing", "entered"}]_vars
  BY <1>2
<1> QED
  BY <1>1, <1>3, FlagStaysOwn, PTL DEF Spec, LoginFailureNamesItsCause
-----------------------------------------------------------------------------
(* What a read returns with *)

FieldsAreFunctions ==
  /\ pc = [c \in Callers |-> pc[c]]
  /\ todo = [c \in Callers |-> todo[c]]
  /\ hasRead = [c \in Callers |-> hasRead[c]]
  /\ closedOver = [c \in Callers |-> closedOver[c]]

\* A read that goes on after its login has paths to read or to select from, and
\* one that reads has paths left or has read one, unless a close came between.
ReadsHaveWork ==
  \A c \in Callers :
    /\ pc[c] = "resume" => todo[c] # {} \/ dataPaths # {} \/ closedOver[c]
    /\ pc[c] = "loop" => todo[c] # {} \/ hasRead[c] \/ closedOver[c]

WorkInv == FieldsAreFunctions /\ ReadsHaveWork

LEMMA InitWork == Init => WorkInv
BY DEF Init, WorkInv, FieldsAreFunctions, ReadsHaveWork

\* The end of a call takes its caller out of both clauses.
LEMMA FinishKeepsWork ==
  ASSUME WorkInv, NEW c, Finish(c),
         \A d \in Callers : pc[d] = "resume" => dataPaths' # {} \/ dataPaths' = dataPaths
  PROVE  WorkInv'
BY DEF WorkInv, FieldsAreFunctions, ReadsHaveWork, Finish

LEMMA CallsKeepWork ==
  ASSUME WorkInv, NEW c \in Callers,
         (\E method \in {"login", "close", "read"} : CallQueued(c, method)) \/ (\E wanted \in SUBSET Paths : ReadNow(c, wanted))
  PROVE  WorkInv'
<1> USE DEF WorkInv, FieldsAreFunctions, ReadsHaveWork
<1>1. ASSUME NEW method, CallQueued(c, method) PROVE WorkInv'
  BY <1>1 DEF CallQueued, readVars, history
<1>2. ASSUME NEW wanted \in SUBSET Paths, ReadNow(c, wanted) PROVE WorkInv'
  <2>1. Select(wanted) # {}
    BY <1>2 DEF ReadNow, Select
  <2> QED
    BY <1>2, <2>1 DEF ReadNow, history
<1> QED
  BY <1>1, <1>2

LEMMA ReadsKeepWork ==
  ASSUME WorkInv, NEW c \in Callers, ReadStep(c)
  PROVE  WorkInv'
<1> USE DEF WorkInv, FieldsAreFunctions, ReadsHaveWork
<1>1. ASSUME NEW wanted \in SUBSET Paths, Resume(c, wanted) PROVE WorkInv'
  <2>1. CASE todo[c] = {}
    <3>1. Select(wanted) # {} \/ closedOver[c]
      BY <1>1, <2>1 DEF Resume, Select
    <3> QED
      BY <1>1, <2>1, <3>1 DEF Resume, history
  <2>2. CASE todo[c] # {}
    BY <1>1, <2>2 DEF Resume, history
  <2> QED
    BY <2>1, <2>2
<1>2. ASSUME NEW p \in Paths, TakeProbe(c, p) PROVE WorkInv'
  BY <1>2 DEF TakeProbe
<1>3. ASSUME NEW p \in Paths, Request(c, p) PROVE WorkInv'
  BY <1>3 DEF Request, readVars, history
<1>4. ASSUME NEW p \in Paths, NEW answer, Answered(c, p, answer) PROVE WorkInv'
  BY <1>4 DEF Answered
<1>5. ASSUME NEW answer, TokenRejected(c, answer) PROVE WorkInv'
  BY <1>5 DEF TokenRejected, readVars, history
<1>6. ASSUME NEW answer, ReadThrows(c, answer) PROVE WorkInv'
  BY <1>6, FinishKeepsWork DEF ReadThrows
<1>7. CASE ReadReturns(c)
  BY <1>7, FinishKeepsWork DEF ReadReturns
<1> QED
  BY <1>1, <1>2, <1>3, <1>4, <1>5, <1>6, <1>7 DEF ReadStep

LEMMA TurnsKeepWork ==
  ASSUME WorkInv, QueueStep
  PROVE  WorkInv'
<1> USE DEF WorkInv, FieldsAreFunctions, ReadsHaveWork
<1>1. CASE StartLogin
  BY <1>1 DEF StartLogin, readVars, history
<1>2. CASE StartClose
  BY <1>2 DEF StartClose, readVars
<1>3. CASE CloseEnds
  BY <1>3, FinishKeepsWork DEF CloseEnds
<1>4. CASE LoginEntered
  BY <1>4 DEF LoginEntered, readVars, history
<1>5. CASE LoginSucceeds
  <2>1. CASE job[running] = "login"
    BY <1>5, <2>1, FinishKeepsWork DEF LoginSucceeds
  <2>2. CASE job[running] # "login"
    BY <1>5, <2>2 DEF LoginSucceeds, readVars, history
  <2> QED
    BY <2>1, <2>2
<1>6. ASSUME NEW error, LoginFails(error) PROVE WorkInv'
  <2>1. \A c \in Callers : pc[c] \notin {"resume", "loop"}
    BY <1>6 DEF LoginFails, Drained
  <2> QED
    BY <1>6, <2>1, FinishKeepsWork DEF LoginFails
<1>7. ASSUME NEW p \in Paths, NEW answer, Probe(p, answer) PROVE WorkInv'
  BY <1>7 DEF Probe, readVars, history
<1> QED
  BY <1>1, <1>2, <1>3, <1>4, <1>5, <1>6, <1>7 DEF QueueStep

LEMMA NextKeepsWork == WorkInv /\ [Next]_vars => WorkInv'
<1>1. WorkInv /\ UNCHANGED vars => WorkInv'
  BY DEF vars, readVars, history, WorkInv, FieldsAreFunctions, ReadsHaveWork
<1>2. ASSUME NEW c \in Callers, ReadAfterLogin(c) PROVE CallQueued(c, "read")
  BY <1>2 DEF ReadAfterLogin
<1> QED
  BY <1>1, <1>2, CallsKeepWork, ReadsKeepWork, TurnsKeepWork DEF Next

\* A read that returns has read a path, unless a close came between its login
\* and its selection, whichever reads, logins and closes run beside it.
THEOREM ReadsReturnData == Spec => DataUnlessClosed
<1>1. ASSUME WorkInv, NEW c \in Callers, pc[c] = "loop", ReadReturns(c)
      PROVE  hasRead[c] \/ closedOver[c]
  BY <1>1 DEF WorkInv, ReadsHaveWork, ReadReturns
<1>2. WorkInv /\ [Next]_vars =>
        [\A c \in Callers : pc[c] = "loop" /\ ReadReturns(c) => hasRead[c] \/ closedOver[c]]_vars
  BY <1>1
<1> QED
  BY <1>2, InitWork, NextKeepsWork, PTL DEF Spec, DataUnlessClosed
=============================================================================
