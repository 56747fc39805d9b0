------------------------------ MODULE WebPages ------------------------------
(***************************************************************************)
(* How the Navigator 2.0 web client reads the device's HTTP responses:     *)
(* what a response is taken for (web/core.ts), which responses throw       *)
(* (#requestText) and what the posts of the login form, the probes of the  *)
(* data paths and readData make of them (web/navigator20.ts).              *)
(*                                                                         *)
(* A text is the set of the marks that the code looks for in it; the text  *)
(* of only white space is the empty set.                                   *)
(***************************************************************************)
EXTENDS Naturals, FiniteSets

CONSTANTS
  LoginPaths,  \* number of the paths that #tryLogin posts to, 3 in the code
  PinFields    \* number of the names it gives the PIN's field, 4 in the code

ASSUME FormAssumption == LoginPaths \in Nat \ {0} /\ PinFields \in Nat \ {0}

Marks == {
  "letters",       \* the text has more than white space
  "html",          \* <html
  "pin form",      \* a form with an input for a password or PIN
  "login word",    \* login, pin, password, passwort or csrf
  "refusal word",  \* unauthorized, invalid pin and the like
  "authorization required",
  "invalid csrf token",
  "json refusal",  \* an object that says authorized: false or the like
  "json error",    \* an object with a key error, errors or exception
  "data word"}     \* <table, setting, heatpump or value

\* The word that a longer mark contains is in the text as well.
Texts ==
  {text \in SUBSET Marks :
     /\ text # {} => "letters" \in text
     /\ "authorization required" \in text => "refusal word" \in text
     /\ "invalid csrf token" \in text => "login word" \in text}

\* One status for each that the code tells apart: success, 401 or 403, any other.
Responses == [status : {200, 401, 500}, text : Texts]

\* The request failed without a response.
NoResponse == [status |-> 0, text |-> {}]

-----------------------------------------------------------------------------
(* What a text is taken for *)

looksLikeLoginPage(text) == "html" \in text /\ {"pin form", "login word"} \cap text # {}

looksLikeAuthFailure(text) == {"json refusal", "refusal word"} \cap text # {}

looksLikeDataResponse(text) ==
  /\ "letters" \in text
  /\ ~ looksLikeLoginPage(text) /\ ~ looksLikeAuthFailure(text)
  /\ "json error" \notin text
  /\ "data word" \in text

-----------------------------------------------------------------------------
(* What is made of a response *)

\* What #requestText throws, if anything.
Thrown(response, requireOk) ==
  CASE response = NoResponse -> "connection"
    [] response.status = 401 -> "pin rejected"
    [] response.status # 401 /\ "invalid csrf token" \in response.text -> "csrf"
    [] response # NoResponse /\ requireOk /\ response.status = 500
         /\ "invalid csrf token" \notin response.text -> "status"
    [] OTHER -> "nothing"

\* A post of the login form; anything thrown is one more attempt without effect,
\* status 401 or 403 included.
PostAnswer(response) ==
  LET text == response.text IN
  CASE Thrown(response, FALSE) # "nothing" \/ text = {} -> "nothing"
    [] "authorization required" \in text -> "refused"
    [] "authorization required" \notin text /\ looksLikeLoginPage(text) -> "form"
    [] OTHER -> "entered"

\* A probe does not require status 200.
ProbeAnswer(response) ==
  LET text == response.text IN
  CASE Thrown(response, FALSE) # "nothing" -> "other"
    [] looksLikeDataResponse(text) -> "data"
    [] looksLikeAuthFailure(text) \/ looksLikeLoginPage(text) -> "refused"
    [] OTHER -> "other"

\* A path that readData requests.
ReadAnswer(response) ==
  LET text == response.text
      thrown == Thrown(response, TRUE) IN
  CASE thrown = "csrf" -> "token rejected"
    [] thrown = "nothing" /\ ~ looksLikeAuthFailure(text) /\ ~ looksLikeLoginPage(text) -> "data"
    [] OTHER -> "thrown"

AnyResponse == Responses \cup {NoResponse}
InitialAnswers == {Thrown(response, TRUE) : response \in AnyResponse}
PostAnswers == {PostAnswer(response) : response \in AnyResponse}
ProbeAnswers == {ProbeAnswer(response) : response \in AnyResponse}
ReadAnswers == {ReadAnswer(response) : response \in AnyResponse}

-----------------------------------------------------------------------------
(* #tryLogin *)

\* What one post of the login form changes: loginFormReturned and what is next.
\* lastPage is a history: the last answer that was a page.
Posted(login, answer) ==
  LET path == (login.next - 1) \div PinFields
      page == IF answer = "nothing" THEN login.lastPage ELSE answer IN
  CASE answer = "refused" -> [formReturned |-> TRUE, next |-> login.next + 1, lastPage |-> page]
    [] answer = "form" ->
         [formReturned |-> TRUE, next |-> (path + 1) * PinFields + 1, lastPage |-> page]
    [] answer = "entered" ->
         [formReturned |-> FALSE, next |-> LoginPaths * PinFields + 1, lastPage |-> page]
    [] OTHER ->
         [formReturned |-> login.formReturned, next |-> login.next + 1, lastPage |-> page]

\* Every way the posts can end; they go through all paths and fields unless the
\* form is accepted, and skip the other fields of a path that returns the form.
Posts(formReturned) ==
  LET after[n \in 0..LoginPaths * PinFields] ==
        IF n = 0 THEN {[formReturned |-> formReturned, next |-> 1, lastPage |-> "nothing"]}
        ELSE UNION {IF login.next = n THEN {Posted(login, answer) : answer \in PostAnswers}
                                      ELSE {login} : login \in after[n - 1]}
  IN after[LoginPaths * PinFields]

\* Faulty variant: the flag of the login before is not cleared.
tryLoginKeeping(formReturned) == Posts(formReturned)

\* The flag is cleared first, whatever it was.
tryLogin(formReturned) == Posts(FALSE)
=============================================================================
