------------------------------ MODULE XboxLive ------------------------------
(***************************************************************************)
(* Sign-in and telemetry (xbox_live_helper.cpp, jni/xbox_live.cpp): the    *)
(* game asks for a token silently or through the sign-in flow and gets its *)
(* answer from a callback of the msa daemon, events go to a manager that   *)
(* is made on first use, and shutdown, on the main thread, drops both      *)
(* while threads of the game may still run.                                *)
(*                                                                         *)
(* The daemon, the event manager and the login of the game are external:   *)
(* the first answers each call once while the client lives, the login ends *)
(* in onSuccess or onError.                                                *)
(***************************************************************************)
EXTENDS Naturals

CONSTANT Requests       (* requests of the game                               *)

VARIABLES
  client,               (* "none", "up", "failed" or "gone"                   *)
  cll,                  (* the same for the event manager                     *)
  flow,                 (* requests of the sign-in flow; the others are silent*)
  request,              (* where each request is                              *)
  answers,              (* callbacks each request got                         *)
  logger,               (* the thread that logs an event                      *)
  shutdown,             (* "no", "cll" or "client"                            *)
  fault                 (* a call used a client or manager that is gone       *)

vars == <<client, cll, flow, request, answers, logger, shutdown, fault>>
cllVars == <<cll, logger>>

Init ==
  /\ client = "none" /\ cll = "none" /\ shutdown = "no" /\ logger = "idle"
  /\ flow \in SUBSET Requests
  /\ request = [r \in Requests |-> "none"] /\ answers = [r \in Requests |-> 0]
  /\ fault = FALSE

Goto(r, at) == request' = [request EXCEPT ![r] = at]
Answered(r) == answers' = [answers EXCEPT ![r] = @ + 1]
Answer(r) == Goto(r, "done") /\ Answered(r)

(* getMsaClientOrNull, under clientMutex.  The first caller tries to        *)
(* connect, after a shutdown too, and nobody tries again.                   *)
Connect ==
  IF client = "none"
  THEN client' \in {"up", "failed"}
  ELSE UNCHANGED client

-----------------------------------------------------------------------------
(* Mutant: the caller goes on after it answered that there is no client.    *)
BeginAnyway(r) ==
  /\ request[r] \in {"none", "picked"} /\ Connect
  /\ Goto(r, IF r \in flow /\ request[r] = "none" THEN "pick" ELSE "ask")
  /\ IF client' = "up" THEN UNCHANGED answers ELSE Answered(r)
  /\ UNCHANGED <<cllVars, flow, shutdown, fault>>

(* invokeMSA starts at requestXblToken, invokeAuthFlow at the choice of the *)
(* account; both test the client first.                                     *)
Begin(r) ==
  /\ request[r] \in {"none", "picked"} /\ Connect
  /\ IF client' = "up"
     THEN /\ Goto(r, IF r \in flow /\ request[r] = "none" THEN "pick" ELSE "ask")
          /\ UNCHANGED answers
     ELSE Answer(r)
  /\ UNCHANGED <<cllVars, flow, shutdown, fault>>

(* The call itself: pickAccount with the pointer the test returned,         *)
(* requestToken with a second look that throws when the client is gone.     *)
Call(r) ==
  /\ request[r] \in {"pick", "ask"}
  /\ IF client = "up"
     THEN /\ Goto(r, IF request[r] = "pick" THEN "picking" ELSE "asking")
          /\ UNCHANGED fault
     ELSE fault' = TRUE /\ Goto(r, "lost")
  /\ UNCHANGED <<client, cllVars, flow, answers, shutdown>>

PickAccount(r) ==
  /\ request[r] = "picking" /\ client = "up"
  /\ \/ Goto(r, "picked") /\ UNCHANGED answers
     \/ Answer(r)
  /\ UNCHANGED <<client, cllVars, flow, shutdown, fault>>

(* Mutant: a token of another type is not answered.                         *)
TokenUnanswered(r) ==
  /\ request[r] = "asking" /\ client = "up"
  /\ \/ r \in flow /\ Goto(r, "login") /\ UNCHANGED answers
     \/ r \notin flow /\ Answer(r)
     \/ Goto(r, "lost") /\ UNCHANGED answers
  /\ UNCHANGED <<client, cllVars, flow, shutdown, fault>>

(* A token, or an error, or a token of another type, which is one too.      *)
RequestToken(r) ==
  /\ request[r] = "asking" /\ client = "up"
  /\ \/ r \in flow /\ Goto(r, "login") /\ UNCHANGED answers
     \/ Answer(r)
  /\ UNCHANGED <<client, cllVars, flow, shutdown, fault>>

(* invokeXBLogin hands the token to the game, whose onLogin leads to        *)
(* invokeEventInitialization; at either step it may report an error.        *)
onLogin(r) ==
  /\ request[r] = "login" /\ Goto(r, "events")
  /\ UNCHANGED <<client, cllVars, flow, answers, shutdown, fault>>

LoginEnds(r) ==
  /\ request[r] \in {"login", "events"} /\ Answer(r)
  /\ UNCHANGED <<client, cllVars, flow, shutdown, fault>>

-----------------------------------------------------------------------------
(* initCLL, and logCll, which goes on to cll->add without cllMutex.         *)
initCll ==
  /\ logger = "idle" /\ logger' \in {"idle", "add"}
  /\ cll' = "up"
  /\ UNCHANGED <<client, flow, request, answers, shutdown, fault>>

AddEvent ==
  /\ logger = "add" /\ logger' = "idle"
  /\ fault' = (fault \/ cll # "up")
  /\ UNCHANGED <<client, cll, flow, request, answers, shutdown>>

(* shutdown takes neither mutex.                                            *)
ResetCll ==
  /\ shutdown = "no" /\ shutdown' = "cll"
  /\ cll' = "gone"
  /\ UNCHANGED <<client, flow, request, answers, logger, fault>>

ResetClient ==
  /\ shutdown = "cll" /\ shutdown' = "client"
  /\ client' = IF client = "up" THEN "gone" ELSE client
  /\ UNCHANGED <<cllVars, flow, request, answers, fault>>

Step(r) == Begin(r) \/ Call(r) \/ PickAccount(r) \/ RequestToken(r) \/ onLogin(r) \/ LoginEnds(r)

Next == (\E r \in Requests : Step(r)) \/ initCll \/ AddEvent \/ ResetCll \/ ResetClient

Spec == Init /\ [][Next]_vars

-----------------------------------------------------------------------------
(* The values of the variables.                                             *)
TypeOK ==
  /\ client \in {"none", "up", "failed", "gone"} /\ cll \in {"none", "up", "gone"}
  /\ flow \subseteq Requests /\ answers \in [Requests -> 0..2]
  /\ request \in [Requests -> {"none", "pick", "picking", "picked", "ask", "asking", "login",
                               "events", "done", "lost"}]
  /\ logger \in {"idle", "add"} /\ shutdown \in {"no", "cll", "client"} /\ fault \in BOOLEAN

(* A request is answered at most once, whichever step fails, and only a     *)
(* shutdown makes a thread use a client or an event manager that is gone.   *)
OneAnswer ==
  /\ \A r \in Requests : answers[r] = (IF request[r] = "done" THEN 1 ELSE 0)
  /\ fault => shutdown # "no"

(* A sign-in that began is answered, unless the launcher shuts down.        *)
SignInEnds ==
  \A r \in Requests : request[r] # "none" ~> request[r] = "done" \/ shutdown # "no"
=============================================================================
