-------------------------- MODULE HttpClientRequest --------------------------
(***************************************************************************)
(* One HTTP request of the game (jni/lib_http_client.cpp): the game sets   *)
(* it up, a detached thread performs it with curl and answers with         *)
(* OnRequestCompleted or OnRequestFailed.  The request object lives while  *)
(* the game or the thread holds a reference.  The body of the answer goes  *)
(* to the game in one of two ways: collected and handed over with the      *)
(* response, or written to a stream of the game as it arrives.             *)
(*                                                                         *)
(* Chunks of the bodies are numbered, those of the request also by the     *)
(* call that set them; chunks of call 0 are bytes no call has set.  curl,  *)
(* the server and the game are external.  An exception may leave the call  *)
(* of the game before it reaches the game (building the response           *)
(* allocates) or after; one that leaves the handler of the first ends the  *)
(* process and is left out.                                                *)
(***************************************************************************)
EXTENDS Naturals, Sequences

CONSTANTS
  MaxSetters,   (* bound: calls that set method and body                     *)
  MaxUpload,    (* bound: chunks of the body of the request                  *)
  MaxDownload   (* bound: chunks of the body of the answer                   *)

ASSUME RequestAssumption ==
  MaxSetters \in Nat /\ MaxUpload \in Nat /\ MaxDownload \in Nat

VARIABLES
  game,         (* where the game is                                         *)
  ref,          (* the game holds a reference to the request                 *)
  me,           (* anotherme: the thread holds one                           *)
  writer,       (* CURLOPT_WRITEFUNCTION                                     *)
  calls,        (* calls of the two setters so far                           *)
  verb,         (* what body curl sends: of a POST, of a PUT (UPLOAD), none  *)
  fields,       (* CURLOPT_POSTFIELDS: the call that set it (0: not set) and *)
                (* the chunks that are there to be read                      *)
  size,         (* CURLOPT_POSTFIELDSIZE                                     *)
  input,        (* inputStream: the call that made it and the game's chunks  *)
  offset,       (* NativeInputStream::offset                                 *)
  sent,         (* chunks curl sent                                          *)
  worker,       (* where the thread is                                       *)
  total, down,  (* chunks of the answer: all, and those that arrived         *)
  ret,          (* of curl_easy_perform                                      *)
  response,     (* collected chunks                                          *)
  body,         (* HttpClientResponse::body                                  *)
  stream,       (* what the game's NativeOutputStream was given              *)
  returned,     (* what getResponseBodyBytes returned                        *)
  answers,      (* how the game was answered                                 *)
  threw         (* history: the game was called and an exception came out    *)

gameVars == <<game, ref>>
setup    == <<writer, calls, verb, fields, size, input>>
curlVars == <<sent, offset, total, down, ret, response>>
answer   == <<body, returned, answers, threw>>
vars == <<gameVars, me, setup, worker, curlVars, stream, answer>>

Numbered(n) == [i \in 1..n |-> i]
Body(call, n) == [i \in 1..n |-> <<call, i>>]
Expired == ~ref /\ ~me
Completed == answers # <<>> /\ answers[1] = "completed"

(* createClientRequest: the constructor falls back to collecting.           *)
Init ==
  /\ game = "setup" /\ ref = TRUE /\ me = FALSE
  /\ writer = "collect" /\ calls = 0 /\ verb = "none" /\ size = 0
  /\ fields = [of |-> 0, has |-> 0] /\ input = [of |-> 0, has |-> 0]
  /\ offset = 0 /\ sent = <<>>
  /\ worker = "none" /\ total = 0 /\ down = 0 /\ ret = "none"
  /\ response = <<>> /\ body = <<>> /\ stream = <<>> /\ returned = <<>>
  /\ answers = <<>> /\ threw = FALSE

-----------------------------------------------------------------------------
(* The game.  HEAD is to curl's body as GET is; PATCH stands for the        *)
(* methods that only become CURLOPT_CUSTOMREQUEST, as PUT does for the      *)
(* first setter, and leave the kind of request alone.                       *)
Methods == {"GET", "POST", "PUT", "PATCH"}

SetMethod(method, known) ==
  IF method = "GET" THEN "none" ELSE IF method \in known THEN method ELSE verb

(* POSTFIELDS makes a POST of any request.  An empty body clears the memory *)
(* an earlier POSTFIELDS may still point to.                                *)
setHttpMethodAndBody(method, n) ==
  /\ game = "setup" /\ calls < MaxSetters /\ calls' = calls + 1
  /\ writer' = "collect"
  /\ IF n > 0
       THEN verb' = "POST" /\ fields' = [of |-> calls + 1, has |-> n] /\ size' = n
       ELSE /\ verb' = SetMethod(method, {"POST"})
            /\ fields' = [fields EXCEPT !.has = 0] /\ UNCHANGED size
  /\ UNCHANGED <<gameVars, me, input, worker, curlVars, stream, answer>>

(* Only a body that is not empty gets a stream to read it from.             *)
setHttpMethodAndBody2(method, contentLength) ==
  /\ game = "setup" /\ calls < MaxSetters /\ calls' = calls + 1
  /\ writer' = "stream" /\ verb' = SetMethod(method, {"POST", "PUT"})
  /\ size' = IF method = "POST" THEN contentLength ELSE size
  /\ IF contentLength > 0
       THEN input' = [of |-> calls + 1, has |-> contentLength] /\ offset' = 0 /\ UNCHANGED fields
       ELSE /\ fields' = IF method = "POST" THEN [of |-> calls + 1, has |-> 0] ELSE fields
            /\ UNCHANGED <<input, offset>>
  /\ UNCHANGED <<gameVars, me, worker, sent, total, down, ret, response, stream, answer>>

doRequestAsync ==
  /\ game = "setup" /\ game' = "waiting" /\ worker' = "lock"
  /\ UNCHANGED <<ref, me, setup, curlVars, stream, answer>>

Release ==
  /\ ref /\ ref' = FALSE
  /\ UNCHANGED <<game, me, setup, worker, curlVars, stream, answer>>

getResponseBodyBytes ==
  /\ game = "answered" /\ Completed /\ game' = "fetched"
  /\ returned' = body
  /\ UNCHANGED <<ref, me, setup, worker, curlVars, stream, body, answers, threw>>

getResponseBodyBytes2 ==
  /\ game = "answered" /\ Completed /\ game' = "fetched"
  /\ stream' = stream \o body
  /\ UNCHANGED <<ref, me, setup, worker, curlVars, answer>>

Game ==
  \/ \E method \in Methods, n \in 0..MaxUpload :
       setHttpMethodAndBody(method, n) \/ setHttpMethodAndBody2(method, n)
  \/ doRequestAsync \/ Release \/ getResponseBodyBytes \/ getResponseBodyBytes2

-----------------------------------------------------------------------------
(* The thread.                                                              *)
Goto(from, to) ==
  /\ worker = from /\ worker' = to
  /\ UNCHANGED <<ref, setup>>

LockMe ==
  /\ Goto("lock", IF Expired THEN "gone" ELSE "perform")
  /\ me' = ~Expired
  /\ total' \in 0..MaxDownload
  /\ UNCHANGED <<game, sent, offset, down, ret, response, stream, answer>>

(* Where curl takes the body from: POSTFIELDS before the read function,     *)
(* and its default, standard input, if there is neither.                    *)
FromFields == verb = "POST" /\ fields.of # 0
FromInput  == verb # "none" /\ ~FromFields /\ input.of # 0
FromStdin  == verb # "none" /\ ~FromFields /\ input.of = 0

(* Mutant: reads from the start of the body every time.                     *)
ReadFromStart ==
  /\ worker = "perform" /\ FromInput /\ offset < input.has
  /\ \E n \in 1..(input.has - offset) :
       sent' = sent \o SubSeq(Body(input.of, input.has), 1, n) /\ offset' = offset + n
  /\ UNCHANGED <<gameVars, me, setup, worker, total, down, ret, response, stream, answer>>

(* curl asks for more of the body; the game gives as much as it likes.      *)
Read ==
  /\ worker = "perform" /\ FromInput /\ offset < input.has
  /\ \E n \in 1..(input.has - offset) :
       /\ sent' = sent \o SubSeq(Body(input.of, input.has), offset + 1, offset + n)
       /\ offset' = offset + n
  /\ UNCHANGED <<gameVars, me, setup, worker, total, down, ret, response, stream, answer>>

(* curl reads POSTFIELDS up to POSTFIELDSIZE, whatever is there.            *)
SendFields ==
  /\ worker = "perform" /\ FromFields /\ Len(sent) < size
  /\ LET i == Len(sent) + 1 IN sent' = Append(sent, <<IF i <= fields.has THEN fields.of ELSE 0, i>>)
  /\ UNCHANGED <<gameVars, me, setup, worker, offset, total, down, ret, response, stream, answer>>

SendStdin ==
  /\ worker = "perform" /\ FromStdin /\ Len(sent) < MaxUpload
  /\ sent' = Append(sent, <<0, Len(sent) + 1>>)
  /\ UNCHANGED <<gameVars, me, setup, worker, offset, total, down, ret, response, stream, answer>>

write_callback ==
  /\ worker = "perform" /\ down < total /\ writer = "stream"
  /\ down' = down + 1 /\ stream' = Append(stream, down + 1)
  /\ UNCHANGED <<gameVars, me, setup, worker, sent, offset, total, ret, response, answer>>

write_callback_old ==
  /\ worker = "perform" /\ down < total /\ writer = "collect"
  /\ down' = down + 1 /\ response' = Append(response, down + 1)
  /\ UNCHANGED <<gameVars, me, setup, worker, sent, offset, total, ret, stream, answer>>

(* curl_easy_perform returns.  It fails whenever it likes, so also when the *)
(* game's streams threw or gave no more data.                               *)
PerformReturns ==
  /\ Goto("perform", "performed")
  /\ ret' = "failed" \/ (ret' = "ok" /\ down = total)
  /\ UNCHANGED <<me, game, sent, offset, total, down, response, stream, answer>>

DropReference ==
  /\ Goto("performed", "check")
  /\ me' = FALSE
  /\ UNCHANGED <<game, curlVars, stream, answer>>

(* Mutant: a request that failed is answered as completed.                  *)
CheckExpiredTrusting ==
  /\ Goto("check", IF Expired THEN "gone" ELSE "complete")
  /\ UNCHANGED <<me, game, curlVars, stream, answer>>

CheckExpired ==
  /\ Goto("check", IF Expired THEN "gone" ELSE IF ret = "ok" THEN "complete" ELSE "fail")
  /\ UNCHANGED <<me, game, curlVars, stream, answer>>

(* An exception that comes out of the call is caught, too (Catch).          *)
Answer(kind) ==
  /\ worker' \in {"gone", "catch"} /\ threw' = (worker' = "catch")
  /\ answers' = Append(answers, kind) /\ game' = "answered"
  /\ UNCHANGED <<ref, me, setup, curlVars, stream, returned>>

OnRequestCompleted ==
  worker = "complete" /\ body' = response /\ Answer("completed")

OnRequestFailed ==
  worker = "fail" /\ UNCHANGED body /\ Answer("failed")

(* An exception before the game was called.                                 *)
AnswerThrows ==
  /\ Goto("complete", "catch") \/ Goto("fail", "catch")
  /\ UNCHANGED <<me, game, curlVars, stream, answer>>

(* Mutant: the exception ends the thread.                                   *)
CatchSilently ==
  /\ Goto("catch", "gone")
  /\ UNCHANGED <<me, game, curlVars, stream, answer>>

Catch ==
  /\ Goto("catch", IF Expired THEN "gone" ELSE "failCaught")
  /\ UNCHANGED <<me, game, curlVars, stream, answer>>

OnRequestFailedCaught ==
  /\ Goto("failCaught", "gone")
  /\ answers' = Append(answers, "failed")
  /\ game' = IF game = "waiting" THEN "answered" ELSE game
  /\ UNCHANGED <<me, curlVars, stream, body, returned, threw>>

Curl == Read \/ SendFields \/ SendStdin \/ write_callback \/ write_callback_old \/ PerformReturns

Thread ==
  \/ LockMe \/ DropReference \/ CheckExpired \/ OnRequestCompleted \/ OnRequestFailed
  \/ AnswerThrows \/ Catch \/ OnRequestFailedCaught

Next == Game \/ Thread \/ Curl

Spec == Init /\ [][Next]_vars

(* The thread is scheduled.  Nothing makes curl return: the code sets no    *)
(* time limit.                                                              *)
FairSpec == Spec /\ WF_vars(Thread)

-----------------------------------------------------------------------------
(* The values of the variables; a reference of the thread exists only while *)
(* curl works on the request.                                               *)
TypeOK ==
  /\ game \in {"setup", "waiting", "answered", "fetched"}
  /\ worker \in {"none", "lock", "perform", "performed", "check", "complete", "fail", "catch",
                 "failCaught", "gone"}
  /\ ref \in BOOLEAN /\ me \in BOOLEAN /\ (me <=> worker \in {"perform", "performed"})
  /\ writer \in {"collect", "stream"} /\ ret \in {"none", "ok", "failed"}
  /\ calls \in 0..MaxSetters /\ verb \in {"none", "POST", "PUT"} /\ size \in 0..MaxUpload
  /\ fields \in [of : 0..MaxSetters, has : 0..MaxUpload]
  /\ input \in [of : 0..MaxSetters, has : 0..MaxUpload] /\ offset \in 0..input.has
  /\ total \in 0..MaxDownload /\ down \in 0..total
  /\ response \in Seq(1..MaxDownload) /\ body \in Seq(1..MaxDownload)
  /\ stream \in Seq(1..MaxDownload) /\ returned \in Seq(1..MaxDownload)
  /\ sent \in Seq((0..MaxSetters) \X (1..MaxUpload))
  /\ answers \in Seq({"completed", "failed"}) /\ threw \in BOOLEAN

(* The thread uses the request (curl handle, collected body, the object the *)
(* callbacks are invoked on) only while it exists.                          *)
(* lib_http_client.cpp:157 "Clear the shared pointer to avoid dangling      *)
(* reference".  Not so: the pointer that was cleared kept the request       *)
(* alive, and the game can drop its own after me.expired() was tested.      *)
NoDanglingUse ==
  worker \in {"perform", "performed", "complete", "fail", "failCaught"} => ref \/ me

(* A request is answered at most once, and as completed only if curl was    *)
(* done with it.  The exception is an exception: the handler of line 182    *)
(* cannot tell whether the game was called already, and a call that threw   *)
(* is followed by one more answer, always a failure.                        *)
AnsweredOnce ==
  /\ Len(answers) <= IF threw THEN 2 ELSE 1
  /\ \A i \in 1..Len(answers) : answers[i] = "completed" => i = 1 /\ ret = "ok"

(* curl sends the body an earlier call left with it: POSTFIELDS is never    *)
(* taken back, nor is the stream, and the memory of the former may be gone. *)
Stale == (FromFields /\ fields.of # calls) \/ (FromInput /\ input.of # calls)

(* However the request was set up, in whatever pieces its body goes out and *)
(* whichever way the game fetches the answer: the server gets a beginning   *)
(* of the body of the last setter, and the game every chunk of the answer   *)
(* once, both in order.  Two exceptions are what the code does: a setter    *)
(* called again after one that gave a body (Stale), and a POST of the first *)
(* setter or a PUT of the second without a body, which gives curl nothing   *)
(* to read (FromStdin).                                                     *)
BodiesWhole ==
  /\ Stale \/ FromStdin \/ sent = Body(calls, Len(sent))
  /\ game = "fetched" => stream \o returned = Numbered(total)

(* A request is handed to curl, and answered once curl is done with it,     *)
(* unless the game drops it; whatever throws on the way.                    *)
Answered ==
  /\ worker = "lock" ~> (worker = "perform" \/ ~ref)
  /\ worker = "performed" ~> (game # "waiting" \/ ~ref)
=============================================================================
