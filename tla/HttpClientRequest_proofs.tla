----------------------- MODULE HttpClientRequest_proofs -----------------------
(***************************************************************************)
(* The bodies of a request and of its answer are carried whole and in      *)
(* order, and a request is answered once unless an exception came out of   *)
(* the answer: for any calls of the setters, bodies of any size, cut into  *)
(* any pieces.                                                             *)
(***************************************************************************)
EXTENDS HttpClientRequest, SequenceTheorems, TLAPS

USE RequestAssumption DEF gameVars, setup, curlVars, answer

-----------------------------------------------------------------------------
(* Numbered bodies.                                                         *)

(* A numbered body has the chunks 1 to n.                                   *)
LEMMA NumberedIsSeq ==
  ASSUME NEW n \in Nat, NEW m \in Nat, n <= m
  PROVE  /\ Numbered(n) \in Seq(1..m) /\ Len(Numbered(n)) = n
         /\ \A k \in 1..n : Numbered(n)[k] = k
  BY DEF Numbered

(* The next chunk makes a body longer by one.                               *)
LEMMA NumberedAppend ==
  ASSUME NEW n \in Nat PROVE Append(Numbered(n), n + 1) = Numbered(n + 1)
<1>1. Numbered(n) \in Seq(Nat) /\ Len(Numbered(n)) = n
  BY DEF Numbered
<1> QED
  BY <1>1 DEF Numbered

(* A body of a request is made of chunks of its call.                       *)
LEMMA BodyIsSeq ==
  ASSUME NEW c \in 0..MaxSetters, NEW n \in 0..MaxUpload
  PROVE  Body(c, n) \in Seq((0..MaxSetters) \X (1..MaxUpload)) /\ Len(Body(c, n)) = n
<1>1. \A k \in 1..n : <<c, k>> \in (0..MaxSetters) \X (1..MaxUpload)
  OBVIOUS
<1>2. Body(c, n) \in [1..n -> (0..MaxSetters) \X (1..MaxUpload)]
  BY <1>1 DEF Body
<1> QED
  BY <1>2

(* The next chunk makes it longer by one.                                   *)
LEMMA BodyAppend ==
  ASSUME NEW c \in Nat, NEW n \in Nat PROVE Append(Body(c, n), <<c, n + 1>>) = Body(c, n + 1)
<1>1. Body(c, n) \in Seq(Nat \X Nat) /\ Len(Body(c, n)) = n
  BY DEF Body
<1>2. Append(Body(c, n), <<c, n + 1>>) = [k \in 1..n + 1 |-> IF k <= n THEN Body(c, n)[k] ELSE <<c, n + 1>>]
  BY <1>1
<1>3. \A k \in 1..n + 1 : (IF k <= n THEN Body(c, n)[k] ELSE <<c, n + 1>>) = <<c, k>>
  BY DEF Body
<1> QED
  BY <1>2, <1>3 DEF Body

(* What Read takes out of the body continues what was sent.                 *)
LEMMA BodyContinues ==
  ASSUME NEW c \in Nat, NEW u \in Nat, NEW n \in Nat, NEW m \in Nat, n + m <= u
  PROVE  Body(c, n) \o SubSeq(Body(c, u), n + 1, n + m) = Body(c, n + m)
<1> DEFINE C == Nat \X Nat
<1>1. /\ Body(c, n) \in Seq(C) /\ Len(Body(c, n)) = n
      /\ \A k \in 1..n : Body(c, n)[k] = <<c, k>>
  BY DEF Body
<1>2. /\ Body(c, u) \in Seq(C) /\ Len(Body(c, u)) = u
      /\ \A k \in 1..u : Body(c, u)[k] = <<c, k>>
  BY DEF Body
<1>3. /\ SubSeq(Body(c, u), n + 1, n + m) \in Seq(C)
      /\ Len(SubSeq(Body(c, u), n + 1, n + m)) = m
      /\ \A k \in 1..m : SubSeq(Body(c, u), n + 1, n + m)[k] = <<c, n + k>>
  BY <1>2
<1>4. /\ Body(c, n + m) \in Seq(C) /\ Len(Body(c, n + m)) = n + m
      /\ \A k \in 1..n + m : Body(c, n + m)[k] = <<c, k>>
  BY DEF Body
<1> HIDE DEF C
<1>5. /\ Body(c, n) \o SubSeq(Body(c, u), n + 1, n + m) \in Seq(C)
      /\ Len(Body(c, n) \o SubSeq(Body(c, u), n + 1, n + m)) = n + m
      /\ \A k \in 1..n + m : (Body(c, n) \o SubSeq(Body(c, u), n + 1, n + m))[k] = <<c, k>>
  <2> DEFINE s == Body(c, n)
             t == SubSeq(Body(c, u), n + 1, n + m)
  <2>1. /\ s \in Seq(C) /\ Len(s) = n /\ \A k \in 1..n : s[k] = <<c, k>>
        /\ t \in Seq(C) /\ Len(t) = m /\ \A k \in 1..m : t[k] = <<c, n + k>>
    BY <1>1, <1>3
  <2> HIDE DEF s, t
  <2>2. /\ s \o t \in Seq(C) /\ Len(s \o t) = n + m
        /\ \A k \in 1..n + m : (s \o t)[k] = IF k <= n THEN s[k] ELSE t[k - n]
    BY <2>1, ConcatProperties
  <2>3. \A k \in 1..n + m : (s \o t)[k] = <<c, k>>
    BY <2>1, <2>2
  <2> QED
    BY <2>2, <2>3 DEF s, t
<1> QED
  BY <1>4, <1>5, SeqEqual

-----------------------------------------------------------------------------
(* The inductive invariant.                                                 *)

(* A request that was not sent has no trace of an answer.                   *)
Untouched ==
  /\ game = "setup" <=> worker = "none"
  /\ worker \in {"none", "lock"} => sent = <<>> /\ offset = 0 /\ down = 0 /\ total = 0

(* Which call POSTFIELDS and the stream are from.                           *)
Given ==
  /\ fields.of <= calls /\ input.of <= calls
  /\ fields.of = calls => fields.has = size

(* What was sent is from there.                                             *)
Sending ==
  /\ verb = "none" => sent = <<>>
  /\ FromInput => sent = Body(input.of, offset)
  /\ FromFields /\ fields.of = calls => sent = Body(calls, Len(sent)) /\ Len(sent) <= size

(* Where the chunks of the answer went is decided when the request is set   *)
(* up; the other place stays empty.  The collected ones are handed over     *)
(* with the answer.                                                         *)
Collected ==
  /\ response = (IF writer = "collect" THEN Numbered(down) ELSE <<>>)
  /\ body = (IF Completed THEN response ELSE <<>>)
  /\ game # "fetched" =>
       stream = (IF writer = "stream" THEN Numbered(down) ELSE <<>>) /\ returned = <<>>

(* How far the request is, and what that says of the answer.                *)
Answering ==
  /\ worker \in {"none", "lock", "perform"} => ret = "none"
  /\ ret = "ok" => down = total
  /\ worker = "complete" => ret = "ok"
  /\ worker \in {"lock", "perform", "performed", "check", "complete", "fail"} => game = "waiting"
  /\ worker \in {"none", "lock", "perform", "performed", "check", "complete", "fail"} => ~threw
  /\ game = "fetched" => Completed
  /\ Completed => ret = "ok"

(* The answers: none before the game was called, a second one only at the   *)
(* end of a thread that was thrown back.                                    *)
Once  == {<<"completed">>, <<"failed">>}
Twice == {<<"completed", "failed">>, <<"failed", "failed">>}

Counted ==
  /\ answers = <<>> <=> game \in {"setup", "waiting"}
  /\ answers \in {<<>>} \union Once \union Twice
  /\ answers \in Twice => threw /\ worker = "gone"
  /\ worker \in {"catch", "failCaught"} => (threw <=> answers \in Once)

(* What the game fetched is the whole answer.                               *)
Fetched == game = "fetched" => stream \o returned = Numbered(total)

RequestInv ==
  TypeOK /\ Untouched /\ Given /\ Sending /\ Collected /\ Answering /\ Counted /\ Fetched

(* The answers that can follow one another.                                 *)
LEMMA AnswerFollows ==
  ASSUME NEW a, NEW b PROVE Append(<<>>, b) = <<b>> /\ Append(<<a>>, b) = <<a, b>>
<1>1. Append(<<>>, b) = <<b>>
  OBVIOUS
<1>2. Append(<<a>>, b) = <<a, b>>
  <2>1. <<a>> \in Seq({a, b}) /\ <<a, b>> \in Seq({a, b}) /\ Len(<<a>>) = 1 /\ Len(<<a, b>>) = 2
    OBVIOUS
  <2>2. /\ Append(<<a>>, b) \in Seq({a, b}) /\ Len(Append(<<a>>, b)) = 2
        /\ Append(<<a>>, b)[1] = a /\ Append(<<a>>, b)[2] = b
    BY <2>1, AppendProperties
  <2>3. <<a, b>>[1] = a /\ <<a, b>>[2] = b
    OBVIOUS
  <2>4. \A i \in 1..2 : Append(<<a>>, b)[i] = <<a, b>>[i]
    <3>1. \A i \in 1..2 : i = 1 \/ i = 2
      OBVIOUS
    <3> QED
      BY <2>2, <2>3, <3>1
  <2> QED
    BY <2>1, <2>2, <2>4, SeqEqual
<1> QED
  BY <1>1, <1>2

(* Only the first of them tells a completed request.                        *)
LEMMA CompletedFirst ==
  ASSUME answers \in {<<>>} \union Once \union Twice
  PROVE  /\ Completed <=> answers \in {<<"completed">>, <<"completed", "failed">>}
         /\ Len(answers) <= IF answers \in Twice THEN 2 ELSE 1
         /\ \A i \in 1..Len(answers) : answers[i] = "completed" => i = 1 /\ Completed
         /\ answers \in Seq({"completed", "failed"})
<1>1. CASE answers = <<>>
  BY <1>1 DEF Completed, Twice
<1>2. CASE answers = <<"completed">>
  BY <1>2 DEF Completed, Twice
<1>3. CASE answers = <<"failed">>
  BY <1>3 DEF Completed, Twice
<1>4. CASE answers = <<"completed", "failed">>
  BY <1>4 DEF Completed, Twice
<1>5. CASE answers = <<"failed", "failed">>
  BY <1>5 DEF Completed, Twice
<1> QED
  BY <1>1, <1>2, <1>3, <1>4, <1>5 DEF Once, Twice

-----------------------------------------------------------------------------
(* The initial state satisfies it.                                          *)
LEMMA InitInv == Init => RequestInv
<1> SUFFICES ASSUME Init PROVE RequestInv
  OBVIOUS
<1> USE DEF Init
<1>1. Numbered(0) = <<>> /\ ~Completed /\ ~FromInput /\ ~FromFields
  BY DEF Numbered, Completed, FromInput, FromFields
<1>2. TypeOK
  <2>1. /\ response \in Seq(1..MaxDownload) /\ body \in Seq(1..MaxDownload)
        /\ stream \in Seq(1..MaxDownload) /\ returned \in Seq(1..MaxDownload)
        /\ sent \in Seq((0..MaxSetters) \X (1..MaxUpload))
        /\ answers \in Seq({"completed", "failed"})
    OBVIOUS
  <2>2. /\ ref \in BOOLEAN /\ me \in BOOLEAN /\ (me <=> worker \in {"perform", "performed"})
        /\ threw \in BOOLEAN
    OBVIOUS
  <2>3. /\ fields \in [of : 0..MaxSetters, has : 0..MaxUpload]
        /\ input \in [of : 0..MaxSetters, has : 0..MaxUpload] /\ offset \in 0..input.has
    OBVIOUS
  <2> QED
    BY <2>1, <2>2, <2>3 DEF TypeOK
<1>3. Untouched /\ Given /\ Sending
  BY <1>1 DEF Untouched, Given, Sending
<1>4. Collected /\ Answering
  BY <1>1 DEF Collected, Answering
<1>5. Counted
  BY DEF Counted, Once, Twice
<1>6. Fetched
  BY DEF Fetched
<1> QED
  BY <1>2, <1>3, <1>4, <1>5, <1>6 DEF RequestInv

(* What Read sends continues what was sent of the stream.                   *)
LEMMA ReadContinues ==
  ASSUME RequestInv, Read
  PROVE  /\ sent' = Body(input.of, offset') /\ offset' \in 0..input.has
         /\ sent' \in Seq((0..MaxSetters) \X (1..MaxUpload))
<1>1. PICK n \in 1..(input.has - offset) :
        /\ sent' = sent \o SubSeq(Body(input.of, input.has), offset + 1, offset + n)
        /\ offset' = offset + n
  BY DEF Read
<1>2. /\ input.of \in 0..MaxSetters /\ input.has \in 0..MaxUpload /\ offset \in 0..input.has
      /\ sent = Body(input.of, offset)
  BY DEF RequestInv, Sending, Read, TypeOK
<1>3. /\ input.of \in Nat /\ input.has \in Nat /\ offset \in Nat /\ n \in Nat
      /\ offset + n <= input.has /\ offset + n \in 0..input.has /\ offset + n \in 0..MaxUpload
  BY <1>2
<1>4. sent' = Body(input.of, offset + n)
  <2>1. Body(input.of, offset) \o SubSeq(Body(input.of, input.has), offset + 1, offset + n)
          = Body(input.of, offset + n)
    <3>1. /\ input.of \in Nat /\ input.has \in Nat /\ offset \in Nat /\ n \in Nat
          /\ offset + n <= input.has
      BY <1>3
    <3>2. \A c, u, k, m \in Nat :
            k + m <= u => Body(c, k) \o SubSeq(Body(c, u), k + 1, k + m) = Body(c, k + m)
      BY ONLY BodyContinues, Zenon
    <3>3. \A u, k, m \in Nat : k + m <= u =>
            Body(input.of, k) \o SubSeq(Body(input.of, u), k + 1, k + m) = Body(input.of, k + m)
      BY ONLY <3>1, <3>2, Zenon
    <3>4. \A k, m \in Nat : k + m <= input.has =>
            Body(input.of, k) \o SubSeq(Body(input.of, input.has), k + 1, k + m)
              = Body(input.of, k + m)
      BY ONLY <3>1, <3>3, Zenon
    <3> QED
      BY ONLY <3>1, <3>4, Zenon
  <2> QED
    BY <1>1, <1>2, <2>1, Zenon
<1>5. Body(input.of, offset + n) \in Seq((0..MaxSetters) \X (1..MaxUpload))
  BY <1>2, <1>3, BodyIsSeq, Zenon
<1> QED
  BY <1>1, <1>3, <1>4, <1>5

(* Every variable keeps its range.                                          *)
LEMMA TypeStep == RequestInv /\ Next => TypeOK'
<1> SUFFICES ASSUME RequestInv, Next PROVE TypeOK'
  OBVIOUS
<1> USE DEF RequestInv, TypeOK, Goto
<1>1. ASSUME NEW method \in Methods, NEW n \in 0..MaxUpload, setHttpMethodAndBody(method, n)
      PROVE  TypeOK'
  <2>1. fields' \in [of : 0..MaxSetters, has : 0..MaxUpload] /\ calls' \in 0..MaxSetters
    <3>1. calls + 1 \in 0..MaxSetters /\ calls' = calls + 1
      <4>1. calls < MaxSetters /\ calls' = calls + 1
        BY <1>1 DEF setHttpMethodAndBody
      <4>2. calls \in 0..MaxSetters /\ MaxSetters \in Nat
        OBVIOUS
      <4> QED
        BY ONLY <4>1, <4>2
    <3>2. fields' = [of |-> calls + 1, has |-> n] \/ fields' = [fields EXCEPT !.has = 0]
      BY <1>1 DEF setHttpMethodAndBody
    <3>3. 0 \in 0..MaxUpload /\ fields \in [of : 0..MaxSetters, has : 0..MaxUpload]
      OBVIOUS
    <3> QED
      BY ONLY <3>1, <3>2, <3>3
  <2>2. verb' \in {"none", "POST", "PUT"} /\ size' \in 0..MaxUpload
    BY <1>1 DEF setHttpMethodAndBody, SetMethod
  <2> QED
    BY <1>1, <2>1, <2>2 DEF setHttpMethodAndBody
<1>2. ASSUME NEW method \in Methods, NEW n \in 0..MaxUpload, setHttpMethodAndBody2(method, n)
      PROVE  TypeOK'
  <2>1. /\ fields' \in [of : 0..MaxSetters, has : 0..MaxUpload]
        /\ input' \in [of : 0..MaxSetters, has : 0..MaxUpload] /\ offset' \in 0..input'.has
        /\ calls' \in 0..MaxSetters
    <3>1. calls + 1 \in 0..MaxSetters /\ calls' = calls + 1
      <4>1. calls < MaxSetters /\ calls' = calls + 1
        BY <1>2 DEF setHttpMethodAndBody2
      <4>2. calls \in 0..MaxSetters /\ MaxSetters \in Nat
        OBVIOUS
      <4> QED
        BY ONLY <4>1, <4>2
    <3>2. \/ /\ input' = [of |-> calls + 1, has |-> n] /\ offset' = 0 /\ fields' = fields
          \/ /\ fields' = [of |-> calls + 1, has |-> 0] \/ fields' = fields
             /\ input' = input /\ offset' = offset
      BY <1>2 DEF setHttpMethodAndBody2
    <3>3. /\ fields \in [of : 0..MaxSetters, has : 0..MaxUpload]
          /\ input \in [of : 0..MaxSetters, has : 0..MaxUpload] /\ offset \in 0..input.has
          /\ n \in 0..MaxUpload /\ MaxUpload \in Nat
      OBVIOUS
    <3>4. fields' \in [of : 0..MaxSetters, has : 0..MaxUpload]
      BY ONLY <3>1, <3>2, <3>3
    <3>5. input' \in [of : 0..MaxSetters, has : 0..MaxUpload] /\ offset' \in 0..input'.has
      BY ONLY <3>1, <3>2, <3>3
    <3> QED
      BY <3>1, <3>4, <3>5
  <2>2. verb' \in {"none", "POST", "PUT"} /\ size' \in 0..MaxUpload
    BY <1>2 DEF setHttpMethodAndBody2, SetMethod
  <2> QED
    BY <1>2, <2>1, <2>2 DEF setHttpMethodAndBody2
<1>3. CASE doRequestAsync
  BY <1>3 DEF doRequestAsync, Untouched
<1>4. CASE Release
  BY <1>4 DEF Release
<1>5. CASE getResponseBodyBytes
  BY <1>5 DEF getResponseBodyBytes
<1>6. CASE getResponseBodyBytes2
  BY <1>6 DEF getResponseBodyBytes2
<1>7. CASE LockMe
  BY <1>7 DEF LockMe, Expired, Untouched
<1>8. CASE Read
  <2>1. /\ sent' \in Seq((0..MaxSetters) \X (1..MaxUpload)) /\ offset' \in 0..input.has
    BY <1>8, ReadContinues
  <2> QED
    BY <1>8, <2>1 DEF Read
<1>9. CASE SendFields \/ SendStdin
  <2>1. PICK c \in 0..MaxSetters : sent' = Append(sent, <<c, Len(sent) + 1>>)
    <3>1. fields.of \in 0..MaxSetters /\ 0 \in 0..MaxSetters
      OBVIOUS
    <3> QED
      BY <1>9, <3>1 DEF SendFields, SendStdin
  <2>2. Len(sent) \in Nat /\ Len(sent) + 1 \in 1..MaxUpload
    <3>1. Len(sent) < size \/ Len(sent) < MaxUpload
      BY <1>9 DEF SendFields, SendStdin
    <3>2. Len(sent) \in Nat /\ size \in 0..MaxUpload /\ MaxUpload \in Nat
      OBVIOUS
    <3> QED
      BY ONLY <3>1, <3>2
  <2>3. sent' \in Seq((0..MaxSetters) \X (1..MaxUpload))
    BY <2>1, <2>2
  <2> QED
    BY <1>9, <2>3 DEF SendFields, SendStdin
<1>10. CASE write_callback
  BY <1>10 DEF write_callback
<1>11. CASE write_callback_old
  BY <1>11 DEF write_callback_old
<1>12. CASE PerformReturns \/ DropReference
  BY <1>12 DEF PerformReturns, DropReference
<1>13. CASE CheckExpired \/ AnswerThrows \/ Catch
  <2>1. /\ worker' \in {"gone", "complete", "fail", "catch", "failCaught"}
        /\ worker \in {"check", "complete", "fail", "catch"}
    BY <1>13 DEF CheckExpired, AnswerThrows, Catch
  <2>2. me = FALSE /\ me' = me /\ ~(worker' \in {"perform", "performed"})
    BY <1>13, <2>1 DEF CheckExpired, AnswerThrows, Catch
  <2>3. UNCHANGED <<gameVars, setup, curlVars, stream, answer>>
    BY <1>13 DEF CheckExpired, AnswerThrows, Catch
  <2> QED
    BY <2>1, <2>2, <2>3
<1>14. CASE OnRequestCompleted \/ OnRequestFailed \/ OnRequestFailedCaught
  <2>1. answers' \in Seq({"completed", "failed"})
    <3>1. answers' = Append(answers, "completed") \/ answers' = Append(answers, "failed")
      BY <1>14 DEF OnRequestCompleted, OnRequestFailed, OnRequestFailedCaught, Answer
    <3>2. answers \in Seq({"completed", "failed"})
      OBVIOUS
    <3> QED
      BY ONLY <3>1, <3>2
  <2>2. threw' \in BOOLEAN /\ game' \in {"setup", "waiting", "answered", "fetched"}
    BY <1>14 DEF OnRequestCompleted, OnRequestFailed, OnRequestFailedCaught, Answer
  <2>3. CASE OnRequestCompleted
    BY <2>1, <2>2, <2>3 DEF OnRequestCompleted, Answer
  <2>4. CASE OnRequestFailed
    BY <2>1, <2>2, <2>4 DEF OnRequestFailed, Answer
  <2>5. CASE OnRequestFailedCaught
    BY <2>1, <2>2, <2>5 DEF OnRequestFailedCaught
  <2> QED
    BY <1>14, <2>3, <2>4, <2>5
<1> QED
  BY <1>1, <1>2, <1>3, <1>4, <1>5, <1>6, <1>7, <1>8, <1>9, <1>10, <1>11, <1>12, <1>13, <1>14
     DEF Next, Game, Thread, Curl

(* Nothing of an answer before the thread took the request over.            *)
LEMMA UntouchedStep == RequestInv /\ Next => Untouched'
<1> SUFFICES ASSUME RequestInv, Next PROVE Untouched'
  OBVIOUS
<1> USE DEF RequestInv, Untouched, Goto
<1>1. ASSUME NEW method \in Methods, NEW n \in 0..MaxUpload,
             setHttpMethodAndBody(method, n) \/ setHttpMethodAndBody2(method, n)
      PROVE  Untouched'
  BY <1>1 DEF setHttpMethodAndBody, setHttpMethodAndBody2
<1>2. CASE doRequestAsync \/ Release \/ getResponseBodyBytes \/ getResponseBodyBytes2
  BY <1>2 DEF doRequestAsync, Release, getResponseBodyBytes, getResponseBodyBytes2
<1>3. CASE LockMe
  BY <1>3 DEF LockMe
<1>4. CASE Read \/ SendFields \/ SendStdin \/ write_callback \/ write_callback_old
  BY <1>4 DEF Read, SendFields, SendStdin, write_callback, write_callback_old
<1>5. CASE PerformReturns \/ DropReference \/ CheckExpired
  BY <1>5 DEF PerformReturns, DropReference, CheckExpired
<1>6. CASE OnRequestCompleted \/ OnRequestFailed \/ AnswerThrows \/ Catch \/ OnRequestFailedCaught
  <2>1. worker' \notin {"none", "lock"} /\ game' # "setup"
    BY <1>6 DEF OnRequestCompleted, OnRequestFailed, AnswerThrows, Catch,
                OnRequestFailedCaught, Answer
  <2> QED
    BY <2>1
<1> QED
  BY <1>1, <1>2, <1>3, <1>4, <1>5, <1>6 DEF Next, Game, Thread, Curl

(* Steps that set nothing up and send nothing.                              *)
LEMMA SetupKept ==
  ASSUME Next, ~(\E method \in Methods, n \in 0..MaxUpload :
                   setHttpMethodAndBody(method, n) \/ setHttpMethodAndBody2(method, n))
  PROVE  /\ UNCHANGED <<writer, calls, verb, fields, size, input>>
         /\ Read \/ SendFields \/ SendStdin \/ UNCHANGED <<sent, offset>>
<1> USE DEF Goto
<1>1. CASE Game
  BY <1>1 DEF Game, doRequestAsync, Release, getResponseBodyBytes, getResponseBodyBytes2
<1>2. CASE Thread
  BY <1>2 DEF Thread, LockMe, DropReference, CheckExpired, OnRequestCompleted, OnRequestFailed,
              AnswerThrows, Catch, OnRequestFailedCaught, Answer
<1>3. CASE Curl
  BY <1>3 DEF Curl, Read, SendFields, SendStdin, write_callback, write_callback_old,
              PerformReturns
<1> QED
  BY <1>1, <1>2, <1>3 DEF Next

(* A call makes its own what it sets, and what it does not set is of an     *)
(* earlier one.                                                             *)
LEMMA GivenStep == RequestInv /\ Next => Given'
<1> SUFFICES ASSUME RequestInv, Next PROVE Given'
  OBVIOUS
<1>1. /\ fields \in [of : 0..MaxSetters, has : 0..MaxUpload] /\ calls \in Nat
      /\ input \in [of : 0..MaxSetters, has : 0..MaxUpload] /\ Given
  BY DEF RequestInv, TypeOK
<1>2. ASSUME NEW method \in Methods, NEW n \in 0..MaxUpload, setHttpMethodAndBody(method, n)
      PROVE  Given'
  BY <1>1, <1>2 DEF setHttpMethodAndBody, Given
<1>3. ASSUME NEW method \in Methods, NEW n \in 0..MaxUpload, setHttpMethodAndBody2(method, n)
      PROVE  Given'
  BY <1>1, <1>3 DEF setHttpMethodAndBody2, Given
<1>4. CASE UNCHANGED <<writer, calls, verb, fields, size, input>>
  BY <1>1, <1>4 DEF Given
<1> QED
  BY <1>2, <1>3, <1>4, SetupKept

(* Each way to send continues the body it is for.                           *)
LEMMA SendingStep == RequestInv /\ Next => Sending'
<1> SUFFICES ASSUME RequestInv, Next PROVE Sending'
  OBVIOUS
<1> USE DEF RequestInv
<1>1. ASSUME NEW method \in Methods, NEW n \in 0..MaxUpload,
             setHttpMethodAndBody(method, n) \/ setHttpMethodAndBody2(method, n)
      PROVE  Sending'
  <2>1. sent = <<>> /\ sent' = <<>> /\ offset' = 0 /\ size' \in Nat
    <3>1. sent = <<>> /\ offset = 0 /\ size \in Nat /\ n \in Nat
      BY <1>1 DEF setHttpMethodAndBody, setHttpMethodAndBody2, Untouched, TypeOK
    <3> QED
      BY <1>1, <3>1 DEF setHttpMethodAndBody, setHttpMethodAndBody2
  <2>2. \A c : Body(c, 0) = <<>>
    BY DEF Body
  <2>3. Len(<<>>) = 0
    OBVIOUS
  <2> QED
    BY <2>1, <2>2, <2>3 DEF Sending
<1>2. CASE UNCHANGED <<writer, calls, verb, fields, size, input>>
  <2>1. UNCHANGED <<FromFields, FromInput>>
    BY <1>2 DEF FromFields, FromInput
  <2>2. CASE Read
    <3>1. FromInput /\ ~FromFields /\ verb # "none" /\ sent' = Body(input.of, offset')
      BY <2>2, ReadContinues DEF Read, FromInput
    <3> QED
      BY <1>2, <2>1, <3>1 DEF Sending
  <2>3. CASE SendFields
    <3>1. /\ FromFields /\ ~FromInput /\ verb # "none" /\ Len(sent) < size
          /\ sent' = Append(sent, <<IF Len(sent) + 1 <= fields.has THEN fields.of ELSE 0, Len(sent) + 1>>)
      BY <2>3 DEF SendFields, FromInput, FromFields
    <3>2. ASSUME fields.of = calls PROVE sent' = Body(calls, Len(sent')) /\ Len(sent') <= size
      <4>1. /\ fields.has = size /\ sent = Body(calls, Len(sent)) /\ calls \in Nat /\ size \in Nat
            /\ Len(sent) \in Nat /\ sent \in Seq((0..MaxSetters) \X (1..MaxUpload))
        BY <3>1, <3>2 DEF Given, Sending, TypeOK
      <4>2. sent' = Append(sent, <<calls, Len(sent) + 1>>)
        BY <3>1, <3>2, <4>1
      <4>3. sent' = Body(calls, Len(sent) + 1)
        BY <4>1, <4>2, BodyAppend, Zenon
      <4>4. Len(sent') = Len(sent) + 1
        BY <4>1, <4>2, AppendProperties
      <4> QED
        BY <3>1, <4>1, <4>3, <4>4
    <3> QED
      BY <1>2, <2>1, <3>1, <3>2 DEF Sending
  <2>4. CASE SendStdin
    BY <1>2, <2>1, <2>4 DEF SendStdin, FromStdin, FromInput, FromFields, Sending
  <2>5. CASE UNCHANGED <<sent, offset>>
    BY <1>2, <2>1, <2>5 DEF Sending
  <2> QED
    BY <2>2, <2>3, <2>4, <2>5, <1>1, SetupKept
<1> QED
  BY <1>1, <1>2, SetupKept

(* An answer after an exception changes nothing of the one before it.       *)
LEMMA CaughtKeeps == RequestInv /\ OnRequestFailedCaught => Completed' = Completed
<1> SUFFICES ASSUME RequestInv, OnRequestFailedCaught PROVE Completed' = Completed
  OBVIOUS
<1>1. answers' = Append(answers, "failed") /\ answers \in {<<>>} \union Once
  BY DEF RequestInv, Counted, OnRequestFailedCaught, Goto
<1>2. CASE answers = <<>>
  BY <1>1, <1>2, AnswerFollows DEF Completed
<1>3. CASE answers = <<"completed">>
  BY <1>1, <1>3, AnswerFollows DEF Completed
<1>4. CASE answers = <<"failed">>
  BY <1>1, <1>4, AnswerFollows DEF Completed
<1> QED
  BY <1>1, <1>2, <1>3, <1>4 DEF Once

(* Chunks arrive in one place only.  The setup may still change the place,  *)
(* as nothing has arrived by then.                                          *)
LEMMA CollectedStep == RequestInv /\ Next => Collected'
<1> SUFFICES ASSUME RequestInv, Next PROVE Collected'
  OBVIOUS
<1> USE DEF RequestInv, Goto
<1>1. ASSUME NEW method \in Methods, NEW n \in 0..MaxUpload,
             setHttpMethodAndBody(method, n) \/ setHttpMethodAndBody2(method, n)
      PROVE  Collected'
  <2>1. /\ game = "setup" /\ game' = game /\ down = 0
        /\ UNCHANGED <<down, response, stream, body, returned, answers>>
    BY <1>1 DEF setHttpMethodAndBody, setHttpMethodAndBody2, Untouched
  <2>2. Numbered(0) = <<>>
    BY DEF Numbered
  <2>3. response = <<>> /\ stream = <<>> /\ returned = <<>> /\ body = <<>>
    BY <2>1, <2>2 DEF Collected
  <2> QED
    BY <2>1, <2>2, <2>3 DEF Collected
<1>2. CASE UNCHANGED <<game, writer, down, response, stream, body, returned, answers>>
  BY <1>2 DEF Collected, Completed
<1>3. CASE getResponseBodyBytes \/ getResponseBodyBytes2
  BY <1>3 DEF getResponseBodyBytes, getResponseBodyBytes2, Collected, Completed
<1>4. CASE write_callback
  <2>1. /\ writer = "stream" /\ worker = "perform" /\ game = "waiting" /\ answers = <<>>
        /\ stream = Numbered(down) /\ returned = <<>> /\ response = <<>> /\ body = <<>>
    BY <1>4 DEF write_callback, Collected, Answering, Counted, Completed
  <2>2. stream' = Numbered(down + 1)
    <3>1. down \in Nat /\ stream' = Append(Numbered(down), down + 1)
      BY <1>4, <2>1 DEF write_callback, TypeOK
    <3> QED
      BY <3>1, NumberedAppend, Zenon
  <2> QED
    BY <1>4, <2>1, <2>2 DEF write_callback, Collected, Completed
<1>5. CASE write_callback_old
  <2>1. /\ writer = "collect" /\ worker = "perform" /\ game = "waiting" /\ answers = <<>>
        /\ response = Numbered(down) /\ returned = <<>> /\ stream = <<>> /\ body = <<>>
    BY <1>5 DEF write_callback_old, Collected, Answering, Counted, Completed
  <2>2. response' = Numbered(down + 1)
    <3>1. down \in Nat /\ response' = Append(Numbered(down), down + 1)
      BY <1>5, <2>1 DEF write_callback_old, TypeOK
    <3> QED
      BY <3>1, NumberedAppend, Zenon
  <2> QED
    BY <1>5, <2>1, <2>2 DEF write_callback_old, Collected, Completed
<1>6. CASE OnRequestCompleted
  <2>1. answers = <<>> /\ answers' = Append(<<>>, "completed") /\ game # "fetched"
    BY <1>6 DEF OnRequestCompleted, Answer, Answering, Counted
  <2>2. Completed'
    BY <2>1, AnswerFollows DEF Completed
  <2> QED
    BY <1>6, <2>1, <2>2 DEF OnRequestCompleted, Answer, Collected
<1>7. CASE OnRequestFailed
  <2>1. answers = <<>> /\ answers' = Append(<<>>, "failed") /\ game # "fetched"
    BY <1>7 DEF OnRequestFailed, Answer, Answering, Counted
  <2>2. ~Completed /\ ~Completed'
    BY <2>1, AnswerFollows DEF Completed
  <2> QED
    BY <1>7, <2>1, <2>2 DEF OnRequestFailed, Answer, Collected
<1>8. CASE OnRequestFailedCaught
  <2>1. Completed' = Completed
    BY <1>8, CaughtKeeps
  <2>2. game' = "fetched" <=> game = "fetched"
    BY <1>8 DEF OnRequestFailedCaught
  <2> QED
    BY <1>8, <2>1, <2>2 DEF OnRequestFailedCaught, Collected
<1>9. \/ \E method \in Methods, n \in 0..MaxUpload :
           setHttpMethodAndBody(method, n) \/ setHttpMethodAndBody2(method, n)
      \/ UNCHANGED <<game, writer, down, response, stream, body, returned, answers>>
      \/ UNCHANGED <<writer, down, response, stream, body, returned, answers>> /\ doRequestAsync
      \/ getResponseBodyBytes \/ getResponseBodyBytes2 \/ write_callback \/ write_callback_old
      \/ OnRequestCompleted \/ OnRequestFailed \/ OnRequestFailedCaught
  BY DEF Next, Game, Thread, Curl, doRequestAsync, Release, LockMe, Read, SendFields, SendStdin,
         PerformReturns, DropReference, CheckExpired, AnswerThrows, Catch
<1>10. CASE UNCHANGED <<writer, down, response, stream, body, returned, answers>> /\ doRequestAsync
  BY <1>10 DEF doRequestAsync, Collected, Completed
<1> QED
  BY <1>1, <1>2, <1>3, <1>4, <1>5, <1>6, <1>7, <1>8, <1>9, <1>10

(* How far the request is.                                                  *)
LEMMA AnsweringStep == RequestInv /\ Next => Answering'
<1> SUFFICES ASSUME RequestInv, Next PROVE Answering'
  OBVIOUS
<1> USE DEF RequestInv, Answering, Goto
<1>1. ASSUME NEW method \in Methods, NEW n \in 0..MaxUpload,
             setHttpMethodAndBody(method, n) \/ setHttpMethodAndBody2(method, n)
      PROVE  Answering'
  BY <1>1 DEF setHttpMethodAndBody, setHttpMethodAndBody2, Completed
<1>2. CASE doRequestAsync
  BY <1>2 DEF doRequestAsync, Untouched, Completed, Counted, TypeOK, Twice
<1>3. CASE Release
  BY <1>3 DEF Release, Completed
<1>4. CASE getResponseBodyBytes \/ getResponseBodyBytes2
  BY <1>4 DEF getResponseBodyBytes, getResponseBodyBytes2, Completed
<1>5. CASE LockMe
  <2>1. /\ worker = "lock" /\ worker' \in {"gone", "perform"}
        /\ UNCHANGED <<ret, game, answers, threw>>
        /\ ret = "none" /\ game = "waiting" /\ ~threw
    BY <1>5 DEF LockMe
  <2> QED
    BY <2>1 DEF Completed
<1>6. CASE Read \/ SendFields \/ SendStdin
  BY <1>6 DEF Read, SendFields, SendStdin, Completed
<1>7. CASE write_callback \/ write_callback_old
  <2>1. ret = "none" /\ UNCHANGED <<ret, game, worker, answers, threw>>
    BY <1>7 DEF write_callback, write_callback_old
  <2> QED
    BY <2>1 DEF Completed
<1>8. CASE PerformReturns
  <2>1. ~Completed
    BY <1>8 DEF PerformReturns
  <2> QED
    BY <1>8, <2>1 DEF PerformReturns, Completed
<1>9. CASE DropReference \/ CheckExpired
  BY <1>9 DEF DropReference, CheckExpired, Completed
<1>10. CASE OnRequestCompleted \/ OnRequestFailed
  <2>1. /\ worker \in {"complete", "fail"} /\ worker' \in {"gone", "catch"} /\ answers = <<>>
        /\ game' = "answered" /\ UNCHANGED <<ret, down, total>>
    BY <1>10 DEF OnRequestCompleted, OnRequestFailed, Answer, Counted
  <2>2. Completed' => ret' = "ok"
    <3>1. CASE OnRequestCompleted
      BY <2>1, <3>1 DEF OnRequestCompleted
    <3>2. CASE OnRequestFailed
      BY <2>1, <3>2, AnswerFollows DEF OnRequestFailed, Answer, Completed
    <3> QED
      BY <1>10, <3>1, <3>2
  <2>3. /\ ret' = "ok" => down' = total'
        /\ worker' \notin {"none", "lock", "perform", "performed", "check", "complete", "fail"}
        /\ game' # "fetched"
    BY <2>1
  <2> QED
    BY <2>2, <2>3
<1>11. CASE AnswerThrows \/ Catch
  BY <1>11 DEF AnswerThrows, Catch, Completed
<1>12. CASE OnRequestFailedCaught
  <2>1. Completed' = Completed
    BY <1>12, CaughtKeeps
  <2> QED
    BY <1>12, <2>1 DEF OnRequestFailedCaught
<1> QED
  BY <1>1, <1>2, <1>3, <1>4, <1>5, <1>6, <1>7, <1>8, <1>9, <1>10, <1>11, <1>12
     DEF Next, Game, Thread, Curl

(* A thread that answered without an exception is gone; one that was thrown *)
(* back answers once more.                                                  *)
LEMMA CountedStep == RequestInv /\ Next => Counted'
<1> SUFFICES ASSUME RequestInv, Next PROVE Counted'
  OBVIOUS
<1> USE DEF RequestInv, Counted, Goto
<1>1. ASSUME NEW method \in Methods, NEW n \in 0..MaxUpload,
             setHttpMethodAndBody(method, n) \/ setHttpMethodAndBody2(method, n)
      PROVE  Counted'
  BY <1>1 DEF setHttpMethodAndBody, setHttpMethodAndBody2
<1>2. CASE doRequestAsync
  BY <1>2 DEF doRequestAsync, Once, Twice
<1>3. CASE Release \/ getResponseBodyBytes \/ getResponseBodyBytes2
  BY <1>3 DEF Release, getResponseBodyBytes, getResponseBodyBytes2
<1>4. CASE LockMe \/ DropReference \/ CheckExpired \/ Curl
  <2>1. worker # "gone" /\ worker' \notin {"catch", "failCaught"} /\ UNCHANGED <<game, answers, threw>>
    BY <1>4 DEF LockMe, DropReference, CheckExpired, Curl, Read, SendFields, SendStdin,
                write_callback, write_callback_old, PerformReturns
  <2> QED
    BY <2>1
<1>5. CASE OnRequestCompleted \/ OnRequestFailed
  <2>1. answers = <<>> /\ game' = "answered" /\ threw' = (worker' = "catch")
        /\ worker' \in {"gone", "catch"}
        /\ answers' \in {Append(<<>>, "completed"), Append(<<>>, "failed")}
    BY <1>5 DEF OnRequestCompleted, OnRequestFailed, Answer, Answering
  <2>2. answers' \in Once /\ answers' # <<>> /\ answers' \notin Twice
    BY <2>1, AnswerFollows DEF Once, Twice
  <2> QED
    BY <2>1, <2>2
<1>6. CASE AnswerThrows
  <2>1. game = "waiting" /\ answers = <<>> /\ threw = FALSE /\ worker' = "catch"
        /\ UNCHANGED <<game, answers, threw>>
    BY <1>6 DEF AnswerThrows, Answering, TypeOK
  <2> QED
    BY <2>1 DEF Once, Twice
<1>7. CASE Catch
  <2>1. worker = "catch" /\ worker' \in {"gone", "failCaught"} /\ UNCHANGED <<game, answers, threw>>
    BY <1>7 DEF Catch
  <2> QED
    BY <2>1
<1>8. CASE OnRequestFailedCaught
  <2>1. /\ worker = "failCaught" /\ worker' = "gone" /\ threw' = threw
        /\ answers' = Append(answers, "failed")
        /\ game' = (IF game = "waiting" THEN "answered" ELSE game)
    BY <1>8 DEF OnRequestFailedCaught
  <2>2. answers \in {<<>>} \union Once /\ (threw <=> answers \in Once)
    BY <2>1
  <2>3. answers' # <<>> /\ game' \notin {"setup", "waiting"}
    BY <2>1, <2>2, AnswerFollows DEF Once, Untouched
  <2>4. answers' \in Once \union Twice /\ (answers' \in Twice => threw)
    <3>1. CASE answers = <<>>
      BY <2>1, <3>1, AnswerFollows DEF Once, Twice
    <3>2. ASSUME NEW k \in {"completed", "failed"}, answers = <<k>>
          PROVE  answers' = <<k, "failed">> /\ answers' \in Twice /\ threw
      BY <2>1, <2>2, <3>2, AnswerFollows DEF Once, Twice
    <3> QED
      BY <2>2, <3>1, <3>2 DEF Once
  <2> QED
    BY <2>1, <2>3, <2>4
<1> QED
  BY <1>1, <1>2, <1>3, <1>4, <1>5, <1>6, <1>7, <1>8 DEF Next, Game, Thread

(* What the game fetched: it finds the chunks in one of the two places.     *)
LEMMA FetchedStep == RequestInv /\ Next => Fetched'
<1> SUFFICES ASSUME RequestInv, Next, game' = "fetched" PROVE stream' \o returned' = Numbered(total')
  BY DEF Fetched
<1> USE DEF RequestInv, Goto
<1>1. CASE game = "fetched"
  <2>1. worker \notin {"none", "lock", "perform", "performed", "check", "complete", "fail"}
    BY <1>1 DEF Answering, Untouched
  <2>2. UNCHANGED <<stream, returned, total>>
    BY <1>1, <2>1 DEF Next, Game, Thread, Curl, setHttpMethodAndBody, setHttpMethodAndBody2,
         doRequestAsync, Release, getResponseBodyBytes, getResponseBodyBytes2, LockMe, Read,
         SendFields, SendStdin, write_callback, write_callback_old, PerformReturns, DropReference,
         CheckExpired, OnRequestCompleted, OnRequestFailed, AnswerThrows, Catch,
         OnRequestFailedCaught, Answer
  <2> QED
    BY <1>1, <2>2 DEF Fetched
<1>2. CASE game # "fetched"
  <2>1. getResponseBodyBytes \/ getResponseBodyBytes2
    BY <1>2 DEF Next, Game, Thread, Curl, setHttpMethodAndBody, setHttpMethodAndBody2,
         doRequestAsync, Release, LockMe, Read,
         SendFields, SendStdin, write_callback, write_callback_old, PerformReturns, DropReference,
         CheckExpired, OnRequestCompleted, OnRequestFailed, AnswerThrows, Catch,
         OnRequestFailedCaught, Answer
  <2>2. Completed /\ total' = total /\ down = total
    BY <2>1 DEF getResponseBodyBytes, getResponseBodyBytes2, Answering
  <2>3. stream' \o returned' = stream \o body
    <3>1. returned = <<>> /\ stream \in Seq(1..MaxDownload) /\ body \in Seq(1..MaxDownload)
      BY <1>2 DEF Collected, TypeOK
    <3>2. CASE getResponseBodyBytes
      BY <3>1, <3>2 DEF getResponseBodyBytes
    <3>3. CASE getResponseBodyBytes2
      <4>1. stream' = stream \o body /\ returned' = <<>>
        BY <3>1, <3>3 DEF getResponseBodyBytes2
      <4> QED
        BY <3>1, <4>1
    <3> QED
      BY <2>1, <3>2, <3>3
  <2>4. stream \o body = Numbered(down)
    <3>1. Numbered(down) \in Seq(Nat)
      BY NumberedIsSeq DEF TypeOK
    <3>2. \/ stream = Numbered(down) /\ body = <<>>
          \/ stream = <<>> /\ body = Numbered(down)
      BY <1>2, <2>2 DEF Collected, TypeOK
    <3> QED
      BY <3>1, <3>2, ConcatEmptySeq
  <2> QED
    BY <2>2, <2>3, <2>4
<1> QED
  BY <1>1, <1>2

(* The invariant is inductive.                                              *)
LEMMA InvStep == RequestInv /\ [Next]_vars => RequestInv'
<1>1. RequestInv /\ UNCHANGED vars => RequestInv'
  BY DEF vars, RequestInv, TypeOK, Untouched, Given, Sending, Collected, Answering, Counted,
         Fetched, Completed, FromFields, FromInput
<1> QED
  BY <1>1, TypeStep, UntouchedStep, GivenStep, SendingStep, CollectedStep, AnsweringStep,
     CountedStep, FetchedStep DEF RequestInv

-----------------------------------------------------------------------------
(* Every reachable state satisfies the inductive invariant.                 *)
THEOREM Invariance == Spec => []RequestInv
  BY InitInv, InvStep, PTL DEF Spec

(* The thread holds a reference exactly while curl works, and no counter    *)
(* runs past the size of its body.                                          *)
THEOREM TypeCorrect == Spec => []TypeOK
<1>1. RequestInv => TypeOK
  BY DEF RequestInv
<1> QED
  BY <1>1, Invariance, PTL

(* Whatever pieces curl takes and whichever way the game fetches the        *)
(* answer, both bodies are whole and in order; but for a body left by an    *)
(* earlier setter, and a request without one that curl reads from its       *)
(* standard input.                                                          *)
THEOREM WholeBodies == Spec => []BodiesWhole
<1>1. ASSUME RequestInv, ~Stale, ~FromStdin PROVE sent = Body(calls, Len(sent))
  <2>1. CASE verb = "none"
    <3>1. sent = <<>> /\ Len(sent) = 0
      BY <1>1, <2>1 DEF RequestInv, Sending
    <3>2. \A c : Body(c, 0) = <<>>
      BY DEF Body
    <3> QED
      BY <3>1, <3>2
  <2>2. CASE FromFields
    BY <1>1, <2>2 DEF RequestInv, Sending, Stale
  <2>3. CASE FromInput
    <3>1. input.of = calls /\ sent = Body(calls, offset)
      BY <1>1, <2>3 DEF RequestInv, Sending, Stale
    <3>2. calls \in 0..MaxSetters /\ offset \in 0..MaxUpload
      BY <1>1 DEF RequestInv, TypeOK
    <3>3. Len(sent) = offset
      BY <3>1, <3>2, BodyIsSeq
    <3> QED
      BY <3>1, <3>3
  <2> QED
    BY <1>1, <2>1, <2>2, <2>3 DEF FromInput, FromStdin
<1>2. RequestInv => BodiesWhole
  BY <1>1 DEF RequestInv, Fetched, BodiesWhole
<1> QED
  BY <1>2, Invariance, PTL

(* One answer at most, unless an exception came out of the first; and only  *)
(* a first answer tells of a completed request.                             *)
THEOREM OneAnswerOnly == Spec => []AnsweredOnce
<1>1. ASSUME RequestInv PROVE AnsweredOnce
  <2>1. answers \in {<<>>} \union Once \union Twice /\ (answers \in Twice => threw)
    BY <1>1 DEF RequestInv, Counted
  <2>2. Completed => ret = "ok"
    BY <1>1 DEF RequestInv, Answering
  <2>3. Len(answers) \in Nat
    BY <2>1, CompletedFirst
  <2>4. Len(answers) <= IF threw THEN 2 ELSE 1
    BY <2>1, <2>3, CompletedFirst
  <2> QED
    BY <2>1, <2>2, <2>4, CompletedFirst DEF AnsweredOnce
<1> QED
  BY <1>1, Invariance, PTL
=============================================================================
