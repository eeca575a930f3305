--------------------------- MODULE DispatchProofs ---------------------------
(***************************************************************************)
(* Proofs about Dispatch: which envelopes are answered and run, that the   *)
(* inflight set is emptied, and that a call ends as the documents say      *)
(* unless its case is one of those Surprising names.                       *)
(***************************************************************************)
EXTENDS Dispatch, TLAPS

-----------------------------------------------------------------------------
(* The inductive invariant.                                                *)

CaseOK ==
  /\ transport \in {"memory", "redis"}
  /\ client \in {"ts", "py"} /\ server \in {"ts", "py"}
  /\ transport = "memory" => client = server
  /\ def \in MethodDef /\ found \in Found /\ params \in Params
  /\ handled \in BOOLEAN /\ behaviour \in Behaviour /\ carries \in Data
  /\ behaviour = "cancelled" => server = "py"
  /\ foreign \in BOOLEAN /\ envelope \in Envelope
  /\ ~foreign => \E method \in {"named", "newline"}, data \in Data :
       envelope \in {buildRequest(method, data), buildNotification(method, data)}
  /\ ~foreign /\ envelope.method = "newline" => client = "py"
  /\ envelope.method = "newline" => found = "missing"

\* The method was found, its params accepted, and it has a handler.
Accepted ==
  found = "defined" /\ handled /\ (params = "valid" \/ (params = "null" /\ server = "ts"))

StageInv ==
  /\ at \in {"sent", "parsed", "valid", "running", "replied", "done"}
  /\ inflight => at = "running"
  /\ at \notin {"sent", "done"} => Kind \in {"request", "notification"} /\ ~Unsendable
  /\ at \in {"valid", "running"} => Accepted
  /\ at = "running" => behaviour # "sync"
  /\ ran => Accepted /\ Kind \in {"request", "notification"}
  /\ reply \notin NoReply => Kind = "request"

CallCase == ~foreign /\ envelope.id = "own"

\* What the caller would make of reply r is what the documents say, unless the case is
\* one that Surprising names.
Right(r) == Outcome(Carried(r)) = Documented <=> ~Surprising

ReplyInv == CallCase /\ at = "replied" => Right(reply)

IInv == CaseOK /\ StageInv /\ ReplyInv /\ OutcomeAsDocumented

USE DEF case

-----------------------------------------------------------------------------
(* The parsers.                                                            *)

\* The parsers of both languages agree on what a request or notification is, but for
\* numbers that are not integers and methods that end in a line feed.
LEMMA KindOfEnvelope ==
  ASSUME CaseOK
  PROVE  /\ Kind \in {"request", "notification"} =>
              /\ envelope.object /\ envelope.version
              /\ envelope.method \in {"named", "newline"} /\ envelope.id # "odd"
         /\ Kind = "request" => envelope.id \in {"own", "fraction"}
         /\ Kind = "notification" => envelope.id = "none"
BY DEF CaseOK, Kind, Parsed, parseEnvelope, parse_envelope, Envelope

\* A call arrives as a request unless it holds a NaN or a line feed that TypeScript
\* does not read.
LEMMA KindOfCall ==
  ASSUME CaseOK, CallCase
  PROVE  IF Unreadable \/ (envelope.method = "newline" /\ server = "ts")
           THEN Kind \notin {"request", "notification"} ELSE Kind = "request"
BY DEF CaseOK, CallCase, Kind, Parsed, parseEnvelope, parse_envelope, Envelope, buildRequest,
       buildNotification, Blank

LEMMA CaseStep == ASSUME CaseOK, [Next]_vars PROVE CaseOK' /\ UNCHANGED case
<1>1. UNCHANGED case
  BY DEF Next, dispatcher, dispatch, SendThrows, Parse, Lookup, Validate, CallHandler,
         HandlerRejects, HandlerResolves, dispatch_looks_up, dispatch_validates,
         dispatch_calls_handler, dispatch_finishes, Receive, vars
<1>2. QED
  BY <1>1 DEF CaseOK

LEMMA StageStep ==
  ASSUME CaseOK, StageInv, [Next]_vars PROVE StageInv'
<1>0. /\ UNCHANGED case /\ Kind' = Kind /\ Accepted' = Accepted
      /\ Unsendable' = Unsendable
  BY CaseStep DEF Kind, Accepted, Unsendable, Unreadable
<1> USE DEF StageInv
<1>1. ASSUME NEW r, Resolve(r), Kind \in {"request", "notification"}
      PROVE  at' = "replied" /\ (reply' \notin NoReply => Kind = "request")
  BY <1>1 DEF Resolve, NoReply
<1>2. CASE SendThrows \/ Parse
  BY <1>0, <1>2 DEF SendThrows, Parse
<1>3. CASE dispatcher
  BY <1>0, <1>1, <1>3
  DEF dispatcher, Lookup, Validate, CallHandler, HandlerRejects, HandlerResolves, Refuses,
      Accepted, CaseOK, Found, Params
<1>4. CASE dispatch
  BY <1>0, <1>1, <1>4
  DEF dispatch, dispatch_looks_up, dispatch_validates, dispatch_calls_handler,
      dispatch_finishes, Accepted, CaseOK, Found, Params
<1>5. CASE Receive
  BY <1>0, <1>5 DEF Receive
<1>6. CASE UNCHANGED vars
  BY <1>0, <1>6 DEF vars
<1>7. QED
  BY <1>2, <1>3, <1>4, <1>5, <1>6 DEF Next

-----------------------------------------------------------------------------
(* The way back: what a caller makes of each kind of reply.                *)

ErrorCode == {"-32601", "-32602", "-32603", "custom", "fraction"}

\* The transport carries a reply with this data to the client.
Delivered(data) ==
  transport = "redis" => data # "opaque" /\ (data = "nan" => server = "ts" \/ client = "py")

\* Without a reply the call fails.
LEMMA NoReplyOutcome ==
  ASSUME NEW r \in NoReply PROVE Outcome(Carried(r)) \in {"failed", "timeout"}
BY DEF Carried, Outcome

\* An error response is read as what it was built as, but for a code that is no integer.
LEMMA ErrorOutcome ==
  ASSUME CaseOK, NEW code \in ErrorCode, NEW data \in Data
  PROVE  Outcome(Carried(buildErrorResponse(code, data))) =
           IF ~Delivered(data) THEN "timeout"
           ELSE IF code = "fraction" /\ client = "py" THEN "protocol error" ELSE code
<1> DEFINE e(d) == buildErrorResponse(code, d)
           read == IF code = "fraction" /\ client = "py" THEN "protocol error" ELSE code
<1>1. \A d : e(d) \in [object : {TRUE}, version : {TRUE}, method : {"absent"}, id : {"own"},
                      result : {"absent"}, error : {code}, data : {d}]
  BY DEF buildErrorResponse, Blank
<1>2. \A d : [e(d) EXCEPT !.data = "plain"] = e("plain")
  <2> TAKE d
  <2>1. QED
    BY DEF buildErrorResponse, Blank
<1> HIDE DEF e
<1>3. \A d : e(d) \notin NoReply
  BY <1>1 DEF NoReply, Null, Thrown, Cancelled, Blank
<1>4. \A d : Outcome(e(d)) = read
  <2> TAKE d
  <2>1. Parsed(client, e(d)) =
          IF code = "fraction" /\ client = "py" THEN "invalid" ELSE "error"
    BY <1>1 DEF CaseOK, ErrorCode, Parsed, parseEnvelope, parse_envelope
  <2>2. QED
    BY <1>1, <1>3, <2>1 DEF Outcome
<1>5. CASE Delivered(data)
  <2>1. /\ e(data).data = data /\ e(data).result # "undefined"
        /\ e("plain").data = "plain"
    BY <1>1
  <2>2. transport = "redis" /\ server = "ts" => Carried(e(data)) = e("plain")
    BY <1>2, <1>3, <1>5, <2>1 DEF Carried, Delivered, Stringified, Loaded
  <2>3. transport = "memory" \/ server = "py" => Carried(e(data)) = e(data)
    BY <1>3, <1>5, <2>1 DEF Carried, Delivered, Dumped, Loaded, CaseOK
  <2>4. Outcome(Carried(e(data))) \in {Outcome(e("plain")), Outcome(e(data))}
    BY <2>2, <2>3 DEF CaseOK
  <2>5. QED
    BY <1>4, <1>5, <2>4 DEF e
<1>6. CASE ~Delivered(data)
  <2>1. Carried(e(data)) \in {Null, Thrown} /\ transport = "redis"
    BY <1>1, <1>3, <1>6 DEF Carried, Delivered, Stringified, Dumped, Loaded, CaseOK
  <2>2. QED
    BY <1>6, <2>1 DEF e, Outcome, NoReply
<1>7. QED
  BY <1>5, <1>6

\* And so is an accepted result.
LEMMA ValueOutcome ==
  ASSUME CaseOK, NEW data \in Data
  PROVE  Outcome(Carried(buildSuccessResponse("value", data))) =
           IF ~Delivered(data) THEN "timeout" ELSE "value"
<1> DEFINE e(d) == buildSuccessResponse("value", d)
<1>1. \A d : e(d) \in [object : {TRUE}, version : {TRUE}, method : {"absent"}, id : {"own"},
                      result : {"value"}, error : {"absent"}, data : {d}]
  BY DEF buildSuccessResponse, Blank
<1>2. \A d : [e(d) EXCEPT !.data = "plain"] = e("plain")
  <2> TAKE d
  <2>1. QED
    BY DEF buildSuccessResponse, Blank
<1> HIDE DEF e
<1>3. \A d : e(d) \notin NoReply
  BY <1>1 DEF NoReply, Null, Thrown, Cancelled, Blank
<1>4. \A d : Outcome(e(d)) = "value"
  <2> TAKE d
  <2>1. Parsed(client, e(d)) = "success"
    BY <1>1 DEF CaseOK, Parsed, parseEnvelope, parse_envelope
  <2>2. QED
    BY <1>1, <1>3, <2>1 DEF Outcome
<1>5. CASE Delivered(data)
  <2>1. /\ e(data).data = data /\ e(data).result # "undefined"
        /\ e("plain").data = "plain"
    BY <1>1
  <2>2. transport = "redis" /\ server = "ts" => Carried(e(data)) = e("plain")
    BY <1>2, <1>3, <1>5, <2>1 DEF Carried, Delivered, Stringified, Loaded
  <2>3. transport = "memory" \/ server = "py" => Carried(e(data)) = e(data)
    BY <1>3, <1>5, <2>1 DEF Carried, Delivered, Dumped, Loaded, CaseOK
  <2>4. Outcome(Carried(e(data))) \in {Outcome(e("plain")), Outcome(e(data))}
    BY <2>2, <2>3 DEF CaseOK
  <2>5. QED
    BY <1>4, <1>5, <2>4 DEF e
<1>6. CASE ~Delivered(data)
  <2>1. Carried(e(data)) \in {Null, Thrown} /\ transport = "redis"
    BY <1>1, <1>3, <1>6 DEF Carried, Delivered, Stringified, Dumped, Loaded, CaseOK
  <2>2. QED
    BY <1>6, <2>1 DEF e, Outcome, NoReply
<1>7. QED
  BY <1>5, <1>6

\* An undefined result reaches the caller in memory, and is lost over Redis.
LEMMA UndefinedOutcome ==
  ASSUME CaseOK, server = "ts"
  PROVE  Outcome(Carried(buildSuccessResponse("undefined", "plain")))
           \in {"undefined", "protocol error"}
<1> DEFINE e(r) == buildSuccessResponse(r, "plain")
<1>1. \A r : e(r) \in [object : {TRUE}, version : {TRUE}, method : {"absent"}, id : {"own"},
                      result : {r}, error : {"absent"}, data : {"plain"}]
  BY DEF buildSuccessResponse, Blank
<1>2. \A r : e(r) \notin NoReply
  BY <1>1 DEF NoReply, Null, Thrown, Cancelled, Blank
<1> HIDE DEF e
<1>3. Parsed(client, e("undefined")) = "success" /\ Parsed(client, e("absent")) = "invalid"
  <2>1. /\ e("undefined").result = "undefined" /\ e("absent").result = "absent"
        /\ \A r : /\ e(r).object /\ e(r).version /\ e(r).method = "absent" /\ e(r).id = "own"
                 /\ e(r).error = "absent"
    BY <1>1
  <2>2. QED
    BY <2>1 DEF CaseOK, Parsed, parseEnvelope, parse_envelope
<1>4. Carried(e("undefined")) \in {e("undefined"), e("absent")}
  <2>1. Stringified(e("undefined")) = e("absent") /\ e("absent").data = "plain"
    BY DEF e, Stringified, buildSuccessResponse, Blank
  <2>2. QED
    BY <1>2, <2>1 DEF Carried, Loaded
<1>5. Outcome(e("undefined")) = "undefined" /\ Outcome(e("absent")) = "protocol error"
  BY <1>1, <1>2, <1>3 DEF Outcome
<1>6. QED
  BY <1>4, <1>5 DEF e

-----------------------------------------------------------------------------
(* The reply.                                                              *)

\* Every reply to a call is right.
LEMMA ResolvedRight ==
  ASSUME CaseOK, StageInv, CallCase, dispatcher \/ dispatch, at' = "replied"
  PROVE  Right(reply')
<1>0. at \in {"parsed", "valid", "running"}
  BY DEF dispatcher, dispatch, Lookup, Validate, CallHandler, HandlerRejects,
         HandlerResolves, dispatch_looks_up, dispatch_validates, dispatch_calls_handler,
         dispatch_finishes
<1>1. /\ Kind = "request" /\ ~Unreadable /\ ~Unsendable
      /\ ~(envelope.method = "newline" /\ server = "ts")
  BY <1>0, KindOfCall DEF StageInv
<1>2. \A r : Resolve(r) => reply' = r
  BY <1>1 DEF Resolve
<1>3. /\ ~(transport = "redis" /\ envelope.data = "opaque")
      /\ ~(transport = "redis" /\ envelope.data = "nan" /\ client = "py" /\ server = "ts")
  BY <1>1 DEF Unreadable, Unsendable
<1> USE <1>1, <1>3 DEF CaseOK, Found, Params, Failing
<1>4. CASE Lookup \/ dispatch_looks_up
  <2>1. /\ reply' = buildErrorResponse("-32601", "plain") /\ found # "defined"
        /\ found = "inherited" => server = "py"
    BY <1>2, <1>4 DEF Lookup, dispatch_looks_up
  <2>2. Outcome(Carried(buildErrorResponse("-32601", "plain"))) = "-32601"
    BY ErrorOutcome DEF ErrorCode, Data, Delivered
  <2>3. Documented = "-32601" /\ ~Surprising
    BY <2>1 DEF Documented, Surprising, Reached, Refusal
  <2>4. QED
    BY <2>1, <2>2, <2>3 DEF Right
<1>5. CASE Validate
  <2>1. server = "ts" /\ found # "missing"
    BY <1>5 DEF Validate
  <2>2. CASE Refuses
    <3>1. reply' = buildErrorResponse("-32602", exceptionToErrorData(carries))
      BY <1>2, <1>5, <2>2 DEF Validate
    <3>2. exceptionToErrorData(carries) \in {"plain", "nan"}
      BY DEF exceptionToErrorData, Data
    <3>3. Outcome(Carried(reply')) = "-32602"
      BY <2>1, <3>1, <3>2, ErrorOutcome DEF ErrorCode, Data, Delivered
    <3>4. Documented = "-32602" <=> ~Surprising
      BY <2>1, <2>2 DEF Refuses, Documented, Surprising, Reached, Refusal
    <3>5. QED
      BY <3>3, <3>4 DEF Right
  <2>3. CASE ~Refuses
    <3>1. /\ reply' = buildErrorResponse("-32601", "plain") /\ ~handled
          /\ found = "defined" /\ params \in {"valid", "null"}
      BY <1>2, <1>5, <2>1, <2>3 DEF Validate, Refuses
    <3>2. Outcome(Carried(reply')) = "-32601"
      BY <3>1, ErrorOutcome DEF ErrorCode, Data, Delivered
    <3>3. Documented = "-32601" <=> ~Surprising
      BY <2>1, <3>1 DEF Documented, Surprising, Reached, Refusal
    <3>4. QED
      BY <3>2, <3>3 DEF Right
  <2>4. QED
    BY <2>2, <2>3
<1>6. CASE dispatch_validates
  <2>1. server = "py" /\ found = "defined"
    BY <1>6 DEF dispatch_validates
  <2>2. CASE params = "raises"
    <3>1. Outcome(Carried(reply')) \in {"failed", "timeout"}
      BY <1>2, <1>6, <2>2, NoReplyOutcome DEF dispatch_validates, NoReply
    <3>2. Documented = "-32602" /\ Surprising
      BY <2>1, <2>2 DEF Documented, Surprising
    <3>3. QED
      BY <3>1, <3>2 DEF Right
  <2>3. CASE params \in {"null", "invalid"}
    <3>1. reply' = buildErrorResponse("-32602", IF params = "null" THEN "plain" ELSE carries)
      BY <1>2, <1>6, <2>3 DEF dispatch_validates
    <3>2. Documented = "-32602"
      BY <2>1, <2>3 DEF Documented
    <3>3. Surprising <=> params = "invalid" /\ ~Delivered(carries)
      BY <2>1, <2>3 DEF Surprising, Reached, Refusal, Delivered, Data
    <3>4. QED
      <4>1. (IF params = "null" THEN "plain" ELSE carries) \in Data
        BY DEF Data
      <4>2. Outcome(Carried(reply')) =
              IF ~Delivered(IF params = "null" THEN "plain" ELSE carries) THEN "timeout"
              ELSE "-32602"
        BY <3>1, <4>1, ErrorOutcome DEF ErrorCode
      <4>3. QED
        BY <2>3, <3>2, <3>3, <4>2 DEF Right, Delivered
  <2>4. CASE params = "valid"
    <3>1. reply' = buildErrorResponse("-32601", "plain") /\ ~handled
      BY <1>2, <1>6, <2>4 DEF dispatch_validates
    <3>2. Outcome(Carried(reply')) = "-32601"
      BY <3>1, ErrorOutcome DEF ErrorCode, Data, Delivered
    <3>3. Documented = "-32601" /\ ~Surprising
      BY <2>1, <2>4, <3>1 DEF Documented, Surprising, Reached, Refusal
    <3>4. QED
      BY <3>2, <3>3 DEF Right
  <2>5. QED
    BY <2>2, <2>3, <2>4
<1>7. ASSUME at \in {"valid", "running"}, params # "valid"
      PROVE  server = "ts" /\ Surprising /\ Documented = "-32602"
  BY <1>7 DEF StageInv, Accepted, Surprising, Documented
<1>8. ASSUME at \in {"valid", "running"}, params = "valid"
      PROVE  /\ Reached /\ found = "defined" /\ (Refusal <=> behaviour = "wrong")
             /\ Documented =
                  CASE behaviour = "rpcError" -> "custom"
                    [] behaviour \in {"error", "sync", "cancelled", "wrong", "raises"} ->
                         "-32603"
                    [] OTHER -> behaviour
  BY <1>8 DEF StageInv, Accepted, Reached, Refusal, Documented
<1>9. CASE CallHandler \/ dispatch_calls_handler
  <2>1. at = "valid" /\ behaviour = "sync" /\ reply' = Thrown
    BY <1>2, <1>9 DEF CallHandler, dispatch_calls_handler
  <2>2. Outcome(Carried(reply')) \in {"failed", "timeout"}
    BY <2>1, NoReplyOutcome DEF NoReply
  <2>3. Documented \in {"-32602", "-32603"} /\ Surprising
    BY <1>7, <1>8, <2>1 DEF Surprising
  <2>4. QED
    BY <2>2, <2>3 DEF Right
<1>10. ASSUME at = "running", behaviour \in Failing, reply' = Failure PROVE Right(reply')
  <2>1. PICK code \in {"custom", "fraction", "-32603"}, d \in Data :
          /\ reply' = buildErrorResponse(code, d)
          /\ code = CASE behaviour = "rpcError" -> "custom"
                      [] behaviour = "fraction" -> "fraction"
                      [] OTHER -> "-32603"
          /\ d = IF behaviour = "error" THEN exceptionToErrorData(carries) ELSE carries
    BY <1>10 DEF Failure, exceptionToErrorData, Data
  <2>2. Outcome(Carried(reply')) =
          IF ~Delivered(d) THEN "timeout"
          ELSE IF code = "fraction" /\ client = "py" THEN "protocol error" ELSE code
    BY <2>1, ErrorOutcome DEF ErrorCode
  <2>3. CASE params # "valid"
    BY <1>7, <1>10, <2>2, <2>3 DEF Right
  <2>4. CASE params = "valid"
    <3>1. Documented = code
      BY <1>8, <1>10, <2>1, <2>4
    <3>2. Surprising <=> ~Delivered(d) \/ (code = "fraction" /\ client = "py")
      BY <1>8, <1>10, <2>1, <2>4 DEF Surprising, Delivered, exceptionToErrorData, Data
    <3>3. QED
      BY <2>2, <3>1, <3>2 DEF Right
  <2>5. QED
    BY <2>3, <2>4
<1>11. CASE HandlerRejects
  BY <1>2, <1>10, <1>11 DEF HandlerRejects
<1>12. ASSUME at = "running", behaviour \notin Failing, reply' \in NoReply,
              def.notification \/ behaviour = "cancelled"
       PROVE  Right(reply')
  <2>1. Outcome(Carried(reply')) \in {"failed", "timeout"}
    BY <1>12, NoReplyOutcome
  <2>2. CASE params # "valid"
    BY <1>7, <1>12, <2>1, <2>2 DEF Right
  <2>3. CASE params = "valid"
    <3>1. Surprising
      BY <1>8, <1>12, <2>3 DEF Surprising
    <3>2. Documented \notin {"failed", "timeout"}
      BY <1>8, <1>12, <2>3 DEF Behaviour
    <3>3. QED
      BY <2>1, <3>1, <3>2 DEF Right
  <2>4. QED
    BY <2>2, <2>3
<1>13. ASSUME at = "running", behaviour = "value", ~def.notification,
              reply' = IF server = "py" /\ carries = "opaque" THEN Thrown
                       ELSE buildSuccessResponse("value", carries)
       PROVE  Right(reply')
  <2>1. IF server = "py" /\ carries = "opaque"
        THEN Outcome(Carried(reply')) \in {"failed", "timeout"}
        ELSE Outcome(Carried(reply')) = IF ~Delivered(carries) THEN "timeout" ELSE "value"
    BY <1>13, ValueOutcome, NoReplyOutcome DEF NoReply
  <2>2. CASE params # "valid"
    BY <1>7, <1>13, <2>1, <2>2 DEF Right
  <2>3. CASE params = "valid"
    <3>1. Documented = "value"
      BY <1>8, <1>13, <2>3
    <3>2. Surprising <=> ~Delivered(carries) \/ (server = "py" /\ carries = "opaque")
      BY <1>8, <1>13, <2>3 DEF Surprising, Delivered, Data
    <3>3. QED
      BY <2>1, <3>1, <3>2 DEF Right
  <2>4. QED
    BY <2>2, <2>3
<1>14. ASSUME at = "running", behaviour = "wrong" \/ (behaviour = "raises" /\ server = "ts"),
              ~def.notification, NEW d \in Data, reply' = buildErrorResponse("-32603", d),
              d = IF server = "ts" THEN exceptionToErrorData(carries) ELSE carries
       PROVE  Right(reply')
  <2>1. Outcome(Carried(reply')) = IF ~Delivered(d) THEN "timeout" ELSE "-32603"
    BY <1>14, ErrorOutcome DEF ErrorCode
  <2>2. CASE params # "valid"
    BY <1>7, <1>14, <2>1, <2>2 DEF Right
  <2>3. CASE params = "valid"
    <3>1. Documented = "-32603"
      BY <1>8, <1>14, <2>3
    <3>2. Surprising <=> ~Delivered(d)
      BY <1>8, <1>14, <2>3 DEF Surprising, Delivered, exceptionToErrorData, Data
    <3>3. QED
      BY <2>1, <3>1, <3>2 DEF Right
  <2>4. QED
    BY <2>2, <2>3
<1>15. ASSUME at = "running", behaviour = "empty" \/ (behaviour = "raises" /\ server = "py"),
              Outcome(Carried(reply')) \in {"undefined", "protocol error", "timeout", "failed"}
                \/ (behaviour = "empty" /\ Outcome(Carried(reply')) = "-32603")
       PROVE  Right(reply')
  <2>1. CASE params # "valid"
    BY <1>7, <1>15, <2>1 DEF Right
  <2>2. CASE params = "valid"
    <3>1. Documented = IF behaviour = "empty" THEN "empty" ELSE "-32603"
      BY <1>8, <1>15, <2>2
    <3>2. Surprising
      BY <1>8, <1>15, <2>2 DEF Surprising
    <3>3. QED
      BY <1>15, <3>1, <3>2 DEF Right
  <2>3. QED
    BY <2>1, <2>2
<1>16. CASE HandlerResolves
  <2>1. /\ at = "running" /\ server = "ts" /\ behaviour \notin Failing
        /\ behaviour \in {"value", "empty", "wrong", "raises"}
    BY <1>16 DEF HandlerResolves, StageInv, Behaviour
  <2>2. CASE def.notification
    <3>1. reply' = Null
      BY <1>2, <1>16, <2>2 DEF HandlerResolves
    <3>2. QED
      BY <1>12, <2>1, <2>2, <3>1 DEF NoReply
  <2>3. CASE ~def.notification /\ behaviour = "value"
    <3>1. reply' = buildSuccessResponse("value", carries)
      BY <1>2, <1>16, <2>3 DEF HandlerResolves
    <3>2. QED
      BY <1>13, <2>1, <2>3, <3>1
  <2>4. CASE ~def.notification /\ behaviour = "empty"
    <3>1. reply' = buildSuccessResponse("undefined", "plain")
      BY <1>2, <1>16, <2>4 DEF HandlerResolves
    <3>2. QED
      BY <1>15, <2>1, <2>4, <3>1, UndefinedOutcome
  <2>5. CASE ~def.notification /\ behaviour \in {"wrong", "raises"}
    <3>1. reply' = buildErrorResponse("-32603", exceptionToErrorData(carries))
      BY <1>2, <1>16, <2>5 DEF HandlerResolves
    <3>2. exceptionToErrorData(carries) \in Data
      BY DEF exceptionToErrorData, Data
    <3>3. QED
      BY <1>14, <2>1, <2>5, <3>1, <3>2
  <2>6. QED
    BY <2>1, <2>2, <2>3, <2>4, <2>5
<1>17. CASE dispatch_finishes
  <2>1. at = "running" /\ server = "py" /\ behaviour # "sync"
    BY <1>17 DEF dispatch_finishes, StageInv
  <2>2. CASE behaviour \in Failing
    BY <1>2, <1>10, <1>17, <2>1, <2>2 DEF dispatch_finishes
  <2>3. CASE behaviour \notin Failing /\ (def.notification \/ behaviour = "cancelled")
    <3>1. reply' \in NoReply
      BY <1>2, <1>17, <2>3 DEF dispatch_finishes, NoReply
    <3>2. QED
      BY <1>12, <2>1, <2>3, <3>1
  <2>4. CASE ~def.notification /\ behaviour = "value"
    <3>1. reply' = IF carries = "opaque" THEN Thrown
                   ELSE buildSuccessResponse("value", carries)
      BY <1>2, <1>17, <2>4 DEF dispatch_finishes
    <3>2. QED
      BY <1>13, <2>1, <2>4, <3>1
  <2>5. CASE ~def.notification /\ behaviour \in {"empty", "wrong"}
    <3>1. reply' = buildErrorResponse("-32603", carries)
      BY <1>2, <1>17, <2>5 DEF dispatch_finishes
    <3>2. Outcome(Carried(reply')) \in {"timeout", "-32603"}
      BY <3>1, ErrorOutcome DEF ErrorCode
    <3>3. QED
      BY <1>14, <1>15, <2>1, <2>5, <3>1, <3>2
  <2>6. CASE ~def.notification /\ behaviour = "raises"
    <3>1. Outcome(Carried(reply')) \in {"failed", "timeout"}
      BY <1>2, <1>17, <2>6, NoReplyOutcome DEF dispatch_finishes, NoReply
    <3>2. QED
      BY <1>15, <2>1, <2>6, <3>1
  <2>7. QED
    BY <2>1, <2>2, <2>3, <2>4, <2>5, <2>6 DEF Behaviour
<1>18. QED
  BY <1>4, <1>5, <1>6, <1>9, <1>11, <1>16, <1>17 DEF dispatcher, dispatch

LEMMA ReplyStep ==
  ASSUME CaseOK, StageInv, ReplyInv, [Next]_vars PROVE ReplyInv'
<1>0. UNCHANGED case
  BY CaseStep
<1>1. /\ CallCase' = CallCase
      /\ \A r : Right(r)' = Right(r)
  BY <1>0
  DEF CallCase, Right, Outcome, Carried, Loaded, Documented, Surprising, Reached, Refusal
<1>2. SUFFICES ASSUME CallCase, at' = "replied" PROVE Right(reply')
  BY <1>1 DEF ReplyInv
<1>3. CASE dispatcher \/ dispatch
  BY <1>2, <1>3, ResolvedRight
<1>4. CASE SendThrows \/ Parse \/ Receive
  BY <1>2, <1>4 DEF SendThrows, Parse, Receive
<1>5. CASE UNCHANGED vars
  BY <1>2, <1>5 DEF vars, ReplyInv
<1>6. QED
  BY <1>3, <1>4, <1>5 DEF Next

LEMMA OutcomeStep ==
  ASSUME CaseOK, StageInv, ReplyInv, OutcomeAsDocumented, [Next]_vars
  PROVE  OutcomeAsDocumented'
<1>0. UNCHANGED case
  BY CaseStep
<1>1. Surprising' = Surprising /\ Documented' = Documented
  BY <1>0 DEF Surprising, Reached, Refusal, Documented
<1>2. SUFFICES ASSUME at' = "done", ~foreign, envelope.id = "own"
               PROVE  caller' = Documented <=> ~Surprising
  BY <1>0, <1>1 DEF OutcomeAsDocumented, ACall
<1>3. CallCase
  BY <1>2 DEF CallCase
<1>4. Documented \notin {"failed", "timeout"}
  BY DEF Documented, CaseOK, Behaviour, Failing
<1>5. CASE Receive
  <2>1. Right(reply) /\ Kind = "request"
    BY <1>3, <1>5, KindOfCall DEF Receive, ReplyInv, StageInv
  <2>2. caller' = Outcome(Carried(reply))
    BY <1>2, <1>5, <2>1 DEF Receive
  <2>3. QED
    BY <2>1, <2>2 DEF Right
<1>6. CASE SendThrows
  BY <1>4, <1>6 DEF SendThrows, Unsendable, Surprising
<1>7. CASE Parse
  <2>1. Kind \notin {"request", "notification"} /\ caller' = "timeout"
    BY <1>2, <1>7 DEF Parse
  <2>2. Surprising
    BY <1>3, <2>1, KindOfCall DEF Unreadable, Surprising
  <2>3. QED
    BY <1>4, <2>1, <2>2
<1>8. CASE dispatcher \/ dispatch
  BY <1>2, <1>8
  DEF dispatcher, dispatch, Lookup, Validate, CallHandler, HandlerRejects, HandlerResolves,
      dispatch_looks_up, dispatch_validates, dispatch_calls_handler, dispatch_finishes,
      Resolve
<1>9. CASE UNCHANGED vars
  BY <1>0, <1>1, <1>2, <1>9 DEF vars, OutcomeAsDocumented, ACall
<1>10. QED
  BY <1>5, <1>6, <1>7, <1>8, <1>9 DEF Next

-----------------------------------------------------------------------------
(* The theorems.                                                           *)

LEMMA InitInv == Init => IInv
<1> SUFFICES ASSUME Init PROVE IInv
  OBVIOUS
<1>1. CaseOK
  <2>1. \A method \in {"named", "newline"}, data \in Data :
          /\ buildRequest(method, data) \in Envelope
          /\ buildNotification(method, data) \in Envelope
          /\ buildRequest(method, data).method = method
          /\ buildNotification(method, data).method = method
    BY DEF buildRequest, buildNotification, Blank, Envelope, Data
  <2>2. envelope \in Envelope /\ foreign \in BOOLEAN
    BY <2>1 DEF Init
  <2>3. ASSUME ~foreign
        PROVE  /\ \E method \in {"named", "newline"}, data \in Data :
                    envelope \in {buildRequest(method, data), buildNotification(method, data)}
               /\ client = "py" \/ envelope.method # "newline"
    BY <2>1, <2>3 DEF Init
  <2>4. QED
    BY <2>2, <2>3, TransportAssumption DEF Init, CaseOK
<1>2. StageInv /\ ReplyInv /\ OutcomeAsDocumented
  BY DEF Init, StageInv, ReplyInv, OutcomeAsDocumented, ACall, NoReply
<1>3. QED
  BY <1>1, <1>2 DEF IInv

LEMMA InvStep == IInv /\ [Next]_vars => IInv'
BY CaseStep, StageStep, ReplyStep, OutcomeStep DEF IInv

\* The invariant of a dispatch holds in every behaviour.
THEOREM Invariance == Spec => []IInv
BY InitInv, InvStep, PTL DEF Spec

\* Whatever the languages, the transport and the contract, a call ends as the validation
\* pipeline of the dispatchers is documented exactly when its case is none of those
\* Surprising names.
THEOREM Outcomes == Spec => []OutcomeAsDocumented
<1>1. IInv => OutcomeAsDocumented
  BY DEF IInv
<1>2. QED
  BY <1>1, Invariance, PTL

\* parseEnvelope and parse_envelope let only well-formed requests be answered and only
\* accepted params reach a handler, whoever wrote the envelope.
THEOREM AnswersAreDue == Spec => []OnlyRequestsAnswered
<1>1. IInv => OnlyRequestsAnswered
  BY KindOfEnvelope DEF IInv, StageInv, OnlyRequestsAnswered, Accepted, CaseOK, Envelope
<1>2. QED
  BY <1>1, Invariance, PTL

\* Both dispatchers take the handler out of the inflight set however it ends.
THEOREM InflightIsReleased == Spec => []InflightReleased
<1>1. IInv => InflightReleased
  BY DEF IInv, StageInv, InflightReleased
<1>2. QED
  BY <1>1, Invariance, PTL
=============================================================================
