------------------------------ MODULE Dispatch ------------------------------
(***************************************************************************)
(* The way of one envelope between the two languages. A client core        *)
(* (client-core.ts, client_core.py) builds it, a transport carries it, the *)
(* server's parser (envelope.ts, envelope.py) classifies it, the           *)
(* dispatcher of its server core (server-core.ts, server_core.py) looks    *)
(* the method up, validates, runs the handler and validates the result,    *)
(* and the caller makes an outcome of the reply. Client and server may be  *)
(* of different languages and of different versions of a contract, and     *)
(* anybody may have written the envelope. What other envelopes do          *)
(* meanwhile, failures and handlers that never end are the concern of      *)
(* RedisRpc, PyRedisRpc and MemoryRpc.                                     *)
(***************************************************************************)

CONSTANT Transport   \* "memory" passes objects on, "redis" passes them as JSON

ASSUME TransportAssumption == Transport \subseteq {"memory", "redis"}

-----------------------------------------------------------------------------
(* Envelopes. An id is "none" when absent or null, "odd" when neither      *)
(* string nor number; a method is "named" when both its segments are fine, *)
(* "newline" when a line feed follows, which $ lets pass in Python; an     *)
(* error code that is a number but no integer is a "fraction". data is     *)
(* what JSON makes of what is inside: "opaque" cannot be written, "nan" is *)
(* a number without a JSON form.                                           *)

Data == {"plain", "nan", "opaque"}

Envelope ==
  [object : BOOLEAN, version : BOOLEAN,
   method : {"absent", "malformed", "named", "newline"},
   id : {"none", "own", "fraction", "odd"},
   result : {"absent", "value"},
   error : {"absent", "malformed", "custom", "fraction"},
   data : Data]

Blank == [object |-> TRUE, version |-> TRUE, method |-> "absent", id |-> "none",
          result |-> "absent", error |-> "absent", data |-> "plain"]

\* what a dispatcher comes to when it is no envelope: null, a rejection, and in
\* Python a CancelledError, which no "except Exception" takes
Null == [Blank EXCEPT !.object = FALSE]
Thrown == [Null EXCEPT !.version = FALSE]
Cancelled == [Null EXCEPT !.method = "malformed"]
NoReply == {Null, Thrown, Cancelled}

buildRequest(method, params) == [Blank EXCEPT !.method = method, !.id = "own", !.data = params]
buildNotification(method, params) == [Blank EXCEPT !.method = method, !.data = params]
buildSuccessResponse(result, data) ==
  [Blank EXCEPT !.id = "own", !.result = result, !.data = data]
buildErrorResponse(code, data) == [Blank EXCEPT !.id = "own", !.error = code, !.data = data]

\* of an exception's attributes only strings, numbers, booleans and lists of them
exceptionToErrorData(data) == IF data = "opaque" THEN "plain" ELSE data

\* mutant: a method with an id that is neither string nor number passes
parseEnvelopeLax(e) ==
  IF ~e.object \/ ~e.version THEN "invalid"
  ELSE IF e.method # "absent" THEN
    IF e.method \in {"malformed", "newline"} THEN "invalid"
    ELSE IF e.id # "none" THEN "request" ELSE "notification"
  ELSE IF e.result # "absent" /\ e.error = "absent" /\ e.id # "none" THEN "success"
  ELSE IF e.error \notin {"absent", "malformed"} /\ e.result = "absent" THEN "error"
  ELSE "invalid"

parseEnvelope(e) ==
  IF ~e.object \/ ~e.version THEN "invalid"
  ELSE IF e.method # "absent" THEN
    IF e.method \in {"malformed", "newline"} \/ e.id = "odd" THEN "invalid"
    ELSE IF e.id # "none" THEN "request" ELSE "notification"
  ELSE IF e.result # "absent" /\ e.error = "absent" /\ e.id # "none" THEN "success"
  ELSE IF e.error \notin {"absent", "malformed"} /\ e.result = "absent" THEN "error"
  ELSE "invalid"

\* numbers that are not integers are neither ids nor error codes here
parse_envelope(e) ==
  IF e.object /\ e.version /\ e.method \in {"named", "newline"}
  THEN CASE e.id = "own" -> "request" [] e.id = "none" -> "notification" [] OTHER -> "invalid"
  ELSE IF e.object /\ e.version /\ e.method = "absent"
  THEN CASE e.result # "absent" /\ e.error = "absent" /\ e.id # "none" -> "success"
         [] e.result = "absent" /\ e.error \notin {"absent", "malformed", "fraction"} ->
              "error"
         [] OTHER -> "invalid"
  ELSE "invalid"

Parsed(language, e) == IF language = "ts" THEN parseEnvelope(e) ELSE parse_envelope(e)

-----------------------------------------------------------------------------
(* What the server has for the method, and what its handler does.          *)

\* a definition has a result schema exactly when it is no notification
defineContract(def) == def.notification # def.result

MethodDef == {def \in [notification : BOOLEAN, result : BOOLEAN] : defineContract(def)}

\* how the server finds the method: "inherited" is a name that is not in the
\* contract but in every JavaScript object
Found == {"defined", "missing", "inherited"}

\* "null" is a params field of null; the check of a value that "raises" fails with an
\* exception of the application's own, which is no ValidationError
Params == {"valid", "null", "invalid", "raises"}

\* A handler "sync" fails before there is a promise; "fraction" is an RpcError whose
\* code is no integer; "cancelled" is a CancelledError of the handler's own making.
\* Codes are finite numbers, and reading an exception does not fail.
Failing == {"rpcError", "fraction", "error"}

\* "empty" is undefined (None), "wrong" a value the schema refuses
Behaviour == Failing \cup {"sync", "cancelled", "value", "empty", "wrong", "raises"}

VARIABLES
  transport, client, server,                \* who talks
  def, found, params, handled, behaviour,   \* the server's side of the case
  carries,   \* Data of the result, of the error, or of the report of a refusal
  foreign,   \* the envelope is not of a client core
  envelope,  \* as it was sent
  at,        \* where the envelope is
  ran,       \* has the handler been called
  inflight,  \* is its promise in the inflight set
  reply,     \* what the dispatcher came to
  caller     \* what the caller of call or notify sees

case == <<transport, client, server, def, found, params, handled, behaviour, carries,
          foreign, envelope>>
vars == <<case, at, ran, inflight, reply, caller>>

\* JSON.stringify and json.dumps throw for what JSON cannot represent
Unsendable == transport = "redis" /\ envelope.data = "opaque"

\* json.dumps writes NaN, which only json.loads reads
Unreadable == transport = "redis" /\ client = "py" /\ server = "ts" /\ envelope.data = "nan"

Kind == IF Unreadable THEN "invalid" ELSE Parsed(server, envelope)

\* the data of an RpcError is passed on as it is
Failure ==
  CASE behaviour = "rpcError" -> buildErrorResponse("custom", carries)
    [] behaviour = "fraction" -> buildErrorResponse("fraction", carries)
    [] OTHER -> buildErrorResponse("-32603", exceptionToErrorData(carries))

\* a notification gets null where a request gets a response
Resolve(r) ==
  /\ reply' = IF Kind = "notification" /\ r \notin {Thrown, Cancelled} THEN Null ELSE r
  /\ at' = "replied"

\* call and notify, or any envelope on a command stream
Init ==
  /\ transport \in Transport
  /\ client \in {"ts", "py"} /\ server \in {"ts", "py"}
  /\ transport = "memory" => client = server
  /\ def \in MethodDef /\ found \in Found /\ params \in Params
  /\ handled \in BOOLEAN /\ behaviour \in Behaviour /\ carries \in Data
  /\ behaviour = "cancelled" => server = "py"
  /\ carries # "plain" => params = "invalid" \/ behaviour \in Failing \cup {"value", "wrong"}
  /\ \/ /\ foreign = FALSE
        /\ \E method \in IF client = "py" THEN {"named", "newline"} ELSE {"named"},
              data \in Data :
             envelope \in {buildRequest(method, data), buildNotification(method, data)}
     \/ /\ foreign = TRUE /\ transport = "redis" /\ client = "ts" /\ carries = "plain"
        /\ envelope \in {e \in Envelope : e.data = "plain"}
  /\ envelope.method = "newline" => found = "missing"
  /\ at = "sent" /\ ran = FALSE /\ inflight = FALSE /\ reply = Null /\ caller = "none"

\* send() rejects before there is an entry
SendThrows ==
  /\ at = "sent" /\ Unsendable
  /\ at' = "done" /\ caller' = "failed"
  /\ UNCHANGED <<case, ran, inflight, reply>>

\* handleEntry drops what does not parse; the dispatcher what is a response. Nobody
\* answers, and a call over Redis times out.
Parse ==
  /\ at = "sent" /\ ~Unsendable
  /\ \/ /\ Kind \in {"request", "notification"}
        /\ at' = "parsed" /\ UNCHANGED caller
     \/ /\ Kind \notin {"request", "notification"}
        /\ at' = "done"
        /\ caller' = IF foreign THEN "none"
                     ELSE IF envelope.id = "none" THEN "sent" ELSE "timeout"
  /\ UNCHANGED <<case, ran, inflight, reply>>

-----------------------------------------------------------------------------
(* The dispatcher in TypeScript. The methods map is a plain object: it has *)
(* what Object.prototype has, but no schema there. params ?? {} makes a    *)
(* null one empty, which the schema of this case accepts.                  *)

Refuses == found = "inherited" \/ params \in {"invalid", "raises"}

\* mutant: the handler is looked up first
LookupHandlerFirst ==
  /\ server = "ts" /\ at = "parsed"
  /\ found = "missing" \/ ~handled
  /\ Resolve(buildErrorResponse("-32601", "plain"))
  /\ UNCHANGED <<case, ran, inflight, caller>>

Lookup ==
  /\ server = "ts" /\ at = "parsed"
  /\ found = "missing"
  /\ Resolve(buildErrorResponse("-32601", "plain"))
  /\ UNCHANGED <<case, ran, inflight, caller>>

\* the params are validated before the handler is looked up
Validate ==
  /\ server = "ts" /\ at = "parsed" /\ found # "missing"
  /\ \/ Refuses /\ Resolve(buildErrorResponse("-32602", exceptionToErrorData(carries)))
     \/ ~Refuses /\ ~handled /\ Resolve(buildErrorResponse("-32601", "plain"))
     \/ ~Refuses /\ handled /\ at' = "valid" /\ UNCHANGED reply
  /\ UNCHANGED <<case, ran, inflight, caller>>

\* a handler that throws before it returns a promise makes the dispatcher reject
CallHandler ==
  /\ server = "ts" /\ at = "valid"
  /\ ran' = TRUE
  /\ \/ behaviour = "sync" /\ Resolve(Thrown) /\ UNCHANGED inflight
     \/ behaviour # "sync" /\ inflight' = TRUE /\ at' = "running" /\ UNCHANGED reply
  /\ UNCHANGED <<case, caller>>

\* mutant: the catch does not remove the promise
HandlerRejectsLeaks ==
  /\ server = "ts" /\ at = "running" /\ behaviour \in Failing
  /\ Resolve(Failure)
  /\ UNCHANGED <<case, ran, inflight, caller>>

HandlerRejects ==
  /\ server = "ts" /\ at = "running" /\ behaviour \in Failing
  /\ inflight' = FALSE
  /\ Resolve(Failure)
  /\ UNCHANGED <<case, ran, caller>>

HandlerResolves ==
  /\ server = "ts" /\ at = "running" /\ behaviour \notin Failing
  /\ inflight' = FALSE
  /\ Resolve(IF def.notification THEN Null
             ELSE CASE behaviour = "value" -> buildSuccessResponse("value", carries)
                    [] behaviour = "empty" -> buildSuccessResponse("undefined", "plain")
                    [] behaviour \in {"wrong", "raises"} ->
                         buildErrorResponse("-32603", exceptionToErrorData(carries)))
  /\ UNCHANGED <<case, ran, caller>>

-----------------------------------------------------------------------------
(* The dispatcher in Python. The methods are a dict; None is no params     *)
(* object; ValidationError.errors() carries the refused input and the      *)
(* exception of a check of the application's own, and only ValidationError *)
(* is caught.                                                              *)

dispatch_looks_up ==
  /\ server = "py" /\ at = "parsed"
  /\ found # "defined"
  /\ Resolve(buildErrorResponse("-32601", "plain"))
  /\ UNCHANGED <<case, ran, inflight, caller>>

dispatch_validates ==
  /\ server = "py" /\ at = "parsed" /\ found = "defined"
  /\ \/ params = "raises" /\ Resolve(Thrown)
     \/ params = "null" /\ Resolve(buildErrorResponse("-32602", "plain"))
     \/ params = "invalid" /\ Resolve(buildErrorResponse("-32602", carries))
     \/ params = "valid" /\ ~handled /\ Resolve(buildErrorResponse("-32601", "plain"))
     \/ params = "valid" /\ handled /\ at' = "valid" /\ UNCHANGED reply
  /\ UNCHANGED <<case, ran, inflight, caller>>

\* create_task of what is no coroutine raises
dispatch_calls_handler ==
  /\ server = "py" /\ at = "valid"
  /\ ran' = TRUE
  /\ \/ behaviour = "sync" /\ Resolve(Thrown) /\ UNCHANGED inflight
     \/ behaviour # "sync" /\ inflight' = TRUE /\ at' = "running" /\ UNCHANGED reply
  /\ UNCHANGED <<case, caller>>

\* a result model does not accept None; model_dump raises for what JSON cannot
\* represent, and leaves NaN as it is
dispatch_finishes ==
  /\ server = "py" /\ at = "running"
  /\ inflight' = FALSE
  /\ Resolve(CASE behaviour = "cancelled" -> Cancelled
               [] behaviour \in Failing -> Failure
               [] behaviour \notin Failing \cup {"cancelled"} /\ def.notification -> Null
               [] behaviour = "value" /\ ~def.notification ->
                    IF carries = "opaque" THEN Thrown
                    ELSE buildSuccessResponse("value", carries)
               [] behaviour \in {"empty", "wrong"} /\ ~def.notification ->
                    buildErrorResponse("-32603", carries)
               [] behaviour = "raises" /\ ~def.notification -> Thrown)
  /\ UNCHANGED <<case, ran, caller>>

-----------------------------------------------------------------------------
(* The way back.                                                           *)

\* JSON.stringify leaves out a property that is undefined, writes null for NaN and
\* infinity, and throws for what JSON cannot represent: no reply is added
Stringified(r) ==
  IF r.data = "opaque" THEN Thrown
  ELSE IF r.result = "undefined" THEN [r EXCEPT !.result = "absent"]
  ELSE [r EXCEPT !.data = "plain"]

\* json.dumps raises for what JSON cannot represent, and writes NaN for NaN
Dumped(r) == IF r.data = "opaque" THEN Thrown ELSE r

\* json.loads reads NaN; JSON.parse throws, and the reply is skipped
Loaded(r) == IF client = "ts" /\ r.data = "nan" THEN Null ELSE r

Carried(r) ==
  IF transport = "memory" \/ r \in NoReply THEN r
  ELSE Loaded(IF server = "ts" THEN Stringified(r) ELSE Dumped(r))

\* what call makes of the reply; without one the memory transport rejects, unless it
\* sees a CancelledError, and the Redis transport times out
Outcome(r) ==
  IF r \in NoReply THEN IF transport = "memory" /\ r # Cancelled THEN "failed" ELSE "timeout"
  ELSE CASE Parsed(client, r) = "success" -> r.result
         [] Parsed(client, r) = "error" -> r.error
         [] OTHER -> "protocol error"

Receive ==
  /\ at = "replied"
  /\ at' = "done"
  /\ caller' = IF foreign THEN "none"
               ELSE IF Kind = "notification" THEN "sent"
               ELSE Outcome(Carried(reply))
  /\ UNCHANGED <<case, ran, inflight, reply>>

dispatcher == Lookup \/ Validate \/ CallHandler \/ HandlerRejects \/ HandlerResolves

dispatch ==
  dispatch_looks_up \/ dispatch_validates \/ dispatch_calls_handler \/ dispatch_finishes

Next == SendThrows \/ Parse \/ dispatcher \/ dispatch \/ Receive

Spec == Init /\ [][Next]_vars

-----------------------------------------------------------------------------
(* Properties.                                                             *)

\* The order of the "Validation pipeline" in the protocol README, as a caller
\* sees it.
Documented ==
  IF found # "defined" THEN "-32601"
  ELSE IF params # "valid" THEN "-32602"
  ELSE IF ~handled THEN "-32601"
  ELSE CASE behaviour = "rpcError" -> "custom"
         [] behaviour \in {"error", "sync", "cancelled", "wrong", "raises"} -> "-32603"
         [] OTHER -> behaviour

Reached == found = "defined" /\ params = "valid" /\ handled

\* The server has a refusal to report.
Refusal == (found = "defined" /\ params = "invalid") \/ (Reached /\ behaviour = "wrong")

\* Cases in which the caller sees something else.
Surprising ==
  \* params that JSON cannot represent are not sent, NaN is read by Python only
  \/ transport = "redis" /\ envelope.data = "opaque"
  \/ transport = "redis" /\ envelope.data = "nan" /\ client = "py" /\ server = "ts"
  \* a Python client sends a method with a line feed that TypeScript does not parse
  \/ envelope.method = "newline" /\ server = "ts"
  \* a name every JavaScript object has is found, and fails validation
  \/ found = "inherited" /\ server = "ts"
  \* a null params field is an empty object to one language and refused by the other
  \/ found = "defined" /\ params = "null" /\ server = "ts"
  \* Python catches nothing but ValidationError of a check
  \/ found = "defined" /\ params = "raises" /\ server = "py"
  \/ Reached /\ behaviour = "raises" /\ server = "py"
  \* a handler that fails before there is a promise gets no reply, nor does one that
  \* ends in a CancelledError, nor a call of what the server declares a notification
  \/ Reached /\ behaviour \in {"sync", "cancelled"}
  \/ Reached /\ def.notification /\ behaviour \notin Failing
  \* an undefined result is lost in JSON, and no result model accepts None
  \/ Reached /\ behaviour = "empty"
  \* an error code that is no integer is none to a Python client
  \/ Reached /\ behaviour = "fraction" /\ client = "py"
  \* an accepted result may be more than JSON can represent, which Python finds out in
  \* the dispatcher, TypeScript when the reply is written
  \/ /\ Reached /\ behaviour = "value" /\ carries = "opaque"
     /\ server = "py" \/ transport = "redis"
  \* and so may the data of an RpcError, and Python's report of a refusal
  \/ /\ transport = "redis" /\ carries = "opaque"
     /\ (Reached /\ behaviour \in {"rpcError", "fraction"}) \/ (Refusal /\ server = "py")
  \* Python writes numbers that only Python reads
  \/ /\ transport = "redis" /\ carries = "nan" /\ server = "py" /\ client = "ts"
     /\ Refusal \/ (Reached /\ behaviour \in Failing \cup {"value"})

ACall == at = "done" /\ ~foreign /\ envelope.id = "own"

\* Except in the cases above, and in none of them, a call ends as the pipeline of the
\* README says, in the same way whatever the languages of client and server and
\* whatever the transport: what one side builds is read by the other as what it was
\* built as.
OutcomeAsDocumented == ACall => (caller = Documented <=> ~Surprising)

\* Whatever anybody writes to a command stream, only a well-formed request with a
\* usable id is answered, and the handler runs only for a request or notification whose
\* params its schema accepted. That what does not parse is acknowledged in silence
\* (handleEntry, handle_entry) is against the protocol README: "Envelope-level parse and
\* validation failures use the JSON-RPC reserved codes: -32700 (parse error), -32600
\* (invalid request)". The -32600 that parseEnvelope raises never becomes a response.
OnlyRequestsAnswered ==
  /\ reply \notin NoReply =>
       /\ envelope.object /\ envelope.version
       /\ envelope.method \notin {"absent", "malformed"} /\ envelope.id \in {"own", "fraction"}
  /\ ran =>
       /\ params = "valid" \/ (params = "null" /\ server = "ts")
       /\ envelope.method = "named" /\ envelope.id # "odd"

\* However the dispatch ends, the handler's promise leaves the inflight set: stop()
\* would otherwise wait for it until its grace period ends.
InflightReleased == at \in {"replied", "done"} => ~inflight

-----------------------------------------------------------------------------
(* What the documentation says and the code does not do.                   *)

\* "Validation failure: bad params -> -32602; bad result -> -32603" (design, the
\* interop scenarios), for a method in the contract with a handler: violated where
\* error data cannot be dumped as JSON (handle_entry in server_transport.py), NaN left
\* aside.
ValidationFailureAnswered ==
  /\ ACall /\ envelope.data = "plain" /\ carries # "nan"
  /\ found = "defined" /\ ~def.notification /\ handled
  => /\ params = "invalid" => caller = "-32602"
     /\ params = "valid" /\ behaviour = "wrong" => caller = "-32603"
=============================================================================
