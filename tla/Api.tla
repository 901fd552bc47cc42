---------------------------------- MODULE Api ----------------------------------
(* One request on its way through internal/httpapi: in through the layers of  *)
(* NewRouter, through the stages of a handler, and out again or up the stack. *)
(* Bodies, names and figures are known only by what a check can find wrong.   *)
EXTENDS Naturals, Sequences

CONSTANT Sent  \* the requests that clients may send

Methods == {"GET", "HEAD", "POST", "PUT", "OPTIONS"}

Request ==
  [path      : {"healthz", "readyz", "products", "product", "sales",
                "recommendation", "batch", "nowhere"},
   method    : Methods,
   preflight : BOOLEAN,  \* Access-Control-Request-Method is set
   sku       : {"known", "unknown", "blank", "long",
                "unstorable"},  \* no text of Postgres: a NUL, or not UTF-8
   type      : {"json", "none", "other"},
   body      : {"object", "malformed", "cut", "oversize", "trailing", "oversizeTail"},
   date      : {"day", "missing", "unreadable"},
   units     : {"count", "missing", "negative", "wide"},  \* wide: over four bytes
   skus      : {"some", "none", "many", "blank",
                "unstorable"}]  \* a NUL in one of them

ASSUME ApiAssumption == Sent \subseteq Request

VARIABLES
  req,       \* the request
  cors,      \* CORSAllowedOrigins is not empty
  depth,     \* the layers the request is in
  way,       \* "in", "out", "panic", "abort", and at the end "done" or "cut"
  ctx,       \* "live", "expired", or "gone" with the client
  todo,      \* what the handler has yet to do
  answer,    \* the status it will write
  stored,    \* the sale is in the database
  status,    \* the status line on the wire, 0 for none
  allow,     \* the Allow header
  documents, \* the JSON documents in the response's body
  recorded,  \* statusRecorder.status
  lines,     \* the statuses in the access log
  faults     \* what went wrong on the server's side

vars == <<req, cors, depth, way, ctx, todo, answer, stored, status, allow, documents,
          recorded, lines, faults>>
response == <<status, documents, recorded>>
place == <<depth, way>>
work == <<todo, answer, allow, stored>>

Init ==
  /\ req \in Sent /\ cors \in BOOLEAN
  /\ depth = 0 /\ way = "in" /\ ctx = "live"
  /\ todo = <<"route">> /\ answer = 0 /\ stored = FALSE
  /\ status = 0 /\ allow = {} /\ documents = 0
  /\ recorded = 0 /\ lines = <<>> /\ faults = {}

-------------------------------------------------------------------------------
(* The layers, outermost first.                                               *)

\* Mutant: Recover outside of the access log.
LayersRecoverFirst ==
  IF cors THEN <<"RequestID", "Recover", "Logging", "CORS", "Timeout", "MaxBodyBytes">>
  ELSE <<"RequestID", "Recover", "Logging", "Timeout", "MaxBodyBytes">>

Layers ==
  IF cors THEN <<"RequestID", "Logging", "CORS", "Recover", "Timeout", "MaxBodyBytes">>
  ELSE <<"RequestID", "Logging", "Recover", "Timeout", "MaxBodyBytes">>

Within(layer) == \E i \in 1..depth : Layers[i] = layer

\* A status is written through the recorder; the wire keeps the first one.
WriteHeader(s) ==
  /\ status' = IF status = 0 THEN s ELSE status
  /\ recorded' = IF Within("Logging") THEN s ELSE recorded

\* A HEAD request gets no body.
WriteDocument == documents' = IF req.method = "HEAD" THEN documents ELSE documents + 1

Preflight == req.method = "OPTIONS" /\ req.preflight

\* Every layer calls the next, but CORS, which answers a preflight itself.
Enter ==
  /\ way = "in" /\ depth < Len(Layers)
  /\ ~(Layers[depth + 1] = "CORS" /\ Preflight)
  /\ depth' = depth + 1
  /\ UNCHANGED <<req, cors, way, ctx, work, response, lines, faults>>

AnswerPreflight ==
  /\ way = "in" /\ depth < Len(Layers)
  /\ Layers[depth + 1] = "CORS" /\ Preflight
  /\ WriteHeader(204)
  /\ way' = "out"
  /\ UNCHANGED <<req, cors, depth, ctx, work, documents, lines, faults>>

Unwinding(layer) == way \in {"out", "panic", "abort"} /\ depth > 0 /\ Layers[depth] = layer

\* The deferred line of Logging, whichever way the stack unwinds.
LogLine ==
  /\ Unwinding("Logging")
  /\ lines' = Append(lines, IF recorded = 0 THEN 200 ELSE recorded)
  /\ depth' = depth - 1
  /\ UNCHANGED <<req, cors, way, ctx, work, response, faults>>

\* Recover answers a panic; it lets http.ErrAbortHandler pass.
RecoverPanic ==
  /\ Unwinding("Recover") /\ way = "panic"
  /\ WriteHeader(500) /\ WriteDocument
  /\ way' = "out"
  /\ depth' = depth - 1
  /\ UNCHANGED <<req, cors, ctx, work, lines, faults>>

LeaveOthers ==
  /\ \/ \E layer \in {"RequestID", "CORS", "Timeout", "MaxBodyBytes"} : Unwinding(layer)
     \/ Unwinding("Recover") /\ way # "panic"
  /\ depth' = depth - 1
  /\ UNCHANGED <<req, cors, way, ctx, work, response, lines, faults>>

\* net/http completes the response, or cuts the connection after a panic.
End ==
  /\ way \in {"out", "panic", "abort"} /\ depth = 0
  /\ way' = IF way = "out" THEN "done" ELSE "cut"
  /\ status' = IF way = "out" /\ status = 0 THEN 200 ELSE status
  /\ UNCHANGED <<req, cors, depth, ctx, work, documents, recorded, lines, faults>>

\* The deadline that Timeout set.
Expire ==
  /\ ctx = "live" /\ way = "in" /\ Within("Timeout")
  /\ ctx' = "expired"
  /\ UNCHANGED <<req, cors, place, work, response, lines, faults>>

ClientLeaves ==
  /\ ctx = "live" /\ way = "in"
  /\ ctx' = "gone"
  /\ UNCHANGED <<req, cors, place, work, response, lines, faults>>

-------------------------------------------------------------------------------
(* The handlers: what each checks and does before it writes its answer.       *)

Patterns ==
  [healthz |-> "GET", readyz |-> "GET", products |-> "GET", product |-> "GET",
   sales |-> "POST", recommendation |-> "GET", batch |-> "POST"]

\* ServeMux: a pattern for GET serves HEAD too.
Serves(path, method) ==
  /\ path \in DOMAIN Patterns
  /\ \/ Patterns[path] = method
     \/ Patterns[path] = "GET" /\ method = "HEAD"

\* writeJSON, or writeError, comes last: first the status, then the body.
Stages ==
  [healthz        |-> <<"header", "body">>,
   readyz         |-> <<"ping", "header", "body">>,
   products       |-> <<"call", "header", "body">>,
   product        |-> <<"sku", "call", "header", "body">>,
   sales          |-> <<"sku", "decode", "fields", "call", "header", "body">>,
   recommendation |-> <<"sku", "call", "header", "body">>,
   batch          |-> <<"decode", "list", "call", "header", "body">>]

Handling(stage) ==
  way = "in" /\ depth = Len(Layers) /\ todo # <<>> /\ Head(todo) = stage

\* Mutant: no return after the error was written.
RefuseAndGoOn(s) ==
  /\ todo' = <<"header", "body">> \o Tail(todo)
  /\ answer' = s

\* writeError and return.
Refuse(s) ==
  /\ todo' = <<"header", "body">>
  /\ answer' = s

Proceed == todo' = Tail(todo) /\ UNCHANGED answer

\* Refuses with the status unless it is 200.
Check(s) == IF s = 200 THEN Proceed ELSE Refuse(s)

\* The methods handleNotFound probes, its own apart.
Allowed(path, method) == {m \in {"GET", "POST"} \ {method} : Serves(path, m)}

Route ==
  /\ Handling("route")
  /\ IF Serves(req.path, req.method)
       THEN /\ todo' = Stages[req.path]
            /\ answer' = 200
            /\ UNCHANGED allow
       ELSE /\ allow' = Allowed(req.path, req.method)
            /\ Refuse(IF allow' = {} THEN 404 ELSE 405)
  /\ UNCHANGED <<req, cors, place, ctx, stored, response, lines, faults>>

SkuVerdict == IF req.sku \in {"blank", "long"} THEN 400 ELSE 200

\* decodeJSON: of what follows the object only its presence is looked at.
BodyVerdict ==
  CASE req.type = "other" -> 415
    [] req.type # "other" /\ req.body = "oversize" /\ Within("MaxBodyBytes") -> 413
    [] req.type # "other" /\ req.body \in {"malformed", "cut", "trailing", "oversizeTail"} -> 400
    [] OTHER -> 200

FieldsVerdict ==
  IF req.date \in {"missing", "unreadable"} \/ req.units = "missing" THEN 400 ELSE 200

ListVerdict == IF req.skus \in {"none", "many", "blank"} THEN 400 ELSE 200

Inspect ==
  /\ \/ Handling("sku") /\ Check(SkuVerdict)
     \/ Handling("decode") /\ Check(BodyVerdict)
     \/ Handling("fields") /\ Check(FieldsVerdict)
     \/ Handling("list") /\ Check(ListVerdict)
  /\ UNCHANGED <<req, cors, place, ctx, allow, stored, response, lines, faults>>

\* toAPIError.
StatusOf(err) ==
  CASE err = "ErrProductNotFound" -> 404
    [] err \in {"ErrEmptySalesHistory", "ErrInsufficientHistory"} -> 422
    [] err = "ErrInvalidProduct" -> 400
    [] err = "DeadlineExceeded" -> 504
    [] err = "Canceled" -> 499
    [] OTHER -> 500

\* A SKU that passes the checks of the handler and that no statement can carry.
Unstorable(r) ==
  \/ r.path \in {"product", "recommendation", "sales"} /\ r.sku = "unstorable"
  \/ r.path = "batch" /\ r.skus = "unstorable"

\* Mutant: RecordSale leaves an unknown product to the foreign key.
OutcomesByForeignKey(r) ==
  CASE Unstorable(r) -> {"other"}
    [] r.path \in {"product", "recommendation"} /\ r.sku = "unknown" -> {"ErrProductNotFound"}
    [] r.path = "sales" /\ r.sku \in {"known", "unknown"} /\ r.units = "negative" ->
         {"ErrInvalidProduct"}
    [] r.path = "sales" /\ r.sku = "known" /\ r.units = "wide" -> {"other"}
    [] r.path = "sales" /\ r.sku = "unknown" /\ r.units # "negative" -> {"other"}
    [] r.path = "recommendation" /\ r.sku = "known" ->
         {"nil", "ErrEmptySalesHistory", "ErrInsufficientHistory", "ErrInvalidProduct"}
    [] OTHER -> {"nil"}

\* What the service answers while the database does: GetProduct comes first, and
\* a SKU or a figure that Postgres cannot take is an error of the driver.
\* Recommend validates the product that is stored.
Outcomes(r) ==
  CASE Unstorable(r) -> {"other"}
    [] r.path \in {"product", "recommendation", "sales"} /\ r.sku = "unknown" ->
         {"ErrProductNotFound"}
    [] r.path = "sales" /\ r.sku = "known" /\ r.units = "negative" -> {"ErrInvalidProduct"}
    [] r.path = "sales" /\ r.sku = "known" /\ r.units = "wide" -> {"other"}
    [] r.path = "recommendation" /\ r.sku = "known" ->
         {"nil", "ErrEmptySalesHistory", "ErrInsufficientHistory", "ErrInvalidProduct"}
    [] OTHER -> {"nil"}

\* Mutant: the error of the service is dropped.
CallUnchecked ==
  /\ Handling("call")
  /\ \E err \in Outcomes(req) : stored' = (req.path = "sales" /\ err = "nil")
  /\ Proceed
  /\ UNCHANGED <<req, cors, place, ctx, allow, response, lines, faults>>

\* The service answers.
Call ==
  /\ Handling("call")
  /\ \E err \in Outcomes(req) :
       /\ IF err = "nil" THEN Proceed ELSE Refuse(StatusOf(err))
       /\ stored' = (req.path = "sales" /\ err = "nil")
  /\ UNCHANGED <<req, cors, place, ctx, allow, response, lines, faults>>

\* The context ends, or the database fails; the sale may be in it all the same.
CallFails ==
  /\ Handling("call")
  /\ \/ ctx = "expired" /\ Refuse(StatusOf("DeadlineExceeded"))
        /\ faults' = faults \cup {"deadline"}
     \/ ctx = "gone" /\ Refuse(StatusOf("Canceled")) /\ UNCHANGED faults
     \/ Refuse(StatusOf("other")) /\ faults' = faults \cup {"database"}
  /\ stored' \in {FALSE, req.path = "sales" /\ Outcomes(req) = {"nil"}}
  /\ UNCHANGED <<req, cors, place, ctx, allow, response, lines>>

\* readyz, with two seconds of its own for the database.  Whatever ends the ping
\* gives 503: the database, the deadline of the request, or the client.
Ping ==
  /\ Handling("ping")
  /\ \/ Proceed /\ UNCHANGED faults
     \/ Refuse(503) /\ faults' = faults \cup {"database"}
     \/ ctx = "expired" /\ Refuse(503) /\ faults' = faults \cup {"deadline"}
     \/ ctx = "gone" /\ Refuse(503) /\ UNCHANGED faults
  /\ UNCHANGED <<req, cors, place, ctx, allow, stored, response, lines>>

\* writeJSON: the status first.
Header ==
  /\ Handling("header")
  /\ WriteHeader(answer)
  /\ Proceed
  /\ UNCHANGED <<req, cors, place, ctx, allow, stored, documents, lines, faults>>

\* Then the body.  Encode refuses NaN before it writes anything, and a client
\* that has gone gets nothing.
Body ==
  /\ Handling("body")
  /\ Proceed
  /\ \/ WriteDocument /\ UNCHANGED faults
     \/ /\ answer = 200 /\ req.path \in {"recommendation", "batch"}
        /\ faults' = faults \cup {"encoding"} /\ UNCHANGED documents
     \/ ctx = "gone" /\ UNCHANGED <<documents, faults>>
  /\ UNCHANGED <<req, cors, place, ctx, allow, stored, status, recorded, lines>>

Return ==
  /\ way = "in" /\ depth = Len(Layers) /\ todo = <<>>
  /\ way' = "out"
  /\ UNCHANGED <<req, cors, depth, ctx, work, response, lines, faults>>

\* Something in the handler panics, with http.ErrAbortHandler or another value.
Panic ==
  /\ way = "in" /\ depth = Len(Layers) /\ todo # <<>>
  /\ way' \in {"panic", "abort"}
  /\ faults' = faults \cup {"bug"}
  /\ UNCHANGED <<req, cors, depth, ctx, work, response, lines>>

-------------------------------------------------------------------------------
Handler == Route \/ Inspect \/ Call \/ CallFails \/ Ping \/ Header \/ Body \/ Return \/ Panic

Stack == Enter \/ AnswerPreflight \/ LogLine \/ RecoverPanic \/ LeaveOthers \/ End

Finished == way \in {"done", "cut"} /\ UNCHANGED vars

Next == Handler \/ Stack \/ Expire \/ ClientLeaves \/ Finished

Spec == Init /\ [][Next]_vars

-------------------------------------------------------------------------------
(* Properties.                                                                *)

Statuses == {200, 204, 400, 404, 405, 413, 415, 422, 499, 500, 503, 504}
HandlerStages == {"route", "sku", "decode", "fields", "list", "call", "ping", "header", "body"}

\* Every variable has its type.
TypeOK ==
  /\ req \in Sent /\ cors \in BOOLEAN
  /\ depth \in 0..Len(Layers)
  /\ way \in {"in", "out", "panic", "abort", "done", "cut"}
  /\ ctx \in {"live", "expired", "gone"}
  /\ todo \in Seq(HandlerStages) /\ answer \in Statuses \cup {0}
  /\ stored \in BOOLEAN
  /\ status \in Statuses \cup {0} /\ recorded \in Statuses \cup {0}
  /\ allow \subseteq {"GET", "POST"}
  /\ documents \in Nat
  /\ lines \in Seq(Statuses)
  /\ faults \subseteq {"bug", "deadline", "database", "encoding"}

\* middleware.go:150, router.go:93: a request that has ended has one line in the
\* access log, and its status is the one the client got.  Only a panic behind a
\* status line is logged as the 500 that could no longer be sent, and a response
\* cut off before its status line counts as 200.
LineMatchesWire ==
  /\ way = "done" =>
       \/ lines = <<status>>
       \/ "bug" \in faults /\ status = answer /\ lines = <<500>>
  /\ way = "cut" => lines = <<IF status = 0 THEN 200 ELSE status>>

\* What a caller can get wrong on each path.
WrongSku(r) == r.path \in {"product", "sales", "recommendation"} /\ r.sku # "known"
WrongBody(r) == r.path \in {"sales", "batch"} /\ (r.type = "other" \/ r.body # "object")
WrongFields(r) ==
  \/ r.path = "sales" /\ (r.date # "day" \/ r.units \in {"missing", "negative"})
  \/ r.path = "batch" /\ r.skus # "some"
WrongCall(r) == ~Serves(r.path, r.method) \/ WrongSku(r) \/ WrongBody(r) \/ WrongFields(r)

\* Where the code blames the wrong party.  A mistake of the caller that no check
\* looks at comes back from the driver, and is told as a fault of the server;
ToldAsOurs(r) == Unstorable(r) \/ (r.path = "sales" /\ r.units = "wide")
\* so is a failed probe when the client gave it up, where errors.go:153 has 499;
ProbeFailed(r, s) == r.path = "readyz" /\ s = 503
\* and a stored product that Recommend refuses is told as a fault of the caller.
ToldAsTheirs(r, s) == r.path = "recommendation" /\ s = 400

\* errors.go:79: "5xx means we broke; 4xx means the caller did", whichever of
\* several faults is met first, with the three exceptions above, and 422 is
\* nobody's fault.  router.go:114: where the path is wrong no method is served,
\* and where the verb is wrong the answer names those that are (HEAD goes with
\* GET unnamed).
BlameIsRight ==
  way = "done" =>
    /\ ~Serves(req.path, req.method) /\ status \in 400..498 =>
         /\ status = IF \A m \in Methods : ~Serves(req.path, m) THEN 404 ELSE 405
         /\ allow = {m \in Methods \ {"HEAD"} : Serves(req.path, m)}
    /\ status \in 200..299 => ~WrongCall(req) \/ (cors /\ Preflight)
    /\ status \in 400..498 => WrongCall(req) \/ status = 422 \/ ToldAsTheirs(req, status)
    /\ status = 499 => ctx = "gone"
    /\ status >= 500 => faults # {} \/ ToldAsOurs(req) \/ (ProbeFailed(req, status) /\ ctx = "gone")

\* handlers.go:196: a 200 confirms that the sale is stored, and a refusal that it
\* is not; after 499 and 5xx the caller cannot know.
AckIffStored ==
  way = "done" /\ req.path = "sales" /\ req.method = "POST" =>
    /\ status = 200 => stored
    /\ status \in 400..498 => ~stored

\* errors.go:13: an answer is one JSON document, a failure after the success was
\* announced included; there is none for HEAD and for a preflight, for a value
\* that JSON cannot hold, and for a client that has gone.
OneDocument ==
  /\ documents <= 1
  /\ way = "done" /\ documents = 0 =>
       req.method = "HEAD" \/ status = 204 \/ "encoding" \in faults \/ ctx = "gone"

-------------------------------------------------------------------------------
(* The inductive invariant behind the safety properties.                      *)

RecoverAt == IF cors THEN 4 ELSE 3

\* What is left to do when a handler has decided on its answer, and before.
Closing == {<<"header", "body">>, <<"body">>, <<>>}

Pending ==
  CASE req.path = "readyz" -> {<<"ping", "header", "body">>}
    [] req.path = "products" -> {<<"call", "header", "body">>}
    [] req.path \in {"product", "recommendation"} ->
         {<<"sku", "call", "header", "body">>, <<"call", "header", "body">>}
    [] req.path = "sales" ->
         {<<"sku", "decode", "fields", "call", "header", "body">>,
          <<"decode", "fields", "call", "header", "body">>,
          <<"fields", "call", "header", "body">>, <<"call", "header", "body">>}
    [] req.path = "batch" ->
         {<<"decode", "list", "call", "header", "body">>, <<"list", "call", "header", "body">>,
          <<"call", "header", "body">>}
    [] OTHER -> {}

\* Where the request is, and what has been logged of it.
StackShape ==
  /\ way = "in" /\ depth < Len(Layers) => todo = <<"route">>
  /\ way = "panic" => depth >= RecoverAt
  /\ way \in {"done", "cut"} => depth = 0
  /\ lines = IF way = "in" \/ depth >= 2 THEN <<>> ELSE <<IF recorded = 0 THEN 200 ELSE recorded>>

\* A check that is no longer on the list was passed.
PlanShape ==
  /\ todo \in {<<"route">>} \cup Pending \cup Closing
  /\ todo = <<"route">> => answer = 0 /\ allow = {}
  /\ todo \notin Closing => ~stored
  /\ todo \in Pending =>
       /\ answer = 200 /\ allow = {} /\ Serves(req.path, req.method)
       /\ Head(todo) # "sku" /\ req.path \in {"product", "sales", "recommendation"} =>
            SkuVerdict = 200
       /\ Head(todo) \in {"fields", "list", "call"} /\ req.path \in {"sales", "batch"} =>
            ~WrongBody(req)
       /\ Head(todo) = "call" /\ req.path = "sales" => FieldsVerdict = 200
       /\ Head(todo) = "call" /\ req.path = "batch" => ListVerdict = 200

\* The answer that a handler decided on is to blame on whom it says.
AnswerShape ==
  todo \in Closing =>
    /\ answer \in Statuses \ {204}
    /\ answer = 200 => ~WrongCall(req) /\ (req.path = "sales" => stored)
    /\ answer \in 400..498 =>
         (WrongCall(req) \/ answer = 422 \/ ToldAsTheirs(req, answer)) /\ ~stored
    /\ answer = 499 => ctx = "gone"
    /\ answer >= 500 => faults # {} \/ ToldAsOurs(req) \/ (ProbeFailed(req, answer) /\ ctx = "gone")
    /\ ~Serves(req.path, req.method) =>
         /\ answer = IF \A m \in Methods : ~Serves(req.path, m) THEN 404 ELSE 405
         /\ allow = {m \in Methods \ {"HEAD"} : Serves(req.path, m)}

\* What the client got, the recorder knows.
WireShape ==
  /\ way = "in" =>
       /\ status = (IF todo \in {<<"body">>, <<>>} THEN answer ELSE 0) /\ recorded = status
       /\ todo # <<>> => documents = 0
  /\ way \in {"panic", "abort", "cut"} =>
       /\ "bug" \in faults /\ documents = 0 /\ recorded = status
       /\ status # 0 => status = answer /\ todo \in Closing
  /\ way \in {"out", "done"} =>
       \/ recorded = status /\ status = answer /\ todo \in Closing
       \/ recorded = 204 /\ status = 204 /\ cors /\ Preflight
       \/ recorded = 500 /\ status = 500 /\ "bug" \in faults
       \/ recorded = 500 /\ status = answer /\ todo \in Closing /\ "bug" \in faults
  /\ documents \in {0, 1}
  /\ documents = 0 /\ (way \in {"out", "done"} \/ (way = "in" /\ todo = <<>>)) =>
       req.method = "HEAD" \/ status = 204 \/ "encoding" \in faults \/ ctx = "gone"

Inductive == TypeOK /\ StackShape /\ PlanShape /\ AnswerShape /\ WireShape
===============================================================================
