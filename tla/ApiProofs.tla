-------------------------------- MODULE ApiProofs --------------------------------
(* The safety properties of Api for any requests.                             *)
EXTENDS Api, TLAPS

-------------------------------------------------------------------------------
(* The layers and the stages, as lists.                                       *)

(* Where the layers are.                                                      *)
LEMMA LayersShape ==
  /\ Len(Layers) = IF cors THEN 6 ELSE 5
  /\ \A i \in 1..Len(Layers) : /\ Layers[i] = "RequestID" <=> i = 1
                               /\ Layers[i] = "Logging" <=> i = 2
                               /\ Layers[i] = "CORS" <=> cors /\ i = 3
                               /\ Layers[i] = "Recover" <=> i = RecoverAt
                               /\ Layers[i] = "MaxBodyBytes" <=> i = Len(Layers)
<1>1. CASE cors
  BY <1>1 DEF Layers, RecoverAt
<1>2. CASE ~cors
  BY <1>2 DEF Layers, RecoverAt
<1> QED
  BY <1>1, <1>2

LEMMA WithinShape ==
  ASSUME depth \in 0..Len(Layers)
  PROVE  /\ Within("Logging") <=> depth >= 2
         /\ Within("MaxBodyBytes") <=> depth = Len(Layers)
  BY LayersShape DEF Within

(* The lists that handlers work off, and what is left after a step.           *)
LEMMA Tails ==
  /\ Tail(<<"body">>) = <<>>
  /\ Tail(<<"header", "body">>) = <<"body">>
  /\ Tail(<<"ping", "header", "body">>) = <<"header", "body">>
  /\ Tail(<<"call", "header", "body">>) = <<"header", "body">>
  /\ Tail(<<"sku", "call", "header", "body">>) = <<"call", "header", "body">>
  /\ Tail(<<"fields", "call", "header", "body">>) = <<"call", "header", "body">>
  /\ Tail(<<"list", "call", "header", "body">>) = <<"call", "header", "body">>
  /\ Tail(<<"decode", "fields", "call", "header", "body">>) = <<"fields", "call", "header", "body">>
  /\ Tail(<<"decode", "list", "call", "header", "body">>) = <<"list", "call", "header", "body">>
  /\ Tail(<<"sku", "decode", "fields", "call", "header", "body">>)
       = <<"decode", "fields", "call", "header", "body">>
  OBVIOUS

LEMMA Heads ==
  /\ Head(<<"decode", "fields", "call", "header", "body">>) = "decode"
  /\ Head(<<"fields", "call", "header", "body">>) = "fields"
  /\ Head(<<"list", "call", "header", "body">>) = "list"
  OBVIOUS

(* The types of the lists.                                                    *)
LEMMA PlanType ==
  ASSUME NEW list \in {<<"route">>} \cup Pending \cup Closing
  PROVE  list \in Seq(HandlerStages)
<1>1. /\ <<>> \in Seq(HandlerStages)
      /\ <<"route">> \in Seq(HandlerStages)
      /\ <<"body">> \in Seq(HandlerStages)
      /\ <<"header", "body">> \in Seq(HandlerStages)
      /\ <<"ping", "header", "body">> \in Seq(HandlerStages)
      /\ <<"call", "header", "body">> \in Seq(HandlerStages)
      /\ <<"sku", "call", "header", "body">> \in Seq(HandlerStages)
      /\ <<"fields", "call", "header", "body">> \in Seq(HandlerStages)
      /\ <<"list", "call", "header", "body">> \in Seq(HandlerStages)
      /\ <<"decode", "fields", "call", "header", "body">> \in Seq(HandlerStages)
      /\ <<"decode", "list", "call", "header", "body">> \in Seq(HandlerStages)
      /\ <<"sku", "decode", "fields", "call", "header", "body">> \in Seq(HandlerStages)
  BY DEF HandlerStages
<1> QED
  BY <1>1 DEF Pending, Closing

(* The stage a handler is at decides what is left.                            *)
LEMMA AtStage ==
  ASSUME todo \in {<<"route">>} \cup Pending \cup Closing, todo # <<>>
  PROVE  /\ Head(todo) = "route" => todo = <<"route">>
         /\ Head(todo) = "header" => todo = <<"header", "body">>
         /\ Head(todo) = "body" => todo = <<"body">>
         /\ Head(todo) = "ping" => todo = <<"ping", "header", "body">> /\ req.path = "readyz"
         /\ Head(todo) = "call" => todo = <<"call", "header", "body">>
              /\ req.path \in {"products", "product", "recommendation", "sales", "batch"}
         /\ Head(todo) = "fields" =>
              todo = <<"fields", "call", "header", "body">> /\ req.path = "sales"
         /\ Head(todo) = "list" => todo = <<"list", "call", "header", "body">> /\ req.path = "batch"
         /\ Head(todo) = "sku" =>
              \/ /\ todo = <<"sku", "call", "header", "body">>
                 /\ req.path \in {"product", "recommendation"}
              \/ /\ todo = <<"sku", "decode", "fields", "call", "header", "body">>
                 /\ req.path = "sales"
         /\ Head(todo) = "decode" =>
              \/ todo = <<"decode", "fields", "call", "header", "body">> /\ req.path = "sales"
              \/ todo = <<"decode", "list", "call", "header", "body">> /\ req.path = "batch"
  BY DEF Pending, Closing

(* A handler that has more to do than its answer is at a stage before it.     *)
LEMMA Deciding ==
  ASSUME todo \in {<<"route">>} \cup Pending \cup Closing, todo # <<>>,
         Head(todo) \notin {"header", "body"}
  PROVE  todo \notin Closing /\ (Head(todo) # "route" => todo \in Pending)
  BY DEF Closing

LEMMA RouteApart ==
  /\ <<"route">> \notin Closing
  /\ \A s \in Pending : s \notin Closing /\ s # <<"route">> /\ s # <<>>
  BY DEF Pending, Closing

-------------------------------------------------------------------------------
LEMMA InductiveInit == Init => Inductive
<1> SUFFICES ASSUME Init PROVE Inductive
  OBVIOUS
<1>1. depth = 0 /\ 0 \in 0..Len(Layers) /\ req \in Request
  BY LayersShape, ApiAssumption DEF Init
<1>2. PlanShape /\ AnswerShape
  BY RouteApart DEF Init, PlanShape, AnswerShape, Pending
<1>3. TypeOK
  <2>1. todo \in Seq(HandlerStages)
    BY <1>1, PlanType DEF Init
  <2>2. cors \in BOOLEAN /\ stored \in BOOLEAN
    BY Zenon DEF Init
  <2> QED
    BY <1>1, <2>1, <2>2 DEF Init, TypeOK
<1>4. StackShape /\ WireShape
  BY <1>1, LayersShape DEF Init, StackShape, WireShape
<1> QED
  BY <1>2, <1>3, <1>4 DEF Inductive

(* A step of a handler before it writes anything keeps the rest as it is, if  *)
(* it keeps the plan and the answer right.                                    *)
LEMMA DecidingStep ==
  ASSUME Inductive, way = "in", depth = Len(Layers), todo \notin Closing,
         UNCHANGED <<req, cors, place, response, lines>>,
         PlanShape', AnswerShape', todo' \in Pending \cup {<<"header", "body">>},
         answer' \in Statuses, stored' \in BOOLEAN, allow' \subseteq {"GET", "POST"},
         ctx' = ctx, faults' \subseteq {"bug", "deadline", "database", "encoding"}
  PROVE  Inductive'
<1> USE DEF Inductive, place, response
<1>1. req \in Request /\ Layers' = Layers /\ Pending' = Pending
  BY ApiAssumption DEF TypeOK, Layers, Pending
<1>2. todo' \in Seq(HandlerStages)
  <2>1. Closing' = Closing /\ <<"header", "body">> \in Closing
    BY DEF Closing
  <2> QED
    BY <1>1, <2>1, PlanType DEF PlanShape
<1>3. TypeOK'
  BY <1>1, <1>2 DEF TypeOK
<1>4. todo' # <<"body">> /\ todo' # <<>> /\ todo # <<"body">> /\ todo # <<>>
  BY RouteApart DEF Closing
<1>5. StackShape' /\ WireShape'
  BY <1>1, <1>4 DEF StackShape, WireShape
<1> QED
  BY <1>3, <1>5

LEMMA PatternsShape == \A path \in DOMAIN Patterns : Patterns[path] \in {"GET", "POST"}
  BY DEF Patterns

(* The types that a step of a handler may have to keep.                       *)
LEMMA WorkTypes ==
  ASSUME Inductive
  PROVE  /\ stored \in BOOLEAN /\ allow \subseteq {"GET", "POST"} /\ answer \in Statuses \cup {0}
         /\ faults \subseteq {"bug", "deadline", "database", "encoding"} /\ req \in Sent
  BY DEF Inductive, TypeOK

LEMMA RouteStep == Inductive /\ Route => Inductive'
<1> SUFFICES ASSUME Inductive, Route PROVE Inductive'
  OBVIOUS
<1> USE DEF Inductive
<1>1. /\ way = "in" /\ depth = Len(Layers) /\ todo = <<"route">> /\ todo \notin Closing
      /\ ~stored /\ answer = 0 /\ allow = {}
      /\ UNCHANGED <<req, cors, place, response, lines, ctx, stored, faults>>
  BY AtStage, RouteApart DEF Route, Handling, PlanShape
<1>2. CASE Serves(req.path, req.method)
  <2>1. todo' = Stages[req.path] /\ answer' = 200 /\ allow' = allow /\ req.path \in DOMAIN Patterns
    BY <1>2 DEF Route, Serves
  <2>2. \/ req.path = "healthz" /\ todo' = <<"header", "body">>
        \/ /\ todo' \in Pending /\ req.path # "healthz"
           /\ Head(todo') = "sku" \/ req.path \notin {"product", "sales", "recommendation"}
           /\ Head(todo') = "decode" \/ req.path # "batch"
           /\ Head(todo') \notin {"fields", "list"} /\ (Head(todo') = "call" => req.path = "products")
    BY <2>1 DEF Stages, Patterns, Pending
  <2>3. Pending' = Pending /\ Closing' = Closing
    BY <1>1 DEF Pending, Closing
  <2>4. PlanShape'
    <3>1. CASE req.path = "healthz" /\ todo' = <<"header", "body">>
      BY <1>1, <2>3, <3>1, RouteApart DEF PlanShape, Closing, Pending
    <3>2. CASE todo' \in Pending
      <4>1. todo' # <<"route">> /\ todo' \notin Closing
        BY <3>2, RouteApart
      <4> QED
        BY <1>1, <1>2, <2>1, <2>2, <2>3, <3>2, <4>1 DEF PlanShape
    <3> QED
      BY <2>2, <3>1, <3>2
  <2>5. AnswerShape'
    BY <1>1, <1>2, <2>1, <2>2, <2>3, RouteApart
       DEF AnswerShape, WrongCall, WrongSku, WrongBody, WrongFields, Statuses
  <2>6. answer' \in Statuses /\ todo' \in Pending \cup {<<"header", "body">>}
    BY <2>1, <2>2 DEF Statuses
  <2> QED
    BY <1>1, <2>1, <2>4, <2>5, <2>6, WorkTypes, DecidingStep
<1>3. CASE ~Serves(req.path, req.method)
  <2>1. /\ todo' = <<"header", "body">> /\ allow' = Allowed(req.path, req.method)
        /\ answer' = IF allow' = {} THEN 404 ELSE 405
    BY <1>3 DEF Route, Refuse
  <2>2. /\ allow' = {m \in Methods \ {"HEAD"} : Serves(req.path, m)}
        /\ allow' = {} <=> \A m \in Methods : ~Serves(req.path, m)
    BY <1>3, <2>1, PatternsShape DEF Allowed, Methods, Serves
  <2>3. PlanShape'
    <3>1. todo' \in Closing' /\ todo' # <<"route">> /\ todo' \notin Pending'
      BY <1>1, <2>1 DEF Closing, Pending
    <3> QED
      BY <1>1, <3>1 DEF PlanShape
  <2>4. AnswerShape'
    BY <1>1, <1>3, <2>1, <2>2 DEF AnswerShape, WrongCall, Statuses
  <2>5. allow' \subseteq {"GET", "POST"} /\ answer' \in Statuses
    BY <2>1 DEF Allowed, Statuses
  <2> QED
    BY <1>1, <2>1, <2>3, <2>4, <2>5, WorkTypes, DecidingStep
<1> QED
  BY <1>2, <1>3

(* What stays as it is while a handler checks its request.                    *)
LEMMA InspectFrame ==
  ASSUME Inductive, Inspect
  PROVE  /\ way = "in" /\ depth = Len(Layers) /\ todo \in Pending /\ todo \notin Closing /\ todo # <<>>
         /\ ~stored /\ answer = 200 /\ allow = {} /\ Serves(req.path, req.method)
         /\ UNCHANGED <<req, cors, place, response, lines, ctx, allow, stored, faults>>
         /\ Pending' = Pending /\ Closing' = Closing
<1>1. /\ way = "in" /\ depth = Len(Layers) /\ todo # <<>>
      /\ Head(todo) \in {"sku", "decode", "fields", "list"}
      /\ UNCHANGED <<req, cors, place, response, lines, ctx, allow, stored, faults>>
  BY DEF Inspect, Handling
<1>2. todo \in Pending /\ todo \notin Closing
  BY <1>1, Deciding DEF Inductive, PlanShape
<1> QED
  BY <1>1, <1>2 DEF Inductive, PlanShape, Pending, Closing

(* A request that is refused by a check is wrong.                             *)
LEMMA RefuseStep ==
  ASSUME Inductive, Inspect, NEW s \in {400, 413, 415}, Refuse(s), WrongCall(req)
  PROVE  Inductive'
<1>1. todo' = <<"header", "body">> /\ answer' = s
  BY DEF Refuse
<1>2. PlanShape'
  <2>1. todo' \in Closing' /\ todo' # <<"route">> /\ todo' \notin Pending'
    BY <1>1, InspectFrame DEF Closing, Pending
  <2> QED
    BY <2>1, InspectFrame DEF PlanShape
<1>3. AnswerShape'
  BY <1>1, InspectFrame DEF AnswerShape, Statuses
<1>4. answer' \in Statuses
  BY <1>1 DEF Statuses
<1> QED
  BY <1>1, <1>2, <1>3, <1>4, InspectFrame, WorkTypes, DecidingStep

(* A request that passes a check goes on to the next.                         *)
LEMMA ProceedStep ==
  ASSUME Inductive, Inspect, Proceed, Tail(todo) \in Pending,
         /\ Head(Tail(todo)) # "sku" /\ req.path \in {"product", "sales", "recommendation"} =>
              SkuVerdict = 200
         /\ Head(Tail(todo)) \in {"fields", "list", "call"} /\ req.path \in {"sales", "batch"} =>
              ~WrongBody(req)
         /\ Head(Tail(todo)) = "call" /\ req.path = "sales" => FieldsVerdict = 200
         /\ Head(Tail(todo)) = "call" /\ req.path = "batch" => ListVerdict = 200
  PROVE  Inductive'
<1>1. todo' = Tail(todo) /\ answer' = answer
  BY DEF Proceed
<1>2. todo' \in Pending' /\ todo' \notin Closing' /\ todo' # <<"route">>
  BY <1>1, InspectFrame, RouteApart
<1>3. SkuVerdict' = SkuVerdict /\ FieldsVerdict' = FieldsVerdict /\ ListVerdict' = ListVerdict
  BY InspectFrame DEF SkuVerdict, FieldsVerdict, ListVerdict
<1>4. /\ req' = req /\ allow' = {} /\ ~stored' /\ answer' = 200 /\ Serves(req.path, req.method)
      /\ Head(todo') = Head(Tail(todo))
  BY <1>1, InspectFrame
<1>5. PlanShape'
  BY <1>2, <1>3, <1>4 DEF PlanShape
<1>6. AnswerShape'
  BY <1>2 DEF AnswerShape
<1>7. answer' \in Statuses /\ todo' \in Pending
  BY <1>1, <1>4 DEF Statuses
<1> QED
  BY <1>5, <1>6, <1>7, InspectFrame, WorkTypes, DecidingStep

LEMMA InspectStep == Inductive /\ Inspect => Inductive'
<1> SUFFICES ASSUME Inductive, Inspect PROVE Inductive'
  OBVIOUS
<1>1. /\ todo \in Pending /\ todo # <<>> /\ depth = Len(Layers) /\ Within("MaxBodyBytes")
      /\ req \in Request /\ todo \in {<<"route">>} \cup Pending \cup Closing
  <2>1. depth \in 0..Len(Layers) /\ req \in Request
    BY ApiAssumption DEF Inductive, TypeOK
  <2> QED
    BY <2>1, InspectFrame, WithinShape
<1>2. /\ Head(todo) # "sku" /\ req.path \in {"product", "sales", "recommendation"} =>
           SkuVerdict = 200
      /\ Head(todo) \in {"fields", "list", "call"} /\ req.path \in {"sales", "batch"} =>
           ~WrongBody(req)
      /\ Serves(req.path, req.method)
  BY <1>1 DEF Inductive, PlanShape
<1>3. CASE Handling("sku") /\ Check(SkuVerdict)
  <2>1. CASE SkuVerdict = 200
    <3>1. \/ Tail(todo) = <<"call", "header", "body">> /\ req.path \in {"product", "recommendation"}
          \/ /\ Tail(todo) = <<"decode", "fields", "call", "header", "body">> /\ req.path = "sales"
             /\ Head(Tail(todo)) = "decode"
      <4>1. \/ /\ todo = <<"sku", "call", "header", "body">>
               /\ req.path \in {"product", "recommendation"}
            \/ /\ todo = <<"sku", "decode", "fields", "call", "header", "body">>
               /\ req.path = "sales"
        BY <1>1, <1>3, AtStage DEF Handling
      <4> QED
        BY <4>1, Tails, Heads
    <3>2. Tail(todo) \in Pending /\ Proceed
      BY <1>3, <2>1, <3>1 DEF Pending, Check
    <3> QED
      BY <2>1, <3>1, <3>2, ProceedStep
  <2>2. CASE SkuVerdict # 200
    <3>1. SkuVerdict = 400 /\ WrongCall(req) /\ Refuse(SkuVerdict)
      BY <1>1, <1>3, <2>2, AtStage DEF Handling, Check, SkuVerdict, WrongCall, WrongSku
    <3> QED
      BY <3>1, RefuseStep
  <2> QED
    BY <2>1, <2>2
<1>4. CASE Handling("decode") /\ Check(BodyVerdict)
  <2>1. \/ todo = <<"decode", "fields", "call", "header", "body">> /\ req.path = "sales"
        \/ todo = <<"decode", "list", "call", "header", "body">> /\ req.path = "batch"
    BY <1>1, <1>4, AtStage DEF Handling
  <2>2. \/ BodyVerdict = 200 /\ ~WrongBody(req)
        \/ BodyVerdict \in {400, 413, 415} /\ WrongBody(req)
    BY <1>1, <2>1 DEF BodyVerdict, WrongBody, Request
  <2>3. CASE BodyVerdict = 200
    <3>1. \/ /\ Tail(todo) = <<"fields", "call", "header", "body">> /\ req.path = "sales"
             /\ Head(Tail(todo)) = "fields"
          \/ /\ Tail(todo) = <<"list", "call", "header", "body">> /\ req.path = "batch"
             /\ Head(Tail(todo)) = "list"
      BY <2>1, Tails, Heads
    <3>2. Tail(todo) \in Pending /\ Proceed
      BY <1>4, <2>3, <3>1 DEF Pending, Check
    <3>3. Head(todo) = "decode"
      BY <1>4 DEF Handling
    <3> QED
      BY <1>2, <2>2, <2>3, <3>1, <3>2, <3>3, ProceedStep
  <2>4. CASE BodyVerdict # 200
    <3>1. Refuse(BodyVerdict)
      BY <1>4, <2>4 DEF Check
    <3> QED
      BY <2>2, <2>4, <3>1, RefuseStep DEF WrongCall
  <2> QED
    BY <2>3, <2>4
<1>5. CASE Handling("fields") /\ Check(FieldsVerdict)
  <2>1. todo = <<"fields", "call", "header", "body">> /\ req.path = "sales" /\ Head(todo) = "fields"
    BY <1>1, <1>5, AtStage DEF Handling
  <2>2. CASE FieldsVerdict = 200
    <3>1. Tail(todo) = <<"call", "header", "body">> /\ Tail(todo) \in Pending /\ Proceed
      BY <1>5, <2>1, <2>2, Tails DEF Pending, Check
    <3> QED
      BY <1>2, <2>1, <2>2, <3>1, ProceedStep
  <2>3. CASE FieldsVerdict # 200
    <3>1. FieldsVerdict = 400 /\ WrongCall(req) /\ Refuse(FieldsVerdict)
      BY <1>5, <2>1, <2>3 DEF Check, FieldsVerdict, WrongCall, WrongFields
    <3> QED
      BY <3>1, RefuseStep
  <2> QED
    BY <2>2, <2>3
<1>6. CASE Handling("list") /\ Check(ListVerdict)
  <2>1. todo = <<"list", "call", "header", "body">> /\ req.path = "batch" /\ Head(todo) = "list"
    BY <1>1, <1>6, AtStage DEF Handling
  <2>2. CASE ListVerdict = 200
    <3>1. Tail(todo) = <<"call", "header", "body">> /\ Tail(todo) \in Pending /\ Proceed
      BY <1>6, <2>1, <2>2, Tails DEF Pending, Check
    <3> QED
      BY <1>2, <2>1, <2>2, <3>1, ProceedStep
  <2>3. CASE ListVerdict # 200
    <3>1. ListVerdict = 400 /\ WrongCall(req) /\ Refuse(ListVerdict)
      BY <1>6, <2>1, <2>3 DEF Check, ListVerdict, WrongCall, WrongFields
    <3> QED
      BY <3>1, RefuseStep
  <2> QED
    BY <2>2, <2>3
<1> QED
  BY <1>3, <1>4, <1>5, <1>6 DEF Inspect

(* A call of the service, or the ping, that is about to be answered.          *)
LEMMA CallFrame ==
  ASSUME Inductive, Handling("call") \/ Handling("ping")
  PROVE  /\ way = "in" /\ depth = Len(Layers) /\ todo \in Pending /\ todo \notin Closing
         /\ Tail(todo) = <<"header", "body">> /\ answer = 200 /\ allow = {}
         /\ Serves(req.path, req.method) /\ req \in Request
         /\ Handling("call") => req.path \in {"products", "product", "recommendation", "sales", "batch"}
         /\ Handling("ping") => req.path = "readyz"
<1>1. /\ way = "in" /\ depth = Len(Layers) /\ todo # <<>> /\ Head(todo) \in {"call", "ping"}
      /\ todo \in {<<"route">>} \cup Pending \cup Closing
  BY DEF Handling, Inductive, PlanShape
<1>2. todo \in Pending /\ todo \notin Closing
  BY <1>1, Deciding
<1>3. /\ todo \in {<<"call", "header", "body">>, <<"ping", "header", "body">>}
      /\ Head(todo) = "call" => req.path \in {"products", "product", "recommendation", "sales", "batch"}
      /\ Head(todo) = "ping" => req.path = "readyz"
  BY <1>1, AtStage
<1>4. answer = 200 /\ allow = {} /\ Serves(req.path, req.method)
  BY <1>2 DEF Inductive, PlanShape
<1>5. req \in Request
  BY ApiAssumption DEF Inductive, TypeOK
<1> QED
  BY <1>1, <1>2, <1>3, <1>4, <1>5, Tails DEF Handling

(* Once the call has been made, what counts is that the answer is right.      *)
LEMMA AnsweredStep ==
  ASSUME Inductive, Handling("call") \/ Handling("ping"),
         UNCHANGED <<req, cors, place, response, lines, ctx, allow>>,
         todo' = <<"header", "body">>, answer' \in Statuses, stored' \in BOOLEAN, AnswerShape',
         faults' \subseteq {"bug", "deadline", "database", "encoding"}
  PROVE  Inductive'
<1>1. PlanShape'
  <2>1. todo' \in Closing' /\ todo' # <<"route">> /\ todo' \notin Pending'
    BY DEF Closing, Pending
  <2> QED
    BY <2>1 DEF PlanShape
<1> QED
  BY <1>1, CallFrame, WorkTypes, DecidingStep

LEMMA CallStep == Inductive /\ Call => Inductive'
<1> SUFFICES ASSUME Inductive, Call PROVE Inductive'
  OBVIOUS
<1>1. /\ Handling("call")
      /\ UNCHANGED <<req, cors, place, response, lines, ctx, allow, faults>>
  BY DEF Call
<1>2. PICK err \in Outcomes(req) :
        /\ IF err = "nil" THEN Proceed ELSE Refuse(StatusOf(err))
        /\ stored' = (req.path = "sales" /\ err = "nil")
  BY DEF Call
<1>3. todo' = <<"header", "body">> /\ answer' = (IF err = "nil" THEN 200 ELSE StatusOf(err))
  BY <1>1, <1>2, CallFrame DEF Proceed, Refuse
<1>4. CASE err = "nil"
  <2>1. (req.path = "sales" => stored') /\ stored' \in BOOLEAN /\ answer' = 200
    <3>1. stored' = (req.path = "sales")
      BY <1>2, <1>4
    <3> QED
      BY <1>3, <1>4, <3>1
  <2>2. ~WrongCall(req)
    <3>1. /\ req.path \in {"product", "sales", "recommendation"} => SkuVerdict = 200
          /\ req.path \in {"sales", "batch"} => ~WrongBody(req)
          /\ req.path = "sales" => FieldsVerdict = 200
          /\ req.path = "batch" => ListVerdict = 200
      BY <1>1, CallFrame DEF Inductive, PlanShape, Handling
    <3>2. ~WrongSku(req)
      BY <1>1, <1>2, <1>4, <3>1, CallFrame
         DEF WrongSku, SkuVerdict, Outcomes, Unstorable, Request
    <3>3. ~WrongFields(req)
      BY <1>1, <1>2, <1>4, <3>1, <3>2, CallFrame
         DEF WrongFields, WrongSku, FieldsVerdict, ListVerdict, Outcomes, Unstorable, Request
    <3>4. ~WrongBody(req)
      BY <3>1 DEF WrongBody
    <3> QED
      BY <1>1, <3>2, <3>3, <3>4, CallFrame DEF WrongCall
  <2>3. AnswerShape'
    BY <1>1, <2>1, <2>2, CallFrame DEF AnswerShape, Statuses
  <2> QED
    BY <1>1, <1>3, <2>1, <2>3, WorkTypes, AnsweredStep DEF Statuses
<1>5. CASE err # "nil"
  <2>1. ~stored' /\ stored' \in BOOLEAN /\ answer' = StatusOf(err)
    <3>1. stored' = FALSE
      BY <1>2, <1>5
    <3> QED
      BY <1>3, <1>5, <3>1
  <2>2. \/ StatusOf(err) \in {400, 404} /\ WrongCall(req)
        \/ StatusOf(err) = 400 /\ ToldAsTheirs(req, 400)
        \/ StatusOf(err) = 422
        \/ StatusOf(err) = 500 /\ ToldAsOurs(req)
    BY <1>2, <1>5
       DEF Outcomes, StatusOf, WrongCall, WrongSku, WrongFields, ToldAsTheirs, ToldAsOurs
  <2>3. AnswerShape'
    <3>1. /\ req' = req /\ Serves(req.path, req.method)
          /\ \/ answer' \in {400, 404} /\ WrongCall(req)
             \/ answer' = 400 /\ ToldAsTheirs(req, 400)
             \/ answer' = 422
             \/ answer' = 500 /\ ToldAsOurs(req)
      BY <1>1, <2>1, <2>2, CallFrame
    <3> QED
      BY <2>1, <3>1 DEF AnswerShape, Statuses
  <2> QED
    BY <1>1, <1>3, <2>1, <2>2, <2>3, WorkTypes, AnsweredStep DEF Statuses
<1> QED
  BY <1>4, <1>5

LEMMA CallFailsStep == Inductive /\ (CallFails \/ Ping) => Inductive'
<1> SUFFICES ASSUME Inductive, CallFails \/ Ping PROVE Inductive'
  OBVIOUS
<1>1. /\ Handling("call") \/ Handling("ping")
      /\ UNCHANGED <<req, cors, place, response, lines, ctx, allow>>
  BY DEF CallFails, Ping
<1>2. CASE Ping /\ Proceed
  <2>1. /\ todo' = <<"header", "body">> /\ answer' = 200 /\ stored' = stored /\ req.path = "readyz"
        /\ faults' = faults
    BY <1>2, CallFrame DEF Ping, Proceed, Refuse
  <2>2. AnswerShape'
    BY <1>1, <2>1, CallFrame
       DEF AnswerShape, Statuses, WrongCall, WrongSku, WrongBody, WrongFields
  <2> QED
    BY <1>1, <2>1, <2>2, WorkTypes, AnsweredStep DEF Statuses
<1>3. CASE ~(Ping /\ Proceed)
  <2>1. /\ todo' = <<"header", "body">>
        /\ \/ answer' \in {500, 503, 504} /\ faults' # {}
           \/ answer' = 499 /\ ctx = "gone"
           \/ answer' = 503 /\ ctx = "gone" /\ ProbeFailed(req, 503)
        /\ faults' \subseteq {"bug", "deadline", "database", "encoding"}
    <3>1. \/ Refuse(StatusOf("DeadlineExceeded")) /\ faults' = faults \cup {"deadline"}
          \/ Refuse(StatusOf("Canceled")) /\ ctx = "gone" /\ faults' = faults
          \/ Refuse(StatusOf("other")) /\ faults' = faults \cup {"database"}
          \/ Refuse(503) /\ faults' \in {faults \cup {"database"}, faults \cup {"deadline"}}
          \/ Refuse(503) /\ ctx = "gone" /\ faults' = faults /\ Ping
      <4>1. CASE CallFails
        BY <4>1, Zenon DEF CallFails
      <4>2. CASE Ping
        BY <1>3, <4>2, Zenon DEF Ping
      <4> QED
        BY <4>1, <4>2
    <3>2. Ping => ProbeFailed(req, 503)
      BY CallFrame DEF Ping, ProbeFailed
    <3> QED
      BY <3>1, <3>2, WorkTypes DEF Refuse, StatusOf
  <2>3. stored' \in BOOLEAN
    <3>1. stored \in BOOLEAN
      BY WorkTypes
    <3> QED
      BY <3>1, Zenon DEF CallFails, Ping
  <2>2. AnswerShape'
    <3>1. req' = req /\ Serves(req.path, req.method) /\ ctx' = ctx
      BY <1>1, CallFrame
    <3> QED
      BY <2>1, <3>1 DEF AnswerShape, Statuses
  <2> QED
    BY <1>1, <2>1, <2>2, <2>3, AnsweredStep DEF Statuses
<1> QED
  BY <1>2, <1>3

(* A handler that has decided writes the status it decided on, then the body. *)
LEMMA WritingFrame ==
  ASSUME Inductive, Handling("header") \/ Handling("body")
  PROVE  /\ way = "in" /\ depth = Len(Layers) /\ depth \in Nat /\ depth >= 5 /\ Within("Logging")
         /\ Handling("header") => todo = <<"header", "body">> /\ Tail(todo) = <<"body">>
                                   /\ status = 0 /\ recorded = 0
         /\ Handling("body") => todo = <<"body">> /\ Tail(todo) = <<>> /\ status = answer
         /\ todo \in Closing /\ Tail(todo) \in Closing /\ documents = 0 /\ recorded = status
         /\ answer \in Statuses \ {0}
<1>1. /\ way = "in" /\ depth = Len(Layers) /\ todo # <<>> /\ depth \in 0..Len(Layers)
      /\ todo \in {<<"route">>} \cup Pending \cup Closing
  BY DEF Handling, Inductive, PlanShape, TypeOK
<1>2. \/ Handling("header") /\ todo = <<"header", "body">> /\ Head(todo) = "header"
      \/ Handling("body") /\ todo = <<"body">> /\ Head(todo) = "body"
  BY <1>1, AtStage DEF Handling
<1>3. todo \in Closing /\ Tail(todo) \in Closing
  BY <1>2, Tails DEF Closing
<1>4. answer \in Statuses \ {0}
  BY <1>3 DEF Inductive, AnswerShape, Statuses
<1>5. depth \in Nat /\ depth >= 5 /\ Within("Logging")
  BY <1>1, LayersShape, WithinShape
<1>6. Handling("header") => todo # <<"body">> /\ todo = <<"header", "body">>
  BY <1>2 DEF Handling
<1>7. Handling("body") => todo = <<"body">>
  BY <1>2 DEF Handling
<1>8. documents = 0 /\ recorded = status /\ status = (IF todo \in {<<"body">>, <<>>} THEN answer ELSE 0)
  BY <1>1 DEF Inductive, WireShape
<1> QED
  BY <1>1, <1>3, <1>4, <1>5, <1>6, <1>7, <1>8, Tails

LEMMA HeaderStep == Inductive /\ Header => Inductive'
<1> SUFFICES ASSUME Inductive, Header PROVE Inductive'
  OBVIOUS
<1>1. /\ Handling("header") /\ todo' = <<"body">> /\ answer' = answer
      /\ status' = answer /\ recorded' = answer
      /\ UNCHANGED <<req, cors, depth, way, ctx, allow, stored, documents, lines, faults>>
  BY WritingFrame DEF Header, Proceed, WriteHeader, place
<1>2. /\ Closing' = Closing /\ Pending' = Pending /\ Layers' = Layers /\ <<"body">> \in Closing
      /\ <<"body">> \in Seq(HandlerStages) /\ <<"body">> # <<"route">> /\ <<"body">> \notin Pending
  BY <1>1, RouteApart DEF Closing, Pending, Layers, HandlerStages
<1>3. TypeOK'
  BY <1>1, <1>2, WritingFrame DEF Inductive, TypeOK
<1>4. StackShape'
  BY <1>1, <1>2, WritingFrame DEF Inductive, StackShape
<1>5. PlanShape'
  BY <1>1, <1>2 DEF PlanShape
<1>6. AnswerShape'
  BY <1>1, <1>2, WritingFrame DEF Inductive, AnswerShape
<1>7. WireShape'
  BY <1>1, WritingFrame DEF WireShape
<1> QED
  BY <1>3, <1>4, <1>5, <1>6, <1>7 DEF Inductive

LEMMA BodyStep == Inductive /\ Body => Inductive'
<1> SUFFICES ASSUME Inductive, Body PROVE Inductive'
  OBVIOUS
<1>1. /\ Handling("body") /\ todo' = <<>> /\ answer' = answer /\ faults \subseteq faults'
      /\ \/ documents' = 1 /\ faults' = faults
         \/ documents' = 0 /\ req.method = "HEAD" /\ faults' = faults
         \/ documents' = 0 /\ faults' = faults \cup {"encoding"}
         \/ documents' = 0 /\ ctx = "gone" /\ faults' = faults
      /\ UNCHANGED <<req, cors, depth, way, ctx, allow, stored, status, recorded, lines>>
  BY WritingFrame DEF Body, Proceed, WriteDocument, place
<1>2. /\ Closing' = Closing /\ Pending' = Pending /\ Layers' = Layers /\ <<>> \in Closing
      /\ <<>> \in Seq(HandlerStages) /\ <<>> # <<"route">> /\ <<>> \notin Pending
  BY <1>1, RouteApart DEF Closing, Pending, Layers
<1>3. TypeOK'
  BY <1>1, <1>2, WritingFrame DEF Inductive, TypeOK
<1>4. StackShape'
  BY <1>1, <1>2, WritingFrame DEF Inductive, StackShape
<1>5. PlanShape'
  BY <1>1, <1>2 DEF PlanShape
<1>6. AnswerShape'
  BY <1>1, <1>2, WritingFrame DEF Inductive, AnswerShape
<1>7. WireShape'
  BY <1>1, WritingFrame DEF WireShape
<1> QED
  BY <1>3, <1>4, <1>5, <1>6, <1>7 DEF Inductive

(* The handler returns, or panics.                                            *)
LEMMA LeavingStep == Inductive /\ (Return \/ Panic) => Inductive'
<1> SUFFICES ASSUME Inductive, Return \/ Panic PROVE Inductive'
  OBVIOUS
<1>1. /\ way = "in" /\ depth = Len(Layers) /\ depth \in Nat /\ depth >= 5 /\ depth >= RecoverAt
      /\ UNCHANGED <<req, cors, depth, ctx, todo, answer, allow, stored, status, documents,
                     recorded, lines>>
  BY LayersShape DEF Return, Panic, work, response, RecoverAt
<1>2. /\ Closing' = Closing /\ Pending' = Pending /\ Layers' = Layers /\ RecoverAt' = RecoverAt
      /\ faults \subseteq faults'
  BY <1>1 DEF Closing, Pending, Layers, RecoverAt, Return, Panic
<1>3. \/ way' = "out" /\ todo = <<>> /\ faults' = faults
      \/ way' \in {"panic", "abort"} /\ todo # <<>> /\ faults' = faults \cup {"bug"}
  BY DEF Return, Panic
<1>4. TypeOK'
  BY <1>1, <1>2, <1>3 DEF Inductive, TypeOK
<1>5. StackShape' /\ PlanShape'
  <2>1. SkuVerdict' = SkuVerdict /\ FieldsVerdict' = FieldsVerdict /\ ListVerdict' = ListVerdict
    BY <1>1 DEF SkuVerdict, FieldsVerdict, ListVerdict
  <2> QED
    BY <1>1, <1>2, <1>3, <2>1 DEF Inductive, StackShape, PlanShape
<1>6. AnswerShape'
  BY <1>1, <1>2 DEF Inductive, AnswerShape
<1>7. WireShape'
  BY <1>1, <1>2, <1>3 DEF Inductive, WireShape, Closing
<1> QED
  BY <1>4, <1>5, <1>6, <1>7 DEF Inductive

(* A step of the layers leaves the plan and the answer of the handler alone.  *)
LEMMA StackFrame ==
  ASSUME Inductive, UNCHANGED <<req, cors, ctx, work, faults>>
  PROVE  /\ PlanShape' /\ AnswerShape' /\ Layers' = Layers /\ RecoverAt' = RecoverAt
         /\ Closing' = Closing
<1>1. /\ Closing' = Closing /\ Pending' = Pending
      /\ SkuVerdict' = SkuVerdict /\ FieldsVerdict' = FieldsVerdict /\ ListVerdict' = ListVerdict
  BY DEF Closing, Pending, SkuVerdict, FieldsVerdict, ListVerdict
<1>2. PlanShape'
  BY <1>1 DEF Inductive, PlanShape, work
<1>3. AnswerShape'
  BY <1>1 DEF Inductive, AnswerShape, work
<1> QED
  BY <1>1, <1>2, <1>3 DEF Layers, RecoverAt

LEMMA EnterStep == Inductive /\ Enter => Inductive'
<1> SUFFICES ASSUME Inductive, Enter PROVE Inductive'
  OBVIOUS
<1>1. /\ way = "in" /\ depth < Len(Layers) /\ depth' = depth + 1 /\ depth \in Nat /\ Len(Layers) \in Nat
      /\ UNCHANGED <<req, cors, way, ctx, work, faults>>
      /\ UNCHANGED <<todo, answer, allow, stored, status, documents, recorded, lines>>
  BY LayersShape DEF Enter, Inductive, TypeOK, work, response
<1>2. PlanShape' /\ AnswerShape' /\ Layers' = Layers
  BY <1>1, StackFrame
<1>3. TypeOK'
  BY <1>1, <1>2 DEF Inductive, TypeOK
<1>4. StackShape' /\ WireShape'
  BY <1>1, <1>2 DEF Inductive, StackShape, WireShape
<1> QED
  BY <1>2, <1>3, <1>4 DEF Inductive

LEMMA PreflightStep == Inductive /\ AnswerPreflight => Inductive'
<1> SUFFICES ASSUME Inductive, AnswerPreflight PROVE Inductive'
  OBVIOUS
<1>1. /\ way = "in" /\ depth = 2 /\ cors /\ Preflight /\ way' = "out" /\ lines = <<>> /\ depth < Len(Layers)
  BY LayersShape DEF AnswerPreflight, Inductive, TypeOK, StackShape
<1>2. Within("Logging") /\ todo = <<"route">> /\ status = 0
  <2>1. todo = <<"route">>
    BY <1>1 DEF Inductive, StackShape
  <2>2. <<"route">> # <<"body">> /\ <<"route">> # <<>>
    OBVIOUS
  <2> QED
    BY <1>1, <2>1, <2>2, WithinShape DEF Inductive, TypeOK, WireShape
<1>3. /\ status' = 204 /\ recorded' = 204
      /\ UNCHANGED <<req, cors, ctx, work, faults>>
      /\ UNCHANGED <<depth, todo, answer, allow, stored, documents, lines>>
  BY <1>2 DEF AnswerPreflight, WriteHeader, work
<1>4. PlanShape' /\ AnswerShape' /\ Layers' = Layers
  BY <1>3, StackFrame
<1>5. TypeOK'
  BY <1>1, <1>3, <1>4 DEF Inductive, TypeOK, Statuses
<1>6. StackShape'
  BY <1>1, <1>3, <1>4 DEF Inductive, StackShape
<1>7. WireShape'
  BY <1>1, <1>3 DEF Inductive, WireShape, Preflight
<1> QED
  BY <1>4, <1>5, <1>6, <1>7 DEF Inductive

LEMMA LogLineStep == Inductive /\ LogLine => Inductive'
<1> SUFFICES ASSUME Inductive, LogLine PROVE Inductive'
  OBVIOUS
<1>1. /\ way \in {"out", "panic", "abort"} /\ depth = 2 /\ depth' = 1 /\ lines = <<>>
      /\ UNCHANGED <<req, cors, ctx, work, faults>>
      /\ UNCHANGED <<way, todo, answer, allow, stored, status, documents, recorded>>
  BY LayersShape DEF LogLine, Unwinding, Inductive, TypeOK, StackShape, work, response
<1>2. way # "panic"
  BY <1>1 DEF Inductive, StackShape, RecoverAt
<1>3. PlanShape' /\ AnswerShape' /\ Layers' = Layers
  BY <1>1, StackFrame
<1>4. /\ lines' = <<IF recorded = 0 THEN 200 ELSE recorded>>
      /\ (IF recorded = 0 THEN 200 ELSE recorded) \in Statuses
  BY <1>1 DEF LogLine, Inductive, TypeOK, Statuses
<1>5. TypeOK'
  <2>1. lines' \in Seq(Statuses)
    BY <1>4
  <2> QED
    BY <1>1, <1>3, <2>1 DEF Inductive, TypeOK
<1>6. StackShape' /\ WireShape'
  BY <1>1, <1>2, <1>3, <1>4 DEF Inductive, StackShape, WireShape, Preflight, Closing
<1> QED
  BY <1>3, <1>5, <1>6 DEF Inductive

LEMMA RecoverStep == Inductive /\ RecoverPanic => Inductive'
<1> SUFFICES ASSUME Inductive, RecoverPanic PROVE Inductive'
  OBVIOUS
<1>1. /\ way = "panic" /\ way' = "out" /\ depth \in {3, 4} /\ depth' = depth - 1 /\ lines = <<>>
      /\ depth \in 0..Len(Layers)
      /\ UNCHANGED <<req, cors, ctx, work, faults>>
      /\ UNCHANGED <<todo, answer, allow, stored, lines>>
  BY LayersShape DEF RecoverPanic, Unwinding, Inductive, TypeOK, StackShape, work, RecoverAt
<1>2. PlanShape' /\ AnswerShape' /\ Layers' = Layers
  BY <1>1, StackFrame
<1>3. /\ "bug" \in faults /\ documents = 0 /\ recorded = status
      /\ status # 0 => status = answer /\ todo \in Closing
  BY <1>1 DEF Inductive, WireShape
<1>4. /\ status' = (IF status = 0 THEN 500 ELSE status) /\ recorded' = 500
      /\ documents' = (IF req.method = "HEAD" THEN 0 ELSE 1)
  BY <1>1, <1>3, WithinShape DEF RecoverPanic, WriteHeader, WriteDocument
<1>5. TypeOK'
  BY <1>1, <1>2, <1>4 DEF Inductive, TypeOK, Statuses
<1>6. StackShape' /\ WireShape'
  BY <1>1, <1>2, <1>3, <1>4 DEF Inductive, StackShape, WireShape, Closing
<1> QED
  BY <1>2, <1>5, <1>6 DEF Inductive

LEMMA LeaveStep == Inductive /\ LeaveOthers => Inductive'
<1> SUFFICES ASSUME Inductive, LeaveOthers PROVE Inductive'
  OBVIOUS
<1>1. /\ way \in {"out", "panic", "abort"} /\ depth \in 1..Len(Layers) /\ depth' = depth - 1
      /\ depth # 2 /\ (way = "panic" => depth # RecoverAt) /\ Len(Layers) \in Nat
      /\ UNCHANGED <<req, cors, ctx, work, faults>>
      /\ UNCHANGED <<way, todo, answer, allow, stored, status, documents, recorded, lines>>
  BY LayersShape DEF LeaveOthers, Unwinding, Inductive, TypeOK, work, response, RecoverAt
<1>2. PlanShape' /\ AnswerShape' /\ Layers' = Layers /\ RecoverAt' = RecoverAt
  BY <1>1, StackFrame
<1>3. TypeOK'
  BY <1>1, <1>2 DEF Inductive, TypeOK
<1>4. StackShape' /\ WireShape'
  BY <1>1, <1>2 DEF Inductive, StackShape, WireShape, Preflight, Closing, RecoverAt
<1> QED
  BY <1>2, <1>3, <1>4 DEF Inductive

LEMMA EndStep == Inductive /\ End => Inductive'
<1> SUFFICES ASSUME Inductive, End PROVE Inductive'
  OBVIOUS
<1>1. /\ way \in {"out", "panic", "abort"} /\ depth = 0
      /\ way' = (IF way = "out" THEN "done" ELSE "cut")
      /\ UNCHANGED <<req, cors, ctx, work, faults>>
      /\ UNCHANGED <<depth, todo, answer, allow, stored, documents, recorded, lines>>
  BY DEF End, work
<1>2. PlanShape' /\ AnswerShape' /\ Layers' = Layers
  BY <1>1, StackFrame
<1>3. way = "out" => status # 0
  BY <1>1 DEF Inductive, WireShape, AnswerShape, Statuses
<1>4. status' = status
  BY <1>3 DEF End
<1>5. TypeOK'
  BY <1>1, <1>2, <1>4 DEF Inductive, TypeOK
<1>6. StackShape' /\ WireShape'
  BY <1>1, <1>2, <1>4 DEF Inductive, StackShape, WireShape, Preflight, Closing
<1> QED
  BY <1>2, <1>5, <1>6 DEF Inductive

(* The deadline passes, or the client leaves.                                 *)
LEMMA ContextStep == Inductive /\ (Expire \/ ClientLeaves) => Inductive'
<1> SUFFICES ASSUME Inductive, Expire \/ ClientLeaves PROVE Inductive'
  OBVIOUS
<1>1. /\ ctx = "live" /\ ctx' \in {"expired", "gone"}
      /\ UNCHANGED <<req, cors, depth, way, todo, answer, allow, stored, status, documents,
                     recorded, lines, faults>>
  BY DEF Expire, ClientLeaves, place, work, response
<1>2. /\ Closing' = Closing /\ Pending' = Pending /\ Layers' = Layers /\ RecoverAt' = RecoverAt
      /\ SkuVerdict' = SkuVerdict /\ FieldsVerdict' = FieldsVerdict /\ ListVerdict' = ListVerdict
  BY <1>1 DEF Closing, Pending, Layers, RecoverAt, SkuVerdict, FieldsVerdict, ListVerdict
<1>3. TypeOK'
  BY <1>1, <1>2 DEF Inductive, TypeOK
<1>4. StackShape' /\ PlanShape'
  BY <1>1, <1>2 DEF Inductive, StackShape, PlanShape
<1>5. AnswerShape'
  BY <1>1, <1>2 DEF Inductive, AnswerShape
<1>6. WireShape'
  BY <1>1, <1>2 DEF Inductive, WireShape, Preflight
<1> QED
  BY <1>3, <1>4, <1>5, <1>6 DEF Inductive

LEMMA InductiveStep == Inductive /\ [Next]_vars => Inductive'
<1> SUFFICES ASSUME Inductive, [Next]_vars PROVE Inductive'
  OBVIOUS
<1>1. CASE UNCHANGED vars
  <2>1. /\ UNCHANGED <<req, cors, depth, way, ctx, todo, answer, allow, stored, status, documents,
                       recorded, lines, faults>>
        /\ UNCHANGED <<req, cors, ctx, work, faults>>
    BY <1>1 DEF vars, work
  <2>2. PlanShape' /\ AnswerShape' /\ Layers' = Layers /\ RecoverAt' = RecoverAt /\ Closing' = Closing
    BY <2>1, StackFrame
  <2>3. TypeOK' /\ StackShape'
    BY <2>1, <2>2 DEF Inductive, TypeOK, StackShape
  <2>4. WireShape'
    BY <2>1, <2>2 DEF Inductive, WireShape, Preflight
  <2> QED
    BY <2>2, <2>3, <2>4 DEF Inductive
<1> QED
  BY <1>1, RouteStep, InspectStep, CallStep, CallFailsStep, HeaderStep, BodyStep, LeavingStep,
     EnterStep, PreflightStep, LogLineStep, RecoverStep, LeaveStep, EndStep, ContextStep
     DEF Next, Handler, Stack, Finished

-------------------------------------------------------------------------------
(* The invariant behind the theorems: where the request is, what its handler  *)
(* has yet to do, on whom its answer is to blame and what the client got.     *)
THEOREM Invariance == Spec => []Inductive
BY InductiveInit, InductiveStep, PTL DEF Spec

(* Every variable has its type, for any set of requests.                      *)
THEOREM TypeCorrectness == Spec => []TypeOK
<1>1. Inductive => TypeOK
  BY DEF Inductive
<1> QED
  BY <1>1, Invariance, PTL

(* middleware.go:150: the access log has one line for each request, with the  *)
(* status that the client got.                                                *)
THEOREM LogTellsTheWire == Spec => []LineMatchesWire
<1>1. Inductive => LineMatchesWire
  <2> SUFFICES ASSUME Inductive PROVE LineMatchesWire
    OBVIOUS
  <2>1. way \in {"done", "cut"} => lines = <<IF recorded = 0 THEN 200 ELSE recorded>>
    BY DEF Inductive, StackShape
  <2>2. ASSUME way = "done"
        PROVE  lines = <<status>> \/ ("bug" \in faults /\ status = answer /\ lines = <<500>>)
    <3>1. recorded # 0
      BY <2>2 DEF Inductive, WireShape, AnswerShape, Statuses
    <3> QED
      BY <2>1, <2>2, <3>1 DEF Inductive, WireShape
  <2>3. way = "cut" => recorded = status
    BY DEF Inductive, WireShape
  <2> QED
    BY <2>1, <2>2, <2>3 DEF LineMatchesWire
<1> QED
  BY <1>1, Invariance, PTL

(* errors.go:79, router.go:114: 4xx blames the caller, 5xx the server, 404    *)
(* and 405 the path and the method, for any set of requests.                  *)
THEOREM BlameFallsRight == Spec => []BlameIsRight
<1>1. Inductive => BlameIsRight
  <2> SUFFICES ASSUME Inductive, way = "done" PROVE BlameIsRight
    BY DEF BlameIsRight
  <2>1. \/ status = answer /\ todo \in Closing
        \/ status = 204 /\ cors /\ Preflight
        \/ status = 500 /\ "bug" \in faults
    BY DEF Inductive, WireShape
  <2>2. CASE status = answer /\ todo \in Closing
    BY <2>2 DEF BlameIsRight, Inductive, AnswerShape, Statuses
  <2>3. CASE status = 204 /\ cors /\ Preflight
    BY <2>3 DEF BlameIsRight
  <2>4. CASE status = 500 /\ "bug" \in faults
    BY <2>4 DEF BlameIsRight
  <2> QED
    BY <2>1, <2>2, <2>3, <2>4
<1> QED
  BY <1>1, Invariance, PTL

(* handlers.go:196: a 200 confirms that a sale is stored and a refusal that   *)
(* it is not.                                                                 *)
THEOREM AnswerTellsStore == Spec => []AckIffStored
<1>1. Inductive => AckIffStored
  <2> SUFFICES ASSUME Inductive, way = "done", req.path = "sales", req.method = "POST"
               PROVE  (status = 200 => stored) /\ (status \in 400..498 => ~stored)
    BY DEF AckIffStored
  <2>1. \/ status = answer /\ todo \in Closing
        \/ status \in {204, 500}
    BY DEF Inductive, WireShape
  <2> QED
    BY <2>1 DEF Inductive, AnswerShape
<1> QED
  BY <1>1, Invariance, PTL

(* errors.go:13: an answer is never two documents, and none only where there  *)
(* is nothing to send or nobody to send it to.                                *)
THEOREM NeverTwoDocuments == Spec => []OneDocument
<1>1. Inductive => OneDocument
  BY DEF Inductive, WireShape, OneDocument
<1> QED
  BY <1>1, Invariance, PTL
================================================================================
