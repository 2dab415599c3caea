---------------------------- MODULE RestResolver ----------------------------
(***************************************************************************)
(* ApiGatewayResolver: matching, the chain of middlewares around a route,  *)
(* exception handlers, not found and pre-flight, and the ResponseBuilder.  *)
(*                                                                         *)
(* A body is the content that the user gave and the encodings that were    *)
(* put around it, the last one outermost.                                  *)
(***************************************************************************)
EXTENDS Resolver

CONSTANTS
  Routes,          \* Routes[r]: cors and compress of route r, its own middlewares
  Globals,         \* number of middlewares added with app.use
  CorsEnabled,     \* the resolver was given a CORSConfig
  AllowedOrigins,  \* CORSConfig._allowed_origins
  Requests,        \* path, method, origin and whether gzip is accepted
  Bodies,          \* what user code puts in a Response: form, content type, compress
  StatusOf         \* StatusOf[e]: status of the errors that the resolver answers itself

NoRoute == [cors |-> CorsEnabled, compress |-> FALSE, own |-> 0]
NoOrigin == "no origin"
Forms == {"object", "str", "bytes"}

ASSUME RoutesAssumption == \A r \in DOMAIN Routes : /\ Routes[r].cors \in BOOLEAN
                                                     /\ Routes[r].compress \in BOOLEAN
                                                     /\ Routes[r].own \in Nat
ASSUME GlobalsAssumption == Globals \in Nat
ASSUME BodiesAssumption == \A b \in Bodies : b.form \in Forms /\ b.json \in BOOLEAN
                                        /\ b.compress \in {"unset", "yes", "no"}
ASSUME RequestsAssumption == \A r \in Requests : r.events = 0
IsServiceError(e) == \E i \in DOMAIN Mro[e] : Mro[e][i] = "ServiceError"
ASSUME StatusAssumption ==
  /\ DOMAIN StatusOf \subseteq Classes
  /\ \A e \in Classes : IsServiceError(e) => e \in DOMAIN StatusOf

VARIABLES
  depth,    \* middleware frames on the Python call stack
  result,   \* the Response or exception on its way up
  kept      \* a Response the module keeps and returns again and again

rest_vars == <<depth, result, kept>>

Response(status, body) ==
  [status |-> status, form |-> body.form, json |-> body.json,
   compress |-> body.compress, layers |-> <<>>, base64 |-> FALSE, gzip |-> FALSE, origin |-> NoOrigin, reused |-> FALSE, squeezed |-> 0]

JsonBody == [form |-> "object", json |-> TRUE, compress |-> "unset"]
TextBody == [form |-> "str", json |-> FALSE, compress |-> "unset"]
NoResult == [op |-> "none"]
Kept == [Response(200, JsonBody) EXCEPT !.reused = TRUE]

RestInit ==
  /\ depth = 0
  /\ result = NoResult
  /\ kept = Kept

\* Responses of user code: fresh ones and the one that is kept.
UserResponses == {Response(200, b) : b \in Bodies} \cup {kept}

Returned(response) == [op |-> "response", response |-> response]
Failing(e) == [op |-> "failure", error |-> e]

Matched == request.route \in DOMAIN Routes
TheRoute == IF Matched THEN Routes[request.route] ELSE NoRoute
\* Router middlewares, the route's own and the adapter around the function.
Chain == Globals + TheRoute.own + 1

-----------------------------------------------------------------------------
\* resolve, _resolve and _call_route: the match enters the context.
Resolve(r) ==
  /\ app.kind = "rest"
  /\ Begins(r)
  /\ mode' = "down"
  /\ context' = [k \in DOMAIN context \cup {"_route"} |->
                   IF k = "_route" THEN inv + 1 ELSE context[k]]
  /\ depth' = 0
  /\ UNCHANGED <<result, kept>>

\* Every step inside the chain leaves the invocation running.
Moves(newMode, newDepth, newResult) ==
  /\ mode' = newMode
  /\ depth' = newDepth
  /\ result' = newResult
  /\ UNCHANGED <<app, inv, context, fate, request, answer, kept>>

\* A frame calls the next one.
MiddlewareFrame ==
  /\ mode = "down"
  /\ depth < Chain
  /\ Moves("down", depth + 1, NoResult)

\* A middleware returns without calling the next.
ShortCircuit(response) ==
  /\ mode = "down"
  /\ depth \in 1 .. Chain - 1
  /\ Moves("up", depth - 1, Returned(response))

\* The adapter calls the function of the route.
RegisteredApiAdapter(response) ==
  /\ mode = "down"
  /\ depth = Chain
  /\ Matched
  /\ Moves("up", depth - 1, Returned(response))

\* The not_found_handler in place of the function.  A handler for NotFoundError,
\* or for a base class of it, is called with the error.
NotFoundHandler ==
  /\ mode = "down"
  /\ depth = Chain
  /\ ~Matched
  /\ \/ /\ CorsEnabled /\ request.method = "OPTIONS"
        /\ Moves("up", depth - 1, Returned(Response(204, TextBody)))
     \/ /\ ~(CorsEnabled /\ request.method = "OPTIONS")
        /\ Handled("NotFoundError")
        /\ \/ \E response \in UserResponses : Moves("up", depth - 1, Returned(response))
           \/ \E e \in Classes : Moves("failing", depth - 1, Failing(e))
     \/ /\ ~(CorsEnabled /\ request.method = "OPTIONS")
        /\ ~Handled("NotFoundError")
        /\ Moves("up", depth - 1, Returned(Response(404, JsonBody)))

\* User code raises: a middleware before or after the call of the next, or the
\* function of the route.
Raise(e) ==
  /\ mode \in {"down", "up"}
  /\ depth > 0
  /\ mode = "down" /\ depth = Chain => Matched
  /\ Moves("failing", depth - 1, Failing(e))

\* A middleware passes on what the next returned or raised.
PassOn ==
  /\ mode \in {"up", "failing"}
  /\ depth > 0
  /\ Moves(mode, depth - 1, result)

\* A middleware answers for an exception of the next.
Catch(response) ==
  /\ mode = "failing"
  /\ depth > 0
  /\ Moves("up", depth - 1, Returned(response))

-----------------------------------------------------------------------------
(* ResponseBuilder *)

AllowedOrigin(origin) ==
  IF origin \in AllowedOrigins THEN origin
  ELSE IF origin # NoOrigin /\ "*" \in AllowedOrigins THEN "*"
  ELSE NoOrigin

Serialized(r) ==
  IF r.json /\ r.form # "str"
  THEN [r EXCEPT !.form = "str", !.layers = Append(@, "json")]
  ELSE r

WithCors(r) ==
  IF TheRoute.cors /\ AllowedOrigin(request.origin) # NoOrigin
  THEN [r EXCEPT !.origin = AllowedOrigin(request.origin)]
  ELSE r

\* compress of the Response goes before that of the route.
Compresses(r) ==
  request.gzip /\ (r.compress = "yes" \/ (r.compress = "unset" /\ TheRoute.compress))

Compressed(r) ==
  IF Compresses(r)
  THEN [r EXCEPT !.form = "bytes", !.layers = Append(@, "gzip"), !.gzip = TRUE,
                 !.squeezed = @ + 1]
  ELSE r

\* Mutant: bytes are not marked as base64 when they were compressed.
EncodedUnmarked(r) ==
  IF r.form = "bytes"
  THEN [r EXCEPT !.form = "str", !.layers = Append(@, "base64"), !.base64 = @ \/ ~r.gzip]
  ELSE r

Encoded(r) ==
  IF r.form = "bytes"
  THEN [r EXCEPT !.form = "str", !.layers = Append(@, "base64"), !.base64 = TRUE]
  ELSE r

Build(r) == Encoded(Compressed(WithCors(Serialized(r))))

\* The serializer cannot take bytes, nor the compressor an object.
Unbuildable(r) ==
  \/ r.json /\ r.form = "bytes"
  \/ r.form = "object" /\ ~r.json /\ Compresses(r)

\* resolve builds what _call_route returned, then clears the context.
Respond(r) ==
  /\ depth' = 0
  /\ result' = NoResult
  /\ IF Unbuildable(r)
     THEN EndsKeeping("raised", Raised("TypeError")) /\ UNCHANGED kept
     ELSE /\ EndsCleared("returned", [op |-> "rest", response |-> Build(r)])
          /\ kept' = IF r.reused THEN Build(r) ELSE kept

\* _call_route returned a response.
RespondResult ==
  /\ mode = "up"
  /\ depth = 0
  /\ Respond(result.response)

Propagate(e) ==
  /\ depth' = 0
  /\ result' = NoResult
  /\ EndsKeeping("raised", Raised(e))
  /\ UNCHANGED kept

\* What the resolver makes of an exception without the user's handlers.
Default(e, original) ==
  IF e \in DOMAIN StatusOf THEN Respond(Response(StatusOf[e], JsonBody))
  ELSE IF app.debug THEN Respond(Response(500, TextBody))
  ELSE Propagate(original)

\* The nearest handler answers, or raises: a ServiceError takes the place of the
\* exception, any other leaves resolve.
CallExceptionHandler ==
  LET e == result.error IN
  /\ mode = "failing"
  /\ depth = 0
  /\ \/ /\ Handled(e)
        /\ \/ \E response \in UserResponses : Respond(response)
           \/ \E f \in Classes : IsServiceError(f) /\ Default(f, e)
           \/ \E f \in Classes : ~IsServiceError(f) /\ Propagate(f)
     \/ ~Handled(e) /\ Default(e, e)

RestNext ==
  \/ \E r \in Requests : Resolve(r)
  \/ MiddlewareFrame
  \/ \E response \in UserResponses :
       ShortCircuit(response) \/ RegisteredApiAdapter(response) \/ Catch(response)
  \/ NotFoundHandler
  \/ \E e \in Classes : Raise(e)
  \/ PassOn
  \/ RespondResult
  \/ CallExceptionHandler
  \/ mode \in {"down", "up"} /\ depth > 0 /\ AppendContext /\ UNCHANGED rest_vars

-----------------------------------------------------------------------------
(* What a client makes of the answer: it takes off base64 if the answer says *)
(* so (the gateway does) and gzip if the header says so, and is left with the*)
(* content or its JSON.                                                      *)
Readable(r) ==
  r.layers \in {content \o (IF r.gzip THEN <<"gzip">> ELSE <<>>)
                  \o (IF r.base64 THEN <<"base64">> ELSE <<>>) :
                content \in {<<>>, <<"json">>}}

\* Only what the client asked for: gzip if it takes it, the origin it is from.
Asked(r) ==
  /\ r.gzip => request.gzip
  /\ r.origin \in {NoOrigin, AllowedOrigin(request.origin)}

(* Whatever the path of a request, through middlewares that answer early,    *)
(* raise or catch, exception handlers that raise themselves, a missing route *)
(* or a pre-flight: the client can read the answer and gets what it asked    *)
(* for, and no ServiceError escapes to Lambda.  A Response object that is    *)
(* returned again keeps the encodings and headers of its first use, and is   *)
(* excluded to that extent.                                                  *)
ClientServed ==
  /\ answer.op = "rest" =>
       /\ answer.response.squeezed <= 1 => Readable(answer.response)
       /\ ~answer.response.reused => Asked(answer.response)
  /\ answer.op = "raised" /\ app.kind = "rest" /\ answer.error # "TypeError" =>
       ~IsServiceError(answer.error)
=============================================================================
