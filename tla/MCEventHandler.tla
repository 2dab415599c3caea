--------------------------- MODULE MCEventHandler ---------------------------
(* An instance of EventHandler for TLC. *)
EXTENDS EventHandler

MCMro == [NotFoundError |-> <<"NotFoundError", "ServiceError", "Exception">>,
          ServiceError |-> <<"ServiceError", "Exception">>,
          RequestValidationError |-> <<"RequestValidationError", "Exception">>,
          LookupError |-> <<"LookupError", "Exception">>,
          UnauthorizedException |-> <<"UnauthorizedException", "Exception">>,
          InvalidBatchResponse |-> <<"InvalidBatchResponse", "Exception">>]
MCStatusOf == [NotFoundError |-> 404, ServiceError |-> 400, RequestValidationError |-> 422]
App(kind, debug, handlers) == [kind |-> kind, debug |-> debug, handlers |-> handlers]
MCApps == {App("rest", FALSE, {}), App("rest", TRUE, {"LookupError"}),
           App("rest", FALSE, {"ServiceError"}), App("rest", FALSE, {"Exception"}),
           App("graphql", FALSE, {"LookupError"}), App("graphql", FALSE, {}),
           App("events", FALSE, {}), App("bedrock", FALSE, {})}
Route(cors, compress, own) == [cors |-> cors, compress |-> compress, own |-> own]
MCRoutes == [open |-> Route(TRUE, TRUE, 0), plain |-> Route(FALSE, FALSE, 1)]
Request(route, method, origin, gzip) ==
  [op |-> "request", route |-> route, method |-> method, origin |-> origin, gzip |-> gzip, events |-> 0]
MCRequests == {Request("open", "GET", "a.example", TRUE),
               Request("open", "GET", NoOrigin, FALSE),
               Request("plain", "GET", "b.example", TRUE),
               Request("unknown", "OPTIONS", "b.example", TRUE),
               Request("unknown", "GET", "a.example", FALSE)}
Body(form, json, compress) == [form |-> form, json |-> json, compress |-> compress]
MCBodies == {JsonBody, Body("bytes", FALSE, "unset"), Body("bytes", TRUE, "unset"),
             Body("str", FALSE, "yes"), Body("object", FALSE, "unset")}
ACall(kind, op, aggregate, async, strict, events) ==
  [kind |-> kind, op |-> op, aggregate |-> aggregate, async |-> async, strict |-> strict,
   events |-> events]
MCCalls ==
  {ACall("graphql", op, FALSE, FALSE, FALSE, 0) : op \in {"single", "coroutine", "unknown"}}
  \cup {ACall("graphql", "batch", agg, asy, strict, 3) : agg, asy, strict \in BOOLEAN}
  \cup {ACall("events", op, FALSE, FALSE, FALSE, 0) : op \in {"subscribe", "unknown"}}
  \cup {ACall("events", "publish", agg, asy, FALSE, 3) : agg, asy \in BOOLEAN}
  \cup {ACall("bedrock", op, FALSE, FALSE, FALSE, 0) : op \in {"tool", "unknown"}}
=============================================================================
