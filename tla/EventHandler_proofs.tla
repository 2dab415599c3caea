------------------------- MODULE EventHandler_proofs -------------------------
(***************************************************************************)
(* Proofs about module EventHandler, for any resolvers, routes, classes of *)
(* exceptions, calls and numbers of invocations.                           *)
(***************************************************************************)
EXTENDS EventHandler, FiniteSetTheorems, SequenceTheorems, TLAPS

-----------------------------------------------------------------------------
(* The context is isolated *)

\* Which resolver an invocation is in, and what it was called with.
InvocationOK ==
  /\ inv \in Nat
  /\ mode \in {"idle", "down", "up", "failing", "calling"}
  /\ mode # "idle" => inv \in Invocations
  /\ mode \in {"down", "up", "failing"} => app.kind = "rest"
  /\ mode = "calling" => request \in Calls /\ app.kind = request.kind
  /\ fate \in [Invocations -> Fates]

ContextOK == \A k \in DOMAIN context : context[k] \in 0 .. inv

IInv == InvocationOK /\ ContextOK /\ ContextIsolated

\* A step inside an invocation that appends nothing.
LEMMA InsideKeeps ==
  ASSUME IInv, UNCHANGED <<app, inv, context, fate, request>>, mode # "idle",
         (mode' \in {"down", "up", "failing"} /\ app.kind = "rest") \/ mode' = mode
  PROVE  IInv'
PROOF
  BY DEF IInv, InvocationOK, ContextOK, ContextIsolated, Over, Invocations

LEMMA AppendKeeps ==
  ASSUME IInv, AppendContext, mode # "idle"
  PROVE  IInv'
PROOF
<1>1. InvocationOK'
  BY DEF IInv, InvocationOK, AppendContext
<1>2. \A k \in DOMAIN context' :
         context'[k] = inv \/ (k \in DOMAIN context /\ context'[k] = context[k])
  BY DEF AppendContext
<1>3. ContextOK'
  BY <1>2 DEF IInv, InvocationOK, ContextOK, AppendContext
<1>4. ContextIsolated'
  BY <1>2 DEF IInv, InvocationOK, ContextIsolated, Over, AppendContext, Invocations
<1>5. QED
  BY <1>1, <1>3, <1>4 DEF IInv

\* An invocation begins, and may put its own keys into the context.
LEMMA BeginsKeeps ==
  ASSUME IInv, NEW r, Begins(r), mode' \in {"down", "calling"},
         mode' = "down" => app.kind = "rest",
         mode' = "calling" => r \in Calls /\ app.kind = r.kind,
         \A k \in DOMAIN context' :
           context'[k] = inv + 1 \/ (k \in DOMAIN context /\ context'[k] = context[k])
  PROVE  IInv'
PROOF
<1>1. /\ inv' = inv + 1 /\ inv \in Nat /\ mode = "idle"
      /\ inv' \in Invocations
      /\ UNCHANGED <<app, fate>>
  BY InvocationsAssumption DEF IInv, InvocationOK, Begins, Invocations
<1>2. InvocationOK'
  BY <1>1 DEF IInv, InvocationOK, Begins
<1>3. ContextOK'
  BY <1>1 DEF IInv, ContextOK
<1>4. ContextIsolated'
  <2>1. SUFFICES ASSUME NEW k \in DOMAIN context', NEW i \in Invocations,
                        context'[k] <= i, Over(i)'
                 PROVE  fate[i] \in Keeps[app.kind]
    BY <1>1 DEF ContextIsolated
  <2>2. i <= inv /\ i \in Nat
    BY <1>1, <2>1 DEF Over, Invocations
  <2>3. k \in DOMAIN context /\ context[k] <= i
    BY <1>1, <2>1, <2>2
  <2>4. Over(i)
    BY <1>1, <2>2 DEF Over
  <2>5. QED
    BY <2>3, <2>4 DEF IInv, ContextIsolated
<1>5. QED
  BY <1>2, <1>3, <1>4 DEF IInv

\* It ends: with an empty context, or as a way to end that keeps it.
LEMMA EndsClearedKeeps ==
  ASSUME IInv, NEW how \in Fates, NEW result_, EndsCleared(how, result_), mode # "idle"
  PROVE  IInv'
PROOF
  BY DEF IInv, InvocationOK, ContextOK, ContextIsolated, EndsCleared, Ends, ClearContext, Fates

LEMMA EndsKeepingKeeps ==
  ASSUME IInv, NEW how \in Fates, NEW result_, EndsKeeping(how, result_), mode # "idle",
         how \in Keeps[app.kind]
  PROVE  IInv'
PROOF
<1>1. /\ inv' = inv /\ context' = context /\ app' = app /\ mode' = "idle" /\ request' = request
      /\ fate' = [fate EXCEPT ![inv] = how]
      /\ inv \in Invocations /\ inv \in Nat
      /\ fate \in [Invocations -> Fates]
  BY DEF IInv, InvocationOK, EndsKeeping, Ends
<1>2. InvocationOK'
  BY <1>1 DEF InvocationOK
<1>3. ContextOK'
  BY <1>1 DEF IInv, ContextOK
<1>4. ContextIsolated'
  <2>1. SUFFICES ASSUME NEW k \in DOMAIN context, NEW i \in Invocations,
                        context[k] <= i, Over(i)'
                 PROVE  fate'[i] \in Keeps[app.kind]
    BY <1>1 DEF ContextIsolated
  <2>2. CASE i = inv
    BY <1>1, <2>2
  <2>3. CASE i # inv
    BY <1>1, <2>1, <2>3 DEF IInv, ContextIsolated, Over
  <2>4. QED
    BY <2>2, <2>3
<1>5. QED
  BY <1>2, <1>3, <1>4 DEF IInv

-----------------------------------------------------------------------------
(* Steps of the REST resolver *)

LEMMA RespondKeeps ==
  ASSUME IInv, NEW r, Respond(r), mode # "idle", app.kind = "rest"
  PROVE  IInv'
PROOF
<1>1. CASE EndsKeeping("raised", Raised("TypeError"))
  BY <1>1, EndsKeepingKeeps DEF Keeps, Fates
<1>2. CASE EndsCleared("returned", [op |-> "rest", response |-> Build(r)])
  BY <1>2, EndsClearedKeeps DEF Fates
<1>3. QED
  BY <1>1, <1>2 DEF Respond

LEMMA PropagateKeeps ==
  ASSUME IInv, NEW e, Propagate(e), mode # "idle", app.kind = "rest"
  PROVE  IInv'
PROOF
  BY EndsKeepingKeeps DEF Propagate, Keeps, Fates

LEMMA DefaultKeeps ==
  ASSUME IInv, NEW e, NEW original, Default(e, original), mode # "idle", app.kind = "rest"
  PROVE  IInv'
PROOF
  BY RespondKeeps, PropagateKeeps DEF Default

LEMMA ResolveKeeps ==
  ASSUME IInv, NEW r, Resolve(r)
  PROVE  IInv'
PROOF
<1>1. \A k \in DOMAIN context' :
        context'[k] = inv + 1 \/ (k \in DOMAIN context /\ context'[k] = context[k])
  BY DEF Resolve
<1>2. QED
  BY <1>1, BeginsKeeps DEF Resolve

\* Every step inside the chain is a move.
LEMMA MovesKeeps ==
  ASSUME IInv, NEW m \in {"down", "up", "failing"}, NEW d, NEW r, Moves(m, d, r),
         mode \in {"down", "up", "failing"}
  PROVE  IInv'
PROOF
<1>1. app.kind = "rest"
  BY DEF IInv, InvocationOK
<1>2. QED
  BY <1>1, InsideKeeps DEF Moves

LEMMA RestKeeps ==
  ASSUME IInv, RestNext
  PROVE  IInv'
PROOF
<1>1. mode \in {"down", "up", "failing"} => app.kind = "rest"
  BY DEF IInv, InvocationOK
<1>2. ASSUME NEW r \in Requests, Resolve(r) PROVE IInv'
  BY <1>2, ResolveKeeps
<1>3. CASE MiddlewareFrame
  BY <1>3, MovesKeeps DEF MiddlewareFrame
<1>4. ASSUME NEW r, ShortCircuit(r) \/ RegisteredApiAdapter(r) \/ Catch(r) PROVE IInv'
  BY <1>4, MovesKeeps DEF ShortCircuit, RegisteredApiAdapter, Catch
<1>5. CASE NotFoundHandler
  BY <1>5, MovesKeeps DEF NotFoundHandler
<1>6. ASSUME NEW e, Raise(e) PROVE IInv'
  BY <1>6, MovesKeeps DEF Raise
<1>7. CASE PassOn
  BY <1>7, MovesKeeps DEF PassOn
<1>8. CASE RespondResult
  BY <1>1, <1>8, RespondKeeps DEF RespondResult
<1>9. CASE CallExceptionHandler
  BY <1>1, <1>9, RespondKeeps, PropagateKeeps, DefaultKeeps DEF CallExceptionHandler
<1>10. CASE mode \in {"down", "up"} /\ AppendContext
  BY <1>10, AppendKeeps
<1>11. QED
  BY <1>2, <1>3, <1>4, <1>5, <1>6, <1>7, <1>8, <1>9, <1>10 DEF RestNext

-----------------------------------------------------------------------------
(* Steps of the AppSync and Bedrock resolvers *)

LEMMA FailureKeeps ==
  ASSUME IInv, NEW e, Failure(e), mode = "calling"
  PROVE  IInv'
PROOF
<1>1. CASE app.kind = "graphql"
  BY <1>1, EndsKeepingKeeps DEF Failure, Keeps, Fates
<1>2. CASE app.kind = "events"
  BY <1>2, EndsKeepingKeeps, EndsClearedKeeps DEF Failure, Keeps, Fates
<1>3. CASE app.kind = "bedrock"
  BY <1>3, EndsKeepingKeeps DEF Failure, Keeps, Fates
<1>4. QED
  BY <1>1, <1>2, <1>3 DEF Failure

\* The ways in which a call ends that is answered as a whole.
NoItems(r) == r.op \in {"as is", "whole", "dropped", "error"}
EndsWhole == Finishes /\ \E r : NoItems(r) /\ EndsCleared("returned", r)
EndsCoroutine == /\ request.op = "coroutine" /\ Finishes
                 /\ EndsKeeping("coroutine", [op |-> "coroutine"])

LEMMA WaysToEnd ==
  ASSUME NotRegistered \/ Whole
  PROVE  /\ mode = "calling"
         /\ (\E e : Failure(e)) \/ EndsWhole \/ EndsCoroutine \/ MissingField
PROOF
<1>1. /\ NoItems([op |-> "as is"]) /\ NoItems([op |-> "whole"]) /\ NoItems([op |-> "dropped"])
      /\ NoItems([op |-> "error", error |-> "TypeError"])
  BY DEF NoItems
<1>2. CASE NotRegistered
  BY <1>1, <1>2 DEF NotRegistered, EndsWhole
<1>3. CASE Whole
  BY <1>1, <1>3 DEF Whole, SingleResolver, AggregateBatch, AggregatePublish, SubscribeEvents,
                    Tool, Answers, Fails, EndsWhole, EndsCoroutine
<1>4. QED
  BY <1>2, <1>3

LEMMA WholeKeeps ==
  ASSUME IInv, NotRegistered \/ Whole
  PROVE  IInv'
PROOF
<1>1. mode = "calling" /\ (request.op = "coroutine" => app.kind = "graphql")
  BY WaysToEnd, CallsAssumption DEF IInv, InvocationOK
<1>2. CASE EndsCoroutine
  BY <1>1, <1>2, EndsKeepingKeeps DEF EndsCoroutine, Keeps, Fates
<1>3. CASE EndsWhole
  BY <1>1, <1>3, EndsClearedKeeps DEF EndsWhole, Fates
<1>4. CASE \E e : Failure(e)
  BY <1>1, <1>4, FailureKeeps
<1>5. CASE MissingField
  BY <1>1, <1>5, EndsKeepingKeeps DEF MissingField, Keeps, Fates
<1>6. QED
  BY <1>2, <1>3, <1>4, <1>5, WaysToEnd

LEMMA CallingKeeps ==
  ASSUME IInv, UNCHANGED shared_vars
  PROVE  IInv'
PROOF
  BY DEF shared_vars, IInv, InvocationOK, ContextOK, ContextIsolated, Over

LEMMA AppSyncKeeps ==
  ASSUME IInv, AppSyncNext
  PROVE  IInv'
PROOF
<1>1. ASSUME NEW c \in Calls, Call(c) PROVE IInv'
  BY <1>1, BeginsKeeps DEF Call
<1>2. CASE NotRegistered
  BY <1>2, WholeKeeps
<1>3. CASE Whole
  BY <1>3, WholeKeeps
<1>4. CASE Start
  BY <1>4, CallingKeeps DEF Start
<1>5. ASSUME NEW i, NEW what, EventEnds(i, what) PROVE IInv'
  BY <1>5, FailureKeeps, CallingKeeps DEF EventEnds, BatchEventEnds, PublishEventEnds, Recorded
<1>6. CASE Collect
  BY <1>6, EndsClearedKeeps DEF Collect, Fates
<1>7. CASE mode = "calling" /\ AppendContext
  BY <1>7, AppendKeeps
<1>8. QED
  BY <1>1, <1>2, <1>3, <1>4, <1>5, <1>6, <1>7 DEF AppSyncNext

(* What an invocation finds in the resolver's context is its own, or was left *)
(* by invocations of which every one since ended in a way that skips          *)
(* clear_context (BaseRouter.append_context, resolve).                        *)
THEOREM ContextsIsolated == Spec => []ContextIsolated
PROOF
<1>1. Init => IInv
  BY DEF Init, ResolverInit, IInv, InvocationOK, ContextOK, ContextIsolated, Over, Invocations,
         Fates
<1>2. IInv /\ [Next]_vars => IInv'
  BY RestKeeps, AppSyncKeeps, CallingKeeps DEF Next, vars
<1>3. IInv => ContextIsolated
  BY DEF IInv
<1>4. QED
  BY <1>1, <1>2, <1>3, PTL DEF Spec

-----------------------------------------------------------------------------
(* The client is served *)

\* r has the fields of a Response.
IsResponse(r) ==
  /\ r = [status |-> r.status, form |-> r.form, json |-> r.json, compress |-> r.compress,
          layers |-> r.layers, base64 |-> r.base64, gzip |-> r.gzip, origin |-> r.origin,
          reused |-> r.reused, squeezed |-> r.squeezed]
  /\ r.form \in Forms

\* As user code or the resolver has just made it.
IsFresh(r) ==
  /\ IsResponse(r)
  /\ r.layers = <<>> /\ r.base64 = FALSE /\ r.gzip = FALSE
  /\ r.origin = NoOrigin /\ r.reused = FALSE /\ r.squeezed = 0

\* The one that is kept: as it was made, serialised, or compressed once or more.
IsKept(r) ==
  /\ IsResponse(r)
  /\ r.reused = TRUE /\ r.json = TRUE
  /\ r.squeezed \in Nat
  /\ r.form = "object" => r.squeezed = 0 /\ r.layers = <<>>
  /\ r.form # "object" => r.form = "str"
  /\ r.form # "object" /\ r.squeezed = 0 => r.layers = <<"json">>
  /\ r.squeezed = 0 => r.base64 = FALSE /\ r.gzip = FALSE
  /\ r.squeezed = 1 => /\ r.layers = <<"json", "gzip", "base64">>
                       /\ r.base64 = TRUE /\ r.gzip = TRUE

\* Short sequences, written out.
LEMMA Grown ==
  ASSUME NEW S, NEW a \in S, NEW b \in S, NEW c \in S
  PROVE  /\ Append(<<>>, a) = <<a>>
         /\ Append(<<a>>, b) = <<a, b>>
         /\ Append(<<a, b>>, c) = <<a, b, c>>
PROOF
<1>1. Append(<<>>, a) = <<a>>
  OBVIOUS
<1>2. Append(<<a>>, b) = <<a, b>>
  <2>1. /\ <<a>> \in Seq(S) /\ Len(<<a>>) = 1
        /\ <<a, b>> \in Seq(S) /\ Len(<<a, b>>) = 2
    OBVIOUS
  <2>2. Append(<<a>>, b) \in Seq(S) /\ Len(Append(<<a>>, b)) = 2
    BY <2>1
  <2>3. ASSUME NEW i \in 1 .. 2 PROVE Append(<<a>>, b)[i] = <<a, b>>[i]
    <3>1. i \in {1, 2}
      OBVIOUS
    <3>2. QED
      BY <2>1, <3>1
  <2>4. QED
    BY <2>1, <2>2, <2>3, SeqEqual
<1>3. Append(<<a, b>>, c) = <<a, b, c>>
  <2>1. /\ <<a, b>> \in Seq(S) /\ Len(<<a, b>>) = 2
        /\ <<a, b, c>> \in Seq(S) /\ Len(<<a, b, c>>) = 3
    OBVIOUS
  <2>2. Append(<<a, b>>, c) \in Seq(S) /\ Len(Append(<<a, b>>, c)) = 3
    BY <2>1
  <2>3. ASSUME NEW i \in 1 .. 3 PROVE Append(<<a, b>>, c)[i] = <<a, b, c>>[i]
    <3>1. i \in {1, 2, 3}
      OBVIOUS
    <3>2. QED
      BY <2>1, <3>1
  <2>4. QED
    BY <2>1, <2>2, <2>3, SeqEqual
<1>4. QED
  BY <1>1, <1>2, <1>3

LEMMA Joined ==
  ASSUME NEW S, NEW a \in S, NEW b \in S, NEW c \in S
  PROVE  /\ <<>> \o <<>> \o <<>> = <<>>
         /\ <<>> \o <<>> \o <<c>> = <<c>>
         /\ <<>> \o <<b>> \o <<c>> = <<b, c>>
         /\ <<a>> \o <<>> \o <<>> = <<a>>
         /\ <<a>> \o <<>> \o <<c>> = <<a, c>>
         /\ <<a>> \o <<b>> \o <<c>> = <<a, b, c>>
PROOF
<1>1. <<>> \o <<>> = <<>> /\ <<>> \o <<b>> = <<b>> /\ <<>> \o <<c>> = <<c>> /\ <<a>> \o <<>> = <<a>>
  OBVIOUS
<1>2. ASSUME NEW x \in S, NEW y \in S PROVE <<x>> \o <<y>> = <<x, y>>
  <2>1. /\ <<x>> \in Seq(S) /\ Len(<<x>>) = 1
        /\ <<y>> \in Seq(S) /\ Len(<<y>>) = 1
        /\ <<x, y>> \in Seq(S) /\ Len(<<x, y>>) = 2
    OBVIOUS
  <2>2. <<x>> \o <<y>> \in Seq(S) /\ Len(<<x>> \o <<y>>) = 2
    BY <2>1
  <2>3. ASSUME NEW i \in 1 .. 2 PROVE (<<x>> \o <<y>>)[i] = <<x, y>>[i]
    <3>1. i \in {1, 2}
      OBVIOUS
    <3>2. QED
      BY <2>1, <3>1
  <2>4. QED
    BY <2>1, <2>2, <2>3, SeqEqual
<1>3. <<a, b>> \o <<c>> = <<a, b, c>>
  <2>1. /\ <<a, b>> \in Seq(S) /\ Len(<<a, b>>) = 2
        /\ <<c>> \in Seq(S) /\ Len(<<c>>) = 1
        /\ <<a, b, c>> \in Seq(S) /\ Len(<<a, b, c>>) = 3
    OBVIOUS
  <2>2. <<a, b>> \o <<c>> \in Seq(S) /\ Len(<<a, b>> \o <<c>>) = 3
    BY <2>1
  <2>3. ASSUME NEW i \in 1 .. 3 PROVE (<<a, b>> \o <<c>>)[i] = <<a, b, c>>[i]
    <3>1. i \in {1, 2, 3}
      OBVIOUS
    <3>2. QED
      BY <2>1, <3>1
  <2>4. QED
    BY <2>1, <2>2, <2>3, SeqEqual
<1>4. <<a>> \o <<b>> = <<a, b>> /\ <<b>> \o <<c>> = <<b, c>> /\ <<a>> \o <<c>> = <<a, c>>
  BY <1>2
<1>5. QED
  BY <1>1, <1>3, <1>4, Zenon

\* The steps of the ResponseBuilder, field by field.
LEMMA SerializedFields ==
  ASSUME NEW r, IsResponse(r), NEW s, s = Serialized(r)
  PROVE  /\ IsResponse(s)
         /\ s.json = r.json /\ s.compress = r.compress /\ s.base64 = r.base64
         /\ s.gzip = r.gzip /\ s.origin = r.origin /\ s.reused = r.reused
         /\ s.squeezed = r.squeezed
         /\ r.json /\ r.form # "str" => s.form = "str" /\ s.layers = Append(r.layers, "json")
         /\ ~(r.json /\ r.form # "str") => s = r
PROOF
  BY DEF IsResponse, Serialized, Forms

LEMMA CorsFields ==
  ASSUME NEW r, IsResponse(r), NEW s, s = WithCors(r)
  PROVE  /\ IsResponse(s)
         /\ s.form = r.form /\ s.layers = r.layers
         /\ s.json = r.json /\ s.compress = r.compress /\ s.base64 = r.base64
         /\ s.gzip = r.gzip /\ s.reused = r.reused /\ s.squeezed = r.squeezed
         /\ s.origin \in {r.origin, AllowedOrigin(request.origin)}
PROOF
  BY DEF IsResponse, WithCors

LEMMA CompressedFields ==
  ASSUME NEW r, IsResponse(r), NEW s, s = Compressed(r)
  PROVE  /\ IsResponse(s)
         /\ s.json = r.json /\ s.base64 = r.base64 /\ s.origin = r.origin
         /\ s.reused = r.reused
         /\ Compresses(r) => /\ s.form = "bytes" /\ s.gzip = TRUE
                             /\ s.layers = Append(r.layers, "gzip")
                             /\ s.squeezed = r.squeezed + 1
         /\ ~Compresses(r) => s = r
PROOF
  BY DEF IsResponse, Compressed, Forms

LEMMA EncodedFields ==
  ASSUME NEW r, IsResponse(r), NEW s, s = Encoded(r)
  PROVE  /\ IsResponse(s)
         /\ s.json = r.json /\ s.gzip = r.gzip /\ s.origin = r.origin
         /\ s.reused = r.reused /\ s.squeezed = r.squeezed
         /\ r.form = "bytes" => /\ s.form = "str" /\ s.base64 = TRUE
                                /\ s.layers = Append(r.layers, "base64")
         /\ r.form # "bytes" => s = r
PROOF
  BY DEF IsResponse, Encoded, Forms

\* What the first steps leave of the content.
Plain(r) == IF r.json /\ r.form # "str" THEN <<"json">> ELSE r.layers

BuiltFrom(b, r) ==
  /\ IsResponse(b)
  /\ b.reused = r.reused /\ b.json = r.json
  /\ b.origin \in {r.origin, AllowedOrigin(request.origin)}
  /\ b.squeezed = IF Compresses(r) THEN r.squeezed + 1 ELSE r.squeezed
  /\ b.gzip = Compresses(r)
  /\ r.json => b.form = "str"
  /\ \/ /\ ~Compresses(r) /\ r.form # "bytes"
        /\ b.layers = Plain(r) /\ b.base64 = FALSE
     \/ /\ ~Compresses(r) /\ r.form = "bytes"
        /\ b.layers = <<"base64">> /\ b.base64 = TRUE
     \/ /\ Compresses(r) /\ Plain(r) = <<>>
        /\ b.layers = <<"gzip", "base64">> /\ b.base64 = TRUE
     \/ /\ Compresses(r) /\ Plain(r) = <<"json">>
        /\ b.layers = <<"json", "gzip", "base64">> /\ b.base64 = TRUE

\* All of them, of a response that has no encoding yet, or JSON alone.
LEMMA BuildFields ==
  ASSUME NEW r, IsResponse(r), ~Unbuildable(r), NEW b, b = Build(r),
         r.layers = <<>> \/ (r.layers = <<"json">> /\ r.form = "str"),
         r.base64 = FALSE, r.gzip = FALSE
  PROVE  BuiltFrom(b, r)
PROOF
<1> DEFINE s == Serialized(r)
           o == WithCors(s)
           z == Compressed(o)
           plain == Plain(r)
<1>1. /\ IsResponse(s)
      /\ s.json = r.json /\ s.compress = r.compress /\ s.base64 = FALSE /\ s.gzip = FALSE
      /\ s.origin = r.origin /\ s.reused = r.reused /\ s.squeezed = r.squeezed
      /\ s.layers = plain
      /\ r.json => s.form = "str"
      /\ ~r.json => s.form = r.form
  <2>1. Append(<<>>, "json") = <<"json">>
    BY Grown
  <2>2. r.json /\ r.form # "str" => r.layers = <<>>
    OBVIOUS
  <2>3. QED
    BY <2>1, <2>2, SerializedFields DEF Plain
<1> HIDE DEF s
<1>2. /\ IsResponse(o)
      /\ o.json = r.json /\ o.compress = r.compress /\ o.base64 = FALSE /\ o.gzip = FALSE
      /\ o.origin \in {r.origin, AllowedOrigin(request.origin)}
      /\ o.reused = r.reused /\ o.squeezed = r.squeezed
      /\ o.layers = plain /\ o.form = s.form
  BY <1>1, CorsFields
<1>3. Compresses(o) = Compresses(r)
  BY <1>2 DEF Compresses
<1> HIDE DEF o
<1>4. /\ IsResponse(z)
      /\ z.json = r.json /\ z.base64 = FALSE
      /\ z.origin \in {r.origin, AllowedOrigin(request.origin)} /\ z.reused = r.reused
      /\ Compresses(r) => /\ z.form = "bytes" /\ z.gzip = TRUE
                          /\ z.layers = Append(plain, "gzip")
                          /\ z.squeezed = r.squeezed + 1
      /\ ~Compresses(r) => /\ z.form = s.form /\ z.gzip = FALSE /\ z.layers = plain
                           /\ z.squeezed = r.squeezed
  <2>1. /\ IsResponse(z)
        /\ z.json = o.json /\ z.base64 = o.base64 /\ z.origin = o.origin
        /\ z.reused = o.reused
        /\ Compresses(o) => /\ z.form = "bytes" /\ z.gzip = TRUE
                            /\ z.layers = Append(o.layers, "gzip")
                            /\ z.squeezed = o.squeezed + 1
        /\ ~Compresses(o) => z = o
    BY <1>2, CompressedFields
  <2> HIDE DEF z, plain
  <2>2. CASE Compresses(r)
    BY <1>2, <1>3, <2>1, <2>2
  <2>3. CASE ~Compresses(r)
    BY <1>2, <1>3, <2>1, <2>3
  <2>4. QED
    BY <2>2, <2>3
<1>5. b = Encoded(z)
  BY DEF Build, s, o
<1> HIDE DEF z
<1>6. /\ IsResponse(b)
      /\ b.json = r.json /\ b.gzip = z.gzip /\ b.reused = r.reused
      /\ b.squeezed = z.squeezed
      /\ b.origin \in {r.origin, AllowedOrigin(request.origin)}
      /\ z.form = "bytes" => /\ b.form = "str" /\ b.base64 = TRUE
                             /\ b.layers = Append(z.layers, "base64")
      /\ z.form # "bytes" => b = z
  <2>1. /\ IsResponse(b)
        /\ b.json = z.json /\ b.gzip = z.gzip /\ b.origin = z.origin
        /\ b.reused = z.reused /\ b.squeezed = z.squeezed
        /\ z.form = "bytes" => /\ b.form = "str" /\ b.base64 = TRUE
                               /\ b.layers = Append(z.layers, "base64")
        /\ z.form # "bytes" => b = z
    BY <1>4, <1>5, EncodedFields
  <2>2. QED
    BY <1>4, <2>1
<1>7. b.gzip = Compresses(r)
  BY <1>4, <1>6 DEF Compresses
<1>8. b.squeezed = IF Compresses(r) THEN r.squeezed + 1 ELSE r.squeezed
  BY <1>4, <1>6
<1>9. r.json => b.form = "str"
  BY <1>1, <1>4, <1>6
<1>10. r.form = "bytes" => ~r.json /\ plain = <<>>
  <2>1. <<"json">> # <<>>
    OBVIOUS
  <2>2. QED
    BY <2>1 DEF Unbuildable, Plain
<1>11. /\ Append(<<>>, "base64") = <<"base64">>
       /\ Append(<<>>, "gzip") = <<"gzip">>
       /\ Append(<<"json">>, "gzip") = <<"json", "gzip">>
       /\ Append(<<"gzip">>, "base64") = <<"gzip", "base64">>
       /\ Append(<<"json", "gzip">>, "base64") = <<"json", "gzip", "base64">>
  <2> DEFINE S == {"json", "gzip", "base64"}
  <2>1. "json" \in S /\ "gzip" \in S /\ "base64" \in S
    OBVIOUS
  <2> HIDE DEF S
  <2>2. QED
    BY <2>1, Grown
<1>12. CASE ~Compresses(r) /\ r.form # "bytes"
  BY <1>1, <1>4, <1>6, <1>7, <1>8, <1>9, <1>12 DEF BuiltFrom
<1>13. CASE ~Compresses(r) /\ r.form = "bytes"
  BY <1>1, <1>4, <1>6, <1>7, <1>8, <1>9, <1>10, <1>11, <1>13 DEF BuiltFrom
<1>14. CASE Compresses(r) /\ plain = <<>>
  BY <1>4, <1>6, <1>7, <1>8, <1>9, <1>11, <1>14 DEF BuiltFrom
<1>15. CASE Compresses(r) /\ plain = <<"json">>
  BY <1>4, <1>6, <1>7, <1>8, <1>9, <1>11, <1>15 DEF BuiltFrom
<1>16. plain \in {<<>>, <<"json">>}
  BY DEF Plain
<1>17. QED
  BY <1>16, <1>12, <1>13, <1>14, <1>15

\* What a client can read, spelled out.
LEMMA Read ==
  ASSUME NEW b,
         \/ b.layers = <<>> /\ b.base64 = FALSE /\ ~b.gzip
         \/ b.layers = <<"json">> /\ b.base64 = FALSE /\ ~b.gzip
         \/ b.layers = <<"base64">> /\ b.base64 = TRUE /\ ~b.gzip
         \/ b.layers = <<"gzip", "base64">> /\ b.base64 = TRUE /\ b.gzip
         \/ b.layers = <<"json", "gzip", "base64">> /\ b.base64 = TRUE /\ b.gzip
  PROVE  Readable(b)
PROOF
<1>1. /\ <<>> \o <<>> \o <<>> = <<>>
      /\ <<>> \o <<>> \o <<"base64">> = <<"base64">>
      /\ <<>> \o <<"gzip">> \o <<"base64">> = <<"gzip", "base64">>
      /\ <<"json">> \o <<>> \o <<>> = <<"json">>
      /\ <<"json">> \o <<"gzip">> \o <<"base64">> = <<"json", "gzip", "base64">>
  <2> DEFINE S == {"json", "gzip", "base64"}
  <2>1. "json" \in S /\ "gzip" \in S /\ "base64" \in S
    OBVIOUS
  <2> HIDE DEF S
  <2>2. QED
    BY <2>1, Joined
<1>2. SUFFICES \E content \in {<<>>, <<"json">>} :
                 b.layers = content \o (IF b.gzip THEN <<"gzip">> ELSE <<>>)
                                    \o (IF b.base64 THEN <<"base64">> ELSE <<>>)
  BY DEF Readable
<1>3. CASE b.layers = <<>> /\ b.base64 = FALSE /\ ~b.gzip
  BY <1>1, <1>3
<1>4. CASE b.layers = <<"json">> /\ b.base64 = FALSE /\ ~b.gzip
  BY <1>1, <1>4
<1>5. CASE b.layers = <<"base64">> /\ b.base64 = TRUE /\ ~b.gzip
  BY <1>1, <1>5
<1>6. CASE b.layers = <<"gzip", "base64">> /\ b.base64 = TRUE /\ b.gzip
  BY <1>1, <1>6
<1>7. CASE b.layers = <<"json", "gzip", "base64">> /\ b.base64 = TRUE /\ b.gzip
  BY <1>1, <1>7
<1>8. QED
  BY <1>3, <1>4, <1>5, <1>6, <1>7

LEMMA FreshServed ==
  ASSUME NEW r, IsFresh(r), ~Unbuildable(r), NEW b, b = Build(r)
  PROVE  Readable(b) /\ Asked(b) /\ b.reused = FALSE
PROOF
<1>1. /\ IsResponse(b) /\ b.reused = FALSE
      /\ b.origin \in {NoOrigin, AllowedOrigin(request.origin)}
      /\ b.gzip = Compresses(r)
      /\ \/ b.layers = <<"json">> /\ b.base64 = FALSE /\ ~b.gzip
         \/ b.layers = <<>> /\ b.base64 = FALSE /\ ~b.gzip
         \/ b.layers = <<"base64">> /\ b.base64 = TRUE /\ ~b.gzip
         \/ b.layers = <<"gzip", "base64">> /\ b.base64 = TRUE /\ b.gzip
         \/ b.layers = <<"json", "gzip", "base64">> /\ b.base64 = TRUE /\ b.gzip
  <2>1. BuiltFrom(b, r)
    BY BuildFields DEF IsFresh
  <2>2. Plain(r) = <<>> \/ Plain(r) = <<"json">>
    BY DEF Plain, IsFresh
  <2>3. QED
    BY <2>1, <2>2 DEF BuiltFrom, IsFresh
<1>2. Asked(b)
  BY <1>1 DEF Asked, Compresses
<1>3. Readable(b)
  BY <1>1, Read
<1>4. QED
  BY <1>1, <1>2, <1>3

\* Compressed whatever is around it already.
LEMMA SqueezedAgain ==
  ASSUME NEW o, IsResponse(o), Compresses(o), NEW b, b = Encoded(Compressed(o))
  PROVE  /\ IsResponse(b) /\ b.reused = o.reused /\ b.json = o.json /\ b.form = "str"
         /\ b.squeezed = o.squeezed + 1
PROOF
<1> DEFINE z == Compressed(o)
<1>1. /\ IsResponse(z) /\ z.reused = o.reused /\ z.json = o.json
      /\ z.form = "bytes" /\ z.squeezed = o.squeezed + 1
  BY CompressedFields
<1>2. b = Encoded(z)
  OBVIOUS
<1> HIDE DEF z
<1>3. /\ IsResponse(b)
      /\ b.json = z.json /\ b.gzip = z.gzip /\ b.origin = z.origin
      /\ b.reused = z.reused /\ b.squeezed = z.squeezed
      /\ z.form = "bytes" => /\ b.form = "str" /\ b.base64 = TRUE
                             /\ b.layers = Append(z.layers, "base64")
      /\ z.form # "bytes" => b = z
  BY <1>1, <1>2, EncodedFields
<1>4. QED
  BY <1>1, <1>3

\* The first two uses of the kept response are built from what BuildFields takes.
LEMMA KeptStaysKept ==
  ASSUME NEW r, IsKept(r), ~Unbuildable(r), NEW b, b = Build(r)
  PROVE  IsKept(b) /\ (b.squeezed <= 1 => Readable(b))
PROOF
<1>1. CASE r.squeezed = 0
  <2>1. r.layers = <<>> \/ r.layers = <<"json">>
    BY <1>1 DEF IsKept
  <2>2. /\ IsResponse(b) /\ b.reused = TRUE /\ b.json = TRUE /\ b.form = "str"
        /\ b.squeezed = IF Compresses(r) THEN 1 ELSE 0
        /\ b.gzip = Compresses(r)
        /\ \/ b.layers = <<"json">> /\ b.base64 = FALSE /\ ~Compresses(r)
           \/ b.layers = <<"json", "gzip", "base64">> /\ b.base64 = TRUE /\ Compresses(r)
    <3>1. BuiltFrom(b, r)
      BY <2>1, <1>1, BuildFields DEF IsKept
    <3>2. Plain(r) = <<"json">>
      BY <1>1, <2>1 DEF Plain, IsKept
    <3>3. <<>> # <<"json">>
      OBVIOUS
    <3>4. IsResponse(r) /\ r.reused = TRUE /\ r.json = TRUE /\ r.form # "bytes"
      BY DEF IsKept
    <3>5. QED
      BY <1>1, <3>1, <3>2, <3>3, <3>4 DEF BuiltFrom
  <2>3. IsKept(b)
    <3>1. Compresses(r) \in BOOLEAN
      BY DEF Compresses
    <3>2. CASE Compresses(r)
      <4>1. b.squeezed = 1 /\ b.gzip = TRUE
        BY <2>2, <3>1, <3>2
      <4>2. QED
        BY <2>2, <3>2, <4>1 DEF IsKept
    <3>3. CASE ~Compresses(r)
      <4>1. b.squeezed = 0 /\ b.gzip = FALSE
        BY <2>2, <3>1, <3>3
      <4>2. QED
        BY <2>2, <3>3, <4>1 DEF IsKept
    <3>4. QED
      BY <3>2, <3>3
  <2>4. Readable(b)
    BY <2>2, Read
  <2>5. QED
    BY <2>3, <2>4
<1>2. CASE r.squeezed > 0
  <2> DEFINE s == Serialized(r)
             o == WithCors(s)
             z == Compressed(o)
  <2>1. IsResponse(r) /\ r.reused = TRUE /\ r.json = TRUE /\ r.form = "str" /\ r.squeezed \in Nat
    BY <1>2 DEF IsKept
  <2>2. s = r
    BY <2>1, SerializedFields
  <2>3. /\ IsResponse(o) /\ o.reused = TRUE /\ o.json = TRUE /\ o.form = "str"
        /\ o.layers = r.layers /\ o.base64 = r.base64 /\ o.gzip = r.gzip
        /\ o.squeezed = r.squeezed
    BY <2>1, <2>2, CorsFields
  <2>4. b = Encoded(z)
    BY DEF Build
  <2> HIDE DEF s, o
  <2>5. CASE Compresses(o)
    <3>1. b = Encoded(Compressed(o))
      BY <2>4
    <3>2. /\ IsResponse(b) /\ b.reused = TRUE /\ b.json = TRUE /\ b.form = "str"
          /\ b.squeezed = r.squeezed + 1
      BY <2>3, <2>5, <3>1, SqueezedAgain
    <3>3. b.squeezed > 1 /\ b.squeezed \in Nat
      BY <1>2, <2>1, <3>2
    <3>4. QED
      BY <3>2, <3>3 DEF IsKept
  <2>6. CASE ~Compresses(o)
    <3>1. z = o
      BY <2>3, <2>6, CompressedFields
    <3> HIDE DEF z
    <3>2. b = o
      BY <2>3, <2>4, <3>1, EncodedFields
    <3>3. IsKept(b)
      BY <1>2, <2>3, <3>2 DEF IsKept
    <3>4. b.squeezed <= 1 => /\ b.layers = <<"json", "gzip", "base64">>
                             /\ b.base64 = TRUE /\ b.gzip = TRUE
      BY <1>2, <2>1, <2>3, <3>2 DEF IsKept
    <3>5. QED
      BY <3>3, <3>4, Read
  <2>7. QED
    BY <2>5, <2>6
<1>3. r.squeezed \in Nat
  BY DEF IsKept
<1>4. QED
  BY <1>1, <1>2, <1>3

-----------------------------------------------------------------------------
(* The steps of the resolvers, for the answers *)

\* What is on its way up was made for this request or is the kept response.
ResultOK ==
  /\ mode = "up" => IsFresh(result.response) \/ result.response = kept
  /\ mode = "failing" => result.error \in Classes

\* Only a REST resolver gives a REST answer.
AInv == InvocationOK /\ IsKept(kept) /\ ResultOK /\ ClientServed

LEMMA UserResponsesOK ==
  ASSUME NEW r \in UserResponses
  PROVE  IsFresh(r) \/ r = kept
PROOF
<1>1. ASSUME NEW b \in Bodies, r = Response(200, b) PROVE IsFresh(r)
  BY <1>1, BodiesAssumption DEF IsFresh, IsResponse, Response
<1>2. QED
  BY <1>1 DEF UserResponses

LEMMA DefaultResponsesOK ==
  ASSUME NEW status
  PROVE  IsFresh(Response(status, JsonBody)) /\ IsFresh(Response(status, TextBody))
PROOF
  BY DEF IsFresh, IsResponse, Response, JsonBody, TextBody, Forms

LEMMA RespondServes ==
  ASSUME IsKept(kept), NEW r, IsFresh(r) \/ r = kept, Respond(r)
  PROVE  /\ IsKept(kept)' /\ ClientServed' /\ ResultOK'
PROOF
<1>1. mode' = "idle" /\ request' = request /\ app' = app
  BY DEF Respond, EndsKeeping, EndsCleared, Ends
<1>2. CASE Unbuildable(r)
  <2>1. answer' = Raised("TypeError") /\ kept' = kept
    BY <1>2 DEF Respond, EndsKeeping, Ends
  <2>2. QED
    BY <1>1, <2>1 DEF ResultOK, ClientServed, Raised, IsKept, IsResponse
<1>3. CASE ~Unbuildable(r)
  <2>0. PICK b : b = Build(r)
    OBVIOUS
  <2>1. /\ answer' = [op |-> "rest", response |-> b]
        /\ kept' = IF r.reused THEN b ELSE kept
    BY <1>3, <2>0 DEF Respond, EndsCleared, Ends
  <2>2. CASE IsFresh(r)
    <3>1. Readable(b) /\ Asked(b) /\ b.reused = FALSE
      BY <1>3, <2>0, <2>2, FreshServed
    <3>2. kept' = kept
      BY <2>1, <2>2 DEF IsFresh
    <3>3. Asked(b)'
      BY <1>1, <3>1 DEF Asked, AllowedOrigin
    <3>4. QED
      BY <1>1, <2>1, <3>1, <3>2, <3>3
      DEF ResultOK, ClientServed, IsKept, IsResponse, Readable
  <2>3. CASE r = kept
    <3>1. IsKept(b) /\ (b.squeezed <= 1 => Readable(b))
      BY <1>3, <2>0, <2>3, KeptStaysKept
    <3>2. b.reused = TRUE /\ r.reused = TRUE
      BY <2>3, <3>1 DEF IsKept
    <3>3. kept' = b
      BY <2>1, <3>2
    <3>4. QED
      BY <1>1, <2>1, <3>1, <3>2, <3>3
      DEF ResultOK, ClientServed, IsKept, IsResponse, Readable
  <2>4. QED
    BY <2>2, <2>3
<1>4. QED
  BY <1>2, <1>3

\* An exception that leaves resolve is no ServiceError.
LEMMA PropagateServes ==
  ASSUME IsKept(kept), NEW e, ~IsServiceError(e), Propagate(e)
  PROVE  IsKept(kept)' /\ ClientServed' /\ ResultOK'
PROOF
<1>1. /\ mode' = "idle" /\ kept' = kept /\ answer' = Raised(e)
  BY DEF Propagate, EndsKeeping, Ends
<1>2. QED
  BY <1>1 DEF ResultOK, ClientServed, Raised, IsKept, IsResponse

LEMMA DefaultServes ==
  ASSUME IsKept(kept), NEW e \in Classes, NEW original, Default(e, original),
         ~IsServiceError(e) => ~IsServiceError(original)
  PROVE  IsKept(kept)' /\ ClientServed' /\ ResultOK'
PROOF
<1>1. IsServiceError(e) => e \in DOMAIN StatusOf
  BY StatusAssumption
<1>2. QED
  BY <1>1, RespondServes, PropagateServes, DefaultResponsesOK DEF Default

\* Steps inside the chain leave the last answer alone.
LEMMA MovesServes ==
  ASSUME AInv, NEW m, NEW d, NEW r, Moves(m, d, r),
         \/ m = "down"
         \/ m = "up" /\ (IsFresh(r.response) \/ r.response = kept)
         \/ m = "failing" /\ r.error \in Classes
  PROVE  IsKept(kept)' /\ ClientServed' /\ ResultOK'
PROOF
<1>1. /\ mode' = m /\ result' = r
      /\ UNCHANGED <<app, request, answer, kept>>
  BY DEF Moves
<1>2. IsKept(kept)'
  BY <1>1 DEF AInv, IsKept, IsResponse
<1>3. ClientServed'
  BY <1>1 DEF AInv, ClientServed, Readable, Asked, AllowedOrigin
<1>4. ResultOK'
  BY <1>1 DEF ResultOK, IsFresh, IsResponse
<1>5. QED
  BY <1>2, <1>3, <1>4

LEMMA CallExceptionHandlerServes ==
  ASSUME AInv, CallExceptionHandler
  PROVE  IsKept(kept)' /\ ClientServed' /\ ResultOK'
PROOF
<1> DEFINE e == result.error
<1>1. e \in Classes /\ IsKept(kept)
  BY DEF AInv, ResultOK, CallExceptionHandler
<1>2. ASSUME NEW response \in UserResponses, Respond(response)
      PROVE  IsKept(kept)' /\ ClientServed' /\ ResultOK'
  BY <1>1, <1>2, UserResponsesOK, RespondServes
<1>3. ASSUME NEW f \in Classes, IsServiceError(f), Default(f, e)
      PROVE  IsKept(kept)' /\ ClientServed' /\ ResultOK'
  BY <1>1, <1>3, DefaultServes
<1>4. ASSUME NEW f \in Classes, ~IsServiceError(f), Propagate(f)
      PROVE  IsKept(kept)' /\ ClientServed' /\ ResultOK'
  BY <1>1, <1>4, PropagateServes
<1>5. CASE Default(e, e)
  BY <1>1, <1>5, DefaultServes
<1>6. QED
  BY <1>2, <1>3, <1>4, <1>5 DEF CallExceptionHandler

LEMMA NotFoundHandlerServes ==
  ASSUME AInv, NotFoundHandler
  PROVE  IsKept(kept)' /\ ClientServed' /\ ResultOK'
PROOF
<1>1. ASSUME NEW r, IsFresh(r) \/ r = kept, Moves("up", depth - 1, Returned(r))
      PROVE  IsKept(kept)' /\ ClientServed' /\ ResultOK'
  <2>1. Returned(r).response = r
    BY DEF Returned
  <2>2. QED
    BY <1>1, <2>1, MovesServes
<1>2. ASSUME NEW e \in Classes, Moves("failing", depth - 1, Failing(e))
      PROVE  IsKept(kept)' /\ ClientServed' /\ ResultOK'
  <2>1. Failing(e).error \in Classes
    BY DEF Failing
  <2>2. QED
    BY <1>2, <2>1, MovesServes
<1>3. QED
  BY <1>1, <1>2, UserResponsesOK, DefaultResponsesOK DEF NotFoundHandler

LEMMA RestServes ==
  ASSUME AInv, RestNext
  PROVE  IsKept(kept)' /\ ClientServed' /\ ResultOK'
PROOF
<1>1. ASSUME NEW r \in Requests, Resolve(r)
      PROVE  IsKept(kept)' /\ ClientServed' /\ ResultOK'
  <2>1. mode' = "down" /\ kept' = kept /\ answer' = NoAnswer
    BY <1>1 DEF Resolve, Begins
  <2>2. QED
    BY <2>1 DEF AInv, ResultOK, ClientServed, NoAnswer, IsKept, IsResponse
<1>2. CASE MiddlewareFrame
  BY <1>2, MovesServes DEF MiddlewareFrame
<1>3. ASSUME NEW r \in UserResponses, ShortCircuit(r) \/ RegisteredApiAdapter(r) \/ Catch(r)
      PROVE  IsKept(kept)' /\ ClientServed' /\ ResultOK'
  <2>1. Returned(r).response = r
    BY DEF Returned
  <2>2. QED
    BY <1>3, <2>1, UserResponsesOK, MovesServes DEF ShortCircuit, RegisteredApiAdapter, Catch
<1>4. CASE NotFoundHandler
  BY <1>4, NotFoundHandlerServes
<1>5. ASSUME NEW e \in Classes, Raise(e)
      PROVE  IsKept(kept)' /\ ClientServed' /\ ResultOK'
  <2>1. Failing(e).error \in Classes
    BY DEF Failing
  <2>2. QED
    BY <1>5, <2>1, MovesServes DEF Raise
<1>6. CASE PassOn
  <2>1. Moves(mode, depth - 1, result) /\ mode \in {"up", "failing"}
    BY <1>6 DEF PassOn
  <2>2. QED
    BY <2>1, MovesServes DEF AInv, ResultOK
<1>7. CASE RespondResult
  <2>1. IsFresh(result.response) \/ result.response = kept
    BY <1>7 DEF AInv, ResultOK, RespondResult
  <2>2. IsKept(kept) /\ Respond(result.response)
    BY <1>7 DEF AInv, RespondResult
  <2>3. QED
    BY <2>1, <2>2, RespondServes
<1>8. CASE CallExceptionHandler
  BY <1>8, CallExceptionHandlerServes
<1>9. CASE mode \in {"down", "up"} /\ AppendContext /\ UNCHANGED rest_vars
  <2>1. UNCHANGED <<app, mode, request, answer, result, kept>>
    BY <1>9 DEF AppendContext, rest_vars
  <2>2. IsKept(kept)' /\ ResultOK'
    BY <2>1 DEF AInv, IsKept, ResultOK, IsFresh, IsResponse
  <2>3. ClientServed'
    BY <2>1 DEF AInv, ClientServed, Readable, Asked, AllowedOrigin
  <2>4. QED
    BY <2>2, <2>3
<1>10. QED
  BY <1>1, <1>2, <1>3, <1>4, <1>5, <1>6, <1>7, <1>8, <1>9 DEF RestNext

\* Steps of the other resolvers give no REST answer, and no REST resolver raises in them.
LEMMA AppSyncServes ==
  ASSUME AInv, AppSyncNext, UNCHANGED rest_vars
  PROVE  IsKept(kept)' /\ ClientServed' /\ ResultOK'
PROOF
<1>1. UNCHANGED <<result, kept, app>>
  <2>1. CASE NotRegistered \/ Whole
    BY <2>1, WaysToEnd DEF rest_vars, EndsWhole, EndsCoroutine, MissingField, Failure,
                           EndsKeeping, EndsCleared, Ends
  <2>2. CASE ~(NotRegistered \/ Whole)
    BY <2>2 DEF rest_vars, AppSyncNext, Call, Failure, Start, EventEnds, BatchEventEnds,
                PublishEventEnds, Recorded,
                Collect, AppendContext, Begins, EndsKeeping, EndsCleared, Ends, shared_vars
  <2>3. QED
    BY <2>1, <2>2
<1>2. IsKept(kept)'
  BY <1>1 DEF AInv, IsKept, IsResponse
<1>3. mode = "calling" => app.kind # "rest"
  BY CallsAssumption DEF AInv, InvocationOK
<1>4. ASSUME NEW e, Failure(e)
      PROVE  mode' = "idle" /\ answer'.op # "rest"
  BY <1>4 DEF Failure, EndsKeeping, EndsCleared, Ends, Raised
<1>5. CASE \E c \in Calls : Call(c)
  <2>1. mode' = "calling" /\ answer' = NoAnswer
    BY <1>5 DEF Call, Begins
  <2>2. QED
    BY <1>2, <2>1 DEF ResultOK, ClientServed, NoAnswer
<1>6. CASE NotRegistered \/ Whole \/ Collect
  <2>1. mode = "calling"
    BY <1>6, WaysToEnd DEF Collect
  <2>2. mode' = "idle" /\ answer'.op # "rest"
    <3>1. CASE NotRegistered \/ Whole
      <4>1. CASE EndsWhole
        <5>1. PICK r : NoItems(r) /\ EndsCleared("returned", r)
          BY <4>1 DEF EndsWhole
        <5>2. r.op # "rest"
          BY <5>1 DEF NoItems
        <5>3. QED
          BY <5>1, <5>2 DEF EndsCleared, Ends
      <4>2. CASE EndsCoroutine
        BY <4>2 DEF EndsCoroutine, EndsKeeping, Ends
      <4>3. CASE MissingField
        BY <4>3 DEF MissingField, EndsKeeping, Ends, Raised
      <4>4. QED
        BY <1>4, <3>1, <4>1, <4>2, <4>3, WaysToEnd
    <3>2. CASE Collect
      BY <3>2 DEF Collect, EndsCleared, Ends
    <3>3. QED
      BY <1>6, <3>1, <3>2
  <2>3. QED
    BY <1>1, <1>2, <1>3, <2>1, <2>2 DEF ResultOK, ClientServed
<1>7. CASE Start \/ \E i \in running : EventEnds(i, Value) \/ \E e \in Classes : EventEnds(i, e)
  <2>1. mode = "calling"
    BY <1>7 DEF Start, EventEnds, BatchEventEnds, PublishEventEnds, Recorded
  <2>2. CASE UNCHANGED shared_vars
    <3>1. ClientServed'
      BY <2>2 DEF AInv, ClientServed, shared_vars, Readable, Asked, AllowedOrigin
    <3>2. QED
      BY <1>2, <2>1, <2>2, <3>1 DEF ResultOK, shared_vars
  <2>3. CASE \E e : Failure(e)
    <3>1. mode' = "idle" /\ answer'.op # "rest"
      BY <1>4, <2>3
    <3>2. QED
      BY <1>1, <1>2, <1>3, <2>1, <3>1 DEF ResultOK, ClientServed
  <2>4. QED
    BY <1>7, <2>2, <2>3 DEF Start, EventEnds, BatchEventEnds, PublishEventEnds, Recorded
<1>8. CASE mode = "calling" /\ AppendContext
  <2>1. UNCHANGED <<mode, request, answer>>
    BY <1>8 DEF AppendContext
  <2>2. ClientServed'
    BY <1>1, <2>1 DEF AInv, ClientServed, Readable, Asked, AllowedOrigin
  <2>3. QED
    BY <1>2, <1>8, <2>1, <2>2 DEF ResultOK
<1>9. QED
  BY <1>5, <1>6, <1>7, <1>8 DEF AppSyncNext

(* Whatever way a request takes through middlewares, exception handlers and   *)
(* the ResponseBuilder, the client can read the answer and gets what it asked *)
(* for, and no ServiceError leaves resolve.                                   *)
THEOREM ClientsServed == Spec => []ClientServed
PROOF
<1>1. Init => IInv /\ AInv
  <2>1. ASSUME Init PROVE IInv
    BY <2>1 DEF Init, ResolverInit, IInv, InvocationOK, ContextOK, ContextIsolated, Over,
         Invocations, Fates
  <2>2. ASSUME Init PROVE AInv
    <3>1. kept = Kept /\ mode = "idle" /\ answer = NoAnswer
      BY <2>2 DEF Init, ResolverInit, RestInit
    <3>2. IsKept(kept)
      <4>1. kept = [status |-> 200, form |-> "object", json |-> TRUE, compress |-> "unset",
                    layers |-> <<>>, base64 |-> FALSE, gzip |-> FALSE, origin |-> NoOrigin,
                    reused |-> TRUE, squeezed |-> 0]
        BY <3>1, ZenonT(40) DEF Kept, Response, JsonBody
      <4>2. QED
        BY <4>1 DEF IsKept, IsResponse, Forms
    <3>3. InvocationOK
      BY <2>1, <2>2 DEF IInv
    <3>4. QED
      BY <3>1, <3>2, <3>3 DEF AInv, ResultOK, ClientServed, NoAnswer
  <2>3. QED
    BY <2>1, <2>2
<1>2. IInv /\ AInv /\ [Next]_vars => (IInv /\ AInv)'
  <2>1. SUFFICES ASSUME IInv, AInv, [Next]_vars PROVE (IInv /\ AInv)'
    OBVIOUS
  <2>2. IInv'
    BY <2>1, RestKeeps, AppSyncKeeps, CallingKeeps DEF Next, vars
  <2>3. InvocationOK'
    BY <2>2 DEF IInv
  <2>4. CASE RestNext
    BY <2>1, <2>2, <2>3, <2>4, RestServes DEF AInv
  <2>5. CASE AppSyncNext /\ UNCHANGED rest_vars
    BY <2>1, <2>2, <2>3, <2>5, AppSyncServes DEF AInv
  <2>6. CASE UNCHANGED vars
    <3>1. UNCHANGED <<app, mode, request, answer, result, kept>>
      BY <2>6 DEF vars, shared_vars, rest_vars
    <3>2. IsKept(kept)' /\ ResultOK'
      BY <2>1, <3>1 DEF AInv, IsKept, ResultOK, IsFresh, IsResponse
    <3>3. ClientServed'
      BY <2>1, <3>1 DEF AInv, ClientServed, Readable, Asked, AllowedOrigin
    <3>4. QED
      BY <2>2, <2>3, <3>2, <3>3 DEF AInv
  <2>7. QED
    BY <2>1, <2>4, <2>5, <2>6 DEF Next
<1>3. AInv => ClientServed
  BY DEF AInv
<1>4. QED
  BY <1>1, <1>2, <1>3, PTL DEF Spec

-----------------------------------------------------------------------------
(* Types, and the events of a call *)

\* The REST part: what a step of the chain carries fits the mode it leaves.
RestTypes ==
  /\ app \in Apps
  /\ inv \in 0 .. MaxInvocations
  /\ DOMAIN context \subseteq ContextKeys
  /\ request.events \in Nat
  /\ app.kind = "rest" => depth \in 0 .. Chain
  /\ mode = "up" => result.op = "response"
  /\ mode = "failing" => result.op = "failure" /\ result.error \in Classes

\* One by one, the events have ended in their order and the next may be running.
InOrder ==
  /\ \A k \in DOMAIN ending : ending[k] = k
  /\ \/ running = {} /\ Len(ending) <= request.events
     \/ running = {Len(ending) + 1} /\ Len(ending) < request.events

\* Together, each event is running or has ended once they were started.
AllStarted ==
  \/ running = {} /\ ending = <<>>
  \/ /\ running \cup DOMAIN outcome = Events
     /\ running \subseteq Events
     /\ Len(ending) + Cardinality(running) = request.events

EventsInv ==
  /\ ending \in Seq(Nat)
  /\ DOMAIN outcome = {ending[k] : k \in 1 .. Len(ending)}
  /\ OneByOne => InOrder
  /\ Together => AllStarted
  /\ mode # "calling" \/ request.aggregate => running = {} /\ ending = <<>>

\* Nothing of a call is left when it has ended.
LEMMA FinishesClean ==
  ASSUME Finishes, request.events \in Nat, UNCHANGED request
  PROVE  EventsInv'
PROOF
<1>1. running' = {} /\ ending' = <<>> /\ outcome' = <<>>
  BY DEF Finishes
<1>2. Len(ending') = 0 /\ DOMAIN ending' = {} /\ DOMAIN outcome' = {} /\ ending' \in Seq(Nat)
  BY <1>1
<1>3. DOMAIN outcome' = {ending'[k] : k \in 1 .. Len(ending')}
  BY <1>2
<1>4. QED
  BY <1>1, <1>2, <1>3 DEF EventsInv, InOrder, AllStarted

\* A request comes and goes while no event is at work.
LEMMA IdleKeepsEvents ==
  ASSUME EventsInv, mode # "calling", request'.events \in Nat, UNCHANGED appsync_vars
  PROVE  EventsInv'
PROOF
<1>1. running' = {} /\ ending' = <<>> /\ outcome' = outcome /\ running = {} /\ ending = <<>>
  BY DEF EventsInv, appsync_vars
<1>2. ending' \in Seq(Nat) /\ Len(ending') = 0 /\ DOMAIN ending' = {}
  BY <1>1
<1>3. DOMAIN outcome' = {ending'[k] : k \in 1 .. Len(ending')}
  BY <1>1 DEF EventsInv
<1>4. QED
  BY <1>1, <1>2, <1>3 DEF EventsInv, InOrder, AllStarted

LEMMA SameKeepsEvents ==
  ASSUME EventsInv, UNCHANGED <<mode, request>>, UNCHANGED appsync_vars
  PROVE  EventsInv'
PROOF
  BY DEF EventsInv, InOrder, AllStarted, OneByOne, Together, Events, appsync_vars

\* All numbers up to n are n many.
LEMMA EventsCounted ==
  ASSUME request.events \in Nat
  PROVE  IsFiniteSet(Events) /\ Cardinality(Events) = request.events
PROOF
  BY FS_Interval DEF Events

LEMMA StartKeepsEvents ==
  ASSUME EventsInv, Start, request.events \in Nat
  PROVE  EventsInv'
PROOF
<1>1. /\ mode = "calling" /\ running = {}
      /\ UNCHANGED <<mode, request, outcome, ending>>
  BY DEF Start, shared_vars
<1>2. /\ (OneByOne \/ Together) /\ ~request.aggregate
      /\ OneByOne => Len(ending) < request.events /\ running' = {Len(ending) + 1}
      /\ Together => ending = <<>> /\ running' = Events
  BY DEF Start, OneByOne, Together
<1>3. OneByOne => InOrder'
  BY <1>1, <1>2 DEF EventsInv, InOrder
<1>4. Together => AllStarted'
  <2>1. ASSUME Together PROVE AllStarted'
    <3>1. ending' = <<>> /\ running' = Events /\ Events' = Events
      BY <1>1, <1>2, <2>1 DEF Events
    <3>2. DOMAIN outcome' \subseteq Events
      <4>1. DOMAIN outcome' = {ending[k] : k \in 1 .. Len(ending)} /\ Len(ending) = 0
        BY <1>1, <3>1 DEF EventsInv
      <4>2. QED
        BY <4>1
    <3>3. Len(ending') + Cardinality(running') = request'.events
      BY <1>1, <3>1, EventsCounted
    <3>4. QED
      BY <3>1, <3>2, <3>3 DEF AllStarted
  <2>2. QED
    BY <2>1
<1>5. QED
  BY <1>1, <1>2, <1>3, <1>4 DEF EventsInv, OneByOne, Together

\* The resolver of one event ends and the call goes on.
LEMMA EndingKeepsEvents ==
  ASSUME EventsInv, NEW i, NEW what, i \in running, mode = "calling", request.events \in Nat,
         UNCHANGED <<mode, request>>,
         running' = running \ {i}, ending' = Append(ending, i),
         DOMAIN outcome' = DOMAIN outcome \cup {i}
  PROVE  EventsInv'
PROOF
<1>1. ~request.aggregate /\ (OneByOne \/ Together)
  BY DEF EventsInv, OneByOne, Together
<1>2. i \in Nat
  BY <1>1 DEF EventsInv, InOrder, AllStarted, Events
<1>3. /\ ending' \in Seq(Nat) /\ Len(ending') = Len(ending) + 1 /\ Len(ending) \in Nat
      /\ \A k \in 1 .. Len(ending) : ending'[k] = ending[k]
      /\ ending'[Len(ending) + 1] = i
      /\ DOMAIN ending' = 1 .. Len(ending) + 1 /\ DOMAIN ending = 1 .. Len(ending)
  BY <1>2 DEF EventsInv
<1>4. DOMAIN outcome' = {ending'[k] : k \in 1 .. Len(ending')}
  <2>1. \A k \in 1 .. Len(ending) + 1 : k \in 1 .. Len(ending) \/ k = Len(ending) + 1
    BY <1>3
  <2>2. {ending'[k] : k \in 1 .. Len(ending) + 1} = {ending[k] : k \in 1 .. Len(ending)} \cup {i}
    BY <1>3, <2>1
  <2>3. QED
    BY <1>3, <2>2 DEF EventsInv
<1>5. OneByOne => InOrder'
  <2>1. ASSUME OneByOne PROVE InOrder'
    <3>1. /\ running = {Len(ending) + 1} /\ Len(ending) < request.events
          /\ \A k \in DOMAIN ending : ending[k] = k
      BY <2>1 DEF EventsInv, InOrder
    <3>2. i = Len(ending) + 1 /\ running' = {}
      BY <3>1
    <3>3. \A k \in DOMAIN ending' : ending'[k] = k
      <4>1. TAKE k \in DOMAIN ending'
      <4>2. CASE k = Len(ending) + 1
        BY <1>3, <3>2, <4>2
      <4>3. CASE k \in 1 .. Len(ending)
        BY <1>3, <3>1, <4>3
      <4>4. QED
        BY <1>3, <4>1, <4>2, <4>3
    <3>4. QED
      BY <1>3, <3>1, <3>2, <3>3 DEF InOrder
  <2>2. QED
    BY <2>1
<1>6. Together => AllStarted'
  <2>1. ASSUME Together PROVE AllStarted'
    <3>1. /\ running \cup DOMAIN outcome = Events /\ running \subseteq Events
          /\ Len(ending) + Cardinality(running) = request.events
      BY <2>1 DEF EventsInv, AllStarted
    <3>2. IsFiniteSet(running)
      BY <3>1, EventsCounted, FS_Subset
    <3>3. Cardinality(running \ {i}) = Cardinality(running) - 1 /\ Cardinality(running) \in Nat
      BY <3>2, FS_RemoveElement, FS_CardinalityType
    <3>4. Len(ending') + Cardinality(running') = request.events
      BY <1>3, <3>1, <3>3
    <3>5. running' \cup DOMAIN outcome' = Events /\ running' \subseteq Events /\ Events' = Events
      BY <3>1 DEF Events
    <3>6. QED
      BY <3>4, <3>5 DEF AllStarted
  <2>2. QED
    BY <2>1
<1>7. QED
  BY <1>1, <1>3, <1>4, <1>5, <1>6 DEF EventsInv, OneByOne, Together

\* The answer is given when every event has its outcome.
LEMMA CollectAnswers ==
  ASSUME EventsInv, Collect, request.events \in Nat
  PROVE  ResultsKeepIdentity'
PROOF
<1>1. /\ ~request.aggregate /\ running = {} /\ Len(ending) = request.events
      /\ request' = request
      /\ answer' = [op |-> "results", items |-> Results, outcomes |-> outcome]
  BY DEF Collect, EndsCleared, Ends
<1>2. DOMAIN outcome = Events
  <2>1. ending \in Seq(Nat) /\ DOMAIN outcome = {ending[k] : k \in 1 .. Len(ending)}
    BY DEF EventsInv
  <2>2. CASE OneByOne
    <3>1. \A k \in 1 .. Len(ending) : ending[k] = k
      BY <2>1, <2>2 DEF EventsInv, InOrder
    <3>2. QED
      BY <1>1, <2>1, <3>1 DEF Events
  <2>3. CASE Together /\ ending = <<>>
    <3>1. Len(ending) = 0
      BY <2>3
    <3>2. QED
      BY <1>1, <2>1, <3>1 DEF Events
  <2>4. CASE Together /\ running \cup DOMAIN outcome = Events
    BY <1>1, <2>4
  <2>5. QED
    BY <1>1, <2>2, <2>3, <2>4 DEF EventsInv, AllStarted, OneByOne, Together
<1>3. PICK n : n = request.events /\ n \in Nat
  OBVIOUS
<1>4. PICK items : items = Results
  OBVIOUS
<1>5. /\ answer'.items = items /\ answer'.outcomes = outcome /\ request'.events = n
      /\ Events = 1 .. n
  BY <1>1, <1>3, <1>4 DEF Events
<1>6. Len(items) = n
  BY <1>3, <1>4 DEF Results, Events
<1>7. ASSUME NEW i \in 1 .. n
      PROVE  /\ items[i].of = i
             /\ items[i].id = (IF request.op = "publish" THEN i ELSE 0)
             /\ (items[i].value = "payload") <=> (outcome[i] = Value)
  <2>1. items[i] = Item(i, i)
    BY <1>4, <1>5, <1>7 DEF Results
  <2>2. QED
    BY <2>1 DEF Item, PublishItem, BatchItem
<1>8. request'.op = request.op
  BY <1>1
<1>9. QED
  BY <1>2, <1>5, <1>6, <1>7, <1>8 DEF ResultsKeepIdentity

\* Every other step keeps the last answer with its request, or answers something else.
LEMMA OtherAnswers ==
  ASSUME ResultsKeepIdentity, answer'.op # "results" \/ UNCHANGED <<request, answer>>
  PROVE  ResultsKeepIdentity'
PROOF
  BY DEF ResultsKeepIdentity, Rejected

LEMMA FailureEnds ==
  ASSUME NEW e, Failure(e)
  PROVE  /\ Finishes /\ UNCHANGED request /\ answer'.op # "results"
         /\ mode' = "idle"
PROOF
  BY DEF Failure, EndsKeeping, EndsCleared, Ends, Raised

\* What holds of the events after a step of one of the AppSync resolvers.
EventsStep == EventsInv' /\ ResultsKeepIdentity'

LEMMA EndedKeepsEvents ==
  ASSUME EventsInv, ResultsKeepIdentity, request.events \in Nat,
         Finishes, UNCHANGED request, answer'.op # "results"
  PROVE  EventsStep
PROOF
  BY FinishesClean, OtherAnswers DEF EventsStep

LEMMA WholeEnds ==
  ASSUME NotRegistered \/ Whole
  PROVE  Finishes /\ UNCHANGED request /\ answer'.op # "results"
PROOF
<1>1. CASE \E e : Failure(e)
  BY <1>1, FailureEnds
<1>2. CASE EndsWhole
  <2>1. PICK r : NoItems(r) /\ EndsCleared("returned", r)
    BY <1>2 DEF EndsWhole
  <2>2. r.op # "results"
    BY <2>1 DEF NoItems
  <2>3. QED
    BY <1>2, <2>1, <2>2 DEF EndsWhole, EndsCleared, Ends
<1>3. CASE EndsCoroutine
  BY <1>3 DEF EndsCoroutine, EndsKeeping, Ends
<1>4. CASE MissingField
  BY <1>4 DEF MissingField, EndsKeeping, Ends, Raised
<1>5. QED
  BY <1>1, <1>2, <1>3, <1>4, WaysToEnd

LEMMA EventEndsKeeps ==
  ASSUME EventsInv, ResultsKeepIdentity, request.events \in Nat, NEW i, NEW what,
         EventEnds(i, what)
  PROVE  EventsStep
PROOF
<1>1. CASE Failure(what)
  BY <1>1, FailureEnds, EndedKeepsEvents
<1>2. CASE Recorded(i, what)
  <2>1. /\ i \in running /\ mode = "calling" /\ UNCHANGED <<mode, request, answer>>
        /\ running' = running \ {i} /\ ending' = Append(ending, i)
        /\ DOMAIN outcome' = DOMAIN outcome \cup {i}
    BY <1>2 DEF EventEnds, BatchEventEnds, PublishEventEnds, Recorded, shared_vars
  <2>2. QED
    BY <2>1, EndingKeepsEvents, OtherAnswers DEF EventsStep
<1>3. QED
  BY <1>1, <1>2 DEF EventEnds, BatchEventEnds, PublishEventEnds, Recorded

LEMMA AppSyncKeepsEvents ==
  ASSUME EventsInv, ResultsKeepIdentity, request.events \in Nat, AppSyncNext
  PROVE  EventsStep
PROOF
<1>1. ASSUME NEW c \in Calls, Call(c) PROVE EventsStep
  <2>1. /\ mode # "calling" /\ request' = c /\ answer' = NoAnswer
        /\ UNCHANGED appsync_vars
    BY <1>1 DEF Call, Begins
  <2>2. c.events \in Nat
    BY CallsAssumption
  <2>3. QED
    BY <2>1, <2>2, IdleKeepsEvents, OtherAnswers DEF EventsStep, NoAnswer
<1>2. CASE NotRegistered \/ Whole
  BY <1>2, WholeEnds, EndedKeepsEvents
<1>3. CASE Start
  <2>1. UNCHANGED <<request, answer>>
    BY <1>3 DEF Start, shared_vars
  <2>2. QED
    BY <1>3, <2>1, StartKeepsEvents, OtherAnswers DEF EventsStep
<1>4. ASSUME NEW i, NEW what, EventEnds(i, what) PROVE EventsStep
  BY <1>4, EventEndsKeeps
<1>5. CASE Collect
  <2>1. Finishes /\ UNCHANGED request
    BY <1>5 DEF Collect, EndsCleared, Ends
  <2>2. QED
    BY <1>5, <2>1, FinishesClean, CollectAnswers DEF EventsStep
<1>6. CASE AppendContext /\ UNCHANGED appsync_vars
  <2>1. UNCHANGED <<mode, request, answer>>
    BY <1>6 DEF AppendContext
  <2>2. QED
    BY <1>6, <2>1, SameKeepsEvents, OtherAnswers DEF EventsStep
<1>7. QED
  BY <1>1, <1>2, <1>3, <1>4, <1>5, <1>6 DEF AppSyncNext

-----------------------------------------------------------------------------
(* Types of the REST part *)

LEMMA ChainLength ==
  ASSUME TRUE
  PROVE  Chain \in Nat \ {0}
PROOF
<1>1. TheRoute.own \in Nat
  BY RoutesAssumption DEF TheRoute, Matched, NoRoute
<1>2. QED
  BY <1>1, GlobalsAssumption DEF Chain

\* A step that ends the invocation, or is inside it and not in the chain.
LEMMA InsideTyped ==
  ASSUME RestTypes, UNCHANGED <<app, inv, request>>, mode' \in {"idle", "calling"},
         DOMAIN context' \subseteq DOMAIN context \cup {"user"},
         app.kind = "rest" => depth' \in {depth, 0}
  PROVE  RestTypes'
PROOF
<1>1. Chain' = Chain /\ Chain \in Nat
  BY ChainLength DEF Chain, TheRoute, Matched
<1>2. DOMAIN context' \subseteq ContextKeys
  BY DEF RestTypes, ContextKeys
<1>3. app.kind = "rest" => depth' \in 0 .. Chain
  BY <1>1 DEF RestTypes
<1>4. QED
  BY <1>1, <1>2, <1>3 DEF RestTypes

LEMMA MovesTyped ==
  ASSUME RestTypes, ResultsKeepIdentity, NEW m, NEW d, NEW r, Moves(m, d, r), d \in 0 .. Chain,
         m = "up" => r.op = "response",
         m = "failing" => r.op = "failure" /\ r.error \in Classes
  PROVE  RestTypes' /\ ResultsKeepIdentity'
PROOF
<1>1. /\ mode' = m /\ depth' = d /\ result' = r
      /\ UNCHANGED <<app, inv, context, request, answer>>
  BY DEF Moves
<1>2. Chain' = Chain
  BY <1>1 DEF Chain, TheRoute, Matched
<1>3. RestTypes'
  BY <1>1, <1>2 DEF RestTypes
<1>4. QED
  BY <1>1, <1>3, OtherAnswers

LEMMA RespondTyped ==
  ASSUME RestTypes, ResultsKeepIdentity, NEW r, Respond(r)
  PROVE  RestTypes' /\ ResultsKeepIdentity'
PROOF
<1>1. /\ UNCHANGED <<app, inv, request>> /\ mode' = "idle" /\ depth' = 0
      /\ DOMAIN context' \subseteq DOMAIN context
      /\ answer'.op # "results"
  BY DEF Respond, EndsKeeping, EndsCleared, Ends, Raised, ClearContext
<1>2. QED
  BY <1>1, InsideTyped, OtherAnswers

LEMMA PropagateTyped ==
  ASSUME RestTypes, ResultsKeepIdentity, NEW e, Propagate(e)
  PROVE  RestTypes' /\ ResultsKeepIdentity'
PROOF
<1>1. /\ UNCHANGED <<app, inv, request, context>> /\ mode' = "idle" /\ depth' = 0
      /\ answer'.op # "results"
  BY DEF Propagate, EndsKeeping, Ends, Raised
<1>2. QED
  BY <1>1, InsideTyped, OtherAnswers

LEMMA DefaultTyped ==
  ASSUME RestTypes, ResultsKeepIdentity, NEW e, NEW original, Default(e, original)
  PROVE  RestTypes' /\ ResultsKeepIdentity'
PROOF
  BY RespondTyped, PropagateTyped DEF Default

LEMMA CallExceptionHandlerTyped ==
  ASSUME RestTypes, ResultsKeepIdentity, CallExceptionHandler
  PROVE  RestTypes' /\ ResultsKeepIdentity'
PROOF
<1> DEFINE e == result.error
<1>1. \/ \E response \in UserResponses : Respond(response)
      \/ \E f \in Classes : Default(f, e)
      \/ \E f \in Classes : Propagate(f)
      \/ Default(e, e)
  BY DEF CallExceptionHandler
<1>2. QED
  BY <1>1, RespondTyped, PropagateTyped, DefaultTyped

LEMMA NotFoundHandlerTyped ==
  ASSUME RestTypes, ResultsKeepIdentity, NotFoundHandler
  PROVE  RestTypes' /\ ResultsKeepIdentity'
PROOF
<1>1. depth - 1 \in 0 .. Chain
  BY ChainLength DEF NotFoundHandler
<1>2. ASSUME NEW r, Moves("up", depth - 1, Returned(r))
      PROVE  RestTypes' /\ ResultsKeepIdentity'
  <2>1. Returned(r).op = "response"
    BY DEF Returned
  <2>2. QED
    BY <1>1, <1>2, <2>1, MovesTyped
<1>3. ASSUME NEW e \in Classes, Moves("failing", depth - 1, Failing(e))
      PROVE  RestTypes' /\ ResultsKeepIdentity'
  <2>1. Failing(e).op = "failure" /\ Failing(e).error \in Classes
    BY DEF Failing
  <2>2. QED
    BY <1>1, <1>3, <2>1, MovesTyped
<1>4. QED
  BY <1>2, <1>3 DEF NotFoundHandler

LEMMA RestTyped ==
  ASSUME IInv, RestTypes, ResultsKeepIdentity, RestNext
  PROVE  RestTypes' /\ ResultsKeepIdentity'
PROOF
<1>1. ASSUME NEW r \in Requests, Resolve(r)
      PROVE  RestTypes' /\ ResultsKeepIdentity'
  <2>1. /\ mode' = "down" /\ depth' = 0 /\ app' = app /\ request' = r /\ inv' = inv + 1
        /\ inv < MaxInvocations /\ answer' = NoAnswer
        /\ DOMAIN context' = DOMAIN context \cup {"_route"}
    BY <1>1 DEF Resolve, Begins
  <2>2. r.events = 0
    BY RequestsAssumption
  <2>3. Chain' \in Nat
    BY RoutesAssumption, GlobalsAssumption DEF Chain, TheRoute, Matched, NoRoute
  <2>4. inv' \in 0 .. MaxInvocations
    BY <2>1, InvocationsAssumption DEF RestTypes
  <2>5. RestTypes'
    BY <2>1, <2>2, <2>3, <2>4 DEF RestTypes, ContextKeys
  <2>6. QED
    BY <2>1, <2>5, OtherAnswers DEF NoAnswer
<1>2. CASE MiddlewareFrame
  <2>1. depth + 1 \in 0 .. Chain /\ Moves("down", depth + 1, NoResult)
    BY <1>2, ChainLength DEF MiddlewareFrame, IInv, InvocationOK, RestTypes
  <2>2. QED
    BY <2>1, MovesTyped
<1>3. ASSUME NEW r, ShortCircuit(r) \/ RegisteredApiAdapter(r) \/ Catch(r)
      PROVE  RestTypes' /\ ResultsKeepIdentity'
  <2>1. Returned(r).op = "response"
    BY DEF Returned
  <2>2. Moves("up", depth - 1, Returned(r)) /\ depth - 1 \in 0 .. Chain
    BY <1>3, ChainLength DEF ShortCircuit, RegisteredApiAdapter, Catch, IInv, InvocationOK, RestTypes
  <2>3. QED
    BY <2>1, <2>2, MovesTyped
<1>4. CASE NotFoundHandler
  BY <1>4, NotFoundHandlerTyped
<1>5. ASSUME NEW e \in Classes, Raise(e)
      PROVE  RestTypes' /\ ResultsKeepIdentity'
  <2>1. Failing(e).op = "failure" /\ Failing(e).error \in Classes
    BY DEF Failing
  <2>2. Moves("failing", depth - 1, Failing(e)) /\ depth - 1 \in 0 .. Chain
    BY <1>5, ChainLength DEF Raise, IInv, InvocationOK, RestTypes
  <2>3. QED
    BY <2>1, <2>2, MovesTyped
<1>6. CASE PassOn
  <2>1. Moves(mode, depth - 1, result) /\ depth - 1 \in 0 .. Chain
    BY <1>6, ChainLength DEF PassOn, IInv, InvocationOK, RestTypes
  <2>2. QED
    BY <2>1, MovesTyped DEF RestTypes
<1>7. CASE RespondResult
  BY <1>7, RespondTyped DEF RespondResult
<1>8. CASE CallExceptionHandler
  BY <1>8, CallExceptionHandlerTyped
<1>9. CASE mode \in {"down", "up"} /\ AppendContext /\ UNCHANGED rest_vars
  <2>1. /\ UNCHANGED <<app, inv, mode, request, answer, depth, result>>
        /\ DOMAIN context' = DOMAIN context \cup {"user"}
    BY <1>9 DEF AppendContext, rest_vars
  <2>2. Chain' = Chain
    BY <2>1 DEF Chain, TheRoute, Matched
  <2>3. RestTypes'
    BY <2>1, <2>2 DEF RestTypes, ContextKeys
  <2>4. QED
    BY <2>1, <2>3, OtherAnswers
<1>10. QED
  BY <1>1, <1>2, <1>3, <1>4, <1>5, <1>6, <1>7, <1>8, <1>9 DEF RestNext

\* Before a REST step no AppSync call is running, and after it there is a request.
LEMMA RestModes ==
  ASSUME IInv, RestNext, RestTypes
  PROVE  mode # "calling" /\ request'.events \in Nat
PROOF
<1>1. ASSUME NEW r \in Requests, Resolve(r)
      PROVE  mode # "calling" /\ request'.events \in Nat
  BY <1>1, RequestsAssumption DEF Resolve, Begins
<1>2. ASSUME NEW m, NEW d, NEW r, Moves(m, d, r) PROVE UNCHANGED request
  BY <1>2 DEF Moves
<1>3. ASSUME NEW r, Respond(r) PROVE UNCHANGED request
  BY <1>3 DEF Respond, EndsKeeping, EndsCleared, Ends
<1>4. ASSUME NEW e, Propagate(e) PROVE UNCHANGED request
  BY <1>4 DEF Propagate, EndsKeeping, Ends
<1>5. ASSUME NEW e, NEW f, Default(e, f) PROVE UNCHANGED request
  BY <1>3, <1>4, <1>5 DEF Default
<1>6. CASE CallExceptionHandler
  BY <1>3, <1>4, <1>5, <1>6 DEF CallExceptionHandler, RestTypes
<1>7. CASE NotFoundHandler
  BY <1>2, <1>7 DEF NotFoundHandler, RestTypes
<1>8. ASSUME NEW r, ShortCircuit(r) \/ RegisteredApiAdapter(r) \/ Catch(r) \/ Raise(r)
      PROVE  mode # "calling" /\ request'.events \in Nat
  BY <1>2, <1>8 DEF ShortCircuit, RegisteredApiAdapter, Catch, Raise, RestTypes
<1>9. CASE MiddlewareFrame \/ PassOn \/ RespondResult
  BY <1>2, <1>3, <1>9 DEF MiddlewareFrame, PassOn, RespondResult, RestTypes
<1>10. CASE mode \in {"down", "up"} /\ AppendContext
  BY <1>10 DEF AppendContext, RestTypes
<1>11. QED
  BY <1>1, <1>6, <1>7, <1>8, <1>9, <1>10 DEF RestNext

LEMMA AppSyncTyped ==
  ASSUME IInv, RestTypes, AppSyncNext, UNCHANGED rest_vars
  PROVE  RestTypes'
PROOF
<1>1. UNCHANGED <<depth, result>>
  BY DEF rest_vars
<1>2. ASSUME NEW c \in Calls, Call(c) PROVE RestTypes'
  <2>1. /\ mode' = "calling" /\ app' = app /\ request' = c /\ inv' = inv + 1
        /\ inv < MaxInvocations /\ context' = context /\ app.kind = c.kind
    BY <1>2 DEF Call, Begins
  <2>2. c.events \in Nat /\ c.kind # "rest"
    BY CallsAssumption
  <2>3. inv' \in 0 .. MaxInvocations
    BY <2>1, InvocationsAssumption DEF RestTypes
  <2>4. QED
    BY <2>1, <2>2, <2>3 DEF RestTypes
<1>3. ASSUME NEW e, Failure(e)
      PROVE  /\ UNCHANGED <<app, inv, request>> /\ mode' = "idle"
             /\ DOMAIN context' \subseteq DOMAIN context
  BY <1>3 DEF Failure, EndsKeeping, EndsCleared, Ends, ClearContext
<1>4. ASSUME NEW how, NEW r, EndsKeeping(how, r) \/ EndsCleared(how, r)
      PROVE  /\ UNCHANGED <<app, inv, request>> /\ mode' = "idle"
             /\ DOMAIN context' \subseteq DOMAIN context
  BY <1>4 DEF EndsKeeping, EndsCleared, Ends, ClearContext
<1>5. CASE NotRegistered \/ Whole
  BY <1>1, <1>3, <1>4, <1>5, WaysToEnd, InsideTyped DEF EndsWhole, EndsCoroutine, MissingField
<1>6. CASE Collect
  BY <1>1, <1>4, <1>6, InsideTyped DEF Collect
<1>7. CASE mode = "calling" /\ UNCHANGED shared_vars
  BY <1>1, <1>7, InsideTyped DEF shared_vars
<1>8. ASSUME NEW i, NEW what, EventEnds(i, what) PROVE RestTypes'
  BY <1>1, <1>3, <1>7, <1>8, InsideTyped DEF EventEnds, BatchEventEnds, PublishEventEnds, Recorded
<1>9. CASE Start
  BY <1>7, <1>9 DEF Start
<1>10. CASE mode = "calling" /\ AppendContext
  <2>1. /\ UNCHANGED <<app, inv, mode, request>> /\ mode = "calling"
        /\ DOMAIN context' = DOMAIN context \cup {"user"}
    BY <1>10 DEF AppendContext
  <2>2. QED
    BY <1>1, <2>1, InsideTyped
<1>11. QED
  BY <1>2, <1>5, <1>6, <1>8, <1>9, <1>10 DEF AppSyncNext

TypesInv == IInv /\ RestTypes /\ EventsInv /\ ResultsKeepIdentity

LEMMA TypesInit ==
  ASSUME Init
  PROVE  TypesInv
PROOF
<1>1. IInv
  BY DEF Init, ResolverInit, IInv, InvocationOK, ContextOK, ContextIsolated, Over, Invocations,
         Fates
<1>2. /\ app \in Apps /\ inv = 0 /\ mode = "idle" /\ depth = 0 /\ request = NoRequest
      /\ DOMAIN context \subseteq {"user"} /\ answer = NoAnswer
      /\ running = {} /\ ending = <<>> /\ outcome = <<>>
  BY DEF Init, ResolverInit, RestInit, AppSyncInit
<1>3. request.events = 0 /\ answer.op = "none"
  BY <1>2 DEF NoRequest, NoAnswer
<1>4. RestTypes
  BY <1>2, <1>3, ChainLength, InvocationsAssumption DEF RestTypes, ContextKeys
<1>5. EventsInv
  <2>1. ending \in Seq(Nat) /\ Len(ending) = 0 /\ DOMAIN ending = {} /\ DOMAIN outcome = {}
    BY <1>2
  <2>2. DOMAIN outcome = {ending[k] : k \in 1 .. Len(ending)}
    BY <2>1
  <2>3. QED
    BY <1>2, <1>3, <2>1, <2>2 DEF EventsInv, InOrder, AllStarted
<1>6. ResultsKeepIdentity
  BY <1>3 DEF ResultsKeepIdentity
<1>7. QED
  BY <1>1, <1>4, <1>5, <1>6 DEF TypesInv

LEMMA TypesStep ==
  ASSUME TypesInv, [Next]_vars
  PROVE  TypesInv'
PROOF
<1>1. IInv /\ RestTypes /\ EventsInv /\ ResultsKeepIdentity /\ request.events \in Nat
  BY DEF TypesInv, RestTypes
<1>2. IInv'
  BY <1>1, RestKeeps, AppSyncKeeps, CallingKeeps DEF Next, vars
<1>3. CASE RestNext /\ UNCHANGED appsync_vars
  <2>1. RestTypes' /\ ResultsKeepIdentity'
    BY <1>1, <1>3, RestTyped
  <2>2. EventsInv'
    BY <1>1, <1>3, RestModes, IdleKeepsEvents
  <2>3. QED
    BY <1>2, <2>1, <2>2 DEF TypesInv
<1>4. CASE AppSyncNext /\ UNCHANGED rest_vars
  <2>1. RestTypes'
    BY <1>1, <1>4, AppSyncTyped
  <2>2. EventsStep
    BY <1>1, <1>4, AppSyncKeepsEvents
  <2>3. QED
    BY <1>2, <2>1, <2>2 DEF TypesInv, EventsStep
<1>5. CASE UNCHANGED vars
  <2>1. /\ UNCHANGED <<app, inv, mode, context, request, answer, depth, result>>
        /\ UNCHANGED appsync_vars
    BY <1>5 DEF vars, shared_vars, rest_vars
  <2>2. Chain' = Chain
    BY <2>1 DEF Chain, TheRoute, Matched
  <2>3. RestTypes'
    BY <1>1, <2>1, <2>2 DEF RestTypes
  <2>4. EventsInv' /\ ResultsKeepIdentity'
    BY <1>1, <2>1, SameKeepsEvents, OtherAnswers
  <2>5. QED
    BY <1>2, <2>3, <2>4 DEF TypesInv
<1>6. QED
  BY <1>3, <1>4, <1>5 DEF Next

(* The variables have the values their comments say, for every chain, context   *)
(* and number of events: a response or an exception travels up the chain only   *)
(* as such, and of a call only its own events run and no more end than it has.  *)
THEOREM TypeCorrect == Spec => []TypeOK
PROOF
<1>1. TypesInv => TypeOK
  <2>1. SUFFICES ASSUME TypesInv PROVE TypeOK
    OBVIOUS
  <2>2. running \subseteq 1 .. request.events /\ Len(ending) <= request.events
    <3>1. ending \in Seq(Nat) /\ request.events \in Nat
      BY <2>1 DEF TypesInv, EventsInv, RestTypes
    <3>2. CASE running = {} /\ ending = <<>>
      BY <3>1, <3>2
    <3>3. CASE InOrder
      BY <3>1, <3>3 DEF InOrder
    <3>4. CASE running \subseteq Events /\ Len(ending) + Cardinality(running) = request.events
      <4>1. Cardinality(running) \in Nat
        BY <3>1, <3>4, EventsCounted, FS_Subset, FS_CardinalityType
      <4>2. Len(ending) \in Nat
        BY <3>1
      <4>3. QED
        BY <3>1, <3>4, <4>1, <4>2 DEF Events
    <3>5. QED
      BY <2>1, <3>2, <3>3, <3>4 DEF TypesInv, EventsInv, OneByOne, Together, AllStarted
  <2>3. QED
    BY <2>1, <2>2 DEF TypesInv, RestTypes, IInv, InvocationOK, ContextOK, TypeOK
<1>2. QED
  BY <1>1, TypesInit, TypesStep, PTL DEF Spec

(* A batch or a publication is answered when every event has its outcome, with *)
(* one item per event in their order, each from the resolver of that event     *)
(* (_call_sync_batch_resolver, _call_async_batch_resolver and the publish      *)
(* resolvers), whatever the order in which asynchronous resolvers end.         *)
THEOREM IdentityKept == Spec => []ResultsKeepIdentity
PROOF
<1>1. TypesInv => ResultsKeepIdentity
  BY DEF TypesInv
<1>2. QED
  BY <1>1, TypesInit, TypesStep, PTL DEF Spec
=============================================================================
