------------------------------ MODULE Resolver ------------------------------
(***************************************************************************)
(* What the resolvers of the event handler share: one resolver object of a *)
(* warm environment that serves invocation after invocation, its context   *)
(* (append_context, clear_context) and its exception handlers.             *)
(***************************************************************************)
EXTENDS Integers, Sequences, FiniteSets

CONSTANTS
  Apps,            \* resolver objects: kind, debug and the classes with a handler
  Mro,             \* Mro[e]: class e and its base classes, nearest first
  MaxInvocations   \* bound: invocations of one environment

Classes == DOMAIN Mro
Kinds == {"rest", "graphql", "events", "bedrock"}

ASSUME AppsAssumption ==
  \A a \in Apps : a.kind \in Kinds /\ a.debug \in BOOLEAN
ASSUME MroAssumption == \A e \in Classes : Len(Mro[e]) > 0 /\ Mro[e][1] = e
ASSUME InvocationsAssumption == MaxInvocations \in Nat \ {0}

VARIABLES
  app,       \* the resolver object of this behaviour
  inv,       \* number of the running, or else of the last, invocation
  mode,      \* what the invocation is doing; "idle" between invocations
  context,   \* app.context: for each key the invocation that appended it
  fate,      \* ghost, fate[i]: how invocation i ended
  request,   \* BaseRouter.current_event
  answer     \* ghost: what the last invocation returned

shared_vars == <<app, inv, mode, context, fate, request, answer>>

Invocations == 1 .. MaxInvocations
Fates == {"none", "returned", "handled", "coroutine", "raised"}
\* Keys of the context: those of the REST resolver and one of the user.
ContextKeys == {"_route", "user"}
NoRequest == [op |-> "none", route |-> "none", events |-> 0]
NoAnswer == [op |-> "none"]

\* Context may be appended while the module is imported, "before" invocation 1.
ResolverInit ==
  /\ app \in Apps
  /\ inv = 0
  /\ mode = "idle"
  /\ context \in {<<>>, [k \in {"user"} |-> 0]}
  /\ fate = [i \in Invocations |-> "none"]
  /\ request = NoRequest
  /\ answer = NoAnswer

\* The handler registered for the nearest class of e's method resolution order.
Lookup(e) ==
  LET found == {i \in DOMAIN Mro[e] : Mro[e][i] \in app.handlers}
  IN IF found = {} THEN "none" ELSE Mro[e][CHOOSE i \in found : \A j \in found : i <= j]

Handled(e) == Lookup(e) # "none"

\* An invocation with request r begins.
Begins(r) ==
  /\ mode = "idle"
  /\ inv < MaxInvocations
  /\ inv' = inv + 1
  /\ request' = r
  /\ answer' = NoAnswer
  /\ UNCHANGED <<app, fate>>

ClearContext == <<>>

\* It ends as "how", with its answer, after clear_context or without it.
Ends(how, result) ==
  /\ mode' = "idle"
  /\ fate' = [fate EXCEPT ![inv] = how]
  /\ answer' = result
  /\ UNCHANGED <<app, inv, request>>

\* Mutant: an answer that is an error skips clear_context.
EndsClearedUnlessError(how, result) ==
  /\ Ends(how, result)
  /\ context' = IF result.op = "error" THEN context ELSE ClearContext

EndsCleared(how, result) == Ends(how, result) /\ context' = ClearContext

EndsKeeping(how, result) == Ends(how, result) /\ UNCHANGED context

\* The user's code, wherever it runs, appends to the context.
AppendContext ==
  /\ context' = [k \in DOMAIN context \cup {"user"} |-> IF k = "user" THEN inv ELSE context[k]]
  /\ context' # context
  /\ UNCHANGED <<app, inv, mode, fate, request, answer>>

Raised(e) == [op |-> "raised", error |-> e]
=============================================================================
