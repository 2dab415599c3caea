---------------------------- MODULE EventHandler ----------------------------
(***************************************************************************)
(* A resolver of any kind over the invocations of a warm environment.      *)
(***************************************************************************)
EXTENDS RestResolver, AppSyncResolver

vars == <<shared_vars, rest_vars, appsync_vars>>

Init ==
  /\ ResolverInit
  /\ RestInit
  /\ AppSyncInit

Next ==
  \/ RestNext /\ UNCHANGED appsync_vars
  \/ AppSyncNext /\ UNCHANGED rest_vars

Spec == Init /\ [][Next]_vars

-----------------------------------------------------------------------------
(* The variables have the values their comments say. *)
TypeOK ==
  /\ app \in Apps
  /\ inv \in 0 .. MaxInvocations
  /\ mode \in {"idle", "down", "up", "failing", "calling"}
  /\ DOMAIN context \subseteq ContextKeys
  /\ \A k \in DOMAIN context : context[k] \in 0 .. inv
  /\ fate \in [Invocations -> Fates]
  /\ app.kind = "rest" => depth \in 0 .. Chain
  /\ mode = "up" => result.op = "response"
  /\ mode = "failing" => result.op = "failure" /\ result.error \in Classes
  /\ running \subseteq 1 .. request.events
  /\ Len(ending) <= request.events

\* The ways to end that leave the context as it is: an exception that Lambda
\* sees; an exception handler's answer and a coroutine too for AppSyncResolver;
\* an error answer of the Bedrock resolver.
Keeps == [rest |-> {"raised"}, graphql |-> {"raised", "handled", "coroutine"},
          events |-> {"raised"}, bedrock |-> {"raised", "handled"}]

Over(i) == i < inv \/ (i = inv /\ mode = "idle")

(* What an invocation finds in the context, other than its own, was appended  *)
(* by the import of the module or by invocations before it, and then every    *)
(* invocation since, from the one that appended it on, ended in a way that    *)
(* skips clear_context.  Of those ways the documentation promises only that   *)
(* of a coroutine: the others of the REST and GraphQL resolvers are excluded  *)
(* here and contradict it (ContextCleared).                                   *)
ContextIsolated ==
  \A k \in DOMAIN context, i \in Invocations :
    context[k] <= i /\ Over(i) => fate[i] \in Keeps[app.kind]

(* What the documentation of the REST and the GraphQL resolver promises: the  *)
(* context is cleared after each invocation, except for async single          *)
(* resolvers.  An exception skips clear_context, also one that a handler      *)
(* answers for AppSyncResolver, so this does not hold (ContextClearing.cfg).  *)
ContextCleared ==
  app.kind \in {"rest", "graphql"} /\ mode = "idle" /\ inv > 0 /\ fate[inv] # "coroutine"
    => \A k \in DOMAIN context : context[k] = 0
=============================================================================
