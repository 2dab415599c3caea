-------------------------- MODULE AppSyncResolver ---------------------------
(***************************************************************************)
(* AppSyncResolver ("graphql"), AppSyncEventsResolver ("events") and, as a *)
(* resolver of the same make, BedrockAgentFunctionResolver ("bedrock").    *)
(*                                                                         *)
(* A call is a request for one field, a batch of events or a publication;  *)
(* the events of the last two are numbered, and what came of event i is    *)
(* "value" or the class it raised.                                         *)
(***************************************************************************)
EXTENDS Resolver

CONSTANTS
  Calls   \* op, the kind of resolver registered for it and the number of events

Ops == {"single", "coroutine", "batch", "publish", "subscribe", "tool", "unknown"}

ASSUME CallsAssumption ==
  \A c \in Calls : /\ c.kind \in Kinds \ {"rest"} /\ c.op \in Ops
                   /\ c.aggregate \in BOOLEAN /\ c.async \in BOOLEAN
                   /\ c.strict \in BOOLEAN /\ c.events \in Nat
                   /\ c.op = "coroutine" => c.kind = "graphql"

VARIABLES
  running,   \* the events whose resolver was called and has not ended
  outcome,   \* for each event that has ended, what came of it
  ending     \* the events in the order in which they ended

appsync_vars == <<running, outcome, ending>>

AppSyncInit ==
  /\ running = {}
  /\ outcome = <<>>
  /\ ending = <<>>

Events == 1 .. request.events
Value == "value"

\* One by one, all of them started together, or the batch as a whole.
OneByOne == ~request.aggregate /\ ~request.async
Together == ~request.aggregate /\ request.async

-----------------------------------------------------------------------------
\* resolve.  What has no resolver ends at once.
Call(c) ==
  /\ app.kind = c.kind
  /\ Begins(c)
  /\ mode' = "calling"
  /\ UNCHANGED <<context, appsync_vars>>

Finishes ==
  /\ running' = {}
  /\ outcome' = <<>>
  /\ ending' = <<>>

\* The exception e leaves the call of the resolver: AppSyncResolver asks its
\* exception handlers, none of them clears the context.
Failure(e) ==
  /\ Finishes
  /\ \/ /\ app.kind = "graphql" /\ Handled(e)
        /\ \/ EndsKeeping("handled", [op |-> "handler"])
           \/ \E f \in Classes : EndsKeeping("raised", Raised(f))
     \/ /\ app.kind = "graphql" /\ ~Handled(e)
        /\ EndsKeeping("raised", Raised(e))
     \/ /\ app.kind = "events" /\ e = "UnauthorizedException"
        /\ EndsKeeping("raised", Raised(e))
     \/ /\ app.kind = "events" /\ e # "UnauthorizedException"
        /\ EndsCleared("returned", [op |-> "error", error |-> e])
     \/ /\ app.kind = "bedrock"
        /\ EndsKeeping("handled", [op |-> "error", error |-> e])

\* An event of an agent lacks a field, such as its function: resolve turns the
\* KeyError into a ValueError, which Lambda sees.
MissingField == app.kind = "bedrock" /\ Finishes /\ EndsKeeping("raised", Raised("ValueError"))

\* No resolver, or no tool, is registered.
NotRegistered ==
  /\ mode = "calling"
  /\ request.op = "unknown"
  /\ \/ app.kind = "events" /\ Finishes /\ EndsCleared("returned", [op |-> "as is"])
     \/ app.kind # "events" /\ Failure("LookupError")
     \/ MissingField

Answers == Finishes /\ EndsCleared("returned", [op |-> "whole"])
Fails == \E e \in Classes : Failure(e)

\* A coroutine runs when resolve has returned it, and so keeps its context.
SingleResolver ==
  \/ request.op = "single" /\ (Answers \/ Fails)
  \/ request.op = "coroutine" /\ Finishes /\ EndsKeeping("coroutine", [op |-> "coroutine"])

\* One function answers for all events.  What is not a list is an error in a
\* batch; AppSync drops it when it comes of a publication.
AggregateBatch ==
  /\ request.op = "batch" /\ request.aggregate
  /\ Answers \/ Fails \/ Failure("InvalidBatchResponse")

AggregatePublish ==
  /\ request.op = "publish" /\ request.aggregate
  /\ \/ Answers \/ Fails
     \/ Finishes /\ EndsCleared("returned", [op |-> "dropped"])

SubscribeEvents == request.op = "subscribe" /\ (Answers \/ Fails)

\* The answer of a tool may be impossible to serialise.
Tool ==
  /\ request.op = "tool"
  /\ \/ Answers \/ Fails
     \/ Finishes /\ EndsCleared("returned", [op |-> "error", error |-> "TypeError"])

\* One function answers for the whole call.
Whole ==
  /\ mode = "calling"
  /\ SingleResolver \/ AggregateBatch \/ AggregatePublish \/ SubscribeEvents \/ Tool

\* The resolver is called for the next event, or for all of them.
Start ==
  /\ mode = "calling"
  /\ request.op \in {"batch", "publish"}
  /\ \/ /\ OneByOne /\ running = {} /\ Len(ending) < request.events
        /\ running' = {Len(ending) + 1}
     \/ /\ Together /\ running = {} /\ ending = <<>>
        /\ running' = Events
  /\ UNCHANGED <<shared_vars, outcome, ending>>

\* Mutant: an event is taken again after its resolver ended.
RecordedStillRunning(i, what) ==
  /\ ending' = Append(ending, i)
  /\ outcome' = [j \in DOMAIN outcome \cup {i} |-> IF j = i THEN what ELSE outcome[j]]
  /\ UNCHANGED <<shared_vars, running>>

\* What the resolver of event i returned or raised is kept for the answer.
Recorded(i, what) ==
  /\ running' = running \ {i}
  /\ outcome' = [j \in DOMAIN outcome \cup {i} |-> IF j = i THEN what ELSE outcome[j]]
  /\ ending' = Append(ending, i)
  /\ UNCHANGED shared_vars

\* raise_on_error: the first exception ends the call, and with it the resolvers
\* that still run.
BatchEventEnds(i, what) ==
  /\ request.op = "batch"
  /\ IF request.strict /\ what # Value THEN Failure(what) ELSE Recorded(i, what)

\* A publication makes an item of every exception.
PublishEventEnds(i, what) == request.op = "publish" /\ Recorded(i, what)

\* The resolver of event i ends.
EventEnds(i, what) ==
  /\ mode = "calling"
  /\ i \in running
  /\ BatchEventEnds(i, what) \/ PublishEventEnds(i, what)

\* The answer for event i, from the outcome of j: in a batch a value or None, in a
\* publication, under the identifier of i, a value or any error.
BatchItem(j) == [id |-> 0, of |-> j, value |-> IF outcome[j] = Value THEN "payload" ELSE "null"]
PublishItem(i, j) ==
  [id |-> i, of |-> j, value |-> IF outcome[j] = Value THEN "payload" ELSE "error"]
Item(i, j) == IF request.op = "publish" THEN PublishItem(i, j) ELSE BatchItem(j)

\* Mutant: results are taken as they come.
ResultsAsCompleted == [i \in Events |-> Item(i, ending[i])]

\* gather keeps the order of the events, and so does the loop.
Results == [i \in Events |-> Item(i, i)]

Collect ==
  /\ mode = "calling"
  /\ request.op \in {"batch", "publish"} /\ ~request.aggregate
  /\ running = {} /\ Len(ending) = request.events
  /\ Finishes
  /\ EndsCleared("returned", [op |-> "results", items |-> Results, outcomes |-> outcome])

AppSyncNext ==
  \/ \E c \in Calls : Call(c)
  \/ NotRegistered
  \/ Whole
  \/ Start
  \/ \E i \in running : EventEnds(i, Value) \/ \E e \in Classes : EventEnds(i, e)
  \/ Collect
  \/ mode = "calling" /\ AppendContext /\ UNCHANGED appsync_vars

-----------------------------------------------------------------------------
\* A publication is to be rejected whole when a resolver of it raises this.
Rejected == request.op = "publish"
              /\ \E i \in DOMAIN answer.outcomes : answer.outcomes[i] = "UnauthorizedException"

(* A batch or a publication is answered with one item per event, in the order *)
(* of the events, each with what came of that very event: its value, or in    *)
(* the place of a failure a null or the error under the identifier of the     *)
(* event; in whatever order the resolvers ended and whichever failed.  No     *)
(* answer is given before every resolver has ended.  A publication with an    *)
(* event that is not authorized should have no such answer, and is excluded   *)
(* (UnauthorizedRejects).                                                     *)
ResultsKeepIdentity ==
  answer.op = "results" /\ ~Rejected =>
    /\ Len(answer.items) = request.events
    /\ DOMAIN answer.outcomes = 1 .. request.events
    /\ \A i \in 1 .. request.events :
         LET item == answer.items[i] IN
         /\ item.of = i
         /\ item.id = (IF request.op = "publish" THEN i ELSE 0)
         /\ (item.value = "payload") <=> (answer.outcomes[i] = Value)

(* What docs/core/event_handler/appsync_events.md says of authorization:      *)
(* raising UnauthorizedException makes the Lambda invocation fail, and no     *)
(* message of the publication goes out.  The loop and gather over the events  *)
(* catch it like any other exception, so this does not hold                   *)
(* (UnauthorizedPublish.cfg).                                                 *)
UnauthorizedRejects == answer.op = "results" => ~Rejected
=============================================================================
