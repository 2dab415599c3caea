# Powertools for AWS Lambda (Python): a TLA+ verification project

The repository is a library that runs inside the handler of a Lambda function. It has no
server of its own: what makes it hard is that the handler runs in several execution
environments at once, that an environment stays warm and keeps objects from one invocation to
the next, that it may die at any moment, and that its stores and event sources retry, fail and
answer late. The modules here model the parts of the library whose correctness depends on
that, translated from the code under `src/aws_lambda_powertools` (the paths below are relative
to it, those under `docs` and `examples` to the repository).

## Inventory

| Component | State | Operations | What makes it correct |
|---|---|---|---|
| **Idempotency** `utilities/idempotency` | a record per key in a store, a local LRU cache per environment, the handler's attempt | `handle` → `save_inprogress`, `get_record`, `_handle_for_status`, the function, `save_success` / `delete_record` | at most one execution per key at a time; a result is replayed until it expires and only for the payload it was computed from; a dead owner does not block a key |
| **DynamoDB and Redis layers** `persistence/dynamodb.py`, `redis.py` | the table with TTL; Redis keys with lifetimes and an orphan lock | conditional put, get, update, delete; `SET NX`, `GET`, lock, `SET` | as above, under failures of every call |
| **Batch** `utilities/batch` | the lists of one processor object, the failed groups of a FIFO processor, the queue | `__call__`, `process` / `async_process`, `_clean`, `response` | nothing is lost or reported wrongly; a FIFO group stays in order; the queue drains |
| **Parameters** `utilities/parameters` | an expiring cache per provider; AppConfig tokens and last values | `get`, `get_multiple`, `force_fetch`, `clear_cache` | no stale value beyond `max_age`; the token and the value belong together |
| **Feature flags** `utilities/feature_flags` | the schema, through Parameters | `evaluate`, `get_enabled_features` | both agree with each other and with the rules |
| **Logger** `logging` | keys, correlation id, a log buffer per trace | log calls, flush on error, the handler decorator | no record of one invocation appears in another; order and size of the buffer |
| **Metrics** `metrics` | metric, dimension and metadata sets, timestamp | `add_metric`, `flush_metrics`, `log_metrics` | every value is published exactly once, with its invocation's dimensions |
| **REST event handler** `event_handler/api_gateway.py` | routes, middleware stack, shared context | `resolve`, middlewares, exception handlers, `ResponseBuilder.build` | one answer per event that the client can read, context isolated |
| **AppSync handlers** `event_handler/events_appsync`, `appsync.py` | registries, shared context | publish, subscribe, single and batch resolvers | each result or error keeps the identity of its event |
| **Bedrock agents** `event_handler/bedrock_agent_function.py` | tools, shared context | `resolve` | every call is answered, context isolated |
| **Streaming** `utilities/streaming` | position, lazily opened body | `read`, `seek`, `tell`, `transform` | reads are those of a plain file; not modelled |
| OpenAPI, data classes, parser, validation, JMESPath, Kafka, data masking, tracer, middleware factory | none across calls | conversions and delegation | no behaviour over time, not modelled |

How they interact: Batch and Idempotency meet in the user's record handler; Feature flags reads
through Parameters; everything else shares only the warm environment and the Lambda context.
`PROJECT.json` lists the components, and under `hazards` the places where each of them can go
wrong in a way a unit test hardly reaches.

## Modules

| Module | Models |
|---|---|
| `IdempotencyContract` | the promise: per key at most one execution, none while a result is saved, a caller that does not execute gets the saved result |
| `Idempotency` | the handler, its retries, the records, validation and the local cache; environments that begin, finish and die. Extended by the stores |
| `IdempotencyDynamoDB` | the store calls of `DynamoDBPersistenceLayer` and the table's TTL |
| `IdempotencyRedis` | the commands of `RedisCachePersistenceLayer` and the expiry of keys |
| `Batch` | the three batch processors with the queue that feeds them |
| `Metrics` | one Metrics object with the CloudWatch EMF provider over warm invocations |
| `Parameters` | a provider object with its expiring cache, the AppConfig session, and the remote store that others write |
| `FeatureFlags` | rules and conditions, `evaluate` and `get_enabled_features`; extends `Parameters`, through whose AppConfig provider it reads |
| `Resolver` | what all resolvers share: invocations, context, exception handlers |
| `RestResolver` | middlewares, route, errors and `ResponseBuilder` of `ApiGatewayResolver`; extends `Resolver` |
| `AppSyncResolver` | the AppSync GraphQL, AppSync Events and Bedrock function resolvers; extends `Resolver` |
| `EventHandler` | composes the last two: one resolver of any kind in a warm environment |
| `Logger` | a logger and its child: log buffers, the formatter's keys, the decorator |
| `IdempotencyDynamoDB_proofs`, `IdempotencyResults_proofs` | theorems about DynamoDB: the lock; the results, caches and retries built on it, and the contract |
| `IdempotencyRedis_proofs`, `Batch_proofs`, `Metrics_proofs`, `Parameters_proofs`, `EventHandler_proofs`, `Logger_proofs` | theorems about each of these; those of `Parameters_proofs` are also about `FeatureFlags` |
| `MC...` | instances for TLC |

### Idempotency

Every environment runs one invocation at a time, so `pc[e]`, `call[e]`, `rec[e]` and `out[e]`
are its stack: the program point, the arguments with the attempt number, the `DataRecord` at
hand and the outcome. `cache[e]` is `BasePersistenceLayer._cache` and outlives the invocation;
`store` is the table or the Redis database. **A store call is one step and so is the code
between two store calls**: another environment can only interfere where the code waits for the
network. `at` is the clock read before the put (`now = datetime.datetime.now()`), which the
condition is evaluated with although the store acts later.

The labels follow the code: `save` (`save_inprogress` up to the put), `put`, `get`
(`get_record`), `handle` (`_handle_for_status`), `run` (the function), `update`, `delete`,
`done`; Redis adds `inspect`, `lock` and `overwrite` inside the put. `IdempotencyInconsistentStateError`
starts the next attempt of the loop in `handle`. Every call may fail, and a failing write may
have been applied (`PutFails`, `UpdateFails`, `DeleteFails`). `Kill` takes an environment down
at any point, with its local cache.

Time is one clock for all environments and the store (clock skew is not modelled), in ticks,
`TicksPerSecond` of them to the second; the record's expiry is truncated to seconds as in the
code, the in-progress expiry is not. The service kills an invocation at its deadline
(`KillMargin` ticks before it), so the clock cannot pass the deadline of one that is active.
This is the fact about Lambda on which the in-progress expiry rests.

Left out of the Redis layer: a stored value that is not JSON, which `_get_record` turns into the consistency error
of an orphan (`redis.py:348-359`); every value the layer itself writes is JSON.

Abstracted: keys and payload hashes are opaque values; a response is the invocation and the
payload it was computed from, and whether Python takes it for false; which entry a full local
cache evicts is any. Left out: the response hook and the (de)serialisers of
`idempotent_function`, which act on a response already chosen, and a layer configured twice.

### Batch

One processor object, as in a warm environment, goes through repeated deliveries. The lists
`success`, `fail` and `failedGroups` are its attributes, `records` and `todo` those of the
current invocation, `running` the handlers that were called and have not returned: at most
one in the synchronous and FIFO processors, any number in the asynchronous one, finishing in any
order. `invalid` and `broken` are the messages on which the processor's model raises its own
ValidationError or something else (the code takes different paths). `Spoiled` names the two sorts of batch that such a message
makes fail as a whole. The queue and the
event source mapping are external: a batch is any part of the queue that respects the order of
each group for FIFO; an invocation that raises, or dies, leaves the whole batch in the queue, any
other leaves what `batchItemFailures` names. `handled` and `redo` are history variables.

### Metrics

`metrics`, `dims`, `metadata` and `cold` are `metric_set`, `dimension_set`, `metadata_set` and the
module's `is_cold_start`: memory of the environment, shared by its invocations. The handler
calls `AddMetric`, `AddDimension`, `AddMetadata`, `ClearMetrics` and `FlushMetrics` in any order
between `Invoke` and `HandlerReturns` or `HandlerRaises`, which include the flush of the
`finally` block of `log_metrics`; `Kill` takes the environment down. A metric value is the
how-manieth it is and a dimension or metadata value the invocation that set it, so that the blob
printed by a step (`last`) says where each part of it comes from. `owner`, `times`, `dropped` and
`emptyEnds` are history variables. A disabled flush keeps the memory and a flush that fails
to serialise keeps all of it but the service dimension it has just added, as in the code;
publication at the limit inside `add_metric` clears the metrics and nothing else, and ignores
`POWERTOOLS_METRICS_DISABLED`.

Left out: several Metrics objects on the shared sets, a missing namespace (nothing is ever
printed), timestamps (documented to persist until the next flush), `single_metric` and the blob of
the cold start metric, which have sets of their own, and the Datadog provider.

### Parameters and Feature flags

A behaviour is the life of one provider (`provider`): `ssm`, `secrets`, `appconfig`, or `flags`,
the AppConfig provider inside an `AppConfigStore`. `cache` is `BaseProvider.store`, `token` and `last` are
`_next_token` and `last_returned_value` of `AppConfigProvider`. The remote store is external; it is written
by others (`Put`, `Delete`) and by `SetParameter` and `SetSecret`, whose two calls are two steps.
A call of the library is one step otherwise: the environment is single-threaded and nothing it reads in
between is its own. `answer` is what the caller gets; `Consume` is the caller going on.
**Time is relative**: a cached entry carries the seconds it has left, and `retired[v]` says how long ago version `v`
was replaced, so a behaviour may be infinite and yet have finitely many states.

Keys of the cache keep what the code puts into them, and no more: name(s) and transform, not `decrypt`
and not the SDK's options. Secrets fetched as a list share the family `path` with `get_multiple`.
`get_parameters_by_name` is translated in its two halves, the names to decrypt (`ByDecryptOption`,
one `get` each) and the others (`InChunks`), with the chunks that `slice_dictionary` really makes and what each
call may meet: an answer, an `InternalServerError` or a throttling exception. `Fetch...` are the
`_get`s, as sets of outcomes: the AppConfig poll may fail when its session starts, at the poll or while the body
is read.

`FeatureFlags` translates the two walks over the rules as two operators, as in the code, with the condition
actions `EQUALS`, `MODULO_RANGE`, `SCHEDULE_BETWEEN_TIME_RANGE` and one that fails on the context; JSON values
are as many as `bool()` tells apart. Time of day is the argument of an evaluation, in a day of `HoursPerDay`
hours.

Left out: the DynamoDB provider (one query), pages of `get_parameters_by_path`, versions of `set_secret`, the
other comparators, and the schema validator beyond valid and invalid.

### Event handler

`mode` is what the invocation is doing. A REST request goes `down` the frames of the middleware stack
(`depth`), each a step in which user code may append to the context, answer early, raise, or catch;
then `up` with a response or `failing` with an exception; at depth 0 `Respond` or
`CallExceptionHandler` ends it. `Lookup` walks the method resolution order (`Mro`) as the code does. A body is
its content and the encodings put around it (`layers`), so that "the client can read it" is a statement about the order of
serialising, compressing and base64, and `kept` is a `Response` that the user's module keeps and returns
again.

An AppSync call is a single field, a coroutine, a batch or a publication; `running`, `outcome` and `ending` are
the resolvers that were started, what came of them and in which order they ended: asynchronous ones in any
order. What a single function answers is one operator per resolver (`SingleResolver`, `AggregateBatch`, `AggregatePublish`,
`SubscribeEvents`, `Tool`), and so is the end of one event (`BatchEventEnds`, `PublishEventEnds`). An agent's event without a
required field makes the Bedrock resolver raise a `ValueError` (`MissingField`). How each call ends decides whether
`clear_context` is reached: the code does so at the end of the regular path only. `Keeps` in `EventHandler` lists the paths that
skip it; `ContextIsolated` is about all others, and `ContextCleared` states what the documentation says of those of the REST and
GraphQL resolvers. A coroutine is the only one of them that it names as an exception; of the Events and Bedrock resolvers it says nothing.

Left out: how a route, field or channel is matched (a request names its route), registration, `Router`
inclusion, cache headers and the OpenAPI middlewares.

### Logger

`caches[l]` is the `LoggerBufferCache` of logger `l`, a `KeyBufferCache` with its contents, running size and flag
per trace id; `log_format` and `keys_combined` are the formatter's dictionaries, shared by the child, and `thread_keys` the
thread-local ones; a key's value is the invocation that set it. Records are numbers in the order of
logging, `emitted` is what was printed, with the keys of that moment. `mode` is `init` while modules are
imported, when there is no trace id. `Begin`, `Return` and `Raise` contain what `inject_lambda_context` does
before and after the handler; `Restart` is a time-out or crash.

What an application does is a record, `app`: who decorates, at which level it buffers, whether the
handler changes keys. A block of `append_context_keys` belongs to the formatter it was entered with: one that `clear_state` or
`structure_logs` has replaced meanwhile is left to itself, and so are the keys of the new one. `Lingers` marks the records of a logger
whose buffer no decorator clears: they stay for a later invocation of the same trace. Left out: the layout of a line, `log_event`, handlers and filters, other
threads, and a correlation id as a key of its own.

## Runs

| Run | Shows |
|---|---|
| `dynamodb` | With two environments, three invocations of one key, two payloads, crashes, store failures, TTL and a local cache: executions never overlap; caches and replays agree with the store; when the failed put returns the item, the retries give up only on an invocation that ran for more than `MAX_RETRIES` ticks; validation protects the caller and refuses only what differs; a completed result is stable until it expires |
| `dynamodb_contract` | Without a Lambda context and with a boto3 that does not return the old item, the detailed model implements `IdempotencyContract`, and no lock blocks its key for ever |
| `redis` | Mutual exclusion, payload protection and the stability of results over the four-command put, although any command may fail, applied or not; no record reaches the end of its lifetime in this run |
| `redis_expiry_race` | *violation*: Redis may drop the orphan between the lock and the overwrite |
| `redis_validation` | *violation*: an identical repeated call is refused, as the completed record has no payload hash |
| `batch` | All processors and options over repeated deliveries: no loss, reports that are exact unless a malformed message makes the code fail the whole batch (`Spoiled`), group order, no needless rerun, independent groups, and the queue drains |
| `metrics` | Every value is published once, by the invocation that added it, although handlers raise, flush, clear and reach the limit; a foreign dimension is only inherited through invocations without metrics, and the default dimensions survive every clear; the limit, compared with `=`, is never passed over |
| `parameters` | Each provider under every mixture of its calls, with writers, deletions, failures, seconds and restarts in between: no answer is older than the longest `max_age` in use; token and last value of AppConfig stay together; `get_parameters_by_name` answers for every name once; `evaluate` and `get_enabled_features` agree; time windows are cyclic; once deployments stop, feature flags follow the last valid one |
| `event_handler` | Three invocations of a resolver of each kind, with middlewares, functions and exception handlers that return, raise or catch anywhere: an invocation that returns normally leaves none of its context to another one; the client can read its answer; results keep their events, and none is given before every resolver has ended, publications with an `UnauthorizedException` excluded |
| `context_clearing` | *violation*: an exception that leaves the REST or GraphQL resolver, or that a handler of the latter answers, leaves the context to the next invocation |
| `logger` | Warm invocations that share trace ids or not, records of every size against the buffer, errors, flushes, clears and restarts: the buffer is the newest part of its trace; each record is printed once, in order and under its own trace, with the request id of the invocation that prints it, which is its own unless the record lingers in a logger that no decorator clears |
| `batch_fifo_model` | *violation*: short-circuiting a message that does not fit the model fails the whole invocation |

**Bounds.** `Env` = 2, `Key` = 1: records of different keys share nothing but the room in a local
cache, and every property relates at most two environments. With one key nothing is evicted in the runs; that an eviction never
makes a wrong answer is proved for every number of keys and every size of the cache (`CachesCoherent`). `MaxInvocations` = 3 is the least
at which an owner that died, its successor and a third party meet. In the DynamoDB runs `LastBegin` and
`MaxTime` stop the clock only after the last invocation and the records it left have timed out.
In `dynamodb`, `ExpiresAfter` and `Remaining` are one second each, so that both expiries
fall into the run and into the same tick; in `dynamodb_contract` an invocation has half a second, which
separates the two. `TicksPerSecond` = 2 makes truncation to seconds
visible. `RetriesSuffice` allows the error to an invocation that ran for more than `MAX_RETRIES` ticks, and none does in `dynamodb`, as
they last two: there the run shows that two attempts are never lost, and the theorem `RetriesLast` covers the longer ones. In `redis` a record lives longer than the run and the lock (2 seconds) twice as long as an
invocation: orphans, in-progress expiry and lapsed locks happen, but Redis never drops a record by its lifetime.
That is the setting in which the protocol is meant to work; `redis_expiry_race` shows what happens when
a record is dropped while an orphan is being taken over. `KillMargin` = 1 there, because Redis's own comparison is
strict the other way round. In `batch`, three messages in two groups (1 and 3 in one) are the
least in which an older failure must hold back a later message of its group over a message of
another group; one environment may die. In `metrics`, `MAX_METRICS` and `MAX_DIMENSIONS` are 2 instead of
100 and 29, so that three values on two names meet the limit by names and by values of one name, and a
third dimension is refused; three invocations let a dimension travel through one that
publishes nothing into a third. `MCMetrics` takes two kinds of configuration, each with all settings of
`disabled` and `raise_on_empty_metrics`: one with a service and room for it, and one without whose handlers
reach the dimension limit. A full dimension set together with a service leaves no room for the service
dimension, after which serialising fails (under Findings); no run covers that combination.

In `parameters`, two versions are written (`MaxWrites`), the least at which a reader can hold a value that was replaced; two
names, one of them encrypted; `max_age` is 0, which never caches, or 1, which does; the cache holds at most two
entries at a time (`MaxEntries`), which is enough for any two calls that meet in one entry or share a name; the chunk limit
`MaxItems` is 2 instead of 10, and the batches in the run fit it: those that do not lose names, which the
configuration `ParametersByName.cfg` shows (under Findings). The schemas have a feature with two rules, one that is not boolean, one
without rules, and one whose rules are `null`; a day of six minutes has windows inside an hour, over several and across midnight.
In `event_handler` there are eight resolvers, with and without debug and with handlers for the error itself, for a
base class or for none; two routes and one that is missing; three events to a batch, as two have only
one other order; three invocations let a context pass through one that leaves it to a third.
In `logger`, `MaxBytes` is 2 with records of size 1, 2 and 3: two fit together, one fills the buffer alone, one
never fits. Programs that change keys log one record, as a line's keys do not depend on other records; those that
buffer log up to three over two invocations, or two over three. Trace ids are symmetric.

In `metrics`, `event_handler` and `logger` nothing can happen after the last invocation has ended, so deadlock is
not checked there. The bounds in guards count invocations, kills, writes, records, added values, cached entries and
blocks of `append_context_keys` (one open at a time), besides the clock's.

**Fairness.** Safety properties use the specification without fairness. `LockReleased` assumes
that the clock runs and that Lambda kills an invocation at its deadline, and nothing about
functions, stores or TTL. `Drained` assumes that the queue keeps delivering, the
processor's own code keeps running, and (strongly) that a handler called again and again for
a message returns at some time: a message whose handler always raises stays in a queue for ever,
or goes to a dead-letter queue, and that is not the library's doing. `FollowsDeployment` assumes that
the function goes on being invoked and its calls come back (`Consume`), that seconds pass (strongly, as a tick is only possible
between two calls), and strongly that evaluations are not refused by the service for ever; the cache,
the session and the documents that were broken before get no help.

## Proofs

Every safety and action property of the passing runs is proved for every value of the constants, from
the named assumptions on them that the modules declare and, where a theorem has more hypotheses, from those named below. Each was
model-checked on the instances of the runs before it was proved; in each module there is one lemma per action, or per group of actions
that change the same variables.

**`IdempotencyDynamoDB_proofs`**, for any number of environments, keys, payloads and invocations, and
every setting of the options:

* `TypeCorrect`: `Spec => []TypeOK`. Besides types it has `WellFormed`, without which it is not
  inductive: an invocation without a key never reaches a store call, and one that writes or
  handles a record has one.
* `NoOverlap`: `Spec => []MutualExclusion`, assuming `LongWindow`: no invocation may run longer than
  `expires_after_seconds`. The assumption is needed: if the record of a running invocation
  expires, the put condition lets the next one in, and nothing in the code prevents it.

The inductive invariant `LockInv` says why the protocol works. (1) *Alive*: an active invocation
has not passed its deadline, and began no further back than the longest remaining time. (2) *Prepared*: the record
an invocation is about to put expires no earlier than the invocation must end, both by its
in-progress expiry and by its seconds; and the clock it compares with is not ahead of the real
one. (3) *Owns*: the record in the store of an invocation that executes is that record, still in
progress. Then a put
that succeeds finds nothing, or a record that is expired by the clock; an executing
owner's record is not, since its deadline is not over; so no other environment can be executing,
and the unconditional update and delete only ever hit the record of the one that issues them. TTL
removes expired records only, of which an owner has none.

**`IdempotencyResults_proofs`** goes on from there to the results, for any size of the local
cache and any choice of what it evicts:

* `ResultsStay` (under `LongWindow`): a completed record that has not expired is changed by nobody. A put fails on it, as its clock is
  not ahead of the real one; an update or delete comes from an owner, whose record is in progress.
* `CachesCoherent` and `ReplaysCurrent` (under `LongWindow`): what a local cache holds, and what an
  invocation is about to replay, is the result in the store until it expires. `ResultInv` adds to `LockInv` that an
  unexpired completed record, cached or at hand, has the data *and the expiry* of the stored one: with the data alone the copy could
  outlive its original.
* `PayloadsProtected`, without `LongWindow`: `HonestInv` says that every record, stored, cached or at hand, carries the hash of the
  payload its response was computed from, and that one that is handled carries the caller's.
* `RefusalsJust` (under `LongWindow`): who is refused finds a result in the store that was computed from another payload, as
  the copy that refuses it is still the stored one.
* `RetriesLast`, without any hypothesis: `RetryInv` counts ticks against attempts. An attempt is lost only if the record that the failed put
  returned went stale after the clock of that put was read, so each lost attempt takes a tick at least.
* `ContractHolds`: the refinement, `Spec => ImplementsContract`. Each action is shown to be a step of the contract or a
  stutter under the mapping: the put that succeeds is `Start`, the update that is applied `Complete`, a failure or a death `Abandon`; a `Replay` finds the reply in the saved
  result; what the store drops is a `Forget`, and what the contract does not see (caches, attempts, failed calls) a stutter. `ContractInv` adds to `ResultInv` what an
  outcome is before it is delivered. Its hypotheses are `LongWindow`, and `NothingFalsy`: a falsy response is saved as `null`,
  so that a replay does not give what the execution returned (under Findings).

**`IdempotencyRedis_proofs`**, for any number of environments, keys and invocations:

* `TypeCorrect`, with the fact that a put has its key and record at hand between its commands.
* `NoOverlap` (`MutualExclusion`) and `ResultsKept` (`ResultKept`), for the behaviours in which Redis drops no record while an invocation is about to
  take it over (`KeepsOrphans`), assuming `LockLasts`: there is a Lambda context, nobody runs longer than
  `expires_after_seconds`, and the orphan lock lasts as long as two invocations together. Both hypotheses are what the code really rests on, and not
  always given: `_orphan_lock_timeout` is 10 seconds, as it is computed in the constructor from the default `expires_after_seconds`, whatever the function's timeout is. An invocation that has
  seen an orphan and pauses for longer than the lock lasts then finds neither lock nor any
  other test between itself and the record of its successor, as the overwrite is unconditional. `KeepsOrphans` excludes the race that `redis_expiry_race` shows.
* `PayloadsProtected`, without any hypothesis on time or locks. A completed record in Redis has lost its hash, so a record either has
  none or carries that of the payload its response was computed from; the former refuses everybody.

`LockInv` extends that of DynamoDB. An invocation that goes for the lock still finds an orphan, or the lock
taken until after its own deadline (*MayLock*): who takes an orphan over sets the lock before it changes the record, and
nothing releases it. Who holds the lock holds it until all that are active now have ended, is the only one (*OneHolder*), and the
record of the key is an orphan until it overwrites it (*HoldsLock*). So an overwrite never hits a record whose owner executes: an owner's
record is no orphan before its deadline.

**`Batch_proofs`**, for any messages, groups, processors and number of deliveries. `BatchInv` says where the records of a batch are: waiting in order,
with their handler, or in one of the two lists, of which exactly the failed list is what the response names; that a `None` in it, or a
conversion that raises outside the `try`, comes of a spoiled batch only; and for a FIFO
processor that the groups it skips are those of its failures, and that a batch holds all older messages of its groups.
`TypeCorrect`, `NothingLost` (`NoLoss`) and `ReportExact` (`ReportsExactly`) are its consequences, and `GroupsInOrder`,
`NoRerun` and `OthersGoOn` (`GroupOrder`, `NoNeedlessRerun`, `OtherGroupsGoOn`) are action properties: each step that calls a handler is shown to allow it, from the invariant before it.

**`Metrics_proofs`**, for any names, limits, configurations and number of values:

* `TypeCorrect` and `EachPublishedOnce` (`PublishedOnce`) in every configuration: a value is in memory once, or dropped, or was published once.
* `ByOwner`, `BlobsRight` and `LimitKept` (`PublishedByOwner`, `BlobDimensions`, `BelowLimit`) under `Room`: where there is a service,
  the default dimensions and those the handlers add leave a place for it. Without that place serialising raises in every flush from then on and
  nothing is cleared, so the values of one invocation stay for the next (under Findings); the properties are then false. `RoomInv` says that memory holds
  values of the running invocation only, and dimensions of the running one or of those since which no flush had metrics.

**`Parameters_proofs`**, for any names, contents, batches, schemas and number of writes, and any set of ages with a greatest one:

* `TypeCorrect`: also, what is cached is filed under a key that names it, and no entry has more time left than the longest `max_age`.
* `SessionsAgree`: `TokenMatchesLast`. Inductive only together with "no token, no value".
* `AnswersFresh`: `FreshWithinMaxAge`. The invariant bounds the age of a value by what its entry has left: the seconds since it was
  replaced and those that the entry still lives make at most `LongestAge`. AppConfig's last value has no age; that it is only
  served when the service says "unchanged" is `SessionsAgree`, so the two are one invariant.
* `FlagsAgree`: `EnabledAgreesWithEvaluate`. The two walks read the same document and agree rule by rule.
* `WindowsCyclic`: `WindowIsCyclic` for every length of the day and of the hour, which is arithmetic on the comparator and a bound on the time of day.
* `NamesAnswered`: `ByNameAnswersAll`, under `Fits`: no batch has more names than a call takes. Longer ones lose names (under Findings). The names to decrypt and the others part the batch, and each half answers for its own names, as a value or as an error.

**`EventHandler_proofs`**, for any middlewares, routes, bodies, exception classes and calls:

* `TypeCorrect`, for every length of the middleware chain and of a batch.
* `ContextsIsolated`: `ContextIsolated`, so of the ends that do reach `clear_context`; the others are those of `context_clearing`. Inductive with the fact that a context names no invocation that has not begun, and that modes
  belong to their resolvers.
* `ClientsServed`: `ClientServed`. `AInv` says of the kept response that it is as it was made, or JSON, or compressed once with exactly the layers its flags
  say; and of a response on its way up that it is fresh or the kept one. That an exception at the
  bottom never is a `ServiceError` rests on `StatusAssumption`: every such class has a status.
* `IdentityKept`: `ResultsKeepIdentity`, for all but the publications that should have been rejected. `EventsInv` says that the outcomes are those of the events that have ended, that one by one they end in
  their order, and that together each is running or has ended, so that none is missing when none runs.

**`Logger_proofs`**, for any applications, sizes and numbers of records:

* `TypeCorrect`, `BufferNewest` (`BufferIsNewest`) and `PrintedByOwner` (`EmittedByOwner`). `LoggerInv` says that a buffered record waits to be printed after
  all that its logger printed from its buffer before (*Waiting*); that of the running trace only the oldest are missing from a buffer, which its flag tells
  (*LostOldest*); that a decorated handler prints with its own request id and, with `clear_state`, its own keys (*KeysCurrent*), as the decorator leaves
  none to the next invocation (*KeysReset*); and that a buffered record of an earlier invocation is one that lingers.

The running size of a log buffer, the names chosen from a batch and the like are recursive functions, whose induction the provers
cannot take from the library (its theorems have an operator as parameter); these proofs do it by hand, over the set of numbers up to which
the fact holds, with the library's theorem that a set of numbers has a least element.

Only model-checked: liveness (`LockReleased`, `Drained`, `FollowsDeployment`), which is beyond this prover; and the statements of
the four runs that are violated.

## Findings

Four of the runs end in a violation of what the documentation, a comment or a docstring says, and
`PROJECT.json` quotes each: two in the Redis layer, one in the FIFO processor, one in the context of the event
handlers. Three more configurations, not among the runs, show the same of other parts; each is checked with
`tlc -config <configuration> <module>`.

* `ParametersByName.cfg` with `MCParameters` violates `ByNameAnswersAll`. `slice_dictionary` (`shared/functions.py:143`) takes every chunk from the
  start of the dictionary, and `_get_parameters_by_name_in_chunks` (`ssm.py:588`) keeps the response of the last chunk only: of three names
  where one call takes two, the third is neither returned nor reported. `ssm.py:549` says "Slice batch and fetch parameters using
  GetParameters by max permitted", and `ssm.py:445` "Gracefully aggregate all parameters that failed under "_errors" key".
* `UnauthorizedPublish.cfg` with `MCEventHandler` violates `UnauthorizedRejects`. Where events are published one by one, the handlers of all
  exceptions (`appsync_events.py:257-260`, `316-322`) make an item of an `UnauthorizedException` too: the publication is answered, and the other
  events go out. `docs/core/event_handler/appsync_events.md:227` says "Raising `UnauthorizedException` will cause the Lambda invocation to
  fail.", line 231 "Powertools for AWS stop processing messages and subscribers will not receive any message.", line 103 "Raise the
  **UnauthorizedException** exception to reject a subscribe or publish request with HTTP 403". Aggregated publications and
  subscriptions do so. `ResultsKeepIdentity` excludes the publications in question.
* `LoggerSharedTrace.cfg` with `MCLogger` violates `OwnBuffer`. The decorator clears the buffer of the logger that decorates, and no other: a record
  buffered by its child, or by a logger without decorator, in one invocation is printed by a later one of the same trace (a
  retry), with that one's request id. `docs/core/logger.md:692` says "each Lambda invocation has its own buffer. The
  buffer is initialized when the Lambda function is invoked and is cleared after the function execution completes or when flushed
  manually.", and the comment at `logger.py:1158` "Detect new Lambda invocation context and reset buffer to maintain log isolation". `EmittedByOwner` excludes the records that
  linger so.

Reading the code for the models showed more places where it does not do what one would expect, or what the documentation says. The models do what the code
does there, and the properties are stated around them, saying so:

* Redis without a Lambda context takes a live in-progress record for an orphan (`redis.py:427`), so the `redis` run has one.
* A persistence layer is configured once; shared by two functions, it keeps the settings of the first. A response that
  is falsy is saved as `null`.
* An exception of a model validator that is not its ValidationError registers `None` as the failed record, and collecting its identifier
  fails the whole invocation (`batch/base.py:535`), hence `Spoiled` in `ReportsExactly`. `docs/utilities/batch.md:242` says "we catch any exception raised by
  your record handler function", which a validator is not.
* An EMF flush without metrics clears neither dimensions nor metadata (`cloudwatch.py:393`), hence the exception in `BlobDimensions`;
  `docs/core/metrics.md:320` says that `flush_metrics()` will "clear in-memory metrics data". A full dimension
  set and a service leave no room for the service dimension, and serialising fails from then on (`cloudwatch.py:225`), although
  `docs/core/metrics.md:175` allows a "Maximum of 29 user-defined dimensions". Publication at the limit inside `add_metric` ignores
  `POWERTOOLS_METRICS_DISABLED`, which "**Disables** all metrics emitted by Powertools" (`docs/core/metrics.md:241`).
* `decrypt` is not part of a parameter's cache key; a forced fetch with `max_age=0` leaves an older entry in place;
  `get_app_config` keeps the environment and application of its first call; a `transform` in a batch always raises, as its arguments are
  out of place; in strict mode an internal error of a batch is neither raised nor reported.
* A time window that crosses midnight and ends in the hour it starts in never matches; `rules: null` makes
  `get_enabled_features` raise `AttributeError` unless the default is true.
* A context is kept, besides what `context_clearing` shows, by an `UnauthorizedException` or other exception that leaves the Events resolver, by the Bedrock resolver's error
  answers, and, as documented, by coroutines (`Keeps`). A `Response` object returned again is encoded again.
* A record that would be buffered while modules are imported is dropped, as there is no trace id (`logger.py:1150`; `docs/core/logger.md:694`
  says that nothing is buffered then, to ensure that logs "are always available"). The decorator of a child logger with `clear_state` replaces the formatter, loses the
  constructor's keys and leaves the thread's. `append_context_keys` removes a key that had a value before.

## Not modelled

The components marked so in the inventory, each with its reason in `PROJECT.json`: conversions and
accessors without state (data classes, parser, OpenAPI, validation, JMESPath, Kafka, data masking: the larger part of the
repository's lines), delegation to SDKs (tracer), generated schemas, and streaming, a reader over one S3
object without concurrency. Of the modelled components: logging, warnings, the wording of errors,
JMESPath extraction and hashing, credentials and client construction, matching of routes.

## What is left

The order in which `LRUDict` evicts, refining the choice `Idempotency` makes; a second Metrics object on the shared sets;
matching of routes and channel paths. Of the theorems: the assumptions `LockLasts` and `KeepsOrphans` of Redis stated as conditions on
the options alone (a minimum of `expires_after_seconds` that implies the second), and what Redis guarantees beyond them.
