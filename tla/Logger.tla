------------------------------- MODULE Logger -------------------------------
(***************************************************************************)
(* The Logger (logging/logger.py, formatter.py and buffer/): a logger and  *)
(* a child of it in a warm environment, the buffer each keeps per trace    *)
(* id, its evictions, the flush on errors, and the keys of the formatter   *)
(* both print with.                                                        *)
(*                                                                         *)
(* Records are numbers, in the order they were logged.  A second Logger of *)
(* the same service is the first one here: it shares all its state.        *)
(***************************************************************************)
EXTENDS Integers, Sequences, FiniteSets, SequencesExt

CONSTANTS
  Apps,            \* the programs to try, see AppType
  Traces,          \* X-Ray trace ids
  Sizes,           \* sizes of a record put in a buffer
  MaxBytes         \* LoggerBufferConfig.max_bytes

Loggers == {"service", "child"}
Severity == [DEBUG |-> 10, INFO |-> 20, WARNING |-> 30, ERROR |-> 40]
Levels == DOMAIN Severity
Never == "NONE"
NoTrace == "no trace"
\* A key of the Lambda context and one of the user.
Keys == {"function_request_id", "user"}

\* decorator: whose inject_lambda_context decorates the handler; buffer:
\* buffer_at_verbosity; constructor: keys given to Logger(...); loggers: those
\* that log; keys: whether the handler changes keys; records, invocations:
\* bounds on their numbers.
AppType == [decorator : Loggers \cup {Never}, clear_state : BOOLEAN, flush_uncaught : BOOLEAN,
            buffer : {Never, "DEBUG", "INFO", "WARNING"}, flush_on_error : BOOLEAN,
            level : Levels, sampled : BOOLEAN, constructor : SUBSET {"user"},
            loggers : SUBSET Loggers,
            keys : BOOLEAN, records : Nat, invocations : Nat]

ASSUME AppsAssumption == Apps \subseteq AppType
ASSUME BytesAssumption ==
  /\ MaxBytes \in Nat \ {0}
  /\ Sizes \subseteq Nat \ {0}
  /\ NoTrace \notin Traces

VARIABLES
  app,            \* the program of this behaviour
  mode,           \* "init" while modules are imported, "handler" or "idle"
  cold,           \* no invocation has begun in this environment
  traces,         \* ghost, traces[i]: trace id of invocation i
  level,          \* level[l]: level of the standard logger under l
  records,        \* ghost: what was logged
  caches,         \* caches[l]: LoggerBufferCache.cache, a KeyBufferCache per trace id
  cleared,        \* ghost, cleared[l]: records of the running invocation up to
                  \* this one were flushed or cleared
  emitted,        \* ghost: lines printed, in order
  log_format,     \* the formatter's keys, each with the invocation that set it
  keys_combined,  \* the keys clear_state restores
  thread_keys,    \* THREAD_LOCAL_KEYS of the main thread, likewise
  in_context      \* inside a block of append_context_keys that the formatter in
                  \* use entered (bound: one at a time)

buffer_vars == <<records, caches, cleared, emitted>>
key_vars == <<log_format, keys_combined, thread_keys, in_context>>
vars == <<app, mode, cold, traces, level, buffer_vars, key_vars>>

\* The running invocation, 0 while modules are imported.
Running == IF mode = "handler" THEN Len(traces) ELSE 0
TraceOf(i) == IF i = 0 THEN NoTrace ELSE traces[i]
\* get_tracer_id: Lambda sets the variable for an invocation only.
TracerId == TraceOf(Running)

-----------------------------------------------------------------------------
(* Keys of the formatter *)

Empty == <<>>
With(map, k, v) == [x \in DOMAIN map \cup {k} |-> IF x = k THEN v ELSE map[x]]
Without(map, k) == [x \in DOMAIN map \ {k} |-> map[x]]
\* Both maps; where both have a key, the first counts.
Over(first, second) ==
  [x \in DOMAIN first \cup DOMAIN second |-> IF x \in DOMAIN first THEN first[x] ELSE second[x]]
Owners(keys) == {keys[k] : k \in DOMAIN keys}
ConstructorKeys == [k \in app.constructor |-> 0]
ContextKeys(i) == [k \in {"function_request_id"} |-> i]

\* The keys after every block of append_context_keys is left: a key it set is
\* removed, also one that had a value before, from the formatter that entered it.
Unwound == IF in_context THEN Without(log_format, "user") ELSE log_format

\* structure_logs(**keys) by l.  The child is not marked as preconfigured: it
\* gives the handler a new formatter, whose keys no open block will remove, and
\* leaves the thread's keys.
StructureLogs(l, keys) ==
  IF l = "service"
  THEN /\ log_format' = Over(keys, keys_combined)
       /\ thread_keys' = Empty
       /\ UNCHANGED <<keys_combined, in_context>>
  ELSE /\ log_format' = keys
       /\ keys_combined' = keys
       /\ in_context' = FALSE
       /\ UNCHANGED thread_keys

KeyStep == mode # "idle" /\ app.keys /\ UNCHANGED <<app, mode, cold, traces, level, buffer_vars>>

\* append_keys, also through set_correlation_id and structure_logs(append=True).
AppendKeys ==
  /\ KeyStep
  /\ log_format' = With(log_format, "user", Running)
  /\ UNCHANGED <<keys_combined, thread_keys, in_context>>

RemoveKeys ==
  /\ KeyStep
  /\ log_format' = Without(log_format, "user")
  /\ UNCHANGED <<keys_combined, thread_keys, in_context>>

\* clear_state() of l: its structure_logs gets the service keys only.
ClearState(l) == KeyStep /\ StructureLogs(l, Empty)

EnterContext ==
  /\ KeyStep
  /\ mode = "handler"
  /\ ~in_context
  /\ in_context' = TRUE
  /\ log_format' = With(log_format, "user", Running)
  /\ UNCHANGED <<keys_combined, thread_keys>>

ExitContext ==
  /\ KeyStep
  /\ in_context
  /\ in_context' = FALSE
  /\ log_format' = Unwound
  /\ UNCHANGED <<keys_combined, thread_keys>>

ThreadKeys ==
  /\ KeyStep
  /\ thread_keys' \in {With(thread_keys, "user", Running), Without(thread_keys, "user"), Empty}
  /\ UNCHANGED <<log_format, keys_combined, in_context>>

-----------------------------------------------------------------------------
(* LoggerBufferCache *)

NewBuffer == [cache |-> <<>>, current_size |-> 0, has_evicted |-> FALSE]
\* The size of the records s of log together.
Total(s, log) ==
  LET sum[n \in 0 .. Len(s)] == IF n = 0 THEN 0 ELSE sum[n - 1] + log[s[n]].size
  IN sum[Len(s)]
Get(cache, t) == IF t \in DOMAIN cache THEN cache[t].cache ELSE <<>>

\* Mutant: removing a record does not give back its size.
RemoveOldestKeepsSize(kb, n) ==
  [kb EXCEPT !.cache = SubSeq(@, n + 1, Len(@)), !.has_evicted = @ \/ n > 0]

\* kb without its n oldest records.
RemoveOldest(kb, n) ==
  [cache |-> SubSeq(kb.cache, n + 1, Len(kb.cache)),
   current_size |-> kb.current_size - Total(SubSeq(kb.cache, 1, n), records),
   has_evicted |-> kb.has_evicted \/ n > 0]

\* As few evictions as make room for size, all of them if nothing does.
Evictions(kb, size) ==
  LET enough == {n \in 0 .. Len(kb.cache) :
                   n = Len(kb.cache) \/ RemoveOldest(kb, n).current_size + size <= MaxBytes}
  IN CHOOSE n \in enough : \A m \in enough : n <= m

KeyBufferAdd(kb, r, size) ==
  LET room == RemoveOldest(kb, Evictions(kb, size))
  IN [room EXCEPT !.cache = Append(@, r), !.current_size = @ + size]

Oversized(size) == size > MaxBytes

\* Mutant: the size of a record alone is not compared with the bound.
CacheAddAnySize(cache, t, r, size) ==
  LET current == IF Get(cache, t) = <<>> THEN Empty ELSE cache
      kb == IF t \in DOMAIN current THEN current[t] ELSE NewBuffer
  IN With(current, t, KeyBufferAdd(kb, r, size))

\* The cache after _add_log_record_to_buffer under trace id t: a trace without
\* buffered records empties it first; an oversized record is not added.
CacheAdd(cache, t, r, size) ==
  LET current == IF Get(cache, t) = <<>> THEN Empty ELSE cache
      kb == IF t \in DOMAIN current THEN current[t] ELSE NewBuffer
  IN IF Oversized(size) THEN current ELSE With(current, t, KeyBufferAdd(kb, r, size))

-----------------------------------------------------------------------------
(* Logging *)

Buffering == app.buffer # Never
Buffers(lvl) == Buffering /\ Severity[lvl] <= Severity[app.buffer]
IsEnabled(l, lvl) == Severity[lvl] >= Severity[level[l]]

\* A record is formatted when it is printed, with the keys of that moment.
Line(r, keys) ==
  [record |-> r, inv |-> Running, keys |-> Owners(keys), thread |-> Owners(thread_keys),
   request |-> IF "function_request_id" \in DOMAIN keys THEN keys["function_request_id"] ELSE 0]
Lines(s, keys) == [i \in DOMAIN s |-> Line(s[i], keys)]

Next_r == Len(records) + 1
Record(l, size, buffered) ==
  /\ mode # "idle"
  /\ l \in app.loggers
  /\ Len(records) < app.records
  /\ records' = Append(records, [logger |-> l, size |-> size, inv |-> Running,
                                 buffered |-> buffered])
  /\ UNCHANGED <<app, mode, cold, traces, level, key_vars>>

\* Without a trace id, that is outside of an invocation, the record is lost.
LogBuffered(l, lvl, size) ==
  /\ Buffers(lvl)
  /\ Record(l, size, TracerId # NoTrace /\ ~Oversized(size))
  /\ IF TracerId = NoTrace
     THEN UNCHANGED <<caches, emitted>>
     ELSE /\ caches' = [caches EXCEPT ![l] = CacheAdd(@, TracerId, Next_r, size)]
          /\ emitted' = IF Oversized(size) THEN Append(emitted, Line(Next_r, log_format))
                        ELSE emitted
  /\ UNCHANGED cleared

\* debug, info and warning that are not buffered.
LogNow(l, lvl) ==
  /\ lvl # "ERROR" /\ ~Buffers(lvl)
  /\ Record(l, 1, FALSE)
  /\ emitted' = IF IsEnabled(l, lvl) THEN Append(emitted, Line(Next_r, log_format)) ELSE emitted
  /\ UNCHANGED <<caches, cleared>>

\* What flush_buffer of l prints, and the cache it leaves.
Flushed(l) == IF Buffering THEN Get(caches[l], TracerId) ELSE <<>>
Flushes(l, keys, after) ==
  /\ emitted' = emitted \o Lines(Flushed(l), keys) \o after
  /\ caches' = [caches EXCEPT ![l] = IF Flushed(l) = <<>> THEN @ ELSE Empty]
  /\ cleared' = [cleared EXCEPT ![l] = IF Flushed(l) = <<>> THEN @ ELSE Len(records)]

\* error, critical and exception: flush_on_error_log flushes first.
LogError(l) ==
  LET now == IF IsEnabled(l, "ERROR") THEN <<Line(Next_r, log_format)>> ELSE <<>>
  IN /\ Record(l, 1, FALSE)
     /\ IF app.flush_on_error THEN Flushes(l, log_format, now)
        ELSE emitted' = emitted \o now /\ UNCHANGED <<caches, cleared>>

FlushBuffer(l) ==
  /\ mode # "idle"
  /\ Flushes(l, log_format, <<>>)
  /\ UNCHANGED <<app, mode, cold, traces, level, records, key_vars>>

\* The whole cache is dropped, whatever its traces.
Cleared(l) == caches' = [caches EXCEPT ![l] = Empty]

ClearBuffer(l) ==
  /\ mode # "idle" /\ Buffering
  /\ Cleared(l)
  /\ cleared' = [cleared EXCEPT ![l] = Len(records)]
  /\ UNCHANGED <<app, mode, cold, traces, level, records, emitted, key_vars>>

-----------------------------------------------------------------------------
(* The environment and the decorator inject_lambda_context *)

Decorated == app.decorator # Never
NothingCleared == cleared' = [l \in Loggers |-> 0]

\* setLevel and _configure_sampling.
SampledLevels == IF app.sampled THEN {app.level, "DEBUG"} ELSE {app.level}
LevelsWith(lvl) == [l \in Loggers |-> IF l = "service" THEN lvl ELSE app.level]

Fresh ==
  /\ mode = "init"
  /\ cold = TRUE
  /\ level \in {LevelsWith(lvl) : lvl \in SampledLevels}
  /\ caches = [l \in Loggers |-> Empty]
  /\ log_format = ConstructorKeys /\ keys_combined = ConstructorKeys
  /\ thread_keys = Empty
  /\ in_context = FALSE

Init ==
  /\ app \in Apps
  /\ traces = <<>> /\ records = <<>> /\ emitted = <<>>
  /\ cleared = [l \in Loggers |-> 0]
  /\ Fresh

\* The first part of decorate: keys of the context, then the level is drawn
\* anew, except on a cold start.
Begin(t) ==
  /\ mode # "handler"
  /\ Len(traces) < app.invocations
  /\ mode' = "handler"
  /\ cold' = FALSE
  /\ traces' = Append(traces, t)
  /\ LET context == ContextKeys(Len(traces'))
     IN IF Decorated /\ app.clear_state
        THEN StructureLogs(app.decorator, context)
        ELSE /\ log_format' = IF Decorated THEN Over(context, log_format) ELSE log_format
             /\ UNCHANGED <<keys_combined, thread_keys, in_context>>
  /\ IF Decorated /\ app.sampled /\ ~cold
     THEN \E lvl \in SampledLevels : level' = [level EXCEPT ![app.decorator] = lvl]
     ELSE UNCHANGED level
  /\ NothingCleared
  /\ UNCHANGED <<app, records, caches, emitted>>

Ended ==
  /\ mode = "handler"
  /\ mode' = "idle"
  /\ in_context' = FALSE
  /\ log_format' = Unwound
  /\ NothingCleared
  /\ UNCHANGED <<app, cold, traces, level, records, keys_combined, thread_keys>>

\* Mutant: the decorator leaves the buffer as it is.
DecoratorClearsNothing == UNCHANGED caches

\* The finally block: the decorating logger's cache, never that of the other.
DecoratorClears ==
  IF Decorated /\ Buffering THEN Cleared(app.decorator) ELSE UNCHANGED caches

Return == Ended /\ DecoratorClears /\ UNCHANGED emitted

\* An exception leaves the handler, through the decorator if there is one.
Raise ==
  /\ Ended
  /\ DecoratorClears
  /\ emitted' = IF Decorated /\ app.flush_uncaught
                THEN emitted \o Lines(Flushed(app.decorator), Unwound) ELSE emitted

\* A time-out or a crash: the next environment imports the modules again.
Restart ==
  /\ mode = "handler"
  /\ mode' = "init"
  /\ cold' = TRUE
  /\ \E lvl \in SampledLevels : level' = LevelsWith(lvl)
  /\ caches' = [l \in Loggers |-> Empty]
  /\ NothingCleared
  /\ log_format' = ConstructorKeys /\ keys_combined' = ConstructorKeys
  /\ thread_keys' = Empty
  /\ in_context' = FALSE
  /\ UNCHANGED <<app, traces, records, emitted>>

Next ==
  \/ \E t \in Traces : Begin(t)
  \/ \E l \in Loggers :
       \/ \E lvl \in Levels, size \in Sizes : LogBuffered(l, lvl, size)
       \/ \E lvl \in Levels : LogNow(l, lvl)
       \/ LogError(l)
       \/ FlushBuffer(l)
       \/ ClearBuffer(l)
       \/ ClearState(l)
  \/ AppendKeys \/ RemoveKeys \/ EnterContext \/ ExitContext \/ ThreadKeys
  \/ Return \/ Raise \/ Restart

Spec == Init /\ [][Next]_vars

-----------------------------------------------------------------------------
(* Properties *)

KeyMaps == UNION {[ks -> 0 .. app.invocations] : ks \in SUBSET Keys}
BufferType(kb) ==
  /\ kb.cache \in Seq(DOMAIN records) /\ kb.cache # <<>>
  /\ kb.current_size \in 1 .. MaxBytes
  /\ kb.has_evicted \in BOOLEAN

\* The variables have their types: a buffer (buffer/cache.py) is never empty
\* nor larger than max_bytes, and a cache holds the buffer of one trace only.
TypeOK ==
  /\ app \in Apps
  /\ mode \in {"init", "handler", "idle"}
  /\ cold \in BOOLEAN
  /\ traces \in Seq(Traces) /\ Len(traces) <= app.invocations
  /\ level \in [Loggers -> Levels]
  /\ Len(records) <= app.records
  /\ DOMAIN caches = Loggers
  /\ \A l \in Loggers :
       /\ Cardinality(DOMAIN caches[l]) <= 1 /\ DOMAIN caches[l] \subseteq Traces
       /\ \A t \in DOMAIN caches[l] : BufferType(caches[l][t])
  /\ cleared \in [Loggers -> 0 .. Len(records)]
  /\ {log_format, keys_combined, thread_keys} \subseteq KeyMaps
  /\ in_context \in BOOLEAN

Printed == {emitted[i].record : i \in DOMAIN emitted}

\* What the running invocation has put in the buffer of l since it was last
\* flushed or cleared.
Pending(l) == {r \in DOMAIN records : /\ records[r].logger = l
                                      /\ records[r].buffered
                                      /\ records[r].inv = Running
                                      /\ r > cleared[l]}

\* A buffer holds the newest records of its trace, in order, and its running
\* size is theirs (KeyBufferCache.current_size). Nothing of the running
\* invocation is missing, unless something was evicted, which the flag tells
\* the next flush to warn of (LoggerBufferCache.add, flush_buffer).
BufferIsNewest ==
  \A l \in Loggers :
    /\ \A t \in DOMAIN caches[l] :
         LET kb == caches[l][t]
         IN /\ kb.current_size = Total(kb.cache, records)
            /\ \A i, j \in DOMAIN kb.cache : i < j => kb.cache[i] < kb.cache[j]
            /\ \A i \in DOMAIN kb.cache : TraceOf(records[kb.cache[i]].inv) = t
    /\ mode = "handler" =>
         LET kept == ToSet(Get(caches[l], TracerId))
             lost == Pending(l) \ kept
         IN /\ \A r \in lost, k \in kept : r < k
            /\ lost # {} => kept # {} /\ caches[l][TracerId].has_evicted
            /\ Printed \cap kept = {}

\* A record that lingers: it was buffered by a logger that decorates no handler, and
\* no decorator clears its buffer when the invocation ends.
Lingers(r) == r.buffered /\ r.logger # app.decorator

\* Every record is printed at most once, flushed records in the order they were
\* logged, and in the invocation that logged it; one that lingers may be printed
\* in a later invocation of the same trace, which contradicts OwnBuffer. A line
\* never carries the request id of another invocation than the one that prints
\* it, nor, with clear_state=True, a key another invocation set (decorate,
\* flush_buffer, structure_logs). Only a child's decorator leaves the thread's keys.
EmittedByOwner ==
  \A i \in DOMAIN emitted :
    LET e == emitted[i]
        r == records[e.record]
    IN /\ r.inv = e.inv \/ (Lingers(r) /\ TraceOf(r.inv) = TraceOf(e.inv))
       /\ \A j \in 1 .. i - 1 :
            LET f == emitted[j]
            IN /\ f.record # e.record
               /\ records[f.record].buffered /\ r.buffered /\ records[f.record].logger = r.logger
                    => f.record < e.record
       /\ Decorated => e.request \in {0, e.inv}
       /\ Decorated /\ app.clear_state =>
            e.keys \cup (IF app.decorator = "child" THEN {} ELSE e.thread) \subseteq {0, e.inv}

\* What docs/core/logger.md and _add_log_record_to_buffer say: each invocation has
\* its own buffer, and nothing of an earlier one is printed in it. The buffer
\* is that of a trace, and of a logger that decorates nothing it is not cleared
\* when the invocation ends, so this does not hold where invocations share
\* a trace (LoggerSharedTrace.cfg).
OwnBuffer == \A i \in DOMAIN emitted : records[emitted[i].record].inv = emitted[i].inv
=============================================================================
