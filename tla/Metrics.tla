------------------------------- MODULE Metrics -------------------------------
(***************************************************************************)
(* The metrics utility with the CloudWatch EMF provider                    *)
(* (metrics/provider/cloudwatch_emf/cloudwatch.py and provider/base.py):   *)
(* one Metrics object of a warm environment, which keeps metrics,          *)
(* dimensions and metadata in memory over invocations that add to them,    *)
(* flush, return or raise, and environments that die.                      *)
(*                                                                         *)
(* What is told apart is where a datum comes from: a metric value is the   *)
(* how-manieth it is, a dimension or metadata value is the invocation that *)
(* set it, 0 if it is configured.                                          *)
(***************************************************************************)
EXTENDS Naturals, Sequences, FiniteSets

CONSTANTS
  Name,            \* metric names
  Dim,             \* names of dimensions
  Service,         \* the name of the service dimension
  None,            \* not set
  MAX_METRICS,     \* 100
  MAX_DIMENSIONS,  \* 29
  Configs,         \* the configurations to try, see Config
  MaxInvocations,  \* bound: invocations
  MaxAdds,         \* bound: metric values ever added
  MaxKills         \* bound: environments that die

DimName == Dim \cup {Service}

\* disabled: POWERTOOLS_METRICS_DISABLED; raise: raise_on_empty_metrics;
\* service: a service name is set; cold: capture_cold_start_metric;
\* defaults: the names of the default dimensions; uses: the names handlers add.
Config == [disabled : BOOLEAN, raise : BOOLEAN, service : BOOLEAN, cold : BOOLEAN,
           defaults : SUBSET Dim, uses : SUBSET Dim]

ASSUME NameAssumption == IsFiniteSet(Name) /\ IsFiniteSet(Dim) /\ Service \notin Dim /\ None \notin Nat
ASSUME LimitAssumption ==
  /\ {MAX_METRICS, MAX_DIMENSIONS} \subseteq Nat \ {0}
  /\ {MaxInvocations, MaxAdds, MaxKills} \subseteq Nat
ASSUME ConfigAssumption ==
  Configs \subseteq Config /\ \A c \in Configs : Cardinality(c.defaults) <= MAX_DIMENSIONS

VARIABLES
  config,
  inv,          \* the invocation that runs or ran last
  running,      \* its handler is running
  metrics,      \* metric_set: the values of each name
  dims,         \* dimension_set
  metadata,     \* metadata_set, one key
  cold,         \* is_cold_start
  owner,        \* history: the invocation of each value ever added
  last,         \* the EMF blob printed by the last step
  times,        \* history: how often each value was printed
  dropped,      \* history: values cleared unpublished, by the user or a death
  emptyEnds,    \* history: invocations whose last flush found no metrics
  kills

memory == <<metrics, dims, metadata>>
history == <<owner, times, dropped, emptyEnds, kills>>
vars == <<config, inv, running, memory, cold, last, history>>

Id == 1..MaxAdds

NoMetrics == [n \in Name |-> <<>>]

\* The names that carry values in m, and the values.
Used(m) == {n \in Name : m[n] # <<>>}
Values(m) == UNION {{m[n][i] : i \in DOMAIN m[n]} : n \in Name}

SetDims(d) == {n \in DimName : d[n] # None}

\* The dimensions a cleared or new object starts with.
DefaultDims == [n \in DimName |-> IF n \in config.defaults THEN 0 ELSE None]

------------------------------------------------------------------------------
(* serialize_metric_set and clear_metrics *)

\* The service dimension is added when it is missing and there is room.
WithService ==
  IF config.service /\ dims[Service] = None /\ Cardinality(SetDims(dims)) < MAX_DIMENSIONS
  THEN [dims EXCEPT ![Service] = 0]
  ELSE dims

Serializable(m) == Used(m) # {} /\ (config.service => WithService[Service] # None)

\* The blob of the metrics m goes to standard output.
Publish(m) ==
  /\ last' = [inv |-> inv, metrics |-> m, dims |-> WithService, metadata |-> metadata]
  /\ times' = [id \in Id |-> IF id \in Values(m) THEN times[id] + 1 ELSE times[id]]

\* Mutant: the dimensions are kept.
ClearKeepsDims ==
  /\ metrics' = NoMetrics
  /\ dims' = WithService
  /\ metadata' = None

Clear ==
  /\ metrics' = NoMetrics
  /\ dims' = DefaultDims
  /\ metadata' = None

\* flush_metrics(raise_on_empty_metrics = raise). If serialising raises, the
\* memory stays as it is, but for the service dimension.
Flush(raise) ==
  \/ /\ Used(metrics) = {} /\ ~raise
     /\ UNCHANGED <<memory, times>> /\ last' = None
  \/ /\ Used(metrics) # {} \/ raise
     /\ \/ /\ config.disabled
           /\ UNCHANGED <<memory, times>> /\ last' = None
        \/ /\ ~config.disabled
           /\ Serializable(metrics)
           /\ Publish(metrics)
           /\ Clear
        \/ /\ ~config.disabled
           /\ ~Serializable(metrics)
           /\ dims' = WithService
           /\ UNCHANGED <<metrics, metadata, times>>
           /\ last' = None

------------------------------------------------------------------------------
(* The handler's calls *)

\* Mutant: only the number of names is compared with the limit.
FullNames(m, n) == Cardinality(Used(m)) = MAX_METRICS

\* n was added to m: the names, or the values of n, have reached the limit.
Full(m, n) == Cardinality(Used(m)) = MAX_METRICS \/ Len(m[n]) = MAX_METRICS

\* Mutant: the metrics that were published at the limit are not cleared.
AddMetricUncleared(n) ==
  /\ running
  /\ Len(owner) < MaxAdds
  /\ owner' = Append(owner, inv)
  /\ LET grown == [metrics EXCEPT ![n] = Append(@, Len(owner) + 1)]
     IN  /\ metrics' = grown
         /\ IF Full(grown, n)
            THEN dims' = WithService /\ Publish(grown)
            ELSE UNCHANGED <<dims, times>> /\ last' = None
  /\ UNCHANGED <<config, inv, running, metadata, cold, dropped, emptyEnds, kills>>

\* add_metric publishes at the limit, whether or not metrics are disabled, and
\* clears the metrics only.
AddMetric(n) ==
  /\ running
  /\ Len(owner) < MaxAdds
  /\ owner' = Append(owner, inv)
  /\ LET grown == [metrics EXCEPT ![n] = Append(@, Len(owner) + 1)]
     IN  \/ /\ ~Full(grown, n)
            /\ metrics' = grown
            /\ last' = None
            /\ UNCHANGED <<dims, times>>
         \/ /\ Full(grown, n)
            /\ dims' = WithService
            /\ IF Serializable(grown)
               THEN metrics' = NoMetrics /\ Publish(grown)
               ELSE metrics' = grown /\ last' = None /\ UNCHANGED times
  /\ UNCHANGED <<config, inv, running, metadata, cold, dropped, emptyEnds, kills>>

\* Mutant: no limit.
AddDimensionUnlimited(d) ==
  /\ running
  /\ d \in config.uses
  /\ dims' = [dims EXCEPT ![d] = inv]
  /\ last' = None
  /\ UNCHANGED <<config, inv, running, metrics, metadata, cold, history>>

\* At the limit add_dimension raises, also for a name that is set already.
AddDimension(d) ==
  /\ running
  /\ d \in config.uses
  /\ Cardinality(SetDims(dims)) # MAX_DIMENSIONS
  /\ dims' = [dims EXCEPT ![d] = inv]
  /\ last' = None
  /\ UNCHANGED <<config, inv, running, metrics, metadata, cold, history>>

AddMetadata ==
  /\ running
  /\ metadata' = inv
  /\ last' = None
  /\ UNCHANGED <<config, inv, running, metrics, dims, cold, history>>

ClearMetrics ==
  /\ running
  /\ Clear
  /\ dropped' = dropped \cup Values(metrics)
  /\ last' = None
  /\ UNCHANGED <<config, inv, running, cold, owner, times, emptyEnds, kills>>

FlushMetrics ==
  /\ running
  /\ Flush(FALSE)
  /\ UNCHANGED <<config, inv, running, cold, owner, dropped, emptyEnds, kills>>

------------------------------------------------------------------------------
(* log_metrics around the handler *)

Invoke ==
  /\ ~running
  /\ inv < MaxInvocations
  /\ inv' = inv + 1
  /\ running' = TRUE
  /\ last' = None
  /\ UNCHANGED <<config, memory, cold, history>>

\* The finally block.
EndInvocation ==
  /\ running
  /\ running' = FALSE
  /\ Flush(config.raise)
  /\ emptyEnds' = IF Used(metrics) = {} THEN emptyEnds \cup {inv} ELSE emptyEnds
  /\ UNCHANGED <<config, inv, owner, dropped, kills>>

\* The cold start metric is a blob of its own with nothing of these sets in it.
HandlerReturns == EndInvocation /\ cold' = (cold /\ ~config.cold)

\* Mutant: an exception skips the flush.
HandlerRaisesUnflushed ==
  /\ running
  /\ running' = FALSE
  /\ last' = None
  /\ UNCHANGED <<config, inv, memory, cold, history>>

HandlerRaises == EndInvocation /\ UNCHANGED cold

\* The environment dies and with it everything in memory.
Kill ==
  /\ kills < MaxKills
  /\ kills' = kills + 1
  /\ running' = FALSE
  /\ Clear
  /\ cold' = TRUE
  /\ dropped' = dropped \cup Values(metrics)
  /\ last' = None
  /\ UNCHANGED <<config, inv, owner, times, emptyEnds>>

Init ==
  /\ config \in Configs
  /\ inv = 0
  /\ running = FALSE
  /\ metrics = NoMetrics
  /\ dims = DefaultDims
  /\ metadata = None
  /\ cold = TRUE
  /\ owner = <<>>
  /\ last = None
  /\ times = [id \in Id |-> 0]
  /\ dropped = {}
  /\ emptyEnds = {}
  /\ kills = 0

Next ==
  \/ Invoke
  \/ \E n \in Name : AddMetric(n)
  \/ \E d \in Dim : AddDimension(d)
  \/ AddMetadata
  \/ ClearMetrics
  \/ FlushMetrics
  \/ HandlerReturns
  \/ HandlerRaises
  \/ Kill

Spec == Init /\ [][Next]_vars

------------------------------------------------------------------------------

Source == 0..MaxInvocations \cup {None}
MetricSet == [Name -> Seq(Id)]
Blob == [inv : 1..MaxInvocations, metrics : MetricSet, dims : [DimName -> Source], metadata : Source]

TypeOK ==
  /\ config \in Configs
  /\ inv \in 0..MaxInvocations
  /\ running \in BOOLEAN
  /\ metrics \in MetricSet
  /\ dims \in [DimName -> Source]
  /\ Cardinality(SetDims(dims)) <= MAX_DIMENSIONS
  /\ metadata \in Source
  /\ cold \in BOOLEAN
  /\ owner \in Seq(1..MaxInvocations) /\ Len(owner) <= MaxAdds
  /\ last \in Blob \cup {None}
  /\ times \in [Id -> Nat]
  /\ dropped \subseteq Id
  /\ emptyEnds \subseteq 1..MaxInvocations
  /\ kills \in 0..MaxKills

\* How often the value id is waiting to be published.
Pending(id) == Cardinality({p \in Name \X Id : p[2] \in DOMAIN metrics[p[1]] /\ metrics[p[1]][p[2]] = id})

\* Every value that was added is in memory, was published or was cleared on
\* purpose or by a death, and only one of these, once: neither the publication
\* at the limit nor the flushes lose a value or publish one twice.
PublishedOnce ==
  \A id \in 1..Len(owner) : Pending(id) + times[id] + (IF id \in dropped THEN 1 ELSE 0) = 1

\* A value is published by the invocation that added it, also if that one
\* raised, so that it carries the dimensions of the right one.
PublishedByOwner ==
  last # None /\ ~config.disabled => \A id \in Values(last.metrics) : owner[id] = last.inv

\* A dimension or metadata of an earlier invocation gets into a blob only if
\* every invocation since then ended without metrics to flush; and every blob
\* has the default dimensions and the service, through all clears
\* (clear_metrics, flush_metrics).
BlobDimensions ==
  last # None =>
    /\ ~config.disabled =>
         \A from \in {last.dims[n] : n \in DimName} \cup {last.metadata} :
           from \in 1..(last.inv - 1) => from..(last.inv - 1) \subseteq emptyEnds
    /\ \A n \in config.defaults \cup (IF config.service THEN {Service} ELSE {}) :
         last.dims[n] # None

\* Between two calls there is always room for another metric and value, so
\* that the limit, which is compared with =, cannot be passed over.
BelowLimit ==
  /\ Cardinality(Used(metrics)) < MAX_METRICS
  /\ \A n \in Name : Len(metrics[n]) < MAX_METRICS
==============================================================================
