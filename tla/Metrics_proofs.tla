---------------------------- MODULE Metrics_proofs ----------------------------
(***************************************************************************)
(* Proofs about module Metrics: every value added is published once, by    *)
(* the invocation that added it, with the dimensions it should carry, and  *)
(* the limits are never passed; for any names, limits and configurations,  *)
(* over any number of invocations and deaths of the environment.           *)
(***************************************************************************)
EXTENDS Metrics, FiniteSetTheorems, TLAPS

------------------------------------------------------------------------------
(* The invariant, first what holds of every configuration *)

\* No value is in m twice.
Distinct(m) ==
  \A j, k \in Name : \A p \in DOMAIN m[j], q \in DOMAIN m[k] :
    m[j][p] = m[k][q] => j = k /\ p = q

\* Where each value is, added ones and those to come.
Accounted ==
  /\ Distinct(metrics)
  /\ \A n \in Name : Len(metrics[n]) <= Len(owner)
  /\ Values(metrics) \subseteq 1..Len(owner)
  /\ \A id \in 1..Len(owner) :
       IF id \in Values(metrics) \cup dropped
       THEN times[id] = 0 /\ ~(id \in Values(metrics) /\ id \in dropped)
       ELSE times[id] = 1
  /\ \A id \in Id : id > Len(owner) => times[id] = 0 /\ id \notin dropped

Begun == running => inv >= 1

DefaultsSet == \A n \in config.defaults : dims[n] # None

MemoryInv == TypeOK /\ Begun /\ Accounted

\* A service leaves room for its dimension next to the default ones and those
\* that the handlers add.
Room == \A c \in Configs : c.service => Cardinality(c.defaults \cup c.uses) < MAX_DIMENSIONS

Fits == SetDims(dims) \subseteq config.defaults \cup config.uses \cup {Service}

\* The invocations that what is in memory comes from.
Current(from) ==
  from \in Nat \ {0} => from <= inv /\ from..(IF running THEN inv - 1 ELSE inv) \subseteq emptyEnds

Timely ==
  /\ ~running => Values(metrics) = {}
  /\ \A id \in Values(metrics) : owner[id] = inv
  /\ \A n \in DimName : Current(dims[n])
  /\ Current(metadata)

RoomInv ==
  /\ MemoryInv /\ DefaultsSet /\ Fits /\ BelowLimit
  /\ ~config.disabled => Timely
  /\ PublishedByOwner /\ BlobDimensions

LEMMA Types ==
  ASSUME TypeOK
  PROVE  /\ config \in Config /\ config \in Configs
         /\ inv \in 0..MaxInvocations /\ running \in BOOLEAN
         /\ metrics \in MetricSet
         /\ dims \in [DimName -> Source] /\ metadata \in Source
         /\ IsFiniteSet(SetDims(dims)) /\ Cardinality(SetDims(dims)) \in 0..MAX_DIMENSIONS
         /\ owner \in Seq(1..MaxInvocations) /\ Len(owner) \in 0..MaxAdds
         /\ last \in Blob \cup {None} /\ times \in [Id -> Nat]
         /\ dropped \subseteq Id /\ emptyEnds \subseteq 1..MaxInvocations
         /\ MaxInvocations \in Nat /\ MaxAdds \in Nat
         /\ MAX_METRICS \in Nat \ {0} /\ MAX_DIMENSIONS \in Nat \ {0}
PROOF
<1>1. IsFiniteSet(DimName)
  BY NameAssumption, FS_AddElement DEF DimName
<1>2. IsFiniteSet(SetDims(dims)) /\ Cardinality(SetDims(dims)) \in Nat
  BY <1>1, FS_Subset, FS_CardinalityType DEF SetDims
<1>3. QED
  BY <1>2, LimitAssumption, ConfigAssumption DEF TypeOK

------------------------------------------------------------------------------
(* What the operators do *)

LEMMA InValues ==
  ASSUME NEW m, NEW id
  PROVE  id \in Values(m) <=> \E n \in Name : \E p \in DOMAIN m[n] : m[n][p] = id
PROOF
  BY DEF Values

LEMMA EmptyMetrics ==
  /\ NoMetrics \in MetricSet
  /\ Values(NoMetrics) = {} /\ Used(NoMetrics) = {}
  /\ Distinct(NoMetrics)
  /\ \A n \in Name : Len(NoMetrics[n]) = 0
PROOF
  BY DEF NoMetrics, MetricSet, Values, Used, Distinct

LEMMA ValuesUsed ==
  ASSUME NEW m \in MetricSet
  PROVE  Values(m) = {} <=> Used(m) = {}
PROOF
<1>1. ASSUME NEW n \in Name PROVE m[n] \in Seq(Id) /\ (m[n] # <<>> => 1 \in DOMAIN m[n])
  BY DEF MetricSet
<1>2. ASSUME Values(m) = {}, NEW n \in Used(m) PROVE FALSE
  <2>1. n \in Name /\ 1 \in DOMAIN m[n]
    BY <1>1 DEF Used
  <2>2. m[n][1] \in Values(m)
    BY <2>1, InValues
  <2>3. QED
    BY <1>2, <2>2
<1>3. ASSUME Used(m) = {}, NEW id \in Values(m) PROVE FALSE
  BY <1>3, InValues DEF Used
<1>4. QED
  BY <1>2, <1>3

\* m with the value id added to n.
LEMMA Grown ==
  ASSUME NEW m \in MetricSet, NEW n \in Name, NEW id \in Id, NEW g \in MetricSet,
         g[n] = Append(m[n], id), \A k \in Name : k # n => g[k] = m[k]
  PROVE  /\ Len(g[n]) = Len(m[n]) + 1 /\ Len(m[n]) \in Nat
         /\ Values(g) = Values(m) \cup {id}
         /\ Used(g) = Used(m) \cup {n}
         /\ Distinct(m) /\ id \notin Values(m) => Distinct(g)
PROOF
<1>1. m[n] \in Seq(Id) /\ Len(m[n]) \in Nat /\ DOMAIN m[n] = 1..Len(m[n])
  BY DEF MetricSet
<1>2. /\ Len(g[n]) = Len(m[n]) + 1 /\ DOMAIN g[n] = 1..(Len(m[n]) + 1)
      /\ \A p \in 1..Len(m[n]) : g[n][p] = m[n][p]
      /\ g[n][Len(m[n]) + 1] = id /\ g[n] # <<>>
  BY <1>1
<1>3. ASSUME NEW k \in Name, NEW p \in DOMAIN g[k]
      PROVE  \/ p \in DOMAIN m[k] /\ g[k][p] = m[k][p]
             \/ k = n /\ p = Len(m[n]) + 1 /\ g[k][p] = id
  <2>1. CASE k # n
    BY <2>1
  <2>2. CASE k = n
    <3>1. p \in 1..Len(m[n]) \/ p = Len(m[n]) + 1
      BY <1>1, <1>2, <2>2
    <3>2. QED
      BY <1>1, <1>2, <2>2, <3>1
  <2>3. QED
    BY <2>1, <2>2
<1>4. ASSUME NEW k \in Name, NEW p \in DOMAIN m[k]
      PROVE  p \in DOMAIN g[k] /\ g[k][p] = m[k][p]
  <2>1. CASE k # n
    BY <2>1
  <2>2. CASE k = n
    <3>1. p \in 1..Len(m[n]) /\ p \in 1..(Len(m[n]) + 1)
      BY <1>1, <2>2
    <3>2. QED
      BY <1>2, <2>2, <3>1
  <2>3. QED
    BY <2>1, <2>2
<1>5. Values(g) \subseteq Values(m) \cup {id}
  <2>1. ASSUME NEW x \in Values(g) PROVE x \in Values(m) \cup {id}
    <3>1. PICK k \in Name : \E p \in DOMAIN g[k] : g[k][p] = x
      BY <2>1, InValues
    <3>2. PICK p \in DOMAIN g[k] : g[k][p] = x
      BY <3>1
    <3>3. QED
      BY <1>3, <3>2, InValues
  <2>2. QED
    BY <2>1
<1>6. Values(m) \subseteq Values(g)
  <2>1. ASSUME NEW x \in Values(m) PROVE x \in Values(g)
    <3>1. PICK k \in Name : \E p \in DOMAIN m[k] : m[k][p] = x
      BY <2>1, InValues
    <3>2. PICK p \in DOMAIN m[k] : m[k][p] = x
      BY <3>1
    <3>3. QED
      BY <1>4, <3>2, InValues
  <2>2. QED
    BY <2>1
<1>7. id \in Values(g)
  <2>1. Len(m[n]) + 1 \in DOMAIN g[n]
    BY <1>1, <1>2
  <2>2. QED
    BY <1>2, <2>1, InValues
<1>8. Used(g) = Used(m) \cup {n}
  BY <1>1, <1>2 DEF Used
<1>9. ASSUME Distinct(m), id \notin Values(m) PROVE Distinct(g)
  <2>1. ASSUME NEW k \in Name, NEW p \in DOMAIN m[k] PROVE m[k][p] # id
    BY <1>9, InValues
  <2>2. SUFFICES ASSUME NEW j \in Name, NEW k \in Name, NEW p \in DOMAIN g[j],
                        NEW q \in DOMAIN g[k], g[j][p] = g[k][q]
                 PROVE  j = k /\ p = q
    BY DEF Distinct
  <2>3. CASE p \in DOMAIN m[j] /\ q \in DOMAIN m[k]
    BY <1>4, <1>9, <2>2, <2>3 DEF Distinct
  <2>4. CASE p \notin DOMAIN m[j]
    BY <1>3, <2>1, <2>2, <2>4
  <2>5. CASE q \notin DOMAIN m[k]
    BY <1>3, <2>1, <2>2, <2>5
  <2>6. QED
    BY <2>3, <2>4, <2>5
<1>10. QED
  BY <1>1, <1>2, <1>5, <1>6, <1>7, <1>8, <1>9

\* The service dimension takes the last free place at most.
LEMMA ServiceAdded ==
  ASSUME TypeOK
  PROVE  /\ WithService \in [DimName -> Source]
         /\ Cardinality(SetDims(WithService)) <= MAX_DIMENSIONS
         /\ SetDims(dims) \subseteq SetDims(WithService)
         /\ SetDims(WithService) \subseteq SetDims(dims) \cup {Service}
         /\ \A n \in DimName : WithService[n] \in {dims[n], 0}
PROOF
<1>1. /\ dims \in [DimName -> Source] /\ IsFiniteSet(SetDims(dims))
      /\ Cardinality(SetDims(dims)) \in 0..MAX_DIMENSIONS /\ MAX_DIMENSIONS \in Nat
      /\ Service \in DimName /\ 0 \in Source /\ 0 # None
  BY Types, NameAssumption DEF DimName, Source
<1>2. CASE WithService = dims
  BY <1>1, <1>2
<1>3. CASE /\ WithService = [dims EXCEPT ![Service] = 0]
           /\ dims[Service] = None /\ Cardinality(SetDims(dims)) < MAX_DIMENSIONS
  <2>1. /\ WithService \in [DimName -> Source]
        /\ \A n \in DimName : WithService[n] = IF n = Service THEN 0 ELSE dims[n]
    BY <1>1, <1>3
  <2>2. SetDims(WithService) = SetDims(dims) \cup {Service}
    BY <1>1, <2>1 DEF SetDims
  <2>3. Cardinality(SetDims(WithService)) \in {Cardinality(SetDims(dims)), Cardinality(SetDims(dims)) + 1}
    BY <1>1, <2>2, FS_AddElement
  <2>4. Cardinality(SetDims(WithService)) <= MAX_DIMENSIONS
    BY <1>1, <1>3, <2>3
  <2>5. QED
    BY <2>1, <2>2, <2>4
<1>4. QED
  BY <1>2, <1>3 DEF WithService

LEMMA Defaults ==
  ASSUME TypeOK
  PROVE  /\ DefaultDims \in [DimName -> Source]
         /\ SetDims(DefaultDims) = config.defaults
         /\ Cardinality(SetDims(DefaultDims)) <= MAX_DIMENSIONS
         /\ \A n \in DimName : DefaultDims[n] \in {0, None}
PROOF
<1>1. /\ config.defaults \subseteq DimName /\ Cardinality(config.defaults) <= MAX_DIMENSIONS
      /\ {0, None} \subseteq Source /\ 0 # None
  BY Types, ConfigAssumption, NameAssumption DEF Config, DimName, Source
<1>2. QED
  BY <1>1 DEF DefaultDims, SetDims

\* What a value in memory counts for in PublishedOnce.
LEMMA Counted ==
  ASSUME TypeOK, Accounted, NEW id \in Id
  PROVE  Pending(id) = IF id \in Values(metrics) THEN 1 ELSE 0
PROOF
<1> DEFINE Slots == {p \in Name \X Id : p[2] \in DOMAIN metrics[p[1]] /\ metrics[p[1]][p[2]] = id}
<1>1. ASSUME NEW n \in Name PROVE DOMAIN metrics[n] \subseteq Id
  <2>1. metrics[n] \in Seq(Id) /\ Len(metrics[n]) \in Nat /\ DOMAIN metrics[n] = 1..Len(metrics[n])
    BY Types DEF MetricSet
  <2>2. Len(metrics[n]) <= MaxAdds
    BY <2>1, Types DEF Accounted
  <2>3. QED
    BY <2>1, <2>2, Types DEF Id
<1>2. CASE id \in Values(metrics)
  <2>1. PICK n \in Name : \E p \in DOMAIN metrics[n] : metrics[n][p] = id
    BY <1>2, InValues
  <2>2. PICK p \in DOMAIN metrics[n] : metrics[n][p] = id
    BY <2>1
  <2>3. <<n, p>> \in Slots
    BY <1>1, <2>2
  <2>4. ASSUME NEW s \in Slots PROVE s = <<n, p>>
    BY <2>2, <2>4 DEF Accounted, Distinct
  <2>5. Slots = {<<n, p>>}
    BY <2>3, <2>4
  <2>6. QED
    BY <1>2, <2>5, FS_Singleton DEF Pending
<1>3. CASE id \notin Values(metrics)
  <2>1. Slots = {}
    BY <1>3, InValues
  <2>2. QED
    BY <1>3, <2>1, FS_EmptySet DEF Pending
<1>4. QED
  BY <1>2, <1>3

\* flush_metrics leaves the memory alone, or publishes and clears.
FlushKeeps ==
  /\ UNCHANGED <<metrics, metadata, times>> /\ dims' \in {dims, WithService} /\ last' = None

LEMMA Flushed ==
  ASSUME NEW raise, Flush(raise)
  PROVE  \/ FlushKeeps /\ (Used(metrics) = {} \/ config.disabled \/ ~Serializable(metrics))
         \/ ~config.disabled /\ Serializable(metrics) /\ Publish(metrics) /\ Clear
PROOF
  BY DEF Flush, FlushKeeps, memory

\* AddMetric leaves its value in memory, or publishes it with the others.
LEMMA MetricAdded ==
  ASSUME MemoryInv, NEW n \in Name, AddMetric(n)
  PROVE  \E grown \in MetricSet :
           /\ Len(owner) + 1 \in Id /\ Len(owner) \in Nat /\ running /\ inv \in 1..MaxInvocations
           /\ owner' = Append(owner, inv)
           /\ UNCHANGED <<config, inv, running, metadata, cold, dropped, emptyEnds, kills>>
           /\ Len(grown[n]) = Len(metrics[n]) + 1 /\ Len(metrics[n]) \in Nat
           /\ \A k \in Name : k # n => grown[k] = metrics[k]
           /\ Values(grown) = Values(metrics) \cup {Len(owner) + 1}
           /\ Used(grown) = Used(metrics) \cup {n}
           /\ Distinct(grown)
           /\ \/ metrics' = grown /\ ~Full(grown, n) /\ last' = None /\ UNCHANGED <<dims, times>>
              \/ /\ Full(grown, n) /\ dims' = WithService
                 /\ \/ Serializable(grown) /\ metrics' = NoMetrics /\ Publish(grown)
                    \/ ~Serializable(grown) /\ metrics' = grown /\ last' = None /\ UNCHANGED times
PROOF
<1>0. PICK grown : grown = [metrics EXCEPT ![n] = Append(@, Len(owner) + 1)]
  OBVIOUS
<1>1. /\ running /\ owner' = Append(owner, inv) /\ Len(owner) < MaxAdds
      /\ UNCHANGED <<config, inv, running, metadata, cold, dropped, emptyEnds, kills>>
      /\ \/ metrics' = grown /\ ~Full(grown, n) /\ last' = None /\ UNCHANGED <<dims, times>>
         \/ /\ Full(grown, n) /\ dims' = WithService
            /\ \/ Serializable(grown) /\ metrics' = NoMetrics /\ Publish(grown)
               \/ ~Serializable(grown) /\ metrics' = grown /\ last' = None /\ UNCHANGED times
  BY <1>0 DEF AddMetric
<1>2. /\ metrics \in MetricSet /\ Len(owner) \in Nat /\ Len(owner) + 1 \in Id
      /\ inv \in 1..MaxInvocations
  BY <1>1, Types DEF MemoryInv, Begun, Id
<1>3. Len(owner) + 1 \notin Values(metrics) /\ Distinct(metrics)
  BY <1>2 DEF MemoryInv, Accounted
<1>4. /\ grown \in MetricSet /\ grown[n] = Append(metrics[n], Len(owner) + 1)
      /\ \A k \in Name : k # n => grown[k] = metrics[k]
  <2>1. metrics[n] \in Seq(Id)
    BY <1>2 DEF MetricSet
  <2>2. QED
    BY <1>0, <1>2, <2>1 DEF MetricSet
<1>5. /\ Len(grown[n]) = Len(metrics[n]) + 1 /\ Len(metrics[n]) \in Nat
      /\ Values(grown) = Values(metrics) \cup {Len(owner) + 1}
      /\ Used(grown) = Used(metrics) \cup {n}
      /\ Distinct(grown)
  <2>0. PICK id : id = Len(owner) + 1
    OBVIOUS
  <2>1. id \in Id /\ grown[n] = Append(metrics[n], id) /\ id \notin Values(metrics)
    BY <1>2, <1>3, <1>4, <2>0
  <2>2. QED
    BY <1>2, <1>3, <1>4, <2>0, <2>1, Grown
<1>6. QED
  BY <1>1, <1>2, <1>4, <1>5

LEMMA Published ==
  ASSUME TypeOK, Begun, running, NEW m \in MetricSet, Publish(m)
  PROVE  /\ last' \in Blob /\ times' \in [Id -> Nat]
         /\ \A id \in Id : times'[id] = IF id \in Values(m) THEN times[id] + 1 ELSE times[id]
         /\ last'.inv = inv /\ last'.metrics = m /\ last'.dims = WithService
         /\ last'.metadata = metadata
PROOF
<1>1. /\ inv \in 1..MaxInvocations /\ WithService \in [DimName -> Source] /\ metadata \in Source
      /\ times \in [Id -> Nat]
  BY Types, ServiceAdded DEF Begun
<1>2. last' = [inv |-> inv, metrics |-> m, dims |-> WithService, metadata |-> metadata]
  BY DEF Publish
<1>3. last' \in Blob
  BY <1>1, <1>2 DEF Blob
<1>4. /\ times' \in [Id -> Nat]
      /\ \A id \in Id : times'[id] = IF id \in Values(m) THEN times[id] + 1 ELSE times[id]
  BY <1>1 DEF Publish
<1>5. QED
  BY <1>2, <1>3, <1>4

------------------------------------------------------------------------------
(* The first part of the invariant is kept, by what an action does to the
   memory *)

LEMMA MemoryUntouched ==
  ASSUME MemoryInv, UNCHANGED <<metrics, owner, times, dropped>>
  PROVE  Accounted'
PROOF
<1>1. Values(metrics') = Values(metrics) /\ (Distinct(metrics) => Distinct(metrics'))
  OBVIOUS
<1>2. QED
  BY <1>1 DEF MemoryInv, Accounted, Id

LEMMA MemoryPublished ==
  ASSUME MemoryInv, running, Publish(metrics), metrics' = NoMetrics, UNCHANGED <<owner, dropped>>
  PROVE  Accounted'
PROOF
<1>1. /\ TypeOK /\ Begun /\ Accounted /\ Len(owner) \in 0..MaxAdds /\ MaxAdds \in Nat
      /\ metrics \in MetricSet /\ times \in [Id -> Nat]
  BY Types DEF MemoryInv
<1>2. \A id \in Id : times'[id] = IF id \in Values(metrics) THEN times[id] + 1 ELSE times[id]
  BY <1>1, Published
<1>3. /\ Values(metrics') = {} /\ Distinct(metrics') /\ \A n \in Name : Len(metrics'[n]) = 0
  BY EmptyMetrics
<1>4. 1..Len(owner) \subseteq Id
  BY <1>1 DEF Id
<1>5. \A id \in 1..Len(owner) : id \notin dropped => times'[id] = 1
  BY <1>1, <1>2, <1>4 DEF Accounted
<1>6. \A id \in 1..Len(owner) : id \in dropped => times'[id] = 0
  BY <1>1, <1>2, <1>4 DEF Accounted
<1>7. \A id \in Id : id > Len(owner) => times'[id] = 0 /\ id \notin dropped
  BY <1>1, <1>2 DEF Accounted
<1>8. QED
  BY <1>1, <1>3, <1>5, <1>6, <1>7 DEF Accounted

LEMMA MemoryDropped ==
  ASSUME MemoryInv, metrics' = NoMetrics, dropped' = dropped \cup Values(metrics),
         UNCHANGED <<owner, times>>
  PROVE  Accounted' /\ dropped' \subseteq Id
PROOF
<1>1. TypeOK /\ Accounted /\ Len(owner) \in 0..MaxAdds /\ MaxAdds \in Nat /\ dropped \subseteq Id
  BY Types DEF MemoryInv
<1>2. /\ Values(metrics') = {} /\ Distinct(metrics') /\ \A n \in Name : Len(metrics'[n]) = 0
  BY EmptyMetrics
<1>3. Values(metrics) \subseteq 1..Len(owner) /\ 1..Len(owner) \subseteq Id
  BY <1>1 DEF Accounted, Id
<1>4. \A id \in 1..Len(owner) : IF id \in dropped' THEN times'[id] = 0 ELSE times'[id] = 1
  BY <1>1 DEF Accounted
<1>5. \A id \in Id : id > Len(owner) => times'[id] = 0 /\ id \notin dropped'
  BY <1>1, <1>3 DEF Accounted
<1>6. QED
  BY <1>1, <1>2, <1>3, <1>4, <1>5 DEF Accounted

LEMMA MemoryGrown ==
  ASSUME MemoryInv, NEW n \in Name, AddMetric(n)
  PROVE  Accounted'
PROOF
<1>1. /\ TypeOK /\ Begun /\ Accounted /\ Len(owner) \in 0..MaxAdds /\ MaxAdds \in Nat
      /\ owner \in Seq(1..MaxInvocations) /\ times \in [Id -> Nat] /\ metrics \in MetricSet
  BY Types DEF MemoryInv
<1>2. PICK grown \in MetricSet :
        /\ Len(owner) + 1 \in Id /\ Len(owner) \in Nat /\ running /\ inv \in 1..MaxInvocations
        /\ owner' = Append(owner, inv)
        /\ UNCHANGED <<config, inv, running, metadata, cold, dropped, emptyEnds, kills>>
        /\ Len(grown[n]) = Len(metrics[n]) + 1 /\ Len(metrics[n]) \in Nat
        /\ \A k \in Name : k # n => grown[k] = metrics[k]
        /\ Values(grown) = Values(metrics) \cup {Len(owner) + 1}
        /\ Used(grown) = Used(metrics) \cup {n}
        /\ Distinct(grown)
        /\ \/ metrics' = grown /\ ~Full(grown, n) /\ last' = None /\ UNCHANGED <<dims, times>>
           \/ /\ Full(grown, n) /\ dims' = WithService
              /\ \/ Serializable(grown) /\ metrics' = NoMetrics /\ Publish(grown)
                 \/ ~Serializable(grown) /\ metrics' = grown /\ last' = None /\ UNCHANGED times
  BY MetricAdded
<1>3. Len(owner') = Len(owner) + 1 /\ 1..Len(owner) \subseteq Id
  BY <1>1, <1>2 DEF Id
<1>4. CASE metrics' = grown /\ UNCHANGED times
  <2>1. \A k \in Name : Len(metrics'[k]) <= Len(owner')
    <3>1. ASSUME NEW k \in Name PROVE Len(metrics[k]) \in Nat /\ Len(metrics[k]) <= Len(owner)
      BY <1>1 DEF MetricSet, Accounted
    <3>2. QED
      BY <1>2, <1>3, <1>4, <3>1
  <2>2. Values(metrics') \subseteq 1..Len(owner')
    BY <1>1, <1>2, <1>3, <1>4 DEF Accounted
  <2>3. \A id \in 1..Len(owner') :
          IF id \in Values(metrics') \cup dropped'
          THEN times'[id] = 0 /\ ~(id \in Values(metrics') /\ id \in dropped')
          ELSE times'[id] = 1
    <3>1. SUFFICES ASSUME NEW id \in 1..(Len(owner) + 1)
                   PROVE  IF id \in Values(grown) \cup dropped
                          THEN times[id] = 0 /\ ~(id \in Values(grown) /\ id \in dropped)
                          ELSE times[id] = 1
      BY <1>2, <1>3, <1>4
    <3>2. CASE id = Len(owner) + 1
      BY <1>1, <1>2, <3>2 DEF Accounted
    <3>3. CASE id # Len(owner) + 1
      <4>1. id \in 1..Len(owner) /\ (id \in Values(grown) <=> id \in Values(metrics))
        BY <1>2, <3>3
      <4>2. QED
        BY <1>1, <4>1 DEF Accounted
    <3>4. QED
      BY <3>2, <3>3
  <2>4. \A id \in Id : id > Len(owner') => times'[id] = 0 /\ id \notin dropped'
    BY <1>1, <1>2, <1>3, <1>4 DEF Accounted, Id
  <2>5. Distinct(metrics')
    BY <1>2, <1>4
  <2>6. QED
    BY <2>1, <2>2, <2>3, <2>4, <2>5 DEF Accounted
<1>5. CASE metrics' = NoMetrics /\ Publish(grown)
  <2>1. /\ Values(metrics') = {} /\ Distinct(metrics') /\ \A k \in Name : Len(metrics'[k]) = 0
    BY <1>5, EmptyMetrics
  <2>2. \A id \in Id : times'[id] = IF id \in Values(grown) THEN times[id] + 1 ELSE times[id]
    BY <1>1, <1>2, <1>5, Published
  <2>3. ASSUME NEW id \in 1..Len(owner')
        PROVE  IF id \in dropped' THEN times'[id] = 0 ELSE times'[id] = 1
    <3>1. id \in Id
      BY <1>2, <1>3, <2>3
    <3>2. CASE id = Len(owner) + 1
      <4>1. id > Len(owner)
        BY <1>1, <1>2, <3>2
      <4>2. times[id] = 0 /\ id \notin dropped
        BY <1>1, <3>1, <4>1 DEF Accounted
      <4>3. id \in Values(grown) /\ dropped' = dropped
        BY <1>1, <1>2, <1>5, <3>2
      <4>4. QED
        BY <2>2, <3>1, <4>2, <4>3
    <3>3. CASE id # Len(owner) + 1
      <4>1. id \in 1..Len(owner) /\ (id \in Values(grown) <=> id \in Values(metrics))
        BY <1>2, <1>3, <2>3, <3>3
      <4>2. QED
        BY <1>1, <1>2, <2>2, <3>1, <4>1 DEF Accounted
    <3>4. QED
      BY <3>2, <3>3
  <2>4. ASSUME NEW id \in Id, id > Len(owner')
        PROVE  times'[id] = 0 /\ id \notin dropped'
    <3>1. id > Len(owner) /\ id # Len(owner) + 1 /\ id \notin Values(metrics)
      BY <1>1, <1>2, <1>3, <2>4 DEF Accounted, Id
    <3>2. QED
      BY <1>1, <1>2, <2>2, <3>1 DEF Accounted
  <2>5. QED
    BY <1>2, <1>3, <2>1, <2>3, <2>4 DEF Accounted
<1>6. QED
  BY <1>2, <1>4, <1>5

------------------------------------------------------------------------------
(* The actions keep it *)

LEMMA Cleared ==
  ASSUME TypeOK, Clear, UNCHANGED config
  PROVE  /\ metrics' = NoMetrics /\ metrics' \in MetricSet
         /\ dims' = DefaultDims /\ dims' \in [DimName -> Source]
         /\ Cardinality(SetDims(dims')) <= MAX_DIMENSIONS
         /\ metadata' = None /\ metadata' \in Source
PROOF
  BY EmptyMetrics, Defaults DEF Clear, Source

LEMMA FlushMemory ==
  ASSUME MemoryInv, running, NEW raise, Flush(raise), UNCHANGED <<config, owner, dropped>>
  PROVE  /\ Accounted'
         /\ metrics' \in MetricSet /\ dims' \in [DimName -> Source]
         /\ Cardinality(SetDims(dims')) <= MAX_DIMENSIONS
         /\ metadata' \in Source /\ last' \in Blob \cup {None} /\ times' \in [Id -> Nat]
PROOF
<1>1. TypeOK /\ Begun
  BY DEF MemoryInv
<1>2. CASE FlushKeeps
  <2>1. Accounted'
    BY <1>2, MemoryUntouched DEF FlushKeeps
  <2>2. QED
    BY <1>1, <1>2, <2>1, ServiceAdded DEF FlushKeeps, TypeOK
<1>3. CASE Publish(metrics) /\ Clear
  <2>1. metrics \in MetricSet
    BY <1>1, Types
  <2>2. Accounted'
    BY <1>3, MemoryPublished DEF Clear
  <2>3. QED
    BY <1>1, <1>3, <2>1, <2>2, Cleared, Published
<1>4. QED
  BY <1>2, <1>3, Flushed

LEMMA AddMetricMemory ==
  ASSUME MemoryInv, NEW n \in Name, AddMetric(n)
  PROVE  MemoryInv'
PROOF
<1>1. TypeOK /\ Begun /\ owner \in Seq(1..MaxInvocations)
  BY Types DEF MemoryInv
<1>2. Accounted'
  BY MemoryGrown
<1>3. PICK grown \in MetricSet :
        /\ Len(owner) + 1 \in Id /\ running /\ inv \in 1..MaxInvocations
        /\ owner' = Append(owner, inv)
        /\ UNCHANGED <<config, inv, running, metadata, cold, dropped, emptyEnds, kills>>
        /\ \/ metrics' = grown /\ ~Full(grown, n) /\ last' = None /\ UNCHANGED <<dims, times>>
           \/ /\ Full(grown, n) /\ dims' = WithService
              /\ \/ Serializable(grown) /\ metrics' = NoMetrics /\ Publish(grown)
                 \/ ~Serializable(grown) /\ metrics' = grown /\ last' = None /\ UNCHANGED times
  BY MetricAdded
<1>4. owner' \in Seq(1..MaxInvocations) /\ Len(owner') <= MaxAdds
  BY <1>1, <1>3, LimitAssumption DEF Id
<1>5. /\ metrics' \in MetricSet
      /\ dims' \in [DimName -> Source] /\ Cardinality(SetDims(dims')) <= MAX_DIMENSIONS
  BY <1>1, <1>3, EmptyMetrics, ServiceAdded DEF TypeOK
<1>6. last' \in Blob \cup {None} /\ times' \in [Id -> Nat]
  BY <1>1, <1>3, Published DEF TypeOK
<1>7. TypeOK' /\ Begun'
  BY <1>1, <1>3, <1>4, <1>5, <1>6 DEF TypeOK, Begun
<1>8. QED
  BY <1>2, <1>7 DEF MemoryInv

LEMMA AddDimensionMemory ==
  ASSUME MemoryInv, NEW d \in Dim, AddDimension(d)
  PROVE  MemoryInv'
PROOF
<1>1. /\ TypeOK /\ Begun /\ running /\ last' = None
      /\ Cardinality(SetDims(dims)) # MAX_DIMENSIONS /\ dims' = [dims EXCEPT ![d] = inv]
      /\ UNCHANGED <<config, inv, running, metrics, metadata, cold, owner, times, dropped,
                     emptyEnds, kills>>
  BY DEF MemoryInv, AddDimension, history
<1>2. Accounted'
  BY <1>1, MemoryUntouched
<1>3. /\ dims \in [DimName -> Source] /\ d \in DimName /\ inv \in Source /\ inv # None
      /\ IsFiniteSet(SetDims(dims)) /\ Cardinality(SetDims(dims)) \in 0..MAX_DIMENSIONS
      /\ MAX_DIMENSIONS \in Nat
  BY <1>1, Types, NameAssumption DEF DimName, Source
<1>4. dims' \in [DimName -> Source] /\ SetDims(dims') = SetDims(dims) \cup {d}
  BY <1>1, <1>3 DEF SetDims
<1>5. Cardinality(SetDims(dims')) \in {Cardinality(SetDims(dims)), Cardinality(SetDims(dims)) + 1}
  BY <1>3, <1>4, FS_AddElement
<1>6. Cardinality(SetDims(dims')) <= MAX_DIMENSIONS
  BY <1>1, <1>3, <1>5
<1>7. TypeOK' /\ Begun'
  BY <1>1, <1>4, <1>6 DEF TypeOK, Begun
<1>8. QED
  BY <1>2, <1>7 DEF MemoryInv

\* log_metrics, flush_metrics and clear_metrics.
LEMMA FlushesMemory ==
  ASSUME MemoryInv, FlushMetrics \/ HandlerReturns \/ HandlerRaises
  PROVE  MemoryInv'
PROOF
<1>1. PICK raise : Flush(raise)
  BY DEF FlushMetrics, HandlerReturns, HandlerRaises, EndInvocation
<1>2. /\ TypeOK /\ Begun /\ running /\ running' \in {FALSE, running}
      /\ UNCHANGED <<config, inv, owner, dropped, kills>>
      /\ emptyEnds' \subseteq emptyEnds \cup {inv}
      /\ cold' \in BOOLEAN
  <2>1. /\ TypeOK /\ Begun /\ running /\ running' \in {FALSE, running}
        /\ UNCHANGED <<config, inv, owner, dropped, kills>>
        /\ emptyEnds' \subseteq emptyEnds \cup {inv}
    BY DEF MemoryInv, FlushMetrics, HandlerReturns, HandlerRaises, EndInvocation
  <2>2. cold' \in BOOLEAN
    BY <2>1 DEF TypeOK, FlushMetrics, HandlerReturns, HandlerRaises
  <2>3. QED
    BY <2>1, <2>2
<1>3. /\ Accounted'
      /\ metrics' \in MetricSet /\ dims' \in [DimName -> Source]
      /\ Cardinality(SetDims(dims')) <= MAX_DIMENSIONS
      /\ metadata' \in Source /\ last' \in Blob \cup {None} /\ times' \in [Id -> Nat]
  BY <1>1, <1>2, FlushMemory
<1>4. inv \in 1..MaxInvocations
  BY <1>2, Types DEF Begun
<1>5. TypeOK' /\ Begun'
  BY <1>2, <1>3, <1>4 DEF TypeOK, Begun
<1>6. QED
  BY <1>3, <1>5 DEF MemoryInv

LEMMA ClearsMemory ==
  ASSUME MemoryInv, ClearMetrics \/ Kill
  PROVE  MemoryInv'
PROOF
<1>1. /\ TypeOK /\ Begun /\ Clear
      /\ running' \in {FALSE, running}
      /\ dropped' = dropped \cup Values(metrics)
      /\ UNCHANGED <<config, inv, owner, times, emptyEnds>>
      /\ cold' \in BOOLEAN /\ last' = None
  BY DEF MemoryInv, TypeOK, ClearMetrics, Kill
<1>2. kills' \in 0..MaxKills
  BY LimitAssumption DEF MemoryInv, TypeOK, ClearMetrics, Kill
<1>3. Accounted' /\ dropped' \subseteq Id
  BY <1>1, MemoryDropped DEF Clear
<1>4. /\ metrics' \in MetricSet /\ dims' \in [DimName -> Source]
      /\ Cardinality(SetDims(dims')) <= MAX_DIMENSIONS /\ metadata' \in Source
  BY <1>1, Cleared
<1>5. running' \in BOOLEAN /\ Begun'
  <2>1. running \in BOOLEAN /\ running' \in {FALSE, running} /\ inv' = inv
    BY <1>1, Types
  <2>2. Begun'
    BY <1>1, <2>1 DEF Begun
  <2>3. QED
    BY <2>1, <2>2
<1>6. TypeOK'
  BY <1>1, <1>2, <1>3, <1>4, <1>5 DEF TypeOK
<1>7. QED
  BY <1>3, <1>5, <1>6 DEF MemoryInv

LEMMA NextMemory == MemoryInv /\ [Next]_vars => MemoryInv'
PROOF
<1> SUFFICES ASSUME MemoryInv, [Next]_vars PROVE MemoryInv'
  OBVIOUS
<1>1. TypeOK /\ Begun
  BY DEF MemoryInv
<1>2. ASSUME NEW n \in Name, AddMetric(n) PROVE MemoryInv'
  BY <1>2, AddMetricMemory
<1>3. ASSUME NEW d \in Dim, AddDimension(d) PROVE MemoryInv'
  BY <1>3, AddDimensionMemory
<1>4. CASE FlushMetrics \/ HandlerReturns \/ HandlerRaises \/ ClearMetrics \/ Kill
  BY <1>4, FlushesMemory, ClearsMemory
<1>5. CASE AddMetadata
  <2>1. /\ running /\ metadata' = inv /\ last' = None
        /\ UNCHANGED <<config, inv, running, metrics, dims, cold, owner, times, dropped,
                       emptyEnds, kills>>
    BY <1>5 DEF AddMetadata, history
  <2>2. TypeOK' /\ Begun'
    BY <1>1, <2>1 DEF TypeOK, Begun, Source
  <2>3. QED
    BY <2>1, <2>2, MemoryUntouched DEF MemoryInv
<1>6. CASE Invoke
  <2>1. /\ inv < MaxInvocations /\ inv' = inv + 1 /\ running' = TRUE /\ last' = None
        /\ UNCHANGED <<config, metrics, dims, metadata, cold, owner, times, dropped,
                       emptyEnds, kills>>
    BY <1>6 DEF Invoke, memory, history
  <2>2. TypeOK' /\ Begun'
    BY <1>1, <2>1, LimitAssumption DEF TypeOK, Begun
  <2>3. QED
    BY <2>1, <2>2, MemoryUntouched DEF MemoryInv
<1>7. CASE UNCHANGED vars
  <2>1. UNCHANGED <<config, inv, running, metrics, dims, metadata, cold, owner, last, times,
                    dropped, emptyEnds, kills>>
    BY <1>7 DEF vars, memory, history
  <2>2. TypeOK' /\ Begun'
    BY <1>1, <2>1 DEF TypeOK, Begun
  <2>3. QED
    BY <2>1, <2>2, MemoryUntouched DEF MemoryInv
<1>8. QED
  BY <1>2, <1>3, <1>4, <1>5, <1>6, <1>7 DEF Next

LEMMA InitMemory == Init => MemoryInv
PROOF
<1> SUFFICES ASSUME Init PROVE MemoryInv
  OBVIOUS
<1>1. /\ config \in Configs /\ config \in Config
      /\ {MaxInvocations, MaxAdds, MaxKills} \subseteq Nat
      /\ Cardinality(config.defaults) <= MAX_DIMENSIONS
      /\ config.defaults \subseteq DimName /\ 0 # None
  BY ConfigAssumption, LimitAssumption, NameAssumption DEF Init, Config, DimName
<1>2. dims \in [DimName -> Source] /\ SetDims(dims) = config.defaults
  BY <1>1 DEF Init, DefaultDims, SetDims, Source
<1>3. TypeOK
  <2>1. /\ metrics \in MetricSet /\ Cardinality(SetDims(dims)) <= MAX_DIMENSIONS
        /\ metadata \in Source /\ last \in Blob \cup {None}
    BY <1>1, <1>2, EmptyMetrics DEF Init, Source
  <2>2. /\ inv \in 0..MaxInvocations /\ kills \in 0..MaxKills
        /\ owner \in Seq(1..MaxInvocations) /\ Len(owner) <= MaxAdds
        /\ times \in [Id -> Nat]
    BY <1>1 DEF Init
  <2>3. QED
    BY <1>2, <2>1, <2>2 DEF Init, TypeOK
<1>4. Accounted /\ Begun
  BY EmptyMetrics DEF Init, Accounted, Begun
<1>5. QED
  BY <1>3, <1>4 DEF MemoryInv

\* Every variable keeps its type, the dimensions their limit, and a blob has
\* always an invocation it belongs to.
THEOREM TypeCorrect == Spec => []TypeOK
PROOF
<1>1. MemoryInv => TypeOK
  BY DEF MemoryInv
<1>2. QED
  BY <1>1, InitMemory, NextMemory, PTL DEF Spec

\* A value that was added is waiting, or was published, or was cleared on
\* purpose or by a death: one of these, and once, in every configuration.
THEOREM EachPublishedOnce == Spec => []PublishedOnce
PROOF
<1>1. MemoryInv => PublishedOnce
  <2> SUFFICES ASSUME MemoryInv, NEW id \in 1..Len(owner)
               PROVE  Pending(id) + times[id] + (IF id \in dropped THEN 1 ELSE 0) = 1
    BY DEF PublishedOnce
  <2>1. TypeOK /\ Accounted /\ id \in Id
    BY Types DEF MemoryInv, Id
  <2>2. Pending(id) = IF id \in Values(metrics) THEN 1 ELSE 0
    BY <2>1, Counted
  <2>3. IF id \in Values(metrics) \cup dropped
        THEN times[id] = 0 /\ ~(id \in Values(metrics) /\ id \in dropped)
        ELSE times[id] = 1
    BY <2>1 DEF Accounted
  <2>4. QED
    BY <2>2, <2>3
<1>2. QED
  BY <1>1, InitMemory, NextMemory, PTL DEF Spec

------------------------------------------------------------------------------
(* Where a service has room, no flush fails, and nothing is carried over *)

LEMMA ServiceFits ==
  ASSUME Room, TypeOK, Fits, NEW m \in MetricSet, Used(m) # {}
  PROVE  Serializable(m)
PROOF
<1> SUFFICES ASSUME config.service PROVE WithService[Service] # None
  BY DEF Serializable
<1>1. dims[Service] = None => Cardinality(SetDims(dims)) < MAX_DIMENSIONS
  <2>1. SUFFICES ASSUME dims[Service] = None PROVE Cardinality(SetDims(dims)) < MAX_DIMENSIONS
    OBVIOUS
  <2>2. SetDims(dims) \subseteq config.defaults \cup config.uses
    BY <2>1 DEF Fits, SetDims
  <2>3. IsFiniteSet(config.defaults \cup config.uses)
    BY Types, NameAssumption, FS_Subset DEF Config
  <2>4. /\ Cardinality(SetDims(dims)) <= Cardinality(config.defaults \cup config.uses)
        /\ Cardinality(config.defaults \cup config.uses) \in Nat
    BY <2>2, <2>3, FS_Subset, FS_CardinalityType
  <2>5. Cardinality(config.defaults \cup config.uses) < MAX_DIMENSIONS
    BY Types DEF Room
  <2>6. QED
    BY <2>4, <2>5, Types
<1>2. dims \in [DimName -> Source] /\ Service \in DimName /\ 0 # None
  BY Types, NameAssumption DEF DimName
<1>3. QED
  BY <1>1, <1>2 DEF WithService

\* The dimensions that are set keep to those that were configured.
LEMMA FitsKept ==
  ASSUME TypeOK, Fits, DefaultsSet, UNCHANGED config,
         \/ dims' \in {dims, WithService, DefaultDims}
         \/ \E d \in config.uses : dims' = [dims EXCEPT ![d] = inv]
  PROVE  Fits' /\ DefaultsSet'
PROOF
<1>1. /\ dims \in [DimName -> Source] /\ config.defaults \subseteq DimName
      /\ config.uses \subseteq DimName /\ inv # None
  BY Types, NameAssumption DEF Config, DimName
<1>2. config.defaults \subseteq SetDims(dims)
  BY <1>1 DEF DefaultsSet, SetDims
<1>3. SUFFICES /\ SetDims(dims') \subseteq config.defaults \cup config.uses \cup {Service}
               /\ config.defaults \subseteq SetDims(dims')
  BY DEF Fits, DefaultsSet, SetDims
<1>4. CASE dims' = dims
  BY <1>2, <1>4 DEF Fits
<1>5. CASE dims' = WithService
  BY <1>2, <1>5, ServiceAdded DEF Fits
<1>6. CASE dims' = DefaultDims
  BY <1>6, Defaults
<1>7. ASSUME NEW d \in config.uses, dims' = [dims EXCEPT ![d] = inv]
      PROVE  /\ SetDims(dims') \subseteq config.defaults \cup config.uses \cup {Service}
             /\ config.defaults \subseteq SetDims(dims')
  <2>1. SetDims(dims') = SetDims(dims) \cup {d}
    BY <1>1, <1>7 DEF SetDims
  <2>2. QED
    BY <1>2, <2>1 DEF Fits
<1>8. QED
  BY <1>4, <1>5, <1>6, <1>7

\* What is printed is of the running invocation and complete.
LEMMA BlobRight ==
  ASSUME MemoryInv, DefaultsSet, running, NEW m \in MetricSet, Used(m) # {}, Serializable(m),
         Publish(m), UNCHANGED <<config, inv, emptyEnds>>,
         ~config.disabled => Timely /\ \A id \in Values(m) : owner'[id] = inv
  PROVE  PublishedByOwner' /\ BlobDimensions'
PROOF
<1>1. /\ TypeOK /\ Begun /\ dims \in [DimName -> Source] /\ inv \in Nat
      /\ config.defaults \subseteq DimName /\ Service \in DimName /\ 0 # None
  BY Types, NameAssumption DEF MemoryInv, Config, DimName
<1>2. /\ last'.inv = inv /\ last'.metrics = m /\ last'.dims = WithService
      /\ last'.metadata = metadata
  BY <1>1, Published
<1>3. PublishedByOwner'
  BY <1>2 DEF PublishedByOwner
<1>4. \A n \in config.defaults \cup (IF config.service THEN {Service} ELSE {}) :
        last'.dims[n] # None
  <2>1. ASSUME NEW n \in config.defaults PROVE WithService[n] # None
    BY <1>1, <2>1, ServiceAdded DEF DefaultsSet
  <2>2. config.service => WithService[Service] # None
    BY DEF Serializable
  <2>3. QED
    BY <1>2, <2>1, <2>2
<1>5. ASSUME ~config.disabled,
             NEW from \in {last'.dims[n] : n \in DimName} \cup {last'.metadata},
             from \in 1..(last'.inv - 1)
      PROVE  from..(last'.inv - 1) \subseteq emptyEnds
  <2>1. from \in Nat \ {0}
    BY <1>1, <1>2, <1>5
  <2>2. Current(from)
    <3>1. \A n \in DimName : WithService[n] \in {dims[n], 0}
      BY <1>1, ServiceAdded
    <3>2. (\E n \in DimName : from = dims[n]) \/ from = metadata
      BY <1>2, <2>1, <3>1
    <3>3. QED
      BY <1>5, <3>2 DEF Timely
  <2>3. from..(inv - 1) \subseteq emptyEnds
    BY <2>1, <2>2 DEF Current
  <2>4. QED
    BY <1>2, <2>3
<1>6. BlobDimensions'
  BY <1>4, <1>5 DEF BlobDimensions
<1>7. QED
  BY <1>3, <1>6

LEMMA EmptyBelow ==
  ASSUME metrics' = NoMetrics
  PROVE  BelowLimit'
PROOF
  BY EmptyMetrics, FS_EmptySet, LimitAssumption DEF BelowLimit

LEMMA EmptyTimely ==
  ASSUME TypeOK, metrics' = NoMetrics, dims' = DefaultDims, metadata' = None, UNCHANGED config
  PROVE  Timely'
PROOF
<1>1. \A n \in DimName : dims'[n] \notin Nat \ {0}
  BY Defaults, NameAssumption
<1>2. metadata' \notin Nat \ {0}
  BY NameAssumption
<1>3. Values(metrics') = {}
  BY EmptyMetrics
<1>4. QED
  BY <1>1, <1>2, <1>3 DEF Timely, Current

LEMMA QuietStep ==
  ASSUME last' = None
  PROVE  PublishedByOwner' /\ BlobDimensions'
PROOF
  BY DEF PublishedByOwner, BlobDimensions

LEMMA AddMetricRoom ==
  ASSUME Room, RoomInv, NEW n \in Name, AddMetric(n)
  PROVE  RoomInv'
PROOF
<1>1. /\ MemoryInv /\ TypeOK /\ DefaultsSet /\ Fits /\ BelowLimit
      /\ ~config.disabled => Timely
      /\ owner \in Seq(1..MaxInvocations) /\ metrics \in MetricSet
  BY Types DEF RoomInv, MemoryInv
<1>2. MemoryInv'
  BY <1>1, AddMetricMemory
<1>3. PICK grown \in MetricSet :
        /\ Len(owner) + 1 \in Id /\ Len(owner) \in Nat /\ running /\ inv \in 1..MaxInvocations
        /\ owner' = Append(owner, inv)
        /\ UNCHANGED <<config, inv, running, metadata, cold, dropped, emptyEnds, kills>>
        /\ Len(grown[n]) = Len(metrics[n]) + 1 /\ Len(metrics[n]) \in Nat
        /\ \A k \in Name : k # n => grown[k] = metrics[k]
        /\ Values(grown) = Values(metrics) \cup {Len(owner) + 1}
        /\ Used(grown) = Used(metrics) \cup {n}
        /\ Distinct(grown)
        /\ \/ metrics' = grown /\ ~Full(grown, n) /\ last' = None /\ UNCHANGED <<dims, times>>
           \/ /\ Full(grown, n) /\ dims' = WithService
              /\ \/ Serializable(grown) /\ metrics' = NoMetrics /\ Publish(grown)
                 \/ ~Serializable(grown) /\ metrics' = grown /\ last' = None /\ UNCHANGED times
  BY <1>1, MetricAdded
<1>4. Used(grown) # {} /\ Serializable(grown)
  BY <1>1, <1>3, ServiceFits
<1>5. Fits' /\ DefaultsSet'
  BY <1>1, <1>3, FitsKept
<1>6. ASSUME ~config.disabled PROVE \A id \in Values(grown) : owner'[id] = inv
  <2>1. \A id \in Values(metrics) : id \in 1..Len(owner) /\ owner[id] = inv
    BY <1>1, <1>6 DEF MemoryInv, Accounted, Timely
  <2>2. /\ owner'[Len(owner) + 1] = inv
        /\ \A id \in 1..Len(owner) : owner'[id] = owner[id]
    BY <1>1, <1>3
  <2>3. QED
    BY <1>3, <2>1, <2>2
<1>7. ASSUME ~config.disabled PROVE Timely'
  <2>1. Timely /\ \A k \in DimName : dims'[k] \in {dims[k], 0}
    BY <1>1, <1>3, <1>7, ServiceAdded
  <2>2. (\A k \in DimName : Current(dims[k])) => \A k \in DimName : Current(dims[k])'
    BY <1>3, <2>1 DEF Current
  <2>3. Current(metadata) => Current(metadata)'
    BY <1>3 DEF Current
  <2>4. Values(metrics') \subseteq Values(grown)
    BY <1>3, EmptyMetrics
  <2>5. QED
    BY <1>3, <1>6, <1>7, <2>1, <2>2, <2>3, <2>4 DEF Timely
<1>8. CASE metrics' = grown /\ ~Full(grown, n) /\ last' = None
  <2>1. Cardinality(Used(grown)) \in Nat /\ Cardinality(Used(grown)) < MAX_METRICS
    <3>1. IsFiniteSet(Used(metrics)) /\ Cardinality(Used(metrics)) \in Nat
      BY NameAssumption, FS_Subset, FS_CardinalityType DEF Used
    <3>2. Cardinality(Used(grown)) \in {Cardinality(Used(metrics)), Cardinality(Used(metrics)) + 1}
      <4>1. PICK u : u = Used(metrics) /\ Used(grown) = u \cup {n}
        BY <1>3
      <4>2. Cardinality(u \cup {n}) \in {Cardinality(u), Cardinality(u) + 1}
        BY <3>1, <4>1, FS_AddElement
      <4>3. QED
        BY <4>1, <4>2
    <3>3. Cardinality(Used(metrics)) < MAX_METRICS /\ Cardinality(Used(grown)) # MAX_METRICS
      BY <1>1, <1>8 DEF BelowLimit, Full
    <3>4. QED
      BY <3>1, <3>2, <3>3, LimitAssumption
  <2>2. ASSUME NEW k \in Name PROVE Len(grown[k]) < MAX_METRICS
    <3>1. CASE k # n
      BY <1>1, <1>3, <3>1 DEF BelowLimit
    <3>2. CASE k = n
      <4>1. Len(metrics[n]) < MAX_METRICS
        BY <1>1 DEF BelowLimit
      <4>2. Len(grown[n]) # MAX_METRICS
        BY <1>8 DEF Full
      <4>3. Len(grown[n]) = Len(metrics[n]) + 1 /\ Len(metrics[n]) \in Nat
        BY <1>3
      <4>4. QED
        BY <3>2, <4>1, <4>2, <4>3, LimitAssumption
    <3>3. QED
      BY <3>1, <3>2
  <2>3. BelowLimit'
    BY <1>8, <2>1, <2>2 DEF BelowLimit
  <2>4. QED
    BY <1>2, <1>3, <1>5, <1>7, <1>8, <2>3, QuietStep DEF RoomInv
<1>9. CASE metrics' = NoMetrics /\ Publish(grown)
  <2>1. PublishedByOwner' /\ BlobDimensions'
    BY <1>1, <1>3, <1>4, <1>6, <1>9, BlobRight
  <2>2. QED
    BY <1>2, <1>3, <1>5, <1>7, <1>9, <2>1, EmptyBelow DEF RoomInv
<1>10. QED
  BY <1>3, <1>4, <1>8, <1>9

LEMMA FlushRoom ==
  ASSUME Room, RoomInv, MemoryInv', running, running' \in BOOLEAN, NEW raise, Flush(raise),
         UNCHANGED <<config, inv, owner, dropped>>,
         emptyEnds' = IF ~running' /\ Used(metrics) = {} THEN emptyEnds \cup {inv} ELSE emptyEnds
  PROVE  RoomInv'
PROOF
<1>1. /\ MemoryInv /\ TypeOK /\ DefaultsSet /\ Fits /\ BelowLimit
      /\ ~config.disabled => Timely
      /\ metrics \in MetricSet /\ inv \in Nat
  BY Types DEF RoomInv, MemoryInv
<1>2. CASE FlushKeeps /\ (Used(metrics) = {} \/ config.disabled)
  <2>1. /\ UNCHANGED <<metrics, metadata, times>> /\ dims' \in {dims, WithService} /\ last' = None
    BY <1>2 DEF FlushKeeps
  <2>2. Fits' /\ DefaultsSet'
    BY <1>1, <2>1, FitsKept
  <2>3. BelowLimit'
    BY <1>1, <2>1 DEF BelowLimit
  <2>4. ASSUME ~config.disabled PROVE Timely'
    <3>1. Timely /\ Values(metrics) = {} /\ Used(metrics) = {}
      BY <1>1, <1>2, <2>4, ValuesUsed
    <3>2. \A k \in DimName : dims'[k] \in {dims[k], 0}
      BY <1>1, <2>1, ServiceAdded
    <3>3. ASSUME NEW from, Current(from), from \in Nat \ {0}
          PROVE  from <= inv' /\ from..(IF running' THEN inv' - 1 ELSE inv') \subseteq emptyEnds'
      <4>1. from <= inv /\ from..(inv - 1) \subseteq emptyEnds
        BY <3>3 DEF Current
      <4>2. CASE running'
        BY <4>1, <4>2
      <4>3. CASE ~running'
        BY <1>1, <3>1, <3>3, <4>1, <4>3
      <4>4. QED
        BY <4>2, <4>3
    <3>4. \A k \in DimName : Current(dims[k])'
      BY <3>1, <3>2, <3>3 DEF Timely, Current
    <3>5. Current(metadata)'
      BY <2>1, <3>1, <3>3 DEF Timely, Current
    <3>6. QED
      BY <2>1, <3>1, <3>4, <3>5 DEF Timely
  <2>5. QED
    BY <2>1, <2>2, <2>3, <2>4, QuietStep DEF RoomInv
<1>3. CASE ~config.disabled /\ Serializable(metrics) /\ Publish(metrics) /\ Clear
  <2>1. /\ metrics' = NoMetrics /\ dims' = DefaultDims /\ metadata' = None
        /\ Used(metrics) # {} /\ emptyEnds' = emptyEnds
    BY <1>3 DEF Clear, Serializable
  <2>2. Fits' /\ DefaultsSet'
    BY <1>1, <2>1, FitsKept
  <2>3. BelowLimit' /\ Timely'
    BY <1>1, <2>1, EmptyBelow, EmptyTimely
  <2>4. Timely /\ \A id \in Values(metrics) : owner'[id] = inv
    BY <1>1, <1>3 DEF Timely
  <2>5. PublishedByOwner' /\ BlobDimensions'
    BY <1>1, <1>3, <2>1, <2>4, BlobRight
  <2>6. QED
    BY <2>2, <2>3, <2>5 DEF RoomInv
<1>4. Used(metrics) # {} => Serializable(metrics)
  BY <1>1, ServiceFits
<1>5. QED
  BY <1>2, <1>3, <1>4, Flushed

LEMMA FlushesRoom ==
  ASSUME Room, RoomInv, FlushMetrics \/ HandlerReturns \/ HandlerRaises
  PROVE  RoomInv'
PROOF
<1>1. MemoryInv'
  BY FlushesMemory DEF RoomInv
<1>2. PICK raise : Flush(raise)
  BY DEF FlushMetrics, HandlerReturns, HandlerRaises, EndInvocation
<1>3. running /\ UNCHANGED <<config, inv, owner, dropped>>
  BY DEF FlushMetrics, HandlerReturns, HandlerRaises, EndInvocation
<1>4. CASE FlushMetrics
  <2>1. running' = TRUE /\ emptyEnds' = emptyEnds
    BY <1>3, <1>4 DEF FlushMetrics, RoomInv, MemoryInv, TypeOK
  <2>2. QED
    BY <1>1, <1>2, <1>3, <2>1, FlushRoom
<1>5. CASE EndInvocation
  <2>1. /\ running' = FALSE
        /\ emptyEnds' = IF Used(metrics) = {} THEN emptyEnds \cup {inv} ELSE emptyEnds
    BY <1>5 DEF EndInvocation
  <2>2. QED
    BY <1>1, <1>2, <1>3, <2>1, FlushRoom
<1>6. QED
  BY <1>4, <1>5 DEF HandlerReturns, HandlerRaises

LEMMA ClearsRoom ==
  ASSUME RoomInv, ClearMetrics \/ Kill
  PROVE  RoomInv'
PROOF
<1>1. /\ metrics' = NoMetrics /\ dims' = DefaultDims /\ metadata' = None /\ last' = None
      /\ UNCHANGED config
      /\ TypeOK /\ DefaultsSet /\ Fits
  BY DEF ClearMetrics, Kill, Clear, RoomInv, MemoryInv
<1>2. MemoryInv'
  BY ClearsMemory DEF RoomInv
<1>3. Fits' /\ DefaultsSet'
  BY <1>1, FitsKept
<1>4. QED
  BY <1>1, <1>2, <1>3, EmptyBelow, EmptyTimely, QuietStep DEF RoomInv

\* A dimension or a metadata value of the running invocation.
LEMMA SetByInvocation ==
  ASSUME RoomInv, running, last' = None,
         UNCHANGED <<config, inv, running, metrics, owner, emptyEnds>>,
         \A n \in DimName : dims'[n] \in {dims[n], inv},
         metadata' \in {metadata, inv}
  PROVE  /\ ~config.disabled => Timely'
         /\ BelowLimit' /\ PublishedByOwner' /\ BlobDimensions'
PROOF
<1>1. inv \in Nat
  BY Types DEF RoomInv, MemoryInv
<1>2. ASSUME NEW from, Current(from) \/ from = inv, from \in Nat \ {0}
      PROVE  from <= inv' /\ from..(inv' - 1) \subseteq emptyEnds'
  BY <1>1, <1>2 DEF Current
<1>3. ASSUME ~config.disabled PROVE Timely'
  <2>1. Timely
    BY <1>3 DEF RoomInv
  <2>2. \A n \in DimName : Current(dims[n])'
    BY <1>2, <2>1 DEF Timely, Current
  <2>3. Current(metadata)'
    BY <1>2, <2>1 DEF Timely, Current
  <2>4. QED
    BY <2>1, <2>2, <2>3 DEF Timely
<1>4. BelowLimit'
  BY DEF RoomInv, BelowLimit
<1>5. QED
  BY <1>3, <1>4, QuietStep

LEMMA NextRoom == Room /\ RoomInv /\ [Next]_vars => RoomInv'
PROOF
<1> SUFFICES ASSUME Room, RoomInv, [Next]_vars PROVE RoomInv'
  OBVIOUS
<1>1. MemoryInv /\ TypeOK /\ DefaultsSet /\ Fits /\ BelowLimit
  BY DEF RoomInv, MemoryInv
<1>2. MemoryInv'
  BY <1>1, NextMemory
<1>3. ASSUME NEW n \in Name, AddMetric(n) PROVE RoomInv'
  BY <1>3, AddMetricRoom
<1>4. CASE FlushMetrics \/ HandlerReturns \/ HandlerRaises \/ ClearMetrics \/ Kill
  BY <1>4, FlushesRoom, ClearsRoom
<1>5. ASSUME NEW d \in Dim, AddDimension(d) PROVE RoomInv'
  <2>1. /\ running /\ last' = None /\ d \in config.uses /\ dims' = [dims EXCEPT ![d] = inv]
        /\ UNCHANGED <<config, inv, running, metrics, metadata, owner, emptyEnds>>
    BY <1>5 DEF AddDimension, history
  <2>2. \A n \in DimName : dims'[n] \in {dims[n], inv}
    BY <1>1, <2>1 DEF TypeOK
  <2>3. Fits' /\ DefaultsSet'
    BY <1>1, <2>1, FitsKept
  <2>4. QED
    BY <1>2, <2>1, <2>2, <2>3, SetByInvocation DEF RoomInv
<1>6. CASE AddMetadata
  <2>1. /\ running /\ last' = None /\ metadata' = inv
        /\ UNCHANGED <<config, inv, running, metrics, dims, owner, emptyEnds>>
    BY <1>6 DEF AddMetadata, history
  <2>2. Fits' /\ DefaultsSet'
    BY <1>1, <2>1, FitsKept
  <2>3. QED
    BY <1>2, <2>1, <2>2, SetByInvocation DEF RoomInv
<1>7. CASE Invoke
  <2>1. /\ ~running /\ running' = TRUE /\ inv' = inv + 1 /\ last' = None
        /\ UNCHANGED <<config, metrics, dims, metadata, owner, emptyEnds>>
    BY <1>7 DEF Invoke, memory, history
  <2>2. Fits' /\ DefaultsSet'
    BY <1>1, <2>1, FitsKept
  <2>3. BelowLimit'
    BY <1>1, <2>1 DEF BelowLimit
  <2>4. ASSUME ~config.disabled PROVE Timely'
    <3>1. Timely /\ Values(metrics) = {} /\ inv \in Nat
      BY <1>1, <2>1, <2>4, Types DEF RoomInv, Timely
    <3>2. ASSUME NEW from, Current(from), from \in Nat \ {0}
          PROVE  from <= inv' /\ from..(inv' - 1) \subseteq emptyEnds'
      BY <2>1, <3>1, <3>2 DEF Current
    <3>3. \A n \in DimName : Current(dims[n])'
      BY <2>1, <3>1, <3>2 DEF Timely, Current
    <3>4. Current(metadata)'
      BY <2>1, <3>1, <3>2 DEF Timely, Current
    <3>5. QED
      BY <2>1, <3>1, <3>3, <3>4 DEF Timely
  <2>5. QED
    BY <1>2, <2>1, <2>2, <2>3, <2>4, QuietStep DEF RoomInv
<1>8. CASE UNCHANGED vars
  <2>1. UNCHANGED <<config, inv, running, metrics, dims, metadata, owner, last, emptyEnds>>
    BY <1>8 DEF vars, memory, history
  <2>2. Fits' /\ DefaultsSet' /\ BelowLimit' /\ PublishedByOwner' /\ BlobDimensions'
    BY <2>1 DEF RoomInv, Fits, SetDims, DefaultsSet, BelowLimit, PublishedByOwner, BlobDimensions
  <2>3. Timely => Timely'
    BY <2>1 DEF Timely, Current
  <2>4. QED
    BY <1>2, <2>1, <2>2, <2>3 DEF RoomInv
<1>9. QED
  BY <1>3, <1>4, <1>5, <1>6, <1>7, <1>8 DEF Next

LEMMA InitRoom == Init => RoomInv
PROOF
<1> SUFFICES ASSUME Init PROVE RoomInv
  OBVIOUS
<1>1. MemoryInv /\ TypeOK
  BY InitMemory DEF MemoryInv
<1>2. /\ metrics = NoMetrics /\ dims = DefaultDims /\ metadata = None /\ last = None
  BY DEF Init
<1>3. Fits /\ DefaultsSet
  BY <1>1, <1>2, Defaults, Types, NameAssumption DEF Fits, DefaultsSet, DefaultDims, Config, DimName
<1>4. BelowLimit
  BY <1>2, EmptyMetrics, FS_EmptySet, LimitAssumption DEF BelowLimit
<1>5. Timely
  <2>1. \A n \in DimName : dims[n] \notin Nat \ {0}
    BY <1>1, <1>2, Defaults, NameAssumption
  <2>2. QED
    BY <1>2, <2>1, EmptyMetrics, NameAssumption DEF Timely, Current
<1>6. QED
  BY <1>1, <1>2, <1>3, <1>4, <1>5 DEF RoomInv, PublishedByOwner, BlobDimensions

------------------------------------------------------------------------------
(* What follows where a service has room. Where it has none every flush may
   raise: nothing is published or cleared then, and what one invocation leaves
   in memory the next ones carry along, beyond the limit. *)

LEMMA RoomAlways == ASSUME Room PROVE Spec => []RoomInv
PROOF
<1>1. RoomInv /\ [Next]_vars => RoomInv'
  BY NextRoom
<1>2. QED
  BY <1>1, InitRoom, PTL DEF Spec

\* A value is published by the invocation that added it, also if that raised.
THEOREM ByOwner == ASSUME Room PROVE Spec => []PublishedByOwner
PROOF
<1>1. RoomInv => PublishedByOwner
  BY DEF RoomInv
<1>2. QED
  BY <1>1, RoomAlways, PTL

\* A blob holds the default dimensions and the service, and nothing that an
\* earlier invocation set unless all since then had no metrics to flush.
THEOREM BlobsRight == ASSUME Room PROVE Spec => []BlobDimensions
PROOF
<1>1. RoomInv => BlobDimensions
  BY DEF RoomInv
<1>2. QED
  BY <1>1, RoomAlways, PTL

\* The limits, compared with =, are never passed over.
THEOREM LimitKept == ASSUME Room PROVE Spec => []BelowLimit
PROOF
<1>1. RoomInv => BelowLimit
  BY DEF RoomInv
<1>2. QED
  BY <1>1, RoomAlways, PTL
===============================================================================
