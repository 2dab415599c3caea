-------------------------- MODULE Parameters_proofs --------------------------
(***************************************************************************)
(* Proofs about modules Parameters and FeatureFlags, for every number of   *)
(* names, contents, batches and writes and any set of ages with a greatest *)
(* one: the token of an AppConfig session belongs to the value kept with   *)
(* it, no call returns a value older than the longest max_age, the two ways*)
(* to evaluate feature flags agree, get_parameters_by_name in graceful mode*)
(* answers for every name, and what is cached or answered was written.     *)
(***************************************************************************)
EXTENDS FeatureFlags, NaturalsInduction, WellFoundedInduction, TLAPS

-----------------------------------------------------------------------------
(* The invariant *)

Stored == {Absent} \cup [ver : 1 .. MaxWrites, doc : Contents]

StoreOK ==
  /\ writes \in Nat
  /\ store \in [Names -> Stored]
  /\ retired \in [1 .. MaxWrites -> Nat]

\* No value is kept before a session has begun.  Without this a session that
\* starts, and fails before its first poll, would be paired with an old value.
SessionOK ==
  /\ token \in [Names -> Int]
  /\ last \in [Names -> Stored]
  /\ \A n \in Names : token[n] = NoToken => last[n] = Absent
  /\ TokenMatchesLast

\* Version v of n is the current one, or was replaced at most so long ago that
\* the seconds since then and those that are left make the longest age.
Aged(n, v, left) ==
  \/ v = store[n].ver
  \/ retired[v] >= 1 /\ (left >= 0 => retired[v] + left <= LongestAge + 1)

EntryOK(k, e) ==
  /\ e = [values |-> e.values, left |-> e.left]
  /\ e.left \in Int /\ e.left <= LongestAge
  /\ DOMAIN e.values \subseteq Names
  /\ k.family \in {"get", "names"} => DOMAIN e.values = k.of
  /\ \A n \in DOMAIN e.values :
       e.values[n].ver \in 1 .. MaxWrites /\ Aged(n, e.values[n].ver, e.left)

CacheOK(c) == \A k \in DOMAIN c : EntryOK(k, c[k])

IInv ==
  /\ provider \in Providers
  /\ StoreOK
  /\ SessionOK
  /\ CacheOK(cache)
  /\ creating \in Names \cup {NoName}
  /\ FreshWithinMaxAge

\* What a call has just read from the store.
Current(values) ==
  /\ DOMAIN values \subseteq Names
  /\ \A n \in DOMAIN values :
       values[n].ver = store[n].ver /\ values[n].ver \in 1 .. MaxWrites

\* What a call may return.
Served(values) ==
  \A n \in DOMAIN values :
    values[n].ver = store[n].ver \/ retired[values[n].ver] \in 1 .. LongestAge + 1

-----------------------------------------------------------------------------
(* Ages, names, the cache *)

LEMMA Longest ==
  /\ LongestAge \in Nat
  /\ \A a \in MaxAges : a \in Nat /\ a <= LongestAge
PROOF
  BY AgesAssumption DEF LongestAge

\* What has just been read may be returned, and so may a cached value.
LEMMA CurrentServed ==
  ASSUME NEW values, Current(values)
  PROVE  Served(values)
PROOF
  BY DEF Current, Served

LEMMA CachedServed ==
  ASSUME IInv, NEW k, HasNotExpired(k)
  PROVE  Served(cache[k].values)
PROOF
<1>1. EntryOK(k, cache[k]) /\ cache[k].left >= 0 /\ retired \in [1 .. MaxWrites -> Nat]
  BY DEF IInv, CacheOK, HasNotExpired, StoreOK
<1>2. SUFFICES ASSUME NEW n \in DOMAIN cache[k].values
               PROVE  \/ cache[k].values[n].ver = store[n].ver
                      \/ retired[cache[k].values[n].ver] \in 1 .. LongestAge + 1
  BY DEF Served
<1>3. CASE cache[k].values[n].ver = store[n].ver
  BY <1>3
<1>4. CASE cache[k].values[n].ver # store[n].ver
  <2>1. retired[cache[k].values[n].ver] \in Nat
    BY <1>1, <1>2 DEF EntryOK
  <2>2. /\ retired[cache[k].values[n].ver] >= 1
        /\ retired[cache[k].values[n].ver] + cache[k].left <= LongestAge + 1
    BY <1>1, <1>2, <1>4 DEF EntryOK, Aged
  <2>3. QED
    BY <1>1, <2>1, <2>2, Longest DEF EntryOK
<1>5. QED
  BY <1>3, <1>4

LEMMA NewEntry ==
  ASSUME NEW k, NEW values, Current(values), NEW age \in MaxAges,
         k.family \in {"get", "names"} => DOMAIN values = k.of
  PROVE  EntryOK(k, [values |-> values, left |-> age])
PROOF
  BY Longest DEF EntryOK, Current, Aged

LEMMA AddKeepsOK ==
  ASSUME NEW c, CacheOK(c), NEW k, NEW values, Current(values), NEW age \in MaxAges,
         k.family \in {"get", "names"} => DOMAIN values = k.of
  PROVE  CacheOK(AddToCache(c, k, values, age))
PROOF
  BY NewEntry DEF CacheOK, AddToCache

LEMMA AddEachKeepsOK ==
  ASSUME NEW c, CacheOK(c), NEW family, NEW transform, NEW values, Current(values),
         NEW age \in MaxAges
  PROVE  CacheOK(AddEach(c, family, transform, values, age))
PROOF
<1> DEFINE added == {Key(family, {n}, transform) : n \in DOMAIN values}
<1>1. CASE age <= 0
  BY <1>1 DEF AddEach
<1>2. CASE ~(age <= 0)
  <2>1. AddEach(c, family, transform, values, age) =
          [k \in DOMAIN c \cup added |->
             IF k \in added
             THEN [values |-> [n \in k.of |-> values[n]], left |-> age]
             ELSE c[k]]
    BY <1>2 DEF AddEach
  <2>2. ASSUME NEW k \in added
        PROVE  EntryOK(k, [values |-> [n \in k.of |-> values[n]], left |-> age])
    <3>1. PICK n \in DOMAIN values : k = Key(family, {n}, transform)
      BY <2>2
    <3>2. k.of = {n}
      BY <3>1 DEF Key
    <3>3. Current([m \in k.of |-> values[m]])
      BY <3>1, <3>2 DEF Current
    <3>4. QED
      BY <3>3, NewEntry
  <2>3. QED
    BY <2>1, <2>2 DEF CacheOK
<1>3. QED
  BY <1>1, <1>2

-----------------------------------------------------------------------------
(* Reading the store *)

LEMMA StoreTypes ==
  ASSUME StoreOK, NEW n \in Names
  PROVE  /\ store[n] \in Stored
         /\ store[n].ver \in Nat
         /\ store[n] # Absent => store[n].ver \in 1 .. MaxWrites
         /\ Exists(n) => store[n].ver \in 1 .. MaxWrites
PROOF
  BY BoundsAssumption DEF StoreOK, Stored, Absent, Exists

\* An AppConfig poll returns the current version, and the token that goes with
\* the value it keeps; a poll that fails leaves the one with the other.
LEMMA ConfigurationFetch ==
  ASSUME StoreOK, SessionOK, NEW n \in Names, NEW f \in FetchConfiguration(n)
  PROVE  /\ f.token \in [Names -> Int]
         /\ f.last \in [Names -> Stored]
         /\ \A m \in Names : f.token[m] = NoToken => f.last[m] = Absent
         /\ \A m \in Names : f.token[m] # NoToken => f.last[m].ver = f.token[m]
         /\ f.value # Absent => f.value.ver = store[n].ver /\ Exists(n)
PROOF
<1> DEFINE session == SessionTokens(n)
           body == IF store[n].ver = session[n] THEN Absent ELSE store[n]
           latest == IF body = Absent THEN last ELSE [last EXCEPT ![n] = body]
<1>1. /\ store[n] \in Stored /\ store[n].ver \in Nat
      /\ Absent \in Stored /\ Absent.ver = 0
      /\ token \in [Names -> Int] /\ last \in [Names -> Stored]
      /\ \A m \in Names : token[m] = NoToken => last[m] = Absent
      /\ \A m \in Names : token[m] # NoToken => last[m].ver = token[m]
  BY StoreTypes DEF SessionOK, TokenMatchesLast, Stored, Absent
<1>2. /\ session \in [Names -> Int]
      /\ session[n] # NoToken
      /\ last[n].ver = session[n]
      /\ \A m \in Names : session[m] = NoToken => last[m] = Absent
      /\ \A m \in Names : session[m] # NoToken => last[m].ver = session[m]
  BY <1>1 DEF SessionTokens, NoToken
<1>3. CASE f = FetchFails(token)
  BY <1>1, <1>3 DEF FetchFails, Fetched
<1>4. CASE f = FetchFails(session)
  <2> HIDE DEF session
  <2>1. QED
    BY <1>1, <1>2, <1>4 DEF FetchFails, Fetched
<1>5. CASE Exists(n) /\ f = Fetched(latest[n], [session EXCEPT ![n] = store[n].ver], latest)
  <2>1. /\ latest \in [Names -> Stored]
        /\ latest[n].ver = store[n].ver
        /\ \A m \in Names \ {n} : latest[m] = last[m]
    BY <1>1, <1>2, <1>5 DEF Exists
  <2> HIDE DEF session, latest
  <2>2. /\ [session EXCEPT ![n] = store[n].ver] \in [Names -> Int]
        /\ [session EXCEPT ![n] = store[n].ver][n] = store[n].ver
        /\ \A m \in Names \ {n} : [session EXCEPT ![n] = store[n].ver][m] = session[m]
    BY <1>1, <1>2
  <2>3. store[n].ver # NoToken
    BY <1>1 DEF NoToken
  <2>4. QED
    BY <1>2, <1>5, <2>1, <2>2, <2>3 DEF Fetched
<1>6. QED
  BY <1>3, <1>4, <1>5 DEF FetchConfiguration

\* The same of every provider.
LEMMA FetchOK ==
  ASSUME StoreOK, SessionOK, NEW n \in Names, NEW f \in Fetch(n)
  PROVE  /\ f.token \in [Names -> Int]
         /\ f.last \in [Names -> Stored]
         /\ \A m \in Names : f.token[m] = NoToken => f.last[m] = Absent
         /\ \A m \in Names : f.token[m] # NoToken => f.last[m].ver = f.token[m]
         /\ f.value # Absent => /\ f.value.ver = store[n].ver
                                /\ f.value.ver \in 1 .. MaxWrites
PROOF
<1>1. CASE provider \in AppConfigs
  BY <1>1, ConfigurationFetch, StoreTypes DEF Fetch
<1>2. CASE provider \notin AppConfigs
  BY <1>2, StoreTypes DEF Fetch, FetchDirect, FetchFails, Fetched, SessionOK, TokenMatchesLast
<1>3. QED
  BY <1>1, <1>2

\* A transform keeps the version.
LEMMA TransformVersion ==
  ASSUME NEW n, NEW doc, NEW decrypt, NEW transform
  PROVE  TransformValue(Raw(n, doc, decrypt), transform).ver = doc.ver
PROOF
  BY DEF TransformValue, Raw

\* A call for several names reads those that exist.
LEMMA AllCurrent ==
  ASSUME StoreOK, NEW names \in SUBSET Existing, NEW transform, NEW decrypt
  PROVE  Current(TransformAll(names, transform, decrypt))
PROOF
  BY TransformVersion, StoreTypes DEF Current, TransformAll, Existing, Exists

-----------------------------------------------------------------------------
(* Calls that read *)

\* It suffices to look at the session, the cache and the answer.
LEMMA ReadKeeps ==
  ASSUME IInv, UNCHANGED <<provider, store, writes, retired, creating>>,
         SessionOK', CacheOK(cache'), Served(answer'.values)
  PROVE  IInv'
PROOF
<1>1. StoreOK' /\ provider' \in Providers /\ creating' \in Names \cup {NoName}
  BY DEF IInv, StoreOK
<1>2. CacheOK(cache)'
  BY DEF CacheOK, EntryOK, Aged
<1>3. FreshWithinMaxAge'
  BY DEF Served, FreshWithinMaxAge
<1>4. QED
  BY <1>1, <1>2, <1>3 DEF IInv

LEMMA SessionSame ==
  ASSUME IInv, UNCHANGED <<token, last>>
  PROVE  SessionOK'
PROOF
  BY DEF IInv, SessionOK, TokenMatchesLast

LEMMA RaisesServed ==
  ASSUME NEW op, NEW asked, NEW error, Raises(op, asked, error)
  PROVE  Served(answer'.values)
PROOF
  BY DEF Raises, NoAnswer, Served

LEMMA GetKeeps ==
  ASSUME IInv, NEW n \in Names, NEW transform, NEW decrypt, NEW age \in MaxAges, NEW force,
         Get(n, transform, decrypt, age, force)
  PROVE  IInv'
PROOF
<1> DEFINE k == Key("get", {n}, transform)
<1>1. CASE GetHit(n, transform, decrypt)
  <2>1. Served(answer'.values)
    BY <1>1, CachedServed DEF GetHit, Returns
  <2>2. SessionOK' /\ CacheOK(cache')
    BY <1>1, SessionSame DEF GetHit, IInv
  <2>3. QED
    BY <1>1, <2>1, <2>2, ReadKeeps DEF GetHit
<1>2. CASE GetMiss(n, transform, decrypt, age, force)
  <2>1. PICK f \in Fetch(n) :
          LET value == TransformValue(Raw(n, f.value, decrypt), transform) IN
          /\ token' = f.token
          /\ last' = f.last
          /\ \/ /\ f.value = Absent
                /\ Raises("get", {n}, "GetParameterError")
                /\ UNCHANGED cache
             \/ /\ f.value # Absent /\ Failed(value)
                /\ Raises("get", {n}, "TransformParameterError")
                /\ UNCHANGED cache
             \/ /\ f.value # Absent /\ ~Failed(value)
                /\ cache' = AddToCache(cache, k, [x \in {n} |-> value], age)
                /\ Returns("get", {n}, [x \in {n} |-> value], {})
    BY <1>2 DEF GetMiss
  <2> DEFINE value == TransformValue(Raw(n, f.value, decrypt), transform)
  <2>2. SessionOK'
    BY <2>1, FetchOK DEF IInv, SessionOK, TokenMatchesLast
  <2>3. CASE /\ \/ Raises("get", {n}, "GetParameterError")
                \/ Raises("get", {n}, "TransformParameterError")
             /\ UNCHANGED cache
    BY <1>2, <2>2, <2>3, RaisesServed, ReadKeeps DEF GetMiss, IInv
  <2>4. CASE /\ f.value # Absent
             /\ cache' = AddToCache(cache, k, [x \in {n} |-> value], age)
             /\ Returns("get", {n}, [x \in {n} |-> value], {})
    <3>1. Current([x \in {n} |-> value])
      BY <2>4, FetchOK, TransformVersion DEF Current, IInv
    <3>2. CacheOK(cache')
      BY <2>4, <3>1, AddKeepsOK DEF IInv, Key
    <3>3. Served(answer'.values)
      BY <2>4, <3>1, CurrentServed DEF Returns
    <3>4. QED
      BY <1>2, <2>2, <3>2, <3>3, ReadKeeps DEF GetMiss
  <2>5. QED
    BY <2>1, <2>3, <2>4
<1>3. QED
  BY <1>1, <1>2 DEF Get

\* What several values under one key come to.
LEMMA FetchManyOK ==
  ASSUME IInv, NEW op, NEW names, NEW found \in SUBSET Existing, NEW transform, NEW decrypt,
         NEW age \in MaxAges, NEW raiseOnTransform,
         FetchMany(op, Key("path", names, transform), found, transform, decrypt, age,
                   raiseOnTransform)
  PROVE  CacheOK(cache') /\ Served(answer'.values)
PROOF
<1> DEFINE k == Key("path", names, transform)
           values == TransformAll(found, transform, decrypt)
<1>1. Current(values)
  BY AllCurrent DEF IInv
<1>2. CASE /\ \/ Raises(op, k.of, "GetParameterError")
              \/ Raises(op, k.of, "TransformParameterError")
           /\ UNCHANGED cache
  BY <1>2, RaisesServed DEF IInv
<1>3. CASE cache' = AddToCache(cache, k, values, age) /\ Returns(op, k.of, values, {})
  <2>1. CacheOK(cache')
    BY <1>1, <1>3, AddKeepsOK DEF IInv, Key
  <2>2. Served(answer'.values)
    BY <1>1, <1>3, CurrentServed DEF Returns
  <2>3. QED
    BY <2>1, <2>2
<1>4. QED
  BY <1>2, <1>3 DEF FetchMany

LEMMA GetMultipleKeeps ==
  ASSUME IInv, NEW transform, NEW decrypt, NEW age \in MaxAges, NEW force, NEW raising,
         GetMultiple(transform, decrypt, age, force, raising)
  PROVE  IInv'
PROOF
<1> DEFINE k == Key("path", Names, transform)
<1>1. SessionOK'
  BY SessionSame DEF GetMultiple
<1>2. CASE HasNotExpired(k) /\ Returns("path", Names, cache[k].values, {}) /\ UNCHANGED cache
  <2>1. Served(answer'.values)
    BY <1>2, CachedServed DEF Returns
  <2>2. QED
    BY <1>1, <1>2, <2>1, ReadKeeps DEF GetMultiple, IInv
<1>3. CASE FetchMany("path", k, Existing, transform, decrypt, age, raising)
  BY <1>1, <1>3, FetchManyOK, ReadKeeps DEF GetMultiple
<1>4. QED
  BY <1>2, <1>3 DEF GetMultiple

LEMMA GetSecretsKeeps ==
  ASSUME IInv, NEW names, NEW transform, NEW age \in MaxAges, NEW force, NEW raising,
         GetSecrets(names, transform, age, force, raising)
  PROVE  IInv'
PROOF
<1> DEFINE k == Key("path", names, transform)
<1>1. SessionOK'
  BY SessionSame DEF GetSecrets
<1>2. CASE HasNotExpired(k) /\ Returns("secrets", names, cache[k].values, {}) /\ UNCHANGED cache
  <2>1. Served(answer'.values)
    BY <1>2, CachedServed DEF Returns
  <2>2. QED
    BY <1>1, <1>2, <2>1, ReadKeeps DEF GetSecrets, IInv
<1>3. CASE Raises("secrets", names, "GetParameterError") /\ UNCHANGED cache
  BY <1>1, <1>3, RaisesServed, ReadKeeps DEF GetSecrets, IInv
<1>4. CASE FetchMany("secrets", k, names \cap Existing, transform, TRUE, age, raising)
  <2>1. names \cap Existing \in SUBSET Existing
    OBVIOUS
  <2>2. CacheOK(cache') /\ Served(answer'.values)
    BY <1>4, <2>1, FetchManyOK
  <2>3. QED
    BY <1>1, <2>2, ReadKeeps DEF GetSecrets
<1>5. QED
  BY <1>2, <1>3, <1>4 DEF GetSecrets

-----------------------------------------------------------------------------
(* get_parameters_by_name *)

LEMMA HitsServed ==
  ASSUME IInv, NEW family \in {"get", "names"}, NEW names, NEW transform
  PROVE  Served(CachedValues(family, names, transform))
PROOF
<1> DEFINE hits == CachedValues(family, names, transform)
<1>1. SUFFICES ASSUME NEW n \in DOMAIN hits
               PROVE  \/ hits[n].ver = store[n].ver
                      \/ retired[hits[n].ver] \in 1 .. LongestAge + 1
  BY DEF Served
<1> DEFINE k == Key(family, {n}, transform)
<1>2. HasNotExpired(k) /\ hits[n] = cache[k].values[n]
  BY <1>1 DEF CachedValues
<1>3. n \in DOMAIN cache[k].values
  BY <1>2 DEF IInv, CacheOK, EntryOK, HasNotExpired, Key
<1>4. Served(cache[k].values)
  BY <1>2, CachedServed
<1>5. QED
  BY <1>2, <1>3, <1>4 DEF Served

\* Served values may be put together, or some of them be left out.
LEMMA ServedUnion ==
  ASSUME NEW f, NEW g, Served(f), Served(g)
  PROVE  Served(Merged(f, g))
PROOF
  BY DEF Served, Merged

LEMMA ServedPart ==
  ASSUME NEW f, NEW S \in SUBSET DOMAIN f, Served(f)
  PROVE  Served([n \in S |-> f[n]])
PROOF
  BY DEF Served

LEMMA ByDecryptOptionOK ==
  ASSUME IInv, NEW names, NEW transform, NEW age \in MaxAges, NEW strict, NEW lost
  PROVE  LET one == ByDecryptOption(names, transform, age, strict, lost)
         IN  Served(one.values) /\ CacheOK(one.cache)
PROOF
<1> DEFINE hits == CachedValues("get", Elements(names), transform)
           fresh == [n \in (Elements(names) \cap Existing) \ (DOMAIN hits \cup lost) |->
                       TransformValue(Raw(n, store[n], TRUE), transform)]
           broken == {n \in DOMAIN fresh : Failed(fresh[n])}
           stops == broken \cup (IF strict THEN lost ELSE {})
           done == Elements(Before(names, stops))
           added == [n \in done \cap DOMAIN fresh |-> fresh[n]]
           one == ByDecryptOption(names, transform, age, strict, lost)
<1>1. /\ one.values = Merged([n \in done \cap DOMAIN hits |-> hits[n]], added)
      /\ one.cache = AddEach(cache, "get", transform, added, age)
  BY DEF ByDecryptOption
<1>2. Current(fresh)
  <2>1. ASSUME NEW n \in DOMAIN fresh
        PROVE  n \in Names /\ fresh[n].ver = store[n].ver /\ fresh[n].ver \in 1 .. MaxWrites
    <3>1. n \in Names /\ Exists(n) /\ fresh[n] = TransformValue(Raw(n, store[n], TRUE), transform)
      BY <2>1 DEF Existing
    <3> HIDE DEF fresh
    <3>2. StoreOK
      BY DEF IInv
    <3>3. store[n].ver \in 1 .. MaxWrites
      BY <3>1, <3>2, StoreTypes
    <3>4. TransformValue(Raw(n, store[n], TRUE), transform).ver = store[n].ver
      BY DEF TransformValue, Raw
    <3>5. QED
      BY <3>1, <3>3, <3>4
  <2> HIDE DEF fresh
  <2>2. QED
    BY <2>1 DEF Current
<1> HIDE DEF fresh, hits, done, one
<1>3. Current(added)
  BY <1>2 DEF Current
<1>4. Served([n \in done \cap DOMAIN hits |-> hits[n]])
  BY HitsServed, ServedPart DEF hits
<1>5. Served(one.values)
  BY <1>1, <1>3, <1>4, CurrentServed, ServedUnion
<1>6. CacheOK(one.cache)
  BY <1>1, <1>3, AddEachKeepsOK DEF IInv
<1>7. QED
  BY <1>5, <1>6 DEF one

LEMMA InChunksOK ==
  ASSUME IInv, NEW names, NEW c, CacheOK(c), NEW transform, NEW decrypt, NEW age \in MaxAges,
         NEW strict, NEW outcome
  PROVE  LET rest == InChunks(names, c, transform, decrypt, age, strict, outcome)
         IN  Served(rest.values) /\ CacheOK(rest.cache)
PROOF
<1> DEFINE cached == CachedValues("names", Elements(names), transform)
           chunks == Chunks(Uncached(names, transform))
           calls == Before(outcome, {"throttled"})
           served == {i \in DOMAIN calls : calls[i] = "ok"}
           values(i) == [n \in Elements(chunks[i]) \cap Existing |-> Raw(n, store[n], decrypt)]
           cacheAfter == IF served = {} THEN c
                         ELSE AddEach(c, "names", transform, values(1), age)
           rest == InChunks(names, c, transform, decrypt, age, strict, outcome)
<1>1. /\ rest.values = Merged(cached, IF Len(chunks) \in served THEN values(Len(chunks)) ELSE <<>>)
      /\ rest.cache \in {c, cacheAfter}
  BY DEF InChunks
<1>2. ASSUME NEW i PROVE Current(values(i))
  BY StoreTypes DEF Current, Existing, Exists, IInv, Raw
<1> HIDE DEF chunks, served, values, rest, cached
<1>3. Served(cached)
  BY HitsServed DEF cached
<1>4. Served(IF Len(chunks) \in served THEN values(Len(chunks)) ELSE <<>>)
  <2>1. Served(<<>>)
    BY DEF Served
  <2>2. QED
    BY <1>2, <2>1, CurrentServed
<1>5. Served(rest.values)
  BY <1>1, <1>3, <1>4, ServedUnion
<1>6. CacheOK(rest.cache)
  BY <1>1, <1>2, AddEachKeepsOK
<1>7. QED
  BY <1>5, <1>6 DEF rest

LEMMA GetParametersByNameKeeps ==
  ASSUME IInv, NEW batch, NEW dec, NEW transform, NEW age \in MaxAges, NEW strict,
         GetParametersByName(batch, dec, transform, age, strict)
  PROVE  IInv'
PROOF
<1> DEFINE asked == Elements(batch)
           all == asked \subseteq dec
           single == IF all THEN <<>> ELSE Chosen(batch, dec)
           many == IF all THEN batch ELSE Chosen(batch, Names \ dec)
           op == IF strict THEN "names" ELSE "names or errors"
<1>1. PICK lost, outcome :
        LET one == ByDecryptOption(single, transform, age, strict, lost)
            rest == InChunks(many, one.cache, transform, all, age, strict, outcome)
        IN  \/ /\ cache' = one.cache
               /\ Raises("names", asked, one.raised)
            \/ /\ cache' = rest.cache
               /\ Raises("names", asked, rest.raised)
            \/ /\ cache' = rest.cache
               /\ Returns(op, asked, Merged(one.values, rest.values),
                          IF strict THEN {} ELSE one.errors \cup rest.errors)
  BY ZenonT(40) DEF GetParametersByName
<1> DEFINE one == ByDecryptOption(single, transform, age, strict, lost)
           rest == InChunks(many, one.cache, transform, all, age, strict, outcome)
<1> HIDE DEF single, many, all
<1>2. Served(one.values) /\ CacheOK(one.cache)
  BY ByDecryptOptionOK
<1>3. Served(rest.values) /\ CacheOK(rest.cache)
  BY <1>2, InChunksOK
<1>4. UNCHANGED <<provider, store, writes, retired, token, last, creating>>
  BY DEF GetParametersByName
<1>5. SessionOK'
  BY <1>4, SessionSame
<1> HIDE DEF one, rest
<1>6. CacheOK(cache')
  BY <1>1, <1>2, <1>3 DEF one, rest
<1>7. Served(answer'.values)
  <2>1. CASE \E error : Raises("names", asked, error)
    BY <2>1, RaisesServed
  <2>2. CASE Returns(op, asked, Merged(one.values, rest.values),
                     IF strict THEN {} ELSE one.errors \cup rest.errors)
    BY <1>2, <1>3, <2>2, ServedUnion DEF Returns
  <2>3. QED
    BY <1>1, <2>1, <2>2 DEF one, rest
<1>8. QED
  BY <1>4, <1>5, <1>6, <1>7, ReadKeeps

-----------------------------------------------------------------------------
(* Writers, the clock and restarts *)

\* A value in the cache whose version is replaced has aged by nothing yet.
LEMMA WriteKeeps ==
  ASSUME IInv, NEW n \in Names,
         \/ \E doc \in Contents : Write(n, doc)
         \/ store' = [store EXCEPT ![n] = Absent] /\ UNCHANGED writes,
         Retire(n) \/ (~Exists(n) /\ UNCHANGED retired),
         UNCHANGED <<provider, cache, token, last>>,
         creating' \in Names \cup {NoName},
         answer'.values = <<>>
  PROVE  IInv'
PROOF
<1>1. StoreOK /\ CacheOK(cache) /\ store[n] \in Stored /\ store[n].ver \in Nat
  BY StoreTypes DEF IInv
<1>2. StoreOK'
  <2>1. writes' \in Nat
    BY <1>1 DEF StoreOK, Write
  <2>2. store' \in [Names -> Stored]
    BY <1>1, BoundsAssumption DEF StoreOK, Stored, Write
  <2>3. retired' \in [1 .. MaxWrites -> Nat]
    BY <1>1 DEF StoreOK, Retire
  <2>4. QED
    BY <2>1, <2>2, <2>3 DEF StoreOK
<1>3. /\ \A m \in Names \ {n} : store'[m] = store[m]
      /\ \A v \in 1 .. MaxWrites : retired'[v] = retired[v] \/ retired'[v] = 1
      /\ store[n].ver \in 1 .. MaxWrites => retired'[store[n].ver] = 1
  <2>1. \A m \in Names \ {n} : store'[m] = store[m]
    BY <1>1 DEF StoreOK, Write
  <2>2. CASE Exists(n) /\ retired' = [retired EXCEPT ![store[n].ver] = 1]
    BY <1>1, <2>1, <2>2 DEF StoreOK
  <2>3. CASE ~Exists(n) /\ retired' = retired
    BY <1>1, <2>1, <2>3 DEF Exists
  <2>4. QED
    BY <2>2, <2>3 DEF Retire
<1>4. CacheOK(cache)'
  <2>1. SUFFICES ASSUME NEW k \in DOMAIN cache, NEW m \in DOMAIN cache[k].values
                 PROVE  Aged(m, cache[k].values[m].ver, cache[k].left)'
    BY <1>1 DEF CacheOK, EntryOK
  <2> DEFINE v == cache[k].values[m].ver
             left == cache[k].left
  <2>2. /\ m \in Names /\ v \in 1 .. MaxWrites
        /\ left \in Int /\ left <= LongestAge
        /\ Aged(m, v, left)
        /\ retired[v] \in Nat
    BY <1>1, <2>1 DEF CacheOK, EntryOK, StoreOK
  <2> HIDE DEF v, left
  <2>3. \/ v = store'[m].ver
        \/ retired'[v] >= 1 /\ (left >= 0 => retired'[v] + left <= LongestAge + 1)
    <3>1. CASE v = store[m].ver
      BY <1>3, <2>2, <3>1, Longest
    <3>2. CASE retired[v] >= 1 /\ (left >= 0 => retired[v] + left <= LongestAge + 1)
      BY <1>3, <2>2, <3>2, Longest
    <3>3. QED
      BY <2>2, <3>1, <3>2 DEF Aged
  <2>4. QED
    BY <2>3 DEF Aged, v, left
<1>5. SessionOK'
  BY SessionSame
<1>6. FreshWithinMaxAge'
  BY DEF FreshWithinMaxAge
<1>7. QED
  BY <1>2, <1>4, <1>5, <1>6 DEF IInv

\* A step that changes nothing but what is being created.
LEMMA IdleKeeps ==
  ASSUME IInv, UNCHANGED <<provider, store, writes, retired, cache, token, last>>,
         creating' \in Names \cup {NoName}, answer'.values = <<>>
  PROVE  IInv'
PROOF
<1>1. SessionOK'
  BY SessionSame
<1>2. StoreOK' /\ CacheOK(cache)'
  BY DEF IInv, StoreOK, CacheOK, EntryOK, Aged
<1>3. FreshWithinMaxAge'
  BY DEF FreshWithinMaxAge
<1>4. QED
  BY <1>1, <1>2, <1>3 DEF IInv

LEMMA TickKeeps ==
  ASSUME IInv, Tick
  PROVE  IInv'
PROOF
<1>1. StoreOK /\ CacheOK(cache)
  BY DEF IInv
<1>2. /\ \A v \in 1 .. MaxWrites :
           retired'[v] = IF retired[v] \in 1 .. LongestAge + 1 THEN retired[v] + 1 ELSE retired[v]
      /\ retired' \in [1 .. MaxWrites -> Nat]
  BY <1>1, Longest DEF Tick, StoreOK
<1>3. StoreOK'
  BY <1>1, <1>2 DEF StoreOK, Tick
<1>4. ASSUME NEW k \in DOMAIN cache'
      PROVE  /\ cache'[k] = [values |-> cache'[k].values, left |-> cache'[k].left]
             /\ cache'[k].values = cache[k].values
             /\ cache'[k].left = IF cache[k].left >= 0 THEN cache[k].left - 1 ELSE cache[k].left
             /\ EntryOK(k, cache[k])
  <2>1. EntryOK(k, cache[k])
    BY <1>1, <1>4 DEF CacheOK, Tick
  <2>2. cache'[k] = [cache[k] EXCEPT !.left = IF @ >= 0 THEN @ - 1 ELSE @]
    BY <1>4 DEF Tick
  <2>3. cache[k] = [values |-> cache[k].values, left |-> cache[k].left]
    BY <2>1 DEF EntryOK
  <2>4. cache'[k] = [values |-> cache[k].values,
                     left |-> IF cache[k].left >= 0 THEN cache[k].left - 1 ELSE cache[k].left]
    BY <2>2, <2>3
  <2>5. QED
    BY <2>1, <2>4
<1>5. CacheOK(cache)'
  <2>1. SUFFICES ASSUME NEW k \in DOMAIN cache' PROVE EntryOK(k, cache[k])'
    BY DEF CacheOK
  <2> DEFINE left == cache[k].left
  <2>2. left \in Int /\ left <= LongestAge
    BY <1>4, <2>1 DEF EntryOK
  <2>3. ASSUME NEW n \in DOMAIN cache[k].values
        PROVE  Aged(n, cache[k].values[n].ver, cache[k].left)'
    <3> DEFINE v == cache[k].values[n].ver
    <3>1. v \in 1 .. MaxWrites /\ Aged(n, v, left) /\ retired[v] \in Nat
      BY <1>1, <1>4, <2>1, <2>3 DEF EntryOK, StoreOK
    <3>2. cache'[k].values[n].ver = v /\ store' = store
      BY <1>4, <2>1 DEF Tick
    <3> HIDE DEF v, left
    <3>3. retired'[v] = IF retired[v] \in 1 .. LongestAge + 1 THEN retired[v] + 1 ELSE retired[v]
      BY <1>2, <3>1
    <3>4. cache'[k].left = IF left >= 0 THEN left - 1 ELSE left
      BY <1>4, <2>1 DEF left
    <3>5. QED
      BY <2>2, <3>1, <3>2, <3>3, <3>4, Longest DEF Aged
  <2>4. /\ DOMAIN cache'[k].values \subseteq Names
        /\ k.family \in {"get", "names"} => DOMAIN cache'[k].values = k.of
        /\ \A n \in DOMAIN cache'[k].values : cache'[k].values[n].ver \in 1 .. MaxWrites
    BY <1>4, <2>1 DEF EntryOK
  <2>5. cache'[k].left \in Int /\ cache'[k].left <= LongestAge
    BY <1>4, <2>1, <2>2, Longest
  <2>6. \A n \in DOMAIN cache'[k].values : Aged(n, cache[k].values[n].ver, cache[k].left)'
    BY <1>4, <2>1, <2>3
  <2>7. QED
    BY <1>4, <2>1, <2>4, <2>5, <2>6 DEF EntryOK
<1>6. SessionOK'
  BY SessionSame DEF Tick
<1>7. FreshWithinMaxAge'
  BY DEF FreshWithinMaxAge, Tick, NoAnswer
<1>8. QED
  BY <1>3, <1>5, <1>6, <1>7 DEF IInv, Tick

LEMMA RestartKeeps ==
  ASSUME IInv, Restart
  PROVE  IInv'
PROOF
<1>1. StoreOK' /\ CacheOK(cache)'
  BY DEF IInv, StoreOK, CacheOK, Restart
<1>2. SessionOK'
  BY DEF SessionOK, TokenMatchesLast, Restart, Stored, NoToken
<1>3. FreshWithinMaxAge'
  BY DEF FreshWithinMaxAge, Restart, NoAnswer
<1>4. QED
  BY <1>1, <1>2, <1>3 DEF IInv, Restart

LEMMA ClearCacheKeeps ==
  ASSUME IInv, ClearCache
  PROVE  IInv'
PROOF
<1>1. CacheOK(cache') /\ Served(answer'.values)
  BY DEF CacheOK, Served, ClearCache, NoAnswer
<1>2. SessionOK'
  BY SessionSame DEF ClearCache
<1>3. QED
  BY <1>1, <1>2, ReadKeeps DEF ClearCache

LEMMA EnvironmentKeeps ==
  ASSUME IInv, Environment
  PROVE  IInv'
PROOF
<1>1. InUse \subseteq Names /\ creating \in Names \cup {NoName} /\ ContentsOf[provider] \subseteq Contents
  BY UseAssumption DEF InUse, IInv
<1>2. ASSUME NEW n \in InUse, NEW doc \in Contents, Put(n, doc) PROVE IInv'
  BY <1>1, <1>2, WriteKeeps DEF Put, NoAnswer
<1>3. ASSUME NEW n \in InUse, Delete(n) PROVE IInv'
  BY <1>1, <1>3, WriteKeeps DEF Delete, NoAnswer
<1>4. QED
  BY <1>2, <1>3, TickKeeps, RestartKeeps DEF Environment

-----------------------------------------------------------------------------
(* Every step *)

LEMMA NothingReturned ==
  ASSUME NEW op, NEW asked, NEW error,
         Raises(op, asked, error) \/ Returns(op, asked, <<>>, {})
  PROVE  answer'.values = <<>>
PROOF
<1>1. CASE Raises(op, asked, error)
  BY <1>1 DEF Raises, NoAnswer
<1>2. CASE Returns(op, asked, <<>>, {})
  BY <1>2 DEF Returns
<1>3. QED
  BY <1>1, <1>2

LEMMA SetKeeps ==
  ASSUME IInv, NEW n \in Names, NEW doc \in Contents, NEW o,
         SetParameter(n, doc, o) \/ SetSecret(n, doc)
  PROVE  IInv'
PROOF
<1>1. creating \in Names \cup {NoName} /\ creating' \in Names \cup {NoName}
  BY DEF IInv, SetParameter, SetSecret
<1>2. answer'.values = <<>>
  <2>1. NoAnswer.values = <<>>
    BY DEF NoAnswer
  <2>2. QED
    BY <2>1, NothingReturned DEF SetParameter, SetSecret
<1>3. CASE Write(n, doc) /\ Retire(n)
  BY <1>1, <1>2, <1>3, WriteKeeps DEF SetParameter, SetSecret
<1>4. CASE UNCHANGED <<store, writes, retired>>
  BY <1>1, <1>2, <1>4, IdleKeeps DEF SetParameter, SetSecret
<1>5. QED
  BY <1>3, <1>4 DEF SetParameter, SetSecret

LEMMA CreateSecretKeeps ==
  ASSUME IInv, NEW doc \in Contents, CreateSecret(doc)
  PROVE  IInv'
PROOF
<1>1. creating \in Names /\ creating' \in Names \cup {NoName}
  BY DEF IInv, CreateSecret
<1>2. answer'.values = <<>>
  BY NothingReturned DEF CreateSecret
<1>3. CASE ~Exists(creating) /\ Write(creating, doc)
  BY <1>1, <1>2, <1>3, WriteKeeps DEF CreateSecret
<1>4. CASE UNCHANGED <<store, writes>>
  BY <1>1, <1>2, <1>4, IdleKeeps DEF CreateSecret
<1>5. QED
  BY <1>3, <1>4 DEF CreateSecret

LEMMA CallKeeps ==
  ASSUME IInv, Call
  PROVE  IInv'
PROOF
<1>1. InUse \subseteq Names /\ ContentsOf[provider] \subseteq Contents
  BY UseAssumption DEF InUse, IInv
<1>2. ASSUME NEW n \in InUse, NEW t, NEW d, NEW a \in MaxAges, NEW force, Get(n, t, d, a, force)
      PROVE  IInv'
  BY <1>1, <1>2, GetKeeps
<1>3. ASSUME NEW c \in PathCalls, NEW force, GetMultiple(c.transform, c.decrypt, c.age, force, c.raising)
      PROVE  IInv'
  BY <1>3, CallsAssumption, GetMultipleKeeps
<1>4. ASSUME NEW names, NEW t, NEW a \in MaxAges, NEW force, NEW r, GetSecrets(names, t, a, force, r)
      PROVE  IInv'
  BY <1>4, GetSecretsKeeps
<1>5. ASSUME NEW b \in Batches, NEW strict,
             GetParametersByName(b.names, b.decrypt, b.transform, b.age, strict)
      PROVE  IInv'
  BY <1>5, CallsAssumption, GetParametersByNameKeeps
<1>6. ASSUME NEW n \in InUse, NEW doc \in ContentsOf[provider], NEW o,
             SetParameter(n, doc, o) \/ SetSecret(n, doc)
      PROVE  IInv'
  BY <1>1, <1>6, SetKeeps
<1>7. QED
  BY <1>2, <1>3, <1>4, <1>5, <1>6, ClearCacheKeeps DEF Call

LEMMA Initially ==
  ASSUME Init
  PROVE  IInv
PROOF
<1>1. StoreOK
  BY BoundsAssumption DEF Init, PInit, StoreOK, Stored
<1>2. SessionOK
  BY DEF Init, PInit, SessionOK, Stored, TokenMatchesLast, NoToken
<1>3. CacheOK(cache) /\ FreshWithinMaxAge
  BY DEF Init, PInit, CacheOK, FreshWithinMaxAge, NoAnswer
<1>4. QED
  BY <1>1, <1>2, <1>3 DEF Init, PInit, IInv

LEMMA Inductive ==
  ASSUME IInv, [Next]_vars
  PROVE  IInv'
PROOF
<1>1. CASE Environment
  BY <1>1, EnvironmentKeeps
<1>2. CASE Call
  BY <1>2, CallKeeps
<1>3. CASE \E doc \in ContentsOf[provider] : CreateSecret(doc)
  BY <1>3, CreateSecretKeeps, UseAssumption DEF IInv
<1>4. CASE Consume
  BY <1>4, IdleKeeps DEF Consume, NoAnswer, IInv
<1>5. CASE Evaluations
  <2>1. \E d, force : Get(Profile, "json", d, FlagsAge, force)
    BY <1>5 DEF Evaluations, Evaluate, GetEnabledFeatures, GetConfiguration
  <2>2. QED
    BY <2>1, GetKeeps, ProfileAssumption
<1>6. CASE UNCHANGED vars
  BY <1>6 DEF vars, pvars, IInv, StoreOK, SessionOK, TokenMatchesLast, CacheOK, EntryOK, Aged,
              FreshWithinMaxAge
<1>7. QED
  BY <1>1, <1>2, <1>3, <1>4, <1>5, <1>6 DEF Next, PNext

(* The poll token and the last value of an AppConfig profile belong together, *)
(* whichever call of AppConfigProvider._get fails at whatever point.          *)
THEOREM SessionsAgree == Spec => []TokenMatchesLast
PROOF
<1>1. Init => IInv
  BY Initially
<1>2. IInv /\ [Next]_vars => IInv'
  BY Inductive
<1>3. IInv => TokenMatchesLast
  BY DEF IInv, SessionOK
<1>4. QED
  BY <1>1, <1>2, <1>3, PTL DEF Spec

(* No call of a provider (get, get_multiple, get_parameters_by_name, through *)
(* the cache of BaseProvider or not) returns a value that was replaced longer *)
(* ago than the longest max_age in use.                                       *)
THEOREM AnswersFresh == Spec => []FreshWithinMaxAge
PROOF
<1>1. Init => IInv
  BY Initially
<1>2. IInv /\ [Next]_vars => IInv'
  BY Inductive
<1>3. IInv => FreshWithinMaxAge
  BY DEF IInv
<1>4. QED
  BY <1>1, <1>2, <1>3, PTL DEF Spec

-----------------------------------------------------------------------------
(* Feature flags *)

\* The two walks over the rules of one feature agree.
LEMMA WalksAgree ==
  ASSUME NEW feature, NEW context, NEW now
  PROVE  Enabled(feature, context, now) <=> Truthy(EvaluateFeature(feature, context, now))
PROOF
<1>1. \A v : Truthy(ToBool(v)) <=> Truthy(v)
  BY DEF Truthy, ToBool
<1>2. CASE feature.rules = <<>>
  <2>1. EvaluateRules(feature, context, now) = feature.default
    BY <1>2 DEF EvaluateRules
  <2>2. QED
    BY <1>1, <1>2, <2>1 DEF Enabled, EvaluateFeature
<1>3. CASE feature.rules # <<>>
  BY <1>3 DEF Enabled, EvaluateFeature
<1>4. QED
  BY <1>2, <1>3

\* What get_configuration adds to the record of an evaluation.
LEMMA ConfiguredOp ==
  ASSUME NEW op, NEW context, NEW now, NEW d \in Configured(Asked(op, context, now))
  PROVE  /\ DOMAIN d = DOMAIN NoDecision
         /\ d.op = op /\ d.context = context /\ d.wall = now
         /\ ~HasSchema(d) => d.raised # "no" \/ d.ver = 0
PROOF
<1> DEFINE base == Asked(op, context, now)
           v == answer'.values[Profile]
           known == [base EXCEPT !.ver = v.ver, !.doc = v.doc]
<1>1. /\ DOMAIN base = DOMAIN NoDecision
      /\ base.op = op /\ base.context = context /\ base.wall = now /\ base.ver = 0
  BY DEF Asked, NoDecision
<1>2. \/ d = base
      \/ d = known /\ v.doc \in DOMAIN Schemas
      \/ d = [known EXCEPT !.raised = "SchemaValidationError"]
      \/ d = [base EXCEPT !.raised = "StoreClientError"]
  BY DEF Configured
<1> HIDE DEF base, v
<1>3. {"op", "context", "wall", "ver", "doc", "raised"} \subseteq DOMAIN base
  BY <1>1 DEF NoDecision
<1>4. QED
  BY <1>1, <1>2, <1>3 DEF HasSchema

LEMMA EvaluationsAgree ==
  ASSUME [Next]_vars, EnabledAgreesWithEvaluate
  PROVE  EnabledAgreesWithEvaluate'
PROOF
<1>1. CASE decision' = NoDecision
  BY <1>1 DEF EnabledAgreesWithEvaluate, NoDecision
<1>2. CASE UNCHANGED decision
  BY <1>2 DEF EnabledAgreesWithEvaluate
<1>3. ASSUME NEW name, NEW context, NEW now, Evaluate(name, context, now)
      PROVE  decision'.op = "evaluate"
  <2>1. PICK d \in Configured(Asked("evaluate", context, now)) :
          \/ decision' = d
          \/ \E value : decision' = [d EXCEPT !.value = value]
    BY <1>3 DEF Evaluate
  <2>2. d.op = "evaluate" /\ "op" \in DOMAIN d
    BY ConfiguredOp DEF NoDecision
  <2>3. QED
    BY <2>1, <2>2
<1>4. ASSUME NEW context, NEW now, GetEnabledFeatures(context, now)
      PROVE  EnabledAgreesWithEvaluate'
  <2>1. PICK d \in Configured(Asked("enabled", context, now)) :
          decision' =
            IF ~HasSchema(d) THEN d
            ELSE IF \E f \in DOMAIN Schemas[d.doc] : CannotWalk(Schemas[d.doc][f])
            THEN [d EXCEPT !.raised = "AttributeError"]
            ELSE [d EXCEPT !.enabled =
                    {f \in DOMAIN Schemas[d.doc] : Enabled(Schemas[d.doc][f], context, now)}]
    BY <1>4 DEF GetEnabledFeatures
  <2>2. /\ d.context = context /\ d.wall = now
        /\ {"op", "context", "wall", "raised", "enabled", "doc", "ver"} \subseteq DOMAIN d
    BY ConfiguredOp DEF NoDecision
  <2>3. CASE ~HasSchema(d)
    BY <2>1, <2>3, ConfiguredOp DEF EnabledAgreesWithEvaluate
  <2>4. CASE decision' = [d EXCEPT !.raised = "AttributeError"]
    BY <2>2, <2>4 DEF EnabledAgreesWithEvaluate
  <2>5. CASE decision' = [d EXCEPT !.enabled =
                 {f \in DOMAIN Schemas[d.doc] : Enabled(Schemas[d.doc][f], context, now)}]
    <3>1. /\ decision'.context = context /\ decision'.wall = now /\ decision'.doc = d.doc
          /\ decision'.enabled =
               {f \in DOMAIN Schemas[d.doc] : Enabled(Schemas[d.doc][f], context, now)}
      BY <2>2, <2>5
    <3>2. QED
      BY <3>1, WalksAgree DEF EnabledAgreesWithEvaluate
  <2>6. QED
    BY <2>1, <2>3, <2>4, <2>5
<1>5. QED
  BY <1>1, <1>2, <1>3, <1>4 DEF Next, vars, Evaluations, EnabledAgreesWithEvaluate

(* get_enabled_features returns the features that evaluate finds true, for every *)
(* schema, context and time, although each walks the rules by code of its own.   *)
THEOREM FlagsAgree == Spec => []EnabledAgreesWithEvaluate
PROOF
<1>1. Init => EnabledAgreesWithEvaluate
  BY DEF Init, EnabledAgreesWithEvaluate, NoDecision
<1>2. EnabledAgreesWithEvaluate /\ [Next]_vars => EnabledAgreesWithEvaluate'
  BY EvaluationsAgree
<1>3. QED
  BY <1>1, <1>2, PTL DEF Spec

-----------------------------------------------------------------------------
(* Time windows *)

LEMMA SmallModulus ==
  ASSUME NEW x \in Int, NEW d \in Nat \ {0}, -d < x, x < d
  PROVE  x % d = IF x >= 0 THEN x ELSE x + d
PROOF
<1>1. CASE x >= 0
  BY <1>1, SMT
<1>2. CASE x < 0
  BY <1>2, SMT
<1>3. QED
  BY <1>1, <1>2

LEMMA HoursGrow ==
  ASSUME NEW s \in Int, NEW t \in Int, s <= t
  PROVE  Hour(s) <= Hour(t)
PROOF
<1>1. \A d \in Int : d > 0 => s \div d <= t \div d
  BY SMT
<1>2. QED
  BY <1>1, DayAssumption DEF Hour

LEMMA WindowCyclic ==
  ASSUME NEW now \in Minutes, NEW s \in Minutes, NEW e \in Minutes,
         ~(Hour(s) = Hour(e) /\ e < s)
  PROVE  LET day == MinutesPerHour * HoursPerDay
         IN  CompareTimeRange(now, s, e) <=> (now - s) % day <= (e - s) % day
PROOF
<1> DEFINE day == MinutesPerHour * HoursPerDay
<1>1. day \in Nat \ {0}
  <2>1. \A m, h \in Int : m > 0 /\ h > 0 => m * h > 0
    BY SMT
  <2>2. QED
    BY <2>1, DayAssumption
<1>2. /\ now \in Int /\ 0 <= now /\ now < day
      /\ s \in Int /\ 0 <= s /\ s < day
      /\ e \in Int /\ 0 <= e /\ e < day
  BY <1>1 DEF Minutes
<1> HIDE DEF day
<1>3. /\ (now - s) % day = IF now >= s THEN now - s ELSE now - s + day
      /\ (e - s) % day = IF e >= s THEN e - s ELSE e - s + day
  <2>1. /\ now - s \in Int /\ -day < now - s /\ now - s < day
        /\ e - s \in Int /\ -day < e - s /\ e - s < day
    BY <1>1, <1>2
  <2>2. /\ (now - s) % day = IF now - s >= 0 THEN now - s ELSE now - s + day
        /\ (e - s) % day = IF e - s >= 0 THEN e - s ELSE e - s + day
    BY <1>1, <2>1, SmallModulus
  <2>3. QED
    BY <1>2, <2>2
<1>4. Hour(s) \in Int /\ Hour(e) \in Int
  BY <1>2, DayAssumption DEF Hour
<1>5. Hour(e) < Hour(s) <=> e < s
  BY <1>2, <1>4, HoursGrow
<1>6. CompareTimeRange(now, s, e) <=> IF e < s THEN s <= now \/ now <= e
                                      ELSE s <= now /\ now <= e
  BY <1>5 DEF CompareTimeRange
<1>7. CompareTimeRange(now, s, e) <=> (now - s) % day <= (e - s) % day
  BY <1>1, <1>2, <1>3, <1>6
<1>8. QED
  BY <1>7 DEF day

WallOK == decision.op # "none" => decision.wall \in Minutes

LEMMA WallKept ==
  ASSUME [Next]_vars, WallOK
  PROVE  WallOK'
PROOF
<1>1. CASE decision' = NoDecision \/ UNCHANGED decision
  BY <1>1 DEF WallOK, NoDecision
<1>2. ASSUME NEW op, NEW context, NEW now \in Minutes,
             NEW d \in Configured(Asked(op, context, now)),
             \/ decision' = d
             \/ \E value : decision' = [d EXCEPT !.value = value]
             \/ \E value : decision' = [d EXCEPT !.raised = value]
             \/ \E value : decision' = [d EXCEPT !.enabled = value]
      PROVE  WallOK'
  <2>1. d.wall = now /\ "wall" \in DOMAIN d
    BY ConfiguredOp DEF NoDecision
  <2>2. decision'.wall = now
    BY <1>2, <2>1
  <2>3. QED
    BY <2>2 DEF WallOK
<1>3. ASSUME NEW name, NEW context, NEW now \in Minutes, Evaluate(name, context, now)
      PROVE  WallOK'
  BY <1>2, <1>3 DEF Evaluate
<1>4. ASSUME NEW context, NEW now \in Minutes, GetEnabledFeatures(context, now)
      PROVE  WallOK'
  BY <1>2, <1>4 DEF GetEnabledFeatures
<1>5. QED
  BY <1>1, <1>3, <1>4 DEF Next, vars, Evaluations

(* The time range comparator of feature flags matches exactly the minutes from *)
(* the start of the window to its end, across midnight or not, for days of any *)
(* length; windows that end before they start, in one hour, are left out.      *)
THEOREM WindowsCyclic == Spec => []WindowIsCyclic
PROOF
<1>1. Init => WallOK
  BY DEF Init, WallOK, NoDecision
<1>2. WallOK /\ [Next]_vars => WallOK'
  BY WallKept
<1>3. WallOK => WindowIsCyclic
  BY WindowCyclic DEF WallOK, WindowIsCyclic
<1>4. QED
  BY <1>1, <1>2, <1>3, PTL DEF Spec

-----------------------------------------------------------------------------
(* Sequences of names.  Induction up to a bound, over sets instead of predicates *)

LEMMA Least ==
  ASSUME NEW T \in SUBSET Nat, T # {}
  PROVE  \E x \in T : \A y \in T : x <= y
PROOF
<1>1. PICK R : R = {p \in Nat \X Nat : p[1] < p[2]}
  OBVIOUS
<1>2. IsWellFoundedOn(R, Nat)
  BY <1>1, NatLessThanWellFounded DEF OpToRel
<1>3. PICK x \in T : \A y \in T : ~(<<y, x>> \in R)
  BY <1>2, WFMin
<1>4. ASSUME NEW y \in T PROVE x <= y
  <2>1. x \in Nat /\ y \in Nat /\ <<y, x>> \notin R
    BY <1>3
  <2>2. ~(y < x)
    BY <1>1, <2>1
  <2>3. QED
    BY <2>1, <2>2
<1>5. QED
  BY <1>4

LEMMA UpTo ==
  ASSUME NEW N \in Nat, NEW T, 0 \in T, \A k \in 1 .. N : k - 1 \in T => k \in T
  PROVE  0 .. N \subseteq T
PROOF
<1> DEFINE U == {k \in 0 .. N : k \notin T}
<1>1. SUFFICES ASSUME U # {} PROVE FALSE
  OBVIOUS
<1>2. PICK k \in U : \A j \in U : k <= j
  <2>1. U \in SUBSET Nat
    OBVIOUS
  <2> HIDE DEF U
  <2>2. QED
    BY <1>1, <2>1, Least
<1>3. k \in 1 .. N /\ k - 1 \notin U
  <2>1. k \in 1 .. N
    OBVIOUS
  <2>2. \A j \in U : j \in Nat
    OBVIOUS
  <2> HIDE DEF U
  <2>3. QED
    BY <1>2, <2>1, <2>2
<1>4. QED
  BY <1>3

\* f is the function by which Chosen is defined, and there is one.
Chooses(f, N, a, S) ==
  f = [n \in 0 .. N |->
         IF n = 0 THEN <<>>
         ELSE IF a[n] \in S THEN Append(f[n - 1], a[n]) ELSE f[n - 1]]

LEMMA Chooser ==
  ASSUME NEW N \in Nat, NEW a, NEW S
  PROVE  \E f : Chooses(f, N, a, S)
PROOF
<1> DEFINE T == {k \in Nat : \E f : f = [n \in 0 .. k |->
                      IF n = 0 THEN <<>>
                      ELSE IF a[n] \in S THEN Append(f[n - 1], a[n]) ELSE f[n - 1]]}
<1>1. 0 \in T
  <2>1. PICK z : z = [n \in 0 .. 0 |-> <<>>]
    OBVIOUS
  <2>2. z = [n \in 0 .. 0 |->
               IF n = 0 THEN <<>>
               ELSE IF a[n] \in S THEN Append(z[n - 1], a[n]) ELSE z[n - 1]]
    BY <2>1
  <2>3. QED
    BY <2>2
<1>2. ASSUME NEW k \in 1 .. N, k - 1 \in T PROVE k \in T
  <2>1. PICK f : f = [n \in 0 .. k - 1 |->
                        IF n = 0 THEN <<>>
                        ELSE IF a[n] \in S THEN Append(f[n - 1], a[n]) ELSE f[n - 1]]
    BY <1>2
  <2> DEFINE next == IF a[k] \in S THEN Append(f[k - 1], a[k]) ELSE f[k - 1]
             g == [n \in 0 .. k |-> IF n = k THEN next ELSE f[n]]
  <2>2. ASSUME NEW n \in 0 .. k
        PROVE  g[n] = IF n = 0 THEN <<>>
                      ELSE IF a[n] \in S THEN Append(g[n - 1], a[n]) ELSE g[n - 1]
    <3>1. CASE n = k
      BY <3>1
    <3>2. CASE n # k
      <4>1. n \in 0 .. k - 1 /\ (n # 0 => n - 1 \in 0 .. k - 1)
        BY <3>2
      <4>2. f[n] = IF n = 0 THEN <<>>
                   ELSE IF a[n] \in S THEN Append(f[n - 1], a[n]) ELSE f[n - 1]
        BY <2>1, <4>1
      <4>3. QED
        BY <4>1, <4>2
    <3>3. QED
      BY <3>1, <3>2
  <2>3. g = [n \in 0 .. k |->
               IF n = 0 THEN <<>>
               ELSE IF a[n] \in S THEN Append(g[n - 1], a[n]) ELSE g[n - 1]]
    <3>1. g = [n \in 0 .. k |-> g[n]]
      OBVIOUS
    <3> HIDE DEF g
    <3>2. QED
      BY <2>2, <3>1
  <2>4. k \in Nat
    OBVIOUS
  <2> HIDE DEF g
  <2>5. QED
    BY <2>3, <2>4
<1>3. 0 .. N \subseteq T
  <2> HIDE DEF T
  <2>1. QED
    BY <1>1, <1>2, UpTo
<1>4. N \in T
  <2>1. N \in 0 .. N
    OBVIOUS
  <2> HIDE DEF T
  <2>2. QED
    BY <1>3, <2>1
<1>5. QED
  BY <1>4 DEF Chooses

\* What Chosen leaves of a sequence.
LEMMA ChosenElements ==
  ASSUME NEW T, NEW names \in Seq(T), NEW S
  PROVE  /\ Chosen(names, S) \in Seq(T)
         /\ Len(Chosen(names, S)) <= Len(names)
         /\ Elements(Chosen(names, S)) = Elements(names) \cap S
PROOF
<1>1. \E f : Chooses(f, Len(names), names, S)
  <2>1. Len(names) \in Nat
    OBVIOUS
  <2>2. QED
    BY <2>1, Chooser
<1> DEFINE g == CHOOSE g : g = [n \in 0 .. Len(names) |->
                      IF n = 0 THEN <<>>
                      ELSE IF names[n] \in S THEN Append(g[n - 1], names[n]) ELSE g[n - 1]]
<1>2. g = [n \in 0 .. Len(names) |->
             IF n = 0 THEN <<>>
             ELSE IF names[n] \in S THEN Append(g[n - 1], names[n]) ELSE g[n - 1]]
  BY <1>1 DEF Chooses
<1>3. Chosen(names, S) = g[Len(names)]
  BY DEF Chosen
<1> HIDE DEF g
<1>4. /\ g[0] = <<>>
      /\ \A n \in 1 .. Len(names) :
           g[n] = IF names[n] \in S THEN Append(g[n - 1], names[n]) ELSE g[n - 1]
  <2>1. Len(names) \in Nat /\ 0 \in 0 .. Len(names)
    OBVIOUS
  <2>2. \A n \in 1 .. Len(names) : n \in 0 .. Len(names) /\ n # 0
    BY <2>1
  <2>3. g[0] = <<>>
    BY <1>2, <2>1
  <2>4. ASSUME NEW n \in 1 .. Len(names)
        PROVE  g[n] = IF names[n] \in S THEN Append(g[n - 1], names[n]) ELSE g[n - 1]
    BY <1>2, <2>2
  <2>5. QED
    BY <2>3, <2>4
<1> DEFINE U == {k \in 0 .. Len(names) :
                   /\ g[k] \in Seq(T)
                   /\ Len(g[k]) <= k
                   /\ Elements(g[k]) = {names[i] : i \in 1 .. k} \cap S}
<1>5. 0 \in U
  <2>1. 0 \in 0 .. Len(names) /\ g[0] = <<>>
    BY <1>4
  <2>2. g[0] \in Seq(T) /\ Len(g[0]) <= 0 /\ Elements(g[0]) = {}
    BY <2>1 DEF Elements
  <2>3. {names[i] : i \in 1 .. 0} = {}
    OBVIOUS
  <2>4. QED
    BY <2>1, <2>2, <2>3
<1>6. ASSUME NEW k \in 1 .. Len(names), k - 1 \in U PROVE k \in U
  <2>1. /\ g[k - 1] \in Seq(T) /\ Len(g[k - 1]) <= k - 1
        /\ Elements(g[k - 1]) = {names[i] : i \in 1 .. k - 1} \cap S
    BY <1>6
  <2>2. names[k] \in T /\ k \in 0 .. Len(names)
    OBVIOUS
  <2>3. {names[i] : i \in 1 .. k} = {names[i] : i \in 1 .. k - 1} \cup {names[k]}
    <3>1. \A i \in 1 .. k : i \in 1 .. k - 1 \/ i = k
      OBVIOUS
    <3>2. QED
      BY <3>1
  <2>4. CASE names[k] \in S
    <3>1. PICK s \in Seq(T) : s = g[k - 1]
      BY <2>1
    <3>2. g[k] = Append(s, names[k])
      BY <1>4, <2>4, <3>1
    <3>3. Elements(Append(s, names[k])) = Elements(s) \cup {names[k]}
      <4>1. /\ DOMAIN Append(s, names[k]) = 1 .. Len(s) + 1 /\ DOMAIN s = 1 .. Len(s)
            /\ \A i \in 1 .. Len(s) : Append(s, names[k])[i] = s[i]
            /\ Append(s, names[k])[Len(s) + 1] = names[k]
            /\ \A i \in 1 .. Len(s) + 1 : i \in 1 .. Len(s) \/ i = Len(s) + 1
            /\ Len(s) + 1 \in 1 .. Len(s) + 1
            /\ 1 .. Len(s) \subseteq 1 .. Len(s) + 1
        BY <2>2
      <4>2. QED
        BY <4>1 DEF Elements
    <3>4. g[k] \in Seq(T) /\ Len(g[k]) <= k
      BY <2>1, <2>2, <3>1, <3>2
    <3>5. QED
      BY <2>1, <2>2, <2>3, <2>4, <3>1, <3>2, <3>3, <3>4
  <2>5. CASE names[k] \notin S
    <3>1. g[k] = g[k - 1]
      BY <1>4, <2>5
    <3>2. QED
      BY <2>1, <2>2, <2>3, <2>5, <3>1
  <2>6. QED
    BY <2>4, <2>5
<1>7. Len(names) \in U
  <2>1. Len(names) \in Nat
    OBVIOUS
  <2> HIDE DEF U
  <2>2. 0 .. Len(names) \subseteq U
    BY <1>5, <1>6, <2>1, UpTo
  <2>3. QED
    BY <2>1, <2>2
<1>8. QED
  BY <1>3, <1>7 DEF Elements

\* Names that fit into one call make one chunk, and no names make none.
LEMMA OneChunk ==
  ASSUME NEW names \in Seq(Names), Len(names) <= MaxItems
  PROVE  /\ Len(names) = 0 => Len(Chunks(names)) = 0
         /\ Len(names) > 0 => Len(Chunks(names)) = 1 /\ Chunks(names)[1] = names
PROOF
<1>1. MaxItems \in Nat \ {0} /\ Len(names) \in Nat
  BY ItemsAssumption
<1>2. /\ Len(names) = 0 => (Len(names) + MaxItems - 1) \div MaxItems = 0
      /\ Len(names) > 0 => (Len(names) + MaxItems - 1) \div MaxItems = 1
  <2>1. \A m, n \in Int : m > 0 /\ 0 <= n /\ n < m => n \div m = 0 /\ (n + m) \div m = 1
    BY SMT
  <2>2. CASE Len(names) = 0
    <3>1. Len(names) + MaxItems - 1 = MaxItems - 1
      BY <1>1, <2>2
    <3>2. QED
      BY <1>1, <2>1, <2>2, <3>1
  <2>3. CASE Len(names) > 0
    <3>1. Len(names) + MaxItems - 1 = (Len(names) - 1) + MaxItems
      BY <1>1
    <3>2. ((Len(names) - 1) + MaxItems) \div MaxItems = 1
      BY <1>1, <2>1, <2>3
    <3>3. QED
      BY <2>3, <3>1, <3>2
  <2>4. QED
    BY <1>1, <2>2, <2>3
<1>3. SubSeq(names, 1, IF Len(names) < MaxItems THEN Len(names) ELSE MaxItems) = names
  BY <1>1
<1>4. QED
  BY <1>1, <1>2, <1>3 DEF Chunks

LEMMA BeforeIsPrefix ==
  ASSUME NEW T, NEW seq \in Seq(T), NEW S
  PROVE  \E i \in 0 .. Len(seq) : Before(seq, S) = SubSeq(seq, 1, i)
PROOF
<1> DEFINE upTo == {i \in 0 .. Len(seq) : \A j \in 1 .. i : seq[j] \notin S}
           left == {k \in Nat : Len(seq) - k \in upTo}
<1>1. Len(seq) \in Nat /\ 0 \in upTo
  OBVIOUS
<1>2. Len(seq) \in left /\ left \in SUBSET Nat
  BY <1>1
<1>3. PICK k \in left : \A j \in left : k <= j
  <2> HIDE DEF left
  <2>1. QED
    BY <1>2, Least
<1>4. Len(seq) - k \in upTo /\ \A j \in upTo : j <= Len(seq) - k
  <2>1. \A j \in upTo : j \in Nat /\ Len(seq) - j \in Nat /\ Len(seq) - (Len(seq) - j) = j
    BY <1>1
  <2>2. \A j \in upTo : Len(seq) - j \in left
    <3>1. \A j \in upTo : Len(seq) - j \in Nat /\ Len(seq) - (Len(seq) - j) \in upTo
      <4> HIDE DEF upTo
      <4>1. QED
        BY <2>1
    <3> HIDE DEF upTo
    <3>2. QED
      BY <3>1
  <2>3. Len(seq) - k \in upTo /\ k \in Nat
    OBVIOUS
  <2> HIDE DEF upTo, left
  <2>4. ASSUME NEW j \in upTo PROVE j <= Len(seq) - k
    <3>1. j \in Nat /\ k <= Len(seq) - j
      BY <1>3, <2>1, <2>2
    <3>2. QED
      BY <1>1, <2>3, <3>1
  <2>5. QED
    BY <2>3, <2>4
<1>5. (CHOOSE i \in upTo : \A j \in upTo : j <= i) \in upTo
  BY <1>4
<1>6. QED
  BY <1>5 DEF Before

-----------------------------------------------------------------------------
(* get_parameters_by_name answers for every name *)

\* Every batch fits one GetParameters call.
Fits == \A b \in Batches : Len(b.names) <= MaxItems

LEMMA MergedDomain ==
  ASSUME NEW d, NEW e
  PROVE  DOMAIN Merged(d, e) = DOMAIN d \cup DOMAIN e
PROOF
  BY DEF Merged

\* Each name of "names" is a key of "values" or one of "errors", and none is both.
AnswersFor(names, values, errors) ==
  /\ DOMAIN values \cup errors = names
  /\ DOMAIN values \cap errors = {}

LEMMA ByDecryptOptionAnswers ==
  ASSUME NEW names \in Seq(Names), NEW transform, NEW age, NEW strict, NEW lost,
         lost \subseteq Elements(names) \ DOMAIN CachedValues("get", Elements(names), transform),
         \A n \in Elements(names) \ DOMAIN CachedValues("get", Elements(names), transform) :
           ~Exists(n) => n \in lost,
         ByDecryptOption(names, transform, age, strict, lost).raised = "no"
  PROVE  LET one == ByDecryptOption(names, transform, age, strict, lost)
         IN  AnswersFor(Elements(names), one.values, one.errors)
PROOF
<1> DEFINE hits == CachedValues("get", Elements(names), transform)
           fresh == [n \in (Elements(names) \cap Existing) \ (DOMAIN hits \cup lost) |->
                       TransformValue(Raw(n, store[n], TRUE), transform)]
           broken == {n \in DOMAIN fresh : Failed(fresh[n])}
           stops == broken \cup (IF strict THEN lost ELSE {})
           done == Elements(Before(names, stops))
           added == [n \in done \cap DOMAIN fresh |-> fresh[n]]
           kept == [n \in done \cap DOMAIN hits |-> hits[n]]
           one == ByDecryptOption(names, transform, age, strict, lost)
<1>1. /\ one.values = Merged(kept, added) /\ one.errors = lost
      /\ one.raised = "no" => done = Elements(names)
  BY DEF ByDecryptOption
<1>2. DOMAIN hits \subseteq Elements(names)
  BY DEF CachedValues
<1>3. DOMAIN fresh = (Elements(names) \cap Existing) \ (DOMAIN hits \cup lost)
  OBVIOUS
<1>4. Elements(names) \subseteq Names
  BY DEF Elements
<1>5. DOMAIN kept = done \cap DOMAIN hits /\ DOMAIN added = done \cap DOMAIN fresh
  OBVIOUS
<1>6. done = Elements(names)
  BY <1>1
<1> HIDE DEF hits, fresh, done, kept, added, one
<1>7. DOMAIN one.values = DOMAIN hits \cup DOMAIN fresh
  <2>1. DOMAIN one.values = DOMAIN kept \cup DOMAIN added
    BY <1>1, MergedDomain
  <2>2. QED
    BY <1>2, <1>3, <1>5, <1>6, <2>1
<1>8. /\ lost \subseteq Elements(names) \ DOMAIN hits
      /\ \A n \in Elements(names) \ DOMAIN hits : ~Exists(n) => n \in lost
  BY DEF hits
<1>9. AnswersFor(Elements(names), one.values, one.errors)
  BY <1>1, <1>2, <1>3, <1>4, <1>7, <1>8 DEF AnswersFor, Existing
<1>10. QED
  BY <1>9 DEF one

LEMMA WholePrefix ==
  ASSUME NEW T, NEW seq \in Seq(T), NEW S, ~(Len(Before(seq, S)) < Len(seq))
  PROVE  Before(seq, S) = seq
PROOF
<1>1. PICK i \in 0 .. Len(seq) : Before(seq, S) = SubSeq(seq, 1, i)
  BY BeforeIsPrefix
<1>2. Len(SubSeq(seq, 1, i)) = i /\ SubSeq(seq, 1, Len(seq)) = seq
  OBVIOUS
<1>3. i = Len(seq)
  <2>1. Len(Before(seq, S)) = i /\ Len(seq) \in Nat
    BY <1>1, <1>2
  <2>2. QED
    BY <2>1
<1>4. QED
  BY <1>1, <1>2, <1>3

LEMMA InChunksAnswers ==
  ASSUME NEW names \in Seq(Names), Len(names) <= MaxItems, NEW c, NEW transform, NEW decrypt,
         NEW age, NEW strict, NEW outcome \in [1 .. Calls(names, transform) -> Outcomes],
         InChunks(names, c, transform, decrypt, age, strict, outcome).raised = "no"
  PROVE  LET rest == InChunks(names, c, transform, decrypt, age, strict, outcome)
         IN  AnswersFor(Elements(names), rest.values, rest.errors)
PROOF
<1> DEFINE cached == CachedValues("names", Elements(names), transform)
           uncached == Uncached(names, transform)
           chunks == Chunks(uncached)
           calls == Before(outcome, {"throttled"})
           served == {i \in DOMAIN calls : calls[i] = "ok"}
           values(i) == [n \in Elements(chunks[i]) \cap Existing |-> Raw(n, store[n], decrypt)]
           last_ == IF Len(chunks) \in served THEN values(Len(chunks)) ELSE <<>>
           rest == InChunks(names, c, transform, decrypt, age, strict, outcome)
<1>1. /\ rest.values = Merged(cached, last_)
      /\ rest.errors = UNION {Unanswered(Elements(chunks[i]), i \in served) : i \in DOMAIN calls}
      /\ rest.raised = "no" => ~(Len(calls) < Len(outcome))
  BY DEF InChunks
<1>2. /\ uncached \in Seq(Names) /\ Len(uncached) <= MaxItems
      /\ Elements(uncached) =
           {n \in Elements(names) : ~HasNotExpired(Key("names", {n}, transform))}
  <2>1. PICK S : S = {n \in Names : ~HasNotExpired(Key("names", {n}, transform))}
    OBVIOUS
  <2>2. uncached = Chosen(names, S)
    BY <2>1 DEF Uncached
  <2>3. /\ uncached \in Seq(Names) /\ Len(uncached) <= Len(names)
        /\ Elements(uncached) = Elements(names) \cap S
    BY <2>2, ChosenElements
  <2>4. Len(uncached) <= MaxItems
    BY <2>3, ItemsAssumption
  <2>5. Elements(names) \subseteq Names
    BY DEF Elements
  <2>6. QED
    BY <2>1, <2>3, <2>4, <2>5
<1>3. DOMAIN cached = {n \in Elements(names) : HasNotExpired(Key("names", {n}, transform))}
  BY DEF CachedValues
<1> HIDE DEF uncached
<1>4. /\ Len(uncached) \in Nat
      /\ Len(uncached) = 0 => Len(chunks) = 0
      /\ Len(uncached) > 0 => Len(chunks) = 1 /\ chunks[1] = uncached
  BY <1>2, OneChunk
<1>5. outcome \in [1 .. Len(chunks) -> Outcomes]
  BY DEF Calls, uncached
<1> HIDE DEF chunks, cached
<1>6. calls = outcome
  <2>1. Len(chunks) \in Nat
    BY <1>4
  <2>2. outcome \in Seq(Outcomes)
    BY <1>5, <2>1
  <2>3. QED
    BY <1>1, <2>2, WholePrefix
<1>7. DOMAIN calls = 1 .. Len(chunks)
  BY <1>5, <1>6
<1> HIDE DEF calls
<1>8. /\ DOMAIN cached \cup Elements(uncached) = Elements(names)
      /\ DOMAIN cached \cap Elements(uncached) = {}
      /\ Elements(uncached) \subseteq Names
  <2>1. Elements(names) \subseteq Names
    BY DEF Elements
  <2>2. QED
    BY <1>2, <1>3, <2>1
<1>9. AnswersFor(Elements(uncached), last_, rest.errors)
  <2>1. CASE Len(uncached) = 0
    <3>1. DOMAIN calls = {} /\ served = {} /\ Elements(uncached) = {}
      BY <1>2, <1>4, <1>7, <2>1 DEF Elements
    <3>2. last_ = <<>> /\ DOMAIN last_ = {}
      BY <3>1
    <3>3. rest.errors = {}
      BY <1>1, <3>1
    <3>4. QED
      BY <3>1, <3>2, <3>3 DEF AnswersFor
  <2>2. CASE Len(uncached) > 0
    <3>1. Len(chunks) = 1 /\ chunks[1] = uncached /\ DOMAIN calls = {1}
      <4>1. Len(chunks) = 1 /\ chunks[1] = uncached
        BY <1>4, <2>2
      <4>2. 1 .. 1 = {1}
        OBVIOUS
      <4>3. QED
        BY <1>7, <4>1, <4>2
    <3>2. rest.errors = Unanswered(Elements(uncached), 1 \in served)
      <4>1. {Unanswered(Elements(chunks[i]), i \in served) : i \in {1}}
              = {Unanswered(Elements(chunks[1]), 1 \in served)}
        <5> HIDE DEF served
        <5>1. QED
          BY Zenon
      <4> HIDE DEF served
      <4>2. rest.errors = Unanswered(Elements(chunks[1]), 1 \in served)
        BY <1>1, <3>1, <4>1
      <4>3. QED
        BY <3>1, <4>2
    <3>3. IF 1 \in served THEN DOMAIN last_ = Elements(uncached) \cap Existing ELSE DOMAIN last_ = {}
      <4> HIDE DEF served
      <4>1. QED
        BY <3>1
    <3> HIDE DEF served, last_
    <3>4. CASE 1 \in served
      BY <1>8, <3>2, <3>3, <3>4 DEF AnswersFor, Unanswered, Existing
    <3>5. CASE 1 \notin served
      BY <3>2, <3>3, <3>5 DEF AnswersFor, Unanswered
    <3>6. QED
      BY <3>4, <3>5
  <2>3. QED
    BY <1>4, <2>1, <2>2
<1> HIDE DEF last_, rest
<1>10. DOMAIN rest.values = DOMAIN cached \cup DOMAIN last_
  BY <1>1, MergedDomain
<1>11. AnswersFor(Elements(names), rest.values, rest.errors)
  BY <1>8, <1>9, <1>10 DEF AnswersFor
<1>12. QED
  BY <1>11 DEF rest

\* Two parts of the names that share none are answered together.
LEMMA AnswersTogether ==
  ASSUME NEW A, NEW B, A \cap B = {}, NEW d, NEW e, NEW x, NEW y,
         AnswersFor(A, d, x), AnswersFor(B, e, y)
  PROVE  AnswersFor(A \cup B, Merged(d, e), x \cup y)
PROOF
<1>1. DOMAIN Merged(d, e) = DOMAIN d \cup DOMAIN e
  BY MergedDomain
<1>2. QED
  BY <1>1 DEF AnswersFor

LEMMA GetParametersByNameAnswers ==
  ASSUME NEW batch \in Seq(Names), Len(batch) <= MaxItems, NEW dec, NEW transform, NEW age,
         NEW strict, GetParametersByName(batch, dec, transform, age, strict)
  PROVE  ByNameAnswersAll'
PROOF
<1> DEFINE asked == Elements(batch)
           all == asked \subseteq dec
           single == IF all THEN <<>> ELSE Chosen(batch, dec)
           many == IF all THEN batch ELSE Chosen(batch, Names \ dec)
           needed == Elements(single) \ DOMAIN CachedValues("get", Elements(single), transform)
           op == IF strict THEN "names" ELSE "names or errors"
<1>1. PICK lost \in SUBSET needed, outcome \in [1 .. Calls(many, transform) -> Outcomes] :
        LET one == ByDecryptOption(single, transform, age, strict, lost)
            rest == InChunks(many, one.cache, transform, all, age, strict, outcome)
        IN  /\ \A n \in needed : ~Exists(n) => n \in lost
            /\ \/ Raises("names", asked, one.raised)
               \/ Raises("names", asked, rest.raised)
               \/ /\ one.raised = "no" /\ rest.raised = "no"
                  /\ Returns(op, asked, Merged(one.values, rest.values),
                             IF strict THEN {} ELSE one.errors \cup rest.errors)
  BY ZenonT(40) DEF GetParametersByName
<1> DEFINE one == ByDecryptOption(single, transform, age, strict, lost)
           rest == InChunks(many, one.cache, transform, all, age, strict, outcome)
<1>2. /\ single \in Seq(Names) /\ many \in Seq(Names) /\ Len(many) <= MaxItems
      /\ Elements(single) \cup Elements(many) = asked
      /\ Elements(single) \cap Elements(many) = {}
  <2>1. CASE all
    <3>1. Elements(<<>>) = {} /\ <<>> \in Seq(Names)
      BY DEF Elements
    <3>2. QED
      BY <2>1, <3>1
  <2>2. CASE ~all
    <3>1. /\ single \in Seq(Names) /\ many \in Seq(Names) /\ Len(many) <= Len(batch)
          /\ Elements(single) = asked \cap dec /\ Elements(many) = asked \cap (Names \ dec)
      BY <2>2, ChosenElements
    <3>2. asked \subseteq Names
      BY DEF Elements
    <3>3. Len(many) <= MaxItems
      BY <3>1, ItemsAssumption
    <3> HIDE DEF single, many, asked
    <3>4. QED
      BY <3>1, <3>2, <3>3
  <2>3. QED
    BY <2>1, <2>2
<1> HIDE DEF single, many, all
<1>3. ASSUME one.raised = "no" PROVE AnswersFor(Elements(single), one.values, one.errors)
  BY <1>1, <1>2, <1>3, ByDecryptOptionAnswers
<1>4. ASSUME rest.raised = "no" PROVE AnswersFor(Elements(many), rest.values, rest.errors)
  BY <1>2, <1>4, InChunksAnswers
<1> HIDE DEF one, rest
<1>5. CASE \E error : Raises("names", asked, error)
  BY <1>5 DEF Raises, NoAnswer, ByNameAnswersAll
<1>6. CASE /\ one.raised = "no" /\ rest.raised = "no"
           /\ Returns(op, asked, Merged(one.values, rest.values),
                      IF strict THEN {} ELSE one.errors \cup rest.errors)
  <2>1. AnswersFor(asked, Merged(one.values, rest.values), one.errors \cup rest.errors)
    <3>1. /\ AnswersFor(Elements(single), one.values, one.errors)
          /\ AnswersFor(Elements(many), rest.values, rest.errors)
      BY <1>3, <1>4, <1>6
    <3>2. AnswersFor(Elements(single) \cup Elements(many), Merged(one.values, rest.values),
                     one.errors \cup rest.errors)
      BY <1>2, <3>1, AnswersTogether
    <3>3. QED
      BY <1>2, <3>2
  <2>2. CASE strict
    BY <1>6, <2>2 DEF Returns, ByNameAnswersAll
  <2>3. CASE ~strict
    <3>1. /\ answer'.asked = asked /\ answer'.values = Merged(one.values, rest.values)
          /\ answer'.errors = one.errors \cup rest.errors
      BY <1>6, <2>3 DEF Returns
    <3>2. QED
      BY <2>1, <3>1 DEF AnswersFor, ByNameAnswersAll
  <2>4. QED
    BY <2>2, <2>3
<1>7. QED
  BY <1>1, <1>5, <1>6 DEF one, rest

\* Every other call says what it was.
LEMMA OtherOps ==
  ASSUME NEW op, op # "names or errors", NEW asked, NEW x, NEW values, NEW errors,
         Raises(op, asked, x) \/ Returns(op, asked, values, errors)
  PROVE  ByNameAnswersAll'
PROOF
<1>1. CASE Raises(op, asked, x)
  <2>1. answer'.raised = x /\ answer'.op = op
    BY <1>1 DEF Raises, NoAnswer
  <2>2. QED
    BY <2>1 DEF ByNameAnswersAll
<1>2. CASE Returns(op, asked, values, errors)
  <2>1. answer'.op = op
    BY <1>2 DEF Returns
  <2>2. QED
    BY <2>1 DEF ByNameAnswersAll
<1>3. QED
  BY <1>1, <1>2

LEMMA NoAnswerYet ==
  ASSUME answer' = NoAnswer
  PROVE  ByNameAnswersAll'
PROOF
  BY DEF NoAnswer, ByNameAnswersAll

LEMMA GetAnswers ==
  ASSUME NEW n, NEW t, NEW d, NEW a, NEW force, Get(n, t, d, a, force)
  PROVE  ByNameAnswersAll'
PROOF
<1>1. \/ \E error : Raises("get", {n}, error)
      \/ \E values : Returns("get", {n}, values, {})
  BY DEF Get, GetHit, GetMiss
<1>2. QED
  BY <1>1, OtherOps

LEMMA OtherCallsAnswer ==
  ASSUME NEW names, NEW t, NEW d, NEW a, NEW force, NEW r,
         GetMultiple(t, d, a, force, r) \/ GetSecrets(names, t, a, force, r)
  PROVE  ByNameAnswersAll'
PROOF
<1>1. ASSUME NEW op \in {"path", "secrets"}, NEW k, NEW found, NEW u, FetchMany(op, k, found, t, u, a, r)
      PROVE  ByNameAnswersAll'
  <2>1. \/ \E error : Raises(op, k.of, error)
        \/ \E values : Returns(op, k.of, values, {})
    BY <1>1 DEF FetchMany
  <2>2. QED
    BY <2>1, OtherOps
<1>2. CASE GetMultiple(t, d, a, force, r)
  BY <1>1, <1>2, OtherOps DEF GetMultiple
<1>3. CASE GetSecrets(names, t, a, force, r)
  BY <1>1, <1>3, OtherOps DEF GetSecrets
<1>4. QED
  BY <1>2, <1>3

(* In graceful mode every name given to get_parameters_by_name comes back as a  *)
(* value or as an error and never as both, whatever is cached, is decrypted one *)
(* by one or fails, if no batch has more names than one GetParameters call      *)
(* takes.  (Beyond that the library asks for the first names again and again.)  *)
THEOREM NamesAnswered == ASSUME Fits PROVE Spec => []ByNameAnswersAll
PROOF
<1>1. Init => ByNameAnswersAll
  BY DEF Init, PInit, NoAnswer, ByNameAnswersAll
<1>2. ByNameAnswersAll /\ [Next]_vars => ByNameAnswersAll'
  <2>1. SUFFICES ASSUME ByNameAnswersAll, [Next]_vars PROVE ByNameAnswersAll'
    OBVIOUS
  <2>2. CASE Environment \/ Consume \/ ClearCache
    BY <2>2, NoAnswerYet DEF Environment, Put, Delete, Tick, Restart, Consume, ClearCache
  <2>3. ASSUME NEW n, NEW t, NEW d, NEW a, NEW force, Get(n, t, d, a, force)
        PROVE  ByNameAnswersAll'
    BY <2>3, GetAnswers
  <2>4. ASSUME NEW names, NEW t, NEW d, NEW a, NEW force, NEW r,
               GetMultiple(t, d, a, force, r) \/ GetSecrets(names, t, a, force, r)
        PROVE  ByNameAnswersAll'
    BY <2>4, OtherCallsAnswer
  <2>5. ASSUME NEW b \in Batches, NEW strict,
               GetParametersByName(b.names, b.decrypt, b.transform, b.age, strict)
        PROVE  ByNameAnswersAll'
    BY <2>5, CallsAssumption, GetParametersByNameAnswers DEF Fits
  <2>6. ASSUME NEW n, NEW doc, NEW o, SetParameter(n, doc, o) \/ SetSecret(n, doc)
        PROVE  ByNameAnswersAll'
    BY <2>6, OtherOps, NoAnswerYet DEF SetParameter, SetSecret
  <2>7. ASSUME NEW doc, CreateSecret(doc) PROVE ByNameAnswersAll'
    BY <2>7, OtherOps DEF CreateSecret
  <2>8. CASE Evaluations
    BY <2>3, <2>8 DEF Evaluations, Evaluate, GetEnabledFeatures, GetConfiguration
  <2>9. CASE UNCHANGED vars
    <3>1. answer' = answer
      BY <2>9 DEF vars, pvars
    <3>2. QED
      BY <2>1, <3>1 DEF ByNameAnswersAll
  <2>10. QED
    BY <2>1, <2>2, <2>3, <2>4, <2>5, <2>6, <2>7, <2>8, <2>9 DEF Next, PNext, Call
<1>3. QED
  BY <1>1, <1>2, PTL DEF Spec

-----------------------------------------------------------------------------
(* Types *)

Docs == {Absent} \cup [ver : 1 .. writes, doc : Contents]

StoreTyped ==
  /\ provider \in Providers
  /\ writes \in 0 .. MaxWrites
  /\ store \in [Names -> Docs]
  /\ retired \in [1 .. MaxWrites -> 0 .. LongestAge + 2]
  /\ creating \in Names \cup {NoName}

SessionTyped == token \in [Names -> NoToken .. writes] /\ last \in [Names -> Docs]

TypedValues(values) == \A n \in DOMAIN values : values[n] \in Values

EntryTyped(k, e) ==
  /\ e.left \in -1 .. LongestAge
  /\ DOMAIN e.values \subseteq k.of
  /\ TypedValues(e.values)

CacheTyped(c) == DOMAIN c \subseteq Keys /\ \A k \in DOMAIN c : EntryTyped(k, c[k])

AnswerTyped(a) ==
  /\ a.asked \subseteq Names
  /\ DOMAIN a.values \subseteq a.asked
  /\ TypedValues(a.values)

TypeInv ==
  /\ IInv
  /\ StoreTyped /\ SessionTyped /\ CacheTyped(cache) /\ AnswerTyped(answer)

LEMMA TypeInvTypes ==
  ASSUME TypeInv
  PROVE  TypeOK
PROOF
  BY DEF TypeInv, StoreTyped, SessionTyped, CacheTyped, EntryTyped, AnswerTyped, TypedValues,
         Docs, TypeOK

\* What is read from the store, transformed or not, is a value.
LEMMA ReadTyped ==
  ASSUME NEW n, NEW doc \in Docs, doc # Absent, writes \in 0 .. MaxWrites, NEW decrypt,
         NEW transform
  PROVE  TransformValue(Raw(n, doc, decrypt), transform) \in Values /\ Raw(n, doc, decrypt) \in Values
PROOF
<1>1. doc.ver \in 1 .. MaxWrites /\ doc.doc \in Contents
  BY BoundsAssumption DEF Docs
<1>2. PICK b \in BOOLEAN : b = (provider = "ssm" /\ n \in Secure /\ ~decrypt)
  OBVIOUS
<1>3. Raw(n, doc, decrypt) = [ver |-> doc.ver, doc |-> doc.doc, form |-> "raw", sealed |-> b]
  BY <1>2 DEF Raw
<1>4. PICK r : r = Raw(n, doc, decrypt)
  OBVIOUS
<1>5. r \in Values
  BY <1>1, <1>3, <1>4 DEF Values
<1>6. TransformValue(r, transform) \in Values
  BY <1>5 DEF TransformValue, Values
<1>7. QED
  BY <1>4, <1>5, <1>6

LEMMA ExistingTyped ==
  ASSUME StoreTyped, NEW n \in Existing
  PROVE  n \in Names /\ store[n] \in Docs /\ store[n] # Absent
PROOF
  BY DEF StoreTyped, Existing, Exists, Absent

\* A call leaves the store and what is being created.
LEMMA ReadKeepsTypes ==
  ASSUME TypeInv, UNCHANGED <<provider, store, writes, retired, creating>>, IInv',
         SessionTyped', CacheTyped(cache'), AnswerTyped(answer')
  PROVE  TypeInv'
PROOF
<1>1. StoreTyped'
  BY DEF TypeInv, StoreTyped, Docs
<1>2. CacheTyped(cache)' /\ AnswerTyped(answer)'
  BY DEF CacheTyped, EntryTyped, AnswerTyped, TypedValues
<1>3. QED
  BY <1>1, <1>2 DEF TypeInv

LEMMA SessionTypedSame ==
  ASSUME TypeInv, UNCHANGED <<token, last>>, writes' \in {writes, writes + 1}
  PROVE  SessionTyped'
PROOF
<1>1. /\ writes \in Nat /\ token \in [Names -> NoToken .. writes] /\ last \in [Names -> Docs]
  BY BoundsAssumption DEF TypeInv, SessionTyped, StoreTyped
<1>2. NoToken .. writes \subseteq NoToken .. writes' /\ 1 .. writes \subseteq 1 .. writes'
  BY <1>1 DEF NoToken
<1>3. Docs \subseteq Docs'
  BY <1>2 DEF Docs
<1>4. /\ \A n \in Names : token[n] \in NoToken .. writes'
      /\ \A n \in Names : last[n] \in Docs'
  BY <1>1, <1>2, <1>3
<1>5. QED
  BY <1>1, <1>4 DEF SessionTyped

LEMMA AnsweredTyped ==
  ASSUME NEW op, NEW asked \in SUBSET Names, NEW values, NEW errors, NEW error,
         \/ Raises(op, asked, error)
         \/ Returns(op, asked, values, errors) /\ DOMAIN values \subseteq asked /\ TypedValues(values)
  PROVE  AnswerTyped(answer')
PROOF
<1>1. CASE Raises(op, asked, error)
  <2>1. answer'.asked = asked /\ answer'.values = <<>>
    BY <1>1 DEF Raises, NoAnswer
  <2>2. QED
    BY <2>1 DEF AnswerTyped, TypedValues
<1>2. CASE Returns(op, asked, values, errors) /\ DOMAIN values \subseteq asked /\ TypedValues(values)
  <2>1. answer'.asked = asked /\ answer'.values = values
    BY <1>2 DEF Returns
  <2>2. QED
    BY <1>2, <2>1 DEF AnswerTyped
<1>3. QED
  BY <1>1, <1>2

LEMMA NoAnswerTyped ==
  AnswerTyped(NoAnswer)
PROOF
  BY DEF AnswerTyped, TypedValues, NoAnswer

\* New entries of the cache.
LEMMA AddTyped ==
  ASSUME NEW c, CacheTyped(c), NEW k \in Keys, NEW values, DOMAIN values \subseteq k.of,
         TypedValues(values), NEW age \in MaxAges
  PROVE  CacheTyped(AddToCache(c, k, values, age))
PROOF
<1>1. age \in -1 .. LongestAge
  BY Longest
<1>2. PICK e : e = [values |-> values, left |-> age]
  OBVIOUS
<1>3. EntryTyped(k, e)
  BY <1>1, <1>2 DEF EntryTyped
<1>4. AddToCache(c, k, values, age) \in {c, [x \in DOMAIN c \cup {k} |-> IF x = k THEN e ELSE c[x]]}
  BY <1>2 DEF AddToCache
<1>5. QED
  BY <1>3, <1>4 DEF CacheTyped

LEMMA AddEachTyped ==
  ASSUME NEW c, CacheTyped(c), NEW family \in {"get", "names"}, NEW transform \in Transforms,
         NEW values, DOMAIN values \subseteq Names, TypedValues(values), NEW age \in MaxAges
  PROVE  CacheTyped(AddEach(c, family, transform, values, age))
PROOF
<1> DEFINE added == {Key(family, {n}, transform) : n \in DOMAIN values}
           entry(k) == [values |-> [n \in k.of |-> values[n]], left |-> age]
<1>1. age \in -1 .. LongestAge
  BY Longest
<1>2. ASSUME NEW k \in added PROVE k \in Keys /\ EntryTyped(k, entry(k))
  <2>1. PICK n \in DOMAIN values : k = Key(family, {n}, transform)
    BY <1>2
  <2>2. k \in Keys /\ k.of = {n}
    BY <2>1 DEF Key, Keys
  <2>3. entry(k).left = age /\ DOMAIN entry(k).values = {n} /\ entry(k).values[n] = values[n]
    BY <2>2
  <2> HIDE DEF entry
  <2>4. TypedValues(entry(k).values)
    BY <2>1, <2>3 DEF TypedValues
  <2>5. QED
    BY <1>1, <2>2, <2>3, <2>4 DEF EntryTyped
<1>3. AddEach(c, family, transform, values, age)
        \in {c, [k \in DOMAIN c \cup added |-> IF k \in added THEN entry(k) ELSE c[k]]}
  BY DEF AddEach
<1> HIDE DEF added, entry
<1>4. QED
  BY <1>2, <1>3 DEF CacheTyped

\* What is taken from the cache.
LEMMA HitsTyped ==
  ASSUME TypeInv, NEW family \in {"get", "names"}, NEW names, NEW transform
  PROVE  TypedValues(CachedValues(family, names, transform))
PROOF
<1> DEFINE hits == CachedValues(family, names, transform)
<1>1. SUFFICES ASSUME NEW n \in DOMAIN hits PROVE hits[n] \in Values
  BY DEF TypedValues
<1> DEFINE k == Key(family, {n}, transform)
<1>2. k \in DOMAIN cache /\ hits[n] = cache[k].values[n]
  BY <1>1 DEF CachedValues, HasNotExpired
<1>3. n \in DOMAIN cache[k].values
  BY <1>2 DEF TypeInv, IInv, CacheOK, EntryOK, Key
<1> HIDE DEF hits, k
<1>4. QED
  BY <1>2, <1>3 DEF TypeInv, CacheTyped, EntryTyped, TypedValues

LEMMA MergedTyped ==
  ASSUME NEW d, NEW e, TypedValues(d), TypedValues(e)
  PROVE  TypedValues(Merged(d, e))
PROOF
  BY DEF TypedValues, Merged

-----------------------------------------------------------------------------
(* Types of the calls *)

LEMMA FetchTyped ==
  ASSUME TypeInv, NEW n \in Names, NEW f \in Fetch(n)
  PROVE  /\ f.value \in Docs /\ f.token \in [Names -> NoToken .. writes]
         /\ f.last \in [Names -> Docs]
PROOF
<1>1. /\ token \in [Names -> NoToken .. writes] /\ last \in [Names -> Docs]
      /\ store \in [Names -> Docs] /\ writes \in Nat
      /\ Absent \in Docs
  BY BoundsAssumption DEF TypeInv, SessionTyped, StoreTyped, Docs
<1>2. store[n].ver \in NoToken .. writes
  <2>1. store[n] \in Docs
    BY <1>1
  <2>2. QED
    BY <1>1, <2>1 DEF Docs, Absent, NoToken
<1>3. CASE f \in FetchDirect(n)
  BY <1>1, <1>3 DEF FetchDirect, FetchFails, Fetched
<1>4. CASE f \in FetchConfiguration(n)
  <2> DEFINE session == SessionTokens(n)
             body == IF store[n].ver = session[n] THEN Absent ELSE store[n]
             latest == IF body = Absent THEN last ELSE [last EXCEPT ![n] = body]
             moved == [session EXCEPT ![n] = store[n].ver]
  <2>1. session \in [Names -> NoToken .. writes]
    <3>1. 0 \in NoToken .. writes
      BY <1>1 DEF NoToken
    <3>2. QED
      BY <1>1, <3>1 DEF SessionTokens
  <2>2. latest \in [Names -> Docs]
    BY <1>1
  <2> HIDE DEF latest, session
  <2>3. moved \in [Names -> NoToken .. writes]
    BY <1>2, <2>1
  <2>4. \/ f = FetchFails(token) \/ f = FetchFails(session)
        \/ f = Fetched(latest[n], moved, latest)
    BY <1>4 DEF FetchConfiguration, session, latest
  <2> HIDE DEF moved
  <2>5. QED
    BY <1>1, <2>1, <2>2, <2>3, <2>4 DEF FetchFails, Fetched
<1>5. QED
  BY <1>3, <1>4 DEF Fetch

LEMMA GetTyped ==
  ASSUME TypeInv, NEW n \in Names, NEW transform \in Transforms, NEW decrypt, NEW age \in MaxAges,
         NEW force, Get(n, transform, decrypt, age, force)
  PROVE  SessionTyped' /\ CacheTyped(cache') /\ AnswerTyped(answer')
PROOF
<1> DEFINE k == Key("get", {n}, transform)
<1>1. k \in Keys /\ k.of = {n} /\ CacheTyped(cache)
  BY DEF Key, Keys, TypeInv
<1>2. CASE GetHit(n, transform, decrypt)
  <2>1. Returns("get", {n}, cache[k].values, {}) /\ EntryTyped(k, cache[k])
    BY <1>1, <1>2 DEF GetHit, HasNotExpired, CacheTyped
  <2>2. AnswerTyped(answer')
    BY <1>1, <2>1, AnsweredTyped DEF EntryTyped
  <2>3. SessionTyped'
    BY <1>2, SessionTypedSame DEF GetHit
  <2>4. QED
    BY <1>1, <1>2, <2>2, <2>3 DEF GetHit
<1>3. CASE GetMiss(n, transform, decrypt, age, force)
  <2>1. PICK f \in Fetch(n) :
          LET value == TransformValue(Raw(n, f.value, decrypt), transform) IN
          /\ token' = f.token
          /\ last' = f.last
          /\ \/ /\ \/ Raises("get", {n}, "GetParameterError")
                   \/ Raises("get", {n}, "TransformParameterError")
                /\ UNCHANGED cache
             \/ /\ f.value # Absent
                /\ cache' = AddToCache(cache, k, [x \in {n} |-> value], age)
                /\ Returns("get", {n}, [x \in {n} |-> value], {})
    BY <1>3 DEF GetMiss
  <2>2. /\ f.value \in Docs /\ f.token \in [Names -> NoToken .. writes]
        /\ f.last \in [Names -> Docs]
    BY FetchTyped
  <2>3. SessionTyped'
    <3>1. writes' = writes
      BY <1>3 DEF GetMiss
    <3>2. Docs' = Docs
      BY <3>1 DEF Docs
    <3>3. QED
      BY <2>1, <2>2, <3>1, <3>2 DEF SessionTyped
  <2>4. CASE UNCHANGED cache /\ \E error : Raises("get", {n}, error)
    BY <1>1, <2>3, <2>4, AnsweredTyped
  <2>5. CASE /\ f.value # Absent
             /\ cache' = AddToCache(cache, k, [x \in {n} |-> TransformValue(Raw(n, f.value, decrypt), transform)], age)
             /\ Returns("get", {n}, [x \in {n} |-> TransformValue(Raw(n, f.value, decrypt), transform)], {})
    <3>1. PICK v : v = TransformValue(Raw(n, f.value, decrypt), transform)
      OBVIOUS
    <3>2. v \in Values
      BY <2>2, <2>5, <3>1, ReadTyped DEF TypeInv, StoreTyped
    <3>3. PICK values : values = [x \in {n} |-> v]
      OBVIOUS
    <3>4. TypedValues(values) /\ DOMAIN values = {n}
      BY <3>2, <3>3 DEF TypedValues
    <3>5. cache' = AddToCache(cache, k, values, age) /\ Returns("get", {n}, values, {})
      BY <2>5, <3>1, <3>3
    <3> HIDE DEF k
    <3>6. CacheTyped(cache')
      BY <1>1, <3>4, <3>5, AddTyped
    <3>7. AnswerTyped(answer')
      BY <3>4, <3>5, AnsweredTyped
    <3>8. QED
      BY <2>3, <3>6, <3>7
  <2>6. QED
    BY <2>1, <2>4, <2>5
<1>4. QED
  BY <1>2, <1>3 DEF Get

LEMMA FetchManyTyped ==
  ASSUME TypeInv, NEW op, NEW names \in SUBSET Names, NEW found \in SUBSET (names \cap Existing),
         NEW transform \in Transforms, NEW decrypt, NEW age \in MaxAges, NEW raising,
         FetchMany(op, Key("path", names, transform), found, transform, decrypt, age, raising)
  PROVE  CacheTyped(cache') /\ AnswerTyped(answer')
PROOF
<1> DEFINE k == Key("path", names, transform)
<1>1. k \in Keys /\ k.of = names /\ CacheTyped(cache)
  BY DEF Key, Keys, TypeInv
<1>2. PICK values : values = TransformAll(found, transform, decrypt)
  OBVIOUS
<1>3. DOMAIN values = found
  BY <1>2 DEF TransformAll
<1>4. TypedValues(values)
  <2>1. ASSUME NEW n \in found PROVE values[n] \in Values
    <3>1. values[n] = TransformValue(Raw(n, store[n], decrypt), transform)
      BY <1>2, <2>1 DEF TransformAll
    <3>2. store[n] \in Docs /\ store[n] # Absent
      BY <2>1, ExistingTyped DEF TypeInv
    <3>3. QED
      BY <3>1, <3>2, ReadTyped DEF TypeInv, StoreTyped
  <2>2. QED
    BY <1>3, <2>1 DEF TypedValues
<1>5. \/ UNCHANGED cache /\ \E error : Raises(op, names, error)
      \/ cache' = AddToCache(cache, k, values, age) /\ Returns(op, names, values, {})
  BY <1>1, <1>2 DEF FetchMany
<1> HIDE DEF k
<1>6. CASE UNCHANGED cache /\ \E error : Raises(op, names, error)
  BY <1>1, <1>6, AnsweredTyped
<1>7. CASE cache' = AddToCache(cache, k, values, age) /\ Returns(op, names, values, {})
  <2>1. CacheTyped(cache')
    BY <1>1, <1>3, <1>4, <1>7, AddTyped
  <2>2. AnswerTyped(answer')
    BY <1>3, <1>4, <1>7, AnsweredTyped
  <2>3. QED
    BY <2>1, <2>2
<1>8. QED
  BY <1>5, <1>6, <1>7

LEMMA CachedTyped ==
  ASSUME TypeInv, NEW op, NEW k, HasNotExpired(k), k.of \subseteq Names,
         Returns(op, k.of, cache[k].values, {})
  PROVE  AnswerTyped(answer')
PROOF
<1>1. EntryTyped(k, cache[k])
  BY DEF TypeInv, CacheTyped, HasNotExpired
<1>2. QED
  BY <1>1, AnsweredTyped DEF EntryTyped

LEMMA ManyTyped ==
  ASSUME TypeInv, NEW names \in SUBSET Names, NEW transform \in Transforms, NEW decrypt,
         NEW age \in MaxAges, NEW force, NEW raising,
         \/ GetMultiple(transform, decrypt, age, force, raising)
         \/ GetSecrets(names, transform, age, force, raising)
  PROVE  SessionTyped' /\ CacheTyped(cache') /\ AnswerTyped(answer')
PROOF
<1>1. CacheTyped(cache) /\ SessionTyped'
  BY SessionTypedSame DEF TypeInv, GetMultiple, GetSecrets
<1>2. CASE GetMultiple(transform, decrypt, age, force, raising)
  <2> DEFINE k == Key("path", Names, transform)
  <2>1. k.of = Names
    BY DEF Key
  <2>2. CASE HasNotExpired(k) /\ Returns("path", Names, cache[k].values, {}) /\ UNCHANGED cache
    BY <1>1, <2>1, <2>2, CachedTyped
  <2>3. CASE FetchMany("path", k, Existing, transform, decrypt, age, raising)
    <3>1. Existing \in SUBSET (Names \cap Existing) /\ Names \in SUBSET Names
      BY DEF Existing
    <3>2. QED
      BY <1>1, <2>3, <3>1, FetchManyTyped
  <2>4. QED
    BY <1>2, <2>2, <2>3 DEF GetMultiple
<1>3. CASE GetSecrets(names, transform, age, force, raising)
  <2> DEFINE k == Key("path", names, transform)
  <2>1. k.of = names
    BY DEF Key
  <2>2. CASE HasNotExpired(k) /\ Returns("secrets", names, cache[k].values, {}) /\ UNCHANGED cache
    BY <1>1, <2>1, <2>2, CachedTyped
  <2>3. CASE FetchMany("secrets", k, names \cap Existing, transform, TRUE, age, raising)
    <3>1. names \cap Existing \in SUBSET (names \cap Existing)
      OBVIOUS
    <3>2. CacheTyped(cache') /\ AnswerTyped(answer')
      BY <2>3, <3>1, FetchManyTyped
    <3>3. QED
      BY <1>1, <3>2
  <2>4. CASE Raises("secrets", names, "GetParameterError") /\ UNCHANGED cache
    BY <1>1, <2>4, AnsweredTyped
  <2>5. QED
    BY <1>3, <2>2, <2>3, <2>4 DEF GetSecrets
<1>4. QED
  BY <1>2, <1>3

LEMMA ByDecryptOptionTyped ==
  ASSUME TypeInv, NEW names \in Seq(Names), NEW transform \in Transforms, NEW age \in MaxAges,
         NEW strict, NEW lost
  PROVE  LET one == ByDecryptOption(names, transform, age, strict, lost)
         IN  /\ TypedValues(one.values) /\ DOMAIN one.values \subseteq Elements(names)
             /\ CacheTyped(one.cache)
PROOF
<1> DEFINE hits == CachedValues("get", Elements(names), transform)
           fresh == [n \in (Elements(names) \cap Existing) \ (DOMAIN hits \cup lost) |->
                       TransformValue(Raw(n, store[n], TRUE), transform)]
           broken == {n \in DOMAIN fresh : Failed(fresh[n])}
           stops == broken \cup (IF strict THEN lost ELSE {})
           done == Elements(Before(names, stops))
           added == [n \in done \cap DOMAIN fresh |-> fresh[n]]
           kept == [n \in done \cap DOMAIN hits |-> hits[n]]
           one == ByDecryptOption(names, transform, age, strict, lost)
<1>1. /\ one.values = Merged(kept, added)
      /\ one.cache = AddEach(cache, "get", transform, added, age)
  BY DEF ByDecryptOption
<1>2. DOMAIN hits \subseteq Elements(names) /\ TypedValues(hits)
  BY HitsTyped DEF CachedValues
<1>3. /\ DOMAIN fresh \subseteq Elements(names) \cap Existing
      /\ \A n \in DOMAIN fresh : fresh[n] = TransformValue(Raw(n, store[n], TRUE), transform)
  OBVIOUS
<1> HIDE DEF fresh
<1>4. TypedValues(fresh)
  <2>1. ASSUME NEW n \in DOMAIN fresh PROVE fresh[n] \in Values
    <3>1. store[n] \in Docs /\ store[n] # Absent
      BY <1>3, <2>1, ExistingTyped DEF TypeInv
    <3>2. writes \in 0 .. MaxWrites
      BY DEF TypeInv, StoreTyped
    <3>3. TransformValue(Raw(n, store[n], TRUE), transform) \in Values
      BY <3>1, <3>2, ReadTyped
    <3>4. QED
      BY <1>3, <2>1, <3>3
  <2>2. QED
    BY <2>1 DEF TypedValues
<1> HIDE DEF hits, done
<1>5. /\ TypedValues(kept) /\ DOMAIN kept \subseteq DOMAIN hits
      /\ TypedValues(added) /\ DOMAIN added \subseteq DOMAIN fresh
  BY <1>2, <1>4 DEF TypedValues
<1> HIDE DEF kept, added, one
<1>6. TypedValues(one.values) /\ DOMAIN one.values = DOMAIN kept \cup DOMAIN added
  BY <1>1, <1>5, MergedTyped, MergedDomain
<1>7. CacheTyped(one.cache)
  <2>1. DOMAIN added \subseteq Names
    BY <1>3, <1>5 DEF Existing
  <2>2. QED
    BY <1>1, <1>5, <2>1, AddEachTyped DEF TypeInv
<1>8. DOMAIN one.values \subseteq Elements(names)
  BY <1>2, <1>3, <1>5, <1>6
<1>9. QED
  BY <1>6, <1>7, <1>8 DEF one

LEMMA ChunkOf ==
  ASSUME NEW names \in Seq(Names)
  PROVE  /\ Len(Chunks(names)) \in Nat
         /\ \A i \in 1 .. Len(Chunks(names)) : Elements(Chunks(names)[i]) \subseteq Elements(names)
PROOF
<1>1. MaxItems \in Nat \ {0} /\ Len(names) \in Nat
  BY ItemsAssumption
<1>2. PICK n : n = (Len(names) + MaxItems - 1) \div MaxItems
  OBVIOUS
<1>3. n \in Nat
  <2>1. \A x, m \in Int : x >= 0 /\ m > 0 => x \div m \in Int /\ x \div m >= 0
    BY SMT
  <2>2. Len(names) + MaxItems - 1 \in Int /\ Len(names) + MaxItems - 1 >= 0
    BY <1>1
  <2>3. QED
    BY <1>1, <1>2, <2>1, <2>2
<1>4. PICK m : m = IF Len(names) < MaxItems THEN Len(names) ELSE MaxItems
  OBVIOUS
<1>5. m \in Nat /\ m <= Len(names)
  BY <1>1, <1>4
<1>6. Chunks(names) = [i \in 1 .. n |-> SubSeq(names, 1, m)]
  BY <1>2, <1>4 DEF Chunks
<1>7. Elements(SubSeq(names, 1, m)) \subseteq Elements(names)
  <2>1. /\ DOMAIN SubSeq(names, 1, m) = 1 .. m /\ DOMAIN names = 1 .. Len(names)
        /\ \A i \in 1 .. m : SubSeq(names, 1, m)[i] = names[i]
        /\ 1 .. m \subseteq 1 .. Len(names)
    BY <1>5
  <2>2. QED
    BY <2>1 DEF Elements
<1>8. Len(Chunks(names)) = n
  BY <1>3, <1>6
<1>9. QED
  BY <1>3, <1>6, <1>7, <1>8

LEMMA InChunksTyped ==
  ASSUME TypeInv, NEW names \in Seq(Names), NEW c, CacheTyped(c), NEW transform \in Transforms,
         NEW decrypt, NEW age \in MaxAges, NEW strict,
         NEW outcome \in [1 .. Calls(names, transform) -> Outcomes]
  PROVE  LET rest == InChunks(names, c, transform, decrypt, age, strict, outcome)
         IN  /\ TypedValues(rest.values) /\ DOMAIN rest.values \subseteq Elements(names)
             /\ CacheTyped(rest.cache)
PROOF
<1> DEFINE cached == CachedValues("names", Elements(names), transform)
           uncached == Uncached(names, transform)
           chunks == Chunks(uncached)
           calls == Before(outcome, {"throttled"})
           served == {i \in DOMAIN calls : calls[i] = "ok"}
           values(i) == [n \in Elements(chunks[i]) \cap Existing |-> Raw(n, store[n], decrypt)]
           last_ == IF Len(chunks) \in served THEN values(Len(chunks)) ELSE <<>>
           cacheAfter == IF served = {} THEN c
                         ELSE AddEach(c, "names", transform, values(1), age)
           rest == InChunks(names, c, transform, decrypt, age, strict, outcome)
<1>1. rest.values = Merged(cached, last_) /\ rest.cache \in {c, cacheAfter}
  BY DEF InChunks
<1>2. uncached \in Seq(Names) /\ Elements(uncached) \subseteq Elements(names)
  BY ChosenElements DEF Uncached
<1>3. ASSUME NEW i
      PROVE  TypedValues(values(i)) /\ DOMAIN values(i) = Elements(chunks[i]) \cap Existing
  <2>1. ASSUME NEW n \in Elements(chunks[i]) \cap Existing PROVE Raw(n, store[n], decrypt) \in Values
    <3>1. store[n] \in Docs /\ store[n] # Absent
      BY <2>1, ExistingTyped DEF TypeInv
    <3>2. QED
      BY <3>1, ReadTyped DEF TypeInv, StoreTyped
  <2>2. QED
    BY <2>1 DEF TypedValues
<1>4. DOMAIN cached \subseteq Elements(names) /\ TypedValues(cached)
  BY HitsTyped DEF CachedValues
<1> HIDE DEF uncached
<1>5. /\ Len(chunks) \in Nat
      /\ \A i \in 1 .. Len(chunks) : Elements(chunks[i]) \subseteq Elements(uncached)
  BY <1>2, ChunkOf
<1>6. served \subseteq 1 .. Len(chunks)
  <2>1. outcome \in [1 .. Len(chunks) -> Outcomes]
    BY DEF Calls, uncached
  <2> HIDE DEF chunks
  <2>2. outcome \in Seq(Outcomes) /\ Len(outcome) = Len(chunks)
    BY <1>5, <2>1
  <2>3. PICK i \in 0 .. Len(outcome) : calls = SubSeq(outcome, 1, i)
    BY <2>2, BeforeIsPrefix
  <2>4. DOMAIN SubSeq(outcome, 1, i) = 1 .. i /\ 1 .. i \subseteq 1 .. Len(chunks)
    BY <1>5, <2>2
  <2> HIDE DEF calls
  <2>5. QED
    BY <2>3, <2>4
<1> HIDE DEF chunks, cached, served, values, rest
<1>7. TypedValues(last_) /\ DOMAIN last_ \subseteq Elements(names)
  <2>1. CASE Len(chunks) \in served
    BY <1>2, <1>3, <1>5, <1>6, <2>1
  <2>2. CASE Len(chunks) \notin served
    <3>1. last_ = <<>>
      BY <2>2
    <3> HIDE DEF last_
    <3>2. QED
      BY <3>1 DEF TypedValues
  <2>3. QED
    BY <2>1, <2>2
<1>8. CacheTyped(cacheAfter)
  <2>1. TypedValues(values(1)) /\ DOMAIN values(1) \subseteq Names
    BY <1>3 DEF Existing
  <2>2. CacheTyped(AddEach(c, "names", transform, values(1), age))
    BY <2>1, AddEachTyped
  <2>3. QED
    BY <2>2
<1> HIDE DEF last_, cacheAfter
<1>9. TypedValues(rest.values) /\ DOMAIN rest.values = DOMAIN cached \cup DOMAIN last_
  BY <1>1, <1>4, <1>7, MergedTyped, MergedDomain
<1>10. CacheTyped(rest.cache)
  BY <1>1, <1>8
<1>11. QED
  BY <1>4, <1>7, <1>9, <1>10 DEF rest

LEMMA ByNameTyped ==
  ASSUME TypeInv, NEW batch \in Seq(Names), NEW dec, NEW transform \in Transforms,
         NEW age \in MaxAges, NEW strict, GetParametersByName(batch, dec, transform, age, strict)
  PROVE  SessionTyped' /\ CacheTyped(cache') /\ AnswerTyped(answer')
PROOF
<1> DEFINE asked == Elements(batch)
           all == asked \subseteq dec
           single == IF all THEN <<>> ELSE Chosen(batch, dec)
           many == IF all THEN batch ELSE Chosen(batch, Names \ dec)
           needed == Elements(single) \ DOMAIN CachedValues("get", Elements(single), transform)
           op == IF strict THEN "names" ELSE "names or errors"
<1>1. PICK lost \in SUBSET needed, outcome \in [1 .. Calls(many, transform) -> Outcomes] :
        LET one == ByDecryptOption(single, transform, age, strict, lost)
            rest == InChunks(many, one.cache, transform, all, age, strict, outcome)
        IN  /\ cache' \in {one.cache, rest.cache}
            /\ \/ Raises("names", asked, one.raised)
               \/ Raises("names", asked, rest.raised)
               \/ Returns(op, asked, Merged(one.values, rest.values),
                          IF strict THEN {} ELSE one.errors \cup rest.errors)
  BY ZenonT(40) DEF GetParametersByName
<1> DEFINE one == ByDecryptOption(single, transform, age, strict, lost)
           rest == InChunks(many, one.cache, transform, all, age, strict, outcome)
<1>2. /\ single \in Seq(Names) /\ many \in Seq(Names) /\ asked \subseteq Names
      /\ Elements(single) \subseteq asked /\ Elements(many) \subseteq asked
  <2>1. CASE all
    <3>1. Elements(<<>>) = {} /\ <<>> \in Seq(Names)
      BY DEF Elements
    <3>2. asked \subseteq Names
      BY DEF Elements
    <3>3. QED
      BY <2>1, <3>1, <3>2
  <2>2. CASE ~all
    <3>1. /\ single \in Seq(Names) /\ many \in Seq(Names)
          /\ Elements(single) = asked \cap dec /\ Elements(many) = asked \cap (Names \ dec)
      BY <2>2, ChosenElements
    <3>2. asked \subseteq Names
      BY DEF Elements
    <3> HIDE DEF single, many, asked
    <3>3. QED
      BY <3>1, <3>2
  <2>3. QED
    BY <2>1, <2>2
<1>3. CacheTyped(cache)
  BY DEF TypeInv
<1> HIDE DEF single, many, all, asked, op
<1>4. /\ TypedValues(one.values) /\ DOMAIN one.values \subseteq asked
      /\ CacheTyped(one.cache)
  BY <1>2, ByDecryptOptionTyped
<1>5. /\ TypedValues(rest.values) /\ DOMAIN rest.values \subseteq asked
      /\ CacheTyped(rest.cache)
  BY <1>2, <1>4, InChunksTyped
<1> HIDE DEF one, rest
<1>6. PICK values : values = Merged(one.values, rest.values)
  OBVIOUS
<1>7. TypedValues(values) /\ DOMAIN values \subseteq asked
  BY <1>4, <1>5, <1>6, MergedTyped, MergedDomain
<1>8. \/ \E error : Raises("names", asked, error)
      \/ \E errors : Returns(op, asked, values, errors)
  BY <1>1, <1>6 DEF one, rest
<1>9. AnswerTyped(answer')
  BY <1>2, <1>7, <1>8, AnsweredTyped
<1>10. CacheTyped(cache')
  BY <1>1, <1>4, <1>5 DEF one, rest
<1>11. SessionTyped'
  BY SessionTypedSame DEF GetParametersByName
<1>12. QED
  BY <1>9, <1>10, <1>11

-----------------------------------------------------------------------------
(* Types of the other steps *)

\* A write, a deletion, or neither.
LEMMA WriteTyped ==
  ASSUME TypeInv, IInv', NEW n \in Names,
         \/ \E doc \in Contents : Write(n, doc)
         \/ store' = [store EXCEPT ![n] = Absent] /\ UNCHANGED writes
         \/ UNCHANGED <<store, writes>>,
         Retire(n) \/ UNCHANGED retired,
         UNCHANGED <<provider, cache, token, last>>,
         AnswerTyped(answer')
  PROVE  TypeInv'
PROOF
<1>1. /\ provider \in Providers /\ writes \in 0 .. MaxWrites /\ store \in [Names -> Docs]
      /\ retired \in [1 .. MaxWrites -> 0 .. LongestAge + 2] /\ MaxWrites \in Nat
      /\ LongestAge \in Nat /\ CacheTyped(cache)
  BY BoundsAssumption, Longest DEF TypeInv, StoreTyped
<1>2. writes' \in {writes, writes + 1} /\ writes' \in 0 .. MaxWrites
  BY <1>1 DEF Write
<1>3. Docs \subseteq Docs'
  <2>1. 1 .. writes \subseteq 1 .. writes'
    BY <1>1, <1>2
  <2>2. QED
    BY <2>1 DEF Docs
<1>4. store' \in [Names -> Docs']
  <2>1. ASSUME NEW doc \in Contents, Write(n, doc) PROVE store' \in [Names -> Docs']
    <3>1. writes + 1 \in 1 .. writes'
      BY <1>1, <2>1 DEF Write
    <3>2. PICK new : new = [ver |-> writes + 1, doc |-> doc]
      OBVIOUS
    <3>3. new \in Docs'
      BY <3>1, <3>2 DEF Docs
    <3>4. store' = [store EXCEPT ![n] = new]
      BY <2>1, <3>2 DEF Write
    <3>5. QED
      BY <1>1, <1>3, <3>3, <3>4
  <2>2. CASE store' = [store EXCEPT ![n] = Absent]
    <3>1. Absent \in Docs'
      BY DEF Docs
    <3>2. QED
      BY <1>1, <1>3, <2>2, <3>1
  <2>3. CASE store' = store
    BY <1>1, <1>3, <2>3
  <2>4. QED
    BY <2>1, <2>2, <2>3
<1>5. retired' \in [1 .. MaxWrites -> 0 .. LongestAge + 2]
  BY <1>1, SMTT(30) DEF Retire
<1>6. creating' \in Names \cup {NoName}
  BY DEF IInv
<1>7. SessionTyped'
  BY <1>2, SessionTypedSame
<1>8. CacheTyped(cache') /\ AnswerTyped(answer)'
  BY <1>1 DEF AnswerTyped, TypedValues
<1>9. CacheTyped(cache)'
  BY <1>8 DEF CacheTyped, EntryTyped, TypedValues
<1>10. StoreTyped'
  BY <1>1, <1>2, <1>4, <1>5, <1>6 DEF StoreTyped
<1>11. QED
  BY <1>7, <1>8, <1>9, <1>10 DEF TypeInv

LEMMA TickTyped ==
  ASSUME TypeInv, IInv', Tick
  PROVE  TypeInv'
PROOF
<1>1. /\ retired \in [1 .. MaxWrites -> 0 .. LongestAge + 2]
      /\ LongestAge \in Nat /\ CacheTyped(cache) /\ CacheOK(cache)
  BY Longest DEF TypeInv, StoreTyped, IInv
<1>2. retired' \in [1 .. MaxWrites -> 0 .. LongestAge + 2]
  <2>1. \A v \in 1 .. MaxWrites :
          (IF retired[v] \in 1 .. LongestAge + 1 THEN retired[v] + 1 ELSE retired[v])
            \in 0 .. LongestAge + 2
    BY <1>1
  <2>2. QED
    BY <1>1, <2>1 DEF Tick
<1>3. ASSUME NEW k \in DOMAIN cache' PROVE k \in Keys /\ EntryTyped(k, cache'[k])
  <2>1. EntryTyped(k, cache[k]) /\ EntryOK(k, cache[k]) /\ k \in Keys
    BY <1>1, <1>3 DEF CacheTyped, CacheOK, Tick
  <2>2. PICK e : e = cache[k]
    OBVIOUS
  <2>3. e = [values |-> e.values, left |-> e.left] /\ e.left \in -1 .. LongestAge
    BY <2>1, <2>2 DEF EntryOK, EntryTyped
  <2>4. cache'[k] = [e EXCEPT !.left = IF @ >= 0 THEN @ - 1 ELSE @]
    BY <1>3, <2>2 DEF Tick
  <2>5. cache'[k].values = e.values /\ cache'[k].left \in -1 .. LongestAge
    BY <1>1, <2>3, <2>4
  <2>6. QED
    BY <2>1, <2>2, <2>5 DEF EntryTyped
<1>4. CacheTyped(cache)'
  BY <1>3 DEF CacheTyped, EntryTyped, TypedValues
<1>5. StoreTyped'
  BY <1>2 DEF TypeInv, StoreTyped, Tick, Docs
<1>6. SessionTyped'
  BY SessionTypedSame DEF Tick
<1>7. AnswerTyped(answer)'
  BY NoAnswerTyped DEF Tick, AnswerTyped, TypedValues
<1>8. QED
  BY <1>4, <1>5, <1>6, <1>7 DEF TypeInv

\* What clears the cache, begins a new process or takes the answer.
LEMMA ForgetTyped ==
  ASSUME TypeInv, IInv', Restart \/ ClearCache \/ Consume
  PROVE  TypeInv'
PROOF
<1>1. StoreTyped'
  BY DEF TypeInv, StoreTyped, Docs, Restart, ClearCache, Consume
<1>2. CASE Restart
  <2>1. SessionTyped'
    <3>1. writes' \in Nat
      BY <1>2, BoundsAssumption DEF TypeInv, StoreTyped, Restart
    <3>2. NoToken \in NoToken .. writes'
      BY <3>1 DEF NoToken
    <3>3. QED
      BY <1>2, <3>2 DEF Restart, SessionTyped, Docs
  <2>2. CacheTyped(cache)'
    BY <1>2 DEF Restart, CacheTyped
  <2>3. AnswerTyped(answer)'
    BY <1>2, NoAnswerTyped DEF Restart, AnswerTyped, TypedValues
  <2>4. QED
    BY <1>1, <2>1, <2>2, <2>3 DEF TypeInv
<1>3. CASE ClearCache \/ Consume
  <2>1. SessionTyped'
    BY <1>3, SessionTypedSame DEF ClearCache, Consume
  <2>2. CacheTyped(cache)'
    <3>1. CASE cache' = <<>>
      BY <3>1 DEF CacheTyped
    <3>2. CASE cache' = cache
      BY <3>2 DEF TypeInv, CacheTyped, EntryTyped, TypedValues
    <3>3. QED
      BY <1>3, <3>1, <3>2 DEF ClearCache, Consume
  <2>3. AnswerTyped(answer)'
    BY <1>3, NoAnswerTyped DEF ClearCache, Consume, AnswerTyped, TypedValues
  <2>4. QED
    BY <1>1, <2>1, <2>2, <2>3 DEF TypeInv
<1>4. QED
  BY <1>2, <1>3

LEMMA EmptyAnswerTyped ==
  ASSUME NEW op, NEW n \in Names, NEW error,
         \/ Raises(op, {n}, error) \/ Returns(op, {n}, <<>>, {}) \/ answer' = NoAnswer
  PROVE  AnswerTyped(answer')
PROOF
<1>1. DOMAIN <<>> \subseteq {n} /\ TypedValues(<<>>) /\ {n} \in SUBSET Names
  BY DEF TypedValues
<1>2. QED
  BY <1>1, AnsweredTyped, NoAnswerTyped

LEMMA SetTyped ==
  ASSUME TypeInv, IInv', NEW n \in Names, NEW doc \in Contents, NEW o,
         SetParameter(n, doc, o) \/ SetSecret(n, doc)
  PROVE  TypeInv'
PROOF
<1>1. AnswerTyped(answer')
  BY EmptyAnswerTyped DEF SetParameter, SetSecret
<1>2. QED
  BY <1>1, WriteTyped DEF SetParameter, SetSecret

LEMMA CreateSecretTyped ==
  ASSUME TypeInv, IInv', NEW doc \in Contents, CreateSecret(doc)
  PROVE  TypeInv'
PROOF
<1>1. creating \in Names
  BY DEF TypeInv, IInv, CreateSecret
<1>2. AnswerTyped(answer')
  BY <1>1, EmptyAnswerTyped DEF CreateSecret
<1>3. QED
  BY <1>1, <1>2, WriteTyped DEF CreateSecret

LEMMA TypesStep ==
  ASSUME TypeInv, [Next]_vars
  PROVE  TypeInv'
PROOF
<1>1. IInv'
  BY Inductive DEF TypeInv
<1>2. /\ InUse \subseteq Names /\ ContentsOf[provider] \subseteq Contents
      /\ \A c \in PathCalls \cup Batches : c.age \in MaxAges /\ c.transform \in Transforms
  BY UseAssumption, CallsAssumption DEF InUse, TypeInv, IInv, Transforms
<1>3. CASE Environment
  <2>1. ASSUME NEW n \in InUse, NEW doc \in Contents, Put(n, doc) PROVE TypeInv'
    BY <1>1, <1>2, <2>1, WriteTyped, NoAnswerTyped DEF Put
  <2>2. ASSUME NEW n \in InUse, Delete(n) PROVE TypeInv'
    BY <1>1, <1>2, <2>2, WriteTyped, NoAnswerTyped DEF Delete
  <2>3. QED
    BY <1>1, <1>3, <2>1, <2>2, TickTyped, ForgetTyped DEF Environment
<1>4. ASSUME NEW n \in Names, NEW t \in Transforms, NEW d, NEW a \in MaxAges, NEW force,
             Get(n, t, d, a, force)
      PROVE  TypeInv'
  BY <1>1, <1>4, GetTyped, ReadKeepsTypes DEF Get, GetHit, GetMiss
<1>5. ASSUME NEW names \in SUBSET Names, NEW t \in Transforms, NEW d, NEW a \in MaxAges,
             NEW force, NEW r, GetMultiple(t, d, a, force, r) \/ GetSecrets(names, t, a, force, r)
      PROVE  TypeInv'
  BY <1>1, <1>5, ManyTyped, ReadKeepsTypes DEF GetMultiple, GetSecrets
<1>6. ASSUME NEW b \in Batches, NEW strict,
             GetParametersByName(b.names, b.decrypt, b.transform, b.age, strict)
      PROVE  TypeInv'
  <2>1. b.names \in Seq(Names) /\ b.transform \in Transforms /\ b.age \in MaxAges
    BY <1>2, CallsAssumption
  <2>2. SessionTyped' /\ CacheTyped(cache') /\ AnswerTyped(answer')
    BY <1>6, <2>1, ByNameTyped
  <2>3. QED
    BY <1>1, <1>6, <2>2, ReadKeepsTypes DEF GetParametersByName
<1>7. ASSUME NEW n \in InUse, NEW doc \in ContentsOf[provider], NEW o,
             SetParameter(n, doc, o) \/ SetSecret(n, doc)
      PROVE  TypeInv'
  BY <1>1, <1>2, <1>7, SetTyped
<1>8. CASE Call
  BY <1>1, <1>2, <1>4, <1>5, <1>6, <1>7, <1>8, CallsAssumption, ForgetTyped DEF Call
<1>9. CASE \E doc \in ContentsOf[provider] : CreateSecret(doc)
  BY <1>1, <1>2, <1>9, CreateSecretTyped
<1>10. CASE Evaluations
  <2>1. \E d, force : Get(Profile, "json", d, FlagsAge, force)
    BY <1>10 DEF Evaluations, Evaluate, GetEnabledFeatures, GetConfiguration
  <2>2. QED
    BY <1>4, <2>1, ProfileAssumption DEF Transforms
<1>11. CASE UNCHANGED vars
  BY <1>11 DEF vars, pvars, TypeInv, IInv, StoreOK, SessionOK, TokenMatchesLast, CacheOK, EntryOK,
               Aged, FreshWithinMaxAge, StoreTyped, SessionTyped, CacheTyped, EntryTyped, Docs,
               AnswerTyped, TypedValues
<1>12. QED
  BY <1>1, <1>3, <1>8, <1>9, <1>10, <1>11, ForgetTyped DEF Next, PNext

LEMMA TypesInit ==
  ASSUME Init
  PROVE  TypeInv
PROOF
<1>1. MaxWrites \in Nat /\ LongestAge \in Nat
  BY BoundsAssumption, Longest
<1>2. StoreTyped
  BY <1>1 DEF Init, PInit, StoreTyped, Docs
<1>3. SessionTyped
  BY DEF Init, PInit, SessionTyped, Docs, NoToken
<1>4. CacheTyped(cache) /\ AnswerTyped(answer)
  BY NoAnswerTyped DEF Init, PInit, CacheTyped
<1>5. QED
  BY <1>2, <1>3, <1>4, Initially DEF TypeInv

(* What is cached or answered is a value that somebody wrote, under a key or in  *)
(* a call that names it; tokens and last values are of versions that exist, and  *)
(* no entry has more time left than the longest max_age.                         *)
THEOREM TypeCorrect == Spec => []TypeOK
PROOF
<1>1. Init => TypeInv
  BY TypesInit
<1>2. TypeInv /\ [Next]_vars => TypeInv'
  BY TypesStep
<1>3. TypeInv => TypeOK
  BY TypeInvTypes
<1>4. QED
  BY <1>1, <1>2, <1>3, PTL DEF Spec
=============================================================================
