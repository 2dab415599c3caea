----------------------------- MODULE Parameters -----------------------------
(***************************************************************************)
(* The Parameters utility: one provider object of a warm environment, with *)
(* the cache of BaseProvider in front of a remote store that others write. *)
(* Four providers share the cache: Parameter Store ("ssm"), Secrets Manager*)
(* ("secrets"), AppConfig used directly ("appconfig") and AppConfig behind *)
(* the feature flags of module FeatureFlags ("flags").  A behaviour is the *)
(* life of one of them.                                                    *)
(*                                                                         *)
(* A stored value is the version that wrote it and a content; a version is *)
(* unique over the behaviour.  Clock time is relative: a cached entry      *)
(* carries the ticks it has left, a replaced version the ticks since.      *)
(***************************************************************************)
EXTENDS Integers, Sequences, FiniteSets

CONSTANTS
  Providers,    \* the providers a behaviour may be about
  Names,        \* names of parameters, secrets or configuration profiles
  Secure,       \* those stored encrypted (SecureString)
  Contents,     \* what a writer may store
  NamesOf,      \* NamesOf[p], ContentsOf[p]: those that provider p is used with
  ContentsOf,
  ParsableOf,   \* the contents that the transform can read
  Batches,      \* arguments of get_parameters_by_name: the names in order, those
                \* to decrypt, transform and max_age
  PathCalls,    \* other arguments of get_multiple
  NameLists,    \* argument of the get_multiple of secrets: sets of names
  MaxAges,      \* max_age of the calls
  Outcomes,     \* what a GetParameters call may meet
  MaxItems,     \* _MAX_GET_PARAMETERS_ITEM: names of one GetParameters call
  MaxWrites,    \* bound: writes to the store in a behaviour
  MaxEntries    \* bound: entries of the cache at one time

ASSUME NamesAssumption == Secure \subseteq Names /\ Names # {}
ASSUME ContentsAssumption == ParsableOf \subseteq Contents
ASSUME UseAssumption ==
  /\ NamesOf \in [Providers -> SUBSET Names]
  /\ ContentsOf \in [Providers -> SUBSET Contents]
ASSUME AgesAssumption ==
  /\ MaxAges \subseteq Nat
  /\ \E m \in MaxAges : \A a \in MaxAges : a <= m
ASSUME ItemsAssumption == MaxItems \in Nat \ {0}
ASSUME CallsAssumption ==
  /\ \A c \in PathCalls \cup Batches : c.age \in MaxAges /\ c.transform \in {"none", "json"}
  /\ \A b \in Batches : b.names \in Seq(Names)
  /\ NameLists \subseteq SUBSET Names
ASSUME OutcomesAssumption == Outcomes \subseteq {"ok", "unavailable", "throttled"}
ASSUME BoundsAssumption == MaxWrites \in Nat /\ MaxEntries \in Nat

VARIABLES
  provider,   \* the provider this behaviour is about
  store,      \* store[n]: the version and content held remotely
  writes,     \* number of writes so far, the newest version
  retired,    \* ghost, retired[v]: ticks since version v was replaced
  cache,      \* BaseProvider.store
  token,      \* AppConfigProvider._next_token
  last,       \* AppConfigProvider.last_returned_value
  creating,   \* a secret whose update found nothing, still to be created
  answer      \* ghost: what the call that just ended returned

pvars == <<provider, store, writes, retired, cache, token, last, creating, answer>>

AppConfigs == {"appconfig", "flags"}
Transforms == {"none", "json"}
LongestAge == CHOOSE m \in MaxAges : \A a \in MaxAges : a <= m
NoContent == "absent"
NoName == "no name"
Absent == [ver |-> 0, doc |-> NoContent]
Exists(n) == store[n].ver > 0
Existing == {n \in Names : Exists(n)}

NoToken == -1

Values == [ver : 1 .. MaxWrites, doc : Contents,
           form : {"raw", "json", "failed"}, sealed : BOOLEAN]
Keys == [family : {"get", "path", "names"}, of : SUBSET Names, transform : Transforms]

NoAnswer == [op |-> "none", asked |-> {}, values |-> <<>>, errors |-> {},
             raised |-> "no"]

PInit ==
  /\ provider \in Providers
  /\ store = [n \in Names |-> Absent]
  /\ writes = 0
  /\ retired = [v \in 1 .. MaxWrites |-> 0]
  /\ cache = <<>>
  /\ token = [n \in Names |-> NoToken]
  /\ last = [n \in Names |-> Absent]
  /\ creating = NoName
  /\ answer = NoAnswer
-----------------------------------------------------------------------------
(* The store. *)

\* The current version of n gives way to another, or to nothing.
Retire(n) ==
  retired' = IF Exists(n) THEN [retired EXCEPT ![store[n].ver] = 1] ELSE retired

Write(n, doc) ==
  /\ writes < MaxWrites
  /\ writes' = writes + 1
  /\ store' = [store EXCEPT ![n] = [ver |-> writes + 1, doc |-> doc]]

\* Somebody else writes a value or deploys a configuration.
Put(n, doc) ==
  /\ doc \in ContentsOf[provider]
  /\ Write(n, doc)
  /\ Retire(n)
  /\ answer' = NoAnswer
  /\ UNCHANGED <<provider, cache, token, last, creating>>

\* Somebody else deletes a parameter or a secret.
Delete(n) ==
  /\ Exists(n)
  /\ provider \notin AppConfigs
  /\ store' = [store EXCEPT ![n] = Absent]
  /\ Retire(n)
  /\ answer' = NoAnswer
  /\ UNCHANGED <<provider, writes, cache, token, last, creating>>

-----------------------------------------------------------------------------
(* The cache of BaseProvider. *)

Key(family, names, transform) == [family |-> family, of |-> names, transform |-> transform]

IsCached(k) == k \in DOMAIN cache
HasNotExpired(k) == k \in DOMAIN cache /\ cache[k].left >= 0

AddToCache(c, k, values, age) ==
  IF age <= 0 THEN c
  ELSE [x \in DOMAIN c \cup {k} |->
          IF x = k THEN [values |-> values, left |-> age] ELSE c[x]]

\* A second passes.
Tick ==
  /\ cache' = [k \in DOMAIN cache |->
                 [cache[k] EXCEPT !.left = IF @ >= 0 THEN @ - 1 ELSE @]]
  /\ retired' = [v \in DOMAIN retired |->
                   IF retired[v] \in 1 .. LongestAge + 1 THEN retired[v] + 1 ELSE retired[v]]
  /\ answer' = NoAnswer
  /\ UNCHANGED <<provider, store, writes, token, last, creating>>

ClearCache ==
  /\ cache # <<>>
  /\ cache' = <<>>
  /\ answer' = NoAnswer
  /\ UNCHANGED <<provider, store, writes, retired, token, last, creating>>

\* The environment is replaced: a new process has a new provider object.
Restart ==
  /\ cache' = <<>>
  /\ token' = [n \in Names |-> NoToken]
  /\ last' = [n \in Names |-> Absent]
  /\ creating' = NoName
  /\ answer' = NoAnswer
  /\ UNCHANGED <<provider, store, writes, retired>>

-----------------------------------------------------------------------------
(* Transforms. *)

Raw(n, doc, decrypt) ==
  [ver |-> doc.ver, doc |-> doc.doc, form |-> "raw",
   sealed |-> provider = "ssm" /\ n \in Secure /\ ~decrypt]

\* A value the transform cannot read comes out as None.
TransformValue(value, transform) ==
  IF transform = "none" THEN value
  ELSE [value EXCEPT !.form =
          IF value.doc \in ParsableOf /\ ~value.sealed THEN "json" ELSE "failed"]

Failed(value) == value.form = "failed"

-----------------------------------------------------------------------------
(* The _get of each provider: the set of what a call may come to.  "value" *)
(* is Absent when the call raises.                                         *)

Fetched(value, tok, las) == [value |-> value, token |-> tok, last |-> las]
FetchFails(tok) == Fetched(Absent, tok, last)

\* GetParameter and GetSecretValue answer the current value, or fail.
FetchDirect(n) == {FetchFails(token), Fetched(store[n], token, last)}

\* AppConfig: a session is started once per name; then each poll sends the
\* token of the last one and gets a body, empty if nothing was deployed since
\* that token.  The call may fail at the start of the session, at the poll or
\* while the body is read, and leaves what it had stored by then.
SessionTokens(n) ==
  IF token[n] = NoToken THEN [token EXCEPT ![n] = 0] ELSE token

\* Mutant: the token is stored before the body is read
FetchConfigurationTokenFirst(n) ==
  LET session == SessionTokens(n)
      moved == [session EXCEPT ![n] = store[n].ver]
      latest == IF store[n].ver = session[n] THEN last ELSE [last EXCEPT ![n] = store[n]]
  IN {FetchFails(token), FetchFails(session)}
       \cup (IF Exists(n) THEN {FetchFails(moved), Fetched(latest[n], moved, latest)} ELSE {})

FetchConfiguration(n) ==
  LET session == SessionTokens(n)
      delivered == session[n]
      body == IF store[n].ver = delivered THEN Absent ELSE store[n]
      latest == IF body = Absent THEN last ELSE [last EXCEPT ![n] = body]
  IN {FetchFails(token), FetchFails(session)}
       \cup (IF Exists(n)
             THEN {Fetched(latest[n], [session EXCEPT ![n] = store[n].ver], latest)}
             ELSE {})

Fetch(n) == IF provider \in AppConfigs THEN FetchConfiguration(n) ELSE FetchDirect(n)

-----------------------------------------------------------------------------
(* The calls. *)

Returns(op, asked, values, errors) ==
  answer' = [op |-> op, asked |-> asked, values |-> values, errors |-> errors,
             raised |-> "no"]

Raises(op, asked, error) ==
  answer' = [NoAnswer EXCEPT !.op = op, !.asked = asked, !.raised = error]

GetHit(n, transform, decrypt) ==
  LET k == Key("get", {n}, transform) IN
  /\ HasNotExpired(k)
  /\ Returns("get", {n}, cache[k].values, {})
  /\ UNCHANGED <<provider, store, writes, retired, cache, token, last, creating>>

GetMiss(n, transform, decrypt, age, force) ==
  LET k == Key("get", {n}, transform) IN
  /\ force \/ ~HasNotExpired(k)
  /\ \E f \in Fetch(n) :
       LET value == TransformValue(Raw(n, f.value, decrypt), transform) IN
       /\ token' = f.token
       /\ last' = f.last
       /\ \/ /\ f.value = Absent
             /\ Raises("get", {n}, "GetParameterError")
             /\ UNCHANGED cache
          \/ /\ f.value # Absent /\ Failed(value)
             /\ Raises("get", {n}, "TransformParameterError")
             /\ UNCHANGED cache
          \/ /\ f.value # Absent /\ ~Failed(value)
             /\ cache' = AddToCache(cache, k, [x \in {n} |-> value], age)
             /\ Returns("get", {n}, [x \in {n} |-> value], {})
  /\ UNCHANGED <<provider, store, writes, retired, creating>>

Get(n, transform, decrypt, age, force) ==
  \/ ~force /\ GetHit(n, transform, decrypt)
  \/ GetMiss(n, transform, decrypt, age, force)

\* Several values under one key: a value that cannot be transformed is None,
\* unless the caller asked for the error.
TransformAll(names, transform, decrypt) ==
  [n \in names |-> TransformValue(Raw(n, store[n], decrypt), transform)]

FetchMany(op, k, found, transform, decrypt, age, raiseOnTransform) ==
  LET values == TransformAll(found, transform, decrypt) IN
  \/ /\ Raises(op, k.of, "GetParameterError")
     /\ UNCHANGED cache
  \/ /\ raiseOnTransform /\ \E n \in found : Failed(values[n])
     /\ Raises(op, k.of, "TransformParameterError")
     /\ UNCHANGED cache
  \/ /\ ~raiseOnTransform \/ \A n \in found : ~Failed(values[n])
     /\ cache' = AddToCache(cache, k, values, age)
     /\ Returns(op, k.of, values, {})

\* All parameters below a path; here every name is.
GetMultiple(transform, decrypt, age, force, raiseOnTransform) ==
  LET k == Key("path", Names, transform) IN
  /\ provider = "ssm"
  /\ IF ~force /\ HasNotExpired(k)
     THEN /\ Returns("path", Names, cache[k].values, {})
          /\ UNCHANGED cache
     ELSE FetchMany("path", k, Existing, transform, decrypt, age, raiseOnTransform)
  /\ UNCHANGED <<provider, store, writes, retired, token, last, creating>>

\* A list of secrets: the key is the sorted list, an empty result is an error.
GetSecrets(names, transform, age, force, raiseOnTransform) ==
  LET k == Key("path", names, transform)
      found == names \cap Existing
  IN
  /\ provider = "secrets"
  /\ \/ /\ ~force /\ HasNotExpired(k)
        /\ Returns("secrets", names, cache[k].values, {})
        /\ UNCHANGED cache
     \/ /\ force \/ ~HasNotExpired(k)
        /\ IF found = {}
           THEN Raises("secrets", names, "GetParameterError") /\ UNCHANGED cache
           ELSE FetchMany("secrets", k, found, transform, TRUE, age, raiseOnTransform)
  /\ UNCHANGED <<provider, store, writes, retired, token, last, creating>>

-----------------------------------------------------------------------------
(* get_parameters_by_name, for one transform and one max_age.  The names of *)
(* "dec" are to be decrypted, "strict" is raise_on_error.                   *)

\* The part of a sequence of names before the first one in S.
Before(names, S) ==
  LET upTo == {i \in 0 .. Len(names) : \A j \in 1 .. i : names[j] \notin S}
  IN SubSeq(names, 1, CHOOSE i \in upTo : \A j \in upTo : j <= i)

Elements(names) == {names[i] : i \in DOMAIN names}

\* The names of a sequence that are in S, in their order.
Chosen(names, S) ==
  LET upTo[i \in 0 .. Len(names)] ==
        IF i = 0 THEN <<>>
        ELSE IF names[i] \in S THEN Append(upTo[i - 1], names[i]) ELSE upTo[i - 1]
  IN upTo[Len(names)]

\* Mutant: every name is cached with the whole response
AddEachWhole(c, family, transform, values, age) ==
  LET added == {Key(family, {n}, transform) : n \in DOMAIN values}
  IN IF age <= 0 THEN c
     ELSE [k \in DOMAIN c \cup added |->
             IF k \in added THEN [values |-> values, left |-> age] ELSE c[k]]

\* One entry per name.
AddEach(c, family, transform, values, age) ==
  LET keyOf == [n \in DOMAIN values |-> Key(family, {n}, transform)]
      added == {keyOf[n] : n \in DOMAIN values}
  IN IF age <= 0 THEN c
     ELSE [k \in DOMAIN c \cup added |->
             IF k \in added
             THEN [values |-> [n \in k.of |-> values[n]], left |-> age]
             ELSE c[k]]

\* What is cached for each name, in get's entries or in those of GetParameters.
CachedValues(family, names, transform) ==
  [n \in {m \in names : HasNotExpired(Key(family, {m}, transform))} |->
     cache[Key(family, {n}, transform)].values[n]]

\* {**d, **e}
Merged(d, e) ==
  [n \in DOMAIN d \cup DOMAIN e |-> IF n \in DOMAIN e THEN e[n] ELSE d[n]]

\* The names to decrypt go one by one through get when others need no
\* decryption; "lost" are those that GetParameter does not deliver.
ByDecryptOption(names, transform, age, strict, lost) ==
  LET hits == CachedValues("get", Elements(names), transform)
      fresh == [n \in (Elements(names) \cap Existing) \ (DOMAIN hits \cup lost) |->
                  TransformValue(Raw(n, store[n], TRUE), transform)]
      broken == {n \in DOMAIN fresh : Failed(fresh[n])}
      stops == broken \cup (IF strict THEN lost ELSE {})
      done == Elements(Before(names, stops))
      added == [n \in done \cap DOMAIN fresh |-> fresh[n]]
      stopped == done # Elements(names)
      culprit == names[Cardinality(done) + 1]
  IN [values |-> Merged([n \in done \cap DOMAIN hits |-> hits[n]], added),
      errors |-> lost,
      cache  |-> AddEach(cache, "get", transform, added, age),
      raised |-> IF ~stopped THEN "no"
                 ELSE IF culprit \in broken THEN "TransformParameterError"
                 ELSE "GetParameterError"]

\* slice_dictionary takes every chunk from the start of the dictionary.
Chunks(names) ==
  [i \in 1 .. (Len(names) + MaxItems - 1) \div MaxItems |->
     SubSeq(names, 1, IF Len(names) < MaxItems THEN Len(names) ELSE MaxItems)]

\* Mutant: a call that failed leaves no errors
UnansweredIfServed(names, served) == {n \in names : served /\ ~Exists(n)}

\* The names of a call that are errors: those the store does not know, or all of
\* them if the call met an internal error.
Unanswered(names, served) == {n \in names : ~served \/ ~Exists(n)}

\* The names, in order, that GetParameters is asked for.
Uncached(names, transform) ==
  Chosen(names, {n \in Names : ~HasNotExpired(Key("names", {n}, transform))})

\* The others go through GetParameters, chunk by chunk, if not all of them are
\* cached.  "outcome[i]" is what call i meets: an internal error turns its names
\* into errors, a throttled call raises.  The response is that of the last call,
\* and a transform always raises, because its arguments are out of place.
InChunks(names, c, transform, decrypt, age, strict, outcome) ==
  LET cached == CachedValues("names", Elements(names), transform)
      chunks == Chunks(Uncached(names, transform))
      calls == Before(outcome, {"throttled"})
      found(i) == Elements(chunks[i]) \cap Existing
      missing(i) == Unanswered(Elements(chunks[i]), TRUE)
      served == {i \in DOMAIN calls : calls[i] = "ok"}
      values(i) == [n \in found(i) |-> Raw(n, store[n], decrypt)]
      cacheAfter == IF served = {} THEN c
                    ELSE AddEach(c, "names", transform, values(1), age)
      raised == IF strict /\ \E i \in served : missing(i) # {} THEN "GetParameterError"
                ELSE IF transform # "none" /\ \E i \in served : found(i) # {}
                     THEN "TransformParameterError"
                ELSE IF Len(calls) < Len(outcome) THEN "ClientError" ELSE "no"
      final == Len(chunks)
  IN [values |-> Merged(cached, IF final \in served THEN values(final) ELSE <<>>),
      errors |-> UNION {Unanswered(Elements(chunks[i]), i \in served) : i \in DOMAIN calls},
      cache  |-> IF raised \in {"no", "ClientError"} THEN cacheAfter ELSE c,
      raised |-> raised]

\* Number of GetParameters calls that takes.
Calls(names, transform) == Len(Chunks(Uncached(names, transform)))

GetParametersByName(batch, dec, transform, age, strict) ==
  LET asked == Elements(batch)
      all == asked \subseteq dec
      single == IF all THEN <<>> ELSE Chosen(batch, dec)
      many == IF all THEN batch ELSE Chosen(batch, Names \ dec)
      needed == Elements(single) \ DOMAIN CachedValues("get", Elements(single), transform)
  IN
  /\ provider = "ssm"
  /\ \E lost \in SUBSET needed,
        outcome \in [1 .. Calls(many, transform) -> Outcomes] :
       LET one == ByDecryptOption(single, transform, age, strict, lost)
           rest == InChunks(many, one.cache, transform, all, age, strict, outcome)
       IN
       /\ \A n \in needed : ~Exists(n) => n \in lost
       /\ \/ /\ one.raised # "no"
             /\ cache' = one.cache
             /\ Raises("names", asked, one.raised)
          \/ /\ one.raised = "no" /\ rest.raised # "no"
             /\ cache' = rest.cache
             /\ Raises("names", asked, rest.raised)
          \/ /\ one.raised = "no" /\ rest.raised = "no"
             /\ cache' = rest.cache
             /\ Returns(IF strict THEN "names" ELSE "names or errors", asked,
                        Merged(one.values, rest.values),
                        IF strict THEN {} ELSE one.errors \cup rest.errors)
  /\ UNCHANGED <<provider, store, writes, retired, token, last, creating>>

-----------------------------------------------------------------------------
(* set *)

\* put_parameter: without "overwrite" an existing parameter is an error.
SetParameter(n, doc, overwrite) ==
  /\ provider = "ssm"
  /\ \/ /\ overwrite \/ ~Exists(n)
        /\ Write(n, doc)
        /\ Retire(n)
        /\ Returns("set", {n}, <<>>, {})
     \/ /\ Raises("set", {n}, "SetParameterError")
        /\ UNCHANGED <<store, writes, retired>>
  /\ UNCHANGED <<provider, cache, token, last, creating>>

\* A secret is updated; if there is none, it is created by a second call, and
\* others may write or create it between the two.
SetSecret(n, doc) ==
  /\ provider = "secrets"
  /\ creating = NoName
  /\ \/ /\ Exists(n)
        /\ Write(n, doc)
        /\ Retire(n)
        /\ Returns("set", {n}, <<>>, {})
        /\ UNCHANGED creating
     \/ /\ ~Exists(n)
        /\ creating' = n
        /\ answer' = NoAnswer
        /\ UNCHANGED <<store, writes, retired>>
     \/ /\ Raises("set", {n}, "SetSecretError")
        /\ UNCHANGED <<store, writes, retired, creating>>
  /\ UNCHANGED <<provider, cache, token, last>>

CreateSecret(doc) ==
  /\ creating # NoName
  /\ \/ /\ ~Exists(creating)
        /\ Write(creating, doc)
        /\ Returns("set", {creating}, <<>>, {})
     \/ /\ Raises("set", {creating}, "SetSecretError")
        /\ UNCHANGED <<store, writes>>
  /\ creating' = NoName
  /\ UNCHANGED <<provider, retired, cache, token, last>>

-----------------------------------------------------------------------------
InUse == NamesOf[provider]
\* Only Parameter Store has the option, and it matters for a SecureString.
DecryptOptions(n) == IF provider = "ssm" /\ n \in Secure THEN BOOLEAN ELSE {TRUE}

\* What goes on around the function.
Environment ==
  \/ \E n \in InUse, doc \in Contents : Put(n, doc)
  \/ \E n \in InUse : Delete(n)
  \/ Tick
  \/ Restart

\* The calls of the function, one after the other.
Call ==
  \/ ClearCache
  \/ /\ provider # "flags"
     /\ \E n \in InUse, t \in Transforms, a \in MaxAges, force \in BOOLEAN :
          \E d \in DecryptOptions(n) :
            Get(n, t, d, a, force)
  \/ \E p \in PathCalls, force \in BOOLEAN :
       GetMultiple(p.transform, p.decrypt, p.age, force, p.raising)
  \/ \E names \in NameLists, t \in Transforms, a \in MaxAges, force, r \in BOOLEAN :
       GetSecrets(names, t, a, force, r)
  \/ \E b \in Batches, strict \in BOOLEAN :
       GetParametersByName(b.names, b.decrypt, b.transform, b.age, strict)
  \/ \E n \in InUse, doc \in ContentsOf[provider], o \in BOOLEAN : SetParameter(n, doc, o)
  \/ \E n \in InUse, doc \in ContentsOf[provider] : SetSecret(n, doc)

\* The caller has its answer and goes on.
Consume ==
  /\ answer # NoAnswer
  /\ answer' = NoAnswer
  /\ UNCHANGED <<provider, store, writes, retired, cache, token, last, creating>>

PNext ==
  \/ /\ answer = NoAnswer
     /\ \/ Environment
        \/ creating = NoName /\ Call /\ Cardinality(DOMAIN cache') <= MaxEntries
        \/ \E doc \in ContentsOf[provider] : CreateSecret(doc)
  \/ Consume
-----------------------------------------------------------------------------
(* The variables have the values their comments say: what is cached or was  *)
(* answered is a value that was written, under a key that names it.         *)
TypeOK ==
  /\ provider \in Providers
  /\ writes \in 0 .. MaxWrites
  /\ store \in [Names -> {Absent} \cup [ver : 1 .. writes, doc : Contents]]
  /\ retired \in [1 .. MaxWrites -> 0 .. LongestAge + 2]
  /\ DOMAIN cache \subseteq Keys
  /\ \A k \in DOMAIN cache :
       /\ cache[k].left \in -1 .. LongestAge
       /\ DOMAIN cache[k].values \subseteq k.of
       /\ \A n \in DOMAIN cache[k].values : cache[k].values[n] \in Values
  /\ token \in [Names -> NoToken .. writes]
  /\ last \in [Names -> {Absent} \cup [ver : 1 .. writes, doc : Contents]]
  /\ creating \in Names \cup {NoName}
  /\ answer.asked \subseteq Names
  /\ DOMAIN answer.values \subseteq answer.asked
  /\ \A n \in DOMAIN answer.values : answer.values[n] \in Values

(* A value that a call returns was the current one at some time during the  *)
(* longest max_age in use, whatever mixture of single, nested, by-name,     *)
(* forced and uncached calls, failed polls and restarts led to it: the cache*)
(* never extends the life of an entry, and AppConfig's last value, which has*)
(* no age, is only ever served when the service has just said that it is    *)
(* still the current one.                                                   *)
FreshWithinMaxAge ==
  \A n \in DOMAIN answer.values :
    LET v == answer.values[n].ver IN
    v = store[n].ver \/ retired[v] \in 1 .. LongestAge + 1

(* The poll token and the last value of a configuration belong together: the *)
(* value is the one that the service delivered under that token.  The service*)
(* sends an empty body for what it has delivered, so a token that runs ahead *)
(* of the value would lose a deployment for the life of the environment.     *)
TokenMatchesLast ==
  \A n \in Names : token[n] # NoToken => last[n].ver = token[n]

(* In graceful mode every name given to get_parameters_by_name comes back, as *)
(* a value or among the "_errors" and never as both, whether it was cached,  *)
(* decrypted one by one or fetched in a batch, and whatever failed on the way.*)
ByNameAnswersAll ==
  answer.op = "names or errors" /\ answer.raised = "no" =>
    /\ answer.asked = DOMAIN answer.values \cup answer.errors
    /\ DOMAIN answer.values \cap answer.errors = {}
=============================================================================
