---------------------------- MODULE FeatureFlags ----------------------------
(***************************************************************************)
(* Feature flags: FeatureFlags.evaluate and get_enabled_features over an   *)
(* AppConfigStore, which keeps a configuration profile in an AppConfig     *)
(* provider of its own.  Provider "flags" of module Parameters is that     *)
(* provider; its calls are the evaluations below.                          *)
(***************************************************************************)
EXTENDS Parameters

CONSTANTS
  Profile,         \* AppConfigStore.name
  FlagsAge,        \* AppConfigStore.cache_seconds
  Schemas,         \* Schemas[c]: the features that a valid content c describes
  Features,        \* feature names a caller may ask for
  Contexts,        \* contexts: records with a tier and an id
  MinutesPerHour,  \* the day in which time rules are evaluated
  HoursPerDay,
  HandlerSays      \* what validation_exception_handler returns; FALSE if none

ASSUME ProfileAssumption == Profile \in Names /\ FlagsAge \in MaxAges
ASSUME SchemasAssumption == DOMAIN Schemas \subseteq ParsableOf
ASSUME DayAssumption == MinutesPerHour \in Nat \ {0} /\ HoursPerDay \in Nat \ {0}
ASSUME HandlerAssumption == HandlerSays \in BOOLEAN

VARIABLE decision   \* ghost: the evaluation that just ended

vars == <<pvars, decision>>

Minutes == 0 .. MinutesPerHour * HoursPerDay - 1
Hour(t) == t \div MinutesPerHour

NoDecision == [op |-> "none", raised |-> "no", ver |-> 0, doc |-> NoContent,
               context |-> "none", wall |-> 0, value |-> "none", enabled |-> {}]

-----------------------------------------------------------------------------
(* JSON values, as far as Python's bool() tells them apart. *)
Truthy(value) == value \in {"true", "object"}
ToBool(value) == IF Truthy(value) THEN "true" ELSE "false"

\* Mutant: a window that crosses midnight is empty
CompareTimeRangeSameDay(now, start, end) == start <= now /\ now <= end

\* The window is taken to cross midnight when its end hour is the smaller one.
CompareTimeRange(now, start, end) ==
  IF Hour(end) < Hour(start) THEN start <= now \/ now <= end
  ELSE start <= now /\ now <= end

CompareModuloRange(value, base, start, end) ==
  start <= value % base /\ value % base <= end

\* An action that fails on the context asks the exception handler.
MatchByAction(c, context, now) ==
  \/ c.action = "EQUALS" /\ context.tier = c.value
  \/ c.action = "MODULO_RANGE" /\ CompareModuloRange(context.id, c.base, c.start, c.end)
  \/ c.action = "SCHEDULE_BETWEEN_TIME_RANGE" /\ CompareTimeRange(now, c.start, c.end)
  \/ c.action = "ANY_IN_VALUE" /\ HandlerSays

EvaluateConditions(rule, context, now) ==
  /\ rule.conditions # {}
  /\ \A c \in rule.conditions : MatchByAction(c, context, now)

\* The first rule that matches decides, otherwise the feature's default.
EvaluateRules(feature, context, now) ==
  LET matching == {i \in DOMAIN feature.rules :
                     EvaluateConditions(feature.rules[i], context, now)}
      first == feature.rules[CHOOSE i \in matching : \A j \in matching : i <= j]
  IN IF matching = {} THEN feature.default
     ELSE IF feature.boolean THEN ToBool(first.whenMatch) ELSE first.whenMatch

EvaluateFeature(feature, context, now) ==
  IF feature.rules = <<>>
  THEN IF feature.boolean THEN ToBool(feature.default) ELSE feature.default
  ELSE EvaluateRules(feature, context, now)

\* Mutant: the rules of a feature whose default enables it are skipped
EnabledByDefault(feature, context, now) ==
  Truthy(feature.default) \/ Truthy(EvaluateRules(feature, context, now))

\* A feature without rules is enabled by its default alone.  One whose rules
\* are null in the document cannot be walked unless its default enables it.
Enabled(feature, context, now) ==
  IF Truthy(feature.default) /\ feature.rules = <<>> THEN TRUE
  ELSE Truthy(EvaluateRules(feature, context, now))

CannotWalk(feature) == feature.nullRules /\ ~Truthy(feature.default)

-----------------------------------------------------------------------------
(* get_configuration through the store, validated on every call.  A failure  *)
(* of the store or of the JSON leaves the caller with its own default, denied*)
(* access and an invalid schema reach the caller as exceptions.              *)
Fallback(error) == error \in {"GetParameterError", "TransformParameterError"}

GetConfiguration ==
  /\ provider = "flags"
  /\ answer = NoAnswer
  /\ Get(Profile, "json", TRUE, FlagsAge, FALSE)

\* What the caller, at "base" so far, has after get_configuration.
Configured(base) ==
  LET v == answer'.values[Profile]
      known == [base EXCEPT !.ver = v.ver, !.doc = v.doc]
  IN IF answer'.raised = "no"
     THEN {IF v.doc \in DOMAIN Schemas THEN known
           ELSE [known EXCEPT !.raised = "SchemaValidationError"]}
     ELSE (IF Fallback(answer'.raised) THEN {base} ELSE {})
          \cup (IF answer'.raised = "GetParameterError"
                THEN {[base EXCEPT !.raised = "StoreClientError"]} ELSE {})

HasSchema(d) == d.raised = "no" /\ d.doc \in DOMAIN Schemas
Asked(op, context, now) == [NoDecision EXCEPT !.op = op, !.context = context, !.wall = now]

\* A feature that is not in the document has the caller's default.
Evaluate(name, context, now) ==
  /\ GetConfiguration
  /\ \E d \in Configured(Asked("evaluate", context, now)) :
       decision' =
         IF HasSchema(d) /\ name \in DOMAIN Schemas[d.doc]
         THEN [d EXCEPT !.value = EvaluateFeature(Schemas[d.doc][name], context, now)]
         ELSE d

GetEnabledFeatures(context, now) ==
  /\ GetConfiguration
  /\ \E d \in Configured(Asked("enabled", context, now)) :
       decision' =
         IF ~HasSchema(d) THEN d
         ELSE LET features == Schemas[d.doc]
              IN IF \E f \in DOMAIN features : CannotWalk(features[f])
                 THEN [d EXCEPT !.raised = "AttributeError"]
                 ELSE [d EXCEPT !.enabled =
                         {f \in DOMAIN features : Enabled(features[f], context, now)}]

Init ==
  /\ PInit
  /\ decision = NoDecision

Evaluations ==
  \E context \in Contexts, now \in Minutes :
    \/ \E f \in Features : Evaluate(f, context, now)
    \/ GetEnabledFeatures(context, now)

Next ==
  \/ PNext /\ decision' = NoDecision
  \/ Evaluations

\* The function goes on being invoked and time passes; a service that is asked
\* again and again answers once.
Answered == Evaluations /\ answer'.raised # "GetParameterError" /\ decision'.op = "evaluate"
Fairness == WF_vars(Consume /\ decision' = NoDecision)
            /\ SF_vars(Tick /\ decision' = NoDecision) /\ SF_vars(Answered)
Spec == Init /\ [][Next]_vars /\ Fairness

-----------------------------------------------------------------------------
(* evaluate and get_enabled_features walk rules and defaults by code of their *)
(* own; they agree on every feature, context and time of day: the enabled     *)
(* features are those that evaluate to a true value.                          *)
EnabledAgreesWithEvaluate ==
  decision.op = "enabled" /\ decision.raised = "no" /\ decision.ver > 0 =>
    LET features == Schemas[decision.doc] IN
    decision.enabled =
      {f \in DOMAIN features :
         Truthy(EvaluateFeature(features[f], decision.context, decision.wall))}

(* A daily time window matches exactly the minutes from its start to its end, *)
(* both included and across midnight if the end is the earlier.  Windows that *)
(* cross midnight but end in the hour they start in never match and are left  *)
(* out.                                                                       *)
WindowIsCyclic ==
  decision.op # "none" =>
    LET day == MinutesPerHour * HoursPerDay IN
    \A s, e \in Minutes :
      ~(Hour(s) = Hour(e) /\ e < s) =>
        (CompareTimeRange(decision.wall, s, e)
           <=> (decision.wall - s) % day <= (e - s) % day)

(* Whatever was deployed before, broken documents and failed polls included,  *)
(* once deployments stop with a valid document the evaluations follow it.     *)
FollowsDeployment ==
  (provider = "flags" /\ writes = MaxWrites /\ store[Profile].doc \in DOMAIN Schemas)
    ~> decision.op = "evaluate" /\ decision.ver = store[Profile].ver
=============================================================================
