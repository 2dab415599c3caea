---------------------------- MODULE MCParameters ----------------------------
(* Instances of FeatureFlags, and with it of Parameters, for TLC. *)
EXTENDS FeatureFlags

MCNamesOf == [p \in Providers |->
                IF p \in AppConfigs THEN {Profile} ELSE Names]
MCContentsOf == [p \in Providers |->
                   CASE p = "flags" -> DOMAIN Schemas \cup {"invalid", "text"}
                     [] p = "appconfig" -> {"json", "text"}
                     [] OTHER -> {"json"}]
MCContents == {"json", "text", "flags", "nulls", "invalid"}
MCParsable == MCContents \ {"text"}
Batch(names, decrypt, transform, age) ==
  [names |-> names, decrypt |-> decrypt, transform |-> transform, age |-> age]
MCBatches == {Batch(<<"a", "b">>, {}, "none", 1), Batch(<<"a", "b">>, {"b"}, "none", 0),
              Batch(<<"a", "b">>, {"b"}, "json", 1), Batch(<<"b", "a">>, {"a", "b"}, "none", 1)}
MCPathCalls == {[transform |-> "json", decrypt |-> FALSE, age |-> 1, raising |-> FALSE],
                [transform |-> "json", decrypt |-> FALSE, age |-> 0, raising |-> TRUE]}
LongBatch == {Batch(<<"a", "b", "c">>, {}, "none", 1)}
MCNameLists == {{"a", "b"}}

Rule(when, conditions) == [whenMatch |-> when, conditions |-> conditions]
Feature(default, rules, boolean) ==
  [default |-> default, rules |-> rules, boolean |-> boolean, nullRules |-> FALSE]

Premium == [action |-> "EQUALS", value |-> "premium"]
Night == [action |-> "SCHEDULE_BETWEEN_TIME_RANGE", start |-> 4, end |-> 1]
Sampled == [action |-> "MODULO_RANGE", base |-> 3, start |-> 1, end |-> 2]
Unusable == [action |-> "ANY_IN_VALUE"]

MCSchemas ==
  [flags |-> [tier   |-> Feature("false", <<Rule("true", {Premium, Night}),
                                            Rule("false", {Sampled})>>, TRUE),
              theme  |-> Feature("object", <<Rule("empty", {Premium}),
                                             Rule("object", {Unusable})>>, FALSE),
              always |-> Feature("true", <<>>, TRUE)],
   nulls |-> [tier |-> [default |-> "false", rules |-> <<>>, boolean |-> TRUE,
                        nullRules |-> TRUE]]]
MCFeatures == {"tier", "theme", "unknown"}
MCContexts == [tier : {"premium", "basic"}, id : {3, 4}] \ {[tier |-> "basic", id |-> 3]}
=============================================================================
