------------------------------ MODULE MCRouter ------------------------------
(***************************************************************************)
(* Instances of Router for TLC: four policies (one that keeps PHI local,   *)
(* one with its rules in the wrong order, one that opts out of both        *)
(* guards, one without rules) under four ways to say which backends are    *)
(* local.  A float has four bits, 1.0 is 64 units, and a price is for ten  *)
(* tokens.                                                                 *)
(***************************************************************************)
EXTENDS Router

MCSpacings == {1, 2, 4, 8, 16, 32, 64, 128, 256}

MCGroups == {"PHI", "PII"}
MCCategories == {"MRN"}
MCBackends == {"ollama", "openai", "edge"}
MCRuleIds == {"r1", "r2"}
MCLocalHinted == {"ollama"}
MCCloudHinted == {"openai"}

MCPriceTable == [name \in {<<"gpt", "-4">>, <<"gpt", "-4", "o">>} |->
                    IF name = <<"gpt", "-4">> THEN 768 ELSE 72]

On(ceiling) == [enforce |-> TRUE, ceiling_usd |-> ceiling]
DenyPHI == [enforce |-> TRUE, groups |-> {"PHI"}]
Rule(id, when, route) == [id |-> id, when |-> when, route |-> route, transform |-> None]
PHI == [Always EXCEPT !.groups_include = {"PHI"}]
Sensitive == [Always EXCEPT !.sensitivity_score_gte = 1]
Redacted == [Rule("r1", [Sensitive EXCEPT !.category_not_in = {"MRN"}], "openai")
                EXCEPT !.transform = "shield_redact"]

KeepsLocal ==
    [default_backend |-> "openai",
     rules |-> <<Rule("r1", PHI, "ollama"), Rule("r2", Sensitive, "openai")>>,
     budget |-> On(80), deny_cloud |-> DenyPHI]

Misordered ==
    [default_backend |-> "edge", rules |-> <<Redacted, Rule("r2", PHI, "ollama")>>,
     budget |-> On(80), deny_cloud |-> DenyPHI]

OptsOut ==
    [default_backend |-> "openai", rules |-> <<>>,
     budget |-> [enforce |-> FALSE, ceiling_usd |-> 1],
     deny_cloud |-> [enforce |-> FALSE, groups |-> {"PHI"}]]

NoRules ==
    [default_backend |-> "edge", rules |-> <<>>,
     budget |-> On(80), deny_cloud |-> DenyPHI]

Declared == {[backend_id |-> b, is_local |-> b = "ollama"] : b \in MCBackends}

(* Backends not declared, declared, local ids given, and both.             *)
MCRouters ==
    {NewRouter(KeepsLocal, Declared, FALSE, {}),
     NewRouter(Misordered, {}, FALSE, {}),
     NewRouter(Misordered, Declared, FALSE, {}),
     NewRouter(OptsOut, {}, FALSE, {}),
     NewRouter(NoRules, {}, FALSE, {}),
     NewRouter(NoRules, {}, TRUE, {"ollama"}),
     NewRouter(NoRules, Declared, TRUE, {"ollama", "edge"})}

Call(kind, model, length, ceiling, encodable) ==
    [kind |-> kind, model |-> model, length |-> length,
     budget_ceiling |-> ceiling, encodable |-> encodable]

MCRequests ==
    {Call("route", <<"gpt", "-4", "o">>, 8, Unset, TRUE),
     Call("route", <<"gpt", "-4", "-32k">>, 8, Unset, TRUE),
     Call("route", None, 8, None, TRUE),
     Call("route", None, 8, Unset, FALSE),
     Call("classify", None, 8, None, TRUE)}

MCAnalyses ==
    {[score |-> 0, groups |-> {}, categories |-> {}],
     [score |-> 1, groups |-> {"PHI", "PII"}, categories |-> {}],
     [score |-> 2, groups |-> {"PHI"}, categories |-> {"MRN"}]}
=============================================================================
