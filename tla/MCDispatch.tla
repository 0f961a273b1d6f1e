----------------------------- MODULE MCDispatch -----------------------------
(***************************************************************************)
(* Instances of Dispatch for TLC: command lines with every combination of  *)
(* sources, ceilings of 0, of NaN, of just the cost and below it, and      *)
(* policies whose scores and groups meet the bounds of their rules.        *)
(*                                                                         *)
(* A float has four bits here and 1.0 is 64 units; a price is for ten      *)
(* tokens.  Two tokens of gpt-4o cost 14.4 units, and the estimate is 15.  *)
(***************************************************************************)
EXTENDS Dispatch

MCSpacings == {1, 2, 4, 8, 16, 32, 64, 128, 256}

MCGroups == {"PHI", "PII"}
MCCategories == {"MRN"}
MCBackends == {"ollama", "openai", "edge"}
MCRuleIds == {"r1", "r2"}

Gpt4 == <<"gpt", "-4">>
Gpt4o == <<"gpt", "-4", "o">>
Gpt4oMini == <<"gpt", "-4", "o", "-mini">>

MCPriceTable == [name \in {Gpt4, Gpt4o} |-> IF name = Gpt4 THEN 768 ELSE 72]

Rule(id, when, route, transform) ==
    [id |-> id, when |-> when, route |-> route, transform |-> transform]

Policy(default, rules, ceiling, denied) ==
    [default_backend |-> default, rules |-> rules,
     budget |-> [enforce |-> ceiling # None, ceiling_usd |-> IF ceiling = None THEN 1 ELSE ceiling],
     deny_cloud |-> [enforce |-> denied # {}, groups |-> denied]]

PHI == [Always EXCEPT !.groups_include = {"PHI"}]
Between(low, high) ==
    [Always EXCEPT !.sensitivity_score_gte = low, !.sensitivity_score_lt = high]

KeepsLocal ==
    Policy("openai", <<Rule("r1", PHI, "ollama", None),
                       Rule("r2", Between(1, 2), "openai", "shield_redact")>>, 88, {"PHI"})

Misrouted ==
    Policy("ollama",
           <<Rule("r1", [Between(0, 2) EXCEPT !.category_not_in = {"MRN"}], "openai", None),
             Rule("r2", [Between(2, 3) EXCEPT !.groups_exclude = {"PII"}], "edge", None)>>,
           15, {"PHI"})

OptsOut ==
    Policy("edge", <<Rule("r1", [Always EXCEPT !.category_in = {"MRN"}], "openai", "shield_redact")>>,
           None, {})

MCPolicies == {None, KeepsLocal, Misrouted, OptsOut}

At(host) == [scheme |-> "http", host |-> host]

Entry(id, kind, key, url) ==
    [id |-> id, kind |-> kind, api_key_env |-> key, base_url |-> url]

Ollama == Entry("ollama", "ollama", None, At("127.0.0.1"))
OpenAI == Entry("openai", "openai", "KEY", None)
Edge == Entry("edge", "llamacpp", None, None)
CloudEdge == Entry("edge", "anthropic", None, None)
NoKey == Entry("openai", "openai", "OTHER_KEY", None)
Elsewhere == Entry("ollama", "ollama", None, At("example.com"))
CloudOllama == Entry("ollama", "openai", "KEY", None)

File(backends) == [backends |-> backends, strict |-> TRUE, sink |-> TRUE]

MCConfigs ==
    {None, File(<<Ollama, OpenAI, Edge>>), File(<<CloudEdge, Edge, NoKey, Elsewhere>>),
     File(<<CloudEdge, CloudOllama>>),
     [File(<<Ollama, OpenAI>>) EXCEPT !.strict = FALSE], [File(<<>>) EXCEPT !.sink = FALSE]}

Line(verb, conf, pol, env, execute, model, length, ceiling) ==
    [verb |-> verb, config |-> conf, policy |-> pol, env |-> env, execute |-> execute,
     model |-> model, length |-> length, encodable |-> TRUE, budget_ceiling |-> ceiling]

(* Every combination of sources, executed, and what can be asked of one.   *)
MCCommands ==
    {Line("route", c, p, e, TRUE, Gpt4oMini, 8, None) : c, p, e \in BOOLEAN}
      \cup {Line("route", TRUE, FALSE, FALSE, FALSE, ask[1], ask[2], ask[3]) :
              ask \in {<<Gpt4o, 8, 14>>, <<Gpt4oMini, 2, 7>>, <<None, 8, None>>,
                       <<<<>>, 8, 0>>, <<Gpt4, 8, 144>>, <<Gpt4, 8, NaN>>, <<None, 0, None>>}}
      \cup {[Line("route", FALSE, TRUE, FALSE, FALSE, None, 8, None) EXCEPT !.encodable = FALSE]}
      \cup {Line("dry-run", FALSE, TRUE, FALSE, FALSE, None, 8, None),
            Line("dry-run", FALSE, TRUE, FALSE, FALSE, None, 0, None)}
      \cup {Line("validate", FALSE, TRUE, FALSE, FALSE, None, 0, None)}
      \cup {Line(verb, FALSE, FALSE, env, FALSE, None, 0, None) : verb \in Servers, env \in BOOLEAN}

Tool(length, outgoing) ==
    [model |-> None, length |-> length, encodable |-> TRUE, budget_ceiling |-> Unset,
     outgoing |-> outgoing]

MCQueries == {Tool(0, FALSE), Tool(8, FALSE), Tool(8, TRUE)}

MCAnalyses ==
    {[score |-> 0, groups |-> {}, categories |-> {}],
     [score |-> 1, groups |-> {"PII"}, categories |-> {}],
     [score |-> 1, groups |-> {"PHI", "PII"}, categories |-> {}],
     [score |-> 2, groups |-> {}, categories |-> {"MRN"}],
     [score |-> 2, groups |-> {"PHI"}, categories |-> {}]}

MCExtraHosts == [openai |-> {}, anthropic |-> {}]
MCSdkHosts == [openai |-> "elsewhere", anthropic |-> "api.anthropic.com"]
=============================================================================
