------------------------------ MODULE Dispatch ------------------------------
(***************************************************************************)
(* cli/main.py and mcp/server.py: one process of the command line, or one  *)
(* MCP server, from its arguments to its exit.  It loads a Router from     *)
(* files that may be edited at any time, routes prompts with it, and with  *)
(* --execute reads router.yaml once more and sends the prompt to the       *)
(* backend the policy chose.  The routing of a prompt, which Router.tla    *)
(* describes among concurrent calls, is one call here, and its loops are   *)
(* taken apart: the scan of the price table and the scan of the rules.     *)
(* External: the files, what Shield reports, the providers, who runs and   *)
(* stops the process and what the tools are called with.                   *)
(***************************************************************************)
EXTENDS Locality, Cost, SequencesExt

CONSTANTS
    Commands,       \* the command lines
    Queries,        \* what the tools of an MCP server are called with
    Configs,        \* what router.yaml may hold; None is what cannot be loaded
    Policies,       \* what policy.yaml may hold; None is what cannot be loaded
    Analyses,       \* what Shield.analyze can report
    Unset,          \* the default of the budget_ceiling argument
    MaxEdits,       \* bound: how often a file is edited
    MaxTools,       \* bound: how many tools are called
    SetVars, ExtraHosts, SdkHosts, Installed    \* the environment, as in Adapters

INSTANCE Adapters

VARIABLES
    files,      \* what router.yaml and policy.yaml hold now
    edits,
    cmd,        \* the command line of this process
    pc,         \* where it is
    router,     \* its Router
    query,      \* the arguments of the call of Router.route
    tools,      \* how many tools were called
    todo,       \* the known names that the price scan has still to look at
    best,       \* the longest prefix it has seen
    found,      \* what Shield reported
    at,         \* the rule that evaluate looks at
    decided,    \* the decision
    config,     \* the backends of the router.yaml that _dispatch read
    backend,    \* the one it chose
    sent,       \* what its adapter has sent
    shown,      \* what was printed, or returned by the last tool
    error,      \* the last exception
    status      \* how the process exited

world == <<files, edits>>
call == <<query, todo, best, found, at, decided>>
target == <<config, backend>>
result == <<shown, error, status>>
vars == <<world, cmd, pc, router, tools, call, target, sent, result>>

-----------------------------------------------------------------------------
(* Data.                                                                   *)

Servers == {"serve-mcp", "mcp"}     \* serve --mcp and python -m ogentic_router.mcp

Query ==
    [model : Seq(STRING) \cup {None}, length : Nat, encodable : BOOLEAN,
     budget_ceiling : Int \cup {NaN, None, Unset}, outgoing : BOOLEAN]

(* A prompt of length 0 is empty once it is stripped.                      *)
Command ==
    [verb : {"route", "dry-run", "validate"} \cup Servers,
     config : BOOLEAN, policy : BOOLEAN, env : BOOLEAN, execute : BOOLEAN,
     model : Seq(STRING) \cup {None}, length : Nat, encodable : BOOLEAN,
     budget_ceiling : Int \cup {NaN, None}]

(* A file that Router.from_yaml can read: whether RouterConfig, which is   *)
(* stricter, accepts it, and whether its audit block makes a sink.         *)
BackendEntry ==
    [id : Backends, kind : LocalKinds \cup CloudKinds,
     api_key_env : STRING \cup {None}, base_url : Address \cup {None}]

ConfigFile == [backends : Seq(BackendEntry), strict : BOOLEAN, sink : BOOLEAN]

RouterErrors ==
    {"RouterError", "ConfigError", "ShieldUnavailableError",
     "BudgetCeilingExceeded", "CloudRouteDeniedError"}

Errors ==
    RouterErrors \cup
    {"PolicyError", "AdapterError", "ShieldError", "AnalysisError", "ValueError",
     "OSError", "UnicodeEncodeError", "DispatchError"}

Statuses == {"exit 0", "exit 1", "exit 2", "traceback"}

(* A decision, and the text with it.                                       *)
Report == [decision : RouteDecision, text : {None, "prompt", "redacted", "output"}]

ASSUME DispatchAssumption ==
    /\ Commands \subseteq Command
    /\ Queries \subseteq {q \in Query : q.budget_ceiling = Unset}
    /\ Configs \subseteq ConfigFile \cup {None}
    /\ \A p \in Policies : p \in PolicySpec \cup {None}
    /\ Analyses \subseteq ShieldResult
    /\ MaxEdits \in Nat /\ MaxTools \in Nat
    /\ None \notin Int /\ NaN \notin Int /\ Unset \notin Int
    /\ NaN # None /\ Unset # None /\ Unset # NaN /\ <<>> # None
    /\ None \notin DOMAIN PriceTable
    /\ None \notin PolicySpec /\ None \notin ConfigFile /\ None \notin Commands
    /\ None \notin RouterObject /\ None \notin Query
    /\ None \notin ShieldResult /\ None \notin RouteDecision
    /\ None \notin Report /\ None \notin Errors /\ None \notin Statuses

-----------------------------------------------------------------------------
(* How a process ends, and what becomes of an exception.                   *)

IsServer == cmd.verb \in Servers

Stage ==
    CASE pc = "load" -> "load"
      [] pc \in {"enter", "price", "shield", "rules", "guard"} -> "route"
      [] pc \in {"chat", "wait"} -> "chat"
      [] OTHER -> "none"

(* The except clauses around a stage, and the status each exits with.      *)
Handlers(verb, stage) ==
    CASE verb = "route" /\ stage = "load" -> [e \in RouterErrors \cup {"OSError"} |-> "exit 2"]
      [] verb = "route" /\ stage = "route" ->
            [e \in {"BudgetCeilingExceeded", "ShieldUnavailableError"} |->
               IF e = "BudgetCeilingExceeded" THEN "exit 1" ELSE "exit 2"]
      [] verb = "route" /\ stage = "chat" -> [e \in Errors |-> "exit 1"]
      [] verb = "dry-run" -> [e \in {"ShieldUnavailableError"} |-> "exit 2"]
      [] verb = "validate" -> [e \in {"PolicyError"} |-> "exit 2"]
      [] verb = "serve-mcp" /\ stage = "load" -> [e \in Errors |-> "exit 1"]
      [] OTHER -> [e \in {} |-> "traceback"]

Exit(how) == pc' = "done" /\ status' = how

(* An exception ends a tool's call with an error, and a command for good.  *)
Raise(e) ==
    /\ error' = e /\ shown' = None
    /\ IF IsServer /\ pc # "load"
       THEN pc' = "serving" /\ UNCHANGED status
       ELSE LET handlers == Handlers(cmd.verb, Stage)
            IN  Exit(IF e \in DOMAIN handlers THEN handlers[e] ELSE "traceback")

(* A new call of Router.route.                                             *)
Ask(q) ==
    /\ query' = q
    /\ todo' = DOMAIN PriceTable /\ best' = None
    /\ found' = None /\ at' = 1 /\ decided' = None

-----------------------------------------------------------------------------
(* Loading.                                                                *)

Start ==
    /\ pc = "idle"
    /\ cmd' \in Commands
    /\ pc' = IF cmd'.verb = "dry-run" THEN "prompt" ELSE "load"
    /\ UNCHANGED <<world, router, tools, call, target, sent, result>>

(* A given --policy hides the environment's router.yaml, not a --config.   *)
LoadsConfig ==
    \/ cmd.verb = "route" /\ (cmd.config \/ (cmd.env /\ ~cmd.policy))
    \/ IsServer /\ (cmd.config \/ cmd.env)

LoadsPolicy ==
    \/ cmd.verb \in {"dry-run", "validate"}
    \/ cmd.verb = "route" /\ cmd.policy /\ ~cmd.config

Loaded(r) ==
    /\ router' = r
    /\ IF cmd.verb = "validate" THEN Exit("exit 0")
       ELSE /\ pc' = CASE cmd.verb = "route" -> "prompt"
                       [] cmd.verb = "dry-run" -> "enter"
                       [] OTHER -> "serving"
            /\ UNCHANGED status
    /\ UNCHANGED <<error, shown>>

Declared(backends) ==
    {[backend_id |-> b.id, is_local |-> b.kind \in LocalKinds] : b \in ToSet(backends)}

(* What Router.from_yaml may raise for the two files: the Shield may not   *)
(* be there or fail, the audit block may be wrong or its directory not be  *)
(* made, FastMCP may be missing.                                           *)
LoadErrors ==
    IF files.config = None THEN {"RouterError"}
    ELSE IF files.policy = None THEN {"PolicyError"}
    ELSE {"ShieldUnavailableError", "ShieldError"}
            \cup (IF files.config.sink THEN {"OSError"} ELSE {"ValueError"})
            \cup (IF IsServer THEN {"RouterError"} ELSE {})

LoadConfig ==
    /\ pc = "load" /\ LoadsConfig
    /\ \/ (\E e \in LoadErrors : Raise(e)) /\ UNCHANGED router
       \/ /\ files.config # None /\ files.policy # None
          /\ files.config.sink
          /\ Loaded(NewRouter(files.policy, Declared(files.config.backends), FALSE, {}))
    /\ UNCHANGED <<world, cmd, tools, call, target, sent>>

(* Policy.from_yaml, and a Router without backends for it.                 *)
LoadPolicy ==
    /\ pc = "load" /\ LoadsPolicy
    /\ IF files.policy = None THEN Raise("PolicyError") /\ UNCHANGED router
       ELSE Loaded(NewRouter(files.policy, {}, FALSE, {}))
    /\ UNCHANGED <<world, cmd, tools, call, target, sent>>

NothingToLoad ==
    /\ pc = "load" /\ ~LoadsConfig /\ ~LoadsPolicy
    /\ Exit(IF IsServer THEN "exit 1" ELSE "exit 2")
    /\ UNCHANGED <<world, cmd, router, tools, call, target, sent, shown, error>>

(* A ceiling of 0 counts as none given: a mutant.                          *)
QueryOfTruthy(c) ==
    [model |-> c.model, length |-> c.length, encodable |-> c.encodable, outgoing |-> FALSE,
     budget_ceiling |-> IF c.verb = "dry-run" THEN None
                        ELSE IF c.budget_ceiling \in {None, 0} THEN Unset ELSE c.budget_ceiling]

(* What a command routes; a dry-run has no ceiling.                        *)
QueryOf(c) ==
    [model |-> c.model, length |-> c.length, encodable |-> c.encodable, outgoing |-> FALSE,
     budget_ceiling |-> IF c.verb = "dry-run" THEN None
                        ELSE IF c.budget_ceiling = None THEN Unset ELSE c.budget_ceiling]

(* An empty prompt is asked for again: a mutant.                           *)
ReadPromptAgain ==
    /\ pc = "prompt"
    /\ cmd.length > 0
    /\ Ask(QueryOf(cmd))
    /\ pc' = IF cmd.verb = "dry-run" THEN "load" ELSE "enter"
    /\ UNCHANGED <<world, cmd, router, tools, target, sent, result>>

ReadPrompt ==
    /\ pc = "prompt"
    /\ \/ cmd.length = 0 /\ Exit("exit 2") /\ UNCHANGED call
       \/ /\ cmd.length > 0 /\ Ask(QueryOf(cmd))
          /\ pc' = IF cmd.verb = "dry-run" THEN "load" ELSE "enter"
          /\ UNCHANGED status
    /\ UNCHANGED <<world, cmd, router, tools, target, sent, shown, error>>

(* An MCP client calls classify_route, or evaluate_dry with or without     *)
(* include_outgoing_prompt.                                                *)
CallTool ==
    /\ pc = "serving" /\ tools < MaxTools
    /\ tools' = tools + 1
    /\ \E q \in Queries :
          /\ Ask(q)
          /\ \/ q.length = 0 /\ Raise("ValueError")
             \/ /\ q.length > 0 /\ pc' = "enter" /\ error' = None /\ shown' = None
                /\ UNCHANGED status
    /\ UNCHANGED <<world, cmd, router, target, sent>>

-----------------------------------------------------------------------------
(* Router.route, its loops taken apart.                                    *)

Model == IF query.model \in {None, <<>>} THEN <<"unknown">> ELSE query.model

Ceiling ==
    IF query.budget_ceiling = Unset THEN EffectiveCeiling(router.policy) ELSE query.budget_ceiling

(* The fingerprint; without a ceiling there is no estimate.                *)
Enter ==
    /\ pc = "enter"
    /\ \/ ~query.encodable /\ Raise("UnicodeEncodeError")
       \/ /\ query.encodable
          /\ pc' = IF Ceiling = None THEN "shield" ELSE "price"
          /\ UNCHANGED result
    /\ UNCHANGED <<world, cmd, router, tools, call, target, sent>>

(* _price_per_m: a known name ends the look-up, for any other the known    *)
(* names are gone through for the longest prefix.                          *)
LookUpPrice ==
    /\ pc = "price" /\ todo # {}
    /\ \/ Model \in DOMAIN PriceTable /\ best' = Model /\ todo' = {}
       \/ /\ Model \notin DOMAIN PriceTable
          /\ \E name \in todo :
                /\ todo' = todo \ {name}
                /\ best' = IF PrefixOf(name, Model) /\ (best = None \/ Len(name) > Len(best))
                           THEN name ELSE best
    /\ UNCHANGED <<world, cmd, pc, router, query, tools, found, at, decided, target, sent, result>>

Estimate == CostAt(IF best = None THEN DefaultPrice ELSE PriceTable[best], query.length)

CheckBudget ==
    /\ pc = "price" /\ todo = {}
    /\ \/ Exceeds(Estimate, Ceiling) /\ Raise("BudgetCeilingExceeded")
       \/ ~Exceeds(Estimate, Ceiling) /\ pc' = "shield" /\ UNCHANGED result
    /\ UNCHANGED <<world, cmd, router, tools, call, target, sent>>

(* A Router that was not made from router.yaml has no Shield yet.          *)
Analyze ==
    /\ pc = "shield"
    /\ \/ found' \in Analyses /\ pc' = "rules" /\ UNCHANGED result
       \/ Raise("AnalysisError") /\ UNCHANGED found
       \/ /\ ~LoadsConfig /\ UNCHANGED found
          /\ \E e \in {"ShieldUnavailableError", "ShieldError"} : Raise(e)
    /\ UNCHANGED <<world, cmd, router, tools, query, todo, best, at, decided, target, sent>>

(* The bounds of the score exchanged, gt for gte and le for lt: a mutant.  *)
FailsExchanged(when, sr) ==
    \/ when.groups_include # {} /\ sr.groups \cap when.groups_include = {}
    \/ sr.groups \cap when.groups_exclude # {}
    \/ sr.score <= when.sensitivity_score_gte
    \/ sr.score > when.sensitivity_score_lt
    \/ when.category_in # {} /\ sr.categories \cap when.category_in = {}
    \/ sr.categories \cap when.category_not_in # {}

(* _matches returns False at the first predicate that fails.               *)
Fails(when, sr) ==
    \/ when.groups_include # {} /\ sr.groups \cap when.groups_include = {}
    \/ sr.groups \cap when.groups_exclude # {}
    \/ sr.score < when.sensitivity_score_gte
    \/ sr.score >= when.sensitivity_score_lt
    \/ when.category_in # {} /\ sr.categories \cap when.category_in = {}
    \/ sr.categories \cap when.category_not_in # {}

(* Nothing is returned after the loop: a mutant.                           *)
TryRuleOnly ==
    /\ pc = "rules"
    /\ IF at > Len(router.policy.rules) THEN pc' = "guard" /\ UNCHANGED <<decided, at>>
       ELSE IF Fails(router.policy.rules[at].when, found)
       THEN at' = at + 1 /\ UNCHANGED <<decided, pc>>
       ELSE decided' = DecisionOf(router.policy.rules[at]) /\ pc' = "guard" /\ UNCHANGED at
    /\ UNCHANGED <<world, cmd, router, tools, query, todo, best, found, target, sent, result>>

(* One turn of the loop of Policy.evaluate, or its end.                    *)
TryRule ==
    /\ pc = "rules"
    /\ IF at > Len(router.policy.rules)
       THEN decided' = DefaultDecision(router.policy) /\ pc' = "guard" /\ UNCHANGED at
       ELSE IF Fails(router.policy.rules[at].when, found)
       THEN at' = at + 1 /\ UNCHANGED <<decided, pc>>
       ELSE decided' = DecisionOf(router.policy.rules[at]) /\ pc' = "guard" /\ UNCHANGED at
    /\ UNCHANGED <<world, cmd, router, tools, query, todo, best, found, target, sent, result>>

Guard ==
    /\ pc = "guard"
    /\ \/ DeniesCloud(router, decided, found.groups) /\ Raise("CloudRouteDeniedError")
       \/ ~DeniesCloud(router, decided, found.groups) /\ pc' = "decided" /\ UNCHANGED result
    /\ UNCHANGED <<world, cmd, router, tools, call, target, sent>>

-----------------------------------------------------------------------------
(* What is done with a decision.                                           *)

Shown(text) == [decision |-> decided, text |-> text]

(* A command prints the decision, or goes on to dispatch.                  *)
Deliver ==
    /\ pc = "decided" /\ ~IsServer
    /\ IF cmd.verb = "route" /\ cmd.execute
       THEN pc' = "resolve" /\ UNCHANGED <<shown, status>>
       ELSE shown' = Shown(None) /\ Exit("exit 0")
    /\ UNCHANGED <<world, cmd, router, tools, call, target, sent, error>>

(* A tool returns the decision, and on demand the text that would go out:  *)
(* the prompt, or what Shield.redact makes of it, which may raise.         *)
Return ==
    /\ pc = "decided" /\ IsServer
    /\ \/ /\ shown' = Shown(IF ~query.outgoing THEN None
                            ELSE IF decided.transform = None THEN "prompt" ELSE "redacted")
          /\ pc' = "serving" /\ UNCHANGED <<error, status>>
       \/ query.outgoing /\ decided.transform # None /\ Raise("ShieldError")
    /\ UNCHANGED <<world, cmd, router, tools, call, target, sent>>

(* The first backend that can be built: a mutant.                          *)
ChosenThatBuilds(backends, i) ==
    CanBuild(backends[i]) /\ \A j \in 1..(i - 1) : ~CanBuild(backends[j])

(* The first backend with the decision's id.                               *)
Chosen(backends, i) ==
    /\ backends[i].id = decided.backend_id
    /\ \A j \in 1..(i - 1) : backends[j].id # decided.backend_id

(* _dispatch reads router.yaml again: the given one, or the environment's. *)
Resolve ==
    /\ pc = "resolve"
    /\ \/ ~(cmd.config \/ cmd.env) /\ Exit("exit 2") /\ UNCHANGED <<target, shown, error>>
       \/ /\ cmd.config \/ cmd.env
          /\ IF files.config = None THEN Raise("ConfigError") /\ UNCHANGED target
             ELSE IF ~files.config.strict THEN Raise("ConfigError") /\ UNCHANGED target
             ELSE /\ config' = files.config.backends
                  /\ \/ /\ \E i \in DOMAIN config' :
                             Chosen(config', i) /\ backend' = config'[i]
                        /\ pc' = "build" /\ UNCHANGED status
                     \/ /\ \A b \in ToSet(config') : b.id # decided.backend_id
                        /\ Exit("exit 2") /\ UNCHANGED backend
                  /\ UNCHANGED <<shown, error>>
    /\ UNCHANGED <<world, cmd, router, tools, call, sent>>

BuildAdapter ==
    /\ pc = "build"
    /\ \/ CanBuild(backend) /\ pc' = "chat" /\ UNCHANGED result
       \/ ~CanBuild(backend)
          /\ Raise(IF ResolvesApiKey(backend) THEN "AdapterError" ELSE "ConfigError")
    /\ UNCHANGED <<world, cmd, router, tools, call, target, sent>>

(* adapter.chat gets the prompt as it was read.                            *)
Send ==
    /\ pc = "chat"
    /\ \/ /\ sent' = Append(sent, [id |-> backend.id, kind |-> backend.kind,
                                   host |-> HostOf(backend), text |-> "prompt"])
          /\ pc' = "wait" /\ UNCHANGED result
       \/ Raise("DispatchError") /\ UNCHANGED sent
    /\ UNCHANGED <<world, cmd, router, tools, call, target>>

(* A failed dispatch is printed like an answer: a mutant.                  *)
ReceiveAnyhow ==
    /\ pc = "wait"
    /\ \/ shown' = Shown("output") /\ UNCHANGED error
       \/ shown' = None /\ error' = "DispatchError"
    /\ Exit("exit 0")
    /\ UNCHANGED <<world, cmd, router, tools, call, target, sent>>

(* The provider answers, or the call fails or times out.                   *)
Receive ==
    /\ pc = "wait"
    /\ \/ shown' = Shown("output") /\ Exit("exit 0") /\ UNCHANGED error
       \/ Raise("DispatchError")
    /\ UNCHANGED <<world, cmd, router, tools, call, target, sent>>

-----------------------------------------------------------------------------

(* Somebody saves another version of one of the files.                     *)
Edit ==
    /\ edits < MaxEdits /\ pc \notin {"idle", "done"}
    /\ edits' = edits + 1
    /\ \/ \E c \in Configs : files' = [files EXCEPT !.config = c]
       \/ \E p \in Policies : files' = [files EXCEPT !.policy = p]
    /\ UNCHANGED <<cmd, pc, router, tools, call, target, sent, result>>

StopServer ==
    /\ pc = "serving"
    /\ Exit("exit 0")
    /\ UNCHANGED <<world, cmd, router, tools, call, target, sent, shown, error>>

Exited == pc = "done" /\ UNCHANGED vars

Init ==
    /\ files \in [config : Configs, policy : Policies] /\ edits = 0
    /\ cmd = None /\ pc = "idle" /\ router = None /\ tools = 0
    /\ query = None /\ todo = {} /\ best = None
    /\ found = None /\ at = 1 /\ decided = None
    /\ config = None /\ backend = None /\ sent = <<>>
    /\ shown = None /\ error = None /\ status = None

Step ==
    \/ LoadConfig \/ LoadPolicy \/ NothingToLoad \/ ReadPrompt
    \/ Enter \/ LookUpPrice \/ CheckBudget \/ Analyze \/ TryRule \/ Guard
    \/ Deliver \/ Return \/ Resolve \/ BuildAdapter \/ Send \/ Receive

Next == Start \/ Step \/ CallTool \/ StopServer \/ Edit \/ Exited

(* A process that runs is scheduled; Shield answers, and an adapter's call *)
(* ends (its client has a timeout).  Nobody has to call a tool.            *)
Fairness == WF_vars(Step)

Spec == Init /\ [][Next]_vars /\ Fairness

-----------------------------------------------------------------------------
(* Properties.                                                             *)

Evaluated == {"guard", "decided", "resolve", "build", "chat", "wait"}

Routing == {"enter", "price", "shield", "rules"}

(* Every variable holds values of the kind the code puts there; who is     *)
(* past the loop of evaluate has a decision.                               *)
TypeOK ==
    /\ files \in [config : Configs, policy : Policies] /\ edits \in 0..MaxEdits
    /\ cmd \in Commands \cup {None}
    /\ pc \in {"idle", "load", "prompt", "serving", "done"} \cup Routing \cup Evaluated
    /\ router \in RouterObject \cup {None}
    /\ query \in Query \cup {None} /\ tools \in 0..MaxTools
    /\ todo \subseteq DOMAIN PriceTable /\ best \in DOMAIN PriceTable \cup {None}
    /\ found \in Analyses \cup {None} /\ at \in Nat \ {0}
    /\ decided \in RouteDecision \cup {None} /\ (pc \in Evaluated => decided # None)
    /\ \A i \in DOMAIN sent :
          sent[i].kind \in LocalKinds \cup CloudKinds /\ sent[i].text \in {"prompt", "redacted"}
    /\ shown \in Report \cup {None}
    /\ error \in Errors \cup {None}
    /\ status \in Statuses \cup {None}

(* The loop of Policy.evaluate, which leaves _matches at the first         *)
(* predicate that fails and itself at the first rule that matches, ends    *)
(* with the decision of the policy that was loaded, whatever happened to   *)
(* the file since; the bounds of the score are those of Matches.           *)
EvaluatesFirstMatch ==
    pc \in Evaluated => decided = Evaluate(router.policy, found)

(* The ceiling that is meant: the one that was given, also when it is 0,   *)
(* else the policy's; a dry-run has none.                                  *)
CeilingMeant ==
    IF cmd.verb = "dry-run" THEN None
    ELSE IF cmd.verb = "route" /\ cmd.budget_ceiling # None THEN cmd.budget_ceiling
    ELSE EffectiveCeiling(router.policy)

TooDear == CeilingMeant # None /\ Exceeds(EstimateCost(Model, query.length), CeilingMeant)

(* The exact cost is above, or below, the ceiling by more than rounding    *)
(* can make up for.                                                        *)
ClearlyTooDear ==
    /\ CeilingMeant \notin {None, NaN}
    /\ LET price == PricePerM(Model)
       IN  2 * Exact(price, query.length)
             > 2 * CeilingMeant * Scale + Slack(price, query.length)

ClearlyWithin ==
    /\ CeilingMeant \notin {None, NaN}
    /\ LET price == PricePerM(Model)
       IN  2 * Exact(price, query.length) + Slack(price, query.length)
             <= 2 * CeilingMeant * Scale

(* A call is refused for its cost if and only if the estimate, rounded as  *)
(* it is, at the price of the longest known prefix of its model, is more   *)
(* than the ceiling that is meant.  A call whose exact cost is clearly     *)
(* over the ceiling never gets through and one clearly within it is never  *)
(* refused: only next to the ceiling does the rounding decide.  A ceiling  *)
(* of NaN refuses nothing (Router.route, estimate_cost).                   *)
BudgetKept ==
    /\ error = "BudgetCeilingExceeded" => TooDear /\ ~ClearlyWithin
    /\ pc \in {"shield", "rules"} \cup Evaluated => ~TooDear /\ ~ClearlyTooDear

(* The Router was made from the backends that _dispatch reads, and no id   *)
(* is listed twice.                                                        *)
SameBackends == router.backends = Declared(config)

UniqueIds == \A i, j \in DOMAIN config : config[i].id = config[j].id => i = j

(* The deny_cloud promise, from the prompt to the socket.  What is sent    *)
(* goes to a backend with the id of the decision; if the prompt has a      *)
(* denied group it goes to a loopback address, provided that nothing but   *)
(* the code of route and _dispatch decides it (SameBackends, UniqueIds).   *)
DispatchStaysLocal ==
    \A i \in DOMAIN sent :
        /\ sent[i].id = decided.backend_id
        /\ found.groups \cap DeniedGroups(router.policy) # {} /\ SameBackends /\ UniqueIds
              => sent[i].kind \in LocalKinds /\ sent[i].host \in LoopbackHosts

(* The exit status and the output tell what happened.  Status 0 of a       *)
(* routing command: the decision that is printed is the policy's, and the  *)
(* prompt was sent, once, if and only if --execute asked for it.  Status   *)
(* 2: nothing was sent.  Only route --execute sends, a tool returns text   *)
(* only on demand, and then what the decision has cleared.                 *)
StatusTellsTheTruth ==
    /\ status = "exit 0" /\ cmd.verb \in {"route", "dry-run"} =>
          /\ shown # None /\ shown.decision = Evaluate(router.policy, found)
          /\ sent # <<>> <=> cmd.verb = "route" /\ cmd.execute
    /\ status \in {"exit 1", "exit 2", "traceback"} => shown = None
    /\ status = "exit 2" => sent = <<>>
    /\ sent # <<>> => cmd.verb = "route" /\ cmd.execute /\ Len(sent) = 1
    /\ shown # None => shown.text \in
          CASE IsServer -> {IF ~query.outgoing THEN None
                            ELSE IF decided.transform = None THEN "prompt" ELSE "redacted"}
            [] OTHER -> {IF sent = <<>> THEN None ELSE "output"}

(* A command ends, and a tool's call returns.                              *)
CallEnds == pc \notin {"idle", "serving", "done"} ~> pc \in {"serving", "done"}

(* docs: shield_redact "marks the decision so the dispatcher applies       *)
(* Shield.redact() before sending" (POLICY_REFERENCE.md:119).              *)
TransformApplied ==
    \A i \in DOMAIN sent : decided.transform = "shield_redact" => sent[i].text = "redacted"

=============================================================================
