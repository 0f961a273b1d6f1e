------------------------------- MODULE Router -------------------------------
(***************************************************************************)
(* The request path of router.py: concurrent calls of Router.route and     *)
(* Router.classify on one Router object.                                   *)
(*                                                                         *)
(* Each call runs in a thread of its own.  The only state the calls share  *)
(* is self._shield, filled lazily and without a lock by _ensure_shield, and *)
(* the audit sink.  An action is a stretch of a call between two points    *)
(* where another thread can be seen or can see it, or where the call can   *)
(* fail: so the check of self._shield, the construction of a Shield, the   *)
(* assignment and the read that follows it are four actions.               *)
(*                                                                         *)
(* External: what Shield reports (any member of Analyses, or an exception) *)
(* and whether the sink takes the row (safe_emit swallows its exceptions). *)
(***************************************************************************)
EXTENDS Locality, Cost

CONSTANTS
    Calls,          \* the calls of route and classify, one per thread
    Interruptible,  \* the calls in the main thread, where Ctrl-C is raised
    Requests,       \* the arguments the calls are made with
    Routers,        \* the Router objects __init__ can build
    Analyses,       \* what Shield.analyze can report
    Unset           \* the default of the budget_ceiling argument

VARIABLES
    router,       \* the Router's fixed attributes
    shield,       \* self._shield: None or the number of an instance
    built,        \* how many Shields the calls have constructed
    pc,           \* where each call is
    request,      \* its arguments
    mine,         \* the Shield it constructed in _ensure_shield
    using,        \* the Shield _ensure_shield gave it
    found,        \* projection and entities: what Shield reported
    decided,      \* the local decision
    error,        \* the local error: the class name of what was raised
    interrupted,  \* a KeyboardInterrupt is on its way out of the call
    outcome,      \* how the call ended
    log,          \* the rows the sink took, in order
    dropped       \* the calls whose row the sink failed on

callVars == <<pc, request, mine, using, found, decided, error, interrupted, outcome>>
vars == <<router, shield, built, callVars, log, dropped>>

-----------------------------------------------------------------------------
(* Data.                                                                   *)

Kinds == {"route", "classify"}

Request ==
    [kind : Kinds, model : Seq(STRING) \cup {None}, length : Nat,
     budget_ceiling : Int \cup {NaN, None, Unset}, encodable : BOOLEAN]

ErrorNames ==
    {"UnicodeEncodeError", "BudgetCeilingExceeded", "ShieldUnavailableError",
     "ShieldError", "AnalysisError", "CloudRouteDeniedError"}

(* What a call may record and how it may end.                              *)
AuditRow ==
    [call : Calls, groups_found : SUBSET Groups,
     route_decision : Backends \cup {None}, rule_id : RuleIds \cup {None},
     transform : Transforms, backend_is_local : {"local", "cloud", "unknown"},
     error : ErrorNames \cup {None}]

Pending == [kind |-> "pending", value |-> None]
Returned(value) == [kind |-> "returned", value |-> value]
Raised(name) == [kind |-> "raised", value |-> name]
Interrupted == [kind |-> "interrupted", value |-> None]

Outcome ==
    {Pending, Interrupted}
        \cup {Returned(value) : value \in RouteDecision \cup ShieldResult}
        \cup {Raised(name) : name \in ErrorNames}

ASSUME RouterAssumption ==
    /\ Interruptible \subseteq Calls
    /\ Requests \subseteq Request /\ None \notin Requests
    /\ \A r \in Routers : r \in RouterObject
    /\ Analyses \subseteq ShieldResult
    /\ None \notin Int /\ NaN \notin Int /\ Unset \notin Int
    /\ NaN # None /\ Unset # None /\ Unset # NaN
    /\ None \notin ErrorNames /\ None \notin Backends
    /\ None \notin ShieldResult /\ None \notin RouteDecision

-----------------------------------------------------------------------------
(* The pure helpers of the request path.                                   *)

CeilingOf(c) ==
    IF request[c].budget_ceiling = Unset
    THEN EffectiveCeiling(router.policy)
    ELSE request[c].budget_ceiling

CostOf(c) ==
    EstimateCost(IF request[c].model \in {None, <<>>} THEN <<"unknown">> ELSE request[c].model,
                 request[c].length)

OverBudget(c) == CeilingOf(c) # None /\ Exceeds(CostOf(c), CeilingOf(c))

NoDecision == [backend_id |-> None, rule_id |-> None, transform |-> None]

LocalDecision(c) == IF decided[c] = None THEN NoDecision ELSE decided[c]

LocalGroups(c) == IF found[c] = None THEN {} ELSE found[c].groups

(* The row with the locality the name hints at: the mutant of RowOf.       *)
RowOfHinted(c) ==
    [call             |-> c,
     groups_found     |-> LocalGroups(c),
     route_decision   |-> LocalDecision(c).backend_id,
     rule_id          |-> LocalDecision(c).rule_id,
     transform        |-> LocalDecision(c).transform,
     backend_is_local |-> IF LocalDecision(c).backend_id \in LocalHinted
                          THEN "local" ELSE "unknown",
     error            |-> error[c]]

(* The audit row _emit_audit builds from the call's locals.                *)
RowOf(c) ==
    [call             |-> c,
     groups_found     |-> LocalGroups(c),
     route_decision   |-> LocalDecision(c).backend_id,
     rule_id          |-> LocalDecision(c).rule_id,
     transform        |-> LocalDecision(c).transform,
     backend_is_local |-> BackendIsLocal(router, LocalDecision(c).backend_id),
     error            |-> error[c]]

-----------------------------------------------------------------------------
(* The steps of a call.                                                    *)

Goto(c, label) == pc' = [pc EXCEPT ![c] = label]

End(c, how) == Goto(c, "done") /\ outcome' = [outcome EXCEPT ![c] = how]

(* An Exception: route's handler notes its class and goes on to the        *)
(* finally block; classify has no handler.                                 *)
Raise(c, name) ==
    IF request[c].kind = "route"
    THEN /\ error' = [error EXCEPT ![c] = name]
         /\ Goto(c, "emit")
         /\ UNCHANGED outcome
    ELSE /\ End(c, Raised(name))
         /\ UNCHANGED error

Invoke(c) ==
    /\ pc[c] = "idle"
    /\ \E req \in Requests :
          /\ request' = [request EXCEPT ![c] = req]
          /\ Goto(c, IF req.kind = "route" THEN "enter" ELSE "ensure")
    /\ UNCHANGED <<router, shield, built, mine, using, found, decided, error,
                   interrupted, outcome, log, dropped>>

(* Up to the try: the fingerprint of the prompt encodes it, which a lone   *)
(* surrogate makes raise.                                                  *)
Enter(c) ==
    /\ pc[c] = "enter"
    /\ \/ /\ request[c].encodable
          /\ Goto(c, "budget")
          /\ UNCHANGED outcome
       \/ /\ ~ request[c].encodable
          /\ End(c, Raised("UnicodeEncodeError"))
    /\ UNCHANGED <<router, shield, built, request, mine, using, found, decided,
                   error, interrupted, log, dropped>>

(* No check once there is a Shield: the mutant of CheckBudget.             *)
CheckBudgetOnce(c) ==
    /\ pc[c] = "budget"
    /\ \/ /\ OverBudget(c) /\ shield = None
          /\ Raise(c, "BudgetCeilingExceeded")
       \/ /\ ~ OverBudget(c) \/ shield # None
          /\ Goto(c, "ensure")
          /\ UNCHANGED <<error, outcome>>
    /\ UNCHANGED <<router, shield, built, request, mine, using, found, decided,
                   interrupted, log, dropped>>

CheckBudget(c) ==
    /\ pc[c] = "budget"
    /\ \/ /\ OverBudget(c)
          /\ Raise(c, "BudgetCeilingExceeded")
       \/ /\ ~ OverBudget(c)
          /\ Goto(c, "ensure")
          /\ UNCHANGED <<error, outcome>>
    /\ UNCHANGED <<router, shield, built, request, mine, using, found, decided,
                   interrupted, log, dropped>>

(* The mutants of CheckShield: a call that finds another one constructing  *)
(* goes on without waiting, and a cache that is never used.                *)
CheckShieldOnce(c) ==
    /\ pc[c] = "ensure"
    /\ Goto(c, IF shield = None /\ (\A d \in Calls : pc[d] # "construct")
               THEN "construct" ELSE "read")
    /\ UNCHANGED <<router, shield, built, request, mine, using, found, decided,
                   error, interrupted, outcome, log, dropped>>

CheckShieldNever(c) ==
    /\ pc[c] = "ensure"
    /\ Goto(c, "construct")
    /\ UNCHANGED <<router, shield, built, request, mine, using, found, decided,
                   error, interrupted, outcome, log, dropped>>

(* _ensure_shield: check, construct, assign, and read again to return.     *)
CheckShield(c) ==
    /\ pc[c] = "ensure"
    /\ Goto(c, IF shield = None THEN "construct" ELSE "read")
    /\ UNCHANGED <<router, shield, built, request, mine, using, found, decided,
                   error, interrupted, outcome, log, dropped>>

(* The import fails, Shield() raises, or there is one more Shield.         *)
ConstructShield(c) ==
    /\ pc[c] = "construct"
    /\ \/ /\ built' = built + 1
          /\ mine' = [mine EXCEPT ![c] = built + 1]
          /\ Goto(c, "assign")
          /\ UNCHANGED <<error, outcome>>
       \/ /\ \E name \in {"ShieldUnavailableError", "ShieldError"} : Raise(c, name)
          /\ UNCHANGED <<built, mine>>
    /\ UNCHANGED <<router, shield, request, using, found, decided, interrupted,
                   log, dropped>>

AssignShield(c) ==
    /\ pc[c] = "assign"
    /\ shield' = mine[c]
    /\ Goto(c, "read")
    /\ UNCHANGED <<router, built, request, mine, using, found, decided, error,
                   interrupted, outcome, log, dropped>>

ReadShield(c) ==
    /\ pc[c] = "read"
    /\ using' = [using EXCEPT ![c] = shield]
    /\ Goto(c, "analyze")
    /\ UNCHANGED <<router, shield, built, request, mine, found, decided, error,
                   interrupted, outcome, log, dropped>>

(* Shield.analyze and _project: classify returns the projection.           *)
Analyze(c) ==
    /\ pc[c] = "analyze"
    /\ \/ \E result \in Analyses :
            /\ found' = [found EXCEPT ![c] = result]
            /\ IF request[c].kind = "route"
               THEN Goto(c, "evaluate") /\ UNCHANGED outcome
               ELSE End(c, Returned(result))
            /\ UNCHANGED error
       \/ /\ Raise(c, "AnalysisError")
          /\ UNCHANGED found
    /\ UNCHANGED <<router, shield, built, request, mine, using, decided,
                   interrupted, log, dropped>>

EvaluatePolicy(c) ==
    /\ pc[c] = "evaluate"
    /\ decided' = [decided EXCEPT ![c] = Evaluate(router.policy, found[c])]
    /\ Goto(c, "guard")
    /\ UNCHANGED <<router, shield, built, request, mine, using, found, error,
                   interrupted, outcome, log, dropped>>

EnforceDenyCloud(c) ==
    /\ pc[c] = "guard"
    /\ \/ /\ DeniesCloud(router, decided[c], found[c].groups)
          /\ Raise(c, "CloudRouteDeniedError")
       \/ /\ ~ DeniesCloud(router, decided[c], found[c].groups)
          /\ Goto(c, "emit")
          /\ UNCHANGED <<error, outcome>>
    /\ UNCHANGED <<router, shield, built, request, mine, using, found, decided,
                   interrupted, log, dropped>>

(* The finally block: safe_emit hands the row to the sink, whose failure   *)
(* only drops the row, and the call ends as it was going to.               *)
EndSwallowed(c) ==    \* a return in the finally block: the mutant
    Returned(decided[c])

EndOfRoute(c) ==
    IF interrupted[c] THEN Interrupted
    ELSE IF error[c] # None THEN Raised(error[c])
    ELSE Returned(decided[c])

(* The mutants of EmitAudit: a failing sink is tried again with the row    *)
(* already written, and only a call without an error is recorded.          *)
EmitAuditRetried(c) ==
    /\ pc[c] = "emit"
    /\ log' = Append(log, RowOf(c))
    /\ \/ End(c, EndOfRoute(c))
       \/ UNCHANGED <<pc, outcome>>
    /\ UNCHANGED <<router, shield, built, request, mine, using, found, decided,
                   error, interrupted, dropped>>

EmitAuditOnSuccess(c) ==
    /\ pc[c] = "emit"
    /\ log' = IF error[c] = None THEN Append(log, RowOf(c)) ELSE log
    /\ End(c, EndOfRoute(c))
    /\ UNCHANGED <<router, shield, built, request, mine, using, found, decided,
                   error, interrupted, dropped>>

EmitAudit(c) ==
    /\ pc[c] = "emit"
    /\ \/ log' = Append(log, RowOf(c)) /\ UNCHANGED dropped
       \/ dropped' = dropped \cup {c} /\ UNCHANGED log
    /\ End(c, EndOfRoute(c))
    /\ UNCHANGED <<router, shield, built, request, mine, using, found, decided,
                   error, interrupted>>

Try == {"budget", "ensure", "construct", "assign", "read", "analyze", "evaluate", "guard"}

(* A KeyboardInterrupt is not an Exception: the handler of route does not  *)
(* see it, its finally block does.  Before the try, and in classify,       *)
(* nothing stops it; in the finally block it cuts the emission short.      *)
Interrupt(c) ==
    /\ c \in Interruptible
    /\ \/ /\ pc[c] \in Try /\ request[c].kind = "route"
          /\ interrupted' = [interrupted EXCEPT ![c] = TRUE]
          /\ Goto(c, "emit")
          /\ UNCHANGED <<outcome, log>>
       \/ /\ pc[c] \in Try \cup {"enter"}
          /\ pc[c] = "enter" \/ request[c].kind = "classify"
          /\ End(c, Interrupted)
          /\ UNCHANGED <<interrupted, log>>
       \/ /\ pc[c] = "emit"
          /\ End(c, Interrupted)
          /\ log' \in {log, Append(log, RowOf(c))}
          /\ UNCHANGED interrupted
    /\ UNCHANGED <<router, shield, built, request, mine, using, found, decided,
                   error, dropped>>

Step(c) ==
    \/ Enter(c) \/ CheckBudget(c)
    \/ CheckShield(c) \/ ConstructShield(c) \/ AssignShield(c) \/ ReadShield(c)
    \/ Analyze(c) \/ EvaluatePolicy(c) \/ EnforceDenyCloud(c)
    \/ EmitAudit(c)

(* All calls have ended: the finite program stops here.                    *)
AllDone == (\A c \in Calls : pc[c] = "done") /\ UNCHANGED vars

Init ==
    /\ router \in Routers
    /\ shield \in {None, 0}     \* lazy, or given to __init__
    /\ built = 0
    /\ pc = [c \in Calls |-> "idle"]
    /\ request = [c \in Calls |-> None]
    /\ mine = [c \in Calls |-> None]
    /\ using = [c \in Calls |-> None]
    /\ found = [c \in Calls |-> None]
    /\ decided = [c \in Calls |-> None]
    /\ error = [c \in Calls |-> None]
    /\ interrupted = [c \in Calls |-> FALSE]
    /\ outcome = [c \in Calls |-> Pending]
    /\ log = <<>>
    /\ dropped = {}

Next == (\E c \in Calls : Invoke(c) \/ Step(c) \/ Interrupt(c)) \/ AllDone

(* A thread that runs is scheduled, and the Shield it calls answers.       *)
Fairness == \A c \in Calls : WF_vars(Step(c))

Spec == Init /\ [][Next]_vars /\ Fairness

-----------------------------------------------------------------------------
(* Properties.                                                             *)

HasRow(c) == \E i \in DOMAIN log : log[i].call = c

Ended(c) == pc[c] = "done" /\ request[c].kind = "route"

Hit(c) == found[c].groups \cap DeniedGroups(router.policy) # {}

(* Every variable holds values of the kind router.py puts there.           *)
TypeOK ==
    /\ router \in Routers
    /\ built \in Nat
    /\ shield \in Nat \cup {None}
    /\ pc \in [Calls -> Try \cup {"idle", "enter", "emit", "done"}]
    /\ request \in [Calls -> Requests \cup {None}]
    /\ mine \in [Calls -> Nat \cup {None}]
    /\ using \in [Calls -> Nat \cup {None}]
    /\ found \in [Calls -> Analyses \cup {None}]
    /\ decided \in [Calls -> RouteDecision \cup {None}]
    /\ error \in [Calls -> ErrorNames \cup {None}]
    /\ interrupted \in [Calls -> BOOLEAN]
    /\ outcome \in [Calls -> Outcome]
    /\ log \in Seq(AuditRow)
    /\ dropped \subseteq Calls

(* One row per route call: no call has two, only a route call that is over *)
(* has one, and one that returned or raised from inside the try has handed *)
(* exactly one row to the sink, which kept it or failed (the try / finally *)
(* of Router.route).                                                       *)
OneRowPerCall ==
    /\ \A i, j \in DOMAIN log : log[i].call = log[j].call => i = j
    /\ \A c \in Calls : HasRow(c) \/ c \in dropped => Ended(c)
    /\ \A c \in Calls : ~ (HasRow(c) /\ c \in dropped)
    /\ \A c \in Calls :
         Ended(c) /\ outcome[c] \notin {Interrupted, Raised("UnicodeEncodeError")}
            => HasRow(c) \/ c \in dropped

(* The log tells what the caller saw: a call that returned a decision has  *)
(* left a row with that decision and no error, one that raised a row with  *)
(* that class name, whatever the other calls did meanwhile (_emit_audit).  *)
RowTellsTheTruth ==
    \A i \in DOMAIN log : LET row == log[i] IN LET how == outcome[row.call] IN
        /\ how.kind \in {"returned", "raised", "interrupted"}
        /\ how.kind = "returned" =>
              /\ row.error = None
              /\ how.value = [backend_id |-> row.route_decision, rule_id |-> row.rule_id,
                              transform |-> row.transform]
              /\ row.groups_found = found[row.call].groups
        /\ how.kind = "raised" => row.error = how.value

(* Denied content stays on the device: a route call for a prompt with a    *)
(* group of deny_cloud never returns a backend known to be a cloud one,    *)
(* and when backends are declared only one known to be local: whatever the *)
(* rules say and wherever the decision came from (_enforce_deny_cloud).    *)
DeniedStaysLocal ==
    \A c \in Calls :
        Ended(c) /\ outcome[c].kind = "returned" /\ Hit(c) =>
            /\ outcome[c].value.backend_id \notin CloudIds(router)
            /\ router.backends # {} => outcome[c].value.backend_id \in LocalIds(router)

(* The same, for a reader who has only the log: a row without an error of  *)
(* a call nobody interrupted, with a denied group, never says "cloud", and *)
(* says "local" when backends are declared.                                *)
LogShowsDeniedLocal ==
    \A i \in DOMAIN log :
        /\ log[i].error = None
        /\ outcome[log[i].call] # Interrupted
        /\ log[i].groups_found \cap DeniedGroups(router.policy) # {}
        => /\ log[i].backend_is_local # "cloud"
           /\ router.backends # {} => log[i].backend_is_local = "local"

(* "A correct policy already routes these groups to a local backend, so    *)
(* the guard never fires in normal operation" (DenyCloudSpec): under a     *)
(* policy that keeps the denied groups local no call is denied.            *)
CorrectPolicyNeverDenied ==
    KeepsDeniedLocal(router.policy, LocalIds(router)) =>
        \A c \in Calls : error[c] # "CloudRouteDeniedError"

(* The budget is settled before anything is spent: a call refused for it   *)
(* has neither constructed nor been given a Shield, and no route call over *)
(* its ceiling gets as far as a Shield (the order of the try of route).    *)
BudgetBeforeShield ==
    \A c \in Calls :
        /\ error[c] = "BudgetCeilingExceeded" => mine[c] = None /\ using[c] = None
        /\ request[c] # None /\ (mine[c] # None \/ using[c] # None) =>
              (request[c].kind = "route" => ~ OverBudget(c))

(* However the calls race in _ensure_shield, each of them analyzes with a  *)
(* Shield whose construction has finished, never with None.                *)
ShieldUsable ==
    \A c \in Calls : pc[c] = "analyze" => using[c] # None /\ using[c] \in 0..built

(* A Shield is stored and no call is on its way to store another.          *)
Settled == shield # None /\ \A c \in Calls : pc[c] \notin {"construct", "assign"}

(* The race in _ensure_shield dies out: from the first moment the Router   *)
(* is settled it stays so, with the Shield it has.                         *)
ShieldSettles == [][Settled => Settled' /\ shield' = shield]_vars

(* A call that got past the fingerprint hands its row to the sink, unless  *)
(* Ctrl-C cuts it short (finally, and safe_emit that never raises).        *)
EveryRouteRecorded ==
    \A c \in Calls :
        pc[c] = "budget" ~> (HasRow(c) \/ c \in dropped \/ outcome[c] = Interrupted)

(* docs: the row "is emitted once per Router.route call, including on      *)
(* error paths" (audit/base.py:4-5).                                       *)
EveryRouteHasRow ==
    \A c \in Calls :
        Ended(c) /\ outcome[c] # Interrupted => HasRow(c) \/ c \in dropped

=============================================================================
