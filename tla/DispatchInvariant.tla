------------------------- MODULE DispatchInvariant -------------------------
(***************************************************************************)
(* The inductive invariant of Dispatch: what a process holds at each of    *)
(* its steps, what the two loops have established when they are part of    *)
(* the way, and what is known of a prompt that has left.                   *)
(***************************************************************************)
EXTENDS Dispatch

Dispatching == {"build", "chat", "wait"}

(* Which variables are set where.                                          *)
ProcessOK ==
    /\ pc = "idle" <=> cmd = None
    /\ pc = "idle" => router = None /\ query = None
    /\ pc \in Routing \cup Evaluated \cup {"serving"} => router # None
    /\ pc \in Routing \cup Evaluated => query # None
    /\ pc = "serving" => IsServer
    /\ pc = "load" /\ cmd.verb = "dry-run" => query # None
    /\ pc = "prompt" =>
          /\ cmd.verb \in {"route", "dry-run"}
          /\ cmd.verb = "route" => router # None
    /\ pc \in {"resolve"} \cup Dispatching => cmd.verb = "route" /\ cmd.execute
    /\ error # None \/ shown # None => pc \in {"serving", "done"}
    /\ status # None <=> pc = "done"

(* The ceiling of a query is the one its process was asked for.            *)
QueryOK ==
    query # None =>
        query.budget_ceiling =
            IF cmd.verb = "dry-run" THEN None
            ELSE IF cmd.verb = "route" /\ cmd.budget_ceiling # None THEN cmd.budget_ceiling
            ELSE Unset

(* What Ask has set up is there when the loops begin.                      *)
AskedOK ==
    /\ pc = "enter" \/ (pc = "load" /\ query # None) => todo = DOMAIN PriceTable /\ best = None
    /\ pc \in {"enter", "price", "shield"} \/ (pc = "load" /\ query # None) => at = 1

(* The scan of the price table: best is the longest of the prefixes seen.  *)
PriceOK ==
    pc = "price" =>
        /\ Ceiling # None
        /\ best # None => best \in KnownPrefixes(Model)
        /\ \A name \in KnownPrefixes(Model) \ todo : best # None /\ Len(name) <= Len(best)

BudgetOK ==
    /\ error = "BudgetCeilingExceeded" => router # None /\ query # None /\ TooDear
    /\ pc \in {"shield", "rules"} \cup Evaluated => ~TooDear

(* The scan of the rules: none of those before rule at matches.            *)
RulesOK ==
    pc = "rules" =>
        /\ found # None
        /\ at <= Len(router.policy.rules) + 1
        /\ \A j \in 1..(at - 1) : ~Matches(router.policy.rules[j].when, found)

DecisionOK ==
    /\ pc \in Evaluated => found # None /\ decided = Evaluate(router.policy, found)
    /\ pc \in Evaluated \ {"guard"} => ~DeniesCloud(router, decided, found.groups)

(* A Router made by a loader knows the declared locality, or none.         *)
LocalityOK ==
    router # None =>
        /\ router.local_known = (router.backends # {})
        /\ router.local_backends = {b.backend_id : b \in {d \in router.backends : d.is_local}}

TargetOK ==
    /\ pc \in Dispatching =>
          /\ config \in {c.backends : c \in Configs \ {None}}
          /\ \E i \in DOMAIN config : backend = config[i]
          /\ backend.id = decided.backend_id
    /\ pc \in {"chat", "wait"} => CanBuild(backend)

(* What is known of a prompt that was sent.                                *)
SentOK ==
    /\ sent # <<>> =>
          /\ pc \in {"wait", "done"}
          /\ cmd.verb = "route" /\ cmd.execute
          /\ router # None /\ found # None /\ decided # None
          /\ ~DeniesCloud(router, decided, found.groups)
          /\ config \in {c.backends : c \in Configs \ {None}}
          /\ \E i \in DOMAIN config : backend = config[i]
          /\ backend.id = decided.backend_id /\ CanBuild(backend)
          /\ sent = <<[id |-> backend.id, kind |-> backend.kind,
                       host |-> HostOf(backend), text |-> "prompt"]>>
    /\ pc = "wait" => sent # <<>>

(* What was shown is the decision on this query, and the end of a command  *)
(* is told by its status.                                                  *)
ShownOK ==
    /\ shown # None =>
          /\ router # None /\ query # None /\ found # None /\ decided # None
          /\ decided = Evaluate(router.policy, found)
          /\ shown = Shown(IF ~IsServer THEN IF sent = <<>> THEN None ELSE "output"
                           ELSE IF ~query.outgoing THEN None
                           ELSE IF decided.transform = None THEN "prompt" ELSE "redacted")
    /\ status = "exit 0" /\ cmd.verb \in {"route", "dry-run"} =>
          /\ shown # None
          /\ sent # <<>> <=> cmd.verb = "route" /\ cmd.execute
    /\ status \in {"exit 1", "exit 2", "traceback"} => shown = None
    /\ status = "exit 2" => sent = <<>>

IInv ==
    /\ TypeOK /\ ProcessOK /\ QueryOK /\ AskedOK /\ PriceOK /\ BudgetOK
    /\ RulesOK /\ DecisionOK /\ LocalityOK /\ TargetOK /\ SentOK /\ ShownOK

=============================================================================
