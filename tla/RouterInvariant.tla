-------------------------- MODULE RouterInvariant --------------------------
(***************************************************************************)
(* The inductive invariant of Router: what is true of a call at each of    *)
(* its steps, of the shared Shield and of the log.  The safety properties  *)
(* of Router speak of calls that are over; the clauses here say what a     *)
(* call carries with it on its way there.                                  *)
(***************************************************************************)
EXTENDS Router

(* Which locals are set where, and that the end of a call is its only      *)
(* outcome.                                                                *)
PhaseOK(c) ==
    /\ pc[c] = "idle" <=> request[c] = None
    /\ pc[c] \in {"enter", "budget", "evaluate", "guard", "emit"} =>
          request[c].kind = "route"
    /\ error[c] # None \/ interrupted[c] => pc[c] \in {"emit", "done"}
    /\ outcome[c] = Pending <=> pc[c] # "done"
    /\ pc[c] \in {"idle", "enter", "budget"} => mine[c] = None /\ using[c] = None
    /\ pc[c] \in {"evaluate", "guard"} => found[c] # None

(* No call over its budget is past the check, and one that was refused     *)
(* left the Shield alone.                                                  *)
BudgetOK(c) ==
    /\ error[c] = "BudgetCeilingExceeded" => mine[c] = None /\ using[c] = None
    /\ pc[c] \in Try \ {"budget"} \/ mine[c] # None \/ using[c] # None =>
          (request[c].kind = "route" => ~ OverBudget(c))

(* The Shields the calls hold exist, and a call that needs one has one.    *)
ShieldOK ==
    /\ shield # None => shield \in 0..built
    /\ \A c \in Calls :
          /\ mine[c] # None => mine[c] \in 0..built
          /\ using[c] # None => using[c] \in 0..built
          /\ pc[c] = "assign" => mine[c] # None
          /\ pc[c] = "read" => shield # None
          /\ pc[c] = "analyze" => using[c] # None

(* What the guard let pass.                                                *)
Clean(c) ==
    /\ found[c] # None
    /\ decided[c] # None
    /\ ~ DeniesCloud(router, decided[c], found[c].groups)

(* The decision is the policy's, and a call that is about to return one,   *)
(* or did, has passed the guard.                                           *)
DecisionOK(c) ==
    /\ pc[c] = "guard" => decided[c] = Evaluate(router.policy, found[c])
    /\ error[c] = "CloudRouteDeniedError" =>
          /\ found[c] # None
          /\ decided[c] = Evaluate(router.policy, found[c])
          /\ DeniesCloud(router, decided[c], found[c].groups)
    /\ pc[c] = "emit" /\ ~ interrupted[c] /\ error[c] = None => Clean(c)

(* How a route call may have ended.                                        *)
EndOK(c) ==
    Ended(c) =>
        \/ outcome[c] = Interrupted
        \/ outcome[c] = Raised("UnicodeEncodeError") /\ ~ HasRow(c)
        \/ /\ outcome[c] = EndOfRoute(c)
           /\ HasRow(c) \/ c \in dropped
           /\ ~ interrupted[c] /\ error[c] = None => Clean(c)

(* The rows are those of calls that are over, made from locals that no     *)
(* longer change, one for each.                                            *)
LogOK ==
    /\ \A i \in DOMAIN log, c \in Calls :
          log[i].call = c => Ended(c) /\ log[i] = RowOf(c)
    /\ \A i, j \in DOMAIN log : log[i].call = log[j].call => i = j
    /\ \A c \in dropped : Ended(c) /\ ~ HasRow(c)

IInv ==
    /\ TypeOK
    /\ ShieldOK
    /\ LogOK
    /\ \A c \in Calls : PhaseOK(c) /\ BudgetOK(c) /\ DecisionOK(c) /\ EndOK(c)

=============================================================================
