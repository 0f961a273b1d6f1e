---------------------------- MODULE RouterProofs ----------------------------
(***************************************************************************)
(* The safety properties of Router, proved for every set of calls, every   *)
(* policy and every way to declare backends.  TypeOK first, then the       *)
(* inductive invariant IInv clause by clause, then what follows from it.   *)
(***************************************************************************)
EXTENDS RouterInvariant, PolicyProofs, SequenceTheorems

-----------------------------------------------------------------------------
(* Data.                                                                   *)

LEMMA OutcomeType ==
    /\ Pending \in Outcome /\ Interrupted \in Outcome
    /\ \A value \in RouteDecision \cup ShieldResult : Returned(value) \in Outcome
    /\ \A name \in ErrorNames : Raised(name) \in Outcome
BY DEF Outcome

LEMMA GotoType ==
    ASSUME TypeOK, NEW c \in Calls,
           NEW label \in Try \cup {"idle", "enter", "emit", "done"}, Goto(c, label)
    PROVE  pc' \in [Calls -> Try \cup {"idle", "enter", "emit", "done"}]
BY DEF Goto, TypeOK

LEMMA EndType ==
    ASSUME TypeOK, NEW c \in Calls, NEW how \in Outcome, End(c, how)
    PROVE  /\ pc' \in [Calls -> Try \cup {"idle", "enter", "emit", "done"}]
           /\ outcome' \in [Calls -> Outcome]
<1>1. pc' \in [Calls -> Try \cup {"idle", "enter", "emit", "done"}]
    BY GotoType DEF End
<1>2. outcome' \in [Calls -> Outcome]
    BY DEF End, TypeOK
<1>. QED
    BY <1>1, <1>2

LEMMA RaiseType ==
    ASSUME TypeOK, NEW c \in Calls, NEW name \in ErrorNames, Raise(c, name)
    PROVE  /\ pc' \in [Calls -> Try \cup {"idle", "enter", "emit", "done"}]
           /\ error' \in [Calls -> ErrorNames \cup {None}]
           /\ outcome' \in [Calls -> Outcome]
<1>. USE DEF TypeOK, Goto, End
<1>1. CASE request[c].kind = "route"
    BY <1>1 DEF Raise
<1>2. CASE request[c].kind # "route"
    BY <1>2, OutcomeType DEF Raise
<1>. QED
    BY <1>1, <1>2

(* What _emit_audit builds is a row.                                       *)
LEMMA RowType ==
    ASSUME TypeOK, NEW c \in Calls
    PROVE  RowOf(c) \in AuditRow
<1>1. LocalGroups(c) \in SUBSET Groups
    BY RouterAssumption DEF TypeOK, LocalGroups, ShieldResult
<1>2. /\ LocalDecision(c).backend_id \in Backends \cup {None}
      /\ LocalDecision(c).rule_id \in RuleIds \cup {None}
      /\ LocalDecision(c).transform \in Transforms
    BY DEF TypeOK, LocalDecision, NoDecision, RouteDecision, Transforms
<1>3. BackendIsLocal(router, LocalDecision(c).backend_id) \in {"local", "cloud", "unknown"}
    BY DEF BackendIsLocal
<1>4. error[c] \in ErrorNames \cup {None}
    BY DEF TypeOK
<1>. QED
    BY <1>1, <1>2, <1>3, <1>4 DEF RowOf, AuditRow

(* The steps keep every variable's type.                                   *)
LEMMA TypeInit == Init => TypeOK
BY OutcomeType DEF Init, TypeOK

LEMMA TypeStep == IInv /\ [Next]_vars => TypeOK'
<1>. SUFFICES ASSUME IInv, [Next]_vars PROVE TypeOK'
    OBVIOUS
<1>. TypeOK
    BY DEF IInv
<1>1. ASSUME NEW c \in Calls, Invoke(c) PROVE TypeOK'
    BY <1>1 DEF Invoke, TypeOK, Goto, Try
<1>2. ASSUME NEW c \in Calls, Enter(c) PROVE TypeOK'
    <2>1. /\ pc' \in [Calls -> Try \cup {"idle", "enter", "emit", "done"}]
          /\ outcome' \in [Calls -> Outcome]
        <3>1. CASE Goto(c, "budget") /\ UNCHANGED outcome
            BY <3>1, GotoType DEF TypeOK, Try
        <3>2. CASE End(c, Raised("UnicodeEncodeError"))
            <4>1. Raised("UnicodeEncodeError") \in Outcome
                BY OutcomeType DEF ErrorNames
            <4>. QED
                BY <3>2, <4>1, EndType
        <3>. QED
            BY <1>2, <3>1, <3>2 DEF Enter
    <2>. QED
        BY <1>2, <2>1 DEF Enter, TypeOK
<1>3. ASSUME NEW c \in Calls, CheckBudget(c) PROVE TypeOK'
    BY <1>3, RaiseType DEF CheckBudget, TypeOK, Goto, Try, ErrorNames
<1>4. ASSUME NEW c \in Calls, CheckShield(c) PROVE TypeOK'
    BY <1>4 DEF CheckShield, TypeOK, Goto, Try
<1>5. ASSUME NEW c \in Calls, ConstructShield(c) PROVE TypeOK'
    <2>1. CASE \E name \in {"ShieldUnavailableError", "ShieldError"} : Raise(c, name)
                /\ UNCHANGED <<built, mine>>
        <3>1. PICK name \in ErrorNames : Raise(c, name)
            BY <2>1 DEF ErrorNames
        <3>2. /\ pc' \in [Calls -> Try \cup {"idle", "enter", "emit", "done"}]
              /\ error' \in [Calls -> ErrorNames \cup {None}]
              /\ outcome' \in [Calls -> Outcome]
            BY <3>1, RaiseType
        <3>. QED
            BY <1>5, <2>1, <3>2 DEF ConstructShield, TypeOK
    <2>2. CASE /\ built' = built + 1 /\ mine' = [mine EXCEPT ![c] = built + 1]
               /\ Goto(c, "assign") /\ UNCHANGED <<error, outcome>>
        <3>1. pc' \in [Calls -> Try \cup {"idle", "enter", "emit", "done"}]
            BY <2>2, GotoType DEF Try
        <3>2. built' \in Nat /\ mine' \in [Calls -> Nat \cup {None}]
            BY <2>2 DEF TypeOK
        <3>. QED
            BY <1>5, <2>2, <3>1, <3>2 DEF ConstructShield, TypeOK
    <2>. QED
        BY <1>5, <2>1, <2>2 DEF ConstructShield
<1>6. ASSUME NEW c \in Calls, AssignShield(c) PROVE TypeOK'
    BY <1>6 DEF AssignShield, TypeOK, Goto, Try
<1>7. ASSUME NEW c \in Calls, ReadShield(c) PROVE TypeOK'
    BY <1>7 DEF ReadShield, TypeOK, Goto, Try
<1>8. ASSUME NEW c \in Calls, Analyze(c) PROVE TypeOK'
    <2>1. CASE Raise(c, "AnalysisError") /\ UNCHANGED found
        <3>1. /\ pc' \in [Calls -> Try \cup {"idle", "enter", "emit", "done"}]
              /\ error' \in [Calls -> ErrorNames \cup {None}]
              /\ outcome' \in [Calls -> Outcome]
            BY <2>1, RaiseType DEF ErrorNames
        <3>. QED
            BY <1>8, <2>1, <3>1 DEF Analyze, TypeOK
    <2>2. ASSUME NEW result \in Analyses, found' = [found EXCEPT ![c] = result],
                 UNCHANGED error, request[c].kind = "route",
                 Goto(c, "evaluate") /\ UNCHANGED outcome
          PROVE  TypeOK'
        BY <1>8, <2>2 DEF Analyze, TypeOK, Goto, Try
    <2>3. ASSUME NEW result \in Analyses, found' = [found EXCEPT ![c] = result],
                 UNCHANGED error, End(c, Returned(result))
          PROVE  TypeOK'
        <3>1. Returned(result) \in Outcome
            BY OutcomeType, RouterAssumption
        <3>. QED
            BY <1>8, <2>3, <3>1 DEF Analyze, TypeOK, Goto, End
    <2>. QED
        BY <1>8, <2>1, <2>2, <2>3 DEF Analyze
<1>9. ASSUME NEW c \in Calls, EvaluatePolicy(c) PROVE TypeOK'
    <2>1. router.policy \in PolicySpec
        BY RouterAssumption DEF TypeOK, RouterObject
    <2>2. Evaluate(router.policy, found[c]) \in RouteDecision
        BY <2>1, EvaluateType
    <2>. QED
        BY <1>9, <2>2 DEF EvaluatePolicy, TypeOK, Goto, Try
<1>10. ASSUME NEW c \in Calls, EnforceDenyCloud(c) PROVE TypeOK'
    BY <1>10, RaiseType DEF EnforceDenyCloud, TypeOK, Goto, Try, ErrorNames
<1>11. ASSUME NEW c \in Calls, EmitAudit(c) PROVE TypeOK'
    <2>1. RowOf(c) \in AuditRow
        BY RowType
    <2>2. DecisionOK(c)
        BY DEF IInv
    <2>3. EndOfRoute(c) \in Outcome
        BY <1>11, <2>2, OutcomeType DEF EmitAudit, EndOfRoute, DecisionOK, Clean, TypeOK
    <2>4. log' \in Seq(AuditRow)
        <3>1. log \in Seq(AuditRow)
            BY DEF TypeOK
        <3>. QED
            BY <1>11, <2>1, <3>1, AppendProperties DEF EmitAudit
    <2>5. pc' \in [Calls -> Try \cup {"idle", "enter", "emit", "done"}]
             /\ outcome' \in [Calls -> Outcome]
        BY <1>11, <2>3, EndType DEF EmitAudit
    <2>6. dropped' \subseteq Calls
        BY <1>11 DEF EmitAudit, TypeOK
    <2>. QED
        BY <1>11, <2>4, <2>5, <2>6 DEF EmitAudit, TypeOK
<1>12. ASSUME NEW c \in Calls, Interrupt(c) PROVE TypeOK'
    <2>1. RowOf(c) \in AuditRow
        BY RowType
    <2>2. log' \in Seq(AuditRow)
        BY <1>12, <2>1, AppendProperties DEF Interrupt, TypeOK
    <2>3. /\ pc' \in [Calls -> Try \cup {"idle", "enter", "emit", "done"}]
          /\ outcome' \in [Calls -> Outcome]
        <3>1. CASE Goto(c, "emit") /\ UNCHANGED outcome
            BY <3>1, GotoType DEF TypeOK
        <3>2. CASE End(c, Interrupted)
            BY <3>2, EndType, OutcomeType
        <3>. QED
            BY <1>12, <3>1, <3>2 DEF Interrupt
    <2>4. interrupted' \in [Calls -> BOOLEAN]
        BY <1>12 DEF Interrupt, TypeOK
    <2>. QED
        BY <1>12, <2>2, <2>3, <2>4 DEF Interrupt, TypeOK
<1>13. CASE UNCHANGED vars
    BY <1>13 DEF TypeOK, vars, callVars
<1>. QED
    BY <1>1, <1>2, <1>3, <1>4, <1>5, <1>6, <1>7, <1>8, <1>9, <1>10, <1>11, <1>12, <1>13
       DEF Next, Step, AllDone

-----------------------------------------------------------------------------
(* A step of one call leaves the others alone.                             *)

Act(c) == Invoke(c) \/ Step(c) \/ Interrupt(c)

LEMMA RaiseFrame ==
    ASSUME TypeOK, NEW c \in Calls, NEW d \in Calls, d # c, NEW name, Raise(c, name)
    PROVE  pc'[d] = pc[d] /\ error'[d] = error[d] /\ outcome'[d] = outcome[d]
BY DEF Raise, Goto, End, TypeOK

LEMMA Frame ==
    ASSUME TypeOK, NEW c \in Calls, NEW d \in Calls, d # c, Act(c)
    PROVE  /\ pc'[d] = pc[d] /\ request'[d] = request[d]
           /\ mine'[d] = mine[d] /\ using'[d] = using[d]
           /\ found'[d] = found[d] /\ decided'[d] = decided[d]
           /\ error'[d] = error[d] /\ interrupted'[d] = interrupted[d]
           /\ outcome'[d] = outcome[d]
           /\ d \in dropped' <=> d \in dropped
<1>. USE DEF TypeOK, Goto, End
<1>1. CASE Invoke(c)
    BY <1>1 DEF Invoke
<1>2. CASE Enter(c)
    BY <1>2 DEF Enter
<1>3. CASE CheckBudget(c)
    BY <1>3, RaiseFrame DEF CheckBudget
<1>4. CASE CheckShield(c)
    BY <1>4 DEF CheckShield
<1>5. CASE ConstructShield(c)
    BY <1>5, RaiseFrame DEF ConstructShield
<1>6. CASE AssignShield(c)
    BY <1>6 DEF AssignShield
<1>7. CASE ReadShield(c)
    BY <1>7 DEF ReadShield
<1>8. CASE Analyze(c)
    BY <1>8, RaiseFrame DEF Analyze
<1>9. CASE EvaluatePolicy(c)
    BY <1>9 DEF EvaluatePolicy
<1>10. CASE EnforceDenyCloud(c)
    BY <1>10, RaiseFrame DEF EnforceDenyCloud
<1>11. CASE EmitAudit(c)
    BY <1>11 DEF EmitAudit
<1>12. CASE Interrupt(c)
    BY <1>12 DEF Interrupt
<1>. QED
    BY <1>1, <1>2, <1>3, <1>4, <1>5, <1>6, <1>7, <1>8, <1>9, <1>10, <1>11, <1>12
       DEF Act, Step

(* What every step keeps: the Router's attributes; and the log, unless the *)
(* acting call is at its end, when it may gain that call's row.            *)
LEMMA LogFrame ==
    ASSUME NEW c \in Calls, Act(c)
    PROVE  /\ router' = router
           /\ \/ log' = log /\ dropped' = dropped
              \/ pc[c] = "emit" /\ log' = Append(log, RowOf(c)) /\ dropped' = dropped
              \/ pc[c] = "emit" /\ log' = log /\ dropped' = dropped \cup {c}
<1>1. CASE EmitAudit(c)
    BY <1>1 DEF EmitAudit
<1>2. CASE Interrupt(c)
    BY <1>2 DEF Interrupt
<1>3. CASE Invoke(c) \/ Enter(c) \/ CheckBudget(c) \/ CheckShield(c)
    BY <1>3 DEF Invoke, Enter, CheckBudget, CheckShield
<1>4. CASE ConstructShield(c) \/ AssignShield(c) \/ ReadShield(c)
    BY <1>4 DEF ConstructShield, AssignShield, ReadShield
<1>5. CASE Analyze(c) \/ EvaluatePolicy(c) \/ EnforceDenyCloud(c)
    BY <1>5 DEF Analyze, EvaluatePolicy, EnforceDenyCloud
<1>. QED
    BY <1>1, <1>2, <1>3, <1>4, <1>5 DEF Act, Step

-----------------------------------------------------------------------------
(* The invariant, clause by clause.                                        *)

(* What Raise does to the call that raises.                                *)
LEMMA RaiseCall ==
    ASSUME TypeOK, NEW c \in Calls, NEW name, Raise(c, name)
    PROVE  \/ /\ request[c].kind = "route"
              /\ pc'[c] = "emit" /\ error'[c] = name /\ outcome'[c] = outcome[c]
           \/ /\ request[c].kind # "route"
              /\ pc'[c] = "done" /\ error'[c] = error[c] /\ outcome'[c] = Raised(name)
BY DEF Raise, Goto, End, TypeOK

LEMMA ShieldStep ==
    ASSUME IInv, NEW c \in Calls, Act(c)
    PROVE  ShieldOK'
<1>. TypeOK /\ ShieldOK
    BY DEF IInv
<1>. USE DEF TypeOK
<1>1. built' \in Nat /\ built <= built'
    BY DEF Act, Step, Invoke, Enter, CheckBudget, CheckShield, ConstructShield,
           AssignShield, ReadShield, Analyze, EvaluatePolicy, EnforceDenyCloud,
           EmitAudit, Interrupt
<1>2. shield' # None => shield' \in 0..built'
    BY <1>1 DEF ShieldOK, Act, Step, Invoke, Enter, CheckBudget, CheckShield,
           ConstructShield, AssignShield, ReadShield, Analyze, EvaluatePolicy,
           EnforceDenyCloud, EmitAudit, Interrupt
<1>3. shield # None => shield' # None
    BY DEF ShieldOK, Act, Step, Invoke, Enter, CheckBudget, CheckShield,
           ConstructShield, AssignShield, ReadShield, Analyze, EvaluatePolicy,
           EnforceDenyCloud, EmitAudit, Interrupt
<1>. DEFINE Holds(d) ==
        /\ mine[d] # None => mine[d] \in 0..built
        /\ using[d] # None => using[d] \in 0..built
        /\ pc[d] = "assign" => mine[d] # None
        /\ pc[d] = "read" => shield # None
        /\ pc[d] = "analyze" => using[d] # None
<1>4. ASSUME NEW d \in Calls, d # c PROVE Holds(d)'
    BY <1>1, <1>3, <1>4, Frame DEF ShieldOK
<1>5. Holds(c)'
    <2>. USE DEF ShieldOK, Goto, End
    <2>1. CASE Invoke(c) \/ Enter(c)
        BY <2>1 DEF Invoke, Enter
    <2>2. CASE CheckBudget(c)
        BY <2>2, RaiseCall DEF CheckBudget
    <2>3. CASE CheckShield(c)
        BY <2>3 DEF CheckShield
    <2>4. CASE ConstructShield(c)
        <3>1. CASE \E name \in {"ShieldUnavailableError", "ShieldError"} : Raise(c, name)
                    /\ UNCHANGED <<built, mine>>
            BY <2>4, <3>1, RaiseCall DEF ConstructShield
        <3>2. CASE built' = built + 1 /\ mine' = [mine EXCEPT ![c] = built + 1]
                    /\ Goto(c, "assign")
            BY <2>4, <3>2, RouterAssumption DEF ConstructShield
        <3>. QED
            BY <2>4, <3>1, <3>2 DEF ConstructShield
    <2>5. CASE AssignShield(c) \/ ReadShield(c)
        BY <2>5 DEF AssignShield, ReadShield
    <2>6. CASE Analyze(c)
        BY <2>6, RaiseCall DEF Analyze
    <2>7. CASE EvaluatePolicy(c)
        BY <2>7 DEF EvaluatePolicy
    <2>8. CASE EnforceDenyCloud(c)
        BY <2>8, RaiseCall DEF EnforceDenyCloud
    <2>9. CASE EmitAudit(c) \/ Interrupt(c)
        BY <2>9 DEF EmitAudit, Interrupt
    <2>. QED
        BY <2>1, <2>2, <2>3, <2>4, <2>5, <2>6, <2>7, <2>8, <2>9 DEF Act, Step
<1>. QED
    BY <1>2, <1>4, <1>5 DEF ShieldOK

(* A call that raises is on its way out, or out.                           *)
LEMMA RaisePhase ==
    ASSUME TypeOK, NEW c \in Calls, PhaseOK(c), NEW name \in ErrorNames, Raise(c, name),
           pc[c] \in Try, request'[c] = request[c], interrupted'[c] = interrupted[c]
    PROVE  PhaseOK(c)'
<1>1. pc[c] # "idle" /\ pc[c] # "done"
    BY DEF Try
<1>2. CASE /\ request[c].kind = "route"
           /\ pc'[c] = "emit" /\ error'[c] = name /\ outcome'[c] = outcome[c]
    BY <1>1, <1>2 DEF PhaseOK
<1>3. CASE /\ request[c].kind # "route"
           /\ pc'[c] = "done" /\ error'[c] = error[c] /\ outcome'[c] = Raised(name)
    <2>1. Raised(name) # Pending
        BY DEF Raised, Pending
    <2>. QED
        BY <1>1, <1>3, <2>1 DEF PhaseOK
<1>. QED
    BY <1>2, <1>3, RaiseCall

LEMMA RaiseDecision ==
    ASSUME TypeOK, NEW c \in Calls, PhaseOK(c), NEW name \in ErrorNames, Raise(c, name),
           name # "CloudRouteDeniedError", pc[c] \in Try
    PROVE  DecisionOK(c)'
<1>1. error[c] = None /\ pc[c] # "emit"
    BY DEF PhaseOK, Try
<1>2. CASE pc'[c] = "emit" /\ error'[c] = name
    BY <1>2, RouterAssumption DEF DecisionOK
<1>3. CASE pc'[c] = "done" /\ error'[c] = error[c]
    BY <1>1, <1>3, RouterAssumption DEF DecisionOK, ErrorNames
<1>. QED
    BY <1>2, <1>3, RaiseCall

LEMMA PhaseStep ==
    ASSUME IInv, NEW c \in Calls, Act(c), NEW d \in Calls
    PROVE  PhaseOK(d)'
<1>. TypeOK /\ ShieldOK /\ PhaseOK(c) /\ PhaseOK(d)
    BY DEF IInv
<1>1. CASE d # c
    BY <1>1, Frame DEF PhaseOK
<1>2. ASSUME d = c PROVE PhaseOK(c)'
    <2>. USE RouterAssumption DEF PhaseOK, TypeOK, Goto, End, Pending, Returned, Raised, Interrupted
    <2>1. CASE Invoke(c)
        BY <2>1 DEF Invoke
    <2>2. CASE Enter(c)
        BY <2>2 DEF Enter
    <2>3. CASE CheckBudget(c)
        BY <2>3, RaiseCall DEF CheckBudget, ErrorNames
    <2>4. CASE CheckShield(c)
        BY <2>4 DEF CheckShield
    <2>5. CASE ConstructShield(c)
        <3>1. CASE \E name \in {"ShieldUnavailableError", "ShieldError"} : Raise(c, name)
                    /\ UNCHANGED <<built, mine>>
            BY <2>5, <3>1, RaisePhase DEF ConstructShield, ErrorNames, Try
        <3>2. CASE Goto(c, "assign") /\ UNCHANGED <<error, outcome>>
            BY <2>5, <3>2 DEF ConstructShield
        <3>. QED
            BY <2>5, <3>1, <3>2 DEF ConstructShield
    <2>6. CASE AssignShield(c)
        BY <2>6 DEF AssignShield
    <2>7. CASE ReadShield(c)
        BY <2>7 DEF ReadShield
    <2>8. CASE Analyze(c)
        <3>1. CASE Raise(c, "AnalysisError") /\ UNCHANGED found
            BY <2>8, <3>1, RaisePhase DEF Analyze, ErrorNames, Try
        <3>2. ASSUME NEW result \in Analyses, found' = [found EXCEPT ![c] = result],
                     UNCHANGED error, request[c].kind = "route",
                     Goto(c, "evaluate") /\ UNCHANGED outcome
              PROVE  PhaseOK(c)'
            <4>1. result # None
                BY <3>2
            <4>. QED
                BY <2>8, <3>2, <4>1 DEF Analyze
        <3>3. ASSUME NEW result \in Analyses, found' = [found EXCEPT ![c] = result],
                     UNCHANGED error, request[c].kind # "route", End(c, Returned(result))
              PROVE  PhaseOK(c)'
            BY <2>8, <3>3 DEF Analyze
        <3>. QED
            BY <2>8, <3>1, <3>2, <3>3 DEF Analyze
    <2>9. CASE EvaluatePolicy(c)
        BY <2>9 DEF EvaluatePolicy
    <2>10. CASE EnforceDenyCloud(c)
        BY <2>10, RaiseCall DEF EnforceDenyCloud, ErrorNames
    <2>11. CASE EmitAudit(c)
        BY <2>11 DEF EmitAudit, EndOfRoute
    <2>12. CASE Interrupt(c)
        BY <2>12 DEF Interrupt, Try
    <2>. QED
        BY <2>1, <2>2, <2>3, <2>4, <2>5, <2>6, <2>7, <2>8, <2>9, <2>10, <2>11, <2>12
           DEF Act, Step
<1>. QED
    BY <1>1, <1>2

LEMMA BudgetStep ==
    ASSUME IInv, NEW c \in Calls, Act(c), NEW d \in Calls
    PROVE  BudgetOK(d)'
<1>. TypeOK /\ PhaseOK(c) /\ BudgetOK(c) /\ BudgetOK(d)
    BY DEF IInv
<1>1. ASSUME NEW e \in Calls, request'[e] = request[e]
      PROVE  OverBudget(e)' <=> OverBudget(e)
    BY <1>1, LogFrame DEF OverBudget, CeilingOf, CostOf
<1>2. CASE d # c
    <2>1. OverBudget(d)' <=> OverBudget(d)
        BY <1>1, <1>2, Frame
    <2>. QED
        BY <1>2, <2>1, Frame DEF BudgetOK
<1>3. ASSUME d = c PROVE BudgetOK(c)'
    <2>. USE DEF BudgetOK, PhaseOK, TypeOK, Goto, End, Try
    <2>1. CASE Invoke(c)
        BY <2>1, RouterAssumption DEF Invoke
    <2>. SUFFICES ASSUME ~ Invoke(c) PROVE BudgetOK(c)'
        BY <2>1
    <2>2. request' = request
        BY DEF Act, Step, Enter, CheckBudget, CheckShield, ConstructShield,
           AssignShield, ReadShield, Analyze, EvaluatePolicy, EnforceDenyCloud,
           EmitAudit, Interrupt
    <2>3. OverBudget(c)' <=> OverBudget(c)
        BY <1>1, <2>2
    <2>4. CASE Enter(c)
        BY <2>4, <2>3 DEF Enter
    <2>5. CASE CheckBudget(c)
        BY <2>5, <2>3, RaiseCall DEF CheckBudget
    <2>6. CASE CheckShield(c)
        BY <2>6, <2>3 DEF CheckShield
    <2>7. CASE ConstructShield(c)
        <3>1. CASE \E name \in {"ShieldUnavailableError", "ShieldError"} : Raise(c, name)
                    /\ UNCHANGED <<built, mine>>
            <4>1. PICK name \in {"ShieldUnavailableError", "ShieldError"} : Raise(c, name)
                BY <3>1
            <4>2. error'[c] # "BudgetCeilingExceeded"
                BY <2>7, <4>1, RaiseCall, RouterAssumption DEF ConstructShield, ErrorNames
            <4>3. pc'[c] \in {"emit", "done"}
                BY <4>1, RaiseCall
            <4>. QED
                BY <2>7, <3>1, <4>2, <4>3, <2>3 DEF ConstructShield
        <3>2. CASE Goto(c, "assign") /\ UNCHANGED <<error, outcome>>
            BY <2>7, <2>3, <3>2, RouterAssumption DEF ConstructShield, ErrorNames
        <3>. QED
            BY <2>7, <3>1, <3>2 DEF ConstructShield
    <2>8. CASE AssignShield(c)
        BY <2>8, <2>3 DEF AssignShield
    <2>9. CASE ReadShield(c)
        BY <2>9, <2>3, RouterAssumption DEF ReadShield, ErrorNames
    <2>10. CASE Analyze(c)
        BY <2>10, <2>3, RaiseCall DEF Analyze
    <2>11. CASE EvaluatePolicy(c)
        BY <2>11, <2>3 DEF EvaluatePolicy
    <2>12. CASE EnforceDenyCloud(c)
        BY <2>12, <2>3, RaiseCall DEF EnforceDenyCloud
    <2>13. CASE EmitAudit(c)
        BY <2>13, <2>3 DEF EmitAudit
    <2>14. CASE Interrupt(c)
        BY <2>14, <2>3 DEF Interrupt
    <2>. QED
        BY <2>4, <2>5, <2>6, <2>7, <2>8, <2>9, <2>10, <2>11, <2>12, <2>13, <2>14
           DEF Act, Step
<1>. QED
    BY <1>2, <1>3

LEMMA DecisionStep ==
    ASSUME IInv, NEW c \in Calls, Act(c), NEW d \in Calls
    PROVE  DecisionOK(d)'
<1>. TypeOK /\ PhaseOK(c) /\ DecisionOK(c) /\ DecisionOK(d)
    BY DEF IInv
<1>1. router' = router
    BY LogFrame
<1>2. CASE d # c
    BY <1>1, <1>2, Frame DEF DecisionOK, Clean
<1>3. ASSUME d = c PROVE DecisionOK(c)'
    <2>. USE <1>1, RouterAssumption DEF DecisionOK, Clean, PhaseOK, TypeOK, Goto, End, Try
    <2>1. CASE Invoke(c)
        BY <2>1 DEF Invoke
    <2>2. CASE Enter(c)
        BY <2>2 DEF Enter
    <2>3. CASE CheckBudget(c)
        BY <2>3, RaiseDecision DEF CheckBudget, ErrorNames
    <2>4. CASE CheckShield(c)
        BY <2>4 DEF CheckShield
    <2>5. CASE ConstructShield(c)
        <3>1. CASE \E name \in {"ShieldUnavailableError", "ShieldError"} : Raise(c, name)
                    /\ UNCHANGED <<built, mine>>
            BY <2>5, <3>1, RaiseDecision DEF ConstructShield, ErrorNames
        <3>2. CASE Goto(c, "assign") /\ UNCHANGED <<error, outcome>>
            BY <2>5, <3>2 DEF ConstructShield
        <3>. QED
            BY <2>5, <3>1, <3>2 DEF ConstructShield
    <2>6. CASE AssignShield(c)
        BY <2>6 DEF AssignShield
    <2>7. CASE ReadShield(c)
        BY <2>7 DEF ReadShield
    <2>8. CASE Analyze(c)
        <3>1. CASE Raise(c, "AnalysisError")
            BY <2>8, <3>1, RaiseDecision DEF Analyze, ErrorNames
        <3>2. CASE pc'[c] \in {"evaluate", "done"} /\ UNCHANGED error
            BY <2>8, <3>2 DEF Analyze, ErrorNames
        <3>. QED
            BY <2>8, <3>1, <3>2 DEF Analyze
    <2>9. CASE EvaluatePolicy(c)
        BY <2>9 DEF EvaluatePolicy
    <2>10. CASE EnforceDenyCloud(c)
        <3>1. CASE DeniesCloud(router, decided[c], found[c].groups)
                    /\ Raise(c, "CloudRouteDeniedError")
            <4>1. decided[c] = Evaluate(router.policy, found[c]) /\ found[c] # None
                BY <2>10 DEF EnforceDenyCloud
            <4>2. pc'[c] = "emit" /\ error'[c] = "CloudRouteDeniedError"
                BY <2>10, <3>1, RaiseCall DEF EnforceDenyCloud
            <4>. QED
                BY <2>10, <3>1, <4>1, <4>2 DEF EnforceDenyCloud, ErrorNames
        <3>2. CASE ~ DeniesCloud(router, decided[c], found[c].groups)
                    /\ Goto(c, "emit") /\ UNCHANGED <<error, outcome>>
            <4>1. decided[c] # None
                BY <2>10, EvaluateType DEF EnforceDenyCloud, RouterObject
            <4>. QED
                BY <2>10, <3>2, <4>1 DEF EnforceDenyCloud
        <3>. QED
            BY <2>10, <3>1, <3>2 DEF EnforceDenyCloud
    <2>11. CASE EmitAudit(c)
        BY <2>11 DEF EmitAudit
    <2>12. CASE Interrupt(c)
        BY <2>12 DEF Interrupt
    <2>. QED
        BY <2>1, <2>2, <2>3, <2>4, <2>5, <2>6, <2>7, <2>8, <2>9, <2>10, <2>11, <2>12
           DEF Act, Step
<1>. QED
    BY <1>2, <1>3

(* A call that is not over has no row yet and has dropped none.            *)
LEMMA NoRowYet ==
    ASSUME LogOK, NEW c \in Calls, pc[c] # "done"
    PROVE  ~ HasRow(c) /\ c \notin dropped
BY DEF LogOK, HasRow, Ended

(* Whether a call has a row after a step.                                  *)
LEMMA RowFrame ==
    ASSUME TypeOK, NEW c \in Calls, Act(c)
    PROVE  /\ \A d \in Calls : d # c => (HasRow(d)' <=> HasRow(d))
           /\ log' = log => (HasRow(c)' <=> HasRow(c))
           /\ log' = Append(log, RowOf(c)) => HasRow(c)'
           /\ log' \in {log, Append(log, RowOf(c))}
<1>1. log' \in {log, Append(log, RowOf(c))}
    BY LogFrame
<1>2. CASE log' = log
    BY <1>2 DEF HasRow
<1>3. CASE log' = Append(log, RowOf(c))
    <2>1. RowOf(c) \in AuditRow /\ log \in Seq(AuditRow)
        BY RowType DEF TypeOK
    <2>2. RowOf(c).call = c
        BY DEF RowOf
    <2>3. /\ DOMAIN log' = DOMAIN log \cup {Len(log) + 1}
          /\ \A i \in DOMAIN log : log'[i] = log[i]
          /\ log'[Len(log) + 1] = RowOf(c)
        BY <1>3, <2>1, AppendProperties
    <2>. QED
        BY <1>1, <2>2, <2>3 DEF HasRow
<1>. QED
    BY <1>1, <1>2, <1>3

LEMMA LogStep ==
    ASSUME IInv, NEW c \in Calls, Act(c)
    PROVE  LogOK'
<1>. TypeOK /\ LogOK /\ PhaseOK(c)
    BY DEF IInv
<1>1. pc[c] # "done"
    BY DEF Act, Step, Invoke, Enter, CheckBudget, CheckShield, ConstructShield,
           AssignShield, ReadShield, Analyze, EvaluatePolicy, EnforceDenyCloud,
           EmitAudit, Interrupt, Try
<1>2. ASSUME NEW d \in Calls, Ended(d) PROVE d # c /\ Ended(d)' /\ RowOf(d)' = RowOf(d)
    <2>1. d # c
        BY <1>1, <1>2 DEF Ended
    <2>. QED
        BY <1>2, <2>1, Frame, LogFrame
           DEF Ended, RowOf, LocalGroups, LocalDecision, BackendIsLocal, LocalIds, CloudIds
<1>3. ~ HasRow(c) /\ c \notin dropped
    BY <1>1, NoRowYet
<1>4. \A d \in dropped : d \in Calls
    BY DEF TypeOK
<1>5. ASSUME NEW i \in DOMAIN log PROVE log[i].call \in Calls
    <2>1. log \in Seq(AuditRow)
        BY DEF TypeOK
    <2>2. log[i] \in AuditRow
        BY <2>1, ElementOfSeq
    <2>. QED
        BY <2>2 DEF AuditRow
<1>6. ASSUME pc[c] = "emit" PROVE Ended(c)' \/ (log' = log /\ dropped' = dropped)
    <2>1. request'[c] = request[c] /\ request[c].kind = "route"
        BY <1>6 DEF Act, Step, Invoke, Enter, CheckBudget, CheckShield, ConstructShield,
           AssignShield, ReadShield, Analyze, EvaluatePolicy, EnforceDenyCloud,
           EmitAudit, Interrupt, PhaseOK
    <2>2. EmitAudit(c) \/ Interrupt(c)
        BY <1>6 DEF Act, Step, Invoke, Enter, CheckBudget, CheckShield, ConstructShield,
           AssignShield, ReadShield, Analyze, EvaluatePolicy, EnforceDenyCloud
    <2>3. pc'[c] = "done"
        BY <1>6, <2>2 DEF EmitAudit, Interrupt, End, Goto, TypeOK, Try
    <2>. QED
        BY <2>1, <2>3 DEF Ended
<1>7. CASE log' = log /\ dropped' = dropped
    BY <1>2, <1>4, <1>5, <1>7, RowFrame DEF LogOK
<1>8. CASE pc[c] = "emit" /\ log' = Append(log, RowOf(c)) /\ dropped' = dropped
    <2>1. RowOf(c) \in AuditRow /\ log \in Seq(AuditRow)
        BY RowType DEF TypeOK
    <2>2. RowOf(c).call = c
        BY DEF RowOf
    <2>3. /\ DOMAIN log' = DOMAIN log \cup {Len(log) + 1}
          /\ Len(log) + 1 \notin DOMAIN log
          /\ \A i \in DOMAIN log : log'[i] = log[i]
          /\ log'[Len(log) + 1] = RowOf(c)
        BY <1>8, <2>1, AppendProperties
    <2>4. RowOf(c)' = RowOf(c)
        BY <1>8 DEF RowOf, LocalGroups, LocalDecision, BackendIsLocal, LocalIds, CloudIds,
           Act, Step, Invoke, Enter, CheckBudget, CheckShield, ConstructShield,
           AssignShield, ReadShield, Analyze, EvaluatePolicy, EnforceDenyCloud,
           EmitAudit, Interrupt
    <2>5. Ended(c)'
        BY <1>6, <1>8, <2>3
    <2>6. \A i \in DOMAIN log', d \in Calls :
              log'[i].call = d => Ended(d)' /\ log'[i] = RowOf(d)'
        BY <1>2, <1>5, <2>2, <2>3, <2>4, <2>5 DEF LogOK
    <2>7. \A i, j \in DOMAIN log' : log'[i].call = log'[j].call => i = j
        BY <1>3, <2>2, <2>3 DEF LogOK, HasRow
    <2>8. \A d \in dropped' : Ended(d)' /\ ~ HasRow(d)'
        BY <1>2, <1>4, <1>8, RowFrame DEF LogOK
    <2>. QED
        BY <2>6, <2>7, <2>8 DEF LogOK
<1>9. CASE pc[c] = "emit" /\ log' = log /\ dropped' = dropped \cup {c}
    <2>1. dropped' = dropped \/ Ended(c)'
        BY <1>6, <1>9
    <2>. QED
        BY <1>2, <1>3, <1>4, <1>5, <1>9, <2>1, RowFrame DEF LogOK
<1>. QED
    BY <1>7, <1>8, <1>9, LogFrame

LEMMA EndStep ==
    ASSUME IInv, NEW c \in Calls, Act(c), NEW d \in Calls
    PROVE  EndOK(d)'
<1>. TypeOK /\ LogOK /\ PhaseOK(c) /\ DecisionOK(c) /\ EndOK(c) /\ EndOK(d)
    BY DEF IInv
<1>1. router' = router
    BY LogFrame
<1>2. CASE d # c
    <2>1. HasRow(d)' <=> HasRow(d)
        BY <1>2, RowFrame
    <2>. QED
        BY <1>1, <1>2, <2>1, Frame DEF EndOK, Ended, EndOfRoute, Clean
<1>3. ASSUME d = c PROVE EndOK(c)'
    <2>1. CASE Enter(c)
        <3>1. ~ HasRow(c)' /\ (pc'[c] = "done" => outcome'[c] = Raised("UnicodeEncodeError"))
            BY <2>1, NoRowYet, RowFrame DEF Enter, Goto, End, TypeOK
        <3>. QED
            BY <3>1 DEF EndOK, Ended
    <2>2. CASE EmitAudit(c)
        <3>1. EndOfRoute(c)' = EndOfRoute(c) /\ outcome'[c] = EndOfRoute(c)
            BY <2>2 DEF EmitAudit, EndOfRoute, End, TypeOK
        <3>2. HasRow(c)' \/ c \in dropped'
            BY <2>2, RowFrame DEF EmitAudit
        <3>3. ~ interrupted'[c] /\ error'[c] = None => Clean(c)'
            BY <2>2 DEF EmitAudit, DecisionOK, Clean
        <3>. QED
            BY <3>1, <3>2, <3>3 DEF EndOK
    <2>3. CASE Interrupt(c)
        BY <2>3 DEF Interrupt, EndOK, Ended, Goto, End, TypeOK
    <2>4. CASE Invoke(c)
        BY <2>4 DEF Invoke, EndOK, Ended, Goto, TypeOK
    <2>5. CASE CheckBudget(c)
        BY <2>5, RaiseCall DEF CheckBudget, EndOK, Ended, Goto, TypeOK
    <2>6. CASE CheckShield(c)
        BY <2>6 DEF CheckShield, EndOK, Ended, Goto, TypeOK
    <2>7. CASE ConstructShield(c)
        BY <2>7, RaiseCall DEF ConstructShield, EndOK, Ended, Goto, TypeOK
    <2>8. CASE AssignShield(c) \/ ReadShield(c) \/ EvaluatePolicy(c)
        BY <2>8 DEF AssignShield, ReadShield, EvaluatePolicy, EndOK, Ended, Goto, TypeOK
    <2>9. CASE Analyze(c)
        <3>1. CASE Raise(c, "AnalysisError")
            BY <2>9, <3>1, RaiseCall DEF Analyze, EndOK, Ended
        <3>2. CASE IF request[c].kind = "route"
                   THEN Goto(c, "evaluate")
                   ELSE \E result \in Analyses : End(c, Returned(result))
            BY <2>9, <3>2 DEF Analyze, EndOK, Ended, Goto, End, TypeOK
        <3>. QED
            BY <2>9, <3>1, <3>2 DEF Analyze
    <2>10. CASE EnforceDenyCloud(c)
        BY <2>10, RaiseCall DEF EnforceDenyCloud, EndOK, Ended, Goto, TypeOK
    <2>. QED
        BY <2>1, <2>2, <2>3, <2>4, <2>5, <2>6, <2>7, <2>8, <2>9, <2>10 DEF Act, Step
<1>. QED
    BY <1>2, <1>3

LEMMA InvariantInit == Init => IInv
<1>. SUFFICES ASSUME Init PROVE IInv
    OBVIOUS
<1>1. TypeOK
    BY TypeInit
<1>2. ShieldOK
    BY DEF Init, ShieldOK
<1>3. LogOK
    BY DEF Init, LogOK
<1>4. ASSUME NEW c \in Calls PROVE PhaseOK(c) /\ BudgetOK(c) /\ DecisionOK(c) /\ EndOK(c)
    BY RouterAssumption DEF Init, PhaseOK, BudgetOK, DecisionOK, EndOK, Ended, Try, ErrorNames
<1>. QED
    BY <1>1, <1>2, <1>3, <1>4 DEF IInv

LEMMA InvariantStep == IInv /\ [Next]_vars => IInv'
<1>. SUFFICES ASSUME IInv, [Next]_vars PROVE IInv'
    OBVIOUS
<1>1. TypeOK'
    BY TypeStep
<1>2. ASSUME NEW c \in Calls, Act(c) PROVE IInv'
    BY <1>1, <1>2, ShieldStep, LogStep, PhaseStep, BudgetStep, DecisionStep, EndStep
       DEF IInv
<1>3. CASE UNCHANGED vars
    <2>1. ShieldOK' /\ LogOK'
        BY <1>3 DEF IInv, vars, callVars, ShieldOK, LogOK, Ended, HasRow, RowOf,
           LocalGroups, LocalDecision, BackendIsLocal, LocalIds, CloudIds
    <2>2. ASSUME NEW c \in Calls
          PROVE  PhaseOK(c)' /\ BudgetOK(c)' /\ DecisionOK(c)' /\ EndOK(c)'
        BY <1>3 DEF IInv, vars, callVars, PhaseOK, BudgetOK, DecisionOK, EndOK, Ended,
           HasRow, Clean, EndOfRoute, OverBudget, CeilingOf, CostOf
    <2>. QED
        BY <1>1, <2>1, <2>2 DEF IInv
<1>. QED
    BY <1>2, <1>3 DEF Next, AllDone, Act

-----------------------------------------------------------------------------
(* What follows from the invariant.                                        *)

(* A row is that of a call, and made from its locals.                      *)
LEMMA RowOfCall ==
    ASSUME IInv, NEW i \in DOMAIN log
    PROVE  /\ log[i].call \in Calls
           /\ Ended(log[i].call) /\ HasRow(log[i].call)
           /\ log[i] = RowOf(log[i].call)
<1>1. log \in Seq(AuditRow)
    BY DEF IInv, TypeOK
<1>2. log[i] \in AuditRow
    BY <1>1, ElementOfSeq
<1>3. log[i].call \in Calls
    BY <1>2 DEF AuditRow
<1>. QED
    BY <1>3 DEF IInv, LogOK, HasRow

(* A call that returned has passed the guard, with the decision it has.    *)
LEMMA ReturnedIsClean ==
    ASSUME IInv, NEW c \in Calls, Ended(c), outcome[c].kind = "returned"
    PROVE  outcome[c].value = decided[c] /\ error[c] = None /\ Clean(c)
<1>1. outcome[c] # Interrupted
    BY DEF Interrupted
<1>2. \A name : outcome[c] # Raised(name)
    BY DEF Raised
<1>3. EndOK(c)
    BY DEF IInv
<1>4. /\ outcome[c] = EndOfRoute(c)
      /\ ~ interrupted[c] /\ error[c] = None => Clean(c)
    BY <1>1, <1>2, <1>3 DEF EndOK
<1>5. outcome[c] = Returned(decided[c]) /\ ~ interrupted[c] /\ error[c] = None
    BY <1>1, <1>2, <1>4 DEF EndOfRoute
<1>. QED
    BY <1>4, <1>5 DEF Returned

(* A call whose row names no error has passed the guard, unless Ctrl-C cut *)
(* it short.                                                               *)
LEMMA RowIsClean ==
    ASSUME IInv, NEW c \in Calls, Ended(c), HasRow(c), error[c] = None,
           outcome[c] # Interrupted
    PROVE  Clean(c)
BY DEF IInv, EndOK, EndOfRoute

(* Where the guard lets a denied group go.                                 *)
LEMMA GuardLocal ==
    ASSUME NEW r, NEW decision, NEW groups, ~ DeniesCloud(r, decision, groups),
           groups \cap DeniedGroups(r.policy) # {}
    PROVE  /\ decision.backend_id \notin CloudIds(r)
           /\ r.backends # {} => decision.backend_id \in LocalIds(r)
           /\ BackendIsLocal(r, decision.backend_id) # "cloud"
           /\ r.backends # {} => BackendIsLocal(r, decision.backend_id) = "local"
<1>1. LocalIds(r) \cap CloudIds(r) = {}
    BY DEF LocalIds, CloudIds
<1>. QED
    BY <1>1 DEF DeniesCloud, BackendIsLocal

LEMMA InvariantRows == IInv => OneRowPerCall
<1>. SUFFICES ASSUME IInv PROVE OneRowPerCall
    OBVIOUS
<1>1. \A i, j \in DOMAIN log : log[i].call = log[j].call => i = j
    BY DEF IInv, LogOK
<1>2. ASSUME NEW c \in Calls PROVE HasRow(c) \/ c \in dropped => Ended(c)
    BY DEF IInv, LogOK, HasRow
<1>3. ASSUME NEW c \in Calls PROVE ~ (HasRow(c) /\ c \in dropped)
    BY DEF IInv, LogOK
<1>4. ASSUME NEW c \in Calls, Ended(c),
             outcome[c] \notin {Interrupted, Raised("UnicodeEncodeError")}
      PROVE  HasRow(c) \/ c \in dropped
    BY <1>4 DEF IInv, EndOK
<1>. QED
    BY <1>1, <1>2, <1>3, <1>4 DEF OneRowPerCall

LEMMA InvariantTruth == IInv => RowTellsTheTruth
<1>. SUFFICES ASSUME IInv, NEW i \in DOMAIN log
              PROVE  LET row == log[i] IN LET how == outcome[row.call] IN
                     /\ how.kind \in {"returned", "raised", "interrupted"}
                     /\ how.kind = "returned" =>
                           /\ row.error = None
                           /\ how.value = [backend_id |-> row.route_decision,
                                           rule_id |-> row.rule_id,
                                           transform |-> row.transform]
                           /\ row.groups_found = found[row.call].groups
                     /\ how.kind = "raised" => row.error = how.value
    BY DEF RowTellsTheTruth
<1>1. PICK c \in Calls : c = log[i].call /\ Ended(c) /\ HasRow(c) /\ log[i] = RowOf(c)
    BY RowOfCall
<1>2. EndOK(c)
    BY DEF IInv
<1>3. outcome[c] = Interrupted \/ outcome[c] = EndOfRoute(c)
    BY <1>1, <1>2 DEF EndOK
<1>4. outcome[c].kind \in {"returned", "raised", "interrupted"}
    BY <1>3 DEF EndOfRoute, Interrupted, Raised, Returned
<1>5. ASSUME outcome[c].kind = "returned"
      PROVE  /\ RowOf(c).error = None
             /\ outcome[c].value = [backend_id |-> RowOf(c).route_decision,
                                    rule_id |-> RowOf(c).rule_id,
                                    transform |-> RowOf(c).transform]
             /\ RowOf(c).groups_found = found[c].groups
    <2>1. outcome[c].value = decided[c] /\ error[c] = None /\ Clean(c)
        BY <1>1, <1>5, ReturnedIsClean
    <2>2. decided[c] \in RouteDecision
        BY <2>1 DEF Clean, IInv, TypeOK
    <2>3. LocalDecision(c) = decided[c] /\ LocalGroups(c) = found[c].groups
        BY <2>1 DEF Clean, LocalDecision, LocalGroups
    <2>. QED
        BY <2>1, <2>2, <2>3 DEF RowOf, RouteDecision
<1>6. ASSUME outcome[c].kind = "raised" PROVE RowOf(c).error = outcome[c].value
    BY <1>3, <1>6 DEF EndOfRoute, Interrupted, Raised, Returned, RowOf
<1>. QED
    BY <1>1, <1>4, <1>5, <1>6

LEMMA InvariantLocal == IInv => DeniedStaysLocal
<1>. SUFFICES ASSUME IInv, NEW c \in Calls, Ended(c), outcome[c].kind = "returned", Hit(c)
              PROVE  /\ outcome[c].value.backend_id \notin CloudIds(router)
                     /\ router.backends # {} =>
                           outcome[c].value.backend_id \in LocalIds(router)
    BY DEF DeniedStaysLocal
<1>1. outcome[c].value = decided[c] /\ Clean(c)
    BY ReturnedIsClean
<1>. QED
    BY <1>1, GuardLocal DEF Clean, Hit

LEMMA InvariantLogLocal == IInv => LogShowsDeniedLocal
<1>. SUFFICES ASSUME IInv, NEW i \in DOMAIN log,
                     log[i].error = None, outcome[log[i].call] # Interrupted,
                     log[i].groups_found \cap DeniedGroups(router.policy) # {}
              PROVE  /\ log[i].backend_is_local # "cloud"
                     /\ router.backends # {} => log[i].backend_is_local = "local"
    BY DEF LogShowsDeniedLocal
<1>1. PICK c \in Calls : c = log[i].call /\ Ended(c) /\ HasRow(c) /\ log[i] = RowOf(c)
    BY RowOfCall
<1>2. Clean(c)
    BY <1>1, RowIsClean DEF RowOf
<1>3. /\ LocalDecision(c) = decided[c] /\ LocalGroups(c) = found[c].groups
      /\ log[i].groups_found = LocalGroups(c)
      /\ log[i].backend_is_local = BackendIsLocal(router, LocalDecision(c).backend_id)
    BY <1>1, <1>2 DEF Clean, LocalDecision, LocalGroups, RowOf
<1>. QED
    BY <1>2, <1>3, GuardLocal DEF Clean

LEMMA InvariantCorrect == IInv => CorrectPolicyNeverDenied
<1>. SUFFICES ASSUME IInv, KeepsDeniedLocal(router.policy, LocalIds(router)),
                     NEW c \in Calls, error[c] = "CloudRouteDeniedError"
              PROVE  FALSE
    BY DEF CorrectPolicyNeverDenied
<1>1. /\ found[c] # None /\ decided[c] = Evaluate(router.policy, found[c])
      /\ DeniesCloud(router, decided[c], found[c].groups)
    BY DEF IInv, DecisionOK
<1>2. router.policy \in PolicySpec /\ found[c] \in ShieldResult
    BY <1>1, RouterAssumption DEF IInv, TypeOK, RouterObject
<1>3. found[c].groups \cap DeniedGroups(router.policy) # {}
    BY <1>1 DEF DeniesCloud
<1>4. decided[c].backend_id \in LocalIds(router)
    BY <1>1, <1>2, <1>3, DeniedEvaluatesLocal
<1>. QED
    BY <1>1, <1>4 DEF DeniesCloud, BackendIsLocal

LEMMA InvariantBudget == IInv => BudgetBeforeShield
BY DEF IInv, BudgetOK, BudgetBeforeShield

LEMMA InvariantShield == IInv => ShieldUsable
BY DEF IInv, ShieldOK, ShieldUsable

LEMMA SettledStep == IInv /\ [Next]_vars => (Settled => Settled' /\ shield' = shield)
<1>. SUFFICES ASSUME IInv, [Next]_vars, Settled PROVE Settled' /\ shield' = shield
    OBVIOUS
<1>. TypeOK
    BY DEF IInv
<1>1. ASSUME NEW c \in Calls, Act(c) PROVE Settled' /\ shield' = shield
    <2>1. pc[c] \notin {"construct", "assign"}
        BY DEF Settled
    <2>2. shield' = shield
        BY <1>1, <2>1 DEF Act, Step, Invoke, Enter, CheckBudget, CheckShield,
           ConstructShield, AssignShield, ReadShield, Analyze, EvaluatePolicy,
           EnforceDenyCloud, EmitAudit, Interrupt
    <2>3. pc'[c] \notin {"construct", "assign"}
        <3>. USE <2>1 DEF TypeOK, Goto, End
        <3>1. CASE Invoke(c) \/ Enter(c) \/ CheckShield(c) \/ ReadShield(c)
            BY <3>1 DEF Invoke, Enter, CheckShield, ReadShield, Settled
        <3>2. CASE CheckBudget(c) \/ EnforceDenyCloud(c) \/ Analyze(c)
            BY <3>2, RaiseCall DEF CheckBudget, EnforceDenyCloud, Analyze
        <3>3. CASE EvaluatePolicy(c) \/ EmitAudit(c) \/ Interrupt(c)
            BY <3>3 DEF EvaluatePolicy, EmitAudit, Interrupt
        <3>4. CASE ConstructShield(c) \/ AssignShield(c)
            BY <3>4 DEF ConstructShield, AssignShield
        <3>. QED
            BY <1>1, <3>1, <3>2, <3>3, <3>4 DEF Act, Step
    <2>. QED
        BY <1>1, <2>2, <2>3, Frame DEF Settled
<1>2. CASE UNCHANGED vars
    BY <1>2 DEF Settled, vars, callVars
<1>. QED
    BY <1>1, <1>2 DEF Next, AllDone, Act

-----------------------------------------------------------------------------
(* The theorems.                                                           *)

(* The invariant holds in every reachable state: what a call of route      *)
(* carries from step to step, beside the Shield and the log.               *)
THEOREM Invariance == Spec => []IInv
BY InvariantInit, InvariantStep, PTL DEF Spec

(* Every variable keeps the kind of value router.py puts there.            *)
THEOREM TypeCorrect == Spec => []TypeOK
<1>1. IInv => TypeOK
    BY DEF IInv
<1>. QED
    BY <1>1, Invariance, PTL

(* One row per route call, kept or dropped, on every path out of the try,  *)
(* and none before the call is over (the finally block of Router.route).   *)
THEOREM RowsComplete == Spec => []OneRowPerCall
BY InvariantRows, Invariance, PTL

(* A row says what the caller saw: the decision or the error's class name  *)
(* (Router._emit_audit).                                                   *)
THEOREM RowsTruthful == Spec => []RowTellsTheTruth
BY InvariantTruth, Invariance, PTL

(* No route call returns a backend that is not local for a prompt with a   *)
(* denied group, for every policy (Router._enforce_deny_cloud).            *)
THEOREM DenyCloudEnforced == Spec => []DeniedStaysLocal
BY InvariantLocal, Invariance, PTL

(* Nor does a row say one did (Router._emit_audit).                        *)
THEOREM DenyCloudAuditable == Spec => []LogShowsDeniedLocal
BY InvariantLogLocal, Invariance, PTL

(* The guard never fires under a policy that keeps the denied groups local *)
(* (DenyCloudSpec).                                                        *)
THEOREM GuardIsBackstop == Spec => []CorrectPolicyNeverDenied
BY InvariantCorrect, Invariance, PTL

(* A call over its budget never touches a Shield (the order of the try of  *)
(* Router.route).                                                          *)
THEOREM BudgetFirst == Spec => []BudgetBeforeShield
BY InvariantBudget, Invariance, PTL

(* No call analyzes without a Shield (Router._ensure_shield).              *)
THEOREM ShieldReady == Spec => []ShieldUsable
BY InvariantShield, Invariance, PTL

(* Once a Shield is stored and no call is constructing one, the Router     *)
(* keeps it for good (Router._ensure_shield).                              *)
THEOREM ShieldCached == Spec => ShieldSettles
<1>1. Spec => [][Next]_vars
    BY PTL DEF Spec
<1>. QED
    BY <1>1, Invariance, SettledStep, PTL DEF ShieldSettles

=============================================================================
