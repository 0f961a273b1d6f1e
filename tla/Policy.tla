------------------------------- MODULE Policy -------------------------------
(***************************************************************************)
(* The policy DSL of policy/policy.py and policy/models.py: a validated    *)
(* policy is an ordered list of rules, a default backend, a budget block   *)
(* and a deny_cloud block; Policy.evaluate picks a backend for what Shield *)
(* found in a prompt.                                                      *)
(*                                                                         *)
(* Validation (min_length = 1, ge / le) makes "predicate not set" and the  *)
(* neutral value of its domain the same thing: the empty set cannot be     *)
(* written for a list predicate, sensitivity_score_gte: 0 and              *)
(* sensitivity_score_lt: 101 are satisfied by every score.  So an unset    *)
(* predicate is its neutral value here, and a WhenClause has no options.   *)
(***************************************************************************)
EXTENDS Integers, Sequences, FiniteSets

CONSTANTS
    None,        \* Python's None
    NaN,         \* the float that compares with none
    Groups,      \* the category groups of ogentic_shield.CategoryGroup
    Categories,  \* the category labels an entity can carry
    Backends,    \* the backend ids policies may name
    RuleIds,     \* the ids rules may carry
    MaxScore     \* Shield's scores are 0..MaxScore (100 in the code)

ASSUME MaxScoreAssumption == MaxScore \in Nat

Transforms == {None, "shield_redact"}

WhenClause ==
    [groups_include        : SUBSET Groups,
     groups_exclude        : SUBSET Groups,
     sensitivity_score_gte : 0..MaxScore,
     sensitivity_score_lt  : 1..(MaxScore + 1),
     category_in           : SUBSET Categories,
     category_not_in       : SUBSET Categories]

RuleSpec ==
    [id : RuleIds, when : WhenClause, route : Backends, transform : Transforms]

PolicySpec ==
    [default_backend : Backends,
     rules           : Seq(RuleSpec),
     budget          : [enforce : BOOLEAN, ceiling_usd : (Nat \ {0}) \cup {NaN}],
     deny_cloud      : [enforce : BOOLEAN, groups : SUBSET Groups]]

(* What evaluate reads of a Shield result: the score, the union of the     *)
(* category groups, and the category of every entity.                      *)
ShieldResult ==
    [score : 0..MaxScore, groups : SUBSET Groups, categories : SUBSET Categories]

RouteDecision ==
    [backend_id : Backends, rule_id : RuleIds \cup {None}, transform : Transforms]

(* A when clause without predicates: the catch-all.                        *)
Always ==
    [groups_include |-> {}, groups_exclude |-> {},
     sensitivity_score_gte |-> 0, sensitivity_score_lt |-> MaxScore + 1,
     category_in |-> {}, category_not_in |-> {}]

-----------------------------------------------------------------------------

(* A list predicate "one of these is present"; not set, it is satisfied.   *)
SomeOf(wanted, found) == wanted = {} \/ wanted \cap found # {}

Matches(when, sr) ==
    /\ SomeOf(when.groups_include, sr.groups)
    /\ when.groups_exclude \cap sr.groups = {}
    /\ sr.score >= when.sensitivity_score_gte
    /\ sr.score < when.sensitivity_score_lt
    /\ SomeOf(when.category_in, sr.categories)
    /\ when.category_not_in \cap sr.categories = {}

(* Rule i fires for sr: it matches and no earlier rule does.               *)
Fires(policy, i, sr) ==
    /\ i \in DOMAIN policy.rules
    /\ Matches(policy.rules[i].when, sr)
    /\ \A j \in 1..(i - 1) : ~ Matches(policy.rules[j].when, sr)

DecisionOf(rule) ==
    [backend_id |-> rule.route, rule_id |-> rule.id, transform |-> rule.transform]

DefaultDecision(policy) ==
    [backend_id |-> policy.default_backend, rule_id |-> None, transform |-> None]

(* Last match wins: the mutant of Evaluate.                                *)
EvaluateLastMatch(policy, sr) ==
    LET matching == {i \in DOMAIN policy.rules : Matches(policy.rules[i].when, sr)}
    IN  IF matching = {}
        THEN DefaultDecision(policy)
        ELSE DecisionOf(policy.rules[CHOOSE i \in matching : \A j \in matching : i >= j])

(* First match wins; otherwise the default backend.                        *)
Evaluate(policy, sr) ==
    IF \E i \in DOMAIN policy.rules : Fires(policy, i, sr)
    THEN DecisionOf(policy.rules[CHOOSE i \in DOMAIN policy.rules : Fires(policy, i, sr)])
    ELSE DefaultDecision(policy)

EffectiveCeiling(policy) ==
    IF policy.budget.enforce THEN policy.budget.ceiling_usd ELSE None

(* A cost is more than a ceiling; none is more than NaN.                   *)
Exceeds(cost, ceiling) == ceiling # NaN /\ cost > ceiling

DeniedGroups(policy) ==
    IF policy.deny_cloud.enforce THEN policy.deny_cloud.groups ELSE {}

-----------------------------------------------------------------------------
(* A policy of the shape docs/POLICY_REFERENCE.md recommends: some rule    *)
(* catches every denied group, and it and all the rules before it route to *)
(* a backend of local.                                                     *)
KeepsDeniedLocal(policy, local) ==
    \E i \in DOMAIN policy.rules :
        /\ DeniedGroups(policy) \subseteq policy.rules[i].when.groups_include
        /\ policy.rules[i].when =
             [Always EXCEPT !.groups_include = policy.rules[i].when.groups_include]
        /\ \A j \in 1..i : policy.rules[j].route \in local

=============================================================================
