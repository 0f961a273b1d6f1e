---------------------------- MODULE PolicyProofs ----------------------------
(***************************************************************************)
(* Facts about Policy.evaluate that hold for every policy.                 *)
(***************************************************************************)
EXTENDS Policy, SelectionProofs

(* When some rule matches, one of the rules up to it fires, and evaluate   *)
(* returns the decision of a rule that fires: the loop of Policy.evaluate  *)
(* neither skips a match nor runs past it.                                 *)
THEOREM FirstMatchFires ==
    ASSUME NEW policy \in PolicySpec, NEW sr,
           NEW i \in DOMAIN policy.rules, Matches(policy.rules[i].when, sr)
    PROVE  \E f \in 1..i : /\ f \in DOMAIN policy.rules
                           /\ Fires(policy, f, sr)
                           /\ Evaluate(policy, sr) = DecisionOf(policy.rules[f])
<1>. DEFINE T == {n \in DOMAIN policy.rules : Matches(policy.rules[n].when, sr)}
<1>1. policy.rules \in Seq(RuleSpec) /\ DOMAIN policy.rules = 1..Len(policy.rules)
         /\ Len(policy.rules) \in Nat
    BY DEF PolicySpec
<1>2. T \in SUBSET Nat /\ T # {}
    BY <1>1
<1>3. PICK m \in T : \A k \in T : m <= k
    BY <1>2, LeastOf
<1>4. m \in 1..i /\ Fires(policy, m, sr)
    BY <1>1, <1>3 DEF Fires
<1>. DEFINE f == CHOOSE n \in DOMAIN policy.rules : Fires(policy, n, sr)
<1>5. f \in DOMAIN policy.rules /\ Fires(policy, f, sr)
    BY <1>3, <1>4
<1>6. Evaluate(policy, sr) = DecisionOf(policy.rules[f])
    BY <1>5 DEF Evaluate
<1>. HIDE DEF f
<1>7. f \in 1..i
    <2>. SUFFICES ASSUME ~ (f <= i) PROVE FALSE
        BY <1>1, <1>5
    <2>1. i \in 1..(f - 1)
        BY <1>1, <1>5
    <2>. QED
        BY <1>5, <2>1 DEF Fires
<1>. QED
    BY <1>5, <1>6, <1>7

(* Rules after one that matches are ignored: two policies that agree up to *)
(* a rule that matches decide the same, so what is appended below a        *)
(* catch-all changes nothing (Policy.evaluate returns at the first match). *)
THEOREM LaterRulesIgnored ==
    ASSUME NEW policy \in PolicySpec, NEW edited \in PolicySpec, NEW sr,
           NEW i \in DOMAIN policy.rules, i \in DOMAIN edited.rules,
           \A j \in 1..i : edited.rules[j] = policy.rules[j],
           Matches(policy.rules[i].when, sr)
    PROVE  Evaluate(edited, sr) = Evaluate(policy, sr)
<1>1. i \in 1..i
    BY LenProperties DEF PolicySpec
<1>2. PICK f \in 1..i : Fires(policy, f, sr) /\ Evaluate(policy, sr) = DecisionOf(policy.rules[f])
    BY FirstMatchFires
<1>3. Matches(edited.rules[i].when, sr)
    BY <1>1
<1>4. PICK g \in 1..i : Fires(edited, g, sr) /\ Evaluate(edited, sr) = DecisionOf(edited.rules[g])
    BY <1>3, FirstMatchFires
<1>5. f = g
    <2>1. ~ Matches(policy.rules[g].when, sr) \/ ~ (g < f)
        BY <1>2 DEF Fires
    <2>2. ~ Matches(edited.rules[f].when, sr) \/ ~ (f < g)
        BY <1>4 DEF Fires
    <2>3. Matches(policy.rules[g].when, sr) /\ Matches(edited.rules[f].when, sr)
        BY <1>2, <1>4 DEF Fires
    <2>. QED
        BY <2>1, <2>2, <2>3
<1>. QED
    BY <1>2, <1>4, <1>5

(* Whatever evaluate returns is a decision of the policy: a known backend, *)
(* and a rule of the policy or none.                                       *)
LEMMA EvaluateType ==
    ASSUME NEW policy \in PolicySpec, NEW sr
    PROVE  Evaluate(policy, sr) \in RouteDecision
<1>1. CASE \E i \in DOMAIN policy.rules : Fires(policy, i, sr)
    <2>. DEFINE f == CHOOSE n \in DOMAIN policy.rules : Fires(policy, n, sr)
    <2>1. f \in DOMAIN policy.rules
        BY <1>1
    <2>2. policy.rules[f] \in RuleSpec
        BY <2>1 DEF PolicySpec
    <2>3. Evaluate(policy, sr) = DecisionOf(policy.rules[f])
        BY <1>1 DEF Evaluate
    <2>. QED
        BY <2>2, <2>3 DEF DecisionOf, RouteDecision, RuleSpec
<1>2. CASE ~ \E i \in DOMAIN policy.rules : Fires(policy, i, sr)
    BY <1>2 DEF Evaluate, DefaultDecision, RouteDecision, PolicySpec, Transforms
<1>. QED
    BY <1>1, <1>2

(* Under a policy that keeps the denied groups local, evaluate sends every *)
(* prompt with one of them to a backend of local ("a correct policy        *)
(* already routes these groups to a local backend", DenyCloudSpec).        *)
THEOREM DeniedEvaluatesLocal ==
    ASSUME NEW policy \in PolicySpec, NEW sr \in ShieldResult, NEW local,
           KeepsDeniedLocal(policy, local),
           sr.groups \cap DeniedGroups(policy) # {}
    PROVE  Evaluate(policy, sr).backend_id \in local
<1>1. PICK i \in DOMAIN policy.rules :
          /\ DeniedGroups(policy) \subseteq policy.rules[i].when.groups_include
          /\ policy.rules[i].when =
               [Always EXCEPT !.groups_include = policy.rules[i].when.groups_include]
          /\ \A j \in 1..i : policy.rules[j].route \in local
    BY DEF KeepsDeniedLocal
<1>2. Matches(policy.rules[i].when, sr)
    <2>. DEFINE when == policy.rules[i].when
    <2>1. /\ when.groups_exclude = {}
          /\ when.sensitivity_score_gte = 0
          /\ when.sensitivity_score_lt = MaxScore + 1
          /\ when.category_in = {}
          /\ when.category_not_in = {}
        BY <1>1 DEF Always
    <2>2. SomeOf(when.groups_include, sr.groups)
        BY <1>1 DEF SomeOf
    <2>3. sr.score \in 0..MaxScore
        BY DEF ShieldResult
    <2>. QED
        BY <2>1, <2>2, <2>3, MaxScoreAssumption DEF Matches, SomeOf
<1>3. PICK f \in 1..i : Evaluate(policy, sr) = DecisionOf(policy.rules[f])
    BY <1>2, FirstMatchFires
<1>. QED
    BY <1>1, <1>3 DEF DecisionOf

=============================================================================
