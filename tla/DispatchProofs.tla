--------------------------- MODULE DispatchProofs ---------------------------
(***************************************************************************)
(* The safety properties of Dispatch, proved for every command line, every *)
(* content of the files and every edit of them.  First what the two loops  *)
(* compute, then the inductive invariant clause by clause.                 *)
(***************************************************************************)
EXTENDS DispatchInvariant, PolicyProofs, SequenceTheorems

-----------------------------------------------------------------------------
(* The scan of the rules.                                                  *)

(* Leaving _matches at the first predicate that fails is not matching.     *)
LEMMA FailsIsNoMatch ==
    ASSUME NEW when \in WhenClause, NEW sr \in ShieldResult
    PROVE  Fails(when, sr) <=> ~Matches(when, sr)
<1>1. /\ when.sensitivity_score_gte \in Int /\ when.sensitivity_score_lt \in Int
      /\ sr.score \in Int
    BY MaxScoreAssumption DEF WhenClause, ShieldResult
<1>2. sr.score < when.sensitivity_score_gte <=> ~(sr.score >= when.sensitivity_score_gte)
    BY <1>1
<1>3. sr.score >= when.sensitivity_score_lt <=> ~(sr.score < when.sensitivity_score_lt)
    BY <1>1
<1>4. /\ sr.groups \cap when.groups_exclude = when.groups_exclude \cap sr.groups
      /\ sr.categories \cap when.category_not_in = when.category_not_in \cap sr.categories
      /\ sr.groups \cap when.groups_include = when.groups_include \cap sr.groups
      /\ sr.categories \cap when.category_in = when.category_in \cap sr.categories
    OBVIOUS
<1>. QED
    BY <1>2, <1>3, <1>4, Zenon DEF Fails, Matches, SomeOf

(* The first rule that matches gives the decision of Evaluate,             *)
LEMMA ScanFinds ==
    ASSUME NEW policy \in PolicySpec, NEW sr, NEW i \in 1..Len(policy.rules),
           Matches(policy.rules[i].when, sr),
           \A j \in 1..(i - 1) : ~Matches(policy.rules[j].when, sr)
    PROVE  DecisionOf(policy.rules[i]) = Evaluate(policy, sr)
<1>1. policy.rules \in Seq(RuleSpec) /\ DOMAIN policy.rules = 1..Len(policy.rules)
         /\ Len(policy.rules) \in Nat
    BY DEF PolicySpec
<1>2. PICK f \in 1..i : /\ f \in DOMAIN policy.rules
                        /\ Fires(policy, f, sr)
                        /\ Evaluate(policy, sr) = DecisionOf(policy.rules[f])
    BY <1>1, FirstMatchFires
<1>3. f = i
    BY <1>1, <1>2 DEF Fires
<1>. QED
    BY <1>2, <1>3

(* and when none does, the default does.                                   *)
LEMMA ScanEnds ==
    ASSUME NEW policy \in PolicySpec, NEW sr,
           \A j \in 1..Len(policy.rules) : ~Matches(policy.rules[j].when, sr)
    PROVE  DefaultDecision(policy) = Evaluate(policy, sr)
<1>1. policy.rules \in Seq(RuleSpec) /\ DOMAIN policy.rules = 1..Len(policy.rules)
    BY DEF PolicySpec
<1>. QED
    BY <1>1 DEF Evaluate, Fires

-----------------------------------------------------------------------------
(* The scan of the price table.                                            *)

(* Two prefixes of one name that are of one length are the same.           *)
LEMMA PrefixByLength ==
    ASSUME NEW model, NEW s \in KnownPrefixes(model), NEW t \in KnownPrefixes(model),
           Len(s) = Len(t)
    PROVE  s = t
BY DEF KnownPrefixes, PrefixOf

(* What the scan leaves in best decides the price.                         *)
LEMMA ScanPrices ==
    ASSUME NEW model, NEW b \in DOMAIN PriceTable \cup {None},
           b # None => b \in KnownPrefixes(model),
           \A name \in KnownPrefixes(model) : b # None /\ Len(name) <= Len(b)
    PROVE  PricePerM(model) = IF b = None THEN DefaultPrice ELSE PriceTable[b]
<1>1. CASE b = None
    <2>1. KnownPrefixes(model) = {}
        BY <1>1
    <2>. QED
        BY <1>1, <2>1 DEF PricePerM
<1>2. CASE b # None
    <2>. DEFINE longest == CHOOSE name \in KnownPrefixes(model) :
                              \A other \in KnownPrefixes(model) : Len(other) <= Len(name)
    <2>1. longest \in KnownPrefixes(model) /\ Len(b) <= Len(longest)
        BY <1>2
    <2>2. Len(longest) <= Len(b)
        BY <1>2, <2>1
    <2>3. Len(longest) \in Nat /\ Len(b) \in Nat
        BY <1>2, <2>1, PriceTableAssumption, LenProperties DEF KnownPrefixes
    <2>. HIDE DEF longest
    <2>4. longest = b
        BY <1>2, <2>1, <2>2, <2>3, PrefixByLength
    <2>5. PricePerM(model) = PriceTable[longest]
        BY <1>2 DEF PricePerM, longest
    <2>. QED
        BY <1>2, <2>4, <2>5
<1>. QED
    BY <1>1, <1>2

(* A name is at least as long as its prefixes.                             *)
LEMMA PrefixShorter ==
    ASSUME NEW model, NEW name \in KnownPrefixes(model)
    PROVE  Len(name) <= Len(model)
BY DEF KnownPrefixes, PrefixOf

(* A price is a float that is not negative.                                *)
LEMMA PriceType == ASSUME NEW model, Len(model) \in Nat PROVE PricePerM(model) \in Nat
<1>1. CASE KnownPrefixes(model) = {}
    BY <1>1, PriceTableAssumption DEF PricePerM
<1>2. CASE KnownPrefixes(model) # {}
    <2>. DEFINE room == {Len(model) - Len(name) : name \in KnownPrefixes(model)}
    <2>1. \A name \in KnownPrefixes(model) : Len(name) \in Nat /\ Len(name) <= Len(model)
        BY PrefixShorter, PriceTableAssumption, LenProperties DEF KnownPrefixes
    <2>2. room \in SUBSET Nat /\ room # {}
        BY <1>2, <2>1
    <2>3. PICK m \in room : \A k \in room : m <= k
        BY <2>2, LeastOf
    <2>4. PICK most \in KnownPrefixes(model) : m = Len(model) - Len(most)
        BY <2>3
    <2>5. ASSUME NEW other \in KnownPrefixes(model) PROVE Len(other) <= Len(most)
        <3>1. Len(model) - Len(most) <= Len(model) - Len(other)
            BY <2>3, <2>4
        <3>. QED
            BY <2>1, <3>1
    <2>. DEFINE longest == CHOOSE name \in KnownPrefixes(model) :
                              \A other \in KnownPrefixes(model) : Len(other) <= Len(name)
    <2>6. longest \in KnownPrefixes(model)
        BY <2>5
    <2>7. PricePerM(model) = PriceTable[longest]
        BY <1>2 DEF PricePerM
    <2>. HIDE DEF longest
    <2>. QED
        BY <2>6, <2>7, PriceTableAssumption DEF KnownPrefixes
<1>. QED
    BY <1>1, <1>2

-----------------------------------------------------------------------------
(* The rounding of the estimate.                                           *)

(* Multiplication by a natural number is monotonic.                        *)
LEMMA TimesMonotonic ==
    ASSUME NEW a \in Int, NEW b \in Int, a <= b, NEW k \in Nat
    PROVE  a * k <= b * k
<1>1. PICK j \in Nat : b = a + j
    BY b - a \in Nat, b = a + (b - a)
<1>2. j * k \in Nat
    OBVIOUS
<1>3. b * k = a * k + j * k
    BY <1>1
<1>4. a * k \in Int
    OBVIOUS
<1>. QED
    BY <1>2, <1>3, <1>4

(* There is a distance between the floats around a quotient.               *)
LEMMA SpacingType ==
    ASSUME NEW n \in Nat, NEW d \in Nat \ {0}
    PROVE  Spacing(n, d) \in Nat \ {0}
<1>. DEFINE fit == {s \in Spacings : s = 1 \/ s * Mantissa * d <= 2 * n}
<1>1. 1 \in fit /\ fit \subseteq Nat \ {0}
    BY FloatAssumption
<1>2. PICK largest \in Nat : \A s \in fit : s <= largest
    BY FloatAssumption
<1>. HIDE DEF fit
<1>. DEFINE room == {largest - s : s \in fit}
<1>3. room \in SUBSET Nat /\ room # {}
    BY <1>1, <1>2
<1>4. PICK m \in room : \A k \in room : m <= k
    BY <1>3, LeastOf
<1>5. PICK most \in fit : m = largest - most
    BY <1>4
<1>6. ASSUME NEW s \in fit PROVE most >= s
    <2>1. largest - most <= largest - s
        BY <1>4, <1>5
    <2>. QED
        BY <1>1, <2>1
<1>7. Max(fit) \in fit
    BY <1>5, <1>6 DEF Max
<1>. QED
    BY <1>1, <1>7 DEF Spacing, fit

(* An integer is at most half away from the quotient it is rounded from.   *)
LEMMA HalfEvenNear ==
    ASSUME NEW n \in Nat, NEW d \in Nat \ {0}
    PROVE  /\ HalfEven(n, d) \in Nat
           /\ 2 * (HalfEven(n, d) * d - n) <= d
           /\ 2 * (n - HalfEven(n, d) * d) <= d
<1>. DEFINE down == n \div d
            rest == n % d
<1>1. down \in Nat /\ rest \in 0..(d - 1) /\ n = down * d + rest
    OBVIOUS
<1>2. (down + 1) * d = down * d + d /\ down * d \in Nat
    BY <1>1
<1>3. HalfEven(n, d) = IF 2 * rest < d \/ (2 * rest = d /\ down % 2 = 0) THEN down ELSE down + 1
    BY DEF HalfEven
<1>. HIDE DEF down, rest
<1>4. CASE HalfEven(n, d) = down /\ 2 * rest <= d
    BY <1>1, <1>2, <1>4
<1>5. CASE HalfEven(n, d) = down + 1 /\ 2 * rest >= d
    BY <1>1, <1>2, <1>5
<1>. QED
    BY <1>1, <1>3, <1>4, <1>5

(* A float is at most half a distance away from what it is rounded from.   *)
LEMMA RoundedNear ==
    ASSUME NEW n \in Nat, NEW d \in Nat \ {0}
    PROVE  /\ DividedBy(d)[n] \in Nat
           /\ 2 * (DividedBy(d)[n] * d - n) <= Spacing(n, d) * d
           /\ 2 * (n - DividedBy(d)[n] * d) <= Spacing(n, d) * d
<1>. DEFINE s == Spacing(n, d)
            h == HalfEven(n, s * d)
<1>1. s \in Nat \ {0}
    BY SpacingType
<1>. HIDE DEF s
<1>2. s * d \in Nat \ {0}
    BY <1>1
<1>3. h \in Nat /\ 2 * (h * (s * d) - n) <= s * d /\ 2 * (n - h * (s * d)) <= s * d
    BY <1>2, HalfEvenNear
<1>4. DividedBy(d)[n] = s * h
    BY DEF DividedBy, s
<1>. HIDE DEF h
<1>5. (s * h) * d = h * (s * d) /\ s * h \in Nat
    BY <1>1, <1>3
<1>. QED
    BY <1>3, <1>4, <1>5 DEF s

LEMMA TokenCountType == ASSUME NEW length \in Nat PROVE TokenCount(length) \in Nat
<1>1. length * One \in Nat /\ One \in Nat
    BY FloatAssumption
<1>. QED
    BY <1>1, RoundedNear DEF TokenCount

(* The estimate is near the exact cost.                                    *)
LEMMA EstimateNear ==
    ASSUME NEW price \in Nat, NEW length \in Nat
    PROVE  /\ CostAt(price, length) \in Nat
           /\ 2 * (CostAt(price, length) * Scale) <= 2 * Exact(price, length) + Slack(price, length)
           /\ 2 * Exact(price, length) <= 2 * (CostAt(price, length) * Scale) + Slack(price, length)
           /\ Scale \in Nat \ {0} /\ Exact(price, length) \in Nat /\ Slack(price, length) \in Int
<1>. DEFINE T == TokenCount(length)
            q == DividedBy(PriceUnit)[T]
            c == DividedBy(One)[q * price]
            s == Spacing(T, PriceUnit)
            t == Spacing(q * price, One)
<1>1. T \in Nat /\ One \in Nat \ {0} /\ PriceUnit \in Nat \ {0}
    BY TokenCountType, FloatAssumption
<1>2. /\ q \in Nat /\ s \in Nat
      /\ 2 * (q * PriceUnit - T) <= s * PriceUnit /\ 2 * (T - q * PriceUnit) <= s * PriceUnit
    BY <1>1, RoundedNear, SpacingType
<1>3. q * price \in Nat
    BY <1>2
<1>4. /\ c \in Nat /\ t \in Nat
      /\ 2 * (c * One - q * price) <= t * One /\ 2 * (q * price - c * One) <= t * One
    BY <1>1, <1>3, RoundedNear, SpacingType
<1>5. /\ CostAt(price, length) = c /\ Exact(price, length) = T * price
      /\ Slack(price, length) = PriceUnit * (t * One + s * price)
    BY DEF CostAt, Exact, Slack
<1>. HIDE DEF T, q, c, s, t
<1>6. /\ (2 * (q * PriceUnit - T)) * price <= (s * PriceUnit) * price
      /\ (2 * (T - q * PriceUnit)) * price <= (s * PriceUnit) * price
    <2>1. \A u, v \in Int : u \in Int /\ v \in Int /\ u * v \in Int /\ u - v \in Int
        OBVIOUS
    <2>. QED
        BY <1>1, <1>2, <2>1, TimesMonotonic
<1>7. /\ (2 * (c * One - q * price)) * PriceUnit <= (t * One) * PriceUnit
      /\ (2 * (q * price - c * One)) * PriceUnit <= (t * One) * PriceUnit
    <2>1. \A u, v \in Int : u \in Int /\ v \in Int /\ u * v \in Int /\ u - v \in Int
        OBVIOUS
    <2>. QED
        BY <1>1, <1>3, <1>4, <2>1, TimesMonotonic
<1>8. Scale \in Nat \ {0} /\ Scale = One * PriceUnit
    BY <1>1 DEF Scale
<1>. QED
    BY <1>1, <1>2, <1>3, <1>4, <1>5, <1>6, <1>7, <1>8

(* On a ceiling that is not next to it the exact cost decides.             *)
LEMMA ClearlyDecides ==
    ASSUME NEW price \in Nat, NEW length \in Nat, NEW ceiling \in Int
    PROVE  /\ CostAt(price, length) > ceiling =>
                 ~ (2 * Exact(price, length) + Slack(price, length) <= 2 * ceiling * Scale)
           /\ ~ (CostAt(price, length) > ceiling) =>
                 ~ (2 * Exact(price, length) > 2 * ceiling * Scale + Slack(price, length))
<1>. DEFINE c == CostAt(price, length)
            exact == Exact(price, length)
            slack == Slack(price, length)
<1>1. /\ c \in Nat /\ Scale \in Nat \ {0} /\ exact \in Nat /\ slack \in Int
      /\ 2 * (c * Scale) <= 2 * exact + slack /\ 2 * exact <= 2 * (c * Scale) + slack
    BY EstimateNear
<1>. HIDE DEF c, exact, slack
<1>2. /\ c * Scale \in Int /\ ceiling * Scale \in Int
      /\ 2 * ceiling * Scale = 2 * (ceiling * Scale)
      /\ (ceiling + 1) * Scale = ceiling * Scale + Scale
    BY <1>1
<1>3. CASE c > ceiling
    <2>1. (ceiling + 1) * Scale <= c * Scale
        BY <1>1, <1>3, TimesMonotonic
    <2>. QED
        BY <1>1, <1>2, <1>3, <2>1 DEF c, exact, slack
<1>4. CASE c <= ceiling
    <2>1. c * Scale <= ceiling * Scale
        BY <1>1, <1>4, TimesMonotonic
    <2>. QED
        BY <1>1, <1>2, <1>4, <2>1 DEF c, exact, slack
<1>. QED
    BY <1>1, <1>3, <1>4

-----------------------------------------------------------------------------
(* Exceptions.                                                             *)

(* No except clause makes an error look like a success.                    *)
LEMMA HandlerStatus ==
    ASSUME NEW verb, NEW stage, NEW e \in DOMAIN Handlers(verb, stage)
    PROVE  /\ Handlers(verb, stage)[e] \in {"exit 1", "exit 2"}
           /\ verb = "route" /\ stage = "chat" => Handlers(verb, stage)[e] = "exit 1"
<1>. DEFINE handlers == Handlers(verb, stage)
<1>1. CASE verb = "route" /\ stage = "load"
    BY <1>1 DEF Handlers
<1>2. CASE verb = "route" /\ stage = "route"
    BY <1>2 DEF Handlers
<1>3. CASE verb = "route" /\ stage = "chat"
    BY <1>3 DEF Handlers
<1>4. CASE verb = "dry-run"
    BY <1>4 DEF Handlers
<1>5. CASE verb = "validate"
    BY <1>5 DEF Handlers
<1>6. CASE verb = "serve-mcp" /\ stage = "load"
    BY <1>6 DEF Handlers
<1>7. CASE ~ \/ verb = "route" /\ stage \in {"load", "route", "chat"}
             \/ verb \in {"dry-run", "validate"}
             \/ verb = "serve-mcp" /\ stage = "load"
    BY <1>7 DEF Handlers
<1>. QED
    BY <1>1, <1>2, <1>3, <1>4, <1>5, <1>6, <1>7

(* Where an exception leads, and that a failed dispatch is no exit 2.      *)
LEMMA RaiseMeans ==
    ASSUME NEW e, Raise(e)
    PROVE  /\ error' = e /\ shown' = None
           /\ \/ IsServer /\ pc # "load" /\ pc' = "serving" /\ status' = status
              \/ /\ pc' = "done" /\ status' \in {"exit 1", "exit 2", "traceback"}
                 /\ ~IsServer \/ pc = "load"
                 /\ cmd.verb = "route" /\ pc \in {"chat", "wait"} => status' # "exit 2"
<1>1. CASE IsServer /\ pc # "load"
    BY <1>1 DEF Raise
<1>2. CASE ~(IsServer /\ pc # "load")
    <2>. DEFINE how == IF e \in DOMAIN Handlers(cmd.verb, Stage)
                        THEN Handlers(cmd.verb, Stage)[e] ELSE "traceback"
    <2>1. error' = e /\ shown' = None /\ pc' = "done" /\ status' = how
        BY <1>2 DEF Raise, Exit
    <2>2. CASE e \in DOMAIN Handlers(cmd.verb, Stage)
        <3>1. /\ how \in {"exit 1", "exit 2"}
              /\ cmd.verb = "route" /\ Stage = "chat" => how = "exit 1"
            BY <2>2, HandlerStatus, Zenon
        <3>2. pc \in {"chat", "wait"} => Stage = "chat"
            BY DEF Stage
        <3>. HIDE DEF how
        <3>. QED
            BY <1>2, <2>1, <3>1, <3>2
    <2>3. CASE e \notin DOMAIN Handlers(cmd.verb, Stage)
        BY <1>2, <2>1, <2>3, Zenon
    <2>. QED
        BY <2>2, <2>3
<1>. QED
    BY <1>1, <1>2

-----------------------------------------------------------------------------
(* Types.                                                                  *)

(* Where a process is once it has loaded.                                  *)
LEMMA LoadedMeans ==
    ASSUME NEW r, Loaded(r)
    PROVE  /\ router' = r /\ error' = error /\ shown' = shown
           /\ \/ cmd.verb = "validate" /\ pc' = "done" /\ status' = "exit 0"
              \/ cmd.verb = "route" /\ pc' = "prompt" /\ status' = status
              \/ cmd.verb = "dry-run" /\ pc' = "enter" /\ status' = status
              \/ cmd.verb \notin {"validate", "route", "dry-run"} /\ pc' = "serving"
                    /\ status' = status
<1>1. CASE cmd.verb = "validate"
    BY <1>1 DEF Loaded, Exit
<1>2. CASE cmd.verb # "validate"
    BY <1>2 DEF Loaded
<1>. QED
    BY <1>1, <1>2

LEMMA DeclaredType ==
    ASSUME NEW c \in Configs \ {None}
    PROVE  Declared(c.backends) \in SUBSET BackendDescriptor
<1>1. c \in ConfigFile
    BY DispatchAssumption
<1>2. ASSUME NEW b \in ToSet(c.backends) PROVE b.id \in Backends
    <2>1. PICK i \in DOMAIN c.backends : b = c.backends[i]
        BY <1>2 DEF ToSet
    <2>2. c.backends \in Seq(BackendEntry)
        BY <1>1 DEF ConfigFile
    <2>3. c.backends[i] \in BackendEntry
        BY <2>1, <2>2
    <2>4. b.id \in Backends
        BY <2>1, <2>3 DEF BackendEntry
    <2>. QED
        BY <2>4
<1>3. ASSUME NEW d \in Declared(c.backends) PROVE d \in BackendDescriptor
    <2>1. PICK b \in ToSet(c.backends) :
             d = [backend_id |-> b.id, is_local |-> b.kind \in LocalKinds]
        BY <1>3 DEF Declared
    <2>. QED
        BY <1>2, <2>1 DEF BackendDescriptor
<1>. QED
    BY <1>3

LEMMA QueryOfType ==
    ASSUME NEW c \in Commands
    PROVE  /\ QueryOf(c) \in Query
           /\ QueryOf(c).budget_ceiling =
                 IF c.verb = "dry-run" THEN None
                 ELSE IF c.budget_ceiling = None THEN Unset ELSE c.budget_ceiling
<1>1. c \in Command
    BY DispatchAssumption
<1>. QED
    BY <1>1 DEF QueryOf, Query, Command

(* A loader raises, or makes a Router of a policy and of backends.         *)
LEMMA LoadMeans ==
    ASSUME TypeOK, LoadConfig \/ LoadPolicy
    PROVE  /\ pc = "load" /\ UNCHANGED <<files, edits, cmd, query, tools, sent>>
           /\ UNCHANGED <<todo, best, found, at, decided, config, backend>>
           /\ \/ UNCHANGED router /\ \E e \in Errors \ {"BudgetCeilingExceeded"} : Raise(e)
              \/ \E r \in RouterObject :
                    /\ Loaded(r) /\ (LoadsConfig \/ LoadsPolicy)
                    /\ r.local_known = (r.backends # {})
                    /\ r.local_backends = {b.backend_id : b \in {d \in r.backends : d.is_local}}
<1>1. pc = "load" /\ UNCHANGED <<files, edits, cmd, query, tools, sent>>
      /\ UNCHANGED <<todo, best, found, at, decided, config, backend>>
    BY DEF LoadConfig, LoadPolicy, world, call, target
<1>2. CASE (\E e \in LoadErrors : Raise(e)) /\ UNCHANGED router
    <2>1. LoadErrors \subseteq Errors \ {"BudgetCeilingExceeded"}
        BY DEF LoadErrors, Errors, RouterErrors
    <2>. QED
        BY <1>1, <1>2, <2>1
<1>3. CASE files.policy = None /\ Raise("PolicyError") /\ UNCHANGED router
    BY <1>1, <1>3 DEF Errors
<1>4. ASSUME NEW policy, NEW backends \in SUBSET BackendDescriptor, files.policy # None,
             policy = files.policy, Loaded(NewRouter(policy, backends, FALSE, {})),
             LoadsConfig \/ LoadsPolicy
      PROVE  \E r \in RouterObject :
                /\ Loaded(r) /\ (LoadsConfig \/ LoadsPolicy)
                /\ r.local_known = (r.backends # {})
                /\ r.local_backends = {b.backend_id : b \in {d \in r.backends : d.is_local}}
    <2>. DEFINE r == NewRouter(policy, backends, FALSE, {})
    <2>1. policy \in PolicySpec
        BY <1>4, DispatchAssumption DEF TypeOK
    <2>2. /\ r \in RouterObject
          /\ r.local_known = (r.backends # {})
          /\ r.local_backends = {b.backend_id : b \in {d \in r.backends : d.is_local}}
        BY <2>1 DEF NewRouter, RouterObject, BackendDescriptor
    <2>3. Loaded(r)
        BY <1>4
    <2>. HIDE DEF r
    <2>. QED
        BY <1>4, <2>2, <2>3
<1>5. CASE files.policy # None /\ Loaded(NewRouter(files.policy, {}, FALSE, {})) /\ LoadsPolicy
    <2>1. {} \in SUBSET BackendDescriptor
        OBVIOUS
    <2>. QED
        BY <1>1, <1>4, <1>5, <2>1
<1>6. CASE /\ files.config # None /\ files.policy # None /\ LoadsConfig
           /\ Loaded(NewRouter(files.policy, Declared(files.config.backends), FALSE, {}))
    <2>1. Declared(files.config.backends) \in SUBSET BackendDescriptor
        BY <1>6, DeclaredType DEF TypeOK
    <2>. QED
        BY <1>1, <1>4, <1>6, <2>1
<1>. QED
    BY <1>2, <1>3, <1>5, <1>6 DEF LoadConfig, LoadPolicy

LEMMA RaiseType ==
    ASSUME TypeOK, NEW e \in Errors, Raise(e)
    PROVE  /\ error' \in Errors \cup {None} /\ shown' = None
           /\ pc' \in {"serving", "done"} /\ status' \in Statuses \cup {None}
<1>1. status \in Statuses \cup {None}
    BY DEF TypeOK
<1>2. /\ error' = e /\ shown' = None
      /\ \/ pc' = "serving" /\ status' = status
         \/ pc' = "done" /\ status' \in {"exit 1", "exit 2", "traceback"}
    BY RaiseMeans
<1>. QED
    BY <1>1, <1>2 DEF Statuses

LEMMA TypeInit == Init => TypeOK
<1>1. Init => /\ files \in [config : Configs, policy : Policies] /\ edits \in 0..MaxEdits
              /\ at \in Nat \ {0} /\ tools \in 0..MaxTools
    BY DispatchAssumption DEF Init
<1>. QED
    BY <1>1 DEF Init, TypeOK, Evaluated, Routing

LEMMA TypeStep == IInv /\ [Next]_vars => TypeOK'
<1>. SUFFICES ASSUME IInv, [Next]_vars PROVE TypeOK'
    OBVIOUS
<1>. TypeOK
    BY DEF IInv
<1>. USE DEF world, call, target, result
<1>1. CASE Start
    BY <1>1 DEF Start, TypeOK, Evaluated
<1>2. CASE LoadConfig \/ LoadPolicy
    <2>1. ASSUME NEW e \in Errors, Raise(e), UNCHANGED router PROVE TypeOK'
        BY <1>2, <2>1, LoadMeans, RaiseType DEF TypeOK, Evaluated, Routing
    <2>2. ASSUME NEW r \in RouterObject, Loaded(r) PROVE TypeOK'
        <3>1. /\ router' = r /\ error' = error /\ shown' = shown
              /\ pc' \in {"done", "prompt", "enter", "serving"} /\ status' \in {status, "exit 0"}
            BY <2>2, LoadedMeans
        <3>. QED
            BY <1>2, <2>2, <3>1, LoadMeans DEF TypeOK, Statuses, Evaluated, Routing
    <2>3. \/ UNCHANGED router /\ \E e \in Errors : Raise(e)
          \/ \E r \in RouterObject : Loaded(r)
        BY <1>2, LoadMeans
    <2>. QED
        BY <2>1, <2>2, <2>3
<1>4. CASE NothingToLoad
    BY <1>4 DEF NothingToLoad, Exit, TypeOK, Statuses, Evaluated
<1>5. CASE ReadPrompt
    <2>1. CASE cmd.length = 0 /\ Exit("exit 2") /\ UNCHANGED call
        BY <1>5, <2>1 DEF ReadPrompt, Exit, TypeOK, Statuses, Evaluated
    <2>2. CASE cmd.length > 0 /\ Ask(QueryOf(cmd)) /\ pc' \in {"load", "enter"} /\ UNCHANGED status
        <3>1. cmd \in Commands
            BY <1>5 DEF IInv, ProcessOK, TypeOK, ReadPrompt
        <3>2. QueryOf(cmd) \in Query
            BY <3>1, QueryOfType
        <3>3. /\ query' \in Query /\ todo' = DOMAIN PriceTable /\ best' = None
              /\ found' = None /\ at' = 1 /\ decided' = None
            BY <2>2, <3>2 DEF Ask
        <3>4. UNCHANGED <<world, cmd, router, tools, sent, result>>
            BY <1>5, <2>2 DEF ReadPrompt
        <3>. QED
            BY <2>2, <3>3, <3>4 DEF TypeOK, Evaluated, Routing
    <2>. QED
        BY <1>5, <2>1, <2>2 DEF ReadPrompt
<1>6. CASE Enter
    <2>1. CASE Raise("UnicodeEncodeError")
        BY <1>6, <2>1, RaiseType DEF Enter, TypeOK, Errors, Evaluated, Routing
    <2>2. CASE pc' \in {"shield", "price"} /\ UNCHANGED result
        BY <1>6, <2>2 DEF Enter, TypeOK, Evaluated, Routing
    <2>. QED
        BY <1>6, <2>1, <2>2 DEF Enter
<1>7. CASE LookUpPrice
    BY <1>7 DEF LookUpPrice, TypeOK
<1>8. CASE CheckBudget
    <2>1. CASE Raise("BudgetCeilingExceeded")
        BY <1>8, <2>1, RaiseType DEF CheckBudget, TypeOK, Errors, RouterErrors, Evaluated, Routing
    <2>2. CASE pc' = "shield" /\ UNCHANGED result
        BY <1>8, <2>2 DEF CheckBudget, TypeOK, Evaluated, Routing
    <2>. QED
        BY <1>8, <2>1, <2>2 DEF CheckBudget
<1>9. CASE Analyze
    <2>1. CASE found' \in Analyses /\ pc' = "rules" /\ UNCHANGED result
        BY <1>9, <2>1 DEF Analyze, TypeOK, Evaluated, Routing
    <2>2. ASSUME NEW e \in Errors, Raise(e), UNCHANGED found PROVE TypeOK'
        BY <1>9, <2>2, RaiseType DEF Analyze, TypeOK, Evaluated, Routing
    <2>. QED
        BY <1>9, <2>1, <2>2 DEF Analyze, Errors, RouterErrors
<1>10. CASE TryRule
    <2>. DEFINE rules == router.policy.rules
    <2>1. router \in RouterObject /\ pc = "rules"
        BY <1>10 DEF IInv, ProcessOK, Routing, TypeOK, TryRule
    <2>2. router.policy \in PolicySpec /\ rules \in Seq(RuleSpec)
        BY <2>1 DEF RouterObject, PolicySpec
    <2>3. CASE at > Len(rules)
        <3>1. decided' = DefaultDecision(router.policy) /\ pc' = "guard" /\ UNCHANGED at
            BY <1>10, <2>3 DEF TryRule
        <3>2. decided' \in RouteDecision
            BY <2>2, <3>1 DEF DefaultDecision, RouteDecision, PolicySpec, Transforms
        <3>. QED
            BY <1>10, <3>1, <3>2, DispatchAssumption DEF TryRule, TypeOK, Evaluated, Routing
    <2>4. CASE at <= Len(rules) /\ Fails(rules[at].when, found)
        BY <1>10, <2>2, <2>4 DEF TryRule, TypeOK, Evaluated, Routing
    <2>5. CASE at <= Len(rules) /\ ~Fails(rules[at].when, found)
        <3>1. decided' = DecisionOf(rules[at]) /\ pc' = "guard" /\ UNCHANGED at
            BY <1>10, <2>2, <2>5 DEF TryRule, TypeOK
        <3>2. rules[at] \in RuleSpec
            BY <2>2, <2>5 DEF TypeOK
        <3>3. decided' \in RouteDecision
            BY <3>1, <3>2 DEF DecisionOf, RouteDecision, RuleSpec
        <3>. QED
            BY <1>10, <3>1, <3>3, DispatchAssumption DEF TryRule, TypeOK, Evaluated, Routing
    <2>. QED
        BY <2>2, <2>3, <2>4, <2>5 DEF TypeOK
<1>11. CASE Guard
    <2>1. CASE Raise("CloudRouteDeniedError")
        BY <1>11, <2>1, RaiseType DEF Guard, TypeOK, Errors, RouterErrors, Evaluated, Routing
    <2>2. CASE pc' = "decided" /\ UNCHANGED result
        BY <1>11, <2>2 DEF Guard, TypeOK, Evaluated, Routing
    <2>. QED
        BY <1>11, <2>1, <2>2 DEF Guard
<1>12. CASE Deliver
    <2>1. decided \in RouteDecision
        BY <1>12 DEF Deliver, TypeOK, Evaluated
    <2>2. CASE pc' = "resolve" /\ UNCHANGED <<shown, status>>
        BY <1>12, <2>2 DEF Deliver, TypeOK, Evaluated
    <2>3. CASE shown' = Shown(None) /\ Exit("exit 0")
        BY <1>12, <2>1, <2>3 DEF Deliver, Shown, Report, Exit, TypeOK, Statuses, Evaluated
    <2>. QED
        BY <1>12, <2>2, <2>3 DEF Deliver
<1>13. CASE Return
    <2>1. decided \in RouteDecision
        BY <1>13 DEF Return, TypeOK, Evaluated
    <2>2. CASE Raise("ShieldError")
        BY <1>13, <2>2, RaiseType DEF Return, TypeOK, Errors, Evaluated, Routing
    <2>3. CASE /\ pc' = "serving" /\ UNCHANGED <<error, status>>
               /\ \E text \in {None, "prompt", "redacted"} : shown' = Shown(text)
        BY <1>13, <2>1, <2>3 DEF Return, Shown, Report, TypeOK, Evaluated
    <2>. QED
        BY <1>13, <2>2, <2>3 DEF Return
<1>14. CASE Resolve
    <2>1. CASE Exit("exit 2") /\ UNCHANGED <<shown, error>>
        BY <1>14, <2>1 DEF Resolve, Exit, TypeOK, Statuses, Evaluated
    <2>2. CASE Raise("ConfigError")
        BY <1>14, <2>2, RaiseType DEF Resolve, TypeOK, Errors, RouterErrors, Evaluated, Routing
    <2>3. CASE pc' = "build" /\ UNCHANGED <<shown, error, status>>
        BY <1>14, <2>3 DEF Resolve, TypeOK, Evaluated
    <2>. QED
        BY <1>14, <2>1, <2>2, <2>3 DEF Resolve
<1>15. CASE BuildAdapter
    <2>1. CASE pc' = "chat" /\ UNCHANGED result
        BY <1>15, <2>1 DEF BuildAdapter, TypeOK, Evaluated
    <2>2. ASSUME NEW e \in Errors, Raise(e) PROVE TypeOK'
        BY <1>15, <2>2, RaiseType DEF BuildAdapter, TypeOK, Evaluated, Routing
    <2>. QED
        BY <1>15, <2>1, <2>2 DEF BuildAdapter, Errors, RouterErrors
<1>16. CASE Send
    <2>1. CASE /\ pc' = "wait" /\ UNCHANGED result
               /\ sent' = Append(sent, [id |-> backend.id, kind |-> backend.kind,
                                        host |-> HostOf(backend), text |-> "prompt"])
        <3>1. PICK i \in DOMAIN config : config \in {c.backends : c \in Configs \ {None}}
                                        /\ backend = config[i]
            BY <1>16 DEF IInv, TargetOK, Dispatching, Send
        <3>2. config \in Seq(BackendEntry)
            BY <3>1, DispatchAssumption DEF ConfigFile
        <3>3. backend \in BackendEntry
            BY <3>1, <3>2
        <3>4. sent = <<>>
            BY <1>16 DEF IInv, SentOK, Send
        <3>5. \A k \in DOMAIN sent' : sent'[k] = [id |-> backend.id, kind |-> backend.kind,
                                        host |-> HostOf(backend), text |-> "prompt"]
            BY <2>1, <3>4
        <3>. QED
            BY <1>16, <2>1, <3>3, <3>5 DEF Send, TypeOK, Evaluated, BackendEntry
    <2>2. CASE Raise("DispatchError") /\ UNCHANGED sent
        BY <1>16, <2>2, RaiseType DEF Send, TypeOK, Errors, Evaluated, Routing
    <2>. QED
        BY <1>16, <2>1, <2>2 DEF Send
<1>17. CASE Receive
    <2>1. CASE shown' = Shown("output") /\ Exit("exit 0") /\ UNCHANGED error
        BY <1>17, <2>1 DEF Receive, Shown, Report, Exit, TypeOK, Statuses, Evaluated
    <2>2. CASE Raise("DispatchError")
        BY <1>17, <2>2, RaiseType DEF Receive, TypeOK, Errors, Evaluated, Routing
    <2>. QED
        BY <1>17, <2>1, <2>2 DEF Receive
<1>18. CASE CallTool
    <2>1. PICK q \in Queries :
             /\ Ask(q)
             /\ \/ Raise("ValueError")
                \/ pc' = "enter" /\ error' = None /\ shown' = None /\ UNCHANGED status
        BY <1>18 DEF CallTool
    <2>2. q \in Query /\ MaxTools \in Nat
        BY DispatchAssumption
    <2>3. error' \in Errors \cup {None} /\ shown' = None
          /\ pc' \in {"enter", "serving", "done"} /\ status' \in Statuses \cup {None}
        <3>1. CASE Raise("ValueError")
            BY <3>1, RaiseType DEF Errors
        <3>. QED
            BY <2>1, <3>1 DEF TypeOK
    <2>. QED
        BY <1>18, <2>1, <2>2, <2>3 DEF CallTool, Ask, TypeOK, Evaluated, Routing
<1>19. CASE StopServer
    BY <1>19 DEF StopServer, Exit, TypeOK, Statuses, Evaluated
<1>20. CASE Edit
    BY <1>20, DispatchAssumption DEF Edit, TypeOK
<1>21. CASE UNCHANGED vars
    BY <1>21 DEF vars, TypeOK
<1>. QED
    BY <1>1, <1>2, <1>4, <1>5, <1>6, <1>7, <1>8, <1>9, <1>10, <1>11, <1>12, <1>13,
       <1>14, <1>15, <1>16, <1>17, <1>18, <1>19, <1>20, <1>21 DEF Next, Step, Exited

-----------------------------------------------------------------------------
(* Where a process is.                                                     *)

(* Which steps change what.                                                *)
LEMMA Frame ==
    ASSUME [Next]_vars
    PROVE  /\ Start \/ UNCHANGED cmd
           /\ LoadConfig \/ LoadPolicy \/ UNCHANGED router
           /\ ReadPrompt \/ CallTool \/ UNCHANGED query
           /\ ReadPrompt \/ CallTool \/ LookUpPrice \/ UNCHANGED <<todo, best>>
           /\ ReadPrompt \/ CallTool \/ Analyze \/ UNCHANGED found
           /\ ReadPrompt \/ CallTool \/ TryRule \/ UNCHANGED <<at, decided>>
           /\ Resolve \/ UNCHANGED target
           /\ Send \/ UNCHANGED sent
<1>. USE DEF world, call, target, result
<1>1. CASE Start \/ LoadConfig \/ LoadPolicy \/ NothingToLoad \/ ReadPrompt \/ CallTool
    BY <1>1 DEF Start, LoadConfig, LoadPolicy, NothingToLoad, ReadPrompt, CallTool
<1>2. CASE Enter \/ LookUpPrice \/ CheckBudget \/ Analyze \/ TryRule \/ Guard
    BY <1>2 DEF Enter, LookUpPrice, CheckBudget, Analyze, TryRule, Guard
<1>3. CASE Deliver \/ Return \/ Resolve \/ BuildAdapter \/ Send \/ Receive
    BY <1>3 DEF Deliver, Return, Resolve, BuildAdapter, Send, Receive
<1>4. CASE StopServer \/ Edit \/ UNCHANGED vars
    BY <1>4 DEF StopServer, Edit, vars
<1>. QED
    BY <1>1, <1>2, <1>3, <1>4 DEF Next, Step, Exited

(* Where a process comes from: nothing but the files changes, or the step  *)
(* before it was the one that leads there.                                 *)
Still == UNCHANGED <<cmd, pc, router, tools, call, target, sent, result>>

LEMMA Arrival ==
    ASSUME IInv, [Next]_vars
    PROVE  /\ pc' = "price" => Enter \/ LookUpPrice \/ Still
           /\ pc' = "shield" => Enter \/ CheckBudget \/ Still
           /\ pc' = "rules" => Analyze \/ TryRule \/ Still
           /\ pc' = "guard" => TryRule \/ Still
           /\ pc' = "decided" => Guard \/ Still
           /\ pc' = "resolve" => Deliver \/ Still
           /\ pc' = "build" => Resolve \/ Still
           /\ pc' = "chat" => BuildAdapter \/ Still
           /\ pc' = "wait" => Send \/ Still
<1>. USE DEF world, call, target, result
<1>1. CASE Start \/ NothingToLoad \/ ReadPrompt \/ StopServer
    BY <1>1 DEF Start, NothingToLoad, ReadPrompt, StopServer, Exit
<1>2. CASE LoadConfig \/ LoadPolicy
    <2>1. (\E e : Raise(e)) \/ (\E r : Loaded(r))
        BY <1>2, LoadMeans DEF IInv
    <2>. QED
        BY <2>1, RaiseMeans, LoadedMeans
<1>3. CASE \E e : Raise(e)
    BY <1>3, RaiseMeans
<1>4. CASE CallTool \/ Enter \/ LookUpPrice \/ CheckBudget
    BY <1>3, <1>4 DEF CallTool, Enter, LookUpPrice, CheckBudget
<1>5. CASE Analyze \/ TryRule \/ Guard
    BY <1>3, <1>5 DEF Analyze, TryRule, Guard
<1>6. CASE Deliver \/ Return \/ Resolve \/ BuildAdapter \/ Send \/ Receive
    BY <1>3, <1>6 DEF Deliver, Return, Resolve, BuildAdapter, Send, Receive, Exit
<1>7. CASE Edit \/ UNCHANGED vars
    BY <1>7 DEF Edit, vars, Still
<1>. QED
    BY <1>1, <1>2, <1>4, <1>5, <1>6, <1>7 DEF Next, Step, Exited

(* What an exception leaves of ProcessOK.                                  *)
LEMMA RaiseProcess ==
    ASSUME IInv, NEW e, Raise(e), UNCHANGED <<cmd, router>>,
           pc \in Routing \cup Evaluated \cup {"load", "serving"}
    PROVE  ProcessOK'
<1>1. ProcessOK /\ status = None
    BY DEF IInv, ProcessOK, Routing, Evaluated
<1>2. CASE IsServer /\ pc # "load" /\ pc' = "serving" /\ status' = status
    BY <1>1, <1>2 DEF ProcessOK, IsServer, Routing, Evaluated, Dispatching
<1>3. CASE pc' = "done" /\ status' \in {"exit 1", "exit 2", "traceback"}
    <2>1. status' # None
        BY <1>3, DispatchAssumption DEF Statuses
    <2>. QED
        BY <1>1, <1>3, <2>1 DEF ProcessOK, IsServer, Routing, Evaluated, Dispatching
<1>. QED
    BY <1>2, <1>3, RaiseMeans

LEMMA ProcessStep == IInv /\ [Next]_vars => ProcessOK'
<1>. SUFFICES ASSUME IInv, [Next]_vars PROVE ProcessOK'
    OBVIOUS
<1>. ProcessOK
    BY DEF IInv
<1>. USE DEF world, call, target, result
<1>1. CASE Start
    <2>1. /\ cmd' \in Commands /\ cmd' # None
          /\ cmd'.verb \in {"route", "dry-run", "validate"} \cup Servers
        BY <1>1, DispatchAssumption DEF Start, Command
    <2>. QED
        BY <1>1, <2>1 DEF Start, ProcessOK, IsServer, Routing, Evaluated, Dispatching
<1>2. CASE LoadConfig \/ LoadPolicy
    <2>1. pc = "load" /\ UNCHANGED <<cmd, query, files>>
        BY <1>2, LoadMeans DEF IInv
    <2>2. ASSUME NEW e, Raise(e), UNCHANGED router PROVE ProcessOK'
        BY <2>1, <2>2, RaiseProcess
    <2>3. ASSUME NEW r \in RouterObject, Loaded(r), LoadsConfig \/ LoadsPolicy PROVE ProcessOK'
        <3>1. cmd.verb \in {"route", "dry-run", "validate"} \cup Servers
            BY <2>3 DEF LoadsConfig, LoadsPolicy, IsServer
        <3>2. None \notin Statuses /\ r # None
            BY DispatchAssumption
        <3>3. /\ router' = r /\ error' = error /\ shown' = shown
              /\ \/ pc' = "done" /\ status' = "exit 0"
                 \/ cmd.verb = "route" /\ pc' = "prompt" /\ status' = status
                 \/ cmd.verb = "dry-run" /\ pc' = "enter" /\ status' = status
                 \/ IsServer /\ pc' = "serving" /\ status' = status
            BY <2>3, <3>1, LoadedMeans DEF IsServer
        <3>4. status = None /\ error = None /\ shown = None
            BY <2>1 DEF ProcessOK
        <3>. QED
            BY <2>1, <2>3, <3>2, <3>3, <3>4
               DEF ProcessOK, IsServer, Routing, Evaluated, Dispatching, Statuses
    <2>4. \/ UNCHANGED router /\ \E e : Raise(e)
          \/ \E r \in RouterObject : Loaded(r) /\ (LoadsConfig \/ LoadsPolicy)
        BY <1>2, LoadMeans DEF IInv
    <2>. QED
        BY <2>2, <2>3, <2>4
<1>3. CASE NothingToLoad \/ StopServer
    <2>1. None \notin Statuses
        BY DispatchAssumption
    <2>. QED
        BY <1>3, <2>1 DEF NothingToLoad, StopServer, Exit, ProcessOK, IsServer, Routing, Evaluated,
           Dispatching, Statuses
<1>4. CASE ReadPrompt
    <2>1. CASE Exit("exit 2") /\ UNCHANGED call
        BY <1>4, <2>1, DispatchAssumption DEF ReadPrompt, Exit, ProcessOK, IsServer, Routing,
           Evaluated, Dispatching, Statuses
    <2>2. CASE /\ Ask(QueryOf(cmd)) /\ UNCHANGED status
               /\ pc' = IF cmd.verb = "dry-run" THEN "load" ELSE "enter"
        <3>1. cmd \in Commands
            BY <1>4 DEF IInv, TypeOK, ProcessOK, ReadPrompt
        <3>2. query' # None
            BY <2>2, <3>1, QueryOfType, DispatchAssumption DEF Ask
        <3>. QED
            BY <1>4, <2>2, <3>2 DEF ReadPrompt, ProcessOK, IsServer, Routing, Evaluated,
               Dispatching, Servers
    <2>. QED
        BY <1>4, <2>1, <2>2 DEF ReadPrompt
<1>5. CASE Enter \/ LookUpPrice \/ CheckBudget \/ Analyze \/ TryRule \/ Guard
    <2>1. pc \in Routing \cup Evaluated /\ UNCHANGED <<cmd, router, query>>
        BY <1>5 DEF Enter, LookUpPrice, CheckBudget, Analyze, TryRule, Guard, Routing, Evaluated
    <2>2. ASSUME NEW e, Raise(e) PROVE ProcessOK'
        BY <2>1, <2>2, RaiseProcess
    <2>3. CASE /\ pc' \in {"price", "shield", "rules", "guard", "decided"}
               /\ UNCHANGED <<shown, error, status>>
        BY <2>1, <2>3 DEF ProcessOK, IsServer, Routing, Evaluated, Dispatching
    <2>. QED
        BY <1>5, <2>2, <2>3 DEF Enter, LookUpPrice, CheckBudget, Analyze, TryRule, Guard
<1>6. CASE Deliver \/ Return \/ Resolve \/ BuildAdapter \/ Send \/ Receive
    <2>1. pc \in Evaluated /\ UNCHANGED <<cmd, router, query>>
        BY <1>6 DEF Deliver, Return, Resolve, BuildAdapter, Send, Receive, Evaluated
    <2>2. ASSUME NEW e, Raise(e) PROVE ProcessOK'
        BY <2>1, <2>2, RaiseProcess
    <2>3. CASE pc' \in {"build", "chat", "wait"} /\ pc # "decided" /\ UNCHANGED result
        BY <1>6, <2>1, <2>3 DEF Deliver, Return, Resolve, BuildAdapter, Send, Receive, ProcessOK,
           IsServer, Routing, Evaluated, Dispatching
    <2>4. CASE pc' = "resolve" /\ cmd.verb = "route" /\ cmd.execute
               /\ UNCHANGED <<error, shown, status>>
        BY <2>1, <2>4 DEF ProcessOK, IsServer, Routing, Evaluated, Dispatching
    <2>5. CASE pc' = "serving" /\ IsServer /\ UNCHANGED status
        BY <2>1, <2>5 DEF ProcessOK, IsServer, Routing, Evaluated, Dispatching
    <2>6. CASE pc' = "done" /\ status' \in {"exit 0", "exit 2"}
        BY <2>1, <2>6, DispatchAssumption
           DEF ProcessOK, IsServer, Routing, Evaluated, Dispatching, Statuses
    <2>. QED
        BY <1>6, <2>2, <2>3, <2>4, <2>5, <2>6
           DEF Deliver, Return, Resolve, BuildAdapter, Send, Receive, Exit
<1>7. CASE CallTool
    <2>1. pc = "serving" /\ UNCHANGED <<cmd, router>>
        BY <1>7 DEF CallTool
    <2>2. ASSUME NEW e, Raise(e) PROVE ProcessOK'
        BY <2>1, <2>2, RaiseProcess
    <2>3. ASSUME NEW q \in Queries, Ask(q), pc' = "enter", error' = None, shown' = None,
                 UNCHANGED status
          PROVE  ProcessOK'
        <3>1. query' # None
            BY <2>3, DispatchAssumption DEF Ask
        <3>. QED
            BY <2>1, <2>3, <3>1 DEF ProcessOK, IsServer, Routing, Evaluated, Dispatching
    <2>. QED
        BY <1>7, <2>2, <2>3 DEF CallTool
<1>8. CASE Edit \/ UNCHANGED vars
    BY <1>8 DEF Edit, vars, ProcessOK, IsServer
<1>. QED
    BY <1>1, <1>2, <1>3, <1>4, <1>5, <1>6, <1>7, <1>8 DEF Next, Step, Exited

-----------------------------------------------------------------------------
(* A call and its Router.                                                  *)

LEMMA QueryStep == IInv /\ [Next]_vars => QueryOK'
<1>. SUFFICES ASSUME IInv, [Next]_vars PROVE QueryOK'
    OBVIOUS
<1>1. CASE Start
    <2>1. query' = None
        BY <1>1 DEF IInv, ProcessOK, Start, call
    <2>. QED
        BY <2>1 DEF QueryOK
<1>2. CASE ReadPrompt
    <2>1. cmd \in Commands /\ cmd.verb \in {"route", "dry-run"} /\ UNCHANGED cmd
        BY <1>2 DEF IInv, TypeOK, ProcessOK, ReadPrompt
    <2>2. UNCHANGED query \/ query' = QueryOf(cmd)
        BY <1>2 DEF ReadPrompt, Ask, call
    <2>. QED
        BY <2>1, <2>2, QueryOfType DEF IInv, QueryOK
<1>3. CASE CallTool
    <2>1. IsServer /\ UNCHANGED cmd /\ query' \in Queries
        BY <1>3 DEF IInv, ProcessOK, CallTool, Ask
    <2>2. query'.budget_ceiling = Unset
        BY <2>1, DispatchAssumption
    <2>. QED
        BY <2>1, <2>2 DEF IsServer, Servers, QueryOK
<1>. QED
    BY <1>1, <1>2, <1>3, Frame DEF IInv, QueryOK

(* The ceiling of a call is the one that was meant.                        *)
LEMMA CeilingIsMeant == IInv /\ query # None => Ceiling = CeilingMeant
<1>. SUFFICES ASSUME IInv, query # None PROVE Ceiling = CeilingMeant
    OBVIOUS
<1>1. cmd \in Commands
    BY DEF IInv, TypeOK, ProcessOK
<1>2. cmd.budget_ceiling \in Int \cup {NaN, None}
    BY <1>1, DispatchAssumption DEF Command
<1>. QED
    BY <1>2, DispatchAssumption DEF IInv, QueryOK, Ceiling, CeilingMeant

LEMMA AskedStep == IInv /\ [Next]_vars => AskedOK'
<1>. SUFFICES ASSUME IInv, [Next]_vars PROVE AskedOK'
    OBVIOUS
<1>. AskedOK /\ ProcessOK
    BY DEF IInv
<1>. USE DEF world, call, target, result
<1>1. CASE Start
    BY <1>1 DEF Start, AskedOK, ProcessOK
<1>2. CASE LoadConfig \/ LoadPolicy
    <2>1. /\ pc = "load" /\ UNCHANGED <<cmd, query, todo, best, at>>
          /\ (\E e : Raise(e)) \/ (\E r : Loaded(r))
        BY <1>2, LoadMeans DEF IInv
    <2>2. pc' \in {"serving", "done", "prompt"} \/ (pc' = "enter" /\ cmd.verb = "dry-run")
        BY <2>1, RaiseMeans, LoadedMeans
    <2>. QED
        BY <2>1, <2>2 DEF AskedOK, ProcessOK
<1>3. CASE ReadPrompt \/ CallTool
    <2>1. CASE pc' \in {"serving", "done"}
        BY <2>1 DEF AskedOK
    <2>2. CASE \E q : Ask(q)
        BY <2>2 DEF Ask, AskedOK
    <2>. QED
        BY <1>3, <2>1, <2>2 DEF ReadPrompt, CallTool, Exit
<1>4. CASE Enter \/ LookUpPrice \/ CheckBudget \/ Analyze \/ TryRule \/ Guard
    <2>1. CASE \E e : Raise(e)
        BY <2>1, RaiseMeans DEF AskedOK
    <2>2. CASE pc' \in {"price", "shield"} /\ pc \in {"enter", "price"} /\ UNCHANGED at
        BY <2>2 DEF AskedOK
    <2>3. CASE pc' \in {"rules", "guard", "decided"}
        BY <2>3 DEF AskedOK
    <2>. QED
        BY <1>4, <2>1, <2>2, <2>3 DEF Enter, LookUpPrice, CheckBudget, Analyze, TryRule, Guard
<1>5. CASE Deliver \/ Return \/ Resolve \/ BuildAdapter \/ Send \/ Receive \/ NothingToLoad
              \/ StopServer
    <2>1. CASE \E e : Raise(e)
        BY <2>1, RaiseMeans DEF AskedOK
    <2>2. CASE pc' \in {"resolve", "build", "chat", "wait", "serving", "done"}
        BY <2>2 DEF AskedOK
    <2>. QED
        BY <1>5, <2>1, <2>2 DEF Deliver, Return, Resolve, BuildAdapter, Send, Receive,
           NothingToLoad, StopServer, Exit
<1>6. CASE Edit \/ UNCHANGED vars
    BY <1>6 DEF Edit, vars, AskedOK
<1>. QED
    BY <1>1, <1>2, <1>3, <1>4, <1>5, <1>6 DEF Next, Step, Exited

LEMMA LocalityStep == IInv /\ [Next]_vars => LocalityOK'
<1>. SUFFICES ASSUME IInv, [Next]_vars PROVE LocalityOK'
    OBVIOUS
<1>1. CASE LoadConfig \/ LoadPolicy
    <2>1. \/ UNCHANGED router
          \/ \E r \in RouterObject :
                /\ Loaded(r)
                /\ r.local_known = (r.backends # {})
                /\ r.local_backends = {b.backend_id : b \in {d \in r.backends : d.is_local}}
        BY <1>1, LoadMeans DEF IInv
    <2>2. ASSUME NEW r, Loaded(r),
                 r.local_known = (r.backends # {}),
                 r.local_backends = {b.backend_id : b \in {d \in r.backends : d.is_local}}
          PROVE  LocalityOK'
        <3>1. router' = r
            BY <2>2, LoadedMeans
        <3>. QED
            BY <2>2, <3>1 DEF LocalityOK
    <2>. QED
        BY <2>1, <2>2 DEF IInv, LocalityOK
<1>2. CASE UNCHANGED router
    BY <1>2 DEF IInv, LocalityOK
<1>. QED
    BY <1>1, <1>2, Frame

-----------------------------------------------------------------------------
(* The loops.                                                              *)

LEMMA PriceStep == IInv /\ [Next]_vars => PriceOK'
<1>. SUFFICES ASSUME IInv, [Next]_vars, pc' = "price" PROVE PriceOK'
    BY DEF PriceOK
<1>1. CASE Enter
    <2>1. pc' = "price" => Ceiling # None
        BY <1>1, RaiseMeans DEF Enter
    <2>2. UNCHANGED <<router, query, todo, best>> /\ todo = DOMAIN PriceTable /\ best = None
        BY <1>1 DEF IInv, AskedOK, Enter, call
    <2>3. Ceiling' = Ceiling /\ Model' = Model
        BY <2>2 DEF Ceiling, Model
    <2>. QED
        BY <2>1, <2>2, <2>3 DEF PriceOK, KnownPrefixes
<1>2. CASE LookUpPrice
    <2>. PriceOK /\ best \in DOMAIN PriceTable \cup {None}
        BY DEF IInv, TypeOK
    <2>1. Ceiling # None /\ UNCHANGED <<router, query>>
        BY <1>2 DEF PriceOK, LookUpPrice
    <2>2. Ceiling' = Ceiling /\ Model' = Model
        BY <2>1 DEF Ceiling, Model
    <2>3. CASE Model \in DOMAIN PriceTable /\ best' = Model
        <3>1. Model \in Seq(STRING)
            BY <2>3, PriceTableAssumption
        <3>2. Len(Model) \in Nat /\ SubSeq(Model, 1, Len(Model)) = Model
            BY <3>1
        <3>3. Model \in KnownPrefixes(Model)
            BY <2>3, <3>2 DEF KnownPrefixes, PrefixOf
        <3>4. \A name \in KnownPrefixes(Model) : Len(name) <= Len(Model)
            BY PrefixShorter
        <3>. QED
            BY <2>1, <2>2, <2>3, <3>3, <3>4, DispatchAssumption DEF PriceOK
    <2>4. ASSUME NEW name \in todo, todo' = todo \ {name},
                 best' = IF PrefixOf(name, Model) /\ (best = None \/ Len(name) > Len(best))
                         THEN name ELSE best
          PROVE  PriceOK'
        <3>1. /\ best # None => best \in KnownPrefixes(Model)
              /\ \A other \in KnownPrefixes(Model) \ todo : best # None /\ Len(other) <= Len(best)
            BY <1>2 DEF PriceOK, LookUpPrice
        <3>2. \A other \in DOMAIN PriceTable : Len(other) \in Nat
            BY PriceTableAssumption
        <3>3. name \in DOMAIN PriceTable /\ name # None
            BY <2>4, DispatchAssumption DEF IInv, TypeOK
        <3>4. best' # None => best' \in KnownPrefixes(Model)
            BY <2>4, <3>1, <3>3 DEF KnownPrefixes
        <3>5. ASSUME NEW other \in KnownPrefixes(Model) \ todo'
              PROVE  best' # None /\ Len(other) <= Len(best')
            <4>1. other \in DOMAIN PriceTable /\ PrefixOf(other, Model)
                BY <3>5 DEF KnownPrefixes
            <4>2. other = name \/ (best # None /\ Len(other) <= Len(best))
                BY <2>4, <3>1, <3>5
            <4>3. best # None => Len(best) \in Nat
                BY <3>2
            <4>. QED
                BY <2>4, <3>2, <3>3, <4>1, <4>2, <4>3
        <3>. QED
            BY <2>1, <2>2, <3>4, <3>5 DEF PriceOK
    <2>. QED
        BY <1>2, <2>3, <2>4 DEF LookUpPrice
<1>3. CASE UNCHANGED <<pc, router, query, todo, best>>
    BY <1>3 DEF IInv, PriceOK, Ceiling, Model
<1>4. Enter \/ LookUpPrice \/ UNCHANGED <<pc, router, query, todo, best>>
    BY Arrival DEF Still, call
<1>. QED
    BY <1>1, <1>2, <1>3, <1>4

(* What the estimate is when the price table has been gone through.        *)
LEMMA EstimateIsMeant ==
    ASSUME IInv, pc = "price", todo = {}
    PROVE  Estimate = EstimateCost(Model, query.length)
<1>1. /\ best \in DOMAIN PriceTable \cup {None}
      /\ best # None => best \in KnownPrefixes(Model)
      /\ \A name \in KnownPrefixes(Model) : best # None /\ Len(name) <= Len(best)
    BY DEF IInv, TypeOK, PriceOK
<1>2. PricePerM(Model) = IF best = None THEN DefaultPrice ELSE PriceTable[best]
    BY <1>1, ScanPrices
<1>. QED
    BY <1>2 DEF Estimate, EstimateCost

LEMMA BudgetStep == IInv /\ [Next]_vars => BudgetOK'
<1>. SUFFICES ASSUME IInv, [Next]_vars PROVE BudgetOK'
    OBVIOUS
<1>. BudgetOK /\ ProcessOK
    BY DEF IInv
<1>. USE DEF world, call, target, result
<1>1. UNCHANGED <<cmd, router, query>> => TooDear' = TooDear
    BY DEF TooDear, CeilingMeant, Model
<1>2. CASE CheckBudget
    <2>1. /\ UNCHANGED <<cmd, router, query>> /\ router # None /\ query # None
          /\ pc = "price" /\ todo = {}
        BY <1>2 DEF CheckBudget, ProcessOK, Routing
    <2>2. Ceiling # None /\ Ceiling = CeilingMeant
        BY <2>1, CeilingIsMeant DEF IInv, PriceOK
    <2>3. TooDear <=> Exceeds(Estimate, Ceiling)
        BY <2>1, <2>2, EstimateIsMeant DEF TooDear
    <2>4. CASE Exceeds(Estimate, Ceiling) /\ Raise("BudgetCeilingExceeded")
        BY <1>1, <2>1, <2>3, <2>4, RaiseMeans DEF BudgetOK, Evaluated
    <2>5. CASE ~Exceeds(Estimate, Ceiling) /\ UNCHANGED error
        BY <1>1, <2>1, <2>3, <2>5 DEF BudgetOK, ProcessOK
    <2>. QED
        BY <1>2, <2>4, <2>5 DEF CheckBudget
<1>3. ASSUME ~CheckBudget, error' = "BudgetCeilingExceeded"
      PROVE  router' # None /\ query' # None /\ TooDear'
    <2>1. ~CallTool
        <3>1. "BudgetCeilingExceeded" # None
            BY DispatchAssumption DEF Errors, RouterErrors
        <3>. QED
            BY <1>3, <3>1 DEF CallTool, Raise
    <2>2. UNCHANGED error
        <3>1. CASE \E e : e # "BudgetCeilingExceeded" /\ Raise(e)
            BY <1>3, <3>1, RaiseMeans
        <3>2. CASE UNCHANGED error
            BY <3>2
        <3>3. CASE LoadConfig \/ LoadPolicy
            BY <3>1, <3>2, <3>3, LoadMeans, LoadedMeans DEF IInv
        <3>4. CASE Start \/ NothingToLoad \/ ReadPrompt \/ Enter \/ LookUpPrice
            BY <3>1, <3>2, <3>4 DEF Start, NothingToLoad, ReadPrompt, Enter, LookUpPrice
        <3>5. CASE Analyze \/ TryRule \/ Guard \/ Deliver \/ Return
            BY <3>1, <3>2, <3>5 DEF Analyze, TryRule, Guard, Deliver, Return
        <3>6. CASE Resolve \/ BuildAdapter \/ Send \/ Receive
            BY <3>1, <3>2, <3>6 DEF Resolve, BuildAdapter, Send, Receive
        <3>7. CASE StopServer \/ Edit \/ UNCHANGED vars
            BY <3>7 DEF StopServer, Edit, vars
        <3>. QED
            BY <1>3, <2>1, <3>3, <3>4, <3>5, <3>6, <3>7 DEF Next, Step, Exited
    <2>3. error # None /\ router # None /\ query # None /\ TooDear
        BY <1>3, <2>2, DispatchAssumption DEF BudgetOK, Errors, RouterErrors
    <2>4. pc \in {"serving", "done"}
        BY <2>3 DEF ProcessOK
    <2>5. UNCHANGED <<cmd, router, query>>
        BY <2>1, <2>4, Frame DEF Start, LoadConfig, LoadPolicy, ReadPrompt
    <2>. QED
        BY <1>1, <2>3, <2>5
<1>4. ASSUME ~CheckBudget, pc' \in {"shield", "rules"} \cup Evaluated
      PROVE  ~TooDear'
    <2>1. CASE Still
        BY <1>1, <1>4, <2>1 DEF Still, BudgetOK
    <2>2. CASE Enter
        <3>1. pc' = "shield" /\ Ceiling = None
            BY <1>4, <2>2, RaiseMeans DEF Enter, Evaluated
        <3>2. UNCHANGED <<cmd, router, query>> /\ query # None
            BY <2>2 DEF Enter, ProcessOK, Routing
        <3>. QED
            BY <1>1, <3>1, <3>2, CeilingIsMeant DEF TooDear
    <2>3. CASE Analyze \/ TryRule \/ Guard \/ Deliver \/ Resolve \/ BuildAdapter \/ Send
        <3>1. UNCHANGED <<cmd, router, query>> /\ pc \in {"shield", "rules"} \cup Evaluated
            BY <2>3 DEF Analyze, TryRule, Guard, Deliver, Resolve, BuildAdapter, Send, Evaluated
        <3>. QED
            BY <1>1, <3>1 DEF BudgetOK
    <2>. QED
        BY <1>4, <2>1, <2>2, <2>3, Arrival DEF Evaluated
<1>. QED
    BY <1>2, <1>3, <1>4 DEF BudgetOK

(* The types of what TryRule looks at.                                     *)
LEMMA RulesType ==
    ASSUME IInv, pc = "rules"
    PROVE  /\ router.policy \in PolicySpec /\ found \in ShieldResult
           /\ router.policy.rules \in Seq(RuleSpec)
           /\ at \in Nat \ {0} /\ Len(router.policy.rules) \in Nat
           /\ at <= Len(router.policy.rules) + 1
           /\ \A j \in 1..(at - 1) : ~Matches(router.policy.rules[j].when, found)
<1>1. router \in RouterObject /\ found \in ShieldResult
    BY DispatchAssumption DEF IInv, TypeOK, ProcessOK, RulesOK, Routing
<1>2. router.policy \in PolicySpec
    BY <1>1 DEF RouterObject
<1>3. router.policy.rules \in Seq(RuleSpec)
    BY <1>2 DEF PolicySpec
<1>. QED
    BY <1>1, <1>2, <1>3 DEF IInv, TypeOK, RulesOK

(* A rule that is passed over does not match, one that is not does.        *)
LEMMA RuleTried ==
    ASSUME IInv, pc = "rules", at <= Len(router.policy.rules)
    PROVE  Fails(router.policy.rules[at].when, found)
              <=> ~Matches(router.policy.rules[at].when, found)
<1>1. router.policy.rules[at] \in RuleSpec
    BY RulesType
<1>2. router.policy.rules[at].when \in WhenClause
    BY <1>1 DEF RuleSpec
<1>. QED
    BY <1>2, RulesType, FailsIsNoMatch

LEMMA RulesStep == IInv /\ [Next]_vars => RulesOK'
<1>. SUFFICES ASSUME IInv, [Next]_vars, pc' = "rules" PROVE RulesOK'
    BY DEF RulesOK
<1>1. CASE Analyze
    <2>1. /\ found' \in Analyses /\ pc = "shield"
          /\ UNCHANGED <<router, at>>
        BY <1>1, RaiseMeans DEF Analyze, call
    <2>2. at = 1 /\ router \in RouterObject
        BY <2>1 DEF IInv, AskedOK, ProcessOK, TypeOK, Routing
    <2>3. Len(router.policy.rules) \in Nat
        BY <2>2 DEF RouterObject, PolicySpec
    <2>. QED
        BY <2>1, <2>2, <2>3, DispatchAssumption DEF RulesOK
<1>2. CASE TryRule
    <2>1. /\ pc = "rules" /\ at' = at + 1 /\ UNCHANGED <<router, found>>
          /\ ~(at > Len(router.policy.rules)) /\ Fails(router.policy.rules[at].when, found)
        BY <1>2 DEF TryRule
    <2>2. at <= Len(router.policy.rules)
        BY <2>1, RulesType
    <2>3. ~Matches(router.policy.rules[at].when, found)
        BY <2>1, <2>2, RuleTried
    <2>. QED
        BY <2>1, <2>2, <2>3, RulesType DEF RulesOK, IInv
<1>3. CASE Still
    BY <1>3 DEF Still, call, IInv, RulesOK
<1>. QED
    BY <1>1, <1>2, <1>3, Arrival

LEMMA DecisionStep == IInv /\ [Next]_vars => DecisionOK'
<1>. SUFFICES ASSUME IInv, [Next]_vars, pc' \in Evaluated PROVE DecisionOK'
    BY DEF DecisionOK
<1>. DecisionOK
    BY DEF IInv
<1>1. CASE TryRule
    <2>. DEFINE rules == router.policy.rules
    <2>1. /\ pc = "rules" /\ pc' = "guard" /\ UNCHANGED <<router, found>>
          /\ \/ at > Len(rules) /\ decided' = DefaultDecision(router.policy)
             \/ /\ ~(at > Len(rules)) /\ ~Fails(rules[at].when, found)
                /\ decided' = DecisionOf(rules[at])
        BY <1>1 DEF TryRule, Evaluated
    <2>2. found # None
        BY <2>1 DEF IInv, RulesOK
    <2>3. CASE at > Len(rules) /\ decided' = DefaultDecision(router.policy)
        <3>1. \A j \in 1..Len(rules) : ~Matches(rules[j].when, found)
            BY <2>1, <2>3, RulesType
        <3>2. decided' = Evaluate(router.policy, found)
            BY <2>1, <2>3, <3>1, RulesType, ScanEnds
        <3>. QED
            BY <2>1, <2>2, <3>2 DEF DecisionOK
    <2>4. CASE /\ ~(at > Len(rules)) /\ ~Fails(rules[at].when, found)
               /\ decided' = DecisionOf(rules[at])
        <3>1. at \in 1..Len(rules)
            BY <2>1, <2>4, RulesType
        <3>2. Matches(rules[at].when, found)
            BY <2>1, <2>4, <3>1, RuleTried
        <3>3. decided' = Evaluate(router.policy, found)
            BY <2>1, <2>4, <3>1, <3>2, RulesType, ScanFinds
        <3>. QED
            BY <2>1, <2>2, <3>3 DEF DecisionOK
    <2>. QED
        BY <2>1, <2>3, <2>4
<1>2. CASE Guard
    BY <1>2, RaiseMeans DEF Guard, DecisionOK, Evaluated, call
<1>3. CASE Deliver \/ Resolve \/ BuildAdapter \/ Send
    BY <1>3 DEF Deliver, Resolve, BuildAdapter, Send, DecisionOK, Evaluated, call
<1>4. CASE Still
    BY <1>4 DEF Still, call, DecisionOK
<1>. QED
    BY <1>1, <1>2, <1>3, <1>4, Arrival DEF Evaluated

-----------------------------------------------------------------------------
(* The dispatch.                                                           *)

LEMMA TargetStep == IInv /\ [Next]_vars => TargetOK'
<1>. SUFFICES ASSUME IInv, [Next]_vars, pc' \in Dispatching PROVE TargetOK'
    BY DEF TargetOK, Dispatching
<1>. TargetOK
    BY DEF IInv
<1>1. CASE Resolve
    <2>1. /\ pc' = "build" /\ files.config # None /\ config' = files.config.backends
          /\ UNCHANGED decided
          /\ \E i \in DOMAIN config' : Chosen(config', i) /\ backend' = config'[i]
        BY <1>1, RaiseMeans DEF Resolve, call, Dispatching, Exit
    <2>2. files.config \in Configs \ {None}
        BY <2>1 DEF IInv, TypeOK
    <2>. QED
        BY <2>1, <2>2 DEF TargetOK, Chosen
<1>2. CASE BuildAdapter
    BY <1>2, RaiseMeans DEF BuildAdapter, TargetOK, Dispatching, call, target
<1>3. CASE Send
    BY <1>3, RaiseMeans DEF Send, TargetOK, Dispatching, call, target
<1>4. CASE Still
    BY <1>4 DEF Still, call, target, TargetOK
<1>. QED
    BY <1>1, <1>2, <1>3, <1>4, Arrival DEF Dispatching

LEMMA SentStep == IInv /\ [Next]_vars => SentOK'
<1>. SUFFICES ASSUME IInv, [Next]_vars PROVE SentOK'
    OBVIOUS
<1>. SentOK /\ ProcessOK
    BY DEF IInv
<1>1. CASE Send
    <2>1. CASE Raise("DispatchError") /\ UNCHANGED sent
        <3>1. sent = <<>> /\ pc' # "wait"
            BY <1>1, <2>1, RaiseMeans DEF Send, SentOK
        <3>. QED
            BY <2>1, <3>1 DEF SentOK
    <2>2. CASE /\ sent' = Append(sent, [id |-> backend.id, kind |-> backend.kind,
                                        host |-> HostOf(backend), text |-> "prompt"])
               /\ pc' = "wait"
        <3>1. pc = "chat" /\ sent = <<>> /\ UNCHANGED <<cmd, router, call, target>>
            BY <1>1 DEF Send, SentOK
        <3>2. sent' = <<[id |-> backend.id, kind |-> backend.kind,
                         host |-> HostOf(backend), text |-> "prompt"]>>
            BY <2>2, <3>1
        <3>3. /\ cmd.verb = "route" /\ cmd.execute
              /\ router # None /\ found # None /\ decided # None
              /\ ~DeniesCloud(router, decided, found.groups)
            BY <3>1 DEF IInv, TypeOK, ProcessOK, DecisionOK, Evaluated, Dispatching
        <3>4. /\ config \in {c.backends : c \in Configs \ {None}}
              /\ \E i \in DOMAIN config : backend = config[i]
              /\ backend.id = decided.backend_id /\ CanBuild(backend)
            BY <3>1 DEF IInv, TargetOK, Dispatching
        <3>5. HostOf(backend)' = HostOf(backend) /\ CanBuild(backend)' = CanBuild(backend)
            BY <3>1 DEF target, HostOf, CanBuild, ResolvesApiKey, ValidateLocalhost, ValidateHost
        <3>6. DeniesCloud(router, decided, found.groups)'
                 = DeniesCloud(router, decided, found.groups)
            BY <3>1 DEF call, DeniesCloud, BackendIsLocal, LocalIds, CloudIds
        <3>. QED
            BY <2>2, <3>1, <3>2, <3>3, <3>4, <3>5, <3>6 DEF SentOK, call, target
    <2>. QED
        BY <1>1, <2>1, <2>2 DEF Send
<1>2. ASSUME ~Send PROVE SentOK'
    <2>1. UNCHANGED sent /\ (pc' = "wait" => pc = "wait")
        BY <1>2, Frame, Arrival DEF Still
    <2>2. CASE sent = <<>>
        BY <2>1, <2>2 DEF SentOK
    <2>3. CASE sent # <<>> /\ pc \in {"wait", "done"}
        <3>1. UNCHANGED <<cmd, router, found, decided, target>> /\ pc' \in {"wait", "done"}
            <4>. USE DEF world, call, target, result
            <4>1. CASE Receive
                BY <2>3, <4>1, RaiseMeans DEF Receive, Exit, SentOK, IsServer, Servers
            <4>2. CASE Edit \/ UNCHANGED vars
                BY <2>3, <4>2 DEF Edit, vars
            <4>. QED
                BY <1>2, <2>3, <4>1, <4>2 DEF Next, Step, Exited, Start, LoadConfig, LoadPolicy,
                   NothingToLoad, ReadPrompt, Enter, LookUpPrice, CheckBudget, Analyze, TryRule,
                   Guard, Deliver, Return, Resolve, BuildAdapter, CallTool, StopServer
        <3>2. HostOf(backend)' = HostOf(backend) /\ CanBuild(backend)' = CanBuild(backend)
            BY <3>1 DEF target, HostOf, CanBuild, ResolvesApiKey, ValidateLocalhost, ValidateHost
        <3>3. DeniesCloud(router, decided, found.groups)'
                 = DeniesCloud(router, decided, found.groups)
            BY <3>1 DEF DeniesCloud, BackendIsLocal, LocalIds, CloudIds
        <3>. QED
            BY <2>1, <2>3, <3>1, <3>2, <3>3 DEF SentOK, target
    <2>. QED
        BY <2>2, <2>3 DEF SentOK
<1>. QED
    BY <1>1, <1>2

-----------------------------------------------------------------------------
(* What is shown.                                                          *)

(* Nothing is shown after an exception, and none but that of a dispatch    *)
(* finds a prompt already sent.                                            *)
LEMMA RaiseShown ==
    ASSUME IInv, NEW e, Raise(e), UNCHANGED <<cmd, sent>>, pc # "done"
    PROVE  ShownOK'
<1>1. status = None /\ None \notin Statuses
    BY DispatchAssumption DEF IInv, ProcessOK
<1>2. shown' = None
    BY RaiseMeans
<1>3. status' = None \/ status' \in {"exit 1", "exit 2", "traceback"}
    BY <1>1, RaiseMeans
<1>4. status' = "exit 2" => sent = <<>>
    BY <1>1, RaiseMeans DEF IInv, SentOK, Statuses
<1>. QED
    BY <1>1, <1>2, <1>3, <1>4 DEF ShownOK, Statuses

(* A report is not None.                                                   *)
LEMMA ShownIsSet ==
    ASSUME decided \in RouteDecision, NEW text \in {None, "prompt", "redacted", "output"}
    PROVE  Shown(text) # None
<1>1. Shown(text) \in Report
    BY DEF Shown, Report
<1>. QED
    BY <1>1, DispatchAssumption

LEMMA ShownStep == IInv /\ [Next]_vars => ShownOK'
<1>. SUFFICES ASSUME IInv, [Next]_vars PROVE ShownOK'
    OBVIOUS
<1>. ProcessOK /\ ProcessOK' /\ SentOK /\ ShownOK
    BY ProcessStep DEF IInv
<1>. USE DEF world, call, target, result
<1>1. None \notin Statuses
    BY DispatchAssumption
<1>2. CASE pc' \notin {"serving", "done"}
    BY <1>1, <1>2 DEF ProcessOK, ShownOK, Statuses
<1>. SUFFICES ASSUME pc' \in {"serving", "done"} PROVE ShownOK'
    BY <1>2
<1>3. CASE Edit \/ UNCHANGED vars
    BY <1>3 DEF Edit, vars, ShownOK, IsServer, Shown
<1>4. CASE StopServer
    BY <1>4 DEF StopServer, Exit, ShownOK, ProcessOK, IsServer, Servers, Shown
<1>5. CASE LoadConfig \/ LoadPolicy
    <2>1. pc = "load" /\ UNCHANGED <<cmd, sent>>
        BY <1>5, LoadMeans DEF IInv
    <2>2. CASE \E e : Raise(e)
        BY <2>1, <2>2, RaiseShown
    <2>3. CASE \E r : Loaded(r)
        <3>1. shown = None /\ status = None
            BY <2>1 DEF ProcessOK
        <3>2. shown' = None /\ (status' = None \/ (status' = "exit 0" /\ cmd.verb = "validate"))
            BY <2>3, <3>1, LoadedMeans
        <3>. QED
            BY <1>1, <2>1, <3>2 DEF ShownOK, Statuses
    <2>. QED
        BY <1>5, <2>2, <2>3, LoadMeans DEF IInv
<1>6. CASE NothingToLoad \/ (ReadPrompt /\ Exit("exit 2"))
    <2>1. shown' = None /\ sent' = <<>> /\ status' \in {"exit 1", "exit 2"}
        BY <1>6 DEF NothingToLoad, ReadPrompt, Exit, ProcessOK, SentOK
    <2>. QED
        BY <2>1 DEF ShownOK
<1>7. CASE Enter \/ CheckBudget \/ Analyze \/ Guard \/ BuildAdapter \/ Send \/ CallTool
    <2>1. UNCHANGED cmd /\ pc # "done"
        BY <1>7 DEF Enter, CheckBudget, Analyze, Guard, BuildAdapter, Send, CallTool
    <2>2. UNCHANGED sent /\ \E e : Raise(e)
        <3>1. CASE CallTool
            BY <3>1 DEF CallTool
        <3>2. CASE Enter \/ CheckBudget \/ Analyze \/ Guard
            BY <3>2 DEF Enter, CheckBudget, Analyze, Guard
        <3>3. CASE BuildAdapter \/ Send
            BY <3>3 DEF BuildAdapter, Send
        <3>. QED
            BY <1>7, <3>1, <3>2, <3>3
    <2>. QED
        BY <2>1, <2>2, RaiseShown
<1>8. CASE Deliver
    <2>1. /\ shown' = Shown(None) /\ status' = "exit 0" /\ ~IsServer /\ sent = <<>>
          /\ UNCHANGED <<cmd, router, query, found, decided, sent>>
          /\ ~(cmd.verb = "route" /\ cmd.execute)
        BY <1>8 DEF Deliver, Exit, SentOK
    <2>2. /\ router # None /\ query # None /\ found # None /\ decided # None
          /\ decided = Evaluate(router.policy, found)
        BY <1>8 DEF Deliver, IInv, TypeOK, ProcessOK, DecisionOK, Evaluated
    <2>3. shown' # None
        <3>1. decided \in RouteDecision
            BY <2>2 DEF IInv, TypeOK
        <3>. QED
            BY <2>1, <3>1, ShownIsSet
    <2>. QED
        BY <2>1, <2>2, <2>3 DEF ShownOK, IsServer, Shown
<1>9. CASE Return
    <2>1. CASE Raise("ShieldError")
        BY <1>9, <2>1, RaiseShown DEF Return
    <2>2. CASE /\ shown' = Shown(IF ~query.outgoing THEN None
                                 ELSE IF decided.transform = None THEN "prompt" ELSE "redacted")
               /\ pc' = "serving" /\ UNCHANGED <<error, status>>
        <3>1. /\ router # None /\ query # None /\ found # None /\ decided # None
              /\ decided = Evaluate(router.policy, found) /\ status = None
            BY <1>9 DEF Return, IInv, TypeOK, ProcessOK, DecisionOK, Evaluated
        <3>2. IsServer /\ UNCHANGED <<cmd, router, query, found, decided, sent>>
            BY <1>9 DEF Return
        <3>. QED
            BY <1>1, <2>2, <3>1, <3>2 DEF ShownOK, IsServer, Shown, Statuses
    <2>. QED
        BY <1>9, <2>1, <2>2 DEF Return
<1>10. CASE Resolve
    <2>1. pc = "resolve" /\ UNCHANGED <<cmd, sent>>
        BY <1>10 DEF Resolve
    <2>2. CASE \E e : Raise(e)
        BY <2>1, <2>2, RaiseShown
    <2>3. CASE Exit("exit 2") /\ UNCHANGED shown
        BY <2>1, <2>3 DEF Exit, ShownOK, ProcessOK, SentOK
    <2>. QED
        BY <1>10, <2>2, <2>3 DEF Resolve
<1>11. CASE Receive
    <2>1. CASE Raise("DispatchError")
        BY <1>11, <2>1, RaiseShown DEF Receive
    <2>2. CASE shown' = Shown("output") /\ status' = "exit 0"
        <3>1. /\ router # None /\ query # None /\ found # None /\ decided # None
              /\ decided = Evaluate(router.policy, found) /\ sent # <<>>
              /\ cmd.verb = "route" /\ cmd.execute
            BY <1>11 DEF Receive, IInv, TypeOK, ProcessOK, DecisionOK, SentOK, Evaluated
        <3>2. UNCHANGED <<cmd, router, query, found, decided, sent>>
            BY <1>11 DEF Receive
        <3>3. decided \in RouteDecision /\ ~IsServer
            BY <3>1 DEF IInv, TypeOK, IsServer, Servers
        <3>4. shown' # None
            BY <2>2, <3>3, ShownIsSet
        <3>. QED
            BY <2>2, <3>1, <3>2, <3>3, <3>4 DEF ShownOK, IsServer, Shown
    <2>. QED
        BY <1>11, <2>1, <2>2 DEF Receive, Exit
<1>12. ~Start /\ ~LookUpPrice /\ ~TryRule /\ (ReadPrompt => Exit("exit 2"))
    <2>1. ~Start /\ ~LookUpPrice /\ ~TryRule
        BY DEF Start, LookUpPrice, TryRule
    <2>2. ReadPrompt => Exit("exit 2")
        BY DEF ReadPrompt
    <2>. QED
        BY <2>1, <2>2
<1>. QED
    BY <1>3, <1>4, <1>5, <1>6, <1>7, <1>8, <1>9, <1>10, <1>11, <1>12
       DEF Next, Step, Exited

-----------------------------------------------------------------------------
(* The inductive invariant, and what follows from it.                      *)

LEMMA InvariantInit == Init => IInv
<1>. SUFFICES ASSUME Init PROVE IInv
    OBVIOUS
<1>1. TypeOK
    BY TypeInit
<1>2. /\ pc = "idle" /\ cmd = None /\ router = None /\ query = None /\ sent = <<>>
      /\ shown = None /\ error = None /\ status = None
    BY DEF Init
<1>3. None \notin Statuses /\ None \notin Errors
    BY DispatchAssumption
<1>4. ProcessOK
    BY <1>2 DEF ProcessOK, Routing, Evaluated, Dispatching
<1>5. QueryOK /\ AskedOK /\ PriceOK /\ RulesOK /\ LocalityOK /\ SentOK
    BY <1>2 DEF QueryOK, AskedOK, PriceOK, RulesOK, LocalityOK, SentOK
<1>6. BudgetOK /\ DecisionOK /\ TargetOK
    BY <1>2, <1>3 DEF BudgetOK, DecisionOK, TargetOK, Evaluated, Dispatching, Errors, RouterErrors
<1>7. ShownOK
    BY <1>2, <1>3 DEF ShownOK, Statuses
<1>. QED
    BY <1>1, <1>4, <1>5, <1>6, <1>7 DEF IInv

LEMMA InvariantStep == IInv /\ [Next]_vars => IInv'
BY TypeStep, ProcessStep, QueryStep, AskedStep, PriceStep, BudgetStep, RulesStep, DecisionStep,
   LocalityStep, TargetStep, SentStep, ShownStep DEF IInv

LEMMA InvariantEvaluates == IInv => EvaluatesFirstMatch
BY DEF IInv, DecisionOK, EvaluatesFirstMatch

LEMMA InvariantBudget == IInv => BudgetKept
<1>. SUFFICES ASSUME IInv PROVE BudgetKept
    OBVIOUS
<1>. DEFINE settled == error = "BudgetCeilingExceeded" \/ pc \in {"shield", "rules"} \cup Evaluated
<1>1. /\ error = "BudgetCeilingExceeded" => TooDear
      /\ pc \in {"shield", "rules"} \cup Evaluated => ~TooDear
    BY DEF IInv, BudgetOK
<1>2. ASSUME settled PROVE router # None /\ query # None /\ cmd # None
    BY <1>2 DEF IInv, BudgetOK, ProcessOK, Routing, Evaluated
<1>3. ASSUME settled, CeilingMeant \notin {None, NaN} PROVE CeilingMeant \in Int
    <2>1. cmd \in Command /\ router \in RouterObject
        BY <1>2, <1>3, DispatchAssumption DEF IInv, TypeOK
    <2>2. EffectiveCeiling(router.policy) \in Int \cup {NaN, None}
        BY <2>1 DEF RouterObject, PolicySpec, EffectiveCeiling
    <2>. QED
        BY <1>3, <2>1, <2>2 DEF CeilingMeant, Command
<1>4. ASSUME settled PROVE query.length \in Nat /\ Len(Model) \in Nat
    <2>1. query \in Query
        BY <1>2, <1>4 DEF IInv, TypeOK
    <2>2. Len(<<"unknown">>) = 1
        OBVIOUS
    <2>. QED
        BY <2>1, <2>2, LenProperties DEF Model, Query
<1>5. ASSUME settled
      PROVE  /\ TooDear => ~ClearlyWithin
             /\ ~TooDear => ~ClearlyTooDear
    <2>. DEFINE price == PricePerM(Model)
    <2>1. price \in Nat
        BY <1>4, <1>5, PriceType
    <2>2. CASE CeilingMeant \in {None, NaN}
        BY <2>2 DEF ClearlyWithin, ClearlyTooDear
    <2>3. CASE CeilingMeant \notin {None, NaN}
        <3>1. TooDear <=> CostAt(price, query.length) > CeilingMeant
            BY <2>3 DEF TooDear, Exceeds, EstimateCost
        <3>2. /\ CostAt(price, query.length) > CeilingMeant =>
                    ~ (2 * Exact(price, query.length) + Slack(price, query.length)
                         <= 2 * CeilingMeant * Scale)
              /\ ~ (CostAt(price, query.length) > CeilingMeant) =>
                    ~ (2 * Exact(price, query.length)
                         > 2 * CeilingMeant * Scale + Slack(price, query.length))
            <4>. HIDE DEF price
            <4>. QED
                BY <1>3, <1>4, <1>5, <2>1, <2>3, ClearlyDecides
        <3>. QED
            BY <3>1, <3>2 DEF ClearlyWithin, ClearlyTooDear
    <2>. QED
        BY <2>2, <2>3
<1>. QED
    BY <1>1, <1>5 DEF BudgetKept

(* An id that a Router of the declared backends takes for local is that of *)
(* a local entry, and an adapter of one talks to a loopback address.       *)
LEMMA LocalIdMeans ==
    ASSUME IInv, router # None, NEW k \in DOMAIN config, SameBackends, UniqueIds,
           BackendIsLocal(router, config[k].id) = "local", CanBuild(config[k])
    PROVE  config[k].kind \in LocalKinds /\ HostOf(config[k]) \in LoopbackHosts
<1>1. [backend_id |-> config[k].id, is_local |-> config[k].kind \in LocalKinds] \in router.backends
    <2>1. config[k] \in ToSet(config)
        BY DEF ToSet
    <2>. QED
        BY <2>1 DEF SameBackends, Declared
<1>2. config[k].id \in router.local_backends
    <2>1. router.local_known
        BY <1>1 DEF IInv, LocalityOK
    <2>. QED
        BY <2>1 DEF BackendIsLocal, LocalIds
<1>3. PICK d \in router.backends : d.is_local /\ d.backend_id = config[k].id
    BY <1>2 DEF IInv, LocalityOK
<1>4. PICK b \in ToSet(config) : d = [backend_id |-> b.id, is_local |-> b.kind \in LocalKinds]
    BY <1>3 DEF SameBackends, Declared
<1>5. PICK j \in DOMAIN config : b = config[j]
    BY <1>4 DEF ToSet
<1>6. config[j].id = config[k].id /\ config[j].kind \in LocalKinds
    BY <1>3, <1>4, <1>5
<1>7. j = k
    BY <1>5, <1>6 DEF UniqueIds
<1>8. ValidateLocalhost(config[k].base_url)
    BY <1>6, <1>7 DEF CanBuild
<1>. QED
    BY <1>6, <1>7, <1>8 DEF ValidateLocalhost, HostOf, LoopbackHosts

LEMMA InvariantLocal == IInv => DispatchStaysLocal
<1>. SUFFICES ASSUME IInv, NEW i \in DOMAIN sent
              PROVE  /\ sent[i].id = decided.backend_id
                     /\ /\ found.groups \cap DeniedGroups(router.policy) # {}
                        /\ SameBackends /\ UniqueIds
                        => sent[i].kind \in LocalKinds /\ sent[i].host \in LoopbackHosts
    BY DEF DispatchStaysLocal
<1>1. sent # <<>>
    OBVIOUS
<1>2. /\ router # None /\ ~DeniesCloud(router, decided, found.groups)
      /\ backend.id = decided.backend_id /\ CanBuild(backend)
      /\ sent = <<[id |-> backend.id, kind |-> backend.kind,
                   host |-> HostOf(backend), text |-> "prompt"]>>
    BY <1>1 DEF IInv, SentOK
<1>3. PICK k \in DOMAIN config : backend = config[k]
    BY <1>1 DEF IInv, SentOK
<1>4. sent[i] = [id |-> backend.id, kind |-> backend.kind,
                 host |-> HostOf(backend), text |-> "prompt"]
    BY <1>2
<1>5. ASSUME found.groups \cap DeniedGroups(router.policy) # {}, SameBackends, UniqueIds
      PROVE  backend.kind \in LocalKinds /\ HostOf(backend) \in LoopbackHosts
    <2>1. router.backends # {}
        BY <1>3, <1>5 DEF SameBackends, Declared, ToSet
    <2>2. BackendIsLocal(router, backend.id) \in {"local", "cloud", "unknown"}
        BY DEF BackendIsLocal
    <2>3. BackendIsLocal(router, backend.id) = "local"
        BY <1>2, <1>5, <2>1, <2>2 DEF DeniesCloud
    <2>. QED
        BY <1>2, <1>3, <1>5, <2>3, LocalIdMeans
<1>. QED
    BY <1>2, <1>4, <1>5

LEMMA InvariantStatus == IInv => StatusTellsTheTruth
<1>. SUFFICES ASSUME IInv PROVE StatusTellsTheTruth
    OBVIOUS
<1>1. sent # <<>> => cmd.verb = "route" /\ cmd.execute /\ Len(sent) = 1
    BY DEF IInv, SentOK
<1>. DEFINE text == IF ~IsServer THEN IF sent = <<>> THEN None ELSE "output"
                    ELSE IF ~query.outgoing THEN None
                    ELSE IF decided.transform = None THEN "prompt" ELSE "redacted"
<1>2. shown # None => shown.decision = Evaluate(router.policy, found) /\ shown.text = text
    <2>1. shown # None => shown = Shown(text) /\ decided = Evaluate(router.policy, found)
        BY DEF IInv, ShownOK
    <2>2. Shown(text).decision = decided /\ Shown(text).text = text
        <3>. HIDE DEF text
        <3>. QED
            BY DEF Shown
    <2>. QED
        BY <2>1, <2>2, Zenon
<1>3. status = "exit 0" /\ cmd.verb \in {"route", "dry-run"} =>
         shown # None /\ (sent # <<>> <=> cmd.verb = "route" /\ cmd.execute)
    BY DEF IInv, ShownOK
<1>4. /\ status \in {"exit 1", "exit 2", "traceback"} => shown = None
      /\ status = "exit 2" => sent = <<>>
    BY DEF IInv, ShownOK
<1>5. shown # None => shown.text \in
         CASE IsServer -> {IF ~query.outgoing THEN None
                           ELSE IF decided.transform = None THEN "prompt" ELSE "redacted"}
           [] OTHER -> {IF sent = <<>> THEN None ELSE "output"}
    BY <1>2
<1>. QED
    BY <1>1, <1>2, <1>3, <1>4, <1>5, Zenon DEF StatusTellsTheTruth

-----------------------------------------------------------------------------
(* The theorems.                                                           *)

(* The invariant holds in every reachable state: what a process of the     *)
(* command line or an MCP server carries from its arguments to its exit.   *)
THEOREM ProcessInvariance == Spec => []IInv
BY InvariantInit, InvariantStep, PTL DEF Spec

(* Every variable keeps the kind of value that cli/main.py and             *)
(* mcp/server.py put there.                                                *)
THEOREM ProcessTypeCorrect == Spec => []TypeOK
<1>1. IInv => TypeOK
    BY DEF IInv
<1>. QED
    BY <1>1, ProcessInvariance, PTL

(* The early exits of Policy.evaluate and of _matches compute the first    *)
(* rule that matches, for every policy and every report of Shield.         *)
THEOREM FirstMatchDecides == Spec => []EvaluatesFirstMatch
BY InvariantEvaluates, ProcessInvariance, PTL

(* A call is refused for its cost if and only if its rounded estimate is   *)
(* more than the ceiling in force, and rounding decides only next to the   *)
(* ceiling: whatever the price table (_price_per_m), the precision of the  *)
(* floats, the prompt and the ceiling, NaN among them (estimate_cost).     *)
THEOREM CeilingIsKept == Spec => []BudgetKept
BY InvariantBudget, ProcessInvariance, PTL

(* route --execute sends a prompt with a denied group to a loopback        *)
(* address only, while router.yaml is what it was and its ids are unique   *)
(* (Router._enforce_deny_cloud, _dispatch, validate_localhost).            *)
THEOREM DispatchIsLocal == Spec => []DispatchStaysLocal
BY InvariantLocal, ProcessInvariance, PTL

(* The exit status, what is printed and what a tool returns agree with     *)
(* what was decided and what was sent (the commands of cli/main.py).       *)
THEOREM StatusIsTrue == Spec => []StatusTellsTheTruth
BY InvariantStatus, ProcessInvariance, PTL

=============================================================================
