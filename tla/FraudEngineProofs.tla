-------------------------- MODULE FraudEngineProofs --------------------------
(***************************************************************************)
(* What the fraud engine keeps for any log of events, any configuration    *)
(* FraudConfig admits and any number of workers.  Three arguments: the     *)
(* rules stay within their scores whatever the context says; evaluation,   *)
(* alert and outbox row are written with the event; and the locks and keys *)
(* of the ledger fix, before the first query, what an evaluation reads     *)
(* about its own order.                                                    *)
(***************************************************************************)
EXTENDS FraudEngine, FiniteSetTheorems, NaturalsInduction, WellFoundedInduction, TLAPS

(* A set of naturals that is not empty has a least element. *)
LEMMA LeastNatural ==
    ASSUME NEW T, T \subseteq Nat, T # {}
    PROVE  \E x \in T : \A y \in T : x <= y
<1>1. PICK x \in T : \A y \in T : ~ (<<y, x>> \in OpToRel(<, Nat))
  BY WFMin, NatLessThanWellFounded, Zenon
<1>2. \A y \in T : x <= y
  <2> TAKE y \in T
  <2>1. x \in Nat /\ y \in Nat
    OBVIOUS
  <2>2. ~(y < x)
    BY <1>1, <2>1 DEF OpToRel
  <2> QED BY <2>1, <2>2
<1> QED BY <1>2

(* The element that MapThenSumSet takes next. *)
Chosen(s) == CHOOSE x \in s : TRUE

(* g holds the sum of f over every subset of S. *)
AddsUp(g, f, S) ==
    g = [s \in SUBSET S |-> IF s = {} THEN 0 ELSE f[Chosen(s)] + g[s \ {Chosen(s)}]]

(* Sums of naturals are naturals: a smallest subset with another sum would *)
(* have a smaller one.                                                     *)
LEMMA AddsUpNat ==
    ASSUME NEW S, IsFiniteSet(S), NEW f \in [S -> Nat], NEW g, AddsUp(g, f, S),
           NEW s \in SUBSET S
    PROVE  g[s] \in Nat
<1> DEFINE bad == {n \in Nat : \E t \in SUBSET S : Cardinality(t) = n /\ g[t] \notin Nat}
<1>1. CASE bad = {}
  <2>1. IsFiniteSet(s) /\ Cardinality(s) \in Nat
    BY FS_Subset, FS_CardinalityType
  <2> QED BY <1>1, <2>1
<1>2. CASE bad # {}
  <2>1. PICK n \in bad : \A m \in bad : n <= m
    <3>1. bad \subseteq Nat
      OBVIOUS
    <3> HIDE DEF bad
    <3> QED BY <1>2, <3>1, LeastNatural
  <2>2. PICK t \in SUBSET S : Cardinality(t) = n /\ g[t] \notin Nat
    OBVIOUS
  <2>3. t # {}
    BY <2>2 DEF AddsUp
  <2>4. Chosen(t) \in t
    BY <2>3 DEF Chosen
  <2>5. /\ Cardinality(t \ {Chosen(t)}) = n - 1 /\ n \in Nat /\ n # 0
        /\ Cardinality(t \ {Chosen(t)}) \in Nat
    <3>1. IsFiniteSet(t) /\ IsFiniteSet(t \ {Chosen(t)})
      BY FS_Subset
    <3> QED BY <2>2, <2>4, <3>1, FS_RemoveElement, FS_EmptySet, FS_CardinalityType
  <2>6. g[t \ {Chosen(t)}] \in Nat
    <3>1. n - 1 \notin bad
      BY <2>1, <2>5
    <3> QED BY <2>5, <3>1
  <2>7. g[t] = f[Chosen(t)] + g[t \ {Chosen(t)}]
    BY <2>3 DEF AddsUp
  <2> QED BY <2>2, <2>4, <2>6, <2>7
<1> QED BY <1>1, <1>2

(* The recursive definition of the sum has a solution on a finite set:     *)
(* there is one for the subsets of every size.                             *)
LEMMA SumExists ==
    ASSUME NEW S, IsFiniteSet(S), NEW f \in [S -> Nat]
    PROVE  \E g : AddsUp(g, f, S)
<1> DEFINE Small(n) == {t \in SUBSET S : Cardinality(t) <= n}
           Upto(g, n) == /\ DOMAIN g = Small(n)
                         /\ \A t \in Small(n) : g[t] = IF t = {} THEN 0
                                     ELSE f[Chosen(t)] + g[t \ {Chosen(t)}]
           bad == {n \in Nat : ~ \E g : g = [x \in DOMAIN g |-> g[x]] /\ Upto(g, n)}
<1>a. \A t \in SUBSET S : IsFiniteSet(t) /\ Cardinality(t) \in Nat /\ (t = {} <=> Cardinality(t) = 0)
  BY FS_Subset, FS_CardinalityType, FS_EmptySet
<1>b. \A t \in SUBSET S : t # {} => /\ Chosen(t) \in t /\ t \ {Chosen(t)} \in SUBSET S
                                    /\ Cardinality(t \ {Chosen(t)}) = Cardinality(t) - 1
  <2> SUFFICES ASSUME NEW t \in SUBSET S, t # {}
               PROVE /\ Chosen(t) \in t /\ t \ {Chosen(t)} \in SUBSET S
                     /\ Cardinality(t \ {Chosen(t)}) = Cardinality(t) - 1
    OBVIOUS
  <2>1. Chosen(t) \in t
    BY DEF Chosen
  <2> QED BY <1>a, <2>1, FS_RemoveElement
<1>1. bad = {}
  <2> SUFFICES ASSUME bad # {} PROVE FALSE
    OBVIOUS
  <2>1. PICK n \in bad : \A m \in bad : n <= m
    <3>1. bad \subseteq Nat
      OBVIOUS
    <3> HIDE DEF bad
    <3> QED BY <3>1, LeastNatural
  <2>2. n # 0
    <3> SUFFICES ASSUME n = 0 PROVE FALSE
      OBVIOUS
    <3> DEFINE g == [t \in Small(0) |-> 0]
    <3>1. \A t \in Small(0) : t = {}
      BY <1>a
    <3>2. Upto(g, 0)
      BY <3>1
    <3> QED BY <3>2
  <2>3. PICK h : h = [x \in DOMAIN h |-> h[x]] /\ Upto(h, n - 1)
    <3>1. n \in Nat /\ n - 1 \in Nat /\ ~(n <= n - 1)
      BY <2>2
    <3>2. n - 1 \notin bad
      <4> HIDE DEF bad
      <4> QED BY <2>1, <3>1
    <3> QED BY <3>1, <3>2
  <2> DEFINE g == [t \in Small(n) |-> IF t = {} THEN 0 ELSE f[Chosen(t)] + h[t \ {Chosen(t)}]]
  <2>4. ASSUME NEW t \in Small(n - 1) PROVE g[t] = h[t]
    <3>1. t \in Small(n)
      BY <1>a
    <3> QED BY <2>3, <3>1
  <2>5. Upto(g, n)
    <3>1. ASSUME NEW t \in Small(n), t # {} PROVE g[t \ {Chosen(t)}] = h[t \ {Chosen(t)}]
      <4>1. t \ {Chosen(t)} \in Small(n - 1)
        BY <1>a, <1>b, <3>1
      <4> HIDE DEF g, Small
      <4> QED BY <2>4, <4>1
    <3> QED BY <3>1
  <2> QED BY <2>5
<1>2. PICK g : DOMAIN g = SUBSET S /\ g = [x \in DOMAIN g |-> g[x]] /\ Upto(g, Cardinality(S))
  <2>1. Small(Cardinality(S)) = SUBSET S
    BY <1>a, FS_Subset
  <2>2. Cardinality(S) \in Nat
    BY <1>a
  <2>3. PICK g : g = [x \in DOMAIN g |-> g[x]] /\ Upto(g, Cardinality(S))
    BY <1>1, <2>2
  <2> QED BY <2>1, <2>3
<1>3. AddsUp(g, f, S)
  BY <1>2 DEF AddsUp
<1> QED BY <1>3

(* The set of rules is finite. *)
LEMMA RuleIdFinite == IsFiniteSet(RuleId)
<1> DEFINE A == {"high_amount"} \cup {"payment_velocity"} \cup {"failed_payment_burst"}
                \cup {"new_device"} \cup {"country_mismatch"}
           B == {"rapid_checkout"} \cup {"account_takeover_composite"} \cup {"refund_abuse"}
                \cup {"bot_checkout"} \cup {"payment_amount_mismatch"}
<1>1. IsFiniteSet(A)
  BY FS_Singleton, FS_Union
<1>2. IsFiniteSet(B)
  BY FS_Singleton, FS_Union
<1>3. RuleId = A \cup B
  BY DEF RuleId
<1> QED BY <1>1, <1>2, <1>3, FS_Union

(* Every rule of the registry, whatever the context, scores at most its    *)
(* maximum, and has one of the four severities.                            *)
LEMMA RuleBounds ==
    ASSUME NEW c, config \in ConfigShape, NEW r \in RuleId
    PROVE  /\ Rules(c)[r].score \in Nat /\ Rules(c)[r].maximum \in Nat
           /\ Rules(c)[r].score <= Rules(c)[r].maximum
           /\ Rules(c)[r].severity \in LOW .. CRITICAL
<1> DEFINE Bounded(x) == /\ x.score \in Nat /\ x.maximum \in Nat /\ x.score <= x.maximum
                         /\ x.severity \in LOW .. CRITICAL
<1>0. ASSUME NEW x, NEW t, NEW m, NEW n \in Nat, NEW v \in LOW .. CRITICAL,
             x = Simple(t, m, n, v)
      PROVE  Bounded(x)
  BY <1>0 DEF Simple, Rule
<1>1. Bounded(HighAmountRule(c))
  <2> DEFINE score == (IF c.amount >= config.amount THEN config.amount_score ELSE 0)
                      + (IF c.deviates THEN config.deviation_score ELSE 0)
             maximum == AtMost(config.amount_score + config.deviation_score, 100)
  <2>1. score \in Nat /\ maximum \in Nat
    BY DEF ConfigShape, AtMost
  <2>2. AtMost(score, maximum) \in Nat /\ AtMost(score, maximum) <= maximum
    BY <2>1 DEF AtMost
  <2>3. (IF c.deviates THEN HIGH ELSE MEDIUM) \in LOW .. CRITICAL
    BY DEF HIGH, MEDIUM, LOW, CRITICAL
  <2> HIDE DEF score, maximum
  <2>4. HighAmountRule(c) = Rule(Eligible, c.amount >= config.amount \/ c.deviates,
                               AtMost(score, maximum), maximum,
                               IF c.deviates THEN HIGH ELSE MEDIUM)
    BY DEF HighAmountRule, score, maximum
  <2> QED BY <2>1, <2>2, <2>3, <2>4 DEF Rule
<1>2. Bounded(CountryMismatchRule(c))
  <2> DEFINE score == (IF c.abroad THEN config.country_score ELSE 0)
                      + (IF c.countries > 1 THEN config.multi_country_score ELSE 0)
             maximum == AtMost(config.country_score + config.multi_country_score, 100)
  <2>1. score \in Nat /\ maximum \in Nat
    BY DEF ConfigShape, AtMost
  <2>2. AtMost(score, maximum) \in Nat /\ AtMost(score, maximum) <= maximum
    BY <2>1 DEF AtMost
  <2>3. (IF c.countries > 1 THEN HIGH ELSE MEDIUM) \in LOW .. CRITICAL
    BY DEF HIGH, MEDIUM, LOW, CRITICAL
  <2> HIDE DEF score, maximum
  <2>4. CountryMismatchRule(c) = Rule({"order_created"} \cup PaymentType,
                               c.abroad \/ c.countries > 1,
                               AtMost(score, maximum), maximum,
                               IF c.countries > 1 THEN HIGH ELSE MEDIUM)
    BY DEF CountryMismatchRule, score, maximum
  <2> QED BY <2>1, <2>2, <2>3, <2>4 DEF Rule
<1>3. /\ config.velocity_score \in Nat /\ config.failure_score \in Nat
      /\ config.device_score \in Nat /\ config.rapid_score \in Nat
      /\ config.takeover_score \in Nat /\ config.refund_score \in Nat
      /\ config.bot_score \in Nat /\ config.mismatch_score \in Nat
      /\ MEDIUM \in LOW .. CRITICAL /\ HIGH \in LOW .. CRITICAL
      /\ CRITICAL \in LOW .. CRITICAL
  BY DEF ConfigShape, LOW, MEDIUM, HIGH, CRITICAL
<1>4. Bounded(PaymentVelocityRule(c)) /\ Bounded(FailedPaymentBurstRule(c))
  BY <1>0, <1>3 DEF PaymentVelocityRule, FailedPaymentBurstRule
<1>5. Bounded(NewDeviceRule(c)) /\ Bounded(RapidCheckoutRule(c))
  BY <1>0, <1>3 DEF NewDeviceRule, RapidCheckoutRule
<1>6. Bounded(AccountTakeoverCompositeRule(c)) /\ Bounded(RefundAbuseRule(c))
  BY <1>0, <1>3 DEF AccountTakeoverCompositeRule, RefundAbuseRule
<1>7. Bounded(BotCheckoutRule(c)) /\ Bounded(PaymentAmountMismatchRule(c))
  BY <1>0, <1>3 DEF BotCheckoutRule, PaymentAmountMismatchRule
<1> HIDE DEF Bounded
<1>8. Bounded(Rules(c)[r])
  BY <1>1, <1>2, <1>4, <1>5, <1>6, <1>7 DEF Rules, RuleId
<1> QED BY <1>8 DEF Bounded

(* The sum of the scores of the rules that match is a natural number. *)
LEMMA TotalNat ==
    ASSUME NEW c, config \in ConfigShape
    PROVE  MapThenSumSet(LAMBDA r : Rules(c)[r].score, MatchedRules(c)) \in Nat
<1> DEFINE S == MatchedRules(c)
           f == [x \in S |-> Rules(c)[x].score]
           eqn(g) == g = [s \in SUBSET S |-> IF s = {} THEN 0
                                             ELSE Rules(c)[CHOOSE x \in s : TRUE].score
                                                    + g[s \ {CHOOSE x \in s : TRUE}]]
           iter == CHOOSE g : eqn(g)
<1>1. MapThenSumSet(LAMBDA r : Rules(c)[r].score, MatchedRules(c)) = iter[S]
  BY DEF MapThenSumSet, MapThenFoldSet
<1>2. \A g : eqn(g) <=> AddsUp(g, f, S)
  <2> TAKE g
  <2>1. ASSUME NEW s \in SUBSET S, s # {}
        PROVE  f[Chosen(s)] = Rules(c)[CHOOSE x \in s : TRUE].score
    BY <2>1 DEF Chosen
  <2> HIDE DEF f
  <2> QED BY <2>1 DEF AddsUp, Chosen
<1>3. S \subseteq RuleId
  BY DEF MatchedRules, ConfigShape
<1>4. f \in [S -> Nat] /\ IsFiniteSet(S)
  <2>1. \A x \in S : Rules(c)[x].score \in Nat
    BY <1>3, RuleBounds
  <2>2. IsFiniteSet(S)
    BY <1>3, RuleIdFinite, FS_Subset
  <2> QED BY <2>1, <2>2
<1> HIDE DEF f, S
<1>5. \E g : eqn(g)
  <2>1. PICK g : AddsUp(g, f, S)
    BY <1>4, SumExists
  <2> HIDE DEF eqn
  <2> QED BY <1>2, <2>1
<1>6. eqn(iter)
  BY <1>5
<1> HIDE DEF iter, eqn
<1>7. AddsUp(iter, f, S)
  BY <1>2, <1>6
<1> QED BY <1>1, <1>4, <1>7, AddsUpNat

(* The highest of some severities is one of them. *)
LEMMA MaxSeverity ==
    ASSUME NEW S, S \subseteq LOW .. CRITICAL, S # {}
    PROVE  Max(S) \in LOW .. CRITICAL
<1>1. \E x \in S : \A y \in S : x >= y
  <2>1. CASE 3 \in S
    BY <2>1 DEF LOW, CRITICAL
  <2>2. CASE 3 \notin S /\ 2 \in S
    BY <2>2 DEF LOW, CRITICAL
  <2>3. CASE 3 \notin S /\ 2 \notin S /\ 1 \in S
    BY <2>3 DEF LOW, CRITICAL
  <2>4. CASE 3 \notin S /\ 2 \notin S /\ 1 \notin S
    <3>1. PICK x \in S : TRUE
      OBVIOUS
    <3>2. \A y \in S : y = 0
      BY <2>4 DEF LOW, CRITICAL
    <3> QED BY <3>1, <3>2
  <2> QED BY <2>1, <2>2, <2>3, <2>4
<1>2. Max(S) \in S
  BY <1>1 DEF Max
<1> QED BY <1>2

(* aggregate returns a score of at most 100, a decision and a severity. *)
LEMMA AggregateTyped ==
    ASSUME NEW c, config \in ConfigShape
    PROVE  /\ Aggregate(c) \in Evaluation
           /\ Aggregate(c).matched = MatchedRules(c)
<1> DEFINE total == MapThenSumSet(LAMBDA r : Rules(c)[r].score, MatchedRules(c))
           score == AtMost(total, 100)
           decision == IF score >= config.block THEN "BLOCK"
                       ELSE IF score >= config.review THEN "REVIEW" ELSE "APPROVE"
           minimum == CASE decision = "BLOCK" -> HIGH
                        [] decision = "REVIEW" -> MEDIUM
                        [] OTHER -> LOW
<1>1. Aggregate(c) = [matched |-> MatchedRules(c), score |-> score, decision |-> decision,
                      severity |-> Severity(c, minimum)]
  BY DEF Aggregate
<1>2. score \in 0 .. 100
  <2>1. total \in Nat
    BY TotalNat
  <2> HIDE DEF total
  <2> QED BY <2>1 DEF AtMost
<1> HIDE DEF score
<1>3. decision \in Decision
  BY DEF Decision
<1> HIDE DEF decision
<1>4. minimum \in LOW .. CRITICAL
  BY DEF LOW, MEDIUM, HIGH, CRITICAL
<1> HIDE DEF minimum
<1>5. MatchedRules(c) \subseteq RuleId
  BY DEF MatchedRules, ConfigShape
<1>6. Severity(c, minimum) \in LOW .. CRITICAL
  <2> DEFINE S == {Rules(c)[r].severity : r \in MatchedRules(c)} \cup {minimum}
  <2>1. \A r \in MatchedRules(c) : Rules(c)[r].severity \in LOW .. CRITICAL
    BY <1>5, RuleBounds
  <2>2. S \subseteq LOW .. CRITICAL /\ S # {}
    BY <1>4, <2>1
  <2> HIDE DEF S
  <2>3. Max(S) \in LOW .. CRITICAL
    BY <2>2, MaxSeverity
  <2> QED BY <2>3 DEF Severity, S
<1> QED BY <1>1, <1>2, <1>3, <1>5, <1>6 DEF Evaluation

(* Which context makes payment_amount_mismatch match. *)
LEMMA MismatchMatches ==
    ASSUME NEW c, config \in ConfigShape, c.type \in Eligible
    PROVE  "payment_amount_mismatch" \in MatchedRules(c) <=>
             "payment_amount_mismatch" \in config.rules /\ ~c.matches
<1> DEFINE r == Rules(c)["payment_amount_mismatch"]
<1>1. r = PaymentAmountMismatchRule(c)
  BY DEF Rules
<1>2. r.types = Eligible /\ r.matched = ~c.matches
  BY <1>1 DEF PaymentAmountMismatchRule, Simple, Rule
<1> QED BY <1>2 DEF MatchedRules

(* The deployment does not change, and is one of the assumption's. *)
LEMMA DeploymentFacts ==
    ASSUME TypeOK
    PROVE  /\ config \in ConfigShape
           /\ log \subseteq EventShape /\ NoEvent \notin log
           /\ \A e, f \in log : e.id = f.id => e = f
           /\ \A e \in log : e.order = 0 <=> e.type \in BeforeOrder
           /\ \A e \in log : e.payment = 0 <=> e.type \in BeforeOrder \cup {"order_created"}
<1> DEFINE d == [log |-> log, config |-> config]
<1>1. d \in Deployments /\ d.log = log /\ d.config = config
  BY DEF TypeOK
<1>2. d \in [log : SUBSET EventShape, config : ConfigShape]
  BY <1>1, FraudAssumption
<1> HIDE DEF d
<1> QED BY <1>1, <1>2, FraudAssumption

(* No context makes a rule exceed its maximum, in any state of the right   *)
(* type.                                                                   *)
LEMMA TypedWithinMaximum == TypeOK => RulesWithinMaximum
<1> SUFFICES ASSUME TypeOK, NEW w \in Worker, Exceeds(ContextOf(w)) PROVE FALSE
  BY DEF RulesWithinMaximum
<1>1. config \in ConfigShape
  BY DeploymentFacts
<1> DEFINE c == ContextOf(w)
<1>2. PICK r \in MatchedRules(c) : Rules(c)[r].score > Rules(c)[r].maximum
  BY DEF Exceeds
<1>3. r \in RuleId
  BY <1>1 DEF MatchedRules, ConfigShape
<1> HIDE DEF c
<1>4. Rules(c)[r].score <= Rules(c)[r].maximum /\ Rules(c)[r].score \in Nat
      /\ Rules(c)[r].maximum \in Nat
  BY <1>1, <1>3, RuleBounds
<1> QED BY <1>2, <1>4

-----------------------------------------------------------------------------
(* The inductive invariant, conjunct by conjunct *)

(* The types are preserved: a transaction at commit has an event, and what *)
(* it evaluated is an evaluation.                                          *)
LEMMA TypeNext ==
    ASSUME TypeOK, TransactionsApart, EvaluatedAtomically, [Next]_vars
    PROVE  TypeOK'
<1>1. ASSUME NEW w \in Worker, NEW e \in log, Apply(w, e) PROVE TypeOK'
  BY <1>1 DEF TypeOK, Apply, tables
<1>2. ASSUME NEW w \in Worker, ReadPayments(w) PROVE TypeOK'
  <2>1. event[w] \in log
    BY <1>2 DEF TypeOK, TransactionsApart, ReadPayments
  <2> QED BY <1>2, <2>1 DEF TypeOK, ReadPayments, tables
<1>3. ASSUME NEW w \in Worker, Evaluate(w) PROVE TypeOK'
  <2>1. Aggregate(ContextOf(w)) \in Evaluation
    BY DeploymentFacts, AggregateTyped
  <2> QED BY <1>3, <2>1 DEF TypeOK, Evaluate, tables
<1>4. ASSUME NEW w \in Worker, Commit(w) PROVE TypeOK'
  <2>1. event[w] \in log
    BY <1>4 DEF TypeOK, TransactionsApart, Commit
  <2>2. \A e \in DOMAIN evaluation' : e \in log /\ evaluation'[e] \in Evaluation
    <3> SUFFICES ASSUME NEW e \in DOMAIN evaluation'
                 PROVE  e \in log /\ evaluation'[e] \in Evaluation
      OBVIOUS
    <3>1. CASE e = event[w] /\ result[w] # NoResult
      BY <1>4, <2>1, <3>1 DEF TypeOK, Commit
    <3>2. CASE e = event[w] /\ result[w] = NoResult
      <4>1. e \in DOMAIN evaluation
        BY <1>4, <3>2 DEF Commit
      <4>2. e \in persisted /\ e \notin persisted
        BY <2>1, <3>2, <4>1, DeploymentFacts
        DEF EvaluatedAtomically, TransactionsApart, Active
      <4> QED BY <4>2
    <3>3. CASE e # event[w]
      <4>1. e \in DOMAIN evaluation /\ evaluation'[e] = evaluation[e]
        BY <1>4, <3>3 DEF Commit
      <4> QED BY <4>1 DEF TypeOK
    <3> QED BY <3>1, <3>2, <3>3
  <2>3. persisted' \subseteq log /\ alerts' \subseteq log /\ outbox' \subseteq log
    BY <1>4, <2>1 DEF TypeOK, Commit
  <2> QED BY <1>4, <2>2, <2>3 DEF TypeOK, Commit, Ended
<1>5. ASSUME NEW w \in Worker, Rollback(w) PROVE TypeOK'
  BY <1>5, FraudAssumption DEF TypeOK, Rollback, Ended, tables
<1>6. ASSUME UNCHANGED vars PROVE TypeOK'
  BY <1>6 DEF TypeOK, vars, tables, txVars
<1> QED BY <1>1, <1>2, <1>3, <1>4, <1>5, <1>6 DEF Next

(* Transactions stay apart: identities and locks keep two of them from     *)
(* working on the same event, or on payments and refunds of one order.     *)
LEMMA ApartNext ==
    ASSUME TypeOK, TransactionsApart, [Next]_vars
    PROVE  TransactionsApart'
<1> USE DEF Active
<1>0. NoEvent \notin log /\ persisted \subseteq log
  BY DeploymentFacts DEF TypeOK
<1>1. ASSUME NEW w \in Worker, NEW e \in log, Apply(w, e) PROVE TransactionsApart'
  <2>1. /\ event' = [event EXCEPT ![w] = e] /\ persisted' = persisted
        /\ pc'[w] # "idle" /\ \A v \in Worker : v # w => pc'[v] = pc[v]
        /\ e \notin persisted /\ e # NoEvent
    BY <1>0, <1>1 DEF Apply, TypeOK, tables
  <2>2. ASSUME NEW v \in Worker, event[v] # NoEvent
        PROVE  /\ event[v] # e
               /\ LocksOrder(event[v]) /\ LocksOrder(e) => event[v].order # e.order
    BY <1>1, <2>2 DEF Apply, Waits
  <2>3. /\ \A v \in Worker : (pc'[v] = "idle" <=> event'[v] = NoEvent)
        /\ Active' \cap persisted' = {}
    BY <2>1 DEF TransactionsApart, TypeOK
  <2>4. ASSUME NEW v \in Worker, NEW u \in Worker, v # u,
               event'[v] # NoEvent, event'[u] # NoEvent
        PROVE  /\ event'[v] # event'[u]
               /\ LocksOrder(event'[v]) /\ LocksOrder(event'[u])
                    => event'[v].order # event'[u].order
    BY <2>1, <2>2, <2>4 DEF TransactionsApart, TypeOK
  <2> QED BY <2>3, <2>4 DEF TransactionsApart, LocksOrder
<1>2. ASSUME NEW w \in Worker, ReadPayments(w) PROVE TransactionsApart'
  BY <1>2 DEF TransactionsApart, ReadPayments, TypeOK, tables, LocksOrder
<1>3. ASSUME NEW w \in Worker, Evaluate(w) PROVE TransactionsApart'
  BY <1>3 DEF TransactionsApart, Evaluate, TypeOK, tables, LocksOrder
<1>4. ASSUME NEW w \in Worker, Commit(w) PROVE TransactionsApart'
  <2>1. /\ event' = [event EXCEPT ![w] = NoEvent]
        /\ pc' = [pc EXCEPT ![w] = "idle"]
        /\ persisted' = persisted \cup {event[w]} /\ event[w] # NoEvent
    BY <1>4 DEF Commit, Ended, TransactionsApart
  <2>2. Active' \cap persisted' = {}
    BY <2>1 DEF TransactionsApart, TypeOK
  <2> QED BY <2>1, <2>2 DEF TransactionsApart, TypeOK, LocksOrder
<1>5. ASSUME NEW w \in Worker, Rollback(w) PROVE TransactionsApart'
  <2>1. /\ event' = [event EXCEPT ![w] = NoEvent]
        /\ pc' = [pc EXCEPT ![w] = "idle"] /\ persisted' = persisted
    BY <1>5 DEF Rollback, Ended, tables
  <2>2. Active' \cap persisted' = {}
    BY <2>1 DEF TransactionsApart, TypeOK
  <2> QED BY <2>1, <2>2 DEF TransactionsApart, TypeOK, LocksOrder
<1>6. ASSUME UNCHANGED vars PROVE TransactionsApart'
  BY <1>6 DEF TransactionsApart, vars, tables, txVars, LocksOrder
<1> QED BY <1>1, <1>2, <1>3, <1>4, <1>5, <1>6 DEF Next

(* A transaction has a result exactly when it is about to commit an event  *)
(* that is to be evaluated.                                                *)
LEMMA EligibleNext ==
    ASSUME TypeOK, TransactionsApart, EvaluatedIfEligible, [Next]_vars
    PROVE  EvaluatedIfEligible'
<1>1. ASSUME NEW w \in Worker, NEW e \in log, Apply(w, e) PROVE EvaluatedIfEligible'
  <2>1. result[w] = NoResult
    BY <1>1, Zenon DEF EvaluatedIfEligible, Apply
  <2> QED BY <1>1, <2>1 DEF EvaluatedIfEligible, Apply, TypeOK, tables
<1>2. ASSUME NEW w \in Worker, ReadPayments(w) PROVE EvaluatedIfEligible'
  BY <1>2 DEF EvaluatedIfEligible, ReadPayments, TypeOK, tables
<1>3. ASSUME NEW w \in Worker, Evaluate(w) PROVE EvaluatedIfEligible'
  <2>1. Aggregate(ContextOf(w)) # NoResult
    BY DeploymentFacts, AggregateTyped, FraudAssumption
  <2> QED BY <1>3, <2>1 DEF EvaluatedIfEligible, Evaluate, TypeOK, tables
<1>4. ASSUME NEW w \in Worker, Commit(w) PROVE EvaluatedIfEligible'
  BY <1>4 DEF EvaluatedIfEligible, Commit, Ended, TypeOK
<1>5. ASSUME NEW w \in Worker, Rollback(w) PROVE EvaluatedIfEligible'
  BY <1>5 DEF EvaluatedIfEligible, Rollback, Ended, TypeOK
<1>6. ASSUME UNCHANGED vars PROVE EvaluatedIfEligible'
  BY <1>6 DEF EvaluatedIfEligible, vars, tables, txVars
<1> QED BY <1>1, <1>2, <1>3, <1>4, <1>5, <1>6 DEF Next

(* What each step does to the events persisted or under way. *)
LEMMA LiveNext ==
    ASSUME TypeOK, TransactionsApart, [Next]_vars
    PROVE  \/ \E w \in Worker, e \in log :
                /\ Apply(w, e) /\ persisted' = persisted
                /\ Active' = Active \cup {e}
           \/ \E w \in Worker :
                /\ Commit(w) /\ persisted' = persisted \cup {event[w]}
                /\ event[w] \in Active /\ Active' = Active \ {event[w]}
           \/ /\ persisted' = persisted /\ Active' \subseteq Active
<1> USE DEF Active
<1>0. NoEvent \notin log
  BY DeploymentFacts
<1>1. ASSUME NEW w \in Worker, NEW e \in log, Apply(w, e)
      PROVE  persisted' = persisted /\ Active' = Active \cup {e}
  <2>1. /\ event' = [event EXCEPT ![w] = e] /\ event[w] = NoEvent
        /\ persisted' = persisted
    BY <1>1 DEF Apply, TransactionsApart, tables
  <2> QED BY <1>0, <2>1 DEF TypeOK
<1>2. ASSUME NEW w \in Worker, Commit(w)
      PROVE  /\ persisted' = persisted \cup {event[w]}
             /\ event[w] \in Active /\ Active' = Active \ {event[w]}
  <2>1. /\ event' = [event EXCEPT ![w] = NoEvent] /\ event[w] # NoEvent
        /\ persisted' = persisted \cup {event[w]}
    BY <1>2 DEF Commit, Ended, TransactionsApart
  <2>2. \A v \in Worker : v # w => event[v] # event[w]
    BY <2>1 DEF TransactionsApart
  <2> QED BY <2>1, <2>2 DEF TypeOK
<1>3. ASSUME NEW w \in Worker, ReadPayments(w) \/ Evaluate(w) \/ Rollback(w)
      PROVE  persisted' = persisted /\ Active' \subseteq Active
  BY <1>3 DEF ReadPayments, Evaluate, Rollback, Ended, TypeOK, tables
<1>4. ASSUME UNCHANGED vars PROVE persisted' = persisted /\ Active' \subseteq Active
  BY <1>4 DEF vars, tables, txVars
<1> HIDE DEF Active
<1> QED BY <1>1, <1>2, <1>3, <1>4 DEF Next

(* order_id stays a key: an order under way is not persisted twice. *)
LEMMA UniqueNext ==
    ASSUME TypeOK, TransactionsApart, OrdersUnique, [Next]_vars
    PROVE  OrdersUnique'
<1>1. ASSUME NEW w \in Worker, NEW e \in log, Apply(w, e), persisted' = persisted,
             Active' = Active \cup {e}
      PROVE  OrdersUnique'
  <2>1. ASSUME NEW f \in persisted \cup Active, e.type = "order_created",
               f.type = "order_created", e.order = f.order
        PROVE  FALSE
    <3>1. CASE f \in persisted
      <4>1. OrderOf(e, persisted) = {}
        BY <1>1, <2>1 DEF Apply, Accepts, PaymentType
      <4> QED BY <2>1, <3>1, <4>1 DEF OrderOf
    <3>2. CASE f \in Active
      BY <1>1, <2>1, <3>2 DEF Active, Apply, Waits
    <3> QED BY <2>1, <3>1, <3>2
  <2> QED BY <1>1, <2>1 DEF OrdersUnique
<1>2. ASSUME NEW w \in Worker, persisted' = persisted \cup {event[w]},
             event[w] \in Active, Active' = Active \ {event[w]}
      PROVE  OrdersUnique'
  BY <1>2 DEF OrdersUnique
<1>3. ASSUME persisted' = persisted, Active' \subseteq Active PROVE OrdersUnique'
  BY <1>3 DEF OrdersUnique
<1> QED BY <1>1, <1>2, <1>3, LiveNext

(* So does payment_id. *)
LEMMA PaymentsUniqueNext ==
    ASSUME TypeOK, TransactionsApart, PaymentsUnique, [Next]_vars
    PROVE  PaymentsUnique'
<1>1. ASSUME NEW w \in Worker, NEW e \in log, Apply(w, e), persisted' = persisted,
             Active' = Active \cup {e}
      PROVE  PaymentsUnique'
  <2>1. ASSUME NEW f \in persisted \cup Active, e.type \in PaymentType,
               f.type \in PaymentType, e.payment = f.payment
        PROVE  FALSE
    <3>1. CASE f \in persisted
      <4>1. PaymentOf(e, persisted) = {}
        BY <1>1, <2>1 DEF Apply, Accepts, PaymentType
      <4> QED BY <2>1, <3>1, <4>1 DEF PaymentOf
    <3>2. CASE f \in Active
      BY <1>1, <2>1, <3>2 DEF Active, Apply, Waits
    <3> QED BY <2>1, <3>1, <3>2
  <2> QED BY <1>1, <2>1 DEF PaymentsUnique
<1>2. ASSUME NEW w \in Worker, persisted' = persisted \cup {event[w]},
             event[w] \in Active, Active' = Active \ {event[w]}
      PROVE  PaymentsUnique'
  BY <1>2 DEF PaymentsUnique
<1>3. ASSUME persisted' = persisted, Active' \subseteq Active PROVE PaymentsUnique'
  BY <1>3 DEF PaymentsUnique
<1> QED BY <1>1, <1>2, <1>3, LiveNext

(* A refund has its payment, of its customer and order. *)
LEMMA PaymentsExistNext ==
    ASSUME TypeOK, TransactionsApart, PaymentsExist, [Next]_vars
    PROVE  PaymentsExist'
<1> DEFINE Backed(e, p) == p.customer = e.customer /\ p.order = e.order
<1>1. ASSUME NEW w \in Worker, NEW e \in log, Apply(w, e), persisted' = persisted,
             Active' = Active \cup {e}
      PROVE  PaymentsExist'
  <2>1. ASSUME e.type = "refund_requested"
        PROVE  \E p \in PaymentOf(e, persisted) : Backed(e, p)
    BY <1>1, <2>1 DEF Apply, Accepts, PaymentType
  <2> QED BY <1>1, <2>1 DEF PaymentsExist
<1>2. ASSUME persisted \subseteq persisted', persisted' \cup Active' \subseteq persisted \cup Active
      PROVE  PaymentsExist'
  <2> SUFFICES ASSUME NEW e \in persisted' \cup Active', e.type = "refund_requested"
               PROVE  \E p \in PaymentOf(e, persisted') : Backed(e, p)
    BY DEF PaymentsExist, PaymentOf
  <2>1. PICK p \in PaymentOf(e, persisted) : Backed(e, p)
    BY <1>2 DEF PaymentsExist
  <2>2. p \in PaymentOf(e, persisted')
    BY <1>2, <2>1 DEF PaymentOf
  <2> QED BY <2>1, <2>2
<1>3. ASSUME NEW w \in Worker, persisted' = persisted \cup {event[w]},
             event[w] \in Active, Active' = Active \ {event[w]}
      PROVE  PaymentsExist'
  BY <1>2, <1>3
<1>4. ASSUME persisted' = persisted, Active' \subseteq Active PROVE PaymentsExist'
  BY <1>2, <1>4
<1> QED BY <1>1, <1>3, <1>4, LiveNext

(* A payment or refund has its order, of its customer and of a payment's   *)
(* amount.                                                                 *)
LEMMA ExistNext ==
    ASSUME TypeOK, TransactionsApart, OrdersExist, [Next]_vars
    PROVE  OrdersExist'
<1> DEFINE Backed(e, o) == /\ o.customer = e.customer
                           /\ e.type \in PaymentType => o.amount = e.amount
<1>1. ASSUME NEW w \in Worker, NEW e \in log, Apply(w, e), persisted' = persisted,
             Active' = Active \cup {e}
      PROVE  OrdersExist'
  <2>1. ASSUME LocksOrder(e)
        PROVE  \E o \in OrderOf(e, persisted) : Backed(e, o)
    <3>1. CASE e.type \in PaymentType
      BY <1>1, <3>1 DEF Apply, Accepts, PaymentType
    <3>2. CASE e.type = "refund_requested"
      <4>1. PICK p \in persisted : /\ p.type \in PaymentType /\ p.order = e.order
                                   /\ p.customer = e.customer
        BY <1>1, <3>2 DEF Apply, Accepts, PaymentType, PaymentOf
      <4>2. \E o \in OrderOf(p, persisted) : o.customer = p.customer
        BY <4>1 DEF OrdersExist, LocksOrder
      <4> QED BY <3>2, <4>1, <4>2 DEF OrderOf, PaymentType
    <3> QED BY <2>1, <3>1, <3>2 DEF LocksOrder
  <2> QED BY <1>1, <2>1 DEF OrdersExist, LocksOrder
<1>2. ASSUME persisted \subseteq persisted', persisted' \cup Active' \subseteq persisted \cup Active
      PROVE  OrdersExist'
  <2> SUFFICES ASSUME NEW e \in persisted' \cup Active', LocksOrder(e)
               PROVE  \E o \in OrderOf(e, persisted') : Backed(e, o)
    BY DEF OrdersExist, LocksOrder, OrderOf
  <2>1. PICK o \in OrderOf(e, persisted) : Backed(e, o)
    BY <1>2 DEF OrdersExist
  <2>2. o \in OrderOf(e, persisted')
    BY <1>2, <2>1 DEF OrderOf
  <2> QED BY <2>1, <2>2
<1>3. ASSUME NEW w \in Worker, persisted' = persisted \cup {event[w]},
             event[w] \in Active, Active' = Active \ {event[w]}
      PROVE  OrdersExist'
  BY <1>2, <1>3
<1>4. ASSUME persisted' = persisted, Active' \subseteq Active PROVE OrdersExist'
  BY <1>2, <1>4
<1> QED BY <1>1, <1>3, <1>4, LiveNext

(* What a transaction has seen stays true: it is persisted or its own. *)
LEMMA SeesNext ==
    ASSUME TypeOK, TransactionsApart, OrdersExist, SeesItsOrder, [Next]_vars
    PROVE  SeesItsOrder'
<1>0. NoEvent \notin log
  BY DeploymentFacts
<1>1. ASSUME NEW w \in Worker, NEW e \in log, Apply(w, e) PROVE SeesItsOrder'
  <2>1. seen[w] \subseteq persisted \cup {e}
    <3>1. event[w] = NoEvent
      BY <1>1 DEF Apply, TransactionsApart
    <3> QED BY <1>0, <3>1 DEF SeesItsOrder, TypeOK
  <2>2. pc'[w] # "evaluate"
    BY <1>1 DEF Apply, TypeOK
  <2> QED BY <1>1, <2>1, <2>2 DEF SeesItsOrder, Apply, TypeOK, tables, LocksOrder, OrderOf
<1>2. ASSUME NEW w \in Worker, ReadPayments(w) PROVE SeesItsOrder'
  <2>1. seen' = [seen EXCEPT ![w] = persisted \cup {event[w]}]
        /\ persisted' = persisted /\ event' = event /\ pc' = [pc EXCEPT ![w] = "evaluate"]
    BY <1>2 DEF ReadPayments, tables
  <2>2. ASSUME LocksOrder(event[w])
        PROVE  OrderOf(event[w], persisted \cup {event[w]}) # {}
    <3>1. event[w] \in Active
      BY <1>2 DEF ReadPayments, TransactionsApart, Active
    <3>2. PICK o \in OrderOf(event[w], persisted) : TRUE
      BY <2>2, <3>1 DEF OrdersExist
    <3> QED BY <3>2 DEF OrderOf
  <2> QED BY <2>1, <2>2 DEF SeesItsOrder, TypeOK, LocksOrder, OrderOf
<1>3. ASSUME NEW w \in Worker, Evaluate(w) PROVE SeesItsOrder'
  BY <1>3 DEF SeesItsOrder, Evaluate, TypeOK, tables, LocksOrder, OrderOf
<1>4. ASSUME NEW w \in Worker, Commit(w) PROVE SeesItsOrder'
  BY <1>4 DEF SeesItsOrder, Commit, Ended, TypeOK, LocksOrder, OrderOf
<1>5. ASSUME NEW w \in Worker, Rollback(w) PROVE SeesItsOrder'
  BY <1>5 DEF SeesItsOrder, Rollback, Ended, TypeOK, tables, LocksOrder, OrderOf
<1>6. ASSUME UNCHANGED vars PROVE SeesItsOrder'
  BY <1>6 DEF SeesItsOrder, vars, tables, txVars, LocksOrder, OrderOf
<1> QED BY <1>1, <1>2, <1>3, <1>4, <1>5, <1>6 DEF Next

(* Payments and refunds of one order do not overtake one another between   *)
(* the first query and the commit.                                         *)
LEMMA UndisturbedNext ==
    ASSUME TypeOK, TransactionsApart, OrderUndisturbed, [Next]_vars
    PROVE  OrderUndisturbed'
<1>1. ASSUME NEW w \in Worker, NEW e \in log, Apply(w, e) PROVE OrderUndisturbed'
  <2>1. ~(pc'[w] = "commit" /\ LocksOrder(e) /\ config.enabled) /\ pc'[w] # "evaluate"
    BY <1>1 DEF Apply, TypeOK, LocksOrder, Eligible, OrderType
  <2> QED BY <1>1, <2>1 DEF OrderUndisturbed, Apply, TypeOK, tables, LocksOrder
<1>2. ASSUME NEW w \in Worker, ReadPayments(w) PROVE OrderUndisturbed'
  BY <1>2 DEF OrderUndisturbed, ReadPayments, TypeOK, tables, LocksOrder
<1>3. ASSUME NEW w \in Worker, Evaluate(w) PROVE OrderUndisturbed'
  BY <1>3 DEF OrderUndisturbed, Evaluate, TypeOK, tables, LocksOrder
<1>4. ASSUME NEW w \in Worker, Commit(w) PROVE OrderUndisturbed'
  <2>1. /\ event' = [event EXCEPT ![w] = NoEvent] /\ event[w] # NoEvent
        /\ pc' = [pc EXCEPT ![w] = "idle"] /\ seen' = [seen EXCEPT ![w] = {}]
        /\ persisted' = persisted \cup {event[w]} /\ config' = config
    BY <1>4 DEF Commit, Ended, TransactionsApart
  <2>2. ASSUME NEW v \in Worker, v # w, pc[v] # "idle", LocksOrder(event[v])
        PROVE  ~(LocksOrder(event[w]) /\ event[w].order = event[v].order)
    BY <2>1, <2>2 DEF TransactionsApart
  <2> QED BY <2>1, <2>2 DEF OrderUndisturbed, TypeOK, LocksOrder
<1>5. ASSUME NEW w \in Worker, Rollback(w) PROVE OrderUndisturbed'
  BY <1>5 DEF OrderUndisturbed, Rollback, Ended, TypeOK, tables, LocksOrder
<1>6. ASSUME UNCHANGED vars PROVE OrderUndisturbed'
  BY <1>6 DEF OrderUndisturbed, vars, tables, txVars, LocksOrder
<1> QED BY <1>1, <1>2, <1>3, <1>4, <1>5, <1>6 DEF Next

(* The order of a payment or refund, persisted or under way, is the same   *)
(* row ever after.                                                         *)
LEMMA OrderFixed ==
    ASSUME TypeOK, TransactionsApart, OrdersUnique, OrdersExist, [Next]_vars,
           NEW e \in persisted \cup Active, LocksOrder(e)
    PROVE  OrderOf(e, persisted') = OrderOf(e, persisted)
<1>1. ASSUME NEW w \in Worker, persisted' = persisted \cup {event[w]}, event[w] \in Active
      PROVE  OrderOf(e, persisted') = OrderOf(e, persisted)
  <2>1. PICK o \in OrderOf(e, persisted) : TRUE
    BY DEF OrdersExist
  <2>2. event[w].type = "order_created" /\ event[w].order = e.order => event[w] = o
    BY <1>1, <2>1 DEF OrdersUnique, OrderOf
  <2> QED BY <1>1, <2>1, <2>2 DEF OrderOf
<1> QED BY <1>1, LiveNext

(* What the evaluation of an event says of its amount. *)
LEMMA MismatchDecided ==
    ASSUME TypeOK, TransactionsApart, EvaluatedIfEligible, OrdersUnique, OrdersExist,
           SeesItsOrder, NEW w \in Worker, pc[w] = "evaluate"
    PROVE  "payment_amount_mismatch" \in Aggregate(ContextOf(w)).matched <=>
             /\ "payment_amount_mismatch" \in config.rules
             /\ event[w].type = "refund_requested"
             /\ \E o \in OrderOf(event[w], persisted) : o.amount # event[w].amount
<1> DEFINE c == ContextOf(w)
           e == event[w]
<1>1. /\ c.type = e.type
      /\ c.matches = (\A o \in OrderOf(e, seen[w]) : o.amount = e.amount)
  BY DEF ContextOf, Context
<1>2. e.type \in Eligible /\ e \in Active /\ e \in log
  BY DEF EvaluatedIfEligible, TransactionsApart, Active, TypeOK
<1>3. config \in ConfigShape
  BY DeploymentFacts
<1>4. seen[w] \subseteq persisted \cup {e}
  BY DEF SeesItsOrder
<1> HIDE DEF c, e
<1>0. "payment_amount_mismatch" \in Aggregate(c).matched <=>
        "payment_amount_mismatch" \in config.rules /\ ~c.matches
  BY <1>1, <1>2, <1>3, AggregateTyped, MismatchMatches
<1>5. CASE e.type = "refund_requested"
  <2>1. PICK o \in OrderOf(e, seen[w]) : TRUE
    BY <1>5 DEF SeesItsOrder, LocksOrder, e
  <2>2. \A f \in OrderOf(e, persisted) : f = o
    BY <1>2, <1>4, <2>1 DEF OrdersUnique, OrderOf
  <2>3. OrderOf(e, seen[w]) \subseteq OrderOf(e, persisted)
    BY <1>4, <1>5 DEF OrderOf
  <2>4. OrderOf(e, seen[w]) = OrderOf(e, persisted)
    BY <2>1, <2>2, <2>3
  <2>5. ~c.matches <=> \E x \in OrderOf(e, persisted) : x.amount # e.amount
    BY <1>1, <2>4
  <2> QED BY <1>0, <1>5, <2>5 DEF c, e
<1>6. CASE e.type # "refund_requested"
  <2>1. ASSUME NEW f \in OrderOf(e, seen[w]) PROVE f.amount = e.amount
    <3>1. f \in persisted \cup {e} /\ f.type = "order_created" /\ f.order = e.order
      BY <1>4 DEF OrderOf
    <3>2. CASE e.type \in PaymentType
      <4>1. PICK o \in OrderOf(e, persisted) : o.amount = e.amount
        BY <1>2, <3>2 DEF OrdersExist, LocksOrder
      <4>2. f = o
        BY <1>2, <3>1, <4>1 DEF OrdersUnique, OrderOf
      <4> QED BY <4>1, <4>2
    <3>3. CASE e.type = "order_created"
      <4>1. f = e
        BY <1>2, <3>1, <3>3 DEF OrdersUnique
      <4> QED BY <4>1
    <3>4. CASE e.type = "checkout_started"
      <4>1. e.order = 0 /\ f \in log /\ f.order # 0
        BY <1>2, <3>1, <3>4, DeploymentFacts DEF BeforeOrder, TypeOK
      <4> QED BY <3>1, <4>1
    <3> QED BY <1>2, <1>6, <3>2, <3>3, <3>4 DEF Eligible, OrderType
  <2>2. c.matches
    BY <1>1, <2>1
  <2> QED BY <1>0, <1>6, <2>2 DEF c, e
<1> QED BY <1>5, <1>6

(* A result about to be committed reports a mismatch exactly for a refund  *)
(* of another amount than its order's.                                     *)
LEMMA MismatchAtCommitNext ==
    ASSUME FraudIInv, [Next]_vars
    PROVE  MismatchAtCommit'
<1> USE DEF FraudIInv
<1> DEFINE Partial(e) == /\ "payment_amount_mismatch" \in config.rules
                         /\ e.type = "refund_requested"
                         /\ \E o \in OrderOf(e, persisted) : o.amount # e.amount
           PartialNext(e) == /\ "payment_amount_mismatch" \in config.rules
                             /\ e.type = "refund_requested"
                             /\ \E o \in OrderOf(e, persisted') : o.amount # e.amount
           Says(x) == "payment_amount_mismatch" \in x.matched
<1>a. config' = config
  BY DEF Next, Apply, ReadPayments, Evaluate, Commit, Rollback, vars
<1>b. ASSUME NEW e \in persisted \cup Active PROVE PartialNext(e) <=> Partial(e)
  <2>1. CASE e.type = "refund_requested"
    BY <2>1, OrderFixed DEF LocksOrder
  <2>2. CASE e.type # "refund_requested"
    BY <2>2
  <2> QED BY <2>1, <2>2
<1>c. \A w \in Worker : result[w] # NoResult => (Says(result[w]) <=> Partial(event[w]))
  BY DEF MismatchAtCommit
<1>d. \A w \in Worker : result[w] # NoResult => event[w] \in Active
  BY DEF EvaluatedIfEligible, TransactionsApart, Active
<1> SUFFICES ASSUME NEW w \in Worker, result'[w] # NoResult
             PROVE  Says(result'[w]) <=> PartialNext(event'[w])
  BY <1>a DEF MismatchAtCommit, OrderOf
<1> HIDE DEF Partial, PartialNext, Says
<1>1. CASE result'[w] = result[w] /\ event'[w] = event[w]
  BY <1>1, <1>b, <1>c, <1>d
<1>2. CASE Evaluate(w)
  <2>1. result'[w] = Aggregate(ContextOf(w)) /\ event'[w] = event[w] /\ pc[w] = "evaluate"
    BY <1>2 DEF Evaluate, TypeOK
  <2>2. Says(Aggregate(ContextOf(w))) <=> Partial(event[w])
    BY <2>1, MismatchDecided DEF Says, Partial
  <2>3. event[w] \in Active
    BY <2>1 DEF TransactionsApart, Active
  <2> QED BY <2>1, <2>2, <2>3, <1>b
<1>3. \/ result'[w] = result[w] /\ event'[w] = event[w]
      \/ Evaluate(w)
      \/ result'[w] = NoResult
  <2>1. ASSUME NEW v \in Worker, NEW e \in log, Apply(v, e)
        PROVE  \/ result'[w] = result[w] /\ event'[w] = event[w]
               \/ result'[w] = NoResult
    <3>1. v = w => result[w] = NoResult
      BY <2>1, Zenon DEF Apply, EvaluatedIfEligible
    <3> QED BY <2>1, <3>1 DEF Apply, TypeOK
  <2>2. ASSUME NEW v \in Worker, ReadPayments(v)
        PROVE  result'[w] = result[w] /\ event'[w] = event[w]
    BY <2>2 DEF ReadPayments
  <2>3. ASSUME NEW v \in Worker, v # w, Evaluate(v)
        PROVE  result'[w] = result[w] /\ event'[w] = event[w]
    BY <2>3 DEF Evaluate, TypeOK
  <2>4. ASSUME NEW v \in Worker, Commit(v) \/ Rollback(v)
        PROVE  \/ result'[w] = result[w] /\ event'[w] = event[w]
               \/ result'[w] = NoResult
    BY <2>4 DEF Commit, Rollback, Ended, TypeOK
  <2>5. ASSUME UNCHANGED vars PROVE result'[w] = result[w] /\ event'[w] = event[w]
    BY <2>5 DEF vars, txVars
  <2> QED BY <2>1, <2>2, <2>3, <2>4, <2>5 DEF Next
<1> QED BY <1>1, <1>2, <1>3

(* What is persisted with an event: one evaluation if it is eligible, and  *)
(* an alert and an outbox row if that does not approve.                    *)
LEMMA AtomicNext ==
    ASSUME FraudIInv, [Next]_vars
    PROVE  EvaluatedAtomically'
<1> USE DEF FraudIInv
<1>1. ASSUME UNCHANGED <<config, tables>> PROVE EvaluatedAtomically'
  BY <1>1 DEF EvaluatedAtomically, tables
<1>2. ASSUME NEW w \in Worker, Commit(w) PROVE EvaluatedAtomically'
  <2> DEFINE e == event[w]
  <2>1. /\ persisted' = persisted \cup {e} /\ config' = config
        /\ DOMAIN evaluation' = DOMAIN evaluation \cup (IF result[w] = NoResult THEN {} ELSE {e})
        /\ \A f \in DOMAIN evaluation' :
                evaluation'[f] = IF f = e THEN result[w] ELSE evaluation[f]
        /\ alerts' = IF result[w] # NoResult /\ result[w].decision # "APPROVE"
                     THEN alerts \cup {e} ELSE alerts
        /\ outbox' = IF result[w] # NoResult /\ result[w].decision # "APPROVE" /\ config.outbox
                     THEN outbox \cup {e} ELSE outbox
    BY <1>2 DEF Commit
  <2>2. e \notin persisted
    BY <1>2 DEF Commit, TransactionsApart, Active
  <2>3. result[w] # NoResult <=> config.enabled /\ e.type \in Eligible
    BY <1>2 DEF Commit, EvaluatedIfEligible
  <2> HIDE DEF e
  <2>4. DOMAIN evaluation' = {f \in persisted' : config'.enabled /\ f.type \in Eligible}
    BY <2>1, <2>3 DEF EvaluatedAtomically
  <2>5. alerts' = {f \in DOMAIN evaluation' : evaluation'[f].decision # "APPROVE"}
    <3>1. e \notin DOMAIN evaluation
      BY <2>2 DEF EvaluatedAtomically
    <3>2. \A f \in DOMAIN evaluation : f \in DOMAIN evaluation' /\ evaluation'[f] = evaluation[f]
      BY <2>1, <3>1
    <3>3. CASE result[w] = NoResult
      BY <2>1, <3>2, <3>3 DEF EvaluatedAtomically
    <3>4. CASE result[w] # NoResult
      BY <2>1, <3>2, <3>4 DEF EvaluatedAtomically
    <3> QED BY <3>3, <3>4
  <2>6. outbox' = IF config'.outbox THEN alerts' ELSE {}
    BY <2>1 DEF EvaluatedAtomically
  <2> QED BY <2>4, <2>5, <2>6 DEF EvaluatedAtomically
<1> QED BY <1>1, <1>2 DEF Next, Apply, ReadPayments, Evaluate, Rollback, vars

(* The same for the evaluations in the table. *)
LEMMA MismatchNext ==
    ASSUME FraudIInv, [Next]_vars
    PROVE  MismatchIsPartialRefund'
<1> USE DEF FraudIInv
<1> DEFINE Partial(e) == /\ "payment_amount_mismatch" \in config.rules
                         /\ e.type = "refund_requested"
                         /\ \E o \in OrderOf(e, persisted) : o.amount # e.amount
           PartialNext(e) == /\ "payment_amount_mismatch" \in config.rules
                             /\ e.type = "refund_requested"
                             /\ \E o \in OrderOf(e, persisted') : o.amount # e.amount
           Says(x) == "payment_amount_mismatch" \in x.matched
<1>a. config' = config
  BY DEF Next, Apply, ReadPayments, Evaluate, Commit, Rollback, vars
<1>b. ASSUME NEW e \in persisted \cup Active PROVE PartialNext(e) <=> Partial(e)
  <2>1. CASE e.type = "refund_requested"
    BY <2>1, OrderFixed DEF LocksOrder
  <2>2. CASE e.type # "refund_requested"
    BY <2>2
  <2> QED BY <2>1, <2>2
<1>c. \A e \in DOMAIN evaluation : e \in persisted /\ (Says(evaluation[e]) <=> Partial(e))
  BY DEF MismatchIsPartialRefund, EvaluatedAtomically
<1> SUFFICES ASSUME NEW e \in DOMAIN evaluation'
             PROVE  Says(evaluation'[e]) <=> PartialNext(e)
  BY <1>a DEF MismatchIsPartialRefund, OrderOf
<1>1. ASSUME e \in DOMAIN evaluation, evaluation'[e] = evaluation[e]
      PROVE  Says(evaluation'[e]) <=> PartialNext(e)
  <2> HIDE DEF Partial, PartialNext, Says
  <2> QED BY <1>1, <1>b, <1>c
<1>2. ASSUME NEW w \in Worker, Commit(w), e = event[w]
      PROVE  Says(evaluation'[e]) <=> PartialNext(e)
  <2>1. e \in Active /\ e \notin DOMAIN evaluation
    BY <1>2 DEF Commit, TransactionsApart, Active, EvaluatedAtomically
  <2>2. result[w] # NoResult /\ evaluation'[e] = result[w]
    BY <1>2, <2>1 DEF Commit
  <2>3. Says(result[w]) <=> Partial(e)
    BY <1>2, <2>2 DEF MismatchAtCommit
  <2> HIDE DEF Partial, PartialNext, Says
  <2> QED BY <1>b, <2>1, <2>2, <2>3
<1>3. ASSUME NEW w \in Worker, Commit(w), e # event[w]
      PROVE  e \in DOMAIN evaluation /\ evaluation'[e] = evaluation[e]
  BY <1>3 DEF Commit
<1>4. \/ evaluation' = evaluation
      \/ \E w \in Worker : Commit(w)
  BY DEF Next, Apply, ReadPayments, Evaluate, Rollback, vars, tables
<1> HIDE DEF PartialNext, Says
<1> QED BY <1>1, <1>2, <1>3, <1>4

-----------------------------------------------------------------------------
(* The inductive invariant holds: it does in the initial state, and every  *)
(* step of a transaction (unit_of_work.py:129-206) preserves it.           *)
THEOREM FraudIInvHolds == Spec => []FraudIInv
<1>1. Init => FraudIInv
  <2> SUFFICES ASSUME Init PROVE FraudIInv
    OBVIOUS
  <2>1. TypeOK
    <3>1. PICK d \in Deployments : log = d.log /\ config = d.config
      BY DEF Init
    <3>2. d = [log |-> d.log, config |-> d.config]
      BY FraudAssumption
    <3>3. [log |-> log, config |-> config] \in Deployments
      BY <3>1, <3>2
    <3> QED BY <3>3, FraudAssumption DEF Init, TypeOK
  <2>2. TransactionsApart /\ EvaluatedIfEligible /\ SeesItsOrder
    BY DEF Init, TransactionsApart, EvaluatedIfEligible, SeesItsOrder, Active
  <2>3. OrdersUnique /\ OrdersExist /\ PaymentsUnique /\ PaymentsExist
    BY DEF Init, OrdersUnique, OrdersExist, PaymentsUnique, PaymentsExist, Active
  <2>4. MismatchAtCommit /\ OrderUndisturbed
    BY DEF Init, MismatchAtCommit, OrderUndisturbed
  <2>5. DOMAIN evaluation = {}
    BY DEF Init
  <2>6. EvaluatedAtomically /\ MismatchIsPartialRefund
    BY <2>5 DEF Init, EvaluatedAtomically, MismatchIsPartialRefund
  <2> QED BY <2>1, <2>2, <2>3, <2>4, <2>6 DEF FraudIInv
<1>2. FraudIInv /\ [Next]_vars => FraudIInv'
  <2> SUFFICES ASSUME FraudIInv, [Next]_vars PROVE FraudIInv'
    OBVIOUS
  <2>1. TypeOK' /\ TransactionsApart' /\ EvaluatedIfEligible'
    BY TypeNext, ApartNext, EligibleNext DEF FraudIInv
  <2>2. /\ OrdersUnique' /\ OrdersExist' /\ PaymentsUnique' /\ PaymentsExist'
        /\ SeesItsOrder'
    BY UniqueNext, ExistNext, PaymentsUniqueNext, PaymentsExistNext, SeesNext DEF FraudIInv
  <2>3. MismatchAtCommit' /\ EvaluatedAtomically' /\ OrderUndisturbed' /\ MismatchIsPartialRefund'
    BY MismatchAtCommitNext, AtomicNext, UndisturbedNext, MismatchNext DEF FraudIInv
  <2> QED BY <2>1, <2>2, <2>3 DEF FraudIInv
<1> QED BY <1>1, <1>2, PTL DEF Spec

(* The variables keep their types; in particular, for every configuration  *)
(* and any set of matching rules, the persisted score is at most 100 and   *)
(* the severity one of four (scoring.py:18-41).                            *)
THEOREM FraudTypeOKHolds == Spec => []TypeOK
<1>1. FraudIInv => TypeOK
  BY DEF FraudIInv
<1> QED BY <1>1, FraudIInvHolds, PTL

(* Evaluations, alerts and outbox rows are those of the persisted events,  *)
(* whatever transactions are rolled back (repository.py:28-165).           *)
THEOREM EvaluatedAtomicallyHolds == Spec => []EvaluatedAtomically
<1>1. FraudIInv => EvaluatedAtomically
  BY DEF FraudIInv
<1> QED BY <1>1, FraudIInvHolds, PTL

(* No payment or refund of an order is persisted between the queries of    *)
(* another of that order and its commit (payments.py:39-45).               *)
THEOREM OrderUndisturbedHolds == Spec => []OrderUndisturbed
<1>1. FraudIInv => OrderUndisturbed
  BY DEF FraudIInv
<1> QED BY <1>1, FraudIInvHolds, PTL

(* No rule of the registry can make the engine raise (engine.py:43-46),    *)
(* under any configuration and in any context.                             *)
THEOREM RulesWithinMaximumHolds == Spec => []RulesWithinMaximum
<1>1. FraudIInv => RulesWithinMaximum
  BY TypedWithinMaximum DEF FraudIInv
<1> QED BY <1>1, FraudIInvHolds, PTL

(* payment_amount_mismatch is reported for refunds of a part of the order, *)
(* and for nothing else (context.py:128-132).                              *)
THEOREM MismatchIsPartialRefundHolds == Spec => []MismatchIsPartialRefund
<1>1. FraudIInv => MismatchIsPartialRefund
  BY DEF FraudIInv
<1> QED BY <1>1, FraudIInvHolds, PTL

-----------------------------------------------------------------------------
(* The verdict as a function of the log *)

(* A transaction that has seen the customer's past evaluates in the        *)
(* context the log determines.                                             *)
LEMMA ContextOfTheLog ==
    ASSUME FraudIInv, CausalLog(log), NEW w \in Worker, pc[w] = "evaluate",
           NEW P, P = {f \in log : f.customer = event[w].customer /\ f.time <= event[w].time},
           P \subseteq seen[w],
           \A f \in persisted : f.type = "refund_requested" => ~(f.time > event[w].time)
    PROVE  ContextOf(w) = Context(event[w], P, P)
<1> DEFINE e == event[w]
           F == seen[w]
           R == persisted \cup {e}
<1> USE DEF FraudIInv
<1>1. /\ e \in log /\ e \in Active /\ e.type \in Eligible
      /\ F \subseteq R /\ R \subseteq log /\ R \subseteq persisted \cup Active
      /\ P \subseteq F /\ P \subseteq log
  <2>1. e \in log /\ e \in Active /\ e.type \in Eligible
    BY DEF TypeOK, TransactionsApart, EvaluatedIfEligible, Active
  <2> QED BY <2>1 DEF TypeOK, SeesItsOrder
<1>2. log \subseteq EventShape
  BY DeploymentFacts
<1>3. \A f \in log : f.time \in Nat
  BY <1>2 DEF EventShape
<1>4. e \in P
  BY <1>1, <1>3
<1>5. \A f \in log : f.customer = e.customer /\ f.time <= e.time => f \in P
  OBVIOUS
<1>6. \A f \in R : f.type = "refund_requested" => f.time <= e.time
  BY <1>1, <1>3
<1>0. ContextOf(w) = Context(e, F, R)
  BY DEF ContextOf
<1> HIDE DEF e, F, R
<1>7. ASSUME NEW o \in OrderOf(e, F) PROVE o.customer = e.customer /\ o.time <= e.time
  <2>1. o \in R /\ o \in log /\ o.type = "order_created" /\ o.order = e.order
    BY <1>1 DEF OrderOf
  <2>2. CASE LocksOrder(e)
    <3>1. PICK q \in OrderOf(e, persisted) : q.customer = e.customer
      BY <1>1, <2>2 DEF OrdersExist
    <3>2. q = o
      BY <1>1, <2>1, <3>1 DEF OrdersUnique, OrderOf
    <3> QED BY <1>1, <2>1, <2>2, <3>1, <3>2 DEF CausalLog
  <2>3. CASE e.type = "order_created"
    <3>1. o = e
      BY <1>1, <2>1, <2>3 DEF OrdersUnique
    <3> QED BY <1>1, <1>3, <3>1
  <2>4. CASE e.type = "checkout_started"
    <3>1. e.order = 0 /\ o.order # 0
      BY <1>1, <2>1, <2>4, DeploymentFacts DEF BeforeOrder
    <3> QED BY <2>1, <3>1
  <2> QED BY <1>1, <2>2, <2>3, <2>4 DEF Eligible, OrderType, LocksOrder
<1>8. OrderOf(e, F) = OrderOf(e, P)
  BY <1>1, <1>5, <1>7 DEF OrderOf
<1>9. SessionOf(e, F) = SessionOf(e, P)
  <2>1. ASSUME NEW s \in SessionOf(e, F) PROVE s \in P
    <3>1. s \in log /\ s.type = "session_started"
      BY <1>1 DEF SessionOf
    <3>2. CASE s.session = e.session
      BY <1>1, <1>5, <3>1, <3>2 DEF CausalLog
    <3>3. CASE s.session # e.session
      <4>1. PICK o \in OrderOf(e, F) : s.session = o.session
        BY <3>3 DEF SessionOf
      <4>2. o \in log /\ o.type \in Eligible
        BY <1>1, <4>1 DEF OrderOf, Eligible, OrderType
      <4>3. s.customer = o.customer /\ s.time <= o.time
        BY <3>1, <4>1, <4>2 DEF CausalLog
      <4> QED BY <1>1, <1>3, <1>5, <1>7, <3>1, <4>1, <4>2, <4>3
    <3> QED BY <3>2, <3>3
  <2> QED BY <1>1, <1>8, <2>1 DEF SessionOf
<1>10. /\ RecentPayments(e, F) = RecentPayments(e, P)
       /\ RecentRefunds(e, R) = RecentRefunds(e, P)
       /\ \A from : Within(R, {"product_viewed"}, e, from) = Within(P, {"product_viewed"}, e, from)
  <2>1. P = {f \in log : f.customer = e.customer /\ f.time <= e.time}
    BY DEF e
  <2>2. \A T, from : /\ Within(F, T, e, from) = Within(P, T, e, from)
                     /\ Within(R, T, e, from) = Within(P, T, e, from)
    <3> TAKE T, from
    <3> QED BY <1>1, <2>1 DEF Within
  <2> QED BY <2>2, Zenon DEF RecentPayments, RecentRefunds
<1>11. ASSUME NEW p \in R, NEW r \in R, p.type \in PaymentType, r.type = "refund_requested",
              r.payment = p.payment
       PROVE  r.customer = p.customer
  <2>1. PICK q \in PaymentOf(r, persisted) : q.customer = r.customer
    BY <1>1, <1>11 DEF PaymentsExist
  <2>2. q = p
    BY <1>1, <1>11, <2>1 DEF PaymentsUnique, PaymentOf
  <2> QED BY <2>1, <2>2
<1>12. Successful(e, R) = Successful(e, P)
  <2> DEFINE B(X) == {g \in X : /\ g.type \in PaymentType /\ g.customer = e.customer
                                /\ g.time < e.time}
  <2>1. B(R) = B(P)
    BY <1>1, <1>3, <1>5
  <2>2. ASSUME NEW f \in B(R) PROVE RefundsOf(f, R) = RefundsOf(f, P)
    <3>1. ASSUME NEW g \in RefundsOf(f, R) PROVE g \in P
      BY <1>1, <1>5, <1>6, <1>11 DEF RefundsOf
    <3> QED BY <1>1, <3>1 DEF RefundsOf
  <2>3. Latest(config.limit, B(R)) \subseteq B(R)
    BY DEF Latest
  <2>4. Successful(e, R) = {f \in Latest(config.limit, B(R)) :
                                f.type = "payment_completed" /\ RefundsOf(f, R) = {}}
    BY DEF Successful
  <2>5. Successful(e, P) = {f \in Latest(config.limit, B(P)) :
                                f.type = "payment_completed" /\ RefundsOf(f, P) = {}}
    BY DEF Successful
  <2> HIDE DEF B
  <2> QED BY <2>1, <2>2, <2>3, <2>4, <2>5
<1>13. ASSUME e.payment # 0
       PROVE  PaymentOf(e, R) = PaymentOf(e, P) /\ RefundsOf(e, R) = RefundsOf(e, P)
  <2>0. CASE e.type \in PaymentType
    <3>1. ASSUME NEW p \in PaymentOf(e, R) PROVE p \in P
      BY <1>1, <1>4, <2>0 DEF PaymentOf, PaymentsUnique
    <3>2. ASSUME NEW g \in RefundsOf(e, R) PROVE g \in P
      <4>1. e \in R
        BY DEF R
      <4> QED BY <1>1, <1>5, <1>6, <1>11, <2>0, <4>1 DEF RefundsOf
    <3> QED BY <1>1, <3>1, <3>2 DEF PaymentOf, RefundsOf
  <2>1. CASE e.type = "refund_requested"
    <3>1. PICK q \in PaymentOf(e, persisted) : q.customer = e.customer
      BY <1>1, <2>1 DEF PaymentsExist
    <3>2. q \in R /\ q \in log /\ q.type \in PaymentType /\ q.payment = e.payment
      BY <1>1, <3>1 DEF PaymentOf, R
    <3>3. ASSUME NEW p \in PaymentOf(e, R) PROVE p \in P
      <4>1. p = q
        BY <1>1, <3>2 DEF PaymentOf, PaymentsUnique
      <4> QED BY <1>1, <1>5, <2>1, <3>1, <3>2, <4>1 DEF CausalLog
    <3>4. ASSUME NEW g \in RefundsOf(e, R) PROVE g \in P
      <4>1. g \in R /\ g.type = "refund_requested" /\ g.payment = q.payment
        BY <3>2 DEF RefundsOf
      <4> QED BY <1>1, <1>5, <1>6, <1>11, <3>1, <3>2, <4>1
    <3> QED BY <1>1, <3>3, <3>4 DEF PaymentOf, RefundsOf
  <2>2. e.type \in PaymentType \cup {"refund_requested"}
    BY <1>1, <1>13, DeploymentFacts DEF Eligible, OrderType, BeforeOrder
  <2> QED BY <2>0, <2>1, <2>2
<1>14. Context(e, F, R) = Context(e, P, P)
  <2> DEFINE start(X) == CHOOSE s \in SessionOf(e, X) : TRUE
             payment(X) == CHOOSE p \in PaymentOf(e, X) : TRUE
             left(X) == IF e.payment = 0 THEN 0
                        ELSE payment(X).amount - Amounts(RefundsOf(e, X))
             since(X) == IF e.payment = 0 THEN 0 ELSE NotNegative(e.time - payment(X).time)
             build(order, st, recent, gd, viewed, refunds, lf, sn) ==
                LET after(window) == {f \in recent : f.time >= e.time - window}
                    newDevice == /\ e.device # None /\ gd # {}
                                 /\ e.device \notin {f.device : f \in gd}
                IN [type |-> e.type,
                    amount |-> e.amount,
                    deviates |-> /\ Amounts(gd) > 0
                                 /\ e.amount * Cardinality(gd)
                                        >= Amounts(gd) * config.multiplier,
                    matches |-> \A o \in order : o.amount = e.amount,
                    attempts |-> Cardinality(after(config.velocity_window)),
                    failures |-> Cardinality({f \in after(config.failure_window) :
                                                f.type = "payment_failed"}),
                    countries |-> Cardinality({f.country : f \in after(config.country_window)}),
                    established |-> Cardinality(gd),
                    newDevice |-> newDevice,
                    abroad |-> e.country # None /\ e.country # Home[e.customer],
                    elapsed |-> NotNegative(e.time - st.time),
                    views |-> Cardinality(Latest(config.limit, viewed)),
                    refunds |-> Cardinality(refunds),
                    refundable |-> lf,
                    sincePayment |-> sn]
             viewed(X, Y) == Within(Y, {"product_viewed"}, e, start(X).time)
  <2>1. Context(e, F, R) = build(OrderOf(e, F), start(F), RecentPayments(e, F), Successful(e, R),
                                 viewed(F, R), RecentRefunds(e, R), left(R), since(R))
    BY Zenon DEF Context
  <2>2. Context(e, P, P) = build(OrderOf(e, P), start(P), RecentPayments(e, P), Successful(e, P),
                                 viewed(P, P), RecentRefunds(e, P), left(P), since(P))
    BY Zenon DEF Context
  <2>3. start(F) = start(P) /\ viewed(F, R) = viewed(P, P)
    BY <1>9, <1>10
  <2>4. left(R) = left(P) /\ since(R) = since(P)
    <3>1. CASE e.payment = 0
      BY <3>1
    <3>2. CASE e.payment # 0
      <4>1. payment(R) = payment(P) /\ RefundsOf(e, R) = RefundsOf(e, P)
        BY <1>13, <3>2
      <4> HIDE DEF payment
      <4> QED BY <4>1
    <3> QED BY <3>1, <3>2
  <2> HIDE DEF start, left, since, viewed, build
  <2> QED BY <1>8, <1>10, <1>12, <2>1, <2>2, <2>3, <2>4
<1> QED BY <1>0, <1>14 DEF e

(* For every causal log, the verdict on an event whose customer's past has *)
(* been persisted is the one the log determines, whatever else is          *)
(* persisted, before or after and by whomever, except for later refunds    *)
(* (context.py:107-195).                                                   *)
THEOREM VerdictOfTheLogHolds ==
    ASSUME \A d \in Deployments : CausalLog(d.log)
    PROVE  Spec => []VerdictOfTheLog
<1>1. FraudIInv => VerdictOfTheLog
  <2> SUFFICES ASSUME FraudIInv PROVE VerdictOfTheLog
    OBVIOUS
  <2>1. CausalLog(log)
    <3> DEFINE d == [log |-> log, config |-> config]
    <3>1. d \in Deployments /\ d.log = log
      BY DEF FraudIInv, TypeOK
    <3> HIDE DEF d
    <3> QED BY <3>1
  <2>2. ASSUME NEW w \in Worker, pc[w] = "evaluate",
               {f \in log : f.customer = event[w].customer /\ f.time <= event[w].time}
                    \subseteq seen[w],
               ~ \E f \in persisted : f.type = "refund_requested" /\ f.time > event[w].time
        PROVE  LET past == {f \in log : f.customer = event[w].customer
                                        /\ f.time <= event[w].time}
               IN  Aggregate(ContextOf(w)) = Aggregate(Context(event[w], past, past))
    BY <2>1, <2>2, ContextOfTheLog
  <2> QED BY <2>2 DEF VerdictOfTheLog
<1> QED BY <1>1, FraudIInvHolds, PTL
=============================================================================
