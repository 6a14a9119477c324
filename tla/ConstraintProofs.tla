--------------------------- MODULE ConstraintProofs ---------------------------
(***************************************************************************)
(* Theorems about the constraint evaluator, for every set of programs and  *)
(* every limit: the keys it remembers stand for where clauses that are     *)
(* met, and what it accepts and what it refuses is what an evaluation      *)
(* without memory, without probes and without an order would tell.         *)
(***************************************************************************)
EXTENDS InstantiationProofs

-----------------------------------------------------------------------------
(* Where clauses, evaluated without memory.                                 *)

(* The instances that have a where clause. *)
Clausal == {inst \in Seq(STRING) : inst \in Types /\ IsItem(inst[1])}

(* The constraints that can be met or refused. *)
Decidable(constraint) ==
  IsImmediate(constraint) \/
  (constraint.form \in {"decl", "call", "use"} /\ constraint.of \in Clausal)

(* What comes out of a clause is what comes out of the first constraint in *)
(* it that does not hold.                                                  *)
LEMMA FirstStop ==
  ASSUME NEW outcomes, DOMAIN outcomes \subseteq Nat
  PROVE  /\ (\A k \in DOMAIN outcomes : outcomes[k] = "holds")
              => FirstThatStops(outcomes) = "holds"
         /\ \A m \in DOMAIN outcomes :
              /\ outcomes[m] # "holds"
              /\ \A k \in DOMAIN outcomes : k < m => outcomes[k] = "holds"
              => FirstThatStops(outcomes) = outcomes[m]
         /\ (\E k \in DOMAIN outcomes : outcomes[k] # "holds") =>
              \E m \in DOMAIN outcomes :
                /\ outcomes[m] # "holds"
                /\ \A k \in DOMAIN outcomes : k < m => outcomes[k] = "holds"
<1> DEFINE stops == {k \in DOMAIN outcomes : outcomes[k] # "holds"}
           least == CHOOSE k \in stops : \A j \in stops : k <= j
<1>1. FirstThatStops(outcomes) = IF stops = {} THEN "holds" ELSE outcomes[least]
  BY DEF FirstThatStops
<1>2. stops \subseteq Nat
  OBVIOUS
<1>3. stops # {} => least \in stops /\ \A j \in stops : least <= j
  <2> HIDE DEF stops
  <2>1. stops # {} => \E k \in stops : \A j \in stops : k <= j
    BY <1>2, LeastElement
  <2> QED
    BY <2>1
<1> HIDE DEF least
<1>4. ASSUME NEW m \in DOMAIN outcomes, outcomes[m] # "holds",
             \A k \in DOMAIN outcomes : k < m => outcomes[k] = "holds"
      PROVE  FirstThatStops(outcomes) = outcomes[m]
  <2>1. m \in stops
    BY <1>4
  <2>2. least \in stops /\ least <= m
    BY <1>3, <2>1
  <2>3. ~(least < m)
    BY <1>4, <2>2
  <2>4. least \in Nat /\ m \in Nat
    BY <1>2, <2>1, <2>2
  <2>5. least = m
    BY <2>2, <2>3, <2>4
  <2> QED
    BY <1>1, <2>1, <2>5
<1>5. ASSUME \E k \in DOMAIN outcomes : outcomes[k] # "holds"
      PROVE  \E m \in DOMAIN outcomes :
               /\ outcomes[m] # "holds"
               /\ \A k \in DOMAIN outcomes : k < m => outcomes[k] = "holds"
  <2>1. least \in stops /\ \A j \in stops : least <= j
    BY <1>3, <1>5
  <2>2. ASSUME NEW k \in DOMAIN outcomes, k < least PROVE outcomes[k] = "holds"
    <3>1. k \in Nat /\ least \in Nat
      BY <1>2, <2>1
    <3>2. ~(least <= k)
      BY <2>2, <3>1
    <3> QED
      BY <2>1, <3>2
  <2> QED
    BY <2>1, <2>2
<1>6. (\A k \in DOMAIN outcomes : outcomes[k] = "holds") => FirstThatStops(outcomes) = "holds"
  BY <1>1
<1> QED
  BY <1>4, <1>5, <1>6

(* The outcomes of the constraints of a clause. *)
LEMMA ClauseOutcomes ==
  ASSUME NEW clause \in Seq(Clauses), NEW outcomes
  PROVE  /\ (\A k \in DOMAIN clause : OutcomeWith(clause[k], outcomes) = "holds")
              => ClauseOutcome(clause, outcomes) = "holds"
         /\ \A m \in DOMAIN clause :
              /\ OutcomeWith(clause[m], outcomes) # "holds"
              /\ \A k \in DOMAIN clause : k < m => OutcomeWith(clause[k], outcomes) = "holds"
              => ClauseOutcome(clause, outcomes) = OutcomeWith(clause[m], outcomes)
         /\ (\E k \in DOMAIN clause : OutcomeWith(clause[k], outcomes) # "holds") =>
              \E m \in DOMAIN clause :
                /\ OutcomeWith(clause[m], outcomes) # "holds"
                /\ \A k \in DOMAIN clause : k < m => OutcomeWith(clause[k], outcomes) = "holds"
<1> DEFINE each == [k \in DOMAIN clause |-> OutcomeWith(clause[k], outcomes)]
<1>1. /\ DOMAIN each = DOMAIN clause
      /\ \A k \in DOMAIN clause : each[k] = OutcomeWith(clause[k], outcomes)
  OBVIOUS
<1>2. ClauseOutcome(clause, outcomes) = FirstThatStops(each)
  BY DEF ClauseOutcome
<1>3. DOMAIN clause \subseteq Nat
  OBVIOUS
<1> HIDE DEF each
<1>4. /\ (\A k \in DOMAIN each : each[k] = "holds") => FirstThatStops(each) = "holds"
      /\ \A m \in DOMAIN each :
           /\ each[m] # "holds"
           /\ \A k \in DOMAIN each : k < m => each[k] = "holds"
           => FirstThatStops(each) = each[m]
      /\ (\E k \in DOMAIN each : each[k] # "holds") =>
           \E m \in DOMAIN each :
             /\ each[m] # "holds"
             /\ \A k \in DOMAIN each : k < m => each[k] = "holds"
  BY <1>1, <1>3, FirstStop
<1> QED
  BY <1>1, <1>2, <1>4

(* How where clauses come out when none may be evaluated, and when those    *)
(* nested in them come out as given.                                        *)
TooDeepAll == [inst \in Seq(STRING) |-> "too deep"]
Nested(outcomes) == [inst \in Seq(STRING) |-> ClauseOutcome(WhereClause(inst), outcomes)]

(* h is how where clauses come out within each number of nested ones up to n. *)
Nests(n, h) ==
  h = [steps \in 0..n |-> IF steps = 0 THEN TooDeepAll ELSE Nested(h[steps - 1])]

(* Outcomes are found one level of nesting at a time. *)
LEMMA NestingSteps ==
  ASSUME NEW n \in Nat, NEW h
  PROVE  Nests(n, h) <=>
           /\ h = [steps \in 0..n |-> h[steps]]
           /\ h[0] = TooDeepAll
           /\ \A k \in Nat : k + 1 <= n => h[k + 1] = Nested(h[k])
<1>1. ASSUME Nests(n, h)
      PROVE  /\ h = [steps \in 0..n |-> h[steps]]
             /\ h[0] = TooDeepAll
             /\ \A k \in Nat : k + 1 <= n => h[k + 1] = Nested(h[k])
  <2>1. /\ DOMAIN h = 0..n /\ h = [steps \in 0..n |-> h[steps]]
        /\ \A steps \in 0..n : h[steps] = IF steps = 0 THEN TooDeepAll ELSE Nested(h[steps - 1])
    BY <1>1 DEF Nests
  <2>2. 0 \in 0..n /\ \A k \in Nat : k + 1 <= n => k + 1 \in 0..n /\ k + 1 # 0 /\ (k + 1) - 1 = k
    OBVIOUS
  <2>3. h[0] = TooDeepAll
    BY <2>1, <2>2
  <2>4. ASSUME NEW k \in Nat, k + 1 <= n PROVE h[k + 1] = Nested(h[k])
    BY <2>1, <2>2, <2>4
  <2> QED
    BY <2>1, <2>3, <2>4
<1>2. ASSUME h = [steps \in 0..n |-> h[steps]], h[0] = TooDeepAll,
             \A k \in Nat : k + 1 <= n => h[k + 1] = Nested(h[k])
      PROVE  Nests(n, h)
  <2>1. \A steps \in 0..n :
        steps # 0 => steps - 1 \in Nat /\ (steps - 1) + 1 = steps /\ (steps - 1) + 1 <= n
    OBVIOUS
  <2>2. ASSUME NEW steps \in 0..n
        PROVE  h[steps] = IF steps = 0 THEN TooDeepAll ELSE Nested(h[steps - 1])
    <3>1. CASE steps = 0
      BY <1>2, <3>1
    <3>2. CASE steps # 0
      <4>1. h[(steps - 1) + 1] = Nested(h[steps - 1])
        BY <1>2, <2>1, <3>2
      <4> QED
        BY <2>1, <3>2, <4>1
    <3> QED
      BY <3>1, <3>2
  <2> QED
    BY <1>2, <2>2 DEF Nests
<1> QED
  BY <1>1, <1>2

(* There are outcomes for every number of nested clauses. *)
LEMMA NestingExists == \A n \in Nat : \E h : Nests(n, h)
<1> DEFINE S == {n \in Nat : \E h : Nests(n, h)}
<1>1. 0 \in S
  <2> DEFINE h == [steps \in 0..0 |-> TooDeepAll]
  <2>1. h = [steps \in 0..0 |-> h[steps]] /\ h[0] = TooDeepAll
        /\ \A k \in Nat : ~(k + 1 <= 0)
    OBVIOUS
  <2> HIDE DEF h
  <2>2. Nests(0, h)
    BY <2>1, NestingSteps
  <2> QED
    BY <2>2
<1>2. ASSUME NEW n \in Nat, n \in S PROVE n + 1 \in S
  <2>1. PICK h : Nests(n, h)
    BY <1>2
  <2>2. h[0] = TooDeepAll /\ \A k \in Nat : k + 1 <= n => h[k + 1] = Nested(h[k])
    BY <2>1, NestingSteps
  <2> DEFINE g == [steps \in 0..n + 1 |-> IF steps = n + 1 THEN Nested(h[n]) ELSE h[steps]]
  <2>3. g = [steps \in 0..n + 1 |-> g[steps]] /\ \A k \in 0..n : g[k] = h[k]
    OBVIOUS
  <2>4. g[n + 1] = Nested(h[n]) /\ g[0] = h[0]
    OBVIOUS
  <2> HIDE DEF g
  <2>5. ASSUME NEW k \in Nat, k + 1 <= n + 1 PROVE g[k + 1] = Nested(g[k])
    <3>1. k \in 0..n
      BY <2>5
    <3>2. CASE k = n
      BY <2>3, <2>4, <3>1, <3>2
    <3>3. CASE k # n
      <4>1. k + 1 <= n /\ k + 1 \in 0..n
        BY <3>1, <3>3
      <4>2. h[k + 1] = Nested(h[k])
        BY <2>2, <4>1
      <4> QED
        BY <2>3, <3>1, <4>1, <4>2
    <3> QED
      BY <3>2, <3>3
  <2>6. n + 1 \in Nat
    OBVIOUS
  <2>7. Nests(n + 1, g)
    BY <2>2, <2>3, <2>4, <2>5, <2>6, NestingSteps
  <2> QED
    BY <2>6, <2>7
<1> HIDE DEF S
<1>3. Nat \subseteq S
  BY <1>1, <1>2, NatSetInduction
<1> QED
  BY <1>3 DEF S

(* Outcomes agree as far as both are found. *)
LEMMA NestingAgrees ==
  ASSUME NEW n \in Nat, NEW m \in Nat, NEW g, NEW h, Nests(n, g), Nests(m, h)
  PROVE  \A k \in Nat : k <= n /\ k <= m => g[k] = h[k]
<1> DEFINE S == {k \in Nat : k <= n /\ k <= m => g[k] = h[k]}
<1>1. /\ g[0] = TooDeepAll /\ \A k \in Nat : k + 1 <= n => g[k + 1] = Nested(g[k])
      /\ h[0] = TooDeepAll /\ \A k \in Nat : k + 1 <= m => h[k + 1] = Nested(h[k])
  BY NestingSteps
<1>2. 0 \in S
  BY <1>1
<1>3. ASSUME NEW k \in Nat, k \in S PROVE k + 1 \in S
  <2> SUFFICES ASSUME k + 1 <= n, k + 1 <= m PROVE g[k + 1] = h[k + 1]
    OBVIOUS
  <2>1. g[k] = h[k]
    BY <1>3
  <2> QED
    BY <1>1, <2>1
<1> HIDE DEF S
<1>4. Nat \subseteq S
  BY <1>2, <1>3, NatSetInduction
<1> QED
  BY <1>4 DEF S

(* Outcome is the function it is defined to be. *)
LEMMA OutcomeSteps ==
  /\ Outcome[0] = TooDeepAll
  /\ \A n \in Nat : Outcome[n + 1] = Nested(Outcome[n])
<1> DEFINE Defines(f) == f = [steps \in Nat |->
                                IF steps = 0 THEN TooDeepAll ELSE Nested(f[steps - 1])]
           count == [n \in Nat |-> CHOOSE h : Nests(n, h)]
           g == [n \in Nat |-> count[n][n]]
<1>1. \A n \in Nat : Nests(n, count[n])
  BY NestingExists
<1> HIDE DEF count
<1>2. \A n \in Nat : g[n] = count[n][n]
  OBVIOUS
<1>3. g = [n \in Nat |-> g[n]]
  OBVIOUS
<1> HIDE DEF g
<1>4. g[0] = TooDeepAll
  BY <1>1, <1>2, NestingSteps
<1>5. ASSUME NEW n \in Nat PROVE g[n + 1] = Nested(g[n])
  <2>1. n + 1 \in Nat /\ n <= n + 1 /\ n <= n /\ n + 1 <= n + 1
    OBVIOUS
  <2>2. Nests(n, count[n]) /\ Nests(n + 1, count[n + 1])
    BY <1>1, <2>1
  <2>3. count[n + 1][n + 1] = Nested(count[n + 1][n])
    BY <2>1, <2>2, NestingSteps
  <2>4. count[n + 1][n] = count[n][n]
    BY <2>1, <2>2, NestingAgrees
  <2> QED
    BY <1>2, <2>1, <2>3, <2>4
<1>6. ASSUME NEW steps \in Nat
      PROVE  g[steps] = IF steps = 0 THEN TooDeepAll ELSE Nested(g[steps - 1])
  <2>1. CASE steps = 0
    BY <1>4, <2>1
  <2>2. CASE steps # 0
    <3>1. steps - 1 \in Nat /\ (steps - 1) + 1 = steps
      BY <2>2
    <3>2. g[(steps - 1) + 1] = Nested(g[steps - 1])
      BY <1>5, <3>1
    <3> QED
      BY <2>2, <3>1, <3>2
  <2> QED
    BY <2>1, <2>2
<1>7. Defines(g)
  BY <1>3, <1>6
<1>8. Outcome = CHOOSE f : Defines(f)
  BY DEF Outcome, TooDeepAll, Nested
<1>9. Defines(Outcome)
  BY <1>7, <1>8
<1>10. \A steps \in Nat :
         Outcome[steps] = IF steps = 0 THEN TooDeepAll ELSE Nested(Outcome[steps - 1])
  BY <1>9
<1> HIDE DEF Defines
<1>11. ASSUME NEW n \in Nat PROVE Outcome[n + 1] = Nested(Outcome[n])
  <2>1. n + 1 \in Nat /\ n + 1 # 0 /\ (n + 1) - 1 = n
    OBVIOUS
  <2> QED
    BY <1>10, <2>1
<1> QED
  BY <1>10, <1>11

(* One level of nesting after the other. *)
LEMMA OutcomeNested ==
  ASSUME NEW inst \in Seq(STRING)
  PROVE  /\ Outcome[0][inst] = "too deep"
         /\ \A n \in Nat : Outcome[n + 1][inst] = ClauseOutcome(WhereClause(inst), Outcome[n])
BY OutcomeSteps DEF TooDeepAll, Nested

(* A where clause leads to instances that have one. *)
LEMMA ClauseDecidable ==
  ASSUME program \in Programs, NEW inst \in Clausal
  PROVE  /\ WhereClause(inst) \in Seq(Clauses)
         /\ \A k \in DOMAIN WhereClause(inst) : Decidable(WhereClause(inst)[k])
<1>1. inst \in Types /\ IsItem(inst[1]) /\ inst \in Seq(STRING) /\ inst # <<>>
  BY DEF Clausal, Types
<1>2. /\ WhereClause(inst) \in Seq(Clauses)
      /\ \A k \in DOMAIN WhereClause(inst) : WhereClause(inst)[k].form # "unchecked"
  BY <1>1, WhereClauseType
<1> DEFINE where == Item(inst[1]).where
<1>3. where \in Seq(Written)
  BY <1>1, ClauseFacts DEF IsItem
<1>4. WhereClause(inst) =
        [k \in DOMAIN where |-> [where[k] EXCEPT !.of = apply_substitution(@, Tail(inst))]]
  BY DEF WhereClause
<1> HIDE DEF where
<1>5. Tail(inst) \in Seq(STRING)
  BY <1>1
<1>6. ASSUME NEW k \in DOMAIN WhereClause(inst) PROVE Decidable(WhereClause(inst)[k])
  <2>1. k \in DOMAIN where /\ where[k] \in Written
    BY <1>3, <1>4, <1>6
  <2>2. where[k].of \in Seq(STRING)
    BY <2>1 DEF Written
  <2>3. apply_substitution(where[k].of, Tail(inst)) \in Seq(STRING)
    BY <1>5, <2>2, SubstitutionSeq
  <2>4. WhereClause(inst)[k].of = apply_substitution(where[k].of, Tail(inst))
    BY <1>4, <2>1 DEF Written
  <2>5. WhereClause(inst)[k] \in Clauses /\ WhereClause(inst)[k].form # "unchecked"
    BY <1>2, <1>6
  <2>6. ASSUME ~IsImmediate(WhereClause(inst)[k])
        PROVE  WhereClause(inst)[k].form \in {"decl", "call", "use"}
    BY <2>5, <2>6 DEF IsImmediate, Clauses, ConstraintForms
  <2> QED
    BY <2>3, <2>4, <2>5, <2>6 DEF Decidable, Clauses, Clausal
<1> QED
  BY <1>2, <1>6

(* What is known of the instances that were decided stays known. *)
LEMMA OutcomeKept ==
  ASSUME NEW constraint, Decidable(constraint), NEW fewer, NEW more,
         \A inst \in Clausal : fewer[inst] # "too deep" => more[inst] = fewer[inst],
         OutcomeWith(constraint, fewer) # "too deep"
  PROVE  OutcomeWith(constraint, more) = OutcomeWith(constraint, fewer)
<1>1. CASE IsImmediate(constraint)
  BY <1>1 DEF OutcomeWith
<1>2. CASE ~IsImmediate(constraint)
  <2>1. constraint.of \in Clausal
    BY <1>2 DEF Decidable
  <2>2. fewer[constraint.of] # "too deep"
    BY <1>2 DEF OutcomeWith, JudgeOutcome
  <2> QED
    BY <1>2, <2>1, <2>2 DEF OutcomeWith
<1> QED
  BY <1>1, <1>2

(* One more nested clause changes nothing that was decided with fewer. *)
LEMMA OutcomeNext ==
  ASSUME program \in Programs
  PROVE  \A n \in Nat : \A inst \in Clausal :
           Outcome[n][inst] # "too deep" => Outcome[n + 1][inst] = Outcome[n][inst]
<1> DEFINE Stays(n) == \A inst \in Clausal :
                         Outcome[n][inst] # "too deep" => Outcome[n + 1][inst] = Outcome[n][inst]
           S == {n \in Nat : Stays(n)}
<1>1. \A inst \in Clausal : inst \in Seq(STRING)
  BY DEF Clausal
<1>2. 0 \in S
  BY <1>1, OutcomeNested
<1>3. ASSUME NEW n \in Nat, n \in S PROVE n + 1 \in S
  <2> SUFFICES Stays(n + 1)
    <3> HIDE DEF Stays
    <3> QED
      OBVIOUS
  <2>0. SUFFICES ASSUME NEW inst \in Clausal, Outcome[n + 1][inst] # "too deep"
                 PROVE  Outcome[n + 1 + 1][inst] = Outcome[n + 1][inst]
    OBVIOUS
  <2> DEFINE clause == WhereClause(inst)
             fewer == Outcome[n]
             more == Outcome[n + 1]
  <2>1. n + 1 \in Nat
    OBVIOUS
  <2>2. /\ Outcome[n + 1][inst] = ClauseOutcome(clause, fewer)
        /\ Outcome[n + 1 + 1][inst] = ClauseOutcome(clause, more)
    BY <1>1, <2>1, OutcomeNested
  <2>3. clause \in Seq(Clauses) /\ \A k \in DOMAIN clause : Decidable(clause[k])
    BY ClauseDecidable
  <2>4. \A i \in Clausal : fewer[i] # "too deep" => more[i] = fewer[i]
    BY <1>3
  <2> HIDE DEF clause, fewer, more
  <2>5. \A k \in DOMAIN clause :
          OutcomeWith(clause[k], fewer) # "too deep" =>
            OutcomeWith(clause[k], more) = OutcomeWith(clause[k], fewer)
    BY <2>3, <2>4, OutcomeKept
  <2>6. CASE \A k \in DOMAIN clause : OutcomeWith(clause[k], fewer) = "holds"
    <3>1. \A k \in DOMAIN clause : OutcomeWith(clause[k], more) = "holds"
      BY <2>5, <2>6
    <3> QED
      BY <2>2, <2>3, <2>6, <3>1, ClauseOutcomes
  <2>7. CASE \E k \in DOMAIN clause : OutcomeWith(clause[k], fewer) # "holds"
    <3>1. PICK m \in DOMAIN clause :
            /\ OutcomeWith(clause[m], fewer) # "holds"
            /\ \A k \in DOMAIN clause : k < m => OutcomeWith(clause[k], fewer) = "holds"
      BY <2>3, <2>7, ClauseOutcomes
    <3>2. ClauseOutcome(clause, fewer) = OutcomeWith(clause[m], fewer)
      BY <2>3, <3>1, ClauseOutcomes
    <3>3. OutcomeWith(clause[m], fewer) # "too deep"
      BY <2>0, <2>2, <3>2 DEF more
    <3>4. OutcomeWith(clause[m], more) = OutcomeWith(clause[m], fewer)
      BY <2>5, <3>3
    <3>5. \A k \in DOMAIN clause : k < m => OutcomeWith(clause[k], more) = "holds"
      BY <2>5, <3>1
    <3>6. ClauseOutcome(clause, more) = OutcomeWith(clause[m], more)
      BY <2>3, <3>1, <3>4, <3>5, ClauseOutcomes
    <3> QED
      BY <2>2, <3>2, <3>4, <3>6
  <2> QED
    BY <2>6, <2>7
<1> HIDE DEF S
<1>4. Nat \subseteq S
  BY <1>2, <1>3, NatSetInduction
<1> QED
  BY <1>4 DEF S

(* With up to n where clauses nested, the constraint comes out as told. *)
ComesOut(constraint, n, verdict) == OutcomeWith(constraint, Outcome[n]) = verdict

(* An outcome stays the outcome, however many more clauses may be nested. *)
LEMMA OutcomeStays ==
  ASSUME program \in Programs, NEW constraint, Decidable(constraint), NEW verdict,
         NEW n \in Nat
  PROVE  verdict # "too deep" /\ ComesOut(constraint, n, verdict) =>
           \A m \in Nat : ComesOut(constraint, n + m, verdict)
<1>0. SUFFICES ASSUME verdict # "too deep", ComesOut(constraint, n, verdict)
               PROVE  \A m \in Nat : ComesOut(constraint, n + m, verdict)
  OBVIOUS
<1> DEFINE S == {m \in Nat : ComesOut(constraint, n + m, verdict)}
<1>1. 0 \in S
  <2>1. ComesOut(constraint, n, verdict)
    BY <1>0
  <2>2. n + 0 = n
    OBVIOUS
  <2> QED
    BY <2>1, <2>2
<1>2. ASSUME NEW m \in Nat, m \in S PROVE m + 1 \in S
  <2>1. n + m \in Nat /\ n + (m + 1) = (n + m) + 1 /\ m + 1 \in Nat
    OBVIOUS
  <2>2. \A inst \in Clausal : Outcome[n + m][inst] # "too deep" =>
          Outcome[(n + m) + 1][inst] = Outcome[n + m][inst]
    BY <2>1, OutcomeNext
  <2>3. OutcomeWith(constraint, Outcome[n + m]) = verdict
    BY <1>2 DEF ComesOut
  <2>4. OutcomeWith(constraint, Outcome[(n + m) + 1]) = verdict
    BY <1>0, <2>2, <2>3, OutcomeKept
  <2>5. ComesOut(constraint, n + (m + 1), verdict)
    BY <2>1, <2>4 DEF ComesOut
  <2> QED
    BY <2>1, <2>5
<1> HIDE DEF S
<1>3. Nat \subseteq S
  BY <1>1, <1>2, NatSetInduction
<1> QED
  BY <1>3 DEF S

(* The same, for any two numbers of nested clauses. *)
LEMMA OutcomeGrows ==
  ASSUME program \in Programs, NEW constraint, Decidable(constraint), NEW verdict,
         NEW n \in Nat, NEW m \in Nat, n <= m
  PROVE  verdict # "too deep" /\ ComesOut(constraint, n, verdict)
           => ComesOut(constraint, m, verdict)
<1>1. m - n \in Nat /\ n + (m - n) = m
  OBVIOUS
<1>2. verdict # "too deep" /\ ComesOut(constraint, n, verdict)
        => ComesOut(constraint, n + (m - n), verdict)
  BY <1>1, OutcomeStays
<1> QED
  BY <1>1, <1>2

(* What holds with some number of nested clauses does not fail with another. *)
LEMMA NeverFails ==
  ASSUME program \in Programs, NEW constraint, Decidable(constraint),
         NEW n \in Nat, NEW m \in Nat, ComesOut(constraint, n, "holds")
  PROVE  ComesOut(constraint, m, "holds") \/ ComesOut(constraint, m, "too deep")
<1>1. CASE n <= m
  BY <1>1, OutcomeGrows
<1>2. CASE m <= n
  <2> DEFINE verdict == OutcomeWith(constraint, Outcome[m])
  <2>1. ComesOut(constraint, m, verdict)
    BY DEF ComesOut
  <2> HIDE DEF verdict
  <2>2. CASE verdict = "too deep"
    BY <2>1, <2>2
  <2>3. CASE verdict # "too deep"
    <3>1. ComesOut(constraint, n, verdict)
      BY <1>2, <2>1, <2>3, OutcomeGrows
    <3>2. verdict = "holds"
      BY <3>1 DEF ComesOut
    <3> QED
      BY <2>1, <3>2
  <2> QED
    BY <2>2, <2>3
<1>3. n <= m \/ m <= n
  OBVIOUS
<1> QED
  BY <1>1, <1>2, <1>3

(* The declarations stay as they are, and with them how where clauses come  *)
(* out.                                                                     *)
LEMMA OutcomeStatic ==
  ASSUME program' = program
  PROVE  /\ \A inst : WhereClause(inst)' = WhereClause(inst)
         /\ \A name : ItemChecks(name)' = ItemChecks(name)
         /\ \A constraint : IsImmediate(constraint)' = IsImmediate(constraint)
         /\ \A constraint, outcomes :
              OutcomeWith(constraint, outcomes)' = OutcomeWith(constraint, outcomes)
         /\ \A n \in Nat : Outcome'[n] = Outcome[n]
<1>1. /\ \A inst : WhereClause(inst)' = WhereClause(inst)
      /\ \A name : ItemChecks(name)' = ItemChecks(name)
  BY DEF WhereClause, ItemChecks, Item
<1>2. \A constraint : IsImmediate(constraint)' = IsImmediate(constraint)
  BY DEF IsImmediate, IsRuntimeOnly, Item
<1>3. ASSUME NEW constraint, NEW outcomes
      PROVE  OutcomeWith(constraint, outcomes)' = OutcomeWith(constraint, outcomes)
  <2>1. Immediate(constraint)' = Immediate(constraint)
    BY DEF Immediate, Holds
  <2>2. ASSUME NEW met PROVE Judge(constraint, met)' = Judge(constraint, met)
    BY DEF Judge, Holds, Item
  <2>3. ASSUME NEW outcome
        PROVE  JudgeOutcome(constraint, outcome)' = JudgeOutcome(constraint, outcome)
    BY <2>2 DEF JudgeOutcome
  <2> QED
    BY <1>2, <2>1, <2>3 DEF OutcomeWith
<1>4. ASSUME NEW clause, NEW outcomes
      PROVE  ClauseOutcome(clause, outcomes)' = ClauseOutcome(clause, outcomes)
  BY <1>3 DEF ClauseOutcome
<1>5. Outcome'[0] = TooDeepAll' /\ \A n \in Nat : Outcome'[n + 1] = Nested(Outcome[n])'
  <2>1. (/\ Outcome[0] = TooDeepAll
         /\ \A n \in Nat : Outcome[n + 1] = Nested(Outcome[n]))'
    BY OutcomeSteps, PTL
  <2> QED
    BY <2>1
<1>6. \A n \in Nat : Nested(Outcome[n])' =
        [inst \in Seq(STRING) |-> ClauseOutcome(WhereClause(inst), Outcome'[n])]
  BY <1>1, <1>4 DEF Nested
<1>7. TooDeepAll' = TooDeepAll
  BY DEF TooDeepAll
<1> DEFINE S == {n \in Nat : Outcome'[n] = Outcome[n]}
<1>8. 0 \in S
  BY <1>5, <1>7, OutcomeSteps
<1>9. ASSUME NEW n \in Nat, n \in S PROVE n + 1 \in S
  <2> DEFINE W(o) == [inst \in Seq(STRING) |-> ClauseOutcome(WhereClause(inst), o)]
  <2>1. Outcome'[n] = Outcome[n]
    BY <1>9
  <2>2. Outcome'[n + 1] = W(Outcome'[n])
    BY <1>5, <1>6
  <2>3. Outcome[n + 1] = W(Outcome[n])
    BY OutcomeSteps DEF Nested
  <2> HIDE DEF W
  <2>4. Outcome'[n + 1] = Outcome[n + 1]
    BY <2>1, <2>2, <2>3
  <2> QED
    BY <2>4
<1> HIDE DEF S
<1>10. Nat \subseteq S
  BY <1>8, <1>9, NatSetInduction
<1> QED
  BY <1>1, <1>2, <1>3, <1>10 DEF S

-----------------------------------------------------------------------------
(* Within a check, no two instances have one key.                           *)

(* The chains without one of the primitives that a key confuses. *)
Primitives == {"num", "runtime num"}
Without(primitive) == Seq(STRING \ {primitive})

(* The where clauses of the program never mention it. *)
NoClauseHas(primitive) ==
  \A name \in DOMAIN program.decl :
    \A k \in DOMAIN Item(name).where : Item(name).where[k].of \in Without(primitive)

(* A chain in which a name does not occur is a chain of the others. *)
LEMMA WithoutIt ==
  ASSUME NEW primitive, NEW type \in Seq(STRING), primitive \notin Occurs(type)
  PROVE  type \in Without(primitive)
<1>1. type \in [1..Len(type) -> STRING] /\ Len(type) \in Nat /\ DOMAIN type = 1..Len(type)
  OBVIOUS
<1>2. \A i \in 1..Len(type) : type[i] \in STRING \ {primitive}
  BY <1>1 DEF Occurs
<1>3. type \in [1..Len(type) -> STRING \ {primitive}]
  BY <1>1, <1>2
<1> QED
  BY <1>1, <1>3, SeqDef DEF Without

(* Two chains without the same primitive have one key only if they are one. *)
LEMMA OneKey ==
  ASSUME NEW primitive \in Primitives, NEW a \in Without(primitive), NEW b \in Without(primitive),
         Key(a) = Key(b)
  PROVE  a = b
<1>1. /\ a \in Seq(STRING) /\ b \in Seq(STRING)
      /\ \A i \in DOMAIN a : a[i] # primitive
      /\ \A i \in DOMAIN b : b[i] # primitive
  BY SeqMonotonic DEF Without
<1>2. DOMAIN Key(a) = DOMAIN a /\ DOMAIN Key(b) = DOMAIN b
  BY DEF Key
<1>3. DOMAIN a = DOMAIN b
  BY <1>2
<1>4. ASSUME NEW i \in DOMAIN a PROVE a[i] = b[i]
  <2>1. Key(a)[i] = IF a[i] = "runtime num" THEN "num" ELSE a[i]
    BY DEF Key
  <2>2. Key(b)[i] = IF b[i] = "runtime num" THEN "num" ELSE b[i]
    BY <1>3 DEF Key
  <2>3. a[i] # primitive /\ b[i] # primitive
    BY <1>1, <1>3
  <2> QED
    BY <2>1, <2>2, <2>3 DEF Primitives
<1>5. Len(a) = Len(b) /\ DOMAIN a = 1..Len(a)
  BY <1>1, <1>3
<1> QED
  BY <1>1, <1>4, <1>5, SeqEqual

(* A key stands for the chain that has it. *)
LEMMA KeyStandsFor ==
  ASSUME NEW primitive \in Primitives, NEW type \in Without(primitive)
  PROVE  type \in Named(Key(type))
<1> DEFINE key == Key(type)
           other == [level \in DOMAIN key |->
                       IF key[level] = "num" THEN "runtime num" ELSE key[level]]
<1>1. type \in Seq(STRING) /\ \A i \in DOMAIN type : type[i] # primitive
  BY SeqMonotonic DEF Without
<1>2. /\ DOMAIN key = DOMAIN type
      /\ \A i \in DOMAIN type : key[i] = IF type[i] = "runtime num" THEN "num" ELSE type[i]
  BY DEF Key
<1>3. type = [i \in DOMAIN type |-> type[i]]
  BY <1>1
<1>4. key = [i \in DOMAIN type |-> IF type[i] = "runtime num" THEN "num" ELSE type[i]]
  BY DEF Key
<1>5. Named(key) = {key, other}
  BY DEF Named
<1> HIDE DEF key
<1>6. CASE primitive = "runtime num"
  <2>1. \A i \in DOMAIN type : key[i] = type[i]
    BY <1>1, <1>2, <1>6
  <2>2. key = type
    BY <1>3, <1>4, <1>1, <1>6
  <2> QED
    BY <1>5, <2>2 DEF key
<1>7. CASE primitive = "num"
  <2>1. \A i \in DOMAIN type :
          (IF key[i] = "num" THEN "runtime num" ELSE key[i]) = type[i]
    BY <1>1, <1>2, <1>7
  <2>2. other = type
    BY <1>2, <1>3, <2>1
  <2> QED
    BY <1>5, <2>2 DEF key
<1> QED
  BY <1>6, <1>7 DEF Primitives

(* A where clause leads to no chain with a primitive that neither the       *)
(* instance nor any where clause mentions.                                  *)
LEMMA ClauseWithout ==
  ASSUME program \in Programs, NEW primitive, NoClauseHas(primitive),
         NEW inst \in Clausal, inst \in Without(primitive)
  PROVE  \A k \in DOMAIN WhereClause(inst) : WhereClause(inst)[k].of \in Without(primitive)
<1> DEFINE where == Item(inst[1]).where
<1>1. IsItem(inst[1]) /\ inst # <<>>
  BY DEF Clausal, Types
<1>2. where \in Seq(Written)
  BY <1>1, ClauseFacts DEF IsItem
<1>3. \A k \in DOMAIN where : where[k].of \in Without(primitive)
  BY <1>1 DEF NoClauseHas, IsItem
<1>4. WhereClause(inst) =
        [k \in DOMAIN where |-> [where[k] EXCEPT !.of = apply_substitution(@, Tail(inst))]]
  BY DEF WhereClause
<1> HIDE DEF where
<1>5. Tail(inst) \in Seq(STRING \ {primitive})
  BY <1>1 DEF Without
<1>6. ASSUME NEW k \in DOMAIN where
      PROVE  apply_substitution(where[k].of, Tail(inst)) \in Without(primitive)
  <2>1. where[k].of \in Seq(STRING \ {primitive})
    BY <1>3 DEF Without
  <2> QED
    BY <1>5, <2>1, SubstitutionSeq DEF Without
<1>7. ASSUME NEW k \in DOMAIN where
      PROVE  WhereClause(inst)[k].of = apply_substitution(where[k].of, Tail(inst))
  <2>1. where[k] \in Written
    BY <1>2
  <2> QED
    BY <1>4, <2>1 DEF Written
<1> QED
  BY <1>4, <1>6, <1>7

(* What is checked of an item is written in its where clause, or used in    *)
(* its body.                                                                *)
LEMMA CheckFacts ==
  ASSUME program \in Programs, NEW name \in DOMAIN program.decl,
         NEW k \in DOMAIN ItemChecks(name)
  PROVE  LET check == ItemChecks(name)[k]
         IN  check.form # "unchecked" =>
               /\ Decidable(check)
               /\ \/ \E j \in DOMAIN Item(name).where : check.of = Item(name).where[j].of
                  \/ \E j \in DOMAIN Item(name).uses :
                       /\ Item(name).uses[j].op \in {"call", "init"}
                       /\ check.of = Item(name).uses[j].of
<1> DEFINE where == Item(name).where
           uses == Item(name).uses
           checks == [j \in DOMAIN uses |-> UseConstraint(uses[j])]
           check == ItemChecks(name)[k]
<1>1. /\ where \in Seq(Written)
      /\ \A j \in DOMAIN where :
           where[j].form \in {"decl", "call"} => where[j].of \in Types /\ IsItem(where[j].of[1])
      /\ uses \in Seq([op : UseOps, of : Seq(STRING)])
      /\ \A j \in DOMAIN uses : /\ uses[j].of \in Types
                                /\ uses[j].op \in {"call", "init"} => IsItem(uses[j].of[1])
  BY ClauseFacts
<1>2. ItemChecks(name) = where \o checks
  BY DEF ItemChecks
<1> HIDE DEF where, uses
<1> DEFINE S == {UseConstraint(uses[j]) : j \in DOMAIN uses}
<1>3. checks \in [DOMAIN uses -> S]
  OBVIOUS
<1> HIDE DEF S
<1>4. checks \in Seq(S) /\ Len(checks) = Len(uses) /\ DOMAIN checks = 1..Len(uses)
  BY <1>1, <1>3, MapIsSeq
<1>5. \A j \in DOMAIN uses : checks[j] = UseConstraint(uses[j])
  OBVIOUS
<1>6. Len(where) \in Nat /\ DOMAIN where = 1..Len(where) /\ Len(uses) \in Nat
      /\ DOMAIN uses = 1..Len(uses)
  BY <1>1
<1>6a. where \in Seq(Written \union S) /\ checks \in Seq(Written \union S)
  BY <1>1, <1>4, SeqMonotonic
<1> HIDE DEF checks
<1>7. /\ DOMAIN (where \o checks) = 1..(Len(where) + Len(uses))
      /\ \A i \in 1..(Len(where) + Len(uses)) :
           (where \o checks)[i] = IF i <= Len(where) THEN where[i] ELSE checks[i - Len(where)]
  <2>1. /\ where \o checks \in Seq(Written \union S)
        /\ Len(where \o checks) = Len(where) + Len(checks)
        /\ \A i \in 1..(Len(where) + Len(checks)) :
             (where \o checks)[i] = IF i <= Len(where) THEN where[i] ELSE checks[i - Len(where)]
    BY <1>6a, ConcatProperties
  <2>2. DOMAIN (where \o checks) = 1..Len(where \o checks)
    BY <2>1
  <2> QED
    BY <1>4, <2>1, <2>2
<1>8. CASE k <= Len(where)
  <2>1. k \in DOMAIN where /\ check = where[k]
    BY <1>2, <1>6, <1>7, <1>8
  <2>2. where[k] \in Written
    BY <1>1, <2>1
  <2>3. ASSUME ~IsImmediate(check) PROVE check.form \in {"decl", "call"}
    BY <2>1, <2>2, <2>3 DEF IsImmediate, Written, ConstraintForms
  <2>4. check.of \in Seq(STRING)
    BY <2>1, <2>2 DEF Written
  <2> HIDE DEF check
  <2>5. ~IsImmediate(check) => check.of \in Clausal
    BY <1>1, <2>1, <2>3, <2>4 DEF Clausal
  <2>6. Decidable(check)
    BY <2>3, <2>5 DEF Decidable
  <2> QED
    BY <2>1, <2>6 DEF check, where
<1>9. CASE ~(k <= Len(where))
  <2> DEFINE j == k - Len(where)
  <2>1. j \in DOMAIN uses /\ check = UseConstraint(uses[j])
    <3>1. k \in 1..(Len(where) + Len(uses))
      BY <1>2, <1>7
    <3>2. j \in 1..Len(uses)
      BY <1>6, <1>9, <3>1
    <3> QED
      BY <1>2, <1>5, <1>6, <1>7, <1>9, <3>1, <3>2
  <2> HIDE DEF j, check
  <2>2. check = [form |-> IF uses[j].op \in {"call", "init"} THEN "use" ELSE "unchecked",
                 of |-> uses[j].of, negated |-> FALSE]
    BY <2>1 DEF UseConstraint, Constraint
  <2>3. ASSUME check.form # "unchecked"
        PROVE  /\ uses[j].op \in {"call", "init"} /\ check.of = uses[j].of
               /\ check.form = "use"
    BY <2>2, <2>3
  <2>4. uses[j].of \in Seq(STRING)
    <3>1. j \in DOMAIN uses
      BY <2>1
    <3>2. uses \in Seq([op : UseOps, of : Seq(STRING)])
      BY <1>1
    <3>3. uses[j] \in [op : UseOps, of : Seq(STRING)]
      BY <1>6, <3>1, <3>2, ElementOfSeq
    <3> QED
      BY <3>3
  <2>5. check.form # "unchecked" => check.of \in Clausal
    BY <1>1, <2>1, <2>3, <2>4 DEF Clausal
  <2>6. check.form # "unchecked" => Decidable(check)
    BY <2>3, <2>5 DEF Decidable
  <2> QED
    BY <2>1, <2>3, <2>6 DEF check, uses
<1> QED
  BY <1>8, <1>9

(* Each check of an item does without one of the primitives, and so do the  *)
(* where clauses.                                                           *)
LEMMA CheckWithout ==
  ASSUME program \in Programs, Unmixed(program), NEW name \in DOMAIN program.decl,
         NEW k \in DOMAIN ItemChecks(name), ItemChecks(name)[k].form # "unchecked",
         ItemChecks(name)[k].of \in Seq(STRING)
  PROVE  \E primitive \in Primitives :
           NoClauseHas(primitive) /\ ItemChecks(name)[k].of \in Without(primitive)
<1> DEFINE Clause == UNION {{constraint.of : constraint \in Occurs(program.decl[n].where)}
                              : n \in DOMAIN program.decl}
           Used == UNION {{use.of : use \in {u \in Occurs(program.decl[n].uses) :
                                             u.op \in {"call", "init"}}}
                            : n \in DOMAIN program.decl}
           check == ItemChecks(name)[k]
<1>1. \A c \in Clause \union Used : \E primitive \in Primitives :
        \A type \in {c} \union Clause : primitive \notin Occurs(type)
  BY DEF Unmixed, Primitives
<1>2. \A n \in DOMAIN program.decl : \A j \in DOMAIN Item(n).where :
        Item(n).where[j].of \in Clause
  BY DEF Item, Occurs
<1>3. \A j \in DOMAIN Item(name).uses :
        Item(name).uses[j].op \in {"call", "init"} => Item(name).uses[j].of \in Used
  BY DEF Item, Occurs
<1> HIDE DEF Clause, Used
<1>4. check.of \in Clause \union Used
  BY <1>2, <1>3, CheckFacts
<1>5. PICK primitive \in Primitives :
        \A type \in {check.of} \union Clause : primitive \notin Occurs(type)
  BY <1>1, <1>4
<1>6. check.of \in Without(primitive)
  BY <1>5, WithoutIt
<1>7. NoClauseHas(primitive)
  <2> SUFFICES ASSUME NEW n \in DOMAIN program.decl, NEW j \in DOMAIN Item(n).where
               PROVE  Item(n).where[j].of \in Without(primitive)
    BY DEF NoClauseHas
  <2>1. Item(n).where[j] \in Written
    BY ClauseFacts
  <2>2. Item(n).where[j].of \in Seq(STRING)
    BY <2>1 DEF Written
  <2>3. primitive \notin Occurs(Item(n).where[j].of)
    BY <1>2, <1>5
  <2> QED
    BY <2>2, <2>3, WithoutIt
<1> QED
  BY <1>6, <1>7

-----------------------------------------------------------------------------
(* What has been found out so far.                                          *)

Settled(constraint, verdict) == \E n \in Nat : ComesOut(constraint, n, verdict)

Passes(check) == Skipped(check) \/ Settled(check, "holds")
AllPass(name) == \A k \in DOMAIN ItemChecks(name) : Passes(ItemChecks(name)[k])

(* The constraints before the one that evaluation has come to hold. *)
Behind(frame, n) ==
  \A k \in DOMAIN frame.clause : k < frame.at => ComesOut(frame.clause[k], n, "holds")

Asked(frames, i) == frames[i].clause[frames[i].at]

(* A frame above the first evaluates the where clause of what the frame     *)
(* below asks for.                                                          *)
IsNested(frames, i) ==
  /\ frames[i].inst \in Clausal
  /\ frames[i].clause = WhereClause(frames[i].inst)
  /\ frames[i].inst = Asked(frames, i - 1).of
  /\ ~IsImmediate(Asked(frames, i - 1))
  /\ \E n \in Nat : Behind(frames[i], n)

(* The first frame makes the checks of an item. *)
ChecksOf(name, frames) ==
  /\ frames[1].clause = ItemChecks(name)
  /\ \A k \in DOMAIN ItemChecks(name) : k < frames[1].at => Passes(ItemChecks(name)[k])
  /\ Len(frames) > 1 => ~Skipped(Asked(frames, 1))

Nesting(frames) == \A i \in 2..Len(frames) : IsNested(frames, i)

(* The where clause of the instance is met. *)
Meets(inst) == \E n \in Nat : Outcome[n][inst] = "holds"

(* Under evaluation and remembered are instances without that primitive,    *)
(* and what is remembered is satisfied.                                     *)
Apart(primitive, frames, keys) ==
  /\ NoClauseHas(primitive)
  /\ \A i \in 2..Len(frames) : frames[i].inst \in Without(primitive)
  /\ \A key \in keys : \E inst \in Clausal :
       /\ inst \in Without(primitive) /\ Key(inst) = key
       /\ Meets(inst)

(* Nothing is remembered between the checks, and within a check nothing     *)
(* that is not so.                                                          *)
Remembers(frames, keys, reply) ==
  /\ Len(frames) = 1 /\ reply = "none" => keys = {}
  /\ Len(frames) > 1 \/ keys # {} => \E primitive \in Primitives : Apart(primitive, frames, keys)

(* The answer is that of the constraint that evaluation has come to. *)
Replies(frames, reply) ==
  reply # "none" =>
    /\ frames[Len(frames)].at \in DOMAIN frames[Len(frames)].clause
    /\ Len(frames) = 1 => ~Skipped(Asked(frames, 1))
    /\ Settled(Asked(frames, Len(frames)), reply)

(* What the program is accepted or refused for. *)
Decided ==
  /\ phase \in {"lowering", "done"} => \A name \in DOMAIN program.decl : AllPass(name)
  /\ reason = "constraint" =>
       \E name \in DOMAIN program.decl : \E k \in DOMAIN ItemChecks(name) :
         ~Skipped(ItemChecks(name)[k]) /\ Settled(ItemChecks(name)[k], "fails")
  /\ reason = "constraint limit" =>
       \E name \in DOMAIN program.decl : \E k \in DOMAIN ItemChecks(name) :
         /\ ~Skipped(ItemChecks(name)[k])
         /\ ComesOut(ItemChecks(name)[k], kMaxGenericInstantiationDepth, "too deep")

VerdictInv ==
  /\ ConInv
  /\ ChecksOf(program.order[checking], evaluating)
  /\ Nesting(evaluating)
  /\ Remembers(evaluating, satisfied, answer)
  /\ Replies(evaluating, answer)
  /\ \A place \in 1..(checking - 1) : AllPass(program.order[place])
  /\ Decided

(* All of this is about the declarations, which stay as they are. *)
LEMMA VerdictStatic ==
  ASSUME program' = program
  PROVE  /\ \A constraint : \A n \in Nat : \A verdict :
              ComesOut(constraint, n, verdict)' = ComesOut(constraint, n, verdict)
         /\ \A constraint, verdict : Settled(constraint, verdict)' = Settled(constraint, verdict)
         /\ \A name : AllPass(name)' = AllPass(name)
         /\ \A name, frames : ChecksOf(name, frames)' = ChecksOf(name, frames)
         /\ \A frames : Nesting(frames)' = Nesting(frames)
         /\ \A frames, keys, reply :
              Remembers(frames, keys, reply)' = Remembers(frames, keys, reply)
         /\ \A frames, reply : Replies(frames, reply)' = Replies(frames, reply)
<1>1. /\ \A inst : WhereClause(inst)' = WhereClause(inst)
      /\ \A name : ItemChecks(name)' = ItemChecks(name)
      /\ \A constraint : IsImmediate(constraint)' = IsImmediate(constraint)
      /\ \A constraint, outcomes :
           OutcomeWith(constraint, outcomes)' = OutcomeWith(constraint, outcomes)
      /\ \A n \in Nat : Outcome'[n] = Outcome[n]
  BY OutcomeStatic
<1>2. ASSUME NEW constraint, NEW n \in Nat, NEW verdict
      PROVE  ComesOut(constraint, n, verdict)' = ComesOut(constraint, n, verdict)
  <2>1. Outcome'[n] = Outcome[n]
    BY <1>1
  <2>2. ComesOut(constraint, n, verdict)' = (OutcomeWith(constraint, Outcome[n])' = verdict)
    BY DEF ComesOut
  <2>3. OutcomeWith(constraint, Outcome[n])' = OutcomeWith(constraint, Outcome'[n])
    BY <1>1
  <2> QED
    BY <2>1, <2>2, <2>3 DEF ComesOut
<1>3. ASSUME NEW constraint, NEW verdict
      PROVE  Settled(constraint, verdict)' = Settled(constraint, verdict)
  BY <1>2 DEF Settled
<1>4. \A check : Passes(check)' = Passes(check)
  BY <1>3 DEF Passes, Skipped, DependsOnParameter
<1>5. ASSUME NEW name PROVE AllPass(name)' = AllPass(name)
  BY <1>1, <1>4 DEF AllPass
<1>6. ASSUME NEW name, NEW frames PROVE ChecksOf(name, frames)' = ChecksOf(name, frames)
  BY <1>1, <1>4 DEF ChecksOf, Asked, Skipped, DependsOnParameter
<1>7. Clausal' = Clausal
  <2>1. \A name : IsItem(name)' = IsItem(name)
    BY DEF IsItem
  <2>2. Types' = Types
    BY Static
  <2> QED
    BY <2>1, <2>2 DEF Clausal
<1>8. ASSUME NEW frame, NEW n \in Nat PROVE Behind(frame, n)' = Behind(frame, n)
  BY <1>2 DEF Behind
<1>9. ASSUME NEW frames, NEW i PROVE IsNested(frames, i)' = IsNested(frames, i)
  BY <1>1, <1>7, <1>8 DEF IsNested, Asked
<1>10. ASSUME NEW frames PROVE Nesting(frames)' = Nesting(frames)
  BY <1>9 DEF Nesting
<1>11. ASSUME NEW primitive, NEW frames, NEW keys
       PROVE  Apart(primitive, frames, keys)' = Apart(primitive, frames, keys)
  <2>1. NoClauseHas(primitive)' = NoClauseHas(primitive)
    BY DEF NoClauseHas, Item, Without
  <2>2. ASSUME NEW inst PROVE Meets(inst)' = Meets(inst)
    BY <1>1 DEF Meets
  <2> QED
    BY <1>7, <2>1, <2>2 DEF Apart, Without, Key
<1>12. ASSUME NEW frames, NEW keys, NEW reply
       PROVE  Remembers(frames, keys, reply)' = Remembers(frames, keys, reply)
  BY <1>11 DEF Remembers, Primitives
<1>13. ASSUME NEW frames, NEW reply PROVE Replies(frames, reply)' = Replies(frames, reply)
  BY <1>3 DEF Replies, Asked, Skipped, DependsOnParameter
<1> QED
  BY <1>2, <1>3, <1>5, <1>6, <1>10, <1>12, <1>13

(* What a step that stays in the pass has to show of what it leaves. *)
LEMMA VerdictNext ==
  ASSUME VerdictInv, program' = program, ConInv',
         ChecksOf(program.order[checking'], evaluating'), Nesting(evaluating'),
         Remembers(evaluating', satisfied', answer'), Replies(evaluating', answer'),
         \A place \in 1..(checking' - 1) : AllPass(program.order[place]),
         Decided'
  PROVE  VerdictInv'
<1>1. /\ ChecksOf(program.order[checking], evaluating)'
      /\ Nesting(evaluating)'
      /\ Remembers(evaluating, satisfied, answer)'
      /\ Replies(evaluating, answer)'
      /\ \A place \in 1..(checking' - 1) : AllPass(program.order[place])'
  BY VerdictStatic
<1> QED
  BY <1>1 DEF VerdictInv

(* The verdict stands while the pass goes on, and in the passes after it.   *)
LEMMA DecidedKept ==
  ASSUME Decided, program' = program, reason' \notin {"constraint", "constraint limit"}
                                        \/ reason' = reason,
         phase' \in {"lowering", "done"} => phase \in {"lowering", "done"}
  PROVE  Decided'
<1>1. /\ \A name : AllPass(name)' = AllPass(name)
      /\ \A name : ItemChecks(name)' = ItemChecks(name)
      /\ \A constraint, verdict : Settled(constraint, verdict)' = Settled(constraint, verdict)
      /\ \A constraint : \A n \in Nat : \A verdict :
           ComesOut(constraint, n, verdict)' = ComesOut(constraint, n, verdict)
  BY VerdictStatic, OutcomeStatic
<1>2. kMaxGenericInstantiationDepth \in Nat
  BY LimitAssumption
<1>3. phase' \in {"lowering", "done"} => \A name \in DOMAIN program'.decl : AllPass(name)'
  BY <1>1 DEF Decided
<1>4. reason' = "constraint" =>
        \E name \in DOMAIN program'.decl : \E k \in DOMAIN ItemChecks(name)' :
          ~Skipped(ItemChecks(name)[k])' /\ Settled(ItemChecks(name)[k], "fails")'
  BY <1>1 DEF Decided, Skipped, DependsOnParameter
<1>5. reason' = "constraint limit" =>
        \E name \in DOMAIN program'.decl : \E k \in DOMAIN ItemChecks(name)' :
          /\ ~Skipped(ItemChecks(name)[k])'
          /\ ComesOut(ItemChecks(name)[k], kMaxGenericInstantiationDepth, "too deep")'
  BY <1>1, <1>2 DEF Decided, Skipped, DependsOnParameter
<1> QED
  BY <1>3, <1>4, <1>5 DEF Decided

-----------------------------------------------------------------------------
(* Steps through the frames.                                                *)

(* What is under evaluation in the first frame and in those above it. *)
LEMMA FrameFacts ==
  ASSUME ConInv, NEW name \in DOMAIN program.decl, ChecksOf(name, evaluating), Nesting(evaluating)
  PROVE  /\ evaluating \in Seq(Evaluations) /\ Len(evaluating) \in Nat \ {0}
         /\ DOMAIN evaluating = 1..Len(evaluating)
         /\ \A i \in 1..Len(evaluating) :
              /\ evaluating[i] \in Evaluations
              /\ evaluating[i].clause \in Seq(Clauses) /\ evaluating[i].at \in Nat \ {0}
         /\ \A i \in 2..Len(evaluating) :
              /\ i \in 1..Len(evaluating) /\ i - 1 \in 1..Len(evaluating)
              /\ \A k \in DOMAIN evaluating[i].clause : Decidable(evaluating[i].clause[k])
         /\ \A i \in 1..(Len(evaluating) - 1) : evaluating[i].at \in DOMAIN evaluating[i].clause
         /\ \A k \in DOMAIN evaluating[1].clause :
              evaluating[1].clause[k].form # "unchecked" => Decidable(evaluating[1].clause[k])
<1>1. /\ evaluating \in Seq(Evaluations) /\ evaluating # <<>> /\ program \in Programs
      /\ \A i \in 1..(Len(evaluating) - 1) : evaluating[i].at \in DOMAIN evaluating[i].clause
  BY DEF ConInv
<1>2. Len(evaluating) \in Nat \ {0} /\ DOMAIN evaluating = 1..Len(evaluating)
  BY <1>1
<1>3. \A i \in 1..Len(evaluating) : evaluating[i] \in Evaluations
  BY <1>1
<1>4. \A i \in 1..Len(evaluating) :
        evaluating[i].clause \in Seq(Clauses) /\ evaluating[i].at \in Nat \ {0}
  BY <1>3 DEF Evaluations
<1>5. \A i \in 2..Len(evaluating) : i \in 1..Len(evaluating) /\ i - 1 \in 1..Len(evaluating)
  BY <1>2
<1>6. \A i \in 2..Len(evaluating) : \A k \in DOMAIN evaluating[i].clause :
        Decidable(evaluating[i].clause[k])
  BY <1>1, ClauseDecidable DEF Nesting, IsNested
<1>7. \A k \in DOMAIN evaluating[1].clause :
        evaluating[1].clause[k].form # "unchecked" => Decidable(evaluating[1].clause[k])
  BY <1>1, CheckFacts DEF ChecksOf
<1> QED
  BY <1>1, <1>2, <1>3, <1>4, <1>5, <1>6, <1>7

(* What evaluation has come to, and does not skip, can be met or refused. *)
LEMMA CurrentDecidable ==
  ASSUME ConInv, NEW name \in DOMAIN program.decl, ChecksOf(name, evaluating),
         Nesting(evaluating), HasConstraint, AtItem => ~Skipped(Current)
  PROVE  /\ Decidable(Current) /\ Current.form # "unchecked"
         /\ Current = Asked(evaluating, Len(evaluating))
         /\ Evaluated = evaluating[Len(evaluating)]
         /\ evaluating[Len(evaluating)].at \in DOMAIN evaluating[Len(evaluating)].clause
<1>1. Current = Asked(evaluating, Len(evaluating)) /\ Evaluated = evaluating[Len(evaluating)]
  BY DEF Current, Evaluated, Asked
<1>2. Evaluated.at \in DOMAIN Evaluated.clause /\ (~AtItem => Current.form # "unchecked")
  BY CurrentFacts
<1>3. AtItem => Current.form # "unchecked"
  BY DEF Skipped
<1>4. CASE AtItem
  <2>1. Len(evaluating) = 1
    BY <1>4 DEF AtItem
  <2>2. Current = evaluating[1].clause[evaluating[1].at]
        /\ evaluating[1].at \in DOMAIN evaluating[1].clause
    BY <1>1, <1>2, <2>1 DEF Asked
  <2>3. Current.form # "unchecked" => Decidable(Current)
    BY <2>2, FrameFacts
  <2> QED
    BY <1>1, <1>2, <1>3, <1>4, <2>3
<1>5. CASE ~AtItem
  <2>1. Len(evaluating) \in 2..Len(evaluating)
    <3>1. \A n \in Nat \ {0} : n # 1 => n \in 2..n
      OBVIOUS
    <3>2. Len(evaluating) \in Nat \ {0} /\ Len(evaluating) # 1
      BY <1>5, FrameFacts DEF AtItem
    <3> QED
      BY <3>1, <3>2
  <2>2. Decidable(Evaluated.clause[Evaluated.at])
    BY <1>1, <1>2, <2>1, FrameFacts
  <2> QED
    BY <1>1, <1>2, <1>5, <2>2 DEF Current
<1> QED
  BY <1>4, <1>5

(* One more constraint holds: with enough clauses nested, all up to it do. *)
LEMMA BehindMoved ==
  ASSUME program \in Programs, NEW frame \in Evaluations,
         \A k \in DOMAIN frame.clause : Decidable(frame.clause[k]),
         frame.at \in DOMAIN frame.clause,
         \E n \in Nat : Behind(frame, n), Settled(frame.clause[frame.at], "holds")
  PROVE  \E n \in Nat : Behind([frame EXCEPT !.at = @ + 1], n)
<1>1. PICK n \in Nat : Behind(frame, n)
  OBVIOUS
<1>2. PICK m \in Nat : ComesOut(frame.clause[frame.at], m, "holds")
  BY DEF Settled
<1> DEFINE more == n + m
           next == [frame EXCEPT !.at = @ + 1]
<1>3. more \in Nat /\ n <= more /\ m <= more
  OBVIOUS
<1> HIDE DEF more
<1>4. frame.clause \in Seq(Clauses) /\ frame.at \in Nat
  BY DEF Evaluations
<1>5. next.clause = frame.clause /\ next.at = frame.at + 1
  BY DEF Evaluations
<1> HIDE DEF next
<1>6. ASSUME NEW k \in DOMAIN frame.clause, k < frame.at + 1
      PROVE  ComesOut(frame.clause[k], more, "holds")
  <2>1. k \in Nat
    BY <1>4
  <2>2. k < frame.at \/ k = frame.at
    BY <1>4, <1>6, <2>1
  <2>3. Decidable(frame.clause[k])
    OBVIOUS
  <2>4. CASE k < frame.at
    <3>1. ComesOut(frame.clause[k], n, "holds")
      BY <1>1, <2>4 DEF Behind
    <3>2. "holds" # "too deep"
      OBVIOUS
    <3> QED
      BY <1>3, <2>3, <3>1, <3>2, OutcomeGrows
  <2>5. CASE k = frame.at
    <3>1. ComesOut(frame.clause[k], m, "holds")
      BY <1>2, <2>5
    <3>2. "holds" # "too deep"
      OBVIOUS
    <3> QED
      BY <1>3, <2>3, <3>1, <3>2, OutcomeGrows
  <2> QED
    BY <2>2, <2>4, <2>5
<1>7. Behind(next, more)
  BY <1>5, <1>6 DEF Behind
<1> QED
  BY <1>3, <1>7 DEF next

(* The frames after evaluation has moved on to the next constraint. *)
LEMMA MovedShape ==
  ASSUME ConInv
  PROVE  /\ Len(Moved(evaluating)) = Len(evaluating)
         /\ \A i \in 1..Len(evaluating) :
              Moved(evaluating)[i] = IF i = Len(evaluating) THEN [evaluating[i] EXCEPT !.at = @ + 1]
                                     ELSE evaluating[i]
         /\ \A i \in 1..Len(evaluating) :
              /\ Moved(evaluating)[i].inst = evaluating[i].inst
              /\ Moved(evaluating)[i].clause = evaluating[i].clause
         /\ Moved(evaluating)[Len(evaluating)].at = evaluating[Len(evaluating)].at + 1
<1> DEFINE n == Len(evaluating)
           next == [evaluating[n] EXCEPT !.at = @ + 1]
<1>1. evaluating \in Seq(Evaluations) /\ evaluating # <<>>
  BY DEF ConInv
<1>2. n \in Nat \ {0} /\ DOMAIN evaluating = 1..n /\ evaluating[n] \in Evaluations
  BY <1>1
<1>3. /\ next.inst = evaluating[n].inst /\ next.clause = evaluating[n].clause
      /\ next.at = evaluating[n].at + 1
  BY <1>2 DEF Evaluations
<1>4. Moved(evaluating) = [evaluating EXCEPT ![n] = next]
  BY DEF Moved
<1>5. n \in 1..n
  BY <1>2
<1> HIDE DEF next
<1>6. Len(Moved(evaluating)) = n
      /\ \A i \in 1..n : Moved(evaluating)[i] = IF i = n THEN next ELSE evaluating[i]
  BY <1>1, <1>2, <1>4
<1>7. \A i \in 1..n : /\ Moved(evaluating)[i].inst = evaluating[i].inst
                      /\ Moved(evaluating)[i].clause = evaluating[i].clause
  BY <1>3, <1>6
<1>8. Moved(evaluating)[n].at = evaluating[n].at + 1
  BY <1>3, <1>5, <1>6
<1>9. \A i \in 1..n :
        Moved(evaluating)[i] = IF i = n THEN [evaluating[i] EXCEPT !.at = @ + 1] ELSE evaluating[i]
  BY <1>6 DEF next
<1> QED
  BY <1>6, <1>7, <1>8, <1>9

(* After a constraint that holds, evaluation is one constraint further. *)
LEMMA MovedOn ==
  ASSUME ConInv, NEW name \in DOMAIN program.decl, ChecksOf(name, evaluating),
         Nesting(evaluating), HasConstraint,
         AtItem => Passes(Current), ~AtItem => Settled(Current, "holds")
  PROVE  ChecksOf(name, Moved(evaluating)) /\ Nesting(Moved(evaluating))
<1> DEFINE n == Len(evaluating)
           frames == Moved(evaluating)
<1>1. /\ n \in Nat \ {0}
      /\ \A i \in 1..n : evaluating[i] \in Evaluations /\ evaluating[i].at \in Nat \ {0}
                        /\ evaluating[i].clause \in Seq(Clauses)
      /\ \A i \in 2..n : /\ i \in 1..n /\ i - 1 \in 1..n
                        /\ \A k \in DOMAIN evaluating[i].clause : Decidable(evaluating[i].clause[k])
  BY FrameFacts
<1>2. /\ Len(frames) = n
      /\ \A i \in 1..n : frames[i] = IF i = n THEN [evaluating[i] EXCEPT !.at = @ + 1]
                                      ELSE evaluating[i]
      /\ \A i \in 1..n : /\ frames[i].inst = evaluating[i].inst
                        /\ frames[i].clause = evaluating[i].clause
      /\ frames[n].at = evaluating[n].at + 1
  BY MovedShape
<1>3. Current = Asked(evaluating, n)
  BY DEF Current, Evaluated, Asked
<1>3a. evaluating[n].at \in DOMAIN evaluating[n].clause
  BY CurrentFacts DEF Evaluated
<1> HIDE DEF frames
<1>4. CASE n = 1
  <2>1. Len(frames) = 1 /\ 2..Len(frames) = {} /\ 1 \in 1..n
    BY <1>2, <1>4
  <2>2. frames[1].clause = ItemChecks(name) /\ evaluating[1].clause = ItemChecks(name)
    BY <1>2, <2>1 DEF ChecksOf
  <2>3. frames[1].at = evaluating[1].at + 1
    BY <1>2, <1>4
  <2>4. AtItem
    BY <1>4 DEF AtItem
  <2>5. Passes(ItemChecks(name)[evaluating[1].at])
    BY <1>3, <1>4, <2>2, <2>4 DEF Asked
  <2>6. ASSUME NEW k \in DOMAIN ItemChecks(name), k < frames[1].at
        PROVE  Passes(ItemChecks(name)[k])
    <3>1. k \in Nat /\ evaluating[1].at \in Nat
      BY <1>1, <2>1, <2>2
    <3>2. k < evaluating[1].at \/ k = evaluating[1].at
      BY <2>3, <2>6, <3>1
    <3> QED
      BY <2>5, <3>2 DEF ChecksOf
  <2>7. ~(Len(frames) > 1)
    BY <2>1
  <2>8. ChecksOf(name, frames)
    BY <2>2, <2>6, <2>7 DEF ChecksOf
  <2> QED
    BY <2>1, <2>8 DEF Nesting, frames
<1>5. CASE n # 1
  <2>1. \A m \in Nat \ {0} : m # 1 => 1 \in 1..m /\ m > 1 /\ m \in 2..m
                                     /\ \A i \in 2..m : i - 1 # m
    OBVIOUS
  <2>1a. 1 \in 1..n /\ n > 1 /\ n \in 2..n /\ \A i \in 2..n : i - 1 # n
    BY <1>1, <1>5, <2>1
  <2>2. frames[1] = evaluating[1]
    BY <1>2, <1>5, <2>1a
  <2>3. ChecksOf(name, frames)
    BY <1>2, <2>2 DEF ChecksOf, Asked
  <2>4. \A i \in 2..n : Asked(frames, i - 1) = Asked(evaluating, i - 1)
    BY <1>1, <1>2, <2>1a DEF Asked
  <2>5. ASSUME NEW i \in 2..n PROVE IsNested(frames, i)
    <3>1. IsNested(evaluating, i)
      BY DEF Nesting
    <3>2. CASE i # n
      <4>1. frames[i] = evaluating[i]
        BY <1>1, <1>2, <3>2
      <4> QED
        BY <2>4, <3>1, <4>1 DEF IsNested
    <3>3. CASE i = n
      <4>1. ~AtItem
        BY <1>5 DEF AtItem
      <4>2. Settled(evaluating[n].clause[evaluating[n].at], "holds")
        BY <1>3, <4>1 DEF Asked
      <4>3. \E m \in Nat : Behind(evaluating[n], m)
        BY <3>1, <3>3 DEF IsNested
      <4>4. program \in Programs
        BY DEF ConInv
      <4>5. \E m \in Nat : Behind([evaluating[n] EXCEPT !.at = @ + 1], m)
        BY <1>1, <1>3a, <2>1a, <4>2, <4>3, <4>4, BehindMoved
      <4>6. frames[n] = [evaluating[n] EXCEPT !.at = @ + 1]
            /\ frames[n].inst = evaluating[n].inst /\ frames[n].clause = evaluating[n].clause
        BY <1>1, <1>2, <2>1a
      <4>7. \E m \in Nat : Behind(frames[n], m)
        BY <4>5, <4>6
      <4> QED
        BY <2>4, <3>1, <3>3, <4>6, <4>7 DEF IsNested
    <3> QED
      BY <3>2, <3>3
  <2>6. Nesting(frames)
    BY <1>2, <2>5 DEF Nesting
  <2> QED
    BY <2>3, <2>6 DEF frames
<1> QED
  BY <1>4, <1>5

(* Entering a where clause. *)
LEMMA EnteredClause ==
  ASSUME ConInv, NEW name \in DOMAIN program.decl, ChecksOf(name, evaluating),
         Nesting(evaluating), Enforce
  PROVE  LET frames == Append(evaluating, Evaluation(Current.of))
         IN  /\ ChecksOf(name, frames) /\ Nesting(frames)
             /\ Len(frames) = Len(evaluating) + 1
             /\ \A i \in 1..Len(evaluating) : frames[i] = evaluating[i]
             /\ frames[Len(evaluating) + 1].inst = Current.of
             /\ Current.of \in Clausal
<1> DEFINE n == Len(evaluating)
           new == Evaluation(Current.of)
           frames == Append(evaluating, new)
<1>1. HasConstraint /\ (AtItem => ~Skipped(Current)) /\ ~IsImmediate(Current)
  BY DEF Enforce, Examine
<1>2. Decidable(Current) /\ Current = Asked(evaluating, n)
  BY <1>1, CurrentDecidable
<1>3. Current.of \in Clausal
  BY <1>1, <1>2 DEF Decidable
<1>4. /\ evaluating \in Seq(Evaluations) /\ n \in Nat \ {0}
      /\ \A i \in 2..n : i \in 1..n /\ i - 1 \in 1..n
  BY FrameFacts
<1>5. new.inst = Current.of /\ new.clause = WhereClause(Current.of) /\ new.at = 1
  BY DEF Evaluation
<1> HIDE DEF new
<1> DEFINE S == Evaluations \union {new}
<1>6. evaluating \in Seq(S) /\ new \in S
  BY <1>4, SeqMonotonic
<1> HIDE DEF S
<1>7. /\ Len(frames) = n + 1
      /\ \A i \in 1..n : frames[i] = evaluating[i]
      /\ frames[n + 1] = new
  BY <1>4, <1>6, AppendProperties
<1> HIDE DEF frames
<1>8. 1 \in 1..n /\ n + 1 > 1 /\ n \in 1..n
  BY <1>4
<1>9. frames[1] = evaluating[1]
  BY <1>7, <1>8
<1>10. ~Skipped(Asked(frames, 1))
  <2>1. CASE n = 1
    BY <1>1, <1>2, <1>9, <2>1 DEF AtItem, Asked
  <2>2. CASE n # 1
    <3>1. \A m \in Nat \ {0} : m # 1 => m > 1
      OBVIOUS
    <3>2. n > 1
      BY <1>4, <2>2, <3>1
    <3> QED
      BY <1>9, <3>2 DEF ChecksOf, Asked
  <2> QED
    BY <2>1, <2>2
<1>11. ChecksOf(name, frames)
  BY <1>9, <1>10 DEF ChecksOf
<1>12. ASSUME NEW i \in 2..(n + 1) PROVE IsNested(frames, i)
  <2>1. CASE i = n + 1
    <3>1. i - 1 = n /\ frames[n] = evaluating[n] /\ frames[i] = new
      BY <1>4, <1>7, <1>8, <2>1
    <3>2. Asked(frames, i - 1) = Current
      BY <1>2, <3>1 DEF Asked
    <3>3. Current.of \in Clausal /\ program \in Programs
      BY <1>3 DEF ConInv
    <3>4. new.clause \in Seq(Clauses)
      BY <1>5, <3>3, ClauseDecidable
    <3>5. \A k \in DOMAIN new.clause : ~(k < new.at)
      BY <1>5, <3>4
    <3>6. 0 \in Nat /\ Behind(new, 0)
      BY <3>5 DEF Behind
    <3> QED
      BY <1>1, <1>3, <1>5, <3>1, <3>2, <3>6 DEF IsNested
  <2>2. CASE i # n + 1
    <3>1. i \in 2..n
      BY <1>4, <2>2
    <3>2. frames[i] = evaluating[i] /\ frames[i - 1] = evaluating[i - 1]
      BY <1>4, <1>7, <3>1
    <3> QED
      BY <3>1, <3>2 DEF Nesting, IsNested, Asked
  <2> QED
    BY <2>1, <2>2
<1>13. Nesting(frames)
  BY <1>7, <1>12 DEF Nesting
<1> QED
  BY <1>3, <1>5, <1>7, <1>11, <1>13 DEF frames, new

(* Leaving a where clause. *)
LEMMA LeftClause ==
  ASSUME ConInv, NEW name \in DOMAIN program.decl, ChecksOf(name, evaluating),
         Nesting(evaluating), ~AtItem
  PROVE  /\ ChecksOf(name, Below) /\ Nesting(Below)
         /\ Len(evaluating) > 1
         /\ Len(Below) = Len(evaluating) - 1
         /\ \A i \in 1..Len(Below) : i \in 1..Len(evaluating) /\ Below[i] = evaluating[i]
         /\ Asking = Asked(evaluating, Len(evaluating) - 1)
         /\ Asking = Asked(Below, Len(Below))
         /\ Below[Len(Below)].at \in DOMAIN Below[Len(Below)].clause
         /\ Len(Below) = 1 => ~Skipped(Asked(Below, 1))
<1> DEFINE n == Len(evaluating)
<1>1. /\ evaluating \in Seq(Evaluations) /\ n \in Nat \ {0}
      /\ \A i \in 2..n : i \in 1..n /\ i - 1 \in 1..n
      /\ \A i \in 1..n : evaluating[i] \in Evaluations
      /\ \A i \in 1..(n - 1) : evaluating[i].at \in DOMAIN evaluating[i].clause
  BY FrameFacts
<1>2. n # 1
  BY DEF AtItem
<1>3. \A m \in Nat \ {0} : m # 1 => /\ m > 1 /\ m - 1 \in Nat \ {0} /\ m - 1 - 1 + 1 = m - 1
                                    /\ 1 \in 1..(m - 1) /\ m - 1 \in 1..(m - 1)
                                    /\ \A i \in 1..(m - 1) : i \in 1..m
                                    /\ \A i \in 2..(m - 1) :
                                         /\ i \in 1..(m - 1) /\ i - 1 \in 1..(m - 1)
                                         /\ i \in 2..m
  OBVIOUS
<1>4. /\ n > 1 /\ n - 1 \in Nat \ {0} /\ n - 1 - 1 + 1 = n - 1
      /\ 1 \in 1..(n - 1) /\ n - 1 \in 1..(n - 1)
      /\ \A i \in 1..(n - 1) : i \in 1..n
      /\ \A i \in 2..(n - 1) : i \in 1..(n - 1) /\ i - 1 \in 1..(n - 1) /\ i \in 2..n
  BY <1>1, <1>2, <1>3
<1>5. /\ Len(Below) = n - 1
      /\ \A i \in 1..(n - 1) : Below[i] = evaluating[i]
  <2>1. \A i \in 1..(n - 1) : evaluating[i] \in Evaluations
    BY <1>1, <1>4
  <2> QED
    BY <1>1, <1>4, <2>1, SubSeqProperties DEF Below
<1>6. Asking = Asked(evaluating, n - 1) /\ Asking = Asked(Below, Len(Below))
  BY <1>4, <1>5 DEF Asking, Asked
<1>7. Below[1] = evaluating[1]
  BY <1>4, <1>5
<1>8. ~Skipped(Asked(Below, 1))
  BY <1>4, <1>7 DEF ChecksOf, Asked
<1>9. ChecksOf(name, Below)
  BY <1>7, <1>8 DEF ChecksOf
<1>10. ASSUME NEW i \in 2..(n - 1) PROVE IsNested(Below, i)
  <2>1. Below[i] = evaluating[i] /\ Below[i - 1] = evaluating[i - 1] /\ i \in 2..n
    BY <1>4, <1>5
  <2> QED
    BY <2>1 DEF Nesting, IsNested, Asked
<1>11. Nesting(Below)
  BY <1>5, <1>10 DEF Nesting
<1>12. Below[Len(Below)].at \in DOMAIN Below[Len(Below)].clause
  BY <1>1, <1>4, <1>5
<1>13. \A i \in 1..Len(Below) : i \in 1..n /\ Below[i] = evaluating[i]
  BY <1>4, <1>5
<1> QED
  BY <1>4, <1>5, <1>6, <1>8, <1>9, <1>11, <1>12, <1>13

-----------------------------------------------------------------------------
(* Giving up.                                                               *)

(* A constraint that leads too deep takes its clause with it, since those   *)
(* before it do not fail.                                                   *)
LEMMA StillTooDeep ==
  ASSUME program \in Programs, NEW frame \in Evaluations,
         \A k \in DOMAIN frame.clause : Decidable(frame.clause[k]),
         frame.at \in DOMAIN frame.clause,
         \E n \in Nat : Behind(frame, n),
         NEW m \in Nat
  PROVE  ComesOut(frame.clause[frame.at], m, "too deep")
           => ClauseOutcome(frame.clause, Outcome[m]) = "too deep"
<1>0. SUFFICES ASSUME ComesOut(frame.clause[frame.at], m, "too deep")
               PROVE  ClauseOutcome(frame.clause, Outcome[m]) = "too deep"
  OBVIOUS
<1>1. PICK n \in Nat : Behind(frame, n)
  OBVIOUS
<1> DEFINE clause == frame.clause
           outcomes == Outcome[m]
<1>2. clause \in Seq(Clauses) /\ frame.at \in Nat
  BY DEF Evaluations
<1>2a. DOMAIN clause \subseteq Nat
  BY <1>2
<1>2b. \A a, b \in Nat : ~(a < b) => b < a \/ b = a
  OBVIOUS
<1>3. \A k \in DOMAIN clause : k < frame.at =>
        \/ OutcomeWith(clause[k], outcomes) = "holds"
        \/ OutcomeWith(clause[k], outcomes) = "too deep"
  <2> SUFFICES ASSUME NEW k \in DOMAIN clause, k < frame.at
               PROVE  ComesOut(clause[k], m, "holds") \/ ComesOut(clause[k], m, "too deep")
    BY DEF ComesOut
  <2>1. ComesOut(clause[k], n, "holds")
    BY <1>1 DEF Behind
  <2> QED
    BY <2>1, NeverFails
<1>4. OutcomeWith(clause[frame.at], outcomes) = "too deep"
  BY <1>0 DEF ComesOut
<1> HIDE DEF clause, outcomes
<1>5. "holds" # "too deep"
  OBVIOUS
<1>6. frame.at \in DOMAIN clause
  BY DEF clause
<1>7. PICK first \in DOMAIN clause :
        /\ OutcomeWith(clause[first], outcomes) # "holds"
        /\ \A k \in DOMAIN clause : k < first => OutcomeWith(clause[k], outcomes) = "holds"
  BY <1>2, <1>4, <1>5, <1>6, ClauseOutcomes
<1>8. ~(frame.at < first)
  BY <1>4, <1>5, <1>6, <1>7
<1>9. first \in Nat
  BY <1>2a
<1>10. first < frame.at \/ first = frame.at
  BY <1>2, <1>2b, <1>8, <1>9
<1>11. OutcomeWith(clause[first], outcomes) = "too deep"
  BY <1>3, <1>4, <1>7, <1>10
<1>12. ClauseOutcome(clause, outcomes) = OutcomeWith(clause[first], outcomes)
  BY <1>2, <1>7, ClauseOutcomes
<1> QED
  BY <1>11, <1>12 DEF clause, outcomes

(* The instance that is asked for is too deep, and so is the constraint.    *)
LEMMA AskedTooDeep ==
  ASSUME NEW constraint, ~IsImmediate(constraint), NEW n \in Nat, NEW inst
  PROVE  constraint.of = inst /\ Outcome[n][inst] = "too deep"
           => ComesOut(constraint, n, "too deep")
BY DEF ComesOut, OutcomeWith, JudgeOutcome

(* What a where clause asks for is without the primitive that the frames    *)
(* are without.                                                             *)
LEMMA CurrentWithout ==
  ASSUME ConInv, NEW name \in DOMAIN program.decl, ChecksOf(name, evaluating),
         Nesting(evaluating), HasConstraint, Len(evaluating) > 1,
         NEW primitive, Apart(primitive, evaluating, satisfied)
  PROVE  Current.of \in Without(primitive)
<1> DEFINE n == Len(evaluating)
<1>1. n \in Nat \ {0}
  BY FrameFacts
<1>2. n \in 2..n
  BY <1>1
<1>3. NoClauseHas(primitive) /\ evaluating[n].inst \in Without(primitive)
  BY <1>2 DEF Apart
<1>4. /\ evaluating[n].inst \in Clausal
      /\ evaluating[n].clause = WhereClause(evaluating[n].inst)
  BY <1>2 DEF Nesting, IsNested
<1>5. evaluating[n].at \in DOMAIN evaluating[n].clause
  BY CurrentFacts DEF Evaluated
<1>6. program \in Programs
  BY DEF ConInv
<1>7. evaluating[n].clause[evaluating[n].at].of \in Without(primitive)
  BY <1>3, <1>4, <1>5, <1>6, ClauseWithout
<1> QED
  BY <1>7 DEF Current, Evaluated

(* Giving up is over a check that is too deep: the frames are a chain of    *)
(* where clauses as long as the limit, or one that comes back to itself.    *)
LEMMA GivenUp ==
  ASSUME ConInv, NEW name \in DOMAIN program.decl, ChecksOf(name, evaluating),
         Nesting(evaluating), Enforce,
         Len(evaluating) > 1 =>
           \E primitive \in Primitives : Apart(primitive, evaluating, satisfied),
         Key(Current.of) \in ActiveKeys \/ TooDeep
  PROVE  /\ Len(evaluating) > 1
         /\ ComesOut(Asked(evaluating, 1), kMaxGenericInstantiationDepth, "too deep")
<1> DEFINE n == Len(evaluating)
           limit == kMaxGenericInstantiationDepth
           Cyclic == \E j \in 2..n : evaluating[j].inst = Current.of
           Reaches(m, i) == Cyclic \/ m + i <= n + 1
           P(m) == \A i \in 2..n : Reaches(m, i) => Outcome[m][evaluating[i].inst] = "too deep"
           S == {m \in Nat : P(m)}
<1>1. HasConstraint /\ (AtItem => ~Skipped(Current)) /\ ~IsImmediate(Current)
  BY DEF Enforce, Examine
<1>2. /\ Decidable(Current) /\ Current = Asked(evaluating, n)
      /\ evaluating[n].at \in DOMAIN evaluating[n].clause
  BY <1>1, CurrentDecidable
<1>3. Current.of \in Clausal
  BY <1>1, <1>2 DEF Decidable
<1>4. /\ n \in Nat \ {0}
      /\ \A i \in 1..n : evaluating[i] \in Evaluations
      /\ \A i \in 2..n : /\ i \in 1..n
                        /\ \A k \in DOMAIN evaluating[i].clause : Decidable(evaluating[i].clause[k])
      /\ \A i \in 1..(n - 1) : evaluating[i].at \in DOMAIN evaluating[i].clause
  BY FrameFacts
<1>5. limit \in Nat \ {0}
  BY LimitAssumption
<1>6. TooDeep => n - 1 >= limit
  BY DEF TooDeep
<1>7. Key(Current.of) \in ActiveKeys => \E j \in 2..n : Key(evaluating[j].inst) = Key(Current.of)
  BY DEF ActiveKeys
<1>8. n > 1
  <2>1. TooDeep => n > 1
    BY <1>4, <1>5, <1>6
  <2>2. \A j \in 2..n : n > 1
    BY <1>4
  <2> QED
    BY <1>7, <2>1, <2>2
<1>9. Cyclic \/ limit + 2 <= n + 1
  <2>1. CASE TooDeep
    BY <1>4, <1>5, <1>6, <2>1
  <2>2. CASE Key(Current.of) \in ActiveKeys
    <3>1. PICK j \in 2..n : Key(evaluating[j].inst) = Key(Current.of)
      BY <1>7, <2>2
    <3>2. PICK primitive \in Primitives : Apart(primitive, evaluating, satisfied)
      BY <1>8
    <3>3. /\ NoClauseHas(primitive)
          /\ \A i \in 2..n : evaluating[i].inst \in Without(primitive)
      BY <3>2 DEF Apart
    <3>6. Current.of \in Without(primitive)
      BY <1>1, <1>8, <3>2, CurrentWithout
    <3>7. evaluating[j].inst = Current.of
      BY <3>1, <3>3, <3>6, OneKey
    <3> QED
      BY <3>7
  <2> QED
    BY <2>1, <2>2
<1>10. \A i \in 2..n : /\ evaluating[i].inst \in Clausal /\ evaluating[i].inst \in Seq(STRING)
                      /\ evaluating[i].clause = WhereClause(evaluating[i].inst)
                      /\ evaluating[i].inst = Asked(evaluating, i - 1).of
                      /\ ~IsImmediate(Asked(evaluating, i - 1))
                      /\ \E d \in Nat : Behind(evaluating[i], d)
  BY DEF Nesting, IsNested, Clausal
<1>11. Current.of \in Seq(STRING)
  BY <1>3 DEF Clausal
<1> HIDE DEF n, limit, Cyclic, P
<1>12. 0 \in S
  <2>1. \A i \in 2..n : Outcome[0][evaluating[i].inst] = "too deep"
    BY <1>10, OutcomeNested
  <2> QED
    BY <2>1 DEF P
<1>13. ASSUME NEW m \in Nat, m \in S PROVE m + 1 \in S
  <2> SUFFICES P(m + 1)
    OBVIOUS
  <2>0. SUFFICES ASSUME NEW i \in 2..n, Reaches(m + 1, i)
                 PROVE  Outcome[m + 1][evaluating[i].inst] = "too deep"
    BY DEF P
  <2>1. P(m)
    BY <1>13
  <2>2. ComesOut(Asked(evaluating, i), m, "too deep")
    <3>1. CASE i # n
      <4>1. i + 1 \in 2..n /\ (i + 1) - 1 = i
        BY <1>4, <3>1
      <4>2. Reaches(m, i + 1)
        <5>1. m + (i + 1) = (m + 1) + i
          BY <1>4
        <5> QED
          BY <2>0, <5>1
      <4>3. Outcome[m][evaluating[i + 1].inst] = "too deep"
        BY <2>1, <4>1, <4>2 DEF P
      <4>4. ~IsImmediate(Asked(evaluating, i)) /\ Asked(evaluating, i).of = evaluating[i + 1].inst
        BY <1>10, <4>1
      <4> QED
        BY <4>3, <4>4, AskedTooDeep
    <3>2. CASE i = n
      <4>1. Asked(evaluating, i) = Current
        BY <1>2, <3>2 DEF n
      <4>2. CASE Cyclic
        <5>1. PICK j \in 2..n : evaluating[j].inst = Current.of
          BY <4>2 DEF Cyclic
        <5>2. Outcome[m][evaluating[j].inst] = "too deep"
          BY <2>1, <4>2 DEF P
        <5>3. ComesOut(Current, m, "too deep")
          BY <1>1, <5>1, <5>2, AskedTooDeep
        <5> QED
          BY <4>1, <5>3
      <4>3. CASE ~Cyclic
        <5>1. (m + 1) + n <= n + 1
          BY <2>0, <3>2, <4>3
        <5>2. m = 0
          BY <1>4, <5>1
        <5>3. Outcome[0][Current.of] = "too deep"
          BY <1>11, OutcomeNested
        <5>4. ComesOut(Current, 0, "too deep")
          BY <1>1, <5>3, AskedTooDeep
        <5> QED
          BY <4>1, <5>2, <5>4
      <4> QED
        BY <4>2, <4>3
    <3> QED
      BY <3>1, <3>2
  <2>3. evaluating[i] \in Evaluations
        /\ \A k \in DOMAIN evaluating[i].clause : Decidable(evaluating[i].clause[k])
    BY <1>4
  <2>4. evaluating[i].at \in DOMAIN evaluating[i].clause
    <3>1. i = n \/ i \in 1..(n - 1)
      BY <1>4
    <3> QED
      BY <1>2, <1>4, <3>1 DEF n
  <2>5. ComesOut(evaluating[i].clause[evaluating[i].at], m, "too deep")
    BY <2>2 DEF Asked
  <2>6. program \in Programs
    BY DEF ConInv
  <2>7. ClauseOutcome(evaluating[i].clause, Outcome[m]) = "too deep"
    BY <1>10, <2>3, <2>4, <2>5, <2>6, StillTooDeep
  <2>8. /\ evaluating[i].inst \in Seq(STRING)
        /\ evaluating[i].clause = WhereClause(evaluating[i].inst)
    BY <1>10
  <2>9. Outcome[m + 1][evaluating[i].inst] =
          ClauseOutcome(WhereClause(evaluating[i].inst), Outcome[m])
    BY <2>8, OutcomeNested
  <2> QED
    BY <2>7, <2>8, <2>9
<1> HIDE DEF S
<1>14. Nat \subseteq S
  BY <1>12, <1>13, NatSetInduction
<1>15. P(limit)
  BY <1>5, <1>14 DEF S
<1>16. 2 \in 2..n /\ 2 - 1 = 1
  BY <1>4, <1>8 DEF n
<1>17. Outcome[limit][evaluating[2].inst] = "too deep"
  <2>1. Reaches(limit, 2)
    BY <1>9
  <2> QED
    BY <1>15, <1>16, <2>1 DEF P
<1>18. ~IsImmediate(Asked(evaluating, 1)) /\ Asked(evaluating, 1).of = evaluating[2].inst
  BY <1>10, <1>16
<1>19. ComesOut(Asked(evaluating, 1), limit, "too deep")
  BY <1>5, <1>17, <1>18, AskedTooDeep
<1> QED
  BY <1>8, <1>19 DEF n, limit

-----------------------------------------------------------------------------
(* Answers.                                                                 *)

(* How a constraint comes out once its where clause has been evaluated. *)
LEMMA MetAnswers ==
  ASSUME NEW constraint, ~IsImmediate(constraint), Meets(constraint.of)
  PROVE  Settled(constraint, Judge(constraint, TRUE))
<1>1. PICK n \in Nat : Outcome[n][constraint.of] = "holds"
  BY DEF Meets
<1>2. JudgeOutcome(constraint, "holds") = Judge(constraint, TRUE)
  BY DEF JudgeOutcome, Judge, Holds
<1>3. OutcomeWith(constraint, Outcome[n]) = JudgeOutcome(constraint, "holds")
  BY <1>1 DEF OutcomeWith
<1> QED
  BY <1>2, <1>3 DEF Settled, ComesOut

(* The where clause of the instance is not met. *)
Refuses(inst) == \E n \in Nat : Outcome[n][inst] = "fails"

(* The same, for a where clause that is not met. *)
LEMMA UnmetAnswers ==
  ASSUME NEW constraint, ~IsImmediate(constraint), Refuses(constraint.of)
  PROVE  Settled(constraint, Judge(constraint, FALSE))
<1>1. PICK n \in Nat : Outcome[n][constraint.of] = "fails"
  BY DEF Refuses
<1>2. JudgeOutcome(constraint, "fails") = Judge(constraint, FALSE)
  BY DEF JudgeOutcome, Judge, Holds
<1>3. OutcomeWith(constraint, Outcome[n]) = JudgeOutcome(constraint, "fails")
  BY <1>1 DEF OutcomeWith
<1> QED
  BY <1>2, <1>3 DEF Settled, ComesOut

(* All constraints hold: the clause is met. *)
LEMMA ClauseMet ==
  ASSUME NEW frame \in Evaluations, frame.inst \in Clausal,
         frame.clause = WhereClause(frame.inst),
         \E n \in Nat : Behind(frame, n), ~(frame.at <= Len(frame.clause))
  PROVE  Meets(frame.inst)
<1>1. PICK n \in Nat : Behind(frame, n)
  OBVIOUS
<1> DEFINE clause == frame.clause
<1>2. clause \in Seq(Clauses) /\ frame.at \in Nat
  BY DEF Evaluations
<1>3. Len(clause) \in Nat /\ DOMAIN clause = 1..Len(clause)
  BY <1>2
<1>4. ASSUME NEW k \in DOMAIN clause PROVE k < frame.at
  BY <1>2, <1>3
<1>5. \A k \in DOMAIN clause : OutcomeWith(clause[k], Outcome[n]) = "holds"
  BY <1>1, <1>4 DEF Behind, ComesOut
<1> HIDE DEF clause
<1>6. ClauseOutcome(clause, Outcome[n]) = "holds"
  BY <1>2, <1>5, ClauseOutcomes
<1>7. frame.inst \in Seq(STRING)
  BY DEF Clausal
<1>8. Outcome[n + 1][frame.inst] = "holds" /\ n + 1 \in Nat
  <2>1. n + 1 \in Nat
    OBVIOUS
  <2>2. Outcome[n + 1][frame.inst] = ClauseOutcome(WhereClause(frame.inst), Outcome[n])
    BY <1>7, OutcomeNested
  <2>3. WhereClause(frame.inst) = clause
    BY DEF clause
  <2> QED
    BY <1>6, <2>1, <2>2, <2>3
<1> QED
  BY <1>8 DEF Meets

(* One that fails after others that hold: the clause is refused. *)
LEMMA ClauseFails ==
  ASSUME program \in Programs, NEW frame \in Evaluations, frame.inst \in Clausal,
         \A k \in DOMAIN frame.clause : Decidable(frame.clause[k]),
         frame.clause = WhereClause(frame.inst),
         \E n \in Nat : Behind(frame, n), frame.at \in DOMAIN frame.clause,
         Settled(frame.clause[frame.at], "fails")
  PROVE  Refuses(frame.inst)
<1>1. PICK n \in Nat : Behind(frame, n)
  OBVIOUS
<1>2. PICK m \in Nat : ComesOut(frame.clause[frame.at], m, "fails")
  BY DEF Settled
<1> DEFINE clause == frame.clause
           more == n + m
<1>3. more \in Nat /\ n <= more /\ m <= more
  OBVIOUS
<1> HIDE DEF more
<1>4. clause \in Seq(Clauses)
  BY DEF Evaluations
<1>5. "holds" # "too deep" /\ "fails" # "too deep" /\ "fails" # "holds"
  OBVIOUS
<1>6. ASSUME NEW k \in DOMAIN clause, k < frame.at
      PROVE  OutcomeWith(clause[k], Outcome[more]) = "holds"
  <2>1. ComesOut(clause[k], n, "holds") /\ Decidable(clause[k])
    BY <1>1, <1>6 DEF Behind
  <2>2. ComesOut(clause[k], more, "holds")
    BY <1>3, <1>5, <2>1, OutcomeGrows
  <2> QED
    BY <2>2 DEF ComesOut
<1>7. OutcomeWith(clause[frame.at], Outcome[more]) = "fails"
  <2>1. ComesOut(clause[frame.at], more, "fails")
    BY <1>2, <1>3, <1>5, OutcomeGrows
  <2> QED
    BY <2>1 DEF ComesOut
<1>8. frame.at \in DOMAIN clause
  OBVIOUS
<1> HIDE DEF clause
<1>9. ClauseOutcome(clause, Outcome[more]) = "fails"
  BY <1>4, <1>5, <1>6, <1>7, <1>8, ClauseOutcomes
<1>10. frame.inst \in Seq(STRING)
  BY DEF Clausal
<1>11. Outcome[more + 1][frame.inst] = "fails" /\ more + 1 \in Nat
  <2>1. more + 1 \in Nat
    BY <1>3
  <2>2. Outcome[more + 1][frame.inst] = ClauseOutcome(WhereClause(frame.inst), Outcome[more])
    BY <1>3, <1>10, OutcomeNested
  <2>3. WhereClause(frame.inst) = clause
    BY DEF clause
  <2> QED
    BY <1>9, <2>1, <2>2, <2>3
<1> QED
  BY <1>11 DEF Refuses

(* A key that is remembered answers for the instance that has it now. *)
LEMMA MemoryAnswers ==
  ASSUME ConInv, NEW name \in DOMAIN program.decl, ChecksOf(name, evaluating),
         Nesting(evaluating), Enforce, Len(evaluating) > 1,
         NEW primitive \in Primitives, Apart(primitive, evaluating, satisfied),
         Key(Current.of) \in satisfied
  PROVE  Settled(Current, Judge(Current, TRUE))
<1>1. HasConstraint /\ ~IsImmediate(Current)
  BY DEF Enforce, Examine
<1>2. PICK inst \in Clausal :
        inst \in Without(primitive) /\ Key(inst) = Key(Current.of) /\ Meets(inst)
  BY DEF Apart
<1>3. Current.of \in Without(primitive)
  BY <1>1, CurrentWithout
<1>4. inst = Current.of
  BY <1>2, <1>3, OneKey
<1> QED
  BY <1>1, <1>2, <1>4, MetAnswers

-----------------------------------------------------------------------------
(* Steps of the evaluator.                                                  *)

(* The item whose checks are made is declared, and the frames know it. *)
LEMMA VerdictFacts ==
  ASSUME VerdictInv
  PROVE  /\ ConInv /\ program \in Programs
         /\ checking \in DOMAIN program.order
         /\ program.order[checking] \in DOMAIN program.decl
         /\ ChecksOf(program.order[checking], evaluating)
         /\ Nesting(evaluating)
<1>1. ConInv /\ program \in Programs /\ checking \in DOMAIN program.order
  BY DEF VerdictInv, ConInv
<1>2. program.order \in Seq(DOMAIN program.decl)
  BY <1>1, ProgramFacts
<1>3. program.order[checking] \in DOMAIN program.decl
  BY <1>1, <1>2
<1> QED
  BY <1>1, <1>3 DEF VerdictInv

(* A verdict on the item keeps what has been found out of those before. *)
LEMMA VerdictOn ==
  ASSUME VerdictInv, program' = program, checking' = checking, phase' = phase, reason' = reason,
         ConInv', ChecksOf(program.order[checking], evaluating'), Nesting(evaluating'),
         Remembers(evaluating', satisfied', answer'), Replies(evaluating', answer')
  PROVE  VerdictInv'
<1>1. Decided
  BY DEF VerdictInv
<1>2. Decided'
  BY <1>1, DecidedKept
<1>3. \A place \in 1..(checking' - 1) : AllPass(program.order[place])
  BY DEF VerdictInv
<1> QED
  BY <1>2, <1>3, VerdictNext

(* An answer, with the frames and the memory as they are. *)
LEMMA VerdictAnswered ==
  ASSUME VerdictInv, Examine, ConInv', program' = program, UNCHANGED <<phase, reason>>,
         UNCHANGED <<checking, evaluating, satisfied>>,
         answer' \in {"holds", "fails"}, Settled(Current, answer')
  PROVE  VerdictInv'
<1>1. /\ ConInv /\ program.order[checking] \in DOMAIN program.decl
      /\ ChecksOf(program.order[checking], evaluating) /\ Nesting(evaluating)
  BY VerdictFacts
<1>2. HasConstraint /\ (AtItem => ~Skipped(Current))
  BY DEF Examine
<1>3. /\ Current = Asked(evaluating, Len(evaluating))
      /\ evaluating[Len(evaluating)].at \in DOMAIN evaluating[Len(evaluating)].clause
  BY <1>1, <1>2, CurrentDecidable
<1>4. Replies(evaluating', answer')
  <2>1. Len(evaluating) = 1 => ~Skipped(Asked(evaluating, 1))
    BY <1>2, <1>3 DEF AtItem
  <2>2. Settled(Asked(evaluating, Len(evaluating)), answer')
    BY <1>3
  <2>3. evaluating' = evaluating
    OBVIOUS
  <2> QED
    BY <1>3, <2>1, <2>2, <2>3 DEF Replies
<1>5. Remembers(evaluating', satisfied', answer')
  <2>1. answer' # "none"
    OBVIOUS
  <2>2. evaluating' = evaluating /\ satisfied' = satisfied
    OBVIOUS
  <2>3. Remembers(evaluating, satisfied, answer)
    BY DEF VerdictInv
  <2> QED
    BY <2>1, <2>2, <2>3 DEF Remembers
<1>6. evaluating' = evaluating /\ checking' = checking /\ phase' = phase /\ reason' = reason
  OBVIOUS
<1> QED
  BY <1>1, <1>4, <1>5, <1>6, VerdictOn

(* Deciding a constraint, and remembering how its where clause came out. *)
LEMMA VerdictDecide ==
  ASSUME VerdictInv, ConInv', Decide \/ Remembered
  PROVE  VerdictInv'
<1>1. /\ Examine /\ program' = program /\ UNCHANGED <<phase, reason>>
      /\ UNCHANGED <<checking, evaluating, satisfied>>
  BY DEF Decide, Remembered, Enforce
<1>2. /\ ConInv /\ program.order[checking] \in DOMAIN program.decl
      /\ ChecksOf(program.order[checking], evaluating) /\ Nesting(evaluating)
  BY VerdictFacts
<1>3. CASE Decide
  <2>1. IsImmediate(Current) /\ answer' = Immediate(Current)
    BY <1>3 DEF Decide
  <2>2. answer' \in {"holds", "fails"}
    BY <2>1 DEF Immediate, Holds
  <2>3. ComesOut(Current, 0, Immediate(Current))
    BY <2>1 DEF ComesOut, OutcomeWith
  <2>4. Settled(Current, answer')
    BY <2>1, <2>3 DEF Settled
  <2> QED
    BY <1>1, <2>2, <2>4, VerdictAnswered
<1>4. CASE Remembered
  <2>1. Enforce /\ Key(Current.of) \in satisfied /\ answer' = Judge(Current, TRUE)
        /\ answer = "none"
    BY <1>4 DEF Remembered, Enforce, Examine
  <2>2. answer' \in {"holds", "fails"}
    <3>1. Current.form \in {"decl", "call", "use"}
      BY <1>2, <2>1, EnforceFacts
    <3> QED
      BY <2>1, <3>1 DEF Judge, Holds
  <2>3. Remembers(evaluating, satisfied, answer) /\ satisfied # {}
    BY <2>1 DEF VerdictInv
  <2>4. PICK primitive \in Primitives : Apart(primitive, evaluating, satisfied)
    BY <2>3 DEF Remembers
  <2>5. Len(evaluating) > 1
    <3>1. Len(evaluating) # 1
      BY <2>1, <2>3 DEF Remembers
    <3>2. Len(evaluating) \in Nat \ {0}
      BY <1>2, FrameFacts
    <3>3. \A n \in Nat \ {0} : n # 1 => n > 1
      OBVIOUS
    <3> QED
      BY <3>1, <3>2, <3>3
  <2>6. Settled(Current, answer')
    BY <1>2, <2>1, <2>4, <2>5, MemoryAnswers
  <2> QED
    BY <1>1, <2>2, <2>6, VerdictAnswered
<1> QED
  BY <1>3, <1>4

(* Going on to the next constraint. *)
LEMMA VerdictMoved ==
  ASSUME VerdictInv, ConInv', SkipConstraint \/ Continue
  PROVE  VerdictInv'
<1> DEFINE name == program.order[checking]
<1>1. /\ ConInv /\ name \in DOMAIN program.decl
      /\ ChecksOf(name, evaluating) /\ Nesting(evaluating)
  BY VerdictFacts
<1>2. /\ program' = program /\ checking' = checking /\ phase' = phase /\ reason' = reason
      /\ evaluating' = Moved(evaluating) /\ answer' = "none"
  BY DEF SkipConstraint, Continue
<1>3. HasConstraint /\ (AtItem => Passes(Current)) /\ (~AtItem => Settled(Current, "holds"))
  <2>1. CASE SkipConstraint
    BY <2>1 DEF SkipConstraint, Passes
  <2>2. CASE Continue
    <3>1. answer = "holds"
      BY <2>2 DEF Continue
    <3>2. Replies(evaluating, answer)
      BY DEF VerdictInv
    <3>3. /\ evaluating[Len(evaluating)].at \in DOMAIN evaluating[Len(evaluating)].clause
          /\ Settled(Asked(evaluating, Len(evaluating)), "holds")
      BY <3>1, <3>2 DEF Replies
    <3>4. Settled(Current, "holds")
      BY <3>3 DEF Current, Evaluated, Asked
    <3>5. HasConstraint
      <4>1. Len(evaluating) \in 1..Len(evaluating)
        BY <1>1, FrameFacts
      <4>2. evaluating[Len(evaluating)].clause \in Seq(Clauses)
        BY <1>1, <4>1, FrameFacts
      <4> QED
        BY <3>3, <4>2 DEF HasConstraint, Evaluated
    <3> QED
      BY <3>4, <3>5 DEF Passes
  <2> QED
    BY <2>1, <2>2
<1>4. ChecksOf(name, evaluating') /\ Nesting(evaluating')
  BY <1>1, <1>2, <1>3, MovedOn
<1>5. Len(evaluating') = Len(evaluating)
      /\ \A i \in 1..Len(evaluating) : evaluating'[i].inst = evaluating[i].inst
  BY <1>1, <1>2, MovedShape
<1>6. Remembers(evaluating, satisfied, answer)
  BY DEF VerdictInv
<1>7. Remembers(evaluating', satisfied', answer')
  <2>1. CASE Len(evaluating) = 1
    <3>1. satisfied' = {}
      <4>1. CASE SkipConstraint
        <5>1. answer = "none" /\ satisfied' = satisfied
          BY <4>1 DEF SkipConstraint
        <5> QED
          BY <1>6, <2>1, <5>1 DEF Remembers
      <4>2. CASE Continue
        BY <2>1, <4>2 DEF Continue, AtItem
      <4> QED
        BY <4>1, <4>2
    <3> QED
      BY <1>5, <2>1, <3>1 DEF Remembers
  <2>2. CASE Len(evaluating) # 1
    <3>1. satisfied' = satisfied
      BY <2>2 DEF SkipConstraint, Continue, AtItem
    <3>2. Len(evaluating) \in Nat \ {0}
      BY <1>1, FrameFacts
    <3>3. \A n \in Nat \ {0} : n # 1 => n > 1 /\ \A i \in 2..n : i \in 1..n
      OBVIOUS
    <3>4. Len(evaluating) > 1 /\ \A i \in 2..Len(evaluating) : i \in 1..Len(evaluating)
      BY <2>2, <3>2, <3>3
    <3>5. PICK primitive \in Primitives : Apart(primitive, evaluating, satisfied)
      BY <1>6, <3>4 DEF Remembers
    <3>6. Apart(primitive, evaluating', satisfied')
      BY <1>5, <3>1, <3>4, <3>5 DEF Apart
    <3> QED
      BY <1>5, <2>2, <3>6 DEF Remembers
  <2> QED
    BY <2>1, <2>2
<1>8. Replies(evaluating', answer')
  BY <1>2 DEF Replies
<1> QED
  BY <1>2, <1>4, <1>7, <1>8, VerdictOn

(* Entering a where clause. *)
LEMMA VerdictEvaluate ==
  ASSUME VerdictInv, Unmixed(program), ConInv', Evaluate
  PROVE  VerdictInv'
<1> DEFINE name == program.order[checking]
           n == Len(evaluating)
<1>1. /\ ConInv /\ name \in DOMAIN program.decl /\ program \in Programs
      /\ ChecksOf(name, evaluating) /\ Nesting(evaluating)
  BY VerdictFacts
<1>2. /\ program' = program /\ checking' = checking /\ phase' = phase /\ reason' = reason
      /\ evaluating' = Append(evaluating, Evaluation(Current.of))
      /\ answer' = answer /\ answer = "none" /\ satisfied' = satisfied /\ Enforce
  BY DEF Evaluate, Enforce, Examine
<1>3. /\ ChecksOf(name, evaluating') /\ Nesting(evaluating')
      /\ Len(evaluating') = n + 1
      /\ \A i \in 1..n : evaluating'[i] = evaluating[i]
      /\ evaluating'[n + 1].inst = Current.of
      /\ Current.of \in Clausal
  BY <1>1, <1>2, EnteredClause
<1>4. n \in Nat \ {0}
  BY <1>1, FrameFacts
<1>5. HasConstraint /\ (AtItem => ~Skipped(Current))
  BY <1>2 DEF Enforce, Examine
<1>6. Remembers(evaluating, satisfied, answer)
  BY DEF VerdictInv
<1>7. \E primitive \in Primitives :
        Apart(primitive, evaluating, satisfied) /\ Current.of \in Without(primitive)
  <2>1. CASE n = 1
    <3>1. satisfied = {}
      BY <1>2, <1>6, <2>1 DEF Remembers
    <3>2. /\ Current.form # "unchecked" /\ Current = Asked(evaluating, n)
          /\ evaluating[n].at \in DOMAIN evaluating[n].clause
      BY <1>1, <1>5, CurrentDecidable
    <3>3. evaluating[1].clause = ItemChecks(name)
      BY <1>1 DEF ChecksOf
    <3>4. Current.of \in Seq(STRING)
      BY <1>3 DEF Clausal
    <3>5. /\ evaluating[1].at \in DOMAIN ItemChecks(name)
          /\ Current = ItemChecks(name)[evaluating[1].at]
      BY <2>1, <3>2, <3>3 DEF Asked
    <3>6. PICK primitive \in Primitives :
            NoClauseHas(primitive) /\ Current.of \in Without(primitive)
      <4> HIDE DEF name
      <4> QED
        BY <1>1, <3>2, <3>4, <3>5, CheckWithout
    <3>7. 2..n = {}
      BY <2>1
    <3>8. Apart(primitive, evaluating, satisfied)
      BY <3>1, <3>6, <3>7 DEF Apart
    <3> QED
      BY <3>6, <3>8
  <2>2. CASE n # 1
    <3>1. \A m \in Nat \ {0} : m # 1 => m > 1
      OBVIOUS
    <3>2. n > 1
      BY <1>4, <2>2, <3>1
    <3>3. PICK primitive \in Primitives : Apart(primitive, evaluating, satisfied)
      BY <1>6, <3>2 DEF Remembers
    <3>4. Current.of \in Without(primitive)
      <4> HIDE DEF name
      <4> QED
        BY <1>1, <1>5, <3>2, <3>3, CurrentWithout
    <3> QED
      BY <3>3, <3>4
  <2> QED
    BY <2>1, <2>2
<1>8. PICK primitive \in Primitives :
        Apart(primitive, evaluating, satisfied) /\ Current.of \in Without(primitive)
  BY <1>7
<1>9. ASSUME NEW i \in 2..(n + 1) PROVE evaluating'[i].inst \in Without(primitive)
  <2>1. CASE i = n + 1
    BY <1>3, <1>8, <2>1
  <2>2. CASE i # n + 1
    <3>1. i \in 2..n /\ i \in 1..n
      BY <1>4, <2>2
    <3> QED
      BY <1>3, <1>8, <3>1 DEF Apart
  <2> QED
    BY <2>1, <2>2
<1>10. Apart(primitive, evaluating', satisfied')
  BY <1>2, <1>3, <1>8, <1>9 DEF Apart
<1>11. Len(evaluating') # 1
  BY <1>3, <1>4
<1>12. Remembers(evaluating', satisfied', answer')
  BY <1>10, <1>11 DEF Remembers
<1>13. Replies(evaluating', answer')
  BY <1>2 DEF Replies
<1> QED
  BY <1>2, <1>3, <1>12, <1>13, VerdictOn

-----------------------------------------------------------------------------
(* The checks of an item, from the first. *)
Starting(name, frames) ==
  frames = <<[inst |-> <<name>>, clause |-> ItemChecks(name), at |-> 1]>>

(* What an item's checks start from. *)
LEMMA StartsChecks ==
  ASSUME NEW place
  PROVE  Starting(program.order[place], Checks(place))
BY DEF Starting, Checks

(* Nothing has been found out when they start. *)
LEMMA StartingFacts ==
  ASSUME program \in Programs, NEW name \in DOMAIN program.decl, NEW frames,
         Starting(name, frames)
  PROVE  /\ ChecksOf(name, frames) /\ Nesting(frames)
         /\ Remembers(frames, {}, "none") /\ Replies(frames, "none")
<1> DEFINE frame == [inst |-> <<name>>, clause |-> ItemChecks(name), at |-> 1]
<1>1. frames = <<frame>>
  BY DEF Starting
<1>2. frame.clause = ItemChecks(name) /\ frame.at = 1
  OBVIOUS
<1> HIDE DEF frame
<1>3. frames[1] = frame /\ Len(frames) = 1
  BY <1>1
<1>4. ItemChecks(name) \in Seq(Clauses)
  BY ItemChecksType DEF IsItem
<1>5. \A k \in DOMAIN ItemChecks(name) : ~(k < 1)
  BY <1>4
<1>6. ChecksOf(name, frames)
  BY <1>2, <1>3, <1>5 DEF ChecksOf
<1>7. Nesting(frames)
  <2>1. 2..1 = {}
    OBVIOUS
  <2> QED
    BY <1>3, <2>1 DEF Nesting
<1>8. Remembers(frames, {}, "none") /\ Replies(frames, "none")
  BY <1>3 DEF Remembers, Replies
<1> QED
  BY <1>6, <1>7, <1>8

(* A where clause is met, or one of its constraints fails: the constraint   *)
(* that asked for it has its answer.                                        *)
LEMMA VerdictReturned ==
  ASSUME VerdictInv, ConInv', Met \/ Unmet
  PROVE  VerdictInv'
<1> DEFINE name == program.order[checking]
           n == Len(evaluating)
<1>1. /\ ConInv /\ name \in DOMAIN program.decl /\ program \in Programs
      /\ ChecksOf(name, evaluating) /\ Nesting(evaluating)
  BY VerdictFacts
<1>2. /\ ~AtItem /\ program' = program /\ checking' = checking /\ phase' = phase
      /\ reason' = reason /\ evaluating' = Below
  BY DEF Met, Unmet
<1>3. /\ ChecksOf(name, Below) /\ Nesting(Below)
      /\ n > 1 /\ Len(Below) = n - 1
      /\ \A i \in 1..Len(Below) : i \in 1..n /\ Below[i] = evaluating[i]
      /\ Asking = Asked(evaluating, n - 1)
      /\ Asking = Asked(Below, Len(Below))
      /\ Below[Len(Below)].at \in DOMAIN Below[Len(Below)].clause
      /\ Len(Below) = 1 => ~Skipped(Asked(Below, 1))
  <2> HIDE DEF name
  <2> QED
    BY <1>1, <1>2, LeftClause
<1>4. n \in Nat \ {0} /\ n \in 1..n /\ evaluating[n] \in Evaluations
  BY <1>1, FrameFacts
<1>5. n \in 2..n
  BY <1>3, <1>4
<1>6. /\ evaluating[n].inst \in Clausal
      /\ evaluating[n].clause = WhereClause(evaluating[n].inst)
      /\ evaluating[n].inst = Asking.of
      /\ ~IsImmediate(Asking)
      /\ \E m \in Nat : Behind(evaluating[n], m)
  BY <1>1, <1>3, <1>5 DEF Nesting, IsNested
<1>7. Evaluated = evaluating[n]
  BY DEF Evaluated
<1>8. Remembers(evaluating, satisfied, answer) /\ Replies(evaluating, answer)
  BY DEF VerdictInv
<1>9. PICK primitive \in Primitives : Apart(primitive, evaluating, satisfied)
  BY <1>3, <1>8 DEF Remembers
<1>10. Met => Meets(Asking.of)
  <2> SUFFICES ASSUME Met PROVE Meets(Asking.of)
    OBVIOUS
  <2>1. ~(evaluating[n].at <= Len(evaluating[n].clause))
    BY <1>7 DEF Met, HasConstraint
  <2>2. Meets(evaluating[n].inst)
    BY <1>4, <1>6, <2>1, ClauseMet
  <2> QED
    BY <1>6, <2>2
<1>11. Unmet => Refuses(Asking.of)
  <2> SUFFICES ASSUME Unmet PROVE Refuses(Asking.of)
    OBVIOUS
  <2>1. answer = "fails" /\ answer # "none"
    BY DEF Unmet
  <2>2. /\ evaluating[n].at \in DOMAIN evaluating[n].clause
        /\ Settled(evaluating[n].clause[evaluating[n].at], "fails")
    BY <1>8, <2>1 DEF Replies, Asked
  <2>3. \A k \in DOMAIN evaluating[n].clause : Decidable(evaluating[n].clause[k])
    BY <1>1, <1>5, FrameFacts
  <2>4. Refuses(evaluating[n].inst)
    BY <1>1, <1>4, <1>6, <2>2, <2>3, ClauseFails
  <2> QED
    BY <1>6, <2>4
<1>12. Settled(Asking, answer')
  <2>1. CASE Met
    BY <1>6, <1>10, <2>1, MetAnswers DEF Met
  <2>2. CASE Unmet
    BY <1>6, <1>11, <2>2, UnmetAnswers DEF Unmet
  <2> QED
    BY <2>1, <2>2
<1>13. answer' # "none"
  <2>1. n - 1 \in 1..(n - 1)
    BY <1>3, <1>4
  <2>2. Asking.form \in {"decl", "call", "use"}
    BY <1>1, <1>3, <2>1 DEF ConInv, Asked
  <2>3. answer' = Judge(Asking, TRUE) \/ answer' = Judge(Asking, FALSE)
    BY DEF Met, Unmet
  <2> QED
    BY <2>2, <2>3 DEF Judge, Holds
<1>14. Remembers(evaluating', satisfied', answer')
  <2>1. \A i \in 2..(n - 1) : i \in 2..n /\ i \in 1..(n - 1)
    BY <1>4
  <2>2. \A i \in 2..Len(Below) : Below[i].inst \in Without(primitive)
    BY <1>3, <1>9, <2>1 DEF Apart
  <2>3. evaluating[n].inst \in Without(primitive)
    BY <1>5, <1>9 DEF Apart
  <2>4. \A key \in satisfied' : \E inst \in Clausal :
          inst \in Without(primitive) /\ Key(inst) = key /\ Meets(inst)
    <3> SUFFICES ASSUME NEW key \in satisfied'
                 PROVE  \E inst \in Clausal :
                          inst \in Without(primitive) /\ Key(inst) = key /\ Meets(inst)
      OBVIOUS
    <3>1. CASE key \in satisfied
      BY <1>9, <3>1 DEF Apart
    <3>2. CASE key \notin satisfied
      <4>1. Met /\ key = Key(evaluating[n].inst)
        BY <1>7, <3>2 DEF Met, Unmet
      <4> QED
        BY <1>6, <1>10, <2>3, <4>1
    <3> QED
      BY <3>1, <3>2
  <2>5. NoClauseHas(primitive)
    BY <1>9 DEF Apart
  <2>6. Apart(primitive, Below, satisfied')
    BY <2>2, <2>4, <2>5 DEF Apart
  <2> QED
    BY <1>2, <1>13, <2>6 DEF Remembers
<1>15. Replies(evaluating', answer')
  BY <1>2, <1>3, <1>12 DEF Replies
<1> QED
  BY <1>2, <1>3, <1>14, <1>15, VerdictOn

(* The outcome of a step that leaves the frames and the memory. *)
LEMMA VerdictKept ==
  ASSUME VerdictInv, ConInv', program' = program, UNCHANGED constraintVars, Decided'
  PROVE  VerdictInv'
<1>1. UNCHANGED <<checking, evaluating, satisfied, answer>>
  BY DEF constraintVars
<1> QED
  BY <1>1, VerdictNext DEF VerdictInv

(* A check that is refused decides the program. *)
LEMMA RefusedOver ==
  ASSUME program' = program, phase' = "refused", NEW name \in DOMAIN program.decl,
         NEW k \in DOMAIN ItemChecks(name), NEW check, check = ItemChecks(name)[k],
         ~Skipped(check)
  PROVE  /\ reason' = "constraint" /\ Settled(check, "fails") => Decided'
         /\ reason' = "constraint limit"
              /\ ComesOut(check, kMaxGenericInstantiationDepth, "too deep") => Decided'
<1>1. kMaxGenericInstantiationDepth \in Nat
  BY LimitAssumption
<1>2. /\ Settled(check, "fails")' = Settled(check, "fails")
      /\ ComesOut(check, kMaxGenericInstantiationDepth, "too deep")'
           = ComesOut(check, kMaxGenericInstantiationDepth, "too deep")
      /\ ItemChecks(name)' = ItemChecks(name)
  BY <1>1, VerdictStatic, OutcomeStatic
<1>3. Skipped(check)' = Skipped(check)
  BY DEF Skipped, DependsOnParameter
<1>4. ASSUME reason' = "constraint", Settled(check, "fails") PROVE Decided'
  <2>1. \E n \in DOMAIN program'.decl : \E j \in DOMAIN ItemChecks(n)' :
          ~Skipped(ItemChecks(n)[j])' /\ Settled(ItemChecks(n)[j], "fails")'
    BY <1>2, <1>3, <1>4
  <2>2. reason' # "constraint limit" /\ phase' \notin {"lowering", "done"}
    BY <1>4
  <2> QED
    BY <2>1, <2>2 DEF Decided
<1>5. ASSUME reason' = "constraint limit",
             ComesOut(check, kMaxGenericInstantiationDepth, "too deep")
      PROVE  Decided'
  <2>1. \E n \in DOMAIN program'.decl : \E j \in DOMAIN ItemChecks(n)' :
          /\ ~Skipped(ItemChecks(n)[j])'
          /\ ComesOut(ItemChecks(n)[j], kMaxGenericInstantiationDepth, "too deep")'
    BY <1>2, <1>3, <1>5
  <2>2. reason' # "constraint" /\ phase' \notin {"lowering", "done"}
    BY <1>5
  <2> QED
    BY <2>1, <2>2 DEF Decided
<1> QED
  BY <1>4, <1>5

(* The frames and the limit: a program is refused over a check too deep.    *)
LEMMA VerdictUnbounded ==
  ASSUME VerdictInv, ConInv', Unbounded
  PROVE  VerdictInv'
<1> DEFINE name == program.order[checking]
           check == Asked(evaluating, 1)
<1>1. /\ ConInv /\ name \in DOMAIN program.decl
      /\ ChecksOf(name, evaluating) /\ Nesting(evaluating)
  BY VerdictFacts
<1>2. /\ program' = program /\ UNCHANGED constraintVars
      /\ phase' = "refused" /\ reason' = "constraint limit"
  BY DEF Unbounded, Refuse
<1>3. Remembers(evaluating, satisfied, answer)
  BY DEF VerdictInv
<1>4. /\ Len(evaluating) > 1
      /\ ComesOut(check, kMaxGenericInstantiationDepth, "too deep")
  <2>1. Len(evaluating) > 1 =>
          \E primitive \in Primitives : Apart(primitive, evaluating, satisfied)
    BY <1>3 DEF Remembers
  <2>2. Enforce /\ (Key(Current.of) \in ActiveKeys \/ TooDeep)
    BY DEF Unbounded
  <2> HIDE DEF name
  <2> QED
    BY <1>1, <2>1, <2>2, GivenUp
<1>5. evaluating[1].at \in DOMAIN ItemChecks(name) /\ check = ItemChecks(name)[evaluating[1].at]
  <2>1. 1 \in 1..(Len(evaluating) - 1)
    <3>1. Len(evaluating) \in Nat
      BY <1>1, FrameFacts
    <3>2. \A n \in Nat : n > 1 => 1 \in 1..(n - 1)
      OBVIOUS
    <3> QED
      BY <1>4, <3>1, <3>2
  <2>2. evaluating[1].at \in DOMAIN evaluating[1].clause
    BY <1>1, <2>1, FrameFacts
  <2> QED
    BY <1>1, <2>2 DEF ChecksOf, Asked
<1>6. ~Skipped(check)
  BY <1>1, <1>4 DEF ChecksOf
<1>7. Decided'
  <2> HIDE DEF name, check
  <2> QED
    BY <1>1, <1>2, <1>4, <1>5, <1>6, RefusedOver
<1> QED
  BY <1>2, <1>7, VerdictKept

(* A program is refused over a check that fails. *)
LEMMA VerdictRefused ==
  ASSUME VerdictInv, ConInv', RefuseConstraint
  PROVE  VerdictInv'
<1> DEFINE name == program.order[checking]
           check == Asked(evaluating, 1)
<1>1. /\ ConInv /\ name \in DOMAIN program.decl
      /\ ChecksOf(name, evaluating) /\ Nesting(evaluating)
  BY VerdictFacts
<1>2. /\ program' = program /\ UNCHANGED constraintVars /\ answer = "fails"
      /\ phase' = "refused" /\ reason' = "constraint" /\ Len(evaluating) = 1
  BY DEF RefuseConstraint, Refuse, AtItem
<1>3. Replies(evaluating, answer)
  BY DEF VerdictInv
<1>4. /\ evaluating[1].at \in DOMAIN ItemChecks(name)
      /\ check = ItemChecks(name)[evaluating[1].at]
      /\ ~Skipped(check) /\ Settled(check, "fails")
  BY <1>1, <1>2, <1>3 DEF Replies, ChecksOf, Asked
<1>5. Decided'
  <2> HIDE DEF name, check
  <2> QED
    BY <1>1, <1>2, <1>4, RefusedOver
<1> QED
  BY <1>2, <1>5, VerdictKept

(* All checks of the item have been made, and passed. *)
LEMMA ItemPasses ==
  ASSUME VerdictInv, AtItem, ~HasConstraint
  PROVE  AllPass(program.order[checking])
<1> DEFINE name == program.order[checking]
<1>1. ConInv /\ name \in DOMAIN program.decl /\ ChecksOf(name, evaluating) /\ Nesting(evaluating)
  BY VerdictFacts
<1>2. Len(evaluating) = 1 /\ Evaluated = evaluating[1]
  BY DEF AtItem, Evaluated
<1>3. evaluating[1].clause = ItemChecks(name)
  BY <1>1 DEF ChecksOf
<1>4. evaluating[1].clause \in Seq(Clauses) /\ evaluating[1].at \in Nat
  BY <1>1, <1>2, FrameFacts
<1>5. ~(evaluating[1].at <= Len(evaluating[1].clause))
  BY <1>2 DEF HasConstraint
<1>6. ASSUME NEW k \in DOMAIN ItemChecks(name) PROVE k < evaluating[1].at
  BY <1>3, <1>4, <1>5
<1> QED
  BY <1>1, <1>6 DEF ChecksOf, AllPass

(* The checks of the next item start with nothing remembered. *)
LEMMA VerdictNextItem ==
  ASSUME VerdictInv, ConInv', NextItem
  PROVE  VerdictInv'
<1>1. /\ program' = program /\ checking' = checking + 1 /\ phase' = phase /\ reason' = reason
      /\ evaluating' = Checks(checking + 1) /\ satisfied' = satisfied /\ answer' = answer
      /\ answer = "none" /\ Len(evaluating) = 1 /\ checking < Len(program.order)
  BY DEF NextItem, AtItem
<1>2. program \in Programs /\ checking \in DOMAIN program.order
  BY VerdictFacts
<1>3. program.order \in Seq(DOMAIN program.decl)
  BY <1>2, ProgramFacts
<1>4. checking \in Nat /\ checking + 1 \in DOMAIN program.order
  BY <1>1, <1>2, <1>3
<1>5. Starting(program.order[checking + 1], Checks(checking + 1))
  BY StartsChecks
<1>6. satisfied = {}
  BY <1>1 DEF VerdictInv, Remembers
<1>7. \A place \in 1..(checking' - 1) : AllPass(program.order[place])
  <2> SUFFICES ASSUME NEW place \in 1..(checking' - 1) PROVE AllPass(program.order[place])
    OBVIOUS
  <2>1. place = checking \/ place \in 1..(checking - 1)
    BY <1>1, <1>4
  <2>2. AllPass(program.order[checking])
    BY ItemPasses DEF NextItem
  <2> QED
    BY <2>1, <2>2 DEF VerdictInv
<1>8. Decided'
  BY <1>1, DecidedKept DEF VerdictInv
<1>9. /\ ChecksOf(program.order[checking'], evaluating') /\ Nesting(evaluating')
      /\ Remembers(evaluating', satisfied', answer') /\ Replies(evaluating', answer')
  <2>1. program.order[checking + 1] \in DOMAIN program.decl
    BY <1>3, <1>4
  <2> QED
    BY <1>1, <1>2, <1>5, <1>6, <2>1, StartingFacts
<1> QED
  BY <1>1, <1>7, <1>8, <1>9, VerdictNext

(* All items have been checked. *)
LEMMA VerdictChecked ==
  ASSUME VerdictInv, ConInv', ConstraintsChecked
  PROVE  VerdictInv'
<1>1. /\ program' = program /\ UNCHANGED constraintVars /\ phase' = "lowering"
      /\ reason' = reason /\ AtItem /\ ~HasConstraint /\ checking = Len(program.order)
  BY DEF ConstraintsChecked
<1>2. program \in Programs /\ checking \in DOMAIN program.order
  BY VerdictFacts
<1>3. program.order \in Seq(DOMAIN program.decl)
  BY <1>2, ProgramFacts
<1>4. ASSUME NEW name \in DOMAIN program.decl PROVE AllPass(name)
  <2>1. PICK place \in DOMAIN program.order : program.order[place] = name
    BY <1>2, ProgramAssumption DEF IsProgram
  <2>2. place = checking \/ place \in 1..(checking - 1)
    BY <1>1, <1>3
  <2>3. AllPass(program.order[checking])
    BY <1>1, ItemPasses
  <2> QED
    BY <2>1, <2>2, <2>3 DEF VerdictInv
<1>5. Decided'
  <2>1. \A name : AllPass(name)' = AllPass(name)
    BY <1>1, VerdictStatic
  <2>2. phase' \in {"lowering", "done"} => \A name \in DOMAIN program'.decl : AllPass(name)'
    BY <1>1, <1>4, <2>1
  <2>3. Decided
    BY DEF VerdictInv
  <2>4. ASSUME NEW why PROVE (reason = why)' <=> reason = why
    BY <1>1
  <2>5. /\ \A name : ItemChecks(name)' = ItemChecks(name)
        /\ \A constraint, verdict : Settled(constraint, verdict)' = Settled(constraint, verdict)
        /\ \A constraint : \A m \in Nat : \A verdict :
             ComesOut(constraint, m, verdict)' = ComesOut(constraint, m, verdict)
    BY <1>1, VerdictStatic, OutcomeStatic
  <2>6. kMaxGenericInstantiationDepth \in Nat
    BY LimitAssumption
  <2>7. reason' = "constraint" =>
          \E name \in DOMAIN program'.decl : \E k \in DOMAIN ItemChecks(name)' :
            ~Skipped(ItemChecks(name)[k])' /\ Settled(ItemChecks(name)[k], "fails")'
    BY <1>1, <2>3, <2>5 DEF Decided, Skipped, DependsOnParameter
  <2>8. reason' = "constraint limit" =>
          \E name \in DOMAIN program'.decl : \E k \in DOMAIN ItemChecks(name)' :
            /\ ~Skipped(ItemChecks(name)[k])'
            /\ ComesOut(ItemChecks(name)[k], kMaxGenericInstantiationDepth, "too deep")'
    BY <1>1, <2>3, <2>5, <2>6 DEF Decided, Skipped, DependsOnParameter
  <2> QED
    BY <2>2, <2>7, <2>8 DEF Decided
<1> QED
  BY <1>1, <1>5, VerdictKept

-----------------------------------------------------------------------------
(* All passes.                                                              *)

(* What the keys leave out makes no difference to any program, and clauses  *)
(* are evaluated however deep they nest.                                    *)
Unambiguous == \A p \in Programs : Unmixed(p)
AnyDepth == Nat \subseteq Depths

(* Every step of the evaluator keeps what has been found out. *)
LEMMA VerdictSteps ==
  ASSUME Unambiguous, VerdictInv, ConstraintNext
  PROVE  VerdictInv'
<1>1. ConInv /\ program \in Programs
  BY VerdictFacts
<1>2. ConInv' /\ Unmixed(program)
  BY <1>1, ConSteps DEF Unambiguous
<1> QED
  BY <1>2, VerdictMoved, VerdictDecide, VerdictUnbounded, VerdictEvaluate, VerdictReturned,
     VerdictRefused, VerdictNextItem, VerdictChecked DEF ConstraintNext

(* The other passes leave it. *)
LEMMA VerdictElsewhere ==
  ASSUME VerdictInv, program' = program, UNCHANGED constraintVars,
         reason' \notin {"constraint", "constraint limit"} \/ reason' = reason,
         phase' \in {"lowering", "done"} => phase \in {"lowering", "done"}
  PROVE  VerdictInv'
<1>1. ConInv /\ Decided
  BY DEF VerdictInv
<1>2. UNCHANGED <<checking, evaluating, answer>>
  BY DEF constraintVars
<1>3. ConInv'
  BY <1>1, <1>2, ConAnswered DEF ConInv
<1>4. Decided'
  BY <1>1, DecidedKept
<1> QED
  BY <1>3, <1>4, VerdictKept

(* Every step of the compiler keeps what has been found out. *)
LEMMA VerdictInvKept ==
  ASSUME Unambiguous
  PROVE  VerdictInv /\ [Next]_vars => VerdictInv'
<1> SUFFICES ASSUME VerdictInv, [Next]_vars PROVE VerdictInv'
  OBVIOUS
<1>1. CASE TypeNext /\ UNCHANGED <<constraintVars, monoVars>>
  <2>1. /\ program' = program
        /\ \/ phase' = "refused" /\ reason' \in {"type cycle", "type limit"}
           \/ phase' \in {"types", "constraints"} /\ reason' = reason
    BY <1>1 DEF TypeNext, PassOver, RefuseCycle, RefuseExpansion, Expand, Expanded,
                TypesChecked, MustExpand, Refuse
  <2> QED
    BY <1>1, <2>1, VerdictElsewhere
<1>2. CASE ConstraintNext
  BY <1>2, VerdictSteps
<1>3. CASE MonoNext /\ UNCHANGED <<typeVars, constraintVars>>
  <2>1. /\ program' = program /\ phase = "lowering"
        /\ reason' = reason \/ reason' = "lowering limit"
    BY <1>3 DEF MonoNext, SkipItem, EmitItem, Keep, Reuse, RefuseInstantiation, Instantiate,
                Emit, Lowered, Ensure, Refuse
  <2> QED
    BY <1>3, <2>1, VerdictElsewhere
<1>4. CASE UNCHANGED vars
  <2>1. /\ program' = program /\ phase' = phase /\ reason' = reason
        /\ UNCHANGED constraintVars
    BY <1>4 DEF vars
  <2> QED
    BY <2>1, VerdictElsewhere
<1> QED
  BY <1>1, <1>2, <1>3, <1>4 DEF Next, Stopped

(* Nothing has been found out when the compiler starts. *)
LEMMA VerdictInitially ==
  Init => VerdictInv
<1> SUFFICES ASSUME Init PROVE VerdictInv
  OBVIOUS
<1>1. /\ program \in Programs /\ checking = 1 /\ evaluating = Checks(1) /\ satisfied = {}
      /\ answer = "none" /\ phase = "types" /\ reason = "none"
  BY DEF Init, ConstraintInit
<1>2. program.order[1] \in DOMAIN program.decl
  <2>1. program.order \in Seq(DOMAIN program.decl) /\ program.order # <<>>
    BY <1>1, ProgramFacts
  <2> QED
    BY <2>1
<1>3. Starting(program.order[1], Checks(1))
  BY StartsChecks
<1>4. /\ ChecksOf(program.order[1], Checks(1)) /\ Nesting(Checks(1))
      /\ Remembers(Checks(1), {}, "none") /\ Replies(Checks(1), "none")
  BY <1>1, <1>2, <1>3, StartingFacts
<1>5. Decided
  BY <1>1 DEF Decided
<1>6. \A place \in 1..(checking - 1) : AllPass(program.order[place])
  <2>1. 1..(checking - 1) = {}
    BY <1>1
  <2> QED
    BY <2>1
<1>7. ConInv
  BY ConInitially
<1> QED
  BY <1>1, <1>4, <1>5, <1>6, <1>7 DEF VerdictInv

-----------------------------------------------------------------------------
(* Theorems.                                                                *)

(* ConstraintEvalState::satisfied_keys records a key when the where clause  *)
(* of an instance is met, and never for one that is not: whatever failed in *)
(* the meantime, was probed, or was still under evaluation.                 *)
THEOREM RememberedAreMet ==
  ASSUME Unambiguous, AnyDepth
  PROVE  Spec => []RememberedHold
<1>1. VerdictInv => RememberedHold
  <2> SUFFICES ASSUME VerdictInv, NEW key \in satisfied
               PROVE  \E inst \in Named(key), depth \in Depths : Outcome[depth][inst] = "holds"
    BY DEF RememberedHold
  <2>1. PICK primitive \in Primitives : Apart(primitive, evaluating, satisfied)
    BY DEF VerdictInv, Remembers
  <2>2. PICK inst \in Clausal :
          inst \in Without(primitive) /\ Key(inst) = key /\ Meets(inst)
    BY <2>1 DEF Apart
  <2>3. inst \in Named(key)
    BY <2>2, KeyStandsFor
  <2>4. PICK n \in Nat : Outcome[n][inst] = "holds"
    BY <2>2 DEF Meets
  <2> QED
    BY <2>3, <2>4 DEF AnyDepth
<1> QED
  BY <1>1, VerdictInitially, VerdictInvKept, PTL DEF Spec

(* Items are in the order of their declarations, and so are their checks. *)
LEMMA AllChecksMade ==
  ASSUME program \in Programs, NEW check
  PROVE  check \in AllChecks <=>
           \E name \in DOMAIN program.decl : \E k \in DOMAIN ItemChecks(name) :
             check = ItemChecks(name)[k]
<1>1. program.order \in Seq(DOMAIN program.decl)
  BY ProgramFacts
<1>2. \A k \in DOMAIN program.order : program.order[k] \in DOMAIN program.decl
  BY <1>1
<1>3. \A name \in DOMAIN program.decl : \E k \in DOMAIN program.order : program.order[k] = name
  BY ProgramAssumption DEF IsProgram
<1>4. check \in AllChecks <=>
        \E k \in DOMAIN program.order : check \in Occurs(ItemChecks(program.order[k]))
  BY DEF AllChecks
<1>5. ASSUME NEW name
      PROVE  check \in Occurs(ItemChecks(name)) <=>
               \E k \in DOMAIN ItemChecks(name) : check = ItemChecks(name)[k]
  BY DEF Occurs
<1>6. check \in AllChecks <=>
        \E name \in DOMAIN program.decl : check \in Occurs(ItemChecks(name))
  BY <1>2, <1>3, <1>4
<1> QED
  BY <1>5, <1>6

(* validate_program_constraints accepts a program whose checks all hold     *)
(* when evaluated afresh, and refuses one only over a check that fails, or  *)
(* that nests its where clauses past the limit.                             *)
THEOREM VerdictsAreRight ==
  ASSUME Unambiguous, AnyDepth
  PROVE  Spec => []ConstraintVerdictIsRight
<1>1. VerdictInv => ConstraintVerdictIsRight
  <2> SUFFICES ASSUME VerdictInv PROVE ConstraintVerdictIsRight
    OBVIOUS
  <2>1. program \in Programs /\ Decided
    BY VerdictFacts DEF VerdictInv
  <2>2. ASSUME NEW check, NEW verdict, NEW n \in Nat, ComesOut(check, n, verdict), ~Skipped(check)
        PROVE  CheckOutcome(check, n) = verdict
    BY <2>2 DEF CheckOutcome, ComesOut
  <2>3. ASSUME phase \in {"lowering", "done"}, NEW check \in AllChecks
        PROVE  \E depth \in Depths : CheckOutcome(check, depth) = "holds"
    <3>1. PICK name \in DOMAIN program.decl : \E k \in DOMAIN ItemChecks(name) :
            check = ItemChecks(name)[k]
      BY <2>1, AllChecksMade
    <3>2. Passes(check)
      BY <2>1, <2>3, <3>1 DEF Decided, AllPass
    <3>3. CASE Skipped(check)
      <4>1. CheckOutcome(check, 0) = "holds" /\ 0 \in Nat
        BY <3>3 DEF CheckOutcome
      <4> QED
        BY <4>1 DEF AnyDepth
    <3>4. CASE ~Skipped(check)
      <4>1. PICK n \in Nat : ComesOut(check, n, "holds")
        BY <3>2, <3>4 DEF Passes, Settled
      <4>2. CheckOutcome(check, n) = "holds"
        BY <2>2, <3>4, <4>1
      <4> QED
        BY <4>2 DEF AnyDepth
    <3> QED
      BY <3>3, <3>4
  <2>4. ASSUME reason = "constraint"
        PROVE  \E check \in AllChecks, depth \in Depths : CheckOutcome(check, depth) = "fails"
    <3>1. PICK name \in DOMAIN program.decl : \E k \in DOMAIN ItemChecks(name) :
            ~Skipped(ItemChecks(name)[k]) /\ Settled(ItemChecks(name)[k], "fails")
      BY <2>1, <2>4 DEF Decided
    <3>2. PICK k \in DOMAIN ItemChecks(name) :
            ~Skipped(ItemChecks(name)[k]) /\ Settled(ItemChecks(name)[k], "fails")
      BY <3>1
    <3>3. PICK n \in Nat : ComesOut(ItemChecks(name)[k], n, "fails")
      BY <3>2 DEF Settled
    <3>4. CheckOutcome(ItemChecks(name)[k], n) = "fails"
      BY <2>2, <3>2, <3>3
    <3>5. ItemChecks(name)[k] \in AllChecks
      BY <2>1, AllChecksMade
    <3> QED
      BY <3>4, <3>5 DEF AnyDepth
  <2>5. ASSUME reason = "constraint limit"
        PROVE  \E check \in AllChecks :
                 CheckOutcome(check, kMaxGenericInstantiationDepth) = "too deep"
    <3>1. PICK name \in DOMAIN program.decl : \E k \in DOMAIN ItemChecks(name) :
            /\ ~Skipped(ItemChecks(name)[k])
            /\ ComesOut(ItemChecks(name)[k], kMaxGenericInstantiationDepth, "too deep")
      BY <2>1, <2>5 DEF Decided
    <3>2. PICK k \in DOMAIN ItemChecks(name) :
            /\ ~Skipped(ItemChecks(name)[k])
            /\ ComesOut(ItemChecks(name)[k], kMaxGenericInstantiationDepth, "too deep")
      BY <3>1
    <3>3. kMaxGenericInstantiationDepth \in Nat
      BY LimitAssumption
    <3>4. CheckOutcome(ItemChecks(name)[k], kMaxGenericInstantiationDepth) = "too deep"
      BY <2>2, <3>2, <3>3
    <3>5. ItemChecks(name)[k] \in AllChecks
      BY <2>1, AllChecksMade
    <3> QED
      BY <3>4, <3>5
  <2> QED
    BY <2>3, <2>4, <2>5 DEF ConstraintVerdictIsRight
<1> QED
  BY <1>1, VerdictInitially, VerdictInvKept, PTL DEF Spec

(* A call in the body of an item is among the checks of the item. *)
LEMMA UseIsChecked ==
  ASSUME program \in Programs, NEW name \in DOMAIN program.decl,
         NEW k \in DOMAIN Item(name).uses, Item(name).uses[k].op \in {"call", "init"}
  PROVE  \E j \in DOMAIN ItemChecks(name) :
           ItemChecks(name)[j] = Constraint("use", Item(name).uses[k].of, FALSE)
<1> DEFINE where == Item(name).where
           uses == Item(name).uses
           checks == [j \in DOMAIN uses |-> UseConstraint(uses[j])]
           S == {UseConstraint(uses[j]) : j \in DOMAIN uses}
<1>1. where \in Seq(Written) /\ uses \in Seq([op : UseOps, of : Seq(STRING)])
  BY ClauseFacts
<1>2. ItemChecks(name) = where \o checks
  BY DEF ItemChecks
<1>3. UseConstraint(uses[k]) = Constraint("use", uses[k].of, FALSE)
  BY DEF UseConstraint
<1>4. checks[k] = UseConstraint(uses[k]) /\ DOMAIN checks = DOMAIN uses
  OBVIOUS
<1>5. checks \in [DOMAIN uses -> S]
  OBVIOUS
<1>6. k \in DOMAIN uses
  OBVIOUS
<1> HIDE DEF where, uses, S
<1>7. checks \in Seq(S) /\ Len(checks) = Len(uses)
  BY <1>1, <1>5, MapIsSeq
<1> HIDE DEF checks
<1>8. /\ Len(where) \in Nat /\ k \in 1..Len(checks) /\ Len(checks) \in Nat
  BY <1>1, <1>6, <1>7
<1>9. where \o checks \in Seq(Written \union S)
      /\ Len(where \o checks) = Len(where) + Len(checks)
      /\ (where \o checks)[Len(where) + k] = checks[k]
  <2>1. where \in Seq(Written \union S) /\ checks \in Seq(Written \union S)
    BY <1>1, <1>7, SeqMonotonic
  <2>2. Len(where) + k > Len(where) /\ Len(where) + k \in 1..(Len(where) + Len(checks))
        /\ (Len(where) + k) - Len(where) = k
    BY <1>8
  <2> QED
    BY <2>1, <2>2, ConcatProperties
<1>10. Len(where) + k \in DOMAIN (where \o checks)
  BY <1>8, <1>9
<1> QED
  BY <1>2, <1>3, <1>4, <1>9, <1>10 DEF uses

(* A call that passes its check has its where clause met. *)
LEMMA UseIsMet ==
  ASSUME NEW type, Passes(Constraint("use", type, FALSE)), ~DependsOnParameter(type)
  PROVE  Meets(type)
<1> DEFINE check == Constraint("use", type, FALSE)
<1>1. check.form = "use" /\ check.of = type
  BY DEF Constraint
<1> HIDE DEF check
<1>2. ~Skipped(check) /\ ~IsImmediate(check)
  BY <1>1 DEF Skipped, IsImmediate, IsRuntimeOnly
<1>3. PICK n \in Nat : ComesOut(check, n, "holds")
  BY <1>2 DEF Passes, Settled, check
<1>4. JudgeOutcome(check, Outcome[n][type]) = "holds"
  BY <1>1, <1>2, <1>3 DEF ComesOut, OutcomeWith
<1>5. Outcome[n][type] = "holds"
  BY <1>1, <1>4 DEF JudgeOutcome, Judge, Holds
<1> QED
  BY <1>5 DEF Meets

(* An emitted item without parameters asks for what it calls, as it is. *)
LEMMA CallIsAsked ==
  ASSUME program \in Programs, NEW inst, IsItem(inst[1]), ~IsGeneric(inst[1]),
         NEW k \in DOMAIN Item(inst[1]).uses, IsGeneric(Item(inst[1]).uses[k].of[1])
  PROVE  Key(Item(inst[1]).uses[k].of) \in Asks(inst)
<1> DEFINE name == inst[1]
           type == Item(name).uses[k].of
<1>1. name \in DOMAIN program.decl
  BY DEF IsItem
<1>2. /\ Item(name).uses \in Seq([op : UseOps, of : Seq(STRING)])
      /\ type \in Types /\ type[Len(type)] # "T"
  BY <1>1, ProgramFacts
<1>3. Item(name).kind = "fn"
  <2>1. Item(name).uses # <<>>
    BY <1>2
  <2>2. Item(name).kind # "fn" => Item(name).uses = <<>>
    BY <1>1, ProgramAssumption DEF IsProgram, Item
  <2> QED
    BY <2>1, <2>2
<1>4. Mentions(inst) = [j \in DOMAIN Item(name).uses |->
                          Key(apply_substitution(Item(name).uses[j].of, Tail(inst)))]
  BY <1>3 DEF Mentions
<1>5. k \in DOMAIN Mentions(inst) /\ Mentions(inst)[k] = Key(type)
  BY <1>2, <1>4 DEF apply_substitution
<1>6. IsItem(type[1])
  BY DEF IsGeneric
<1> HIDE DEF name, type
<1>7. Key(type)[1] = type[1] /\ Key(type) # <<>> /\ Key(type) \in Seq(Names)
  BY <1>2, <1>6, KeyHead, KeyType DEF Types
<1>8. 1 \in 1..Len(Key(type)) /\ PartOf(Key(type), 1) = Key(type)
  <2>1. \A s \in Seq(Names) : s # <<>> => 1 \in 1..Len(s) /\ SubSeq(s, 1, Len(s)) = s
    OBVIOUS
  <2> QED
    BY <1>7, <2>1 DEF PartOf
<1>9. IsGeneric(Key(type)[1])
  BY <1>7 DEF type, name
<1>10. Key(type) = PartOf(Mentions(inst)[k], 1) /\ 1 \in 1..Len(Mentions(inst)[k])
  BY <1>5, <1>8
<1>11. Key(type) \in Asks(inst)
  BY <1>5, <1>9, <1>10, AsksParts
<1> QED
  BY <1>11 DEF type, name

(* What an emitted item without parameters calls or initializes is emitted  *)
(* too, and its where clause is met: validate_constraints_in_block looked   *)
(* at every call that lower_program finds in it.                            *)
THEOREM EmittedCallsAreMet ==
  ASSUME Unambiguous, AnyDepth
  PROVE  Spec => []EmittedCallsMeetConstraints
<1>1. LowInv /\ VerdictInv /\ NoDanglingInstance => EmittedCallsMeetConstraints
  <2> SUFFICES ASSUME LowInv, VerdictInv, NoDanglingInstance, phase = "done",
                      NEW inst \in Occurs(emitted), ~IsGeneric(inst[1]),
                      NEW k \in DOMAIN Item(inst[1]).uses,
                      Item(inst[1]).uses[k].op \in {"call", "init"}
               PROVE  /\ IsGeneric(Item(inst[1]).uses[k].of[1]) =>
                           Key(Item(inst[1]).uses[k].of) \in Occurs(emitted)
                      /\ \E depth \in Depths :
                           Outcome[depth][Item(inst[1]).uses[k].of] = "holds"
    BY DEF EmittedCallsMeetConstraints
  <2> DEFINE name == inst[1]
             type == Item(name).uses[k].of
  <2>1. program \in Programs /\ Decided
    BY VerdictFacts DEF VerdictInv
  <2>2. IsItem(name)
    <3>1. emitted \in Seq(Instances)
      BY DEF LowInv, Inv
    <3> QED
      BY <3>1 DEF Occurs, Instances, IsInstance
  <2>3. name \in DOMAIN program.decl
    BY <2>2 DEF IsItem
  <2>4. IsGeneric(type[1]) => Key(type) \in Occurs(emitted)
    BY <2>1, <2>2, CallIsAsked DEF NoDanglingInstance
  <2>5. ~DependsOnParameter(type)
    BY <2>1, <2>3, ProgramFacts DEF DependsOnParameter
  <2>6. AllPass(name)
    BY <2>1, <2>3 DEF Decided
  <2>7. Passes(Constraint("use", type, FALSE))
    BY <2>1, <2>3, <2>6, UseIsChecked DEF AllPass
  <2>8. Meets(type)
    BY <2>5, <2>7, UseIsMet
  <2>9. \E depth \in Depths : Outcome[depth][type] = "holds"
    BY <2>8 DEF Meets, AnyDepth
  <2> QED
    BY <2>4, <2>9
<1>2. Init => LowInv /\ VerdictInv
  BY LowInitially, VerdictInitially
<1>3. LowInv /\ VerdictInv /\ [Next]_vars => (LowInv /\ VerdictInv)'
  BY LowInvKept, VerdictInvKept
<1> QED
  BY <1>1, <1>2, <1>3, NothingDangles, PTL DEF Spec
=============================================================================
