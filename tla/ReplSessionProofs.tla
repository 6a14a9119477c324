-------------------------- MODULE ReplSessionProofs --------------------------
(***************************************************************************)
(* Every property of an interactive session, for any fragments and names.  *)
(***************************************************************************)
EXTENDS ReplSession, SequenceTheorems, Induction

-----------------------------------------------------------------------------
(***************************************************************************)
(* The statements that are kept                                            *)
(***************************************************************************)

\* m lists a numbers of 1 .. b in their order.
Increasing(m, a, b) ==
    /\ m \in [1 .. a -> 1 .. b]
    /\ \A j, k \in 1 .. a : j < k => m[j] < m[k]

\* m says where the elements of b stand among the first n statements of s:
\* b has those with a name, all of them, in their order.
Selects(m, b, s, n) ==
    /\ Increasing(m, Len(b), n)
    /\ \A k \in 1 .. Len(b) : b[k] = s[m[k]] /\ Named(b[k])
    /\ \A j \in 1 .. n : Named(s[j]) => \E k \in 1 .. Len(b) : m[k] = j

\* h is what the loop of Kept has after each of the first n statements.
Loop(s, n, h) ==
    h = [k \in 0 .. n |->
            IF k = 0 THEN <<>>
            ELSE IF Named(s[k]) THEN Append(h[k - 1], s[k]) ELSE h[k - 1]]

\* One turn of the loop.
LEMMA SelectsNext ==
  ASSUME NEW s \in Seq(Stmt), NEW n \in Nat, n + 1 <= Len(s), NEW b \in Seq(Stmt),
         NEW m, Selects(m, b, s, n)
  PROVE  \E mm : Selects(mm, IF Named(s[n + 1]) THEN Append(b, s[n + 1]) ELSE b, s, n + 1)
<1>0. Len(b) \in Nat /\ s[n + 1] \in Stmt
  BY ElementOfSeq, LenProperties
<1>a. m \in [1 .. Len(b) -> 1 .. n] /\ \A j, k \in 1 .. Len(b) : j < k => m[j] < m[k]
  BY DEF Selects, Increasing
<1>1. CASE Named(s[n + 1])
  <2> DEFINE c == Append(b, s[n + 1])
             mm == [k \in 1 .. Len(b) + 1 |-> IF k = Len(b) + 1 THEN n + 1 ELSE m[k]]
  <2>1. /\ c \in Seq(Stmt) /\ Len(c) = Len(b) + 1
        /\ \A k \in 1 .. Len(b) : c[k] = b[k]
        /\ c[Len(b) + 1] = s[n + 1]
    BY <1>0, AppendProperties
  <2> HIDE DEF c
  <2>2. mm \in [1 .. Len(b) + 1 -> 1 .. n + 1]
    BY <1>0, <1>a
  <2>3. \A j, k \in 1 .. Len(b) + 1 : j < k => mm[j] < mm[k]
    <3> SUFFICES ASSUME NEW j \in 1 .. Len(b) + 1, NEW k \in 1 .. Len(b) + 1, j < k
                 PROVE  mm[j] < mm[k]
      OBVIOUS
    <3>1. j \in 1 .. Len(b) /\ mm[j] = m[j] /\ m[j] \in 1 .. n
      BY <1>0, <1>a
    <3>2. CASE k = Len(b) + 1
      BY <1>0, <3>1, <3>2
    <3>3. CASE k # Len(b) + 1
      <4>1. k \in 1 .. Len(b) /\ mm[k] = m[k]
        BY <1>0, <3>3
      <4> QED  BY <1>a, <3>1, <4>1
    <3> QED  BY <3>2, <3>3
  <2>4. Increasing(mm, Len(c), n + 1)
    BY <2>1, <2>2, <2>3 DEF Increasing
  <2>5. \A k \in 1 .. Len(c) : c[k] = s[mm[k]] /\ Named(c[k])
    <3> TAKE k \in 1 .. Len(c)
    <3>1. CASE k = Len(b) + 1
      BY <1>0, <1>1, <2>1, <3>1
    <3>2. CASE k # Len(b) + 1
      <4>1. k \in 1 .. Len(b) /\ mm[k] = m[k] /\ c[k] = b[k]
        BY <1>0, <2>1, <3>2
      <4> QED  BY <4>1 DEF Selects
    <3> QED  BY <3>1, <3>2
  <2>6. \A j \in 1 .. n + 1 : Named(s[j]) => \E k \in 1 .. Len(c) : mm[k] = j
    <3> TAKE j \in 1 .. n + 1
    <3>1. CASE j = n + 1
      <4>1. Len(b) + 1 \in 1 .. Len(c) /\ mm[Len(b) + 1] = j
        BY <1>0, <2>1, <3>1
      <4> QED  BY <4>1
    <3>2. CASE j # n + 1 /\ Named(s[j])
      <4>1. PICK k \in 1 .. Len(b) : m[k] = j
        BY <3>2 DEF Selects
      <4>2. k \in 1 .. Len(c) /\ mm[k] = j
        BY <1>0, <2>1, <4>1
      <4> QED  BY <4>2
    <3> QED  BY <3>1, <3>2
  <2> HIDE DEF mm
  <2>7. Selects(mm, c, s, n + 1)
    BY <2>4, <2>5, <2>6 DEF Selects
  <2> QED
    BY <1>1, <2>7 DEF c
<1>2. CASE ~Named(s[n + 1])
  <2>1. Increasing(m, Len(b), n + 1)
    BY <1>0, <1>a DEF Increasing
  <2>2. \A j \in 1 .. n + 1 : Named(s[j]) => \E k \in 1 .. Len(b) : m[k] = j
    BY <1>2 DEF Selects
  <2>3. Selects(m, b, s, n + 1)
    BY <2>1, <2>2 DEF Selects
  <2> QED
    BY <1>2, <2>3
<1> QED
  BY <1>1, <1>2

\* The recursive definition defines something.
LEMMA LoopExists ==
  ASSUME NEW s \in Seq(Stmt)
  PROVE  \E h : Loop(s, Len(s), h)
<1> DEFINE S == {n \in Nat : \E h : Loop(s, n, h)}
<1>1. 0 \in S
  <2> DEFINE h == [k \in 0 .. 0 |-> <<>>]
  <2>1. Loop(s, 0, h)
    BY DEF Loop
  <2> QED  BY <2>1
<1>2. ASSUME NEW n \in Nat, n \in S
      PROVE  n + 1 \in S
  <2>1. PICK h : Loop(s, n, h)
    BY <1>2
  <2> DEFINE g == [k \in 0 .. n + 1 |->
                     IF k = n + 1
                     THEN IF Named(s[k]) THEN Append(h[k - 1], s[k]) ELSE h[k - 1]
                     ELSE h[k]]
  <2>2. \A k \in 0 .. n + 1 : k # 0 => g[k - 1] = h[k - 1]
    OBVIOUS
  <2>3. \A k \in 0 .. n : h[k] = IF k = 0 THEN <<>>
                        ELSE IF Named(s[k]) THEN Append(h[k - 1], s[k]) ELSE h[k - 1]
    BY <2>1 DEF Loop
  <2>4. \A k \in 0 .. n + 1 : g[k] = IF k = 0 THEN <<>>
                        ELSE IF Named(s[k]) THEN Append(g[k - 1], s[k]) ELSE g[k - 1]
    BY <2>2, <2>3
  <2>5. g = [k \in 0 .. n + 1 |-> g[k]]
    OBVIOUS
  <2> HIDE DEF g
  <2>6. Loop(s, n + 1, g)
    BY <2>4, <2>5 DEF Loop
  <2> QED  BY <2>6
<1> HIDE DEF S
<1>3. Nat \subseteq S
  BY <1>1, <1>2, NatSetInduction
<1>4. Len(s) \in S
  BY <1>3, LenProperties
<1> QED
  BY <1>4 DEF S

\* What is kept of a body: its named statements, in their order.
LEMMA KeptSelects ==
  ASSUME NEW s \in Seq(Stmt)
  PROVE  Kept(s) \in Seq(Stmt) /\ \E m : Selects(m, Kept(s), s, Len(s))
<1> DEFINE kept == CHOOSE h : Loop(s, Len(s), h)
           S == {n \in Nat : n <= Len(s) =>
                   kept[n] \in Seq(Stmt) /\ \E m : Selects(m, kept[n], s, n)}
<1>0. Len(s) \in Nat
  BY LenProperties
<1>1. Kept(s) = kept[Len(s)]
  BY DEF Kept, Loop
<1>2. Loop(s, Len(s), kept)
  BY LoopExists
<1> HIDE DEF kept
<1>3. /\ kept[0] = <<>>
      /\ \A n \in Nat : n + 1 <= Len(s) =>
            kept[n + 1] = IF Named(s[n + 1]) THEN Append(kept[n], s[n + 1]) ELSE kept[n]
  <2>1. \A k \in 0 .. Len(s) : kept[k] = IF k = 0 THEN <<>>
                        ELSE IF Named(s[k]) THEN Append(kept[k - 1], s[k]) ELSE kept[k - 1]
    BY <1>2 DEF Loop
  <2>2. \A n \in Nat : n + 1 <= Len(s) => n + 1 \in 0 .. Len(s) /\ n + 1 # 0 /\ (n + 1) - 1 = n
    BY <1>0
  <2>3. 0 \in 0 .. Len(s)
    BY <1>0
  <2>4. kept[0] = <<>>
    BY <2>1, <2>3
  <2>5. ASSUME NEW n \in Nat, n + 1 <= Len(s)
        PROVE  kept[n + 1] = IF Named(s[n + 1]) THEN Append(kept[n], s[n + 1]) ELSE kept[n]
    BY <2>1, <2>2, <2>5
  <2> QED  BY <2>4, <2>5
<1>4. 0 \in S
  <2> DEFINE m == [k \in 1 .. 0 |-> 0]
  <2>1. <<>> \in Seq(Stmt) /\ Len(<<>>) = 0
    OBVIOUS
  <2>2. Selects(m, <<>>, s, 0)
    BY DEF Selects, Increasing
  <2> QED  BY <1>3, <2>1, <2>2
<1>5. ASSUME NEW n \in Nat, n \in S
      PROVE  n + 1 \in S
  <2> SUFFICES ASSUME n + 1 <= Len(s)
               PROVE  /\ kept[n + 1] \in Seq(Stmt)
                      /\ \E m : Selects(m, kept[n + 1], s, n + 1)
    OBVIOUS
  <2>1. kept[n] \in Seq(Stmt) /\ \E m : Selects(m, kept[n], s, n)
    BY <1>0, <1>5
  <2>2. PICK m : Selects(m, kept[n], s, n)
    BY <2>1
  <2>3. \E mm : Selects(mm, kept[n + 1], s, n + 1)
    BY <1>3, <2>1, <2>2, SelectsNext
  <2>4. s[n + 1] \in Stmt
    BY <1>0, ElementOfSeq
  <2>5. Append(kept[n], s[n + 1]) \in Seq(Stmt)
    BY <2>1, <2>4, AppendProperties
  <2>6. kept[n + 1] \in Seq(Stmt)
    BY <1>3, <2>1, <2>5
  <2> QED  BY <2>3, <2>6
<1> HIDE DEF S
<1>6. Nat \subseteq S
  BY <1>4, <1>5, NatSetInduction
<1>7. Len(s) \in S
  BY <1>0, <1>6
<1> QED
  BY <1>0, <1>1, <1>7 DEF S

-----------------------------------------------------------------------------
(***************************************************************************)
(* The invariant: what a turn has reached at each of its stages            *)
(***************************************************************************)

\* What turn holds.
TurnSet ==
    [fragment : Fragments \cup {[kind |-> "empty"]},
     from : [items : Seq(Item), lets : Seq(Stmt)],
     ran : Program \cup {NoProgram}, reached : Nat,
     status : Statuses, changed : BOOLEAN, executed : BOOLEAN]

\* The turn has changed nothing.
Same == [items |-> items, lets |-> lets] = turn.from

\* Between two stages submit has said nothing and kept nothing.
Pending ==
    stage \notin {"ready", "closed"} =>
        /\ turn.status = "none" /\ turn.changed = FALSE /\ Same
        /\ turn.fragment \in Fragments

\* What each stage knows of the program of the turn from the stages before.
Accepted ==
    /\ stage \in {"lowering", "building", "running", "committing"} =>
           /\ turn.fragment.kind \in {"items", "body"}
           /\ lower_and_fold_program(Candidate)
    /\ stage \in {"lowering", "building", "running"} => turn.fragment.kind = "body"
    /\ stage \in {"building", "running"} => lower_program(Candidate)
    /\ stage = "running" => exe = Candidate /\ Links(Candidate)

\* Only a body is executed, only by its own executable, and it is committed
\* only after it came to the end.
Ran ==
    /\ stage = "committing" /\ turn.fragment.kind = "body" =>
           /\ turn.executed /\ turn.ran = Candidate
           /\ lower_program(Candidate) /\ Links(Candidate)
           /\ [at |-> turn.reached, how |-> "returns"] \in Ends(Candidate)
    /\ turn.executed =>
           turn.ran = build_program_source(turn.from.items, turn.from.lets, turn.fragment.stmts)
    /\ turn.executed /\ stage \notin {"ready", "closed"} =>
           stage = "committing" /\ turn.fragment.kind = "body"

IInv ==
    /\ TypeOK /\ turn \in TurnSet
    /\ Pending /\ Accepted /\ Ran
    /\ RefusedLeavesNoTrace /\ ReportsChange /\ ChangeIsSaved
    /\ PersistedResolves


-----------------------------------------------------------------------------
(***************************************************************************)
(* Programs and turns                                                      *)
(***************************************************************************)

\* build_program_source gives a program.
LEMMA BuildTyping ==
  ASSUME NEW is \in Seq(Item), NEW ls \in Seq(Stmt), NEW ss \in Seq(Stmt)
  PROVE  build_program_source(is, ls, ss) \in Program
  BY ConcatProperties DEF build_program_source, Program

\* A fragment of items or of statements has some.
LEMMA FragmentTyping ==
  ASSUME NEW f \in Fragments
  PROVE  /\ f.kind = "items" => f.items \in Seq(Item) /\ f.items # <<>>
         /\ f.kind = "body" => f.stmts \in Seq(Stmt) /\ f.stmts # <<>>
  BY FragmentsAssumption DEF IsFragment

\* The fields of a turn.
LEMMA TurnTyping ==
  ASSUME turn \in TurnSet
  PROVE  /\ DOMAIN turn = {"fragment", "from", "ran", "reached", "status", "changed", "executed"}
         /\ turn.fragment \in Fragments \cup {[kind |-> "empty"]}
         /\ turn.from \in [items : Seq(Item), lets : Seq(Stmt)]
         /\ turn.ran \in Program \cup {NoProgram} /\ turn.reached \in Nat
         /\ turn.status \in Statuses /\ turn.changed \in BOOLEAN /\ turn.executed \in BOOLEAN
  BY DEF TurnSet

\* make_result changes what submit says, and nothing of what the turn found.
LEMMA ResultTyping ==
  ASSUME turn \in TurnSet, NEW st \in Statuses, NEW ch \in BOOLEAN, NEW ex \in BOOLEAN
  PROVE  /\ Result(st, ch, ex) \in TurnSet
         /\ Result(st, ch, ex).fragment = turn.fragment
         /\ Result(st, ch, ex).from = turn.from
         /\ Result(st, ch, ex).ran = turn.ran
         /\ Result(st, ch, ex).reached = turn.reached
         /\ Result(st, ch, ex).status = st
         /\ Result(st, ch, ex).changed = ch
         /\ Result(st, ch, ex).executed = ex
  BY DEF Result, TurnSet

\* A session that holds nothing resolves.
LEMMA EmptyResolves == Resolves(build_program_source(<<>>, <<>>, <<>>))
<1>1. <<>> \o <<>> = <<>> /\ DOMAIN <<>> = {}
  OBVIOUS
<1> QED
  BY <1>1 DEF Resolves, build_program_source, Distinct

\* Bindings are replayed without the statements between them.  Each stands where
\* it stood among those that have a name, and what it uses has a name: so it is
\* still declared before, once, and what moved it before is not there any more
\* or stands where it stood.
LEMMA ReplayResolves ==
  ASSUME NEW is \in Seq(Item), NEW ls \in Seq(Stmt), NEW ss \in Seq(Stmt),
         Resolves(build_program_source(is, ls, ss))
  PROVE  Resolves(build_program_source(is, ls \o Kept(ss), <<>>))
<1> DEFINE p == build_program_source(is, ls, ss)
           q == build_program_source(is, ls \o Kept(ss), <<>>)
           b == Kept(ss)
<1>1. b \in Seq(Stmt) /\ \E m : Selects(m, b, ss, Len(ss))
  BY KeptSelects
<1>2. PICK m : Selects(m, b, ss, Len(ss))
  BY <1>1
<1>3. /\ Len(ls) \in Nat /\ Len(ss) \in Nat /\ Len(b) \in Nat
  BY <1>1, LenProperties
<1>4. /\ p.items = is /\ q.items = is
      /\ p.main = ls \o ss /\ q.main = (ls \o b) \o <<>>
  BY DEF build_program_source
<1>5. (ls \o b) \o <<>> = ls \o b
  <2>1. ls \o b \in Seq(Stmt)
    BY <1>1, ConcatProperties
  <2> QED  BY <2>1, ConcatEmptySeq
<1>6. /\ DOMAIN p.main = 1 .. Len(ls) + Len(ss)
      /\ \A k \in 1 .. Len(ls) : p.main[k] = ls[k]
      /\ \A k \in 1 .. Len(ss) : p.main[Len(ls) + k] = ss[k]
  <2>1. /\ Len(ls \o ss) = Len(ls) + Len(ss)
        /\ \A k \in 1 .. Len(ls) + Len(ss) :
              (ls \o ss)[k] = IF k <= Len(ls) THEN ls[k] ELSE ss[k - Len(ls)]
        /\ ls \o ss \in Seq(Stmt)
    BY ConcatProperties
  <2>2. DOMAIN (ls \o ss) = 1 .. Len(ls) + Len(ss)
    BY <2>1, LenProperties
  <2> QED  BY <1>3, <1>4, <2>1, <2>2
<1>7. /\ DOMAIN q.main = 1 .. Len(ls) + Len(b)
      /\ \A k \in 1 .. Len(ls) : q.main[k] = ls[k]
      /\ \A k \in 1 .. Len(b) : q.main[Len(ls) + k] = b[k]
  <2>1. /\ Len(ls \o b) = Len(ls) + Len(b)
        /\ \A k \in 1 .. Len(ls) + Len(b) :
              (ls \o b)[k] = IF k <= Len(ls) THEN ls[k] ELSE b[k - Len(ls)]
        /\ ls \o b \in Seq(Stmt)
    BY <1>1, ConcatProperties
  <2>2. DOMAIN (ls \o b) = 1 .. Len(ls) + Len(b)
    BY <2>1, LenProperties
  <2> QED  BY <1>3, <1>4, <1>5, <2>1, <2>2
<1>8. p.main \in Seq(Stmt) /\ \A k \in DOMAIN p.main : p.main[k] \in Stmt
  <2>1. p.main \in Seq(Stmt)
    BY <1>4, ConcatProperties
  <2> QED  BY <2>1, ElementOfSeq, LenProperties
<1> HIDE DEF p, q, b
<1> DEFINE at == [k \in 1 .. Len(ls) + Len(b) |->
                    IF k <= Len(ls) THEN k ELSE Len(ls) + m[k - Len(ls)]]
<1>9. /\ m \in [1 .. Len(b) -> 1 .. Len(ss)]
      /\ \A j, k \in 1 .. Len(b) : j < k => m[j] < m[k]
      /\ \A k \in 1 .. Len(b) : b[k] = ss[m[k]]
      /\ \A j \in 1 .. Len(ss) : Named(ss[j]) => \E k \in 1 .. Len(b) : m[k] = j
  BY <1>2 DEF Selects, Increasing
<1>10. \A k \in DOMAIN q.main : at[k] \in DOMAIN p.main /\ q.main[k] = p.main[at[k]]
  <2> SUFFICES ASSUME NEW k \in DOMAIN q.main
               PROVE  at[k] \in DOMAIN p.main /\ q.main[k] = p.main[at[k]]
    OBVIOUS
  <2>0. k \in 1 .. Len(ls) + Len(b)
    BY <1>7
  <2>1. CASE k <= Len(ls)
    <3>1. k \in 1 .. Len(ls) /\ at[k] = k
      BY <1>3, <2>0, <2>1
    <3> QED  BY <1>3, <1>6, <1>7, <3>1
  <2>2. CASE ~(k <= Len(ls))
    <3> DEFINE j == k - Len(ls)
    <3>1. j \in 1 .. Len(b) /\ at[k] = Len(ls) + m[j] /\ k = Len(ls) + j
      BY <1>3, <2>0, <2>2
    <3>2. m[j] \in 1 .. Len(ss) /\ b[j] = ss[m[j]]
      BY <1>9, <3>1
    <3>3. q.main[k] = b[j]
      BY <1>7, <3>1
    <3>4. p.main[Len(ls) + m[j]] = ss[m[j]]
      BY <1>6, <3>2
    <3>5. Len(ls) + m[j] \in 1 .. Len(ls) + Len(ss)
      BY <1>3, <3>2
    <3> QED  BY <1>6, <3>1, <3>2, <3>3, <3>4, <3>5
  <2> QED  BY <2>1, <2>2
<1>11. \A j, k \in DOMAIN q.main : j < k => at[j] < at[k]
  <2> SUFFICES ASSUME NEW j \in DOMAIN q.main, NEW k \in DOMAIN q.main, j < k
               PROVE  at[j] < at[k]
    OBVIOUS
  <2>0. j \in 1 .. Len(ls) + Len(b) /\ k \in 1 .. Len(ls) + Len(b)
    BY <1>7
  <2>1. CASE k <= Len(ls)
    BY <1>3, <2>0, <2>1
  <2>2. CASE ~(k <= Len(ls)) /\ j <= Len(ls)
    <3>1. k - Len(ls) \in 1 .. Len(b) /\ at[k] = Len(ls) + m[k - Len(ls)] /\ at[j] = j
      BY <1>3, <2>0, <2>2
    <3>2. m[k - Len(ls)] \in 1 .. Len(ss)
      BY <1>9, <3>1
    <3> QED  BY <1>3, <2>0, <2>2, <3>1, <3>2
  <2>3. CASE ~(k <= Len(ls)) /\ ~(j <= Len(ls))
    <3>1. /\ k - Len(ls) \in 1 .. Len(b) /\ at[k] = Len(ls) + m[k - Len(ls)]
          /\ j - Len(ls) \in 1 .. Len(b) /\ at[j] = Len(ls) + m[j - Len(ls)]
          /\ j - Len(ls) < k - Len(ls)
      BY <1>3, <2>0, <2>3
    <3>2. /\ m[k - Len(ls)] \in 1 .. Len(ss) /\ m[j - Len(ls)] \in 1 .. Len(ss)
          /\ m[j - Len(ls)] < m[k - Len(ls)]
      BY <1>9, <3>1
    <3> QED  BY <1>3, <3>1, <3>2
  <2> QED  BY <2>1, <2>2, <2>3
<1>12. \A i \in DOMAIN p.main : Named(p.main[i]) => \E k \in DOMAIN q.main : at[k] = i
  <2> SUFFICES ASSUME NEW i \in DOMAIN p.main, Named(p.main[i])
               PROVE  \E k \in DOMAIN q.main : at[k] = i
    OBVIOUS
  <2>0. i \in 1 .. Len(ls) + Len(ss)
    BY <1>6
  <2>1. CASE i <= Len(ls)
    <3>1. i \in 1 .. Len(ls) + Len(b) /\ at[i] = i
      BY <1>3, <2>0, <2>1
    <3> QED  BY <1>7, <3>1
  <2>2. CASE ~(i <= Len(ls))
    <3>1. i - Len(ls) \in 1 .. Len(ss) /\ i = Len(ls) + (i - Len(ls))
      BY <1>3, <2>0, <2>2
    <3>2. p.main[i] = ss[i - Len(ls)]
      BY <1>6, <3>1
    <3>3. PICK k \in 1 .. Len(b) : m[k] = i - Len(ls)
      BY <1>9, <3>1, <3>2
    <3>4. /\ Len(ls) + k \in 1 .. Len(ls) + Len(b) /\ ~(Len(ls) + k <= Len(ls))
          /\ (Len(ls) + k) - Len(ls) = k
      BY <1>3
    <3>5. at[Len(ls) + k] = i
      BY <1>3, <2>0, <3>3, <3>4
    <3> QED  BY <1>7, <3>4, <3>5
  <2> QED  BY <2>1, <2>2
<1> DEFINE Order == DOMAIN q.main \subseteq Nat /\ DOMAIN p.main \subseteq Nat
<1>13. Order
  BY <1>3, <1>6, <1>7
<1> HIDE DEF at, Order
<1>14. \A j, k \in DOMAIN q.main : at[j] < at[k] => j < k
  <2> SUFFICES ASSUME NEW j \in DOMAIN q.main, NEW k \in DOMAIN q.main, at[j] < at[k], ~(j < k)
               PROVE  FALSE
    OBVIOUS
  <2>1. j \in Nat /\ k \in Nat /\ at[j] \in Nat /\ at[k] \in Nat
    BY <1>10, <1>13 DEF Order
  <2>2. k < j \/ k = j
    BY <2>1
  <2>3. k < j => at[k] < at[j]
    BY <1>11
  <2> QED  BY <2>1, <2>2, <2>3
<1>15. \A j, k \in DOMAIN q.main : at[j] = at[k] => j = k
  <2> SUFFICES ASSUME NEW j \in DOMAIN q.main, NEW k \in DOMAIN q.main, at[j] = at[k], j # k
               PROVE  FALSE
    OBVIOUS
  <2>1. j \in Nat /\ k \in Nat /\ at[j] \in Nat /\ at[k] \in Nat
    BY <1>10, <1>13 DEF Order
  <2>2. k < j \/ j < k
    BY <2>1
  <2>3. (k < j => at[k] < at[j]) /\ (j < k => at[j] < at[k])
    BY <1>11
  <2> QED  BY <2>1, <2>2, <2>3
<1>16. Resolves(p)
  BY DEF p
<1>17. Distinct(p.items) /\ p.items = q.items /\ ItemNames(p) = ItemNames(q)
  BY <1>4, <1>16 DEF Resolves, ItemNames
<1>18. Distinct(q.main)
  <2> SUFFICES ASSUME NEW j \in DOMAIN q.main, NEW k \in DOMAIN q.main,
                      q.main[j].name = q.main[k].name, q.main[j].name # NoName
               PROVE  j = k
    BY DEF Distinct
  <2>1. at[j] \in DOMAIN p.main /\ at[k] \in DOMAIN p.main
    BY <1>10
  <2>2. p.main[at[j]].name = p.main[at[k]].name /\ p.main[at[j]].name # NoName
    BY <1>10
  <2>3. at[j] = at[k]
    BY <1>16, <2>1, <2>2 DEF Resolves, Distinct
  <2> QED  BY <1>15, <2>3
<1>19. ASSUME NEW k \in DOMAIN q.main, NEW n \in q.main[k].uses
       PROVE  Usable(q, k, n)
  <2>1. at[k] \in DOMAIN p.main /\ n \in p.main[at[k]].uses
    BY <1>10, <1>19
  <2>2. Usable(p, at[k], n)
    BY <1>16, <2>1 DEF Resolves
  <2>3. k \in Nat /\ at[k] \in Nat
    BY <1>13, <2>1 DEF Order
  <2>4. n \in Names
    BY <1>8, <2>1 DEF Stmt
  <2>5. \E j \in 1 .. k - 1 : q.main[j].name = n
    <3>1. PICK i \in 1 .. at[k] - 1 : p.main[i].name = n
      BY <2>2 DEF Usable
    <3>2. i \in DOMAIN p.main /\ i < at[k]
      BY <1>3, <1>6, <2>1, <2>3
    <3>3. Named(p.main[i])
      BY <2>4, <3>1, NoNameAssumption DEF Named
    <3>4. PICK j \in DOMAIN q.main : at[j] = i
      BY <1>12, <3>2, <3>3
    <3>5. j < k
      BY <1>14, <3>2, <3>4
    <3>6. j \in 1 .. k - 1
      BY <1>3, <1>7, <2>3, <3>5
    <3>7. q.main[j].name = n
      BY <1>10, <3>1, <3>4
    <3> QED  BY <3>6, <3>7
  <2>6. \A j \in 1 .. k - 1 : n \notin q.main[j].moves
    <3> TAKE j \in 1 .. k - 1
    <3>1. j \in DOMAIN q.main /\ j < k
      BY <1>3, <1>7, <2>3
    <3>2. at[j] \in 1 .. at[k] - 1
      <4>1. at[j] < at[k] /\ at[j] \in DOMAIN p.main
        BY <1>10, <1>11, <3>1
      <4> QED  BY <1>3, <1>6, <2>3, <4>1
    <3>3. n \notin p.main[at[j]].moves
      BY <2>2, <3>2 DEF Usable
    <3> QED  BY <1>10, <3>1, <3>3
  <2> QED  BY <2>5, <2>6 DEF Usable
<1>20. \A k \in DOMAIN q.items : q.items[k].calls \subseteq ItemNames(q)
  BY <1>16, <1>17 DEF Resolves
<1>21. \A k \in DOMAIN q.main : q.main[k].calls \subseteq ItemNames(q)
  BY <1>10, <1>16, <1>17 DEF Resolves
<1> QED
  <2>1. Resolves(q)
    BY <1>17, <1>18, <1>19, <1>20, <1>21 DEF Resolves
  <2> QED  BY <2>1 DEF q

-----------------------------------------------------------------------------
(***************************************************************************)
(* One step per action                                                     *)
(***************************************************************************)

\* What a turn grew by is accounted for, or nothing changed.
Accounted == Grows \/ UNCHANGED <<items, lets>>

\* The program of a turn is one.
LEMMA CandidateTyping ==
  ASSUME TypeOK, turn.fragment \in Fragments, turn.fragment.kind \in {"items", "body"}
  PROVE  Candidate \in Program /\ Candidate # NoProgram
<1>1. items \in Seq(Item) /\ lets \in Seq(Stmt)
  BY DEF TypeOK
<1>2. CASE turn.fragment.kind = "items"
  <2>1. turn.fragment.items \in Seq(Item)
    BY <1>2, FragmentTyping
  <2>2. items \o turn.fragment.items \in Seq(Item) /\ <<>> \in Seq(Stmt)
    BY <1>1, <2>1, ConcatProperties
  <2>3. Candidate \in Program
    BY <1>1, <1>2, <2>2, BuildTyping DEF Candidate
  <2> QED  BY <2>3, NoProgramAssumption
<1>3. CASE turn.fragment.kind = "body"
  <2>1. turn.fragment.stmts \in Seq(Stmt)
    BY <1>3, FragmentTyping
  <2>2. Candidate \in Program
    BY <1>1, <1>3, <2>1, BuildTyping DEF Candidate
  <2> QED  BY <2>2, NoProgramAssumption
<1> QED
  BY <1>2, <1>3

\* A turn that ends without having changed what persists.
LEMMA EndsQuietly ==
  ASSUME IInv, stage \notin {"ready", "closed"}, UNCHANGED <<items, lets>>, stage' = "ready",
         turn' \in TurnSet, turn'.fragment = turn.fragment, turn'.from = turn.from,
         turn'.changed = FALSE,
         turn'.executed =>
            turn'.ran = build_program_source(turn.from.items, turn.from.lets, turn.fragment.stmts),
         file' \in Program \cup {NoProgram}, exe' \in Program \cup {NoProgram}
  PROVE  IInv'
<1>1. TypeOK'
  <2>1. turn'.status \in Statuses
    BY DEF TurnSet
  <2> QED  BY <2>1 DEF IInv, TypeOK, Stages
<1>2. Pending' /\ Accepted'
  BY DEF Pending, Accepted
<1>3. Ran'
  BY DEF Ran
<1>4. [items |-> items', lets |-> lets'] = turn'.from
  BY DEF IInv, Pending, Same
<1>5. RefusedLeavesNoTrace' /\ ReportsChange' /\ ChangeIsSaved'
  BY <1>4 DEF RefusedLeavesNoTrace, ReportsChange, ChangeIsSaved
<1>6. PersistedResolves'
  BY DEF IInv, PersistedResolves, Persisted
<1> QED
  BY <1>1, <1>2, <1>3, <1>5, <1>6 DEF IInv

\* A turn refused before anything was executed.
LEMMA RefusedQuietly ==
  ASSUME IInv, stage \notin {"ready", "closed"}, UNCHANGED <<items, lets>>,
         NEW st \in Statuses, Finish(Result(st, FALSE, FALSE)),
         file' \in Program \cup {NoProgram}, exe' \in Program \cup {NoProgram}
  PROVE  IInv' /\ Accounted
<1> DEFINE r == Result(st, FALSE, FALSE)
<1>1. turn \in TurnSet
  BY DEF IInv
<1>2. /\ r \in TurnSet /\ r.fragment = turn.fragment /\ r.from = turn.from
      /\ r.changed = FALSE /\ r.executed = FALSE
  BY <1>1, ResultTyping
<1>3. turn' = r /\ stage' = "ready"
  BY DEF Finish
<1> HIDE DEF r
<1> QED
  BY <1>2, <1>3, EndsQuietly DEF Accounted

\* What write_text_file leaves in the file.
LEMMA Written ==
  ASSUME NEW p \in Program, NEW w \in BOOLEAN, Write(p, w)
  PROVE  file' \in Program \cup {NoProgram} /\ (w => file' = p)
  BY DEF Write

\* submit begins: nothing has happened yet.
LEMMA SubmitStep ==
  ASSUME IInv, NEW f \in Fragments, Submit(f)
  PROVE  IInv' /\ Accounted
<1>1. /\ stage = "ready" /\ stage' = "typing" /\ UNCHANGED <<items, lets, file, exe>>
      /\ turn' = [NoTurn EXCEPT !.fragment = f, !.from = [items |-> items, lets |-> lets]]
  BY DEF Submit
<1>2. turn' = [fragment |-> f, from |-> [items |-> items, lets |-> lets], ran |-> NoProgram,
               reached |-> 0, status |-> "none", changed |-> FALSE, executed |-> FALSE]
  BY <1>1 DEF NoTurn
<1>3. items \in Seq(Item) /\ lets \in Seq(Stmt)
  BY DEF IInv, TypeOK
<1>4. turn' \in TurnSet
  BY <1>2, <1>3 DEF TurnSet, Statuses
<1>a. /\ turn'.fragment = f /\ turn'.from = [items |-> items, lets |-> lets]
      /\ turn'.status = "none" /\ turn'.changed = FALSE /\ turn'.executed = FALSE
  BY <1>2
<1>5. TypeOK'
  BY <1>1, <1>a DEF IInv, TypeOK, Stages, Statuses
<1>6. Pending'
  BY <1>1, <1>a DEF Pending, Same
<1>7. Accepted' /\ Ran'
  BY <1>1, <1>a DEF Accepted, Ran
<1>8. RefusedLeavesNoTrace' /\ ReportsChange' /\ ChangeIsSaved'
  BY <1>1, <1>a DEF RefusedLeavesNoTrace, ReportsChange, ChangeIsSaved
<1>9. PersistedResolves'
  BY <1>1 DEF IInv, PersistedResolves, Persisted
<1> QED
  BY <1>1, <1>4, <1>5, <1>6, <1>7, <1>8, <1>9 DEF IInv, Accounted

\* Commands that only answer.
LEMMA AnswerStep ==
  ASSUME IInv, NEW kinds, NEW st \in Statuses, Answer(kinds, st)
  PROVE  IInv' /\ Accounted
<1>1. /\ file' \in Program \cup {NoProgram} /\ exe' \in Program \cup {NoProgram}
      /\ UNCHANGED <<items, lets>>
  BY DEF Answer, IInv, TypeOK
<1>2. Finish(Result(st, FALSE, FALSE)) /\ stage \notin {"ready", "closed"}
  BY DEF Answer, Is
<1> QED
  BY <1>1, <1>2, RefusedQuietly

\* A name of the session is refused.
LEMMA RefuseReservedStep ==
  ASSUME IInv, RefuseReserved
  PROVE  IInv' /\ Accounted
<1>1. /\ file' \in Program \cup {NoProgram} /\ exe' \in Program \cup {NoProgram}
      /\ UNCHANGED <<items, lets>>
  BY DEF RefuseReserved, Refuse, IInv, TypeOK
<1>2. /\ Finish(Result("Error", FALSE, FALSE)) /\ stage \notin {"ready", "closed"}
      /\ "Error" \in Statuses
  BY DEF RefuseReserved, Refuse, Is, Statuses
<1> QED
  BY <1>1, <1>2, RefusedQuietly

\* The executable cannot be started.
LEMMA StartFailsStep ==
  ASSUME IInv, StartFails
  PROVE  IInv' /\ Accounted
<1>1. /\ file' \in Program \cup {NoProgram} /\ exe' \in Program \cup {NoProgram}
      /\ UNCHANGED <<items, lets>>
  BY DEF StartFails, Refuse, IInv, TypeOK
<1>2. /\ Finish(Result("Error", FALSE, FALSE)) /\ stage \notin {"ready", "closed"}
      /\ "Error" \in Statuses
  BY DEF StartFails, Refuse, Statuses
<1> QED
  BY <1>1, <1>2, RefusedQuietly

\* A turn that goes on leaves what persists alone.
LEMMA StepsQuietly ==
  ASSUME IInv, stage \notin {"ready", "closed"}, NEW next, Step(next),
         \/ next \in {"lowering", "building", "running"}
         \/ next = "committing" /\ turn.fragment.kind = "items",
         Accepted', file' \in Program \cup {NoProgram}, exe' \in Program \cup {NoProgram},
         next \in {"building", "running"} => file' = Candidate,
         next = "running" => exe' \in Program,
         ~turn.executed
  PROVE  IInv' /\ Accounted
<1>1. UNCHANGED <<items, lets, turn>> /\ stage' = next
  BY DEF Step
<1>2. Candidate' = Candidate
  BY <1>1 DEF Candidate
<1>3. TypeOK'
  BY <1>1, <1>2 DEF IInv, TypeOK, Stages
<1>4. Pending'
  BY <1>1 DEF IInv, Pending, Same
<1>5. Ran'
  BY <1>1 DEF Ran
<1>6. RefusedLeavesNoTrace' /\ ReportsChange' /\ ChangeIsSaved'
  BY <1>1 DEF IInv, RefusedLeavesNoTrace, ReportsChange, ChangeIsSaved
<1>7. PersistedResolves'
  BY <1>1 DEF IInv, PersistedResolves, Persisted
<1> QED
  BY <1>1, <1>3, <1>4, <1>5, <1>6, <1>7 DEF IInv, Accounted

\* The program is accepted as typed, or refused.
LEMMA LowerToTyirStep ==
  ASSUME IInv, NEW w \in BOOLEAN, LowerToTyir(w)
  PROVE  IInv' /\ Accounted
<1>1. stage = "typing" /\ turn.fragment.kind \in {"items", "body"} /\ Write(Candidate, w)
  BY DEF LowerToTyir, Is
<1>2. turn.fragment \in Fragments /\ TypeOK /\ ~turn.executed
  BY <1>1 DEF IInv, Pending, Ran
<1>3. Candidate \in Program
  BY <1>1, <1>2, CandidateTyping
<1>4. file' \in Program \cup {NoProgram}
  BY <1>1, <1>3, Written
<1>5. exe' = exe /\ exe \in Program \cup {NoProgram}
  BY <1>2 DEF LowerToTyir, Refuse, TypeOK
<1>6. CASE w /\ lower_and_fold_program(Candidate)
  <2> DEFINE next == IF turn.fragment.kind = "items" THEN "committing" ELSE "lowering"
  <2>1. Step(next)
    BY <1>6 DEF LowerToTyir
  <2>2. UNCHANGED <<items, lets, turn>> /\ stage' = next
    BY <2>1 DEF Step
  <2>3. Candidate' = Candidate
    BY <2>2 DEF Candidate
  <2>4. Accepted'
    BY <1>1, <1>6, <2>2, <2>3 DEF Accepted
  <2>5. \/ next = "lowering"
        \/ next = "committing" /\ turn.fragment.kind = "items"
    OBVIOUS
  <2> HIDE DEF next
  <2> QED  BY <1>1, <1>2, <1>4, <1>5, <2>1, <2>4, <2>5, StepsQuietly
<1>7. CASE ~(w /\ lower_and_fold_program(Candidate))
  <2>1. Refuse
    BY <1>7 DEF LowerToTyir
  <2>2. Finish(Result("Error", FALSE, FALSE)) /\ "Error" \in Statuses /\ UNCHANGED <<items, lets>>
    BY <2>1 DEF Refuse, Statuses
  <2> QED  BY <1>1, <1>4, <1>5, <2>2, RefusedQuietly
<1> QED
  BY <1>6, <1>7

\* The program is lowered, or refused.
LEMMA LowerToLirStep ==
  ASSUME IInv, NEW w \in BOOLEAN, LowerToLir(w)
  PROVE  IInv' /\ Accounted
<1>1. stage = "lowering" /\ turn.fragment.kind = "body" /\ Write(Candidate, w)
  BY DEF LowerToLir, IInv, Accepted
<1>2. turn.fragment \in Fragments /\ TypeOK /\ ~turn.executed /\ lower_and_fold_program(Candidate)
  BY <1>1 DEF IInv, Pending, Ran, Accepted
<1>3. Candidate \in Program
  BY <1>1, <1>2, CandidateTyping
<1>4. file' \in Program \cup {NoProgram} /\ (w => file' = Candidate)
  BY <1>1, <1>3, Written
<1>5. exe' = exe /\ exe \in Program \cup {NoProgram}
  BY <1>2 DEF LowerToLir, Refuse, TypeOK
<1>6. CASE w /\ lower_program(Candidate)
  <2>1. Step("building")
    BY <1>6 DEF LowerToLir
  <2>2. UNCHANGED <<items, lets, turn>> /\ stage' = "building"
    BY <2>1 DEF Step
  <2>3. Candidate' = Candidate
    BY <2>2 DEF Candidate
  <2>4. Accepted'
    BY <1>1, <1>2, <1>6, <2>2, <2>3 DEF Accepted
  <2> QED  BY <1>1, <1>2, <1>4, <1>5, <1>6, <2>1, <2>4, StepsQuietly
<1>7. CASE ~(w /\ lower_program(Candidate))
  <2>1. Refuse
    BY <1>7 DEF LowerToLir
  <2>2. Finish(Result("Error", FALSE, FALSE)) /\ "Error" \in Statuses /\ UNCHANGED <<items, lets>>
    BY <2>1 DEF Refuse, Statuses
  <2> QED  BY <1>1, <1>4, <1>5, <2>2, RefusedQuietly
<1> QED
  BY <1>6, <1>7

\* The program is linked, or refused.
LEMMA BuildStep ==
  ASSUME IInv, Build
  PROVE  IInv' /\ Accounted
<1>1. stage = "building" /\ turn.fragment.kind = "body" /\ file' = file
  BY DEF Build, IInv, Accepted
<1>2. /\ turn.fragment \in Fragments /\ TypeOK /\ ~turn.executed
      /\ lower_and_fold_program(Candidate) /\ lower_program(Candidate)
  BY <1>1 DEF IInv, Pending, Ran, Accepted
<1>3. Candidate \in Program /\ file = Candidate /\ exe \in Program \cup {NoProgram}
  BY <1>1, <1>2, CandidateTyping DEF TypeOK
<1>4. CASE Links(Candidate) /\ exe' = Candidate /\ Step("running")
  <2>2. UNCHANGED <<items, lets, turn>> /\ stage' = "running"
    BY <1>4 DEF Step
  <2>3. Candidate' = Candidate
    BY <2>2 DEF Candidate
  <2>4. Accepted'
    BY <1>1, <1>2, <1>4, <2>2, <2>3 DEF Accepted
  <2> QED  BY <1>1, <1>2, <1>3, <1>4, <2>4, StepsQuietly
<1>5. CASE /\ exe' \in {exe, NoProgram} /\ Finish(Result("Error", FALSE, FALSE))
           /\ UNCHANGED <<items, lets>>
  <2>1. "Error" \in Statuses
    BY DEF Statuses
  <2> QED  BY <1>1, <1>3, <1>5, <2>1, RefusedQuietly
<1> QED
  BY <1>4, <1>5 DEF Build

\* The program comes to its end or fails.
LEMMA RunStep ==
  ASSUME IInv, Run
  PROVE  IInv' /\ Accounted
<1>1. stage = "running" /\ UNCHANGED <<items, lets, file, exe>>
  BY DEF Run
<1>2. /\ turn.fragment \in Fragments /\ TypeOK /\ turn \in TurnSet /\ Same
      /\ turn.fragment.kind = "body" /\ turn.status = "none" /\ turn.changed = FALSE
      /\ lower_and_fold_program(Candidate) /\ lower_program(Candidate)
      /\ Links(Candidate) /\ exe = Candidate
  BY <1>1 DEF IInv, Pending, Accepted
<1>3. Candidate \in Program
  BY <1>2, CandidateTyping
<1>4. PICK end \in Ends(exe) :
        LET ran == [turn EXCEPT !.ran = exe, !.reached = end.at, !.executed = TRUE]
        IN  IF end.how = "fails"
            THEN Finish([ran EXCEPT !.status = "RuntimeError"])
            ELSE stage' = "committing" /\ turn' = ran
  BY DEF Run
<1>5. end.at \in Nat /\ end = [at |-> end.at, how |-> end.how] /\ end.how \in {"fails", "returns"}
  <2>1. Candidate.main \in Seq(Stmt)
    BY <1>3 DEF Program
  <2>2. Len(Candidate.main) \in Nat /\ DOMAIN Candidate.main = 1 .. Len(Candidate.main)
    BY <2>1, LenProperties
  <2>3. CASE end \in [at : DOMAIN Candidate.main, how : {"fails", "returns"}]
    BY <2>2, <2>3
  <2>4. CASE end = [at |-> Len(Candidate.main) + 1, how |-> "returns"]
    BY <2>2, <2>4
  <2> QED  BY <1>2, <2>3, <2>4 DEF Ends
<1>6. exe = build_program_source(turn.from.items, turn.from.lets, turn.fragment.stmts)
  <2>1. turn.from.items = items /\ turn.from.lets = lets
    BY <1>2 DEF Same
  <2> QED  BY <1>2, <2>1 DEF Candidate
<1>7. CASE end.how = "fails"
  <2>1. /\ stage' = "ready"
        /\ turn' = [[turn EXCEPT !.ran = exe, !.reached = end.at, !.executed = TRUE]
                      EXCEPT !.status = "RuntimeError"]
    BY <1>4, <1>7 DEF Finish
  <2>2. turn' \in TurnSet
    BY <1>2, <1>3, <1>5, <2>1 DEF TurnSet, Statuses
  <2>3. /\ turn'.fragment = turn.fragment /\ turn'.from = turn.from /\ turn'.changed = FALSE
        /\ turn'.ran = exe
    BY <1>2, <2>1 DEF TurnSet
  <2>4. /\ stage \notin {"ready", "closed"} /\ UNCHANGED <<items, lets>> /\ stage' = "ready"
        /\ file' \in Program \cup {NoProgram} /\ exe' \in Program \cup {NoProgram}
        /\ turn'.ran = build_program_source(turn.from.items, turn.from.lets, turn.fragment.stmts)
    BY <1>1, <1>2, <1>6, <2>1, <2>3 DEF TypeOK
  <2>5. IInv'
    BY <2>2, <2>3, <2>4, EndsQuietly
  <2> QED  BY <1>1, <2>5 DEF Accounted
<1>8. CASE end.how # "fails"
  <2>1. /\ stage' = "committing"
        /\ turn' = [turn EXCEPT !.ran = exe, !.reached = end.at, !.executed = TRUE]
    BY <1>4, <1>8
  <2>2. turn' \in TurnSet
    BY <1>2, <1>3, <1>5, <2>1 DEF TurnSet
  <2>3. /\ turn'.fragment = turn.fragment /\ turn'.from = turn.from /\ turn'.changed = FALSE
        /\ turn'.ran = exe /\ turn'.executed = TRUE /\ turn'.status = "none"
        /\ turn'.reached = end.at
    BY <1>2, <2>1 DEF TurnSet
  <2>4. Candidate' = Candidate
    BY <1>1, <2>3 DEF Candidate
  <2>5. [at |-> turn'.reached, how |-> "returns"] \in Ends(Candidate)
    BY <1>2, <1>5, <1>8, <2>3
  <2>6. Ran'
    BY <1>2, <1>6, <2>1, <2>3, <2>4, <2>5 DEF Ran
  <2>7. Accepted'
    BY <1>2, <2>1, <2>3, <2>4 DEF Accepted
  <2>8. Pending'
    BY <1>1, <1>2, <2>3 DEF Pending, Same
  <2>9. TypeOK'
    BY <1>1, <1>2, <2>1, <2>3 DEF TypeOK, Stages
  <2>10. RefusedLeavesNoTrace' /\ ReportsChange' /\ ChangeIsSaved'
    BY <1>2, <2>1, <2>3 DEF RefusedLeavesNoTrace, ReportsChange, ChangeIsSaved
  <2>11. PersistedResolves'
    BY <1>1 DEF IInv, PersistedResolves, Persisted
  <2> QED  BY <1>1, <2>2, <2>6, <2>7, <2>8, <2>9, <2>10, <2>11 DEF IInv, Accounted
<1> QED
  BY <1>7, <1>8

\* A turn that ends with a change: the file holds it unless it was not written.
LEMMA EndsLoudly ==
  ASSUME IInv, stage \notin {"ready", "closed"}, stage' = "ready",
         NEW w \in BOOLEAN, NEW ch \in BOOLEAN, NEW ex \in BOOLEAN,
         turn' = Result(IF w THEN "Success" ELSE "thrown", w /\ ch, ex), ex => turn.executed,
         items' \in Seq(Item), lets' \in Seq(Stmt), \A k \in DOMAIN lets' : Named(lets'[k]),
         ch <=> [items |-> items', lets |-> lets'] # turn.from,
         Write(Persisted', w), UNCHANGED exe, PersistedResolves'
  PROVE  IInv'
<1> DEFINE st == IF w THEN "Success" ELSE "thrown"
           chg == w /\ ch
<1>1. turn \in TurnSet
  BY DEF IInv
<1>2. st \in Statuses /\ chg \in BOOLEAN
  BY DEF Statuses
<1>3. turn' = Result(st, chg, ex)
  OBVIOUS
<1>4. st = (IF w THEN "Success" ELSE "thrown") /\ chg = (w /\ ch)
  OBVIOUS
<1> HIDE DEF st, chg
<1>5. /\ turn' \in TurnSet /\ turn'.fragment = turn.fragment /\ turn'.from = turn.from
      /\ turn'.ran = turn.ran /\ turn'.status = st /\ turn'.changed = chg /\ turn'.executed = ex
  BY <1>1, <1>2, <1>3, ResultTyping
<1>6. Persisted' \in Program
  <2>1. <<>> \in Seq(Stmt)
    OBVIOUS
  <2> QED  BY <2>1, BuildTyping DEF Persisted
<1>7. file' \in Program \cup {NoProgram} /\ (w => file' = Persisted')
  BY <1>6 DEF Write
<1>8. TypeOK'
  BY <1>2, <1>5, <1>7 DEF IInv, TypeOK, Stages
<1>9. Pending' /\ Accepted'
  BY DEF Pending, Accepted
<1>10. Ran'
  BY <1>5 DEF IInv, Ran
<1>11. RefusedLeavesNoTrace'
  BY <1>4, <1>5 DEF RefusedLeavesNoTrace
<1>12. ReportsChange'
  BY <1>4, <1>5 DEF ReportsChange
<1>13. ChangeIsSaved'
  BY <1>4, <1>5, <1>7 DEF ChangeIsSaved
<1> QED
  BY <1>5, <1>8, <1>9, <1>10, <1>11, <1>12, <1>13 DEF IInv

\* Something appended makes a sequence another one.
LEMMA AppendedDiffers ==
  ASSUME NEW T, NEW s \in Seq(T), NEW t \in Seq(T)
  PROVE  s \o t = s <=> t = <<>>
<1>1. /\ Len(s \o t) = Len(s) + Len(t) /\ Len(s) \in Nat /\ Len(t) \in Nat
      /\ s \o t \in Seq(T)
  BY ConcatProperties, LenProperties
<1>2. ASSUME t = <<>>  PROVE  s \o t = s
  BY <1>2, ConcatEmptySeq
<1>3. ASSUME s \o t = s  PROVE  t = <<>>
  <2>1. Len(t) = 0
    BY <1>1, <1>3
  <2> QED  BY <2>1, EmptySeq
<1> QED
  BY <1>2, <1>3

\* A reset leaves an empty session.
LEMMA HandleResetStep ==
  ASSUME IInv, NEW w \in BOOLEAN, HandleReset(w)
  PROVE  IInv' /\ Accounted
<1>1. /\ stage = "typing" /\ items' = <<>> /\ lets' = <<>> /\ UNCHANGED exe
      /\ Write(build_program_source(items', lets', <<>>), w)
      /\ Finish(Result(IF w THEN "Success" ELSE "thrown",
                       w /\ (items # <<>> \/ lets # <<>>), FALSE))
  BY DEF HandleReset, Is
<1>2. turn.from = [items |-> items, lets |-> lets]
  BY <1>1 DEF IInv, Pending, Same
<1> DEFINE ch == items # <<>> \/ lets # <<>>
<1>3. /\ stage \notin {"ready", "closed"} /\ stage' = "ready"
      /\ turn' = Result(IF w THEN "Success" ELSE "thrown", w /\ ch, FALSE)
  BY <1>1 DEF Finish
<1>4. items' \in Seq(Item) /\ lets' \in Seq(Stmt) /\ \A k \in DOMAIN lets' : Named(lets'[k])
  BY <1>1
<1>5. ch <=> [items |-> items', lets |-> lets'] # turn.from
  BY <1>1, <1>2
<1>6. Persisted' = build_program_source(<<>>, <<>>, <<>>)
  BY <1>1 DEF Persisted
<1>7. PersistedResolves'
  BY <1>6, EmptyResolves DEF PersistedResolves
<1>8. Write(Persisted', w)
  BY <1>1, <1>6
<1>9. ch \in BOOLEAN /\ FALSE \in BOOLEAN
  OBVIOUS
<1> HIDE DEF ch
<1>10. IInv'
  BY <1>1, <1>3, <1>4, <1>5, <1>7, <1>8, <1>9, EndsLoudly
<1> QED
  BY <1>1, <1>10 DEF Accounted, Grows

\* Items are kept.
LEMMA CommitItemsStep ==
  ASSUME IInv, NEW w \in BOOLEAN, CommitItems(w)
  PROVE  IInv' /\ Accounted
<1>1. /\ stage = "committing" /\ turn.fragment.kind = "items"
      /\ items' = items \o turn.fragment.items /\ UNCHANGED <<lets, exe>>
      /\ Write(build_program_source(items', lets, <<>>), w)
      /\ Finish(Result(IF w THEN "Success" ELSE "thrown", w, FALSE))
  BY DEF CommitItems
<1>2. /\ turn.from = [items |-> items, lets |-> lets] /\ turn.fragment \in Fragments
      /\ lower_and_fold_program(Candidate) /\ TypeOK
  BY <1>1 DEF IInv, Pending, Same, Accepted
<1>3. turn.fragment.items \in Seq(Item) /\ turn.fragment.items # <<>>
  BY <1>1, <1>2, FragmentTyping
<1>4. items' \in Seq(Item) /\ items' # items
  <2>1. items \in Seq(Item)
    BY <1>2 DEF TypeOK
  <2> QED  BY <1>1, <1>3, <2>1, AppendedDiffers, ConcatProperties
<1>5. lets' \in Seq(Stmt) /\ \A k \in DOMAIN lets' : Named(lets'[k])
  BY <1>1, <1>2 DEF TypeOK
<1>6. Persisted' = Candidate
  BY <1>1 DEF Persisted, Candidate
<1>7. PersistedResolves'
  BY <1>2, <1>6 DEF PersistedResolves, lower_and_fold_program
<1>8. Write(Persisted', w)
  <2>1. Persisted' = build_program_source(items', lets, <<>>)
    BY <1>1 DEF Persisted
  <2> QED  BY <1>1, <2>1
<1>9. TRUE <=> [items |-> items', lets |-> lets'] # turn.from
  BY <1>2, <1>4
<1>10. /\ stage \notin {"ready", "closed"} /\ stage' = "ready"
       /\ turn' = Result(IF w THEN "Success" ELSE "thrown", w /\ TRUE, FALSE)
  BY <1>1 DEF Finish
<1>11. IInv'
  BY <1>1, <1>4, <1>5, <1>7, <1>8, <1>9, <1>10, EndsLoudly
<1>12. Grows
  BY <1>1, <1>2, <1>6 DEF Grows
<1> QED
  BY <1>11, <1>12 DEF Accounted

\* Bindings are kept.
LEMMA CommitLetsStep ==
  ASSUME IInv, NEW w \in BOOLEAN, CommitLets(w)
  PROVE  IInv' /\ Accounted
<1>1. /\ stage = "committing" /\ turn.fragment.kind = "body"
      /\ lets' = lets \o Bindings /\ UNCHANGED <<items, exe>>
      /\ Write(build_program_source(items, lets', <<>>), w)
      /\ Finish(Result(IF w THEN "Success" ELSE "thrown", w /\ Bindings # <<>>, turn.executed))
  BY DEF CommitLets
<1>2. /\ turn.from = [items |-> items, lets |-> lets] /\ turn.fragment \in Fragments
      /\ lower_and_fold_program(Candidate) /\ TypeOK /\ turn \in TurnSet
      /\ turn.executed /\ turn.ran = Candidate
      /\ lower_program(Candidate) /\ Links(Candidate)
      /\ [at |-> turn.reached, how |-> "returns"] \in Ends(Candidate)
  BY <1>1 DEF IInv, Pending, Same, Accepted, Ran
<1>3. turn.fragment.stmts \in Seq(Stmt)
  BY <1>1, <1>2, FragmentTyping
<1>4. items \in Seq(Item) /\ lets \in Seq(Stmt) /\ \A k \in DOMAIN lets : Named(lets[k])
  BY <1>2 DEF TypeOK
<1>5. Bindings \in Seq(Stmt) /\ \A k \in 1 .. Len(Bindings) : Named(Bindings[k])
  BY <1>3, KeptSelects DEF Bindings, Selects
<1>6. items' \in Seq(Item) /\ lets' \in Seq(Stmt)
  BY <1>1, <1>4, <1>5, ConcatProperties
<1>7. \A k \in DOMAIN lets' : Named(lets'[k])
  <2> SUFFICES ASSUME NEW k \in DOMAIN lets'
               PROVE  Named(lets'[k])
    OBVIOUS
  <2>1. /\ Len(lets') = Len(lets) + Len(Bindings)
        /\ \A j \in 1 .. Len(lets) + Len(Bindings) :
              lets'[j] = IF j <= Len(lets) THEN lets[j] ELSE Bindings[j - Len(lets)]
    BY <1>1, <1>4, <1>5, ConcatProperties
  <2>2. /\ DOMAIN lets' = 1 .. Len(lets') /\ DOMAIN lets = 1 .. Len(lets)
        /\ Len(lets) \in Nat /\ Len(Bindings) \in Nat
    BY <1>4, <1>5, <1>6, LenProperties
  <2>3. k \in 1 .. Len(lets) + Len(Bindings)
    BY <2>1, <2>2
  <2>4. CASE k <= Len(lets)
    <3>1. k \in DOMAIN lets /\ lets'[k] = lets[k]
      BY <2>1, <2>2, <2>3, <2>4
    <3> QED  BY <1>4, <3>1
  <2>5. CASE ~(k <= Len(lets))
    <3>1. k - Len(lets) \in 1 .. Len(Bindings) /\ lets'[k] = Bindings[k - Len(lets)]
      BY <2>1, <2>2, <2>3, <2>5
    <3> QED  BY <1>5, <3>1
  <2> QED  BY <2>4, <2>5
<1>8. Persisted' = build_program_source(items, lets \o Kept(turn.fragment.stmts), <<>>)
  BY <1>1 DEF Persisted, Bindings
<1>9. PersistedResolves'
  <2>1. Resolves(build_program_source(items, lets, turn.fragment.stmts))
    BY <1>1, <1>2 DEF Candidate, lower_and_fold_program
  <2>2. Resolves(build_program_source(items, lets \o Kept(turn.fragment.stmts), <<>>))
    BY <1>3, <1>4, <2>1, ReplayResolves
  <2> QED  BY <1>8, <2>2 DEF PersistedResolves
<1>10. Write(Persisted', w)
  <2>1. Persisted' = build_program_source(items, lets', <<>>)
    BY <1>1 DEF Persisted
  <2> QED  BY <1>1, <2>1
<1> DEFINE ch == Bindings # <<>>
           ex == turn.executed
<1>11. ch <=> [items |-> items', lets |-> lets'] # turn.from
  <2>1. lets' = lets <=> Bindings = <<>>
    BY <1>1, <1>4, <1>5, AppendedDiffers
  <2> QED  BY <1>1, <1>2, <2>1
<1>12. /\ stage \notin {"ready", "closed"} /\ stage' = "ready"
       /\ turn' = Result(IF w THEN "Success" ELSE "thrown", w /\ ch, ex)
  BY <1>1 DEF Finish
<1>13. ch \in BOOLEAN /\ ex \in BOOLEAN /\ (ex => turn.executed)
  BY <1>2, TurnTyping
<1> HIDE DEF ch, ex
<1>14. IInv'
  BY <1>1, <1>6, <1>7, <1>9, <1>10, <1>11, <1>12, <1>13, EndsLoudly
<1>15. Grows
  BY <1>1, <1>2 DEF Grows
<1> QED
  BY <1>14, <1>15 DEF Accounted

\* The session ends.
LEMMA CloseStep ==
  ASSUME IInv, Close
  PROVE  IInv' /\ Accounted
<1>1. /\ stage = "ready" /\ stage' = "closed" /\ file' = NoProgram /\ exe' = NoProgram
      /\ UNCHANGED <<items, lets, turn>>
  BY DEF Close
<1>2. TypeOK'
  BY <1>1 DEF IInv, TypeOK, Stages
<1>3. Pending' /\ Accepted'
  BY <1>1 DEF Pending, Accepted
<1>4. Ran'
  BY <1>1 DEF IInv, Ran
<1>5. RefusedLeavesNoTrace' /\ ReportsChange' /\ ChangeIsSaved'
  BY <1>1 DEF IInv, RefusedLeavesNoTrace, ReportsChange, ChangeIsSaved
<1>6. PersistedResolves'
  BY <1>1 DEF IInv, PersistedResolves, Persisted
<1> QED
  BY <1>1, <1>2, <1>3, <1>4, <1>5, <1>6 DEF IInv, Accounted

\* Nothing happens.
LEMMA StutterStep ==
  ASSUME IInv, UNCHANGED vars
  PROVE  IInv' /\ Accounted
<1>1. UNCHANGED <<items, lets, file, exe, stage, turn>>
  BY DEF vars
<1>2. Candidate' = Candidate /\ Persisted' = Persisted
  BY <1>1 DEF Candidate, Persisted
<1>3. TypeOK'
  BY <1>1, <1>2 DEF IInv, TypeOK
<1>4. Pending' /\ Accepted'
  BY <1>1, <1>2 DEF IInv, Pending, Accepted, Same
<1>5. Ran'
  BY <1>1, <1>2 DEF IInv, Ran
<1>6. RefusedLeavesNoTrace' /\ ReportsChange' /\ ChangeIsSaved'
  BY <1>1, <1>2 DEF IInv, RefusedLeavesNoTrace, ReportsChange, ChangeIsSaved
<1>7. PersistedResolves'
  BY <1>2 DEF IInv, PersistedResolves
<1> QED
  BY <1>1, <1>3, <1>4, <1>5, <1>6, <1>7 DEF IInv, Accounted

\* A session begins with nothing.
LEMMA InitHolds ==
  ASSUME Init
  PROVE  IInv
<1>1. /\ items = <<>> /\ lets = <<>> /\ file = Persisted /\ exe = NoProgram
      /\ stage = "ready" /\ turn = NoTurn
  BY DEF Init
<1>2. Persisted = build_program_source(<<>>, <<>>, <<>>)
  BY <1>1 DEF Persisted
<1>3. Persisted \in Program
  <2>1. <<>> \in Seq(Item) /\ <<>> \in Seq(Stmt)
    OBVIOUS
  <2> QED  BY <1>2, <2>1, BuildTyping
<1>4. /\ turn.status = "none" /\ turn.changed = FALSE /\ turn.executed = FALSE
      /\ turn.from = [items |-> items, lets |-> lets]
  BY <1>1 DEF NoTurn, Empty
<1>5. TypeOK
  BY <1>1, <1>3, <1>4 DEF TypeOK, Stages, Statuses
<1>6. turn \in TurnSet
  BY <1>1 DEF NoTurn, Empty, TurnSet, Statuses
<1>7. Pending /\ Accepted /\ Ran
  BY <1>1, <1>4 DEF Pending, Accepted, Ran
<1>8. RefusedLeavesNoTrace /\ ReportsChange /\ ChangeIsSaved
  BY <1>4 DEF RefusedLeavesNoTrace, ReportsChange, ChangeIsSaved
<1>9. PersistedResolves
  BY <1>2, EmptyResolves DEF PersistedResolves
<1> QED
  BY <1>5, <1>6, <1>7, <1>8, <1>9 DEF IInv

\* Every step keeps the invariant and accounts for what it changed.
LEMMA NextStep ==
  ASSUME IInv, [Next]_vars
  PROVE  IInv' /\ Accounted
<1>1. ASSUME NEW f \in Fragments, Submit(f)  PROVE IInv' /\ Accounted
  BY <1>1, SubmitStep
<1>2. "Success" \in Statuses /\ "Error" \in Statuses /\ "ExitRequested" \in Statuses
  BY DEF Statuses
<1>3. CASE Answer({"empty", "help", "show"}, "Success")
  BY <1>2, <1>3, AnswerStep
<1>4. CASE Answer({"unknown", "garbage"}, "Error")
  BY <1>2, <1>4, AnswerStep
<1>5. CASE Answer({"quit"}, "ExitRequested")
  BY <1>2, <1>5, AnswerStep
<1>6. ASSUME NEW w \in BOOLEAN, HandleReset(w) PROVE IInv' /\ Accounted
  BY <1>6, HandleResetStep
<1>7. CASE RefuseReserved
  BY <1>7, RefuseReservedStep
<1>8. ASSUME NEW w \in BOOLEAN, LowerToTyir(w) PROVE IInv' /\ Accounted
  BY <1>8, LowerToTyirStep
<1>9. ASSUME NEW w \in BOOLEAN, CommitItems(w) PROVE IInv' /\ Accounted
  BY <1>9, CommitItemsStep
<1>10. ASSUME NEW w \in BOOLEAN, LowerToLir(w) PROVE IInv' /\ Accounted
  BY <1>10, LowerToLirStep
<1>11. CASE Build
  BY <1>11, BuildStep
<1>12. CASE StartFails
  BY <1>12, StartFailsStep
<1>13. CASE Run
  BY <1>13, RunStep
<1>14. ASSUME NEW w \in BOOLEAN, CommitLets(w) PROVE IInv' /\ Accounted
  BY <1>14, CommitLetsStep
<1>15. CASE Close
  BY <1>15, CloseStep
<1>16. CASE UNCHANGED vars
  BY <1>16, StutterStep
<1> QED
  BY <1>1, <1>3, <1>4, <1>5, <1>6, <1>7, <1>8, <1>9, <1>10, <1>11, <1>12, <1>13, <1>14,
     <1>15, <1>16 DEF Next

\* The invariant holds throughout every session.
THEOREM SessionInvariant == Spec => []IInv
<1>1. Init => IInv
  BY InitHolds
<1>2. IInv /\ [Next]_vars => IInv'
  BY NextStep
<1> QED
  BY <1>1, <1>2, PTL DEF Spec

\* Only named bindings are kept, nothing is executed but programs, and the
\* executable is built from the program that was lowered.
THEOREM SessionIsTyped == Spec => []TypeOK
<1>1. IInv => TypeOK
  BY DEF IInv
<1> QED
  BY <1>1, SessionInvariant, PTL

\* A turn of submit that ends in an error left items_ and persisted_lets_ as they
\* were, at whichever stage it failed.
THEOREM ErrorsLeaveNoTrace == Spec => []RefusedLeavesNoTrace
<1>1. IInv => RefusedLeavesNoTrace
  BY DEF IInv
<1> QED
  BY <1>1, SessionInvariant, PTL

\* state_changed says whether the turn changed items_ or persisted_lets_.
THEOREM StateChangedIsRight == Spec => []ReportsChange
<1>1. IInv => ReportsChange
  BY DEF IInv
<1> QED
  BY <1>1, SessionInvariant, PTL

\* The program replayed in every later turn declares what it uses, once, before
\* its use, and uses nothing it has moved, though the statements entered between
\* the bindings are not replayed.
THEOREM ReplayResolvesAlways == Spec => []PersistedResolves
<1>1. IInv => PersistedResolves
  BY DEF IInv
<1> QED
  BY <1>1, SessionInvariant, PTL

\* What a turn executes is the program of that turn, not an executable an earlier
\* turn left behind.
THEOREM ExecutesThisTurn == Spec => []RunsThisTurn
<1>1. IInv => RunsThisTurn
  BY DEF IInv, Ran, RunsThisTurn
<1> QED
  BY <1>1, SessionInvariant, PTL

\* After a turn that reports a change the session file holds what persists.
THEOREM ChangesAreSaved == Spec => []ChangeIsSaved
<1>1. IInv => ChangeIsSaved
  BY DEF IInv
<1> QED
  BY <1>1, SessionInvariant, PTL

\* items_ and persisted_lets_ change only by a reset, by items the compiler accepts
\* with all the rest, or by the bindings of a program that was lowered, linked
\* and ran to its end.
THEOREM GrowsByTheAccepted == Spec => CommitsOnlyAccepted
<1>1. IInv /\ [Next]_vars => [Grows]_<<items, lets>>
  BY NextStep DEF Accounted
<1> QED
  BY <1>1, SessionInvariant, PTL DEF Spec, CommitsOnlyAccepted
==============================================================================
