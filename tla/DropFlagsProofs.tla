--------------------------- MODULE DropFlagsProofs ---------------------------
(***************************************************************************)
(* What the move and borrow checker promises holds when an accepted        *)
(* function runs, for functions of every length and nesting and on every   *)
(* path: what it believes to be there is there, no value is moved twice,   *)
(* none is lost, and no value is moved away under a reference.             *)
(*                                                                         *)
(* What the checker knew fits along every edge of the control flow         *)
(* (BorrowCheckerProofs); execution keeps to what was known.               *)
(***************************************************************************)
EXTENDS DropFlags, BorrowCheckerProofs

-----------------------------------------------------------------------------
(***************************************************************************)
(* The accepted function                                                   *)
(***************************************************************************)

\* Before the first token there is the parameter.
LEMMA CheckInitChecked == ASSUME Inv, CheckInit PROVE Checked
<1>1. PICK src, P, ls, blocks :
        src = source /\ P = Knows /\ ls = locals /\ blocks = open
  OBVIOUS
<1>2. /\ locals \in Seq(Local) /\ open \in Seq(Block) /\ Present \in Known
      /\ source = <<>> /\ known = <<>> /\ Len(open) = 1 /\ open[1].at = 0
      /\ Len(locals) = 1 /\ locals[1] = NewLocal(0, FALSE, 0)
  BY OpenType, Remembered DEF CheckInit, NewBlock
<1>3. Len(P) = 1 /\ P[1] = Memory(locals, open) /\ P \in Seq(Known) /\ src \in Seq(Token)
        /\ Len(src) = 0
  BY <1>1, <1>2, PresentMemory DEF Knows
<1>4. P[1].locals = locals /\ Len(P[1].nest) = 1 /\ P[1].nest[1] = 0
  BY <1>2, <1>3, MemoryKnown
<1>5. Around(src, P, 1)
  BY <1>4 DEF Around
<1>6. Placed(src, locals, 1)
  BY <1>2 DEF Placed, NewLocal
<1>7. Closed(src, P)
  BY <1>3 DEF Closed
<1>8. Shaped(src, P)
  BY <1>3, <1>4, <1>5, <1>6, <1>7 DEF Shaped, PointOK
<1>9. Reads(src, P, open)
  BY <1>2 DEF Reads
<1>10. Model(src, P, locals, open)
  BY <1>2, <1>3, <1>8, <1>9 DEF Model, Typed
<1> QED BY <1>1, <1>10 DEF Checked

\* The function that is run: what was known before each of its tokens, the last
\* of which ends it.
Whole(src, P) ==
    /\ Typed(src, P) /\ Len(P) = Len(src) /\ Len(src) >= 1
    /\ \A p \in 1 .. Len(src) : PointOK(src, P, p)
    /\ \A p \in 1 .. Len(src) - 1 : TokenOK(src, P, p)
    /\ Closed(src, P)
    /\ src[Len(src)].op = "end" /\ Len(P[Len(src)].nest) = 1

Accepted == Whole(source, known)

LEMMA AcceptAccepted == ASSUME Inv, Inv', Checked, Accept PROVE Accepted'
<1>1. PICK src, P, longer :
        src = source /\ P = Knows /\ longer = Append(source, T("end", 0))
  OBVIOUS
<1>2. longer = source' /\ P = known' /\ Model(src, P, locals, open) /\ Innermost.kind = "fn"
  BY <1>1 DEF Accept, Checked, Knows
<1>3. T("end", 0) \in Token /\ T("end", 0).op = "end"
  BY TokenType DEF T, AllOps
<1>4. /\ src \in Seq(Token) /\ P \in Seq(Known) /\ Len(P) = Len(src) + 1 /\ Shaped(src, P)
      /\ P[Len(P)] = Memory(locals, open) /\ open \in Seq(Block) /\ Reads(src, P, open)
      /\ Len(src) \in Nat
  BY <1>2 DEF Model, Typed
<1>5. /\ longer \in Seq(Token) /\ Len(longer) = Len(src) + 1 /\ longer[Len(src) + 1].op = "end"
      /\ \A i \in 1 .. Len(src) : longer[i] = src[i]
  BY <1>1, <1>3, <1>4
<1>6. Begins(src, P, longer, P) /\ Typed(src, P)
  BY <1>4, <1>5 DEF Begins, Typed
<1>7. \A p \in 1 .. Len(longer) : PointOK(longer, P, p)
  <2> TAKE p \in 1 .. Len(longer)
  <2>1. p \in 1 .. Len(P) /\ PointOK(src, P, p)
    BY <1>4, <1>5 DEF Shaped
  <2> QED BY <1>6, <2>1, PointBegins
<1>8. \A p \in 1 .. Len(longer) - 1 : TokenOK(longer, P, p)
  <2> TAKE p \in 1 .. Len(longer) - 1
  <2>1. p \in 1 .. Len(P) /\ p \in 1 .. Len(P) - 1 /\ PointOK(src, P, p) /\ TokenOK(src, P, p)
    BY <1>4, <1>5 DEF Shaped
  <2> QED BY <1>6, <2>1, TokenBegins
<1>9. Closed(longer, P)
  <2>1. SUFFICES ASSUME NEW q \in 1 .. Len(longer), longer[q].op \in Openers
                 PROVE  \/ \E k \in 2 .. Len(P[Len(P)].nest) : P[Len(P)].nest[k] = q
                        \/ \E e \in 1 .. Len(P) - 1 : longer[e].op = "end" /\ Inner(P, e) = q
    BY DEF Closed
  <2>2. q \in 1 .. Len(src) /\ src[q].op \in Openers
    <3>1. q # Len(src) + 1
      BY <1>5, <2>1 DEF Openers
    <3> QED BY <1>4, <1>5, <2>1, <3>1
  <2>3. \/ \E k \in 2 .. Len(P[Len(P)].nest) : P[Len(P)].nest[k] = q
        \/ \E e \in 1 .. Len(P) - 1 : src[e].op = "end" /\ Inner(P, e) = q
    BY <1>4, <2>2 DEF Shaped, Closed
  <2>4. \A e \in 1 .. Len(P) - 1 : longer[e] = src[e]
    BY <1>4, <1>5
  <2> QED BY <2>3, <2>4
<1>10. Len(P[Len(longer)].nest) = 1
  <2>1. Len(open) \in Nat \ {0}
    BY OpenType
  <2>2. ~(Len(open) \in 2 .. Len(open))
    BY <1>2, <1>4 DEF Reads, BlockOK, Innermost
  <2>3. Len(P[Len(P)].nest) = Len(open)
    <3>1. locals \in Seq(Local)
      BY OpenType
    <3> QED BY <1>4, <3>1, MemoryKnown
  <2>4. Len(open) = 1
    <3>1. \A d \in Nat \ {0} : d \notin 2 .. d => d = 1
      OBVIOUS
    <3> QED BY <2>1, <2>2, <3>1
  <2> QED BY <1>4, <1>5, <2>3, <2>4
<1>11. Len(P) = Len(longer) /\ Len(longer) >= 1 /\ longer[Len(longer)].op = "end"
  BY <1>4, <1>5
<1> QED BY <1>2, <1>4, <1>5, <1>7, <1>8, <1>9, <1>10, <1>11 DEF Accepted, Whole, Typed

-----------------------------------------------------------------------------
(***************************************************************************)
(* Memory                                                                  *)
(***************************************************************************)

IsMem(m) == m = [live |-> m.live, points |-> m.points, faults |-> m.faults]

LEMMA Slots ==
    /\ \A p, q : Let(p) = Let(q) => p = q
    /\ \A p, q : Tmp(p) = Tmp(q) => p = q
    /\ \A p, q : Let(p) # Tmp(q)
    /\ \A p : Let(p)[1] = p /\ Tmp(p)[1] = p /\ Cond(p)[1] = p /\ Step(p)[1] = p
    /\ \A p, q : Cond(p) # Let(q) /\ Cond(p) # Tmp(q) /\ Step(p) # Let(q) /\ Step(p) # Tmp(q)
BY DEF Let, Tmp, Cond, Step

LEMMA AssignIs ==
    ASSUME NEW m, IsMem(m), NEW x
    PROVE  /\ IsMem(Assign(m, x)) /\ Assign(m, x).points = m.points
           /\ Assign(m, x).live = m.live \cup {x}
           /\ x \notin m.live => Assign(m, x).faults = m.faults
           /\ "stale" \in Assign(m, x).faults => "stale" \in m.faults
BY DEF IsMem, Assign

LEMMA MoveOutIs ==
    ASSUME NEW m, IsMem(m), NEW x
    PROVE  /\ IsMem(MoveOut(m, x)) /\ MoveOut(m, x).points = m.points
           /\ MoveOut(m, x).live = m.live \ {x}
           /\ x \in m.live => MoveOut(m, x).faults = m.faults
           /\ "lost" \in MoveOut(m, x).faults => "lost" \in m.faults
BY DEF IsMem, MoveOut

LEMMA TouchIs ==
    ASSUME NEW m, IsMem(m), NEW x
    PROVE  /\ IsMem(Touch(m, x)) /\ Touch(m, x).points = m.points /\ Touch(m, x).live = m.live
           /\ x \in m.live => Touch(m, x).faults = m.faults
           /\ "lost" \in Touch(m, x).faults => "lost" \in m.faults
BY DEF IsMem, Touch

LEMMA DropIs ==
    ASSUME NEW m, IsMem(m), NEW xs
    PROVE  /\ IsMem(Drop(m, xs)) /\ Drop(m, xs).points = m.points
           /\ Drop(m, xs).live = m.live \ xs /\ Drop(m, xs).faults = m.faults
BY DEF IsMem, Drop

LEMMA PointIs ==
    ASSUME NEW m, IsMem(m), NEW r, NEW x
    PROVE  /\ IsMem(Point(m, r, x)) /\ Point(m, r, x).live = m.live
           /\ Point(m, r, x).faults = m.faults
           /\ DOMAIN Point(m, r, x).points = DOMAIN m.points \cup {r}
           /\ Point(m, r, x).points[r] = x
           /\ \A p \in DOMAIN m.points : p # r => Point(m, r, x).points[p] = m.points[p]
BY DEF IsMem, Point

\* What the k-th local points at, when it is a reference
AimsAt(m, ls, k) ==
    ls[k].ref =>
        /\ ls[k].pos \in DOMAIN m.points
        /\ IF ls[k].of # 0 THEN m.points[ls[k].pos] = Let(ls[ls[k].of].pos)
           ELSE \E t \in Nat : t <= ls[k].pos /\ m.points[ls[k].pos] = Tmp(t)

Aims(m, ls) == \A k \in 1 .. Len(ls) : AimsAt(m, ls, k)

\* What the checker believes to be there is there.
AliveAt(m, l) ==
    IF l.ref THEN m.points[l.pos] \in m.live ELSE l.moved \/ Let(l.pos) \in m.live

Alive(m, ls) == \A k \in 1 .. Len(ls) : AliveAt(m, ls[k])

\* mm has what m had of the tokens before b.
Spares(m, mm, b) ==
    /\ \A x \in m.live : x[1] < b => x \in mm.live
    /\ \A r \in DOMAIN m.points :
          r < b => r \in DOMAIN mm.points /\ mm.points[r] = m.points[r]

\* The same locals
Starts(ls, ms) == Len(ms) <= Len(ls) /\ \A k \in 1 .. Len(ms) : Same(ls[k], ms[k])

LEMMA GrowsStarts ==
    ASSUME NEW ls \in Seq(Local), NEW ms \in Seq(Local)
    PROVE  /\ Grows(ms, ls) => Starts(ls, ms)
           /\ Assures(ls, ms) => Starts(ls, ms)
           /\ Kept(ls, ms) => Starts(ls, ms) /\ Assures(ls, ms)
BY DEF Grows, Assures, Kept, Starts, Same

LEMMA AimsStarts ==
    ASSUME NEW src, NEW p, NEW ls \in Seq(Local), NEW ms \in Seq(Local), NEW m,
           Placed(src, ls, p), Aims(m, ls), Starts(ls, ms)
    PROVE  Aims(m, ms)
<1> SUFFICES ASSUME NEW k \in 1 .. Len(ms), ms[k].ref
             PROVE  AimsAt(m, ms, k)
  BY DEF Aims, AimsAt
<1>1. k \in 1 .. Len(ls) /\ Same(ls[k], ms[k])
  BY DEF Starts
<1>2. ls[k].of < k /\ ls[k].of \in Nat
  BY <1>1, PlacedType DEF Placed
<1>3. ls[k].of # 0 => Same(ls[ls[k].of], ms[ls[k].of])
  <2>1. ls[k].of # 0 => ls[k].of \in 1 .. Len(ms)
    BY <1>2
  <2> QED BY <2>1 DEF Starts
<1>4. AimsAt(m, ls, k)
  BY <1>1 DEF Aims
<1> QED BY <1>1, <1>3, <1>4 DEF AimsAt, Same

LEMMA AliveAssured ==
    ASSUME NEW ls \in Seq(Local), NEW ms \in Seq(Local), NEW m, Alive(m, ls), Assures(ls, ms)
    PROVE  Alive(m, ms)
<1> SUFFICES ASSUME NEW k \in 1 .. Len(ms) PROVE AliveAt(m, ms[k])
  BY DEF Alive
<1>1. k \in 1 .. Len(ls) /\ Same(ls[k], ms[k]) /\ (ls[k].moved => ms[k].moved)
  BY DEF Assures
<1>2. AliveAt(m, ls[k])
  BY <1>1 DEF Alive
<1> QED BY <1>1, <1>2 DEF AliveAt, Same

\* A reference points at a slot of no later token.
LEMMA AimsBefore ==
    ASSUME NEW src, NEW p, NEW ls \in Seq(Local), NEW m, Placed(src, ls, p), Aims(m, ls),
           NEW k \in 1 .. Len(ls), ls[k].ref
    PROVE  /\ ls[k].pos \in DOMAIN m.points /\ ls[k].pos \in Nat
           /\ m.points[ls[k].pos][1] \in Nat /\ m.points[ls[k].pos][1] <= ls[k].pos
<1>1. AimsAt(m, ls, k) /\ ls[k].pos \in Nat /\ ls[k].of \in Nat /\ ls[k].of < k
  BY PlacedType DEF Aims, Placed
<1>2. CASE ls[k].of # 0
  <2>1. ls[k].of \in 1 .. Len(ls) /\ ls[k].of \in 1 .. k - 1
    BY <1>1, <1>2
  <2>2. ls[ls[k].of].pos \in Nat /\ ls[ls[k].of].pos < ls[k].pos
    BY <2>1, PlacedType DEF Placed
  <2>3. m.points[ls[k].pos] = Let(ls[ls[k].of].pos)
    BY <1>1, <1>2 DEF AimsAt
  <2> QED BY <1>1, <2>2, <2>3, Slots DEF AimsAt
<1>3. CASE ls[k].of = 0
  BY <1>1, <1>3, Slots DEF AimsAt
<1> QED BY <1>2, <1>3

LEMMA AimsSpared ==
    ASSUME NEW src, NEW b \in Nat, NEW ls \in Seq(Local), NEW m, NEW mm,
           Placed(src, ls, b), Aims(m, ls), Spares(m, mm, b)
    PROVE  Aims(mm, ls) /\ (Alive(m, ls) => Alive(mm, ls))
<1>1. ASSUME NEW k \in 1 .. Len(ls), ls[k].ref
      PROVE  /\ ls[k].pos \in DOMAIN m.points /\ ls[k].pos < b
             /\ ls[k].pos \in DOMAIN mm.points /\ mm.points[ls[k].pos] = m.points[ls[k].pos]
             /\ m.points[ls[k].pos] \in m.live => m.points[ls[k].pos] \in mm.live
  <2>1. /\ ls[k].pos \in DOMAIN m.points /\ ls[k].pos \in Nat
        /\ m.points[ls[k].pos][1] \in Nat /\ m.points[ls[k].pos][1] <= ls[k].pos
    BY <1>1, AimsBefore
  <2>2. ls[k].pos < b
    BY DEF Placed
  <2>3. m.points[ls[k].pos][1] < b
    BY <2>1, <2>2
  <2> QED BY <2>1, <2>2, <2>3 DEF Spares
<1>2. Aims(mm, ls)
  BY <1>1 DEF Aims, AimsAt
<1>3. ASSUME Alive(m, ls), NEW k \in 1 .. Len(ls) PROVE AliveAt(mm, ls[k])
  <2>1. AliveAt(m, ls[k])
    BY <1>3 DEF Alive
  <2>2. ls[k].pos < b /\ Let(ls[k].pos)[1] = ls[k].pos
    BY Slots DEF Placed
  <2>3. Let(ls[k].pos) \in m.live => Let(ls[k].pos) \in mm.live
    BY <2>2 DEF Spares
  <2> QED BY <1>1, <2>1, <2>3 DEF AliveAt
<1> QED BY <1>2, <1>3 DEF Alive

-----------------------------------------------------------------------------
(***************************************************************************)
(* The blocks of a whole function                                          *)
(***************************************************************************)

LEMMA WholeAt ==
    ASSUME NEW src, NEW P, Whole(src, P), NEW p \in 1 .. Len(src)
    PROVE  /\ Typed(src, P) /\ p \in 1 .. Len(P) /\ p \in Nat /\ Len(src) \in Nat
           /\ Around(src, P, p) /\ Placed(src, P[p].locals, p)
           /\ P[p].locals \in Seq(Local) /\ P[p].nest \in Seq(Nat) /\ Len(P[p].nest) \in Nat
           /\ Len(P[p].nest) >= 1 /\ P[p].nest[1] = 0 /\ P[p].reached \in BOOLEAN
           /\ src[p] \in Token /\ src[p].arg \in Nat
<1>1. /\ Typed(src, P) /\ p \in 1 .. Len(P) /\ p \in Nat /\ Len(src) \in Nat
      /\ PointOK(src, P, p) /\ src \in Seq(Token)
  BY DEF Whole, Typed
<1>2. src[p] \in Token
  BY <1>1
<1>3. src[p].arg \in Nat
  BY <1>2 DEF Token
<1> QED BY <1>1, <1>2, <1>3, PointType DEF PointOK, Around

\* The k-th block around p, of the header q
LEMMA BlockAround ==
    ASSUME NEW src, NEW P, Whole(src, P), NEW p \in 1 .. Len(src),
           NEW k, NEW q, HeaderAt(P, p, k, q)
    PROVE  /\ q \in 1 .. p - 1 /\ q \in 1 .. Len(src) /\ q + 1 \in 1 .. Len(src)
           /\ q \in 1 .. Len(src) - 1
           /\ q \in Nat /\ p \in Nat /\ k \in Nat /\ k >= 2 /\ k <= Len(P[p].nest)
           /\ src[q].op \in Openers
           /\ Len(P[q].nest) = k - 1 /\ \A j \in 1 .. k - 1 : P[q].nest[j] = P[p].nest[j]
           /\ Grows(P[q + 1].locals, P[p].locals)
           /\ P[p].reached => P[q].reached
           /\ \A j \in 1 .. k - 1 : P[p].nest[j] \in Nat /\ P[p].nest[j] < q
<1>1. Typed(src, P) /\ p \in 1 .. Len(P) /\ Around(src, P, p) /\ Len(P[p].nest) \in Nat
  BY WholeAt
<1>2. \A r \in 1 .. Len(P) : Around(src, P, r)
  BY DEF Whole, PointOK
<1>3. /\ q \in 1 .. p - 1 /\ q \in 1 .. Len(P) /\ q + 1 \in 1 .. Len(P)
      /\ q \in Nat /\ p \in Nat /\ src[q].op \in Openers /\ Len(P[q].nest) = k - 1
      /\ \A j \in 1 .. k - 1 : P[q].nest[j] = P[p].nest[j]
      /\ Grows(P[q + 1].locals, P[p].locals) /\ (P[p].reached => P[q].reached)
  BY <1>1, NestAt
<1>4. \A j \in 1 .. k - 1 : P[p].nest[j] \in Nat /\ P[p].nest[j] < q
  BY <1>1, <1>2, NestRises
<1>5. k \in Nat /\ k >= 2 /\ k <= Len(P[p].nest)
  BY <1>1 DEF HeaderAt
<1>6. Len(P) = Len(src) /\ Len(src) \in Nat
  BY DEF Whole, Typed
<1>7. q \in 1 .. Len(src) - 1
  BY <1>3, <1>6
<1> QED BY <1>3, <1>4, <1>5, <1>6, <1>7

Surrounds(src, P, p, k, q) ==
    /\ q \in 1 .. p - 1 /\ q \in Nat /\ p \in Nat /\ k \in Nat /\ k >= 2
    /\ k <= Len(P[p].nest) /\ src[q].op \in Openers
    /\ Len(P[q].nest) = k - 1 /\ \A j \in 1 .. k - 1 : P[q].nest[j] = P[p].nest[j]
    /\ \A j \in 1 .. k - 1 : P[p].nest[j] \in Nat /\ P[p].nest[j] < q

LEMMA BlockSurrounds ==
    ASSUME NEW src, NEW P, Whole(src, P), NEW p \in 1 .. Len(src),
           NEW k, NEW q, HeaderAt(P, p, k, q)
    PROVE  Surrounds(src, P, p, k, q)
BY BlockAround DEF Surrounds

\* In a block everything is in that block or in one inside it.
LEMMA InsideBlock ==
    ASSUME NEW src, NEW P, Whole(src, P), NEW p \in 1 .. Len(src),
           NEW k, NEW q, HeaderAt(P, p, k, q), NEW r \in q + 1 .. p
    PROVE  r \in 1 .. Len(src) /\ Inner(P, r) \in Nat /\ q <= Inner(P, r) /\ HeaderAt(P, r, k, q)
<1>1. /\ q \in Nat /\ p \in Nat /\ k \in Nat /\ k >= 2 /\ Around(src, P, p)
      /\ k <= Len(P[p].nest) /\ q \in 1 .. p - 1 /\ Len(P[p].nest) \in Nat
  <2>1. /\ q \in Nat /\ p \in Nat /\ k \in Nat /\ k >= 2 /\ k <= Len(P[p].nest)
        /\ q \in 1 .. p - 1
    BY BlockAround
  <2>2. Around(src, P, p) /\ Len(P[p].nest) \in Nat
    BY WholeAt
  <2> QED BY <2>1, <2>2
<1>2. r \in 1 .. Len(src) /\ r \in Nat
  BY <1>1
<1>3. Encloses(src, P, p, k, P[p].nest[k])
  BY <1>1 DEF Around
<1>4. k <= Len(P[r].nest) /\ P[r].nest[k] = q
  <2>1. q = P[p].nest[k]
    BY DEF HeaderAt
  <2>2. \A s \in q + 1 .. p :
            k <= Len(P[s].nest) /\ \A j \in 1 .. k : P[s].nest[j] = P[p].nest[j]
    BY <1>3, <2>1 DEF Encloses
  <2>3. k \in 1 .. k
    BY <1>1
  <2> QED BY <2>1, <2>2, <2>3
<1>5. PICK d \in Nat : d = Len(P[r].nest)
  BY <1>2, WholeAt
<1>6. PICK i : i = Inner(P, r)
  OBVIOUS
<1>7. k <= d /\ i = P[r].nest[d]
  BY <1>4, <1>5, <1>6 DEF Inner
<1>8. HeaderAt(P, r, k, q) /\ HeaderAt(P, r, d, i)
  BY <1>1, <1>4, <1>5, <1>7 DEF HeaderAt
<1>9. i \in Nat /\ \A j \in 1 .. d - 1 : P[r].nest[j] < i
  BY <1>2, <1>8, BlockAround
<1>10. CASE k = d
  BY <1>1, <1>2, <1>4, <1>6, <1>7, <1>8, <1>10
<1>11. CASE k < d
  <2>1. k \in 1 .. d - 1
    BY <1>1, <1>5, <1>11
  <2>2. q < i
    BY <1>4, <1>9, <2>1
  <2> QED BY <1>1, <1>2, <1>6, <1>8, <1>9, <2>2
<1> QED BY <1>1, <1>5, <1>7, <1>10, <1>11

\* A block is around a point once.
LEMMA OnceAround ==
    ASSUME NEW src, NEW P, Whole(src, P), NEW p \in 1 .. Len(src),
           NEW k, NEW j, NEW q, HeaderAt(P, p, k, q), HeaderAt(P, p, j, q)
    PROVE  k = j
<1>1. Len(P[q].nest) = k - 1 /\ Len(P[q].nest) = j - 1 /\ k \in Nat /\ j \in Nat
  BY BlockAround
<1> QED BY <1>1

\* The end of the block of q
EndAt(src, P, q, e) == e \in 1 .. Len(src) - 1 /\ src[e].op = "end" /\ Inner(P, e) = q

LEMMA HasEnd ==
    ASSUME NEW src, NEW P, Whole(src, P), NEW q \in 1 .. Len(src), src[q].op \in Openers
    PROVE  \E e \in 1 .. Len(src) : EndAt(src, P, q, e)
<1>1. Len(P) = Len(src) /\ Len(src) \in Nat /\ ~(\E k \in 2 .. Len(P[Len(P)].nest) : TRUE)
  BY DEF Whole, Typed
<1>2. \E e \in 1 .. Len(P) - 1 : src[e].op = "end" /\ Inner(P, e) = q
  BY <1>1 DEF Whole, Closed
<1> QED BY <1>1, <1>2 DEF EndAt

LEMMA EndFacts ==
    ASSUME NEW src, NEW P, Whole(src, P), NEW q \in 1 .. Len(src), NEW e, EndAt(src, P, q, e)
    PROVE  /\ e \in 1 .. Len(src) /\ e + 1 \in 1 .. Len(src) /\ q < e /\ e \in Nat /\ q \in Nat
           /\ q \in 1 .. e - 1 /\ HeaderAt(P, e, Len(P[e].nest), q)
           /\ EndOK(src, P, e, q) /\ FallsOut(src, P, e, q) /\ BranchesJoin(src, P, e, q)
           /\ BreaksOut(src, P, e, q) /\ StepGives(src, P, q)
<1>1. /\ e \in 1 .. Len(src) /\ e + 1 \in 1 .. Len(src) /\ e \in Nat /\ q \in Nat
      /\ e \in 1 .. Len(src) - 1 /\ src[e].op = "end" /\ Inner(P, e) = q
  <2>1. Len(src) \in Nat
    BY WholeAt
  <2> QED BY <2>1 DEF EndAt
<1>2. TokenOK(src, P, e)
  BY <1>1 DEF Whole
<1>3. /\ EndOK(src, P, e, q) /\ FallsOut(src, P, e, q) /\ BranchesJoin(src, P, e, q)
      /\ BreaksOut(src, P, e, q) /\ StepGives(src, P, q)
  BY <1>1, <1>2 DEF TokenOK
<1>4. HeaderAt(P, e, Len(P[e].nest), q)
  <2>1. Len(P[e].nest) > 1 /\ Len(P[e].nest) \in Nat
    BY <1>1, <1>3, WholeAt DEF EndOK
  <2> QED BY <1>1, <2>1 DEF HeaderAt, Inner
<1>5. q \in 1 .. e - 1
  BY <1>1, <1>4, BlockAround
<1> QED BY <1>1, <1>3, <1>4, <1>5

\* What is in a block is before its end.
LEMMA EndIsLast ==
    ASSUME NEW src, NEW P, Whole(src, P), NEW q \in 1 .. Len(src), NEW e, EndAt(src, P, q, e),
           NEW r \in 1 .. Len(src), NEW k, HeaderAt(P, r, k, q)
    PROVE  r <= e
<1>1. /\ e \in Nat /\ q \in Nat /\ q < e /\ EndOK(src, P, e, q) /\ e + 1 \in 1 .. Len(src)
  BY EndFacts
<1>2. Len(P[q].nest) = k - 1 /\ r \in Nat /\ k \in Nat /\ k >= 2
  BY BlockAround
<1>3. SUFFICES ASSUME r > e PROVE FALSE
  BY <1>1, <1>2
<1>4. e + 1 \in q + 1 .. r
  BY <1>1, <1>2, <1>3
<1>5. HeaderAt(P, e + 1, k, q)
  BY <1>4, InsideBlock
<1>6. k <= Len(P[e + 1].nest)
  BY <1>1, <1>5, BlockAround
<1>7. Len(P[e + 1].nest) = k - 1
  BY <1>1, <1>2 DEF EndOK, Agree
<1> QED BY <1>2, <1>6, <1>7

LEMMA OneEnd ==
    ASSUME NEW src, NEW P, Whole(src, P), NEW q \in 1 .. Len(src),
           NEW d, EndAt(src, P, q, d), NEW e, EndAt(src, P, q, e)
    PROVE  d = e
<1>1. d \in 1 .. Len(src) /\ HeaderAt(P, d, Len(P[d].nest), q) /\ d \in Nat
  BY EndFacts
<1>2. e \in 1 .. Len(src) /\ HeaderAt(P, e, Len(P[e].nest), q) /\ e \in Nat
  BY EndFacts
<1>3. d <= e
  BY <1>1, EndIsLast
<1>4. e <= d
  BY <1>2, EndIsLast
<1> QED BY <1>1, <1>2, <1>3, <1>4

\* The block of q begins, at depth d.
Deeper(P, q, d) == d = Len(P[q].nest) + 1

LEMMA Opening ==
    ASSUME NEW src, NEW P, Whole(src, P), NEW q \in 1 .. Len(src) - 1, src[q].op \in Openers,
           NEW d, Deeper(P, q, d)
    PROVE  /\ q \in 1 .. Len(src) /\ q + 1 \in 1 .. Len(src)
           /\ HeaderAt(P, q + 1, d, q) /\ Len(P[q + 1].nest) = d /\ d \in Nat
           /\ \A j \in 1 .. d - 1 : P[q + 1].nest[j] = P[q].nest[j]
           /\ P[q].reached => P[q + 1].reached
           /\ HeaderOK(src[q], q, P[q].locals, P[q + 1].locals)
           /\ Starts(P[q + 1].locals, P[q].locals)
<1>1. q \in 1 .. Len(src) /\ q + 1 \in 1 .. Len(src)
  <2>1. Len(src) \in Nat
    BY DEF Whole, Typed
  <2> QED BY <2>1
<1>2. /\ Agree(P[q + 1].nest, Append(P[q].nest, q)) /\ (P[q].reached => P[q + 1].reached)
      /\ HeaderOK(src[q], q, P[q].locals, P[q + 1].locals)
  BY DEF Whole, TokenOK
<1>3. /\ P[q].nest \in Seq(Nat) /\ q \in Nat /\ Len(P[q].nest) \in Nat /\ Len(P[q].nest) >= 1
      /\ P[q].locals \in Seq(Local) /\ P[q + 1].locals \in Seq(Local)
  BY <1>1, WholeAt
<1>4. PICK n \in Nat : n = Len(P[q].nest)
  BY <1>3
<1>5. /\ Len(P[q + 1].nest) = n + 1 /\ P[q + 1].nest[n + 1] = q
      /\ \A j \in 1 .. n : P[q + 1].nest[j] = P[q].nest[j]
  <2>1. PICK s, t : s = P[q].nest /\ t = P[q + 1].nest
    OBVIOUS
  <2>2. Agree(t, Append(s, q)) /\ s \in Seq(Nat)
    BY <1>2, <1>3, <2>1
  <2>3. /\ Len(t) = Len(s) + 1 /\ t[Len(s) + 1] = q
        /\ \A j \in 1 .. Len(s) : t[j] = s[j]
    BY <1>3, <2>2, AgreeAppend
  <2> QED BY <1>4, <2>1, <2>3
<1>6. d = n + 1 /\ d \in Nat /\ d \in 2 .. d /\ d - 1 = n
  <2>1. n >= 1
    BY <1>3, <1>4
  <2>2. d = n + 1
    BY <1>4 DEF Deeper
  <2> QED BY <2>1, <2>2
<1>7. HeaderAt(P, q + 1, d, q)
  BY <1>5, <1>6 DEF HeaderAt
<1>8. Grows(P[q].locals, P[q + 1].locals)
  BY <1>2 DEF HeaderOK, Kept, Plus
<1>9. Starts(P[q + 1].locals, P[q].locals)
  BY <1>3, <1>8, GrowsStarts
<1> QED BY <1>1, <1>2, <1>5, <1>6, <1>7, <1>9

\* What the scope of a token holds for as long as it lives
Keeps(src, x, k) ==
    \/ src[k].op \in {"make", "move"} /\ x = Let(k)
    \/ src[k].op \in {"temp", "refTemp"} /\ x = Tmp(k)

\* What may be owned at a point: the parameter, what the tokens of the blocks
\* around it made, and what the headers of the `for' around it declare.
Held(src, P, x, p) ==
    \/ x = Let(0)
    \/ \E k \in 1 .. p - 1 :
          Keeps(src, x, k) /\ \E j \in 1 .. Len(P[p].nest) : Inner(P, k) = P[p].nest[j]
    \/ \E j \in 2 .. Len(P[p].nest) : src[P[p].nest[j]].op = "for" /\ x = Let(P[p].nest[j])

\* All that the blocks around p from the k-th on made, but for the header of the
\* k-th, is in D.
Clears(src, P, p, k, D) ==
    /\ \A x : \A i \in 1 .. p - 1, j \in k .. Len(P[p].nest) :
          Inner(P, i) = P[p].nest[j] /\ Keeps(src, x, i) => x \in D
    /\ \A j \in k + 1 .. Len(P[p].nest) :
          src[P[p].nest[j]].op = "for" => Let(P[p].nest[j]) \in D

\* The blocks around p are around r.
Within(P, p, r) ==
    /\ Len(P[p].nest) <= Len(P[r].nest)
    /\ \A j \in 1 .. Len(P[p].nest) : P[p].nest[j] = P[r].nest[j]

LEMMA HeldOn ==
    ASSUME NEW src, NEW P, Whole(src, P), NEW p \in 1 .. Len(src), NEW r \in 1 .. Len(src),
           p <= r, Within(P, p, r), NEW x, Held(src, P, x, p)
    PROVE  Held(src, P, x, r)
<1>1. /\ 1 .. Len(P[p].nest) \subseteq 1 .. Len(P[r].nest)
      /\ 2 .. Len(P[p].nest) \subseteq 2 .. Len(P[r].nest)
      /\ 2 .. Len(P[p].nest) \subseteq 1 .. Len(P[p].nest)
      /\ 1 .. p - 1 \subseteq 1 .. r - 1
  <2>1. Len(P[p].nest) \in Nat /\ Len(P[r].nest) \in Nat /\ p \in Nat /\ r \in Nat
    BY WholeAt
  <2> QED BY SMTT(30), <2>1 DEF Within
<1> QED BY <1>1 DEF Held, Within

\* What is still owned when a block is left was owned at its header.
LEMMA HeldOut ==
    ASSUME NEW src, NEW P, Whole(src, P), NEW p \in 1 .. Len(src),
           NEW k, NEW q, HeaderAt(P, p, k, q), NEW D, Clears(src, P, p, k, D),
           NEW x, Held(src, P, x, p), x \notin D
    PROVE  Held(src, P, x, q) \/ (src[q].op = "for" /\ x = Let(q))
<1>1. /\ q \in 1 .. p - 1 /\ q \in Nat /\ p \in Nat /\ k \in Nat /\ k >= 2
      /\ k <= Len(P[p].nest) /\ src[q].op \in Openers
      /\ Len(P[q].nest) = k - 1 /\ \A j \in 1 .. k - 1 : P[q].nest[j] = P[p].nest[j]
      /\ \A j \in 1 .. k - 1 : P[p].nest[j] \in Nat /\ P[p].nest[j] < q
  <2>1. Surrounds(src, P, p, k, q)
    BY BlockSurrounds
  <2> QED BY <2>1 DEF Surrounds
<1>2. PICK d \in Nat : d = Len(P[p].nest)
  BY WholeAt
<1>3. CASE x = Let(0)
  BY <1>3 DEF Held
<1>4. CASE \E i \in 1 .. p - 1 :
             Keeps(src, x, i) /\ \E j \in 1 .. Len(P[p].nest) : Inner(P, i) = P[p].nest[j]
  <2>1. PICK i \in 1 .. p - 1 :
          Keeps(src, x, i) /\ \E j \in 1 .. Len(P[p].nest) : Inner(P, i) = P[p].nest[j]
    BY <1>4
  <2>2. PICK j \in 1 .. Len(P[p].nest) : Inner(P, i) = P[p].nest[j]
    BY <2>1
  <2>3. j \notin k .. Len(P[p].nest)
    BY <2>1, <2>2 DEF Clears
  <2>4. j \in 1 .. k - 1
    BY <1>1, <1>2, <2>3
  <2>5. Inner(P, i) < q
    BY <1>1, <2>2, <2>4
  <2>6. i \notin q + 1 .. p
    <3>1. SUFFICES ASSUME i \in q + 1 .. p PROVE FALSE
      OBVIOUS
    <3>2. q <= Inner(P, i) /\ Inner(P, i) \in Nat
      BY <3>1, InsideBlock
    <3> QED BY <1>1, <2>5, <3>2
  <2>7. i # q
    BY <1>1, <2>1 DEF Keeps, Openers
  <2>8. i \in 1 .. q - 1
    BY <1>1, <2>6, <2>7
  <2>9. j \in 1 .. Len(P[q].nest) /\ Inner(P, i) = P[q].nest[j]
    BY <1>1, <2>2, <2>4
  <2> QED BY <2>1, <2>8, <2>9 DEF Held
<1>5. CASE \E j \in 2 .. Len(P[p].nest) : src[P[p].nest[j]].op = "for" /\ x = Let(P[p].nest[j])
  <2>1. PICK j \in 2 .. Len(P[p].nest) : src[P[p].nest[j]].op = "for" /\ x = Let(P[p].nest[j])
    BY <1>5
  <2>2. j \notin k + 1 .. Len(P[p].nest)
    BY <2>1 DEF Clears
  <2>3. j = k \/ j \in 2 .. k - 1
    BY <1>1, <1>2, <2>2
  <2>4. CASE j = k
    BY <2>1, <2>4 DEF HeaderAt
  <2>5. CASE j \in 2 .. k - 1
    <3>1. j \in 1 .. k - 1 /\ j \in 2 .. Len(P[q].nest)
      BY <1>1, <2>5
    <3>2. P[q].nest[j] = P[p].nest[j]
      BY <1>1, <3>1
    <3> QED BY <2>1, <3>1, <3>2 DEF Held
  <2> QED BY <2>3, <2>4, <2>5
<1> QED BY <1>3, <1>4, <1>5 DEF Held

-----------------------------------------------------------------------------
(***************************************************************************)
(* What holds of memory at a point                                         *)
(***************************************************************************)

\* A loop moves nothing that is not its own, so its header moves nothing.
MovesOwn(src, P) ==
    \A p \in 1 .. Len(src) :
        /\ src[p].op \in {"move", "consume"} =>
              \A k \in 2 .. Len(P[p].nest) :
                 src[P[p].nest[k]].op \in Looping => src[p].arg > P[p].nest[k]
        /\ src[p].cond # "take" /\ src[p].step # "take"

Quiet(src) == \A p \in 1 .. Len(src) : src[p].cond # "temp" /\ src[p].step # "temp"

LoopsAlive(src, P, m, p) ==
    \A k \in 2 .. Len(P[p].nest) :
        src[P[p].nest[k]].op \in Looping => Alive(m, P[P[p].nest[k] + 1].locals)

\* What the checker knows is there, and what it knew when the loops began
Safe(src, P, m, p) ==
    "stale" \notin m.faults /\ Alive(m, P[p].locals) /\ LoopsAlive(src, P, m, p)

Clean(src, P, m, p) == "lost" \notin m.faults /\ \A x \in m.live : Held(src, P, x, p)

Sane(src, P, m, p) ==
    /\ IsMem(m) /\ p \in 1 .. Len(src) /\ P[p].reached
    /\ \A r \in DOMAIN m.points : r \in 1 .. Len(src) /\ src[r].op \in Pointing
    /\ Aims(m, P[p].locals)

Good(src, P, m, p) ==
    /\ Sane(src, P, m, p)
    /\ MovesOwn(src, P) => Safe(src, P, m, p)
    /\ Quiet(src) => Clean(src, P, m, p)

\* The scopes around the header of a block
LEMMA HeaderScopes ==
    ASSUME NEW src, NEW P, Whole(src, P), NEW p \in 1 .. Len(src),
           NEW k, NEW q, HeaderAt(P, p, k, q), NEW m, Aims(m, P[p].locals)
    PROVE  /\ q \in 1 .. Len(src) /\ q + 1 \in 1 .. Len(src) /\ q \in Nat /\ q + 1 \in Nat
           /\ P[q].locals \in Seq(Local) /\ P[q + 1].locals \in Seq(Local)
           /\ Placed(src, P[q].locals, q) /\ Placed(src, P[q + 1].locals, q + 1)
           /\ Aims(m, P[q].locals) /\ Aims(m, P[q + 1].locals)
<1>1. /\ q \in 1 .. Len(src) /\ q + 1 \in 1 .. Len(src) /\ q \in Nat /\ q + 1 \in Nat
      /\ q \in 1 .. Len(src) - 1 /\ src[q].op \in Openers
      /\ Grows(P[q + 1].locals, P[p].locals)
  BY BlockAround
<1>2. /\ P[q].locals \in Seq(Local) /\ P[q + 1].locals \in Seq(Local)
      /\ Placed(src, P[q].locals, q) /\ Placed(src, P[q + 1].locals, q + 1)
  BY <1>1, WholeAt
<1>3. P[p].locals \in Seq(Local) /\ Placed(src, P[p].locals, p)
  BY WholeAt
<1>4. Starts(P[p].locals, P[q + 1].locals)
  BY <1>1, <1>2, <1>3, GrowsStarts
<1>5. Aims(m, P[q + 1].locals)
  BY <1>2, <1>3, <1>4, AimsStarts
<1>6. Starts(P[q + 1].locals, P[q].locals)
  <2>1. PICK d : Deeper(P, q, d)
    BY DEF Deeper
  <2> QED BY <1>1, <2>1, Opening
<1>7. Aims(m, P[q].locals)
  BY <1>2, <1>5, <1>6, AimsStarts
<1> QED BY <1>1, <1>2, <1>5, <1>7

\* What a loop needs is there as long as its header's slots are spared.
LEMMA LoopsSpared ==
    ASSUME NEW src, NEW P, Whole(src, P), NEW p \in 1 .. Len(src), NEW r \in 1 .. Len(src),
           Within(P, r, p), NEW m, NEW mm, Aims(m, P[p].locals), LoopsAlive(src, P, m, p),
           \A k \in 2 .. Len(P[r].nest) :
              src[P[p].nest[k]].op \in Looping => Spares(m, mm, P[p].nest[k] + 1)
    PROVE  LoopsAlive(src, P, mm, r)
<1> SUFFICES ASSUME NEW k \in 2 .. Len(P[r].nest), src[P[r].nest[k]].op \in Looping
             PROVE  Alive(mm, P[P[r].nest[k] + 1].locals)
  BY DEF LoopsAlive
<1>1. k \in 2 .. Len(P[p].nest) /\ P[r].nest[k] = P[p].nest[k]
  <2>1. Len(P[p].nest) \in Nat /\ Len(P[r].nest) \in Nat
    BY WholeAt
  <2>2. k \in 1 .. Len(P[r].nest) /\ k \in 2 .. Len(P[p].nest)
    BY <2>1 DEF Within
  <2> QED BY <2>2 DEF Within
<1>2. PICK q : q = P[p].nest[k]
  OBVIOUS
<1>3. HeaderAt(P, p, k, q)
  BY <1>1, <1>2 DEF HeaderAt
<1>4. /\ q + 1 \in Nat /\ P[q + 1].locals \in Seq(Local)
      /\ Placed(src, P[q + 1].locals, q + 1) /\ Aims(m, P[q + 1].locals)
  BY <1>3, HeaderScopes
<1>5. src[q].op \in Looping
  BY <1>1, <1>2
<1>6. Alive(m, P[q + 1].locals) /\ Spares(m, mm, q + 1)
  BY <1>1, <1>2, <1>5 DEF LoopsAlive
<1>7. Alive(mm, P[q + 1].locals)
  BY <1>4, <1>6, AimsSpared
<1> QED BY <1>1, <1>2, <1>7

\* Slots of earlier tokens are spared.
Only(D, b) == \A x \in D : x[1] \in Nat /\ b <= x[1]

LEMMA DropSpares ==
    ASSUME NEW m, IsMem(m), NEW D, NEW b \in Nat, Only(D, b), NEW c \in Nat, c <= b
    PROVE  Spares(m, Drop(m, D), c)
<1>1. \A x \in D : ~(x[1] < c)
  BY DEF Only
<1> QED BY <1>1, DropIs DEF Spares

\* A loop is left.
LEMMA Leave ==
    ASSUME NEW src, NEW P, Whole(src, P), NEW p, NEW m, Good(src, P, m, p),
           NEW k, NEW q, HeaderAt(P, p, k, q), src[q].op \in Looping,
           NEW D, Clears(src, P, p, k, D), Only(D, q), src[q].op = "for" => Let(q) \in D
    PROVE  Good(src, P, Drop(m, D), q)
<1>1. p \in 1 .. Len(src) /\ IsMem(m) /\ P[p].reached /\ Aims(m, P[p].locals)
  BY DEF Good, Sane
<1>2. /\ IsMem(Drop(m, D)) /\ Drop(m, D).points = m.points
      /\ Drop(m, D).live = m.live \ D /\ Drop(m, D).faults = m.faults
  BY <1>1, DropIs
<1>3. /\ q \in 1 .. Len(src) /\ q \in Nat /\ q + 1 \in Nat
      /\ P[q].locals \in Seq(Local) /\ P[q + 1].locals \in Seq(Local)
      /\ Placed(src, P[q].locals, q) /\ Aims(m, P[q].locals)
  BY <1>1, HeaderScopes
<1>4. /\ P[p].reached => P[q].reached
      /\ src[q].op \in Openers /\ k \in Nat /\ k >= 2 /\ k <= Len(P[p].nest)
      /\ Len(P[q].nest) = k - 1 /\ \A j \in 1 .. k - 1 : P[q].nest[j] = P[p].nest[j]
      /\ \A j \in 1 .. k - 1 : P[p].nest[j] \in Nat /\ P[p].nest[j] < q
      /\ q \in 1 .. Len(src) - 1
  BY SMTT(30), <1>1, BlockAround
<1>5. Spares(m, Drop(m, D), q)
  BY <1>1, <1>3, DropSpares
<1>6. Sane(src, P, Drop(m, D), q)
  <2>1. Aims(Drop(m, D), P[q].locals)
    BY <1>3, <1>5, AimsSpared
  <2> QED BY <1>1, <1>2, <1>3, <1>4, <2>1 DEF Good, Sane
<1>7. ASSUME MovesOwn(src, P) PROVE Safe(src, P, Drop(m, D), q)
  <2>1. Safe(src, P, m, p)
    BY <1>7 DEF Good
  <2>2. Alive(m, P[q + 1].locals)
    BY <2>1, <1>4 DEF Safe, LoopsAlive, HeaderAt
  <2>3. Assures(P[q + 1].locals, P[q].locals)
    <3>1. PICK d : Deeper(P, q, d)
      BY DEF Deeper
    <3>2. HeaderOK(src[q], q, P[q].locals, P[q + 1].locals)
      BY <1>4, <3>1, Opening
    <3> QED BY <1>3, <1>7, <3>2 DEF HeaderOK, MovesOwn
  <2>4. Alive(m, P[q].locals)
    BY <1>3, <2>2, <2>3, AliveAssured
  <2>5. Alive(Drop(m, D), P[q].locals)
    BY <1>3, <1>5, <2>4, AimsSpared
  <2>6. Within(P, q, p)
    <3>1. Len(P[p].nest) \in Nat
      BY <1>1, WholeAt
    <3> QED BY <1>4, <3>1 DEF Within
  <2>7. \A j \in 2 .. Len(P[q].nest) : Spares(m, Drop(m, D), P[p].nest[j] + 1)
    <3> TAKE j \in 2 .. Len(P[q].nest)
    <3>1. j \in 1 .. k - 1
      BY <1>4
    <3>2. P[p].nest[j] + 1 \in Nat /\ P[p].nest[j] + 1 <= q
      BY SMTT(30), <1>3, <1>4, <3>1
    <3> QED BY <1>1, <1>3, <3>2, DropSpares
  <2>8. LoopsAlive(src, P, Drop(m, D), q)
    BY <1>1, <1>3, <2>1, <2>6, <2>7, LoopsSpared DEF Safe
  <2> QED BY <1>2, <2>1, <2>5, <2>8 DEF Safe
<1>8. ASSUME Quiet(src) PROVE Clean(src, P, Drop(m, D), q)
  <2>1. Clean(src, P, m, p)
    BY <1>8 DEF Good
  <2>2. ASSUME NEW x \in m.live, x \notin D PROVE Held(src, P, x, q)
    <3>1. Held(src, P, x, p)
      BY <2>1 DEF Clean
    <3>2. Held(src, P, x, q) \/ (src[q].op = "for" /\ x = Let(q))
      BY <1>1, <2>2, <3>1, HeldOut
    <3> QED BY <2>2, <3>2
  <2> QED BY <1>2, <2>1, <2>2 DEF Clean
<1> QED BY <1>6, <1>7, <1>8 DEF Good

\* A `for' goes on with its step.
LEMMA LeaveToStep ==
    ASSUME NEW src, NEW P, Whole(src, P), NEW p, NEW m, Good(src, P, m, p),
           NEW k, NEW q, HeaderAt(P, p, k, q), src[q].op = "for",
           NEW D, Clears(src, P, p, k, D), Only(D, q + 1)
    PROVE  Good(src, P, Drop(m, D), q + 1)
<1>1. p \in 1 .. Len(src) /\ IsMem(m) /\ P[p].reached /\ Aims(m, P[p].locals)
  BY DEF Good, Sane
<1>2. /\ IsMem(Drop(m, D)) /\ Drop(m, D).points = m.points
      /\ Drop(m, D).live = m.live \ D /\ Drop(m, D).faults = m.faults
  BY <1>1, DropIs
<1>3. /\ q \in 1 .. Len(src) /\ q + 1 \in 1 .. Len(src) /\ q \in Nat /\ q + 1 \in Nat
      /\ P[q + 1].locals \in Seq(Local)
      /\ Placed(src, P[q + 1].locals, q + 1) /\ Aims(m, P[q + 1].locals)
  BY <1>1, HeaderScopes
<1>4. /\ P[p].reached => P[q].reached
      /\ src[q].op \in Openers /\ k \in Nat /\ k >= 2 /\ k <= Len(P[p].nest)
      /\ Len(P[q].nest) = k - 1 /\ \A j \in 1 .. k - 1 : P[q].nest[j] = P[p].nest[j]
      /\ \A j \in 1 .. k - 1 : P[p].nest[j] \in Nat /\ P[p].nest[j] < q
      /\ q \in 1 .. Len(src) - 1
  BY SMTT(30), <1>1, BlockAround
<1>5. Spares(m, Drop(m, D), q + 1)
  BY SMTT(30), <1>1, <1>3, DropSpares
<1>6. /\ Len(P[q + 1].nest) = k /\ P[q + 1].nest[k] = q
      /\ \A j \in 1 .. k - 1 : P[q + 1].nest[j] = P[q].nest[j]
      /\ P[q].reached => P[q + 1].reached
  <2>1. PICK d : Deeper(P, q, d)
    BY DEF Deeper
  <2>2. d = k
    BY <1>4, <2>1 DEF Deeper
  <2>3. /\ HeaderAt(P, q + 1, d, q) /\ Len(P[q + 1].nest) = d
        /\ \A j \in 1 .. d - 1 : P[q + 1].nest[j] = P[q].nest[j]
        /\ P[q].reached => P[q + 1].reached
    BY <1>4, <2>1, Opening
  <2> QED BY <2>2, <2>3 DEF HeaderAt
<1>7. Sane(src, P, Drop(m, D), q + 1)
  <2>1. Aims(Drop(m, D), P[q + 1].locals)
    BY <1>3, <1>5, AimsSpared
  <2> QED BY <1>1, <1>2, <1>3, <1>4, <1>6, <2>1 DEF Good, Sane
<1>8. ASSUME MovesOwn(src, P) PROVE Safe(src, P, Drop(m, D), q + 1)
  <2>1. Safe(src, P, m, p)
    BY <1>8 DEF Good
  <2>2. Alive(m, P[q + 1].locals)
    BY <2>1 DEF Safe, LoopsAlive, HeaderAt, Looping
  <2>3. Alive(Drop(m, D), P[q + 1].locals)
    BY <1>3, <1>5, <2>2, AimsSpared
  <2>4. Within(P, q + 1, p) /\ \A j \in 2 .. Len(P[q + 1].nest) :
                                 Spares(m, Drop(m, D), P[p].nest[j] + 1)
    <3>1. P[p].nest[k] = q
      BY DEF HeaderAt
    <3>2. \A j \in 1 .. k : P[q + 1].nest[j] = P[p].nest[j]
      <4> TAKE j \in 1 .. k
      <4>1. j = k \/ j \in 1 .. k - 1
        BY <1>4
      <4> QED BY <1>4, <1>6, <3>1, <4>1
    <3>3. \A j \in 2 .. k : Spares(m, Drop(m, D), P[p].nest[j] + 1)
      <4> TAKE j \in 2 .. k
      <4>1. j = k \/ j \in 1 .. k - 1
        BY <1>4
      <4>2. P[p].nest[j] + 1 \in Nat /\ P[p].nest[j] + 1 <= q + 1
        BY SMTT(30), <1>3, <1>4, <3>1, <4>1
      <4> QED BY <1>1, <1>3, <4>2, DropSpares
    <3> QED BY <1>4, <1>6, <3>2, <3>3 DEF Within
  <2>5. LoopsAlive(src, P, Drop(m, D), q + 1)
    BY <1>1, <1>3, <2>1, <2>4, LoopsSpared DEF Safe
  <2> QED BY <1>2, <2>1, <2>3, <2>5 DEF Safe
<1>9. ASSUME Quiet(src) PROVE Clean(src, P, Drop(m, D), q + 1)
  <2>1. Clean(src, P, m, p)
    BY <1>9 DEF Good
  <2>2. ASSUME NEW x \in m.live, x \notin D PROVE Held(src, P, x, q + 1)
    <3>1. Held(src, P, x, p)
      BY <2>1 DEF Clean
    <3>2. Held(src, P, x, q) \/ x = Let(q)
      BY <1>1, <2>2, <3>1, HeldOut
    <3>3. CASE x = Let(q)
      <4>1. k \in 2 .. Len(P[q + 1].nest)
        BY <1>4, <1>6
      <4> QED BY <1>6, <3>3, <4>1 DEF Held
    <3>4. CASE Held(src, P, x, q)
      <4>1. Within(P, q, q + 1) /\ q <= q + 1
        BY <1>3, <1>4, <1>6 DEF Within
      <4> QED BY <1>3, <3>4, <4>1, HeldOn
    <3> QED BY <3>2, <3>3, <3>4
  <2> QED BY <1>2, <2>1, <2>2 DEF Clean
<1> QED BY <1>7, <1>8, <1>9 DEF Good

\* A later point, in the same blocks or at the beginning of one of them
LEMMA Advance ==
    ASSUME NEW src, NEW P, Whole(src, P), NEW p, NEW m, Good(src, P, m, p),
           NEW r \in 1 .. Len(src), p <= r, P[r].reached, Assures(P[p].locals, P[r].locals),
           Within(P, p, r), \A k \in Len(P[p].nest) + 1 .. Len(P[r].nest) :
              src[P[r].nest[k]].op \in Looping => P[r].nest[k] + 1 = r
    PROVE  Good(src, P, m, r)
<1>1. p \in 1 .. Len(src) /\ IsMem(m) /\ P[p].reached /\ Aims(m, P[p].locals)
  BY DEF Good, Sane
<1>2. /\ P[p].locals \in Seq(Local) /\ P[r].locals \in Seq(Local)
      /\ Placed(src, P[p].locals, p)
  BY <1>1, WholeAt
<1>3. Sane(src, P, m, r)
  <2>1. Starts(P[p].locals, P[r].locals)
    BY <1>2, GrowsStarts
  <2>2. Aims(m, P[r].locals)
    BY <1>1, <1>2, <2>1, AimsStarts
  <2> QED BY <1>1, <2>2 DEF Good, Sane
<1>4. ASSUME MovesOwn(src, P) PROVE Safe(src, P, m, r)
  <2>1. Safe(src, P, m, p)
    BY <1>4 DEF Good
  <2>2. Alive(m, P[r].locals)
    BY <1>2, <2>1, AliveAssured DEF Safe
  <2>3. LoopsAlive(src, P, m, r)
    <3> SUFFICES ASSUME NEW k \in 2 .. Len(P[r].nest), src[P[r].nest[k]].op \in Looping
                 PROVE  Alive(m, P[P[r].nest[k] + 1].locals)
      BY DEF LoopsAlive
    <3>1. k \in 2 .. Len(P[p].nest) \/ k \in Len(P[p].nest) + 1 .. Len(P[r].nest)
      <4>1. Len(P[p].nest) \in Nat /\ Len(P[r].nest) \in Nat
        BY <1>1, WholeAt
      <4> QED BY <4>1
    <3>2. CASE k \in 2 .. Len(P[p].nest)
      <4>1. P[p].nest[k] = P[r].nest[k]
        <5>1. k \in 1 .. Len(P[p].nest)
          BY <3>2
        <5> QED BY <5>1 DEF Within
      <4> QED BY <2>1, <3>2, <4>1 DEF Safe, LoopsAlive
    <3>3. CASE k \in Len(P[p].nest) + 1 .. Len(P[r].nest)
      BY <2>2, <3>3
    <3> QED BY <3>1, <3>2, <3>3
  <2> QED BY <2>1, <2>2, <2>3 DEF Safe
<1>5. ASSUME Quiet(src) PROVE Clean(src, P, m, r)
  <2>1. Clean(src, P, m, p)
    BY <1>5 DEF Good
  <2>2. \A x \in m.live : Held(src, P, x, r)
    BY <1>1, <2>1, HeldOn DEF Clean
  <2> QED BY <2>1, <2>2 DEF Clean
<1> QED BY <1>3, <1>4, <1>5 DEF Good

LEMMA AgreeAt ==
    ASSUME NEW s, NEW t, Agree(s, t)
    PROVE  Len(t) = Len(s) /\ \A j \in 1 .. Len(s) : t[j] = s[j]
BY DEF Agree

\* e is the `else' of the `if' q.
Alternates(src, q, e) == src[q].op = "if" /\ Turns(src, e, q)

\* What goes on behind a block, from its header
LEMMA Arrive ==
    ASSUME NEW src, NEW P, Whole(src, P), NEW q, NEW m, Good(src, P, m, q),
           NEW e, EndAt(src, P, q, e), P[e + 1].reached
    PROVE  Good(src, P, m, e + 1)
<1>1. q \in 1 .. Len(src)
  BY DEF Good, Sane
<1>2. e + 1 \in 1 .. Len(src) /\ q <= e + 1 /\ EndOK(src, P, e, q)
  <2>1. e + 1 \in 1 .. Len(src) /\ q < e /\ e \in Nat /\ q \in Nat /\ EndOK(src, P, e, q)
    BY <1>1, EndFacts
  <2> QED BY <2>1
<1>3. P[q].locals \in Seq(Local) /\ P[e + 1].locals \in Seq(Local) /\ Len(P[q].nest) \in Nat
  BY <1>1, <1>2, WholeAt
<1>4. Assures(P[q].locals, P[e + 1].locals)
  BY <1>2, <1>3, GrowsStarts DEF EndOK
<1>5. Within(P, q, e + 1) /\ Len(P[q].nest) + 1 .. Len(P[e + 1].nest) = {}
  BY SMTT(30), <1>2, <1>3 DEF EndOK, Agree, Within
<1> QED BY <1>2, <1>4, <1>5, Advance

\* The body of a block begins with what its header found.
LEMMA Enter ==
    ASSUME NEW src, NEW P, Whole(src, P), NEW q, NEW m, Good(src, P, m, q),
           src[q].op \in Openers, src[q].op # "for"
    PROVE  Good(src, P, m, q + 1)
<1>1. q \in 1 .. Len(src) /\ P[q].reached
  BY DEF Good, Sane
<1>2. q \in 1 .. Len(src) - 1 /\ q \in Nat
  <2>1. src[Len(src)].op = "end" /\ Len(src) \in Nat
    BY DEF Whole, Typed
  <2>2. q # Len(src)
    BY <2>1 DEF Openers
  <2> QED BY <1>1, <2>1, <2>2
<1>3. PICK d : Deeper(P, q, d)
  BY DEF Deeper
<1>4. /\ q + 1 \in 1 .. Len(src)
      /\ HeaderAt(P, q + 1, d, q) /\ Len(P[q + 1].nest) = d /\ d \in Nat
      /\ \A j \in 1 .. d - 1 : P[q + 1].nest[j] = P[q].nest[j]
      /\ P[q].reached => P[q + 1].reached
      /\ HeaderOK(src[q], q, P[q].locals, P[q + 1].locals)
  BY <1>2, <1>3, Opening
<1>5. P[q].locals \in Seq(Local) /\ P[q + 1].locals \in Seq(Local) /\ Len(P[q].nest) \in Nat
  BY <1>1, <1>4, WholeAt
<1>6. Assures(P[q].locals, P[q + 1].locals)
  BY <1>4, <1>5, GrowsStarts DEF HeaderOK
<1>7. Len(P[q].nest) = d - 1
  BY <1>3, <1>5 DEF Deeper
<1>8. Within(P, q, q + 1)
  BY <1>4, <1>7 DEF Within
<1>9. \A k \in Len(P[q].nest) + 1 .. Len(P[q + 1].nest) : P[q + 1].nest[k] = q
  <2>1. \A k \in Len(P[q].nest) + 1 .. Len(P[q + 1].nest) : k = d
    BY <1>4, <1>5, <1>7
  <2> QED BY <1>4, <2>1 DEF HeaderAt
<1>10. q <= q + 1
  BY <1>2
<1> QED BY <1>1, <1>4, <1>6, <1>8, <1>9, <1>10, Advance

\* So does the `else' of an `if'.
LEMMA EnterElse ==
    ASSUME NEW src, NEW P, Whole(src, P), NEW q, NEW m, Good(src, P, m, q),
           NEW e \in 1 .. Len(src), Alternates(src, q, e)
    PROVE  Good(src, P, m, e + 1)
<1>1. q \in 1 .. Len(src) /\ P[q].reached /\ q \in Nat
  BY DEF Good, Sane
<1>2. e \in 1 .. Len(src) - 1 /\ e \in Nat /\ e + 1 \in 1 .. Len(src)
  <2>1. src[Len(src)].op = "end" /\ Len(src) \in Nat
    BY DEF Whole, Typed
  <2>2. e # Len(src)
    BY <2>1 DEF Turns, Alternates
  <2> QED BY <2>1, <2>2
<1>3. ElseOK(src, P, e)
  BY <1>2 DEF Whole, TokenOK, Turns, Alternates
<1>4. PICK d \in Nat : d = Len(P[e].nest)
  BY WholeAt
<1>5. /\ Inner(P, e) = q /\ d > 1 /\ Agree(P[e].nest, P[e + 1].nest)
      /\ Kept(P[q].locals, P[e + 1].locals) /\ P[e + 1].reached
  BY <1>1, <1>3, <1>4 DEF ElseOK, Turns, Alternates
<1>6. HeaderAt(P, e, d, q)
  BY <1>4, <1>5 DEF HeaderAt, Inner
<1>7. /\ q \in 1 .. e - 1 /\ Len(P[q].nest) = d - 1
      /\ \A j \in 1 .. d - 1 : P[q].nest[j] = P[e].nest[j]
  <2>1. Surrounds(src, P, e, d, q)
    BY <1>6, BlockSurrounds
  <2> QED BY <2>1 DEF Surrounds
<1>8. /\ Len(P[e + 1].nest) = d /\ P[e + 1].nest[d] = q
      /\ \A j \in 1 .. d - 1 : P[e + 1].nest[j] = P[q].nest[j]
  <2>1. /\ Len(P[e + 1].nest) = Len(P[e].nest)
        /\ \A j \in 1 .. Len(P[e].nest) : P[e + 1].nest[j] = P[e].nest[j]
    <3>1. PICK s, t : s = P[e].nest /\ t = P[e + 1].nest
      OBVIOUS
    <3>2. Agree(s, t)
      BY <1>5, <3>1
    <3>3. Len(t) = Len(s) /\ \A j \in 1 .. Len(s) : t[j] = s[j]
      BY <3>2, AgreeAt
    <3> QED BY <3>1, <3>3
  <2>2. d \in 1 .. Len(P[e].nest) /\ 1 .. d - 1 \subseteq 1 .. Len(P[e].nest)
    BY <1>4, <1>5
  <2>3. P[e + 1].nest[d] = q
    BY <2>1, <2>2, <1>6 DEF HeaderAt
  <2>4. \A j \in 1 .. d - 1 : P[e + 1].nest[j] = P[q].nest[j]
    BY <1>7, <2>1, <2>2
  <2> QED BY <1>4, <2>1, <2>3, <2>4
<1>9. P[q].locals \in Seq(Local) /\ P[e + 1].locals \in Seq(Local)
  BY <1>1, <1>2, WholeAt
<1>10. Assures(P[q].locals, P[e + 1].locals)
  BY <1>5, <1>9, GrowsStarts
<1>11. Within(P, q, e + 1)
  <2>1. d - 1 <= d
    BY <1>4
  <2> QED BY <1>7, <1>8, <2>1 DEF Within
<1>12. \A k \in Len(P[q].nest) + 1 .. Len(P[e + 1].nest) : P[e + 1].nest[k] = q
  <2>1. \A k \in Len(P[q].nest) + 1 .. Len(P[e + 1].nest) : k = d
    BY <1>4, <1>7, <1>8
  <2> QED BY <1>8, <2>1
<1>13. src[q].op \notin Looping
  BY DEF Looping, Alternates
<1>14. q <= e + 1
  BY <1>1, <1>2, <1>7
<1> QED BY <1>2, <1>5, <1>10, <1>11, <1>12, <1>13, <1>14, Advance

\* A block that is no loop is left where it ends.
LEMMA Fall ==
    ASSUME NEW src, NEW P, Whole(src, P), NEW p, NEW m, Good(src, P, m, p),
           NEW k, NEW q, HeaderAt(P, p, k, q), src[q].op \notin Looping,
           NEW e, EndAt(src, P, q, e), Flows(P, p, e + 1),
           NEW D, Clears(src, P, p, k, D), Only(D, q)
    PROVE  Good(src, P, Drop(m, D), e + 1)
<1>1. p \in 1 .. Len(src) /\ IsMem(m) /\ P[p].reached /\ Aims(m, P[p].locals)
  BY DEF Good, Sane
<1>2. /\ IsMem(Drop(m, D)) /\ Drop(m, D).points = m.points
      /\ Drop(m, D).live = m.live \ D /\ Drop(m, D).faults = m.faults
  BY <1>1, DropIs
<1>3. /\ q \in 1 .. Len(src) /\ q \in Nat /\ P[q].locals \in Seq(Local)
      /\ Placed(src, P[q].locals, q)
  BY <1>1, HeaderScopes
<1>4. /\ k \in Nat /\ k >= 2 /\ k <= Len(P[p].nest)
      /\ Len(P[q].nest) = k - 1 /\ \A j \in 1 .. k - 1 : P[q].nest[j] = P[p].nest[j]
      /\ \A j \in 1 .. k - 1 : P[p].nest[j] \in Nat /\ P[p].nest[j] < q
  BY SMTT(30), <1>1, BlockAround
<1>5. e + 1 \in 1 .. Len(src) /\ q <= e + 1 /\ EndOK(src, P, e, q)
  <2>1. e + 1 \in 1 .. Len(src) /\ q < e /\ e \in Nat /\ EndOK(src, P, e, q)
    BY <1>3, EndFacts
  <2> QED BY <1>3, <2>1
<1>6. P[e + 1].locals \in Seq(Local) /\ P[p].locals \in Seq(Local) /\ Placed(src, P[p].locals, p)
  BY <1>1, <1>5, WholeAt
<1>7. Placed(src, P[e + 1].locals, q)
  <2>1. Assures(P[q].locals, P[e + 1].locals)
    BY <1>3, <1>5, <1>6, GrowsStarts DEF EndOK
  <2> QED BY <1>3, <1>6, <2>1, PlacedPart
<1>8. P[e + 1].reached /\ Assures(P[p].locals, P[e + 1].locals)
  BY <1>1 DEF Flows
<1>9. Aims(m, P[e + 1].locals)
  BY <1>1, <1>6, <1>8, GrowsStarts, AimsStarts
<1>10. Spares(m, Drop(m, D), q)
  BY <1>1, <1>3, DropSpares
<1>11. /\ Len(P[e + 1].nest) = k - 1 /\ Within(P, q, e + 1)
       /\ \A j \in 1 .. k - 1 : P[e + 1].nest[j] = P[p].nest[j]
  <2>1. Agree(P[q].nest, P[e + 1].nest) /\ Len(P[q].nest) \in Nat
    BY <1>4, <1>5 DEF EndOK
  <2>2. /\ Len(P[e + 1].nest) = Len(P[q].nest)
        /\ \A j \in 1 .. Len(P[q].nest) : P[e + 1].nest[j] = P[q].nest[j]
    <3>1. PICK s, t : s = P[q].nest /\ t = P[e + 1].nest
      OBVIOUS
    <3>2. Agree(s, t)
      BY <2>1, <3>1
    <3>3. Len(t) = Len(s) /\ \A j \in 1 .. Len(s) : t[j] = s[j]
      BY <3>2, AgreeAt
    <3> QED BY <3>1, <3>3
  <2>3. Within(P, q, e + 1)
    BY <2>1, <2>2 DEF Within
  <2>4. \A j \in 1 .. k - 1 : P[e + 1].nest[j] = P[p].nest[j]
    BY <1>4, <2>2
  <2> QED BY <1>4, <2>2, <2>3, <2>4
<1>12. Sane(src, P, Drop(m, D), e + 1)
  <2>1. Aims(Drop(m, D), P[e + 1].locals)
    BY <1>3, <1>6, <1>7, <1>9, <1>10, AimsSpared
  <2> QED BY <1>2, <1>5, <1>8, <2>1 DEF Good, Sane
<1>13. ASSUME MovesOwn(src, P) PROVE Safe(src, P, Drop(m, D), e + 1)
  <2>1. Safe(src, P, m, p)
    BY <1>13 DEF Good
  <2>2. Alive(m, P[e + 1].locals)
    BY <1>6, <1>8, <2>1, AliveAssured DEF Safe
  <2>3. Alive(Drop(m, D), P[e + 1].locals)
    BY <1>3, <1>6, <1>7, <1>9, <1>10, <2>2, AimsSpared
  <2>4. Within(P, e + 1, p)
    <3>1. Len(P[p].nest) \in Nat
      BY <1>1, WholeAt
    <3> QED BY <1>4, <1>11, <3>1 DEF Within
  <2>5. \A j \in 2 .. Len(P[e + 1].nest) : Spares(m, Drop(m, D), P[p].nest[j] + 1)
    <3> TAKE j \in 2 .. Len(P[e + 1].nest)
    <3>1. j \in 1 .. k - 1
      BY <1>4, <1>11
    <3>2. P[p].nest[j] + 1 \in Nat /\ P[p].nest[j] + 1 <= q
      BY SMTT(30), <1>3, <1>4, <3>1
    <3> QED BY <1>1, <1>3, <3>2, DropSpares
  <2>6. LoopsAlive(src, P, Drop(m, D), e + 1)
    BY <1>1, <1>5, <2>1, <2>4, <2>5, LoopsSpared DEF Safe
  <2> QED BY <1>2, <2>1, <2>3, <2>6 DEF Safe
<1>14. ASSUME Quiet(src) PROVE Clean(src, P, Drop(m, D), e + 1)
  <2>1. Clean(src, P, m, p)
    BY <1>14 DEF Good
  <2>2. ASSUME NEW x \in m.live, x \notin D PROVE Held(src, P, x, e + 1)
    <3>1. Held(src, P, x, p)
      BY <2>1 DEF Clean
    <3>2. Held(src, P, x, q) \/ (src[q].op = "for" /\ x = Let(q))
      BY <1>1, <2>2, <3>1, HeldOut
    <3>3. Held(src, P, x, q)
      BY <3>2 DEF Looping
    <3> QED BY <1>3, <1>5, <1>11, <3>3, HeldOn
  <2> QED BY <1>2, <2>1, <2>2 DEF Clean
<1> QED BY <1>12, <1>13, <1>14 DEF Good

-----------------------------------------------------------------------------
(***************************************************************************)
(* What a statement does                                                   *)
(***************************************************************************)

\* A reference declared before p stays as it is, and a value is there still or
\* is what was moved.
Undergoes(m, mm, p, gone) ==
    /\ IsMem(mm) /\ \A x \in m.live : x \in gone \/ x \in mm.live
    /\ \A r \in DOMAIN m.points :
          r < p => r \in DOMAIN mm.points /\ mm.points[r] = m.points[r]
    /\ \A r \in DOMAIN mm.points : r \in DOMAIN m.points \/ r = p

\* What was moved was free to be, and is known to be moved.
Spends(ls, ms, gone) ==
    \/ gone = {}
    \/ \E i \in 1 .. Len(ls) :
          gone = {Let(ls[i].pos)} /\ Gives(ls, i, ls[i].pos) /\ ms[i].moved

LEMMA StepScope ==
    ASSUME NEW src, NEW p \in Nat, NEW ls \in Seq(Local), NEW ms \in Seq(Local),
           Placed(src, ls, p), Grows(ls, ms), NEW m, NEW mm, Aims(m, ls),
           NEW gone, Undergoes(m, mm, p, gone), Spends(ls, ms, gone)
    PROVE  \A k \in 1 .. Len(ls) :
              AimsAt(mm, ms, k) /\ (AliveAt(m, ls[k]) => AliveAt(mm, ms[k]))
<1> SUFFICES ASSUME NEW k \in 1 .. Len(ls)
             PROVE  AimsAt(mm, ms, k) /\ (AliveAt(m, ls[k]) => AliveAt(mm, ms[k]))
  OBVIOUS
<1>1. /\ Same(ls[k], ms[k]) /\ (ls[k].moved => ms[k].moved) /\ AimsAt(m, ls, k)
      /\ ls[k].pos < p /\ ls[k].pos \in Nat /\ ls[k].of < k /\ ls[k].of \in Nat
  BY PlacedType DEF Grows, Aims, Placed
<1>2. ls[k].of # 0 => ls[k].of \in 1 .. Len(ls) /\ Same(ls[ls[k].of], ms[ls[k].of])
  <2>1. ls[k].of # 0 => ls[k].of \in 1 .. Len(ls)
    BY <1>1
  <2> QED BY <2>1 DEF Grows
<1>3. AimsAt(mm, ms, k)
  BY <1>1, <1>2 DEF AimsAt, Same, Undergoes
<1>4. ASSUME ls[k].ref, m.points[ls[k].pos] \in m.live
      PROVE  m.points[ls[k].pos] \notin gone
  <2>1. SUFFICES ASSUME NEW i \in 1 .. Len(ls), Gives(ls, i, ls[i].pos),
                        m.points[ls[k].pos] = Let(ls[i].pos)
                 PROVE  FALSE
    BY DEF Spends
  <2>2. ls[k].of # 0
    BY <1>1, <1>4, <2>1, Slots DEF AimsAt
  <2>3. m.points[ls[k].pos] = Let(ls[ls[k].of].pos)
    BY <1>1, <1>4, <2>2 DEF AimsAt
  <2>4. ls[ls[k].of].pos = ls[i].pos
    BY <2>1, <2>3, Slots
  <2>5. PICK o \in 1 .. Len(ls) : o = ls[k].of
    BY <1>2, <2>2
  <2>6. o = i
    BY <2>4, <2>5, PlacesDiffer
  <2> QED BY <2>1, <2>5, <2>6 DEF Gives
<1>5. ASSUME AliveAt(m, ls[k]) PROVE AliveAt(mm, ms[k])
  <2>1. CASE ls[k].ref
    BY <1>1, <1>4, <1>5, <2>1 DEF AliveAt, Same, Undergoes, AimsAt
  <2>2. CASE ~ls[k].ref
    <3>1. CASE Let(ls[k].pos) \in gone
      <4>1. PICK i \in 1 .. Len(ls) : Let(ls[k].pos) = Let(ls[i].pos) /\ ms[i].moved
        BY <3>1 DEF Spends
      <4>2. i = k
        BY <4>1, Slots, PlacesDiffer
      <4> QED BY <1>1, <2>2, <4>1, <4>2 DEF AliveAt, Same
    <3>2. CASE Let(ls[k].pos) \notin gone
      BY <1>1, <1>5, <2>2, <3>2 DEF AliveAt, Same, Undergoes
    <3> QED BY <3>1, <3>2
  <2> QED BY <2>1, <2>2
<1> QED BY <1>3, <1>5

\* The last of the locals, if one was declared
Declares(own, m, ls, ms) ==
    \/ Len(ms) = Len(ls)
    \/ /\ Len(ms) = Len(ls) + 1 /\ AimsAt(m, ms, Len(ms))
       /\ own => AliveAt(m, ms[Len(ms)])

\* What was moved was not a loop's.
Spared(src, P, p, gone) ==
    \A k \in 2 .. Len(P[p].nest) :
        src[P[p].nest[k]].op \in Looping => \A x \in gone : ~(x[1] < P[p].nest[k] + 1)

LEMMA StepGood ==
    ASSUME NEW src, NEW P, Whole(src, P), NEW p, NEW m, Good(src, P, m, p),
           p + 1 \in 1 .. Len(src), P[p + 1].reached, Within(P, p, p + 1),
           \A k \in Len(P[p].nest) + 1 .. Len(P[p + 1].nest) : P[p + 1].nest[k] = p,
           Grows(P[p].locals, P[p + 1].locals), NEW mm, NEW gone,
           Undergoes(m, mm, p, gone), Spends(P[p].locals, P[p + 1].locals, gone),
           Declares(MovesOwn(src, P), mm, P[p].locals, P[p + 1].locals),
           p \in DOMAIN mm.points => src[p].op \in Pointing,
           MovesOwn(src, P) => "stale" \notin mm.faults /\ Spared(src, P, p, gone),
           Quiet(src) => Clean(src, P, mm, p + 1)
    PROVE  Good(src, P, mm, p + 1)
<1>1. p \in 1 .. Len(src) /\ IsMem(m) /\ P[p].reached /\ Aims(m, P[p].locals) /\ p \in Nat
  BY DEF Good, Sane
<1>2. PICK ls, ms : ls = P[p].locals /\ ms = P[p + 1].locals
  OBVIOUS
<1>3. ls \in Seq(Local) /\ ms \in Seq(Local) /\ Placed(src, ls, p)
  BY <1>1, <1>2, WholeAt
<1>4. /\ Grows(ls, ms) /\ Aims(m, ls) /\ Spends(ls, ms, gone)
      /\ Declares(MovesOwn(src, P), mm, ls, ms)
  BY <1>1, <1>2
<1>5. \A k \in 1 .. Len(ls) : AimsAt(mm, ms, k) /\ (AliveAt(m, ls[k]) => AliveAt(mm, ms[k]))
  BY <1>1, <1>3, <1>4, StepScope
<1>6. \A k \in 1 .. Len(ms) : k \in 1 .. Len(ls) \/ (Len(ms) = Len(ls) + 1 /\ k = Len(ms))
  <2>1. Len(ls) \in Nat /\ (Len(ms) = Len(ls) \/ Len(ms) = Len(ls) + 1)
    BY <1>3, <1>4 DEF Declares
  <2> QED BY <2>1
<1>7. Len(ls) # Len(ls) + 1
  BY <1>3
<1>8. Aims(mm, ms)
  BY <1>4, <1>5, <1>6, <1>7 DEF Aims, Declares
<1>9. Sane(src, P, mm, p + 1)
  <2>1. \A r \in DOMAIN mm.points : r \in 1 .. Len(src) /\ src[r].op \in Pointing
    BY <1>1 DEF Good, Sane, Undergoes
  <2> QED BY <1>2, <1>8, <2>1 DEF Sane, Undergoes
<1>10. ASSUME MovesOwn(src, P) PROVE Safe(src, P, mm, p + 1)
  <2>1. Alive(m, ls) /\ LoopsAlive(src, P, m, p)
    BY <1>2, <1>10 DEF Good, Safe
  <2>2. Alive(mm, ms)
    BY <1>4, <1>5, <1>6, <1>7, <1>10, <2>1 DEF Alive, Declares
  <2>3. LoopsAlive(src, P, mm, p)
    <3>1. Within(P, p, p)
      BY <1>1, WholeAt DEF Within
    <3>2. ASSUME NEW k \in 2 .. Len(P[p].nest), src[P[p].nest[k]].op \in Looping
          PROVE  Spares(m, mm, P[p].nest[k] + 1)
      <4>1. PICK q : q = P[p].nest[k]
        OBVIOUS
      <4>2. q \in Nat /\ q < p
        <5>1. HeaderAt(P, p, k, q)
          BY <4>1 DEF HeaderAt
        <5>2. q \in Nat /\ q \in 1 .. p - 1
          BY <1>1, <5>1, BlockAround
        <5> QED BY <1>1, <5>2
      <4>3. \A x \in gone : ~(x[1] < q + 1)
        BY <1>10, <3>2, <4>1 DEF Spared
      <4>4. ASSUME NEW r \in DOMAIN m.points, r < q + 1 PROVE r < p
        <5>1. r \in Nat
          BY DEF Good, Sane
        <5> QED BY <1>1, <4>2, <4>4, <5>1
      <4>5. Spares(m, mm, q + 1)
        BY <4>3, <4>4 DEF Spares, Undergoes
      <4> QED BY <4>1, <4>5
    <3> QED BY <1>1, <2>1, <3>1, <3>2, LoopsSpared
  <2>4. LoopsAlive(src, P, mm, p + 1)
    <3> SUFFICES ASSUME NEW k \in 2 .. Len(P[p + 1].nest),
                        src[P[p + 1].nest[k]].op \in Looping
                 PROVE  Alive(mm, P[P[p + 1].nest[k] + 1].locals)
      BY DEF LoopsAlive
    <3>1. k \in 2 .. Len(P[p].nest) \/ k \in Len(P[p].nest) + 1 .. Len(P[p + 1].nest)
      <4>1. Len(P[p].nest) \in Nat /\ Len(P[p + 1].nest) \in Nat
        BY <1>1, WholeAt
      <4> QED BY <4>1
    <3>2. CASE k \in 2 .. Len(P[p].nest)
      <4>1. P[p].nest[k] = P[p + 1].nest[k]
        <5>1. k \in 1 .. Len(P[p].nest)
          BY <3>2
        <5> QED BY <5>1 DEF Within
      <4> QED BY <2>3, <3>2, <4>1 DEF LoopsAlive
    <3>3. CASE k \in Len(P[p].nest) + 1 .. Len(P[p + 1].nest)
      BY <1>2, <2>2, <3>3
    <3> QED BY <3>1, <3>2, <3>3
  <2> QED BY <1>2, <1>10, <2>2, <2>4 DEF Safe
<1> QED BY <1>9, <1>10 DEF Good

\* What may be owned at a point was made before it.
LEMMA HeldBefore ==
    ASSUME NEW src, NEW P, Whole(src, P), NEW p \in 1 .. Len(src), NEW x, Held(src, P, x, p)
    PROVE  x[1] \in Nat /\ x[1] < p
<1>1. p \in Nat /\ p >= 1
  BY WholeAt
<1>2. CASE x = Let(0)
  BY <1>1, <1>2, Slots
<1>3. CASE \E i \in 1 .. p - 1 :
             Keeps(src, x, i) /\ \E j \in 1 .. Len(P[p].nest) : Inner(P, i) = P[p].nest[j]
  <2>1. PICK i \in 1 .. p - 1 : Keeps(src, x, i)
    BY <1>3
  <2>2. x[1] = i
    BY <2>1, Slots DEF Keeps
  <2> QED BY <1>1, <2>1, <2>2
<1>4. CASE \E j \in 2 .. Len(P[p].nest) : src[P[p].nest[j]].op = "for" /\ x = Let(P[p].nest[j])
  <2>1. PICK j \in 2 .. Len(P[p].nest) : x = Let(P[p].nest[j])
    BY <1>4
  <2>2. PICK q : HeaderAt(P, p, j, q)
    BY DEF HeaderAt
  <2>3. q \in Nat /\ q \in 1 .. p - 1
    BY <2>2, BlockAround
  <2>4. x[1] = q
    BY <2>1, <2>2, Slots DEF HeaderAt
  <2> QED BY <1>1, <2>3, <2>4
<1> QED BY <1>2, <1>3, <1>4 DEF Held

\* A statement of a reached point
Steps(src, P, m, p) ==
    /\ p \in 1 .. Len(src) /\ p \in Nat /\ p + 1 \in 1 .. Len(src)
    /\ IsMem(m) /\ P[p].reached /\ P[p + 1].reached /\ Within(P, p, p + 1)
    /\ \A k \in Len(P[p].nest) + 1 .. Len(P[p + 1].nest) : P[p + 1].nest[k] = p
    /\ P[p].locals \in Seq(Local) /\ P[p + 1].locals \in Seq(Local)
    /\ Placed(src, P[p].locals, p) /\ Aims(m, P[p].locals)
    /\ \A r \in DOMAIN m.points : r \in 1 .. Len(src) /\ src[r].op \in Pointing
    /\ MovesOwn(src, P) => "stale" \notin m.faults /\ Alive(m, P[p].locals)
    /\ Quiet(src) => "lost" \notin m.faults /\ Let(p) \notin m.live /\ Tmp(p) \notin m.live
    /\ Quiet(src) => \A x \in m.live : Held(src, P, x, p + 1)
    /\ \A x : Keeps(src, x, p) => Held(src, P, x, p + 1)

LEMMA StepsFrom ==
    ASSUME NEW src, NEW P, Whole(src, P), NEW p, NEW m, Good(src, P, m, p),
           p + 1 \in 1 .. Len(src), P[p + 1].reached, Within(P, p, p + 1),
           \A k \in Len(P[p].nest) + 1 .. Len(P[p + 1].nest) : P[p + 1].nest[k] = p
    PROVE  Steps(src, P, m, p)
<1>1. /\ p \in 1 .. Len(src) /\ IsMem(m) /\ P[p].reached /\ Aims(m, P[p].locals)
      /\ \A r \in DOMAIN m.points : r \in 1 .. Len(src) /\ src[r].op \in Pointing
      /\ MovesOwn(src, P) => "stale" \notin m.faults /\ Alive(m, P[p].locals)
  BY DEF Good, Sane, Safe
<1>2. /\ p \in Nat /\ P[p].locals \in Seq(Local) /\ P[p + 1].locals \in Seq(Local)
      /\ Placed(src, P[p].locals, p) /\ Len(P[p].nest) \in Nat /\ Len(P[p].nest) >= 1
      /\ Len(P[p + 1].nest) \in Nat
  BY <1>1, WholeAt
<1>3. ASSUME Quiet(src)
      PROVE  /\ "lost" \notin m.faults /\ Let(p) \notin m.live /\ Tmp(p) \notin m.live
             /\ \A x \in m.live : Held(src, P, x, p + 1)
  <2>1. "lost" \notin m.faults /\ \A x \in m.live : Held(src, P, x, p)
    BY <1>3 DEF Good, Clean
  <2>2. \A x \in m.live : x[1] < p
    BY <1>1, <2>1, HeldBefore
  <2>3. ~(Let(p)[1] < p) /\ ~(Tmp(p)[1] < p)
    BY <1>2, Slots
  <2>4. p <= p + 1
    BY <1>2
  <2>5. \A x \in m.live : Held(src, P, x, p + 1)
    BY <1>1, <2>1, <2>4, HeldOn
  <2> QED BY <2>1, <2>2, <2>3, <2>5
<1>4. ASSUME NEW x, Keeps(src, x, p) PROVE Held(src, P, x, p + 1)
  <2>1. PICK d \in Nat : d = Len(P[p].nest)
    BY <1>2
  <2>2. d \in 1 .. Len(P[p].nest) /\ d \in 1 .. Len(P[p + 1].nest) /\ Inner(P, p) = P[p].nest[d]
    BY <1>2, <2>1 DEF Within, Inner
  <2>3. Inner(P, p) = P[p + 1].nest[d]
    BY <2>2 DEF Within
  <2>4. p \in 1 .. (p + 1) - 1
    BY <1>1, <1>2
  <2> QED BY <1>4, <2>2, <2>3, <2>4 DEF Held
<1> QED BY <1>1, <1>2, <1>3, <1>4 DEF Steps

LEMMA PlainSteps ==
    ASSUME NEW src, NEW P, Whole(src, P), NEW p, NEW m, Good(src, P, m, p), src[p].op \in Plain
    PROVE  Steps(src, P, m, p) /\ StatementOK(src[p], p, P[p].locals, P[p + 1].locals)
<1>1. p \in 1 .. Len(src) /\ P[p].reached
  BY DEF Good, Sane
<1>2. p \in 1 .. Len(src) - 1 /\ p + 1 \in 1 .. Len(src) /\ p \in Nat
  <2>1. src[Len(src)].op = "end" /\ Len(src) \in Nat
    BY DEF Whole, Typed
  <2>2. p # Len(src)
    BY <2>1 DEF Plain
  <2> QED BY <1>1, <2>1, <2>2
<1>3. /\ Agree(P[p].nest, P[p + 1].nest) /\ (P[p].reached => P[p + 1].reached)
      /\ StatementOK(src[p], p, P[p].locals, P[p + 1].locals)
  BY <1>2 DEF Whole, TokenOK
<1>4. Len(P[p].nest) \in Nat
  BY <1>1, WholeAt
<1>5. Within(P, p, p + 1) /\ Len(P[p].nest) + 1 .. Len(P[p + 1].nest) = {}
  BY <1>3, <1>4 DEF Agree, Within
<1>6. Steps(src, P, m, p)
  BY <1>1, <1>2, <1>3, <1>5, StepsFrom
<1> QED BY <1>3, <1>6

\* StepGood, for memory of a given outcome
LEMMA StepsGood ==
    ASSUME NEW src, NEW P, Whole(src, P), NEW p, NEW m, Good(src, P, m, p),
           Steps(src, P, m, p), Grows(P[p].locals, P[p + 1].locals), NEW mm, NEW gone,
           Undergoes(m, mm, p, gone), Spends(P[p].locals, P[p + 1].locals, gone),
           Declares(MovesOwn(src, P), mm, P[p].locals, P[p + 1].locals),
           p \in DOMAIN mm.points => src[p].op \in Pointing,
           MovesOwn(src, P) => "stale" \notin mm.faults /\ Spared(src, P, p, gone),
           Quiet(src) => "lost" \notin mm.faults,
           \A x \in mm.live : x \in m.live \/ Held(src, P, x, p + 1)
    PROVE  Good(src, P, mm, p + 1)
<1>1. Quiet(src) => Clean(src, P, mm, p + 1)
  BY DEF Clean, Steps
<1>2. /\ p + 1 \in 1 .. Len(src) /\ P[p + 1].reached /\ Within(P, p, p + 1)
      /\ \A k \in Len(P[p].nest) + 1 .. Len(P[p + 1].nest) : P[p + 1].nest[k] = p
  BY DEF Steps
<1> QED BY <1>1, <1>2, StepGood

LEMMA KeptSteps ==
    ASSUME NEW own, NEW m, NEW ls, NEW ms, Kept(ls, ms)
    PROVE  Grows(ls, ms) /\ Declares(own, m, ls, ms)
BY DEF Kept, Declares

LEMMA OwnedSteps ==
    ASSUME NEW own, NEW m, NEW ls, NEW ms, NEW p, Plus(ls, ms, p, FALSE, 0), Let(p) \in m.live
    PROVE  Grows(ls, ms) /\ Declares(own, m, ls, ms)
BY DEF Plus, Declares, AimsAt, AliveAt

LEMMA NothingGone ==
    ASSUME NEW src, NEW P, NEW p, NEW ls, NEW ms
    PROVE  Spends(ls, ms, {}) /\ Spared(src, P, p, {})
BY DEF Spends, Spared

LEMMA MakeGood ==
    ASSUME NEW src, NEW P, Whole(src, P), NEW p, NEW m, Good(src, P, m, p), src[p].op = "make"
    PROVE  Good(src, P, Assign(m, Let(p)), p + 1)
<1>1. Steps(src, P, m, p) /\ Plus(P[p].locals, P[p + 1].locals, p, FALSE, 0)
  BY PlainSteps DEF Plain, StatementOK
<1>2. PICK mm : mm = Assign(m, Let(p))
  OBVIOUS
<1>3. /\ IsMem(mm) /\ mm.points = m.points /\ mm.live = m.live \cup {Let(p)}
      /\ Let(p) \notin m.live => mm.faults = m.faults
      /\ "stale" \in mm.faults => "stale" \in m.faults
  BY <1>1, <1>2, AssignIs DEF Steps
<1>4. Grows(P[p].locals, P[p + 1].locals)
        /\ Declares(MovesOwn(src, P), mm, P[p].locals, P[p + 1].locals)
  BY <1>1, <1>3, OwnedSteps
<1>5. Undergoes(m, mm, p, {})
  BY <1>3 DEF Undergoes
<1>6. p \in DOMAIN mm.points => src[p].op \in Pointing
  BY <1>1, <1>3 DEF Steps
<1>7. /\ MovesOwn(src, P) => "stale" \notin mm.faults
      /\ Quiet(src) => "lost" \notin mm.faults
  BY <1>1, <1>3 DEF Steps
<1>8. \A x \in mm.live : x \in m.live \/ Held(src, P, x, p + 1)
  BY <1>1, <1>3 DEF Steps, Keeps
<1>9. Good(src, P, mm, p + 1)
  BY <1>1, <1>4, <1>5, <1>6, <1>7, <1>8, NothingGone, StepsGood
<1> QED BY <1>2, <1>9

LEMMA TempGood ==
    ASSUME NEW src, NEW P, Whole(src, P), NEW p, NEW m, Good(src, P, m, p), src[p].op = "temp"
    PROVE  Good(src, P, Assign(m, Tmp(p)), p + 1)
<1>1. Steps(src, P, m, p) /\ Kept(P[p].locals, P[p + 1].locals)
  BY PlainSteps DEF Plain, StatementOK
<1>2. PICK mm : mm = Assign(m, Tmp(p))
  OBVIOUS
<1>3. /\ IsMem(mm) /\ mm.points = m.points /\ mm.live = m.live \cup {Tmp(p)}
      /\ Tmp(p) \notin m.live => mm.faults = m.faults
      /\ "stale" \in mm.faults => "stale" \in m.faults
  BY <1>1, <1>2, AssignIs DEF Steps
<1>4. Grows(P[p].locals, P[p + 1].locals)
        /\ Declares(MovesOwn(src, P), mm, P[p].locals, P[p + 1].locals)
  BY <1>1, KeptSteps
<1>5. Undergoes(m, mm, p, {})
  BY <1>3 DEF Undergoes
<1>6. p \in DOMAIN mm.points => src[p].op \in Pointing
  BY <1>1, <1>3 DEF Steps
<1>7. /\ MovesOwn(src, P) => "stale" \notin mm.faults
      /\ Quiet(src) => "lost" \notin mm.faults
  BY <1>1, <1>3 DEF Steps
<1>8. \A x \in mm.live : x \in m.live \/ Held(src, P, x, p + 1)
  BY <1>1, <1>3 DEF Steps, Keeps
<1>9. Good(src, P, mm, p + 1)
  BY <1>1, <1>4, <1>5, <1>6, <1>7, <1>8, NothingGone, StepsGood
<1> QED BY <1>2, <1>9

LEMMA RefTempGood ==
    ASSUME NEW src, NEW P, Whole(src, P), NEW p, NEW m, Good(src, P, m, p),
           src[p].op = "refTemp"
    PROVE  Good(src, P, Point(Assign(m, Tmp(p)), p, Tmp(p)), p + 1)
<1>1. Steps(src, P, m, p) /\ Plus(P[p].locals, P[p + 1].locals, p, TRUE, 0)
  BY PlainSteps DEF Plain, StatementOK
<1>2. PICK m1, mm : m1 = Assign(m, Tmp(p)) /\ mm = Point(m1, p, Tmp(p))
  OBVIOUS
<1>3. /\ IsMem(m1) /\ m1.points = m.points /\ m1.live = m.live \cup {Tmp(p)}
      /\ Tmp(p) \notin m.live => m1.faults = m.faults
      /\ "stale" \in m1.faults => "stale" \in m.faults
  BY <1>1, <1>2, AssignIs DEF Steps
<1>4. /\ IsMem(mm) /\ mm.live = m1.live /\ mm.faults = m1.faults
      /\ DOMAIN mm.points = DOMAIN m1.points \cup {p} /\ mm.points[p] = Tmp(p)
      /\ \A r \in DOMAIN m1.points : r # p => mm.points[r] = m1.points[r]
  BY <1>2, <1>3, PointIs
<1>5. p \in Nat
  BY <1>1 DEF Steps
<1>6. Grows(P[p].locals, P[p + 1].locals)
        /\ Declares(MovesOwn(src, P), mm, P[p].locals, P[p + 1].locals)
  BY <1>1, <1>3, <1>4, <1>5 DEF Plus, Declares, AimsAt, AliveAt
<1>7. Undergoes(m, mm, p, {})
  BY <1>3, <1>4, <1>5 DEF Undergoes
<1>8. src[p].op \in Pointing
  BY DEF Pointing
<1>9. /\ MovesOwn(src, P) => "stale" \notin mm.faults
      /\ Quiet(src) => "lost" \notin mm.faults
  BY <1>1, <1>3, <1>4 DEF Steps
<1>10. \A x \in mm.live : x \in m.live \/ Held(src, P, x, p + 1)
  BY <1>1, <1>3, <1>4 DEF Steps, Keeps
<1>11. Good(src, P, mm, p + 1)
  BY <1>1, <1>6, <1>7, <1>8, <1>9, <1>10, NothingGone, StepsGood
<1> QED BY <1>2, <1>11

LEMMA DiscardGood ==
    ASSUME NEW src, NEW P, Whole(src, P), NEW p, NEW m, Good(src, P, m, p),
           src[p].op = "discard"
    PROVE  Good(src, P, m, p + 1)
<1>1. Steps(src, P, m, p) /\ Kept(P[p].locals, P[p + 1].locals)
  BY PlainSteps DEF Plain, StatementOK
<1>2. Grows(P[p].locals, P[p + 1].locals)
        /\ Declares(MovesOwn(src, P), m, P[p].locals, P[p + 1].locals)
  BY <1>1, KeptSteps
<1>3. /\ Undergoes(m, m, p, {}) /\ (p \in DOMAIN m.points => src[p].op \in Pointing)
      /\ MovesOwn(src, P) => "stale" \notin m.faults
      /\ Quiet(src) => "lost" \notin m.faults
  BY <1>1 DEF Undergoes, Steps
<1> QED BY <1>1, <1>2, <1>3, NothingGone, StepsGood

\* The i-th local of a scope can be moved: it is there.
LEMMA GivenIsThere ==
    ASSUME NEW ls, NEW m, Alive(m, ls), NEW i, NEW pos, Gives(ls, i, pos)
    PROVE  Let(pos) \in m.live
BY DEF Alive, AliveAt, Gives

\* No reference in scope points at it.
LEMMA GivenIsFree ==
    ASSUME NEW src, NEW p, NEW ls \in Seq(Local), NEW m, Placed(src, ls, p), Aims(m, ls),
           NEW i, NEW pos, Gives(ls, i, pos), NEW k \in 1 .. Len(ls), ls[k].ref
    PROVE  m.points[ls[k].pos] # Let(pos)
<1>1. AimsAt(m, ls, k) /\ ls[k].of < k /\ ls[k].of \in Nat
  BY PlacedType DEF Aims, Placed
<1>2. CASE ls[k].of = 0
  BY <1>1, <1>2, Slots DEF AimsAt
<1>3. CASE ls[k].of # 0
  <2>1. PICK o \in 1 .. Len(ls) : o = ls[k].of
    BY <1>1, <1>3
  <2>2. m.points[ls[k].pos] = Let(ls[o].pos) /\ o # i
    BY <1>1, <1>3, <2>1 DEF AimsAt, Gives
  <2>3. ls[o].pos # ls[i].pos
    BY <2>1, <2>2, PlacesDiffer DEF Gives
  <2> QED BY <2>2, <2>3, Slots DEF Gives
<1> QED BY <1>2, <1>3

\* What a move takes is no loop's, if loops move their own.
LEMMA TakenIsSpared ==
    ASSUME NEW src, NEW P, Whole(src, P), NEW p \in 1 .. Len(src),
           src[p].op \in {"move", "consume"}, MovesOwn(src, P)
    PROVE  Spared(src, P, p, {Let(src[p].arg)})
<1> SUFFICES ASSUME NEW k \in 2 .. Len(P[p].nest), src[P[p].nest[k]].op \in Looping
             PROVE  ~(Let(src[p].arg)[1] < P[p].nest[k] + 1)
  BY DEF Spared
<1>1. PICK q : HeaderAt(P, p, k, q)
  BY DEF HeaderAt
<1>2. q \in Nat /\ q = P[p].nest[k]
  BY <1>1, BlockAround DEF HeaderAt
<1>3. src[p].arg > q /\ src[p].arg \in Nat
  BY <1>2, WholeAt DEF MovesOwn
<1> QED BY SMTT(30), <1>2, <1>3, Slots

LEMMA ConsumeGood ==
    ASSUME NEW src, NEW P, Whole(src, P), NEW p, NEW m, Good(src, P, m, p),
           src[p].op = "consume"
    PROVE  Good(src, P, MoveOut(m, Let(src[p].arg)), p + 1)
<1>1. PICK x, mm : x = Let(src[p].arg) /\ mm = MoveOut(m, x)
  OBVIOUS
<1>2. PICK ls, ms : ls = P[p].locals /\ ms = P[p + 1].locals
  OBVIOUS
<1>3. Steps(src, P, m, p) /\ \E i \in 1 .. Len(ls) :
        Gives(ls, i, src[p].arg) /\ Kept(ls, ms) /\ ms[i].moved
  BY ZenonT(60), <1>2, PlainSteps DEF Plain, StatementOK
<1>4. PICK i \in 1 .. Len(ls) : Gives(ls, i, src[p].arg) /\ Kept(ls, ms) /\ ms[i].moved
  BY <1>3
<1>5. /\ IsMem(mm) /\ mm.points = m.points /\ mm.live = m.live \ {x}
      /\ x \in m.live => mm.faults = m.faults
      /\ "lost" \in mm.faults => "lost" \in m.faults
  BY <1>1, <1>3, MoveOutIs DEF Steps
<1>6. Grows(ls, ms) /\ Declares(MovesOwn(src, P), mm, ls, ms)
  BY <1>4, KeptSteps
<1>7. Spends(ls, ms, {x})
  BY <1>1, <1>4 DEF Spends, Gives
<1>8. Undergoes(m, mm, p, {x}) /\ (p \in DOMAIN mm.points => src[p].op \in Pointing)
  BY <1>3, <1>5 DEF Undergoes, Steps
<1>9. ASSUME MovesOwn(src, P) PROVE "stale" \notin mm.faults /\ Spared(src, P, p, {x})
  <2>1. x \in m.live
    BY <1>1, <1>2, <1>3, <1>4, <1>9, GivenIsThere DEF Steps
  <2>2. p \in 1 .. Len(src)
    BY <1>3 DEF Steps
  <2>3. Spared(src, P, p, {x})
    BY <1>1, <1>9, <2>2, TakenIsSpared
  <2> QED BY <1>3, <1>5, <1>9, <2>1, <2>3 DEF Steps
<1>10. Quiet(src) => "lost" \notin mm.faults
  BY <1>3, <1>5 DEF Steps
<1>11. \A y \in mm.live : y \in m.live \/ Held(src, P, y, p + 1)
  BY <1>5
<1>12. Good(src, P, mm, p + 1)
  BY <1>2, <1>3, <1>6, <1>7, <1>8, <1>9, <1>10, <1>11, StepsGood
<1> QED BY <1>1, <1>12

LEMMA MoveGood ==
    ASSUME NEW src, NEW P, Whole(src, P), NEW p, NEW m, Good(src, P, m, p), src[p].op = "move"
    PROVE  Good(src, P, Assign(MoveOut(m, Let(src[p].arg)), Let(p)), p + 1)
<1>1. PICK x, m1, mm : x = Let(src[p].arg) /\ m1 = MoveOut(m, x) /\ mm = Assign(m1, Let(p))
  OBVIOUS
<1>2. PICK ls, ms : ls = P[p].locals /\ ms = P[p + 1].locals
  OBVIOUS
<1>3. Steps(src, P, m, p) /\ \E i \in 1 .. Len(ls) :
        Gives(ls, i, src[p].arg) /\ Plus(ls, ms, p, FALSE, 0) /\ ms[i].moved
  BY ZenonT(60), <1>2, PlainSteps DEF Plain, StatementOK
<1>4. PICK i \in 1 .. Len(ls) :
        Gives(ls, i, src[p].arg) /\ Plus(ls, ms, p, FALSE, 0) /\ ms[i].moved
  BY <1>3
<1>5. /\ IsMem(m1) /\ m1.points = m.points /\ m1.live = m.live \ {x}
      /\ x \in m.live => m1.faults = m.faults
      /\ "lost" \in m1.faults => "lost" \in m.faults
  BY <1>1, <1>3, MoveOutIs DEF Steps
<1>6. /\ IsMem(mm) /\ mm.points = m1.points /\ mm.live = m1.live \cup {Let(p)}
      /\ Let(p) \notin m1.live => mm.faults = m1.faults
      /\ "stale" \in mm.faults => "stale" \in m1.faults
  BY <1>1, <1>5, AssignIs
<1>7. Grows(ls, ms) /\ Declares(MovesOwn(src, P), mm, ls, ms)
  BY <1>4, <1>6, OwnedSteps
<1>8. Spends(ls, ms, {x})
  BY <1>1, <1>4 DEF Spends, Gives
<1>9. Undergoes(m, mm, p, {x}) /\ (p \in DOMAIN mm.points => src[p].op \in Pointing)
  BY <1>3, <1>5, <1>6 DEF Undergoes, Steps
<1>10. ASSUME MovesOwn(src, P) PROVE "stale" \notin mm.faults /\ Spared(src, P, p, {x})
  <2>1. x \in m.live
    BY <1>1, <1>2, <1>3, <1>4, <1>10, GivenIsThere DEF Steps
  <2>2. p \in 1 .. Len(src)
    BY <1>3 DEF Steps
  <2>3. Spared(src, P, p, {x})
    BY <1>1, <1>10, <2>2, TakenIsSpared
  <2> QED BY <1>3, <1>5, <1>6, <1>10, <2>1, <2>3 DEF Steps
<1>11. Quiet(src) => "lost" \notin mm.faults
  BY <1>3, <1>5, <1>6 DEF Steps
<1>12. \A y \in mm.live : y \in m.live \/ Held(src, P, y, p + 1)
  BY <1>3, <1>5, <1>6 DEF Steps, Keeps
<1>13. Good(src, P, mm, p + 1)
  BY <1>2, <1>3, <1>7, <1>8, <1>9, <1>10, <1>11, <1>12, StepsGood
<1> QED BY <1>1, <1>13

LEMMA BorrowGood ==
    ASSUME NEW src, NEW P, Whole(src, P), NEW p, NEW m, Good(src, P, m, p),
           src[p].op = "borrow"
    PROVE  Good(src, P, Point(Touch(m, Let(src[p].arg)), p, Let(src[p].arg)), p + 1)
<1>1. PICK x, m1, mm : x = Let(src[p].arg) /\ m1 = Touch(m, x) /\ mm = Point(m1, p, x)
  OBVIOUS
<1>2. PICK ls, ms : ls = P[p].locals /\ ms = P[p + 1].locals
  OBVIOUS
<1>3. Steps(src, P, m, p) /\ \E i \in 1 .. Len(ls) :
        ls[i].pos = src[p].arg /\ ~ls[i].ref /\ ~ls[i].moved /\ Plus(ls, ms, p, TRUE, i)
  <2>1. Steps(src, P, m, p) /\ StatementOK(src[p], p, ls, ms)
    BY <1>2, PlainSteps DEF Plain
  <2> QED BY <2>1 DEF StatementOK
<1>4. PICK i \in 1 .. Len(ls) :
        ls[i].pos = src[p].arg /\ ~ls[i].ref /\ ~ls[i].moved /\ Plus(ls, ms, p, TRUE, i)
  BY <1>3
<1>5. /\ IsMem(m1) /\ m1.points = m.points /\ m1.live = m.live
      /\ x \in m.live => m1.faults = m.faults
      /\ "lost" \in m1.faults => "lost" \in m.faults
  BY <1>1, <1>3, TouchIs DEF Steps
<1>6. /\ IsMem(mm) /\ mm.live = m1.live /\ mm.faults = m1.faults
      /\ DOMAIN mm.points = DOMAIN m1.points \cup {p} /\ mm.points[p] = x
      /\ \A r \in DOMAIN m1.points : r # p => mm.points[r] = m1.points[r]
  BY <1>1, <1>5, PointIs
<1>7. MovesOwn(src, P) => x \in m.live
  <2>1. MovesOwn(src, P) => AliveAt(m, ls[i])
    BY <1>2, <1>3, <1>4 DEF Steps, Alive
  <2> QED BY <1>1, <1>4, <2>1 DEF AliveAt
<1>8. Grows(ls, ms) /\ Declares(MovesOwn(src, P), mm, ls, ms)
  <2>1. ms[i].pos = ls[i].pos /\ i # 0
    BY <1>4 DEF Plus, Grows, Same
  <2> QED BY <1>1, <1>4, <1>5, <1>6, <1>7, <2>1 DEF Plus, Declares, AimsAt, AliveAt
<1>9. Undergoes(m, mm, p, {})
  <2>1. p \in Nat
    BY <1>3 DEF Steps
  <2> QED BY <1>5, <1>6, <2>1 DEF Undergoes
<1>10. src[p].op \in Pointing
  BY DEF Pointing
<1>11. /\ MovesOwn(src, P) => "stale" \notin mm.faults
       /\ Quiet(src) => "lost" \notin mm.faults
  BY <1>3, <1>5, <1>6, <1>7 DEF Steps
<1>12. \A y \in mm.live : y \in m.live \/ Held(src, P, y, p + 1)
  BY <1>5, <1>6
<1>13. Good(src, P, mm, p + 1)
  BY <1>2, <1>3, <1>8, <1>9, <1>10, <1>11, <1>12, NothingGone, StepsGood
<1> QED BY <1>1, <1>13

LEMMA CopyGood ==
    ASSUME NEW src, NEW P, Whole(src, P), NEW p, NEW m, Good(src, P, m, p), src[p].op = "copy"
    PROVE  Good(src, P, Point(m, p, m.points[src[p].arg]), p + 1)
<1>1. PICK x, mm : x = m.points[src[p].arg] /\ mm = Point(m, p, x)
  OBVIOUS
<1>2. PICK ls, ms : ls = P[p].locals /\ ms = P[p + 1].locals
  OBVIOUS
<1>3. Steps(src, P, m, p) /\ \E i \in 1 .. Len(ls) :
        ls[i].pos = src[p].arg /\ ls[i].ref /\ Plus(ls, ms, p, TRUE, ls[i].of)
  BY ZenonT(60), <1>2, PlainSteps DEF Plain, StatementOK
<1>4. PICK i \in 1 .. Len(ls) :
        ls[i].pos = src[p].arg /\ ls[i].ref /\ Plus(ls, ms, p, TRUE, ls[i].of)
  BY <1>3
<1>5. /\ IsMem(mm) /\ mm.live = m.live /\ mm.faults = m.faults
      /\ DOMAIN mm.points = DOMAIN m.points \cup {p} /\ mm.points[p] = x
      /\ \A r \in DOMAIN m.points : r # p => mm.points[r] = m.points[r]
  BY <1>1, <1>3, PointIs DEF Steps
<1>6. /\ AimsAt(m, ls, i) /\ (MovesOwn(src, P) => AliveAt(m, ls[i])) /\ p \in Nat
      /\ ls \in Seq(Local) /\ Placed(src, ls, p)
  BY <1>2, <1>3, <1>4 DEF Steps, Alive, Aims
<1>7. /\ ls[i].pos < p /\ ls[i].pos \in Nat /\ ls[i].of < i /\ ls[i].of \in Nat /\ i \in Nat
  BY <1>6, PlacedType DEF Placed
<1>8. MovesOwn(src, P) => x \in m.live
  BY <1>1, <1>4, <1>6 DEF AliveAt
<1>9. ls[i].of # 0 => ms[ls[i].of].pos = ls[ls[i].of].pos
  <2>1. ls[i].of # 0 => ls[i].of \in 1 .. Len(ls)
    BY <1>7
  <2> QED BY <1>4, <2>1 DEF Plus, Grows, Same
<1>10. Grows(ls, ms) /\ Declares(MovesOwn(src, P), mm, ls, ms)
  <2>1. PICK d : d = Len(ms)
    OBVIOUS
  <2>2. /\ ms[d].pos = p /\ ms[d].ref /\ ms[d].of = ls[i].of /\ d = Len(ls) + 1
        /\ Grows(ls, ms)
    BY <1>4, <2>1 DEF Plus
  <2>3. AimsAt(mm, ms, d)
    <3>1. p \in DOMAIN mm.points /\ mm.points[p] = m.points[ls[i].pos]
      BY <1>1, <1>4, <1>5
    <3>2. CASE ls[i].of = 0
      <4>1. PICK t \in Nat : t <= ls[i].pos /\ m.points[ls[i].pos] = Tmp(t)
        BY <1>4, <1>6, <3>2 DEF AimsAt
      <4>2. t <= p
        BY <1>6, <1>7, <4>1
      <4> QED BY <2>2, <3>1, <3>2, <4>1, <4>2 DEF AimsAt
    <3>3. CASE ls[i].of # 0
      BY <1>4, <1>6, <1>9, <2>2, <3>1, <3>3 DEF AimsAt
    <3> QED BY <3>2, <3>3
  <2>4. MovesOwn(src, P) => AliveAt(mm, ms[d])
    BY <1>5, <1>8, <2>2 DEF AliveAt
  <2> QED BY <2>1, <2>2, <2>3, <2>4 DEF Declares
<1>11. Undergoes(m, mm, p, {})
  BY <1>5, <1>6 DEF Undergoes
<1>12. src[p].op \in Pointing
  BY DEF Pointing
<1>13. /\ MovesOwn(src, P) => "stale" \notin mm.faults
       /\ Quiet(src) => "lost" \notin mm.faults
  BY <1>3, <1>5 DEF Steps
<1>14. \A y \in mm.live : y \in m.live \/ Held(src, P, y, p + 1)
  BY <1>5
<1>15. Good(src, P, mm, p + 1)
  BY <1>2, <1>3, <1>10, <1>11, <1>12, <1>13, <1>14, NothingGone, StepsGood
<1> QED BY <1>1, <1>15

\* What a use of the local declared by p reads
Reached(m, p) == IF p \in DOMAIN m.points THEN m.points[p] ELSE Let(p)

LEMMA UseGood ==
    ASSUME NEW src, NEW P, Whole(src, P), NEW p, NEW m, Good(src, P, m, p), src[p].op = "use"
    PROVE  Good(src, P, Touch(m, Reached(m, src[p].arg)), p + 1)
<1>1. PICK x, mm : x = Reached(m, src[p].arg) /\ mm = Touch(m, x)
  OBVIOUS
<1>2. PICK ls, ms : ls = P[p].locals /\ ms = P[p + 1].locals
  OBVIOUS
<1>3. Steps(src, P, m, p) /\ Kept(ls, ms)
        /\ \E i \in 1 .. Len(ls) : ls[i].pos = src[p].arg /\ ~ls[i].moved
  <2>1. Steps(src, P, m, p) /\ StatementOK(src[p], p, ls, ms)
    BY <1>2, PlainSteps DEF Plain
  <2> QED BY <2>1 DEF StatementOK
<1>4. PICK i \in 1 .. Len(ls) : ls[i].pos = src[p].arg /\ ~ls[i].moved
  BY <1>3
<1>5. /\ IsMem(mm) /\ mm.points = m.points /\ mm.live = m.live
      /\ x \in m.live => mm.faults = m.faults
      /\ "lost" \in mm.faults => "lost" \in m.faults
  BY <1>1, <1>3, TouchIs DEF Steps
<1>6. MovesOwn(src, P) => x \in m.live
  <2>1. AimsAt(m, ls, i) /\ (MovesOwn(src, P) => AliveAt(m, ls[i]))
    BY <1>2, <1>3, <1>4 DEF Steps, Alive, Aims
  <2>2. CASE ls[i].ref
    BY <1>1, <1>4, <2>1, <2>2 DEF AliveAt, AimsAt, Reached
  <2>3. CASE ~ls[i].ref
    <3>1. ls[i].pos \notin DOMAIN m.points
      <4>1. Placed(src, ls, p)
        BY <1>2, <1>3 DEF Steps
      <4>2. ls[i].pos = 0 \/ src[ls[i].pos].op \notin Pointing
        BY <2>3, <4>1 DEF Placed
      <4>3. 0 \notin 1 .. Len(src)
        OBVIOUS
      <4> QED BY <1>3, <4>2, <4>3 DEF Steps
    <3> QED BY <1>1, <1>4, <2>1, <2>3, <3>1 DEF AliveAt, Reached
  <2> QED BY <2>2, <2>3
<1>7. Grows(ls, ms) /\ Declares(MovesOwn(src, P), mm, ls, ms)
  BY <1>3, KeptSteps
<1>8. Undergoes(m, mm, p, {}) /\ (p \in DOMAIN mm.points => src[p].op \in Pointing)
  BY <1>3, <1>5 DEF Undergoes, Steps
<1>9. /\ MovesOwn(src, P) => "stale" \notin mm.faults
      /\ Quiet(src) => "lost" \notin mm.faults
  BY <1>3, <1>5, <1>6 DEF Steps
<1>10. \A y \in mm.live : y \in m.live \/ Held(src, P, y, p + 1)
  BY <1>5
<1>11. Good(src, P, mm, p + 1)
  BY <1>2, <1>3, <1>7, <1>8, <1>9, <1>10, NothingGone, StepsGood
<1> QED BY <1>1, <1>11

LEMMA MemoryGood ==
    ASSUME NEW src, NEW P, NEW p, NEW m, Good(src, P, m, p), NEW mm, IsMem(mm),
           mm.points = m.points,
           MovesOwn(src, P) => m.live \subseteq mm.live
                                 /\ ("stale" \in mm.faults => "stale" \in m.faults),
           Quiet(src) => mm.live \subseteq m.live
                           /\ ("lost" \in mm.faults => "lost" \in m.faults)
    PROVE  Good(src, P, mm, p)
<1>1. Sane(src, P, mm, p)
  BY DEF Good, Sane, Aims, AimsAt
<1>2. ASSUME m.live \subseteq mm.live, NEW ls, Alive(m, ls) PROVE Alive(mm, ls)
  BY <1>2 DEF Alive, AliveAt
<1>3. ASSUME MovesOwn(src, P) PROVE Safe(src, P, mm, p)
  BY <1>2, <1>3 DEF Good, Safe, LoopsAlive
<1>4. ASSUME Quiet(src) PROVE Clean(src, P, mm, p)
  BY <1>4 DEF Good, Clean
<1> QED BY <1>1, <1>3, <1>4 DEF Good

\* What the header q does
Does(src, q, effect) == q \in 1 .. Len(src) /\ effect \in {src[q].cond, src[q].step}

LEMMA EvaluateGood ==
    ASSUME NEW src, NEW P, Whole(src, P), NEW p, NEW m, Good(src, P, m, p),
           NEW q, NEW effect, Does(src, q, effect), NEW slot
    PROVE  Good(src, P, Evaluate(m, effect, slot), p)
<1>1. effect \in {"flag", "temp", "take"}
  <2>1. src[q] \in Token
    BY WholeAt DEF Does
  <2> QED BY <2>1 DEF Does, Token
<1>2. (MovesOwn(src, P) => effect # "take") /\ (Quiet(src) => effect # "temp")
  BY DEF MovesOwn, Quiet, Does
<1>3. IsMem(m)
  BY DEF Good, Sane
<1>4. CASE effect = "flag"
  <2>1. Evaluate(m, effect, slot) = m
    BY <1>4 DEF Evaluate
  <2> QED BY <2>1
<1>5. CASE effect = "temp"
  <2>1. PICK mm : mm = Assign(m, slot)
    OBVIOUS
  <2>2. /\ IsMem(mm) /\ mm.points = m.points /\ mm.live = m.live \cup {slot}
        /\ "stale" \in mm.faults => "stale" \in m.faults
    BY <1>3, <2>1, AssignIs
  <2>3. Good(src, P, mm, p)
    BY <1>2, <1>5, <2>2, MemoryGood
  <2>4. Evaluate(m, effect, slot) = mm
    BY <1>5, <2>1 DEF Evaluate
  <2> QED BY <2>3, <2>4
<1>6. CASE effect = "take"
  <2>1. PICK x, mm : x = Let(Current.arg) /\ mm = MoveOut(m, x)
    OBVIOUS
  <2>2. /\ IsMem(mm) /\ mm.points = m.points /\ mm.live = m.live \ {x}
        /\ "lost" \in mm.faults => "lost" \in m.faults
    BY <1>3, <2>1, MoveOutIs
  <2>3. Good(src, P, mm, p)
    BY <1>2, <1>6, <2>2, MemoryGood
  <2>4. Evaluate(m, effect, slot) = mm
    BY <1>6, <2>1 DEF Evaluate
  <2> QED BY <2>3, <2>4
<1> QED BY <1>1, <1>4, <1>5, <1>6

\* A `for' declares its variable.
LEMMA ForGood ==
    ASSUME NEW src, NEW P, Whole(src, P), NEW p, NEW m, Good(src, P, m, p), src[p].op = "for"
    PROVE  Good(src, P, Assign(m, Let(p)), p + 1)
<1>1. p \in 1 .. Len(src) /\ P[p].reached
  BY DEF Good, Sane
<1>2. p \in 1 .. Len(src) - 1 /\ p \in Nat
  <2>1. src[Len(src)].op = "end" /\ Len(src) \in Nat
    BY DEF Whole, Typed
  <2>2. p # Len(src)
    BY <2>1
  <2> QED BY <1>1, <2>1, <2>2
<1>3. PICK d : Deeper(P, p, d)
  BY DEF Deeper
<1>4. src[p].op \in Openers
  BY DEF Openers
<1>5. /\ p + 1 \in 1 .. Len(src)
      /\ HeaderAt(P, p + 1, d, p) /\ Len(P[p + 1].nest) = d /\ d \in Nat
      /\ \A j \in 1 .. d - 1 : P[p + 1].nest[j] = P[p].nest[j]
      /\ P[p].reached => P[p + 1].reached
      /\ HeaderOK(src[p], p, P[p].locals, P[p + 1].locals)
  BY <1>2, <1>3, <1>4, Opening
<1>6. Len(P[p].nest) = d - 1
  <2>1. Len(P[p].nest) \in Nat
    BY <1>1, WholeAt
  <2> QED BY <1>3, <2>1 DEF Deeper
<1>7. Within(P, p, p + 1)
  BY <1>5, <1>6 DEF Within
<1>8. \A k \in Len(P[p].nest) + 1 .. Len(P[p + 1].nest) : P[p + 1].nest[k] = p
  <2>1. \A k \in Len(P[p].nest) + 1 .. Len(P[p + 1].nest) : k = d
    BY <1>5, <1>6
  <2> QED BY <1>5, <2>1 DEF HeaderAt
<1>9. Steps(src, P, m, p)
  BY <1>1, <1>5, <1>7, <1>8, StepsFrom
<1>10. PICK mm : mm = Assign(m, Let(p))
  OBVIOUS
<1>11. /\ IsMem(mm) /\ mm.points = m.points /\ mm.live = m.live \cup {Let(p)}
       /\ Let(p) \notin m.live => mm.faults = m.faults
       /\ "stale" \in mm.faults => "stale" \in m.faults
  BY <1>9, <1>10, AssignIs DEF Steps
<1>12. Grows(P[p].locals, P[p + 1].locals)
         /\ Declares(MovesOwn(src, P), mm, P[p].locals, P[p + 1].locals)
  <2>1. Plus(P[p].locals, P[p + 1].locals, p, FALSE, 0)
    BY <1>5 DEF HeaderOK
  <2> QED BY <1>11, <2>1, OwnedSteps
<1>13. Undergoes(m, mm, p, {})
  BY <1>11 DEF Undergoes
<1>14. p \in DOMAIN mm.points => src[p].op \in Pointing
  BY <1>9, <1>11 DEF Steps
<1>15. /\ MovesOwn(src, P) => "stale" \notin mm.faults
       /\ Quiet(src) => "lost" \notin mm.faults
  BY <1>9, <1>11 DEF Steps
<1>16. \A x \in mm.live : x \in m.live \/ Held(src, P, x, p + 1)
  <2>1. Held(src, P, Let(p), p + 1)
    <3>1. d \in 2 .. Len(P[p + 1].nest) /\ P[p + 1].nest[d] = p
      BY <1>5 DEF HeaderAt
    <3> QED BY <3>1 DEF Held
  <2> QED BY <1>11, <2>1
<1>17. Good(src, P, mm, p + 1)
  BY <1>9, <1>12, <1>13, <1>14, <1>15, <1>16, NothingGone, StepsGood
<1> QED BY <1>10, <1>17

-----------------------------------------------------------------------------
(***************************************************************************)
(* The program that runs                                                   *)
(***************************************************************************)

LEMMA NestIs == ASSUME NEW p PROVE Nest(p) = known[p].nest /\ Scope(p) = Inner(known, p)
BY DEF Nest, Scope, Inner

LEMMA TokensAre == ASSUME Accepted PROVE DOMAIN source = 1 .. Len(source) /\ Len(source) \in Nat
BY DEF Accepted, Whole, Typed

\* The blocks of the program have the ends the lowering looks for.
LEMMA EndOfBlockAt ==
    ASSUME Accepted, NEW q \in 1 .. Len(source), source[q].op \in Openers
    PROVE  EndAt(source, known, q, EndOf(q))
<1>1. Whole(source, known) /\ DOMAIN source = 1 .. Len(source)
  BY TokensAre DEF Accepted
<1>2. PICK e \in 1 .. Len(source) : EndAt(source, known, q, e)
  BY <1>1, HasEnd
<1>3. \E d \in DOMAIN source : source[d].op = "end" /\ Scope(d) = q
  BY <1>1, <1>2, NestIs DEF EndAt
<1>4. PICK d : d = EndOf(q)
  OBVIOUS
<1>5. d \in DOMAIN source /\ source[d].op = "end" /\ Scope(d) = q
  BY <1>3, <1>4 DEF EndOf
<1>6. d # Len(source)
  <2>1. Len(known[Len(source)].nest) = 1 /\ Len(source) \in 1 .. Len(source)
    BY <1>1 DEF Whole
  <2>2. Inner(known, Len(source)) = 0
    BY <1>1, <2>1, WholeAt DEF Inner
  <2> QED BY <1>5, <2>2, NestIs
<1>7. d \in 1 .. Len(source) - 1
  BY <1>1, <1>5, <1>6, TokensAre
<1> QED BY <1>4, <1>5, <1>7, NestIs DEF EndAt

\* A loop around a token is found at its depth.
LEMMA DepthIs ==
    ASSUME Accepted, NEW p \in 1 .. Len(source), NEW k, NEW q, HeaderAt(known, p, k, q)
    PROVE  DepthOf(p, q) = k
<1>1. Whole(source, known) /\ Len(known[p].nest) \in Nat /\ known[p].nest \in Seq(Nat)
        /\ known[p].nest[1] = 0
  BY WholeAt DEF Accepted
<1>2. q \in 1 .. p - 1 /\ k \in Nat /\ k >= 2 /\ k <= Len(known[p].nest)
  BY <1>1, BlockAround
<1>3. DOMAIN Nest(p) = 1 .. Len(known[p].nest) /\ Nest(p) = known[p].nest
  BY <1>1, NestIs
<1>4. k \in DOMAIN Nest(p) /\ Nest(p)[k] = q
  BY <1>1, <1>2, <1>3 DEF HeaderAt
<1>5. PICK j : j = DepthOf(p, q)
  OBVIOUS
<1>6. j \in 1 .. Len(known[p].nest) /\ known[p].nest[j] = q
  BY <1>3, <1>4, <1>5 DEF DepthOf
<1>7. j \in 2 .. Len(known[p].nest)
  BY <1>1, <1>2, <1>6
<1>8. HeaderAt(known, p, j, q)
  BY <1>6, <1>7 DEF HeaderAt
<1> QED BY <1>1, <1>5, <1>8, OnceAround

-----------------------------------------------------------------------------
(***************************************************************************)
(* What is dropped                                                         *)
(***************************************************************************)

LEMMA InnerBefore ==
    ASSUME NEW src, NEW P, Whole(src, P), NEW p \in 1 .. Len(src)
    PROVE  Inner(P, p) \in Nat /\ Inner(P, p) < p
<1>1. PICK d \in Nat : d = Len(P[p].nest) /\ d >= 1
  BY WholeAt
<1>2. P[p].nest[1] = 0 /\ p \in Nat /\ p >= 1
  BY WholeAt
<1>3. CASE d = 1
  BY <1>1, <1>2, <1>3 DEF Inner
<1>4. CASE d # 1
  <2>1. d \in 2 .. Len(P[p].nest)
    <3>1. \A n \in Nat : n >= 1 /\ n # 1 => n \in 2 .. n
      OBVIOUS
    <3>2. d \in 2 .. d
      BY <1>1, <1>4, <3>1
    <3> QED BY <1>1, <3>2
  <2>2. PICK q : q = Inner(P, p)
    OBVIOUS
  <2>3. HeaderAt(P, p, d, q)
    BY <1>1, <2>1, <2>2 DEF HeaderAt, Inner
  <2>4. q \in Nat /\ q \in 1 .. p - 1
    BY <2>3, BlockAround
  <2> QED BY <1>2, <2>2, <2>4
<1> QED BY <1>3, <1>4

LEMMA FrameHas ==
    ASSUME Accepted, NEW p \in 1 .. Len(source), NEW i \in 1 .. p - 1, NEW q,
           NEW x, Keeps(source, x, i), Inner(known, i) = q
    PROVE  x \in Frame(q, p)
<1>1. i \in DOMAIN source /\ i < p
  BY TokensAre
<1>2. x \in Allocates(i)
  BY DEF Keeps, Allocates
<1>3. Scope(i) = q
  BY NestIs
<1> QED BY <1>1, <1>2, <1>3 DEF Frame

LEMMA FrameOnly ==
    ASSUME Accepted, NEW p, NEW q \in Nat
    PROVE  Only(Frame(q, p), q + 1)
<1> SUFFICES ASSUME NEW x \in Frame(q, p) PROVE x[1] \in Nat /\ q + 1 <= x[1]
  BY DEF Only
<1>1. PICK i \in DOMAIN source : i < p /\ Scope(i) = q /\ x \in Allocates(i)
  BY DEF Frame
<1>2. i \in 1 .. Len(source) /\ i \in Nat
  BY <1>1, TokensAre
<1>3. q < i
  <2>1. Whole(source, known)
    BY DEF Accepted
  <2>2. Inner(known, i) < i
    BY <1>2, <2>1, InnerBefore
  <2> QED BY <1>1, <2>2, NestIs
<1>4. x[1] = i
  BY <1>1, Slots DEF Allocates
<1> QED BY <1>2, <1>3, <1>4

LEMMA HeaderFrameIs ==
    ASSUME NEW q, NEW p
    PROVE  /\ \A x \in HeaderFrame(q, p) : x[1] = q
           /\ source[q].op = "for" => Let(q) \in HeaderFrame(q, p)
BY Slots DEF HeaderFrame

\* The end of a block drops what the block made.
LEMMA FrameClears ==
    ASSUME Accepted, NEW p \in 1 .. Len(source), NEW k, NEW q, HeaderAt(known, p, k, q),
           k = Len(known[p].nest)
    PROVE  Clears(source, known, p, k, Frame(q, p)) /\ Only(Frame(q, p), q + 1)
<1>1. q \in Nat /\ k \in Nat
  BY BlockAround DEF Accepted
<1>2. k .. Len(known[p].nest) = {k} /\ k + 1 .. Len(known[p].nest) = {}
  BY <1>1
<1>3. known[p].nest[k] = q
  BY DEF HeaderAt
<1>4. \A x : \A i \in 1 .. p - 1, j \in k .. Len(known[p].nest) :
         Inner(known, i) = known[p].nest[j] /\ Keeps(source, x, i) => x \in Frame(q, p)
  BY <1>2, <1>3, FrameHas
<1> QED BY <1>1, <1>2, <1>4, FrameOnly DEF Clears

LEMMA EmitIs ==
    ASSUME NEW p, NEW depth, NEW x
    PROVE  x \in emit_scope_drops_to_depth(p, depth) <=>
              \/ \E j \in depth + 1 .. Len(Nest(p)) : x \in Frame(Nest(p)[j], p)
              \/ \E j \in depth + 2 .. Len(Nest(p)) : x \in HeaderFrame(Nest(p)[j], p)
<1>1. x \in UNION {Frame(Nest(p)[j], p) : j \in depth + 1 .. Len(Nest(p))} <=>
        \E j \in depth + 1 .. Len(Nest(p)) : x \in Frame(Nest(p)[j], p)
  OBVIOUS
<1>2. x \in UNION {HeaderFrame(Nest(p)[j], p) : j \in depth + 2 .. Len(Nest(p))} <=>
        \E j \in depth + 2 .. Len(Nest(p)) : x \in HeaderFrame(Nest(p)[j], p)
  OBVIOUS
<1> QED BY <1>1, <1>2 DEF emit_scope_drops_to_depth

\* A jump to the block of q drops what the blocks it leaves made.
LEMMA EmitClears ==
    ASSUME Accepted, NEW p \in 1 .. Len(source), NEW k, NEW q, HeaderAt(known, p, k, q),
           NEW D, D = emit_scope_drops_to_depth(p, k - 1)
    PROVE  Clears(source, known, p, k, D) /\ Only(D, q + 1)
<1>1. /\ q \in Nat /\ k \in Nat /\ k >= 2 /\ Len(known[p].nest) \in Nat
      /\ known[p].nest[k] = q /\ Nest(p) = known[p].nest
  <2>1. q \in Nat /\ k \in Nat /\ k >= 2
    BY BlockAround DEF Accepted
  <2>2. Len(known[p].nest) \in Nat
    BY WholeAt DEF Accepted
  <2> QED BY <2>1, <2>2, NestIs DEF HeaderAt
<1>2. \A x : x \in D <=>
         \/ \E j \in k .. Len(known[p].nest) : x \in Frame(known[p].nest[j], p)
         \/ \E j \in k + 1 .. Len(known[p].nest) : x \in HeaderFrame(known[p].nest[j], p)
  <2>1. (k - 1) + 1 = k /\ (k - 1) + 2 = k + 1
    BY <1>1
  <2> QED BY <1>1, <2>1, EmitIs
<1>3. \A x : \A i \in 1 .. p - 1, j \in k .. Len(known[p].nest) :
         Inner(known, i) = known[p].nest[j] /\ Keeps(source, x, i) => x \in D
  <2> TAKE x
  <2> TAKE i \in 1 .. p - 1, j \in k .. Len(known[p].nest)
  <2> HAVE Inner(known, i) = known[p].nest[j] /\ Keeps(source, x, i)
  <2>1. x \in Frame(known[p].nest[j], p)
    BY FrameHas
  <2> QED BY <1>2, <2>1
<1>4. \A j \in k + 1 .. Len(known[p].nest) :
         source[known[p].nest[j]].op = "for" => Let(known[p].nest[j]) \in D
  <2> TAKE j \in k + 1 .. Len(known[p].nest)
  <2> HAVE source[known[p].nest[j]].op = "for"
  <2>1. Let(known[p].nest[j]) \in HeaderFrame(known[p].nest[j], p)
    BY HeaderFrameIs
  <2> QED BY <1>2, <2>1
<1>5. ASSUME NEW j \in k + 1 .. Len(known[p].nest)
      PROVE  known[p].nest[j] \in Nat /\ q + 1 <= known[p].nest[j]
  <2>1. PICK r : r = known[p].nest[j]
    OBVIOUS
  <2>2. j \in 2 .. Len(known[p].nest) /\ k \in 1 .. j - 1
    BY <1>1, <1>5
  <2>3. HeaderAt(known, p, j, r)
    BY <2>1, <2>2 DEF HeaderAt
  <2>4. r \in Nat /\ known[p].nest[k] < r
    BY <2>2, <2>3, BlockAround DEF Accepted
  <2> QED BY SMTT(30), <1>1, <2>1, <2>4
<1>6. ASSUME NEW x \in D PROVE x[1] \in Nat /\ q + 1 <= x[1]
  <2>1. CASE \E j \in k .. Len(known[p].nest) : x \in Frame(known[p].nest[j], p)
    <3>1. PICK j \in k .. Len(known[p].nest) : x \in Frame(known[p].nest[j], p)
      BY <2>1
    <3>2. PICK r : r = known[p].nest[j]
      OBVIOUS
    <3>3. r \in Nat /\ q <= r
      <4>1. j = k \/ j \in k + 1 .. Len(known[p].nest)
        BY <1>1
      <4>2. CASE j = k
        BY <1>1, <3>2, <4>2
      <4>3. CASE j \in k + 1 .. Len(known[p].nest)
        BY <1>1, <1>5, <3>2, <4>3
      <4> QED BY <4>1, <4>2, <4>3
    <3>4. x[1] \in Nat /\ r + 1 <= x[1]
      BY <3>1, <3>2, <3>3, FrameOnly DEF Only
    <3> QED BY <1>1, <3>3, <3>4
  <2>2. CASE \E j \in k + 1 .. Len(known[p].nest) : x \in HeaderFrame(known[p].nest[j], p)
    <3>1. PICK j \in k + 1 .. Len(known[p].nest) : x \in HeaderFrame(known[p].nest[j], p)
      BY <2>2
    <3>2. x[1] = known[p].nest[j]
      BY <3>1, HeaderFrameIs
    <3> QED BY <1>5, <3>2
  <2> QED BY <1>2, <2>1, <2>2
<1> QED BY <1>3, <1>4, <1>6 DEF Clears, Only

\* A return drops everything the function may own.
LEMMA ReturnDrops ==
    ASSUME Accepted, NEW p \in 1 .. Len(source), NEW x, Held(source, known, x, p)
    PROVE  x \in emit_scope_drops_to_depth(p, 0) \cup Parameters
<1>1. Nest(p) = known[p].nest /\ 0 + 1 = 1 /\ 0 + 2 = 2
  BY NestIs
<1>2. x \in emit_scope_drops_to_depth(p, 0) <=>
        \/ \E j \in 1 .. Len(known[p].nest) : x \in Frame(known[p].nest[j], p)
        \/ \E j \in 2 .. Len(known[p].nest) : x \in HeaderFrame(known[p].nest[j], p)
  BY <1>1, EmitIs
<1>3. CASE x = Let(0)
  BY <1>3 DEF Parameters
<1>4. CASE \E i \in 1 .. p - 1 : Keeps(source, x, i)
             /\ \E j \in 1 .. Len(known[p].nest) : Inner(known, i) = known[p].nest[j]
  <2>1. PICK i \in 1 .. p - 1 : Keeps(source, x, i)
          /\ \E j \in 1 .. Len(known[p].nest) : Inner(known, i) = known[p].nest[j]
    BY <1>4
  <2>2. PICK j \in 1 .. Len(known[p].nest) : Inner(known, i) = known[p].nest[j]
    BY <2>1
  <2>3. x \in Frame(known[p].nest[j], p)
    BY <2>1, <2>2, FrameHas
  <2> QED BY <1>2, <2>3
<1>5. CASE \E j \in 2 .. Len(known[p].nest) :
             source[known[p].nest[j]].op = "for" /\ x = Let(known[p].nest[j])
  <2>1. PICK j \in 2 .. Len(known[p].nest) :
          source[known[p].nest[j]].op = "for" /\ x = Let(known[p].nest[j])
    BY <1>5
  <2>2. x \in HeaderFrame(known[p].nest[j], p)
    BY <2>1, HeaderFrameIs
  <2> QED BY <1>2, <2>1, <2>2
<1> QED BY <1>3, <1>4, <1>5 DEF Held

\* What a reference points at is still there, if the reference is in both scopes.
Survives(m, mm, ls, ms) ==
    \A k \in 1 .. Len(ls) :
        /\ ls[k].ref /\ \E n \in 1 .. Len(ms) : ms[n].pos = ls[k].pos
        /\ m.points[ls[k].pos] \in m.live
        => m.points[ls[k].pos] \in mm.live

LEMMA SurvivesMore ==
    ASSUME NEW m, NEW mm, NEW ls, NEW ms, m.live \subseteq mm.live
    PROVE  Survives(m, mm, ls, ms)
BY DEF Survives

LEMMA SurvivesTake ==
    ASSUME NEW src, NEW p, NEW ls \in Seq(Local), NEW m, Placed(src, ls, p), Aims(m, ls),
           NEW i, NEW pos, Gives(ls, i, pos), NEW mm, m.live \ {Let(pos)} \subseteq mm.live,
           NEW ms
    PROVE  Survives(m, mm, ls, ms)
<1>1. \A k \in 1 .. Len(ls) : ls[k].ref => m.points[ls[k].pos] # Let(pos)
  BY GivenIsFree
<1> QED BY <1>1 DEF Survives

LEMMA SurvivesDrop ==
    ASSUME NEW src, NEW p, NEW ls \in Seq(Local), NEW m, Placed(src, ls, p), Aims(m, ls),
           NEW b \in Nat, NEW ms, Placed(src, ms, b), NEW D, Only(D, b),
           NEW mm, m.live \ D \subseteq mm.live
    PROVE  Survives(m, mm, ls, ms)
<1> SUFFICES ASSUME NEW k \in 1 .. Len(ls), ls[k].ref, NEW n \in 1 .. Len(ms),
                    ms[n].pos = ls[k].pos
             PROVE  m.points[ls[k].pos] \notin D
  BY DEF Survives
<1>1. ls[k].pos \in Nat /\ m.points[ls[k].pos][1] \in Nat /\ m.points[ls[k].pos][1] <= ls[k].pos
  BY AimsBefore
<1>2. ls[k].pos < b
  BY DEF Placed
<1>3. ~(b <= m.points[ls[k].pos][1])
  BY <1>1, <1>2
<1> QED BY <1>3 DEF Only

\* Where the program is, and how far its memory is described
Pos == IF Stage = "enter" THEN At ELSE At + 1

Ran == phase = "run" =>
    /\ Accepted /\ At \in 1 .. Len(source) /\ Stage \in {"enter", "test", "step"}
    /\ Stage # "enter" => source[At].op = "for"
    /\ Good(source, known, mem, Pos)

\* Memory as a step from p finds and leaves it, on its way to r
Goes(mm, p, r, pos) ==
    /\ Good(source, known, mm, pos)
    /\ Survives(mem, mm, known[p].locals, known[r].locals)

LEMMA EffectGoes ==
    ASSUME Accepted, Good(source, known, mem, At), Current.op \in Plain
    PROVE  Goes(Effect(Current.op), At, At + 1, At + 1)
<1>1. Whole(source, known) /\ Steps(source, known, mem, At)
        /\ StatementOK(source[At], At, known[At].locals, known[At + 1].locals)
  BY PlainSteps DEF Accepted, Current
<1>2. /\ IsMem(mem) /\ Placed(source, known[At].locals, At) /\ Aims(mem, known[At].locals)
      /\ known[At].locals \in Seq(Local)
  BY <1>1 DEF Steps
<1>3. CASE Current.op = "make"
  <2>1. Effect(Current.op) = Assign(mem, Let(At))
    BY <1>3 DEF Effect
  <2>2. Good(source, known, Assign(mem, Let(At)), At + 1)
    BY <1>1, <1>3, MakeGood DEF Current
  <2>3. mem.live \subseteq Assign(mem, Let(At)).live
    BY <1>2, AssignIs
  <2> QED BY <2>1, <2>2, <2>3, SurvivesMore DEF Goes
<1>4. CASE Current.op = "temp"
  <2>1. Effect(Current.op) = Assign(mem, Tmp(At))
    BY <1>4 DEF Effect
  <2>2. Good(source, known, Assign(mem, Tmp(At)), At + 1)
    BY <1>1, <1>4, TempGood DEF Current
  <2>3. mem.live \subseteq Assign(mem, Tmp(At)).live
    BY <1>2, AssignIs
  <2> QED BY <2>1, <2>2, <2>3, SurvivesMore DEF Goes
<1>5. CASE Current.op = "refTemp"
  <2>1. Effect(Current.op) = Point(Assign(mem, Tmp(At)), At, Tmp(At))
    BY <1>5 DEF Effect
  <2>2. Good(source, known, Point(Assign(mem, Tmp(At)), At, Tmp(At)), At + 1)
    BY <1>1, <1>5, RefTempGood DEF Current
  <2>3. mem.live \subseteq Point(Assign(mem, Tmp(At)), At, Tmp(At)).live
    BY <1>2, AssignIs, PointIs
  <2> QED BY <2>1, <2>2, <2>3, SurvivesMore DEF Goes
<1>6. CASE Current.op = "move"
  <2>1. PICK x : x = Let(Current.arg)
    OBVIOUS
  <2>2. Effect(Current.op) = Assign(MoveOut(mem, x), Let(At))
    BY <1>6, <2>1 DEF Effect
  <2>3. Good(source, known, Assign(MoveOut(mem, x), Let(At)), At + 1)
    BY <1>1, <1>6, <2>1, MoveGood DEF Current
  <2>4. mem.live \ {x} \subseteq Assign(MoveOut(mem, x), Let(At)).live
    BY <1>2, AssignIs, MoveOutIs
  <2>5. \E i \in 1 .. Len(known[At].locals) : Gives(known[At].locals, i, Current.arg)
    BY <1>1, <1>6 DEF StatementOK, Current
  <2>6. Survives(mem, Assign(MoveOut(mem, x), Let(At)), known[At].locals, known[At + 1].locals)
    BY <1>2, <2>1, <2>4, <2>5, SurvivesTake
  <2> QED BY <2>2, <2>3, <2>6 DEF Goes
<1>7. CASE Current.op = "consume"
  <2>1. PICK x : x = Let(Current.arg)
    OBVIOUS
  <2>2. Effect(Current.op) = MoveOut(mem, x)
    BY <1>7, <2>1 DEF Effect
  <2>3. Good(source, known, MoveOut(mem, x), At + 1)
    BY <1>1, <1>7, <2>1, ConsumeGood DEF Current
  <2>4. mem.live \ {x} \subseteq MoveOut(mem, x).live
    BY <1>2, MoveOutIs
  <2>5. \E i \in 1 .. Len(known[At].locals) : Gives(known[At].locals, i, Current.arg)
    BY <1>1, <1>7 DEF StatementOK, Current
  <2>6. Survives(mem, MoveOut(mem, x), known[At].locals, known[At + 1].locals)
    BY <1>2, <2>1, <2>4, <2>5, SurvivesTake
  <2> QED BY <2>2, <2>3, <2>6 DEF Goes
<1>8. CASE Current.op = "discard"
  <2>1. Effect(Current.op) = mem
    BY <1>8 DEF Effect
  <2>2. Good(source, known, mem, At + 1)
    BY <1>1, <1>8, DiscardGood DEF Current
  <2> QED BY <2>1, <2>2, SurvivesMore DEF Goes
<1>9. CASE Current.op = "borrow"
  <2>1. PICK x : x = Let(Current.arg)
    OBVIOUS
  <2>2. Effect(Current.op) = Point(Touch(mem, x), At, x)
    BY <1>9, <2>1 DEF Effect
  <2>3. Good(source, known, Point(Touch(mem, x), At, x), At + 1)
    BY <1>1, <1>9, <2>1, BorrowGood DEF Current
  <2>4. mem.live \subseteq Point(Touch(mem, x), At, x).live
    BY <1>2, TouchIs, PointIs
  <2> QED BY <2>2, <2>3, <2>4, SurvivesMore DEF Goes
<1>10. CASE Current.op = "copy"
  <2>1. PICK x : x = mem.points[Current.arg]
    OBVIOUS
  <2>2. Effect(Current.op) = Point(mem, At, x)
    BY <1>10, <2>1 DEF Effect
  <2>3. Good(source, known, Point(mem, At, x), At + 1)
    BY <1>1, <1>10, <2>1, CopyGood DEF Current
  <2>4. mem.live \subseteq Point(mem, At, x).live
    BY <1>2, PointIs
  <2> QED BY <2>2, <2>3, <2>4, SurvivesMore DEF Goes
<1>11. CASE Current.op = "use"
  <2>1. PICK x : x = Reached(mem, Current.arg)
    OBVIOUS
  <2>2. Effect(Current.op) = Touch(mem, x)
    BY <1>11, <2>1 DEF Effect, Target, Reached
  <2>3. Good(source, known, Touch(mem, x), At + 1)
    BY <1>1, <1>11, <2>1, UseGood DEF Current
  <2>4. mem.live \subseteq Touch(mem, x).live
    BY <1>2, TouchIs
  <2> QED BY <2>2, <2>3, <2>4, SurvivesMore DEF Goes
<1> QED BY <1>3, <1>4, <1>5, <1>6, <1>7, <1>8, <1>9, <1>10, <1>11 DEF Plain

-----------------------------------------------------------------------------
(***************************************************************************)
(* Every step of the program                                               *)
(***************************************************************************)

\* No value is moved away under a reference that stays in scope.
Outlived == Survives(mem, mem', known[At].locals, known[pc'[1]].locals)

LEMMA Arrived ==
    ASSUME Accepted, UNCHANGED checkVars, NEW r, pc' = Go(r), Good(source, known, mem', r)
    PROVE  Ran'
<1>1. Accepted' /\ source' = source /\ known' = known
  BY DEF Accepted, checkVars
<1>2. At' = r /\ Stage' = "enter" /\ Pos' = r
  BY DEF At, Stage, Pos, Go
<1>3. r \in 1 .. Len(source)
  BY DEF Good, Sane
<1> QED BY <1>1, <1>2, <1>3 DEF Ran

LEMMA ArrivedInFor ==
    ASSUME Accepted, UNCHANGED checkVars, NEW q \in 1 .. Len(source),
           NEW s \in {"test", "step"}, pc' = <<q, s>>, source[q].op = "for",
           Good(source, known, mem', q + 1)
    PROVE  Ran'
<1>1. Accepted' /\ source' = source /\ known' = known
  BY DEF Accepted, checkVars
<1>2. At' = q /\ Stage' = s /\ Pos' = q + 1
  BY DEF At, Stage, Pos
<1> QED BY <1>1, <1>2 DEF Ran

\* What is known when a token other than a `for' is reached
LEMMA Entered ==
    ASSUME Ran, phase = "run", Stage = "enter" \/ Current.op # "for"
    PROVE  /\ Accepted /\ Whole(source, known) /\ Good(source, known, mem, At)
           /\ At \in 1 .. Len(source) /\ known[At].reached /\ IsMem(mem)
           /\ Aims(mem, known[At].locals) /\ known[At].locals \in Seq(Local)
           /\ Placed(source, known[At].locals, At)
<1>1. Accepted /\ Whole(source, known) /\ At \in 1 .. Len(source)
  BY DEF Ran, Accepted
<1>2. Good(source, known, mem, At)
  BY DEF Ran, Pos, Current
<1>3. known[At].reached /\ Aims(mem, known[At].locals) /\ IsMem(mem)
  BY <1>2 DEF Good, Sane
<1> QED BY <1>1, <1>2, <1>3, WholeAt

LEMMA StatementRuns == ASSUME Ran, Statement PROVE Ran' /\ Outlived
<1>1. /\ phase = "run" /\ UNCHANGED checkVars /\ Current.op \in Plain \cup {"block", "loop"}
      /\ mem' = Effect(Current.op) /\ pc' = Go(At + 1)
  BY DEF Statement, Running, Plain
<1>2. Current.op # "for"
  BY <1>1 DEF Plain
<1>3. Accepted /\ Whole(source, known) /\ Good(source, known, mem, At)
  BY <1>1, <1>2, Entered
<1>4. Goes(mem', At, At + 1, At + 1)
  <2>1. CASE Current.op \in Plain
    BY <1>1, <1>3, <2>1, EffectGoes
  <2>2. CASE Current.op \in {"block", "loop"}
    <3>1. mem' = mem
      BY <1>1, <2>2 DEF Effect
    <3>2. source[At].op \in Openers /\ source[At].op # "for"
      BY <2>2 DEF Openers, Current
    <3>3. Good(source, known, mem, At + 1)
      BY <1>3, <3>2, Enter
    <3> QED BY <3>1, <3>3, SurvivesMore DEF Goes
  <2> QED BY <1>1, <2>1, <2>2
<1>5. pc'[1] = At + 1
  BY <1>1 DEF Go
<1> QED BY <1>1, <1>3, <1>4, <1>5, Arrived DEF Goes, Outlived

LEMMA IfRuns == ASSUME Ran, If PROVE Ran' /\ Outlived
<1>1. phase = "run" /\ UNCHANGED checkVars /\ Current.op = "if" /\ mem' = mem
  BY DEF If, Running
<1>2. /\ Accepted /\ Whole(source, known) /\ Good(source, known, mem, At)
      /\ At \in 1 .. Len(source) /\ known[At].reached
  BY <1>1, Entered
<1>3. source[At].op = "if" /\ source[At].op \in Openers
  BY <1>1 DEF Current, Openers
<1>4. Outlived
  BY <1>1, SurvivesMore DEF Outlived
<1>5. CASE pc' = Go(At + 1)
  <2>1. Good(source, known, mem, At + 1)
    BY <1>2, <1>3, Enter
  <2> QED BY <1>1, <1>2, <1>4, <1>5, <2>1, Arrived
<1>6. CASE ElseOf(At) = {} /\ pc' = Go(EndOf(At) + 1)
  <2>1. PICK e : e = EndOf(At)
    OBVIOUS
  <2>2. EndAt(source, known, At, e)
    BY <1>2, <1>3, <2>1, EndOfBlockAt
  <2>3. BranchesJoin(source, known, e, At) /\ e \in 1 .. Len(source)
    BY <1>2, <2>2, EndFacts
  <2>4. known[e + 1].reached
    <3>1. ~(\E f \in 1 .. e - 1 : source[f].op = "else" /\ source[f].arg = At)
      <4>1. SUFFICES ASSUME NEW f \in 1 .. e - 1, source[f].op = "else", source[f].arg = At
                     PROVE  FALSE
        OBVIOUS
      <4>2. f \in DOMAIN source
        BY <1>2, <2>3, TokensAre
      <4> QED BY <1>6, <4>1, <4>2 DEF ElseOf
    <3> QED BY <1>2, <1>3, <2>3, <3>1 DEF BranchesJoin
  <2>5. Good(source, known, mem, e + 1)
    BY <1>2, <2>2, <2>4, Arrive
  <2> QED BY <1>1, <1>2, <1>4, <1>6, <2>1, <2>5, Arrived
<1>7. CASE \E e \in ElseOf(At) : pc' = Go(e + 1)
  <2>1. PICK e \in ElseOf(At) : pc' = Go(e + 1)
    BY <1>7
  <2>2. e \in 1 .. Len(source) /\ Alternates(source, At, e)
    BY <1>2, <1>3, <2>1, TokensAre DEF ElseOf, Alternates, Turns
  <2>3. Good(source, known, mem, e + 1)
    BY <1>2, <2>2, EnterElse
  <2> QED BY <1>1, <1>2, <1>4, <2>1, <2>3, Arrived
<1> QED BY <1>5, <1>6, <1>7 DEF If

-----------------------------------------------------------------------------
(***************************************************************************)
(* Loops                                                                   *)
(***************************************************************************)

\* Whatever else becomes of memory, what references point at stays there.
Saves(m, mm, ls) ==
    \A k \in 1 .. Len(ls) :
        ls[k].ref /\ m.points[ls[k].pos] \in m.live => m.points[ls[k].pos] \in mm.live

\* No reference points at what p declares.
Unlent(m, ls, p) == \A k \in 1 .. Len(ls) : ls[k].ref => m.points[ls[k].pos] # Let(p)

LEMMA EvaluateSaves ==
    ASSUME NEW m, IsMem(m), NEW ls, NEW effect \in {"flag", "temp", "take"}, NEW slot,
           effect = "take" => Unlent(m, ls, Current.arg)
    PROVE  Saves(m, Evaluate(m, effect, slot), ls)
<1>1. CASE effect = "flag"
  BY <1>1 DEF Evaluate, Saves
<1>2. CASE effect = "temp"
  <2>1. Evaluate(m, effect, slot) = Assign(m, slot)
    BY <1>2 DEF Evaluate
  <2>2. m.live \subseteq Assign(m, slot).live
    BY AssignIs
  <2> QED BY <2>1, <2>2 DEF Saves
<1>3. CASE effect = "take"
  <2>1. Evaluate(m, effect, slot) = MoveOut(m, Let(Current.arg))
    BY <1>3 DEF Evaluate
  <2>2. MoveOut(m, Let(Current.arg)).live = m.live \ {Let(Current.arg)}
    BY MoveOutIs
  <2> QED BY <1>3, <2>1, <2>2 DEF Saves, Unlent
<1> QED BY <1>1, <1>2, <1>3

\* The header of a loop, whose block begins at depth d
Loop(src, P, q, d) == q \in 1 .. Len(src) - 1 /\ src[q].op \in Openers /\ Deeper(P, q, d)

\* What a header's condition moves is not lent.
LEMMA TakenUnlent ==
    ASSUME NEW src, NEW P, Whole(src, P), NEW q, NEW d, Loop(src, P, q, d),
           NEW m, Aims(m, P[q].locals), src[q].cond = "take"
    PROVE  Unlent(m, P[q].locals, src[q].arg)
<1>1. /\ q \in 1 .. Len(src) /\ HeaderOK(src[q], q, P[q].locals, P[q + 1].locals)
  BY Opening DEF Loop
<1>2. P[q].locals \in Seq(Local) /\ Placed(src, P[q].locals, q) /\ q \in Nat
  BY <1>1, WholeAt
<1>3. CASE src[q].arg = q
  <2>1. ASSUME NEW k \in 1 .. Len(P[q].locals), P[q].locals[k].ref
        PROVE  m.points[P[q].locals[k].pos] # Let(q)
    <3>1. PICK ls : ls = P[q].locals
      OBVIOUS
    <3>2. ls[k].pos \in Nat /\ m.points[ls[k].pos][1] \in Nat
            /\ m.points[ls[k].pos][1] <= ls[k].pos /\ ls[k].pos < q
      <4>1. ls \in Seq(Local) /\ Placed(src, ls, q) /\ Aims(m, ls) /\ k \in 1 .. Len(ls)
              /\ ls[k].ref
        BY <1>2, <2>1, <3>1
      <4> QED BY <4>1, AimsBefore DEF Placed
    <3>3. m.points[ls[k].pos][1] < q /\ Let(q)[1] = q
      BY <1>2, <3>2, Slots
    <3> QED BY <1>2, <3>1, <3>3
  <2> QED BY <1>3, <2>1 DEF Unlent
<1>4. CASE \E i \in 1 .. Len(P[q].locals) : Gives(P[q].locals, i, src[q].arg)
  BY <1>2, <1>4, GivenIsFree DEF Unlent
<1> QED BY <1>1, <1>3, <1>4 DEF HeaderOK

\* Nor is what a step moves.
LEMMA SteppedUnlent ==
    ASSUME NEW src, NEW P, Whole(src, P), NEW q \in 1 .. Len(src), StepGives(src, P, q),
           NEW m, Aims(m, P[q].locals), src[q].op = "for", src[q].step = "take"
    PROVE  Unlent(m, P[q].locals, src[q].arg)
<1>1. PICK ls : ls = P[q].locals
  OBVIOUS
<1>2. ls \in Seq(Local) /\ Aims(m, ls) /\ Placed(src, ls, q)
  BY <1>1, WholeAt
<1>3. \A k \in 1 .. Len(ls) : ls[k].of # 0 => ls[ls[k].of].pos # src[q].arg
  BY <1>1 DEF StepGives
<1>4. ASSUME NEW k \in 1 .. Len(ls), ls[k].ref PROVE m.points[ls[k].pos] # Let(src[q].arg)
  <2>1. AimsAt(m, ls, k)
    BY <1>2 DEF Aims
  <2> QED BY <1>3, <1>4, <2>1, Slots DEF AimsAt
<1> QED BY <1>1, <1>4 DEF Unlent

LEMMA WhileRuns == ASSUME Ran, While PROVE Ran' /\ Outlived
<1>1. /\ phase = "run" /\ UNCHANGED checkVars /\ Current.op = "while"
      /\ mem' = Evaluate(mem, Current.cond, Cond(At))
      /\ pc' \in {Go(At + 1), Go(EndOf(At) + 1)}
  BY DEF While, Running
<1>2. /\ Accepted /\ Whole(source, known) /\ Good(source, known, mem, At)
      /\ At \in 1 .. Len(source) /\ known[At].reached /\ IsMem(mem)
      /\ Aims(mem, known[At].locals)
  BY <1>1, Entered
<1>3. source[At].op = "while" /\ source[At].op \in Openers /\ Current = source[At]
  BY <1>1 DEF Current, Openers
<1>4. PICK e : e = EndOf(At) /\ EndAt(source, known, At, e)
  BY <1>2, <1>3, EndOfBlockAt
<1>5. FallsOut(source, known, e, At) /\ At \in 1 .. Len(source) - 1
  <2>1. FallsOut(source, known, e, At) /\ At < e /\ e + 1 \in 1 .. Len(source) /\ e \in Nat
          /\ At \in Nat
    BY <1>2, <1>4, EndFacts
  <2> QED BY <1>2, <2>1
<1>6. Good(source, known, mem', At)
  <2>1. Does(source, At, Current.cond)
    BY <1>2, <1>3 DEF Does
  <2> QED BY <1>1, <1>2, <2>1, EvaluateGood
<1>7. Outlived
  <2>1. Current.cond \in {"flag", "temp", "take"}
    <3>1. source[At] \in Token
      BY <1>2, WholeAt
    <3> QED BY <1>3, <3>1 DEF Token
  <2>2. Current.cond = "take" => Unlent(mem, known[At].locals, Current.arg)
    <3>1. PICK d : Deeper(known, At, d)
      BY DEF Deeper
    <3>2. Loop(source, known, At, d)
      BY <1>3, <1>5, <3>1 DEF Loop
    <3> QED BY <1>2, <1>3, <3>2, TakenUnlent
  <2>3. Saves(mem, mem', known[At].locals)
    BY <1>1, <1>2, <2>1, <2>2, EvaluateSaves
  <2> QED BY <2>3 DEF Saves, Survives, Outlived
<1>8. CASE pc' = Go(At + 1)
  <2>1. Good(source, known, mem', At + 1)
    BY <1>2, <1>3, <1>6, Enter
  <2> QED BY <1>1, <1>2, <1>7, <1>8, <2>1, Arrived
<1>9. CASE pc' = Go(EndOf(At) + 1)
  <2>1. known[e + 1].reached
    BY <1>2, <1>3, <1>5 DEF FallsOut
  <2>2. Good(source, known, mem', e + 1)
    BY <1>2, <1>4, <1>6, <2>1, Arrive
  <2> QED BY <1>1, <1>2, <1>4, <1>7, <1>9, <2>2, Arrived
<1> QED BY <1>1, <1>8, <1>9

LEMMA ForInitRuns == ASSUME Ran, ForInit PROVE Ran' /\ Outlived
<1>1. /\ phase = "run" /\ UNCHANGED checkVars /\ Current.op = "for" /\ Stage = "enter"
      /\ mem' = Assign(mem, Let(At)) /\ pc' = <<At, "test">>
  BY DEF ForInit, Running
<1>2. /\ Accepted /\ Whole(source, known) /\ Good(source, known, mem, At)
      /\ At \in 1 .. Len(source) /\ IsMem(mem)
  BY <1>1, Entered
<1>3. Good(source, known, mem', At + 1)
  BY <1>1, <1>2, ForGood DEF Current
<1>4. Outlived
  <2>1. mem.live \subseteq mem'.live
    BY <1>1, <1>2, AssignIs
  <2> QED BY <2>1, SurvivesMore DEF Outlived
<1> QED BY <1>1, <1>2, <1>3, <1>4, ArrivedInFor DEF Current

\* A `for' whose variable is declared
LEMMA InFor ==
    ASSUME Ran, phase = "run", Current.op = "for", Stage # "enter"
    PROVE  /\ Accepted /\ Whole(source, known) /\ Good(source, known, mem, At + 1)
           /\ At \in 1 .. Len(source) - 1 /\ At \in 1 .. Len(source) /\ At \in Nat
           /\ source[At].op = "for" /\ Current = source[At]
           /\ IsMem(mem) /\ source[At] \in Token /\ EndAt(source, known, At, EndOf(At))
           /\ Aims(mem, known[At].locals) /\ known[At].reached
           /\ \E d : Loop(source, known, At, d) /\ HeaderAt(known, At + 1, d, At)
                       /\ d = Len(known[At + 1].nest)
<1>1. /\ Accepted /\ Whole(source, known) /\ Good(source, known, mem, At + 1)
      /\ At \in 1 .. Len(source) /\ source[At].op = "for" /\ Current = source[At]
  BY DEF Ran, Pos, Accepted, Current
<1>2. source[At].op \in Openers
  BY <1>1 DEF Openers
<1>3. EndAt(source, known, At, EndOf(At))
  BY <1>1, <1>2, EndOfBlockAt
<1>4. At \in 1 .. Len(source) - 1 /\ At \in Nat
  <2>1. At \in Nat /\ Len(source) \in Nat
    BY <1>1, WholeAt
  <2>2. source[Len(source)].op = "end"
    BY <1>1 DEF Whole
  <2>3. At # Len(source)
    BY <1>1, <2>2
  <2> QED BY <1>1, <2>1, <2>3
<1>5. PICK d : Deeper(known, At, d)
  BY DEF Deeper
<1>6. Loop(source, known, At, d)
  BY <1>2, <1>4, <1>5 DEF Loop
<1>7. HeaderAt(known, At + 1, d, At) /\ Len(known[At + 1].nest) = d /\ At + 1 \in 1 .. Len(source)
  BY <1>1, <1>2, <1>4, <1>5, Opening
<1>8. IsMem(mem) /\ known[At + 1].reached /\ Aims(mem, known[At + 1].locals)
  BY <1>1 DEF Good, Sane
<1>9. Aims(mem, known[At].locals)
  BY <1>1, <1>7, <1>8, HeaderScopes
<1>10. known[At].reached
  BY <1>1, <1>7, <1>8, BlockAround
<1> QED BY <1>1, <1>3, <1>4, <1>6, <1>7, <1>8, <1>9, <1>10, WholeAt

LEMMA ForTestRuns == ASSUME Ran, ForTest PROVE Ran' /\ Outlived
<1>1. /\ phase = "run" /\ UNCHANGED checkVars /\ Current.op = "for" /\ Stage = "test"
  BY DEF ForTest, Running
<1>2. PICK tested, e, hf : /\ tested = Evaluate(mem, Current.cond, Cond(At)) /\ e = EndOf(At)
                           /\ hf = HeaderFrame(At, e + 1)
  OBVIOUS
<1>3. \/ pc' = Go(At + 1) /\ mem' = tested
      \/ pc' = Go(e + 1) /\ mem' = Drop(tested, hf)
  BY <1>2 DEF ForTest
<1>4. /\ Accepted /\ Whole(source, known) /\ Good(source, known, mem, At + 1)
      /\ At \in 1 .. Len(source) - 1 /\ At \in 1 .. Len(source) /\ At \in Nat
      /\ source[At].op = "for" /\ Current = source[At]
      /\ IsMem(mem) /\ source[At] \in Token /\ EndAt(source, known, At, e)
      /\ Aims(mem, known[At].locals) /\ known[At].reached
  BY <1>1, <1>2, InFor
<1>5. PICK d : Loop(source, known, At, d) /\ HeaderAt(known, At + 1, d, At)
                 /\ d = Len(known[At + 1].nest)
  BY <1>1, InFor
<1>6. Good(source, known, tested, At + 1)
  <2>1. Does(source, At, Current.cond)
    BY <1>4 DEF Does
  <2> QED BY <1>2, <1>4, <2>1, EvaluateGood
<1>7. Saves(mem, tested, known[At].locals)
  <2>1. Current.cond \in {"flag", "temp", "take"}
    BY <1>4 DEF Token
  <2>2. Current.cond = "take" => Unlent(mem, known[At].locals, Current.arg)
    BY <1>4, <1>5, TakenUnlent
  <2> QED BY <1>2, <1>4, <2>1, <2>2, EvaluateSaves
<1>8. CASE pc' = Go(At + 1) /\ mem' = tested
  <2>1. Outlived
    BY <1>7, <1>8 DEF Saves, Survives, Outlived
  <2> QED BY <1>1, <1>4, <1>6, <1>8, <2>1, Arrived
<1>9. CASE pc' = Go(e + 1) /\ mem' = Drop(tested, hf)
  <2>1. \A x \in hf : x[1] = At
    BY <1>2, HeaderFrameIs
  <2>2. Only(hf, At)
    BY <1>4, <2>1 DEF Only
  <2>3. Let(At) \in hf
    BY <1>2, <1>4, HeaderFrameIs
  <2>4. Clears(source, known, At + 1, d, hf)
    <3>1. d \in Nat /\ known[At + 1].nest[d] = At
      <4>1. At + 1 \in 1 .. Len(source)
        BY <1>4
      <4> QED BY <1>4, <1>5, <4>1, BlockAround DEF HeaderAt
    <3>2. d .. Len(known[At + 1].nest) = {d} /\ d + 1 .. Len(known[At + 1].nest) = {}
      BY <1>5, <3>1
    <3>3. \A i \in 1 .. (At + 1) - 1 : Inner(known, i) # At
      <4> SUFFICES ASSUME NEW i \in 1 .. (At + 1) - 1, Inner(known, i) = At PROVE FALSE
        OBVIOUS
      <4>1. i \in 1 .. Len(source) /\ i <= At /\ i \in Nat
        BY <1>4
      <4>2. Inner(known, i) < i
        BY <1>4, <4>1, InnerBefore
      <4> QED BY <1>4, <4>1, <4>2
    <3> QED BY <3>1, <3>2, <3>3 DEF Clears
  <2>5. source[At].op \in Looping
    BY <1>4 DEF Looping
  <2>6. Good(source, known, Drop(tested, hf), At)
    BY <1>4, <1>5, <1>6, <2>2, <2>3, <2>4, <2>5, Leave
  <2>7. known[e + 1].reached
    <3>1. FallsOut(source, known, e, At)
      BY <1>4, EndFacts
    <3> QED BY <1>4, <3>1 DEF FallsOut
  <2>8. Good(source, known, mem', e + 1)
    BY <1>4, <1>9, <2>6, <2>7, Arrive
  <2>9. Saves(mem, mem', known[At].locals)
    <3>1. PICK ls : ls = known[At].locals
      OBVIOUS
    <3>2. ls \in Seq(Local) /\ Placed(source, ls, At) /\ Aims(mem, ls)
      BY <1>4, <3>1, WholeAt
    <3>3. ASSUME NEW k \in 1 .. Len(ls), ls[k].ref PROVE mem.points[ls[k].pos] \notin hf
      <4>1. ls[k].pos \in Nat /\ mem.points[ls[k].pos][1] \in Nat
              /\ mem.points[ls[k].pos][1] <= ls[k].pos /\ ls[k].pos < At
        BY <3>2, <3>3, AimsBefore DEF Placed
      <4>2. mem.points[ls[k].pos][1] # At
        BY <1>4, <4>1
      <4> QED BY <2>1, <4>2
    <3>4. IsMem(tested)
      BY <1>6 DEF Good, Sane
    <3>5. mem'.live = tested.live \ hf
      BY <1>9, <3>4, DropIs
    <3> QED BY <1>7, <3>1, <3>3, <3>5 DEF Saves
  <2>10. Outlived
    BY <2>9 DEF Saves, Survives, Outlived
  <2> QED BY <1>1, <1>4, <1>9, <2>8, <2>10, Arrived
<1> QED BY <1>3, <1>8, <1>9

LEMMA ForStepRuns == ASSUME Ran, ForStep PROVE Ran' /\ Outlived
<1>1. /\ phase = "run" /\ UNCHANGED checkVars /\ Current.op = "for" /\ Stage = "step"
      /\ mem' = Evaluate(mem, Current.step, Step(At)) /\ pc' = <<At, "test">>
  BY DEF ForStep, Running
<1>2. /\ Accepted /\ Whole(source, known) /\ Good(source, known, mem, At + 1)
      /\ At \in 1 .. Len(source) - 1 /\ At \in 1 .. Len(source) /\ At \in Nat
      /\ source[At].op = "for" /\ Current = source[At]
      /\ IsMem(mem) /\ source[At] \in Token /\ EndAt(source, known, At, EndOf(At))
      /\ Aims(mem, known[At].locals)
  BY <1>1, InFor
<1>3. Good(source, known, mem', At + 1)
  <2>1. Does(source, At, Current.step)
    BY <1>2 DEF Does
  <2> QED BY <1>1, <1>2, <2>1, EvaluateGood
<1>4. StepGives(source, known, At)
  BY <1>2, EndFacts
<1>5. Saves(mem, mem', known[At].locals)
  <2>1. Current.step \in {"flag", "temp", "take"}
    BY <1>2 DEF Token
  <2>2. Current.step = "take" => Unlent(mem, known[At].locals, Current.arg)
    BY <1>2, <1>4, SteppedUnlent
  <2> QED BY <1>1, <1>2, <2>1, <2>2, EvaluateSaves
<1>6. Outlived
  BY <1>5 DEF Saves, Survives, Outlived
<1> QED BY <1>1, <1>2, <1>3, <1>6, ArrivedInFor

-----------------------------------------------------------------------------
(***************************************************************************)
(* Ends and jumps                                                          *)
(***************************************************************************)

\* Behind a block is what was declared before it.
LEMMA PlacedBehind ==
    ASSUME NEW src, NEW P, Whole(src, P), NEW q \in 1 .. Len(src), NEW e, EndAt(src, P, q, e)
    PROVE  Placed(src, P[e + 1].locals, q)
<1>1. e + 1 \in 1 .. Len(src) /\ EndOK(src, P, e, q)
  BY EndFacts
<1>2. /\ P[e + 1].locals \in Seq(Local) /\ P[q].locals \in Seq(Local)
      /\ Placed(src, P[q].locals, q)
  BY <1>1, WholeAt
<1>3. Assures(P[q].locals, P[e + 1].locals)
  BY <1>1, <1>2, GrowsStarts DEF EndOK
<1> QED BY <1>2, <1>3, PlacedPart

\* What a step out of blocks drops leaves what was there before them.
LEMMA DropOutlives ==
    ASSUME Accepted, Good(source, known, mem, At), NEW q \in Nat, NEW D, Only(D, q),
           mem' = Drop(mem, D), Placed(source, known[pc'[1]].locals, q)
    PROVE  Outlived
<1>1. /\ IsMem(mem) /\ Aims(mem, known[At].locals) /\ known[At].locals \in Seq(Local)
      /\ Placed(source, known[At].locals, At)
  <2>1. IsMem(mem) /\ Aims(mem, known[At].locals) /\ At \in 1 .. Len(source)
    BY DEF Good, Sane
  <2> QED BY <2>1, WholeAt DEF Accepted
<1>2. mem'.live = mem.live \ D
  BY <1>1, DropIs
<1> QED BY <1>1, <1>2, SurvivesDrop DEF Outlived

\* Back to the header of a loop
LEMMA ContinueRuns ==
    ASSUME Accepted, UNCHANGED checkVars, Good(source, known, mem, At),
           NEW k, NEW q, HeaderAt(known, At, k, q), source[q].op \in Looping,
           NEW D, Clears(source, known, At, k, D), Only(D, q + 1),
           mem' = Drop(mem, D), pc' = ContinueTarget(q)
    PROVE  Ran' /\ Outlived
<1>1. Whole(source, known) /\ At \in 1 .. Len(source)
  BY DEF Accepted, Good, Sane
<1>2. q \in 1 .. Len(source) /\ q \in Nat
  BY <1>1, BlockAround
<1>3. Only(D, q)
  <2>1. \A n \in Nat : q + 1 <= n => q <= n
    BY <1>2
  <2> QED BY <2>1 DEF Only
<1>4. pc'[1] = q
  BY DEF ContinueTarget, Go
<1>5. Outlived
  <2>1. Placed(source, known[q].locals, q)
    BY <1>1, <1>2, WholeAt
  <2> QED BY <1>2, <1>3, <1>4, <2>1, DropOutlives
<1>6. CASE source[q].op = "for"
  <2>1. Good(source, known, mem', q + 1)
    BY <1>1, <1>6, LeaveToStep
  <2>2. pc' = <<q, "step">>
    BY <1>6 DEF ContinueTarget
  <2> QED BY <1>2, <1>5, <1>6, <2>1, <2>2, ArrivedInFor
<1>7. CASE source[q].op # "for"
  <2>1. Good(source, known, mem', q)
    BY <1>1, <1>3, <1>7, Leave
  <2>2. pc' = Go(q)
    BY <1>7 DEF ContinueTarget
  <2> QED BY <1>5, <2>1, <2>2, Arrived
<1> QED BY <1>6, <1>7

LEMMA JumpContinueRuns == ASSUME Ran, JumpContinue PROVE Ran' /\ Outlived
<1>1. PICK q, D : q = Current.arg /\ D = emit_scope_drops_to_depth(At, DepthOf(At, q) - 1)
  OBVIOUS
<1>2. /\ phase = "run" /\ UNCHANGED checkVars /\ Current.op = "continue"
      /\ mem' = Drop(mem, D) /\ pc' = ContinueTarget(q)
  BY <1>1 DEF JumpContinue, Running
<1>3. /\ Accepted /\ Whole(source, known) /\ Good(source, known, mem, At)
      /\ At \in 1 .. Len(source)
  BY <1>2, Entered
<1>4. At \in 1 .. Len(source) - 1
  <2>1. source[Len(source)].op = "end" /\ Len(source) \in Nat
    BY <1>3 DEF Whole, Typed
  <2>2. At # Len(source)
    BY <1>2, <2>1 DEF Current
  <2> QED BY <1>3, <2>1, <2>2
<1>5. JumpOK(source, known, At)
  BY <1>2, <1>3, <1>4 DEF Whole, TokenOK, Current
<1>6. PICK k \in 2 .. Len(known[At].nest) : known[At].nest[k] = q /\ source[q].op \in Looping
  BY <1>1, <1>2, <1>5 DEF JumpOK, Current
<1>7. HeaderAt(known, At, k, q)
  BY <1>6 DEF HeaderAt
<1>8. D = emit_scope_drops_to_depth(At, k - 1)
  BY <1>1, <1>3, <1>7, DepthIs
<1>9. Clears(source, known, At, k, D) /\ Only(D, q + 1)
  BY <1>3, <1>7, <1>8, EmitClears
<1> QED BY <1>2, <1>3, <1>6, <1>7, <1>9, ContinueRuns

LEMMA JumpBreakRuns == ASSUME Ran, JumpBreak PROVE Ran' /\ Outlived
<1>1. PICK q, D, e, hf : /\ q = Current.arg /\ e = EndOf(q) /\ hf = HeaderFrame(q, e + 1)
                         /\ D = emit_scope_drops_to_depth(At, DepthOf(At, q) - 1)
  OBVIOUS
<1>2. /\ phase = "run" /\ UNCHANGED checkVars /\ Current.op = "break"
      /\ mem' = Drop(Drop(mem, D), hf) /\ pc' = Go(e + 1)
  BY <1>1 DEF JumpBreak, Running
<1>3. /\ Accepted /\ Whole(source, known) /\ Good(source, known, mem, At)
      /\ At \in 1 .. Len(source) /\ known[At].reached /\ IsMem(mem)
  BY <1>2, Entered
<1>4. At \in 1 .. Len(source) - 1
  <2>1. source[Len(source)].op = "end" /\ Len(source) \in Nat
    BY <1>3 DEF Whole, Typed
  <2>2. At # Len(source)
    BY <1>2, <2>1 DEF Current
  <2> QED BY <1>3, <2>1, <2>2
<1>5. JumpOK(source, known, At)
  BY <1>2, <1>3, <1>4 DEF Whole, TokenOK, Current
<1>6. PICK k \in 2 .. Len(known[At].nest) : known[At].nest[k] = q /\ source[q].op \in Looping
  BY <1>1, <1>2, <1>5 DEF JumpOK, Current
<1>7. HeaderAt(known, At, k, q)
  BY <1>6 DEF HeaderAt
<1>8. D = emit_scope_drops_to_depth(At, k - 1)
  BY <1>1, <1>3, <1>7, DepthIs
<1>9. Clears(source, known, At, k, D) /\ Only(D, q + 1)
  BY <1>3, <1>7, <1>8, EmitClears
<1>10. q \in 1 .. Len(source) /\ q \in Nat /\ source[q].op \in Openers /\ known[q].reached
  BY <1>3, <1>7, BlockAround
<1>11. EndAt(source, known, q, e)
  BY <1>1, <1>3, <1>10, EndOfBlockAt
<1>12. PICK all : all = D \cup hf
  OBVIOUS
<1>13. mem' = Drop(mem, all)
  BY <1>2, <1>3, <1>12 DEF Drop, IsMem
<1>14. Only(all, q)
  <2>1. \A x \in hf : x[1] = q
    BY <1>1, HeaderFrameIs
  <2>2. \A n \in Nat : q + 1 <= n => q <= n
    BY <1>10
  <2> QED BY <1>9, <1>10, <1>12, <2>1, <2>2 DEF Only
<1>15. Clears(source, known, At, k, all)
  BY <1>9, <1>12 DEF Clears
<1>16. source[q].op = "for" => Let(q) \in all
  BY <1>1, <1>12, HeaderFrameIs
<1>17. Good(source, known, mem', q)
  BY <1>3, <1>6, <1>7, <1>13, <1>14, <1>15, <1>16, Leave
<1>18. known[e + 1].reached
  <2>1. FallsOut(source, known, e, q) /\ BreaksOut(source, known, e, q) /\ e \in Nat
    BY <1>3, <1>10, <1>11, EndFacts
  <2>2. CASE source[q].op = "loop"
    <3>1. At <= e
      BY <1>3, <1>7, <1>10, <1>11, EndIsLast
    <3>2. At # e
      BY <1>2, <1>11 DEF EndAt, Current
    <3>3. At \in 1 .. e - 1
      BY <1>3, <2>1, <3>1, <3>2
    <3> QED BY <1>1, <1>2, <1>3, <2>1, <2>2, <3>3 DEF BreaksOut, Current
  <2>3. CASE source[q].op \in {"while", "for"}
    BY <1>10, <2>1, <2>3 DEF FallsOut
  <2> QED BY <1>6, <2>2, <2>3 DEF Looping
<1>19. Good(source, known, mem', e + 1)
  BY <1>3, <1>11, <1>17, <1>18, Arrive
<1>20. Outlived
  <2>1. Placed(source, known[e + 1].locals, q) /\ pc'[1] = e + 1
    BY <1>2, <1>3, <1>10, <1>11, PlacedBehind DEF Go
  <2> QED BY <1>3, <1>10, <1>13, <1>14, <2>1, DropOutlives
<1> QED BY <1>2, <1>3, <1>19, <1>20, Arrived

LEMMA EndOfBlockRuns == ASSUME Ran, EndOfBlock PROVE Ran' /\ Outlived
<1>1. PICK q, D, e : q = Scope(At) /\ D = Frame(q, At) /\ e = EndOf(q)
  OBVIOUS
<1>2. /\ phase = "run" /\ UNCHANGED checkVars /\ Current.op \in {"end", "else"} /\ q # 0
      /\ mem' = Drop(mem, D)
      /\ pc' = IF source[q].op \in Looping THEN ContinueTarget(q) ELSE Go(e + 1)
  BY <1>1 DEF EndOfBlock, Running, Looping
<1>3. /\ Accepted /\ Whole(source, known) /\ Good(source, known, mem, At)
      /\ At \in 1 .. Len(source) /\ known[At].reached /\ IsMem(mem)
  BY <1>2, Entered
<1>4. PICK k \in Nat : k = Len(known[At].nest) /\ k >= 1
  BY <1>3, WholeAt
<1>5. q = known[At].nest[k] /\ known[At].nest[1] = 0
  BY <1>1, <1>3, <1>4, NestIs, WholeAt DEF Inner
<1>6. HeaderAt(known, At, k, q)
  <2>1. k # 1
    BY <1>2, <1>5
  <2>2. k \in 2 .. k
    <3>1. \A n \in Nat : n >= 1 /\ n # 1 => n \in 2 .. n
      OBVIOUS
    <3> QED BY <1>4, <2>1, <3>1
  <2> QED BY <1>4, <1>5, <2>2 DEF HeaderAt
<1>7. Clears(source, known, At, k, D) /\ Only(D, q + 1)
  BY <1>1, <1>3, <1>4, <1>6, FrameClears
<1>8. q \in 1 .. Len(source) /\ q \in Nat /\ source[q].op \in Openers /\ known[q].reached
  BY <1>3, <1>6, BlockAround
<1>9. CASE source[q].op \in Looping
  BY <1>2, <1>3, <1>6, <1>7, <1>9, ContinueRuns
<1>10. CASE source[q].op \notin Looping
  <2>1. EndAt(source, known, q, e)
    BY <1>1, <1>3, <1>8, EndOfBlockAt
  <2>2. /\ FallsOut(source, known, e, q) /\ BranchesJoin(source, known, e, q) /\ e \in Nat
        /\ e \in 1 .. Len(source)
    BY <1>3, <1>8, <2>1, EndFacts
  <2>3. Only(D, q)
    <3>1. \A n \in Nat : q + 1 <= n => q <= n
      BY <1>8
    <3> QED BY <1>7, <3>1 DEF Only
  <2>4. At \in 1 .. Len(source) - 1
    <3>1. Len(source) \in Nat
      BY <1>3, WholeAt
    <3>2. At # Len(source)
      <4>1. Len(known[Len(source)].nest) = 1
        BY <1>3 DEF Whole
      <4> QED BY <1>2, <1>4, <1>5, <4>1
    <3> QED BY <1>3, <3>1, <3>2
  <2>5. Flows(known, At, e + 1)
    <3>1. CASE Current.op = "end"
      <4>1. EndAt(source, known, q, At)
        BY <1>1, <2>4, <3>1, NestIs DEF EndAt, Current
      <4>2. At = e
        BY <1>3, <1>8, <2>1, <4>1, OneEnd
      <4>3. source[q].op \in {"block", "if"}
        BY <1>8, <1>10 DEF Openers, Looping
      <4> QED BY <2>2, <4>2, <4>3 DEF FallsOut
    <3>2. CASE Current.op = "else"
      <4>1. ElseOK(source, known, At)
        BY <1>3, <2>4, <3>2 DEF Whole, TokenOK, Current
      <4>2. source[q].op = "if" /\ source[At].arg = q
        BY <1>1, <4>1, NestIs DEF ElseOK
      <4>3. At <= e
        BY <1>3, <1>6, <1>8, <2>1, EndIsLast
      <4>4. At # e
        BY <2>1, <3>2 DEF EndAt, Current
      <4>5. At \in 1 .. e - 1
        BY <1>3, <2>2, <4>3, <4>4
      <4> QED BY <2>2, <3>2, <4>2, <4>5 DEF BranchesJoin, Current
    <3> QED BY <1>2, <3>1, <3>2
  <2>6. Good(source, known, mem', e + 1)
    BY <1>2, <1>3, <1>6, <1>7, <1>10, <2>1, <2>3, <2>5, Fall
  <2>7. pc' = Go(e + 1)
    BY <1>2, <1>10
  <2>8. Outlived
    <3>1. Placed(source, known[e + 1].locals, q) /\ pc'[1] = e + 1
      BY <1>3, <1>8, <2>1, <2>7, PlacedBehind DEF Go
    <3> QED BY <1>2, <1>3, <1>8, <2>3, <3>1, DropOutlives
  <2> QED BY <1>2, <1>3, <2>6, <2>7, <2>8, Arrived
<1> QED BY <1>9, <1>10

\* What is left when the function returns
Returned == phase = "done" =>
    /\ MovesOwn(source, known) => "stale" \notin mem.faults
    /\ Quiet(source) => "lost" \notin mem.faults /\ mem.live = {}

LEMMA ReturnRuns == ASSUME Ran, ReturnFromFn PROVE Returned' /\ Accepted'
<1>1. /\ phase = "run" /\ source' = source /\ known' = known
      /\ Current.op = "return" \/ Current.op = "end"
      /\ mem' = Drop(mem, emit_scope_drops_to_depth(At, 0) \cup Parameters)
  BY DEF ReturnFromFn
<1>2. /\ Accepted /\ Whole(source, known) /\ Good(source, known, mem, At)
      /\ At \in 1 .. Len(source) /\ IsMem(mem)
  BY <1>1, Entered
<1>3. PICK D : D = emit_scope_drops_to_depth(At, 0) \cup Parameters
  OBVIOUS
<1>4. mem'.live = mem.live \ D /\ mem'.faults = mem.faults
  BY <1>1, <1>2, <1>3, DropIs
<1>5. MovesOwn(source, known) => "stale" \notin mem.faults
  BY <1>2 DEF Good, Safe
<1>6. Quiet(source) => "lost" \notin mem.faults /\ \A x \in mem.live : Held(source, known, x, At)
  BY <1>2 DEF Good, Clean
<1>7. Quiet(source) => \A x \in mem.live : x \in D
  BY <1>2, <1>3, <1>6, ReturnDrops
<1>8. Quiet(source) => mem'.live = {}
  BY <1>4, <1>7
<1>9. Accepted'
  BY <1>1, <1>2 DEF Accepted
<1> QED BY <1>1, <1>4, <1>5, <1>6, <1>8, <1>9 DEF Returned

-----------------------------------------------------------------------------
(***************************************************************************)
(* The beginning                                                           *)
(***************************************************************************)

\* The first token is reached.
Begun == phase \in {"check", "rejected"} => Knows[1].reached

LEMMA KnowsType ==
    ASSUME Inv
    PROVE  /\ Knows \in Seq(Known) /\ Len(Knows) >= 1 /\ Len(Knows) = Len(known) + 1
           /\ known \in Seq(Known) /\ Present \in Known
BY Remembered DEF Inv, Knows

LEMMA CheckStepReads ==
    ASSUME CheckStep
    PROVE  /\ phase = "check" /\ phase' \in {"check", "rejected"}
           /\ known' = Knows \/ (UNCHANGED <<known, locals, open>>)
<1>1. ASSUME NEW token, NEW ls, NEW blocks, Read(token, ls, blocks)
      PROVE  known' = Knows /\ phase' = phase
  BY <1>1 DEF Read, Knows
<1>2. ASSUME NEW op, NEW arg, NEW ls, Simple(op, arg, ls)
      PROVE  phase = "check" /\ known' = Knows /\ phase' = phase
  BY <1>1, <1>2 DEF Simple, Room
<1>3. ASSUME NEW token, NEW ls, NEW saved, Open(token, ls, saved)
      PROVE  phase = "check" /\ known' = Knows /\ phase' = phase
  BY <1>1, <1>3 DEF Open, Room
<1>4. ASSUME NEW ls, NEW out, Close(ls, out) PROVE known' = Knows /\ phase' = phase
  BY <1>1, <1>4 DEF Close
<1>5. CASE LetMake \/ Temporary \/ LetRefTemp \/ LetCopy
  BY <1>2, <1>5 DEF LetMake, Temporary, LetRefTemp, LetCopy
<1>6. CASE TakeLocal
  BY <1>2, <1>6 DEF TakeLocal, Room, Reject
<1>7. CASE LetBorrow
  BY <1>2, <1>7 DEF LetBorrow, Room, Reject
<1>8. CASE Use
  BY <1>2, <1>8 DEF Use, Room, Reject
<1>9. CASE OpenBlock
  BY <1>3, <1>9 DEF OpenBlock
<1>10. CASE OpenWhile
  BY <1>3, <1>10 DEF OpenWhile, Room, Reject
<1>11. CASE OpenFor
  BY <1>3, <1>11 DEF OpenFor, Room, Reject
<1>12. CASE Return \/ Break \/ Continue
  BY <1>1, <1>12 DEF Return, Break, Continue, Room
<1>13. CASE Else
  BY <1>1, <1>13 DEF Else
<1>14. CASE End
  BY <1>4, <1>14
     DEF End, EndBlock, EndIf, EndElse, EndLoop, EndWhile, EndFor, Reject
<1> QED
  BY <1>5, <1>6, <1>7, <1>8, <1>9, <1>10, <1>11, <1>12, <1>13, <1>14 DEF CheckStep

LEMMA CheckStepBegun == ASSUME Inv, Begun, CheckStep PROVE Begun'
<1>1. /\ phase \in {"check", "rejected"}
      /\ known' = Knows \/ (UNCHANGED <<known, locals, open>>)
  BY CheckStepReads
<1>2. Knows[1].reached /\ Knows \in Seq(Known) /\ Len(Knows) >= 1
  BY <1>1, KnowsType DEF Begun
<1>3. Knows' = Append(known', Present')
  BY DEF Knows
<1>4. CASE known' = Knows
  <2>1. Append(Knows, Present')[1] = Knows[1]
    BY <1>2
  <2> QED BY <1>2, <1>3, <1>4, <2>1 DEF Begun
<1>5. CASE UNCHANGED <<known, locals, open>>
  <2>1. Present' = Present
    BY <1>5 DEF Present
  <2>2. Knows' = Knows
    BY <1>3, <1>5, <2>1 DEF Knows
  <2> QED BY <1>2, <2>2 DEF Begun
<1> QED BY <1>1, <1>4, <1>5

LEMMA StartRuns == ASSUME Inv, Inv', Checked, Begun, Start PROVE Ran' /\ Accepted'
<1>1. /\ Accept /\ pc' = Go(1)
      /\ mem' = [live |-> Parameters, points |-> <<>>, faults |-> {}]
  BY DEF Start
<1>2. Accepted'
  BY <1>1, AcceptAccepted
<1>3. PICK src, P, m : src = source' /\ P = known' /\ m = mem'
  OBVIOUS
<1>4. Whole(src, P)
  BY <1>2, <1>3 DEF Accepted
<1>5. P[1].reached
  BY <1>1, <1>3 DEF Accept, Begun, Knows
<1>6. 1 \in 1 .. Len(src)
  BY <1>4 DEF Whole, Typed
<1>7. /\ IsMem(m) /\ m.live = {Let(0)} /\ DOMAIN m.points = {} /\ m.faults = {}
  BY <1>1, <1>3 DEF IsMem, Parameters
<1>8. P[1].locals \in Seq(Local) /\ Placed(src, P[1].locals, 1)
  BY <1>4, <1>6, WholeAt
<1>9. ASSUME NEW k \in 1 .. Len(P[1].locals)
      PROVE  ~P[1].locals[k].ref /\ P[1].locals[k].pos = 0
  <2>1. P[1].locals[k].pos \in Nat /\ P[1].locals[k].pos < 1
    BY <1>8, PlacedType DEF Placed
  <2>2. P[1].locals[k].pos = 0
    BY <2>1
  <2> QED BY <1>8, <2>2 DEF Placed
<1>10. Sane(src, P, m, 1)
  <2>1. Aims(m, P[1].locals)
    BY <1>9 DEF Aims, AimsAt
  <2> QED BY <1>5, <1>6, <1>7, <2>1 DEF Sane
<1>11. Safe(src, P, m, 1)
  <2>1. Alive(m, P[1].locals)
    BY <1>7, <1>9 DEF Alive, AliveAt
  <2>2. LoopsAlive(src, P, m, 1)
    <3>1. SUFFICES ASSUME NEW k \in 2 .. Len(P[1].nest) PROVE FALSE
      BY DEF LoopsAlive
    <3>2. PICK q : HeaderAt(P, 1, k, q)
      BY DEF HeaderAt
    <3>3. q \in 1 .. 1 - 1
      BY <1>4, <1>6, <3>2, BlockAround
    <3> QED BY <3>3
  <2> QED BY <1>7, <2>1, <2>2 DEF Safe
<1>12. Clean(src, P, m, 1)
  BY <1>7 DEF Clean, Held
<1>13. Good(src, P, m, 1)
  BY <1>10, <1>11, <1>12 DEF Good
<1>14. At' = 1 /\ Stage' = "enter" /\ Pos' = 1
  BY <1>1 DEF At, Stage, Pos, Go
<1> QED BY <1>2, <1>3, <1>6, <1>13, <1>14 DEF Ran

-----------------------------------------------------------------------------
(***************************************************************************)
(* The theorems                                                            *)
(***************************************************************************)

\* A function is read, then run: what the checker knew, and what memory is like
RunInv ==
    /\ Inv /\ Checked /\ Begun /\ Ran /\ Returned
    /\ phase \in {"run", "done"} => Accepted
    /\ phase \in {"check", "rejected"} => mem.faults = {}

RunStep ==
    \/ Statement \/ If \/ While \/ ForInit \/ ForTest \/ ForStep
    \/ EndOfBlock \/ JumpContinue \/ JumpBreak

LEMMA RunStepRuns ==
    ASSUME Ran, RunStep
    PROVE  phase = "run" /\ UNCHANGED checkVars /\ Ran' /\ Outlived
<1>1. Running
  BY DEF RunStep, Statement, If, While, ForInit, ForTest, ForStep, EndOfBlock,
         JumpContinue, JumpBreak
<1>2. Ran' /\ Outlived
  BY StatementRuns, IfRuns, WhileRuns, ForInitRuns, ForTestRuns, ForStepRuns,
     EndOfBlockRuns, JumpContinueRuns, JumpBreakRuns DEF RunStep
<1> QED BY <1>1, <1>2 DEF Running

LEMMA InvKept == ASSUME Inv, UNCHANGED <<source, locals, open, known>>, phase' \in Phases
                 PROVE  Inv'
<1>1. Sound(locals)' /\ Nested(locals, open)'
  BY ZenonT(60) DEF Inv, Nested, Sound, Fits, Inside, Dependents
<1> QED BY <1>1 DEF Inv, TypeOK

LEMMA RunInit == Init => RunInv
<1> SUFFICES ASSUME Init PROVE RunInv
  OBVIOUS
<1>1. /\ CheckInit /\ mem.faults = {} /\ phase = "check" /\ known = <<>>
      /\ Len(open) = 1 /\ open[1].falls /\ DOMAIN open = {1}
  BY DEF Init, CheckInit, NewBlock
<1>2. Inv /\ Checked
  BY <1>1, InitInv, CheckInitChecked
<1>3. Knows[1] = Present
  BY <1>1 DEF Knows
<1>4. Begun
  BY <1>1, <1>3 DEF Begun, Present
<1> QED BY <1>1, <1>2, <1>4 DEF RunInv, Ran, Returned

LEMMA RunNext == RunInv /\ [Next]_vars => RunInv'
<1> SUFFICES ASSUME RunInv, [Next]_vars PROVE RunInv'
  OBVIOUS
<1>1. Inv /\ Checked /\ Begun /\ Ran /\ Returned
  BY DEF RunInv
<1>2. CASE CheckStep /\ UNCHANGED <<pc, mem>>
  <2>1. phase = "check" /\ phase' \in {"check", "rejected"}
    BY <1>2, CheckStepReads
  <2>2. Inv'
    BY <1>1, <1>2, NextInv DEF CheckNext
  <2>3. Checked' /\ Begun'
    BY <1>1, <1>2, <2>2, CheckStepChecked, CheckStepBegun
  <2>4. mem'.faults = {}
    BY <1>2, <2>1 DEF RunInv
  <2> QED BY <2>1, <2>2, <2>3, <2>4 DEF RunInv, Ran, Returned
<1>3. CASE Start
  <2>1. phase' = "run" /\ Accept
    BY <1>3 DEF Start, Accept
  <2>2. Inv'
    BY <1>1, <2>1, NextInv DEF CheckNext
  <2>3. Ran' /\ Accepted'
    BY <1>1, <1>3, <2>2, StartRuns
  <2> QED BY <2>1, <2>2, <2>3 DEF RunInv, Checked, Begun, Returned
<1>4. CASE RunStep
  <2>1. phase = "run" /\ UNCHANGED checkVars /\ Ran'
    BY <1>1, <1>4, RunStepRuns
  <2>2. Inv'
    BY <1>1, <2>1, NextInv
  <2>3. phase' = "run"
    BY <2>1 DEF checkVars
  <2>4. Accepted'
    BY <2>1, <2>3 DEF Ran
  <2> QED BY <2>1, <2>2, <2>3, <2>4 DEF RunInv, Checked, Begun, Returned
<1>5. CASE ReturnFromFn
  <2>1. phase' = "done" /\ UNCHANGED <<source, locals, open, known>>
    BY <1>5 DEF ReturnFromFn
  <2>2. Inv'
    BY <1>1, <2>1, InvKept DEF Phases
  <2>3. Returned' /\ Accepted'
    BY <1>1, <1>5, ReturnRuns
  <2> QED BY <2>1, <2>2, <2>3 DEF RunInv, Checked, Begun, Ran
<1>6. CASE UNCHANGED vars
  <2>1. /\ source' = source /\ locals' = locals /\ open' = open /\ known' = known
        /\ phase' = phase /\ pc' = pc /\ mem' = mem
    BY <1>6 DEF vars
  <2>2. Inv'
    BY <1>1, <2>1, InvKept DEF Inv, TypeOK
  <2>3. Present' = Present
    BY <2>1 DEF Present
  <2>4. Checked' /\ Begun'
    BY <1>1, <2>1, <2>3 DEF Checked, Begun, Knows
  <2>5. Ran' /\ Returned'
    BY <1>1, <2>1 DEF Ran, Returned, Accepted, At, Stage, Pos
  <2>6. /\ phase' \in {"run", "done"} => Accepted'
        /\ phase' \in {"check", "rejected"} => mem'.faults = {}
    BY <2>1 DEF RunInv, Accepted
  <2> QED BY <2>2, <2>4, <2>5, <2>6 DEF RunInv
<1> QED BY <1>2, <1>3, <1>4, <1>5, <1>6 DEF Next, RunStep

LEMMA SpecRuns == Spec => []RunInv
BY RunInit, RunNext, PTL DEF Spec

\* What the runs ask of a program, read off what it was accepted with
LEMMA LoopsOwn == ASSUME Accepted, LoopsMoveTheirOwn PROVE MovesOwn(source, known)
<1>1. DOMAIN source = 1 .. Len(source) /\ Whole(source, known)
  BY TokensAre DEF Accepted
<1>2. ASSUME NEW p \in 1 .. Len(source), source[p].op \in {"move", "consume"},
             NEW k \in 2 .. Len(known[p].nest), source[known[p].nest[k]].op \in Looping
      PROVE  source[p].arg > known[p].nest[k]
  <2>1. PICK q : HeaderAt(known, p, k, q)
    BY DEF HeaderAt
  <2>2. q \in 1 .. Len(source) /\ q = known[p].nest[k]
    BY <1>1, <2>1, BlockAround DEF HeaderAt
  <2>3. k \in DOMAIN Nest(p) /\ q = Nest(p)[k]
    <3>1. known[p].nest \in Seq(Nat) /\ Len(known[p].nest) \in Nat
      BY <1>1, WholeAt
    <3>2. k \in 1 .. Len(known[p].nest)
      BY <3>1
    <3> QED BY <2>2, <3>1, <3>2, NestIs
  <2>4. q \in LoopsAround(p)
    BY <1>1, <1>2, <2>2, <2>3 DEF LoopsAround, Looping
  <2>5. source[p].arg > q
    BY <1>1, <1>2, <2>4 DEF LoopsMoveTheirOwn
  <2> QED BY <2>2, <2>5
<1>3. \A p \in 1 .. Len(source) : source[p].cond # "take" /\ source[p].step # "take"
  BY <1>1 DEF LoopsMoveTheirOwn
<1> QED BY <1>2, <1>3 DEF MovesOwn

LEMMA HeadersQuiet == ASSUME Accepted, NoHeaderTemporaries PROVE Quiet(source)
BY TokensAre DEF NoHeaderTemporaries, Quiet

\* The checker is sound for what runs: whatever it let an accepted function use
\* at a point is there when the point is reached, on every path.
THEOREM CheckerIsSound == Spec => []CheckedLocalsLive
<1>1. RunInv => CheckedLocalsLive
  <2> SUFFICES ASSUME RunInv, phase = "run", LoopsMoveTheirOwn,
                      NEW k \in DOMAIN known[At].locals
               PROVE  AliveAt(mem, known[At].locals[k])
    BY DEF CheckedLocalsLive, AliveAt
  <2>1. Ran /\ Accepted /\ At \in 1 .. Len(source)
    BY DEF RunInv, Ran
  <2>2. MovesOwn(source, known) /\ Whole(source, known)
    BY <2>1, LoopsOwn DEF Accepted
  <2>3. Good(source, known, mem, Pos)
    BY DEF RunInv, Ran
  <2>4. Alive(mem, known[Pos].locals)
    BY <2>2, <2>3 DEF Good, Safe
  <2>5. Alive(mem, known[At].locals)
    <3>1. CASE Stage = "enter"
      BY <2>4, <3>1 DEF Pos
    <3>2. CASE Stage # "enter"
      <4>1. /\ At \in 1 .. Len(source) - 1 /\ source[At].op \in Openers /\ Pos = At + 1
            /\ At \in 1 .. Len(source)
        BY <2>1, <3>2, InFor DEF Ran, Current, Openers, Pos
      <4>2. PICK d : Deeper(known, At, d)
        BY DEF Deeper
      <4>3. /\ HeaderOK(source[At], At, known[At].locals, known[At + 1].locals)
            /\ At + 1 \in 1 .. Len(source)
        BY <2>2, <4>1, <4>2, Opening
      <4>4. Assures(known[At + 1].locals, known[At].locals)
        BY <2>2, <4>1, <4>3 DEF HeaderOK, MovesOwn
      <4>5. known[At].locals \in Seq(Local) /\ known[At + 1].locals \in Seq(Local)
        BY <2>2, <4>1, <4>3, WholeAt
      <4> QED BY <2>4, <4>1, <4>4, <4>5, AliveAssured
    <3> QED BY <3>1, <3>2
  <2>6. k \in 1 .. Len(known[At].locals)
    BY <2>1, <2>2, WholeAt
  <2> QED BY <2>5, <2>6 DEF Alive
<1> QED BY <1>1, SpecRuns, PTL

\* No path of an accepted function moves or borrows a local whose value is gone,
\* when its loops move only what they declare.
THEOREM MovesAreSafe == Spec => []AcceptedMovesAreSafe
<1>1. RunInv => AcceptedMovesAreSafe
  <2> SUFFICES ASSUME RunInv, LoopsMoveTheirOwn PROVE "stale" \notin mem.faults
    BY DEF AcceptedMovesAreSafe, MovedIsUnusable
  <2>1. phase \in {"check", "rejected", "run", "done"}
    BY DEF RunInv, Inv, TypeOK, Phases
  <2>2. CASE phase \in {"check", "rejected"}
    BY <2>2 DEF RunInv
  <2>3. CASE phase \in {"run", "done"}
    <3>1. MovesOwn(source, known)
      BY <2>3, LoopsOwn DEF RunInv
    <3>2. phase = "run" => "stale" \notin mem.faults
      BY <3>1 DEF RunInv, Ran, Good, Safe
    <3>3. phase = "done" => "stale" \notin mem.faults
      BY <3>1 DEF RunInv, Returned
    <3> QED BY <2>3, <3>2, <3>3
  <2> QED BY <2>1, <2>2, <2>3
<1> QED BY <1>1, SpecRuns, PTL

\* Every owned value is freed exactly once by the end of an accepted function,
\* by whatever jump it is left: none is overwritten, none remains.
THEOREM EverythingIsFreed == Spec => []NothingLeaks
<1>1. RunInv => NothingLeaks
  <2> SUFFICES ASSUME RunInv, NoHeaderTemporaries
               PROVE  "lost" \notin mem.faults /\ (phase = "done" => mem.live = {})
    BY DEF NothingLeaks
  <2>1. phase \in {"check", "rejected", "run", "done"}
    BY DEF RunInv, Inv, TypeOK, Phases
  <2>2. CASE phase \in {"check", "rejected"}
    BY <2>2 DEF RunInv
  <2>3. CASE phase \in {"run", "done"}
    <3>1. Quiet(source)
      BY <2>3, HeadersQuiet DEF RunInv
    <3>2. phase = "run" => "lost" \notin mem.faults
      BY <3>1 DEF RunInv, Ran, Good, Clean
    <3>3. phase = "done" => "lost" \notin mem.faults /\ mem.live = {}
      BY <3>1 DEF RunInv, Returned
    <3> QED BY <2>3, <3>2, <3>3
  <2> QED BY <2>1, <2>2, <2>3
<1> QED BY <1>1, SpecRuns, PTL

\* No step of an accepted function moves away a value under a reference that
\* stays in scope, whatever its loops move.
THEOREM OwnersOutlive == Spec => OwnerOutlivesReference
<1> DEFINE Outlives == phase = "run" /\ phase' = "run" =>
        \A k \in DOMAIN known[At].locals, n \in DOMAIN known[pc'[1]].locals :
            LET l == known[At].locals[k]
            IN  /\ l.ref /\ known[pc'[1]].locals[n].pos = l.pos
                /\ mem.points[l.pos] \in mem.live
                => mem.points[l.pos] \in mem'.live
<1>1. RunInv /\ RunInv' /\ [Next]_vars => [Outlives]_vars
  <2> SUFFICES ASSUME RunInv, RunInv', Next, phase = "run", phase' = "run",
                      NEW k \in DOMAIN known[At].locals,
                      NEW n \in DOMAIN known[pc'[1]].locals,
                      known[At].locals[k].ref,
                      known[pc'[1]].locals[n].pos = known[At].locals[k].pos,
                      mem.points[known[At].locals[k].pos] \in mem.live
               PROVE  mem.points[known[At].locals[k].pos] \in mem'.live
    OBVIOUS
  <2>1. RunStep
    <3>1. ~CheckStep
      BY CheckStepReads
    <3>2. ~Start
      BY DEF Start, Accept
    <3>3. ~ReturnFromFn
      BY DEF ReturnFromFn
    <3> QED BY <3>1, <3>2, <3>3 DEF Next, RunStep
  <2>2. Outlived /\ known' = known /\ source' = source
    BY <2>1, RunStepRuns DEF RunInv, checkVars
  <2>3. k \in 1 .. Len(known[At].locals)
    <3>1. Whole(source, known) /\ At \in 1 .. Len(source)
      BY DEF RunInv, Ran, Accepted
    <3> QED BY <3>1, WholeAt
  <2>4. n \in 1 .. Len(known[pc'[1]].locals)
    <3>1. Whole(source, known) /\ At' \in 1 .. Len(source)
      BY <2>2 DEF RunInv, Ran, Accepted
    <3>2. At' = pc'[1]
      BY DEF At
    <3> QED BY <3>1, <3>2, WholeAt
  <2> QED BY <2>2, <2>3, <2>4 DEF Outlived, Survives
<1> HIDE DEF Outlives
<1>2. Spec => [][Outlives]_vars
  BY <1>1, SpecRuns, PTL DEF Spec
<1> QED BY SMTT(30), <1>2 DEF OwnerOutlivesReference, Outlives

=============================================================================
