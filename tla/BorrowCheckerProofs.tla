------------------------- MODULE BorrowCheckerProofs -------------------------
(***************************************************************************)
(* The move and borrow checker, for functions of every length and nesting: *)
(* its counters cover every reference in scope and never go below zero,    *)
(* through branches, joins and copies of the scope; and what it knew fits  *)
(* on the two sides of every edge of the control flow, though it reads a   *)
(* function once, from top to bottom, and the program goes along the       *)
(* edges.                                                                  *)
(***************************************************************************)
EXTENDS BorrowChecker, FiniteSetTheorems, SequenceTheorems,
    WellFoundedInduction, TLAPS

\* A scope: a reference borrows from an earlier local, and is counted there.
Sound(ls) ==
    /\ ls \in Seq(Local)
    /\ \A k \in DOMAIN ls : ls[k].of < k
    /\ \A i \in DOMAIN ls : ls[i].borrows >= Cardinality(Dependents(ls, i, 1))

\* The copies set aside fit the scope their block started from, and blocks
\* nest: each keeps the locals of the blocks around it.
Fits(block) ==
    /\ Sound(block.saved) /\ Len(block.saved) = block.base
    /\ block.kind = "else" => Sound(block.branch) /\ Len(block.branch) = block.base

Inside(inner, outer) ==
    /\ outer.base <= inner.base
    /\ inner.kind # "fn"
    /\ inner.kind = "for" => outer.base < inner.base

Nested(ls, blocks) ==
    /\ blocks[1].kind = "fn"
    /\ \A k \in 1 .. Len(blocks) : blocks[k].base <= Len(ls) /\ Fits(blocks[k])
    /\ \A j, k \in 1 .. Len(blocks) : j < k => Inside(blocks[k], blocks[j])

Known == [locals : Seq(Local), nest : Seq(Nat), reached : BOOLEAN]

Inv == TypeOK /\ known \in Seq(Known) /\ Sound(locals) /\ Nested(locals, open)

-----------------------------------------------------------------------------
(***************************************************************************)
(* Scopes                                                                  *)
(***************************************************************************)

LEMMA DependentsFinite ==
    ASSUME NEW ls \in Seq(Local), NEW i, NEW from \in Nat \ {0}
    PROVE  /\ IsFiniteSet(Dependents(ls, i, from))
           /\ Cardinality(Dependents(ls, i, from)) \in Nat
<1>1. IsFiniteSet(from .. Len(ls))
  BY FS_Interval
<1>2. Dependents(ls, i, from) \subseteq from .. Len(ls)
  BY DEF Dependents
<1> QED BY <1>1, <1>2, FS_Subset, FS_CardinalityType

LEMMA LocalAt ==
    ASSUME NEW ls \in Seq(Local), NEW i \in 1 .. Len(ls)
    PROVE  /\ ls[i] \in Local /\ ls[i].borrows \in Nat /\ ls[i].of \in Nat
           /\ i \in DOMAIN ls /\ i \in Nat /\ Len(ls) \in Nat
<1>1. ls[i] \in Local
  BY ElementOfSeq
<1> QED BY <1>1 DEF Local

LEMMA CountedAt ==
    ASSUME NEW ls, Sound(ls), NEW i \in 1 .. Len(ls)
    PROVE  /\ ls \in Seq(Local)
           /\ ls[i].borrows >= Cardinality(Dependents(ls, i, 1))
           /\ Cardinality(Dependents(ls, i, 1)) \in Nat
           /\ IsFiniteSet(Dependents(ls, i, 1))
<1>1. ls \in Seq(Local)
  BY DEF Sound
<1>2. ls[i].borrows >= Cardinality(Dependents(ls, i, 1))
  BY <1>1, LocalAt DEF Sound
<1> QED BY <1>1, <1>2, DependentsFinite

LEMMA EmptySound == Sound(<<>>)
BY DEF Sound

\* Raising counters, or marking locals as moved, keeps a scope sound.
LEMMA Raised ==
    ASSUME NEW ls, Sound(ls), NEW ms \in Seq(Local), Len(ms) = Len(ls),
           \A i \in 1 .. Len(ls) :
                ms[i].of = ls[i].of /\ ms[i].borrows >= ls[i].borrows
    PROVE  Sound(ms)
<1>1. ls \in Seq(Local) /\ DOMAIN ms = 1 .. Len(ls) /\ DOMAIN ls = 1 .. Len(ls)
  BY DEF Sound
<1>2. ASSUME NEW i \in 1 .. Len(ls)
      PROVE  ms[i].borrows >= Cardinality(Dependents(ms, i, 1))
  <2>1. Dependents(ms, i, 1) = Dependents(ls, i, 1)
    BY <1>1 DEF Dependents
  <2>2. ls[i].borrows >= Cardinality(Dependents(ls, i, 1))
          /\ Cardinality(Dependents(ls, i, 1)) \in Nat
    BY CountedAt
  <2>3. ms[i].borrows \in Nat /\ ls[i].borrows \in Nat
    BY <1>1, LocalAt
  <2> QED BY <2>1, <2>2, <2>3
<1>3. \A k \in 1 .. Len(ls) : ms[k].of < k
  BY <1>1 DEF Sound
<1> QED BY <1>1, <1>2, <1>3 DEF Sound

LEMMA MovedSound ==
    ASSUME NEW ls, Sound(ls), NEW i \in DOMAIN ls
    PROVE  Sound(Moved(ls, i)) /\ Len(Moved(ls, i)) = Len(ls)
<1> DEFINE moved == [ls[i] EXCEPT !.moved = TRUE]
<1>1. ls \in Seq(Local) /\ i \in 1 .. Len(ls) /\ ls[i] \in Local
  BY LocalAt DEF Sound
<1>2. moved \in Local /\ moved.of = ls[i].of /\ moved.borrows = ls[i].borrows
  BY <1>1 DEF Local
<1> HIDE DEF moved
<1>3. Moved(ls, i) = [ls EXCEPT ![i] = moved]
  BY DEF Moved, moved
<1>4. Moved(ls, i) \in Seq(Local) /\ Len(Moved(ls, i)) = Len(ls)
        /\ \A k \in 1 .. Len(ls) : Moved(ls, i)[k] = IF k = i THEN moved ELSE ls[k]
  BY <1>1, <1>2, <1>3, ExceptSeq
<1>5. \A k \in 1 .. Len(ls) : ls[k].borrows \in Nat
  BY <1>1, LocalAt
<1> QED BY <1>2, <1>4, <1>5, Raised

LEMMA BorrowedSound ==
    ASSUME NEW ls, Sound(ls), NEW i \in DOMAIN ls
    PROVE  /\ Sound(Borrowed(ls, i)) /\ Len(Borrowed(ls, i)) = Len(ls)
           /\ \A k \in 1 .. Len(ls) :
                /\ Borrowed(ls, i)[k].of = ls[k].of
                /\ Borrowed(ls, i)[k].borrows =
                      IF k = i THEN ls[k].borrows + 1 ELSE ls[k].borrows
<1>1. /\ ls \in Seq(Local) /\ i \in 1 .. Len(ls) /\ ls[i] \in Local
      /\ ls[i].borrows \in Nat
  BY LocalAt DEF Sound
<1> PICK more \in Nat : more = ls[i].borrows + 1
  BY <1>1
<1> DEFINE lent == [ls[i] EXCEPT !.borrows = more]
<1>2. lent \in Local /\ lent.of = ls[i].of /\ lent.borrows = ls[i].borrows + 1
  BY <1>1 DEF Local
<1> HIDE DEF lent
<1>3. Borrowed(ls, i) = [ls EXCEPT ![i] = lent]
  BY DEF Borrowed, lent
<1>4. Borrowed(ls, i) \in Seq(Local) /\ Len(Borrowed(ls, i)) = Len(ls)
        /\ \A k \in 1 .. Len(ls) : Borrowed(ls, i)[k] = IF k = i THEN lent ELSE ls[k]
  BY <1>1, <1>2, <1>3, ExceptSeq
<1>5. \A k \in 1 .. Len(ls) : ls[k].borrows \in Nat
  BY <1>1, LocalAt
<1> QED BY <1>2, <1>4, <1>5, Raised

LEMMA MergedSound ==
    ASSUME NEW ls, Sound(ls), NEW ms, Sound(ms), Len(ms) = Len(ls)
    PROVE  Sound(merge_from(ls, ms)) /\ Len(merge_from(ls, ms)) = Len(ls)
<1>1. ls \in Seq(Local) /\ ms \in Seq(Local) /\ DOMAIN ls = 1 .. Len(ls)
        /\ Len(ls) \in Nat
  BY DEF Sound
<1> DEFINE most(i) == IF ms[i].borrows > ls[i].borrows THEN ms[i].borrows
                      ELSE ls[i].borrows
           joined(i) == [ls[i] EXCEPT !.moved = @ \/ ms[i].moved, !.borrows = most(i)]
<1>2. ASSUME NEW i \in 1 .. Len(ls)
      PROVE  /\ joined(i) \in Local /\ joined(i).of = ls[i].of
             /\ joined(i).borrows >= ls[i].borrows
  <2>1. /\ ls[i] \in Local /\ ms[i] \in Local
        /\ ls[i].borrows \in Nat /\ ms[i].borrows \in Nat
    BY <1>1, LocalAt
  <2>2. most(i) \in Nat /\ most(i) >= ls[i].borrows
    BY <2>1
  <2> HIDE DEF most
  <2>3. (ls[i].moved \/ ms[i].moved) \in BOOLEAN
    OBVIOUS
  <2> QED BY <2>1, <2>2, <2>3 DEF Local
<1>3. merge_from(ls, ms) = [i \in 1 .. Len(ls) |-> joined(i)]
  BY <1>1 DEF merge_from
<1> HIDE DEF joined
<1>4. merge_from(ls, ms) \in Seq(Local) /\ Len(merge_from(ls, ms)) = Len(ls)
        /\ \A k \in 1 .. Len(ls) : merge_from(ls, ms)[k] = joined(k)
  BY <1>1, <1>2, <1>3
<1> QED BY <1>2, <1>4, Raised

\* A new reference is one more dependent of its owner, and counted.
LEMMA InsertSound ==
    ASSUME NEW ls, Sound(ls), NEW pos \in Nat, NEW ref \in BOOLEAN,
           NEW of \in 0 .. Len(ls)
    PROVE  /\ Sound(insert(ls, pos, ref, of))
           /\ Len(insert(ls, pos, ref, of)) = Len(ls) + 1
<1> DEFINE counted == IF of = 0 THEN ls ELSE Borrowed(ls, of)
           new == NewLocal(pos, ref, of)
           all == Append(counted, new)
<1>1. ls \in Seq(Local) /\ Len(ls) \in Nat
  BY DEF Sound
<1>2. /\ Sound(counted) /\ Len(counted) = Len(ls) /\ counted \in Seq(Local)
      /\ \A k \in 1 .. Len(ls) :
            /\ counted[k].of = ls[k].of
            /\ counted[k].borrows = IF k = of THEN ls[k].borrows + 1 ELSE ls[k].borrows
  BY <1>1, BorrowedSound DEF Sound
<1>3. new \in Local /\ new.of = of /\ new.borrows = 0
  BY <1>1 DEF new, NewLocal, Local
<1>4. all \in Seq(Local) /\ Len(all) = Len(ls) + 1 /\ DOMAIN all = 1 .. Len(ls) + 1
        /\ all[Len(ls) + 1] = new
        /\ \A k \in 1 .. Len(ls) : all[k] = counted[k]
  BY <1>1, <1>2, <1>3
<1> HIDE DEF counted, new, all
<1>5. ASSUME NEW k \in DOMAIN all PROVE all[k].of < k
  BY <1>1, <1>2, <1>3, <1>4, <1>5 DEF Sound
<1>6. ASSUME NEW i \in DOMAIN all
      PROVE  all[i].borrows >= Cardinality(Dependents(all, i, 1))
  <2>1. CASE i = Len(ls) + 1
    <3>1. Dependents(all, i, 1) = {}
      BY <2>1, <1>1, <1>4, <1>5 DEF Dependents, Local
    <3>2. Cardinality(Dependents(all, i, 1)) = 0
      BY <3>1, FS_EmptySet
    <3> QED BY <3>2, <2>1, <1>3, <1>4
  <2>2. CASE i \in 1 .. Len(ls)
    <3>1. ls[i].borrows >= Cardinality(Dependents(ls, i, 1)) /\ ls[i].borrows \in Nat
            /\ Cardinality(Dependents(ls, i, 1)) \in Nat
            /\ IsFiniteSet(Dependents(ls, i, 1))
      BY <2>2, <1>1, CountedAt, LocalAt
    <3>2. CASE i = of
      <4>1. Dependents(all, i, 1) = Dependents(ls, i, 1) \cup {Len(ls) + 1}
        BY <3>2, <1>1, <1>2, <1>3, <1>4 DEF Dependents
      <4>2. Len(ls) + 1 \notin Dependents(ls, i, 1)
        BY <1>1 DEF Dependents
      <4>3. Cardinality(Dependents(all, i, 1)) = Cardinality(Dependents(ls, i, 1)) + 1
        BY <4>1, <4>2, <3>1, FS_AddElement
      <4>4. all[i].borrows = ls[i].borrows + 1
        BY <3>2, <2>2, <1>2, <1>4
      <4> QED BY <4>3, <4>4, <3>1
    <3>3. CASE i # of
      <4>1. Dependents(all, i, 1) = Dependents(ls, i, 1)
        BY <3>3, <1>1, <1>2, <1>3, <1>4 DEF Dependents
      <4>2. all[i].borrows = ls[i].borrows
        BY <3>3, <2>2, <1>2, <1>4
      <4> QED BY <4>1, <4>2, <3>1
    <3> QED BY <3>2, <3>3
  <2> QED BY <2>1, <2>2, <1>1, <1>4
<1>7. Sound(all)
  BY <1>4, <1>5, <1>6 DEF Sound
<1> QED BY <1>4, <1>7 DEF all, counted, new, insert

\* What a popped frame releases is what its references took.
LEMMA PopSound ==
    ASSUME NEW ls, Sound(ls), NEW n \in 0 .. Len(ls)
    PROVE  Sound(pop(ls, n)) /\ Len(pop(ls, n)) = n
<1>1. ls \in Seq(Local) /\ Len(ls) \in Nat /\ n \in Nat /\ n <= Len(ls)
  BY DEF Sound
<1> DEFINE gone(i) == Cardinality(Dependents(ls, i, n + 1))
           kept(i) == {k \in 1 .. n : ls[k].of = i}
<1>2. ASSUME NEW i \in 1 .. n
      PROVE  /\ gone(i) \in Nat /\ Cardinality(kept(i)) \in Nat
             /\ ls[i].borrows \in Nat
             /\ ls[i].borrows >= gone(i) + Cardinality(kept(i))
  <2>1. IsFiniteSet(Dependents(ls, i, n + 1)) /\ gone(i) \in Nat
    BY <1>1, DependentsFinite
  <2>2. IsFiniteSet(1 .. n)
    BY <1>1, FS_Interval
  <2>3. kept(i) \subseteq 1 .. n
    OBVIOUS
  <2>4. IsFiniteSet(kept(i)) /\ Cardinality(kept(i)) \in Nat
    BY <2>2, <2>3, FS_Subset, FS_CardinalityType
  <2>5. Dependents(ls, i, 1) = Dependents(ls, i, n + 1) \cup kept(i)
    BY <1>1 DEF Dependents
  <2>6. Dependents(ls, i, n + 1) \cap kept(i) = {}
    BY <1>1 DEF Dependents
  <2>7. Cardinality(Dependents(ls, i, 1)) = gone(i) + Cardinality(kept(i))
                                            - Cardinality({})
    BY <2>1, <2>4, <2>5, <2>6, FS_Union
  <2>8. Cardinality({}) = 0
    BY FS_EmptySet
  <2>9. ls[i].borrows \in Nat /\ ls[i].borrows >= Cardinality(Dependents(ls, i, 1))
    BY <1>1, CountedAt, LocalAt
  <2>10. Cardinality(Dependents(ls, i, 1)) = gone(i) + Cardinality(kept(i))
    BY <2>1, <2>4, <2>7, <2>8
  <2> HIDE DEF gone, kept
  <2> QED BY <2>1, <2>4, <2>9, <2>10
<1> HIDE DEF gone, kept
<1>3. pop(ls, n) = [i \in 1 .. n |-> [ls[i] EXCEPT !.borrows = @ - gone(i)]]
  BY DEF pop, gone
<1>4. ASSUME NEW i \in 1 .. n
      PROVE  /\ pop(ls, n)[i] \in Local /\ pop(ls, n)[i].of = ls[i].of
             /\ pop(ls, n)[i].borrows = ls[i].borrows - gone(i)
             /\ ls[i].of < i
  <2>1. ls[i] \in Local /\ i \in DOMAIN ls
    BY <1>1, LocalAt
  <2>2. ls[i].borrows - gone(i) \in Nat
    BY <1>2
  <2>3. pop(ls, n)[i] = [ls[i] EXCEPT !.borrows = @ - gone(i)]
    BY <1>3
  <2> QED BY <2>1, <2>2, <2>3 DEF Local, Sound
<1>5. pop(ls, n) \in Seq(Local) /\ Len(pop(ls, n)) = n /\ DOMAIN pop(ls, n) = 1 .. n
  <2> DEFINE entry(i) == [ls[i] EXCEPT !.borrows = @ - gone(i)]
  <2>1. \A i \in 1 .. n : entry(i) \in Local
    BY <1>3, <1>4
  <2> HIDE DEF entry
  <2>2. pop(ls, n) = [i \in 1 .. n |-> entry(i)]
    BY <1>3 DEF entry
  <2> QED BY <1>1, <2>1, <2>2
<1>6. ASSUME NEW i \in 1 .. n
      PROVE  pop(ls, n)[i].borrows >= Cardinality(Dependents(pop(ls, n), i, 1))
  <2>1. Dependents(pop(ls, n), i, 1) = kept(i)
    BY <1>4, <1>5 DEF Dependents, kept
  <2>2. ls[i].borrows - gone(i) >= Cardinality(kept(i))
    BY <1>2
  <2> QED BY <2>1, <2>2, <1>4
<1>7. \A k \in DOMAIN pop(ls, n) : pop(ls, n)[k].of < k
  BY <1>4, <1>5
<1> QED BY <1>5, <1>6, <1>7 DEF Sound

-----------------------------------------------------------------------------
(***************************************************************************)
(* Steps                                                                   *)
(***************************************************************************)

LEMMA OpenType ==
    ASSUME Inv
    PROVE  /\ open \in Seq(Block) /\ Len(open) \in Nat \ {0} /\ DOMAIN open = 1 .. Len(open)
           /\ Innermost \in Block /\ Innermost.base \in 0 .. Len(locals)
           /\ Fits(Innermost)
           /\ locals \in Seq(Local) /\ Len(locals) \in Nat
           /\ Here \in Nat
<1>1. /\ open \in Seq(Block) /\ Len(open) \in Nat \ {0} /\ DOMAIN open = 1 .. Len(open)
      /\ locals \in Seq(Local) /\ Len(locals) \in Nat /\ Here \in Nat
  BY EmptySeq DEF Inv, TypeOK, Here
<1>2. Innermost \in Block /\ Innermost.base <= Len(locals) /\ Fits(Innermost)
  BY <1>1 DEF Inv, Nested, Innermost
<1> QED BY <1>1, <1>2 DEF Block

LEMMA BlockAt ==
    ASSUME Inv, NEW k \in 1 .. Len(open)
    PROVE  open[k] \in Block /\ open[k].at \in Nat /\ open[k].base \in Nat
<1>1. open[k] \in Block
  BY OpenType, ElementOfSeq
<1> QED BY <1>1 DEF Block

LEMMA Remembered ==
    ASSUME Inv
    PROVE  Present \in Known
<1>1. \A k \in 1 .. Len(open) : open[k].at \in Nat
  BY BlockAt
<1>2. [k \in DOMAIN open |-> open[k].at] \in Seq(Nat)
  BY <1>1, OpenType
<1>3. (\A k \in DOMAIN open : open[k].falls) \in BOOLEAN
  OBVIOUS
<1> QED BY <1>2, <1>3, OpenType DEF Known, Present

\* A token is read: only the new scope and the new blocks matter.
LEMMA ReadInv ==
    ASSUME Inv, NEW token \in Token, NEW ls, Sound(ls),
           NEW blocks \in Seq(Block), blocks # <<>>, Nested(ls, blocks),
           Read(token, ls, blocks)
    PROVE  Inv'
<1> PICK memory : memory = Present
  OBVIOUS
<1>1. memory \in Known
  BY Remembered
<1>2. source' = Append(source, token) /\ known' = Append(known, memory)
        /\ locals' = ls /\ open' = blocks /\ phase' = phase
  BY DEF Read
<1>3. source \in Seq(Token) /\ known \in Seq(Known) /\ DOMAIN known = DOMAIN source
  BY DEF Inv, TypeOK
<1>4. source' \in Seq(Token) /\ known' \in Seq(Known) /\ DOMAIN known' = DOMAIN source'
  BY <1>1, <1>2, <1>3
<1>5. Sound(locals)' /\ Nested(locals, open)'
  BY <1>2 DEF Nested, Sound, Fits, Inside, Dependents
<1>6. ls \in Seq(Local) /\ phase \in Phases
  BY DEF Sound, Inv, TypeOK
<1> QED BY <1>2, <1>4, <1>5, <1>6 DEF Inv, TypeOK

LEMMA MoreLocals ==
    ASSUME Inv, NEW ls, Sound(ls), Len(ls) >= Len(locals)
    PROVE  Nested(ls, open)
<1>1. Len(ls) \in Nat /\ Len(locals) \in Nat
  BY DEF Inv, Sound
<1>2. \A k \in 1 .. Len(open) : open[k].base \in Nat
  BY BlockAt
<1> QED BY <1>1, <1>2 DEF Inv, Nested

LEMMA TokenType ==
    ASSUME NEW op \in AllOps, NEW arg \in Nat
    PROVE  T(op, arg) \in Token
BY DEF T, Token

LEMMA SimpleInv ==
    ASSUME Inv, NEW op, NEW arg \in Nat, NEW ls, Sound(ls), Len(ls) >= Len(locals),
           Simple(op, arg, ls)
    PROVE  Inv'
<1>1. T(op, arg) \in Token
  BY OpsAssumption, TokenType DEF Simple
<1>2. Nested(ls, open)
  BY MoreLocals
<1>3. open \in Seq(Block) /\ open # <<>>
  BY DEF Inv, TypeOK
<1> QED BY <1>1, <1>2, <1>3, ReadInv DEF Simple

LEMMA RejectInv == ASSUME Inv, Reject PROVE Inv'
<1>1. Sound(locals)' /\ Nested(locals, open)'
  BY DEF Inv, Reject, Nested, Sound, Fits, Inside, Dependents
<1> QED BY <1>1 DEF Inv, TypeOK, Phases, Reject

LEMMA LocalsType ==
    ASSUME Inv, NEW i \in DOMAIN locals
    PROVE  locals[i].pos \in Nat /\ locals[i].of \in 0 .. Len(locals)
             /\ i \in 0 .. Len(locals)
<1>1. locals \in Seq(Local) /\ locals[i].of < i
  BY DEF Inv, Sound
<1>2. locals[i] \in Local /\ i \in 1 .. Len(locals) /\ Len(locals) \in Nat
  BY <1>1
<1> QED BY <1>1, <1>2 DEF Local

\* A statement that declares a local, in a scope some locals of which changed.
LEMMA DeclareInv ==
    ASSUME Inv, NEW op, NEW arg \in Nat, NEW ls, Sound(ls), Len(ls) = Len(locals),
           NEW ref \in BOOLEAN, NEW of \in 0 .. Len(locals),
           Simple(op, arg, insert(ls, Here, ref, of))
    PROVE  Inv'
<1> DEFINE longer == insert(ls, Here, ref, of)
<1>1. Here \in Nat /\ Len(locals) \in Nat
  BY OpenType
<1>2. Sound(longer) /\ Len(longer) = Len(locals) + 1
  BY <1>1, InsertSound
<1> HIDE DEF longer
<1>3. Len(longer) >= Len(locals)
  BY <1>1, <1>2
<1>4. Simple(op, arg, longer)
  BY DEF longer
<1> QED BY <1>2, <1>3, <1>4, SimpleInv

LEMMA PlainInv ==
    ASSUME Inv, LetMake \/ Temporary \/ LetRefTemp
    PROVE  Inv'
<1>1. Sound(locals) /\ Len(locals) \in Nat /\ Len(locals) >= Len(locals)
        /\ 0 \in 0 .. Len(locals)
  BY OpenType DEF Inv
<1>2. CASE LetMake
  BY <1>1, <1>2, DeclareInv DEF LetMake
<1>3. CASE Temporary
  BY <1>1, <1>3, SimpleInv DEF Temporary
<1>4. CASE LetRefTemp
  BY <1>1, <1>4, DeclareInv DEF LetRefTemp
<1> QED BY <1>2, <1>3, <1>4

LEMMA TakeInv == ASSUME Inv, TakeLocal PROVE Inv'
<1>1. PICK op \in Ops \cap {"move", "consume", "discard"}, i \in Owned :
        IF ~CanMove(locals[i]) THEN Reject
        ELSE Simple(op, locals[i].pos,
                    IF op = "move" THEN insert(Moved(locals, i), Here, FALSE, 0)
                    ELSE Moved(locals, i))
  BY DEF TakeLocal
<1>2. i \in DOMAIN locals /\ Sound(locals) /\ Len(locals) \in Nat
        /\ 0 \in 0 .. Len(locals) /\ locals[i].pos \in Nat
  BY OpenType, LocalsType DEF Owned, Inv
<1>3. Sound(Moved(locals, i)) /\ Len(Moved(locals, i)) = Len(locals)
  BY <1>2, MovedSound
<1>4. CASE ~CanMove(locals[i])
  BY <1>1, <1>4, RejectInv
<1>5. CASE CanMove(locals[i]) /\ op = "move"
  <2>1. Simple(op, locals[i].pos, insert(Moved(locals, i), Here, FALSE, 0))
    BY <1>1, <1>5
  <2> QED BY <1>2, <1>3, <2>1, DeclareInv
<1>6. CASE CanMove(locals[i]) /\ op # "move"
  <2>1. Simple(op, locals[i].pos, Moved(locals, i))
    BY <1>1, <1>6
  <2>2. Len(Moved(locals, i)) >= Len(locals)
    BY <1>2, <1>3
  <2> QED BY <1>2, <1>3, <2>1, <2>2, SimpleInv
<1> QED BY <1>4, <1>5, <1>6

LEMMA ReferenceInv == ASSUME Inv, LetBorrow \/ LetCopy \/ Use PROVE Inv'
<1>1. Sound(locals) /\ Len(locals) \in Nat /\ Len(locals) >= Len(locals)
  BY OpenType DEF Inv
<1>2. CASE LetBorrow
  <2>1. PICK i \in Owned :
          IF locals[i].moved THEN Reject
          ELSE Simple("borrow", locals[i].pos, insert(Borrowed(locals, i), Here, TRUE, i))
    BY <1>2 DEF LetBorrow
  <2>2. i \in DOMAIN locals /\ locals[i].pos \in Nat /\ i \in 0 .. Len(locals)
    BY LocalsType DEF Owned
  <2>3. Sound(Borrowed(locals, i)) /\ Len(Borrowed(locals, i)) = Len(locals)
    BY <1>1, <2>2, BorrowedSound
  <2>4. CASE locals[i].moved BY <2>1, <2>4, RejectInv
  <2>5. CASE ~locals[i].moved
    <3>1. Simple("borrow", locals[i].pos, insert(Borrowed(locals, i), Here, TRUE, i))
      BY <2>1, <2>5
    <3> QED BY <2>2, <2>3, <3>1, DeclareInv
  <2> QED BY <2>4, <2>5
<1>3. CASE LetCopy
  <2>1. PICK i \in Refs :
          Simple("copy", locals[i].pos, insert(locals, Here, TRUE, locals[i].of))
    BY <1>3 DEF LetCopy
  <2>2. locals[i].pos \in Nat /\ locals[i].of \in 0 .. Len(locals)
    BY LocalsType DEF Refs
  <2> QED BY <1>1, <2>1, <2>2, DeclareInv
<1>4. CASE Use
  <2>1. PICK i \in DOMAIN locals :
          IF locals[i].moved THEN Reject ELSE Simple("use", locals[i].pos, locals)
    BY <1>4 DEF Use
  <2>2. locals[i].pos \in Nat
    BY LocalsType
  <2>3. CASE locals[i].moved BY <2>1, <2>3, RejectInv
  <2>4. CASE ~locals[i].moved BY <1>1, <2>1, <2>2, <2>4, SimpleInv
  <2> QED BY <2>3, <2>4
<1> QED BY <1>2, <1>3, <1>4


-----------------------------------------------------------------------------
(***************************************************************************)
(* Blocks                                                                  *)
(***************************************************************************)

\* What is known of the ends of blocks plays no part in how they nest.
SameShape(b, c) ==
    /\ b.kind = c.kind /\ b.base = c.base
    /\ b.saved = c.saved /\ b.branch = c.branch

LEMMA Reshaped ==
    ASSUME NEW ls, NEW blocks, Nested(ls, blocks), Len(blocks) \in Nat \ {0},
           NEW cs, Len(cs) = Len(blocks),
           \A k \in 1 .. Len(blocks) : SameShape(cs[k], blocks[k])
    PROVE  Nested(ls, cs)
<1>1. \A k \in 1 .. Len(blocks) : Fits(blocks[k]) => Fits(cs[k])
  BY DEF SameShape, Fits
<1>2. ASSUME NEW j \in 1 .. Len(blocks), NEW k \in 1 .. Len(blocks), j < k
      PROVE  Inside(cs[k], cs[j])
  <2>1. Inside(blocks[k], blocks[j])
    BY <1>2 DEF Nested
  <2> QED BY <2>1 DEF SameShape, Inside
<1>3. cs[1].kind = "fn"
  BY DEF Nested, SameShape
<1> QED BY <1>1, <1>2, <1>3 DEF Nested, SameShape

\* A new block starts from the scope its header leaves.
LEMMA OpenInv ==
    ASSUME Inv, NEW token \in Token, NEW ls, Sound(ls), Len(ls) >= Len(locals),
           token.op \in {"block", "if", "loop", "while", "for"},
           token.op = "for" => Len(ls) > Len(locals),
           Open(token, ls, ls)
    PROVE  Inv'
<1> DEFINE block == NewBlock(token.op, ls, Len(ls))
           blocks == Append(open, block)
<1>1. ls \in Seq(Local) /\ Len(ls) \in Nat /\ <<>> \in Seq(Local) /\ Len(locals) \in Nat
        /\ Here \in Nat
  BY OpenType, EmptySeq DEF Sound
<1>2. /\ block \in Block /\ block.kind = token.op /\ block.base = Len(ls)
      /\ block.saved = ls
  BY <1>1 DEF NewBlock, Block
<1> HIDE DEF block
<1>3. blocks \in Seq(Block) /\ Len(blocks) = Len(open) + 1 /\ blocks[Len(open) + 1] = block
        /\ \A k \in 1 .. Len(open) : blocks[k] = open[k]
  BY <1>2, OpenType
<1>4. Fits(block)
  BY <1>2 DEF Fits
<1>5. Nested(ls, open)
  BY MoreLocals
<1>6. ASSUME NEW j \in 1 .. Len(open) PROVE Inside(block, open[j])
  <2>1. open[j].base <= Len(locals) /\ open[j].base \in Nat
    BY BlockAt DEF Inv, Nested
  <2> QED BY <2>1, <1>1, <1>2 DEF Inside
<1> HIDE DEF blocks
<1>7. Nested(ls, blocks)
  <2>1. blocks[1].kind = "fn"
    BY <1>3, <1>5, OpenType DEF Nested
  <2>2. ASSUME NEW k \in 1 .. Len(blocks) PROVE blocks[k].base <= Len(ls) /\ Fits(blocks[k])
    BY <1>1, <1>2, <1>3, <1>4, <1>5, OpenType DEF Nested
  <2>3. ASSUME NEW j \in 1 .. Len(blocks), NEW k \in 1 .. Len(blocks), j < k
        PROVE  Inside(blocks[k], blocks[j])
    <3>1. CASE k = Len(open) + 1
      BY <3>1, <2>3, <1>3, <1>6, OpenType
    <3>2. CASE k \in 1 .. Len(open)
      BY <3>2, <2>3, <1>3, <1>5, OpenType DEF Nested
    <3> QED BY <3>1, <3>2, <1>3, OpenType
  <2> QED BY <2>1, <2>2, <2>3 DEF Nested
<1>8. Read(token, ls, blocks)
  BY DEF Open, blocks, block
<1>9. blocks # <<>>
  BY <1>3, OpenType, EmptySeq
<1> QED BY <1>3, <1>7, <1>8, <1>9, ReadInv

LEMMA OpenBlockInv == ASSUME Inv, OpenBlock PROVE Inv'
<1>1. PICK kind \in {"block", "if", "loop"} : Open(T(kind, 0), locals, locals)
  BY DEF OpenBlock
<1>2. T(kind, 0) \in Token /\ T(kind, 0).op = kind
  BY TokenType DEF AllOps, T
<1>3. Sound(locals) /\ Len(locals) >= Len(locals)
  BY OpenType DEF Inv
<1> QED BY <1>1, <1>2, <1>3, OpenInv

LEMMA HeaderSound ==
    ASSUME NEW ls, Sound(ls), NEW i \in DOMAIN ls, NEW effect
    PROVE  Sound(Header(ls, effect, i)) /\ Len(Header(ls, effect, i)) = Len(ls)
BY MovedSound DEF Header

LEMMA OpenWhileInv == ASSUME Inv, OpenWhile PROVE Inv'
<1>1. PICK cond \in Headers, i \in Owned :
        IF cond = "take" /\ ~CanMove(locals[i])
        THEN Reject
        ELSE Open([T("while", locals[i].pos) EXCEPT !.cond = cond],
                  Header(locals, cond, i), Header(locals, cond, i))
  BY DEF OpenWhile
<1> DEFINE token == [T("while", locals[i].pos) EXCEPT !.cond = cond]
           ls == Header(locals, cond, i)
<1>2. i \in DOMAIN locals /\ locals[i].pos \in Nat /\ Sound(locals) /\ Len(locals) \in Nat
  BY LocalsType, OpenType DEF Owned, Inv
<1>3. token \in Token /\ token.op = "while"
  BY <1>2, HeadersAssumption DEF T, Token, AllOps
<1>4. Sound(ls) /\ Len(ls) = Len(locals)
  BY <1>2, HeaderSound
<1>5. CASE cond = "take" /\ ~CanMove(locals[i])
  BY <1>1, <1>5, RejectInv
<1>6. CASE ~(cond = "take" /\ ~CanMove(locals[i]))
  <2>1. Open(token, ls, ls)
    BY <1>1, <1>6
  <2> HIDE DEF token, ls
  <2>2. Len(ls) >= Len(locals)
    BY <1>2, <1>4
  <2> QED BY <1>3, <1>4, <2>1, <2>2, OpenInv
<1> QED BY <1>5, <1>6

LEMMA OpenForInv == ASSUME Inv, OpenFor PROVE Inv'
<1> DEFINE init == insert(locals, Here, FALSE, 0)
<1>1. PICK cond \in Headers, step \in Headers, i \in Owned \cup {Len(init)} :
        IF cond = "take" /\ ~CanMove(init[i])
        THEN Reject
        ELSE Open([T("for", init[i].pos) EXCEPT !.cond = cond, !.step = step],
                  Header(init, cond, i), Header(init, cond, i))
  BY DEF OpenFor
<1>2. /\ Sound(init) /\ init \in Seq(Local) /\ Len(init) = Len(locals) + 1
      /\ Len(locals) \in Nat
  <2>1. Sound(locals) /\ Here \in Nat /\ Len(locals) \in Nat /\ 0 \in 0 .. Len(locals)
    BY OpenType DEF Inv
  <2>2. Sound(init) /\ Len(init) = Len(locals) + 1
    BY <2>1, InsertSound
  <2> QED BY <2>1, <2>2 DEF Sound
<1> HIDE DEF init
<1> DEFINE token == [T("for", init[i].pos) EXCEPT !.cond = cond, !.step = step]
           ls == Header(init, cond, i)
<1>3. i \in 1 .. Len(init) /\ i \in DOMAIN init
  BY <1>2, OpenType DEF Owned
<1>4. init[i].pos \in Nat
  <2>1. init[i] \in Local
    BY <1>2, <1>3, LocalAt
  <2> QED BY <2>1 DEF Local
<1>5. token \in Token /\ token.op = "for"
  BY <1>4, HeadersAssumption DEF T, Token, AllOps
<1>6. Sound(ls) /\ Len(ls) = Len(init)
  BY <1>2, <1>3, HeaderSound
<1>7. CASE cond = "take" /\ ~CanMove(init[i])
  BY <1>1, <1>7, RejectInv
<1>8. CASE ~(cond = "take" /\ ~CanMove(init[i]))
  <2>1. Open(token, ls, ls)
    BY <1>1, <1>8
  <2> HIDE DEF token, ls
  <2>2. Len(ls) >= Len(locals) /\ Len(ls) > Len(locals)
    BY <1>2, <1>6
  <2> QED BY <1>5, <1>6, <2>1, <2>2, OpenInv
<1> QED BY <1>7, <1>8

\* A jump: the scope stays, and the block it leaves is known not to fall through.
LEMMA JumpInv ==
    ASSUME Inv, NEW op \in AllOps, NEW arg \in Nat, NEW blocks \in Seq(Block),
           Len(blocks) = Len(open),
           \A k \in 1 .. Len(open) : SameShape(blocks[k], open[k]),
           Read(T(op, arg), locals, blocks)
    PROVE  Inv'
<1>1. Nested(locals, blocks)
  BY Reshaped, OpenType DEF Inv
<1>2. blocks # <<>>
  BY OpenType, EmptySeq
<1> QED BY <1>1, <1>2, TokenType, ReadInv DEF Inv

LEMMA DivergesType ==
    ASSUME NEW blocks \in Seq(Block), Len(blocks) \in Nat \ {0}
    PROVE  /\ Diverges(blocks) \in Seq(Block) /\ Len(Diverges(blocks)) = Len(blocks)
           /\ \A k \in 1 .. Len(blocks) : SameShape(Diverges(blocks)[k], blocks[k])
<1> DEFINE n == Len(blocks)
           last == [blocks[n] EXCEPT !.falls = FALSE]
<1>1. n \in 1 .. Len(blocks) /\ blocks[n] \in Block
  BY ElementOfSeq
<1>2. last \in Block /\ SameShape(last, blocks[n])
  BY <1>1 DEF Block, SameShape
<1> HIDE DEF last
<1>3. Diverges(blocks) = [blocks EXCEPT ![n] = last]
  BY DEF Diverges, last
<1>4. Diverges(blocks) \in Seq(Block) /\ Len(Diverges(blocks)) = Len(blocks)
        /\ \A k \in 1 .. Len(blocks) : Diverges(blocks)[k] = IF k = n THEN last ELSE blocks[k]
  BY <1>1, <1>2, <1>3, ExceptSeq
<1>5. \A k \in 1 .. Len(blocks) : SameShape(blocks[k], blocks[k])
  BY DEF SameShape
<1> QED BY <1>2, <1>4, <1>5

LEMMA InnerLoopIn ==
    ASSUME Inv, Loops # {}
    PROVE  InnerLoop \in 1 .. Len(open) /\ InnerLoop \in Loops
<1>1. Loops \subseteq 1 .. Len(open)
  BY OpenType DEF Loops
<1>2. \E k \in Loops : \A l \in Loops : l <= k
  <2> DEFINE above == {Len(open) - k : k \in Loops}
  <2>1. above \subseteq Nat
    <3>1. \A k \in Loops : Len(open) - k \in Nat
      BY <1>1, OpenType
    <3> QED BY <3>1
  <2> above # {}
    OBVIOUS
  <2>2. \E m \in above : \A n \in above : ~(<<n, m>> \in OpToRel(<, Nat))
    BY <2>1, WFMin, NatLessThanWellFounded
  <2>3. PICK m \in above : \A n \in above : ~(n < m)
    BY <2>1, <2>2 DEF OpToRel
  <2>4. PICK k \in Loops : m = Len(open) - k
    OBVIOUS
  <2>5. ASSUME NEW l \in Loops PROVE l <= k
    <3>1. ~(Len(open) - l < m)
      BY <2>3
    <3> QED BY <3>1, <2>4, <1>1, OpenType
  <2> QED BY <2>5
<1> QED BY <1>1, <1>2 DEF InnerLoop


LEMMA ReturnInv == ASSUME Inv, Return PROVE Inv'
<1>1. Diverges(open) \in Seq(Block) /\ Len(Diverges(open)) = Len(open)
        /\ \A k \in 1 .. Len(open) : SameShape(Diverges(open)[k], open[k])
  BY OpenType, DivergesType
<1> QED BY <1>1, JumpInv DEF Return, AllOps

LEMMA LoopJumpInv == ASSUME Inv, Break \/ Continue PROVE Inv'
<1>1. Loops # {} /\ InnerLoop \in 1 .. Len(open) /\ open[InnerLoop] \in Block
        /\ open[InnerLoop].at \in Nat
  BY InnerLoopIn, BlockAt DEF Break, Continue
<1>2. CASE Break
  <2> DEFINE left == [open[InnerLoop] EXCEPT !.breaks = TRUE]
             blocks == [open EXCEPT ![InnerLoop] = left]
  <2>1. left \in Block /\ SameShape(left, open[InnerLoop])
    BY <1>1 DEF Block, SameShape
  <2> HIDE DEF left
  <2>2. blocks \in Seq(Block) /\ Len(blocks) = Len(open)
          /\ \A k \in 1 .. Len(open) : blocks[k] = IF k = InnerLoop THEN left ELSE open[k]
    BY <1>1, <2>1, OpenType, ExceptSeq
  <2>3. \A k \in 1 .. Len(open) : SameShape(blocks[k], open[k])
    BY <2>1, <2>2 DEF SameShape
  <2>4. Read(T("break", open[InnerLoop].at), locals, Diverges(blocks))
    BY <1>2 DEF Break, left
  <2> HIDE DEF blocks
  <2>5. Diverges(blocks) \in Seq(Block) /\ Len(Diverges(blocks)) = Len(open)
          /\ \A k \in 1 .. Len(open) : SameShape(Diverges(blocks)[k], blocks[k])
    BY <2>2, OpenType, DivergesType
  <2>6. \A k \in 1 .. Len(open) : SameShape(Diverges(blocks)[k], open[k])
    BY <2>3, <2>5 DEF SameShape
  <2> QED BY <1>1, <2>4, <2>5, <2>6, JumpInv DEF AllOps
<1>3. CASE Continue
  <2>1. Diverges(open) \in Seq(Block) /\ Len(Diverges(open)) = Len(open)
          /\ \A k \in 1 .. Len(open) : SameShape(Diverges(open)[k], open[k])
    BY OpenType, DivergesType
  <2> QED BY <1>1, <1>3, <2>1, JumpInv DEF Continue, AllOps
<1> QED BY <1>2, <1>3

\* The innermost block ends, in a scope the block around it still fits.
LEMMA CloseInv ==
    ASSUME Inv, Innermost.kind # "fn", NEW ls, Sound(ls), NEW falls \in BOOLEAN,
           \A k \in 1 .. Len(open) - 1 : open[k].base <= Len(ls),
           Close(ls, falls)
    PROVE  Inv'
<1> DEFINE n == Len(open)
           reaches(k) == open[k].falls /\ (falls \/ k < n - 1)
           around(k) == [open[k] EXCEPT !.falls = reaches(k)]
           blocks == [k \in 1 .. n - 1 |-> around(k)]
<1>1. n \in Nat /\ n >= 2
  BY OpenType DEF Inv, Nested, Innermost
<1>2. ASSUME NEW k \in 1 .. n - 1
      PROVE  around(k) \in Block /\ SameShape(around(k), open[k])
  <2>1. k \in 1 .. Len(open) /\ open[k] \in Block
    BY <1>1, BlockAt
  <2>2. reaches(k) \in BOOLEAN
    BY <2>1 DEF Block
  <2> HIDE DEF reaches
  <2> QED BY <2>1, <2>2 DEF Block, SameShape
<1>3. blocks \in Seq(Block) /\ Len(blocks) = n - 1 /\ blocks # <<>>
  <2>1. blocks \in Seq(Block)
    BY <1>1, <1>2
  <2>2. Len(blocks) = n - 1
    BY <1>1
  <2> HIDE DEF blocks
  <2> QED BY <1>1, <2>1, <2>2, EmptySeq
<1>4. Read(T("end", Innermost.at), ls, blocks)
  BY DEF Close
<1>5. T("end", Innermost.at) \in Token
  BY TokenType, OpenType DEF AllOps, Block
<1> HIDE DEF around, reaches
<1>6. Nested(ls, blocks)
  <2>1. \A k \in 1 .. n - 1 : SameShape(blocks[k], open[k])
    BY <1>2
  <2>2. open[1].kind = "fn" /\ \A k \in 1 .. n - 1 : Fits(open[k])
    BY <1>1 DEF Inv, Nested
  <2>3. \A j, k \in 1 .. n - 1 : j < k => Inside(open[k], open[j])
    BY <1>1 DEF Inv, Nested
  <2> DEFINE outer == SubSeq(open, 1, n - 1)
  <2>4. /\ Len(outer) = n - 1 /\ \A k \in 1 .. n - 1 : outer[k] = open[k]
    BY <1>1, OpenType
  <2> HIDE DEF outer
  <2>5. Nested(ls, outer)
    BY <1>1, <2>2, <2>3, <2>4 DEF Nested
  <2> HIDE DEF blocks
  <2> QED BY <1>1, <1>3, <2>1, <2>4, <2>5, Reshaped
<1> HIDE DEF blocks
<1> QED BY <1>3, <1>4, <1>5, <1>6, ReadInv

LEMMA OuterBase ==
    ASSUME Inv, Innermost.kind # "fn", NEW k \in 1 .. Len(open) - 1
    PROVE  /\ open[k].base \in Nat
           /\ open[k].base <= Innermost.base
           /\ Innermost.kind = "for" => open[k].base < Innermost.base
<1>1. k \in 1 .. Len(open) /\ Len(open) \in 1 .. Len(open) /\ k < Len(open)
  BY OpenType
<1>2. Inside(Innermost, open[k])
  BY <1>1 DEF Inv, Nested, Innermost
<1> QED BY <1>1, <1>2, BlockAt DEF Inside

LEMMA PoppedSound ==
    ASSUME Inv
    PROVE  Sound(Popped) /\ Len(Popped) = Innermost.base
BY OpenType, PopSound DEF Popped, Inv

LEMMA JoinedSound ==
    ASSUME NEW ls, Sound(ls), NEW branch, NEW falls \in BOOLEAN,
           Sound(branch), Len(branch) = Len(ls)
    PROVE  Sound(Joined(ls, branch, falls)) /\ Len(Joined(ls, branch, falls)) = Len(ls)
BY MergedSound DEF Joined

\* Most blocks end in a scope of the length they started from.
LEMMA EndInv ==
    ASSUME Inv, Innermost.kind # "fn", NEW ls, Sound(ls), Len(ls) = Innermost.base,
           NEW falls \in BOOLEAN, Close(ls, falls)
    PROVE  Inv'
<1>1. \A k \in 1 .. Len(open) - 1 : open[k].base <= Len(ls)
  BY OuterBase
<1> QED BY <1>1, CloseInv

LEMMA PlainEndInv ==
    ASSUME Inv, EndBlock \/ EndLoop \/ EndWhile
    PROVE  Inv'
<1>1. Innermost.falls \in BOOLEAN /\ Innermost.breaks \in BOOLEAN
  BY OpenType DEF Block
<1>2. Sound(Popped) /\ Len(Popped) = Innermost.base
  BY PoppedSound
<1>3. CASE EndBlock
  BY <1>1, <1>2, <1>3, EndInv DEF EndBlock
<1>4. CASE EndLoop
  BY <1>1, <1>2, <1>4, EndInv DEF EndLoop
<1>5. CASE EndWhile
  BY <1>1, <1>2, <1>5, EndInv DEF EndWhile
<1> QED BY <1>3, <1>4, <1>5

LEMMA EndIfInv == ASSUME Inv, EndIf PROVE Inv'
<1>1. Innermost.falls \in BOOLEAN /\ Sound(Innermost.saved)
        /\ Len(Innermost.saved) = Innermost.base
  BY OpenType DEF Block, Fits
<1>2. Sound(Joined(Innermost.saved, Popped, Innermost.falls))
        /\ Len(Joined(Innermost.saved, Popped, Innermost.falls)) = Innermost.base
  BY <1>1, PoppedSound, JoinedSound
<1> QED BY <1>2, EndInv DEF EndIf

LEMMA EndElseInv == ASSUME Inv, EndElse PROVE Inv'
<1> DEFINE first == Joined(Innermost.saved, Innermost.branch, Innermost.branchFalls)
           both == Joined(first, Popped, Innermost.falls)
<1>1. /\ Innermost.falls \in BOOLEAN /\ Innermost.branchFalls \in BOOLEAN
      /\ Sound(Innermost.saved) /\ Len(Innermost.saved) = Innermost.base
      /\ Sound(Innermost.branch) /\ Len(Innermost.branch) = Innermost.base
  BY OpenType DEF Block, Fits, EndElse
<1>2. Sound(first) /\ Len(first) = Innermost.base
  BY <1>1, JoinedSound
<1> HIDE DEF first
<1>3. Sound(both) /\ Len(both) = Innermost.base
  BY <1>1, <1>2, PoppedSound, JoinedSound
<1>4. Close(both, Innermost.branchFalls \/ Innermost.falls) /\ Innermost.kind # "fn"
  BY DEF EndElse, first
<1> HIDE DEF both
<1>5. (Innermost.branchFalls \/ Innermost.falls) \in BOOLEAN
  BY <1>1
<1> QED BY <1>3, <1>4, <1>5, EndInv

\* The scope of a `for' goes, and the local of its header with it.
LEMMA EndForInv == ASSUME Inv, EndFor PROVE Inv'
<1> DEFINE ls == pop(Innermost.saved, Innermost.base - 1)
<1>1. Innermost.kind = "for" /\ (Reject \/ Close(ls, TRUE))
  BY DEF EndFor
<1>2. /\ Sound(Innermost.saved) /\ Len(Innermost.saved) = Innermost.base
      /\ Innermost.base \in Nat
  BY OpenType DEF Fits
<1>3. CASE Reject
  BY <1>3, RejectInv
<1>4. CASE Close(ls, TRUE)
  <2>1. Len(open) - 1 \in Nat /\ 1 \in 1 .. Len(open) - 1
    BY <1>1, OpenType DEF Inv, Nested, Innermost
  <2>2. Innermost.base >= 1
    BY <1>1, <1>2, <2>1, OuterBase
  <2>3. Innermost.base - 1 \in 0 .. Len(Innermost.saved)
    BY <1>2, <2>2
  <2>4. Sound(ls) /\ Len(ls) = Innermost.base - 1
    BY <1>2, <2>3, PopSound
  <2>5. \A k \in 1 .. Len(open) - 1 : open[k].base <= Len(ls)
    BY <1>1, <1>2, <2>4, OuterBase
  <2> HIDE DEF ls
  <2> QED BY <1>1, <1>4, <2>4, <2>5, CloseInv
<1> QED BY <1>1, <1>3, <1>4

LEMMA ElseInv == ASSUME Inv, Else PROVE Inv'
<1> DEFINE n == Len(open)
           block == [Innermost EXCEPT !.kind = "else", !.falls = TRUE, !.branch = Popped,
                                      !.branchFalls = Innermost.falls]
           blocks == [open EXCEPT ![n] = block]
<1>1. /\ Sound(Popped) /\ Len(Popped) = Innermost.base /\ Popped \in Seq(Local)
      /\ Sound(Innermost.saved) /\ Len(Innermost.saved) = Innermost.base
      /\ Innermost \in Block /\ Innermost.kind = "if"
  BY OpenType, PoppedSound DEF Else, Sound, Fits
<1>2. /\ block \in Block /\ block.kind = "else" /\ block.base = Innermost.base
      /\ block.saved = Innermost.saved /\ block.branch = Popped
  BY <1>1 DEF Block
<1>3. Read(T("else", Innermost.at), Innermost.saved, blocks)
  BY DEF Else, Innermost
<1> HIDE DEF block
<1>4. n \in 1 .. Len(open) /\ n >= 2
  BY <1>1, OpenType DEF Inv, Nested, Innermost
<1>5. blocks \in Seq(Block) /\ Len(blocks) = n
        /\ \A k \in 1 .. n : blocks[k] = IF k = n THEN block ELSE open[k]
  BY <1>2, <1>4, OpenType, ExceptSeq
<1>6. T("else", Innermost.at) \in Token
  BY <1>1, TokenType DEF AllOps, Block
<1> HIDE DEF blocks
<1>7. Nested(Innermost.saved, blocks)
  <2>1. Fits(block)
    BY <1>1, <1>2 DEF Fits
  <2>2. blocks[1].kind = "fn"
    BY <1>4, <1>5 DEF Inv, Nested
  <2>3. ASSUME NEW k \in 1 .. n
        PROVE  blocks[k].base <= Len(Innermost.saved) /\ Fits(blocks[k])
    <3>1. CASE k = n
      BY <3>1, <1>1, <1>2, <1>5, <2>1, OpenType
    <3>2. CASE k \in 1 .. n - 1
      <4>1. open[k].base <= Innermost.base
        BY <1>1, <3>2, OuterBase
      <4>2. Fits(open[k]) /\ blocks[k] = open[k]
        BY <1>5, <3>2 DEF Inv, Nested
      <4> QED BY <4>1, <4>2, <1>1
    <3> QED BY <3>1, <3>2
  <2>4. ASSUME NEW j \in 1 .. n, NEW k \in 1 .. n, j < k
        PROVE  Inside(blocks[k], blocks[j])
    <3>1. Inside(open[k], open[j])
      BY <2>4 DEF Inv, Nested
    <3>2. blocks[j] = open[j]
      BY <1>4, <1>5, <2>4
    <3>3. CASE k = n
      <4>1. Inside(block, open[j])
        BY <3>1, <3>3, <1>1, <1>2 DEF Inside, Innermost
      <4> QED BY <3>2, <3>3, <4>1, <1>5
    <3>4. CASE k # n
      BY <3>1, <3>2, <3>4, <1>5
    <3> QED BY <3>3, <3>4
  <2> QED BY <1>5, <2>2, <2>3, <2>4 DEF Nested
<1>8. blocks # <<>>
  BY <1>4, <1>5, EmptySeq
<1> QED BY <1>1, <1>3, <1>5, <1>6, <1>7, <1>8, ReadInv

LEMMA AcceptInv == ASSUME Inv, Accept PROVE Inv'
<1> PICK memory : memory = Present
  OBVIOUS
<1>1. T("end", 0) \in Token
  BY TokenType DEF AllOps
<1>2. memory \in Known
  BY Remembered
<1>3. source' = Append(source, T("end", 0)) /\ known' = Append(known, memory)
        /\ locals' = locals /\ open' = open /\ phase' = "run"
  BY DEF Accept
<1>4. source \in Seq(Token) /\ known \in Seq(Known) /\ DOMAIN known = DOMAIN source
  BY DEF Inv, TypeOK
<1>5. source' \in Seq(Token) /\ known' \in Seq(Known) /\ DOMAIN known' = DOMAIN source'
  BY <1>1, <1>2, <1>3, <1>4
<1>6. Sound(locals)' /\ Nested(locals, open)'
  BY <1>3 DEF Inv, Nested, Sound, Fits, Inside, Dependents
<1> QED BY <1>3, <1>5, <1>6 DEF Inv, TypeOK, Phases

LEMMA InitInv == CheckInit => Inv
<1> SUFFICES ASSUME CheckInit PROVE Inv
  OBVIOUS
<1> DEFINE parameter == NewLocal(0, FALSE, 0)
           body == [NewBlock("fn", <<>>, 0) EXCEPT !.at = 0]
<1>1. source = <<>> /\ known = <<>> /\ phase = "check" /\ locals = <<parameter>>
        /\ open = <<body>>
  BY DEF CheckInit
<1>2. parameter \in Local /\ parameter.of = 0 /\ parameter.borrows = 0
  BY DEF NewLocal, Local
<1>3. Here \in Nat
  BY <1>1 DEF Here
<1>4. /\ body \in Block /\ body.kind = "fn" /\ body.base = 0 /\ body.saved = <<>>
  <2>1. <<>> \in Seq(Local)
    OBVIOUS
  <2> QED BY <2>1, <1>3 DEF NewBlock, Block
<1> HIDE DEF parameter, body
<1>5. Sound(locals)
  <2>1. locals \in Seq(Local) /\ DOMAIN locals = {1} /\ locals[1] = parameter /\ Len(locals) = 1
    BY <1>1, <1>2
  <2>2. Dependents(locals, 1, 1) = {}
    BY <1>2, <2>1 DEF Dependents
  <2>3. Cardinality(Dependents(locals, 1, 1)) = 0
    BY <2>2, FS_EmptySet
  <2> QED BY <1>2, <2>1, <2>3 DEF Sound
<1>6. Nested(locals, open)
  <2>1. Len(open) = 1 /\ open[1] = body /\ Len(locals) = 1
    BY <1>1
  <2>2. Fits(body)
    BY <1>4, EmptySound DEF Fits
  <2> QED BY <1>4, <2>1, <2>2 DEF Nested
<1>7. source \in Seq(Token) /\ known \in Seq(Known) /\ DOMAIN known = DOMAIN source
        /\ open \in Seq(Block) /\ open # <<>> /\ locals \in Seq(Local)
  BY <1>1, <1>2, <1>4
<1> QED BY <1>1, <1>5, <1>6, <1>7 DEF Inv, TypeOK, Phases

LEMMA NextInv == Inv /\ [CheckNext]_checkVars => Inv'
<1> SUFFICES ASSUME Inv, [CheckNext]_checkVars PROVE Inv'
  OBVIOUS
<1>1. CASE LetMake \/ Temporary \/ LetRefTemp BY <1>1, PlainInv
<1>2. CASE TakeLocal BY <1>2, TakeInv
<1>3. CASE LetBorrow \/ LetCopy \/ Use BY <1>3, ReferenceInv
<1>4. CASE OpenBlock BY <1>4, OpenBlockInv
<1>5. CASE OpenWhile BY <1>5, OpenWhileInv
<1>6. CASE OpenFor BY <1>6, OpenForInv
<1>7. CASE Return BY <1>7, ReturnInv
<1>8. CASE Break \/ Continue BY <1>8, LoopJumpInv
<1>9. CASE Else BY <1>9, ElseInv
<1>10. CASE End
  BY <1>10, PlainEndInv, EndIfInv, EndElseInv, EndForInv DEF End
<1>11. CASE Accept BY <1>11, AcceptInv
<1>12. CASE UNCHANGED checkVars
  <2>1. Sound(locals)' /\ Nested(locals, open)'
    BY <1>12 DEF checkVars, Inv, Nested, Sound, Fits, Inside, Dependents
  <2> QED BY <1>12, <2>1 DEF checkVars, Inv, TypeOK
<1> QED
  BY <1>1, <1>2, <1>3, <1>4, <1>5, <1>6, <1>7, <1>8, <1>9, <1>10, <1>11, <1>12
     DEF CheckNext, CheckStep

\* Every state of the checker is well typed; in particular no borrow counter is
\* ever negative, whatever the program.
THEOREM CountersNeverNegative == CheckSpec => []TypeOK
<1>1. CheckSpec => []Inv
  BY InitInv, NextInv, PTL DEF CheckSpec
<1>2. Inv => TypeOK
  BY DEF Inv
<1> QED BY <1>1, <1>2, PTL

\* Each reference in scope is counted at its owner, through every branch, join
\* and copy of a reference: no borrowed local is ever free to move.
THEOREM ReferencesCounted == CheckSpec => []BorrowsCounted
<1>1. CheckSpec => []Inv
  BY InitInv, NextInv, PTL DEF CheckSpec
<1>2. Inv => BorrowsCounted
  BY DEF Inv, Sound, BorrowsCounted
<1> QED BY <1>1, <1>2, PTL

-----------------------------------------------------------------------------
(***************************************************************************)
(* Scopes                                                                  *)
(***************************************************************************)

\* The same local, whatever happened to it
Same(l, m) == l.pos = m.pos /\ l.ref = m.ref /\ l.of = m.of

\* ms goes on from ls, in which no more was moved.
Grows(ls, ms) ==
    /\ Len(ls) <= Len(ms)
    /\ \A k \in 1 .. Len(ls) : Same(ls[k], ms[k]) /\ (ls[k].moved => ms[k].moved)

\* What was there with ls is there with ms, which ls goes on from.
Assures(ls, ms) ==
    /\ Len(ms) <= Len(ls)
    /\ \A k \in 1 .. Len(ms) : Same(ls[k], ms[k]) /\ (ls[k].moved => ms[k].moved)

Kept(ls, ms) == Len(ls) = Len(ms) /\ Grows(ls, ms)

\* One more local
Plus(ls, ms, pos, ref, of) ==
    /\ Len(ms) = Len(ls) + 1 /\ Grows(ls, ms)
    /\ ms[Len(ms)].pos = pos /\ ms[Len(ms)].ref = ref /\ ms[Len(ms)].of = of

\* The i-th local is free to be moved.
Gives(ls, i, pos) ==
    /\ i \in 1 .. Len(ls) /\ ls[i].pos = pos /\ ~ls[i].ref /\ ~ls[i].moved
    /\ \A k \in 1 .. Len(ls) : ls[k].of # i

LEMMA GrowsTrans ==
    ASSUME NEW ls \in Seq(Local), NEW ms \in Seq(Local), NEW ns \in Seq(Local),
           Grows(ls, ms), Grows(ms, ns)
    PROVE  Grows(ls, ns)
BY DEF Grows, Same

LEMMA AssuresTrans ==
    ASSUME NEW ls \in Seq(Local), NEW ms \in Seq(Local), NEW ns \in Seq(Local),
           Assures(ls, ms), Assures(ms, ns)
    PROVE  Assures(ls, ns)
BY DEF Assures, Same

LEMMA KeptSame ==
    ASSUME NEW ls \in Seq(Local)
    PROVE  Kept(ls, ls) /\ Assures(ls, ls)
BY DEF Kept, Grows, Assures, Same

LEMMA MovedKept ==
    ASSUME NEW ls \in Seq(Local), NEW i \in DOMAIN ls
    PROVE  /\ Kept(ls, Moved(ls, i)) /\ Moved(ls, i)[i].moved
           /\ Moved(ls, i) \in Seq(Local)
<1> DEFINE moved == [ls[i] EXCEPT !.moved = TRUE]
<1>1. i \in 1 .. Len(ls) /\ ls[i] \in Local /\ Len(ls) \in Nat
  BY LocalAt
<1>2. moved \in Local /\ Same(ls[i], moved) /\ moved.moved
  BY <1>1 DEF Local, Same
<1> HIDE DEF moved
<1>3. Moved(ls, i) = [ls EXCEPT ![i] = moved]
  BY DEF Moved, moved
<1>4. Moved(ls, i) \in Seq(Local) /\ Len(Moved(ls, i)) = Len(ls)
        /\ \A k \in 1 .. Len(ls) : Moved(ls, i)[k] = IF k = i THEN moved ELSE ls[k]
  BY <1>1, <1>2, <1>3, ExceptSeq
<1> QED BY <1>1, <1>2, <1>4 DEF Kept, Grows, Same

LEMMA BorrowedKept ==
    ASSUME NEW ls \in Seq(Local), NEW i \in DOMAIN ls
    PROVE  /\ Kept(ls, Borrowed(ls, i)) /\ Assures(Borrowed(ls, i), ls)
           /\ Borrowed(ls, i) \in Seq(Local)
<1>1. i \in 1 .. Len(ls) /\ ls[i] \in Local /\ ls[i].borrows \in Nat /\ Len(ls) \in Nat
  BY LocalAt
<1> PICK more \in Nat : more = ls[i].borrows + 1
  BY <1>1
<1> DEFINE lent == [ls[i] EXCEPT !.borrows = more]
<1>2. lent \in Local /\ Same(ls[i], lent) /\ lent.moved = ls[i].moved
  BY <1>1 DEF Local, Same
<1> HIDE DEF lent
<1>3. Borrowed(ls, i) = [ls EXCEPT ![i] = lent]
  BY DEF Borrowed, lent
<1>4. Borrowed(ls, i) \in Seq(Local) /\ Len(Borrowed(ls, i)) = Len(ls)
        /\ \A k \in 1 .. Len(ls) : Borrowed(ls, i)[k] = IF k = i THEN lent ELSE ls[k]
  BY <1>1, <1>2, <1>3, ExceptSeq
<1> QED BY SMTT(30), <1>1, <1>2, <1>4 DEF Kept, Grows, Assures, Same

\* A declaration, in a scope some locals of which changed
LEMMA InsertPlus ==
    ASSUME NEW ls \in Seq(Local), NEW ms \in Seq(Local), Kept(ls, ms),
           NEW pos \in Nat, NEW ref \in BOOLEAN, NEW of \in 0 .. Len(ls)
    PROVE  /\ insert(ms, pos, ref, of) \in Seq(Local)
           /\ Plus(ls, insert(ms, pos, ref, of), pos, ref, of)
           /\ ~insert(ms, pos, ref, of)[Len(ls) + 1].moved
           /\ Assures(insert(ms, pos, ref, of), ms)
<1> DEFINE lent == IF of = 0 THEN ms ELSE Borrowed(ms, of)
           new == NewLocal(pos, ref, of)
           all == Append(lent, new)
<1>1. Len(ls) \in Nat /\ Len(ms) = Len(ls) /\ DOMAIN ms = 1 .. Len(ls)
  BY DEF Kept
<1>2. lent \in Seq(Local) /\ Kept(ms, lent) /\ Assures(lent, ms)
  BY <1>1, KeptSame, BorrowedKept
<1>3. new \in Local /\ new.pos = pos /\ new.ref = ref /\ new.of = of /\ ~new.moved
  BY <1>1 DEF NewLocal, Local
<1> HIDE DEF lent, new
<1>4. Len(lent) = Len(ls) /\ Grows(ls, lent)
  BY <1>1, <1>2, GrowsTrans DEF Kept
<1>5. all \in Seq(Local) /\ Len(all) = Len(ls) + 1 /\ all[Len(ls) + 1] = new
        /\ \A k \in 1 .. Len(ls) : all[k] = lent[k]
  BY <1>1, <1>2, <1>3, <1>4
<1> HIDE DEF all
<1>6. Plus(ls, all, pos, ref, of) /\ ~all[Len(ls) + 1].moved
  BY <1>1, <1>3, <1>4, <1>5 DEF Plus, Grows, Same
<1>7. Assures(all, ms)
  BY SMTT(30), <1>1, <1>2, <1>4, <1>5 DEF Assures, Same
<1> QED BY <1>5, <1>6, <1>7 DEF all, lent, new, insert

\* What a popped frame leaves is as it was, but for the counters.
LEMMA PopKept ==
    ASSUME NEW ls, Sound(ls), NEW n \in 0 .. Len(ls)
    PROVE  /\ pop(ls, n) \in Seq(Local) /\ Len(pop(ls, n)) = n
           /\ Assures(ls, pop(ls, n)) /\ Grows(pop(ls, n), ls)
<1>1. pop(ls, n) \in Seq(Local) /\ Len(pop(ls, n)) = n /\ ls \in Seq(Local)
        /\ Len(ls) \in Nat /\ n \in Nat /\ n <= Len(ls)
  BY PopSound DEF Sound
<1>2. ASSUME NEW i \in 1 .. n
      PROVE  Same(ls[i], pop(ls, n)[i]) /\ pop(ls, n)[i].moved = ls[i].moved
  <2>1. ls[i] \in Local
    BY <1>1, LocalAt
  <2>2. pop(ls, n)[i] = [ls[i] EXCEPT !.borrows = @ - Cardinality(Dependents(ls, i, n + 1))]
    BY DEF pop
  <2> QED BY <2>1, <2>2 DEF Local, Same
<1> QED BY <1>1, <1>2 DEF Assures, Grows, Same

\* A join forgets what either side had moved.
LEMMA MergeKept ==
    ASSUME NEW ls, Sound(ls), NEW ms, Sound(ms), Len(ms) = Len(ls),
           \A i \in 1 .. Len(ls) : Same(ls[i], ms[i])
    PROVE  /\ merge_from(ls, ms) \in Seq(Local)
           /\ Kept(ls, merge_from(ls, ms)) /\ Assures(ms, merge_from(ls, ms))
<1>1. /\ merge_from(ls, ms) \in Seq(Local) /\ Len(merge_from(ls, ms)) = Len(ls)
      /\ ls \in Seq(Local) /\ ms \in Seq(Local) /\ Len(ls) \in Nat
      /\ DOMAIN ls = 1 .. Len(ls)
  BY MergedSound DEF Sound
<1> DEFINE most(i) == IF ms[i].borrows > ls[i].borrows THEN ms[i].borrows
                      ELSE ls[i].borrows
           joined(i) == [ls[i] EXCEPT !.moved = @ \/ ms[i].moved, !.borrows = most(i)]
<1>2. ASSUME NEW i \in 1 .. Len(ls)
      PROVE  /\ Same(ls[i], joined(i))
             /\ ls[i].moved => joined(i).moved
             /\ ms[i].moved => joined(i).moved
  <2>1. ls[i] \in Local
    BY <1>1, LocalAt
  <2> HIDE DEF most
  <2> QED BY <2>1 DEF Local, Same
<1>3. merge_from(ls, ms) = [i \in 1 .. Len(ls) |-> joined(i)]
  BY <1>1 DEF merge_from
<1> HIDE DEF joined
<1>4. \A i \in 1 .. Len(ls) : merge_from(ls, ms)[i] = joined(i)
  BY <1>3
<1>5. Kept(ls, merge_from(ls, ms))
  BY <1>1, <1>2, <1>4 DEF Kept, Grows
<1>6. Assures(ms, merge_from(ls, ms))
  BY <1>1, <1>2, <1>4 DEF Assures, Same
<1> QED BY <1>1, <1>5, <1>6

-----------------------------------------------------------------------------
(***************************************************************************)
(* What the checker knew                                                   *)
(*                                                                         *)
(* src is the function, P[p] what the checker knew before the p-th token.  *)
(***************************************************************************)

Openers == {"block", "if", "loop", "while", "for"}
Looping == {"loop", "while", "for"}
Pointing == {"borrow", "copy", "refTemp"}
Plain == {"make", "temp", "refTemp", "move", "consume", "discard", "borrow", "copy", "use"}

Agree(s, t) == Len(s) = Len(t) /\ \A k \in 1 .. Len(s) : s[k] = t[k]

\* The block a token is in
Inner(P, p) == P[p].nest[Len(P[p].nest)]

\* The locals of a scope were declared before, one after the other.
Placed(src, ls, p) ==
    \A k \in 1 .. Len(ls) :
        /\ ls[k].pos < p /\ ls[k].of < k
        /\ IF ls[k].pos = 0 THEN ~ls[k].ref
           ELSE ls[k].ref <=> src[ls[k].pos].op \in Pointing
        /\ \A j \in 1 .. k - 1 : ls[j].pos < ls[k].pos

\* The k-th block around a point goes from its header up to there, and what was
\* known behind the header is still known.
Encloses(src, P, p, k, q) ==
    /\ q \in 1 .. p - 1 /\ src[q].op \in Openers
    /\ Len(P[q].nest) = k - 1
    /\ \A j \in 1 .. k - 1 : P[q].nest[j] = P[p].nest[j]
    /\ \A r \in q + 1 .. p :
          k <= Len(P[r].nest) /\ \A j \in 1 .. k : P[r].nest[j] = P[p].nest[j]
    /\ Grows(P[q + 1].locals, P[p].locals)
    /\ P[p].reached => P[q].reached

Around(src, P, p) ==
    /\ Len(P[p].nest) >= 1 /\ P[p].nest[1] = 0
    /\ \A k \in 2 .. Len(P[p].nest) : Encloses(src, P, p, k, P[p].nest[k])

PointOK(src, P, p) == Around(src, P, p) /\ Placed(src, P[p].locals, p)

\* What holds before p holds before q, if p is reached.
Flows(P, p, q) == P[p].reached => Assures(P[p].locals, P[q].locals) /\ P[q].reached

\* A statement, between two scopes
StatementOK(token, p, ls, ms) ==
    /\ token.op = "make" => Plus(ls, ms, p, FALSE, 0)
    /\ token.op \in {"temp", "discard"} => Kept(ls, ms)
    /\ token.op = "refTemp" => Plus(ls, ms, p, TRUE, 0)
    /\ token.op = "move" => \E i \in 1 .. Len(ls) :
          Gives(ls, i, token.arg) /\ Plus(ls, ms, p, FALSE, 0) /\ ms[i].moved
    /\ token.op = "consume" => \E i \in 1 .. Len(ls) :
          Gives(ls, i, token.arg) /\ Kept(ls, ms) /\ ms[i].moved
    /\ token.op = "borrow" => \E i \in 1 .. Len(ls) :
          ls[i].pos = token.arg /\ ~ls[i].ref /\ ~ls[i].moved /\ Plus(ls, ms, p, TRUE, i)
    /\ token.op = "copy" => \E i \in 1 .. Len(ls) :
          ls[i].pos = token.arg /\ ls[i].ref /\ Plus(ls, ms, p, TRUE, ls[i].of)
    /\ token.op = "use" => Kept(ls, ms) /\ \E i \in 1 .. Len(ls) :
          ls[i].pos = token.arg /\ ~ls[i].moved

\* A header, between the scope it is in and the one its block starts from
HeaderOK(token, p, ls, ms) ==
    /\ token.op # "for" => Kept(ls, ms)
    /\ token.op = "for" => Plus(ls, ms, p, FALSE, 0)
    /\ token.cond # "take" => Assures(ms, ls) /\ (token.op = "for" => ~ms[Len(ms)].moved)
    /\ token.cond = "take" =>
          \/ token.op = "for" /\ token.arg = p
          \/ \E i \in 1 .. Len(ls) : Gives(ls, i, token.arg)

JumpOK(src, P, p) ==
    /\ Agree(P[p].nest, P[p + 1].nest)
    /\ src[p].op \in {"break", "continue"} =>
          \E k \in 2 .. Len(P[p].nest) :
             P[p].nest[k] = src[p].arg /\ src[src[p].arg].op \in Looping

ElseOK(src, P, p) ==
    LET q == Inner(P, p)
    IN  /\ q = src[p].arg /\ Len(P[p].nest) > 1 /\ src[q].op = "if"
        /\ Agree(P[p].nest, P[p + 1].nest)
        /\ Kept(P[q].locals, P[p + 1].locals)
        /\ P[q].reached => P[p + 1].reached

\* The end of the block q leaves what its header found.
EndOK(src, P, p, q) ==
    /\ q = src[p].arg /\ Len(P[p].nest) > 1
    /\ Agree(P[q].nest, P[p + 1].nest)
    /\ Kept(P[q].locals, P[p + 1].locals)

\* What comes to the end of q goes on behind it.
FallsOut(src, P, p, q) ==
    /\ src[q].op \in {"block", "if"} => Flows(P, p, p + 1)
    /\ src[q].op \in {"while", "for"} => (P[q].reached => P[p + 1].reached)

BranchesJoin(src, P, p, q) ==
    src[q].op = "if" =>
        /\ \A e \in 1 .. p - 1 : src[e].op = "else" /\ src[e].arg = q => Flows(P, e, p + 1)
        /\ \/ \E e \in 1 .. p - 1 : src[e].op = "else" /\ src[e].arg = q
           \/ P[q].reached => P[p + 1].reached

BreaksOut(src, P, p, q) ==
    src[q].op = "loop" =>
        \A b \in 1 .. p - 1 :
            src[b].op = "break" /\ src[b].arg = q => (P[b].reached => P[p + 1].reached)

\* The step of a `for' takes nothing that is lent outside.
StepGives(src, P, q) ==
    src[q].op = "for" /\ src[q].step = "take" =>
        \A k \in 1 .. Len(P[q].locals) :
            P[q].locals[k].of # 0 => P[q].locals[P[q].locals[k].of].pos # src[q].arg

TokenOK(src, P, p) ==
    /\ src[p].op \in Plain =>
         /\ Agree(P[p].nest, P[p + 1].nest)
         /\ P[p].reached => P[p + 1].reached
         /\ StatementOK(src[p], p, P[p].locals, P[p + 1].locals)
    /\ src[p].op \in Openers =>
         /\ Agree(P[p + 1].nest, Append(P[p].nest, p))
         /\ P[p].reached => P[p + 1].reached
         /\ HeaderOK(src[p], p, P[p].locals, P[p + 1].locals)
    /\ src[p].op \in {"break", "continue", "return"} => JumpOK(src, P, p)
    /\ src[p].op = "else" => ElseOK(src, P, p)
    /\ src[p].op = "end" =>
         /\ EndOK(src, P, p, Inner(P, p)) /\ FallsOut(src, P, p, Inner(P, p))
         /\ BranchesJoin(src, P, p, Inner(P, p)) /\ BreaksOut(src, P, p, Inner(P, p))
         /\ StepGives(src, P, Inner(P, p))

\* Every block is open still, or has an end.
Closed(src, P) ==
    \A q \in 1 .. Len(src) : src[q].op \in Openers =>
        \/ \E k \in 2 .. Len(P[Len(P)].nest) : P[Len(P)].nest[k] = q
        \/ \E e \in 1 .. Len(P) - 1 : src[e].op = "end" /\ Inner(P, e) = q

Typed(src, P) == src \in Seq(Token) /\ P \in Seq(Known)

Shaped(src, P) ==
    /\ \A p \in 1 .. Len(P) : PointOK(src, P, p)
    /\ \A p \in 1 .. Len(P) - 1 : TokenOK(src, P, p)
    /\ Closed(src, P)

-----------------------------------------------------------------------------
(***************************************************************************)
(* One more token                                                          *)
(***************************************************************************)

\* longer and Q begin like src and P.
Begins(src, P, longer, Q) ==
    /\ Len(P) = Len(src) + 1
    /\ \A i \in 1 .. Len(src) : longer[i] = src[i]
    /\ \A i \in 1 .. Len(P) : Q[i] = P[i]

Later(src, P, longer, Q) ==
    Begins(src, P, longer, Q) /\ Len(longer) = Len(src) + 1 /\ Len(Q) = Len(P) + 1

LEMMA PointType ==
    ASSUME NEW src, NEW P, Typed(src, P), NEW p \in 1 .. Len(P)
    PROVE  /\ P[p] \in Known /\ P[p].locals \in Seq(Local) /\ P[p].nest \in Seq(Nat)
           /\ Len(P[p].nest) \in Nat /\ Len(P[p].locals) \in Nat /\ P[p].reached \in BOOLEAN
           /\ \A k \in 1 .. Len(P[p].nest) : P[p].nest[k] \in Nat
           /\ Len(P) \in Nat /\ Len(src) \in Nat /\ p \in Nat
<1>1. P \in Seq(Known) /\ src \in Seq(Token)
  BY DEF Typed
<1>2. P[p] \in Known /\ Len(P) \in Nat /\ Len(src) \in Nat /\ p \in Nat
  BY <1>1, ElementOfSeq
<1>3. P[p].locals \in Seq(Local) /\ P[p].nest \in Seq(Nat) /\ P[p].reached \in BOOLEAN
  BY <1>2 DEF Known
<1> QED BY <1>2, <1>3

LEMMA PlacedType ==
    ASSUME NEW ls \in Seq(Local), NEW k \in 1 .. Len(ls)
    PROVE  ls[k].pos \in Nat /\ ls[k].of \in Nat /\ ls[k].ref \in BOOLEAN
             /\ Len(ls) \in Nat /\ k \in Nat
<1>1. ls[k] \in Local
  BY ElementOfSeq
<1> QED BY <1>1 DEF Local

\* What is known before a point does not depend on what comes after.
LEMMA PointBegins ==
    ASSUME NEW src, NEW P, NEW longer, NEW Q, Typed(src, P), Begins(src, P, longer, Q),
           NEW p \in 1 .. Len(P), PointOK(src, P, p)
    PROVE  PointOK(longer, Q, p)
<1>1. /\ Len(P) = Len(src) + 1 /\ Len(P) \in Nat /\ Len(src) \in Nat /\ p \in Nat
      /\ \A i \in 1 .. Len(src) : longer[i] = src[i]
      /\ \A i \in 1 .. Len(P) : Q[i] = P[i]
      /\ Q[p] = P[p] /\ P[p].locals \in Seq(Local) /\ Len(P[p].nest) \in Nat
  BY PointType DEF Later, Begins
<1>2. Placed(longer, Q[p].locals, p)
  <2> SUFFICES ASSUME NEW k \in 1 .. Len(P[p].locals), P[p].locals[k].pos # 0
               PROVE  longer[P[p].locals[k].pos] = src[P[p].locals[k].pos]
    BY <1>1 DEF PointOK, Placed
  <2>1. P[p].locals[k].pos < p /\ P[p].locals[k].pos \in Nat
    BY <1>1, PlacedType DEF PointOK, Placed
  <2> QED BY SMTT(30), <1>1, <2>1
<1>3. ASSUME NEW k \in 2 .. Len(P[p].nest)
      PROVE  Encloses(longer, Q, p, k, Q[p].nest[k])
  <2>2. PICK q : q = P[p].nest[k]
    OBVIOUS
  <2>1. Encloses(src, P, p, k, q)
    BY <1>3, <2>2 DEF PointOK, Around
  <2>3. q \in 1 .. p - 1
    BY <2>1 DEF Encloses
  <2>4. Q[q] = P[q] /\ Q[q + 1] = P[q + 1] /\ longer[q] = src[q]
    BY SMTT(30), <1>1, <2>3
  <2>5. \A r \in q + 1 .. p : Q[r] = P[r]
    BY <1>1, <2>3
  <2>6. \A r \in q + 1 .. p :
          k <= Len(Q[r].nest) /\ \A j \in 1 .. k : Q[r].nest[j] = Q[p].nest[j]
    <3> SUFFICES ASSUME NEW r \in q + 1 .. p
                 PROVE  k <= Len(Q[r].nest) /\ \A j \in 1 .. k : Q[r].nest[j] = Q[p].nest[j]
      OBVIOUS
    <3>1. k <= Len(P[r].nest) /\ \A j \in 1 .. k : P[r].nest[j] = P[p].nest[j]
      BY <2>1 DEF Encloses
    <3>2. Q[r] = P[r]
      BY <2>5
    <3> QED BY <1>1, <3>1, <3>2
  <2>7. Encloses(longer, Q, p, k, q)
    BY <1>1, <2>1, <2>4, <2>6 DEF Encloses
  <2> QED BY <1>1, <2>2, <2>7
<1> QED BY <1>1, <1>2, <1>3 DEF PointOK, Around

\* Nor does what a token does.
LEMMA TokenBegins ==
    ASSUME NEW src, NEW P, NEW longer, NEW Q, Typed(src, P), Begins(src, P, longer, Q),
           NEW p \in 1 .. Len(P) - 1, PointOK(src, P, p), TokenOK(src, P, p)
    PROVE  TokenOK(longer, Q, p)
<1>1. /\ Len(P) = Len(src) + 1 /\ Len(P) \in Nat /\ Len(src) \in Nat /\ p \in Nat
      /\ \A i \in 1 .. Len(src) : longer[i] = src[i]
      /\ \A i \in 1 .. Len(P) : Q[i] = P[i]
      /\ Q[p] = P[p] /\ Q[p + 1] = P[p + 1] /\ longer[p] = src[p]
      /\ Len(P[p].nest) \in Nat
  BY PointType DEF Later, Begins
<1>2. ASSUME NEW k \in 2 .. Len(P[p].nest), NEW q, q = P[p].nest[k]
      PROVE  longer[q] = src[q] /\ Q[q] = P[q]
  <2>1. q \in 1 .. p - 1
    BY <1>2 DEF PointOK, Around, Encloses
  <2> QED BY <1>1, <2>1
<1>3. JumpOK(src, P, p) => JumpOK(longer, Q, p)
  <2> SUFFICES ASSUME JumpOK(src, P, p), src[p].op \in {"break", "continue"}
               PROVE  \E k \in 2 .. Len(P[p].nest) :
                        P[p].nest[k] = src[p].arg /\ longer[src[p].arg].op \in Looping
    BY <1>1 DEF JumpOK
  <2>1. PICK k \in 2 .. Len(P[p].nest) :
          P[p].nest[k] = src[p].arg /\ src[src[p].arg].op \in Looping
    BY DEF JumpOK
  <2>2. longer[src[p].arg] = src[src[p].arg]
    BY <1>2, <2>1
  <2> QED BY <2>1, <2>2
<1>4. Inner(Q, p) = Inner(P, p)
  BY <1>1 DEF Inner
<1>5. ElseOK(src, P, p) => ElseOK(longer, Q, p)
  <2> SUFFICES ASSUME ElseOK(src, P, p) PROVE ElseOK(longer, Q, p)
    OBVIOUS
  <2>1. PICK q : q = Inner(P, p)
    OBVIOUS
  <2>2. Len(P[p].nest) \in 2 .. Len(P[p].nest) /\ q = P[p].nest[Len(P[p].nest)]
    BY <1>1, <2>1 DEF ElseOK, Inner
  <2>3. longer[q] = src[q] /\ Q[q] = P[q]
    BY <1>2, <2>2
  <2> QED BY <1>1, <1>4, <2>1, <2>3 DEF ElseOK
<1>6. ASSUME NEW q, q = Inner(P, p), Len(P[p].nest) > 1
      PROVE  longer[q] = src[q] /\ Q[q] = P[q]
  <2>1. Len(P[p].nest) \in 2 .. Len(P[p].nest) /\ q = P[p].nest[Len(P[p].nest)]
    BY <1>1, <1>6 DEF Inner
  <2> QED BY <1>2, <2>1
<1>7. ASSUME src[p].op = "end"
      PROVE  /\ EndOK(longer, Q, p, Inner(Q, p)) /\ FallsOut(longer, Q, p, Inner(Q, p))
             /\ BranchesJoin(longer, Q, p, Inner(Q, p))
             /\ BreaksOut(longer, Q, p, Inner(Q, p)) /\ StepGives(longer, Q, Inner(Q, p))
  <2>1. PICK q : q = Inner(P, p)
    OBVIOUS
  <2>2. /\ EndOK(src, P, p, q) /\ FallsOut(src, P, p, q) /\ BranchesJoin(src, P, p, q)
        /\ BreaksOut(src, P, p, q) /\ StepGives(src, P, q)
    BY <1>7, <2>1 DEF TokenOK
  <2>3. Len(P[p].nest) > 1
    BY <2>2 DEF EndOK
  <2>4. longer[q] = src[q] /\ Q[q] = P[q]
    BY <1>6, <2>1, <2>3
  <2>5. \A e \in 1 .. p - 1 : longer[e] = src[e] /\ Q[e] = P[e]
    BY <1>1
  <2>6. EndOK(longer, Q, p, q)
    BY <1>1, <2>2, <2>4 DEF EndOK
  <2>7. FallsOut(longer, Q, p, q)
    BY <1>1, <2>2, <2>4 DEF FallsOut, Flows
  <2>8. BranchesJoin(longer, Q, p, q)
    BY <1>1, <2>2, <2>4, <2>5 DEF BranchesJoin, Flows
  <2>9. BreaksOut(longer, Q, p, q)
    BY <1>1, <2>2, <2>4, <2>5 DEF BreaksOut
  <2>10. StepGives(longer, Q, q)
    BY <2>2, <2>4 DEF StepGives
  <2> QED BY <1>4, <2>1, <2>6, <2>7, <2>8, <2>9, <2>10
<1> QED BY <1>1, <1>3, <1>4, <1>5, <1>7 DEF TokenOK

LEMMA PointStays ==
    ASSUME NEW src, NEW P, NEW longer, NEW Q, Typed(src, P), Later(src, P, longer, Q),
           NEW p \in 1 .. Len(P), PointOK(src, P, p)
    PROVE  PointOK(longer, Q, p)
BY PointBegins DEF Later

LEMMA TokenStays ==
    ASSUME NEW src, NEW P, NEW longer, NEW Q, Typed(src, P), Later(src, P, longer, Q),
           NEW p \in 1 .. Len(P) - 1, PointOK(src, P, p), TokenOK(src, P, p)
    PROVE  TokenOK(longer, Q, p)
BY TokenBegins DEF Later

\* A function stays in shape when its last token and the point behind it are.
LEMMA ShapeGrows ==
    ASSUME NEW src, NEW P, NEW longer, NEW Q, Typed(src, P), Later(src, P, longer, Q),
           Shaped(src, P), TokenOK(longer, Q, Len(P)), PointOK(longer, Q, Len(P) + 1),
           Closed(longer, Q)
    PROVE  Shaped(longer, Q)
<1>1. Len(Q) = Len(P) + 1 /\ Len(P) \in Nat
  BY DEF Later, Begins, Typed
<1>2. ASSUME NEW p \in 1 .. Len(Q) PROVE PointOK(longer, Q, p)
  <2>1. CASE p = Len(P) + 1
    BY <2>1
  <2>2. CASE p \in 1 .. Len(P)
    BY <2>2, PointStays DEF Shaped
  <2> QED BY <1>1, <2>1, <2>2
<1>3. ASSUME NEW p \in 1 .. Len(Q) - 1 PROVE TokenOK(longer, Q, p)
  <2>1. CASE p = Len(P)
    BY <2>1
  <2>2. CASE p \in 1 .. Len(P) - 1
    <3>1. p \in 1 .. Len(P)
      BY <1>1, <2>2
    <3>2. PointOK(src, P, p) /\ TokenOK(src, P, p)
      BY <2>2, <3>1 DEF Shaped
    <3> QED BY <2>2, <3>2, TokenStays
  <2> QED BY <1>1, <2>1, <2>2
<1> QED BY <1>2, <1>3 DEF Shaped

\* Locals stay in place when some change, when one more is declared, and when
\* the last of them go.
LEMMA PlacedKept ==
    ASSUME NEW src, NEW P, NEW longer, NEW Q, Typed(src, P), Later(src, P, longer, Q),
           NEW ls \in Seq(Local), NEW ms \in Seq(Local), NEW p \in 1 .. Len(P),
           Placed(src, ls, p), Grows(ms, ls) \/ Kept(ls, ms)
    PROVE  Placed(longer, ms, Len(P) + 1)
<1>1. /\ Len(P) = Len(src) + 1 /\ Len(P) \in Nat /\ Len(src) \in Nat /\ p \in Nat
      /\ \A i \in 1 .. Len(src) : longer[i] = src[i]
      /\ Len(ls) \in Nat /\ Len(ms) \in Nat /\ Len(ms) <= Len(ls)
  BY PointType DEF Later, Begins, Grows, Kept
<1>2. \A k \in 1 .. Len(ms) : Same(ls[k], ms[k])
  BY <1>1 DEF Grows, Kept, Same
<1> SUFFICES ASSUME NEW k \in 1 .. Len(ms)
             PROVE  /\ ms[k].pos < Len(P) + 1 /\ ms[k].of < k
                    /\ IF ms[k].pos = 0 THEN ~ms[k].ref
                       ELSE ms[k].ref <=> longer[ms[k].pos].op \in Pointing
                    /\ \A j \in 1 .. k - 1 : ms[j].pos < ms[k].pos
  BY DEF Placed
<1>3. PICK l, m : l = ls[k] /\ m = ms[k]
  OBVIOUS
<1>4. /\ l.pos < p /\ l.of < k /\ l.pos \in Nat
      /\ IF l.pos = 0 THEN ~l.ref ELSE l.ref <=> src[l.pos].op \in Pointing
      /\ \A j \in 1 .. k - 1 : ls[j].pos < l.pos
  BY <1>1, <1>3, PlacedType DEF Placed
<1>5. Same(l, m)
  BY <1>2, <1>3
<1>6. l.pos # 0 => longer[l.pos] = src[l.pos]
  BY <1>1, <1>4
<1>7. \A j \in 1 .. k - 1 : ms[j].pos = ls[j].pos
  BY <1>1, <1>2 DEF Same
<1>8. /\ m.pos < Len(P) + 1 /\ m.of < k
      /\ IF m.pos = 0 THEN ~m.ref ELSE m.ref <=> longer[m.pos].op \in Pointing
  BY <1>1, <1>4, <1>5, <1>6 DEF Same
<1>9. \A j \in 1 .. k - 1 : ms[j].pos < m.pos
  BY <1>4, <1>5, <1>7 DEF Same
<1> QED BY <1>3, <1>8, <1>9

LEMMA PlacedPlus ==
    ASSUME NEW src, NEW P, NEW longer, NEW Q, Typed(src, P), Later(src, P, longer, Q),
           NEW ls \in Seq(Local), NEW ms \in Seq(Local), Placed(src, ls, Len(P)),
           NEW ref \in BOOLEAN, NEW of \in 0 .. Len(ls), Plus(ls, ms, Len(P), ref, of),
           ref <=> longer[Len(P)].op \in Pointing
    PROVE  Placed(longer, ms, Len(P) + 1)
<1>1. /\ Len(P) = Len(src) + 1 /\ Len(P) \in Nat /\ Len(src) \in Nat
      /\ \A i \in 1 .. Len(src) : longer[i] = src[i]
      /\ Len(ls) \in Nat /\ Len(ms) = Len(ls) + 1
  BY DEF Later, Begins, Plus, Typed
<1>2. \A k \in 1 .. Len(ls) : Same(ls[k], ms[k])
  BY DEF Plus, Grows
<1>3. /\ ms[Len(ms)].pos = Len(P) /\ (ms[Len(ms)].ref = ref) /\ ms[Len(ms)].of = of
  BY DEF Plus
<1>4. \A k \in 1 .. Len(ls) : ls[k].pos < Len(P) /\ ls[k].pos \in Nat
  BY PlacedType DEF Placed
<1> SUFFICES ASSUME NEW k \in 1 .. Len(ms)
             PROVE  /\ ms[k].pos < Len(P) + 1 /\ ms[k].of < k
                    /\ IF ms[k].pos = 0 THEN ~ms[k].ref
                       ELSE ms[k].ref <=> longer[ms[k].pos].op \in Pointing
                    /\ \A j \in 1 .. k - 1 : ms[j].pos < ms[k].pos
  BY DEF Placed
<1>5. CASE k = Len(ms)
  <2>1. \A j \in 1 .. k - 1 : ms[j].pos = ls[j].pos
    BY <1>1, <1>2, <1>5 DEF Same
  <2>2. \A j \in 1 .. k - 1 : ms[j].pos < ms[k].pos
    BY <1>1, <1>3, <1>4, <1>5, <2>1
  <2>3. ms[k].pos = Len(P) /\ ms[k].of = of /\ (ms[k].ref <=> ref)
    BY <1>3, <1>5
  <2>4. ms[k].ref <=> longer[ms[k].pos].op \in Pointing
    BY <2>3
  <2>5. ms[k].pos < Len(P) + 1 /\ ms[k].pos # 0 /\ ms[k].of < k
    BY <1>1, <1>5, <2>3
  <2> QED BY <2>2, <2>4, <2>5
<1>6. CASE k \in 1 .. Len(ls)
  <2>1. PICK l, m : l = ls[k] /\ m = ms[k]
    OBVIOUS
  <2>2. /\ l.pos < Len(P) /\ l.of < k /\ l.pos \in Nat
        /\ IF l.pos = 0 THEN ~l.ref ELSE l.ref <=> src[l.pos].op \in Pointing
        /\ \A j \in 1 .. k - 1 : ls[j].pos < l.pos
    BY <1>4, <1>6, <2>1 DEF Placed
  <2>3. Same(l, m)
    BY <1>2, <1>6, <2>1
  <2>4. l.pos # 0 => longer[l.pos] = src[l.pos]
    BY <1>1, <2>2
  <2>5. \A j \in 1 .. k - 1 : ms[j].pos = ls[j].pos
    BY <1>1, <1>2, <1>6 DEF Same
  <2>6. /\ m.pos < Len(P) + 1 /\ m.of < k
        /\ IF m.pos = 0 THEN ~m.ref ELSE m.ref <=> longer[m.pos].op \in Pointing
    BY <1>1, <2>2, <2>3, <2>4 DEF Same
  <2>7. \A j \in 1 .. k - 1 : ms[j].pos < m.pos
    BY <2>2, <2>3, <2>5 DEF Same
  <2> QED BY <2>1, <2>6, <2>7
<1> QED BY <1>1, <1>5, <1>6

LEMMA AgreeAppend ==
    ASSUME NEW s \in Seq(Nat), NEW n \in Nat, NEW t, Agree(t, Append(s, n))
    PROVE  /\ Len(t) = Len(s) + 1 /\ t[Len(s) + 1] = n
           /\ \A k \in 1 .. Len(s) : t[k] = s[k]
<1> PICK u : u = Append(s, n)
  OBVIOUS
<1>1. Len(s) \in Nat /\ Len(u) = Len(s) + 1 /\ u[Len(s) + 1] = n
        /\ \A k \in 1 .. Len(s) : u[k] = s[k]
  OBVIOUS
<1>2. Len(t) = Len(u) /\ \A k \in 1 .. Len(t) : t[k] = u[k]
  BY DEF Agree
<1> HIDE DEF Agree
<1> QED BY <1>1, <1>2

\* The blocks around the last point, and around the one behind the next token
Turn(P, Q, n, s, t) == n = Len(P) /\ s = P[n].nest /\ t = Q[n + 1].nest

\* The innermost block
Inmost(s, d, q) == d = Len(s) /\ d > 1 /\ q = s[d]

\* A block around the last point is around the next one, when that is in it.
LEMMA EnclosesStays ==
    ASSUME NEW src, NEW P, NEW longer, NEW Q, Typed(src, P), Typed(longer, Q),
           Later(src, P, longer, Q), NEW n, NEW s, NEW t, Turn(P, Q, n, s, t), Len(t) \in Nat,
           NEW k \in Nat, k >= 1, k <= Len(t), \A j \in 1 .. k : t[j] = s[j],
           NEW q, Encloses(src, P, n, k, q),
           Grows(P[q + 1].locals, Q[n + 1].locals), Q[n + 1].reached => P[q].reached
    PROVE  Encloses(longer, Q, n + 1, k, q)
<1> USE DEF Turn
<1>1. /\ Len(P) = Len(src) + 1 /\ n \in Nat /\ Len(src) \in Nat /\ n \in 1 .. Len(P)
      /\ \A i \in 1 .. Len(src) : longer[i] = src[i]
      /\ \A i \in 1 .. n : Q[i] = P[i]
  BY DEF Typed, Later, Begins
<1>2. /\ q \in 1 .. n - 1 /\ src[q].op \in Openers /\ Len(P[q].nest) = k - 1
      /\ \A j \in 1 .. k - 1 : P[q].nest[j] = s[j]
      /\ \A r \in q + 1 .. n : k <= Len(P[r].nest) /\ \A j \in 1 .. k : P[r].nest[j] = s[j]
  BY DEF Encloses
<1>3. q \in 1 .. (n + 1) - 1 /\ q + 1 \in 1 .. n /\ q \in 1 .. n /\ q \in 1 .. Len(src)
  BY <1>1, <1>2
<1>4. Q[q] = P[q] /\ Q[q + 1] = P[q + 1] /\ longer[q] = src[q]
  BY <1>1, <1>3
<1>5. \A j \in 1 .. k - 1 : j \in 1 .. k
  OBVIOUS
<1>6. \A j \in 1 .. k - 1 : Q[q].nest[j] = t[j]
  <2> PICK u : u = P[q].nest
    OBVIOUS
  <2>1. \A j \in 1 .. k - 1 : u[j] = s[j]
    BY <1>2
  <2>2. \A j \in 1 .. k - 1 : u[j] = t[j]
    BY <2>1, <1>5
  <2> QED BY <2>2, <1>4
<1>7. ASSUME NEW r \in q + 1 .. n + 1
      PROVE  k <= Len(Q[r].nest) /\ \A j \in 1 .. k : Q[r].nest[j] = t[j]
  <2>1. CASE r = n + 1
    BY <2>1
  <2>2. CASE r \in q + 1 .. n
    <3>1. k <= Len(P[r].nest) /\ \A j \in 1 .. k : P[r].nest[j] = s[j]
      BY <1>2, <2>2
    <3>2. Q[r] = P[r]
      BY <1>1, <1>2, <2>2
    <3> PICK u : u = P[r].nest
      OBVIOUS
    <3>3. k <= Len(u) /\ \A j \in 1 .. k : u[j] = s[j]
      BY <3>1
    <3>4. k <= Len(u) /\ \A j \in 1 .. k : u[j] = t[j]
      BY <3>3
    <3> QED BY <3>2, <3>4
  <2>3. r = n + 1 \/ r \in q + 1 .. n
    <3>1. n \in Nat /\ q \in Nat
      BY <1>1, <1>3
    <3> QED BY <3>1
  <2> QED BY <2>1, <2>2, <2>3
<1> QED BY <1>2, <1>3, <1>4, <1>6, <1>7 DEF Encloses

\* The blocks around the point behind a token that opens none
LEMMA AroundStays ==
    ASSUME NEW src, NEW P, NEW longer, NEW Q, Typed(src, P), Typed(longer, Q),
           Later(src, P, longer, Q), NEW n, NEW s, NEW t, Turn(P, Q, n, s, t),
           Around(src, P, n),
           Len(t) \in 1 .. Len(s), \A j \in 1 .. Len(t) : t[j] = s[j],
           \A k \in 2 .. Len(t) :
              /\ Grows(P[s[k] + 1].locals, Q[n + 1].locals)
              /\ Q[n + 1].reached => P[s[k]].reached
    PROVE  Around(longer, Q, n + 1)
<1> USE DEF Turn
<1>1. n \in 1 .. Len(P) /\ Len(s) \in Nat /\ Len(t) \in Nat
  <2>1. n \in 1 .. Len(P)
    BY DEF Typed, Later, Begins
  <2>2. Len(s) \in Nat
    BY <2>1, PointType
  <2> QED BY <2>1, <2>2
<1>2. ASSUME NEW k \in 2 .. Len(t)
      PROVE  Encloses(longer, Q, n + 1, k, t[k])
  <2>1. k \in 2 .. Len(s) /\ t[k] = s[k] /\ k \in Nat /\ k >= 1 /\ k <= Len(t)
          /\ \A j \in 1 .. k : t[j] = s[j]
    BY <1>1
  <2>2. PICK q : q = s[k]
    OBVIOUS
  <2>3. Encloses(src, P, n, k, q)
    BY <2>1, <2>2 DEF Around
  <2>4. Grows(P[q + 1].locals, Q[n + 1].locals) /\ (Q[n + 1].reached => P[q].reached)
    BY <1>2, <2>2
  <2>5. Encloses(longer, Q, n + 1, k, q)
    BY ZenonT(60), <1>1, <2>1, <2>3, <2>4, EnclosesStays
  <2> QED BY <2>1, <2>2, <2>5
<1>3. s[1] = 0
  BY DEF Around
<1> QED BY <1>1, <1>2, <1>3 DEF Around

\* The blocks around the point behind a header
LEMMA AroundOpens ==
    ASSUME NEW src, NEW P, NEW longer, NEW Q, Typed(src, P), Typed(longer, Q),
           Later(src, P, longer, Q), NEW n, NEW s, NEW t, Turn(P, Q, n, s, t),
           Around(src, P, n),
           Agree(t, Append(s, n)), longer[n].op \in Openers,
           Grows(P[n].locals, Q[n + 1].locals), Q[n + 1].reached => P[n].reached
    PROVE  Around(longer, Q, n + 1)
<1> USE DEF Turn
<1>1. /\ n \in 1 .. Len(P) /\ Len(s) \in Nat /\ s \in Seq(Nat) /\ n \in Nat
      /\ n + 1 \in 1 .. Len(Q) /\ \A i \in 1 .. n : Q[i] = P[i]
  <2>1. n \in 1 .. Len(P) /\ n + 1 \in 1 .. Len(Q) /\ \A i \in 1 .. n : Q[i] = P[i]
    BY DEF Typed, Later, Begins
  <2> QED BY <2>1, PointType
<1> PICK d \in Nat : d = Len(s)
  BY <1>1
<1>2. Len(t) = d + 1 /\ t[d + 1] = n /\ \A k \in 1 .. d : t[k] = s[k]
  <2>1. /\ Len(t) = Len(s) + 1 /\ t[Len(s) + 1] = n
        /\ \A k \in 1 .. Len(s) : t[k] = s[k]
    BY SMTT(30), <1>1, AgreeAppend
  <2> QED BY <2>1
<1>3. P[n].locals \in Seq(Local) /\ Q[n + 1].locals \in Seq(Local)
  BY <1>1, PointType
<1>4. ASSUME NEW k \in 2 .. d
      PROVE  Encloses(longer, Q, n + 1, k, t[k])
  <2>1. /\ k \in 2 .. Len(s) /\ k \in 1 .. d /\ k \in Nat /\ k >= 1 /\ k <= Len(t)
        /\ Len(t) \in Nat
    <3>1. Len(t) = d + 1
      BY <1>2
    <3> QED BY <3>1
  <2>7. t[k] = s[k] /\ \A j \in 1 .. k : t[j] = s[j]
    <3>1. \A j \in 1 .. k : j \in 1 .. d
      BY <2>1
    <3> QED BY <1>2, <2>1, <3>1
  <2>2. PICK q : q = s[k]
    OBVIOUS
  <2>3. Encloses(src, P, n, k, q)
    BY <2>1, <2>2 DEF Around
  <2>4. Grows(P[q + 1].locals, P[n].locals) /\ (P[n].reached => P[q].reached)
          /\ q + 1 \in 1 .. Len(P)
    BY <1>1, <2>3 DEF Encloses
  <2>5. Grows(P[q + 1].locals, Q[n + 1].locals)
    BY <1>3, <2>4, PointType, GrowsTrans
  <2>6. Encloses(longer, Q, n + 1, k, q)
    BY ZenonT(60), <2>1, <2>3, <2>4, <2>5, <2>7, EnclosesStays
  <2> QED BY <2>2, <2>6, <2>7
<1>5. Encloses(longer, Q, n + 1, d + 1, n)
  <2>1. n \in 1 .. (n + 1) - 1 /\ Q[n] = P[n] /\ Len(Q[n].nest) = (d + 1) - 1
    BY <1>1
  <2>2. \A j \in 1 .. (d + 1) - 1 : Q[n].nest[j] = t[j]
    BY <1>2, <2>1
  <2>3. \A r \in n + 1 .. n + 1 : r = n + 1
    BY <1>1
  <2>4. d + 1 <= Len(t) /\ \A j \in 1 .. d + 1 : t[j] = t[j]
    BY <1>2
  <2>5. \A r \in n + 1 .. n + 1 :
          d + 1 <= Len(Q[r].nest) /\ \A j \in 1 .. d + 1 : Q[r].nest[j] = t[j]
    BY <2>3, <2>4
  <2>6. Grows(Q[n + 1].locals, Q[n + 1].locals)
    BY <1>3, KeptSame DEF Kept
  <2> QED BY <2>1, <2>2, <2>5, <2>6 DEF Encloses
<1>6. s[1] = 0 /\ d >= 1
  BY DEF Around
<1>7. ASSUME NEW k \in 2 .. Len(t)
      PROVE  Encloses(longer, Q, n + 1, k, t[k])
  <2>1. CASE k = d + 1
    BY <1>2, <1>5, <2>1
  <2>2. CASE k \in 2 .. d
    BY <1>4, <2>2
  <2>3. Len(t) = d + 1
    BY <1>2
  <2> QED BY <2>1, <2>2, <2>3
<1> QED BY SMTT(30), <1>2, <1>6, <1>7 DEF Around

\* q is the header of the k-th block around p.
HeaderAt(P, p, k, q) == k \in 2 .. Len(P[p].nest) /\ q = P[p].nest[k]

LEMMA NestAt ==
    ASSUME NEW src, NEW P, Typed(src, P), NEW p \in 1 .. Len(P), Around(src, P, p),
           NEW k, NEW q, HeaderAt(P, p, k, q)
    PROVE  /\ q \in 1 .. p - 1 /\ q \in 1 .. Len(P) /\ q + 1 \in 1 .. Len(P)
           /\ q \in Nat /\ p \in Nat /\ src[q].op \in Openers
           /\ Len(P[q].nest) = k - 1
           /\ \A j \in 1 .. k - 1 : P[q].nest[j] = P[p].nest[j]
           /\ Grows(P[q + 1].locals, P[p].locals)
           /\ P[p].reached => P[q].reached
<1>1. Encloses(src, P, p, k, q)
  BY DEF Around, HeaderAt
<1>2. Len(P) \in Nat /\ p \in Nat
  BY PointType
<1> QED BY <1>1, <1>2 DEF Encloses

\* Inner blocks start later.
LEMMA NestRises ==
    ASSUME NEW src, NEW P, Typed(src, P), \A r \in 1 .. Len(P) : Around(src, P, r),
           NEW p \in 1 .. Len(P), NEW k, NEW q, HeaderAt(P, p, k, q)
    PROVE  q \in Nat /\ k \in Nat /\ \A j \in 1 .. k - 1 : P[p].nest[j] \in Nat /\ P[p].nest[j] < q
<1>1. Around(src, P, p)
  OBVIOUS
<1>2. /\ q \in 1 .. p - 1 /\ q \in 1 .. Len(P) /\ q \in Nat /\ p \in Nat
      /\ Len(P[q].nest) = k - 1
      /\ \A j \in 1 .. k - 1 : P[q].nest[j] = P[p].nest[j]
  BY <1>1, NestAt
<1>3. Around(src, P, q)
  BY <1>2
<1>4. k \in Nat
  BY PointType DEF HeaderAt
<1>5. ASSUME NEW j \in 1 .. k - 1
      PROVE  P[p].nest[j] \in Nat /\ P[p].nest[j] < q
  <2>1. CASE j = 1
    BY <1>1, <1>2, <2>1 DEF Around
  <2>2. CASE j # 1
    <3>1. PICK i : HeaderAt(P, q, j, i)
      BY <1>2, <1>4, <1>5, <2>2 DEF HeaderAt
    <3>2. i \in 1 .. q - 1
      BY <1>2, <1>3, <3>1, NestAt
    <3>3. i = P[p].nest[j]
      BY <1>2, <1>5, <3>1 DEF HeaderAt
    <3>4. i \in Nat /\ i < q
      BY <1>2, <3>2
    <3> QED BY <3>3, <3>4
  <2> QED BY <2>1, <2>2
<1> QED BY <1>2, <1>4, <1>5

\* One more token has been read.
Extends(src, P, longer, Q) ==
    /\ Typed(src, P) /\ Typed(longer, Q) /\ Later(src, P, longer, Q) /\ Shaped(src, P)

LEMMA ExtendsType ==
    ASSUME NEW src, NEW P, NEW longer, NEW Q, Extends(src, P, longer, Q),
           NEW n, n = Len(P)
    PROVE  /\ n \in 1 .. Len(P) /\ n \in Nat /\ n + 1 \in 1 .. Len(Q)
           /\ Len(Q) = n + 1 /\ Len(longer) = n /\ Len(src) = n - 1
           /\ \A i \in 1 .. n : Q[i] = P[i]
           /\ \A i \in 1 .. n - 1 : longer[i] = src[i]
           /\ \A p \in 1 .. n : PointOK(src, P, p)
           /\ \A p \in 1 .. n : Around(src, P, p) /\ Placed(src, P[p].locals, p)
           /\ Typed(src, P) /\ Typed(longer, Q) /\ Later(src, P, longer, Q)
<1>1. /\ Len(src) \in Nat /\ Len(P) = Len(src) + 1 /\ Len(Q) = Len(P) + 1
      /\ Len(longer) = Len(src) + 1 /\ \A i \in 1 .. Len(src) : longer[i] = src[i]
      /\ \A i \in 1 .. Len(P) : Q[i] = P[i]
  BY DEF Extends, Typed, Later, Begins
<1>2. \A p \in 1 .. n : PointOK(src, P, p)
  BY DEF Extends, Shaped
<1>3. \A p \in 1 .. n : Around(src, P, p) /\ Placed(src, P[p].locals, p)
  BY <1>2 DEF PointOK
<1>4. Len(src) = n - 1 /\ n \in Nat /\ n \in 1 .. Len(P)
  BY <1>1
<1> QED BY <1>1, <1>2, <1>3, <1>4 DEF Extends

\* Every block is still open, or ends here.
LEMMA ClosedGrows ==
    ASSUME NEW src, NEW P, NEW longer, NEW Q, Extends(src, P, longer, Q),
           NEW n, NEW s, NEW t, Turn(P, Q, n, s, t),
           \A k \in 2 .. Len(s) :
              \/ k \in 2 .. Len(t) /\ t[k] = s[k]
              \/ longer[n].op = "end" /\ Inner(P, n) = s[k],
           longer[n].op \in Openers => \E k \in 2 .. Len(t) : t[k] = n
    PROVE  Closed(longer, Q)
<1> USE DEF Turn
<1>1. /\ n \in Nat /\ Len(Q) = n + 1 /\ Len(longer) = n /\ Len(src) = n - 1
      /\ \A i \in 1 .. n : Q[i] = P[i]
      /\ \A i \in 1 .. n - 1 : longer[i] = src[i] /\ n \in 1 .. n
  BY ExtendsType
<1>2. Closed(src, P)
  BY DEF Extends, Shaped
<1>3. \A e \in 1 .. n : Inner(Q, e) = Inner(P, e)
  BY <1>1 DEF Inner
<1> SUFFICES ASSUME NEW q \in 1 .. n, longer[q].op \in Openers
             PROVE  \/ \E k \in 2 .. Len(t) : t[k] = q
                    \/ \E e \in 1 .. n : longer[e].op = "end" /\ Inner(Q, e) = q
  BY <1>1 DEF Closed
<1>4. CASE q = n
  BY <1>4
<1>5. CASE q \in 1 .. n - 1
  <2>1. longer[q] = src[q]
    BY <1>1, <1>5
  <2>2. \/ \E k \in 2 .. Len(s) : s[k] = q
        \/ \E e \in 1 .. n - 1 : src[e].op = "end" /\ Inner(P, e) = q
    BY <1>1, <1>2, <1>5, <2>1 DEF Closed
  <2>3. CASE \E k \in 2 .. Len(s) : s[k] = q
    <3>1. n \in 1 .. n
      BY <1>1
    <3>2. PICK k \in 2 .. Len(s) : s[k] = q
      BY <2>3
    <3>3. CASE k \in 2 .. Len(t) /\ t[k] = s[k]
      BY <3>2, <3>3
    <3>4. CASE longer[n].op = "end" /\ Inner(P, n) = s[k]
      BY <1>3, <3>1, <3>2, <3>4
    <3> QED BY <3>2, <3>3, <3>4
  <2>4. CASE \E e \in 1 .. n - 1 : src[e].op = "end" /\ Inner(P, e) = q
    <3>1. PICK e \in 1 .. n - 1 : src[e].op = "end" /\ Inner(P, e) = q
      BY <2>4
    <3>2. e \in 1 .. n /\ longer[e].op = "end" /\ Inner(Q, e) = q
      BY SMTT(30), <1>1, <1>3, <3>1
    <3> QED BY <3>2
  <2> QED BY <2>2, <2>3, <2>4
<1> QED BY <1>1, <1>4, <1>5

LEMMA InmostAt ==
    ASSUME NEW src, NEW P, NEW longer, NEW Q, Extends(src, P, longer, Q),
           NEW n, NEW s, NEW t, Turn(P, Q, n, s, t), NEW d, NEW q, Inmost(s, d, q)
    PROVE  /\ q \in 1 .. n - 1 /\ q \in 1 .. Len(P) /\ q \in Nat /\ q \in 1 .. n
           /\ q + 1 \in 1 .. Len(P) /\ src[q].op \in Openers
           /\ d \in Nat /\ d > 1 /\ d = Len(s) /\ Len(P[q].nest) = d - 1
           /\ \A j \in 1 .. d - 1 : P[q].nest[j] = s[j]
           /\ P[n].reached => P[q].reached
           /\ q = Inner(P, n)
<1>1. n \in 1 .. Len(P) /\ n \in Nat /\ Around(src, P, n) /\ Typed(src, P)
  BY ExtendsType DEF Turn
<1>2. /\ d \in Nat /\ q = P[n].nest[d] /\ d = Len(P[n].nest)
      /\ d > 1 /\ d = Len(s) /\ s = P[n].nest
  BY <1>1, PointType DEF Turn, Inmost
<1>6. HeaderAt(P, n, d, q)
  BY <1>2 DEF HeaderAt
<1>3. /\ q \in 1 .. n - 1 /\ q \in 1 .. Len(P) /\ q \in Nat
      /\ q + 1 \in 1 .. Len(P) /\ src[q].op \in Openers
      /\ Len(P[q].nest) = d - 1 /\ \A j \in 1 .. d - 1 : P[q].nest[j] = P[n].nest[j]
      /\ P[n].reached => P[q].reached
  BY <1>1, <1>6, NestAt
<1>4. q \in 1 .. n
  BY <1>1, <1>3
<1>5. q = Inner(P, n)
  BY <1>2 DEF Inner
<1> QED BY <1>2, <1>3, <1>4, <1>5

\* What a block around the header of q has known still is when q leaves what it
\* found.
LEMMA OuterKept ==
    ASSUME NEW src, NEW P, NEW longer, NEW Q, Extends(src, P, longer, Q),
           NEW n, NEW s, NEW t, Turn(P, Q, n, s, t), NEW d, NEW q, Inmost(s, d, q),
           Kept(P[q].locals, Q[n + 1].locals),
           Q[n + 1].reached => P[q].reached, NEW k \in 2 .. d - 1
    PROVE  /\ Grows(P[s[k] + 1].locals, Q[n + 1].locals)
           /\ Q[n + 1].reached => P[s[k]].reached
<1>1. /\ n \in 1 .. Len(P) /\ n + 1 \in 1 .. Len(Q) /\ Around(src, P, n)
      /\ \A p \in 1 .. n : Around(src, P, p)
      /\ Typed(src, P) /\ Typed(longer, Q)
  BY ExtendsType DEF Turn
<1>3. /\ q \in 1 .. n - 1 /\ q \in 1 .. Len(P) /\ q \in Nat /\ d \in Nat /\ d > 1
      /\ Len(P[q].nest) = d - 1 /\ \A j \in 1 .. d - 1 : P[q].nest[j] = s[j]
  BY InmostAt
<1>4. Around(src, P, q)
  BY <1>1, <1>3
<1> PICK i : i = s[k]
  OBVIOUS
<1>5. HeaderAt(P, q, k, i)
  BY <1>3 DEF HeaderAt
<1>6. Grows(P[i + 1].locals, P[q].locals) /\ (P[q].reached => P[i].reached)
        /\ i + 1 \in 1 .. Len(P)
  BY <1>1, <1>3, <1>4, <1>5, NestAt
<1>7. P[i + 1].locals \in Seq(Local) /\ P[q].locals \in Seq(Local)
        /\ Q[n + 1].locals \in Seq(Local)
  BY <1>1, <1>3, <1>6, PointType
<1>8. Grows(P[q].locals, Q[n + 1].locals)
  BY DEF Kept
<1> QED BY <1>6, <1>7, <1>8, GrowsTrans

LEMMA StaysShaped ==
    ASSUME NEW src, NEW P, NEW longer, NEW Q, Extends(src, P, longer, Q),
           NEW n, NEW s, NEW t, Turn(P, Q, n, s, t),
           Agree(s, t), longer[n].op \notin Openers,
           Grows(P[n].locals, Q[n + 1].locals), Q[n + 1].reached => P[n].reached,
           Placed(longer, Q[n + 1].locals, n + 1), TokenOK(longer, Q, n)
    PROVE  Shaped(longer, Q)
<1>1. /\ n \in 1 .. Len(P) /\ n + 1 \in 1 .. Len(Q) /\ Around(src, P, n)
      /\ Typed(src, P) /\ Typed(longer, Q) /\ Later(src, P, longer, Q) /\ Shaped(src, P)
  BY ExtendsType DEF Extends, Turn
<1>2. Len(s) \in Nat /\ Len(s) >= 1 /\ s = P[n].nest
  BY <1>1, PointType DEF Around, Turn
<1>3. Len(t) \in 1 .. Len(s) /\ \A j \in 1 .. Len(t) : t[j] = s[j]
  BY <1>2 DEF Agree
<1>4. ASSUME NEW k \in 2 .. Len(t)
      PROVE  /\ Grows(P[s[k] + 1].locals, Q[n + 1].locals)
             /\ Q[n + 1].reached => P[s[k]].reached
  <2> PICK q : q = s[k]
    OBVIOUS
  <2>1. HeaderAt(P, n, k, q)
    BY <1>2, <1>3 DEF HeaderAt
  <2>2. /\ q + 1 \in 1 .. Len(P) /\ Grows(P[q + 1].locals, P[n].locals)
        /\ P[n].reached => P[q].reached
    BY <1>1, <2>1, NestAt
  <2>3. P[q + 1].locals \in Seq(Local) /\ P[n].locals \in Seq(Local)
          /\ Q[n + 1].locals \in Seq(Local)
    BY <1>1, <2>2, PointType
  <2> QED BY <2>2, <2>3, GrowsTrans
<1>5. Around(longer, Q, n + 1)
  BY <1>1, <1>3, <1>4, AroundStays
<1>6. \A k \in 2 .. Len(s) : k \in 2 .. Len(t) /\ t[k] = s[k]
  BY <1>2 DEF Agree
<1>7. Closed(longer, Q)
  BY <1>6, ClosedGrows
<1> QED BY <1>1, <1>5, <1>7, ShapeGrows DEF PointOK, Turn

LEMMA OpensShaped ==
    ASSUME NEW src, NEW P, NEW longer, NEW Q, Extends(src, P, longer, Q),
           NEW n, NEW s, NEW t, Turn(P, Q, n, s, t),
           Agree(t, Append(s, n)), longer[n].op \in Openers,
           Grows(P[n].locals, Q[n + 1].locals), Q[n + 1].reached => P[n].reached,
           Placed(longer, Q[n + 1].locals, n + 1), TokenOK(longer, Q, n)
    PROVE  Shaped(longer, Q)
<1>1. /\ n \in 1 .. Len(P) /\ n + 1 \in 1 .. Len(Q) /\ Around(src, P, n) /\ n \in Nat
      /\ Typed(src, P) /\ Typed(longer, Q) /\ Later(src, P, longer, Q) /\ Shaped(src, P)
  BY ExtendsType DEF Extends, Turn
<1>2. Len(s) \in Nat /\ Len(s) >= 1 /\ s \in Seq(Nat)
  BY <1>1, PointType DEF Around, Turn
<1>3. /\ Len(t) = Len(s) + 1 /\ t[Len(s) + 1] = n
      /\ \A k \in 1 .. Len(s) : t[k] = s[k]
  BY SMTT(30), <1>1, <1>2, AgreeAppend DEF Turn
<1>5. Around(longer, Q, n + 1)
  BY <1>1, AroundOpens
<1>6. \A k \in 2 .. Len(s) : k \in 2 .. Len(t) /\ t[k] = s[k]
  BY <1>2, <1>3
<1>7. \E k \in 2 .. Len(t) : t[k] = n
  BY <1>2, <1>3
<1>8. Closed(longer, Q)
  BY <1>6, <1>7, ClosedGrows
<1> QED BY <1>1, <1>5, <1>8, ShapeGrows DEF PointOK, Turn

LEMMA TurnsShaped ==
    ASSUME NEW src, NEW P, NEW longer, NEW Q, Extends(src, P, longer, Q),
           NEW n, NEW s, NEW t, Turn(P, Q, n, s, t),
           NEW d, NEW q, Inmost(s, d, q),
           Agree(s, t), longer[n].op = "else",
           Kept(P[q].locals, Q[n + 1].locals), Grows(P[q + 1].locals, Q[n + 1].locals),
           Q[n + 1].reached => P[q].reached, TokenOK(longer, Q, n)
    PROVE  Shaped(longer, Q)
<1>1. /\ n \in 1 .. Len(P) /\ n + 1 \in 1 .. Len(Q) /\ Around(src, P, n) /\ n \in Nat
      /\ Typed(src, P) /\ Typed(longer, Q) /\ Later(src, P, longer, Q) /\ Shaped(src, P)
      /\ \A p \in 1 .. n : Placed(src, P[p].locals, p)
  BY ZenonT(60), ExtendsType DEF Extends, Turn
<1>2. d \in Nat /\ d > 1 /\ d = Len(s)
  BY InmostAt
<1>3. q \in 1 .. n - 1 /\ q \in 1 .. Len(P) /\ q \in Nat /\ q \in 1 .. n
  BY InmostAt
<1>4. Len(t) \in 1 .. Len(s) /\ Len(t) = d /\ \A j \in 1 .. Len(t) : t[j] = s[j]
  BY <1>2 DEF Agree
<1>5. ASSUME NEW k \in 2 .. Len(t)
      PROVE  /\ Grows(P[s[k] + 1].locals, Q[n + 1].locals)
             /\ Q[n + 1].reached => P[s[k]].reached
  <2>1. CASE k = d
    BY <2>1 DEF Inmost
  <2>2. CASE k \in 2 .. d - 1
    BY <2>2, OuterKept
  <2> QED BY <1>2, <1>4, <2>1, <2>2
<1>6. Around(longer, Q, n + 1)
  BY <1>1, <1>4, <1>5, AroundStays
<1>7. \A k \in 2 .. Len(s) : k \in 2 .. Len(t) /\ t[k] = s[k]
  BY <1>2 DEF Agree
<1>8. longer[n].op \notin Openers
  BY DEF Openers
<1>9. Closed(longer, Q)
  BY <1>7, <1>8, ClosedGrows
<1>10. P[q].locals \in Seq(Local) /\ Q[n + 1].locals \in Seq(Local)
         /\ Placed(src, P[q].locals, q)
  BY <1>1, <1>3, PointType
<1>11. Placed(longer, Q[n + 1].locals, n + 1)
  BY <1>1, <1>3, <1>10, PlacedKept DEF Turn
<1> QED BY <1>1, <1>6, <1>9, <1>11, ShapeGrows DEF PointOK, Turn

LEMMA EndsShaped ==
    ASSUME NEW src, NEW P, NEW longer, NEW Q, Extends(src, P, longer, Q),
           NEW n, NEW s, NEW t, Turn(P, Q, n, s, t),
           NEW d, NEW q, Inmost(s, d, q),
           Agree(P[q].nest, t), longer[n].op = "end",
           Kept(P[q].locals, Q[n + 1].locals),
           Q[n + 1].reached => P[q].reached, TokenOK(longer, Q, n)
    PROVE  Shaped(longer, Q)
<1>1. /\ n \in 1 .. Len(P) /\ n + 1 \in 1 .. Len(Q) /\ Around(src, P, n) /\ n \in Nat
      /\ Typed(src, P) /\ Typed(longer, Q) /\ Later(src, P, longer, Q) /\ Shaped(src, P)
      /\ \A p \in 1 .. n : Placed(src, P[p].locals, p)
  BY ExtendsType DEF Extends, Turn
<1>2. d \in Nat /\ d > 1 /\ d = Len(s)
  BY InmostAt
<1>3. /\ q \in 1 .. n - 1 /\ q \in 1 .. Len(P) /\ q \in Nat /\ q \in 1 .. n
      /\ Len(P[q].nest) = d - 1 /\ \A j \in 1 .. d - 1 : P[q].nest[j] = s[j]
  BY InmostAt
<1>4. Len(t) = d - 1 /\ \A j \in 1 .. d - 1 : t[j] = s[j]
  <2> PICK u : u = P[q].nest
    OBVIOUS
  <2>1. Len(u) = Len(t) /\ \A j \in 1 .. Len(u) : u[j] = t[j]
    BY DEF Agree
  <2>2. Len(u) = d - 1 /\ \A j \in 1 .. d - 1 : u[j] = s[j]
    BY <1>3
  <2> QED BY <2>1, <2>2
<1>5. ASSUME NEW k \in 2 .. Len(t)
      PROVE  /\ Grows(P[s[k] + 1].locals, Q[n + 1].locals)
             /\ Q[n + 1].reached => P[s[k]].reached
  <2>1. k \in 2 .. d - 1
    BY <1>4
  <2> QED BY <2>1, OuterKept
<1>6. Len(t) \in 1 .. Len(s) /\ \A j \in 1 .. Len(t) : t[j] = s[j]
  BY <1>2, <1>4
<1>7. Around(longer, Q, n + 1)
  BY <1>1, <1>5, <1>6, AroundStays
<1>8. ASSUME NEW k \in 2 .. Len(s)
      PROVE  \/ k \in 2 .. Len(t) /\ t[k] = s[k]
             \/ longer[n].op = "end" /\ Inner(P, n) = s[k]
  <2>1. CASE k = d
    BY <2>1, InmostAt DEF Inmost
  <2>2. CASE k \in 2 .. d - 1
    BY <1>4, <2>2
  <2> QED BY <1>2, <2>1, <2>2
<1>9. longer[n].op \notin Openers
  BY DEF Openers
<1>10. Closed(longer, Q)
  BY <1>8, <1>9, ClosedGrows
<1>11. P[q].locals \in Seq(Local) /\ Q[n + 1].locals \in Seq(Local)
         /\ Placed(src, P[q].locals, q)
  BY <1>1, <1>3, PointType
<1>12. Placed(longer, Q[n + 1].locals, n + 1)
  BY <1>1, <1>3, <1>11, PlacedKept DEF Turn
<1> QED BY <1>1, <1>7, <1>10, <1>12, ShapeGrows DEF PointOK, Turn

-----------------------------------------------------------------------------
(***************************************************************************)
(* What the checker knows, and the blocks it is reading                    *)
(***************************************************************************)

Turns(src, e, q) == src[e].op = "else" /\ src[e].arg = q
Leaves(src, e, q) == src[e].op = "break" /\ src[e].arg = q

\* The block b, whose header is q
BlockOK(src, P, b, q) ==
    /\ b.kind # "fn" /\ src[q].op = IF b.kind = "else" THEN "if" ELSE b.kind
    /\ b.base = Len(P[q + 1].locals) /\ b.saved = P[q + 1].locals
    /\ b.kind = "if" => \A e \in 1 .. Len(src) : ~Turns(src, e, q)
    /\ b.kind = "else" => \E e \in 1 .. Len(src) : Turns(src, e, q)
    /\ b.kind = "else" => \A e \in 1 .. Len(src) : Turns(src, e, q) =>
          b.branch = pop(P[e].locals, b.base) /\ (P[e].reached => b.branchFalls)
    /\ \A e \in 1 .. Len(src) : Leaves(src, e, q) /\ P[e].reached => b.breaks

\* Whether the header of the k-th block is reached
Ready(blocks, k) == \A j \in 1 .. k - 1 : blocks[j].falls

Reads(src, P, blocks) ==
    \A k \in 2 .. Len(blocks) :
        /\ BlockOK(src, P, blocks[k], blocks[k].at)
        /\ P[blocks[k].at].reached <=> Ready(blocks, k)

Memory(ls, blocks) ==
    [locals |-> ls, nest |-> [k \in DOMAIN blocks |-> blocks[k].at],
     reached |-> \A k \in DOMAIN blocks : blocks[k].falls]

Model(src, P, ls, blocks) ==
    /\ Typed(src, P) /\ Len(P) = Len(src) + 1 /\ Shaped(src, P)
    /\ blocks \in Seq(Block) /\ Len(blocks) >= 1 /\ ls \in Seq(Local)
    /\ P[Len(P)] = Memory(ls, blocks)
    /\ Reads(src, P, blocks)

\* The checker reads one more token.
Grown(src, P, longer, Q, token, ms, cs) ==
    /\ longer = Append(src, token) /\ token \in Token
    /\ Q = Append(P, Memory(ms, cs)) /\ ms \in Seq(Local)
    /\ cs \in Seq(Block) /\ Len(cs) >= 1

LEMMA MemoryKnown ==
    ASSUME NEW ls \in Seq(Local), NEW blocks \in Seq(Block)
    PROVE  /\ Memory(ls, blocks) \in Known /\ Memory(ls, blocks).locals = ls
           /\ Len(Memory(ls, blocks).nest) = Len(blocks)
           /\ \A k \in 1 .. Len(blocks) : Memory(ls, blocks).nest[k] = blocks[k].at
           /\ Memory(ls, blocks).reached <=> \A k \in 1 .. Len(blocks) : blocks[k].falls
<1>1. DOMAIN blocks = 1 .. Len(blocks) /\ Len(blocks) \in Nat
  OBVIOUS
<1>2. ASSUME NEW k \in 1 .. Len(blocks) PROVE blocks[k].at \in Nat
  <2>1. blocks[k] \in Block
    BY ElementOfSeq
  <2> QED BY <2>1 DEF Block
<1> DEFINE nest == [k \in 1 .. Len(blocks) |-> blocks[k].at]
<1>3. nest \in Seq(Nat) /\ Len(nest) = Len(blocks)
        /\ \A k \in 1 .. Len(blocks) : nest[k] = blocks[k].at
  BY <1>1, <1>2
<1> HIDE DEF nest
<1> DEFINE falls == \A k \in 1 .. Len(blocks) : blocks[k].falls
<1>4. Memory(ls, blocks) = [locals |-> ls, nest |-> nest, reached |-> falls]
  BY <1>1 DEF Memory, nest, falls
<1>5. falls \in BOOLEAN
  BY DEF falls
<1> HIDE DEF falls
<1>6. /\ Memory(ls, blocks) \in Known /\ Memory(ls, blocks).locals = ls
      /\ Memory(ls, blocks).nest = nest /\ Memory(ls, blocks).reached = falls
  BY <1>3, <1>4, <1>5 DEF Known
<1> QED BY <1>3, <1>6 DEF falls

LEMMA AppendAt ==
    ASSUME NEW S, NEW s \in Seq(S), NEW e \in S
    PROVE  /\ Append(s, e) \in Seq(S) /\ Len(Append(s, e)) = Len(s) + 1
           /\ Append(s, e)[Len(s) + 1] = e
           /\ \A i \in 1 .. Len(s) : Append(s, e)[i] = s[i]
OBVIOUS

\* Both ends of a step
Sides(src, P, ls, blocks, longer, Q, token, ms, cs, n) ==
    /\ Extends(src, P, longer, Q) /\ Len(longer) = n /\ longer[n] = token
    /\ n \in Nat /\ n >= 1 /\ Len(src) = n - 1 /\ Q[n] = P[n]
    /\ P[n].locals = ls /\ Len(P[n].nest) = Len(blocks)
    /\ \A k \in 1 .. Len(blocks) : P[n].nest[k] = blocks[k].at
    /\ P[n].reached <=> \A k \in 1 .. Len(blocks) : blocks[k].falls
    /\ Q[n + 1].locals = ms /\ Len(Q[n + 1].nest) = Len(cs)
    /\ \A k \in 1 .. Len(cs) : Q[n + 1].nest[k] = cs[k].at
    /\ Q[n + 1].reached <=> \A k \in 1 .. Len(cs) : cs[k].falls
    /\ P[n].reached \in BOOLEAN /\ Q[n + 1].reached \in BOOLEAN
    /\ Len(blocks) \in Nat /\ Len(cs) \in Nat
    /\ Len(Q) = Len(longer) + 1

LEMMA GrownType ==
    ASSUME NEW src, NEW P, NEW ls, NEW blocks, Model(src, P, ls, blocks),
           NEW longer, NEW Q, NEW token, NEW ms, NEW cs,
           Grown(src, P, longer, Q, token, ms, cs), NEW n, n = Len(P)
    PROVE  Sides(src, P, ls, blocks, longer, Q, token, ms, cs, n)
<1> PICK new, old : new = Memory(ms, cs) /\ old = Memory(ls, blocks)
  OBVIOUS
<1>1. /\ src \in Seq(Token) /\ P \in Seq(Known) /\ Len(P) = Len(src) + 1
      /\ P[n] = old /\ blocks \in Seq(Block) /\ ls \in Seq(Local) /\ Shaped(src, P)
  BY DEF Model, Typed
<1>2. /\ longer = Append(src, token) /\ token \in Token /\ Q = Append(P, new)
      /\ ms \in Seq(Local) /\ cs \in Seq(Block)
  BY DEF Grown
<1>3. /\ new \in Known /\ new.locals = ms /\ Len(new.nest) = Len(cs)
      /\ \A k \in 1 .. Len(cs) : new.nest[k] = cs[k].at
      /\ new.reached <=> \A k \in 1 .. Len(cs) : cs[k].falls
  BY ZenonT(60), <1>2, MemoryKnown
<1>4. /\ old.locals = ls /\ Len(old.nest) = Len(blocks) /\ old \in Known
      /\ \A k \in 1 .. Len(blocks) : old.nest[k] = blocks[k].at
      /\ old.reached <=> \A k \in 1 .. Len(blocks) : blocks[k].falls
  BY <1>1, MemoryKnown
<1>5. /\ n \in Nat /\ n >= 1 /\ Len(src) = n - 1 /\ Len(blocks) \in Nat /\ Len(cs) \in Nat
  BY <1>1, <1>2
<1>6. /\ longer \in Seq(Token) /\ Len(longer) = n /\ longer[n] = token
      /\ \A i \in 1 .. Len(src) : longer[i] = src[i]
  <2>1. /\ longer \in Seq(Token) /\ Len(longer) = Len(src) + 1
        /\ longer[Len(src) + 1] = token
        /\ \A i \in 1 .. Len(src) : longer[i] = src[i]
    BY <1>1, <1>2, AppendAt
  <2>2. n = Len(src) + 1
    BY <1>5
  <2> QED BY <2>1, <2>2
<1>7. /\ Q \in Seq(Known) /\ Len(Q) = n + 1 /\ Q[n + 1] = new
      /\ \A i \in 1 .. n : Q[i] = P[i]
  BY <1>1, <1>2, <1>3, <1>5
<1>8. Q[n] = P[n] /\ Len(Q) = Len(longer) + 1
  BY <1>5, <1>6, <1>7
<1>9. Extends(src, P, longer, Q)
  BY <1>1, <1>5, <1>6, <1>7 DEF Extends, Typed, Later, Begins
<1>10. new.reached \in BOOLEAN /\ old.reached \in BOOLEAN
  BY <1>3, <1>4 DEF Known
<1> HIDE DEF Extends
<1> QED BY <1>1, <1>3, <1>4, <1>5, <1>6, <1>7, <1>8, <1>9, <1>10 DEF Sides

\* A block another token is read in
SameBlock(c, b) ==
    /\ c.kind = b.kind /\ c.at = b.at /\ c.base = b.base /\ c.saved = b.saved
    /\ c.branch = b.branch /\ c.branchFalls = b.branchFalls
    /\ b.breaks => c.breaks

LEMMA BlockStays ==
    ASSUME NEW src, NEW P, NEW longer, NEW Q, Extends(src, P, longer, Q),
           NEW n, n = Len(P), NEW q \in 1 .. n - 1, NEW b, BlockOK(src, P, b, q),
           NEW c, SameBlock(c, b), ~Turns(longer, n, q),
           Leaves(longer, n, q) /\ P[n].reached => c.breaks
    PROVE  BlockOK(longer, Q, c, q)
<1>1. /\ n \in Nat /\ Len(longer) = n /\ Len(src) = n - 1
      /\ \A i \in 1 .. n : Q[i] = P[i]
      /\ \A i \in 1 .. n - 1 : longer[i] = src[i]
  BY ExtendsType
<1>2. q \in Nat /\ q \in 1 .. n /\ q + 1 \in 1 .. n /\ \A e \in 1 .. n - 1 : e \in 1 .. n
  BY <1>1
<1>3. Q[q + 1] = P[q + 1] /\ longer[q] = src[q] /\ n \in 1 .. n
  BY <1>1, <1>2
<1>4. ASSUME NEW e \in 1 .. n
      PROVE  /\ Turns(longer, e, q) => e \in 1 .. n - 1 /\ Turns(src, e, q) /\ Q[e] = P[e]
             /\ Leaves(longer, e, q) /\ e # n => e \in 1 .. n - 1 /\ Leaves(src, e, q)
             /\ Q[e] = P[e]
  <2>1. CASE e = n
    BY <1>1, <2>1
  <2>2. CASE e \in 1 .. n - 1
    BY <1>1, <2>2 DEF Turns, Leaves
  <2> QED BY <1>1, <2>1, <2>2
<1>5. \A e \in 1 .. n - 1 : Turns(src, e, q) => Turns(longer, e, q)
  BY <1>1 DEF Turns
<1>6. /\ b.kind # "fn" /\ src[q].op = IF b.kind = "else" THEN "if" ELSE b.kind
      /\ b.base = Len(P[q + 1].locals) /\ b.saved = P[q + 1].locals
      /\ b.kind = "if" => \A e \in 1 .. n - 1 : ~Turns(src, e, q)
      /\ b.kind = "else" => \E e \in 1 .. n - 1 : Turns(src, e, q)
      /\ b.kind = "else" => \A e \in 1 .. n - 1 : Turns(src, e, q) =>
            b.branch = pop(P[e].locals, b.base) /\ (P[e].reached => b.branchFalls)
      /\ \A e \in 1 .. n - 1 : Leaves(src, e, q) /\ P[e].reached => b.breaks
  BY <1>1 DEF BlockOK
<1>7. c.kind # "fn" /\ longer[q].op = IF c.kind = "else" THEN "if" ELSE c.kind
  BY <1>3, <1>6 DEF SameBlock
<1>8. c.base = Len(Q[q + 1].locals) /\ c.saved = Q[q + 1].locals
  BY <1>3, <1>6 DEF SameBlock
<1>9. c.kind = "if" => \A e \in 1 .. n : ~Turns(longer, e, q)
  BY <1>4, <1>6 DEF SameBlock
<1>10. c.kind = "else" => \E e \in 1 .. n : Turns(longer, e, q)
  BY <1>2, <1>5, <1>6 DEF SameBlock
<1>11. ASSUME c.kind = "else", NEW e \in 1 .. n, Turns(longer, e, q)
       PROVE  c.branch = pop(Q[e].locals, c.base) /\ (Q[e].reached => c.branchFalls)
  <2>1. e \in 1 .. n - 1 /\ Turns(src, e, q) /\ Q[e] = P[e]
    BY <1>4, <1>11
  <2>2. b.branch = pop(P[e].locals, b.base) /\ (P[e].reached => b.branchFalls)
    BY <1>6, <1>11, <2>1 DEF SameBlock
  <2> QED BY <2>1, <2>2 DEF SameBlock
<1>12. ASSUME NEW e \in 1 .. n, Leaves(longer, e, q), Q[e].reached
       PROVE  c.breaks
  <2>1. Q[e] = P[e]
    BY <1>4
  <2>2. CASE e = n
    BY <1>12, <2>1, <2>2
  <2>3. CASE e # n
    <3>1. e \in 1 .. n - 1 /\ Leaves(src, e, q)
      BY <1>4, <1>12, <2>3
    <3> QED BY <1>6, <1>12, <2>1, <3>1 DEF SameBlock
  <2> QED BY <2>2, <2>3
<1> QED BY <1>1, <1>7, <1>8, <1>9, <1>10, <1>11, <1>12 DEF BlockOK

LEMMA GrownModel ==
    ASSUME NEW src, NEW P, NEW ls, NEW blocks, Model(src, P, ls, blocks),
           NEW longer, NEW Q, NEW token, NEW ms, NEW cs,
           Grown(src, P, longer, Q, token, ms, cs),
           Shaped(longer, Q), Reads(longer, Q, cs)
    PROVE  Model(longer, Q, ms, cs)
<1> PICK new : new = Memory(ms, cs)
  OBVIOUS
<1>1. src \in Seq(Token) /\ P \in Seq(Known) /\ Len(P) = Len(src) + 1
  BY DEF Model, Typed
<1>2. /\ longer = Append(src, token) /\ token \in Token /\ Q = Append(P, new)
      /\ ms \in Seq(Local) /\ cs \in Seq(Block) /\ Len(cs) >= 1
  BY DEF Grown
<1>3. new \in Known
  BY <1>2, MemoryKnown
<1>4. longer \in Seq(Token) /\ Len(longer) = Len(src) + 1
  BY <1>1, <1>2, AppendAt
<1>5. Q \in Seq(Known) /\ Len(Q) = Len(P) + 1 /\ Q[Len(P) + 1] = new
  BY <1>1, <1>2, <1>3, AppendAt
<1>6. Typed(longer, Q) /\ Len(Q) = Len(longer) + 1 /\ Q[Len(Q)] = Memory(ms, cs)
  BY <1>1, <1>4, <1>5 DEF Typed
<1> QED BY <1>2, <1>6 DEF Model

\* q is the header of the k-th block.
HeadOf(blocks, k, q) == k \in 2 .. Len(blocks) /\ q = blocks[k].at

LEMMA HeadAt ==
    ASSUME NEW src, NEW P, NEW ls, NEW blocks, Model(src, P, ls, blocks),
           NEW n, n = Len(P), NEW k, NEW q, HeadOf(blocks, k, q)
    PROVE  /\ q \in 1 .. n - 1 /\ q \in 1 .. Len(P) /\ q \in Nat /\ n \in 1 .. Len(P)
           /\ q + 1 \in 1 .. Len(P) /\ HeaderAt(P, n, k, q) /\ src[q].op \in Openers
           /\ Grows(P[q + 1].locals, P[n].locals)
           /\ BlockOK(src, P, blocks[k], q) /\ (P[q].reached <=> Ready(blocks, k))
           /\ \A j \in 1 .. k - 1 : blocks[j].at < q
<1>1. /\ P[n] = Memory(ls, blocks) /\ blocks \in Seq(Block) /\ ls \in Seq(Local)
      /\ Typed(src, P) /\ Shaped(src, P) /\ n \in 1 .. Len(P)
  BY DEF Model, Typed
<1>2. /\ Len(P[n].nest) = Len(blocks)
      /\ \A j \in 1 .. Len(blocks) : P[n].nest[j] = blocks[j].at
  BY <1>1, MemoryKnown
<1>3. HeaderAt(P, n, k, q) /\ k \in 2 .. Len(blocks) /\ Len(blocks) \in Nat
  BY <1>1, <1>2 DEF HeaderAt, HeadOf
<1>4. \A r \in 1 .. Len(P) : Around(src, P, r)
  BY <1>1 DEF Shaped, PointOK
<1>5. Around(src, P, n)
  BY <1>1, <1>4
<1>6. /\ q \in 1 .. n - 1 /\ q \in 1 .. Len(P) /\ q \in Nat /\ src[q].op \in Openers
      /\ q + 1 \in 1 .. Len(P) /\ Grows(P[q + 1].locals, P[n].locals)
  BY <1>1, <1>3, <1>5, NestAt
<1>7. \A j \in 1 .. k - 1 : P[n].nest[j] < q
  BY <1>1, <1>3, <1>4, NestRises
<1>8. \A j \in 1 .. k - 1 : blocks[j].at < q
  BY <1>2, <1>3, <1>7
<1>9. BlockOK(src, P, blocks[k], q) /\ (P[q].reached <=> Ready(blocks, k))
  BY DEF Model, Reads, HeadOf
<1> QED BY <1>1, <1>3, <1>6, <1>8, <1>9

\* A block that stays open
LEMMA BlockReads ==
    ASSUME NEW src, NEW P, NEW ls, NEW blocks, Model(src, P, ls, blocks),
           NEW longer, NEW Q, NEW token, NEW ms, NEW cs,
           Grown(src, P, longer, Q, token, ms, cs), NEW n, n = Len(P),
           NEW k, NEW q, HeadOf(blocks, k, q), SameBlock(cs[k], blocks[k]),
           \A j \in 1 .. k - 1 : cs[j].falls <=> blocks[j].falls,
           ~Turns(longer, n, q), Leaves(longer, n, q) => cs[k].breaks
    PROVE  /\ BlockOK(longer, Q, cs[k], cs[k].at)
           /\ Q[cs[k].at].reached <=> Ready(cs, k)
<1>1. /\ q \in 1 .. n - 1 /\ q \in 1 .. Len(P)
      /\ BlockOK(src, P, blocks[k], q) /\ (P[q].reached <=> Ready(blocks, k))
  BY HeadAt
<1>2. Extends(src, P, longer, Q)
  BY GrownType DEF Sides
<1>3. BlockOK(longer, Q, cs[k], q)
  BY <1>1, <1>2, BlockStays
<1>4. cs[k].at = q
  BY DEF SameBlock, HeadOf
<1>5. Q[q] = P[q]
  BY <1>1, <1>2 DEF Extends, Later, Begins
<1>6. Ready(cs, k) <=> Ready(blocks, k)
  BY DEF Ready
<1> QED BY <1>1, <1>3, <1>4, <1>5, <1>6

\* A statement
LEMMA StatementModel ==
    ASSUME NEW src, NEW P, NEW ls, NEW blocks, Model(src, P, ls, blocks),
           NEW longer, NEW Q, NEW token, NEW ms,
           Grown(src, P, longer, Q, token, ms, blocks), NEW n, n = Len(P),
           token.op \in Plain, StatementOK(token, n, ls, ms), Grows(ls, ms),
           Placed(longer, ms, n + 1)
    PROVE  Model(longer, Q, ms, blocks)
<1>0. Sides(src, P, ls, blocks, longer, Q, token, ms, blocks, n)
  BY GrownType
<1>1. /\ Extends(src, P, longer, Q) /\ longer[n] = token
      /\ Q[n] = P[n] /\ P[n].locals = ls /\ Q[n + 1].locals = ms
      /\ Len(P[n].nest) = Len(blocks) /\ Len(Q[n + 1].nest) = Len(blocks)
      /\ \A k \in 1 .. Len(blocks) : P[n].nest[k] = blocks[k].at
      /\ \A k \in 1 .. Len(blocks) : Q[n + 1].nest[k] = blocks[k].at
      /\ P[n].reached <=> \A k \in 1 .. Len(blocks) : blocks[k].falls
      /\ Q[n + 1].reached <=> \A k \in 1 .. Len(blocks) : blocks[k].falls
  BY <1>0 DEF Sides
<1>2. PICK s, t : Turn(P, Q, n, s, t)
  BY DEF Turn
<1>3. Agree(s, t) /\ Agree(P[n].nest, Q[n + 1].nest)
  BY <1>1, <1>2 DEF Agree, Turn
<1>4. TokenOK(longer, Q, n)
  BY <1>1, <1>3 DEF TokenOK, Plain, Openers
<1>5. token.op \notin Openers /\ token.op # "else" /\ token.op # "break"
  BY DEF Plain, Openers
<1>6. Shaped(longer, Q)
  <2>1. Q[n + 1].reached => P[n].reached
    BY <1>1
  <2> QED BY <1>1, <1>2, <1>3, <1>4, <1>5, <2>1, StaysShaped
<1>7. ASSUME NEW k \in 2 .. Len(blocks)
      PROVE  /\ BlockOK(longer, Q, blocks[k], blocks[k].at)
             /\ Q[blocks[k].at].reached <=> Ready(blocks, k)
  <2>1. PICK q : HeadOf(blocks, k, q)
    BY DEF HeadOf
  <2>2. ~Turns(longer, n, q) /\ ~Leaves(longer, n, q)
    BY <1>1, <1>5 DEF Turns, Leaves
  <2>3. SameBlock(blocks[k], blocks[k])
    BY DEF SameBlock
  <2> QED BY <2>1, <2>2, <2>3, BlockReads
<1>8. Reads(longer, Q, blocks)
  BY <1>7 DEF Reads
<1> QED BY <1>6, <1>8, GrownModel

\* What follows a jump is not reached.
Diverged(cs, blocks) ==
    /\ Len(cs) = Len(blocks) /\ ~cs[Len(cs)].falls
    /\ \A k \in 1 .. Len(blocks) : SameBlock(cs[k], blocks[k])
    /\ \A k \in 1 .. Len(blocks) - 1 : cs[k].falls <=> blocks[k].falls

JumpsTo(token, blocks, cs, k) ==
    /\ k \in 2 .. Len(blocks) /\ blocks[k].at = token.arg /\ blocks[k].kind \in Looping
    /\ token.op = "break" => cs[k].breaks

LEMMA JumpModel ==
    ASSUME NEW src, NEW P, NEW ls, NEW blocks, Model(src, P, ls, blocks),
           NEW longer, NEW Q, NEW token, NEW cs,
           Grown(src, P, longer, Q, token, ls, cs), NEW n, n = Len(P),
           Diverged(cs, blocks), token.op \in {"break", "continue", "return"},
           token.op # "return" => \E k \in 2 .. Len(blocks) : JumpsTo(token, blocks, cs, k)
    PROVE  Model(longer, Q, ls, cs)
<1>0. Sides(src, P, ls, blocks, longer, Q, token, ls, cs, n)
  BY GrownType
<1>1. /\ Extends(src, P, longer, Q) /\ longer[n] = token /\ n \in Nat /\ n >= 1
      /\ Q[n] = P[n] /\ P[n].locals = ls /\ Q[n + 1].locals = ls
      /\ Len(P[n].nest) = Len(blocks) /\ Len(Q[n + 1].nest) = Len(cs)
      /\ \A k \in 1 .. Len(blocks) : P[n].nest[k] = blocks[k].at
      /\ \A k \in 1 .. Len(cs) : Q[n + 1].nest[k] = cs[k].at
      /\ Q[n + 1].reached <=> \A k \in 1 .. Len(cs) : cs[k].falls
      /\ Len(blocks) \in Nat /\ Len(cs) \in Nat
  BY <1>0 DEF Sides
<1>2. PICK s, t : Turn(P, Q, n, s, t)
  BY DEF Turn
<1>3. Len(cs) = Len(blocks) /\ Len(cs) >= 1 /\ ~cs[Len(cs)].falls
        /\ \A k \in 1 .. Len(blocks) : SameBlock(cs[k], blocks[k])
  BY DEF Diverged, Grown
<1>4. \A k \in 1 .. Len(blocks) : cs[k].at = blocks[k].at
  BY <1>3 DEF SameBlock
<1>5. Agree(s, t) /\ Agree(P[n].nest, Q[n + 1].nest)
  BY <1>1, <1>2, <1>3, <1>4 DEF Agree, Turn
<1>6. ~Q[n + 1].reached
  BY <1>1, <1>3
<1>7. token.op \notin Openers /\ token.op \notin Plain /\ token.op # "else" /\ token.op # "end"
  BY DEF Plain, Openers
<1>8. ASSUME token.op # "return"
      PROVE  \E k \in 2 .. Len(P[n].nest) :
                P[n].nest[k] = token.arg /\ longer[token.arg].op \in Looping
  <2>1. PICK k \in 2 .. Len(blocks) : JumpsTo(token, blocks, cs, k)
    BY <1>8
  <2>2. PICK q : HeadOf(blocks, k, q)
    BY DEF HeadOf
  <2>3. q = token.arg /\ blocks[k].kind \in Looping
    BY <2>1, <2>2 DEF HeadOf, JumpsTo
  <2>4. q \in 1 .. n - 1 /\ BlockOK(src, P, blocks[k], q)
    BY <2>2, HeadAt
  <2>5. src[q].op \in Looping
    BY <2>3, <2>4 DEF BlockOK, Looping
  <2>6. longer[q] = src[q]
    <3>1. \A i \in 1 .. n - 1 : longer[i] = src[i]
      BY <1>1, ExtendsType
    <3> QED BY <2>4, <3>1
  <2>7. P[n].nest[k] = q
    BY <1>1, <2>2 DEF HeadOf
  <2> QED BY <1>1, <2>3, <2>5, <2>6, <2>7
<1>9. TokenOK(longer, Q, n)
  <2>1. JumpOK(longer, Q, n)
    BY <1>1, <1>5, <1>8 DEF JumpOK
  <2> QED BY <1>1, <1>7, <2>1 DEF TokenOK
<1>10. Placed(longer, ls, n + 1) /\ Grows(ls, ls)
  <2>1. Placed(src, ls, n) /\ Typed(src, P) /\ Later(src, P, longer, Q) /\ n \in 1 .. Len(P)
    BY <1>1, ExtendsType
  <2>2. ls \in Seq(Local)
    BY DEF Model
  <2>3. Kept(ls, ls)
    BY <2>2, KeptSame
  <2> QED BY <2>1, <2>2, <2>3, PlacedKept DEF Kept
<1>11. Shaped(longer, Q)
  BY <1>1, <1>2, <1>5, <1>6, <1>7, <1>9, <1>10, StaysShaped
<1>12. ASSUME NEW k \in 2 .. Len(cs)
       PROVE  /\ BlockOK(longer, Q, cs[k], cs[k].at)
              /\ Q[cs[k].at].reached <=> Ready(cs, k)
  <2>1. PICK q : HeadOf(blocks, k, q)
    BY <1>3 DEF HeadOf
  <2>2. ~Turns(longer, n, q)
    BY <1>1, <1>7 DEF Turns
  <2>3. ASSUME Leaves(longer, n, q) PROVE cs[k].breaks
    <3>1. token.op = "break" /\ token.arg = q
      BY <1>1, <2>3 DEF Leaves
    <3>2. PICK j \in 2 .. Len(blocks) : JumpsTo(token, blocks, cs, j)
      BY <3>1
    <3>3. HeadOf(blocks, j, q) /\ cs[j].breaks /\ blocks[j].at = q /\ blocks[k].at = q
      BY <2>1, <3>1, <3>2 DEF HeadOf, JumpsTo
    <3>4. q \in Nat /\ (\A i \in 1 .. k - 1 : blocks[i].at < q)
            /\ (\A i \in 1 .. j - 1 : blocks[i].at < q)
      BY <2>1, <3>3, HeadAt
    <3>5. j = k
      BY <1>1, <1>3, <3>3, <3>4
    <3> QED BY <3>3, <3>5
  <2>4. SameBlock(cs[k], blocks[k])
    BY <1>1, <1>3
  <2>5. \A j \in 1 .. k - 1 : cs[j].falls <=> blocks[j].falls
    BY <1>1, <1>3 DEF Diverged
  <2> QED BY <2>1, <2>2, <2>3, <2>4, <2>5, BlockReads
<1>13. Reads(longer, Q, cs)
  BY <1>12 DEF Reads
<1> QED BY <1>11, <1>13, GrownModel

\* A branch or a jump names a header before it, in whose block it is.
LEMMA ArgsBefore ==
    ASSUME NEW src, NEW P, Typed(src, P), Shaped(src, P),
           NEW e \in 1 .. Len(P) - 1, NEW q, Turns(src, e, q) \/ Leaves(src, e, q)
    PROVE  /\ q \in 1 .. e - 1 /\ q \in Nat /\ e \in Nat /\ e \in 1 .. Len(P)
           /\ q + 1 \in 1 .. Len(P)
           /\ Grows(P[q + 1].locals, P[e].locals) /\ (P[e].reached => P[q].reached)
<1>1. e \in 1 .. Len(P) /\ e \in Nat /\ Len(P) \in Nat
  BY DEF Typed
<1>2. PointOK(src, P, e) /\ TokenOK(src, P, e)
  BY <1>1 DEF Shaped
<1>3. Around(src, P, e)
  BY <1>2 DEF PointOK
<1>4. \E k : HeaderAt(P, e, k, q)
  <2>1. CASE Turns(src, e, q)
    <3>1. ElseOK(src, P, e) /\ src[e].arg = q
      BY <1>2, <2>1 DEF TokenOK, Turns
    <3>2. Len(P[e].nest) \in Nat
      BY <1>1, PointType
    <3>3. q = P[e].nest[Len(P[e].nest)] /\ Len(P[e].nest) > 1
      BY <3>1 DEF ElseOK, Inner
    <3>4. HeaderAt(P, e, Len(P[e].nest), q)
      BY <3>2, <3>3 DEF HeaderAt
    <3> QED BY <3>4
  <2>2. CASE Leaves(src, e, q)
    <3>1. JumpOK(src, P, e) /\ src[e].op = "break" /\ src[e].arg = q
      BY <1>2, <2>2 DEF TokenOK, Leaves
    <3>2. PICK k \in 2 .. Len(P[e].nest) : P[e].nest[k] = q
      BY <3>1 DEF JumpOK
    <3>3. HeaderAt(P, e, k, q)
      BY <3>2 DEF HeaderAt
    <3> QED BY <3>3
  <2> QED BY <2>1, <2>2
<1>5. PICK k : HeaderAt(P, e, k, q)
  BY <1>4
<1> QED BY <1>1, <1>3, <1>5, NestAt

\* A new block
Opened(cs, blocks, b) ==
    /\ Len(cs) = Len(blocks) + 1 /\ cs[Len(cs)] = b
    /\ \A k \in 1 .. Len(blocks) : cs[k] = blocks[k]

Fresh(b, op, n, ms) ==
    /\ b.kind = op /\ b.at = n /\ b.saved = ms /\ b.base = Len(ms) /\ b.falls

LEMMA OpenModel ==
    ASSUME NEW src, NEW P, NEW ls, NEW blocks, Model(src, P, ls, blocks),
           NEW longer, NEW Q, NEW token, NEW ms, NEW cs,
           Grown(src, P, longer, Q, token, ms, cs), NEW n, n = Len(P),
           NEW b, Opened(cs, blocks, b), token.op \in Openers,
           Fresh(b, token.op, n, ms),
           HeaderOK(token, n, ls, ms), Grows(ls, ms), Placed(longer, ms, n + 1)
    PROVE  Model(longer, Q, ms, cs)
<1>0. Sides(src, P, ls, blocks, longer, Q, token, ms, cs, n)
  BY GrownType
<1>1. /\ Extends(src, P, longer, Q) /\ Len(longer) = n /\ longer[n] = token
      /\ n \in Nat /\ n >= 1 /\ Len(src) = n - 1 /\ Q[n] = P[n]
      /\ P[n].locals = ls /\ Len(P[n].nest) = Len(blocks)
      /\ \A k \in 1 .. Len(blocks) : P[n].nest[k] = blocks[k].at
      /\ P[n].reached <=> \A k \in 1 .. Len(blocks) : blocks[k].falls
      /\ Q[n + 1].locals = ms /\ Len(Q[n + 1].nest) = Len(cs)
      /\ \A k \in 1 .. Len(cs) : Q[n + 1].nest[k] = cs[k].at
      /\ Q[n + 1].reached <=> \A k \in 1 .. Len(cs) : cs[k].falls
      /\ P[n].reached \in BOOLEAN /\ Q[n + 1].reached \in BOOLEAN
      /\ Len(blocks) \in Nat /\ Len(cs) \in Nat
      /\ Len(Q) = Len(longer) + 1
  BY <1>0 DEF Sides
<1>2. PICK s, t : Turn(P, Q, n, s, t)
  BY DEF Turn
<1>3. /\ Len(cs) = Len(blocks) + 1 /\ cs[Len(cs)] = b
      /\ \A k \in 1 .. Len(blocks) : cs[k] = blocks[k]
      /\ b.at = n /\ b.falls
  BY DEF Opened, Fresh
<1>4. Agree(t, Append(s, n)) /\ Agree(Q[n + 1].nest, Append(P[n].nest, n))
  <2>1. s \in Seq(Nat) /\ s = P[n].nest /\ t = Q[n + 1].nest
    <3>1. Typed(src, P) /\ n \in 1 .. Len(P)
      BY <1>1, ExtendsType
    <3> QED BY <1>2, <3>1, PointType DEF Turn
  <2>2. PICK u : u = Append(s, n)
    OBVIOUS
  <2>3. Len(u) = Len(s) + 1 /\ u[Len(s) + 1] = n /\ \A k \in 1 .. Len(s) : u[k] = s[k]
    BY <1>1, <2>1, <2>2, AppendAt
  <2>4. /\ Len(s) = Len(blocks) /\ Len(t) = Len(blocks) + 1
        /\ \A k \in 1 .. Len(blocks) : s[k] = blocks[k].at
        /\ \A k \in 1 .. Len(blocks) + 1 : t[k] = cs[k].at
    BY <1>1, <1>3, <2>1
  <2>5. ASSUME NEW k \in 1 .. Len(blocks) + 1 PROVE t[k] = u[k]
    <3>1. CASE k = Len(blocks) + 1
      BY <1>3, <2>3, <2>4, <3>1
    <3>2. CASE k \in 1 .. Len(blocks)
      BY <1>3, <2>3, <2>4, <3>2
    <3>3. k = Len(blocks) + 1 \/ k \in 1 .. Len(blocks)
      <4>1. Len(blocks) \in Nat
        BY <1>1
      <4> QED BY <4>1
    <3> QED BY <3>1, <3>2, <3>3
  <2>6. Agree(t, u)
    BY <2>3, <2>4, <2>5 DEF Agree
  <2> QED BY <2>1, <2>2, <2>6
<1>5. Q[n + 1].reached <=> P[n].reached
  <2>1. (\A k \in 1 .. Len(cs) : cs[k].falls)
          <=> (\A k \in 1 .. Len(blocks) : blocks[k].falls)
    <3>1. \A k \in 1 .. Len(cs) : k = Len(cs) \/ k \in 1 .. Len(blocks)
      BY <1>1, <1>3
    <3>2. \A k \in 1 .. Len(blocks) : k \in 1 .. Len(cs)
      BY <1>1, <1>3
    <3> QED BY <1>3, <3>1, <3>2
  <2> QED BY <1>1, <2>1
<1>6. TokenOK(longer, Q, n)
  BY <1>1, <1>4, <1>5 DEF TokenOK, Plain, Openers
<1>7. Shaped(longer, Q)
  BY <1>1, <1>2, <1>4, <1>5, <1>6, OpensShaped
<1>8. ASSUME NEW k \in 2 .. Len(cs)
      PROVE  /\ BlockOK(longer, Q, cs[k], cs[k].at)
             /\ Q[cs[k].at].reached <=> Ready(cs, k)
  <2>1. token.op # "else" /\ token.op # "break"
    BY DEF Openers
  <2>2. \A q : ~Turns(longer, n, q) /\ ~Leaves(longer, n, q)
    BY <1>1, <2>1 DEF Turns, Leaves
  <2>3. CASE k \in 2 .. Len(blocks)
    <3>1. PICK q : HeadOf(blocks, k, q)
      BY <2>3 DEF HeadOf
    <3>2. cs[k] = blocks[k] /\ \A j \in 1 .. k - 1 : cs[j] = blocks[j]
      BY <1>1, <1>3, <2>3
    <3>3. SameBlock(cs[k], blocks[k]) /\ \A j \in 1 .. k - 1 : cs[j].falls <=> blocks[j].falls
      BY <3>2 DEF SameBlock
    <3> QED BY <2>2, <3>1, <3>3, BlockReads
  <2>4. CASE k = Len(cs)
    <3>1. ASSUME NEW e \in 1 .. n PROVE ~Turns(longer, e, n) /\ ~Leaves(longer, e, n)
      <4>1. CASE e = n
        BY <2>2, <4>1
      <4>2. CASE e \in 1 .. n - 1
        <5>1. longer[e] = src[e] /\ Typed(src, P) /\ Shaped(src, P) /\ e \in 1 .. Len(P) - 1
          BY <1>1, <4>2, ExtendsType DEF Extends
        <5>2. ~Turns(src, e, n) /\ ~Leaves(src, e, n)
          <6> SUFFICES ASSUME Turns(src, e, n) \/ Leaves(src, e, n) PROVE FALSE
            OBVIOUS
          <6>1. n \in 1 .. e - 1 /\ e \in Nat
            BY <5>1, ArgsBefore
          <6> QED BY <1>1, <4>2, <6>1
        <5> QED BY <5>1, <5>2 DEF Turns, Leaves
      <4> QED BY <1>1, <4>1, <4>2
    <3>2. b.kind # "fn" /\ b.kind # "else" /\ longer[n].op = b.kind
      BY <1>1 DEF Openers, Fresh
    <3>3. BlockOK(longer, Q, b, n)
      BY <1>1, <3>1, <3>2 DEF BlockOK, Fresh
    <3>4. k - 1 = Len(blocks)
      BY <1>1, <1>3, <2>4
    <3>5. Ready(cs, k) <=> \A j \in 1 .. Len(blocks) : blocks[j].falls
      BY <1>3, <3>4 DEF Ready
    <3>6. cs[k] = b /\ b.at = n
      BY <1>3, <2>4 DEF Fresh
    <3> QED BY <1>1, <3>3, <3>5, <3>6
  <2> QED BY <1>1, <1>3, <2>3, <2>4
<1>9. Reads(longer, Q, cs)
  BY <1>8 DEF Reads
<1> QED BY <1>7, <1>9, GrownModel

\* The innermost block b is followed by its `else'.
Turned(cs, blocks, d, b, c, ls) ==
    /\ d = Len(blocks) /\ d > 1 /\ Len(cs) = d /\ cs[d] = c /\ blocks[d] = b
    /\ \A k \in 1 .. d - 1 : cs[k] = blocks[k]
    /\ b.kind = "if" /\ c.kind = "else" /\ c.at = b.at /\ c.base = b.base
    /\ c.saved = b.saved /\ c.falls /\ c.breaks = b.breaks
    /\ c.branch = pop(ls, b.base) /\ c.branchFalls = b.falls

LEMMA ElseModel ==
    ASSUME NEW src, NEW P, NEW ls, NEW blocks, Model(src, P, ls, blocks),
           NEW longer, NEW Q, NEW token, NEW ms, NEW cs,
           Grown(src, P, longer, Q, token, ms, cs), NEW n, n = Len(P),
           NEW d, NEW b, NEW c, Turned(cs, blocks, d, b, c, ls),
           token.op = "else" /\ token.arg = b.at, ms = b.saved
    PROVE  Model(longer, Q, ms, cs)
<1>0. Sides(src, P, ls, blocks, longer, Q, token, ms, cs, n)
  BY GrownType
<1>1. /\ Extends(src, P, longer, Q) /\ longer[n] = token /\ n \in Nat /\ n >= 1
      /\ Q[n] = P[n] /\ P[n].locals = ls /\ Q[n + 1].locals = ms /\ Len(longer) = n
      /\ Len(P[n].nest) = Len(blocks) /\ Len(Q[n + 1].nest) = Len(cs)
      /\ \A k \in 1 .. Len(blocks) : P[n].nest[k] = blocks[k].at
      /\ \A k \in 1 .. Len(cs) : Q[n + 1].nest[k] = cs[k].at
      /\ P[n].reached <=> \A k \in 1 .. Len(blocks) : blocks[k].falls
      /\ Q[n + 1].reached <=> \A k \in 1 .. Len(cs) : cs[k].falls
      /\ Len(blocks) \in Nat
  BY <1>0 DEF Sides
<1>2. PICK s, t : Turn(P, Q, n, s, t)
  BY DEF Turn
<1>3. /\ d = Len(blocks) /\ d > 1 /\ Len(cs) = d /\ cs[d] = c /\ blocks[d] = b
      /\ \A k \in 1 .. d - 1 : cs[k] = blocks[k]
  BY DEF Turned
<1>4. /\ b.kind = "if" /\ c.kind = "else" /\ c.at = b.at /\ c.base = b.base
      /\ c.saved = b.saved /\ c.falls /\ c.breaks = b.breaks
      /\ c.branch = pop(ls, b.base) /\ c.branchFalls = b.falls
  BY DEF Turned
<1>5. PICK q : HeadOf(blocks, d, q)
  BY <1>1, <1>3 DEF HeadOf
<1>6. q = b.at /\ token.arg = q /\ d \in Nat
  BY <1>1, <1>3, <1>5 DEF HeadOf
<1>7. /\ q \in 1 .. n - 1 /\ q \in 1 .. Len(P) /\ q \in Nat /\ q + 1 \in 1 .. Len(P)
      /\ BlockOK(src, P, blocks[d], q) /\ (P[q].reached <=> Ready(blocks, d))
      /\ \A j \in 1 .. d - 1 : blocks[j].at < q
  BY <1>5, HeadAt
<1>8. BlockOK(src, P, b, q)
  BY <1>3, <1>7
<1>9. \A k \in 1 .. d : cs[k].at = blocks[k].at
  BY <1>3, <1>4, <1>6
<1>10. Agree(s, t) /\ Agree(P[n].nest, Q[n + 1].nest)
  BY <1>1, <1>2, <1>3, <1>9 DEF Agree, Turn
<1>11. Inmost(s, d, q)
  <2>1. s = P[n].nest
    BY <1>2 DEF Turn
  <2>2. Len(s) = d /\ d \in 1 .. Len(blocks) /\ s[d] = q
    BY <1>1, <1>3, <1>6, <2>1
  <2> QED BY <1>3, <2>2 DEF Inmost
<1>12. /\ q = Inner(P, n) /\ \A i \in 1 .. n : Q[i] = P[i]
       /\ \A i \in 1 .. n - 1 : longer[i] = src[i]
  <2>1. q = Inner(P, n)
    BY <1>1, <1>2, <1>11, InmostAt
  <2>2. /\ \A i \in 1 .. n : Q[i] = P[i]
        /\ \A i \in 1 .. n - 1 : longer[i] = src[i]
    BY <1>1, ExtendsType
  <2> QED BY <2>1, <2>2
<1>13. src[q].op = "if" /\ b.saved = P[q + 1].locals /\ b.base = Len(P[q + 1].locals)
  BY <1>4, <1>8 DEF BlockOK
<1>14. Kept(P[q].locals, P[q + 1].locals) /\ Shaped(src, P) /\ Typed(src, P)
  <2>1. Shaped(src, P) /\ Typed(src, P)
    BY <1>1 DEF Extends
  <2>2. TokenOK(src, P, q)
    BY <1>7, <2>1 DEF Shaped
  <2>3. HeaderOK(src[q], q, P[q].locals, P[q + 1].locals)
    BY <1>13, <2>2 DEF TokenOK, Openers
  <2> QED BY <1>13, <2>1, <2>3 DEF HeaderOK
<1>15. Q[n + 1].reached <=> P[q].reached
  <2>1. Ready(blocks, d) <=> \A k \in 1 .. d - 1 : blocks[k].falls
    BY DEF Ready
  <2>2. \A k \in 1 .. d : k = d \/ k \in 1 .. d - 1
    BY <1>6
  <2>3. \A k \in 1 .. d - 1 : k \in 1 .. d
    BY <1>6
  <2>4. (\A k \in 1 .. d : cs[k].falls) <=> \A k \in 1 .. d - 1 : blocks[k].falls
    BY <1>3, <1>4, <2>2, <2>3
  <2> QED BY <1>1, <1>3, <1>7, <2>1, <2>4
<1>16. Q[q] = P[q] /\ Q[q + 1] = P[q + 1] /\ longer[q] = src[q]
  <2>1. q \in 1 .. n /\ q + 1 \in 1 .. n
    BY <1>1, <1>7
  <2> QED BY <1>7, <1>12, <2>1
<1>17. TokenOK(longer, Q, n)
  <2>1. q = Inner(Q, n) /\ q = longer[n].arg /\ Len(Q[n].nest) > 1
    BY <1>1, <1>3, <1>6, <1>12 DEF Inner
  <2>2. Kept(Q[q].locals, Q[n + 1].locals)
    BY <1>1, <1>13, <1>14, <1>16
  <2>3. ElseOK(longer, Q, n)
    BY <1>1, <1>10, <1>13, <1>15, <1>16, <2>1, <2>2 DEF ElseOK
  <2> QED BY <1>1, <2>3 DEF TokenOK, Plain, Openers
<1>18. Grows(P[q + 1].locals, Q[n + 1].locals)
  <2>1. P[q + 1].locals \in Seq(Local)
    BY <1>7, <1>14, PointType
  <2> QED BY <1>1, <1>13, <2>1, KeptSame DEF Kept
<1>19. Shaped(longer, Q)
  <2>1. Kept(P[q].locals, Q[n + 1].locals) /\ longer[n].op = "else"
          /\ (Q[n + 1].reached => P[q].reached)
    BY <1>1, <1>13, <1>14, <1>15
  <2> QED BY <1>1, <1>2, <1>10, <1>11, <1>17, <1>18, <2>1, TurnsShaped
<1>20. ASSUME NEW k \in 2 .. Len(cs)
       PROVE  /\ BlockOK(longer, Q, cs[k], cs[k].at)
              /\ Q[cs[k].at].reached <=> Ready(cs, k)
  <2>1. \A r : ~Leaves(longer, n, r)
    BY <1>1 DEF Leaves
  <2>2. CASE k \in 2 .. d - 1
    <3>1. PICK r : HeadOf(blocks, k, r)
      BY <1>3, <1>6, <2>2 DEF HeadOf
    <3>2. r < q /\ r \in Nat
      <4>1. r = blocks[k].at /\ k \in 1 .. d - 1
        BY <2>2, <3>1 DEF HeadOf
      <4>2. r \in Nat
        BY <3>1, HeadAt
      <4> QED BY <1>7, <4>1, <4>2
    <3>3. ~Turns(longer, n, r)
      BY <1>1, <1>6, <1>7, <3>2 DEF Turns
    <3>4. cs[k] = blocks[k] /\ \A j \in 1 .. k - 1 : cs[j] = blocks[j]
      BY <1>3, <1>6, <2>2
    <3>5. SameBlock(cs[k], blocks[k]) /\ \A j \in 1 .. k - 1 : cs[j].falls <=> blocks[j].falls
      BY <3>4 DEF SameBlock
    <3> QED BY <2>1, <3>1, <3>3, <3>5, BlockReads
  <2>3. CASE k = d
    <3>1. c.at = q /\ cs[k] = c
      BY <1>3, <1>4, <1>6, <2>3
    <3>2. Ready(cs, d) <=> Ready(blocks, d)
      BY <1>3 DEF Ready
    <3>3. Turns(longer, n, q) /\ n \in 1 .. n
      BY <1>1, <1>6 DEF Turns
    <3>4. \A e \in 1 .. n - 1 : ~Turns(src, e, q)
      BY <1>4, <1>8, <1>0 DEF BlockOK, Sides
    <3>5. ASSUME NEW e \in 1 .. n, Turns(longer, e, q)
          PROVE  e = n
      <4>1. CASE e \in 1 .. n - 1
        BY <1>12, <3>4, <3>5, <4>1 DEF Turns
      <4> QED BY <1>1, <4>1
    <3>6. ASSUME NEW e \in 1 .. n, Leaves(longer, e, q), Q[e].reached
          PROVE  c.breaks
      <4>1. e \in 1 .. n - 1
        <5>1. e # n
          BY <2>1, <3>6
        <5> QED BY <1>1, <5>1
      <4>2. longer[e] = src[e] /\ Q[e] = P[e] /\ Len(src) = n - 1
        BY <1>0, <1>12, <4>1 DEF Sides
      <4>3. Leaves(src, e, q)
        BY <3>6, <4>2 DEF Leaves
      <4> QED BY <1>4, <1>8, <3>6, <4>1, <4>2, <4>3 DEF BlockOK
    <3>7. c.branch = pop(Q[n].locals, c.base) /\ (Q[n].reached => c.branchFalls)
      <4>1. d \in 1 .. Len(blocks)
        BY <1>1, <1>3
      <4>2. P[n].reached => b.falls
        BY <1>1, <1>3, <4>1
      <4> QED BY <1>1, <1>4, <4>2
    <3>8. BlockOK(longer, Q, c, q)
      <4>1. c.kind # "fn" /\ longer[q].op = IF c.kind = "else" THEN "if" ELSE c.kind
        BY <1>4, <1>13, <1>16
      <4>2. c.base = Len(Q[q + 1].locals) /\ c.saved = Q[q + 1].locals
        BY <1>4, <1>13, <1>16
      <4>3. \A e \in 1 .. n : Turns(longer, e, q) =>
              c.branch = pop(Q[e].locals, c.base) /\ (Q[e].reached => c.branchFalls)
        BY <3>5, <3>7
      <4>4. \E e \in 1 .. n : Turns(longer, e, q)
        BY <3>3
      <4>5. c.kind # "if"
        BY <1>4
      <4> QED BY <1>1, <3>6, <4>1, <4>2, <4>3, <4>4, <4>5 DEF BlockOK
    <3> QED BY <1>7, <1>16, <2>3, <3>1, <3>2, <3>8
  <2> QED BY <1>3, <1>6, <2>2, <2>3
<1>21. Reads(longer, Q, cs)
  BY <1>20 DEF Reads
<1> QED BY <1>19, <1>21, GrownModel

LEMMA PopAssures ==
    ASSUME NEW ls \in Seq(Local), NEW n \in 0 .. Len(ls)
    PROVE  Len(pop(ls, n)) = n /\ Assures(ls, pop(ls, n))
<1> PICK ms : ms = pop(ls, n)
  OBVIOUS
<1>1. n \in Nat /\ n <= Len(ls) /\ Len(ls) \in Nat
  OBVIOUS
<1>2. ms = [i \in 1 .. n |->
              [ls[i] EXCEPT !.borrows = @ - Cardinality(Dependents(ls, i, n + 1))]]
  BY DEF pop
<1>3. Len(ms) = n
  <2>1. ms \in Seq({ms[i] : i \in 1 .. n}) /\ DOMAIN ms = 1 .. n
    BY <1>1, <1>2
  <2> QED BY <1>1, <2>1
<1>4. ASSUME NEW i \in 1 .. n
      PROVE  Same(ls[i], ms[i]) /\ (ls[i].moved => ms[i].moved)
  <2>1. ls[i] \in Local
    BY <1>1, LocalAt
  <2>2. ms[i] = [ls[i] EXCEPT !.borrows = @ - Cardinality(Dependents(ls, i, n + 1))]
    BY <1>2
  <2> QED BY <2>1, <2>2 DEF Local, Same
<1>5. Assures(ls, ms)
  BY <1>1, <1>3, <1>4 DEF Assures
<1> QED BY <1>3, <1>5

\* The innermost block b ends; its end is left if `out' says so.
Ended(cs, blocks, d, b, out) ==
    /\ d = Len(blocks) /\ d > 1 /\ blocks[d] = b /\ Len(cs) = d - 1
    /\ \A k \in 1 .. d - 1 : SameBlock(cs[k], blocks[k])
    /\ \A k \in 1 .. d - 2 : cs[k].falls <=> blocks[k].falls
    /\ cs[d - 1].falls <=> blocks[d - 1].falls /\ out

\* The scope ms behind the end of b holds for whatever comes to it.
Lands(b, ls, ms, out) ==
    /\ b.kind \in {"block", "if", "else"} /\ b.falls => Assures(ls, ms) /\ out
    /\ b.kind \in {"if", "while", "for"} => out
    /\ b.kind = "else" /\ b.branchFalls => Assures(b.branch, ms) /\ out
    /\ b.kind = "loop" /\ b.breaks => out

LEMMA EndModel ==
    ASSUME NEW src, NEW P, NEW ls, NEW blocks, Model(src, P, ls, blocks),
           NEW longer, NEW Q, NEW token, NEW ms, NEW cs,
           Grown(src, P, longer, Q, token, ms, cs), NEW n, n = Len(P),
           NEW d, NEW b, NEW out \in BOOLEAN, Ended(cs, blocks, d, b, out),
           token.op = "end" /\ token.arg = b.at, Lands(b, ls, ms, out),
           Kept(P[b.at].locals, ms), StepGives(src, P, b.at)
    PROVE  Model(longer, Q, ms, cs)
<1>0. Sides(src, P, ls, blocks, longer, Q, token, ms, cs, n)
  BY GrownType
<1>1. /\ Extends(src, P, longer, Q) /\ longer[n] = token /\ n \in Nat /\ n >= 1
      /\ Q[n] = P[n] /\ P[n].locals = ls /\ Q[n + 1].locals = ms /\ Len(longer) = n
      /\ Len(P[n].nest) = Len(blocks) /\ Len(Q[n + 1].nest) = Len(cs)
      /\ \A k \in 1 .. Len(blocks) : P[n].nest[k] = blocks[k].at
      /\ \A k \in 1 .. Len(cs) : Q[n + 1].nest[k] = cs[k].at
      /\ P[n].reached <=> \A k \in 1 .. Len(blocks) : blocks[k].falls
      /\ Q[n + 1].reached <=> \A k \in 1 .. Len(cs) : cs[k].falls
      /\ Len(blocks) \in Nat /\ Len(src) = n - 1
  BY <1>0 DEF Sides
<1>2. PICK s, t : Turn(P, Q, n, s, t)
  BY DEF Turn
<1>3. /\ d = Len(blocks) /\ d > 1 /\ blocks[d] = b /\ Len(cs) = d - 1
      /\ \A k \in 1 .. d - 1 : SameBlock(cs[k], blocks[k])
      /\ \A k \in 1 .. d - 2 : cs[k].falls <=> blocks[k].falls
      /\ cs[d - 1].falls <=> blocks[d - 1].falls /\ out
  BY DEF Ended
<1>5. PICK q : HeadOf(blocks, d, q)
  BY <1>1, <1>3 DEF HeadOf
<1>6. q = b.at /\ token.arg = q /\ d \in Nat
  BY <1>1, <1>3, <1>5 DEF HeadOf
<1>7. /\ q \in 1 .. n - 1 /\ q \in 1 .. Len(P) /\ q \in Nat /\ q + 1 \in 1 .. Len(P)
      /\ BlockOK(src, P, blocks[d], q) /\ (P[q].reached <=> Ready(blocks, d))
      /\ \A j \in 1 .. d - 1 : blocks[j].at < q
  BY <1>5, HeadAt
<1>8. BlockOK(src, P, b, q)
  BY <1>3, <1>7
<1>9. \A k \in 1 .. d - 1 : cs[k].at = blocks[k].at
  BY <1>3 DEF SameBlock
<1>11. Inmost(s, d, q)
  <2>1. s = P[n].nest
    BY <1>2 DEF Turn
  <2>2. Len(s) = d /\ d \in 1 .. Len(blocks) /\ s[d] = q
    BY <1>1, <1>3, <1>6, <2>1
  <2> QED BY <1>3, <2>2 DEF Inmost
<1>12. /\ q = Inner(P, n) /\ \A i \in 1 .. n : Q[i] = P[i]
       /\ \A i \in 1 .. n - 1 : longer[i] = src[i]
  <2>1. q = Inner(P, n)
    BY <1>1, <1>2, <1>11, InmostAt
  <2>2. /\ \A i \in 1 .. n : Q[i] = P[i]
        /\ \A i \in 1 .. n - 1 : longer[i] = src[i]
    BY SMTT(30), <1>1, ExtendsType
  <2> QED BY <2>1, <2>2
<1>10. Agree(P[q].nest, t)
  <2>1. t = Q[n + 1].nest /\ s = P[n].nest
    BY <1>2 DEF Turn
  <2>2. Len(P[q].nest) = d - 1 /\ \A j \in 1 .. d - 1 : P[q].nest[j] = s[j]
    BY SMTT(30), <1>1, <1>2, <1>11, InmostAt
  <2> PICK u : u = P[q].nest
    OBVIOUS
  <2>3. Len(t) = d - 1 /\ Len(u) = d - 1
    BY <1>1, <1>3, <2>1, <2>2
  <2>4. ASSUME NEW j \in 1 .. d - 1 PROVE u[j] = t[j]
    <3>1. u[j] = s[j]
      BY <2>2
    <3>2. s[j] = blocks[j].at
      <4>1. j \in 1 .. Len(blocks)
        BY <1>3, <1>6
      <4> QED BY <1>1, <2>1, <4>1
    <3>3. t[j] = cs[j].at
      <4>1. j \in 1 .. Len(cs)
        BY <1>3
      <4> QED BY <1>1, <2>1, <4>1
    <3> QED BY <1>9, <3>1, <3>2, <3>3
  <2> QED BY <2>3, <2>4 DEF Agree
<1>13. Q[q] = P[q] /\ Q[q + 1] = P[q + 1] /\ longer[q] = src[q]
  <2>1. q \in 1 .. n /\ q + 1 \in 1 .. n
    BY <1>1, <1>7
  <2> QED BY <1>7, <1>12, <2>1
<1>14. Shaped(src, P) /\ Typed(src, P)
  BY <1>1 DEF Extends
<1>15. /\ Q[n + 1].reached <=> P[q].reached /\ out
       /\ P[n].reached <=> P[q].reached /\ b.falls
  <2>1. Ready(blocks, d) <=> \A k \in 1 .. d - 1 : blocks[k].falls
    BY DEF Ready
  <2>2. \A k \in 1 .. d : k = d \/ k \in 1 .. d - 1
    BY <1>6
  <2>3. \A k \in 1 .. d - 1 : k \in 1 .. d
    BY <1>6
  <2>4. (\A k \in 1 .. d : blocks[k].falls)
           <=> (\A k \in 1 .. d - 1 : blocks[k].falls) /\ b.falls
    <3>1. d \in 1 .. d
      BY <1>3, <1>6
    <3> QED BY <1>3, <2>2, <2>3, <3>1
  <2>5. \A k \in 1 .. d - 1 : k = d - 1 \/ k \in 1 .. d - 2
    BY <1>6
  <2>6. (\A k \in 1 .. d - 2 : k \in 1 .. d - 1) /\ d - 1 \in 1 .. d - 1
    BY <1>3, <1>6
  <2>7. (\A k \in 1 .. d - 1 : cs[k].falls)
           <=> (\A k \in 1 .. d - 1 : blocks[k].falls) /\ out
    BY <1>3, <2>5, <2>6
  <2>8. Q[n + 1].reached <=> \A k \in 1 .. d - 1 : cs[k].falls
    BY <1>1, <1>3
  <2>9. P[n].reached <=> \A k \in 1 .. d : blocks[k].falls
    BY <1>1, <1>3
  <2> QED BY <1>7, <2>1, <2>4, <2>7, <2>8, <2>9
<1>16. q = Inner(Q, n)
  BY <1>1, <1>12 DEF Inner
<1>17. TokenOK(longer, Q, n)
  <2>1. EndOK(longer, Q, n, q)
    <3>1. t = Q[n + 1].nest
      BY <1>2 DEF Turn
    <3> QED BY <1>1, <1>3, <1>6, <1>10, <1>13, <3>1 DEF EndOK
  <2>2. FallsOut(longer, Q, n, q)
    <3>1. longer[q].op \in {"block", "if"} => b.kind \in {"block", "if", "else"}
      BY <1>8, <1>13 DEF BlockOK
    <3>2. longer[q].op \in {"block", "if"} => Flows(Q, n, n + 1)
      BY <1>1, <1>15, <3>1 DEF Flows, Lands
    <3>3. longer[q].op \in {"while", "for"} => b.kind \in {"while", "for"}
      BY <1>8, <1>13 DEF BlockOK
    <3>4. longer[q].op \in {"while", "for"} => (Q[q].reached => Q[n + 1].reached)
      BY <1>13, <1>15, <3>3 DEF Lands
    <3> QED BY <3>2, <3>4 DEF FallsOut
  <2>3. BranchesJoin(longer, Q, n, q)
    <3> SUFFICES ASSUME longer[q].op = "if"
                 PROVE  /\ \A e \in 1 .. n - 1 : Turns(longer, e, q) => Flows(Q, e, n + 1)
                        /\ \/ \E e \in 1 .. n - 1 : Turns(longer, e, q)
                           \/ Q[q].reached => Q[n + 1].reached
      BY DEF BranchesJoin, Turns
    <3>1. b.kind = "if" \/ b.kind = "else"
      BY <1>8, <1>13 DEF BlockOK
    <3>2. \A e \in 1 .. n - 1 : /\ Turns(longer, e, q) <=> Turns(src, e, q)
                                /\ Q[e] = P[e]
      <4>1. \A e \in 1 .. n - 1 : e \in 1 .. n
        BY <1>1
      <4> QED BY <1>12, <4>1 DEF Turns
    <3>3. CASE b.kind = "if"
      <4>1. \A e \in 1 .. n - 1 : ~Turns(src, e, q)
        BY <1>1, <1>8, <3>3 DEF BlockOK
      <4>2. Q[q].reached => Q[n + 1].reached
        BY <1>13, <1>15, <3>3 DEF Lands
      <4> QED BY <3>2, <4>1, <4>2
    <3>4. CASE b.kind = "else"
      <4>1. \E e \in 1 .. n - 1 : Turns(src, e, q)
        BY <1>1, <1>8, <3>4 DEF BlockOK
      <4>2. ASSUME NEW e \in 1 .. n - 1, Turns(src, e, q), P[e].reached
            PROVE  Assures(P[e].locals, ms) /\ Q[n + 1].reached
        <5>1. b.branch = pop(P[e].locals, b.base) /\ b.branchFalls
          BY <1>1, <1>8, <3>4, <4>2 DEF BlockOK
        <5>2. Assures(b.branch, ms) /\ out
          BY <3>4, <5>1 DEF Lands
        <5>3. e \in 1 .. Len(P) - 1
          BY <4>2
        <5>4. /\ e \in 1 .. Len(P) /\ q + 1 \in 1 .. Len(P) /\ P[q].reached
              /\ Grows(P[q + 1].locals, P[e].locals)
          BY <1>14, <4>2, <5>3, ArgsBefore
        <5>5. P[e].locals \in Seq(Local) /\ b.base \in 0 .. Len(P[e].locals)
          <6>1. P[e].locals \in Seq(Local) /\ P[q + 1].locals \in Seq(Local)
            BY <1>14, <5>4, PointType
          <6>2. b.base = Len(P[q + 1].locals)
            BY <1>8 DEF BlockOK
          <6> QED BY <5>4, <6>1, <6>2 DEF Grows
        <5>6. Assures(P[e].locals, b.branch)
          BY <5>1, <5>5, PopAssures
        <5>7. b.branch \in Seq(Local) /\ ms \in Seq(Local)
          <6>1. blocks \in Seq(Block) /\ ms \in Seq(Local)
            BY DEF Model, Grown
          <6>2. b \in Block
            BY <1>1, <1>3, <6>1, ElementOfSeq
          <6> QED BY <6>1, <6>2 DEF Block
        <5>8. Assures(P[e].locals, ms)
          BY <5>2, <5>5, <5>6, <5>7, AssuresTrans
        <5> QED BY <1>15, <5>2, <5>4, <5>8
      <4>3. ASSUME NEW e \in 1 .. n - 1, Turns(longer, e, q) PROVE Flows(Q, e, n + 1)
        <5>1. Turns(src, e, q) /\ Q[e] = P[e]
          BY <3>2, <4>3
        <5>2. P[e].reached => Assures(P[e].locals, ms) /\ Q[n + 1].reached
          BY <4>2, <5>1
        <5> QED BY <1>1, <5>1, <5>2 DEF Flows
      <4> QED BY <3>2, <4>1, <4>3
    <3> QED BY <3>1, <3>3, <3>4
  <2>4. BreaksOut(longer, Q, n, q)
    <3> SUFFICES ASSUME longer[q].op = "loop", NEW e \in 1 .. n - 1, Leaves(longer, e, q),
                        Q[e].reached
                 PROVE  Q[n + 1].reached
      BY DEF BreaksOut, Leaves
    <3>1. b.kind = "loop"
      BY <1>8, <1>13 DEF BlockOK
    <3>2. e \in 1 .. n /\ e \in 1 .. Len(P) - 1
      BY <1>1
    <3>3. Leaves(src, e, q) /\ P[e].reached
      BY <1>12, <3>2 DEF Leaves
    <3>4. b.breaks
      BY <1>1, <1>8, <3>3 DEF BlockOK
    <3>5. P[q].reached
      BY <1>14, <3>2, <3>3, ArgsBefore
    <3> QED BY <1>15, <3>1, <3>4, <3>5 DEF Lands
  <2>5. StepGives(longer, Q, q)
    BY <1>6, <1>13 DEF StepGives
  <2> QED BY <1>1, <1>16, <2>1, <2>2, <2>3, <2>4, <2>5 DEF TokenOK, Plain, Openers
<1>18. Shaped(longer, Q)
  <2>1. Kept(P[q].locals, Q[n + 1].locals) /\ longer[n].op = "end"
          /\ (Q[n + 1].reached => P[q].reached)
    BY <1>1, <1>6, <1>15
  <2> QED BY <1>1, <1>2, <1>10, <1>11, <1>17, <2>1, EndsShaped
<1>19. ASSUME NEW k \in 2 .. Len(cs)
       PROVE  /\ BlockOK(longer, Q, cs[k], cs[k].at)
              /\ Q[cs[k].at].reached <=> Ready(cs, k)
  <2>1. \A r : ~Leaves(longer, n, r) /\ ~Turns(longer, n, r)
    BY <1>1 DEF Leaves, Turns
  <2>2. k \in 2 .. Len(blocks) /\ k \in 1 .. d - 1 /\ \A j \in 1 .. k - 1 : j \in 1 .. d - 2
    BY <1>3, <1>6
  <2>3. PICK r : HeadOf(blocks, k, r)
    BY <2>2 DEF HeadOf
  <2>4. SameBlock(cs[k], blocks[k]) /\ \A j \in 1 .. k - 1 : cs[j].falls <=> blocks[j].falls
    BY <1>3, <2>2
  <2> QED BY <2>1, <2>3, <2>4, BlockReads
<1>20. Reads(longer, Q, cs)
  BY <1>19 DEF Reads
<1> QED BY <1>18, <1>20, GrownModel

-----------------------------------------------------------------------------
(***************************************************************************)
(* The checker                                                             *)
(***************************************************************************)

Knows == Append(known, Present)

Checked == phase \in {"check", "rejected"} => Model(source, Knows, locals, open)

LEMMA PresentMemory == Present = Memory(locals, open)
BY DEF Present, Memory

\* A token the checker reads
LEMMA ReadGrown ==
    ASSUME Inv, Inv', Checked, phase = "check", NEW token \in Token, NEW ls, NEW blocks,
           Read(token, ls, blocks)
    PROVE  /\ Model(source, Knows, locals, open)
           /\ Grown(source, Knows, source', Knows', token, ls, blocks)
           /\ Len(Knows) = Here /\ locals' = ls /\ open' = blocks
           /\ Here \in Nat
<1>1. /\ source' = Append(source, token) /\ known' = Append(known, Present)
      /\ locals' = ls /\ open' = blocks
  BY DEF Read, Present
<1>2. ls \in Seq(Local) /\ blocks \in Seq(Block) /\ blocks # <<>>
  BY <1>1 DEF Inv, TypeOK
<1>3. Len(blocks) >= 1
  BY <1>2
<1>4. Present' = Memory(ls, blocks)
  <2>1. Present' = Memory(locals', open')
    BY DEF Present, Memory
  <2> QED BY <1>1, <2>1
<1>5. Knows' = Append(Knows, Memory(ls, blocks))
  BY <1>1, <1>4 DEF Knows
<1>6. Grown(source, Knows, source', Knows', token, ls, blocks)
  BY <1>1, <1>2, <1>3, <1>5 DEF Grown
<1>7. Len(Knows) = Here /\ Here \in Nat
  <2>1. known \in Seq(Known) /\ source \in Seq(Token) /\ DOMAIN known = DOMAIN source
    BY DEF Inv, TypeOK
  <2>2. Len(known) = Len(source) /\ Len(known) \in Nat
    BY <2>1
  <2>3. Present \in Known
    BY Remembered
  <2> QED BY <2>1, <2>2, <2>3, AppendAt DEF Knows, Here
<1> QED BY <1>1, <1>6, <1>7 DEF Checked

\* What the scope of a point the checker is at tells
LEMMA ModelScope ==
    ASSUME NEW src, NEW P, NEW ls, NEW blocks, Model(src, P, ls, blocks),
           NEW longer, NEW Q, NEW token, NEW ms, NEW cs,
           Grown(src, P, longer, Q, token, ms, cs), NEW n, n = Len(P)
    PROVE  /\ Typed(src, P) /\ Later(src, P, longer, Q) /\ Placed(src, ls, n)
           /\ n \in 1 .. Len(P) /\ longer[n] = token /\ ms \in Seq(Local)
           /\ ls \in Seq(Local)
<1>0. Sides(src, P, ls, blocks, longer, Q, token, ms, cs, n)
  BY GrownType
<1>1. Extends(src, P, longer, Q) /\ longer[n] = token /\ P[n].locals = ls
  BY <1>0 DEF Sides
<1>2. /\ Typed(src, P) /\ Later(src, P, longer, Q) /\ Placed(src, P[n].locals, n)
      /\ n \in 1 .. Len(P)
  BY <1>1, ExtendsType
<1> QED BY <1>1, <1>2 DEF Model, Grown

\* A statement that declares nothing
LEMMA ChangeChecked ==
    ASSUME Inv, Inv', Checked, NEW op \in AllOps, NEW arg \in Nat, NEW ls,
           Simple(op, arg, ls), op \in Plain, Kept(locals, ls),
           Kept(locals, ls) => StatementOK(T(op, arg), Here, locals, ls)
    PROVE  Checked'
<1>1. /\ Read(T(op, arg), ls, open) /\ T(op, arg) \in Token /\ phase = "check"
      /\ T(op, arg).op = op
  BY TokenType DEF Simple, Room, T
<1>2. /\ Model(source, Knows, locals, open)
      /\ Grown(source, Knows, source', Knows', T(op, arg), ls, open)
      /\ Len(Knows) = Here /\ locals' = ls /\ open' = open
  BY <1>1, ReadGrown
<1>3. /\ Typed(source, Knows) /\ Later(source, Knows, source', Knows')
      /\ Placed(source, locals, Here) /\ Here \in 1 .. Len(Knows)
      /\ ls \in Seq(Local) /\ locals \in Seq(Local)
  BY <1>2, ModelScope
<1>4. Placed(source', ls, Here + 1)
  BY <1>2, <1>3, PlacedKept
<1>5. Model(source', Knows', ls, open)
  BY <1>1, <1>2, <1>4, StatementModel DEF Kept
<1> QED BY <1>2, <1>5 DEF Checked

\* A declaration
LEMMA DeclareChecked ==
    ASSUME Inv, Inv', Checked, NEW op \in AllOps, NEW arg \in Nat, NEW ls, NEW ms,
           NEW ref \in BOOLEAN, NEW of \in 0 .. Len(locals), ms \in Seq(Local),
           Kept(locals, ms), ls = insert(ms, Here, ref, of),
           Simple(op, arg, ls), op \in Plain, ref <=> op \in Pointing,
           Plus(locals, ls, Here, ref, of) => StatementOK(T(op, arg), Here, locals, ls)
    PROVE  Checked'
<1>1. /\ Read(T(op, arg), ls, open) /\ T(op, arg) \in Token /\ phase = "check"
      /\ T(op, arg).op = op
  BY TokenType DEF Simple, Room, T
<1>2. /\ Model(source, Knows, locals, open)
      /\ Grown(source, Knows, source', Knows', T(op, arg), ls, open)
      /\ Len(Knows) = Here /\ locals' = ls /\ open' = open /\ Here \in Nat
  BY <1>1, ReadGrown
<1>3. /\ Typed(source, Knows) /\ Later(source, Knows, source', Knows')
      /\ Placed(source, locals, Here) /\ Here \in 1 .. Len(Knows)
      /\ ls \in Seq(Local) /\ locals \in Seq(Local) /\ source'[Here] = T(op, arg)
  BY <1>2, ModelScope
<1>4. Plus(locals, ls, Here, ref, of)
  BY <1>2, <1>3, InsertPlus
<1>5. Placed(source', ls, Here + 1)
  BY <1>1, <1>2, <1>3, <1>4, PlacedPlus
<1>6. Model(source', Knows', ls, open)
  BY <1>1, <1>2, <1>4, <1>5, StatementModel DEF Plus
<1> QED BY <1>2, <1>6 DEF Checked

LEMMA RejectChecked == ASSUME Checked, phase = "check", Reject PROVE Checked'
BY DEF Checked, Reject, Knows, Present

LEMMA PlainChecked ==
    ASSUME Inv, Inv', Checked, LetMake \/ Temporary \/ LetRefTemp
    PROVE  Checked'
<1>1. locals \in Seq(Local) /\ 0 \in 0 .. Len(locals) /\ Kept(locals, locals)
        /\ Assures(locals, locals)
  <2>1. locals \in Seq(Local)
    BY DEF Inv, TypeOK
  <2> QED BY <2>1, KeptSame
<1>2. CASE LetMake
  <2>1. Simple("make", 0, insert(locals, Here, FALSE, 0))
    BY <1>2 DEF LetMake
  <2>2. \A ls : Plus(locals, ls, Here, FALSE, 0)
                  => StatementOK(T("make", 0), Here, locals, ls)
    BY DEF StatementOK, T
  <2>3. "make" \in AllOps /\ "make" \in Plain /\ "make" \notin Pointing
    BY DEF AllOps, Plain, Pointing
  <2> QED BY <1>1, <2>1, <2>2, <2>3, DeclareChecked
<1>3. CASE Temporary
  <2>1. Simple("temp", 0, locals)
    BY <1>3 DEF Temporary
  <2>2. Kept(locals, locals) => StatementOK(T("temp", 0), Here, locals, locals)
    BY DEF StatementOK, T
  <2>3. "temp" \in AllOps /\ "temp" \in Plain
    BY DEF AllOps, Plain
  <2> QED BY <1>1, <2>1, <2>2, <2>3, ChangeChecked
<1>4. CASE LetRefTemp
  <2>1. Simple("refTemp", 0, insert(locals, Here, TRUE, 0))
    BY <1>4 DEF LetRefTemp
  <2>2. \A ls : Plus(locals, ls, Here, TRUE, 0)
                  => StatementOK(T("refTemp", 0), Here, locals, ls)
    BY DEF StatementOK, T
  <2>3. "refTemp" \in AllOps /\ "refTemp" \in Plain /\ "refTemp" \in Pointing
    BY DEF AllOps, Plain, Pointing
  <2> QED BY <1>1, <2>1, <2>2, <2>3, DeclareChecked
<1> QED BY <1>2, <1>3, <1>4

\* What may be moved is there, and nothing in scope points at it.
LEMMA FreeGives ==
    ASSUME NEW ls, Sound(ls), NEW i \in 1 .. Len(ls), ~ls[i].ref, CanMove(ls[i])
    PROVE  Gives(ls, i, ls[i].pos)
<1>1. ls \in Seq(Local) /\ ls[i].borrows = 0 /\ ~ls[i].moved
  BY DEF Sound, CanMove
<1>2. /\ ls[i].borrows >= Cardinality(Dependents(ls, i, 1))
      /\ Cardinality(Dependents(ls, i, 1)) \in Nat
      /\ IsFiniteSet(Dependents(ls, i, 1))
  BY CountedAt
<1>3. Cardinality(Dependents(ls, i, 1)) = 0
  BY <1>1, <1>2
<1>4. Dependents(ls, i, 1) = {}
  BY <1>2, <1>3, FS_EmptySet
<1>5. \A k \in 1 .. Len(ls) : ls[k].of # i
  BY <1>4 DEF Dependents
<1> QED BY <1>1, <1>5 DEF Gives

LEMMA TakeChecked == ASSUME Inv, Inv', Checked, TakeLocal PROVE Checked'
<1>1. PICK op \in Ops \cap {"move", "consume", "discard"}, i \in Owned :
        /\ Room(1)
        /\ IF ~CanMove(locals[i]) THEN Reject
           ELSE Simple(op, locals[i].pos,
                       IF op = "move" THEN insert(Moved(locals, i), Here, FALSE, 0)
                       ELSE Moved(locals, i))
  BY DEF TakeLocal
<1>2. CASE ~CanMove(locals[i])
  BY <1>1, <1>2, RejectChecked DEF Room
<1>3. CASE CanMove(locals[i])
  <2> DEFINE ms == Moved(locals, i)
             arg == locals[i].pos
  <2>1. /\ locals \in Seq(Local) /\ Sound(locals) /\ i \in DOMAIN locals
        /\ i \in 1 .. Len(locals) /\ ~locals[i].ref /\ 0 \in 0 .. Len(locals)
        /\ Here \in Nat
    <3>1. locals \in Seq(Local) /\ Sound(locals) /\ i \in DOMAIN locals /\ ~locals[i].ref
            /\ Here \in Nat
      BY OpenType DEF Inv, Owned
    <3> QED BY <3>1
  <2>2. arg \in Nat
    BY <2>1, LocalsType
  <2>3. Kept(locals, ms) /\ ms[i].moved /\ ms \in Seq(Local)
    BY <2>1, MovedKept
  <2>4. Gives(locals, i, arg)
    BY <1>3, <2>1, FreeGives
  <2>5. /\ op \in AllOps /\ op \in Plain /\ op \notin Pointing
        /\ op \in {"move", "consume", "discard"}
    BY DEF AllOps, Plain, Pointing
  <2>6. T(op, arg).op = op /\ T(op, arg).arg = arg
    BY DEF T
  <2>7. CASE op = "move"
    <3> DEFINE ls == insert(ms, Here, FALSE, 0)
    <3>1. Simple(op, arg, ls)
      BY <1>1, <1>3, <2>7
    <3>2. Plus(ms, ls, Here, FALSE, 0)
      <4>1. Kept(ms, ms) /\ Len(ms) = Len(locals)
        BY <2>3, KeptSame DEF Kept
      <4> HIDE DEF ms
      <4> QED BY <2>1, <2>3, <4>1, InsertPlus
    <3> HIDE DEF ms, arg
    <3>3. ls[i].moved
      <4>1. i \in 1 .. Len(ms)
        BY <2>1, <2>3 DEF Kept
      <4> HIDE DEF ls
      <4> QED BY <2>3, <3>2, <4>1 DEF Plus, Grows
    <3> HIDE DEF ls
    <3>4. Plus(locals, ls, Here, FALSE, 0) => StatementOK(T(op, arg), Here, locals, ls)
      BY <2>1, <2>4, <2>6, <2>7, <3>3 DEF StatementOK
    <3> QED BY <2>1, <2>2, <2>3, <2>5, <3>1, <3>4, DeclareChecked DEF ls
  <2>8. CASE op # "move"
    <3>1. Simple(op, arg, ms)
      BY <1>1, <1>3, <2>8
    <3> HIDE DEF ms, arg
    <3>2. Kept(locals, ms) => StatementOK(T(op, arg), Here, locals, ms)
      BY <2>1, <2>3, <2>4, <2>5, <2>6, <2>8 DEF StatementOK
    <3> QED BY <2>2, <2>3, <2>5, <3>1, <3>2, ChangeChecked
  <2> QED BY <2>7, <2>8
<1> QED BY <1>2, <1>3

LEMMA ReferenceChecked ==
    ASSUME Inv, Inv', Checked, LetBorrow \/ LetCopy \/ Use
    PROVE  Checked'
<1>1. /\ locals \in Seq(Local) /\ Kept(locals, locals) /\ Here \in Nat
      /\ DOMAIN locals = 1 .. Len(locals)
  <2>1. locals \in Seq(Local) /\ Here \in Nat
    BY OpenType
  <2> QED BY <2>1, KeptSame
<1>2. CASE LetBorrow
  <2>1. PICK i \in Owned :
          /\ Room(1)
          /\ IF locals[i].moved THEN Reject
             ELSE Simple("borrow", locals[i].pos, insert(Borrowed(locals, i), Here, TRUE, i))
    BY <1>2 DEF LetBorrow
  <2>2. i \in DOMAIN locals /\ i \in 1 .. Len(locals) /\ ~locals[i].ref
    BY <1>1 DEF Owned
  <2>3. locals[i].pos \in Nat /\ i \in 0 .. Len(locals)
    BY <2>2, LocalsType
  <2>4. CASE locals[i].moved
    BY <2>1, <2>4, RejectChecked DEF Room
  <2>5. CASE ~locals[i].moved
    <3>1. Kept(locals, Borrowed(locals, i)) /\ Borrowed(locals, i) \in Seq(Local)
      BY <1>1, <2>2, BorrowedKept
    <3>2. PICK arg \in Nat : arg = locals[i].pos
      BY <2>3
    <3>3. \A ls : Plus(locals, ls, Here, TRUE, i)
                    => StatementOK(T("borrow", arg), Here, locals, ls)
      BY <2>2, <2>5, <3>2 DEF StatementOK, T
    <3>4. "borrow" \in AllOps /\ "borrow" \in Plain /\ "borrow" \in Pointing
      BY DEF AllOps, Plain, Pointing
    <3>5. Simple("borrow", arg, insert(Borrowed(locals, i), Here, TRUE, i))
      BY <2>1, <2>5, <3>2
    <3> QED BY <2>3, <3>1, <3>3, <3>4, <3>5, DeclareChecked
  <2> QED BY <2>4, <2>5
<1>3. CASE LetCopy
  <2>1. PICK i \in Refs : Simple("copy", locals[i].pos, insert(locals, Here, TRUE, locals[i].of))
    BY <1>3 DEF LetCopy
  <2>2. i \in DOMAIN locals /\ i \in 1 .. Len(locals) /\ locals[i].ref
    BY <1>1 DEF Refs
  <2>3. PICK arg \in Nat, of \in 0 .. Len(locals) : arg = locals[i].pos /\ of = locals[i].of
    BY <2>2, LocalsType
  <2>4. \A ls : Plus(locals, ls, Here, TRUE, of)
                  => StatementOK(T("copy", arg), Here, locals, ls)
    BY <2>2, <2>3 DEF StatementOK, T
  <2>5. "copy" \in AllOps /\ "copy" \in Plain /\ "copy" \in Pointing
    BY DEF AllOps, Plain, Pointing
  <2>6. Simple("copy", arg, insert(locals, Here, TRUE, of))
    BY <2>1, <2>3
  <2> QED BY <1>1, <2>4, <2>5, <2>6, DeclareChecked
<1>4. CASE Use
  <2>1. PICK i \in DOMAIN locals :
          /\ Room(1)
          /\ IF locals[i].moved THEN Reject ELSE Simple("use", locals[i].pos, locals)
    BY <1>4 DEF Use
  <2>2. PICK arg \in Nat : arg = locals[i].pos
    BY LocalsType
  <2>3. CASE locals[i].moved
    BY <2>1, <2>3, RejectChecked DEF Room
  <2>4. CASE ~locals[i].moved
    <3>1. Kept(locals, locals) => StatementOK(T("use", arg), Here, locals, locals)
      BY <1>1, <2>2, <2>4 DEF StatementOK, T
    <3>2. "use" \in AllOps /\ "use" \in Plain
      BY DEF AllOps, Plain
    <3>3. Simple("use", arg, locals)
      BY <2>1, <2>2, <2>4
    <3> QED BY <1>1, <3>1, <3>2, <3>3, ChangeChecked
  <2> QED BY <2>3, <2>4
<1> QED BY <1>2, <1>3, <1>4

\* A header
LEMMA OpenChecked ==
    ASSUME Inv, Inv', Checked, NEW token \in Token, NEW ls, Open(token, ls, ls),
           token.op \in Openers, HeaderOK(token, Here, locals, ls)
    PROVE  Checked'
<1> DEFINE b == NewBlock(token.op, ls, Len(ls))
           cs == Append(open, b)
<1>1. Read(token, ls, cs) /\ phase = "check"
  BY DEF Open, Room
<1>2. /\ Model(source, Knows, locals, open)
      /\ Grown(source, Knows, source', Knows', token, ls, cs)
      /\ Len(Knows) = Here /\ locals' = ls /\ open' = cs /\ Here \in Nat
  BY <1>1, ReadGrown
<1>3. /\ Typed(source, Knows) /\ Later(source, Knows, source', Knows')
      /\ Placed(source, locals, Here) /\ Here \in 1 .. Len(Knows)
      /\ ls \in Seq(Local) /\ locals \in Seq(Local) /\ source'[Here] = token
  BY <1>2, ModelScope
<1>4. Fresh(b, token.op, Here, ls)
  BY DEF Fresh, NewBlock
<1>5. Opened(cs, open, b)
  <2>1. open \in Seq(Block)
    BY OpenType
  <2> HIDE DEF b
  <2> QED BY <2>1 DEF Opened
<1> HIDE DEF b, cs
<1>6. Grows(locals, ls) /\ Placed(source', ls, Here + 1)
  <2>1. CASE token.op = "for"
    <3>1. Plus(locals, ls, Here, FALSE, 0)
      BY <2>1 DEF HeaderOK
    <3>2. "for" \notin Pointing /\ 0 \in 0 .. Len(locals)
      BY <1>3 DEF Pointing
    <3>3. Placed(source', ls, Here + 1)
      BY <1>2, <1>3, <2>1, <3>1, <3>2, PlacedPlus
    <3> QED BY <3>1, <3>3 DEF Plus
  <2>2. CASE token.op # "for"
    <3>1. Kept(locals, ls)
      BY <2>2 DEF HeaderOK
    <3>2. Placed(source', ls, Here + 1)
      BY <1>2, <1>3, <3>1, PlacedKept
    <3> QED BY <3>1, <3>2 DEF Kept
  <2> QED BY <2>1, <2>2
<1>7. Model(source', Knows', ls, cs)
  BY <1>2, <1>4, <1>5, <1>6, OpenModel
<1> QED BY <1>2, <1>7 DEF Checked

LEMMA OpenBlockChecked == ASSUME Inv, Inv', Checked, OpenBlock PROVE Checked'
<1>1. PICK kind \in {"block", "if", "loop"} : Open(T(kind, 0), locals, locals)
  BY DEF OpenBlock
<1>2. T(kind, 0) \in Token /\ T(kind, 0).op = kind /\ T(kind, 0).cond = "flag"
  BY TokenType DEF T, AllOps
<1>3. locals \in Seq(Local)
  BY OpenType
<1>4. HeaderOK(T(kind, 0), Here, locals, locals)
  BY <1>2, <1>3, KeptSame DEF HeaderOK
<1>5. T(kind, 0).op \in Openers
  BY <1>2 DEF Openers
<1> QED BY <1>1, <1>2, <1>4, <1>5, OpenChecked

\* What the header of a `while' takes, it takes from the scope it is in.
LEMMA OpenWhileChecked == ASSUME Inv, Inv', Checked, OpenWhile PROVE Checked'
<1>1. PICK cond \in Headers, i \in Owned :
        /\ "while" \in Ops /\ Room(2)
        /\ IF cond = "take" /\ ~CanMove(locals[i]) THEN Reject
           ELSE Open([T("while", locals[i].pos) EXCEPT !.cond = cond],
                     Header(locals, cond, i), Header(locals, cond, i))
  BY DEF OpenWhile
<1>2. /\ locals \in Seq(Local) /\ Sound(locals) /\ i \in DOMAIN locals
      /\ i \in 1 .. Len(locals) /\ ~locals[i].ref
  <2>1. locals \in Seq(Local) /\ Sound(locals) /\ i \in DOMAIN locals /\ ~locals[i].ref
    BY OpenType DEF Inv, Owned
  <2> QED BY <2>1
<1>3. PICK arg \in Nat : arg = locals[i].pos
  BY <1>2, LocalsType
<1>4. PICK token : token = [T("while", arg) EXCEPT !.cond = cond]
  OBVIOUS
<1>5. /\ token \in Token /\ token.op = "while" /\ token.arg = arg /\ token.cond = cond
      /\ token.op \in Openers
  BY <1>4, HeadersAssumption DEF T, Token, AllOps, Openers
<1>6. CASE cond = "take" /\ ~CanMove(locals[i])
  BY <1>1, <1>6, RejectChecked DEF Room
<1>7. CASE cond = "take" /\ CanMove(locals[i])
  <2>1. Kept(locals, Moved(locals, i))
    BY <1>2, MovedKept
  <2>2. Gives(locals, i, arg)
    BY <1>2, <1>3, <1>7, FreeGives
  <2>3. Open(token, Moved(locals, i), Moved(locals, i))
    BY <1>1, <1>3, <1>4, <1>7 DEF Header
  <2>4. HeaderOK(token, Here, locals, Moved(locals, i))
    BY <1>2, <1>5, <1>7, <2>1, <2>2 DEF HeaderOK
  <2> QED BY <1>5, <2>3, <2>4, OpenChecked
<1>8. CASE cond # "take"
  <2>1. Open(token, locals, locals)
    BY <1>1, <1>3, <1>4, <1>8 DEF Header
  <2>2. HeaderOK(token, Here, locals, locals)
    BY <1>2, <1>5, <1>8, KeptSame DEF HeaderOK
  <2> QED BY <1>5, <2>1, <2>2, OpenChecked
<1> QED BY <1>6, <1>7, <1>8

\* A change to a scope with one more local
LEMMA PlusKept ==
    ASSUME NEW ls \in Seq(Local), NEW ms \in Seq(Local), NEW ns \in Seq(Local),
           NEW pos, NEW ref, NEW of, Plus(ls, ms, pos, ref, of), Kept(ms, ns)
    PROVE  Plus(ls, ns, pos, ref, of)
<1>1. Len(ns) = Len(ms) /\ Len(ms) = Len(ls) + 1 /\ Grows(ls, ns)
  BY GrowsTrans DEF Plus, Kept
<1>2. Len(ms) \in 1 .. Len(ms)
  BY <1>1
<1>3. Same(ms[Len(ms)], ns[Len(ms)])
  BY <1>2 DEF Kept, Grows
<1> QED BY <1>1, <1>3 DEF Plus, Same

\* The scope the condition of a `for' is lowered in
Started == insert(locals, Here, FALSE, 0)

LEMMA ForScope ==
    ASSUME Inv
    PROVE  /\ Started \in Seq(Local) /\ Len(Started) = Len(locals) + 1 /\ Len(locals) \in Nat
           /\ Plus(locals, Started, Here, FALSE, 0) /\ ~Started[Len(Started)].moved
           /\ Assures(Started, locals) /\ Started[Len(Started)].pos = Here
           /\ \A i \in 1 .. Len(locals) : Started[i] = locals[i]
<1>1. locals \in Seq(Local) /\ Here \in Nat /\ Kept(locals, locals) /\ 0 \in 0 .. Len(locals)
  BY OpenType, KeptSame
<1>2. /\ Started \in Seq(Local) /\ Plus(locals, Started, Here, FALSE, 0)
      /\ Assures(Started, locals) /\ ~Started[Len(locals) + 1].moved
  BY <1>1, InsertPlus DEF Started
<1>3. \A i \in 1 .. Len(locals) : Started[i] = locals[i]
  BY <1>1 DEF insert, Started
<1>4. Len(Started) = Len(locals) + 1 /\ Started[Len(Started)].pos = Here /\ Len(locals) \in Nat
  BY <1>1, <1>2 DEF Plus
<1> QED BY <1>2, <1>3, <1>4

\* A `for' takes what it declares itself, or what is in scope.
LEMMA OpenForChecked == ASSUME Inv, Inv', Checked, OpenFor PROVE Checked'
<1>1. PICK ls : ls = Started
  OBVIOUS
<1>2. PICK cond \in Headers, step \in Headers, i \in Owned \cup {Len(ls)} :
        /\ "for" \in Ops /\ Room(2)
        /\ IF cond = "take" /\ ~CanMove(ls[i]) THEN Reject
           ELSE Open([T("for", ls[i].pos) EXCEPT !.cond = cond, !.step = step],
                     Header(ls, cond, i), Header(ls, cond, i))
  BY <1>1 DEF OpenFor, Started
<1>3. /\ ls \in Seq(Local) /\ Len(ls) = Len(locals) + 1 /\ Len(locals) \in Nat
      /\ Plus(locals, ls, Here, FALSE, 0) /\ ~ls[Len(ls)].moved /\ Assures(ls, locals)
      /\ ls[Len(ls)].pos = Here /\ \A k \in 1 .. Len(locals) : ls[k] = locals[k]
  BY <1>1, ForScope
<1>4. locals \in Seq(Local) /\ Sound(locals) /\ Here \in Nat
  BY OpenType DEF Inv
<1>5. i = Len(ls) \/ (i \in 1 .. Len(locals) /\ ~locals[i].ref)
  BY <1>2, <1>4 DEF Owned
<1>6. i \in 1 .. Len(ls) /\ i \in DOMAIN ls
  BY <1>3, <1>5
<1>7. PICK arg \in Nat : arg = ls[i].pos
  BY <1>3, <1>6, PlacedType
<1>8. PICK token : token = [T("for", arg) EXCEPT !.cond = cond, !.step = step]
  OBVIOUS
<1>9. /\ token \in Token /\ token.op = "for" /\ token.arg = arg /\ token.cond = cond
      /\ token.op \in Openers
  BY <1>8, HeadersAssumption DEF T, Token, AllOps, Openers
<1>10. CASE cond = "take" /\ ~CanMove(ls[i])
  BY <1>2, <1>10, RejectChecked DEF Room
<1>11. CASE cond = "take" /\ CanMove(ls[i])
  <2>1. PICK ms : ms = Moved(ls, i)
    OBVIOUS
  <2>2. Kept(ls, ms) /\ ms \in Seq(Local)
    BY <1>3, <1>6, <2>1, MovedKept
  <2>3. Plus(locals, ms, Here, FALSE, 0)
    BY <1>3, <1>4, <2>2, PlusKept
  <2>4. arg = Here \/ (i \in 1 .. Len(locals) /\ Gives(locals, i, arg))
    <3>1. CASE i = Len(ls)
      BY <1>3, <1>7, <3>1
    <3>2. CASE i \in 1 .. Len(locals) /\ ~locals[i].ref
      <4>1. ls[i] = locals[i]
        BY <1>3, <3>2
      <4>2. Gives(locals, i, locals[i].pos)
        BY <1>4, <1>11, <3>2, <4>1, FreeGives
      <4> QED BY <1>7, <3>2, <4>1, <4>2
    <3> QED BY <1>5, <3>1, <3>2
  <2>5. Open(token, ms, ms)
    BY <1>2, <1>7, <1>8, <1>11, <2>1 DEF Header
  <2>6. HeaderOK(token, Here, locals, ms)
    BY <1>9, <1>11, <2>3, <2>4 DEF HeaderOK
  <2> QED BY <1>9, <2>5, <2>6, OpenChecked
<1>12. CASE cond # "take"
  <2>1. Open(token, ls, ls)
    BY <1>2, <1>7, <1>8, <1>12 DEF Header
  <2>2. HeaderOK(token, Here, locals, ls)
    BY <1>3, <1>9, <1>12 DEF HeaderOK
  <2> QED BY <1>9, <2>1, <2>2, OpenChecked
<1> QED BY <1>10, <1>11, <1>12

\* What the blocks are when the innermost one is left by a jump
LEMMA DivergesDiverged ==
    ASSUME NEW blocks \in Seq(Block), Len(blocks) \in Nat \ {0}
    PROVE  Diverged(Diverges(blocks), blocks)
BY SMTT(30) DEF Diverged, SameBlock, Diverges, Block

\* A jump
LEMMA JumpChecked ==
    ASSUME Inv, Inv', Checked, NEW op \in {"break", "continue", "return"}, NEW arg \in Nat,
           NEW blocks, Read(T(op, arg), locals, blocks), phase = "check", Diverged(blocks, open),
           op # "return" => \E k \in 2 .. Len(open) :
              open[k].at = arg /\ open[k].kind \in Looping /\ (op = "break" => blocks[k].breaks)
    PROVE  Checked'
<1>1. T(op, arg) \in Token /\ T(op, arg).op = op /\ T(op, arg).arg = arg
  <2>1. op \in AllOps
    BY DEF AllOps
  <2> QED BY <2>1, TokenType DEF T
<1>2. /\ Model(source, Knows, locals, open)
      /\ Grown(source, Knows, source', Knows', T(op, arg), locals, blocks)
      /\ Len(Knows) = Here /\ locals' = locals /\ open' = blocks
  BY <1>1, ReadGrown
<1>3. T(op, arg).op # "return" =>
        \E k \in 2 .. Len(open) : JumpsTo(T(op, arg), open, blocks, k)
  BY <1>1 DEF JumpsTo
<1>4. Model(source', Knows', locals, blocks)
  BY <1>1, <1>2, <1>3, JumpModel
<1> QED BY <1>2, <1>4 DEF Checked

LEMMA JumpsChecked == ASSUME Inv, Inv', Checked, Return \/ Break \/ Continue PROVE Checked'
<1>1. /\ open \in Seq(Block) /\ Len(open) \in Nat \ {0} /\ DOMAIN open = 1 .. Len(open)
      /\ open[1].kind = "fn"
  <2>1. open[1].kind = "fn"
    BY DEF Inv, Nested
  <2> QED BY <2>1, OpenType
<1>2. Diverged(Diverges(open), open)
  BY <1>1, DivergesDiverged
<1>3. CASE Return
  <2>1. Read(T("return", 0), locals, Diverges(open)) /\ phase = "check"
    BY <1>3 DEF Return, Room
  <2> QED BY <1>2, <2>1, JumpChecked
<1>4. ASSUME Break \/ Continue
      PROVE  /\ InnerLoop \in 2 .. Len(open) /\ open[InnerLoop].kind \in Looping
             /\ open[InnerLoop].at \in Nat /\ open[InnerLoop] \in Block
             /\ InnerLoop \in 1 .. Len(open)
  <2>1. InnerLoop \in 1 .. Len(open) /\ InnerLoop \in Loops
    BY <1>4, InnerLoopIn DEF Break, Continue
  <2>2. open[InnerLoop].kind \in {"loop", "while", "for"}
    BY <2>1 DEF Loops
  <2>3. InnerLoop # 1
    BY <1>1, <2>2
  <2>4. open[InnerLoop].at \in Nat /\ open[InnerLoop] \in Block
    BY <2>1, BlockAt
  <2> QED BY <1>1, <2>1, <2>2, <2>3, <2>4 DEF Looping
<1>5. CASE Continue
  <2>1. Read(T("continue", open[InnerLoop].at), locals, Diverges(open)) /\ phase = "check"
    BY <1>5 DEF Continue, Room
  <2>2. PICK k \in 2 .. Len(open) : k = InnerLoop
    BY <1>4, <1>5
  <2>3. PICK arg \in Nat : arg = open[k].at
    BY <1>4, <1>5, <2>2
  <2>4. Read(T("continue", arg), locals, Diverges(open)) /\ open[k].kind \in Looping
    BY <1>4, <1>5, <2>1, <2>2, <2>3
  <2> QED BY <1>2, <2>1, <2>3, <2>4, JumpChecked
<1>6. CASE Break
  <2>1. PICK k \in 2 .. Len(open) : k = InnerLoop
    BY <1>4, <1>6
  <2>2. PICK arg \in Nat : arg = open[k].at
    BY <1>4, <1>6, <2>1
  <2> DEFINE left == [open[k] EXCEPT !.breaks = TRUE]
             blocks == [open EXCEPT ![k] = left]
  <2>3. k \in 1 .. Len(open) /\ open[k] \in Block /\ open[k].kind \in Looping /\ phase = "check"
    BY <1>4, <1>6, <2>1 DEF Break, Room
  <2>4. left \in Block /\ SameBlock(left, open[k]) /\ left.breaks /\ left.falls = open[k].falls
    BY <2>3 DEF Block, SameBlock
  <2>5. Read(T("break", arg), locals, Diverges(blocks))
    BY <1>6, <2>1, <2>2 DEF Break
  <2> HIDE DEF left
  <2>6. /\ blocks \in Seq(Block) /\ Len(blocks) = Len(open)
        /\ \A j \in 1 .. Len(open) : blocks[j] = IF j = k THEN left ELSE open[j]
    BY <1>1, <2>3, <2>4, ExceptSeq
  <2> HIDE DEF blocks
  <2>7. Diverged(Diverges(blocks), blocks)
    BY <1>1, <2>6, DivergesDiverged
  <2> DEFINE cs == Diverges(blocks)
  <2> HIDE DEF cs
  <2>8. cs[k].breaks
    <3>1. SameBlock(cs[k], blocks[k]) /\ blocks[k] = left
      BY <2>3, <2>6, <2>7 DEF Diverged, cs
    <3> QED BY <2>4, <3>1 DEF SameBlock
  <2>9. Diverged(cs, open)
    <3>1. \A j \in 1 .. Len(open) : SameBlock(blocks[j], open[j]) /\ blocks[j].falls = open[j].falls
      <4> TAKE j \in 1 .. Len(open)
      <4>1. CASE j = k
        BY <2>4, <2>6, <4>1
      <4>2. CASE j # k
        BY <2>6, <4>2 DEF SameBlock
      <4> QED BY <4>1, <4>2
    <3>2. \A j \in 1 .. Len(open) : SameBlock(cs[j], open[j])
      BY <2>6, <2>7, <3>1 DEF Diverged, SameBlock, cs
    <3>3. \A j \in 1 .. Len(open) - 1 : cs[j].falls <=> open[j].falls
      BY <1>1, <2>6, <2>7, <3>1 DEF Diverged, cs
    <3> QED BY <2>6, <2>7, <3>2, <3>3 DEF Diverged, cs
  <2>10. Read(T("break", arg), locals, cs)
    BY <2>5 DEF cs
  <2> QED BY <2>2, <2>3, <2>8, <2>9, <2>10, JumpChecked
<1> QED BY <1>3, <1>5, <1>6

LEMMA ElseChecked == ASSUME Inv, Inv', Checked, Else PROVE Checked'
<1>1. /\ open \in Seq(Block) /\ Len(open) \in Nat \ {0} /\ DOMAIN open = 1 .. Len(open)
      /\ open[1].kind = "fn" /\ Innermost \in Block
  <2>1. open[1].kind = "fn"
    BY DEF Inv, Nested
  <2> QED BY <2>1, OpenType
<1>2. Innermost.kind = "if" /\ Len(open) > 1 /\ phase = "check"
  BY <1>1 DEF Else, Innermost
<1>3. PICK d, b : d = Len(open) /\ b = Innermost
  OBVIOUS
<1> DEFINE c == [b EXCEPT !.kind = "else", !.falls = TRUE, !.branch = Popped,
                          !.branchFalls = b.falls]
           cs == [open EXCEPT ![d] = c]
           token == T("else", b.at)
<1>4. Read(token, b.saved, cs)
  BY <1>3 DEF Else, Innermost
<1>5. d \in 1 .. Len(open) /\ d > 1 /\ b = open[d] /\ b \in Block /\ b.kind = "if" /\ b.at \in Nat
  BY <1>1, <1>2, <1>3 DEF Innermost, Block
<1>6. /\ c.kind = "else" /\ c.at = b.at /\ c.base = b.base /\ c.saved = b.saved
      /\ c.falls /\ c.breaks = b.breaks /\ c.branch = pop(locals, b.base)
      /\ c.branchFalls = b.falls
  BY <1>3, <1>5 DEF Block, Popped
<1> HIDE DEF c
<1>7. /\ Len(cs) = Len(open) /\ cs[d] = c
      /\ \A k \in 1 .. d - 1 : cs[k] = open[k]
  BY <1>1, <1>5
<1> HIDE DEF cs
<1>8. Turned(cs, open, d, b, c, locals)
  <2>1. Len(cs) = d
    BY <1>3, <1>7
  <2> QED BY <1>3, <1>5, <1>6, <1>7, <2>1 DEF Turned
<1>9. token \in Token /\ token.op = "else" /\ token.arg = b.at
  BY <1>5, TokenType DEF T, AllOps
<1> HIDE DEF token
<1>10. /\ Model(source, Knows, locals, open)
       /\ Grown(source, Knows, source', Knows', token, b.saved, cs)
       /\ Len(Knows) = Here /\ locals' = b.saved /\ open' = cs
  BY <1>2, <1>4, <1>9, ReadGrown
<1>11. Model(source', Knows', b.saved, cs)
  BY <1>8, <1>9, <1>10, ElseModel
<1> QED BY <1>10, <1>11 DEF Checked

\* The innermost block ends.
LEMMA CloseChecked ==
    ASSUME Inv, Inv', Checked, phase = "check", NEW ls, NEW out \in BOOLEAN, Close(ls, out),
           Innermost.kind # "fn", Lands(Innermost, locals, ls, out),
           Kept(Knows[Innermost.at].locals, ls), StepGives(source, Knows, Innermost.at)
    PROVE  Checked'
<1>1. /\ open \in Seq(Block) /\ Len(open) \in Nat \ {0} /\ DOMAIN open = 1 .. Len(open)
      /\ open[1].kind = "fn" /\ Innermost \in Block
  <2>1. open[1].kind = "fn"
    BY DEF Inv, Nested
  <2> QED BY <2>1, OpenType
<1>2. Len(open) > 1
  BY <1>1 DEF Innermost
<1>3. PICK d, b : d = Len(open) /\ b = Innermost
  OBVIOUS
<1> DEFINE outer(k) == [open[k] EXCEPT !.falls = @ /\ (out \/ k < d - 1)]
           cs == [k \in 1 .. d - 1 |-> outer(k)]
           token == T("end", b.at)
<1>4. Read(token, ls, cs)
  BY <1>3 DEF Close
<1>5. d \in Nat /\ d > 1 /\ open[d] = b /\ b.at \in Nat
  BY <1>1, <1>2, <1>3 DEF Innermost, Block
<1>6. \A k \in 1 .. d - 1 : /\ SameBlock(outer(k), open[k])
                            /\ outer(k).falls <=> (open[k].falls /\ (out \/ k < d - 1))
  <2> TAKE k \in 1 .. d - 1
  <2>1. open[k] \in Block
    BY <1>1, <1>3, <1>5
  <2> QED BY <2>1 DEF Block, SameBlock
<1> HIDE DEF outer
<1>7. Len(cs) = d - 1 /\ \A k \in 1 .. d - 1 : cs[k] = outer(k)
  BY <1>5
<1> HIDE DEF cs
<1>8. Ended(cs, open, d, b, out)
  <2>1. \A k \in 1 .. d - 1 : SameBlock(cs[k], open[k])
    BY <1>6, <1>7
  <2>2. \A k \in 1 .. d - 2 : k \in 1 .. d - 1 /\ k < d - 1
    BY <1>5
  <2>3. \A k \in 1 .. d - 2 : cs[k].falls <=> open[k].falls
    BY <1>6, <1>7, <2>2
  <2>4. d - 1 \in 1 .. d - 1 /\ ~(d - 1 < d - 1)
    BY <1>5
  <2>5. cs[d - 1].falls <=> open[d - 1].falls /\ out
    BY <1>6, <1>7, <2>4
  <2> QED BY <1>3, <1>5, <1>7, <2>1, <2>3, <2>5 DEF Ended
<1>9. token \in Token /\ token.op = "end" /\ token.arg = b.at
  BY <1>5, TokenType DEF T, AllOps
<1> HIDE DEF token
<1>10. /\ Model(source, Knows, locals, open)
       /\ Grown(source, Knows, source', Knows', token, ls, cs)
       /\ Len(Knows) = Here /\ locals' = ls /\ open' = cs
  BY <1>4, <1>9, ReadGrown
<1>11. /\ Lands(b, locals, ls, out) /\ Kept(Knows[b.at].locals, ls)
       /\ StepGives(source, Knows, b.at)
  BY <1>3
<1>12. Model(source', Knows', ls, cs)
  BY <1>8, <1>9, <1>10, <1>11, EndModel
<1> QED BY <1>10, <1>12 DEF Checked

\* What is left of a scope after the block that went on from hs
LEMMA PopGrows ==
    ASSUME NEW hs \in Seq(Local), NEW ls \in Seq(Local), Grows(hs, ls)
    PROVE  /\ Len(hs) \in 0 .. Len(ls) /\ Kept(hs, pop(ls, Len(hs)))
           /\ Assures(ls, pop(ls, Len(hs)))
<1>1. Len(hs) \in 0 .. Len(ls)
  BY DEF Grows
<1>2. Len(pop(ls, Len(hs))) = Len(hs)
  BY <1>1, PopAssures
<1>3. \A k \in 1 .. Len(hs) : /\ Same(hs[k], pop(ls, Len(hs))[k])
                              /\ hs[k].moved => pop(ls, Len(hs))[k].moved
  <2> TAKE k \in 1 .. Len(hs)
  <2>1. ls[k] \in Local /\ Same(hs[k], ls[k]) /\ (hs[k].moved => ls[k].moved)
    BY <1>1 DEF Grows
  <2> QED BY <2>1 DEF pop, Same, Local
<1> QED BY <1>1, <1>2, <1>3, PopAssures DEF Kept, Grows

LEMMA KeptTrans ==
    ASSUME NEW ls \in Seq(Local), NEW ms \in Seq(Local), NEW ns \in Seq(Local),
           Kept(ls, ms), Kept(ms, ns)
    PROVE  Kept(ls, ns) /\ Assures(ls, ms)
BY GrowsTrans DEF Kept, Grows, Assures

\* Two sides of a join, of the same scope
LEMMA JoinedKept ==
    ASSUME NEW hs \in Seq(Local), NEW ls, Sound(ls), NEW ms, Sound(ms),
           Kept(hs, ls), Kept(hs, ms), NEW falls \in BOOLEAN
    PROVE  /\ Sound(Joined(ls, ms, falls)) /\ Kept(hs, Joined(ls, ms, falls))
           /\ Assures(ls, Joined(ls, ms, falls))
           /\ falls => Assures(ms, Joined(ls, ms, falls))
<1>1. /\ ls \in Seq(Local) /\ ms \in Seq(Local) /\ Len(ls) = Len(ms)
      /\ \A i \in 1 .. Len(ls) : Same(ls[i], ms[i])
  BY DEF Sound, Kept, Grows, Same
<1>2. Sound(Joined(ls, ms, falls))
  BY <1>1, JoinedSound
<1>3. CASE falls
  <2>1. Kept(ls, merge_from(ls, ms)) /\ Assures(ms, merge_from(ls, ms))
    BY <1>1, MergeKept
  <2>2. Joined(ls, ms, falls) = merge_from(ls, ms) /\ merge_from(ls, ms) \in Seq(Local)
    BY <1>1, <1>3, MergeKept DEF Joined
  <2> HIDE DEF Joined
  <2>3. Kept(ls, Joined(ls, ms, falls)) /\ Assures(ms, Joined(ls, ms, falls))
    BY <2>1, <2>2
  <2>4. Kept(hs, Joined(ls, ms, falls))
    BY <1>1, <2>2, <2>3, KeptTrans
  <2>5. Assures(ls, Joined(ls, ms, falls))
    BY <2>3 DEF Kept, Grows, Assures
  <2> QED BY <1>2, <2>3, <2>4, <2>5
<1>4. CASE ~falls
  <2>1. Joined(ls, ms, falls) = ls
    BY <1>4 DEF Joined
  <2> QED BY <1>1, <1>2, <1>4, <2>1, KeptSame
<1> QED BY <1>3, <1>4

\* The block that ends, and what its header found
Ends(P, b, q, hs) == b = Innermost /\ q = b.at /\ hs = P[q].locals

LEMMA Ending ==
    ASSUME Inv, Checked, phase = "check", Innermost.kind # "fn",
           NEW b, NEW q, NEW hs, Ends(Knows, b, q, hs)
    PROVE  /\ hs \in Seq(Local) /\ Grows(b.saved, locals) /\ Len(b.saved) = b.base
           /\ b.saved \in Seq(Local) /\ Placed(source, hs, q)
           /\ b.kind # "for" => Kept(hs, b.saved)
           /\ b.kind = "for" => Plus(hs, b.saved, q, FALSE, 0)
           /\ b.kind = "else" => Kept(b.saved, b.branch)
           /\ source[q].op = IF b.kind = "else" THEN "if" ELSE b.kind
<1>1. Model(source, Knows, locals, open)
  BY DEF Checked
<1>2. PICK n, k : n = Len(Knows) /\ k = Len(open)
  OBVIOUS
<1>3. /\ open \in Seq(Block) /\ Len(open) \in Nat \ {0} /\ open[1].kind = "fn"
      /\ Innermost \in Block /\ locals \in Seq(Local)
  <2>1. open[1].kind = "fn"
    BY DEF Inv, Nested
  <2> QED BY <2>1, OpenType
<1>4. HeadOf(open, k, q) /\ open[k] = b /\ b \in Block
  BY <1>2, <1>3 DEF HeadOf, Ends, Innermost
<1>5. /\ q \in 1 .. n - 1 /\ q \in 1 .. Len(Knows) /\ q + 1 \in 1 .. Len(Knows)
      /\ source[q].op \in Openers /\ Grows(Knows[q + 1].locals, Knows[n].locals)
      /\ BlockOK(source, Knows, open[k], q)
  BY <1>1, <1>2, <1>4, HeadAt
<1>6. Typed(source, Knows) /\ Shaped(source, Knows) /\ Knows[n].locals = locals
  <2>1. Knows[n] = Memory(locals, open)
    BY <1>1, <1>2 DEF Model
  <2>2. Knows[n].locals = locals
    BY <2>1 DEF Memory
  <2> QED BY <1>1, <2>2 DEF Model
<1>7. BlockOK(source, Knows, b, q)
  BY <1>4, <1>5
<1>8. /\ source[q].op = IF b.kind = "else" THEN "if" ELSE b.kind
      /\ b.base = Len(Knows[q + 1].locals) /\ b.saved = Knows[q + 1].locals
  BY <1>7 DEF BlockOK
<1>9. Knows[q].locals \in Seq(Local) /\ Knows[q + 1].locals \in Seq(Local)
  BY <1>5, <1>6, PointType
<1>10. HeaderOK(source[q], q, Knows[q].locals, Knows[q + 1].locals)
        /\ Placed(source, Knows[q].locals, q)
  <2>1. q \in 1 .. Len(Knows) - 1
    BY <1>2, <1>5
  <2> QED BY <1>5, <1>6, <2>1 DEF Shaped, TokenOK, PointOK
<1>11. hs = Knows[q].locals
  BY DEF Ends
<1>12. hs \in Seq(Local) /\ b.saved \in Seq(Local) /\ Placed(source, hs, q)
         /\ HeaderOK(source[q], q, hs, b.saved)
  BY <1>8, <1>9, <1>10, <1>11
<1>13. Grows(b.saved, locals) /\ Len(b.saved) = b.base
  BY <1>5, <1>6, <1>8
<1>14. /\ b.kind # "for" => Kept(hs, b.saved)
       /\ b.kind = "for" => Plus(hs, b.saved, q, FALSE, 0)
  BY <1>8, <1>12 DEF HeaderOK
<1>15. ASSUME b.kind = "else" PROVE Kept(b.saved, b.branch)
  <2>1. PICK e \in 1 .. Len(source) :
          Turns(source, e, q) /\ b.branch = pop(Knows[e].locals, b.base)
    BY <1>7, <1>15 DEF BlockOK
  <2>2. e \in 1 .. Len(Knows) - 1
    BY <1>1 DEF Model
  <2>3. Grows(Knows[q + 1].locals, Knows[e].locals) /\ e \in 1 .. Len(Knows)
    BY <1>6, <2>1, <2>2, ArgsBefore
  <2>4. Knows[e].locals \in Seq(Local)
    BY <1>6, <2>3, PointType
  <2>5. PICK es \in Seq(Local) : es = Knows[e].locals
    BY <2>4
  <2>6. Grows(b.saved, es) /\ b.branch = pop(es, Len(b.saved))
    BY <1>8, <2>1, <2>3, <2>5
  <2> QED BY <1>12, <2>6, PopGrows
<1> QED BY <1>8, <1>12, <1>13, <1>14, <1>15

\* What is left when the innermost block ends
LEMMA PoppedKept ==
    ASSUME Inv, Checked, phase = "check", Innermost.kind # "fn",
           NEW b, NEW q, NEW hs, Ends(Knows, b, q, hs)
    PROVE  /\ Kept(b.saved, Popped) /\ Sound(Popped) /\ Popped \in Seq(Local)
           /\ Assures(locals, Popped) /\ Sound(b.saved)
           /\ b.kind # "for" => Kept(hs, Popped)
<1>1. /\ hs \in Seq(Local) /\ Grows(b.saved, locals) /\ Len(b.saved) = b.base
      /\ b.saved \in Seq(Local) /\ (b.kind # "for" => Kept(hs, b.saved))
  BY Ending
<1>2. locals \in Seq(Local) /\ Sound(Popped) /\ Fits(Innermost)
  BY OpenType, PoppedSound
<1>3. b = Innermost
  BY DEF Ends
<1>4. Popped = pop(locals, Len(b.saved))
  BY <1>1, <1>3 DEF Popped
<1>5. Kept(b.saved, Popped) /\ Assures(locals, Popped)
  BY <1>1, <1>2, <1>4, PopGrows
<1>6. Popped \in Seq(Local)
  BY <1>2 DEF Sound
<1>7. Sound(b.saved)
  BY <1>2, <1>3 DEF Fits
<1>8. b.kind # "for" => Kept(hs, Popped)
  BY <1>1, <1>5, <1>6, KeptTrans
<1> QED BY <1>2, <1>5, <1>6, <1>7, <1>8

LEMMA PlainEndChecked ==
    ASSUME Inv, Inv', Checked, phase = "check", EndBlock \/ EndLoop \/ EndWhile
    PROVE  Checked'
<1>1. PICK b, q, hs : Ends(Knows, b, q, hs)
  BY DEF Ends
<1>2. PICK out \in BOOLEAN :
        /\ Close(Popped, out) /\ b.kind \in {"block", "loop", "while"}
        /\ b.kind = "block" => out = b.falls
        /\ b.kind = "loop" => out = b.breaks
        /\ b.kind = "while" => out
  <2>1. b = Innermost /\ Innermost \in Block
    BY <1>1, OpenType DEF Ends
  <2>2. b.falls \in BOOLEAN /\ b.breaks \in BOOLEAN
    BY <2>1 DEF Block
  <2> QED BY <2>1, <2>2 DEF EndBlock, EndLoop, EndWhile
<1>3. b = Innermost /\ Innermost.kind # "fn" /\ b.kind # "for"
  BY <1>1, <1>2 DEF Ends
<1>4. Assures(locals, Popped) /\ Kept(hs, Popped)
  BY <1>1, <1>3, PoppedKept
<1>5. Lands(Innermost, locals, Popped, out)
  BY <1>2, <1>3, <1>4 DEF Lands
<1>6. Kept(Knows[Innermost.at].locals, Popped)
  BY <1>1, <1>3, <1>4 DEF Ends
<1>7. source[q].op = b.kind
  BY <1>1, <1>2, <1>3, Ending
<1>8. StepGives(source, Knows, Innermost.at)
  BY <1>1, <1>3, <1>7 DEF StepGives, Ends
<1> QED BY <1>2, <1>3, <1>5, <1>6, <1>8, CloseChecked

LEMMA EndIfChecked ==
    ASSUME Inv, Inv', Checked, phase = "check", EndIf \/ EndElse
    PROVE  Checked'
<1>1. PICK b, q, hs : Ends(Knows, b, q, hs)
  BY DEF Ends
<1>2. /\ b = Innermost /\ b.kind \in {"if", "else"} /\ Innermost.kind # "fn"
      /\ b.falls \in BOOLEAN /\ b.branchFalls \in BOOLEAN
  <2>1. b = Innermost /\ Innermost \in Block
    BY <1>1, OpenType DEF Ends
  <2> QED BY <2>1 DEF EndIf, EndElse, Block
<1>3. /\ Kept(b.saved, Popped) /\ Sound(Popped) /\ Popped \in Seq(Local)
      /\ Assures(locals, Popped) /\ Sound(b.saved)
  BY <1>1, <1>2, PoppedKept
<1>4. /\ hs \in Seq(Local) /\ b.saved \in Seq(Local) /\ Kept(hs, b.saved)
      /\ b.kind = "else" => Kept(b.saved, b.branch)
      /\ source[q].op = "if" /\ locals \in Seq(Local)
  BY <1>1, <1>2, Ending, OpenType
<1>5. ASSUME NEW ls \in Seq(Local), NEW out \in BOOLEAN, Close(ls, out), Kept(b.saved, ls),
             Lands(b, locals, ls, out)
      PROVE  Checked'
  <2>1. Kept(hs, ls)
    BY <1>4, <1>5, KeptTrans
  <2>2. Kept(Knows[Innermost.at].locals, ls) /\ Lands(Innermost, locals, ls, out)
    BY <1>1, <1>2, <1>5, <2>1 DEF Ends
  <2>3. StepGives(source, Knows, Innermost.at)
    BY <1>1, <1>2, <1>4 DEF StepGives, Ends
  <2> QED BY <1>2, <1>5, <2>2, <2>3, CloseChecked
<1>6. CASE EndIf
  <2>1. b.kind = "if" /\ Close(Joined(b.saved, Popped, b.falls), TRUE)
    BY <1>2, <1>6 DEF EndIf
  <2>2. PICK ls : ls = Joined(b.saved, Popped, b.falls)
    OBVIOUS
  <2>3. Kept(b.saved, b.saved)
    BY <1>4, KeptSame
  <2>4. Sound(ls) /\ Kept(b.saved, ls) /\ (b.falls => Assures(Popped, ls))
    BY <1>2, <1>3, <1>4, <2>2, <2>3, JoinedKept
  <2>5. ls \in Seq(Local)
    BY <2>4 DEF Sound
  <2>6. b.falls => Assures(locals, ls)
    BY <1>3, <1>4, <2>4, <2>5, AssuresTrans
  <2>7. Lands(b, locals, ls, TRUE)
    BY <2>1, <2>6 DEF Lands
  <2> QED BY <1>5, <2>1, <2>2, <2>4, <2>5, <2>7
<1>7. CASE EndElse
  <2>0. PICK out \in BOOLEAN : out = (b.branchFalls \/ b.falls)
    BY <1>2
  <2>1. PICK js, ls : /\ js = Joined(b.saved, b.branch, b.branchFalls)
                      /\ ls = Joined(js, Popped, b.falls)
    OBVIOUS
  <2>2. b.kind = "else" /\ Close(ls, out)
    BY <1>2, <1>7, <2>0, <2>1 DEF EndElse
  <2>3. Kept(b.saved, b.saved) /\ Kept(b.saved, b.branch) /\ Sound(b.branch)
    <3>1. Fits(Innermost)
      BY OpenType
    <3> QED BY <1>2, <1>4, <2>2, <3>1, KeptSame DEF Fits
  <2>4. Sound(js) /\ Kept(b.saved, js) /\ (b.branchFalls => Assures(b.branch, js))
    BY <1>2, <1>3, <1>4, <2>1, <2>3, JoinedKept
  <2>5. /\ Sound(ls) /\ Kept(b.saved, ls) /\ Assures(js, ls)
        /\ b.falls => Assures(Popped, ls)
    BY <1>2, <1>3, <1>4, <2>1, <2>4, JoinedKept
  <2>6. ls \in Seq(Local) /\ js \in Seq(Local) /\ b.branch \in Seq(Local)
    BY <2>3, <2>4, <2>5 DEF Sound
  <2>7. b.falls => Assures(locals, ls)
    BY <1>3, <1>4, <2>5, <2>6, AssuresTrans
  <2>8. b.branchFalls => Assures(b.branch, ls)
    BY <2>4, <2>5, <2>6, AssuresTrans
  <2>9. Lands(b, locals, ls, out)
    BY <2>0, <2>2, <2>7, <2>8 DEF Lands
  <2> QED BY <1>5, <2>2, <2>5, <2>6, <2>9
<1> QED BY <1>6, <1>7

\* The step of a `for' is checked after the body: what it takes is lent to no
\* reference the header found.
LEMMA StepIsFree ==
    ASSUME NEW hs \in Seq(Local), NEW ls, Sound(ls), Grows(hs, ls), NEW src, NEW q \in Nat,
           Placed(src, ls, q), NEW arg, \A i \in 1 .. Len(ls) : ls[i].pos = arg => CanMove(ls[i]),
           NEW k \in 1 .. Len(hs), hs[k].of # 0
    PROVE  hs[hs[k].of].pos # arg
<1>1. ls \in Seq(Local) /\ k \in 1 .. Len(ls) /\ Same(hs[k], ls[k]) /\ hs[k].of \in Nat
        /\ k \in Nat /\ Len(hs) \in Nat /\ k <= Len(hs)
  BY PlacedType DEF Sound, Grows
<1>2. PICK o \in Nat : o = hs[k].of
  BY <1>1
<1>3. ls[k].of = o /\ o < k
  BY <1>1, <1>2 DEF Same, Placed
<1>4. o \in 1 .. Len(hs) /\ o \in 1 .. Len(ls)
  BY <1>1, <1>2, <1>3
<1>5. ls[o].pos = hs[o].pos
  BY <1>4 DEF Grows, Same
<1>6. SUFFICES ASSUME ls[o].pos = arg PROVE FALSE
  BY <1>2, <1>5
<1>7. CanMove(ls[o])
  BY <1>4, <1>6
<1>8. /\ ls[o].borrows >= Cardinality(Dependents(ls, o, 1))
      /\ Cardinality(Dependents(ls, o, 1)) \in Nat
      /\ IsFiniteSet(Dependents(ls, o, 1))
  BY <1>4, CountedAt
<1>9. Cardinality(Dependents(ls, o, 1)) = 0
  BY <1>7, <1>8 DEF CanMove
<1>10. Dependents(ls, o, 1) = {}
  BY <1>8, <1>9, FS_EmptySet
<1> QED BY <1>1, <1>3, <1>10 DEF Dependents

LEMMA PlacedPart ==
    ASSUME NEW src, NEW ls \in Seq(Local), NEW ms \in Seq(Local), NEW p,
           Placed(src, ls, p), Assures(ls, ms)
    PROVE  Placed(src, ms, p)
<1>1. \A k \in 1 .. Len(ms) : /\ k \in 1 .. Len(ls) /\ Same(ls[k], ms[k])
                              /\ 1 .. k - 1 \subseteq 1 .. Len(ms)
  BY DEF Assures
<1> QED BY <1>1 DEF Placed, Same

\* Every local has a place of its own.
LEMMA PlacesDiffer ==
    ASSUME NEW src, NEW ls \in Seq(Local), NEW p, Placed(src, ls, p),
           NEW i \in 1 .. Len(ls), NEW j \in 1 .. Len(ls), ls[i].pos = ls[j].pos
    PROVE  i = j
<1>1. ls[i].pos \in Nat /\ ls[j].pos \in Nat
  BY PlacedType
<1>2. i < j => ls[i].pos < ls[j].pos
  BY DEF Placed
<1>3. j < i => ls[j].pos < ls[i].pos
  BY DEF Placed
<1> QED BY <1>1, <1>2, <1>3

LEMMA EndForChecked == ASSUME Inv, Inv', Checked, phase = "check", EndFor PROVE Checked'
<1>1. PICK b, q, hs : Ends(Knows, b, q, hs)
  BY DEF Ends
<1>2. b = Innermost /\ b.kind = "for" /\ Innermost.kind # "fn"
  BY <1>1 DEF EndFor, Ends
<1>3. /\ hs \in Seq(Local) /\ Len(b.saved) = b.base /\ b.saved \in Seq(Local)
      /\ Plus(hs, b.saved, q, FALSE, 0) /\ source[q].op = "for"
  BY <1>1, <1>2, Ending
<1>4. /\ Kept(b.saved, Popped) /\ Sound(Popped) /\ Popped \in Seq(Local)
      /\ Assures(locals, Popped) /\ DOMAIN Popped = 1 .. Len(Popped)
  BY <1>1, <1>2, PoppedKept DEF Sound
<1>5. CASE source[q].step = "take"
           /\ ~CanMove(Popped[CHOOSE i \in DOMAIN Popped : Popped[i].pos = source[q].arg])
  BY <1>1, <1>5, RejectChecked DEF EndFor, Ends
<1>6. CASE ~(source[q].step = "take"
             /\ ~CanMove(Popped[CHOOSE i \in DOMAIN Popped : Popped[i].pos = source[q].arg]))
  <2>1. Close(pop(b.saved, b.base - 1), TRUE)
    BY <1>1, <1>2, <1>6 DEF EndFor, Ends
  <2>2. Grows(hs, b.saved) /\ b.base - 1 = Len(hs)
    BY <1>3 DEF Plus
  <2>3. Kept(hs, pop(b.saved, b.base - 1))
    BY <1>3, <2>2, PopGrows
  <2>4. StepGives(source, Knows, q)
    <3>1. SUFFICES ASSUME source[q].step = "take", NEW k \in 1 .. Len(hs), hs[k].of # 0
                   PROVE  hs[hs[k].of].pos # source[q].arg
      BY <1>1 DEF StepGives, Ends
    <3>2. PICK p \in Nat : Placed(source, locals, p)
      <4>1. Model(source, Knows, locals, open)
        BY DEF Checked
      <4>2. /\ Len(Knows) \in Nat /\ Placed(source, Knows[Len(Knows)].locals, Len(Knows))
            /\ Knows[Len(Knows)].locals = locals
        <5>1. Len(Knows) \in 1 .. Len(Knows) /\ Len(Knows) \in Nat
          BY <4>1 DEF Model, Typed
        <5>2. Knows[Len(Knows)] = Memory(locals, open)
          BY <4>1 DEF Model
        <5> QED BY <4>1, <5>1, <5>2 DEF Model, Shaped, PointOK, Memory
      <4> QED BY <4>2
    <3>3. Placed(source, Popped, p)
      BY <1>4, <3>2, PlacedPart, OpenType
    <3>4. \A i \in 1 .. Len(Popped) : Popped[i].pos = source[q].arg => CanMove(Popped[i])
      <4> TAKE i \in 1 .. Len(Popped)
      <4> DEFINE user == CHOOSE j \in DOMAIN Popped : Popped[j].pos = source[q].arg
      <4>1. SUFFICES ASSUME Popped[i].pos = source[q].arg PROVE CanMove(Popped[i])
        OBVIOUS
      <4>2. user \in 1 .. Len(Popped) /\ Popped[user].pos = source[q].arg
        BY <1>4, <4>1
      <4>3. CanMove(Popped[user])
        BY <1>6, <3>1
      <4> HIDE DEF user
      <4>4. i = user
        BY <1>4, <3>3, <4>1, <4>2, PlacesDiffer
      <4> QED BY <4>3, <4>4
    <3>5. Grows(hs, Popped)
      BY <1>3, <1>4, <2>2, GrowsTrans DEF Kept
    <3> QED BY <1>3, <1>4, <3>1, <3>2, <3>3, <3>4, <3>5, StepIsFree
  <2>5. Lands(Innermost, locals, pop(b.saved, b.base - 1), TRUE)
    BY <1>2 DEF Lands
  <2>6. Kept(Knows[Innermost.at].locals, pop(b.saved, b.base - 1))
        /\ StepGives(source, Knows, Innermost.at)
    BY <1>1, <2>3, <2>4 DEF Ends
  <2> QED BY <1>2, <2>1, <2>5, <2>6, CloseChecked
<1> QED BY <1>5, <1>6

LEMMA CheckStepChecked == ASSUME Inv, Inv', Checked, CheckStep PROVE Checked'
<1>1. End => phase = "check"
  BY DEF End
<1>2. CASE End
  BY <1>1, <1>2, PlainEndChecked, EndIfChecked, EndForChecked DEF End
<1> QED BY <1>2, PlainChecked, TakeChecked, ReferenceChecked, OpenBlockChecked,
           OpenWhileChecked, OpenForChecked, JumpsChecked, ElseChecked DEF CheckStep

=============================================================================
