---------------------------- MODULE LinkingProofs ----------------------------
(***************************************************************************)
(* The resolver implements ModuleLinking: in every run it accepts only     *)
(* linkable file systems, rejects only those that are not, and gives every *)
(* file the scope its imports describe.  Links says what holds on the way. *)
(***************************************************************************)
EXTENDS ModuleResolverProofs, ModuleRefinement, FiniteSetTheorems, Induction

-----------------------------------------------------------------------------
(* What a file reaches.                                                     *)

\* A file reaches itself.
LEMMA ReachesItself ==
    ASSUME NEW fs, NEW p \in Paths
    PROVE  p \in Linking!Within(fs, p)
BY DEF Linking!Within

\* What reaches a file that loads reaches what it imports.
LEMMA ReachesImports ==
    ASSUME NEW fs, NEW p, NEW q \in Linking!Within(fs, p), fs[q] # Unloadable,
           NEW t \in Linking!Targets(fs, q), t \in Paths
    PROVE  t \in Linking!Within(fs, p)
<1>1. ASSUME NEW S \in SUBSET Paths, p \in S, Linking!Closed(fs, S)
      PROVE  t \in S
  <2>1. q \in S
    BY <1>1 DEF Linking!Within
  <2> QED
    BY <1>1, <2>1 DEF Linking!Closed
<1> QED
  BY <1>1 DEF Linking!Within

\* A file reaches nothing outside a closed set that holds it.
LEMMA ReachesNoMore ==
    ASSUME NEW fs, NEW S \in SUBSET Paths, Linking!Closed(fs, S), NEW p \in S
    PROVE  Linking!Within(fs, p) \subseteq S
BY DEF Linking!Within

-----------------------------------------------------------------------------
(* The public items.                                                        *)

\* The levels of PublicWithin are what its recursion says they are.
LEMMA LevelsAre ==
    ASSUME NEW fs, NEW ps
    PROVE  /\ Linking!PublicWithin(fs, ps)[0] = Linking!Declared(fs, ps)
           /\ \A n \in Nat : Linking!PublicWithin(fs, ps)[n + 1] =
                Linking!Declared(fs, ps)
                    \cup Linking!Reexported(fs, ps, Linking!PublicWithin(fs, ps)[n])
<1> DEFINE D == Linking!Declared(fs, ps)
           R(known) == Linking!Reexported(fs, ps, known)
           Upto(n, f) == f[0] = D /\ \A m \in Nat : m < n => f[m + 1] = D \cup R(f[m])
           S == {n \in Nat : \E f : Upto(n, f)}
           best(n) == CHOOSE f : Upto(n, f)
           g == [n \in Nat |-> best(n)[n]]
<1>1. Nat \subseteq S
  <2>1. Upto(0, [m \in {0} |-> D])
    OBVIOUS
  <2>2. 0 \in S
    BY <2>1
  <2>3. ASSUME NEW n \in Nat, n \in S PROVE n + 1 \in S
    <3>1. PICK f : Upto(n, f)
      BY <2>3
    <3> DEFINE h == [m \in Nat |-> IF m = n + 1 THEN D \cup R(f[n]) ELSE f[m]]
    <3> HIDE DEF D, R
    <3>2. h[0] = D
      BY <3>1
    <3>3. ASSUME NEW m \in Nat, m < n + 1 PROVE h[m + 1] = D \cup R(h[m])
      <4>1. m # n + 1 /\ m + 1 \in Nat /\ (m # n => m < n /\ m + 1 # n + 1)
        BY <3>3
      <4>2. h[m] = f[m]
        BY <4>1
      <4>3. CASE m = n
        <5>1. h[m + 1] = D \cup R(f[n])
          BY <4>1, <4>3
        <5> QED
          BY <4>2, <4>3, <5>1
      <4>4. CASE m # n
        <5>1. h[m + 1] = f[m + 1] /\ f[m + 1] = D \cup R(f[m])
          BY <3>1, <4>1, <4>4
        <5> QED
          BY <4>2, <5>1
      <4> QED
        BY <4>3, <4>4
    <3> HIDE DEF h
    <3>4. Upto(n + 1, h)
      BY <3>2, <3>3
    <3> QED
      BY <3>4
  <2> HIDE DEF S
  <2> QED
    BY <2>2, <2>3, NatSetInduction
<1>2. \A n \in Nat : Upto(n, best(n))
  BY <1>1
<1>0. \A n \in Nat : n + 1 \in Nat /\ n + 1 # 0 /\ n + 1 - 1 = n /\ n < n + 1
  OBVIOUS
<1> HIDE DEF Upto, D, R, best
<1>3. ASSUME NEW n \in Nat PROVE best(n + 1)[n] = best(n)[n]
  <2> DEFINE T == {m \in Nat : m <= n => best(n + 1)[m] = best(n)[m]}
  <2>1. Upto(n, best(n)) /\ Upto(n + 1, best(n + 1))
    BY <1>0, <1>2
  <2>2. 0 \in T
    BY <2>1 DEF Upto
  <2>3. ASSUME NEW m \in Nat, m \in T PROVE m + 1 \in T
    <3> SUFFICES ASSUME m + 1 <= n PROVE best(n + 1)[m + 1] = best(n)[m + 1]
      OBVIOUS
    <3>1. m < n /\ m < n + 1 /\ m <= n
      OBVIOUS
    <3>2. best(n + 1)[m] = best(n)[m]
      BY <2>3, <3>1
    <3> QED
      BY <2>1, <3>1, <3>2 DEF Upto
  <2>4. n \in T
    <3> HIDE DEF T
    <3> QED
      BY <2>2, <2>3, NatSetInduction
  <2> QED
    BY <2>4
<1>4. g[0] = D
  BY <1>2 DEF Upto
<1>5. \A n \in Nat : g[n + 1] = D \cup R(g[n])
  <2> TAKE n \in Nat
  <2>1. Upto(n + 1, best(n + 1)) /\ n + 1 \in Nat /\ n < n + 1
    BY <1>0, <1>2
  <2>2. best(n + 1)[n + 1] = D \cup R(best(n + 1)[n])
    BY <2>1 DEF Upto
  <2> QED
    BY <1>3, <2>1, <2>2
<1>6. g = [n \in Nat |-> D \cup IF n = 0 THEN {} ELSE R(g[n - 1])]
  <2>1. ASSUME NEW n \in Nat PROVE g[n] = D \cup IF n = 0 THEN {} ELSE R(g[n - 1])
    <3> HIDE DEF g
    <3>1. CASE n = 0
      BY <1>4, <3>1
    <3>2. CASE n # 0
      <4>1. n - 1 \in Nat /\ n - 1 + 1 = n
        BY <3>2
      <4> QED
        BY <1>5, <3>2, <4>1
    <3> QED
      BY <3>1, <3>2
  <2>2. g = [n \in Nat |-> g[n]]
    OBVIOUS
  <2> HIDE DEF g
  <2> QED
    BY <2>1, <2>2
<1> HIDE DEF g, S
<1>7. Linking!PublicWithin(fs, ps) =
        [n \in Nat |-> Linking!Declared(fs, ps) \cup IF n = 0 THEN {}
            ELSE Linking!Reexported(fs, ps, Linking!PublicWithin(fs, ps)[n - 1])]
  BY <1>6 DEF Linking!PublicWithin, D, R
<1> DEFINE p == Linking!PublicWithin(fs, ps)
<1> HIDE DEF p
<1>8. p = [n \in Nat |-> D \cup IF n = 0 THEN {} ELSE R(p[n - 1])]
  BY <1>7 DEF p, D, R
<1>9. p[0] = D
  BY <1>8
<1>10. \A n \in Nat : p[n + 1] = D \cup R(p[n])
  BY <1>0, <1>8
<1> QED
  BY <1>9, <1>10 DEF p, D, R

\* What is public within some steps is public within more.
LEMMA LevelsGrow ==
    ASSUME NEW fs, NEW ps, NEW m \in Nat, NEW n \in Nat, m <= n
    PROVE  Linking!PublicWithin(fs, ps)[m] \subseteq Linking!PublicWithin(fs, ps)[n]
<1> DEFINE p == Linking!PublicWithin(fs, ps)
           D == Linking!Declared(fs, ps)
           R(known) == Linking!Reexported(fs, ps, known)
           S == {k \in Nat : p[k] \subseteq p[k + 1]}
           T == {k \in Nat : m <= k => p[m] \subseteq p[k]}
<1>1. p[0] = D /\ \A k \in Nat : p[k + 1] = D \cup R(p[k])
  BY LevelsAre
<1>2. \A A, B : A \subseteq B => R(A) \subseteq R(B)
  BY DEF Linking!Reexported
<1> HIDE DEF p, D, R
<1>3. Nat \subseteq S
  <2>1. 0 \in S
    BY <1>1
  <2>2. ASSUME NEW k \in Nat, k \in S PROVE k + 1 \in S
    <3>1. p[k] \subseteq p[k + 1] /\ k + 1 \in Nat
      BY <2>2
    <3>2. R(p[k]) \subseteq R(p[k + 1])
      BY <1>2, <3>1
    <3> QED
      BY <1>1, <3>1, <3>2
  <2> HIDE DEF S
  <2> QED
    BY <2>1, <2>2, NatSetInduction
<1>4. Nat \subseteq T
  <2>1. 0 \in T
    OBVIOUS
  <2>2. ASSUME NEW k \in Nat, k \in T PROVE k + 1 \in T
    <3>1. CASE m <= k
      <4>1. p[m] \subseteq p[k] /\ p[k] \subseteq p[k + 1]
        BY <1>3, <2>2, <3>1
      <4> QED
        BY <4>1
    <3>2. CASE ~(m <= k)
      <4>1. m <= k + 1 => m = k + 1
        BY <3>2
      <4> QED
        BY <4>1
    <3> QED
      BY <3>1, <3>2
  <2> HIDE DEF T
  <2> QED
    BY <2>1, <2>2, NatSetInduction
<1> QED
  BY <1>4 DEF p

\* Nothing is public but what a set closed under re-exports holds.
LEMMA PublicNoMore ==
    ASSUME NEW fs, NEW ps, NEW C, Linking!Declared(fs, ps) \subseteq C,
           \A known : known \subseteq C => Linking!Reexported(fs, ps, known) \subseteq C,
           NEW n \in Nat
    PROVE  Linking!PublicWithin(fs, ps)[n] \subseteq C
<1> DEFINE p == Linking!PublicWithin(fs, ps)
           S == {k \in Nat : p[k] \subseteq C}
<1>1. /\ p[0] = Linking!Declared(fs, ps)
      /\ \A k \in Nat : p[k + 1] = Linking!Declared(fs, ps) \cup Linking!Reexported(fs, ps, p[k])
  BY LevelsAre
<1> HIDE DEF p
<1>2. 0 \in S
  BY <1>1
<1>3. ASSUME NEW k \in Nat, k \in S PROVE k + 1 \in S
  BY <1>1, <1>3
<1> HIDE DEF S
<1>4. Nat \subseteq S
  BY <1>2, <1>3, NatSetInduction
<1> QED
  BY <1>4 DEF S, p

\* The members of the sets that ModuleLinking builds.
LEMMA DeclaredAre ==
    ASSUME NEW fs, NEW ps, NEW t
    PROVE  t \in Linking!Declared(fs, ps) <=>
             \E p \in ps : \E i \in DOMAIN fs[p].decls :
                /\ fs[p].decls[i].pub
                /\ t = <<p, fs[p].decls[i].name, fs[p].decls[i].ns, p, fs[p].decls[i].name>>
BY DEF Linking!Declared, Linking!DeclsOf

\* What the re-exports of known items are.
LEMMA ReexportedAre ==
    ASSUME NEW fs, NEW ps, NEW known, NEW t
    PROVE  t \in Linking!Reexported(fs, ps, known) <=>
             \E p \in ps : \E imp \in Linking!ImportsIn(fs, p) : \E u \in known :
                /\ imp.pub /\ u[1] = imp.from /\ u[2] = imp.name
                /\ t = <<p, imp.as, u[3], u[4], u[5]>>
BY DEF Linking!Reexported

\* What a file introduces.
LEMMA IntroducedAre ==
    ASSUME NEW fs, NEW ps, NEW p, NEW t
    PROVE  t \in Linking!Introduced(fs, ps, p) <=>
             \/ \E i \in DOMAIN fs[p].decls :
                  t = <<fs[p].decls[i].name, fs[p].decls[i].ns, p, fs[p].decls[i].name, <<0, 0>>>>
             \/ \E imp \in Linking!ImportsIn(fs, p) : \E u \in Linking!Public(fs, ps) :
                  /\ u[1] = imp.from /\ u[2] = imp.name
                  /\ t = <<imp.as, u[3], u[4], u[5], imp.at>>
BY DEF Linking!Introduced, Linking!DeclsOf
-----------------------------------------------------------------------------
(* The invariant.                                                           *)

\* A file that is loaded and resolved.
Ready(p) == \E j \in DOMAIN modules : modules[j].path = p /\ Settled(j)

ExportsOf(p) == modules[IndexOf(p)].exports

\* Every loaded file is one that the root reaches.
Needed == \A i \in DOMAIN modules : modules[i].path \in Linking!Within(files, Root)

\* An activation is reached through an import of every activation below it.
Nested ==
    \A k, l \in DOMAIN stack : k < l =>
        \E q \in Linking!Targets(files, modules[stack[k].module].path) :
            modules[stack[l].module].path \in Linking!Within(files, q)

\* What the activation of a frame waits for.
AwaitedBy(f) ==
    IF f.stage = "bind" THEN ImportsOf(f.module)[f.import].from ELSE Prelude

Calls ==
    \A k \in DOMAIN stack : k < Len(stack) =>
        modules[stack[k + 1].module].path = AwaitedBy(stack[k])

\* The imports whose targets a module has resolved.
Answered(f, a, last) ==
    \/ f.stage \in {"fallback", "use"}
    \/ a < f.import
    \/ a = f.import /\ f.stage = "bind" /\ last

Resolves ==
    \A i \in DOMAIN modules : modules[i].state # "Loaded" =>
        \A a \in DOMAIN ImportsOf(i) :
            (\A k \in DOMAIN stack : stack[k].module = i => Answered(stack[k], a, k = Len(stack)))
                => Ready(ImportsOf(i)[a].from)

\* A resolved file is on no import cycle.
Acyclic ==
    \A i \in DOMAIN modules : Settled(i) => ~Linking!OnCycle(files, modules[i].path)

\* Nothing is loaded and left unresolved.
NoneForgotten ==
    \A i \in DOMAIN modules :
        /\ phase \in {"root", "prelude", "call"} =>
             modules[i].path \in {Root, Prelude} /\ modules[i].state = "Loaded"
        /\ phase = "resolve" /\ modules[i].state = "Loaded" =>
             \/ modules[i].path = Prelude
             \/ stack # <<>> /\ Top.stage = "call" /\ modules[i].path = CurrentImport.from
        /\ phase \in {"flatten", "done"} => Settled(i)

\* The items a module imports, by the places it names them at.
Items(i) ==
    UNION {{<<a, b>> : b \in DOMAIN ImportsOf(i)[a].items} : a \in DOMAIN ImportsOf(i)}

ImportAt(i, x) == ImportsOf(i)[x[1]]
ItemAt(i, x) == ImportAt(i, x).items[x[2]]
Here == <<0, 0>>

\* The items bound so far.
Passed(f, x) ==
    \/ f.stage \in {"fallback", "use"}
    \/ x[1] < f.import
    \/ x[1] = f.import /\ x[2] < f.item

Behind(s, i, x) == \A k \in DOMAIN s : s[k].module = i => Passed(s[k], x)

Past(i) == {x \in Items(i) : Behind(stack, i, x)}

\* What a place introduces under a name, and what it hands on.
Gift(i, x, n, ns) ==
    IF x = Here THEN modules[i].local[n][ns]
    ELSE IF ItemAt(i, x).as = n THEN ExportsOf(ImportAt(i, x).from)[ItemAt(i, x).name][ns]
    ELSE NoBinding

Shared(i, x, n, ns) ==
    IF x = Here THEN PublicLocals(modules[i])[n][ns]
    ELSE IF ImportAt(i, x).pub THEN Gift(i, x, n, ns) ELSE NoBinding

Sources(i) == {Here} \cup Past(i)

\* The tables hold under a name what the items bound so far introduce, from
\* one place.
TabledAt(i, n, ns) ==
    /\ \A x \in Sources(i) :
        /\ Gift(i, x, n, ns) # NoBinding => modules[i].visible[n][ns] = Gift(i, x, n, ns)
        /\ Shared(i, x, n, ns) # NoBinding => modules[i].exports[n][ns] = Shared(i, x, n, ns)
    /\ modules[i].visible[n][ns] # NoBinding =>
        \E x \in Sources(i) : modules[i].visible[n][ns] = Gift(i, x, n, ns)
    /\ modules[i].exports[n][ns] # NoBinding =>
        \E x \in Sources(i) : modules[i].exports[n][ns] = Shared(i, x, n, ns)
    /\ \A x, y \in Sources(i) :
        Gift(i, x, n, ns) # NoBinding /\ Gift(i, y, n, ns) # NoBinding => x = y

Tabled(i) ==
    /\ \A x \in Past(i) :
        /\ Ready(ImportAt(i, x).from)
        /\ ~IsEmpty(ExportsOf(ImportAt(i, x).from)[ItemAt(i, x).name])
    /\ \A n \in Names, ns \in Namespaces : TabledAt(i, n, ns)

Tables == \A i \in DOMAIN modules : modules[i].state # "Loaded" => Tabled(i)

Fallbacks ==
    \A i \in DOMAIN modules :
        modules[i].fallback =
            IF Settled(i) /\ modules[i].path # Prelude THEN ExportsOf(Prelude) ELSE EmptyBindings

\* What a module exports is public within as many steps as files are resolved.
SettledPaths == {p \in Paths : Ready(p)}

AsPublic(i, n, ns) ==
    <<modules[i].path, n, ns, Meaning(modules[i].exports[n][ns])[1],
      Meaning(modules[i].exports[n][ns])[2]>>

StepsTo(i) == IF Settled(i) THEN Cardinality(SettledPaths) ELSE Cardinality(SettledPaths) + 1

Levels == Linking!PublicWithin(files, Linking!Reached(files))

Depth ==
    \A i \in DOMAIN modules, n \in Names, ns \in Namespaces :
        modules[i].state # "Loaded" /\ modules[i].exports[n][ns] # NoBinding =>
            AsPublic(i, n, ns) \in Levels[StepsTo(i)]

Links ==
    /\ Needed /\ Nested /\ Calls /\ Resolves /\ Acyclic /\ NoneForgotten
    /\ Tables /\ Fallbacks /\ Depth
-----------------------------------------------------------------------------
(* Facts about the invariant's operators.                                   *)

\* The types of the places where a module imports items.
LEMMA ItemFacts ==
    ASSUME Inv, NEW i \in DOMAIN modules, NEW x \in Items(i)
    PROVE  /\ x[1] \in DOMAIN ImportsOf(i) /\ x[1] \in Nat /\ x[1] >= 1
           /\ x[2] \in DOMAIN ImportAt(i, x).items /\ x[2] \in Nat
           /\ x = <<x[1], x[2]>> /\ x # Here
           /\ ImportAt(i, x) \in Import /\ ItemAt(i, x) \in ImportItem
<1>1. PICK a \in DOMAIN ImportsOf(i) : \E b \in DOMAIN ImportsOf(i)[a].items : x = <<a, b>>
  BY DEF Items
<1>2. PICK b \in DOMAIN ImportsOf(i)[a].items : x = <<a, b>>
  BY <1>1
<1>3. ImportsOf(i) \in Seq(Import)
  BY ImportsType
<1>4. a \in Nat /\ a >= 1 /\ ImportsOf(i)[a] \in Import
  BY <1>3
<1>5. ImportsOf(i)[a].items \in Seq(ImportItem)
  BY <1>4 DEF Import
<1>6. b \in Nat /\ ImportsOf(i)[a].items[b] \in ImportItem
  BY <1>2, <1>5
<1>7. x[1] = a /\ x[2] = b
  BY <1>2
<1> QED
  BY <1>2, <1>4, <1>6, <1>7 DEF ImportAt, ItemAt, Here

\* A pair of positions is a place of the module.
LEMMA PlaceFacts ==
    ASSUME NEW i, NEW a \in DOMAIN ImportsOf(i), NEW b \in DOMAIN ImportsOf(i)[a].items
    PROVE  /\ <<a, b>> \in Items(i) /\ <<a, b>>[1] = a /\ <<a, b>>[2] = b
           /\ ImportAt(i, <<a, b>>) = ImportsOf(i)[a]
           /\ ItemAt(i, <<a, b>>) = ImportsOf(i)[a].items[b]
BY DEF Items, ImportAt, ItemAt

\* What a file imports, read off its module.
LEMMA TargetsAre ==
    ASSUME Inv, NEW i \in DOMAIN modules
    PROVE  /\ \A q : q \in Linking!Targets(files, modules[i].path) <=>
                \/ \E a \in DOMAIN ImportsOf(i) : q = ImportsOf(i)[a].from
                \/ q = Prelude /\ modules[i].path # Prelude
           /\ Linking!Targets(files, modules[i].path) \subseteq Paths
           /\ files[modules[i].path] # Unloadable /\ modules[i].path \in Paths
<1>1. /\ files[modules[i].path] \in File /\ modules[i] \in Module
      /\ ImportsOf(i) \in Seq(Import)
  BY ImportsType DEF Inv, WellDefined
<1>2. \A q : q \in Linking!Targets(files, modules[i].path) <=>
                \/ \E a \in DOMAIN ImportsOf(i) : q = ImportsOf(i)[a].from
                \/ q = Prelude /\ modules[i].path # Prelude
  BY DEF Linking!Targets, ImportsOf
<1>3. \A a \in DOMAIN ImportsOf(i) : ImportsOf(i)[a].from \in Paths
  <2> TAKE a \in DOMAIN ImportsOf(i)
  <2>1. ImportsOf(i)[a] \in Import
    BY <1>1
  <2> QED
    BY <2>1 DEF Import
<1> QED
  BY <1>1, <1>2, <1>3, PathsAssumption, SentinelAssumption DEF Module

\* The imports of a file are those of the places of its module.
LEMMA ImportsInAre ==
    ASSUME NEW i
    PROVE  \A imp : imp \in Linking!ImportsIn(files, modules[i].path) <=>
             \E x \in Items(i) :
               imp = [from |-> ImportAt(i, x).from, pub |-> ImportAt(i, x).pub,
                      name |-> ItemAt(i, x).name, as |-> ItemAt(i, x).as, at |-> x]
<1> DEFINE Of(a, b) == [from |-> ImportsOf(i)[a].from, pub |-> ImportsOf(i)[a].pub,
                        name |-> ImportsOf(i)[a].items[b].name,
                        as |-> ImportsOf(i)[a].items[b].as, at |-> <<a, b>>]
           At(x) == [from |-> ImportAt(i, x).from, pub |-> ImportAt(i, x).pub,
                     name |-> ItemAt(i, x).name, as |-> ItemAt(i, x).as, at |-> x]
<1>1. Linking!ImportsIn(files, modules[i].path) =
        UNION {{Of(a, b) : b \in DOMAIN ImportsOf(i)[a].items} : a \in DOMAIN ImportsOf(i)}
  BY DEF Linking!ImportsIn, ImportsOf
<1>2. \A a, b : At(<<a, b>>) = Of(a, b)
  BY DEF ImportAt, ItemAt
<1> HIDE DEF Of, At
<1>3. ASSUME NEW imp, imp \in Linking!ImportsIn(files, modules[i].path)
      PROVE  \E x \in Items(i) : imp = At(x)
  <2>1. PICK a \in DOMAIN ImportsOf(i) :
          \E b \in DOMAIN ImportsOf(i)[a].items : imp = Of(a, b)
    BY <1>1, <1>3
  <2>2. PICK b \in DOMAIN ImportsOf(i)[a].items : imp = Of(a, b)
    BY <2>1
  <2> QED
    BY <1>2, <2>2, PlaceFacts
<1>4. ASSUME NEW x \in Items(i)
      PROVE  At(x) \in Linking!ImportsIn(files, modules[i].path)
  <2>1. PICK a \in DOMAIN ImportsOf(i) : \E b \in DOMAIN ImportsOf(i)[a].items : x = <<a, b>>
    BY DEF Items
  <2> QED
    BY <1>1, <1>2, <2>1
<1>5. \A imp : imp \in Linking!ImportsIn(files, modules[i].path)
                 <=> \E x \in Items(i) : imp = At(x)
  BY <1>3, <1>4
<1> QED
  BY <1>5 DEF At

\* A file that is ready is loaded.
LEMMA ReadyFacts ==
    ASSUME Identity, NEW p, Ready(p)
    PROVE  /\ IndexOf(p) \in DOMAIN modules /\ modules[IndexOf(p)].path = p
           /\ Settled(IndexOf(p)) /\ IsLoaded(p)
<1>1. IsLoaded(p)
  BY DEF Ready, IsLoaded
<1> QED
  BY <1>1, LookupPath DEF Ready, Identity

\* A module is the one its path finds.
LEMMA IndexIs ==
    ASSUME Identity, NEW i \in DOMAIN modules
    PROVE  /\ IndexOf(modules[i].path) = i
           /\ Settled(i) <=> Ready(modules[i].path)
<1>1. IsLoaded(modules[i].path)
  BY DEF IsLoaded
<1>2. IndexOf(modules[i].path) = i
  BY <1>1, LookupPath DEF Identity
<1> QED
  BY <1>2 DEF Ready, Identity

\* The items of a table are those of loaded files.
Known(b) == \E k \in DOMAIN modules : modules[k].id = b.internal.id

\* The table of the declarations, entry by entry.
LEMMA LocalAt ==
    ASSUME NEW decls, NEW isRoot, NEW id, NEW n \in Names, NEW ns \in Namespaces
    PROVE  collect_local_bindings(decls, isRoot, id)[n][ns] =
             IF Declares(decls, n, ns)
             THEN [source |-> n, internal |-> [root |-> isRoot, id |-> id, name |-> n]]
             ELSE NoBinding
BY DEF collect_local_bindings, mangle_name

\* A binding of a module's own table means the module's declaration.
LEMMA LocalMeans ==
    ASSUME Inv, Identified, Locals, NEW k \in DOMAIN modules,
           NEW n \in Names, NEW ns \in Namespaces, modules[k].local[n][ns] # NoBinding
    PROVE  /\ Known(modules[k].local[n][ns])
           /\ Meaning(modules[k].local[n][ns]) = <<modules[k].path, n>>
           /\ Declares(DeclsOf(k), n, ns)
<1>1. modules[k].local[n][ns] =
        IF Declares(DeclsOf(k), n, ns)
        THEN [source |-> n,
              internal |-> [root |-> modules[k].isRoot, id |-> modules[k].id, name |-> n]]
        ELSE NoBinding
  BY LocalAt DEF Locals, Own
<1>2. PICK b : b = modules[k].local[n][ns]
  OBVIOUS
<1>3. b.source = n /\ b.internal.id = modules[k].id /\ Declares(DeclsOf(k), n, ns)
  BY <1>1, <1>2
<1>4. PathOfId(modules[k].id) = modules[k].path
  BY DEF PathOfId, Identified
<1> QED
  BY <1>2, <1>3, <1>4 DEF Known, Meaning

\* A declaration has a binding.
LEMMA DeclaredLocal ==
    ASSUME Inv, Locals, NEW k \in DOMAIN modules, NEW d \in DOMAIN DeclsOf(k)
    PROVE  /\ DeclsOf(k)[d] \in Decl /\ DeclsOf(k)[d].name \in Names
           /\ DeclsOf(k)[d].ns \in Namespaces
           /\ modules[k].local[DeclsOf(k)[d].name][DeclsOf(k)[d].ns] # NoBinding
<1>1. PICK decls : decls = DeclsOf(k)
  OBVIOUS
<1>2. decls \in Seq(Decl)
  BY <1>1 DEF DeclsOf, Inv, WellDefined, File
<1>3. decls[d] \in Decl
  BY <1>1, <1>2
<1>4. decls[d].name \in Names /\ decls[d].ns \in Namespaces
  BY <1>3 DEF Decl
<1>5. Declares(decls, decls[d].name, decls[d].ns)
  BY <1>1 DEF Declares
<1>6. [source |-> decls[d].name,
       internal |-> [root |-> modules[k].isRoot, id |-> modules[k].id, name |-> decls[d].name]]
        \in Binding
  <2>1. modules[k] \in Module
    BY ImportsType
  <2> QED
    BY <1>4, <2>1 DEF Module, Binding, MangledName
<1>7. modules[k].local[decls[d].name][decls[d].ns] # NoBinding
  BY <1>1, <1>4, <1>5, <1>6, SentinelAssumption
     DEF Locals, Own, collect_local_bindings, mangle_name
<1> QED
  BY <1>1, <1>3, <1>4, <1>7

\* Whatever a module sees or shares is known.
LEMMA TablesKnown ==
    ASSUME Inv, Identified, Locals, Provenance, NEW i \in DOMAIN modules,
           NEW n \in Names, NEW ns \in Namespaces
    PROVE  /\ modules[i].exports[n][ns] # NoBinding => Known(modules[i].exports[n][ns])
           /\ modules[i].visible[n][ns] # NoBinding => Known(modules[i].visible[n][ns])
           /\ modules[i].fallback[n][ns] # NoBinding => Known(modules[i].fallback[n][ns])
<1>1. \A b : IsPublic(b, ns) /\ b # NoBinding => Known(b)
  BY LocalMeans DEF IsPublic
<1>2. \A b : (\E m \in Names : modules[i].local[m][ns] = b) /\ b # NoBinding => Known(b)
  BY LocalMeans
<1> QED
  BY <1>1, <1>2 DEF Provenance, MaySee, MayShare

\* What a known binding means does not change.
LEMMA MeaningStays ==
    ASSUME Grows, Identified, Identified', NEW b, Known(b)
    PROVE  Meaning(b)' = Meaning(b)
<1>1. PICK k \in DOMAIN modules : modules[k].id = b.internal.id
  BY DEF Known
<1>2. k \in DOMAIN modules' /\ modules'[k].id = b.internal.id /\ modules'[k].path = modules[k].path
  BY <1>1 DEF Grows
<1>3. PathOfId(b.internal.id) = modules[k].path
  BY <1>1 DEF PathOfId, Identified
<1>4. PathOfId(b.internal.id)' = modules'[k].path
  BY <1>2 DEF PathOfId, Identified
<1> QED
  BY <1>2, <1>3, <1>4 DEF Meaning
-----------------------------------------------------------------------------
(* The steps, and what they do to the activations.                          *)

\* Nothing is loaded, resolved or bound.
Stays ==
    /\ UNCHANGED <<files, modules, stack>>
    /\ \/ phase' \in {phase, "failed"}
       \/ phase = "prelude" /\ phase' = "call"
       \/ phase = "resolve" /\ phase' = "flatten" /\ stack = <<>>
       \/ phase = "flatten" /\ phase' = "done"

\* The innermost activation moves on.
Retops(f) ==
    /\ stack # <<>> /\ f.module = Top.module
    /\ DOMAIN stack' = DOMAIN stack /\ Len(stack') = Len(stack)
    /\ stack'[Len(stack)] = f
    /\ \A k \in DOMAIN stack : k # Len(stack) => stack'[k] = stack[k]

SamePlace(f) == f.import = Top.import /\ f.item = Top.item

\* A file is loaded.
Fetches(p) ==
    /\ files' = files
    /\ \A i \in DOMAIN modules : i \in DOMAIN modules' /\ Unchanged(i)
    /\ \A i \in DOMAIN modules' \ DOMAIN modules :
        /\ modules'[i].path = p /\ modules'[i].state = "Loaded"
        /\ modules'[i].fallback = EmptyBindings
    /\ \/ phase = "root" /\ phase' = "prelude" /\ p = Root /\ stack = <<>> /\ stack' = <<>>
       \/ phase = "prelude" /\ phase' = "call" /\ p = Prelude /\ stack = <<>> /\ stack' = <<>>
       \/ /\ phase = "resolve" /\ phase' = "resolve"
          /\ stack # <<>> /\ Top.stage = "load" /\ p = CurrentImport.from
          /\ \E f : Retops(f) /\ SamePlace(f) /\ f.stage = "call"

\* The innermost activation goes on to its next import or its next stage.
Advances ==
    /\ UNCHANGED <<files, modules>> /\ phase = "resolve" /\ phase' = "resolve"
    /\ stack # <<>>
    /\ \E f : Retops(f) /\
        \/ /\ Top.stage = "call" /\ f.stage = "bind" /\ SamePlace(f)
           /\ Ready(CurrentImport.from)
        \/ /\ Top.stage = "bind" /\ Top.item > Len(CurrentImport.items) /\ f.item = 1
           /\ \/ /\ Top.import < Len(ImportsOf(Top.module))
                 /\ f.import = Top.import + 1 /\ f.stage = "load"
              \/ Top.import >= Len(ImportsOf(Top.module)) /\ f.stage = "fallback"
        \/ Top.stage = "fallback" /\ f.stage = "use"

\* A module is opened by a call of resolve_module.
Enters(i) ==
    /\ files' = files /\ phase' = "resolve" /\ modules[i].state = "Loaded"
    /\ DOMAIN modules' = DOMAIN modules /\ modules'[i] = Opened(modules[i])
    /\ \A j \in DOMAIN modules : j # i => modules'[j] = modules[j]
    /\ DOMAIN stack' = 1 .. Len(stack) + 1 /\ Len(stack') = Len(stack) + 1
    /\ stack'[Len(stack) + 1] = StartFrame(i)
    /\ \A k \in DOMAIN stack : k # Len(stack) => stack'[k] = stack[k]
    /\ \/ phase = "call" /\ stack = <<>> /\ modules[i].path = Root
       \/ /\ phase = "resolve" /\ stack # <<>>
          /\ stack'[Len(stack)].module = Top.module /\ SamePlace(stack'[Len(stack)])
          /\ \/ /\ Top.stage = "call" /\ stack'[Len(stack)].stage = "bind"
                /\ modules[i].path = CurrentImport.from
             \/ /\ Top.stage = "fallback" /\ stack'[Len(stack)].stage = "use"
                /\ modules[i].path = Prelude /\ modules[Top.module].path # Prelude

\* An item is bound.
BindsAt(x) ==
    LET i        == Top.module
        exported == ExportsOf(ImportAt(i, x).from)[ItemAt(i, x).name]
    IN  /\ files' = files /\ phase = "resolve" /\ phase' = "resolve" /\ stack # <<>>
        /\ Top.stage = "bind" /\ x = <<Top.import, Top.item>>
        /\ ~IsEmpty(exported) /\ ~Clashes(modules[i].visible, ItemAt(i, x).as, exported)
        /\ DOMAIN modules' = DOMAIN modules
        /\ modules'[i] = Bound(modules[i], ItemAt(i, x).as, exported, ImportAt(i, x).pub)
        /\ \A j \in DOMAIN modules : j # i => modules'[j] = modules[j]
        /\ \E f : Retops(f) /\ f.import = Top.import /\ f.item = Top.item + 1 /\ f.stage = "bind"

\* The innermost activation returns.
Closes ==
    LET i == Top.module
    IN  /\ files' = files /\ phase = "resolve" /\ phase' = "resolve" /\ stack # <<>>
        /\ Top.stage = "use" /\ DOMAIN modules' = DOMAIN modules
        /\ modules'[i] = [modules[i] EXCEPT
                !.fallback = IF modules[i].isPrelude THEN modules[i].fallback
                             ELSE ExportsOf(Prelude),
                !.state = "Resolved"]
        /\ \A j \in DOMAIN modules : j # i => modules'[j] = modules[j]
        /\ DOMAIN stack' = 1 .. Len(stack) - 1 /\ Len(stack') = Len(stack) - 1
        /\ \A k \in 1 .. Len(stack) - 1 : stack'[k] = stack[k]

\* A module is flattened.
Flattens ==
    /\ files' = files /\ phase = "flatten" /\ phase' = "flatten"
    /\ stack = <<>> /\ stack' = <<>> /\ DOMAIN modules' = DOMAIN modules
    /\ \A k \in DOMAIN modules :
        /\ modules'[k].path = modules[k].path
        /\ modules'[k].state \in {modules[k].state, "Rewritten"}
        /\ modules'[k].visible = modules[k].visible
        /\ modules'[k].fallback = modules[k].fallback
        /\ modules'[k].exports = modules[k].exports

\* A failure changes no module and no frame.
LEMMA FailStays ==
    ASSUME NEW kind, Fail(kind)
    PROVE  Stays
BY DEF Fail, Stays

\* Replacing the top frame.
LEMMA Retopped ==
    ASSUME Inv, stack # <<>>, NEW f, f.module = Top.module
    PROVE  LET s == ReplaceTop(f)
           IN  /\ DOMAIN s = DOMAIN stack /\ Len(s) = Len(stack) /\ s[Len(stack)] = f
               /\ \A k \in DOMAIN stack : k # Len(stack) => s[k] = stack[k]
<1>1. stack \in Seq(Frame) /\ Len(stack) \in DOMAIN stack
  BY DEF Inv, TypeOK
<1> QED
  BY <1>1 DEF ReplaceTop

\* Replacing the top frame does what Retops says.
LEMMA RetopsByReplace ==
    ASSUME Inv, stack # <<>>, NEW f, f.module = Top.module, stack' = ReplaceTop(f)
    PROVE  Retops(f)
BY Retopped DEF Retops

\* A load is a fetch.
LEMMA FetchedFile ==
    ASSUME Inv, FreshStart, NEW p \in Paths, NEW isRoot \in BOOLEAN, NEW isPrelude \in BOOLEAN,
           ~LoadFails(p), load_module(p, isRoot, isPrelude), isRoot => phase = "root",
           UNCHANGED <<files, program>>
    PROVE  /\ \A i \in DOMAIN modules : i \in DOMAIN modules' /\ Unchanged(i)
           /\ \A i \in DOMAIN modules' \ DOMAIN modules :
                /\ modules'[i].path = p /\ modules'[i].state = "Loaded"
                /\ modules'[i].fallback = EmptyBindings
<1>1. \A i \in DOMAIN modules : i \in DOMAIN modules' /\ Unchanged(i)
  BY LoadsOne DEF Loads
<1>2. CASE IsLoaded(p)
  <2>1. DOMAIN modules' = DOMAIN modules
    BY <1>2 DEF load_module
  <2> QED
    BY <1>1, <2>1
<1>3. CASE ~IsLoaded(p)
  <2> DEFINE m == NewModule(p, isRoot, isPrelude)
  <2>1. m.path = p /\ m.state = "Loaded" /\ m.fallback = EmptyBindings
    BY DEF NewModule
  <2>2. modules' = Append(modules, m) /\ modules \in Seq(Module)
    BY <1>3 DEF load_module, Inv, TypeOK
  <2> HIDE DEF m
  <2>3. /\ DOMAIN modules' = DOMAIN modules \cup {Len(modules) + 1}
        /\ modules'[Len(modules) + 1] = m
    BY <2>2
  <2> QED
    BY <1>1, <2>1, <2>3
<1> QED
  BY <1>2, <1>3

\* Loading the root.
LEMMA LoadRootKind ==
    ASSUME Inv, FreshStart, LoadRoot
    PROVE  Stays \/ \E p \in {Root, Prelude} : Fetches(p)
<1>1. CASE LoadFails(Root)
  BY <1>1, FailStays DEF LoadRoot
<1>2. CASE ~LoadFails(Root)
  <2>1. /\ load_module(Root, TRUE, Root = Prelude) /\ phase = "root" /\ phase' = "prelude"
        /\ UNCHANGED <<files, program>> /\ UNCHANGED stack
    BY <1>2 DEF LoadRoot
  <2>2. (Root = Prelude) \in BOOLEAN /\ stack = <<>>
    BY <2>1 DEF Inv, WellDefined
  <2> QED
    BY <1>2, <2>1, <2>2, PathsAssumption, FetchedFile DEF Fetches
<1> QED
  BY <1>1, <1>2

\* Loading the prelude.
LEMMA LoadPreludeKind ==
    ASSUME Inv, FreshStart, LoadPrelude
    PROVE  Stays \/ \E p \in {Root, Prelude} : Fetches(p)
<1>1. CASE Root # Prelude /\ LoadFails(Prelude)
  BY <1>1, FailStays DEF LoadPrelude
<1>2. CASE Root = Prelude
  BY <1>2 DEF LoadPrelude, Stays
<1>3. CASE Root # Prelude /\ ~LoadFails(Prelude)
  <2>1. /\ load_module(Prelude, FALSE, TRUE) /\ phase = "prelude" /\ phase' = "call"
        /\ UNCHANGED <<files, program>> /\ UNCHANGED stack
    BY <1>3 DEF LoadPrelude
  <2>2. stack = <<>>
    BY <2>1 DEF Inv, WellDefined
  <2> QED
    BY <1>3, <2>1, <2>2, PathsAssumption, FetchedFile DEF Fetches
<1> QED
  BY <1>1, <1>2, <1>3

\* Loading the file of an import.
LEMMA LoadImportKind ==
    ASSUME Inv, FreshStart, LoadImport
    PROVE  Stays \/ \E p \in Paths : Fetches(p)
<1>1. PICK p, t : p = CurrentImport.from /\ t = Top
  OBVIOUS
<1>2. /\ phase = "resolve" /\ stack # <<>> /\ t.stage = "load" /\ p \in Paths
      /\ t \in GoodFrames
  BY <1>1, CurrentImportType, TopType DEF LoadImport
<1>3. CASE LoadFails(p)
  BY <1>1, <1>3, FailStays DEF LoadImport
<1>4. CASE ~LoadFails(p)
  <2>1. /\ load_module(p, FALSE, p = Prelude) /\ UNCHANGED <<files, program>>
        /\ phase' = phase
        /\ stack' = ReplaceTop([Top EXCEPT !.stage = "call"])
    BY <1>1, <1>4 DEF LoadImport
  <2>2. (p = Prelude) \in BOOLEAN
    OBVIOUS
  <2>3. PICK f : f = [t EXCEPT !.stage = "call"]
    OBVIOUS
  <2>4. f.module = t.module /\ f.import = t.import /\ f.item = t.item /\ f.stage = "call"
    BY <1>2, <2>3 DEF GoodFrames, Frame
  <2>5. Retops(f) /\ SamePlace(f)
    BY <1>1, <1>2, <2>1, <2>3, <2>4, RetopsByReplace DEF SamePlace
  <2>6. /\ \A i \in DOMAIN modules : i \in DOMAIN modules' /\ Unchanged(i)
        /\ \A i \in DOMAIN modules' \ DOMAIN modules :
                /\ modules'[i].path = p /\ modules'[i].state = "Loaded"
                /\ modules'[i].fallback = EmptyBindings
    BY <1>2, <1>4, <2>1, <2>2, FetchedFile
  <2>7. \E g : Retops(g) /\ SamePlace(g) /\ g.stage = "call"
    BY <2>4, <2>5
  <2>8. Fetches(p)
    BY <1>1, <1>2, <2>1, <2>6, <2>7 DEF Fetches
  <2> QED
    BY <1>2, <2>8
<1> QED
  BY <1>3, <1>4

\* A call of resolve_module by a frame f, if there is one.
LEMMA CallKind ==
    ASSUME Inv, NEW i \in DOMAIN modules, NEW frames \in Seq(GoodFrames),
           DOMAIN frames = DOMAIN stack, Len(frames) = Len(stack),
           \A k \in DOMAIN stack : k # Len(stack) => frames[k] = stack[k],
           resolve_module(i, frames)
    PROVE  \/ Stays
           \/ Settled(i) /\ stack' = frames /\ UNCHANGED <<files, modules>> /\ phase' = phase
           \/ /\ files' = files /\ phase' = "resolve" /\ modules[i].state = "Loaded"
              /\ DOMAIN modules' = DOMAIN modules /\ modules'[i] = Opened(modules[i])
              /\ \A j \in DOMAIN modules : j # i => modules'[j] = modules[j]
              /\ DOMAIN stack' = 1 .. Len(stack) + 1 /\ Len(stack') = Len(stack) + 1
              /\ stack'[Len(stack) + 1] = StartFrame(i)
              /\ \A k \in DOMAIN stack : k # Len(stack) => stack'[k] = stack[k]
              /\ \A k \in DOMAIN stack : stack'[k] = frames[k]
<1>1. CASE Settled(i) /\ stack' = frames /\ UNCHANGED <<files, modules>> /\ phase' = phase
  BY <1>1
<1>2. CASE Fail("cyclic")
  BY <1>2, FailStays
<1>3. CASE modules[i].state = "Loaded" /\ EnterModule(i, frames)
  <2>1. /\ modules' = [modules EXCEPT ![i] = Opened(modules[i])] /\ files' = files
        /\ stack' = Append(frames, StartFrame(i)) /\ phase' = "resolve"
    BY <1>3 DEF EnterModule
  <2>2. StartFrame(i) \in GoodFrames
    BY FrameStarts
  <2>3. /\ DOMAIN stack' = 1 .. Len(stack) + 1 /\ Len(stack') = Len(stack) + 1
        /\ stack'[Len(stack) + 1] = StartFrame(i)
        /\ \A k \in 1 .. Len(frames) : stack'[k] = frames[k]
    BY <2>1, <2>2
  <2>4. /\ DOMAIN modules' = DOMAIN modules /\ modules'[i] = Opened(modules[i])
        /\ \A j \in DOMAIN modules : j # i => modules'[j] = modules[j]
    BY <2>1, Updated
  <2>5. DOMAIN stack = 1 .. Len(frames)
    OBVIOUS
  <2> QED
    BY <1>3, <2>1, <2>3, <2>4, <2>5
<1> QED
  BY <1>1, <1>2, <1>3 DEF resolve_module

\* Calling for the root.
LEMMA ResolveRootKind ==
    ASSUME Inv, ResolveRoot
    PROVE  Stays \/ (\E i \in DOMAIN modules : Enters(i))
<1>1. PICK i : i = IndexOf(Root)
  OBVIOUS
<1>2. /\ phase = "call" /\ i \in DOMAIN modules /\ stack = <<>> /\ modules[i].path = Root
      /\ resolve_module(i, <<>>)
  BY <1>1, LookupPath DEF ResolveRoot, Inv, WellDefined
<1>3. <<>> \in Seq(GoodFrames)
  OBVIOUS
<1> QED
  BY <1>2, <1>3, CallKind DEF Enters, Stays

\* Calling for an import.
LEMMA ResolveImportKind ==
    ASSUME Inv, ResolveImport
    PROVE  Stays \/ Advances \/ (\E i \in DOMAIN modules : Enters(i))
<1>1. PICK t, f, i : /\ t = Top /\ f = [t EXCEPT !.stage = "bind"]
                     /\ i = IndexOf(CurrentImport.from)
  OBVIOUS
<1>2. /\ phase = "resolve" /\ stack # <<>> /\ t.stage = "call" /\ t \in GoodFrames
      /\ resolve_module(i, ReplaceTop(f))
  BY <1>1, TopType DEF ResolveImport
<1>3. f \in Frame /\ f.module = t.module /\ f.import = t.import /\ f.item = t.item
      /\ f.stage = "bind"
  BY <1>1, <1>2 DEF GoodFrames, Frame
<1>4. ReplaceTop(f) \in Seq(GoodFrames)
  BY <1>2, <1>3, ReplaceType DEF GoodFrames
<1>5. i \in DOMAIN modules /\ modules[i].path = CurrentImport.from
  BY <1>1, <1>2, LookupPath DEF GoodFrames, CurrentImport
<1>6. PICK s : s = ReplaceTop(f)
  OBVIOUS
<1>0. /\ f.module = Top.module /\ Top.stage = "call" /\ f.stage = "bind"
      /\ f.import = Top.import /\ f.item = Top.item
  BY <1>1, <1>2, <1>3
<1>7. /\ DOMAIN s = DOMAIN stack /\ Len(s) = Len(stack) /\ s[Len(stack)] = f
      /\ \A k \in DOMAIN stack : k # Len(stack) => s[k] = stack[k]
  BY <1>0, <1>2, <1>6, Retopped
<1>8. Len(stack) \in DOMAIN stack
  BY <1>2, TopType
<1>9. CASE Settled(i) /\ stack' = s /\ UNCHANGED <<files, modules>> /\ phase' = phase
  <2>1. Retops(f) /\ SamePlace(f)
    BY <1>1, <1>2, <1>3, <1>7, <1>9 DEF Retops, SamePlace
  <2>2. Ready(CurrentImport.from)
    BY <1>5, <1>9 DEF Ready
  <2>3. \E g : Retops(g) /\ Top.stage = "call" /\ g.stage = "bind" /\ SamePlace(g)
                 /\ Ready(CurrentImport.from)
    BY <1>1, <1>2, <1>3, <2>1, <2>2
  <2> QED
    BY <1>1, <1>2, <1>9, <2>3 DEF Advances
<1>10. CASE /\ files' = files /\ phase' = "resolve" /\ modules[i].state = "Loaded"
            /\ DOMAIN modules' = DOMAIN modules /\ modules'[i] = Opened(modules[i])
            /\ \A j \in DOMAIN modules : j # i => modules'[j] = modules[j]
            /\ DOMAIN stack' = 1 .. Len(stack) + 1 /\ Len(stack') = Len(stack) + 1
            /\ stack'[Len(stack) + 1] = StartFrame(i)
            /\ \A k \in DOMAIN stack : k # Len(stack) => stack'[k] = stack[k]
            /\ \A k \in DOMAIN stack : stack'[k] = s[k]
  <2>1. stack'[Len(stack)] = f
    BY <1>7, <1>8, <1>10
  <2>2. Enters(i)
    BY <1>0, <1>2, <1>5, <1>10, <2>1 DEF Enters, SamePlace
  <2> QED
    BY <1>5, <2>2
<1> QED
  BY <1>2, <1>4, <1>5, <1>6, <1>7, <1>9, <1>10, CallKind

\* Calling for the prelude.
LEMMA ResolvePreludeKind ==
    ASSUME Inv, Identity, ResolvePrelude
    PROVE  Stays \/ Advances \/ (\E i \in DOMAIN modules : Enters(i))
<1>1. PICK t, n, i : t = Top /\ n = Len(modules) /\ i = IndexOf(Prelude)
  OBVIOUS
<1>2. PICK f : f = [t EXCEPT !.stage = "use", !.held = n]
  OBVIOUS
<1>3. /\ phase = "resolve" /\ stack # <<>> /\ t \in GoodFrames /\ n \in Nat
      /\ t.stage = "fallback" /\ t.module \in DOMAIN modules
      /\ \/ stack' = ReplaceTop(f) /\ UNCHANGED <<files, modules>> /\ phase' = phase
         \/ resolve_module(i, ReplaceTop(f)) /\ ~modules[t.module].isPrelude
  BY <1>1, <1>2, TopType DEF ResolvePrelude, Inv, TypeOK
<1>4. f \in GoodFrames /\ f.module = t.module /\ f.import = t.import /\ f.item = t.item
      /\ f.stage = "use"
  BY <1>2, <1>3 DEF GoodFrames, Frame
<1>5. PICK s : s = ReplaceTop(f)
  OBVIOUS
<1>6. /\ DOMAIN s = DOMAIN stack /\ Len(s) = Len(stack) /\ s[Len(stack)] = f
      /\ \A k \in DOMAIN stack : k # Len(stack) => s[k] = stack[k]
      /\ s \in Seq(GoodFrames) /\ Len(stack) \in DOMAIN stack
  BY <1>1, <1>3, <1>4, <1>5, Retopped, ReplaceType, TopType
<1>7. CASE stack' = s /\ UNCHANGED <<files, modules>> /\ phase' = phase
  <2>1. Retops(f)
    BY <1>1, <1>3, <1>4, <1>6, <1>7 DEF Retops
  <2>2. \E g : Retops(g) /\ Top.stage = "fallback" /\ g.stage = "use"
    BY <1>1, <1>3, <1>4, <2>1
  <2> QED
    BY <1>1, <1>3, <1>7, <2>2 DEF Advances
<1>8. CASE resolve_module(i, s) /\ ~modules[t.module].isPrelude
  <2>1. i \in DOMAIN modules /\ modules[i].path = Prelude
    BY <1>1, <1>3, LookupPath DEF Inv, WellDefined
  <2>2. modules[t.module].path # Prelude
    BY <1>3, <1>8 DEF Identity
  <2>3. CASE /\ files' = files /\ phase' = "resolve" /\ modules[i].state = "Loaded"
             /\ DOMAIN modules' = DOMAIN modules /\ modules'[i] = Opened(modules[i])
             /\ \A j \in DOMAIN modules : j # i => modules'[j] = modules[j]
             /\ DOMAIN stack' = 1 .. Len(stack) + 1 /\ Len(stack') = Len(stack) + 1
             /\ stack'[Len(stack) + 1] = StartFrame(i)
             /\ \A k \in DOMAIN stack : k # Len(stack) => stack'[k] = stack[k]
             /\ \A k \in DOMAIN stack : stack'[k] = s[k]
    BY <1>1, <1>3, <1>4, <1>6, <2>1, <2>2, <2>3 DEF Enters, SamePlace
  <2> QED
    BY <1>6, <1>7, <1>8, <2>1, <2>3, CallKind
<1> QED
  BY <1>3, <1>5, <1>7, <1>8

\* Going on to the next import.
LEMMA NextImportKind == ASSUME Inv, NextImport PROVE Advances
<1>1. PICK t, more : t = Top /\ more = (t.import < Len(ImportsOf(t.module)))
  OBVIOUS
<1>2. PICK f : f = [t EXCEPT !.item = 1, !.import = IF more THEN t.import + 1 ELSE t.import,
                             !.stage = IF more THEN "load" ELSE "fallback"]
  OBVIOUS
<1>3. /\ phase = "resolve" /\ phase' = "resolve" /\ stack # <<>> /\ t \in GoodFrames
      /\ t.stage = "bind" /\ t.item > Len(CurrentImport.items)
      /\ UNCHANGED <<files, modules>>
  BY <1>1, TopType DEF NextImport
<1>4. stack' = ReplaceTop([t EXCEPT !.item = 1,
                            !.import = IF more THEN t.import + 1 ELSE t.import,
                            !.stage = IF more THEN "load" ELSE "fallback"])
  BY <1>1 DEF NextImport
<1>5. /\ f.module = t.module /\ f.item = 1
      /\ f.import = IF more THEN t.import + 1 ELSE t.import
      /\ f.stage = IF more THEN "load" ELSE "fallback"
  BY <1>2, <1>3 DEF GoodFrames, Frame
<1>6. Retops(f)
  BY <1>1, <1>2, <1>3, <1>4, <1>5, RetopsByReplace
<1>7. t.import \in Nat /\ Len(ImportsOf(t.module)) \in Nat
  <2>1. ImportsOf(Top.module) \in Seq(Import)
    BY <1>3, TopType
  <2>2. \A s \in Seq(Import) : Len(s) \in Nat
    OBVIOUS
  <2>3. t.import \in Nat
    BY <1>3 DEF GoodFrames, Frame
  <2> QED
    BY <1>1, <2>1, <2>2, <2>3
<1>8. \/ t.import < Len(ImportsOf(t.module)) /\ f.import = t.import + 1 /\ f.stage = "load"
      \/ t.import >= Len(ImportsOf(t.module)) /\ f.stage = "fallback"
  <2>1. CASE t.import < Len(ImportsOf(t.module))
    BY <1>1, <1>5, <2>1
  <2>2. CASE ~(t.import < Len(ImportsOf(t.module)))
    <3>1. f.stage = "fallback"
      BY <1>1, <1>5, <2>2
    <3>2. \A m, n \in Nat : ~(m < n) => m >= n
      OBVIOUS
    <3> QED
      BY <1>7, <2>2, <3>1, <3>2
  <2> QED
    BY <2>1, <2>2
<1>9. \E g : /\ Retops(g) /\ Top.stage = "bind" /\ Top.item > Len(CurrentImport.items)
             /\ g.item = 1
             /\ \/ /\ Top.import < Len(ImportsOf(Top.module))
                   /\ g.import = Top.import + 1 /\ g.stage = "load"
                \/ Top.import >= Len(ImportsOf(Top.module)) /\ g.stage = "fallback"
  BY <1>1, <1>3, <1>5, <1>6, <1>8
<1> QED
  BY <1>3, <1>9 DEF Advances

\* Binding an item.
LEMMA BindKind ==
    ASSUME Inv, BindImportItem
    PROVE  Stays \/ (\E x \in Items(Top.module) : BindsAt(x))
<1>1. PICK t, x, i : t = Top /\ x = <<t.import, t.item>> /\ i = t.module
  OBVIOUS
<1>2. /\ phase = "resolve" /\ stack # <<>> /\ t.stage = "bind" /\ t \in GoodFrames
      /\ t.item <= Len(CurrentImport.items) /\ i \in DOMAIN modules
  BY <1>1, TopType DEF BindImportItem
<1>3. t.import \in DOMAIN ImportsOf(i) /\ t.item \in DOMAIN ImportsOf(i)[t.import].items
  <2>1. t.import \in DOMAIN ImportsOf(i) /\ CurrentImport.items \in Seq(ImportItem)
    BY <1>1, <1>2, CurrentImportType
  <2>2. t.item \in Nat /\ t.item >= 1
    BY <1>2 DEF GoodFrames, Frame
  <2>3. t.item \in DOMAIN CurrentImport.items
    BY <1>2, <2>1, <2>2
  <2> QED
    BY <1>1, <2>1, <2>3 DEF CurrentImport
<1>4. /\ x \in Items(i) /\ ImportAt(i, x) = CurrentImport
      /\ ItemAt(i, x) = CurrentImport.items[t.item]
  BY <1>1, <1>3, PlaceFacts DEF CurrentImport
<1>5. PICK exported, wanted :
        /\ exported = ExportsOf(ImportAt(i, x).from)[ItemAt(i, x).name]
        /\ wanted = ItemAt(i, x)
  OBVIOUS
<1>6. \/ \E kind : Fail(kind)
      \/ /\ ~IsEmpty(exported) /\ ~Clashes(modules[i].visible, wanted.as, exported)
         /\ modules' = [modules EXCEPT ![i] =
                Bound(modules[i], wanted.as, exported, CurrentImport.pub)]
         /\ stack' = ReplaceTop([t EXCEPT !.item = t.item + 1])
         /\ files' = files /\ phase' = phase
  BY <1>1, <1>4, <1>5 DEF BindImportItem, ExportsOf
<1>7. CASE \E kind : Fail(kind)
  BY <1>7, FailStays
<1>8. CASE /\ ~IsEmpty(exported) /\ ~Clashes(modules[i].visible, wanted.as, exported)
           /\ modules' = [modules EXCEPT ![i] =
                Bound(modules[i], wanted.as, exported, CurrentImport.pub)]
           /\ stack' = ReplaceTop([t EXCEPT !.item = t.item + 1])
           /\ files' = files /\ phase' = phase
  <2>1. PICK f : f = [t EXCEPT !.item = t.item + 1]
    OBVIOUS
  <2>2. f.module = t.module /\ f.import = t.import /\ f.item = t.item + 1 /\ f.stage = "bind"
    BY <1>2, <2>1 DEF GoodFrames, Frame
  <2>3. Retops(f)
    BY <1>1, <1>2, <1>8, <2>1, <2>2, RetopsByReplace
  <2>4. /\ DOMAIN modules' = DOMAIN modules
        /\ modules'[i] = Bound(modules[i], wanted.as, exported, CurrentImport.pub)
        /\ \A j \in DOMAIN modules : j # i => modules'[j] = modules[j]
    BY <1>2, <1>8, Updated
  <2>5. \E g : Retops(g) /\ g.import = Top.import /\ g.item = Top.item + 1 /\ g.stage = "bind"
    BY <1>1, <2>2, <2>3
  <2>6. BindsAt(x)
    BY <1>1, <1>2, <1>4, <1>5, <1>8, <2>4, <2>5 DEF BindsAt
  <2> QED
    BY <1>1, <1>4, <2>6
<1> QED
  BY <1>6, <1>7, <1>8

\* Closing a module.
LEMMA FinishKind == ASSUME Inv, FinishModule PROVE Closes
<1>1. PICK i : i = Top.module
  OBVIOUS
<1>2. /\ phase = "resolve" /\ phase' = "resolve" /\ stack # <<>> /\ Top.stage = "use"
      /\ i \in DOMAIN modules /\ modules[i] \in Module /\ stack' = Pop /\ files' = files
  BY <1>1, TopType DEF FinishModule
<1>3. modules' = [modules EXCEPT ![i] = [modules[i] EXCEPT
          !.fallback = IF modules[i].isPrelude THEN modules[i].fallback
                       ELSE ExportsOf(Prelude),
          !.state = "Resolved"]]
  BY <1>1, <1>2 DEF FinishModule, ExportsOf
<1>4. /\ DOMAIN modules' = DOMAIN modules
      /\ modules'[i] = [modules[i] EXCEPT
                !.fallback = IF modules[i].isPrelude THEN modules[i].fallback
                             ELSE ExportsOf(Prelude),
                !.state = "Resolved"]
      /\ \A j \in DOMAIN modules : j # i => modules'[j] = modules[j]
  BY <1>2, <1>3, Updated
<1>5. /\ DOMAIN stack' = 1 .. Len(stack) - 1 /\ Len(stack') = Len(stack) - 1
      /\ \A k \in 1 .. Len(stack) - 1 : stack'[k] = stack[k]
  <2>1. stack \in Seq(Frame) /\ Len(stack) \in Nat /\ Len(stack) >= 1
    BY <1>2, TopType DEF Inv, TypeOK
  <2>2. \A n \in Nat : n >= 1 => /\ n - 1 \in Nat /\ n - 1 \in Int /\ n - 1 - 1 + 1 = n - 1
                                 /\ ~(1 <= n - 1) => n - 1 = 0
                                 /\ \A k \in 1 .. n - 1 : k \in 1 .. n /\ 1 + k - 1 = k
    OBVIOUS
  <2>3. PICK n, m : n = Len(stack) /\ m = n - 1
    OBVIOUS
  <2>4. m \in Int /\ m - 1 + 1 = m /\ (~(1 <= m) => m = 0)
        /\ \A k \in 1 .. m : k \in 1 .. n /\ 1 + k - 1 = k
    BY <2>1, <2>2, <2>3
  <2>5. \A k \in 1 .. m : stack[k] \in Frame
    BY <2>1, <2>3, <2>4
  <2>6. /\ SubSeq(stack, 1, m) \in Seq(Frame)
        /\ Len(SubSeq(stack, 1, m)) = IF 1 <= m THEN m - 1 + 1 ELSE 0
        /\ \A k \in 1 .. m - 1 + 1 : SubSeq(stack, 1, m)[k] = stack[1 + k - 1]
    <3>1. 1 \in Int
      OBVIOUS
    <3> QED
      BY <2>4, <2>5, <3>1, SubSeqProperties
  <2>7. /\ Len(SubSeq(stack, 1, m)) = m
        /\ \A k \in 1 .. m : SubSeq(stack, 1, m)[k] = stack[k]
    BY <2>4, <2>6
  <2>8. DOMAIN SubSeq(stack, 1, m) = 1 .. m
    BY <2>6, <2>7
  <2> QED
    BY <1>2, <2>3, <2>7, <2>8 DEF Pop
<1> QED
  BY <1>1, <1>2, <1>4, <1>5 DEF Closes

\* Every step is of one of these kinds.
LEMMA Kinds ==
    ASSUME Linked, [Next]_vars
    PROVE  \/ Stays \/ (\E p \in Paths : Fetches(p)) \/ Advances
           \/ (\E i \in DOMAIN modules : Enters(i))
           \/ (\E x \in Items(Top.module) : BindsAt(x))
           \/ Closes \/ Flattens
<1>1. Inv /\ Identity /\ FreshStart
  BY DEF Linked, Safe
<1>2. CASE FlattenModule
  <2>1. phase = "flatten" /\ phase' = phase /\ stack = <<>> /\ stack' = stack
    BY <1>1, <1>2 DEF FlattenModule, Inv, WellDefined
  <2>2. Flattens
    BY <1>1, <1>2, <2>1, FlattenedStep DEF Flattens, Grows, Linked, Emitted
  <2> QED
    BY <2>2
<1>3. CASE ResolutionDone
  BY <1>3 DEF ResolutionDone, Stays
<1>4. CASE Finish
  BY <1>4 DEF Finish, Stays
<1>5. CASE UNCHANGED vars
  BY <1>5 DEF vars, Stays
<1>6. CASE LoadRoot \/ LoadPrelude
  BY <1>1, <1>6, LoadRootKind, LoadPreludeKind, PathsAssumption
<1> QED
  BY <1>1, <1>2, <1>3, <1>4, <1>5, <1>6, LoadImportKind, ResolveRootKind, ResolveImportKind,
     ResolvePreludeKind, NextImportKind, BindKind, FinishKind DEF Next
-----------------------------------------------------------------------------
(* What every step keeps.                                                   *)

SettledStay == \A i \in DOMAIN modules : Settled(i) => Settled(i)'

Steady == Grows /\ Identity' /\ SettledTablesKept /\ SettledStay

\* What every step keeps of the modules and their files.
LEMMA SteadyStep ==
    ASSUME Linked, [Next]_vars
    PROVE  Steady /\ Linked' /\ Safe /\ Safe'
<1>1. Linked' /\ Safe /\ Safe'
  BY NextLinked DEF Linked
<1>2. Identity' /\ SettledTablesKept
  BY <1>1, NextFreezes DEF Safe
<1>3. Grows
  <2>1. CASE FlattenModule
    BY <2>1, FlattenedStep DEF Linked, Safe, Emitted
  <2> QED
    BY <2>1, StepKinds, QuietStep DEF Linked
<1>4. SettledStay
  <2>0. Settled(Top.module) => stack = <<>>
    BY <1>1, TopNotSettled
  <2>1. CASE Stays \/ Advances
    BY <2>1 DEF Stays, Advances, SettledStay, Settled
  <2>2. ASSUME NEW p \in Paths, Fetches(p) PROVE SettledStay
    BY <2>2 DEF Fetches, Unchanged, SettledStay, Settled
  <2>3. ASSUME NEW i \in DOMAIN modules, Enters(i) PROVE SettledStay
    BY <2>3 DEF Enters, SettledStay, Settled
  <2>4. ASSUME NEW x \in Items(Top.module), BindsAt(x) PROVE SettledStay
    BY <2>0, <2>4 DEF BindsAt, SettledStay, Settled
  <2>5. CASE Closes
    BY <2>0, <2>5 DEF Closes, SettledStay, Settled
  <2>6. CASE Flattens
    BY <2>6 DEF Flattens, SettledStay, Settled
  <2> QED
    BY <2>1, <2>2, <2>3, <2>4, <2>5, <2>6, Kinds
<1> QED
  BY <1>1, <1>2, <1>3, <1>4 DEF Steady

\* A file that is ready stays so, and exports what it did.
LEMMA ReadyStays ==
    ASSUME Steady, Identity, NEW p, Ready(p)
    PROVE  Ready(p)' /\ ExportsOf(p)' = ExportsOf(p)
<1>1. PICK j : j = IndexOf(p)
  OBVIOUS
<1>2. j \in DOMAIN modules /\ modules[j].path = p /\ Settled(j)
  BY <1>1, ReadyFacts
<1>3. j \in DOMAIN modules' /\ modules'[j].path = p /\ Settled(j)'
  BY <1>2 DEF Steady, Grows, SettledStay
<1>4. Ready(p)'
  BY <1>3 DEF Ready
<1>5. IndexOf(p)' = j
  BY <1>3 DEF Steady, Identity, IndexOf
<1>6. modules'[j].exports = modules[j].exports
  BY <1>2 DEF Steady, SettledTablesKept, Settled
<1> QED
  BY <1>1, <1>4, <1>5, <1>6 DEF ExportsOf

\* A module imports what it did.
LEMMA ImportsStay ==
    ASSUME Grows, NEW i \in DOMAIN modules
    PROVE  /\ i \in DOMAIN modules' /\ modules'[i].path = modules[i].path
           /\ ImportsOf(i)' = ImportsOf(i) /\ Items(i)' = Items(i)
           /\ DeclsOf(i)' = DeclsOf(i)
           /\ \A x : ImportAt(i, x)' = ImportAt(i, x) /\ ItemAt(i, x)' = ItemAt(i, x)
<1>1. i \in DOMAIN modules' /\ modules'[i].path = modules[i].path /\ files' = files
  BY DEF Grows
<1>2. ImportsOf(i)' = ImportsOf(i) /\ DeclsOf(i)' = DeclsOf(i)
  BY <1>1 DEF ImportsOf, DeclsOf
<1> QED
  BY <1>1, <1>2 DEF Items, ImportAt, ItemAt

\* No activation is added, and only the innermost one left can have changed.
Trims ==
    /\ DOMAIN stack' \subseteq DOMAIN stack /\ Len(stack') <= Len(stack)
    /\ \A k \in DOMAIN stack' :
        /\ stack'[k].module = stack[k].module
        /\ k # Len(stack') => stack'[k] = stack[k]

\* Retops keeps the modules of the frames.
LEMMA RetopsTrims ==
    ASSUME Inv, NEW f, Retops(f)
    PROVE  Trims /\ Len(stack) \in DOMAIN stack /\ Top = stack[Len(stack)]
<1>1. stack # <<>> /\ Len(stack) \in DOMAIN stack /\ Len(stack) \in Nat
  BY TopType DEF Retops, Inv, TypeOK
<1> QED
  BY <1>1 DEF Retops, Trims, Top

\* Only a call adds a frame.
LEMMA KindsTrim ==
    ASSUME Inv, \/ Stays \/ (\E p \in Paths : Fetches(p)) \/ Advances
                \/ (\E x \in Items(Top.module) : BindsAt(x)) \/ Closes \/ Flattens
    PROVE  Trims
<1>1. stack \in Seq(Frame) /\ Len(stack) \in Nat
  BY DEF Inv, TypeOK
<1>2. CASE Stays \/ Flattens
  BY <1>1, <1>2 DEF Stays, Flattens, Trims
<1>3. CASE \E p \in Paths : Fetches(p)
  <2>1. stack' = stack \/ \E f : Retops(f)
    BY <1>3 DEF Fetches
  <2> QED
    BY <1>1, <2>1, RetopsTrims DEF Trims
<1>4. CASE Advances \/ \E x \in Items(Top.module) : BindsAt(x)
  BY <1>4, RetopsTrims DEF Advances, BindsAt
<1>5. CASE Closes
  <2>1. Len(stack) - 1 <= Len(stack) /\ 1 .. Len(stack) - 1 \subseteq 1 .. Len(stack)
    BY <1>1
  <2>2. DOMAIN stack = 1 .. Len(stack)
    BY <1>1
  <2> QED
    BY <1>5, <2>1, <2>2 DEF Closes, Trims
<1> QED
  BY <1>2, <1>3, <1>4, <1>5

\* The modules of the activations are loaded.
LEMMA FrameFacts ==
    ASSUME Safe, NEW k \in DOMAIN stack
    PROVE  /\ stack[k].module \in DOMAIN modules
           /\ modules[stack[k].module].state = "Resolving"
           /\ \A l \in DOMAIN stack : stack[l].module = stack[k].module => l = k
           /\ k \in Nat /\ k >= 1 /\ k <= Len(stack) /\ stack[k] \in GoodFrames
           /\ stack[k].import \in Nat /\ stack[k].item \in Nat /\ stack[k].item >= 1
           /\ Len(stack) \in DOMAIN stack /\ Top = stack[Len(stack)] /\ Len(stack) \in Nat
<1>1. stack \in Seq(GoodFrames) /\ Len(stack) \in Nat
  BY DEF Safe, Inv, TypeOK, WellDefined
<1>2. k \in Nat /\ k >= 1 /\ k <= Len(stack) /\ stack[k] \in GoodFrames
      /\ Len(stack) \in DOMAIN stack
  BY <1>1
<1>3. stack[k].import \in Nat /\ stack[k].item \in Nat /\ stack[k].item >= 1
  BY <1>2 DEF GoodFrames, Frame
<1> QED
  BY <1>1, <1>2, <1>3 DEF Safe, StackIsResolving, Top

-----------------------------------------------------------------------------
(* Which files are loaded, and why.                                         *)

\* Only files the root reaches are loaded.
LEMMA NeededStays ==
    ASSUME Linked, Steady, Needed, [Next]_vars
    PROVE  Needed'
<1>0. Inv /\ files' = files
  BY DEF Linked, Safe, Steady, Grows
<1>1. ASSUME NEW p \in Paths, Fetches(p) PROVE p \in Linking!Within(files, Root)
  <2>1. CASE p = Root
    BY <2>1, ReachesItself
  <2>2. CASE phase = "prelude" /\ p = Prelude /\ p # Root
    <3>1. PICK i \in DOMAIN modules : modules[i].path = Root
      BY <1>0, <2>2 DEF Inv, WellDefined, IsLoaded
    <3> QED
      BY <1>0, <2>2, <3>1, TargetsAre, ReachesItself, ReachesImports
  <2>3. CASE phase = "resolve" /\ stack # <<>> /\ Top.stage = "load" /\ p = CurrentImport.from
    <3>1. PICK i : i = Top.module
      OBVIOUS
    <3>2. i \in DOMAIN modules /\ Top.import \in DOMAIN ImportsOf(i)
      BY <1>0, <2>3, <3>1, TopType, CurrentImportType
    <3>3. p \in Linking!Targets(files, modules[i].path)
      BY <1>0, <2>3, <3>1, <3>2, TargetsAre DEF CurrentImport
    <3> QED
      BY <1>0, <3>2, <3>3, TargetsAre, ReachesImports DEF Needed
  <2> QED
    BY <1>1, <2>1, <2>2, <2>3 DEF Fetches
<1>2. ASSUME NEW i \in DOMAIN modules', i \notin DOMAIN modules
      PROVE  \E p \in Paths : Fetches(p) /\ modules'[i].path = p
  BY <1>2, Kinds DEF Stays, Fetches, Advances, Enters, BindsAt, Closes, Flattens
<1>3. ASSUME NEW i \in DOMAIN modules'
      PROVE  modules'[i].path \in Linking!Within(files, Root)
  <2>1. CASE i \in DOMAIN modules
    BY <2>1 DEF Needed, Steady, Grows
  <2>2. CASE i \notin DOMAIN modules
    BY <1>1, <1>2, <2>2
  <2> QED
    BY <2>1, <2>2
<1> QED
  BY <1>0, <1>3 DEF Needed

\* Without a call the frames stay nested,
LEMMA NestedStays ==
    ASSUME Safe, Steady, Nested, Trims
    PROVE  Nested'
<1>1. ASSUME NEW k \in DOMAIN stack', NEW l \in DOMAIN stack', k < l
      PROVE  \E q \in Linking!Targets(files, modules'[stack'[k].module].path) :
               modules'[stack'[l].module].path \in Linking!Within(files, q)
  <2>1. k \in DOMAIN stack /\ l \in DOMAIN stack
        /\ stack'[k].module = stack[k].module /\ stack'[l].module = stack[l].module
    BY DEF Trims
  <2>2. stack[k].module \in DOMAIN modules /\ stack[l].module \in DOMAIN modules
    BY <2>1, FrameFacts
  <2>3. /\ modules'[stack'[k].module].path = modules[stack[k].module].path
        /\ modules'[stack'[l].module].path = modules[stack[l].module].path
    BY <2>1, <2>2 DEF Steady, Grows
  <2> QED
    BY <1>1, <2>1, <2>3 DEF Nested
<1>2. files' = files
  BY DEF Steady, Grows
<1> QED
  BY <1>1, <1>2 DEF Nested

\* What the innermost activation waits for is reached from every activation.
LEMMA AwaitedIsNested ==
    ASSUME Safe, Nested, stack # <<>>, NEW t \in Paths,
           t \in Linking!Targets(files, modules[Top.module].path), NEW k \in DOMAIN stack
    PROVE  \E q \in Linking!Targets(files, modules[stack[k].module].path) :
             t \in Linking!Within(files, q)
<1>1. /\ Inv /\ k <= Len(stack) /\ k \in Nat /\ Len(stack) \in Nat
      /\ Len(stack) \in DOMAIN stack /\ Top = stack[Len(stack)]
      /\ Top.module \in DOMAIN modules
  BY FrameFacts, TopType DEF Safe
<1>2. CASE k = Len(stack)
  BY <1>1, <1>2, ReachesItself
<1>3. CASE k # Len(stack)
  <2>1. k < Len(stack)
    BY <1>1, <1>3
  <2>2. PICK q \in Linking!Targets(files, modules[stack[k].module].path) :
          modules[Top.module].path \in Linking!Within(files, q)
    BY <1>1, <2>1 DEF Nested
  <2> QED
    BY <1>1, <2>2, TargetsAre, ReachesImports
<1> QED
  BY <1>2, <1>3

\* What a module entered waits below for.
LEMMA EnteredIsAwaited ==
    ASSUME Safe, NEW i \in DOMAIN modules, Enters(i), stack # <<>>
    PROVE  /\ modules[i].path \in Linking!Targets(files, modules[Top.module].path)
           /\ modules[i].path = AwaitedBy(stack'[Len(stack)])
           /\ stack'[Len(stack)].stage \in {"bind", "use"}
           /\ Top.module \in DOMAIN modules
<1>1. Inv /\ Top.module \in DOMAIN modules
  BY TopType DEF Safe
<1>2. CASE Top.stage = "call" /\ modules[i].path = CurrentImport.from
           /\ stack'[Len(stack)].stage = "bind"
  <2>1. Top.import \in DOMAIN ImportsOf(Top.module)
    BY <1>1, <1>2, CurrentImportType
  <2> QED
    BY <1>1, <1>2, <2>1, TargetsAre DEF AwaitedBy, CurrentImport, Enters, SamePlace
<1>3. CASE Top.stage = "fallback" /\ modules[i].path = Prelude /\ modules[Top.module].path # Prelude
           /\ stack'[Len(stack)].stage = "use"
  BY <1>1, <1>3, TargetsAre DEF AwaitedBy
<1> QED
  BY <1>1, <1>2, <1>3 DEF Enters

\* The activations after a call.
LEMMA EnteredFrames ==
    ASSUME Safe, NEW i \in DOMAIN modules, Enters(i)
    PROVE  /\ \A k \in DOMAIN stack : k \in DOMAIN stack' /\ stack'[k].module = stack[k].module
           /\ \A k \in DOMAIN stack' : k \in DOMAIN stack \/ k = Len(stack) + 1
           /\ stack'[Len(stack) + 1] = StartFrame(i) /\ stack'[Len(stack) + 1].module = i
           /\ Len(stack) \in Nat /\ \A k \in DOMAIN stack : k <= Len(stack) /\ k \in Nat
           /\ stack = <<>> \/ Len(stack) \in DOMAIN stack
<1>1. stack \in Seq(Frame) /\ Len(stack) \in Nat /\ DOMAIN stack = 1 .. Len(stack)
  BY DEF Safe, Inv, TypeOK
<1>2. \A n \in Nat : \A k \in 1 .. n : k \in 1 .. n + 1 /\ k <= n /\ k \in Nat
  OBVIOUS
<1>3. \A n \in Nat : \A k \in 1 .. n + 1 : k \in 1 .. n \/ k = n + 1
  OBVIOUS
<1>4. stack = <<>> \/ Len(stack) \in DOMAIN stack
  BY <1>1
<1>5. StartFrame(i).module = i
  BY DEF StartFrame
<1>6. \A k \in DOMAIN stack : stack'[k].module = stack[k].module
  <2> TAKE k \in DOMAIN stack
  <2>1. stack # <<>>
    BY <1>1
  <2> QED
    BY <2>1 DEF Enters, Top
<1> QED
  BY <1>1, <1>2, <1>3, <1>4, <1>5, <1>6 DEF Enters

\* and with one, for it is a call for an import.
LEMMA NestedByCall ==
    ASSUME Safe, Steady, Nested, NEW i \in DOMAIN modules, Enters(i)
    PROVE  Nested'
<1>0. files' = files /\ Inv
  BY DEF Steady, Grows, Safe
<1>1. ASSUME NEW k \in DOMAIN stack', NEW l \in DOMAIN stack', k < l
      PROVE  \E q \in Linking!Targets(files, modules'[stack'[k].module].path) :
               modules'[stack'[l].module].path \in Linking!Within(files, q)
  <2>1. k \in DOMAIN stack /\ k <= Len(stack) /\ stack # <<>>
    <3>1. \A n, m \in Nat : m < n + 1 => m # n + 1
      OBVIOUS
    <3>2. k # Len(stack) + 1
      BY <1>1, EnteredFrames
    <3>3. k \in DOMAIN stack
      BY <3>2, EnteredFrames
    <3> QED
      BY <3>3, EnteredFrames DEF Safe, Inv, TypeOK
  <2>2. /\ stack[k].module \in DOMAIN modules
        /\ modules'[stack'[k].module].path = modules[stack[k].module].path
    BY <2>1, EnteredFrames, FrameFacts DEF Steady, Grows
  <2>3. CASE l = Len(stack) + 1
    <3>1. modules'[stack'[l].module].path = modules[i].path /\ modules[i].path \in Paths
      BY <1>0, <2>3, EnteredFrames, TargetsAre DEF Steady, Grows
    <3> QED
      BY <2>1, <2>2, <3>1, EnteredIsAwaited, AwaitedIsNested
  <2>4. CASE l \in DOMAIN stack
    <3>1. modules'[stack'[l].module].path = modules[stack[l].module].path
      BY <2>4, EnteredFrames, FrameFacts DEF Steady, Grows
    <3> QED
      BY <1>1, <2>1, <2>2, <2>4, <3>1 DEF Nested
  <2> QED
    BY <2>3, <2>4, EnteredFrames
<1> QED
  BY <1>0, <1>1 DEF Nested

\* Every activation waits for the one above it.
LEMMA AwaitedStays ==
    ASSUME Grows, NEW k, stack'[k].module \in DOMAIN modules
    PROVE  AwaitedBy(stack[k])' = AwaitedBy(stack'[k])
<1>1. PICK f : f = stack'[k]
  OBVIOUS
<1>2. ImportsOf(f.module)' = ImportsOf(f.module)
  BY <1>1, ImportsStay
<1>3. AwaitedBy(f) = AwaitedBy(stack'[k])
  BY <1>1
<1>4. AwaitedBy(stack[k])' = IF f.stage = "bind" THEN (ImportsOf(f.module)')[f.import].from
                             ELSE Prelude
  BY <1>1 DEF AwaitedBy, ImportsOf
<1>5. AwaitedBy(f) = IF f.stage = "bind" THEN ImportsOf(f.module)[f.import].from ELSE Prelude
  BY DEF AwaitedBy
<1> QED
  BY <1>2, <1>3, <1>4, <1>5

\* Without a call every frame waits for the one above it,
LEMMA CallsStays ==
    ASSUME Safe, Safe', Steady, Calls, Trims
    PROVE  Calls'
<1>0. DOMAIN stack' = 1 .. Len(stack') /\ Len(stack') \in Nat
  BY DEF Safe, Inv, TypeOK
<1>1. \A n \in Nat : \A k \in 1 .. n : k < n => k + 1 \in 1 .. n /\ k # n
  OBVIOUS
<1>2. ASSUME NEW k \in DOMAIN stack', k < Len(stack')
      PROVE  modules'[stack'[k + 1].module].path = AwaitedBy(stack[k])'
  <2>1. k + 1 \in DOMAIN stack' /\ k # Len(stack')
    BY <1>0, <1>1, <1>2
  <2>2. /\ k \in DOMAIN stack /\ k + 1 \in DOMAIN stack /\ stack'[k] = stack[k]
        /\ stack'[k + 1].module = stack[k + 1].module
    BY <2>1 DEF Trims
  <2>3. /\ stack[k].module \in DOMAIN modules /\ stack[k + 1].module \in DOMAIN modules
        /\ k < Len(stack)
    <3>1. \A a, b \in Nat : a + 1 <= b => a < b
      OBVIOUS
    <3>2. k + 1 <= Len(stack) /\ k \in Nat /\ Len(stack) \in Nat
      BY <2>2, FrameFacts
    <3> QED
      BY <2>2, <3>1, <3>2, FrameFacts
  <2>4. modules[stack[k + 1].module].path = AwaitedBy(stack[k])
    BY <2>2, <2>3 DEF Calls
  <2>5. AwaitedBy(stack[k])' = AwaitedBy(stack'[k])
    BY <2>2, <2>3, AwaitedStays DEF Steady
  <2>6. AwaitedBy(stack[k])' = AwaitedBy(stack[k])
    BY <2>2, <2>5
  <2> QED
    BY <2>2, <2>3, <2>4, <2>6 DEF Steady, Grows
<1> QED
  BY <1>2 DEF Calls

\* and after one.
LEMMA CallsByCall ==
    ASSUME Safe, Safe', Steady, Calls, NEW i \in DOMAIN modules, Enters(i)
    PROVE  Calls'
<1>0. DOMAIN stack' = 1 .. Len(stack') /\ Len(stack') \in Nat /\ Len(stack) \in Nat
      /\ Len(stack') = Len(stack) + 1 /\ DOMAIN stack = 1 .. Len(stack)
  BY DEF Safe, Inv, TypeOK, Enters
<1>1. \A n \in Nat : \A k \in 1 .. n + 1 : k < n + 1 =>
        k \in 1 .. n /\ (k # n => k + 1 \in 1 .. n /\ k < n)
  OBVIOUS
<1>2. ASSUME NEW k \in DOMAIN stack', k < Len(stack')
      PROVE  modules'[stack'[k + 1].module].path = AwaitedBy(stack[k])'
  <2>1. k \in DOMAIN stack /\ (k # Len(stack) => k + 1 \in DOMAIN stack /\ k < Len(stack))
    BY <1>0, <1>1, <1>2
  <2>6. stack # <<>>
    BY <2>1
  <2>2. stack[k].module \in DOMAIN modules /\ stack'[k].module = stack[k].module
    BY <2>1, FrameFacts, EnteredFrames
  <2>3. AwaitedBy(stack[k])' = AwaitedBy(stack'[k])
    BY <2>2, AwaitedStays DEF Steady
  <2>4. CASE k = Len(stack)
    <3>1. modules[i].path = AwaitedBy(stack'[k])
      BY <2>6, <2>4, EnteredIsAwaited
    <3> QED
      BY <2>3, <2>4, <3>1, EnteredFrames DEF Steady, Grows
  <2>5. CASE k # Len(stack)
    <3>1. /\ k + 1 \in DOMAIN stack /\ k < Len(stack) /\ stack'[k] = stack[k]
          /\ stack'[k + 1].module = stack[k + 1].module
      BY <2>1, <2>5, EnteredFrames DEF Enters
    <3>2. stack[k + 1].module \in DOMAIN modules
      BY <3>1, FrameFacts
    <3>3. modules[stack[k + 1].module].path = AwaitedBy(stack[k])
      BY <2>1, <3>1 DEF Calls
    <3>4. AwaitedBy(stack'[k]) = AwaitedBy(stack[k])
      BY <3>1
    <3> QED
      BY <2>3, <3>1, <3>2, <3>3, <3>4 DEF Steady, Grows
  <2> QED
    BY <2>4, <2>5
<1> QED
  BY <1>2 DEF Calls

-----------------------------------------------------------------------------
(* How far the imports of a module are.                                     *)

\* What an activation has answered after a step, it had answered before, or
\* the answer is the file that is ready now.
LEMMA AnsweredBefore ==
    ASSUME Linked, Safe', Steady, Calls, [Next]_vars, NEW k \in DOMAIN stack,
           NEW a \in DOMAIN ImportsOf(stack[k].module), NEW t,
           t = ImportsOf(stack[k].module)[a].from,
           k \in DOMAIN stack' => Answered(stack'[k], a, k = Len(stack'))
    PROVE  Answered(stack[k], a, k = Len(stack)) \/ Ready(t)'
<1>0. /\ Safe /\ Inv /\ Identity /\ stack # <<>>
      /\ k \in Nat /\ k >= 1 /\ k <= Len(stack) /\ Len(stack) \in Nat /\ Len(stack) \in DOMAIN stack
      /\ Top = stack[Len(stack)] /\ stack[k].module \in DOMAIN modules /\ stack[k].import \in Nat
      /\ DOMAIN stack = 1 .. Len(stack)
  <2>1. Safe
    BY DEF Linked
  <2> QED
    BY <2>1, FrameFacts DEF Safe, Inv, TypeOK
<1>1. a \in Nat /\ a >= 1 /\ a <= Len(ImportsOf(stack[k].module))
      /\ Len(ImportsOf(stack[k].module)) \in Nat
  BY <1>0, ImportsType
<1>2. ASSUME NEW f, Retops(f), k = Len(stack) => (Answered(f, a, TRUE) =>
                Answered(stack[k], a, TRUE) \/ Ready(t)')
      PROVE  Answered(stack[k], a, k = Len(stack)) \/ Ready(t)'
  <2>1. k \in DOMAIN stack' /\ Len(stack') = Len(stack)
        /\ stack'[k] = IF k = Len(stack) THEN f ELSE stack[k]
    BY <1>2 DEF Retops
  <2> QED
    BY <1>2, <2>1
<1>3. CASE Stays
  BY <1>3 DEF Stays
<1>9. CASE Flattens
  BY <1>0, <1>9 DEF Flattens
<1>4. CASE \E p \in Paths : Fetches(p)
  <2>1. PICK f : Retops(f) /\ SamePlace(f) /\ f.stage = "call" /\ Top.stage = "load"
    BY <1>0, <1>4 DEF Fetches
  <2>2. k = Len(stack) => (Answered(f, a, TRUE) => Answered(stack[k], a, TRUE))
    BY <1>0, <2>1 DEF Answered, SamePlace
  <2> QED
    BY <1>2, <2>1, <2>2
<1>5. CASE Advances
  <2>1. PICK f : Retops(f) /\
        \/ /\ Top.stage = "call" /\ f.stage = "bind" /\ SamePlace(f)
           /\ Ready(CurrentImport.from)
        \/ /\ Top.stage = "bind"
           /\ \/ f.import = Top.import + 1 /\ f.stage = "load"
              \/ Top.import >= Len(ImportsOf(Top.module)) /\ f.stage = "fallback"
        \/ Top.stage = "fallback" /\ f.stage = "use"
    BY <1>5 DEF Advances
  <2>2. ASSUME k = Len(stack), Answered(f, a, TRUE)
        PROVE  Answered(stack[k], a, TRUE) \/ Ready(t)'
    <3>0. stack[k] = Top
      BY <1>0, <2>2
    <3>1. CASE Top.stage = "call" /\ f.stage = "bind" /\ SamePlace(f) /\ Ready(CurrentImport.from)
      <4>1. a = Top.import => t = CurrentImport.from
        BY <3>0 DEF CurrentImport
      <4>2. a = Top.import => Ready(t)'
        BY <1>0, <3>1, <4>1, ReadyStays
      <4> QED
        BY <2>2, <3>0, <3>1, <4>2 DEF Answered, SamePlace
    <3>2. CASE Top.stage = "bind" /\ f.import = Top.import + 1 /\ f.stage = "load"
      <4>1. \A m, n \in Nat : m < n + 1 => m < n \/ m = n
        OBVIOUS
      <4>2. a < Top.import + 1
        BY <2>2, <3>2 DEF Answered
      <4>3. a < Top.import \/ a = Top.import
        BY <1>0, <1>1, <3>0, <4>1, <4>2
      <4> QED
        BY <3>0, <3>2, <4>3 DEF Answered
    <3>3. CASE Top.stage = "bind" /\ Top.import >= Len(ImportsOf(Top.module))
      <4>1. \A m, n, l \in Nat : m <= n /\ l >= n => m < l \/ m = l
        OBVIOUS
      <4>2. a < Top.import \/ a = Top.import
        BY <1>0, <1>1, <3>0, <3>3, <4>1
      <4> QED
        BY <3>0, <3>3, <4>2 DEF Answered
    <3>4. CASE Top.stage = "fallback"
      BY <3>0, <3>4 DEF Answered
    <3> QED
      BY <2>1, <3>1, <3>2, <3>3, <3>4
  <2> QED
    BY <1>2, <2>1, <2>2
<1>6. CASE \E i \in DOMAIN modules : Enters(i)
  <2>1. PICK i \in DOMAIN modules : Enters(i)
    BY <1>6
  <2>2. k \in DOMAIN stack' /\ Len(stack') = Len(stack) + 1 /\ k # Len(stack')
    <3>1. \A m, n \in Nat : m <= n => m # n + 1
      OBVIOUS
    <3> QED
      BY <1>0, <2>1, <3>1, EnteredFrames DEF Enters
  <2>3. CASE k # Len(stack)
    BY <2>1, <2>2, <2>3 DEF Enters, Answered
  <2>4. CASE k = Len(stack)
    BY <1>0, <2>1, <2>2, <2>4 DEF Enters, Answered, SamePlace
  <2> QED
    BY <2>3, <2>4
<1>7. CASE \E x \in Items(Top.module) : BindsAt(x)
  <2>1. PICK f : Retops(f) /\ f.import = Top.import /\ f.stage = "bind" /\ Top.stage = "bind"
    BY <1>7 DEF BindsAt
  <2>2. k = Len(stack) => (Answered(f, a, TRUE) => Answered(stack[k], a, TRUE))
    BY <1>0, <2>1 DEF Answered
  <2> QED
    BY <1>2, <2>1, <2>2
<1>8. CASE Closes
  <2>1. CASE k = Len(stack)
    BY <1>0, <1>8, <2>1 DEF Closes, Answered
  <2>2. CASE k # Len(stack)
    <3>1. \A m, n \in Nat : m >= 1 /\ m <= n /\ m # n =>
            m < n /\ m \in 1 .. n - 1 /\ (m = n - 1 => m + 1 = n)
      OBVIOUS
    <3>2. /\ k \in DOMAIN stack' /\ stack'[k] = stack[k] /\ k < Len(stack)
          /\ k = Len(stack') => k + 1 = Len(stack)
      BY <1>0, <1>8, <2>2, <3>1 DEF Closes
    <3>3. CASE k # Len(stack')
      BY <2>2, <3>2, <3>3 DEF Answered
    <3>4. CASE k = Len(stack')
      <4>0. PICK i, p : i = Top.module /\ p = modules[i].path
        OBVIOUS
      <4>1. p = AwaitedBy(stack[k])
        BY <1>0, <3>2, <3>4, <4>0 DEF Calls
      <4>2. i \in DOMAIN modules
        BY <1>0, <4>0, TopType
      <4>3. modules'[i].state = "Resolved"
        BY <1>0, <1>8, <4>0, <4>2, TopType DEF Closes, Module
      <4>4. Ready(p)'
        BY <4>0, <4>2, <4>3 DEF Ready, Settled, Steady, Grows
      <4>5. stack[k].stage = "bind" /\ a = stack[k].import => t = p
        BY <4>1 DEF AwaitedBy
      <4> QED
        BY <3>2, <4>4, <4>5 DEF Answered
    <3> QED
      BY <3>3, <3>4
  <2> QED
    BY <2>1, <2>2
<1> QED
  BY <1>3, <1>4, <1>5, <1>6, <1>7, <1>8, <1>9, Kinds

\* The innermost activation is one of a module being resolved.
LEMMA TopIsOpen ==
    ASSUME Safe, stack # <<>>
    PROVE  /\ Top.module \in DOMAIN modules /\ modules[Top.module].state = "Resolving"
           /\ modules[Top.module] \in Module
BY TopType DEF Safe, StackIsResolving, Top

\* Only a call of resolve_module opens a module.
LEMMA OpensByEntry ==
    ASSUME Linked, NoneForgotten, [Next]_vars,
           NEW i \in DOMAIN modules', modules'[i].state # "Loaded"
    PROVE  i \in DOMAIN modules /\ (modules[i].state # "Loaded" \/ Enters(i))
<1>0. Safe
  BY DEF Linked
<1>1. CASE \E j \in DOMAIN modules : Enters(j)
  BY <1>1 DEF Enters
<1>2. CASE Stays \/ Advances
  BY <1>2 DEF Stays, Advances
<1>3. CASE \E p \in Paths : Fetches(p)
  BY <1>3 DEF Fetches, Unchanged
<1>4. CASE \E x \in Items(Top.module) : BindsAt(x)
  BY <1>0, <1>4, TopIsOpen DEF BindsAt
<1>5. CASE Closes
  BY <1>0, <1>5, TopIsOpen DEF Closes
<1>6. CASE Flattens
  BY <1>6 DEF Flattens, NoneForgotten, Settled
<1> QED
  BY <1>1, <1>2, <1>3, <1>4, <1>5, <1>6, Kinds

\* The imports that are behind are resolved.
LEMMA ResolvesStay ==
    ASSUME Linked, Safe', Steady, Calls, NoneForgotten, Resolves, [Next]_vars
    PROVE  Resolves'
<1>0. Safe /\ Identity
  BY DEF Linked, Safe
<1>1. ASSUME NEW i \in DOMAIN modules', modules'[i].state # "Loaded",
             NEW a, NEW t, i \in DOMAIN modules => a \in DOMAIN ImportsOf(i),
             i \in DOMAIN modules => t = ImportsOf(i)[a].from,
             \A k \in DOMAIN stack' : stack'[k].module = i =>
                Answered(stack'[k], a, k = Len(stack'))
      PROVE  Ready(t)'
  <2>1. CASE i \in DOMAIN modules /\ modules[i].state # "Loaded"
    <3>1. ASSUME NEW k \in DOMAIN stack, stack[k].module = i
          PROVE  Answered(stack[k], a, k = Len(stack)) \/ Ready(t)'
      <4>1. k \in DOMAIN stack' => stack'[k].module = stack[k].module
        <5>1. CASE Trims
          BY <5>1 DEF Trims
        <5>2. CASE \E j \in DOMAIN modules : Enters(j)
          BY <1>0, <5>2, EnteredFrames
        <5> QED
          BY <1>0, <5>1, <5>2, Kinds, KindsTrim DEF Safe
      <4>2. k \in DOMAIN stack' => Answered(stack'[k], a, k = Len(stack'))
        BY <1>1, <3>1, <4>1
      <4> QED
        BY <1>1, <2>1, <3>1, <4>2, AnsweredBefore
    <3>2. CASE \A k \in DOMAIN stack : stack[k].module = i => Answered(stack[k], a, k = Len(stack))
      <4>1. Ready(t)
        BY <1>1, <2>1, <3>2 DEF Resolves
      <4> QED
        BY <1>0, <4>1, ReadyStays
    <3> QED
      BY <3>1, <3>2
  <2>2. CASE i \notin DOMAIN modules \/ modules[i].state = "Loaded"
    <3>1. i \in DOMAIN modules /\ Enters(i)
      BY <1>1, <2>2, OpensByEntry
    <3>2. stack'[Len(stack) + 1] = StartFrame(i) /\ Len(stack) + 1 \in DOMAIN stack'
      BY <1>0, <3>1, EnteredFrames DEF Enters
    <3>3. Answered(StartFrame(i), a, TRUE) \/ Answered(StartFrame(i), a, FALSE)
      BY <1>1, <3>1, <3>2, EnteredFrames, <1>0
    <3>4. a \in DOMAIN ImportsOf(i) /\ ImportsOf(i) \in Seq(Import)
      BY <1>0, <1>1, <3>1, ImportsType DEF Safe
    <3>5. a \in Nat /\ a >= 1 /\ ImportsOf(i) # <<>>
      BY <3>4
    <3>6. StartFrame(i).stage = "load" /\ StartFrame(i).import = 1
      BY <3>5 DEF StartFrame
    <3>7. ~(a < 1)
      BY <3>5
    <3> QED
      BY <3>3, <3>6, <3>7 DEF Answered
  <2> QED
    BY <2>1, <2>2
<1>2. ASSUME NEW i \in DOMAIN modules', modules'[i].state # "Loaded",
             NEW a \in DOMAIN ImportsOf(i)',
             \A k \in DOMAIN stack' : stack'[k].module = i =>
                Answered(stack'[k], a, k = Len(stack'))
      PROVE  Ready(ImportsOf(i)[a].from)'
  <2>1. PICK t : t = ImportsOf(i)'[a].from
    OBVIOUS
  <2>2. i \in DOMAIN modules => ImportsOf(i)' = ImportsOf(i)
    BY ImportsStay DEF Steady
  <2>3. Ready(t)'
    BY <1>1, <1>2, <2>1, <2>2
  <2> QED
    BY <2>1, <2>3 DEF Ready, ImportsOf, Settled
<1> QED
  BY <1>2 DEF Resolves, Answered

-----------------------------------------------------------------------------
(* What is resolved reaches only what is resolved.                          *)

\* A module that is settled, or about to be, has settled all it imports.
LEMMA ResolvedImports ==
    ASSUME Linked, Order, Resolves, NEW i \in DOMAIN modules, modules[i].state # "Loaded",
           \A k \in DOMAIN stack : stack[k].module = i => k = Len(stack) /\ Top.stage = "use"
    PROVE  /\ Linking!Targets(files, modules[i].path) \subseteq SettledPaths
           /\ modules[i].path # Prelude => Ready(Prelude)
<1>0. Safe /\ Inv /\ Identity
  BY DEF Linked, Safe
<1>1. \A k \in DOMAIN stack : stack[k].module = i =>
        stack[k].stage = "use" /\ k = Len(stack) /\ stack[k] = Top
  BY FrameFacts, <1>0
<1>2. ASSUME NEW a \in DOMAIN ImportsOf(i) PROVE Ready(ImportsOf(i)[a].from)
  BY <1>1 DEF Resolves, Answered
<1>3. ASSUME modules[i].path # Prelude PROVE Ready(Prelude)
  <2>1. CASE Settled(i)
    BY <2>1 DEF Order, PreludeFirst, PreludeSettled, Ready
  <2>2. CASE ~Settled(i)
    <3>1. modules[i].state = "Resolving"
      <4>1. modules[i].state \in ResolveStates
        BY <1>0, ImportsType DEF Module
      <4> QED
        BY <2>2, <4>1 DEF ResolveStates, Settled
    <3>2. PICK k \in DOMAIN stack : stack[k].module = i
      BY <1>0, <3>1 DEF Safe, StackIsResolving
    <3>3. PreludeSettled
      BY <1>1, <1>3, <3>2 DEF Order, Waiting, IsPreludeFrame
    <3> QED
      BY <3>3 DEF PreludeSettled, Ready
  <2> QED
    BY <2>1, <2>2
<1>4. ASSUME NEW q \in Linking!Targets(files, modules[i].path) PROVE q \in SettledPaths
  <2>0. \/ \E a \in DOMAIN ImportsOf(i) : q = ImportsOf(i)[a].from
        \/ q = Prelude /\ modules[i].path # Prelude
    BY <1>0, TargetsAre
  <2>1. Ready(q)
    BY <1>2, <1>3, <2>0
  <2> QED
    BY <1>0, <2>1, TargetsAre DEF SettledPaths
<1> QED
  BY <1>3, <1>4

\* The imports of a resolved module are resolved.
LEMMA SettledImports ==
    ASSUME Linked, Order, Resolves, NEW i \in DOMAIN modules, Settled(i)
    PROVE  /\ Linking!Targets(files, modules[i].path) \subseteq SettledPaths
           /\ modules[i].path # Prelude => Ready(Prelude)
<1>1. \A k \in DOMAIN stack : stack[k].module # i
  BY FrameFacts DEF Linked, Settled
<1> QED
  BY <1>1, ResolvedImports DEF Settled

\* The resolved files reach resolved files only.
LEMMA SettledClosed ==
    ASSUME Linked, Order, Resolves
    PROVE  SettledPaths \in SUBSET Paths /\ Linking!Closed(files, SettledPaths)
<1>1. ASSUME NEW q \in SettledPaths PROVE Linking!Targets(files, q) \subseteq SettledPaths
  <2>1. PICK i \in DOMAIN modules : modules[i].path = q /\ Settled(i)
    BY DEF SettledPaths, Ready
  <2> QED
    BY <2>1, SettledImports
<1> QED
  BY <1>1 DEF Linking!Closed, SettledPaths

\* What is newly settled.
LEMMA SettlesTop ==
    ASSUME Linked, NoneForgotten, [Next]_vars, NEW i \in DOMAIN modules', Settled(i)'
    PROVE  /\ i \in DOMAIN modules
           /\ Settled(i) \/ (Closes /\ i = Top.module)
<1>0. Safe
  BY DEF Linked
<1>1. CASE Stays \/ Advances
  BY <1>1 DEF Stays, Advances, Settled
<1>2. CASE \E p \in Paths : Fetches(p)
  BY <1>2 DEF Fetches, Unchanged, Settled
<1>3. CASE \E j \in DOMAIN modules : Enters(j)
  <2>1. PICK j \in DOMAIN modules : Enters(j)
    BY <1>3
  <2>2. modules[j] \in Module
    BY <1>0, ImportsType DEF Safe
  <2>3. modules'[j].state = "Resolving"
    BY <2>1, <2>2, OpenedType DEF Enters
  <2> QED
    BY <2>1, <2>3 DEF Enters, Settled
<1>4. CASE \E x \in Items(Top.module) : BindsAt(x)
  <2>1. Top.module \in DOMAIN modules /\ modules[Top.module].state = "Resolving"
        /\ modules[Top.module] \in Module
    BY <1>0, <1>4, TopIsOpen DEF BindsAt
  <2>2. \A as, exported, pub : Bound(modules[Top.module], as, exported, pub).state = "Resolving"
    BY <2>1 DEF Bound, Module
  <2> QED
    BY <1>4, <2>1, <2>2 DEF BindsAt, Settled
<1>5. CASE Closes
  BY <1>5 DEF Closes, Settled
<1>6. CASE Flattens
  BY <1>6 DEF Flattens, NoneForgotten
<1> QED
  BY <1>1, <1>2, <1>3, <1>4, <1>5, <1>6, Kinds

\* No file on a cycle is resolved: it would reach itself resolved before.
LEMMA AcyclicStays ==
    ASSUME Linked, Order, Steady, Resolves, NoneForgotten, Acyclic, [Next]_vars
    PROVE  Acyclic'
<1>0. Safe /\ Inv /\ files' = files
  BY DEF Linked, Safe, Steady, Grows
<1>1. ASSUME Closes PROVE ~Linking!OnCycle(files, modules[Top.module].path)
  <2>1. PICK i : i = Top.module
    OBVIOUS
  <2>2. i \in DOMAIN modules /\ modules[i].state = "Resolving" /\ Top.stage = "use"
    BY <1>0, <1>1, <2>1, TopIsOpen DEF Closes
  <2>3. \A k \in DOMAIN stack : stack[k].module = i => k = Len(stack)
    BY <1>0, <1>1, <2>1, FrameFacts DEF Closes
  <2>4. Linking!Targets(files, modules[i].path) \subseteq SettledPaths
    BY <2>2, <2>3, ResolvedImports
  <2>5. modules[i].path \notin SettledPaths
    BY <1>0, <2>2, IndexIs DEF SettledPaths, Settled, Safe
  <2>6. \A q \in SettledPaths : Linking!Within(files, q) \subseteq SettledPaths
    BY SettledClosed, ReachesNoMore
  <2> QED
    BY <2>1, <2>4, <2>5, <2>6 DEF Linking!OnCycle
<1>2. ASSUME NEW i \in DOMAIN modules', Settled(i)'
      PROVE  ~Linking!OnCycle(files, modules'[i].path)
  <2>1. /\ i \in DOMAIN modules /\ modules'[i].path = modules[i].path
        /\ Settled(i) \/ (Closes /\ i = Top.module)
    BY <1>2, SettlesTop DEF Steady, Grows
  <2> QED
    BY <1>1, <2>1 DEF Acyclic
<1> QED
  BY <1>0, <1>2 DEF Acyclic

\* No loaded module is left unresolved.
LEMMA NoneForgottenStays ==
    ASSUME Linked, Order, Steady, NoneForgotten, [Next]_vars
    PROVE  NoneForgotten'
<1>0. Safe /\ Inv /\ Identity
  BY DEF Linked, Safe
<1>1. CASE Stays
  <2>1. ASSUME phase = "resolve", stack = <<>>, NEW i \in DOMAIN modules PROVE Settled(i)
    <3>1. modules[i].state \in ResolveStates /\ modules[i].state # "Resolving"
      BY <1>0, <2>1, ImportsType DEF Module, Safe, StackIsResolving
    <3>2. modules[i].state = "Loaded" => Settled(i)
      <4>1. PreludeSettled
        BY <2>1 DEF Order, PreludeDone
      <4> QED
        BY <1>0, <2>1, <4>1 DEF NoneForgotten, PreludeSettled, Identity
    <3> QED
      BY <3>1, <3>2 DEF ResolveStates, Settled
  <2> QED
    BY <1>1, <2>1 DEF Stays, NoneForgotten, Settled, Top, CurrentImport, ImportsOf
<1>2. CASE \E p \in Paths : Fetches(p)
  <2>1. PICK p \in Paths : Fetches(p)
    BY <1>2
  <2>2. CASE phase \in {"root", "prelude"}
    BY <2>1, <2>2 DEF Fetches, Unchanged, NoneForgotten
  <2>3. CASE phase \notin {"root", "prelude"}
    <3>1. PICK f : Retops(f) /\ SamePlace(f) /\ f.stage = "call" /\ Top.stage = "load"
                    /\ phase = "resolve" /\ phase' = "resolve" /\ p = CurrentImport.from
                    /\ stack # <<>>
      BY <2>1, <2>3 DEF Fetches
    <3>2. stack' # <<>> /\ Top' = f
      BY <1>0, <3>1, TopType DEF Retops, Top
    <3>3. CurrentImport' = CurrentImport
      <4>1. ImportsOf(f.module)' = ImportsOf(f.module)
        BY <1>0, <3>1, ImportsStay, TopType DEF Steady, Retops
      <4> QED
        BY <3>1, <3>2, <4>1 DEF CurrentImport, Retops, SamePlace, ImportsOf
    <3>4. ASSUME NEW i \in DOMAIN modules', modules'[i].state = "Loaded"
          PROVE  modules'[i].path = Prelude \/ modules'[i].path = p
      BY <2>1, <3>1, <3>4 DEF Fetches, Unchanged, NoneForgotten
    <3> QED
      BY <3>1, <3>2, <3>3, <3>4 DEF NoneForgotten
  <2> QED
    BY <2>2, <2>3
<1>3. ASSUME phase' = "resolve",
             \A i \in DOMAIN modules' : modules'[i].state = "Loaded" => modules'[i].path = Prelude
      PROVE  NoneForgotten'
  BY <1>3 DEF NoneForgotten
<1>4. CASE Advances
  <2>1. \A i \in DOMAIN modules : modules[i].state = "Loaded" => modules[i].path = Prelude
    <3>1. CASE Top.stage # "call"
      BY <1>4, <3>1 DEF Advances, NoneForgotten
    <3>2. CASE Ready(CurrentImport.from)
      BY <1>0, <1>4, <3>2, IndexIs DEF Advances, NoneForgotten, Settled
    <3> QED
      BY <1>4, <3>1, <3>2 DEF Advances
  <2> QED
    BY <1>3, <1>4, <2>1 DEF Advances
<1>5. CASE \E i \in DOMAIN modules : Enters(i)
  <2>1. PICK i \in DOMAIN modules : Enters(i)
    BY <1>5
  <2>2. modules'[i].state = "Resolving"
    BY <1>0, <2>1, ImportsType, OpenedType DEF Enters
  <2>3. ASSUME NEW j \in DOMAIN modules, modules[j].state = "Loaded", j # i
        PROVE  modules[j].path = Prelude
    <3>0. modules[j].path # modules[i].path
      BY <1>0, <2>3 DEF Identity
    <3> QED
      BY <2>1, <2>3, <3>0 DEF Enters, NoneForgotten
  <2> QED
    BY <1>3, <2>1, <2>2, <2>3 DEF Enters
<1>6. CASE \/ \E x \in Items(Top.module) : BindsAt(x)
           \/ Closes
  <2>1. /\ DOMAIN modules' = DOMAIN modules /\ phase = "resolve" /\ phase' = "resolve"
        /\ \A j \in DOMAIN modules : j # Top.module => modules'[j] = modules[j]
        /\ Top.module \in DOMAIN modules /\ Top.stage \in {"bind", "use"} /\ stack # <<>>
    BY <1>0, <1>6, TopIsOpen DEF BindsAt, Closes
  <2>2. modules'[Top.module].state # "Loaded"
    <3>1. modules[Top.module] \in Module /\ modules[Top.module].state = "Resolving"
      BY <1>0, <2>1, TopIsOpen
    <3>2. \A as, exported, pub : Bound(modules[Top.module], as, exported, pub).state = "Resolving"
      BY <3>1 DEF Bound, Module
    <3>3. \A b :
            [modules[Top.module] EXCEPT !.fallback = b, !.state = "Resolved"].state = "Resolved"
      BY <3>1 DEF Module
    <3>4. CASE Closes
      <4>1. PICK b : modules'[Top.module] =
              [modules[Top.module] EXCEPT !.fallback = b, !.state = "Resolved"]
        BY <3>4 DEF Closes
      <4> QED
        BY <3>3, <4>1
    <3> QED
      BY <1>6, <3>2, <3>4 DEF BindsAt
  <2> QED
    BY <1>3, <2>1, <2>2 DEF NoneForgotten
<1>7. CASE Flattens
  BY <1>7 DEF Flattens, NoneForgotten, Settled
<1> QED
  BY <1>1, <1>2, <1>4, <1>5, <1>6, <1>7, Kinds

-----------------------------------------------------------------------------
(* What the tables hold.                                                    *)

\* The fallback of a resolved module is what the prelude exports.
LEMMA FallbacksStay ==
    ASSUME Linked, Order, Steady, Resolves, NoneForgotten, Fallbacks, [Next]_vars
    PROVE  Fallbacks'
<1>0. Safe /\ Inv /\ Identity
  BY DEF Linked, Safe
<1>1. ASSUME Ready(Prelude) PROVE ExportsOf(Prelude)' = ExportsOf(Prelude)
  BY <1>0, <1>1, ReadyStays
<1>2. ASSUME NEW i \in DOMAIN modules', i \notin DOMAIN modules
      PROVE  modules'[i].fallback = EmptyBindings /\ ~Settled(i)'
  BY <1>2, Kinds DEF Stays, Fetches, Advances, Enters, BindsAt, Closes, Flattens, Settled
<1>3. ASSUME NEW i \in DOMAIN modules
      PROVE  modules'[i].fallback = IF Settled(i)' /\ modules'[i].path # Prelude
                                    THEN ExportsOf(Prelude)' ELSE EmptyBindings
  <2>0. modules'[i].path = modules[i].path /\ i \in DOMAIN modules' /\ modules[i] \in Module
    BY <1>0, ImportsType DEF Steady, Grows
  <2>1. CASE modules'[i].fallback = modules[i].fallback /\ (Settled(i)' <=> Settled(i))
    <3>1. Settled(i) /\ modules[i].path # Prelude => ExportsOf(Prelude)' = ExportsOf(Prelude)
      BY <1>1, SettledImports
    <3> QED
      BY <2>0, <2>1, <3>1 DEF Fallbacks
  <2>2. CASE Stays \/ Advances
    BY <2>1, <2>2 DEF Stays, Advances, Settled
  <2>3. CASE \E p \in Paths : Fetches(p)
    BY <2>1, <2>3 DEF Fetches, Unchanged, Settled
  <2>4. CASE \E j \in DOMAIN modules : Enters(j)
    <3>1. PICK j \in DOMAIN modules : Enters(j)
      BY <2>4
    <3>2. CASE i = j
      <4>1. Opened(modules[i]).fallback = EmptyBindings /\ Opened(modules[i]).state = "Resolving"
        BY <2>0 DEF Opened, Module
      <4> QED
        BY <3>1, <3>2, <4>1 DEF Enters, Settled
    <3>3. CASE i # j
      BY <2>1, <3>1, <3>3 DEF Enters, Settled
    <3> QED
      BY <3>2, <3>3
  <2>5. CASE \E x \in Items(Top.module) : BindsAt(x)
    <3>1. \A as, exported, pub :
            /\ Bound(modules[i], as, exported, pub).state = modules[i].state
            /\ Bound(modules[i], as, exported, pub).fallback = modules[i].fallback
      BY <2>0 DEF Bound, Module
    <3>2. \/ modules'[i] = modules[i]
          \/ \E as, exported, pub : modules'[i] = Bound(modules[i], as, exported, pub)
      BY <2>5 DEF BindsAt
    <3> QED
      BY <2>1, <3>1, <3>2 DEF Settled
  <2>6. CASE Closes
    <3>1. CASE i # Top.module
      BY <2>1, <2>6, <3>1 DEF Closes, Settled
    <3>2. CASE i = Top.module
      <4>1. /\ modules'[i].state = "Resolved"
            /\ modules'[i].fallback = IF modules[i].isPrelude THEN modules[i].fallback
                                      ELSE ExportsOf(Prelude)
        BY <2>0, <2>6, <3>2 DEF Closes, Module
      <4>2. ~Settled(i) /\ modules[i].state # "Loaded"
        BY <1>0, <2>6, <3>2, TopIsOpen DEF Closes, Settled
      <4>3. modules[i].isPrelude <=> modules[i].path = Prelude
        BY <1>0 DEF Identity
      <4>4. modules[i].path # Prelude => Ready(Prelude)
        BY <1>0, <2>6, <3>2, <4>2, FrameFacts, ResolvedImports DEF Closes
      <4> QED
        BY <1>1, <2>0, <4>1, <4>2, <4>3, <4>4 DEF Fallbacks, Settled
    <3> QED
      BY <3>1, <3>2
  <2>7. CASE Flattens
    BY <2>1, <2>7 DEF Flattens, NoneForgotten, Settled
  <2> QED
    BY <2>2, <2>3, <2>4, <2>5, <2>6, <2>7, Kinds
<1>4. ASSUME NEW i \in DOMAIN modules'
      PROVE  modules'[i].fallback = IF Settled(i)' /\ modules'[i].path # Prelude
                                    THEN ExportsOf(Prelude)' ELSE EmptyBindings
  BY <1>2, <1>3
<1> QED
  BY <1>4 DEF Fallbacks, Settled, ExportsOf

\* An activation has passed after a step what it had passed before.
LEMMA PassedStays ==
    ASSUME Linked, \/ Stays \/ (\E p \in Paths : Fetches(p)) \/ Advances
                   \/ (\E i \in DOMAIN modules : Enters(i)) \/ Closes \/ Flattens,
           NEW k \in DOMAIN stack, NEW x \in Items(stack[k].module)
    PROVE  (k \in DOMAIN stack' => Passed(stack'[k], x)) <=> Passed(stack[k], x)
<1>0. /\ Safe /\ Inv /\ stack # <<>>
      /\ k \in Nat /\ k >= 1 /\ k <= Len(stack) /\ Len(stack) \in Nat /\ Len(stack) \in DOMAIN stack
      /\ Top = stack[Len(stack)] /\ stack[k].module \in DOMAIN modules
      /\ stack[k].import \in Nat /\ stack[k].item \in Nat /\ DOMAIN stack = 1 .. Len(stack)
  <2>1. Safe
    BY DEF Linked
  <2>2. stack \in Seq(Frame)
    BY <2>1 DEF Safe, Inv, TypeOK
  <2>3. DOMAIN stack = 1 .. Len(stack) /\ stack # <<>>
    BY <2>2
  <2>4. /\ k \in Nat /\ k >= 1 /\ k <= Len(stack) /\ Len(stack) \in Nat
        /\ Len(stack) \in DOMAIN stack /\ Top = stack[Len(stack)]
        /\ stack[k].module \in DOMAIN modules
        /\ stack[k].import \in Nat /\ stack[k].item \in Nat
    BY <2>1, FrameFacts
  <2> QED
    BY <2>1, <2>3, <2>4 DEF Safe
<1>1. /\ x[1] \in Nat /\ x[1] >= 1 /\ x[1] <= Len(ImportsOf(stack[k].module))
      /\ x[2] \in Nat /\ x[2] >= 1 /\ x[2] <= Len(ImportsOf(stack[k].module)[x[1]].items)
      /\ Len(ImportsOf(stack[k].module)) \in Nat
      /\ Len(ImportsOf(stack[k].module)[x[1]].items) \in Nat
  <2>1. /\ x[1] \in DOMAIN ImportsOf(stack[k].module)
        /\ x[2] \in DOMAIN ImportsOf(stack[k].module)[x[1]].items
    BY <1>0, ItemFacts DEF ImportAt
  <2>2. ImportsOf(stack[k].module) \in Seq(Import)
    BY <1>0, ImportsType
  <2>3. ImportsOf(stack[k].module)[x[1]].items \in Seq(ImportItem)
    <3>1. ImportsOf(stack[k].module)[x[1]] \in Import
      BY <2>1, <2>2
    <3> QED
      BY <3>1 DEF Import
  <2> QED
    BY <2>1, <2>2, <2>3
<1>2. ASSUME NEW f, Retops(f), k = Len(stack) => (Passed(f, x) <=> Passed(stack[k], x))
      PROVE  (k \in DOMAIN stack' => Passed(stack'[k], x)) <=> Passed(stack[k], x)
  <2>1. k \in DOMAIN stack' /\ stack'[k] = IF k = Len(stack) THEN f ELSE stack[k]
    BY <1>2 DEF Retops
  <2> QED
    BY <1>2, <2>1
<1>3. CASE Stays
  BY <1>3 DEF Stays
<1>4. CASE Flattens
  BY <1>0, <1>4 DEF Flattens
<1>5. CASE \E p \in Paths : Fetches(p)
  <2>1. PICK f : Retops(f) /\ SamePlace(f) /\ f.stage = "call" /\ Top.stage = "load"
    BY <1>0, <1>5 DEF Fetches
  <2>2. k = Len(stack) => (Passed(f, x) <=> Passed(stack[k], x))
    BY <1>0, <2>1 DEF Passed, SamePlace
  <2> QED
    BY <1>2, <2>1, <2>2
<1>6. CASE Advances
  <2>1. PICK f : Retops(f) /\
        \/ Top.stage = "call" /\ f.stage = "bind" /\ SamePlace(f)
        \/ /\ Top.stage = "bind" /\ Top.item > Len(CurrentImport.items) /\ f.item = 1
           /\ f.import = Top.import + 1 /\ f.stage = "load"
        \/ /\ Top.stage = "bind" /\ Top.item > Len(CurrentImport.items)
           /\ Top.import >= Len(ImportsOf(Top.module)) /\ f.stage = "fallback"
        \/ Top.stage = "fallback" /\ f.stage = "use"
    BY <1>6 DEF Advances
  <2>2. ASSUME k = Len(stack) PROVE Passed(f, x) <=> Passed(stack[k], x)
    <3>0. stack[k] = Top
      BY <1>0, <2>2
    <3>1. CASE Top.stage = "call" /\ f.stage = "bind" /\ SamePlace(f)
      BY <3>0, <3>1 DEF Passed, SamePlace
    <3>2. CASE /\ Top.stage = "bind" /\ Top.item > Len(CurrentImport.items) /\ f.item = 1
               /\ f.import = Top.import + 1 /\ f.stage = "load"
      <4>1. x[1] = Top.import => x[2] < Top.item
        <5>1. x[1] = Top.import => Top.item > Len(ImportsOf(stack[k].module)[x[1]].items)
          BY <3>0, <3>2 DEF CurrentImport
        <5>2. \A m, n, l \in Nat : m <= n /\ l > n => m < l
          OBVIOUS
        <5> QED
          BY <1>0, <1>1, <3>0, <5>1, <5>2
      <4>2. \A m, n, a, b \in Nat : b >= 1 /\ (m = n => b < a) =>
              ((m < n + 1 \/ (m = n + 1 /\ b < 1)) <=> (m < n \/ (m = n /\ b < a)))
        OBVIOUS
      <4>3. (x[1] < Top.import + 1 \/ (x[1] = Top.import + 1 /\ x[2] < 1))
              <=> (x[1] < Top.import \/ (x[1] = Top.import /\ x[2] < Top.item))
        BY <1>0, <1>1, <3>0, <4>1, <4>2
      <4> QED
        BY <3>0, <3>2, <4>3 DEF Passed
    <3>3. CASE /\ Top.stage = "bind" /\ Top.item > Len(CurrentImport.items)
               /\ Top.import >= Len(ImportsOf(Top.module)) /\ f.stage = "fallback"
      <4>1. x[1] = Top.import => x[2] < Top.item
        <5>1. x[1] = Top.import => Top.item > Len(ImportsOf(stack[k].module)[x[1]].items)
          BY <3>0, <3>3 DEF CurrentImport
        <5>2. \A m, n, l \in Nat : m <= n /\ l > n => m < l
          OBVIOUS
        <5> QED
          BY <1>0, <1>1, <3>0, <5>1, <5>2
      <4>2. \A m, n, l \in Nat : m <= n /\ l >= n => m < l \/ m = l
        OBVIOUS
      <4>3. x[1] < Top.import \/ x[1] = Top.import
        BY <1>0, <1>1, <3>0, <3>3, <4>2
      <4> QED
        BY <3>0, <3>3, <4>1, <4>3 DEF Passed
    <3>4. CASE Top.stage = "fallback" /\ f.stage = "use"
      BY <3>0, <3>4 DEF Passed
    <3> QED
      BY <2>1, <3>1, <3>2, <3>3, <3>4
  <2> QED
    BY <1>2, <2>1, <2>2
<1>7. CASE \E i \in DOMAIN modules : Enters(i)
  <2>1. PICK i \in DOMAIN modules : Enters(i)
    BY <1>7
  <2>2. k \in DOMAIN stack'
    BY <1>0, <2>1, EnteredFrames
  <2>3. CASE k # Len(stack)
    BY <2>1, <2>2, <2>3 DEF Enters
  <2>4. CASE k = Len(stack)
    BY <1>0, <2>1, <2>2, <2>4 DEF Enters, Passed, SamePlace
  <2> QED
    BY <2>3, <2>4
<1>8. CASE Closes
  <2>1. CASE k = Len(stack)
    <3>1. \A n \in Nat : n \notin 1 .. n - 1
      OBVIOUS
    <3> QED
      BY <1>0, <1>8, <2>1, <3>1 DEF Closes, Passed
  <2>2. CASE k # Len(stack)
    <3>1. \A m, n \in Nat : m >= 1 /\ m <= n /\ m # n => m \in 1 .. n - 1
      OBVIOUS
    <3> QED
      BY <1>0, <1>8, <2>2, <3>1 DEF Closes
  <2> QED
    BY <2>1, <2>2
<1> QED
  BY <1>3, <1>4, <1>5, <1>6, <1>7, <1>8

\* What is bound stays bound: only BindImportItem binds more.
LEMMA PastStays ==
    ASSUME Linked, Steady, NEW i \in DOMAIN modules, modules[i].state # "Loaded",
           \/ Stays \/ (\E p \in Paths : Fetches(p)) \/ Advances
           \/ (\E j \in DOMAIN modules : Enters(j)) \/ Closes \/ Flattens
    PROVE  Past(i)' = Past(i)
<1>0. Safe /\ Inv /\ Items(i)' = Items(i)
  BY ImportsStay DEF Linked, Safe, Steady
<1>1. \A k \in DOMAIN stack' :
        \/ k \in DOMAIN stack /\ stack'[k].module = stack[k].module
        \/ stack'[k].module # i
  <2>1. CASE \E j \in DOMAIN modules : Enters(j)
    <3>1. PICK j \in DOMAIN modules : Enters(j)
      BY <2>1
    <3>2. j # i
      BY <3>1 DEF Enters
    <3> QED
      BY <1>0, <3>1, <3>2, EnteredFrames
  <2>2. CASE Trims
    BY <2>2 DEF Trims
  <2> QED
    BY <1>0, <2>1, <2>2, KindsTrim
<1>2. \A k \in DOMAIN stack : k \in DOMAIN stack' => stack'[k].module = stack[k].module
  <2>1. CASE \E j \in DOMAIN modules : Enters(j)
    BY <1>0, <2>1, EnteredFrames
  <2>2. CASE Trims
    BY <2>2 DEF Trims
  <2> QED
    BY <1>0, <2>1, <2>2, KindsTrim
<1>3. ASSUME NEW x \in Items(i)
      PROVE  Behind(stack, i, x) <=> Behind(stack', i, x)
  <2>1. ASSUME Behind(stack, i, x), NEW k \in DOMAIN stack', stack'[k].module = i
        PROVE  Passed(stack'[k], x)
    <3>1. k \in DOMAIN stack /\ stack[k].module = i
      BY <1>1, <2>1
    <3>2. Passed(stack[k], x)
      BY <2>1, <3>1 DEF Behind
    <3> QED
      BY <2>1, <3>1, <3>2, PassedStays
  <2>2. ASSUME Behind(stack', i, x), NEW k \in DOMAIN stack, stack[k].module = i
        PROVE  Passed(stack[k], x)
    <3>1. k \in DOMAIN stack' => Passed(stack'[k], x)
      BY <1>2, <2>2 DEF Behind
    <3> QED
      BY <2>2, <3>1, PassedStays
  <2> QED
    BY <2>1, <2>2 DEF Behind
<1>4. Past(i) = {x \in Items(i) : Behind(stack, i, x)}
  BY DEF Past
<1>5. Past(i)' = {x \in Items(i) : Behind(stack', i, x)}
  BY <1>0 DEF Past
<1> QED
  BY <1>3, <1>4, <1>5

\* Binding an item puts it behind.
LEMMA PastGrows ==
    ASSUME Linked, Steady, NEW i \in DOMAIN modules, NEW x \in Items(Top.module), BindsAt(x)
    PROVE  Past(i)' = IF i = Top.module THEN Past(i) \cup {x} ELSE Past(i)
<1>0. /\ Safe /\ Inv /\ Items(i)' = Items(i) /\ stack # <<>> /\ Len(stack) \in DOMAIN stack
      /\ Top = stack[Len(stack)] /\ Top.stage = "bind" /\ x = <<Top.import, Top.item>>
      /\ Top.import \in Nat /\ Top.item \in Nat
  <2>1. Safe /\ stack # <<>> /\ Top.stage = "bind" /\ x = <<Top.import, Top.item>>
    BY DEF Linked, BindsAt
  <2>2. Len(stack) \in DOMAIN stack
    BY <2>1, TopType DEF Safe
  <2> QED
    BY <2>1, <2>2, FrameFacts, ImportsStay DEF Safe, Steady
<1>1. PICK f : Retops(f) /\ f.import = Top.import /\ f.item = Top.item + 1 /\ f.stage = "bind"
  BY DEF BindsAt
<1>2. /\ DOMAIN stack' = DOMAIN stack
      /\ \A k \in DOMAIN stack : stack'[k] = IF k = Len(stack) THEN f ELSE stack[k]
      /\ f.module = Top.module
  BY <1>1 DEF Retops
<1>3. ASSUME NEW y \in Items(Top.module)
      PROVE  Passed(f, y) <=> Passed(Top, y) \/ y = x
  <2>1. Top.module \in DOMAIN modules
    BY <1>0, TopType
  <2>2. y[1] \in Nat /\ y[2] \in Nat /\ y = <<y[1], y[2]>>
    BY <1>0, <2>1, ItemFacts
  <2>3. \A m, n \in Nat : m < n + 1 <=> m < n \/ m = n
    OBVIOUS
  <2>4. y[2] < Top.item + 1 <=> y[2] < Top.item \/ y[2] = Top.item
    BY <1>0, <2>2, <2>3
  <2>5. y = x <=> y[1] = Top.import /\ y[2] = Top.item
    BY <1>0, <2>2
  <2> QED
    BY <1>0, <1>1, <2>4, <2>5 DEF Passed
<1>4. \A k \in DOMAIN stack : stack[k].module = Top.module => k = Len(stack)
  BY <1>0, FrameFacts
<1>5. ASSUME NEW y \in Items(i)
      PROVE  Behind(stack', i, y) <=> Behind(stack, i, y) \/ (i = Top.module /\ y = x)
  <2>1. CASE i = Top.module
    <3>1. Behind(stack, i, y) <=> Passed(Top, y)
      BY <1>0, <1>4, <2>1 DEF Behind
    <3>2. Behind(stack', i, y) <=> Passed(f, y)
      BY <1>0, <1>2, <1>4, <2>1 DEF Behind
    <3> QED
      BY <1>3, <2>1, <3>1, <3>2
  <2>2. CASE i # Top.module
    BY <1>0, <1>2, <2>2 DEF Behind
  <2> QED
    BY <2>1, <2>2
<1>6. Past(i) = {y \in Items(i) : Behind(stack, i, y)}
  BY DEF Past
<1>7. Past(i)' = {y \in Items(i) : Behind(stack', i, y)}
  BY <1>0 DEF Past
<1>8. i = Top.module => x \in Items(i)
  OBVIOUS
<1> QED
  BY <1>5, <1>6, <1>7, <1>8

\* A module just opened has bound nothing.
LEMMA NothingBound ==
    ASSUME Safe, Safe', Steady, NEW i \in DOMAIN modules, Enters(i)
    PROVE  Past(i)' = {}
<1>1. Inv /\ Items(i)' = Items(i) /\ Len(stack) + 1 \in DOMAIN stack'
      /\ stack'[Len(stack) + 1] = StartFrame(i) /\ StartFrame(i).module = i
  BY ImportsStay, EnteredFrames DEF Safe, Steady, Enters, StartFrame
<1>2. ASSUME NEW x \in Items(i) PROVE ~Passed(StartFrame(i), x)
  <2>1. x[1] \in Nat /\ x[1] >= 1 /\ x[2] \in Nat /\ x[2] >= 1 /\ x[1] \in DOMAIN ImportsOf(i)
    <3>1. ImportsOf(i)[x[1]].items \in Seq(ImportItem)
      BY <1>1, ItemFacts DEF ImportAt, Import
    <3>2. x[2] \in DOMAIN ImportsOf(i)[x[1]].items
      BY <1>1, ItemFacts DEF ImportAt
    <3> QED
      BY <1>1, <3>1, <3>2, ItemFacts
  <2>2. ImportsOf(i) # <<>>
    BY <2>1
  <2>3. StartFrame(i).stage = "load" /\ StartFrame(i).import = 1 /\ StartFrame(i).item = 1
    BY <2>2 DEF StartFrame
  <2>4. ~(x[1] < 1) /\ ~(x[2] < 1)
    BY <2>1
  <2> QED
    BY <2>3, <2>4 DEF Passed
<1>3. \A x \in Items(i) : ~Behind(stack', i, x)
  BY <1>1, <1>2 DEF Behind
<1>4. Past(i)' = {x \in Items(i) : Behind(stack', i, x)}
  BY <1>1 DEF Past
<1> QED
  BY <1>3, <1>4

\* What a place introduces does not change.
LEMMA GiftStays ==
    ASSUME Steady, Identity, NEW i \in DOMAIN modules, NEW x,
           NEW n \in Names, NEW ns \in Namespaces,
           x = Here \/ Ready(ImportAt(i, x).from)
    PROVE  Gift(i, x, n, ns)' = Gift(i, x, n, ns) /\ Shared(i, x, n, ns)' = Shared(i, x, n, ns)
<1>1. /\ modules'[i].local = modules[i].local /\ modules'[i].path = modules[i].path
      /\ files' = files
  BY DEF Steady, Grows
<1>2. ImportAt(i, x)' = ImportAt(i, x) /\ ItemAt(i, x)' = ItemAt(i, x)
  BY ImportsStay DEF Steady
<1>3. CASE x = Here
  <2>1. PublicLocals(modules[i])'[n][ns] = PublicLocals(modules[i])[n][ns]
    BY <1>1 DEF PublicLocals
  <2> QED
    BY <1>1, <1>3, <2>1 DEF Gift, Shared
<1>4. CASE x # Here
  <2>1. PICK p : p = ImportAt(i, x).from
    OBVIOUS
  <2>2. ExportsOf(p)' = ExportsOf(p)
    BY <1>4, <2>1, ReadyStays
  <2>3. ExportsOf(ImportAt(i, x).from)' = ExportsOf(p)
    BY <1>2, <2>1, <2>2 DEF ExportsOf, IndexOf
  <2>4. Gift(i, x, n, ns)' = Gift(i, x, n, ns)
    BY <1>2, <1>4, <2>1, <2>3 DEF Gift
  <2> QED
    BY <1>2, <1>4, <2>4 DEF Shared
<1> QED
  BY <1>3, <1>4

\* A module whose tables a step leaves alone.
LEMMA TabledStays ==
    ASSUME Steady, Identity, NEW i \in DOMAIN modules, Tabled(i), Past(i)' = Past(i),
           modules'[i].visible = modules[i].visible, modules'[i].exports = modules[i].exports
    PROVE  Tabled(i)'
<1>1. Sources(i)' = Sources(i)
  BY DEF Sources, Here
<1>2. ASSUME NEW x \in Past(i)
      PROVE  /\ Ready(ImportAt(i, x).from)'
             /\ ~IsEmpty(ExportsOf(ImportAt(i, x).from)[ItemAt(i, x).name])'
  <2>1. ImportAt(i, x)' = ImportAt(i, x) /\ ItemAt(i, x)' = ItemAt(i, x)
    BY ImportsStay DEF Steady
  <2>2. PICK p : p = ImportAt(i, x).from
    OBVIOUS
  <2>3. Ready(p)' /\ ExportsOf(p)' = ExportsOf(p)
    BY <2>2, ReadyStays DEF Tabled
  <2> QED
    BY <2>1, <2>2, <2>3 DEF Tabled, Ready, Settled, ExportsOf, IndexOf, IsEmpty
<1>3. ASSUME NEW n \in Names, NEW ns \in Namespaces PROVE TabledAt(i, n, ns)'
  <2>1. \A x \in Sources(i) :
          Gift(i, x, n, ns)' = Gift(i, x, n, ns) /\ Shared(i, x, n, ns)' = Shared(i, x, n, ns)
    BY GiftStays DEF Tabled, Sources
  <2>2. TabledAt(i, n, ns)
    BY DEF Tabled
  <2> QED
    BY <1>1, <2>1, <2>2 DEF TabledAt
<1> QED
  BY <1>2, <1>3 DEF Tabled

\* The tables of a module just opened hold its own items.
LEMMA TabledOpened ==
    ASSUME Safe, Safe', Steady, NEW i \in DOMAIN modules, Enters(i)
    PROVE  Tabled(i)'
<1>1. Past(i)' = {} /\ Sources(i)' = {Here}
  BY NothingBound DEF Sources, Here
<1>2. modules[i] \in Module
  BY ImportsType DEF Safe
<1>3. modules'[i].visible = modules[i].local /\ modules'[i].exports = PublicLocals(modules[i])
  BY <1>2 DEF Enters, Opened, Module
<1>4. ASSUME NEW n \in Names, NEW ns \in Namespaces PROVE TabledAt(i, n, ns)'
  <2>1. /\ Gift(i, Here, n, ns)' = Gift(i, Here, n, ns)
        /\ Shared(i, Here, n, ns)' = Shared(i, Here, n, ns)
    BY GiftStays DEF Safe
  <2>2. Gift(i, Here, n, ns) = modules[i].local[n][ns]
        /\ Shared(i, Here, n, ns) = PublicLocals(modules[i])[n][ns]
    BY DEF Gift, Shared
  <2> QED
    BY <1>1, <1>3, <2>1, <2>2 DEF TabledAt
<1> QED
  BY <1>1, <1>4 DEF Tabled

\* The file of an item being bound is resolved.
LEMMA BindsReady ==
    ASSUME Safe, Resolves, NEW x \in Items(Top.module), BindsAt(x)
    PROVE  Ready(ImportAt(Top.module, x).from)
<1>1. PICK i, a : i = Top.module /\ a = Top.import
  OBVIOUS
<1>2. /\ stack # <<>> /\ Top.stage = "bind" /\ x = <<Top.import, Top.item>>
  BY DEF BindsAt
<1>3. i \in DOMAIN modules /\ modules[i].state # "Loaded" /\ x[1] = a
  BY <1>1, <1>2, TopIsOpen
<1>4. a \in DOMAIN ImportsOf(i)
  BY <1>1, <1>3, ItemFacts DEF Safe
<1>5. \A k \in DOMAIN stack : stack[k].module = i => Answered(stack[k], a, k = Len(stack))
  BY <1>1, <1>2, FrameFacts DEF Answered
<1> QED
  BY <1>1, <1>3, <1>4, <1>5 DEF Resolves, ImportAt

\* What binding an item does to the tables.
LEMMA BoundTables ==
    ASSUME Safe, Resolves, NEW x \in Items(Top.module), BindsAt(x),
           NEW n \in Names, NEW ns \in Namespaces
    PROVE  LET i == Top.module
           IN  /\ modules'[i].visible[n][ns] =
                    IF Gift(i, x, n, ns) # NoBinding THEN Gift(i, x, n, ns)
                    ELSE modules[i].visible[n][ns]
               /\ modules'[i].exports[n][ns] =
                    IF Shared(i, x, n, ns) # NoBinding THEN Shared(i, x, n, ns)
                    ELSE modules[i].exports[n][ns]
               /\ Gift(i, x, n, ns) # NoBinding =>
                    /\ modules[i].visible[n][ns] = NoBinding
                    /\ modules[i].exports[n][ns] = NoBinding
               /\ Shared(i, x, n, ns) # NoBinding => Shared(i, x, n, ns) = Gift(i, x, n, ns)
<1>1. PICK i, c, w, e : /\ i = Top.module /\ c = ImportAt(i, x) /\ w = ItemAt(i, x)
                        /\ e = ExportsOf(c.from)[w.name]
  OBVIOUS
<1>2. /\ i \in DOMAIN modules /\ modules[i] \in Module /\ Inv /\ Identity
  BY <1>1, TopIsOpen DEF Safe, BindsAt
<1>3. c \in Import /\ w \in ImportItem /\ x # Here /\ w.name \in Names /\ w.as \in Names
      /\ c.pub \in BOOLEAN
  BY <1>1, <1>2, ItemFacts DEF Import, ImportItem
<1>4. e \in BindingSet
  <2>1. Ready(c.from)
    BY <1>1, BindsReady
  <2>2. modules[IndexOf(c.from)] \in Module
    BY <1>2, <2>1, ReadyFacts, ImportsType
  <2>3. modules[IndexOf(c.from)].exports \in Bindings
    BY <2>2 DEF Module
  <2> QED
    BY <1>1, <1>3, <2>3 DEF ExportsOf, Bindings
<1>5. /\ modules'[i] = Bound(modules[i], w.as, e, c.pub)
      /\ ~Clashes(modules[i].visible, w.as, e)
  BY <1>1 DEF BindsAt
<1>6. /\ modules'[i].visible = insert_binding_set(modules[i].visible, w.as, e)
      /\ modules'[i].exports = IF c.pub THEN insert_binding_set(modules[i].exports, w.as, e)
                               ELSE modules[i].exports
  BY <1>2, <1>3, <1>4, <1>5, BoundType
<1>7. modules[i].visible \in Bindings /\ modules[i].exports \in Bindings
  BY <1>2 DEF Module
<1>8. /\ insert_binding_set(modules[i].visible, w.as, e)[n][ns] =
           IF n = w.as /\ e[ns] # NoBinding THEN e[ns] ELSE modules[i].visible[n][ns]
      /\ insert_binding_set(modules[i].exports, w.as, e)[n][ns] =
           IF n = w.as /\ e[ns] # NoBinding THEN e[ns] ELSE modules[i].exports[n][ns]
  BY <1>3, <1>4, <1>7, InsertedAt
<1>9. Gift(i, x, n, ns) = IF w.as = n THEN e[ns] ELSE NoBinding
  BY <1>1, <1>3 DEF Gift
<1>10. Shared(i, x, n, ns) = IF c.pub THEN Gift(i, x, n, ns) ELSE NoBinding
  BY <1>1, <1>3 DEF Shared
<1>11. e[ns] # NoBinding => modules[i].visible[w.as][ns] = NoBinding
  BY <1>5 DEF Clashes
<1>12. modules[i].exports[n][ns] # NoBinding =>
         modules[i].exports[n][ns] = modules[i].visible[n][ns]
  BY <1>2 DEF Safe, ExportsVisible
<1>13. modules'[i].visible[n][ns] =
         IF Gift(i, x, n, ns) # NoBinding THEN Gift(i, x, n, ns) ELSE modules[i].visible[n][ns]
  BY <1>6, <1>8, <1>9
<1>14. modules'[i].exports[n][ns] =
         IF Shared(i, x, n, ns) # NoBinding THEN Shared(i, x, n, ns) ELSE modules[i].exports[n][ns]
  BY <1>6, <1>8, <1>9, <1>10
<1>15. Gift(i, x, n, ns) # NoBinding =>
         modules[i].visible[n][ns] = NoBinding /\ modules[i].exports[n][ns] = NoBinding
  BY <1>9, <1>11, <1>12
<1> QED
  BY <1>1, <1>10, <1>13, <1>14, <1>15

\* Binding an item keeps the tables of its module.
LEMMA TabledBound ==
    ASSUME Linked, Linked', Steady, Resolves, NEW x \in Items(Top.module), BindsAt(x),
           Tabled(Top.module)
    PROVE  Tabled(Top.module)'
<1>0. Safe /\ Identity
  BY DEF Linked, Safe
<1>1. PICK i : i = Top.module
  OBVIOUS
<1>2. i \in DOMAIN modules /\ Past(i)' = Past(i) \cup {x} /\ stack # <<>>
  BY <1>0, <1>1, TopIsOpen, PastGrows DEF BindsAt
<1>3. Sources(i)' = Sources(i) \cup {x}
  BY <1>2 DEF Sources, Here
<1>4. \A y \in Past(i) \cup {x} : /\ Ready(ImportAt(i, y).from)
                                 /\ ~IsEmpty(ExportsOf(ImportAt(i, y).from)[ItemAt(i, y).name])
  BY <1>0, <1>1, BindsReady DEF Tabled, BindsAt
<1>5. ASSUME NEW y \in Past(i)'
      PROVE  /\ Ready(ImportAt(i, y).from)'
             /\ ~IsEmpty(ExportsOf(ImportAt(i, y).from)[ItemAt(i, y).name])'
  <2>1. ImportAt(i, y)' = ImportAt(i, y) /\ ItemAt(i, y)' = ItemAt(i, y)
    BY <1>2, ImportsStay DEF Steady
  <2>2. PICK p : p = ImportAt(i, y).from
    OBVIOUS
  <2>3. Ready(p)' /\ ExportsOf(p)' = ExportsOf(p)
    BY <1>0, <1>2, <1>4, <2>2, ReadyStays
  <2> QED
    BY <1>2, <1>4, <2>1, <2>2, <2>3 DEF Ready, Settled, ExportsOf, IndexOf, IsEmpty
<1>6. ASSUME NEW n \in Names, NEW ns \in Namespaces PROVE TabledAt(i, n, ns)'
  <2>1. \A y \in Sources(i) \cup {x} :
          Gift(i, y, n, ns)' = Gift(i, y, n, ns) /\ Shared(i, y, n, ns)' = Shared(i, y, n, ns)
    BY <1>0, <1>2, <1>4, GiftStays DEF Sources
  <2>2. TabledAt(i, n, ns)
    BY <1>1 DEF Tabled
  <2>3. /\ modules'[i].visible[n][ns] =
             IF Gift(i, x, n, ns) # NoBinding THEN Gift(i, x, n, ns)
             ELSE modules[i].visible[n][ns]
        /\ modules'[i].exports[n][ns] =
             IF Shared(i, x, n, ns) # NoBinding THEN Shared(i, x, n, ns)
             ELSE modules[i].exports[n][ns]
        /\ Gift(i, x, n, ns) # NoBinding =>
             /\ modules[i].visible[n][ns] = NoBinding /\ modules[i].exports[n][ns] = NoBinding
        /\ Shared(i, x, n, ns) # NoBinding => Shared(i, x, n, ns) = Gift(i, x, n, ns)
    BY <1>0, <1>1, BoundTables
  <2>4. ASSUME NEW y \in Sources(i) \cup {x}
        PROVE  /\ Gift(i, y, n, ns) # NoBinding => modules'[i].visible[n][ns] = Gift(i, y, n, ns)
               /\ Shared(i, y, n, ns) # NoBinding =>
                    modules'[i].exports[n][ns] = Shared(i, y, n, ns)
    BY <2>2, <2>3 DEF TabledAt
  <2>5. modules'[i].visible[n][ns] # NoBinding =>
          \E y \in Sources(i) \cup {x} : modules'[i].visible[n][ns] = Gift(i, y, n, ns)
    BY <2>2, <2>3 DEF TabledAt
  <2>6. modules'[i].exports[n][ns] # NoBinding =>
          \E y \in Sources(i) \cup {x} : modules'[i].exports[n][ns] = Shared(i, y, n, ns)
    BY <2>2, <2>3 DEF TabledAt
  <2>7. ASSUME NEW y \in Sources(i) \cup {x}, NEW z \in Sources(i) \cup {x},
               Gift(i, y, n, ns) # NoBinding, Gift(i, z, n, ns) # NoBinding
        PROVE  y = z
    BY <2>2, <2>3, <2>7 DEF TabledAt
  <2> QED
    BY <1>3, <2>1, <2>4, <2>5, <2>6, <2>7 DEF TabledAt
<1>7. Tabled(i)'
  BY <1>5, <1>6 DEF Tabled
<1>8. Top'.module = Top.module
  <2>1. PICK f : Retops(f)
    BY DEF BindsAt
  <2> QED
    BY <1>0, <2>1, TopType DEF Retops, Top, Safe
<1> QED
  BY <1>1, <1>7, <1>8

\* The tables hold what the items bound so far introduce.
LEMMA TablesStay ==
    ASSUME Linked, Linked', Steady, Resolves, NoneForgotten, Tables, [Next]_vars
    PROVE  Tables'
<1>0. Safe /\ Safe' /\ Identity
  BY DEF Linked, Safe
<1>1. ASSUME NEW i \in DOMAIN modules, modules[i].state # "Loaded" PROVE Tabled(i)'
  <2>1. ASSUME Past(i)' = Past(i), modules'[i].visible = modules[i].visible,
               modules'[i].exports = modules[i].exports
        PROVE  Tabled(i)'
    BY <1>0, <1>1, <2>1, TabledStays DEF Tables
  <2>2. CASE \E x \in Items(Top.module) : BindsAt(x)
    <3>1. PICK x \in Items(Top.module) : BindsAt(x)
      BY <2>2
    <3>2. CASE i = Top.module
      <4>1. Tabled(Top.module)'
        BY <1>1, <3>1, <3>2, TabledBound DEF Tables
      <4>2. Top'.module = Top.module
        <5>1. PICK f : Retops(f)
          BY <3>1 DEF BindsAt
        <5> QED
          BY <1>0, <5>1, TopType DEF Retops, Top, Safe
      <4> QED
        BY <3>2, <4>1, <4>2
    <3>3. CASE i # Top.module
      BY <2>1, <3>1, <3>3, PastGrows DEF BindsAt
    <3> QED
      BY <3>2, <3>3
  <2>3. CASE \/ Stays \/ (\E p \in Paths : Fetches(p)) \/ Advances
             \/ (\E j \in DOMAIN modules : Enters(j)) \/ Closes \/ Flattens
    <3>1. Past(i)' = Past(i)
      BY <1>1, <2>3, PastStays
    <3>2. modules'[i].visible = modules[i].visible /\ modules'[i].exports = modules[i].exports
      <4>1. modules[i] \in Module
        BY <1>0, ImportsType DEF Safe
      <4>2. CASE Closes
        <5>1. modules'[i] = modules[i] \/ \E b :
                modules'[i] = [modules[i] EXCEPT !.fallback = b, !.state = "Resolved"]
          BY <4>2 DEF Closes
        <5> QED
          BY <4>1, <5>1 DEF Module
      <4> QED
        BY <1>1, <2>3, <4>2 DEF Stays, Fetches, Unchanged, Advances, Enters, Flattens
    <3> QED
      BY <2>1, <3>1, <3>2
  <2> QED
    BY <2>2, <2>3, Kinds
<1>2. ASSUME NEW i \in DOMAIN modules', modules'[i].state # "Loaded" PROVE Tabled(i)'
  BY <1>0, <1>1, <1>2, OpensByEntry, TabledOpened
<1> QED
  BY <1>2 DEF Tables

-----------------------------------------------------------------------------
(* How deep the exports are.                                                *)

\* The files resolved are counted, and their number grows.
LEMMA SettledCount ==
    ASSUME IsFiniteSet(Paths), Steady, Identity
    PROVE  /\ Cardinality(SettledPaths) \in Nat /\ Cardinality(SettledPaths)' \in Nat
           /\ Cardinality(SettledPaths) <= Cardinality(SettledPaths)'
           /\ Cardinality(SettledPaths) <= Cardinality(Paths)
           /\ (\E p \in Paths : Ready(p)' /\ ~Ready(p)) =>
                Cardinality(SettledPaths) + 1 <= Cardinality(SettledPaths)'
<1>1. PICK S, T : S = SettledPaths /\ T = SettledPaths'
  OBVIOUS
<1>2. S \subseteq Paths /\ T \subseteq Paths /\ S \subseteq T
  BY <1>1, ReadyStays DEF SettledPaths
<1>3. IsFiniteSet(S) /\ IsFiniteSet(T) /\ Cardinality(S) <= Cardinality(T)
      /\ Cardinality(S) <= Cardinality(Paths)
  BY <1>2, FS_Subset
<1>4. Cardinality(S) \in Nat /\ Cardinality(T) \in Nat
  BY <1>3, FS_CardinalityType
<1>5. ASSUME NEW p \in Paths, Ready(p)', ~Ready(p) PROVE Cardinality(S) + 1 <= Cardinality(T)
  <2>1. p \in T /\ p \notin S /\ S \cup {p} \subseteq T
    BY <1>1, <1>2, <1>5 DEF SettledPaths
  <2>2. IsFiniteSet(S \cup {p}) /\ Cardinality(S \cup {p}) = Cardinality(S) + 1
    BY <1>3, <2>1, FS_AddElement
  <2> QED
    BY <1>3, <2>1, <2>2, FS_Subset
<1>6. Cardinality(SettledPaths)' = Cardinality(T)
  BY <1>1
<1> QED
  BY <1>1, <1>3, <1>4, <1>5, <1>6

\* The levels depend on the files alone.
LEMMA LevelsKept ==
    ASSUME Steady
    PROVE  Levels' = Levels
BY DEF Steady, Grows, Levels

\* An export that stays means what it meant.
LEMMA PublicKept ==
    ASSUME Linked, Linked', Steady, NEW i \in DOMAIN modules,
           NEW n \in Names, NEW ns \in Namespaces,
           modules'[i].exports[n][ns] = modules[i].exports[n][ns],
           modules[i].exports[n][ns] # NoBinding
    PROVE  AsPublic(i, n, ns)' = AsPublic(i, n, ns)
<1>1. PICK b : b = modules[i].exports[n][ns]
  OBVIOUS
<1>2. Known(b)
  BY <1>1, TablesKnown DEF Linked, Safe
<1>3. Meaning(b)' = Meaning(b)
  BY <1>2, MeaningStays DEF Linked, Steady
<1>4. Meaning(modules[i].exports[n][ns])' = Meaning(b)'
  BY <1>1 DEF Meaning, PathOfId
<1>5. modules'[i].path = modules[i].path
  BY DEF Steady, Grows
<1>6. Meaning(modules[i].exports[n][ns]) = Meaning(b)
  BY <1>1
<1> QED
  BY <1>3, <1>4, <1>5, <1>6 DEF AsPublic

\* A public declaration is public at once.
LEMMA DeclaredPublic ==
    ASSUME Linked, Needed, NEW i \in DOMAIN modules, NEW n \in Names, NEW ns \in Namespaces,
           PublicLocals(modules[i])[n][ns] # NoBinding
    PROVE  /\ PublicLocals(modules[i])[n][ns] = modules[i].local[n][ns]
           /\ Meaning(modules[i].local[n][ns]) = <<modules[i].path, n>>
           /\ \A m \in Nat : <<modules[i].path, n, ns, modules[i].path, n>> \in Levels[m]
<1>1. DeclaresPublic(DeclsOf(i), n, ns) /\ modules[i].local[n][ns] # NoBinding
      /\ PublicLocals(modules[i])[n][ns] = modules[i].local[n][ns]
  BY DEF PublicLocals, DeclsOf
<1>2. Meaning(modules[i].local[n][ns]) = <<modules[i].path, n>>
  BY <1>1, LocalMeans DEF Linked, Safe
<1>3. modules[i].path \in Linking!Reached(files)
  BY DEF Needed, Linking!Reached
<1>4. <<modules[i].path, n, ns, modules[i].path, n>> \in
        Linking!Declared(files, Linking!Reached(files))
  <2>1. PICK d \in DOMAIN DeclsOf(i) :
          DeclsOf(i)[d].name = n /\ DeclsOf(i)[d].ns = ns /\ DeclsOf(i)[d].pub
    BY <1>1 DEF DeclaresPublic
  <2> QED
    BY <1>3, <2>1, DeclaredAre DEF DeclsOf
<1>5. \A m \in Nat : Levels[0] \subseteq Levels[m]
  <2>1. \A m \in Nat : 0 <= m /\ 0 \in Nat
    OBVIOUS
  <2> QED
    BY <2>1, LevelsGrow DEF Levels
<1>6. Levels[0] = Linking!Declared(files, Linking!Reached(files))
  BY LevelsAre DEF Levels
<1> QED
  BY <1>1, <1>2, <1>4, <1>5, <1>6

\* What an import hands on is public one step deeper than what it hands on.
LEMMA HandedOn ==
    ASSUME Linked, Needed, NEW i \in DOMAIN modules, NEW x \in Items(i), ImportAt(i, x).pub,
           NEW m \in Nat, NEW t \in Levels[m],
           t[1] = ImportAt(i, x).from, t[2] = ItemAt(i, x).name
    PROVE  <<modules[i].path, ItemAt(i, x).as, t[3], t[4], t[5]>> \in Levels[m + 1]
<1>1. PICK imp : imp = [from |-> ImportAt(i, x).from, pub |-> ImportAt(i, x).pub,
                        name |-> ItemAt(i, x).name, as |-> ItemAt(i, x).as, at |-> x]
  OBVIOUS
<1>2. imp \in Linking!ImportsIn(files, modules[i].path)
  BY <1>1, ImportsInAre
<1>3. modules[i].path \in Linking!Reached(files)
  BY DEF Needed, Linking!Reached
<1>4. imp.pub /\ t[1] = imp.from /\ t[2] = imp.name /\ imp.as = ItemAt(i, x).as
  BY <1>1
<1>5. <<modules[i].path, imp.as, t[3], t[4], t[5]>> \in
        Linking!Reexported(files, Linking!Reached(files), Levels[m])
  BY <1>2, <1>3, <1>4, ReexportedAre
<1> QED
  BY <1>4, <1>5, LevelsAre DEF Levels

\* Exports are public within as many steps as files are resolved.
LEMMA DepthStays ==
    ASSUME IsFiniteSet(Paths), Linked, Linked', Steady, Needed, Needed', Resolves, NoneForgotten,
           Depth, [Next]_vars
    PROVE  Depth'
<1>0. Safe /\ Safe' /\ Identity /\ Inv /\ Inv'
  BY DEF Linked, Safe
<1>1. PICK C, D : C = Cardinality(SettledPaths) /\ D = Cardinality(SettledPaths)'
  OBVIOUS
<1>2. C \in Nat /\ D \in Nat /\ C <= D
      /\ ((\E p \in Paths : Ready(p)' /\ ~Ready(p)) => C + 1 <= D)
  BY <1>0, <1>1, SettledCount
<1>3. \A i : /\ StepsTo(i) = IF Settled(i) THEN C ELSE C + 1
             /\ StepsTo(i)' = IF Settled(i)' THEN D ELSE D + 1
  BY <1>1 DEF StepsTo
<1>4. \A m, n \in Nat : m <= n => Levels[m] \subseteq Levels[n]
  BY LevelsGrow DEF Levels
<1>5. ASSUME NEW i \in DOMAIN modules, modules[i].state # "Loaded"
      PROVE  StepsTo(i) \in Nat /\ StepsTo(i)' \in Nat /\ StepsTo(i) <= StepsTo(i)'
  <2>1. CASE Settled(i)
    <3>1. Settled(i)'
      BY <2>1 DEF Steady, SettledStay
    <3> QED
      BY <1>2, <1>3, <2>1, <3>1
  <2>2. CASE ~Settled(i) /\ ~Settled(i)'
    <3>1. C + 1 <= D + 1 /\ C + 1 \in Nat /\ D + 1 \in Nat
      BY <1>2
    <3> QED
      BY <1>3, <2>2, <3>1
  <2>3. CASE ~Settled(i) /\ Settled(i)'
    <3>1. PICK p : p = modules[i].path
      OBVIOUS
    <3>2. p \in Paths /\ ~Ready(p)
      BY <1>0, <2>3, <3>1, IndexIs, TargetsAre
    <3>3. Ready(p)'
      BY <2>3, <3>1 DEF Ready, Steady, Grows
    <3>4. C + 1 <= D /\ C + 1 \in Nat
      BY <1>2, <3>2, <3>3
    <3> QED
      BY <1>2, <1>3, <2>3, <3>4
  <2> QED
    BY <2>1, <2>2, <2>3
<1>6. ASSUME NEW i \in DOMAIN modules', modules'[i].state # "Loaded",
             NEW n \in Names, NEW ns \in Namespaces, modules'[i].exports[n][ns] # NoBinding
      PROVE  AsPublic(i, n, ns)' \in Levels[StepsTo(i)']
  <2>1. CASE i \in DOMAIN modules /\ modules[i].state # "Loaded"
             /\ modules'[i].exports[n][ns] = modules[i].exports[n][ns]
    <3>1. AsPublic(i, n, ns) \in Levels[StepsTo(i)]
      BY <1>6, <2>1 DEF Depth
    <3>2. AsPublic(i, n, ns)' = AsPublic(i, n, ns)
      BY <1>6, <2>1, PublicKept
    <3> QED
      BY <1>4, <1>5, <2>1, <3>1, <3>2
  <2>2. CASE i \in DOMAIN modules /\ Enters(i)
    <3>1. modules'[i].exports = PublicLocals(modules[i]) /\ modules'[i].path = modules[i].path
          /\ ~Settled(i)'
      <4>1. modules[i] \in Module
        BY <1>0, <2>2, ImportsType
      <4> QED
        BY <2>2, <4>1 DEF Enters, Opened, Module, Settled
    <3>2. PICK b : b = modules[i].local[n][ns]
      OBVIOUS
    <3>3. /\ modules'[i].exports[n][ns] = b /\ Meaning(b) = <<modules[i].path, n>>
          /\ \A m \in Nat : <<modules[i].path, n, ns, modules[i].path, n>> \in Levels[m]
      BY <1>6, <2>2, <3>1, <3>2, DeclaredPublic
    <3>4. Meaning(b)' = Meaning(b)
      BY <1>6, <2>2, <3>2, <3>3, LocalMeans, MeaningStays DEF Linked, Steady, Safe
    <3>5. Meaning(modules[i].exports[n][ns])' = Meaning(b)'
      BY <3>3 DEF Meaning, PathOfId
    <3>6. AsPublic(i, n, ns)' = <<modules[i].path, n, ns, modules[i].path, n>>
      BY <3>1, <3>3, <3>4, <3>5 DEF AsPublic
    <3>7. StepsTo(i)' \in Nat
      BY <1>2, <1>3, <3>1
    <3> QED
      BY <3>3, <3>6, <3>7
  <2>3. CASE i \in DOMAIN modules /\ modules[i].state # "Loaded"
             /\ modules'[i].exports[n][ns] # modules[i].exports[n][ns]
    <3>1. PICK x \in Items(Top.module) : BindsAt(x) /\ i = Top.module
      <4>1. CASE \E x \in Items(Top.module) : BindsAt(x)
        BY <2>3, <4>1 DEF BindsAt
      <4>2. CASE Closes
        <5>1. modules[i] \in Module
          BY <1>0, <2>3, ImportsType
        <5>2. modules'[i] = modules[i] \/ \E b :
                modules'[i] = [modules[i] EXCEPT !.fallback = b, !.state = "Resolved"]
          BY <2>3, <4>2 DEF Closes
        <5> QED
          BY <2>3, <5>1, <5>2 DEF Module
      <4>3. CASE Stays \/ Advances \/ (\E p \in Paths : Fetches(p))
                 \/ (\E j \in DOMAIN modules : Enters(j)) \/ Flattens
        BY <2>3, <4>3 DEF Stays, Advances, Fetches, Unchanged, Enters, Flattens
      <4> QED
        BY <4>1, <4>2, <4>3, Kinds
    <3>2. PICK c, w, j, e : /\ c = ImportAt(i, x) /\ w = ItemAt(i, x) /\ j = IndexOf(c.from)
                            /\ e = modules[j].exports[w.name][ns]
      OBVIOUS
    <3>3. /\ modules'[i].exports[n][ns] = Shared(i, x, n, ns) /\ Shared(i, x, n, ns) # NoBinding
          /\ Shared(i, x, n, ns) = Gift(i, x, n, ns)
      BY <1>0, <1>6, <2>3, <3>1, BoundTables
    <3>4. c \in Import /\ w \in ImportItem /\ x # Here /\ w.name \in Names
      BY <1>0, <3>1, <3>2, <2>3, ItemFacts DEF ImportItem
    <3>5. c.pub /\ w.as = n /\ modules'[i].exports[n][ns] = e /\ e # NoBinding
      BY <3>2, <3>3, <3>4 DEF Shared, Gift, ExportsOf
    <3>6. j \in DOMAIN modules /\ modules[j].path = c.from /\ Settled(j)
      BY <1>0, <3>1, <3>2, BindsReady, ReadyFacts
    <3>7. AsPublic(j, w.name, ns) \in Levels[C]
      BY <1>3, <3>2, <3>4, <3>5, <3>6 DEF Depth, Settled
    <3>8. AsPublic(j, w.name, ns) = <<c.from, w.name, ns, Meaning(e)[1], Meaning(e)[2]>>
      BY <3>2, <3>6 DEF AsPublic
    <3>9. <<modules[i].path, n, ns, Meaning(e)[1], Meaning(e)[2]>> \in Levels[C + 1]
      <4>1. PICK t : t = <<c.from, w.name, ns, Meaning(e)[1], Meaning(e)[2]>>
        OBVIOUS
      <4>2. t \in Levels[C] /\ t[1] = c.from /\ t[2] = w.name
        BY <3>7, <3>8, <4>1
      <4>3. <<modules[i].path, w.as, t[3], t[4], t[5]>> \in Levels[C + 1]
        BY <1>2, <2>3, <3>1, <3>2, <3>5, <4>2, HandedOn
      <4> QED
        BY <3>5, <4>1, <4>3
    <3>10. Meaning(e)' = Meaning(e)
      BY <3>2, <3>4, <3>5, <3>6, TablesKnown, MeaningStays DEF Linked, Steady, Safe
    <3>11. Meaning(modules[i].exports[n][ns])' = Meaning(e)'
      BY <3>5 DEF Meaning, PathOfId
    <3>12. modules'[i].path = modules[i].path
      BY <2>3 DEF Steady, Grows
    <3>13. AsPublic(i, n, ns)' = <<modules[i].path, n, ns, Meaning(e)[1], Meaning(e)[2]>>
      BY <3>10, <3>11, <3>12 DEF AsPublic
    <3>14. ~Settled(i)
      BY <1>0, <3>1, TopIsOpen DEF BindsAt, Settled
    <3>15. StepsTo(i) = C + 1
      BY <1>3, <3>14
    <3> QED
      BY <1>4, <1>5, <2>3, <3>9, <3>13, <3>15
  <2> QED
    BY <1>6, <2>1, <2>2, <2>3, OpensByEntry
<1> QED
  BY <1>6, LevelsKept DEF Depth

-----------------------------------------------------------------------------
(* The invariant holds.                                                     *)

\* The invariant holds at the start,
LEMMA InitLinks == Init => Links
<1> SUFFICES ASSUME Init PROVE Links
  OBVIOUS
<1>1. modules = <<>> /\ DOMAIN modules = {} /\ stack = <<>> /\ DOMAIN stack = {}
  BY DEF Init
<1> QED
  BY <1>1 DEF Links, Needed, Nested, Calls, Resolves, Acyclic, NoneForgotten, Tables, Fallbacks,
              Depth

\* and after every step.
LEMMA NextLinks ==
    ASSUME IsFiniteSet(Paths), Linked, Order, Links, [Next]_vars
    PROVE  Linked' /\ Order' /\ Links'
<1>1. Steady /\ Linked' /\ Safe /\ Safe'
  BY SteadyStep
<1>2. Order'
  BY <1>1, NextOrder
<1>3. /\ Needed /\ Nested /\ Calls /\ Resolves /\ Acyclic /\ NoneForgotten
      /\ Tables /\ Fallbacks /\ Depth
  BY DEF Links
<1>4. Needed'
  BY <1>1, <1>3, NeededStays
<1>5. Nested' /\ Calls'
  <2>1. CASE \E i \in DOMAIN modules : Enters(i)
    BY <1>1, <1>3, <2>1, NestedByCall, CallsByCall
  <2>2. CASE Trims
    BY <1>1, <1>3, <2>2, NestedStays, CallsStays
  <2> QED
    BY <1>1, <2>1, <2>2, Kinds, KindsTrim DEF Safe
<1>6. Resolves'
  BY <1>1, <1>3, ResolvesStay
<1>7. Acyclic'
  BY <1>1, <1>3, AcyclicStays
<1>8. NoneForgotten'
  BY <1>1, <1>3, NoneForgottenStays
<1>9. Tables'
  BY <1>1, <1>3, TablesStay
<1>10. Fallbacks'
  BY <1>1, <1>3, FallbacksStay
<1>11. Depth'
  BY <1>1, <1>3, <1>4, DepthStays
<1> QED
  BY <1>1, <1>2, <1>4, <1>5, <1>6, <1>7, <1>8, <1>9, <1>10, <1>11 DEF Links

-----------------------------------------------------------------------------
(* What the resolved modules say of ModuleLinking.                          *)

PublicItems == Linking!Public(files, Linking!Reached(files))

IntroducedBy(i) == Linking!Introduced(files, Linking!Reached(files), modules[i].path)

\* What a place introduces, as ModuleLinking tells it.
Told(i, x, n, ns) ==
    <<n, ns, Meaning(Gift(i, x, n, ns))[1], Meaning(Gift(i, x, n, ns))[2], x>>

\* The parts of the invariant.
LEMMA LinksFacts ==
    ASSUME Links
    PROVE  /\ Needed /\ Nested /\ Calls /\ Resolves /\ Acyclic /\ NoneForgotten
           /\ Tables /\ Fallbacks /\ Depth
BY DEF Links

\* The files are counted alike.
LEMMA SameCount == Linking!Cardinality(Paths) = Cardinality(Paths)
BY DEF Linking!Cardinality, Cardinality

\* What a resolved file exports is public.
LEMMA ExportsArePublic ==
    ASSUME IsFiniteSet(Paths), Linked, Links, NEW i \in DOMAIN modules, Settled(i),
           NEW n \in Names, NEW ns \in Namespaces, modules[i].exports[n][ns] # NoBinding
    PROVE  AsPublic(i, n, ns) \in PublicItems
<1>1. IsFiniteSet(SettledPaths) /\ Cardinality(SettledPaths) <= Cardinality(Paths)
  BY FS_Subset DEF SettledPaths
<1>2. Cardinality(SettledPaths) \in Nat /\ Cardinality(Paths) \in Nat
  BY <1>1, FS_CardinalityType
<1>3. AsPublic(i, n, ns) \in Levels[Cardinality(SettledPaths)]
  BY LinksFacts DEF Depth, StepsTo, Settled
<1>4. Levels[Cardinality(SettledPaths)] \subseteq Levels[Cardinality(Paths)]
  BY <1>1, <1>2, LevelsGrow DEF Levels
<1>5. PublicItems = Levels[Cardinality(Paths)]
  BY SameCount DEF PublicItems, Linking!Public, Levels
<1> QED
  BY <1>3, <1>4, <1>5

\* A module that is settled has bound all its items.
LEMMA SettledPast ==
    ASSUME Linked, Links, NEW i \in DOMAIN modules, Settled(i)
    PROVE  Past(i) = Items(i) /\ Tabled(i)
<1>1. \A k \in DOMAIN stack : stack[k].module # i
  BY FrameFacts DEF Linked, Settled
<1> QED
  BY <1>1, LinksFacts DEF Past, Behind, Tables, Settled

\* The public items of a resolved file are what it exports.
LEMMA PublicIsExported ==
    ASSUME Linked, Links, NEW m \in Nat, NEW t \in Levels[m], Ready(t[1])
    PROVE  LET j == IndexOf(t[1])
           IN  /\ t[2] \in Names /\ t[3] \in Namespaces
               /\ modules[j].exports[t[2]][t[3]] # NoBinding
               /\ t = AsPublic(j, t[2], t[3])
<1> DEFINE Exported(u) ==
             LET j == IndexOf(u[1])
             IN  /\ u[2] \in Names /\ u[3] \in Namespaces
                 /\ modules[j].exports[u[2]][u[3]] # NoBinding
                 /\ u = AsPublic(j, u[2], u[3])
           S == {k \in Nat : \A u \in Levels[k] : Ready(u[1]) => Exported(u)}
           ps == Linking!Reached(files)
<1>0. Safe /\ Inv /\ Identity /\ Locals /\ Identified
  BY DEF Linked, Safe
<1>1. ASSUME NEW u \in Linking!Declared(files, ps), Ready(u[1]) PROVE Exported(u)
  <2>1. PICK p \in ps : \E d \in DOMAIN files[p].decls :
          /\ files[p].decls[d].pub
          /\ u = <<p, files[p].decls[d].name, files[p].decls[d].ns, p, files[p].decls[d].name>>
    BY <1>1, DeclaredAre
  <2>2. PICK j : j = IndexOf(p)
    OBVIOUS
  <2>3. u[1] = p
    BY <2>1
  <2>4. j \in DOMAIN modules /\ modules[j].path = p /\ Settled(j)
    BY <1>0, <1>1, <2>2, <2>3, ReadyFacts
  <2>5. PICK d \in DOMAIN DeclsOf(j) :
          /\ DeclsOf(j)[d].pub
          /\ u = <<p, DeclsOf(j)[d].name, DeclsOf(j)[d].ns, p, DeclsOf(j)[d].name>>
    BY <2>1, <2>4 DEF DeclsOf
  <2>6. PICK n, ns : n = DeclsOf(j)[d].name /\ ns = DeclsOf(j)[d].ns
    OBVIOUS
  <2>7. n \in Names /\ ns \in Namespaces /\ modules[j].local[n][ns] # NoBinding
    BY <1>0, <2>4, <2>6, DeclaredLocal
  <2>8. PublicLocals(modules[j])[n][ns] = modules[j].local[n][ns]
    BY <2>5, <2>6, <2>7 DEF PublicLocals, DeclaresPublic, DeclsOf
  <2>9. Shared(j, Here, n, ns) = modules[j].local[n][ns]
    BY <2>8 DEF Shared
  <2>10. TabledAt(j, n, ns)
    BY <2>4, <2>7, SettledPast DEF Tabled
  <2>11. modules[j].exports[n][ns] = modules[j].local[n][ns]
    BY <2>7, <2>9, <2>10 DEF TabledAt, Sources
  <2>12. Meaning(modules[j].exports[n][ns]) = <<p, n>>
    BY <1>0, <2>4, <2>7, <2>11, LocalMeans
  <2>13. AsPublic(j, n, ns) = <<p, n, ns, p, n>>
    BY <2>4, <2>12 DEF AsPublic
  <2>14. u = <<p, n, ns, p, n>>
    BY <2>5, <2>6
  <2>15. u[2] = n /\ u[3] = ns
    BY <2>14
  <2> QED
    BY <2>2, <2>3, <2>7, <2>11, <2>13, <2>14, <2>15
<1>2. ASSUME NEW k \in S, NEW u \in Linking!Reexported(files, ps, Levels[k]), Ready(u[1])
      PROVE  Exported(u)
  <2>1. PICK p \in ps : \E imp \in Linking!ImportsIn(files, p) : \E v \in Levels[k] :
          /\ imp.pub /\ v[1] = imp.from /\ v[2] = imp.name
          /\ u = <<p, imp.as, v[3], v[4], v[5]>>
    BY <1>2, ReexportedAre
  <2>2. PICK j : j = IndexOf(p)
    OBVIOUS
  <2>3. u[1] = p
    BY <2>1
  <2>4. j \in DOMAIN modules /\ modules[j].path = p /\ Settled(j)
    BY <1>0, <1>2, <2>2, <2>3, ReadyFacts
  <2>5. PICK imp \in Linking!ImportsIn(files, p), v \in Levels[k] :
          /\ imp.pub /\ v[1] = imp.from /\ v[2] = imp.name
          /\ u = <<p, imp.as, v[3], v[4], v[5]>>
    BY <2>1
  <2>6. PICK x \in Items(j) :
          imp = [from |-> ImportAt(j, x).from, pub |-> ImportAt(j, x).pub,
                 name |-> ItemAt(j, x).name, as |-> ItemAt(j, x).as, at |-> x]
    BY <2>4, <2>5, ImportsInAre
  <2>7. PICK n, ns, from, name : /\ n = ItemAt(j, x).as /\ ns = v[3]
                                 /\ from = ImportAt(j, x).from /\ name = ItemAt(j, x).name
    OBVIOUS
  <2>8. /\ ImportAt(j, x).pub /\ v[1] = from /\ v[2] = name /\ imp.as = n
    BY <2>5, <2>6, <2>7
  <2>9. n \in Names /\ x # Here /\ x \in Past(j) /\ Ready(from) /\ Tabled(j)
    <3>1. x # Here /\ ItemAt(j, x) \in ImportItem
      BY <1>0, <2>4, ItemFacts
    <3>2. x \in Past(j) /\ Tabled(j)
      BY <2>4, SettledPast
    <3> QED
      BY <2>7, <3>1, <3>2 DEF Tabled, ImportItem
  <2>10. Exported(v)
    BY <1>2, <2>8, <2>9
  <2>11. PICK e : e = ExportsOf(from)[name][ns]
    OBVIOUS
  <2>12. ns \in Namespaces /\ e # NoBinding /\ v = AsPublic(IndexOf(from), name, ns)
    BY <2>7, <2>8, <2>10, <2>11 DEF ExportsOf
  <2>13. v[4] = Meaning(e)[1] /\ v[5] = Meaning(e)[2]
    BY <2>11, <2>12 DEF AsPublic, ExportsOf
  <2>14. Shared(j, x, n, ns) = e
    BY <2>7, <2>8, <2>9, <2>11 DEF Shared, Gift
  <2>15. modules[j].exports[n][ns] = e
    BY <2>9, <2>12, <2>14 DEF Tabled, TabledAt, Sources
  <2>16. AsPublic(j, n, ns) = <<p, n, ns, Meaning(e)[1], Meaning(e)[2]>>
    BY <2>4, <2>15 DEF AsPublic
  <2>17. u = <<p, n, ns, v[4], v[5]>>
    BY <2>5, <2>7, <2>8
  <2>18. u[2] = n /\ u[3] = ns /\ u = AsPublic(j, n, ns)
    BY <2>13, <2>16, <2>17
  <2> QED
    BY <2>2, <2>3, <2>9, <2>12, <2>15, <2>18
<1>3. /\ Levels[0] = Linking!Declared(files, ps)
      /\ \A k \in Nat : Levels[k + 1] = Linking!Declared(files, ps)
                            \cup Linking!Reexported(files, ps, Levels[k])
  BY LevelsAre DEF Levels
<1> HIDE DEF Exported, ps
<1>4. 0 \in S
  BY <1>1, <1>3
<1>5. ASSUME NEW k \in Nat, k \in S PROVE k + 1 \in S
  BY <1>1, <1>2, <1>3, <1>5
<1> HIDE DEF S
<1>6. Nat \subseteq S
  BY <1>4, <1>5, NatSetInduction
<1>7. m \in S
  BY <1>6
<1>8. Exported(t)
  BY <1>7 DEF S
<1> QED
  BY <1>8 DEF Exported

\* What a resolved file offers under a name is public.
LEMMA OfferedIsPublic ==
    ASSUME IsFiniteSet(Paths), Linked, Links, NEW p, Ready(p),
           NEW n \in Names, NEW ns \in Namespaces, ExportsOf(p)[n][ns] # NoBinding
    PROVE  <<p, n, ns, Meaning(ExportsOf(p)[n][ns])[1], Meaning(ExportsOf(p)[n][ns])[2]>>
             \in PublicItems
<1>1. PICK j : j = IndexOf(p)
  OBVIOUS
<1>2. j \in DOMAIN modules /\ modules[j].path = p /\ Settled(j)
  BY <1>1, ReadyFacts DEF Linked, Safe
<1>3. ExportsOf(p) = modules[j].exports
  BY <1>1 DEF ExportsOf
<1>4. AsPublic(j, n, ns) \in PublicItems
  BY <1>2, <1>3, ExportsArePublic
<1> QED
  BY <1>2, <1>3, <1>4 DEF AsPublic

\* What is public of a resolved file, the file offers.
LEMMA PublicIsOffered ==
    ASSUME IsFiniteSet(Paths), Linked, Links, NEW t \in PublicItems, Ready(t[1])
    PROVE  /\ t[2] \in Names /\ t[3] \in Namespaces
           /\ ExportsOf(t[1])[t[2]][t[3]] # NoBinding
           /\ t = <<t[1], t[2], t[3], Meaning(ExportsOf(t[1])[t[2]][t[3]])[1],
                    Meaning(ExportsOf(t[1])[t[2]][t[3]])[2]>>
<1>1. Cardinality(Paths) \in Nat
  BY FS_CardinalityType
<1>2. PublicItems = Levels[Cardinality(Paths)]
  BY SameCount DEF PublicItems, Linking!Public, Levels
<1>3. PICK j : j = IndexOf(t[1])
  OBVIOUS
<1>4. /\ t[2] \in Names /\ t[3] \in Namespaces
      /\ modules[j].exports[t[2]][t[3]] # NoBinding
      /\ t = AsPublic(j, t[2], t[3])
  BY <1>1, <1>2, <1>3, PublicIsExported
<1>5. modules[j].path = t[1]
  BY <1>3, ReadyFacts DEF Linked, Safe
<1> QED
  BY <1>3, <1>4, <1>5 DEF AsPublic, ExportsOf

\* What a place introduces in a table, ModuleLinking says it introduces.
LEMMA GiftIsIntroduced ==
    ASSUME IsFiniteSet(Paths), Linked, Links, NEW i \in DOMAIN modules, NEW x,
           x = Here \/ (x \in Items(i) /\ Ready(ImportAt(i, x).from)),
           NEW n \in Names, NEW ns \in Namespaces, Gift(i, x, n, ns) # NoBinding
    PROVE  Told(i, x, n, ns) \in IntroducedBy(i)
<1>0. Safe /\ Inv /\ Identity /\ Locals /\ Identified
  BY DEF Linked, Safe
<1>1. CASE x = Here
  <2>1. Gift(i, x, n, ns) = modules[i].local[n][ns]
    BY <1>1 DEF Gift
  <2>2. Meaning(Gift(i, x, n, ns)) = <<modules[i].path, n>> /\ Declares(DeclsOf(i), n, ns)
    BY <1>0, <2>1, LocalMeans
  <2>3. PICK d \in DOMAIN DeclsOf(i) : DeclsOf(i)[d].name = n /\ DeclsOf(i)[d].ns = ns
    BY <2>2 DEF Declares
  <2>4. Told(i, x, n, ns) = <<n, ns, modules[i].path, n, <<0, 0>>>>
    BY <1>1, <2>2 DEF Told, Here
  <2> QED
    BY <2>3, <2>4, IntroducedAre DEF IntroducedBy, DeclsOf
<1>2. CASE x # Here
  <2>1. PICK c, w, e : c = ImportAt(i, x) /\ w = ItemAt(i, x) /\ e = ExportsOf(c.from)[w.name][ns]
    OBVIOUS
  <2>2. x \in Items(i) /\ Ready(c.from) /\ w \in ImportItem /\ w.name \in Names
    BY <1>0, <1>2, <2>1, ItemFacts DEF ImportItem
  <2>3. w.as = n /\ Gift(i, x, n, ns) = e /\ e # NoBinding
    BY <1>2, <2>1 DEF Gift
  <2>4. PICK t : t = <<c.from, w.name, ns, Meaning(e)[1], Meaning(e)[2]>>
    OBVIOUS
  <2>5. t \in PublicItems
    BY <2>1, <2>2, <2>3, <2>4, OfferedIsPublic
  <2>6. PICK imp : imp = [from |-> c.from, pub |-> c.pub, name |-> w.name, as |-> w.as, at |-> x]
    OBVIOUS
  <2>7. imp \in Linking!ImportsIn(files, modules[i].path)
    BY <2>1, <2>2, <2>6, ImportsInAre
  <2>8. t[1] = imp.from /\ t[2] = imp.name /\ imp.as = n /\ imp.at = x
        /\ t[3] = ns /\ t[4] = Meaning(e)[1] /\ t[5] = Meaning(e)[2]
    BY <2>3, <2>4, <2>6
  <2>9. Told(i, x, n, ns) = <<imp.as, t[3], t[4], t[5], imp.at>>
    BY <2>3, <2>8 DEF Told
  <2> QED
    BY <2>5, <2>7, <2>8, <2>9, IntroducedAre DEF IntroducedBy, PublicItems
<1> QED
  BY <1>1, <1>2

\* What ModuleLinking says a resolved file introduces, a place introduces.
LEMMA IntroducedIsGift ==
    ASSUME IsFiniteSet(Paths), Linked, Links, NEW i \in DOMAIN modules, Settled(i),
           NEW s \in IntroducedBy(i)
    PROVE  \E x \in Sources(i), n \in Names, ns \in Namespaces :
             Gift(i, x, n, ns) # NoBinding /\ s = Told(i, x, n, ns)
<1>0. Safe /\ Inv /\ Identity /\ Locals /\ Identified
  BY DEF Linked, Safe
<1>1. CASE \E d \in DOMAIN DeclsOf(i) :
             s = <<DeclsOf(i)[d].name, DeclsOf(i)[d].ns,
                   modules[i].path, DeclsOf(i)[d].name, <<0, 0>>>>
  <2>1. PICK d \in DOMAIN DeclsOf(i) :
          s = <<DeclsOf(i)[d].name, DeclsOf(i)[d].ns,
                modules[i].path, DeclsOf(i)[d].name, <<0, 0>>>>
    BY <1>1
  <2>2. PICK n, ns : n = DeclsOf(i)[d].name /\ ns = DeclsOf(i)[d].ns
    OBVIOUS
  <2>3. n \in Names /\ ns \in Namespaces /\ modules[i].local[n][ns] # NoBinding
    BY <1>0, <2>2, DeclaredLocal
  <2>4. Gift(i, Here, n, ns) = modules[i].local[n][ns]
    BY DEF Gift
  <2>5. Meaning(Gift(i, Here, n, ns)) = <<modules[i].path, n>>
    BY <1>0, <2>3, <2>4, LocalMeans
  <2>6. s = Told(i, Here, n, ns)
    BY <2>1, <2>2, <2>5 DEF Told, Here
  <2> QED
    BY <2>3, <2>4, <2>6 DEF Sources
<1>2. CASE \E imp \in Linking!ImportsIn(files, modules[i].path) : \E u \in PublicItems :
             /\ u[1] = imp.from /\ u[2] = imp.name
             /\ s = <<imp.as, u[3], u[4], u[5], imp.at>>
  <2>1. PICK imp \in Linking!ImportsIn(files, modules[i].path), u \in PublicItems :
             /\ u[1] = imp.from /\ u[2] = imp.name
             /\ s = <<imp.as, u[3], u[4], u[5], imp.at>>
    BY <1>2
  <2>2. PICK x \in Items(i) :
          imp = [from |-> ImportAt(i, x).from, pub |-> ImportAt(i, x).pub,
                 name |-> ItemAt(i, x).name, as |-> ItemAt(i, x).as, at |-> x]
    BY <2>1, ImportsInAre
  <2>3. PICK n, ns, from, name : /\ n = ItemAt(i, x).as /\ ns = u[3]
                                 /\ from = ImportAt(i, x).from /\ name = ItemAt(i, x).name
    OBVIOUS
  <2>4. u[1] = from /\ u[2] = name /\ imp.as = n /\ imp.at = x
    BY <2>1, <2>2, <2>3
  <2>5. n \in Names /\ x # Here /\ x \in Past(i) /\ Ready(from)
    <3>1. x # Here /\ ItemAt(i, x) \in ImportItem
      BY <1>0, ItemFacts
    <3>2. x \in Past(i) /\ Tabled(i)
      BY SettledPast
    <3> QED
      BY <2>3, <3>1, <3>2 DEF Tabled, ImportItem
  <2>6. PICK e : e = ExportsOf(from)[name][ns]
    OBVIOUS
  <2>7. ns \in Namespaces /\ e # NoBinding
        /\ u = <<from, name, ns, Meaning(e)[1], Meaning(e)[2]>>
    BY <2>3, <2>4, <2>5, <2>6, PublicIsOffered
  <2>8. Gift(i, x, n, ns) = e
    BY <2>3, <2>5, <2>6 DEF Gift
  <2>9. u[4] = Meaning(e)[1] /\ u[5] = Meaning(e)[2]
    BY <2>7
  <2>10. s = Told(i, x, n, ns)
    BY <2>1, <2>3, <2>4, <2>8, <2>9 DEF Told
  <2> QED
    BY <2>5, <2>7, <2>8, <2>10 DEF Sources
<1>3. IntroducedBy(i) = Linking!Introduced(files, Linking!Reached(files), modules[i].path)
  BY DEF IntroducedBy
<1>4. \/ \E d \in DOMAIN files[modules[i].path].decls :
           s = <<files[modules[i].path].decls[d].name, files[modules[i].path].decls[d].ns,
                 modules[i].path, files[modules[i].path].decls[d].name, <<0, 0>>>>
      \/ \E imp \in Linking!ImportsIn(files, modules[i].path) :
           \E u \in Linking!Public(files, Linking!Reached(files)) :
             /\ u[1] = imp.from /\ u[2] = imp.name
             /\ s = <<imp.as, u[3], u[4], u[5], imp.at>>
  BY <1>3, IntroducedAre
<1> QED
  BY <1>1, <1>2, <1>4 DEF DeclsOf, PublicItems

-----------------------------------------------------------------------------
(* A program is linkable, and its scopes are the tables.                    *)

\* Everything is resolved.
Complete == \A i \in DOMAIN modules : Settled(i)

\* When all is resolved, the files of the program are the loaded ones,
LEMMA CompleteReach ==
    ASSUME Linked, Order, Links, Complete, phase \in {"flatten", "done"}
    PROVE  \A p : p \in Linking!Reached(files) <=> \E i \in DOMAIN modules : modules[i].path = p
<1>0. Safe /\ Inv /\ Identity
  BY DEF Linked, Safe
<1>1. \A p \in Paths : IsLoaded(p) => Ready(p)
  BY DEF IsLoaded, Ready, Complete
<1>2. Root \in SettledPaths /\ Prelude \in SettledPaths
  BY <1>0, <1>1, PathsAssumption DEF Inv, WellDefined, SettledPaths
<1>3. Linking!Reached(files) \subseteq SettledPaths
  BY <1>2, SettledClosed, ReachesNoMore, LinksFacts DEF Linking!Reached
<1>4. \A i \in DOMAIN modules : modules[i].path \in Linking!Reached(files)
  BY LinksFacts DEF Needed, Linking!Reached
<1> QED
  BY <1>3, <1>4 DEF SettledPaths, Ready

\* and it is linkable.
LEMMA CompleteLinkable ==
    ASSUME IsFiniteSet(Paths), Linked, Order, Links, Complete, phase \in {"flatten", "done"}
    PROVE  Linking!Linkable(files)
<1>0. Safe /\ Inv /\ Identity /\ Locals
  BY DEF Linked, Safe
<1>1. ASSUME NEW i \in DOMAIN modules
      PROVE  Linking!Loads(files, modules[i].path)
  <2>1. files[modules[i].path] # Unloadable
    BY <1>0, TargetsAre
  <2>2. DeclsOf(i) \in Seq(Decl) /\ ~DeclaresTwice(DeclsOf(i))
    BY <1>0 DEF DeclsOf, Inv, WellDefined, File, Locals
  <2>3. \A a, b \in DOMAIN DeclsOf(i) :
          DeclsOf(i)[a].name = DeclsOf(i)[b].name /\ DeclsOf(i)[a].ns = DeclsOf(i)[b].ns => a = b
    <3>1. \A m, n \in Nat : m < n \/ n < m \/ m = n
      OBVIOUS
    <3>2. \A a \in DOMAIN DeclsOf(i) : a \in Nat
      BY <2>2
    <3> QED
      BY <2>2, <3>1, <3>2 DEF DeclaresTwice
  <2> QED
    BY <2>1, <2>3 DEF Linking!Loads, DeclsOf
<1>2. ASSUME NEW i \in DOMAIN modules PROVE ~Linking!OnCycle(files, modules[i].path)
  BY LinksFacts DEF Acyclic, Complete
<1>3. ASSUME NEW i \in DOMAIN modules, NEW imp \in Linking!ImportsIn(files, modules[i].path)
      PROVE  \E t \in PublicItems : t[1] = imp.from /\ t[2] = imp.name
  <2>1. PICK x \in Items(i) :
          imp = [from |-> ImportAt(i, x).from, pub |-> ImportAt(i, x).pub,
                 name |-> ItemAt(i, x).name, as |-> ItemAt(i, x).as, at |-> x]
    BY ImportsInAre
  <2>2. PICK p, n : p = ImportAt(i, x).from /\ n = ItemAt(i, x).name
    OBVIOUS
  <2>3. Ready(p) /\ ~IsEmpty(ExportsOf(p)[n])
    BY <2>2, SettledPast DEF Complete, Tabled
  <2>4. n \in Names
    BY <1>0, <2>2, ItemFacts DEF ImportItem
  <2>5. PICK ns \in Namespaces : ExportsOf(p)[n][ns] # NoBinding
    BY <2>3 DEF IsEmpty
  <2>6. PICK t : t = <<p, n, ns, Meaning(ExportsOf(p)[n][ns])[1],
                       Meaning(ExportsOf(p)[n][ns])[2]>>
    OBVIOUS
  <2>7. t \in PublicItems /\ t[1] = p /\ t[2] = n
    BY <2>3, <2>4, <2>5, <2>6, OfferedIsPublic
  <2>8. imp.from = p /\ imp.name = n
    BY <2>1, <2>2
  <2> QED
    BY <2>7, <2>8
<1>4. ASSUME NEW i \in DOMAIN modules, NEW s \in IntroducedBy(i), NEW t \in IntroducedBy(i),
             s[1] = t[1], s[2] = t[2]
      PROVE  s = t
  <2>1. PICK x \in Sources(i), n \in Names, ns \in Namespaces :
          Gift(i, x, n, ns) # NoBinding /\ s = Told(i, x, n, ns)
    BY IntroducedIsGift DEF Complete
  <2>2. PICK y \in Sources(i), m \in Names, ms \in Namespaces :
          Gift(i, y, m, ms) # NoBinding /\ t = Told(i, y, m, ms)
    BY IntroducedIsGift DEF Complete
  <2>3. s[1] = n /\ s[2] = ns /\ t[1] = m /\ t[2] = ms
    BY <2>1, <2>2 DEF Told
  <2>4. m = n /\ ms = ns
    BY <1>4, <2>3
  <2>5. TabledAt(i, n, ns)
    BY SettledPast DEF Complete, Tabled
  <2>6. x = y
    BY <2>1, <2>2, <2>4, <2>5 DEF TabledAt
  <2> QED
    BY <2>1, <2>2, <2>4, <2>6
<1>5. ASSUME NEW p \in Linking!Reached(files)
      PROVE  \E i \in DOMAIN modules : modules[i].path = p
  BY CompleteReach
<1>6. PICK ps : ps = Linking!Reached(files)
  OBVIOUS
<1>7. \A p \in ps : Linking!Loads(files, p) /\ ~Linking!OnCycle(files, p)
  BY <1>1, <1>2, <1>5, <1>6
<1>8. \A p \in ps : \A imp \in Linking!ImportsIn(files, p) :
        \E t \in Linking!Public(files, ps) : t[1] = imp.from /\ t[2] = imp.name
  BY <1>3, <1>5, <1>6 DEF PublicItems
<1>9. \A p \in ps : \A s, t \in Linking!Introduced(files, ps, p) :
        s[1] = t[1] /\ s[2] = t[2] => s = t
  <2> SUFFICES ASSUME NEW p \in ps, NEW s \in Linking!Introduced(files, ps, p),
                      NEW t \in Linking!Introduced(files, ps, p), s[1] = t[1], s[2] = t[2]
               PROVE  s = t
    OBVIOUS
  <2>1. PICK i \in DOMAIN modules : modules[i].path = p
    BY <1>5, <1>6
  <2>2. s \in IntroducedBy(i) /\ t \in IntroducedBy(i)
    BY <1>6, <2>1 DEF IntroducedBy
  <2> QED
    BY <1>4, <2>2
<1> QED
  BY <1>6, <1>7, <1>8, <1>9 DEF Linking!Linkable

-----------------------------------------------------------------------------
(* What is rejected is not linkable.                                        *)

\* A file that fails to load.
LEMMA FailedLoad ==
    ASSUME Inv, NEW p \in Paths, p \in Linking!Reached(files), LoadFails(p)
    PROVE  ~Linking!Linkable(files)
<1>1. ~Linking!Loads(files, p)
  <2>1. CASE files[p] = Unloadable
    BY <2>1 DEF Linking!Loads
  <2>2. CASE files[p] # Unloadable
    <3>1. PICK decls : decls = files[p].decls
      OBVIOUS
    <3>2. decls \in Seq(Decl) /\ DeclaresTwice(decls)
      BY <2>2, <3>1, FilesType DEF Inv, File, LoadFails
    <3>3. PICK a, b \in DOMAIN decls :
            a < b /\ decls[a].name = decls[b].name /\ decls[a].ns = decls[b].ns
      BY <3>2 DEF DeclaresTwice
    <3>4. a # b
      <4>1. \A m, n \in Nat : m < n => m # n
        OBVIOUS
      <4>2. a \in Nat /\ b \in Nat
        BY <3>2
      <4> QED
        BY <3>3, <4>1, <4>2
    <3> QED
      BY <3>1, <3>3, <3>4 DEF Linking!Loads
  <2> QED
    BY <2>1, <2>2
<1> QED
  BY <1>1 DEF Linking!Linkable

\* What a loaded file imports is a file of the program.
LEMMA ImportedIsReached ==
    ASSUME Linked, Links, NEW i \in DOMAIN modules,
           NEW p \in Linking!Targets(files, modules[i].path)
    PROVE  p \in Paths /\ p \in Linking!Reached(files)
<1>1. p \in Paths /\ files[modules[i].path] # Unloadable
  BY TargetsAre DEF Linked, Safe
<1>2. modules[i].path \in Linking!Within(files, Root)
  BY LinksFacts DEF Needed
<1> QED
  BY <1>1, <1>2, ReachesImports DEF Linking!Reached

\* A call of a module that is being resolved.
LEMMA CyclicCall ==
    ASSUME Linked, Links, stack # <<>>, NEW i \in DOMAIN modules, modules[i].state = "Resolving",
           modules[i].path \in Linking!Targets(files, modules[Top.module].path)
    PROVE  ~Linking!Linkable(files)
<1>1. PICK k \in DOMAIN stack : stack[k].module = i
  BY DEF Linked, Safe, StackIsResolving
<1>2. PICK p : p = modules[i].path
  OBVIOUS
<1>3. Top.module \in DOMAIN modules
  BY TopIsOpen DEF Linked
<1>4. p \in Paths /\ p \in Linking!Reached(files)
  BY <1>2, <1>3, ImportedIsReached
<1>5. \E q \in Linking!Targets(files, modules[stack[k].module].path) :
        p \in Linking!Within(files, q)
  BY <1>2, <1>4, AwaitedIsNested, LinksFacts DEF Linked
<1>6. Linking!OnCycle(files, p)
  BY <1>1, <1>2, <1>5 DEF Linking!OnCycle
<1> QED
  BY <1>4, <1>6 DEF Linking!Linkable

\* The place that is about to be bound: what it imports is resolved, and it is
\* not bound yet.
LEMMA BindPlace ==
    ASSUME Linked, Links, BindImportItem
    PROVE  \E x \in Items(Top.module) :
             /\ ImportAt(Top.module, x) = CurrentImport
             /\ ItemAt(Top.module, x) = CurrentImport.items[Top.item]
             /\ Ready(ImportAt(Top.module, x).from) /\ x \notin Past(Top.module)
             /\ Top.module \in DOMAIN modules /\ modules[Top.module].state = "Resolving"
<1>0. Safe /\ Inv
  BY DEF Linked, Safe
<1>1. PICK t, i, a, b : t = Top /\ i = t.module /\ a = t.import /\ b = t.item
  OBVIOUS
<1>2. /\ phase = "resolve" /\ stack # <<>> /\ t.stage = "bind" /\ t \in GoodFrames
      /\ b <= Len(CurrentImport.items) /\ i \in DOMAIN modules
  BY <1>0, <1>1, TopType DEF BindImportItem
<1>3. a \in DOMAIN ImportsOf(i) /\ a \in Nat /\ b \in DOMAIN ImportsOf(i)[a].items /\ b \in Nat
  <2>1. a \in DOMAIN ImportsOf(i) /\ CurrentImport.items \in Seq(ImportItem)
    BY <1>0, <1>1, <1>2, CurrentImportType
  <2>2. a \in Nat /\ b \in Nat /\ b >= 1
    BY <1>1, <1>2 DEF GoodFrames, Frame
  <2>3. b \in DOMAIN CurrentImport.items
    BY <1>2, <2>1, <2>2
  <2> QED
    BY <1>1, <2>1, <2>2, <2>3 DEF CurrentImport
<1>4. PICK x : x = <<a, b>>
  OBVIOUS
<1>5. /\ x \in Items(i) /\ x[1] = a /\ x[2] = b /\ ImportAt(i, x) = CurrentImport
      /\ ItemAt(i, x) = CurrentImport.items[b]
  BY <1>1, <1>3, <1>4, PlaceFacts DEF CurrentImport
<1>6. modules[i].state = "Resolving"
  BY <1>0, <1>1, <1>2, TopIsOpen
<1>7. Len(stack) \in DOMAIN stack /\ Top = stack[Len(stack)]
  BY <1>0, <1>2, TopType DEF Top
<1>8. x \notin Past(i)
  <2>1. ~Passed(t, x)
    <3>1. \A n \in Nat : ~(n < n)
      OBVIOUS
    <3> QED
      BY <1>1, <1>2, <1>3, <1>5, <3>1 DEF Passed
  <2> QED
    BY <1>1, <1>7, <2>1 DEF Past, Behind
<1>9. Ready(ImportsOf(i)[a].from)
  <2>1. \A k \in DOMAIN stack : stack[k].module = i => Answered(stack[k], a, k = Len(stack))
    BY <1>0, <1>1, <1>2, <1>7, FrameFacts DEF Answered
  <2> QED
    BY <1>2, <1>3, <1>6, <2>1, LinksFacts DEF Resolves
<1> QED
  BY <1>1, <1>2, <1>5, <1>6, <1>8, <1>9 DEF ImportAt

\* An item that is not public where it comes from.
LEMMA NothingExported ==
    ASSUME IsFiniteSet(Paths), Linked, Links, NEW i \in DOMAIN modules, NEW x \in Items(i),
           Ready(ImportAt(i, x).from),
           IsEmpty(ExportsOf(ImportAt(i, x).from)[ItemAt(i, x).name])
    PROVE  ~Linking!Linkable(files)
<1>1. PICK p, n : p = ImportAt(i, x).from /\ n = ItemAt(i, x).name
  OBVIOUS
<1>2. PICK imp : imp = [from |-> p, pub |-> ImportAt(i, x).pub,
                        name |-> n, as |-> ItemAt(i, x).as, at |-> x]
  OBVIOUS
<1>3. imp \in Linking!ImportsIn(files, modules[i].path) /\ imp.from = p /\ imp.name = n
  BY <1>1, <1>2, ImportsInAre
<1>4. modules[i].path \in Linking!Reached(files)
  BY LinksFacts DEF Needed, Linking!Reached
<1>5. ASSUME NEW t \in PublicItems, t[1] = p, t[2] = n PROVE FALSE
  <2>1. t[3] \in Namespaces /\ ExportsOf(p)[n][t[3]] # NoBinding
    BY <1>1, <1>5, PublicIsOffered
  <2> QED
    BY <1>1, <2>1 DEF IsEmpty
<1>6. ~\E t \in Linking!Public(files, Linking!Reached(files)) : t[1] = imp.from /\ t[2] = imp.name
  BY <1>3, <1>5 DEF PublicItems
<1> QED
  BY <1>3, <1>4, <1>6 DEF Linking!Linkable

\* A name that two places of a file introduce.
LEMMA TwiceBound ==
    ASSUME IsFiniteSet(Paths), Linked, Links, NEW i \in DOMAIN modules,
           modules[i].state # "Loaded", NEW x \in Items(i), x \notin Past(i),
           Ready(ImportAt(i, x).from), NEW ns \in Namespaces,
           ExportsOf(ImportAt(i, x).from)[ItemAt(i, x).name][ns] # NoBinding,
           modules[i].visible[ItemAt(i, x).as][ns] # NoBinding
    PROVE  ~Linking!Linkable(files)
<1>1. PICK n : n = ItemAt(i, x).as
  OBVIOUS
<1>2. n \in Names /\ x # Here
  BY <1>1, ItemFacts DEF Linked, Safe, ImportItem
<1>3. Tabled(i)
  BY LinksFacts DEF Tables
<1>4. PICK y \in Sources(i) : modules[i].visible[n][ns] = Gift(i, y, n, ns)
  BY <1>1, <1>2, <1>3 DEF Tabled, TabledAt
<1>5. Gift(i, y, n, ns) # NoBinding /\ x # y
  BY <1>1, <1>2, <1>4 DEF Sources
<1>6. y = Here \/ (y \in Items(i) /\ Ready(ImportAt(i, y).from))
  BY <1>3, <1>4 DEF Sources, Tabled, Past
<1>7. Gift(i, x, n, ns) # NoBinding
  BY <1>1, <1>2 DEF Gift
<1>8. Told(i, x, n, ns) \in IntroducedBy(i) /\ Told(i, y, n, ns) \in IntroducedBy(i)
  BY <1>2, <1>5, <1>6, <1>7, GiftIsIntroduced
<1>9. PICK s, t : s = Told(i, x, n, ns) /\ t = Told(i, y, n, ns)
  OBVIOUS
<1>10. s[1] = t[1] /\ s[2] = t[2] /\ s[5] = x /\ t[5] = y
  BY <1>9 DEF Told
<1>11. s # t
  BY <1>5, <1>10
<1>12. modules[i].path \in Linking!Reached(files)
  BY LinksFacts DEF Needed, Linking!Reached
<1>13. /\ s \in Linking!Introduced(files, Linking!Reached(files), modules[i].path)
       /\ t \in Linking!Introduced(files, Linking!Reached(files), modules[i].path)
  BY <1>8, <1>9 DEF IntroducedBy
<1> QED
  BY <1>10, <1>11, <1>12, <1>13 DEF Linking!Linkable

\* The failures of BindImportItem.
LEMMA BindFails ==
    ASSUME IsFiniteSet(Paths), Linked, Links, BindImportItem, phase' = "failed"
    PROVE  ~Linking!Linkable(files)
<1>1. PICK i : i = Top.module
  OBVIOUS
<1>2. PICK x \in Items(i) :
        /\ ImportAt(i, x) = CurrentImport /\ ItemAt(i, x) = CurrentImport.items[Top.item]
        /\ Ready(ImportAt(i, x).from) /\ x \notin Past(i)
        /\ i \in DOMAIN modules /\ modules[i].state = "Resolving"
  BY <1>1, BindPlace
<1>3. PICK e, w : e = ExportsOf(ImportAt(i, x).from)[w.name] /\ w = ItemAt(i, x)
  OBVIOUS
<1>4. IsEmpty(e) \/ Clashes(modules[i].visible, w.as, e) \/ Clashes(modules[i].exports, w.as, e)
  BY <1>1, <1>2, <1>3 DEF BindImportItem, ExportsOf
<1>5. CASE IsEmpty(e)
  BY <1>2, <1>3, <1>5, NothingExported
<1>6. CASE Clashes(modules[i].visible, w.as, e) \/ Clashes(modules[i].exports, w.as, e)
  <2>1. PICK ns \in Namespaces :
          /\ e[ns] # NoBinding
          /\ modules[i].visible[w.as][ns] # NoBinding \/ modules[i].exports[w.as][ns] # NoBinding
    BY <1>6 DEF Clashes
  <2>2. w.as \in Names
    BY <1>2, <1>3, ItemFacts DEF Linked, Safe, ImportItem
  <2>3. modules[i].visible[w.as][ns] # NoBinding
    BY <1>2, <2>1, <2>2 DEF Linked, Safe, ExportsVisible
  <2> QED
    BY <1>2, <1>3, <2>1, <2>3, TwiceBound
<1> QED
  BY <1>4, <1>5, <1>6

\* Whatever the resolver rejects.
LEMMA FailsRightly ==
    ASSUME IsFiniteSet(Paths), Linked, Links, [Next]_vars, phase # "failed", phase' = "failed"
    PROVE  ~Linking!Linkable(files)
<1>0. Safe /\ Inv /\ Identity
  BY DEF Linked, Safe
<1>1. CASE LoadRoot
  <2>1. LoadFails(Root)
    BY <1>1 DEF LoadRoot
  <2>2. Root \in Linking!Reached(files)
    BY PathsAssumption, ReachesItself DEF Linking!Reached
  <2> QED
    BY <1>0, <2>1, <2>2, PathsAssumption, FailedLoad
<1>2. CASE LoadPrelude
  <2>1. LoadFails(Prelude)
    BY <1>2 DEF LoadPrelude
  <2>2. Prelude \in Linking!Reached(files)
    BY DEF Linking!Reached
  <2> QED
    BY <1>0, <2>1, <2>2, PathsAssumption, FailedLoad
<1>3. CASE ResolveRoot
  <2>1. PICK i : i = IndexOf(Root)
    OBVIOUS
  <2>2. phase = "call" /\ modules[i].state = "Resolving"
    BY <1>3, <2>1 DEF ResolveRoot, resolve_module, EnterModule
  <2>3. i \in DOMAIN modules
    BY <1>0, <2>1, <2>2, LookupPath DEF Inv, WellDefined
  <2> QED
    BY <2>2, <2>3, LinksFacts DEF NoneForgotten
<1>4. CASE LoadImport
  <2>1. PICK i, p : i = Top.module /\ p = CurrentImport.from
    OBVIOUS
  <2>2. /\ stack # <<>> /\ Top.stage = "load" /\ LoadFails(p)
    BY <1>4, <2>1 DEF LoadImport
  <2>3. i \in DOMAIN modules /\ Top.import \in DOMAIN ImportsOf(i)
    BY <1>0, <2>1, <2>2, TopType, CurrentImportType
  <2>4. p \in Linking!Targets(files, modules[i].path)
    BY <1>0, <2>1, <2>3, TargetsAre DEF CurrentImport
  <2> QED
    BY <1>0, <2>2, <2>3, <2>4, ImportedIsReached, FailedLoad
<1>5. CASE ResolveImport
  <2>1. PICK i, p, j : i = Top.module /\ p = CurrentImport.from /\ j = IndexOf(p)
    OBVIOUS
  <2>2. /\ stack # <<>> /\ Top.stage = "call" /\ modules[j].state = "Resolving"
    BY <1>5, <2>1 DEF ResolveImport, resolve_module, EnterModule
  <2>3. i \in DOMAIN modules /\ Top.import \in DOMAIN ImportsOf(i) /\ Top \in GoodFrames
    BY <1>0, <2>1, <2>2, TopType, CurrentImportType
  <2>4. IsLoaded(p)
    BY <2>1, <2>2, <2>3 DEF GoodFrames, CurrentImport
  <2>5. j \in DOMAIN modules /\ modules[j].path = p
    BY <2>1, <2>4, LookupPath
  <2>6. p \in Linking!Targets(files, modules[i].path)
    BY <1>0, <2>1, <2>3, TargetsAre DEF CurrentImport
  <2> QED
    BY <2>1, <2>2, <2>5, <2>6, CyclicCall
<1>6. CASE ResolvePrelude
  <2>1. PICK i, j : i = Top.module /\ j = IndexOf(Prelude)
    OBVIOUS
  <2>2. /\ stack # <<>> /\ phase = "resolve" /\ ~modules[i].isPrelude
        /\ modules[j].state = "Resolving"
    BY <1>6, <2>1 DEF ResolvePrelude, resolve_module, EnterModule
  <2>3. i \in DOMAIN modules
    BY <1>0, <2>1, <2>2, TopType
  <2>4. j \in DOMAIN modules /\ modules[j].path = Prelude
    BY <1>0, <2>1, <2>2, LookupPath DEF Inv, WellDefined
  <2>5. Prelude \in Linking!Targets(files, modules[i].path)
    BY <1>0, <2>2, <2>3, TargetsAre DEF Identity
  <2> QED
    BY <2>1, <2>2, <2>4, <2>5, CyclicCall
<1>7. CASE BindImportItem
  BY <1>7, BindFails
<1>8. CASE NextImport \/ FinishModule \/ ResolutionDone \/ FlattenModule \/ Finish
           \/ UNCHANGED vars
  BY <1>8 DEF NextImport, FinishModule, ResolutionDone, FlattenModule, Finish, vars
<1> QED
  BY <1>1, <1>2, <1>3, <1>4, <1>5, <1>6, <1>7, <1>8 DEF Next

-----------------------------------------------------------------------------
(* The scopes.                                                              *)

\* What is visible under a name in a resolved module.
LEMMA Looked ==
    ASSUME Linked, Links, Complete, NEW i \in DOMAIN modules,
           NEW n \in Names, NEW ns \in Namespaces
    PROVE  lookup_visible(modules[i], n)[ns] =
             IF modules[i].visible[n][ns] # NoBinding THEN modules[i].visible[n][ns]
             ELSE IF modules[i].path = Prelude THEN NoBinding
             ELSE ExportsOf(Prelude)[n][ns]
<1>1. modules[i].fallback =
        IF modules[i].path # Prelude THEN ExportsOf(Prelude) ELSE EmptyBindings
  BY LinksFacts DEF Fallbacks, Complete
<1>2. EmptyBindings[n][ns] = NoBinding
  BY DEF EmptyBindings
<1>3. modules[i].fallback[n][ns] =
        IF modules[i].path = Prelude THEN NoBinding ELSE ExportsOf(Prelude)[n][ns]
  BY <1>1, <1>2
<1>4. lookup_visible(modules[i], n)[ns] =
        IF modules[i].visible[n][ns] # NoBinding THEN modules[i].visible[n][ns]
        ELSE modules[i].fallback[n][ns]
  BY DEF lookup_visible, merge_binding_sets
<1> QED
  BY <1>3, <1>4

\* The members of a scope.
LEMMA ScopeIs ==
    ASSUME NEW m, NEW z
    PROVE  z \in Scope(m) <=>
             \E n \in Names, ns \in Namespaces :
                LET b == lookup_visible(m, n)[ns]
                IN  b # NoBinding /\ z = <<m.path, <<n, ns>>, Meaning(b)[1], Meaning(b)[2]>>
<1> DEFINE b(n, ns) == lookup_visible(m, n)[ns]
           T(key) == {<<m.path, key, Meaning(c)[1], Meaning(c)[2]>> :
                        c \in {b(key[1], key[2])} \ {NoBinding}}
<1>1. Scope(m) = UNION {T(key) : key \in Keys}
  BY DEF Scope
<1> HIDE DEF b
<1>2. \A key : z \in T(key) <=>
        /\ b(key[1], key[2]) # NoBinding
        /\ z = <<m.path, key, Meaning(b(key[1], key[2]))[1], Meaning(b(key[1], key[2]))[2]>>
  OBVIOUS
<1> HIDE DEF T
<1>3. z \in Scope(m) <=> \E key \in Keys : z \in T(key)
  BY <1>1
<1>4. ASSUME NEW n \in Names, NEW ns \in Namespaces
      PROVE  <<n, ns>> \in Keys /\ <<n, ns>>[1] = n /\ <<n, ns>>[2] = ns
  BY DEF Keys
<1>5. ASSUME NEW key \in Keys
      PROVE  key[1] \in Names /\ key[2] \in Namespaces /\ key = <<key[1], key[2]>>
  BY DEF Keys
<1>6. ASSUME NEW n \in Names, NEW ns \in Namespaces
      PROVE  z \in T(<<n, ns>>) <=>
               b(n, ns) # NoBinding
                 /\ z = <<m.path, <<n, ns>>, Meaning(b(n, ns))[1], Meaning(b(n, ns))[2]>>
  <2>1. PICK key : key = <<n, ns>>
    OBVIOUS
  <2>2. key[1] = n /\ key[2] = ns
    BY <2>1
  <2> QED
    BY <1>2, <2>1, <2>2
<1>7. (\E key \in Keys : z \in T(key)) <=>
        \E n \in Names, ns \in Namespaces : z \in T(<<n, ns>>)
  <2>1. ASSUME NEW key \in Keys, z \in T(key)
        PROVE  \E n \in Names, ns \in Namespaces : z \in T(<<n, ns>>)
    <3>1. PICK n, ns : n = key[1] /\ ns = key[2]
      OBVIOUS
    <3>2. n \in Names /\ ns \in Namespaces /\ key = <<n, ns>>
      BY <1>5, <3>1
    <3> QED
      BY <2>1, <3>2
  <2>2. ASSUME NEW n \in Names, NEW ns \in Namespaces, z \in T(<<n, ns>>)
        PROVE  \E key \in Keys : z \in T(key)
    BY <1>4, <2>2
  <2> QED
    BY <2>1, <2>2
<1> QED
  BY <1>3, <1>6, <1>7 DEF b

\* The members of the scopes ModuleLinking gives.
LEMMA ScopesAre ==
    ASSUME NEW fs, NEW z
    PROVE  LET ps == Linking!Reached(fs)
           IN  z \in Linking!ScopesOf(fs) <=>
                 \E p \in ps :
                   \/ \E t \in Linking!Introduced(fs, ps, p) :
                        z = <<p, <<t[1], t[2]>>, t[3], t[4]>>
                   \/ /\ p # Prelude
                      /\ \E u \in Linking!Public(fs, ps) :
                           /\ u[1] = Prelude
                           /\ z = <<p, <<u[2], u[3]>>, u[4], u[5]>>
                           /\ ~\E t \in Linking!Introduced(fs, ps, p) :
                                 <<t[1], t[2]>> = <<u[2], u[3]>>
<1> DEFINE ps == Linking!Reached(fs)
           intro(p) == Linking!Introduced(fs, ps, p)
           pub == Linking!Public(fs, ps)
           own(p) == {<<p, <<t[1], t[2]>>, t[3], t[4]>> : t \in intro(p)}
           implicit(p) ==
             {<<p, <<t[2], t[3]>>, t[4], t[5]>> :
                 t \in {u \in pub : u[1] = Prelude
                         /\ ~\E o \in own(p) : o[2] = <<u[2], u[3]>>}}
<1>1. Linking!ScopesOf(fs) =
        UNION {own(p) \cup (IF p = Prelude THEN {} ELSE implicit(p)) : p \in ps}
  BY DEF Linking!ScopesOf
<1> HIDE DEF ps, intro, pub
<1>2. \A p : \A y : (\E o \in own(p) : o[2] = y) <=> \E t \in intro(p) : <<t[1], t[2]>> = y
  <2>1. ASSUME NEW p, NEW y, NEW o \in own(p), o[2] = y
        PROVE  \E t \in intro(p) : <<t[1], t[2]>> = y
    <3>1. PICK t \in intro(p) : o = <<p, <<t[1], t[2]>>, t[3], t[4]>>
      BY <2>1
    <3>2. o[2] = <<t[1], t[2]>>
      BY <3>1
    <3> QED
      BY <2>1, <3>2
  <2>2. ASSUME NEW p, NEW y, NEW t \in intro(p), <<t[1], t[2]>> = y
        PROVE  \E o \in own(p) : o[2] = y
    <3>1. PICK o : o = <<p, <<t[1], t[2]>>, t[3], t[4]>>
      OBVIOUS
    <3>2. o \in own(p)
      BY <3>1
    <3>3. o[2] = y
      BY <2>2, <3>1
    <3> QED
      BY <3>2, <3>3
  <2> HIDE DEF own
  <2> QED
    BY <2>1, <2>2
<1>3. \A p : z \in own(p) <=> \E t \in intro(p) : z = <<p, <<t[1], t[2]>>, t[3], t[4]>>
  OBVIOUS
<1> HIDE DEF own
<1>4. \A p : z \in implicit(p) <=>
        \E u \in pub : /\ u[1] = Prelude /\ z = <<p, <<u[2], u[3]>>, u[4], u[5]>>
                       /\ ~\E o \in own(p) : o[2] = <<u[2], u[3]>>
  OBVIOUS
<1> HIDE DEF implicit
<1>5. z \in Linking!ScopesOf(fs) <=>
        \E p \in ps : z \in own(p) \/ (p # Prelude /\ z \in implicit(p))
  BY <1>1
<1>6. z \in Linking!ScopesOf(fs) <=>
        \E p \in ps :
          \/ \E t \in intro(p) : z = <<p, <<t[1], t[2]>>, t[3], t[4]>>
          \/ /\ p # Prelude
             /\ \E u \in pub : /\ u[1] = Prelude /\ z = <<p, <<u[2], u[3]>>, u[4], u[5]>>
                               /\ ~\E t \in intro(p) : <<t[1], t[2]>> = <<u[2], u[3]>>
  BY <1>2, <1>3, <1>4, <1>5
<1> QED
  BY <1>6 DEF ps, intro, pub

\* A name is in the table of a resolved module when its file introduces it, and
\* means there what the file says.
LEMMA OwnNames ==
    ASSUME IsFiniteSet(Paths), Linked, Links, Complete, NEW i \in DOMAIN modules
    PROVE  /\ \A n \in Names, ns \in Namespaces :
                modules[i].visible[n][ns] # NoBinding =>
                  \E t \in IntroducedBy(i) :
                    /\ t[1] = n /\ t[2] = ns
                    /\ t[3] = Meaning(modules[i].visible[n][ns])[1]
                    /\ t[4] = Meaning(modules[i].visible[n][ns])[2]
           /\ \A t \in IntroducedBy(i) :
                /\ t[1] \in Names /\ t[2] \in Namespaces
                /\ modules[i].visible[t[1]][t[2]] # NoBinding
                /\ t[3] = Meaning(modules[i].visible[t[1]][t[2]])[1]
                /\ t[4] = Meaning(modules[i].visible[t[1]][t[2]])[2]
<1>0. Settled(i) /\ Tabled(i)
  BY SettledPast DEF Complete
<1>1. ASSUME NEW n \in Names, NEW ns \in Namespaces, modules[i].visible[n][ns] # NoBinding
      PROVE  \E t \in IntroducedBy(i) :
               /\ t[1] = n /\ t[2] = ns
               /\ t[3] = Meaning(modules[i].visible[n][ns])[1]
               /\ t[4] = Meaning(modules[i].visible[n][ns])[2]
  <2>1. PICK y \in Sources(i) : modules[i].visible[n][ns] = Gift(i, y, n, ns)
    BY <1>0, <1>1 DEF Tabled, TabledAt
  <2>2. y = Here \/ (y \in Items(i) /\ Ready(ImportAt(i, y).from))
    BY <1>0, <2>1 DEF Sources, Tabled, Past
  <2>3. PICK t : t = Told(i, y, n, ns)
    OBVIOUS
  <2>4. t \in IntroducedBy(i)
    BY <1>1, <2>1, <2>2, <2>3, GiftIsIntroduced
  <2>5. /\ t[1] = n /\ t[2] = ns /\ t[3] = Meaning(Gift(i, y, n, ns))[1]
        /\ t[4] = Meaning(Gift(i, y, n, ns))[2]
    BY <2>3 DEF Told
  <2> QED
    BY <2>1, <2>4, <2>5
<1>2. ASSUME NEW t \in IntroducedBy(i)
      PROVE  /\ t[1] \in Names /\ t[2] \in Namespaces
             /\ modules[i].visible[t[1]][t[2]] # NoBinding
             /\ t[3] = Meaning(modules[i].visible[t[1]][t[2]])[1]
             /\ t[4] = Meaning(modules[i].visible[t[1]][t[2]])[2]
  <2>1. PICK y \in Sources(i), n \in Names, ns \in Namespaces :
          Gift(i, y, n, ns) # NoBinding /\ t = Told(i, y, n, ns)
    BY <1>0, IntroducedIsGift
  <2>2. /\ t[1] = n /\ t[2] = ns /\ t[3] = Meaning(Gift(i, y, n, ns))[1]
        /\ t[4] = Meaning(Gift(i, y, n, ns))[2]
    BY <2>1 DEF Told
  <2>3. modules[i].visible[n][ns] = Gift(i, y, n, ns)
    BY <1>0, <2>1 DEF Tabled, TabledAt
  <2> QED
    BY <2>1, <2>2, <2>3
<1> QED
  BY <1>1, <1>2

\* What the prelude offers a resolved program.
LEMMA PreludeNames ==
    ASSUME IsFiniteSet(Paths), Linked, Links, Ready(Prelude)
    PROVE  /\ \A n \in Names, ns \in Namespaces :
                ExportsOf(Prelude)[n][ns] # NoBinding =>
                  \E u \in PublicItems :
                    /\ u[1] = Prelude /\ u[2] = n /\ u[3] = ns
                    /\ u[4] = Meaning(ExportsOf(Prelude)[n][ns])[1]
                    /\ u[5] = Meaning(ExportsOf(Prelude)[n][ns])[2]
           /\ \A u \in PublicItems : u[1] = Prelude =>
                /\ u[2] \in Names /\ u[3] \in Namespaces
                /\ ExportsOf(Prelude)[u[2]][u[3]] # NoBinding
                /\ u[4] = Meaning(ExportsOf(Prelude)[u[2]][u[3]])[1]
                /\ u[5] = Meaning(ExportsOf(Prelude)[u[2]][u[3]])[2]
<1>1. ASSUME NEW n \in Names, NEW ns \in Namespaces, ExportsOf(Prelude)[n][ns] # NoBinding
      PROVE  \E u \in PublicItems :
               /\ u[1] = Prelude /\ u[2] = n /\ u[3] = ns
               /\ u[4] = Meaning(ExportsOf(Prelude)[n][ns])[1]
               /\ u[5] = Meaning(ExportsOf(Prelude)[n][ns])[2]
  <2>1. PICK u : u = <<Prelude, n, ns, Meaning(ExportsOf(Prelude)[n][ns])[1],
                       Meaning(ExportsOf(Prelude)[n][ns])[2]>>
    OBVIOUS
  <2>2. u \in PublicItems
    BY <1>1, <2>1, OfferedIsPublic
  <2> QED
    BY <2>1, <2>2
<1>2. ASSUME NEW u \in PublicItems, u[1] = Prelude
      PROVE  /\ u[2] \in Names /\ u[3] \in Namespaces
             /\ ExportsOf(Prelude)[u[2]][u[3]] # NoBinding
             /\ u[4] = Meaning(ExportsOf(Prelude)[u[2]][u[3]])[1]
             /\ u[5] = Meaning(ExportsOf(Prelude)[u[2]][u[3]])[2]
  <2>1. PICK a, b, c, d : /\ a = u[2] /\ b = u[3]
                          /\ c = Meaning(ExportsOf(u[1])[u[2]][u[3]])[1]
                          /\ d = Meaning(ExportsOf(u[1])[u[2]][u[3]])[2]
    OBVIOUS
  <2>2. Ready(u[1])
    BY <1>2
  <2>3. /\ a \in Names /\ b \in Namespaces /\ ExportsOf(u[1])[a][b] # NoBinding
        /\ u = <<u[1], a, b, c, d>>
    BY <2>1, <2>2, PublicIsOffered
  <2>4. u[4] = c /\ u[5] = d
    BY <2>3
  <2> QED
    BY <1>2, <2>1, <2>3, <2>4
<1> QED
  BY <1>1, <1>2

\* The tables of a resolved program are the scopes ModuleLinking gives.
LEMMA CompleteScopes ==
    ASSUME IsFiniteSet(Paths), Linked, Order, Links, Complete, phase \in {"flatten", "done"}
    PROVE  UNION {Scope(modules[i]) : i \in DOMAIN modules} = Linking!ScopesOf(files)
<1>0. Ready(Prelude)
  BY DEF Order, PreludeDone, PreludeSettled, Ready
<1> DEFINE In(i, z) ==
             \/ \E t \in IntroducedBy(i) : z = <<modules[i].path, <<t[1], t[2]>>, t[3], t[4]>>
             \/ /\ modules[i].path # Prelude
                /\ \E u \in PublicItems :
                     /\ u[1] = Prelude
                     /\ z = <<modules[i].path, <<u[2], u[3]>>, u[4], u[5]>>
                     /\ ~\E t \in IntroducedBy(i) : <<t[1], t[2]>> = <<u[2], u[3]>>
<1>1. ASSUME NEW i \in DOMAIN modules, NEW z \in Scope(modules[i]) PROVE In(i, z)
  <2>1. PICK n \in Names, ns \in Namespaces :
          /\ lookup_visible(modules[i], n)[ns] # NoBinding
          /\ z = <<modules[i].path, <<n, ns>>,
                   Meaning(lookup_visible(modules[i], n)[ns])[1],
                   Meaning(lookup_visible(modules[i], n)[ns])[2]>>
    BY <1>1, ScopeIs
  <2>2. PICK b, p : b = lookup_visible(modules[i], n)[ns] /\ p = modules[i].path
    OBVIOUS
  <2>3. b # NoBinding /\ z = <<p, <<n, ns>>, Meaning(b)[1], Meaning(b)[2]>>
    BY <2>1, <2>2
  <2>4. CASE modules[i].visible[n][ns] # NoBinding
    <3>1. b = modules[i].visible[n][ns]
      BY <2>2, <2>4, Looked
    <3>2. PICK t \in IntroducedBy(i) :
            t[1] = n /\ t[2] = ns /\ t[3] = Meaning(b)[1] /\ t[4] = Meaning(b)[2]
      BY <2>4, <3>1, OwnNames
    <3> QED
      BY <2>2, <2>3, <3>2
  <2>5. CASE modules[i].visible[n][ns] = NoBinding
    <3>1. p # Prelude /\ b = ExportsOf(Prelude)[n][ns]
      BY <2>2, <2>3, <2>5, Looked
    <3>2. PICK u \in PublicItems :
            /\ u[1] = Prelude /\ u[2] = n /\ u[3] = ns
            /\ u[4] = Meaning(b)[1] /\ u[5] = Meaning(b)[2]
      BY <1>0, <2>3, <3>1, PreludeNames
    <3>3. ASSUME NEW t \in IntroducedBy(i), <<t[1], t[2]>> = <<u[2], u[3]>> PROVE FALSE
      <4>1. t[1] = n /\ t[2] = ns
        BY <3>2, <3>3
      <4> QED
        BY <2>5, <4>1, OwnNames
    <3> QED
      BY <2>2, <2>3, <3>1, <3>2, <3>3
  <2> QED
    BY <2>4, <2>5
<1>2. ASSUME NEW i \in DOMAIN modules, NEW z, In(i, z) PROVE z \in Scope(modules[i])
  <2>0. PICK p : p = modules[i].path
    OBVIOUS
  <2>1. ASSUME NEW n \in Names, NEW ns \in Namespaces, NEW b,
               b = lookup_visible(modules[i], n)[ns], b # NoBinding,
               z = <<p, <<n, ns>>, Meaning(b)[1], Meaning(b)[2]>>
        PROVE  z \in Scope(modules[i])
    BY <2>0, <2>1, ScopeIs
  <2>2. CASE \E t \in IntroducedBy(i) : z = <<p, <<t[1], t[2]>>, t[3], t[4]>>
    <3>1. PICK t \in IntroducedBy(i) : z = <<p, <<t[1], t[2]>>, t[3], t[4]>>
      BY <2>2
    <3>2. PICK n, ns, b : n = t[1] /\ ns = t[2] /\ b = modules[i].visible[n][ns]
      OBVIOUS
    <3>3. /\ n \in Names /\ ns \in Namespaces /\ b # NoBinding
          /\ t[3] = Meaning(b)[1] /\ t[4] = Meaning(b)[2]
      BY <3>2, OwnNames
    <3>4. lookup_visible(modules[i], n)[ns] = b
      BY <3>2, <3>3, Looked
    <3> QED
      BY <2>1, <3>1, <3>2, <3>3, <3>4
  <2>3. CASE /\ p # Prelude
             /\ \E u \in PublicItems :
                  /\ u[1] = Prelude /\ z = <<p, <<u[2], u[3]>>, u[4], u[5]>>
                  /\ ~\E t \in IntroducedBy(i) : <<t[1], t[2]>> = <<u[2], u[3]>>
    <3>1. PICK u \in PublicItems :
            /\ u[1] = Prelude /\ z = <<p, <<u[2], u[3]>>, u[4], u[5]>>
            /\ ~\E t \in IntroducedBy(i) : <<t[1], t[2]>> = <<u[2], u[3]>>
      BY <2>3
    <3>2. PICK n, ns, b : n = u[2] /\ ns = u[3] /\ b = ExportsOf(Prelude)[n][ns]
      OBVIOUS
    <3>3. /\ n \in Names /\ ns \in Namespaces /\ b # NoBinding
          /\ u[4] = Meaning(b)[1] /\ u[5] = Meaning(b)[2]
      BY <1>0, <3>1, <3>2, PreludeNames
    <3>4. modules[i].visible[n][ns] = NoBinding
      <4>1. ASSUME modules[i].visible[n][ns] # NoBinding PROVE FALSE
        <5>1. PICK t \in IntroducedBy(i) : t[1] = n /\ t[2] = ns
          BY <3>3, <4>1, OwnNames
        <5> QED
          BY <3>1, <3>2, <5>1
      <4> QED
        BY <4>1
    <3>5. lookup_visible(modules[i], n)[ns] = b
      BY <2>0, <2>3, <3>2, <3>3, <3>4, Looked
    <3> QED
      BY <2>1, <3>1, <3>2, <3>3, <3>5
  <2> QED
    BY <1>2, <2>0, <2>2, <2>3
<1> HIDE DEF In
<1>3. ASSUME NEW z
      PROVE  z \in Linking!ScopesOf(files) <=> \E i \in DOMAIN modules : In(i, z)
  <2> DEFINE Has(p) ==
               \/ \E t \in Linking!Introduced(files, Linking!Reached(files), p) :
                    z = <<p, <<t[1], t[2]>>, t[3], t[4]>>
               \/ /\ p # Prelude
                  /\ \E u \in Linking!Public(files, Linking!Reached(files)) :
                       /\ u[1] = Prelude
                       /\ z = <<p, <<u[2], u[3]>>, u[4], u[5]>>
                       /\ ~\E t \in Linking!Introduced(files, Linking!Reached(files), p) :
                             <<t[1], t[2]>> = <<u[2], u[3]>>
  <2>1. z \in Linking!ScopesOf(files) <=> \E p \in Linking!Reached(files) : Has(p)
    BY ScopesAre
  <2>2. \A i : In(i, z) <=> Has(modules[i].path)
    BY DEF In, IntroducedBy, PublicItems
  <2> HIDE DEF Has
  <2>3. \A p : p \in Linking!Reached(files) <=> \E i \in DOMAIN modules : modules[i].path = p
    BY CompleteReach
  <2> QED
    BY <2>1, <2>2, <2>3
<1>4. \A z : z \in UNION {Scope(modules[i]) : i \in DOMAIN modules} <=>
               \E i \in DOMAIN modules : z \in Scope(modules[i])
  OBVIOUS
<1> QED
  BY <1>1, <1>2, <1>3, <1>4

-----------------------------------------------------------------------------
(* The refinement, step by step.                                            *)

\* What a step makes of the verdict and of the scopes.
LEMMA VerdictIs ==
    /\ (phase = "done" => Verdict = "linked")
    /\ (phase = "failed" => Verdict = "rejected" /\ Scopes = {})
    /\ (phase \notin {"done", "failed"} => Verdict = "pending" /\ Scopes = {})
    /\ (phase = "done" => Scopes = UNION {Scope(modules[i]) : i \in DOMAIN modules})
BY DEF Verdict, Scopes

\* Once the resolver has stopped it does nothing more.
LEMMA StoppedStays ==
    ASSUME [Next]_vars, phase \in {"done", "failed"}
    PROVE  UNCHANGED vars
BY DEF Next, LoadRoot, LoadPrelude, ResolveRoot, LoadImport, ResolveImport, BindImportItem,
       NextImport, ResolvePrelude, FinishModule, ResolutionDone, FlattenModule, Finish

\* Every step of the resolver is a step of ModuleLinking or none of its.
LEMMA StepDecides ==
    ASSUME IsFiniteSet(Paths), Linked, Order, Links, [Next]_vars
    PROVE  [Linking!Next]_<<files, Verdict, Scopes>>
<1>0. files' = files
  BY SteadyStep DEF Steady, Grows
<1>1. CASE phase \in {"done", "failed"}
  <2>1. UNCHANGED vars
    BY <1>1, StoppedStays
  <2> QED
    BY <2>1 DEF vars, Verdict, Scopes, Scope, Meaning, PathOfId
<1>2. CASE phase \notin {"done", "failed"} /\ phase' = "failed"
  <2>1. ~Linking!Linkable(files)
    BY <1>2, FailsRightly
  <2>2. Verdict = "pending" /\ Scopes = {}
    BY <1>2, VerdictIs
  <2>3. Verdict' = "rejected" /\ Scopes' = {}
    BY <1>2 DEF Verdict, Scopes
  <2> QED
    BY <1>0, <2>1, <2>2, <2>3 DEF Linking!Next, Linking!Reject
<1>3. CASE phase \notin {"done", "failed"} /\ phase' = "done"
  <2>1. /\ phase = "flatten" /\ UNCHANGED <<files, modules>>
        /\ \A i \in DOMAIN modules : modules[i].state = "Rewritten"
    BY <1>3 DEF Next, LoadRoot, LoadPrelude, ResolveRoot, LoadImport, ResolveImport,
                BindImportItem, NextImport, ResolvePrelude, FinishModule, ResolutionDone,
                FlattenModule, Finish, resolve_module, EnterModule, Fail, vars
  <2>2. Complete
    BY <2>1 DEF Complete, Settled
  <2>3. Linking!Linkable(files)
    BY <2>1, <2>2, CompleteLinkable
  <2>4. UNION {Scope(modules[i]) : i \in DOMAIN modules} = Linking!ScopesOf(files)
    BY <2>1, <2>2, CompleteScopes
  <2>5. Verdict = "pending" /\ Verdict' = "linked"
    BY <1>3 DEF Verdict
  <2>6. Scopes' = UNION {Scope(modules[i]) : i \in DOMAIN modules}
    BY <1>3, <2>1 DEF Scopes, Scope, Meaning, PathOfId
  <2> QED
    BY <1>0, <2>3, <2>4, <2>5, <2>6 DEF Linking!Next, Linking!Link
<1>4. CASE phase \notin {"done", "failed"} /\ phase' \notin {"done", "failed"}
  <2>1. Verdict = "pending" /\ Scopes = {} /\ Verdict' = "pending" /\ Scopes' = {}
    BY <1>4 DEF Verdict, Scopes
  <2> QED
    BY <1>0, <2>1
<1> QED
  BY <1>1, <1>2, <1>3, <1>4

\* Safety half of the refinement: in every run the resolver accepts only
\* linkable file systems, rejects only those that are not, and gives each file
\* exactly the scope ModuleLinking says its imports describe, whatever order
\* the imports lead it through the files in.
THEOREM ResolverLinks ==
    ASSUME IsFiniteSet(Paths)
    PROVE  Spec => ImplementsLinking
<1>1. Init => Linked /\ Order /\ Links
  <2>1. Init => Order
    BY DEF Init, Order, PreludeFirst, CallerStages, PreludeFrames, Waiting, PreludeDone,
           PreludeSettled
  <2> QED
    BY <2>1, InitLinked, InitLinks
<1>2. Linked /\ Order /\ Links /\ [Next]_vars => Linked' /\ Order' /\ Links'
  BY NextLinks
<1>3. Init => Linking!Init
  BY DEF Init, Linking!Init, Verdict, Scopes
<1>4. Linked /\ Order /\ Links /\ [Next]_vars => [Linking!Next]_<<files, Verdict, Scopes>>
  BY StepDecides
<1> QED
  BY <1>1, <1>2, <1>3, <1>4, PTL DEF Spec, ImplementsLinking, Linking!Decides

=============================================================================
