------------------------ MODULE ModuleResolverProofs ------------------------
(***************************************************************************)
(* ModuleResolver for every file system: its type correctness, with the    *)
(* invariant on loaded modules and frames it rests on; its safety, where   *)
(* the Resolving marks are the activations, exports are visible and        *)
(* resolved tables are final; the reference held across the resolution of  *)
(* the prelude; and the flattened program's names and references.          *)
(***************************************************************************)
EXTENDS ModuleResolver, SequenceTheorems, TLAPS

\* What makes every step well defined: loaded files were readable, a frame
\* points into its module's import list, and a call's target is loaded.
GoodFrames ==
    {f \in Frame :
        /\ f.module \in DOMAIN modules
        /\ f.stage \in {"load", "call", "bind"} => f.import \in DOMAIN ImportsOf(f.module)
        /\ f.stage \in {"call", "bind"} => IsLoaded(ImportsOf(f.module)[f.import].from)
        /\ f.item >= 1}

WellDefined ==
    /\ \A i \in DOMAIN modules : files[modules[i].path] \in File
    /\ stack \in Seq(GoodFrames)
    /\ phase \notin {"root", "failed"} => IsLoaded(Root)
    /\ phase \notin {"root", "prelude", "failed"} => IsLoaded(Prelude)
    /\ phase \notin {"resolve", "failed"} => stack = <<>>

Inv == TypeOK /\ WellDefined

\* No step forgets a module or changes what file it stands for.
PathsKept ==
    /\ files' = files
    /\ DOMAIN modules \subseteq DOMAIN modules'
    /\ \A i \in DOMAIN modules : modules'[i].path = modules[i].path

LEMMA LookupPath ==
    ASSUME NEW p, IsLoaded(p)
    PROVE  IndexOf(p) \in DOMAIN modules /\ modules[IndexOf(p)].path = p
BY DEF IsLoaded, IndexOf

LEMMA EmptyBindingsType == EmptyBindings \in Bindings
BY DEF EmptyBindings, Bindings, BindingSet

LEMMA LocalBindingsType ==
    ASSUME NEW decls, NEW isRoot \in BOOLEAN, NEW id \in Nat
    PROVE  collect_local_bindings(decls, isRoot, id) \in Bindings
BY DEF collect_local_bindings, mangle_name, Bindings, BindingSet, Binding, MangledName

LEMMA PublicLocalsType ==
    ASSUME NEW m \in Module
    PROVE  PublicLocals(m) \in Bindings
BY DEF PublicLocals, Bindings, BindingSet, Module

LEMMA InsertType ==
    ASSUME NEW b \in Bindings, NEW name \in Names, NEW incoming \in BindingSet
    PROVE  insert_binding_set(b, name, incoming) \in Bindings
BY DEF insert_binding_set, Bindings, BindingSet

LEMMA OpenedType ==
    ASSUME NEW m \in Module
    PROVE  /\ Opened(m) \in Module
           /\ Opened(m).path = m.path
           /\ Opened(m).state = "Resolving"
           /\ Opened(m).isPrelude = m.isPrelude
BY PublicLocalsType, EmptyBindingsType DEF Opened, Module, ResolveStates

LEMMA Kept ==
    ASSUME PathsKept
    PROVE  /\ \A p : IsLoaded(p) => IsLoaded(p)'
           /\ \A i \in DOMAIN modules : ImportsOf(i)' = ImportsOf(i)
           /\ GoodFrames \subseteq GoodFrames'
<1>1. \A p : IsLoaded(p) => IsLoaded(p)'
  BY DEF PathsKept, IsLoaded
<1>2. \A i \in DOMAIN modules : ImportsOf(i)' = ImportsOf(i)
  BY DEF PathsKept, ImportsOf
<1>3. GoodFrames \subseteq GoodFrames'
  BY <1>1, <1>2 DEF GoodFrames, PathsKept
<1> QED BY <1>1, <1>2, <1>3

LEMMA FilesType ==
    ASSUME TypeOK
    PROVE  /\ files \in [Paths -> File \cup {Unloadable}]
           /\ \A p \in Paths : files[p] # Unloadable => files[p] \in File
BY FilesAssumption DEF TypeOK

LEMMA ImportsType ==
    ASSUME Inv, NEW i \in DOMAIN modules
    PROVE  /\ modules[i] \in Module
           /\ ImportsOf(i) \in Seq(Import)
BY DEF Inv, TypeOK, WellDefined, ImportsOf, File

LEMMA FrameStarts ==
    ASSUME Inv, NEW i \in DOMAIN modules
    PROVE  StartFrame(i) \in GoodFrames
<1>1. ImportsOf(i) \in Seq(Import)
  BY ImportsType
<1>2. ImportsOf(i) # <<>> => 1 \in DOMAIN ImportsOf(i)
  BY <1>1
<1>3. i \in Nat
  BY DEF Inv, TypeOK
<1> QED BY <1>2, <1>3 DEF StartFrame, Frame, GoodFrames

LEMMA FailInv ==
    ASSUME Inv, NEW kind \in Errors, Fail(kind)
    PROVE  Inv'
BY DEF Inv, TypeOK, WellDefined, Fail, Phases, Errors, GoodFrames, ImportsOf, IsLoaded

LEMMA FlaggedType ==
    ASSUME NEW m \in Module, NEW isRoot \in BOOLEAN, NEW isPrelude \in BOOLEAN
    PROVE  /\ Flagged(m, isRoot, isPrelude) \in Module
           /\ Flagged(m, isRoot, isPrelude).path = m.path
           /\ Flagged(m, isRoot, isPrelude).state = m.state
           /\ Flagged(m, isRoot, isPrelude).local = m.local
           /\ Flagged(m, isRoot, isPrelude).visible = m.visible
           /\ Flagged(m, isRoot, isPrelude).fallback = m.fallback
           /\ Flagged(m, isRoot, isPrelude).exports = m.exports
<1> DEFINE root == m.isRoot \/ isRoot
           prelude == m.isPrelude \/ isPrelude
<1>1. root \in BOOLEAN /\ prelude \in BOOLEAN
  OBVIOUS
<1>2. Flagged(m, isRoot, isPrelude) = [m EXCEPT !.isRoot = root, !.isPrelude = prelude]
  BY Zenon DEF Flagged
<1> HIDE DEF root, prelude
<1> QED BY <1>1, <1>2 DEF Module

LEMMA Loading ==
    ASSUME Inv, NEW p \in Paths, NEW isRoot \in BOOLEAN, NEW isPrelude \in BOOLEAN,
           ~LoadFails(p), load_module(p, isRoot, isPrelude), files' = files
    PROVE  /\ modules' \in Seq(Module)
           /\ nextId' \in Nat
           /\ PathsKept
           /\ IsLoaded(p)'
           /\ \A i \in DOMAIN modules' : files[modules'[i].path] \in File
<1>0. modules \in Seq(Module) /\ nextId \in Nat
  BY DEF Inv, TypeOK
<1>1. CASE IsLoaded(p)
  <2> DEFINE k == IndexOf(p)
             m == Flagged(modules[k], isRoot, isPrelude)
  <2>1. k \in DOMAIN modules /\ modules[k].path = p
    BY <1>1, LookupPath
  <2>2. modules' = [modules EXCEPT ![k] = m] /\ nextId' = nextId
    BY <1>0, <1>1, <2>1 DEF load_module
  <2>3. m \in Module /\ m.path = p
    BY <1>0, <2>1, FlaggedType
  <2> HIDE DEF k, m
  <2>4. modules' \in Seq(Module) /\ DOMAIN modules' = DOMAIN modules
    BY <1>0, <2>1, <2>2, <2>3
  <2>5. \A i \in DOMAIN modules : modules'[i].path = modules[i].path
    BY <1>0, <2>1, <2>2, <2>3
  <2> QED BY <1>0, <2>1, <2>2, <2>4, <2>5 DEF PathsKept, IsLoaded, Inv, WellDefined
<1>2. CASE ~IsLoaded(p)
  <2> DEFINE m == NewModule(p, isRoot, isPrelude)
  <2>1. files[p] \in File
    BY <1>2, FilesType DEF LoadFails, Inv
  <2>2. m \in Module /\ m.path = p
    BY <1>0, LocalBindingsType, EmptyBindingsType DEF NewModule, Module, ResolveStates
  <2>3. modules' = Append(modules, m) /\ nextId' \in Nat
    BY <1>0, <1>2 DEF load_module
  <2> HIDE DEF m
  <2>4. modules' \in Seq(Module) /\ DOMAIN modules' = DOMAIN modules \cup {Len(modules) + 1}
    BY <1>0, <2>2, <2>3
  <2>5. /\ \A i \in DOMAIN modules : modules'[i] = modules[i]
        /\ modules'[Len(modules) + 1] = m
    BY <1>0, <2>2, <2>3
  <2> QED BY <1>0, <2>1, <2>2, <2>3, <2>4, <2>5 DEF PathsKept, IsLoaded, Inv, WellDefined
<1> QED BY <1>1, <1>2

LEMMA LoadErrorType == \A p : LoadError(p) \in Errors
BY DEF LoadError, Errors

LEMMA LoadRootInv == ASSUME Inv, LoadRoot PROVE Inv'
<1>1. CASE LoadFails(Root)
  BY <1>1, FailInv, LoadErrorType DEF LoadRoot
<1>2. CASE ~LoadFails(Root)
  <2>1. /\ load_module(Root, TRUE, Root = Prelude) /\ phase = "root" /\ phase' = "prelude"
        /\ UNCHANGED <<files, stack, error, program>>
    BY <1>2 DEF LoadRoot
  <2>2. stack = <<>> /\ error = "none"
    BY <2>1 DEF Inv, WellDefined, TypeOK
  <2>3. /\ modules' \in Seq(Module) /\ nextId' \in Nat /\ IsLoaded(Root)'
        /\ \A i \in DOMAIN modules' : files[modules'[i].path] \in File
    BY <1>2, <2>1, Loading, PathsAssumption
  <2>4. TypeOK'
    BY <2>1, <2>2, <2>3 DEF Inv, TypeOK, Phases
  <2>5. WellDefined'
    BY <2>1, <2>2, <2>3 DEF WellDefined
  <2> QED BY <2>4, <2>5 DEF Inv
<1> QED BY <1>1, <1>2

LEMMA LoadPreludeInv == ASSUME Inv, LoadPrelude PROVE Inv'
<1>0. phase = "prelude" /\ stack = <<>> /\ error = "none" /\ IsLoaded(Root)
  BY DEF LoadPrelude, Inv, WellDefined, TypeOK
<1>1. CASE Root # Prelude /\ LoadFails(Prelude)
  BY <1>1, FailInv, LoadErrorType DEF LoadPrelude
<1>2. CASE Root = Prelude
  BY <1>0, <1>2 DEF LoadPrelude, Inv, TypeOK, WellDefined, Phases, IsLoaded
<1>3. CASE Root # Prelude /\ ~LoadFails(Prelude)
  <2>1. /\ load_module(Prelude, FALSE, TRUE) /\ phase' = "call"
        /\ UNCHANGED <<files, stack, error, program>>
    BY <1>3 DEF LoadPrelude
  <2>2. /\ modules' \in Seq(Module) /\ nextId' \in Nat /\ IsLoaded(Prelude)' /\ PathsKept
        /\ \A i \in DOMAIN modules' : files[modules'[i].path] \in File
    BY <1>3, <2>1, Loading, PathsAssumption
  <2>3. IsLoaded(Root)'
    BY <1>0, <2>2, Kept
  <2>4. TypeOK'
    BY <1>0, <2>1, <2>2 DEF Inv, TypeOK, Phases
  <2>5. WellDefined'
    BY <1>0, <2>1, <2>2, <2>3 DEF WellDefined
  <2> QED BY <2>4, <2>5 DEF Inv
<1> QED BY <1>1, <1>2, <1>3

\* Replacing one module by one of the same path.
LEMMA ModuleUpdate ==
    ASSUME Inv, NEW i \in DOMAIN modules, NEW m \in Module, m.path = modules[i].path,
           modules' = [modules EXCEPT ![i] = m], files' = files
    PROVE  /\ modules' \in Seq(Module)
           /\ PathsKept
           /\ \A j \in DOMAIN modules' : files[modules'[j].path] \in File
           /\ DOMAIN modules' = DOMAIN modules
           /\ Len(modules') = Len(modules)
           /\ modules'[i] = m
           /\ \A j \in DOMAIN modules : j # i => modules'[j] = modules[j]
BY DEF Inv, TypeOK, WellDefined, PathsKept

LEMMA CallInv ==
    ASSUME Inv, NEW i \in DOMAIN modules, NEW frames \in Seq(GoodFrames),
           phase \in {"call", "resolve"}, phase = "call" => frames = <<>>,
           resolve_module(i, frames)
    PROVE  Inv'
<1>1. CASE Settled(i) /\ stack' = frames
             /\ UNCHANGED <<files, modules, nextId, phase, error, program>>
  <2>1. GoodFrames' = GoodFrames /\ GoodFrames \subseteq Frame
    BY <1>1 DEF GoodFrames, ImportsOf, IsLoaded
  <2> QED BY <1>1, <2>1 DEF Inv, TypeOK, WellDefined, IsLoaded
<1>2. CASE Fail("cyclic")
  BY <1>2, FailInv DEF Errors
<1>3. CASE EnterModule(i, frames)
  <2> DEFINE m == Opened(modules[i])
             f == StartFrame(i)
  <2>1. m \in Module /\ m.path = modules[i].path
    BY ImportsType, OpenedType
  <2>2. f \in GoodFrames
    BY FrameStarts
  <2>3. /\ modules' = [modules EXCEPT ![i] = m] /\ stack' = Append(frames, f)
        /\ phase' = "resolve"
        /\ UNCHANGED <<files, nextId, error, program>>
    BY <1>3 DEF EnterModule
  <2> HIDE DEF m, f
  <2>4. /\ modules' \in Seq(Module) /\ PathsKept
        /\ \A j \in DOMAIN modules' : files[modules'[j].path] \in File
    BY <2>1, <2>3, ModuleUpdate
  <2>5. stack' \in Seq(GoodFrames)
    BY <2>2, <2>3
  <2>6. stack' \in Seq(GoodFrames') /\ stack' \in Seq(Frame)
    BY <2>4, <2>5, Kept DEF GoodFrames
  <2>7. IsLoaded(Root)' /\ IsLoaded(Prelude)'
    BY <2>4, Kept DEF Inv, WellDefined
  <2>8. TypeOK'
    BY <2>3, <2>4, <2>6 DEF Inv, TypeOK, Phases
  <2>9. WellDefined'
    BY <2>3, <2>4, <2>6, <2>7 DEF WellDefined
  <2> QED BY <2>8, <2>9 DEF Inv
<1> QED BY <1>1, <1>2, <1>3 DEF resolve_module

LEMMA ResolveRootInv == ASSUME Inv, ResolveRoot PROVE Inv'
<1>1. phase = "call" /\ IndexOf(Root) \in DOMAIN modules
  BY LookupPath DEF ResolveRoot, Inv, WellDefined
<1>2. resolve_module(IndexOf(Root), <<>>)
  BY DEF ResolveRoot
<1>3. <<>> \in Seq(GoodFrames)
  OBVIOUS
<1> QED BY <1>1, <1>2, <1>3, CallInv

\* The frame on top while resolution is under way.
LEMMA TopType ==
    ASSUME Inv, stack # <<>>
    PROVE  /\ Len(stack) \in DOMAIN stack /\ Len(stack) >= 1
           /\ Top \in GoodFrames
           /\ Top.module \in DOMAIN modules
           /\ modules[Top.module] \in Module
           /\ ImportsOf(Top.module) \in Seq(Import)
<1>1. Len(stack) \in DOMAIN stack /\ Len(stack) >= 1 /\ Top \in GoodFrames
  BY DEF Inv, TypeOK, WellDefined, Top
<1>2. Top.module \in DOMAIN modules
  BY <1>1 DEF GoodFrames
<1> QED BY <1>1, <1>2, ImportsType

LEMMA ReplaceType ==
    ASSUME Inv, stack # <<>>, NEW f \in GoodFrames
    PROVE  ReplaceTop(f) \in Seq(GoodFrames)
BY DEF ReplaceTop, Inv, WellDefined

\* A step of resolution that replaces the top frame by a well-defined one.
LEMMA StepInv ==
    ASSUME Inv, stack # <<>>, phase = "resolve", NEW f \in GoodFrames',
           stack' = ReplaceTop(f), modules' \in Seq(Module), nextId' \in Nat, PathsKept,
           \A j \in DOMAIN modules' : files[modules'[j].path] \in File,
           UNCHANGED <<files, phase, error>>
    PROVE  Inv'
<1>1. stack \in Seq(GoodFrames') /\ Len(stack) \in DOMAIN stack
  BY Kept DEF Inv, TypeOK, WellDefined
<1>2. stack' \in Seq(GoodFrames')
  BY <1>1 DEF ReplaceTop
<1>3. stack' \in Seq(Frame)
  BY <1>2 DEF GoodFrames
<1>4. IsLoaded(Root)' /\ IsLoaded(Prelude)'
  BY Kept DEF Inv, WellDefined
<1>5. TypeOK'
  BY <1>3 DEF Inv, TypeOK
<1> QED BY <1>2, <1>4, <1>5 DEF Inv, WellDefined

LEMMA CurrentImportType ==
    ASSUME Inv, stack # <<>>, Top.stage \in {"load", "call", "bind"}
    PROVE  /\ Top.import \in DOMAIN ImportsOf(Top.module)
           /\ CurrentImport \in Import
           /\ CurrentImport.from \in Paths
           /\ CurrentImport.items \in Seq(ImportItem)
           /\ CurrentImport.pub \in BOOLEAN
<1>1. Top \in GoodFrames /\ ImportsOf(Top.module) \in Seq(Import)
  BY TopType
<1>2. Top.import \in DOMAIN ImportsOf(Top.module)
  BY <1>1 DEF GoodFrames
<1>3. CurrentImport \in Import
  BY <1>1, <1>2 DEF CurrentImport
<1> QED BY <1>2, <1>3 DEF Import

LEMMA LoadImportInv == ASSUME Inv, LoadImport PROVE Inv'
<1>1. PICK t : t = Top
  OBVIOUS
<1>2. PICK p : p = CurrentImport.from
  OBVIOUS
<1> DEFINE f == [t EXCEPT !.stage = "call"]
<1>3. /\ phase = "resolve" /\ stack # <<>> /\ t.stage = "load"
      /\ t \in GoodFrames /\ p \in Paths
      /\ t.import \in DOMAIN ImportsOf(t.module)
      /\ ImportsOf(t.module)[t.import].from = p
  BY <1>1, <1>2, TopType, CurrentImportType DEF LoadImport, CurrentImport
<1>4. CASE LoadFails(p)
  BY <1>2, <1>4, FailInv, LoadErrorType DEF LoadImport
<1>5. CASE ~LoadFails(p)
  <2>1. /\ load_module(p, FALSE, p = Prelude) /\ stack' = ReplaceTop(f)
        /\ UNCHANGED <<files, phase, error, program>>
    BY <1>1, <1>2, <1>5 DEF LoadImport
  <2>2. /\ modules' \in Seq(Module) /\ nextId' \in Nat /\ IsLoaded(p)' /\ PathsKept
        /\ \A i \in DOMAIN modules' : files[modules'[i].path] \in File
    BY <1>3, <1>5, <2>1, Loading
  <2>3. t \in GoodFrames' /\ ImportsOf(t.module)' = ImportsOf(t.module)
    BY <1>3, <2>2, Kept DEF GoodFrames
  <2>4. f \in Frame /\ f.module = t.module /\ f.import = t.import /\ f.item = t.item
    BY <1>3 DEF GoodFrames, Frame
  <2> HIDE DEF f
  <2>5. f \in GoodFrames'
    BY <1>3, <2>2, <2>3, <2>4 DEF GoodFrames
  <2> QED BY <1>3, <2>1, <2>2, <2>5, StepInv
<1> QED BY <1>4, <1>5

LEMMA ResolveImportInv == ASSUME Inv, ResolveImport PROVE Inv'
<1>1. PICK t : t = Top
  OBVIOUS
<1> DEFINE f == [t EXCEPT !.stage = "bind"]
<1>2. /\ phase = "resolve" /\ stack # <<>> /\ t.stage = "call" /\ t \in GoodFrames
      /\ resolve_module(IndexOf(CurrentImport.from), ReplaceTop(f))
  BY <1>1, TopType DEF ResolveImport
<1>3. f \in Frame /\ f.module = t.module /\ f.import = t.import /\ f.item = t.item
  BY <1>2 DEF GoodFrames, Frame
<1> HIDE DEF f
<1>4. f \in GoodFrames
  BY <1>2, <1>3 DEF GoodFrames
<1>5. ReplaceTop(f) \in Seq(GoodFrames)
  BY <1>2, <1>4, ReplaceType
<1>6. IsLoaded(CurrentImport.from)
  BY <1>1, <1>2 DEF GoodFrames, CurrentImport
<1>7. IndexOf(CurrentImport.from) \in DOMAIN modules
  BY <1>6, LookupPath
<1> QED BY <1>2, <1>5, <1>7, CallInv

LEMMA BoundType ==
    ASSUME NEW m \in Module, NEW as \in Names, NEW exported \in BindingSet,
           NEW pub \in BOOLEAN
    PROVE  /\ Bound(m, as, exported, pub) \in Module
           /\ Bound(m, as, exported, pub).path = m.path
           /\ Bound(m, as, exported, pub).state = m.state
           /\ Bound(m, as, exported, pub).visible =
                insert_binding_set(m.visible, as, exported)
           /\ Bound(m, as, exported, pub).exports =
                IF pub THEN insert_binding_set(m.exports, as, exported) ELSE m.exports
<1> DEFINE v == insert_binding_set(m.visible, as, exported)
           e == IF pub THEN insert_binding_set(m.exports, as, exported) ELSE m.exports
<1>1. v \in Bindings /\ e \in Bindings
  BY InsertType DEF Module
<1>2. Bound(m, as, exported, pub) = [m EXCEPT !.visible = v, !.exports = e]
  BY DEF Bound
<1> HIDE DEF v, e
<1>3. /\ [m EXCEPT !.visible = v, !.exports = e] \in Module
      /\ [m EXCEPT !.visible = v, !.exports = e].path = m.path
      /\ [m EXCEPT !.visible = v, !.exports = e].state = m.state
      /\ [m EXCEPT !.visible = v, !.exports = e].visible = v
      /\ [m EXCEPT !.visible = v, !.exports = e].exports = e
  BY <1>1 DEF Module
<1> QED BY <1>2, <1>3 DEF v, e

LEMMA BindImportItemInv == ASSUME Inv, BindImportItem PROVE Inv'
<1>1. PICK t : t = Top
  OBVIOUS
<1>2. PICK exported, as, pub :
        /\ exported = modules[IndexOf(CurrentImport.from)].exports
                        [CurrentImport.items[Top.item].name]
        /\ as = CurrentImport.items[Top.item].as
        /\ pub = CurrentImport.pub
  OBVIOUS
<1> DEFINE f == [t EXCEPT !.item = @ + 1]
           m == Bound(modules[t.module], as, exported, pub)
<1>3. /\ phase = "resolve" /\ stack # <<>> /\ t.stage = "bind" /\ t \in GoodFrames
      /\ t.item <= Len(CurrentImport.items)
  BY <1>1, TopType DEF BindImportItem
<1>4. CurrentImport.items[Top.item] \in ImportItem
  BY <1>1, <1>3, CurrentImportType DEF GoodFrames, Frame
<1>5. exported \in BindingSet /\ as \in Names /\ pub \in BOOLEAN
  <2>1. IsLoaded(CurrentImport.from)
    BY <1>1, <1>3 DEF GoodFrames, CurrentImport
  <2>2. modules[IndexOf(CurrentImport.from)] \in Module
    BY <2>1, LookupPath, ImportsType
  <2>3. modules[IndexOf(CurrentImport.from)].exports \in Bindings
    BY <2>2 DEF Module
  <2> QED BY <1>1, <1>2, <1>3, <1>4, <2>3, CurrentImportType DEF ImportItem, Bindings
<1>6. CASE \E kind \in Errors : Fail(kind)
  BY <1>6, FailInv
<1>7. CASE /\ modules' = [modules EXCEPT ![t.module] = m]
           /\ stack' = ReplaceTop(f)
           /\ UNCHANGED <<files, nextId, phase, error, program>>
  <2>1. t.module \in DOMAIN modules /\ modules[t.module] \in Module
    BY <1>1, <1>3, TopType
  <2>2. m \in Module /\ m.path = modules[t.module].path
    BY <1>5, <2>1, BoundType
  <2> HIDE DEF m
  <2>3. /\ modules' \in Seq(Module) /\ PathsKept
        /\ \A i \in DOMAIN modules' : files[modules'[i].path] \in File
    BY <1>7, <2>1, <2>2, ModuleUpdate
  <2>4. /\ f \in Frame /\ f.module = t.module /\ f.import = t.import
        /\ f.item >= 1 /\ f.stage = t.stage
    BY <1>3 DEF GoodFrames, Frame
  <2> HIDE DEF f
  <2>5. f \in GoodFrames
    BY <1>3, <2>4 DEF GoodFrames
  <2>6. f \in GoodFrames' /\ nextId' \in Nat
    BY <1>7, <2>3, <2>5, Kept DEF Inv, TypeOK
  <2> QED BY <1>3, <1>7, <2>3, <2>6, StepInv
<1>8. \/ \E kind \in Errors : Fail(kind)
      \/ /\ modules' = [modules EXCEPT ![t.module] = m]
         /\ stack' = ReplaceTop(f)
         /\ UNCHANGED <<files, nextId, phase, error, program>>
  BY <1>1, <1>2 DEF BindImportItem, Errors
<1> QED BY <1>6, <1>7, <1>8

LEMMA SameModules ==
    ASSUME UNCHANGED <<files, modules>>
    PROVE  PathsKept /\ GoodFrames' = GoodFrames
BY DEF PathsKept, GoodFrames, ImportsOf, IsLoaded

LEMMA NextImportInv == ASSUME Inv, NextImport PROVE Inv'
<1>1. PICK t, n : t = Top /\ n = Len(ImportsOf(Top.module))
  OBVIOUS
<1> DEFINE f == [t EXCEPT !.item = 1,
                    !.import = IF t.import < n THEN t.import + 1 ELSE t.import,
                    !.stage = IF t.import < n THEN "load" ELSE "fallback"]
<1>2. /\ phase = "resolve" /\ stack # <<>> /\ t.stage = "bind" /\ t \in GoodFrames
      /\ stack' = ReplaceTop(f)
      /\ UNCHANGED <<files, modules, nextId, phase, error, program>>
  BY <1>1, TopType DEF NextImport
<1>3. /\ f \in Frame /\ f.module = t.module /\ f.item = 1
      /\ f.stage = "load" => t.import < n /\ f.import = t.import + 1
      /\ f.stage \in {"load", "fallback"}
  <2>1. t \in Frame /\ t.import \in Nat
    BY <1>2 DEF GoodFrames, Frame
  <2>2. CASE t.import < n
    <3>1. PICK k \in Nat : k = t.import + 1
      BY <2>1
    <3> DEFINE g == [t EXCEPT !.item = 1, !.import = k, !.stage = "load"]
    <3>2. f = g
      BY <2>2, <3>1
    <3>3. /\ g \in Frame /\ g.module = t.module /\ g.item = 1
          /\ g.stage = "load" /\ g.import = k
      BY <2>1 DEF Frame
    <3> HIDE DEF f, g
    <3> QED BY <2>2, <3>1, <3>2, <3>3
  <2>3. CASE ~(t.import < n)
    <3> DEFINE g == [t EXCEPT !.item = 1, !.import = t.import, !.stage = "fallback"]
    <3>1. f = g
      BY <2>3
    <3>2. /\ g \in Frame /\ g.module = t.module /\ g.item = 1
          /\ g.stage = "fallback"
      BY <2>1 DEF Frame
    <3> HIDE DEF f, g
    <3> QED BY <3>1, <3>2
  <2> QED BY <2>2, <2>3
<1> HIDE DEF f
<1>4. /\ t.module \in DOMAIN modules /\ ImportsOf(t.module) \in Seq(Import)
      /\ t.import \in DOMAIN ImportsOf(t.module) /\ n = Len(ImportsOf(t.module))
  BY <1>1, <1>2, TopType, CurrentImportType
<1>5. f \in GoodFrames
  BY <1>3, <1>4 DEF GoodFrames
<1>6. f \in GoodFrames' /\ PathsKept
  BY <1>2, <1>5, SameModules
<1> QED BY <1>2, <1>6, StepInv DEF Inv, TypeOK, WellDefined

LEMMA ResolvePreludeInv == ASSUME Inv, ResolvePrelude PROVE Inv'
<1>1. PICK t, n : t = Top /\ n = Len(modules)
  OBVIOUS
<1> DEFINE f == [t EXCEPT !.stage = "use", !.held = n]
<1>2. phase = "resolve" /\ stack # <<>> /\ t.stage = "fallback" /\ t \in GoodFrames
  BY <1>1, TopType DEF ResolvePrelude
<1>3. f \in Frame /\ f.module = t.module /\ f.item = t.item /\ f.stage = "use"
  <2>1. n \in Nat /\ t \in Frame
    BY <1>1, <1>2 DEF GoodFrames, Inv, TypeOK
  <2> QED BY <1>2, <2>1 DEF Frame
<1>4. \/ /\ stack' = ReplaceTop(f)
         /\ UNCHANGED <<files, modules, nextId, phase, error, program>>
      \/ resolve_module(IndexOf(Prelude), ReplaceTop(f))
  BY <1>1 DEF ResolvePrelude
<1> HIDE DEF f
<1>5. f \in GoodFrames
  BY <1>2, <1>3 DEF GoodFrames
<1>6. CASE /\ stack' = ReplaceTop(f)
           /\ UNCHANGED <<files, modules, nextId, phase, error, program>>
  <2>1. f \in GoodFrames' /\ PathsKept
    BY <1>5, <1>6, SameModules
  <2> QED BY <1>2, <1>6, <2>1, StepInv DEF Inv, TypeOK, WellDefined
<1>7. CASE resolve_module(IndexOf(Prelude), ReplaceTop(f))
  <2>1. IndexOf(Prelude) \in DOMAIN modules
    BY <1>2, LookupPath DEF Inv, WellDefined
  <2>2. ReplaceTop(f) \in Seq(GoodFrames)
    BY <1>2, <1>5, ReplaceType
  <2> QED BY <1>2, <1>7, <2>1, <2>2, CallInv
<1> QED BY <1>4, <1>6, <1>7

LEMMA FinishModuleInv == ASSUME Inv, FinishModule PROVE Inv'
<1>1. PICK i : i = Top.module
  OBVIOUS
<1> DEFINE fallback == IF modules[i].isPrelude THEN modules[i].fallback
                       ELSE modules[IndexOf(Prelude)].exports
           m == [modules[i] EXCEPT !.fallback = fallback, !.state = "Resolved"]
<1>2. /\ phase = "resolve" /\ stack # <<>> /\ stack' = Pop
      /\ UNCHANGED <<files, nextId, phase, error, program>>
      /\ i \in DOMAIN modules /\ modules[i] \in Module
  BY <1>1, TopType DEF FinishModule
<1>3. modules[IndexOf(Prelude)] \in Module
  BY <1>2, LookupPath, ImportsType DEF Inv, WellDefined
<1>4. fallback \in Bindings
  BY <1>2, <1>3 DEF Module
<1>5. modules' = [modules EXCEPT ![i] = m]
  BY <1>1, <1>2 DEF FinishModule
<1> HIDE DEF fallback
<1>6. m \in Module /\ m.path = modules[i].path
  BY <1>2, <1>4 DEF Module, ResolveStates
<1> HIDE DEF m
<1>7. /\ modules' \in Seq(Module) /\ PathsKept
      /\ \A j \in DOMAIN modules' : files[modules'[j].path] \in File
  BY <1>2, <1>5, <1>6, ModuleUpdate
<1>8. stack' \in Seq(GoodFrames') /\ stack' \in Seq(Frame)
  <2>1. stack \in Seq(GoodFrames') /\ stack \in Seq(Frame)
    BY <1>7, Kept DEF Inv, TypeOK, WellDefined
  <2> QED BY <1>2, <2>1 DEF Pop
<1>9. IsLoaded(Root)' /\ IsLoaded(Prelude)'
  BY <1>2, <1>7, Kept DEF Inv, WellDefined
<1>10. TypeOK'
  BY <1>2, <1>7, <1>8 DEF Inv, TypeOK
<1> QED BY <1>2, <1>7, <1>8, <1>9, <1>10 DEF Inv, WellDefined

LEMMA FlattenModuleInv == ASSUME Inv, FlattenModule PROVE Inv'
<1>1. PICK i \in DOMAIN modules :
        modules' = [modules EXCEPT ![i].state = "Rewritten"]
  BY DEF FlattenModule
<1>2. /\ phase = "flatten" /\ stack = <<>>
      /\ UNCHANGED <<files, nextId, stack, phase, error>>
  BY DEF FlattenModule, Inv, WellDefined
<1> DEFINE m == [modules[i] EXCEPT !.state = "Rewritten"]
<1>3. m \in Module /\ m.path = modules[i].path
  BY ImportsType DEF Module, ResolveStates
<1>4. modules' = [modules EXCEPT ![i] = m]
  BY <1>1
<1> HIDE DEF m
<1>5. /\ modules' \in Seq(Module) /\ PathsKept
      /\ \A j \in DOMAIN modules' : files[modules'[j].path] \in File
  BY <1>2, <1>3, <1>4, ModuleUpdate
<1>6. IsLoaded(Root)' /\ IsLoaded(Prelude)'
  BY <1>2, <1>5, Kept DEF Inv, WellDefined
<1>7. TypeOK'
  BY <1>2, <1>5 DEF Inv, TypeOK
<1>8. stack' \in Seq(GoodFrames')
  BY <1>2
<1> QED BY <1>2, <1>5, <1>6, <1>7, <1>8 DEF Inv, WellDefined

LEMMA PhaseInv == ASSUME Inv, ResolutionDone \/ Finish \/ UNCHANGED vars PROVE Inv'
<1>1. UNCHANGED <<files, modules, nextId, stack, error>>
  BY DEF ResolutionDone, Finish, vars
<1>2. GoodFrames' = GoodFrames /\ IsLoaded(Root)' = IsLoaded(Root)
        /\ IsLoaded(Prelude)' = IsLoaded(Prelude)
  BY <1>1, SameModules DEF IsLoaded
<1> QED BY <1>1, <1>2
        DEF ResolutionDone, Finish, vars, Inv, TypeOK, WellDefined, Phases

LEMMA InitInv == Init => Inv
BY DEF Init, Inv, TypeOK, WellDefined, Phases, Errors

LEMMA NextInv == Inv /\ [Next]_vars => Inv'
<1> SUFFICES ASSUME Inv, [Next]_vars PROVE Inv'
  OBVIOUS
<1>1. CASE LoadRoot BY <1>1, LoadRootInv
<1>2. CASE LoadPrelude BY <1>2, LoadPreludeInv
<1>3. CASE ResolveRoot BY <1>3, ResolveRootInv
<1>4. CASE LoadImport BY <1>4, LoadImportInv
<1>5. CASE ResolveImport BY <1>5, ResolveImportInv
<1>6. CASE BindImportItem BY <1>6, BindImportItemInv
<1>7. CASE NextImport BY <1>7, NextImportInv
<1>8. CASE ResolvePrelude BY <1>8, ResolvePreludeInv
<1>9. CASE FinishModule BY <1>9, FinishModuleInv
<1>10. CASE FlattenModule BY <1>10, FlattenModuleInv
<1>11. CASE ResolutionDone \/ Finish \/ UNCHANGED vars BY <1>11, PhaseInv
<1> QED
  BY <1>1, <1>2, <1>3, <1>4, <1>5, <1>6, <1>7, <1>8, <1>9, <1>10, <1>11 DEF Next

\* Every state of the resolver is well typed, and it stops with an error
\* exactly when it stops early.
THEOREM TypeCorrect == Spec => []TypeOK
<1>1. Spec => []Inv
  BY InitInv, NextInv, PTL DEF Spec
<1>2. Inv => TypeOK
  BY DEF Inv
<1> QED BY <1>1, <1>2, PTL

-----------------------------------------------------------------------------
(* Safety.                                                                  *)

\* A file is loaded once, and is_prelude says which file it is.
Identity ==
    /\ \A i, j \in DOMAIN modules : modules[i].path = modules[j].path => i = j
    /\ \A i \in DOMAIN modules : modules[i].isPrelude <=> modules[i].path = Prelude

Safe == Inv /\ Identity /\ StackIsResolving /\ ExportsVisible

\* Loading adds modules and leaves the tables of the others alone.
ModulesGrow ==
    /\ DOMAIN modules \subseteq DOMAIN modules'
    /\ \A i \in DOMAIN modules :
        /\ modules'[i].path = modules[i].path
        /\ modules'[i].state = modules[i].state
        /\ modules'[i].visible = modules[i].visible
        /\ modules'[i].fallback = modules[i].fallback
        /\ modules'[i].exports = modules[i].exports
    /\ \A i \in DOMAIN modules' \ DOMAIN modules :
        modules'[i].state = "Loaded" /\ modules'[i].exports = EmptyBindings

FramesKept ==
    /\ DOMAIN stack' = DOMAIN stack
    /\ \A k \in DOMAIN stack : stack'[k].module = stack[k].module

LEMMA FlaggedPrelude ==
    ASSUME NEW m \in Module, NEW isRoot \in BOOLEAN, NEW isPrelude \in BOOLEAN
    PROVE  Flagged(m, isRoot, isPrelude).isPrelude <=> m.isPrelude \/ isPrelude
<1> DEFINE root == m.isRoot \/ isRoot
           prelude == m.isPrelude \/ isPrelude
<1>1. root \in BOOLEAN /\ prelude \in BOOLEAN
  OBVIOUS
<1>2. Flagged(m, isRoot, isPrelude) = [m EXCEPT !.isRoot = root, !.isPrelude = prelude]
  BY Zenon DEF Flagged
<1>3. Flagged(m, isRoot, isPrelude).isPrelude = prelude
  <2> HIDE DEF root, prelude
  <2> QED BY <1>1, <1>2 DEF Module
<1> QED BY <1>3

LEMMA LoadStep ==
    ASSUME Inv, Identity, NEW p \in Paths, NEW isRoot \in BOOLEAN,
           NEW isPrelude \in BOOLEAN, isPrelude <=> p = Prelude,
           ~LoadFails(p), load_module(p, isRoot, isPrelude)
    PROVE  ModulesGrow /\ Identity'
<1>0. modules \in Seq(Module)
  BY DEF Inv, TypeOK
<1>1. CASE IsLoaded(p)
  <2> DEFINE k == IndexOf(p)
             m == Flagged(modules[k], isRoot, isPrelude)
  <2>1. k \in DOMAIN modules /\ modules[k].path = p
    BY <1>1, LookupPath
  <2>2. modules' = [modules EXCEPT ![k] = m]
    BY <1>1 DEF load_module
  <2>3. /\ m \in Module /\ m.path = p /\ m.state = modules[k].state
        /\ m.visible = modules[k].visible /\ m.fallback = modules[k].fallback
        /\ m.exports = modules[k].exports
    BY <1>0, <2>1, FlaggedType
  <2>4. m.isPrelude <=> modules[k].isPrelude
    BY <1>0, <2>1, FlaggedPrelude DEF Identity
  <2> HIDE DEF k, m
  <2>5. DOMAIN modules' = DOMAIN modules /\ modules'[k] = m
        /\ \A i \in DOMAIN modules : i # k => modules'[i] = modules[i]
    BY <1>0, <2>1, <2>2
  <2> QED BY <2>1, <2>3, <2>4, <2>5 DEF ModulesGrow, Identity
<1>2. CASE ~IsLoaded(p)
  <2> DEFINE m == NewModule(p, isRoot, isPrelude)
  <2>1. /\ m.path = p /\ m.isPrelude = isPrelude /\ m.state = "Loaded"
        /\ m.exports = EmptyBindings
    BY DEF NewModule
  <2>2. modules' = Append(modules, m)
    BY <1>2 DEF load_module
  <2> HIDE DEF m
  <2>3. /\ DOMAIN modules' = DOMAIN modules \cup {Len(modules) + 1}
        /\ \A i \in DOMAIN modules : modules'[i] = modules[i]
        /\ modules'[Len(modules) + 1] = m
    BY <1>0, <2>2
  <2>4. \A i \in DOMAIN modules : modules[i].path # p
    BY <1>2 DEF IsLoaded
  <2> QED BY <2>1, <2>3, <2>4 DEF ModulesGrow, Identity
<1> QED BY <1>1, <1>2

LEMMA GrowSafe ==
    ASSUME StackIsResolving, ExportsVisible, ModulesGrow, FramesKept
    PROVE  StackIsResolving' /\ ExportsVisible'
<1>1. StackIsResolving'
  <2>1. ASSUME NEW k \in DOMAIN stack'
        PROVE  /\ stack'[k].module \in DOMAIN modules'
               /\ modules'[stack'[k].module].state = "Resolving"
               /\ \A l \in DOMAIN stack' : stack'[l].module = stack'[k].module => l = k
    BY DEF StackIsResolving, ModulesGrow, FramesKept
  <2>2. ASSUME NEW i \in DOMAIN modules', modules'[i].state = "Resolving"
        PROVE  \E k \in DOMAIN stack' : stack'[k].module = i
    BY <2>2 DEF StackIsResolving, ModulesGrow, FramesKept
  <2> QED BY <2>1, <2>2 DEF StackIsResolving
<1>2. ExportsVisible'
  <2> SUFFICES ASSUME NEW i \in DOMAIN modules', NEW n \in Names, NEW ns \in Namespaces,
                      modules'[i].exports[n][ns] # NoBinding
               PROVE  modules'[i].exports[n][ns] = modules'[i].visible[n][ns]
    BY DEF ExportsVisible
  <2>1. CASE i \in DOMAIN modules
    BY <2>1 DEF ExportsVisible, ModulesGrow
  <2>2. CASE i \notin DOMAIN modules
    BY <2>2 DEF ModulesGrow, EmptyBindings
  <2> QED BY <2>1, <2>2
<1> QED BY <1>1, <1>2

LEMMA SameSafe ==
    ASSUME Safe, UNCHANGED modules, FramesKept
    PROVE  Identity' /\ StackIsResolving' /\ ExportsVisible'
<1>1. ModulesGrow
  BY DEF ModulesGrow
<1>2. Identity'
  BY DEF Safe, Identity
<1> QED BY <1>1, <1>2, GrowSafe DEF Safe

LEMMA FailSafe ==
    ASSUME Safe, NEW kind, Fail(kind)
    PROVE  Identity' /\ StackIsResolving' /\ ExportsVisible'
BY SameSafe DEF Fail, FramesKept

\* Replacing the top frame by one of the same module keeps every activation.
LEMMA ReplaceKeeps ==
    ASSUME Inv, stack # <<>>, NEW f, f.module = Top.module, stack' = ReplaceTop(f)
    PROVE  FramesKept
BY DEF Inv, TypeOK, FramesKept, ReplaceTop, Top

LEMMA LoadRootSafe == ASSUME Safe, LoadRoot PROVE Safe'
<1>1. CASE LoadFails(Root)
  BY <1>1, FailSafe, LoadRootInv DEF LoadRoot, Safe
<1>2. CASE ~LoadFails(Root)
  <2>1. load_module(Root, TRUE, Root = Prelude) /\ stack' = stack
    BY <1>2 DEF LoadRoot
  <2>2. ModulesGrow /\ Identity'
    BY <1>2, <2>1, LoadStep, PathsAssumption DEF Safe
  <2> QED BY <2>1, <2>2, GrowSafe, LoadRootInv DEF Safe, FramesKept
<1> QED BY <1>1, <1>2

LEMMA LoadPreludeSafe == ASSUME Safe, LoadPrelude PROVE Safe'
<1>1. CASE Root # Prelude /\ LoadFails(Prelude)
  BY <1>1, FailSafe, LoadPreludeInv DEF LoadPrelude, Safe
<1>2. CASE Root = Prelude
  BY <1>2, SameSafe, LoadPreludeInv DEF LoadPrelude, Safe, FramesKept
<1>3. CASE Root # Prelude /\ ~LoadFails(Prelude)
  <2>1. load_module(Prelude, FALSE, TRUE) /\ stack' = stack
    BY <1>3 DEF LoadPrelude
  <2>2. ModulesGrow /\ Identity'
    BY <1>3, <2>1, LoadStep, PathsAssumption DEF Safe
  <2> QED BY <2>1, <2>2, GrowSafe, LoadPreludeInv DEF Safe, FramesKept
<1> QED BY <1>1, <1>2, <1>3

LEMMA LoadImportSafe == ASSUME Safe, LoadImport PROVE Safe'
<1>1. PICK t, p : t = Top /\ p = CurrentImport.from
  OBVIOUS
<1>2. stack # <<>> /\ t \in Frame /\ p \in Paths
  BY <1>1, TopType, CurrentImportType DEF LoadImport, Safe, GoodFrames
<1>3. CASE LoadFails(p)
  BY <1>1, <1>3, FailSafe, LoadImportInv DEF LoadImport, Safe
<1>4. CASE ~LoadFails(p)
  <2> DEFINE f == [t EXCEPT !.stage = "call"]
  <2>1. load_module(p, FALSE, p = Prelude) /\ stack' = ReplaceTop(f)
    BY <1>1, <1>4 DEF LoadImport
  <2>2. ModulesGrow /\ Identity'
    BY <1>2, <1>4, <2>1, LoadStep DEF Safe
  <2>3. f.module = t.module
    BY <1>2 DEF Frame
  <2> HIDE DEF f
  <2>4. FramesKept
    BY <1>1, <1>2, <2>1, <2>3, ReplaceKeeps DEF Safe
  <2> QED BY <2>2, <2>4, GrowSafe, LoadImportInv DEF Safe
<1> QED BY <1>3, <1>4

LEMMA NextImportSafe == ASSUME Safe, NextImport PROVE Safe'
<1>1. PICK t, f : /\ t = Top /\ stack' = ReplaceTop(f)
                  /\ f = [t EXCEPT !.item = 1,
                        !.import = IF t.import < Len(ImportsOf(t.module))
                                   THEN t.import + 1 ELSE t.import,
                        !.stage = IF t.import < Len(ImportsOf(t.module))
                                  THEN "load" ELSE "fallback"]
  BY DEF NextImport
<1>2. stack # <<>> /\ UNCHANGED modules /\ t \in Frame
  BY <1>1, TopType DEF NextImport, Safe, GoodFrames
<1>3. f.module = t.module
  BY <1>1, <1>2 DEF Frame
<1>4. FramesKept
  BY <1>1, <1>2, <1>3, ReplaceKeeps DEF Safe
<1> QED BY <1>2, <1>4, SameSafe, NextImportInv DEF Safe

LEMMA PhaseSafe == ASSUME Safe, ResolutionDone \/ Finish \/ UNCHANGED vars PROVE Safe'
<1>1. UNCHANGED modules /\ FramesKept
  BY DEF ResolutionDone, Finish, vars, FramesKept
<1> QED BY <1>1, SameSafe, PhaseInv DEF Safe

LEMMA EnterSafe ==
    ASSUME Safe, NEW i \in DOMAIN modules, NEW frames \in Seq(GoodFrames),
           modules[i].state = "Loaded", EnterModule(i, frames),
           DOMAIN frames = DOMAIN stack,
           \A k \in DOMAIN stack : frames[k].module = stack[k].module
    PROVE  Identity' /\ StackIsResolving' /\ ExportsVisible'
<1> DEFINE m == Opened(modules[i])
           s == StartFrame(i)
<1>1. modules \in Seq(Module) /\ modules[i] \in Module
  BY DEF Safe, Inv, TypeOK
<1>2. /\ m \in Module /\ m.path = modules[i].path /\ m.state = "Resolving"
      /\ m.isPrelude = modules[i].isPrelude
      /\ m.visible = modules[i].local /\ m.exports = PublicLocals(modules[i])
  BY <1>1, OpenedType DEF Opened, Module
<1>3. /\ modules' = [modules EXCEPT ![i] = m] /\ stack' = Append(frames, s)
      /\ s.module = i
  BY DEF EnterModule, StartFrame
<1> HIDE DEF m, s
<1>4. /\ DOMAIN modules' = DOMAIN modules /\ modules'[i] = m
      /\ \A j \in DOMAIN modules : j # i => modules'[j] = modules[j]
  BY <1>1, <1>3
<1>5. /\ DOMAIN stack' = DOMAIN stack \cup {Len(frames) + 1}
      /\ \A k \in DOMAIN stack : stack'[k].module = stack[k].module
      /\ stack'[Len(frames) + 1].module = i
  BY <1>3
<1>6. \A k \in DOMAIN stack : stack[k].module # i
  BY DEF Safe, StackIsResolving
<1>7. Identity'
  BY <1>2, <1>4 DEF Safe, Identity
<1>8. StackIsResolving'
  <2>1. ASSUME NEW k \in DOMAIN stack'
        PROVE  /\ stack'[k].module \in DOMAIN modules'
               /\ modules'[stack'[k].module].state = "Resolving"
               /\ \A l \in DOMAIN stack' : stack'[l].module = stack'[k].module => l = k
    BY <1>2, <1>4, <1>5, <1>6 DEF Safe, StackIsResolving
  <2>2. ASSUME NEW j \in DOMAIN modules', modules'[j].state = "Resolving"
        PROVE  \E k \in DOMAIN stack' : stack'[k].module = j
    <3>1. CASE j = i BY <1>5, <3>1
    <3>2. CASE j # i BY <1>4, <1>5, <2>2, <3>2 DEF Safe, StackIsResolving
    <3> QED BY <3>1, <3>2
  <2> QED BY <2>1, <2>2 DEF StackIsResolving
<1>9. ExportsVisible'
  <2> SUFFICES ASSUME NEW j \in DOMAIN modules', NEW n \in Names, NEW ns \in Namespaces,
                      modules'[j].exports[n][ns] # NoBinding
               PROVE  modules'[j].exports[n][ns] = modules'[j].visible[n][ns]
    BY DEF ExportsVisible
  <2>1. CASE j = i
    BY <1>2, <1>4, <2>1 DEF PublicLocals
  <2>2. CASE j # i
    BY <1>4, <2>2 DEF Safe, ExportsVisible
  <2> QED BY <2>1, <2>2
<1> QED BY <1>7, <1>8, <1>9

LEMMA CallSafe ==
    ASSUME Safe, NEW i \in DOMAIN modules, NEW frames \in Seq(GoodFrames),
           resolve_module(i, frames), DOMAIN frames = DOMAIN stack,
           \A k \in DOMAIN stack : frames[k].module = stack[k].module
    PROVE  Identity' /\ StackIsResolving' /\ ExportsVisible'
<1>1. CASE Settled(i) /\ stack' = frames
             /\ UNCHANGED <<files, modules, nextId, phase, error, program>>
  BY <1>1, SameSafe DEF FramesKept
<1>2. CASE Fail("cyclic")
  BY <1>2, FailSafe
<1>3. CASE modules[i].state = "Loaded" /\ EnterModule(i, frames)
  BY <1>3, EnterSafe
<1> QED BY <1>1, <1>2, <1>3 DEF resolve_module

\* The caller's frame, moved to the stage the call returns to.
LEMMA ReplacedFrames ==
    ASSUME Inv, stack # <<>>, NEW f, f.module = Top.module
    PROVE  /\ DOMAIN ReplaceTop(f) = DOMAIN stack
           /\ \A k \in DOMAIN stack : ReplaceTop(f)[k].module = stack[k].module
BY DEF Inv, TypeOK, ReplaceTop, Top

LEMMA ResolveRootSafe == ASSUME Safe, ResolveRoot PROVE Safe'
<1>1. phase = "call" /\ IndexOf(Root) \in DOMAIN modules /\ stack = <<>>
  BY LookupPath DEF ResolveRoot, Safe, Inv, WellDefined
<1>2. resolve_module(IndexOf(Root), <<>>)
  BY DEF ResolveRoot
<1>3. <<>> \in Seq(GoodFrames)
  OBVIOUS
<1> QED BY <1>1, <1>2, <1>3, CallSafe, ResolveRootInv DEF Safe

LEMMA ResolveImportSafe == ASSUME Safe, ResolveImport PROVE Safe'
<1>1. PICK t, f : t = Top /\ f = [t EXCEPT !.stage = "bind"]
  OBVIOUS
<1>2. /\ stack # <<>> /\ t.stage = "call" /\ t \in GoodFrames
      /\ resolve_module(IndexOf(CurrentImport.from), ReplaceTop(f))
  BY <1>1, TopType DEF ResolveImport, Safe
<1>3. f \in Frame /\ f.module = t.module /\ f.import = t.import /\ f.item = t.item
      /\ f.stage = "bind"
  BY <1>1, <1>2 DEF GoodFrames, Frame
<1>4. ReplaceTop(f) \in Seq(GoodFrames)
  BY <1>2, <1>3, ReplaceType DEF GoodFrames, Safe
<1>5. IndexOf(CurrentImport.from) \in DOMAIN modules
  BY <1>1, <1>2, LookupPath DEF GoodFrames, CurrentImport
<1>6. /\ DOMAIN ReplaceTop(f) = DOMAIN stack
      /\ \A k \in DOMAIN stack : ReplaceTop(f)[k].module = stack[k].module
  BY <1>1, <1>2, <1>3, ReplacedFrames DEF Safe
<1> QED BY <1>2, <1>4, <1>5, <1>6, CallSafe, ResolveImportInv DEF Safe

LEMMA ResolvePreludeSafe == ASSUME Safe, ResolvePrelude PROVE Safe'
<1>1. PICK t, n : t = Top /\ n = Len(modules)
  OBVIOUS
<1>2. PICK f : f = [t EXCEPT !.stage = "use", !.held = n]
  OBVIOUS
<1>3. /\ phase = "resolve" /\ stack # <<>> /\ t \in GoodFrames /\ n \in Nat
      /\ \/ stack' = ReplaceTop(f) /\ UNCHANGED modules
         \/ resolve_module(IndexOf(Prelude), ReplaceTop(f))
  BY <1>1, <1>2, TopType DEF ResolvePrelude, Safe, Inv, TypeOK
<1>4. f \in GoodFrames /\ f.module = t.module
  BY <1>2, <1>3 DEF GoodFrames, Frame
<1>5. CASE stack' = ReplaceTop(f) /\ UNCHANGED modules
  BY <1>1, <1>3, <1>4, <1>5, ReplaceKeeps, SameSafe, ResolvePreludeInv DEF Safe
<1>6. CASE resolve_module(IndexOf(Prelude), ReplaceTop(f))
  <2>1. IndexOf(Prelude) \in DOMAIN modules
    BY <1>3, LookupPath DEF Safe, Inv, WellDefined
  <2>2. ReplaceTop(f) \in Seq(GoodFrames)
    BY <1>3, <1>4, ReplaceType DEF Safe
  <2>3. /\ DOMAIN ReplaceTop(f) = DOMAIN stack
        /\ \A k \in DOMAIN stack : ReplaceTop(f)[k].module = stack[k].module
    BY <1>1, <1>3, <1>4, ReplacedFrames DEF Safe
  <2> QED BY <1>6, <2>1, <2>2, <2>3, CallSafe, ResolvePreludeInv DEF Safe
<1> QED BY <1>3, <1>5, <1>6

\* Replacing a module by one in the same state, with the same frames.
LEMMA UpdateMarks ==
    ASSUME Safe, FramesKept, NEW i \in DOMAIN modules, NEW m \in Module,
           modules' = [modules EXCEPT ![i] = m], m.path = modules[i].path,
           m.isPrelude = modules[i].isPrelude, m.state = modules[i].state
    PROVE  Identity' /\ StackIsResolving'
<1>1. /\ DOMAIN modules' = DOMAIN modules /\ modules'[i] = m
      /\ \A j \in DOMAIN modules : j # i => modules'[j] = modules[j]
  BY DEF Safe, Inv, TypeOK
<1>2. Identity'
  BY <1>1 DEF Safe, Identity
<1>3. \A j \in DOMAIN modules : modules'[j].state = modules[j].state
  BY <1>1
<1>4. ASSUME NEW k \in DOMAIN stack'
      PROVE  /\ stack'[k].module \in DOMAIN modules'
             /\ modules'[stack'[k].module].state = "Resolving"
             /\ \A l \in DOMAIN stack' : stack'[l].module = stack'[k].module => l = k
  BY <1>1, <1>3 DEF Safe, StackIsResolving, FramesKept
<1>5. ASSUME NEW j \in DOMAIN modules', modules'[j].state = "Resolving"
      PROVE  \E k \in DOMAIN stack' : stack'[k].module = j
  BY <1>1, <1>3, <1>5 DEF Safe, StackIsResolving, FramesKept
<1> QED BY <1>2, <1>4, <1>5 DEF StackIsResolving

LEMMA InsertedAt ==
    ASSUME NEW b \in Bindings, NEW as \in Names, NEW incoming \in BindingSet
    PROVE  \A n \in Names, ns \in Namespaces :
             insert_binding_set(b, as, incoming)[n][ns] =
                IF n = as /\ incoming[ns] # NoBinding THEN incoming[ns] ELSE b[n][ns]
BY DEF insert_binding_set, Bindings, BindingSet

\* What BindImportItem does when it binds, the rest of its guards forgotten.
LEMMA BindStep ==
    ASSUME Inv, BindImportItem
    PROVE  \/ \E kind \in Errors : Fail(kind)
           \/ \E as \in Names, exported \in BindingSet, pub \in BOOLEAN :
                /\ ~Clashes(modules[Top.module].visible, as, exported)
                /\ modules' = [modules EXCEPT
                        ![Top.module] = Bound(modules[Top.module], as, exported, pub)]
                /\ stack' = ReplaceTop([Top EXCEPT !.item = @ + 1])
<1>1. PICK exported, wanted :
        /\ wanted = CurrentImport.items[Top.item]
        /\ exported = modules[IndexOf(CurrentImport.from)].exports[wanted.name]
  OBVIOUS
<1>2. stack # <<>> /\ Top.stage = "bind" /\ Top.item <= Len(CurrentImport.items)
  BY DEF BindImportItem
<1>3. wanted \in ImportItem
  BY <1>1, <1>2, TopType, CurrentImportType DEF GoodFrames, Frame
<1>4. IsLoaded(CurrentImport.from)
  BY <1>2, TopType DEF GoodFrames, CurrentImport
<1>5. modules[IndexOf(CurrentImport.from)] \in Module
  BY <1>4, LookupPath, ImportsType
<1>6. exported \in BindingSet /\ wanted.as \in Names /\ CurrentImport.pub \in BOOLEAN
  BY <1>1, <1>2, <1>3, <1>5, CurrentImportType DEF ImportItem, Module, Bindings
<1>7. \/ \E kind \in Errors : Fail(kind)
      \/ /\ ~Clashes(modules[Top.module].visible, wanted.as, exported)
         /\ modules' = [modules EXCEPT ![Top.module] =
                Bound(modules[Top.module], wanted.as, exported, CurrentImport.pub)]
         /\ stack' = ReplaceTop([Top EXCEPT !.item = @ + 1])
  BY <1>1 DEF BindImportItem, Errors
<1> QED BY <1>6, <1>7

LEMMA BindImportItemSafe == ASSUME Safe, BindImportItem PROVE Safe'
<1>1. CASE \E kind \in Errors : Fail(kind)
  BY <1>1, FailSafe, BindImportItemInv DEF Safe
<1>2. CASE \E as \in Names, exported \in BindingSet, pub \in BOOLEAN :
                /\ ~Clashes(modules[Top.module].visible, as, exported)
                /\ modules' = [modules EXCEPT
                        ![Top.module] = Bound(modules[Top.module], as, exported, pub)]
                /\ stack' = ReplaceTop([Top EXCEPT !.item = @ + 1])
  <2>1. PICK t, i : t = Top /\ i = t.module
    OBVIOUS
  <2>2. PICK as \in Names, exported \in BindingSet, pub \in BOOLEAN :
                /\ ~Clashes(modules[i].visible, as, exported)
                /\ modules' = [modules EXCEPT ![i] = Bound(modules[i], as, exported, pub)]
                /\ stack' = ReplaceTop([t EXCEPT !.item = t.item + 1])
    BY <1>2, <2>1
  <2> DEFINE m == Bound(modules[i], as, exported, pub)
  <2>3. /\ stack # <<>> /\ t \in Frame /\ i \in DOMAIN modules /\ modules[i] \in Module
    BY <2>1, TopType DEF BindImportItem, Safe, GoodFrames
  <2>4. /\ m \in Module /\ m.path = modules[i].path /\ m.state = modules[i].state
        /\ m.visible = insert_binding_set(modules[i].visible, as, exported)
        /\ m.exports = IF pub THEN insert_binding_set(modules[i].exports, as, exported)
                       ELSE modules[i].exports
    BY <2>3, BoundType
  <2>5. m.isPrelude = modules[i].isPrelude
    BY <2>3 DEF Bound, Module
  <2> HIDE DEF m
  <2>6. PICK f : f = [t EXCEPT !.item = t.item + 1]
    OBVIOUS
  <2>7. f.module = Top.module /\ stack' = ReplaceTop(f)
    BY <2>1, <2>2, <2>3, <2>6 DEF Frame
  <2>8. FramesKept
    BY <2>3, <2>7, ReplaceKeeps DEF Safe
  <2>9. modules' = [modules EXCEPT ![i] = m]
    BY <2>2 DEF m
  <2>10. Identity' /\ StackIsResolving'
    BY <2>3, <2>4, <2>5, <2>8, <2>9, UpdateMarks
  <2>11. /\ DOMAIN modules' = DOMAIN modules /\ modules'[i] = m
         /\ \A j \in DOMAIN modules : j # i => modules'[j] = modules[j]
    BY <2>3, <2>9 DEF Safe, Inv, TypeOK
  <2>12. ExportsVisible'
    <3> SUFFICES ASSUME NEW j \in DOMAIN modules', NEW n \in Names, NEW ns \in Namespaces,
                        modules'[j].exports[n][ns] # NoBinding
                 PROVE  modules'[j].exports[n][ns] = modules'[j].visible[n][ns]
      BY DEF ExportsVisible
    <3>1. CASE j # i
      BY <2>11, <3>1 DEF Safe, ExportsVisible
    <3>2. CASE j = i
      <4>1. PICK v, e : v = modules[i].visible /\ e = modules[i].exports
        OBVIOUS
      <4>2. v \in Bindings /\ e \in Bindings
        BY <2>3, <4>1 DEF Module
      <4>3. /\ insert_binding_set(v, as, exported)[n][ns] =
                IF n = as /\ exported[ns] # NoBinding THEN exported[ns] ELSE v[n][ns]
            /\ insert_binding_set(e, as, exported)[n][ns] =
                IF n = as /\ exported[ns] # NoBinding THEN exported[ns] ELSE e[n][ns]
        BY <4>2, InsertedAt
      <4>4. n = as /\ exported[ns] # NoBinding => modules[i].visible[n][ns] = NoBinding
        BY <2>2 DEF Clashes
      <4>5. modules[i].exports[n][ns] # NoBinding =>
                modules[i].exports[n][ns] = modules[i].visible[n][ns]
        BY <2>3 DEF Safe, ExportsVisible
      <4>6. PICK w, g : w = insert_binding_set(v, as, exported)
                        /\ g = insert_binding_set(e, as, exported)
        OBVIOUS
      <4>7. modules'[j].visible = w /\ modules'[j].exports = IF pub THEN g ELSE e
        BY <2>4, <2>11, <3>2, <4>1, <4>6
      <4>8. g[n][ns] # NoBinding => g[n][ns] = w[n][ns]
        BY <4>1, <4>3, <4>5, <4>6
      <4>9. e[n][ns] # NoBinding => e[n][ns] = w[n][ns]
        BY <4>1, <4>3, <4>4, <4>5, <4>6
      <4> QED BY <4>7, <4>8, <4>9
    <3> QED BY <3>1, <3>2
  <2> QED BY <2>10, <2>12, BindImportItemInv DEF Safe
<1> QED BY <1>1, <1>2, BindStep DEF Safe

LEMMA FinishModuleSafe == ASSUME Safe, FinishModule PROVE Safe'
<1>1. PICK i : i = Top.module
  OBVIOUS
<1> DEFINE fallback == IF modules[i].isPrelude THEN modules[i].fallback
                       ELSE modules[IndexOf(Prelude)].exports
           m == [modules[i] EXCEPT !.fallback = fallback, !.state = "Resolved"]
<1>2. /\ stack # <<>> /\ stack' = Pop /\ i \in DOMAIN modules /\ modules[i] \in Module
      /\ Len(stack) \in DOMAIN stack /\ stack[Len(stack)].module = i
  BY <1>1, TopType DEF FinishModule, Safe, Top
<1>3. modules' = [modules EXCEPT ![i] = m]
  BY <1>1, <1>2 DEF FinishModule
<1> HIDE DEF fallback
<1>4. /\ m.path = modules[i].path /\ m.isPrelude = modules[i].isPrelude
      /\ m.state = "Resolved" /\ m.visible = modules[i].visible
      /\ m.exports = modules[i].exports
  BY <1>2 DEF Module
<1> HIDE DEF m
<1>5. /\ DOMAIN modules' = DOMAIN modules /\ modules'[i] = m
      /\ \A j \in DOMAIN modules : j # i => modules'[j] = modules[j]
  BY <1>2, <1>3 DEF Safe, Inv, TypeOK
<1>6. /\ DOMAIN stack' = DOMAIN stack \ {Len(stack)}
      /\ \A k \in DOMAIN stack' : stack'[k] = stack[k]
  BY <1>2 DEF Safe, Inv, TypeOK, Pop
<1>7. Identity' /\ ExportsVisible'
  BY <1>4, <1>5 DEF Safe, Identity, ExportsVisible
<1>8. ASSUME NEW k \in DOMAIN stack'
      PROVE  /\ stack'[k].module \in DOMAIN modules'
             /\ modules'[stack'[k].module].state = "Resolving"
             /\ \A l \in DOMAIN stack' : stack'[l].module = stack'[k].module => l = k
  BY <1>2, <1>5, <1>6 DEF Safe, StackIsResolving
<1>9. ASSUME NEW j \in DOMAIN modules', modules'[j].state = "Resolving"
      PROVE  \E k \in DOMAIN stack' : stack'[k].module = j
  BY <1>2, <1>4, <1>5, <1>6, <1>9 DEF Safe, StackIsResolving
<1> QED BY <1>7, <1>8, <1>9, FinishModuleInv DEF Safe, StackIsResolving

LEMMA FlattenModuleSafe == ASSUME Safe, FlattenModule PROVE Safe'
<1>1. PICK i \in DOMAIN modules :
        modules' = [modules EXCEPT ![i].state = "Rewritten"]
  BY DEF FlattenModule
<1>2. stack = <<>> /\ stack' = stack /\ modules[i] \in Module
  BY ImportsType DEF FlattenModule, Safe, Inv, WellDefined
<1> DEFINE m == [modules[i] EXCEPT !.state = "Rewritten"]
<1>3. /\ m.path = modules[i].path /\ m.isPrelude = modules[i].isPrelude
      /\ m.state = "Rewritten" /\ m.visible = modules[i].visible
      /\ m.exports = modules[i].exports
  BY <1>2 DEF Module
<1>4. modules' = [modules EXCEPT ![i] = m]
  BY <1>1
<1> HIDE DEF m
<1>5. /\ DOMAIN modules' = DOMAIN modules /\ modules'[i] = m
      /\ \A j \in DOMAIN modules : j # i => modules'[j] = modules[j]
  BY <1>4 DEF Safe, Inv, TypeOK
<1>6. Identity' /\ ExportsVisible'
  BY <1>3, <1>5 DEF Safe, Identity, ExportsVisible
<1>7. StackIsResolving'
  BY <1>2, <1>3, <1>5 DEF Safe, StackIsResolving
<1> QED BY <1>6, <1>7, FlattenModuleInv DEF Safe

LEMMA InitSafe == Init => Safe
BY InitInv DEF Init, Safe, Identity, StackIsResolving, ExportsVisible

LEMMA NextSafe == Safe /\ [Next]_vars => Safe'
<1> SUFFICES ASSUME Safe, [Next]_vars PROVE Safe'
  OBVIOUS
<1>1. CASE LoadRoot BY <1>1, LoadRootSafe
<1>2. CASE LoadPrelude BY <1>2, LoadPreludeSafe
<1>3. CASE ResolveRoot BY <1>3, ResolveRootSafe
<1>4. CASE LoadImport BY <1>4, LoadImportSafe
<1>5. CASE ResolveImport BY <1>5, ResolveImportSafe
<1>6. CASE BindImportItem BY <1>6, BindImportItemSafe
<1>7. CASE NextImport BY <1>7, NextImportSafe
<1>8. CASE ResolvePrelude BY <1>8, ResolvePreludeSafe
<1>9. CASE FinishModule BY <1>9, FinishModuleSafe
<1>10. CASE FlattenModule BY <1>10, FlattenModuleSafe
<1>11. CASE ResolutionDone \/ Finish \/ UNCHANGED vars BY <1>11, PhaseSafe
<1> QED
  BY <1>1, <1>2, <1>3, <1>4, <1>5, <1>6, <1>7, <1>8, <1>9, <1>10, <1>11 DEF Next

LEMMA AlwaysSafe == Spec => []Safe
BY InitSafe, NextSafe, PTL DEF Spec

\* The Resolving marks of load_module's table are exactly the activations of
\* resolve_module: no cycle is missed and none is reported falsely.
THEOREM MarksAreActivations == Spec => []StackIsResolving
<1>1. Safe => StackIsResolving
  BY DEF Safe
<1> QED BY <1>1, AlwaysSafe, PTL

\* A re-export never names an item its module cannot see: of the two inserts
\* of resolve_imports only the first can report a duplicate.
THEOREM ReexportsAreVisible == Spec => []ExportsVisible
<1>1. Safe => ExportsVisible
  BY DEF Safe
<1> QED BY <1>1, AlwaysSafe, PTL

-----------------------------------------------------------------------------
(***************************************************************************)
(* Resolved tables are final                                               *)
(***************************************************************************)

LEMMA FrozenByUpdate ==
    ASSUME Safe, NEW i \in DOMAIN modules, NEW m,
           modules' = [modules EXCEPT ![i] = m],
           ~Settled(i) \/ /\ m.visible = modules[i].visible
                          /\ m.fallback = modules[i].fallback
                          /\ m.exports = modules[i].exports
    PROVE  SettledTablesKept
<1>1. modules'[i] = m /\ \A j \in DOMAIN modules : j # i => modules'[j] = modules[j]
  BY DEF Safe, Inv, TypeOK
<1> QED BY <1>1 DEF SettledTablesKept, Settled

\* The module on top of the stack is being resolved, so it is not settled.
LEMMA TopNotSettled ==
    ASSUME Safe, stack # <<>>
    PROVE  Top.module \in DOMAIN modules /\ ~Settled(Top.module)
           /\ modules[Top.module] \in Module
BY TopType DEF Safe, StackIsResolving, Top, Settled

LEMMA CallFreezes ==
    ASSUME Safe, NEW i \in DOMAIN modules, NEW frames, resolve_module(i, frames)
    PROVE  SettledTablesKept
<1>1. CASE UNCHANGED modules
  BY <1>1 DEF SettledTablesKept
<1>2. CASE modules[i].state = "Loaded" /\ EnterModule(i, frames)
  <2>1. modules' = [modules EXCEPT ![i] = Opened(modules[i])] /\ ~Settled(i)
    BY <1>2 DEF EnterModule, Settled
  <2> QED BY <2>1, FrozenByUpdate
<1> QED BY <1>1, <1>2 DEF resolve_module, Fail

LEMMA LoadFreezes ==
    ASSUME Safe, NEW p \in Paths, NEW isRoot \in BOOLEAN, NEW isPrelude \in BOOLEAN,
           isPrelude <=> p = Prelude, ~LoadFails(p), load_module(p, isRoot, isPrelude)
    PROVE  SettledTablesKept
BY LoadStep DEF Safe, ModulesGrow, SettledTablesKept

LEMMA NextFreezes == Safe /\ [Next]_vars => SettledTablesKept
<1> SUFFICES ASSUME Safe, [Next]_vars PROVE SettledTablesKept
  OBVIOUS
<1>1. CASE LoadRoot
  BY <1>1, LoadFreezes, PathsAssumption DEF LoadRoot, Fail, SettledTablesKept
<1>2. CASE LoadPrelude
  <2>1. CASE UNCHANGED modules
    BY <2>1 DEF SettledTablesKept
  <2>2. CASE Root # Prelude /\ ~LoadFails(Prelude) /\ load_module(Prelude, FALSE, TRUE)
    BY <2>2, LoadFreezes, PathsAssumption
  <2> QED BY <1>2, <2>1, <2>2 DEF LoadPrelude, Fail
<1>3. CASE ResolveRoot
  BY <1>3, CallFreezes, LookupPath DEF ResolveRoot, Safe, Inv, WellDefined
<1>4. CASE LoadImport
  <2>1. PICK p : p = CurrentImport.from
    OBVIOUS
  <2>2. p \in Paths
    BY <1>4, <2>1, CurrentImportType DEF LoadImport, Safe
  <2>3. CASE UNCHANGED modules
    BY <2>3 DEF SettledTablesKept
  <2>4. CASE ~LoadFails(p) /\ load_module(p, FALSE, p = Prelude)
    BY <2>2, <2>4, LoadFreezes
  <2> QED BY <1>4, <2>1, <2>3, <2>4 DEF LoadImport, Fail
<1>5. CASE ResolveImport
  <2>1. IndexOf(CurrentImport.from) \in DOMAIN modules
    BY <1>5, TopType, LookupPath DEF ResolveImport, Safe, GoodFrames, CurrentImport
  <2> QED BY <1>5, <2>1, CallFreezes DEF ResolveImport
<1>6. CASE BindImportItem
  <2>1. CASE \E kind \in Errors : Fail(kind)
    BY <2>1 DEF Fail, SettledTablesKept
  <2>2. CASE \E as \in Names, exported \in BindingSet, pub \in BOOLEAN :
                modules' = [modules EXCEPT
                    ![Top.module] = Bound(modules[Top.module], as, exported, pub)]
    BY <1>6, <2>2, TopNotSettled, FrozenByUpdate DEF BindImportItem
  <2> QED BY <1>6, <2>1, <2>2, BindStep DEF Safe
<1>7. CASE FinishModule
  <2>1. PICK i : i = Top.module
    OBVIOUS
  <2>2. i \in DOMAIN modules /\ ~Settled(i) /\ modules[i] \in Module
    BY <1>7, <2>1, TopNotSettled DEF FinishModule
  <2>3. PICK m : modules' = [modules EXCEPT ![i] = m]
    BY <1>7, <2>1, <2>2 DEF FinishModule
  <2> QED BY <2>2, <2>3, FrozenByUpdate
<1>8. CASE FlattenModule
  <2>1. PICK i \in DOMAIN modules :
            modules' = [modules EXCEPT ![i].state = "Rewritten"]
    BY <1>8 DEF FlattenModule
  <2>2. modules[i] \in Module
    BY <2>1, ImportsType DEF Safe
  <2>3. PICK m : m = [modules[i] EXCEPT !.state = "Rewritten"]
    OBVIOUS
  <2>4. /\ m.visible = modules[i].visible /\ m.fallback = modules[i].fallback
        /\ m.exports = modules[i].exports
    BY <2>2, <2>3 DEF Module
  <2> QED BY <2>1, <2>3, <2>4, FrozenByUpdate
<1>9. CASE ResolvePrelude
  <2>1. IndexOf(Prelude) \in DOMAIN modules
    BY <1>9, LookupPath DEF ResolvePrelude, Safe, Inv, WellDefined
  <2>2. CASE UNCHANGED modules
    BY <2>2 DEF SettledTablesKept
  <2>3. CASE \E frames : resolve_module(IndexOf(Prelude), frames)
    BY <2>1, <2>3, CallFreezes
  <2> QED BY <1>9, <2>2, <2>3 DEF ResolvePrelude
<1>10. CASE UNCHANGED modules
  BY <1>10 DEF SettledTablesKept
<1> QED
  BY <1>1, <1>2, <1>3, <1>4, <1>5, <1>6, <1>7, <1>8, <1>9, <1>10
     DEF Next, NextImport, ResolutionDone, Finish, vars

\* What an importer copied out of a Resolved module stays what that module
\* exports: no later step touches the tables of resolve_module's result.
THEOREM ResolvedIsFinal == Spec => ResolvedFrozen
<1>1. Safe /\ [Next]_vars => [SettledTablesKept]_vars
  BY NextFreezes
<1> QED BY <1>1, AlwaysSafe, PTL DEF Spec, ResolvedFrozen

-----------------------------------------------------------------------------
(***************************************************************************)
(* The ModuleInfo& of add_implicit_prelude_fallback                        *)
(*                                                                         *)
(* It stays valid while the prelude is resolved: a prelude that would load *)
(* a further file never comes back, because that file waits for the        *)
(* prelude.                                                                *)
(***************************************************************************)

PreludeImports == files[Prelude].imports

PreludeSettled ==
    \E j \in DOMAIN modules : modules[j].path = Prelude /\ Settled(j)

IsPreludeFrame(k) == modules[stack[k].module].path = Prelude

\* Only a prelude that imports nothing is ever resolved, and it is resolved
\* before any other module is.
PreludeFirst ==
    /\ \A i \in DOMAIN modules : Settled(i) => PreludeSettled
    /\ PreludeSettled => PreludeImports = <<>>

\* Where an activation can be while others are above it.
CallerStages ==
    \A k \in DOMAIN stack :
        stack[k].stage \in {"load", "call", "fallback"} => k = Len(stack)

PreludeFrames ==
    \A k \in DOMAIN stack : IsPreludeFrame(k) =>
        IF PreludeImports = <<>>
        THEN stack[k].stage \in {"fallback", "use"} /\ k = Len(stack)
        ELSE /\ stack[k].stage \in {"load", "call", "bind"}
             /\ stack[k].stage = "bind" => k # Len(stack)

\* An activation in the rest of add_implicit_prelude_fallback: the prelude is
\* settled, or it is the activation above.
Waiting ==
    \A k \in DOMAIN stack : stack[k].stage = "use" /\ ~IsPreludeFrame(k) =>
        IF k = Len(stack)
        THEN PreludeSettled /\ stack[k].held = Len(modules)
        ELSE /\ IsPreludeFrame(k + 1)
             /\ PreludeImports = <<>> => stack[k].held = Len(modules)

\* Resolution is over only when the prelude is settled.
PreludeDone ==
    phase \in {"flatten", "done"} \/ (phase = "resolve" /\ stack = <<>>) => PreludeSettled

Order == PreludeFirst /\ CallerStages /\ PreludeFrames /\ Waiting /\ PreludeDone

\* Modules are added, and none changes its file or its state.
StatesGrow ==
    /\ DOMAIN modules \subseteq DOMAIN modules'
    /\ \A i \in DOMAIN modules :
        modules'[i].path = modules[i].path /\ modules'[i].state = modules[i].state
    /\ \A i \in DOMAIN modules' \ DOMAIN modules : modules'[i].state = "Loaded"

LEMMA GrownStates == ModulesGrow => StatesGrow
BY DEF ModulesGrow, StatesGrow

LEMMA GrowFirst ==
    ASSUME Order, StatesGrow, files' = files
    PROVE  PreludeFirst' /\ (PreludeSettled => PreludeSettled')
<1>1. PreludeSettled' <=> PreludeSettled
  <2>1. ASSUME PreludeSettled PROVE PreludeSettled'
    BY <2>1 DEF PreludeSettled, Settled, StatesGrow
  <2>2. ASSUME PreludeSettled' PROVE PreludeSettled
    <3>1. PICK j \in DOMAIN modules' :
            /\ modules'[j].path = Prelude
            /\ modules'[j].state \in {"Resolved", "Rewritten"}
      BY <2>2 DEF PreludeSettled, Settled
    <3>2. j \in DOMAIN modules
      BY <3>1 DEF StatesGrow
    <3> QED BY <3>1, <3>2 DEF PreludeSettled, Settled, StatesGrow
  <2> QED BY <2>1, <2>2
<1>2. ASSUME NEW i \in DOMAIN modules', modules'[i].state \in {"Resolved", "Rewritten"}
      PROVE  PreludeSettled
  <2>1. i \in DOMAIN modules
    BY <1>2 DEF StatesGrow
  <2> QED BY <1>2, <2>1 DEF StatesGrow, Order, PreludeFirst, Settled
<1>3. PreludeFirst'
  BY <1>1, <1>2 DEF Order, PreludeFirst, Settled, PreludeImports
<1> QED BY <1>1, <1>3

\* Nothing but the loaded modules and the phase changes, outside a resolution.
LEMMA IdleOrder ==
    ASSUME Order, stack = <<>>, stack' = <<>>, StatesGrow, files' = files,
           phase' \notin {"resolve", "flatten", "done"} \/ PreludeSettled
    PROVE  Order'
BY GrowFirst DEF Order, CallerStages, PreludeFrames, Waiting, PreludeDone

LEMMA StillOrder ==
    ASSUME Order, UNCHANGED <<files, modules, stack>>, phase' = "failed" \/ phase' = phase
    PROVE  Order'
BY DEF Order, PreludeFirst, CallerStages, PreludeFrames, Waiting, PreludeDone,
       PreludeSettled, PreludeImports, IsPreludeFrame, Settled

LEMMA FailOrder ==
    ASSUME Order, NEW kind, Fail(kind)
    PROVE  Order'
BY StillOrder DEF Fail

\* A step of the top activation that calls nothing.
LEMMA ReplaceOrder ==
    ASSUME Safe, Order, stack # <<>>, StatesGrow, files' = files, phase' = "resolve",
           NEW f, f.module = Top.module, stack' = ReplaceTop(f),
           modules[Top.module].path = Prelude =>
                f.stage \in IF PreludeImports = <<>>
                            THEN {"fallback", "use"} ELSE {"load", "call"},
           modules[Top.module].path # Prelude /\ f.stage = "use" =>
                PreludeSettled /\ f.held = Len(modules'),
           Len(modules') = Len(modules) \/ Top.stage = "load"
    PROVE  Order'
<1>1. /\ DOMAIN stack' = DOMAIN stack /\ Len(stack') = Len(stack)
      /\ Len(stack) \in DOMAIN stack /\ stack'[Len(stack)] = f
      /\ \A k \in DOMAIN stack : k # Len(stack) => stack'[k] = stack[k]
      /\ \A k \in DOMAIN stack : k # Len(stack) => k + 1 \in DOMAIN stack
      /\ stack' # <<>>
  BY DEF Safe, Inv, TypeOK, ReplaceTop
<1>2. \A k \in DOMAIN stack : /\ stack'[k].module = stack[k].module
                              /\ stack[k].module \in DOMAIN modules
  BY <1>1 DEF Top, Safe, StackIsResolving
<1>3. \A k \in DOMAIN stack : IsPreludeFrame(k)' <=> IsPreludeFrame(k)
  BY <1>2 DEF IsPreludeFrame, StatesGrow
<1>4. PreludeFirst' /\ (PreludeSettled => PreludeSettled') /\ PreludeImports' = PreludeImports
  BY GrowFirst DEF PreludeImports
<1>5. CallerStages'
  BY <1>1 DEF Order, CallerStages
<1>6. PreludeFrames'
  <2> SUFFICES ASSUME NEW k \in DOMAIN stack', IsPreludeFrame(k)'
               PROVE  IF PreludeImports = <<>>
                      THEN stack'[k].stage \in {"fallback", "use"} /\ k = Len(stack')
                      ELSE /\ stack'[k].stage \in {"load", "call", "bind"}
                           /\ stack'[k].stage = "bind" => k # Len(stack')
    BY <1>4 DEF PreludeFrames
  <2>1. CASE k = Len(stack)
    BY <1>1, <1>3, <2>1 DEF IsPreludeFrame, Top
  <2>2. CASE k # Len(stack)
    BY <1>1, <1>3, <2>2 DEF Order, PreludeFrames
  <2> QED BY <2>1, <2>2
<1>7. Waiting'
  <2> SUFFICES ASSUME NEW k \in DOMAIN stack', stack'[k].stage = "use", ~IsPreludeFrame(k)'
               PROVE  IF k = Len(stack')
                      THEN PreludeSettled' /\ stack'[k].held = Len(modules')
                      ELSE /\ IsPreludeFrame(k + 1)'
                           /\ PreludeImports = <<>> => stack'[k].held = Len(modules')
    BY <1>4 DEF Waiting
  <2>1. CASE k = Len(stack)
    BY <1>1, <1>3, <1>4, <2>1 DEF IsPreludeFrame, Top
  <2>2. CASE k # Len(stack)
    <3>1. /\ IsPreludeFrame(k + 1) /\ k + 1 \in DOMAIN stack
          /\ PreludeImports = <<>> => stack[k].held = Len(modules)
      BY <1>1, <1>3, <2>2 DEF Order, Waiting
    <3>2. PreludeImports = <<>> => Top.stage # "load"
      BY <3>1 DEF Order, PreludeFrames, Top
    <3> QED BY <1>1, <1>3, <2>2, <3>1, <3>2
  <2> QED BY <2>1, <2>2
<1>8. PreludeDone'
  BY <1>1 DEF PreludeDone
<1> QED BY <1>4, <1>5, <1>6, <1>7, <1>8 DEF Order

\* Waiting for the prelude ends when it is settled, so a prelude on the stack
\* and a settled prelude exclude each other.
LEMMA PreludeOnStack ==
    ASSUME Safe, NEW k \in DOMAIN stack, IsPreludeFrame(k)
    PROVE  ~PreludeSettled
BY DEF Safe, Identity, StackIsResolving, IsPreludeFrame, PreludeSettled, Settled

LEMMA EnterOrder ==
    ASSUME Safe, Order, NEW i \in DOMAIN modules, modules[i].state = "Loaded",
           NEW frames \in Seq(GoodFrames), EnterModule(i, frames), Safe',
           \/ frames = <<>> /\ stack = <<>>
           \/ /\ stack # <<>>
              /\ \E f : /\ frames = ReplaceTop(f) /\ f.module = Top.module
                        /\ f.stage \in {"bind", "use"}
                        /\ modules[Top.module].path = Prelude =>
                                f.stage = "bind" /\ PreludeImports # <<>>
                        /\ modules[Top.module].path # Prelude /\ f.stage = "use" =>
                                modules[i].path = Prelude /\ f.held = Len(modules)
    PROVE  Order'
<1> DEFINE m == Opened(modules[i])
           s == StartFrame(i)
           n == Len(frames)
<1>1. modules \in Seq(Module) /\ modules[i] \in Module /\ n \in Nat
  BY DEF Safe, Inv, TypeOK
<1>2. m.path = modules[i].path /\ m.state = "Resolving"
  BY <1>1, OpenedType
<1>3. /\ modules' = [modules EXCEPT ![i] = m] /\ stack' = Append(frames, s)
      /\ files' = files /\ phase' = "resolve"
      /\ s.module = i
      /\ s.stage = IF ImportsOf(i) = <<>> THEN "fallback" ELSE "load"
  BY DEF EnterModule, StartFrame
<1> HIDE DEF m, s
<1>4. /\ DOMAIN modules' = DOMAIN modules /\ modules'[i] = m /\ Len(modules') = Len(modules)
      /\ \A j \in DOMAIN modules : j # i => modules'[j] = modules[j]
  BY <1>1, <1>3
<1>5. /\ DOMAIN stack' = DOMAIN frames \cup {n + 1} /\ Len(stack') = n + 1
      /\ \A k \in DOMAIN frames : stack'[k] = frames[k]
      /\ stack'[n + 1] = s /\ stack' # <<>>
  BY <1>3
<1>6. \A j \in DOMAIN modules : modules'[j].path = modules[j].path
  BY <1>2, <1>4
<1>7. /\ DOMAIN frames = DOMAIN stack
      /\ \A k \in DOMAIN stack : frames[k].module = stack[k].module
      /\ \A k \in DOMAIN stack : k # Len(stack) => frames[k] = stack[k]
      /\ n = Len(stack)
  BY <1>1 DEF Safe, Inv, TypeOK, ReplaceTop, Top
<1>8. \A k \in DOMAIN stack : IsPreludeFrame(k)' <=> IsPreludeFrame(k)
  BY <1>5, <1>6, <1>7 DEF IsPreludeFrame, Safe, StackIsResolving
<1>9. IsPreludeFrame(n + 1)' <=> modules[i].path = Prelude
  BY <1>3, <1>5, <1>6 DEF IsPreludeFrame
<1>10. PreludeImports' = PreludeImports /\ (modules[i].path = Prelude => ImportsOf(i) = PreludeImports)
  BY <1>3 DEF PreludeImports, ImportsOf
<1>11. PreludeSettled' <=> PreludeSettled
  BY <1>2, <1>4, <1>6 DEF PreludeSettled, Settled
<1>12. PreludeFirst'
  BY <1>2, <1>4, <1>10, <1>11 DEF Order, PreludeFirst, Settled
<1>13. \A k \in DOMAIN stack : frames[k].stage \in {"bind", "use"}
  <2> SUFFICES ASSUME NEW k \in DOMAIN stack PROVE frames[k].stage \in {"bind", "use"}
    OBVIOUS
  <2>1. CASE k = Len(stack)
    BY <1>7, <2>1 DEF ReplaceTop, Safe, Inv, TypeOK
  <2>2. CASE k # Len(stack)
    <3>1. stack[k].stage \notin {"load", "call", "fallback"} /\ stack[k] \in Frame
      BY <2>2 DEF Order, CallerStages, Safe, Inv, TypeOK
    <3> QED BY <1>7, <2>2, <3>1 DEF Frame
  <2> QED BY <2>1, <2>2
<1>14. CallerStages'
  BY <1>5, <1>7, <1>13 DEF CallerStages
<1>15. ASSUME NEW k \in DOMAIN stack, IsPreludeFrame(k)
       PROVE  PreludeImports # <<>> /\ frames[k].stage = "bind"
  <2>1. CASE k = Len(stack)
    BY <1>7, <1>15, <2>1 DEF ReplaceTop, Top, IsPreludeFrame, Safe, Inv, TypeOK
  <2>2. CASE k # Len(stack)
    BY <1>7, <1>13, <1>15, <2>2 DEF Order, PreludeFrames
  <2> QED BY <2>1, <2>2
<1>16. PreludeFrames'
  <2> SUFFICES ASSUME NEW k \in DOMAIN stack', IsPreludeFrame(k)'
               PROVE  IF PreludeImports = <<>>
                      THEN stack'[k].stage \in {"fallback", "use"} /\ k = Len(stack')
                      ELSE /\ stack'[k].stage \in {"load", "call", "bind"}
                           /\ stack'[k].stage = "bind" => k # Len(stack')
    BY <1>10 DEF PreludeFrames
  <2>1. CASE k = n + 1
    BY <1>3, <1>5, <1>9, <1>10, <2>1
  <2>2. CASE k # n + 1
    BY <1>5, <1>7, <1>8, <1>15, <2>2
  <2> QED BY <2>1, <2>2
<1>17. Waiting'
  <2> SUFFICES ASSUME NEW k \in DOMAIN stack', stack'[k].stage = "use", ~IsPreludeFrame(k)'
               PROVE  /\ k # Len(stack')
                      /\ IsPreludeFrame(k + 1)'
                      /\ PreludeImports = <<>> => stack'[k].held = Len(modules')
    BY <1>10 DEF Waiting
  <2>1. k # n + 1 /\ k \in DOMAIN stack
    BY <1>3, <1>5, <1>7
  <2>2. CASE k = Len(stack)
    <3>1. modules[i].path = Prelude /\ frames[k].held = Len(modules)
      <4>1. PICK f : /\ frames = ReplaceTop(f) /\ f.module = Top.module
                     /\ modules[Top.module].path # Prelude /\ f.stage = "use" =>
                            modules[i].path = Prelude /\ f.held = Len(modules)
        BY <2>1
      <4>2. frames[k] = f
        BY <2>1, <2>2, <4>1 DEF ReplaceTop, Safe, Inv, TypeOK
      <4>3. modules[Top.module].path # Prelude /\ f.stage = "use"
        BY <1>5, <1>7, <1>8, <2>1, <2>2, <4>2 DEF Top, IsPreludeFrame
      <4> QED BY <4>1, <4>2, <4>3
    <3> QED BY <1>4, <1>5, <1>7, <1>9, <2>1, <2>2, <3>1
  <2>3. CASE k # Len(stack)
    <3>1. stack[k].stage = "use" /\ ~IsPreludeFrame(k) /\ k + 1 \in DOMAIN stack
      BY <1>5, <1>7, <1>8, <2>1, <2>3 DEF Safe, Inv, TypeOK
    <3>2. IsPreludeFrame(k + 1) /\ (PreludeImports = <<>> => stack[k].held = Len(modules))
      BY <2>1, <2>3, <3>1 DEF Order, Waiting
    <3> QED BY <1>4, <1>5, <1>7, <1>8, <2>1, <2>3, <3>1, <3>2
  <2> QED BY <2>2, <2>3
<1>18. PreludeDone'
  BY <1>3, <1>5 DEF PreludeDone
<1> QED BY <1>12, <1>14, <1>16, <1>17, <1>18 DEF Order

LEMMA FinishOrder == ASSUME Safe, Order, FinishModule PROVE Order'
<1>1. PICK i, n : i = Top.module /\ n = Len(stack)
  OBVIOUS
<1> DEFINE fallback == IF modules[i].isPrelude THEN modules[i].fallback
                       ELSE modules[IndexOf(Prelude)].exports
           m == [modules[i] EXCEPT !.fallback = fallback, !.state = "Resolved"]
<1>2. /\ stack # <<>> /\ stack' = Pop /\ i \in DOMAIN modules /\ modules[i] \in Module
      /\ n \in DOMAIN stack /\ stack[n].module = i /\ stack[n].stage = "use"
      /\ files' = files /\ n \in Nat
  BY <1>1, TopType DEF FinishModule, Safe, Top
<1>3. modules' = [modules EXCEPT ![i] = m]
  BY <1>1, <1>2 DEF FinishModule
<1> HIDE DEF fallback
<1>4. m.path = modules[i].path /\ m.state = "Resolved"
  BY <1>2 DEF Module
<1> HIDE DEF m
<1>5. /\ DOMAIN modules' = DOMAIN modules /\ modules'[i] = m /\ Len(modules') = Len(modules)
      /\ \A j \in DOMAIN modules : j # i => modules'[j] = modules[j]
  BY <1>2, <1>3 DEF Safe, Inv, TypeOK
<1>6. /\ DOMAIN stack' = DOMAIN stack \ {n} /\ Len(stack') = n - 1
      /\ \A k \in DOMAIN stack' : stack'[k] = stack[k] /\ k \in 1 .. n - 1
  BY <1>1, <1>2 DEF Safe, Inv, TypeOK, Pop
<1>7. \A j \in DOMAIN modules : modules'[j].path = modules[j].path
  BY <1>4, <1>5
<1>8. \A k \in DOMAIN stack' : IsPreludeFrame(k)' <=> IsPreludeFrame(k)
  BY <1>6, <1>7 DEF IsPreludeFrame, Safe, StackIsResolving
<1>9. PreludeImports' = PreludeImports
  BY <1>2 DEF PreludeImports
\* The module that settles is the prelude, or one whose prelude has settled.
<1>11. PreludeImports = <<>>
  <2>1. CASE IsPreludeFrame(n)
    BY <1>1, <1>2, <2>1 DEF Order, PreludeFrames
  <2>2. CASE ~IsPreludeFrame(n)
    BY <1>1, <1>2, <2>2 DEF Order, Waiting, PreludeFirst
  <2> QED BY <2>1, <2>2
<1>12. PreludeSettled'
  <2>1. CASE IsPreludeFrame(n)
    BY <1>2, <1>4, <1>5, <2>1 DEF PreludeSettled, Settled, IsPreludeFrame
  <2>2. CASE ~IsPreludeFrame(n)
    <3>1. PICK j \in DOMAIN modules : modules[j].path = Prelude /\ Settled(j)
      BY <1>1, <1>2, <2>2 DEF Order, Waiting, PreludeSettled
    <3> QED BY <1>4, <1>5, <1>7, <3>1 DEF PreludeSettled, Settled
  <2> QED BY <2>1, <2>2
<1>13. PreludeFirst'
  BY <1>9, <1>11, <1>12 DEF PreludeFirst
\* With an import-free prelude no activation of it lies below the top.
<1>14. \A k \in DOMAIN stack' : ~IsPreludeFrame(k)
  BY <1>1, <1>6, <1>11 DEF Order, PreludeFrames
<1>15. CallerStages'
  <2> SUFFICES ASSUME NEW k \in DOMAIN stack',
                      stack'[k].stage \in {"load", "call", "fallback"}
               PROVE  k = Len(stack')
    BY DEF CallerStages
  <2>1. k = n
    BY <1>1, <1>6 DEF Order, CallerStages
  <2> QED BY <1>6, <2>1
<1>16. PreludeFrames'
  BY <1>8, <1>14 DEF PreludeFrames
<1>17. Waiting'
  <2> SUFFICES ASSUME NEW k \in DOMAIN stack', stack'[k].stage = "use", ~IsPreludeFrame(k)'
               PROVE  IF k = Len(stack')
                      THEN PreludeSettled' /\ stack'[k].held = Len(modules')
                      ELSE /\ IsPreludeFrame(k + 1)'
                           /\ PreludeImports = <<>> => stack'[k].held = Len(modules')
    BY <1>9 DEF Waiting
  <2>1. /\ IsPreludeFrame(k + 1)
        /\ PreludeImports = <<>> => stack[k].held = Len(modules)
    BY <1>1, <1>6, <1>8 DEF Order, Waiting
  <2>2. k = Len(stack')
    <3> SUFFICES ASSUME k # Len(stack') PROVE FALSE
      OBVIOUS
    <3>1. k + 1 \in DOMAIN stack'
      BY <1>2, <1>6 DEF Safe, Inv, TypeOK
    <3> QED BY <1>14, <2>1, <3>1
  <2> QED BY <1>5, <1>6, <1>11, <1>12, <2>1, <2>2
<1>18. PreludeDone'
  BY <1>12 DEF PreludeDone
<1> QED BY <1>13, <1>15, <1>16, <1>17, <1>18 DEF Order

LEMMA FlattenOrder == ASSUME Safe, Order, FlattenModule PROVE Order'
<1>1. PICK i \in DOMAIN modules :
        modules' = [modules EXCEPT ![i].state = "Rewritten"]
  BY DEF FlattenModule
<1>2. /\ stack = <<>> /\ stack' = stack /\ modules[i] \in Module /\ files' = files
      /\ PreludeSettled
  BY ImportsType DEF FlattenModule, Safe, Inv, WellDefined, Order, PreludeDone
<1> DEFINE m == [modules[i] EXCEPT !.state = "Rewritten"]
<1>3. m.path = modules[i].path /\ m.state = "Rewritten"
  BY <1>2 DEF Module
<1>4. modules' = [modules EXCEPT ![i] = m]
  BY <1>1
<1> HIDE DEF m
<1>5. /\ DOMAIN modules' = DOMAIN modules /\ modules'[i] = m
      /\ \A j \in DOMAIN modules : j # i => modules'[j] = modules[j]
  BY <1>4 DEF Safe, Inv, TypeOK
<1>6. PreludeSettled'
  BY <1>2, <1>3, <1>5 DEF PreludeSettled, Settled
<1>7. PreludeFirst'
  BY <1>2, <1>6 DEF Order, PreludeFirst, PreludeImports
<1> QED BY <1>2, <1>6, <1>7
        DEF Order, CallerStages, PreludeFrames, Waiting, PreludeDone

\* A call of resolve_module by the top activation, which moves to frame f.
LEMMA CallOrder ==
    ASSUME Safe, Safe', Order, stack # <<>>, phase = "resolve",
           NEW i \in DOMAIN modules, NEW f \in GoodFrames, f.module = Top.module,
           f.stage \in {"bind", "use"}, resolve_module(i, ReplaceTop(f)),
           modules[Top.module].path = Prelude => f.stage = "bind" /\ PreludeImports # <<>>,
           f.stage = "use" => modules[i].path = Prelude /\ f.held = Len(modules)
    PROVE  Order'
<1>1. CASE Settled(i) /\ stack' = ReplaceTop(f)
             /\ UNCHANGED <<files, modules, nextId, phase, error, program>>
  <2>1. ModulesGrow
    BY <1>1 DEF ModulesGrow
  <2>2. PreludeSettled
    BY <1>1 DEF Order, PreludeFirst
  <2>3. modules[Top.module].path # Prelude
    BY <2>2, TopType, PreludeOnStack DEF Safe, IsPreludeFrame, Top
  <2> QED BY <1>1, <2>1, <2>2, <2>3, ReplaceOrder, GrownStates
<1>2. CASE Fail("cyclic")
  BY <1>2, FailOrder
<1>3. CASE modules[i].state = "Loaded" /\ EnterModule(i, ReplaceTop(f))
  <2>1. ReplaceTop(f) \in Seq(GoodFrames)
    BY ReplaceType DEF Safe
  <2> QED BY <1>3, <2>1, EnterOrder
<1> QED BY <1>1, <1>2, <1>3 DEF resolve_module

\* The top activation is inside an import, so the prelude is not at its bind.
LEMMA BindingFrame ==
    ASSUME Safe, Order, stack # <<>>, Top.stage = "bind"
    PROVE  modules[Top.module].path # Prelude
BY TopType DEF Safe, Order, PreludeFrames, IsPreludeFrame, Top

LEMMA BindOrder ==
    ASSUME Safe, Order, BindImportItem, UNCHANGED <<files, phase>>, NEW m, NEW f,
           m.path = modules[Top.module].path, m.state = modules[Top.module].state,
           f = [Top EXCEPT !.item = Top.item + 1],
           modules' = [modules EXCEPT ![Top.module] = m], stack' = ReplaceTop(f)
    PROVE  Order'
<1>1. PICK t, i : t = Top /\ i = t.module
  OBVIOUS
<1>2. /\ stack # <<>> /\ phase = "resolve" /\ t.stage = "bind" /\ t \in Frame
      /\ i \in DOMAIN modules
  BY <1>1, TopType DEF BindImportItem, Safe, GoodFrames
<1>3. f.module = Top.module /\ f.stage = "bind"
  BY <1>1, <1>2 DEF Frame
<1>4. /\ DOMAIN modules' = DOMAIN modules /\ modules'[i] = m /\ Len(modules') = Len(modules)
      /\ \A j \in DOMAIN modules : j # i => modules'[j] = modules[j]
  BY <1>1, <1>2 DEF Safe, Inv, TypeOK
<1>5. StatesGrow
  BY <1>1, <1>4 DEF StatesGrow
<1>6. modules[i].path # Prelude
  BY <1>1, <1>2, BindingFrame
<1> QED BY <1>1, <1>2, <1>3, <1>4, <1>5, <1>6, ReplaceOrder

LEMMA AwaitOrder == ASSUME Safe, Safe', Order, ResolvePrelude PROVE Order'
<1>1. PICK t, n : t = Top /\ n = Len(modules)
  OBVIOUS
<1>2. PICK f : f = [t EXCEPT !.stage = "use", !.held = n]
  OBVIOUS
<1>3. /\ phase = "resolve" /\ stack # <<>> /\ t \in GoodFrames /\ n \in Nat
      /\ t.stage = "fallback" /\ t.module \in DOMAIN modules
      /\ \/ /\ modules[t.module].isPrelude /\ stack' = ReplaceTop(f)
            /\ UNCHANGED <<files, modules, phase>>
         \/ /\ ~modules[t.module].isPrelude
            /\ resolve_module(IndexOf(Prelude), ReplaceTop(f))
  BY <1>1, <1>2, TopType DEF ResolvePrelude, Safe, Inv, TypeOK
<1>4. f \in GoodFrames /\ f.module = t.module /\ f.stage = "use" /\ f.held = n
  BY <1>2, <1>3 DEF GoodFrames, Frame
<1>5. modules[t.module].isPrelude <=> modules[t.module].path = Prelude
  BY <1>3 DEF Safe, Identity
<1>6. CASE modules[t.module].isPrelude /\ stack' = ReplaceTop(f)
             /\ UNCHANGED <<files, modules, phase>>
  <2>1. ModulesGrow
    BY <1>6 DEF ModulesGrow
  <2>2. PreludeImports = <<>>
    BY <1>1, <1>3, <1>5, <1>6, TopType DEF Safe, Order, PreludeFrames, IsPreludeFrame, Top
  <2> QED BY <1>1, <1>3, <1>4, <1>5, <1>6, <2>1, <2>2, ReplaceOrder, GrownStates
<1>7. CASE ~modules[t.module].isPrelude /\ resolve_module(IndexOf(Prelude), ReplaceTop(f))
  <2>1. IndexOf(Prelude) \in DOMAIN modules /\ modules[IndexOf(Prelude)].path = Prelude
    BY <1>3, LookupPath DEF Safe, Inv, WellDefined
  <2> QED BY <1>1, <1>3, <1>4, <1>5, <1>7, <2>1, CallOrder
<1> QED BY <1>3, <1>6, <1>7

LEMMA NextOrder == Safe /\ Order /\ [Next]_vars => Order'
<1> SUFFICES ASSUME Safe, Order, [Next]_vars PROVE Order'
  OBVIOUS
<1>0. Safe'
  BY NextSafe
<1>1. CASE LoadRoot
  <2>1. CASE LoadFails(Root)
    BY <1>1, <2>1, FailOrder DEF LoadRoot
  <2>2. CASE ~LoadFails(Root)
    <3>1. /\ load_module(Root, TRUE, Root = Prelude) /\ phase' = "prelude"
          /\ stack = <<>> /\ UNCHANGED <<files, stack>>
      BY <1>1, <2>2 DEF LoadRoot, Safe, Inv, WellDefined
    <3>2. ModulesGrow
      BY <2>2, <3>1, LoadStep, PathsAssumption DEF Safe
    <3> QED BY <3>1, <3>2, IdleOrder, GrownStates
  <2> QED BY <2>1, <2>2
<1>2. CASE LoadPrelude
  <2>1. CASE Root # Prelude /\ LoadFails(Prelude)
    BY <1>2, <2>1, FailOrder DEF LoadPrelude
  <2>2. CASE ~(Root # Prelude /\ LoadFails(Prelude))
    <3>1. /\ phase' = "call" /\ stack = <<>> /\ UNCHANGED <<files, stack>>
          /\ \/ UNCHANGED modules
             \/ Root # Prelude /\ ~LoadFails(Prelude) /\ load_module(Prelude, FALSE, TRUE)
      BY <1>2, <2>2 DEF LoadPrelude, Safe, Inv, WellDefined
    <3>2. CASE UNCHANGED modules
      <4>1. ModulesGrow
        BY <3>2 DEF ModulesGrow
      <4> QED BY <3>1, <4>1, IdleOrder, GrownStates
    <3>3. CASE Root # Prelude /\ ~LoadFails(Prelude) /\ load_module(Prelude, FALSE, TRUE)
      <4>1. ModulesGrow
        BY <3>3, LoadStep, PathsAssumption DEF Safe
      <4> QED BY <3>1, <4>1, IdleOrder, GrownStates
    <3> QED BY <3>1, <3>2, <3>3
  <2> QED BY <2>1, <2>2
<1>3. CASE ResolveRoot
  <2>1. /\ stack = <<>> /\ phase = "call" /\ IndexOf(Root) \in DOMAIN modules
        /\ resolve_module(IndexOf(Root), <<>>)
    BY <1>3, LookupPath DEF ResolveRoot, Safe, Inv, WellDefined
  <2>2. CASE UNCHANGED <<files, modules, stack, phase>>
    BY <2>2, StillOrder
  <2>3. CASE Fail("cyclic")
    BY <2>3, FailOrder
  <2>4. CASE modules[IndexOf(Root)].state = "Loaded" /\ EnterModule(IndexOf(Root), <<>>)
    <3>1. <<>> \in Seq(GoodFrames)
      OBVIOUS
    <3> QED BY <1>0, <2>1, <2>4, <3>1, EnterOrder
  <2> QED BY <2>1, <2>2, <2>3, <2>4 DEF resolve_module
<1>4. CASE LoadImport
  <2>1. PICK t, p : t = Top /\ p = CurrentImport.from
    OBVIOUS
  <2>2. stack # <<>> /\ t \in Frame /\ p \in Paths /\ t.stage = "load" /\ phase = "resolve"
    BY <1>4, <2>1, TopType, CurrentImportType DEF LoadImport, Safe, GoodFrames
  <2>3. CASE LoadFails(p)
    BY <1>4, <2>1, <2>3, FailOrder DEF LoadImport
  <2>4. CASE ~LoadFails(p)
    <3>1. PICK f : f = [t EXCEPT !.stage = "call"]
      OBVIOUS
    <3>2. /\ load_module(p, FALSE, p = Prelude) /\ stack' = ReplaceTop(f)
          /\ UNCHANGED <<files, phase>>
      BY <1>4, <2>1, <2>4, <3>1 DEF LoadImport
    <3>3. ModulesGrow
      BY <2>2, <2>4, <3>2, LoadStep DEF Safe
    <3>4. f.module = t.module /\ f.stage = "call"
      BY <2>2, <3>1 DEF Frame
    <3>5. modules[t.module].path = Prelude => PreludeImports # <<>>
      BY <2>1, <2>2, TopType DEF Safe, Order, PreludeFrames, IsPreludeFrame, Top
    <3> QED BY <2>1, <2>2, <3>2, <3>3, <3>4, <3>5, ReplaceOrder, GrownStates
  <2> QED BY <2>3, <2>4
<1>5. CASE ResolveImport
  <2>1. PICK t, f : t = Top /\ f = [t EXCEPT !.stage = "bind"]
    OBVIOUS
  <2>2. /\ stack # <<>> /\ phase = "resolve" /\ t.stage = "call" /\ t \in GoodFrames
        /\ resolve_module(IndexOf(CurrentImport.from), ReplaceTop(f))
    BY <1>5, <2>1, TopType DEF ResolveImport, Safe
  <2>3. /\ f \in Frame /\ f.module = t.module /\ f.import = t.import /\ f.item = t.item
        /\ f.stage = "bind"
    BY <2>1, <2>2 DEF GoodFrames, Frame
  <2>4. f \in GoodFrames
    BY <2>2, <2>3 DEF GoodFrames
  <2>5. IndexOf(CurrentImport.from) \in DOMAIN modules
    BY <2>1, <2>2, LookupPath DEF GoodFrames, CurrentImport
  <2>6. modules[t.module].path = Prelude => PreludeImports # <<>>
    BY <2>1, <2>2, TopType DEF Safe, Order, PreludeFrames, IsPreludeFrame, Top
  <2> QED BY <1>0, <2>1, <2>2, <2>3, <2>4, <2>5, <2>6, CallOrder
<1>6. CASE BindImportItem
  <2>1. CASE \E kind \in Errors : Fail(kind)
    BY <2>1, FailOrder
  <2>2. CASE /\ UNCHANGED <<files, phase>>
             /\ \E as \in Names, exported \in BindingSet, pub \in BOOLEAN :
                    /\ modules' = [modules EXCEPT
                            ![Top.module] = Bound(modules[Top.module], as, exported, pub)]
                    /\ stack' = ReplaceTop([Top EXCEPT !.item = @ + 1])
    <3>1. PICK old, f : old = modules[Top.module] /\ f = [Top EXCEPT !.item = Top.item + 1]
      OBVIOUS
    <3>2. PICK m : /\ \E as, exported, pub : m = Bound(old, as, exported, pub)
                   /\ modules' = [modules EXCEPT ![Top.module] = m]
                   /\ stack' = ReplaceTop(f)
      BY <2>2, <3>1
    <3>3. old \in Module
      BY <1>6, <3>1, TopType DEF BindImportItem, Safe
    <3>4. m.path = old.path /\ m.state = old.state
      <4>1. PICK as, exported, pub : m = Bound(old, as, exported, pub)
        BY <3>2
      <4>2. PICK v, e : m = [old EXCEPT !.visible = v, !.exports = e]
        BY <4>1, Zenon DEF Bound
      <4> QED BY <3>3, <4>2 DEF Module
    <3> QED BY <1>6, <2>2, <3>1, <3>2, <3>4, BindOrder
  <2>3. \/ \E kind \in Errors : Fail(kind)
        \/ UNCHANGED <<files, phase>>
    BY <1>6 DEF BindImportItem, Errors
  <2> QED BY <1>6, <2>1, <2>2, <2>3, BindStep DEF Safe
<1>7. CASE NextImport
  <2>1. PICK t, f : /\ t = Top /\ stack' = ReplaceTop(f)
                    /\ f = [t EXCEPT !.item = 1,
                        !.import = IF t.import < Len(ImportsOf(t.module))
                                   THEN t.import + 1 ELSE t.import,
                        !.stage = IF t.import < Len(ImportsOf(t.module))
                                  THEN "load" ELSE "fallback"]
    BY <1>7 DEF NextImport
  <2>2. /\ stack # <<>> /\ UNCHANGED <<files, modules, phase>> /\ phase = "resolve"
        /\ t \in Frame /\ t.stage = "bind"
    BY <1>7, <2>1, TopType DEF NextImport, Safe, GoodFrames
  <2>3. f.module = t.module /\ f.stage \in {"load", "fallback"}
    BY <2>1, <2>2 DEF Frame
  <2>4. ModulesGrow
    BY <2>2 DEF ModulesGrow
  <2>5. modules[t.module].path # Prelude
    BY <2>1, <2>2, BindingFrame
  <2> QED BY <2>1, <2>2, <2>3, <2>4, <2>5, ReplaceOrder, GrownStates
<1>8. CASE ResolvePrelude
  BY <1>0, <1>8, AwaitOrder
<1>9. CASE FinishModule BY <1>9, FinishOrder
<1>10. CASE FlattenModule BY <1>10, FlattenOrder
<1>11. CASE ResolutionDone \/ Finish
  BY <1>11 DEF ResolutionDone, Finish, Order, PreludeFirst, CallerStages, PreludeFrames,
     Waiting, PreludeDone, PreludeSettled, PreludeImports, IsPreludeFrame, Settled
<1>12. CASE UNCHANGED vars
  BY <1>12, StillOrder DEF vars
<1> QED
  BY <1>1, <1>2, <1>3, <1>4, <1>5, <1>6, <1>7, <1>8, <1>9, <1>10, <1>11, <1>12 DEF Next

\* The ModuleInfo& that add_implicit_prelude_fallback holds across the call
\* resolving the prelude is never left dangling by a growing modules_.
THEOREM ReferenceStaysValid == Spec => []ReferenceStable
<1>1. Init => Order
  BY DEF Init, Order, PreludeFirst, CallerStages, PreludeFrames, Waiting, PreludeDone,
         PreludeSettled
<1>2. Spec => []Order
  BY <1>1, AlwaysSafe, NextOrder, PTL DEF Spec
<1>3. Safe /\ Order => ReferenceStable
  <2> SUFFICES ASSUME Safe, Order, stack # <<>>, Top.stage = "use",
                      ~modules[Top.module].isPrelude
               PROVE  Top.held = Len(modules)
    BY DEF ReferenceStable
  <2>1. Len(stack) \in DOMAIN stack /\ Top.module \in DOMAIN modules
    BY TopType DEF Safe
  <2>2. ~IsPreludeFrame(Len(stack))
    BY <2>1 DEF Safe, Identity, IsPreludeFrame, Top
  <2> QED BY <2>1, <2>2 DEF Order, Waiting, Top
<1> QED BY <1>2, <1>3, AlwaysSafe, PTL

-----------------------------------------------------------------------------
(***************************************************************************)
(* The flattened program                                                   *)
(*                                                                         *)
(* Each reference names an item its file may see, and if no source spells  *)
(* a mangled name no two items share one.                                  *)
(***************************************************************************)

-----------------------------------------------------------------------------
(* Where bindings come from.                                                *)

DeclsOf(i) == files[modules[i].path].decls

\* The table of a module's own items is that of its declarations.
Own(i) ==
    modules[i].local = collect_local_bindings(DeclsOf(i), modules[i].isRoot, modules[i].id)

\* What tells the modules apart, and with them the names they mangle.
Identified ==
    /\ nextId >= 1
    /\ \A i \in DOMAIN modules :
        modules[i].id < nextId /\ (modules[i].isRoot <=> modules[i].id = 0)
    /\ \A i, j \in DOMAIN modules : modules[i].id = modules[j].id => i = j

FreshStart == phase = "root" => modules = <<>>

Locals == \A i \in DOMAIN modules : Own(i) /\ ~DeclaresTwice(DeclsOf(i))

\* A binding of an item that is declared `pub' in some file.
IsPublic(binding, ns) ==
    \E k \in DOMAIN modules, n \in Names :
        DeclaresPublic(DeclsOf(k), n, ns) /\ modules[k].local[n][ns] = binding

\* What a module sees is its own or public, what it hands on is public.
MaySee(i, binding, ns) ==
    binding = NoBinding \/ IsPublic(binding, ns)
        \/ \E n \in Names : modules[i].local[n][ns] = binding

MayShare(binding, ns) == binding = NoBinding \/ IsPublic(binding, ns)

Provenance ==
    \A i \in DOMAIN modules, n \in Names, ns \in Namespaces :
        /\ MaySee(i, modules[i].visible[n][ns], ns)
        /\ MayShare(modules[i].fallback[n][ns], ns)
        /\ MayShare(modules[i].exports[n][ns], ns)

-----------------------------------------------------------------------------
(* Steps.                                                                   *)

Keeps == UNCHANGED <<files, modules, nextId, program>>

Loads ==
    /\ \E p \in Paths, isRoot \in BOOLEAN, isPrelude \in BOOLEAN :
        /\ ~LoadFails(p) /\ load_module(p, isRoot, isPrelude)
        /\ isRoot => phase = "root"
    /\ UNCHANGED <<files, program>>

Opens ==
    /\ \E i \in DOMAIN modules :
        /\ modules[i].state = "Loaded"
        /\ modules' = [modules EXCEPT ![i] = Opened(modules[i])]
    /\ UNCHANGED <<files, nextId, program>>

Binds ==
    /\ \E i, k \in DOMAIN modules, as, wanted \in Names, pub \in BOOLEAN :
        modules' = [modules EXCEPT
                        ![i] = Bound(modules[i], as, modules[k].exports[wanted], pub)]
    /\ UNCHANGED <<files, nextId, program>>

Finishes ==
    /\ \E i, k \in DOMAIN modules, own \in BOOLEAN :
        /\ ~Settled(i)
        /\ modules' = [modules EXCEPT ![i] = [modules[i] EXCEPT
                !.fallback = IF own THEN modules[i].fallback ELSE modules[k].exports,
                !.state = "Resolved"]]
    /\ UNCHANGED <<files, nextId, program>>

\* A call of resolve_module returns at once, fails, or opens the module.
LEMMA CallKinds ==
    ASSUME NEW i \in DOMAIN modules, NEW frames, resolve_module(i, frames)
    PROVE  Keeps \/ Opens
BY DEF resolve_module, Fail, EnterModule, Keeps, Opens

\* An item is bound to what the target exports.
LEMMA BindKinds == ASSUME Inv, BindImportItem PROVE Keeps \/ Binds
<1>1. PICK wanted, k, i :
        /\ wanted = CurrentImport.items[Top.item]
        /\ k = IndexOf(CurrentImport.from)
        /\ i = Top.module
  OBVIOUS
<1>2. stack # <<>> /\ Top.stage = "bind" /\ Top.item <= Len(CurrentImport.items)
  BY DEF BindImportItem
<1>3. wanted \in ImportItem
  BY <1>1, <1>2, TopType, CurrentImportType DEF GoodFrames, Frame
<1>4. IsLoaded(CurrentImport.from)
  BY <1>2, TopType DEF GoodFrames, CurrentImport
<1>5. /\ k \in DOMAIN modules /\ i \in DOMAIN modules
      /\ wanted.as \in Names /\ wanted.name \in Names /\ CurrentImport.pub \in BOOLEAN
  BY <1>1, <1>2, <1>3, <1>4, LookupPath, CurrentImportType, TopType DEF ImportItem
<1>6. \/ \E kind \in Errors : Fail(kind)
      \/ /\ modules' = [modules EXCEPT ![i] =
                Bound(modules[i], wanted.as, modules[k].exports[wanted.name],
                      CurrentImport.pub)]
         /\ UNCHANGED <<files, nextId, program>>
  BY <1>1 DEF BindImportItem, Errors
<1>7. CASE \E kind \in Errors : Fail(kind)
  BY <1>7 DEF Fail, Keeps
<1> QED
  BY <1>5, <1>6, <1>7 DEF Binds

\* The end of a module fills in the fallback.
LEMMA FinishKinds == ASSUME Safe, FinishModule PROVE Finishes
<1>1. PICK i, k : i = Top.module /\ k = IndexOf(Prelude)
  OBVIOUS
<1>2. /\ i \in DOMAIN modules /\ ~Settled(i) /\ modules[i] \in Module
      /\ k \in DOMAIN modules
  BY <1>1, TopNotSettled, LookupPath DEF FinishModule, Safe, Inv, WellDefined
<1>3. modules[i].isPrelude \in BOOLEAN
  BY <1>2 DEF Module
<1>4. modules' = [modules EXCEPT ![i] = [modules[i] EXCEPT
          !.fallback = IF modules[i].isPrelude THEN modules[i].fallback
                       ELSE modules[k].exports,
          !.state = "Resolved"]]
  BY <1>1, <1>2 DEF FinishModule
<1>5. UNCHANGED <<files, nextId, program>>
  BY DEF FinishModule
<1> QED
  BY <1>2, <1>3, <1>4, <1>5 DEF Finishes

\* Every step is of one of these kinds, or flattens a module.
LEMMA StepKinds ==
    ASSUME Safe, [Next]_vars
    PROVE  Keeps \/ Loads \/ Opens \/ Binds \/ Finishes \/ FlattenModule
<1>1. CASE LoadRoot
  <2>1. CASE LoadFails(Root)
    BY <1>1, <2>1 DEF LoadRoot, Fail, Keeps
  <2>2. CASE ~LoadFails(Root)
    <3>1. load_module(Root, TRUE, Root = Prelude) /\ phase = "root"
          /\ UNCHANGED <<files, program>>
      BY <1>1, <2>2 DEF LoadRoot
    <3>2. (Root = Prelude) \in BOOLEAN
      OBVIOUS
    <3> QED
      BY <2>2, <3>1, <3>2, PathsAssumption DEF Loads
  <2> QED
    BY <2>1, <2>2
<1>2. CASE LoadPrelude
  <2>1. CASE Root # Prelude /\ LoadFails(Prelude)
    BY <1>2, <2>1 DEF LoadPrelude, Fail, Keeps
  <2>2. CASE Root = Prelude
    BY <1>2, <2>2 DEF LoadPrelude, Keeps
  <2>3. CASE Root # Prelude /\ ~LoadFails(Prelude)
    BY <1>2, <2>3, PathsAssumption DEF LoadPrelude, Loads
  <2> QED
    BY <2>1, <2>2, <2>3
<1>3. CASE ResolveRoot
  BY <1>3, LookupPath, CallKinds DEF ResolveRoot, Safe, Inv, WellDefined
<1>4. CASE LoadImport
  <2>1. PICK p : p = CurrentImport.from
    OBVIOUS
  <2>2. p \in Paths
    BY <1>4, <2>1, CurrentImportType DEF LoadImport, Safe
  <2>3. CASE LoadFails(p)
    BY <1>4, <2>1, <2>3 DEF LoadImport, Fail, Keeps
  <2>4. CASE ~LoadFails(p)
    <3>1. load_module(p, FALSE, p = Prelude) /\ UNCHANGED <<files, program>>
      BY <1>4, <2>1, <2>4 DEF LoadImport
    <3>2. (p = Prelude) \in BOOLEAN
      OBVIOUS
    <3> QED
      BY <2>2, <2>4, <3>1, <3>2 DEF Loads
  <2> QED
    BY <2>3, <2>4
<1>5. CASE ResolveImport
  <2>1. IsLoaded(CurrentImport.from)
    BY <1>5, TopType DEF ResolveImport, GoodFrames, CurrentImport, Safe
  <2> QED
    BY <1>5, <2>1, LookupPath, CallKinds DEF ResolveImport
<1>6. CASE BindImportItem
  BY <1>6, BindKinds DEF Safe
<1>7. CASE ResolvePrelude
  <2>1. CASE modules[Top.module].isPrelude
    BY <1>7, <2>1 DEF ResolvePrelude, Keeps
  <2>2. CASE ~modules[Top.module].isPrelude
    BY <1>7, <2>2, LookupPath, CallKinds DEF ResolvePrelude, Safe, Inv, WellDefined
  <2> QED
    BY <2>1, <2>2
<1>8. CASE FinishModule
  BY <1>8, FinishKinds
<1>9. CASE NextImport \/ ResolutionDone \/ Finish \/ UNCHANGED vars
  BY <1>9 DEF NextImport, ResolutionDone, Finish, vars, Keeps
<1> QED
  BY <1>1, <1>2, <1>3, <1>4, <1>5, <1>6, <1>7, <1>8, <1>9 DEF Next

\* The resolver leaves its first phase for good, and is done only when every
\* module is rewritten.
LEMMA PhaseSteps ==
    ASSUME [Next]_vars
    PROVE  /\ phase' = "root" => UNCHANGED vars
           /\ phase' = "done" =>
                /\ UNCHANGED modules
                /\ phase = "done" \/ \A i \in DOMAIN modules : modules[i].state = "Rewritten"
<1>1. CASE LoadRoot BY <1>1 DEF LoadRoot, Fail
<1>2. CASE LoadPrelude BY <1>2 DEF LoadPrelude, Fail
<1>3. CASE ResolveRoot BY <1>3 DEF ResolveRoot, resolve_module, EnterModule, Fail
<1>4. CASE LoadImport BY <1>4 DEF LoadImport, Fail
<1>5. CASE ResolveImport BY <1>5 DEF ResolveImport, resolve_module, EnterModule, Fail
<1>6. CASE BindImportItem BY <1>6 DEF BindImportItem, Fail
<1>7. CASE NextImport BY <1>7 DEF NextImport
<1>8. CASE ResolvePrelude BY <1>8 DEF ResolvePrelude, resolve_module, EnterModule, Fail
<1>9. CASE FinishModule BY <1>9 DEF FinishModule
<1>10. CASE FlattenModule BY <1>10 DEF FlattenModule
<1>11. CASE ResolutionDone BY <1>11 DEF ResolutionDone
<1>12. CASE Finish BY <1>12 DEF Finish
<1>13. CASE UNCHANGED vars BY <1>13 DEF vars
<1> QED
  BY <1>1, <1>2, <1>3, <1>4, <1>5, <1>6, <1>7, <1>8, <1>9, <1>10, <1>11, <1>12, <1>13 DEF Next

-----------------------------------------------------------------------------
(* Modules keep their own items.                                            *)

\* No step changes what a module declares or how it mangles.
Grows ==
    /\ files' = files
    /\ DOMAIN modules \subseteq DOMAIN modules'
    /\ \A i \in DOMAIN modules :
        /\ modules'[i].path = modules[i].path
        /\ modules'[i].id = modules[i].id
        /\ modules'[i].isRoot = modules[i].isRoot
        /\ modules'[i].local = modules[i].local

\* What is public stays public.
LEMMA PublicStays ==
    ASSUME Grows, NEW binding, NEW ns, IsPublic(binding, ns)
    PROVE  IsPublic(binding, ns)'
<1>1. PICK k \in DOMAIN modules, n \in Names :
        DeclaresPublic(DeclsOf(k), n, ns) /\ modules[k].local[n][ns] = binding
  BY DEF IsPublic
<1>2. DeclsOf(k)' = DeclsOf(k) /\ k \in DOMAIN modules' /\ modules'[k].local = modules[k].local
  BY DEF DeclsOf, Grows
<1>3. DeclaresPublic(DeclsOf(k), n, ns)'
  BY <1>1, <1>2 DEF DeclaresPublic
<1> QED
  BY <1>1, <1>2, <1>3 DEF IsPublic

\* What a module may see or share it still may.
LEMMA MayStays ==
    ASSUME Grows, NEW i \in DOMAIN modules, NEW binding, NEW ns
    PROVE  /\ MaySee(i, binding, ns) => MaySee(i, binding, ns)'
           /\ MayShare(binding, ns) => MayShare(binding, ns)'
<1>1. i \in DOMAIN modules' /\ modules'[i].local = modules[i].local
  BY DEF Grows
<1> QED
  BY <1>1, PublicStays DEF MaySee, MayShare

\* Replacing a module changes no other.
LEMMA Updated ==
    ASSUME Inv, NEW i \in DOMAIN modules, NEW m, modules' = [modules EXCEPT ![i] = m]
    PROVE  /\ DOMAIN modules' = DOMAIN modules /\ modules'[i] = m
           /\ \A j \in DOMAIN modules : j # i => modules'[j] = modules[j]
BY DEF Inv, TypeOK

\* Replacing a module by one that keeps its identity and what it declares only grows the table.
LEMMA UpdateGrows ==
    ASSUME Inv, NEW i \in DOMAIN modules, NEW m, modules' = [modules EXCEPT ![i] = m],
           files' = files, m.path = modules[i].path, m.id = modules[i].id,
           m.isRoot = modules[i].isRoot, m.local = modules[i].local
    PROVE  Grows
BY Updated DEF Grows

\* The same modules keep their identity and their items.
LEMMA SameIdentity ==
    ASSUME Grows, DOMAIN modules' = DOMAIN modules, nextId' = nextId, Identified, Locals
    PROVE  Identified' /\ Locals'
<1>1. Identified'
  BY DEF Grows, Identified
<1>2. \A i \in DOMAIN modules : DeclsOf(i)' = DeclsOf(i)
  BY DEF Grows, DeclsOf
<1>3. Locals'
  BY <1>2 DEF Grows, Locals, Own
<1> QED
  BY <1>1, <1>3

-----------------------------------------------------------------------------
(* Loading.                                                                 *)

\* A second load of a file changes neither its number nor whether it is the
\* root's.
LEMMA FlaggedIdentity ==
    ASSUME NEW m \in Module, NEW isRoot \in BOOLEAN, NEW isPrelude \in BOOLEAN, ~isRoot
    PROVE  /\ Flagged(m, isRoot, isPrelude).id = m.id
           /\ Flagged(m, isRoot, isPrelude).isRoot = m.isRoot
<1> DEFINE root == m.isRoot \/ isRoot
           prelude == m.isPrelude \/ isPrelude
<1>1. root = m.isRoot /\ prelude \in BOOLEAN
  BY DEF Module
<1>2. Flagged(m, isRoot, isPrelude) = [m EXCEPT !.isRoot = root, !.isPrelude = prelude]
  BY Zenon DEF Flagged
<1> HIDE DEF root, prelude
<1> QED
  BY <1>1, <1>2 DEF Module

Unchanged(i) ==
    /\ modules'[i].path = modules[i].path
    /\ modules'[i].id = modules[i].id
    /\ modules'[i].isRoot = modules[i].isRoot
    /\ modules'[i].state = modules[i].state
    /\ modules'[i].local = modules[i].local
    /\ modules'[i].visible = modules[i].visible
    /\ modules'[i].fallback = modules[i].fallback
    /\ modules'[i].exports = modules[i].exports

\* Loading adds at most one module.
LEMMA LoadsOne ==
    ASSUME Inv, FreshStart, Loads
    PROVE  /\ \A i \in DOMAIN modules : i \in DOMAIN modules' /\ Unchanged(i)
           /\ \/ DOMAIN modules' = DOMAIN modules /\ nextId' = nextId
              \/ \E p \in Paths, isRoot, isPrelude \in BOOLEAN :
                   /\ DOMAIN modules' = DOMAIN modules \cup {Len(modules) + 1}
                   /\ modules'[Len(modules) + 1] = NewModule(p, isRoot, isPrelude)
                   /\ nextId' = IF isRoot THEN nextId ELSE nextId + 1
                   /\ isRoot => modules = <<>>
                   /\ ~DeclaresTwice(files[p].decls)
<1>0. modules \in Seq(Module)
  BY DEF Inv, TypeOK
<1>1. PICK p \in Paths, isRoot \in BOOLEAN, isPrelude \in BOOLEAN :
        /\ ~LoadFails(p) /\ load_module(p, isRoot, isPrelude)
        /\ isRoot => phase = "root"
  BY DEF Loads
<1>2. CASE IsLoaded(p)
  <2> DEFINE k == IndexOf(p)
             m == Flagged(modules[k], isRoot, isPrelude)
  <2>1. k \in DOMAIN modules /\ isRoot = FALSE
    BY <1>1, <1>2, LookupPath DEF FreshStart
  <2>2. modules' = [modules EXCEPT ![k] = m] /\ nextId' = nextId
    BY <1>1, <1>2 DEF load_module
  <2>3. /\ m.path = modules[k].path /\ m.state = modules[k].state
        /\ m.visible = modules[k].visible /\ m.fallback = modules[k].fallback
        /\ m.exports = modules[k].exports /\ m.local = modules[k].local
    BY <1>0, <2>1, FlaggedType
  <2>4. m.id = modules[k].id /\ m.isRoot = modules[k].isRoot
    <3>1. modules[k] \in Module /\ ~isRoot
      BY <1>0, <2>1
    <3> QED
      BY <3>1, FlaggedIdentity
  <2> HIDE DEF k, m
  <2>5. DOMAIN modules' = DOMAIN modules /\ modules'[k] = m
        /\ \A i \in DOMAIN modules : i # k => modules'[i] = modules[i]
    BY <2>1, <2>2, Updated
  <2> QED
    BY <2>2, <2>3, <2>4, <2>5 DEF Unchanged
<1>3. CASE ~IsLoaded(p)
  <2> DEFINE m == NewModule(p, isRoot, isPrelude)
  <2>1. /\ modules' = Append(modules, m)
        /\ nextId' = IF isRoot THEN nextId ELSE nextId + 1
    BY <1>1, <1>3 DEF load_module
  <2>2. /\ ~DeclaresTwice(files[p].decls)
        /\ isRoot => modules = <<>>
    BY <1>1, <1>3 DEF LoadFails, FreshStart
  <2> HIDE DEF m
  <2>3. /\ DOMAIN modules' = DOMAIN modules \cup {Len(modules) + 1}
        /\ \A i \in DOMAIN modules : modules'[i] = modules[i]
        /\ modules'[Len(modules) + 1] = m
    BY <1>0, <2>1
  <2> QED
    BY <2>1, <2>2, <2>3 DEF Unchanged, m
<1> QED
  BY <1>2, <1>3

\* Loading a module only adds to the table of modules.
LEMMA LoadsGrow == ASSUME Inv, FreshStart, Loads PROVE Grows
BY LoadsOne DEF Grows, Unchanged, Loads

\* A loaded module has a number of its own, and the table of its items.
LEMMA LoadsIdentify ==
    ASSUME Inv, FreshStart, Identified, Locals, Loads
    PROVE  Identified' /\ Locals'
<1>1. Grows
  BY LoadsGrow
<1>2. CASE DOMAIN modules' = DOMAIN modules /\ nextId' = nextId
  BY <1>1, <1>2, SameIdentity
<1>3. ASSUME NEW p \in Paths, NEW isRoot \in BOOLEAN, NEW isPrelude \in BOOLEAN,
             DOMAIN modules' = DOMAIN modules \cup {Len(modules) + 1},
             modules'[Len(modules) + 1] = NewModule(p, isRoot, isPrelude),
             nextId' = IF isRoot THEN nextId ELSE nextId + 1,
             isRoot => modules = <<>>, ~DeclaresTwice(files[p].decls)
      PROVE  Identified' /\ Locals'
  <2>1. PICK n : n = Len(modules) + 1
    OBVIOUS
  <2>2. /\ n \notin DOMAIN modules /\ n \in DOMAIN modules'
        /\ modules = <<>> => DOMAIN modules = {}
    BY <1>3, <2>1 DEF Inv, TypeOK
  <2>3. /\ modules'[n].path = p /\ modules'[n].isRoot = isRoot
        /\ modules'[n].id = IF isRoot THEN 0 ELSE nextId
        /\ modules'[n].local = collect_local_bindings(files[p].decls, isRoot,
                                    IF isRoot THEN 0 ELSE nextId)
    BY <1>3, <2>1 DEF NewModule
  <2>4. nextId \in Nat /\ \A i \in DOMAIN modules : modules[i].id \in Nat
    <3>1. nextId \in Nat /\ \A i \in DOMAIN modules : modules[i] \in Module
      BY DEF Inv, TypeOK
    <3> QED
      BY <3>1 DEF Module
  <2>5. Identified'
    <3>1. nextId' >= 1
      BY <1>3, <2>4 DEF Identified
    <3>2. ASSUME NEW i \in DOMAIN modules'
          PROVE  modules'[i].id < nextId' /\ (modules'[i].isRoot <=> modules'[i].id = 0)
      <4>1. CASE i = n
        BY <1>3, <2>3, <2>4, <4>1 DEF Identified
      <4>2. CASE i \in DOMAIN modules
        BY <1>1, <1>3, <2>4, <4>2 DEF Identified, Grows
      <4> QED
        BY <1>3, <2>1, <4>1, <4>2
    <3>3. ASSUME NEW i \in DOMAIN modules', NEW j \in DOMAIN modules',
                 modules'[i].id = modules'[j].id
          PROVE  i = j
      <4>1. \A l \in DOMAIN modules : modules'[l].id # modules'[n].id
        BY <1>1, <1>3, <2>2, <2>3, <2>4 DEF Identified, Grows
      <4> QED
        BY <1>1, <1>3, <2>1, <3>3, <4>1 DEF Identified, Grows
    <3> QED
      BY <3>1, <3>2, <3>3 DEF Identified
  <2>6. Locals'
    <3>1. /\ DeclsOf(n)' = files[p].decls
          /\ \A i \in DOMAIN modules : DeclsOf(i)' = DeclsOf(i)
      BY <1>1, <2>3 DEF DeclsOf, Grows
    <3>2. Own(n)' /\ ~DeclaresTwice(DeclsOf(n))'
      BY <1>3, <2>3, <3>1 DEF Own, DeclaresTwice
    <3>3. \A i \in DOMAIN modules : Own(i)' /\ ~DeclaresTwice(DeclsOf(i))'
      BY <1>1, <3>1 DEF Locals, Own, Grows, DeclaresTwice
    <3> QED
      BY <1>3, <2>1, <3>2, <3>3 DEF Locals
  <2> QED
    BY <2>5, <2>6
<1> QED
  BY <1>2, <1>3, LoadsOne

\* A loaded module sees and shares nothing yet.
LEMMA LoadsProvenance ==
    ASSUME Inv, FreshStart, Provenance, Loads
    PROVE  Provenance'
<1>1. Grows
  BY LoadsGrow
<1> SUFFICES ASSUME NEW i \in DOMAIN modules', NEW n \in Names, NEW ns \in Namespaces
             PROVE  /\ MaySee(i, modules[i].visible[n][ns], ns)'
                    /\ MayShare(modules[i].fallback[n][ns], ns)'
                    /\ MayShare(modules[i].exports[n][ns], ns)'
  BY DEF Provenance
<1>2. CASE i \in DOMAIN modules
  <2>1. Unchanged(i)
    BY <1>2, LoadsOne
  <2>2. PICK v, f, e : v = modules[i].visible[n][ns] /\ f = modules[i].fallback[n][ns]
                         /\ e = modules[i].exports[n][ns]
    OBVIOUS
  <2>3. MaySee(i, v, ns)' /\ MayShare(f, ns)' /\ MayShare(e, ns)'
    BY <1>1, <1>2, <2>2, MayStays DEF Provenance
  <2> QED
    BY <2>1, <2>2, <2>3 DEF Unchanged, MaySee, MayShare
<1>3. CASE i \notin DOMAIN modules
  <2>1. PICK p \in Paths, isRoot \in BOOLEAN, isPrelude \in BOOLEAN :
          modules'[i] = NewModule(p, isRoot, isPrelude)
    BY <1>3, LoadsOne
  <2>2. /\ modules'[i].visible = EmptyBindings /\ modules'[i].fallback = EmptyBindings
        /\ modules'[i].exports = EmptyBindings
    BY <2>1 DEF NewModule
  <2> QED
    BY <2>2 DEF EmptyBindings, MaySee, MayShare
<1> QED
  BY <1>2, <1>3

-----------------------------------------------------------------------------
(* Resolving.                                                               *)

\* What a module sees and shares after a step is what it may before it.
LEMMA UpdateProvenance ==
    ASSUME Inv, Provenance, Grows, NEW i \in DOMAIN modules, NEW m,
           modules' = [modules EXCEPT ![i] = m],
           \A n \in Names, ns \in Namespaces :
               /\ MaySee(i, m.visible[n][ns], ns)
               /\ MayShare(m.fallback[n][ns], ns)
               /\ MayShare(m.exports[n][ns], ns)
    PROVE  Provenance'
<1>1. /\ DOMAIN modules' = DOMAIN modules /\ modules'[i] = m
      /\ \A j \in DOMAIN modules : j # i => modules'[j] = modules[j]
  BY Updated
<1> SUFFICES ASSUME NEW j \in DOMAIN modules, NEW n \in Names, NEW ns \in Namespaces
             PROVE  /\ MaySee(j, modules[j].visible[n][ns], ns)'
                    /\ MayShare(modules[j].fallback[n][ns], ns)'
                    /\ MayShare(modules[j].exports[n][ns], ns)'
  BY <1>1 DEF Provenance
<1>2. PICK v, f, e : v = modules'[j].visible[n][ns] /\ f = modules'[j].fallback[n][ns]
                       /\ e = modules'[j].exports[n][ns]
  OBVIOUS
<1>3. MaySee(j, v, ns) /\ MayShare(f, ns) /\ MayShare(e, ns)
  <2>1. CASE j = i
    BY <1>1, <1>2, <2>1
  <2>2. CASE j # i
    BY <1>1, <1>2, <2>2 DEF Provenance
  <2> QED
    BY <2>1, <2>2
<1>4. MaySee(j, v, ns)' /\ MayShare(f, ns)' /\ MayShare(e, ns)'
  BY <1>3, MayStays
<1> QED
  BY <1>2, <1>4 DEF MaySee, MayShare

\* The rewritten modules stay the same.
RewrittenStay ==
    \A i \in DOMAIN modules' :
        modules'[i].state = "Rewritten" <=>
            i \in DOMAIN modules /\ modules[i].state = "Rewritten"

\* A module that is opened sees its own items and shares the public ones.
LEMMA OpensProvenance ==
    ASSUME Inv, Provenance, Opens
    PROVE  Grows /\ Provenance' /\ RewrittenStay /\ DOMAIN modules' = DOMAIN modules
<1>1. PICK i \in DOMAIN modules :
        modules[i].state = "Loaded" /\ modules' = [modules EXCEPT ![i] = Opened(modules[i])]
  BY DEF Opens
<1> DEFINE m == Opened(modules[i])
<1>2. modules[i] \in Module
  BY ImportsType
<1>3. /\ m.path = modules[i].path /\ m.id = modules[i].id /\ m.isRoot = modules[i].isRoot
      /\ m.local = modules[i].local /\ m.visible = modules[i].local
      /\ m.fallback = EmptyBindings /\ m.exports = PublicLocals(modules[i])
      /\ m.state = "Resolving"
  BY <1>2 DEF Opened, Module
<1>4. modules' = [modules EXCEPT ![i] = m] /\ files' = files
  BY <1>1 DEF Opens
<1> HIDE DEF m
<1>5. Grows
  BY <1>3, <1>4, UpdateGrows
<1>6. ASSUME NEW n \in Names, NEW ns \in Namespaces
      PROVE  /\ MaySee(i, m.visible[n][ns], ns)
             /\ MayShare(m.fallback[n][ns], ns)
             /\ MayShare(m.exports[n][ns], ns)
  <2>1. m.fallback[n][ns] = NoBinding
    BY <1>3 DEF EmptyBindings
  <2>2. m.exports[n][ns] = IF DeclaresPublic(DeclsOf(i), n, ns)
                           THEN modules[i].local[n][ns] ELSE NoBinding
    BY <1>3 DEF PublicLocals, DeclsOf
  <2> QED
    BY <1>3, <2>1, <2>2 DEF MaySee, MayShare, IsPublic
<1>7. Provenance'
  BY <1>4, <1>5, <1>6, UpdateProvenance
<1>8. RewrittenStay /\ DOMAIN modules' = DOMAIN modules
  BY <1>1, <1>3, <1>4, Updated DEF RewrittenStay
<1> QED
  BY <1>5, <1>7, <1>8

\* What is bound was exported by another module.
LEMMA BindsProvenance ==
    ASSUME Inv, Provenance, Binds
    PROVE  Grows /\ Provenance' /\ RewrittenStay /\ DOMAIN modules' = DOMAIN modules
<1>1. PICK i \in DOMAIN modules, k \in DOMAIN modules, as \in Names, wanted \in Names,
           pub \in BOOLEAN :
        modules' = [modules EXCEPT
                        ![i] = Bound(modules[i], as, modules[k].exports[wanted], pub)]
  BY DEF Binds
<1>2. PICK exported : exported = modules[k].exports[wanted]
  OBVIOUS
<1>3. modules[i] \in Module /\ modules[k] \in Module
  BY ImportsType
<1>4. exported \in BindingSet
  BY <1>2, <1>3 DEF Module, Bindings
<1> DEFINE m == Bound(modules[i], as, exported, pub)
<1>5. /\ m.path = modules[i].path /\ m.state = modules[i].state
      /\ m.visible = insert_binding_set(modules[i].visible, as, exported)
      /\ m.exports = IF pub THEN insert_binding_set(modules[i].exports, as, exported)
                     ELSE modules[i].exports
  <2>1. modules[i] \in Module
    BY <1>3
  <2> QED
    BY <1>4, <2>1, BoundType
<1>6. /\ m.id = modules[i].id /\ m.isRoot = modules[i].isRoot
      /\ m.local = modules[i].local /\ m.fallback = modules[i].fallback
  BY <1>3 DEF Bound, Module
<1>7. modules' = [modules EXCEPT ![i] = m] /\ files' = files
  BY <1>1, <1>2 DEF Binds
<1> HIDE DEF m
<1>8. Grows
  BY <1>5, <1>6, <1>7, UpdateGrows
<1>9. ASSUME NEW n \in Names, NEW ns \in Namespaces
      PROVE  /\ MaySee(i, m.visible[n][ns], ns)
             /\ MayShare(m.fallback[n][ns], ns)
             /\ MayShare(m.exports[n][ns], ns)
  <2>1. /\ MayShare(exported[ns], ns) /\ MaySee(i, modules[i].visible[n][ns], ns)
        /\ MayShare(modules[i].fallback[n][ns], ns)
        /\ MayShare(modules[i].exports[n][ns], ns)
    BY <1>2 DEF Provenance
  <2>2. MaySee(i, exported[ns], ns)
    BY <2>1 DEF MaySee, MayShare
  <2>3. /\ insert_binding_set(modules[i].visible, as, exported)[n][ns]
               \in {exported[ns], modules[i].visible[n][ns]}
        /\ insert_binding_set(modules[i].exports, as, exported)[n][ns]
               \in {exported[ns], modules[i].exports[n][ns]}
    <3>1. \A b \in Bindings :
            insert_binding_set(b, as, exported)[n][ns] \in {exported[ns], b[n][ns]}
      <4> TAKE b \in Bindings
      <4> QED
        BY <1>4, InsertedAt
    <3>2. modules[i].visible \in Bindings /\ modules[i].exports \in Bindings
      BY <1>3 DEF Module
    <3> QED
      BY <3>1, <3>2
  <2>4. /\ m.visible[n][ns] \in {exported[ns], modules[i].visible[n][ns]}
        /\ m.exports[n][ns] \in {exported[ns], modules[i].exports[n][ns]}
    BY <1>5, <2>3
  <2> QED
    BY <1>6, <2>1, <2>2, <2>4
<1>10. Provenance'
  BY <1>7, <1>8, <1>9, UpdateProvenance
<1>11. RewrittenStay /\ DOMAIN modules' = DOMAIN modules
  BY <1>5, <1>7, Updated DEF RewrittenStay
<1> QED
  BY <1>8, <1>10, <1>11

\* The fallback is what the prelude shares.
LEMMA FinishesProvenance ==
    ASSUME Inv, Provenance, Finishes
    PROVE  Grows /\ Provenance' /\ RewrittenStay /\ DOMAIN modules' = DOMAIN modules
<1>1. PICK i \in DOMAIN modules, k \in DOMAIN modules, own \in BOOLEAN :
        /\ ~Settled(i)
        /\ modules' = [modules EXCEPT ![i] = [modules[i] EXCEPT
                !.fallback = IF own THEN modules[i].fallback ELSE modules[k].exports,
                !.state = "Resolved"]]
  BY DEF Finishes
<1>2. PICK f : f = IF own THEN modules[i].fallback ELSE modules[k].exports
  OBVIOUS
<1>3. modules[i] \in Module
  BY ImportsType
<1> DEFINE m == [modules[i] EXCEPT !.fallback = f, !.state = "Resolved"]
<1>4. /\ m.path = modules[i].path /\ m.id = modules[i].id /\ m.isRoot = modules[i].isRoot
      /\ m.local = modules[i].local /\ m.visible = modules[i].visible
      /\ m.fallback = f /\ m.exports = modules[i].exports /\ m.state = "Resolved"
  BY <1>3 DEF Module
<1>5. modules' = [modules EXCEPT ![i] = m] /\ files' = files
  BY <1>1, <1>2 DEF Finishes
<1> HIDE DEF m
<1>6. Grows
  BY <1>4, <1>5, UpdateGrows
<1>7. ASSUME NEW n \in Names, NEW ns \in Namespaces
      PROVE  /\ MaySee(i, m.visible[n][ns], ns)
             /\ MayShare(m.fallback[n][ns], ns)
             /\ MayShare(m.exports[n][ns], ns)
  BY <1>2, <1>4 DEF Provenance
<1>8. Provenance'
  BY <1>5, <1>6, <1>7, UpdateProvenance
<1>9. RewrittenStay /\ DOMAIN modules' = DOMAIN modules
  BY <1>1, <1>4, <1>5, Updated DEF RewrittenStay, Settled
<1> QED
  BY <1>6, <1>8, <1>9

\* A step that flattens nothing.
LEMMA QuietStep ==
    ASSUME Safe, FreshStart, Identified, Locals, Provenance,
           Keeps \/ Loads \/ Opens \/ Binds \/ Finishes
    PROVE  /\ Grows /\ Identified' /\ Locals' /\ Provenance' /\ RewrittenStay
           /\ program' = program
<1>1. CASE Keeps
  <2>1. UNCHANGED <<files, modules, nextId, program>>
    BY <1>1 DEF Keeps
  <2>2. Grows /\ RewrittenStay
    BY <2>1 DEF Grows, RewrittenStay
  <2>3. Provenance'
    BY <2>1 DEF Provenance, MaySee, MayShare, IsPublic, DeclsOf
  <2> QED
    BY <2>1, <2>2, <2>3, SameIdentity
<1>2. CASE Loads
  <2>1. Grows /\ Identified' /\ Locals' /\ Provenance' /\ program' = program
    BY <1>2, LoadsGrow, LoadsIdentify, LoadsProvenance DEF Safe, Loads
  <2>2. RewrittenStay
    <3> SUFFICES ASSUME NEW i \in DOMAIN modules'
                 PROVE  modules'[i].state = "Rewritten" <=>
                          i \in DOMAIN modules /\ modules[i].state = "Rewritten"
      BY DEF RewrittenStay
    <3>1. CASE i \in DOMAIN modules
      BY <1>2, <3>1, LoadsOne DEF Unchanged, Safe
    <3>2. CASE i \notin DOMAIN modules
      <4>1. \E p \in Paths, isRoot, isPrelude \in BOOLEAN :
              modules'[i] = NewModule(p, isRoot, isPrelude)
        BY <1>2, <3>2, LoadsOne DEF Safe
      <4> QED
        BY <3>2, <4>1 DEF NewModule
    <3> QED
      BY <3>1, <3>2
  <2> QED
    BY <2>1, <2>2
<1>3. CASE Opens \/ Binds \/ Finishes
  <2>1. /\ Grows /\ Provenance' /\ RewrittenStay
        /\ DOMAIN modules' = DOMAIN modules /\ nextId' = nextId /\ program' = program
    BY <1>3, OpensProvenance, BindsProvenance, FinishesProvenance
       DEF Safe, Opens, Binds, Finishes
  <2> QED
    BY <2>1, SameIdentity
<1> QED
  BY <1>1, <1>2, <1>3

-----------------------------------------------------------------------------
(* Flattening.                                                              *)

\* What a declaration becomes.
Emits(i, d) == RewriteDecl(modules[i], DeclsOf(i)[d])

\* The program holds what the rewritten modules declare, and only that.
Emitted ==
    /\ \E S : program \in Seq(S)
    /\ \A j \in DOMAIN program : \E i \in DOMAIN modules : \E d \in DOMAIN DeclsOf(i) :
        modules[i].state = "Rewritten" /\ program[j] = Emits(i, d)
    /\ \A i \in DOMAIN modules : modules[i].state = "Rewritten" =>
        \A d \in DOMAIN DeclsOf(i) : \E j \in DOMAIN program : program[j] = Emits(i, d)
    /\ phase = "done" => \A i \in DOMAIN modules : modules[i].state = "Rewritten"

\* What a declaration becomes is decided by the tables of its module.
LEMMA EmitsStays ==
    ASSUME NEW m, NEW n, NEW d, m.path = n.path, m.local = n.local,
           m.visible = n.visible, m.fallback = n.fallback
    PROVE  RewriteDecl(m, d) = RewriteDecl(n, d)
BY DEF RewriteDecl, Rewritten, lookup_visible

\* u is s with t after it.
After(u, s, t) ==
    /\ \E S : u \in Seq(S)
    /\ \A i \in DOMAIN s : i \in DOMAIN u /\ u[i] = s[i]
    /\ \A i \in DOMAIN t : Len(s) + i \in DOMAIN u /\ u[Len(s) + i] = t[i]
    /\ \A i \in DOMAIN u : i \in DOMAIN s \/ \E j \in DOMAIN t : i = Len(s) + j

\* What is appended to a sequence comes after it.
LEMMA Joined ==
    ASSUME NEW S, NEW T, NEW s \in Seq(S), NEW t \in Seq(T)
    PROVE  After(s \o t, s, t)
<1>1. s \in Seq(S \cup T) /\ t \in Seq(S \cup T)
  OBVIOUS
<1>2. /\ s \o t \in Seq(S \cup T) /\ Len(s \o t) = Len(s) + Len(t)
      /\ \A i \in 1 .. Len(s) + Len(t) : (s \o t)[i] =
            IF i <= Len(s) THEN s[i] ELSE t[i - Len(s)]
  BY <1>1, ConcatProperties
<1>3. /\ Len(s) \in Nat /\ DOMAIN s = 1..Len(s)
      /\ Len(t) \in Nat /\ DOMAIN t = 1..Len(t)
      /\ DOMAIN (s \o t) = 1..Len(s \o t)
  BY <1>2
<1>4. PICK u, m, n : u = s \o t /\ m = Len(s) /\ n = Len(t)
  OBVIOUS
<1>5. /\ DOMAIN u = 1 .. m + n /\ m \in Nat /\ n \in Nat
      /\ \A i \in 1 .. m + n : u[i] = IF i <= m THEN s[i] ELSE t[i - m]
  BY <1>2, <1>3, <1>4
<1>6. \A i \in 1..m : i \in DOMAIN u /\ u[i] = s[i]
  BY <1>5
<1>7. \A i \in 1..n : m + i \in DOMAIN u /\ u[m + i] = t[i]
  <2> TAKE i \in 1..n
  <2>1. m + i \in 1 .. m + n /\ ~(m + i <= m) /\ (m + i) - m = i
    BY <1>5
  <2> QED
    BY <1>5, <2>1
<1>8. \A i \in DOMAIN u : i \in 1..m \/ \E j \in 1..n : i = m + j
  <2> TAKE i \in DOMAIN u
  <2>1. i \in 1..m \/ (i - m \in 1..n /\ i = m + (i - m))
    BY <1>5
  <2> QED
    BY <2>1
<1> QED
  BY <1>2, <1>3, <1>4, <1>6, <1>7, <1>8 DEF After

\* A function over the indices of a sequence is a sequence as long.
LEMMA MapIsSeq ==
    ASSUME NEW S, NEW s \in Seq(S), NEW T, NEW f, DOMAIN f = DOMAIN s,
           f = [i \in DOMAIN s |-> f[i]], \A i \in DOMAIN s : f[i] \in T
    PROVE  f \in Seq(T)
<1>1. Len(s) \in Nat /\ DOMAIN s = 1..Len(s)
  OBVIOUS
<1>2. f \in [1..Len(s) -> T]
  BY <1>1
<1> QED
  BY <1>1, <1>2, SeqDef

\* A module's items, after those of the modules flattened before it.
LEMMA FlattenedStep ==
    ASSUME Inv, FlattenModule, \E S : program \in Seq(S)
    PROVE  \E i \in DOMAIN modules :
             /\ modules[i].state # "Rewritten"
             /\ Grows /\ DOMAIN modules' = DOMAIN modules
             /\ nextId' = nextId /\ phase' = phase
             /\ \A k \in DOMAIN modules :
                  /\ modules'[k].state = IF k = i THEN "Rewritten" ELSE modules[k].state
                  /\ modules'[k].visible = modules[k].visible
                  /\ modules'[k].fallback = modules[k].fallback
                  /\ modules'[k].exports = modules[k].exports
                  /\ \A d \in DOMAIN DeclsOf(k) : Emits(k, d)' = Emits(k, d)
             /\ \E S : program' \in Seq(S)
             /\ \A j \in DOMAIN program : j \in DOMAIN program' /\ program'[j] = program[j]
             /\ \A d \in DOMAIN DeclsOf(i) :
                  /\ Len(program) + d \in DOMAIN program'
                  /\ program'[Len(program) + d] = Emits(i, d)
             /\ \A j \in DOMAIN program' :
                  j \in DOMAIN program \/ \E d \in DOMAIN DeclsOf(i) : j = Len(program) + d
<1>1. PICK i \in DOMAIN modules :
        /\ FlattenTurn(i)
        /\ program' = program \o rewrite_module(modules[i])
        /\ modules' = [modules EXCEPT ![i].state = "Rewritten"]
  BY DEF FlattenModule
<1>2. UNCHANGED <<files, nextId, stack, phase, error>> /\ modules[i].state # "Rewritten"
  BY <1>1 DEF FlattenModule, FlattenTurn
<1> DEFINE m == [modules[i] EXCEPT !.state = "Rewritten"]
<1>3. modules[i] \in Module
  BY ImportsType
<1>4. /\ m.path = modules[i].path /\ m.id = modules[i].id /\ m.isRoot = modules[i].isRoot
      /\ m.local = modules[i].local /\ m.visible = modules[i].visible
      /\ m.fallback = modules[i].fallback /\ m.exports = modules[i].exports
      /\ m.state = "Rewritten"
  BY <1>3 DEF Module
<1>5. modules' = [modules EXCEPT ![i] = m]
  BY <1>1
<1> HIDE DEF m
<1>6. /\ DOMAIN modules' = DOMAIN modules /\ modules'[i] = m
      /\ \A k \in DOMAIN modules : k # i => modules'[k] = modules[k]
  BY <1>5, Updated
<1>7. Grows
  BY <1>2, <1>4, <1>5, UpdateGrows
<1>8. \A k \in DOMAIN modules :
        /\ modules'[k].state = IF k = i THEN "Rewritten" ELSE modules[k].state
        /\ modules'[k].visible = modules[k].visible
        /\ modules'[k].fallback = modules[k].fallback
        /\ modules'[k].exports = modules[k].exports
  BY <1>4, <1>6
<1>9. ASSUME NEW k \in DOMAIN modules, NEW d \in DOMAIN DeclsOf(k)
      PROVE  Emits(k, d)' = Emits(k, d)
  <2>1. DeclsOf(k)' = DeclsOf(k)
    BY <1>7 DEF Grows, DeclsOf
  <2>2. RewriteDecl(modules'[k], DeclsOf(k)[d]) = RewriteDecl(modules[k], DeclsOf(k)[d])
    BY <1>7, <1>8, EmitsStays DEF Grows
  <2>3. Emits(k, d)' = RewriteDecl(modules'[k], DeclsOf(k)[d])
    BY <2>1 DEF Emits, RewriteDecl, Rewritten, lookup_visible
  <2> QED
    BY <2>2, <2>3 DEF Emits
<1>10. PICK items : items = rewrite_module(modules[i])
  OBVIOUS
<1>11. items = [d \in DOMAIN DeclsOf(i) |-> Emits(i, d)]
  BY <1>10 DEF rewrite_module, Emits, DeclsOf
<1>12. DeclsOf(i) \in Seq(Decl)
  BY DEF DeclsOf, Inv, WellDefined, File
<1>13. items \in Seq({items[d] : d \in DOMAIN items})
  BY <1>11, <1>12, MapIsSeq
<1>14. PICK S : program \in Seq(S)
  OBVIOUS
<1>15. After(program', program, items)
  <2>1. PICK q, T : q = program /\ T = {items[d] : d \in DOMAIN items}
    OBVIOUS
  <2>2. q \in Seq(S) /\ items \in Seq(T)
    BY <1>13, <1>14, <2>1
  <2>3. After(q \o items, q, items)
    BY <2>2, Joined
  <2>4. program' = q \o items
    BY <1>1, <1>10, <2>1
  <2> QED
    BY <2>1, <2>3, <2>4
<1>16. DOMAIN items = DOMAIN DeclsOf(i) /\ \A d \in DOMAIN DeclsOf(i) : items[d] = Emits(i, d)
  BY <1>11
<1> QED
  BY <1>2, <1>6, <1>7, <1>8, <1>9, <1>15, <1>16 DEF After

\* A step that flattens nothing leaves the program as it is, and the tables it
\* was made from.
LEMMA QuietEmitted ==
    ASSUME Emitted, Grows, RewrittenStay, SettledTablesKept, program' = program,
           phase' = "done" =>
               /\ UNCHANGED modules
               /\ phase = "done" \/ \A i \in DOMAIN modules : modules[i].state = "Rewritten"
    PROVE  Emitted'
<1>1. ASSUME NEW i \in DOMAIN modules, modules[i].state = "Rewritten",
             NEW d \in DOMAIN DeclsOf(i)
      PROVE  Emits(i, d)' = Emits(i, d)
  <2>1. DeclsOf(i)' = DeclsOf(i)
    BY DEF Grows, DeclsOf
  <2>2. /\ modules'[i].visible = modules[i].visible
        /\ modules'[i].fallback = modules[i].fallback
    BY <1>1 DEF SettledTablesKept
  <2>3. RewriteDecl(modules'[i], DeclsOf(i)[d]) = RewriteDecl(modules[i], DeclsOf(i)[d])
    BY <2>2, EmitsStays DEF Grows
  <2>4. Emits(i, d)' = RewriteDecl(modules'[i], DeclsOf(i)[d])
    BY <2>1 DEF Emits, RewriteDecl, Rewritten, lookup_visible
  <2> QED
    BY <2>3, <2>4 DEF Emits
<1>2. \A i \in DOMAIN modules : i \in DOMAIN modules' /\ DeclsOf(i)' = DeclsOf(i)
  BY DEF Grows, DeclsOf
<1>3. ASSUME NEW j \in DOMAIN program
      PROVE  \E i \in DOMAIN modules' : \E d \in DOMAIN DeclsOf(i)' :
               modules'[i].state = "Rewritten" /\ program[j] = Emits(i, d)'
  <2>1. PICK i \in DOMAIN modules : \E d \in DOMAIN DeclsOf(i) :
          modules[i].state = "Rewritten" /\ program[j] = Emits(i, d)
    BY DEF Emitted
  <2>2. PICK d \in DOMAIN DeclsOf(i) :
          modules[i].state = "Rewritten" /\ program[j] = Emits(i, d)
    BY <2>1
  <2>3. i \in DOMAIN modules' /\ d \in DOMAIN DeclsOf(i)' /\ modules'[i].state = "Rewritten"
    BY <1>2, <2>2 DEF RewrittenStay
  <2> QED
    BY <1>1, <2>2, <2>3
<1>4. ASSUME NEW i \in DOMAIN modules', modules'[i].state = "Rewritten",
             NEW d \in DOMAIN DeclsOf(i)'
      PROVE  \E j \in DOMAIN program : program[j] = Emits(i, d)'
  <2>1. i \in DOMAIN modules /\ modules[i].state = "Rewritten"
    BY <1>4 DEF RewrittenStay
  <2>2. d \in DOMAIN DeclsOf(i)
    BY <1>2, <2>1
  <2>3. PICK j \in DOMAIN program : program[j] = Emits(i, d)
    BY <2>1, <2>2 DEF Emitted
  <2> QED
    BY <1>1, <2>1, <2>2, <2>3
<1>5. phase' = "done" => \A i \in DOMAIN modules' : modules'[i].state = "Rewritten"
  BY DEF Emitted
<1>6. \E S : program' \in Seq(S)
  BY DEF Emitted
<1> QED
  BY <1>3, <1>4, <1>5, <1>6 DEF Emitted

\* A flattened module adds what it declares.
LEMMA FlattenEmitted ==
    ASSUME Inv, Emitted, FlattenModule
    PROVE  Emitted'
<1>1. PICK i \in DOMAIN modules :
        /\ Grows /\ DOMAIN modules' = DOMAIN modules
        /\ \A k \in DOMAIN modules :
             /\ modules'[k].state = IF k = i THEN "Rewritten" ELSE modules[k].state
             /\ \A d \in DOMAIN DeclsOf(k) : Emits(k, d)' = Emits(k, d)
        /\ \E S : program' \in Seq(S)
        /\ \A j \in DOMAIN program : j \in DOMAIN program' /\ program'[j] = program[j]
        /\ \A d \in DOMAIN DeclsOf(i) :
             /\ Len(program) + d \in DOMAIN program'
             /\ program'[Len(program) + d] = Emits(i, d)
        /\ \A j \in DOMAIN program' :
             j \in DOMAIN program \/ \E d \in DOMAIN DeclsOf(i) : j = Len(program) + d
  BY FlattenedStep DEF Emitted
<1>2. phase' = "flatten"
  BY DEF FlattenModule
<1>3. \A k \in DOMAIN modules : DeclsOf(k)' = DeclsOf(k)
  BY <1>1 DEF Grows, DeclsOf
<1>4. ASSUME NEW j \in DOMAIN program'
      PROVE  \E k \in DOMAIN modules' : \E d \in DOMAIN DeclsOf(k)' :
               modules'[k].state = "Rewritten" /\ program'[j] = Emits(k, d)'
  <2>1. CASE j \in DOMAIN program
    <3>1. PICK k \in DOMAIN modules : \E d \in DOMAIN DeclsOf(k) :
            modules[k].state = "Rewritten" /\ program[j] = Emits(k, d)
      BY <2>1 DEF Emitted
    <3>2. PICK d \in DOMAIN DeclsOf(k) :
            modules[k].state = "Rewritten" /\ program[j] = Emits(k, d)
      BY <3>1
    <3>3. /\ k \in DOMAIN modules' /\ d \in DOMAIN DeclsOf(k)'
          /\ modules'[k].state = "Rewritten" /\ program'[j] = Emits(k, d)'
      BY <1>1, <1>3, <2>1, <3>2
    <3> QED
      BY <3>3
  <2>2. CASE j \notin DOMAIN program
    <3>1. PICK d \in DOMAIN DeclsOf(i) : j = Len(program) + d
      BY <1>1, <2>2
    <3>2. /\ i \in DOMAIN modules' /\ d \in DOMAIN DeclsOf(i)'
          /\ modules'[i].state = "Rewritten" /\ program'[j] = Emits(i, d)'
      BY <1>1, <1>3, <3>1
    <3> QED
      BY <3>2
  <2> QED
    BY <2>1, <2>2
<1>5. ASSUME NEW k \in DOMAIN modules', modules'[k].state = "Rewritten",
             NEW d \in DOMAIN DeclsOf(k)'
      PROVE  \E j \in DOMAIN program' : program'[j] = Emits(k, d)'
  <2>1. k \in DOMAIN modules /\ d \in DOMAIN DeclsOf(k) /\ Emits(k, d)' = Emits(k, d)
    BY <1>1, <1>3
  <2>2. CASE k = i
    BY <1>1, <2>1, <2>2
  <2>3. CASE k # i
    <3>1. modules[k].state = "Rewritten"
      BY <1>1, <1>5, <2>1, <2>3
    <3>2. PICK j \in DOMAIN program : program[j] = Emits(k, d)
      BY <2>1, <3>1 DEF Emitted
    <3> QED
      BY <1>1, <2>1, <3>2
  <2> QED
    BY <2>2, <2>3
<1> QED
  BY <1>1, <1>2, <1>4, <1>5 DEF Emitted

-----------------------------------------------------------------------------
(* The invariant.                                                           *)

Linked ==
    /\ Safe
    /\ FreshStart /\ Identified /\ Locals
    /\ Provenance
    /\ Emitted

\* Before the first module is loaded there is nothing to link.
LEMMA InitLinked == Init => Linked
<1> SUFFICES ASSUME Init PROVE Linked
  OBVIOUS
<1>1. DOMAIN modules = {} /\ DOMAIN program = {} /\ program \in Seq({}) /\ nextId = 1
      /\ modules = <<>> /\ phase = "root"
  BY DEF Init
<1> QED
  BY <1>1, InitSafe DEF Linked, FreshStart, Identified, Locals, Provenance, Emitted

\* Every step of the resolver keeps the invariant.
LEMMA NextLinked == Linked /\ [Next]_vars => Linked'
<1> SUFFICES ASSUME Linked, [Next]_vars PROVE Linked'
  OBVIOUS
<1>1. Safe' /\ SettledTablesKept
  BY NextSafe, NextFreezes DEF Linked
<1>2. FreshStart'
  BY PhaseSteps DEF Linked, FreshStart, vars
<1>3. CASE Keeps \/ Loads \/ Opens \/ Binds \/ Finishes
  <2>1. /\ Grows /\ Identified' /\ Locals' /\ Provenance' /\ RewrittenStay
        /\ program' = program
    BY <1>3, QuietStep DEF Linked
  <2>2. Emitted'
    BY <1>1, <2>1, PhaseSteps, QuietEmitted DEF Linked
  <2> QED
    BY <1>1, <1>2, <2>1, <2>2 DEF Linked
<1>4. CASE FlattenModule
  <2>1. PICK i \in DOMAIN modules :
          /\ Grows /\ DOMAIN modules' = DOMAIN modules /\ nextId' = nextId
          /\ \A k \in DOMAIN modules :
               /\ modules'[k].visible = modules[k].visible
               /\ modules'[k].fallback = modules[k].fallback
               /\ modules'[k].exports = modules[k].exports
    BY <1>4, FlattenedStep DEF Linked, Safe, Emitted
  <2>2. Identified' /\ Locals'
    BY <2>1, SameIdentity DEF Linked
  <2>3. Provenance'
    <3> SUFFICES ASSUME NEW k \in DOMAIN modules, NEW n \in Names, NEW ns \in Namespaces
                 PROVE  /\ MaySee(k, modules[k].visible[n][ns], ns)'
                        /\ MayShare(modules[k].fallback[n][ns], ns)'
                        /\ MayShare(modules[k].exports[n][ns], ns)'
      BY <2>1 DEF Provenance
    <3>1. PICK v, f, e : v = modules[k].visible[n][ns] /\ f = modules[k].fallback[n][ns]
                           /\ e = modules[k].exports[n][ns]
      OBVIOUS
    <3>2. MaySee(k, v, ns)' /\ MayShare(f, ns)' /\ MayShare(e, ns)'
      BY <2>1, <3>1, MayStays DEF Linked, Provenance
    <3> QED
      BY <2>1, <3>1, <3>2 DEF MaySee, MayShare
  <2>4. Emitted'
    BY <1>4, FlattenEmitted DEF Linked, Safe
  <2> QED
    BY <1>1, <1>2, <2>2, <2>3, <2>4 DEF Linked
<1> QED
  BY <1>3, <1>4, StepKinds DEF Linked

\* In every run the modules and the flattened program are linked.
LEMMA AlwaysLinked == Spec => []Linked
BY InitLinked, NextLinked, PTL DEF Spec

-----------------------------------------------------------------------------
(* Names.                                                                   *)

\* Mangled texts tell modules and items apart, and no source spells one.
MangledApart ==
    /\ \A id \in Nat, n \in Names : Prefixed(id, n) \notin Names
    /\ \A i, j \in Nat, m, n \in Names :
        Prefixed(i, m) = Prefixed(j, n) => i = j /\ m = n

\* The name of an emitted declaration.
LEMMA EmittedName ==
    ASSUME Inv, Locals, NEW i \in DOMAIN modules, NEW d \in DOMAIN DeclsOf(i)
    PROVE  /\ DeclsOf(i)[d] \in Decl /\ modules[i].id \in Nat
           /\ modules[i].local[DeclsOf(i)[d].name][DeclsOf(i)[d].ns].internal =
                [root |-> modules[i].isRoot, id |-> modules[i].id, name |-> DeclsOf(i)[d].name]
           /\ Emits(i, d).name =
                IF modules[i].isRoot THEN DeclsOf(i)[d].name
                ELSE Prefixed(modules[i].id, DeclsOf(i)[d].name)
           /\ Emits(i, d).ns = DeclsOf(i)[d].ns
           /\ Emits(i, d).from = modules[i].path
           /\ Emits(i, d).source = DeclsOf(i)[d]
<1>1. PICK decl, decls : decl = DeclsOf(i)[d] /\ decls = DeclsOf(i)
  OBVIOUS
<1>2. decls \in Seq(Decl) /\ d \in DOMAIN decls /\ decls[d] = decl
  BY <1>1 DEF DeclsOf, Inv, WellDefined, File
<1>3. decl \in Decl
  BY <1>2
<1>4. decl.name \in Names /\ decl.ns \in Namespaces /\ Declares(decls, decl.name, decl.ns)
  BY <1>2, <1>3 DEF Decl, Declares
<1>5. modules[i].local = collect_local_bindings(decls, modules[i].isRoot, modules[i].id)
  BY <1>1 DEF Locals, Own
<1>6. modules[i].local[decl.name][decl.ns] =
        [source |-> decl.name,
         internal |-> [root |-> modules[i].isRoot, id |-> modules[i].id, name |-> decl.name]]
  BY <1>4, <1>5 DEF collect_local_bindings, mangle_name
<1>7. modules[i].id \in Nat
  BY ImportsType DEF Module
<1>8. /\ Emits(i, d).name = InternalText(modules[i].local[decl.name][decl.ns].internal)
      /\ Emits(i, d).ns = decl.ns /\ Emits(i, d).from = modules[i].path
      /\ Emits(i, d).source = decl
  BY <1>1 DEF Emits, RewriteDecl
<1> QED
  BY <1>1, <1>3, <1>6, <1>7, <1>8 DEF InternalText

\* Two declarations that are emitted under one name are the same.
LEMMA SameName ==
    ASSUME MangledApart, Inv, Identified, Locals,
           NEW i \in DOMAIN modules, NEW j \in DOMAIN modules,
           NEW c \in DOMAIN DeclsOf(i), NEW d \in DOMAIN DeclsOf(j),
           Emits(i, c).name = Emits(j, d).name, Emits(i, c).ns = Emits(j, d).ns
    PROVE  i = j /\ c = d
<1>1. PICK a, b : a = DeclsOf(i)[c] /\ b = DeclsOf(j)[d]
  OBVIOUS
<1>2a. a \in Decl /\ b \in Decl /\ modules[i].id \in Nat /\ modules[j].id \in Nat
  <2>1. DeclsOf(i)[c] \in Decl /\ modules[i].id \in Nat
    BY EmittedName
  <2>2. DeclsOf(j)[d] \in Decl /\ modules[j].id \in Nat
    BY EmittedName
  <2> QED
    BY <1>1, <2>1, <2>2
<1>2b. a.name \in Names /\ b.name \in Names
  BY <1>2a DEF Decl
<1>2c. /\ Emits(i, c).name = IF modules[i].isRoot THEN a.name ELSE Prefixed(modules[i].id, a.name)
       /\ Emits(i, c).ns = a.ns
  BY <1>1, EmittedName
<1>2d. /\ Emits(j, d).name = IF modules[j].isRoot THEN b.name ELSE Prefixed(modules[j].id, b.name)
       /\ Emits(j, d).ns = b.ns
  BY <1>1, EmittedName
<1>2. /\ a.ns = b.ns
      /\ (IF modules[i].isRoot THEN a.name ELSE Prefixed(modules[i].id, a.name)) =
         (IF modules[j].isRoot THEN b.name ELSE Prefixed(modules[j].id, b.name))
  BY <1>2c, <1>2d
<1>3. (modules[i].isRoot <=> modules[i].id = 0) /\ (modules[j].isRoot <=> modules[j].id = 0)
  BY DEF Identified
<1>4. modules[i].id = modules[j].id /\ a.name = b.name
  BY <1>2a, <1>2b, <1>2, <1>3 DEF MangledApart
<1>5. i = j
  BY <1>4 DEF Identified
<1>6. ~DeclaresTwice(DeclsOf(i)) /\ DOMAIN DeclsOf(i) \subseteq Nat
  BY DEF Locals, DeclsOf, Inv, WellDefined, File
<1>7. c \in Nat /\ d \in Nat /\ ~(c < d) /\ ~(d < c)
  BY <1>1, <1>2, <1>4, <1>5, <1>6 DEF DeclaresTwice
<1> QED
  BY <1>5, <1>7

\* Distinct names stay distinct.
LEMMA NextDistinct ==
    ASSUME MangledApart, Linked, FlattenedNamesDistinct, [Next]_vars
    PROVE  FlattenedNamesDistinct'
<1>1. CASE Keeps \/ Loads \/ Opens \/ Binds \/ Finishes
  BY <1>1, QuietStep DEF Linked, FlattenedNamesDistinct
<1>2. CASE FlattenModule
  <2>1. PICK i \in DOMAIN modules :
          /\ modules[i].state # "Rewritten"
          /\ \A j \in DOMAIN program : j \in DOMAIN program' /\ program'[j] = program[j]
          /\ \A d \in DOMAIN DeclsOf(i) :
               /\ Len(program) + d \in DOMAIN program'
               /\ program'[Len(program) + d] = Emits(i, d)
          /\ \A j \in DOMAIN program' :
               j \in DOMAIN program \/ \E d \in DOMAIN DeclsOf(i) : j = Len(program) + d
    BY <1>2, FlattenedStep DEF Linked, Safe, Emitted
  <2>2. Inv /\ Identified /\ Locals
    BY DEF Linked, Safe
  <2>3. ASSUME NEW j \in DOMAIN program, NEW d \in DOMAIN DeclsOf(i),
               program[j].name = Emits(i, d).name, program[j].ns = Emits(i, d).ns
        PROVE  FALSE
    <3>1. PICK k \in DOMAIN modules : \E c \in DOMAIN DeclsOf(k) :
            modules[k].state = "Rewritten" /\ program[j] = Emits(k, c)
      BY DEF Linked, Emitted
    <3>2. PICK c \in DOMAIN DeclsOf(k) :
            modules[k].state = "Rewritten" /\ program[j] = Emits(k, c)
      BY <3>1
    <3> QED
      BY <2>1, <2>2, <2>3, <3>2, SameName
  <2> SUFFICES ASSUME NEW j \in DOMAIN program', NEW k \in DOMAIN program',
                      program'[j].name = program'[k].name, program'[j].ns = program'[k].ns
               PROVE  j = k
    BY DEF FlattenedNamesDistinct
  <2>4. CASE j \in DOMAIN program /\ k \in DOMAIN program
    BY <2>1, <2>4 DEF FlattenedNamesDistinct
  <2>5. CASE j \notin DOMAIN program /\ k \in DOMAIN program
    <3>1. PICK d \in DOMAIN DeclsOf(i) : j = Len(program) + d
      BY <2>1, <2>5
    <3> QED
      BY <2>1, <2>3, <2>5, <3>1
  <2>6. CASE j \in DOMAIN program /\ k \notin DOMAIN program
    <3>1. PICK d \in DOMAIN DeclsOf(i) : k = Len(program) + d
      BY <2>1, <2>6
    <3> QED
      BY <2>1, <2>3, <2>6, <3>1
  <2>7. CASE j \notin DOMAIN program /\ k \notin DOMAIN program
    <3>1. PICK c \in DOMAIN DeclsOf(i), d \in DOMAIN DeclsOf(i) :
            j = Len(program) + c /\ k = Len(program) + d
      BY <2>1, <2>7
    <3>2. Emits(i, c).name = Emits(i, d).name /\ Emits(i, c).ns = Emits(i, d).ns
      BY <2>1, <3>1
    <3> QED
      BY <2>2, <3>1, <3>2, SameName
  <2> QED
    BY <2>4, <2>5, <2>6, <2>7
<1> QED
  BY <1>1, <1>2, StepKinds DEF Linked

\* Unless a source spells a mangled name, no two items of the flattened program
\* share a name and a namespace: mangle_name tells modules apart by
\* next_module_id_ and the root by leaving its names alone, and each module
\* declares a name once.
THEOREM NamesStayDistinct ==
    ASSUME MangledApart
    PROVE  Spec => []FlattenedNamesDistinct
<1>1. Init => FlattenedNamesDistinct
  BY DEF Init, FlattenedNamesDistinct
<1>2. Linked /\ FlattenedNamesDistinct /\ [Next]_vars => FlattenedNamesDistinct'
  BY NextDistinct
<1> QED
  BY <1>1, <1>2, AlwaysLinked, PTL DEF Spec

-----------------------------------------------------------------------------
(* References.                                                              *)

\* What a module finds for a name it may see.
LEMMA FoundMaySee ==
    ASSUME Provenance, NEW i \in DOMAIN modules, NEW n \in Names, NEW ns \in Namespaces
    PROVE  MaySee(i, lookup_visible(modules[i], n)[ns], ns)
BY DEF Provenance, lookup_visible, merge_binding_sets, MaySee, MayShare

\* The binding of a declared item is emitted under its name.
LEMMA BindingEmitted ==
    ASSUME Linked, phase = "done", NEW k \in DOMAIN modules, NEW d \in DOMAIN DeclsOf(k)
    PROVE  \E j \in DOMAIN program :
             /\ program[j].name =
                  InternalText(modules[k].local[DeclsOf(k)[d].name][DeclsOf(k)[d].ns].internal)
             /\ program[j].ns = DeclsOf(k)[d].ns
             /\ program[j].source = DeclsOf(k)[d]
             /\ program[j].from = modules[k].path
<1>1. PICK j \in DOMAIN program : program[j] = Emits(k, d)
  BY DEF Linked, Emitted
<1> QED
  BY <1>1 DEF Emits, RewriteDecl

\* Every rewritten reference of the finished program names an item of it, and
\* that item is public or of the same file: neither re-exports, aliases nor the
\* prelude fallback leak a private item, because every table is filled from
\* exports, and exports start from the `pub' declarations.
THEOREM ReferencesAreSound == Spec => []ReferencesSound
<1>1. Linked => ReferencesSound
  <2> SUFFICES ASSUME Linked, phase = "done", NEW i \in DOMAIN program,
                      NEW use \in DOMAIN program[i].refs, NEW m \in DOMAIN modules,
                      modules[m].path = program[i].from,
                      lookup_visible(modules[m], use[1])[use[2]] # NoBinding
               PROVE  \E j \in DOMAIN program :
                        /\ program[j].name = program[i].refs[use]
                        /\ program[j].ns = use[2]
                        /\ program[j].source.pub \/ program[j].from = program[i].from
    BY DEF ReferencesSound
  <2>1. PICK k \in DOMAIN modules : \E d \in DOMAIN DeclsOf(k) : program[i] = Emits(k, d)
    BY DEF Linked, Emitted
  <2>2. PICK d \in DOMAIN DeclsOf(k) : program[i] = Emits(k, d)
    BY <2>1
  <2>3. /\ DeclsOf(k)[d] \in Decl /\ program[i].from = modules[k].path
        /\ program[i].refs = [u \in DeclsOf(k)[d].uses |-> Rewritten(modules[k], u)]
    <3>1. DeclsOf(k)[d] \in Decl
      BY EmittedName DEF Linked, Safe
    <3> QED
      BY <2>2, <3>1 DEF Emits, RewriteDecl
  <2>4. m = k
    BY <2>3 DEF Linked, Safe, Identity
  <2>5. use \in Keys /\ program[i].refs[use] = Rewritten(modules[k], use)
    BY <2>3 DEF Decl
  <2>6. use[1] \in Names /\ use[2] \in Namespaces
    BY <2>5 DEF Keys
  <2>7. PICK found, n, ns :
          found = lookup_visible(modules[k], use[1])[use[2]] /\ n = use[1] /\ ns = use[2]
    OBVIOUS
  <2>8. found # NoBinding /\ program[i].refs[use] = InternalText(found.internal)
    BY <2>4, <2>5, <2>7 DEF Rewritten
  <2>9. MaySee(k, found, ns)
    BY <2>6, <2>7, FoundMaySee DEF Linked
  <2>10. CASE IsPublic(found, ns)
    <3>1. PICK l \in DOMAIN modules, o \in Names :
            DeclaresPublic(DeclsOf(l), o, ns) /\ modules[l].local[o][ns] = found
      BY <2>10 DEF IsPublic
    <3>2. PICK e \in DOMAIN DeclsOf(l) :
            DeclsOf(l)[e].name = o /\ DeclsOf(l)[e].ns = ns /\ DeclsOf(l)[e].pub
      BY <3>1 DEF DeclaresPublic
    <3>3. PICK j \in DOMAIN program :
            /\ program[j].name = InternalText(found.internal)
            /\ program[j].ns = ns /\ program[j].source.pub
      BY <3>1, <3>2, BindingEmitted
    <3> QED
      BY <2>7, <2>8, <3>3
  <2>11. CASE \E o \in Names : modules[k].local[o][ns] = found
    <3>1. PICK o \in Names : modules[k].local[o][ns] = found
      BY <2>11
    <3>2. modules[k].local =
            collect_local_bindings(DeclsOf(k), modules[k].isRoot, modules[k].id)
      BY DEF Linked, Locals, Own
    <3>3. Declares(DeclsOf(k), o, ns)
      BY <2>6, <2>7, <2>8, <3>1, <3>2 DEF collect_local_bindings
    <3>4. PICK e \in DOMAIN DeclsOf(k) : DeclsOf(k)[e].name = o /\ DeclsOf(k)[e].ns = ns
      BY <3>3 DEF Declares
    <3>5. PICK j \in DOMAIN program :
            /\ program[j].name = InternalText(found.internal)
            /\ program[j].ns = ns /\ program[j].from = modules[k].path
      BY <3>1, <3>4, BindingEmitted
    <3> QED
      BY <2>3, <2>7, <2>8, <3>5
  <2> QED
    BY <2>8, <2>9, <2>10, <2>11 DEF MaySee
<1> QED
  BY <1>1, AlwaysLinked, PTL

=============================================================================
