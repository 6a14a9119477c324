--------------------------- MODULE ModuleResolver ---------------------------
(***************************************************************************)
(* The module resolver of compiler/cstc_module: it loads the root module   *)
(* and the std prelude, resolves imports depth first, and flattens the     *)
(* loaded modules into one program whose items carry crate-wide names.     *)
(*                                                                         *)
(* The recursion resolve_module -> resolve_imports -> resolve_module is    *)
(* an explicit stack: a frame is one activation of resolve_module.         *)
(***************************************************************************)
EXTENDS Naturals, Sequences

CONSTANTS
    Paths,          \* canonical file paths
    Root, Prelude,  \* the input file and <std>/prelude.cst
    Names,          \* identifiers of the source
    FileSystems,    \* what the disk may hold: functions from Paths to files
    Unloadable,     \* a file that is missing, unreadable or does not parse;
                    \* an import path without a canonical form fails alike
    NoBinding,      \* an empty std::optional<Binding>
    Prefixed(_, _)  \* the text "__cst_mod_<id>__<name>"

Namespaces == {"type", "value"}
Keys == Names \X Namespaces

Decl == [name : Names, ns : Namespaces, pub : BOOLEAN, uses : SUBSET Keys]
ImportItem == [name : Names, as : Names]
Import == [from : Paths, items : Seq(ImportItem), pub : BOOLEAN]
File == [imports : Seq(Import), decls : Seq(Decl)]

\* The text of a mangled name is a function of these three values.
MangledName == [root : BOOLEAN, id : Nat, name : Names]
Binding == [source : Names, internal : MangledName]
BindingSet == [Namespaces -> Binding \cup {NoBinding}]
Bindings == [Names -> BindingSet]

ASSUME PathsAssumption == Root \in Paths /\ Prelude \in Paths
ASSUME FilesAssumption ==
    \A fs \in FileSystems : fs \in [Paths -> File \cup {Unloadable}]
ASSUME SentinelAssumption == NoBinding \notin Binding /\ Unloadable \notin File

VARIABLES
    files,    \* the disk; the compiler only reads it
    modules,  \* modules_
    nextId,   \* next_module_id_
    stack,    \* activations of resolve_module, innermost last
    phase,    \* where run() is
    error,    \* the ModuleError run() returns, "none" while there is none
    program   \* the flattened crate-wide program

vars == <<files, modules, nextId, stack, phase, error, program>>

ResolveStates == {"Loaded", "Resolving", "Resolved", "Rewritten"}
Errors == {"load", "cyclic", "private", "missing", "duplicate"}
Phases == {"root", "prelude", "call", "resolve", "flatten", "done", "failed"}

EmptyBindings == [n \in Names |-> [ns \in Namespaces |-> NoBinding]]

-----------------------------------------------------------------------------
(***************************************************************************)
(* Binding tables                                                          *)
(***************************************************************************)

\* (bug) the duplicate check looks at functions only
Clashes_ValuesOnly(bindings, name, incoming) ==
    incoming["value"] # NoBinding /\ bindings[name]["value"] # NoBinding

\* insert_binding_set fails when a namespace is already taken
Clashes(bindings, name, incoming) ==
    \E ns \in Namespaces :
        incoming[ns] # NoBinding /\ bindings[name][ns] # NoBinding

insert_binding_set(bindings, name, incoming) ==
    [bindings EXCEPT ![name] = [ns \in Namespaces |->
        IF incoming[ns] # NoBinding THEN incoming[ns] ELSE bindings[name][ns]]]

merge_binding_sets(visible, fallback) ==
    [ns \in Namespaces |->
        IF visible[ns] # NoBinding THEN visible[ns] ELSE fallback[ns]]

IsEmpty(set) == \A ns \in Namespaces : set[ns] = NoBinding

\* (bug) the module id is left out of the mangled name
mangle_name_NoId(isRoot, id, name) == [root |-> isRoot, id |-> 1, name |-> name]

mangle_name(isRoot, id, name) == [root |-> isRoot, id |-> id, name |-> name]

InternalText(mangled) ==
    IF mangled.root THEN mangled.name ELSE Prefixed(mangled.id, mangled.name)

Declares(decls, name, ns) ==
    \E i \in DOMAIN decls : decls[i].name = name /\ decls[i].ns = ns

DeclaresTwice(decls) ==
    \E i, j \in DOMAIN decls :
        i < j /\ decls[i].name = decls[j].name /\ decls[i].ns = decls[j].ns

collect_local_bindings(decls, isRoot, id) ==
    [n \in Names |-> [ns \in Namespaces |->
        IF Declares(decls, n, ns)
        THEN [source |-> n, internal |-> mangle_name(isRoot, id, n)]
        ELSE NoBinding]]

DeclaresPublic(decls, name, ns) ==
    \E i \in DOMAIN decls :
        decls[i].name = name /\ decls[i].ns = ns /\ decls[i].pub

\* (bug) `pub' is ignored
PublicLocals_All(m) == m.local

\* What add_local_bindings_to_scope puts into exports: the pub declarations.
PublicLocals(m) ==
    [n \in Names |-> [ns \in Namespaces |->
        IF DeclaresPublic(files[m.path].decls, n, ns)
        THEN m.local[n][ns] ELSE NoBinding]]

-----------------------------------------------------------------------------
(***************************************************************************)
(* Loading                                                                 *)
(***************************************************************************)

Module == [path : Paths, id : Nat, isRoot : BOOLEAN, isPrelude : BOOLEAN,
           state : ResolveStates, local : Bindings, visible : Bindings,
           fallback : Bindings, exports : Bindings]

Frame == [module : Nat, stage : {"load", "call", "bind", "fallback", "use"},
          import : Nat, item : Nat, held : Nat]

IsLoaded(p) == \E i \in DOMAIN modules : modules[i].path = p
IndexOf(p) == CHOOSE i \in DOMAIN modules : modules[i].path = p

LoadFails(p) ==
    ~IsLoaded(p) /\ (files[p] = Unloadable \/ DeclaresTwice(files[p].decls))

LoadError(p) == IF files[p] = Unloadable THEN "load" ELSE "duplicate"

NewModule(p, isRoot, isPrelude) ==
    LET id == IF isRoot THEN 0 ELSE nextId
    IN  [path |-> p, id |-> id, isRoot |-> isRoot, isPrelude |-> isPrelude,
         state |-> "Loaded",
         local |-> collect_local_bindings(files[p].decls, isRoot, id),
         visible |-> EmptyBindings, fallback |-> EmptyBindings,
         exports |-> EmptyBindings]

\* A second load of a file only adds to its flags.
Flagged(m, isRoot, isPrelude) ==
    LET root    == m.isRoot \/ isRoot
        prelude == m.isPrelude \/ isPrelude
    IN  [m EXCEPT !.isRoot = root, !.isPrelude = prelude]

load_module(p, isRoot, isPrelude) ==
    IF IsLoaded(p)
    THEN /\ modules' = [modules EXCEPT
                ![IndexOf(p)] = Flagged(modules[IndexOf(p)], isRoot, isPrelude)]
         /\ UNCHANGED nextId
    ELSE /\ modules' = Append(modules, NewModule(p, isRoot, isPrelude))
         /\ nextId' = IF isRoot THEN nextId ELSE nextId + 1

\* (bug) the error is dropped on the way up
Fail_Silent(kind) ==
    /\ phase' = "failed"
    /\ UNCHANGED <<files, modules, nextId, stack, error, program>>

Fail(kind) ==
    /\ phase' = "failed"
    /\ error' = kind
    /\ UNCHANGED <<files, modules, nextId, stack, program>>

LoadRoot ==
    /\ phase = "root"
    /\ IF LoadFails(Root)
       THEN Fail(LoadError(Root))
       ELSE /\ load_module(Root, TRUE, Root = Prelude)
            /\ phase' = "prelude"
            /\ UNCHANGED <<files, stack, error, program>>

LoadPrelude ==
    /\ phase = "prelude"
    /\ IF Root # Prelude /\ LoadFails(Prelude)
       THEN Fail(LoadError(Prelude))
       ELSE /\ IF Root = Prelude
               THEN UNCHANGED <<modules, nextId>>
               ELSE load_module(Prelude, FALSE, TRUE)
            /\ phase' = "call"
            /\ UNCHANGED <<files, stack, error, program>>

-----------------------------------------------------------------------------
(***************************************************************************)
(* Resolution                                                              *)
(***************************************************************************)

Top == stack[Len(stack)]
ReplaceTop(frame) == [stack EXCEPT ![Len(stack)] = frame]
Pop == SubSeq(stack, 1, Len(stack) - 1)
ImportsOf(i) == files[modules[i].path].imports
CurrentImport == ImportsOf(Top.module)[Top.import]

StartFrame(i) ==
    [module |-> i, import |-> 1, item |-> 1, held |-> 0,
     stage |-> IF ImportsOf(i) = <<>> THEN "fallback" ELSE "load"]

\* (bugs) the Resolving mark is forgotten; the module is marked done on entry;
\* the module's own items are not brought into scope
Opened_Unmarked(m) ==
    [m EXCEPT !.visible = m.local, !.fallback = EmptyBindings, !.exports = PublicLocals(m)]
Opened_Settled(m) ==
    [m EXCEPT !.state = "Resolved", !.visible = m.local,
              !.fallback = EmptyBindings, !.exports = PublicLocals(m)]
Opened_NoLocals(m) ==
    [m EXCEPT !.state = "Resolving", !.visible = EmptyBindings,
              !.fallback = EmptyBindings, !.exports = PublicLocals(m)]

\* On entry resolve_module rebuilds the module's tables from its own items.
Opened(m) ==
    [m EXCEPT !.state = "Resolving", !.visible = m.local,
              !.fallback = EmptyBindings, !.exports = PublicLocals(m)]

\* (bug) the implicit import of a prelude still being resolved is let through
Settled_PreludeEarly(i) ==
    \/ modules[i].state \in {"Resolved", "Rewritten"}
    \/ modules[i].isPrelude /\ modules[i].state = "Resolving"

Settled(i) == modules[i].state \in {"Resolved", "Rewritten"}

\* (bug) the Resolving mark is forgotten, and a cycle of imports is resolved
\* over and over until the call stack, here of a dozen frames, is used up
EnterModule_Unmarked(i, frames) ==
    /\ Len(frames) < 12
    /\ modules' = [modules EXCEPT ![i] = Opened_Unmarked(modules[i])]
    /\ stack' = Append(frames, StartFrame(i))
    /\ phase' = "resolve"
    /\ UNCHANGED <<files, nextId, error, program>>

EnterModule(i, frames) ==
    /\ modules' = [modules EXCEPT ![i] = Opened(modules[i])]
    /\ stack' = Append(frames, StartFrame(i))
    /\ phase' = "resolve"
    /\ UNCHANGED <<files, nextId, error, program>>

\* resolve_module(i), called by the last of `frames': its two guards, its body
resolve_module(i, frames) ==
    \/ /\ Settled(i)
       /\ stack' = frames
       /\ UNCHANGED <<files, modules, nextId, phase, error, program>>
    \/ /\ modules[i].state = "Resolving"
       /\ Fail("cyclic")
    \/ /\ modules[i].state = "Loaded"
       /\ EnterModule(i, frames)

ResolveRoot ==
    /\ phase = "call"
    /\ resolve_module(IndexOf(Root), <<>>)

\* load_import_target
LoadImport ==
    /\ phase = "resolve" /\ stack # <<>> /\ Top.stage = "load"
    /\ LET p == CurrentImport.from
       IN  IF LoadFails(p)
           THEN Fail(LoadError(p))
           ELSE /\ load_module(p, FALSE, p = Prelude)
                /\ stack' = ReplaceTop([Top EXCEPT !.stage = "call"])
                /\ UNCHANGED <<files, phase, error, program>>

ResolveImport ==
    /\ phase = "resolve" /\ stack # <<>> /\ Top.stage = "call"
    /\ resolve_module(IndexOf(CurrentImport.from),
                      ReplaceTop([Top EXCEPT !.stage = "bind"]))

\* The visible name is bound, and exported again by a `pub import'.
Bound(m, as, exported, pub) ==
    [m EXCEPT !.visible = insert_binding_set(m.visible, as, exported),
              !.exports = IF pub THEN insert_binding_set(m.exports, as, exported)
                          ELSE m.exports]

\* One item of the current import: it must be public, and its name free.
BindImportItem ==
    /\ phase = "resolve" /\ stack # <<>> /\ Top.stage = "bind"
    /\ Top.item <= Len(CurrentImport.items)
    /\ LET target   == modules[IndexOf(CurrentImport.from)]
           wanted   == CurrentImport.items[Top.item]
           exported == target.exports[wanted.name]
           module   == modules[Top.module]
       IN  IF IsEmpty(exported)
           THEN Fail(IF IsEmpty(target.visible[wanted.name])
                     THEN "missing" ELSE "private")
           ELSE IF \/ Clashes(module.visible, wanted.as, exported)
                   \/ CurrentImport.pub /\ Clashes(module.exports, wanted.as, exported)
           THEN Fail("duplicate")
           ELSE /\ modules' = [modules EXCEPT ![Top.module] =
                     Bound(module, wanted.as, exported, CurrentImport.pub)]
                /\ stack' = ReplaceTop([Top EXCEPT !.item = @ + 1])
                /\ UNCHANGED <<files, nextId, phase, error, program>>

NextImport ==
    /\ phase = "resolve" /\ stack # <<>> /\ Top.stage = "bind"
    /\ Top.item > Len(CurrentImport.items)
    /\ stack' = ReplaceTop([Top EXCEPT
            !.item = 1,
            !.import = IF Top.import < Len(ImportsOf(Top.module)) THEN @ + 1 ELSE @,
            !.stage = IF Top.import < Len(ImportsOf(Top.module))
                      THEN "load" ELSE "fallback"])
    /\ UNCHANGED <<files, modules, nextId, phase, error, program>>

\* add_implicit_prelude_fallback up to its call of resolve_module; `held' is
\* the length modules_ had when the ModuleInfo& parameter was bound to it.
ResolvePrelude ==
    /\ phase = "resolve" /\ stack # <<>> /\ Top.stage = "fallback"
    /\ LET back == ReplaceTop([Top EXCEPT !.stage = "use", !.held = Len(modules)])
       IN  IF modules[Top.module].isPrelude
           THEN /\ stack' = back
                /\ UNCHANGED <<files, modules, nextId, phase, error, program>>
           ELSE resolve_module(IndexOf(Prelude), back)

\* The rest of add_implicit_prelude_fallback and of resolve_module
FinishModule ==
    /\ phase = "resolve" /\ stack # <<>> /\ Top.stage = "use"
    /\ modules' = [modules EXCEPT
            ![Top.module].fallback = IF modules[Top.module].isPrelude THEN @
                                     ELSE modules[IndexOf(Prelude)].exports,
            ![Top.module].state = "Resolved"]
    /\ stack' = Pop
    /\ UNCHANGED <<files, nextId, phase, error, program>>

ResolutionDone ==
    /\ phase = "resolve" /\ stack = <<>>
    /\ phase' = "flatten"
    /\ UNCHANGED <<files, modules, nextId, stack, error, program>>

-----------------------------------------------------------------------------
(***************************************************************************)
(* Flattening                                                              *)
(***************************************************************************)

\* AstRewriter::lookup_visible
lookup_visible(m, name) == merge_binding_sets(m.visible[name], m.fallback[name])

\* What a free use of a name becomes; a name nobody binds is left alone.
Rewritten(m, use) ==
    LET found == lookup_visible(m, use[1])[use[2]]
    IN  IF found = NoBinding THEN use[1] ELSE InternalText(found.internal)

RewriteDecl(m, d) ==
    [name |-> InternalText(m.local[d.name][d.ns].internal), ns |-> d.ns,
     refs |-> [use \in d.uses |-> Rewritten(m, use)],
     from |-> m.path, source |-> d]

rewrite_module(m) ==
    LET decls == files[m.path].decls
    IN  [i \in DOMAIN decls |-> RewriteDecl(m, decls[i])]

\* The order of flatten_program: the prelude, the others, the root.
FlattenTurn(i) ==
    LET first == IndexOf(Prelude)
        last  == IndexOf(Root)
    IN  /\ modules[i].state # "Rewritten"
        /\ i = first \/ modules[first].state = "Rewritten"
        /\ i \in {first, last}
              \/ \A j \in 1 .. i - 1 :
                    j \in {first, last} \/ modules[j].state = "Rewritten"
        /\ i = last /\ last # first =>
              \A j \in DOMAIN modules \ {last} : modules[j].state = "Rewritten"

FlattenModule ==
    /\ phase = "flatten"
    /\ \E i \in DOMAIN modules :
        /\ FlattenTurn(i)
        /\ program' = program \o rewrite_module(modules[i])
        /\ modules' = [modules EXCEPT ![i].state = "Rewritten"]
    /\ UNCHANGED <<files, nextId, stack, phase, error>>

Finish ==
    /\ phase = "flatten"
    /\ \A i \in DOMAIN modules : modules[i].state = "Rewritten"
    /\ phase' = "done"
    /\ UNCHANGED <<files, modules, nextId, stack, error, program>>

Init ==
    /\ files \in FileSystems
    /\ modules = <<>> /\ nextId = 1 /\ stack = <<>>
    /\ phase = "root" /\ error = "none" /\ program = <<>>

Next ==
    \/ LoadRoot \/ LoadPrelude \/ ResolveRoot
    \/ LoadImport \/ ResolveImport \/ BindImportItem \/ NextImport
    \/ ResolvePrelude \/ FinishModule \/ ResolutionDone
    \/ FlattenModule \/ Finish

Spec == Init /\ [][Next]_vars /\ WF_vars(Next)

-----------------------------------------------------------------------------
(***************************************************************************)
(* Properties                                                              *)
(***************************************************************************)

\* Every variable has its type, and run() reports an error exactly when it
\* stopped early.
TypeOK ==
    /\ files \in FileSystems
    /\ modules \in Seq(Module)
    /\ nextId \in Nat
    /\ stack \in Seq(Frame)
    /\ phase \in Phases
    /\ error \in Errors \cup {"none"}
    /\ phase = "failed" <=> error # "none"

\* The Resolving marks are exactly the activations of resolve_module, each
\* module at most once: the mark is what cuts the recursion at a cycle, so a
\* stale or missing mark is a false cycle or an endless recursion.
StackIsResolving ==
    /\ \A k \in DOMAIN stack :
        /\ stack[k].module \in DOMAIN modules
        /\ modules[stack[k].module].state = "Resolving"
        /\ \A l \in DOMAIN stack : stack[l].module = stack[k].module => l = k
    /\ \A i \in DOMAIN modules :
        modules[i].state = "Resolving" => \E k \in DOMAIN stack : stack[k].module = i

\* A module exports under a name only what it can see itself under that name:
\* the second insert_binding_set of resolve_imports can never be the one that
\* reports the duplicate.
ExportsVisible ==
    \A i \in DOMAIN modules, n \in Names, ns \in Namespaces :
        modules[i].exports[n][ns] # NoBinding =>
            modules[i].exports[n][ns] = modules[i].visible[n][ns]

SettledTablesKept ==
    \A i \in DOMAIN modules :
        modules[i].state \in {"Resolved", "Rewritten"} =>
            /\ modules'[i].visible = modules[i].visible
            /\ modules'[i].fallback = modules[i].fallback
            /\ modules'[i].exports = modules[i].exports

\* Importers copy bindings out of a Resolved module, so its tables are final.
ResolvedFrozen == [][SettledTablesKept]_vars

\* add_implicit_prelude_fallback holds a ModuleInfo& into modules_ across the
\* call that resolves the prelude: modules_ must not have grown (reallocated)
\* when it assigns through that reference.
ReferenceStable ==
    phase = "resolve" /\ stack # <<>> =>
        (Top.stage = "use" /\ ~modules[Top.module].isPrelude
            => Top.held = Len(modules))

\* No two items of the flattened program share a name and a namespace, so
\* private helpers of different modules can coexist.
FlattenedNamesDistinct ==
    \A i, j \in DOMAIN program :
        program[i].name = program[j].name /\ program[i].ns = program[j].ns => i = j

\* A rewritten reference names an item of the flattened program, and that item
\* is public or lives in the file that mentions it: neither re-exports, aliases
\* nor the prelude fallback leak a private item.
ReferencesSound ==
    phase = "done" =>
        \A i \in DOMAIN program : \A use \in DOMAIN program[i].refs :
            \A m \in DOMAIN modules :
                modules[m].path = program[i].from
                    /\ lookup_visible(modules[m], use[1])[use[2]] # NoBinding =>
                \E j \in DOMAIN program :
                    /\ program[j].name = program[i].refs[use]
                    /\ program[j].ns = use[2]
                    /\ program[j].source.pub \/ program[j].from = program[i].from

\* Import resolution ends, with a program or with an error.
Terminates == <>(phase \in {"done", "failed"})

=============================================================================
