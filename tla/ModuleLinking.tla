---------------------------- MODULE ModuleLinking ----------------------------
(***************************************************************************)
(* What module resolution promises, said without a resolver: a file system *)
(* is linked when every file the root reaches loads, the import graph with *)
(* its implicit prelude edges has no cycle, every imported item is public  *)
(* where it comes from, and no file introduces a name twice.  Linking      *)
(* gives every file the scope the import declarations describe.            *)
(***************************************************************************)
EXTENDS Naturals, FiniteSets

CONSTANTS Paths, Root, Prelude, Names, FileSystems, Unloadable

VARIABLES files, verdict, scopes

\* What a file introduces: its declarations, and the items of its imports.
DeclsOf(fs, p) == {fs[p].decls[i] : i \in DOMAIN fs[p].decls}

ImportsIn(fs, p) ==
    UNION {{[from |-> fs[p].imports[i].from, pub |-> fs[p].imports[i].pub,
             name |-> fs[p].imports[i].items[j].name,
             as |-> fs[p].imports[i].items[j].as, at |-> <<i, j>>] :
                j \in DOMAIN fs[p].imports[i].items} : i \in DOMAIN fs[p].imports}

\* The import graph; every other file imports the prelude implicitly.
Targets(fs, p) ==
    {fs[p].imports[i].from : i \in DOMAIN fs[p].imports}
        \cup (IF p = Prelude THEN {} ELSE {Prelude})

\* The files p reaches, p among them: the least set that holds p and with
\* every file that loads the ones it imports.
Closed(fs, S) == \A q \in S : fs[q] # Unloadable => Targets(fs, q) \subseteq S

Within(fs, p) == {q \in Paths : \A S \in SUBSET Paths : p \in S /\ Closed(fs, S) => q \in S}

Loads(fs, p) ==
    /\ fs[p] # Unloadable
    /\ \A i, j \in DOMAIN fs[p].decls :
        fs[p].decls[i].name = fs[p].decls[j].name
            /\ fs[p].decls[i].ns = fs[p].decls[j].ns => i = j

OnCycle(fs, p) == \E q \in Targets(fs, p) : p \in Within(fs, q)

\* The public items of every file: <<file, name, kind, file of the declaration,
\* name in that file>>, re-exports followed as deep as the graph allows.
Declared(fs, ps) ==
    UNION {{<<p, d.name, d.ns, p, d.name>> : d \in {e \in DeclsOf(fs, p) : e.pub}} : p \in ps}

Reexported(fs, ps, known) ==
    UNION {UNION {{<<p, imp.as, t[3], t[4], t[5]>> :
                        t \in {u \in known : u[1] = imp.from /\ u[2] = imp.name}}
                    : imp \in {im \in ImportsIn(fs, p) : im.pub}} : p \in ps}

PublicWithin(fs, ps) ==
    LET level[n \in Nat] ==
            Declared(fs, ps) \cup IF n = 0 THEN {} ELSE Reexported(fs, ps, level[n - 1])
    IN  level

Public(fs, ps) == PublicWithin(fs, ps)[Cardinality(Paths)]

\* The names a file introduces, one element per place that introduces one.
Introduced(fs, ps, p) ==
    {<<d.name, d.ns, p, d.name, <<0, 0>>>> : d \in DeclsOf(fs, p)}
    \cup UNION {{<<imp.as, t[3], t[4], t[5], imp.at>> :
                    t \in {u \in Public(fs, ps) : u[1] = imp.from /\ u[2] = imp.name}}
                : imp \in ImportsIn(fs, p)}

\* The files of a program.
Reached(fs) == Within(fs, Root) \cup {Prelude}

Linkable(fs) ==
    LET ps == Reached(fs)
    IN  /\ \A p \in ps : Loads(fs, p)
        /\ \A p \in ps : ~OnCycle(fs, p)
        /\ \A p \in ps : \A imp \in ImportsIn(fs, p) :
                \E t \in Public(fs, ps) : t[1] = imp.from /\ t[2] = imp.name
        /\ \A p \in ps : \A s, t \in Introduced(fs, ps, p) :
                s[1] = t[1] /\ s[2] = t[2] => s = t

\* A file sees what it introduces, and through that what the prelude exports.
ScopesOf(fs) ==
    LET ps == Reached(fs)
        own(p) == {<<p, <<t[1], t[2]>>, t[3], t[4]>> : t \in Introduced(fs, ps, p)}
        implicit(p) ==
            {<<p, <<t[2], t[3]>>, t[4], t[5]>> :
                t \in {u \in Public(fs, ps) : u[1] = Prelude
                        /\ ~\E o \in own(p) : o[2] = <<u[2], u[3]>>}}
    IN  UNION {own(p) \cup (IF p = Prelude THEN {} ELSE implicit(p)) : p \in ps}

Init == files \in FileSystems /\ verdict = "pending" /\ scopes = {}

Link ==
    /\ verdict = "pending" /\ Linkable(files)
    /\ verdict' = "linked" /\ scopes' = ScopesOf(files)
    /\ UNCHANGED files

Reject ==
    /\ verdict = "pending" /\ ~Linkable(files)
    /\ verdict' = "rejected"
    /\ UNCHANGED <<files, scopes>>

Next == Link \/ Reject

\* What is decided, and that it is decided.
Decides == Init /\ [][Next]_<<files, verdict, scopes>>
Spec == Decides /\ WF_<<files, verdict, scopes>>(Next)

=============================================================================
