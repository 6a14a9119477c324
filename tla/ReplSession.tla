----------------------------- MODULE ReplSession -----------------------------
(***************************************************************************)
(* An interactive session of compiler/cstc_repl: `submit' turns a fragment *)
(* into a program, has it compiled, linked and run, and keeps its items or *)
(* its let bindings for the turns to come.  Bindings are kept as source:   *)
(* every later program replays them.                                       *)
(*                                                                         *)
(* A turn is a chain of stages any of which can fail after the ones before *)
(* it took effect; one action is one stage.  A snippet is what the compiler *)
(* reads of it: the names it declares, calls, uses and moves, how it can fail     *)
(* (`fault') and how its execution can end (`run').                        *)
(***************************************************************************)
EXTENDS Naturals, Sequences

CONSTANTS
    Names,      \* names of items and of let bindings
    NoName,     \* an expression statement, a discarded let, the tail
    NoProgram,  \* a file that is missing or cut short
    Fragments   \* what is entered at the prompt

VARIABLES
    items,  \* items_
    lets,   \* persisted_lets_
    file,   \* the program in the session file
    exe,    \* the program repl_step was linked from
    stage,  \* where submit is
    turn    \* the fragment, what it found, and what submit says about it

vars == <<items, lets, file, exe, stage, turn>>

\* A fault is met when types are checked, constants are evaluated, generics
\* are instantiated, or the linker looks for the symbol; "reserved" is a name
\* that belongs to the session.
Fault == {"none", "reserved", "type", "fold", "limit", "link"}
Item == [name : Names, calls : SUBSET Names, fault : Fault]
Stmt == [name : Names \cup {NoName}, calls : SUBSET Names, uses : SUBSET Names,
         moves : SUBSET Names, fault : Fault, run : SUBSET {"on", "fails", "returns"}]

IsFragment(f) ==
    \/ f.kind \in {"empty", "help", "show", "reset", "quit", "unknown", "garbage"}
    \/ f.kind = "items" /\ f.items \in Seq(Item) /\ f.items # <<>>
    \/ f.kind = "body" /\ f.stmts \in Seq(Stmt) /\ f.stmts # <<>>

ASSUME NoNameAssumption == NoName \notin Names
ASSUME FragmentsAssumption == \A f \in Fragments : IsFragment(f)

-----------------------------------------------------------------------------
(***************************************************************************)
(* Programs                                                                *)
(***************************************************************************)

Program == [items : Seq(Item), main : Seq(Stmt)]

ASSUME NoProgramAssumption == NoProgram \notin Program

Empty == [items |-> <<>>, lets |-> <<>>]

build_program_source(is, ls, body) == [items |-> is, main |-> ls \o body]

Persisted == build_program_source(items, lets, <<>>)

Candidate ==
    IF turn.fragment.kind = "items"
    THEN build_program_source(items \o turn.fragment.items, lets, <<>>)
    ELSE build_program_source(items, lets, turn.fragment.stmts)

Distinct(snippets) ==
    \A j, k \in DOMAIN snippets :
        snippets[j].name = snippets[k].name /\ snippets[j].name # NoName => j = k

ItemNames(p) == {p.items[k].name : k \in DOMAIN p.items}

\* A local is declared by an earlier statement, and not moved by one since.
Usable(p, k, n) ==
    /\ \E j \in 1 .. k - 1 : p.main[j].name = n
    /\ \A j \in 1 .. k - 1 : n \notin p.main[j].moves

Resolves(p) ==
    /\ Distinct(p.items) /\ Distinct(p.main)
    /\ \A k \in DOMAIN p.items : p.items[k].calls \subseteq ItemNames(p)
    /\ \A k \in DOMAIN p.main :
        /\ p.main[k].calls \subseteq ItemNames(p)
        /\ \A n \in p.main[k].uses : Usable(p, k, n)

\* No snippet has this fault.
Free(p, fault) ==
    /\ \A k \in DOMAIN p.items : p.items[k].fault # fault
    /\ \A k \in DOMAIN p.main : p.main[k].fault # fault

\* fold_block leaves what follows a certain return alone.
Folded(p) == {k \in DOMAIN p.main : \A j \in 1 .. k - 1 : p.main[j].run # {"returns"}}

Folds(p) ==
    /\ \A k \in DOMAIN p.items : p.items[k].fault # "fold"
    /\ \A k \in Folded(p) : p.main[k].fault # "fold"

lower_and_fold_program(p) == Resolves(p) /\ Free(p, "type") /\ Folds(p)
lower_program(p) == lower_and_fold_program(p) /\ Free(p, "limit")
Links(p) == Free(p, "link")

\* How far main comes and how it ends.
Comes(p, k) == \A j \in 1 .. k - 1 : "on" \in p.main[j].run
Ends(p) ==
    {e \in [at : DOMAIN p.main, how : {"fails", "returns"}] :
        Comes(p, e.at) /\ e.how \in p.main[e.at].run}
    \cup {e \in {[at |-> Len(p.main) + 1, how |-> "returns"]} : Comes(p, e.at)}

-----------------------------------------------------------------------------
(***************************************************************************)
(* Turns                                                                   *)
(***************************************************************************)

Stages == {"ready", "typing", "lowering", "building", "running", "committing", "closed"}
Statuses == {"none", "Success", "Error", "RuntimeError", "ExitRequested", "thrown"}

NoTurn == [fragment |-> [kind |-> "empty"], from |-> Empty, ran |-> NoProgram, reached |-> 0,
           status |-> "none", changed |-> FALSE, executed |-> FALSE]

Result(status, changed, executed) ==
    [turn EXCEPT !.status = status, !.changed = changed, !.executed = executed]

Finish(result) == stage' = "ready" /\ turn' = result

Refuse == Finish(Result("Error", FALSE, FALSE)) /\ UNCHANGED <<items, lets, exe>>

Step(next) == stage' = next /\ UNCHANGED <<items, lets, turn>>

\* write_text_file: the file is truncated first, and what cannot be written
\* is thrown.
Write(p, written) == file' = IF written THEN p ELSE NoProgram

Submit(f) ==
    /\ stage = "ready"
    /\ stage' = "typing"
    /\ turn' = [NoTurn EXCEPT !.fragment = f, !.from = [items |-> items, lets |-> lets]]
    /\ UNCHANGED <<items, lets, file, exe>>

Is(kinds) == stage = "typing" /\ turn.fragment.kind \in kinds

\* help, show and nothing at all change nothing.
Answer(kinds, status) ==
    /\ Is(kinds)
    /\ Finish(Result(status, FALSE, FALSE))
    /\ UNCHANGED <<items, lets, file, exe>>

\* (bug) the bindings survive a reset
HandleReset_Items(written) ==
    /\ Is({"reset"})
    /\ items' = <<>> /\ lets' = lets
    /\ Write(build_program_source(items', lets', <<>>), written)
    /\ Finish(Result(IF written THEN "Success" ELSE "thrown", written /\ items # <<>>, FALSE))
    /\ UNCHANGED exe

HandleReset(written) ==
    /\ Is({"reset"})
    /\ items' = <<>> /\ lets' = <<>>
    /\ Write(build_program_source(items', lets', <<>>), written)
    /\ Finish(Result(IF written THEN "Success" ELSE "thrown",
                     written /\ (items # <<>> \/ lets # <<>>), FALSE))
    /\ UNCHANGED exe

Snippets ==
    IF turn.fragment.kind = "items" THEN turn.fragment.items ELSE turn.fragment.stmts

Validates == \A k \in DOMAIN Snippets : Snippets[k].fault # "reserved"

RefuseReserved ==
    /\ Is({"items", "body"}) /\ ~Validates
    /\ Refuse
    /\ UNCHANGED file

LowerToTyir(written) ==
    /\ Is({"items", "body"}) /\ Validates
    /\ Write(Candidate, written)
    /\ IF written /\ lower_and_fold_program(Candidate)
       THEN /\ Step(IF turn.fragment.kind = "items" THEN "committing" ELSE "lowering")
            /\ UNCHANGED exe
       ELSE Refuse

CommitItems(written) ==
    /\ stage = "committing" /\ turn.fragment.kind = "items"
    /\ items' = items \o turn.fragment.items
    /\ Write(build_program_source(items', lets, <<>>), written)
    /\ Finish(Result(IF written THEN "Success" ELSE "thrown", written, FALSE))
    /\ UNCHANGED <<lets, exe>>

LowerToLir(written) ==
    /\ stage = "lowering"
    /\ Write(Candidate, written)
    /\ IF written /\ lower_program(Candidate)
       THEN Step("building") /\ UNCHANGED exe
       ELSE Refuse

\* (bug) a failed linker is not noticed while an executable is there
Build_Unchecked ==
    /\ stage = "building"
    /\ UNCHANGED file
    /\ \/ Links(Candidate) /\ exe' = Candidate /\ Step("running")
       \/ exe # NoProgram /\ UNCHANGED exe /\ Step("running")

\* The linker replaces repl_step when it succeeds; it may fail to start, and
\* it may fail before or after it removed the old one.
Build ==
    /\ stage = "building"
    /\ UNCHANGED file
    /\ \/ Links(Candidate) /\ exe' = Candidate /\ Step("running")
       \/ /\ exe' \in {exe, NoProgram}
          /\ Finish(Result("Error", FALSE, FALSE))
          /\ UNCHANGED <<items, lets>>

StartFails == stage = "running" /\ Refuse /\ UNCHANGED file

Named(stmt) == stmt.name # NoName
\* (bug) statements are kept with the bindings
Bindings_All == turn.fragment.stmts

\* The statements of a body that are kept: each with a name is pushed back.
Kept(stmts) ==
    LET kept[k \in 0 .. Len(stmts)] ==
            IF k = 0 THEN <<>>
            ELSE IF Named(stmts[k]) THEN Append(kept[k - 1], stmts[k]) ELSE kept[k - 1]
    IN  kept[Len(stmts)]

Bindings == Kept(turn.fragment.stmts)

\* (bug) the exit code is not looked at
Run_IgnoreExit ==
    /\ stage = "running"
    /\ \E end \in Ends(exe) :
        turn' = [turn EXCEPT !.ran = exe, !.reached = end.at, !.executed = TRUE]
    /\ stage' = "committing"
    /\ UNCHANGED <<items, lets, file, exe>>

\* (bug) bindings are kept before the exit code is looked at
Run_Early ==
    /\ stage = "running"
    /\ \E end \in Ends(exe) :
        LET ran == [turn EXCEPT !.ran = exe, !.reached = end.at, !.executed = TRUE]
        IN  IF end.how = "fails"
            THEN /\ Finish([ran EXCEPT !.status = "RuntimeError"])
                 /\ lets' = lets \o Bindings
            ELSE stage' = "committing" /\ turn' = ran /\ UNCHANGED lets
    /\ UNCHANGED <<items, file, exe>>

Run ==
    /\ stage = "running"
    /\ \E end \in Ends(exe) :
        LET ran == [turn EXCEPT !.ran = exe, !.reached = end.at, !.executed = TRUE]
        IN  IF end.how = "fails"
            THEN Finish([ran EXCEPT !.status = "RuntimeError"])
            ELSE stage' = "committing" /\ turn' = ran
    /\ UNCHANGED <<items, lets, file, exe>>

\* (bug) the session file is left with the program of the turn
CommitLets_Unsaved(written) ==
    /\ stage = "committing" /\ turn.fragment.kind = "body"
    /\ lets' = lets \o Bindings
    /\ Finish(Result("Success", Bindings # <<>>, turn.executed))
    /\ UNCHANGED <<items, file, exe>>

\* (bug) every execution is reported as a change
CommitLets_Always(written) ==
    /\ stage = "committing" /\ turn.fragment.kind = "body"
    /\ lets' = lets \o Bindings
    /\ Write(build_program_source(items, lets', <<>>), written)
    /\ Finish(Result(IF written THEN "Success" ELSE "thrown", written, turn.executed))
    /\ UNCHANGED <<items, exe>>

CommitLets(written) ==
    /\ stage = "committing" /\ turn.fragment.kind = "body"
    /\ lets' = lets \o Bindings
    /\ Write(build_program_source(items, lets', <<>>), written)
    /\ Finish(Result(IF written THEN "Success" ELSE "thrown",
                     written /\ Bindings # <<>>, turn.executed))
    /\ UNCHANGED <<items, exe>>

\* ~Impl removes the file and the scratch directory.
Close ==
    /\ stage = "ready"
    /\ stage' = "closed" /\ file' = NoProgram /\ exe' = NoProgram
    /\ UNCHANGED <<items, lets, turn>>

Init ==
    /\ items = <<>> /\ lets = <<>>
    /\ file = Persisted /\ exe = NoProgram
    /\ stage = "ready" /\ turn = NoTurn

Next ==
    \/ \E f \in Fragments : Submit(f)
    \/ Answer({"empty", "help", "show"}, "Success")
    \/ Answer({"unknown", "garbage"}, "Error")
    \/ Answer({"quit"}, "ExitRequested")
    \/ \E written \in BOOLEAN : HandleReset(written)
    \/ RefuseReserved
    \/ \E written \in BOOLEAN : LowerToTyir(written)
    \/ \E written \in BOOLEAN : CommitItems(written)
    \/ \E written \in BOOLEAN : LowerToLir(written)
    \/ Build
    \/ StartFails
    \/ Run
    \/ \E written \in BOOLEAN : CommitLets(written)
    \/ Close

Spec == Init /\ [][Next]_vars

-----------------------------------------------------------------------------
(***************************************************************************)
(* Properties                                                              *)
(***************************************************************************)

\* Only named bindings are kept, and nothing is executed but programs.
TypeOK ==
    /\ items \in Seq(Item)
    /\ lets \in Seq(Stmt) /\ \A k \in DOMAIN lets : Named(lets[k])
    /\ file \in Program \cup {NoProgram} /\ exe \in Program \cup {NoProgram}
    /\ stage \in Stages
    /\ turn.status \in Statuses
    /\ stage \in {"building", "running"} => file = Candidate
    /\ stage = "running" => exe \in Program

\* A turn that ends in an error leaves no trace in the state that persists,
\* however many of its stages had succeeded.
RefusedLeavesNoTrace ==
    turn.status \in {"Error", "RuntimeError", "ExitRequested"} =>
        [items |-> items, lets |-> lets] = turn.from

\* `state_changed' is what a front end is told about the persisted state; it
\* is right whenever submit returns.
ReportsChange ==
    turn.status \notin {"none", "thrown"} =>
        (turn.changed <=> [items |-> items, lets |-> lets] # turn.from)

\* Bindings are replayed without the statements they were entered with: the
\* program that persists still resolves its names and moves nothing twice.
PersistedResolves == Resolves(Persisted)

\* What is executed is the program of this turn, never the executable that an
\* earlier turn left in the scratch directory.
RunsThisTurn ==
    turn.executed =>
        turn.ran = build_program_source(turn.from.items, turn.from.lets, turn.fragment.stmts)

\* The session file holds what persists when a turn reports a change.
ChangeIsSaved == stage = "ready" /\ turn.changed => file = Persisted

\* The persisted state grows only by items the compiler accepts with all the
\* rest, or by the bindings of a program that was built and ran to the end,
\* and shrinks only to nothing.
Grows ==
    \/ items' = <<>> /\ lets' = <<>>
    \/ /\ turn.fragment.kind = "items"
       /\ lets' = lets /\ items' = items \o turn.fragment.items
       /\ lower_and_fold_program(Persisted')
    \/ /\ turn.fragment.kind = "body" /\ turn.executed
       /\ items' = items /\ lets' = lets \o Bindings
       /\ lower_program(turn.ran) /\ Links(turn.ran)
       /\ [at |-> turn.reached, how |-> "returns"] \in Ends(turn.ran)
CommitsOnlyAccepted == [][Grows]_<<items, lets>>

\* The compiler accepts what persists: no turn can leave the session in a
\* state in which every later turn is refused.
PersistedIsAccepted == lower_and_fold_program(Persisted)
=============================================================================
