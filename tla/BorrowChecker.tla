---------------------------- MODULE BorrowChecker ----------------------------
(***************************************************************************)
(* The move and borrow checks of compiler/cstc_tyir_builder.  One function *)
(* with one owned parameter is read token by token, as the checker walks   *)
(* it; every program of at most MaxTokens tokens is read.  lower_expr and  *)
(* lower_block recurse over the syntax tree: `open' holds the constructs   *)
(* whose block is being read, with the scope each of them set aside.       *)
(*                                                                         *)
(* A local is named by the position of the token that declares it, the     *)
(* parameter by 0: name lookup (and the duplicate check) is left out.      *)
(***************************************************************************)
EXTENDS Naturals, Sequences, FiniteSets

CONSTANTS
    Ops,        \* the kinds of token programs are made of
    Headers,    \* what a loop header may do: "flag", "temp", "take"
    MaxTokens,  \* bound: tokens of a program, ends of blocks included
    DeadCode    \* bound: whether statements may follow a jump in its block

VARIABLES
    source,  \* the tokens read so far
    locals,  \* Scope::locals_
    open,    \* blocks being lowered, innermost last
    known,   \* history: locals, enclosing constructs, and whether control
             \* comes there, before each token
    phase    \* check, rejected, or run once the whole function is accepted

AllOps == {"make", "move", "consume", "discard", "borrow", "refTemp", "copy",
           "use", "temp", "block", "if", "else", "loop", "while", "for",
           "break", "continue", "return", "end"}

ASSUME OpsAssumption == Ops \subseteq AllOps
ASSUME HeadersAssumption == Headers \subseteq {"flag", "temp", "take"}
ASSUME BoundsAssumption == MaxTokens \in Nat /\ DeadCode \in BOOLEAN

checkVars == <<source, locals, open, known, phase>>

\* `arg' is the local a token uses; `cond' and `step' belong to loop headers.
Token == [op : AllOps, arg : Nat, cond : {"flag", "temp", "take"},
          step : {"flag", "temp", "take"}]

Local == [pos : Nat, ref : BOOLEAN, moved : BOOLEAN, borrows : Nat, of : Nat]

\* A block: what opened it, the scope copied there, and what is known of it.
Block == [kind : {"fn", "block", "if", "else", "loop", "while", "for"}, at : Nat,
          saved : Seq(Local), base : Nat, falls : BOOLEAN, breaks : BOOLEAN,
          branch : Seq(Local), branchFalls : BOOLEAN]

Here == Len(source) + 1
Innermost == open[Len(open)]
Owned == {i \in DOMAIN locals : ~locals[i].ref}
Refs == {i \in DOMAIN locals : locals[i].ref}

T(op, arg) == [op |-> op, arg |-> arg, cond |-> "flag", step |-> "flag"]

-----------------------------------------------------------------------------
(***************************************************************************)
(* Scope                                                                   *)
(***************************************************************************)

NewLocal(pos, ref, of) ==
    [pos |-> pos, ref |-> ref, moved |-> FALSE, borrows |-> 0, of |-> of]

Borrowed(ls, i) == [ls EXCEPT ![i].borrows = @ + 1]

\* (bug) a copied reference does not count as a borrow of its owner
insert_NoBorrow(ls, pos, ref, of) == Append(ls, NewLocal(pos, ref, of))

insert(ls, pos, ref, of) ==
    Append(IF of = 0 THEN ls ELSE Borrowed(ls, of), NewLocal(pos, ref, of))

Dependents(ls, i, from) == {k \in from .. Len(ls) : ls[k].of = i}

\* Popping a frame ends the borrows its references hold.
pop(ls, n) ==
    [i \in 1 .. n |->
        [ls[i] EXCEPT !.borrows = @ - Cardinality(Dependents(ls, i, n + 1))]]

\* (bug) only what both sides moved is moved after the join
merge_from_Both(ls, other) ==
    [i \in DOMAIN ls |->
        [ls[i] EXCEPT !.moved = @ /\ other[i].moved,
                      !.borrows = IF other[i].borrows > @ THEN other[i].borrows ELSE @]]

merge_from(ls, other) ==
    [i \in DOMAIN ls |->
        [ls[i] EXCEPT !.moved = @ \/ other[i].moved,
                      !.borrows = IF other[i].borrows > @ THEN other[i].borrows ELSE @]]

Moved(ls, i) == [ls EXCEPT ![i].moved = TRUE]

\* (bug) the borrow count is not consulted
CanMove_Borrowed(local) == ~local.moved

\* A move-only local read by value
CanMove(local) == ~local.moved /\ local.borrows = 0

-----------------------------------------------------------------------------
(***************************************************************************)
(* Statements                                                              *)
(***************************************************************************)

\* Every open block still needs its end.
Room(n) ==
    /\ phase = "check" /\ Len(source) + Len(open) + n <= MaxTokens
    /\ DeadCode \/ Innermost.falls

Reject ==
    /\ phase' = "rejected"
    /\ UNCHANGED <<source, locals, open, known>>

\* What the checker knows before the token it reads next.
Present == [locals |-> locals, nest |-> [k \in DOMAIN open |-> open[k].at],
            reached |-> \A k \in DOMAIN open : open[k].falls]

Read(token, ls, blocks) ==
    /\ source' = Append(source, token)
    /\ known' = Append(known, Present)
    /\ locals' = ls
    /\ open' = blocks
    /\ UNCHANGED phase

Simple(op, arg, ls) == op \in Ops /\ Room(1) /\ Read(T(op, arg), ls, open)

\* let y = make();
LetMake == Simple("make", 0, insert(locals, Here, FALSE, 0))

\* make(); or show(&make()); the value lives in an unnamed local
Temporary == Simple("temp", 0, locals)

\* let r = &make();
LetRefTemp == Simple("refTemp", 0, insert(locals, Here, TRUE, 0))

\* let y = x;   consume(x);   let _ = x;
TakeLocal ==
    \E op \in Ops \cap {"move", "consume", "discard"} : \E i \in Owned :
        /\ Room(1)
        /\ IF ~CanMove(locals[i])
           THEN Reject
           ELSE LET taken == Moved(locals, i)
                IN  Simple(op, locals[i].pos,
                           IF op = "move" THEN insert(taken, Here, FALSE, 0) ELSE taken)

\* let r = &x;  The borrow the & expression registered is not released: the
\* `let' only takes it off its list, and insert registers one more.
LetBorrow ==
    \E i \in Owned :
        /\ "borrow" \in Ops /\ Room(1)
        /\ IF locals[i].moved
           THEN Reject
           ELSE Simple("borrow", locals[i].pos,
                       insert(Borrowed(locals, i), Here, TRUE, i))

\* let q = r;
LetCopy ==
    \E i \in Refs :
        Simple("copy", locals[i].pos, insert(locals, Here, TRUE, locals[i].of))

\* show(&x);   show(r);
Use ==
    \E i \in DOMAIN locals :
        /\ "use" \in Ops /\ Room(1)
        /\ IF locals[i].moved THEN Reject ELSE Simple("use", locals[i].pos, locals)

-----------------------------------------------------------------------------
(***************************************************************************)
(* Blocks                                                                  *)
(***************************************************************************)

NewBlock(kind, saved, base) ==
    [kind |-> kind, at |-> Here, saved |-> saved, base |-> base,
     falls |-> TRUE, breaks |-> FALSE, branch |-> <<>>, branchFalls |-> FALSE]

Open(token, ls, saved) ==
    /\ token.op \in Ops /\ Room(2)
    /\ Read(token, ls, Append(open, NewBlock(token.op, saved, Len(ls))))

OpenBlock == \E kind \in {"block", "if", "loop"} : Open(T(kind, 0), locals, locals)

\* The header moves a local or not.
Header(ls, effect, i) == IF effect = "take" THEN Moved(ls, i) ELSE ls

OpenWhile ==
    \E cond \in Headers : \E i \in Owned :
        /\ "while" \in Ops /\ Room(2)
        /\ cond = "take" \/ i = 1
        /\ IF cond = "take" /\ ~CanMove(locals[i])
           THEN Reject
           ELSE LET ls == Header(locals, cond, i)
                IN  Open([T("while", locals[i].pos) EXCEPT !.cond = cond], ls, ls)

\* for (let i = make(); cond; step): the body gets a copy of the scope.
OpenFor ==
    LET ls == insert(locals, Here, FALSE, 0)
    IN  \E cond, step \in Headers : \E i \in Owned \cup {Len(ls)} :
            /\ "for" \in Ops /\ Room(2)
            /\ "take" \in {cond, step} \/ i = 1
            /\ IF cond = "take" /\ ~CanMove(ls[i])
               THEN Reject
               ELSE Open([T("for", ls[i].pos) EXCEPT !.cond = cond, !.step = step],
                         Header(ls, cond, i), Header(ls, cond, i))

Diverges(blocks) == [blocks EXCEPT ![Len(blocks)].falls = FALSE]

Return == "return" \in Ops /\ Room(1) /\ Read(T("return", 0), locals, Diverges(open))

Loops == {k \in DOMAIN open : open[k].kind \in {"loop", "while", "for"}}
InnerLoop == CHOOSE k \in Loops : \A l \in Loops : l <= k

Break ==
    /\ "break" \in Ops /\ Room(1) /\ Loops # {}
    /\ Read(T("break", open[InnerLoop].at), locals,
            Diverges([open EXCEPT ![InnerLoop].breaks = TRUE]))

Continue ==
    /\ "continue" \in Ops /\ Room(1) /\ Loops # {}
    /\ Read(T("continue", open[InnerLoop].at), locals, Diverges(open))

\* The innermost block ends; what follows is reached if `falls'.
Close(ls, falls) ==
    Read(T("end", Innermost.at), ls,
         [k \in 1 .. Len(open) - 1 |->
            [open[k] EXCEPT !.falls = @ /\ (falls \/ k < Len(open) - 1)]])

Popped == pop(locals, Innermost.base)

\* Only branches that reach the join contribute to the scope after it.
Joined(ls, branch, falls) == IF falls THEN merge_from(ls, branch) ELSE ls

Else ==
    /\ "else" \in Ops /\ phase = "check" /\ Innermost.kind = "if"
    /\ Len(source) + Len(open) < MaxTokens
    /\ Read(T("else", Innermost.at), Innermost.saved,
            [open EXCEPT ![Len(open)] =
                [@ EXCEPT !.kind = "else", !.falls = TRUE, !.branch = Popped,
                          !.branchFalls = Innermost.falls]])

EndBlock == Innermost.kind = "block" /\ Close(Popped, Innermost.falls)

EndIf ==
    /\ Innermost.kind = "if"
    /\ Close(Joined(Innermost.saved, Popped, Innermost.falls), TRUE)

EndElse ==
    /\ Innermost.kind = "else"
    /\ Close(Joined(Joined(Innermost.saved, Innermost.branch, Innermost.branchFalls),
                    Popped, Innermost.falls),
             Innermost.branchFalls \/ Innermost.falls)

\* The body was lowered once, in the scope that goes on after the loop.
EndLoop == Innermost.kind = "loop" /\ Close(Popped, Innermost.breaks)
EndWhile == Innermost.kind = "while" /\ Close(Popped, TRUE)

\* The step is lowered in the body's copy of the scope, which is then dropped.
EndFor ==
    /\ Innermost.kind = "for"
    /\ LET header == source[Innermost.at]
           user == CHOOSE i \in DOMAIN Popped : Popped[i].pos = header.arg
       IN  IF header.step = "take" /\ ~CanMove(Popped[user])
           THEN Reject
           ELSE Close(pop(Innermost.saved, Innermost.base - 1), TRUE)

End ==
    /\ phase = "check"
    /\ EndBlock \/ EndIf \/ EndElse \/ EndLoop \/ EndWhile \/ EndFor

\* The end of the function's body: the program is accepted.
Accept ==
    /\ phase = "check" /\ Innermost.kind = "fn"
    /\ source' = Append(source, T("end", 0))
    /\ known' = Append(known, Present)
    /\ phase' = "run"
    /\ UNCHANGED <<locals, open>>

CheckInit ==
    /\ source = <<>> /\ known = <<>> /\ phase = "check"
    /\ locals = <<NewLocal(0, FALSE, 0)>>
    /\ open = <<[NewBlock("fn", <<>>, 0) EXCEPT !.at = 0]>>

CheckStep ==
    \/ LetMake \/ Temporary \/ LetRefTemp \/ TakeLocal \/ LetBorrow \/ LetCopy \/ Use
    \/ OpenBlock \/ OpenWhile \/ OpenFor \/ Return \/ Break \/ Continue
    \/ Else \/ End

CheckNext == CheckStep \/ Accept

CheckSpec == CheckInit /\ [][CheckNext]_checkVars

-----------------------------------------------------------------------------
(***************************************************************************)
(* Properties                                                              *)
(***************************************************************************)

Phases == {"check", "rejected", "run", "done"}

\* Every variable has its type; no borrow counter is ever negative.
TypeOK ==
    /\ source \in Seq(Token)
    /\ locals \in Seq(Local)
    /\ open \in Seq(Block) /\ open # <<>>
    /\ phase \in Phases
    /\ DOMAIN known = DOMAIN source

\* The counter of a local is at least the number of references to it in scope,
\* through branches, joins and copies: a borrowed local is never free to move,
\* and the assertions of pop and release_ephemeral_borrow never fail.
BorrowsCounted ==
    \A i \in DOMAIN locals :
        locals[i].borrows >= Cardinality(Dependents(locals, i, 1))

\* "borrow lifetimes are lexical and end when the reference binding's scope
\* ends": a local no reference in scope borrows has no active borrow left.
BorrowEndsWithScope ==
    \A i \in DOMAIN locals :
        Dependents(locals, i, 1) = {} => locals[i].borrows = 0

=============================================================================
