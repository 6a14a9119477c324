---------------------------- MODULE MCReplSession ----------------------------
(***************************************************************************)
(* Fragments for TLC, as one may enter them at the prompt.                 *)
(***************************************************************************)
EXTENDS ReplSession

CONSTANTS f, g, x, y  \* names

Fn(name, calls, fault) == [name |-> name, calls |-> calls, fault |-> fault]
St(name, uses, moves, fault, run) ==
    [name |-> name, calls |-> {}, uses |-> uses, moves |-> moves, fault |-> fault, run |-> run]
Call(stmt, fn) == [stmt EXCEPT !.calls = {fn}]

LetX == St(x, {}, {}, "none", {"on"})             \* let x = "a";
LetY == St(y, {x}, {}, "none", {"on"})            \* let y = str_len(&x);
TakeY == St(y, {x}, {x}, "none", {"on"})          \* let y = x;
Consume == St(NoName, {x}, {x}, "none", {"on"})   \* consume(x);
RandomX == St(x, {}, {}, "none", {"on", "fails"}) \* let x = checked(rand());
CallG == Call(St(NoName, {}, {}, "none", {"on"}), g)       \* g();
MayLeave == St(NoName, {}, {}, "none", {"on", "returns"})  \* if b() { return; }
Leave == St(NoName, {}, {}, "none", {"returns"})  \* return;
LeaveX == St(x, {}, {}, "none", {"returns"})      \* let x = { return; };
AssertX == St(x, {}, {}, "fold", {"on"})          \* let x = assert(false);

Body(stmts) == [kind |-> "body", stmts |-> stmts]
Items(new) == [kind |-> "items", items |-> new]
Kinds == {[kind |-> k] : k \in {"empty", "help", "show", "reset", "quit", "unknown", "garbage"}}

Common == Kinds \cup {
    Items(<<Fn(f, {}, "none")>>), Items(<<Fn(f, {}, "none"), Fn(g, {f}, "none")>>),
    Items(<<Fn(g, {f}, "none")>>), Items(<<Fn(g, {}, "type")>>),
    Items(<<Fn(g, {}, "fold")>>), Items(<<Fn(f, {}, "reserved")>>),
    Body(<<LetX>>), Body(<<LetX, Consume>>), Body(<<LetY>>), Body(<<TakeY>>),
    Body(<<Consume>>), Body(<<RandomX, Call(LetY, f)>>), Body(<<CallG>>),
    Body(<<AssertX>>), Body(<<St(y, {}, {}, "reserved", {"on"})>>),
    Body(<<St(NoName, {}, {}, "limit", {"on"})>>)}

\* Fragments whose compiled form is refused only after it was accepted as typed.
LateFaults == {Items(<<Fn(g, {}, "limit")>>), Items(<<Fn(g, {}, "link")>>)}

Jumps == {Body(<<Leave>>), Body(<<MayLeave, LetX>>), Body(<<Leave, AssertX>>), Body(<<LeaveX>>)}

AllFragments == Common \cup LateFaults \cup Jumps
=============================================================================
