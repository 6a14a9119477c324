-------------------------------- MODULE TyIR --------------------------------
(***************************************************************************)
(* Typed expression trees (cstc_tyir): the nodes the constant evaluator    *)
(* reads and rewrites, with the type and the availability every node       *)
(* carries.  A block keeps the role of each of its parts, "let", "stmt" or *)
(* "tail", beside them.                                                    *)
(*                                                                         *)
(* Values are "unit" and the two Booleans; the program has a parameter x,  *)
(* one local name a (which inner blocks may bind again) and calls three    *)
(* functions: the lang intrinsic assert, the runtime extern probe and an   *)
(* ordinary function f with the parameter p.                               *)
(***************************************************************************)
EXTENDS Sequences, SequencesExt

Booleans == {"true", "false"}
Types == {"bool", "unit", "never"}

\* The kinds of value a type holds; a diverging expression has none.
ValuesOf == [bool |-> Booleans, unit |-> {"unit"}, never |-> {}]

-----------------------------------------------------------------------------
(* Whether control can leave an expression in the ordinary way.            *)

RECURSIVE CanFallThrough(_)

BlockCanFallThrough(kids) == \A i \in DOMAIN kids : CanFallThrough(kids[i])

CanFallThrough(e) ==
    /\ e.ty # "never"
    /\ CASE e.op \in {"and", "call", "block", "runtime"} -> BlockCanFallThrough(e.kids)
         [] e.op = "if" ->
                /\ CanFallThrough(e.kids[1])
                /\ \/ Len(e.kids) = 2
                   \/ \E i \in {2, 3} : CanFallThrough(e.kids[i])
         [] e.op = "while" -> CanFallThrough(e.kids[1])
         [] OTHER -> TRUE

-----------------------------------------------------------------------------
(* Availability: does computing the expression depend on the runtime?      *)

\* The parts control can get to: in order, up to the first that cannot fall
\* through; both branches of an if.
Reached(op, kids) ==
    LET open(i) == CanFallThrough(kids[i])
    IN  IF op = "if" THEN {i \in DOMAIN kids : i = 1 \/ open(1)}
        ELSE {i \in DOMAIN kids : \A j \in 1 .. i - 1 : open(j)}

RuntimeDependent(op, v, kids) ==
    \/ op = "runtime"
    \/ op = "call" /\ v = "probe" /\ BlockCanFallThrough(kids)
    \/ \E i \in Reached(op, kids) : kids[i].rt

\* make_ty_expr followed by recompute_expr_availability.
Node(op, v, roles, kids, ty) ==
    [op |-> op, v |-> v, roles |-> roles, kids |-> kids, ty |-> ty,
     rt |-> RuntimeDependent(op, v, kids)]

Literal(v, ty) == Node("literal", v, <<>>, <<>>, ty)
Local(name, rt) == [Node("local", name, <<>>, <<>>, "bool") EXCEPT !.rt = rt]
Block(roles, kids, ty) == Node("block", "", roles, kids, ty)

\* A block's type is its tail's, unit without one, never when a statement diverges.
BlockType(roles, kids) ==
    LET hasTail == roles # <<>> /\ Last(roles) = "tail"
        stmts == IF hasTail THEN Front(kids) ELSE kids
    IN  IF ~BlockCanFallThrough(stmts) THEN "never"
        ELSE IF hasTail THEN Last(kids).ty ELSE "unit"

TypedBlock(roles, kids) == Block(roles, kids, BlockType(roles, kids))

\* An expression where the grammar wants a block: { e }.
AsBlock(e) == IF e.op = "block" THEN e ELSE TypedBlock(<<"tail">>, <<e>>)

\* Every node of a tree.
RECURSIVE Nodes(_)
Nodes(e) == {e} \union UNION {Nodes(e.kids[i]) : i \in DOMAIN e.kids}
=============================================================================
