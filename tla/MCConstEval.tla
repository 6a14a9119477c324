---------------------------- MODULE MCConstEval ----------------------------
(***************************************************************************)
(* Bodies for the function the folded programs call.                       *)
(***************************************************************************)
EXTENDS ConstEval

p == Local("p", FALSE)
Stmts(kids) == TypedBlock([i \in DOMAIN kids |-> IF i = Len(kids) THEN "tail" ELSE "stmt"], kids)
CallOf(name, arg, ty) == Node("call", name, <<>>, <<arg>>, ty)

\* { assert(p); p }
Checks == Stmts(<<CallOf("assert", p, "unit"), p>>)

\* { if p { return false; } true }
Returns == Stmts(<<Node("if", "", <<>>,
                        <<p, Stmts(<<Node("return", "", <<>>, <<Literal("false", "bool")>>,
                                          "never")>>)>>, "unit"),
                   Literal("true", "bool")>>)

\* { if p { f(false) } else { true } }
Recurs == Stmts(<<Node("if", "", <<>>,
                       <<p, Stmts(<<CallOf("f", Literal("false", "bool"), "bool")>>),
                         Stmts(<<Literal("true", "bool")>>)>>, "bool")>>)

\* { while p {} f(p) }
Spins == Stmts(<<Node("while", "", <<>>, <<p, TypedBlock(<<>>, <<>>)>>, "unit"),
                 CallOf("f", p, "bool")>>)

AllCallees == {Checks, Returns, Recurs, Spins}
=============================================================================
