------------------------------ MODULE ConstEval ------------------------------
(***************************************************************************)
(* The constant evaluator (cstc_tyir_interp): fold_program rewrites every  *)
(* function body, replacing the parts it can evaluate by their values,     *)
(* before the body is lowered and compiled.  A body is assembled from the  *)
(* forms the type checker accepts, folded, and then executed twice, as it  *)
(* was written and as it was folded, by the code the LIR builder and the   *)
(* code generator produce.                                                 *)
(***************************************************************************)
EXTENDS TyIR, Naturals, TLC

CONSTANTS
    Forms,      \* the forms of expression the bodies are built from
    Callees,    \* the bodies the called function f may have
    MaxSize,    \* bound on the number of nodes of a body
    StepBudget, \* kDefaultEvalStepBudget
    CallDepth,  \* kDefaultEvalCallDepth
    Fuel        \* bound on the iterations and calls of an execution

ASSUME BoundsAssumption ==
    /\ MaxSize \in Nat /\ StepBudget \in Nat \ {0}
    /\ CallDepth \in Nat \ {0}
    \* every evaluation that succeeds is executed to its end
    /\ Fuel \in Nat /\ Fuel >= StepBudget

VARIABLES
    callee,   \* the body of f as written
    stack,    \* the expressions assembled so far, innermost last
    size,     \* nodes used
    phase,    \* "build", "check", "folded" or "executed"
    body,     \* the body as written
    folded,   \* [body, callee] after fold_program, or the error it stops with
    outcome   \* what executing the body and its folded form yields

vars == <<callee, stack, size, phase, body, folded, outcome>>

Names == {"x", "a", "p"}
Unknown == "unknown"
NoLocals == [n \in Names |-> Unknown]

-----------------------------------------------------------------------------
(* Evaluation.  An EvalState is a kind, a value and the steps left; the    *)
(* kinds "failed" and "exhausted" are the errors of an assertion and of a  *)
(* budget.  ctx: the call depth left, whether runtime barriers are         *)
(* enforced.                                                               *)

State(kind, value, steps) == [kind |-> kind, value |-> value, steps |-> steps]
Value(value, steps) == State("value", value, steps)
Blocked(steps) == State("blocked", "unit", steps)
Failure(kind) == State(kind, "unit", 0)
IsError(s) == s.kind \in {"failed", "exhausted"}

\* Continue with a value; anything else is the result.
Then(s, Next0(_)) == IF s.kind = "value" THEN Next0(s) ELSE s

FreshContext == [depth |-> CallDepth, barriers |-> TRUE]

RECURSIVE Eval(_, _, _, _)
RECURSIVE EvalParts(_, _, _, _, _)
RECURSIVE Iterate(_, _, _, _)

\* The statements and the tail of a block from the i-th on.
EvalParts(b, i, env, steps, ctx) ==
    IF i > Len(b.kids) THEN Value("unit", steps)
    ELSE LET s == Eval(b.kids[i], env, steps, ctx)
         IN  IF s.kind # "value" \/ b.roles[i] = "tail" THEN s
             ELSE EvalParts(b, i + 1,
                            IF b.roles[i] = "let" THEN [env EXCEPT !["a"] = s.value] ELSE env,
                            s.steps, ctx)

EvalBlock(b, env, steps, ctx) ==
    IF steps = 0 THEN Failure("exhausted") ELSE EvalParts(b, 1, env, steps - 1, ctx)

\* && looks at its right operand only when the left one is true.
EvalAnd(e, env, steps, ctx) ==
    Then(Eval(e.kids[1], env, steps, ctx),
         LAMBDA l : IF l.value = "false" THEN l ELSE Eval(e.kids[2], env, l.steps, ctx))

EvalIf(e, env, steps, ctx) ==
    Then(Eval(e.kids[1], env, steps, ctx),
         LAMBDA c : IF c.value = "true" THEN EvalBlock(e.kids[2], env, c.steps, ctx)
                    ELSE IF Len(e.kids) = 3 THEN Eval(e.kids[3], env, c.steps, ctx)
                    ELSE Value("unit", c.steps))

\* One iteration of a loop: it takes a step, its body block does not.
Iterate(e, env, steps, ctx) ==
    IF steps = 0 THEN Failure("exhausted")
    ELSE LET s == EvalParts(Last(e.kids), 1, env, steps - 1, ctx)
         IN  CASE s.kind \in {"value", "continue"} -> Eval(e, env, s.steps, ctx)
               [] s.kind = "break" -> Value(s.value, s.steps)
               [] OTHER -> s

EvalWhile(e, env, steps, ctx) ==
    Then(Eval(e.kids[1], env, steps, ctx),
         LAMBDA c : IF c.value = "false" THEN Value("unit", c.steps)
                    ELSE Iterate(e, env, c.steps, ctx))

\* A break or a return takes its value, or unit without one.
EvalJump(e, env, steps, ctx) ==
    IF e.kids = <<>> THEN State(e.op, "unit", steps)
    ELSE Then(Eval(e.kids[1], env, steps, ctx),
              LAMBDA v : State(e.op, v.value, v.steps))

\* (bug) assert yields its argument
eval_lang_intrinsic_Argument(arg) ==
    IF arg.value = "false" THEN Failure("failed") ELSE arg

eval_lang_intrinsic(arg) ==
    IF arg.value = "false" THEN Failure("failed") ELSE Value("unit", arg.steps)

\* (bug) a return leaves the caller too
EvalCallee_Through(arg, ctx) ==
    IF ctx.depth = 0 THEN Failure("exhausted")
    ELSE EvalBlock(callee, [NoLocals EXCEPT !["p"] = arg.value], arg.steps,
                   [depth |-> ctx.depth - 1, barriers |-> FALSE])

\* A call of f: a frame of its own, one level of the call depth, no barriers.
EvalCallee(arg, ctx) ==
    IF ctx.depth = 0 THEN Failure("exhausted")
    ELSE LET s == EvalBlock(callee, [NoLocals EXCEPT !["p"] = arg.value], arg.steps,
                            [depth |-> ctx.depth - 1, barriers |-> FALSE])
         IN  IF s.kind = "return" THEN Value(s.value, s.steps) ELSE s

EvalCall(e, env, steps, ctx) ==
    IF e.v = "probe" \/ e.rt THEN Blocked(steps)
    ELSE Then(Eval(e.kids[1], env, steps, ctx),
              LAMBDA arg : IF e.v = "assert" THEN eval_lang_intrinsic(arg)
                           ELSE EvalCallee(arg, ctx))

Eval(e, env, steps, ctx) ==
    IF ctx.barriers /\ e.rt THEN Blocked(steps)
    ELSE CASE e.op = "literal" -> Value(e.v, steps)
           [] e.op = "local" ->
                IF env[e.v] = Unknown THEN Blocked(steps) ELSE Value(env[e.v], steps)
           [] e.op = "and" -> EvalAnd(e, env, steps, ctx)
           [] e.op = "call" -> EvalCall(e, env, steps, ctx)
           [] e.op = "block" -> EvalBlock(e, env, steps, ctx)
           [] e.op = "runtime" -> EvalBlock(e.kids[1], env, steps, ctx)
           [] e.op = "if" -> EvalIf(e, env, steps, ctx)
           [] e.op = "loop" -> Iterate(e, env, steps, ctx)
           [] e.op = "while" -> EvalWhile(e, env, steps, ctx)
           [] e.op \in {"break", "return"} -> EvalJump(e, env, steps, ctx)
           [] e.op = "continue" -> State("continue", "unit", steps)

\* An evaluation the folder starts: budgets and barriers afresh.
Evaluate(e, env) == Eval(e, env, StepBudget, FreshContext)

-----------------------------------------------------------------------------
(* Folding.  A fold yields the rewritten expression, or an error node      *)
(* naming the failure the whole compilation stops with.                    *)

ErrorNode(kind) == Node("error", kind, <<>>, <<>>, "never")
Failed(f) == f.op = "error"

\* Continue with the folded part, unless folding it stopped.
With(f, Rest0(_)) == IF Failed(f) THEN f ELSE Rest0(f)

\* The same node over folded parts; its type is kept.
Rebuild(e, kids) == Node(e.op, e.v, e.roles, kids, e.ty)

value_to_expr(value, ty) == Literal(value, ty)

\* Replace an expression by its value, if it has one.
MaybeFoldConstant(e, env) ==
    LET s == Evaluate(e, env)
    IN  CASE IsError(s) -> ErrorNode(s.kind)
          [] s.kind = "value" -> value_to_expr(s.value, e.ty)
          [] OTHER -> e

\* The Boolean an expression is known to be; an error leaves it unknown.
ConstantBool(e, env) ==
    LET s == Evaluate(e, env) IN IF s.kind = "value" THEN s.value ELSE Unknown

\* (bug) a let of unknown value does not hide an outer one
Bind_Outer(init, env) ==
    LET s == Evaluate(init, env)
    IN  IF s.kind = "value" THEN [env EXCEPT !["a"] = s.value] ELSE env

\* What folding knows of a let from here on.
Bind(init, env) ==
    LET s == Evaluate(init, env)
    IN  [env EXCEPT !["a"] = IF s.kind = "value" THEN s.value ELSE Unknown]

RECURSIVE Fold(_, _)
RECURSIVE FoldParts(_, _, _, _)

\* (bug) what follows a part that cannot fall through is lost
FoldParts_Cut(b, i, env, done) ==
    IF i > Len(b.kids) THEN Rebuild(b, done)
    ELSE With(Fold(b.kids[i], env),
              LAMBDA f : IF ~CanFallThrough(f) THEN Rebuild(b, Append(done, f))
                         ELSE FoldParts(b, i + 1, IF b.roles[i] = "let" THEN Bind(f, env) ELSE env,
                                        Append(done, f)))

\* The parts of a block from the i-th on; what follows a part that cannot fall
\* through is kept as it is.
FoldParts(b, i, env, done) ==
    IF i > Len(b.kids) THEN Rebuild(b, done)
    ELSE With(Fold(b.kids[i], env),
              LAMBDA f : IF b.roles[i] # "tail" /\ ~CanFallThrough(f)
                         THEN Rebuild(b, done \o <<f>> \o SubSeq(b.kids, i + 1, Len(b.kids)))
                         ELSE FoldParts(b, i + 1, IF b.roles[i] = "let" THEN Bind(f, env) ELSE env,
                                        Append(done, f)))

FoldBlock(b, env) == FoldParts(b, 1, env, <<>>)

\* A right operand that is never looked at is left alone.
FoldAnd(e, env) ==
    With(Fold(e.kids[1], env),
         LAMBDA l : IF ConstantBool(l, env) = "false"
                    THEN MaybeFoldConstant(Rebuild(e, <<l, e.kids[2]>>), env)
                    ELSE With(Fold(e.kids[2], env),
                              LAMBDA r : MaybeFoldConstant(Rebuild(e, <<l, r>>), env)))

\* A call with a runtime-dependent argument stays a call.
FoldCall(e, env) ==
    With(Fold(e.kids[1], env),
         LAMBDA arg : LET call == Rebuild(e, <<arg>>)
                      IN  IF call.rt THEN call ELSE MaybeFoldConstant(call, env))

FoldBranches(e, c, env) ==
    With(FoldBlock(e.kids[2], env),
         LAMBDA t : IF Len(e.kids) = 2 THEN MaybeFoldConstant(Rebuild(e, <<c, t>>), env)
                    ELSE With(Fold(e.kids[3], env),
                              LAMBDA f : MaybeFoldConstant(Rebuild(e, <<c, t, f>>), env)))

\* The unit value of a conditional or a loop that does nothing; runtime-dependent
\* when the type it replaces is.
UnitFor(e) == [Literal("unit", e.ty) EXCEPT !.rt = e.rt]

\* (bug) only a known true condition selects its branch
FoldIf_True(e, env) ==
    With(Fold(e.kids[1], env),
         LAMBDA c : IF ConstantBool(c, env) = "true" THEN FoldBlock(e.kids[2], env)
                    ELSE FoldBranches(e, c, env))

\* A known condition selects its branch.
FoldIf(e, env) ==
    With(Fold(e.kids[1], env),
         LAMBDA c : CASE ConstantBool(c, env) = "true" ->
                           With(FoldBlock(e.kids[2], env),
                                LAMBDA t : MaybeFoldConstant([t EXCEPT !.ty = e.ty], env))
                      [] ConstantBool(c, env) = "false" ->
                           IF Len(e.kids) = 3 THEN Fold(e.kids[3], env)
                           ELSE UnitFor(e)
                      [] OTHER -> FoldBranches(e, c, env))

FoldLoop(e, env) ==
    With(FoldBlock(e.kids[1], env), LAMBDA b : MaybeFoldConstant(Rebuild(e, <<b>>), env))

FoldWhile(e, env) ==
    With(Fold(e.kids[1], env),
         LAMBDA c : IF ConstantBool(c, env) = "false" THEN UnitFor(e)
                    ELSE With(FoldBlock(e.kids[2], env),
                              LAMBDA b : MaybeFoldConstant(Rebuild(e, <<c, b>>), env)))

Fold(e, env) ==
    CASE e.op \in {"literal", "local"} -> IF e.rt THEN e ELSE MaybeFoldConstant(e, env)
      [] e.op = "and" -> FoldAnd(e, env)
      [] e.op = "call" -> FoldCall(e, env)
      [] e.op = "runtime" -> With(FoldBlock(e.kids[1], env), LAMBDA b : Rebuild(e, <<b>>))
      [] e.op = "block" -> With(FoldBlock(e, env), LAMBDA b : MaybeFoldConstant(b, env))
      [] e.op = "if" -> FoldIf(e, env)
      [] e.op = "loop" -> FoldLoop(e, env)
      [] e.op = "while" -> FoldWhile(e, env)
      [] e.op \in {"break", "return"} ->
            IF e.kids = <<>> THEN e ELSE With(Fold(e.kids[1], env), LAMBDA v : Rebuild(e, <<v>>))
      [] e.op = "continue" -> e

\* fold_program: every body, with its parameters unknown.
FoldProgram ==
    With(FoldBlock(callee, NoLocals),
         LAMBDA f : With(FoldBlock(body, NoLocals), LAMBDA b : [op |-> "program", body |-> b,
                                                                callee |-> f]))

-----------------------------------------------------------------------------
(* Execution of the compiled program: LIR builder and code generator.      *)
(* What probe was called with is the trace; it answers "false" the first   *)
(* `late' times and "true" from then on.                                   *)

Run(kind, value, trace, fuel) ==
    [kind |-> kind, value |-> value, trace |-> trace, fuel |-> fuel]
Went(r, value) == [r EXCEPT !.value = value]

\* Continue after a value.
After(r, Next0(_)) == IF r.kind = "value" THEN Next0(r) ELSE r

\* m: the compiled body of f, how late probe answers, and whether the innermost
\* loop has a local for the value of a break.
RECURSIVE Exec(_, _, _, _)
RECURSIVE ExecParts(_, _, _, _, _)
RECURSIVE ExecIterate(_, _, _, _)

ExecParts(b, i, env, r, m) ==
    IF i > Len(b.kids) THEN Went(r, "unit")
    ELSE LET q == Exec(b.kids[i], env, r, m)
         IN  IF q.kind # "value" THEN q
             ELSE IF b.roles[i] = "tail"
                  THEN IF b.kids[i].ty = "unit" THEN Went(q, "unit") ELSE q
             ELSE ExecParts(b, i + 1,
                            IF b.roles[i] = "let" THEN [env EXCEPT !["a"] = q.value] ELSE env,
                            q, m)

ExecBlock(b, env, r, m) == ExecParts(b, 1, env, r, m)

\* Both operands are computed before they are combined.
ExecAnd(e, env, r, m) ==
    After(Exec(e.kids[1], env, r, m),
          LAMBDA l : After(Exec(e.kids[2], env, l, m),
                           LAMBDA q : IF l.value = "true" THEN q ELSE Went(q, "false")))

\* An if of type unit has no local for the value of a branch.
ExecIf(e, env, r, m) ==
    LET result(q) == IF q.kind = "value" /\ e.ty = "unit" THEN Went(q, "unit") ELSE q
    IN  After(Exec(e.kids[1], env, r, m),
              LAMBDA c : result(CASE c.value = "true" -> ExecBlock(e.kids[2], env, c, m)
                                  [] c.value # "true" /\ Len(e.kids) = 3 ->
                                        Exec(e.kids[3], env, c, m)
                                  [] OTHER -> c))

ExecIterate(e, env, r, m) ==
    IF r.fuel = 0 THEN [r EXCEPT !.kind = "fuel"]
    ELSE LET slot == e.op = "loop" /\ e.ty = "bool"
             q == ExecBlock(Last(e.kids), env, [r EXCEPT !.fuel = @ - 1],
                            [m EXCEPT !.slot = slot])
         IN  CASE q.kind \in {"value", "continue"} ->
                    Exec(e, env, [q EXCEPT !.kind = "value"], m)
               [] q.kind = "break" ->
                    Run("value", IF slot THEN q.value ELSE "unit", q.trace, q.fuel)
               [] OTHER -> q

ExecWhile(e, env, r, m) ==
    After(Exec(e.kids[1], env, r, m),
          LAMBDA c : IF c.value = "true" THEN ExecIterate(e, env, c, m) ELSE Went(c, "unit"))

\* The value of a break is computed only for a loop that has a local for it.
ExecBreak(e, env, r, m) ==
    IF e.kids = <<>> \/ ~m.slot THEN [r EXCEPT !.kind = "break"]
    ELSE After(Exec(e.kids[1], env, r, m), LAMBDA v : [v EXCEPT !.kind = "break"])

ExecReturn(e, env, r, m) ==
    After(Exec(e.kids[1], env, r, m), LAMBDA v : [v EXCEPT !.kind = "return"])

ExecCallee(arg, m) ==
    IF arg.fuel = 0 THEN [arg EXCEPT !.kind = "fuel"]
    ELSE LET q == ExecBlock(m.callee, [NoLocals EXCEPT !["p"] = arg.value],
                            [arg EXCEPT !.fuel = @ - 1], m)
         IN  IF q.kind = "return" THEN [q EXCEPT !.kind = "value"] ELSE q

probe(arg, m) ==
    Run("value", IF Len(arg.trace) < m.late THEN "false" ELSE "true",
        Append(arg.trace, arg.value), arg.fuel)

assert(arg) ==
    IF arg.value = "false" THEN [arg EXCEPT !.kind = "abort"] ELSE Went(arg, "unit")

ExecCall(e, env, r, m) ==
    After(Exec(e.kids[1], env, r, m),
          LAMBDA arg : CASE e.v = "assert" -> assert(arg)
                         [] e.v = "probe" -> probe(arg, m)
                         [] e.v = "f" -> ExecCallee(arg, m))

Exec(e, env, r, m) ==
    CASE e.op = "literal" -> Went(r, e.v)
      [] e.op = "local" -> Went(r, env[e.v])
      [] e.op = "and" -> ExecAnd(e, env, r, m)
      [] e.op = "call" -> ExecCall(e, env, r, m)
      [] e.op = "block" -> ExecBlock(e, env, r, m)
      [] e.op = "runtime" -> ExecBlock(e.kids[1], env, r, m)
      [] e.op = "if" -> ExecIf(e, env, r, m)
      [] e.op = "loop" -> ExecIterate(e, env, r, m)
      [] e.op = "while" -> ExecWhile(e, env, r, m)
      [] e.op = "break" -> ExecBreak(e, env, r, m)
      [] e.op = "return" -> ExecReturn(e, env, r, m)
      [] e.op = "continue" -> [r EXCEPT !.kind = "continue"]

\* A whole execution: the value returned, or how else it ended.
Execute(b, f, x, late) ==
    LET r == ExecBlock(b, [NoLocals EXCEPT !["x"] = x], Run("value", "unit", <<>>, Fuel),
                       [callee |-> f, late |-> late, slot |-> FALSE])
    IN  IF r.kind = "return" THEN [r EXCEPT !.kind = "value"] ELSE r

-----------------------------------------------------------------------------
(* Assembling a body the type checker accepts.  An entry of the stack is   *)
(* an expression, the availabilities its free uses of the local a were     *)
(* given, and the jumps it makes to a loop around it.                      *)

Entry(e, needs, jumps) == [e |-> e, needs |-> needs, jumps |-> jumps]
Top(i) == stack[Len(stack) - i]
Exprs(n) == [i \in 1 .. n |-> Top(n - i).e]

\* Replace the n topmost entries by one.
Assemble(form, n, entry) ==
    /\ phase = "build" /\ form \in Forms /\ size < MaxSize
    /\ Len(stack) - n <= 2 * (MaxSize - size - 1)
    /\ stack' = Append(SubSeq(stack, 1, Len(stack) - n), entry)
    /\ size' = size + 1
    /\ UNCHANGED <<callee, phase, body, folded, outcome>>

\* A node over the n topmost entries, with what they need and where they jump.
Compose(form, n, e) ==
    Assemble(form, n, Entry(e, UNION {Top(i).needs : i \in 0 .. n - 1},
                            UNION {Top(i).jumps : i \in 0 .. n - 1}))

Has(n) == Len(stack) >= n
Ordinary(i) == Top(i).e.ty = "bool"

\* The forms without parts, and the entries they put on the stack.
Leaf == Entry(Literal("true", "bool"), {}, {})
Literals == {[Leaf EXCEPT !.e = Literal(v, "bool")] : v \in Booleans}
Parameters == {[Leaf EXCEPT !.e = Local("x", FALSE)]}
Locals == {[Leaf EXCEPT !.e = Local("a", rt), !.needs = {rt}] : rt \in BOOLEAN}
EmptyBlocks == {[Leaf EXCEPT !.e = TypedBlock(<<>>, <<>>)]}
Breaks == {Entry(Node("break", "", <<>>, <<>>, "never"), {}, {"bare"})}
Continues == {Entry(Node("continue", "", <<>>, <<>>, "never"), {}, {"continue"})}

BooleanLiteral == \E entry \in Literals : Assemble("literal", 0, entry)
Parameter == \E entry \in Parameters : Assemble("param", 0, entry)
LocalRef == \E entry \in Locals : Assemble("local", 0, entry)
EmptyBlock == \E entry \in EmptyBlocks : Assemble("empty", 0, entry)
Break == \E entry \in Breaks : Assemble("break", 0, entry)
Continue == \E entry \in Continues : Assemble("continue", 0, entry)

Call(name, ty) ==
    /\ Has(1) /\ Ordinary(0)
    /\ Compose(name, 1, Node("call", name, <<>>, Exprs(1), ty))

And ==
    /\ Has(2) /\ Ordinary(0) /\ Ordinary(1)
    /\ "dead_rhs" \in Forms \/ Top(0).e.op \in {"literal", "local"}
    /\ Compose("and", 2, Node("and", "", <<>>, Exprs(2), "bool"))

\* A statement or a let in front of a block; one let of a name in a block.
BlockOf(e) == {AsBlock(e), TypedBlock(<<"tail">>, <<e>>)}

Statement ==
    /\ Has(2)
    /\ \E b \in BlockOf(Top(0).e) :
          Compose("stmt", 2, TypedBlock(<<"stmt">> \o b.roles, <<Top(1).e>> \o b.kids))

Let ==
    /\ Has(2) /\ Ordinary(1) /\ Top(0).needs \subseteq {Top(1).e.rt}
    /\ \E b \in BlockOf(Top(0).e) :
          /\ ~Contains(b.roles, "let")
          /\ Assemble("let", 2, Entry(TypedBlock(<<"let">> \o b.roles, <<Top(1).e>> \o b.kids),
                                      Top(1).needs, Top(0).jumps \union Top(1).jumps))

\* A diverging runtime block yields nothing that depends on the runtime.
RuntimeBlock ==
    /\ Has(1)
    /\ LET b == AsBlock(Top(0).e)
           e == Node("runtime", "", <<>>, <<b>>, b.ty)
       IN  Compose("runtime", 1, IF b.ty = "never" THEN [e EXCEPT !.rt = b.rt] ELSE e)

If ==
    /\ Has(2) /\ Ordinary(1)
    /\ LET t == AsBlock(Top(0).e)
       IN  /\ "valued_then" \in Forms \/ t.ty # "bool"
           /\ Compose("if", 2, Node("if", "", <<>>, <<Top(1).e, t>>, "unit"))

JoinTypes(s, t) == IF s = "never" THEN t ELSE s

IfElse ==
    /\ Has(3) /\ Ordinary(2)
    /\ LET t == AsBlock(Top(1).e)
           f == IF Top(0).e.op = "if" THEN Top(0).e ELSE AsBlock(Top(0).e)
       IN  /\ t.ty = f.ty \/ "never" \in {t.ty, f.ty}
           /\ Compose("ifelse", 3,
                      Node("if", "", <<>>, <<Top(2).e, t, f>>, JoinTypes(t.ty, f.ty)))

\* The type of a loop is that of its breaks; they agree.
Loop ==
    /\ Has(1)
    /\ LET b == AsBlock(Top(0).e)
           breaks == {IF j = "bare" THEN "unit" ELSE j : j \in Top(0).jumps \ {"continue"}}
       IN  /\ breaks # Types \ {"never"}
           /\ Assemble("loop", 1,
                       Entry(Node("loop", "", <<>>, <<b>>,
                                  IF breaks = {} THEN "never" ELSE CHOOSE t \in breaks : TRUE),
                             Top(0).needs, {}))

While ==
    /\ Has(2) /\ Ordinary(1) /\ Top(0).jumps \subseteq {"bare", "continue"}
    /\ Assemble("while", 2,
                Entry(Node("while", "", <<>>, <<Top(1).e, AsBlock(Top(0).e)>>, "unit"),
                      Top(0).needs \union Top(1).needs, Top(1).jumps))

BreakValue ==
    /\ Has(1) /\ Top(0).e.ty # "never"
    /\ Ordinary(0) \/ "unit_break" \in Forms
    /\ Assemble("breakvalue", 1,
                Entry(Node("break", "", <<>>, Exprs(1), "never"), Top(0).needs,
                      Top(0).jumps \union {Top(0).e.ty}))

Return ==
    /\ Has(1) /\ Ordinary(0)
    /\ Compose("return", 1, Node("return", "", <<>>, Exprs(1), "never"))

Build ==
    \/ BooleanLiteral \/ Parameter \/ LocalRef \/ EmptyBlock
    \/ Call("assert", "unit") \/ Call("probe", "bool") \/ Call("f", "bool")
    \/ And \/ Statement \/ Let \/ RuntimeBlock
    \/ If \/ IfElse \/ Loop \/ While
    \/ Break \/ BreakValue \/ Continue \/ Return

\* The expression on the stack is the body of a function of x that returns a
\* Boolean; f has one of its bodies.
Accept ==
    /\ phase = "build" /\ Len(stack) = 1
    /\ Top(0).needs = {} /\ Top(0).jumps = {} /\ Top(0).e.ty # "unit"
    /\ phase' = "check" /\ body' = AsBlock(Top(0).e) /\ stack' = <<>>
    /\ callee' \in Callees
    /\ UNCHANGED <<size, folded, outcome>>

FoldStep ==
    /\ phase = "check"
    /\ phase' = "folded" /\ folded' = FoldProgram
    /\ UNCHANGED <<callee, stack, size, body, outcome>>

\* Only what fold_program accepted is compiled.
ExecuteStep ==
    /\ phase = "folded" /\ ~Failed(folded)
    /\ \E x \in Booleans, late \in 0 .. 1 :
          outcome' = [x |-> x, source |-> Execute(body, callee, x, late),
                      compiled |-> Execute(folded.body, folded.callee, x, late)]
    /\ phase' = "executed"
    /\ UNCHANGED <<callee, stack, size, body, folded>>

NoTree == TypedBlock(<<>>, <<>>)
NoOutcome == [x |-> "unit", source |-> Run("value", "unit", <<>>, 0),
              compiled |-> Run("value", "unit", <<>>, 0)]

Init ==
    /\ stack = <<>> /\ size = 0 /\ phase = "build"
    /\ callee = NoTree /\ body = NoTree /\ folded = NoTree /\ outcome = NoOutcome

Next == Build \/ Accept \/ FoldStep \/ ExecuteStep

Spec == Init /\ [][Next]_vars

-----------------------------------------------------------------------------
(* Properties.                                                             *)

\* Trees as they are assembled and as folding leaves them: a type at every
\* node, a role for every part of a block, and the parts an if has.
WellFormed(e) ==
    \A n \in Nodes(e) :
        /\ n.ty \in Types /\ n.rt \in BOOLEAN
        /\ n.op = "block" => Len(n.roles) = Len(n.kids)
        /\ n.op = "if" => Len(n.kids) \in {2, 3} /\ n.kids[2].op = "block"

\* Every tree is well formed: the ones being assembled (cstc_tyir_builder) and
\* the ones fold_program leaves behind.
TypeOK ==
    /\ phase \in {"build", "check", "folded", "executed"}
    /\ size \in 0 .. MaxSize
    /\ \A i \in DOMAIN stack : stack[i].needs \subseteq BOOLEAN /\ WellFormed(stack[i].e)
    /\ phase = "folded" /\ ~Failed(folded) => WellFormed(folded.body) /\ WellFormed(folded.callee)

\* Whatever the parameter is and whatever the runtime answers, the folded
\* program makes the same runtime calls and ends the same way as the program
\* that was written.  Executions cut off by the bound agree as far as both go.
FoldPreservesExecution ==
    phase = "executed" =>
        LET s == outcome.source
            c == outcome.compiled
        IN  IF "fuel" \in {s.kind, c.kind}
            THEN IsPrefix(s.trace, c.trace) \/ IsPrefix(c.trace, s.trace)
            ELSE /\ s.kind = c.kind /\ s.trace = c.trace
                 /\ s.kind = "value" => s.value = c.value

\* Evaluating a body at compile time, where that succeeds, gives what running
\* it gives, and an assertion that fails at compile time fails at run time.
EvalMatchesExecution ==
    phase = "check" =>
        \A x \in Booleans :
            LET s == EvalBlock(body, [NoLocals EXCEPT !["x"] = x], StepBudget, FreshContext)
                r == Execute(body, callee, x, 0)
            IN  /\ s.kind \in {"value", "return"} =>
                       r.kind = "value" /\ r.value = s.value /\ r.trace = <<>>
                /\ s.kind = "failed" => r.kind = "abort" /\ r.trace = <<>>

\* A literal folding produced has a value of the type of the expression it
\* replaces.
FoldKeepsTypes ==
    phase = "folded" /\ ~Failed(folded) =>
        \A n \in Nodes(folded.body) : n.op = "literal" => n.v \in ValuesOf[n.ty]

\* The parts of a folded tree an execution may get to.
RECURSIVE Reachable(_)
Reachable(e) ==
    LET dead == IF e.op = "and" /\ e.kids[1].v = "false" THEN {2} ELSE {}
    IN  {e} \union UNION {Reachable(e.kids[i]) : i \in Reached(e.op, e.kids) \ dead}

\* Folding leaves nothing it could have computed where an execution can get to:
\* no call of a pure function with a known argument, no branch on a constant.
NothingLeftToFold ==
    phase = "folded" /\ ~Failed(folded) =>
        \A n \in Reachable(folded.body) :
            n.op = "if" \/ (n.op = "call" /\ n.v # "probe") => n.kids[1].op # "literal"
=============================================================================
