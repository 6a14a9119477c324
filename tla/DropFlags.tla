------------------------------ MODULE DropFlags ------------------------------
(***************************************************************************)
(* What the native program does with the owned values of a function the   *)
(* checker accepted: cstc_lir_builder allocates the locals and emits the   *)
(* drops of the scopes a jump leaves, cstc_codegen guards every drop with  *)
(* the local's drop flag.  Conditions are arbitrary.                       *)
(***************************************************************************)
EXTENDS BorrowChecker

VARIABLES
    pc,   \* <<token, stage>>; a loop header is entered, tested, or stepped
    mem   \* the drop flags that are set, what references point at, and faults

vars == <<source, locals, open, known, phase, pc, mem>>

\* LIR locals that own: a binding, or the temporary of a statement, of a loop
\* condition, of a loop step.
Let(p) == <<p, "let">>
Tmp(p) == <<p, "tmp">>
Cond(p) == <<p, "cond">>
Step(p) == <<p, "step">>

At == pc[1]
Stage == pc[2]
Current == source[At]
Go(p) == <<p, "enter">>

-----------------------------------------------------------------------------
(***************************************************************************)
(* cstc_lir_builder: scope frames and jump targets                         *)
(***************************************************************************)

Nest(p) == known[p].nest
Scope(p) == Nest(p)[Len(Nest(p))]

EndOf(p) == CHOOSE e \in DOMAIN source : source[e].op = "end" /\ Scope(e) = p

ElseOf(p) ==
    {e \in DOMAIN source : source[e].op = "else" /\ source[e].arg = p}

\* The locals alloc_local records in the frame a token is lowered in.
Allocates(p) ==
    CASE source[p].op \in {"make", "move"}    -> {Let(p)}
      [] source[p].op \in {"temp", "refTemp"} -> {Tmp(p)}
      [] source[p].op = "while"               -> {Cond(p)}
      [] OTHER                                -> {}

\* The frame of block q as it is when token p is lowered
Frame(q, p) ==
    UNION {Allocates(k) : k \in {i \in DOMAIN source : i < p /\ Scope(i) = q}}

\* The frame a `for' pushes around its header; the step is lowered last.
HeaderFrame(q, p) ==
    IF source[q].op # "for" THEN {}
    ELSE {Let(q), Cond(q)} \cup (IF p > EndOf(q) THEN {Step(q)} ELSE {})

Parameters == {Let(0)}

\* (bug) the drops stop one frame early
emit_scope_drops_to_depth_Short(p, depth) ==
    (UNION {Frame(Nest(p)[k], p) : k \in depth + 2 .. Len(Nest(p))})
    \cup (UNION {HeaderFrame(Nest(p)[k], p) : k \in depth + 2 .. Len(Nest(p))})

\* What is dropped when p leaves all but the outermost `depth' blocks
emit_scope_drops_to_depth(p, depth) ==
    (UNION {Frame(Nest(p)[k], p) : k \in depth + 1 .. Len(Nest(p))})
    \cup (UNION {HeaderFrame(Nest(p)[k], p) : k \in depth + 2 .. Len(Nest(p))})

DepthOf(p, q) == CHOOSE k \in DOMAIN Nest(p) : Nest(p)[k] = q

-----------------------------------------------------------------------------
(***************************************************************************)
(* cstc_codegen: drop flags                                                *)
(***************************************************************************)

\* lower_operand of a Move: the value is loaded whatever the flag says.
MoveOut(m, x) ==
    IF x \in m.live THEN [m EXCEPT !.live = @ \ {x}]
    ELSE [m EXCEPT !.faults = @ \cup {"stale"}]

\* An assignment overwrites the slot; a value still owned there is lost.
Assign(m, x) ==
    IF x \in m.live THEN [m EXCEPT !.faults = @ \cup {"lost"}]
    ELSE [m EXCEPT !.live = @ \cup {x}]

\* LirDrop frees what the flag says is there.
Drop(m, xs) == [m EXCEPT !.live = @ \ xs]

Point(m, r, x) == [m EXCEPT !.points = [p \in DOMAIN @ \cup {r} |-> IF p = r THEN x ELSE @[p]]]

\* Reading through a borrow of an owned local, or through a reference
Touch(m, x) == IF x \in m.live THEN m ELSE [m EXCEPT !.faults = @ \cup {"stale"}]

Target(p) == IF p \in DOMAIN mem.points THEN mem.points[p] ELSE Let(p)

-----------------------------------------------------------------------------
Start ==
    /\ Accept
    /\ pc' = Go(1)
    /\ mem' = [live |-> Parameters, points |-> <<>>, faults |-> {}]

Running == phase = "run" /\ UNCHANGED checkVars

Effect(op) ==
    LET x == Let(Current.arg)
    IN  CASE op = "make"    -> Assign(mem, Let(At))
          [] op = "temp"    -> Assign(mem, Tmp(At))
          [] op = "refTemp" -> Point(Assign(mem, Tmp(At)), At, Tmp(At))
          [] op = "move"    -> Assign(MoveOut(mem, x), Let(At))
          [] op = "consume" -> MoveOut(mem, x)
          [] op = "discard" -> mem
          [] op = "borrow"  -> Point(Touch(mem, x), At, x)
          [] op = "copy"    -> Point(mem, At, mem.points[Current.arg])
          [] op = "use"     -> Touch(mem, Target(Current.arg))
          [] OTHER          -> mem

Statement ==
    /\ Running /\ Current.op \in {"make", "temp", "refTemp", "move", "consume",
                                  "discard", "borrow", "copy", "use", "block", "loop"}
    /\ mem' = Effect(Current.op)
    /\ pc' = Go(At + 1)

If ==
    /\ Running /\ Current.op = "if"
    /\ \/ pc' = Go(At + 1)
       \/ /\ ElseOf(At) = {}
          /\ pc' = Go(EndOf(At) + 1)
       \/ \E e \in ElseOf(At) : pc' = Go(e + 1)
    /\ UNCHANGED mem

\* A loop header's condition or step
Evaluate(m, effect, slot) ==
    CASE effect = "flag" -> m
      [] effect = "temp" -> Assign(m, slot)
      [] effect = "take" -> MoveOut(m, Let(Current.arg))

While ==
    /\ Running /\ Current.op = "while"
    /\ mem' = Evaluate(mem, Current.cond, Cond(At))
    /\ pc' \in {Go(At + 1), Go(EndOf(At) + 1)}

ForInit ==
    /\ Running /\ Current.op = "for" /\ Stage = "enter"
    /\ mem' = Assign(mem, Let(At))
    /\ pc' = <<At, "test">>

ForTest ==
    /\ Running /\ Current.op = "for" /\ Stage = "test"
    /\ LET tested == Evaluate(mem, Current.cond, Cond(At))
           after  == EndOf(At) + 1
       IN  \/ pc' = Go(At + 1) /\ mem' = tested
           \/ pc' = Go(after) /\ mem' = Drop(tested, HeaderFrame(At, after))

ForStep ==
    /\ Running /\ Current.op = "for" /\ Stage = "step"
    /\ mem' = Evaluate(mem, Current.step, Step(At))
    /\ pc' = <<At, "test">>

\* Where a loop goes on: its header, or the step of a `for'
ContinueTarget(q) == IF source[q].op = "for" THEN <<q, "step">> ELSE Go(q)

EndOfBlock ==
    /\ Running /\ Current.op \in {"end", "else"} /\ Scope(At) # 0
    /\ mem' = Drop(mem, Frame(Scope(At), At))
    /\ pc' = IF source[Scope(At)].op \in {"loop", "while", "for"}
             THEN ContinueTarget(Scope(At)) ELSE Go(EndOf(Scope(At)) + 1)

JumpContinue ==
    /\ Running /\ Current.op = "continue"
    /\ mem' = Drop(mem, emit_scope_drops_to_depth(At, DepthOf(At, Current.arg) - 1))
    /\ pc' = ContinueTarget(Current.arg)

\* The block after a `for' drops the header's frame.
JumpBreak ==
    /\ Running /\ Current.op = "break"
    /\ LET after == EndOf(Current.arg) + 1
       IN  /\ mem' = Drop(Drop(mem, emit_scope_drops_to_depth(At, DepthOf(At, Current.arg) - 1)),
                          HeaderFrame(Current.arg, after))
           /\ pc' = Go(after)

ReturnFromFn ==
    /\ phase = "run"
    /\ Current.op = "return" \/ (Current.op = "end" /\ Scope(At) = 0)
    /\ mem' = Drop(mem, emit_scope_drops_to_depth(At, 0) \cup Parameters)
    /\ phase' = "done"
    /\ UNCHANGED <<source, locals, open, known, pc>>

Init == CheckInit /\ pc = Go(1) /\ mem = [live |-> {}, points |-> <<>>, faults |-> {}]

Next ==
    \/ CheckStep /\ UNCHANGED <<pc, mem>>
    \/ Start
    \/ Statement \/ If \/ While \/ ForInit \/ ForTest \/ ForStep
    \/ EndOfBlock \/ JumpContinue \/ JumpBreak \/ ReturnFromFn

Spec == Init /\ [][Next]_vars

-----------------------------------------------------------------------------
(***************************************************************************)
(* Properties                                                              *)
(***************************************************************************)

LoopsAround(p) ==
    {q \in DOMAIN source \cap {Nest(p)[k] : k \in DOMAIN Nest(p)} :
        source[q].op \in {"loop", "while", "for"}}

\* The checker reads a loop once.  What it accepts is only meaningful when a
\* loop moves nothing it does not declare in its own body.
LoopsMoveTheirOwn ==
    \A p \in DOMAIN source :
        /\ source[p].op \in {"move", "consume"} =>
              \A q \in LoopsAround(p) : source[p].arg > q
        /\ "take" \notin {source[p].cond, source[p].step}

NoHeaderTemporaries ==
    \A p \in DOMAIN source : "temp" \notin {source[p].cond, source[p].step}

\* The checker's state is sound for what executes: whatever it let the program
\* use at a point is there when the point is reached, on every path, and so is
\* whatever a reference in scope points at.
CheckedLocalsLive ==
    phase = "run" /\ LoopsMoveTheirOwn =>
        \A k \in DOMAIN known[At].locals :
            LET l == known[At].locals[k]
            IN  IF l.ref THEN mem.points[l.pos] \in mem.live
                ELSE l.moved \/ Let(l.pos) \in mem.live

\* Every owned value is freed exactly once: none is overwritten while it is
\* owned, and none is left when the function returns by whatever jump.
NothingLeaks ==
    NoHeaderTemporaries =>
        /\ "lost" \notin mem.faults
        /\ phase = "done" => mem.live = {}

\* A value is not moved away under a reference that stays in scope.
OwnerOutlivesReference ==
    [][phase = "run" /\ phase' = "run" =>
        \A k \in DOMAIN known[At].locals, n \in DOMAIN known[pc'[1]].locals :
            LET l == known[At].locals[k]
            IN  /\ l.ref /\ known[pc'[1]].locals[n].pos = l.pos
                /\ mem.points[l.pos] \in mem.live
                => mem.points[l.pos] \in mem'.live]_vars

\* "moved locals become unusable": no move or borrow reads a local whose value
\* is gone.
MovedIsUnusable == "stale" \notin mem.faults

\* The same for the programs the checker reads rightly: on every path, through
\* branches and loops, no move or borrow reads a local whose value is gone.
AcceptedMovesAreSafe == LoopsMoveTheirOwn => MovedIsUnusable

\* A temporary "lives for the enclosing lexical scope and is dropped
\* automatically like an ordinary binding".
TemporariesDropped == "lost" \notin mem.faults

=============================================================================
