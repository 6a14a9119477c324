------------------------- MODULE GenericConstraints -------------------------
(***************************************************************************)
(* validate_program_constraints: the where clauses of the items, and of    *)
(* what the function bodies call and initialize, are evaluated at compile  *)
(* time.  Whatever depends on the parameter of the surrounding item is     *)
(* skipped.  Every check starts with a fresh ConstraintEvalState; inside a *)
(* check, an instance that met its where clause is not evaluated again.    *)
(***************************************************************************)
EXTENDS GenericProgram

VARIABLES
  checking,    \* the item whose checks are made, as a place in program.order
  evaluating,  \* the where clauses under evaluation; the item's checks below
  satisfied,   \* ConstraintEvalState::satisfied_keys
  answer       \* how the constraint just evaluated came out, or "none"

constraintVars == <<checking, evaluating, satisfied, answer>>

Constraint(form, type, negated) == [form |-> form, of |-> type, negated |-> negated]

(* (bug) initializers are not held to the where clause of the struct *)
UseConstraint_CallsOnly(use) ==
  Constraint(IF use.op = "call" THEN "use" ELSE "unchecked", use.of, FALSE)

(* validate_constraints_in_block: calls and initializers of a body are      *)
(* held to the where clause of what they name; the other mentions are not.  *)
UseConstraint(use) ==
  Constraint(IF use.op \in {"call", "init"} THEN "use" ELSE "unchecked", use.of, FALSE)

WhereClause(inst) ==
  LET clause == Item(inst[1]).where
      argument == Tail(inst)
  IN  [k \in DOMAIN clause |->
         [clause[k] EXCEPT !.of = apply_substitution(@, argument)]]

(* What is checked of an item: its where clause, its parameter left as it   *)
(* is, and then the uses in its body.                                       *)
ItemChecks(name) ==
  Item(name).where \o [k \in DOMAIN Item(name).uses |-> UseConstraint(Item(name).uses[k])]

(* A frame is an instance, its constraints, and the one that evaluation has *)
(* come to.  active_keys and instantiation_stack of the code are the frames *)
(* above the first: they are pushed, and popped, together.                  *)
Evaluation(inst) == [inst |-> inst, clause |-> WhereClause(inst), at |-> 1]

Checks(place) ==
  LET name == program.order[place]
  IN  <<[inst |-> <<name>>, clause |-> ItemChecks(name), at |-> 1]>>

ConstraintInit ==
  /\ checking = 1
  /\ evaluating = Checks(1)
  /\ satisfied = {}
  /\ answer = "none"

AtItem == Len(evaluating) = 1
Evaluated == evaluating[Len(evaluating)]
HasConstraint == Evaluated.at <= Len(Evaluated.clause)
Current == Evaluated.clause[Evaluated.at]

Skipped(constraint) ==
  \/ constraint.form = "unchecked"
  \/ constraint.form # "literal" /\ DependsOnParameter(constraint.of)

(* A call of a runtime function is refused before its where clause is       *)
(* looked at, in a probe as in an evaluation.                               *)
IsRuntimeOnly(constraint) ==
  constraint.form \in {"decl", "call"} /\ Item(constraint.of[1]).runtime

Holds(outcome) == IF outcome THEN "holds" ELSE "fails"

(* The constraints that are decided without another where clause: the       *)
(* literals, the probe of the parameter, and what is runtime-only.  A probe *)
(* of a runtime call is Invalid, which a comparison may ask for; evaluating *)
(* one fails the clause.                                                    *)
IsImmediate(constraint) ==
  constraint.form \in {"literal", "const num"} \/ IsRuntimeOnly(constraint)

Immediate(constraint) ==
  LET valid == CASE constraint.form = "literal" -> TRUE
                 [] constraint.form = "const num" -> constraint.of = <<"num">>
                 [] OTHER -> FALSE
  IN  Holds(IF constraint.form = "call" THEN FALSE ELSE valid # constraint.negated)

(* How a constraint comes out once the where clause of what it names is     *)
(* known to be met or refused.                                              *)
Judge(constraint, met) ==
  CASE constraint.form = "decl" -> Holds(met # constraint.negated)
    [] constraint.form = "call" ->
         Holds(met /\ Item(constraint.of[1]).value # constraint.negated)
    [] constraint.form = "use"  -> Holds(met)

ActiveKeys == {Key(evaluating[i].inst) : i \in 2..Len(evaluating)}
TooDeep == Len(evaluating) - 1 >= kMaxGenericInstantiationDepth

Moved(frames) == [frames EXCEPT ![Len(frames)].at = @ + 1]

SkipConstraint ==
  /\ phase = "constraints" /\ answer = "none" /\ AtItem /\ HasConstraint
  /\ Skipped(Current)
  /\ evaluating' = Moved(evaluating)
  /\ UNCHANGED <<checking, satisfied, answer, program, phase, reason>>

Examine ==
  /\ phase = "constraints" /\ answer = "none" /\ HasConstraint
  /\ AtItem => ~Skipped(Current)

Decide ==
  /\ Examine /\ IsImmediate(Current)
  /\ answer' = Immediate(Current)
  /\ UNCHANGED <<checking, evaluating, satisfied, program, phase, reason>>

(* enforce_constraints, from here to Met and Unmet. *)
Enforce == Examine /\ ~IsImmediate(Current)

Remembered ==
  /\ Enforce
  /\ Key(Current.of) \in satisfied
  /\ answer' = Judge(Current, TRUE)
  /\ UNCHANGED <<checking, evaluating, satisfied, program, phase, reason>>

Unbounded ==
  /\ Enforce
  /\ Key(Current.of) \notin satisfied
  /\ Key(Current.of) \in ActiveKeys \/ TooDeep
  /\ Refuse("constraint limit")
  /\ UNCHANGED <<program, constraintVars>>

Evaluate ==
  /\ Enforce
  /\ Key(Current.of) \notin satisfied
  /\ Key(Current.of) \notin ActiveKeys /\ ~TooDeep
  /\ evaluating' = Append(evaluating, Evaluation(Current.of))
  /\ UNCHANGED <<checking, satisfied, answer, program, phase, reason>>

Below == SubSeq(evaluating, 1, Len(evaluating) - 1)
Asking == Below[Len(Below)].clause[Below[Len(Below)].at]

Met ==
  /\ phase = "constraints" /\ answer = "none" /\ ~AtItem /\ ~HasConstraint
  /\ evaluating' = Below
  /\ satisfied' = satisfied \union {Key(Evaluated.inst)}
  /\ answer' = Judge(Asking, TRUE)
  /\ UNCHANGED <<checking, program, phase, reason>>

(* (bug) the key is recorded on the way out of every evaluation *)
Unmet_Remembered ==
  /\ phase = "constraints" /\ answer = "fails" /\ ~AtItem
  /\ evaluating' = Below
  /\ satisfied' = satisfied \union {Key(Evaluated.inst)}
  /\ answer' = Judge(Asking, FALSE)
  /\ UNCHANGED <<checking, program, phase, reason>>

Unmet ==
  /\ phase = "constraints" /\ answer = "fails" /\ ~AtItem
  /\ evaluating' = Below
  /\ answer' = Judge(Asking, FALSE)
  /\ UNCHANGED <<checking, satisfied, program, phase, reason>>

(* (bug) the checks of an item share one state *)
Continue_SharedState ==
  /\ phase = "constraints" /\ answer = "holds"
  /\ evaluating' = Moved(evaluating)
  /\ answer' = "none"
  /\ UNCHANGED <<checking, satisfied, program, phase, reason>>

(* The next constraint; the next check of an item has a state of its own. *)
Continue ==
  /\ phase = "constraints" /\ answer = "holds"
  /\ evaluating' = Moved(evaluating)
  /\ satisfied' = IF AtItem THEN {} ELSE satisfied
  /\ answer' = "none"
  /\ UNCHANGED <<checking, program, phase, reason>>

RefuseConstraint ==
  /\ phase = "constraints" /\ answer = "fails" /\ AtItem
  /\ Refuse("constraint")
  /\ UNCHANGED <<program, constraintVars>>

NextItem ==
  /\ phase = "constraints" /\ answer = "none" /\ AtItem /\ ~HasConstraint
  /\ checking < Len(program.order)
  /\ checking' = checking + 1
  /\ evaluating' = Checks(checking + 1)
  /\ UNCHANGED <<satisfied, answer, program, phase, reason>>

ConstraintsChecked ==
  /\ phase = "constraints" /\ answer = "none" /\ AtItem /\ ~HasConstraint
  /\ checking = Len(program.order)
  /\ phase' = "lowering"
  /\ UNCHANGED <<program, reason, constraintVars>>

ConstraintNext ==
  \/ SkipConstraint \/ Decide \/ Remembered \/ Unbounded \/ Evaluate
  \/ Met \/ Unmet \/ Continue \/ RefuseConstraint
  \/ NextItem \/ ConstraintsChecked
=============================================================================
