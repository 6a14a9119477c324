---------------------------- MODULE Instantiation ----------------------------
(***************************************************************************)
(* A program with generic items on its way through the three passes that   *)
(* expand instantiations.  Each pass bounds its recursion with the same    *)
(* constant but counts something else, and each remembers what it has      *)
(* already done, under keys, so that a long expansion may be cut short.    *)
(***************************************************************************)
EXTENDS TypeRecursion, GenericConstraints, Monomorphizer, FiniteSets

(* The numbers of nested where clauses to which constraints are evaluated   *)
(* in what is stated of them; to find an outcome they have to be as many as *)
(* the evaluator, which remembers, gets through with on Programs.           *)
CONSTANT Depths

ASSUME DepthsAssumption == Depths \subseteq Nat

vars == <<program, phase, reason, typeVars, constraintVars, monoVars>>

Init ==
  /\ program \in Programs
  /\ phase = "types"
  /\ reason = "none"
  /\ TypeInit
  /\ ConstraintInit
  /\ MonoInit

(* The compiler has returned. *)
Stopped == phase \in {"done", "refused"} /\ UNCHANGED vars

Next ==
  \/ TypeNext /\ UNCHANGED <<constraintVars, monoVars>>
  \/ ConstraintNext /\ UNCHANGED <<typeVars, monoVars>>
  \/ MonoNext /\ UNCHANGED <<typeVars, constraintVars>>
  \/ Stopped

(* The passes are functions of the compiler called one after the other on   *)
(* one thread: nothing keeps a step from being taken.                       *)
Spec == Init /\ [][Next]_vars /\ WF_vars(Next)

-----------------------------------------------------------------------------
Occurs(sequence) == {sequence[i] : i \in DOMAIN sequence}

(* The registers of the three passes hold what their types say. *)
TypeOK ==
  /\ phase \in Phases
  /\ reason \in {"none", "type cycle", "type limit", "constraint",
                 "constraint limit", "lowering limit"}
  /\ reason # "none" <=> phase = "refused"
  /\ \A i \in DOMAIN expanding : i > 1 => IsStruct(expanding[i].inst[1])
  /\ \A type \in visited : IsStruct(type[1])
  /\ checking \in DOMAIN program.order
  /\ \A i \in DOMAIN evaluating : IsItem(evaluating[i].inst[1])
  /\ answer \in {"none", "holds", "fails"}
  /\ item \in 1..(Len(program.order) + 1)
  /\ \A i \in DOMAIN work : IsItem(work[i].inst[1])
  /\ \A inst \in instantiated : IsGeneric(inst[1])

-----------------------------------------------------------------------------
(* Types.                                                                   *)

(* The structs an instance of a struct contains or points to. *)
Contains(inst) ==
  {type \in {Pointee(FieldTypes(inst)[k]) : k \in DOMAIN FieldTypes(inst)} :
     IsStruct(type[1])}

(* A program is refused by the type checker only over an expansion that is  *)
(* there: each struct on the stack is one the struct below it contains, the *)
(* one that could not be entered is contained in the last, and either       *)
(* closes a cycle or is one too many.  (The stack is what the diagnostic    *)
(* shows to the user.)                                                      *)
TypeRefusalIsReal ==
  phase = "refused" /\ reason \in {"type cycle", "type limit"} =>
    /\ \A i \in 3..Len(expanding) :
         expanding[i].inst \in Contains(expanding[i-1].inst)
    /\ \A i, j \in 2..Len(expanding) :
         i # j => Key(expanding[i].inst) # Key(expanding[j].inst)
    /\ reason = "type cycle" =>
         \E i \in 2..Len(expanding) : Key(expanding[i].inst) = Key(NextType)
    /\ reason = "type limit" =>
         Cardinality({i \in DOMAIN expanding : Len(expanding[i].inst) > 1})
           = kMaxGenericInstantiationDepth

(* The structs of the emitted program are finite: whichever of them are     *)
(* left, one contains none of the others, so that none is inside itself.    *)
(* The type checker expanded the declarations with their parameters opaque  *)
(* and each of them once; the monomorphizer, which has no check of its own, *)
(* emits other instances of them.                                           *)
EmittedTypesAreFinite ==
  phase = "done" =>
    LET structs == {inst \in Occurs(emitted) : IsStruct(inst[1])}
    IN  \A left \in SUBSET structs :
          left # {} =>
            \E inst \in left : {Key(type) : type \in Contains(inst)} \intersect left = {}

-----------------------------------------------------------------------------
(* Constraints.                                                             *)

JudgeOutcome(constraint, outcome) ==
  IF outcome = "too deep" THEN outcome ELSE Judge(constraint, outcome = "holds")

FirstThatStops(outcomes) ==
  LET stops == {k \in DOMAIN outcomes : outcomes[k] # "holds"}
  IN  IF stops = {} THEN "holds"
      ELSE outcomes[CHOOSE k \in stops : \A j \in stops : k <= j]

(* How a constraint comes out, given how the where clauses come out of      *)
(* which it may need one.                                                   *)
OutcomeWith(constraint, outcomes) ==
  IF IsImmediate(constraint) THEN Immediate(constraint)
  ELSE JudgeOutcome(constraint, outcomes[constraint.of])

ClauseOutcome(clause, outcomes) ==
  FirstThatStops([k \in DOMAIN clause |-> OutcomeWith(clause[k], outcomes)])

(* The where clause of an instance, evaluated with nothing remembered and   *)
(* nothing cut short but by the number of nested clauses.                   *)
Outcome[depth \in Nat] ==
  IF depth = 0 THEN [inst \in Seq(STRING) |-> "too deep"]
  ELSE [inst \in Seq(STRING) |-> ClauseOutcome(WhereClause(inst), Outcome[depth - 1])]

(* The instances that a key may stand for. *)
Named(key) ==
  {key, [level \in DOMAIN key |->
           IF key[level] = "num" THEN "runtime num" ELSE key[level]]}

(* Each check of a program is about num or about runtime num, if about one  *)
(* of them at all, and the where clauses it leads to about the same: within *)
(* a check, no two instances have one key.                                  *)
Unmixed(p) ==
  LET Clauses == UNION {{constraint.of : constraint \in Occurs(p.decl[name].where)}
                          : name \in DOMAIN p.decl}
      Used == UNION {{use.of : use \in {u \in Occurs(p.decl[name].uses) :
                                         u.op \in {"call", "init"}}}
                       : name \in DOMAIN p.decl}
  IN  \A check \in Clauses \union Used :
        \E primitive \in {"num", "runtime num"} :
          \A type \in {check} \union Clauses : primitive \notin Occurs(type)

(* What is remembered as satisfied is satisfied: the clause holds for an    *)
(* instance of that key when it is evaluated afresh, whatever failed or was *)
(* under evaluation when the key was recorded.                              *)
RememberedHold ==
  \A key \in satisfied :
    \E inst \in Named(key), depth \in Depths : Outcome[depth][inst] = "holds"

(* How a check of an item comes out without memory. *)
CheckOutcome(constraint, depth) ==
  IF Skipped(constraint) THEN "holds" ELSE OutcomeWith(constraint, Outcome[depth])

AllChecks ==
  UNION {Occurs(ItemChecks(program.order[k])) : k \in DOMAIN program.order}

(* The programs that get past the constraints are those all of whose checks *)
(* hold by themselves; one refused has a check that fails, or that nests    *)
(* its clauses past the limit.  The keys remembered, the probes that turn a *)
(* refusal into a value, and the order of the checks make no difference but *)
(* that what is remembered may spare an evaluation that would be too deep.  *)
ConstraintVerdictIsRight ==
  /\ phase \in {"lowering", "done"} =>
       \A check \in AllChecks : \E depth \in Depths : CheckOutcome(check, depth) = "holds"
  /\ reason = "constraint" =>
       \E check \in AllChecks, depth \in Depths : CheckOutcome(check, depth) = "fails"
  /\ reason = "constraint limit" =>
       \E check \in AllChecks :
         CheckOutcome(check, kMaxGenericInstantiationDepth) = "too deep"

-----------------------------------------------------------------------------
(* Lowering.                                                                *)

(* The instances of generic items that emitting a declaration asks for.     *)
Asks(inst) ==
  LET types == Mentions(inst)
      parts == UNION {{SubSeq(types[k], p, Len(types[k])) : p \in 1..Len(types[k])}
                        : k \in DOMAIN types}
  IN  {part \in parts : IsGeneric(part[1])}

(* Every name that an emitted declaration mentions is the name of an        *)
(* emitted declaration: the cache answers before the body exists, and what  *)
(* it promised is emitted before lower_program returns.                     *)
NoDanglingInstance ==
  phase = "done" =>
    \A inst \in Occurs(emitted) : Asks(inst) \subseteq Occurs(emitted)

(* The cache of instances and the sets of what has been emitted, kept       *)
(* apart, tell the same: an instance has been promised when and only when   *)
(* its declaration has been begun.  Were it only promised, its name would   *)
(* stay undefined; were it only begun, the next to ask for it would use up  *)
(* a level of the limit, and be refused there for an instance that exists.  *)
PromisedIsBegun == instantiated = {inst \in Begun : IsGeneric(inst[1])}

WithAsked(set) == set \union UNION {Asks(inst) : inst \in set}

(* What is asked for, starting from the items without parameters. *)
NeededAfter[steps \in Nat] ==
  IF steps = 0
  THEN {<<program.order[k]>> :
          k \in {j \in DOMAIN program.order : ~IsGeneric(program.order[j])}}
  ELSE WithAsked(NeededAfter[steps - 1])

(* No declaration is written to out_ twice, whoever asks again while it is  *)
(* under way, and none is written that nothing asks for.                    *)
EmittedOnceAndNeeded ==
  /\ \A i, j \in DOMAIN emitted : i # j => emitted[i] # emitted[j]
  /\ phase = "done" =>
       Occurs(emitted) \subseteq NeededAfter[kMaxGenericInstantiationDepth]

(* Lowering gives up only on an expansion that is there: a chain of         *)
(* pairwise different instances, as long as the limit, each asked for by    *)
(* the one before, that goes on.                                            *)
LoweringRefusalIsReal ==
  reason = "lowering limit" =>
    /\ Len(work) = kMaxGenericInstantiationDepth + 1
    /\ \A i, j \in DOMAIN work : i # j => work[i].inst # work[j].inst
    /\ \A i \in 2..Len(work) : work[i].inst \in Asks(work[i-1].inst)
    /\ NextPart \notin {work[i].inst : i \in DOMAIN work}

-----------------------------------------------------------------------------
(* The passes together.                                                     *)

(* What an item without parameters calls or initializes had its where       *)
(* clause evaluated, and met, before it was lowered.  (Not so for what the  *)
(* bodies of generic items mention: those checks are skipped, and no pass   *)
(* comes back to them after substitution.)                                  *)
EmittedCallsMeetConstraints ==
  phase = "done" =>
    \A inst \in Occurs(emitted) :
      IsGeneric(inst[1]) \/
      \A k \in DOMAIN Item(inst[1]).uses :
        LET use == Item(inst[1]).uses[k]
        IN  use.op \in {"call", "init"} =>
              /\ IsGeneric(use.of[1]) => Key(use.of) \in Occurs(emitted)
              /\ \E depth \in Depths : Outcome[depth][use.of] = "holds"

(* Every compilation ends: expansions that grow without end are given up at *)
(* the limit by the pass that meets them.                                   *)
Terminates == <>(phase \in {"done", "refused"})
=============================================================================
