--------------------------- MODULE GenericProgram ---------------------------
(***************************************************************************)
(* Programs with generic items, as the three passes see them that expand   *)
(* instantiations: the type checker (TypeRecursion), the constraint        *)
(* evaluator (GenericConstraints) and the monomorphizer (Monomorphizer).   *)
(*                                                                         *)
(* Items have at most one generic parameter, T, and a generic type takes   *)
(* one argument, so a type is a chain: the sequence of its constructors    *)
(* from the outside to the inside.  &Wrap<num> is <<"&", "Wrap", "num">>.  *)
(* A chain that starts with the name of a function is an instance of that  *)
(* function, and <<"main">> is the one instance of a non-generic item.     *)
(***************************************************************************)
EXTENDS Naturals, Sequences

CONSTANTS
  Programs,                       \* the programs that may be compiled
  kMaxGenericInstantiationDepth   \* the limit all three passes share

ASSUME LimitAssumption == kMaxGenericInstantiationDepth \in Nat \ {0}

VARIABLES
  program,   \* [order: the items as declared, decl: their declarations]
  phase,     \* the pass that runs, or "done", or "refused"
  reason     \* the error, when the program is refused

ItemKinds == {"struct", "enum", "fn"}
Phases == {"types", "constraints", "lowering", "done", "refused"}

(* What a function body mentions, in the order in which the body is walked. *)
(* A probe is the operand of a decl(..) that the folder had to leave alone  *)
(* because it depends on T.                                                 *)
UseOps == {"type", "variant", "call", "init", "probe"}

(* What a where clause consists of: the literals Constraint::Valid and      *)
(* Constraint::Invalid; "const num", a probe of the parameter that accepts  *)
(* num and refuses runtime num; decl(..) of a call or an initializer; and   *)
(* the value of a call.  Each may be compared with Constraint::Invalid.     *)
ConstraintForms == {"literal", "const num", "decl", "call"}

(* Programs as the type checker leaves them: an item is declared once, only *)
(* generic items mention T, and every generic item is given an argument, so *)
(* that the innermost constructor of a type is never generic.  What is      *)
(* called, initialized or asked for in a where clause is an item.  Only     *)
(* functions have a body.                                                   *)
IsComplete(type, decl) ==
  /\ type \in Seq(STRING) /\ type # <<>>
  /\ type[Len(type)] # "&"
  /\ type[Len(type)] \in DOMAIN decl => ~decl[type[Len(type)]].generic

IsProgram(p) ==
  /\ DOMAIN p.decl \subseteq STRING \ {"&", "num", "runtime num", "T"}
  /\ p.order \in Seq(DOMAIN p.decl) /\ p.order # <<>>
  /\ \A j, k \in DOMAIN p.order : p.order[j] = p.order[k] => j = k
  /\ \A name \in DOMAIN p.decl : \E k \in DOMAIN p.order : p.order[k] = name
  /\ \A name \in DOMAIN p.decl :
       LET decl == p.decl[name]
           Fits(type) == /\ IsComplete(type, p.decl)
                         /\ ~decl.generic => type[Len(type)] # "T"
       IN  /\ decl.kind \in ItemKinds /\ decl.generic \in BOOLEAN
           /\ decl.fields \in Seq(Seq(STRING))
           /\ \A k \in DOMAIN decl.fields : Fits(decl.fields[k])
           /\ decl.uses \in Seq([op : UseOps, of : Seq(STRING)])
           /\ decl.kind # "fn" => decl.uses = <<>>
           /\ \A k \in DOMAIN decl.uses :
                /\ Fits(decl.uses[k].of)
                /\ decl.uses[k].op \in {"call", "init"} => decl.uses[k].of[1] \in DOMAIN p.decl
           /\ decl.where \in Seq([form : ConstraintForms, of : Seq(STRING), negated : BOOLEAN])
           /\ \A k \in DOMAIN decl.where :
                decl.where[k].form \in {"decl", "call"} =>
                  Fits(decl.where[k].of) /\ decl.where[k].of[1] \in DOMAIN p.decl

ASSUME ProgramAssumption == \A p \in Programs : IsProgram(p)

Item(name) == program.decl[name]
IsItem(name) == name \in DOMAIN program.decl
IsGeneric(name) == IsItem(name) /\ Item(name).generic
IsStruct(name) == IsItem(name) /\ Item(name).kind = "struct"

(* apply_substitution: the parameter is a leaf, so only the innermost       *)
(* constructor of a chain can be replaced.                                  *)
apply_substitution(type, argument) ==
  IF type # <<>> /\ type[Len(type)] = "T"
  THEN SubSeq(type, 1, Len(type) - 1) \o argument
  ELSE type

(* type_depends_on_generic_params, for the parameter T. *)
DependsOnParameter(type) == type # <<>> /\ type[Len(type)] = "T"

(* encode_type and encode_type_for_constraint_key write `runtime' into a    *)
(* key for named types only.                                                *)
Key(type) ==
  [level \in DOMAIN type |->
     IF type[level] = "runtime num" THEN "num" ELSE type[level]]

(* (bug) the error is lost *)
Refuse_Silently(error) == phase' = "refused" /\ UNCHANGED reason

(* The pass that found the program at fault ends the compilation. *)
Refuse(error) == phase' = "refused" /\ reason' = error
=============================================================================
