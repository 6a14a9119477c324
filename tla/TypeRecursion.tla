---------------------------- MODULE TypeRecursion ----------------------------
(***************************************************************************)
(* validate_declared_type_cycles: every declared struct, with its own      *)
(* parameter left opaque, is expanded through its fields, depth first.     *)
(* References are followed like values.  A struct met again inside its own *)
(* expansion, or an expansion deeper than the limit, refuses the program.  *)
(***************************************************************************)
EXTENDS GenericProgram, FiniteSets

VARIABLES
  expanding,   \* TypeValidationState::stack, from the loop over the declarations
  visited      \* the keys of the structs already expanded to the end

typeVars == <<expanding, visited>>

(* make_generic_param_types *)
Declared(name) == IF IsGeneric(name) THEN <<name, "T">> ELSE <<name>>

FieldTypes(inst) ==
  IF inst = <<>>
  THEN [k \in DOMAIN program.order |-> Declared(program.order[k])]
  ELSE [k \in DOMAIN Item(inst[1]).fields |->
          apply_substitution(Item(inst[1]).fields[k], Tail(inst))]

(* A frame is the instance being expanded, the types of its fields, and the *)
(* field it has come to.  The bottom frame, of no instance, is the loop     *)
(* over the declarations.                                                   *)
Expansion(inst) == [inst |-> inst, types |-> FieldTypes(inst), at |-> 1]

TypeInit ==
  /\ expanding = <<Expansion(<<>>)>>
  /\ visited = {}

Innermost == expanding[Len(expanding)]

(* validate_type_recursion looks through references. *)
Pointee(type) ==
  LET named == {i \in DOMAIN type : type[i] # "&"}
      first == CHOOSE i \in named : \A j \in named : i <= j
  IN  SubSeq(type, first, Len(type))

HasNextType == Innermost.at <= Len(Innermost.types)
NextType == Pointee(Innermost.types[Innermost.at])

Expansions == {Key(expanding[i].inst) : i \in DOMAIN expanding}

(* (bug) structs without parameters count as well *)
ExpansionDepth_AnyStruct == Len(expanding) - 1

(* active_generic_instantiation_depth: the frames with an argument. *)
ExpansionDepth == Cardinality({i \in DOMAIN expanding : Len(expanding[i].inst) > 1})

Advanced == [expanding EXCEPT ![Len(expanding)].at = @ + 1]

(* A type without fields to follow, or one that has been followed before. *)
PassOver ==
  /\ phase = "types" /\ HasNextType
  /\ ~IsStruct(NextType[1]) \/ Key(NextType) \in visited
  /\ expanding' = Advanced
  /\ UNCHANGED <<visited, program, phase, reason>>

MustExpand ==
  /\ phase = "types" /\ HasNextType
  /\ IsStruct(NextType[1])
  /\ Key(NextType) \notin visited

RefuseCycle ==
  /\ MustExpand
  /\ Key(NextType) \in Expansions
  /\ Refuse("type cycle")
  /\ UNCHANGED <<program, typeVars>>

RefuseExpansion ==
  /\ MustExpand
  /\ Key(NextType) \notin Expansions
  /\ ExpansionDepth >= kMaxGenericInstantiationDepth
  /\ Refuse("type limit")
  /\ UNCHANGED <<program, typeVars>>

(* (bug) a struct counts as visited as soon as it is entered *)
Expand_Visited ==
  /\ MustExpand
  /\ Key(NextType) \notin Expansions
  /\ ExpansionDepth < kMaxGenericInstantiationDepth
  /\ expanding' = Append(Advanced, Expansion(NextType))
  /\ visited' = visited \union {Key(NextType)}
  /\ UNCHANGED <<program, phase, reason>>

Expand ==
  /\ MustExpand
  /\ Key(NextType) \notin Expansions
  /\ ExpansionDepth < kMaxGenericInstantiationDepth
  /\ expanding' = Append(Advanced, Expansion(NextType))
  /\ UNCHANGED <<visited, program, phase, reason>>

Expanded ==
  /\ phase = "types" /\ ~HasNextType /\ Len(expanding) > 1
  /\ expanding' = SubSeq(expanding, 1, Len(expanding) - 1)
  /\ visited' = visited \union {Key(Innermost.inst)}
  /\ UNCHANGED <<program, phase, reason>>

TypesChecked ==
  /\ phase = "types" /\ ~HasNextType /\ Len(expanding) = 1
  /\ phase' = "constraints"
  /\ UNCHANGED <<program, reason, typeVars>>

TypeNext ==
  \/ PassOver \/ RefuseCycle \/ RefuseExpansion
  \/ Expand \/ Expanded \/ TypesChecked
=============================================================================
