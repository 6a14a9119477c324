---------------------------- MODULE Monomorphizer ----------------------------
(***************************************************************************)
(* The class Monomorphizer: every item without parameters is emitted, and  *)
(* with it, before it, every instance of a generic item that it mentions.  *)
(*                                                                         *)
(* Instances are identified by the name they are given.  encode_type does  *)
(* not write the `runtime' of a primitive into names, so instances are     *)
(* keys throughout this module.                                            *)
(***************************************************************************)
EXTENDS GenericProgram

VARIABLES
  item,          \* the top-level item that run() has come to
  work,          \* the declarations being emitted, from that item inwards
  instantiated,  \* instantiated_structs_, _enums_ and _fns_
  emitted        \* the declarations written to out_, in order

monoVars == <<item, work, instantiated, emitted>>

MonoInit ==
  /\ item = 1
  /\ work = <<>>
  /\ instantiated = {}
  /\ emitted = <<>>

(* What is rewritten to emit a declaration: the types of the fields of a    *)
(* struct, nothing for an enum, what the body of a function mentions.       *)
Mentions(inst) ==
  LET decl == Item(inst[1])
      types == CASE decl.kind = "struct" -> decl.fields
                 [] decl.kind = "enum" -> <<>>
                 [] decl.kind = "fn" -> [k \in DOMAIN decl.uses |-> decl.uses[k].of]
  IN  [k \in DOMAIN types |-> Key(apply_substitution(types[k], Tail(inst)))]

(* A frame is the instance emitted, the types in it, the one of them that   *)
(* rewrite_type has come to, and the part of it which comes next: arguments *)
(* are rewritten before the constructor they are given to.                  *)
At(inst, types, next) ==
  [inst |-> inst, types |-> types, at |-> next,
   part |-> IF next <= Len(types) THEN Len(types[next]) ELSE 0]

Frame(inst) == At(inst, Mentions(inst), 1)

Emitting == work[Len(work)]
HasNextPart == Emitting.at <= Len(Emitting.types)
NextPart == SubSeq(Emitting.types[Emitting.at], Emitting.part,
                   Len(Emitting.types[Emitting.at]))

(* (bug) the arguments are rewritten, the type they are given to is not *)
AfterPart_Innermost(frame) == At(frame.inst, frame.types, frame.at + 1)

AfterPart(frame) ==
  IF frame.part > 1 THEN [frame EXCEPT !.part = @ - 1]
                    ELSE At(frame.inst, frame.types, frame.at + 1)

Rewritten == [work EXCEPT ![Len(work)] = AfterPart(@)]

(* (bug) the top-level item counts as an instantiation *)
InstantiationDepth_WithItem == Len(work)

(* instantiation_stack_.size(): the frame of the top-level item is not one  *)
(* of an instantiation.                                                     *)
InstantiationDepth == Len(work) - 1

(* emitted_structs_, emitted_enums_ and emitted_fns_: a declaration whose    *)
(* emission has begun is not begun again.                                   *)
Begun == {emitted[i] : i \in DOMAIN emitted} \union {work[i].inst : i \in DOMAIN work}

(* emit_struct_decl, emit_enum_decl and emit_fn_decl, up to the first type. *)
Begin(inst, outer) == IF inst \in Begun THEN outer ELSE Append(outer, Frame(inst))

SkipItem ==
  /\ phase = "lowering" /\ work = <<>> /\ item <= Len(program.order)
  /\ IsGeneric(program.order[item])
  /\ item' = item + 1
  /\ UNCHANGED <<work, instantiated, emitted, program, phase, reason>>

(* (bug) generic items are emitted too, their parameter left in place *)
EmitItem_Generic ==
  /\ phase = "lowering" /\ work = <<>> /\ item <= Len(program.order)
  /\ item' = item + 1
  /\ work' = Begin(IF IsGeneric(program.order[item])
                  THEN <<program.order[item], "T">> ELSE <<program.order[item]>>, <<>>)
  /\ UNCHANGED <<instantiated, emitted, program, phase, reason>>

EmitItem ==
  /\ phase = "lowering" /\ work = <<>> /\ item <= Len(program.order)
  /\ ~IsGeneric(program.order[item])
  /\ item' = item + 1
  /\ work' = Begin(<<program.order[item]>>, <<>>)
  /\ UNCHANGED <<instantiated, emitted, program, phase, reason>>

(* A part that names no generic item stays as it is. *)
Keep ==
  /\ phase = "lowering" /\ work # <<>> /\ HasNextPart
  /\ ~IsGeneric(NextPart[1])
  /\ work' = Rewritten
  /\ UNCHANGED <<item, instantiated, emitted, program, phase, reason>>

(* ensure_struct_instantiation, ensure_enum_instantiation and               *)
(* ensure_fn_instantiation, from here to Instantiate.                       *)
Ensure == phase = "lowering" /\ work # <<>> /\ HasNextPart /\ IsGeneric(NextPart[1])

(* (bug) an instance that is still being emitted is waited for *)
Reuse_WhenEmitted ==
  /\ Ensure
  /\ NextPart \in instantiated
  /\ work' = IF \E i \in DOMAIN emitted : emitted[i] = NextPart THEN Rewritten ELSE work
  /\ UNCHANGED <<item, instantiated, emitted, program, phase, reason>>

Reuse ==
  /\ Ensure
  /\ NextPart \in instantiated
  /\ work' = Rewritten
  /\ UNCHANGED <<item, instantiated, emitted, program, phase, reason>>

RefuseInstantiation ==
  /\ Ensure
  /\ NextPart \notin instantiated
  /\ InstantiationDepth >= kMaxGenericInstantiationDepth
  /\ Refuse("lowering limit")
  /\ UNCHANGED <<program, monoVars>>

(* (bug) the cache is read and never written *)
Instantiate_Uncached ==
  /\ Ensure
  /\ NextPart \notin instantiated
  /\ InstantiationDepth < kMaxGenericInstantiationDepth
  /\ work' = Begin(NextPart, Rewritten)
  /\ UNCHANGED <<item, instantiated, emitted, program, phase, reason>>

Instantiate ==
  /\ Ensure
  /\ NextPart \notin instantiated
  /\ InstantiationDepth < kMaxGenericInstantiationDepth
  /\ instantiated' = instantiated \union {NextPart}
  /\ work' = Begin(NextPart, Rewritten)
  /\ UNCHANGED <<item, emitted, program, phase, reason>>

Emit ==
  /\ phase = "lowering" /\ work # <<>> /\ ~HasNextPart
  /\ emitted' = Append(emitted, Emitting.inst)
  /\ work' = SubSeq(work, 1, Len(work) - 1)
  /\ UNCHANGED <<item, instantiated, program, phase, reason>>

Lowered ==
  /\ phase = "lowering" /\ work = <<>> /\ item > Len(program.order)
  /\ phase' = "done"
  /\ UNCHANGED <<program, reason, monoVars>>

MonoNext ==
  \/ SkipItem \/ EmitItem \/ Keep \/ Reuse
  \/ RefuseInstantiation \/ Instantiate \/ Emit \/ Lowered
=============================================================================
