------------------------- MODULE InstantiationProofs -------------------------
(***************************************************************************)
(* Theorems about generic items, for every set of programs and every       *)
(* limit.  Lowering: the emitted program defines each instance it names,   *)
(* because the cache promises an instance exactly when its emission has    *)
(* begun; it holds nothing that is not asked for; and giving up is over a  *)
(* chain as long as the limit.  Types: the stack of expansions a refusal   *)
(* shows is a real one, and the emitted structs are finite.  Constraints:  *)
(* each where clause under evaluation belongs to the constraint below it.  *)
(***************************************************************************)
EXTENDS Instantiation, SequenceTheorems, FiniteSetTheorems, Induction

-----------------------------------------------------------------------------
(* Types and instances.                                                     *)

(* Names, among them the one Key puts into a type, and the parameter. *)
Names == STRING \union {"num", "T"}

(* The chains whose innermost constructor is neither generic nor `&'. *)
Types == {type \in Seq(Names) :
            type # <<>> /\ type[Len(type)] # "&" /\ ~IsGeneric(type[Len(type)])}

PartOf(type, p) == SubSeq(type, p, Len(type))

(* An instance of a declared item: with an argument if the item is generic, *)
(* and without if it is not.                                                *)
IsInstance(inst) == inst \in Types /\ IsItem(inst[1])
                    /\ (~IsGeneric(inst[1]) => Tail(inst) = <<>>)

Generic == {name \in DOMAIN program.decl : Item(name).generic}
Instances == {inst \in Types : IsInstance(inst)}

(* What IsProgram says of the program that is compiled. *)
LEMMA ProgramFacts ==
  ASSUME program \in Programs
  PROVE  /\ DOMAIN program.decl \subseteq STRING \ {"&", "num", "runtime num", "T"}
         /\ program.order \in Seq(DOMAIN program.decl) /\ program.order # <<>>
         /\ \A j, k \in DOMAIN program.order :
              program.order[j] = program.order[k] => j = k
         /\ \A name \in DOMAIN program.decl :
              /\ Item(name).kind \in ItemKinds /\ Item(name).generic \in BOOLEAN
              /\ Item(name).fields \in Seq(Seq(Names))
              /\ Item(name).uses \in Seq([op : UseOps, of : Seq(STRING)])
              /\ \A k \in DOMAIN Item(name).fields :
                   /\ Item(name).fields[k] \in Types
                   /\ ~IsGeneric(name) =>
                        Item(name).fields[k][Len(Item(name).fields[k])] # "T"
              /\ \A k \in DOMAIN Item(name).uses :
                   /\ Item(name).uses[k].of \in Types
                   /\ ~IsGeneric(name) =>
                        Item(name).uses[k].of[Len(Item(name).uses[k].of)] # "T"
<1>1. IsProgram(program)
  BY ProgramAssumption
<1>2. Seq(STRING) \subseteq Seq(Names)
  BY SeqMonotonic DEF Names
<1>3. \A s \in Seq(Seq(STRING)) : s \in Seq(Seq(Names))
  BY <1>2, SeqMonotonic
<1>4. /\ DOMAIN program.decl \subseteq STRING \ {"&", "num", "runtime num", "T"}
      /\ program.order \in Seq(DOMAIN program.decl) /\ program.order # <<>>
      /\ \A j, k \in DOMAIN program.order :
           program.order[j] = program.order[k] => j = k
  BY <1>1 DEF IsProgram
<1>5. ASSUME NEW name \in DOMAIN program.decl
      PROVE  /\ Item(name).kind \in ItemKinds /\ Item(name).generic \in BOOLEAN
             /\ Item(name).fields \in Seq(Seq(STRING))
             /\ Item(name).uses \in Seq([op : UseOps, of : Seq(STRING)])
             /\ \A k \in DOMAIN Item(name).fields :
                  /\ IsComplete(Item(name).fields[k], program.decl)
                  /\ ~Item(name).generic =>
                       Item(name).fields[k][Len(Item(name).fields[k])] # "T"
             /\ \A k \in DOMAIN Item(name).uses :
                  /\ IsComplete(Item(name).uses[k].of, program.decl)
                  /\ ~Item(name).generic =>
                       Item(name).uses[k].of[Len(Item(name).uses[k].of)] # "T"
  BY <1>1, <1>5 DEF IsProgram, Item
<1>6. ASSUME NEW type \in Seq(STRING), IsComplete(type, program.decl)
      PROVE  type \in Types
  <2>1. ~IsGeneric(type[Len(type)])
    BY <1>6 DEF IsComplete, IsGeneric, IsItem, Item
  <2>2. type \in Seq(Names) /\ type # <<>> /\ type[Len(type)] # "&"
    BY <1>2, <1>6 DEF IsComplete
  <2> QED BY <2>1, <2>2 DEF Types
<1>7. ASSUME NEW name \in DOMAIN program.decl
      PROVE  /\ Item(name).fields \in Seq(Seq(Names))
             /\ \A k \in DOMAIN Item(name).fields : Item(name).fields[k] \in Types
             /\ \A k \in DOMAIN Item(name).uses : Item(name).uses[k].of \in Types
  <2>1. Item(name).fields \in Seq(Seq(Names))
    BY <1>3, <1>5, <1>7
  <2>2. \A k \in DOMAIN Item(name).fields : Item(name).fields[k] \in Types
    BY <1>5, <1>6, <1>7
  <2>3. \A k \in DOMAIN Item(name).uses : Item(name).uses[k].of \in Types
    <3> TAKE k \in DOMAIN Item(name).uses
    <3>1. Item(name).uses[k] \in [op : UseOps, of : Seq(STRING)]
      <4>1. \A S : \A s \in Seq(S) : \A j \in DOMAIN s : s[j] \in S
        OBVIOUS
      <4> QED BY <1>5, <1>7, <4>1, Zenon
    <3>2. Item(name).uses[k].of \in Seq(STRING)
      BY <3>1
    <3>3. IsComplete(Item(name).uses[k].of, program.decl)
      BY <1>5, <1>7
    <3> QED BY <1>6, <3>2, <3>3
  <2> QED BY <2>1, <2>2, <2>3
<1>8. ASSUME NEW name \in DOMAIN program.decl, ~IsGeneric(name)
      PROVE  ~Item(name).generic
  BY <1>8 DEF IsGeneric, IsItem
<1> QED
  BY <1>4, <1>5, <1>7, <1>8

(* A function over the indices of a sequence is a sequence as long. *)
LEMMA MapIsSeq ==
  ASSUME NEW R, NEW S, NEW s \in Seq(R), NEW f, f \in [DOMAIN s -> S]
  PROVE  f \in Seq(S) /\ Len(f) = Len(s) /\ DOMAIN f = 1..Len(s)
<1>1. DOMAIN s = 1..Len(s) /\ Len(s) \in Nat
  OBVIOUS
<1>2. f \in [1..Len(s) -> S]
  BY <1>1
<1>3. f \in Seq(S)
  BY <1>1, <1>2, SeqDef
<1> QED
  BY <1>1, <1>2, <1>3

(* The key of a type is a type. *)
LEMMA KeyType ==
  ASSUME program \in Programs, NEW type \in Types
  PROVE  Key(type) \in Types
<1>1. type \in Seq(Names) /\ type # <<>> /\ Len(type) \in Nat \ {0}
      /\ DOMAIN type = 1..Len(type)
  BY DEF Types
<1>2. \A i \in DOMAIN type : type[i] \in Names
  BY <1>1
<1>a. \A i \in DOMAIN type :
         (IF type[i] = "runtime num" THEN "num" ELSE type[i]) \in Names
  <2> TAKE i \in DOMAIN type
  <2>1. "num" \in Names
    BY DEF Names
  <2>2. type[i] \in Names
    BY <1>2
  <2> QED
    BY <2>1, <2>2
<1>b. Key(type) = [i \in DOMAIN type |->
                     IF type[i] = "runtime num" THEN "num" ELSE type[i]]
  BY DEF Key
<1>3. Key(type) \in [DOMAIN type -> Names]
  BY <1>a, <1>b
<1>4. Key(type) \in Seq(Names) /\ Len(Key(type)) = Len(type)
  BY <1>1, <1>3, MapIsSeq
<1>5. Key(type)[Len(type)] = IF type[Len(type)] = "runtime num" THEN "num"
                                                                ELSE type[Len(type)]
  <2>1. Len(type) \in DOMAIN type
    BY <1>1
  <2> QED
    BY <1>b, <2>1
<1>6. ~IsGeneric("num")
  BY ProgramFacts DEF IsGeneric, IsItem
<1>7. ~IsGeneric(type[Len(type)]) /\ type[Len(type)] # "&"
  BY DEF Types
<1>8. ~IsGeneric(Key(type)[Len(Key(type))]) /\ Key(type)[Len(Key(type))] # "&"
  BY <1>4, <1>5, <1>6, <1>7
<1>9. Key(type) # <<>>
  BY <1>1, <1>4
<1> QED
  BY <1>4, <1>8, <1>9 DEF Types

(* Substituting the argument of an instance into a type makes a type. *)
LEMMA SubstitutionType ==
  ASSUME program \in Programs, NEW inst \in Types, NEW type \in Types,
         ~IsGeneric(inst[1]) => type[Len(type)] # "T"
  PROVE  apply_substitution(type, Tail(inst)) \in Types
<1>1. type \in Seq(Names) /\ type # <<>> /\ Len(type) \in Nat \ {0}
  BY DEF Types
<1>2. CASE type[Len(type)] # "T"
  BY <1>2 DEF apply_substitution
<1>3. CASE type[Len(type)] = "T"
  <2>1. IsGeneric(inst[1])
    BY <1>3
  <2>2. inst \in Seq(Names) /\ inst # <<>> /\ ~IsGeneric(inst[Len(inst)])
        /\ inst[Len(inst)] # "&"
    BY DEF Types
  <2>3. Len(inst) \in Nat /\ Len(inst) > 1
    <3>1. Len(inst) \in Nat /\ Len(inst) # 0
      BY <2>2, LenProperties, EmptySeq
    <3>2. Len(inst) # 1
      BY <2>1, <2>2
    <3>3. \A n \in Nat : n # 0 /\ n # 1 => n > 1
      OBVIOUS
    <3> QED
      BY <3>1, <3>2, <3>3
  <2> DEFINE a == Tail(inst)
             b == SubSeq(type, 1, Len(type) - 1)
  <2>4. a \in Seq(Names) /\ Len(a) = Len(inst) - 1 /\ a[Len(a)] = inst[Len(inst)]
    BY <2>2, <2>3
  <2>5. b \in Seq(Names) /\ Len(b) = Len(type) - 1
    <3>1. \A i \in 1..(Len(type) - 1) : type[i] \in Names
      BY <1>1
    <3>2. Len(type) - 1 \in Int /\ 1 \in Int
      BY <1>1
    <3>3. \A i \in 1..(Len(type) - 1) : type[i] \in Names
                 /\ 1 <= Len(type) - 1 + 1 /\ Len(type) - 1 \in Int
      BY <1>1, <3>1
    <3>4. Len(type) - 1 - 1 + 1 = Len(type) - 1 /\ Len(type) - 1 >= 0
      BY <1>1
    <3> HIDE DEF b
    <3>5. b = SubSeq(type, 1, Len(type) - 1)
      BY DEF b
    <3> QED
      BY <1>1, <3>1, <3>2, <3>4, <3>5, SubSeqProperties
  <2>6. b \o a \in Seq(Names) /\ Len(b \o a) = Len(b) + Len(a)
        /\ (b \o a)[Len(b \o a)] = a[Len(a)] /\ Len(b \o a) > 0
    <3> HIDE DEF a, b
    <3>1. Len(a) \in Nat /\ Len(b) \in Nat /\ Len(a) > 0
      BY <1>1, <2>3, <2>4, <2>5
    <3> QED
      BY <2>4, <2>5, <3>1, ConcatProperties
  <2>7. apply_substitution(type, Tail(inst)) = b \o a
    BY <1>1, <1>3 DEF apply_substitution
  <2> HIDE DEF a, b
  <2>8. b \o a # <<>>
    BY <2>6
  <2> QED
    BY <2>2, <2>4, <2>6, <2>7, <2>8 DEF Types
<1> QED
  BY <1>2, <1>3

(* What a declaration mentions are types. *)
LEMMA MentionsType ==
  ASSUME program \in Programs, NEW inst, IsInstance(inst)
  PROVE  Mentions(inst) \in Seq(Types)
<1> DEFINE decl == Item(inst[1])
           types == CASE decl.kind = "struct" -> decl.fields
                      [] decl.kind = "enum" -> <<>>
                      [] decl.kind = "fn" -> [k \in DOMAIN decl.uses |-> decl.uses[k].of]
<1>1. inst[1] \in DOMAIN program.decl
  BY DEF IsInstance, IsItem
<1>2. /\ types \in Seq(Seq(Names))
      /\ \A k \in DOMAIN types :
           types[k] \in Types /\ (~IsGeneric(inst[1]) => types[k][Len(types[k])] # "T")
  <2>1. CASE decl.kind = "struct"
    BY <1>1, <2>1, ProgramFacts
  <2>2. CASE decl.kind = "enum"
    <3>1. types = <<>>
      BY <2>2
    <3> HIDE DEF types
    <3> QED
      BY <3>1
  <2>3. CASE decl.kind = "fn"
    <3>1. types = [k \in DOMAIN decl.uses |-> decl.uses[k].of]
      BY <2>3
    <3>2. decl.uses \in Seq([op : UseOps, of : Seq(STRING)])
      BY <1>1, ProgramFacts
    <3> HIDE DEF types
    <3>3. types \in [DOMAIN decl.uses -> Seq(Names)]
      <4>1. \A k \in DOMAIN decl.uses : decl.uses[k].of \in Seq(Names)
        BY <1>1, ProgramFacts DEF Types
      <4> QED
        BY <3>1, <4>1
    <3>4. types \in Seq(Seq(Names)) /\ DOMAIN types = DOMAIN decl.uses
      BY <3>2, <3>3, MapIsSeq
    <3> QED
      BY <1>1, <3>1, <3>4, ProgramFacts
  <2> QED
    BY <1>1, <2>1, <2>2, <2>3, ProgramFacts DEF ItemKinds
<1>3. Mentions(inst) = [k \in DOMAIN types |-> Key(apply_substitution(types[k], Tail(inst)))]
  BY DEF Mentions
<1> HIDE DEF types
<1>4. \A k \in DOMAIN types : Key(apply_substitution(types[k], Tail(inst))) \in Types
  BY <1>2, SubstitutionType, KeyType DEF IsInstance
<1>5. Mentions(inst) \in [DOMAIN types -> Types]
  BY <1>3, <1>4
<1> QED
  BY <1>2, <1>5, MapIsSeq

(* A part of a type is a type. *)
LEMMA PartType ==
  ASSUME NEW type \in Types, NEW p \in 1..Len(type)
  PROVE  PartOf(type, p) \in Types
<1>1. type \in Seq(Names) /\ Len(type) \in Nat
  BY DEF Types
<1>2. /\ PartOf(type, p) \in Seq(Names)
      /\ Len(PartOf(type, p)) = Len(type) - p + 1
      /\ PartOf(type, p)[Len(type) - p + 1] = type[Len(type)]
  BY <1>1, SubSeqProperties DEF PartOf
<1>3. PartOf(type, p) # <<>>
  BY <1>1, <1>2
<1> QED
  BY <1>2, <1>3 DEF Types

-----------------------------------------------------------------------------
(* The invariant.                                                           *)

(* A frame keeps the types its declaration mentions, and a place in them. *)
Frames ==
  {frame \in [inst : Instances, types : Seq(Types), at : Nat \ {0}, part : Nat] :
     /\ frame.types = Mentions(frame.inst)
     /\ frame.at <= Len(frame.types) => frame.part \in 1..Len(frame.types[frame.at])}

(* Rewriting has passed the part: later types, and the outer constructors   *)
(* of the type it has come to, are still to come.                           *)
Passed(frame, k, p) == k < frame.at \/ (k = frame.at /\ p > frame.part)

(* What has been passed has been promised. *)
Answered(frame, promised) ==
  \A k \in 1..Len(frame.types) : \A p \in 1..Len(frame.types[k]) :
    Passed(frame, k, p) /\ frame.types[k][p] \in Generic =>
      PartOf(frame.types[k], p) \in promised

Wanted == {pair \in Instances \X Types : pair[2] \in Asks(pair[1])}

Inv ==
  /\ program \in Programs
  /\ item \in Nat \ {0}
  /\ work \in Seq(Frames)
  /\ emitted \in Seq(Instances)
  /\ \A i \in DOMAIN work : Answered(work[i], instantiated)
  /\ \A i \in DOMAIN emitted : \A type \in Types :
       <<emitted[i], type>> \in Wanted => type \in instantiated
  /\ instantiated = {inst \in Begun : inst[1] \in Generic}
  /\ phase = "done" => work = <<>>

(* The names of generic items. *)
LEMMA GenericIsGeneric ==
  \A name : IsGeneric(name) <=> name \in Generic
BY DEF IsGeneric, IsItem, Generic

(* What a declaration asks for are the generic parts of what it mentions. *)
LEMMA AsksParts ==
  ASSUME NEW inst, NEW part
  PROVE  part \in Asks(inst) <=>
           \E k \in DOMAIN Mentions(inst) : \E p \in 1..Len(Mentions(inst)[k]) :
             part = PartOf(Mentions(inst)[k], p) /\ IsGeneric(part[1])
BY DEF Asks, PartOf

(* A part of a type begins with its constructor. *)
LEMMA PartHead ==
  ASSUME NEW type \in Types, NEW p \in 1..Len(type)
  PROVE  PartOf(type, p)[1] = type[p]
<1>1. type \in Seq(Names) /\ Len(type) \in Nat
  BY DEF Types
<1> QED
  BY <1>1, SubSeqProperties DEF PartOf

(* A declaration whose emission begins has not asked for anything. *)
LEMMA FrameStarts ==
  ASSUME program \in Programs, NEW inst \in Instances, NEW promised
  PROVE  Frame(inst) \in Frames /\ Frame(inst).inst = inst /\ Answered(Frame(inst), promised)
<1> DEFINE types == Mentions(inst)
<1>1. types \in Seq(Types)
  BY MentionsType DEF Instances
<1> HIDE DEF types
<1>2. Frame(inst) = [inst |-> inst, types |-> types, at |-> 1,
                     part |-> IF 1 <= Len(types) THEN Len(types[1]) ELSE 0]
  BY DEF Frame, At, types
<1>3. 1 <= Len(types) => Len(types[1]) \in Nat \ {0}
  <2> SUFFICES ASSUME 1 <= Len(types) PROVE Len(types[1]) \in Nat \ {0}
    OBVIOUS
  <2>1. types[1] \in Types
    BY <1>1
  <2>2. types[1] \in Seq(Names) /\ types[1] # <<>>
    BY <2>1 DEF Types
  <2> QED
    BY <2>2
<1>4. Frame(inst) \in Frames
  BY <1>1, <1>2, <1>3 DEF Frames, types
<1>5. \A k \in 1..Len(types) : \A p \in 1..Len(types[k]) : ~Passed(Frame(inst), k, p)
  BY <1>1, <1>2, <1>3 DEF Passed
<1> QED
  BY <1>2, <1>4, <1>5 DEF Answered

(* Passing a part that was not generic, or is promised, leaves the frame    *)
(* with everything passed promised.                                         *)
LEMMA PartPassed ==
  ASSUME program \in Programs, NEW frame \in Frames, NEW promised, NEW more,
         promised \subseteq more, Answered(frame, promised),
         frame.at <= Len(frame.types),
         frame.types[frame.at][frame.part] \in Generic =>
           PartOf(frame.types[frame.at], frame.part) \in more
  PROVE  AfterPart(frame) \in Frames /\ AfterPart(frame).inst = frame.inst
         /\ Answered(AfterPart(frame), more)
<1>1. frame \in [inst : Instances, types : Seq(Types), at : Nat \ {0}, part : Nat]
      /\ frame.types = Mentions(frame.inst) /\ frame.part \in 1..Len(frame.types[frame.at])
  BY DEF Frames
<1>2. \A k \in 1..Len(frame.types) : Len(frame.types[k]) \in Nat \ {0}
  <2> TAKE k \in 1..Len(frame.types)
  <2>1. frame.types[k] \in Seq(Names) /\ frame.types[k] # <<>>
    BY <1>1 DEF Types
  <2> QED
    BY <2>1
<1>3. Len(frame.types) \in Nat
  BY <1>1
<1> DEFINE after == AfterPart(frame)
<1>4. CASE frame.part > 1
  <2>1. after = [frame EXCEPT !.part = @ - 1]
    BY <1>4 DEF AfterPart
  <2>2. after.inst = frame.inst /\ after.types = frame.types /\ after.at = frame.at
        /\ after.part = frame.part - 1
        /\ after \in [inst : Instances, types : Seq(Types), at : Nat \ {0}, part : Nat]
    BY <1>1, <1>2, <1>3, <1>4, <2>1
  <2> HIDE DEF after
  <2>3. after \in Frames
    BY <1>1, <1>2, <1>3, <1>4, <2>2 DEF Frames
  <2>4. \A k \in 1..Len(frame.types) : \A p \in 1..Len(frame.types[k]) :
          Passed(after, k, p) => Passed(frame, k, p) \/ (k = frame.at /\ p = frame.part)
    BY <1>1, <1>2, <1>3, <2>2 DEF Passed
  <2>5. Answered(after, more)
    BY <2>2, <2>4 DEF Answered
  <2> QED
    BY <2>2, <2>3, <2>5 DEF after
<1>5. CASE ~(frame.part > 1)
  <2>1. after = [inst |-> frame.inst, types |-> frame.types, at |-> frame.at + 1,
                 part |-> IF frame.at + 1 <= Len(frame.types)
                          THEN Len(frame.types[frame.at + 1]) ELSE 0]
    BY <1>5 DEF AfterPart, At
  <2> HIDE DEF after
  <2>2. frame.part = 1
    BY <1>1, <1>2, <1>3, <1>5
  <2>3. frame.at + 1 <= Len(frame.types) => frame.at + 1 \in 1..Len(frame.types)
    BY <1>1, <1>3
  <2>4. after \in Frames
    BY <1>1, <1>2, <1>3, <2>1, <2>3 DEF Frames
  <2>5. \A k \in 1..Len(frame.types) : \A p \in 1..Len(frame.types[k]) :
          Passed(after, k, p) => Passed(frame, k, p) \/ (k = frame.at /\ p = frame.part)
    <3> TAKE k \in 1..Len(frame.types)
    <3> TAKE p \in 1..Len(frame.types[k])
    <3>1. CASE k = frame.at + 1
      BY <1>1, <1>2, <1>3, <2>1, <3>1 DEF Passed
    <3>2. CASE k # frame.at + 1
      BY <1>1, <1>2, <1>3, <2>1, <2>2, <3>2 DEF Passed
    <3> QED
      BY <3>1, <3>2
  <2>6. Answered(after, more)
    BY <2>1, <2>5 DEF Answered
  <2> QED
    BY <2>1, <2>4, <2>6 DEF after
<1> QED
  BY <1>1, <1>4, <1>5

-----------------------------------------------------------------------------
(* Steps.                                                                   *)

(* The program does not change, nor what is defined from it alone. *)
LEMMA Static ==
  ASSUME program' = program
  PROVE  Types' = Types /\ Generic' = Generic /\ Instances' = Instances
         /\ Frames' = Frames /\ Wanted' = Wanted
<1>1. Types' = Types
  BY DEF Types, IsGeneric, IsItem, Item
<1>2. Generic' = Generic
  BY DEF Generic, Item
<1>3. Instances' = Instances
  BY <1>1 DEF Instances, IsInstance, IsGeneric, IsItem, Item
<1>4. Frames' = Frames
  BY <1>1, <1>3 DEF Frames, Mentions, Item, Key, apply_substitution
<1>5. Wanted' = Wanted
  BY <1>1, <1>3 DEF Wanted, Asks, IsGeneric, IsItem, Mentions, Item, Key, apply_substitution
<1> QED
  BY <1>1, <1>2, <1>3, <1>4, <1>5

(* The part that comes next is a type, and an instance if it is generic. *)
LEMMA NextPartType ==
  ASSUME Inv, work # <<>>, HasNextPart
  PROVE  /\ Emitting \in Frames /\ Len(work) \in DOMAIN work
         /\ Emitting.at \in 1..Len(Emitting.types)
         /\ Emitting.types[Emitting.at] \in Types
         /\ Emitting.part \in 1..Len(Emitting.types[Emitting.at])
         /\ NextPart = PartOf(Emitting.types[Emitting.at], Emitting.part)
         /\ NextPart[1] = Emitting.types[Emitting.at][Emitting.part]
         /\ NextPart[1] \in Generic => NextPart \in Instances
<1>1. work \in Seq(Frames) /\ Len(work) \in Nat \ {0}
  BY DEF Inv
<1>2. Emitting \in Frames /\ Len(work) \in DOMAIN work
  BY <1>1 DEF Emitting
<1>3. /\ Emitting.types \in Seq(Types) /\ Emitting.at \in Nat \ {0}
      /\ Emitting.at <= Len(Emitting.types)
      /\ Emitting.part \in 1..Len(Emitting.types[Emitting.at])
  BY <1>2 DEF Frames, HasNextPart
<1>4. Emitting.at \in 1..Len(Emitting.types) /\ Emitting.types[Emitting.at] \in Types
  BY <1>3
<1>5. NextPart = PartOf(Emitting.types[Emitting.at], Emitting.part)
  BY DEF NextPart, PartOf
<1>6. NextPart \in Types /\ NextPart[1] = Emitting.types[Emitting.at][Emitting.part]
  BY <1>3, <1>4, <1>5, PartType, PartHead
<1>7. NextPart[1] \in Generic => NextPart \in Instances
  BY <1>6, GenericIsGeneric DEF Instances, IsInstance, Generic, IsItem
<1> QED
  BY <1>2, <1>3, <1>4, <1>5, <1>6, <1>7

(* Moving past a part keeps the frames, with everything passed promised. *)
LEMMA RewrittenFacts ==
  ASSUME Inv, work # <<>>, HasNextPart, NEW more, instantiated \subseteq more,
         NextPart[1] \in Generic => NextPart \in more
  PROVE  /\ Rewritten \in Seq(Frames) /\ DOMAIN Rewritten = DOMAIN work
         /\ Len(Rewritten) = Len(work)
         /\ \A i \in DOMAIN work :
              Rewritten[i].inst = work[i].inst /\ Answered(Rewritten[i], more)
<1>1. work \in Seq(Frames) /\ Len(work) \in DOMAIN work
      /\ \A i \in DOMAIN work : Answered(work[i], instantiated)
  BY NextPartType DEF Inv
<1>2. AfterPart(Emitting) \in Frames /\ AfterPart(Emitting).inst = Emitting.inst
      /\ Answered(AfterPart(Emitting), more)
  <2>1. program \in Programs /\ Emitting \in Frames /\ Answered(Emitting, instantiated)
    BY <1>1, NextPartType DEF Inv, Emitting
  <2>2. Emitting.at <= Len(Emitting.types)
    BY DEF HasNextPart
  <2>3. Emitting.types[Emitting.at][Emitting.part] \in Generic =>
          PartOf(Emitting.types[Emitting.at], Emitting.part) \in more
    BY NextPartType
  <2> QED
    BY <2>1, <2>2, <2>3, PartPassed
<1>3. Rewritten = [work EXCEPT ![Len(work)] = AfterPart(Emitting)]
  BY DEF Rewritten, Emitting
<1>4. Rewritten \in Seq(Frames) /\ DOMAIN Rewritten = DOMAIN work
      /\ Len(Rewritten) = Len(work)
  BY <1>1, <1>2, <1>3
<1>5. ASSUME NEW i \in DOMAIN work
      PROVE  Rewritten[i].inst = work[i].inst /\ Answered(Rewritten[i], more)
  <2>1. CASE i = Len(work)
    BY <1>1, <1>2, <1>3, <2>1 DEF Emitting
  <2>2. CASE i # Len(work)
    <3>1. Rewritten[i] = work[i]
      BY <1>1, <1>3, <2>2
    <3>2. Answered(work[i], more)
      BY <1>1 DEF Answered
    <3> QED
      BY <3>1, <3>2
  <2> QED
    BY <2>1, <2>2
<1> QED
  BY <1>4, <1>5

(* Lowering starts with nothing promised. *)
LEMMA Initially ==
  Init => Inv
<1> SUFFICES ASSUME Init PROVE Inv
  OBVIOUS
<1>1. program \in Programs /\ phase = "types" /\ item = 1 /\ work = <<>>
      /\ instantiated = {} /\ emitted = <<>>
  BY DEF Init, MonoInit
<1>2. Begun = {}
  BY <1>1 DEF Begun
<1> QED
  BY <1>1, <1>2 DEF Inv

(* What a step has to show that emits nothing. *)
LEMMA Kept ==
  ASSUME Inv, program' = program, emitted' = emitted, item' \in Nat \ {0},
         work' \in Seq(Frames), instantiated \subseteq instantiated',
         \A i \in DOMAIN work' : Answered(work'[i], instantiated'),
         instantiated' = {inst \in Begun' : inst[1] \in Generic},
         phase' = "done" => work' = <<>>
  PROVE  Inv'
<1>1. \A i \in DOMAIN work' : Answered(work[i], instantiated)'
  BY Static DEF Answered, Passed, PartOf
<1>2. \A i \in DOMAIN emitted' : \A type \in Types' :
        <<emitted'[i], type>> \in Wanted' => type \in instantiated'
  BY Static DEF Inv
<1> QED
  BY <1>1, <1>2, Static DEF Inv

(* The other passes do not get as far, and touch nothing of this one. *)
LEMMA OtherPass ==
  ASSUME Inv, program' = program, UNCHANGED monoVars, phase' # "done"
  PROVE  Inv'
<1>1. Begun' = Begun
  BY DEF Begun, monoVars
<1>2. \A i \in DOMAIN work' : Answered(work'[i], instantiated')
  BY DEF Inv, monoVars
<1> QED
  BY <1>1, <1>2, Kept DEF Inv, monoVars

(* No step of an earlier pass reaches lowering. *)
LEMMA OtherPasses ==
  ASSUME Inv, (TypeNext \/ ConstraintNext) /\ UNCHANGED monoVars
  PROVE  Inv'
<1>1. TypeNext => program' = program /\ phase' # "done"
  BY DEF TypeNext, PassOver, RefuseCycle, RefuseExpansion, Expand, Expanded,
         TypesChecked, MustExpand, Refuse
<1>2. Examine => phase = "constraints"
  BY DEF Examine
<1>3. (Met \/ Unmet \/ Continue \/ RefuseConstraint \/ NextItem) =>
        program' = program /\ phase' # "done"
  BY DEF Met, Unmet, Continue, RefuseConstraint, NextItem, Refuse
<1>4. (SkipConstraint \/ Decide \/ Remembered \/ Unbounded \/ Evaluate \/ ConstraintsChecked) =>
        program' = program /\ phase' # "done"
  BY <1>2 DEF SkipConstraint, Decide, Remembered, Unbounded, Evaluate,
              ConstraintsChecked, Enforce, Refuse
<1>5. ConstraintNext => program' = program /\ phase' # "done"
  BY <1>3, <1>4 DEF ConstraintNext
<1> QED
  BY <1>1, <1>5, OtherPass

(* Going on to the next item. *)
LEMMA ItemSteps ==
  ASSUME Inv, SkipItem \/ EmitItem
  PROVE  Inv'
<1>1. /\ phase = "lowering" /\ phase' = phase /\ program' = program /\ work = <<>>
      /\ item \in 1..Len(program.order) /\ item' = item + 1 /\ emitted' = emitted
      /\ instantiated' = instantiated
  <2>1. item \in Nat \ {0}
    BY DEF Inv
  <2>a. program.order \in Seq(DOMAIN program.decl)
    BY ProgramFacts DEF Inv
  <2>2. Len(program.order) \in Nat
    BY <2>a
  <2> QED
    BY <2>1, <2>2 DEF SkipItem, EmitItem
<1>2. item' \in Nat \ {0} /\ phase' # "done"
  BY <1>1
<1>3. CASE work' = <<>>
  <2>1. Begun' = Begun
    BY <1>1, <1>3 DEF Begun
  <2>2. work' \in Seq(Frames) /\ \A i \in DOMAIN work' : Answered(work'[i], instantiated')
    BY <1>3
  <2> QED
    BY <1>1, <1>2, <2>1, <2>2, Kept DEF Inv
<1>4. CASE work' # <<>>
  <2> DEFINE inst == <<program.order[item]>>
  <2>1. EmitItem /\ inst \notin Begun /\ work' = <<Frame(inst)>>
    BY <1>1, <1>4 DEF SkipItem, EmitItem, Begin
  <2>2. inst \in Instances /\ inst[1] \notin Generic
    <3>a. program.order \in Seq(DOMAIN program.decl)
          /\ DOMAIN program.decl \subseteq STRING \ {"&", "num", "runtime num", "T"}
      BY ProgramFacts DEF Inv
    <3>b. program.order[item] \in DOMAIN program.decl
      <4>1. item \in 1..Len(program.order)
        BY <1>1
      <4>2. program.order \in Seq(DOMAIN program.decl)
        BY <3>a
      <4> QED
        BY <4>1, <4>2, ElementOfSeq
    <3>1. program.order[item] \in DOMAIN program.decl /\ program.order[item] \in Names
          /\ program.order[item] # "&"
      BY <3>a, <3>b DEF Names
    <3>2. ~IsGeneric(program.order[item])
      BY <2>1 DEF EmitItem
    <3> QED
      BY <3>1, <3>2, GenericIsGeneric DEF Instances, IsInstance, Types, IsItem
  <2>3. Frame(inst) \in Frames /\ Frame(inst).inst = inst
        /\ Answered(Frame(inst), instantiated')
    BY <2>2, FrameStarts DEF Inv
  <2> HIDE DEF inst
  <2>4. Begun' = Begun \union {inst}
    BY <1>1, <2>1, <2>3 DEF Begun
  <2>5. instantiated' = {i \in Begun' : i[1] \in Generic}
    BY <1>1, <2>2, <2>4 DEF Inv
  <2>6. work' \in Seq(Frames) /\ \A i \in DOMAIN work' : Answered(work'[i], instantiated')
    BY <2>1, <2>3
  <2> QED
    BY <1>1, <1>2, <2>5, <2>6, Kept
<1> QED
  BY <1>3, <1>4

(* A part that names nothing generic, or what was promised before. *)
LEMMA PartSteps ==
  ASSUME Inv, Keep \/ Reuse
  PROVE  Inv'
<1>1. /\ work # <<>> /\ HasNextPart /\ work' = Rewritten /\ program' = program
      /\ item' = item /\ emitted' = emitted /\ instantiated' = instantiated
      /\ phase' = "lowering"
  BY DEF Keep, Reuse, Ensure
<1>2. NextPart[1] \in Generic => NextPart \in instantiated
  BY GenericIsGeneric DEF Keep, Reuse, Ensure
<1>3. /\ work' \in Seq(Frames) /\ DOMAIN work' = DOMAIN work
      /\ \A i \in DOMAIN work :
           work'[i].inst = work[i].inst /\ Answered(work'[i], instantiated')
  BY <1>1, <1>2, RewrittenFacts
<1>4. Begun' = Begun
  BY <1>1, <1>3 DEF Begun
<1> QED
  BY <1>1, <1>3, <1>4, Kept DEF Inv

(* A new instance is promised and begun in one step. *)
LEMMA InstantiateStep ==
  ASSUME Inv, Instantiate
  PROVE  Inv'
<1> DEFINE inst == NextPart
<1>1. /\ work # <<>> /\ HasNextPart /\ program' = program /\ item' = item
      /\ emitted' = emitted /\ instantiated' = instantiated \union {inst}
      /\ phase' = "lowering" /\ inst \notin instantiated
      /\ work' = Begin(inst, Rewritten)
  BY DEF Instantiate, Ensure
<1>2. inst[1] \in Generic /\ inst \in Instances
  BY GenericIsGeneric, NextPartType DEF Instantiate, Ensure
<1>3. /\ Rewritten \in Seq(Frames) /\ DOMAIN Rewritten = DOMAIN work
      /\ Len(Rewritten) = Len(work)
      /\ \A i \in DOMAIN work :
           Rewritten[i].inst = work[i].inst /\ Answered(Rewritten[i], instantiated')
  <2>1. instantiated \subseteq instantiated' /\ NextPart \in instantiated'
    BY <1>1
  <2>2. work # <<>> /\ HasNextPart
    BY <1>1
  <2> HIDE DEF inst
  <2> QED
    BY <2>1, <2>2, RewrittenFacts
<1>4. inst \notin Begun
  BY <1>1, <1>2 DEF Inv
<1>5. Frame(inst) \in Frames /\ Frame(inst).inst = inst
      /\ Answered(Frame(inst), instantiated')
  BY <1>2, FrameStarts DEF Inv
<1> HIDE DEF inst
<1>6. work' = Append(Rewritten, Frame(inst))
  BY <1>1, <1>4 DEF Begin
<1>7. /\ work' \in Seq(Frames) /\ Len(work') = Len(work) + 1 /\ Len(work) \in Nat
      /\ DOMAIN work' = 1..(Len(work) + 1) /\ DOMAIN work = 1..Len(work)
      /\ \A i \in DOMAIN work : work'[i] = Rewritten[i]
      /\ work'[Len(work) + 1] = Frame(inst)
  BY <1>3, <1>5, <1>6 DEF Inv
<1>8. \A i \in DOMAIN work' : Answered(work'[i], instantiated')
  BY <1>3, <1>5, <1>7
<1>9. {work'[i].inst : i \in DOMAIN work'} = {work[i].inst : i \in DOMAIN work} \union {inst}
  BY <1>3, <1>5, <1>7
<1>10. Begun' = Begun \union {inst}
  BY <1>1, <1>9 DEF Begun
<1>11. instantiated' = {i \in Begun' : i[1] \in Generic}
  BY <1>1, <1>2, <1>10 DEF Inv
<1> QED
  BY <1>1, <1>7, <1>8, <1>11, Kept DEF Inv

(* What is emitted has had all its parts promised. *)
LEMMA EmitStep ==
  ASSUME Inv, Emit
  PROVE  Inv'
<1> DEFINE inst == Emitting.inst
<1>1. /\ work # <<>> /\ ~HasNextPart /\ program' = program /\ item' = item
      /\ emitted' = Append(emitted, inst) /\ instantiated' = instantiated
      /\ phase' = "lowering" /\ work' = SubSeq(work, 1, Len(work) - 1)
  BY DEF Emit
<1>2. /\ work \in Seq(Frames) /\ Len(work) \in Nat \ {0} /\ emitted \in Seq(Instances)
      /\ Len(emitted) \in Nat
      /\ Emitting \in Frames /\ Answered(Emitting, instantiated) /\ inst \in Instances
  BY <1>1 DEF Inv, Emitting, Frames
<1>3. /\ work' \in Seq(Frames) /\ Len(work') = Len(work) - 1
      /\ DOMAIN work' = 1..(Len(work) - 1) /\ DOMAIN work = 1..Len(work)
      /\ \A i \in DOMAIN work' : work'[i] = work[i]
  <2>1. \A i \in 1..(Len(work) - 1) : work[i] \in Frames
    BY <1>2
  <2>2. Len(work) - 1 - 1 + 1 = Len(work) - 1 /\ Len(work) - 1 \in Nat
    BY <1>2
  <2>3. work' \in Seq(Frames) /\ Len(work') = Len(work) - 1
        /\ \A i \in 1..(Len(work) - 1) : work'[i] = work[i]
    BY <1>1, <1>2, <2>1, <2>2, SubSeqProperties
  <2> QED
    BY <1>2, <2>3
<1>4. \A i \in DOMAIN work' : Answered(work'[i], instantiated')
  BY <1>1, <1>3 DEF Inv
<1>5. inst = work[Len(work)].inst
  BY DEF Emitting
<1> HIDE DEF inst
<1>6. /\ emitted' \in Seq(Instances) /\ DOMAIN emitted' = 1..(Len(emitted) + 1)
      /\ DOMAIN emitted = 1..Len(emitted)
      /\ \A i \in DOMAIN emitted : emitted'[i] = emitted[i]
      /\ emitted'[Len(emitted) + 1] = inst
  BY <1>1, <1>2
<1>7. Begun' = Begun
  <2>1. {work[i].inst : i \in DOMAIN work} = {work'[i].inst : i \in DOMAIN work'} \union {inst}
    BY <1>2, <1>3, <1>5
  <2>2. {emitted'[i] : i \in DOMAIN emitted'} = {emitted[i] : i \in DOMAIN emitted} \union {inst}
    BY <1>2, <1>6
  <2> QED
    BY <2>1, <2>2 DEF Begun
<1>8. \A type \in Types : <<inst, type>> \in Wanted => type \in instantiated
  <2> SUFFICES ASSUME NEW type \in Types, type \in Asks(inst) PROVE type \in instantiated
    BY DEF Wanted
  <2>1. Emitting.types = Mentions(inst) /\ Emitting.types \in Seq(Types)
        /\ Emitting.at > Len(Emitting.types)
    BY <1>1, <1>2 DEF Frames, HasNextPart, inst
  <2>a. PICK k \in DOMAIN Mentions(inst) : \E p \in 1..Len(Mentions(inst)[k]) :
          type = PartOf(Mentions(inst)[k], p) /\ IsGeneric(type[1])
    BY AsksParts
  <2>2. PICK p \in 1..Len(Mentions(inst)[k]) :
          type = PartOf(Mentions(inst)[k], p) /\ IsGeneric(type[1])
    BY <2>a
  <2>3. k \in 1..Len(Emitting.types) /\ p \in 1..Len(Emitting.types[k])
        /\ Emitting.types[k] \in Types
    BY <2>1, <2>2
  <2>4. Emitting.types[k][p] \in Generic
    BY <2>1, <2>2, <2>3, PartHead, GenericIsGeneric
  <2>b. Emitting.at \in Nat /\ Len(Emitting.types) \in Nat
    BY <1>2, <2>1 DEF Frames
  <2>5. Passed(Emitting, k, p)
    BY <2>1, <2>3, <2>b DEF Passed
  <2> QED
    BY <1>2, <2>1, <2>2, <2>3, <2>4, <2>5 DEF Answered
<1>9. \A i \in DOMAIN emitted' : \A type \in Types' :
        <<emitted'[i], type>> \in Wanted' => type \in instantiated'
  BY <1>1, <1>2, <1>6, <1>8, Static DEF Inv
<1>10. \A i \in DOMAIN work' : Answered(work[i], instantiated)'
  BY <1>1, <1>4, Static DEF Answered, Passed, PartOf
<1> QED
  BY <1>1, <1>3, <1>6, <1>7, <1>9, <1>10, Static DEF Inv

(* Every step of the compiler keeps the invariant. *)
LEMMA InvKept ==
  Inv /\ [Next]_vars => Inv'
<1> SUFFICES ASSUME Inv, [Next]_vars PROVE Inv'
  OBVIOUS
<1>1. CASE TypeNext /\ UNCHANGED <<constraintVars, monoVars>>
  BY <1>1, OtherPasses
<1>2. CASE ConstraintNext /\ UNCHANGED <<typeVars, monoVars>>
  BY <1>2, OtherPasses
<1>3. CASE SkipItem \/ EmitItem
  BY <1>3, ItemSteps
<1>4. CASE Keep \/ Reuse
  BY <1>4, PartSteps
<1>5. CASE RefuseInstantiation
  BY <1>5, OtherPass DEF RefuseInstantiation, Refuse
<1>6. CASE Instantiate
  BY <1>6, InstantiateStep
<1>7. CASE Emit
  BY <1>7, EmitStep
<1>8. CASE Lowered \/ UNCHANGED vars
  <2>1. /\ program' = program /\ UNCHANGED monoVars
        /\ phase' = "done" => work = <<>>
    BY <1>8 DEF Lowered, vars, Inv
  <2>2. Begun' = Begun /\ work' = work /\ instantiated' = instantiated
        /\ emitted' = emitted /\ item' = item
    BY <2>1 DEF Begun, monoVars
  <2> QED
    BY <2>1, <2>2, Kept DEF Inv
<1> QED
  BY <1>1, <1>2, <1>3, <1>4, <1>5, <1>6, <1>7, <1>8 DEF Next, MonoNext, Stopped

-----------------------------------------------------------------------------
(* Theorems.                                                                *)

(* ensure_*_instantiation records an instance exactly when emit_*_decl      *)
(* begins it: the cache and the sets of what was emitted never disagree.    *)
THEOREM PromisedInstancesAreBegun ==
  Spec => []PromisedIsBegun
<1>1. Inv => PromisedIsBegun
  BY GenericIsGeneric DEF Inv, PromisedIsBegun
<1> QED
  BY <1>1, Initially, InvKept, PTL DEF Spec

(* When lower_program returns, every generic instance an emitted            *)
(* declaration mentions has been emitted.                                   *)
THEOREM NothingDangles ==
  Spec => []NoDanglingInstance
<1>1. Inv => NoDanglingInstance
  <2> SUFFICES ASSUME Inv, phase = "done", NEW i \in DOMAIN emitted,
                      NEW part \in Asks(emitted[i])
               PROVE  part \in Occurs(emitted)
    BY DEF NoDanglingInstance, Occurs
  <2>1. work = <<>> /\ emitted[i] \in Instances
    BY DEF Inv
  <2>a. PICK k \in DOMAIN Mentions(emitted[i]) :
             \E p \in 1..Len(Mentions(emitted[i])[k]) :
          part = PartOf(Mentions(emitted[i])[k], p) /\ IsGeneric(part[1])
    BY AsksParts
  <2>2. PICK p \in 1..Len(Mentions(emitted[i])[k]) :
          part = PartOf(Mentions(emitted[i])[k], p) /\ IsGeneric(part[1])
    BY <2>a
  <2>3. part \in Types
    <3>1. Mentions(emitted[i]) \in Seq(Types)
      BY <2>1, MentionsType DEF Inv, Instances
    <3>2. Mentions(emitted[i])[k] \in Types
      BY <2>2, <3>1
    <3> QED
      BY <2>2, <3>2, PartType
  <2>4. part \in instantiated
    BY <2>1, <2>3 DEF Inv, Wanted
  <2>5. Begun = Occurs(emitted)
    BY <2>1 DEF Begun, Occurs
  <2> QED
    BY <2>4, <2>5 DEF Inv
<1> QED
  BY <1>1, Initially, InvKept, PTL DEF Spec

-----------------------------------------------------------------------------
(* What the recursive definition of NeededAfter computes.                   *)

Roots == {<<program.order[k]>> :
            k \in {j \in DOMAIN program.order : ~IsGeneric(program.order[j])}}

(* h is what is asked for within each number of steps up to n. *)
Counts(n, h) ==
  h = [steps \in 0..n |-> IF steps = 0 THEN Roots ELSE WithAsked(h[steps - 1])]

(* Counting goes from the items without parameters one step at a time. *)
LEMMA CountsSteps ==
  ASSUME NEW n \in Nat, NEW h
  PROVE  Counts(n, h) <=>
           /\ h = [steps \in 0..n |-> h[steps]]
           /\ h[0] = Roots
           /\ \A k \in Nat : k + 1 <= n => h[k + 1] = WithAsked(h[k])
<1>1. ASSUME Counts(n, h)
      PROVE  /\ h = [steps \in 0..n |-> h[steps]]
             /\ h[0] = Roots
             /\ \A k \in Nat : k + 1 <= n => h[k + 1] = WithAsked(h[k])
  <2>1. /\ DOMAIN h = 0..n /\ h = [steps \in 0..n |-> h[steps]]
        /\ \A steps \in 0..n : h[steps] = IF steps = 0 THEN Roots ELSE WithAsked(h[steps - 1])
    BY <1>1 DEF Counts
  <2>2. 0 \in 0..n /\ \A k \in Nat : k + 1 <= n => k + 1 \in 0..n /\ k + 1 # 0 /\ (k + 1) - 1 = k
    OBVIOUS
  <2>3. h[0] = Roots
    BY <2>1, <2>2
  <2>4. ASSUME NEW k \in Nat, k + 1 <= n PROVE h[k + 1] = WithAsked(h[k])
    BY <2>1, <2>2, <2>4
  <2> QED
    BY <2>1, <2>3, <2>4
<1>2. ASSUME h = [steps \in 0..n |-> h[steps]], h[0] = Roots,
             \A k \in Nat : k + 1 <= n => h[k + 1] = WithAsked(h[k])
      PROVE  Counts(n, h)
  <2>1. \A steps \in 0..n :
        steps # 0 => steps - 1 \in Nat /\ (steps - 1) + 1 = steps /\ (steps - 1) + 1 <= n
    OBVIOUS
  <2>2. ASSUME NEW steps \in 0..n
        PROVE  h[steps] = IF steps = 0 THEN Roots ELSE WithAsked(h[steps - 1])
    <3>1. CASE steps = 0
      BY <1>2, <3>1
    <3>2. CASE steps # 0
      <4>1. h[(steps - 1) + 1] = WithAsked(h[steps - 1])
        BY <1>2, <2>1, <3>2
      <4> QED
        BY <2>1, <3>2, <4>1
    <3> QED
      BY <3>1, <3>2
  <2> QED
    BY <1>2, <2>2 DEF Counts
<1> QED
  BY <1>1, <1>2

(* There is a count for every number of steps. *)
LEMMA CountsExist == \A n \in Nat : \E h : Counts(n, h)
<1> DEFINE S == {n \in Nat : \E h : Counts(n, h)}
<1>1. 0 \in S
  <2> DEFINE h == [steps \in 0..0 |-> Roots]
  <2>1. h = [steps \in 0..0 |-> h[steps]] /\ h[0] = Roots
        /\ \A k \in Nat : ~(k + 1 <= 0)
    OBVIOUS
  <2> HIDE DEF h
  <2>2. Counts(0, h)
    BY <2>1, CountsSteps
  <2> QED
    BY <2>2
<1>2. ASSUME NEW n \in Nat, n \in S PROVE n + 1 \in S
  <2>1. PICK h : Counts(n, h)
    BY <1>2
  <2>2. h[0] = Roots /\ \A k \in Nat : k + 1 <= n => h[k + 1] = WithAsked(h[k])
    BY <2>1, CountsSteps
  <2> DEFINE g == [steps \in 0..n + 1 |-> IF steps = n + 1 THEN WithAsked(h[n]) ELSE h[steps]]
  <2>3. g = [steps \in 0..n + 1 |-> g[steps]] /\ \A k \in 0..n : g[k] = h[k]
    OBVIOUS
  <2>4. g[n + 1] = WithAsked(h[n]) /\ g[0] = h[0]
    OBVIOUS
  <2> HIDE DEF g
  <2>5. ASSUME NEW k \in Nat, k + 1 <= n + 1 PROVE g[k + 1] = WithAsked(g[k])
    <3>1. k \in 0..n
      BY <2>5
    <3>2. CASE k = n
      BY <2>3, <2>4, <3>1, <3>2
    <3>3. CASE k # n
      <4>1. k + 1 <= n /\ k + 1 \in 0..n
        BY <3>1, <3>3
      <4>2. h[k + 1] = WithAsked(h[k])
        BY <2>2, <4>1
      <4> QED
        BY <2>3, <3>1, <4>1, <4>2
    <3> QED
      BY <3>2, <3>3
  <2>6. n + 1 \in Nat
    OBVIOUS
  <2>7. Counts(n + 1, g)
    BY <2>2, <2>3, <2>4, <2>5, <2>6, CountsSteps
  <2> QED
    BY <2>6, <2>7
<1> HIDE DEF S
<1>3. Nat \subseteq S
  BY <1>1, <1>2, NatSetInduction
<1> QED
  BY <1>3 DEF S

(* Two counts agree as far as both go. *)
LEMMA CountsAgree ==
  ASSUME NEW n \in Nat, NEW m \in Nat, NEW g, NEW h, Counts(n, g), Counts(m, h)
  PROVE  \A k \in Nat : k <= n /\ k <= m => g[k] = h[k]
<1> DEFINE S == {k \in Nat : k <= n /\ k <= m => g[k] = h[k]}
<1>1. /\ g[0] = Roots /\ \A k \in Nat : k + 1 <= n => g[k + 1] = WithAsked(g[k])
      /\ h[0] = Roots /\ \A k \in Nat : k + 1 <= m => h[k + 1] = WithAsked(h[k])
  BY CountsSteps
<1>2. 0 \in S
  BY <1>1
<1>3. ASSUME NEW k \in Nat, k \in S PROVE k + 1 \in S
  <2> SUFFICES ASSUME k + 1 <= n, k + 1 <= m PROVE g[k + 1] = h[k + 1]
    OBVIOUS
  <2>1. g[k] = h[k]
    BY <1>3
  <2> QED
    BY <1>1, <2>1
<1> HIDE DEF S
<1>4. Nat \subseteq S
  BY <1>2, <1>3, NatSetInduction
<1> QED
  BY <1>4 DEF S

(* NeededAfter is the function it is defined to be. *)
LEMMA NeededAfterSteps ==
  /\ NeededAfter[0] = Roots
  /\ \A n \in Nat : NeededAfter[n + 1] = WithAsked(NeededAfter[n])
<1> DEFINE Defines(f) == f = [steps \in Nat |->
                                IF steps = 0 THEN Roots ELSE WithAsked(f[steps - 1])]
           count == [n \in Nat |-> CHOOSE h : Counts(n, h)]
           g == [n \in Nat |-> count[n][n]]
<1>1. \A n \in Nat : Counts(n, count[n])
  BY CountsExist
<1> HIDE DEF count
<1>2. \A n \in Nat : g[n] = count[n][n]
  OBVIOUS
<1>3. g = [n \in Nat |-> g[n]]
  OBVIOUS
<1> HIDE DEF g
<1>4. g[0] = Roots
  BY <1>1, <1>2, CountsSteps
<1>5. ASSUME NEW n \in Nat PROVE g[n + 1] = WithAsked(g[n])
  <2>1. n + 1 \in Nat /\ n <= n + 1 /\ n <= n /\ n + 1 <= n + 1
    OBVIOUS
  <2>2. Counts(n, count[n]) /\ Counts(n + 1, count[n + 1])
    BY <1>1, <2>1
  <2>3. count[n + 1][n + 1] = WithAsked(count[n + 1][n])
    BY <2>1, <2>2, CountsSteps
  <2>4. count[n + 1][n] = count[n][n]
    BY <2>1, <2>2, CountsAgree
  <2> QED
    BY <1>2, <2>1, <2>3, <2>4
<1>6. ASSUME NEW steps \in Nat
      PROVE  g[steps] = IF steps = 0 THEN Roots ELSE WithAsked(g[steps - 1])
  <2>1. CASE steps = 0
    BY <1>4, <2>1
  <2>2. CASE steps # 0
    <3>1. steps - 1 \in Nat /\ (steps - 1) + 1 = steps
      BY <2>2
    <3>2. g[(steps - 1) + 1] = WithAsked(g[steps - 1])
      BY <1>5, <3>1
    <3> QED
      BY <2>2, <3>1, <3>2
  <2> QED
    BY <2>1, <2>2
<1>7. Defines(g)
  BY <1>3, <1>6
<1>8. NeededAfter = CHOOSE f : Defines(f)
  BY DEF NeededAfter, Roots
<1>9. Defines(NeededAfter)
  BY <1>7, <1>8
<1>10. \A steps \in Nat :
         NeededAfter[steps] = IF steps = 0 THEN Roots ELSE WithAsked(NeededAfter[steps - 1])
  BY <1>9
<1> HIDE DEF Defines
<1>11. ASSUME NEW n \in Nat PROVE NeededAfter[n + 1] = WithAsked(NeededAfter[n])
  <2>1. n + 1 \in Nat /\ n + 1 # 0 /\ (n + 1) - 1 = n
    OBVIOUS
  <2> QED
    BY <1>10, <2>1
<1> QED
  BY <1>10, <1>11

(* More steps reach no less. *)
LEMMA NeededGrows ==
  ASSUME NEW n \in Nat
  PROVE  \A m \in Nat : NeededAfter[n] \subseteq NeededAfter[n + m]
<1> DEFINE S == {m \in Nat : NeededAfter[n] \subseteq NeededAfter[n + m]}
<1>1. 0 \in S
  OBVIOUS
<1>2. ASSUME NEW m \in Nat, m \in S PROVE m + 1 \in S
  <2>1. n + m \in Nat /\ n + (m + 1) = (n + m) + 1
    OBVIOUS
  <2>2. NeededAfter[n + (m + 1)] = WithAsked(NeededAfter[n + m])
    BY <2>1, NeededAfterSteps
  <2>3. NeededAfter[n + m] \subseteq NeededAfter[n + (m + 1)]
    BY <2>2 DEF WithAsked
  <2> QED
    BY <1>2, <2>3
<1> HIDE DEF S
<1>3. Nat \subseteq S
  BY <1>1, <1>2, NatSetInduction
<1> QED
  BY <1>3 DEF S

(* The program does not change, nor what it needs. *)
LEMMA NeededStatic ==
  ASSUME program' = program
  PROVE  /\ \A inst : Asks(inst)' = Asks(inst)
         /\ \A n \in Nat : NeededAfter'[n] = NeededAfter[n]
<1>1. ASSUME NEW inst PROVE Asks(inst)' = Asks(inst)
  BY DEF Asks, Mentions, Item, IsGeneric, IsItem, Item, Key, apply_substitution
<1>2. Roots' = Roots
  BY DEF Roots, IsGeneric, IsItem, Item
<1>3. NeededAfter'[0] = Roots' /\ \A n \in Nat : NeededAfter'[n + 1] = WithAsked(NeededAfter[n])'
  <2>1. (/\ NeededAfter[0] = Roots
         /\ \A n \in Nat : NeededAfter[n + 1] = WithAsked(NeededAfter[n]))'
    BY NeededAfterSteps, PTL
  <2> QED
    BY <2>1
<1>4. \A n \in Nat : WithAsked(NeededAfter[n])' =
        NeededAfter'[n] \union UNION {Asks(inst) : inst \in NeededAfter'[n]}
  BY <1>1 DEF WithAsked
<1>5. \A n \in Nat : NeededAfter'[n + 1] =
        NeededAfter'[n] \union UNION {Asks(inst) : inst \in NeededAfter'[n]}
  BY <1>3, <1>4
<1>6. \A n \in Nat : NeededAfter[n + 1] =
        NeededAfter[n] \union UNION {Asks(inst) : inst \in NeededAfter[n]}
  BY NeededAfterSteps DEF WithAsked
<1> DEFINE S == {n \in Nat : NeededAfter'[n] = NeededAfter[n]}
<1>7. 0 \in S
  BY <1>2, <1>3, NeededAfterSteps
<1>8. ASSUME NEW n \in Nat, n \in S PROVE n + 1 \in S
  <2> DEFINE W(set) == set \union UNION {Asks(inst) : inst \in set}
  <2>1. NeededAfter'[n] = NeededAfter[n]
    BY <1>8
  <2>2. NeededAfter'[n + 1] = W(NeededAfter'[n]) /\ NeededAfter[n + 1] = W(NeededAfter[n])
    BY <1>5, <1>6
  <2> HIDE DEF W
  <2>3. NeededAfter'[n + 1] = NeededAfter[n + 1]
    BY <2>1, <2>2
  <2> QED
    BY <2>3
<1> HIDE DEF S
<1>9. Nat \subseteq S
  BY <1>7, <1>8, NatSetInduction
<1> QED
  BY <1>1, <1>9 DEF S

-----------------------------------------------------------------------------
(* The chain of instantiations that are being emitted.                      *)

(* Each declaration on the chain is asked for by the one before, none       *)
(* twice, and as many steps away from the items without parameters.         *)
Chain ==
  /\ Len(work) <= kMaxGenericInstantiationDepth + 1
  /\ \A i, j \in DOMAIN work : i # j => work[i].inst # work[j].inst
  /\ \A i \in 2..Len(work) : work[i].inst \in Asks(work[i-1].inst)
  /\ \A i \in DOMAIN work : work[i].inst \in NeededAfter[i - 1]

(* The registers of lowering, and how the compiler has come out.            *)
LowInv ==
  /\ Inv
  /\ Chain
  /\ \A i \in DOMAIN emitted : emitted[i] \in NeededAfter[kMaxGenericInstantiationDepth]
  /\ reason # "none" <=> phase = "refused"
  /\ phase \in {"types", "constraints"} => work = <<>>
  /\ reason = "lowering limit" =>
       /\ Len(work) = kMaxGenericInstantiationDepth + 1
       /\ NextPart \notin {work[i].inst : i \in DOMAIN work}

(* What a step has to show of the chain it leaves.                          *)
LEMMA ChainNext ==
  ASSUME program' = program,
         Len(work') <= kMaxGenericInstantiationDepth + 1,
         DOMAIN work' = 1..Len(work'), Len(work') \in Nat,
         \A i, j \in DOMAIN work' : i # j => work'[i].inst # work'[j].inst,
         \A i \in 2..Len(work') : work'[i].inst \in Asks(work'[i-1].inst),
         \A i \in DOMAIN work' : work'[i].inst \in NeededAfter[i - 1]
  PROVE  Chain'
<1>1. \A n \in Nat : NeededAfter'[n] = NeededAfter[n]
  BY NeededStatic
<1>2. \A i \in DOMAIN work' : i - 1 \in Nat
  OBVIOUS
<1>3. \A i \in DOMAIN work' : work'[i].inst \in NeededAfter'[i - 1]
  BY <1>1, <1>2
<1>4. \A inst : Asks(inst)' = Asks(inst)
  BY NeededStatic
<1>5. \A i \in 2..Len(work') : work'[i].inst \in Asks(work[i-1].inst)'
  BY <1>4
<1> QED
  BY <1>3, <1>5 DEF Chain

(* A chain of the same instances is one.                                    *)
LEMMA ChainKept ==
  ASSUME Inv, Chain, program' = program, Len(work') = Len(work), DOMAIN work' = DOMAIN work,
         \A i \in DOMAIN work : work'[i].inst = work[i].inst
  PROVE  Chain'
<1>1. DOMAIN work = 1..Len(work) /\ Len(work) \in Nat
  BY DEF Inv
<1>2. \A i \in 2..Len(work) : i \in DOMAIN work /\ i - 1 \in DOMAIN work
  BY <1>1
<1> QED
  BY <1>1, <1>2, ChainNext DEF Chain

(* The last of the chain asks for the part it has come to.                  *)
LEMMA PartIsAsked ==
  ASSUME Inv, work # <<>>, HasNextPart, IsGeneric(NextPart[1])
  PROVE  NextPart \in Asks(Emitting.inst)
<1>1. /\ Emitting \in Frames
      /\ Emitting.at \in 1..Len(Emitting.types)
      /\ Emitting.part \in 1..Len(Emitting.types[Emitting.at])
      /\ NextPart = PartOf(Emitting.types[Emitting.at], Emitting.part)
  BY NextPartType
<1>2. Emitting.types = Mentions(Emitting.inst) /\ Emitting.types \in Seq(Types)
  BY <1>1 DEF Frames
<1>3. Emitting.at \in DOMAIN Mentions(Emitting.inst)
  BY <1>1, <1>2
<1> QED
  BY <1>1, <1>2, <1>3, AsksParts

(* An instance that is asked for by the last of the chain lengthens it.     *)
LEMMA LengthenChain ==
  ASSUME Inv, Chain, Instantiate
  PROVE  Chain'
<1> DEFINE inst == NextPart
           n == Len(work)
<1>1. /\ work # <<>> /\ HasNextPart /\ program' = program
      /\ inst \notin instantiated /\ IsGeneric(inst[1])
      /\ InstantiationDepth < kMaxGenericInstantiationDepth
      /\ work' = Begin(inst, Rewritten)
  BY DEF Instantiate, Ensure
<1>2. inst \in Instances /\ inst[1] \in Generic
  BY <1>1, NextPartType, GenericIsGeneric
<1>3. inst \notin Begun
  BY <1>1, <1>2 DEF Inv
<1>4. Emitting = work[n] /\ n \in Nat \ {0} /\ DOMAIN work = 1..n
  BY <1>1 DEF Inv, Emitting
<1>5. inst \in Asks(work[n].inst)
  BY <1>1, <1>4, PartIsAsked
<1>6. /\ Rewritten \in Seq(Frames) /\ DOMAIN Rewritten = DOMAIN work
      /\ Len(Rewritten) = n
      /\ \A i \in DOMAIN work : Rewritten[i].inst = work[i].inst
  <2> DEFINE more == instantiated \union {inst}
  <2>1. instantiated \subseteq more /\ NextPart \in more
    OBVIOUS
  <2> HIDE DEF more, inst, n
  <2>2. work # <<>> /\ HasNextPart
    BY <1>1
  <2> QED
    BY <2>1, <2>2, RewrittenFacts DEF n
<1>7. Frame(inst).inst = inst /\ Frame(inst) \in Frames
  BY <1>2, FrameStarts DEF Inv
<1> HIDE DEF inst, n
<1>8. work' = Append(Rewritten, Frame(inst))
  BY <1>1, <1>3 DEF Begin
<1>9. /\ Len(work') = n + 1 /\ DOMAIN work' = 1..(n + 1)
      /\ \A i \in 1..n : work'[i].inst = work[i].inst
      /\ work'[n + 1].inst = inst
  BY <1>4, <1>6, <1>7, <1>8
<1>10. n < kMaxGenericInstantiationDepth + 1
  BY <1>1, <1>4, LimitAssumption DEF InstantiationDepth, n
<1>11. Len(work') <= kMaxGenericInstantiationDepth + 1
  BY <1>4, <1>9, <1>10, LimitAssumption
<1>12. \A i \in 1..n : inst # work[i].inst
  BY <1>3, <1>4 DEF Begun
<1>13. ASSUME NEW i \in DOMAIN work', NEW j \in DOMAIN work', i # j
       PROVE  work'[i].inst # work'[j].inst
  <2>1. CASE i \in 1..n /\ j \in 1..n
    BY <1>4, <1>9, <1>13, <2>1 DEF Chain
  <2>2. CASE i = n + 1 /\ j \in 1..n
    BY <1>9, <1>12, <2>2
  <2>3. CASE j = n + 1 /\ i \in 1..n
    BY <1>9, <1>12, <2>3
  <2> QED
    BY <1>4, <1>9, <1>13, <2>1, <2>2, <2>3
<1>14. ASSUME NEW i \in 2..Len(work')
       PROVE  work'[i].inst \in Asks(work'[i-1].inst)
  <2>1. i - 1 \in 1..n
    BY <1>4, <1>9
  <2>2. CASE i = n + 1
    <3>1. i - 1 = n
      BY <1>4, <2>2
    <3> QED
      BY <1>5, <1>9, <2>1, <2>2, <3>1
  <2>3. CASE i # n + 1
    <3>1. i \in 2..Len(work) /\ i \in 1..n
      BY <1>4, <1>9, <2>3 DEF n
    <3> QED
      BY <1>9, <2>1, <3>1 DEF Chain
  <2> QED
    BY <2>2, <2>3
<1>15. ASSUME NEW i \in DOMAIN work'
       PROVE  work'[i].inst \in NeededAfter[i - 1]
  <2>1. CASE i \in 1..n
    BY <1>4, <1>9, <2>1 DEF Chain
  <2>2. CASE i = n + 1
    <3>1. work[n].inst \in NeededAfter[n - 1] /\ n - 1 \in Nat /\ (n - 1) + 1 = n /\ i - 1 = n
      BY <1>4, <2>2 DEF Chain
    <3>2. NeededAfter[(n - 1) + 1] = WithAsked(NeededAfter[n - 1])
      BY <3>1, NeededAfterSteps
    <3>3. inst \in WithAsked(NeededAfter[n - 1])
      BY <1>5, <3>1 DEF WithAsked
    <3> QED
      BY <1>9, <2>2, <3>1, <3>2, <3>3
  <2> QED
    BY <1>4, <1>9, <2>1, <2>2
<1>16. Len(work') \in Nat /\ DOMAIN work' = 1..Len(work')
  BY <1>4, <1>9
<1> QED
  BY <1>1, <1>11, <1>13, <1>14, <1>15, <1>16, ChainNext

(* Taking the last off leaves a chain. *)
LEMMA ShortenChain ==
  ASSUME Inv, Chain, Emit
  PROVE  Chain' /\ Emitting.inst \in NeededAfter[kMaxGenericInstantiationDepth]
<1> DEFINE n == Len(work)
<1>1. work # <<>> /\ program' = program /\ work' = SubSeq(work, 1, Len(work) - 1)
  BY DEF Emit
<1>2. work \in Seq(Frames) /\ n \in Nat \ {0} /\ DOMAIN work = 1..n /\ Emitting = work[n]
  BY <1>1 DEF Inv, Emitting
<1>3. /\ Len(work') = n - 1 /\ DOMAIN work' = 1..(n - 1)
      /\ \A i \in 1..(n - 1) : work'[i] = work[i]
  <2>1. \A i \in 1..(n - 1) : work[i] \in Frames
    BY <1>2
  <2>2. n - 1 - 1 + 1 = n - 1 /\ n - 1 \in Nat
    BY <1>2
  <2> QED
    BY <1>1, <1>2, <2>1, <2>2, SubSeqProperties
<1> HIDE DEF n
<1>4. n <= kMaxGenericInstantiationDepth + 1
  BY DEF Chain, n
<1>5. Emitting.inst \in NeededAfter[kMaxGenericInstantiationDepth]
  <2>1. work[n].inst \in NeededAfter[n - 1]
    BY <1>2 DEF Chain
  <2> DEFINE m == kMaxGenericInstantiationDepth - (n - 1)
  <2>2. m \in Nat /\ n - 1 \in Nat /\ (n - 1) + m = kMaxGenericInstantiationDepth
    BY <1>2, <1>4, LimitAssumption
  <2> HIDE DEF m
  <2>3. NeededAfter[n - 1] \subseteq NeededAfter[(n - 1) + m]
    BY <2>2, NeededGrows
  <2> QED
    BY <1>2, <2>1, <2>2, <2>3
<1>6. /\ \A i \in 1..(n - 1) : i \in DOMAIN work
      /\ \A i \in 2..(n - 1) : i \in 2..Len(work) /\ i \in 1..(n - 1) /\ i - 1 \in 1..(n - 1)
  BY <1>2 DEF n
<1>7. \A i, j \in DOMAIN work' : i # j => work'[i].inst # work'[j].inst
  BY <1>3, <1>6 DEF Chain
<1>8. \A i \in 2..Len(work') : work'[i].inst \in Asks(work'[i-1].inst)
  BY <1>3, <1>6 DEF Chain
<1>9. \A i \in DOMAIN work' : work'[i].inst \in NeededAfter[i - 1]
  BY <1>3, <1>6 DEF Chain
<1>10. Len(work') \in Nat /\ DOMAIN work' = 1..Len(work')
       /\ Len(work') <= kMaxGenericInstantiationDepth + 1
  BY <1>2, <1>3, <1>4, LimitAssumption
<1> QED
  BY <1>1, <1>5, <1>7, <1>8, <1>9, <1>10, ChainNext

(* An item without parameters begins a chain. *)
LEMMA BeginChain ==
  ASSUME Inv, Chain, SkipItem \/ EmitItem
  PROVE  Chain'
<1>1. work = <<>> /\ program' = program /\ item <= Len(program.order) /\ item \in Nat \ {0}
  BY DEF SkipItem, EmitItem, Inv
<1>2. CASE work' = <<>>
  <2>1. Len(work') = 0 /\ DOMAIN work' = {} /\ 1..0 = {} /\ 2..0 = {}
    BY <1>2
  <2>2. /\ Len(work') <= kMaxGenericInstantiationDepth + 1
        /\ DOMAIN work' = 1..Len(work') /\ Len(work') \in Nat
    BY <2>1, LimitAssumption
  <2> QED
    BY <1>1, <2>1, <2>2, ChainNext
<1>3. CASE work' # <<>>
  <2> DEFINE inst == <<program.order[item]>>
  <2>1. ~IsGeneric(program.order[item]) /\ work' = <<Frame(inst)>>
    BY <1>1, <1>3 DEF SkipItem, EmitItem, Begin
  <2>2. Frame(inst).inst = inst
    BY DEF Frame, At
  <2>3. inst \in Roots
    <3>1. program.order \in Seq(DOMAIN program.decl)
      BY ProgramFacts DEF Inv
    <3>2. item \in DOMAIN program.order
      BY <1>1, <3>1
    <3> QED
      BY <2>1, <3>2 DEF Roots
  <2> HIDE DEF inst
  <2>4. /\ Len(work') = 1 /\ DOMAIN work' = 1..1 /\ work'[1].inst = inst
    BY <2>1, <2>2
  <2>5. Len(work') <= kMaxGenericInstantiationDepth + 1
    BY <2>4, LimitAssumption
  <2>6. \A i, j \in DOMAIN work' : i = j
    BY <2>4
  <2>7. \A i \in 2..Len(work') : FALSE
    BY <2>4
  <2>8. \A i \in DOMAIN work' : work'[i].inst \in NeededAfter[i - 1]
    BY <2>3, <2>4, NeededAfterSteps
  <2>9. DOMAIN work' = 1..Len(work') /\ Len(work') \in Nat
    BY <2>4
  <2> QED
    BY <1>1, <2>5, <2>6, <2>7, <2>8, <2>9, ChainNext
<1> QED
  BY <1>2, <1>3

(* The rest of the invariant, when nothing is refused and nothing emitted.  *)
LEMMA LowKept ==
  ASSUME LowInv, program' = program, Inv', Chain', emitted' = emitted,
         reason' = "none", phase' # "refused", phase' \in {"types", "constraints"} => work' = <<>>
  PROVE  LowInv'
<1>1. \A i \in DOMAIN emitted' : emitted'[i] \in NeededAfter'[kMaxGenericInstantiationDepth]
  BY NeededStatic, LimitAssumption DEF LowInv
<1> QED
  BY <1>1 DEF LowInv

(* A refusal by an earlier pass leaves lowering where it was. *)
LEMMA LowRefused ==
  ASSUME LowInv, program' = program, Inv', UNCHANGED monoVars,
         phase' = "refused", reason' \notin {"none", "lowering limit"}
  PROVE  LowInv'
<1>1. UNCHANGED <<item, work, instantiated, emitted>>
  BY DEF monoVars
<1>2. \A i \in DOMAIN emitted' : emitted'[i] \in NeededAfter'[kMaxGenericInstantiationDepth]
  BY <1>1, NeededStatic, LimitAssumption DEF LowInv
<1>3. Chain'
  BY <1>1, ChainKept DEF LowInv
<1> QED
  BY <1>1, <1>2, <1>3 DEF LowInv

(* A refusal by lowering is over a chain as long as the limit. *)
LEMMA LowRefusal ==
  ASSUME LowInv, Inv', RefuseInstantiation
  PROVE  LowInv'
<1>1. /\ phase' = "refused" /\ reason' = "lowering limit" /\ program' = program
      /\ UNCHANGED <<item, work, instantiated, emitted>>
      /\ work # <<>> /\ HasNextPart /\ IsGeneric(NextPart[1]) /\ NextPart \notin instantiated
      /\ InstantiationDepth >= kMaxGenericInstantiationDepth
  BY DEF RefuseInstantiation, Refuse, monoVars, Ensure
<1>2. \A i \in DOMAIN emitted' : emitted'[i] \in NeededAfter'[kMaxGenericInstantiationDepth]
  BY <1>1, NeededStatic, LimitAssumption DEF LowInv
<1>3. Chain'
  BY <1>1, ChainKept DEF LowInv
<1>4. Len(work) = kMaxGenericInstantiationDepth + 1
  <2>1. work \in Seq(Frames)
    BY DEF LowInv, Inv
  <2>2. Len(work) \in Nat
    BY <2>1, LenProperties
  <2>3. Len(work) <= kMaxGenericInstantiationDepth + 1
    BY DEF LowInv, Chain
  <2>4. Len(work) - 1 >= kMaxGenericInstantiationDepth
    BY <1>1 DEF InstantiationDepth
  <2> QED
    BY <2>2, <2>3, <2>4, LimitAssumption
<1>5. NextPart \notin {work[i].inst : i \in DOMAIN work}
  <2>1. NextPart[1] \in Generic
    BY <1>1, GenericIsGeneric
  <2>2. NextPart \notin Begun
    BY <1>1, <2>1 DEF LowInv, Inv
  <2> QED
    BY <2>2 DEF Begun
<1>6. NextPart' = NextPart
  BY <1>1 DEF NextPart, Emitting
<1>7. (NextPart \notin {work[i].inst : i \in DOMAIN work})'
  BY <1>1, <1>5, <1>6
<1> QED
  BY <1>1, <1>2, <1>3, <1>4, <1>7 DEF LowInv

(* What is emitted was needed. *)
LEMMA LowEmit ==
  ASSUME LowInv, Inv', Emit
  PROVE  LowInv'
<1>1. /\ phase = "lowering" /\ phase' = phase /\ reason' = reason /\ program' = program
      /\ emitted' = Append(emitted, Emitting.inst)
  BY DEF Emit
<1>2. Chain' /\ Emitting.inst \in NeededAfter[kMaxGenericInstantiationDepth]
  BY ShortenChain DEF LowInv
<1>3. emitted \in Seq(Instances) /\ Emitting.inst \in Instances
  <2>1. Emitting \in Frames
    BY DEF LowInv, Inv, Emit, Emitting
  <2> QED
    BY <2>1 DEF LowInv, Inv, Frames
<1>4. /\ DOMAIN emitted' = 1..(Len(emitted) + 1) /\ DOMAIN emitted = 1..Len(emitted)
      /\ Len(emitted) \in Nat
      /\ \A i \in DOMAIN emitted : emitted'[i] = emitted[i]
      /\ emitted'[Len(emitted) + 1] = Emitting.inst
  BY <1>1, <1>3
<1>5. \A i \in DOMAIN emitted' : emitted'[i] \in NeededAfter[kMaxGenericInstantiationDepth]
  <2> SUFFICES ASSUME NEW i \in DOMAIN emitted'
               PROVE  emitted'[i] \in NeededAfter[kMaxGenericInstantiationDepth]
    OBVIOUS
  <2>1. CASE i = Len(emitted) + 1
    BY <1>2, <1>4, <2>1
  <2>2. CASE i # Len(emitted) + 1
    <3>1. i \in DOMAIN emitted
      BY <1>4, <2>2
    <3> QED
      BY <1>4, <3>1 DEF LowInv
  <2> QED
    BY <2>1, <2>2
<1>6. \A i \in DOMAIN emitted' : emitted'[i] \in NeededAfter'[kMaxGenericInstantiationDepth]
  BY <1>1, <1>5, NeededStatic, LimitAssumption
<1> QED
  BY <1>1, <1>2, <1>6 DEF LowInv

(* Lowering starts with nothing asked for. *)
LEMMA LowInitially ==
  Init => LowInv
<1> SUFFICES ASSUME Init PROVE LowInv
  OBVIOUS
<1>1. /\ phase = "types" /\ reason = "none" /\ work = <<>> /\ emitted = <<>>
  BY DEF Init, MonoInit
<1>2. Inv
  BY Initially
<1>3. DOMAIN work = {} /\ Len(work) = 0 /\ 2..0 = {} /\ DOMAIN emitted = {}
  BY <1>1
<1>4. Chain
  BY <1>3, LimitAssumption DEF Chain
<1> QED
  BY <1>1, <1>2, <1>3, <1>4 DEF LowInv

(* The passes before lowering say in `reason' why they refuse.              *)
LEMMA EarlierOutcomes ==
  ASSUME TypeNext \/ ConstraintNext
  PROVE  /\ program' = program /\ phase \in {"types", "constraints"}
         /\ \/ phase' = "refused" /\ reason' \notin {"none", "lowering limit"}
            \/ phase' = "lowering" /\ reason' = reason
            \/ phase' \in {"types", "constraints"} /\ reason' = reason
<1>1. TypeNext => /\ program' = program /\ phase = "types"
                  /\ \/ phase' = "refused" /\ reason' \in {"type cycle", "type limit"}
                     \/ phase' \in {"types", "constraints"} /\ reason' = reason
  BY DEF TypeNext, PassOver, RefuseCycle, RefuseExpansion, Expand, Expanded,
         TypesChecked, MustExpand, Refuse
<1>2. Examine => phase = "constraints"
  BY DEF Examine
<1>3. (Met \/ Unmet \/ Continue \/ RefuseConstraint \/ NextItem) =>
         /\ program' = program /\ phase = "constraints"
         /\ \/ phase' = "refused" /\ reason' = "constraint"
            \/ phase' = phase /\ reason' = reason
  BY DEF Met, Unmet, Continue, RefuseConstraint, NextItem, Refuse
<1>4. (SkipConstraint \/ Decide \/ Remembered \/ Unbounded \/ Evaluate \/ ConstraintsChecked) =>
         /\ program' = program /\ phase = "constraints"
         /\ \/ phase' = "refused" /\ reason' = "constraint limit"
            \/ phase' = "lowering" /\ reason' = reason
            \/ phase' = phase /\ reason' = reason
  BY <1>2 DEF SkipConstraint, Decide, Remembered, Unbounded, Evaluate,
              ConstraintsChecked, Enforce, Refuse
<1> QED
  BY <1>1, <1>3, <1>4 DEF ConstraintNext

(* Every step of the compiler keeps the chain. *)
LEMMA LowInvKept ==
  LowInv /\ [Next]_vars => LowInv'
<1> SUFFICES ASSUME LowInv, [Next]_vars PROVE LowInv'
  OBVIOUS
<1>0. Inv /\ Inv' /\ Chain
  BY InvKept DEF LowInv
<1>1. CASE (TypeNext \/ ConstraintNext) /\ UNCHANGED monoVars
  <2>1. /\ program' = program /\ work = <<>> /\ reason = "none"
        /\ UNCHANGED <<work, emitted>>
    BY <1>1, EarlierOutcomes DEF LowInv, monoVars
  <2>2. CASE phase' = "refused" /\ reason' \notin {"none", "lowering limit"}
    BY <1>0, <1>1, <2>1, <2>2, LowRefused
  <2>3. CASE phase' # "refused" /\ reason' = reason
    <3>1. Chain'
      BY <1>0, <2>1, ChainKept
    <3> QED
      BY <1>0, <2>1, <2>3, <3>1, LowKept
  <2> QED
    BY <1>1, <2>2, <2>3, EarlierOutcomes
<1>2. CASE SkipItem \/ EmitItem
  <2>1. Chain'
    BY <1>0, <1>2, BeginChain
  <2>2. /\ phase = "lowering" /\ phase' = phase /\ reason' = reason /\ program' = program
        /\ emitted' = emitted
    BY <1>2 DEF SkipItem, EmitItem
  <2> QED
    BY <1>0, <2>1, <2>2, LowKept DEF LowInv
<1>3. CASE Keep \/ Reuse
  <2>1. /\ phase = "lowering" /\ phase' = phase /\ reason' = reason /\ program' = program
        /\ emitted' = emitted /\ work' = Rewritten /\ work # <<>> /\ HasNextPart
    BY <1>3 DEF Keep, Reuse, Ensure
  <2>2. NextPart[1] \in Generic => NextPart \in instantiated
    BY <1>3, GenericIsGeneric DEF Keep, Reuse, Ensure
  <2>3. /\ DOMAIN work' = DOMAIN work /\ Len(work') = Len(work)
        /\ \A i \in DOMAIN work : work'[i].inst = work[i].inst
    BY <1>0, <2>1, <2>2, RewrittenFacts
  <2>4. Chain'
    BY <1>0, <2>1, <2>3, ChainKept
  <2> QED
    BY <1>0, <2>1, <2>4, LowKept DEF LowInv
<1>4. CASE RefuseInstantiation
  BY <1>0, <1>4, LowRefusal
<1>5. CASE Instantiate
  <2>1. Chain'
    BY <1>0, <1>5, LengthenChain
  <2>2. /\ phase = "lowering" /\ phase' = phase /\ reason' = reason /\ program' = program
        /\ emitted' = emitted
    BY <1>5 DEF Instantiate, Ensure
  <2> QED
    BY <1>0, <2>1, <2>2, LowKept DEF LowInv
<1>6. CASE Emit
  BY <1>0, <1>6, LowEmit
<1>7. CASE Lowered
  <2>1. /\ phase = "lowering" /\ phase' = "done" /\ reason' = reason /\ program' = program
        /\ emitted' = emitted /\ work' = work
    BY <1>7 DEF Lowered, monoVars
  <2>2. Chain'
    BY <1>0, <2>1, ChainKept
  <2> QED
    BY <1>0, <2>1, <2>2, LowKept DEF LowInv
<1>8. CASE UNCHANGED vars
  <2>1. UNCHANGED <<program, phase, reason, item, work, instantiated, emitted>>
    BY <1>8 DEF vars, monoVars
  <2>2. Chain'
    BY <1>0, <2>1, ChainKept
  <2>3. NextPart' = NextPart
    BY <2>1 DEF NextPart, Emitting
  <2>4. \A i \in DOMAIN emitted' : emitted'[i] \in NeededAfter'[kMaxGenericInstantiationDepth]
    BY <2>1, NeededStatic, LimitAssumption DEF LowInv
  <2> QED
    BY <1>0, <2>1, <2>2, <2>3, <2>4 DEF LowInv
<1> QED
  BY <1>1, <1>2, <1>3, <1>4, <1>5, <1>6, <1>7, <1>8 DEF Next, MonoNext, Stopped

(* What has been emitted is not emitted again.                              *)

(* Neither twice already nor once more when what is under way is done.      *)
Once ==
  /\ \A i, j \in DOMAIN emitted : i # j => emitted[i] # emitted[j]
  /\ \A i \in DOMAIN emitted : \A j \in DOMAIN work : emitted[i] # work[j].inst

(* A step that begins only what has not been begun.                         *)
LEMMA OnceBegun ==
  ASSUME Once, emitted' = emitted,
         \A j \in DOMAIN work' : \/ \E k \in DOMAIN work : work'[j].inst = work[k].inst
                                 \/ work'[j].inst \notin Begun
  PROVE  Once'
<1>1. ASSUME NEW i \in DOMAIN emitted', NEW j \in DOMAIN work'
      PROVE  emitted'[i] # work'[j].inst
  <2>1. i \in DOMAIN emitted /\ emitted'[i] = emitted[i] /\ emitted[i] \in Begun
    BY DEF Begun
  <2>2. CASE work'[j].inst \notin Begun
    BY <2>1, <2>2
  <2>3. CASE \E k \in DOMAIN work : work'[j].inst = work[k].inst
    BY <2>1, <2>3 DEF Once
  <2> QED
    BY <2>2, <2>3
<1> QED
  BY <1>1 DEF Once

(* The last of the chain is emitted: it has not been, and is no other one.  *)
LEMMA OnceEmitted ==
  ASSUME Inv, Chain, Once, Emit
  PROVE  Once'
<1> DEFINE n == Len(work)
           m == Len(emitted)
<1>1. /\ work # <<>> /\ emitted' = Append(emitted, Emitting.inst)
      /\ work' = SubSeq(work, 1, Len(work) - 1)
  BY DEF Emit
<1>2. /\ work \in Seq(Frames) /\ n \in Nat \ {0} /\ DOMAIN work = 1..n /\ Emitting = work[n]
      /\ emitted \in Seq(Instances) /\ Emitting.inst \in Instances
  <2>1. work \in Seq(Frames) /\ n \in Nat \ {0} /\ DOMAIN work = 1..n /\ Emitting = work[n]
    BY <1>1 DEF Inv, Emitting
  <2>2. Emitting \in Frames
    BY <2>1
  <2> QED
    BY <2>1, <2>2 DEF Inv, Frames
<1>3. /\ DOMAIN work' = 1..(n - 1)
      /\ \A i \in 1..(n - 1) : work'[i] = work[i]
  <2>1. \A i \in 1..(n - 1) : work[i] \in Frames
    BY <1>2
  <2>2. n - 1 - 1 + 1 = n - 1 /\ n - 1 \in Nat
    BY <1>2
  <2> QED
    BY <1>1, <1>2, <2>1, <2>2, SubSeqProperties
<1>4. /\ DOMAIN emitted' = 1..(m + 1) /\ DOMAIN emitted = 1..m /\ m \in Nat
      /\ \A i \in DOMAIN emitted : emitted'[i] = emitted[i]
      /\ emitted'[m + 1] = work[n].inst
  BY <1>1, <1>2
<1> HIDE DEF n, m
<1>5. n \in DOMAIN work /\ \A j \in 1..(n - 1) : j \in DOMAIN work /\ j # n
  BY <1>2
<1>6. \A j \in DOMAIN work' : work'[j].inst # work[n].inst
  BY <1>3, <1>5 DEF Chain
<1>7. \A i \in DOMAIN emitted : emitted[i] # work[n].inst
  BY <1>5 DEF Once
<1>8. \A i \in DOMAIN emitted : \A j \in DOMAIN work' : emitted[i] # work'[j].inst
  BY <1>3, <1>5 DEF Once
<1>9. \A i \in DOMAIN emitted' : i = m + 1 \/ i \in DOMAIN emitted
  BY <1>4
<1>10. \A i, j \in DOMAIN emitted' : i # j => emitted'[i] # emitted'[j]
  BY <1>4, <1>7, <1>9 DEF Once
<1>11. \A i \in DOMAIN emitted' : \A j \in DOMAIN work' : emitted'[i] # work'[j].inst
  BY <1>4, <1>6, <1>8, <1>9
<1> QED
  BY <1>10, <1>11 DEF Once

(* Every step of the compiler emits what it emits for the first time.       *)
LEMMA OnceKept ==
  ASSUME LowInv, Once, [Next]_vars
  PROVE  Once'
<1>0. Inv /\ Chain
  BY DEF LowInv
<1>1. CASE work' = work /\ emitted' = emitted
  BY <1>1, OnceBegun
<1>2. CASE SkipItem \/ EmitItem
  <2>1. work = <<>> /\ emitted' = emitted
    BY <1>2 DEF SkipItem, EmitItem
  <2>2. CASE work' = work
    BY <1>1, <2>1, <2>2
  <2>3. CASE work' # work
    <3> DEFINE inst == <<program.order[item]>>
    <3>1. inst \notin Begun /\ work' = <<Frame(inst)>>
      BY <1>2, <2>1, <2>3 DEF SkipItem, EmitItem, Begin
    <3>2. Frame(inst).inst = inst
      BY DEF Frame, At
    <3> HIDE DEF inst
    <3>3. \A j \in DOMAIN work' : work'[j].inst \notin Begun
      BY <3>1, <3>2
    <3> QED
      BY <2>1, <3>3, OnceBegun
  <2> QED
    BY <2>2, <2>3
<1>3. CASE Keep \/ Reuse
  <2>1. emitted' = emitted /\ work' = Rewritten /\ work # <<>> /\ HasNextPart
    BY <1>3 DEF Keep, Reuse, Ensure
  <2>2. NextPart[1] \in Generic => NextPart \in instantiated
    BY <1>3, GenericIsGeneric DEF Keep, Reuse, Ensure
  <2>3. DOMAIN work' = DOMAIN work /\ \A i \in DOMAIN work : work'[i].inst = work[i].inst
    BY <1>0, <2>1, <2>2, RewrittenFacts
  <2> QED
    BY <2>1, <2>3, OnceBegun
<1>4. CASE Instantiate
  <2>1. /\ emitted' = emitted /\ work # <<>> /\ HasNextPart
        /\ NextPart \notin instantiated /\ IsGeneric(NextPart[1])
        /\ work' = Begin(NextPart, Rewritten)
    BY <1>4 DEF Instantiate, Ensure
  <2>2. NextPart \notin Begun
    BY <1>0, <2>1, GenericIsGeneric DEF Inv
  <2>3. /\ Rewritten \in Seq(Frames) /\ DOMAIN Rewritten = DOMAIN work
        /\ \A i \in DOMAIN work : Rewritten[i].inst = work[i].inst
    <3> DEFINE more == instantiated \union {NextPart}
    <3>1. instantiated \subseteq more /\ NextPart \in more
      OBVIOUS
    <3> HIDE DEF more
    <3> QED
      BY <1>0, <2>1, <3>1, RewrittenFacts
  <2>4. Frame(NextPart).inst = NextPart
    BY DEF Frame, At
  <2>5. work' = Append(Rewritten, Frame(NextPart))
    BY <2>1, <2>2 DEF Begin
  <2>6. \A j \in DOMAIN work' : \/ j \in DOMAIN Rewritten /\ work'[j] = Rewritten[j]
                                \/ work'[j] = Frame(NextPart)
    BY <2>3, <2>5
  <2>7. \A j \in DOMAIN work' : \/ \E k \in DOMAIN work : work'[j].inst = work[k].inst
                                \/ work'[j].inst \notin Begun
    BY <2>2, <2>3, <2>4, <2>6
  <2> QED
    BY <2>1, <2>7, OnceBegun
<1>5. CASE Emit
  BY <1>0, <1>5, OnceEmitted
<1>6. CASE RefuseInstantiation \/ Lowered \/ UNCHANGED vars
  <2>1. work' = work /\ emitted' = emitted
    BY <1>6 DEF RefuseInstantiation, Lowered, vars, monoVars
  <2> QED
    BY <1>1, <2>1
<1>7. CASE UNCHANGED monoVars
  BY <1>1, <1>7 DEF monoVars
<1> QED
  BY <1>2, <1>3, <1>4, <1>5, <1>6, <1>7 DEF Next, MonoNext, Stopped

(* lower_program emits no declaration twice, and nothing but what the items *)
(* without parameters ask for, directly or through one another, in at most  *)
(* as many steps as the limit.                                              *)
THEOREM NothingUnasked ==
  Spec => []EmittedOnceAndNeeded
<1>1. Init => Once
  BY DEF Init, MonoInit, Once
<1>2. LowInv /\ Once /\ [Next]_vars => Once'
  BY OnceKept
<1>3. LowInv /\ Once => EmittedOnceAndNeeded
  BY DEF LowInv, Once, EmittedOnceAndNeeded, Occurs
<1> QED
  BY <1>1, <1>2, <1>3, LowInitially, LowInvKept, PTL DEF Spec

(* The monomorphizer gives up at the limit only over a chain of pairwise    *)
(* different instances, each asked for by the one before, that goes on.     *)
THEOREM LimitIsReached ==
  Spec => []LoweringRefusalIsReal
<1>1. LowInv => LoweringRefusalIsReal
  BY DEF LowInv, Chain, LoweringRefusalIsReal
<1> QED
  BY <1>1, LowInitially, LowInvKept, PTL DEF Spec

-----------------------------------------------------------------------------
(* The types the type checker expands.                                      *)

(* Looking through references comes to a type. *)
LEMMA PointeeType ==
  ASSUME NEW type \in Types
  PROVE  Pointee(type) \in Types
<1> DEFINE named == {i \in DOMAIN type : type[i] # "&"}
           first == CHOOSE i \in named : \A j \in named : i <= j
<1>1. type \in Seq(Names) /\ type # <<>> /\ type[Len(type)] # "&"
  BY DEF Types
<1>2. Len(type) \in Nat \ {0} /\ DOMAIN type = 1..Len(type)
  BY <1>1
<1>3. named \subseteq Nat /\ named # {} /\ named \subseteq 1..Len(type)
  BY <1>1, <1>2
<1> HIDE DEF named
<1>4. \E i \in named : \A j \in named : i <= j
  BY <1>3, LeastElement
<1>5. first \in named
  BY <1>4
<1>6. Pointee(type) = PartOf(type, first)
  BY DEF Pointee, PartOf, named
<1> HIDE DEF first
<1> QED
  BY <1>3, <1>5, <1>6, PartType

(* The fields of a declared struct, and the declarations themselves.        *)
LEMMA FieldTypesType ==
  ASSUME program \in Programs, NEW inst, inst = <<>> \/ (inst \in Types /\ IsItem(inst[1]))
  PROVE  FieldTypes(inst) \in Seq(Types)
<1>1. CASE inst = <<>>
  <2>1. program.order \in Seq(DOMAIN program.decl)
        /\ DOMAIN program.decl \subseteq STRING \ {"&", "num", "runtime num", "T"}
    BY ProgramFacts
  <2>2. FieldTypes(inst) = [k \in DOMAIN program.order |-> Declared(program.order[k])]
    BY <1>1 DEF FieldTypes
  <2>3. ASSUME NEW name \in DOMAIN program.decl PROVE Declared(name) \in Types
    <3>1. name \in Names /\ "T" \in Names /\ name # "&"
      BY <2>1 DEF Names
    <3>2. ~IsGeneric("T")
      BY <2>1 DEF IsGeneric, IsItem
    <3>3. CASE IsGeneric(name)
      <4>1. Declared(name) = <<name, "T">>
        BY <3>3 DEF Declared
      <4>2. <<name, "T">> \in Seq(Names) /\ Len(<<name, "T">>) = 2 /\ <<name, "T">>[2] = "T"
            /\ <<name, "T">> # <<>>
        BY <3>1
      <4>3. <<name, "T">>[Len(<<name, "T">>)] = "T"
        BY <4>2
      <4> QED
        BY <3>2, <4>1, <4>2, <4>3 DEF Types
    <3>4. CASE ~IsGeneric(name)
      <4>1. Declared(name) = <<name>>
        BY <3>4 DEF Declared
      <4>2. <<name>> \in Seq(Names) /\ Len(<<name>>) = 1 /\ <<name>>[1] = name
            /\ <<name>> # <<>>
        BY <3>1
      <4>3. <<name>>[Len(<<name>>)] = name
        BY <4>2
      <4> QED
        BY <3>1, <3>4, <4>1, <4>2, <4>3 DEF Types
    <3> QED
      BY <3>3, <3>4
  <2>4. FieldTypes(inst) \in [DOMAIN program.order -> Types]
    <3>1. program.order \in Seq(DOMAIN program.decl)
      BY <2>1
    <3>2. \A k \in DOMAIN program.order : program.order[k] \in DOMAIN program.decl
      BY <3>1
    <3> QED
      BY <2>2, <2>3, <3>2
  <2> QED
    BY <2>1, <2>4, MapIsSeq
<1>2. CASE inst \in Types /\ IsItem(inst[1])
  <2> DEFINE fields == Item(inst[1]).fields
  <2>1. /\ fields \in Seq(Seq(Names))
        /\ \A k \in DOMAIN fields :
             fields[k] \in Types /\ (~IsGeneric(inst[1]) => fields[k][Len(fields[k])] # "T")
    BY <1>2, ProgramFacts DEF IsItem
  <2>2. inst # <<>>
    BY <1>2 DEF Types
  <2>3. FieldTypes(inst) = [k \in DOMAIN fields |-> apply_substitution(fields[k], Tail(inst))]
    BY <2>2 DEF FieldTypes
  <2> HIDE DEF fields
  <2>4. \A k \in DOMAIN fields : apply_substitution(fields[k], Tail(inst)) \in Types
    BY <1>2, <2>1, SubstitutionType
  <2>5. FieldTypes(inst) \in [DOMAIN fields -> Types]
    BY <2>3, <2>4
  <2> QED
    BY <2>1, <2>5, MapIsSeq
<1> QED
  BY <1>1, <1>2

(* The key of a type has the type's item. *)
LEMMA KeyHead ==
  ASSUME program \in Programs, NEW type \in Types, IsItem(type[1])
  PROVE  Key(type)[1] = type[1] /\ Key(type) # <<>>
<1>1. type \in Seq(Names) /\ type # <<>>
  BY DEF Types
<1>2. 1 \in DOMAIN type
  BY <1>1
<1>3. type[1] # "runtime num"
  BY ProgramFacts DEF IsItem
<1>4. Key(type)[1] = type[1]
  BY <1>2, <1>3 DEF Key
<1>5. Key(type) # <<>>
  BY KeyType DEF Types
<1> QED
  BY <1>4, <1>5

-----------------------------------------------------------------------------
(* The invariant of the expansion.                                          *)

TypeFrames ==
  {frame \in [inst : Seq(Names), types : Seq(Types), at : Nat \ {0}] :
     frame.types = FieldTypes(frame.inst)}

(* The frames that count towards the limit. *)
Deep(frames) == {i \in DOMAIN frames : Len(frames[i].inst) > 1}

Stack ==
  /\ expanding \in Seq(TypeFrames)
  /\ expanding # <<>>
  /\ expanding[1].inst = <<>>
  /\ \A i \in 2..Len(expanding) :
       expanding[i].inst \in Types /\ IsStruct(expanding[i].inst[1])
  /\ \A i \in 3..Len(expanding) : expanding[i].inst \in Contains(expanding[i-1].inst)
  /\ \A i, j \in 2..Len(expanding) :
       i # j => Key(expanding[i].inst) # Key(expanding[j].inst)
  /\ Cardinality(Deep(expanding)) <= kMaxGenericInstantiationDepth

(* The registers of the expansion, and what was wrong with the type that    *)
(* could not be entered.                                                    *)
TypeInv ==
  /\ program \in Programs
  /\ Stack
  /\ \A type \in visited : IsStruct(type[1])
  /\ reason = "type cycle" =>
       \E i \in 2..Len(expanding) : Key(expanding[i].inst) = Key(NextType)
  /\ reason = "type limit" =>
       Cardinality(Deep(expanding)) >= kMaxGenericInstantiationDepth

(* The declarations stay as they are, and what they contain.                *)
LEMMA TypesStatic ==
  ASSUME program' = program
  PROVE  /\ TypeFrames' = TypeFrames
         /\ \A inst : Contains(inst)' = Contains(inst)
         /\ \A name : IsStruct(name)' = IsStruct(name)
<1>1. \A name : IsStruct(name)' = IsStruct(name)
  BY DEF IsStruct, IsItem, Item
<1>2. \A name : Declared(name)' = Declared(name)
  BY DEF Declared, IsGeneric, IsItem, Item
<1>3. \A inst : FieldTypes(inst)' = FieldTypes(inst)
  BY <1>2 DEF FieldTypes, Item
<1>4. \A inst : Contains(inst)' = Contains(inst)
  BY <1>1, <1>3 DEF Contains
<1>5. TypeFrames' = TypeFrames
  BY <1>3, Static DEF TypeFrames
<1> QED
  BY <1>1, <1>4, <1>5

(* What a step has to show of the stack it leaves.                          *)
LEMMA StackNext ==
  ASSUME program' = program,
         expanding' \in Seq(TypeFrames), expanding' # <<>>, expanding'[1].inst = <<>>,
         \A i \in 2..Len(expanding') :
           expanding'[i].inst \in Types /\ IsStruct(expanding'[i].inst[1]),
         \A i \in 3..Len(expanding') : expanding'[i].inst \in Contains(expanding'[i-1].inst),
         \A i, j \in 2..Len(expanding') :
           i # j => Key(expanding'[i].inst) # Key(expanding'[j].inst),
         Cardinality(Deep(expanding')) <= kMaxGenericInstantiationDepth
  PROVE  Stack'
<1>1. \A i \in 2..Len(expanding') : IsStruct(expanding[i].inst[1])'
  BY TypesStatic
<1>2. \A i \in 3..Len(expanding') : expanding'[i].inst \in Contains(expanding[i-1].inst)'
  BY TypesStatic
<1>3. Cardinality(Deep(expanding))' <= kMaxGenericInstantiationDepth
  BY DEF Deep
<1>4. Types' = Types /\ TypeFrames' = TypeFrames
  BY Static, TypesStatic
<1> QED
  BY <1>1, <1>2, <1>3, <1>4 DEF Stack

(* Nothing changes but places in the fields. *)
LEMMA StackKept ==
  ASSUME Stack, program' = program, expanding' \in Seq(TypeFrames),
         Len(expanding') = Len(expanding),
         \A i \in 1..Len(expanding) : expanding'[i].inst = expanding[i].inst
  PROVE  Stack' /\ Deep(expanding') = Deep(expanding)
<1>1. expanding \in Seq(TypeFrames) /\ expanding # <<>>
  BY DEF Stack
<1>2. Len(expanding) \in Nat \ {0} /\ DOMAIN expanding = 1..Len(expanding)
      /\ DOMAIN expanding' = 1..Len(expanding)
  BY <1>1
<1>3. Deep(expanding') = Deep(expanding)
  BY <1>2 DEF Deep
<1>4. expanding' # <<>> /\ 1 \in 1..Len(expanding)
  BY <1>2
<1>5. \A i \in 2..Len(expanding) : i \in 1..Len(expanding)
  BY <1>2
<1>6. \A i \in 3..Len(expanding) : i \in 1..Len(expanding) /\ i - 1 \in 1..Len(expanding)
  BY <1>2
<1>7. \A i \in 3..Len(expanding') : expanding'[i].inst \in Contains(expanding'[i-1].inst)
  BY <1>6 DEF Stack
<1>8. \A i \in 2..Len(expanding') :
        expanding'[i].inst \in Types /\ IsStruct(expanding'[i].inst[1])
  BY <1>5 DEF Stack
<1>9. \A i, j \in 2..Len(expanding') :
        i # j => Key(expanding'[i].inst) # Key(expanding'[j].inst)
  BY <1>5 DEF Stack
<1>10. expanding'[1].inst = <<>> /\ Cardinality(Deep(expanding')) <= kMaxGenericInstantiationDepth
  BY <1>3, <1>4 DEF Stack
<1>11. Stack'
  BY <1>4, <1>7, <1>8, <1>9, <1>10, StackNext
<1> QED
  BY <1>3, <1>11

(* The next type is a type, and the innermost expansion contains it if it   *)
(* is a struct.                                                             *)
LEMMA NextTypeFacts ==
  ASSUME Stack, HasNextType
  PROVE  /\ NextType \in Types
         /\ IsStruct(NextType[1]) => NextType \in Contains(Innermost.inst)
<1>1. expanding \in Seq(TypeFrames) /\ expanding # <<>>
  BY DEF Stack
<1>2. Innermost \in TypeFrames
  BY <1>1 DEF Innermost
<1>3. Innermost.types \in Seq(Types) /\ Innermost.at \in Nat \ {0}
      /\ Innermost.types = FieldTypes(Innermost.inst)
  BY <1>2 DEF TypeFrames
<1>4. Innermost.at \in DOMAIN Innermost.types
  BY <1>3 DEF HasNextType
<1>5. Innermost.types[Innermost.at] \in Types
  BY <1>3, <1>4
<1>6. NextType \in Types
  BY <1>5, PointeeType DEF NextType
<1> QED
  BY <1>3, <1>4, <1>6 DEF Contains, NextType

(* Moving on leaves every instance where it is. *)
LEMMA AdvancedFacts ==
  ASSUME Stack
  PROVE  /\ Advanced \in Seq(TypeFrames) /\ Len(Advanced) = Len(expanding)
         /\ \A i \in 1..Len(expanding) : Advanced[i].inst = expanding[i].inst
<1>1. expanding \in Seq(TypeFrames) /\ expanding # <<>>
  BY DEF Stack
<1>2. Len(expanding) \in Nat \ {0} /\ DOMAIN expanding = 1..Len(expanding)
      /\ expanding[Len(expanding)] \in TypeFrames
  BY <1>1
<1> DEFINE last == expanding[Len(expanding)]
           next == [last EXCEPT !.at = @ + 1]
<1>3. next \in TypeFrames /\ next.inst = last.inst
  BY <1>2 DEF TypeFrames
<1>4. Advanced = [expanding EXCEPT ![Len(expanding)] = next]
  BY DEF Advanced
<1> HIDE DEF next
<1>5. Advanced \in Seq(TypeFrames) /\ Len(Advanced) = Len(expanding)
  BY <1>1, <1>2, <1>3, <1>4
<1>6. \A i \in 1..Len(expanding) : Advanced[i] = IF i = Len(expanding) THEN next ELSE expanding[i]
  BY <1>2, <1>4
<1> QED
  BY <1>3, <1>5, <1>6

(* The frames that count are finitely many. *)
LEMMA DeepFinite ==
  ASSUME Stack
  PROVE  IsFiniteSet(Deep(expanding)) /\ Cardinality(Deep(expanding)) \in Nat
<1>1. expanding \in Seq(TypeFrames)
  BY DEF Stack
<1>2. Deep(expanding) \subseteq 1..Len(expanding) /\ Len(expanding) \in Nat
  BY <1>1 DEF Deep
<1>3. IsFiniteSet(1..Len(expanding))
  BY <1>2, FS_Interval
<1> QED
  BY <1>2, <1>3, FS_Subset, FS_CardinalityType

(* Entering a struct puts it on the stack. *)
LEMMA ExpandStack ==
  ASSUME program \in Programs, Stack, Expand
  PROVE  Stack'
<1> DEFINE n == Len(expanding)
           type == NextType
<1>1. /\ program' = program /\ HasNextType /\ IsStruct(type[1])
      /\ Key(type) \notin Expansions
      /\ ExpansionDepth < kMaxGenericInstantiationDepth
      /\ expanding' = Append(Advanced, Expansion(type))
  BY DEF Expand, MustExpand
<1>2. type \in Types /\ type \in Contains(Innermost.inst)
  BY <1>1, NextTypeFacts
<1> HIDE DEF type
<1>3. expanding \in Seq(TypeFrames) /\ n \in Nat \ {0} /\ DOMAIN expanding = 1..n
      /\ Innermost = expanding[n]
  BY DEF Stack, Innermost
<1>4. Expansion(type) \in TypeFrames /\ Expansion(type).inst = type
  <2>1. IsItem(type[1])
    BY <1>1 DEF IsStruct
  <2>2. FieldTypes(type) \in Seq(Types)
    BY <1>2, <2>1, FieldTypesType
  <2>3. type \in Seq(Names)
    BY <1>2 DEF Types
  <2> QED
    BY <2>2, <2>3 DEF Expansion, TypeFrames
<1>5. /\ Advanced \in Seq(TypeFrames) /\ Len(Advanced) = n
      /\ \A i \in 1..n : Advanced[i].inst = expanding[i].inst
  BY AdvancedFacts
<1> HIDE DEF n
<1>6. /\ expanding' \in Seq(TypeFrames) /\ Len(expanding') = n + 1
      /\ DOMAIN expanding' = 1..(n + 1)
      /\ \A i \in 1..n : expanding'[i].inst = expanding[i].inst
      /\ expanding'[n + 1].inst = type
  <2>1. Len(expanding') = n + 1 /\ expanding' \in Seq(TypeFrames)
        /\ \A i \in 1..n : expanding'[i] = Advanced[i]
        /\ expanding'[n + 1] = Expansion(type)
    BY <1>1, <1>3, <1>4, <1>5, AppendProperties
  <2> QED
    BY <1>3, <1>4, <1>5, <2>1
<1>7. \A i \in 1..n : Key(expanding[i].inst) # Key(type)
  BY <1>1, <1>3 DEF Expansions
<1>8. \A i \in 2..(n + 1) : i # n + 1 => i \in 1..n /\ i \in 2..n
  BY <1>3
<1>9. \A i \in 2..Len(expanding') :
        expanding'[i].inst \in Types /\ IsStruct(expanding'[i].inst[1])
  BY <1>1, <1>2, <1>6, <1>8 DEF Stack, n
<1>10. ASSUME NEW i \in 3..Len(expanding')
       PROVE  expanding'[i].inst \in Contains(expanding'[i-1].inst)
  <2>1. i - 1 \in 1..n
    BY <1>3, <1>6
  <2>2. CASE i = n + 1
    <3>1. i - 1 = n
      BY <1>3, <2>2
    <3> QED
      BY <1>2, <1>3, <1>6, <2>1, <2>2, <3>1
  <2>3. CASE i # n + 1
    <3>1. i \in 3..Len(expanding) /\ i \in 1..n
      BY <1>3, <1>6, <2>3 DEF n
    <3> QED
      BY <1>6, <2>1, <3>1 DEF Stack
  <2> QED
    BY <2>2, <2>3
<1>11. ASSUME NEW i \in 2..Len(expanding'), NEW j \in 2..Len(expanding'), i # j
       PROVE  Key(expanding'[i].inst) # Key(expanding'[j].inst)
  <2>1. CASE i = n + 1
    BY <1>6, <1>7, <1>8, <1>11, <2>1
  <2>2. CASE j = n + 1
    BY <1>6, <1>7, <1>8, <1>11, <2>2
  <2>3. CASE i # n + 1 /\ j # n + 1
    BY <1>6, <1>8, <1>11, <2>3 DEF Stack, n
  <2> QED
    BY <2>1, <2>2, <2>3
<1>12. Cardinality(Deep(expanding')) <= kMaxGenericInstantiationDepth
  <2>1. IsFiniteSet(Deep(expanding)) /\ Cardinality(Deep(expanding)) \in Nat
    BY DeepFinite
  <2> DEFINE more == Deep(expanding) \union {n + 1}
  <2>2. IsFiniteSet(more) /\ Cardinality(more) <= Cardinality(Deep(expanding)) + 1
    <3>1. /\ IsFiniteSet(more)
          /\ \/ Cardinality(more) = Cardinality(Deep(expanding))
             \/ Cardinality(more) = Cardinality(Deep(expanding)) + 1
      BY <2>1, FS_AddElement
    <3> HIDE DEF more
    <3> QED
      BY <2>1, <3>1
  <2>3. Deep(expanding') \subseteq more
    BY <1>3, <1>6 DEF Deep
  <2> HIDE DEF more
  <2>4. Cardinality(Deep(expanding')) <= Cardinality(more) /\ Cardinality(more) \in Nat
        /\ Cardinality(Deep(expanding')) \in Nat
    BY <2>2, <2>3, FS_Subset, FS_CardinalityType
  <2>5. Cardinality(Deep(expanding)) < kMaxGenericInstantiationDepth
    BY <1>1 DEF ExpansionDepth, Deep
  <2> QED
    BY <2>1, <2>2, <2>4, <2>5, LimitAssumption
<1>13. expanding' # <<>> /\ expanding'[1].inst = <<>>
  <2>1. 1 \in 1..n
    BY <1>3
  <2> QED
    BY <1>3, <1>6, <2>1 DEF Stack
<1> QED
  BY <1>1, <1>6, <1>9, <1>10, <1>11, <1>12, <1>13, StackNext

(* A struct all of whose fields were followed is taken off. *)
LEMMA ExpandedStack ==
  ASSUME Stack, Expanded
  PROVE  Stack' /\ IsStruct(Innermost.inst[1]) /\ Innermost.inst \in Types
<1> DEFINE n == Len(expanding)
<1>1. program' = program /\ n > 1 /\ expanding' = SubSeq(expanding, 1, n - 1)
  BY DEF Expanded
<1>2. expanding \in Seq(TypeFrames) /\ n \in Nat \ {0} /\ DOMAIN expanding = 1..n
      /\ Innermost = expanding[n]
  BY DEF Stack, Innermost
<1>3. /\ expanding' \in Seq(TypeFrames) /\ Len(expanding') = n - 1
      /\ DOMAIN expanding' = 1..(n - 1)
      /\ \A i \in 1..(n - 1) : expanding'[i] = expanding[i]
  <2>1. \A i \in 1..(n - 1) : expanding[i] \in TypeFrames
    BY <1>2
  <2>2. n - 1 - 1 + 1 = n - 1 /\ n - 1 \in Nat
    BY <1>2
  <2>3. expanding' \in Seq(TypeFrames) /\ Len(expanding') = n - 1
        /\ \A i \in 1..(n - 1) : expanding'[i] = expanding[i]
    BY <1>1, <1>2, <2>1, <2>2, SubSeqProperties
  <2> QED
    BY <1>2, <2>3
<1>4. IsStruct(Innermost.inst[1]) /\ Innermost.inst \in Types
  BY <1>1, <1>2 DEF Stack
<1> HIDE DEF n
<1>5. /\ \A i \in 2..(n - 1) : i \in 2..Len(expanding) /\ i \in 1..(n - 1)
      /\ \A i \in 3..(n - 1) : i \in 3..Len(expanding) /\ i \in 1..(n - 1) /\ i - 1 \in 1..(n - 1)
      /\ 1 \in 1..(n - 1)
  BY <1>1, <1>2 DEF n
<1>6. \A i \in 2..Len(expanding') :
        expanding'[i].inst \in Types /\ IsStruct(expanding'[i].inst[1])
  BY <1>3, <1>5 DEF Stack
<1>7. \A i \in 3..Len(expanding') : expanding'[i].inst \in Contains(expanding'[i-1].inst)
  BY <1>3, <1>5 DEF Stack
<1>8. \A i, j \in 2..Len(expanding') :
        i # j => Key(expanding'[i].inst) # Key(expanding'[j].inst)
  BY <1>3, <1>5 DEF Stack
<1>9. Cardinality(Deep(expanding')) <= kMaxGenericInstantiationDepth
  <2>1. Deep(expanding') \subseteq Deep(expanding)
    BY <1>2, <1>3 DEF Deep
  <2>2. Cardinality(Deep(expanding')) <= Cardinality(Deep(expanding))
        /\ Cardinality(Deep(expanding')) \in Nat /\ Cardinality(Deep(expanding)) \in Nat
    BY <2>1, DeepFinite, FS_Subset, FS_CardinalityType
  <2>3. Cardinality(Deep(expanding)) <= kMaxGenericInstantiationDepth
    BY DEF Stack
  <2> QED
    BY <2>2, <2>3, LimitAssumption
<1>10. expanding' # <<>> /\ expanding'[1].inst = <<>>
  BY <1>3, <1>5 DEF Stack
<1> QED
  BY <1>1, <1>3, <1>4, <1>6, <1>7, <1>8, <1>9, <1>10, StackNext

(* What a refusal or another pass leaves alone.                             *)
LEMMA TypeInvUnchanged ==
  ASSUME TypeInv, program' = program, UNCHANGED typeVars,
         reason' # reason => reason' \notin {"type cycle", "type limit"}
  PROVE  TypeInv'
<1>1. expanding' = expanding /\ visited' = visited
  BY DEF typeVars
<1>2. expanding \in Seq(TypeFrames)
  BY DEF TypeInv, Stack
<1>3. Stack' /\ Deep(expanding') = Deep(expanding)
  BY <1>1, <1>2, StackKept DEF TypeInv
<1>4. NextType' = NextType
  BY <1>1 DEF NextType, Innermost
<1>5. \A type \in visited' : IsStruct(type[1])'
  BY <1>1, TypesStatic DEF TypeInv
<1>6. Cardinality(Deep(expanding))' = Cardinality(Deep(expanding))
  BY <1>1 DEF Deep
<1> QED
  BY <1>1, <1>3, <1>4, <1>5, <1>6 DEF TypeInv

(* Every step of the type checker keeps the stack. *)
LEMMA TypeSteps ==
  ASSUME TypeInv, reason = "none", TypeNext
  PROVE  TypeInv'
<1>1. Stack /\ program \in Programs
  BY DEF TypeInv
<1>2. CASE PassOver
  <2>1. program' = program /\ reason' = reason /\ visited' = visited /\ expanding' = Advanced
    BY <1>2 DEF PassOver
  <2>2. Stack'
    BY <1>1, <2>1, AdvancedFacts, StackKept
  <2>3. \A type \in visited' : IsStruct(type[1])'
    BY <2>1, TypesStatic DEF TypeInv
  <2> QED
    BY <1>1, <2>1, <2>2, <2>3 DEF TypeInv
<1>3. CASE RefuseCycle
  <2>1. /\ program' = program /\ reason' = "type cycle" /\ visited' = visited
        /\ expanding' = expanding /\ HasNextType /\ Key(NextType) \in Expansions
        /\ IsStruct(NextType[1])
    BY <1>3 DEF RefuseCycle, MustExpand, Refuse, typeVars
  <2>2. Stack'
    BY <1>1, <2>1, StackKept DEF Stack
  <2>3. \A type \in visited' : IsStruct(type[1])'
    BY <2>1, TypesStatic DEF TypeInv
  <2>4. \E i \in 2..Len(expanding) : Key(expanding[i].inst) = Key(NextType)
    <3>1. expanding \in Seq(TypeFrames) /\ expanding[1].inst = <<>>
      BY <1>1 DEF Stack
    <3>2. PICK i \in DOMAIN expanding : Key(expanding[i].inst) = Key(NextType)
      BY <2>1 DEF Expansions
    <3>3. Key(NextType) # <<>>
      <4>1. NextType \in Types /\ IsItem(NextType[1])
        BY <1>1, <2>1, NextTypeFacts DEF IsStruct
      <4> QED
        BY <1>1, <4>1, KeyHead
    <3>4. Key(<<>>) = <<>>
      BY DEF Key
    <3>5. i # 1
      BY <3>1, <3>2, <3>3, <3>4
    <3>6. i \in 2..Len(expanding)
      BY <3>1, <3>5
    <3> QED
      BY <3>2, <3>6
  <2>5. NextType' = NextType
    BY <2>1 DEF NextType, Innermost
  <2>6. \E i \in 2..Len(expanding') : Key(expanding'[i].inst) = Key(NextType')
    BY <2>1, <2>4, <2>5
  <2> QED
    BY <1>1, <2>1, <2>2, <2>3, <2>6 DEF TypeInv
<1>4. CASE RefuseExpansion
  <2>1. /\ program' = program /\ reason' = "type limit" /\ visited' = visited
        /\ expanding' = expanding /\ ExpansionDepth >= kMaxGenericInstantiationDepth
    BY <1>4 DEF RefuseExpansion, Refuse, typeVars
  <2>2. Stack'
    BY <1>1, <2>1, StackKept DEF Stack
  <2>3. \A type \in visited' : IsStruct(type[1])'
    BY <2>1, TypesStatic DEF TypeInv
  <2>4. Cardinality(Deep(expanding))' >= kMaxGenericInstantiationDepth
    BY <2>1 DEF ExpansionDepth, Deep
  <2> QED
    BY <1>1, <2>1, <2>2, <2>3, <2>4 DEF TypeInv
<1>5. CASE Expand
  <2>1. program' = program /\ reason' = reason /\ visited' = visited
    BY <1>5 DEF Expand
  <2>2. Stack'
    BY <1>1, <1>5, ExpandStack
  <2>3. \A type \in visited' : IsStruct(type[1])'
    BY <2>1, TypesStatic DEF TypeInv
  <2> QED
    BY <1>1, <2>1, <2>2, <2>3 DEF TypeInv
<1>6. CASE Expanded
  <2>1. program' = program /\ reason' = reason /\ visited' = visited \union {Key(Innermost.inst)}
    BY <1>6 DEF Expanded
  <2>2. Stack' /\ IsStruct(Innermost.inst[1]) /\ Innermost.inst \in Types
    BY <1>1, <1>6, ExpandedStack
  <2>3. Key(Innermost.inst)[1] = Innermost.inst[1]
    BY <1>1, <2>2, KeyHead DEF IsStruct
  <2>4. \A type \in visited' : IsStruct(type[1])
    BY <2>1, <2>2, <2>3 DEF TypeInv
  <2>5. \A type \in visited' : IsStruct(type[1])'
    BY <2>1, <2>4, TypesStatic
  <2> QED
    BY <1>1, <2>1, <2>2, <2>5 DEF TypeInv
<1>7. CASE TypesChecked
  <2>1. program' = program /\ UNCHANGED typeVars /\ reason' = reason
    BY <1>7 DEF TypesChecked
  <2> QED
    BY <2>1, TypeInvUnchanged
<1> QED
  BY <1>2, <1>3, <1>4, <1>5, <1>6, <1>7 DEF TypeNext

(* The stack starts with the loop over the declarations. *)
LEMMA TypeInitially ==
  Init => TypeInv
<1> SUFFICES ASSUME Init PROVE TypeInv
  OBVIOUS
<1>1. /\ program \in Programs /\ reason = "none" /\ visited = {}
      /\ expanding = <<Expansion(<<>>)>>
  BY DEF Init, TypeInit
<1>2. Expansion(<<>>) \in TypeFrames /\ Expansion(<<>>).inst = <<>>
  <2>1. FieldTypes(<<>>) \in Seq(Types)
    BY <1>1, FieldTypesType
  <2>2. <<>> \in Seq(Names)
    BY EmptySeq
  <2> QED
    BY <2>1, <2>2 DEF Expansion, TypeFrames
<1>3. /\ expanding \in Seq(TypeFrames) /\ Len(expanding) = 1 /\ expanding # <<>>
      /\ expanding[1].inst = <<>> /\ DOMAIN expanding = 1..1
  BY <1>1, <1>2
<1>4. 2..1 = {} /\ 3..1 = {}
  OBVIOUS
<1>5. Deep(expanding) = {}
  <2>1. Len(<<>>) = 0
    OBVIOUS
  <2> QED
    BY <1>3, <2>1 DEF Deep
<1>6. Cardinality({}) = 0
  BY FS_EmptySet
<1>7. Cardinality(Deep(expanding)) <= kMaxGenericInstantiationDepth
  BY <1>5, <1>6, LimitAssumption
<1>8. Stack
  BY <1>3, <1>4, <1>7 DEF Stack
<1> QED
  BY <1>1, <1>8 DEF TypeInv

(* Only the type checker gives a type as the reason, and it runs only while *)
(* nothing was refused.                                                     *)
LEMMA TypeInvKept ==
  LowInv /\ TypeInv /\ [Next]_vars => TypeInv'
<1> SUFFICES ASSUME LowInv, TypeInv, [Next]_vars PROVE TypeInv'
  OBVIOUS
<1>1. CASE TypeNext
  <2>1. phase \in {"types", "constraints"}
    BY <1>1, EarlierOutcomes
  <2>2. reason = "none"
    BY <2>1 DEF LowInv
  <2> QED
    BY <1>1, <2>2, TypeSteps
<1>2. CASE ConstraintNext /\ UNCHANGED <<typeVars, monoVars>>
  <2>1. program' = program
    BY <1>2, EarlierOutcomes
  <2>2. reason' # reason => reason' \notin {"type cycle", "type limit"}
    BY <1>2 DEF ConstraintNext, SkipConstraint, Decide, Remembered, Unbounded, Evaluate, Met,
                Unmet, Continue, RefuseConstraint, NextItem, ConstraintsChecked, Refuse
  <2> QED
    BY <1>2, <2>1, <2>2, TypeInvUnchanged
<1>3. CASE MonoNext /\ UNCHANGED <<typeVars, constraintVars>>
  <2>1. program' = program /\ (reason' # reason => reason' = "lowering limit")
    BY <1>3 DEF MonoNext, SkipItem, EmitItem, Keep, Reuse, RefuseInstantiation, Instantiate,
                Emit, Lowered, Refuse
  <2> QED
    BY <1>3, <2>1, TypeInvUnchanged
<1>4. CASE UNCHANGED vars
  BY <1>4, TypeInvUnchanged DEF vars
<1> QED
  BY <1>1, <1>2, <1>3, <1>4 DEF Next, Stopped

(* The type checker refuses a program only over a cycle of structs that     *)
(* contain one another, or over a chain of as many instances with arguments *)
(* as the limit: the stack that the diagnostic shows is real.               *)
THEOREM TypeRefusalsAreReal ==
  Spec => []TypeRefusalIsReal
<1>a. ASSUME Stack, Cardinality(Deep(expanding)) >= kMaxGenericInstantiationDepth
      PROVE  Cardinality(Deep(expanding)) = kMaxGenericInstantiationDepth
  <2>1. Cardinality(Deep(expanding)) <= kMaxGenericInstantiationDepth
    BY <1>a DEF Stack
  <2>2. Cardinality(Deep(expanding)) \in Nat
    BY <1>a, DeepFinite
  <2> QED
    BY <1>a, <2>1, <2>2, LimitAssumption
<1>1. TypeInv => TypeRefusalIsReal
  <2> SUFFICES ASSUME TypeInv PROVE TypeRefusalIsReal
    OBVIOUS
  <2>1. Stack
    BY DEF TypeInv
  <2>2. reason = "type limit" =>
          Cardinality({i \in DOMAIN expanding : Len(expanding[i].inst) > 1})
            = kMaxGenericInstantiationDepth
    BY <1>a, <2>1 DEF TypeInv, Deep
  <2> QED
    BY <2>1, <2>2 DEF TypeInv, Stack, TypeRefusalIsReal
<1>2. Init => LowInv /\ TypeInv
  BY LowInitially, TypeInitially
<1>3. LowInv /\ TypeInv /\ [Next]_vars => (LowInv /\ TypeInv)'
  BY LowInvKept, TypeInvKept
<1> QED
  BY <1>1, <1>2, <1>3, PTL DEF Spec

-----------------------------------------------------------------------------
(* What the constraint evaluator has under evaluation.                      *)

(* Constraints, as where clauses and checks hold them. *)
Clauses ==
  {constraint \in [form : ConstraintForms \union {"use", "unchecked"}, of : Seq(Names),
                   negated : BOOLEAN] :
     constraint.form \in {"decl", "call", "use"} =>
       constraint.of \in Types /\ IsItem(constraint.of[1])}

Evaluations == [inst : Seq(Names), clause : Seq(Clauses), at : Nat \ {0}]

(* Constraints, as they are declared. *)
Written == [form : ConstraintForms, of : Seq(STRING), negated : BOOLEAN]

ConInv ==
  /\ program \in Programs
  /\ checking \in DOMAIN program.order
  /\ answer \in {"none", "holds", "fails"}
  /\ evaluating \in Seq(Evaluations) /\ evaluating # <<>>
  /\ \A i \in DOMAIN evaluating : IsItem(evaluating[i].inst[1])
  /\ \A i \in 2..Len(evaluating) : \A k \in DOMAIN evaluating[i].clause :
       evaluating[i].clause[k].form # "unchecked"
  /\ \A i \in 1..(Len(evaluating) - 1) :
       /\ evaluating[i].at \in DOMAIN evaluating[i].clause
       /\ evaluating[i].clause[evaluating[i].at].form \in {"decl", "call", "use"}

(* The where clause and the uses of a declaration. *)
LEMMA ClauseFacts ==
  ASSUME program \in Programs, NEW name \in DOMAIN program.decl
  PROVE  /\ Item(name).where \in Seq(Written)
         /\ \A k \in DOMAIN Item(name).where :
              Item(name).where[k].form \in {"decl", "call"} =>
                /\ Item(name).where[k].of \in Types
                /\ IsItem(Item(name).where[k].of[1])
                /\ ~IsGeneric(name) =>
                     Item(name).where[k].of[Len(Item(name).where[k].of)] # "T"
         /\ Item(name).uses \in Seq([op : UseOps, of : Seq(STRING)])
         /\ \A k \in DOMAIN Item(name).uses :
              /\ Item(name).uses[k].of \in Types
              /\ Item(name).uses[k].op \in {"call", "init"} => IsItem(Item(name).uses[k].of[1])
<1>1. IsProgram(program)
  BY ProgramAssumption
<1>2. \A s \in Seq(STRING) : s \in Seq(Names)
  BY SeqMonotonic DEF Names
<1>3. /\ Item(name).where \in Seq(Written)
      /\ \A k \in DOMAIN Item(name).where :
           Item(name).where[k].form \in {"decl", "call"} =>
             /\ Item(name).where[k].of \in Types
             /\ IsItem(Item(name).where[k].of[1])
             /\ ~IsGeneric(name) =>
                  Item(name).where[k].of[Len(Item(name).where[k].of)] # "T"
  BY <1>1, <1>2 DEF IsProgram, IsComplete, Types, IsGeneric, IsItem, Item,
                          Written
<1>4. \A k \in DOMAIN Item(name).uses :
        Item(name).uses[k].op \in {"call", "init"} => IsItem(Item(name).uses[k].of[1])
  BY <1>1 DEF IsProgram, IsItem, Item
<1> QED
  BY <1>3, <1>4, ProgramFacts

(* Substitution makes a chain of what is in the type and the argument. *)
LEMMA SubstitutionSeq ==
  ASSUME NEW S, NEW type \in Seq(S), NEW argument \in Seq(S)
  PROVE  apply_substitution(type, argument) \in Seq(S)
<1>1. CASE type = <<>> \/ type[Len(type)] # "T"
  BY <1>1 DEF apply_substitution
<1>2. CASE type # <<>> /\ type[Len(type)] = "T"
  <2>1. Len(type) \in Nat \ {0}
    BY <1>2
  <2>2. \A i \in 1..(Len(type) - 1) : type[i] \in S
    BY <2>1
  <2>3. 1 \in Int /\ Len(type) - 1 \in Int
    BY <2>1
  <2>4. SubSeq(type, 1, Len(type) - 1) \in Seq(S)
    BY <2>1, <2>2, <2>3, SubSeqProperties
  <2>5. SubSeq(type, 1, Len(type) - 1) \o argument \in Seq(S)
    BY <2>4, ConcatProperties
  <2> QED
    BY <1>2, <2>5 DEF apply_substitution
<1> QED
  BY <1>1, <1>2

(* Substitution leaves the item that a type names. *)
LEMMA SubstitutionHead ==
  ASSUME program \in Programs, NEW type \in Types, NEW argument \in Seq(Names), IsItem(type[1])
  PROVE  apply_substitution(type, argument)[1] = type[1]
<1>1. type \in Seq(Names) /\ type # <<>> /\ Len(type) \in Nat \ {0}
  BY DEF Types
<1>2. CASE type[Len(type)] # "T"
  BY <1>2 DEF apply_substitution
<1>3. CASE type[Len(type)] = "T"
  <2>1. type[1] # "T"
    BY ProgramFacts DEF IsItem
  <2>2. Len(type) # 1
    BY <1>3, <2>1
  <2>3. \A n \in Nat \ {0} : n # 1 => n - 1 \in Nat \ {0} /\ n - 1 - 1 + 1 = n - 1
    OBVIOUS
  <2>4. Len(type) - 1 \in Nat \ {0} /\ Len(type) - 1 - 1 + 1 = Len(type) - 1
    BY <1>1, <2>2, <2>3
  <2> DEFINE b == SubSeq(type, 1, Len(type) - 1)
  <2>5. \A i \in 1..(Len(type) - 1) : type[i] \in Names
    BY <1>1
  <2>6. b \in Seq(Names) /\ Len(b) = Len(type) - 1 /\ b[1] = type[1]
    BY <1>1, <2>4, <2>5, SubSeqProperties
  <2>7. apply_substitution(type, argument) = b \o argument
    BY <1>1, <1>3 DEF apply_substitution
  <2> HIDE DEF b
  <2>8. 1 \in 1..Len(b) /\ Len(b) \in Nat
    BY <2>4, <2>6
  <2>9. (b \o argument)[1] = b[1]
    BY <2>6, <2>8, ConcatProperties
  <2> QED
    BY <2>6, <2>7, <2>9
<1> QED
  BY <1>2, <1>3

(* The where clause of an instance names items, none of them unchecked. *)
LEMMA WhereClauseType ==
  ASSUME program \in Programs, NEW inst \in Types, IsItem(inst[1])
  PROVE  /\ WhereClause(inst) \in Seq(Clauses)
         /\ \A k \in DOMAIN WhereClause(inst) : WhereClause(inst)[k].form # "unchecked"
<1> DEFINE where == Item(inst[1]).where
           Of(k) == apply_substitution(where[k].of, Tail(inst))
<1>1. inst[1] \in DOMAIN program.decl
  BY DEF IsItem
<1>2. /\ where \in Seq(Written)
      /\ \A k \in DOMAIN where :
           where[k].form \in {"decl", "call"} =>
             /\ where[k].of \in Types
             /\ IsItem(where[k].of[1])
             /\ ~IsGeneric(inst[1]) => where[k].of[Len(where[k].of)] # "T"
  BY <1>1, ClauseFacts
<1>3. Tail(inst) \in Seq(Names)
  <2>1. inst \in Seq(Names) /\ inst # <<>>
    BY DEF Types
  <2> QED
    BY <2>1
<1>4. WhereClause(inst) = [k \in DOMAIN where |-> [where[k] EXCEPT !.of = Of(k)]]
  BY DEF WhereClause
<1> HIDE DEF where
<1>5. ASSUME NEW k \in DOMAIN where
      PROVE  [where[k] EXCEPT !.of = Of(k)] \in Clauses
             /\ [where[k] EXCEPT !.of = Of(k)].form # "unchecked"
  <2>1. where[k] \in Written
    BY <1>2
  <2>2. where[k].of \in Seq(Names)
    BY <2>1, SeqMonotonic DEF Names, Written
  <2>3. Of(k) \in Seq(Names)
    BY <1>3, <2>2, SubstitutionSeq
  <2>4. where[k].form \in {"decl", "call"} => Of(k) \in Types /\ IsItem(Of(k)[1])
    BY <1>2, <1>3, SubstitutionType, SubstitutionHead
  <2> HIDE DEF Of
  <2>5. [where[k] EXCEPT !.of = Of(k)] =
          [form |-> where[k].form, of |-> Of(k), negated |-> where[k].negated]
    BY <2>1 DEF Written
  <2>6. where[k].form \in ConstraintForms /\ where[k].negated \in BOOLEAN
    BY <2>1 DEF Written
  <2>7. where[k].form # "use" /\ where[k].form # "unchecked"
    BY <2>6 DEF ConstraintForms
  <2> QED
    BY <2>3, <2>4, <2>5, <2>6, <2>7 DEF Clauses
<1> HIDE DEF Of
<1>6. WhereClause(inst) \in [DOMAIN where -> Clauses]
  BY <1>4, <1>5
<1>7. WhereClause(inst) \in Seq(Clauses) /\ DOMAIN WhereClause(inst) = DOMAIN where
  BY <1>2, <1>4, <1>6, MapIsSeq
<1> QED
  BY <1>4, <1>5, <1>7

(* The checks of a declared item name items where they have to. *)
LEMMA ItemChecksType ==
  ASSUME program \in Programs, NEW name \in DOMAIN program.decl
  PROVE  ItemChecks(name) \in Seq(Clauses)
<1> DEFINE where == Item(name).where
           uses == Item(name).uses
           checks == [k \in DOMAIN uses |-> UseConstraint(uses[k])]
<1>1. where \in Seq(Clauses)
  <2>1. where \in Seq(Written)
    BY ClauseFacts
  <2>2. ASSUME NEW k \in DOMAIN where PROVE where[k] \in Clauses
    <3>1. where[k] \in Written
      BY <2>1
    <3>2. where[k].of \in Seq(Names)
      BY <3>1, SeqMonotonic DEF Names, Written
    <3>3. where[k].form \in {"decl", "call"} => where[k].of \in Types /\ IsItem(where[k].of[1])
      BY ClauseFacts
    <3>4. where[k].form # "use"
      BY <3>1 DEF ConstraintForms, Written
    <3> QED
      BY <3>1, <3>2, <3>3, <3>4 DEF Clauses, Written
  <2> HIDE DEF where
  <2>3. DOMAIN where = 1..Len(where) /\ Len(where) \in Nat
    BY <2>1
  <2>4. where = [k \in 1..Len(where) |-> where[k]]
    BY <2>1
  <2>5. where \in [1..Len(where) -> Clauses]
    BY <2>2, <2>3, <2>4
  <2> QED
    BY <2>3, <2>5, SeqDef
<1>2. uses \in Seq([op : UseOps, of : Seq(STRING)])
      /\ \A k \in DOMAIN uses :
           uses[k].of \in Types /\ (uses[k].op \in {"call", "init"} => IsItem(uses[k].of[1]))
  BY ClauseFacts
<1> HIDE DEF uses
<1>3. ASSUME NEW k \in DOMAIN uses PROVE UseConstraint(uses[k]) \in Clauses
  <2>1. uses[k].of \in Seq(Names)
    BY <1>2 DEF Types
  <2>2. UseConstraint(uses[k]) =
          [form |-> IF uses[k].op \in {"call", "init"} THEN "use" ELSE "unchecked",
           of |-> uses[k].of, negated |-> FALSE]
    BY DEF UseConstraint, Constraint
  <2> QED
    BY <1>2, <2>1, <2>2 DEF Clauses
<1>4. checks \in [DOMAIN uses -> Clauses]
  BY <1>3
<1>5. checks \in Seq(Clauses)
  BY <1>2, <1>4, MapIsSeq
<1>6. ItemChecks(name) = where \o checks
  BY DEF ItemChecks, uses
<1> HIDE DEF where, checks
<1> QED
  BY <1>1, <1>5, <1>6, ConcatProperties

(* The declarations stay as they are, and what may be under evaluation.     *)
LEMMA ConStatic ==
  ASSUME program' = program
  PROVE  Evaluations' = Evaluations /\ \A name : IsItem(name)' = IsItem(name)
<1>1. \A name : IsItem(name)' = IsItem(name)
  BY DEF IsItem
<1>2. Types' = Types
  BY Static
<1>3. Clauses' = Clauses
  BY <1>1, <1>2 DEF Clauses
<1> QED
  BY <1>1, <1>3 DEF Evaluations

(* What a step has to show of what it leaves under evaluation. *)
LEMMA ConNext ==
  ASSUME ConInv, program' = program, checking' \in DOMAIN program.order,
         answer' \in {"none", "holds", "fails"},
         evaluating' \in Seq(Evaluations), evaluating' # <<>>,
         \A i \in DOMAIN evaluating' : IsItem(evaluating'[i].inst[1]),
         \A i \in 2..Len(evaluating') : \A k \in DOMAIN evaluating'[i].clause :
           evaluating'[i].clause[k].form # "unchecked",
         \A i \in 1..(Len(evaluating') - 1) :
           /\ evaluating'[i].at \in DOMAIN evaluating'[i].clause
           /\ evaluating'[i].clause[evaluating'[i].at].form \in {"decl", "call", "use"}
  PROVE  ConInv'
<1>1. \A i \in DOMAIN evaluating' : IsItem(evaluating[i].inst[1])'
  BY ConStatic
<1>2. Evaluations' = Evaluations
  BY ConStatic
<1> QED
  BY <1>1, <1>2 DEF ConInv

(* The same evaluations, with another answer. *)
LEMMA ConAnswered ==
  ASSUME ConInv, program' = program, UNCHANGED <<checking, evaluating>>,
         answer' \in {"none", "holds", "fails"}
  PROVE  ConInv'
BY ConNext DEF ConInv

(* The constraint that evaluation has come to. *)
LEMMA CurrentFacts ==
  ASSUME ConInv, HasConstraint
  PROVE  /\ Evaluated \in Evaluations /\ Evaluated.at \in DOMAIN Evaluated.clause
         /\ Current \in Clauses
         /\ ~AtItem => Current.form # "unchecked"
<1>1. evaluating \in Seq(Evaluations) /\ evaluating # <<>>
  BY DEF ConInv
<1>2. Len(evaluating) \in Nat \ {0} /\ DOMAIN evaluating = 1..Len(evaluating)
  BY <1>1
<1>3. Evaluated \in Evaluations
  BY <1>1 DEF Evaluated
<1>4. Evaluated.clause \in Seq(Clauses) /\ Evaluated.at \in Nat \ {0}
  BY <1>3 DEF Evaluations
<1>5. Evaluated.at \in DOMAIN Evaluated.clause
  BY <1>4 DEF HasConstraint
<1>6. Current \in Clauses
  BY <1>4, <1>5 DEF Current
<1>7. ~AtItem => Len(evaluating) \in 2..Len(evaluating)
  BY <1>2 DEF AtItem
<1>8. ~AtItem => Current.form # "unchecked"
  BY <1>5, <1>7 DEF ConInv, Current, Evaluated
<1> QED
  BY <1>3, <1>5, <1>6, <1>8

(* What is not decided by itself names an item whose where clause decides. *)
LEMMA EnforceFacts ==
  ASSUME ConInv, Enforce
  PROVE  /\ Current.form \in {"decl", "call", "use"}
         /\ Current.of \in Types /\ IsItem(Current.of[1])
<1>1. HasConstraint /\ ~IsImmediate(Current) /\ (AtItem => ~Skipped(Current))
  BY DEF Enforce, Examine
<1>2. Current \in Clauses /\ (~AtItem => Current.form # "unchecked")
  BY <1>1, CurrentFacts
<1>3. AtItem => Current.form # "unchecked"
  BY <1>1 DEF Skipped
<1>4. Current.form # "literal" /\ Current.form # "const num"
  BY <1>1 DEF IsImmediate
<1>5. Current.form \in {"decl", "call", "use"}
  BY <1>2, <1>3, <1>4 DEF Clauses, ConstraintForms
<1> QED
  BY <1>2, <1>5 DEF Clauses

(* The checks of an item are made from the first. *)
LEMMA ChecksStart ==
  ASSUME program \in Programs, NEW place \in DOMAIN program.order
  PROVE  /\ Checks(place) \in Seq(Evaluations) /\ Len(Checks(place)) = 1
         /\ DOMAIN Checks(place) = 1..1
         /\ IsItem(Checks(place)[1].inst[1])
<1> DEFINE name == program.order[place]
           frame == [inst |-> <<name>>, clause |-> ItemChecks(name), at |-> 1]
<1>1. program.order \in Seq(DOMAIN program.decl) /\ DOMAIN program.decl \subseteq Names
  BY ProgramFacts DEF Names
<1>2. name \in DOMAIN program.decl
  BY <1>1
<1> HIDE DEF name
<1>3. ItemChecks(name) \in Seq(Clauses)
  BY <1>2, ItemChecksType
<1>4. <<name>> \in Seq(Names) /\ <<name>>[1] = name
  BY <1>1, <1>2
<1>5. frame \in Evaluations /\ frame.inst = <<name>>
  BY <1>3, <1>4 DEF Evaluations
<1>6. Checks(place) = <<frame>>
  BY DEF Checks, name
<1> HIDE DEF frame
<1>7. <<frame>> \in Seq(Evaluations) /\ Len(<<frame>>) = 1 /\ DOMAIN <<frame>> = 1..1
      /\ <<frame>>[1] = frame
  BY <1>5
<1>8. IsItem(frame.inst[1])
  BY <1>2, <1>4, <1>5 DEF IsItem
<1> QED
  BY <1>6, <1>7, <1>8

(* Evaluation starts with the checks of the first item. *)
LEMMA ConInitially ==
  Init => ConInv
<1> SUFFICES ASSUME Init PROVE ConInv
  OBVIOUS
<1>1. program \in Programs /\ checking = 1 /\ evaluating = Checks(1) /\ answer = "none"
  BY DEF Init, ConstraintInit
<1>2. 1 \in DOMAIN program.order
  <2>1. program.order \in Seq(DOMAIN program.decl) /\ program.order # <<>>
    BY <1>1, ProgramFacts
  <2> QED
    BY <2>1
<1>3. /\ evaluating \in Seq(Evaluations) /\ Len(evaluating) = 1
      /\ DOMAIN evaluating = 1..1 /\ IsItem(evaluating[1].inst[1])
  BY <1>1, <1>2, ChecksStart
<1>4. 2..Len(evaluating) = {} /\ 1..(Len(evaluating) - 1) = {} /\ evaluating # <<>>
  BY <1>3
<1>5. \A i \in DOMAIN evaluating : IsItem(evaluating[i].inst[1])
  BY <1>3
<1> QED
  BY <1>1, <1>2, <1>3, <1>4, <1>5 DEF ConInv

(* Moving on to the next constraint. *)
LEMMA ConMoved ==
  ASSUME ConInv, program' = program, checking' = checking, evaluating' = Moved(evaluating),
         answer' \in {"none", "holds", "fails"}
  PROVE  ConInv'
<1> DEFINE n == Len(evaluating)
           next == [evaluating[n] EXCEPT !.at = @ + 1]
<1>1. evaluating \in Seq(Evaluations) /\ evaluating # <<>>
  BY DEF ConInv
<1>2. n \in Nat \ {0} /\ DOMAIN evaluating = 1..n /\ evaluating[n] \in Evaluations
  BY <1>1
<1>3. next \in Evaluations /\ next.inst = evaluating[n].inst /\ next.clause = evaluating[n].clause
  BY <1>2 DEF Evaluations
<1>4. Moved(evaluating) = [evaluating EXCEPT ![n] = next]
  BY DEF Moved
<1> HIDE DEF next
<1>5. /\ evaluating' \in Seq(Evaluations) /\ Len(evaluating') = n
      /\ DOMAIN evaluating' = 1..n /\ evaluating' # <<>>
      /\ \A i \in 1..n : evaluating'[i] = IF i = n THEN next ELSE evaluating[i]
  BY <1>1, <1>2, <1>3, <1>4
<1>6. \A i \in 1..n : /\ evaluating'[i].inst = evaluating[i].inst
                      /\ evaluating'[i].clause = evaluating[i].clause
  BY <1>3, <1>5
<1> HIDE DEF n
<1>7. \A i \in DOMAIN evaluating' : IsItem(evaluating'[i].inst[1])
  BY <1>2, <1>5, <1>6 DEF ConInv
<1>8. \A i \in 2..n : \A k \in DOMAIN evaluating[i].clause :
        i \in 1..n /\ evaluating[i].clause[k].form # "unchecked"
  BY <1>2 DEF ConInv, n
<1>9. \A i \in 2..Len(evaluating') : \A k \in DOMAIN evaluating'[i].clause :
        evaluating'[i].clause[k].form # "unchecked"
  BY <1>5, <1>6, <1>8
<1>10. \A i \in 1..(n - 1) : i \in 1..n /\ evaluating'[i] = evaluating[i]
  BY <1>2, <1>5
<1>11. \A i \in 1..(Len(evaluating') - 1) :
         /\ evaluating'[i].at \in DOMAIN evaluating'[i].clause
         /\ evaluating'[i].clause[evaluating'[i].at].form \in {"decl", "call", "use"}
  BY <1>5, <1>10 DEF ConInv, n
<1>12. checking \in DOMAIN program.order
  BY DEF ConInv
<1> QED
  BY <1>5, <1>7, <1>9, <1>11, <1>12, ConNext

(* The where clause of what the constraint names is evaluated first. *)
LEMMA ConEvaluate ==
  ASSUME ConInv, Evaluate
  PROVE  ConInv'
<1> DEFINE n == Len(evaluating)
           inst == Current.of
<1>1. /\ program' = program /\ checking' = checking /\ answer' = answer /\ Enforce
      /\ evaluating' = Append(evaluating, Evaluation(inst))
  BY DEF Evaluate
<1>2. inst \in Types /\ IsItem(inst[1]) /\ Current.form \in {"decl", "call", "use"}
  BY <1>1, EnforceFacts
<1>3. Evaluated.at \in DOMAIN Evaluated.clause
  BY <1>1, CurrentFacts DEF Enforce, Examine
<1>4. evaluating \in Seq(Evaluations) /\ n \in Nat \ {0} /\ DOMAIN evaluating = 1..n
      /\ Evaluated = evaluating[n] /\ Current = Evaluated.clause[Evaluated.at]
  BY DEF ConInv, Evaluated, Current
<1> HIDE DEF inst
<1>5. /\ Evaluation(inst) \in Evaluations
      /\ Evaluation(inst).inst = inst
      /\ \A k \in DOMAIN Evaluation(inst).clause :
           Evaluation(inst).clause[k].form # "unchecked"
  <2>1. /\ WhereClause(inst) \in Seq(Clauses)
        /\ \A k \in DOMAIN WhereClause(inst) : WhereClause(inst)[k].form # "unchecked"
    BY <1>2, WhereClauseType DEF ConInv
  <2>2. inst \in Seq(Names)
    BY <1>2 DEF Types
  <2> QED
    BY <2>1, <2>2 DEF Evaluation, Evaluations
<1> HIDE DEF n
<1>6. /\ evaluating' \in Seq(Evaluations) /\ Len(evaluating') = n + 1
      /\ \A i \in 1..n : evaluating'[i] = evaluating[i]
      /\ evaluating'[n + 1] = Evaluation(inst)
  BY <1>1, <1>4, <1>5, AppendProperties DEF n
<1>7. DOMAIN evaluating' = 1..(n + 1) /\ evaluating' # <<>>
  BY <1>4, <1>6
<1>8. \A i \in DOMAIN evaluating' : IsItem(evaluating'[i].inst[1])
  <2>1. \A i \in DOMAIN evaluating' : i \in 1..n \/ i = n + 1
    BY <1>4, <1>7
  <2> QED
    BY <1>2, <1>4, <1>5, <1>6, <2>1 DEF ConInv
<1>9. \A i \in 2..Len(evaluating') : \A k \in DOMAIN evaluating'[i].clause :
        evaluating'[i].clause[k].form # "unchecked"
  <2>1. \A i \in 2..Len(evaluating') : (i \in 1..n /\ i \in 2..Len(evaluating)) \/ i = n + 1
    BY <1>4, <1>6 DEF n
  <2> QED
    BY <1>5, <1>6, <2>1 DEF ConInv
<1>10. \A i \in 1..(Len(evaluating') - 1) :
         /\ evaluating'[i].at \in DOMAIN evaluating'[i].clause
         /\ evaluating'[i].clause[evaluating'[i].at].form \in {"decl", "call", "use"}
  <2>1. \A i \in 1..(Len(evaluating') - 1) :
          i \in 1..n /\ (i \in 1..(Len(evaluating) - 1) \/ i = n)
    <3>1. Len(evaluating') - 1 = n /\ n \in Nat /\ Len(evaluating) = n
      BY <1>4, <1>6 DEF n
    <3>2. \A i \in 1..n : i \in 1..(n - 1) \/ i = n
      BY <3>1
    <3> QED
      BY <3>1, <3>2
  <2> QED
    BY <1>2, <1>3, <1>4, <1>6, <2>1 DEF ConInv
<1>11. checking \in DOMAIN program.order /\ answer \in {"none", "holds", "fails"}
  BY DEF ConInv
<1> QED
  BY <1>1, <1>6, <1>7, <1>8, <1>9, <1>10, <1>11, ConNext

(* An evaluated where clause answers the constraint that asked for it. *)
LEMMA ConReturned ==
  ASSUME ConInv, program' = program, checking' = checking, ~AtItem, evaluating' = Below,
         answer' = Judge(Asking, TRUE) \/ answer' = Judge(Asking, FALSE)
  PROVE  ConInv'
<1> DEFINE n == Len(evaluating)
<1>1. evaluating \in Seq(Evaluations) /\ n \in Nat \ {0} /\ DOMAIN evaluating = 1..n
  BY DEF ConInv
<1>2. n > 1 /\ n - 1 \in Nat /\ n - 1 - 1 + 1 = n - 1
  BY <1>1 DEF AtItem
<1>3. /\ Below \in Seq(Evaluations) /\ Len(Below) = n - 1
      /\ \A i \in 1..(n - 1) : Below[i] = evaluating[i]
  <2>1. \A i \in 1..(n - 1) : evaluating[i] \in Evaluations
    BY <1>1
  <2> QED
    BY <1>1, <1>2, <2>1, SubSeqProperties DEF Below
<1>4. DOMAIN Below = 1..(n - 1) /\ Below # <<>> /\ n - 1 \in 1..(n - 1)
  BY <1>1, <1>2, <1>3
<1>5. answer' \in {"holds", "fails"}
  <2>1. Below[n - 1] = evaluating[n - 1]
    BY <1>3, <1>4
  <2>2. Asking.form \in {"decl", "call", "use"}
    BY <1>3, <1>4, <2>1 DEF ConInv, Asking
  <2> QED
    BY <2>2 DEF Judge, Holds
<1> HIDE DEF n
<1>6. \A i \in DOMAIN Below : IsItem(Below[i].inst[1])
  <2>1. \A i \in 1..(n - 1) : i \in DOMAIN evaluating
    BY <1>1, <1>2
  <2> QED
    BY <1>3, <1>4, <2>1 DEF ConInv
<1>7. \A i \in 2..Len(Below) : \A k \in DOMAIN Below[i].clause :
        Below[i].clause[k].form # "unchecked"
  <2>1. \A i \in 2..(n - 1) : i \in 2..Len(evaluating) /\ i \in 1..(n - 1)
    BY <1>1, <1>2 DEF n
  <2> QED
    BY <1>3, <2>1 DEF ConInv
<1>8. \A i \in 1..(Len(Below) - 1) :
        /\ Below[i].at \in DOMAIN Below[i].clause
        /\ Below[i].clause[Below[i].at].form \in {"decl", "call", "use"}
  <2>1. \A i \in 1..(n - 1 - 1) : i \in 1..(Len(evaluating) - 1) /\ i \in 1..(n - 1)
    BY <1>1, <1>2 DEF n
  <2> QED
    BY <1>3, <2>1 DEF ConInv
<1>9. checking \in DOMAIN program.order
  BY DEF ConInv
<1> QED
  BY <1>3, <1>4, <1>5, <1>6, <1>7, <1>8, <1>9, ConNext

(* Every step of the evaluator keeps its registers. *)
LEMMA ConSteps ==
  ASSUME ConInv, ConstraintNext
  PROVE  ConInv'
<1>0. answer \in {"none", "holds", "fails"} /\ program \in Programs
      /\ checking \in DOMAIN program.order
  BY DEF ConInv
<1>1. CASE SkipConstraint \/ Continue
  <2>1. /\ program' = program /\ checking' = checking /\ evaluating' = Moved(evaluating)
        /\ answer' \in {"none", "holds", "fails"}
    BY <1>0, <1>1 DEF SkipConstraint, Continue
  <2> QED
    BY <2>1, ConMoved
<1>2. CASE Decide
  <2>1. program' = program /\ UNCHANGED <<checking, evaluating>> /\ answer' = Immediate(Current)
    BY <1>2 DEF Decide
  <2>2. answer' \in {"none", "holds", "fails"}
    BY <2>1 DEF Immediate, Holds
  <2> QED
    BY <2>1, <2>2, ConAnswered
<1>3. CASE Remembered
  <2>1. /\ program' = program /\ UNCHANGED <<checking, evaluating>> /\ Enforce
        /\ answer' = Judge(Current, TRUE)
    BY <1>3 DEF Remembered
  <2>2. Current.form \in {"decl", "call", "use"}
    BY <2>1, EnforceFacts
  <2>3. answer' \in {"holds", "fails"}
    BY <2>1, <2>2 DEF Judge, Holds
  <2> QED
    BY <2>1, <2>3, ConAnswered
<1>4. CASE Unbounded \/ RefuseConstraint \/ ConstraintsChecked
  <2>1. program' = program /\ UNCHANGED <<checking, evaluating, answer>>
    BY <1>4 DEF Unbounded, RefuseConstraint, ConstraintsChecked, constraintVars
  <2> QED
    BY <1>0, <2>1, ConAnswered
<1>5. CASE Evaluate
  BY <1>5, ConEvaluate
<1>6. CASE Met
  BY <1>6, ConReturned DEF Met
<1>7. CASE Unmet
  BY <1>7, ConReturned DEF Unmet
<1>8. CASE NextItem
  <2>1. /\ program' = program /\ checking' = checking + 1 /\ answer' = answer
        /\ evaluating' = Checks(checking + 1) /\ checking < Len(program.order)
    BY <1>8 DEF NextItem
  <2>2. program.order \in Seq(DOMAIN program.decl)
    BY <1>0, ProgramFacts
  <2>3. checking + 1 \in DOMAIN program.order
    BY <1>0, <2>1, <2>2
  <2>4. /\ evaluating' \in Seq(Evaluations) /\ Len(evaluating') = 1
        /\ DOMAIN evaluating' = 1..1 /\ IsItem(evaluating'[1].inst[1])
    BY <1>0, <2>1, <2>3, ChecksStart
  <2>5. 2..Len(evaluating') = {} /\ 1..(Len(evaluating') - 1) = {} /\ evaluating' # <<>>
    BY <2>4
  <2>6. \A i \in DOMAIN evaluating' : IsItem(evaluating'[i].inst[1])
    BY <2>4
  <2> QED
    BY <1>0, <2>1, <2>3, <2>4, <2>5, <2>6, ConNext
<1> QED
  BY <1>1, <1>2, <1>3, <1>4, <1>5, <1>6, <1>7, <1>8 DEF ConstraintNext

(* The registers of the passes, and the place among the items. *)
Registers ==
  /\ LowInv
  /\ TypeInv
  /\ ConInv
  /\ phase \in Phases
  /\ reason \in {"none", "type cycle", "type limit", "constraint",
                 "constraint limit", "lowering limit"}
  /\ item <= Len(program.order) + 1

(* Every step of the compiler keeps the registers of all three passes. *)
LEMMA RegistersKept ==
  Registers /\ [Next]_vars => Registers'
<1> SUFFICES ASSUME Registers, [Next]_vars PROVE Registers'
  OBVIOUS
<1>1. LowInv' /\ TypeInv'
  BY LowInvKept, TypeInvKept DEF Registers
<1>2. program' = program
  <2>1. CASE TypeNext \/ ConstraintNext
    BY <2>1, EarlierOutcomes
  <2>2. CASE MonoNext
    BY <2>2 DEF MonoNext, SkipItem, EmitItem, Keep, Reuse, RefuseInstantiation, Instantiate,
                Emit, Lowered
  <2> QED
    BY <2>1, <2>2 DEF Next, Stopped, vars
<1>3. ConInv'
  <2>1. CASE ConstraintNext
    BY <2>1, ConSteps DEF Registers
  <2>2. CASE UNCHANGED constraintVars
    <3>1. UNCHANGED <<checking, evaluating, answer>>
      BY <2>2 DEF constraintVars
    <3>2. answer' \in {"none", "holds", "fails"}
      BY <3>1 DEF Registers, ConInv
    <3> QED
      BY <1>2, <3>1, <3>2, ConAnswered DEF Registers
  <2> QED
    BY <2>1, <2>2 DEF Next, Stopped, vars
<1>4. /\ phase' \in Phases
      /\ reason' \in {"none", "type cycle", "type limit", "constraint",
                      "constraint limit", "lowering limit"}
  <2>1. CASE TypeNext
    BY <2>1 DEF TypeNext, PassOver, RefuseCycle, RefuseExpansion, Expand, Expanded,
                TypesChecked, Refuse, Registers, Phases
  <2>2. CASE ConstraintNext
    BY <2>2 DEF ConstraintNext, SkipConstraint, Decide, Remembered, Unbounded, Evaluate, Met,
                Unmet, Continue, RefuseConstraint, NextItem, ConstraintsChecked, Refuse,
                Registers, Phases
  <2>3. CASE MonoNext
    BY <2>3 DEF MonoNext, SkipItem, EmitItem, Keep, Reuse, RefuseInstantiation, Instantiate,
                Emit, Lowered, Refuse, Registers, Phases
  <2>4. CASE UNCHANGED vars
    BY <2>4 DEF vars, Registers
  <2> QED
    BY <2>1, <2>2, <2>3, <2>4 DEF Next, Stopped
<1>5. item' <= Len(program'.order) + 1
  <2>1. CASE SkipItem \/ EmitItem
    <3>1. item' = item + 1 /\ item <= Len(program.order) /\ item \in Nat
      BY <2>1 DEF SkipItem, EmitItem, Registers, LowInv, Inv
    <3>2. program.order \in Seq(DOMAIN program.decl)
      BY ProgramFacts DEF Registers, TypeInv
    <3>3. Len(program.order) \in Nat
      BY <3>2
    <3> QED
      BY <1>2, <3>1, <3>3
  <2>2. CASE item' = item
    BY <1>2, <2>2 DEF Registers
  <2>3. MonoNext => SkipItem \/ EmitItem \/ item' = item
    BY DEF MonoNext, Keep, Reuse, RefuseInstantiation, Instantiate, Emit, Lowered, monoVars
  <2> QED
    BY <2>1, <2>2, <2>3 DEF Next, Stopped, vars, monoVars
<1> QED
  BY <1>1, <1>3, <1>4, <1>5 DEF Registers

(* What the compiler has under way in each pass is what the pass is made    *)
(* for: structs are expanded, declared items are checked and lowered, and a *)
(* refusal states its reason.                                               *)
THEOREM RegistersAreTyped ==
  Spec => []TypeOK
<1>1. Init => Registers
  <2> SUFFICES ASSUME Init PROVE Registers
    OBVIOUS
  <2>1. phase = "types" /\ reason = "none" /\ item = 1 /\ program \in Programs
    BY DEF Init, MonoInit
  <2>2. program.order \in Seq(DOMAIN program.decl)
    BY <2>1, ProgramFacts
  <2>3. item <= Len(program.order) + 1
    BY <2>1, <2>2
  <2> QED
    BY <2>1, <2>3, LowInitially, TypeInitially, ConInitially DEF Registers, Phases
<1>2. Registers => TypeOK
  <2> SUFFICES ASSUME Registers PROVE TypeOK
    OBVIOUS
  <2>1. \A i \in DOMAIN expanding : i > 1 => IsStruct(expanding[i].inst[1])
    <3>1. expanding \in Seq(TypeFrames)
      BY DEF Registers, TypeInv, Stack
    <3>2. \A i \in DOMAIN expanding : i > 1 => i \in 2..Len(expanding)
      BY <3>1
    <3> QED
      BY <3>2 DEF Registers, TypeInv, Stack
  <2>2. item \in 1..(Len(program.order) + 1)
    <3>1. program.order \in Seq(DOMAIN program.decl)
      BY ProgramFacts DEF Registers, TypeInv
    <3>2. Len(program.order) \in Nat
      BY <3>1
    <3>3. item \in Nat \ {0} /\ item <= Len(program.order) + 1
      BY DEF Registers, LowInv, Inv
    <3> QED
      BY <3>2, <3>3
  <2>3. \A i \in DOMAIN work : IsItem(work[i].inst[1])
    <3>1. work \in Seq(Frames)
      BY DEF Registers, LowInv, Inv
    <3>2. \A i \in DOMAIN work : work[i] \in Frames
      BY <3>1
    <3> QED
      BY <3>2 DEF Frames, Instances, IsInstance
  <2>4. \A inst \in instantiated : IsGeneric(inst[1])
    BY GenericIsGeneric DEF Registers, LowInv, Inv
  <2>5. \A type \in visited : IsStruct(type[1])
    BY DEF Registers, TypeInv
  <2> QED
    BY <2>1, <2>2, <2>3, <2>4, <2>5 DEF Registers, LowInv, ConInv, TypeOK
<1> QED
  BY <1>1, <1>2, RegistersKept, PTL DEF Spec

-----------------------------------------------------------------------------
(* Chains, place by place.                                                  *)

(* What substitution puts in each place of a chain that ends in the parameter. *)
LEMMA SubstitutionShape ==
  ASSUME NEW type \in Seq(Names), type # <<>>, type[Len(type)] = "T",
         NEW argument \in Seq(Names)
  PROVE  LET result == apply_substitution(type, argument)
         IN  /\ result \in Seq(Names)
             /\ Len(result) = Len(type) - 1 + Len(argument)
             /\ \A i \in 1..(Len(type) - 1) : result[i] = type[i]
             /\ \A i \in 1..Len(argument) : result[Len(type) - 1 + i] = argument[i]
<1> DEFINE n == Len(type) - 1
           b == SubSeq(type, 1, n)
<1>1. Len(type) \in Nat \ {0}
  OBVIOUS
<1>2. n \in Nat /\ n - 1 + 1 = n /\ 1 \in Int /\ n \in Int
  BY <1>1
<1>3. \A i \in 1..n : type[i] \in Names
  BY <1>1
<1>4. b \in Seq(Names) /\ Len(b) = n /\ \A i \in 1..n : b[i] = type[i]
  BY <1>2, <1>3, SubSeqProperties
<1>5. apply_substitution(type, argument) = b \o argument
  BY DEF apply_substitution
<1> HIDE DEF b, n
<1>6. /\ b \o argument \in Seq(Names)
      /\ Len(b \o argument) = n + Len(argument)
      /\ \A i \in 1..n : (b \o argument)[i] = b[i]
      /\ \A i \in 1..Len(argument) : (b \o argument)[n + i] = argument[i]
  <2> DEFINE r == b \o argument
             m == Len(argument)
  <2>1. m \in Nat
    OBVIOUS
  <2>2. /\ r \in Seq(Names) /\ Len(r) = n + m
        /\ \A i \in 1..(n + m) : r[i] = IF i <= n THEN b[i] ELSE argument[i - n]
    BY <1>4, ConcatProperties
  <2> HIDE DEF r, m
  <2>3. \A i \in 1..n : i \in 1..(n + m) /\ i <= n
    BY <1>2, <2>1
  <2>5. \A i \in 1..n : r[i] = b[i]
    BY <2>2, <2>3
  <2>6. ASSUME NEW i \in 1..m PROVE r[n + i] = argument[i]
    <3> DEFINE j == n + i
    <3>1. j \in 1..(n + m) /\ ~(j <= n) /\ j - n = i
      BY <1>2, <2>1
    <3> HIDE DEF j
    <3>2. r[j] = argument[j - n]
      BY <2>2, <3>1
    <3>3. r[j] = argument[i]
      BY <3>1, <3>2
    <3> QED
      BY <3>3 DEF j
  <2> QED
    BY <2>2, <2>5, <2>6 DEF r, m
<1> QED
  BY <1>4, <1>5, <1>6 DEF n

(* The key of a chain, place by place. *)
LEMMA KeyShape ==
  ASSUME NEW type \in Seq(Names)
  PROVE  /\ Key(type) \in Seq(Names) /\ Len(Key(type)) = Len(type)
         /\ \A i \in 1..Len(type) :
              Key(type)[i] = IF type[i] = "runtime num" THEN "num" ELSE type[i]
<1>1. Len(type) \in Nat /\ DOMAIN type = 1..Len(type)
  OBVIOUS
<1>2. \A i \in DOMAIN type : type[i] \in Names /\ "num" \in Names
  BY DEF Names
<1>3. Key(type) \in [DOMAIN type -> Names]
  BY <1>2 DEF Key
<1>4. Key(type) \in Seq(Names) /\ Len(Key(type)) = Len(type)
  BY <1>1, <1>3, MapIsSeq
<1> QED
  BY <1>1, <1>4 DEF Key

(* Chains with the same names in the same places are the same. *)
LEMMA SameChain ==
  ASSUME NEW s \in Seq(Names), NEW t \in Seq(Names), Len(s) = Len(t),
         \A i \in 1..Len(s) : s[i] = t[i]
  PROVE  s = t
BY SeqEqual

(* A key is its own key. *)
LEMMA KeyOfKey ==
  ASSUME NEW type \in Seq(Names)
  PROVE  Key(Key(type)) = Key(type)
<1>1. /\ Key(type) \in Seq(Names) /\ Len(Key(type)) = Len(type)
      /\ \A i \in 1..Len(type) :
           Key(type)[i] = IF type[i] = "runtime num" THEN "num" ELSE type[i]
  BY KeyShape
<1>2. /\ Key(Key(type)) \in Seq(Names) /\ Len(Key(Key(type))) = Len(type)
      /\ \A i \in 1..Len(type) :
           Key(Key(type))[i] = IF Key(type)[i] = "runtime num" THEN "num" ELSE Key(type)[i]
  BY <1>1, KeyShape
<1>3. \A i \in 1..Len(type) : Key(Key(type))[i] = Key(type)[i]
  BY <1>1, <1>2
<1> QED
  BY <1>1, <1>2, <1>3, SameChain

(* The names that matter to substitution and to references are kept by keys. *)
LEMMA KeyKeeps ==
  ASSUME NEW type \in Seq(Names), NEW i \in 1..Len(type), NEW name,
         name \notin {"num", "runtime num"}
  PROVE  Key(type)[i] = name <=> type[i] = name
BY KeyShape

(* Keys commute with substitution. *)
LEMMA KeySubstitution ==
  ASSUME NEW type \in Seq(Names), NEW argument \in Seq(Names)
  PROVE  Key(apply_substitution(type, argument))
           = apply_substitution(Key(type), Key(argument))
<1>1. /\ Key(type) \in Seq(Names) /\ Len(Key(type)) = Len(type)
      /\ \A i \in 1..Len(type) :
           Key(type)[i] = IF type[i] = "runtime num" THEN "num" ELSE type[i]
  BY KeyShape
<1>2. /\ Key(argument) \in Seq(Names) /\ Len(Key(argument)) = Len(argument)
      /\ \A i \in 1..Len(argument) :
           Key(argument)[i] = IF argument[i] = "runtime num" THEN "num" ELSE argument[i]
  BY KeyShape
<1>3. Len(type) \in Nat /\ Len(argument) \in Nat
  OBVIOUS
<1>4. CASE type = <<>>
  <2>1. Key(type) = <<>>
    BY <1>1, <1>4
  <2> QED
    BY <1>4, <2>1 DEF apply_substitution
<1>5. CASE type # <<>>
  <2>1. Len(type) \in 1..Len(type) /\ Key(type) # <<>>
    <3>1. Len(type) \in Nat \ {0}
      BY <1>5
    <3>2. Key(type) # <<>>
      BY <1>1, <3>1, EmptySeq
    <3> QED
      BY <3>1, <3>2
  <2>2. Key(type)[Len(Key(type))] = "T" <=> type[Len(type)] = "T"
    BY <1>1, <2>1, KeyKeeps
  <2>3. CASE type[Len(type)] # "T"
    BY <2>2, <2>3 DEF apply_substitution
  <2>4. CASE type[Len(type)] = "T"
    <3> DEFINE left == apply_substitution(type, argument)
               right == apply_substitution(Key(type), Key(argument))
               n == Len(type) - 1
    <3>1. /\ left \in Seq(Names) /\ Len(left) = n + Len(argument)
          /\ \A i \in 1..n : left[i] = type[i]
          /\ \A i \in 1..Len(argument) : left[n + i] = argument[i]
      BY <1>5, <2>4, SubstitutionShape
    <3>2. /\ right \in Seq(Names) /\ Len(right) = n + Len(argument)
          /\ \A i \in 1..n : right[i] = Key(type)[i]
          /\ \A i \in 1..Len(argument) : right[n + i] = Key(argument)[i]
      <4>1. Key(type) # <<>> /\ Key(type)[Len(Key(type))] = "T"
        BY <2>1, <2>2, <2>4
      <4>2. /\ right \in Seq(Names) /\ Len(right) = Len(Key(type)) - 1 + Len(Key(argument))
            /\ \A i \in 1..(Len(Key(type)) - 1) : right[i] = Key(type)[i]
            /\ \A i \in 1..Len(Key(argument)) :
                 right[Len(Key(type)) - 1 + i] = Key(argument)[i]
        BY <1>1, <1>2, <4>1, SubstitutionShape
      <4> QED
        BY <1>1, <1>2, <4>2
    <3> HIDE DEF left, right
    <3>3. /\ Key(left) \in Seq(Names) /\ Len(Key(left)) = n + Len(argument)
          /\ \A i \in 1..(n + Len(argument)) :
               Key(left)[i] = IF left[i] = "runtime num" THEN "num" ELSE left[i]
      BY <3>1, KeyShape
    <3>4. n \in Nat /\ \A i \in 1..n : i \in 1..Len(type)
      BY <1>3, <2>1
    <3> HIDE DEF n
    <3>5. \A i \in 1..(n + Len(argument)) : i \in 1..n \/ \E j \in 1..Len(argument) : i = n + j
      <4> TAKE i \in 1..(n + Len(argument))
      <4>1. i - n \in 1..Len(argument) \/ i \in 1..n
        BY <1>3, <3>4
      <4>2. i = n + (i - n)
        BY <1>3, <3>4
      <4> QED
        BY <4>1, <4>2
    <3>6. ASSUME NEW i \in 1..(n + Len(argument))
          PROVE  Key(left)[i] = right[i]
      <4>1. CASE i \in 1..n
        <5>1. left[i] = type[i] /\ right[i] = Key(type)[i]
          BY <3>1, <3>2, <4>1
        <5>2. Key(type)[i] = IF type[i] = "runtime num" THEN "num" ELSE type[i]
          BY <1>1, <3>4, <4>1
        <5> QED
          BY <3>3, <5>1, <5>2
      <4>2. CASE \E j \in 1..Len(argument) : i = n + j
        <5>1. PICK j \in 1..Len(argument) : i = n + j
          BY <4>2
        <5>2. left[i] = argument[j] /\ right[i] = Key(argument)[j]
          BY <3>1, <3>2, <5>1
        <5>3. Key(argument)[j] = IF argument[j] = "runtime num" THEN "num" ELSE argument[j]
          BY <1>2
        <5> QED
          BY <3>3, <5>2, <5>3
      <4> QED
        BY <3>5, <4>1, <4>2
    <3>7. Key(left) = right
      BY <3>2, <3>3, <3>6, SameChain
    <3> QED
      BY <3>7 DEF left, right
  <2> QED
    BY <2>3, <2>4
<1> QED
  BY <1>4, <1>5

(* A chain from a place on, place by place. *)
LEMMA PartShape ==
  ASSUME NEW type \in Seq(Names), NEW p \in 1..Len(type)
  PROVE  /\ PartOf(type, p) \in Seq(Names)
         /\ Len(PartOf(type, p)) = Len(type) - p + 1
         /\ \A i \in 1..(Len(type) - p + 1) : PartOf(type, p)[i] = type[p + i - 1]
<1> DEFINE n == Len(type)
           r == SubSeq(type, p, n)
<1>1. n \in Nat /\ p \in 1..n /\ p \in Int /\ n \in Int /\ p <= n + 1
  OBVIOUS
<1>2. \A i \in p..n : type[i] \in Names
  BY <1>1
<1>3. /\ r \in Seq(Names) /\ Len(r) = n - p + 1
      /\ \A i \in 1..(n - p + 1) : r[i] = type[p + i - 1]
  BY <1>1, <1>2, SubSeqProperties
<1> QED
  BY <1>3 DEF PartOf

(* The first place of a chain that is not a reference. *)
StartsAt(type, p) ==
  p \in 1..Len(type) /\ type[p] # "&" /\ \A j \in 1..(p - 1) : type[j] = "&"

(* Looking through references goes on from there. *)
LEMMA PointeeFrom ==
  ASSUME NEW type \in Seq(Names), NEW p, StartsAt(type, p)
  PROVE  Pointee(type) = PartOf(type, p)
<1> DEFINE named == {i \in DOMAIN type : type[i] # "&"}
           first == CHOOSE i \in named : \A j \in named : i <= j
<1>1. Len(type) \in Nat /\ DOMAIN type = 1..Len(type) /\ p \in 1..Len(type)
  BY DEF StartsAt
<1>2. p \in named
  BY <1>1 DEF StartsAt
<1>3. ASSUME NEW j \in named PROVE p <= j
  <2>1. j \in 1..Len(type) /\ type[j] # "&"
    BY <1>1, <1>3
  <2>2. j \notin 1..(p - 1)
    BY <2>1 DEF StartsAt
  <2> QED
    BY <1>1, <2>1, <2>2
<1>4. \A i \in named : i \in Nat
  BY <1>1
<1> HIDE DEF named
<1>5. first \in named /\ \A j \in named : first <= j
  BY <1>2, <1>3
<1>6. first <= p /\ p <= first /\ first \in Nat /\ p \in Nat
  BY <1>1, <1>2, <1>3, <1>4, <1>5
<1>7. first = p
  BY <1>6
<1>8. Pointee(type) = PartOf(type, first)
  BY DEF Pointee, PartOf, named
<1> QED
  BY <1>7, <1>8

(* Every type has such a place. *)
LEMMA PointeeStarts ==
  ASSUME NEW type \in Types
  PROVE  \E p : StartsAt(type, p)
<1> DEFINE named == {i \in DOMAIN type : type[i] # "&"}
<1>1. type \in Seq(Names) /\ type # <<>> /\ type[Len(type)] # "&"
  BY DEF Types
<1>2. Len(type) \in Nat \ {0} /\ DOMAIN type = 1..Len(type)
  BY <1>1
<1>3. named \subseteq Nat /\ named # {}
  BY <1>1, <1>2
<1>4. \A i : i \in named <=> i \in 1..Len(type) /\ type[i] # "&"
  BY <1>2
<1> HIDE DEF named
<1>5. PICK p \in named : \A j \in named : p <= j
  BY <1>3, LeastElement
<1>6. p \in 1..Len(type) /\ type[p] # "&"
  BY <1>4, <1>5
<1>7. ASSUME NEW j \in 1..(p - 1) PROVE type[j] = "&"
  <2>1. j \in 1..Len(type) /\ ~(p <= j)
    BY <1>2, <1>6
  <2> QED
    BY <1>4, <1>5, <2>1
<1> QED
  BY <1>6, <1>7 DEF StartsAt

(* The two together, and what is looked at is not longer. *)
LEMMA PointeeShape ==
  ASSUME NEW type \in Types
  PROVE  \E p : /\ StartsAt(type, p) /\ Pointee(type) = PartOf(type, p)
                /\ Pointee(type)[1] = type[p] /\ Len(Pointee(type)) <= Len(type)
<1>1. type \in Seq(Names) /\ Len(type) \in Nat
  BY DEF Types
<1>2. PICK p : StartsAt(type, p)
  BY PointeeStarts
<1>3. Pointee(type) = PartOf(type, p)
  BY <1>1, <1>2, PointeeFrom
<1>4. p \in 1..Len(type)
  BY <1>2 DEF StartsAt
<1>5. /\ Len(PartOf(type, p)) = Len(type) - p + 1
      /\ \A i \in 1..(Len(type) - p + 1) : PartOf(type, p)[i] = type[p + i - 1]
  BY <1>1, <1>4, PartShape
<1>6. 1 \in 1..(Len(type) - p + 1) /\ p + 1 - 1 = p /\ Len(type) - p + 1 <= Len(type)
  BY <1>1, <1>4
<1>7. PartOf(type, p)[1] = type[p]
  BY <1>5, <1>6
<1> QED
  BY <1>2, <1>3, <1>5, <1>6, <1>7

(* Looking through references and taking the key commute. *)
LEMMA PointeeOfKey ==
  ASSUME NEW type \in Types
  PROVE  Pointee(Key(type)) = Key(Pointee(type))
<1>1. type \in Seq(Names) /\ Len(type) \in Nat
  BY DEF Types
<1>2. PICK p : StartsAt(type, p)
  BY PointeeStarts
<1>3. p \in 1..Len(type)
  BY <1>2 DEF StartsAt
<1>4. /\ Key(type) \in Seq(Names) /\ Len(Key(type)) = Len(type)
      /\ \A i \in 1..Len(type) :
           Key(type)[i] = IF type[i] = "runtime num" THEN "num" ELSE type[i]
  BY <1>1, KeyShape
<1>5. StartsAt(Key(type), p)
  <2>1. \A j \in 1..(p - 1) : j \in 1..Len(type)
    BY <1>1, <1>3
  <2>2. \A j \in 1..Len(type) : Key(type)[j] = "&" <=> type[j] = "&"
    BY <1>4
  <2> QED
    BY <1>2, <1>3, <1>4, <2>1, <2>2 DEF StartsAt
<1>6. Pointee(type) = PartOf(type, p) /\ Pointee(Key(type)) = PartOf(Key(type), p)
  BY <1>1, <1>2, <1>4, <1>5, PointeeFrom
<1> DEFINE n == Len(type) - p + 1
           a == PartOf(type, p)
           b == PartOf(Key(type), p)
<1>7. a \in Seq(Names) /\ Len(a) = n /\ \A i \in 1..n : a[i] = type[p + i - 1]
  BY <1>1, <1>3, PartShape
<1>8. b \in Seq(Names) /\ Len(b) = n /\ \A i \in 1..n : b[i] = Key(type)[p + i - 1]
  <2>1. p \in 1..Len(Key(type))
    BY <1>3, <1>4
  <2>2. b \in Seq(Names) /\ Len(b) = Len(Key(type)) - p + 1
        /\ \A i \in 1..(Len(Key(type)) - p + 1) : b[i] = Key(type)[p + i - 1]
    BY <1>4, <2>1, PartShape
  <2> QED
    BY <1>4, <2>2
<1>9. \A i \in 1..n : p + i - 1 \in 1..Len(type)
  BY <1>1, <1>3
<1> HIDE DEF a, b, n
<1>10. /\ Key(a) \in Seq(Names) /\ Len(Key(a)) = n
       /\ \A i \in 1..n : Key(a)[i] = IF a[i] = "runtime num" THEN "num" ELSE a[i]
  BY <1>7, KeyShape
<1>11. \A i \in 1..n : Key(a)[i] = b[i]
  BY <1>4, <1>7, <1>8, <1>9, <1>10
<1>12. Key(a) = b
  BY <1>8, <1>10, <1>11, SameChain
<1> QED
  BY <1>6, <1>12 DEF a, b

(* Looking through the references of a type with its parameter replaced:    *)
(* what is there is the argument, or a type with its parameter replaced.    *)
LEMMA PointeeOfSubstitution ==
  ASSUME NEW type \in Types, NEW argument \in Types
  PROVE  Pointee(apply_substitution(type, argument)) =
           IF Pointee(type) = <<"T">> THEN Pointee(argument)
                                      ELSE apply_substitution(Pointee(type), argument)
<1> DEFINE whole == apply_substitution(type, argument)
           n == Len(type)
           m == Len(argument)
<1>1. type \in Seq(Names) /\ argument \in Seq(Names) /\ type # <<>> /\ argument # <<>>
  BY DEF Types
<1>2. n \in Nat \ {0} /\ m \in Nat \ {0}
  BY <1>1
<1>3. PICK p : StartsAt(type, p)
  BY PointeeStarts
<1>4. p \in 1..n /\ type[p] # "&" /\ \A j \in 1..(p - 1) : type[j] = "&"
  BY <1>3 DEF StartsAt
<1> DEFINE part == PartOf(type, p)
<1>5. Pointee(type) = part
  BY <1>1, <1>3, PointeeFrom
<1>6. /\ part \in Seq(Names) /\ Len(part) = n - p + 1
      /\ \A i \in 1..(n - p + 1) : part[i] = type[p + i - 1]
  BY <1>1, <1>4, PartShape
<1> HIDE DEF part
<1>7. n - p + 1 \in 1..(n - p + 1) /\ p + (n - p + 1) - 1 = n /\ n - p + 1 \in Nat \ {0}
  BY <1>2, <1>4
<1>8. part # <<>> /\ part[Len(part)] = type[n]
  <2>1. part[n - p + 1] = type[p + (n - p + 1) - 1]
    BY <1>6, <1>7
  <2> QED
    BY <1>6, <1>7, <2>1
<1>9. CASE type[n] # "T"
  <2>1. whole = type /\ apply_substitution(part, argument) = part
    BY <1>8, <1>9 DEF apply_substitution
  <2>2. part # <<"T">>
    <3>1. Len(<<"T">>) = 1 /\ <<"T">>[1] = "T"
      OBVIOUS
    <3> QED
      BY <1>8, <1>9, <3>1
  <2> QED
    BY <1>5, <2>1, <2>2
<1>10. CASE type[n] = "T"
  <2>1. /\ whole \in Seq(Names) /\ Len(whole) = n - 1 + m
        /\ \A i \in 1..(n - 1) : whole[i] = type[i]
        /\ \A i \in 1..m : whole[n - 1 + i] = argument[i]
    BY <1>1, <1>10, SubstitutionShape
  <2> HIDE DEF whole
  <2>2. CASE p = n
    <3>1. part = <<"T">>
      <4>1. Len(part) = 1 /\ part[1] = "T"
        BY <1>2, <1>6, <1>8, <1>10, <2>2
      <4>2. "T" \in Names
        BY DEF Names
      <4>3. <<"T">> \in Seq(Names) /\ Len(<<"T">>) = 1 /\ <<"T">>[1] = "T"
        BY <4>2
      <4>4. \A i \in 1..Len(part) : part[i] = <<"T">>[i]
        BY <4>1, <4>3
      <4> QED
        BY <1>6, <4>1, <4>3, <4>4, SameChain
    <3>2. PICK q : StartsAt(argument, q)
      BY PointeeStarts
    <3>3. q \in 1..m /\ argument[q] # "&" /\ \A j \in 1..(q - 1) : argument[j] = "&"
      BY <3>2 DEF StartsAt
    <3> DEFINE r == n - 1 + q
    <3>4. r \in 1..(n - 1 + m) /\ whole[r] = argument[q]
      <4>1. r \in 1..(n - 1 + m)
        BY <1>2, <3>3
      <4> QED
        BY <2>1, <3>3, <4>1
    <3>5. ASSUME NEW j \in 1..(r - 1) PROVE whole[j] = "&"
      <4>1. CASE j \in 1..(n - 1)
        BY <1>4, <2>1, <2>2, <4>1
      <4>2. CASE ~(j \in 1..(n - 1))
        <5> DEFINE k == j - (n - 1)
        <5>1. k \in 1..(q - 1) /\ k \in 1..m /\ j = n - 1 + k
          BY <1>2, <3>3, <4>2
        <5> HIDE DEF k
        <5>2. whole[n - 1 + k] = argument[k]
          BY <2>1, <5>1
        <5> QED
          BY <3>3, <5>1, <5>2
      <4> QED
        BY <4>1, <4>2
    <3>6. StartsAt(whole, r)
      BY <2>1, <3>3, <3>4, <3>5 DEF StartsAt
    <3>7. Pointee(whole) = PartOf(whole, r) /\ Pointee(argument) = PartOf(argument, q)
      BY <1>1, <2>1, <3>2, <3>6, PointeeFrom
    <3> DEFINE a == PartOf(whole, r)
               b == PartOf(argument, q)
               l == m - q + 1
    <3>8. a \in Seq(Names) /\ Len(a) = l /\ \A i \in 1..l : a[i] = whole[r + i - 1]
      <4>1. r \in 1..Len(whole)
        BY <2>1, <3>4
      <4>2. /\ a \in Seq(Names) /\ Len(a) = Len(whole) - r + 1
            /\ \A i \in 1..(Len(whole) - r + 1) : a[i] = whole[r + i - 1]
        BY <2>1, <4>1, PartShape
      <4>3. Len(whole) - r + 1 = l
        BY <1>2, <2>1, <3>3
      <4> QED
        BY <4>2, <4>3
    <3>9. b \in Seq(Names) /\ Len(b) = l /\ \A i \in 1..l : b[i] = argument[q + i - 1]
      BY <1>1, <3>3, PartShape
    <3>10. \A i \in 1..l : q + i - 1 \in 1..m /\ r + i - 1 = n - 1 + (q + i - 1)
      BY <1>2, <3>3
    <3> HIDE DEF a, b, l, r
    <3>11. ASSUME NEW i \in 1..l PROVE a[i] = b[i]
      <4> DEFINE k == q + i - 1
      <4>1. k \in 1..m /\ r + i - 1 = n - 1 + k
        BY <3>10
      <4>2. b[i] = argument[k] /\ a[i] = whole[r + i - 1]
        BY <3>8, <3>9
      <4> HIDE DEF k
      <4> QED
        BY <2>1, <4>1, <4>2
    <3>12. a = b
      BY <3>8, <3>9, <3>11, SameChain
    <3> QED
      BY <1>5, <3>1, <3>7, <3>12 DEF whole, a, b
  <2>3. CASE p # n
    <3>1. p \in 1..(n - 1) /\ n - p + 1 # 1
      BY <1>2, <1>4, <2>3
    <3>2. part # <<"T">>
      <4>1. Len(<<"T">>) = 1
        OBVIOUS
      <4> QED
        BY <1>6, <3>1, <4>1
    <3>3. StartsAt(whole, p)
      <4>1. p \in 1..(n - 1 + m) /\ \A j \in 1..(p - 1) : j \in 1..(n - 1)
        BY <1>2, <3>1
      <4> QED
        BY <1>4, <2>1, <3>1, <4>1 DEF StartsAt
    <3>4. Pointee(whole) = PartOf(whole, p)
      BY <2>1, <3>3, PointeeFrom
    <3> DEFINE a == PartOf(whole, p)
               b == apply_substitution(part, argument)
               l == n - p
    <3>5. a \in Seq(Names) /\ Len(a) = l + m /\ \A i \in 1..(l + m) : a[i] = whole[p + i - 1]
      <4>1. p \in 1..Len(whole)
        BY <1>2, <2>1, <3>1
      <4>2. /\ a \in Seq(Names) /\ Len(a) = Len(whole) - p + 1
            /\ \A i \in 1..(Len(whole) - p + 1) : a[i] = whole[p + i - 1]
        BY <2>1, <4>1, PartShape
      <4>3. Len(whole) - p + 1 = l + m
        BY <1>2, <2>1, <3>1
      <4> QED
        BY <4>2, <4>3
    <3>6. /\ b \in Seq(Names) /\ Len(b) = l + m
          /\ \A i \in 1..l : b[i] = part[i]
          /\ \A i \in 1..m : b[l + i] = argument[i]
      <4>1. /\ b \in Seq(Names) /\ Len(b) = Len(part) - 1 + m
            /\ \A i \in 1..(Len(part) - 1) : b[i] = part[i]
            /\ \A i \in 1..m : b[Len(part) - 1 + i] = argument[i]
        BY <1>1, <1>6, <1>8, <1>10, SubstitutionShape
      <4>2. Len(part) - 1 = l
        BY <1>2, <1>6, <3>1
      <4> QED
        BY <4>1, <4>2
    <3>7. /\ \A i \in 1..l : p + i - 1 \in 1..(n - 1) /\ i \in 1..(n - p + 1) /\ i \in 1..(l + m)
          /\ \A i \in 1..m : p + (l + i) - 1 = n - 1 + i /\ l + i \in 1..(l + m)
      BY <1>2, <3>1
    <3>8. \A i \in 1..(l + m) : i \in 1..l \/ (i - l \in 1..m /\ i = l + (i - l))
      BY <1>2, <3>1
    <3> HIDE DEF a, b, l
    <3>9. ASSUME NEW i \in 1..(l + m) PROVE a[i] = b[i]
      <4>1. CASE i \in 1..l
        <5> DEFINE k == p + i - 1
        <5>1. k \in 1..(n - 1) /\ a[i] = whole[k] /\ b[i] = type[k]
          BY <1>6, <3>5, <3>6, <3>7, <4>1
        <5> HIDE DEF k
        <5> QED
          BY <2>1, <5>1
      <4>2. CASE i - l \in 1..m /\ i = l + (i - l)
        <5> DEFINE k == i - l
        <5>1. k \in 1..m /\ i = l + k
          BY <4>2
        <5> HIDE DEF k
        <5>2. b[l + k] = argument[k] /\ whole[n - 1 + k] = argument[k]
          BY <2>1, <3>6, <5>1
        <5>3. p + (l + k) - 1 = n - 1 + k
          BY <3>7, <5>1
        <5>4. a[i] = whole[p + i - 1]
          BY <3>5
        <5> QED
          BY <5>1, <5>2, <5>3, <5>4
      <4> QED
        BY <3>8, <4>1, <4>2
    <3>10. a = b
      BY <3>5, <3>6, <3>9, SameChain
    <3> QED
      BY <1>5, <3>2, <3>4, <3>10 DEF whole, a, b
  <2> QED
    BY <2>2, <2>3
<1> QED
  BY <1>9, <1>10

(* Replacing the parameter in an instance, and then in a field of it, is    *)
(* replacing it in the field of the instance.                               *)
LEMMA SubstitutionTwice ==
  ASSUME program \in Programs, NEW field \in Types, NEW inst \in Types, IsItem(inst[1]),
         NEW argument \in Types,
         ~IsGeneric(inst[1]) => field[Len(field)] # "T"
  PROVE  apply_substitution(field, Tail(apply_substitution(inst, argument)))
           = apply_substitution(apply_substitution(field, Tail(inst)), argument)
<1> DEFINE whole == apply_substitution(inst, argument)
           inner == apply_substitution(field, Tail(inst))
           f == Len(field)
           n == Len(inst)
           m == Len(argument)
<1>1. /\ field \in Seq(Names) /\ field # <<>> /\ inst \in Seq(Names) /\ inst # <<>>
      /\ argument \in Seq(Names) /\ argument # <<>>
  BY DEF Types
<1>2. f \in Nat \ {0} /\ n \in Nat \ {0} /\ m \in Nat \ {0}
  BY <1>1
<1>3. CASE field[f] # "T"
  BY <1>3 DEF apply_substitution
<1>4. CASE inst[n] # "T"
  <2>a. \A k \in Nat \ {0} : k # 1 => /\ k - 1 \in Nat \ {0} /\ k - 1 \in 1..(k - 1)
                                     /\ k - 1 + 1 = k /\ k - 2 \in Nat /\ 1 \in 1..(k - 1)
    OBVIOUS
  <2>1. whole = inst
    BY <1>4 DEF apply_substitution
  <2>2. inner \in Types
    BY SubstitutionType
  <2>3. CASE field[f] = "T"
    <3>1. IsGeneric(inst[1])
      BY <2>3
    <3>2. ~IsGeneric(inst[n])
      BY DEF Types
    <3>3. n # 1
      BY <3>1, <3>2
    <3>4. n - 1 \in Nat \ {0} /\ n - 1 \in 1..(n - 1) /\ n - 1 + 1 = n
      BY <1>2, <2>a, <3>3
    <3>5. /\ Tail(inst) \in Seq(Names) /\ Len(Tail(inst)) = n - 1
          /\ Tail(inst)[n - 1] = inst[n]
      BY <1>1, <1>2, <3>4
    <3>6. /\ Len(inner) = f - 1 + (n - 1)
          /\ \A i \in 1..(n - 1) : inner[f - 1 + i] = Tail(inst)[i]
      <4> DEFINE u == Tail(inst)
      <4>1. u \in Seq(Names) /\ Len(u) = n - 1
        BY <3>5
      <4> HIDE DEF u
      <4>2. /\ Len(apply_substitution(field, u)) = Len(field) - 1 + Len(u)
            /\ \A i \in 1..Len(u) :
                 apply_substitution(field, u)[Len(field) - 1 + i] = u[i]
        BY <1>1, <2>3, <4>1, SubstitutionShape
      <4> QED
        BY <4>1, <4>2 DEF u
    <3>7. inner[Len(inner)] = inst[n]
      BY <3>4, <3>5, <3>6
    <3>8. apply_substitution(inner, argument) = inner
      BY <1>4, <3>7 DEF apply_substitution
    <3> QED
      BY <2>1, <3>8
  <2> QED
    BY <1>3, <2>3
<1>5. CASE field[f] = "T" /\ inst[n] = "T"
  <2>a. \A k \in Nat \ {0} : k # 1 => /\ k - 1 \in Nat \ {0} /\ k - 1 \in 1..(k - 1)
                                     /\ k - 1 + 1 = k /\ k - 2 \in Nat /\ 1 \in 1..(k - 1)
    OBVIOUS
  <2>1. /\ whole \in Seq(Names) /\ Len(whole) = n - 1 + m
        /\ \A i \in 1..(n - 1) : whole[i] = inst[i]
        /\ \A i \in 1..m : whole[n - 1 + i] = argument[i]
    BY <1>1, <1>5, SubstitutionShape
  <2>2. inst[1] # "T"
    BY ProgramFacts DEF IsItem
  <2>3. n # 1
    BY <1>5, <2>2
  <2>b. n - 1 \in Nat \ {0} /\ n - 2 \in Nat
    BY <1>2, <2>3, <2>a
  <2>4. n - 1 \in Nat \ {0} /\ n - 2 \in Nat /\ n - 1 + m \in Nat \ {0}
    BY <1>2, <2>b
  <2> DEFINE t == Tail(whole)
             u == Tail(inst)
  <2>5. u \in Seq(Names) /\ Len(u) = n - 1 /\ \A i \in 1..(n - 1) : u[i] = inst[i + 1]
    BY <1>1, <1>2
  <2> HIDE DEF whole
  <2>6. whole # <<>>
    BY <2>1, <2>4
  <2>7. t \in Seq(Names) /\ Len(t) = n - 2 + m
        /\ \A i \in 1..(n - 2 + m) : t[i] = whole[i + 1]
    <3>1. Len(whole) \in Nat \ {0} /\ Len(whole) - 1 = n - 2 + m
      BY <1>2, <2>1, <2>4
    <3>2. t \in Seq(Names) /\ Len(t) = Len(whole) - 1
          /\ \A i \in 1..(Len(whole) - 1) : t[i] = whole[i + 1]
      BY <2>1, <2>6, <3>1
    <3> QED
      BY <3>1, <3>2
  <2> HIDE DEF t, u
  <2>8. /\ inner \in Seq(Names) /\ Len(inner) = f - 1 + (n - 1)
        /\ \A i \in 1..(f - 1) : inner[i] = field[i]
        /\ \A i \in 1..(n - 1) : inner[f - 1 + i] = u[i]
    <3>1. LET r == apply_substitution(field, u)
          IN  /\ r \in Seq(Names) /\ Len(r) = Len(field) - 1 + Len(u)
              /\ \A i \in 1..(Len(field) - 1) : r[i] = field[i]
              /\ \A i \in 1..Len(u) : r[Len(field) - 1 + i] = u[i]
      BY <1>1, <1>5, <2>5, SubstitutionShape
    <3> QED
      BY <2>5, <3>1 DEF u
  <2> HIDE DEF inner
  <2>9. inner # <<>> /\ inner[Len(inner)] = "T"
    <3>1. n - 1 \in 1..(n - 1) /\ n - 1 + 1 = n /\ f - 1 + (n - 1) # 0
      BY <1>2, <2>4
    <3>2. inner[f - 1 + (n - 1)] = u[n - 1] /\ u[n - 1] = inst[n - 1 + 1]
      BY <2>5, <2>8, <3>1
    <3>3. inner # <<>>
      BY <2>8, <3>1
    <3> QED
      BY <1>5, <2>8, <3>1, <3>2, <3>3
  <2> DEFINE a == apply_substitution(field, t)
             b == apply_substitution(inner, argument)
             l == f - 1 + (n - 2)
  <2>10. /\ a \in Seq(Names) /\ Len(a) = f - 1 + (n - 2 + m)
         /\ \A i \in 1..(f - 1) : a[i] = field[i]
         /\ \A i \in 1..(n - 2 + m) : a[f - 1 + i] = t[i]
    <3>1. /\ a \in Seq(Names) /\ Len(a) = Len(field) - 1 + Len(t)
          /\ \A i \in 1..(Len(field) - 1) : a[i] = field[i]
          /\ \A i \in 1..Len(t) : a[Len(field) - 1 + i] = t[i]
      BY <1>1, <1>5, <2>7, SubstitutionShape
    <3> QED
      BY <2>7, <3>1
  <2>11. /\ b \in Seq(Names) /\ Len(b) = l + m
         /\ \A i \in 1..l : b[i] = inner[i]
         /\ \A i \in 1..m : b[l + i] = argument[i]
    <3>1. Len(inner) - 1 = l
      BY <1>2, <2>8
    <3>2. /\ b \in Seq(Names) /\ Len(b) = Len(inner) - 1 + m
          /\ \A i \in 1..(Len(inner) - 1) : b[i] = inner[i]
          /\ \A i \in 1..m : b[Len(inner) - 1 + i] = argument[i]
      BY <1>1, <2>8, <2>9, SubstitutionShape
    <3> QED
      BY <3>1, <3>2
  <2>12. Len(a) = l + m
    BY <1>2, <2>10
  <2> HIDE DEF a, b
  <2>13. ASSUME NEW i \in 1..(l + m) PROVE a[i] = b[i]
    <3>1. CASE i \in 1..(f - 1)
      <4>1. i \in 1..l
        BY <1>2, <2>4, <3>1
      <4> QED
        BY <2>8, <2>10, <2>11, <3>1, <4>1
    <3>2. CASE ~(i \in 1..(f - 1)) /\ i \in 1..l
      <4> DEFINE k == i - (f - 1)
      <4>1. k \in 1..(n - 2) /\ k \in 1..(n - 2 + m) /\ k \in 1..(n - 1) /\ i = f - 1 + k
            /\ k + 1 \in 1..(n - 1)
        BY <1>2, <2>4, <3>2
      <4> HIDE DEF k
      <4>2. a[f - 1 + k] = t[k] /\ t[k] = whole[k + 1] /\ whole[k + 1] = inst[k + 1]
        BY <2>1, <2>7, <2>10, <4>1
      <4>3. inner[f - 1 + k] = u[k] /\ u[k] = inst[k + 1]
        BY <2>5, <2>8, <4>1
      <4>4. b[i] = inner[i]
        BY <2>11, <3>2
      <4> QED
        BY <4>1, <4>2, <4>3, <4>4
    <3>3. CASE ~(i \in 1..l)
      <4> DEFINE k == i - l
      <4>1. /\ k \in 1..m /\ i = l + k /\ i = f - 1 + (n - 2 + k)
            /\ n - 2 + k \in 1..(n - 2 + m) /\ n - 2 + k + 1 = n - 1 + k
        BY <1>2, <2>4, <3>3
      <4> HIDE DEF k
      <4>2. b[l + k] = argument[k] /\ whole[n - 1 + k] = argument[k]
        BY <2>1, <2>11, <4>1
      <4> DEFINE j == n - 2 + k
      <4>3. j \in 1..(n - 2 + m) /\ i = f - 1 + j /\ j + 1 = n - 1 + k
        BY <4>1
      <4> HIDE DEF j
      <4>4. a[f - 1 + j] = t[j] /\ t[j] = whole[j + 1]
        BY <2>7, <2>10, <4>3
      <4> QED
        BY <4>1, <4>2, <4>3, <4>4
    <3> QED
      BY <3>1, <3>2, <3>3
  <2>14. a = b
    BY <2>10, <2>11, <2>12, <2>13, SameChain
  <2> QED
    BY <2>14 DEF a, b, t, inner, whole
<1> QED
  BY <1>3, <1>4, <1>5

(* Substitution keeps the outermost name of all but the parameter itself. *)
LEMMA SubstitutionFirst ==
  ASSUME NEW type \in Types, type # <<"T">>, NEW argument \in Types
  PROVE  apply_substitution(type, argument)[1] = type[1]
<1>1. type \in Seq(Names) /\ type # <<>> /\ argument \in Seq(Names)
  BY DEF Types
<1>2. Len(type) \in Nat \ {0}
  BY <1>1
<1>3. CASE type[Len(type)] # "T"
  BY <1>3 DEF apply_substitution
<1>4. CASE type[Len(type)] = "T"
  <2>1. Len(type) # 1
    <3> SUFFICES ASSUME Len(type) = 1 PROVE FALSE
      OBVIOUS
    <3>1. "T" \in Names
      BY DEF Names
    <3>2. <<"T">> \in Seq(Names) /\ Len(<<"T">>) = 1 /\ <<"T">>[1] = "T"
      BY <3>1
    <3>3. \A i \in 1..Len(type) : type[i] = <<"T">>[i]
      BY <1>4, <3>2
    <3> QED
      BY <1>1, <3>2, <3>3, SameChain
  <2>2. 1 \in 1..(Len(type) - 1)
    <3>1. \A k \in Nat \ {0} : k # 1 => 1 \in 1..(k - 1)
      OBVIOUS
    <3> QED
      BY <1>2, <2>1, <3>1
  <2> QED
    BY <1>1, <1>4, <2>2, SubstitutionShape
<1> QED
  BY <1>3, <1>4

-----------------------------------------------------------------------------
(* What is inside what.                                                     *)

(* The keys of the structs an instance contains or points to. *)
Inside(inst) == {Key(type) : type \in Contains(inst)}

(* A key names a struct when the type does. *)
LEMMA KeyStruct ==
  ASSUME program \in Programs, NEW type \in Types
  PROVE  IsStruct(Key(type)[1]) <=> IsStruct(type[1])
<1>1. type \in Seq(Names) /\ type # <<>>
  BY DEF Types
<1>2. 1 \in 1..Len(type)
  BY <1>1
<1>3. Key(type)[1] = IF type[1] = "runtime num" THEN "num" ELSE type[1]
  BY <1>1, <1>2, KeyShape
<1>4. ~IsStruct("num") /\ ~IsStruct("runtime num")
  BY ProgramFacts DEF IsStruct, IsItem
<1> QED
  BY <1>3, <1>4

(* What is inside an instance, field by field. *)
LEMMA InsideFields ==
  ASSUME program \in Programs, NEW inst, inst = <<>> \/ (inst \in Types /\ IsItem(inst[1])),
         NEW key
  PROVE  key \in Inside(inst) <=>
           \E k \in DOMAIN FieldTypes(inst) :
             /\ key = Key(Pointee(FieldTypes(inst)[k]))
             /\ IsStruct(key[1])
<1>1. FieldTypes(inst) \in Seq(Types)
  BY FieldTypesType
<1>2. \A k \in DOMAIN FieldTypes(inst) : Pointee(FieldTypes(inst)[k]) \in Types
  BY <1>1, PointeeType
<1>3. \A k \in DOMAIN FieldTypes(inst) :
        IsStruct(Key(Pointee(FieldTypes(inst)[k]))[1])
          <=> IsStruct(Pointee(FieldTypes(inst)[k])[1])
  BY <1>2, KeyStruct
<1> QED
  BY <1>3 DEF Inside, Contains

(* The fields of an instance, and the parameter in them. *)
LEMMA FieldFacts ==
  ASSUME program \in Programs, NEW inst \in Types, IsItem(inst[1])
  PROVE  /\ DOMAIN FieldTypes(inst) = DOMAIN Item(inst[1]).fields
         /\ \A k \in DOMAIN Item(inst[1]).fields :
              LET field == Item(inst[1]).fields[k]
              IN  /\ FieldTypes(inst)[k] = apply_substitution(field, Tail(inst))
                  /\ field \in Types
                  /\ ~IsGeneric(inst[1]) => field[Len(field)] # "T"
                  /\ FieldTypes(inst)[k] \in Types
<1>1. inst # <<>>
  BY DEF Types
<1>2. FieldTypes(inst) = [k \in DOMAIN Item(inst[1]).fields |->
                            apply_substitution(Item(inst[1]).fields[k], Tail(inst))]
  BY <1>1 DEF FieldTypes
<1>3. inst[1] \in DOMAIN program.decl
  BY DEF IsItem
<1>4. FieldTypes(inst) \in Seq(Types)
  BY FieldTypesType
<1>5. \A k \in DOMAIN Item(inst[1]).fields :
        /\ Item(inst[1]).fields[k] \in Types
        /\ ~IsGeneric(inst[1]) =>
             Item(inst[1]).fields[k][Len(Item(inst[1]).fields[k])] # "T"
  BY <1>3, ProgramFacts
<1> QED
  BY <1>2, <1>4, <1>5

(* An instance and its key have the same inside. *)
LEMMA InsideOfKey ==
  ASSUME program \in Programs, NEW inst \in Types, IsItem(inst[1])
  PROVE  Inside(Key(inst)) = Inside(inst)
<1> DEFINE key == Key(inst)
           fields == Item(inst[1]).fields
<1>1. key \in Types /\ key[1] = inst[1] /\ key # <<>> /\ inst # <<>>
  BY KeyType, KeyHead DEF Types
<1>2. inst \in Seq(Names) /\ key \in Seq(Names)
  BY <1>1 DEF Types
<1> HIDE DEF key
<1>3. Tail(inst) \in Seq(Names) /\ Tail(key) \in Seq(Names)
  BY <1>1, <1>2
<1>4. Key(Tail(key)) = Key(Tail(inst))
  <2>1. Len(inst) \in Nat \ {0}
    BY <1>1, <1>2
  <2>2. /\ Len(key) = Len(inst)
        /\ \A i \in 1..Len(inst) :
             key[i] = IF inst[i] = "runtime num" THEN "num" ELSE inst[i]
    BY <1>2, KeyShape DEF key
  <2> DEFINE a == Tail(key)
             b == Tail(inst)
             n == Len(inst) - 1
  <2>3. /\ a \in Seq(Names) /\ Len(a) = n /\ \A i \in 1..n : a[i] = key[i + 1]
        /\ b \in Seq(Names) /\ Len(b) = n /\ \A i \in 1..n : b[i] = inst[i + 1]
    <3>1. Len(key) \in Nat \ {0} /\ Len(key) - 1 = n
      BY <2>1, <2>2
    <3>2. Len(a) = Len(key) - 1 /\ \A i \in 1..(Len(key) - 1) : a[i] = key[i + 1]
      BY <1>1, <1>2, <3>1
    <3>3. Len(b) = n /\ \A i \in 1..n : b[i] = inst[i + 1]
      BY <1>1, <1>2, <2>1
    <3> QED
      BY <1>3, <3>1, <3>2, <3>3
  <2>4. \A i \in 1..n : i + 1 \in 1..Len(inst)
    BY <2>1
  <2> HIDE DEF a, b, n
  <2>5. /\ Key(a) \in Seq(Names) /\ Len(Key(a)) = n
        /\ \A i \in 1..n : Key(a)[i] = IF a[i] = "runtime num" THEN "num" ELSE a[i]
    BY <2>3, KeyShape
  <2>6. /\ Key(b) \in Seq(Names) /\ Len(Key(b)) = n
        /\ \A i \in 1..n : Key(b)[i] = IF b[i] = "runtime num" THEN "num" ELSE b[i]
    BY <2>3, KeyShape
  <2>7. \A i \in 1..n : Key(a)[i] = Key(b)[i]
    BY <2>2, <2>3, <2>4, <2>5, <2>6
  <2>8. Key(a) = Key(b)
    BY <2>5, <2>6, <2>7, SameChain
  <2> QED
    BY <2>8 DEF a, b
<1>5. /\ DOMAIN FieldTypes(inst) = DOMAIN fields /\ DOMAIN FieldTypes(key) = DOMAIN fields
      /\ \A k \in DOMAIN fields :
           /\ FieldTypes(inst)[k] = apply_substitution(fields[k], Tail(inst))
           /\ FieldTypes(key)[k] = apply_substitution(fields[k], Tail(key))
           /\ fields[k] \in Types /\ FieldTypes(inst)[k] \in Types
           /\ FieldTypes(key)[k] \in Types
  BY <1>1, FieldFacts
<1>6. ASSUME NEW k \in DOMAIN fields
      PROVE  Key(Pointee(FieldTypes(key)[k])) = Key(Pointee(FieldTypes(inst)[k]))
  <2> DEFINE a == apply_substitution(fields[k], Tail(key))
             b == apply_substitution(fields[k], Tail(inst))
  <2>1. FieldTypes(key)[k] = a /\ FieldTypes(inst)[k] = b /\ a \in Types /\ b \in Types
    BY <1>5
  <2>2. fields[k] \in Seq(Names)
    BY <1>5 DEF Types
  <2>3. Key(a) = apply_substitution(Key(fields[k]), Key(Tail(key)))
        /\ Key(b) = apply_substitution(Key(fields[k]), Key(Tail(inst)))
    BY <1>3, <2>2, KeySubstitution
  <2>4. Key(a) = Key(b)
    BY <1>4, <2>3
  <2> HIDE DEF a, b
  <2>5. Key(Pointee(a)) = Pointee(Key(a)) /\ Key(Pointee(b)) = Pointee(Key(b))
    BY <2>1, PointeeOfKey
  <2> QED
    BY <2>1, <2>4, <2>5
<1>7. ASSUME NEW q PROVE q \in Inside(key) <=> q \in Inside(inst)
  BY <1>1, <1>5, <1>6, InsideFields
<1> QED
  BY <1>7 DEF key

(* What is inside an instance whose parameter was replaced is what is       *)
(* inside the instance, with the parameter replaced, or in the argument.    *)
LEMMA InsideOfSubstitution ==
  ASSUME program \in Programs, NEW inst \in Types, IsItem(inst[1]),
         NEW argument \in Types, Key(argument) = argument,
         apply_substitution(inst, argument) \in Types,
         NEW key \in Inside(apply_substitution(inst, argument))
  PROVE  \/ \E inner \in Inside(inst) : key = apply_substitution(inner, argument)
         \/ key = Key(Pointee(argument))
<1> DEFINE whole == apply_substitution(inst, argument)
           fields == Item(inst[1]).fields
<1>1. argument \in Seq(Names) /\ inst \in Seq(Names)
  BY DEF Types
<1>2. whole[1] = inst[1]
  BY <1>1, SubstitutionHead
<1>3. whole \in Types /\ IsItem(whole[1])
  BY <1>2
<1>4. PICK k \in DOMAIN FieldTypes(whole) :
        key = Key(Pointee(FieldTypes(whole)[k])) /\ IsStruct(key[1])
  BY <1>3, InsideFields
<1> DEFINE field == fields[k]
           one == apply_substitution(field, Tail(inst))
<1>5. /\ k \in DOMAIN fields /\ FieldTypes(whole)[k] = apply_substitution(field, Tail(whole))
      /\ field \in Types /\ (~IsGeneric(inst[1]) => field[Len(field)] # "T")
  BY <1>2, <1>3, <1>4, FieldFacts
<1>6. k \in DOMAIN FieldTypes(inst) /\ FieldTypes(inst)[k] = one /\ one \in Types
  BY <1>5, FieldFacts
<1>7. FieldTypes(whole)[k] = apply_substitution(one, argument)
  BY <1>5, SubstitutionTwice
<1> HIDE DEF whole, field, fields, one
<1>8. Pointee(FieldTypes(whole)[k]) =
        IF Pointee(one) = <<"T">> THEN Pointee(argument)
                                  ELSE apply_substitution(Pointee(one), argument)
  BY <1>6, <1>7, PointeeOfSubstitution
<1>9. CASE Pointee(one) = <<"T">>
  BY <1>4, <1>8, <1>9
<1>10. CASE Pointee(one) # <<"T">>
  <2> DEFINE inner == Key(Pointee(one))
  <2>1. Pointee(one) \in Types /\ Pointee(one) \in Seq(Names)
    BY <1>6, PointeeType DEF Types
  <2>2. key = apply_substitution(inner, argument)
    <3>1. key = Key(apply_substitution(Pointee(one), argument))
      BY <1>4, <1>8, <1>10
    <3> QED
      BY <1>1, <2>1, <3>1, KeySubstitution
  <2>3. inner \in Types
    BY <2>1, KeyType
  <2>4. inner # <<"T">>
    <3> SUFFICES ASSUME inner = <<"T">> PROVE FALSE
      OBVIOUS
    <3> DEFINE p == Pointee(one)
    <3>1. "T" \in Names /\ p \in Seq(Names) /\ p # <<"T">>
      BY <1>10, <2>1 DEF Names
    <3>2. <<"T">> \in Seq(Names) /\ Len(<<"T">>) = 1 /\ <<"T">>[1] = "T"
      BY <3>1
    <3>3. /\ Len(Key(p)) = Len(p)
          /\ \A i \in 1..Len(p) : Key(p)[i] = IF p[i] = "runtime num" THEN "num" ELSE p[i]
      BY <3>1, KeyShape
    <3>c. Key(p) = <<"T">>
      BY DEF inner
    <3> HIDE DEF p
    <3>4. Len(p) = 1 /\ 1 \in 1..Len(p)
      <4>1. Len(Key(p)) = 1
        BY <3>2, <3>c
      <4>2. Len(p) = 1
        BY <3>3, <4>1
      <4>3. 1 \in 1..1
        OBVIOUS
      <4> QED
        BY <4>2, <4>3
    <3>5. Key(p)[1] = "T"
      BY <3>2, <3>c
    <3>6. p[1] = "T"
      BY <3>3, <3>4, <3>5
    <3>7. \A i \in 1..Len(p) : p[i] = <<"T">>[i]
      BY <3>2, <3>4, <3>6
    <3>8. p = <<"T">>
      BY <3>1, <3>2, <3>4, <3>7, SameChain
    <3> QED
      BY <3>1, <3>8
  <2> HIDE DEF inner
  <2>5. key[1] = inner[1]
    BY <2>2, <2>3, <2>4, SubstitutionFirst
  <2>6. inner \in Inside(inst)
    <3>1. inner = Key(Pointee(FieldTypes(inst)[k])) /\ IsStruct(inner[1])
      BY <1>4, <1>6, <2>5 DEF inner
    <3> QED
      BY <1>6, <3>1, InsideFields
  <2> QED
    BY <2>2, <2>6
<1> QED
  BY <1>9, <1>10

(* The keys of structs that were expanded to the end: with each of them what *)
(* is inside it, the declarations among them, and none inside itself.       *)
Closed(keys) ==
  \A key \in keys : /\ key \in Types /\ Key(key) = key /\ IsStruct(key[1])
                    /\ Inside(key) \subseteq keys

Grounded(keys) ==
  \A some \in SUBSET keys :
    some # {} => \E key \in some : Inside(key) \intersect some = {}

AllDeclared(keys) ==
  \A name \in DOMAIN program.decl : IsStruct(name) => Declared(name) \in keys

(* Then no set of instances, whatever their arguments, goes round in itself. *)
LEMMA NoneInsideItself ==
  ASSUME program \in Programs, NEW keys, Closed(keys), Grounded(keys), AllDeclared(keys),
         NEW left, left # {}, \A inst \in left : inst \in Instances /\ IsStruct(inst[1])
  PROVE  \E inst \in left : Inside(inst) \intersect left = {}
<1> SUFFICES ASSUME \A inst \in left : Inside(inst) \intersect left # {}
             PROVE  FALSE
  OBVIOUS
<1>1. \A inst \in left : inst \in Types /\ IsItem(inst[1]) /\ IsInstance(inst)
  BY DEF Instances, IsInstance
<1> DEFINE S == {inst \in left : Key(inst) = inst}
<1>2. ASSUME NEW inst \in left PROVE \E key \in Inside(inst) : key \in S
  <2>1. PICK key \in Inside(inst) : key \in left
    OBVIOUS
  <2>2. PICK type \in Contains(inst) : key = Key(type)
    BY DEF Inside
  <2>3. FieldTypes(inst) \in Seq(Types)
    BY <1>1, FieldTypesType
  <2>4. type \in Types
    BY <2>2, <2>3, PointeeType DEF Contains
  <2>5. Key(key) = key
    BY <2>2, <2>4, KeyOfKey DEF Types
  <2> QED
    BY <2>1, <2>5
<1>3. S # {}
  BY <1>2
<1>4. \A inst \in S : inst \in left /\ Key(inst) = inst
  OBVIOUS
<1> HIDE DEF S
<1>5. PICK M \in S : \A inst \in S : Len(M) <= Len(inst)
  <2> DEFINE lengths == {Len(inst) : inst \in S}
  <2>1. \A inst \in S : Len(inst) \in Nat
    BY <1>1, <1>4 DEF Types
  <2>2. lengths \subseteq Nat /\ lengths # {}
    BY <1>3, <2>1
  <2>3. \A inst \in S : Len(inst) \in lengths
    OBVIOUS
  <2>4. \A n \in lengths : \E inst \in S : n = Len(inst)
    OBVIOUS
  <2> HIDE DEF lengths
  <2>5. PICK n \in lengths : \A m \in lengths : n <= m
    BY <2>2, LeastElement
  <2> QED
    BY <2>3, <2>4, <2>5
<1>6. /\ M \in left /\ M \in Types /\ Key(M) = M /\ IsStruct(M[1]) /\ IsItem(M[1])
      /\ M[1] \in DOMAIN program.decl /\ IsInstance(M)
  BY <1>1, <1>4 DEF IsItem
<1>7. M \in Seq(Names) /\ M # <<>> /\ Len(M) \in Nat \ {0}
  <2>1. M \in Seq(Names) /\ M # <<>>
    BY <1>6 DEF Types
  <2> QED
    BY <2>1
<1> DEFINE Y == IF IsGeneric(M[1]) THEN Tail(M) ELSE <<"T">>
<1>8. /\ Y \in Types /\ Key(Y) = Y /\ apply_substitution(Declared(M[1]), Y) = M
      /\ Y = <<"T">> \/ Len(Y) < Len(M)
  <2>1. "T" \in Names /\ M[1] \in Names /\ M[1] # "T" /\ ~IsGeneric("T") /\ "T" # "&"
    BY <1>6, ProgramFacts DEF Names, IsGeneric, IsItem
  <2>2. CASE IsGeneric(M[1])
    <3>1. Len(M) # 1
      BY <1>6, <2>2 DEF Types
    <3>2. \A n \in Nat \ {0} : n # 1 => n - 1 \in Nat \ {0} /\ n - 1 < n /\ n - 1 + 1 = n
                                       /\ n - 1 \in 1..(n - 1)
      OBVIOUS
    <3> DEFINE a == Tail(M)
               n == Len(M) - 1
    <3>3. n \in Nat \ {0} /\ n < Len(M) /\ n + 1 = Len(M) /\ n \in 1..n
      BY <1>7, <3>1, <3>2
    <3>4. a \in Seq(Names) /\ Len(a) = n /\ \A i \in 1..n : a[i] = M[i + 1]
      BY <1>7
    <3> HIDE DEF a, n
    <3>5. a \in Types
      <4>1. a # <<>> /\ a[Len(a)] = M[Len(M)]
        BY <3>3, <3>4
      <4> QED
        BY <1>6, <3>4, <4>1 DEF Types
    <3>6. Key(a) = a
      <4>1. /\ Key(a) \in Seq(Names) /\ Len(Key(a)) = n
            /\ \A i \in 1..n : Key(a)[i] = IF a[i] = "runtime num" THEN "num" ELSE a[i]
        BY <3>4, KeyShape
      <4>2. \A i \in 1..Len(M) : Key(M)[i] = IF M[i] = "runtime num" THEN "num" ELSE M[i]
        BY <1>7, KeyShape
      <4>3. \A i \in 1..n : i + 1 \in 1..Len(M)
        BY <1>7, <3>3
      <4>4. \A i \in 1..n : Key(a)[i] = a[i]
        BY <1>6, <3>4, <4>1, <4>2, <4>3
      <4> QED
        BY <3>4, <4>1, <4>4, SameChain
    <3>7. apply_substitution(<<M[1], "T">>, a) = M
      <4> DEFINE d == <<M[1], "T">>
                 r == apply_substitution(d, a)
      <4>1. d \in Seq(Names) /\ Len(d) = 2 /\ d[2] = "T" /\ d[1] = M[1] /\ d # <<>>
        BY <2>1
      <4> HIDE DEF d
      <4>2. /\ r \in Seq(Names) /\ Len(r) = 2 - 1 + n
            /\ \A i \in 1..(2 - 1) : r[i] = d[i]
            /\ \A i \in 1..n : r[2 - 1 + i] = a[i]
        <5>1. d[Len(d)] = "T"
          BY <4>1
        <5>2. /\ r \in Seq(Names) /\ Len(r) = Len(d) - 1 + Len(a)
              /\ \A i \in 1..(Len(d) - 1) : r[i] = d[i]
              /\ \A i \in 1..Len(a) : r[Len(d) - 1 + i] = a[i]
          BY <3>4, <4>1, <5>1, SubstitutionShape
        <5> QED
          BY <3>4, <4>1, <5>2
      <4> HIDE DEF r
      <4>3. Len(r) = Len(M)
        BY <1>7, <3>3, <4>2
      <4>4. \A i \in 1..Len(M) : i = 1 \/ (i - 1 \in 1..n /\ 1 + (i - 1) = i /\ i - 1 + 1 = i)
        BY <1>7, <3>3
      <4>5. ASSUME NEW i \in 1..Len(r) PROVE r[i] = M[i]
        <5>1. CASE i = 1
          BY <4>1, <4>2, <5>1
        <5>2. CASE i - 1 \in 1..n /\ 1 + (i - 1) = i /\ i - 1 + 1 = i
          <6> DEFINE k == i - 1
          <6>1. k \in 1..n /\ i = 1 + k /\ i = k + 1 /\ 2 - 1 + k = i
            BY <5>2
          <6> HIDE DEF k
          <6>2. r[2 - 1 + k] = a[k] /\ a[k] = M[k + 1]
            BY <3>4, <4>2, <6>1
          <6> QED
            BY <6>1, <6>2
        <5> QED
          BY <4>3, <4>4, <5>1, <5>2
      <4>6. r = M
        BY <1>7, <4>2, <4>3, <4>5, SameChain
      <4> QED
        BY <4>6 DEF r, d
    <3> QED
      BY <2>2, <3>3, <3>4, <3>5, <3>6, <3>7 DEF Declared, a
  <2>3. CASE ~IsGeneric(M[1])
    <3>1. Tail(M) = <<>>
      BY <1>6, <2>3 DEF IsInstance
    <3>2. Len(M) = 1
      <4>1. Len(Tail(M)) = Len(M) - 1
        BY <1>7
      <4> QED
        BY <1>7, <3>1, <4>1
    <3>3. <<M[1]>> \in Seq(Names) /\ Len(<<M[1]>>) = 1 /\ <<M[1]>>[1] = M[1]
      BY <2>1
    <3>4. \A i \in 1..Len(M) : M[i] = <<M[1]>>[i]
      BY <3>2, <3>3
    <3>5. M = <<M[1]>>
      BY <1>7, <3>2, <3>3, <3>4, SameChain
    <3>6. apply_substitution(M, <<"T">>) = M
      BY <2>1, <3>2 DEF apply_substitution
    <3>7. <<"T">> \in Seq(Names) /\ Len(<<"T">>) = 1 /\ <<"T">>[1] = "T" /\ <<"T">> # <<>>
      BY <2>1
    <3>8. <<"T">> \in Types
      <4>1. <<"T">>[Len(<<"T">>)] = "T"
        BY <3>7
      <4> QED
        BY <2>1, <3>7, <4>1 DEF Types
    <3>9. Key(<<"T">>) = <<"T">>
      <4>1. /\ Key(<<"T">>) \in Seq(Names) /\ Len(Key(<<"T">>)) = 1
            /\ \A i \in 1..1 : Key(<<"T">>)[i] =
                 IF <<"T">>[i] = "runtime num" THEN "num" ELSE <<"T">>[i]
        BY <3>7, KeyShape
      <4>2. \A i \in 1..1 : Key(<<"T">>)[i] = <<"T">>[i]
        BY <3>7, <4>1
      <4> QED
        BY <3>7, <4>1, <4>2, SameChain
    <3> QED
      BY <2>3, <3>5, <3>6, <3>8, <3>9 DEF Declared
  <2> QED
    BY <2>2, <2>3
<1> HIDE DEF Y
<1> DEFINE R == {key \in keys : apply_substitution(key, Y) \in S}
<1>9. Declared(M[1]) \in R
  BY <1>6, <1>8 DEF AllDeclared
<1>10. R \in SUBSET keys
  OBVIOUS
<1>11. PICK key \in R : Inside(key) \intersect R = {}
  BY <1>9, <1>10 DEF Grounded
<1>12. /\ key \in keys /\ key \in Types /\ IsItem(key[1])
       /\ apply_substitution(key, Y) \in S
  BY <1>11 DEF Closed, IsStruct
<1>13. apply_substitution(key, Y) \in left /\ apply_substitution(key, Y) \in Types
  BY <1>1, <1>4, <1>12
<1>14. PICK q \in Inside(apply_substitution(key, Y)) : q \in S
  BY <1>2, <1>13
<1>15. CASE \E inner \in Inside(key) : q = apply_substitution(inner, Y)
  <2>1. PICK inner \in Inside(key) : q = apply_substitution(inner, Y)
    BY <1>15
  <2>2. inner \in keys
    BY <1>12 DEF Closed
  <2>3. inner \in R
    BY <1>14, <2>1, <2>2
  <2> QED
    BY <1>11, <2>3
<1>16. CASE q = Key(Pointee(Y))
  <2>1. PICK p : /\ Pointee(Y)[1] = Y[p] /\ Len(Pointee(Y)) <= Len(Y)
                 /\ p \in 1..Len(Y)
    BY <1>8, PointeeShape DEF StartsAt
  <2>2. Pointee(Y) \in Types
    BY <1>8, PointeeType
  <2>3. Len(q) = Len(Pointee(Y)) /\ Len(Pointee(Y)) \in Nat
    <3>1. Pointee(Y) \in Seq(Names)
      BY <2>2 DEF Types
    <3>2. Len(Key(Pointee(Y))) = Len(Pointee(Y))
      BY <3>1, KeyShape
    <3> QED
      BY <1>16, <3>1, <3>2
  <2>4. IsStruct(q[1])
    BY <1>4, <1>14
  <2>5. CASE Y = <<"T">>
    <3>1. Len(Y) = 1 /\ Y[1] = "T"
      BY <2>5
    <3>2. p = 1
      BY <2>1, <3>1
    <3>3. IsStruct("T")
      BY <1>16, <2>1, <2>2, <2>4, <3>1, <3>2, KeyStruct
    <3> QED
      BY <3>3, ProgramFacts DEF IsStruct, IsItem
  <2>6. CASE Len(Y) < Len(M)
    <3>1. Len(M) <= Len(q)
      BY <1>5, <1>14
    <3>2. Len(Y) \in Nat
      BY <1>8 DEF Types
    <3> QED
      BY <1>7, <2>1, <2>3, <2>6, <3>1, <3>2
  <2> QED
    BY <1>8, <2>5, <2>6
<1> QED
  BY <1>8, <1>12, <1>13, <1>14, <1>15, <1>16, InsideOfSubstitution

-----------------------------------------------------------------------------
(* The expansion, again: what was followed.                                 *)

(* The structs in the fields that were followed were expanded to the end,   *)
(* but for the one that is under expansion.                                 *)
Followed(frames, keys) ==
  \A i \in DOMAIN frames : \A k \in DOMAIN frames[i].types :
    k < frames[i].at =>
      LET key == Key(Pointee(frames[i].types[k]))
      IN  IsStruct(key[1]) =>
            key \in keys \/ (i + 1 \in DOMAIN frames /\ key = Key(frames[i + 1].inst))

FollowInv ==
  /\ Closed(visited)
  /\ Grounded(visited)
  /\ Followed(expanding, visited)
  /\ phase \in {"constraints", "lowering", "done"} => AllDeclared(visited)

(* What a step has to show of what it leaves. *)
LEMMA FollowNext ==
  ASSUME program' = program, Closed(visited'), Grounded(visited'),
         Followed(expanding', visited'),
         phase' \in {"constraints", "lowering", "done"} => AllDeclared(visited')
  PROVE  FollowInv'
<1>1. \A inst : Inside(inst)' = Inside(inst)
  BY TypesStatic DEF Inside
<1>2. Types' = Types /\ \A name : IsStruct(name)' = IsStruct(name)
  BY Static, TypesStatic
<1>3. \A name : Declared(name)' = Declared(name)
  BY DEF Declared, IsGeneric, IsItem, Item
<1>4. Closed(visited)'
  BY <1>1, <1>2 DEF Closed
<1>5. Grounded(visited)'
  BY <1>1 DEF Grounded
<1>6. Followed(expanding, visited)'
  BY <1>2 DEF Followed
<1>7. AllDeclared(visited') => AllDeclared(visited)'
  BY <1>2, <1>3 DEF AllDeclared
<1> QED
  BY <1>4, <1>5, <1>6, <1>7 DEF FollowInv

(* A step that changes no register of the expansion. *)
LEMMA FollowUnchanged ==
  ASSUME FollowInv, program' = program, UNCHANGED typeVars,
         phase' \in {"constraints", "lowering", "done"} =>
           phase \in {"constraints", "lowering", "done"}
  PROVE  FollowInv'
<1>1. expanding' = expanding /\ visited' = visited
  BY DEF typeVars
<1> QED
  BY <1>1, FollowNext DEF FollowInv

(* One more instance whose inside was expanded to the end. *)
LEMMA GroundMore ==
  ASSUME program \in Programs, NEW keys, Closed(keys), Grounded(keys),
         NEW inst \in Types, IsStruct(inst[1]), Inside(inst) \subseteq keys
  PROVE  Closed(keys \union {Key(inst)}) /\ Grounded(keys \union {Key(inst)})
<1> DEFINE key == Key(inst)
           more == keys \union {key}
<1>1. IsItem(inst[1])
  BY DEF IsStruct
<1>2. key \in Types /\ Key(key) = key /\ IsStruct(key[1]) /\ Inside(key) \subseteq keys
  <2>1. inst \in Seq(Names)
    BY DEF Types
  <2> QED
    BY <1>1, <2>1, KeyType, KeyOfKey, KeyStruct, InsideOfKey
<1> HIDE DEF key
<1>3. Closed(more)
  BY <1>2 DEF Closed
<1>4. ASSUME NEW some \in SUBSET more, some # {}
      PROVE  \E k \in some : Inside(k) \intersect some = {}
  <2>1. CASE some \intersect keys = {}
    <3>1. some = {key} /\ key \notin keys
      BY <1>4, <2>1
    <3>2. Inside(key) \intersect some = {}
      BY <1>2, <3>1
    <3> QED
      BY <3>1, <3>2
  <2>2. CASE some \intersect keys # {} /\ key \notin keys
    <3> DEFINE old == some \intersect keys
    <3>1. old \in SUBSET keys /\ old # {}
      BY <2>2
    <3>2. PICK k \in old : Inside(k) \intersect old = {}
      BY <3>1 DEF Grounded
    <3>3. k \in some /\ k \in keys
      BY <3>2
    <3>4. Inside(k) \subseteq keys
      BY <3>3 DEF Closed
    <3>5. Inside(k) \intersect some = {}
      BY <3>2, <3>4
    <3> QED
      BY <3>3, <3>5
  <2>3. CASE key \in keys
    <3>1. some \in SUBSET keys
      BY <2>3
    <3> QED
      BY <1>4, <3>1 DEF Grounded
  <2> QED
    BY <2>1, <2>2, <2>3
<1>5. Grounded(more)
  BY <1>4 DEF Grounded
<1> QED
  BY <1>3, <1>5 DEF key

(* The innermost frame, moved on to its next field. *)
LEMMA AdvancedShape ==
  ASSUME Stack
  PROVE  /\ Len(expanding) \in Nat \ {0} /\ DOMAIN expanding = 1..Len(expanding)
         /\ Advanced \in Seq(TypeFrames) /\ Len(Advanced) = Len(expanding)
         /\ DOMAIN Advanced = 1..Len(expanding)
         /\ Innermost = expanding[Len(expanding)]
         /\ Innermost \in TypeFrames
         /\ \A i \in 1..Len(expanding) :
              /\ Advanced[i].inst = expanding[i].inst
              /\ Advanced[i].types = expanding[i].types
              /\ i # Len(expanding) => Advanced[i].at = expanding[i].at
         /\ Advanced[Len(expanding)].at = Innermost.at + 1
<1>1. expanding \in Seq(TypeFrames) /\ expanding # <<>>
  BY DEF Stack
<1>2. Len(expanding) \in Nat \ {0} /\ DOMAIN expanding = 1..Len(expanding)
      /\ expanding[Len(expanding)] \in TypeFrames
  BY <1>1
<1> DEFINE last == expanding[Len(expanding)]
           next == [last EXCEPT !.at = @ + 1]
<1>3. next \in TypeFrames /\ next.inst = last.inst /\ next.types = last.types
      /\ next.at = last.at + 1
  BY <1>2 DEF TypeFrames
<1>4. Advanced = [expanding EXCEPT ![Len(expanding)] = next]
  BY DEF Advanced
<1> HIDE DEF next
<1>5. Advanced \in Seq(TypeFrames) /\ Len(Advanced) = Len(expanding)
      /\ DOMAIN Advanced = 1..Len(expanding)
  BY <1>1, <1>2, <1>3, <1>4
<1>6. \A i \in 1..Len(expanding) : Advanced[i] = IF i = Len(expanding) THEN next ELSE expanding[i]
  BY <1>2, <1>4
<1>7. \A i \in 1..Len(expanding) :
         /\ Advanced[i].inst = expanding[i].inst
         /\ Advanced[i].types = expanding[i].types
         /\ i # Len(expanding) => Advanced[i].at = expanding[i].at
  BY <1>3, <1>6
<1>8. Len(expanding) \in 1..Len(expanding)
  BY <1>2
<1>9. Advanced[Len(expanding)].at = last.at + 1
  BY <1>3, <1>6, <1>8
<1> QED
  BY <1>2, <1>5, <1>7, <1>9 DEF Innermost

(* Passing over a field that needs no expansion. *)
LEMMA FollowPassOver ==
  ASSUME program \in Programs, Stack, FollowInv, PassOver
  PROVE  FollowInv'
<1> DEFINE n == Len(expanding)
<1>1. /\ program' = program /\ phase' = phase /\ phase = "types" /\ visited' = visited
      /\ expanding' = Advanced /\ HasNextType
      /\ ~IsStruct(NextType[1]) \/ Key(NextType) \in visited
  BY DEF PassOver
<1>2. /\ n \in Nat \ {0} /\ DOMAIN expanding = 1..n /\ DOMAIN expanding' = 1..n
      /\ Innermost = expanding[n]
      /\ \A i \in 1..n : /\ expanding'[i].inst = expanding[i].inst
                         /\ expanding'[i].types = expanding[i].types
                         /\ i # n => expanding'[i].at = expanding[i].at
      /\ expanding'[n].at = Innermost.at + 1
      /\ Innermost \in TypeFrames
  BY <1>1, AdvancedShape
<1>3. NextType \in Types /\ NextType = Pointee(Innermost.types[Innermost.at])
  BY <1>1, NextTypeFacts DEF NextType
<1>4. IsStruct(Key(NextType)[1]) => Key(NextType) \in visited
  BY <1>1, <1>3, KeyStruct
<1>5. Innermost.at \in Nat /\ Innermost.types \in Seq(Types)
  BY <1>2 DEF TypeFrames
<1>6. \A k \in DOMAIN Innermost.types :
        k < Innermost.at + 1 => k < Innermost.at \/ k = Innermost.at
  BY <1>5
<1> HIDE DEF n
<1>7. Followed(expanding', visited')
  <2> SUFFICES ASSUME NEW i \in 1..n, NEW k \in DOMAIN expanding[i].types,
                      k < expanding'[i].at,
                      IsStruct(Key(Pointee(expanding[i].types[k]))[1])
               PROVE  \/ Key(Pointee(expanding[i].types[k])) \in visited
                      \/ /\ i + 1 \in 1..n
                         /\ Key(Pointee(expanding[i].types[k])) = Key(expanding[i + 1].inst)
    BY <1>1, <1>2 DEF Followed
  <2>1. CASE k < expanding[i].at
    BY <1>2, <2>1 DEF FollowInv, Followed
  <2>2. CASE ~(k < expanding[i].at)
    <3>1. i = n
      BY <1>2, <2>2
    <3>2. k = Innermost.at
      BY <1>2, <1>6, <2>2, <3>1
    <3> QED
      BY <1>2, <1>3, <1>4, <3>1, <3>2
  <2> QED
    BY <2>1, <2>2
<1> QED
  BY <1>1, <1>7, FollowNext DEF FollowInv

(* Entering the struct of a field. *)
LEMMA FollowExpand ==
  ASSUME program \in Programs, Stack, FollowInv, Expand
  PROVE  FollowInv'
<1> DEFINE n == Len(expanding)
           type == NextType
<1>1. /\ program' = program /\ phase' = phase /\ phase = "types" /\ visited' = visited
      /\ expanding' = Append(Advanced, Expansion(type)) /\ HasNextType
      /\ IsStruct(type[1])
  BY DEF Expand, MustExpand
<1>2. /\ n \in Nat \ {0} /\ DOMAIN expanding = 1..n
      /\ Advanced \in Seq(TypeFrames) /\ Len(Advanced) = n
      /\ Innermost = expanding[n]
      /\ \A i \in 1..n : /\ Advanced[i].inst = expanding[i].inst
                         /\ Advanced[i].types = expanding[i].types
                         /\ i # n => Advanced[i].at = expanding[i].at
      /\ Advanced[n].at = Innermost.at + 1
      /\ Innermost \in TypeFrames
  BY AdvancedShape
<1>3. type \in Types /\ type = Pointee(Innermost.types[Innermost.at])
  BY <1>1, NextTypeFacts DEF NextType
<1> HIDE DEF type
<1>4. Expansion(type) \in TypeFrames /\ Expansion(type).inst = type /\ Expansion(type).at = 1
  <2>1. IsItem(type[1])
    BY <1>1 DEF IsStruct
  <2>2. FieldTypes(type) \in Seq(Types)
    BY <1>3, <2>1, FieldTypesType
  <2>3. type \in Seq(Names)
    BY <1>3 DEF Types
  <2> QED
    BY <2>2, <2>3 DEF Expansion, TypeFrames
<1> HIDE DEF n
<1>5. /\ Len(expanding') = n + 1 /\ expanding' \in Seq(TypeFrames)
      /\ DOMAIN expanding' = 1..(n + 1)
      /\ \A i \in 1..n : expanding'[i] = Advanced[i]
      /\ expanding'[n + 1] = Expansion(type)
  <2>1. Len(expanding') = n + 1 /\ expanding' \in Seq(TypeFrames)
        /\ \A i \in 1..n : expanding'[i] = Advanced[i]
        /\ expanding'[n + 1] = Expansion(type)
    BY <1>1, <1>2, <1>4, AppendProperties
  <2> QED
    BY <1>2, <2>1
<1>6. Innermost.at \in Nat /\ Innermost.types \in Seq(Types)
  BY <1>2 DEF TypeFrames
<1>7. \A k \in DOMAIN Innermost.types :
        k < Innermost.at + 1 => k < Innermost.at \/ k = Innermost.at
  BY <1>6
<1>8. n + 1 \in 1..(n + 1) /\ \A i \in 1..(n + 1) : i = n + 1 \/ i \in 1..n
  BY <1>2
<1>9. Followed(expanding', visited')
  <2> SUFFICES ASSUME NEW i \in 1..(n + 1), NEW k \in DOMAIN expanding'[i].types,
                      k < expanding'[i].at,
                      IsStruct(Key(Pointee(expanding'[i].types[k]))[1])
               PROVE  \/ Key(Pointee(expanding'[i].types[k])) \in visited
                      \/ /\ i + 1 \in 1..(n + 1)
                         /\ Key(Pointee(expanding'[i].types[k])) = Key(expanding'[i + 1].inst)
    BY <1>1, <1>5 DEF Followed
  <2>1. CASE i = n + 1
    <3>1. expanding'[n + 1].types \in Seq(Types)
      BY <1>4, <1>5 DEF TypeFrames
    <3>2. k \in Nat \ {0}
      BY <2>1, <3>1
    <3> QED
      BY <1>4, <1>5, <2>1, <3>2
  <2>2. CASE i \in 1..n
    <3>1. /\ expanding'[i].types = expanding[i].types /\ k \in DOMAIN expanding[i].types
          /\ expanding'[i].at = Advanced[i].at /\ i \in DOMAIN expanding
      BY <1>2, <1>5, <2>2
    <3>2. CASE k < expanding[i].at
      <4>1. \/ Key(Pointee(expanding[i].types[k])) \in visited
            \/ /\ i + 1 \in 1..n
               /\ Key(Pointee(expanding[i].types[k])) = Key(expanding[i + 1].inst)
        BY <1>2, <3>1, <3>2 DEF FollowInv, Followed
      <4>2. i + 1 \in 1..n => i + 1 \in 1..(n + 1) /\ expanding'[i + 1].inst = expanding[i + 1].inst
        BY <1>2, <1>5
      <4> QED
        BY <3>1, <4>1, <4>2
    <3>3. CASE ~(k < expanding[i].at)
      <4>1. i = n
        BY <1>2, <3>1, <3>3
      <4>2. k = Innermost.at
        BY <1>2, <1>7, <3>1, <3>3, <4>1
      <4> QED
        BY <1>2, <1>3, <1>4, <1>5, <1>8, <3>1, <4>1, <4>2
    <3> QED
      BY <3>2, <3>3
  <2> QED
    BY <1>8, <2>1, <2>2
<1> QED
  BY <1>1, <1>9, FollowNext DEF FollowInv

(* All that is in the innermost struct was followed. *)
LEMMA InnermostFollowed ==
  ASSUME program \in Programs, Stack, FollowInv, ~HasNextType
  PROVE  Inside(Innermost.inst) \subseteq visited
<1> DEFINE n == Len(expanding)
<1>1. /\ n \in Nat \ {0} /\ DOMAIN expanding = 1..n /\ Innermost = expanding[n]
      /\ Innermost \in TypeFrames
  BY AdvancedShape
<1>2. /\ Innermost.types \in Seq(Types) /\ Innermost.types = FieldTypes(Innermost.inst)
      /\ Innermost.at \in Nat \ {0}
  BY <1>1 DEF TypeFrames
<1>3. \A k \in DOMAIN Innermost.types : k < Innermost.at
  BY <1>2 DEF HasNextType
<1>4. Innermost.inst = <<>> \/ (Innermost.inst \in Types /\ IsItem(Innermost.inst[1]))
  <2>1. n = 1 \/ n \in 2..n
    BY <1>1
  <2> QED
    BY <1>1, <2>1 DEF Stack, IsStruct
<1>5. n + 1 \notin DOMAIN expanding /\ n \in DOMAIN expanding
  BY <1>1
<1> HIDE DEF n
<1>6. ASSUME NEW key \in Inside(Innermost.inst) PROVE key \in visited
  <2>1. PICK k \in DOMAIN Innermost.types :
          key = Key(Pointee(Innermost.types[k])) /\ IsStruct(key[1])
    BY <1>2, <1>4, InsideFields
  <2> QED
    BY <1>1, <1>3, <1>5, <2>1 DEF FollowInv, Followed
<1> QED
  BY <1>6

(* A struct all of whose fields were followed is done with. *)
LEMMA FollowExpanded ==
  ASSUME program \in Programs, Stack, FollowInv, Expanded
  PROVE  FollowInv'
<1> DEFINE n == Len(expanding)
           key == Key(Innermost.inst)
<1>1. /\ program' = program /\ phase' = phase /\ phase = "types" /\ ~HasNextType /\ n > 1
      /\ expanding' = SubSeq(expanding, 1, n - 1)
      /\ visited' = visited \union {key}
  BY DEF Expanded
<1>2. Innermost.inst \in Types /\ IsStruct(Innermost.inst[1])
  BY ExpandedStack
<1>3. Closed(visited') /\ Grounded(visited')
  BY <1>1, <1>2, InnermostFollowed, GroundMore DEF FollowInv
<1>4. /\ n \in Nat \ {0} /\ DOMAIN expanding = 1..n /\ Innermost = expanding[n]
  BY AdvancedShape
<1>5. DOMAIN expanding' = 1..(n - 1) /\ \A i \in 1..(n - 1) : expanding'[i] = expanding[i]
  <2>1. expanding \in Seq(TypeFrames)
    BY DEF Stack
  <2>2. n - 1 - 1 + 1 = n - 1 /\ n - 1 \in Nat /\ \A i \in 1..(n - 1) : i \in 1..n
    BY <1>1, <1>4
  <2>3. \A i \in 1..(n - 1) : expanding[i] \in TypeFrames
    BY <2>1, <2>2
  <2>4. expanding' \in Seq(TypeFrames) /\ Len(expanding') = n - 1
        /\ \A i \in 1..(n - 1) : expanding'[i] = expanding[i]
    BY <1>1, <2>1, <2>2, <2>3, SubSeqProperties
  <2> QED
    BY <2>2, <2>4
<1> HIDE DEF n, key
<1>6. \A i \in 1..(n - 1) : i \in 1..n /\ (i + 1 \in 1..n => i + 1 = n \/ i + 1 \in 1..(n - 1))
  BY <1>1, <1>4
<1>7. Followed(expanding', visited')
  <2> SUFFICES ASSUME NEW i \in 1..(n - 1), NEW k \in DOMAIN expanding[i].types,
                      k < expanding[i].at,
                      IsStruct(Key(Pointee(expanding[i].types[k]))[1])
               PROVE  \/ Key(Pointee(expanding[i].types[k])) \in visited'
                      \/ /\ i + 1 \in 1..(n - 1)
                         /\ Key(Pointee(expanding[i].types[k])) = Key(expanding'[i + 1].inst)
    BY <1>5 DEF Followed
  <2>1. \/ Key(Pointee(expanding[i].types[k])) \in visited
        \/ /\ i + 1 \in 1..n
           /\ Key(Pointee(expanding[i].types[k])) = Key(expanding[i + 1].inst)
    BY <1>4, <1>6 DEF FollowInv, Followed
  <2>2. CASE i + 1 = n /\ Key(Pointee(expanding[i].types[k])) = Key(expanding[i + 1].inst)
    BY <1>1, <1>4, <2>2 DEF key
  <2> QED
    BY <1>1, <1>5, <1>6, <2>1, <2>2
<1> QED
  BY <1>1, <1>3, <1>7, FollowNext

(* Chains of one name and of two. *)
LEMMA ShortChains ==
  ASSUME NEW a \in Names, NEW b \in Names
  PROVE  /\ <<a>> \in Seq(Names) /\ Len(<<a>>) = 1 /\ <<a>>[1] = a
         /\ <<a, b>> \in Seq(Names) /\ Len(<<a, b>>) = 2
         /\ <<a, b>>[1] = a /\ <<a, b>>[2] = b
OBVIOUS

(* The loop over the declarations has come to all of them. *)
LEMMA FollowChecked ==
  ASSUME program \in Programs, Stack, FollowInv, TypesChecked
  PROVE  FollowInv'
<1>1. /\ program' = program /\ expanding' = expanding /\ visited' = visited
      /\ ~HasNextType /\ Len(expanding) = 1
  BY DEF TypesChecked, typeVars
<1>2. Innermost.inst = <<>>
  BY <1>1 DEF Stack, Innermost
<1>3. Inside(<<>>) \subseteq visited
  BY <1>1, <1>2, InnermostFollowed
<1>4. ASSUME NEW name \in DOMAIN program.decl, IsStruct(name)
      PROVE  Declared(name) \in visited
  <2>1. IsProgram(program)
    BY ProgramAssumption
  <2>2. PICK k \in DOMAIN program.order : program.order[k] = name
    BY <2>1 DEF IsProgram
  <2>3. FieldTypes(<<>>) = [j \in DOMAIN program.order |-> Declared(program.order[j])]
    BY DEF FieldTypes
  <2>4. k \in DOMAIN FieldTypes(<<>>) /\ FieldTypes(<<>>)[k] = Declared(name)
    BY <2>2, <2>3
  <2>5. Pointee(Declared(name)) = Declared(name) /\ Key(Declared(name)) = Declared(name)
        /\ Declared(name)[1] = name
    <3> DEFINE d == Declared(name)
    <3>1. name \in Names /\ "T" \in Names /\ name # "&" /\ name # "runtime num"
      BY ProgramFacts DEF Names
    <3>2. d = <<name, "T">> \/ d = <<name>>
      BY DEF Declared
    <3>3. /\ d \in Seq(Names) /\ d[1] = name /\ Len(d) \in {1, 2}
          /\ \A i \in 1..Len(d) : d[i] # "runtime num"
      <4>1. CASE d = <<name, "T">>
        <5>0. /\ <<name, "T">> \in Seq(Names) /\ Len(<<name, "T">>) = 2
              /\ <<name, "T">>[1] = name /\ <<name, "T">>[2] = "T"
          BY <3>1, ShortChains
        <5>1. /\ d \in Seq(Names) /\ Len(d) = 2
              /\ d[1] = name /\ d[2] = "T"
          BY <4>1, <5>0
        <5>2. \A n : n = 2 => \A i \in 1..n : i = 1 \/ i = 2
          OBVIOUS
        <5> HIDE DEF d
        <5>3. \A i \in 1..Len(d) : i = 1 \/ i = 2
          BY <5>1, <5>2
        <5>4. \A i \in 1..Len(d) : d[i] = name \/ d[i] = "T"
          BY <5>1, <5>3
        <5>5. "T" # "runtime num" /\ Len(d) \in {1, 2}
          BY <5>1
        <5> QED
          BY <3>1, <5>1, <5>4, <5>5
      <4>2. CASE d = <<name>>
        <5>0. <<name>> \in Seq(Names) /\ Len(<<name>>) = 1 /\ <<name>>[1] = name
          BY <3>1, ShortChains
        <5>1. d \in Seq(Names) /\ Len(d) = 1 /\ d[1] = name
          BY <4>2, <5>0
        <5>2. \A n : n = 1 => \A i \in 1..n : i = 1
          OBVIOUS
        <5> HIDE DEF d
        <5>a. \A i \in 1..Len(d) : i = 1
          BY <5>1, <5>2
        <5>3. \A i \in 1..Len(d) : d[i] = name
          BY <5>1, <5>a
        <5>5. Len(d) \in {1, 2}
          BY <5>1
        <5> QED
          BY <3>1, <5>1, <5>3, <5>5
      <4> QED
        BY <3>2, <4>1, <4>2
    <3> HIDE DEF d
    <3>a. \A n \in {1, 2} : /\ 1 \in 1..n /\ n \in Nat /\ n - 1 + 1 = n
                           /\ \A i \in 1..n : 1 + i - 1 = i
      OBVIOUS
    <3>b. 1..(1 - 1) = {}
      OBVIOUS
    <3>4. 1 \in 1..Len(d) /\ 1..(1 - 1) = {}
      BY <3>3, <3>a, <3>b
    <3>5. StartsAt(d, 1)
      BY <3>1, <3>3, <3>4 DEF StartsAt
    <3>6. Pointee(d) = PartOf(d, 1)
      BY <3>3, <3>5, PointeeFrom
    <3>7. PartOf(d, 1) = d
      <4>1. /\ PartOf(d, 1) \in Seq(Names) /\ Len(PartOf(d, 1)) = Len(d) - 1 + 1
            /\ \A i \in 1..(Len(d) - 1 + 1) : PartOf(d, 1)[i] = d[1 + i - 1]
        BY <3>3, <3>4, PartShape
      <4>2. Len(d) \in Nat /\ Len(d) - 1 + 1 = Len(d) /\ \A i \in 1..Len(d) : 1 + i - 1 = i
        BY <3>3, <3>a
      <4>3. Len(PartOf(d, 1)) = Len(d) /\ \A i \in 1..Len(d) : PartOf(d, 1)[i] = d[i]
        BY <4>1, <4>2
      <4> QED
        BY <3>3, <4>1, <4>3, SameChain
    <3>8. Key(d) = d
      <4>1. /\ Key(d) \in Seq(Names) /\ Len(Key(d)) = Len(d)
            /\ \A i \in 1..Len(d) : Key(d)[i] = IF d[i] = "runtime num" THEN "num" ELSE d[i]
        BY <3>3, KeyShape
      <4> QED
        BY <3>3, <4>1, SameChain
    <3> QED
      BY <3>3, <3>6, <3>7, <3>8 DEF d
  <2>6. Declared(name) \in Inside(<<>>)
    BY <1>4, <2>4, <2>5, InsideFields
  <2> QED
    BY <1>3, <2>6
<1>5. AllDeclared(visited)
  BY <1>4 DEF AllDeclared
<1> QED
  BY <1>1, <1>5, FollowNext DEF FollowInv

(* Nothing is followed yet. *)
LEMMA FollowInitially ==
  Init => FollowInv
<1> SUFFICES ASSUME Init PROVE FollowInv
  OBVIOUS
<1>1. /\ program \in Programs /\ phase = "types" /\ visited = {}
      /\ expanding = <<Expansion(<<>>)>>
  BY DEF Init, TypeInit
<1>2. DOMAIN expanding = 1..1 /\ expanding[1] = Expansion(<<>>)
  BY <1>1
<1>3. FieldTypes(<<>>) \in Seq(Types)
  BY <1>1, FieldTypesType
<1>4. \A k \in DOMAIN FieldTypes(<<>>) : ~(k < 1)
  BY <1>3
<1>5. \A i \in 1..1 : i = 1
  OBVIOUS
<1>6. expanding[1].types = FieldTypes(<<>>) /\ expanding[1].at = 1
  BY <1>2 DEF Expansion
<1>7. Followed(expanding, visited)
  BY <1>2, <1>4, <1>5, <1>6 DEF Followed
<1> QED
  BY <1>1, <1>7 DEF FollowInv, Closed, Grounded

(* Every step keeps what was followed. *)
LEMMA FollowKept ==
  LowInv /\ TypeInv /\ FollowInv /\ [Next]_vars => FollowInv'
<1> SUFFICES ASSUME LowInv, TypeInv, FollowInv, [Next]_vars PROVE FollowInv'
  OBVIOUS
<1>0. program \in Programs /\ Stack
  BY DEF TypeInv
<1>1. CASE TypeNext
  <2>1. CASE RefuseCycle \/ RefuseExpansion
    <3>1. program' = program /\ UNCHANGED typeVars /\ phase' = "refused"
      BY <2>1 DEF RefuseCycle, RefuseExpansion, Refuse
    <3> QED
      BY <3>1, FollowUnchanged
  <2> QED
    BY <1>0, <1>1, <2>1, FollowPassOver, FollowExpand, FollowExpanded, FollowChecked
    DEF TypeNext
<1>2. CASE ConstraintNext /\ UNCHANGED <<typeVars, monoVars>>
  <2>1. program' = program /\ phase \in {"types", "constraints"}
    BY <1>2, EarlierOutcomes
  <2>2. phase = "constraints"
    BY <1>2 DEF ConstraintNext, SkipConstraint, Decide, Remembered, Unbounded, Evaluate, Met,
                Unmet, Continue, RefuseConstraint, NextItem, ConstraintsChecked, Enforce, Examine
  <2> QED
    BY <1>2, <2>1, <2>2, FollowUnchanged
<1>3. CASE MonoNext /\ UNCHANGED <<typeVars, constraintVars>>
  <2>1. program' = program /\ phase = "lowering"
    BY <1>3 DEF MonoNext, SkipItem, EmitItem, Keep, Reuse, RefuseInstantiation, Instantiate,
                Emit, Lowered, Ensure
  <2> QED
    BY <1>3, <2>1, FollowUnchanged
<1>4. CASE UNCHANGED vars
  BY <1>4, FollowUnchanged DEF vars
<1> QED
  BY <1>1, <1>2, <1>3, <1>4 DEF Next, Stopped

(* The emitted program has no struct that contains itself, under whatever   *)
(* arguments: the monomorphizer emits without a check of its own, and the   *)
(* expansion of the declarations, each once and its parameter opaque, is    *)
(* check enough.                                                            *)
THEOREM EmittedTypesEnd ==
  Spec => []EmittedTypesAreFinite
<1>1. LowInv /\ TypeInv /\ FollowInv => EmittedTypesAreFinite
  <2> SUFFICES ASSUME LowInv, TypeInv, FollowInv, phase = "done",
                      NEW left, left # {},
                      \A inst \in left : inst \in Occurs(emitted) /\ IsStruct(inst[1])
               PROVE  \E inst \in left :
                        {Key(type) : type \in Contains(inst)} \intersect left = {}
    BY DEF EmittedTypesAreFinite
  <2>1. emitted \in Seq(Instances)
    BY DEF LowInv, Inv
  <2>2. \A inst \in Occurs(emitted) : inst \in Instances
    BY <2>1 DEF Occurs
  <2>3. program \in Programs
    BY DEF TypeInv
  <2> QED
    BY <2>2, <2>3, NoneInsideItself DEF FollowInv, Inside
<1>2. Init => LowInv /\ TypeInv /\ FollowInv
  BY LowInitially, TypeInitially, FollowInitially
<1>3. LowInv /\ TypeInv /\ FollowInv /\ [Next]_vars => (LowInv /\ TypeInv /\ FollowInv)'
  BY LowInvKept, TypeInvKept, FollowKept
<1> QED
  BY <1>1, <1>2, <1>3, PTL DEF Spec
=============================================================================
