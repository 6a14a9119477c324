--------------------------- MODULE MCInstantiation ---------------------------
(* Small programs for TLC, in families that each exercise one of the passes *)
(* and end in the others.                                                   *)
EXTENDS Instantiation

UpTo(n, S) == UNION {[1..k -> S] : k \in 0..n}

Struct(generic, fields, where) ==
  [kind |-> "struct", generic |-> generic, runtime |-> FALSE, fields |-> fields,
   uses |-> <<>>, where |-> where, value |-> TRUE]
Enum == [kind |-> "enum", generic |-> TRUE, runtime |-> FALSE, fields |-> <<>>,
         uses |-> <<>>, where |-> <<>>, value |-> TRUE]
RuntimeFn(generic, uses, where) ==
  [kind |-> "fn", generic |-> generic, runtime |-> TRUE, fields |-> <<>>,
   uses |-> uses, where |-> where, value |-> TRUE]
Predicate(where, value) ==
  [kind |-> "fn", generic |-> TRUE, runtime |-> FALSE, fields |-> <<>>,
   uses |-> <<>>, where |-> where, value |-> value]

Use(op, type) == [op |-> op, of |-> type]
Decl(type) == Constraint("decl", type, FALSE)
NotDecl(type) == Constraint("decl", type, TRUE)
Call(type) == Constraint("call", type, FALSE)

-----------------------------------------------------------------------------
(* Two structs, generic or not, whose fields may name each other. *)
GenericFields == UpTo(2, {<<"T">>, <<"A", "T">>, <<"&", "A", "A", "T">>, <<"B", "T">>,
                          <<"B", "B", "T">>, <<"B", "num">>})
PlainFields == UpTo(2, {<<"num">>, <<"B", "runtime num">>, <<"B", "A">>, <<"&", "A">>})
TypeMain == {RuntimeFn(FALSE, <<Use("type", t)>>, <<>>) :
               t \in {<<"B", "bool">>, <<"&", "B", "B", "num">>}}

TypePrograms ==
  {[order |-> <<"A", "B", "main">>,
    decl |-> [A |-> Struct(TRUE, a, <<>>), B |-> Struct(TRUE, b, <<>>), main |-> m]] :
      a \in GenericFields, b \in GenericFields, m \in TypeMain}
  \union
  {[order |-> <<"main", "B", "A">>,
    decl |-> [A |-> Struct(FALSE, a, <<>>), B |-> Struct(TRUE, b, <<>>), main |-> m]] :
      a \in PlainFields,
      b \in UpTo(2, {<<"T">>, <<"A">>, <<"B", "T">>, <<"&", "B", "A">>}), m \in TypeMain}

(* Structs nested deeper than the limit; what is declared first decides.    *)
Nested == [C |-> Struct(TRUE, <<<<"D", "T">>>>, <<>>),
           D |-> Struct(TRUE, <<<<"E", "T">>>>, <<>>),
           E |-> Struct(TRUE, <<<<"F", "T">>>>, <<>>),
           F |-> Struct(TRUE, <<<<"T">>>>, <<>>),
           main |-> RuntimeFn(FALSE, <<Use("type", <<"C", "num">>)>>, <<>>)]

NestedPrograms ==
  {[order |-> o, decl |-> Nested] :
     o \in {<<"C", "D", "E", "F", "main">>, <<"F", "E", "D", "C", "main">>,
            <<"D", "C", "F", "E", "main">>}}

-----------------------------------------------------------------------------
(* Two generic functions that call each other, a wrapper and an enum. *)
BodyUses == {Use("call", <<"f", "T">>), Use("call", <<"g", "T">>),
             Use("call", <<"g", "W", "T">>), Use("call", <<"f", "&", "W", "T">>),
             Use("type", <<"W", "E", "T">>), Use("variant", <<"E", "T">>),
             Use("probe", <<"g", "W", "T">>), Use("call", <<"g", "num">>)}
CallMain == {<<Use("call", <<"f", "num">>)>>,
             <<Use("call", <<"f", "num">>), Use("call", <<"f", "runtime num">>)>>,
             <<Use("call", <<"g", "W", "num">>), Use("call", <<"f", "bool">>)>>,
             <<Use("init", <<"W", "bool">>), Use("call", <<"f", "W", "bool">>)>>}

CallPrograms ==
  {[order |-> <<"main", "f", "g", "W", "E", "h">>,
    decl |-> [main |-> RuntimeFn(FALSE, m, <<>>),
              f |-> RuntimeFn(TRUE, fs, <<>>), g |-> RuntimeFn(TRUE, gs, <<>>),
              W |-> Struct(TRUE, <<<<"T">>>>, <<>>), E |-> Enum,
              h |-> RuntimeFn(FALSE, <<Use("call", <<"g", "bool">>)>>, <<>>)]] :
     m \in CallMain, fs \in UpTo(2, BodyUses), gs \in UpTo(1, BodyUses)}

-----------------------------------------------------------------------------
(* A generic struct and a generic predicate whose where clauses name each   *)
(* other.  No clause of a generic item names num or runtime num itself.     *)
ClauseOf == {Constraint("literal", <<>>, TRUE), Constraint("const num", <<"T">>, FALSE),
             Decl(<<"q", "T">>), NotDecl(<<"q", "T">>), Call(<<"q", "T">>),
             Decl(<<"P", "W", "T">>), NotDecl(<<"q", "W", "T">>), Call(<<"q", "W", "T">>),
             NotDecl(<<"r", "T">>), Call(<<"r", "T">>)}
ConstraintMain ==
  {RuntimeFn(FALSE, <<Use("init", <<"P", "num">>), Use("init", <<"P", "runtime num">>)>>, <<>>),
   RuntimeFn(FALSE, <<Use("init", <<"P", "bool">>), Use("call", <<"r", "W", "num">>)>>, <<>>),
   RuntimeFn(FALSE, <<Use("call", <<"r", "num">>), Use("type", <<"P", "bool">>)>>,
             <<Decl(<<"q", "num">>), Call(<<"q", "num">>)>>)}

ConstraintPrograms ==
  {[order |-> <<"q", "P", "W", "r", "main">>,
    decl |-> [q |-> Predicate(qs, value), P |-> Struct(TRUE, <<>>, ps),
              W |-> Struct(TRUE, <<<<"T">>>>, <<>>),
              r |-> RuntimeFn(TRUE, <<Use("init", <<"P", "T">>)>>,
                              <<NotDecl(<<"P", "T">>)>>),
              main |-> m]] :
     qs \in UpTo(1, ClauseOf), ps \in UpTo(2, ClauseOf), m \in ConstraintMain,
     value \in BOOLEAN}

MCPrograms == TypePrograms \union NestedPrograms \union CallPrograms \union ConstraintPrograms

(* What the theorems about the constraint evaluator suppose. *)
ASSUME UnmixedAssumption == \A p \in MCPrograms : Unmixed(p)
=============================================================================
