-------------------------------- MODULE Parser --------------------------------
(***************************************************************************)
(* cstc_parser: recursive descent over the tokens of one source, without   *)
(* error recovery.  Tokens arrive one at a time, and parse_tokens runs on  *)
(* every prefix.  Each parse_* function of the class is an operator from   *)
(* the position it starts at to what it returns; the stretches of consume, *)
(* match and nested calls inside a function are lists of steps that `Run'  *)
(* executes.  A token is its text; names are the members of Identifiers.   *)
(*                                                                         *)
(* Spans, display names and warnings are left out; a tree keeps the shape  *)
(* of the cstc_ast node, a qualifier of a type being a node around it.     *)
(***************************************************************************)
EXTENDS Naturals, Sequences, FiniteSets

CONSTANTS
    Contexts,    \* where tokens are read: what precedes and follows them
    Identifiers  \* the identifier tokens, "decl", "const" and "_" included

VARIABLES
    context,  \* the context chosen for this source
    tokens,   \* the tokens read, those before the context's hole included
    outcome   \* what parse_tokens returned for them, or Pending

vars == <<context, tokens, outcome>>

Keywords == {"struct", "enum", "fn", "let", "if", "else", "for", "while", "loop", "break",
             "continue", "return", "true", "false", "Unit", "num", "str", "bool", "extern",
             "runtime", "pub", "import", "from", "as", "where"}

ASSUME ContextsAssumption ==
    Contexts \subseteq [before : Seq(STRING), words : SUBSET STRING, after : Seq(STRING),
                        max : Nat]
ASSUME IdentifiersAssumption ==
    Identifiers \cap Keywords = {} /\ {"decl", "const", "_"} \subseteq Identifiers

EOF == "EOF"
End == Len(tokens) + Len(context.after) + 1

peek(i) ==
    CASE i <= Len(tokens) -> tokens[i]
      [] i > Len(tokens) /\ i < End -> context.after[i - Len(tokens)]
      [] OTHER -> EOF

IsName(i) == peek(i) \in Identifiers

-----------------------------------------------------------------------------
(***************************************************************************)
(* Results and steps                                                       *)
(***************************************************************************)

Node(n, c) == [n |-> n, c |-> c]
Leaf(n) == Node(n, <<>>)
Nothing == Leaf("none")

\* Parsed up to `at', or refused because of the token at `err'
Parsed(i, t) == [at |-> i, err |-> 0, tree |-> t]
Refused(i) == [at |-> 0, err |-> i, tree |-> Nothing]
Failed(r) == r.err # 0

Pending == Parsed(0, Nothing)

\* consume, consume_identifier, a call, `if (match(t)) { .. }', and the lists
\* separated by commas, with a trailing one allowed, that end before `close'
Token(t) == <<"token", t>>
Name == <<"name">>
Part(rule) == <<"part", rule>>
Maybe(t, steps) == <<"maybe", t, steps>>
List(elem, close, distinct) == <<"list", elem, close, distinct>>
ListOrNone(elem, close, distinct) == <<"listOrNone", elem, close, distinct>>

RECURSIVE Run(_, _, _), ListFrom(_, _, _), Continue(_, _, _), Suffixes(_), Statements(_, _),
          Attributes(_, _), Constraints(_, _), Items(_, _), parse_type(_, _), parse_unary(_),
          parse_if_expr(_), Parse(_, _)

Run(steps, i, done) ==
    IF steps = <<>> THEN Parsed(i, done)
    ELSE LET s == Head(steps)
             Go(r) == IF Failed(r) THEN r ELSE Run(Tail(steps), r.at, Append(done, r.tree))
         IN  CASE s[1] = "token" ->
                    IF peek(i) = s[2] THEN Run(Tail(steps), i + 1, done) ELSE Refused(i)
               [] s[1] = "name" ->
                    IF IsName(i) THEN Run(Tail(steps), i + 1, Append(done, Leaf(peek(i))))
                    ELSE Refused(i)
               [] s[1] = "part" -> Go(Parse(s[2], i))
               [] s[1] = "maybe" ->
                    IF peek(i) # s[2] THEN Go(Parsed(i, Nothing))
                    ELSE LET r == Run(s[3], i + 1, <<>>)
                         IN  IF Failed(r) THEN r ELSE Go([r EXCEPT !.tree = Node(s[2], @)])
               [] s[1] = "list" -> Go(ListFrom(s, i, <<>>))
               [] s[1] = "listOrNone" ->
                    IF peek(i) = s[3] THEN Go(Parsed(i, Leaf("list")))
                    ELSE Go(ListFrom(s, i, <<>>))

\* `seen' sets: a list of named things refuses a name it already has.
ListFrom(list, i, done) ==
    LET r == Parse(list[2], i)
        items == Append(done, r.tree)
        twice == list[4] /\ IsName(i) /\ \E k \in DOMAIN done : done[k].c[1] = Leaf(peek(i))
    IN  CASE twice -> Refused(i)
          [] ~twice /\ Failed(r) -> r
          [] ~twice /\ ~Failed(r) /\ peek(r.at) = "," /\ peek(r.at + 1) # list[3] ->
                ListFrom(list, r.at + 1, items)
          [] OTHER -> Parsed(IF peek(r.at) = "," THEN r.at + 1 ELSE r.at, Node("list", items))

\* A function that is one stretch of steps
Sequence(n, steps, i) ==
    LET r == Run(steps, i, <<>>) IN IF Failed(r) THEN r ELSE [r EXCEPT !.tree = Node(n, @)]

-----------------------------------------------------------------------------
(***************************************************************************)
(* Types                                                                   *)
(***************************************************************************)

parse_generic_param_list == <<Token("<"), List("generic parameter", ">", TRUE), Token(">")>>
parse_generic_argument_list == <<Token("<"), List("type argument", ">", FALSE), Token(">")>>

\* `runtime T' and `const T', which exclude each other and themselves
Qualified(q, i, inner, allow_ct) ==
    CASE q = "const" /\ ~allow_ct -> Refused(i)
      [] q = "runtime" /\ peek(i + 1) = "runtime" -> Refused(i + 1)
      [] OTHER -> IF Failed(inner) THEN inner
                  ELSE IF inner.tree.n = "const" \/ (q = "const" /\ inner.tree.n = "runtime")
                       THEN Refused(inner.at)
                       ELSE Parsed(inner.at, Node(q, <<inner.tree>>))

\* `!runtime T' is the deprecated spelling of `const T'.
parse_type(i, allow_ct) ==
    CASE peek(i) \in {"runtime", "const"} ->
            Qualified(peek(i), i, parse_type(i + 1, allow_ct), allow_ct)
      [] peek(i) = "!" /\ peek(i + 1) = "runtime" ->
            Qualified("const", i, parse_type(i + 2, allow_ct), allow_ct)
      [] peek(i) = "&" ->
            LET r == parse_type(i + 1, FALSE)
            IN  IF Failed(r) THEN r ELSE Parsed(r.at, Node("&", <<r.tree>>))
      [] \/ peek(i) \in {"Unit", "num", "str", "bool"}
         \/ peek(i) = "!" /\ peek(i + 1) # "runtime" -> Parsed(i + 1, Leaf(peek(i)))
      [] OTHER ->
            Sequence("named", <<Name>> \o (IF peek(i + 1) = "<" THEN parse_generic_argument_list
                                           ELSE <<>>), i)

-----------------------------------------------------------------------------
(***************************************************************************)
(* Expressions                                                             *)
(***************************************************************************)

\* (bug) operators of one level group to the right
Continue_Right(operand, ops, l) ==
    IF Failed(l) \/ peek(l.at) \notin ops THEN l
    ELSE LET r == Continue(operand, ops, Parse(operand, l.at + 1))
         IN  IF Failed(r) THEN r ELSE Parsed(r.at, Node(peek(l.at), <<l.tree, r.tree>>))

\* The loop of a binary level: operands of the next level, grouped to the left
Continue(operand, ops, l) ==
    IF Failed(l) \/ peek(l.at) \notin ops THEN l
    ELSE LET r == Parse(operand, l.at + 1)
         IN  IF Failed(r) THEN r
             ELSE Continue(operand, ops, Parsed(r.at, Node(peek(l.at), <<l.tree, r.tree>>)))

Binary(operand, ops, i) == Continue(operand, ops, Parse(operand, i))

parse_logical_or(i) == Binary("logical_and", {"||"}, i)
parse_logical_and(i) == Binary("equality", {"&&"}, i)
parse_equality(i) == Binary("relational", {"==", "!="}, i)
parse_relational(i) == Binary("additive", {"<", "<=", ">", ">="}, i)
parse_additive(i) == Binary("multiplicative", {"+", "-"}, i)
parse_multiplicative(i) == Binary("unary", {"*", "/", "%"}, i)

parse_unary(i) ==
    IF peek(i) \notin {"&", "!", "-"} THEN Parse("postfix", i)
    ELSE LET r == parse_unary(i + 1)
         IN  IF Failed(r) THEN r ELSE Parsed(r.at, Node(peek(i), <<r.tree>>))

is_postfixable(t) == t.n \in {"path", "init", "generic", "access", "call"}
looks_like_turbofish(i) == peek(i) = "::" /\ peek(i + 1) = "<"

\* `decl(e)' is its own node and takes exactly one argument.
IsDecl(t) == t = Node("path", <<Leaf("decl"), Nothing, Nothing>>)

Call(callee, r) ==
    LET args == r.tree[1].c
    IN  CASE ~IsDecl(callee) -> Parsed(r.at, Node("call", <<callee, r.tree[1]>>))
          [] IsDecl(callee) /\ Len(args) = 1 -> Parsed(r.at, Node("decl", args))
          [] OTHER -> Refused(r.at - 1)

Suffixes(e) ==
    LET i == e.at
        steps == CASE looks_like_turbofish(i) -> <<Token("::")>> \o parse_generic_argument_list
                   [] peek(i) = "." -> <<Token("."), Name>>
                   [] peek(i) = "(" -> <<Token("("), ListOrNone("expression", ")", FALSE), Token(")")>>
                   [] OTHER -> <<>>
        r == Run(steps, i, <<>>)
    IN  IF Failed(e) \/ ~is_postfixable(e.tree) \/ steps = <<>> THEN e
        ELSE IF Failed(r) THEN r
        ELSE CASE peek(i) = "::" -> Suffixes(Parsed(r.at, Node("generic", <<e.tree, r.tree[1]>>)))
               [] peek(i) = "."  -> Suffixes(Parsed(r.at, Node("access", <<e.tree, r.tree[1]>>)))
               [] peek(i) = "("  -> Suffixes(Call(e.tree, r))

parse_postfix(i) == Suffixes(Parse("primary", i))

is_optional_expr_terminator(t) == t \in {";", ",", ")", "}", EOF}

Jump(i) ==
    IF is_optional_expr_terminator(peek(i + 1)) THEN Parsed(i + 1, Node(peek(i), <<>>))
    ELSE Sequence(peek(i), <<Token(peek(i)), Part("expression")>>, i)

looks_like_struct_initializer(i) ==
    /\ peek(i) = "{"
    /\ peek(i + 1) = "}" \/ (IsName(i + 1) /\ peek(i + 2) = ":")

token_can_start_type(t) == t \in {"runtime", "&", "Unit", "num", "str", "bool", "!"} \cup Identifiers

\* Where the scan from a `<' stops: at the `>' that closes it, or at the first
\* token that no list of types has
RECURSIVE ScanEnd(_, _)
ScanEnd(i, depth) ==
    CASE peek(i) = "<" -> ScanEnd(i + 1, depth + 1)
      [] peek(i) = ">" /\ depth > 1 -> ScanEnd(i + 1, depth - 1)
      [] peek(i) = "," \/ token_can_start_type(peek(i)) -> ScanEnd(i + 1, depth)
      [] OTHER -> i

looks_like_generic_struct_initializer(i) ==
    /\ peek(i) = "<"
    /\ LET k == ScanEnd(i, 0) IN peek(k) = ">" /\ peek(k + 1) = "{"

\* A name: a variant, a struct initializer, or a plain path
NameExpression(i) ==
    LET g == IF looks_like_generic_struct_initializer(i + 1)
             THEN Sequence("list", parse_generic_argument_list, i + 1)
             ELSE Parsed(i + 1, Nothing)
        path == Leaf(peek(i))
        args == IF g.tree = Nothing THEN Nothing ELSE g.tree.c[1]
    IN  CASE Failed(g) -> g
          [] ~Failed(g) /\ peek(g.at) = "::" /\ peek(g.at + 1) # "<" ->
                IF IsName(g.at + 1)
                THEN Parsed(g.at + 2, Node("path", <<path, Leaf(peek(g.at + 1)), args>>))
                ELSE Refused(g.at + 1)
          [] ~Failed(g) /\ looks_like_struct_initializer(g.at) ->
                LET r == Run(<<Token("{"), ListOrNone("init field", "}", TRUE), Token("}")>>, g.at, <<>>)
                IN  IF Failed(r) THEN r ELSE Parsed(r.at, Node("init", <<path, args, r.tree[1]>>))
          [] OTHER -> Parsed(g.at, Node("path", <<path, Nothing, args>>))

Parenthesized(i) ==
    IF peek(i + 1) = ")" THEN Parsed(i + 2, Leaf("unit"))
    ELSE LET r == Run(<<Token("("), Part("expression"), Token(")")>>, i, <<>>)
         IN  IF Failed(r) THEN r ELSE [r EXCEPT !.tree = @[1]]

parse_primary(i) ==
    CASE peek(i) \in {"1", "\"s\"", "true", "false"} -> Parsed(i + 1, Leaf(peek(i)))
      [] peek(i) = "("        -> Parenthesized(i)
      [] peek(i) = "{"        -> Parse("block", i)
      [] peek(i) = "if"       -> parse_if_expr(i + 1)
      [] peek(i) = "loop"     -> Sequence("loop", <<Token("loop"), Part("block")>>, i)
      [] peek(i) = "while"    -> Sequence("while", <<Token("while"), Part("condition"), Part("block")>>, i)
      [] peek(i) = "for"      -> Parse("for", i)
      [] peek(i) \in {"break", "return"} -> Jump(i)
      [] peek(i) = "continue" -> Parsed(i + 1, Leaf("continue"))
      [] peek(i) = "runtime"  -> Sequence("runtime", <<Token("runtime"), Part("block")>>, i)
      [] IsName(i)            -> NameExpression(i)
      [] OTHER                -> Refused(i)

-----------------------------------------------------------------------------
(***************************************************************************)
(* Control flow and blocks                                                 *)
(***************************************************************************)

condition_starts_with_struct_init_ambiguity(i) ==
    IsName(i) /\ looks_like_struct_initializer(i + 1)

\* (bug) a condition is an expression like any other
parse_condition_expression_Plain(i) == Parse("expression", i)

\* Only a leading `name {' is read as the condition and its block.
parse_condition_expression(i) ==
    IF condition_starts_with_struct_init_ambiguity(i)
    THEN Parsed(i + 1, Node("path", <<Leaf(peek(i)), Nothing, Nothing>>))
    ELSE Parse("expression", i)

parse_if_expr(i) ==
    LET r == Run(<<Part("condition"), Part("block")>>, i, <<>>)
        other == IF peek(r.at + 1) = "if" THEN parse_if_expr(r.at + 2) ELSE Parse("block", r.at + 1)
    IN  CASE Failed(r) -> r
          [] ~Failed(r) /\ peek(r.at) # "else" -> Parsed(r.at, Node("if", r.tree))
          [] OTHER -> IF Failed(other) THEN other
                      ELSE Parsed(other.at, Node("if", Append(r.tree, other.tree)))

Unless(t, part, i) == IF peek(i) = t THEN Parsed(i, Nothing) ELSE Parse(part, i)

parse_for_expr(i) ==
    Sequence("for", <<Token("for"), Token("("), Part("for init"), Token(";"), Part("for condition"),
                      Token(";"), Part("for step"), Token(")"), Part("block")>>, i)

parse_let_stmt_no_semicolon(i) ==
    Sequence("let", <<Token("let"), Name, Maybe(":", <<Part("type")>>), Token("="),
                      Part("expression")>>, i)

is_semicolon_optional_stmt_expr(t) == t.n \in {"block", "if", "loop", "while", "for"}

parse_block_expr(i) == IF peek(i) = "{" THEN Statements(i + 1, <<>>) ELSE Refused(i)

Statements(i, done) ==
    LET l == Run(<<Part("let"), Token(";")>>, i, <<>>)
        e == Parse("expression", i)
    IN  CASE peek(i) = "}" -> Parsed(i + 1, Node("block", done))
          [] peek(i) = EOF -> Refused(i)
          [] peek(i) = "let" -> IF Failed(l) THEN l ELSE Statements(l.at, done \o l.tree)
          [] OTHER ->
                IF Failed(e) THEN e
                ELSE IF peek(e.at) = ";"
                THEN Statements(e.at + 1, Append(done, Node("stmt", <<e.tree>>)))
                ELSE IF is_semicolon_optional_stmt_expr(e.tree) /\ peek(e.at) # "}"
                THEN Statements(e.at, Append(done, Node("stmt", <<e.tree>>)))
                ELSE IF peek(e.at) # "}" THEN Refused(e.at)
                ELSE Parsed(e.at + 1, Node("block", Append(done, Node("tail", <<e.tree>>))))

-----------------------------------------------------------------------------
(***************************************************************************)
(* Items                                                                   *)
(***************************************************************************)

Generics(i) == IF peek(i) = "<" THEN parse_generic_param_list ELSE <<>>

\* Each constraint is read like a condition: the body may follow it.
Constraints(i, done) ==
    LET r == parse_condition_expression(i)
    IN  CASE peek(i) \in {"{", ";"} -> Refused(i)
          [] peek(i) \notin {"{", ";"} /\ Failed(r) -> r
          [] OTHER -> IF peek(r.at) = "," THEN Constraints(r.at + 1, Append(done, r.tree))
                      ELSE Parsed(r.at, Node("where", Append(done, r.tree)))

parse_where_clause(i) == IF peek(i) = "where" THEN Constraints(i + 1, <<>>) ELSE Parsed(i, Nothing)

\* A field's type may not ask for a compile-time value, nor may a result.
TypeWithoutConst(i) ==
    LET r == parse_type(i, TRUE) IN IF ~Failed(r) /\ r.tree.n = "const" THEN Refused(r.at - 1) ELSE r

parse_struct_decl(i) ==
    LET head == Run(<<Token("struct"), Name>> \o Generics(i + 2) \o <<Part("where")>>, i, <<>>)
        body == Run(<<Token("{"), ListOrNone("field", "}", TRUE), Token("}")>>, head.at, <<>>)
    IN  IF Failed(head) THEN head
        ELSE IF peek(head.at) = ";" THEN Parsed(head.at + 1, Node("struct", head.tree))
        ELSE IF Failed(body) THEN body
        ELSE Parsed(body.at, Node("struct", head.tree \o body.tree))

parse_enum_decl(i) ==
    Sequence("enum", <<Token("enum"), Name>> \o Generics(i + 2)
                     \o <<Part("where"), Token("{"), ListOrNone("variant", "}", TRUE), Token("}")>>, i)

Signature ==
    <<Token("("), ListOrNone("parameter", ")", TRUE), Token(")"), Maybe("->", <<Part("plain type")>>)>>

parse_fn_decl(i) ==
    Sequence("fn", <<Token("fn"), Name>> \o Generics(i + 2) \o Signature
                   \o <<Part("where"), Part("block")>>, i)

parse_extern_fn_decl == <<Token("fn"), Name>> \o Signature \o <<Token(";")>>
parse_extern_struct_decl == <<Token("struct"), Name, Token(";")>>

parse_extern_decl(i, is_runtime) ==
    CASE peek(i + 1) # "\"s\"" -> Refused(i + 1)
      [] peek(i + 1) = "\"s\"" /\ peek(i + 2) = "fn" -> Sequence("extern fn", parse_extern_fn_decl, i + 2)
      [] peek(i + 1) = "\"s\"" /\ peek(i + 2) = "struct" /\ ~is_runtime ->
            Sequence("extern struct", parse_extern_struct_decl, i + 2)
      [] OTHER -> Refused(i + 2)

parse_import_decl(i) ==
    Sequence("import", <<Token("import"), Token("{"), ListOrNone("import item", "}", FALSE), Token("}"),
                         Token("from"), Token("\"s\""), Token(";")>>, i)

parse_attribute(i) ==
    Sequence("attribute", <<Token("["), Token("["), Name, Maybe("=", <<Token("\"s\"")>>),
                            Token("]"), Token("]")>>, i)

Attributes(i, done) ==
    LET r == Parse("attribute", i)
    IN  IF peek(i) # "[" \/ peek(i + 1) # "[" THEN Parsed(i, done)
        ELSE IF Failed(r) THEN r ELSE Attributes(r.at, Append(done, r.tree))

\* A declaration after its attributes and modifiers
Declaration(i, is_runtime, attributed) ==
    CASE is_runtime /\ peek(i) \notin {"fn", "extern"} -> Refused(i)
      [] ~is_runtime /\ peek(i) = "struct" -> parse_struct_decl(i)
      [] ~is_runtime /\ peek(i) = "enum" -> parse_enum_decl(i)
      [] peek(i) = "fn" -> parse_fn_decl(i)
      [] peek(i) = "extern" -> parse_extern_decl(i, is_runtime)
      [] ~is_runtime /\ peek(i) = "import" /\ ~attributed -> parse_import_decl(i)
      [] OTHER -> Refused(i)

\* One modifier, if it is the next token
Modifier(t, i) == IF peek(i) = t THEN Parsed(i + 1, Leaf(t)) ELSE Parsed(i, Nothing)

parse_item(i) ==
    LET attributes == Parse("attributes", i)
        is_pub == Modifier("pub", attributes.at)
        is_runtime == Modifier("runtime", is_pub.at)
        decl == Declaration(is_runtime.at, is_runtime.tree # Nothing, attributes.tree # <<>>)
    IN  IF Failed(attributes) THEN attributes
        ELSE IF Failed(decl) THEN decl
        ELSE Parsed(decl.at, Node("item", <<Node("attributes", attributes.tree), is_pub.tree,
                                            is_runtime.tree, decl.tree>>))

Items(i, done) ==
    LET r == Parse("item", i)
    IN  IF peek(i) = EOF THEN Parsed(i, Node("program", done))
        ELSE IF Failed(r) THEN r ELSE Items(r.at, Append(done, r.tree))

parse_program == Parse("program", 1)

Parse(rule, i) ==
    CASE rule = "program"           -> Items(i, <<>>)
      [] rule = "item"              -> parse_item(i)
      [] rule = "attributes"        -> Attributes(i, <<>>)
      [] rule = "attribute"         -> parse_attribute(i)
      [] rule = "expression"        -> parse_logical_or(i)
      [] rule = "logical_and"       -> parse_logical_and(i)
      [] rule = "equality"          -> parse_equality(i)
      [] rule = "relational"        -> parse_relational(i)
      [] rule = "additive"          -> parse_additive(i)
      [] rule = "multiplicative"    -> parse_multiplicative(i)
      [] rule = "unary"             -> parse_unary(i)
      [] rule = "postfix"           -> parse_postfix(i)
      [] rule = "primary"           -> parse_primary(i)
      [] rule = "condition"         -> parse_condition_expression(i)
      [] rule = "block"             -> parse_block_expr(i)
      [] rule = "let"               -> parse_let_stmt_no_semicolon(i)
      [] rule = "for"               -> parse_for_expr(i)
      [] rule = "for init"          -> Unless(";", IF peek(i) = "let" THEN "let" ELSE "expression", i)
      [] rule = "for condition"     -> Unless(";", "expression", i)
      [] rule = "for step"          -> Unless(")", "expression", i)
      [] rule = "type"              -> parse_type(i, TRUE)
      [] rule = "plain type"        -> TypeWithoutConst(i)
      [] rule = "type argument"     -> parse_type(i, FALSE)
      [] rule = "where"             -> parse_where_clause(i)
      [] rule = "generic parameter" -> Sequence("parameter", <<Name>>, i)
      [] rule = "parameter"         -> Sequence("parameter", <<Name, Token(":"), Part("type")>>, i)
      [] rule = "field"             -> Sequence("field", <<Name, Token(":"), Part("plain type")>>, i)
      [] rule = "init field"        -> Sequence("field", <<Name, Token(":"), Part("expression")>>, i)
      [] rule = "variant"           -> Sequence("variant", <<Name, Maybe("=", <<Token("1")>>)>>, i)
      [] rule = "import item"       -> Sequence("import", <<Name, Maybe("as", <<Name>>)>>, i)

-----------------------------------------------------------------------------
Init ==
    /\ context \in Contexts
    /\ tokens = context.before
    /\ outcome = Pending

parse_tokens ==
    /\ outcome = Pending
    /\ outcome' = parse_program
    /\ UNCHANGED <<context, tokens>>

LookAhead == 2

\* Whether what has been read leaves open how a scan before the error ends
ScanOpen ==
    \E i \in 2 .. outcome.err :
        /\ i <= Len(tokens) /\ tokens[i] = "<" /\ IsName(i - 1)
        /\ LET k == ScanEnd(i, 0) IN k > Len(tokens) \/ (k = Len(tokens) /\ peek(k) = ">")

\* The next token of the source.  The parser looks LookAhead tokens past the one
\* it takes, and as far as the scan from a `<' goes: a source refused without
\* having looked at its end stays refused, and only the others grow.
Read ==
    /\ outcome # Pending
    /\ Len(tokens) < Len(context.before) + context.max
    /\ ~Failed(outcome) \/ outcome.err + LookAhead > Len(tokens) \/ ScanOpen
    /\ \E t \in context.words : tokens' = Append(tokens, t)
    /\ outcome' = Pending
    /\ UNCHANGED context

Next == parse_tokens \/ Read

Spec == Init /\ [][Next]_vars

=============================================================================
