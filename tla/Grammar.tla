-------------------------------- MODULE Grammar --------------------------------
(***************************************************************************)
(* The grammar of docs/language/syntax.md, sections 3 and 4, as the sets   *)
(* of trees it derives for a stretch of tokens.  It is the reference the   *)
(* parser is compared with, and knows nothing of lookahead or order.  Of   *)
(* what the page leaves out it has `const' types, attributes, and          *)
(* statements that end with a block and need no `;'.                       *)
(***************************************************************************)
EXTENDS Parser

RECURSIVE Derive(_, _, _), Match(_, _, _), Lists(_, _, _), Grouped(_, _, _), Postfixed(_, _),
          Bodies(_, _), Programs(_, _), Types(_, _, _), Ifs(_, _), AttributeLists(_, _),
          WhereLists(_, _)

\* Trees for the whole of i..j with a first part up to k and a rest
Split(i, j, First(_), Rest(_)) ==
    UNION {IF Rest(k) = {} THEN {} ELSE {<<t>> \o c : t \in First(k), c \in Rest(k)} : k \in i - 1 .. j}

\* The children a production derives for the tokens i..j
Match(steps, i, j) ==
    IF steps = <<>> THEN IF i = j + 1 THEN {<<>>} ELSE {}
    ELSE LET s == Head(steps)
             rest == Tail(steps)
             After(k) == Match(rest, k + 1, j)
         IN  CASE s[1] = "token" -> IF i <= j /\ peek(i) = s[2] THEN Match(rest, i + 1, j) ELSE {}
               [] s[1] = "name" ->
                    IF i <= j /\ IsName(i) THEN {<<Leaf(peek(i))>> \o c : c \in Match(rest, i + 1, j)}
                    ELSE {}
               [] s[1] = "part" -> Split(i, j, LAMBDA k : Derive(s[2], i, k), After)
               [] s[1] = "maybe" ->
                    {<<Nothing>> \o c : c \in Match(rest, i, j)} \cup
                    IF i > j \/ peek(i) # s[2] THEN {}
                    ELSE Split(i, j, LAMBDA k : {Node(s[2], c) : c \in Match(s[3], i + 1, k)}, After)
               [] s[1] = "list" ->
                    Split(i, j, LAMBDA k : {Node("list", c) : c \in Lists(s, i, k)}, After)
               [] s[1] = "listOrNone" ->
                    Split(i, j, LAMBDA k : {Node("list", c) : c \in Lists(s, i, k)}
                                           \cup (IF k = i - 1 THEN {Leaf("list")} ELSE {}), After)

\* Section 5: no duplicate fields of a struct, variants, or parameters of a function
Distinct(s, c) == s[4] => \A k, l \in DOMAIN c : c[k].c[1] = c[l].c[1] => k = l

Lists(s, i, j) ==
    LET one(k) == {<<t>> : t \in Derive(s[2], i, k)}
        more(k) == IF peek(k) # "," THEN {}
                   ELSE {t \o c : t \in one(k - 1), c \in Lists(s, k + 1, j)}
    IN  IF i > j THEN {}
        ELSE {c \in one(j) \cup (IF peek(j) = "," THEN one(j - 1) ELSE {})
                    \cup UNION {more(k) : k \in i + 1 .. j - 1} : Distinct(s, c)}

Produce(n, steps, i, j) == {Node(n, c) : c \in Match(steps, i, j)}

-----------------------------------------------------------------------------
\* "From highest to lowest", each level grouping to the left
Levels == <<{"||"}, {"&&"}, {"==", "!="}, {"<", "<=", ">", ">="}, {"+", "-"}, {"*", "/", "%"}>>

Grouped(level, i, j) ==
    IF i > j THEN {}
    ELSE IF level > Len(Levels)
    THEN IF peek(i) \in {"&", "!", "-"} THEN {Node(peek(i), <<t>>) : t \in Grouped(level, i + 1, j)}
         ELSE Postfixed(i, j)
    ELSE Grouped(level + 1, i, j) \cup
         UNION {{Node(peek(k), <<l, r>>) : l \in Grouped(level, i, k - 1),
                                           r \in Grouped(level + 1, k + 1, j)} :
                k \in {n \in i + 1 .. j - 1 : peek(n) \in Levels[level]}}

TypeArguments == <<Token("<"), List("type argument", ">", FALSE), Token(">")>>
Arguments == <<Token("("), ListOrNone("expression", ")", FALSE), Token(")")>>

\* "decl(expr) is not an ordinary function call" but a form with one argument.
Suffix(n, e, c) ==
    IF n = "call" /\ IsDecl(e) THEN IF Len(c.c) = 1 THEN {Node("decl", c.c)} ELSE {}
    ELSE {Node(n, <<e, c>>)}

Postfixed(i, j) ==
    LET With(n, k, steps) ==
            UNION {UNION {Suffix(n, e, c[1]) : c \in Match(steps, k, j)} : e \in Postfixed(i, k - 1)}
    IN  Derive("primary", i, j)
        \cup UNION {CASE peek(k) = "." -> With("access", k, <<Token("."), Name>>)
                      [] peek(k) = "(" -> With("call", k, Arguments)
                      [] peek(k) = "::" /\ peek(k + 1) = "<" ->
                            With("generic", k, <<Token("::")>> \o TypeArguments)
                      [] OTHER -> {} : k \in i + 1 .. j}

\* A name, a variant, or an initializer with or without type arguments
Named(i, j) ==
    (IF i = j THEN {Node("path", <<Leaf(peek(i)), Nothing, Nothing>>)} ELSE {})
    \cup {Node("path", <<c[1], c[2], Nothing>>) : c \in Match(<<Name, Token("::"), Name>>, i, j)}
    \cup LET fields == <<Token("{"), ListOrNone("init field", "}", FALSE), Token("}")>>
         IN  {Node("init", <<c[1], Nothing, c[2]>>) : c \in Match(<<Name>> \o fields, i, j)}
             \cup Produce("init", <<Name>> \o TypeArguments \o fields, i, j)

Ifs(i, j) ==
    LET head == <<Token("if"), Part("expression"), Part("block")>>
    IN  Produce("if", head, i, j)
        \cup Produce("if", head \o <<Token("else"), Part("block")>>, i, j)
        \cup Produce("if", head \o <<Token("else"), Part("if")>>, i, j)

Primary(i, j) ==
    CASE peek(i) \in {"1", "\"s\"", "true", "false"} -> IF i = j THEN {Leaf(peek(i))} ELSE {}
      [] peek(i) = "(" -> IF peek(j) # ")" THEN {}
                          ELSE IF j = i + 1 THEN {Leaf("unit")} ELSE Derive("expression", i + 1, j - 1)
      [] peek(i) = "{" -> Derive("block", i, j)
      [] peek(i) = "if" -> Ifs(i, j)
      [] peek(i) = "loop" -> Produce("loop", <<Token("loop"), Part("block")>>, i, j)
      [] peek(i) = "while" ->
            Produce("while", <<Token("while"), Part("expression"), Part("block")>>, i, j)
      [] peek(i) = "for" ->
            Produce("for", <<Token("for"), Token("("), Part("for init"), Token(";"),
                             Part("expression?"), Token(";"), Part("expression?"), Token(")"),
                             Part("block")>>, i, j)
      [] peek(i) \in {"break", "return"} ->
            IF i = j THEN {Leaf(peek(i))} ELSE Produce(peek(i), <<Token(peek(i)), Part("expression")>>, i, j)
      [] peek(i) = "continue" -> IF i = j THEN {Leaf("continue")} ELSE {}
      [] peek(i) = "runtime" -> Produce("runtime", <<Token("runtime"), Part("block")>>, i, j)
      [] IsName(i) -> Named(i, j)
      [] OTHER -> {}

\* Statements up to the end of a block.  Those that end with a block of their
\* own may do without `;'.
Bodies(i, j) ==
    {<<Node("tail", <<t>>)>> : t \in Derive("expression", i, j)}
    \cup (IF i > j THEN {<<>>} ELSE {})
    \cup UNION {LET whole == IF peek(k) = ";" THEN k - 1 ELSE k
                    stmt == IF peek(i) = "let"
                            THEN IF peek(k) = ";" THEN Derive("let", i, whole) ELSE {}
                            ELSE {Node("stmt", <<t>>) :
                                    t \in {e \in Derive("expression", i, whole) :
                                            \/ peek(k) = ";"
                                            \/ /\ e.n \in {"block", "if", "loop", "while", "for"}
                                               /\ k < j}}
                IN  {<<t>> \o c : t \in stmt, c \in Bodies(k + 1, j)} :
                k \in {n \in i .. j : peek(n) \in {";", "}", ")"}}}

-----------------------------------------------------------------------------
\* `const' is a qualifier that no other type holds, and no name of a type.
Types(mayAskConst, i, j) ==
    LET Asked(q, from) == {Node(q, <<t>>) : t \in Types(FALSE, from, j)}
    IN  IF i > j THEN {}
        ELSE CASE peek(i) = "runtime" -> Asked("runtime", i + 1)
               [] peek(i) = "const" -> IF mayAskConst THEN Asked("const", i + 1) ELSE {}
               [] peek(i) = "!" /\ i < j ->
                    IF peek(i + 1) = "runtime" /\ mayAskConst THEN Asked("const", i + 2) ELSE {}
               [] peek(i) = "&" -> {Node("&", <<t>>) : t \in Types(FALSE, i + 1, j)}
               [] peek(i) \in {"Unit", "num", "str", "bool", "!"} /\ i = j -> {Leaf(peek(i))}
               [] IsName(i) /\ peek(i) # "const" ->
                    IF i = j THEN {Node("named", <<Leaf(peek(i))>>)}
                    ELSE Produce("named", <<Name>> \o TypeArguments, i, j)
               [] OTHER -> {}

WhereLists(i, j) ==
    IF i > j THEN {}
    ELSE {<<t>> : t \in Derive("expression", i, j)}
         \cup UNION {{<<t>> \o c : t \in Derive("expression", i, k - 1), c \in WhereLists(k + 1, j)} :
                     k \in {n \in i .. j : peek(n) = ","}}

Where(i, j) ==
    IF i > j THEN {Nothing}
    ELSE IF peek(i) = "where" THEN {Node("where", c) : c \in WhereLists(i + 1, j)} ELSE {}

Parameters ==
    <<Token("("), ListOrNone("parameter", ")", TRUE), Token(")"), Maybe("->", <<Part("plain type")>>)>>

\* Declarations, with or without generic parameters
Declarations(i, j) ==
    LET Generic(n, head, rest) ==
            Produce(n, head \o rest, i, j)
            \cup Produce(n, head \o <<Token("<"), List("generic parameter", ">", FALSE), Token(">")>>
                              \o rest, i, j)
        Braces(elem) == <<Part("where"), Token("{"), ListOrNone(elem, "}", TRUE), Token("}")>>
        extern == <<Token("extern"), Token("\"s\"")>>
    IN  CASE peek(i) = "struct" ->
                Generic("struct", <<Token("struct"), Name>>, Braces("field"))
                \cup Generic("struct", <<Token("struct"), Name>>, <<Part("where"), Token(";")>>)
          [] peek(i) = "enum" -> Generic("enum", <<Token("enum"), Name>>, Braces("variant"))
          [] peek(i) = "fn" -> Generic("fn", <<Token("fn"), Name>>, Parameters \o <<Part("where"), Part("block")>>)
          [] peek(i) = "extern" ->
                Produce("extern struct", extern \o <<Token("struct"), Name, Token(";")>>, i, j)
                \cup Produce("extern fn", extern \o <<Token("fn"), Name>> \o Parameters \o <<Token(";")>>, i, j)
          [] peek(i) = "import" ->
                Produce("import", <<Token("import"), Token("{"), ListOrNone("import item", "}", FALSE),
                                    Token("}"), Token("from"), Token("\"s\""), Token(";")>>, i, j)
          [] OTHER -> {}

AttributeLists(i, j) ==
    IF i > j THEN {<<>>}
    ELSE UNION {{<<Node("attribute", c)>> \o rest :
                    c \in Match(<<Token("["), Token("["), Name, Maybe("=", <<Token("\"s\"")>>),
                                  Token("]"), Token("]")>>, i, k),
                    rest \in AttributeLists(k + 1, j)} : k \in i .. j}

\* Attributes on anything but an import, `runtime' on functions only
Item(i, j) ==
    UNION {LET pub == IF peek(k + 1) = "pub" THEN 1 ELSE 0
               run == IF peek(k + 1 + pub) = "runtime" THEN 1 ELSE 0
           IN  {Node("item", <<Node("attributes", a), IF pub = 1 THEN Leaf("pub") ELSE Nothing,
                               IF run = 1 THEN Leaf("runtime") ELSE Nothing, d>>) :
                    a \in {b \in AttributeLists(i, k) : b = <<>> \/ peek(k + 1 + pub) # "import"},
                    d \in {e \in Declarations(k + 1 + pub + run, j) :
                            run = 1 => e.n \in {"fn", "extern fn"}}} :
           k \in {n \in i - 1 .. j - 1 : n = i - 1 \/ peek(n) = "]"}}

Programs(i, j) ==
    IF i > j THEN {<<>>}
    ELSE UNION {{<<t>> \o c : t \in Item(i, k), c \in Programs(k + 1, j)} :
                k \in {n \in i .. j : peek(n) \in {";", "}"}}}

Derive(rule, i, j) ==
    CASE rule = "program"           -> {Node("program", c) : c \in Programs(i, j)}
      [] rule = "expression"        -> Grouped(1, i, j)
      [] rule = "expression?"       -> IF i > j THEN {Nothing} ELSE Grouped(1, i, j)
      [] rule = "primary"           -> Primary(i, j)
      [] rule = "if"                -> IF peek(i) = "if" THEN Ifs(i, j) ELSE {}
      [] rule = "block"             -> IF i < j /\ peek(i) = "{" /\ peek(j) = "}"
                                       THEN {Node("block", c) : c \in Bodies(i + 1, j - 1)} ELSE {}
      [] rule = "let"               -> Produce("let", <<Token("let"), Name, Maybe(":", <<Part("type")>>),
                                                        Token("="), Part("expression")>>, i, j)
      [] rule = "for init"          -> IF peek(i) = "let" THEN Derive("let", i, j)
                                       ELSE Derive("expression?", i, j)
      [] rule = "type"              -> Types(TRUE, i, j)
      [] rule \in {"plain type", "type argument"} -> Types(FALSE, i, j)
      [] rule = "where"             -> Where(i, j)
      [] rule = "generic parameter" -> Produce("parameter", <<Name>>, i, j)
      [] rule = "parameter"         -> Produce("parameter", <<Name, Token(":"), Part("type")>>, i, j)
      [] rule = "field"             -> Produce("field", <<Name, Token(":"), Part("plain type")>>, i, j)
      [] rule = "init field"        -> Produce("field", <<Name, Token(":"), Part("expression")>>, i, j)
      [] rule = "variant"           -> Produce("variant", <<Name, Maybe("=", <<Token("1")>>)>>, i, j)
      [] rule = "import item"       -> Produce("import", <<Name, Maybe("as", <<Name>>)>>, i, j)

Documented == Derive("program", 1, End - 1)

-----------------------------------------------------------------------------
(***************************************************************************)
(* Properties                                                              *)
(***************************************************************************)

\* What the page derives and the parser does not read.  First the structures:
\* a suffix follows a name, an initializer or another suffix; an expression
\* that follows a jump is its value, so a jump is no left operand and no
\* condition without one.  A condition does not start with an initializer, a
\* constraint with neither that nor a block, and in `a < b > { .. }' the block
\* looks like the fields of an initializer.  A type has one `runtime' or `const'
\* at most, and the names in generic parameters and initializers differ.
BinaryOperators == UNION {Levels[k] : k \in DOMAIN Levels}

RECURSIVE FirstOperand(_), LastOperand(_), Readable(_)
FirstOperand(t) ==
    IF (t.n \in BinaryOperators /\ Len(t.c) = 2) \/ t.n \in {"access", "call", "generic"}
    THEN FirstOperand(t.c[1]) ELSE t

LastOperand(t) ==
    IF t.n \in BinaryOperators \cup {"&", "!", "-"} THEN LastOperand(t.c[Len(t.c)]) ELSE t

EndsWithJump(t) == LastOperand(t).n \in {"break", "return"}
ReadableCondition(t) == ~EndsWithJump(t) /\ FirstOperand(t).n # "init"

Readable(t) ==
    /\ t.n \in {"access", "call", "generic"} =>
          t.c[1].n \in {"path", "init", "access", "call", "generic"}
    /\ t.n \in BinaryOperators /\ Len(t.c) = 2 => ~EndsWithJump(t.c[1])
    /\ t.n = ">" => FirstOperand(t.c[2]).n # "block"
    /\ t.n \in {"if", "while"} => ReadableCondition(t.c[1])
    /\ t.n = "where" => \A k \in DOMAIN t.c :
          ReadableCondition(t.c[k]) /\ FirstOperand(t.c[k]).n # "block"
    /\ t.n \in {"runtime", "const"} => \A k \in DOMAIN t.c : t.c[k].n # "runtime"
    /\ t.n = "list" => \A k, l \in DOMAIN t.c :
          k # l /\ t.c[k].n \in {"parameter", "field"} => t.c[k].c[1] # t.c[l].c[1]
    /\ \A k \in DOMAIN t.c : Readable(t.c[k])

NotReadable == \A t \in Documented : ~Readable(t)

\* Then, inside a condition, a name and the block after it that look like a
\* struct initializer; only the leading name is taken for the condition.
BlockLooksTaken ==
    \E k, m \in 1 .. End :
        /\ k < m /\ peek(k) \in {"if", "while", "where"}
        /\ IsName(m) /\ looks_like_struct_initializer(m + 1)
        /\ (m > k + 1 \/ peek(k) = "where")

Balanced ==
    \A pair \in {<<"(", ")">>, <<"{", "}">>} :
        Cardinality({k \in 1 .. End : peek(k) = pair[1]}) = Cardinality({k \in 1 .. End : peek(k) = pair[2]})

\* `a < b > { .. }' where no initializer follows after all: the name keeps the
\* type arguments, a form of path the page does not have.
RECURSIVE HasGenericPath(_)
HasGenericPath(t) ==
    \/ t.n = "path" /\ t.c[3] # Nothing
    \/ \E k \in DOMAIN t.c : HasGenericPath(t.c[k])

\* Whatever is accepted is a program of the documented grammar, read with one
\* of the structures the grammar gives it: no lookahead takes a token for
\* something else, and precedence and grouping are those of the page.  A path
\* that keeps type arguments takes nothing from a program that has a structure
\* the parser could have read.
AcceptedAsDocumented ==
    outcome # Pending /\ ~Failed(outcome) =>
        outcome.tree \in Documented \/ (HasGenericPath(outcome.tree) /\ NotReadable)

\* Nothing of the documented grammar is refused, but for those two.
DocumentedIsAccepted ==
    Failed(outcome) /\ Balanced /\ ~BlockLooksTaken => NotReadable

=============================================================================
