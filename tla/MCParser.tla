-------------------------------- MODULE MCParser --------------------------------
(***************************************************************************)
(* The sources TLC enumerates: in each context every word over a           *)
(* vocabulary of its own, up to a length.                                  *)
(***************************************************************************)
EXTENDS Grammar

In(before, words, after, max) == [before |-> before, words |-> words, after |-> after, max |-> max]

Main == <<"fn", "f", "(", ")", "{">>
InMain(words, max) == In(Main, words, <<"}">>, max)

MCIdentifiers == {"f", "x", "y", "decl", "const", "_"}

Expressions == {
    InMain({"x", "||", "&&", "==", "<", "+", "*"}, 6),
    InMain({"x", "+", "*", "-", "(", ")"}, 6),
    InMain({"x", "!", "-", "&", "==", "."}, 5),
    In(Main \o <<"x">>, {"x", ".", "(", ")", ",", "::", "<", ">"}, <<"}">>, 5),
    In(Main \o <<"decl", "(">>, {"decl", "x", "(", ")", ",", "."}, <<"}">>, 5),
    InMain({"break", "return", "continue", "x", ";", ",", "(", ")", "||", "{", "}"}, 4) }

Blocks == {
    In(Main \o <<"if">>, {"if", "else", "x", "{", "}", ";", "-"}, <<"}">>, 5),
    In(Main \o <<"if">>, {"x", "y", "{", "}", ":", "==", "if"}, <<"}">>, 6),
    In(Main \o <<"if", "x", "{", "}", "else">>, {"if", "else", "x", "{", "}", ";", "-"}, <<"}">>, 4),
    In(Main \o <<"while">>, {"x", "{", "}", ":", "==", "!"}, <<"}">>, 6),
    In(Main \o <<"x", "<">>, {"x", "<", ">", "{", "}", "num", ",", ":"}, <<"}">>, 6),
    In(Main \o <<"x", "{", "x", ":">>, {"x", "y", ":", ",", "1", "}"}, <<"}">>, 7),
    In(Main \o <<"if", "x", "<">>, {"x", ">", "{", "}", "num", ","}, <<"}">>, 6),
    InMain({"runtime", "loop", "{", "}", "x", ";", "+"}, 5),
    In(Main \o <<"for", "(">>, {"let", "x", "=", ";", ")", "{", "}"}, <<"}">>, 6),
    In(Main \o <<"for", "(", "let", "x", "=">>, {"x", ";", ")", "{", "}", ","}, <<"}">>, 6),
    In(Main \o <<"let", "_">>, {":", "=", "const", "runtime", "&", "num", "x", "1", ";"}, <<"}">>, 5) }

TypesAndConstraints == {
    In(<<"fn", "f", "(", "x", ":">>, {"runtime", "const", "&", "!", "num", "x", "<", ">", ","},
       <<")", "{", "}">>, 5),
    In(<<"fn", "f">>, {"(", ")", "<", ">", "->", "num", "!", "const", "x", ":", ","}, <<"{", "}">>, 7),
    In(<<"fn", "f", "(", ")", "where">>, {"x", "y", "{", "}", ",", "==", ":"}, <<"{", "}">>, 6),
    In(<<"struct", "f", "where">>, {"x", "1", "==", ",", ";", "{", "}", ":", "num"}, <<>>, 6) }

Declared == {
    In(<<"struct", "f">>, {"x", "y", "<", ">", "{", "}", ",", ";"}, <<>>, 6),
    In(<<"struct", "f", "{">>, {"x", "y", "}", ":", "num", ",", "const"}, <<>>, 8),
    In(<<"enum", "f">>, {"x", "y", "<", ">", "{", "}", "=", "1", ","}, <<>>, 7),
    In(<<"import">>, {"{", "}", "x", "as", ",", "from", "\"s\"", ";", "*"}, <<>>, 8),
    In(<<"extern", "\"s\"">>, {"fn", "struct", "x", "y", "(", ")", ":", "->", "num", ",", ";"}, <<>>, 7),
    In(<<>>, {"pub", "runtime", "extern", "\"s\"", "fn", "struct", "enum", "x", ";", "{", "}"}, <<>>, 6),
    In(<<>>, {"[", "]", "x", "=", "\"s\"", "pub", "runtime"}, <<"struct", "f", ";">>, 7),
    In(<<"[", "[", "x", "]", "]">>, {"pub", "runtime", "import", "{", "}", "from", "\"s\"", ";"}, <<>>, 7) }

MCContexts == Expressions \cup Blocks \cup TypesAndConstraints \cup Declared

=============================================================================
