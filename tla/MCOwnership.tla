------------------------------ MODULE MCOwnership ------------------------------
(***************************************************************************)
(* The instance of DropFlags that TLC explores: the union of three         *)
(* families of programs, each closed under prefixes, so that one run holds *)
(* short programs with everything in them and longer ones of each kind.    *)
(***************************************************************************)
EXTENDS DropFlags

CONSTANT
    ShortTokens  \* bound: tokens of a program that may contain anything

\* The tokens of the program read so far, with the ends it still needs
Tokens == Len(source) + IF phase = "check" THEN Len(open) ELSE 0

UsesOnly(ops, headers) ==
    \A p \in DOMAIN source :
        source[p].op \in ops /\ {source[p].cond, source[p].step} \subseteq headers

Short == Tokens <= ShortTokens

\* Nothing follows a jump in its block.
NoDeadCode ==
    \A p \in DOMAIN source :
        source[p].op \in {"break", "continue", "return"} /\ p < Len(source)
            => source[p + 1].op \in {"end", "else"}

LoopFree ==
    /\ UsesOnly({"move", "consume", "discard", "borrow", "refTemp", "copy", "block",
                 "if", "else", "return", "use", "end"}, {"flag"})
    /\ NoDeadCode

WithLoops ==
    /\ UsesOnly({"make", "borrow", "consume", "temp", "if", "loop", "while", "for",
                 "break", "continue", "return", "end"}, {"flag", "take"})
    /\ Tokens <= ShortTokens + 1 \/ UsesOnly(AllOps, {"flag"})
    /\ NoDeadCode

Explored == Short \/ LoopFree \/ WithLoops

=============================================================================
