-------------------------- MODULE ModuleRefinement --------------------------
(***************************************************************************)
(* The resolver as an implementation of ModuleLinking: its verdict is what *)
(* run() returned, and the scopes are what AstRewriter::lookup_visible     *)
(* finds in the tables of the modules.                                     *)
(***************************************************************************)
EXTENDS ModuleResolver

PathOfId(id) == modules[CHOOSE i \in DOMAIN modules : modules[i].id = id].path

\* Where the item of a binding is declared, and under what name.
Meaning(binding) == <<PathOfId(binding.internal.id), binding.source>>

\* What a module sees: <<file, <<name, kind>>, file and name it is declared by>>.
Scope(m) ==
    UNION {{<<m.path, key, Meaning(b)[1], Meaning(b)[2]>> :
                b \in {lookup_visible(m, key[1])[key[2]]} \ {NoBinding}} : key \in Keys}

Verdict ==
    CASE phase = "done"   -> "linked"
      [] phase = "failed" -> "rejected"
      [] OTHER            -> "pending"

Scopes == IF phase # "done" THEN {} ELSE UNION {Scope(modules[i]) : i \in DOMAIN modules}

Linking == INSTANCE ModuleLinking WITH verdict <- Verdict, scopes <- Scopes

\* The resolver accepts only linkable file systems, rejects only those that are
\* not, and gives every file the scope its imports describe, whatever order
\* files are loaded in; with Terminates it implements all of Linking!Spec.
ImplementsLinking == Linking!Decides

=============================================================================
