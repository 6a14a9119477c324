-------------------------- MODULE MCModuleResolver --------------------------
(***************************************************************************)
(* File systems of four files for TLC: each file is one of a few shapes    *)
(* that between them import, alias, re-export, shadow, collide, close      *)
(* cycles and fail to load.                                                *)
(***************************************************************************)
EXTENDS ModuleRefinement, TLC

CONSTANTS MainShapes, AShapes, BShapes, PreludeShapes

MCPaths == {"main", "a", "b", "prelude"}
MCNames == {"f", "g", "h"}
MCNamesWithPrefix == MCNames \cup {"__cst_mod_2__g"}

MCPrefixed(id, name) == "__cst_mod_" \o ToString(id) \o "__" \o name

D(name, ns, pub, uses) == [name |-> name, ns |-> ns, pub |-> pub, uses |-> uses]
Fn(name, uses) == D(name, "value", FALSE, uses)
PubFn(name, uses) == D(name, "value", TRUE, uses)
Use(name) == <<name, "value">>
One(from, name, as, pub) ==
    [from |-> from, items |-> <<[name |-> name, as |-> as]>>, pub |-> pub]
F(imports, decls) == [imports |-> imports, decls |-> decls]

ShapesOfMain == [
    alone     |-> F(<<>>, <<Fn("f", {Use("g"), Use("h")})>>),
    simple    |-> F(<<One("a", "f", "f", FALSE)>>, <<Fn("g", {Use("f"), Use("h")})>>),
    alias     |-> F(<<One("a", "f", "g", FALSE), One("b", "f", "f", FALSE)>>,
                    <<Fn("h", {Use("f"), Use("g"), <<"f", "type">>})>>),
    twice     |-> F(<<One("a", "f", "f", FALSE), One("b", "f", "f", FALSE)>>, <<>>),
    collide   |-> F(<<One("a", "f", "f", FALSE)>>, <<Fn("f", {})>>),
    typeAndFn |-> F(<<[from |-> "b", pub |-> FALSE,
                       items |-> <<[name |-> "g", as |-> "g"],
                                   [name |-> "f", as |-> "h"]>>]>>,
                    <<Fn("f", {Use("g"), <<"g", "type">>, Use("h")})>>),
    std       |-> F(<<One("prelude", "h", "h", FALSE)>>, <<Fn("f", {Use("h")})>>),
    lookalike |-> F(<<One("a", "f", "f", FALSE)>>, <<Fn("__cst_mod_2__g", {})>>)]

ShapesOfA == [
    leaf     |-> F(<<>>, <<PubFn("f", {Use("g")}), Fn("g", {Use("h")})>>),
    private  |-> F(<<>>, <<Fn("f", {})>>),
    reexport |-> F(<<One("b", "f", "f", TRUE)>>, <<Fn("g", {Use("f"), Use("h")})>>),
    consume  |-> F(<<One("b", "g", "f", FALSE)>>, <<PubFn("g", {Use("f")})>>),
    both     |-> F(<<One("b", "g", "f", TRUE)>>, <<D("f", "type", TRUE, {})>>),
    backEdge |-> F(<<One("main", "f", "f", FALSE)>>, <<>>)]

ShapesOfB == [
    leaf     |-> F(<<>>, <<PubFn("f", {Use("h")}), PubFn("g", {}), D("g", "type", TRUE, {})>>),
    shadow   |-> F(<<>>, <<PubFn("f", {Use("h")}), Fn("h", {}), Fn("g", {})>>),
    cycle    |-> F(<<One("a", "f", "f", TRUE)>>, <<PubFn("g", {})>>),
    doubled  |-> F(<<>>, <<PubFn("f", {}), Fn("f", {})>>),
    missing  |-> Unloadable]

ShapesOfPrelude == [
    std      |-> F(<<>>, <<PubFn("h", {Use("g")}), Fn("g", {})>>),
    wide     |-> F(<<>>, <<PubFn("h", {}), PubFn("f", {}), D("f", "type", TRUE, {})>>),
    imports  |-> F(<<One("b", "f", "f", TRUE)>>, <<PubFn("h", {Use("f")})>>),
    missing  |-> Unloadable]

MCFileSystems ==
    {[main |-> ShapesOfMain[m], a |-> ShapesOfA[a], b |-> ShapesOfB[b],
      prelude |-> ShapesOfPrelude[p]] :
        m \in MainShapes, a \in AShapes, b \in BShapes, p \in PreludeShapes}

=============================================================================
