------------------------------ MODULE MCImports ------------------------------
(* The instances of Imports: two panels that answer, one of them under two *)
(* spellings of its path, and a path that has none.  The two handlers race *)
(* as those of two operators would: the chat goes on while one waits.      *)
EXTENDS Imports, TLC

CONSTANTS anna, h1, h2, plan, k1, k2, k3, k4, old, base1, west, westSlash, east, nowhere

MCOperators == {anna}
MCHandlers == {h1, h2}
MCSymmetry == Permutations(MCHandlers)
MCPlans == {plan}
MCFingerprints == {k1, k2, k3, k4, old}
MCBases == {base1}
MCPaths == {west, westSlash, east, nowhere}
MCBare == [x \in MCBases \cup MCPaths |->
             IF x = westSlash THEN west ELSE x]
MCReachable == {<<base1, west>>, <<base1, east>>}

Row(code, key, fits) == [plan |-> code, key |-> key, fits |-> fits]
MCKeyFiles ==
    {[kind |-> "xlsx", rows |-> <<Row(plan, k1, TRUE), Row(Blank, Blank, TRUE), Row(plan, k2, TRUE)>>],
     [kind |-> "sqlite", rows |-> <<Row(plan, k2, TRUE), Row(plan, old, TRUE), Row(plan, k1, TRUE),
                                    Row(plan, k1, TRUE), Row(plan, k3, FALSE), Row(Blank, k4, TRUE)>>]}
MCFile(x, y) ==
    <<[base |-> base1, path |-> x, rest |-> TRUE], [base |-> base1, path |-> y, rest |-> TRUE]>>
MCServerFiles == {MCFile(west, east), MCFile(east, westSlash)}
=============================================================================
