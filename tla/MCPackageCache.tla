--------------------------- MODULE MCPackageCache ---------------------------
EXTENDS PackageCache, TLC

CONSTANTS a, b, c            \* packages
CONSTANTS v1, v3, bad, lost  \* contents: a second API, a type error, an
                             \* import that is not there

MCImports == [p \in Packages |-> IF p = a THEN {} ELSE IF p = b THEN {a} ELSE {b}]
MCAPI == [v \in Contents |-> IF v = v3 THEN "other" ELSE "same"]
MCFileKey == [p \in Packages |-> p]
MCCollidingKey == [p \in Packages |-> "a_b"]   \* package paths a/b and a_b

AllTrees == [Packages -> Contents]
OneTree == {[p \in Packages |-> v1]}
BrokenTree == {[p \in Packages |-> IF p = a THEN bad ELSE v1]}
RunSymmetry == Permutations(Runs)
AllSymmetry == Permutations(Runs) \cup Permutations(Workers)

=============================================================================
