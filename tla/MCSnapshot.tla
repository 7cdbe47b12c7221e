----------------------------- MODULE MCSnapshot -----------------------------
(* Three packages: c imports a and b, b imports a.                         *)
EXTENDS Snapshot, TLC

CONSTANTS a, b, c

MCImports == (a :> {}) @@ (b :> {a}) @@ (c :> {a, b})

\* Every package refers to at most one declaration that may disappear, at
\* most one has an error, and c may use one of its imports in an excluded
\* file only.
Uses == {u \in [Packages -> SUBSET Packages] :
           /\ u[a] = {} /\ u[b] = {a} /\ b \in u[c] /\ u[c] \subseteq MCImports[c]}
Needs(files, uses, p) ==
  {{}} \cup {{<<q, k>>} : q \in uses[p] \cup {p}, k \in Kinds \ {"handwritten"}}
MayNeed(files, uses, needs) ==
  \A p \in Packages : \A n \in needs[p] : n[2] \in files[n[1]]
ProjectsWith(kinds) ==
  {[files |-> f, uses |-> u, needs |-> (a :> na) @@ (b :> nb) @@ (c :> nc),
    broken |-> e] :
     <<f, u, na, nb, nc, e>> \in
       {<<f, u, na, nb, nc, e>> \in
          [Packages -> kinds] \X Uses
            \X Needs(<<>>, [p \in Packages |-> {}], a)
            \X Needs(<<>>, [p \in Packages |-> {a}], b)
            \X Needs(<<>>, [p \in Packages |-> {a, b}], c)
            \X ({{}} \cup {{p} : p \in Packages}) :
          /\ \A n \in nc : n[1] \in u[c] \cup {c}
          /\ MayNeed(f, u, (a :> na) @@ (b :> nb) @@ (c :> nc))}}

KeptFiles == {{"handwritten"}, {"handwritten", "excluded"},
              {"handwritten", "generated"},
              {"handwritten", "generated", "excluded"}}
KeptProjects == ProjectsWith(KeptFiles)
=============================================================================
