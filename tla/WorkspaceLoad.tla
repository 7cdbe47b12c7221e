---------------------------- MODULE WorkspaceLoad ----------------------------
(***************************************************************************)
(* Loading the packages of the targets                                     *)
(* (src/internal/analyzer/workspace.go:29-228 and 650-695): what the plan  *)
(* and the mode require of the loader, which of its errors end the run,    *)
(* when auto mode starts over without types, and which variant of a        *)
(* package is analysed.  What go/packages returns is an input.             *)
(*                                                                         *)
(* A loader is [driver, packages]: driver says whether the load as a whole *)
(* fails, a package has the directory it is in, error for the list or      *)
(* parse error it has, illTyped, and forTest for a variant with its tests. *)
(***************************************************************************)
EXTENDS Configuration

CONSTANT WholeRun  \* what the warning of a fallback is about

NeverStrict(mode, checks) ==  \* fault: types mode is satisfied with less
  [mode |-> mode, strict |-> FALSE, needsTypeInfo |-> mode # "syntax"]

Requirements(mode, checks) ==  \* workspaceLoadRequirements
  [mode |-> mode, strict |-> mode = "types",
   needsTypeInfo |->
     \/ mode = "types"
     \/ /\ mode = "auto"
        /\ checks = {} \/ \E id \in checks : CheckByID[id].syntax # "equivalent"]

SyntaxOnly == Requirements("syntax", {})

\* workspacePatterns: directories and patterns are recursive, a file stands
\* for its package.
Matches(targets, package) ==
  \E t \in targets :
    IF t.form = "file" THEN package.dir = t.dir
    ELSE package.dir \in Below(ConfigSearchStart(t))

\* packages.Load: some failures need the type information to be requested.
Returned(loader, targets, tests) ==
  {p \in loader.packages : Matches(targets, p) /\ (p.forTest => tests)}
Fails(kind, req) == kind = "always" \/ (kind = "typed" /\ req.needsTypeInfo)

\* selectLoadedPackages: of two variants the one with the tests.
SelectLoaded(loaded) ==
  {p \in loaded : p.forTest \/ ~ \E q \in loaded : q.path = p.path /\ q.forTest}

LoadOnce(loader, targets, tests, req) ==
  LET loaded == Returned(loader, targets, tests)
      untyped == {p \in loaded : req.needsTypeInfo /\ p.illTyped}
  IN [ok |-> /\ ~ Fails(loader.driver, req)
             /\ \A p \in loaded : ~ Fails(p.error, req)
             /\ req.strict => untyped = {},
      packages |-> {[path |-> p.path, forTest |-> p.forTest,
                     complete |-> req.needsTypeInfo /\ ~ p.illTyped] :
                      p \in SelectLoaded(loaded)},
      warnings |-> {p.path : p \in untyped}]

FallBackSilently(loader, targets, tests, mode, checks) ==  \* fault: no warning
  LET first == LoadOnce(loader, targets, tests, Requirements(mode, checks))
  IN IF first.ok \/ mode # "auto" THEN first
     ELSE LoadOnce(loader, targets, tests, SyntaxOnly)

\* loadWorkspace: the warnings of the second load are dropped, it has none.
LoadWorkspace(loader, targets, tests, mode, checks) ==
  LET req == Requirements(mode, checks)
      first == LoadOnce(loader, targets, tests, req)
      second == LoadOnce(loader, targets, tests, SyntaxOnly)
  IN IF ~ first.ok /\ mode = "auto" /\ req.needsTypeInfo /\ second.ok
     THEN [second EXCEPT !.warnings = {WholeRun}] ELSE first

=============================================================================
