------------------------------ MODULE MCCommand ------------------------------
(* Four directories, three packages, five checks of two families, two of   *)
(* them for typed code alone and one conservative check that finds nothing *)
(* without types; every flag is varied on its own and the flags that       *)
(* interact together.                                                      *)
EXTENDS Command

Row(id, rule, stable, syntax, runner) ==
  [id |-> id, rule |-> rule, group |-> rule, scope |-> "package",
   stable |-> stable, calibration |-> FALSE, syntax |-> syntax,
   surfaces |-> {"cli"}, runner |-> runner]
MCRegistry ==
  <<Row("fat-interface", "SOLID-I", TRUE, "equivalent", TRUE),
    Row("unused", "SOLID-I", FALSE, "unavailable", FALSE),
    Row("concrete", "SOLID-D", TRUE, "conservative", TRUE),
    Row("clump", "SOLID-D", TRUE, "conservative", TRUE),
    Row("import", "SOLID-D", TRUE, "unavailable", FALSE)>>

MCDirs == {"/", "/a", "/a/x", "/b"}
MCParent == [d \in MCDirs |-> IF d = "/a/x" THEN "/a" ELSE "/"]
MCKeys == {"k", "m"}
MCMinimum == [k \in MCKeys |-> IF k = "k" THEN 1 ELSE 0]
MCMaximum == [k \in MCKeys |-> 3]
MCDefaults == [k \in MCKeys |-> 2]

Smell(check, package, severity) ==
  [check |-> check, package |-> package, severity |-> severity,
   file |-> "f.go", inTest |-> FALSE, typed |-> FALSE]
Fat == Smell("fat-interface", "a", "note")
Old == [Smell("concrete", "b", "warning") EXCEPT !.typed = TRUE]  \* no longer there
MCSmells ==
  {Fat, Smell("unused", "a", "warning"), Smell("import", "b", "error"),
   Smell("clump", "b", "warning"), [Smell("concrete", "a", "warning") EXCEPT !.typed = TRUE],
   [Smell("concrete", "x", "warning") EXCEPT !.file = "gen.go", !.typed = TRUE],
   [Smell("import", "x", "warning") EXCEPT !.inTest = TRUE]}

Package(dir, path, error, illTyped, forTest) ==
  [dir |-> dir, path |-> path, error |-> error, illTyped |-> illTyped,
   forTest |-> forTest]
Loader(driver, packages) ==
  [driver |-> driver, packages |-> packages \cup
     {Package("/a/x", "x", "no", FALSE, FALSE), Package("/a/x", "x", "no", TRUE, TRUE)}]
Good == {Package("/a", "a", "no", FALSE, FALSE), Package("/b", "b", "no", FALSE, FALSE)}
Loaders ==
  {Loader("no", Good), Loader("typed", Good), Loader("always", Good),
   Loader("no", {Package("/a", "a", "no", TRUE, FALSE), Package("/b", "b", "no", FALSE, FALSE)}),
   Loader("no", {Package("/a", "a", "typed", FALSE, FALSE), Package("/b", "b", "no", TRUE, FALSE)}),
   Loader("no", {Package("/a", "a", "no", FALSE, FALSE), Package("/b", "b", "always", TRUE, FALSE)})}

Lint == ".solidlint.yml"
Strict == [EmptyConfig EXCEPT !.profile = "all", !.failLevel = "note"]
Lenient == [EmptyConfig EXCEPT !.failLevel = "error", !.excludes = {"gen.go"},
             !.disabledChecks = {"import"}, !.thresholds = [k |-> 3],
             !.severity = [x \in {"SOLID-I", "unused"} |-> IF x = "unused" THEN "note" ELSE "error"]]
Trees ==
  {<<>>,
   (<<"/", Lint>> :> Lenient),
   (<<"/a", Lint>> :> Strict),
   (<<"/a", Lint>> :> Strict) @@ (<<"/a/x", ".solidify.yml">> :> Lenient),
   (<<"/", Lint>> :> Lenient) @@ (<<"/b", Lint>> :> [EmptyConfig EXCEPT !.enabledChecks = {"SOLID-I"}]),
   (<<"/a", Lint>> :> Strict) @@ (<<"/a", ".solidify.yml">> :> Lenient),
   (<<"/", Lint>> :> [EmptyConfig EXCEPT !.thresholds = [k |-> 0]])}

World(tree, loader, pipe, refused) ==
  [tree |-> tree, loader |-> loader, smells |-> MCSmells, pipe |-> pipe, refused |-> refused]
MCWorlds ==
  {World(tree, loader, "open", FALSE) : tree \in Trees, loader \in Loaders}
    \cup {World(<<>>, Loader("no", Good), pipe, FALSE) : pipe \in {"closed", "full"}}
    \cup {World(<<>>, Loader("no", Good), "open", TRUE)}

At(dir) == [form |-> "dir", dir |-> dir]
FileIn(dir) == [form |-> "file", dir |-> dir]
Blank == [form |-> "blank", dir |-> "/"]
Plain ==
  [command |-> "check", usage |-> "ok", targets |-> {Blank}, config |-> NoFile,
   format |-> "text", mode |-> "auto", profile |-> Unset, rules |-> Unset,
   enabledChecks |-> Unset, failLevel |-> Unset, dedicated |-> <<>>,
   thresholds |-> <<>>, fail |-> TRUE, tests |-> FALSE, version |-> FALSE,
   printConfig |-> FALSE, baseline |-> NoFile, writeBaseline |-> NoFile,
   onStale |-> "warn", onExpired |-> "warn", reason |-> FALSE, prune |-> FALSE,
   check |-> Unset]
TargetSets == {{Blank}, {At("/a")}, {At("/a/x"), At("/b")}, {FileIn("/a"), At("/b")}, {At("/a"), At("/a/x")}}
Checks ==
  {[Plain EXCEPT !.targets = t, !.mode = m, !.profile = p] :
     t \in TargetSets, m \in {"auto", "syntax", "types"}, p \in {Unset, "all"}}
    \cup {[Plain EXCEPT !.targets = t, !.failLevel = l, !.tests = tests, !.profile = "all",
                        !.format = "json"] :
            t \in {{Blank}, {At("/a")}}, l \in {"note", "error"}, tests \in BOOLEAN}
    \cup {[Plain EXCEPT !.baseline = "old.json", !.writeBaseline = w, !.reason = r,
                        !.onStale = s, !.onExpired = e] :
            w \in {NoFile, "old.json", "new.json"}, r \in BOOLEAN,
            s \in {"warn", "error"}, e \in {"warn", "error"}}
    \cup {[Plain EXCEPT !.version = TRUE], [Plain EXCEPT !.printConfig = TRUE],
          [Plain EXCEPT !.fail = FALSE], [Plain EXCEPT !.rules = {"SOLID-I"}],
          [Plain EXCEPT !.rules = {"SOLID-I"}, !.enabledChecks = {"fat-interface"}],
          [Plain EXCEPT !.enabledChecks = {"import"}],
          [Plain EXCEPT !.config = <<"/b", Lint>>], [Plain EXCEPT !.usage = "help"],
          [Plain EXCEPT !.usage = "bad"], [Plain EXCEPT !.thresholds = [k |-> 4]],
          [Plain EXCEPT !.thresholds = [k |-> 1], !.dedicated = [k |-> 2]],
          [Plain EXCEPT !.dedicated = [k |-> 0]],
          [Plain EXCEPT !.thresholds = [k |-> 1], !.dedicated = [m |-> 3]]}
OtherCommands ==
  {[Plain EXCEPT !.command = c, !.format = f, !.check = i] :
     c \in {"stats", "explain"}, f \in {"text", "json", "sarif"}, i \in {Unset, "unused", "nope"}}
    \cup {[Plain EXCEPT !.command = "validate", !.config = p] : p \in {NoFile, <<"/b", Lint>>}}
    \cup {[Plain EXCEPT !.command = c, !.baseline = b, !.reason = r, !.prune = p, !.format = "json"] :
            c \in BaselineCommands, b \in {NoFile, "old.json"}, r \in BOOLEAN, p \in BOOLEAN}
MCCalls == Checks \cup OtherCommands

Document(accepted, expired) ==
  [readable |-> TRUE, accepted |-> accepted, expired |-> expired]
MCPaths == {"old.json", "new.json"}
MCBaselines ==
  {[p \in MCPaths |-> IF p = "new.json" THEN Unreadable ELSE d] :
     d \in {Unreadable, Document({Fat, Old}, {}), Document({Fat}, {Smell("import", "b", "error")})}}
=============================================================================
