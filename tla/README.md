# Specifications of solidlint

TLA+ modules that describe how solidlint finds its configuration, loads packages,
runs its checks, caches their findings, keeps a baseline, applies its file policy
and comes to its exit code, and how the checks decide; TLC configurations that
check them on small instances; and TLAPS proofs of the theorems that hold for
every instance. Paths are relative to the repository; `analyzer/` stands for
`src/internal/analyzer/`, `baseline/` and `cli/` for the packages beside it.

`tlc -config pool.cfg MCCheckPool` checks one instance, `tlapm
CheckPool_proofs.tla` checks the proofs of one module. `PROJECT.json` lists the
runs, the faults each property detects, and the lines each definition models.

## The system

    command line -- policy --> load packages --> file policy --> plan
                                                                  |
        report <-- baseline <-- finding pipeline <-- RunPlan: pool, then
        exit code                                    program groups
                                                       |      |
                                                     cache  statistics

One process is one run of a command. Inside it only the pool is concurrent.
Between processes the cache directory and the baseline file are shared, without
locks; both are replaced by a rename.

| component | code | state | operations | correct when |
|---|---|---|---|---|
| package-job pool, program groups | `analyzer/run.go`, `stats.go`, `plan.go` | two channels, workers, findings gathered, statistics | feed, load, run, count, send, collect, program group, return | every job's findings are gathered once, nothing is left running, statistics add up, the run ends |
| findings cache | `analyzer/cache.go`, `cache_key.go` | entries on disk, per run a memo of package hashes | read an entry, hash, compare, store | a report does not depend on what the cache holds |
| baseline workflow | `baseline/baseline.go`, `cli/commands.go` | the baseline file; of a command its findings, document and date | load, diff, update, prune, init, filter, write | only reviewed debt is accepted, a passing check hides nothing else, the file is never broken |
| file policy, type snapshots | `analyzer/workspace.go:321-610` | files and type snapshot of each package | remove files, re-check depth first, keep or roll back | one type graph, no typed checks lost, exclusions applied or reported |
| workspace loading | `analyzer/workspace.go:62-320`, `export.go` | loaded packages, load errors | load, fall back to syntax, select test variants | strict mode never falls back, a fallback is reported |
| registry, selection, plan | `analyzer/registry.go`, `plan.go` | none: pure | select by profile, family and check; group by runner | a selected check runs in exactly one group, others are not reported |
| finding pipeline | `analyzer/run.go:97-240, 387-612`, `types.go`, `stats.go` | the list of findings | mode filter, sort, suppress, name, disambiguate | nothing is dropped silently, fingerprints are unique and stable |
| configuration | `analyzer/control.go`, `control_yaml.go`, `thresholds.go` | none: reads files | discover, decode, validate, apply | one scope for all targets, nothing invalid is accepted |
| command line | `cli/run.go`, `options.go`, `policy.go`, `commands.go` | of a run: policy, packages, findings | dispatch, resolve a policy, load, report, exit | a passing build hides nothing, exit codes 0, 1, 2 as documented |
| reports | `src/internal/report`, `cli/render.go` | none | JSON, SARIF, text | layout, portable paths |
| SOLID-S checks | `analyzer/srp*.go` | two lists of parameter clumps, of which the second replaces the first | judge functions, prune clumps, judge structs | a smell is reported once, under its widest form |
| SOLID-O checks | `analyzer/ocp*.go` | families of dispatch sites, positions and marks one check leaves the next | merge, unite, emit seven checks in order | families do not depend on the order of sites, a disabled check changes no other |
| SOLID-I checks | `analyzer/isp*.go` | memo and stack of the search for unread fields; origins of a constructor's variables | search, follow aliases, judge interfaces | no field the package reads is called unread, whatever order a map is walked in |
| SOLID-D checks | `analyzer/dip*.go`, `data_carrier.go` | construction sites one check leaves the next | judge fields, emit five checks in order | a disabled check changes no other |
| SOLID-L checks | `analyzer/lsp*.go` | none | patterns of statements in one method | each heuristic's own rules |
| driver adapters | `src/internal/analysisapi`, `src/plugin` | none | one pass, one group | findings of the group, once |

What is hard here: the goroutines of the pool and their shutdown; goroutines
and processes that race on cache entries while sources change; crashes that
leave half an entry or half a command; commands that overlap on one baseline
file while days pass; re-checks of which some fail; searches that walk Go maps
in any order and remember what they find in the middle of a cycle; and the many
ways of flags, files, modes and failing loads to an exit code of 0. `PROJECT.json` lists
each hazard with its line and the properties that cover it.

## Modules

| module | models | checked by | proved in |
|---|---|---|---|
| `Worklist` | what one run promises its caller (abstract) | as a property of `CheckPool` | |
| `CheckPool` | one `RunPlan` | `MCCheckPool`, `pool.cfg` | `CheckPool_proofs` |
| `PackageCache` | processes over one cache directory | `MCPackageCache`, `cache*.cfg` | `PackageCache_proofs` |
| `Baseline` | commands over one baseline file | `MCBaseline`, `baseline*.cfg` | `Baseline_proofs` |
| `Snapshot` | the file policy of one run | `MCSnapshot`, `snapshot*.cfg` | `Snapshot_proofs` |
| `Selection` | which checks a run selects and how it groups them (no state) | within `Findings` | `Findings_proofs` |
| `Findings` | from the findings of the checks to the report, under edits | `MCFindings`, `findings.cfg` | `Findings_proofs` |
| `Configuration` | which policy a command runs under (no state) | within `Command` | `Command_proofs` |
| `WorkspaceLoad` | what is loaded, and when auto mode falls back (no state) | within `Command` | `Command_proofs` |
| `Command` | one run from its arguments to its exit code | `MCCommand`, `command.cfg` | `Command_proofs` |
| `FieldFlows` | the search for interface fields nothing reads | within `Checks` | `FieldFlows_proofs` |
| `InterfaceUse` | the verdicts of SOLID-I on fields, parameters and interfaces | within `Checks` | `Checks_proofs` |
| `ConstructorRoles` | what the variables of a constructor stand for | within `Checks` | `Checks_proofs` |
| `Responsibilities` | SOLID-S on one package | within `Checks` | `Checks_proofs` |
| `Dispatch` | SOLID-O on the program | within `Checks` | `Checks_proofs` |
| `Dependencies` | SOLID-D on a struct and on the program | within `Checks` | `Checks_proofs` |
| `Checks` | the check groups of one run over one loaded program | `MCChecks`, `checks.cfg`, `conservative.cfg` | `Checks_proofs` |

Component modules hold faults, marked as such: definitions no action uses, each
the body of another definition with one plausible bug. Exchanging the two makes
a property fail, which is how every property of a passing run was tested.

### CheckPool

`executePackageJobs` starts a feeder goroutine, `min(GOMAXPROCS, jobs)` workers
and collects on the caller's goroutine. Each is a set of actions: `Feed` and
`CloseJobs`; `Load`, `RunPackage`, `CountExecution`, `SendResult`, `SendDone`;
`Collect` and `ReturnPackageIssues`. `jobCh` is unbuffered, so sending and
receiving are one step; `resultCh` is a sequence bounded by the number of
workers. `RunProgramGroup` and `ReturnIssues` are the sequential rest. A job
stands for its findings, and `all` counts how often they were gathered. Whether
the cache answers is a free choice; `PackageCache` says what an answer means.

`ImplementsWorklist` maps the pool to `Worklist`: a unit of work is done when
its findings were gathered, and the report is handed out at the return.

Fairness: the feeder, the main goroutine and each worker are weakly fair. The Go
scheduler runs every runnable goroutine again, blocking operations resume when
the other side is ready, and a check is a terminating function (the step
`RunPackage`). No strong fairness is used: no worker needs to win the channel.

### PackageCache

A run loads the sources once (`StartRun`), and its goroutines take jobs; the
program groups wait for the package jobs, as in `CheckPool`. Whether a load has
types follows from the sources (`Load`): an import that cannot be resolved makes
auto mode start over without them, a type error leaves the package and its
importers incomplete. `cache.load` is three steps, because other processes and the
editor act between them: `ReadEntry`, then `HashSources` and `MemoHash` for
each package without a hash (the memo is `LoadOrStore`: the first wins), then
`Hit` or `Stale`. `Store` renames an entry into place, `StoreFails` gives up
silently. The environment edits sources, kills processes and cuts the power; the
latter may leave names whose contents are torn, for entries are not synced.

Findings are represented by the inputs they were computed from, so that "the
same findings" means the same inputs; hashes are injective. These inputs
(`View`) are more than the key holds (`Digest`): of a package's direct imports
both have the declarations as they are printed, but the checks have all of
`go/types`, and see through a declaration that names a type of another package
(`Exposing`) to the type (`Sees`, `Behind`), and whether types are complete.
`WarmDiffersOnlyBehind` says that a warm report differs from the cold one in
nothing else; `WarmEqualsCold`, that it does not differ, is what `cache_broken`
refutes. Policies stand for the key material of `cache_key.go`.

### Baseline

A command analyses (`Analyse`), loads the file (`LoadDocument`), computes and
writes (`Write`, `Refuse`, `WriteFails`) and reports (`RenderDiff`,
`CheckBaseline`), and may be killed between any two of them. `Updated` and
`CanUpdate` are `baseline.Update`, with migration of version 4 and validation
of the result; `Unexpired` is `ReadAt`. `origin` remembers the initial file, so
that properties can say what somebody had reviewed before.

### Snapshot

`ApplyFilePolicy` finds the packages that lost excluded files and everything
that imports them. Each is re-checked: `StartRebuild` from the loop,
`RebuildImport` from inside another check, whose import it is; `ResolveImport`
hands the snapshot to the check that asked, `FinishRebuild` ends the innermost
one. `KeepRebuilt` or `RollBack` decides for all of them. The type checker is
reduced to what can fail: a name the remaining files need is missing, or two
snapshots of one package meet, where it depends on the code whether that is an
error. A snapshot is told by whether the load or the rebuild made it.

### Selection and Findings

`Selection` holds the pure part of a plan: `ResolveCheckSelection` with the
settings it refuses, `PlanGroups`, `RunnerForGroup` (the check that holds a
group's runner need not be selected) and `FilterGroupIssues`.

In `Findings` a source is a sequence of lines; a line has code of a part of a
declaration (first line, further lines of the header, body, type, a group of
types and its specs) or a comment,
what the checks find there, the places findings relate to, and a directive.
`Analyze` is `executeAnalysis`: it refuses settings or malformed directives, or
takes the findings of the planned groups (`PlannedIssues`) through the mode
filter (`ModeSupports`) and the suppressions (`IssueSuppressed`), puts them in
any order `sortIssues` allows (`SortedOrders`; findings with equal keys come as
the workers delivered them), names them (`Qualifier`, `Occurrence`,
`Fingerprint`) and rejects a collision. Filtering before sorting or after is the
same set, so `Survivors` does both filters at once. `InsertLine` and `DeleteLine`
are the user; what `WellFormed` excludes is not Go, and a check finds one thing
once (`EachSmellOnce`), though two findings may be alike.

The spans of declarations are computed as `functionDeclarationSpan` and
`typeDeclarationSpans` do; `OmissionsExplained` and `DirectivesHonoured` compare
them with what the README says of a directive in terms of neighbouring lines. A
`type (...)` group with a comment of its own is the exception (`SameGroup`): the
code lets the span of each of its types begin at that comment.

### Configuration, WorkspaceLoad and Command

`Command` composes three modules: it EXTENDS `WorkspaceLoad`, which EXTENDS
`Configuration`, which EXTENDS `Selection`. Those hold what the code computes
without state: `FindConfigForTargets` walks up from every target,
`ValidConfig` is `LoadFileConfig` after decoding, `ConfigOf` the precedence of
flag, file and default, `PolicyRefused` the validation of what results;
`Requirements` says what the plan and the mode ask of go/packages, `LoadOnce`
which of its errors end a load, `LoadWorkspace` when auto mode starts over
without types, `SelectLoaded` which variant of a package stays.

A run of the program goes from `parse` over `resolved`, `loaded`, `analysed`,
`written` and `accepted` to `done`; `pc` names these places between the calls
that can end it. Each command of `cli/run.go` has its actions: `ShowVersion`,
`ValidateConfig`, `ExplainCheck`, `PrintConfig` and the refusals end a run
early, `Load`, `RefuseSources` and `Analyse` are shared by the commands that
analyse, `WriteBaseline` to `Report` are `check`, in the order of
`applyLegacyBaselineOptions`, `Stats` and `MaintainBaseline` the rest. What was
printed, which warnings were, the baseline files and the exit code are the
output. The world (configuration files, loader, smells, a pipe that is closed
or full) is chosen at the start, because one run reads each of these once. What
several commands do to one baseline file is in `Baseline`; what a report is
made of, in `Findings`. A smell is `typed` when its check finds it with types
only although it claims a fallback (`NeedsTypes`).

### FieldFlows, InterfaceUse and ConstructorRoles

`FieldFlows` is `SOLID-I/unused-dependency`. The recursive closure `consumed`
(`isp_consumer.go:496`) is a stack of `frames`: `Ask` is its call from the loop
over candidates, `Follow` one iteration over the map of destinations, in any
order, and `Remember` the return that stores an answer. A field in the middle
of its own search counts as consumed (`Visiting`). `NeverConsumed` is the
reference: a set of fields that hand their values to each other alone and not
in a circle.

`InterfaceUse` adds what the other checks decide of the same package: the
methods a field's uses show (`MethodsOf`), where each check gives up
(`UsageIndirect`, `RoleIndirect`: they differ, as the two walks do), what
usage-ratio never sees because its walk ends at a method call on the field
(`SeenByRatio`; a use says what call it is an argument of, `within`), and which
interface is too wide with and without types (`FatInterface`). `Embedded` is
the closure over embedded interfaces, as the least set with its two rules.

`ConstructorRoles` runs the two loops of `constructorAliases`: `Propagate` and
`Invalidate` look at one statement each, since a later statement of a round sees
what an earlier one did; `NextRound` begins another round when one has changed
something, and `NextLoop` ends a loop with a round that has changed nothing.

### Responsibilities

One package: `ExamineFunctions` reports functions and builds clumps from the
syntax, `VisitClump` prunes one of them, in any order of the map, `ReportClumps`
reports the rest; with types `ExamineParameters` takes back what the syntax said
of parameters (`RemoveIssuesByCheck`) and judges again, with the same pruning;
`ExamineWorkflows` and `ExamineStructs` are the other checks. A parameter of a
function has a key by syntax and one by types (`seen`), which is what the two
passes differ in.

### Dispatch and Dependencies

Both are checks of the whole program that run one after the other, one action
each (`Emit...`), and leave something to those after: `Dispatch` the positions
of factory tables and the sites that were reported, `Dependencies` the hidden
constructions. Families of dispatch sites are computed by union-find, pair by pair
in the order of the code (`Components`, `United`, `Find`, `UnionRoots`), with the
position of a site in place of its index in the sorted list;
`FamiliesAreClasses` compares them with chains of sites. `Leaders` says which
functions the loop of `ocp_parallel.go` does not pass over: those that no earlier
one has marked and whose group is large enough; where methods of one name tie
for the place a group is reported at, any of them may be it (`Primaries`), as
they follow the walk of a Go map. Sites, products and call positions
as collected from the syntax are the input.

`concrete-dependency` is a set of operators over one struct (`unit`), without
steps.

### Checks

The groups of one run over one loaded program: the package groups side by side,
as the pool runs them, then those of the program in the order of the plan. Each
module has its own variables; `Checks` leaves the others' alone, and
`GroupsAreIndependent` proves that every behaviour of the composition is one of
each group, so that what holds of a group alone holds in a run.

## Runs

| run | instance | shows |
|---|---|---|
| `pool` | 2 runner groups over 2 packages and 1 program group, 2 workers, cache on or off | all six properties of the pool, liveness and refinement included |
| `cache` | 2 processes with 2 goroutines, a chain of 3 packages, a package group and a program group, 4 contents (another API, a type error, a missing import), 1 edit between runs, 1 power loss, kills | a warm report differs from the cold one only in what comes from behind the direct imports, that of a program group not at all; after a finished run, the next on the same sources analyses nothing |
| `cache_hostile` | 2 processes, 2 policies, package paths that share an entry file, edits at any time, failing stores | a hit is never another job's |
| `baseline` | 2 overlapping commands of 11 kinds, 2 findings, 2 reviewers, 4 initial files, 2 days, 2 changes of the code, all faults | the file stays loadable and reviewed; a passing check hides nothing else; update keeps what the file it loaded accepts, and a check of the result passes |
| `findings` | 4 checks of 3 support levels, 6 findings of which 3 share an identity, 5 settings (one refused), 8 pairs of files (one with a documented group of types), one line inserted or deleted anywhere | nothing is left out without a reason a reader can see, directives do what the README says, fingerprints are unique, the report is deterministic, an edit renames only findings whose peers it changes |
| `command` | 4 directories with 7 trees of configuration files, 3 packages and a test variant, 6 loaders (errors with or without types, ill-typed packages, a failing driver), 4 checks of 2 families, closed and full pipes, 3 pairs of baseline files, every command and every flag | a passing check hides no failing smell, exit codes say what the report says, all targets are under one configuration, modes keep their promise |
| `checks` | for each group one small package or program: 8 uses of 4 fields, and 6 of one field inside calls, with every subset of them, constructors of up to 4 statements over 4 variables, 4 functions with every choice of 5 parameter sets, 5 dispatch sites with every subset of them, every set of enabled checks of SOLID-O and SOLID-D, a disabled check of the other two; and programs for which all groups are planned | remembered answers do not depend on the order of the search, no unread field flows into a read one, the typed checks agree on a field, aliases are settled when they are used, the widest clumps remain and a parameter list is reported once, families are chains of sites, every parallel function is named, a disabled check takes its own findings away and nothing else |
| `snapshot` | 3 packages, `c` imports `a` and `b`, `b` imports `a`; every mix of kinds of files in packages that keep one; at most one needed name per package and one broken package | one type graph, typed checks kept, exclusions applied or reported, each package re-checked at most once |

Bounds. Two workers and four jobs are enough for a full result channel, a worker
that exits while another still works, and a job handed to a worker that has
finished one; the number of workers only repeats these situations, and the proofs
cover every number. Two processes suffice for the cache because an entry has one
writer and one reader; a chain of three packages has one that is imported only
indirectly, and the contents let a source change with and without a change of the
API, with a type error, and in the mode of the load. Two overlapping commands
suffice for the baseline because the file has one last writer; two findings
separate live from stale. The three packages of `Snapshot` are the smallest graph
with two routes to one package, where the memo and the closure matter; at most one
broken package is enough because completeness is decided package by package.
`cache_hostile` has one goroutine per process, for entries of two processes race
in the same way. In `findings` one edit lies between two analyses, because each
property compares a report with its source or with the report before; three
findings of one identity give every mix of receiver and order; eight sources hold
methods, headers of several lines, types and groups of them, doc comments, and
related places in the other file. Lines stand for positions: two findings on one
line are at one position.

In `command` a run is one path through the program, so that the bounds are those
of its inputs: two levels of directories and a sibling give targets under one
file, under two, and under one and none; each loader differs in one kind of
failure. In `checks` four fields are enough for a circle of flows and a way into
and out of it, four statements for an origin that is lost after it was passed
on, four functions for clumps one of which contains two others, and three
dispatch sites for two that have nothing in common but the third. The groups
share no variable, so one program per group loses no interleaving that matters;
the last programs of `MCPrograms` run them all to show the composition is not
vacuous.

`baseline*.cfg` turn the deadlock check off: when all commands have exited and
the bounds on days and edits are used up the model really ends; so do `checks`
and `conservative`, whose checks come to an end. In the other modules the end is
an explicit step.

### Where the code and its documents disagree

Each of these runs has one property, taken from a document or a comment, and a
behaviour of the code that violates it. `PROJECT.json` quotes the lines.

| run | behaviour |
|---|---|
| `cache_broken` | a type error in an imported package is mended without a change of its API: its importer's key stays as it was, and the next run hits what was found there without complete types |
| `baseline_migrate` | update without `-prune` cannot migrate a version 4 file with a stale entry |
| `snapshot_generated` | the re-check of a package that lost an excluded file leaves out its generated files too |
| `conservative` | two checks with a conservative fallback report nothing without types |

Further disagreements, met while modelling, have no run of their own:

* A change two imports away does not change a package's key, but may change its
  findings: of `type Client = d.Client` in an imported package the digest holds
  that text and the methods of the type, of a field's type its name alone
  (`cache.go:316-345`); the checks follow both to the struct or interface they
  stand for (`dip.go:546`). `Behind` has it, `WarmDiffersOnlyBehind` excepts it.
* A directive at one type of a documented `type (...)` group silences the other
  types of the group as well (`run.go:509`), where README.md:285-288 speaks of the finding's
  own declaration header; `OmissionsExplained` excepts such groups.
* In syntax mode a passing check says nothing of what `concrete-dependency`,
  `high-fan-out-type` and `mixed-import-clusters` would have found with types:
  they count as supported, and nothing warns; `PassHidesNothing` excepts what
  needs types, whatever its check claims.
* `unused-dependency` is documented to take escaping and unresolved flow for
  consumed (`docs/checks/SOLID-I/unused-dependency.md:21-22`, `:54`); but a field
  handed to a field of a struct in another package is reported when no selector
  of its own package reads that one (`isp_consumer.go:531-624`).
  `UnreadIsClosed` speaks of this package's selectors only.
* Of `s.store.Put(s.store.Get())` usage-ratio counts one method
  (`isp_usage.go:271`), consumer-role and fat-interface two, so that the first
  may report a field the others find fully used; `FieldVerdictsAgree` excepts
  fields with such uses.
* `parallel-implementations` sorts a group by names without receivers, and methods
  of one name stand in the order of a Go map (`ocp_parallel.go:65`, `:79`): the
  place of the report, its related places and its evidence may change from run
  to run.

* Two checkouts that share a `-cache-dir` share entries, and findings name the
  files of the first (`cache.go:95`): `WarmParity` assumes one checkout.
* A stale entry no longer fails `-baseline-stale=error` once it has expired
  (`commands.go:91`; `RejectedDebt` and `ExitTellsTheReport` say so).
* The declarations of a wholly excluded package stay visible to its importers
  without a warning (`workspace.go:356`).
* With auto mode README.md:23 warns once per incomplete package; a fallback
  warns once for the whole run (`WholeRun`).
* A configuration that validates may still be refused by a check: `config
  validate` accepts a family where only a concrete check may be enabled
  (`registry.go:294` against `:248`).
* `fat-interface` does not count the same methods with and without types, where
  the registry calls its modes equivalent (`registry.go:151`).
* `large-type` compares the types of fields by other keys without types, while
  its document names cohesion as the only difference of the two modes
  (`HasHomogeneousFieldSet`).
* `unused-dependency` is documented to skip structs named `...Deps`, `...Bundle`
  and the like (`docs/checks/SOLID-I/unused-dependency.md:16`, `types.go:342`); only
  a test calls the function that knows the names (`isp_consumer.go:423`), and
  `Candidates` has no such condition.
* A constructor that stores one parameter in two fields of narrower interfaces is
  told that it asks for too much, although it needs both
  (`isp_constructor.go:190`, `Narrowed`).
* One forwarded name exempts a whole declaration of fields (`dip.go:332`).
* Two methods of one name on different receivers are one enum site
  (`ocp_enum.go:126`).
* `runtime-exhaustiveness` needs a site that another check has judged; enabled
  alone it reports nothing (`ocp.go:68`).
* The typed pass leaves a function out of clumps that `flag-argument` would
  report, even when `flag-argument` is disabled (`srp_parameters.go:26`), and a
  clump that is pruned takes its pair of functions with it (`srp.go:184`).
The passing runs state where they stop. In `snapshot` each package keeps a file:
a package without kept files takes no part in the re-check, so its importers see
its declarations and, where it stands between an importer
and a re-checked package, the importer meets two snapshots of one package. `cache`
lets sources change between runs only: a source saved between load and
hashing (`cache.go:247`) stores old findings under the hash of the new source, and
with `EditsDuringRuns = TRUE` its properties fail. And
`UpdateKeepsAcceptedDebt` speaks of a file that is still the one the command
loaded: of two overlapping updates the later one drops what the earlier one
accepted, for nothing is held between `commands.go:390` and `:407`.

## Proofs

All theorems hold for every value of the constants that satisfies the
assumptions named in the component's module; nothing else is assumed, except
where a theorem says so (the two on warm parity, and those on warm runs, on type
graphs and on the checks, as said below).

**CheckPool_proofs.** `PoolTyped`, `GatheredOnce`, `QuietAfterReturn`,
`StatsConservation` and the refinement `PoolImplementsWorklist`, for any number
of groups, packages and processors. The invariants of the runs are not
inductive: that the collector may stop after as many done messages as there are
workers follows only from an account of where everything is. The inductive
invariant says that each job fed is in exactly one place (with a worker, in the
channel or gathered), that a worker's done message follows its results and is
its last, that the number of done messages collected and under way is the number
of workers that exited, and that the counters of a group equal the jobs counted
so far. The last needs cardinalities of sets that grow by one element, the facts
of `FiniteSetTheorems`. `PoolImplementsWorklist` maps each step to a step of
`Worklist` or a stutter.

Two theorems are the safety half of `RunReturns`. `NeverAllWaiting`: until the run
has returned, somebody can take a step. The guards are written out, since ENABLED
is beyond the prover; the invariant's account of places rules out the circle in
which the feeder waits for a worker, the workers for the collector and the
collector for done messages that nobody is left to send. `WorkRunsOut`: every step
takes at least one from the finite set `StepsLeft` of the steps that are yet to
come (to feed a job, take it, analyse it, hand it on, gather it, and so on for
workers and groups), which has at most twelve for each job and group. What TLC adds
is the fairness: that somebody who can take a step does.

**PackageCache_proofs.** `CacheTyped` and `OnlyOwnHits` hold whatever happens to
sources and directory; `WarmParity` (a report differs from a recomputation only in
what comes from behind the direct imports) has the assumption `Stable`: sources do
not change under a running process, and there is one checkout. With
`EditsDuringRuns = TRUE`, or a second checkout, it fails. `WarmParityOfImports` adds
when a report is the cold one: if no content is in error, and each package imports
every package whose types it can come to (`NothingBehind`). The inductive
invariant `CacheInv` ties the three places a finding can be: an entry on disk or
in a goroutine's hands was computed from inputs whose digests are its key; a memo
holds a digest of its own package over the APIs that were loaded; and so a key
that matches fixes what the findings were computed from.

`WarmRunsHit` (a run that follows a finished one on the same sources analyses
nothing) needs less about sources and more about names: `Quiet`, the first part
of `Stable`, and `OwnFiles`, that no two packages share an entry file. The
second is an assumption on the module under analysis: the code writes `_` for
`/` in package paths (`cache.go:146`), so that `a/b` and `a_b` would take turns. The
property speaks of a pair of runs, and its invariant `WarmInv` of what lies
between them: every entry was stored by a run for a load of its own (`OriginInv`);
the jobs a run has finished are the ones its goroutines no longer hold
(`AccountInv`) and have entries with its keys (`PresentInv`), which only a run
with another load, a failed store or the loss of power can take away; and where
neither happens between two runs (`BeforeInv`), the later one hits (`HitInv`).

`FirstHashStays` is an action property with no run of its own: when goroutines
race to hash a package that is being edited, the first hash stays.

**Baseline_proofs.** `BaselineTyped`, `OnlyReviewed`, `NothingHidden`,
`StaysLoadable`, `UpdatePasses` and the action property `UpdateKeeps`. The
invariant `BaselineInv` adds to the types that not only the entries of the file,
but also those of every document a command holds were reviewed: between loading
and writing, the reviewed entries live there only. That a review once given
stays given is a lemma of its own, used for every action. `UpdatePasses` relates
two commands that both have exited, so `VerdictInv` carries to the end what
each knew before: a document that was written accepts the findings of its command,
and no others if the command prunes (`WroteItsFindings`); and a check that exits
with 1 has an expired entry, a stale one where stale entries are errors, or a
finding that no unexpired entry accepts (`FailsForAReason`).

**Snapshot_proofs.** `TypesSurvive` and `CheckedAgainOnce` hold for any packages,
acyclic imports, files and failures. `SnapshotInv` follows the depth-first
re-check: the packages under check are on the stack once each, a package that is
over was checked again, and what a package has met so far is rebuilt wherever it
had to be (`Meets`); at the end either all of this holds of every target or
everything is as it was loaded (`AllRebuilt`, `RolledBack`). `TypesFromOneGraph`
and `ExcludedGone` speak of all that is reached along imports, and are false
without their hypotheses: a package the policy leaves without files keeps its
loaded snapshot, so it must import nothing that is checked again
(`EmptiedImportNoTarget`) and, for the second, have had no excluded file
(`EmptiedHadNoExcluded`). Both are conditions on sources and policy that hold when
every package keeps a file. The views are least sets, so the argument gives a
set that contains the package and is closed: rebuilt snapshots of targets, and
loaded ones of packages that reach no target.

**Findings_proofs.** Every property of the pipeline, for any registry in which
every group has a runner, and any sources, directives and edits: `FindingsTyped`,
`NothingVanishes`, `DirectivesAreHonoured`, `FingerprintsTellApart`, `RunsAgree`
and the action property `NamesAreStable`; and `PlanReportsSelection`: the groups
of a plan hand on exactly the findings of the selected checks. The invariant
`FindingsInv` says that sources keep their shape and each smell its place, and
that a report that is not older than its sources is one the pipeline can make of
them; the properties are then about one pass of the pipeline. `RunsAgree` and
`FingerprintsTellApart` count: of two findings of one identity and receiver at
different positions the later one has more positions up to its own, and at one
position the second finding is named like the first of its kind, which is why
the run is refused. `DirectivesAreHonoured` has to find, for a line of a
declaration, the line its header ends at; `NamesAreStable` compares the ranks of
a finding among its peers in two sources. What `NothingVanishes` says of a line in a
documented group of types is that some directive of its check stands in the group.

**Command_proofs.** `PassingHidesNothing`, `ExitCodesTell`, `ModesPromise` and
`OneScope`, for any worlds, calls and baselines. The invariant says, for each
place a run can be at, how what it holds follows from what it was given. What a
finding needs on its way is split into lemmas: a load names the same packages
whatever is required of it and says the truth about types (`LoadsSelected`), and a
smell that was asked for is found, or its file is excluded, or it needs types
that were given up or that a warning says are missing (`AskedIsDetected`).
`WorldsAssumption` asks of a world that a smell of a test stands in a variant of
its package that has the tests, and any other one in the package proper, and that
only checks with a fallback have smells this fallback misses.

`OneScope` is about the walk up the directories, which is a least set: what is
visited from the start, going on from a directory without a file. A walk visits
one directory with a file at most, all that is above the start lies on the walk or
above that directory, and without a file everything above was visited
(`WalkEnds`). This needs of directories only that no way up leads back
(`DirsAssumption`), so that one of two is above the other (`AboveOneWay`).

**FieldFlows_proofs.** `MemoOrderless` and `UnreadClosed`: for any fields, types
and uses (`PackageOK` gives the package its shape), what is remembered of a
field does not depend on the order of the search, and what is remembered as
unread flows into nothing that a selector of this package reads. An answer that is found inside a circle
rests on fields whose search has not ended, so neither is inductive.
`FlowInv` adds that a frame's field is not remembered and stands on the stack
once (`Fresh`), that what a frame has followed without success is remembered as
unread (`SearchedSoFar`), that each frame is a destination of the one below
(`AlongFlows`), that no set of unread fields closes a ring (`NoUnreadRing`), and
that a set as in `NeverConsumed` is never remembered as consumed
(`QuietStaysUnread`). `SearchEnds` counts what a search still has to do: fields to
ask about, to enter and to answer, and pairs of fields along which it may still
go. Circles cannot keep it alive, because a field on the stack is not entered.

**Checks_proofs.** One section for each group of checks.

`TheWidestAreLeft`: whichever clump the map yields first, those that remain are
the ones no wider clump contains; it needs finitely many parameters per function,
since a clump that subsumes another may itself be subsumed and the argument takes
the widest. `ParametersReportedOnce`: the pass with types leaves no second finding
for a parameter list, when positions belong to one function each
(`OwnPositions`).

`LayerSelection` and `DispatchSelection`: with any set of enabled checks the
report is the full report without the findings of the others; the invariants say
what has been reported after each turn, and what was left for the turns after.
`ParallelNamed`: whether a function leads a group depends on the functions before
it alone, so that leaders exist for a list of any length; a least length at which
they did not would have one before it at which they did.

`FamiliesOfChains` follows the two loops of union-find over pairs of sites. After
each pair some function `root` fits the parents (`Rooted`: it does not change along
them, and the way from a site leads to its root), and two sites have one root if
and only if no set that keeps the pairs united so far together parts them
(`RootClasses`). Uniting roots carries this on (`UnionJoins`); that the loops,
which are recursive functions, have values at all is `LoopExists`. Sites must stand
at different positions (`SitesListed`).

`VerdictsAgree` joins the search of `FieldFlows` with the walks of `InterfaceUse`:
what the check has asked about is remembered or in progress (`AskedIsKnown`), and
a method called on a field is a direct use, so no field is both unread and too
narrowly read. The fields usage-ratio overlooks uses of are excepted
(`Overlooked`). That an exempt interface has a consumer no ratio reports rests on
the thresholds being at least one (`thresholds.go:23`) and on finitely many
methods (`FinitePackage`).

`OriginsSettle`: a round that has changed nothing so far has found every
statement it has looked at settled; what the first loop has settled stays so in
the second, because a variable that loses its origin has nothing left to
propagate (`StaysSettled`). `AliasLoopsEnd` shows that there is such a round: a
variable gets an origin once and becomes ambiguous once, so the variables bound
the rounds, and each round has as many statements as the body.

The recursive functions of the checks are searches that enter no function twice on
one way. In rounds, as the model writes them, either a round enters a function more
or nothing is left to reach (`SearchReaches`), so as many rounds as there are
functions find the least set around the start that holds what its members lead to
(`Reached`): the functions of a transport workflow (`WorkflowsAreClosed`) and what a
factory returns (`ProductsAreReached`). For the methods of a type that set is a
connected component (`ClassesAreComponents`), though the code unites sets
(`srp_profile.go:855`). That the recursion has a value is `RepeatExists`.

`GroupsAreIndependent` refines `Checks` to the specification of each group, and
`ChecksKeepTheirPromises` carries the theorems of the groups over to a run.
`ChecksEnd` adds up what each group has left: a run of the checks ends, whichever
groups are planned.

Of the syntax the theorems ask that it is what a parser yields (`PackageOK`,
`ConstructorOK`, `FiniteParameters`, `OwnPositions`, `FunctionsListed`,
`SitesListed`, and that there are finitely many fields, variables, functions and
helpers); every program of `MCChecks` satisfies them.

**Checked by TLC only.** `RunReturns` is liveness under fairness, out of the
prover's reach, as is everything about ENABLED; `NeverAllWaiting` and `WorkRunsOut`
prove what of it is safety. Every other property of a passing run is a theorem. The
library states induction over data with an operator as parameter, beyond the
provers; where a proof needs one it is an argument by a least number
(`LeastNatural`, `IntervalInduction`) or by a least set instead. Theorems about the
groups of checks say that they end; that a scheduler lets them is not stated. No
module declares a RECURSIVE operator.

## Not modelled

* The walks over syntax that collect what the checks decide on: dispatch and
  factory sites (`ocp.go:101-193`), what a body uses, forwards, constructs or
  returns, complexity and lines, tables of names. Each is a match on one body;
  what they collect is the input of the modules above.
* SOLID-L: each finding is read off the statements of one method, without state,
  order or search. Of SOLID-I, stub implementations (`isp_stub.go`) and the
  splitting hint for queue workers.
* Of the finding pipeline: severity overrides and path excludes, which act on
  findings that have their names (`Command` has both, for the exit code);
  columns; the architecture requirements of coverage (`stats.go:142`); and
  `RunGroup` (`export.go:68`), through which drivers get findings without
  suppressions and without disambiguation.
* Of the cache key: the digest of the executable, which is remembered by path,
  size and time (`cache_key.go:132`), the pinning of modules by `go.mod` and
  `go.sum` (`cache_key.go:217`) and exclusion manifests; they are part of
  `Policies`.
* `baseline prune` run on part of the packages finds the entries of all others
  stale (`commands.go:400`): as documented, and no question of order.
* What go/packages does: a load is taken to read one consistent tree.
* YAML, JSON, SARIF and text as formats; parsing of single options; the
  rendering of statistics and examples; the adapters for other drivers.
* Import cycles during a rebuild (`workspace.go:545`), which Go does not have.

## Plan

Done: `CheckPool` with `Worklist`, `PackageCache`, `Baseline`, `Snapshot`,
`Selection` and `Findings`; `Configuration`, `WorkspaceLoad` and `Command`; the
check families but SOLID-L, with `Checks`; and the proofs named above. Left, in
order:

1. `CacheKey`: the digest of the executable and module pinning as a refinement
   of the keys `PackageCache` takes for granted.
2. The contracts of SOLID-L over small method bodies.
