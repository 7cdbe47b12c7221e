----------------------------- MODULE MCBaseline -----------------------------
(* Small instances of Baseline.                                            *)
EXTENDS Baseline, TLC

CONSTANTS c1, c2, f1, f2, r1, r2

Line(kind, annotation, prune, write, read, stale, expired) ==
  [kind |-> kind, annotation |-> annotation, prune |-> prune,
   write |-> write, read |-> read, staleError |-> stale, expiredError |-> expired]
For(reason, expires) == [reason |-> reason, expires |-> expires]
Baseline(kind, annotation, prune) ==
  Line(kind, annotation, prune, FALSE, TRUE, FALSE, FALSE)

\* Command lines: two reviewers, with and without an expiry, a bad date, and
\* every check policy.
MCInvocations ==
  { Baseline("init", For(r1, 0), FALSE),
    Baseline("update", For(r1, 1), FALSE), Baseline("update", For(r2, NoDate), TRUE),
    Baseline("update", For(r2, NoDate), FALSE),
    Baseline("update", For(r1, BadDate), FALSE),
    Baseline("prune", For(r2, NoDate), FALSE),
    Baseline("diff", NoAnnotation, FALSE),
    Line("check", NoAnnotation, FALSE, FALSE, TRUE, TRUE, FALSE),
    Line("check", NoAnnotation, FALSE, FALSE, TRUE, FALSE, TRUE),
    Line("check", For(r2, 0), FALSE, TRUE, TRUE, FALSE, FALSE),
    Line("check", NoAnnotation, FALSE, FALSE, FALSE, FALSE, FALSE) }

Entries(S, a) == [f \in S |-> a]
MCInitialFiles ==
  { Absent, Unreadable,
    [version |-> 4, entries |-> Entries({f1, f2}, NoAnnotation)],
    [version |-> 5, entries |-> Entries({f1}, For(r1, 0))] }
MCInitialCode == {{f1}, {f1, f2}}

Symmetry == Permutations(Commands)
=============================================================================
