SPECIFICATION Spec
CONSTANTS
  c1 = c1  c2 = c2  f1 = f1  f2 = f2  r1 = r1  r2 = r2
  Absent = Absent  Unreadable = Unreadable  NoReason = NoReason
  NoDate = NoDate  BadDate = BadDate  NoDocument = NoDocument
  Commands = {c1, c2}
  Fingerprints = {f1, f2}
  Failing = {f1}
  Reasons = {r1, r2}
  Invocations <- MCInvocations
  InitialFiles <- MCInitialFiles
  InitialCode <- MCInitialCode
  MaxDay = 1
  MaxEdits = 2
  Faults = TRUE
SYMMETRY Symmetry
INVARIANTS
  TypeOK
  OnlyReviewedDebtIsAccepted
  PassingCheckHidesNothing
  UpdateThenCheckPasses
PROPERTIES
  FileStaysLoadable
  UpdateKeepsAcceptedDebt
CHECK_DEADLOCK FALSE
