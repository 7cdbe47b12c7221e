SPECIFICATION Spec
CONSTANTS
  Runs = {r1, r2}
  Workers = {w1}
  Checkouts = {here}
  a = a
  b = b
  c = c
  v1 = v1
  v3 = v3
  bad = bad
  lost = lost
  Packages = {a, b}
  Imports <- MCImports
  Groups = {srp}
  ProgramGroups = {ocp}
  Policies = {p1}
  Contents = {v1, bad}
  API <- MCAPI
  Exposing = {"same"}
  IllTyped = {bad}
  Unresolved = {}
  InitialTrees <- BrokenTree
  FileKey <- MCFileKey
  EditsDuringRuns = FALSE
  MaxEdits = 1
  MaxPowerLosses = 0
  StoresMayFail = FALSE
  Program = Program
  NoEntry = NoEntry
  Torn = Torn
  NoDigest = NoDigest
  NoJob = NoJob
  NoReport = NoReport
SYMMETRY RunSymmetry
INVARIANTS WarmEqualsCold
