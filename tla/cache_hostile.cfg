SPECIFICATION Spec
CONSTANTS
  Runs = {r1, r2}
  Workers = {w1}
  Checkouts = {here}
  a = a
  b = b
  c = c
  v1 = v1
  v3 = v3
  bad = bad
  lost = lost
  Packages = {a, b}
  Imports <- MCImports
  Groups = {srp}
  ProgramGroups = {ocp}
  Policies = {p1, p2}
  Contents = {v1, v3}
  API <- MCAPI
  Exposing = {"same"}
  IllTyped = {}
  Unresolved = {}
  InitialTrees <- OneTree
  FileKey <- MCCollidingKey
  EditsDuringRuns = TRUE
  MaxEdits = 2
  MaxPowerLosses = 1
  StoresMayFail = TRUE
  Program = Program
  NoEntry = NoEntry
  Torn = Torn
  NoDigest = NoDigest
  NoJob = NoJob
  NoReport = NoReport
SYMMETRY RunSymmetry
INVARIANTS HitsAreForThisJob
