SPECIFICATION Spec
CONSTANTS
  Runs = {r1, r2}
  Workers = {w1, w2}
  Checkouts = {here}
  a = a
  b = b
  c = c
  v1 = v1
  v3 = v3
  bad = bad
  lost = lost
  Packages = {a, b, c}
  Imports <- MCImports
  Groups = {srp}
  ProgramGroups = {ocp}
  Policies = {p1}
  Contents = {v1, v3, bad, lost}
  API <- MCAPI
  Exposing = {"same"}
  IllTyped = {bad}
  Unresolved = {lost}
  InitialTrees <- OneTree
  FileKey <- MCFileKey
  EditsDuringRuns = FALSE
  MaxEdits = 1
  MaxPowerLosses = 1
  StoresMayFail = FALSE
  Program = Program
  NoEntry = NoEntry
  Torn = Torn
  NoDigest = NoDigest
  NoJob = NoJob
  NoReport = NoReport
SYMMETRY AllSymmetry
INVARIANTS TypeOK  WarmRunHits
