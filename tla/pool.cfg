SPECIFICATION FairSpec
CONSTANTS
  PackageGroups <- MCPackageGroups
  ProgramGroups <- MCProgramGroups
  NumPackages = 2
  MaxProcs = 2
INVARIANTS TypeOK EveryJobGatheredOnce PoolQuietAfterReturn StatsAccountForAllWork
PROPERTIES RunReturns ImplementsWorklist
