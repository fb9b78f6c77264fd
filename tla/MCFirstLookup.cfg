CONSTANTS
  plain = plain
  refreshing = refreshing
  fix = fix
  build = build
  Drill = Drill
  Local = 0
  None = None
  Commands <- OneCommand
  Queries <- OneQueries
  Tasks = {fix, build}
  Archive <- OneArchive
  Options <- MCOptions
  LocalTrials <- OneJob
  InitialIndexes = {"absent"}
  DownloadAttempts = 2
  MaxFaults = 0
SPECIFICATION FairSpec
INVARIANTS
  FirstLookupSucceeds
CHECK_DEADLOCK FALSE
