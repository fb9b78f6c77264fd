CONSTANTS
  plain = plain
  refreshing = refreshing
  fix = fix
  build = build
  Drill = Drill
  Local = 0
  None = None
  Commands <- MCCommands
  Queries <- MCQueries
  Tasks = {fix, build}
  Archive <- MCArchive
  Options <- MCOptions
  LocalTrials <- MCLocalTrials
  InitialIndexes = {"absent", "ready"}
  DownloadAttempts = 2
  MaxFaults = 1
SPECIFICATION FairSpec
INVARIANTS
  ReportsAreOfOneRevision
  ManifestsHoldTheirRevision
PROPERTIES
  ComparisonsEnd
CHECK_DEADLOCK FALSE
