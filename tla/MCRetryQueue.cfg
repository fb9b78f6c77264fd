SPECIFICATION QueueSpec
CONSTANTS
  fix = fix
  build = build
  None = None
  t1 = t1
  t2 = t2
  Terminals = {t1, t2}
  Tasks = {fix, build}
  Commands <- MCCommands
  Outcomes = {"passed", "failed"}
  Policies = {1, 2}
  MaxCommands = 3
  OldJobs <- MCOldJobs
  OldLastRun = 1
INVARIANTS
  LineagesEnd
PROPERTIES
  RetriesHideNothing
  InterruptedRetryResumes
SYMMETRY MCSymmetry
