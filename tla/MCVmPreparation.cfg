SPECIFICATION Spec
CONSTANTS
  p1 = p1
  p2 = p2
  None = None
  Processes = {p1, p2}
  Size <- MCSize
  EditsDuringBuild = TRUE
  MaxEdits = 1
  MaxEvents = 1
  MaxRepeats = 1
  Digests = {1, 2}
  Tags = {1, 2}
  Layers = {"a", "b"}
  LayersOf <- MCLayersOf
  FilesOf <- MCFilesOf
  Recipes = {"plain", "built"}
  Stages <- MCStages
  Todo <- MCTodo
  Tagged <- MCTagged
  Refresh = {p2}
  Prepares = {p2}
INVARIANTS
  RebuiltRuntimesAreCurrent
  RecordsAreComplete
  BuildsMatchTheirKey
  NotesMatchDisks
PROPERTIES
  PreparationEnds
