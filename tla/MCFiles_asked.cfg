SPECIFICATION Spec
CONSTANTS
  Calls = {c1, c2, c3}
  Files = {1, 2}
  Chunks = 2
  Versions = 2
  Plans = {{1}, {1, 2}}
  MaxMishaps = 1
  None = None
  Broken = Broken
  Callers = {c1, c2, c3}
  Frames = {1, 2}
  Stems <- MCStems
  ExportName <- MCExportName
  SideFiles = {1}
  Capacity = 2
  MaxStops = 1
PROPERTY AnswersWhatWasAsked
CHECK_DEADLOCK FALSE
