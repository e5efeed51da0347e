SPECIFICATION Spec
CONSTANTS
  e1 = e1
  e2 = e2
  e3 = e3
  all = all
  readme = readme
  notes = notes
  zip = zip
  NoEntry = NoEntry
  Nothing = Nothing
  Entries = {e1, e2, e3, all}
  All = all
  Names = {readme, notes, zip}
  BaseName <- MCBaseName
  Phases = {"download", "decrypt", "unzip"}
  MaxClicks = 2
  MaxStops = 1
  MaxAttempts = 2
INVARIANTS
  OwnFileSaved
PROPERTIES
  FinishedLinesStay
  ButtonsComeBack
  StagedFilesForgotten
CHECK_DEADLOCK FALSE
