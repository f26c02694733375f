SPECIFICATION ExportSpec
CONSTANTS
  ExportRetries = 2
  SourceOk = {TRUE, FALSE}
  Conflicts = {TRUE, FALSE}
INVARIANTS
  HealthIsTruthful
  DuplicationBounded
