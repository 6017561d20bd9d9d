SPECIFICATION Spec
CONSTANTS
  Size = 6
  Header = 2
  Payload = {0, 3, 4}
  MaxCommands = 4
INVARIANTS CommandsIntact ReportTruthful
PROPERTIES LastInputFlushed
