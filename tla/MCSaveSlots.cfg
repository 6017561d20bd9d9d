SPECIFICATION Spec
CONSTANTS
  Slot = {s1}
  Other = other
  None = None
  MaxRequests = 2
  MaxVersion = 1
  PendingFrames = 2
INVARIANTS AnswersTruthful MachineWhole
PROPERTIES LoadIsLatest RequestAnswered
