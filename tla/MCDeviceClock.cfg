CONSTANTS
  DbcSize = 4
  BufSize = 4
  Clock = 22
  FrameRate = 3
  CommandDelay = 1
  SeekBase = 4
  SeekRate = 40
  SkipRate = 9
  Turn = 1
  ScanStep = 2
  Preroll = 1
  Toc <- MCToc
  Leadout = 10
  CddaClock = 22
  CddaRate = 12
  SectorFrames = 4
  FifoSectors = 2
  Sample <- MCSample
  PcmPeriod = 4
  DmaPeriod = 3
  TimerDivisor = 2
  Pulse = 2
  Discs <- MCDiscs
  Programs <- MCPrograms
  Inits <- MCInits
  Full = 1024
  MaxWrites = 2
  Spans = {1, 3}
SPECIFICATION Spec
INVARIANTS Composable DeadlinesComplete AudioFed OwnedAgrees
CHECK_DEADLOCK FALSE
