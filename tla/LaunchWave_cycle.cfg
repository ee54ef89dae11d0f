SPECIFICATION FairSpec
CONSTANTS
  NumClients = 3
  LaunchWaveSize = 10
  BrowserMemory = 350
  MemoryReserve = 2048
  TotalMemory = 2900
  MaxSignals = 2
  MaxFaults = 1
INVARIANTS
  WaveStartsTogether
  SuccessIsReal
  LiveWithinWave
  RunnersAreRegistered
  CycleIsWhole

  
  
CHECK_DEADLOCK FALSE
