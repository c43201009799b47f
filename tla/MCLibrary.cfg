SPECIFICATION lbSpec
CONSTANTS
  WaitingPeriod = 4
  LostDefault = 5
  LogRepetition = 3
  MaxMisses = 7
  TcCameras <- MCTcCameras
  TcProps <- MCTcProps
  TcBudgets <- MCTcBudgets
  SwCameras <- MCSwCameras
  SwRange <- MCSwRange
  SwTargets <- MCSwTargets
  SwGranularity = 4
  SwFrameLimits = {30, 60}
  SwBalances = {1, 2}
  SwCalls = 2
  ArImages <- MCArImages
  ArSteps = {0, 64, 128, 256}
  ArCalls = 4
  PkArchs = {"sse", "arm", "c"}
  PkWidths <- MCPkWidths
  ImArchs = {"sse", "arm", "c"}
  ImDims <- MCImDims
  ImLayouts = {"fcc8", "fcc16", "fcc12_mipi", "fcc10_mipi"}
  TpThreads = {1, 2}
  TpNames <- MCTpNames
  TpProps <- MCTpProps
  TpCameras <- MCTpCameras
  TpLists <- MCTpLists
  TpCalls = 2
  TpOpens = 2
  BkUnits <- MCBkUnits
  BkPaths <- MCBkPaths
  BkLayouts <- MCBkLayouts
  BkReplugs = 1
  BkCalls = 2
  DvUnits <- MCDvUnits
  DvThreads = {1, 2}
  DvCalls = 2
  DvFaults = 1
INVARIANTS
  SettingsHold
  MeasuresItsRegion
  FiltersHold
  NodesAreSafe
  PropertiesHold
  WindowFollowsSelection
PROPERTIES
  WarnAfterRowOfMisses
  EnteredValueIsWritten
  AppliesWhatCanBe
  BackendHolds
