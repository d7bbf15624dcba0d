SPECIFICATION Spec
CONSTANTS
  btc = btc
  NoRow = NoRow
  Symbols = {btc}
  Markets <- MCMarkets
  MinDepth = 2
  Share = 2
  Notionals = {1, 2}
  MaxAge = 1
  SpecMaxAge = 0
  MinInterval = 1
  RequestTime = 1
  MaxNow = 2
  NoSignal = NoSignal
  NoPlan = NoPlan
  Tick = 3
  Step = 2
  MinQty = 3
  MinNotional = 60
  SlipBps = 500
  Prices <- MCPrices
  HalfAtrs <- MCHalfAtrs
  Budgets <- MCBudgets
  Interval = 2
  MaxChunk = 2
  Series <- MCSeries
  NoSeries = NoSeries
  BarCounts <- MCBarCounts
  Warmups = {0, 2}
  SimWarmups = {0, 2}
  FoldCounts = {1, 2}
  MaxTrades = 1
  NoWalk = NoWalk
  Bins = 4
  Width = 4
  Unit = 2
  PriorWeight = 4
  Prior <- MCPrior
  Scores <- MCScores
  Floor = 1
  FloorUnit = 5
  MaxTally = 5
  Candles <- MCCandles
  EntryGrain = 400
  Distances = {2, 800}
  FloorDiv = 10
  Sizes = {0, 2}
  HoldBars = 2
  StartMoney = 0
  Scale = 20
  SlipPart = 1
  FeeScale = 20
  Taker = 2
  Maker = 1
  MaxBars = 4
  NoneActive = NoneActive
INVARIANTS TypeOK
INVARIANTS GateIsSound PlansAreSound BackfillIsExact
INVARIANTS TradesAreOutOfSample FoldsAreWhole FitIsRight
INVARIANTS MoneyAddsUp SameExits
