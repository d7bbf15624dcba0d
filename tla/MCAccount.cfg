SPECIFICATION Spec
CONSTANTS
  t1 = t1
  t2 = t2
  t3 = t3
  btc = btc
  eth = eth
  Trades = {t1, t2}
  Symbols = {btc, eth}
  Plans <- BothSides
  Bars <- FewBars
  Reasons <- TwoReasons
  Limits <- OneOrTwo
  MaxHold = 2
  StartEquity = 1000
  PriceScale = 10
  Slip = 1
  FeeScale = 100
  TakerFee = 3
  MakerFee = 1
  MayClear = TRUE
  MaxHour = 2
INVARIANTS EquityExact ReloadFaithful WorstCaseIsStop
PROPERTIES Exposure ClosedIsFinal
