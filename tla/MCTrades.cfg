SPECIFICATION Spec
CONSTANTS
  m1 = m1
  b1 = b1
  master = master
  buddy = buddy
  None = None
  NoRow = NoRow
  Cmds <- TwoCmds
  Kinds <- TradeKinds
  Trades = {m1, b1}
  Accounts <- MCAccounts
  Master = master
  AccountOf <- MCAccountOf
  MaxNow = 0
  MaxCrashes = 1
  MaxFaults = 1
INVARIANTS ConfirmedCloseIsClosed MasterInSync
PROPERTIES ConfirmedResetIsEmpty
