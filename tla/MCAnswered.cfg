SPECIFICATION FairSpec
CONSTANTS
  m1 = m1
  b1 = b1
  master = master
  buddy = buddy
  None = None
  NoRow = NoRow
  Cmds <- TwoCmds
  Kinds <- MixedKinds
  Trades = {m1}
  Accounts <- MCAccounts
  Master = master
  AccountOf <- MCAccountOf
  MaxNow = 0
  MaxCrashes = 1
  MaxFaults = 1
PROPERTIES CommandsAnswered
