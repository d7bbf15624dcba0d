SPECIFICATION Spec
CONSTANTS
  m1 = m1
  b1 = b1
  master = master
  buddy = buddy
  None = None
  NoRow = NoRow
  Cmds <- TwoCmds
  Kinds <- HaltKinds
  Trades = {m1}
  Accounts <- MCAccounts
  Master = master
  AccountOf <- MCAccountOf
  MaxNow = 1
  MaxCrashes = 2
  MaxFaults = 1
INVARIANTS HaltSurvivesRestart AnsweredInOrder
PROPERTIES EntryRespectsHalt
