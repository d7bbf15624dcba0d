SPECIFICATION Spec
CONSTANTS
  btc = btc
  eth = eth
  master = master
  buddy = buddy
  Symbols = {btc}
  Accounts = {master, buddy}
  Master = master
  MaxOpen = 1
  MaxHour = 3
  MaxFailures = 1
  MaxCrashes = 1
  FeedMonotone = TRUE
INVARIANTS EnginesInSync
