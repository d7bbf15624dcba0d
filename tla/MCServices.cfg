SPECIFICATION Spec
CHECK_DEADLOCK FALSE
CONSTANTS
  Threads = {t1, t2}
  Writes = {1, 2, 3}
  NoThread = NoThread
  MaxDepth = 2
  MaxConnFaults = 2
  newer = newer
  older = older
  Processes = {newer, older}
  Supported <- MCSupported
  Statements <- MCStatements
  Repeatable = {2}
  NoProcess = NoProcess
  MaxMigFaults = 2
  Importers = {t1, t2}
  Files <- MCFiles
  TradeIds = {1, 2}
  Rows = {"line1", "line2"}
  NoTrade = NoTrade
  NoImporter = NoImporter
  MaxImports = 3
  MaxCommits = 4
  Requests = {t1, t2}
  TradeNos = {1, 2}
  NoRequest = NoRequest
  Threshold = 1
  Tolerance = 0
  NoState = NoState
  MaxTime = 2
  MaxBack = 1
  MaxOrders = 2
  MaxReadyCrashes = 2
  Clients = {t1, t2}
  SessionIds = {1, 2}
  Accounts = {"master", "buddy"}
  NoSession = NoSession
  MaxFailed = 2
  Window = 2
  Duration = 1
  MaxClock = 3
  MaxTries = 3
  Callers = {t1, t2}
  candles = candles
  ticker = ticker
  book = book
  Keys = {candles, ticker, book}
  TTL <- MCTTL
  MaxEntries = 2
  FetchTime = 1
  Unanswered = Unanswered
  MaxInstant = 4
  Alerts = {"opened", "closed"}
  NoAlert = NoAlert
  Cooldown = 2
  RequestTimeout = 1
  MaxWall = 3
  MaxSetBack = 1
  MaxSent = 3
INVARIANTS TypeOK
INVARIANTS BlocksAreAtomic SchemaIsSound ImportIsSafe ViewsAreSound
INVARIANTS ReadyIsBounded SessionsAreBound LimitIsFair CooldownIsRight
PROPERTIES CacheIsSound MigrationsEnd 
