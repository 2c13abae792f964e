INIT MCInit
NEXT MCNext
CONSTANTS
  SPeers = {"p", "q"}
  InboundPeers = {"q"}
  FarEnd <- MCFarEnd
  VersionMsgs <- MCVersions
  Alerts <- MCAlerts
  MIN_PROTO_VERSION = 2
  PROTOCOL_VERSION = 3
  strMySubVer = "a"
  maxInt = 9
  SessionBanScore = 2
  MaxNow = 2
  MaxNonce = 2
  RPeers = {"p"}
  t1 = t1
  t2 = t2
  datum1 = datum1
  datum2 = datum2
  Txs = {t1, t2}
  Data = {datum1, datum2}
  Bits <- MCBits
  Outs <- MCOuts
  PaysKey <- MCPaysKey
  Spends <- MCSpends
  SigData <- MCSigData
  RelayPeriod = 1
  MaxClock = 3
  MaxRelays = 2
  LocalThreads = {th1, th2}
  Locals = {1, 2, 3}
  PeerNodes = {"p", "q"}
  NetOf <- MCNetOf
  ReachOf <- MCReachOf
  Limits <- MCLimits
  FirstScores = {1, 3}
  ManualScore = 3
  MaxScore = 4
  MaxSockets = 2
  Workers = {w1, w2}
  Acceptors = {4, 6}
  RpcClients = {1, 2, 3}
  Allowed = {1, 2}
  MaxRequests = 2
  Allocators = {a1, a2}
  HeapSize = 6
  PageSize = 2
  RangeSizes = {1, 2, 3}
  LockThreads = {th1, th2}
  CritSections = {c1, c2, c3}
  MaxDepth = 3
  CoinTxs = {"t1"}
  MaskWidth = 2
  MaxOuts = 7
  CoinHeights = {1, 3}
  MaxBatches = 1
  MaxBlockTx = 7
  TxNames = {1, 2, 3}
  CodeBytes = {0, 90, 167, 255}
  Most64 = 4
  Most32 = 5
  Decimals = 4
  MaxWhole = 3
  Amounts <- MCAmounts
INVARIANTS
  AlertsKept RelayKept BestAdvertised SocketsAccounted
  ServerListens SecretsLocked DeadlockForetold CoinsExact BranchProves CodesExact
CHECK_DEADLOCK FALSE
