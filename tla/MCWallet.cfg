INIT MCInit
NEXT MCNext
CONSTANTS
  Users = {"u", "v"}
  MaxUpdates = 2
  MaxRestarts = 1
  Holders = {h1, h2}
  Passphrases = {1, 2}
  KeyPoolSize = 1
  MaxKeys = 5
  MaxCrashes = 1
  CoinValues = {1, 2, 3, 4, 7}
  Depths = {0, 1, 6}
  Payments = {1, 2, 3, 4}
  CENT = 3
  nMinTxFee = 1
  nTransactionFee = 0
  DustLimit = 2
  MaxCoins = 3
  Addresses = {1, 2, 3, 4}
  Senders = {s1, s2}
  Funds = {11}
  Copies = {21}
  CopyOf <- MCCopyOf
  MaxSends = 2
  MaxStops = 1
  MaxItems = 4
  MaxLoads = 4
  a1 = a1
  a2 = a2
  Addrs = {a1, a2}
  Ports = {1}
  Sources = {a1, a2}
  TriedBuckets = {0}
  NewBuckets = {0, 1}
  TriedBucketOf <- OneTriedBucket
  NewBucketOf <- BucketOfSource
  ADDRMAN_TRIED_BUCKET_SIZE = 1
  ADDRMAN_NEW_BUCKET_SIZE = 1
  ADDRMAN_NEW_BUCKETS_PER_ADDRESS = 2
  ADDRMAN_TRIED_ENTRIES_INSPECT_ON_EVICT = 4
  ADDRMAN_RETRIES = 1
  ADDRMAN_MAX_FAILURES = 2
  ADDRMAN_GETADDR_MAX_PCT = 0
  ADDRMAN_GETADDR_MAX = 2
  Minute = 0
  Delorean = 0
  Horizon = 2
  MinFail = 1
  Day = 1
  Hour = 0
  Connectivity = 0
  Times = {1}
  Penalties = {1}
  MaxIds = 2
  MaxAttempts = 1
  NoFile = NoFile
  OldFiles <- NothingSaved
INVARIANTS
  HandlesAlive WalletDurable KeysSurvive GivenOnce PaymentGood
  GroupsExact PositionsSound SpentNotOffered
PROPERTY FileExact
CHECK_DEADLOCK FALSE
