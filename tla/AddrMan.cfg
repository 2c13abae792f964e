SPECIFICATION Spec
CONSTANTS
    Addrs = {a1, a2, a3}
    Ports = {1}
    Sources = {a1, a2}
    TriedBuckets = {0}
    NewBuckets = {0, 1}
    TriedBucketOf <- OneTriedBucket
    NewBucketOf <- BucketOfSource
    ADDRMAN_TRIED_BUCKET_SIZE = 1
    ADDRMAN_NEW_BUCKET_SIZE = 1
    ADDRMAN_NEW_BUCKETS_PER_ADDRESS = 2
    ADDRMAN_TRIED_ENTRIES_INSPECT_ON_EVICT = 4
    ADDRMAN_RETRIES = 1
    ADDRMAN_MAX_FAILURES = 2
    ADDRMAN_GETADDR_MAX_PCT = 50
    ADDRMAN_GETADDR_MAX = 2
    Minute = 0
    Delorean = 0
    Horizon = 2
    MinFail = 1
    Day = 1
    Hour = 0
    Connectivity = 0
    Times = {1}
    Penalties = {1}
    MaxIds = 4
    MaxAttempts = 1
INVARIANT TablesExact
PROPERTY ImplementsBook
