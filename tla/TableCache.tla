------------------------------ MODULE TableCache ------------------------------
(***************************************************************************)
(* The table cache and the block cache of LevelDB: a shard of the LRU      *)
(* cache (src/leveldb/util/cache.cc) used by several threads through       *)
(* TableCache::FindTable (src/leveldb/db/table_cache.cc) and, with the     *)
(* same steps, Table::BlockReader (src/leveldb/table/table.cc): look up    *)
(* under the mutex, open the file without it, insert under it again.       *)
(*                                                                         *)
(* A handle is a number; malloc gives a free number again.                 *)
(***************************************************************************)
EXTENDS Integers, FiniteSets, SequencesExt

CONSTANTS Readers,          \* threads, each using at most one entry
          CachedFiles,      \* file numbers: the keys; the hash of a key is its number
          Capacity,         \* capacity_ of the shard, every charge is 1
          FirstLength       \* 4 in the code: the first length of the hash table

ASSUME CacheAssumption ==
    /\ Capacity \in Nat /\ FirstLength \in Nat \ {0} /\ CachedFiles \subseteq Nat
    /\ IsFiniteSet(Readers) /\ IsFiniteSet(CachedFiles)

Handles == 1 .. Cardinality(Readers) + Cardinality(CachedFiles)

VARIABLES refs,           \* refs[h]; 0: h is free memory
          keyOf,          \* keyOf[h]: the key of h
          lru,            \* the list, oldest first
          usage,          \* usage_
          buckets,        \* list_: the handles of each chain
          elems,          \* elems_
          reader          \* reader[t]: [at, key, h]

cacheVars == <<refs, keyOf, lru, usage, buckets, elems, reader>>

IdleReader == [at |-> "idle", key |-> 0, h |-> 0]

\* The state of a shard, on which the operations below work.
Cache == [key |-> keyOf, refs |-> refs, lru |-> lru, usage |-> usage, chains |-> buckets, n |-> elems]

SetCache(c) ==
    /\ keyOf' = c.key /\ refs' = c.refs /\ lru' = c.lru /\ usage' = c.usage
    /\ buckets' = c.chains /\ elems' = c.n
----------------------------------------------------------------------------
(* HandleTable.                                                            *)

\* "hash & (length_ - 1)": the length is FirstLength doubled some times, in the code a power of two.
Bucket(key, length) == (key % length) + 1
InChain(c, key) == {h \in c.chains[Bucket(key, Len(c.chains))] : c.key[h] = key}
TableLookup(c, key) == IF InChain(c, key) = {} THEN 0 ELSE CHOOSE h \in InChain(c, key) : TRUE

\* "new_length *= 2" until it is not below the number of entries
GrowLength(n) ==
    LET doubled[i \in 0 .. n] == IF i = 0 THEN FirstLength ELSE 2 * doubled[i - 1]
    IN  doubled[CHOOSE i \in 0 .. n : doubled[i] >= n /\ \A j \in 0 .. n : doubled[j] >= n => i <= j]

\* Every entry goes to its new chain.
Resize(c) ==
    LET length == GrowLength(c.n)
        entries == UNION {c.chains[b] : b \in DOMAIN c.chains}
    IN  [c EXCEPT !.chains =
            [b \in 1 .. length |-> {h \in entries : Bucket(c.key[h], length) = b}]]

\* A new entry takes the place of one with its key; otherwise the table may have to grow.
TableInsert(c, h) ==
    LET old == TableLookup(c, c.key[h])
        b == Bucket(c.key[h], Len(c.chains))
        placed == [c EXCEPT !.chains = [c.chains EXCEPT ![b] = (@ \ {old}) \cup {h}]]
        longer == [placed EXCEPT !.n = @ + 1]
    IN  IF old # 0 THEN placed
        ELSE IF longer.n > Len(longer.chains) THEN Resize(longer) ELSE longer

TableRemove(c, key) ==
    LET old == TableLookup(c, key)
        b == Bucket(key, Len(c.chains))
    IN  IF old = 0 THEN c
        ELSE [c EXCEPT !.chains = [c.chains EXCEPT ![b] = @ \ {old}], !.n = @ - 1]
----------------------------------------------------------------------------
(* LRUCache.                                                               *)

Unref(c, h) ==
    [c EXCEPT !.refs = [c.refs EXCEPT ![h] = @ - 1], !.usage = IF c.refs[h] = 1 THEN @ - 1 ELSE @]
LruRemove(c, h) ==
    [c EXCEPT !.lru = RemoveAt(@, CHOOSE i \in DOMAIN c.lru : c.lru[i] = h)]
LruAppend(c, h) == [c EXCEPT !.lru = Append(@, h)]

\* Variant: the entry that is replaced keeps the reference of the cache.
DropKept(c, h) == IF h = 0 THEN c ELSE LruRemove(c, h)

\* An entry leaves the cache; readers that hold it keep it alive.
DropHandle(c, h) == IF h = 0 THEN c ELSE Unref(LruRemove(c, h), h)

\* The oldest entries leave until the others fit, or none is left.
WithinCapacity(c) == c.usage <= Capacity \/ c.lru = <<>>
EvictOne(c) ==
    LET old == c.lru[1]
    IN  IF WithinCapacity(c) THEN c ELSE Unref(TableRemove(LruRemove(c, old), c.key[old]), old)
EvictOldest(c) ==
    LET turn[i \in 0 .. Len(c.lru)] == IF i = 0 THEN c ELSE EvictOne(turn[i - 1])
    IN  turn[Len(c.lru)]

InsertHandle(c, h, key) ==
    LET old == TableLookup(c, key)
        fresh == [c EXCEPT !.key = [c.key EXCEPT ![h] = key], !.refs = [c.refs EXCEPT ![h] = 2], !.usage = @ + 1]
    IN  EvictOldest(DropHandle(TableInsert(LruAppend(fresh, h), h), old))
----------------------------------------------------------------------------
CacheInit ==
    /\ refs = [h \in Handles |-> 0] /\ keyOf = [h \in Handles |-> 0]
    /\ lru = <<>> /\ usage = 0 /\ elems = 0
    /\ buckets = [b \in 1 .. FirstLength |-> {}]
    /\ reader = [t \in Readers |-> IdleReader]

\* FindTable: Lookup takes a reference and makes the entry the newest one.
LookupTable(t, k) ==
    /\ reader[t] = IdleReader
    /\ LET h == TableLookup(Cache, k) IN
       IF h = 0
       THEN /\ reader' = [reader EXCEPT ![t] = [at |-> "opening", key |-> k, h |-> 0]]
            /\ UNCHANGED <<refs, keyOf, lru, usage, buckets, elems>>
       ELSE /\ reader' = [reader EXCEPT ![t] = [at |-> "using", key |-> k, h |-> h]]
            /\ SetCache(LruAppend(LruRemove([Cache EXCEPT !.refs = [refs EXCEPT ![h] = @ + 1]], h), h))

\* The file could not be opened or read: errors are not cached.
OpenFails(t) ==
    /\ reader[t].at = "opening"
    /\ reader' = [reader EXCEPT ![t] = IdleReader]
    /\ UNCHANGED <<refs, keyOf, lru, usage, buckets, elems>>

\* Insert, also when another thread has inserted the same key meanwhile.
InsertTable(t) ==
    /\ reader[t].at = "opening"
    /\ LET h == CHOOSE x \in Handles : refs[x] = 0 /\ \A y \in Handles : refs[y] = 0 => x <= y
       IN  /\ SetCache(InsertHandle(Cache, h, reader[t].key))
           /\ reader' = [reader EXCEPT ![t] = [at |-> "using", key |-> @.key, h |-> h]]

\* Get is done, or the iterator is deleted (UnrefEntry).
ReleaseTable(t) ==
    /\ reader[t].at = "using"
    /\ SetCache(Unref(Cache, reader[t].h))
    /\ reader' = [reader EXCEPT ![t] = IdleReader]

\* Evict, when the file is deleted.
EvictTable(k) ==
    /\ UNCHANGED reader
    /\ LET h == TableLookup(Cache, k)
       IN  h # 0 /\ SetCache(DropHandle(TableRemove(Cache, k), h))

CacheNext ==
    \/ \E t \in Readers : OpenFails(t) \/ InsertTable(t) \/ ReleaseTable(t)
    \/ \E t \in Readers, k \in CachedFiles : LookupTable(t, k)
    \/ \E k \in CachedFiles : EvictTable(k)

CacheSpec == CacheInit /\ [][CacheNext]_cacheVars
----------------------------------------------------------------------------
\* Every reference is accounted for: what a thread uses is not freed or given to another key,
\* nothing is kept that neither the list nor a thread knows, usage_ counts what is alive, and the
\* capacity is exceeded only by entries that are in use and no longer in the cache; the hash table,
\* through its resizing, has exactly the entries of the list, each in its chain and each key once.
CacheSound ==
    /\ \A h \in Handles :
         refs[h] = Cardinality({t \in Readers : reader[t].h = h}) + (IF Contains(lru, h) THEN 1 ELSE 0)
    /\ \A t \in Readers : reader[t].h # 0 => keyOf[reader[t].h] = reader[t].key
    /\ usage = Cardinality({h \in Handles : refs[h] > 0})
    /\ usage <= Capacity \/ lru = <<>>
    /\ elems = Len(lru)
    /\ \A i, j \in DOMAIN lru : keyOf[lru[i]] = keyOf[lru[j]] => i = j
    /\ \A b \in DOMAIN buckets :
         buckets[b] = {h \in Handles : Contains(lru, h) /\ Bucket(keyOf[h], Len(buckets)) = b}
=============================================================================
