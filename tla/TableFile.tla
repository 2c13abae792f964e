------------------------------ MODULE TableFile ------------------------------
(***************************************************************************)
(* A sorted table file of LevelDB: building it (table_builder.cc,          *)
(* block_builder.cc, filter_block.cc, bloom.cc in src/leveldb/table and    *)
(* util), and reading it (table.cc, block.cc, two_level_iterator.cc).      *)
(*                                                                         *)
(* An internal key is a sequence of bytes, the user key, with the sequence *)
(* number as its last element.  A block is its entries, with shared        *)
(* prefixes cut off, and its restart points.  Sizes are counted in         *)
(* elements; values, checksums and compression are left out.               *)
(***************************************************************************)
EXTENDS Integers, Sequences, FiniteSets, SequencesExt

CONSTANTS TableKeys,              \* the internal keys that may be in a table
          MaxByte, MaxSeq,        \* 0xff and kMaxSequenceNumber
          RestartInterval,        \* block_restart_interval
          BlockSize,              \* block_size
          FilterBase,             \* kFilterBase
          BitsPerKey, Probes,     \* the filter policy
          HashOf,                 \* HashOf[u]: the hash of user key u
          MaxTableKeys            \* bound: entries of a table

User(k) == Front(k)
SeqNum(k) == Last(k)
Shorter(m, n) == IF m < n THEN m ELSE n

\* Slice::compare and InternalKeyComparator::Compare
BytesLess(a, b) ==
    \E i \in 1 .. Shorter(Len(a), Len(b)) + 1 :
        /\ \A j \in 1 .. i - 1 : a[j] = b[j]
        /\ i <= Len(b) /\ (i > Len(a) \/ a[i] < b[i])
KeyLess(a, b) == BytesLess(User(a), User(b)) \/ (User(a) = User(b) /\ SeqNum(a) > SeqNum(b))

VARIABLES toAdd,          \* the keys that are still to be added, in order
          content,        \* all keys of the table, in order
          builder,        \* TableBuilder::Rep
          cursor,         \* the two-level iterator; <<>>: none yet
          refPos,         \* where a cursor over content would be; 0: not valid
          lastOp          \* the last lookup: the key asked for and the answer

tableVars == <<toAdd, content, builder, cursor, refPos, lastOp>>
----------------------------------------------------------------------------
(* Comparator: short keys for the index.                                   *)

CommonLen(a, b) ==
    CHOOSE n \in 0 .. Shorter(Len(a), Len(b)) :
        /\ \A j \in 1 .. n : a[j] = b[j]
        /\ n = Shorter(Len(a), Len(b)) \/ a[n + 1] # b[n + 1]

FindShortestSeparator(start, limit) ==
    LET s == User(start)
        l == User(limit)
        d == CommonLen(s, l) + 1
        tmp == IF d <= Shorter(Len(s), Len(l)) /\ s[d] < MaxByte /\ s[d] + 1 < l[d]
               THEN Append(SubSeq(s, 1, d - 1), s[d] + 1) ELSE s
    IN  IF Len(tmp) < Len(s) /\ BytesLess(s, tmp) THEN Append(tmp, MaxSeq) ELSE start

FindShortSuccessor(key) ==
    LET s == User(key)
        up == {i \in DOMAIN s : s[i] # MaxByte}
        i == CHOOSE i \in up : \A j \in up : i <= j
        tmp == IF up = {} THEN s ELSE Append(SubSeq(s, 1, i - 1), s[i] + 1)
    IN  IF Len(tmp) < Len(s) /\ BytesLess(s, tmp) THEN Append(tmp, MaxSeq) ELSE key
----------------------------------------------------------------------------
(* BlockBuilder and FilterBlockBuilder.                                    *)

EmptyBlock == [entries |-> <<>>, restarts |-> <<1>>, counter |-> 0, last |-> <<>>, values |-> <<>>]

\* Variant: the entry at a restart point still shares a prefix with the one before it.
AddShared(block, key, value, interval) ==
    LET restart == block.counter >= interval
        shared == CommonLen(block.last, key)
    IN  [entries |-> Append(block.entries,
                            [shared |-> shared, delta |-> SubSeq(key, shared + 1, Len(key))]),
         restarts |-> IF restart THEN Append(block.restarts, Len(block.entries) + 1)
                                 ELSE block.restarts,
         counter |-> IF restart THEN 1 ELSE block.counter + 1,
         last |-> key,
         values |-> Append(block.values, value)]

\* BlockBuilder::Add
AddEntry(block, key, value, interval) ==
    LET restart == block.counter >= interval
        shared == IF restart THEN 0 ELSE CommonLen(block.last, key)
    IN  [entries |-> Append(block.entries,
                            [shared |-> shared, delta |-> SubSeq(key, shared + 1, Len(key))]),
         restarts |-> IF restart THEN Append(block.restarts, Len(block.entries) + 1)
                                 ELSE block.restarts,
         counter |-> IF restart THEN 1 ELSE block.counter + 1,
         last |-> key,
         values |-> Append(block.values, value)]

\* CurrentSizeEstimate
SizeOf(block) ==
    FoldLeft(LAMBDA n, e : n + 1 + Len(e.delta), Len(block.restarts) + 1, block.entries)

\* BloomFilterPolicy: bits are rounded up to whole bytes (of 2 bits here, 4 at least).
Bits(n) == LET b == IF n * BitsPerKey < 4 THEN 4 ELSE n * BitsPerKey IN ((b + 1) \div 2) * 2
ProbesOf(u, bits) == {(HashOf[u] + j * (HashOf[u] \div 3)) % bits : j \in 0 .. Probes - 1}
CreateFilter(ks) ==
    [bytes |-> Bits(Len(ks)) \div 2,
     bits |-> UNION {ProbesOf(User(ks[i]), Bits(Len(ks))) : i \in DOMAIN ks}]
NoFilter == [bytes |-> 0, bits |-> {}]
FilterMayMatch(u, f) == f.bytes # 0 /\ ProbesOf(u, f.bytes * 2) \subseteq f.bits

\* StartBlock: filters for every FilterBase bytes up to the new offset; the first takes all keys.
StartBlock(b, offset) ==
    LET missing == (offset \div FilterBase) - Len(b.filters) IN
    IF missing <= 0 THEN b
    ELSE [b EXCEPT !.filters = @ \o [i \in 1 .. missing |->
                                       IF i = 1 /\ b.filterKeys # <<>> THEN CreateFilter(b.filterKeys)
                                                                       ELSE NoFilter],
                   !.filterKeys = <<>>]
----------------------------------------------------------------------------
(* TableBuilder.                                                           *)

NewBuilder == [data |-> EmptyBlock, index |-> EmptyBlock, blocks |-> <<>>, offset |-> 0,
               pending |-> FALSE, filters |-> <<>>, filterKeys |-> <<>>, closed |-> FALSE]

\* Flush: the data block is written; its index entry waits for the next key.
FlushBlock(b) ==
    IF b.data.entries = <<>> THEN b
    ELSE StartBlock([b EXCEPT !.blocks = Append(@, [block |-> b.data, offset |-> b.offset]),
                              !.offset = @ + SizeOf(b.data) + 1,
                              !.data = EmptyBlock, !.pending = TRUE],
                    b.offset + SizeOf(b.data) + 1)

IndexEntry(b, key) ==
    IF b.pending
    THEN [b EXCEPT !.index = AddEntry(@, key, Len(b.blocks), 1), !.pending = FALSE] ELSE b

LastKey(b) == LET blk == b.blocks[Len(b.blocks)].block IN blk.last

AddToBuilder(b, key) ==
    LET b1 == IF b.pending THEN IndexEntry(b, FindShortestSeparator(LastKey(b), key)) ELSE b
        b2 == [b1 EXCEPT !.filterKeys = Append(@, key),
                         !.data = AddEntry(@, key, 0, RestartInterval)]
    IN  IF SizeOf(b2.data) >= BlockSize THEN FlushBlock(b2) ELSE b2

\* Finish: the rest is flushed, the last filter made, the last index entry added.
FinishBuilder(b) ==
    LET b1 == FlushBlock(b)
        b2 == IF b1.filterKeys = <<>> THEN b1
              ELSE [b1 EXCEPT !.filters = Append(@, CreateFilter(b1.filterKeys)), !.filterKeys = <<>>]
        b3 == IF b2.pending THEN IndexEntry(b2, FindShortSuccessor(LastKey(b2))) ELSE b2
    IN  [b3 EXCEPT !.closed = TRUE]
----------------------------------------------------------------------------
(* Block::Iter.                                                            *)

NoIter == [at |-> 0, next |-> 1, key |-> <<>>, ri |-> 0]
IterValid(it) == it.at # 0

ParseNextKey(blk, it) ==
    IF it.next > Len(blk.entries) \/ Len(it.key) < blk.entries[it.next].shared
    THEN [it EXCEPT !.at = 0]          \* no more entries, or CorruptionError
    ELSE LET e == blk.entries[it.next]
             later == {r \in it.ri .. Len(blk.restarts) :
                         \A q \in it.ri + 1 .. r : blk.restarts[q] < it.next}
         IN  [at |-> it.next, next |-> it.next + 1, key |-> SubSeq(it.key, 1, e.shared) \o e.delta,
              ri |-> CHOOSE r \in later : \A q \in later : q <= r]

SeekToRestartPoint(blk, r) == [at |-> 0, next |-> blk.restarts[r], key |-> <<>>, ri |-> r]

\* ParseNextKey again and again, until it fails or Stop holds.
ParseUntil(blk, it, Stop(_)) ==
    FoldLeft(LAMBDA x, i : IF i > 1 /\ (~IterValid(x) \/ Stop(x)) THEN x ELSE ParseNextKey(blk, x),
             it, [i \in 1 .. Len(blk.entries) + 1 |-> i])

\* The binary search finds the last restart point with a smaller key; a restart point
\* that shares a prefix is corrupt.
BlockSeek(blk, target) ==
    IF \E r \in 2 .. Len(blk.restarts) : blk.entries[blk.restarts[r]].shared # 0 THEN NoIter
    ELSE
    LET smaller == {r \in 2 .. Len(blk.restarts) :
                      KeyLess(blk.entries[blk.restarts[r]].delta, target)}
        left == IF smaller = {} THEN 1 ELSE CHOOSE r \in smaller : \A q \in smaller : q <= r
    IN  ParseUntil(blk, SeekToRestartPoint(blk, left), LAMBDA x : ~KeyLess(x.key, target))

BlockFirst(blk) == ParseNextKey(blk, SeekToRestartPoint(blk, 1))
BlockLast(blk) ==
    ParseUntil(blk, SeekToRestartPoint(blk, Len(blk.restarts)), LAMBDA x : x.next > Len(blk.entries))

BlockPrev(blk, it) ==
    LET before == {r \in 1 .. it.ri : blk.restarts[r] < it.at}
        r == CHOOSE r \in before : \A q \in before : q <= r
    IN  IF before = {} THEN [it EXCEPT !.at = 0]
        ELSE ParseUntil(blk, SeekToRestartPoint(blk, r), LAMBDA x : x.next >= it.at)
----------------------------------------------------------------------------
(* TwoLevelIterator: c.index over the index block, c.data over block c.b.  *)

IndexBlock == builder.index
DataBlock(b) == builder.blocks[b].block
Handle(ix) == IndexBlock.values[ix.at]

\* InitDataBlock keeps the data iterator when the handle is the same.
InitDataBlock(c) ==
    IF ~IterValid(c.index) THEN [c EXCEPT !.b = 0]
    ELSE IF c.b = Handle(c.index) THEN c
    ELSE [c EXCEPT !.b = Handle(c.index), !.data = NoIter]

Exhausted(c) == c.b = 0 \/ ~IterValid(c.data)

Skip(c, Move(_), Place(_)) ==
    FoldLeft(LAMBDA x, i : IF ~Exhausted(x) THEN x
                           ELSE IF ~IterValid(x.index) THEN [x EXCEPT !.b = 0]
                           ELSE LET y == InitDataBlock([x EXCEPT !.index = Move(@)])
                                IN  IF y.b = 0 THEN y ELSE [y EXCEPT !.data = Place(DataBlock(y.b))],
             c, [i \in 1 .. Len(builder.blocks) + 1 |-> i])

SkipForward(c) == Skip(c, LAMBDA ix : ParseNextKey(IndexBlock, ix), BlockFirst)
SkipBackward(c) == Skip(c, LAMBDA ix : BlockPrev(IndexBlock, ix), BlockLast)

NoCursor == [index |-> NoIter, b |-> 0, data |-> NoIter]
Placed(c, Place(_)) == IF c.b = 0 THEN c ELSE [c EXCEPT !.data = Place(DataBlock(c.b))]

TableSeek(c, t) ==
    SkipForward(Placed(InitDataBlock([c EXCEPT !.index = BlockSeek(IndexBlock, t)]),
                       LAMBDA blk : BlockSeek(blk, t)))
TableFirst(c) ==
    SkipForward(Placed(InitDataBlock([c EXCEPT !.index = BlockFirst(IndexBlock)]), BlockFirst))
TableLast(c) ==
    SkipBackward(Placed(InitDataBlock([c EXCEPT !.index = BlockLast(IndexBlock)]), BlockLast))
TableNext(c) == SkipForward([c EXCEPT !.data = ParseNextKey(DataBlock(c.b), @)])
TablePrev(c) == SkipBackward([c EXCEPT !.data = BlockPrev(DataBlock(c.b), @)])

\* FilterBlockReader::KeyMayMatch: a block without a filter may have any key.
FilterBlockMayMatch(offset, u) ==
    LET i == offset \div FilterBase
    IN  i < Len(builder.filters) => FilterMayMatch(u, builder.filters[i + 1])

\* Table::InternalGet: the key that the saver sees; none when the filter or the block has none.
InternalGet(k) ==
    LET ix == BlockSeek(IndexBlock, k)
        b == Handle(ix)
        it == BlockSeek(DataBlock(b), k)
    IN  IF ~IterValid(ix) THEN <<>>
        ELSE IF ~FilterBlockMayMatch(builder.blocks[b].offset, User(k)) THEN <<>>
        ELSE IF IterValid(it) THEN it.key ELSE <<>>
----------------------------------------------------------------------------
(* A table is built, then read.                                            *)

TableInit ==
    /\ \E K \in {S \in SUBSET TableKeys : S # {} /\ Cardinality(S) <= MaxTableKeys} :
           content = SetToSortSeq(K, KeyLess)
    /\ toAdd = content /\ builder = NewBuilder
    /\ cursor = <<>> /\ refPos = 0 /\ lastOp = <<>>

BuildTable ==
    /\ ~builder.closed
    /\ IF toAdd # <<>>
       THEN builder' = AddToBuilder(builder, Head(toAdd)) /\ toAdd' = Tail(toAdd)
       ELSE builder' = FinishBuilder(builder) /\ UNCHANGED toAdd
    /\ UNCHANGED <<content, cursor, refPos, lastOp>>

Moved(c, r) == cursor' = <<c>> /\ refPos' = r /\ UNCHANGED <<toAdd, content, builder, lastOp>>
Current == IF cursor = <<>> THEN NoCursor ELSE cursor[1]

FirstAtOrAfter(t) ==
    LET P == {i \in DOMAIN content : ~KeyLess(content[i], t)}
    IN  IF P = {} THEN 0 ELSE CHOOSE i \in P : \A j \in P : i <= j

MoveCursor ==
    /\ builder.closed
    /\ \/ Moved(TableFirst(Current), 1)
       \/ Moved(TableLast(Current), Len(content))
       \/ \E t \in TableKeys : Moved(TableSeek(Current, t), FirstAtOrAfter(t))
       \/ refPos # 0 /\ Moved(TableNext(Current), (refPos + 1) % (Len(content) + 1))
       \/ refPos # 0 /\ Moved(TablePrev(Current), refPos - 1)

LookUp ==
    /\ builder.closed /\ cursor = <<>>
    /\ \E t \in TableKeys : lastOp' = <<t, InternalGet(t)>>
    /\ UNCHANGED <<toAdd, content, builder, cursor, refPos>>

TableNextStep == BuildTable \/ MoveCursor \/ LookUp
----------------------------------------------------------------------------
\* Whatever the cuts into blocks, restart points and index keys, the iterator is where a cursor
\* over the sorted keys would be after the same calls, in both directions and across blocks;
\* and a lookup of a key whose user key the table has at that sequence number or an older one
\* finds the newest of them: neither an index key nor a filter hides it.
TableExact ==
    /\ cursor # <<>> =>
         /\ Exhausted(Current) <=> refPos = 0
         /\ refPos # 0 => Current.data.key = content[refPos]
    /\ lastOp # <<>> =>
         LET p == FirstAtOrAfter(lastOp[1])
         IN  p # 0 /\ User(content[p]) = User(lastOp[1]) => lastOp[2] = content[p]
=============================================================================
