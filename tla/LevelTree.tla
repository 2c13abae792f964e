------------------------------ MODULE LevelTree ------------------------------
(* The table files of a LevelDB database and their compaction               *)
(* (leveldb/db/version_set.cc and the compaction half of db_impl.cc).       *)
(*                                                                          *)
(* An entry is a user key, a sequence number and a type; its value is       *)
(* identified by the sequence number.  A file is its number and its set of  *)
(* entries, and every entry has size one.  The memtable is flushed by the   *)
(* background thread, alone or in the middle of a compaction.               *)
EXTENDS Integers, FiniteSets

CONSTANTS TreeKeys,            \* user keys, a set of naturals
          kNumLevels,
          kMaxMemCompactLevel,
          kL0_CompactionTrigger,
          kTargetFileSize,     \* also MaxFileSizeForLevel
          kMaxGrandParentOverlap,
          kExpandedLimit,
          MaxBytesForLevel,    \* [1 .. kNumLevels-1 -> Nat]
          ManualLevels,        \* levels a manual compaction is asked for
          MaxWrites,           \* bound: writes in a behaviour
          MaxSnapshots,        \* bound: snapshots held at a time
          MaxFiles             \* bound: file numbers

ASSUME TreeAssumption ==
    /\ TreeKeys \subseteq Nat /\ TreeKeys # {}
    /\ kMaxMemCompactLevel \in Nat /\ kNumLevels \in Nat
    /\ kMaxMemCompactLevel + 1 < kNumLevels
    /\ kTargetFileSize \in Nat \ {0} /\ kL0_CompactionTrigger \in Nat \ {0}
    /\ MaxBytesForLevel \in [1 .. kNumLevels - 1 -> Nat \ {0}]
    /\ kMaxGrandParentOverlap \in Nat /\ kExpandedLimit \in Nat
    /\ ManualLevels \subseteq 0 .. kNumLevels - 2
    /\ MaxWrites \in Nat /\ MaxSnapshots \in Nat /\ MaxFiles \in Nat

VARIABLES hist,          \* ghost: every entry ever written
          split,         \* ghost: keys that a merge divided between two files
          memtable,      \* entries not yet in a file
          files,         \* files of the current version, per level
          nextFile,
          compactPtr,    \* largest key of the last compaction of a level
          fileToCompact, \* number of a file that used up its seeks
          snapshots,
          manual,        \* TEST_CompactRange's request: its level and what is left
          compaction     \* the compaction under way

treeVars == <<hist, split, memtable, files, nextFile, compactPtr, fileToCompact,
              snapshots, manual, compaction>>

TreeLevels == 0 .. kNumLevels - 1
NoneYet == 0
NoCompaction == [level |-> -1]
NoRequest == [level |-> -1, begin |-> 0, queued |-> FALSE]
LastSequence == Cardinality(hist)

\* The internal key order: user keys ascending, sequence numbers descending.
Before(a, b) == a.key < b.key \/ (a.key = b.key /\ a.seq > b.seq)
FirstIn(E) == CHOOSE e \in E : \A o \in E \ {e} : Before(e, o)
LastIn(E) == CHOOSE e \in E : \A o \in E \ {e} : Before(o, e)
Smallest(f) == FirstIn(f.entries)
Largest(f) == LastIn(f.entries)

EntriesOf(F) == UNION {f.entries : f \in F}
TotalFileSize(F) == Cardinality(EntriesOf(F))  \* an entry is in one file

\* The order of a level's files, VersionSet::Builder::BySmallestKey.
BySmallestKey(f, g) ==
    \/ Before(Smallest(f), Smallest(g))
    \/ Smallest(f) = Smallest(g) /\ f.num < g.num
IsFirstOf(f, F) == f \in F /\ \A g \in F \ {f} : BySmallestKey(f, g)

OverlapsUser(f, lo, hi) == Smallest(f).key <= hi /\ Largest(f).key >= lo
Overlapping(F, lo, hi) == {f \in F : OverlapsUser(f, lo, hi)}
OverlapInLevel(v, level, lo, hi) == Overlapping(v[level], lo, hi) # {}

\* GetOverlappingInputs: in level 0 a file that widens the range restarts the
\* search, so the result is the least set that has every file overlapping it.
ClosedUnderOverlap(F, S, lo, hi) ==
    /\ Overlapping(F, lo, hi) \subseteq S
    /\ \A g \in S : Overlapping(F, Smallest(g).key, Largest(g).key) \subseteq S
GetOverlappingInputs(v, level, lo, hi) ==
    IF level = 0
    THEN {f \in v[0] : \A S \in SUBSET v[0] : ClosedUnderOverlap(v[0], S, lo, hi) => f \in S}
    ELSE Overlapping(v[level], lo, hi)

\* GetRange, in user keys (which is all its callers look at) and as the
\* largest internal key, which becomes the compaction pointer.
RangeLo(F) == FirstIn(EntriesOf(F)).key
RangeHi(F) == LastIn(EntriesOf(F)).key
RangeEnd(F) == LastIn(EntriesOf(F))

-----------------------------------------------------------------------------
(* Reading: DBImpl::Get and Version::Get. *)

\* What the first entry at or after the lookup key says in a set of entries.
NewestIn(E, k, snap) ==
    LET C == {e \in E : e.key = k /\ e.seq <= snap}
    IN  {e \in C : \A o \in C : o.seq <= e.seq}

\* FindFile: the first file whose largest key is not before the key, if any.
FindFile(F, key) ==
    LET C == {f \in F : ~ Before(Largest(f), key)} IN {f \in C : IsFirstOf(f, C)}

\* The files Version::Get looks into, each with its level.
Searched(v, k, snap) ==
    {a \in TreeLevels \X UNION {v[m] : m \in TreeLevels} :
        a[2] \in IF a[1] = 0 THEN Overlapping(v[0], k, k)
                 ELSE {g \in FindFile(v[a[1]], [key |-> k, seq |-> snap]) : Smallest(g).key <= k}}

\* Level by level, and the newest file of level 0 first.
SearchedFirst(a, A) ==
    /\ a \in A
    /\ \A b \in A \ {a} : a[1] < b[1] \/ (a[1] = 0 /\ b[1] = 0 /\ a[2].num > b[2].num)

\* Version::Get stops at the first file with an entry for the key.
VersionGet(v, k, snap) ==
    LET hits == {a \in Searched(v, k, snap) : NewestIn(a[2].entries, k, snap) # {}}
    IN  UNION {NewestIn(a[2].entries, k, snap) : a \in {h \in hits : SearchedFirst(h, hits)}}

\* The value found: nothing for a deletion or no entry.
Live(E) == {e \in E : e.type = "value"}
Get(k, snap) ==
    LET m == NewestIn(memtable, k, snap)
    IN  Live(IF m # {} THEN m ELSE VersionGet(files, k, snap))

-----------------------------------------------------------------------------
(* Versions: the level to compact next, and where a memtable goes. *)

\* Finalize: the first level with the largest score, as a fraction.
ScoreOf(v, level) ==
    IF level = 0 THEN <<Cardinality(v[0]), kL0_CompactionTrigger>>
    ELSE <<TotalFileSize(v[level]), MaxBytesForLevel[level]>>
Higher(s, t) == s[1] * t[2] > t[1] * s[2]
IsCompactionLevel(v, l) ==
    /\ l <= kNumLevels - 2
    /\ \A m \in 0 .. l - 1 : Higher(ScoreOf(v, l), ScoreOf(v, m))
    /\ \A m \in l + 1 .. kNumLevels - 2 : ~ Higher(ScoreOf(v, m), ScoreOf(v, l))
SizeCompaction(v) ==
    \E l \in 0 .. kNumLevels - 2 : ScoreOf(v, l)[1] >= ScoreOf(v, l)[2]

\* PickLevelForMemTableOutput: pushed down while the next level is free and
\* the one after it does not overlap too much.
MayPush(v, level, lo, hi) ==
    /\ ~ OverlapInLevel(v, level + 1, lo, hi)
    /\ TotalFileSize(GetOverlappingInputs(v, level + 2, lo, hi))
         <= kMaxGrandParentOverlap
PickLevelForMemTableOutput(v, lo, hi) ==
    IF OverlapInLevel(v, 0, lo, hi) THEN {0}
    ELSE {l \in 0 .. kMaxMemCompactLevel :
             /\ \A m \in 0 .. l - 1 : MayPush(v, m, lo, hi)
             /\ l < kMaxMemCompactLevel => ~ MayPush(v, l, lo, hi)}

-----------------------------------------------------------------------------
(* Choosing what to compact. *)

\* PickCompaction's first input of a size compaction: the first file beyond
\* the compaction pointer, else the first one of the level.
FileAfterPointer(level, f) ==
    LET after == {g \in files[level] : \A p \in compactPtr[level] : Before(p, Largest(g))}
    IN  IsFirstOf(f, IF after = {} THEN files[level] ELSE after)

\* SetupOtherInputs: the inputs of both levels, grown if that is free.
Expanded(level, in0, in1) ==
    IF in1 = {} THEN in0
    ELSE LET lo == RangeLo(in0 \cup in1)
             hi == RangeHi(in0 \cup in1)
             e0 == GetOverlappingInputs(files, level, lo, hi)
         IN  IF /\ Cardinality(e0) > Cardinality(in0)
                /\ TotalFileSize(in1) + TotalFileSize(e0) < kExpandedLimit
                /\ Cardinality(GetOverlappingInputs(files, level + 1, RangeLo(e0), RangeHi(e0)))
                     = Cardinality(in1)
             THEN e0 ELSE in0

Oldest(S) == CHOOSE s \in S : \A t \in S : s <= t
SetupOtherInputs(level, in0, isManual) ==
    LET in1 == GetOverlappingInputs(files, level + 1, RangeLo(in0), RangeHi(in0))
        all0 == Expanded(level, in0, in1)
        all == all0 \cup in1
    IN  [level |-> level, in0 |-> all0, in1 |-> in1, manual |-> isManual,
         grandparents |->
            IF level + 2 < kNumLevels
            THEN GetOverlappingInputs(files, level + 2, RangeLo(all), RangeHi(all)) ELSE {},
         version |-> files,
         \* DoCompactionWork, before it releases the mutex
         smallestSnapshot |-> IF snapshots = {} THEN LastSequence ELSE Oldest(snapshots)]

\* A size compaction of the level with the highest score, or else one of the
\* file that used up its seeks.
MayPick(level, f) ==
    IF SizeCompaction(files)
    THEN IsCompactionLevel(files, level) /\ FileAfterPointer(level, f)
    ELSE f.num = fileToCompact
PickCompaction(level, f) ==
    SetupOtherInputs(level,
        IF level = 0 THEN GetOverlappingInputs(files, 0, Smallest(f).key, Largest(f).key) ELSE {f},
        FALSE)

\* CompactRange from a key on: files in order until the size limit is reached.
FirstTreeKey == CHOOSE k \in TreeKeys : \A o \in TreeKeys : k <= o
LastTreeKey == CHOOSE k \in TreeKeys : \A o \in TreeKeys : o <= k
ManualInputs(level, lo) == GetOverlappingInputs(files, level, lo, LastTreeKey)
CompactRange(level, lo) ==
    LET inputs == ManualInputs(level, lo)
        SizeBefore(f) == TotalFileSize({g \in inputs \ {f} : BySmallestKey(g, f)})
    IN  SetupOtherInputs(level, {f \in inputs : SizeBefore(f) < kTargetFileSize}, TRUE)

IsTrivialMove(c) ==
    /\ ~ c.manual
    /\ Cardinality(c.in0) = 1 /\ c.in1 = {}
    /\ TotalFileSize(c.grandparents) <= kMaxGrandParentOverlap

-----------------------------------------------------------------------------
(* The merge: DBImpl::DoCompactionWork. *)

\* No file below the output level has the key in its range.
IsBaseLevelForKey(c, k) ==
    \A l \in c.level + 2 .. kNumLevels - 1 : ~ OverlapInLevel(c.version, l, k, k)

\* What is kept of the inputs: an entry hidden from every snapshot by a newer
\* one of its key is dropped, and so is a deletion that hides nothing.
Hidden(c, E, e) ==
    \E n \in E : n.key = e.key /\ n.seq > e.seq /\ n.seq <= c.smallestSnapshot

\* Variant: a deletion is dropped whatever is below.
DropDeletion(c, e) ==
    e.type = "deletion" /\ e.seq <= c.smallestSnapshot

DropObsoleteDeletion(c, e) ==
    /\ e.type = "deletion" /\ e.seq <= c.smallestSnapshot
    /\ IsBaseLevelForKey(c, e.key)
Kept(c, E, e) == ~ Hidden(c, E, e) /\ ~ DropObsoleteDeletion(c, e)

\* The entries of an output; placed has each entry with the number of its output.
Output(placed, i) == {p[2] : p \in {q \in placed : q[1] = i}}

\* One entry of the merge.  ShouldStopBefore adds up the grandparents passed
\* since it last said stop (those before the first key do not count); an
\* output is closed before the entry then, and after it when it is large.
MergeStep(c, E, st, e) ==
    LET gone == {g \in c.grandparents : Before(Largest(g), e)}
        ov == IF st.seen THEN st.overlap + TotalFileSize(gone \ st.passed) ELSE st.overlap
        stop == ov > kMaxGrandParentOverlap
        open == st.open /\ ~ stop
        kept == Kept(c, E, e)
        out == IF kept /\ ~ open THEN st.outputs + 1 ELSE st.outputs
        placed == IF kept THEN st.placed \cup {<<out, e>>} ELSE st.placed
    IN  [outputs |-> out, placed |-> placed, seen |-> TRUE, passed |-> gone,
         overlap |-> IF stop THEN 0 ELSE ov,
         open |-> (open \/ kept) /\ Cardinality(Output(placed, out)) < kTargetFileSize]

\* MakeInputIterator: the entries of all inputs in the order of their keys.
MakeInputIterator(E) ==
    [i \in 1 .. Cardinality(E) |-> CHOOSE e \in E : Cardinality({o \in E : Before(o, e)}) = i - 1]

Merged(c) ==
    LET E == EntriesOf(c.in0 \cup c.in1)
        entry == MakeInputIterator(E)
        start == [outputs |-> 0, placed |-> {}, seen |-> FALSE, passed |-> {}, overlap |-> 0,
                  open |-> FALSE]
        st[i \in 0 .. Cardinality(E)] ==
            IF i = 0 THEN start ELSE MergeStep(c, E, st[i - 1], entry[i])
    IN  st[Cardinality(E)]

\* The keys with entries in more than one output.
Divided(m) ==
    {k \in TreeKeys : \E p, q \in m.placed : p[1] # q[1] /\ p[2].key = k /\ q[2].key = k}

\* InstallCompactionResults: input deletions and outputs, applied to the
\* version that is current when the merge has ended.
Installed(c, m) ==
    [l \in TreeLevels |->
        CASE l = c.level -> files[l] \ c.in0
          [] l = c.level + 1 -> (files[l] \ c.in1)
               \cup {[num |-> nextFile + i - 1, entries |-> Output(m.placed, i)] : i \in 1 .. m.outputs}
          [] OTHER -> files[l]]

-----------------------------------------------------------------------------
TreeInit ==
    /\ hist = {} /\ split = {} /\ memtable = {} /\ nextFile = 1
    /\ files = [l \in TreeLevels |-> {}]
    /\ compactPtr = [l \in TreeLevels |-> {}]
    /\ fileToCompact = NoneYet /\ snapshots = {} /\ manual = NoRequest
    /\ compaction = NoCompaction

TreeWrite(k, t) ==
    /\ LastSequence < MaxWrites
    /\ LET e == [key |-> k, seq |-> LastSequence + 1, type |-> t]
       IN  hist' = hist \cup {e} /\ memtable' = memtable \cup {e}
    /\ UNCHANGED <<split, files, nextFile, compactPtr, fileToCompact, snapshots, manual, compaction>>

GetSnapshot ==
    /\ Cardinality(snapshots) < MaxSnapshots
    /\ snapshots' = snapshots \cup {LastSequence}
    /\ UNCHANGED <<hist, split, memtable, files, nextFile, compactPtr, fileToCompact, manual, compaction>>

ReleaseSnapshot(s) ==
    /\ s \in snapshots
    /\ snapshots' = snapshots \ {s}
    /\ UNCHANGED <<hist, split, memtable, files, nextFile, compactPtr, fileToCompact, manual, compaction>>

\* CompactMemTable: first thing in BackgroundCompaction, and between two
\* entries of a merge that is under way.
CompactMemTable ==
    /\ memtable # {} /\ nextFile < MaxFiles
    /\ LET f == [num |-> nextFile, entries |-> memtable]
       IN  \E level \in PickLevelForMemTableOutput(files, Smallest(f).key, Largest(f).key) :
               files' = [files EXCEPT ![level] = @ \cup {f}]
    /\ memtable' = {} /\ nextFile' = nextFile + 1 /\ fileToCompact' = NoneYet
    /\ UNCHANGED <<hist, split, compactPtr, snapshots, manual, compaction>>

\* A Get that read more than one file charges the first one (UpdateStats); the
\* charge may be the one that uses up the file's allowed seeks.
SeekCharged(k, s) ==
    /\ fileToCompact = NoneYet
    /\ NewestIn(memtable, k, s) = {}
    /\ \E a \in Searched(files, k, s) :
          /\ SearchedFirst(a, Searched(files, k, s))
          /\ Searched(files, k, s) # {a} /\ NewestIn(a[2].entries, k, s) = {}
          /\ fileToCompact' = a[2].num
    /\ UNCHANGED <<hist, split, memtable, files, nextFile, compactPtr, snapshots, manual, compaction>>

\* TEST_CompactRange: waits for its turn, and asks again for what is left of
\* the range until nothing is.
AskManual(level) ==
    /\ \/ manual = NoRequest /\ manual' = [level |-> level, begin |-> FirstTreeKey, queued |-> TRUE]
       \/ manual.level = level /\ ~ manual.queued /\ manual' = [manual EXCEPT !.queued = TRUE]
    /\ UNCHANGED <<hist, split, memtable, files, nextFile, compactPtr, fileToCompact, snapshots, compaction>>

\* BackgroundCompaction without a memtable to write: choose and begin.
PointerAfter(c) == [compactPtr EXCEPT ![c.level] = {RangeEnd(c.in0)}]
Begin(c) ==
    /\ compactPtr' = PointerAfter(c)
    /\ IF IsTrivialMove(c)
       THEN /\ files' = [files EXCEPT ![c.level] = @ \ c.in0, ![c.level + 1] = @ \cup c.in0]
            /\ fileToCompact' = NoneYet
            /\ UNCHANGED compaction
       ELSE compaction' = c /\ UNCHANGED <<files, fileToCompact>>
    /\ UNCHANGED <<hist, split, memtable, nextFile, snapshots, manual>>
BeginAutomatic ==
    /\ compaction = NoCompaction /\ ~ manual.queued
    /\ \E level \in TreeLevels : \E f \in files[level] :
          MayPick(level, f) /\ Begin(PickCompaction(level, f))
BeginManual ==
    /\ compaction = NoCompaction /\ manual.queued
    /\ ManualInputs(manual.level, manual.begin) # {}
    /\ Begin(CompactRange(manual.level, manual.begin))
ManualNothing ==
    /\ compaction = NoCompaction /\ manual.queued
    /\ ManualInputs(manual.level, manual.begin) = {}
    /\ manual' = NoRequest
    /\ UNCHANGED <<hist, split, memtable, files, nextFile, compactPtr, fileToCompact, snapshots, compaction>>

LastFileOf(F) == CHOOSE f \in F : \A g \in F \ {f} : BySmallestKey(g, f)
FinishCompaction ==
    /\ compaction # NoCompaction
    /\ LET m == Merged(compaction)
       IN  /\ nextFile + m.outputs <= MaxFiles
           /\ files' = Installed(compaction, m)
           /\ nextFile' = nextFile + m.outputs
           /\ split' = split \cup Divided(m)
    /\ compaction' = NoCompaction /\ fileToCompact' = NoneYet
    /\ manual' = IF compaction.manual
                 THEN [manual EXCEPT !.queued = FALSE,
                                     !.begin = Largest(LastFileOf(compaction.in0)).key]
                 ELSE manual
    /\ UNCHANGED <<hist, memtable, compactPtr, snapshots>>

\* An error leaves the version as it is; the outputs become obsolete files.
CompactionFails ==
    /\ compaction # NoCompaction
    /\ compaction' = NoCompaction
    /\ manual' = IF compaction.manual THEN NoRequest ELSE manual
    /\ UNCHANGED <<hist, split, memtable, files, nextFile, compactPtr, fileToCompact, snapshots>>

TreeNext ==
    \/ \E k \in TreeKeys, t \in {"value", "deletion"} : TreeWrite(k, t)
    \/ GetSnapshot
    \/ \E s \in snapshots : ReleaseSnapshot(s)
    \/ CompactMemTable
    \/ \E k \in TreeKeys, s \in snapshots \cup {LastSequence} : SeekCharged(k, s)
    \/ \E l \in ManualLevels : AskManual(l)
    \/ BeginAutomatic \/ BeginManual \/ ManualNothing
    \/ FinishCompaction \/ CompactionFails

TreeSpec == TreeInit /\ [][TreeNext]_treeVars

-----------------------------------------------------------------------------
(* Properties *)

\* A read, now or at a snapshot held, returns the newest write at or before it.
LookupCorrect(k) ==
    \A s \in snapshots \cup {LastSequence} : Get(k, s) = Live(NewestIn(hist, k, s))

\* "We can search level-by-level since entries never hop across levels.
\* Therefore we are guaranteed that if we find data in an smaller level, later
\* levels are irrelevant" (version_set.cc:306).
LookupsCorrect == \A k \in TreeKeys : LookupCorrect(k)

\* No flush, merge, drop, move or split hides or revives an entry of a key whose
\* entries no merge has divided between two files.  A later compaction may take the
\* newer of two such files alone, and put it below the older one.
WholeKeysCorrect == \A k \in TreeKeys \ split : LookupCorrect(k)

\* Files of a level above 0 do not overlap (asserted by MaybeAddFile), no two
\* files share a number, and a file in a running merge stays where it is.
LevelsDisjoint ==
    /\ \A l \in 1 .. kNumLevels - 1 : \A f, g \in files[l] :
           f # g => Before(Largest(f), Smallest(g)) \/ Before(Largest(g), Smallest(f))
    /\ \A l, m \in TreeLevels : \A f \in files[l], g \in files[m] :
           f.num = g.num => f = g /\ l = m
    /\ compaction # NoCompaction => /\ compaction.in0 \subseteq files[compaction.level]
                            /\ compaction.in1 \subseteq files[compaction.level + 1]

\* A manual compaction of level 0 may leave an older file of a key behind when its
\* size limit cuts the inputs, and one into a level that memtables are written to may
\* find a new file between its inputs.  Nothing in this program calls CompactRange.
ManualBelowFlushes == \A l \in ManualLevels : l > 0 /\ l >= kMaxMemCompactLevel

\* The shape of the levels and what is found in them.
TreeSound == WholeKeysCorrect /\ LevelsDisjoint
=============================================================================
