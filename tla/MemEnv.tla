-------------------------------- MODULE MemEnv --------------------------------
(***************************************************************************)
(* The in-memory file system that a LevelDB database uses when it is       *)
(* opened with fMemory (src/leveldb/helpers/memenv/memenv.cc, NewMemEnv in *)
(* src/leveldb.cpp): names map to reference-counted FileStates, which stay *)
(* alive under open files when their name is deleted, replaced or renamed. *)
(*                                                                         *)
(* InMemoryEnv is an EnvWrapper: what it does not define itself, it takes  *)
(* from the environment below it (PosixEnv).                               *)
(*                                                                         *)
(* The byte at offset i of a file is <<i>>, one not written yet <<>>.      *)
(***************************************************************************)
EXTENDS PosixEnv

CONSTANTS MemNames,          \* file names
          Slots,             \* file objects the user holds at the same time, numbered
          MemBlock,          \* FileState::kBlockSize
          MaxBytes           \* bound: size of a file

ASSUME MemAssumption ==
    IsFiniteSet(MemNames) /\ IsFiniteSet(Slots) /\ MemBlock \in Nat \ {0} /\ MaxBytes \in Nat

FileIds == 1 .. Cardinality(MemNames) + Cardinality(Slots)

VARIABLES fileMap,        \* file_map_: name -> FileState, 0: none
          fileRefs,       \* refs_ of a FileState; 0: deleted
          fileBlocks,     \* blocks_, with the bytes written so far
          open            \* the user's file objects: [kind, id, pos]

memVars == <<fileMap, fileRefs, fileBlocks, open>>

Closed == [kind |-> "closed", id |-> 0, pos |-> 0]
Byte(blocks, i) == blocks[(i \div MemBlock) + 1][(i % MemBlock) + 1]
\* size_: bytes of the last block that were not written are <<>>.
SizeIn(blocks) == Cardinality({i \in 0 .. Len(blocks) * MemBlock - 1 : Byte(blocks, i) # <<>>})
----------------------------------------------------------------------------
(* FileState::Append and Read.                                             *)

NewBlock == [i \in 1 .. MemBlock |-> <<>>]

AppendByte(blocks) ==
    LET size == SizeIn(blocks)
        room == IF size % MemBlock = 0 THEN Append(blocks, NewBlock) ELSE blocks
    IN  [room EXCEPT ![Len(room)] = [@ EXCEPT ![(size % MemBlock) + 1] = <<size>>]]
AppendBytes(blocks, n) ==
    LET after[i \in 0 .. n] == IF i = 0 THEN blocks ELSE AppendByte(after[i - 1])
    IN  after[n]

ReadBytes(blocks, offset, n) ==
    LET size == SizeIn(blocks)
        count == IF n > size - offset THEN size - offset ELSE n
    IN  [i \in 1 .. count |-> Byte(blocks, offset + i - 1)]
----------------------------------------------------------------------------
MemInit ==
    /\ fileMap = [f \in MemNames |-> 0]
    /\ fileRefs = [d \in FileIds |-> 0] /\ fileBlocks = [d \in FileIds |-> <<>>]
    /\ open = [s \in Slots |-> Closed]

UnrefFile(r, d) == IF d = 0 THEN r ELSE [r EXCEPT ![d] = @ - 1]

\* "delete this" with the last reference
DeleteUnreferenced ==
    /\ fileBlocks' = [d \in FileIds |-> IF fileRefs'[d] = 0 THEN <<>> ELSE fileBlocks[d]]

\* The file objects are alike: a new one takes the first free number.
FreeSlot(s) == open[s] = Closed /\ \A t \in Slots : open[t] = Closed => s <= t

\* NewSequentialFile, NewRandomAccessFile
OpenForReading(s, f, kind) ==
    /\ FreeSlot(s) /\ fileMap[f] # 0
    /\ fileRefs' = [fileRefs EXCEPT ![fileMap[f]] = @ + 1]
    /\ open' = [open EXCEPT ![s] = [kind |-> kind, id |-> fileMap[f], pos |-> 0]]
    /\ UNCHANGED <<fileMap, fileBlocks>>

\* NewWritableFile: an existing file is deleted first; the new one has two references.
OpenForWriting(s, f) ==
    /\ FreeSlot(s)
    /\ LET r == UnrefFile(fileRefs, fileMap[f])
           d == CHOOSE x \in FileIds : r[x] = 0 /\ \A y \in FileIds : r[y] = 0 => x <= y
       IN  /\ fileRefs' = [r EXCEPT ![d] = 2]
           /\ fileMap' = [fileMap EXCEPT ![f] = d]
           /\ fileBlocks' = [x \in FileIds |-> IF x = d \/ r[x] = 0 THEN <<>> ELSE fileBlocks[x]]
           /\ open' = [open EXCEPT ![s] = [kind |-> "write", id |-> d, pos |-> 0]]

\* "concurrent access is not allowed to writable files" (memenv.cc)
AppendFile(s, n) ==
    LET d == open[s].id IN
    /\ open[s].kind = "write"
    /\ \A t \in Slots : open[t].id = d => t = s
    /\ SizeIn(fileBlocks[d]) + n <= MaxBytes
    /\ fileBlocks' = [fileBlocks EXCEPT ![d] = AppendBytes(@, n)]
    /\ UNCHANGED <<fileMap, fileRefs, open>>

Expected(d, offset, n) ==
    LET size == SizeIn(fileBlocks[d])
    IN  [i \in 1 .. IF offset + n > size THEN size - offset ELSE n |-> <<offset + i - 1>>]

\* SequentialFile::Read advances by what it got; RandomAccessFile::Read changes nothing.
ReadFile(s, n) ==
    LET d == open[s].id
        at == open[s].pos
    IN  /\ open[s].kind = "sequential"
        /\ \A t \in Slots : open[t].id = d => open[t].kind # "write"
        /\ open' = [open EXCEPT ![s] = [@ EXCEPT !.pos = at + Len(ReadBytes(fileBlocks[d], at, n))]]
        /\ UNCHANGED <<fileMap, fileRefs, fileBlocks>>

SkipBytes(s, n) ==
    LET size == SizeIn(fileBlocks[open[s].id])
        at == open[s].pos
    IN  /\ open[s].kind = "sequential"
        /\ \A t \in Slots : open[t].id = open[s].id => open[t].kind # "write"
        /\ open' = [open EXCEPT ![s] = [@ EXCEPT !.pos = IF at + n > size THEN size ELSE at + n]]
        /\ UNCHANGED <<fileMap, fileRefs, fileBlocks>>

CloseFile(s) ==
    /\ open[s] # Closed
    /\ fileRefs' = [fileRefs EXCEPT ![open[s].id] = @ - 1]
    /\ open' = [open EXCEPT ![s] = Closed]
    /\ DeleteUnreferenced
    /\ UNCHANGED fileMap

DeleteFile(f) ==
    /\ fileMap[f] # 0
    /\ fileRefs' = UnrefFile(fileRefs, fileMap[f])
    /\ fileMap' = [fileMap EXCEPT ![f] = 0]
    /\ DeleteUnreferenced
    /\ UNCHANGED open

\* RenameFile(src, target), which the database calls with different names.
RenameFile(f, g) ==
    /\ f # g /\ fileMap[f] # 0
    /\ fileRefs' = UnrefFile(fileRefs, fileMap[g])
    /\ fileMap' = [fileMap EXCEPT ![g] = fileMap[f], ![f] = 0]
    /\ DeleteUnreferenced
    /\ UNCHANGED open

MemNext ==
    \/ \E s \in Slots, f \in MemNames :
         \/ OpenForReading(s, f, "sequential") \/ OpenForReading(s, f, "random")
         \/ OpenForWriting(s, f)
    \/ \E s \in Slots, n \in 1 .. MaxBytes : AppendFile(s, n) \/ ReadFile(s, n) \/ SkipBytes(s, n)
    \/ \E s \in Slots : CloseFile(s)
    \/ \E f \in MemNames : DeleteFile(f)
    \/ \E f, g \in MemNames : RenameFile(f, g)

MemSpec == MemInit /\ [][MemNext]_memVars
----------------------------------------------------------------------------
\* A FileState lives exactly as long as a name or an open file refers to it, so an open file keeps
\* its content when its name is deleted, replaced or renamed and nothing stays behind; no reader is
\* beyond the end of its file; and a read gives the bytes that were appended, across the blocks they
\* are kept in.
MemFilesExact ==
    /\ \A d \in FileIds :
         fileRefs[d] = Cardinality({f \in MemNames : fileMap[f] = d})
                       + Cardinality({s \in Slots : open[s].id = d})
    /\ \A s \in Slots : open[s] # Closed => open[s].pos <= SizeIn(fileBlocks[open[s].id])
    /\ \A s \in Slots : open[s].kind \in {"sequential", "random"} =>
         \A at \in 0 .. SizeIn(fileBlocks[open[s].id]), n \in 1 .. MaxBytes :
           ReadBytes(fileBlocks[open[s].id], at, n) = Expected(open[s].id, at, n)

\* The two kinds of files keep what was written to them: the files of the memory file
\* system, shared by their users, and the file written through a moving window.
FilesExact == MemFilesExact /\ MappedFileExact
=============================================================================
