----------------------------- MODULE LockedPages -----------------------------
(***************************************************************************)
(* LockedPageManagerBase and secure_allocator (src/allocators.h): secrets  *)
(* are kept in memory pages that the operating system must not swap out.   *)
(* Locks of pages do not stack, so a count is kept for every page; ranges  *)
(* of several threads share pages.                                         *)
(***************************************************************************)
EXTENDS Integers, FiniteSets, Functions

CONSTANTS Allocators,        \* threads, each with at most one range
          HeapSize,          \* bytes of the heap, addresses 0 .. HeapSize - 1
          PageSize,          \* a power of two in the code
          RangeSizes         \* sizes that are asked for

ASSUME LockedPagesAssumption ==
    /\ IsFiniteSet(Allocators) /\ HeapSize \in Nat
    /\ PageSize \in Nat \ {0} /\ RangeSizes \subseteq Nat

VARIABLES histogram,      \* page -> count
          osLocked,       \* pages the system has locked
          refused,        \* pages whose last Lock failed: its result is not used
          range,          \* range[t]: [at, p, size], the memory a thread has
          secret          \* bytes that hold a secret

pageVars == <<histogram, osLocked, refused, range, secret>>

NoRange == [at |-> "none", p |-> 0, size |-> 0]
BytesOf(t) == range[t].p .. range[t].p + range[t].size - 1
Page(a) == (a \div PageSize) * PageSize

PagesOf(t) == {Page(a) : a \in BytesOf(t)}

PagesInit ==
    /\ histogram = <<>> /\ osLocked = {} /\ refused = {}
    /\ range = [t \in Allocators |-> NoRange] /\ secret = {}

\* std::allocator: any free bytes.
Allocate(t) ==
    /\ range[t].at = "none"
    /\ \E p \in 0 .. HeapSize - 1, n \in RangeSizes :
         /\ p + n <= HeapSize
         /\ \A u \in Allocators \ {t} : (p .. p + n - 1) \cap BytesOf(u) = {}
         /\ range' = [range EXCEPT ![t] = [at |-> "allocated", p |-> p, size |-> n]]
    /\ UNCHANGED <<histogram, osLocked, refused, secret>>

LockRange(t) ==
    /\ range[t].at = "allocated"
    /\ range' = [range EXCEPT ![t].at = "locked"]
    /\ LET new == PagesOf(t) \ DOMAIN histogram IN
       /\ histogram' = [q \in DOMAIN histogram \cup new |->
                          IF q \in new THEN 1 ELSE histogram[q] + (IF q \in PagesOf(t) THEN 1 ELSE 0)]
       /\ \E fails \in SUBSET new :
            osLocked' = osLocked \cup (new \ fails) /\ refused' = refused \cup fails
    /\ UNCHANGED secret

UseMemory(t) ==
    /\ range[t].at = "locked"
    /\ \E S \in SUBSET BytesOf(t) : secret' = secret \cup S
    /\ UNCHANGED <<histogram, osLocked, refused, range>>

\* deallocate: OPENSSL_cleanse, UnlockRange, then the memory is free.
Cleanse(t) ==
    /\ range[t].at = "locked"
    /\ secret' = secret \ BytesOf(t)
    /\ range' = [range EXCEPT ![t].at = "cleansed"]
    /\ UNCHANGED <<histogram, osLocked, refused>>

\* Variant: the pages are unlocked whatever else is on them, as munlock alone does.
UnlockAll(t) ==
    /\ range[t].at = "cleansed"
    /\ histogram' = Restrict(histogram, DOMAIN histogram \ PagesOf(t))
    /\ osLocked' = osLocked \ PagesOf(t)
    /\ refused' = refused \ PagesOf(t)
    /\ range' = [range EXCEPT ![t].at = "unlocked"]
    /\ UNCHANGED secret

UnlockRange(t) ==
    /\ range[t].at = "cleansed"
    /\ LET last == {q \in PagesOf(t) : histogram[q] = 1} IN
       /\ histogram' = [q \in DOMAIN histogram \ last |->
                          histogram[q] - (IF q \in PagesOf(t) THEN 1 ELSE 0)]
       /\ osLocked' = osLocked \ last
       /\ refused' = refused \ last
    /\ range' = [range EXCEPT ![t].at = "unlocked"]
    /\ UNCHANGED secret

FreeMemory(t) ==
    /\ range[t].at = "unlocked"
    /\ range' = [range EXCEPT ![t] = NoRange]
    /\ UNCHANGED <<histogram, osLocked, refused, secret>>

PagesNext == \E t \in Allocators :
    Allocate(t) \/ LockRange(t) \/ UseMemory(t) \/ Cleanse(t) \/ UnlockRange(t) \/ FreeMemory(t)

PagesSpec == PagesInit /\ [][PagesNext]_pageVars
----------------------------------------------------------------------------
\* A byte with a secret is in memory of its owner and, unless the system refused the lock, in a
\* locked page, whatever other threads lock and unlock on that page; and a page without such
\* memory is not kept locked.
SecretsLocked ==
    /\ \A a \in secret : /\ \E t \in Allocators : range[t].at = "locked" /\ a \in BytesOf(t)
                         /\ Page(a) \in osLocked \cup refused
    /\ osLocked \cup refused =
         UNION {PagesOf(t) : t \in {u \in Allocators : range[u].at \in {"locked", "cleansed"}}}
=============================================================================
