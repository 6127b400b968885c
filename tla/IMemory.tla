------------------------------- MODULE IMemory -------------------------------
(***************************************************************************)
(* A client of shared memory (IMemory.cpp): it has received some of the    *)
(* server's Allocations as IMemory proxies and asks for their pointers.    *)
(*                                                                         *)
(* The server is MemoryDealer; its heap is one IMemoryHeap object.  In the *)
(* client, bp[m] is the BpMemory of m's Allocation, heaps[m] the           *)
(* BpMemoryHeap it made, and heaps[r] for r \in Real the BpMemoryHeap that *)
(* HeapCache made, whose mapping the others copy.  mBase names the real    *)
(* heap whose mapping it is; it becomes Gone when that is unmapped.        *)
(*                                                                         *)
(* BpMemory has no lock: threads take turns on one BpMemory.  They share   *)
(* the cache and the real heaps.                                           *)
(***************************************************************************)
EXTENDS MemoryDealer, FiniteSets

CONSTANTS Threads, Real,
          MayFail,      \* whether transactions and mmap may fail
          MaxCount      \* bound of the count of a cached heap

VARIABLES bp, heaps,
          mHeapCache,   \* the heap, and its count, of the server's heap binder
          th,
          failed        \* a transaction or an mmap has failed
clientVars == <<bp, heaps, mHeapCache, th, failed>>
allVars == <<vars, clientVars>>

MAP_FAILED == "MAP_FAILED"
Gone == "unmapped"
None == "none"

ASSUME ClientAssumption ==
    /\ IsFiniteSet(Callers) /\ IsFiniteSet(Threads) /\ Real # {}
    /\ Real \cap (Callers \cup {MAP_FAILED, Gone, None}) = {}
    /\ None \notin Callers \cup Threads

NoProxy == [alive |-> FALSE, mHeapId |-> FALSE, mBase |-> MAP_FAILED, mSize |-> 0,
            mRealHeap |-> FALSE, mLock |-> FALSE]
BpMemoryHeap == [NoProxy EXCEPT !.alive = TRUE]
NoMemoryProxy == [live |-> FALSE, mHeap |-> FALSE, mOffset |-> 0, mSize |-> 0]
Idle == [pc |-> "idle", m |-> None, r |-> None, o |-> 0, s |-> 0, then |-> None]

CInit == /\ Init
         /\ bp = [m \in Callers |-> NoMemoryProxy]
         /\ heaps = [h \in Callers \cup Real |-> NoProxy]
         /\ mHeapCache = [heap |-> None, count |-> 0]
         /\ th = [t \in Threads |-> Idle]
         /\ failed = FALSE

\* What MemoryHeapBase answers to HEAP_ID: the size it rounded up and mapped.
MemoryHeapBase_mSize == mHeapSize
\* What MemoryBase answers to GET_MEMORY.
MemoryBase_getMemory(m) == alloc[m]

-----------------------------------------------------------------------------
(* The server keeps an Allocation while the client has a proxy of it       *)

ServerStep(c) ==
    /\ \/ \E size \in Sizes : Allocate(c, size)
       \/ Construct(c)
       \/ Destroy(c) /\ ~bp[c].live
       \/ Deallocate(c)
    /\ UNCHANGED clientVars

Receive(m) ==
    /\ pc[m] = "held" /\ ~bp[m].live
    /\ bp' = [bp EXCEPT ![m] = [NoMemoryProxy EXCEPT !.live = TRUE]]
    /\ UNCHANGED <<vars, heaps, mHeapCache, th, failed>>

-----------------------------------------------------------------------------
(* HeapCache, each operation under mHeapCacheLock                          *)

\* interface_cast: a proxy of the heap binder, made anew each time.
Unused == CHOOSE r \in Real : ~heaps[r].alive

find_heap(t, next) ==
    /\ mHeapCache.count < MaxCount
    /\ IF mHeapCache.heap # None
       THEN /\ mHeapCache' = [mHeapCache EXCEPT !.count = @ + 1]
            /\ th' = [th EXCEPT ![t].pc = next, ![t].r = mHeapCache.heap]
            /\ UNCHANGED heaps
       ELSE /\ mHeapCache' = [heap |-> Unused, count |-> 1]
            /\ th' = [th EXCEPT ![t].pc = next, ![t].r = Unused]
            /\ heaps' = [heaps EXCEPT ![Unused] = BpMemoryHeap]

CacheFreedBelow == IF mHeapCache.heap = None THEN mHeapCache
                   ELSE [mHeapCache EXCEPT !.count = @ - 1]
CacheFreed == IF mHeapCache.heap = None THEN mHeapCache
              ELSE IF mHeapCache.count = 1 THEN [heap |-> None, count |-> 0]
              ELSE [mHeapCache EXCEPT !.count = @ - 1]
free_heap == mHeapCache' = CacheFreed

\* The real heaps that nobody has a reference to once the cache is c and thread t
\* has dropped its own: their destructors unmap.
Orphans(c, t) == {r \in Real : /\ heaps[r].alive /\ c.heap # r
                               /\ \A u \in Threads \ {t} : th[u].r # r}
Unmapped(hs, rs) ==
    [h \in DOMAIN hs |->
        IF h \in rs THEN NoProxy
        ELSE IF hs[h].mBase \in rs THEN [hs[h] EXCEPT !.mBase = Gone]
        ELSE hs[h]]

-----------------------------------------------------------------------------
(* IMemory::unsecurePointer by thread t: getMemory, then base              *)

Here(t, p) == th[t].pc = p
Goto(t, p) == th' = [th EXCEPT ![t].pc = p]

unsecurePointer(t, m) ==
    /\ Here(t, "idle") /\ bp[m].live
    /\ \A u \in Threads : th[u].m # m
    /\ th' = [th EXCEPT ![t].pc = IF bp[m].mHeap THEN "getMemory" ELSE "transact", ![t].m = m]
    /\ UNCHANGED <<vars, bp, heaps, mHeapCache, failed>>

\* The heap's binder in the reply becomes mHeap before the rest is checked.
GetMemory(t) ==
    LET m == th[t].m IN
    /\ Here(t, "transact")
    /\ \/ /\ bp' = [bp EXCEPT ![m].mHeap = TRUE]
          /\ heaps' = [heaps EXCEPT ![m] = BpMemoryHeap]
          /\ th' = [th EXCEPT ![t].pc = "assertMapped", ![t].then = "bounds",
                              ![t].o = MemoryBase_getMemory(m).offset,
                              ![t].s = MemoryBase_getMemory(m).size]
          /\ UNCHANGED failed
       \/ /\ MayFail /\ failed' = TRUE
          /\ Goto(t, "getMemory")
          /\ UNCHANGED <<bp, heaps>>
    /\ UNCHANGED <<vars, mHeapCache>>

assertMapped(t) ==
    /\ Here(t, "assertMapped")
    /\ IF heaps[th[t].m].mHeapId
       THEN Goto(t, th[t].then) /\ UNCHANGED <<heaps, mHeapCache>>
       ELSE find_heap(t, "assertReallyMapped")
    /\ UNCHANGED <<vars, bp, failed>>

\* HEAP_ID is asked for without the lock, ...
assertReallyMapped(t) ==
    /\ Here(t, "assertReallyMapped")
    /\ \/ heaps[th[t].r].mHeapId /\ Goto(t, "check") /\ UNCHANGED failed
       \/ ~heaps[th[t].r].mHeapId /\ Goto(t, "lock") /\ UNCHANGED failed
       \/ /\ ~heaps[th[t].r].mHeapId /\ MayFail /\ failed' = TRUE
          /\ Goto(t, "check")
    /\ UNCHANGED <<vars, bp, heaps, mHeapCache>>

\* ... the descriptor is mapped with it, unless another thread has done so.
MapHeap(t) ==
    LET r == th[t].r IN
    /\ Here(t, "lock") /\ ~heaps[r].mLock
    /\ \/ /\ heaps[r].mHeapId
          /\ Goto(t, "check") /\ UNCHANGED <<heaps, failed>>
       \/ /\ ~heaps[r].mHeapId
          /\ heaps' = [heaps EXCEPT ![r].mBase = r, ![r].mRealHeap = TRUE, ![r].mLock = TRUE]
          /\ Goto(t, "mSize") /\ UNCHANGED failed
       \/ /\ ~heaps[r].mHeapId /\ MayFail /\ failed' = TRUE
          /\ heaps' = [heaps EXCEPT ![r].mBase = MAP_FAILED, ![r].mRealHeap = TRUE]
          /\ Goto(t, "check")
    /\ UNCHANGED <<vars, bp, mHeapCache>>
SetSize(t) ==
    /\ Here(t, "mSize")
    /\ heaps' = [heaps EXCEPT ![th[t].r].mSize = MemoryHeapBase_mSize]
    /\ Goto(t, "mHeapId")
    /\ UNCHANGED <<vars, bp, mHeapCache, failed>>
SetHeapId(t) ==
    /\ Here(t, "mHeapId")
    /\ heaps' = [heaps EXCEPT ![th[t].r].mHeapId = TRUE, ![th[t].r].mLock = FALSE]
    /\ Goto(t, "check")
    /\ UNCHANGED <<vars, bp, mHeapCache, failed>>

\* Back in assertMapped, which looks at the real heap without its lock.  A heap
\* that is not mapped is left; then, or after the copy, so is the reference.
\* dup of a descriptor that is not there yet leaves mHeapId as it was.
Check(t) ==
    LET r == th[t].r IN
    /\ Here(t, "check")
    /\ IF heaps[r].mBase = MAP_FAILED
       THEN /\ free_heap
            /\ heaps' = Unmapped(heaps, Orphans(CacheFreed, t))
            /\ th' = [th EXCEPT ![t].pc = th[t].then, ![t].r = None]
       ELSE Goto(t, "copy") /\ UNCHANGED <<heaps, mHeapCache>>
    /\ UNCHANGED <<vars, bp, failed>>
\* The fields of the real heap do not change once it is mapped, so it makes no
\* difference that the code reads them one after the other.
CopyHeap(t) ==
    LET r == th[t].r
        m == th[t].m
    IN
    /\ Here(t, "copy")
    /\ heaps' = [Unmapped(heaps, Orphans(mHeapCache, t)) EXCEPT
                    ![m].mBase = heaps[r].mBase, ![m].mSize = heaps[r].mSize,
                    ![m].mHeapId = heaps[r].mHeapId]
    /\ th' = [th EXCEPT ![t].pc = th[t].then, ![t].r = None]
    /\ UNCHANGED <<vars, bp, mHeapCache, failed>>

\* getMemory again: the offset and the size must lie in the heap.
Bounds(t) ==
    LET m == th[t].m
        heapSize == heaps[m].mSize
        fits == th[t].s <= heapSize /\ th[t].o <= heapSize - th[t].s
    IN
    /\ Here(t, "bounds")
    /\ bp' = [bp EXCEPT ![m].mOffset = IF fits THEN th[t].o ELSE 0,
                        ![m].mSize = IF fits THEN th[t].s ELSE 0]
    /\ Goto(t, "getMemory")
    /\ UNCHANGED <<vars, heaps, mHeapCache, failed>>

\* A size of 0 makes the heap null, and so the pointer.
Return(t) == th' = [th EXCEPT ![t] = Idle]
HeapOrNull(t) ==
    /\ Here(t, "getMemory")
    /\ IF bp[th[t].m].mSize > 0
       THEN th' = [th EXCEPT ![t].pc = "assertMapped", ![t].then = "base"]
       ELSE Return(t)
    /\ UNCHANGED <<vars, bp, heaps, mHeapCache, failed>>
Base(t) ==
    /\ Here(t, "base")
    /\ IF heaps[th[t].m].mBase = MAP_FAILED THEN Return(t) ELSE Goto(t, "pointer")
    /\ UNCHANGED <<vars, bp, heaps, mHeapCache, failed>>
\* The caller has used the pointer.
Used(t) ==
    /\ Here(t, "pointer") /\ Return(t)
    /\ UNCHANGED <<vars, bp, heaps, mHeapCache, failed>>

\* The last reference to the BpMemory goes, and to its BpMemoryHeap.
DropUnmapped(m) ==
    /\ bp[m].live /\ \A u \in Threads : th[u].m # m
    /\ bp' = [bp EXCEPT ![m] = NoMemoryProxy]
    /\ free_heap
    /\ heaps' = Unmapped([heaps EXCEPT ![m] = NoProxy], Orphans(CacheFreed, None))
    /\ UNCHANGED <<vars, th, failed>>
Drop(m) ==
    /\ bp[m].live /\ \A u \in Threads : th[u].m # m
    /\ bp' = [bp EXCEPT ![m] = NoMemoryProxy]
    /\ IF heaps[m].mHeapId
       THEN /\ free_heap
            /\ heaps' = Unmapped([heaps EXCEPT ![m] = NoProxy], Orphans(CacheFreed, None))
       ELSE heaps' = [heaps EXCEPT ![m] = NoProxy] /\ UNCHANGED mHeapCache
    /\ UNCHANGED <<vars, th, failed>>

CNext == \/ \E c \in Callers : ServerStep(c) \/ Receive(c) \/ Drop(c)
         \/ \E t \in Threads :
               \/ \E m \in Callers : unsecurePointer(t, m)
               \/ GetMemory(t) \/ assertMapped(t) \/ assertReallyMapped(t)
               \/ MapHeap(t) \/ SetSize(t) \/ SetHeapId(t) \/ Check(t) \/ CopyHeap(t)
               \/ Bounds(t) \/ HeapOrNull(t) \/ Base(t) \/ Used(t)

CSpec == CInit /\ [][CNext]_allVars

-----------------------------------------------------------------------------
\* A pointer that a thread has got is into a mapping that is still there, to the
\* bytes of its own Allocation, which lives: the cache's count never falls below
\* the number of heaps that copied the mapping, whichever threads fail to map it.
PointersGood ==
    \A t \in Threads : Here(t, "pointer") =>
        LET m == th[t].m IN
        /\ heaps[m].mBase \in Real
        /\ [offset |-> bp[m].mOffset, size |-> bp[m].mSize] = alloc[m]
        /\ pc[m] = "held"

\* Once the client has dropped every IMemory, its mapping and its cache entry
\* are gone, unless a transaction or an mmap failed on the way.
MappingReleased ==
    (~failed /\ \A m \in Callers : ~bp[m].live) =>
        mHeapCache.heap = None /\ \A r \in Real : ~heaps[r].alive
=============================================================================
