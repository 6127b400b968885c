---------------------------- MODULE MemoryDealer ----------------------------
(***************************************************************************)
(* MemoryDealer: pieces of one shared heap, handed out by a best fit       *)
(* allocator and given back when the Allocation object dies               *)
(* (MemoryDealer.cpp, a build without NDEBUG).                             *)
(*                                                                         *)
(* mList is the list of chunks, in the order of their start, as a function *)
(* of the start; starts and sizes count units of kMemoryAlign bytes.       *)
(* Each caller has at most one Allocation.  No caller of allocate passes   *)
(* PAGE_ALIGNED, so "extra" is 0 throughout.                               *)
(***************************************************************************)
EXTENDS Integers

CONSTANTS Callers, Sizes,       \* those who allocate, and the sizes they ask for
          HeapBytes,            \* the size asked for the heap
          kMemoryAlign, PageSize

ASSUME AlignAssumption == kMemoryAlign \in Nat \ {0}
ASSUME PageAssumption == PageSize \in Nat \ {0}
ASSUME PagesOfUnits == PageSize % kMemoryAlign = 0
ASSUME HeapAssumption == HeapBytes \in Nat
ASSUME SizesAssumption == Sizes \subseteq Nat

VARIABLES mList,
          pc,           \* idle, refused, constructing, held or freeing
          alloc,        \* the offset and the size of a caller's Allocation, in bytes
          overwritten   \* those whose bytes someone else wrote while they held them

vars == <<mList, pc, alloc, overwritten>>

PageUp(n) == n + ((-n) % PageSize)
PageDown(n) == n - (n % PageSize)

mHeapSize == PageUp(HeapBytes)

Init == /\ mList = [s \in {0} |-> [size |-> mHeapSize \div kMemoryAlign, free |-> TRUE]]
        /\ pc = [c \in Callers |-> "idle"]
        /\ alloc = [c \in Callers |-> [offset |-> 0, size |-> 0]]
        /\ overwritten = {}

-----------------------------------------------------------------------------
Starts == DOMAIN mList
\* Sizes and the heap are below the limits of size_t, where the sum would wrap,
\* and of the 28 bits that a chunk has for its units.
Units(size) == (size + kMemoryAlign - 1) \div kMemoryAlign

\* The chunk that alloc takes: the first of the smallest that are large enough.
Fits(s, n) == mList[s].free /\ mList[s].size >= n
BestFit(s, n) ==
    /\ Fits(s, n)
    /\ \A t \in Starts : Fits(t, n) =>
          \/ mList[s].size < mList[t].size
          \/ mList[s].size = mList[t].size /\ s <= t

\* The list with n units of chunk s taken, the rest being a chunk after it.
Taken(s, n) ==
    LET rest == IF mList[s].size > n THEN {s + n} ELSE {}
    IN  [t \in Starts \cup rest |->
            IF t = s THEN [size |-> n, free |-> FALSE]
            ELSE IF t \in rest THEN [size |-> mList[s].size - n, free |-> TRUE]
            ELSE mList[t]]

\* MemoryDealer::allocate.  Nothing is taken for a size of 0, at offset 0.
Allocate(c, size) ==
    /\ pc[c] \in {"idle", "refused"}
    /\ \/ /\ size = 0
          /\ alloc' = [alloc EXCEPT ![c] = [offset |-> 0, size |-> 0]]
          /\ pc' = [pc EXCEPT ![c] = "constructing"]
          /\ UNCHANGED mList
       \/ /\ size > 0
          /\ \E s \in Starts :
                /\ BestFit(s, Units(size))
                /\ mList' = Taken(s, Units(size))
                /\ alloc' = [alloc EXCEPT ![c] = [offset |-> s * kMemoryAlign, size |-> size]]
                /\ pc' = [pc EXCEPT ![c] = "constructing"]
       \/ /\ size > 0
          /\ \A s \in Starts : ~Fits(s, Units(size))
          /\ pc' = [pc EXCEPT ![c] = "refused"]
          /\ UNCHANGED <<mList, alloc>>
    /\ UNCHANGED overwritten

\* The bytes of an Allocation, and the whole pages in it.
ByteRange(lo, hi) == [lo |-> lo, hi |-> hi]
BytesOf(c) == ByteRange(alloc[c].offset, alloc[c].offset + alloc[c].size)
PagesIn(c) == ByteRange(PageUp(alloc[c].offset), PageDown(alloc[c].offset + alloc[c].size))
Overlap(r, s) == r.lo < s.hi /\ s.lo < r.hi /\ r.lo < r.hi /\ s.lo < s.hi

\* c writes range r: the others who hold some of it lose what they wrote.
Hit(c, r) == {d \in Callers \ {c} : pc[d] = "held" /\ Overlap(r, BytesOf(d))}

\* The constructor of Allocation fills the memory, and its owner writes it.
Construct(c) ==
    /\ pc[c] = "constructing"
    /\ overwritten' = overwritten \cup Hit(c, BytesOf(c))
    /\ pc' = [pc EXCEPT ![c] = "held"]
    /\ UNCHANGED <<mList, alloc>>

\* The destructor of Allocation.  The whole pages in it are filled with 0xdf and
\* given back to the kernel first, ...
DestroyAnySize(c) ==
    /\ pc[c] = "held"
    /\ overwritten' = (overwritten \cup Hit(c, PagesIn(c))) \ {c}
    /\ pc' = [pc EXCEPT ![c] = "freeing"]
    /\ UNCHANGED <<mList, alloc>>
Destroy(c) ==
    /\ pc[c] = "held"
    /\ IF alloc[c].size = 0
       THEN pc' = [pc EXCEPT ![c] = "idle"] /\ overwritten' = overwritten \ {c}
       ELSE /\ overwritten' = (overwritten \cup Hit(c, PagesIn(c))) \ {c}
            /\ pc' = [pc EXCEPT ![c] = "freeing"]
    /\ UNCHANGED <<mList, alloc>>

\* ... then the chunk is free.  It goes into the one before it if that is free,
\* and the free ones that follow go into it.
Prev(p, s) == p < s /\ \A t \in Starts : ~(p < t /\ t < s)
InRunAlone(t, s) == t = s
InRun(t, s) == /\ s <= t
               /\ \A u \in Starts : (s < u /\ u <= t) => mList[u].free
Merged(b, e) ==
    [t \in {u \in Starts : ~(b < u /\ u <= e)} |->
        IF t = b THEN [size |-> e + mList[e].size - b, free |-> TRUE] ELSE mList[t]]
Joins(s, b) == Prev(b, s) /\ mList[b].free
Dealloc(s) ==
    \E b, e \in Starts :
        /\ Joins(s, b) \/ (b = s /\ \A t \in Starts : ~Joins(s, t))
        /\ InRun(e, s) /\ \A t \in Starts : InRun(t, s) => t <= e
        /\ mList' = Merged(b, e)
Deallocate(c) ==
    /\ pc[c] = "freeing"
    /\ LET start == alloc[c].offset \div kMemoryAlign
       IN  IF start \in Starts THEN Dealloc(start) ELSE UNCHANGED mList
    /\ pc' = [pc EXCEPT ![c] = "idle"]
    /\ alloc' = [alloc EXCEPT ![c] = [offset |-> 0, size |-> 0]]
    /\ UNCHANGED overwritten

Next == \E c \in Callers : \/ \E size \in Sizes : Allocate(c, size)
                           \/ Construct(c) \/ Destroy(c) \/ Deallocate(c)

Spec == Init /\ [][Next]_vars

-----------------------------------------------------------------------------
\* The bytes of an Allocation hold what its owner wrote as long as it lives: no
\* other Allocation shares them, a size of 0 frees nothing of another's, and
\* pages are not removed once they can have a new owner.
ContentsKept == overwritten = {}

\* Room in a row is found: units next to each other that belong to no Allocation
\* are in one free chunk, however they were freed, so allocate refuses a size
\* only if no such room is large enough.
Living(c) == pc[c] \in {"constructing", "held", "freeing"} /\ alloc[c].size > 0
OwnedUnit(u) == \E c \in Callers :
    /\ Living(c)
    /\ alloc[c].offset <= u * kMemoryAlign
    /\ u * kMemoryAlign < alloc[c].offset + alloc[c].size
RoomIsFound ==
    \A lo, hi \in 0 .. (mHeapSize \div kMemoryAlign) - 1 :
        (lo <= hi /\ \A u \in lo .. hi : ~OwnedUnit(u)) =>
            \E s \in Starts : /\ mList[s].free
                              /\ s <= lo /\ hi < s + mList[s].size
=============================================================================
