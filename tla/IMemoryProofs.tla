---------------------------- MODULE IMemoryProofs ----------------------------
(***************************************************************************)
(* Shared memory, in two parts.                                            *)
(*                                                                         *)
(* The dealer, for every set of callers, every size of heap, page and      *)
(* unit: the pieces that a MemoryDealer has handed out do not overlap, so  *)
(* that nobody's contents are overwritten (ContentsKept), what is freed is *)
(* always a chunk that is in use (FreedOnce), and units in a row that      *)
(* nobody has are in one free chunk (RoomIsFound).                         *)
(*                                                                         *)
(* Its clients, for every set of Allocations, of threads of the client and *)
(* every bound: the count of a cached heap covers the heaps that copied    *)
(* its mapping and the threads that are about to, so that a pointer a      *)
(* thread has got is good (PointersGood); and while nothing fails it is    *)
(* exact, so that the mapping goes with the last IMemory                   *)
(* (MappingReleased).                                                      *)
(***************************************************************************)
EXTENDS IMemory, TLAPS

(* The dealer: MemoryDealer.cpp.                                             *)

UnitOf(c) == alloc[c].offset \div kMemoryAlign

TypeInv ==
    /\ Starts \subseteq Nat
    /\ mList \in [Starts -> [size : Nat, free : BOOLEAN]]
    /\ pc \in [Callers -> {"idle", "refused", "constructing", "held", "freeing"}]
    /\ alloc \in [Callers -> [offset : Nat, size : Nat]]

\* The chunks of the list do not overlap.
Apart == \A s, t \in Starts : s < t => s + mList[s].size <= t

\* A living Allocation has a chunk in use that is large enough for it, ...
HasChunk(c) ==
    /\ alloc[c].offset = UnitOf(c) * kMemoryAlign
    /\ UnitOf(c) \in Starts /\ ~mList[UnitOf(c)].free
    /\ alloc[c].size <= mList[UnitOf(c)].size * kMemoryAlign
Owners == \A c \in Callers : Living(c) => HasChunk(c)
\* ... its own, and only such an Allocation frees one.
OneOwner == \A c, d \in Callers :
    (Living(c) /\ Living(d) /\ c # d) => UnitOf(c) # UnitOf(d)
Freeing == \A c \in Callers : pc[c] = "freeing" => alloc[c].size > 0

IInv == TypeInv /\ Apart /\ Owners /\ OneOwner /\ Freeing /\ overwritten = {}

-----------------------------------------------------------------------------
(* Arithmetic of units and pages                                           *)

\* The unit of an offset that is a multiple of kMemoryAlign.
LEMMA UnitOfMultiple ==
    ASSUME NEW u \in Nat, NEW k \in Nat \ {0}
    PROVE  (u * k) \div k = u
  OBVIOUS

\* A size rounded up to units holds the size, and is not 0 unless it is.
LEMMA UnitsHold ==
    ASSUME NEW size \in Nat, size > 0
    PROVE  /\ Units(size) \in Nat /\ Units(size) > 0
           /\ size <= Units(size) * kMemoryAlign
  BY AlignAssumption DEF Units

\* Chunks that do not overlap are bytes that do not.
LEMMA UnitsApart ==
    ASSUME NEW u \in Nat, NEW n \in Nat, NEW v \in Nat, NEW k \in Nat \ {0}, u + n <= v
    PROVE  u * k + n * k <= v * k
  OBVIOUS

\* The whole pages in a range lie in the range.
LEMMA PagesInside ==
    ASSUME NEW n \in Nat
    PROVE  PageUp(n) \in Int /\ PageUp(n) >= n /\ PageDown(n) \in Int /\ PageDown(n) <= n
  BY PageAssumption DEF PageUp, PageDown
-----------------------------------------------------------------------------
(* What the invariant says of bytes                                        *)

\* Two living Allocations share no byte, and one of size 0 has none.
LEMMA BytesApart ==
    ASSUME IInv, NEW c \in Callers, NEW d \in Callers, c # d,
           pc[c] \in {"constructing", "held", "freeing"},
           pc[d] \in {"constructing", "held", "freeing"}
    PROVE  ~Overlap(BytesOf(c), BytesOf(d))
<1>1. CASE alloc[c].size = 0 \/ alloc[d].size = 0
  BY <1>1 DEF Overlap, BytesOf, ByteRange, IInv, TypeInv
<1>2. CASE alloc[c].size # 0 /\ alloc[d].size # 0
  <2> DEFINE u == UnitOf(c)
             v == UnitOf(d)
  <2>1. alloc[c].size \in Nat /\ alloc[d].size \in Nat
    BY Zenon DEF IInv, TypeInv
  <2>2. Living(c) /\ Living(d)
    BY <1>2, <2>1 DEF Living
  <2>3. HasChunk(c) /\ HasChunk(d) /\ u # v
    BY Zenon, <2>2 DEF IInv, Owners, OneOwner
  <2>4. /\ u \in Nat /\ v \in Nat
        /\ mList[u].size \in Nat /\ mList[v].size \in Nat
    BY <2>3, Zenon DEF IInv, TypeInv, HasChunk
  <2>5. u + mList[u].size <= v \/ v + mList[v].size <= u
    BY <2>3, <2>4 DEF IInv, Apart, HasChunk
  <2>6. \/ u * kMemoryAlign + mList[u].size * kMemoryAlign <= v * kMemoryAlign
        \/ v * kMemoryAlign + mList[v].size * kMemoryAlign <= u * kMemoryAlign
    BY Zenon, <2>4, <2>5, UnitsApart, AlignAssumption
  <2> DEFINE uk == u * kMemoryAlign
             vk == v * kMemoryAlign
             nk == mList[u].size * kMemoryAlign
             mk == mList[v].size * kMemoryAlign
  <2>7. /\ alloc[c].offset = uk /\ alloc[c].size <= nk
        /\ alloc[d].offset = vk /\ alloc[d].size <= mk
    BY Zenon, <2>3 DEF HasChunk
  <2>8. uk \in Nat /\ vk \in Nat /\ nk \in Nat /\ mk \in Nat
    BY <2>4, AlignAssumption
  <2>9. uk + nk <= vk \/ vk + mk <= uk
    BY Zenon, <2>6
  <2> HIDE DEF uk, vk, nk, mk
  <2>10. QED
    BY <2>1, <2>7, <2>8, <2>9 DEF Overlap, BytesOf, ByteRange
<1>3. QED
  BY Zenon, <1>1, <1>2

\* Nobody is hit by what another Allocation writes: its own bytes, or its pages.
LEMMA NobodyHit ==
    ASSUME IInv, NEW c \in Callers, pc[c] \in {"constructing", "held"}
    PROVE  Hit(c, BytesOf(c)) = {} /\ Hit(c, PagesIn(c)) = {}
<1>1. \A d \in Callers \ {c} : pc[d] = "held" => ~Overlap(BytesOf(c), BytesOf(d))
  BY Zenon, BytesApart
<1>2. /\ alloc[c].offset \in Nat /\ alloc[c].size \in Nat
      /\ \A d \in Callers : alloc[d].offset \in Nat /\ alloc[d].size \in Nat
  BY Zenon DEF IInv, TypeInv
<1>3. /\ PageUp(alloc[c].offset) \in Int /\ PageUp(alloc[c].offset) >= alloc[c].offset
      /\ PageDown(alloc[c].offset + alloc[c].size) \in Int
      /\ PageDown(alloc[c].offset + alloc[c].size) <= alloc[c].offset + alloc[c].size
  BY <1>2, PagesInside
<1>4. \A d \in Callers : Overlap(PagesIn(c), BytesOf(d)) => Overlap(BytesOf(c), BytesOf(d))
  BY <1>2, <1>3 DEF Overlap, BytesOf, PagesIn, ByteRange
<1>5. QED
  BY Zenon, <1>1, <1>4 DEF Hit
-----------------------------------------------------------------------------
(* The invariant holds initially and is preserved                          *)

LEMMA InitInv == Init => IInv
<1> SUFFICES ASSUME Init PROVE IInv
  BY Zenon
<1>1. mHeapSize \div kMemoryAlign \in Nat
  BY HeapAssumption, PagesInside, AlignAssumption DEF mHeapSize
<1>2. TypeInv
  BY <1>1 DEF Init, TypeInv, Starts
<1>3. Apart
  BY DEF Init, Apart, Starts
<1>4. QED
  BY Zenon, <1>2, <1>3 DEF Init, IInv, Owners, OneOwner, Freeing, Living

\* Taking n units of a free chunk leaves the others, and the rest, apart.
LEMMA TakenApart ==
    ASSUME TypeInv, Apart, NEW s \in Starts, NEW n \in Nat, n > 0, Fits(s, n)
    PROVE  LET new == Taken(s, n) IN
           /\ s \in DOMAIN new /\ new[s] = [size |-> n, free |-> FALSE]
           /\ \A t \in Starts \ {s} : t \in DOMAIN new /\ new[t] = mList[t]
           /\ DOMAIN new \subseteq Nat
           /\ new \in [DOMAIN new -> [size : Nat, free : BOOLEAN]]
           /\ \A t, u \in DOMAIN new : t < u => t + new[t].size <= u
<1> DEFINE new == Taken(s, n)
           rest == IF mList[s].size > n THEN {s + n} ELSE {}
           left == mList[s].size - n
<1>1. /\ Starts \subseteq Nat /\ s \in Nat
      /\ \A t \in Starts : mList[t].size \in Nat /\ mList[t] \in [size : Nat, free : BOOLEAN]
      /\ mList[s].size >= n
  BY Zenon DEF TypeInv, Fits
<1>2. \A t \in rest : t \in Nat /\ t = s + n /\ mList[s].size > n /\ t \notin Starts
  BY <1>1 DEF Apart
<1>3. DOMAIN new = Starts \cup rest
  BY Zenon DEF Taken
<1>4. /\ new[s] = [size |-> n, free |-> FALSE]
      /\ \A t \in Starts \ {s} : new[t] = mList[t]
  BY Zenon, <1>1, <1>2 DEF Taken
<1>c. \A t \in rest : new[t] = [size |-> left, free |-> TRUE]
  BY Zenon, <1>1, <1>2 DEF Taken
<1>a. new = [t \in DOMAIN new |-> new[t]]
  BY Zenon DEF Taken
<1>b. mList[s].size \in Nat /\ n <= mList[s].size /\ left \in Nat /\ left = mList[s].size - n
  BY <1>1
<1> HIDE DEF new, rest, left
<1>d. ASSUME NEW t \in rest
      PROVE  new[t].size = left /\ new[t] \in [size : Nat, free : BOOLEAN]
  <2>1. new[t] = [size |-> left, free |-> TRUE]
    BY <1>c, Zenon
  <2>2. QED
    BY <2>1, <1>b
<1>5. \A t \in DOMAIN new : new[t] \in [size : Nat, free : BOOLEAN]
  <2>2. \A t \in rest : new[t] \in [size : Nat, free : BOOLEAN]
    BY Zenon, <1>d, <1>b
  <2>3. new[s] \in [size : Nat, free : BOOLEAN]
    BY <1>4
  <2>4. QED
    BY <1>1, <1>3, <1>4, <2>2, <2>3, Zenon
<1>6. ASSUME NEW t \in DOMAIN new, NEW u \in DOMAIN new, t < u
      PROVE  t + new[t].size <= u
  <2>1. CASE t \in Starts \ {s} /\ u \in Starts
    BY Zenon, <1>1, <1>4, <1>6, <2>1 DEF Apart
  <2>2. CASE t = s /\ u \in Starts
    <3>1. s + mList[s].size <= u /\ u \in Nat
      BY <1>1, <1>6, <2>2, Zenon DEF Apart
    <3>2. new[t].size = n
      BY <1>4, <2>2
    <3>3. QED
      BY <1>1, <1>b, <2>2, <3>1, <3>2
  <2>3. CASE t \in Starts \ {s} /\ u \in rest
    <3>1. u = s + n /\ t \in Nat /\ new[t].size = mList[t].size /\ mList[t].size \in Nat
      BY <1>1, <1>2, <1>4, <2>3, Zenon
    <3>2. CASE t < s
      <4>1. t + mList[t].size <= s
        BY Zenon, <2>3, <3>2 DEF Apart
      <4>2. QED
        BY <1>1, <3>1, <4>1
    <3>3. CASE s < t
      <4>1. s + mList[s].size <= t
        BY Zenon, <2>3, <3>3 DEF Apart
      <4>2. QED
        BY <1>1, <1>6, <1>b, <3>1, <4>1
    <3>4. QED
      BY <1>1, <2>3, <3>1, <3>2, <3>3
  <2>4. CASE t = s /\ u \in rest
    BY <1>1, <1>2, <1>4, <2>4
  <2>5. CASE t \in rest /\ u \in Starts
    <3>1. t = s + n /\ u \in Nat /\ new[t].size = left
      BY <1>1, <1>2, <1>d, <2>5, Zenon
    <3>2. s < u
      BY <1>1, <1>6, <3>1
    <3>3. s + mList[s].size <= u
      BY Zenon, <2>5, <3>2 DEF Apart
    <3>4. QED
      BY <1>1, <1>b, <3>1, <3>3
  <2>6. CASE t \in rest /\ u \in rest
    BY <1>1, <1>2, <1>6, <2>6
  <2>7. QED
    BY Zenon, <1>3, <2>1, <2>2, <2>3, <2>4, <2>5, <2>6
<1>7. new \in [DOMAIN new -> [size : Nat, free : BOOLEAN]]
  BY Zenon, <1>5, <1>a
<1>8. QED
  BY Zenon, <1>1, <1>2, <1>3, <1>4, <1>6, <1>7 DEF new

\* Merging the free chunks around s leaves the chunks in use as they are, and apart.
LEMMA MergedApart ==
    ASSUME TypeInv, Apart, NEW s \in Starts, NEW b \in Starts, NEW e \in Starts,
           Joins(s, b) \/ b = s, InRun(e, s)
    PROVE  LET new == Merged(b, e) IN
           /\ \A t \in Starts \ {s} : ~mList[t].free => t \in DOMAIN new /\ new[t] = mList[t]
           /\ DOMAIN new \subseteq Nat
           /\ new \in [DOMAIN new -> [size : Nat, free : BOOLEAN]]
           /\ \A t, u \in DOMAIN new : t < u => t + new[t].size <= u
<1> DEFINE new == Merged(b, e)
<1>1. /\ Starts \subseteq Nat /\ s \in Nat /\ b \in Nat /\ e \in Nat
      /\ \A t \in Starts : mList[t].size \in Nat /\ mList[t] \in [size : Nat, free : BOOLEAN]
  BY Zenon DEF TypeInv
<1>2. b <= s /\ s <= e
  BY <1>1 DEF Joins, Prev, InRun
<1>3. DOMAIN new = {u \in Starts : ~(b < u /\ u <= e)} /\ b \in DOMAIN new
  BY <1>1 DEF Merged
<1>4. /\ new[b] = [size |-> e + mList[e].size - b, free |-> TRUE]
      /\ \A t \in DOMAIN new \ {b} : new[t] = mList[t]
  BY Zenon, <1>3 DEF Merged
<1>a. new = [t \in DOMAIN new |-> new[t]]
  BY Zenon DEF Merged
<1> HIDE DEF new
<1>5. ASSUME NEW t \in Starts \ {s}, ~mList[t].free
      PROVE  t \in DOMAIN new /\ new[t] = mList[t]
  <2>1. ~(b < t /\ t <= e)
    BY <1>1, <1>2, <1>5 DEF Joins, Prev, InRun
  <2>2. t # b
    BY Zenon, <1>5 DEF Joins
  <2>3. QED
    BY Zenon, <1>3, <1>4, <2>1, <2>2
<1>6. \A t \in DOMAIN new : new[t] \in [size : Nat, free : BOOLEAN]
  <2>1. mList[e].size \in Nat
    BY Zenon, <1>1
  <2>2. e + mList[e].size - b \in Nat
    BY <1>1, <1>2, <2>1
  <2>3. new[b] \in [size : Nat, free : BOOLEAN]
    BY <1>4, <2>2
  <2>4. \A t \in DOMAIN new \ {b} : t \in Starts /\ new[t] = mList[t]
    BY Zenon, <1>3, <1>4
  <2>5. QED
    BY <1>1, <2>3, <2>4, Zenon
<1>7. ASSUME NEW t \in DOMAIN new, NEW u \in DOMAIN new, t < u
      PROVE  t + new[t].size <= u
  <2>1. CASE t = b
    <3>1. u \in Starts /\ u \in Nat /\ ~(b < u /\ u <= e) /\ b < u
      BY <1>1, <1>3, <1>7, <2>1, Zenon
    <3>2. e < u
      BY <1>1, <3>1
    <3>3. e + mList[e].size <= u
      BY Zenon, <3>1, <3>2 DEF Apart
    <3>4. new[t].size = e + mList[e].size - b
      BY <1>4, <2>1
    <3>5. mList[e].size \in Nat
      BY Zenon, <1>1
    <3>6. QED
      BY <1>1, <2>1, <3>1, <3>3, <3>4, <3>5
  <2>2. CASE t # b
    BY <1>1, <1>3, <1>4, <1>7, <2>2, Zenon DEF Apart
  <2>3. QED
    BY Zenon, <2>1, <2>2
<1>8. new \in [DOMAIN new -> [size : Nat, free : BOOLEAN]]
  BY Zenon, <1>6, <1>a
<1>9. QED
  BY Zenon, <1>1, <1>3, <1>5, <1>7, <1>8 DEF new

LEMMA AllocateInv ==
    ASSUME IInv, NEW c \in Callers, NEW size \in Sizes, Allocate(c, size)
    PROVE  IInv'
<1>1. size \in Nat /\ overwritten' = {} /\ pc[c] \in {"idle", "refused"}
  BY Zenon, SizesAssumption DEF Allocate, IInv
<1>2. CASE size = 0
  <2>1. /\ mList' = mList
        /\ alloc' = [alloc EXCEPT ![c] = [offset |-> 0, size |-> 0]]
        /\ pc' = [pc EXCEPT ![c] = "constructing"]
    BY <1>2 DEF Allocate
  <2>2. TypeInv'
    BY Zenon, <2>1 DEF IInv, TypeInv, Starts
  <2>3. Apart'
    BY Zenon, <2>1 DEF IInv, Apart, Starts
  <2>4. \A d \in Callers : Living(d)' => d # c /\ Living(d) /\ alloc'[d] = alloc[d]
    BY <2>1 DEF IInv, TypeInv, Living
  <2>5. Owners' /\ OneOwner'
    BY Zenon, <2>1, <2>4 DEF IInv, Owners, OneOwner, HasChunk, UnitOf, Starts
  <2>6. Freeing'
    BY Zenon, <2>1 DEF IInv, TypeInv, Freeing
  <2>7. QED
    BY Zenon, <1>1, <2>2, <2>3, <2>5, <2>6 DEF IInv
<1>3. CASE size > 0 /\ \E s \in Starts : BestFit(s, Units(size))
  <2>1. PICK s \in Starts :
            /\ BestFit(s, Units(size))
            /\ mList' = Taken(s, Units(size))
            /\ alloc' = [alloc EXCEPT ![c] = [offset |-> s * kMemoryAlign, size |-> size]]
            /\ pc' = [pc EXCEPT ![c] = "constructing"]
    BY <1>1, <1>3 DEF Allocate, BestFit
  <2> DEFINE n == Units(size)
  <2>2. n \in Nat /\ n > 0 /\ size <= n * kMemoryAlign
    BY Zenon, <1>1, <1>3, UnitsHold
  <2>3. TypeInv /\ Apart /\ Fits(s, n) /\ mList[s].free
    BY Zenon, <2>1 DEF IInv, BestFit, Fits
  <2> HIDE DEF n
  <2>4. /\ s \in Starts' /\ mList'[s] = [size |-> n, free |-> FALSE]
        /\ \A t \in Starts \ {s} : t \in Starts' /\ mList'[t] = mList[t]
        /\ Starts' \subseteq Nat
        /\ mList' \in [Starts' -> [size : Nat, free : BOOLEAN]]
        /\ Apart'
    BY Zenon, <2>1, <2>2, <2>3, TakenApart DEF Starts, Apart, n
  <2>5. s \in Nat /\ s * kMemoryAlign \in Nat
    BY <2>3, AlignAssumption DEF TypeInv
  <2>6. TypeInv'
    BY Zenon, <1>1, <2>1, <2>3, <2>4, <2>5 DEF TypeInv
  <2>7. \A d \in Callers \ {c} : (Living(d)' <=> Living(d)) /\ alloc'[d] = alloc[d]
    BY Zenon, <2>1, <2>3 DEF TypeInv, Living
  <2>8. \A d \in Callers \ {c} : Living(d)' => HasChunk(d)' /\ UnitOf(d)' # s
    <3> SUFFICES ASSUME NEW d \in Callers \ {c}, Living(d)'
                 PROVE  HasChunk(d)' /\ UnitOf(d)' # s
      BY Zenon
    <3>1. HasChunk(d) /\ alloc'[d] = alloc[d] /\ UnitOf(d)' = UnitOf(d)
      BY Zenon, <2>7 DEF IInv, Owners, UnitOf
    <3>2. UnitOf(d) \in Starts \ {s}
      BY Zenon, <2>3, <3>1 DEF HasChunk
    <3>3. QED
      BY <2>4, <3>1, <3>2, Zenon DEF HasChunk
  <2>9. UnitOf(c)' = s /\ HasChunk(c)'
    <3>1. alloc'[c] = [offset |-> s * kMemoryAlign, size |-> size]
      BY Zenon, <2>1, <2>3 DEF TypeInv
    <3>2. UnitOf(c)' = s
      BY <2>5, <3>1, UnitOfMultiple, AlignAssumption DEF UnitOf
    <3>3. QED
      BY <2>2, <2>4, <3>1, <3>2 DEF HasChunk
  <2>10. Owners'
    BY Zenon, <2>8, <2>9 DEF Owners
  <2>11. OneOwner'
    <3> SUFFICES ASSUME NEW d \in Callers, NEW e \in Callers,
                        Living(d)', Living(e)', d # e
                 PROVE  UnitOf(d)' # UnitOf(e)'
      BY Zenon DEF OneOwner
    <3>1. CASE d = c \/ e = c
      BY Zenon, <2>8, <2>9, <3>1
    <3>2. CASE d # c /\ e # c
      <4>1. Living(d) /\ Living(e) /\ UnitOf(d)' = UnitOf(d) /\ UnitOf(e)' = UnitOf(e)
        BY Zenon, <2>7, <3>2 DEF UnitOf
      <4>2. QED
        BY Zenon, <4>1 DEF IInv, OneOwner
    <3>3. QED
      BY Zenon, <3>1, <3>2
  <2>12. Freeing'
    BY Zenon, <2>1, <2>3, <2>7 DEF IInv, TypeInv, Freeing
  <2>13. QED
    BY Zenon, <1>1, <2>4, <2>6, <2>10, <2>11, <2>12 DEF IInv
<1>4. CASE size > 0 /\ ~\E s \in Starts : BestFit(s, Units(size))
  <2>1. UNCHANGED <<mList, alloc>> /\ pc' = [pc EXCEPT ![c] = "refused"]
    BY <1>1, <1>4 DEF Allocate
  <2>2. \A d \in Callers : Living(d)' => Living(d)
    BY Zenon, <2>1 DEF IInv, TypeInv, Living
  <2>3. TypeInv' /\ Apart' /\ Freeing'
    BY Zenon, <2>1 DEF IInv, TypeInv, Apart, Freeing, Starts
  <2>4. Owners' /\ OneOwner'
    BY Zenon, <2>1, <2>2 DEF IInv, Owners, OneOwner, HasChunk, UnitOf, Starts
  <2>5. QED
    BY Zenon, <1>1, <2>3, <2>4 DEF IInv
<1>5. QED
  BY <1>1, <1>2, <1>3, <1>4

\* The steps that leave the list and the Allocations as they are.
LEMMA WriteInv ==
    ASSUME IInv, NEW c \in Callers, Construct(c) \/ Destroy(c)
    PROVE  IInv'
<1>1. UNCHANGED <<mList, alloc>>
  BY Zenon DEF Construct, Destroy
<1>2. overwritten' = {}
  <2>1. CASE Construct(c)
    BY Zenon, <2>1, NobodyHit DEF Construct, IInv
  <2>2. CASE Destroy(c)
    BY Zenon, <2>2, NobodyHit DEF Destroy, IInv
  <2>3. QED
    BY Zenon, <2>1, <2>2
<1>3. TypeInv' /\ Apart'
  BY Zenon, <1>1 DEF IInv, TypeInv, Apart, Starts, Construct, Destroy
<1>4. \A d \in Callers : Living(d)' => Living(d)
  BY Zenon, <1>1 DEF IInv, TypeInv, Living, Construct, Destroy
<1>5. Owners' /\ OneOwner'
  BY Zenon, <1>1, <1>4 DEF IInv, Owners, OneOwner, HasChunk, UnitOf, Starts
<1>6. Freeing'
  BY <1>1 DEF IInv, TypeInv, Freeing, Construct, Destroy
<1>7. QED
  BY Zenon, <1>2, <1>3, <1>5, <1>6 DEF IInv

LEMMA DeallocateInv ==
    ASSUME IInv, NEW c \in Callers, Deallocate(c)
    PROVE  IInv'
<1> DEFINE s == UnitOf(c)
<1>1. /\ pc[c] = "freeing" /\ pc' = [pc EXCEPT ![c] = "idle"]
      /\ alloc' = [alloc EXCEPT ![c] = [offset |-> 0, size |-> 0]]
      /\ overwritten' = {}
  BY Zenon DEF Deallocate, IInv
<1>2. Living(c) /\ HasChunk(c) /\ s \in Starts
  BY Zenon, <1>1 DEF IInv, Freeing, Living, Owners, HasChunk
<1>3. PICK b \in Starts, e \in Starts :
          (Joins(s, b) \/ b = s) /\ InRun(e, s) /\ mList' = Merged(b, e)
  BY Zenon, <1>2 DEF Deallocate, Dealloc, UnitOf
<1>4. TypeInv /\ Apart
  BY Zenon DEF IInv
<1> HIDE DEF s
<1>5. /\ \A t \in Starts \ {s} : ~mList[t].free => t \in Starts' /\ mList'[t] = mList[t]
      /\ Starts' \subseteq Nat
      /\ mList' \in [Starts' -> [size : Nat, free : BOOLEAN]]
      /\ Apart'
  BY <1>2, <1>3, <1>4, MergedApart DEF Starts, Apart
<1>6. TypeInv'
  BY Zenon, <1>1, <1>4, <1>5 DEF TypeInv
<1>7. \A d \in Callers : Living(d)' => d # c /\ Living(d) /\ alloc'[d] = alloc[d]
  BY Zenon, <1>1, <1>4 DEF TypeInv, Living
<1>8. ASSUME NEW d \in Callers, Living(d)'
      PROVE  HasChunk(d)'
  <2>1. d # c /\ Living(d) /\ alloc'[d] = alloc[d] /\ UnitOf(d)' = UnitOf(d)
    BY Zenon, <1>7, <1>8 DEF UnitOf
  <2>2. HasChunk(d) /\ UnitOf(d) # s
    BY Zenon, <1>2, <2>1 DEF IInv, Owners, OneOwner, s
  <2>3. QED
    BY Zenon, <1>5, <2>1, <2>2 DEF HasChunk
<1>9. OneOwner'
  BY Zenon, <1>7 DEF IInv, OneOwner, UnitOf
<1>10. Freeing'
  BY Zenon, <1>1, <1>4 DEF IInv, TypeInv, Freeing
<1>11. QED
  BY Zenon, <1>1, <1>5, <1>6, <1>8, <1>9, <1>10 DEF IInv, Owners

LEMMA NextInv == IInv /\ [Next]_vars => IInv'
<1> SUFFICES ASSUME IInv, [Next]_vars PROVE IInv'
  BY Zenon
<1>1. ASSUME NEW c \in Callers, NEW size \in Sizes, Allocate(c, size) PROVE IInv'
  BY Zenon, <1>1, AllocateInv
<1>2. ASSUME NEW c \in Callers, Construct(c) \/ Destroy(c) PROVE IInv'
  BY Zenon, <1>2, WriteInv
<1>3. ASSUME NEW c \in Callers, Deallocate(c) PROVE IInv'
  BY Zenon, <1>3, DeallocateInv
<1>4. CASE UNCHANGED vars
  BY Zenon, <1>4 DEF vars, IInv, TypeInv, Apart, Owners, OneOwner, Freeing, Living, HasChunk, UnitOf,
              Starts
<1>5. QED
  BY Zenon, <1>1, <1>2, <1>3, <1>4 DEF Next

-----------------------------------------------------------------------------
(* Room in a row is found                                                   *)

HeapUnits == mHeapSize \div kMemoryAlign
InChunk(s, u) == s <= u /\ u < s + mList[s].size

\* Every unit of the heap is in a chunk, ...
Tiled == \A u \in 0 .. HeapUnits - 1 : \E s \in Starts : InChunk(s, u)
\* ... no free chunk is followed by another one: alloc leaves the rest before a
\* chunk in use, and dealloc merges on both sides, ...
FreeAlone == \A s, t \in Starts :
    (s < t /\ t = s + mList[s].size) => ~(mList[s].free /\ mList[t].free)
\* ... and a chunk in use is no larger than its Allocation needs.
UsedUp(s, c) ==
    /\ Living(c)
    /\ alloc[c].offset = s * kMemoryAlign
    /\ mList[s].size = Units(alloc[c].size)
InUse == \A s \in Starts : ~mList[s].free => \E c \in Callers : UsedUp(s, c)

RInv == IInv /\ Tiled /\ FreeAlone /\ InUse

LEMMA UnitsTight ==
    ASSUME NEW size \in Nat, size > 0
    PROVE  (Units(size) - 1) * kMemoryAlign < size
  BY AlignAssumption DEF Units

\* All units of a chunk in use are owned.
LEMMA UsedIsOwned ==
    ASSUME TypeInv, InUse, NEW s \in Starts, ~mList[s].free, NEW u \in Nat, InChunk(s, u)
    PROVE  OwnedUnit(u)
<1>1. PICK c \in Callers : UsedUp(s, c)
  BY Zenon DEF InUse
<1> DEFINE size == alloc[c].size
           n == Units(size)
           i == u - s
<1>2. size \in Nat /\ size > 0 /\ s \in Nat
  BY Zenon, <1>1 DEF TypeInv, UsedUp, Living
<1>3. n \in Nat /\ n > 0 /\ (n - 1) * kMemoryAlign < size
  BY Zenon, <1>2, UnitsTight, UnitsHold
<1>4. mList[s].size = n /\ alloc[c].offset = s * kMemoryAlign /\ Living(c)
  BY Zenon, <1>1 DEF UsedUp
<1> HIDE DEF n, size
<1>5. i \in Nat /\ i <= n - 1 /\ u = s + i
  BY <1>2, <1>3, <1>4 DEF InChunk
<1> HIDE DEF i
<1>6. i * kMemoryAlign <= (n - 1) * kMemoryAlign
  BY <1>3, <1>5, AlignAssumption
<1>7. u * kMemoryAlign = s * kMemoryAlign + i * kMemoryAlign
  BY <1>2, <1>5, AlignAssumption
<1>8. s * kMemoryAlign \in Nat /\ i * kMemoryAlign \in Nat /\ (n - 1) * kMemoryAlign \in Nat
  BY <1>2, <1>3, <1>5, AlignAssumption
<1>9. s * kMemoryAlign <= u * kMemoryAlign /\ u * kMemoryAlign < s * kMemoryAlign + size
  BY <1>2, <1>3, <1>6, <1>7, <1>8
<1>10. QED
  BY Zenon, <1>4, <1>9 DEF OwnedUnit, size

\* What RoomIsFound takes: the chunk of the first unit is free, and it ends after
\* the last one, since the chunk that follows it is in use.
LEMMA RInvFindsRoom == RInv => RoomIsFound
<1> SUFFICES ASSUME RInv, NEW lo \in 0 .. HeapUnits - 1, NEW hi \in 0 .. HeapUnits - 1,
                    lo <= hi, \A u \in lo .. hi : ~OwnedUnit(u)
             PROVE  \E s \in Starts : mList[s].free /\ s <= lo /\ hi < s + mList[s].size
  BY Zenon DEF RoomIsFound, HeapUnits
<1>1. TypeInv /\ Apart /\ InUse /\ Tiled /\ FreeAlone
  BY Zenon DEF RInv, IInv
<1>2. HeapUnits \in Int
  BY HeapAssumption, PagesInside, AlignAssumption DEF mHeapSize, HeapUnits
<1>3. PICK s \in Starts : InChunk(s, lo)
  BY Zenon, <1>1 DEF Tiled
<1>4. lo \in Nat /\ hi \in Nat /\ s \in Nat /\ mList[s].size \in Nat
  BY <1>1, <1>2 DEF TypeInv
<1>5. lo \in lo .. hi
  BY <1>4
<1>6. mList[s].free
  BY <1>1, <1>3, <1>4, <1>5, UsedIsOwned, Zenon
<1>7. hi < s + mList[s].size
  <2> SUFFICES ASSUME ~(hi < s + mList[s].size) PROVE FALSE
    BY Zenon
  <2> DEFINE t == s + mList[s].size
  <2>1. t \in Nat /\ lo < t /\ t <= hi /\ s < t
    BY <1>3, <1>4 DEF InChunk
  <2>2. t \in 0 .. HeapUnits - 1 /\ t \in lo .. hi
    BY <1>2, <1>4, <2>1
  <2>3. PICK v \in Starts : InChunk(v, t)
    BY <1>1, <2>2, Zenon DEF Tiled
  <2>4. v \in Nat /\ mList[v].size \in Nat
    BY Zenon, <1>1 DEF TypeInv
  <2>5. v = t
    <3>1. v <= t /\ t < v + mList[v].size
      BY Zenon, <2>3 DEF InChunk
    <3>2. v # s
      BY <1>4, <2>1, <2>4, <3>1
    <3>3. CASE v < s
      <4>1. v + mList[v].size <= s
        BY Zenon, <1>1, <3>3 DEF Apart
      <4>2. QED
        BY <1>4, <2>1, <2>4, <3>1, <4>1
    <3>4. CASE s < v
      <4>1. t <= v
        BY Zenon, <1>1, <3>4 DEF Apart
      <4>2. QED
        BY <2>1, <2>4, <3>1, <4>1
    <3>5. QED
      BY <1>4, <2>4, <3>2, <3>3, <3>4
  <2>6. ~mList[v].free
    BY Zenon, <1>1, <1>6, <2>1, <2>5 DEF FreeAlone
  <2>7. OwnedUnit(t)
    BY <1>1, <2>1, <2>3, <2>6, UsedIsOwned, Zenon
  <2>8. QED
    BY Zenon, <2>2, <2>7
<1>8. QED
  BY Zenon, <1>3, <1>6, <1>7 DEF InChunk

LEMMA InitRoom == Init => RInv
<1> SUFFICES ASSUME Init PROVE RInv
  BY Zenon
<1>1. Starts = {0} /\ mList[0] = [size |-> HeapUnits, free |-> TRUE]
  BY Zenon DEF Init, Starts, HeapUnits
<1>2. HeapUnits \in Nat
  BY HeapAssumption, PagesInside, AlignAssumption DEF mHeapSize, HeapUnits
<1>3. Tiled
  BY <1>1, <1>2 DEF Tiled, InChunk
<1>4. FreeAlone
  BY <1>1 DEF FreeAlone
<1>5. InUse
  BY <1>1 DEF InUse
<1>6. QED
  BY Zenon, <1>3, <1>4, <1>5, InitInv DEF RInv

\* Taking n units of a free chunk keeps the tiling, and the rest it leaves is not
\* next to a free chunk.
LEMMA TakenRoom ==
    ASSUME TypeInv, Apart, Tiled, FreeAlone,
           NEW s \in Starts, NEW n \in Nat, n > 0, Fits(s, n), mList' = Taken(s, n)
    PROVE  Tiled' /\ FreeAlone' /\ \A t \in Starts' : ~mList'[t].free => t \in Starts
<1> DEFINE rest == IF mList[s].size > n THEN {s + n} ELSE {}
           r == s + n
           size == mList[s].size
<1>1. /\ Starts \subseteq Nat /\ s \in Nat /\ \A t \in Starts : mList[t].size \in Nat
      /\ size >= n /\ size \in Nat /\ mList[s].free
  BY Zenon DEF TypeInv, Fits
<1>2. \A t \in rest : t = r /\ size > n /\ t \notin Starts
  BY <1>1 DEF Apart
<1>3. Starts' = Starts \cup rest
  BY Zenon DEF Taken, Starts
<1>4. /\ mList'[s].size = n /\ mList'[s].free = FALSE
      /\ \A t \in Starts \ {s} : mList'[t] = mList[t]
  BY Zenon, <1>1, <1>2 DEF Taken
<1>5. \A t \in rest : mList'[t].size = size - n /\ mList'[t].free = TRUE
  BY Zenon, <1>1, <1>2 DEF Taken
<1>6. size > n => r \in rest
  BY Zenon
<1>7. Starts' \subseteq Nat /\ HeapUnits' = HeapUnits
  BY <1>1, <1>2, <1>3 DEF HeapUnits, mHeapSize, PageUp
<1>8. r \in Nat
  BY <1>1
<1> HIDE DEF rest, r, size
<1>9. Tiled'
  <2> SUFFICES ASSUME NEW u \in 0 .. HeapUnits - 1 PROVE \E t \in Starts' : InChunk(t, u)'
    BY Zenon, <1>7 DEF Tiled
  <2>1. PICK t \in Starts : InChunk(t, u)
    BY Zenon DEF Tiled
  <2>2. CASE t # s
    <3>1. t \in Starts' /\ mList'[t] = mList[t]
      BY Zenon, <1>3, <1>4, <2>2
    <3>2. QED
      BY Zenon, <2>1, <3>1 DEF InChunk
  <2>3. CASE t = s /\ u < s + n
    <3>1. s \in Starts' /\ s <= u /\ u < s + mList'[s].size
      BY Zenon, <1>3, <1>4, <2>1, <2>3 DEF InChunk
    <3>2. QED
      BY Zenon, <3>1 DEF InChunk
  <2>4. CASE t = s /\ ~(u < s + n)
    <3>1. u < s + size /\ u \in Int
      BY <2>1, <2>4 DEF InChunk, size
    <3>2. size > n
      BY <1>1, <2>4, <3>1
    <3>3. r \in Starts' /\ mList'[r].size = size - n
      BY Zenon, <1>3, <1>5, <1>6, <3>2
    <3>4. r <= u /\ u < r + mList'[r].size
      BY <1>1, <2>4, <3>1, <3>3 DEF r
    <3>5. QED
      BY Zenon, <3>3, <3>4 DEF InChunk
  <2>5. QED
    BY Zenon, <2>2, <2>3, <2>4
<1>10. FreeAlone'
  <2> SUFFICES ASSUME NEW a \in Starts', NEW b \in Starts', a < b,
                      b = a + mList'[a].size, mList'[a].free, mList'[b].free
               PROVE  FALSE
    BY Zenon DEF FreeAlone
  <2>1. a # s /\ b # s
    BY Zenon, <1>4
  <2>2. CASE a \in Starts /\ b \in Starts
    <3>1. mList'[a] = mList[a] /\ mList'[b] = mList[b]
      BY Zenon, <1>4, <2>1, <2>2
    <3>2. QED
      BY Zenon, <2>2, <3>1 DEF FreeAlone
  <2>3. CASE a \in rest /\ b \in Starts
    <3>1. a = r /\ mList'[a].size = size - n /\ mList'[b] = mList[b]
      BY Zenon, <1>2, <1>4, <1>5, <2>1, <2>3
    <3>2. b = s + size /\ s < b
      BY <1>1, <1>2, <2>3, <3>1 DEF r
    <3>3. QED
      BY Zenon, <1>1, <2>3, <3>1, <3>2 DEF FreeAlone, size
  <2>4. CASE a \in Starts /\ b \in rest
    <3>1. b = r /\ size > n /\ mList'[a] = mList[a] /\ a \in Nat /\ mList[a].size \in Nat
      BY Zenon, <1>1, <1>2, <1>4, <2>1, <2>4
    <3>2. b = a + mList[a].size
      BY Zenon, <3>1
    <3>3. CASE a < s
      <4>1. a + mList[a].size <= s
        BY Zenon, <2>4, <3>3 DEF Apart
      <4>2. QED
        BY <1>1, <3>1, <3>2, <4>1 DEF r
    <3>4. CASE s < a
      <4>1. s + size <= a
        BY Zenon, <2>4, <3>4 DEF Apart, size
      <4>2. QED
        BY <1>1, <3>1, <3>2, <4>1 DEF r
    <3>5. QED
      BY <1>1, <2>1, <3>1, <3>3, <3>4
  <2>5. CASE a \in rest /\ b \in rest
    BY <1>2, <1>8, <2>5
  <2>6. QED
    BY Zenon, <1>3, <2>2, <2>3, <2>4, <2>5
<1>11. \A t \in Starts' : ~mList'[t].free => t \in Starts
  BY <1>3, <1>5, Zenon
<1>12. QED
  BY Zenon, <1>9, <1>10, <1>11

\* Merging takes the whole run of free chunks that follow s and the one before
\* it, so that it keeps the tiling and what is next to the merged chunk is in use.
LEMMA MergedRoom ==
    ASSUME TypeInv, Apart, Tiled, FreeAlone,
           NEW s \in Starts, NEW b \in Starts, NEW e \in Starts,
           Joins(s, b) \/ (b = s /\ \A t \in Starts : ~Joins(s, t)),
           InRun(e, s), \A t \in Starts : InRun(t, s) => t <= e,
           mList' = Merged(b, e)
    PROVE  /\ Tiled' /\ FreeAlone'
           /\ \A t \in Starts' : ~mList'[t].free => t \in Starts \ {s} /\ mList'[t] = mList[t]
<1>1. /\ Starts \subseteq Nat /\ s \in Nat /\ b \in Nat /\ e \in Nat
      /\ \A t \in Starts : mList[t].size \in Nat
  BY Zenon DEF TypeInv
<1>2. b <= s /\ s <= e /\ b <= e
  BY <1>1 DEF Joins, Prev, InRun
<1>3. Starts' = {u \in Starts : ~(b < u /\ u <= e)} /\ b \in Starts'
  BY <1>1 DEF Merged, Starts
<1>4. /\ mList'[b].size = e + mList[e].size - b /\ mList'[b].free = TRUE
      /\ \A t \in Starts' \ {b} : mList'[t] = mList[t]
  BY Zenon, <1>3 DEF Merged, Starts
<1>5. HeapUnits' = HeapUnits
  BY Zenon DEF HeapUnits, mHeapSize, PageUp
<1>6. mList[e].size \in Nat /\ b + mList'[b].size = e + mList[e].size
  BY <1>1, <1>4
<1>7. Tiled'
  <2> SUFFICES ASSUME NEW u \in 0 .. HeapUnits - 1 PROVE \E t \in Starts' : InChunk(t, u)'
    BY Zenon, <1>5 DEF Tiled
  <2>1. PICK t \in Starts : InChunk(t, u)
    BY Zenon DEF Tiled
  <2>2. t \in Nat /\ mList[t].size \in Nat /\ t <= u /\ u < t + mList[t].size /\ u \in Int
    <3>1. u \in Int
      OBVIOUS
    <3>2. QED
      BY Zenon, <1>1, <2>1, <3>1 DEF InChunk
  <2>3. CASE b <= t /\ t <= e
    <3>1. t < e => t + mList[t].size <= e
      BY Zenon DEF Apart
    <3>2. u < e + mList[e].size
      BY <1>1, <1>6, <2>2, <2>3, <3>1
    <3>3. b <= u /\ u < b + mList'[b].size
      BY <1>1, <1>6, <2>2, <2>3, <3>2
    <3>4. QED
      BY Zenon, <1>3, <3>3 DEF InChunk
  <2>4. CASE ~(b <= t /\ t <= e)
    <3>1. t \in Starts' /\ t # b
      BY <1>1, <1>2, <1>3, <2>2, <2>4
    <3>2. mList'[t] = mList[t]
      BY Zenon, <1>4, <3>1
    <3>3. QED
      BY Zenon, <2>1, <3>1, <3>2 DEF InChunk
  <2>5. QED
    BY Zenon, <2>3, <2>4
<1>8. FreeAlone'
  <2> SUFFICES ASSUME NEW x \in Starts', NEW y \in Starts', x < y,
                      y = x + mList'[x].size, mList'[x].free, mList'[y].free
               PROVE  FALSE
    BY Zenon DEF FreeAlone
  <2>1. /\ x \in Starts /\ y \in Starts /\ x \in Nat /\ y \in Nat
        /\ ~(b < y /\ y <= e)
    BY Zenon, <1>1, <1>3
  <2>2. CASE x = b
    <3>1. y = e + mList[e].size /\ e < y /\ y # b
      BY <1>1, <1>6, <2>1, <2>2
    <3>2. mList[y].free
      BY Zenon, <1>4, <3>1
    <3>3. \A u \in Starts : (s < u /\ u <= y) => mList[u].free
      <4> SUFFICES ASSUME NEW u \in Starts, s < u, u <= y PROVE mList[u].free
        BY Zenon
      <4>1. u \in Nat
        BY Zenon, <1>1
      <4>2. CASE u <= e
        BY Zenon, <4>2 DEF InRun
      <4>3. CASE e < u
        <5>1. e + mList[e].size <= u
          BY Zenon, <4>3 DEF Apart
        <5>2. u = y
          BY <2>1, <3>1, <4>1, <5>1
        <5>3. QED
          BY Zenon, <3>2, <5>2
      <4>4. QED
        BY <1>1, <4>1, <4>2, <4>3
    <3>4. InRun(y, s)
      BY <1>1, <1>2, <2>1, <3>1, <3>3 DEF InRun
    <3>5. y <= e
      BY Zenon, <2>1, <3>4
    <3>6. QED
      BY <1>1, <2>1, <3>1, <3>5
  <2>3. CASE x # b /\ y = b
    <3>1. mList'[x] = mList[x]
      BY Zenon, <1>4, <2>3
    <3>2. mList[x].free /\ b = x + mList[x].size /\ x < b
      BY Zenon, <2>3, <3>1
    <3>3. CASE Joins(s, b)
      BY Zenon, <2>1, <3>2, <3>3 DEF Joins, FreeAlone
    <3>4. CASE b = s /\ \A t \in Starts : ~Joins(s, t)
      <4>1. ASSUME NEW t \in Starts, x < t, t < s PROVE FALSE
        <5>1. x + mList[x].size <= t /\ t \in Nat
          BY Zenon, <1>1, <2>1, <4>1 DEF Apart
        <5>2. QED
          BY <1>1, <3>2, <3>4, <4>1, <5>1
      <4>2. Joins(s, x)
        BY Zenon, <3>2, <3>4, <4>1 DEF Joins, Prev
      <4>3. QED
        BY Zenon, <2>1, <3>4, <4>2
    <3>5. QED
      BY Zenon, <3>3, <3>4
  <2>4. CASE x # b /\ y # b
    <3>1. mList'[x] = mList[x] /\ mList'[y] = mList[y]
      BY Zenon, <1>4, <2>4
    <3>2. QED
      BY Zenon, <2>1, <3>1 DEF FreeAlone
  <2>5. QED
    BY Zenon, <2>2, <2>3, <2>4
<1>9. ASSUME NEW t \in Starts', ~mList'[t].free
      PROVE  t \in Starts \ {s} /\ mList'[t] = mList[t]
  <2>1. t # b
    BY Zenon, <1>4, <1>9
  <2>2. t \in Starts /\ ~(b < t /\ t <= e)
    BY Zenon, <1>3
  <2>3. t # s
    BY <1>1, <1>2, <2>1, <2>2
  <2>4. QED
    BY Zenon, <1>4, <2>1, <2>2, <2>3
<1>10. QED
  BY Zenon, <1>7, <1>8, <1>9

LEMMA AllocateRoom ==
    ASSUME RInv, NEW c \in Callers, NEW size \in Sizes, Allocate(c, size)
    PROVE  RInv'
<1>1. size \in Nat /\ pc[c] \in {"idle", "refused"} /\ IInv'
  BY Zenon, SizesAssumption, AllocateInv DEF Allocate, RInv
<1>2. TypeInv /\ Apart /\ Tiled /\ FreeAlone /\ InUse
  BY Zenon DEF RInv, IInv
<1>3. CASE UNCHANGED mList /\ (UNCHANGED alloc \/ alloc' = [alloc EXCEPT ![c] = [offset |-> 0, size |-> 0]])
           /\ \E p \in {"constructing", "refused"} : pc' = [pc EXCEPT ![c] = p]
  <2>1. Tiled' /\ FreeAlone'
    BY Zenon, <1>2, <1>3 DEF Tiled, FreeAlone, InChunk, Starts, HeapUnits, mHeapSize, PageUp
  <2>2. \A d \in Callers : Living(d) => Living(d)' /\ alloc'[d] = alloc[d]
    BY Zenon, <1>1, <1>2, <1>3 DEF TypeInv, Living
  <2>3. \A t \in Starts, d \in Callers : UsedUp(t, d) => UsedUp(t, d)'
    BY Zenon, <1>3, <2>2 DEF UsedUp, Units
  <2>4. InUse'
    BY Zenon, <1>2, <1>3, <2>3 DEF InUse, Starts
  <2>5. QED
    BY Zenon, <1>1, <2>1, <2>4 DEF RInv
<1>4. CASE size > 0 /\ \E s \in Starts : /\ BestFit(s, Units(size))
                                         /\ mList' = Taken(s, Units(size))
                                         /\ alloc' = [alloc EXCEPT ![c] = [offset |-> s * kMemoryAlign, size |-> size]]
                                         /\ pc' = [pc EXCEPT ![c] = "constructing"]
  <2> DEFINE n == Units(size)
  <2>1. PICK s \in Starts : /\ BestFit(s, n) /\ mList' = Taken(s, n)
                            /\ alloc' = [alloc EXCEPT ![c] = [offset |-> s * kMemoryAlign, size |-> size]]
                            /\ pc' = [pc EXCEPT ![c] = "constructing"]
    BY <1>4, Zenon
  <2>2. n \in Nat /\ n > 0
    BY Zenon, <1>1, <1>4, UnitsHold
  <2>3. Fits(s, n) /\ mList[s].free
    BY Zenon, <2>1 DEF BestFit, Fits
  <2> HIDE DEF n
  <2>4. /\ s \in Starts' /\ mList'[s] = [size |-> n, free |-> FALSE]
        /\ \A t \in Starts \ {s} : t \in Starts' /\ mList'[t] = mList[t]
    BY <1>2, <2>1, <2>2, <2>3, TakenApart DEF Starts
  <2>5. Tiled' /\ FreeAlone' /\ \A t \in Starts' : ~mList'[t].free => t \in Starts
    BY <1>2, <2>1, <2>2, <2>3, TakenRoom, Zenon
  <2>6. \A d \in Callers : Living(d) => Living(d)' /\ alloc'[d] = alloc[d]
    BY Zenon, <1>1, <1>2, <2>1 DEF TypeInv, Living
  <2>7. \A t \in Starts \ {s}, d \in Callers : UsedUp(t, d) => UsedUp(t, d)'
    BY Zenon, <2>4, <2>6 DEF UsedUp, Units
  <2>8. UsedUp(s, c)'
    <3>1. alloc'[c].offset = s * kMemoryAlign /\ alloc'[c].size = size /\ pc'[c] = "constructing"
      BY Zenon, <1>2, <2>1 DEF TypeInv
    <3>2. Living(c)'
      BY Zenon, <1>4, <3>1 DEF Living
    <3>3. mList'[s].size = Units(alloc'[c].size)
      BY <2>4, <3>1 DEF n
    <3>4. QED
      BY Zenon, <3>1, <3>2, <3>3 DEF UsedUp, Units
  <2>9. InUse'
    <3> SUFFICES ASSUME NEW t \in Starts', ~mList'[t].free
                 PROVE  \E d \in Callers : UsedUp(t, d)'
      BY Zenon DEF InUse
    <3>1. CASE t = s
      BY Zenon, <2>8, <3>1
    <3>2. CASE t # s
      <4>1. t \in Starts \ {s} /\ ~mList[t].free
        BY <2>4, <2>5, <3>2, Zenon
      <4>2. QED
        BY Zenon, <1>2, <2>7, <4>1 DEF InUse
    <3>3. QED
      BY Zenon, <3>1, <3>2
  <2>10. QED
    BY Zenon, <1>1, <2>5, <2>9 DEF RInv
<1>5. QED
  BY Zenon, <1>3, <1>4 DEF Allocate

LEMMA WriteRoom ==
    ASSUME RInv, NEW c \in Callers, Construct(c) \/ Destroy(c)
    PROVE  RInv'
<1>1. UNCHANGED <<mList, alloc>> /\ IInv'
  BY Zenon, WriteInv DEF Construct, Destroy, RInv
<1>2. TypeInv /\ Tiled /\ FreeAlone /\ InUse
  BY Zenon DEF RInv, IInv
<1>3. Tiled' /\ FreeAlone'
  BY Zenon, <1>1, <1>2 DEF Tiled, FreeAlone, InChunk, Starts, HeapUnits, mHeapSize, PageUp
<1>4. \A d \in Callers : Living(d) => Living(d)'
  BY <1>1, <1>2 DEF TypeInv, Living, Construct, Destroy
<1>5. \A t \in Starts, d \in Callers : UsedUp(t, d) => UsedUp(t, d)'
  BY Zenon, <1>1, <1>4 DEF UsedUp, Units
<1>6. InUse'
  BY Zenon, <1>1, <1>2, <1>5 DEF InUse, Starts
<1>7. QED
  BY Zenon, <1>1, <1>3, <1>6 DEF RInv

LEMMA DeallocateRoom ==
    ASSUME RInv, NEW c \in Callers, Deallocate(c)
    PROVE  RInv'
<1> DEFINE s == UnitOf(c)
<1>1. /\ pc[c] = "freeing" /\ pc' = [pc EXCEPT ![c] = "idle"]
      /\ alloc' = [alloc EXCEPT ![c] = [offset |-> 0, size |-> 0]]
  BY Zenon DEF Deallocate
<1>a. IInv /\ IInv'
  BY Zenon, DeallocateInv DEF RInv
<1>2. TypeInv /\ Apart /\ Tiled /\ FreeAlone /\ InUse
  BY Zenon DEF RInv, IInv
<1>3. Living(c) /\ HasChunk(c) /\ s \in Starts
  BY Zenon, <1>1, <1>a DEF IInv, Freeing, Living, Owners, HasChunk
<1>4. PICK b \in Starts, e \in Starts :
          /\ Joins(s, b) \/ (b = s /\ \A t \in Starts : ~Joins(s, t))
          /\ InRun(e, s) /\ \A t \in Starts : InRun(t, s) => t <= e
          /\ mList' = Merged(b, e)
  BY Zenon, <1>3 DEF Deallocate, Dealloc, UnitOf
<1>5. alloc[c].offset = s * kMemoryAlign
  BY Zenon, <1>3 DEF HasChunk
<1> HIDE DEF s
<1>6. /\ Tiled' /\ FreeAlone'
      /\ \A t \in Starts' : ~mList'[t].free => t \in Starts \ {s} /\ mList'[t] = mList[t]
  BY <1>2, <1>3, <1>4, MergedRoom, Zenon
<1>7. \A d \in Callers \ {c} : Living(d) => Living(d)' /\ alloc'[d] = alloc[d]
  BY Zenon, <1>1, <1>2 DEF TypeInv, Living
<1>8. InUse'
  <2> SUFFICES ASSUME NEW t \in Starts', ~mList'[t].free
               PROVE  \E d \in Callers : UsedUp(t, d)'
    BY Zenon DEF InUse
  <2>1. t \in Starts \ {s} /\ mList'[t] = mList[t] /\ ~mList[t].free
    BY <1>6, Zenon
  <2>2. PICK d \in Callers : UsedUp(t, d)
    BY Zenon, <1>2, <2>1 DEF InUse
  <2>3. UnitOf(d) = t
    BY Zenon, <1>2, <2>1, <2>2, UnitOfMultiple, AlignAssumption DEF UsedUp, UnitOf, TypeInv
  <2>4. d # c
    BY Zenon, <2>1, <2>3 DEF s
  <2>5. UsedUp(t, d)'
    BY Zenon, <1>7, <2>1, <2>2, <2>4 DEF UsedUp, Units
  <2>6. QED
    BY Zenon, <2>5
<1>9. QED
  BY Zenon, <1>a, <1>6, <1>8 DEF RInv

LEMMA NextRoom == RInv /\ [Next]_vars => RInv'
<1> SUFFICES ASSUME RInv, [Next]_vars PROVE RInv'
  BY Zenon
<1>1. ASSUME NEW c \in Callers, NEW size \in Sizes, Allocate(c, size) PROVE RInv'
  BY Zenon, <1>1, AllocateRoom
<1>2. ASSUME NEW c \in Callers, Construct(c) \/ Destroy(c) PROVE RInv'
  BY Zenon, <1>2, WriteRoom
<1>3. ASSUME NEW c \in Callers, Deallocate(c) PROVE RInv'
  BY Zenon, <1>3, DeallocateRoom
<1>4. CASE UNCHANGED vars
  <2>1. IInv'
    BY Zenon, <1>4, NextInv DEF RInv
  <2>2. Tiled' /\ FreeAlone' /\ InUse'
    BY Zenon, <1>4 DEF vars, RInv, Tiled, FreeAlone, InUse, InChunk, UsedUp, Living, Starts, HeapUnits,
                mHeapSize, PageUp, Units
  <2>3. QED
    BY Zenon, <2>1, <2>2 DEF RInv
<1>5. QED
  BY Zenon, <1>1, <1>2, <1>3, <1>4 DEF Next

-----------------------------------------------------------------------------
\* MemoryDealer: whatever sizes are asked for and freed in whatever order, what
\* the owner of an Allocation wrote stays there as long as the Allocation lives.
THEOREM ContentsAreKept == Spec => []ContentsKept
<1>1. IInv => ContentsKept
  BY Zenon DEF IInv, ContentsKept
<1>2. QED
  BY <1>1, InitInv, NextInv, PTL DEF Spec

\* dealloc finds the chunk of a dying Allocation, in use: its LOG_FATAL_IF for a
\* block that is already free never fires, and no other Allocation has the chunk.
FreedOnce ==
    \A c \in Callers : pc[c] = "freeing" =>
        /\ UnitOf(c) \in Starts /\ ~mList[UnitOf(c)].free
        /\ \A d \in Callers \ {c} : Living(d) => UnitOf(d) # UnitOf(c)

\* MemoryDealer: no chunk is freed twice or under another Allocation.
THEOREM ChunksFreedOnce == Spec => []FreedOnce
<1>1. IInv => FreedOnce
  BY Zenon DEF IInv, FreedOnce, Freeing, Owners, OneOwner, HasChunk, Living
<1>2. QED
  BY <1>1, InitInv, NextInv, PTL DEF Spec

\* MemoryDealer: units next to each other that belong to no Allocation are in one
\* free chunk, however they were taken and freed: the splits of alloc and the
\* merges of dealloc never hide room.
THEOREM RoomIsAlwaysFound == Spec => []RoomIsFound
  BY InitRoom, NextRoom, RInvFindsRoom, PTL DEF Spec

\* With a client that maps the heap (IMemory.cpp), the dealer takes only steps of
\* its own, ...
LEMMA DealerStep == [CNext]_allVars => [Next]_vars
<1> SUFFICES ASSUME [CNext]_allVars PROVE [Next]_vars
  BY Zenon
<1>1. ASSUME NEW c \in Callers, ServerStep(c) PROVE Next
  BY Zenon, <1>1 DEF ServerStep, Next
<1>2. ASSUME NEW c \in Callers, Receive(c) \/ Drop(c) PROVE UNCHANGED vars
  BY Zenon, <1>2 DEF Receive, Drop
<1>3. ASSUME NEW t \in Threads,
             \/ \E m \in Callers : unsecurePointer(t, m)
             \/ GetMemory(t) \/ assertMapped(t) \/ assertReallyMapped(t)
      PROVE  UNCHANGED vars
  BY <1>3, Zenon DEF unsecurePointer, GetMemory, assertMapped, assertReallyMapped
<1>4. ASSUME NEW t \in Threads,
             MapHeap(t) \/ SetSize(t) \/ SetHeapId(t) \/ Check(t) \/ CopyHeap(t)
      PROVE  UNCHANGED vars
  BY <1>4, Zenon DEF MapHeap, SetSize, SetHeapId, Check, CopyHeap
<1>5. ASSUME NEW t \in Threads, Bounds(t) \/ HeapOrNull(t) \/ Base(t) \/ Used(t)
      PROVE  UNCHANGED vars
  BY Zenon, <1>5 DEF Bounds, HeapOrNull, Base, Used
<1>6. CASE UNCHANGED allVars
  BY Zenon, <1>6 DEF allVars
<1>7. QED
  BY Zenon, <1>1, <1>2, <1>3, <1>4, <1>5, <1>6 DEF CNext

LEMMA DealerSteps == CSpec => Spec
<1>1. CInit => Init
  BY Zenon DEF CInit
<1>2. QED
  BY <1>1, DealerStep, PTL DEF CSpec, Spec

\* ... so that its contents are kept, ...
THEOREM ContentsKeptForClients == CSpec => []ContentsKept
  BY DealerSteps, ContentsAreKept, PTL

\* ... and its room is found, as well.
THEOREM RoomFoundForClients == CSpec => []RoomIsFound
  BY DealerSteps, RoomIsAlwaysFound, PTL

-----------------------------------------------------------------------------
(* The clients: IMemory.cpp.                                                 *)

\* The BpMemoryHeaps with a copy of the mapping, and the threads with a reference
\* to the real heap: each has been counted by find_heap.
Copied == {m \in Callers : heaps[m].mBase # MAP_FAILED}
Holding == {t \in Threads : th[t].r # None}

Held == {"assertReallyMapped", "lock", "mSize", "mHeapId", "check", "copy"}
Mapping == {"assertMapped"} \cup Held
Places == {"idle", "transact", "getMemory", "bounds", "base", "pointer"} \cup Mapping

Heap == [alive : BOOLEAN, mHeapId : BOOLEAN, mBase : Real \cup {MAP_FAILED}, mSize : Nat,
         mRealHeap : BOOLEAN, mLock : BOOLEAN]
Memory == [live : BOOLEAN, mHeap : BOOLEAN, mOffset : Nat, mSize : Nat]
Thread == [pc : Places, m : Callers \cup {None}, r : Real \cup {None}, o : Nat, s : Nat,
           then : {"bounds", "base", None}]

CTypeInv ==
    /\ bp \in [Callers -> Memory]
    /\ heaps \in [Callers \cup Real -> Heap]
    /\ mHeapCache \in [heap : Real \cup {None}, count : Nat]
    /\ th \in [Threads -> Thread]
    /\ failed \in BOOLEAN

\* Of the dealer, only that an Allocation has an offset and a size.
DealerTypes ==
    /\ Starts \subseteq Nat
    /\ pc \in [Callers -> {"idle", "refused", "constructing", "held", "freeing"}]
    /\ alloc \in [Callers -> [offset : Nat, size : Nat]]

\* What a thread knows at each place.
Bounding(t) == th[t].pc = "bounds" \/ (th[t].pc \in Mapping /\ th[t].then = "bounds")
Basing(t) == th[t].pc \in {"base", "pointer"} \/ (th[t].pc \in Mapping /\ th[t].then = "base")
ThreadSound(t) ==
    LET m == th[t].m
        r == th[t].r
    IN
    /\ IF th[t].pc = "idle" THEN m = None ELSE m \in Callers /\ bp[m].live
    /\ r # None <=> th[t].pc \in Held
    /\ th[t].pc = "transact" => ~bp[m].mHeap
    /\ th[t].pc \in Mapping => th[t].then # None
    /\ th[t].pc \in Held => ~heaps[m].mHeapId
    /\ Bounding(t) => bp[m].mHeap /\ th[t].o = alloc[m].offset /\ th[t].s = alloc[m].size
    /\ Basing(t) => bp[m].mSize > 0
    /\ th[t].pc = "pointer" => heaps[m].mBase # MAP_FAILED
    /\ th[t].pc \in {"mSize", "mHeapId", "copy"} => heaps[r].mBase = r
    /\ (~failed /\ th[t].pc \in {"check", "copy"}) => heaps[r].mHeapId

\* One thread at a time is in a BpMemory.
OneUser == \A t, u \in Threads : (t # u /\ th[t].m # None) => th[t].m # th[u].m

\* A BpMemory and its BpMemoryHeap.  Only while nothing has failed does a heap
\* with a mapping also have a descriptor, by which its destructor frees it.
MemorySound(m) ==
    /\ bp[m].live => pc[m] = "held"
    /\ ~bp[m].live => ~bp[m].mHeap
    /\ ~bp[m].mHeap => heaps[m].mBase = MAP_FAILED /\ bp[m].mSize = 0
    /\ bp[m].mSize > 0 => bp[m].mOffset = alloc[m].offset /\ bp[m].mSize = alloc[m].size
    /\ heaps[m].mHeapId => heaps[m].mBase # MAP_FAILED
    /\ (~failed /\ heaps[m].mBase # MAP_FAILED) => heaps[m].mHeapId

\* A real heap: a mapping stays once it is there, since whoever made it has the
\* lock until the descriptor is set; and only the cached one is alive.
RealSound(r) ==
    /\ heaps[r].mBase \in {MAP_FAILED, r}
    /\ heaps[r].mHeapId => heaps[r].mBase = r
    /\ heaps[r].mBase = r => heaps[r].mHeapId \/ heaps[r].mLock
    /\ heaps[r].alive => r = mHeapCache.heap

\* The count of the cached heap.
CacheSound ==
    /\ mHeapCache.heap = None <=> mHeapCache.count = 0
    /\ \A m \in Copied : heaps[m].mBase = mHeapCache.heap
    /\ \A t \in Holding : th[t].r = mHeapCache.heap
    /\ Cardinality(Copied) + Cardinality(Holding) <= mHeapCache.count
    /\ ~failed => mHeapCache.count <= Cardinality(Copied) + Cardinality(Holding)

CInv ==
    /\ DealerTypes /\ CTypeInv /\ OneUser /\ CacheSound
    /\ \A t \in Threads : ThreadSound(t)
    /\ \A m \in Callers : MemorySound(m)
    /\ \A r \in Real : RealSound(r)

-----------------------------------------------------------------------------
(* Types of the dealer                                                     *)

\* The heap's size in bytes.
LEMMA HeapSizeType == mHeapSize \in Nat
  BY PageAssumption, HeapAssumption DEF mHeapSize, PageUp

LEMMA DealerInit == Init => DealerTypes
  BY DEF Init, DealerTypes, Starts

LEMMA DealerNext ==
    ASSUME DealerTypes, [Next]_vars
    PROVE  DealerTypes'
<1>1. ASSUME NEW c \in Callers, NEW size \in Sizes, Allocate(c, size) PROVE DealerTypes'
  <2>1. CASE size = 0
    BY <1>1, <2>1 DEF Allocate, DealerTypes, Starts
  <2>2. CASE pc' = [pc EXCEPT ![c] = "refused"] /\ UNCHANGED <<mList, alloc>>
    BY Zenon, <2>2 DEF DealerTypes, Starts
  <2>3. CASE \E s \in Starts :
                /\ mList' = Taken(s, Units(size))
                /\ alloc' = [alloc EXCEPT ![c] = [offset |-> s * kMemoryAlign, size |-> size]]
                /\ pc' = [pc EXCEPT ![c] = "constructing"]
    <3>1. PICK s \in Starts :
              /\ mList' = Taken(s, Units(size))
              /\ alloc' = [alloc EXCEPT ![c] = [offset |-> s * kMemoryAlign, size |-> size]]
              /\ pc' = [pc EXCEPT ![c] = "constructing"]
      BY Zenon, <2>3
    <3>2. size \in Nat /\ Units(size) \in Nat
      BY SizesAssumption, AlignAssumption DEF Units
    <3>3. s \in Nat /\ s * kMemoryAlign \in Nat
      BY AlignAssumption DEF DealerTypes
    <3>4. Starts' \subseteq Starts \cup {s + Units(size)}
      BY Zenon, <3>1 DEF Taken, Starts
    <3>5. QED
      BY <3>1, <3>2, <3>3, <3>4 DEF DealerTypes
  <2>4. QED
    BY Zenon, <1>1, <2>1, <2>2, <2>3 DEF Allocate
<1>2. ASSUME NEW c \in Callers, Construct(c) \/ Destroy(c) PROVE DealerTypes'
  BY Zenon, <1>2 DEF Construct, Destroy, DealerTypes, Starts
<1>3. ASSUME NEW c \in Callers, Deallocate(c) PROVE DealerTypes'
  <2>1. Starts' \subseteq Starts
    BY Zenon, <1>3 DEF Deallocate, Dealloc, Merged, Starts
  <2>2. QED
    BY Zenon, <1>3, <2>1 DEF Deallocate, DealerTypes
<1>4. CASE UNCHANGED vars
  BY Zenon, <1>4 DEF vars, DealerTypes, Starts
<1>5. QED
  BY Zenon, <1>1, <1>2, <1>3, <1>4 DEF Next

-----------------------------------------------------------------------------
(* What the invariant is for                                               *)

\* What the proofs use of the sizes of finite sets.
SizesOf(F) ==
    \A S \in SUBSET F :
        /\ Cardinality(S) \in Nat /\ (Cardinality(S) = 0 <=> S = {})
        /\ \A x \in F \ S : Cardinality(S \cup {x}) = Cardinality(S) + 1
        /\ \A x \in S : Cardinality(S \ {x}) = Cardinality(S) - 1
Counts == SizesOf(Callers) /\ SizesOf(Threads)

LEMMA CInvPointers == CInv => PointersGood
<1> SUFFICES ASSUME CInv, NEW t \in Threads, Here(t, "pointer")
             PROVE  LET m == th[t].m IN
                    /\ heaps[m].mBase \in Real
                    /\ [offset |-> bp[m].mOffset, size |-> bp[m].mSize] = alloc[m]
                    /\ pc[m] = "held"
  BY Zenon DEF PointersGood
<1> DEFINE m == th[t].m
<1>1. th[t].pc = "pointer" /\ ThreadSound(t)
  BY Zenon DEF Here, CInv
<1>2. m \in Callers /\ bp[m].live /\ bp[m].mSize > 0 /\ heaps[m].mBase # MAP_FAILED
  BY <1>1, Zenon DEF ThreadSound, Basing
<1>3. MemorySound(m)
  BY Zenon, <1>2 DEF CInv
<1>4. pc[m] = "held" /\ bp[m].mOffset = alloc[m].offset /\ bp[m].mSize = alloc[m].size
  BY Zenon, <1>2, <1>3 DEF MemorySound
<1>5. heaps[m] \in Heap /\ alloc[m] \in [offset : Nat, size : Nat]
  BY Zenon, <1>2 DEF CInv, CTypeInv, DealerTypes
<1>6. heaps[m].mBase \in Real
  BY Zenon, <1>2, <1>5 DEF Heap
<1>7. [offset |-> bp[m].mOffset, size |-> bp[m].mSize] = alloc[m]
  BY Zenon, <1>4, <1>5
<1>8. QED
  BY Zenon, <1>4, <1>6, <1>7

LEMMA CInvReleases ==
    ASSUME Counts, CInv
    PROVE  MappingReleased
<1> SUFFICES ASSUME ~failed, \A m \in Callers : ~bp[m].live
             PROVE  mHeapCache.heap = None /\ \A r \in Real : ~heaps[r].alive
  BY Zenon DEF MappingReleased
<1>1. \A m \in Callers : heaps[m].mBase = MAP_FAILED
  BY Zenon DEF CInv, MemorySound
<1>2. \A t \in Threads : th[t].r = None
  <2> SUFFICES ASSUME NEW t \in Threads, th[t].r # None PROVE FALSE
    BY Zenon
  <2>1. ThreadSound(t)
    BY Zenon DEF CInv
  <2>2. th[t].pc \in Held
    BY Zenon, <2>1 DEF ThreadSound
  <2>3. th[t].pc # "idle"
    BY Zenon, <2>2 DEF Held
  <2>4. QED
    BY <2>1, <2>3, Zenon DEF ThreadSound
<1>3. Copied = {} /\ Holding = {}
  BY Zenon, <1>1, <1>2 DEF Copied, Holding
<1>4. Cardinality(Copied) = 0 /\ Cardinality(Holding) = 0
  BY Zenon, <1>3 DEF Counts, SizesOf
<1>5. mHeapCache.count \in Nat /\ mHeapCache.count <= 0
  BY <1>4 DEF CInv, CacheSound, CTypeInv
<1>6. mHeapCache.heap = None
  BY <1>5 DEF CInv, CacheSound
<1>7. ASSUME NEW r \in Real PROVE ~heaps[r].alive
  BY Zenon, <1>6, ClientAssumption DEF CInv, RealSound
<1>8. QED
  BY Zenon, <1>6, <1>7

-----------------------------------------------------------------------------
(* A step of one thread that leaves the counted references as they are     *)

\* A mapping of r that is there stays, and so does its descriptor.
Kept(r) == /\ heaps[r].mBase = r => heaps'[r].mBase = r
           /\ heaps[r].mHeapId => heaps'[r].mHeapId

LEMMA OtherThread ==
    ASSUME NEW u \in Threads, ThreadSound(u), th'[u] = th[u],
           failed => failed',
           \A m \in Callers : m = th[u].m =>
               bp'[m] = bp[m] /\ heaps'[m] = heaps[m] /\ alloc'[m] = alloc[m],
           th[u].r # None => Kept(th[u].r)
    PROVE  ThreadSound(u)'
<1> DEFINE m == th[u].m
           r == th[u].r
<1>1. (Bounding(u)' <=> Bounding(u)) /\ (Basing(u)' <=> Basing(u))
  BY Zenon DEF Bounding, Basing
<1>2. CASE th[u].pc = "idle"
  <2>1. m = None /\ ~Bounding(u) /\ ~Basing(u) /\ r = None
    BY <1>2, Zenon DEF ThreadSound, Bounding, Basing, Mapping, Held
  <2>2. QED
    BY Zenon, <1>1, <1>2, <2>1 DEF ThreadSound, Mapping, Held
<1>3. CASE th[u].pc # "idle"
  <2>1. m \in Callers /\ bp'[m] = bp[m] /\ heaps'[m] = heaps[m] /\ alloc'[m] = alloc[m]
    BY <1>3, Zenon DEF ThreadSound
  <2>2. th[u].pc \in Held => Kept(r)
    BY Zenon DEF ThreadSound
  <2>3. th[u].pc \in {"mSize", "mHeapId", "copy"} => heaps'[r].mBase = r
    BY Zenon, <2>2 DEF ThreadSound, Kept, Held
  <2>4. (~failed' /\ th[u].pc \in {"check", "copy"}) => heaps'[r].mHeapId
    BY Zenon, <2>2 DEF ThreadSound, Kept, Held
  <2>5. QED
    BY <1>1, <1>3, <2>1, <2>3, <2>4, Zenon DEF ThreadSound
<1>4. QED
  BY Zenon, <1>2, <1>3

LEMMA OtherMemory ==
    ASSUME NEW m \in Callers, MemorySound(m), failed => failed', bp'[m] = bp[m],
           heaps'[m] = heaps[m], alloc'[m] = alloc[m], pc'[m] = pc[m]
    PROVE  MemorySound(m)'
  BY Zenon DEF MemorySound

LEMMA OtherReal ==
    ASSUME NEW r \in Real, RealSound(r), heaps'[r] = heaps[r], mHeapCache'.heap = mHeapCache.heap
    PROVE  RealSound(r)'
  BY Zenon DEF RealSound

LEMMA NothingMapped ==
    ASSUME NEW m \in Callers, bp'[m].live => pc'[m] = "held", ~bp'[m].mHeap, bp'[m].mSize = 0,
           heaps'[m].mBase = MAP_FAILED, ~heaps'[m].mHeapId
    PROVE  MemorySound(m)'
  BY DEF MemorySound

\* A step of the threads T that changes the memories M alone.
LEMMA StepKeeps ==
    ASSUME CInv, NEW T \in SUBSET Threads, NEW M \in SUBSET Callers,
           DealerTypes', CTypeInv', OneUser', CacheSound', failed => failed',
           \A u \in Threads \ T :
               th'[u] = th[u] /\ th[u].m \notin M /\ (th[u].r # None => Kept(th[u].r)),
           \A m \in Callers \ M :
               bp'[m] = bp[m] /\ heaps'[m] = heaps[m] /\ alloc'[m] = alloc[m] /\ pc'[m] = pc[m],
           \A u \in T : ThreadSound(u)',
           \A m \in M : MemorySound(m)',
           \A r \in Real : RealSound(r)'
    PROVE  CInv'
<1>1. ASSUME NEW u \in Threads \ T PROVE ThreadSound(u)'
  <2>1. ThreadSound(u) /\ th'[u] = th[u] /\ (th[u].r # None => Kept(th[u].r))
    BY Zenon DEF CInv
  <2>2. \A m \in Callers : m = th[u].m =>
            bp'[m] = bp[m] /\ heaps'[m] = heaps[m] /\ alloc'[m] = alloc[m]
    BY Zenon
  <2>3. QED
    BY <2>1, <2>2, OtherThread, Zenon
<1>2. ASSUME NEW m \in Callers \ M PROVE MemorySound(m)'
  BY Zenon, OtherMemory DEF CInv
<1>3. QED
  BY <1>1, <1>2, Zenon DEF CInv

\* A step of one thread that leaves the references that are counted.
LEMMA Walk ==
    ASSUME CInv, NEW t \in Threads, CTypeInv', UNCHANGED <<vars, mHeapCache>>, failed => failed',
           \A u \in Threads \ {t} : th'[u] = th[u],
           th'[t].r = th[t].r,
           \/ th'[t].m \in {th[t].m, None}
           \/ \A u \in Threads : th[u].m # th'[t].m,
           \A m \in Callers \ {th[t].m} : bp'[m] = bp[m] /\ heaps'[m] = heaps[m],
           \A m \in Callers :
               m = th[t].m => MemorySound(m)' /\ heaps'[m].mBase = heaps[m].mBase,
           \A r \in Real : heaps'[r] = heaps[r] \/ (RealSound(r)' /\ Kept(r)),
           ThreadSound(t)'
    PROVE  CInv'
<1> DEFINE M == Callers \cap {th[t].m}
<1>1. /\ alloc' = alloc /\ pc' = pc /\ mHeapCache' = mHeapCache
      /\ DealerTypes' /\ OneUser /\ CacheSound
  BY Zenon, DealerNext DEF CInv, vars
<1>2. ASSUME NEW u \in Threads \ {t}
      PROVE  th'[u] = th[u] /\ th[u].m \notin M /\ (th[u].r # None => Kept(th[u].r))
  <2>1. th[u].m \notin M
    BY Zenon, <1>1, ClientAssumption DEF OneUser
  <2>2. th[u].r # None => th[u].r \in Real
    BY DEF CInv, CTypeInv, Thread
  <2>3. \A r \in Real : Kept(r)
    BY Zenon DEF Kept
  <2>4. QED
    BY Zenon, <2>1, <2>2, <2>3
<1>3. /\ \A m \in Callers \ M :
            bp'[m] = bp[m] /\ heaps'[m] = heaps[m] /\ alloc'[m] = alloc[m] /\ pc'[m] = pc[m]
      /\ \A m \in M : MemorySound(m)'
      /\ M \in SUBSET Callers /\ {t} \in SUBSET Threads /\ \A u \in {t} : ThreadSound(u)'
  BY Zenon, <1>1
<1>4. ASSUME NEW r \in Real PROVE RealSound(r)'
  <2>1. CASE heaps'[r] = heaps[r]
    BY Zenon, <1>1, <2>1, OtherReal DEF CInv
  <2>2. CASE RealSound(r)'
    BY Zenon, <2>2
  <2>3. QED
    BY Zenon, <2>1, <2>2
<1>5. OneUser'
  <2> SUFFICES ASSUME NEW u \in Threads, NEW v \in Threads, u # v, th'[u].m # None,
                      th'[u].m = th'[v].m
               PROVE  FALSE
    BY Zenon DEF OneUser
  <2>1. CASE u # t /\ v # t
    <3>1. th'[u] = th[u] /\ th'[v] = th[v]
      BY Zenon, <2>1
    <3>2. QED
      BY <1>1, <3>1 DEF OneUser
  <2>2. CASE u = t
    <3>1. th'[v] = th[v]
      BY Zenon, <2>2
    <3>2. th'[t].m = th[t].m
      BY Zenon, <2>2, <3>1
    <3>3. QED
      BY <1>1, <2>2, <3>1, <3>2 DEF OneUser
  <2>3. CASE v = t
    <3>1. th'[u] = th[u]
      BY Zenon, <2>3
    <3>2. th'[t].m = th[t].m
      BY Zenon, <2>3, <3>1
    <3>3. QED
      BY <1>1, <2>3, <3>1, <3>2 DEF OneUser
  <2>4. QED
    BY Zenon, <2>1, <2>2, <2>3
<1>6. CacheSound'
  <2>1. \A m \in Callers : heaps'[m].mBase = heaps[m].mBase
    BY Zenon
  <2>2. \A u \in Threads : th'[u].r = th[u].r
    BY Zenon
  <2>3. Copied' = Copied
    BY Zenon, <2>1 DEF Copied
  <2>4. Holding' = Holding
    BY Zenon, <2>2 DEF Holding
  <2>5. (\A m \in Copied' : heaps'[m].mBase = mHeapCache'.heap)
        /\ (\A u \in Holding' : th'[u].r = mHeapCache'.heap)
    BY <1>1, <2>1, <2>2, <2>3, <2>4 DEF CacheSound, Copied, Holding
  <2>6. QED
    BY <1>1, <2>3, <2>4, <2>5, Zenon DEF CacheSound
<1> HIDE DEF M
<1>7. QED
  BY <1>1, <1>2, <1>3, <1>4, <1>5, <1>6, StepKeeps, Zenon

\* A step that only moves its thread.
LEMMA Moves ==
    ASSUME CInv, NEW t \in Threads, th' \in [Threads -> Thread],
           \A u \in Threads \ {t} : th'[u] = th[u],
           UNCHANGED <<vars, bp, heaps, mHeapCache>>, failed' \in BOOLEAN, failed => failed',
           th'[t].r = th[t].r,
           \/ th'[t].m \in {th[t].m, None}
           \/ \A u \in Threads : th[u].m # th'[t].m,
           ThreadSound(t)'
    PROVE  CInv'
<1>1. CTypeInv'
  BY Zenon DEF CInv, CTypeInv
<1>2. \A m \in Callers : MemorySound(m)' /\ heaps'[m].mBase = heaps[m].mBase
  BY Zenon, OtherMemory DEF CInv, vars
<1>3. QED
  BY Zenon, <1>1, <1>2, Walk

\* The steps of unsecurePointer that only move the thread.
LEMMA GotoFields ==
    ASSUME CTypeInv, NEW t \in Threads, NEW p \in Places, Goto(t, p)
    PROVE  /\ th' \in [Threads -> Thread] /\ \A u \in Threads \ {t} : th'[u] = th[u]
           /\ th'[t].pc = p /\ th'[t].m = th[t].m /\ th'[t].r = th[t].r
           /\ th'[t].o = th[t].o /\ th'[t].s = th[t].s /\ th'[t].then = th[t].then
  BY Zenon DEF CTypeInv, Goto, Thread

LEMMA GotoStep ==
    ASSUME CInv, NEW t \in Threads, NEW p \in Places, Goto(t, p),
           UNCHANGED <<vars, bp, heaps, mHeapCache>>, failed' \in BOOLEAN, failed => failed',
           p # "idle" /\ th[t].pc # "idle",
           p \in Held <=> th[t].pc \in Held,
           p # "transact",
           p \in Mapping => th[t].pc \in Mapping,
           (p = "bounds" \/ (p \in Mapping /\ th[t].then = "bounds")) => Bounding(t),
           (p \in {"base", "pointer"} \/ (p \in Mapping /\ th[t].then = "base")) => Basing(t),
           p = "pointer" => heaps[th[t].m].mBase # MAP_FAILED,
           p \in {"mSize", "mHeapId", "copy"} => heaps[th[t].r].mBase = th[t].r,
           (~failed' /\ p \in {"check", "copy"}) => heaps[th[t].r].mHeapId
    PROVE  CInv'
<1>1. CTypeInv /\ ThreadSound(t)
  BY Zenon DEF CInv
<1>2. /\ th' \in [Threads -> Thread] /\ \A u \in Threads \ {t} : th'[u] = th[u]
      /\ th'[t].pc = p /\ th'[t].m = th[t].m /\ th'[t].r = th[t].r
      /\ th'[t].o = th[t].o /\ th'[t].s = th[t].s /\ th'[t].then = th[t].then
  BY Zenon, <1>1, GotoFields
<1>3. alloc' = alloc /\ bp' = bp /\ heaps' = heaps
  BY Zenon DEF vars
<1>4. (Bounding(t)' => Bounding(t)) /\ (Basing(t)' => Basing(t))
  BY Zenon, <1>2 DEF Bounding, Basing
<1>5. ThreadSound(t)'
  BY Zenon, <1>1, <1>2, <1>3, <1>4 DEF ThreadSound
<1>6. QED
  BY Zenon, <1>2, <1>5, Moves

LEMMA PlacesNamed ==
    /\ \A p \in {"idle", "transact", "getMemory", "bounds", "base", "pointer"} :
          p \in Places /\ p \notin Held /\ p \notin Mapping
    /\ \A p \in Held : p \in Places /\ p \in Mapping /\ p # "idle"
    /\ "assertMapped" \in Places /\ "assertMapped" \in Mapping /\ "assertMapped" \notin Held
  BY Zenon DEF Places, Mapping, Held

LEMMA BaseStep ==
    ASSUME CInv, NEW t \in Threads, Base(t), heaps[th[t].m].mBase # MAP_FAILED
    PROVE  CInv'
<1>1. /\ th[t].pc = "base" /\ Goto(t, "pointer")
      /\ UNCHANGED <<vars, bp, heaps, mHeapCache, failed>>
  BY Zenon DEF Base, Here
<1>2. Basing(t)
  BY Zenon, <1>1 DEF Basing
<1>3. failed' \in BOOLEAN /\ (failed => failed')
  BY Zenon, <1>1 DEF CInv, CTypeInv
<1>4. QED
  BY Zenon, <1>1, <1>2, <1>3, PlacesNamed, GotoStep DEF Mapping, Held, Places

LEMMA assertReallyMappedStep ==
    ASSUME CInv, NEW t \in Threads, assertReallyMapped(t)
    PROVE  CInv'
<1>1. th[t].pc = "assertReallyMapped" /\ UNCHANGED <<vars, bp, heaps, mHeapCache>>
  BY Zenon DEF assertReallyMapped, Here
<1>2. PICK p \in {"check", "lock"} : Goto(t, p) /\ (p = "check" => heaps[th[t].r].mHeapId \/ failed' = TRUE)
  BY Zenon DEF assertReallyMapped
<1>3. failed' \in BOOLEAN /\ (failed => failed')
  <2>1. failed \in BOOLEAN /\ (failed' = failed \/ failed' = TRUE)
    BY Zenon DEF assertReallyMapped, CInv, CTypeInv
  <2>2. QED
    BY <2>1, Zenon
<1>4. /\ p \in Places /\ p \in Held /\ th[t].pc \in Held /\ th[t].pc \in Mapping
      /\ p \notin {"idle", "transact", "bounds", "base", "pointer", "mSize", "mHeapId", "copy"}
  BY Zenon, <1>1, <1>2 DEF Places, Mapping, Held
<1>5. /\ th[t].then = "bounds" => Bounding(t)
      /\ th[t].then = "base" => Basing(t)
  BY Zenon, <1>4 DEF Bounding, Basing
<1>6. (~failed' /\ p \in {"check", "copy"}) => heaps[th[t].r].mHeapId
  BY <1>2, <1>4, Zenon
<1>7. QED
  BY Zenon, <1>1, <1>2, <1>3, <1>4, <1>5, <1>6, GotoStep

LEMMA MappedStep ==
    ASSUME CInv, NEW t \in Threads, assertMapped(t), heaps[th[t].m].mHeapId
    PROVE  CInv'
<1> DEFINE p == th[t].then
<1>1. /\ th[t].pc = "assertMapped" /\ Goto(t, p)
      /\ UNCHANGED <<vars, bp, heaps, mHeapCache, failed>>
  BY Zenon DEF assertMapped, Here
<1>2. ThreadSound(t) /\ th[t] \in Thread /\ failed \in BOOLEAN
  BY Zenon DEF CInv, CTypeInv
<1>3. p \in {"bounds", "base"}
  BY Zenon, <1>1, <1>2 DEF ThreadSound, Thread, Mapping
<1>4. failed' \in BOOLEAN /\ (failed => failed')
  BY <1>1, <1>2, Zenon
<1>5. (p = "bounds" => Bounding(t)) /\ (p = "base" => Basing(t))
  BY Zenon, <1>1 DEF Bounding, Basing, Mapping
<1> HIDE DEF p
<1>6. /\ p \in Places /\ p \notin Held /\ p \notin Mapping /\ th[t].pc \notin Held
      /\ p \notin {"idle", "transact", "pointer", "mSize", "mHeapId", "check", "copy"}
  BY Zenon, <1>1, <1>3 DEF Places, Mapping, Held
<1>7. QED
  BY Zenon, <1>1, <1>3, <1>4, <1>5, <1>6, GotoStep DEF p

LEMMA CheckStep ==
    ASSUME CInv, NEW t \in Threads, Check(t), heaps[th[t].r].mBase # MAP_FAILED
    PROVE  CInv'
<1>1. /\ th[t].pc = "check" /\ Goto(t, "copy")
      /\ UNCHANGED <<vars, bp, heaps, mHeapCache, failed>>
  BY Zenon DEF Check, Here
<1>2. ThreadSound(t) /\ th[t] \in Thread /\ failed \in BOOLEAN
  BY Zenon DEF CInv, CTypeInv
<1>3. th[t].r \in Real
  BY Zenon, <1>1, <1>2 DEF ThreadSound, Thread, Held
<1>4. heaps[th[t].r].mBase = th[t].r
  BY Zenon, <1>3 DEF CInv, RealSound
<1>5. failed' \in BOOLEAN /\ (failed => failed')
  BY <1>1, <1>2, Zenon
<1>6. ~failed' => heaps[th[t].r].mHeapId
  BY Zenon, <1>1, <1>2 DEF ThreadSound
<1>7. /\ "copy" \in Places /\ "copy" \in Held /\ th[t].pc \in Held /\ th[t].pc \in Mapping
  BY Zenon, <1>1 DEF Places, Mapping, Held
<1>8. /\ th[t].then = "bounds" => Bounding(t)
      /\ th[t].then = "base" => Basing(t)
  BY Zenon, <1>7 DEF Bounding, Basing
<1>9. QED
  BY Zenon, <1>1, <1>4, <1>5, <1>6, <1>7, <1>8, GotoStep

\* A thread returns.
LEMMA ReturnStep ==
    ASSUME CInv, NEW t \in Threads, Return(t), th[t].pc \notin Held,
           UNCHANGED <<vars, bp, heaps, mHeapCache, failed>>
    PROVE  CInv'
<1>1. ThreadSound(t) /\ th[t] \in Thread /\ failed \in BOOLEAN /\ th \in [Threads -> Thread]
  BY Zenon DEF CInv, CTypeInv
<1>2. Idle \in Thread /\ Idle.pc = "idle" /\ Idle.m = None /\ Idle.r = None
  BY Zenon DEF Idle, Thread, Places
<1>3. /\ th' \in [Threads -> Thread] /\ th'[t] = Idle
      /\ \A u \in Threads \ {t} : th'[u] = th[u]
  BY Zenon, <1>1, <1>2 DEF Return
<1>4. th[t].r = None
  BY Zenon, <1>1 DEF ThreadSound
<1>5. failed' \in BOOLEAN /\ (failed => failed')
  BY <1>1, Zenon
<1>6. ThreadSound(t)'
  BY Zenon, <1>2, <1>3 DEF ThreadSound, Bounding, Basing, Mapping, Held
<1>7. QED
  BY Zenon, <1>2, <1>3, <1>4, <1>5, <1>6, Moves

LEMMA LeaveStep ==
    ASSUME CInv, NEW t \in Threads,
           \/ HeapOrNull(t) /\ ~(bp[th[t].m].mSize > 0)
           \/ Base(t) /\ heaps[th[t].m].mBase = MAP_FAILED
           \/ Used(t)
    PROVE  CInv'
<1>1. /\ Return(t) /\ UNCHANGED <<vars, bp, heaps, mHeapCache, failed>>
      /\ th[t].pc \in {"getMemory", "base", "pointer"}
  BY Zenon DEF HeapOrNull, Base, Used, Here
<1>2. QED
  BY Zenon, <1>1, ReturnStep DEF Held

LEMMA HeapStep ==
    ASSUME CInv, NEW t \in Threads, HeapOrNull(t), bp[th[t].m].mSize > 0
    PROVE  CInv'
<1> DEFINE m == th[t].m
<1>1. /\ th[t].pc = "getMemory" /\ UNCHANGED <<vars, bp, heaps, mHeapCache, failed>>
      /\ th' = [th EXCEPT ![t].pc = "assertMapped", ![t].then = "base"]
  BY Zenon DEF HeapOrNull, Here
<1>2. ThreadSound(t) /\ th[t] \in Thread /\ failed \in BOOLEAN /\ th \in [Threads -> Thread]
  BY Zenon DEF CInv, CTypeInv
<1>3. /\ th' \in [Threads -> Thread] /\ \A u \in Threads \ {t} : th'[u] = th[u]
      /\ th'[t].pc = "assertMapped" /\ th'[t].then = "base"
      /\ th'[t].m = m /\ th'[t].r = th[t].r
  BY Zenon, <1>1, <1>2 DEF Thread, Places, Mapping
<1>4. m \in Callers /\ bp[m].live /\ th[t].r = None
  BY Zenon, <1>1, <1>2 DEF ThreadSound, Held
<1>5. failed' \in BOOLEAN /\ (failed => failed')
  BY <1>1, <1>2, Zenon
<1>6. bp[m].mHeap
  BY <1>4 DEF CInv, MemorySound
<1>7. ThreadSound(t)'
  BY Zenon, <1>1, <1>3, <1>4, <1>6, ClientAssumption DEF ThreadSound, Bounding, Basing, Mapping, Held, None
<1>8. QED
  BY Zenon, <1>1, <1>3, <1>5, <1>7, Moves

LEMMA unsecurePointerStep ==
    ASSUME CInv, NEW t \in Threads, NEW m \in Callers, unsecurePointer(t, m)
    PROVE  CInv'
<1>1. /\ th[t].pc = "idle" /\ bp[m].live /\ \A u \in Threads : th[u].m # m
      /\ UNCHANGED <<vars, bp, heaps, mHeapCache, failed>>
  BY Zenon DEF unsecurePointer, Here
<1>2. PICK p \in {"getMemory", "transact"} :
          /\ th' = [th EXCEPT ![t].pc = p, ![t].m = m]
          /\ p = "transact" => ~bp[m].mHeap
  BY Zenon DEF unsecurePointer
<1>3. ThreadSound(t) /\ th[t] \in Thread /\ failed \in BOOLEAN /\ th \in [Threads -> Thread]
  BY Zenon DEF CInv, CTypeInv
<1>4. /\ th' \in [Threads -> Thread] /\ \A u \in Threads \ {t} : th'[u] = th[u]
      /\ th'[t].pc = p /\ th'[t].m = m /\ th'[t].r = th[t].r
  BY Zenon, <1>2, <1>3 DEF Thread, Places
<1>5. failed' \in BOOLEAN /\ (failed => failed')
  BY <1>1, <1>3, Zenon
<1>6. th[t].r = None
  BY Zenon, <1>1, <1>3 DEF ThreadSound, Held
<1>7. ThreadSound(t)'
  BY Zenon, <1>1, <1>2, <1>4, <1>6 DEF ThreadSound, Bounding, Basing, Mapping, Held
<1>8. QED
  BY Zenon, <1>1, <1>4, <1>5, <1>7, Moves

-----------------------------------------------------------------------------
(* The steps that write what the thread asks for, and the mapping          *)

LEMMA GetMemoryStep ==
    ASSUME CInv, NEW t \in Threads, GetMemory(t)
    PROVE  CInv'
<1> DEFINE m == th[t].m
<1>1. th[t].pc = "transact" /\ UNCHANGED <<vars, mHeapCache>>
  BY Zenon DEF GetMemory, Here
<1>2. /\ ThreadSound(t) /\ th[t] \in Thread /\ failed \in BOOLEAN /\ th \in [Threads -> Thread]
      /\ bp \in [Callers -> Memory] /\ heaps \in [Callers \cup Real -> Heap] /\ CTypeInv
  BY Zenon DEF CInv, CTypeInv
<1>3. m \in Callers /\ bp[m].live /\ ~bp[m].mHeap /\ th[t].r = None
  BY Zenon, <1>1, <1>2 DEF ThreadSound, Held
<1>4. MemorySound(m) /\ alloc[m] \in [offset : Nat, size : Nat]
  BY Zenon, <1>3 DEF CInv, DealerTypes
<1>5. CASE Goto(t, "getMemory") /\ failed' = TRUE /\ UNCHANGED <<bp, heaps>>
  <2>1. failed' \in BOOLEAN /\ (failed => failed')
    BY <1>5, Zenon
  <2>2. QED
    BY Zenon, <1>1, <1>5, <2>1, PlacesNamed, GotoStep DEF Held, Mapping
<1>6. CASE /\ bp' = [bp EXCEPT ![m].mHeap = TRUE]
           /\ heaps' = [heaps EXCEPT ![m] = BpMemoryHeap]
           /\ th' = [th EXCEPT ![t].pc = "assertMapped", ![t].then = "bounds",
                               ![t].o = alloc[m].offset, ![t].s = alloc[m].size]
           /\ UNCHANGED failed
  <2>1. alloc[m].offset \in Nat /\ alloc[m].size \in Nat
    BY Zenon, <1>4
  <2>2. /\ th' \in [Threads -> Thread] /\ \A u \in Threads \ {t} : th'[u] = th[u]
        /\ th'[t].pc = "assertMapped" /\ th'[t].then = "bounds" /\ th'[t].m = m
        /\ th'[t].o = alloc[m].offset /\ th'[t].s = alloc[m].size /\ th'[t].r = th[t].r
    BY Zenon, <1>2, <1>6, <2>1 DEF Thread, Places, Mapping
  <2>3. /\ BpMemoryHeap \in Heap /\ BpMemoryHeap.mBase = MAP_FAILED /\ ~BpMemoryHeap.mHeapId
    BY Zenon DEF BpMemoryHeap, NoProxy, Heap
  <2>4. /\ heaps' \in [Callers \cup Real -> Heap] /\ heaps'[m] = BpMemoryHeap
        /\ \A h \in (Callers \cup Real) \ {m} : heaps'[h] = heaps[h]
    BY Zenon, <1>2, <1>3, <1>6, <2>3
  <2>5. /\ bp' \in [Callers -> Memory] /\ \A n \in Callers \ {m} : bp'[n] = bp[n]
        /\ bp'[m].live = bp[m].live /\ bp'[m].mHeap = TRUE
        /\ bp'[m].mOffset = bp[m].mOffset /\ bp'[m].mSize = bp[m].mSize
    BY Zenon, <1>2, <1>3, <1>6 DEF Memory
  <2>6. CTypeInv'
    BY <1>1, <1>2, <1>6, <2>2, <2>4, <2>5, Zenon DEF CTypeInv
  <2>7. bp[m].mSize = 0 /\ heaps[m].mBase = MAP_FAILED /\ pc[m] = "held"
    BY Zenon, <1>3, <1>4 DEF MemorySound
  <2>8. bp'[m].live /\ bp'[m].mHeap /\ alloc' = alloc /\ pc' = pc
    BY Zenon, <1>1, <1>3, <2>5 DEF vars
  <2>9. ASSUME NEW n \in Callers, n = m
        PROVE  MemorySound(n)' /\ heaps'[n].mBase = heaps[n].mBase
    <3>1. /\ bp'[n].live /\ bp'[n].mHeap /\ bp'[n].mSize = 0 /\ pc'[n] = "held"
          /\ heaps'[n] = BpMemoryHeap /\ heaps[n].mBase = MAP_FAILED
      BY Zenon, <2>4, <2>5, <2>7, <2>8, <2>9
    <3>2. QED
      BY <2>3, <3>1 DEF MemorySound
  <2>10. ThreadSound(t)'
    BY Zenon, <1>3, <2>2, <2>8 DEF ThreadSound, Bounding, Basing, Mapping, Held, None
  <2>11. \A r \in Real : heaps'[r] = heaps[r]
    BY Zenon, <1>3, <2>4, ClientAssumption
  <2>12. QED
    BY Zenon, <1>1, <1>6, <2>2, <2>4, <2>5, <2>6, <2>9, <2>10, <2>11, Walk
<1>7. QED
  BY Zenon, <1>5, <1>6 DEF GetMemory, MemoryBase_getMemory

LEMMA BoundsStep ==
    ASSUME CInv, NEW t \in Threads, Bounds(t)
    PROVE  CInv'
<1> DEFINE m == th[t].m
<1>1. /\ th[t].pc = "bounds" /\ UNCHANGED <<vars, heaps, mHeapCache, failed>>
      /\ Goto(t, "getMemory")
  BY Zenon DEF Bounds, Here
<1>2. /\ ThreadSound(t) /\ th[t] \in Thread /\ failed \in BOOLEAN /\ CTypeInv
      /\ bp \in [Callers -> Memory]
  BY Zenon DEF CInv, CTypeInv
<1>3. m \in Callers /\ bp[m].live /\ th[t].r = None
  BY Zenon, <1>1, <1>2 DEF ThreadSound, Held
<1>4. th[t].o = alloc[m].offset /\ th[t].s = alloc[m].size
  BY Zenon, <1>1, <1>2 DEF ThreadSound, Bounding
<1>5. /\ th' \in [Threads -> Thread] /\ \A u \in Threads \ {t} : th'[u] = th[u]
      /\ th'[t].pc = "getMemory" /\ th'[t].m = th[t].m /\ th'[t].r = th[t].r
      /\ th'[t].o = th[t].o /\ th'[t].s = th[t].s /\ th'[t].then = th[t].then
  BY Zenon, <1>1, <1>2, PlacesNamed, GotoFields
<1>6. PICK o \in Nat, s \in Nat : /\ bp' = [bp EXCEPT ![m].mOffset = o, ![m].mSize = s]
                                  /\ s > 0 => o = th[t].o /\ s = th[t].s
  <2>1. th[t].o \in Nat /\ th[t].s \in Nat /\ 0 \in Nat /\ ~(0 > 0)
    BY <1>2 DEF Thread
  <2> DEFINE fits == th[t].s <= heaps[m].mSize /\ th[t].o <= heaps[m].mSize - th[t].s
  <2>2. bp' = [bp EXCEPT ![m].mOffset = IF fits THEN th[t].o ELSE 0,
                         ![m].mSize = IF fits THEN th[t].s ELSE 0]
    BY Zenon DEF Bounds
  <2> HIDE DEF fits
  <2>3. CASE fits
    BY Zenon, <2>1, <2>2, <2>3
  <2>4. CASE ~fits
    BY Zenon, <2>1, <2>2, <2>4
  <2>5. QED
    BY Zenon, <2>3, <2>4
<1>7. /\ bp' \in [Callers -> Memory] /\ \A n \in Callers \ {m} : bp'[n] = bp[n]
      /\ bp'[m].live = bp[m].live /\ bp'[m].mHeap = bp[m].mHeap
      /\ bp'[m].mOffset = o /\ bp'[m].mSize = s
  BY Zenon, <1>2, <1>3, <1>6 DEF Memory
<1>8. CTypeInv'
  BY <1>1, <1>2, <1>5, <1>7, Zenon DEF CTypeInv
<1>9. bp[m].mHeap /\ MemorySound(m)
  BY Zenon, <1>1, <1>2, <1>3 DEF ThreadSound, Bounding, CInv
<1>10. alloc' = alloc /\ pc' = pc
  BY Zenon, <1>1 DEF vars
<1>11. s > 0 => o = alloc[m].offset /\ s = alloc[m].size
  BY Zenon, <1>4, <1>6
<1>12. ASSUME NEW n \in Callers, n = m
       PROVE  MemorySound(n)' /\ heaps'[n].mBase = heaps[n].mBase
  BY Zenon, <1>1, <1>7, <1>9, <1>10, <1>11, <1>12 DEF MemorySound
<1>13. ThreadSound(t)'
  BY Zenon, <1>3, <1>5, <1>7 DEF ThreadSound, Bounding, Basing, Mapping, Held
<1>14. QED
  BY Zenon, <1>1, <1>5, <1>7, <1>8, <1>12, <1>13, Walk

\* A thread that maps the real heap writes it field by field.
LEMMA RealStep ==
    ASSUME CInv, NEW t \in Threads, NEW p \in Places, Goto(t, p), NEW x \in Heap,
           UNCHANGED <<vars, bp, mHeapCache>>, failed' \in BOOLEAN, failed => failed',
           th[t].pc \in Held, p \in Held,
           heaps' = [heaps EXCEPT ![th[t].r] = x],
           x.mBase \in {MAP_FAILED, th[t].r}, x.mHeapId => x.mBase = th[t].r,
           x.mBase = th[t].r => x.mHeapId \/ x.mLock, x.alive => heaps[th[t].r].alive,
           heaps[th[t].r].mBase = th[t].r => x.mBase = th[t].r,
           heaps[th[t].r].mHeapId => x.mHeapId,
           p \in {"mSize", "mHeapId", "copy"} => x.mBase = th[t].r,
           (~failed' /\ p \in {"check", "copy"}) => x.mHeapId
    PROVE  CInv'
<1> DEFINE r == th[t].r
           m == th[t].m
<1>1. CTypeInv /\ ThreadSound(t) /\ heaps \in [Callers \cup Real -> Heap] /\ th[t] \in Thread
  BY Zenon DEF CInv, CTypeInv
<1>2. /\ th' \in [Threads -> Thread] /\ \A u \in Threads \ {t} : th'[u] = th[u]
      /\ th'[t].pc = p /\ th'[t].m = th[t].m /\ th'[t].r = th[t].r
      /\ th'[t].o = th[t].o /\ th'[t].s = th[t].s /\ th'[t].then = th[t].then
  BY Zenon, <1>1, GotoFields
<1>3. r \in Real /\ r # None /\ r \notin Callers
  BY Zenon, <1>1, ClientAssumption DEF ThreadSound, Thread
<1>4. /\ heaps' \in [Callers \cup Real -> Heap] /\ heaps'[r] = x
      /\ \A h \in (Callers \cup Real) \ {r} : heaps'[h] = heaps[h]
  BY Zenon, <1>1, <1>3
<1>5. CTypeInv'
  BY <1>1, <1>2, <1>4, Zenon DEF CTypeInv
<1>6. alloc' = alloc /\ pc' = pc /\ bp' = bp /\ mHeapCache' = mHeapCache
  BY Zenon DEF vars
<1>7. \A n \in Callers : heaps'[n] = heaps[n] /\ bp'[n] = bp[n]
  BY Zenon, <1>3, <1>4, <1>6
<1>8. \A n \in Callers : MemorySound(n)' /\ heaps'[n].mBase = heaps[n].mBase
  BY Zenon, <1>6, <1>7, OtherMemory DEF CInv
<1>9. ASSUME NEW q \in Real
      PROVE  heaps'[q] = heaps[q] \/ (RealSound(q)' /\ Kept(q))
  <2>1. CASE q # r
    BY Zenon, <1>4, <2>1
  <2>2. CASE q = r
    <3>1. RealSound(q)'
      BY Zenon, <1>4, <1>6, <2>2 DEF RealSound, CInv
    <3>2. Kept(q)
      BY Zenon, <1>4, <2>2 DEF Kept
    <3>3. QED
      BY Zenon, <3>1, <3>2
  <2>3. QED
    BY Zenon, <2>1, <2>2
<1>10. (Bounding(t)' <=> Bounding(t)) /\ (Basing(t)' <=> Basing(t)) /\ p \in Mapping
  BY Zenon, <1>2 DEF Bounding, Basing, Mapping, Held
<1>11. ThreadSound(t)'
  <2>1. m \in Callers /\ bp[m].live /\ th[t].then # None /\ ~heaps[m].mHeapId
    BY Zenon, <1>1 DEF ThreadSound, Held, Mapping
  <2>2. /\ Bounding(t) => bp[m].mHeap /\ th[t].o = alloc[m].offset /\ th[t].s = alloc[m].size
        /\ Basing(t) => bp[m].mSize > 0
    BY Zenon, <1>1 DEF ThreadSound
  <2>3. heaps'[m] = heaps[m] /\ p \notin {"idle", "transact", "pointer"}
    BY Zenon, <1>7, <2>1 DEF Held
  <2>4. QED
    BY Zenon, <1>2, <1>3, <1>4, <1>6, <1>10, <2>1, <2>2, <2>3 DEF ThreadSound
<1>12. QED
  BY Zenon, <1>2, <1>5, <1>7, <1>8, <1>9, <1>11, Walk

LEMMA MapHeapStep ==
    ASSUME CInv, NEW t \in Threads, MapHeap(t)
    PROVE  CInv'
<1> DEFINE r == th[t].r
           h == heaps[r]
<1>1. /\ th[t].pc = "lock" /\ ~h.mLock /\ UNCHANGED <<vars, bp, mHeapCache>>
  BY Zenon DEF MapHeap, Here
<1>2. /\ ThreadSound(t) /\ th[t] \in Thread /\ failed \in BOOLEAN
      /\ heaps \in [Callers \cup Real -> Heap]
  BY Zenon DEF CInv, CTypeInv
<1>3. r \in Real /\ th[t].pc \in Held /\ th[t].pc \in Mapping
  BY Zenon, <1>1, <1>2, ClientAssumption DEF ThreadSound, Thread, Held, Mapping
<1>4. RealSound(r) /\ h \in Heap
  BY Zenon, <1>2, <1>3 DEF CInv
<1>5. {"check", "mSize"} \subseteq Held /\ {"check", "mSize"} \subseteq Places
  BY Zenon DEF Held, Places, Mapping
<1>6. CASE h.mHeapId /\ Goto(t, "check") /\ UNCHANGED <<heaps, failed>>
  <2>1. failed' \in BOOLEAN /\ (failed => failed')
    BY <1>2, <1>6, Zenon
  <2>2. /\ th[t].then = "bounds" => Bounding(t)
        /\ th[t].then = "base" => Basing(t)
    BY Zenon, <1>3 DEF Bounding, Basing
  <2>3. QED
    BY Zenon, <1>1, <1>3, <1>5, <1>6, <2>1, <2>2, GotoStep
<1>7. CASE /\ ~h.mHeapId /\ Goto(t, "mSize") /\ UNCHANGED failed
           /\ heaps' = [heaps EXCEPT ![r].mBase = r, ![r].mRealHeap = TRUE, ![r].mLock = TRUE]
  <2> DEFINE x == [h EXCEPT !.mBase = r, !.mRealHeap = TRUE, !.mLock = TRUE]
  <2>1. heaps' = [heaps EXCEPT ![r] = x]
    BY Zenon, <1>2, <1>3, <1>7
  <2>2. x \in Heap /\ x.mBase = r /\ x.mHeapId = h.mHeapId /\ x.mLock = TRUE /\ x.alive = h.alive
    BY Zenon, <1>3, <1>4 DEF Heap
  <2>3. failed' \in BOOLEAN /\ (failed => failed')
    BY <1>2, <1>7, Zenon
  <2> HIDE DEF x
  <2>4. /\ x.mHeapId => x.mBase = r
        /\ x.mBase = r => x.mHeapId \/ x.mLock
        /\ (x.alive => h.alive) /\ (h.mHeapId => x.mHeapId)
    BY <2>2, Zenon
  <2>5. QED
    BY Zenon, <1>1, <1>3, <1>5, <1>7, <2>1, <2>2, <2>3, <2>4, RealStep
<1>8. CASE /\ ~h.mHeapId /\ Goto(t, "check") /\ failed' = TRUE
           /\ heaps' = [heaps EXCEPT ![r].mBase = MAP_FAILED, ![r].mRealHeap = TRUE]
  <2> DEFINE x == [h EXCEPT !.mBase = MAP_FAILED, !.mRealHeap = TRUE]
  <2>1. heaps' = [heaps EXCEPT ![r] = x]
    BY Zenon, <1>2, <1>3, <1>8
  <2>2. /\ x \in Heap /\ x.mBase = MAP_FAILED /\ x.mHeapId = h.mHeapId /\ x.mLock = h.mLock
        /\ x.alive = h.alive
    BY Zenon, <1>4 DEF Heap
  <2>3. failed' \in BOOLEAN /\ (failed => failed') /\ failed'
    BY <1>8, Zenon
  <2>4. MAP_FAILED # r /\ h.mBase # r
    BY Zenon, <1>1, <1>3, <1>4, <1>8, ClientAssumption DEF RealSound
  <2> HIDE DEF x
  <2>5. /\ x.mHeapId => x.mBase = r
        /\ x.mBase = r => x.mHeapId \/ x.mLock
        /\ (x.alive => h.alive) /\ (h.mHeapId => x.mHeapId)
    BY <1>8, <2>2, <2>4, Zenon
  <2>6. QED
    BY Zenon, <1>1, <1>3, <1>5, <1>8, <2>1, <2>2, <2>3, <2>4, <2>5, RealStep
<1>9. QED
  BY <1>6, <1>7, <1>8, Zenon DEF MapHeap

LEMMA SetSizeStep ==
    ASSUME CInv, NEW t \in Threads, SetSize(t)
    PROVE  CInv'
<1> DEFINE r == th[t].r
           h == heaps[r]
           x == [h EXCEPT !.mSize = mHeapSize]
<1>1. /\ th[t].pc = "mSize" /\ UNCHANGED <<vars, bp, mHeapCache, failed>>
      /\ Goto(t, "mHeapId") /\ heaps' = [heaps EXCEPT ![r].mSize = mHeapSize]
  BY Zenon DEF SetSize, Here, MemoryHeapBase_mSize
<1>2. /\ ThreadSound(t) /\ th[t] \in Thread /\ failed \in BOOLEAN
      /\ heaps \in [Callers \cup Real -> Heap]
  BY Zenon DEF CInv, CTypeInv
<1>3. r \in Real /\ th[t].pc \in Held /\ h.mBase = r
  BY Zenon, <1>1, <1>2, ClientAssumption DEF ThreadSound, Thread, Held
<1>4. RealSound(r) /\ h \in Heap
  BY Zenon, <1>2, <1>3 DEF CInv
<1>5. "mHeapId" \in Held /\ "mHeapId" \in Places
  BY Zenon DEF Held, Places, Mapping
<1>6. heaps' = [heaps EXCEPT ![r] = x]
  BY Zenon, <1>1, <1>2, <1>3
<1>7. mHeapSize \in Nat
  BY Zenon, HeapSizeType
<1>8. /\ x \in Heap /\ x.mBase = h.mBase /\ x.mHeapId = h.mHeapId /\ x.mLock = h.mLock
      /\ x.alive = h.alive
  BY Zenon, <1>4, <1>7 DEF Heap
<1> HIDE DEF x
<1>9. /\ x.mHeapId => x.mBase = r
      /\ x.mBase = r => x.mHeapId \/ x.mLock
      /\ (x.alive => h.alive) /\ (h.mHeapId => x.mHeapId)
      /\ failed' \in BOOLEAN /\ (failed => failed')
  BY <1>1, <1>2, <1>3, <1>4, <1>8, Zenon DEF RealSound
<1>10. QED
  BY ZenonT(40), <1>1, <1>3, <1>5, <1>6, <1>8, <1>9, RealStep

LEMMA SetHeapIdStep ==
    ASSUME CInv, NEW t \in Threads, SetHeapId(t)
    PROVE  CInv'
<1> DEFINE r == th[t].r
           h == heaps[r]
           x == [h EXCEPT !.mHeapId = TRUE, !.mLock = FALSE]
<1>1. /\ th[t].pc = "mHeapId" /\ UNCHANGED <<vars, bp, mHeapCache, failed>>
      /\ Goto(t, "check") /\ heaps' = [heaps EXCEPT ![r].mHeapId = TRUE, ![r].mLock = FALSE]
  BY Zenon DEF SetHeapId, Here
<1>2. /\ ThreadSound(t) /\ th[t] \in Thread /\ failed \in BOOLEAN
      /\ heaps \in [Callers \cup Real -> Heap]
  BY Zenon DEF CInv, CTypeInv
<1>3. r \in Real /\ th[t].pc \in Held /\ h.mBase = r
  BY Zenon, <1>1, <1>2, ClientAssumption DEF ThreadSound, Thread, Held
<1>4. h \in Heap
  BY Zenon, <1>2, <1>3
<1>5. "check" \in Held /\ "check" \in Places
  BY Zenon DEF Held, Places, Mapping
<1>6. heaps' = [heaps EXCEPT ![r] = x]
  BY Zenon, <1>1, <1>2, <1>3
<1>7. x \in Heap /\ x.mBase = h.mBase /\ x.mHeapId = TRUE /\ x.alive = h.alive
  BY Zenon, <1>4 DEF Heap
<1> HIDE DEF x
<1>8. /\ x.mHeapId /\ x.mBase = r /\ (x.alive => h.alive)
      /\ failed' \in BOOLEAN /\ (failed => failed')
  BY <1>1, <1>2, <1>3, <1>7, Zenon
<1>9. QED
  BY Zenon, <1>1, <1>3, <1>5, <1>6, <1>7, <1>8, RealStep

-----------------------------------------------------------------------------
(* The steps that find a heap in the cache and free it                     *)

\* The sizes of the sets of users, and a cache without a heap has none.
LEMMA Sizes1 ==
    ASSUME Counts, CInv
    PROVE  /\ Copied \in SUBSET Callers /\ Holding \in SUBSET Threads
           /\ Cardinality(Copied) \in Nat /\ Cardinality(Holding) \in Nat
           /\ mHeapCache.count \in Nat /\ mHeapCache.heap \in Real \cup {None}
           /\ mHeapCache.heap = None => mHeapCache.count = 0 /\ Copied = {} /\ Holding = {}
<1>1. Copied \in SUBSET Callers /\ Holding \in SUBSET Threads
  BY Zenon DEF Copied, Holding
<1>2. /\ Cardinality(Copied) \in Nat /\ (Cardinality(Copied) = 0 => Copied = {})
      /\ Cardinality(Holding) \in Nat /\ (Cardinality(Holding) = 0 => Holding = {})
  BY <1>1, Zenon DEF Counts, SizesOf
<1>3. mHeapCache.count \in Nat /\ mHeapCache.heap \in Real \cup {None}
  BY Zenon DEF CInv, CTypeInv
<1>4. ASSUME mHeapCache.heap = None
      PROVE  mHeapCache.count = 0 /\ Copied = {} /\ Holding = {}
  <2>1. mHeapCache.count = 0 /\ Cardinality(Copied) + Cardinality(Holding) <= mHeapCache.count
    BY Zenon, <1>4 DEF CInv, CacheSound
  <2>2. Cardinality(Copied) = 0 /\ Cardinality(Holding) = 0
    BY <1>2, <2>1
  <2>3. QED
    BY Zenon, <1>2, <2>1, <2>2
<1>5. QED
  BY Zenon, <1>1, <1>2, <1>3, <1>4

\* find_heap makes a heap that is not in use, or counts one more user.
LEMMA Found ==
    ASSUME Counts, CInv, NEW t \in Threads, find_heap(t, "assertReallyMapped")
    PROVE  \E r \in Real :
               /\ th' = [th EXCEPT ![t].pc = "assertReallyMapped", ![t].r = r]
               /\ mHeapCache' \in [heap : Real \cup {None}, count : Nat]
               /\ mHeapCache'.heap = r /\ mHeapCache'.count = mHeapCache.count + 1
               /\ \/ mHeapCache.heap = r /\ heaps' = heaps
                  \/ mHeapCache.heap = None /\ heaps' = [heaps EXCEPT ![r] = BpMemoryHeap]
<1>1. /\ mHeapCache \in [heap : Real \cup {None}, count : Nat]
      /\ mHeapCache.heap = None => mHeapCache.count = 0
  BY Zenon, Sizes1 DEF CInv, CTypeInv
<1>2. CASE mHeapCache.heap # None
  <2>1. /\ mHeapCache' = [mHeapCache EXCEPT !.count = @ + 1]
        /\ th' = [th EXCEPT ![t].pc = "assertReallyMapped", ![t].r = mHeapCache.heap]
        /\ heaps' = heaps
    BY Zenon, <1>2 DEF find_heap
  <2>2. mHeapCache.heap \in Real
    BY Zenon, <1>1, <1>2
  <2>3. /\ mHeapCache' \in [heap : Real \cup {None}, count : Nat]
        /\ mHeapCache'.heap = mHeapCache.heap /\ mHeapCache'.count = mHeapCache.count + 1
    BY <1>1, <2>1
  <2>4. QED
    BY Zenon, <2>1, <2>2, <2>3
<1>3. CASE mHeapCache.heap = None
  <2>1. \A r \in Real : ~heaps[r].alive
    BY Zenon, <1>3, ClientAssumption DEF CInv, RealSound
  <2>2. Unused \in Real
    BY Zenon, <2>1, ClientAssumption DEF Unused
  <2> DEFINE r == Unused
  <2>3. /\ mHeapCache' = [heap |-> r, count |-> 1]
        /\ th' = [th EXCEPT ![t].pc = "assertReallyMapped", ![t].r = r]
        /\ heaps' = [heaps EXCEPT ![r] = BpMemoryHeap]
    BY Zenon, <1>3 DEF find_heap
  <2> HIDE DEF r
  <2>4. r \in Real
    BY Zenon, <2>2 DEF r
  <2>5. /\ mHeapCache' \in [heap : Real \cup {None}, count : Nat]
        /\ mHeapCache'.heap = r /\ mHeapCache'.count = mHeapCache.count + 1
    BY <1>1, <1>3, <2>3, <2>4
  <2>6. QED
    BY Zenon, <1>3, <2>3, <2>4, <2>5
<1>4. QED
  BY Zenon, <1>2, <1>3

LEMMA FindHeapStep ==
    ASSUME Counts, CInv, NEW t \in Threads, assertMapped(t), ~heaps[th[t].m].mHeapId
    PROVE  CInv'
<1> DEFINE m == th[t].m
<1>1. /\ th[t].pc = "assertMapped" /\ find_heap(t, "assertReallyMapped")
      /\ UNCHANGED <<vars, bp, failed>>
  BY Zenon DEF assertMapped, Here
<1>2. PICK r \in Real :
          /\ th' = [th EXCEPT ![t].pc = "assertReallyMapped", ![t].r = r]
          /\ mHeapCache' \in [heap : Real \cup {None}, count : Nat]
          /\ mHeapCache'.heap = r /\ mHeapCache'.count = mHeapCache.count + 1
          /\ \/ mHeapCache.heap = r /\ heaps' = heaps
             \/ mHeapCache.heap = None /\ heaps' = [heaps EXCEPT ![r] = BpMemoryHeap]
  BY <1>1, Found, Zenon
<1>3. /\ ThreadSound(t) /\ th[t] \in Thread /\ th \in [Threads -> Thread] /\ CTypeInv
      /\ heaps \in [Callers \cup Real -> Heap] /\ CacheSound /\ OneUser
  BY Zenon DEF CInv, CTypeInv
<1>4. /\ th' \in [Threads -> Thread] /\ \A u \in Threads \ {t} : th'[u] = th[u]
      /\ th'[t].pc = "assertReallyMapped" /\ th'[t].r = r
      /\ th'[t].m = m /\ th'[t].o = th[t].o /\ th'[t].s = th[t].s /\ th'[t].then = th[t].then
  BY Zenon, <1>2, <1>3 DEF Thread, Places, Mapping, Held
<1>5. r # None /\ r \notin Callers
  BY Zenon, ClientAssumption
<1>6. m \in Callers /\ bp[m].live /\ th[t].r = None /\ th[t].then # None
  BY Zenon, <1>1, <1>3 DEF ThreadSound, Mapping, Held
<1>7. /\ BpMemoryHeap \in Heap /\ BpMemoryHeap.mBase = MAP_FAILED /\ ~BpMemoryHeap.mHeapId
  BY Zenon DEF BpMemoryHeap, NoProxy, Heap
<1>8. /\ heaps' \in [Callers \cup Real -> Heap]
      /\ \A h \in (Callers \cup Real) \ {r} : heaps'[h] = heaps[h]
      /\ heaps'[r] = heaps[r] \/ heaps'[r] = BpMemoryHeap
  BY <1>2, <1>3, <1>7
<1>9. \A n \in Callers : heaps'[n] = heaps[n]
  BY Zenon, <1>5, <1>8
<1>10. CTypeInv'
  BY <1>1, <1>2, <1>3, <1>4, <1>8, Zenon DEF CTypeInv
<1>11. /\ Copied' = Copied /\ Holding' = Holding \cup {t} /\ t \in Threads \ Holding
  BY <1>4, <1>5, <1>6, <1>9 DEF Copied, Holding
<1>12. /\ \A n \in Copied : heaps[n].mBase = r
       /\ \A u \in Holding : th[u].r = r
  BY Zenon, <1>2, <1>3, Sizes1 DEF CacheSound
<1>13. CacheSound'
  <2>1. Cardinality(Holding') = Cardinality(Holding) + 1
    BY <1>11, Sizes1, Zenon DEF Counts, SizesOf
  <2>2. \A n \in Copied' : heaps'[n].mBase = mHeapCache'.heap
    BY Zenon, <1>2, <1>9, <1>11, <1>12 DEF Copied
  <2>3. \A u \in Holding' : th'[u].r = mHeapCache'.heap
    BY Zenon, <1>2, <1>4, <1>11, <1>12 DEF Holding
  <2>4. mHeapCache'.count # 0 /\ mHeapCache'.heap # None
    BY <1>2, <1>5, Sizes1
  <2>5. Cardinality(Copied') + Cardinality(Holding') <= mHeapCache'.count
    BY <1>2, <1>3, <1>11, <2>1, Sizes1 DEF CacheSound
  <2>6. ~failed' => mHeapCache'.count <= Cardinality(Copied') + Cardinality(Holding')
    BY <1>1, <1>2, <1>3, <1>11, <2>1, Sizes1 DEF CacheSound
  <2>7. QED
    BY Zenon, <2>2, <2>3, <2>4, <2>5, <2>6 DEF CacheSound
<1>14. ASSUME NEW q \in Real PROVE RealSound(q)'
  <2>1. CASE mHeapCache.heap = r /\ heaps' = heaps
    BY Zenon, <1>2, <2>1 DEF CInv, RealSound
  <2>2. CASE mHeapCache.heap = None /\ heaps' = [heaps EXCEPT ![r] = BpMemoryHeap]
    <3>1. CASE q = r
      <4>1. heaps'[q] = BpMemoryHeap
        BY Zenon, <1>3, <2>2, <3>1
      <4>2. MAP_FAILED # q
        BY Zenon, ClientAssumption
      <4>3. QED
        BY Zenon, <1>2, <1>7, <3>1, <4>1, <4>2 DEF RealSound
    <3>2. CASE q # r
      <4>1. heaps'[q] = heaps[q] /\ ~heaps[q].alive
        BY Zenon, <1>8, <2>2, <3>2, ClientAssumption DEF CInv, RealSound
      <4>2. QED
        BY Zenon, <4>1 DEF CInv, RealSound
    <3>3. QED
      BY Zenon, <3>1, <3>2
  <2>3. QED
    BY Zenon, <1>2, <2>1, <2>2
<1>15. ASSUME NEW u \in Threads \ {t}
       PROVE  th'[u] = th[u] /\ th[u].m \notin {} /\ (th[u].r # None => Kept(th[u].r))
  <2>1. CASE mHeapCache.heap = r /\ heaps' = heaps
    BY Zenon, <1>4, <2>1 DEF Kept
  <2>2. CASE mHeapCache.heap = None
    BY Zenon, <1>4, <2>2, Sizes1 DEF Holding
  <2>3. QED
    BY Zenon, <1>2, <2>1, <2>2
<1>16. ThreadSound(t)'
  <2>1. (Bounding(t)' <=> Bounding(t)) /\ (Basing(t)' <=> Basing(t))
    BY Zenon, <1>1, <1>4 DEF Bounding, Basing, Mapping, Held
  <2>2. /\ Bounding(t) => bp[m].mHeap /\ th[t].o = alloc[m].offset /\ th[t].s = alloc[m].size
        /\ Basing(t) => bp[m].mSize > 0
    BY Zenon, <1>3 DEF ThreadSound
  <2>3. heaps'[m] = heaps[m] /\ bp' = bp /\ alloc' = alloc
    BY Zenon, <1>1, <1>6, <1>9 DEF vars
  <2>4. QED
    BY Zenon, <1>4, <1>5, <1>6, <2>1, <2>2, <2>3 DEF ThreadSound, Held
<1>17. OneUser'
  <2>1. \A u \in Threads : th'[u].m = th[u].m
    BY <1>4, Zenon
  <2>2. QED
    BY Zenon, <1>3, <2>1 DEF OneUser
<1>18. DealerTypes' /\ alloc' = alloc /\ pc' = pc /\ bp' = bp
  BY Zenon, <1>1, DealerNext DEF CInv, vars
<1>19. (failed => failed') /\ {t} \in SUBSET Threads /\ {} \in SUBSET Callers
  BY Zenon, <1>1
<1>20. QED
  BY <1>9, <1>10, <1>13, <1>14, <1>15, <1>16, <1>17, <1>18, <1>19, StepKeeps, ZenonT(40)

\* One user less: the cache keeps the heap with one less in its count, or nobody
\* uses it any more and it goes.
LEMMA Freed ==
    ASSUME Counts, CInv, mHeapCache.heap # None,
           NEW C \in SUBSET Callers, NEW H \in SUBSET Threads,
           Cardinality(C) + Cardinality(H) = Cardinality(Copied) + Cardinality(Holding) - 1
    PROVE  /\ CacheFreed \in [heap : Real \cup {None}, count : Nat]
           /\ \/ CacheFreed.heap = None /\ CacheFreed.count = 0 /\ C = {} /\ H = {}
              \/ CacheFreed.heap = mHeapCache.heap /\ CacheFreed.count > 0
           /\ Cardinality(C) + Cardinality(H) <= CacheFreed.count
           /\ ~failed => CacheFreed.count <= Cardinality(C) + Cardinality(H)
<1> DEFINE n == mHeapCache.count
           k == Cardinality(C)
           l == Cardinality(H)
           i == Cardinality(Copied)
           j == Cardinality(Holding)
<1>1. n \in Nat /\ mHeapCache.heap \in Real \cup {None} /\ i \in Nat /\ j \in Nat
  BY Zenon, Sizes1
<1>2. k \in Nat /\ l \in Nat /\ (k = 0 => C = {}) /\ (l = 0 => H = {})
  BY Zenon DEF Counts, SizesOf
<1>3. n # 0 /\ i + j <= n /\ (~failed => n <= i + j) /\ mHeapCache \in [heap : Real \cup {None}, count : Nat]
  BY Zenon DEF CInv, CacheSound, CTypeInv
<1>4. k + l = i + j - 1
  BY Zenon
<1> HIDE DEF k, l, i, j
<1>5. CASE n = 1
  <2>1. CacheFreed = [heap |-> None, count |-> 0]
    BY Zenon, <1>5 DEF CacheFreed
  <2>2. k = 0 /\ l = 0
    BY <1>1, <1>2, <1>3, <1>4, <1>5
  <2>3. CacheFreed.heap = None /\ CacheFreed.count = 0
    BY Zenon, <2>1
  <2>4. QED
    BY <1>2, <2>1, <2>2, <2>3 DEF k, l
<1>6. CASE n # 1
  <2>1. CacheFreed = [mHeapCache EXCEPT !.count = @ - 1]
    BY Zenon, <1>6 DEF CacheFreed
  <2>2. n - 1 \in Nat /\ n - 1 > 0 /\ k + l <= n - 1 /\ (~failed => n - 1 <= k + l)
    BY <1>1, <1>2, <1>3, <1>4, <1>6
  <2>3. CacheFreed.heap = mHeapCache.heap /\ CacheFreed.count = n - 1
    BY Zenon, <1>3, <2>1
  <2>4. CacheFreed \in [heap : Real \cup {None}, count : Nat]
    BY Zenon, <1>1, <1>3, <2>1, <2>2
  <2>5. QED
    BY Zenon, <2>2, <2>3, <2>4 DEF k, l
<1>7. QED
  BY Zenon, <1>5, <1>6

LEMMA UnmappedHeaps ==
    ASSUME NEW hs \in [Callers \cup Real -> Heap], NEW rs \in SUBSET Real,
           \A h \in (Callers \cup Real) \ rs : hs[h].mBase \notin rs
    PROVE  /\ Unmapped(hs, rs) \in [Callers \cup Real -> Heap]
           /\ \A h \in rs : Unmapped(hs, rs)[h] = NoProxy
           /\ \A h \in (Callers \cup Real) \ rs : Unmapped(hs, rs)[h] = hs[h]
<1>1. NoProxy \in Heap
  BY Zenon DEF NoProxy, Heap
<1>2. QED
  BY Zenon, <1>1 DEF Unmapped

\* When thread x, or nobody, has dropped its reference and hs are the heaps: the
\* cached heap stays with its users, or the last of them has gone and it goes too.
LEMMA Orphaned ==
    ASSUME CInv, NEW x, NEW hs \in [Callers \cup Real -> Heap],
           \A r \in Real : hs[r] = heaps[r],
           NEW c \in [heap : Real \cup {None}, count : Nat],
           \/ c.heap = mHeapCache.heap
           \/ /\ c.heap = None
              /\ \A m \in Callers : hs[m].mBase = MAP_FAILED
              /\ \A u \in Threads \ {x} : th[u].r = None
    PROVE  LET new == Unmapped(hs, Orphans(c, x)) IN
           /\ new \in [Callers \cup Real -> Heap]
           /\ \A m \in Callers : new[m] = hs[m]
           /\ c.heap = mHeapCache.heap => \A r \in Real : new[r] = heaps[r]
           /\ \A r \in Real : \/ new[r] = heaps[r] /\ (heaps[r].alive => r = c.heap)
                              \/ new[r] = NoProxy
<1> DEFINE rs == Orphans(c, x)
           new == Unmapped(hs, rs)
<1>1. /\ rs \in SUBSET Real /\ Real \cap Callers = {} /\ MAP_FAILED \notin Real
      /\ None \notin Real
  BY Zenon, ClientAssumption DEF Orphans
<1>2. \A r \in Real : RealSound(r)
  BY Zenon DEF CInv
<1>3. c.heap = mHeapCache.heap => rs = {}
  BY Zenon, <1>2 DEF Orphans, RealSound
<1>4. (c.heap = None /\ \A u \in Threads \ {x} : th[u].r = None) => rs = {r \in Real : heaps[r].alive}
  BY <1>1 DEF Orphans
<1> HIDE DEF rs
<1>5. \A r \in Real \ rs : hs[r].mBase \notin rs
  BY <1>1, <1>2 DEF RealSound
<1>6. \A m \in Callers : hs[m].mBase \notin rs
  BY Zenon, <1>1, <1>3
<1>7. /\ new \in [Callers \cup Real -> Heap]
      /\ \A h \in rs : new[h] = NoProxy
      /\ \A h \in (Callers \cup Real) \ rs : new[h] = hs[h]
  <2>1. \A h \in (Callers \cup Real) \ rs : hs[h].mBase \notin rs
    BY Zenon, <1>5, <1>6
  <2>2. QED
    BY Zenon, <1>1, <2>1, UnmappedHeaps
<1> HIDE DEF new
<1>8. \A m \in Callers : new[m] = hs[m]
  BY Zenon, <1>1, <1>7
<1>9. c.heap = mHeapCache.heap => \A r \in Real : new[r] = heaps[r]
  BY Zenon, <1>3, <1>7
<1>10. ASSUME NEW r \in Real
       PROVE  (new[r] = heaps[r] /\ (heaps[r].alive => r = c.heap)) \/ new[r] = NoProxy
  <2>1. CASE r \in rs
    BY Zenon, <1>7, <2>1
  <2>2. CASE r \notin rs
    <3>1. new[r] = heaps[r]
      BY Zenon, <1>7, <2>2
    <3>2. CASE c.heap = mHeapCache.heap
      BY Zenon, <1>2, <3>1, <3>2 DEF RealSound
    <3>3. CASE c.heap = None /\ \A u \in Threads \ {x} : th[u].r = None
      BY Zenon, <1>4, <2>2, <3>1, <3>3
    <3>4. QED
      BY Zenon, <3>2, <3>3
  <2>3. QED
    BY Zenon, <2>1, <2>2
<1>11. QED
  BY Zenon, <1>7, <1>8, <1>9, <1>10 DEF new, rs

\* The real heaps after that.
LEMMA RealsAfter ==
    ASSUME CInv, NEW r \in Real,
           \/ heaps'[r] = heaps[r] /\ (heaps[r].alive => r = mHeapCache'.heap)
           \/ heaps'[r] = NoProxy
    PROVE  RealSound(r)'
<1>1. CASE heaps'[r] = heaps[r] /\ (heaps[r].alive => r = mHeapCache'.heap)
  BY Zenon, <1>1 DEF CInv, RealSound
<1>2. CASE heaps'[r] = NoProxy
  <2>1. NoProxy.mBase = MAP_FAILED /\ ~NoProxy.alive /\ ~NoProxy.mHeapId /\ MAP_FAILED # r
    BY Zenon, ClientAssumption DEF NoProxy
  <2>2. QED
    BY Zenon, <1>2, <2>1 DEF RealSound
<1>3. QED
  BY Zenon, <1>1, <1>2

\* The thread that goes on after assertMapped, without its reference.
LEMMA LeaveFields ==
    ASSUME CInv, NEW t \in Threads, th[t].pc \in {"check", "copy"},
           th' = [th EXCEPT ![t].pc = th[t].then, ![t].r = None]
    PROVE  /\ th' \in [Threads -> Thread] /\ \A u \in Threads \ {t} : th'[u] = th[u]
           /\ th'[t].pc = th[t].then /\ th'[t].m = th[t].m /\ th'[t].r = None
           /\ th'[t].o = th[t].o /\ th'[t].s = th[t].s /\ th'[t].then = th[t].then
           /\ th[t].then \in {"bounds", "base"} /\ th[t].m \in Callers /\ bp[th[t].m].live
           /\ th[t].r \in Real /\ t \in Holding /\ th[t].r = mHeapCache.heap
           /\ Holding' = Holding \ {t} /\ bp[th[t].m].mHeap /\ ~heaps[th[t].m].mHeapId
           /\ OneUser'
<1>1. th \in [Threads -> Thread] /\ th[t] \in Thread /\ ThreadSound(t) /\ OneUser /\ CacheSound
  BY Zenon DEF CInv, CTypeInv
<1>2. th[t].then \in {"bounds", "base"}
  BY Zenon, <1>1 DEF ThreadSound, Thread, Mapping, Held
<1>3. /\ th' \in [Threads -> Thread] /\ \A u \in Threads \ {t} : th'[u] = th[u]
      /\ th'[t].pc = th[t].then /\ th'[t].m = th[t].m /\ th'[t].r = None
      /\ th'[t].o = th[t].o /\ th'[t].s = th[t].s /\ th'[t].then = th[t].then
  BY Zenon, <1>1, <1>2 DEF Thread, Places
<1>4. /\ th[t].m \in Callers /\ bp[th[t].m].live /\ th[t].r # None /\ ~heaps[th[t].m].mHeapId
  BY Zenon, <1>1 DEF ThreadSound, Held
<1>5. th[t].r \in Real /\ t \in Holding /\ th[t].r = mHeapCache.heap
  BY Zenon, <1>1, <1>4 DEF Thread, Holding, CacheSound
<1>6. Holding' = Holding \ {t}
  BY Zenon, <1>3 DEF Holding
<1>7. bp[th[t].m].mHeap
  <2>1. Bounding(t) \/ Basing(t)
    BY Zenon, <1>2 DEF Bounding, Basing, Mapping, Held
  <2>2. MemorySound(th[t].m)
    BY Zenon, <1>4 DEF CInv
  <2>3. QED
    BY <1>1, <2>1, <2>2 DEF ThreadSound, MemorySound
<1>8. OneUser'
  <2>1. \A u \in Threads : th'[u].m = th[u].m
    BY <1>3, Zenon
  <2>2. QED
    BY <1>1, <2>1 DEF OneUser
<1>9. QED
  BY Zenon, <1>2, <1>3, <1>4, <1>5, <1>6, <1>7, <1>8

LEMMA LeaveSound ==
    ASSUME CInv, NEW t \in Threads, th[t].pc \in {"check", "copy"},
           th' = [th EXCEPT ![t].pc = th[t].then, ![t].r = None],
           alloc' = alloc, bp' = bp
    PROVE  ThreadSound(t)'
<1> DEFINE m == th[t].m
<1>1. /\ th'[t].pc = th[t].then /\ th'[t].m = th[t].m /\ th'[t].r = None
      /\ th'[t].o = th[t].o /\ th'[t].s = th[t].s /\ th'[t].then = th[t].then
      /\ th[t].then \in {"bounds", "base"} /\ th[t].m \in Callers /\ bp[th[t].m].live
  BY Zenon, LeaveFields
<1>2. (Bounding(t)' <=> Bounding(t)) /\ (Basing(t)' <=> Basing(t))
  BY Zenon, <1>1 DEF Bounding, Basing, Mapping, Held
<1>3. /\ Bounding(t) => bp[m].mHeap /\ th[t].o = alloc[m].offset /\ th[t].s = alloc[m].size
      /\ Basing(t) => bp[m].mSize > 0
  BY Zenon DEF CInv, ThreadSound
<1>4. QED
  BY Zenon, <1>1, <1>2, <1>3 DEF ThreadSound, Mapping, Held

LEMMA FreeStep ==
    ASSUME Counts, CInv, NEW t \in Threads, Check(t), heaps[th[t].r].mBase = MAP_FAILED
    PROVE  CInv'
<1> DEFINE H == Holding \ {t}
<1>1. /\ th[t].pc = "check" /\ mHeapCache' = CacheFreed
      /\ heaps' = Unmapped(heaps, Orphans(CacheFreed, t))
      /\ th' = [th EXCEPT ![t].pc = th[t].then, ![t].r = None]
      /\ UNCHANGED <<vars, bp, failed>>
  BY Zenon DEF Check, Here, free_heap
<1>2. /\ th' \in [Threads -> Thread] /\ \A u \in Threads \ {t} : th'[u] = th[u]
      /\ th[t].r \in Real /\ t \in Holding /\ th[t].r = mHeapCache.heap
      /\ Holding' = H /\ OneUser'
  BY <1>1, LeaveFields, Zenon
<1>3. /\ Copied \in SUBSET Callers /\ Holding \in SUBSET Threads
      /\ Cardinality(Copied) \in Nat /\ Cardinality(Holding) \in Nat
  BY Zenon, Sizes1
<1>4. H \in SUBSET Threads /\ Cardinality(H) = Cardinality(Holding) - 1
  BY <1>2, <1>3, Zenon DEF Counts, SizesOf
<1>5. Cardinality(Copied) + Cardinality(H) = Cardinality(Copied) + Cardinality(Holding) - 1
  BY Zenon, <1>3, <1>4
<1>6. mHeapCache.heap # None
  BY Zenon, <1>2, ClientAssumption
<1>7. /\ CacheFreed \in [heap : Real \cup {None}, count : Nat]
      /\ \/ CacheFreed.heap = None /\ CacheFreed.count = 0 /\ Copied = {} /\ H = {}
         \/ CacheFreed.heap = mHeapCache.heap /\ CacheFreed.count > 0
      /\ Cardinality(Copied) + Cardinality(H) <= CacheFreed.count
      /\ ~failed => CacheFreed.count <= Cardinality(Copied) + Cardinality(H)
  BY Zenon, <1>3, <1>4, <1>5, <1>6, Freed
<1>8. heaps \in [Callers \cup Real -> Heap] /\ CTypeInv /\ CacheSound
  BY Zenon DEF CInv, CTypeInv
<1>9. \/ CacheFreed.heap = mHeapCache.heap
      \/ /\ CacheFreed.heap = None
         /\ \A m \in Callers : heaps[m].mBase = MAP_FAILED
         /\ \A u \in Threads \ {t} : th[u].r = None
  BY Zenon, <1>7 DEF Copied, Holding
<1>10. /\ heaps' \in [Callers \cup Real -> Heap]
       /\ \A m \in Callers : heaps'[m] = heaps[m]
       /\ CacheFreed.heap = mHeapCache.heap => \A r \in Real : heaps'[r] = heaps[r]
       /\ \A r \in Real : \/ heaps'[r] = heaps[r] /\ (heaps[r].alive => r = CacheFreed.heap)
                          \/ heaps'[r] = NoProxy
  <2> DEFINE c == CacheFreed
             new == Unmapped(heaps, Orphans(c, t))
  <2>1. /\ c \in [heap : Real \cup {None}, count : Nat] /\ heaps' = new
        /\ \/ c.heap = mHeapCache.heap
           \/ /\ c.heap = None
              /\ \A m \in Callers : heaps[m].mBase = MAP_FAILED
              /\ \A u \in Threads \ {t} : th[u].r = None
    BY Zenon, <1>1, <1>7, <1>9
  <2>2. \A r \in Real : heaps[r] = heaps[r]
    BY Zenon
  <2> HIDE DEF c
  <2>3. /\ new \in [Callers \cup Real -> Heap]
        /\ \A m \in Callers : new[m] = heaps[m]
        /\ c.heap = mHeapCache.heap => \A r \in Real : new[r] = heaps[r]
        /\ \A r \in Real : \/ new[r] = heaps[r] /\ (heaps[r].alive => r = c.heap)
                           \/ new[r] = NoProxy
    BY Zenon, <1>8, <2>1, <2>2, Orphaned
  <2> HIDE DEF new
  <2>4. QED
    BY <2>1, <2>3, Zenon DEF c
<1>11. Copied' = Copied
  BY Zenon, <1>10 DEF Copied
<1>12. CTypeInv'
  BY <1>1, <1>2, <1>7, <1>8, <1>10, Zenon DEF CTypeInv
<1>13. CacheSound'
  <2>1. /\ \A m \in Copied' : heaps'[m].mBase = mHeapCache'.heap
    BY <1>1, <1>7, <1>8, <1>10, <1>11 DEF CacheSound, Copied
  <2>2. \A u \in Holding' : th'[u].r = mHeapCache'.heap
    BY Zenon, <1>1, <1>2, <1>7, <1>8 DEF CacheSound, Holding
  <2>3. mHeapCache'.heap = None <=> mHeapCache'.count = 0
    BY <1>1, <1>6, <1>7
  <2>4. QED
    BY <1>1, <1>2, <1>7, <1>11, <2>1, <2>2, <2>3, Zenon DEF CacheSound
<1>14. \A r \in Real : RealSound(r)'
  BY Zenon, <1>1, <1>10, RealsAfter
<1>15. ASSUME NEW u \in Threads \ {t}
       PROVE  th'[u] = th[u] /\ th[u].m \notin {} /\ (th[u].r # None => Kept(th[u].r))
  <2>1. th[u].r # None => th[u].r \in Real /\ CacheFreed.heap = mHeapCache.heap
    BY Zenon, <1>7, <1>8 DEF CTypeInv, Thread, Holding
  <2>2. QED
    BY Zenon, <1>2, <1>10, <2>1 DEF Kept
<1>16. DealerTypes' /\ alloc' = alloc /\ pc' = pc /\ bp' = bp
  BY Zenon, <1>1, DealerNext DEF CInv, vars
<1>17. ThreadSound(t)'
  BY Zenon, <1>1, <1>16, LeaveSound
<1>18. (failed => failed') /\ {t} \in SUBSET Threads /\ {} \in SUBSET Callers
  BY Zenon, <1>1
<1>19. QED
  BY <1>2, <1>10, <1>12, <1>13, <1>14, <1>15, <1>16, <1>17, <1>18, StepKeeps, ZenonT(40)

\* A reference that becomes a copy of the mapping, or is given up.
LEMMA OneMoved ==
    ASSUME NEW n \in Nat, NEW c \in Nat, NEW h \in Nat, NEW d, NEW g, g = h - 1
    PROVE  /\ c + h <= n /\ (d = c \/ d = c + 1) => d + g <= n
           /\ n <= c + h /\ d = c + 1 => n <= d + g
  OBVIOUS

LEMMA CopyHeapStep ==
    ASSUME Counts, CInv, NEW t \in Threads, CopyHeap(t)
    PROVE  CInv'
<1> DEFINE r == th[t].r
           m == th[t].m
           new == Unmapped(heaps, Orphans(mHeapCache, t))
           x == heaps'[m]
<1>1. /\ th[t].pc = "copy"
      /\ heaps' = [new EXCEPT ![m].mBase = heaps[r].mBase, ![m].mSize = heaps[r].mSize,
                              ![m].mHeapId = heaps[r].mHeapId]
      /\ th' = [th EXCEPT ![t].pc = th[t].then, ![t].r = None]
      /\ UNCHANGED <<vars, bp, mHeapCache, failed>>
  BY Zenon DEF CopyHeap, Here
<1>2. /\ th' \in [Threads -> Thread] /\ \A u \in Threads \ {t} : th'[u] = th[u]
      /\ r \in Real /\ t \in Holding /\ r = mHeapCache.heap
      /\ Holding' = Holding \ {t} /\ OneUser' /\ m \in Callers /\ bp[m].live /\ bp[m].mHeap
      /\ ~heaps[m].mHeapId
  BY <1>1, LeaveFields, Zenon
<1>3. /\ heaps \in [Callers \cup Real -> Heap] /\ CTypeInv /\ CacheSound /\ OneUser
      /\ mHeapCache \in [heap : Real \cup {None}, count : Nat]
  BY Zenon DEF CInv, CTypeInv
<1>4. /\ new \in [Callers \cup Real -> Heap]
      /\ \A h \in Callers : new[h] = heaps[h]
      /\ \A h \in Real : new[h] = heaps[h]
  BY <1>3, Orphaned, Zenon
<1> HIDE DEF new
<1>5. /\ heaps[r].mBase = r /\ (~failed => heaps[r].mHeapId) /\ heaps[r] \in Heap /\ heaps[m] \in Heap
      /\ m \notin Real /\ r # MAP_FAILED
  BY Zenon, <1>1, <1>2, <1>3, ClientAssumption DEF CInv, ThreadSound
<1>6. heaps[r].mSize \in Nat /\ heaps[r].mHeapId \in BOOLEAN
  BY Zenon, <1>5 DEF Heap
<1>7. /\ heaps' \in [Callers \cup Real -> Heap]
      /\ \A h \in (Callers \cup Real) \ {m} : heaps'[h] = heaps[h]
      /\ x.mBase = r /\ x.mHeapId = heaps[r].mHeapId
  <2>1. new[m] \in Heap
    BY Zenon, <1>2, <1>4
  <2> DEFINE a == [new[m] EXCEPT !.mBase = r]
             b == [a EXCEPT !.mSize = heaps[r].mSize]
             d == [b EXCEPT !.mHeapId = heaps[r].mHeapId]
  <2>2. heaps' = [new EXCEPT ![m] = d]
    BY Zenon, <1>1, <1>2, <1>4, <1>5
  <2>3. a \in Heap /\ a.mBase = r
    BY Zenon, <1>2, <2>1 DEF Heap
  <2> HIDE DEF a
  <2>4. b \in Heap /\ b.mBase = r
    BY Zenon, <1>6, <2>3 DEF Heap
  <2> HIDE DEF b
  <2>5. d \in Heap /\ d.mBase = r /\ d.mHeapId = heaps[r].mHeapId
    BY Zenon, <1>6, <2>4 DEF Heap
  <2> HIDE DEF d
  <2>6. heaps' \in [Callers \cup Real -> Heap] /\ heaps'[m] = d
    BY Zenon, <1>2, <1>4, <2>2, <2>5
  <2>7. \A h \in (Callers \cup Real) \ {m} : heaps'[h] = new[h]
    BY Zenon, <1>4, <2>2
  <2>8. QED
    BY Zenon, <1>4, <2>5, <2>6, <2>7
<1>8. CTypeInv'
  BY <1>1, <1>2, <1>3, <1>7, Zenon DEF CTypeInv
<1>9. DealerTypes' /\ alloc' = alloc /\ pc' = pc /\ bp' = bp
  BY Zenon, <1>1, DealerNext DEF CInv, vars
<1>10. ThreadSound(t)'
  BY Zenon, <1>1, <1>9, LeaveSound
<1>11. Copied' = Copied \cup {m}
  BY <1>2, <1>5, <1>7 DEF Copied
<1>12. ~failed => m \notin Copied
  BY Zenon, <1>2 DEF Copied, CInv, MemorySound
<1>13. CacheSound'
  <2>1. /\ Copied \in SUBSET Callers /\ Holding \in SUBSET Threads
        /\ Cardinality(Copied) \in Nat /\ Cardinality(Holding) \in Nat /\ mHeapCache.count \in Nat
    BY Zenon, Sizes1
  <2>2. Cardinality(Holding') = Cardinality(Holding) - 1
    BY <1>2, <2>1, Zenon DEF Counts, SizesOf
  <2>3. m \notin Copied => Cardinality(Copied') = Cardinality(Copied) + 1
    BY <1>2, <1>11, <2>1, Zenon DEF Counts, SizesOf
  <2>4. m \in Copied => Copied' = Copied
    BY Zenon, <1>11
  <2>5. Cardinality(Copied') + Cardinality(Holding') <= mHeapCache'.count
    <3>1. /\ Cardinality(Copied) + Cardinality(Holding) <= mHeapCache.count
          /\ mHeapCache' = mHeapCache
      BY Zenon, <1>1, <1>3 DEF CacheSound
    <3>2. CASE m \notin Copied
      BY Zenon, <2>1, <2>2, <2>3, <3>1, <3>2, OneMoved
    <3>3. CASE m \in Copied
      BY Zenon, <2>1, <2>2, <2>4, <3>1, <3>3, OneMoved
    <3>4. QED
      BY Zenon, <3>2, <3>3
  <2>6. ~failed' => mHeapCache'.count <= Cardinality(Copied') + Cardinality(Holding')
    <3>1. SUFFICES ASSUME ~failed'
                   PROVE  mHeapCache'.count <= Cardinality(Copied') + Cardinality(Holding')
      BY Zenon
    <3>2. /\ mHeapCache.count <= Cardinality(Copied) + Cardinality(Holding)
          /\ mHeapCache' = mHeapCache /\ m \notin Copied
      BY Zenon, <1>1, <1>3, <1>12, <3>1 DEF CacheSound
    <3>3. QED
      BY Zenon, <2>1, <2>2, <2>3, <3>2, OneMoved
  <2>7. ASSUME NEW n \in Copied' PROVE heaps'[n].mBase = mHeapCache'.heap
    <3>1. CASE n = m
      BY Zenon, <1>1, <1>2, <1>7, <3>1
    <3>2. CASE n # m
      <4>1. n \in Copied /\ n \in Callers
        BY Zenon, <1>11, <2>1, <3>2
      <4>2. heaps'[n] = heaps[n] /\ heaps[n].mBase = mHeapCache.heap
        BY Zenon, <1>3, <1>7, <3>2, <4>1 DEF CacheSound
      <4>3. QED
        BY Zenon, <1>1, <4>2
    <3>3. QED
      BY Zenon, <3>1, <3>2
  <2>8. \A u \in Holding' : th'[u].r = mHeapCache'.heap
    BY Zenon, <1>1, <1>2, <1>3 DEF CacheSound, Holding
  <2>9. mHeapCache'.heap = None <=> mHeapCache'.count = 0
    BY Zenon, <1>1, <1>3 DEF CacheSound
  <2>10. QED
    BY <2>5, <2>6, <2>7, <2>8, <2>9, Zenon DEF CacheSound
<1>14. ASSUME NEW n \in {m} PROVE MemorySound(n)'
  <2>1. n = m /\ MemorySound(m) /\ bp'[m] = bp[m] /\ alloc'[m] = alloc[m] /\ pc'[m] = pc[m]
    BY Zenon, <1>2, <1>9 DEF CInv
  <2>2. heaps'[m].mBase # MAP_FAILED /\ (~failed' => heaps'[m].mHeapId)
    BY Zenon, <1>1, <1>5, <1>7
  <2>3. QED
    BY Zenon, <1>2, <2>1, <2>2 DEF MemorySound
<1>15. ASSUME NEW q \in Real PROVE RealSound(q)'
  BY Zenon, <1>1, <1>5, <1>7, OtherReal DEF CInv
<1>16. ASSUME NEW u \in Threads \ {t}
       PROVE  th'[u] = th[u] /\ th[u].m \notin {m} /\ (th[u].r # None => Kept(th[u].r))
  <2>1. th[u].r # None => th[u].r \in Real
    BY Zenon, <1>3 DEF CTypeInv, Thread
  <2>2. th[u].m # m
    BY Zenon, <1>2, <1>3, ClientAssumption DEF OneUser
  <2>3. \A q \in Real : heaps'[q] = heaps[q]
    BY Zenon, <1>5, <1>7
  <2>4. QED
    BY Zenon, <1>2, <2>1, <2>2, <2>3 DEF Kept
<1>17. \A n \in Callers \ {m} :
           bp'[n] = bp[n] /\ heaps'[n] = heaps[n] /\ alloc'[n] = alloc[n] /\ pc'[n] = pc[n]
  BY Zenon, <1>7, <1>9
<1>18. (failed => failed') /\ {t} \in SUBSET Threads /\ {m} \in SUBSET Callers
  BY Zenon, <1>1, <1>2
<1> HIDE DEF m
<1>19. QED
  BY <1>2, <1>8, <1>9, <1>10, <1>13, <1>14, <1>15, <1>16, <1>17, <1>18, StepKeeps, ZenonT(40)

-----------------------------------------------------------------------------
(* The steps of no thread                                                  *)

\* The destructor of a BpMemoryHeap that has a descriptor frees the heap; one
\* without, whose mapping was copied before the descriptor was there, does not.
LEMMA DropStep ==
    ASSUME Counts, CInv, NEW m \in Callers, Drop(m)
    PROVE  CInv'
<1> DEFINE hs == [heaps EXCEPT ![m] = NoProxy]
           C == Copied \ {m}
<1>1. /\ \A u \in Threads : th[u].m # m
      /\ bp' = [bp EXCEPT ![m] = NoMemoryProxy] /\ UNCHANGED <<vars, th, failed>>
  BY Zenon DEF Drop
<1>2. /\ bp \in [Callers -> Memory] /\ heaps \in [Callers \cup Real -> Heap] /\ CTypeInv
      /\ CacheSound /\ OneUser /\ MemorySound(m)
      /\ mHeapCache \in [heap : Real \cup {None}, count : Nat]
  BY Zenon DEF CInv, CTypeInv
<1>3. /\ NoProxy \in Heap /\ NoProxy.mBase = MAP_FAILED /\ ~NoProxy.mHeapId
      /\ NoMemoryProxy \in Memory /\ ~NoMemoryProxy.live /\ ~NoMemoryProxy.mHeap
      /\ NoMemoryProxy.mSize = 0
  BY Zenon DEF NoProxy, Heap, NoMemoryProxy, Memory
<1>4. /\ hs \in [Callers \cup Real -> Heap] /\ hs[m] = NoProxy
      /\ \A h \in (Callers \cup Real) \ {m} : hs[h] = heaps[h]
  BY Zenon, <1>2, <1>3
<1>5. m \notin Real /\ None \notin Threads /\ None \notin Real
  BY Zenon, ClientAssumption
<1>6. /\ bp' \in [Callers -> Memory] /\ bp'[m] = NoMemoryProxy
      /\ \A n \in Callers \ {m} : bp'[n] = bp[n]
  BY Zenon, <1>1, <1>2, <1>3
<1>7. /\ Copied \in SUBSET Callers /\ Holding \in SUBSET Threads
      /\ Cardinality(Copied) \in Nat /\ Cardinality(Holding) \in Nat /\ mHeapCache.count \in Nat
  BY Zenon, Sizes1
<1>8. C \in SUBSET Callers /\ (m \in Copied => Cardinality(C) = Cardinality(Copied) - 1)
      /\ (m \notin Copied => C = Copied)
  BY <1>7, Zenon DEF Counts, SizesOf
<1> HIDE DEF hs
\* What becomes of the cache and of the heaps.
<1>9. /\ mHeapCache' \in [heap : Real \cup {None}, count : Nat]
      /\ \/ mHeapCache'.heap = None /\ mHeapCache'.count = 0 /\ C = {} /\ Holding = {}
         \/ mHeapCache'.heap = mHeapCache.heap /\ (mHeapCache'.heap = None <=> mHeapCache'.count = 0)
      /\ Cardinality(C) + Cardinality(Holding) <= mHeapCache'.count
      /\ ~failed => mHeapCache'.count <= Cardinality(C) + Cardinality(Holding)
      /\ heaps' \in [Callers \cup Real -> Heap]
      /\ \A n \in Callers : heaps'[n] = hs[n]
      /\ mHeapCache'.heap = mHeapCache.heap => \A r \in Real : heaps'[r] = heaps[r]
      /\ \A r \in Real : \/ heaps'[r] = heaps[r] /\ (heaps[r].alive => r = mHeapCache'.heap)
                         \/ heaps'[r] = NoProxy
  <2>1. CASE heaps[m].mHeapId
    <3> DEFINE c == CacheFreed
               new == Unmapped(hs, Orphans(c, None))
    <3>1. mHeapCache' = c /\ heaps' = new
      BY Zenon, <2>1 DEF Drop, free_heap, hs
    <3>2. m \in Copied
      BY Zenon, <1>2, <2>1 DEF MemorySound, Copied
    <3>3. mHeapCache.heap # None
      <4>1. heaps[m].mBase = mHeapCache.heap /\ heaps[m].mBase \in Real
        BY Zenon, <1>2, <3>2 DEF CacheSound, Copied, Heap
      <4>2. QED
        BY Zenon, <1>5, <4>1
    <3>4. Cardinality(C) + Cardinality(Holding) = Cardinality(Copied) + Cardinality(Holding) - 1
      BY <1>7, <1>8, <3>2
    <3>5. /\ c \in [heap : Real \cup {None}, count : Nat]
          /\ \/ c.heap = None /\ c.count = 0 /\ C = {} /\ Holding = {}
             \/ c.heap = mHeapCache.heap /\ c.count > 0
          /\ Cardinality(C) + Cardinality(Holding) <= c.count
          /\ ~failed => c.count <= Cardinality(C) + Cardinality(Holding)
      BY Zenon, <1>7, <1>8, <3>3, <3>4, Freed
    <3> HIDE DEF c, C
    <3>6. \/ c.heap = mHeapCache.heap
          \/ /\ c.heap = None
             /\ \A n \in Callers : hs[n].mBase = MAP_FAILED
             /\ \A u \in Threads \ {None} : th[u].r = None
      BY Zenon, <1>3, <1>4, <3>5 DEF C, Copied, Holding
    <3>7. \A r \in Real : hs[r] = heaps[r]
      BY Zenon, <1>4, <1>5
    <3>8. /\ new \in [Callers \cup Real -> Heap]
          /\ \A n \in Callers : new[n] = hs[n]
          /\ c.heap = mHeapCache.heap => \A r \in Real : new[r] = heaps[r]
          /\ \A r \in Real : \/ new[r] = heaps[r] /\ (heaps[r].alive => r = c.heap)
                             \/ new[r] = NoProxy
      BY Zenon, <1>4, <3>5, <3>6, <3>7, Orphaned
    <3> HIDE DEF new
    <3>9. c.heap = mHeapCache.heap => (c.heap = None <=> c.count = 0)
      BY <3>3, <3>5
    <3>10. QED
      BY <3>1, <3>5, <3>8, <3>9, Zenon
  <2>2. CASE ~heaps[m].mHeapId
    <3>1. mHeapCache' = mHeapCache /\ heaps' = hs
      BY Zenon, <2>2 DEF Drop, hs
    <3>2. ~failed => m \notin Copied
      BY Zenon, <1>2, <2>2 DEF MemorySound, Copied
    <3>3. Cardinality(C) + Cardinality(Holding) <= mHeapCache.count
      <4>1. Cardinality(Copied) + Cardinality(Holding) <= mHeapCache.count
        BY Zenon, <1>2 DEF CacheSound
      <4>2. Cardinality(C) = Cardinality(Copied) - 1 \/ Cardinality(C) = Cardinality(Copied)
        BY <1>8, Zenon
      <4>3. QED
        BY <1>7, <4>1, <4>2
    <3>4. ~failed => mHeapCache.count <= Cardinality(C) + Cardinality(Holding)
      BY Zenon, <1>2, <1>8, <3>2 DEF CacheSound
    <3>5. \A r \in Real : hs[r] = heaps[r] /\ (heaps[r].alive => r = mHeapCache.heap)
      BY Zenon, <1>4, <1>5 DEF CInv, RealSound
    <3>6. mHeapCache.heap = None <=> mHeapCache.count = 0
      BY Zenon, <1>2 DEF CacheSound
    <3> HIDE DEF C
    <3>7. QED
      BY <1>2, <1>4, <3>1, <3>3, <3>4, <3>5, <3>6, Zenon
  <2>3. QED
    BY Zenon, <2>1, <2>2
<1>10. CTypeInv'
  BY <1>1, <1>2, <1>6, <1>9, Zenon DEF CTypeInv
<1>11. Copied' = C /\ Holding' = Holding
  BY Zenon, <1>1, <1>3, <1>4, <1>9 DEF Copied, Holding
<1>12. CacheSound'
  <2>1. ASSUME NEW n \in Copied' PROVE heaps'[n].mBase = mHeapCache'.heap
    <3>1. n \in Copied /\ n # m /\ n \in Callers /\ mHeapCache'.heap = mHeapCache.heap
      BY Zenon, <1>7, <1>9, <1>11
    <3>2. heaps'[n] = heaps[n]
      BY Zenon, <1>4, <1>9, <3>1
    <3>3. QED
      BY Zenon, <1>2, <3>1, <3>2 DEF CacheSound
  <2>2. \A u \in Holding' : th'[u].r = mHeapCache'.heap
    BY Zenon, <1>1, <1>2, <1>9, <1>11 DEF CacheSound
  <2>3. mHeapCache'.heap = None <=> mHeapCache'.count = 0
    BY Zenon, <1>9
  <2>4. QED
    BY <1>1, <1>9, <1>11, <2>1, <2>2, <2>3, Zenon DEF CacheSound
<1>13. DealerTypes' /\ alloc' = alloc /\ pc' = pc /\ th' = th
  BY Zenon, <1>1, DealerNext DEF CInv, vars
<1>14. \A n \in {m} : MemorySound(n)'
  <2>1. bp'[m] = NoMemoryProxy /\ heaps'[m] = NoProxy
    BY Zenon, <1>4, <1>6, <1>9
  <2>2. QED
    BY Zenon, <1>3, <2>1, NothingMapped
<1>15. \A r \in Real : RealSound(r)'
  BY Zenon, <1>9, RealsAfter
<1>16. ASSUME NEW u \in Threads \ {}
       PROVE  th'[u] = th[u] /\ th[u].m \notin {m} /\ (th[u].r # None => Kept(th[u].r))
  <2>1. th[u].r # None => th[u].r \in Real /\ mHeapCache'.heap = mHeapCache.heap
    BY Zenon, <1>2, <1>9 DEF CTypeInv, Thread, Holding
  <2>2. QED
    BY Zenon, <1>1, <1>9, <2>1 DEF Kept
<1>17. \A n \in Callers \ {m} :
           bp'[n] = bp[n] /\ heaps'[n] = heaps[n] /\ alloc'[n] = alloc[n] /\ pc'[n] = pc[n]
  BY Zenon, <1>4, <1>6, <1>9, <1>13
<1>18. OneUser'
  BY Zenon, <1>1, <1>2 DEF OneUser
<1>19. /\ (failed => failed') /\ {} \in SUBSET Threads /\ {m} \in SUBSET Callers
       /\ \A u \in {} : ThreadSound(u)'
  BY Zenon, <1>1
<1>20. QED
  BY <1>10, <1>12, <1>13, <1>14, <1>15, <1>16, <1>17, <1>18, <1>19, StepKeeps, ZenonT(40)

\* A new proxy, and the steps of the server: nobody uses the memory they are of.
LEMMA NotLive ==
    ASSUME CInv, NEW m \in Callers, ~bp[m].live
    PROVE  /\ \A u \in Threads : th[u].m # m
           /\ ~bp[m].mHeap /\ bp[m].mSize = 0 /\ heaps[m].mBase = MAP_FAILED /\ ~heaps[m].mHeapId
<1>1. MemorySound(m)
  BY Zenon DEF CInv
<1>2. ~bp[m].mHeap /\ bp[m].mSize = 0 /\ heaps[m].mBase = MAP_FAILED /\ ~heaps[m].mHeapId
  BY Zenon, <1>1 DEF MemorySound
<1>3. ASSUME NEW u \in Threads PROVE th[u].m # m
  <2>1. ThreadSound(u)
    BY Zenon DEF CInv
  <2>2. CASE th[u].pc = "idle"
    BY Zenon, <2>1, <2>2, ClientAssumption DEF ThreadSound
  <2>3. CASE th[u].pc # "idle"
    BY <2>1, <2>3, Zenon DEF ThreadSound
  <2>4. QED
    BY Zenon, <2>2, <2>3
<1>4. QED
  BY Zenon, <1>2, <1>3

\* Such a step leaves the client's threads and heaps as they are.
LEMMA MemoryStep ==
    ASSUME CInv, NEW m \in Callers, ~bp[m].live, DealerTypes', bp' \in [Callers -> Memory],
           UNCHANGED <<heaps, mHeapCache, th, failed>>,
           \A n \in Callers \ {m} : bp'[n] = bp[n] /\ alloc'[n] = alloc[n] /\ pc'[n] = pc[n],
           bp'[m].live => pc'[m] = "held", ~bp'[m].mHeap, bp'[m].mSize = 0
    PROVE  CInv'
<1>1. CTypeInv'
  BY Zenon DEF CInv, CTypeInv
<1>2. OneUser' /\ CacheSound'
  <2>1. Copied' = Copied /\ Holding' = Holding
    BY Zenon DEF Copied, Holding
  <2>2. QED
    BY Zenon, <2>1 DEF CInv, OneUser, CacheSound
<1>3. \A r \in Real : RealSound(r)'
  BY Zenon, OtherReal DEF CInv
<1>4. \A n \in {m} : MemorySound(n)'
  BY Zenon, NotLive, NothingMapped
<1>5. \A u \in Threads \ {} : th'[u] = th[u] /\ th[u].m \notin {m} /\ (th[u].r # None => Kept(th[u].r))
  BY Zenon, NotLive DEF Kept
<1>6. \A n \in Callers \ {m} :
          bp'[n] = bp[n] /\ heaps'[n] = heaps[n] /\ alloc'[n] = alloc[n] /\ pc'[n] = pc[n]
  BY Zenon
<1>7. /\ (failed => failed') /\ {} \in SUBSET Threads /\ {m} \in SUBSET Callers
      /\ \A u \in {} : ThreadSound(u)'
  BY Zenon
<1>8. QED
  BY <1>1, <1>2, <1>3, <1>4, <1>5, <1>6, <1>7, StepKeeps, ZenonT(40)

LEMMA ReceiveStep ==
    ASSUME CInv, NEW m \in Callers, Receive(m)
    PROVE  CInv'
<1> DEFINE x == [NoMemoryProxy EXCEPT !.live = TRUE]
<1>1. /\ pc[m] = "held" /\ ~bp[m].live /\ bp' = [bp EXCEPT ![m] = x]
      /\ UNCHANGED <<vars, heaps, mHeapCache, th, failed>>
  BY Zenon DEF Receive
<1>2. x \in Memory /\ ~x.mHeap /\ x.mSize = 0
  BY Zenon DEF NoMemoryProxy, Memory
<1> HIDE DEF x
<1>3. bp \in [Callers -> Memory]
  BY Zenon DEF CInv, CTypeInv
<1>4. bp' \in [Callers -> Memory] /\ bp'[m] = x /\ \A n \in Callers \ {m} : bp'[n] = bp[n]
  BY Zenon, <1>1, <1>2, <1>3
<1>5. DealerTypes' /\ alloc' = alloc /\ pc' = pc
  BY Zenon, <1>1, DealerNext DEF CInv, vars
<1>6. QED
  BY Zenon, <1>1, <1>2, <1>4, <1>5, MemoryStep

LEMMA ServerStepKeeps ==
    ASSUME CInv, NEW c \in Callers, ServerStep(c)
    PROVE  CInv'
<1>1. UNCHANGED <<bp, heaps, mHeapCache, th, failed>>
  BY Zenon DEF ServerStep, clientVars
<1>2. DealerTypes'
  <2>1. [Next]_vars
    BY Zenon DEF ServerStep, Next
  <2>2. QED
    BY Zenon, <2>1, DealerNext DEF CInv
<1>3. ~bp[c].live
  <2>1. pc[c] # "held" \/ ~bp[c].live
    BY Zenon DEF ServerStep, Allocate, Construct, Deallocate
  <2>2. QED
    BY Zenon, <2>1 DEF CInv, MemorySound
<1>4. \A n \in Callers \ {c} : alloc'[n] = alloc[n] /\ pc'[n] = pc[n]
  <2>1. alloc \in [Callers -> [offset : Nat, size : Nat]] /\ DOMAIN pc = Callers
    BY Zenon DEF CInv, DealerTypes
  <2>2. ASSUME NEW size \in Sizes, Allocate(c, size)
        PROVE  \A n \in Callers \ {c} : alloc'[n] = alloc[n] /\ pc'[n] = pc[n]
    BY Zenon, <2>1, <2>2 DEF Allocate
  <2>3. CASE Construct(c) \/ Destroy(c) \/ Deallocate(c)
    BY Zenon, <2>1, <2>3 DEF Construct, Destroy, Deallocate
  <2>4. QED
    BY Zenon, <2>2, <2>3 DEF ServerStep
<1>5. bp' = bp /\ bp \in [Callers -> Memory] /\ ~bp[c].mHeap /\ bp[c].mSize = 0
  BY Zenon, <1>1, <1>3, NotLive DEF CInv, CTypeInv
<1>6. QED
  BY Zenon, <1>1, <1>2, <1>3, <1>4, <1>5, MemoryStep

-----------------------------------------------------------------------------
LEMMA CInitInv ==
    ASSUME Counts, CInit
    PROVE  CInv
<1>1. /\ bp = [m \in Callers |-> NoMemoryProxy] /\ heaps = [h \in Callers \cup Real |-> NoProxy]
      /\ mHeapCache = [heap |-> None, count |-> 0] /\ th = [t \in Threads |-> Idle]
      /\ failed = FALSE /\ DealerTypes
  BY Zenon, DealerInit DEF CInit
<1>2. /\ NoProxy \in Heap /\ NoProxy.mBase = MAP_FAILED /\ ~NoProxy.mHeapId /\ ~NoProxy.alive
      /\ NoMemoryProxy \in Memory /\ ~NoMemoryProxy.live /\ ~NoMemoryProxy.mHeap
      /\ NoMemoryProxy.mSize = 0
      /\ Idle \in Thread /\ Idle.pc = "idle" /\ Idle.m = None /\ Idle.r = None
  BY Zenon DEF NoProxy, Heap, NoMemoryProxy, Memory, Idle, Thread, Places
<1>3. CTypeInv
  BY Zenon, <1>1, <1>2 DEF CTypeInv
<1>4. /\ \A m \in Callers : bp[m] = NoMemoryProxy
      /\ \A h \in Callers \cup Real : heaps[h] = NoProxy
      /\ \A t \in Threads : th[t] = Idle
  BY Zenon, <1>1
<1>5. OneUser
  BY Zenon, <1>2, <1>4 DEF OneUser
<1>6. \A t \in Threads : ThreadSound(t)
  BY Zenon, <1>2, <1>4 DEF ThreadSound, Bounding, Basing, Mapping, Held
<1>7. ASSUME NEW m \in Callers PROVE MemorySound(m)
  <2>1. /\ ~bp[m].live /\ ~bp[m].mHeap /\ bp[m].mSize = 0
        /\ heaps[m].mBase = MAP_FAILED /\ ~heaps[m].mHeapId
    BY Zenon, <1>2, <1>4
  <2>2. QED
    BY <2>1 DEF MemorySound
<1>8. \A r \in Real : RealSound(r)
  BY <1>2, <1>4, ClientAssumption DEF RealSound
<1>9. CacheSound
  <2>1. Copied = {} /\ Holding = {}
    BY Zenon, <1>2, <1>4 DEF Copied, Holding
  <2>2. Cardinality(Copied) = 0 /\ Cardinality(Holding) = 0
    BY Zenon, <2>1 DEF Counts, SizesOf
  <2>3. mHeapCache.heap = None /\ mHeapCache.count = 0
    BY Zenon, <1>1
  <2>4. QED
    BY <2>1, <2>2, <2>3 DEF CacheSound
<1>10. QED
  BY Zenon, <1>1, <1>3, <1>5, <1>6, <1>7, <1>8, <1>9 DEF CInv

LEMMA CNextInv ==
    ASSUME Counts, CInv, [CNext]_allVars
    PROVE  CInv'
<1>1. ASSUME NEW c \in Callers, ServerStep(c) \/ Receive(c) \/ Drop(c) PROVE CInv'
  BY Zenon, <1>1, ServerStepKeeps, ReceiveStep, DropStep
<1>2. ASSUME NEW t \in Threads, NEW m \in Callers, unsecurePointer(t, m) PROVE CInv'
  BY Zenon, <1>2, unsecurePointerStep
<1>3. ASSUME NEW t \in Threads, GetMemory(t) \/ assertMapped(t) \/ assertReallyMapped(t)
      PROVE  CInv'
  BY Zenon, <1>3, GetMemoryStep, MappedStep, FindHeapStep, assertReallyMappedStep
<1>4. ASSUME NEW t \in Threads,
             MapHeap(t) \/ SetSize(t) \/ SetHeapId(t) \/ Check(t) \/ CopyHeap(t)
      PROVE  CInv'
  BY Zenon, <1>4, MapHeapStep, SetSizeStep, SetHeapIdStep, CheckStep, FreeStep, CopyHeapStep
<1>5. ASSUME NEW t \in Threads, Bounds(t) \/ HeapOrNull(t) \/ Base(t) \/ Used(t)
      PROVE  CInv'
  BY Zenon, <1>5, BoundsStep, HeapStep, BaseStep, LeaveStep
<1>6. CASE UNCHANGED allVars
  <2>1. UNCHANGED <<vars, bp, heaps, mHeapCache, th, failed>>
    BY Zenon, <1>6 DEF allVars, clientVars
  <2>2. DealerTypes' /\ alloc' = alloc /\ pc' = pc
    BY Zenon, <2>1, DealerNext DEF CInv, vars
  <2>3. CTypeInv' /\ OneUser' /\ CacheSound' /\ \A r \in Real : RealSound(r)'
    BY Zenon, <2>1 DEF CInv, CTypeInv, OneUser, CacheSound, Copied, Holding, RealSound
  <2>4. \A t \in Threads : ThreadSound(t)'
    BY Zenon, <2>1, <2>2 DEF CInv, ThreadSound, Bounding, Basing
  <2>5. \A m \in Callers : MemorySound(m)'
    BY Zenon, <2>1, <2>2 DEF CInv, MemorySound
  <2>6. QED
    BY Zenon, <2>2, <2>3, <2>4, <2>5 DEF CInv
<1>7. QED
  BY <1>1, <1>2, <1>3, <1>4, <1>5, <1>6, Zenon DEF CNext

-----------------------------------------------------------------------------
INSTANCE FiniteSetTheorems

LEMMA FiniteSizes ==
    ASSUME NEW F, IsFiniteSet(F)
    PROVE  SizesOf(F)
<1> SUFFICES ASSUME NEW S \in SUBSET F
             PROVE  /\ Cardinality(S) \in Nat /\ (Cardinality(S) = 0 <=> S = {})
                    /\ \A x \in F \ S : Cardinality(S \cup {x}) = Cardinality(S) + 1
                    /\ \A x \in S : Cardinality(S \ {x}) = Cardinality(S) - 1
  BY Zenon DEF SizesOf
<1>1. IsFiniteSet(S)
  BY FS_Subset, Zenon
<1>2. Cardinality(S) \in Nat /\ (Cardinality(S) = 0 <=> S = {})
  BY <1>1, FS_CardinalityType, FS_EmptySet, Zenon
<1>3. ASSUME NEW x \in F \ S PROVE Cardinality(S \cup {x}) = Cardinality(S) + 1
  BY <1>1, FS_AddElement, Zenon
<1>4. ASSUME NEW x \in S PROVE Cardinality(S \ {x}) = Cardinality(S) - 1
  BY <1>1, FS_RemoveElement, Zenon
<1>5. QED
  BY Zenon, <1>2, <1>3, <1>4

LEMMA AlwaysCInv == CSpec => []CInv
<1>1. Counts
  BY FiniteSizes, ClientAssumption, Zenon DEF Counts
<1>2. (CInit => CInv) /\ (CInv /\ [CNext]_allVars => CInv')
  BY Zenon, <1>1, CInitInv, CNextInv
<1>3. QED
  BY <1>2, PTL DEF CSpec

\* IMemory: a pointer that a thread has got from unsecurePointer is into a mapping
\* that is still there, to the bytes of an Allocation that lives, however many
\* threads map and drop heaps at once and whichever transaction or mmap fails.
THEOREM PointersStayGood == CSpec => []PointersGood
  BY AlwaysCInv, CInvPointers, PTL

\* HeapCache: when the last IMemory is dropped, so are the cache entry and the
\* mapping, unless a transaction or an mmap failed.
THEOREM MappingIsReleased == CSpec => []MappingReleased
<1>1. Counts
  BY FiniteSizes, ClientAssumption, Zenon DEF Counts
<1>2. CInv => MappingReleased
  BY Zenon, <1>1, CInvReleases
<1>3. QED
  BY <1>2, AlwaysCInv, PTL
=============================================================================
