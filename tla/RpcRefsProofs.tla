--------------------------- MODULE RpcRefsProofs ---------------------------
(* Proofs, for every set of addresses and every bound, of the invariants of  *)
(* RpcRefs.                                                                  *)
EXTENDS RpcRefs, TLAPS

USE SMTT(20)

(* ProxyCounted and Conservation are inductive together; the other two       *)
(* invariants follow from them.                                              *)
IInv == TypeOK /\ ProxyCounted /\ Conservation

LEMMA OtherFacts ==
  /\ \A p \in Peer : Other(p) \in Peer /\ Other(p) # p /\ Other(Other(p)) = p
  /\ \A p, q \in Peer : p # q => q = Other(p)
BY PeersDiffer DEF Other, Peer

LEMMA HolderFacts ==
  \A a \in Addr : /\ Creator[a] \in Peer
                  /\ Holder(a) \in Peer
                  /\ Holder(a) # Creator[a]
                  /\ Other(Holder(a)) = Creator[a]
                  /\ Other(Creator[a]) = Holder(a)
BY Zenon, OtherFacts, CreatorType DEF Holder

(* Adding to a counter changes that counter only. *)
LEMMA AddFacts ==
  ASSUME NEW counter \in Counters, NEW p \in Peer, NEW a \in Addr, NEW n \in Int,
         counter[p][a] + n \in Nat
  PROVE  /\ Add(counter, p, a, n) \in Counters
         /\ \A q \in Peer, b \in Addr :
              Add(counter, p, a, n)[q][b] =
                IF q = p /\ b = a THEN counter[p][a] + n ELSE counter[q][b]
BY Zenon DEF Add, Counters

LEMMA ZeroFacts ==
  ASSUME NEW counter \in Counters, NEW p \in Peer, NEW a \in Addr
  PROVE  /\ Zero(counter, p, a) \in Counters
         /\ \A q \in Peer, b \in Addr :
              Zero(counter, p, a)[q][b] = IF q = p /\ b = a THEN 0 ELSE counter[q][b]
BY Zenon DEF Zero, Counters

LEMMA CounterValue ==
  ASSUME NEW counter \in Counters, NEW p \in Peer, NEW a \in Addr
  PROVE  counter[p][a] \in Nat
BY Zenon DEF Counters

(* Conservation for one end and one address, and the counters it relates. *)
Balanced(p, a) ==
  timesSent[p][a] = inFlight[Other(p)][a] + timesRecd[Other(p)][a] + decs[p][a]

AllNat(p, a) ==
  /\ timesSent[p][a] \in Nat
  /\ inFlight[Other(p)][a] \in Nat
  /\ timesRecd[Other(p)][a] \in Nat
  /\ decs[p][a] \in Nat

LEMMA NaturalCounters ==
  ASSUME TypeOK, NEW p \in Peer, NEW a \in Addr
  PROVE  AllNat(p, a)
BY Zenon, OtherFacts, CounterValue DEF TypeOK, AllNat

(* Nothing has been sent when the session starts. *)
LEMMA InitIInv == Init => IInv
<1> SUFFICES ASSUME Init PROVE IInv
  BY Zenon
<1>1. TypeOK
  BY Zenon DEF Init, TypeOK, Counters, NoCounts, NoProxies
<1>2. ProxyCounted
  BY HolderFacts DEF Init, ProxyCounted, NoCounts, NoProxies
<1>3. Conservation
  BY OtherFacts DEF Init, Conservation, NoCounts
<1> QED
  BY Zenon, <1>1, <1>2, <1>3 DEF IInv

LEMMA SendIInv ==
  ASSUME NEW p \in Peer, NEW a \in Addr, IInv, Send(p, a)
  PROVE  IInv'
<1>1. /\ timesSent' \in Counters /\ inFlight' \in Counters
      /\ \A q \in Peer, b \in Addr :
           /\ timesSent'[q][b] = IF q = p /\ b = a THEN timesSent[q][b] + 1 ELSE timesSent[q][b]
           /\ inFlight'[q][b] = IF q = Other(p) /\ b = a THEN inFlight[q][b] + 1 ELSE inFlight[q][b]
  <2>1. timesSent[p][a] + 1 \in Nat /\ inFlight[Other(p)][a] + 1 \in Nat
    BY OtherFacts, CounterValue DEF IInv, TypeOK
  <2> QED
    BY <2>1, OtherFacts, AddFacts DEF Send, IInv, TypeOK
<1>2. TypeOK'
  BY Zenon, <1>1 DEF Send, IInv, TypeOK
<1>3. ProxyCounted'
  BY <1>1, HolderFacts DEF Send, IInv, ProxyCounted
<1>4. Conservation'
  <2> SUFFICES ASSUME NEW q \in Peer, NEW b \in Addr
               PROVE  Balanced(q, b)'
    BY Zenon DEF Conservation, Balanced
  <2>1. Balanced(q, b)
    BY Zenon DEF Send, IInv, Conservation, Balanced
  <2>2. AllNat(q, b)
    BY Zenon, NaturalCounters DEF IInv
  <2> QED
    BY <1>1, <2>1, <2>2, OtherFacts DEF Send, Balanced, AllNat
<1> QED
  BY Zenon, <1>2, <1>3, <1>4 DEF IInv

LEMMA ReceiveIInv ==
  ASSUME NEW p \in Peer, NEW a \in Addr, IInv, Receive(p, a)
  PROVE  IInv'
<1>1. /\ timesRecd' \in Counters /\ inFlight' \in Counters
      /\ \A q \in Peer, b \in Addr :
           /\ timesRecd'[q][b] = IF q = p /\ b = a THEN timesRecd[q][b] + 1 ELSE timesRecd[q][b]
           /\ inFlight'[q][b] = IF q = p /\ b = a THEN inFlight[q][b] - 1 ELSE inFlight[q][b]
  <2>1. timesRecd[p][a] + 1 \in Nat /\ inFlight[p][a] + (-1) \in Nat
    BY CounterValue DEF IInv, TypeOK, Receive
  <2> QED
    BY <2>1, AddFacts, CounterValue DEF Receive, IInv, TypeOK
<1>2. TypeOK'
  BY Zenon, <1>1 DEF Receive, IInv, TypeOK
<1>3. ProxyCounted'
  BY <1>1, HolderFacts, CounterValue DEF Receive, IInv, TypeOK, ProxyCounted
<1>4. Conservation'
  <2> SUFFICES ASSUME NEW q \in Peer, NEW b \in Addr
               PROVE  Balanced(q, b)'
    BY Zenon DEF Conservation, Balanced
  <2>1. Balanced(q, b)
    BY Zenon DEF Receive, IInv, Conservation, Balanced
  <2>2. AllNat(q, b)
    BY Zenon, NaturalCounters DEF IInv
  <2>3. /\ timesSent'[q][b] = timesSent[q][b]
        /\ decs'[q][b] = decs[q][b]
    BY Zenon DEF Receive
  <2>4. inFlight'[Other(q)][b] + timesRecd'[Other(q)][b]
          = inFlight[Other(q)][b] + timesRecd[Other(q)][b]
    BY <1>1, <2>2, OtherFacts DEF AllNat
  <2> QED
    BY Zenon, <2>1, <2>2, <2>3, <2>4 DEF Balanced, AllNat
<1> QED
  BY Zenon, <1>2, <1>3, <1>4 DEF IInv

(* What giving back does to the two counters it touches. *)
LEMMA GiveBackFacts ==
  ASSUME NEW p \in Peer, NEW a \in Addr, TypeOK, GiveBack(p, a)
  PROVE  /\ timesRecd' \in Counters /\ decs' \in Counters
         /\ \A q \in Peer, b \in Addr :
              /\ timesRecd'[q][b] = IF q = p /\ b = a THEN 0 ELSE timesRecd[q][b]
              /\ decs'[q][b] = IF q = Other(p) /\ b = a THEN decs[q][b] + timesRecd[p][a]
                                                        ELSE decs[q][b]
<1>1. /\ timesRecd[p][a] \in Nat
      /\ decs[Other(p)][a] + timesRecd[p][a] \in Nat
  BY OtherFacts, CounterValue DEF TypeOK
<1>2. Other(p) \in Peer /\ timesRecd[p][a] \in Int
  BY <1>1, OtherFacts
<1>3. timesRecd' = Zero(timesRecd, p, a) /\ decs' = Add(decs, Other(p), a, timesRecd[p][a])
  BY Zenon DEF GiveBack
<1>4. /\ decs' \in Counters
      /\ \A q \in Peer, b \in Addr :
           decs'[q][b] = IF q = Other(p) /\ b = a THEN decs[q][b] + timesRecd[p][a]
                                                 ELSE decs[q][b]
  BY <1>1, <1>2, <1>3, AddFacts DEF TypeOK
<1>5. /\ timesRecd' \in Counters
      /\ \A q \in Peer, b \in Addr :
           timesRecd'[q][b] = IF q = p /\ b = a THEN 0 ELSE timesRecd[q][b]
  BY <1>3, ZeroFacts DEF TypeOK
<1> QED
  BY Zenon, <1>4, <1>5

LEMMA GiveBackConserves ==
  ASSUME NEW p \in Peer, NEW a \in Addr, IInv, GiveBack(p, a),
         UNCHANGED <<timesSent, inFlight>>
  PROVE  Conservation'
<1>1. TypeOK
  BY Zenon DEF IInv
<1>2. /\ timesRecd[p][a] \in Nat
      /\ \A q \in Peer, b \in Addr :
           /\ timesRecd'[q][b] = IF q = p /\ b = a THEN 0 ELSE timesRecd[q][b]
           /\ decs'[q][b] = IF q = Other(p) /\ b = a THEN decs[q][b] + timesRecd[p][a]
                                                     ELSE decs[q][b]
  BY <1>1, GiveBackFacts, CounterValue DEF TypeOK
<1> SUFFICES ASSUME NEW q \in Peer, NEW b \in Addr
             PROVE  Balanced(q, b)'
  BY Zenon DEF Conservation, Balanced
<1>3. Balanced(q, b)
  BY Zenon DEF IInv, Conservation, Balanced
<1>4. AllNat(q, b)
  BY Zenon, NaturalCounters DEF IInv
<1> QED
  BY <1>2, <1>3, <1>4, OtherFacts DEF Balanced, AllNat

LEMMA AcknowledgeIInv ==
  ASSUME NEW a \in Addr, IInv, Acknowledge(a)
  PROVE  IInv'
<1>1. TypeOK /\ Creator[a] \in Peer /\ GiveBack(Creator[a], a)
  BY Zenon, HolderFacts DEF IInv, Acknowledge
<1>2. TypeOK'
  BY Zenon, <1>1, GiveBackFacts DEF Acknowledge, TypeOK
<1>3. ProxyCounted'
  BY <1>1, GiveBackFacts, HolderFacts DEF Acknowledge, IInv, ProxyCounted
<1>4. Conservation'
  BY Zenon, <1>1, GiveBackConserves DEF Acknowledge
<1> QED
  BY Zenon, <1>2, <1>3, <1>4 DEF IInv

LEMMA DropIInv ==
  ASSUME NEW a \in Addr, IInv, Drop(a)
  PROVE  IInv'
<1>1. TypeOK'
  BY Zenon DEF Drop, IInv, TypeOK
<1>2. ProxyCounted'
  BY HolderFacts, CounterValue DEF Drop, IInv, TypeOK, ProxyCounted
<1>3. Conservation'
  BY Zenon DEF Drop, IInv, Conservation
<1> QED
  BY Zenon, <1>1, <1>2, <1>3 DEF IInv

LEMMA ReleaseIInv ==
  ASSUME NEW a \in Addr, IInv, Release(a)
  PROVE  IInv'
<1>1. TypeOK /\ Holder(a) \in Peer /\ GiveBack(Holder(a), a)
  BY Zenon, HolderFacts DEF IInv, Release
<1>2. TypeOK'
  BY Zenon, <1>1, GiveBackFacts DEF Release, TypeOK
<1>3. ProxyCounted'
  BY <1>1, GiveBackFacts, HolderFacts, CounterValue DEF Release, IInv, TypeOK, ProxyCounted
<1>4. Conservation'
  BY Zenon, <1>1, GiveBackConserves DEF Release
<1> QED
  BY Zenon, <1>2, <1>3, <1>4 DEF IInv

LEMMA ReceiveDecIInv ==
  ASSUME NEW p \in Peer, NEW a \in Addr, IInv, ReceiveDec(p, a)
  PROVE  IInv'
<1>1. decs[p][a] \in Nat /\ timesSent[p][a] \in Nat
  BY Zenon, CounterValue DEF IInv, TypeOK
<1>2. PICK n \in 1..decs[p][a] : /\ timesSent[p][a] >= n
                                 /\ timesSent' = Add(timesSent, p, a, -n)
                                 /\ decs' = Add(decs, p, a, -n)
                                 /\ \/ UNCHANGED proxy
                                    \/ /\ p = Holder(a)
                                       /\ timesSent[p][a] = n
                                       /\ proxy' = [proxy EXCEPT ![a] = "dying"]
  BY Zenon DEF ReceiveDec
<1>3. /\ timesSent' \in Counters /\ decs' \in Counters
      /\ \A q \in Peer, b \in Addr :
           /\ timesSent'[q][b] = IF q = p /\ b = a THEN timesSent[q][b] - n ELSE timesSent[q][b]
           /\ decs'[q][b] = IF q = p /\ b = a THEN decs[q][b] - n ELSE decs[q][b]
  <2>1. n \in Nat /\ -n \in Int /\ timesSent[p][a] + (-n) \in Nat /\ decs[p][a] + (-n) \in Nat
    BY <1>1, <1>2
  <2> QED
    BY <1>1, <1>2, <2>1, AddFacts DEF IInv, TypeOK
<1>4. TypeOK'
  BY Zenon, <1>2, <1>3 DEF ReceiveDec, IInv, TypeOK
<1>5. ProxyCounted'
  BY <1>1, <1>2, <1>3, HolderFacts, CounterValue DEF ReceiveDec, IInv, TypeOK, ProxyCounted
<1>6. Conservation'
  <2> SUFFICES ASSUME NEW q \in Peer, NEW b \in Addr
               PROVE  Balanced(q, b)'
    BY Zenon DEF Conservation, Balanced
  <2>1. Balanced(q, b)
    BY Zenon DEF ReceiveDec, IInv, Conservation, Balanced
  <2>2. AllNat(q, b)
    BY Zenon, NaturalCounters DEF IInv
  <2> QED
    BY <1>2, <1>3, <2>1, <2>2, OtherFacts DEF ReceiveDec, Balanced, AllNat
<1> QED
  BY Zenon, <1>4, <1>5, <1>6 DEF IInv

LEMMA CloseIInv ==
  ASSUME IInv, Close
  PROVE  IInv'
<1>1. TypeOK'
  BY Zenon DEF Close, TypeOK, Counters, NoCounts, NoProxies
<1>2. ProxyCounted'
  BY HolderFacts DEF Close, ProxyCounted, NoCounts, NoProxies
<1>3. Conservation'
  BY OtherFacts DEF Close, Conservation, NoCounts
<1> QED
  BY Zenon, <1>1, <1>2, <1>3 DEF IInv

LEMMA NextIInv == IInv /\ [Next]_vars => IInv'
<1> SUFFICES ASSUME IInv, [Next]_vars PROVE IInv'
  BY Zenon
<1>1. CASE Next
  BY Zenon, <1>1, SendIInv, ReceiveIInv, AcknowledgeIInv, DropIInv, ReleaseIInv, ReceiveDecIInv,
     CloseIInv DEF Next
<1>2. CASE UNCHANGED vars
  BY Zenon, <1>2 DEF vars, IInv, TypeOK, ProxyCounted, Conservation
<1> QED
  BY Zenon, <1>1, <1>2

(* IInv holds in every state of every session. *)
LEMMA Inductive == Spec => []IInv
BY InitIInv, NextIInv, PTL DEF Spec

(* No counter of onBinderLeaving, onBinderEntering, sendDecStrongToTarget or *)
(* processDecStrong ever leaves the naturals.                                *)
THEOREM TypeCorrect == Spec => []TypeOK
<1>1. IInv => TypeOK
  BY Zenon DEF IInv
<1> QED
  BY <1>1, Inductive, PTL

(* The accounting law of the session's references, for any number of         *)
(* binders and of references.                                                *)
THEOREM ReferencesConserved == Spec => []Conservation
<1>1. IInv => Conservation
  BY Zenon DEF IInv
<1> QED
  BY <1>1, Inductive, PTL

(* sentRef keeps a proxy that was sent home, and a proxy is in the table     *)
(* exactly while it owes references.                                         *)
THEOREM ProxiesCounted == Spec => []ProxyCounted
<1>1. IInv => ProxyCounted
  BY Zenon DEF IInv
<1> QED
  BY <1>1, Inductive, PTL

(* processDecStrong never meets an amount larger than timesSent.             *)
THEOREM DecsAlwaysCovered == Spec => []DecsCovered
<1>1. IInv => DecsCovered
  BY OtherFacts, CounterValue DEF IInv, TypeOK, Conservation, DecsCovered
<1> QED
  BY <1>1, Inductive, PTL

(* The creator's node outlives every proxy and every reference coming home:  *)
(* a reference coming home was sent by a live proxy (ProxyCounted), a live   *)
(* proxy has references received, and those the creator counts as sent       *)
(* (Conservation).                                                           *)
THEOREM NodesOutliveReferences == Spec => []NodeOutlivesReferences
<1>1. IInv => NodeOutlivesReferences
  <2> SUFFICES ASSUME IInv, NEW a \in Addr,
                      \/ proxy[a] # "none"
                      \/ inFlight[Creator[a]][a] > 0
                      \/ timesRecd[Creator[a]][a] > 0
               PROVE  timesSent[Creator[a]][a] > 0
    BY Zenon DEF NodeOutlivesReferences
  <2>1. /\ timesSent[Creator[a]][a] = inFlight[Holder(a)][a] + timesRecd[Holder(a)][a]
                                        + decs[Creator[a]][a]
        /\ timesSent[Holder(a)][a] = inFlight[Creator[a]][a] + timesRecd[Creator[a]][a]
                                       + decs[Holder(a)][a]
    BY Zenon, HolderFacts DEF IInv, Conservation
  <2>2. \A p \in Peer : /\ timesSent[p][a] \in Nat /\ timesRecd[p][a] \in Nat
                        /\ inFlight[p][a] \in Nat /\ decs[p][a] \in Nat
    BY Zenon, CounterValue DEF IInv, TypeOK
  <2>3. timesRecd[Holder(a)][a] > 0
    BY <2>1, <2>2, HolderFacts DEF IInv, ProxyCounted
  <2> QED
    BY <2>1, <2>2, <2>3, HolderFacts
<1> QED
  BY <1>1, Inductive, PTL

=============================================================================
