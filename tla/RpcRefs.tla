------------------------------ MODULE RpcRefs ------------------------------
(* What one RPC binder session promises about references: the two RpcState   *)
(* tables (libs/binder/RpcState.cpp) seen as counters.  A binder is known    *)
(* to both peers by its wire address; the peer that created it holds the     *)
(* BBinder, the other peer holds a BpBinder proxy.  Every transfer of the    *)
(* binder in either direction is one reference, counted in timesSent by the  *)
(* sender and in timesRecd by the receiver, and given back with a dec-strong *)
(* message.  Messages of one session travel over several sockets, so neither *)
(* references nor dec-strongs keep their order: both are counters here.      *)
(* Module RpcState has the tables, messages and threads of the code and is   *)
(* shown to implement this specification.                                    *)
EXTENDS Integers

CONSTANTS Client, Server,  \* the two ends of the session
          Addr,            \* raw wire addresses
          Creator,         \* the end whose option bits an address carries
          MaxRefs          \* bound: references one end may have outstanding per address

Peer == {Client, Server}

ASSUME PeersDiffer == Client # Server
ASSUME CreatorType == Creator \in [Addr -> Peer]
ASSUME MaxRefsType == MaxRefs \in Nat

Other(p) == IF p = Client THEN Server ELSE Client
Holder(a) == Other(Creator[a])   \* the end that has the proxy

VARIABLES timesSent,   \* BinderNode::timesSent, 0 when there is no node
          timesRecd,   \* BinderNode::timesRecd, 0 when there is no node
          inFlight,    \* references on their way to a peer
          decs,        \* dec-strong amounts on their way to a peer
          proxy,       \* the BpBinder of an address
          open         \* neither end has set mTerminated

vars == <<timesSent, timesRecd, inFlight, decs, proxy, open>>

Counters == [Peer -> [Addr -> Nat]]
NoCounts == [p \in Peer |-> [a \in Addr |-> 0]]
NoProxies == [a \in Addr |-> "none"]

Init == /\ timesSent = NoCounts
        /\ timesRecd = NoCounts
        /\ inFlight = NoCounts
        /\ decs = NoCounts
        /\ proxy = NoProxies
        /\ open = TRUE

Add(counter, p, a, n) == [counter EXCEPT ![p][a] = @ + n]
Zero(counter, p, a) == [counter EXCEPT ![p][a] = 0]

(* Faulty variants, each standing for a slip in the code of the definition   *)
(* it is named after; the properties are confirmed to reject them.           *)
SendOfAnyProxy(p, a) ==
  /\ open
  /\ timesSent[p][a] < MaxRefs
  /\ timesSent' = Add(timesSent, p, a, 1)
  /\ inFlight' = Add(inFlight, Other(p), a, 1)
  /\ UNCHANGED <<timesRecd, decs, proxy, open>>

GiveBackKeepingCount(p, a) ==
  /\ open
  /\ timesRecd[p][a] > 0
  /\ decs' = Add(decs, Other(p), a, timesRecd[p][a])
  /\ UNCHANGED timesRecd

(* onBinderLeaving: a binder is written into a parcel or is the target of a  *)
(* transaction.  A proxy can only be named by code that holds an sp<> to it. *)
Send(p, a) ==
  /\ open
  /\ p = Holder(a) => proxy[a] = "live"
  /\ timesSent[p][a] < MaxRefs
  /\ timesSent' = Add(timesSent, p, a, 1)
  /\ inFlight' = Add(inFlight, Other(p), a, 1)
  /\ UNCHANGED <<timesRecd, decs, proxy, open>>

(* onBinderEntering: a proxy is made when the address is not in the table; a *)
(* proxy whose last strong reference is gone is not revived.                 *)
Receive(p, a) ==
  /\ open
  /\ inFlight[p][a] > 0
  /\ inFlight' = Add(inFlight, p, a, -1)
  /\ timesRecd' = Add(timesRecd, p, a, 1)
  /\ proxy' = IF p = Holder(a) /\ proxy[a] = "none" THEN [proxy EXCEPT ![a] = "live"] ELSE proxy
  /\ UNCHANGED <<timesSent, decs, open>>

(* sendDecStrongToTarget with target 0: all references received are given    *)
(* back in one message.                                                      *)
GiveBack(p, a) ==
  /\ open
  /\ timesRecd[p][a] > 0
  /\ decs' = Add(decs, Other(p), a, timesRecd[p][a])
  /\ timesRecd' = Zero(timesRecd, p, a)

(* flushExcessBinderRefs: a local binder came home.                          *)
Acknowledge(a) ==
  /\ GiveBack(Creator[a], a)
  /\ UNCHANGED <<timesSent, inFlight, proxy, open>>

(* The last sp<> to the proxy goes away; sentRef is one of them.             *)
Drop(a) ==
  /\ open
  /\ proxy[a] = "live"
  /\ timesSent[Holder(a)][a] = 0
  /\ proxy' = [proxy EXCEPT ![a] = "dying"]
  /\ UNCHANGED <<timesSent, timesRecd, inFlight, decs, open>>

(* BpBinder::onLastStrongRef reaches sendDecStrongToTarget.                  *)
Release(a) ==
  /\ proxy[a] = "dying"
  /\ GiveBack(Holder(a), a)
  /\ proxy' = [proxy EXCEPT ![a] = "none"]
  /\ UNCHANGED <<timesSent, inFlight, open>>

(* processDecStrong.  Dec-strongs of an address may be received split.  When *)
(* the last sp<> to a proxy is its sentRef, dropping it is the Drop above.   *)
ReceiveDec(p, a) ==
  /\ open
  /\ \E n \in 1..decs[p][a] :
        /\ timesSent[p][a] >= n
        /\ timesSent' = Add(timesSent, p, a, -n)
        /\ decs' = Add(decs, p, a, -n)
        /\ \/ UNCHANGED proxy
           \/ /\ p = Holder(a)
              /\ timesSent[p][a] = n
              /\ proxy' = [proxy EXCEPT ![a] = "dying"]
  /\ UNCHANGED <<timesRecd, inFlight, open>>

(* clear, at either end: the session is over.                                *)
Close ==
  /\ open
  /\ open' = FALSE
  /\ timesSent' = NoCounts
  /\ timesRecd' = NoCounts
  /\ inFlight' = NoCounts
  /\ decs' = NoCounts
  /\ proxy' = NoProxies

Next == \/ Close
        \/ \E a \in Addr : Acknowledge(a) \/ Drop(a) \/ Release(a)
        \/ \E p \in Peer, a \in Addr : Send(p, a) \/ Receive(p, a) \/ ReceiveDec(p, a)

Spec == Init /\ [][Next]_vars

(* Every counter is a natural number (the code keeps them in size_t and      *)
(* subtracts) and a proxy is absent, usable or inside onLastStrongRef.       *)
TypeOK == /\ timesSent \in Counters
          /\ timesRecd \in Counters
          /\ inFlight \in Counters
          /\ decs \in Counters
          /\ proxy \in [Addr -> {"none", "live", "dying"}]
          /\ open \in BOOLEAN

(* Accounting of references (onBinderLeaving against onBinderEntering and    *)
(* sendDecStrongToTarget against processDecStrong): what one end has         *)
(* recorded as sent is exactly what is on its way, recorded as received, or  *)
(* on its way back.                                                          *)
Conservation ==
  \A p \in Peer, a \in Addr :
    timesSent[p][a] = inFlight[Other(p)][a] + timesRecd[Other(p)][a] + decs[p][a]

(* The purpose of the protocol (BinderNode::sentRef): while the other end    *)
(* has a proxy, or a reference is on its way home or came home and is not    *)
(* yet given back, the creator still counts the binder as sent.  So its node *)
(* and its strong reference are there for onBinderEntering and               *)
(* flushExcessBinderRefs, and its address is not given to another binder.    *)
NodeOutlivesReferences ==
  \A a \in Addr :
    \/ proxy[a] # "none"
    \/ inFlight[Creator[a]][a] > 0
    \/ timesRecd[Creator[a]][a] > 0
    => timesSent[Creator[a]][a] > 0

(* A dec-strong on its way never exceeds what the receiver has recorded as   *)
(* sent, so the log-and-ignore branches of processDecStrong are never taken. *)
DecsCovered ==
  \A p \in Peer, a \in Addr : decs[p][a] <= timesSent[p][a]

(* A proxy that went back in a transaction is kept alive by sentRef until    *)
(* the creator acknowledged it, and a proxy exists exactly while references  *)
(* received for it have not been given back.                                 *)
ProxyCounted ==
  \A a \in Addr :
    /\ timesSent[Holder(a)][a] > 0 => proxy[a] = "live"
    /\ proxy[a] # "none" <=> timesRecd[Holder(a)][a] > 0

=============================================================================
