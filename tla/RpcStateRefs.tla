---------------------------- MODULE RpcStateRefs ----------------------------
(* RpcState implements RpcRefs.                                              *)
EXTENDS RpcState, FiniteSetsExt

(* The counters of RpcRefs in a state of this module.  A reference is on its *)
(* way from the time onBinderLeaving counted it until onBinderEntering       *)
(* counts it: in a parcel that is being built, on a socket, in a transaction *)
(* whose parcel is not read yet or that is queued in asyncTodo.              *)

Open == \A p \in Peer : ~Gone(p)

One(b) == IF b THEN 1 ELSE 0

Building == {"leaving", "transactAddress"}
Unread == {"entering", "async"}

OnSockets(p, a) ==
  LET count(m) == CopiesIn(m, wire[p]) * (One(m.arg = a) + One(m.cmd = "TRANSACT" /\ m.addr = a))
  IN  MapThenSumSet(count, {m \in BagToSet(wire[p]) : m.cmd # "DEC_STRONG"})

DecsOnSockets(p, a) ==
  LET count(m) == CopiesIn(m, wire[p]) * m.amount
  IN  MapThenSumSet(count, {m \in BagToSet(wire[p]) : m.cmd = "DEC_STRONG" /\ m.addr = a})

FrameSum(p, count(_)) ==
  LET at(x) == count(stack[x[1]][x[2]])
  IN  MapThenSumSet(at, UNION {{<<t, i>> : i \in DOMAIN stack[t]} : t \in Threads[p]})

LeavingFrames(p, a) ==
  LET count(f) == One(f.caller /\ f.pc \in Building /\ f.arg = a)
                    + One(f.caller /\ f.pc = "transactAddress" /\ f.addr = a)
                    + One(~f.caller /\ f.ret = a)
  IN  FrameSum(p, count)

EnteringFrames(p, a) ==
  LET count(f) == One(f.pc \in Unread /\ f.arg = a) IN FrameSum(p, count)

Queued(p, a) ==
  LET nodes == mNodeForAddress[p]
      entries == UNION {{<<b, i>> : i \in DOMAIN nodes[b].asyncTodo} : b \in DOMAIN nodes}
  IN  Cardinality({x \in entries : nodes[x[1]].asyncTodo[x[2]].arg = a})

Count(field, p, a) ==
  IF Open /\ a \in DOMAIN mNodeForAddress[p] THEN mNodeForAddress[p][a][field] ELSE 0

Refs == INSTANCE RpcRefs WITH
  MaxRefs <- 100,
  Creator <- [a \in Addr |-> a[1]],
  timesSent <- [p \in Peer |-> [a \in Addr |-> Count("timesSent", p, a)]],
  timesRecd <- [p \in Peer |-> [a \in Addr |-> Count("timesRecd", p, a)]],
  inFlight <- [p \in Peer |-> [a \in Addr |->
                 IF Open THEN OnSockets(p, a) + LeavingFrames(Other(p), a)
                                + EnteringFrames(p, a) + Queued(p, a) ELSE 0]],
  decs <- [p \in Peer |-> [a \in Addr |-> IF Open THEN DecsOnSockets(p, a) ELSE 0]],
  proxy <- [a \in Addr |-> IF ~Open \/ a \notin DOMAIN mNodeForAddress[Other(a[1])] THEN "none"
                           ELSE IF Promotes(Other(a[1]), a) THEN "live" ELSE "dying"],
  open <- Open

(* The tables, threads and sockets of the code keep the promise of RpcRefs:  *)
(* every critical section of mNodeMutex is a step of its counters, or none.  *)
RefinesRpcRefs == Refs!Spec

=============================================================================
