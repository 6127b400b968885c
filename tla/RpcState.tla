------------------------------ MODULE RpcState ------------------------------
(* libs/binder/RpcState.cpp: the node tables of the two ends of a session,   *)
(* the commands that travel between them and the threads that run them.      *)
(* One action is one critical section of mNodeMutex (with the send or the    *)
(* local work that follows it), so every place where the code unlocks and    *)
(* later locks again is an interleaving point.  A thread is a stack of       *)
(* frames: a thread that waits for a reply may be given a nested command.    *)
(* The sockets of the session are independent of each other, so the commands *)
(* sent to one end form a bag.                                               *)
EXTENDS Integers, Sequences, FiniteSets, Bags, TLC

CONSTANTS Client, Server,   \* the two ends
          Threads,          \* [Peer -> set of threads that use the session]
          Local,            \* [Peer -> set of BBinder objects]
          Root,             \* the object RpcServer::getRootObject returns
          NoThread,
          Scenarios,        \* bounds: the operations of each kind the applications start, the
                            \* threads there are, how deep the commands of one nest, and what a
                            \* parcel may carry, a subset of {"local", "proxy"}
          MaxId,            \* largest value of mNextId (2^32 - 1 in the code)
          MaxNodes,         \* 100000 in the code
          MaxPending,       \* kArbitraryOnewayCallTerminateLevel
          MaxAsyncNumber    \* largest value of BinderNode::asyncNumber (2^64 - 1)

Peer == {Client, Server}
Other(p) == IF p = Client THEN Server ELSE Client
PeerOf(t) == CHOOSE p \in Peer : t \in Threads[p]
Thread == UNION {Threads[p] : p \in Peer}

ASSUME PeersDiffer == Client # Server
ASSUME ThreadsApart == Threads[Client] \cap Threads[Server] = {}

(* RpcWireAddress: the creator (option bits) and mNextId; <<>> is address 0. *)
Null == <<>>
Addr == Peer \X (0..MaxId)
IsProxy(p, x) == x \in Addr /\ x[1] # p

VARIABLES mNodeForAddress,  \* [Peer -> address table]
          mTerminated,      \* [Peer -> BOOLEAN]
          mNextId,          \* [Peer -> 0..MaxId]
          held,             \* [Peer -> proxies the application keeps an sp<> to]
          stack,            \* [Thread -> sequence of frames]
          wire,             \* [Peer -> bag of commands on their way to it]
          left,             \* the scenario, with the operations that may still be started
          aborted           \* [Peer -> the fatal check or fault that ended the process]

vars == <<mNodeForAddress, mTerminated, mNextId, held, stack, wire, left, aborted>>

(* struct BinderNode; a proxy's wp<> is written as its address.              *)
Node(b) == [binder |-> b, sentRef |-> FALSE, timesSent |-> 0, timesRecd |-> 0,
            asyncNumber |-> 0, asyncTodo |-> <<>>]

(* One activation: the caller's side of a transaction (caller), the serving  *)
(* of a command, or onLastStrongRef.  fl and sp are the address and object   *)
(* given to flushExcessBinderRefs or sendDecStrongToTarget, back is where    *)
(* the frame continues afterwards.                                           *)
Frame(pc) == [pc |-> pc, caller |-> FALSE, addr |-> Null, target |-> Null, oneway |-> FALSE,
              num |-> 0, arg |-> Null, to |-> NoThread, ret |-> Null, fl |-> Null, sp |-> Null,
              back |-> "return", ok |-> TRUE]

Init == /\ mNodeForAddress = [p \in Peer |-> <<>>]
        /\ mTerminated = [p \in Peer |-> FALSE]
        /\ mNextId = [p \in Peer |-> 0]
        /\ held = [p \in Peer |-> {}]
        /\ stack = [t \in Thread |-> <<>>]
        /\ wire = [p \in Peer |-> EmptyBag]
        /\ left \in Scenarios
        /\ aborted = [p \in Peer |-> ""]

----------------------------------------------------------------------------
(* Strong references to proxies and what happens when the last one goes.     *)

(* Somebody owns an sp<> to the proxy of address a: the application, the     *)
(* node's sentRef, or a thread that is calling it.                           *)
Owned(p, a, h, nodes, st) ==
  \/ a \in h
  \/ a \in DOMAIN nodes /\ nodes[a].sentRef
  \/ \E t \in Threads[p] : \E i \in DOMAIN st[t] : st[t][i].caller /\ st[t][i].addr = a

(* wp<IBinder>::promote: local objects are kept by their application, and    *)
(* BpBinder::onIncStrongAttempted refuses to revive an RPC proxy.            *)
Promotes(p, a) ==
  IsProxy(p, a) => Owned(p, a, held[p], mNodeForAddress[p], stack)

(* The stack of t once it let go of an sp<> to a: BpBinder::onLastStrongRef  *)
(* runs in the thread that drops the last one.                               *)
LetGo(t, a, h, nodes, frames) ==
  LET p == PeerOf(t) IN
  IF /\ IsProxy(p, a) /\ a \in DOMAIN nodes
     /\ ~Owned(p, a, h, nodes, [stack EXCEPT ![t] = frames])
  THEN <<[Frame("dec") EXCEPT !.fl = a]>> \o frames
  ELSE frames

(* t's top frame becomes f, or returns to the frame below it; a caller that  *)
(* returns still has the sp<> it called through.                             *)
Continue(t, f) ==
  IF f.pc = "return" /\ (f.caller => f.addr = Null) THEN Tail(stack[t])
  ELSE <<f>> \o Tail(stack[t])

Goto(t, f) == stack' = [stack EXCEPT ![t] = Continue(t, f)]

Running(p) == aborted[p] = ""
At(t, pc) == Running(PeerOf(t)) /\ stack[t] # <<>> /\ Head(stack[t]).pc = pc

Table(p, nodes) == mNodeForAddress' = [mNodeForAddress EXCEPT ![p] = nodes]

Abort(p, why) ==
  /\ aborted' = [aborted EXCEPT ![p] = why]
  /\ UNCHANGED <<mNodeForAddress, mTerminated, mNextId, held, stack, wire, left>>

Send(q, m) == wire' = [wire EXCEPT ![q] = @ (+) SetToBag({m})]
Take(p, m) == wire' = [wire EXCEPT ![p] = @ (-) SetToBag({m})]
Gone(p) == mTerminated[p] \/ ~Running(p)

(* RpcState::clear, as RpcSession::shutdownAndWait(false) calls it, on the   *)
(* table as the caller left it.  The sentRefs it drops find the session      *)
(* terminated and send nothing.  sendObituaries, which comes before it and   *)
(* calls the death recipients of the proxies, is left out.                   *)
clear(p, nodes) ==
  IF mTerminated[p] THEN UNCHANGED <<mNodeForAddress, mTerminated, aborted>>
  ELSE IF \E a \in DOMAIN nodes : IsProxy(p, a) /\ ~Owned(p, a, held[p], nodes, stack)
  THEN /\ aborted' = [aborted EXCEPT ![p] = "clear: binder expected to be owned"]
       /\ UNCHANGED <<mNodeForAddress, mTerminated>>
  ELSE /\ mTerminated' = [mTerminated EXCEPT ![p] = TRUE]
       /\ Table(p, <<>>)
       /\ UNCHANGED aborted

----------------------------------------------------------------------------
(* The operations on one table, as functions from it.                        *)

(* The loop of onBinderLeaving: the first id from mNextId on, with wrap, for *)
(* which there is no node.                                                   *)
FreeId(p) ==
  LET id(k) == (mNextId[p] + k) % (MaxId + 1)
      free == {k \in 0..MaxId : <<p, id(k)>> \notin DOMAIN mNodeForAddress[p]}
  IN  id(CHOOSE k \in free : \A j \in free : k <= j)

(* Faulty variant: sentRef is only set for a new node.                       *)
leavingWithoutSentRef(p, x) ==
  LET nodes == mNodeForAddress[p]
      known == {a \in DOMAIN nodes : nodes[a].binder = x}
      a == IF known = {} THEN <<p, FreeId(p)>> ELSE CHOOSE b \in known : TRUE
  IN  IF mTerminated[p] THEN [status |-> "error", addr |-> Null, nodes |-> nodes,
                              next |-> mNextId[p]]
      ELSE [status |-> "ok", addr |-> a, next |-> mNextId[p],
            nodes |-> IF known = {} THEN nodes @@ (a :> [Node(x) EXCEPT !.timesSent = 1,
                                                                        !.sentRef = TRUE])
                      ELSE [nodes EXCEPT ![a].timesSent = @ + 1]]

(* onBinderLeaving of a local object or of a proxy x.                        *)
onBinderLeaving(p, x) ==
  LET nodes == mNodeForAddress[p]
      known == {a \in DOMAIN nodes : nodes[a].binder = x}
      result(status, addr, new, next) ==
        [status |-> status, addr |-> addr, nodes |-> new, next |-> next]
      sent(a, new) == [new EXCEPT ![a].timesSent = @ + 1, ![a].sentRef = TRUE]
      fresh == <<p, FreeId(p)>>
  IN  IF mTerminated[p] THEN result("error", Null, nodes, mNextId[p])
      ELSE IF known # {} THEN LET a == CHOOSE a \in known : TRUE
                              IN  result("ok", a, sent(a, nodes), mNextId[p])
      ELSE IF IsProxy(p, x) THEN result("fatal", Null, nodes, mNextId[p])
      ELSE IF Cardinality(DOMAIN nodes) > MaxNodes THEN result("error", Null, nodes, mNextId[p])
      ELSE result("ok", fresh, sent(fresh, nodes @@ (fresh :> Node(x))),
                  (fresh[2] + 1) % (MaxId + 1))

(* onBinderEntering.  The test (options & FOR_SERVER) == !!server compares a *)
(* bit of value 2 with a bool, so only a client rejects unknown addresses of *)
(* its own; binder is Null when the node's wp<> cannot be promoted.          *)
onBinderEntering(p, a) ==
  LET nodes == mNodeForAddress[p]
      received(new) == [new EXCEPT ![a].timesRecd = @ + 1]
  IN  IF mTerminated[p] THEN [status |-> "error", binder |-> Null, nodes |-> nodes]
      ELSE IF a \in DOMAIN nodes
      THEN [status |-> "ok", binder |-> IF Promotes(p, a) THEN nodes[a].binder ELSE Null,
            nodes |-> received(nodes)]
      ELSE IF p = Client /\ a[1] = Client
      THEN [status |-> "error", binder |-> Null, nodes |-> nodes]
      ELSE [status |-> "ok", binder |-> a, nodes |-> received(nodes @@ (a :> Node(a)))]

(* Faulty variant: the node goes although references are still to be given   *)
(* back.                                                                     *)
eraseWhenNotSent(nodes, a) ==
  [status |-> "ok",
   nodes |-> IF nodes[a].timesSent # 0 THEN nodes ELSE [b \in DOMAIN nodes \ {a} |-> nodes[b]]]

(* tryEraseNode: "fatal" when transactions are still queued on the node.     *)
tryEraseNode(nodes, a) ==
  LET n == nodes[a]
      kept == [nodes EXCEPT ![a].sentRef = FALSE]
  IN  IF n.timesSent # 0 THEN [status |-> "ok", nodes |-> nodes]
      ELSE IF n.timesRecd # 0 THEN [status |-> "ok", nodes |-> kept]
      ELSE IF n.asyncTodo # <<>> THEN [status |-> "fatal", nodes |-> kept]
      ELSE [status |-> "ok", nodes |-> [b \in DOMAIN nodes \ {a} |-> nodes[b]]]

(* The top of the priority queue: AsyncTodo with the smallest asyncNumber.   *)
Top(todo) == CHOOSE i \in DOMAIN todo : \A j \in DOMAIN todo : todo[i].num <= todo[j].num
Without(todo, i) == SubSeq(todo, 1, i - 1) \o SubSeq(todo, i + 1, Len(todo))

----------------------------------------------------------------------------
(* The application.                                                          *)

(* A thread of the scenario that has not nested as deep as it may.           *)
InPlay(t) == t \in left.threads /\ Len(stack[t]) < left.depth

Ready(t) == /\ Running(PeerOf(t))
            /\ InPlay(t)
            /\ stack[t] # <<>> => Head(stack[t]).pc = "run"

(* What the application of p can write into a parcel.                        *)
Writable(p) == (IF "local" \in left.carries THEN Local[p] ELSE {})
                 \cup (IF "proxy" \in left.carries THEN held[p] ELSE {})

Spend(kinds) == /\ \A k \in kinds : left[k] > 0
                /\ left' = [k \in DOMAIN left |-> IF k \in kinds THEN left[k] - 1 ELSE left[k]]

(* RpcState::getRootObject.                                                  *)
getRootObject(t) ==
  /\ t \in Threads[Client]
  /\ Ready(t)
  /\ Spend({"root"})
  /\ stack' = [stack EXCEPT ![t] = <<[Frame("transactAddress") EXCEPT !.caller = TRUE]>> \o @]
  /\ UNCHANGED <<mNodeForAddress, mTerminated, mNextId, held, wire, aborted>>

(* A call on a held proxy with an empty parcel, or with one binder that      *)
(* Parcel::flattenBinder hands to onBinderLeaving while it is written.       *)
Call(t, a, kind) ==
  LET p == PeerOf(t)
      frame == [Frame("leaving") EXCEPT !.caller = TRUE, !.addr = a, !.oneway = kind = "oneway"]
  IN
  /\ Ready(t)
  /\ a \in held[p]
  /\ UNCHANGED <<mTerminated, held, wire>>
  /\ \/ /\ Spend({kind})
        /\ stack' = [stack EXCEPT ![t] = <<frame>> \o @]
        /\ UNCHANGED <<mNodeForAddress, mNextId, aborted>>
     \/ /\ Spend({kind, "pass"})
        /\ \E x \in Writable(p) :
             LET r == onBinderLeaving(p, x) IN
             IF r.status = "fatal"
             THEN /\ aborted' = [aborted EXCEPT ![p] = "leaving: unknown proxy"]
                  /\ UNCHANGED <<mNodeForAddress, mNextId, stack>>
             ELSE /\ Table(p, r.nodes)
                  /\ mNextId' = [mNextId EXCEPT ![p] = r.next]
                  /\ stack' = IF r.status = "ok"
                              THEN [stack EXCEPT ![t] = <<[frame EXCEPT !.arg = r.addr]>> \o @]
                              ELSE stack
                  /\ UNCHANGED aborted

(* The application lets go of a proxy.                                       *)
Drop(t, a) ==
  LET p == PeerOf(t)
      h == held[p] \ {a}
  IN
  /\ Ready(t)
  /\ a \in held[p]
  /\ held' = [held EXCEPT ![p] = h]
  /\ stack' = [stack EXCEPT ![t] = LetGo(t, a, h, mNodeForAddress[p], @)]
  /\ UNCHANGED <<mNodeForAddress, mTerminated, mNextId, wire, left, aborted>>

(* RpcSession::shutdownAndWait called by the application.                    *)
Shutdown(p) ==
  /\ Running(p)
  /\ ~mTerminated[p]
  /\ Spend({"shutdown"})
  /\ clear(p, mNodeForAddress[p])
  /\ UNCHANGED <<mNextId, held, stack, wire>>

----------------------------------------------------------------------------
(* The caller's side of a transaction.                                       *)

(* rpcSend: it fails once the session is shut down here, and may fail when   *)
(* the other end is gone; a failure shuts the session down.  nodes is the    *)
(* table as the sender left it, sent and failed are the sender's next frames.*)
rpcSend(t, m, nodes, sent, failed) ==
  LET p == PeerOf(t)
      q == Other(p)
  IN
  /\ UNCHANGED <<mNextId, held, left>>
  /\ \/ /\ ~mTerminated[p]
        /\ Send(q, m)
        /\ Table(p, nodes)
        /\ Goto(t, sent)
        /\ UNCHANGED <<mTerminated, aborted>>
     \/ /\ Gone(p) \/ Gone(q)
        /\ clear(p, nodes)
        /\ Goto(t, failed)
        /\ UNCHANGED wire

(* RpcState::transact: the target leaves as well.                            *)
transact(t) ==
  LET p == PeerOf(t)
      f == Head(stack[t])
      r == onBinderLeaving(p, f.addr)
  IN
  /\ At(t, "leaving")
  /\ IF r.status = "fatal" THEN Abort(p, "leaving: unknown proxy")
     ELSE /\ Table(p, r.nodes)
          /\ Goto(t, [f EXCEPT !.pc = IF r.status = "ok" THEN "transactAddress" ELSE "return"])
          /\ UNCHANGED <<mTerminated, mNextId, held, wire, left, aborted>>

(* RpcState::transactAddress: take the asyncNumber, then send.               *)
transactAddress(t) ==
  LET p == PeerOf(t)
      f == Head(stack[t])
      nodes == mNodeForAddress[p]
      number == nodes[f.addr].asyncNumber
      give(new, num) ==
        rpcSend(t, [cmd |-> "TRANSACT", addr |-> f.addr, oneway |-> f.oneway, num |-> num,
                    arg |-> f.arg, from |-> IF f.oneway THEN NoThread ELSE t],
                new, [f EXCEPT !.pc = IF f.oneway THEN "return" ELSE "waitForReply"],
                [f EXCEPT !.pc = "return"])
  IN
  /\ At(t, "transactAddress")
  /\ IF f.addr = Null THEN give(nodes, 0)
     ELSE IF mTerminated[p]
     THEN /\ Goto(t, [f EXCEPT !.pc = "return"])
          /\ UNCHANGED <<mNodeForAddress, mTerminated, mNextId, held, wire, left, aborted>>
     ELSE IF f.addr \notin DOMAIN nodes THEN Abort(p, "transact on unknown address")
     ELSE IF ~f.oneway THEN give(nodes, 0)
     ELSE IF number >= MaxAsyncNumber
     THEN /\ clear(p, nodes)
          /\ Goto(t, [f EXCEPT !.pc = "return"])
          /\ UNCHANGED <<mNextId, held, wire, left>>
     ELSE give([nodes EXCEPT ![f.addr].asyncNumber = @ + 1], number)

(* waitForReply gets its reply; a binder in it is read by the caller.        *)
waitForReply(t, m) ==
  LET p == PeerOf(t)
      f == Head(stack[t])
  IN
  /\ At(t, "waitForReply")
  /\ m.cmd = "REPLY" /\ m.to = t
  /\ Take(p, m)
  /\ Goto(t, [f EXCEPT !.arg = m.arg, !.ok = m.ok,
                       !.pc = IF m.ok /\ m.arg # Null THEN "entering" ELSE "return"])
  /\ UNCHANGED <<mNodeForAddress, mTerminated, mNextId, held, left, aborted>>

(* The caller is done with the call and lets go of the proxy.                *)
Returned(t) ==
  LET p == PeerOf(t) IN
  /\ At(t, "return")
  /\ stack' = [stack EXCEPT ![t] = LetGo(t, Head(@).addr, held[p], mNodeForAddress[p], Tail(@))]
  /\ UNCHANGED <<mNodeForAddress, mTerminated, mNextId, held, wire, left, aborted>>

(* rpcRec fails in a thread that waits for a command or a reply.             *)
rpcRecFails(t) ==
  LET p == PeerOf(t) IN
  /\ Running(p)
  /\ Gone(p) \/ Gone(Other(p))
  /\ stack[t] = <<>> => ~mTerminated[p]
  /\ stack[t] # <<>> => Head(stack[t]).pc = "waitForReply"
  /\ clear(p, mNodeForAddress[p])
  /\ IF stack[t] = <<>> THEN UNCHANGED stack
     ELSE Goto(t, [Head(stack[t]) EXCEPT !.pc = "return"])
  /\ UNCHANGED <<mNextId, held, wire, left>>

----------------------------------------------------------------------------
(* Binders read out of a parcel, and references given back.                  *)

(* Parcel::unflattenBinder: onBinderEntering, then flushExcessBinderRefs,    *)
(* which dereferences the binder before it takes the lock; the application   *)
(* keeps a proxy it is given.                                                *)
unflattenBinder(t) ==
  LET p == PeerOf(t)
      f == Head(stack[t])
      r == onBinderEntering(p, f.arg)
      h == IF IsProxy(p, r.binder) THEN held[p] \cup {r.binder} ELSE held[p]
      next == IF r.status # "ok" THEN [f EXCEPT !.ok = FALSE, !.pc = f.back]
              ELSE IF r.binder \in Addr THEN [f EXCEPT !.pc = f.back]
              ELSE [f EXCEPT !.pc = "flush", !.fl = f.arg, !.sp = r.binder]
  IN
  /\ At(t, "entering")
  /\ IF r.status = "ok" /\ r.binder = Null THEN Abort(p, "flush: null binder")
     ELSE /\ Table(p, r.nodes)
          /\ held' = [held EXCEPT ![p] = h]
          /\ Goto(t, next)
          /\ UNCHANGED <<mTerminated, mNextId, wire, left, aborted>>

(* Faulty variant: nothing is given back.                                    *)
flushNothing(t) ==
  /\ At(t, "flush")
  /\ Goto(t, [Head(stack[t]) EXCEPT !.pc = Head(stack[t]).back])
  /\ UNCHANGED <<mNodeForAddress, mTerminated, mNextId, held, wire, left, aborted>>

(* flushExcessBinderRefs of a local binder.                                  *)
flushExcessBinderRefs(t) ==
  LET p == PeerOf(t)
      f == Head(stack[t])
      nodes == mNodeForAddress[p]
  IN
  /\ At(t, "flush")
  /\ IF mTerminated[p]
     THEN /\ Goto(t, [f EXCEPT !.pc = f.back, !.ok = FALSE])
          /\ UNCHANGED <<mNodeForAddress, mTerminated, mNextId, held, wire, left, aborted>>
     ELSE IF f.fl \notin DOMAIN nodes THEN Abort(p, "flush: can't be deleted while we hold sp<>")
     ELSE IF nodes[f.fl].binder # f.sp THEN Abort(p, "flush: inconsistent arguments")
     ELSE IF nodes[f.fl].timesSent = 0 THEN Abort(p, "flush: local binder must have been sent")
     ELSE /\ Goto(t, [f EXCEPT !.pc = IF nodes[f.fl].timesRecd # 0 THEN "dec" ELSE f.back])
          /\ UNCHANGED <<mNodeForAddress, mTerminated, mNextId, held, wire, left, aborted>>

(* sendDecStrongToTarget(fl, 0), for a flush or for onLastStrongRef.         *)
sendDecStrongToTarget(t) ==
  LET p == PeerOf(t)
      f == Head(stack[t])
      nodes == mNodeForAddress[p]
      amount == nodes[f.fl].timesRecd
      erased == tryEraseNode([nodes EXCEPT ![f.fl].timesRecd = 0], f.fl)
      done == [f EXCEPT !.pc = f.back]
      failed == [f EXCEPT !.pc = f.back, !.ok = FALSE]
  IN
  /\ At(t, "dec")
  /\ IF mTerminated[p]
     THEN /\ Goto(t, failed)
          /\ UNCHANGED <<mNodeForAddress, mTerminated, mNextId, held, wire, left, aborted>>
     ELSE IF f.fl \notin DOMAIN nodes THEN Abort(p, "dec strong on unknown address")
     ELSE IF amount = 0
     THEN /\ Goto(t, done)
          /\ UNCHANGED <<mNodeForAddress, mTerminated, mNextId, held, wire, left, aborted>>
     ELSE IF erased.status = "fatal" \/ (nodes[f.fl].timesSent = 0 /\ nodes[f.fl].sentRef)
     THEN Abort(p, "dec: bad state")
     ELSE rpcSend(t, [cmd |-> "DEC_STRONG", addr |-> f.fl, amount |-> amount],
                  erased.nodes, done, failed)

----------------------------------------------------------------------------
(* Commands.                                                                 *)

(* Faulty variant: a thread that waits for a reply serves nothing else.      *)
ServesOnlyIdle(t, m) ==
  /\ Running(PeerOf(t))
  /\ ~mTerminated[PeerOf(t)]
  /\ InPlay(t) /\ stack[t] = <<>>
  /\ BagIn(m, wire[PeerOf(t)])

(* getAndExecuteCommand in a thread that serves the session, or the loop of  *)
(* waitForReply.  A thread reads the socket of its own connection; here any  *)
(* thread that reads may find any command, which allows more orders than the *)
(* sockets do.                                                               *)
Serves(t, m) ==
  /\ Running(PeerOf(t))
  /\ ~mTerminated[PeerOf(t)]
  /\ InPlay(t)
  /\ stack[t] # <<>> => Head(stack[t]).pc = "waitForReply"
  /\ BagIn(m, wire[PeerOf(t)])

(* Where a transaction goes on once it may run: a binder in its parcel is    *)
(* read first.                                                               *)
Run(f) == IF f.arg # Null THEN [f EXCEPT !.pc = "entering", !.back = "run"]
                          ELSE [f EXCEPT !.pc = "run"]

(* processTransact up to the end of onBinderEntering of the target.          *)
processTransact(t, m) ==
  LET p == PeerOf(t)
      r == onBinderEntering(p, m.addr)
      f == [Frame("run") EXCEPT !.addr = m.addr, !.oneway = m.oneway, !.num = m.num,
                                !.arg = m.arg, !.to = m.from, !.target = r.binder]
      bad == [f EXCEPT !.ok = FALSE, !.pc = IF m.oneway THEN "next" ELSE "reply"]
      push(g) == stack' = [stack EXCEPT ![t] = <<g>> \o @]
  IN
  /\ Serves(t, m)
  /\ m.cmd = "TRANSACT"
  /\ Take(p, m)
  /\ UNCHANGED <<mNextId, held, left>>
  /\ IF m.addr = Null
     THEN /\ stack' = [stack EXCEPT ![t] = <<[Frame("run") EXCEPT !.to = m.from]>> \o @]
          /\ UNCHANGED <<mNodeForAddress, mTerminated, aborted>>
     ELSE IF r.status # "ok"
     THEN push(bad) /\ UNCHANGED <<mNodeForAddress, mTerminated, aborted>>
     ELSE IF r.binder = Null \/ r.binder \in Addr
     THEN push(bad) /\ clear(p, r.nodes)
     ELSE /\ push(IF m.oneway THEN [f EXCEPT !.pc = "async"] ELSE Run(f))
          /\ Table(p, r.nodes)
          /\ UNCHANGED <<mTerminated, aborted>>

(* Faulty variants: oneway transactions run as they arrive; the queue is     *)
(* bounded one too late.                                                     *)
onewayAnyTurn(t) ==
  /\ At(t, "async")
  /\ Goto(t, Run(Head(stack[t])))
  /\ UNCHANGED <<mNodeForAddress, mTerminated, mNextId, held, wire, left, aborted>>

(* A oneway transaction runs when its asyncNumber is the node's, and waits   *)
(* in asyncTodo otherwise.  The node is looked up without a check that it is *)
(* still there.                                                              *)
onewayTurn(t) ==
  LET p == PeerOf(t)
      f == Head(stack[t])
      nodes == mNodeForAddress[p]
      todo == Append(nodes[f.addr].asyncTodo, [num |-> f.num, arg |-> f.arg, ref |-> f.target])
  IN
  /\ At(t, "async")
  /\ IF f.addr \notin DOMAIN nodes THEN Abort(p, "oneway: node is gone")
     ELSE IF nodes[f.addr].binder # f.target
     THEN /\ Goto(t, [f EXCEPT !.ok = FALSE, !.pc = "next"])
          /\ UNCHANGED <<mNodeForAddress, mTerminated, mNextId, held, wire, left, aborted>>
     ELSE IF f.num = nodes[f.addr].asyncNumber
     THEN /\ Goto(t, Run(f))
          /\ UNCHANGED <<mNodeForAddress, mTerminated, mNextId, held, wire, left, aborted>>
     ELSE /\ Goto(t, [f EXCEPT !.pc = "return"])
          /\ IF Len(todo) >= MaxPending
             THEN clear(p, nodes)
             ELSE /\ Table(p, [nodes EXCEPT ![f.addr].asyncTodo = todo])
                  /\ UNCHANGED <<mTerminated, aborted>>
          /\ UNCHANGED <<mNextId, held, wire, left>>

(* target->transact comes to its end, for a twoway call with a binder in the *)
(* reply or without; the special transaction returns the root object.        *)
Return(t) ==
  LET p == PeerOf(t)
      f == Head(stack[t])
      next == IF f.oneway THEN [f EXCEPT !.pc = "next"]
              ELSE IF f.addr # Null /\ f.ok
              THEN [f EXCEPT !.pc = "flush", !.fl = f.addr, !.sp = f.target, !.back = "reply"]
              ELSE [f EXCEPT !.pc = "reply"]
      write(x) ==
        LET r == onBinderLeaving(p, x) IN
        /\ UNCHANGED <<mTerminated, held, wire>>
        /\ IF r.status = "fatal"
           THEN /\ aborted' = [aborted EXCEPT ![p] = "leaving: unknown proxy"]
                /\ UNCHANGED <<mNodeForAddress, mNextId, stack>>
           ELSE /\ Table(p, r.nodes)
                /\ mNextId' = [mNextId EXCEPT ![p] = r.next]
                /\ Goto(t, IF r.status = "ok" THEN [next EXCEPT !.ret = r.addr]
                           ELSE [next EXCEPT !.ok = FALSE, !.pc = "reply"])
                /\ UNCHANGED aborted
  IN
  /\ At(t, "run")
  /\ \/ /\ f.addr = Null
        /\ write(Root)
        /\ UNCHANGED left
     \/ /\ f.addr # Null
        /\ Goto(t, next)
        /\ UNCHANGED <<mNodeForAddress, mTerminated, mNextId, held, wire, left, aborted>>
     \/ /\ f.addr # Null /\ f.ok /\ ~f.oneway
        /\ \E x \in Writable(p) : write(x)
        /\ Spend({"pass"})

(* After a oneway transaction: the next one that is due, or give back what   *)
(* was received, unless nothing is queued.                                   *)
onewayNext(t) ==
  LET p == PeerOf(t)
      f == Head(stack[t])
      nodes == mNodeForAddress[p]
      n == nodes[f.addr]
      number == n.asyncNumber + 1
      i == Top(n.asyncTodo)
      due == n.asyncTodo[i]
      progressed == [nodes EXCEPT ![f.addr].asyncNumber = number]
      popped == [progressed EXCEPT ![f.addr].asyncTodo = Without(@, i)]
  IN
  /\ At(t, "next")
  /\ UNCHANGED <<mNextId, held, wire, left>>
  /\ IF f.addr \notin DOMAIN nodes
     THEN /\ Goto(t, [f EXCEPT !.pc = "return"])
          /\ UNCHANGED <<mNodeForAddress, mTerminated, aborted>>
     ELSE IF n.asyncNumber >= MaxAsyncNumber
     THEN /\ Goto(t, [f EXCEPT !.pc = "return"])
          /\ clear(p, nodes)
     ELSE IF n.asyncTodo = <<>>
     THEN /\ Goto(t, [f EXCEPT !.pc = "return"])
          /\ Table(p, progressed)
          /\ UNCHANGED <<mTerminated, aborted>>
     ELSE IF due.num = number
     THEN /\ IF due.ref # f.target
             THEN /\ aborted' = [aborted EXCEPT ![p] = "oneway: queue of another binder"]
                  /\ UNCHANGED <<mNodeForAddress, stack>>
             ELSE /\ Goto(t, [f EXCEPT !.pc = "async", !.num = due.num, !.arg = due.arg,
                                       !.ok = TRUE])
                  /\ Table(p, popped)
                  /\ UNCHANGED aborted
          /\ UNCHANGED mTerminated
     ELSE /\ Goto(t, IF f.ok THEN [f EXCEPT !.pc = "flush", !.fl = f.addr, !.sp = f.target,
                                            !.back = "return"]
                             ELSE [f EXCEPT !.pc = "return"])
          /\ Table(p, progressed)
          /\ UNCHANGED <<mTerminated, aborted>>

(* The end of processTransactInternal: the reply is sent.                    *)
sendReply(t) ==
  LET p == PeerOf(t)
      f == Head(stack[t])
      done == [f EXCEPT !.pc = "return"]
  IN
  /\ At(t, "reply")
  /\ rpcSend(t, [cmd |-> "REPLY", to |-> f.to, arg |-> f.ret, ok |-> f.ok],
             mNodeForAddress[p], done, done)

(* processDecStrong; the sentRef that tryEraseNode returns is dropped after  *)
(* the lock is released.                                                     *)
processDecStrong(t, m) ==
  LET p == PeerOf(t)
      nodes == mNodeForAddress[p]
      n == nodes[m.addr]
      erased == tryEraseNode([nodes EXCEPT ![m.addr].timesSent = @ - m.amount], m.addr)
      why == IF ~n.sentRef THEN "dec strong: lost ref"
             ELSE IF erased.status = "fatal" THEN "erase: pending async transactions"
             ELSE ""
  IN
  /\ Serves(t, m)
  /\ m.cmd = "DEC_STRONG"
  /\ Take(p, m)
  /\ UNCHANGED <<mNextId, held, left>>
  /\ IF m.addr \notin DOMAIN nodes
     THEN UNCHANGED <<mNodeForAddress, mTerminated, stack, aborted>>
     ELSE IF ~Promotes(p, m.addr)
     THEN clear(p, nodes) /\ UNCHANGED stack
     ELSE IF n.timesSent < m.amount
     THEN UNCHANGED <<mNodeForAddress, mTerminated, stack, aborted>>
     ELSE IF why # ""
     THEN /\ aborted' = [aborted EXCEPT ![p] = why]
          /\ UNCHANGED <<mNodeForAddress, mTerminated, stack>>
     ELSE /\ Table(p, erased.nodes)
          /\ stack' = [stack EXCEPT ![t] = LetGo(t, m.addr, held[p], erased.nodes, @)]
          /\ UNCHANGED <<mTerminated, aborted>>

----------------------------------------------------------------------------

Application(t) ==
  \/ getRootObject(t)
  \/ \E a \in held[PeerOf(t)] : Drop(t, a)
  \/ \E a \in held[PeerOf(t)], kind \in {"sync", "oneway"} : Call(t, a, kind)

Step(t) ==
  \/ transact(t)
  \/ transactAddress(t)
  \/ Returned(t)
  \/ rpcRecFails(t)
  \/ unflattenBinder(t)
  \/ flushExcessBinderRefs(t)
  \/ sendDecStrongToTarget(t)
  \/ onewayTurn(t)
  \/ Return(t)
  \/ onewayNext(t)
  \/ sendReply(t)

Command(t) ==
  \E m \in BagToSet(wire[PeerOf(t)]) :
    processTransact(t, m) \/ processDecStrong(t, m) \/ waitForReply(t, m)

Next == \/ \E t \in Thread : Application(t) \/ Step(t) \/ Command(t)
        \/ \E p \in Peer : Shutdown(p)

Spec == Init /\ [][Next]_vars

(* The operating system runs some thread of those that can run, and a        *)
(* command on a socket that a thread waits on is read.                       *)
FairSpec == Spec /\ WF_vars(\E t \in Thread : Step(t) \/ Command(t))

----------------------------------------------------------------------------
(* Checks of the code that no interleaving fails: a proxy that somebody      *)
(* holds is in the table (onBinderLeaving, transactAddress), a local binder  *)
(* with references to give back has been sent and is still the one at its    *)
(* address (flushExcessBinderRefs), a received binder is not owned by the    *)
(* table when its node goes (sendDecStrongToTarget), and a binder with a     *)
(* count has its sentRef (processDecStrong).                                 *)
ChecksThatHold ==
  \A p \in Peer :
    aborted[p] \notin {"leaving: unknown proxy", "transact on unknown address",
                      "flush: inconsistent arguments", "flush: local binder must have been sent",
                      "dec: bad state", "dec strong: lost ref", "oneway: queue of another binder"}

(* "Can't be deleted while we hold sp<>" (flushExcessBinderRefs).            *)
FlushFindsNode ==
  \A p \in Peer : aborted[p] # "flush: can't be deleted while we hold sp<>"

Quiet == /\ \A p \in Peer : ~Gone(p) /\ wire[p] = EmptyBag
         /\ \A t \in Thread : stack[t] = <<>>

Forgotten == Quiet /\ \A p \in Peer : held[p] = {}

(* All is propagated in the end.  When nothing is running or on its way no   *)
(* oneway call is left behind in an asyncTodo; if besides no application     *)
(* holds a proxy, no node is left in a table but those of objects that were  *)
(* called oneway (see OnewayRefsFlushed).                                    *)
NothingLeaks ==
  \A p \in Peer : \A a \in DOMAIN mNodeForAddress[p] :
    /\ Quiet => mNodeForAddress[p][a].asyncTodo = <<>>
    /\ Forgotten => mNodeForAddress[p][a].asyncNumber > 0

(* The end of processTransactInternal says of a oneway call: "done           *)
(* processing all the async commands on this binder that we can, so write    *)
(* decstrongs on the binder".  Does not hold: the function has returned by   *)
(* then if asyncTodo is empty, and the reference the call brought stays.     *)
OnewayRefsFlushed == Forgotten => \A p \in Peer : DOMAIN mNodeForAddress[p] = {}

(* The frame executes a oneway transaction.                                  *)
Executing(f) ==
  /\ ~f.caller /\ f.oneway
  /\ f.pc = "run" \/ (f.pc \in {"entering", "flush", "dec"} /\ f.back = "run")

(* Oneway calls on one object are executed one after the other, each when    *)
(* its asyncNumber is due, although they arrive on sockets with no order.    *)
OnewaySequential ==
  \A p \in Peer : \A t, u \in Threads[p] :
    \A i \in DOMAIN stack[t], j \in DOMAIN stack[u] :
      LET f == stack[t][i]
          g == stack[u][j]
      IN  Executing(f) /\ Executing(g) /\ f.target = g.target => t = u /\ i = j

Awaited == \E t \in Thread : /\ Running(PeerOf(t))
                             /\ \E i \in DOMAIN stack[t] : stack[t][i].pc = "waitForReply"

(* Every twoway call returns, with its reply or because the session ended:   *)
(* a thread that waits for a reply serves the calls that come back to it, so *)
(* threads do not wait for each other for ever.                              *)
CallsReturn == Awaited ~> ~Awaited

=============================================================================
