--------------------------- MODULE RpcConnections ---------------------------
(* The connection pool of one end of an RPC session (RpcSession.cpp:         *)
(* ExclusiveConnection, addOutgoingConnection).  A thread that wants to send *)
(* takes a connection for itself, waits on mAvailableConnectionCv when there *)
(* is none, and keeps using the connection it already has when a nested call *)
(* comes in.  Serving threads own an incoming connection each.               *)
EXTENDS Integers, Sequences, FiniteSets

CONSTANTS Threads,    \* threads that may use the session
          Serving,    \* [some of the threads -> their incoming connection]
          Outgoing,   \* outgoing connections in the order they are set up, a sequence
          SetUps,     \* <<n, m>>: n of them are there from the start, m in the end
          Adder,      \* [outgoing connection -> the thread that sets it up later]
          NoThread,
          MaxDepth,   \* bound: nested activity of one thread
          Budget      \* bound: finds and transactions started in all

Seq2Set(s) == {s[i] : i \in DOMAIN s}
Incoming == {Serving[t] : t \in DOMAIN Serving}
Conn == Seq2Set(Outgoing) \cup Incoming

(* ConnectionUse *)
Use == {"CLIENT", "CLIENT_ASYNC", "CLIENT_REFCOUNT"}

ASSUME ServingThreads == /\ DOMAIN Serving \subseteq Threads
                         /\ \A t, u \in DOMAIN Serving : Serving[t] = Serving[u] => t = u
ASSUME OutgoingApart == /\ Outgoing \in Seq(Seq2Set(Outgoing))
                        /\ \A i, j \in DOMAIN Outgoing : Outgoing[i] = Outgoing[j] => i = j
                        /\ Seq2Set(Outgoing) \cap Incoming = {}
ASSUME SetUpsInRange == \A s \in SetUps : s[2] \in 0..Len(Outgoing) /\ s[1] \in 0..s[2]
ASSUME NoThreadIsNone == NoThread \notin Threads
Adders == {Adder[c] : c \in Seq2Set(Outgoing)}
Users == Threads \ Adders
ASSUME AddersApart == /\ Adders \subseteq Threads \ DOMAIN Serving
                      /\ Cardinality(Adders) = Len(Outgoing)

VARIABLES mOutgoing,        \* sequence of connections
          expected,         \* how many there will be
          mOutgoingOffset,
          mWaitingThreads,
          exclusiveTid,     \* [Conn -> owner or NoThread]
          allowNested,      \* [Conn -> BOOLEAN]
          stack,            \* [Threads -> frames], innermost first
          toNotify,         \* threads between unlocking mMutex and notify_one
          left              \* finds and transactions that may still be started

vars == <<mOutgoing, expected, mOutgoingOffset, mWaitingThreads, exclusiveTid, allowNested, stack,
          toNotify, left>>

(* A frame is a find in progress ("find", "asleep", "woken"), the use of a   *)
(* connection, or the serving of a transaction that arrived on one.          *)
Finding(use) == [at |-> "find", use |-> use]
Using(use, c, reentrant) == [at |-> "using", use |-> use, conn |-> c, mReentrant |-> reentrant]
Serves(c, oneway, saved) == [at |-> "serving", conn |-> c, oneway |-> oneway, saved |-> saved]

Top(t) == Head(stack[t])
At(t, where) == stack[t] # <<>> /\ Top(t).at = where
Replace(t, f) == stack' = [stack EXCEPT ![t] = <<f>> \o Tail(@)]
Push(t, f) == stack' = [stack EXCEPT ![t] = <<f>> \o @]
Pop(t) == stack' = [stack EXCEPT ![t] = Tail(@)]

Init == /\ \E s \in SetUps : mOutgoing = SubSeq(Outgoing, 1, s[1]) /\ expected = s[2]
        /\ mOutgoingOffset = 0
        /\ mWaitingThreads = 0
        /\ exclusiveTid = [c \in Conn |-> IF c \in Incoming
                                          THEN CHOOSE t \in DOMAIN Serving : Serving[t] = c
                                          ELSE NoThread]
        /\ allowNested = [c \in Conn |-> FALSE]
        /\ stack = [t \in Threads |-> <<>>]
        /\ toNotify = {}
        /\ left = Budget

Size == Len(mOutgoing)
MinOf(S) == CHOOSE i \in S : \A j \in S : i <= j

(* findConnection over mOutgoing from the hint on: the position of the       *)
(* connection this thread already uses, and of the first free one before it. *)
Slot(i) == mOutgoing[((i + mOutgoingOffset) % Size) + 1]
Owned(t) == {i \in 0..(Size - 1) : exclusiveTid[Slot(i)] = t}
Free(t) == {i \in 0..(Size - 1) : /\ exclusiveTid[Slot(i)] = NoThread
                                  /\ \A j \in Owned(t) : i < j}

(* The connection that one pass of the loop of ExclusiveConnection::find     *)
(* settles on: {} when there is none to use now.                             *)
Chosen(t, use) ==
  LET nested == t \in DOMAIN Serving /\ use # "CLIENT_ASYNC"
                  /\ \/ allowNested[Serving[t]]
                     \/ use = "CLIENT_REFCOUNT" /\ Free(t) = {}
  IN  IF nested THEN {[conn |-> Serving[t], reentrant |-> TRUE]}
      ELSE IF Owned(t) # {} THEN {[conn |-> Slot(MinOf(Owned(t))), reentrant |-> TRUE]}
      ELSE IF Free(t) # {} THEN {[conn |-> Slot(MinOf(Free(t))), reentrant |-> FALSE]}
      ELSE {}

(* Oneway calls take the connections in turn.                                *)
NextOffset(t, use) ==
  IF use = "CLIENT_ASYNC" /\ Owned(t) \cup Free(t) # {}
  THEN (mOutgoingOffset + 1) % Size ELSE mOutgoingOffset

(* One pass of the loop, with waiting the value of mWaitingThreads before it.*)
FindPass(t, use, waiting) ==
  /\ mOutgoingOffset' = NextOffset(t, use)
  /\ \/ \E c \in Chosen(t, use) :
          /\ Replace(t, Using(use, c.conn, c.reentrant))
          /\ exclusiveTid' = [exclusiveTid EXCEPT ![c.conn] = t]
          /\ mWaitingThreads' = waiting - 1
     \/ /\ Chosen(t, use) = {}
        /\ Size = 0                    \* WOULD_BLOCK
        /\ Pop(t)
        /\ mWaitingThreads' = waiting
        /\ UNCHANGED exclusiveTid
     \/ /\ Chosen(t, use) = {}
        /\ Size # 0
        /\ Replace(t, [Top(t) EXCEPT !.at = "asleep"])
        /\ mWaitingThreads' = waiting
        /\ UNCHANGED exclusiveTid
  /\ UNCHANGED <<mOutgoing, expected, allowNested, toNotify, left>>

(* A thread wants to send: from its own code or while it serves.             *)
Begin(t, use) ==
  /\ left > 0
  /\ Len(stack[t]) < MaxDepth
  /\ stack[t] = <<>> => t \notin DOMAIN Serving
  /\ stack[t] # <<>> => At(t, "serving")
  /\ left' = left - 1
  /\ Push(t, Finding(use))
  /\ UNCHANGED <<mOutgoing, expected, mOutgoingOffset, mWaitingThreads, exclusiveTid, allowNested, toNotify>>

(* Faulty variant: a thread that sleeps is not counted.                      *)
findUncounted(t) == At(t, "find") /\ FindPass(t, Top(t).use, mWaitingThreads)

(* ExclusiveConnection::find takes mMutex and counts itself as waiting.      *)
find(t) == At(t, "find") /\ FindPass(t, Top(t).use, mWaitingThreads + 1)

(* The wait on mAvailableConnectionCv is over.                               *)
Awake(t) == At(t, "woken") /\ FindPass(t, Top(t).use, mWaitingThreads)

(* Faulty variant: nested calls are allowed while a oneway call is served.   *)
NestsAlways(oneway) == TRUE

(* connection->allowNested while a transaction is served: the caller of a    *)
(* twoway one reads the connection.                                          *)
Nests(oneway) == ~oneway

(* A command arrives on the connection a thread serves or waits on; a oneway *)
(* one only arrives on an incoming connection, where nothing else is going   *)
(* on.  processTransactInternal sets allowNested around target->transact.    *)
Serve(t, oneway) ==
  /\ left > 0
  /\ left' = left - 1
  /\ Len(stack[t]) < MaxDepth - 1
  /\ \E c \in Conn :
       /\ \/ stack[t] = <<>> /\ t \in DOMAIN Serving /\ c = Serving[t]
          \/ At(t, "using") /\ Top(t).use = "CLIENT" /\ c = Top(t).conn /\ ~oneway
       /\ Push(t, Serves(c, oneway, allowNested[c]))
       /\ allowNested' = [allowNested EXCEPT ![c] = Nests(oneway)]
  /\ UNCHANGED <<mOutgoing, expected, mOutgoingOffset, mWaitingThreads, exclusiveTid, toNotify>>

EndServe(t) ==
  /\ At(t, "serving")
  /\ allowNested' = [allowNested EXCEPT ![Top(t).conn] = Top(t).saved]
  /\ Pop(t)
  /\ UNCHANGED <<mOutgoing, expected, mOutgoingOffset, mWaitingThreads, exclusiveTid, toNotify, left>>

(* The destructor gives the connection up where find took it, and wakes a    *)
(* waiting thread if there is one.                                           *)
Releases(t) == ~Top(t).mReentrant
Notifies(t) == mWaitingThreads > 0

(* ~ExclusiveConnection; notify_one comes after mMutex is released.          *)
Finish(t) ==
  /\ At(t, "using")
  /\ Pop(t)
  /\ IF Releases(t)
     THEN /\ exclusiveTid' = [exclusiveTid EXCEPT ![Top(t).conn] = NoThread]
          /\ toNotify' = IF Notifies(t) THEN toNotify \cup {t} ELSE toNotify
     ELSE UNCHANGED <<exclusiveTid, toNotify>>
  /\ UNCHANGED <<mOutgoing, expected, mOutgoingOffset, mWaitingThreads, allowNested, left>>

Asleep == {t \in Threads : At(t, "asleep")}

notify_one(t) ==
  /\ t \in toNotify
  /\ toNotify' = toNotify \ {t}
  /\ \/ \E u \in Asleep : Replace(u, [Top(u) EXCEPT !.at = "woken"])
     \/ Asleep = {} /\ UNCHANGED stack
  /\ UNCHANGED <<mOutgoing, expected, mOutgoingOffset, mWaitingThreads, exclusiveTid, allowNested, left>>

(* addOutgoingConnection(transport, init = true): the connection is          *)
(* published owned by the thread that sets it up, the init message is sent,  *)
(* and it is released, with nobody notified.  The other end asks for the     *)
(* next connection when it has the init message of the last one.             *)
Adding == {t \in Threads : At(t, "adding")}

addOutgoingConnection(t) ==
  /\ Size < expected
  /\ Adding = {}
  /\ LET c == Outgoing[Size + 1] IN
       /\ t = Adder[c]
       /\ mOutgoing' = Append(mOutgoing, c)
       /\ exclusiveTid' = [exclusiveTid EXCEPT ![c] = t]
       /\ Push(t, [at |-> "adding", conn |-> c])
  /\ UNCHANGED <<expected, mOutgoingOffset, mWaitingThreads, allowNested, toNotify, left>>

sendConnectionInit(t) ==
  /\ At(t, "adding")
  /\ Replace(t, [Top(t) EXCEPT !.at = "added"])
  /\ UNCHANGED <<mOutgoing, expected, mOutgoingOffset, mWaitingThreads, exclusiveTid, allowNested, toNotify,
                 left>>

releaseAdded(t) ==
  /\ At(t, "added")
  /\ exclusiveTid' = [exclusiveTid EXCEPT ![Top(t).conn] = NoThread]
  /\ Pop(t)
  /\ UNCHANGED <<mOutgoing, expected, mOutgoingOffset, mWaitingThreads, allowNested, toNotify, left>>

(* setupClient of the other end has returned: it has all the init messages.  *)
SetUp == Size = expected /\ Adding = {}

(* What a thread that is not between two steps of a destructor starts, and   *)
(* how it goes on.                                                           *)
Start(t) ==
  /\ SetUp
  /\ t \in Users \ toNotify
  /\ \/ \E use \in Use : Begin(t, use)
     \/ \E oneway \in BOOLEAN : Serve(t, oneway)

Step(t) ==
  \/ notify_one(t)
  \/ addOutgoingConnection(t) \/ sendConnectionInit(t) \/ releaseAdded(t)
  \/ /\ t \notin toNotify
     /\ find(t) \/ Awake(t) \/ EndServe(t) \/ Finish(t)

Next == \E t \in Threads : Start(t) \/ Step(t)

Spec == Init /\ [][Next]_vars

(* Threads are scheduled, transactions come to an end.                       *)
FairSpec == Spec /\ \A t \in Threads : WF_vars(Step(t))

----------------------------------------------------------------------------
(* A connection is written and read by one thread at a time, however deep    *)
(* calls nest: whoever uses or serves on a connection owns it.               *)
OwnedWhileUsed ==
  \A t \in Threads : \A i \in DOMAIN stack[t] :
    stack[t][i].at \in {"using", "serving", "adding", "added"} => exclusiveTid[stack[t][i].conn] = t

(* "guaranteed to be processed as nested command": a thread that waits for a *)
(* reply on the connection it serves is serving a twoway call from it, so    *)
(* the other end reads that connection.                                      *)
NestedCallsAwaited ==
  \A t \in Threads : \A i \in DOMAIN stack[t] :
    LET f == stack[t][i] IN
    f.at = "using" /\ f.use = "CLIENT" /\ f.conn \in Incoming
    => /\ i < Len(stack[t])
       /\ stack[t][i + 1] = Serves(f.conn, FALSE, stack[t][i + 1].saved)

(* What ExclusiveConnection promises a thread about the connection it gives. *)
ConnectionsExclusive == OwnedWhileUsed /\ NestedCallsAwaited

(* A find that has to wait gets a connection in the end.                     *)
FindReturns == \A t \in Threads : At(t, "asleep") ~> At(t, "using")

=============================================================================
