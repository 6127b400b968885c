-------------------------- MODULE RpcClientSession --------------------------
(* The life of a client session (RpcSession.cpp): setupClient opens the      *)
(* outgoing connections and one thread per incoming connection, each of them *)
(* may see the server go away at any time, and shutdownAndWait(true), called *)
(* by the clean-up of a failed setup or by the application, waits for the    *)
(* incoming threads.  One thread of the process drives the session.          *)
EXTENDS Integers, FiniteSets

CONSTANTS Threads,               \* incoming threads the session may start
          RemoteMaxThreads,      \* what the server answers to GET_MAX_THREADS
          MaxOutgoingThreads,    \* mMaxOutgoingThreads
          MaxIncomingThreads,    \* mMaxIncomingThreads
          MaxSetups              \* bound: calls of setupClient on the object

ASSUME Limits == /\ RemoteMaxThreads \in Nat \ {0}
                 /\ MaxOutgoingThreads \in Nat
                 /\ MaxIncomingThreads \in Nat

VARIABLES pc,                \* where the driving thread is
          setups,            \* calls of setupClient so far
          started,           \* incoming threads this call has started
          mOutgoing,         \* number of outgoing connections
          mIncoming, mMaxIncoming, mThreads,
          trigger,           \* mShutdownTrigger: "null", "armed" or "triggered"
          th,                \* [Threads -> state of an incoming thread]
          serverUp,          \* BOOLEAN: does the server still answer
          cleared,           \* BOOLEAN: RpcState::clear has run
          aborted            \* the check that failed, or "none"

vars == <<pc, setups, started, mOutgoing, mIncoming, mMaxIncoming, mThreads, trigger, th, serverUp, cleared,
          aborted>>
conns == <<mOutgoing, mIncoming, mMaxIncoming, mThreads>>

Init == /\ pc = "out"
        /\ setups = 0 /\ started = 0
        /\ mOutgoing = 0
        /\ mIncoming = {} /\ mMaxIncoming = 0 /\ mThreads = {}
        /\ trigger = "null"
        /\ th = [t \in Threads |-> "new"]
        /\ serverUp = TRUE
        /\ cleared = FALSE
        /\ aborted = "none"

Running == aborted = "none"
At(where) == Running /\ pc = where
Abort(check) == aborted' = check
                /\ UNCHANGED <<pc, setups, started, conns, trigger, th, serverUp, cleared>>
MinNum(m, n) == IF m <= n THEN m ELSE n

(* The server ends, crashes or becomes unreachable.                          *)
ServerGone ==
  /\ Running /\ serverUp
  /\ serverUp' = FALSE
  /\ UNCHANGED <<pc, setups, started, conns, trigger, th, cleared, aborted>>

----------------------------------------------------------------------------
(* setupClient up to the first connection.                                   *)
setupClient ==
  /\ At("out") /\ setups < MaxSetups
  /\ IF mOutgoing # 0 THEN Abort("Must only setup session once")
     ELSE /\ trigger' = IF trigger = "null" THEN "armed" ELSE trigger
          /\ setups' = setups + 1 /\ started' = 0
          /\ pc' = "first"
          /\ UNCHANGED <<conns, th, serverUp, cleared, aborted>>

(* How many outgoing connections setupClient makes in all.                   *)
OutgoingThreads == MinNum(RemoteMaxThreads, MaxOutgoingThreads)

(* connectAndInit of an outgoing connection; the first one also reads the    *)
(* new session response, the thread limit and the session id.  A connection  *)
(* that fails after it was published stays in mOutgoing until the clean-up.  *)
connectOutgoing ==
  /\ pc \in {"first", "outgoing"} /\ Running
  /\ \/ /\ serverUp /\ trigger = "armed"
        /\ mOutgoing' = mOutgoing + 1
        /\ pc' = "outgoing"
     \/ /\ ~serverUp \/ trigger = "triggered"
        /\ mOutgoing' \in {mOutgoing, mOutgoing + 1}
        /\ pc' = "cleanup"
  /\ mOutgoing < (IF pc = "first" THEN 1 ELSE OutgoingThreads)
  /\ UNCHANGED <<setups, started, mIncoming, mMaxIncoming, mThreads, trigger, th, serverUp, cleared, aborted>>

(* connectAndInit of an incoming connection starts a thread that owns itself *)
(* before anything else; connecting or writing the header may fail.          *)
connectIncoming ==
  /\ At("outgoing")
  /\ mOutgoing >= OutgoingThreads
  /\ started < MaxIncomingThreads
  /\ \/ /\ serverUp /\ trigger = "armed"
        /\ \E t \in Threads : /\ th[t] = "new"
                              /\ th' = [th EXCEPT ![t] = "prejoin"]
                              /\ mThreads' = mThreads \cup {t}
        /\ started' = started + 1
        /\ pc' = "adding"
     \/ /\ ~serverUp \/ trigger = "triggered"
        /\ pc' = "cleanup"
        /\ UNCHANGED <<th, mThreads, started>>
  /\ UNCHANGED <<setups, mOutgoing, mIncoming, mMaxIncoming, trigger, serverUp, cleared, aborted>>

(* setupClient returns OK, and the application has its session.              *)
setupDone ==
  /\ At("outgoing")
  /\ mOutgoing >= OutgoingThreads
  /\ started = MaxIncomingThreads
  /\ pc' = "inUse"
  /\ UNCHANGED <<setups, started, conns, trigger, th, serverUp, cleared, aborted>>

----------------------------------------------------------------------------
(* Faulty variant: a connection joins whatever has ended before it.          *)
AcceptsWhileRoom(n) == n < MaxIncomingThreads

(* The two conditions of assignIncomingConnectionToThisThread.               *)
Accepts(n) == n < MaxIncomingThreads /\ n >= mMaxIncoming

assignIncomingConnection(t) ==
  /\ Running /\ th[t] = "prejoin"
  /\ IF Accepts(Cardinality(mIncoming))
     THEN /\ mIncoming' = mIncoming \cup {t}
          /\ mMaxIncoming' = Cardinality(mIncoming) + 1
          /\ th' = [th EXCEPT ![t] = "init"]
          /\ UNCHANGED pc
     ELSE /\ th' = [th EXCEPT ![t] = "rejected"]
          /\ pc' = "outgoing"           \* ownershipTransferred
          /\ UNCHANGED <<mIncoming, mMaxIncoming>>
  /\ UNCHANGED <<setups, started, mOutgoing, mThreads, trigger, serverUp, cleared, aborted>>

(* readConnectionInit: a failure shuts the session down; the driving thread  *)
(* goes on in either case.                                                   *)
readConnectionInit(t) ==
  /\ Running /\ th[t] = "init"
  /\ \/ serverUp /\ trigger = "armed" /\ th' = [th EXCEPT ![t] = "serving"] /\ UNCHANGED trigger
     \/ /\ ~serverUp \/ trigger = "triggered"
        /\ th' = [th EXCEPT ![t] = "leaving"]
        /\ trigger' = "triggered"
  /\ pc' = "outgoing"
  /\ UNCHANGED <<setups, started, conns, serverUp, cleared, aborted>>

(* Faulty variant: a receive does not look at mShutdownTrigger.              *)
PeerGone == ~serverUp

(* rpcRec fails when the peer is gone or mShutdownTrigger fires.             *)
RecFails == ~serverUp \/ trigger = "triggered"

ServingEnds(t) ==
  /\ Running /\ th[t] = "serving"
  /\ RecFails
  /\ th' = [th EXCEPT ![t] = "leaving"]
  /\ trigger' = "triggered"
  /\ UNCHANGED <<pc, setups, started, conns, serverUp, cleared, aborted>>

(* The end of RpcSession::join: out of mThreads, ...                         *)
LeaveThreads(t) ==
  /\ Running /\ th[t] \in {"rejected", "leaving"}
  /\ mThreads' = mThreads \ {t}
  /\ th' = [th EXCEPT ![t] = IF @ = "leaving" THEN "removing" ELSE "done"]
  /\ UNCHANGED <<pc, setups, started, mOutgoing, mIncoming, mMaxIncoming, trigger, serverUp,
                 cleared, aborted>>

(* ... and then out of mIncoming, which is what waitForShutdown looks at.    *)
removeIncomingConnection(t) ==
  /\ Running /\ th[t] = "removing"
  /\ mIncoming' = mIncoming \ {t}
  /\ th' = [th EXCEPT ![t] = "done"]
  /\ UNCHANGED <<pc, setups, started, mOutgoing, mMaxIncoming, mThreads, trigger, serverUp,
                 cleared, aborted>>

----------------------------------------------------------------------------
(* shutdownAndWait(true): the trigger, ...                                   *)
shutdownAndWait ==
  /\ pc \in {"inUse", "cleanup"} /\ Running
  /\ trigger' = "triggered"
  /\ pc' = IF pc = "inUse" THEN "waiting" ELSE "waitingCleanup"
  /\ UNCHANGED <<setups, started, conns, th, serverUp, cleared, aborted>>

(* The condition waitForShutdown waits for.                                  *)
AllConnectionsGone == mIncoming = {}

(* ... waitForShutdown, the check on mThreads, obituaries and clear; the     *)
(* clean-up of setupClient then makes the object as good as new.             *)
waitForShutdown ==
  /\ pc \in {"waiting", "waitingCleanup"} /\ Running
  /\ AllConnectionsGone
  /\ IF mThreads # {} THEN Abort("Shutdown failed")
     ELSE /\ IF pc = "waiting"
             THEN pc' = "end" /\ cleared' = TRUE /\ UNCHANGED <<mOutgoing, mMaxIncoming, trigger>>
             ELSE /\ pc' = "out" /\ cleared' = FALSE
                  /\ mOutgoing' = 0 /\ mMaxIncoming' = 0 /\ trigger' = "null"
          /\ UNCHANGED <<setups, started, mIncoming, mThreads, th, serverUp, aborted>>

ServerBack ==
  /\ At("out") /\ ~serverUp
  /\ serverUp' = TRUE
  /\ UNCHANGED <<pc, setups, started, conns, trigger, th, cleared, aborted>>

Steps(t) == \/ assignIncomingConnection(t) \/ readConnectionInit(t) \/ ServingEnds(t)
            \/ LeaveThreads(t) \/ removeIncomingConnection(t)
Drive == \/ connectOutgoing \/ connectIncoming \/ setupDone \/ waitForShutdown
         \/ pc = "cleanup" /\ shutdownAndWait

Next == \/ ServerGone \/ ServerBack \/ setupClient \/ connectOutgoing \/ connectIncoming
        \/ setupDone \/ shutdownAndWait \/ waitForShutdown
        \/ \E t \in Threads : Steps(t)

Spec == Init /\ [][Next]_vars

(* The driving thread and the incoming threads are scheduled.                *)
FairSpec == Spec /\ WF_vars(Drive) /\ \A t \in Threads : WF_vars(Steps(t))

----------------------------------------------------------------------------
(* "Shutdown failed": when waitForShutdown finds no incoming connection any  *)
(* more, all the threads of the session have taken themselves out, except    *)
(* one that assignIncomingConnectionToThisThread refused a connection.       *)
OnlyRefusedThreadsLeft == aborted = "Shutdown failed" => \A t \in mThreads : th[t] = "rejected"

(* When shutdownAndWait(true) has come back, to the application or to the    *)
(* clean-up of setupClient, every incoming thread has ended.                 *)
QuietAfterShutdown == pc \in {"out", "end"} => \A t \in Threads : th[t] \in {"new", "done"}

(* shutdownAndWait(true) comes back.                                         *)
ShutdownReturns == pc \in {"waiting", "waitingCleanup"} ~> (pc \in {"out", "end"} \/ ~Running)

(* shutdownAndWait(true) comes back, and nothing of the session runs then.   *)
ShutdownComplete == [](OnlyRefusedThreadsLeft /\ QuietAfterShutdown) /\ ShutdownReturns

=============================================================================
