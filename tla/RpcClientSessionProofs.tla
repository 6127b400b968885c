----------------------- MODULE RpcClientSessionProofs -----------------------
(***************************************************************************)
(* For every number of threads, every limit on connections and however     *)
(* often setupClient is called: when waitForShutdown sees no incoming      *)
(* connection, only threads that were refused one are left                 *)
(* (OnlyRefusedThreadsLeft), and a session whose shutdown has come back    *)
(* has no thread that still runs (QuietAfterShutdown).                     *)
(***************************************************************************)
EXTENDS RpcClientSession, TLAPS

Joining == {"prejoin", "init"}          \* the driving thread waits for it
Connected == {"init", "serving", "leaving", "removing"}
Owned == {"prejoin", "init", "serving", "leaving", "rejected"}

TypeInv ==
    /\ pc \in {"out", "first", "outgoing", "adding", "inUse", "cleanup", "waiting",
               "waitingCleanup", "end"}
    /\ th \in [Threads -> {"new", "removing", "done"} \cup Owned]
    /\ mThreads \subseteq Threads /\ mIncoming \subseteq Threads

\* A thread that has not yet told setupClient how its connection went: there is
\* one at most, and setupClient waits for it.
OneJoins == \A t \in Threads : th[t] \in Joining =>
                /\ pc = "adding"
                /\ \A u \in Threads : th[u] \in Joining => u = t

\* mThreads and mIncoming are what the threads have entered and not yet left; the
\* entry in mIncoming goes last.
Entered == \A t \in Threads : /\ t \in mThreads <=> th[t] \in Owned
                              /\ t \in mIncoming <=> th[t] \in Connected

Inv == TypeInv /\ OneJoins /\ Entered /\ QuietAfterShutdown /\ OnlyRefusedThreadsLeft

USE DEF Joining, Connected, Owned

LEMMA InitInv == Init => Inv
  BY DEF Init, Inv, TypeInv, OneJoins, Entered, QuietAfterShutdown, OnlyRefusedThreadsLeft

\* What an incoming thread does leaves the invariant: it goes on in the order
\* prejoin, init, serving, leaving, removing, and gives up what it entered.
LEMMA ThreadInv ==
    ASSUME Inv, NEW t \in Threads, Steps(t)
    PROVE  Inv'
<1> USE DEF Inv, TypeInv, Running
<1>1. CASE assignIncomingConnection(t)
  <2>1. aborted' = aborted /\ aborted = "none" /\ mThreads' = mThreads /\ th[t] = "prejoin"
    BY <1>1 DEF assignIncomingConnection
  <2>2. CASE /\ mIncoming' = mIncoming \cup {t} /\ pc' = pc
             /\ th' = [th EXCEPT ![t] = "init"]
    BY <2>1, <2>2 DEF OneJoins, Entered, QuietAfterShutdown, OnlyRefusedThreadsLeft
  <2>3. CASE /\ mIncoming' = mIncoming /\ pc' = "outgoing"
             /\ th' = [th EXCEPT ![t] = "rejected"]
    BY <2>1, <2>3 DEF OneJoins, Entered, QuietAfterShutdown, OnlyRefusedThreadsLeft
  <2>4. QED
    BY Zenon, <1>1, <2>2, <2>3 DEF assignIncomingConnection
<1>2. CASE readConnectionInit(t)
  <2>1. /\ aborted' = aborted /\ aborted = "none" /\ mThreads' = mThreads
        /\ mIncoming' = mIncoming /\ pc' = "outgoing" /\ th[t] = "init"
        /\ \E p \in {"serving", "leaving"} : th' = [th EXCEPT ![t] = p]
    BY <1>2 DEF readConnectionInit, conns
  <2>2. QED
    BY <2>1 DEF OneJoins, Entered, QuietAfterShutdown, OnlyRefusedThreadsLeft
<1>3. CASE ServingEnds(t)
  BY <1>3 DEF ServingEnds, conns, OneJoins, Entered, QuietAfterShutdown, OnlyRefusedThreadsLeft
<1>4. CASE LeaveThreads(t)
  BY <1>4 DEF LeaveThreads, OneJoins, Entered, QuietAfterShutdown, OnlyRefusedThreadsLeft
<1>5. CASE removeIncomingConnection(t)
  BY <1>5 DEF removeIncomingConnection, OneJoins, Entered, QuietAfterShutdown,
              OnlyRefusedThreadsLeft
<1>6. QED
  BY <1>1, <1>2, <1>3, <1>4, <1>5 DEF Steps

\* A thread is started while no other one is joining.
LEMMA ConnectIncomingInv == Inv /\ connectIncoming => Inv'
<1> SUFFICES ASSUME Inv, connectIncoming PROVE Inv'
  OBVIOUS
<1> USE DEF Inv, TypeInv, Running, At
<1>1. /\ aborted' = aborted /\ aborted = "none" /\ mIncoming' = mIncoming /\ pc = "outgoing"
      /\ \/ /\ pc' = "adding"
            /\ \E t \in Threads : /\ th[t] = "new" /\ th' = [th EXCEPT ![t] = "prejoin"]
                                  /\ mThreads' = mThreads \cup {t}
         \/ pc' = "cleanup" /\ th' = th /\ mThreads' = mThreads
  BY Zenon DEF connectIncoming
<1>2. CASE pc' = "cleanup" /\ th' = th /\ mThreads' = mThreads
  BY <1>1, <1>2 DEF OneJoins, Entered, QuietAfterShutdown, OnlyRefusedThreadsLeft
<1>3. ASSUME NEW t \in Threads, th[t] = "new", th' = [th EXCEPT ![t] = "prejoin"],
             mThreads' = mThreads \cup {t}, pc' = "adding"
      PROVE  Inv'
  BY <1>1, <1>3 DEF OneJoins, Entered, QuietAfterShutdown, OnlyRefusedThreadsLeft
<1>4. QED
  BY Zenon, <1>1, <1>2, <1>3

\* waitForShutdown: nobody joins any more, and who is in mThreads and not in
\* mIncoming was refused.
LEMMA WaitInv == Inv /\ waitForShutdown => Inv'
<1> SUFFICES ASSUME Inv, waitForShutdown PROVE Inv'
  OBVIOUS
<1> USE DEF Inv, TypeInv, Running
<1>1. pc \in {"waiting", "waitingCleanup"} /\ aborted = "none" /\ mIncoming = {}
  BY DEF waitForShutdown, AllConnectionsGone
<1>2. \A t \in Threads : th[t] \in {"new", "done", "rejected"}
  BY <1>1 DEF OneJoins, Entered
<1>3. CASE mThreads # {}
  BY <1>1, <1>2, <1>3 DEF waitForShutdown, Abort, conns, OneJoins, Entered, QuietAfterShutdown,
                          OnlyRefusedThreadsLeft
<1>4. CASE mThreads = {}
  <2>1. /\ pc' \in {"out", "end"} /\ aborted' = aborted /\ th' = th
        /\ mThreads' = mThreads /\ mIncoming' = mIncoming
    BY <1>1, <1>4 DEF waitForShutdown
  <2>2. QED
    BY <1>1, <1>2, <1>4, <2>1 DEF OneJoins, Entered, QuietAfterShutdown, OnlyRefusedThreadsLeft
<1>5. QED
  BY <1>3, <1>4

\* The other steps leave the threads as they are.
LEMMA QuietStepInv ==
    ASSUME Inv, \/ ServerGone \/ ServerBack \/ setupClient \/ connectOutgoing \/ setupDone
                \/ shutdownAndWait \/ UNCHANGED vars
    PROVE  Inv'
<1> USE DEF Inv, TypeInv, Running, At, OneJoins, Entered, QuietAfterShutdown,
            OnlyRefusedThreadsLeft
<1>1. CASE ServerGone \/ ServerBack
  BY <1>1 DEF ServerGone, ServerBack, conns
<1>2. CASE setupClient
  BY <1>2 DEF setupClient, Abort, conns
<1>3. CASE connectOutgoing
  BY <1>3 DEF connectOutgoing
<1>4. CASE setupDone
  BY <1>4 DEF setupDone, conns
<1>5. CASE shutdownAndWait
  BY <1>5 DEF shutdownAndWait, conns
<1>6. CASE UNCHANGED vars
  BY <1>6 DEF vars
<1>7. QED
  BY <1>1, <1>2, <1>3, <1>4, <1>5, <1>6

LEMMA AlwaysInv == Spec => []Inv
<1>1. Inv /\ [Next]_vars => Inv'
  BY Zenon, ThreadInv, ConnectIncomingInv, WaitInv, QuietStepInv DEF Next
<1>2. QED
  BY InitInv, <1>1, PTL DEF Spec

\* RpcSession::shutdownAndWait, "Shutdown failed": when waitForShutdown sees no
\* incoming connection, no thread is left in mThreads but one that
\* assignIncomingConnectionToThisThread refused a connection.
THEOREM OnlyRefusedAreLeft == Spec => []OnlyRefusedThreadsLeft
<1>1. Inv => OnlyRefusedThreadsLeft
  BY DEF Inv
<1>2. QED
  BY <1>1, AlwaysInv, PTL

\* RpcSession::shutdownAndWait(true): when it has come back, to the application or
\* to the clean-up of a setupClient that failed, every incoming thread the session
\* has started has ended, those that were refused a connection included.
THEOREM NothingRunsAfterShutdown == Spec => []QuietAfterShutdown
<1>1. Inv => QuietAfterShutdown
  BY DEF Inv
<1>2. QED
  BY <1>1, AlwaysInv, PTL
=============================================================================
