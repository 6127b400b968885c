------------------------------ MODULE RpcServer ------------------------------
(* The life of an RPC server and of its sessions (RpcServer.cpp, and the     *)
(* server's side of RpcSession.cpp): the join loop accepts connections, each *)
(* connection has a thread that reads the header, creates or joins a session *)
(* and serves it, and shutdown() waits until nothing of that is left.        *)
EXTENDS Integers, FiniteSets

CONSTANTS Threads,     \* connection threads; a session is named by the one that made it
          Callers,     \* threads that call shutdown()
          MaxThreads,  \* mMaxThreads
          MaxJoins,    \* bound: calls of join()
          None

ASSUME MaxThreadsPositive == MaxThreads \in Nat \ {0}
ASSUME NoneIsNoThread == None \notin Threads

VARIABLES mShutdownTrigger,    \* "null", "armed" or "triggered"
          mJoinThreadRunning,
          joinPc,              \* "out", "polling" or "accepting"
          joins,               \* calls of join() so far
          mConnectingThreads,
          mSessions,           \* the sessions in the server's map
          sess,                \* [Threads -> the session that this thread made]
          th,                  \* [Threads -> the state of the thread]
          caller,              \* [Callers -> "idle", "waiting" or "returned"]
          aborted              \* the check that failed, or "none"

vars == <<mShutdownTrigger, mJoinThreadRunning, joinPc, joins, mConnectingThreads, mSessions,
          sess, th, caller, aborted>>
joinVars == <<mJoinThreadRunning, joinPc, joins>>
serverVars == <<mShutdownTrigger, joinVars, mConnectingThreads, caller>>

NoSession == [made |-> FALSE, triggered |-> FALSE, mIncoming |-> {}, mMaxIncoming |-> 0,
              mThreads |-> {}, mOutgoing |-> 0]

Init == /\ mShutdownTrigger = "null"
        /\ mJoinThreadRunning = FALSE
        /\ joinPc = "out"
        /\ joins = 0
        /\ mConnectingThreads = {}
        /\ mSessions = {}
        /\ sess = [s \in Threads |-> NoSession]
        /\ th = [t \in Threads |-> [pc |-> "new", session |-> None, incoming |-> FALSE]]
        /\ caller = [c \in Callers |-> "idle"]
        /\ aborted = "none"

Running == aborted = "none"
At(t, pcs) == Running /\ th[t].pc \in pcs
Goto(t, pc) == th' = [th EXCEPT ![t].pc = pc]
Abort(check) == aborted' = check /\ UNCHANGED <<serverVars, mSessions, sess, th>>

----------------------------------------------------------------------------
(* join() *)
join ==
  /\ Running /\ joinPc = "out" /\ joins < MaxJoins
  /\ mShutdownTrigger = "null"         \* "Already joined"
  /\ mShutdownTrigger' = "armed"
  /\ mJoinThreadRunning' = TRUE
  /\ joinPc' = "polling"
  /\ joins' = joins + 1
  /\ UNCHANGED <<mConnectingThreads, mSessions, sess, th, caller, aborted>>

triggerablePoll ==
  /\ Running /\ joinPc = "polling"
  /\ mShutdownTrigger = "armed"
  /\ joinPc' = "accepting"
  /\ UNCHANGED <<mShutdownTrigger, mJoinThreadRunning, joins, mConnectingThreads, mSessions, sess,
                 th, caller, aborted>>

(* accept4 fails, or a thread is started for the connection under mLock.     *)
Accept ==
  /\ Running /\ joinPc = "accepting"
  /\ joinPc' = "polling"
  /\ \/ \E t \in Threads :
          /\ th[t].pc = "new"
          /\ Goto(t, "connecting")
          /\ mConnectingThreads' = mConnectingThreads \cup {t}
     \/ UNCHANGED <<th, mConnectingThreads>>
  /\ UNCHANGED <<mShutdownTrigger, mJoinThreadRunning, joins, mSessions, sess, caller, aborted>>

(* join() returns once the trigger has fired.                                *)
JoinExit ==
  /\ Running /\ joinPc = "polling"
  /\ mShutdownTrigger = "triggered"
  /\ mJoinThreadRunning' = FALSE
  /\ joinPc' = "out"
  /\ UNCHANGED <<mShutdownTrigger, joins, mConnectingThreads, mSessions, sess, th, caller, aborted>>

----------------------------------------------------------------------------
(* establishConnection up to the lock: the header names a session, or asks   *)
(* for a new one with None.  A client knows the ids of sessions that exist   *)
(* or have existed.  The peer may go away, the trigger ends the wait.        *)
ReadHeader(t) ==
  /\ At(t, {"connecting"})
  /\ IF mShutdownTrigger = "null" THEN Abort("no shutdown trigger")
     ELSE /\ \/ /\ mShutdownTrigger = "armed"
                /\ \E s \in {u \in Threads : sess[u].made} \cup {None}, in \in BOOLEAN :
                     th' = [th EXCEPT ![t] = [pc |-> "header", session |-> s, incoming |-> in]]
             \/ Goto(t, "failed")
          /\ UNCHANGED <<serverVars, mSessions, sess, aborted>>

(* mSessions.find(sessionId) *)
Finds(s) == s \in mSessions

(* Faulty variant: a session may be made once shutdown() has begun.          *)
GivesUpOnFailure(t) == th[t].pc = "failed"

(* The thread gives up when a step before failed or the server shuts down.   *)
GivesUp(t) == th[t].pc = "failed" \/ mShutdownTrigger = "triggered"

(* The part of establishConnection that holds mLock: the thread leaves       *)
(* mConnectingThreads and finds its session, or ends.  Sending the init      *)
(* message of a connection the other way fails when the peer is gone or the  *)
(* session has been shut down.                                               *)
Joined(t, s, all) == th' = [th EXCEPT ![t].pc = "prejoin", ![t].session = s]
                     /\ sess' = [all EXCEPT ![s].mThreads = @ \cup {t}]

Establish(t) ==
  /\ At(t, {"header", "failed"})
  /\ IF t \notin mConnectingThreads THEN Abort("not an owned thread")
     ELSE
     /\ mConnectingThreads' = mConnectingThreads \ {t}
     /\ LET s == th[t].session IN
        \/ /\ \/ GivesUp(t)
              \/ s = None /\ th[t].incoming
              \/ s # None /\ ~Finds(s)
           /\ Goto(t, "done")
           /\ UNCHANGED <<mSessions, sess, aborted>>
        \/ /\ ~GivesUp(t) /\ s = None /\ ~th[t].incoming
           /\ mSessions' = mSessions \cup {t}
           /\ Joined(t, t, [sess EXCEPT ![t] = [NoSession EXCEPT !.made = TRUE]])
           /\ UNCHANGED aborted
        \/ /\ ~GivesUp(t) /\ s # None /\ Finds(s) /\ th[t].incoming
           /\ \/ ~sess[s].triggered /\ aborted' = "none"
              \/ aborted' = "server state must already be initialized"
           /\ sess' = [sess EXCEPT ![s].mOutgoing = @ + 1]
           /\ Goto(t, "done")
           /\ UNCHANGED mSessions
        \/ /\ ~GivesUp(t) /\ s # None /\ Finds(s) /\ ~th[t].incoming
           /\ Joined(t, s, sess)
           /\ UNCHANGED <<mSessions, aborted>>
     /\ UNCHANGED <<mShutdownTrigger, joinVars, caller>>

----------------------------------------------------------------------------
(* Faulty variant: a connection joins whatever has ended before it.          *)
AcceptsWhileRoom(s) == Cardinality(sess[s].mIncoming) < MaxThreads
(* The two conditions of assignIncomingConnectionToThisThread.               *)
Accepts(s) ==
  /\ Cardinality(sess[s].mIncoming) < MaxThreads
  /\ Cardinality(sess[s].mIncoming) >= sess[s].mMaxIncoming

(* preJoinSetup: a thread that gets no connection leaves again.              *)
preJoinSetup(t) ==
  /\ At(t, {"prejoin"})
  /\ LET s == th[t].session IN
       \/ /\ Accepts(s)
          /\ Goto(t, "serving")
          /\ sess' = [sess EXCEPT ![s].mIncoming = @ \cup {t},
                                  ![s].mMaxIncoming = Cardinality(sess[s].mIncoming) + 1]
       \/ ~Accepts(s) /\ Goto(t, "rejected") /\ UNCHANGED sess
  /\ UNCHANGED <<serverVars, mSessions, aborted>>

(* readConnectionInit does not get the message it expects: the thread ends,  *)
(* and the session is not shut down for it.                                  *)
InitRefused(t) ==
  /\ At(t, {"serving"})
  /\ Goto(t, "leaving")
  /\ UNCHANGED <<sess, serverVars, mSessions, aborted>>

(* readConnectionInit or the serving loop ends when the peer closes, or when *)
(* the session's trigger fires; rpcRec then shuts the session down.          *)
ServingEnds(t) ==
  /\ At(t, {"serving"})
  /\ Goto(t, "leaving")
  /\ sess' = [sess EXCEPT ![th[t].session].triggered = TRUE]
  /\ UNCHANGED <<serverVars, mSessions, aborted>>

(* The end of RpcSession::join: the thread leaves mThreads, ...              *)
LeaveThreads(t) ==
  /\ At(t, {"leaving", "rejected"})
  /\ LET s == th[t].session IN
       IF t \notin sess[s].mThreads THEN Abort("thread not in session")
       ELSE /\ sess' = [sess EXCEPT ![s].mThreads = @ \ {t}]
            /\ Goto(t, IF th[t].pc = "leaving" THEN "removing" ELSE "done")
            /\ UNCHANGED <<serverVars, mSessions, aborted>>

(* ... its connection leaves mIncoming, ...                                  *)
removeIncomingConnection(t) ==
  /\ At(t, {"removing"})
  /\ LET s == th[t].session IN
       IF t \notin sess[s].mIncoming THEN Abort("connection not in list")
       ELSE /\ sess' = [sess EXCEPT ![s].mIncoming = @ \ {t}]
            /\ Goto(t, IF sess[s].mIncoming = {t} THEN "last" ELSE "done")
            /\ UNCHANGED <<serverVars, mSessions, aborted>>

(* ... and the last one takes the session out of the server.                 *)
onSessionAllIncomingThreadsEnded(t) ==
  /\ At(t, {"last"})
  /\ IF th[t].session \notin mSessions THEN Abort("unknown session id")
     ELSE /\ mSessions' = mSessions \ {th[t].session}
          /\ Goto(t, "done")
          /\ UNCHANGED <<serverVars, sess, aborted>>

----------------------------------------------------------------------------
(* shutdown(): all under mLock but the wait, which also wakes every second.  *)
shutdown(c) ==
  /\ Running /\ caller[c] = "idle"
  /\ IF mShutdownTrigger = "null"
     THEN caller' = [caller EXCEPT ![c] = "returned"] /\ UNCHANGED <<mShutdownTrigger, sess>>
     ELSE /\ mShutdownTrigger' = "triggered"
          /\ sess' = [s \in Threads |-> [sess[s] EXCEPT !.triggered = @ \/ s \in mSessions]]
          /\ caller' = [caller EXCEPT ![c] = "waiting"]
  /\ UNCHANGED <<joinVars, mConnectingThreads, mSessions, th, aborted>>

(* Faulty variant: the connecting threads are not waited for.                *)
NothingServes(c) == ~mJoinThreadRunning /\ mSessions = {}

NothingLeft(c) == ~mJoinThreadRunning /\ mConnectingThreads = {} /\ mSessions = {}

ShutdownReturns(c) ==
  /\ Running /\ caller[c] = "waiting"
  /\ NothingLeft(c)
  /\ mShutdownTrigger' = "null"
  /\ caller' = [caller EXCEPT ![c] = "returned"]
  /\ UNCHANGED <<joinVars, mConnectingThreads, mSessions, sess, th, aborted>>

(* Another call of shutdown(), for a server that was started again.          *)
ShutdownAgain(c) ==
  /\ Running /\ caller[c] = "returned"
  /\ caller' = [caller EXCEPT ![c] = "idle"]
  /\ UNCHANGED <<mShutdownTrigger, joinVars, mConnectingThreads, mSessions, sess, th, aborted>>

----------------------------------------------------------------------------
Steps(t) == \/ ReadHeader(t) \/ Establish(t) \/ preJoinSetup(t) \/ LeaveThreads(t)
            \/ removeIncomingConnection(t) \/ onSessionAllIncomingThreadsEnded(t)

Next == \/ join \/ triggerablePoll \/ Accept \/ JoinExit
        \/ \E t \in Threads : Steps(t) \/ InitRefused(t) \/ ServingEnds(t)
        \/ \E c \in Callers : shutdown(c) \/ ShutdownReturns(c) \/ ShutdownAgain(c)

Spec == Init /\ [][Next]_vars

(* Threads are scheduled; a wait for the peer only has to end once the       *)
(* trigger that interrupts it has fired.                                     *)
Interrupted(t) ==
  \/ mShutdownTrigger = "triggered" /\ ReadHeader(t)
  \/ th[t].session # None /\ sess[th[t].session].triggered /\ ServingEnds(t)
  \/ th[t].pc # "connecting" /\ Steps(t)

FairSpec ==
  /\ Spec
  /\ WF_vars(Accept)
  /\ WF_vars(JoinExit)
  /\ \A t \in Threads : WF_vars(Interrupted(t))
  /\ \A c \in Callers : WF_vars(ShutdownReturns(c))

----------------------------------------------------------------------------
(* The LOG_ALWAYS_FATAL_IF checks of establishConnection,                    *)
(* RpcSession::join, removeIncomingConnection and                            *)
(* onSessionAllIncomingThreadsEnded never fire: in particular a session is   *)
(* taken out of the server's map exactly once.                               *)
(* The check behind addOutgoingConnection in establishConnection does fire,  *)
(* when the client is gone before the init message is sent.                  *)
ChecksHold == aborted \in {"none", "server state must already be initialized"}

(* "mShutdownTrigger can only be cleared once connection threads have        *)
(* joined": no thread uses the trigger after shutdown() has dropped it.      *)
TriggerOutlivesConnecting ==
  \A t \in Threads : th[t].pc \in {"connecting", "header", "failed"} => mShutdownTrigger # "null"

(* A session in the server's map has a thread that will take it out; one     *)
(* that is out of it gets no connection any more.                            *)
SessionsAttended ==
  \A s \in Threads :
    IF s \in mSessions
    THEN \E t \in Threads : /\ th[t].session = s
                            /\ th[t].pc \in {"prejoin", "serving", "leaving", "removing", "last"}
    ELSE sess[s].mIncoming = {}

(* The life cycle of sessions and threads is sound at any time.              *)
LifeCycleSound == ChecksHold /\ TriggerOutlivesConnecting /\ SessionsAttended

(* shutdown() "will wait for the server to be fully shut down", and does     *)
(* not wait for ever (unless one of the checks aborts the process).          *)
ShutdownTerminates ==
  \A c \in Callers : caller[c] = "waiting" ~> (caller[c] = "returned" \/ aborted # "none")

=============================================================================
