--------------------------- MODULE RpcServerProofs ---------------------------
(* The life cycle of an RPC server is sound for any number of connections,   *)
(* callers of shutdown(), starts of the server and threads per session.      *)
EXTENDS RpcServer, TLAPS

USE SMTT(20)

Connecting == {"connecting", "header", "failed"}
Attached == {"serving", "leaving", "removing"}
Listed == {"prejoin", "serving", "leaving", "rejected"}
InSession == Listed \cup Attached \cup {"last"}

Session == [made : BOOLEAN, triggered : BOOLEAN, mIncoming : SUBSET Threads, mMaxIncoming : Nat,
            mThreads : SUBSET Threads, mOutgoing : Nat]
ThreadState == [pc : {"new", "done"} \cup Connecting \cup InSession,
                session : Threads \cup {None}, incoming : BOOLEAN]

(* The values of the variables; connections are finitely many at any time.   *)
TypeInv ==
  /\ mShutdownTrigger \in {"null", "armed", "triggered"}
  /\ mConnectingThreads \subseteq Threads
  /\ mSessions \subseteq Threads
  /\ sess \in [Threads -> Session]
  /\ th \in [Threads -> ThreadState]
  /\ \A s \in Threads : IsFiniteSet(sess[s].mIncoming)

(* The join loop runs with a trigger, and so do the threads it has started.  *)
Triggered ==
  /\ mJoinThreadRunning <=> joinPc # "out"
  /\ joinPc # "out" => mShutdownTrigger # "null"
  /\ \A t \in Threads : t \in mConnectingThreads <=> th[t].pc \in Connecting
  /\ mConnectingThreads # {} => mShutdownTrigger # "null"

(* Threads belong to sessions that were made, are in the lists of their      *)
(* session, and make one session at most.                                    *)
Belonging ==
  /\ \A t \in Threads : th[t].pc \in InSession => th[t].session # None
  /\ \A t \in Threads : th[t].session # None => sess[th[t].session].made
  /\ \A t \in Threads : th[t].pc \in Listed => t \in sess[th[t].session].mThreads
  /\ \A s, t \in Threads :
       t \in sess[s].mIncoming <=> th[t].session = s /\ th[t].pc \in Attached
  /\ \A s \in Threads : th[s].pc \in {"new"} \cup Connecting => ~sess[s].made
  /\ \A s \in Threads : ~sess[s].made => s \notin mSessions /\ sess[s].mMaxIncoming = 0

(* The stages of a session: it has no connection yet, has some, has lost the *)
(* last one, is out of the map.                                              *)
Stage(s) ==
  /\ sess[s].mIncoming # {} => s \in mSessions /\ sess[s].mMaxIncoming > 0
  /\ \A t \in Threads :
       th[t].session = s /\ th[t].pc = "last"
       => /\ s \in mSessions /\ sess[s].mIncoming = {} /\ sess[s].mMaxIncoming > 0
          /\ \A u \in Threads : th[u].session = s /\ th[u].pc = "last" => u = t
  /\ s \in mSessions /\ sess[s].mIncoming = {} /\ sess[s].mMaxIncoming > 0
     => \E t \in Threads : th[t].session = s /\ th[t].pc = "last"
  /\ s \in mSessions /\ sess[s].mMaxIncoming = 0
     => \E t \in Threads : th[t].session = s /\ th[t].pc = "prejoin"
  /\ s \notin mSessions
     => \A t \in Threads : th[t].session = s /\ th[t].pc = "prejoin" => sess[s].mMaxIncoming > 0

Stages == \A s \in Threads : Stage(s)

(* The inductive invariant.                                                  *)
IInv == TypeInv /\ ChecksHold /\ Triggered /\ Belonging /\ Stages

----------------------------------------------------------------------------
(* What the argument uses of finite sets; the end of the module proves it    *)
(* from the library's theorems.                                              *)
EmptySetFacts == IsFiniteSet({}) /\ Cardinality({}) = 0
FiniteSetFacts ==
  \A S \in SUBSET Threads :
    IsFiniteSet(S) => /\ Cardinality(S) \in Nat
                      /\ \A x \in Threads : IsFiniteSet(S \cup {x}) /\ IsFiniteSet(S \ {x})

LEMMA InitIInv ==
    ASSUME EmptySetFacts, Init
    PROVE  IInv
<1>1. TypeInv
  BY Zenon DEF EmptySetFacts, Init, TypeInv, Session, NoSession, ThreadState
<1>2. ChecksHold /\ Triggered
  BY Zenon DEF Init, ChecksHold, Triggered, Connecting
<1>3. Belonging /\ Stages
  BY Zenon DEF Init, Belonging, Stages, Stage, NoSession, InSession, Listed, Attached, Connecting
<1> QED
  BY Zenon, <1>1, <1>2, <1>3 DEF IInv

(* The steps of the join loop and of shutdown() leave threads and sessions   *)
(* alone, but for the triggers of sessions.                                  *)
LEMMA ServerSteps ==
    ASSUME IInv,
           \/ join \/ triggerablePoll \/ JoinExit
           \/ \E c \in Callers : shutdown(c) \/ ShutdownReturns(c) \/ ShutdownAgain(c)
    PROVE  IInv'
<1> USE DEF IInv
<1>1. /\ th' = th /\ mSessions' = mSessions /\ mConnectingThreads' = mConnectingThreads
      /\ aborted' = aborted
  BY Zenon DEF join, triggerablePoll, JoinExit, shutdown, ShutdownReturns, ShutdownAgain
<1>2. /\ sess' \in [Threads -> Session]
      /\ \A s \in Threads : /\ sess'[s].made = sess[s].made
                            /\ sess'[s].mIncoming = sess[s].mIncoming
                            /\ sess'[s].mMaxIncoming = sess[s].mMaxIncoming
                            /\ sess'[s].mThreads = sess[s].mThreads
  <2>1. CASE sess' = sess
    BY Zenon, <2>1 DEF TypeInv
  <2>2. CASE sess' = [s \in Threads |-> [sess[s] EXCEPT !.triggered = @ \/ s \in mSessions]]
    <3> DEFINE now(s) == sess[s].triggered \/ s \in mSessions
    <3>1. \A s \in Threads : now(s) \in BOOLEAN
      BY Zenon
    <3>2. sess' = [s \in Threads |-> [sess[s] EXCEPT !.triggered = now(s)]]
      BY Zenon, <2>2
    <3> HIDE DEF now
    <3> QED
      BY <3>1, <3>2 DEF TypeInv, Session
  <2> QED
    BY Zenon, <2>1, <2>2 DEF join, triggerablePoll, JoinExit, shutdown, ShutdownReturns, ShutdownAgain
<1>3. TypeInv'
  BY Zenon, <1>1, <1>2 DEF TypeInv, join, triggerablePoll, JoinExit, shutdown, ShutdownReturns, ShutdownAgain
<1>4. Triggered'
  BY <1>1 DEF Triggered, TypeInv, join, triggerablePoll, JoinExit, shutdown, ShutdownReturns, ShutdownAgain,
              NothingLeft, joinVars
<1>5. Belonging'
  BY <1>1, <1>2 DEF Belonging, TypeInv, ThreadState, InSession
<1>6. Stages'
  BY <1>1, <1>2 DEF Stages, Stage
<1> QED
  BY <1>1, <1>3, <1>4, <1>5, <1>6, Zenon DEF ChecksHold

(* A connection is accepted, and its header is read.                         *)
LEMMA AcceptStep ==
    ASSUME IInv, Accept
    PROVE  IInv'
<1> USE DEF IInv
<1>1. CASE UNCHANGED <<th, mConnectingThreads>>
  <2>1. UNCHANGED <<mShutdownTrigger, mJoinThreadRunning, mSessions, sess, th, mConnectingThreads,
                    aborted>> /\ joinPc # "out" /\ joinPc' # "out"
    BY Zenon, <1>1 DEF Accept
  <2>2. TypeInv' /\ ChecksHold' /\ Belonging'
    BY <2>1, Zenon DEF TypeInv, ChecksHold, Belonging
  <2>3. Stages'
    BY <2>1 DEF Stages, Stage
  <2> QED
    BY Zenon, <2>1, <2>2, <2>3 DEF Triggered
<1>2. ASSUME NEW t \in Threads, th[t].pc = "new", Goto(t, "connecting"),
             mConnectingThreads' = mConnectingThreads \cup {t}
      PROVE  IInv'
  <2>1. /\ th'[t].pc = "connecting" /\ th'[t].session = th[t].session
        /\ \A u \in Threads \ {t} : th'[u] = th[u]
        /\ th' \in [Threads -> ThreadState]
    BY <1>2 DEF Goto, TypeInv, ThreadState, Connecting
  <2>2. UNCHANGED <<mShutdownTrigger, mJoinThreadRunning, mSessions, sess, aborted>>
        /\ joinPc # "out" /\ joinPc' # "out"
    BY Zenon DEF Accept
  <2>3. TypeInv' /\ ChecksHold'
    BY <1>2, <2>1, <2>2, Zenon DEF TypeInv, ChecksHold
  <2>4. Triggered'
    BY Zenon, <1>2, <2>1, <2>2 DEF Triggered, Connecting, TypeInv
  <2>5. Belonging'
    BY <1>2, <2>1, <2>2 DEF Belonging, Connecting, InSession, Listed, Attached
  <2>6. Stages'
    BY <1>2, <2>1, <2>2 DEF Stages, Stage
  <2> QED
    BY Zenon, <2>3, <2>4, <2>5, <2>6
<1> QED
  BY Zenon, <1>1, <1>2 DEF Accept

LEMMA ReadHeaderStep ==
    ASSUME IInv, NEW t \in Threads, ReadHeader(t)
    PROVE  IInv'
<1> USE DEF IInv
<1>1. th[t].pc = "connecting" /\ mShutdownTrigger # "null"
  BY Zenon DEF ReadHeader, At, Triggered, Connecting
<1>2. UNCHANGED <<mShutdownTrigger, mJoinThreadRunning, joinPc, mConnectingThreads, mSessions, sess,
                  aborted>>
  BY Zenon, <1>1 DEF ReadHeader, serverVars, joinVars
<1> DEFINE Moved == /\ th'[t].pc \in {"header", "failed"}
                    /\ th'[t].session # None => sess[th'[t].session].made
                    /\ \A u \in Threads \ {t} : th'[u] = th[u]
                    /\ th' \in [Threads -> ThreadState]
<1>3. Moved
  <2>1. CASE Goto(t, "failed")
    BY <2>1 DEF Goto, TypeInv, ThreadState, Connecting, Belonging
  <2>2. ASSUME NEW s \in {u \in Threads : sess[u].made} \cup {None}, NEW in \in BOOLEAN,
               th' = [th EXCEPT ![t] = [pc |-> "header", session |-> s, incoming |-> in]]
        PROVE  Moved
    BY Zenon, <2>2 DEF TypeInv, ThreadState, Connecting
  <2> QED
    BY Zenon, <1>1, <2>1, <2>2 DEF ReadHeader
<1>4. TypeInv' /\ ChecksHold'
  BY <1>2, <1>3, Zenon DEF TypeInv, ChecksHold
<1>5. Triggered'
  BY Zenon, <1>1, <1>2, <1>3 DEF Triggered, Connecting
<1>6. Belonging'
  BY <1>1, <1>2, <1>3 DEF Belonging, Connecting, InSession, Listed, Attached
<1>7. Stages'
  BY <1>1, <1>2, <1>3 DEF Stages, Stage
<1> QED
  BY Zenon, <1>4, <1>5, <1>6, <1>7

(* The end of establishConnection: the thread gives up, makes a session,     *)
(* hands over a connection the other way, or joins a session.                *)
LEMMA EstablishStep ==
    ASSUME EmptySetFacts, IInv, NEW t \in Threads, Establish(t)
    PROVE  IInv'
<1> USE DEF IInv
<1> DEFINE s == th[t].session
<1>0. \A u \in Threads : th[u].session \in Threads \cup {None}
  BY Zenon DEF TypeInv, ThreadState
<1>1. th[t].pc \in {"header", "failed"} /\ t \in mConnectingThreads
  BY Zenon DEF Establish, At, Triggered, Connecting
<1>2. /\ mConnectingThreads' = mConnectingThreads \ {t}
      /\ UNCHANGED <<mShutdownTrigger, mJoinThreadRunning, joinPc>>
  BY <1>1, Zenon DEF Establish, joinVars
<1>3. ASSUME th'[t].pc \notin Connecting, \A u \in Threads \ {t} : th'[u] = th[u]
      PROVE  Triggered'
  BY Zenon, <1>1, <1>2, <1>3 DEF Triggered, TypeInv
<1>4. CASE Goto(t, "done") /\ UNCHANGED <<mSessions, sess, aborted>>
  <2>1. /\ th'[t].pc = "done" /\ th'[t].session = th[t].session
        /\ \A u \in Threads \ {t} : th'[u] = th[u]
        /\ th' \in [Threads -> ThreadState]
    BY Zenon, <1>4 DEF Goto, TypeInv, ThreadState
  <2>2. TypeInv' /\ ChecksHold'
    BY <1>2, <1>4, <2>1, Zenon DEF TypeInv, ChecksHold
  <2>3. Triggered'
    BY Zenon, <1>3, <2>1 DEF Connecting
  <2>4. Belonging'
    BY <1>1, <1>4, <2>1 DEF Belonging, Connecting, InSession, Listed, Attached
  <2>5. Stages'
    BY <1>1, <1>4, <2>1 DEF Stages, Stage
  <2> QED
    BY Zenon, <2>2, <2>3, <2>4, <2>5
<1>5. CASE /\ s = None /\ mSessions' = mSessions \cup {t} /\ UNCHANGED aborted
           /\ Joined(t, t, [sess EXCEPT ![t] = [NoSession EXCEPT !.made = TRUE]])
  <2>1. /\ th'[t].pc = "prejoin" /\ th'[t].session = t
        /\ \A u \in Threads \ {t} : th'[u] = th[u]
        /\ th' \in [Threads -> ThreadState]
    <3> DEFINE next == [th[t] EXCEPT !.pc = "prejoin", !.session = t]
    <3>1. th[t] \in ThreadState
      BY Zenon DEF TypeInv
    <3>2. next \in ThreadState /\ next.pc = "prejoin" /\ next.session = t
      BY <1>0, <1>5, <3>1, Zenon DEF ThreadState, InSession, Listed
    <3>3. th' = [th EXCEPT ![t] = next]
      BY <1>5, Zenon DEF Joined
    <3> HIDE DEF next
    <3> QED
      BY Zenon, <3>2, <3>3 DEF TypeInv
  <2>2. /\ sess'[t].made /\ sess'[t].mIncoming = {} /\ sess'[t].mMaxIncoming = 0
        /\ t \in sess'[t].mThreads
        /\ \A u \in Threads \ {t} : sess'[u] = sess[u]
        /\ sess' \in [Threads -> Session]
    BY <1>5, Zenon DEF Joined, TypeInv, Session, NoSession
  <2>3. /\ ~sess[t].made /\ t \notin mSessions
        /\ \A u \in Threads : th[u].session # t
    BY Zenon, <1>1, NoneIsNoThread DEF Belonging, Connecting
  <2>4. TypeInv' /\ ChecksHold'
    BY <1>2, <1>5, <2>1, <2>2, Zenon DEF EmptySetFacts, TypeInv, ChecksHold
  <2>5. Triggered'
    BY Zenon, <1>3, <2>1 DEF Connecting
  <2>6. Belonging'
    BY <1>0, <1>1, <1>5, <2>1, <2>2, <2>3 DEF Belonging, Connecting, InSession, Listed, Attached
  <2>7. Stages'
    BY <1>1, <1>5, <2>1, <2>2, <2>3 DEF Stages, Stage
  <2> QED
    BY Zenon, <2>4, <2>5, <2>6, <2>7
<1>6. CASE /\ s # None /\ Goto(t, "done") /\ UNCHANGED mSessions
           /\ sess' = [sess EXCEPT ![s].mOutgoing = @ + 1]
           /\ aborted' \in {"none", "server state must already be initialized"}
  <2>0. mSessions' = mSessions
    BY <1>6, Zenon
  <2>1. /\ th'[t].pc = "done" /\ th'[t].session = th[t].session
        /\ \A u \in Threads \ {t} : th'[u] = th[u]
        /\ th' \in [Threads -> ThreadState]
    BY <1>6, Zenon DEF Goto, TypeInv, ThreadState
  <2>2. /\ sess' \in [Threads -> Session]
        /\ \A u \in Threads : /\ sess'[u].made = sess[u].made
                              /\ sess'[u].mIncoming = sess[u].mIncoming
                              /\ sess'[u].mMaxIncoming = sess[u].mMaxIncoming
                              /\ sess'[u].mThreads = sess[u].mThreads
    <3>1. s \in Threads /\ sess[s] \in Session
      BY <1>0, <1>6, Zenon DEF TypeInv
    <3>2. [sess[s] EXCEPT !.mOutgoing = @ + 1] \in Session
      BY <3>1 DEF Session
    <3> HIDE DEF s
    <3>3. /\ sess'[s] = [sess[s] EXCEPT !.mOutgoing = @ + 1]
          /\ \A u \in Threads \ {s} : sess'[u] = sess[u]
          /\ sess' \in [Threads -> Session]
      BY <1>6, <3>1, <3>2, Zenon DEF TypeInv
    <3> QED
      BY <3>1, <3>3 DEF Session
  <2>3. TypeInv' /\ ChecksHold'
    BY <1>2, <1>6, <2>1, <2>2, Zenon DEF TypeInv, ChecksHold
  <2>4. Triggered'
    BY Zenon, <1>3, <2>1 DEF Connecting
  <2>5. Belonging'
    BY <1>0, <1>1, <2>0, <2>1, <2>2 DEF Belonging, Connecting, InSession, Listed, Attached
  <2>6. Stages'
    BY <1>1, <2>0, <2>1, <2>2 DEF Stages, Stage
  <2> QED
    BY Zenon, <2>3, <2>4, <2>5, <2>6
<1>7. CASE s # None /\ Finds(s) /\ Joined(t, s, sess) /\ UNCHANGED <<mSessions, aborted>>
  <2>1. /\ th'[t].pc = "prejoin" /\ th'[t].session = s
        /\ \A u \in Threads \ {t} : th'[u] = th[u]
        /\ th' \in [Threads -> ThreadState]
    <3> DEFINE next == [th[t] EXCEPT !.pc = "prejoin", !.session = s]
    <3>1. th[t] \in ThreadState
      BY Zenon DEF TypeInv
    <3>2. next \in ThreadState /\ next.pc = "prejoin" /\ next.session = s
      BY <1>0, <1>7, <3>1, Zenon DEF ThreadState, InSession, Listed
    <3>3. th' = [th EXCEPT ![t] = next]
      BY <1>7, Zenon DEF Joined
    <3> HIDE DEF next
    <3> QED
      BY Zenon, <3>2, <3>3 DEF TypeInv
  <2>2. /\ sess' \in [Threads -> Session] /\ s \in Threads /\ t \in sess'[s].mThreads
        /\ \A u \in Threads : /\ sess'[u].made = sess[u].made
                              /\ sess'[u].mIncoming = sess[u].mIncoming
                              /\ sess'[u].mMaxIncoming = sess[u].mMaxIncoming
                              /\ sess[u].mThreads \subseteq sess'[u].mThreads
    BY <1>7 DEF Joined, TypeInv, Session, ThreadState
  <2>3. TypeInv' /\ ChecksHold'
    BY <1>2, <1>7, <2>1, <2>2, Zenon DEF TypeInv, ChecksHold
  <2>4. Triggered'
    BY Zenon, <1>3, <2>1 DEF Connecting
  <2>5. Belonging'
    BY <1>0, <1>1, <1>7, <2>1, <2>2 DEF Belonging, Connecting, InSession, Listed, Attached
  <2>6. Stages'
    BY <1>1, <1>7, <2>1, <2>2 DEF Stages, Stage, Finds
  <2> QED
    BY Zenon, <2>3, <2>4, <2>5, <2>6
<1> QED
  BY <1>1, <1>4, <1>5, <1>6, <1>7, Zenon DEF Establish

(* What a step of a thread that is in a session leaves alone: the server     *)
(* itself, the other threads, and the lists of the other sessions.           *)
InSessionStep(t, s) ==
  /\ th[t].pc \in InSession /\ th[t].session = s /\ th'[t].session = s
  /\ th'[t].pc \in InSession \cup {"done"}
  /\ th' \in [Threads -> ThreadState]
  /\ \A u \in Threads \ {t} : th'[u] = th[u]
  /\ sess' \in [Threads -> Session]
  /\ \A u \in Threads \ {s} : sess'[u] = sess[u]
  /\ sess'[s].made = sess[s].made
  /\ UNCHANGED <<serverVars, aborted>>

LEMMA InSessionKeeps ==
    ASSUME IInv, NEW t \in Threads, NEW s \in Threads, InSessionStep(t, s),
           mSessions' \subseteq mSessions, IsFiniteSet(sess'[s].mIncoming)
    PROVE  TypeInv' /\ ChecksHold' /\ Triggered'
<1>1. TypeInv'
  BY Zenon DEF IInv, TypeInv, InSessionStep, serverVars
<1>2. ChecksHold'
  BY Zenon DEF IInv, ChecksHold, InSessionStep
<1>3. Triggered'
  BY Zenon DEF IInv, Triggered, InSessionStep, serverVars, joinVars, Connecting, InSession, Listed, Attached
<1> QED
  BY Zenon, <1>1, <1>2, <1>3

(* A step in a session keeps Belonging when the lists of the session still   *)
(* name its threads.                                                         *)
LEMMA BelongingKept ==
    ASSUME IInv, NEW t \in Threads, NEW s \in Threads, InSessionStep(t, s),
           mSessions' \subseteq mSessions,
           \A u \in Threads : u \in sess'[s].mIncoming
                             <=> th'[u].session = s /\ th'[u].pc \in Attached,
           \A u \in Threads : th'[u].session = s /\ th'[u].pc \in Listed
                             => u \in sess'[s].mThreads
    PROVE  Belonging'
<1>0. \A u \in Threads : th[u].session \in Threads \cup {None}
  BY Zenon DEF IInv, TypeInv, ThreadState
<1>1. \A u \in Threads : th'[u].session = th[u].session
  BY Zenon DEF InSessionStep
<1>2. /\ \A x \in Threads : sess'[x].made = sess[x].made
      /\ \A x \in Threads \ {s} : sess'[x] = sess[x]
      /\ sess[s].made
  BY Zenon, NoneIsNoThread DEF IInv, Belonging, InSessionStep
<1>3. \A x, u \in Threads :
        u \in sess'[x].mIncoming <=> th'[u].session = x /\ th'[u].pc \in Attached
  BY <1>1, <1>2 DEF IInv, Belonging, InSessionStep
<1>4. \A u \in Threads : th'[u].pc \in {"new"} \cup Connecting => th'[u] = th[u]
  BY Zenon DEF InSessionStep, Connecting, InSession, Listed, Attached
<1>5. \A u \in Threads : th'[u].pc \in InSession => th'[u].session # None
  BY <1>1, NoneIsNoThread DEF IInv, Belonging, InSessionStep
<1>6. \A u \in Threads : th'[u].session # None => sess'[th'[u].session].made
  BY <1>0, <1>1, <1>2 DEF IInv, Belonging
<1>7. \A u \in Threads : th'[u].pc \in Listed => u \in sess'[th'[u].session].mThreads
  <2> SUFFICES ASSUME NEW u \in Threads, th'[u].pc \in Listed, th'[u].session # s
               PROVE  u \in sess'[th'[u].session].mThreads
    BY Zenon
  <2>1. th'[u] = th[u] /\ th'[u].session \in Threads \ {s}
    BY Zenon, <1>0, <1>1, <1>5 DEF InSessionStep, InSession
  <2> QED
    BY <1>2, <2>1 DEF IInv, Belonging
<1>8. \A x \in Threads : th'[x].pc \in {"new"} \cup Connecting => ~sess'[x].made
  BY Zenon, <1>2, <1>4 DEF IInv, Belonging
<1>9. \A x \in Threads : ~sess'[x].made => x \notin mSessions' /\ sess'[x].mMaxIncoming = 0
  BY Zenon, <1>2 DEF IInv, Belonging
<1> QED
  BY Zenon, <1>3, <1>5, <1>6, <1>7, <1>8, <1>9 DEF Belonging

LEMMA SessionOf ==
    ASSUME IInv, NEW t \in Threads, th[t].pc \in InSession
    PROVE  th[t].session \in Threads /\ sess[th[t].session] \in Session
  BY Zenon DEF IInv, TypeInv, ThreadState, Belonging

LEMMA PreJoinStep ==
    ASSUME EmptySetFacts, FiniteSetFacts, IInv, NEW t \in Threads, preJoinSetup(t)
    PROVE  IInv'
<1> DEFINE s == th[t].session
<1>1. th[t].pc = "prejoin" /\ s \in Threads /\ sess[s] \in Session
  BY Zenon, SessionOf DEF preJoinSetup, At, InSession, Listed
<1>2. t \notin sess[s].mIncoming /\ IsFiniteSet(sess[s].mIncoming)
  BY <1>1 DEF IInv, Belonging, Attached, TypeInv
<1>3. CASE Accepts(s)
  <2> DEFINE max == Cardinality(sess[s].mIncoming) + 1
  <2>1. Cardinality(sess[s].mIncoming) \in Nat
    BY Zenon, <1>1, <1>2 DEF FiniteSetFacts, Session
  <2>2. s \in mSessions /\ \A u \in Threads : th[u].session = s => th[u].pc # "last"
    <3>1. CASE sess[s].mIncoming = {}
      <4>1. sess[s].mMaxIncoming = 0
        BY <1>1, <1>3, <3>1 DEF EmptySetFacts, Accepts, Session
      <4> QED
        BY <1>1, <4>1 DEF IInv, Stages, Stage
    <3>2. CASE sess[s].mIncoming # {}
      BY <1>1, <3>2 DEF IInv, Stages, Stage
    <3> QED
      BY Zenon, <3>1, <3>2
  <2>3. /\ Goto(t, "serving") /\ mSessions' = mSessions /\ UNCHANGED <<serverVars, aborted>>
        /\ sess' = [sess EXCEPT ![s].mIncoming = @ \cup {t}, ![s].mMaxIncoming = max]
    BY Zenon, <1>3 DEF preJoinSetup
  <2>4. th'[t].pc = "serving" /\ InSessionStep(t, s)
        /\ sess'[s].mIncoming = sess[s].mIncoming \cup {t}
        /\ sess'[s].mMaxIncoming = max /\ sess'[s].mThreads = sess[s].mThreads
    <3> HIDE DEF s, max
    <3>0. s = th[t].session /\ max \in Nat
      BY <2>1 DEF s, max
    <3>1. /\ th'[t].pc = "serving" /\ th'[t].session = th[t].session
          /\ th' \in [Threads -> ThreadState]
          /\ \A u \in Threads \ {t} : th'[u] = th[u]
      BY Zenon, <2>3 DEF Goto, IInv, TypeInv, ThreadState, InSession, Listed
    <3>2. /\ sess' \in [Threads -> Session]
          /\ \A u \in Threads \ {s} : sess'[u] = sess[u]
          /\ sess'[s].made = sess[s].made /\ sess'[s].mThreads = sess[s].mThreads
          /\ sess'[s].mIncoming = sess[s].mIncoming \cup {t}
          /\ sess'[s].mMaxIncoming = max
      <4> DEFINE more == sess[s].mIncoming \cup {t}
                 mid == [sess EXCEPT ![s].mIncoming = more]
      <4>1. sess \in [Threads -> Session] /\ more \in SUBSET Threads
        BY Zenon, <1>1 DEF IInv, TypeInv, Session
      <4>2. sess' = [mid EXCEPT ![s].mMaxIncoming = max]
        BY Zenon, <2>3
      <4>3. /\ mid \in [Threads -> Session] /\ \A u \in Threads \ {s} : mid[u] = sess[u]
            /\ mid[s].made = sess[s].made /\ mid[s].mThreads = sess[s].mThreads
            /\ mid[s].mIncoming = more
        <5> HIDE DEF more
        <5> QED
          BY Zenon, <1>1, <4>1 DEF Session
      <4> HIDE DEF more, mid
      <4> QED
        BY <1>1, <3>0, <4>2, <4>3 DEF more, Session
    <3> QED
      BY <1>1, <2>3, <3>0, <3>1, <3>2, Zenon DEF InSessionStep, InSession, Listed
  <2>5. TypeInv' /\ ChecksHold' /\ Triggered'
    <3>1. IsFiniteSet(sess[s].mIncoming \cup {t})
      BY Zenon, <1>1, <1>2 DEF FiniteSetFacts, Session
    <3> QED
      BY <1>1, <2>3, <2>4, <3>1, InSessionKeeps, Zenon
  <2>6. max > 0 /\ max # 0 /\ mSessions' = mSessions
    BY <2>1, <2>3
  <2> HIDE DEF s, max
  <2>7. Belonging'
    <3>1. \A u \in Threads : u \in sess'[s].mIncoming
                            <=> th'[u].session = s /\ th'[u].pc \in Attached
      BY <1>1, <2>4 DEF IInv, Belonging, InSessionStep, Attached
    <3>2. \A u \in Threads : th'[u].session = s /\ th'[u].pc \in Listed => u \in sess'[s].mThreads
      BY <1>1, <2>4 DEF IInv, Belonging, InSessionStep, Listed
    <3> QED
      BY Zenon, <1>1, <2>4, <2>6, <3>1, <3>2, BelongingKept
  <2>8. Stages'
    <3> SUFFICES ASSUME NEW x \in Threads PROVE Stage(x)'
      BY Zenon DEF Stages
    <3>1. CASE x = s
      BY <1>1, <2>2, <2>4, <2>6, <3>1 DEF InSessionStep, Stage
    <3>2. CASE x # s
      BY <1>1, <2>4, <2>6, <3>2 DEF IInv, Stages, Stage, InSessionStep
    <3> QED
      BY Zenon, <3>1, <3>2
  <2> QED
    BY Zenon, <2>5, <2>7, <2>8 DEF IInv
<1>4. CASE ~Accepts(s)
  <2>1. sess[s].mMaxIncoming > 0
    <3>1. CASE sess[s].mIncoming = {}
      BY <1>1, <1>4, <3>1, MaxThreadsPositive DEF EmptySetFacts, Accepts, Session
    <3>2. CASE sess[s].mIncoming # {}
      BY Zenon, <1>1, <3>2 DEF IInv, Stages, Stage
    <3> QED
      BY Zenon, <3>1, <3>2
  <2>2. Goto(t, "rejected") /\ UNCHANGED <<sess, mSessions, serverVars, aborted>>
    BY Zenon, <1>4 DEF preJoinSetup
  <2>3. th'[t].pc = "rejected" /\ InSessionStep(t, s)
    BY Zenon, <1>1, <2>2 DEF Goto, InSessionStep, IInv, TypeInv, ThreadState, InSession, Listed
  <2>4. TypeInv' /\ ChecksHold' /\ Triggered'
    BY Zenon, <1>1, <1>2, <2>2, <2>3, InSessionKeeps
  <2> HIDE DEF s
  <2>5. Belonging'
    BY <1>1, <2>2, <2>3 DEF IInv, Belonging, InSessionStep, Connecting, InSession, Listed, Attached
  <2>6. Stages'
    BY <1>1, <2>1, <2>2, <2>3 DEF IInv, Stages, Stage, InSessionStep
  <2> QED
    BY Zenon, <2>4, <2>5, <2>6 DEF IInv
<1> QED
  BY Zenon, <1>3, <1>4

(* Serving ends, and the session's trigger fires or not.                     *)
LEMMA ServingEndsStep ==
    ASSUME IInv, NEW t \in Threads, InitRefused(t) \/ ServingEnds(t)
    PROVE  IInv'
<1> DEFINE s == th[t].session
<1>1. th[t].pc = "serving" /\ s \in Threads /\ sess[s] \in Session
  BY Zenon, SessionOf DEF InitRefused, ServingEnds, At, InSession, Listed
<1>2. /\ Goto(t, "leaving") /\ mSessions' = mSessions /\ UNCHANGED <<serverVars, aborted>>
      /\ sess' = sess \/ sess' = [sess EXCEPT ![s].triggered = TRUE]
  BY Zenon DEF InitRefused, ServingEnds
<1>3. th'[t].pc = "leaving" /\ InSessionStep(t, s)
      /\ sess'[s].mIncoming = sess[s].mIncoming
      /\ sess'[s].mMaxIncoming = sess[s].mMaxIncoming /\ sess'[s].mThreads = sess[s].mThreads
  <2> HIDE DEF s
  <2>0. s = th[t].session
    BY Zenon DEF s
  <2>1. /\ th'[t].pc = "leaving" /\ th'[t].session = th[t].session
        /\ th' \in [Threads -> ThreadState]
        /\ \A u \in Threads \ {t} : th'[u] = th[u]
    BY Zenon, <1>2 DEF Goto, IInv, TypeInv, ThreadState, InSession, Listed
  <2>2. /\ sess' \in [Threads -> Session]
        /\ \A u \in Threads \ {s} : sess'[u] = sess[u]
        /\ sess'[s].made = sess[s].made /\ sess'[s].mThreads = sess[s].mThreads
        /\ sess'[s].mIncoming = sess[s].mIncoming
        /\ sess'[s].mMaxIncoming = sess[s].mMaxIncoming
    <3>1. CASE sess' = sess
      BY Zenon, <1>1, <3>1 DEF IInv, TypeInv
    <3>2. CASE sess' = [sess EXCEPT ![s].triggered = TRUE]
      BY <1>1, <3>2, Zenon DEF IInv, TypeInv, Session
    <3> QED
      BY Zenon, <1>2, <3>1, <3>2
  <2> QED
    BY Zenon, <1>1, <1>2, <2>0, <2>1, <2>2 DEF InSessionStep, InSession, Listed
<1>4. TypeInv' /\ ChecksHold' /\ Triggered'
  BY <1>1, <1>2, <1>3, InSessionKeeps, Zenon DEF IInv, TypeInv
<1>5. mSessions' = mSessions
  BY Zenon, <1>2
<1> HIDE DEF s
<1>6. Belonging'
  <2>1. \A u \in Threads : u \in sess'[s].mIncoming
                          <=> th'[u].session = s /\ th'[u].pc \in Attached
    BY <1>1, <1>3 DEF IInv, Belonging, InSessionStep, Attached
  <2>2. \A u \in Threads : th'[u].session = s /\ th'[u].pc \in Listed => u \in sess'[s].mThreads
    BY <1>1, <1>3 DEF IInv, Belonging, InSessionStep, Listed
  <2> QED
    BY Zenon, <1>1, <1>3, <1>5, <2>1, <2>2, BelongingKept
<1>7. Stages'
  BY <1>1, <1>3, <1>5 DEF IInv, Stages, Stage, InSessionStep
<1> QED
  BY Zenon, <1>4, <1>6, <1>7 DEF IInv

(* A thread leaves mThreads; that it is in them is one of the checks.        *)
LEMMA LeaveThreadsStep ==
    ASSUME IInv, NEW t \in Threads, LeaveThreads(t)
    PROVE  IInv'
<1> DEFINE s == th[t].session
           next == IF th[t].pc = "leaving" THEN "removing" ELSE "done"
<1>1. th[t].pc \in {"leaving", "rejected"} /\ s \in Threads /\ sess[s] \in Session
  BY SessionOf, Zenon DEF LeaveThreads, At, InSession, Listed
<1>2. t \in sess[s].mThreads
  BY Zenon, <1>1 DEF IInv, Belonging, Listed
<1>3. /\ Goto(t, next) /\ mSessions' = mSessions /\ UNCHANGED <<serverVars, aborted>>
      /\ sess' = [sess EXCEPT ![s].mThreads = @ \ {t}]
  BY <1>2, Zenon DEF LeaveThreads
<1>4. th'[t].pc = next /\ InSessionStep(t, s)
      /\ sess'[s].mIncoming = sess[s].mIncoming
      /\ sess'[s].mMaxIncoming = sess[s].mMaxIncoming
      /\ sess'[s].mThreads = sess[s].mThreads \ {t}
  <2> HIDE DEF s, next
  <2>0. s = th[t].session /\ next \in {"removing", "done"}
    BY Zenon DEF s, next
  <2>1. /\ th'[t].pc = next /\ th'[t].session = th[t].session
        /\ th' \in [Threads -> ThreadState]
        /\ \A u \in Threads \ {t} : th'[u] = th[u]
    BY Zenon, <1>3, <2>0 DEF Goto, IInv, TypeInv, ThreadState, InSession, Attached
  <2>2. /\ sess' \in [Threads -> Session]
        /\ \A u \in Threads \ {s} : sess'[u] = sess[u]
        /\ sess'[s].made = sess[s].made /\ sess'[s].mThreads = sess[s].mThreads \ {t}
        /\ sess'[s].mIncoming = sess[s].mIncoming
        /\ sess'[s].mMaxIncoming = sess[s].mMaxIncoming
    BY Zenon, <1>1, <1>3 DEF IInv, TypeInv, Session
  <2> QED
    BY Zenon, <1>1, <1>3, <2>0, <2>1, <2>2 DEF InSessionStep, InSession, Listed, Attached
<1>5. TypeInv' /\ ChecksHold' /\ Triggered'
  BY <1>1, <1>3, <1>4, InSessionKeeps, Zenon DEF IInv, TypeInv
<1>6. mSessions' = mSessions
  BY Zenon, <1>3
<1>7. next = IF th[t].pc = "leaving" THEN "removing" ELSE "done"
  BY Zenon
<1> HIDE DEF s, next
<1>8. Belonging'
  <2>1. \A u \in Threads : u \in sess'[s].mIncoming
                          <=> th'[u].session = s /\ th'[u].pc \in Attached
    BY <1>1, <1>4, <1>7 DEF IInv, Belonging, InSessionStep, Attached
  <2>2. \A u \in Threads : th'[u].session = s /\ th'[u].pc \in Listed => u \in sess'[s].mThreads
    BY <1>1, <1>4, <1>7 DEF IInv, Belonging, InSessionStep, Listed
  <2> QED
    BY Zenon, <1>1, <1>4, <1>6, <2>1, <2>2, BelongingKept
<1>9. Stages'
  BY <1>1, <1>4, <1>6, <1>7 DEF IInv, Stages, Stage, InSessionStep
<1> QED
  BY Zenon, <1>5, <1>8, <1>9 DEF IInv

(* The connection leaves mIncoming; at most one thread of a session finds    *)
(* that it was the last.                                                     *)
LEMMA RemoveStep ==
    ASSUME FiniteSetFacts, IInv, NEW t \in Threads, removeIncomingConnection(t)
    PROVE  IInv'
<1> DEFINE s == th[t].session
           next == IF sess[s].mIncoming = {t} THEN "last" ELSE "done"
<1>1. th[t].pc = "removing" /\ s \in Threads /\ sess[s] \in Session
  BY SessionOf, Zenon DEF removeIncomingConnection, At, InSession, Attached
<1>2. t \in sess[s].mIncoming
  BY Zenon, <1>1 DEF IInv, Belonging, Attached
<1>3. /\ Goto(t, next) /\ mSessions' = mSessions /\ UNCHANGED <<serverVars, aborted>>
      /\ sess' = [sess EXCEPT ![s].mIncoming = @ \ {t}]
  BY <1>2, Zenon DEF removeIncomingConnection
<1>4. th'[t].pc = next /\ InSessionStep(t, s)
      /\ sess'[s].mIncoming = sess[s].mIncoming \ {t}
      /\ sess'[s].mMaxIncoming = sess[s].mMaxIncoming
      /\ sess'[s].mThreads = sess[s].mThreads
  <2> HIDE DEF s, next
  <2>0. s = th[t].session /\ next \in {"last", "done"}
    BY Zenon DEF s, next
  <2>1. /\ th'[t].pc = next /\ th'[t].session = th[t].session
        /\ th' \in [Threads -> ThreadState]
        /\ \A u \in Threads \ {t} : th'[u] = th[u]
    BY Zenon, <1>3, <2>0 DEF Goto, IInv, TypeInv, ThreadState, InSession
  <2>2. /\ sess' \in [Threads -> Session]
        /\ \A u \in Threads \ {s} : sess'[u] = sess[u]
        /\ sess'[s].made = sess[s].made /\ sess'[s].mThreads = sess[s].mThreads
        /\ sess'[s].mIncoming = sess[s].mIncoming \ {t}
        /\ sess'[s].mMaxIncoming = sess[s].mMaxIncoming
    BY Zenon, <1>1, <1>3 DEF IInv, TypeInv, Session
  <2> QED
    BY Zenon, <1>1, <1>3, <2>0, <2>1, <2>2 DEF InSessionStep, InSession, Attached
<1>5. TypeInv' /\ ChecksHold' /\ Triggered'
  <2>1. IsFiniteSet(sess[s].mIncoming \ {t})
    BY <1>1, Zenon DEF FiniteSetFacts, IInv, TypeInv, Session
  <2> QED
    BY <1>1, <1>3, <1>4, <2>1, InSessionKeeps, Zenon
<1>6. mSessions' = mSessions
  BY Zenon, <1>3
<1>7. next = IF sess[s].mIncoming = {t} THEN "last" ELSE "done"
  BY Zenon
<1> HIDE DEF s, next
<1>8. Belonging'
  <2>1. \A u \in Threads : u \in sess'[s].mIncoming
                          <=> th'[u].session = s /\ th'[u].pc \in Attached
    BY <1>1, <1>4, <1>7 DEF IInv, Belonging, InSessionStep, Attached
  <2>2. \A u \in Threads : th'[u].session = s /\ th'[u].pc \in Listed => u \in sess'[s].mThreads
    BY <1>1, <1>4, <1>7 DEF IInv, Belonging, InSessionStep, Listed
  <2> QED
    BY Zenon, <1>1, <1>4, <1>6, <2>1, <2>2, BelongingKept
<1>9. Stages'
  <2> SUFFICES ASSUME NEW x \in Threads PROVE Stage(x)'
    BY Zenon DEF Stages
  <2>1. CASE x # s
    BY <1>1, <1>4, <1>6, <2>1 DEF IInv, Stages, Stage, InSessionStep
  <2>2. CASE x = s
    <3>1. s \in mSessions /\ sess[s].mMaxIncoming > 0
          /\ \A u \in Threads : th[u].session = s => th[u].pc # "last"
      BY <1>1, <1>2 DEF IInv, Stages, Stage
    <3>2. \A u \in Threads : th'[u].session = s /\ th'[u].pc = "last"
                            => u = t /\ sess[s].mIncoming = {t}
      BY Zenon, <1>4, <1>7, <3>1 DEF InSessionStep
    <3>3. sess'[s].mIncoming = {} => th'[t].session = s /\ th'[t].pc = "last"
      BY Zenon, <1>2, <1>4, <1>7 DEF InSessionStep
    <3>4. sess'[s].mMaxIncoming > 0 /\ sess'[s].mMaxIncoming # 0
      BY <1>1, <1>4, <3>1 DEF Session
    <3> QED
      BY Zenon, <1>4, <1>6, <2>2, <3>1, <3>2, <3>3, <3>4 DEF Stage
  <2> QED
    BY Zenon, <2>1, <2>2
<1> QED
  BY Zenon, <1>5, <1>8, <1>9 DEF IInv

(* The session leaves the map, which it is still in.                         *)
LEMMA EndedStep ==
    ASSUME IInv, NEW t \in Threads, onSessionAllIncomingThreadsEnded(t)
    PROVE  IInv'
<1> DEFINE s == th[t].session
<1>1. th[t].pc = "last" /\ s \in Threads /\ sess[s] \in Session
  BY SessionOf, Zenon DEF onSessionAllIncomingThreadsEnded, At, InSession
<1>2. s \in mSessions /\ sess[s].mIncoming = {} /\ sess[s].mMaxIncoming > 0
      /\ \A u \in Threads : th[u].session = s /\ th[u].pc = "last" => u = t
  BY <1>1 DEF IInv, Stages, Stage
<1>3. /\ Goto(t, "done") /\ mSessions' = mSessions \ {s} /\ sess' = sess
      /\ UNCHANGED <<serverVars, aborted>>
  BY <1>2, Zenon DEF onSessionAllIncomingThreadsEnded
<1>4. th'[t].pc = "done" /\ InSessionStep(t, s)
  BY <1>1, <1>3 DEF Goto, InSessionStep, IInv, TypeInv, ThreadState, InSession
<1>5. TypeInv' /\ ChecksHold' /\ Triggered'
  BY Zenon, <1>1, <1>3, <1>4, InSessionKeeps DEF IInv, TypeInv
<1>6. mSessions' = mSessions \ {s} /\ sess' = sess
  BY Zenon, <1>3
<1> HIDE DEF s
<1>7. Belonging'
  <2>1. \A u \in Threads : u \in sess'[s].mIncoming
                          <=> th'[u].session = s /\ th'[u].pc \in Attached
    BY <1>1, <1>4, <1>6 DEF IInv, Belonging, InSessionStep, Attached
  <2>2. \A u \in Threads : th'[u].session = s /\ th'[u].pc \in Listed => u \in sess'[s].mThreads
    BY <1>1, <1>4, <1>6 DEF IInv, Belonging, InSessionStep, Listed
  <2> QED
    BY Zenon, <1>1, <1>4, <1>6, <2>1, <2>2, BelongingKept
<1>8. Stages'
  BY <1>1, <1>2, <1>4, <1>6 DEF IInv, Stages, Stage, InSessionStep
<1> QED
  BY Zenon, <1>5, <1>7, <1>8 DEF IInv

(* Every step of the server keeps the invariant, and so does a stutter.      *)
LEMMA NextIInv ==
    ASSUME EmptySetFacts, FiniteSetFacts, IInv, [Next]_vars
    PROVE  IInv'
<1>1. CASE UNCHANGED vars
  <2>1. TypeInv' /\ ChecksHold' /\ Triggered'
    BY <1>1, Zenon DEF vars, IInv, TypeInv, ChecksHold, Triggered
  <2>2. Belonging'
    BY Zenon, <1>1 DEF vars, IInv, Belonging
  <2>3. Stages'
    BY <1>1 DEF vars, IInv, Stages, Stage
  <2> QED
    BY Zenon, <2>1, <2>2, <2>3 DEF IInv
<1>2. CASE join \/ triggerablePoll \/ JoinExit
  BY Zenon, <1>2, ServerSteps
<1>3. CASE \E c \in Callers : shutdown(c) \/ ShutdownReturns(c) \/ ShutdownAgain(c)
  BY Zenon, <1>3, ServerSteps
<1>4. CASE Accept
  BY Zenon, <1>4, AcceptStep
<1>5. CASE \E t \in Threads : Steps(t) \/ InitRefused(t) \/ ServingEnds(t)
  <2>1. PICK t \in Threads : Steps(t) \/ InitRefused(t) \/ ServingEnds(t)
    BY Zenon, <1>5
  <2> QED
    BY Zenon, <2>1, ReadHeaderStep, EstablishStep, PreJoinStep, ServingEndsStep, LeaveThreadsStep,
       RemoveStep, EndedStep DEF Steps
<1> QED
  BY Zenon, <1>1, <1>2, <1>3, <1>4, <1>5 DEF Next

LEMMA IInvIsSound == IInv => LifeCycleSound
<1> SUFFICES ASSUME IInv PROVE LifeCycleSound
  BY Zenon
<1>1. ChecksHold
  BY Zenon DEF IInv
<1>2. TriggerOutlivesConnecting
  BY Zenon DEF IInv, Triggered, Connecting, TriggerOutlivesConnecting
<1>3. SessionsAttended
  <2> SUFFICES ASSUME NEW s \in Threads
               PROVE  IF s \in mSessions
                      THEN \E t \in Threads :
                             /\ th[t].session = s
                             /\ th[t].pc \in {"prejoin", "serving", "leaving", "removing", "last"}
                      ELSE sess[s].mIncoming = {}
    BY Zenon DEF SessionsAttended
  <2>1. sess[s].mMaxIncoming \in Nat /\ sess[s].mIncoming \subseteq Threads
    BY Zenon DEF IInv, TypeInv, Session
  <2>2. CASE sess[s].mIncoming # {}
    BY <2>1, <2>2 DEF IInv, Belonging, Stages, Stage, Attached
  <2>3. CASE sess[s].mIncoming = {}
    BY <2>1, <2>3 DEF IInv, Stages, Stage
  <2> QED
    BY Zenon, <2>2, <2>3
<1> QED
  BY Zenon, <1>1, <1>2, <1>3 DEF LifeCycleSound

INSTANCE FiniteSetTheorems

LEMMA FiniteSetsBehave == EmptySetFacts /\ FiniteSetFacts
<1>1. EmptySetFacts
  BY FS_EmptySet, Zenon DEF EmptySetFacts
<1>2. ASSUME NEW S \in SUBSET Threads, IsFiniteSet(S), NEW x \in Threads
      PROVE  Cardinality(S) \in Nat /\ IsFiniteSet(S \cup {x}) /\ IsFiniteSet(S \ {x})
  BY <1>2, FS_CardinalityType, FS_AddElement, FS_RemoveElement, Zenon
<1>3. ASSUME NEW S \in SUBSET Threads, IsFiniteSet(S) PROVE Cardinality(S) \in Nat
  BY <1>3, FS_CardinalityType, Zenon
<1> QED
  BY <1>1, <1>2, <1>3, Zenon DEF FiniteSetFacts

(* However many connections come and go, and however shutdown() is called    *)
(* between them: no fatal check of RpcServer::establishConnection,           *)
(* RpcSession::join, removeIncomingConnection or                             *)
(* onSessionAllIncomingThreadsEnded fires, the shutdown trigger outlives     *)
(* the threads that wait on it, and a session in the server's map has a      *)
(* thread that will take it out.                                             *)
THEOREM LifeCycleIsSound == Spec => []LifeCycleSound
<1>1. Init => IInv
  BY Zenon, InitIInv, FiniteSetsBehave
<1>2. IInv /\ [Next]_vars => IInv'
  BY Zenon, NextIInv, FiniteSetsBehave
<1> QED
  BY <1>1, <1>2, IInvIsSound, PTL DEF Spec
=============================================================================
