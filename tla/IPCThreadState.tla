--------------------------- MODULE IPCThreadState ---------------------------
(* The binder threads of a process (IPCThreadState.cpp, ProcessState.cpp):    *)
(* how the pool grows, serves calls and is taken down, who waits for a free   *)
(* thread, and on whose behalf a thread acts while calls nest on it.          *)
(* A thread has a stack of frames, the innermost first.  The driver and the   *)
(* bodies of the calls are external.                                          *)
EXTENDS Integers, Sequences, FiniteSets

CONSTANTS Threads,     \* threads that may join the pool
          MainThread,  \* the one among them that is not made by the pool
          Blockers,    \* other threads, which call blockUntilThreadAvailable
          Senders,     \* [pid, uid, sid, workSource, policy] that come with a call
          WorkSources, \* what handlers attribute their calls to
          Own,         \* [pid, uid] of this process
          None,
          Scenarios    \* bounds: [maxThreads, raises, starts, senders, oneways, calls,
                       \*          outgoing, changes, depth, blocks, exits]

kUnsetWorkSource == -1

ASSUME OneMainThread == MainThread \in Threads /\ IsFiniteSet(Threads)

(* A pid_t of a process and a uid_t are not negative; only a work source may *)
(* be unset.                                                                 *)
ASSUME CallersNamed ==
  /\ Own.pid \in Nat /\ Own.uid \in Nat
  /\ \A s \in Senders : /\ s.pid \in Nat /\ s.uid \in Nat
                        /\ s.workSource \in Nat \cup {kUnsetWorkSource}
  /\ WorkSources \subseteq Nat

VARIABLES mMaxThreads, mThreadPoolStarted, mThreadPoolSet, mExitRequested,
          mExecutingThreadsCount, mWaitingForThreads,
          at,       \* [Threads -> where the thread is in joinThreadPool]
          mIn,      \* [Threads -> commands read and not executed]
          mOut,     \* [Threads -> commands of joinThreadPool not yet written]
          stack,    \* [Threads -> frames]
          id,       \* [Threads -> the fields a call changes]
          blocker,  \* [Blockers -> where blockUntilThreadAvailable is]
          exit,     \* where requestExit is, who called it, who joined too late for it
          driver,   \* the threads it asked for and got
          left      \* what may still happen

pool == <<mMaxThreads, mThreadPoolStarted, mThreadPoolSet, mExitRequested>>
counts == <<mExecutingThreadsCount, mWaitingForThreads, blocker>>
calls == <<mIn, stack, id>>
vars == <<pool, counts, at, mOut, calls, exit, driver, left>>

(* The state of a thread that serves nothing.  An address on its stack is the *)
(* number of frames below it, and 0 the null pointer.                         *)
Unserving == [mCallingPid |-> Own.pid, mCallingUid |-> Own.uid, mCallingSid |-> None,
              mWorkSource |-> kUnsetWorkSource, mPropagateWorkSource |-> FALSE,
              mStrictModePolicy |-> 0, oneway |-> FALSE, mServingStackPointer |-> 0]

Init ==
  \E s \in Scenarios :
    /\ mMaxThreads = s.maxThreads
    /\ mThreadPoolStarted = FALSE /\ mThreadPoolSet = {} /\ mExitRequested = FALSE
    /\ mExecutingThreadsCount = 0 /\ mWaitingForThreads = 0
    /\ at = [t \in Threads |-> "outside"]
    /\ mIn = [t \in Threads |-> <<>>]
    /\ mOut = [t \in Threads |-> <<>>]
    /\ stack = [t \in Threads |-> <<>>]
    /\ id = [t \in Threads |-> Unserving]
    /\ blocker = [b \in Blockers |-> "free"]
    /\ exit = [at |-> "no", by |-> None, late |-> {}]
    /\ driver = [requested |-> FALSE, started |-> 0, ignored |-> FALSE]
    /\ left = s

Spend(what) == left[what] > 0 /\ left' = [left EXCEPT ![what] = @ - 1]

Depth(t) == Len(stack[t])
Top(t) == Head(stack[t])
In(t, kinds) == stack[t] # <<>> /\ Top(t).kind \in kinds
Push(t, frame) == stack' = [stack EXCEPT ![t] = <<frame>> \o @]
Pop(t) == stack' = [stack EXCEPT ![t] = Tail(@)]

(* The code of a handler runs on t, unless it is in requestExit.             *)
InHandler(t) == /\ In(t, {"serving", "identity", "workSource"})
                /\ exit.by = t => exit.at \in {"no", "done"}

----------------------------------------------------------------------------
(* The pool.                                                                 *)

(* joinThreadPool(isMain) of a PoolThread announces it in one of two ways.   *)
SpawnedAs(isMain) == IF isMain THEN "spawnedMain" ELSE "spawned"

(* Thread names carry no meaning: any one that is free.                      *)
Free == {t \in Threads \ {MainThread} : at[t] = "outside"}
spawnPooledThread(isMain) ==
  /\ Free # {}
  /\ at' = [at EXCEPT ![CHOOSE t \in Free : TRUE] = SpawnedAs(isMain)]

StartsPool == ~mThreadPoolStarted

(* A program does not start the pool after it has asked to exit.             *)
startThreadPool ==
  /\ exit.at = "no" /\ Spend("starts")
  /\ IF StartsPool THEN /\ mThreadPoolStarted' = TRUE
                        /\ spawnPooledThread(TRUE)
     ELSE UNCHANGED <<mThreadPoolStarted, at>>
  /\ UNCHANGED <<mMaxThreads, mThreadPoolSet, mExitRequested, counts, mOut, calls, exit, driver>>

(* The number only grows once the pool is started.                           *)
setThreadPoolMaxThreadCount ==
  /\ Spend("raises")
  /\ mMaxThreads' = mMaxThreads + 1
  /\ UNCHANGED <<mThreadPoolStarted, mThreadPoolSet, mExitRequested, counts, at, mOut, calls, exit, driver>>

(* joinThreadPool up to its loop: registerThread.                            *)
joinThreadPool(t) ==
  /\ at[t] \in {"spawned", "spawnedMain"} \/ (t = MainThread /\ at[t] = "outside" /\ exit.by # t)
  /\ mThreadPoolSet' = mThreadPoolSet \cup {t}
  /\ mOut' = [mOut EXCEPT ![t] = <<IF at[t] = "spawned" THEN "BC_REGISTER_LOOPER" ELSE "BC_ENTER_LOOPER">>]
  /\ at' = [at EXCEPT ![t] = "top"]
  /\ exit' = IF exit.at = "flushed" THEN [exit EXCEPT !.late = @ \cup {t}] ELSE exit
  /\ UNCHANGED <<mMaxThreads, mThreadPoolStarted, mExitRequested, counts, calls, driver, left>>

(* The driver counts the threads it asked for.                               *)
Registers(t) == \E i \in DOMAIN mOut[t] : mOut[t][i] = "BC_REGISTER_LOOPER"
Announced(t) == IF Registers(t) THEN [driver EXCEPT !.requested = FALSE, !.started = @ + 1] ELSE driver
Writes(t) == /\ driver' = Announced(t)
             /\ mOut' = [mOut EXCEPT ![t] = <<>>]

(* The top of the loop, up to where talkWithDriver waits; what was read      *)
(* before is executed first.                                                 *)
LoopTop(t) ==
  /\ at[t] = "top"
  /\ \/ /\ mExitRequested
        /\ at' = [at EXCEPT ![t] = "leaving"]
        /\ UNCHANGED <<driver, mOut>>
     \/ /\ ~mExitRequested /\ mIn[t] # <<>>
        /\ at' = [at EXCEPT ![t] = "busy"]
        /\ UNCHANGED <<driver, mOut>>
     \/ /\ ~mExitRequested /\ mIn[t] = <<>>
        /\ at' = [at EXCEPT ![t] = "waiting"]
        /\ Writes(t)
  /\ UNCHANGED <<pool, counts, calls, exit, left>>

(* The end of joinThreadPool: unregisterThread.                              *)
leaveThreadPool(t) ==
  /\ at[t] = "leaving"
  /\ at' = [at EXCEPT ![t] = "left"]
  /\ Writes(t)
  /\ mThreadPoolSet' = mThreadPoolSet \ {t}
  /\ UNCHANGED <<mMaxThreads, mThreadPoolStarted, mExitRequested, counts, calls, exit, left>>

----------------------------------------------------------------------------
(* Commands.                                                                 *)

(* The driver asks for a thread with the call that takes the last one.       *)
AsksForThread(t) == /\ ~driver.requested
                    /\ driver.started < mMaxThreads
                    /\ \A u \in Threads \ {t} : at[u] # "waiting"

(* talkWithDriver returns with a call, at the top level or, for a call that  *)
(* the thread's own call led to, in waitForResponse.                         *)
ReadCall(t, s, oneway) ==
  /\ \/ at[t] = "waiting"
     \/ In(t, {"calling"}) /\ mIn[t] = <<>> /\ ~oneway /\ Depth(t) < left.depth
  /\ s \in left.senders /\ oneway \in left.oneways
  /\ Spend("calls")
  /\ at' = [at EXCEPT ![t] = "busy"]
  /\ mIn' = [mIn EXCEPT ![t] = (IF AsksForThread(t) THEN <<[cmd |-> "BR_SPAWN_LOOPER"]>> ELSE <<>>)
                               \o <<[cmd |-> "BR_TRANSACTION", from |-> s, oneway |-> oneway]>>]
  /\ driver' = [driver EXCEPT !.requested = @ \/ AsksForThread(t)]
  /\ UNCHANGED <<pool, counts, mOut, stack, id, exit>>

(* Faulty variant: the flag is reset before clearCallingWorkSource sets it.  *)
ServingAsPropagating(t, tr) ==
  [id[t] EXCEPT !.mCallingPid = IF tr.oneway THEN 0 ELSE tr.from.pid, !.mCallingUid = tr.from.uid,
                !.mCallingSid = tr.from.sid, !.oneway = tr.oneway,
                !.mWorkSource = kUnsetWorkSource, !.mPropagateWorkSource = TRUE,
                !.mServingStackPointer = Depth(t) + 1]

(* The thread acts for the sender, whose work source is not passed on.  The  *)
(* driver gives no pid with a oneway call.                                   *)
ServingAs(t, tr) ==
  [id[t] EXCEPT !.mCallingPid = IF tr.oneway THEN 0 ELSE tr.from.pid, !.mCallingUid = tr.from.uid,
                !.mCallingSid = tr.from.sid, !.oneway = tr.oneway,
                !.mWorkSource = kUnsetWorkSource, !.mPropagateWorkSource = FALSE,
                !.mServingStackPointer = Depth(t) + 1]

(* enforceInterface, with which a generated stub starts and others may do     *)
(* without: the policy and the work source of the caller, for itself only.   *)
enforceInterface(now, tr) ==
  [now EXCEPT !.mStrictModePolicy = IF now.oneway THEN 0 ELSE tr.from.policy,
              !.mWorkSource = tr.from.workSource]

(* executeCommand up to the code of the object, or for BR_SPAWN_LOOPER to    *)
(* its end, in getAndExecuteCommand or waitForResponse.                      *)
BeginCommand(t) ==
  /\ mIn[t] # <<>> /\ at[t] = "busy"
  /\ stack[t] = <<>> \/ In(t, {"calling"})
  /\ mIn' = [mIn EXCEPT ![t] = Tail(@)]
  /\ mExecutingThreadsCount' = IF stack[t] = <<>> THEN mExecutingThreadsCount + 1 ELSE mExecutingThreadsCount
  /\ LET c == Head(mIn[t]) IN
       \/ /\ c.cmd = "BR_SPAWN_LOOPER"
          /\ Push(t, [kind |-> "spawning"])
          /\ IF mThreadPoolStarted
             THEN spawnPooledThread(FALSE) /\ UNCHANGED driver
             ELSE driver' = [driver EXCEPT !.ignored = TRUE] /\ UNCHANGED at
          /\ UNCHANGED id
       \/ /\ c.cmd = "BR_TRANSACTION"
          /\ Push(t, [kind |-> "serving", orig |-> id[t]])
          /\ \/ id' = [id EXCEPT ![t] = ServingAs(t, c)]
             \/ id' = [id EXCEPT ![t] = enforceInterface(ServingAs(t, c), c)]
          /\ UNCHANGED <<at, driver>>
  /\ UNCHANGED <<pool, mWaitingForThreads, blocker, mOut, exit, left>>

(* Faulty variant: one waiter is woken.                                      *)
WokenOne == LET asleep == {b \in Blockers : blocker[b] = "asleep"} IN
            [b \in Blockers |-> IF asleep # {} /\ b = CHOOSE a \in asleep : TRUE THEN "woken" ELSE blocker[b]]

(* pthread_cond_broadcast, which is only called if mWaitingForThreads says   *)
(* that there is somebody.                                                   *)
Woken == IF mWaitingForThreads > 0
         THEN [b \in Blockers |-> IF blocker[b] = "asleep" THEN "woken" ELSE blocker[b]]
         ELSE blocker

RestoredTo(t, orig) == orig

(* getAndExecuteCommand counts, waitForResponse does not.                    *)
TopLevel(rest) == rest = <<>>

(* The frame of the command that is executed; a handler may have left tokens *)
(* unused.                                                                   *)
Commands(t) == {i \in 1 .. Depth(t) : stack[t][i].kind \in {"serving", "spawning", "calling"}}
IsInnermost(t, i) == i \in Commands(t) /\ \A j \in Commands(t) : i <= j

(* executeCommand after the call of the object, with sendReply, to the end   *)
(* of getAndExecuteCommand.                                                  *)
EndCommand(t) ==
  /\ InHandler(t) \/ In(t, {"spawning"})
  /\ \E i \in 1 .. Depth(t) :
       /\ IsInnermost(t, i)
       /\ LET frame == stack[t][i]
              rest == SubSeq(stack[t], i + 1, Depth(t))
          IN  /\ stack' = [stack EXCEPT ![t] = rest]
              /\ id' = IF frame.kind = "serving" THEN [id EXCEPT ![t] = RestoredTo(t, frame.orig)] ELSE id
              /\ at' = IF rest = <<>> THEN [at EXCEPT ![t] = "top"] ELSE at
              /\ mExecutingThreadsCount' = mExecutingThreadsCount - (IF TopLevel(rest) THEN 1 ELSE 0)
              /\ blocker' = IF TopLevel(rest) THEN Woken ELSE blocker
  /\ UNCHANGED <<pool, mWaitingForThreads, mOut, mIn, exit, driver, left>>

----------------------------------------------------------------------------
(* What the code of a handler does.                                          *)

(* writeInterfaceToken: the work source that goes with a call.               *)
Header(t) == IF id[t].mPropagateWorkSource THEN id[t].mWorkSource ELSE kUnsetWorkSource

(* A change that is undone later: the frame remembers how.                   *)
Change(t, frame) ==
  /\ InHandler(t) /\ Depth(t) < left.depth
  /\ Spend("changes")
  /\ Push(t, frame)
  /\ UNCHANGED <<pool, counts, at, mOut, mIn, exit, driver>>
Undo(t, kind) ==
  /\ InHandler(t) /\ Top(t).kind = kind
  /\ Pop(t)
  /\ UNCHANGED <<pool, counts, at, mOut, mIn, exit, driver, left>>

(* The token is ((int64_t)mCallingUid << 32) | mCallingPid: a negative pid    *)
(* would run over the uid.                                                   *)
IdentityToken(pid, uid) == [low |-> pid, high |-> IF pid < 0 THEN -1 ELSE uid]

clearCallingIdentity(t) ==
  /\ Change(t, [kind |-> "identity", was |-> <<id[t].mCallingPid, id[t].mCallingUid>>,
                token |-> IdentityToken(id[t].mCallingPid, id[t].mCallingUid)])
  /\ id' = [id EXCEPT ![t] = [@ EXCEPT !.mCallingPid = Own.pid, !.mCallingUid = Own.uid, !.mCallingSid = None]]

restoreCallingIdentity(t) ==
  /\ Undo(t, "identity")
  /\ id' = [id EXCEPT ![t] = [@ EXCEPT !.mCallingPid = Top(t).token.low, !.mCallingUid = Top(t).token.high,
                                       !.mCallingSid = None]]

(* The token is propagatedBit | mWorkSource, with the bit at 32: the sign of *)
(* kUnsetWorkSource runs over the bit.                                       *)
WorkSourceToken(workSource, propagate) == [low |-> workSource, bit |-> propagate \/ workSource < 0]

(* clearCallingWorkSource sets kUnsetWorkSource.                             *)
setCallingWorkSourceUid(t, uid) ==
  /\ Change(t, [kind |-> "workSource", was |-> Header(t),
                token |-> WorkSourceToken(id[t].mWorkSource, id[t].mPropagateWorkSource)])
  /\ id' = [id EXCEPT ![t] = [@ EXCEPT !.mWorkSource = uid, !.mPropagateWorkSource = TRUE]]

(* Faulty variant: the flag is not taken from the token.                     *)
PropagateStays(t) == id[t].mPropagateWorkSource

PropagateRestored(t) == Top(t).token.bit

restoreCallingWorkSource(t) ==
  /\ Undo(t, "workSource")
  /\ id' = [id EXCEPT ![t] = [@ EXCEPT !.mWorkSource = Top(t).token.low, !.mPropagateWorkSource = PropagateRestored(t)]]

(* transact: a call, until waitForResponse returns.                          *)
transact(t) ==
  /\ InHandler(t) /\ Depth(t) < left.depth
  /\ Spend("outgoing")
  /\ Push(t, [kind |-> "calling", was |-> id[t], header |-> Header(t)])
  /\ UNCHANGED <<pool, counts, at, mOut, mIn, id, exit, driver>>

ReadReply(t) ==
  /\ In(t, {"calling"}) /\ mIn[t] = <<>>
  /\ Pop(t)
  /\ UNCHANGED <<pool, counts, at, mOut, mIn, id, exit, driver, left>>

----------------------------------------------------------------------------
(* blockUntilThreadAvailable: mThreadCountLock is held but for the wait.     *)
Blocks(b) ==
  IF mExecutingThreadsCount >= mMaxThreads
  THEN blocker' = [blocker EXCEPT ![b] = "asleep"]
  ELSE blocker' = [blocker EXCEPT ![b] = "free"]

blockUntilThreadAvailable(b) ==
  /\ blocker[b] = "free"
  /\ Spend("blocks")
  /\ Blocks(b)
  /\ mWaitingForThreads' = mWaitingForThreads + (IF blocker'[b] = "free" THEN 0 ELSE 1)
  /\ UNCHANGED <<pool, mExecutingThreadsCount, at, mOut, calls, exit, driver>>

BlockerWakes(b) ==
  /\ blocker[b] = "woken"
  /\ Blocks(b)
  /\ mWaitingForThreads' = mWaitingForThreads - (IF blocker'[b] = "free" THEN 1 ELSE 0)
  /\ UNCHANGED <<pool, mExecutingThreadsCount, at, mOut, calls, exit, driver, left>>

----------------------------------------------------------------------------
(* requestExit, of the main thread or of a handler.                          *)
requestExit(t) ==
  /\ exit.at = "no"
  /\ (t = MainThread /\ at[t] = "outside") \/ InHandler(t)
  /\ Spend("exits")
  /\ mThreadPoolStarted' = FALSE
  /\ exit' = [exit EXCEPT !.at = "flush", !.by = t]
  /\ UNCHANGED <<mMaxThreads, mThreadPoolSet, mExitRequested, counts, at, mOut, calls, driver>>

(* BIOC_FLUSH: the threads that wait in the driver come back with            *)
(* ECONNREFUSED, which ends their loops.                                     *)
FlushThreads ==
  /\ exit.at = "flush"
  /\ at' = [t \in Threads |-> IF at[t] = "waiting" THEN "leaving" ELSE at[t]]
  /\ exit' = [exit EXCEPT !.at = "check"]
  /\ UNCHANGED <<pool, counts, mOut, calls, driver, left>>

(* Faulty variant: the threads are flushed once.                             *)
FlushedOnce == FALSE

(* mThreadPoolSet.size() > remain                                            *)
ThreadsRemain == Cardinality(mThreadPoolSet) > Cardinality(mThreadPoolSet \cap {exit.by})

CheckThreads ==
  /\ exit.at = "check"
  /\ exit' = [exit EXCEPT !.at = IF ThreadsRemain THEN "flush" ELSE "flushed"]
  /\ UNCHANGED <<pool, counts, at, mOut, calls, driver, left>>

SetExitRequested ==
  /\ exit.at = "flushed"
  /\ mExitRequested' = TRUE
  /\ exit' = [exit EXCEPT !.at = "done"]
  /\ UNCHANGED <<mMaxThreads, mThreadPoolStarted, mThreadPoolSet, counts, at, mOut, calls, driver, left>>

Exit == FlushThreads \/ CheckThreads \/ SetExitRequested

(* What a thread of the pool does of its own accord.                         *)
Run(t) == joinThreadPool(t) \/ LoopTop(t) \/ leaveThreadPool(t) \/ BeginCommand(t)

Handle(t) == \/ transact(t) \/ requestExit(t)
             \/ clearCallingIdentity(t) \/ restoreCallingIdentity(t)
             \/ \E uid \in WorkSources \cup {kUnsetWorkSource} : setCallingWorkSourceUid(t, uid)
             \/ restoreCallingWorkSource(t)

Next ==
  \/ startThreadPool \/ setThreadPoolMaxThreadCount \/ Exit
  \/ \E t \in Threads : \/ Run(t) \/ Handle(t) \/ EndCommand(t) \/ ReadReply(t)
                        \/ \E s \in Senders, oneway \in BOOLEAN : ReadCall(t, s, oneway)
  \/ \E b \in Blockers : blockUntilThreadAvailable(b) \/ BlockerWakes(b)

Spec == Init /\ [][Next]_vars

(* Threads run, handlers end and calls are answered.                         *)
FairSpec == /\ Spec
            /\ WF_vars(Exit)
            /\ \A t \in Threads : /\ WF_vars(Run(t)) /\ WF_vars(EndCommand(t)) /\ WF_vars(ReadReply(t))
            /\ \A b \in Blockers : WF_vars(BlockerWakes(b))

----------------------------------------------------------------------------
(* Properties.                                                               *)

(* A thread the driver has asked for is on its way, unless spawnPooledThread *)
(* ignored the request because the pool was not started: until the thread    *)
(* registers the driver does not ask for another.                            *)
RequestsAnswered ==
  driver.requested /\ ~driver.ignored
  => \E t \in Threads : \/ at[t] = "spawned"
                        \/ Registers(t)
                        \/ \E i \in DOMAIN mIn[t] : mIn[t][i].cmd = "BR_SPAWN_LOOPER"

(* A thread acts for itself between calls, and after a nested call on behalf *)
(* of whom it did before, whatever the handlers changed and left changed.    *)
IdentityRestored ==
  \A t \in Threads : /\ stack[t] = <<>> => id[t] = Unserving
                     /\ In(t, {"calling"}) => id[t] = Top(t).was

(* The frames of the handler that made the call at i.                        *)
Handler(t, i) == {j \in i .. Depth(t) : \A k \in i + 1 .. j : stack[t][k].kind # "serving"}

(* "we reset the work source here to never propagate it": a call carries a   *)
(* work source only if the handler that makes it has set one.                *)
HeaderOnlyIfSet ==
  \A t \in Threads : \A i \in 1 .. Depth(t) :
    stack[t][i].kind = "calling" /\ stack[t][i].header # kUnsetWorkSource
    => \E j \in Handler(t, i) : stack[t][j].kind = "workSource"

(* A handler acts for its caller and a call carries what its maker set.      *)
IdentityKept == IdentityRestored /\ HeaderOnlyIfSet

(* A token brings back the caller, and the work source that goes with calls. *)
TokensRestore ==
  [][\A t \in Threads :
       /\ restoreCallingIdentity(t) => <<id'[t].mCallingPid, id'[t].mCallingUid>> = Top(t).was
       /\ restoreCallingWorkSource(t) => Header(t)' = Top(t).was]_vars

(* When requestExit is done the threads of the pool have left, but for its   *)
(* own and those that registered between its last look and the flag; and a   *)
(* call that was read is executed, but by such a thread.                     *)
OnlyLateThreadsStay ==
  /\ exit.at \in {"flushed", "done"}
     => \A t \in mThreadPoolSet : t = exit.by \/ t \in exit.late \/ at[t] \in {"top", "leaving"}
  /\ \A t \in Threads \ exit.late : at[t] = "left" => mIn[t] = <<>>

(* The pool grows as the driver asks and is gone when requestExit is done.   *)
PoolSound == RequestsAnswered /\ OnlyLateThreadsStay

(* requestExit returns although calls keep threads busy.                     *)
ExitReturns == exit.at = "flush" ~> exit.at = "done"

(* "Call blocks until the number of executing binder threads is less than    *)
(* the maximum": nobody is forgotten.                                        *)
BlockersReturn == \A b \in Blockers : blocker[b] # "free" ~> blocker[b] = "free"

(* Whoever waits for the threads of the pool comes back.                     *)
WaitersReturn == ExitReturns /\ BlockersReturn
=============================================================================
