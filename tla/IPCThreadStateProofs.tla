------------------------ MODULE IPCThreadStateProofs ------------------------
(* Proofs about IPCThreadState: on whose behalf a thread acts comes back      *)
(* after every call, a work source goes only with the calls of the handler    *)
(* that set it, the tokens restore what they were made from, and the pool     *)
(* answers the driver and is gone when requestExit is done.                   *)
EXTENDS IPCThreadState, TLAPS

USE SMTT(20)

----------------------------------------------------------------------------
(* The stacks of frames: every frame is tied to the one below it, so that    *)
(* what a thread acts as comes back when a frame is left.  What each step    *)
(* makes of one thread's stack, and that it stays so tied.  Then the         *)
(* inductive invariant, and that the steps of handlers and those of          *)
(* joinThreadPool keep it.                                                   *)
WorkSource == Nat \cup {kUnsetWorkSource}

Sids == {None} \cup {s.sid : s \in Senders}
Policies == {0} \cup {s.policy : s \in Senders}

Ids == [mCallingPid : Nat, mCallingUid : Nat, mCallingSid : Sids,
        mWorkSource : WorkSource, mPropagateWorkSource : BOOLEAN,
        mStrictModePolicy : Policies, oneway : BOOLEAN, mServingStackPointer : Nat]

Frame == [kind : {"spawning"}] \cup [kind : {"serving"}, orig : Ids]
         \cup [kind : {"identity"}, was : Nat \X Nat, token : [low : Nat, high : Nat]]
         \cup [kind : {"workSource"}, was : WorkSource, token : [low : WorkSource, bit : BOOLEAN]]
         \cup [kind : {"calling"}, was : Ids, header : WorkSource]

CommandIn == [cmd : {"BR_SPAWN_LOOPER"}]
             \cup [cmd : {"BR_TRANSACTION"}, from : Senders, oneway : BOOLEAN]

Place == {"outside", "spawned", "spawnedMain", "top", "busy", "waiting", "leaving", "left"}

ExitState == [at : {"no", "flush", "check", "flushed", "done"}, by : Threads \cup {None},
              late : SUBSET Threads]

(* The types of the variables the theorems are about.                        *)
DriverState == [requested : BOOLEAN, started : Nat, ignored : BOOLEAN]
TypeOK ==
  /\ mExitRequested \in BOOLEAN /\ mThreadPoolSet \in SUBSET Threads
  /\ at \in [Threads -> Place]
  /\ mIn \in [Threads -> Seq(CommandIn)]
  /\ mOut \in [Threads -> Seq({"BC_REGISTER_LOOPER", "BC_ENTER_LOOPER"})]
  /\ stack \in [Threads -> Seq(Frame)]
  /\ id \in [Threads -> Ids]
  /\ exit \in ExitState
  /\ driver \in DriverState

HandlerKinds == {"serving", "identity", "workSource"}

(* What goes with a call made as now.                                        *)
HeaderOf(now) == IF now.mPropagateWorkSource THEN now.mWorkSource ELSE kUnsetWorkSource

(* From i on, the frames of one handler hold a work source.                  *)
HasSet(s, i) == \E j \in i .. Len(s) : /\ s[j].kind = "workSource"
                                       /\ \A k \in i .. j : s[k].kind # "serving"

(* A command is executed at the top level or in waitForResponse, and the     *)
(* rest is the doing of a handler.                                           *)
Placed(s, i) ==
  IF s[i].kind \in {"serving", "spawning"}
  THEN i < Len(s) => s[i + 1].kind = "calling"
  ELSE i < Len(s) /\ s[i + 1].kind \in HandlerKinds

(* A frame holds what is to come back when it is left.                       *)
FrameSound(s, i) ==
  /\ Placed(s, i)
  /\ s[i].kind = "serving" => s[i].orig = IF i < Len(s) THEN s[i + 1].was ELSE Unserving
  /\ s[i].kind = "identity" => <<s[i].token.low, s[i].token.high>> = s[i].was
  /\ s[i].kind = "workSource" => /\ s[i].was = IF s[i].token.bit THEN s[i].token.low ELSE kUnsetWorkSource
                                 /\ s[i].was # kUnsetWorkSource => HasSet(s, i + 1)
  /\ s[i].kind = "calling" => /\ s[i].header = HeaderOf(s[i].was)
                              /\ s[i].header # kUnsetWorkSource => HasSet(s, i + 1)
FramesSound(s) == \A i \in 1 .. Len(s) : FrameSound(s, i)

(* The thread acts as the innermost frame says.                              *)
TopSound(s, now) ==
  IF s = <<>> THEN now = Unserving
  ELSE /\ s[1].kind = "calling" => now = s[1].was
       /\ s[1].kind = "spawning" => now = IF Len(s) = 1 THEN Unserving ELSE s[2].was
       /\ s[1].kind \in HandlerKinds => (HeaderOf(now) # kUnsetWorkSource => HasSet(s, 1))

StackSound(s, now) == FramesSound(s) /\ TopSound(s, now)

StacksSound == \A t \in Threads : StackSound(stack[t], id[t])

----------------------------------------------------------------------------
(* Sequences.                                                                *)

(* d is s without its first k elements.                                      *)
IsDrop(d, s, k) == /\ k \in 0 .. Len(s) /\ Len(d) = Len(s) - k
                   /\ \A i \in 1 .. Len(d) : d[i] = s[i + k]
                   /\ \A j \in k + 1 .. Len(s) : d[j - k] = s[j]

(* What Push makes of a stack.                                               *)
LEMMA ConsFacts ==
  ASSUME NEW S, NEW s \in Seq(S), NEW f \in S
  PROVE  LET n == <<f>> \o s IN
         /\ n \in Seq(S) /\ n # <<>> /\ Head(n) = f
         /\ Len(n) = Len(s) + 1 /\ n[1] = f /\ IsDrop(s, n, 1)
  BY DEF IsDrop

(* What Pop makes of a stack.                                                *)
LEMMA TailFacts ==
  ASSUME NEW S, NEW s \in Seq(S), s # <<>>
  PROVE  Tail(s) \in Seq(S) /\ IsDrop(Tail(s), s, 1) /\ Head(s) = s[1] /\ Head(s) \in S /\ Len(s) >= 1
  BY DEF IsDrop

LEMMA TailLeft ==
  ASSUME NEW S, NEW s \in Seq(S), 1 < Len(s)
  PROVE  Tail(s) # <<>>
<1>1. Tail(s) \in Seq(S) /\ Len(Tail(s)) = Len(s) - 1 /\ Len(s) - 1 > 0
  OBVIOUS
<1> DEFINE d == Tail(s)
<1>2. d \in Seq(S) /\ Len(d) > 0
  BY Zenon, <1>1
<1> HIDE DEF d
<1>3. d # <<>>
  BY <1>2
<1> QED
  BY Zenon, <1>3 DEF d

(* What EndCommand makes of a stack.                                         *)
LEMMA SubSeqFacts ==
  ASSUME NEW S, NEW s \in Seq(S), NEW i \in 1 .. Len(s)
  PROVE  SubSeq(s, i + 1, Len(s)) \in Seq(S) /\ IsDrop(SubSeq(s, i + 1, Len(s)), s, i)
  BY DEF IsDrop

----------------------------------------------------------------------------
(* Stacks.                                                                   *)

(* What lies below a frame does not depend on what lies above it.            *)
LEMMA HasSetShifts ==
  ASSUME NEW s \in Seq(Frame), NEW d \in Seq(Frame), NEW k \in Nat, IsDrop(d, s, k),
         NEW i \in 1 .. Len(d) + 1
  PROVE  HasSet(s, i + k) <=> HasSet(d, i)
<1>1. ASSUME HasSet(s, i + k) PROVE HasSet(d, i)
  <2>1. PICK j \in i + k .. Len(s) : s[j].kind = "workSource" /\ \A l \in i + k .. j : s[l].kind # "serving"
    BY Zenon, <1>1 DEF HasSet
  <2>2. j - k \in i .. Len(d) /\ d[j - k] = s[j]
    BY <2>1 DEF IsDrop
  <2>3. ASSUME NEW l \in i .. j - k PROVE d[l].kind # "serving"
    <3>1. l + k \in i + k .. j /\ d[l] = s[l + k]
      BY <2>1 DEF IsDrop
    <3> QED
      BY Zenon, <3>1, <2>1
  <2> QED
    BY Zenon, <2>1, <2>2, <2>3 DEF HasSet
<1>2. ASSUME HasSet(d, i) PROVE HasSet(s, i + k)
  <2>1. PICK j \in i .. Len(d) : d[j].kind = "workSource" /\ \A l \in i .. j : d[l].kind # "serving"
    BY Zenon, <1>2 DEF HasSet
  <2>2. j + k \in i + k .. Len(s) /\ d[j] = s[j + k]
    BY <2>1 DEF IsDrop
  <2>3. ASSUME NEW l \in i + k .. j + k PROVE s[l].kind # "serving"
    <3>1. l - k \in i .. j /\ d[l - k] = s[l]
      BY <2>1 DEF IsDrop
    <3> QED
      BY Zenon, <3>1, <2>1
  <2> QED
    BY Zenon, <2>1, <2>2, <2>3 DEF HasSet
<1> QED
  BY Zenon, <1>1, <1>2

(* A frame is as sound in the whole stack as in the lower part it is in.     *)
LEMMA FrameShifts ==
  ASSUME NEW s \in Seq(Frame), NEW d \in Seq(Frame), NEW k \in Nat, IsDrop(d, s, k),
         NEW i \in 1 .. Len(d)
  PROVE  FrameSound(s, i + k) <=> FrameSound(d, i)
<1>1. HasSet(s, i + 1 + k) <=> HasSet(d, i + 1)
  BY HasSetShifts
<1>2. s[i + k] = d[i] /\ (i < Len(d) <=> i + k < Len(s)) /\ i + 1 + k = i + k + 1
  BY DEF IsDrop
<1>3. i < Len(d) => s[i + k + 1] = d[i + 1]
  BY DEF IsDrop
<1> QED
  BY <1>1, <1>2, <1>3, Zenon DEF FrameSound, Placed

(* Leaving frames leaves a sound stack.                                      *)
LEMMA DropSound ==
  ASSUME NEW s \in Seq(Frame), NEW d \in Seq(Frame), NEW k \in Nat, IsDrop(d, s, k), FramesSound(s)
  PROVE  FramesSound(d)
<1> SUFFICES ASSUME NEW i \in 1 .. Len(d) PROVE FrameSound(d, i)
  BY Zenon DEF FramesSound
<1>1. i + k \in 1 .. Len(s)
  BY DEF IsDrop
<1> QED
  BY Zenon, <1>1, FrameShifts DEF FramesSound

(* A sound frame on a sound stack.                                           *)
LEMMA PushSound ==
  ASSUME NEW s \in Seq(Frame), NEW n \in Seq(Frame), IsDrop(s, n, 1),
         NEW now, NEW next, StackSound(s, now), FrameSound(n, 1), TopSound(n, next)
  PROVE  StackSound(n, next)
<1> SUFFICES ASSUME NEW i \in 1 .. Len(n) PROVE FrameSound(n, i)
  BY Zenon DEF FramesSound, StackSound
<1>1. CASE i = 1
  BY Zenon, <1>1
<1>2. CASE i # 1
  <2>1. i - 1 \in 1 .. Len(s) /\ (i - 1) + 1 = i /\ 1 \in Nat
    BY <1>2 DEF IsDrop
  <2>2. FrameSound(n, (i - 1) + 1) <=> FrameSound(s, i - 1)
    BY Zenon, <2>1, FrameShifts
  <2> QED
    BY Zenon, <2>1, <2>2 DEF FramesSound, StackSound
<1> QED
  BY Zenon, <1>1, <1>2

LEMMA PushShifts ==
  ASSUME NEW s \in Seq(Frame), NEW n \in Seq(Frame), IsDrop(s, n, 1)
  PROVE  HasSet(n, 2) <=> HasSet(s, 1)
<1>1. 1 \in Nat /\ 1 \in 1 .. Len(s) + 1 /\ 1 + 1 = 2
  OBVIOUS
<1>2. HasSet(n, 1 + 1) <=> HasSet(s, 1)
  BY Zenon, <1>1, HasSetShifts
<1> QED
  BY Zenon, <1>1, <1>2

(* executeCommand: a transaction is served above nothing or a call.          *)
LEMMA PushServing ==
  ASSUME NEW s \in Seq(Frame), NEW now \in Ids, NEW next \in Ids, StackSound(s, now),
         s # <<>> => s[1].kind = "calling", HeaderOf(next) = kUnsetWorkSource,
         NEW n, n = <<[kind |-> "serving", orig |-> now]>> \o s
  PROVE  n \in Seq(Frame) /\ StackSound(n, next)
<1> DEFINE f == [kind |-> "serving", orig |-> now]
<1>1. f \in Frame /\ f.kind = "serving" /\ f.orig = now
  BY Zenon DEF Frame
<1> HIDE DEF f
<1>2. n \in Seq(Frame) /\ n # <<>> /\ Len(n) = Len(s) + 1 /\ n[1] = f /\ IsDrop(s, n, 1)
  BY <1>1, ConsFacts DEF f
<1>3. 1 < Len(n) => s # <<>> /\ n[2] = s[1]
  BY <1>2 DEF IsDrop
<1>4. Len(n) <= 1 => s = <<>>
  BY <1>2
<1>5. FrameSound(n, 1)
  <2>1. now = IF 1 < Len(n) THEN n[2].was ELSE Unserving
    BY <1>2, <1>3, <1>4 DEF StackSound, TopSound
  <2> QED
    BY <1>1, <1>2, <1>3, <2>1 DEF FrameSound, Placed
<1>6. TopSound(n, next)
  BY Zenon, <1>1, <1>2 DEF TopSound
<1> QED
  BY <1>2, <1>5, <1>6, PushSound, Zenon

(* executeCommand: BR_SPAWN_LOOPER.                                          *)
LEMMA PushSpawning ==
  ASSUME NEW s \in Seq(Frame), NEW now \in Ids, StackSound(s, now), s # <<>> => s[1].kind = "calling",
         NEW n, n = <<[kind |-> "spawning"]>> \o s
  PROVE  n \in Seq(Frame) /\ StackSound(n, now)
<1> DEFINE f == [kind |-> "spawning"]
<1>1. f \in Frame /\ f.kind = "spawning"
  BY Zenon DEF Frame
<1> HIDE DEF f
<1>2. n \in Seq(Frame) /\ n # <<>> /\ Len(n) = Len(s) + 1 /\ n[1] = f /\ IsDrop(s, n, 1)
  BY Zenon, <1>1, ConsFacts DEF f
<1>3. Len(n) # 1 => s # <<>> /\ n[2] = s[1]
  BY <1>2 DEF IsDrop
<1>4. Len(n) = 1 => s = <<>>
  BY <1>2
<1>5. FrameSound(n, 1)
  BY <1>1, <1>2, <1>3 DEF FrameSound, Placed
<1>6. TopSound(n, now)
  BY Zenon, <1>1, <1>2, <1>3, <1>4 DEF TopSound, StackSound, HandlerKinds
<1> QED
  BY <1>2, <1>5, <1>6, PushSound, Zenon

(* transact, in a handler.                                                   *)
LEMMA PushCalling ==
  ASSUME NEW s \in Seq(Frame), NEW now \in Ids, StackSound(s, now), s # <<>>, s[1].kind \in HandlerKinds,
         NEW n, n = <<[kind |-> "calling", was |-> now, header |-> HeaderOf(now)]>> \o s
  PROVE  n \in Seq(Frame) /\ StackSound(n, now)
<1> DEFINE f == [kind |-> "calling", was |-> now, header |-> HeaderOf(now)]
<1>1. f \in Frame /\ f.kind = "calling" /\ f.was = now /\ f.header = HeaderOf(now)
  <2>1. HeaderOf(now) \in WorkSource
    BY Zenon DEF HeaderOf, Ids, WorkSource
  <2> QED
    BY Zenon, <2>1 DEF Frame
<1> HIDE DEF f
<1>2. n \in Seq(Frame) /\ n # <<>> /\ Len(n) = Len(s) + 1 /\ n[1] = f /\ IsDrop(s, n, 1)
  BY <1>1, ConsFacts DEF f
<1>3. 1 < Len(n) /\ n[2] = s[1]
  BY <1>2 DEF IsDrop
<1>4. HasSet(n, 2) <=> HasSet(s, 1)
  BY <1>2, PushShifts, Zenon
<1>5. FrameSound(n, 1)
  BY <1>1, <1>2, <1>3, <1>4 DEF FrameSound, Placed, StackSound, TopSound
<1>6. TopSound(n, now)
  BY Zenon, <1>1, <1>2 DEF TopSound, HandlerKinds
<1> QED
  BY <1>2, <1>5, <1>6, PushSound, Zenon

(* clearCallingIdentity, in a handler.                                       *)
LEMMA PushIdentity ==
  ASSUME NEW s \in Seq(Frame), NEW now \in Ids, NEW next \in Ids, StackSound(s, now),
         s # <<>>, s[1].kind \in HandlerKinds, HeaderOf(next) = HeaderOf(now),
         NEW was \in Nat \X Nat, NEW token \in [low : Nat, high : Nat], <<token.low, token.high>> = was,
         NEW n, n = <<[kind |-> "identity", was |-> was, token |-> token]>> \o s
  PROVE  n \in Seq(Frame) /\ StackSound(n, next)
<1> DEFINE f == [kind |-> "identity", was |-> was, token |-> token]
<1>1. f \in Frame /\ f.kind = "identity" /\ f.was = was /\ f.token = token
  BY Zenon DEF Frame
<1> HIDE DEF f
<1>2. n \in Seq(Frame) /\ n # <<>> /\ Len(n) = Len(s) + 1 /\ n[1] = f /\ IsDrop(s, n, 1)
  BY <1>1, ConsFacts DEF f
<1>3. 1 < Len(n) /\ n[2] = s[1]
  BY <1>2 DEF IsDrop
<1>4. HasSet(n, 2) <=> HasSet(s, 1)
  BY <1>2, PushShifts, Zenon
<1>5. HasSet(n, 2) => HasSet(n, 1)
  BY <1>1, <1>2 DEF HasSet
<1>6. FrameSound(n, 1)
  BY <1>1, <1>2, <1>3 DEF FrameSound, Placed
<1>7. TopSound(n, next)
  BY Zenon, <1>1, <1>2, <1>4, <1>5 DEF TopSound, HandlerKinds, StackSound
<1> QED
  BY <1>2, <1>6, <1>7, PushSound, Zenon

(* setCallingWorkSourceUid, in a handler.                                    *)
LEMMA PushWorkSource ==
  ASSUME NEW s \in Seq(Frame), NEW now \in Ids, NEW next \in Ids, StackSound(s, now),
         s # <<>>, s[1].kind \in HandlerKinds, NEW token \in [low : WorkSource, bit : BOOLEAN],
         HeaderOf(now) = IF token.bit THEN token.low ELSE kUnsetWorkSource,
         NEW n, n = <<[kind |-> "workSource", was |-> HeaderOf(now), token |-> token]>> \o s
  PROVE  n \in Seq(Frame) /\ StackSound(n, next)
<1> DEFINE f == [kind |-> "workSource", was |-> HeaderOf(now), token |-> token]
<1>1. f \in Frame /\ f.kind = "workSource" /\ f.was = HeaderOf(now) /\ f.token = token
  <2>1. HeaderOf(now) \in WorkSource
    BY Zenon DEF HeaderOf, Ids, WorkSource
  <2> QED
    BY Zenon, <2>1 DEF Frame
<1> HIDE DEF f
<1>2. n \in Seq(Frame) /\ n # <<>> /\ Len(n) = Len(s) + 1 /\ n[1] = f /\ IsDrop(s, n, 1)
  BY <1>1, ConsFacts DEF f
<1>3. 1 < Len(n) /\ n[2] = s[1]
  BY <1>2 DEF IsDrop
<1>4. HasSet(n, 2) <=> HasSet(s, 1)
  BY <1>2, PushShifts, Zenon
<1>5. HasSet(n, 1)
  BY <1>1, <1>2 DEF HasSet
<1>6. FrameSound(n, 1)
  BY <1>1, <1>2, <1>3, <1>4 DEF FrameSound, Placed, StackSound, TopSound
<1>7. TopSound(n, next)
  BY Zenon, <1>1, <1>2, <1>5 DEF TopSound
<1> QED
  BY <1>2, <1>6, <1>7, PushSound, Zenon

(* waitForResponse: the handler goes on as before.                           *)
LEMMA PopCalling ==
  ASSUME NEW s \in Seq(Frame), NEW now \in Ids, StackSound(s, now), s # <<>>, s[1].kind = "calling",
         NEW d \in Seq(Frame), IsDrop(d, s, 1)
  PROVE  StackSound(d, now) /\ d # <<>> /\ d[1].kind \in HandlerKinds
<1>1. FramesSound(s) /\ FrameSound(s, 1) /\ TopSound(s, now)
  BY DEF StackSound, FramesSound
<1>2. 1 < Len(s) /\ s[2].kind \in HandlerKinds
  BY <1>1 DEF FrameSound, Placed
<1>3. d # <<>> /\ d[1] = s[2]
  BY <1>2 DEF IsDrop
<1>4. HasSet(s, 2) <=> HasSet(d, 1)
  BY PushShifts, Zenon
<1>5. HeaderOf(now) # kUnsetWorkSource => HasSet(d, 1)
  BY <1>1, <1>4 DEF FrameSound, TopSound
<1>6. TopSound(d, now)
  BY Zenon, <1>2, <1>3, <1>5 DEF TopSound, HandlerKinds
<1>7. FramesSound(d)
  BY Zenon, <1>1, DropSound, 1 \in Nat
<1> QED
  BY <1>2, <1>3, <1>6, <1>7, Zenon DEF StackSound

(* restoreCallingIdentity and restoreCallingWorkSource: what goes with calls *)
(* is again what it was before the frame.                                    *)
LEMMA PopChange ==
  ASSUME NEW s \in Seq(Frame), NEW now \in Ids, NEW next \in Ids, StackSound(s, now), s # <<>>,
         \/ s[1].kind = "identity" /\ HeaderOf(next) = HeaderOf(now)
         \/ s[1].kind = "workSource" /\ HeaderOf(next) = s[1].was,
         NEW d \in Seq(Frame), IsDrop(d, s, 1)
  PROVE  StackSound(d, next)
<1>1. FramesSound(s) /\ FrameSound(s, 1) /\ TopSound(s, now)
  BY DEF StackSound, FramesSound
<1>2. 1 < Len(s) /\ s[2].kind \in HandlerKinds
  BY <1>1 DEF FrameSound, Placed
<1>3. d # <<>> /\ d[1] = s[2]
  BY <1>2 DEF IsDrop
<1>4. HasSet(s, 2) <=> HasSet(d, 1)
  BY PushShifts, Zenon
<1>5. HeaderOf(next) # kUnsetWorkSource => HasSet(d, 1)
  <2>1. CASE s[1].kind = "identity" /\ HeaderOf(next) = HeaderOf(now)
    <3>1. HeaderOf(next) # kUnsetWorkSource => HasSet(s, 1)
      BY Zenon, <1>1, <2>1 DEF TopSound, HandlerKinds
    <3>2. HasSet(s, 1) => HasSet(s, 2)
      BY <2>1 DEF HasSet
    <3> QED
      BY Zenon, <3>1, <3>2, <1>4
  <2>2. CASE s[1].kind = "workSource" /\ HeaderOf(next) = s[1].was
    BY <1>1, <1>4, <2>2 DEF FrameSound
  <2> QED
    BY Zenon, <2>1, <2>2
<1>6. TopSound(d, next)
  BY Zenon, <1>2, <1>3, <1>5 DEF TopSound, HandlerKinds
<1>7. FramesSound(d)
  BY Zenon, <1>1, DropSound, 1 \in Nat
<1> QED
  BY <1>6, <1>7, Zenon DEF StackSound

(* The frame of the command that is executed, and as whom the thread goes on. *)
Innermost(s, i) ==
  /\ s[i].kind \in {"serving", "spawning", "calling"}
  /\ \A j \in 1 .. i - 1 : s[j].kind \notin {"serving", "spawning", "calling"}
LeftAs(s, i, now) == IF s[i].kind = "serving" THEN s[i].orig ELSE now

Leaves(s, now, i, d) ==
  /\ s \in Seq(Frame) /\ now \in Ids /\ StackSound(s, now)
  /\ s[1].kind \in HandlerKinds \cup {"spawning"}
  /\ i \in 1 .. Len(s) /\ Innermost(s, i)
  /\ d \in Seq(Frame) /\ IsDrop(d, s, i)

(* executeCommand after the call of the object: the innermost command is a   *)
(* transaction if a handler runs, and what it put aside comes back.          *)
LEMMA LeaveCommand ==
  ASSUME NEW s, NEW now, NEW i, NEW d, Leaves(s, now, i, d)
  PROVE  /\ StackSound(d, LeftAs(s, i, now))
         /\ d # <<>> => d[1].kind = "calling"
         /\ s[1].kind \in HandlerKinds => s[i].kind = "serving"
<1> DEFINE next == LeftAs(s, i, now)
<1>0. /\ s \in Seq(Frame) /\ now \in Ids /\ s[1].kind \in HandlerKinds \cup {"spawning"}
      /\ i \in 1 .. Len(s) /\ d \in Seq(Frame) /\ IsDrop(d, s, i)
      /\ s[i].kind \in {"serving", "spawning", "calling"}
      /\ \A j \in 1 .. i - 1 : s[j].kind \notin {"serving", "spawning", "calling"}
      /\ next = IF s[i].kind = "serving" THEN s[i].orig ELSE now
  BY Zenon DEF Leaves, Innermost, LeftAs
<1> HIDE DEF next
<1>1. FramesSound(s) /\ FrameSound(s, i) /\ TopSound(s, now)
  BY Zenon DEF StackSound, FramesSound, Leaves
<1>2. i # 1 => s[i].kind = "serving"
  <2> SUFFICES ASSUME i # 1 PROVE s[i].kind = "serving"
    BY Zenon
  <2>1. i - 1 \in 1 .. Len(s) /\ (i - 1) + 1 = i /\ i - 1 \in 1 .. i - 1
    BY <1>0
  <2>2. s[i - 1].kind \notin {"serving", "spawning", "calling"} /\ FrameSound(s, i - 1)
    BY Zenon, <1>1, <1>0, <2>1 DEF FramesSound
  <2>3. s[i].kind \in HandlerKinds
    BY Zenon, <2>1, <2>2 DEF FrameSound, Placed
  <2> QED
    BY Zenon, <1>0, <2>3 DEF HandlerKinds
<1>3. s[i].kind \in {"serving", "spawning"} /\ (s[1].kind \in HandlerKinds => s[i].kind = "serving")
  BY Zenon, <1>2, <1>0 DEF HandlerKinds
<1>4. /\ i = Len(s) => d = <<>>
      /\ i < Len(s) => d # <<>> /\ d[1] = s[i + 1] /\ s[i + 1].kind = "calling"
  <2>1. i < Len(s) => s[i + 1].kind = "calling"
    BY <1>1, <1>3, Zenon DEF FrameSound, Placed
  <2>2. (i = Len(s) => d = <<>>) /\ (i < Len(s) => d # <<>> /\ d[1] = s[i + 1])
    BY <1>0 DEF IsDrop
  <2> QED
    BY Zenon, <2>1, <2>2
<1>5. next = IF i < Len(s) THEN s[i + 1].was ELSE Unserving
  <2>1. CASE s[i].kind = "serving"
    <3>1. next = s[i].orig
      BY Zenon, <1>0, <2>1
    <3>2. s[i].orig = IF i < Len(s) THEN s[i + 1].was ELSE Unserving
      BY Zenon, <1>1, <2>1 DEF FrameSound
    <3> QED
      BY Zenon, <3>1, <3>2
  <2>2. CASE s[i].kind = "spawning"
    <3>1. i = 1 /\ s # <<>> /\ Len(s) >= 1 /\ next = now
      BY <1>2, <1>0, <2>2
    <3>2. now = IF Len(s) = 1 THEN Unserving ELSE s[2].was
      BY Zenon, <1>1, <2>2, <3>1 DEF TopSound
    <3>3. i + 1 = 2 /\ (i < Len(s) <=> Len(s) # 1)
      <4>1. ASSUME NEW l \in Nat, l >= 1, NEW k, k = 1 PROVE k + 1 = 2 /\ (k < l <=> l # 1)
        BY <4>1
      <4>2. Len(s) \in Nat
        BY <1>0
      <4> QED
        BY <3>1, <4>1, <4>2, Zenon
    <3> QED
      BY <3>1, <3>2, <3>3, Zenon
  <2> QED
    BY Zenon, <1>3, <2>1, <2>2
<1>6. TopSound(d, next)
  BY <1>4, <1>5, <1>0 DEF TopSound, HandlerKinds
<1>7. FramesSound(d)
  BY <1>1, <1>0, DropSound, i \in Nat
<1> QED
  BY <1>3, <1>4, <1>6, <1>7, <1>0 DEF StackSound, next

----------------------------------------------------------------------------
(* The steps, and the stacks.                                                *)

(* What the types say of one thread.                                         *)
LEMMA ThreadFacts ==
  ASSUME TypeOK, NEW t \in Threads
  PROVE  /\ stack[t] \in Seq(Frame) /\ id[t] \in Ids /\ mIn[t] \in Seq(CommandIn) /\ at[t] \in Place
         /\ stack[t] # <<>> => Top(t) = stack[t][1] /\ Len(stack[t]) >= 1
         /\ Header(t) = HeaderOf(id[t])
  BY DEF TypeOK, Top, Header, HeaderOf

LEMMA InFacts ==
  ASSUME TypeOK, NEW t \in Threads, NEW K, In(t, K)
  PROVE  stack[t] # <<>> /\ stack[t][1].kind \in K /\ Top(t) = stack[t][1] /\ Len(stack[t]) >= 1
  BY ThreadFacts, Zenon DEF In

(* One thread's stack changes to n, and it acts as next.                     *)
Moves(t, n, next) ==
  /\ n \in Seq(Frame) /\ next \in Ids /\ StackSound(n, next)
  /\ stack' = [stack EXCEPT ![t] = n] /\ id' = [id EXCEPT ![t] = next]

LEMMA MovesSound ==
  ASSUME TypeOK, StacksSound, NEW t \in Threads, NEW n, NEW next, Moves(t, n, next)
  PROVE  stack' \in [Threads -> Seq(Frame)] /\ id' \in [Threads -> Ids] /\ StacksSound'
<1>1. stack' \in [Threads -> Seq(Frame)] /\ id' \in [Threads -> Ids]
  BY Zenon DEF Moves, TypeOK
<1>2. ASSUME NEW u \in Threads PROVE StackSound(stack'[u], id'[u])
  BY Zenon DEF Moves, TypeOK, StacksSound
<1> QED
  BY Zenon, <1>1, <1>2 DEF StacksSound

LEMMA StacksStay ==
  ASSUME TypeOK, StacksSound, UNCHANGED <<stack, id>>
  PROVE  stack' \in [Threads -> Seq(Frame)] /\ id' \in [Threads -> Ids] /\ StacksSound'
  BY Zenon DEF TypeOK, StacksSound

(* id is unchanged for the others and for t.                                 *)
LEMMA SameId ==
  ASSUME TypeOK, NEW t \in Threads, id' = id
  PROVE  id' = [id EXCEPT ![t] = id[t]]
  BY Zenon DEF TypeOK

LEMMA ReadReplyMoves ==
  ASSUME TypeOK, StacksSound, NEW t \in Threads, ReadReply(t)
  PROVE  Moves(t, Tail(stack[t]), id[t]) /\ Tail(stack[t]) # <<>> /\ Tail(stack[t])[1].kind \in HandlerKinds
<1>1. stack[t] # <<>> /\ stack[t][1].kind = "calling"
  BY InFacts DEF ReadReply
<1>2. stack[t] \in Seq(Frame) /\ id[t] \in Ids /\ StackSound(stack[t], id[t])
  BY Zenon, ThreadFacts DEF StacksSound
<1>3. Tail(stack[t]) \in Seq(Frame) /\ IsDrop(Tail(stack[t]), stack[t], 1)
  BY <1>1, <1>2, TailFacts, Zenon
<1>4. /\ StackSound(Tail(stack[t]), id[t])
      /\ Tail(stack[t]) # <<>> /\ Tail(stack[t])[1].kind \in HandlerKinds
  BY <1>1, <1>2, <1>3, PopCalling, Zenon
<1>5. stack' = [stack EXCEPT ![t] = Tail(stack[t])] /\ id' = [id EXCEPT ![t] = id[t]]
  BY Zenon, SameId DEF ReadReply, Pop
<1> QED
  BY <1>2, <1>3, <1>4, <1>5, Zenon DEF Moves

LEMMA TransactMoves ==
  ASSUME TypeOK, StacksSound, NEW t \in Threads, transact(t)
  PROVE  LET f == [kind |-> "calling", was |-> id[t], header |-> Header(t)]
         IN  Moves(t, <<f>> \o stack[t], id[t])
<1> DEFINE f == [kind |-> "calling", was |-> id[t], header |-> Header(t)]
<1> DEFINE n == <<f>> \o stack[t]
<1>1. stack[t] # <<>> /\ stack[t][1].kind \in HandlerKinds
  BY InFacts, Zenon DEF transact, InHandler, HandlerKinds
<1>2. /\ stack[t] \in Seq(Frame) /\ id[t] \in Ids /\ StackSound(stack[t], id[t])
      /\ Header(t) = HeaderOf(id[t])
  BY Zenon, ThreadFacts DEF StacksSound
<1>3. n = <<[kind |-> "calling", was |-> id[t], header |-> HeaderOf(id[t])]>> \o stack[t]
  BY <1>2, Zenon
<1>4. stack' = [stack EXCEPT ![t] = n] /\ id' = [id EXCEPT ![t] = id[t]]
  BY Zenon, SameId DEF transact, Push
<1> HIDE DEF n
<1>5. n \in Seq(Frame) /\ StackSound(n, id[t])
  BY <1>1, <1>2, <1>3, PushCalling, Zenon
<1>6. Moves(t, n, id[t])
  BY <1>2, <1>4, <1>5, Zenon DEF Moves
<1> QED
  BY Zenon, <1>6 DEF n

LEMMA SidFacts ==
  /\ None \in Sids /\ 0 \in Policies
  /\ \A s \in Senders : s.sid \in Sids /\ s.policy \in Policies
  BY Zenon DEF Sids, Policies

(* The fields that calls and handlers change, one by one and together.       *)
LEMMA IdFields ==
  ASSUME NEW i \in Ids
  PROVE  /\ \A v \in Nat : /\ [i EXCEPT !.mCallingPid = v] \in Ids
                          /\ [i EXCEPT !.mCallingUid = v] \in Ids
                          /\ [i EXCEPT !.mServingStackPointer = v] \in Ids
         /\ \A v \in Sids : [i EXCEPT !.mCallingSid = v] \in Ids
         /\ \A v \in WorkSource : [i EXCEPT !.mWorkSource = v] \in Ids
         /\ \A v \in BOOLEAN : /\ [i EXCEPT !.mPropagateWorkSource = v] \in Ids
                              /\ [i EXCEPT !.oneway = v] \in Ids
         /\ \A v \in Policies : [i EXCEPT !.mStrictModePolicy = v] \in Ids
<1>1. \A v \in Nat : [i EXCEPT !.mCallingPid = v] \in Ids
  BY Zenon DEF Ids
<1>2. \A v \in Nat : [i EXCEPT !.mCallingUid = v] \in Ids
  BY Zenon DEF Ids
<1>3. \A v \in Nat : [i EXCEPT !.mServingStackPointer = v] \in Ids
  BY Zenon DEF Ids
<1>4. \A v \in Sids : [i EXCEPT !.mCallingSid = v] \in Ids
  BY Zenon DEF Ids
<1>5. \A v \in WorkSource : [i EXCEPT !.mWorkSource = v] \in Ids
  BY Zenon DEF Ids
<1>6. \A v \in BOOLEAN : [i EXCEPT !.mPropagateWorkSource = v] \in Ids
  BY Zenon DEF Ids
<1>7. \A v \in BOOLEAN : [i EXCEPT !.oneway = v] \in Ids
  BY Zenon DEF Ids
<1>8. \A v \in Policies : [i EXCEPT !.mStrictModePolicy = v] \in Ids
  BY Zenon DEF Ids
<1> QED
  BY Zenon, <1>1, <1>2, <1>3, <1>4, <1>5, <1>6, <1>7, <1>8

WithCaller(i, p, u, sid) == [i EXCEPT !.mCallingPid = p, !.mCallingUid = u, !.mCallingSid = sid]

LEMMA IdWithCaller ==
  ASSUME NEW i \in Ids, NEW p \in Nat, NEW u \in Nat, NEW sid \in Sids
  PROVE  /\ WithCaller(i, p, u, sid) \in Ids /\ HeaderOf(WithCaller(i, p, u, sid)) = HeaderOf(i)
         /\ WithCaller(i, p, u, sid).mCallingPid = p /\ WithCaller(i, p, u, sid).mCallingUid = u
<1> DEFINE a == [i EXCEPT !.mCallingPid = p]
           b == [a EXCEPT !.mCallingUid = u]
           c == [b EXCEPT !.mCallingSid = sid]
<1>1. a \in Ids /\ HeaderOf(a) = HeaderOf(i) /\ a.mCallingPid = p
  BY Zenon, IdFields DEF Ids, HeaderOf
<1> HIDE DEF a
<1>2. b \in Ids /\ HeaderOf(b) = HeaderOf(i) /\ b.mCallingPid = p /\ b.mCallingUid = u
  BY Zenon, <1>1, IdFields DEF Ids, HeaderOf
<1> HIDE DEF b
<1>3. c \in Ids /\ HeaderOf(c) = HeaderOf(i) /\ c.mCallingPid = p /\ c.mCallingUid = u
  BY Zenon, <1>2, IdFields DEF Ids, HeaderOf
<1> QED
  BY Zenon, <1>3 DEF a, b, c, WithCaller

LEMMA IdWithWorkSource ==
  ASSUME NEW i \in Ids, NEW w \in WorkSource, NEW p \in BOOLEAN
  PROVE  LET n == [i EXCEPT !.mWorkSource = w, !.mPropagateWorkSource = p]
         IN  n \in Ids /\ HeaderOf(n) = IF p THEN w ELSE kUnsetWorkSource
<1> DEFINE a == [i EXCEPT !.mWorkSource = w]
           b == [a EXCEPT !.mPropagateWorkSource = p]
<1>1. a \in Ids /\ a.mWorkSource = w
  BY Zenon, IdFields DEF Ids
<1> HIDE DEF a
<1>2. b \in Ids /\ b.mWorkSource = w /\ b.mPropagateWorkSource = p
  BY <1>1, IdFields DEF Ids
<1>3. HeaderOf(b) = IF p THEN w ELSE kUnsetWorkSource
  BY <1>2 DEF HeaderOf
<1> QED
  BY Zenon, <1>2, <1>3 DEF a, b

Serving(i, p, u, sid, o, d) ==
  [i EXCEPT !.mCallingPid = p, !.mCallingUid = u, !.mCallingSid = sid, !.oneway = o,
            !.mWorkSource = kUnsetWorkSource, !.mPropagateWorkSource = FALSE, !.mServingStackPointer = d]

ServingFields(i, p, u, sid, o, d) ==
  i \in Ids /\ p \in Nat /\ u \in Nat /\ sid \in Sids /\ o \in BOOLEAN /\ d \in Nat

LEMMA IdServing ==
  ASSUME NEW i, NEW p, NEW u, NEW sid, NEW o, NEW d, ServingFields(i, p, u, sid, o, d)
  PROVE  /\ Serving(i, p, u, sid, o, d) \in Ids
         /\ Serving(i, p, u, sid, o, d).mPropagateWorkSource = FALSE
<1> DEFINE a == WithCaller(i, p, u, sid)
           b == [a EXCEPT !.oneway = o]
           c == [b EXCEPT !.mWorkSource = kUnsetWorkSource]
           e == [c EXCEPT !.mPropagateWorkSource = FALSE]
           f == [e EXCEPT !.mServingStackPointer = d]
<1>1. a \in Ids /\ o \in BOOLEAN /\ d \in Nat
  BY IdWithCaller, Zenon DEF ServingFields
<1> HIDE DEF a
<1>2. b \in Ids
  BY <1>1, IdFields, Zenon
<1> HIDE DEF b
<1>3. c \in Ids
  BY Zenon, <1>2, IdFields DEF WorkSource
<1> HIDE DEF c
<1>4. e \in Ids /\ e.mPropagateWorkSource = FALSE
  <2>1. FALSE \in BOOLEAN
    BY Zenon
  <2>2. e \in Ids
    BY <1>3, <2>1, IdFields, Zenon
  <2> QED
    BY Zenon, <1>3, <2>2 DEF Ids
<1> HIDE DEF e
<1>5. f \in Ids /\ f.mPropagateWorkSource = FALSE
  BY Zenon, <1>1, <1>4, IdFields DEF Ids
<1> QED
  BY Zenon, <1>5 DEF a, b, c, e, f, WithCaller, Serving

Enforced(i, p, w) == [i EXCEPT !.mStrictModePolicy = p, !.mWorkSource = w]

LEMMA IdEnforced ==
  ASSUME NEW i \in Ids, NEW p \in Policies, NEW w \in WorkSource
  PROVE  Enforced(i, p, w) \in Ids /\ Enforced(i, p, w).mPropagateWorkSource = i.mPropagateWorkSource
<1> DEFINE a == [i EXCEPT !.mStrictModePolicy = p]
           b == [a EXCEPT !.mWorkSource = w]
<1>1. a \in Ids /\ a.mPropagateWorkSource = i.mPropagateWorkSource
  BY Zenon, IdFields DEF Ids
<1> HIDE DEF a
<1>2. b \in Ids /\ b.mPropagateWorkSource = i.mPropagateWorkSource
  BY Zenon, <1>1, IdFields DEF Ids
<1> QED
  BY Zenon, <1>2 DEF a, b, Enforced

(* The id with which clearCallingIdentity goes on, and what it puts aside.   *)
LEMMA ClearIdentityMoves ==
  ASSUME TypeOK, StacksSound, NEW t \in Threads, clearCallingIdentity(t)
  PROVE  \E f \in Frame, next \in Ids : Moves(t, <<f>> \o stack[t], next) /\ f.kind = "identity"
<1> DEFINE was == <<id[t].mCallingPid, id[t].mCallingUid>>
           token == IdentityToken(id[t].mCallingPid, id[t].mCallingUid)
           f == [kind |-> "identity", was |-> was, token |-> token]
           n == <<f>> \o stack[t]
           next == WithCaller(id[t], Own.pid, Own.uid, None)
<1>1. stack[t] # <<>> /\ stack[t][1].kind \in HandlerKinds
  BY InFacts, Zenon DEF clearCallingIdentity, Change, InHandler, HandlerKinds
<1>2. stack[t] \in Seq(Frame) /\ id[t] \in Ids /\ StackSound(stack[t], id[t])
  BY Zenon, ThreadFacts DEF StacksSound
<1>3. next \in Ids /\ HeaderOf(next) = HeaderOf(id[t])
  <2>1. Own.pid \in Nat /\ Own.uid \in Nat /\ None \in Sids
    BY Zenon, CallersNamed, SidFacts
  <2>2. /\ \A i \in Ids, p \in Nat, u \in Nat, sid \in Sids : WithCaller(i, p, u, sid) \in Ids
        /\ \A i \in Ids, p \in Nat, u \in Nat, sid \in Sids :
              HeaderOf(WithCaller(i, p, u, sid)) = HeaderOf(i)
    BY Zenon, IdWithCaller
  <2> QED
    BY Zenon, <1>2, <2>1, <2>2
<1>4. was \in Nat \X Nat /\ token \in [low : Nat, high : Nat] /\ <<token.low, token.high>> = was
  <2>1. id[t].mCallingPid \in Nat /\ id[t].mCallingUid \in Nat
    BY Zenon, <1>2 DEF Ids
  <2>2. token = [low |-> id[t].mCallingPid, high |-> id[t].mCallingUid]
    BY <2>1 DEF IdentityToken
  <2> QED
    BY <2>1, <2>2
<1>5. f \in Frame /\ f.kind = "identity"
  BY Zenon, <1>4 DEF Frame
<1>6. stack' = [stack EXCEPT ![t] = n]
  BY Zenon DEF clearCallingIdentity, Change, Push
<1>7. id' = [id EXCEPT ![t] = next]
  BY Zenon DEF clearCallingIdentity, TypeOK, WithCaller
<1> HIDE DEF was, token, next
<1>8. n \in Seq(Frame) /\ StackSound(n, next)
  <2>1. n = <<[kind |-> "identity", was |-> was, token |-> token]>> \o stack[t]
    BY Zenon
  <2> HIDE DEF n
  <2> QED
    BY <1>1, <1>2, <1>3, <1>4, <2>1, PushIdentity, Zenon
<1>9. Moves(t, n, next)
  BY <1>3, <1>6, <1>7, <1>8, Zenon DEF Moves
<1> QED
  BY <1>3, <1>5, <1>9, Zenon

LEMMA SetWorkSourceMoves ==
  ASSUME TypeOK, StacksSound, NEW t \in Threads, NEW uid \in WorkSources \cup {kUnsetWorkSource},
         setCallingWorkSourceUid(t, uid)
  PROVE  \E f \in Frame, next \in Ids : Moves(t, <<f>> \o stack[t], next) /\ f.kind = "workSource"
<1> DEFINE token == WorkSourceToken(id[t].mWorkSource, id[t].mPropagateWorkSource)
           f == [kind |-> "workSource", was |-> HeaderOf(id[t]), token |-> token]
           n == <<f>> \o stack[t]
           next == [id[t] EXCEPT !.mWorkSource = uid, !.mPropagateWorkSource = TRUE]
<1>1. stack[t] # <<>> /\ stack[t][1].kind \in HandlerKinds
  BY InFacts, Zenon DEF setCallingWorkSourceUid, Change, InHandler, HandlerKinds
<1>2. /\ stack[t] \in Seq(Frame) /\ id[t] \in Ids /\ StackSound(stack[t], id[t])
      /\ Header(t) = HeaderOf(id[t])
  BY Zenon, ThreadFacts DEF StacksSound
<1>3. next \in Ids /\ HeaderOf(id[t]) \in WorkSource
  <2>1. uid \in WorkSource /\ TRUE \in BOOLEAN
    BY Zenon, CallersNamed DEF WorkSource
  <2>2. HeaderOf(id[t]) \in WorkSource
    BY Zenon, <1>2 DEF Ids, HeaderOf, WorkSource
  <2> QED
    BY <1>2, <2>1, <2>2, IdWithWorkSource, Zenon
<1>4. /\ token \in [low : WorkSource, bit : BOOLEAN]
      /\ HeaderOf(id[t]) = IF token.bit THEN token.low ELSE kUnsetWorkSource
  BY <1>2 DEF Ids, WorkSourceToken, WorkSource, HeaderOf, kUnsetWorkSource
<1>5. f \in Frame /\ f.kind = "workSource"
  BY Zenon, <1>3, <1>4 DEF Frame
<1>6. stack' = [stack EXCEPT ![t] = n]
  BY <1>2, Zenon DEF setCallingWorkSourceUid, Change, Push
<1>7. id' = [id EXCEPT ![t] = next]
  BY Zenon DEF setCallingWorkSourceUid, TypeOK
<1> HIDE DEF token, next
<1>8. n \in Seq(Frame) /\ StackSound(n, next)
  <2>1. n = <<[kind |-> "workSource", was |-> HeaderOf(id[t]), token |-> token]>> \o stack[t]
    BY Zenon
  <2> HIDE DEF n
  <2> QED
    BY <1>1, <1>2, <1>3, <1>4, <2>1, PushWorkSource, Zenon
<1>9. Moves(t, n, next)
  BY <1>3, <1>6, <1>7, <1>8, Zenon DEF Moves
<1> QED
  BY <1>3, <1>5, <1>9, Zenon

(* restoreCallingIdentity takes the token apart as it was put together.      *)
LEMMA RestoreIdentityMoves ==
  ASSUME TypeOK, StacksSound, NEW t \in Threads, restoreCallingIdentity(t)
  PROVE  \E next \in Ids : /\ Moves(t, Tail(stack[t]), next)
                           /\ <<next.mCallingPid, next.mCallingUid>> = Top(t).was
<1> DEFINE next == WithCaller(id[t], Top(t).token.low, Top(t).token.high, None)
<1>1. stack[t] # <<>> /\ stack[t][1].kind = "identity" /\ Top(t) = stack[t][1] /\ Len(stack[t]) >= 1
  <2>1. Top(t).kind = "identity" /\ In(t, HandlerKinds)
    BY Zenon DEF restoreCallingIdentity, Undo, InHandler, HandlerKinds
  <2> QED
    BY Zenon, <2>1, InFacts
<1>2. stack[t] \in Seq(Frame) /\ id[t] \in Ids /\ StackSound(stack[t], id[t])
  BY Zenon, ThreadFacts DEF StacksSound
<1>3. <<Top(t).token.low, Top(t).token.high>> = Top(t).was
  <2>1. FrameSound(stack[t], 1)
    BY <1>1, <1>2 DEF StackSound, FramesSound
  <2> QED
    BY Zenon, <1>1, <2>1 DEF FrameSound
<1>4. Top(t).token \in [low : Nat, high : Nat]
  <2>1. stack[t][1] \in Frame
    BY <1>1, <1>2
  <2> QED
    BY Zenon, <1>1, <2>1 DEF Frame
<1>5. /\ next \in Ids /\ HeaderOf(next) = HeaderOf(id[t])
      /\ next.mCallingPid = Top(t).token.low /\ next.mCallingUid = Top(t).token.high
  <2>1. Top(t).token.low \in Nat /\ Top(t).token.high \in Nat /\ id[t] \in Ids /\ None \in Sids
    BY Zenon, <1>2, <1>4, SidFacts
  <2> QED
    BY <2>1, IdWithCaller, ZenonT(40)
<1>6. stack' = [stack EXCEPT ![t] = Tail(stack[t])]
  BY Zenon DEF restoreCallingIdentity, Undo, Pop
<1>7. id' = [id EXCEPT ![t] = next]
  BY Zenon DEF restoreCallingIdentity, TypeOK, WithCaller
<1> HIDE DEF next
<1>8. Tail(stack[t]) \in Seq(Frame) /\ IsDrop(Tail(stack[t]), stack[t], 1)
  BY <1>1, <1>2, TailFacts, Zenon
<1>9. StackSound(Tail(stack[t]), next)
  BY <1>1, <1>2, <1>5, <1>8, PopChange, Zenon
<1>10. Moves(t, Tail(stack[t]), next)
  BY <1>5, <1>6, <1>7, <1>8, <1>9, Zenon DEF Moves
<1>11. <<next.mCallingPid, next.mCallingUid>> = Top(t).was
  BY <1>3, <1>5, Zenon
<1> QED
  BY <1>5, <1>10, <1>11, Zenon

(* restoreCallingWorkSource: the sign that runs over the bit does no harm.   *)
LEMMA RestoreWorkSourceMoves ==
  ASSUME TypeOK, StacksSound, NEW t \in Threads, restoreCallingWorkSource(t)
  PROVE  \E next \in Ids : Moves(t, Tail(stack[t]), next) /\ HeaderOf(next) = Top(t).was
<1> DEFINE next == [id[t] EXCEPT !.mWorkSource = Top(t).token.low, !.mPropagateWorkSource = Top(t).token.bit]
<1>1. stack[t] # <<>> /\ stack[t][1].kind = "workSource" /\ Top(t) = stack[t][1] /\ Len(stack[t]) >= 1
  <2>1. Top(t).kind = "workSource" /\ In(t, HandlerKinds)
    BY Zenon DEF restoreCallingWorkSource, Undo, InHandler, HandlerKinds
  <2> QED
    BY Zenon, <2>1, InFacts
<1>2. stack[t] \in Seq(Frame) /\ id[t] \in Ids /\ StackSound(stack[t], id[t])
  BY Zenon, ThreadFacts DEF StacksSound
<1>3. Top(t).was = IF Top(t).token.bit THEN Top(t).token.low ELSE kUnsetWorkSource
  <2>1. FrameSound(stack[t], 1)
    BY <1>1, <1>2 DEF StackSound, FramesSound
  <2> QED
    BY Zenon, <1>1, <2>1 DEF FrameSound
<1>4. Top(t).token.low \in WorkSource /\ Top(t).token.bit \in BOOLEAN
  <2>1. stack[t][1] \in Frame
    BY <1>1, <1>2
  <2> QED
    BY Zenon, <1>1, <2>1 DEF Frame
<1>5. next \in Ids /\ HeaderOf(next) = IF Top(t).token.bit THEN Top(t).token.low ELSE kUnsetWorkSource
  BY <1>2, <1>4, IdWithWorkSource, Zenon
<1>6. stack' = [stack EXCEPT ![t] = Tail(stack[t])]
  BY Zenon DEF restoreCallingWorkSource, Undo, Pop
<1>7. id' = [id EXCEPT ![t] = next]
  BY Zenon DEF restoreCallingWorkSource, TypeOK, PropagateRestored
<1> HIDE DEF next
<1>8. Tail(stack[t]) \in Seq(Frame) /\ IsDrop(Tail(stack[t]), stack[t], 1)
  BY <1>1, <1>2, TailFacts, Zenon
<1>9. HeaderOf(next) = stack[t][1].was
  BY Zenon, <1>1, <1>3, <1>5
<1>10. StackSound(Tail(stack[t]), next)
  BY <1>1, <1>2, <1>5, <1>8, <1>9, PopChange, Zenon
<1>11. Moves(t, Tail(stack[t]), next)
  BY <1>5, <1>6, <1>7, <1>8, <1>10, Zenon DEF Moves
<1> QED
  BY <1>1, <1>5, <1>9, <1>11, Zenon

(* The caller and the work source with which a transaction is served.        *)
LEMMA ServingFacts ==
  ASSUME TypeOK, NEW t \in Threads, NEW c \in CommandIn, c.cmd = "BR_TRANSACTION"
  PROVE  LET now == ServingAs(t, c)
             stub == enforceInterface(now, c)
         IN  /\ now \in Ids /\ HeaderOf(now) = kUnsetWorkSource
             /\ stub \in Ids /\ HeaderOf(stub) = kUnsetWorkSource
<1> DEFINE now == ServingAs(t, c)
           stub == enforceInterface(now, c)
           policy == IF now.oneway THEN 0 ELSE c.from.policy
<1>1. c.from \in Senders /\ c.oneway \in BOOLEAN
  BY Zenon DEF CommandIn
<1>2. /\ (IF c.oneway THEN 0 ELSE c.from.pid) \in Nat /\ c.from.uid \in Nat
      /\ c.from.sid \in Sids /\ c.from.policy \in Policies /\ c.from.workSource \in WorkSource
  BY Zenon, <1>1, CallersNamed, SidFacts DEF WorkSource
<1>3. id[t] \in Ids /\ Depth(t) + 1 \in Nat
  BY ThreadFacts DEF Depth
<1>4. now \in Ids /\ now.mPropagateWorkSource = FALSE
  <2>1. now = Serving(id[t], IF c.oneway THEN 0 ELSE c.from.pid, c.from.uid, c.from.sid, c.oneway, Depth(t) + 1)
    BY Zenon DEF ServingAs, Serving
  <2> DEFINE pid == IF c.oneway THEN 0 ELSE c.from.pid
  <2> HIDE DEF pid
  <2>2. /\ Serving(id[t], pid, c.from.uid, c.from.sid, c.oneway, Depth(t) + 1) \in Ids
        /\ Serving(id[t], pid, c.from.uid, c.from.sid, c.oneway, Depth(t) + 1).mPropagateWorkSource = FALSE
    <3>1. pid \in Nat
      BY Zenon, <1>2 DEF pid
    <3>2. ServingFields(id[t], pid, c.from.uid, c.from.sid, c.oneway, Depth(t) + 1)
      BY <1>1, <1>2, <1>3, <3>1, Zenon DEF ServingFields
    <3> QED
      BY <3>2, IdServing, ZenonT(40)
  <2> QED
    BY <2>1, <2>2, Zenon DEF pid
<1> HIDE DEF now
<1>5. policy \in Policies
  BY Zenon, <1>2, SidFacts
<1> HIDE DEF policy
<1>6. stub \in Ids /\ stub.mPropagateWorkSource = FALSE
  <2>1. stub = Enforced(now, policy, c.from.workSource)
    BY Zenon DEF enforceInterface, Enforced, policy
  <2>2. /\ Enforced(now, policy, c.from.workSource) \in Ids
        /\ Enforced(now, policy, c.from.workSource).mPropagateWorkSource = now.mPropagateWorkSource
    BY <1>2, <1>4, <1>5, IdEnforced, Zenon
  <2> QED
    BY <1>4, <2>1, <2>2, Zenon
<1> QED
  BY Zenon, <1>4, <1>6 DEF HeaderOf, now

LEMMA BeginTransactionMoves ==
  ASSUME TypeOK, StacksSound, NEW t \in Threads, BeginCommand(t), Head(mIn[t]).cmd = "BR_TRANSACTION"
  PROVE  /\ \E next \in Ids : Moves(t, <<[kind |-> "serving", orig |-> id[t]]>> \o stack[t], next)
         /\ at' = at /\ driver' = driver
<1> DEFINE n == <<[kind |-> "serving", orig |-> id[t]]>> \o stack[t]
           c == Head(mIn[t])
<1>1. /\ stack[t] \in Seq(Frame) /\ id[t] \in Ids /\ StackSound(stack[t], id[t])
      /\ stack[t] # <<>> => stack[t][1].kind = "calling"
  BY ThreadFacts, InFacts DEF StacksSound, BeginCommand
<1>2. c \in CommandIn
  BY ThreadFacts DEF BeginCommand
<1>3. /\ stack' = [stack EXCEPT ![t] = n] /\ at' = at /\ driver' = driver
      /\ \/ id' = [id EXCEPT ![t] = ServingAs(t, c)]
         \/ id' = [id EXCEPT ![t] = enforceInterface(ServingAs(t, c), c)]
  BY Zenon DEF BeginCommand, Push
<1>4. PICK next \in Ids : HeaderOf(next) = kUnsetWorkSource /\ id' = [id EXCEPT ![t] = next]
  BY <1>2, <1>3, ServingFacts, Zenon
<1> HIDE DEF n
<1>5. n = <<[kind |-> "serving", orig |-> id[t]]>> \o stack[t]
  BY Zenon DEF n
<1>6. n \in Seq(Frame) /\ StackSound(n, next)
  BY <1>1, <1>4, <1>5, PushServing, Zenon
<1>7. Moves(t, n, next)
  BY <1>3, <1>4, <1>6, Zenon DEF Moves
<1> QED
  BY <1>3, <1>7, Zenon DEF n

LEMMA BeginSpawnMoves ==
  ASSUME TypeOK, StacksSound, NEW t \in Threads, BeginCommand(t), Head(mIn[t]).cmd # "BR_TRANSACTION"
  PROVE  /\ Moves(t, <<[kind |-> "spawning"]>> \o stack[t], id[t])
         /\ Head(mIn[t]).cmd = "BR_SPAWN_LOOPER"
         /\ \/ spawnPooledThread(FALSE) /\ driver' = driver
            \/ driver' = [driver EXCEPT !.ignored = TRUE] /\ at' = at
<1> DEFINE n == <<[kind |-> "spawning"]>> \o stack[t]
<1>1. /\ stack[t] \in Seq(Frame) /\ id[t] \in Ids /\ StackSound(stack[t], id[t])
      /\ stack[t] # <<>> => stack[t][1].kind = "calling"
  BY ThreadFacts, InFacts DEF StacksSound, BeginCommand
<1>2. /\ stack' = [stack EXCEPT ![t] = n] /\ id' = id
      /\ Head(mIn[t]).cmd = "BR_SPAWN_LOOPER"
      /\ \/ spawnPooledThread(FALSE) /\ driver' = driver
         \/ driver' = [driver EXCEPT !.ignored = TRUE] /\ at' = at
  BY Zenon DEF BeginCommand, Push
<1>3. id' = [id EXCEPT ![t] = id[t]]
  BY Zenon, <1>2, SameId
<1> HIDE DEF n
<1>4. n = <<[kind |-> "spawning"]>> \o stack[t]
  BY Zenon DEF n
<1>5. n \in Seq(Frame) /\ StackSound(n, id[t])
  BY <1>1, <1>4, PushSpawning, Zenon
<1>6. Moves(t, n, id[t])
  BY <1>1, <1>2, <1>3, <1>5, Zenon DEF Moves
<1> QED
  BY <1>2, <1>6, Zenon DEF n

(* EndCommand leaves what the command was executed in.                       *)
LEMMA EndCommandMoves ==
  ASSUME TypeOK, StacksSound, NEW t \in Threads, EndCommand(t)
  PROVE  \E i \in 1 .. Len(stack[t]), n \in Seq(Frame), next \in Ids :
           /\ Moves(t, n, next) /\ IsDrop(n, stack[t], i)
           /\ n # <<>> => n[1].kind = "calling" /\ at' = at
           /\ n = <<>> => at' = [at EXCEPT ![t] = "top"]
           /\ stack[t][1].kind \in HandlerKinds \cup {"spawning"}
           /\ stack[t][1].kind \in HandlerKinds => stack[t][i].kind = "serving"
           /\ stack[t][1].kind = "spawning" => i = 1
<1> DEFINE s == stack[t]
<1>1. s \in Seq(Frame) /\ id[t] \in Ids /\ StackSound(s, id[t])
  BY Zenon, ThreadFacts DEF StacksSound
<1>2. s # <<>> /\ s[1].kind \in HandlerKinds \cup {"spawning"}
  <2>1. In(t, HandlerKinds \cup {"spawning"})
    BY Zenon DEF EndCommand, InHandler, In, HandlerKinds
  <2> QED
    BY <2>1, InFacts, Zenon
<1>3. PICK i \in 1 .. Depth(t) :
        /\ IsInnermost(t, i)
        /\ stack' = [stack EXCEPT ![t] = SubSeq(s, i + 1, Depth(t))]
        /\ id' = IF s[i].kind = "serving" THEN [id EXCEPT ![t] = s[i].orig] ELSE id
        /\ at' = IF SubSeq(s, i + 1, Depth(t)) = <<>> THEN [at EXCEPT ![t] = "top"] ELSE at
  BY Zenon DEF EndCommand, RestoredTo
<1> DEFINE n == SubSeq(s, i + 1, Len(s))
           next == LeftAs(s, i, id[t])
<1>4. /\ i \in 1 .. Len(s) /\ s[i] \in Frame
      /\ stack' = [stack EXCEPT ![t] = n]
      /\ at' = IF n = <<>> THEN [at EXCEPT ![t] = "top"] ELSE at
  BY <1>1, <1>3 DEF Depth
<1>5. Innermost(s, i)
  BY <1>3 DEF IsInnermost, Commands, Depth, Innermost
<1>6. next \in Ids
  BY Zenon, <1>1, <1>4 DEF Frame, LeftAs
<1>7. id' = [id EXCEPT ![t] = next]
  <2>1. CASE s[i].kind = "serving"
    BY <1>3, <2>1, Zenon DEF LeftAs
  <2>2. CASE s[i].kind # "serving"
    BY <1>3, <2>2, SameId, Zenon DEF LeftAs
  <2> QED
    BY Zenon, <2>1, <2>2
<1>8. n \in Seq(Frame) /\ IsDrop(n, s, i)
  BY <1>1, <1>4, SubSeqFacts, Zenon
<1>9. next = LeftAs(s, i, id[t])
  BY Zenon
<1>10. s[1].kind = "spawning" => i = 1
  BY <1>1, <1>4, <1>5 DEF Innermost
<1> HIDE DEF n, next
<1>11. /\ StackSound(n, next)
       /\ n # <<>> => n[1].kind = "calling"
       /\ s[1].kind \in HandlerKinds => s[i].kind = "serving"
  <2> HIDE DEF s
  <2>1. i \in 1 .. Len(s)
    BY Zenon, <1>4
  <2>2. Leaves(s, id[t], i, n)
    BY <1>1, <1>2, <2>1, <1>5, <1>8, Zenon DEF Leaves
  <2>3. /\ StackSound(n, LeftAs(s, i, id[t]))
        /\ n # <<>> => n[1].kind = "calling"
        /\ s[1].kind \in HandlerKinds => s[i].kind = "serving"
    BY <2>2, LeaveCommand
  <2> QED
    BY <2>3, <1>9, Zenon
<1>12. Moves(t, n, next)
  BY <1>4, <1>6, <1>7, <1>8, <1>11, Zenon DEF Moves
<1> QED
  BY <1>2, <1>4, <1>6, <1>8, <1>10, <1>11, <1>12, Zenon

----------------------------------------------------------------------------
(* The ends of a stack, and the other stacks.                                *)

(* The lowest frame of a stack that is not left whole.                       *)
LEMMA BottomStays ==
  ASSUME NEW S, NEW s \in Seq(S), NEW d \in Seq(S), NEW k, IsDrop(d, s, k), d # <<>>
  PROVE  s # <<>> /\ d[Len(d)] = s[Len(s)]
  BY DEF IsDrop

(* The lowest frame below a handler serves a transaction.                    *)
LEMMA BottomServes ==
  ASSUME NEW s \in Seq(Frame), FramesSound(s), s # <<>>, s[1].kind \in HandlerKinds
  PROVE  s[Len(s)].kind = "serving"
<1>1. Len(s) \in 1 .. Len(s) /\ FrameSound(s, Len(s)) /\ ~(Len(s) < Len(s))
  BY DEF FramesSound
<1>2. s[Len(s)].kind \in {"serving", "spawning"}
  BY Zenon, <1>1 DEF FrameSound, Placed
<1>3. CASE Len(s) = 1
  BY Zenon, <1>2, <1>3 DEF HandlerKinds
<1>4. CASE Len(s) # 1
  <2>1. Len(s) - 1 \in 1 .. Len(s) /\ (Len(s) - 1) + 1 = Len(s)
    <3>1. ASSUME NEW l \in Nat, l # 0, l # 1 PROVE l - 1 \in 1 .. l /\ (l - 1) + 1 = l
      BY <3>1
    <3>2. Len(s) \in Nat /\ Len(s) # 0
      OBVIOUS
    <3> QED
      BY <1>4, <3>1, <3>2, Zenon
  <2>2. FrameSound(s, Len(s) - 1)
    BY Zenon, <2>1 DEF FramesSound
  <2>3. s[Len(s)].kind \in HandlerKinds \cup {"calling"}
    BY <2>1, <2>2 DEF FrameSound, Placed
  <2> QED
    BY Zenon, <1>2, <2>3 DEF HandlerKinds
<1> QED
  BY Zenon, <1>3, <1>4

(* What a step shows of the stacks.                                          *)
LEMMA MovesShow ==
  ASSUME TypeOK, NEW t \in Threads, NEW n, NEW next, Moves(t, n, next)
  PROVE  /\ stack'[t] = n
         /\ In(t, HandlerKinds)' => n # <<>> /\ n[1].kind \in HandlerKinds
         /\ \A u \in Threads \ {t} : stack'[u] = stack[u]
         /\ \A u \in Threads \ {t} : In(u, HandlerKinds)' <=> In(u, HandlerKinds)
<1>1. stack'[t] = n /\ \A u \in Threads \ {t} : stack'[u] = stack[u]
  BY Zenon DEF TypeOK, Moves
<1>2. n # <<>> => Head(n) = n[1]
  BY DEF Moves
<1> QED
  BY <1>1, <1>2, Zenon DEF In, Top

----------------------------------------------------------------------------
(* Where a thread is, and what it still holds there.                         *)
PlaceSound(t) ==
  /\ stack[t] # <<>> => at[t] = "busy"
  /\ at[t] \in {"outside", "spawned", "spawnedMain"} => mOut[t] = <<>>
  /\ at[t] \in {"outside", "spawned", "spawnedMain", "waiting"} => mIn[t] = <<>>
  /\ \A i \in 1 .. Len(mIn[t]) : mIn[t][i].cmd = "BR_TRANSACTION" => i = Len(mIn[t])
  /\ In(t, HandlerKinds) => mIn[t] = <<>>
  /\ at[t] \in {"top", "busy", "waiting", "leaving"} => t \in mThreadPoolSet
PlacesSound == \A t \in Threads : PlaceSound(t)

(* The thread that is in requestExit, or has been.                           *)
ExiterSound ==
  exit.at # "no"
  => /\ exit.by \in Threads
     /\ \/ exit.at = "done"
        \/ exit.by = MainThread /\ at[exit.by] = "outside"
        \/ In(exit.by, HandlerKinds)
     /\ at[exit.by] # "waiting"
     /\ at[exit.by] = "busy" => /\ stack[exit.by] # <<>>
                                /\ stack[exit.by][Len(stack[exit.by])].kind = "serving"

(* Who is in the pool once requestExit has seen it empty, and with what.     *)
ExitSound ==
  /\ exit.at = "done" <=> mExitRequested
  /\ exit.at \in {"flushed", "done"}
     => \A t \in mThreadPoolSet : \/ t = exit.by \/ t \in exit.late
                                  \/ exit.at = "done" /\ at[t] \in {"top", "leaving"}
  /\ \A t \in Threads \ exit.late :
       /\ at[t] \in {"leaving", "left"} => mIn[t] = <<>>
       /\ exit.at = "done" /\ at[t] = "top" => mIn[t] = <<>>

(* The inductive invariant.                                                  *)
IInv == TypeOK /\ StacksSound /\ PlacesSound /\ ExiterSound /\ ExitSound /\ RequestsAnswered
----------------------------------------------------------------------------
(* The steps.                                                                *)

(* What a handler does to its stack, and the end of a call it made.          *)
LEMMA HandlerStep ==
  ASSUME IInv, NEW t \in Threads, NEW n, NEW next, Moves(t, n, next),
         UNCHANGED <<mThreadPoolSet, mExitRequested, at, mOut, mIn, exit, driver>>,
         stack[t] # <<>>, n # <<>>, n[Len(n)] = stack[t][Len(stack[t])],
         n[1].kind \in HandlerKinds => mIn[t] = <<>>,
         exit.at # "no" /\ exit.by = t => exit.at = "done"
  PROVE  IInv'
<1> USE DEF IInv
<1>1. stack' \in [Threads -> Seq(Frame)] /\ id' \in [Threads -> Ids] /\ StacksSound'
  BY Zenon, MovesSound
<1>2. TypeOK'
  BY Zenon, <1>1 DEF TypeOK
<1>3. /\ stack'[t] = n
      /\ In(t, HandlerKinds)' => n # <<>> /\ n[1].kind \in HandlerKinds
      /\ \A u \in Threads \ {t} : stack'[u] = stack[u]
      /\ \A u \in Threads \ {t} : In(u, HandlerKinds)' <=> In(u, HandlerKinds)
  BY Zenon, MovesShow
<1>4. PlacesSound'
  <2> SUFFICES ASSUME NEW u \in Threads PROVE PlaceSound(u)'
    BY Zenon DEF PlacesSound
  <2>1. CASE u = t
    BY Zenon, <1>3, <2>1 DEF PlacesSound, PlaceSound
  <2>2. CASE u # t
    BY Zenon, <1>3, <2>2 DEF PlacesSound, PlaceSound
  <2> QED
    BY Zenon, <2>1, <2>2
<1>5. ExiterSound'
  <2>1. CASE exit.at # "no" /\ exit.by = t
    BY Zenon, <1>3, <2>1 DEF ExiterSound
  <2>2. CASE exit.at # "no" /\ exit.by # t
    BY Zenon, <1>3, <2>2 DEF ExiterSound
  <2>3. CASE exit.at = "no"
    BY Zenon, <2>3 DEF ExiterSound
  <2> QED
    BY Zenon, <2>1, <2>2, <2>3
<1>6. ExitSound'
  BY Zenon DEF ExitSound
<1>7. RequestsAnswered'
  BY Zenon DEF RequestsAnswered, Registers
<1> QED
  BY Zenon, <1>1, <1>2, <1>4, <1>5, <1>6, <1>7

(* A thread in a handler is not the one that is in requestExit.              *)
LEMMA InHandlerFacts ==
  ASSUME IInv, NEW t \in Threads, InHandler(t)
  PROVE  /\ stack[t] # <<>> /\ stack[t][1].kind \in HandlerKinds /\ mIn[t] = <<>>
         /\ exit.at # "no" /\ exit.by = t => exit.at = "done"
<1>1. In(t, HandlerKinds) /\ (exit.by = t => exit.at \in {"no", "done"})
  BY Zenon DEF InHandler, HandlerKinds
<1>2. stack[t] # <<>> /\ stack[t][1].kind \in HandlerKinds
  BY <1>1, InFacts, Zenon DEF IInv
<1> QED
  BY Zenon, <1>1, <1>2 DEF IInv, PlacesSound, PlaceSound

(* transact, clearCallingIdentity, setCallingWorkSourceUid.                  *)
LEMMA PushStep ==
  ASSUME IInv, NEW t \in Threads, NEW f \in Frame, NEW next, Moves(t, <<f>> \o stack[t], next), InHandler(t),
         UNCHANGED <<mThreadPoolSet, mExitRequested, at, mOut, mIn, exit, driver>>
  PROVE  IInv'
<1> DEFINE n == <<f>> \o stack[t]
<1>1. /\ stack[t] # <<>> /\ stack[t][1].kind \in HandlerKinds /\ mIn[t] = <<>>
      /\ exit.at # "no" /\ exit.by = t => exit.at = "done"
  BY InHandlerFacts, Zenon
<1>2. stack[t] \in Seq(Frame)
  BY Zenon DEF IInv, TypeOK
<1>3. n \in Seq(Frame) /\ n # <<>> /\ IsDrop(stack[t], n, 1)
  BY Zenon, <1>2, ConsFacts
<1> HIDE DEF n
<1>4. n[Len(n)] = stack[t][Len(stack[t])]
  BY <1>1, <1>2, <1>3, BottomStays
<1>5. Moves(t, n, next)
  BY Zenon DEF n
<1> QED
  BY <1>1, <1>3, <1>4, <1>5, HandlerStep, Zenon

(* restoreCallingIdentity, restoreCallingWorkSource and the reply of a call. *)
LEMMA PopStep ==
  ASSUME IInv, NEW t \in Threads, NEW next, Moves(t, Tail(stack[t]), next),
         stack[t] # <<>>, Tail(stack[t]) # <<>>, mIn[t] = <<>>,
         exit.at # "no" /\ exit.by = t => exit.at = "done",
         UNCHANGED <<mThreadPoolSet, mExitRequested, at, mOut, mIn, exit, driver>>
  PROVE  IInv'
<1>1. stack[t] \in Seq(Frame)
  BY Zenon DEF IInv, TypeOK
<1>2. Tail(stack[t]) \in Seq(Frame) /\ IsDrop(Tail(stack[t]), stack[t], 1)
  BY <1>1, TailFacts, Zenon
<1> DEFINE n == Tail(stack[t])
<1>3. n \in Seq(Frame) /\ IsDrop(n, stack[t], 1) /\ n # <<>> /\ Moves(t, n, next)
  BY Zenon, <1>2
<1> HIDE DEF n
<1>4. n[Len(n)] = stack[t][Len(stack[t])]
  BY <1>1, <1>3, BottomStays
<1> QED
  BY <1>3, <1>4, HandlerStep, Zenon

(* The steps of a handler.                                                   *)
LEMMA HandleStep ==
  ASSUME IInv, NEW t \in Threads,
         \/ transact(t) \/ clearCallingIdentity(t) \/ restoreCallingIdentity(t) \/ restoreCallingWorkSource(t)
         \/ \E uid \in WorkSources \cup {kUnsetWorkSource} : setCallingWorkSourceUid(t, uid)
         \/ ReadReply(t)
  PROVE  IInv'
<1>1. TypeOK /\ StacksSound
  BY Zenon DEF IInv
<1>2. CASE transact(t)
  <2> DEFINE f == [kind |-> "calling", was |-> id[t], header |-> Header(t)]
  <2>1. Moves(t, <<f>> \o stack[t], id[t])
    BY Zenon, <1>1, <1>2, TransactMoves
  <2>2. f \in Frame
    <3>1. id[t] \in Ids /\ Header(t) \in WorkSource
      BY Zenon, <1>1, ThreadFacts DEF Ids, HeaderOf, WorkSource
    <3> QED
      BY Zenon, <3>1 DEF Frame
  <2>3. InHandler(t) /\ UNCHANGED <<mThreadPoolSet, mExitRequested, at, mOut, mIn, exit, driver>>
    BY Zenon, <1>2 DEF transact, pool
  <2> HIDE DEF f
  <2> QED
    BY <2>1, <2>2, <2>3, PushStep, Zenon
<1>3. CASE clearCallingIdentity(t)
  <2>1. InHandler(t) /\ UNCHANGED <<mThreadPoolSet, mExitRequested, at, mOut, mIn, exit, driver>>
    BY Zenon, <1>3 DEF clearCallingIdentity, Change, pool
  <2> QED
    BY <1>1, <1>3, <2>1, ClearIdentityMoves, PushStep, Zenon
<1>4. CASE \E uid \in WorkSources \cup {kUnsetWorkSource} : setCallingWorkSourceUid(t, uid)
  <2>0. PICK uid \in WorkSources \cup {kUnsetWorkSource} : setCallingWorkSourceUid(t, uid)
    BY Zenon, <1>4
  <2>1. InHandler(t) /\ UNCHANGED <<mThreadPoolSet, mExitRequested, at, mOut, mIn, exit, driver>>
    BY <2>0, Zenon DEF setCallingWorkSourceUid, Change, pool
  <2>2. PICK f \in Frame, next \in Ids : Moves(t, <<f>> \o stack[t], next)
    BY <1>1, <2>0, SetWorkSourceMoves, Zenon
  <2> QED
    BY <2>1, <2>2, PushStep, Zenon
<1>5. CASE restoreCallingIdentity(t) \/ restoreCallingWorkSource(t)
  <2>1. /\ InHandler(t) /\ Top(t).kind \in {"identity", "workSource"}
        /\ UNCHANGED <<mThreadPoolSet, mExitRequested, at, mOut, mIn, exit, driver>>
    BY Zenon, <1>5 DEF restoreCallingIdentity, restoreCallingWorkSource, Undo, pool
  <2>2. PICK next \in Ids : Moves(t, Tail(stack[t]), next)
    BY <1>1, <1>5, RestoreIdentityMoves, RestoreWorkSourceMoves, Zenon
  <2>3. /\ stack[t] # <<>> /\ mIn[t] = <<>>
        /\ exit.at # "no" /\ exit.by = t => exit.at = "done"
    BY <2>1, InHandlerFacts, Zenon
  <2>4. Tail(stack[t]) # <<>>
    <3>1. stack[t] \in Seq(Frame) /\ Top(t) = stack[t][1] /\ FrameSound(stack[t], 1)
      BY <1>1, <2>3, ThreadFacts DEF StacksSound, StackSound, FramesSound
    <3>2. 1 < Len(stack[t])
      BY Zenon, <2>1, <3>1 DEF FrameSound, Placed
    <3> QED
      BY <3>1, <3>2, TailLeft, Zenon
  <2> QED
    BY <2>1, <2>2, <2>3, <2>4, PopStep, Zenon
<1>6. CASE ReadReply(t)
  <2>1. /\ Moves(t, Tail(stack[t]), id[t]) /\ Tail(stack[t]) # <<>>
    BY <1>1, <1>6, ReadReplyMoves, Zenon
  <2>2. /\ In(t, {"calling"}) /\ mIn[t] = <<>>
        /\ UNCHANGED <<mThreadPoolSet, mExitRequested, at, mOut, mIn, exit, driver>>
    BY Zenon, <1>6 DEF ReadReply, pool
  <2>3. stack[t] # <<>> /\ ~In(t, HandlerKinds)
    BY Zenon, <2>2 DEF In, HandlerKinds
  <2>4. exit.at # "no" /\ exit.by = t => exit.at = "done"
    BY Zenon, <2>3 DEF IInv, ExiterSound, PlacesSound, PlaceSound
  <2> QED
    BY <2>1, <2>2, <2>3, <2>4, PopStep, Zenon
<1> QED
  BY Zenon, <1>2, <1>3, <1>4, <1>5, <1>6

(* A step that moves no stack.                                               *)
LEMMA SameStacks ==
  ASSUME IInv, UNCHANGED <<stack, id>>
  PROVE  /\ stack' \in [Threads -> Seq(Frame)] /\ id' \in [Threads -> Ids] /\ StacksSound'
         /\ \A u \in Threads : In(u, HandlerKinds)' <=> In(u, HandlerKinds)
<1>1. stack' \in [Threads -> Seq(Frame)] /\ id' \in [Threads -> Ids] /\ StacksSound'
  BY Zenon, StacksStay DEF IInv
<1> QED
  BY <1>1, Zenon DEF In, Top

(* A thread that is not busy has no frames.                                  *)
LEMMA NotBusy ==
  ASSUME IInv, NEW t \in Threads, at[t] # "busy"
  PROVE  stack[t] = <<>> /\ ~In(t, HandlerKinds)
  BY Zenon DEF IInv, PlacesSound, PlaceSound, In

(* Who is about to answer the driver.                                        *)
Answers(t) == \/ at[t] = "spawned"
              \/ Registers(t)
              \/ \E i \in DOMAIN mIn[t] : mIn[t][i].cmd = "BR_SPAWN_LOOPER"

LEMMA StillAnswered ==
  ASSUME RequestsAnswered, driver'.requested => driver.requested, driver.ignored => driver'.ignored,
         \A u \in Threads : Answers(u) => \E w \in Threads : Answers(w)'
  PROVE  RequestsAnswered'
  BY Zenon DEF RequestsAnswered, Answers

LEMMA JoinStep ==
  ASSUME IInv, NEW t \in Threads, joinThreadPool(t)
  PROVE  IInv'
<1> USE DEF IInv
<1>1. /\ at[t] \in {"spawned", "spawnedMain"} \/ (t = MainThread /\ at[t] = "outside" /\ exit.by # t)
      /\ mThreadPoolSet' = mThreadPoolSet \cup {t}
      /\ mOut' = [mOut EXCEPT ![t] = <<IF at[t] = "spawned" THEN "BC_REGISTER_LOOPER" ELSE "BC_ENTER_LOOPER">>]
      /\ at' = [at EXCEPT ![t] = "top"]
      /\ exit' = IF exit.at = "flushed" THEN [exit EXCEPT !.late = @ \cup {t}] ELSE exit
      /\ UNCHANGED <<mExitRequested, mIn, stack, id, driver>>
  BY Zenon DEF joinThreadPool, calls
<1>2. stack[t] = <<>> /\ ~In(t, HandlerKinds) /\ mOut[t] = <<>> /\ mIn[t] = <<>>
  BY Zenon, <1>1, NotBusy DEF PlacesSound, PlaceSound
<1>3. /\ stack' \in [Threads -> Seq(Frame)] /\ id' \in [Threads -> Ids] /\ StacksSound'
      /\ \A u \in Threads : In(u, HandlerKinds)' <=> In(u, HandlerKinds)
  BY Zenon, <1>1, SameStacks
<1>4. /\ exit' \in ExitState
      /\ exit'.at = exit.at /\ exit'.by = exit.by /\ exit.late \subseteq exit'.late
      /\ exit.at = "flushed" => t \in exit'.late
  <2>1. exit \in ExitState
    BY Zenon DEF TypeOK
  <2>2. CASE exit.at = "flushed"
    <3>1. exit' = [exit EXCEPT !.late = exit.late \cup {t}]
      BY Zenon, <1>1, <2>2
    <3>2. exit.late \cup {t} \in SUBSET Threads
      BY Zenon, <2>1 DEF ExitState
    <3> QED
      BY Zenon, <2>1, <2>2, <3>1, <3>2 DEF ExitState
  <2>3. CASE exit.at # "flushed"
    BY Zenon, <1>1, <2>1, <2>3
  <2> QED
    BY Zenon, <2>2, <2>3
<1>5. TypeOK'
  BY <1>1, <1>3, <1>4 DEF TypeOK, Place
<1>6. /\ at'[t] = "top" /\ \A u \in Threads \ {t} : at'[u] = at[u] /\ mOut'[u] = mOut[u]
      /\ at[t] = "spawned" => mOut'[t] = <<"BC_REGISTER_LOOPER">>
  BY Zenon, <1>1 DEF TypeOK
<1>7. PlacesSound'
  <2> SUFFICES ASSUME NEW u \in Threads PROVE PlaceSound(u)'
    BY Zenon DEF PlacesSound
  <2>1. CASE u = t
    BY Zenon, <1>1, <1>2, <1>3, <1>6, <2>1 DEF PlacesSound, PlaceSound
  <2>2. CASE u # t
    BY Zenon, <1>1, <1>3, <1>6, <2>2 DEF PlacesSound, PlaceSound
  <2> QED
    BY Zenon, <2>1, <2>2
<1>8. ExiterSound'
  <2>1. CASE exit.at # "no" /\ exit.by = t
    BY Zenon, <1>1, <1>2, <1>3, <1>4, <1>6, <2>1 DEF ExiterSound
  <2>2. CASE exit.at # "no" /\ exit.by # t
    BY <1>1, <1>3, <1>4, <1>6, <2>2 DEF ExiterSound
  <2>3. CASE exit.at = "no"
    BY Zenon, <1>4, <2>3 DEF ExiterSound
  <2> QED
    BY Zenon, <2>1, <2>2, <2>3
<1>9. ExitSound'
  <2>1. exit'.at = "done" <=> mExitRequested'
    BY Zenon, <1>1, <1>4 DEF ExitSound
  <2>2. ASSUME exit'.at \in {"flushed", "done"}, NEW u \in mThreadPoolSet'
        PROVE  u = exit'.by \/ u \in exit'.late \/ (exit'.at = "done" /\ at'[u] \in {"top", "leaving"})
    BY Zenon, <1>1, <1>4, <1>6, <2>2 DEF ExitSound, TypeOK
  <2>3. ASSUME NEW u \in Threads \ exit'.late
        PROVE  /\ at'[u] \in {"leaving", "left"} => mIn'[u] = <<>>
               /\ exit'.at = "done" /\ at'[u] = "top" => mIn'[u] = <<>>
    BY Zenon, <1>1, <1>2, <1>4, <1>6 DEF ExitSound
  <2> QED
    BY Zenon, <2>1, <2>2, <2>3 DEF ExitSound
<1>10. RequestsAnswered'
  <2>1. ASSUME NEW u \in Threads, Answers(u) PROVE Answers(u)'
    <3>1. CASE u = t
      <4>1. at[t] = "spawned"
        BY <1>2, <2>1, <3>1 DEF Registers, Answers
      <4> QED
        BY <1>6, <3>1, <4>1 DEF Registers, Answers
    <3>2. CASE u # t
      BY Zenon, <1>1, <1>6, <2>1, <3>2 DEF Registers, Answers
    <3> QED
      BY Zenon, <3>1, <3>2
  <2> QED
    BY Zenon, <1>1, <2>1, StillAnswered
<1> QED
  BY Zenon, <1>3, <1>5, <1>7, <1>8, <1>9, <1>10

(* What the driver counts.                                                   *)
LEMMA AnnouncedFacts ==
  ASSUME TypeOK, NEW t \in Threads
  PROVE  /\ Announced(t) \in DriverState
         /\ Announced(t).ignored = driver.ignored
         /\ ~Registers(t) => Announced(t) = driver
         /\ Registers(t) => Announced(t).requested = FALSE
<1>1. driver \in DriverState
  BY Zenon DEF TypeOK
<1>2. CASE Registers(t)
  <2> DEFINE a == [driver EXCEPT !.requested = FALSE]
             b == [a EXCEPT !.started = a.started + 1]
  <2>1. a \in DriverState /\ a.requested = FALSE /\ a.ignored = driver.ignored
    BY <1>1, Zenon DEF DriverState
  <2>2. a.started = driver.started /\ a.started + 1 \in Nat
    BY <1>1 DEF DriverState
  <2> HIDE DEF a
  <2>3. b \in DriverState /\ b.requested = FALSE /\ b.ignored = driver.ignored
    BY <2>1, <2>2, Zenon DEF DriverState
  <2>4. Announced(t) = b
    BY Zenon, <1>1, <1>2, <2>2 DEF Announced, a, DriverState
  <2> HIDE DEF b
  <2> QED
    BY <1>2, <2>3, <2>4, Zenon
<1>3. CASE ~Registers(t)
  BY <1>1, <1>3, Zenon DEF Announced
<1> QED
  BY <1>2, <1>3, Zenon

LEMMA NothingToWrite ==
  ASSUME TypeOK, NEW t \in Threads, mOut' = [mOut EXCEPT ![t] = <<>>]
  PROVE  /\ mOut' \in [Threads -> Seq({"BC_REGISTER_LOOPER", "BC_ENTER_LOOPER"})]
         /\ mOut'[t] = <<>> /\ \A u \in Threads \ {t} : mOut'[u] = mOut[u]
<1> DEFINE S == Seq({"BC_REGISTER_LOOPER", "BC_ENTER_LOOPER"})
<1>1. <<>> \in S
  OBVIOUS
<1>2. mOut \in [Threads -> S]
  BY Zenon DEF TypeOK
<1> HIDE DEF S
<1>3. /\ mOut' \in [Threads -> S]
      /\ mOut'[t] = <<>> /\ \A u \in Threads \ {t} : mOut'[u] = mOut[u]
  BY Zenon, <1>1, <1>2
<1> QED
  BY Zenon, <1>3 DEF S

LEMMA LoopTopStep ==
  ASSUME IInv, NEW t \in Threads, LoopTop(t)
  PROVE  IInv'
<1> USE DEF IInv
<1>1. PICK p \in {"leaving", "busy", "waiting"} :
        /\ at[t] = "top" /\ at' = [at EXCEPT ![t] = p]
        /\ p = "leaving" <=> mExitRequested
        /\ p = "waiting" => mIn[t] = <<>> /\ driver' = Announced(t) /\ mOut' = [mOut EXCEPT ![t] = <<>>]
        /\ p # "waiting" => UNCHANGED <<driver, mOut>>
        /\ UNCHANGED <<mThreadPoolSet, mExitRequested, mIn, stack, id, exit>>
  <2>1. at[t] = "top" /\ UNCHANGED <<mThreadPoolSet, mExitRequested, mIn, stack, id, exit>>
    BY Zenon DEF LoopTop, pool, calls
  <2>2. CASE mExitRequested
    BY Zenon, <2>1, <2>2 DEF LoopTop
  <2>3. CASE ~mExitRequested /\ mIn[t] # <<>>
    BY Zenon, <2>1, <2>3 DEF LoopTop
  <2>4. CASE ~mExitRequested /\ mIn[t] = <<>>
    BY Zenon, <2>1, <2>4 DEF LoopTop, Writes
  <2> QED
    BY Zenon, <2>2, <2>3, <2>4
<1>2. stack[t] = <<>> /\ ~In(t, HandlerKinds) /\ t \in mThreadPoolSet
  BY Zenon, <1>1, NotBusy DEF PlacesSound, PlaceSound
<1>3. /\ stack' \in [Threads -> Seq(Frame)] /\ id' \in [Threads -> Ids] /\ StacksSound'
      /\ \A u \in Threads : In(u, HandlerKinds)' <=> In(u, HandlerKinds)
  BY Zenon, <1>1, SameStacks
<1>4. /\ driver' \in DriverState
      /\ mOut' \in [Threads -> Seq({"BC_REGISTER_LOOPER", "BC_ENTER_LOOPER"})]
      /\ driver'.ignored = driver.ignored
      /\ (driver' = driver /\ (mOut'[t] = mOut[t] \/ ~Registers(t))) \/ driver'.requested = FALSE
  <2>1. CASE p = "waiting"
    <3>1. driver' \in DriverState /\ driver'.ignored = driver.ignored
          /\ (~Registers(t) => driver' = driver) /\ (Registers(t) => driver'.requested = FALSE)
      BY <1>1, <2>1, AnnouncedFacts, Zenon
    <3>2. mOut' \in [Threads -> Seq({"BC_REGISTER_LOOPER", "BC_ENTER_LOOPER"})]
      BY <1>1, <2>1, NothingToWrite, Zenon
    <3> QED
      BY <3>1, <3>2, Zenon
  <2>2. CASE p # "waiting"
    BY <1>1, <2>2, Zenon DEF TypeOK
  <2> QED
    BY <2>1, <2>2, Zenon
<1>5. TypeOK'
  <2>1. at' \in [Threads -> Place]
    BY Zenon, <1>1 DEF TypeOK, Place
  <2> QED
    BY <1>1, <1>3, <1>4, <2>1, Zenon DEF TypeOK
<1>6. at'[t] = p /\ \A u \in Threads \ {t} : at'[u] = at[u] /\ mOut'[u] = mOut[u]
  BY Zenon, <1>1 DEF TypeOK
<1>7. PlacesSound'
  <2> SUFFICES ASSUME NEW u \in Threads PROVE PlaceSound(u)'
    BY Zenon DEF PlacesSound
  <2>1. CASE u = t
    BY Zenon, <1>1, <1>2, <1>3, <1>6, <2>1 DEF PlacesSound, PlaceSound
  <2>2. CASE u # t
    BY Zenon, <1>1, <1>3, <1>6, <2>2 DEF PlacesSound, PlaceSound
  <2> QED
    BY Zenon, <2>1, <2>2
<1>8. ExiterSound'
  <2>1. CASE exit.at # "no" /\ exit.by = t
    <3>1. exit.at = "done"
      BY Zenon, <1>1, <1>2, <2>1 DEF ExiterSound
    <3>2. p = "leaving"
      BY Zenon, <1>1, <3>1 DEF ExitSound
    <3> QED
      BY Zenon, <1>1, <1>6, <2>1, <3>1, <3>2 DEF ExiterSound
  <2>2. CASE exit.at # "no" /\ exit.by # t
    BY Zenon, <1>1, <1>3, <1>6, <2>2 DEF ExiterSound
  <2>3. CASE exit.at = "no"
    BY Zenon, <1>1, <2>3 DEF ExiterSound
  <2> QED
    BY Zenon, <2>1, <2>2, <2>3
<1>9. ExitSound'
  <2>1. exit'.at = "done" <=> mExitRequested'
    BY Zenon, <1>1 DEF ExitSound
  <2>2. ASSUME exit'.at \in {"flushed", "done"}, NEW u \in mThreadPoolSet'
        PROVE  u = exit'.by \/ u \in exit'.late \/ (exit'.at = "done" /\ at'[u] \in {"top", "leaving"})
    <3>1. CASE u = t
      BY Zenon, <1>1, <1>6, <2>1, <2>2, <3>1 DEF ExitSound
    <3>2. CASE u # t
      BY Zenon, <1>1, <1>6, <2>2, <3>2 DEF ExitSound, TypeOK
    <3> QED
      BY Zenon, <3>1, <3>2
  <2>3. ASSUME NEW u \in Threads \ exit'.late
        PROVE  /\ at'[u] \in {"leaving", "left"} => mIn'[u] = <<>>
               /\ exit'.at = "done" /\ at'[u] = "top" => mIn'[u] = <<>>
    BY Zenon, <1>1, <1>6 DEF ExitSound
  <2> QED
    BY Zenon, <2>1, <2>2, <2>3 DEF ExitSound
<1>10. RequestsAnswered'
  <2>1. CASE driver'.requested = FALSE
    BY Zenon, <2>1 DEF RequestsAnswered
  <2>2. CASE driver' = driver /\ (mOut'[t] = mOut[t] \/ ~Registers(t))
    <3>1. ASSUME NEW u \in Threads, Answers(u) PROVE Answers(u)'
      BY <1>1, <1>6, <2>2, <3>1 DEF Registers, Answers
    <3> QED
      BY Zenon, <2>2, <3>1, StillAnswered
  <2> QED
    BY <1>4, <2>1, <2>2, Zenon
<1> QED
  BY Zenon, <1>3, <1>5, <1>7, <1>8, <1>9, <1>10

LEMMA LeaveStep ==
  ASSUME IInv, NEW t \in Threads, leaveThreadPool(t)
  PROVE  IInv'
<1> USE DEF IInv
<1>1. /\ at[t] = "leaving" /\ at' = [at EXCEPT ![t] = "left"]
      /\ driver' = Announced(t) /\ mOut' = [mOut EXCEPT ![t] = <<>>]
      /\ mThreadPoolSet' = mThreadPoolSet \ {t}
      /\ UNCHANGED <<mExitRequested, mIn, stack, id, exit>>
  BY Zenon DEF leaveThreadPool, Writes, calls
<1>2. stack[t] = <<>> /\ ~In(t, HandlerKinds)
  BY Zenon, <1>1, NotBusy DEF PlacesSound, PlaceSound
<1>3. /\ stack' \in [Threads -> Seq(Frame)] /\ id' \in [Threads -> Ids] /\ StacksSound'
      /\ \A u \in Threads : In(u, HandlerKinds)' <=> In(u, HandlerKinds)
  BY Zenon, <1>1, SameStacks
<1>4. /\ driver' \in DriverState /\ driver'.ignored = driver.ignored
      /\ ~Registers(t) => driver' = driver
      /\ Registers(t) => driver'.requested = FALSE
  BY <1>1, AnnouncedFacts, Zenon
<1>5. /\ mOut' \in [Threads -> Seq({"BC_REGISTER_LOOPER", "BC_ENTER_LOOPER"})]
      /\ \A u \in Threads \ {t} : mOut'[u] = mOut[u]
  BY <1>1, NothingToWrite, Zenon
<1>6. at'[t] = "left" /\ \A u \in Threads \ {t} : at'[u] = at[u]
  BY Zenon, <1>1 DEF TypeOK
<1>7. TypeOK'
  <2>1. at' \in [Threads -> Place] /\ mThreadPoolSet' \in SUBSET Threads
    BY Zenon, <1>1 DEF TypeOK, Place
  <2> QED
    BY <1>1, <1>3, <1>4, <1>5, <2>1, Zenon DEF TypeOK
<1>8. PlacesSound'
  <2> SUFFICES ASSUME NEW u \in Threads PROVE PlaceSound(u)'
    BY Zenon DEF PlacesSound
  <2>1. CASE u = t
    BY Zenon, <1>1, <1>2, <1>3, <1>6, <2>1 DEF PlacesSound, PlaceSound
  <2>2. CASE u # t
    BY Zenon, <1>1, <1>3, <1>5, <1>6, <2>2 DEF PlacesSound, PlaceSound
  <2> QED
    BY Zenon, <2>1, <2>2
<1>9. ExiterSound'
  <2>1. CASE exit.at # "no" /\ exit.by = t
    BY Zenon, <1>1, <1>2, <1>6, <2>1 DEF ExiterSound
  <2>2. CASE exit.at # "no" /\ exit.by # t
    BY Zenon, <1>1, <1>3, <1>6, <2>2 DEF ExiterSound
  <2>3. CASE exit.at = "no"
    BY Zenon, <1>1, <2>3 DEF ExiterSound
  <2> QED
    BY Zenon, <2>1, <2>2, <2>3
<1>10. ExitSound'
  <2>1. ASSUME exit'.at \in {"flushed", "done"}, NEW u \in mThreadPoolSet'
        PROVE  u = exit'.by \/ u \in exit'.late \/ (exit'.at = "done" /\ at'[u] \in {"top", "leaving"})
    BY Zenon, <1>1, <1>6, <2>1 DEF ExitSound, TypeOK
  <2>2. ASSUME NEW u \in Threads \ exit'.late
        PROVE  /\ at'[u] \in {"leaving", "left"} => mIn'[u] = <<>>
               /\ exit'.at = "done" /\ at'[u] = "top" => mIn'[u] = <<>>
    BY Zenon, <1>1, <1>6 DEF ExitSound
  <2> QED
    BY Zenon, <1>1, <2>1, <2>2 DEF ExitSound
<1>11. RequestsAnswered'
  <2>1. CASE Registers(t)
    BY <1>4, <2>1, Zenon DEF RequestsAnswered
  <2>2. CASE ~Registers(t)
    <3>1. ASSUME NEW u \in Threads, Answers(u) PROVE Answers(u)'
      BY Zenon, <1>1, <1>5, <1>6, <2>2, <3>1 DEF Registers, Answers
    <3> QED
      BY <1>4, <2>2, <3>1, StillAnswered, Zenon
  <2> QED
    BY Zenon, <2>1, <2>2
<1> QED
  BY Zenon, <1>3, <1>7, <1>8, <1>9, <1>10, <1>11

----------------------------------------------------------------------------
(* The pool grows, and requestExit.                                          *)

(* A new thread of the pool is at the start of joinThreadPool.               *)
LEMMA SpawnPlaces ==
  ASSUME TypeOK, PlacesSound, NEW isMain \in BOOLEAN, spawnPooledThread(isMain)
  PROVE  \E f \in Threads \ {MainThread} :
           /\ at[f] = "outside" /\ at' = [at EXCEPT ![f] = SpawnedAs(isMain)]
           /\ at' \in [Threads -> Place]
           /\ at'[f] = SpawnedAs(isMain) /\ SpawnedAs(isMain) \in {"spawned", "spawnedMain"}
           /\ \A u \in Threads \ {f} : at'[u] = at[u]
           /\ stack[f] = <<>> /\ mIn[f] = <<>> /\ mOut[f] = <<>>
<1> DEFINE f == CHOOSE t \in Free : TRUE
<1>1. f \in Free
  BY Zenon DEF spawnPooledThread
<1>2. f \in Threads \ {MainThread} /\ at[f] = "outside"
  BY Zenon, <1>1 DEF Free
<1>3. at' = [at EXCEPT ![f] = SpawnedAs(isMain)]
  BY Zenon DEF spawnPooledThread
<1>4. SpawnedAs(isMain) \in {"spawned", "spawnedMain"}
  BY Zenon DEF SpawnedAs
<1> HIDE DEF f
<1>5. stack[f] = <<>> /\ mIn[f] = <<>> /\ mOut[f] = <<>>
  BY Zenon, <1>2 DEF PlacesSound, PlaceSound
<1>6. /\ at' \in [Threads -> Place]
      /\ at'[f] = SpawnedAs(isMain) /\ \A u \in Threads \ {f} : at'[u] = at[u]
  BY Zenon, <1>2, <1>3, <1>4 DEF TypeOK, Place
<1> QED
  BY <1>2, <1>3, <1>4, <1>5, <1>6, Zenon

LEMMA SpawnStep ==
  ASSUME IInv, NEW isMain \in BOOLEAN, spawnPooledThread(isMain), exit.at = "no",
         UNCHANGED <<mThreadPoolSet, mExitRequested, mOut, mIn, stack, id, exit, driver>>
  PROVE  IInv'
<1> USE DEF IInv
<1>1. PICK f \in Threads \ {MainThread} :
        /\ at[f] = "outside" /\ at' \in [Threads -> Place]
        /\ at'[f] = SpawnedAs(isMain) /\ SpawnedAs(isMain) \in {"spawned", "spawnedMain"}
        /\ \A u \in Threads \ {f} : at'[u] = at[u]
        /\ stack[f] = <<>> /\ mIn[f] = <<>> /\ mOut[f] = <<>>
  BY SpawnPlaces, Zenon
<1>2. /\ stack' \in [Threads -> Seq(Frame)] /\ id' \in [Threads -> Ids] /\ StacksSound'
      /\ \A u \in Threads : In(u, HandlerKinds)' <=> In(u, HandlerKinds)
  BY Zenon, SameStacks
<1>3. TypeOK'
  BY <1>1, <1>2, Zenon DEF TypeOK
<1>4. PlacesSound'
  <2> SUFFICES ASSUME NEW u \in Threads PROVE PlaceSound(u)'
    BY Zenon DEF PlacesSound
  <2>1. CASE u = f
    <3>1. ~In(f, HandlerKinds)
      BY Zenon, <1>1 DEF In
    <3> QED
      BY Zenon, <1>1, <1>2, <2>1, <3>1 DEF PlacesSound, PlaceSound
  <2>2. CASE u # f
    <3>1. at'[u] = at[u] /\ PlaceSound(u) /\ (In(u, HandlerKinds)' <=> In(u, HandlerKinds))
      BY <1>1, <1>2, <2>2, Zenon DEF PlacesSound
    <3> QED
      BY Zenon, <3>1 DEF PlaceSound
  <2> QED
    BY Zenon, <2>1, <2>2
<1>5. ExiterSound'
  BY Zenon DEF ExiterSound
<1>6. ExitSound'
  <2>1. ASSUME NEW u \in Threads \ exit'.late, at'[u] \in {"leaving", "left"}
        PROVE  mIn'[u] = <<>>
    BY Zenon, <1>1, <2>1 DEF ExitSound
  <2> QED
    BY Zenon, <2>1 DEF ExitSound
<1>7. RequestsAnswered'
  <2>1. ASSUME NEW u \in Threads, Answers(u) PROVE Answers(u)'
    BY Zenon, <1>1, <2>1 DEF Registers, Answers
  <2> QED
    BY Zenon, <2>1, StillAnswered
<1> QED
  BY Zenon, <1>2, <1>3, <1>4, <1>5, <1>6, <1>7

(* A step that changes nothing of what the invariant speaks of.              *)
LEMMA QuietStep ==
  ASSUME IInv, UNCHANGED <<mThreadPoolSet, mExitRequested, at, mOut, mIn, stack, id, exit, driver>>
  PROVE  IInv'
<1> USE DEF IInv
<1>1. TypeOK' /\ StacksSound'
  BY Zenon DEF TypeOK, StacksSound
<1>2. PlacesSound' /\ ExiterSound'
  BY Zenon DEF PlacesSound, PlaceSound, ExiterSound, In, Top
<1>3. ExitSound' /\ RequestsAnswered'
  BY Zenon DEF ExitSound, RequestsAnswered, Registers
<1> QED
  BY Zenon, <1>1, <1>2, <1>3

LEMMA StartStep ==
  ASSUME IInv, startThreadPool
  PROVE  IInv'
<1>1. /\ exit.at = "no" /\ UNCHANGED <<mThreadPoolSet, mExitRequested, mOut, mIn, stack, id, exit, driver>>
      /\ at' = at \/ spawnPooledThread(TRUE)
  BY Zenon DEF startThreadPool, calls
<1>2. CASE at' = at
  BY Zenon, <1>1, <1>2, QuietStep
<1>3. CASE spawnPooledThread(TRUE)
  BY <1>1, <1>3, SpawnStep, Zenon
<1> QED
  BY <1>1, <1>2, <1>3, Zenon

(* requestExit goes on: the threads stay where they are, but for those that  *)
(* come back from the driver.                                                *)
LEMMA ExitGoesOn ==
  ASSUME IInv, exit.at # "no", exit' \in ExitState, exit'.by = exit.by, exit'.late = exit.late,
         exit'.at # "done" => exit.at # "done",
         exit'.at = "done" <=> mExitRequested', mExitRequested' \in BOOLEAN,
         \A t \in Threads : at'[t] = at[t] \/ (at[t] = "waiting" /\ at'[t] = "leaving"),
         at' \in [Threads -> Place],
         exit'.at \in {"flushed", "done"}
         => \A t \in mThreadPoolSet : \/ t = exit.by \/ t \in exit.late
                                      \/ exit'.at = "done" /\ at'[t] \in {"top", "leaving"},
         \A t \in Threads \ exit.late : exit'.at = "done" /\ at[t] = "top" => mIn[t] = <<>>,
         UNCHANGED <<mThreadPoolSet, mOut, mIn, stack, id, driver>>
  PROVE  IInv'
<1> USE DEF IInv
<1>1. /\ stack' \in [Threads -> Seq(Frame)] /\ id' \in [Threads -> Ids] /\ StacksSound'
      /\ \A u \in Threads : In(u, HandlerKinds)' <=> In(u, HandlerKinds)
  BY Zenon, SameStacks
<1>2. TypeOK'
  BY <1>1, Zenon DEF TypeOK
<1>3. PlacesSound'
  <2> SUFFICES ASSUME NEW u \in Threads PROVE PlaceSound(u)'
    BY Zenon DEF PlacesSound
  <2>1. CASE at'[u] = at[u]
    BY Zenon, <1>1, <2>1 DEF PlacesSound, PlaceSound
  <2>2. CASE at[u] = "waiting" /\ at'[u] = "leaving"
    BY Zenon, <1>1, <2>2 DEF PlacesSound, PlaceSound
  <2> QED
    BY Zenon, <2>1, <2>2
<1>4. ExiterSound'
  <2>1. exit.by \in Threads /\ at'[exit.by] = at[exit.by]
    BY Zenon DEF ExiterSound
  <2> QED
    BY Zenon, <1>1, <2>1 DEF ExiterSound
<1>5. ExitSound'
  <2>1. ASSUME NEW u \in Threads \ exit.late, at'[u] \in {"leaving", "left"} PROVE mIn[u] = <<>>
    BY Zenon, <2>1 DEF ExitSound, PlacesSound, PlaceSound
  <2>2. ASSUME NEW u \in Threads \ exit.late, exit'.at = "done", at'[u] = "top" PROVE mIn[u] = <<>>
    BY Zenon, <2>2
  <2> QED
    BY Zenon, <2>1, <2>2 DEF ExitSound
<1>6. RequestsAnswered'
  <2>1. ASSUME NEW u \in Threads, Answers(u) PROVE Answers(u)'
    BY Zenon, <2>1 DEF Registers, Answers
  <2> QED
    BY Zenon, <2>1, StillAnswered
<1> QED
  BY Zenon, <1>1, <1>2, <1>3, <1>4, <1>5, <1>6

LEMMA FlushStep ==
  ASSUME IInv, FlushThreads
  PROVE  IInv'
<1>1. exit \in ExitState /\ exit.at = "flush" /\ exit' = [exit EXCEPT !.at = "check"]
  BY Zenon DEF FlushThreads, IInv, TypeOK
<1>2. exit' \in ExitState /\ exit'.at = "check" /\ exit'.by = exit.by /\ exit'.late = exit.late
  BY Zenon, <1>1 DEF ExitState
<1>3. /\ at' = [t \in Threads |-> IF at[t] = "waiting" THEN "leaving" ELSE at[t]]
      /\ UNCHANGED <<mThreadPoolSet, mExitRequested, mOut, mIn, stack, id, driver>>
  BY Zenon DEF FlushThreads, pool, calls
<1>4. /\ \A t \in Threads : at'[t] = at[t] \/ (at[t] = "waiting" /\ at'[t] = "leaving")
      /\ at' \in [Threads -> Place]
  BY Zenon, <1>3 DEF IInv, TypeOK, Place
<1>5. mExitRequested = FALSE
  BY <1>1, Zenon DEF IInv, ExitSound, TypeOK
<1>6. mExitRequested' \in BOOLEAN /\ (exit'.at = "done" <=> mExitRequested')
  BY <1>2, <1>3, <1>5, Zenon
<1>7. exit.at # "no" /\ exit.at # "done" /\ exit'.at \notin {"flushed", "done"}
  BY Zenon, <1>1, <1>2
<1> QED
  BY Zenon, <1>2, <1>3, <1>4, <1>6, <1>7, ExitGoesOn

(* mThreadPoolSet.size() <= remain leaves nobody but the caller.             *)
NobodyElse == \A S \in SUBSET Threads : \A x :
                ~(Cardinality(S) > Cardinality(S \cap {x})) => S \subseteq {x}

LEMMA CheckStep ==
  ASSUME IInv, CheckThreads, NobodyElse
  PROVE  IInv'
<1> DEFINE a == IF ThreadsRemain THEN "flush" ELSE "flushed"
<1>1. exit \in ExitState /\ exit.at = "check" /\ exit' = [exit EXCEPT !.at = a]
  BY Zenon DEF CheckThreads, IInv, TypeOK
<1>2. a \in {"flush", "flushed"} /\ (a = "flushed" => ~ThreadsRemain)
  BY Zenon
<1> HIDE DEF a
<1>3. /\ exit' \in ExitState /\ exit'.at = a
      /\ exit'.by = exit.by /\ exit'.late = exit.late
  BY Zenon, <1>1, <1>2 DEF ExitState
<1>4. UNCHANGED <<mThreadPoolSet, mExitRequested, at, mOut, mIn, stack, id, driver>>
  BY Zenon DEF CheckThreads, pool, calls
<1>5. mExitRequested = FALSE
  BY <1>1, Zenon DEF IInv, ExitSound, TypeOK
<1>6. ASSUME a = "flushed" PROVE \A t \in mThreadPoolSet : t = exit.by
  <2>1. mThreadPoolSet \in SUBSET Threads
    BY Zenon DEF IInv, TypeOK
  <2>2. mThreadPoolSet \subseteq {exit.by}
    BY <1>2, <1>6, <2>1, Zenon DEF NobodyElse, ThreadsRemain
  <2> QED
    BY Zenon, <2>2
<1>7. at' \in [Threads -> Place]
  BY Zenon, <1>4 DEF IInv, TypeOK
<1>8. mExitRequested' \in BOOLEAN /\ (exit'.at = "done" <=> mExitRequested')
  <2>1. exit'.at # "done"
    BY Zenon, <1>2, <1>3
  <2> QED
    BY <1>4, <1>5, <2>1, Zenon
<1>9. exit.at # "no" /\ exit.at # "done" /\ exit'.at # "done"
  BY Zenon, <1>1, <1>2, <1>3
<1>10. exit'.at \in {"flushed", "done"} => \A t \in mThreadPoolSet : t = exit.by
  BY Zenon, <1>3, <1>6, <1>9
<1> QED
  BY Zenon, <1>3, <1>4, <1>7, <1>8, <1>9, <1>10, ExitGoesOn

LEMMA SetExitStep ==
  ASSUME IInv, SetExitRequested
  PROVE  IInv'
<1>1. exit \in ExitState /\ exit.at = "flushed" /\ exit' = [exit EXCEPT !.at = "done"]
  BY Zenon DEF SetExitRequested, IInv, TypeOK
<1>2. exit' \in ExitState /\ exit'.at = "done" /\ exit'.by = exit.by /\ exit'.late = exit.late
  BY Zenon, <1>1 DEF ExitState
<1>3. mExitRequested' = TRUE /\ UNCHANGED <<mThreadPoolSet, at, mOut, mIn, stack, id, driver>>
  BY Zenon DEF SetExitRequested, calls
<1>4. at' \in [Threads -> Place]
  BY Zenon, <1>3 DEF IInv, TypeOK
<1>5. \A t \in mThreadPoolSet : t = exit.by \/ t \in exit.late
  BY Zenon, <1>1 DEF IInv, ExitSound
<1>6. ASSUME NEW t \in Threads \ exit.late, at[t] = "top" PROVE mIn[t] = <<>>
  <2>1. t = exit.by
    BY Zenon, <1>5, <1>6 DEF IInv, PlacesSound, PlaceSound
  <2>2. In(t, HandlerKinds)
    BY Zenon, <1>1, <1>6, <2>1 DEF IInv, ExiterSound
  <2> QED
    BY Zenon, <2>2 DEF IInv, PlacesSound, PlaceSound
<1> QED
  BY Zenon, <1>1, <1>2, <1>3, <1>4, <1>5, <1>6, ExitGoesOn

LEMMA RequestExitStep ==
  ASSUME IInv, NEW t \in Threads, requestExit(t)
  PROVE  IInv'
<1> USE DEF IInv
<1>1. /\ exit \in ExitState /\ exit.at = "no" /\ exit' = [exit EXCEPT !.at = "flush", !.by = t]
      /\ (t = MainThread /\ at[t] = "outside") \/ In(t, HandlerKinds)
      /\ UNCHANGED <<mThreadPoolSet, mExitRequested, at, mOut, mIn, stack, id, driver>>
  BY Zenon DEF requestExit, calls, TypeOK, InHandler, HandlerKinds
<1>2. exit' \in ExitState /\ exit'.at = "flush" /\ exit'.by = t /\ exit'.late = exit.late
  <2> DEFINE e == [exit EXCEPT !.at = "flush"]
  <2>1. e \in ExitState /\ e.at = "flush" /\ e.late = exit.late
    BY Zenon, <1>1 DEF ExitState
  <2>2. exit' = [e EXCEPT !.by = t]
    BY Zenon, <1>1 DEF ExitState
  <2> HIDE DEF e
  <2> QED
    BY Zenon, <2>1, <2>2 DEF ExitState
<1>3. /\ stack' \in [Threads -> Seq(Frame)] /\ id' \in [Threads -> Ids] /\ StacksSound'
      /\ \A u \in Threads : In(u, HandlerKinds)' <=> In(u, HandlerKinds)
  BY Zenon, <1>1, SameStacks
<1>4. TypeOK'
  BY <1>1, <1>2, <1>3, Zenon DEF TypeOK
<1>5. PlacesSound'
  BY <1>1, <1>3, Zenon DEF PlacesSound, PlaceSound
<1>6. ExiterSound'
  <2>1. CASE t = MainThread /\ at[t] = "outside"
    BY Zenon, <1>1, <1>2, <2>1 DEF ExiterSound
  <2>2. CASE In(t, HandlerKinds)
    <3>1. stack[t] \in Seq(Frame) /\ FramesSound(stack[t]) /\ stack[t] # <<>> /\ stack[t][1].kind \in HandlerKinds
      BY Zenon, <2>2, InFacts DEF TypeOK, StacksSound, StackSound
    <3>2. stack[t][Len(stack[t])].kind = "serving"
      BY Zenon, <3>1, BottomServes
    <3>3. at[t] = "busy"
      BY Zenon, <3>1 DEF PlacesSound, PlaceSound
    <3> QED
      BY Zenon, <1>1, <1>2, <1>3, <2>2, <3>1, <3>2, <3>3 DEF ExiterSound
  <2> QED
    BY Zenon, <1>1, <2>1, <2>2
<1>7. ExitSound'
  BY Zenon, <1>1, <1>2 DEF ExitSound
<1>8. RequestsAnswered'
  BY <1>1, Zenon DEF RequestsAnswered, Registers
<1> QED
  BY Zenon, <1>3, <1>4, <1>5, <1>6, <1>7, <1>8

----------------------------------------------------------------------------
(* The commands a thread reads, executes and ends.                           *)

(* What talkWithDriver reads: a request for a thread stands before the call. *)
CallRead(asks, s, oneway) ==
  (IF asks THEN <<[cmd |-> "BR_SPAWN_LOOPER"]>> ELSE <<>>)
  \o <<[cmd |-> "BR_TRANSACTION", from |-> s, oneway |-> oneway]>>

LEMMA CallReadFacts ==
  ASSUME NEW asks, NEW s \in Senders, NEW oneway \in BOOLEAN
  PROVE  LET m == CallRead(asks, s, oneway) IN
         /\ m \in Seq(CommandIn)
         /\ \A i \in 1 .. Len(m) : m[i].cmd = "BR_TRANSACTION" => i = Len(m)
         /\ asks => 1 \in DOMAIN m /\ m[1].cmd = "BR_SPAWN_LOOPER"
<1> DEFINE a == [cmd |-> "BR_SPAWN_LOOPER"]
           b == [cmd |-> "BR_TRANSACTION", from |-> s, oneway |-> oneway]
<1>1. a \in CommandIn /\ b \in CommandIn
  BY Zenon DEF CommandIn
<1>2. a.cmd = "BR_SPAWN_LOOPER" /\ b.cmd = "BR_TRANSACTION"
  BY Zenon
<1>3. CallRead(asks, s, oneway) = IF asks THEN <<a>> \o <<b>> ELSE <<>> \o <<b>>
  BY Zenon DEF CallRead
<1> HIDE DEF a, b
<1> DEFINE m == CallRead(asks, s, oneway)
<1>4. CASE asks
  <2>1. m = <<a>> \o <<b>>
    BY <1>3, <1>4, Zenon
  <2> HIDE DEF m
  <2>2. m \in Seq(CommandIn) /\ Len(m) = 2 /\ m[1] = a /\ m[2] = b /\ DOMAIN m = 1 .. 2
    BY <1>1, <2>1
  <2> QED
    BY <1>2, <2>2 DEF m
<1>5. CASE ~asks
  <2>1. m = <<b>>
    BY <1>1, <1>3, <1>5
  <2> HIDE DEF m
  <2>2. m \in Seq(CommandIn) /\ Len(m) = 1 /\ m[1] = b
    BY <1>1, <2>1
  <2> QED
    BY <1>2, <1>5, <2>2 DEF m
<1> QED
  BY Zenon, <1>4, <1>5

LEMMA ReadCallStep ==
  ASSUME IInv, NEW t \in Threads, NEW s \in Senders, NEW oneway \in BOOLEAN, ReadCall(t, s, oneway)
  PROVE  IInv'
<1> USE DEF IInv
<1> DEFINE asks == AsksForThread(t)
           m == CallRead(asks, s, oneway)
           d == [driver EXCEPT !.requested = driver.requested \/ asks]
<1>1. /\ at[t] = "waiting" \/ (In(t, {"calling"}) /\ mIn[t] = <<>>)
      /\ at' = [at EXCEPT ![t] = "busy"] /\ mIn' = [mIn EXCEPT ![t] = m] /\ driver' = d
      /\ UNCHANGED <<mThreadPoolSet, mExitRequested, mOut, stack, id, exit>>
  BY Zenon DEF ReadCall, pool, CallRead
<1>2. /\ m \in Seq(CommandIn)
      /\ \A i \in 1 .. Len(m) : m[i].cmd = "BR_TRANSACTION" => i = Len(m)
      /\ asks => 1 \in DOMAIN m /\ m[1].cmd = "BR_SPAWN_LOOPER"
  BY CallReadFacts, Zenon
<1>3. d \in DriverState /\ d.ignored = driver.ignored /\ (d.requested <=> driver.requested \/ asks)
  <2>1. driver \in DriverState /\ (driver.requested \/ asks) \in BOOLEAN
    BY Zenon DEF TypeOK
  <2> QED
    BY <2>1, Zenon DEF DriverState
<1> HIDE DEF asks, m, d
<1>4. /\ mIn[t] = <<>> /\ t \in mThreadPoolSet /\ ~In(t, HandlerKinds)
      /\ at[t] = "waiting" => stack[t] = <<>>
      /\ at[t] # "waiting" => at[t] = "busy" /\ stack[t] # <<>>
  <2>1. CASE at[t] = "waiting"
    BY Zenon, <2>1, NotBusy DEF PlacesSound, PlaceSound
  <2>2. CASE In(t, {"calling"}) /\ mIn[t] = <<>>
    <3>1. stack[t] # <<>> /\ stack[t][1].kind \in {"calling"} /\ Top(t) = stack[t][1]
      BY Zenon, <2>2, InFacts
    <3>2. ~In(t, HandlerKinds)
      BY Zenon, <3>1 DEF In, HandlerKinds
    <3> QED
      BY Zenon, <2>2, <3>1, <3>2 DEF PlacesSound, PlaceSound
  <2> QED
    BY Zenon, <1>1, <2>1, <2>2
<1>5. /\ stack' \in [Threads -> Seq(Frame)] /\ id' \in [Threads -> Ids] /\ StacksSound'
      /\ \A u \in Threads : In(u, HandlerKinds)' <=> In(u, HandlerKinds)
  BY Zenon, <1>1, SameStacks
<1>6. /\ at' \in [Threads -> Place] /\ mIn' \in [Threads -> Seq(CommandIn)]
      /\ at'[t] = "busy" /\ mIn'[t] = m
      /\ \A u \in Threads \ {t} : at'[u] = at[u] /\ mIn'[u] = mIn[u]
  BY Zenon, <1>1, <1>2 DEF TypeOK, Place
<1>7. TypeOK'
  BY <1>1, <1>3, <1>5, <1>6, Zenon DEF TypeOK
<1>8. PlacesSound'
  <2> SUFFICES ASSUME NEW u \in Threads PROVE PlaceSound(u)'
    BY Zenon DEF PlacesSound
  <2>1. CASE u = t
    BY Zenon, <1>1, <1>2, <1>4, <1>5, <1>6, <2>1 DEF PlaceSound
  <2>2. CASE u # t
    BY Zenon, <1>1, <1>5, <1>6, <2>2 DEF PlacesSound, PlaceSound
  <2> QED
    BY Zenon, <2>1, <2>2
<1>9. ExiterSound'
  <2>1. CASE exit.at # "no" /\ exit.by = t
    BY Zenon, <1>1, <1>4, <1>6, <2>1 DEF ExiterSound
  <2>2. CASE exit.at # "no" /\ exit.by # t
    BY Zenon, <1>1, <1>5, <1>6, <2>2 DEF ExiterSound
  <2>3. CASE exit.at = "no"
    BY Zenon, <1>1, <2>3 DEF ExiterSound
  <2> QED
    BY Zenon, <2>1, <2>2, <2>3
<1>10. ExitSound'
  <2>1. ASSUME exit.at \in {"flushed", "done"}, NEW u \in mThreadPoolSet
        PROVE  u = exit.by \/ u \in exit.late \/ (exit.at = "done" /\ at'[u] \in {"top", "leaving"})
    <3>1. CASE u = t
      BY Zenon, <1>4, <2>1, <3>1 DEF ExitSound
    <3>2. CASE u # t
      BY Zenon, <1>6, <2>1, <3>2 DEF ExitSound, TypeOK
    <3> QED
      BY Zenon, <3>1, <3>2
  <2>2. ASSUME NEW u \in Threads \ exit.late
        PROVE  /\ at'[u] \in {"leaving", "left"} => mIn'[u] = <<>>
               /\ exit.at = "done" /\ at'[u] = "top" => mIn'[u] = <<>>
    BY Zenon, <1>6 DEF ExitSound
  <2> QED
    BY Zenon, <1>1, <2>1, <2>2 DEF ExitSound
<1>11. RequestsAnswered'
  <2>1. CASE asks
    <3>1. Answers(t)'
      BY Zenon, <1>2, <1>6, <2>1 DEF Answers
    <3> QED
      BY <3>1, Zenon DEF Answers, RequestsAnswered
  <2>2. CASE ~asks
    <3>1. ASSUME NEW u \in Threads, Answers(u) PROVE Answers(u)'
      BY <1>1, <1>4, <1>6, <3>1 DEF Registers, Answers
    <3> QED
      BY <1>1, <1>3, <2>2, <3>1, StillAnswered, Zenon
  <2> QED
    BY Zenon, <2>1, <2>2
<1> QED
  BY Zenon, <1>5, <1>7, <1>8, <1>9, <1>10, <1>11

(* Beginning a command leaves the lowest frame of a nonempty stack.          *)
LEMMA BeginFacts ==
  ASSUME IInv, NEW t \in Threads, BeginCommand(t)
  PROVE  /\ mIn[t] \in Seq(CommandIn) /\ mIn[t] # <<>> /\ at[t] = "busy"
         /\ ~In(t, HandlerKinds) /\ t \in mThreadPoolSet
         /\ mIn' = [mIn EXCEPT ![t] = Tail(mIn[t])]
         /\ mIn' \in [Threads -> Seq(CommandIn)]
         /\ mIn'[t] = Tail(mIn[t]) /\ \A u \in Threads \ {t} : mIn'[u] = mIn[u]
         /\ UNCHANGED <<mThreadPoolSet, mExitRequested, mOut, exit>>
<1>1. /\ mIn[t] # <<>> /\ at[t] = "busy" /\ (stack[t] = <<>> \/ In(t, {"calling"}))
      /\ mIn' = [mIn EXCEPT ![t] = Tail(mIn[t])]
      /\ UNCHANGED <<mThreadPoolSet, mExitRequested, mOut, exit>>
  BY Zenon DEF BeginCommand, pool
<1>2. mIn \in [Threads -> Seq(CommandIn)] /\ mIn[t] \in Seq(CommandIn) /\ Tail(mIn[t]) \in Seq(CommandIn)
  BY Zenon, <1>1, ThreadFacts, TailFacts DEF IInv, TypeOK
<1>3. ~In(t, HandlerKinds)
  <2>1. CASE stack[t] = <<>>
    BY Zenon, <2>1 DEF In
  <2>2. CASE In(t, {"calling"})
    BY Zenon, <2>2 DEF In, HandlerKinds
  <2> QED
    BY Zenon, <1>1, <2>1, <2>2
<1>4. t \in mThreadPoolSet
  BY Zenon, <1>1 DEF IInv, PlacesSound, PlaceSound
<1> QED
  BY Zenon, <1>1, <1>2, <1>3, <1>4

(* The parts of the invariant that no command disturbs when it begins.       *)
LEMMA BeginExit ==
  ASSUME IInv, NEW t \in Threads, BeginCommand(t), NEW n \in Seq(Frame), NEW f \in Frame, NEW next,
         n = <<f>> \o stack[t], Moves(t, n, next),
         at' = at \/ \E g \in Threads \ {MainThread} :
                       /\ at[g] = "outside" /\ at'[g] \in {"spawned", "spawnedMain"}
                       /\ \A u \in Threads \ {g} : at'[u] = at[u]
  PROVE  at'[t] = "busy" /\ ExiterSound' /\ ExitSound'
<1> USE DEF IInv
<1>1. /\ at[t] = "busy" /\ ~In(t, HandlerKinds)
      /\ \A u \in Threads \ {t} : mIn'[u] = mIn[u]
      /\ UNCHANGED <<mThreadPoolSet, mExitRequested, mOut, exit>>
  BY Zenon, BeginFacts
<1>2. /\ stack'[t] = n /\ n # <<>>
      /\ \A u \in Threads \ {t} : stack'[u] = stack[u]
      /\ \A u \in Threads \ {t} : In(u, HandlerKinds)' <=> In(u, HandlerKinds)
  <2>1. n # <<>>
    BY ConsFacts, ThreadFacts
  <2> QED
    BY <2>1, MovesShow, Zenon
<1>3. stack[t] # <<>> => n[Len(n)] = stack[t][Len(stack[t])]
  BY ConsFacts, BottomStays, ThreadFacts
<1>4. /\ at'[t] = "busy"
      /\ \A u \in Threads : \/ at'[u] = at[u]
                            \/ u # MainThread /\ at[u] = "outside" /\ at'[u] \in {"spawned", "spawnedMain"}
  BY Zenon, <1>1
<1>5. ExiterSound'
  <2>1. CASE exit.at # "no" /\ exit.by = t
    BY <1>1, <1>2, <1>3, <1>4, <2>1 DEF ExiterSound
  <2>2. CASE exit.at # "no" /\ exit.by # t
    <3>1. exit.by \in Threads /\ stack'[exit.by] = stack[exit.by]
          /\ (In(exit.by, HandlerKinds)' <=> In(exit.by, HandlerKinds))
      BY Zenon, <1>1, <1>2, <2>2 DEF ExiterSound
    <3>2. \/ at'[exit.by] = at[exit.by]
          \/ /\ exit.by # MainThread /\ at[exit.by] = "outside"
             /\ at'[exit.by] \in {"spawned", "spawnedMain"}
      BY Zenon, <1>4, <3>1
    <3>3. In(exit.by, HandlerKinds) => at[exit.by] = "busy"
      BY Zenon, <3>1, NotBusy
    <3> QED
      BY Zenon, <1>1, <2>2, <3>1, <3>2, <3>3 DEF ExiterSound
  <2>3. CASE exit.at = "no"
    BY Zenon, <1>1, <2>3 DEF ExiterSound
  <2> QED
    BY Zenon, <2>1, <2>2, <2>3
<1>6. ExitSound'
  <2>1. ASSUME exit.at \in {"flushed", "done"}, NEW u \in mThreadPoolSet
        PROVE  u = exit.by \/ u \in exit.late \/ (exit.at = "done" /\ at'[u] \in {"top", "leaving"})
    BY Zenon, <1>4, <2>1 DEF ExitSound, TypeOK
  <2>2. ASSUME NEW u \in Threads \ exit.late
        PROVE  /\ at'[u] \in {"leaving", "left"} => mIn'[u] = <<>>
               /\ exit.at = "done" /\ at'[u] = "top" => mIn'[u] = <<>>
    BY <1>1, <1>4 DEF ExitSound
  <2> QED
    BY Zenon, <1>1, <2>1, <2>2 DEF ExitSound
<1> QED
  BY Zenon, <1>4, <1>5, <1>6

LEMMA BeginTransactionStep ==
  ASSUME IInv, NEW t \in Threads, BeginCommand(t), Head(mIn[t]).cmd = "BR_TRANSACTION"
  PROVE  IInv'
<1> USE DEF IInv
<1> DEFINE f == [kind |-> "serving", orig |-> id[t]]
           n == <<f>> \o stack[t]
<1>1. PICK next \in Ids : Moves(t, n, next) /\ at' = at /\ driver' = driver
  BY BeginTransactionMoves, Zenon
<1>2. f \in Frame /\ stack[t] \in Seq(Frame) /\ n \in Seq(Frame)
  <2>1. f \in Frame
    BY ThreadFacts, Zenon DEF Frame
  <2> QED
    BY <1>1, <2>1, ThreadFacts, Zenon DEF Moves
<1>3. n = <<f>> \o stack[t]
  BY Zenon
<1> HIDE DEF f, n
<1>4. at'[t] = "busy" /\ ExiterSound' /\ ExitSound'
  BY <1>1, <1>2, <1>3, BeginExit, Zenon
<1>5. /\ mIn[t] \in Seq(CommandIn) /\ mIn[t] # <<>> /\ at[t] = "busy" /\ t \in mThreadPoolSet
      /\ mIn' \in [Threads -> Seq(CommandIn)]
      /\ mIn'[t] = Tail(mIn[t]) /\ \A u \in Threads \ {t} : mIn'[u] = mIn[u]
      /\ UNCHANGED <<mThreadPoolSet, mExitRequested, mOut, exit>>
  BY Zenon, BeginFacts
<1>6. Len(mIn[t]) = 1 /\ mIn[t][1].cmd = "BR_TRANSACTION" /\ mIn'[t] = <<>>
  <2>1. 1 \in 1 .. Len(mIn[t]) /\ mIn[t][1].cmd = "BR_TRANSACTION"
    BY <1>5
  <2>2. Len(mIn[t]) = 1
    BY <2>1, Zenon DEF PlacesSound, PlaceSound
  <2>3. Len(Tail(mIn[t])) = 0 /\ Tail(mIn[t]) \in Seq(CommandIn)
    BY <1>5, <2>2
  <2> QED
    BY <1>5, <2>1, <2>2, <2>3
<1>7. stack' \in [Threads -> Seq(Frame)] /\ id' \in [Threads -> Ids] /\ StacksSound'
  BY Zenon, <1>1, MovesSound
<1>8. /\ stack'[t] = n
      /\ \A u \in Threads \ {t} : stack'[u] = stack[u]
      /\ \A u \in Threads \ {t} : In(u, HandlerKinds)' <=> In(u, HandlerKinds)
  BY Zenon, <1>1, MovesShow
<1>9. TypeOK'
  BY <1>1, <1>5, <1>7, Zenon DEF TypeOK
<1>10. PlacesSound'
  <2> SUFFICES ASSUME NEW u \in Threads PROVE PlaceSound(u)'
    BY Zenon DEF PlacesSound
  <2>1. CASE u = t
    BY <1>4, <1>5, <1>6, <2>1 DEF PlaceSound
  <2>2. CASE u # t
    BY Zenon, <1>1, <1>5, <1>8, <2>2 DEF PlacesSound, PlaceSound
  <2> QED
    BY Zenon, <2>1, <2>2
<1>11. RequestsAnswered'
  <2>1. ASSUME NEW u \in Threads, Answers(u) PROVE Answers(u)'
    <3>1. CASE u = t
      BY <1>1, <1>5, <1>6, <2>1, <3>1 DEF Registers, Answers
    <3>2. CASE u # t
      BY Zenon, <1>1, <1>5, <2>1, <3>2 DEF Registers, Answers
    <3> QED
      BY Zenon, <3>1, <3>2
  <2> QED
    BY Zenon, <1>1, <2>1, StillAnswered
<1> QED
  BY Zenon, <1>4, <1>7, <1>9, <1>10, <1>11

LEMMA BeginSpawnStep ==
  ASSUME IInv, NEW t \in Threads, BeginCommand(t), Head(mIn[t]).cmd # "BR_TRANSACTION"
  PROVE  IInv'
<1> USE DEF IInv
<1> DEFINE f == [kind |-> "spawning"]
           n == <<f>> \o stack[t]
<1>1. /\ Moves(t, n, id[t]) /\ Head(mIn[t]).cmd = "BR_SPAWN_LOOPER"
      /\ \/ spawnPooledThread(FALSE) /\ driver' = driver
         \/ driver' = [driver EXCEPT !.ignored = TRUE] /\ at' = at
  BY BeginSpawnMoves, Zenon
<1>2. f \in Frame /\ stack[t] \in Seq(Frame) /\ n \in Seq(Frame) /\ f.kind = "spawning"
  <2>1. f \in Frame
    BY Zenon DEF Frame
  <2> QED
    BY <1>1, <2>1, ThreadFacts, Zenon DEF Moves
<1>3. n = <<f>> \o stack[t]
  BY Zenon
<1> HIDE DEF f, n
<1>4. n[1].kind = "spawning"
  BY <1>2, <1>3, ConsFacts
<1>5. \/ /\ at' = at /\ driver' \in DriverState /\ driver'.ignored = TRUE
      \/ /\ driver' = driver
         /\ \E g \in Threads \ {MainThread} :
              /\ at[g] = "outside" /\ at'[g] = "spawned"
              /\ \A u \in Threads \ {g} : at'[u] = at[u]
              /\ stack[g] = <<>> /\ mIn[g] = <<>> /\ mOut[g] = <<>>
  <2>1. CASE driver' = [driver EXCEPT !.ignored = TRUE] /\ at' = at
    <3>1. driver \in DriverState
      BY Zenon DEF TypeOK
    <3>2. driver' \in DriverState /\ driver'.ignored = TRUE
      BY <2>1, <3>1, Zenon DEF DriverState
    <3> QED
      BY <2>1, <3>2, Zenon
  <2>2. CASE spawnPooledThread(FALSE) /\ driver' = driver
    <3>1. SpawnedAs(FALSE) = "spawned"
      BY Zenon DEF SpawnedAs
    <3> QED
      BY <2>2, <3>1, SpawnPlaces, Zenon
  <2> QED
    BY <1>1, <2>1, <2>2, Zenon
<1>6. driver' \in DriverState /\ at' \in [Threads -> Place]
  <2>1. CASE driver' = [driver EXCEPT !.ignored = TRUE] /\ at' = at
    BY <2>1, Zenon DEF TypeOK, DriverState
  <2>2. CASE spawnPooledThread(FALSE) /\ driver' = driver
    BY <2>2, SpawnPlaces, Zenon DEF TypeOK
  <2> QED
    BY <1>1, <2>1, <2>2, Zenon
<1>7. at'[t] = "busy" /\ ExiterSound' /\ ExitSound'
  <2>1. at' = at \/ \E g \in Threads \ {MainThread} :
                      /\ at[g] = "outside" /\ at'[g] \in {"spawned", "spawnedMain"}
                      /\ \A u \in Threads \ {g} : at'[u] = at[u]
    BY Zenon, <1>5
  <2> QED
    BY <1>1, <1>2, <1>3, <2>1, BeginExit, Zenon
<1>8. /\ mIn[t] \in Seq(CommandIn) /\ mIn[t] # <<>> /\ at[t] = "busy" /\ t \in mThreadPoolSet
      /\ mIn' \in [Threads -> Seq(CommandIn)]
      /\ mIn'[t] = Tail(mIn[t]) /\ \A u \in Threads \ {t} : mIn'[u] = mIn[u]
      /\ UNCHANGED <<mThreadPoolSet, mExitRequested, mOut, exit>>
  BY Zenon, BeginFacts
<1>9. \A i \in 1 .. Len(mIn'[t]) : mIn'[t][i].cmd = "BR_TRANSACTION" => i = Len(mIn'[t])
  <2> DEFINE m == mIn[t]
             d == Tail(m)
  <2>1. d \in Seq(CommandIn) /\ IsDrop(d, m, 1) /\ m \in Seq(CommandIn)
    BY Zenon, <1>8, TailFacts
  <2>2. \A i \in 1 .. Len(m) : m[i].cmd = "BR_TRANSACTION" => i = Len(m)
    BY Zenon DEF PlacesSound, PlaceSound
  <2> HIDE DEF m, d
  <2>3. ASSUME NEW i \in 1 .. Len(d), d[i].cmd = "BR_TRANSACTION" PROVE i = Len(d)
    <3>1. d[i] = m[i + 1] /\ i + 1 \in 1 .. Len(m) /\ Len(d) = Len(m) - 1 /\ Len(m) \in Nat
      BY <2>1 DEF IsDrop
    <3>2. i + 1 = Len(m)
      BY Zenon, <2>2, <2>3, <3>1
    <3> QED
      BY <3>1, <3>2
  <2>4. mIn'[t] = d
    BY Zenon, <1>8 DEF m, d
  <2> QED
    BY Zenon, <2>3, <2>4
<1>10. stack' \in [Threads -> Seq(Frame)] /\ id' \in [Threads -> Ids] /\ StacksSound'
  BY Zenon, <1>1, MovesSound
<1>11. /\ ~In(t, HandlerKinds)'
       /\ \A u \in Threads \ {t} : stack'[u] = stack[u]
       /\ \A u \in Threads \ {t} : In(u, HandlerKinds)' <=> In(u, HandlerKinds)
  <2>1. n[1].kind \notin HandlerKinds
    BY Zenon, <1>4 DEF HandlerKinds
  <2> QED
    BY <1>1, <2>1, MovesShow, Zenon
<1>12. TypeOK'
  BY <1>6, <1>8, <1>10, Zenon DEF TypeOK
<1>13. PlacesSound'
  <2> SUFFICES ASSUME NEW u \in Threads PROVE PlaceSound(u)'
    BY Zenon DEF PlacesSound
  <2>1. CASE u = t
    <3>1. at'[t] \notin {"outside", "spawned", "spawnedMain", "waiting"} /\ t \in mThreadPoolSet'
      BY Zenon, <1>7, <1>8
    <3> QED
      BY <1>7, <1>9, <1>11, <2>1, <3>1, Zenon DEF PlaceSound
  <2>2. CASE u # t /\ at'[u] = at[u]
    BY Zenon, <1>8, <1>11, <2>2 DEF PlacesSound, PlaceSound
  <2>3. CASE u # t /\ at'[u] # at[u]
    <3>1. /\ at'[u] = "spawned" /\ stack[u] = <<>> /\ mIn[u] = <<>> /\ mOut[u] = <<>>
          /\ ~In(u, HandlerKinds)
      BY Zenon, <1>5, <2>3 DEF In
    <3> QED
      BY Zenon, <1>8, <1>11, <2>3, <3>1 DEF PlacesSound, PlaceSound
  <2> QED
    BY Zenon, <2>1, <2>2, <2>3
<1>14. RequestsAnswered'
  <2>1. CASE driver'.ignored = TRUE
    BY <2>1, Zenon DEF RequestsAnswered
  <2>2. CASE \E g \in Threads : at'[g] = "spawned"
    BY <2>2, Zenon DEF RequestsAnswered
  <2> QED
    BY <1>5, <2>1, <2>2, Zenon
<1> QED
  BY Zenon, <1>7, <1>10, <1>12, <1>13, <1>14

LEMMA BeginStep ==
  ASSUME IInv, NEW t \in Threads, BeginCommand(t)
  PROVE  IInv'
  BY Zenon, BeginTransactionStep, BeginSpawnStep

LEMMA EndStep ==
  ASSUME IInv, NEW t \in Threads, EndCommand(t)
  PROVE  IInv'
<1> USE DEF IInv
<1> DEFINE s == stack[t]
<1>1. PICK i \in 1 .. Len(s), n \in Seq(Frame), next \in Ids :
        /\ Moves(t, n, next) /\ IsDrop(n, s, i)
        /\ n # <<>> => n[1].kind = "calling" /\ at' = at
        /\ n = <<>> => at' = [at EXCEPT ![t] = "top"]
        /\ s[1].kind \in HandlerKinds \cup {"spawning"}
        /\ s[1].kind \in HandlerKinds => s[i].kind = "serving"
        /\ s[1].kind = "spawning" => i = 1
  BY EndCommandMoves, Zenon
<1>2. /\ InHandler(t) \/ In(t, {"spawning"})
      /\ UNCHANGED <<mThreadPoolSet, mExitRequested, mOut, mIn, exit, driver>>
  BY Zenon DEF EndCommand, pool
<1>3. s \in Seq(Frame) /\ s # <<>> /\ at[t] = "busy" /\ t \in mThreadPoolSet
  BY <1>1, ThreadFacts DEF PlacesSound, PlaceSound
<1>4. exit.at # "no" /\ exit.by = t => exit.at = "done"
  <2>1. CASE InHandler(t)
    BY Zenon, <2>1, InHandlerFacts
  <2>2. CASE In(t, {"spawning"})
    <3>1. ~In(t, HandlerKinds)
      BY Zenon, <2>2 DEF In, HandlerKinds
    <3> QED
      BY Zenon, <1>3, <3>1 DEF ExiterSound
  <2> QED
    BY Zenon, <1>2, <2>1, <2>2
<1>5. /\ stack'[t] = n
      /\ In(t, HandlerKinds)' => n # <<>> /\ n[1].kind \in HandlerKinds
      /\ \A u \in Threads \ {t} : stack'[u] = stack[u]
      /\ \A u \in Threads \ {t} : In(u, HandlerKinds)' <=> In(u, HandlerKinds)
  BY <1>1, MovesShow, Zenon
<1>6. ~In(t, HandlerKinds)'
  <2>1. n # <<>> => n[1].kind \notin HandlerKinds
    BY Zenon, <1>1 DEF HandlerKinds
  <2> QED
    BY Zenon, <1>5, <2>1
<1>7. stack' \in [Threads -> Seq(Frame)] /\ id' \in [Threads -> Ids] /\ StacksSound'
  BY Zenon, <1>1, MovesSound
<1>8. /\ at' \in [Threads -> Place]
      /\ at'[t] = IF n = <<>> THEN "top" ELSE "busy"
      /\ \A u \in Threads \ {t} : at'[u] = at[u]
  <2>1. CASE n = <<>>
    <3>1. at' = [at EXCEPT ![t] = "top"]
      BY <1>1, <2>1, Zenon
    <3>2. at' \in [Threads -> Place] /\ at'[t] = "top" /\ \A u \in Threads \ {t} : at'[u] = at[u]
      BY Zenon, <3>1 DEF TypeOK, Place
    <3> QED
      BY <2>1, <3>2, Zenon
  <2>2. CASE n # <<>>
    BY Zenon, <1>1, <1>3, <2>2 DEF TypeOK
  <2> QED
    BY Zenon, <2>1, <2>2
<1>9. n # <<>> => n[Len(n)] = s[Len(s)]
  BY Zenon, <1>1, <1>3, BottomStays
<1>10. ASSUME t \notin exit.late, exit.at = "done", n = <<>> PROVE mIn[t] = <<>>
  <2>1. t = exit.by
    BY Zenon, <1>3, <1>10 DEF ExitSound
  <2>2. s[Len(s)].kind = "serving"
    BY Zenon, <1>3, <1>10, <2>1 DEF ExiterSound
  <2>3. i = Len(s)
    <3>1. Len(n) = 0 /\ Len(n) = Len(s) - i /\ Len(s) \in Nat
      BY <1>1, <1>3, <1>10 DEF IsDrop
    <3> QED
      BY <3>1
  <2>4. s[1].kind # "spawning"
    BY Zenon, <1>1, <2>2, <2>3
  <2>5. In(t, HandlerKinds)
    BY Zenon, <1>1, <1>3, <2>4, ThreadFacts DEF In
  <2> QED
    BY Zenon, <2>5 DEF PlacesSound, PlaceSound
<1> HIDE DEF s
<1>11. TypeOK'
  BY <1>2, <1>7, <1>8, Zenon DEF TypeOK
<1>12. PlacesSound'
  <2> SUFFICES ASSUME NEW u \in Threads PROVE PlaceSound(u)'
    BY Zenon DEF PlacesSound
  <2>1. CASE u = t
    <3>1. /\ at'[t] \notin {"outside", "spawned", "spawnedMain", "waiting"} /\ t \in mThreadPoolSet'
          /\ stack'[t] # <<>> => at'[t] = "busy"
      BY Zenon, <1>2, <1>3, <1>5, <1>8
    <3> QED
      BY Zenon, <1>2, <1>6, <2>1, <3>1 DEF PlacesSound, PlaceSound
  <2>2. CASE u # t
    BY Zenon, <1>2, <1>5, <1>8, <2>2 DEF PlacesSound, PlaceSound
  <2> QED
    BY Zenon, <2>1, <2>2
<1>13. ExiterSound'
  <2>1. CASE exit.at # "no" /\ exit.by = t
    <3>1. stack[t] # <<>> /\ stack[t][Len(stack[t])].kind = "serving" /\ exit.by \in Threads
      BY Zenon, <1>3, <2>1 DEF ExiterSound
    <3>2. n # <<>> => n[Len(n)].kind = "serving"
      BY Zenon, <1>9, <3>1 DEF s
    <3> QED
      BY Zenon, <1>2, <1>4, <1>5, <1>8, <2>1, <3>1, <3>2 DEF ExiterSound
  <2>2. CASE exit.at # "no" /\ exit.by # t
    BY Zenon, <1>2, <1>5, <1>8, <2>2 DEF ExiterSound
  <2>3. CASE exit.at = "no"
    BY Zenon, <1>2, <2>3 DEF ExiterSound
  <2> QED
    BY Zenon, <2>1, <2>2, <2>3
<1>14. ExitSound'
  <2>1. ASSUME exit.at \in {"flushed", "done"}, NEW u \in mThreadPoolSet
        PROVE  u = exit.by \/ u \in exit.late \/ (exit.at = "done" /\ at'[u] \in {"top", "leaving"})
    <3>1. CASE u = t
      BY Zenon, <1>3, <2>1, <3>1 DEF ExitSound
    <3>2. CASE u # t
      BY Zenon, <1>8, <2>1, <3>2 DEF ExitSound, TypeOK
    <3> QED
      BY Zenon, <3>1, <3>2
  <2>2. ASSUME NEW u \in Threads \ exit.late
        PROVE  /\ at'[u] \in {"leaving", "left"} => mIn[u] = <<>>
               /\ exit.at = "done" /\ at'[u] = "top" => mIn[u] = <<>>
    <3>1. CASE u = t
      BY Zenon, <1>8, <1>10, <3>1
    <3>2. CASE u # t
      BY Zenon, <1>8, <3>2 DEF ExitSound
    <3> QED
      BY Zenon, <3>1, <3>2
  <2> QED
    BY Zenon, <1>2, <2>1, <2>2 DEF ExitSound
<1>15. RequestsAnswered'
  <2>1. ASSUME NEW u \in Threads, Answers(u) PROVE Answers(u)'
    BY Zenon, <1>2, <1>3, <1>8, <2>1 DEF Registers, Answers
  <2> QED
    BY Zenon, <1>2, <2>1, StillAnswered
<1> QED
  BY Zenon, <1>7, <1>11, <1>12, <1>13, <1>14, <1>15

----------------------------------------------------------------------------
(* The invariant holds and says what it should.                              *)

LEMMA InitIInv == Init => IInv
<1> SUFFICES ASSUME Init PROVE IInv
  BY Zenon
<1>1. /\ mThreadPoolSet = {} /\ mExitRequested = FALSE
      /\ at = [t \in Threads |-> "outside"]
      /\ mIn = [t \in Threads |-> <<>>] /\ mOut = [t \in Threads |-> <<>>]
      /\ stack = [t \in Threads |-> <<>>] /\ id = [t \in Threads |-> Unserving]
      /\ exit = [at |-> "no", by |-> None, late |-> {}]
      /\ driver = [requested |-> FALSE, started |-> 0, ignored |-> FALSE]
  BY Zenon DEF Init
<1>2. Unserving \in Ids
  <2>1. Own.pid \in Nat /\ Own.uid \in Nat /\ None \in Sids /\ 0 \in Nat
        /\ kUnsetWorkSource \in WorkSource /\ 0 \in Policies
    BY Zenon, CallersNamed DEF Sids, Policies, WorkSource, kUnsetWorkSource
  <2> QED
    BY <2>1, Zenon DEF Unserving, Ids
<1>3. TypeOK
  <2>1. at \in [Threads -> Place]
    BY Zenon, <1>1 DEF Place
  <2>2. <<>> \in Seq(CommandIn) /\ <<>> \in Seq(Frame)
        /\ <<>> \in Seq({"BC_REGISTER_LOOPER", "BC_ENTER_LOOPER"})
    OBVIOUS
  <2>3. /\ mIn \in [Threads -> Seq(CommandIn)] /\ stack \in [Threads -> Seq(Frame)]
        /\ mOut \in [Threads -> Seq({"BC_REGISTER_LOOPER", "BC_ENTER_LOOPER"})]
        /\ id \in [Threads -> Ids]
    BY <1>1, <1>2, <2>2, Zenon
  <2>4. exit \in ExitState
    BY Zenon, <1>1 DEF ExitState
  <2>5. driver \in DriverState
    <3>1. 0 \in Nat
      BY Zenon
    <3> QED
      BY <1>1, <3>1, Zenon DEF DriverState
  <2>6. mExitRequested \in BOOLEAN /\ mThreadPoolSet \in SUBSET Threads
    BY <1>1, Zenon
  <2> QED
    BY <2>1, <2>3, <2>4, <2>5, <2>6, Zenon DEF TypeOK
<1>4. StacksSound
  <2>1. FramesSound(<<>>)
    BY DEF FramesSound
  <2> QED
    BY <1>1, <2>1, Zenon DEF StacksSound, StackSound, TopSound
<1>5. PlacesSound
  BY <1>1 DEF PlacesSound, PlaceSound, In
<1>6. ExiterSound /\ ExitSound
  <2>1. exit.at = "no"
    BY Zenon, <1>1
  <2>2. ExiterSound
    BY Zenon, <2>1 DEF ExiterSound
  <2>3. ExitSound
    BY Zenon, <1>1, <2>1 DEF ExitSound
  <2> QED
    BY Zenon, <2>2, <2>3
<1>7. RequestsAnswered
  BY <1>1, Zenon DEF RequestsAnswered
<1> QED
  BY Zenon, <1>3, <1>4, <1>5, <1>6, <1>7 DEF IInv

LEMMA NextIInv ==
  ASSUME IInv, [Next]_vars, NobodyElse
  PROVE  IInv'
<1>1. CASE startThreadPool
  BY Zenon, <1>1, StartStep
<1>2. CASE setThreadPoolMaxThreadCount
  <2>1. UNCHANGED <<mThreadPoolSet, mExitRequested, at, mOut, mIn, stack, id, exit, driver>>
    BY Zenon, <1>2 DEF setThreadPoolMaxThreadCount, calls
  <2> QED
    BY Zenon, <2>1, QuietStep
<1>3. CASE Exit
  BY Zenon, <1>3, FlushStep, CheckStep, SetExitStep DEF Exit
<1>4. ASSUME NEW t \in Threads, Run(t) PROVE IInv'
  BY Zenon, <1>4, JoinStep, LoopTopStep, LeaveStep, BeginStep DEF Run
<1>5. ASSUME NEW t \in Threads, Handle(t) PROVE IInv'
  <2>1. CASE requestExit(t)
    BY Zenon, <2>1, RequestExitStep
  <2>2. CASE ~requestExit(t)
    BY <1>5, <2>2, HandleStep, Zenon DEF Handle
  <2> QED
    BY Zenon, <2>1, <2>2
<1>6. ASSUME NEW t \in Threads, EndCommand(t) PROVE IInv'
  BY Zenon, <1>6, EndStep
<1>7. ASSUME NEW t \in Threads, ReadReply(t) PROVE IInv'
  BY <1>7, HandleStep, Zenon
<1>8. ASSUME NEW t \in Threads, NEW s \in Senders, NEW oneway \in BOOLEAN, ReadCall(t, s, oneway)
      PROVE  IInv'
  BY <1>8, ReadCallStep, Zenon
<1>9. ASSUME NEW b \in Blockers, blockUntilThreadAvailable(b) \/ BlockerWakes(b) PROVE IInv'
  <2>1. UNCHANGED <<mThreadPoolSet, mExitRequested, at, mOut, mIn, stack, id, exit, driver>>
    BY <1>9, Zenon DEF blockUntilThreadAvailable, BlockerWakes, calls, pool
  <2> QED
    BY Zenon, <2>1, QuietStep
<1>10. CASE UNCHANGED vars
  <2>1. UNCHANGED <<mThreadPoolSet, mExitRequested, at, mOut, mIn, stack, id, exit, driver>>
    BY Zenon, <1>10 DEF vars, calls, pool
  <2> QED
    BY Zenon, <2>1, QuietStep
<1> QED
  BY <1>1, <1>2, <1>3, <1>4, <1>5, <1>6, <1>7, <1>8, <1>9, <1>10, Zenon DEF Next

LEMMA IInvKeepsPool == IInv => PoolSound
  BY Zenon DEF IInv, ExitSound, PoolSound, OnlyLateThreadsStay

LEMMA IInvKeepsIdentity == IInv => IdentityKept
<1> SUFFICES ASSUME IInv PROVE IdentityKept
  BY Zenon
<1>1. TypeOK /\ StacksSound
  BY Zenon DEF IInv
<1>2. IdentityRestored
  <2> SUFFICES ASSUME NEW t \in Threads
               PROVE  /\ stack[t] = <<>> => id[t] = Unserving
                      /\ In(t, {"calling"}) => id[t] = Top(t).was
    BY Zenon DEF IdentityRestored
  <2>1. StackSound(stack[t], id[t])
    BY Zenon, <1>1 DEF StacksSound
  <2>2. ASSUME In(t, {"calling"}) PROVE id[t] = Top(t).was
    <3>1. stack[t] # <<>> /\ stack[t][1].kind \in {"calling"} /\ Top(t) = stack[t][1]
      BY Zenon, <1>1, <2>2, InFacts
    <3> QED
      BY Zenon, <2>1, <3>1 DEF StackSound, TopSound
  <2> QED
    BY Zenon, <2>1, <2>2 DEF StackSound, TopSound
<1>3. HeaderOnlyIfSet
  <2> SUFFICES ASSUME NEW t \in Threads, NEW i \in 1 .. Depth(t),
                      stack[t][i].kind = "calling", stack[t][i].header # kUnsetWorkSource
               PROVE  \E j \in Handler(t, i) : stack[t][j].kind = "workSource"
    BY Zenon DEF HeaderOnlyIfSet
  <2>1. HasSet(stack[t], i + 1)
    BY Zenon, <1>1 DEF StacksSound, StackSound, FramesSound, FrameSound, Depth
  <2>2. PICK j \in i + 1 .. Len(stack[t]) : /\ stack[t][j].kind = "workSource"
                                            /\ \A k \in i + 1 .. j : stack[t][k].kind # "serving"
    BY Zenon, <2>1 DEF HasSet
  <2>3. j \in i .. Depth(t)
    BY <2>2, ThreadFacts, <1>1 DEF Depth
  <2> QED
    BY <2>2, <2>3, Zenon DEF Handler
<1> QED
  BY Zenon, <1>2, <1>3 DEF IdentityKept

LEMMA RestoreSteps ==
  ASSUME IInv, NEW t \in Threads
  PROVE  /\ restoreCallingIdentity(t) => <<id'[t].mCallingPid, id'[t].mCallingUid>> = Top(t).was
         /\ restoreCallingWorkSource(t) => Header(t)' = Top(t).was
<1>1. TypeOK /\ StacksSound
  BY Zenon DEF IInv
<1>2. ASSUME NEW n, NEW next \in Ids, Moves(t, n, next) PROVE id'[t] = next /\ Header(t)' = HeaderOf(next)
  BY Zenon, <1>1, <1>2 DEF Moves, TypeOK, Header, HeaderOf
<1>3. ASSUME restoreCallingIdentity(t) PROVE <<id'[t].mCallingPid, id'[t].mCallingUid>> = Top(t).was
  BY <1>1, <1>2, <1>3, RestoreIdentityMoves, Zenon
<1>4. ASSUME restoreCallingWorkSource(t) PROVE Header(t)' = Top(t).was
  BY <1>1, <1>2, <1>4, RestoreWorkSourceMoves, Zenon
<1> QED
  BY Zenon, <1>3, <1>4

INSTANCE FiniteSetTheorems

LEMMA NobodyElseRemains == NobodyElse
<1> SUFFICES ASSUME NEW S \in SUBSET Threads, NEW x, ~(Cardinality(S) > Cardinality(S \cap {x}))
             PROVE  S \subseteq {x}
  BY Zenon DEF NobodyElse
<1>1. IsFiniteSet(S)
  BY OneMainThread, FS_Subset, Zenon
<1>2. S \cap {x} \in SUBSET S
  BY Zenon
<1>3. /\ IsFiniteSet(S \cap {x}) /\ Cardinality(S \cap {x}) <= Cardinality(S)
      /\ Cardinality(S) = Cardinality(S \cap {x}) => S = S \cap {x}
  BY <1>1, <1>2, FS_Subset, Zenon
<1>4. Cardinality(S) \in Nat /\ Cardinality(S \cap {x}) \in Nat
  BY <1>1, <1>3, FS_CardinalityType, Zenon
<1>5. Cardinality(S) = Cardinality(S \cap {x})
  BY <1>3, <1>4
<1>6. S = S \cap {x}
  BY Zenon, <1>3, <1>5
<1> QED
  BY <1>6, Zenon

LEMMA AlwaysIInv == Spec => []IInv
<1>1. IInv /\ [Next]_vars => IInv'
  BY Zenon, NextIInv, NobodyElseRemains
<1> QED
  BY InitIInv, <1>1, PTL DEF Spec

(* However many threads join, serve and nest calls: a thread the driver has  *)
(* asked for is on its way, once requestExit has seen mThreadPoolSet empty   *)
(* only its caller and threads that registered late are in the pool with     *)
(* work to do, and no thread leaves joinThreadPool with a call that it has   *)
(* read and not executed.                                                    *)
THEOREM PoolStaysSound == Spec => []PoolSound
  BY AlwaysIInv, IInvKeepsPool, PTL

(* However deep calls nest and whatever handlers clear, set and leave unused *)
(* in between: executeCommand and waitForResponse give a thread back the     *)
(* identity it had, and a call carries a work source only if its own handler *)
(* has set one.                                                              *)
THEOREM IdentityIsKept == Spec => []IdentityKept
  BY AlwaysIInv, IInvKeepsIdentity, PTL

(* The packing of two fields into the 64 bits of a token loses nothing that  *)
(* restoreCallingIdentity and restoreCallingWorkSource are to bring back.    *)
THEOREM TokensDoRestore == Spec => TokensRestore
<1>1. IInv /\ [Next]_vars
      => [\A t \in Threads :
            /\ restoreCallingIdentity(t) => <<id'[t].mCallingPid, id'[t].mCallingUid>> = Top(t).was
            /\ restoreCallingWorkSource(t) => Header(t)' = Top(t).was]_vars
  BY RestoreSteps, Zenon
<1> QED
  BY <1>1, AlwaysIInv, PTL DEF Spec, TokensRestore
=============================================================================
