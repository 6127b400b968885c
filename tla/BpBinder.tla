------------------------------ MODULE BpBinder ------------------------------
(* The proxies of one process for objects behind the kernel driver           *)
(* (BpBinder.cpp), the handle table of ProcessState.cpp that finds them, and  *)
(* the commands about them that each thread collects for the driver           *)
(* (IPCThreadState.cpp).  A looper keeps its commands until it goes back to   *)
(* the driver, any other thread sends them at once; so the commands of two    *)
(* threads about one handle may reach the driver in either order.             *)
(* The driver is external.  Handle 0, which needs a call under the lock of    *)
(* the table, is left out.                                                    *)
EXTENDS Integers, Sequences, FiniteSets, SequencesExt

CONSTANTS Threads,
          Loopers,     \* the threads that are in joinThreadPool
          Handles,
          Proxies,     \* where a BpBinder can be allocated
          Recipients,  \* each is linked at most once
          None,
          Scenarios    \* bounds: [receives, recipients], the handles that arrive in parcels and who is linked

ASSUME LooperThreads == Loopers \subseteq Threads

VARIABLES mHandleToObject,  \* [Handles -> the proxy of its entry or None]
          proxy,            \* [Proxies -> the fields of the object]
          mLock,            \* [Proxies -> the thread that holds it, or None]
          mOut,             \* [Threads -> commands not yet written]
          postWrite,        \* [Threads -> mPostWriteWeakDerefs, mPostWriteStrongDerefs]
          agenda,           \* [Threads -> what the thread is about to do]
          mine,             \* [Threads -> the proxy its code holds an sp<> of, or None]
          buffer,           \* [Threads -> the handle in the parcel it has not freed, or None]
          unread,           \* the threads that have not read that handle yet
          driver,
          link,             \* [Recipients -> what became of its link]
          left              \* handles that may still arrive

vars == <<mHandleToObject, proxy, mLock, mOut, postWrite, agenda, mine, buffer, unread,
          driver, link, left>>

(* A weak count includes one for every strong reference.                     *)
NoProxy == [handle |-> None, strong |-> 0, weak |-> 0, mObitsSent |-> FALSE, mObituaries |-> None]
Allocated(p) == proxy[p].handle # None

NoDerefs == [weak |-> <<>>, strong |-> <<>>]

(* The driver: the references this process has by handle (those of its       *)
(* buffers too), which objects are alive, the death notifications it was     *)
(* asked for, and the answers to BC_CLEAR_DEATH_NOTIFICATION it will give.   *)
NoRefs == [strong |-> 0, weak |-> 0, buffers |-> 0]

Init == /\ mHandleToObject = [h \in Handles |-> None]
        /\ proxy = [p \in Proxies |-> NoProxy]
        /\ mLock = [p \in Proxies |-> None]
        /\ mOut = [t \in Threads |-> <<>>]
        /\ postWrite = [t \in Threads |-> NoDerefs]
        /\ agenda = [t \in Threads |-> <<>>]
        /\ mine = [t \in Threads |-> None]
        /\ buffer = [t \in Threads |-> None]
        /\ unread = {}
        /\ driver = [refs |-> [h \in Handles |-> NoRefs], alive |-> [h \in Handles |-> TRUE],
                     deaths |-> <<>>, cleared |-> <<>>, underflow |-> FALSE, refused |-> FALSE]
        /\ \E s \in Scenarios :
             /\ link = [r \in Recipients |-> IF r \in s.recipients THEN "never" ELSE "unused"]
             /\ left = s.receives

----------------------------------------------------------------------------
(* The driver executes a command.                                            *)
Total(refs) == refs.strong + refs.weak + refs.buffers

(* When the last reference by a handle goes, so does what was asked for it.  *)
Forgotten(d, h) ==
  IF Total(d.refs[h]) > 0 THEN d
  ELSE [d EXCEPT !.deaths = SelectSeq(@, LAMBDA n : ~(n.h = h /\ n.registered))]

Counted(d, h, kind, n) ==
  IF d.refs[h][kind] + n < 0 THEN [d EXCEPT !.underflow = TRUE]
  ELSE Forgotten([d EXCEPT !.refs[h][kind] = @ + n], h)

Registration(d, h) == {i \in DOMAIN d.deaths : d.deaths[i].h = h /\ d.deaths[i].registered}

(* A second request for a handle is refused: the first one still stands.     *)
Requested(d, h, p) ==
  IF Registration(d, h) # {} THEN [d EXCEPT !.refused = TRUE]
  ELSE [d EXCEPT !.deaths = Append(@, [h |-> h, cookie |-> p, registered |-> TRUE, clear |-> FALSE,
                                       at |-> IF d.alive[h] THEN "set" ELSE "queued"])]

(* A notification that is on its way is delivered, and then cleared.         *)
ClearedAt(d, i) ==
  IF d.deaths[i].at \in {"queued", "sent"}
  THEN [d EXCEPT !.deaths[i] = [@ EXCEPT !.registered = FALSE, !.clear = TRUE]]
  ELSE [d EXCEPT !.deaths = RemoveAt(@, i), !.cleared = Append(@, d.deaths[i].cookie)]

Clear(d, h, p) ==
  LET found == {i \in Registration(d, h) : d.deaths[i].cookie = p}
  IN  IF found = {} THEN d ELSE ClearedAt(d, CHOOSE i \in found : TRUE)

DeadBinderDone(d, p) ==
  LET i == CHOOSE j \in DOMAIN d.deaths : d.deaths[j].cookie = p /\ d.deaths[j].at = "sent"
  IN  IF d.deaths[i].clear
      THEN [d EXCEPT !.deaths = RemoveAt(@, i), !.cleared = Append(@, p)]
      ELSE [d EXCEPT !.deaths[i].at = "done"]

Exec(d, c) ==
  CASE c.cmd = "BC_INCREFS" -> Counted(d, c.h, "weak", 1)
    [] c.cmd = "BC_ACQUIRE" -> Counted(d, c.h, "strong", 1)
    [] c.cmd = "BC_RELEASE" -> Counted(d, c.h, "strong", -1)
    [] c.cmd = "BC_DECREFS" -> Counted(d, c.h, "weak", -1)
    [] c.cmd = "BC_FREE_BUFFER" -> Counted(d, c.h, "buffers", -1)
    [] c.cmd = "BC_REQUEST_DEATH_NOTIFICATION" -> Requested(d, c.h, c.p)
    [] c.cmd = "BC_CLEAR_DEATH_NOTIFICATION" -> Clear(d, c.h, c.p)
    [] c.cmd = "BC_DEAD_BINDER_DONE" -> DeadBinderDone(d, c.p)

Executed(cmds) == FoldLeft(Exec, driver, cmds)

BC(cmd, p) == [cmd |-> cmd, p |-> p, h |-> proxy[p].handle]

----------------------------------------------------------------------------
(* What a thread does step by step.                                          *)
Do(what, p) == [do |-> what, p |-> p]
Idle(t) == agenda[t] = <<>>
At(t, what) == ~Idle(t) /\ Head(agenda[t]).do = what
Subject(t) == Head(agenda[t]).p
Then(t, steps) == agenda' = [agenda EXCEPT ![t] = steps \o Tail(@)]
Start(t, steps) == agenda' = [agenda EXCEPT ![t] = steps]

(* flushIfNeeded: a looper comes back to the driver anyway.                  *)
Flushes(t) == t \notin Loopers

(* Commands are appended to mOut, and written if the thread does not wait.   *)
Write(t, cmds) ==
  IF Flushes(t)
  THEN /\ driver' = Executed(mOut[t] \o cmds)
       /\ mOut' = [mOut EXCEPT ![t] = <<>>]
  ELSE /\ mOut' = [mOut EXCEPT ![t] = @ \o cmds]
       /\ UNCHANGED driver

(* incWeakHandle, incStrongHandle: a thread that does not flush keeps the    *)
(* proxy alive until the driver has the command.                             *)
Keeps(t) == ~Flushes(t)

Keep(t, weak, strong) ==
  IF Keeps(t)
  THEN postWrite' = [postWrite EXCEPT ![t] = [weak |-> @.weak \o weak, strong |-> @.strong \o strong]]
  ELSE UNCHANGED postWrite

(* processPostWriteDerefs: the weak ones come first.                         *)
PostWriteDerefs(t) ==
  [i \in DOMAIN postWrite[t].weak |-> Do("decWeak", postWrite[t].weak[i])] \o
  [i \in DOMAIN postWrite[t].strong |-> Do("decStrong", postWrite[t].strong[i])]

(* talkWithDriver writes everything, then drops what it kept for it.         *)
Talks(t, after) ==
  /\ mOut' = [mOut EXCEPT ![t] = <<>>]
  /\ postWrite' = [postWrite EXCEPT ![t] = NoDerefs]
  /\ agenda' = [agenda EXCEPT ![t] = PostWriteDerefs(t) \o after]

(* flushCommands: the decrements may have queued more commands.              *)
flushCommands == <<Do("talk", None), Do("talk", None)>>

talkWithDriver(t) ==
  /\ At(t, "talk")
  /\ driver' = Executed(mOut[t])
  /\ Talks(t, Tail(agenda[t]))
  /\ UNCHANGED <<mHandleToObject, proxy, mLock, mine, buffer, unread, link, left>>

----------------------------------------------------------------------------
(* References.                                                               *)
Unlocked(p) == mLock[p] = None

(* The entry is empty, or attemptIncWeak fails on its proxy.                 *)
NeedsProxy(h) == mHandleToObject[h] \in {None} \cup {p \in Proxies : proxy[p].weak = 0}

(* getStrongProxyForHandle makes a proxy: its constructor takes a weak       *)
(* reference by the handle and its first strong reference a strong one.      *)
create(t, h, p) ==
  LET kept == IF Keeps(t) THEN 1 ELSE 0 IN
  /\ NeedsProxy(h)
  /\ ~Allocated(p)
  /\ proxy' = [proxy EXCEPT ![p] = [NoProxy EXCEPT !.handle = h, !.strong = 1 + kept, !.weak = 1 + 2 * kept]]
  /\ Write(t, <<[cmd |-> "BC_INCREFS", h |-> h], [cmd |-> "BC_ACQUIRE", h |-> h]>>)
  /\ Keep(t, <<p>>, <<p>>)
  /\ mHandleToObject' = [mHandleToObject EXCEPT ![h] = p]

(* Whether a strong reference to p calls onFirstRef.                         *)
IsFirst(p) == proxy[p].strong = 0

(* ... or takes a reference to the one there is with force_set, which calls  *)
(* onFirstRef again when there was no strong reference left.                 *)
force_set(t, h, p) ==
  LET first == IsFirst(p)
      kept == IF first /\ Keeps(t) THEN 1 ELSE 0
  IN
  /\ ~NeedsProxy(h)
  /\ p = mHandleToObject[h]
  /\ proxy' = [proxy EXCEPT ![p].strong = @ + 1 + kept, ![p].weak = @ + 1 + kept]
  /\ IF first THEN /\ Write(t, <<[cmd |-> "BC_ACQUIRE", h |-> h]>>)
                   /\ Keep(t, <<>>, <<p>>)
              ELSE UNCHANGED <<driver, mOut, postWrite>>
  /\ UNCHANGED mHandleToObject

getStrongProxyForHandle(t) ==
  /\ Idle(t) /\ t \in unread /\ mine[t] = None
  /\ \E p \in Proxies :
       /\ create(t, buffer[t], p) \/ force_set(t, buffer[t], p)
       /\ mine' = [mine EXCEPT ![t] = p]
  /\ unread' = unread \ {t}
  /\ UNCHANGED <<mLock, agenda, buffer, link, left>>

(* The code of a thread lets go of its proxy.                                *)
Drop(t) ==
  /\ Idle(t) /\ mine[t] # None
  /\ mine' = [mine EXCEPT ![t] = None]
  /\ Start(t, <<Do("decStrong", mine[t])>>)
  /\ UNCHANGED <<mHandleToObject, proxy, mLock, mOut, postWrite, buffer, unread, driver, link, left>>

(* Faulty variant: the buffer is given back before what is waiting in mOut.  *)
freeBufferFirst(t) ==
  /\ Idle(t) /\ buffer[t] # None
  /\ driver' = Counted(driver, buffer[t], "buffers", -1)
  /\ buffer' = [buffer EXCEPT ![t] = None]
  /\ unread' = unread \ {t}
  /\ UNCHANGED <<mHandleToObject, proxy, mLock, mOut, postWrite, agenda, mine, link, left>>

(* The parcel that brought the handle is destroyed.                          *)
freeBuffer(t) ==
  /\ Idle(t) /\ buffer[t] # None
  /\ Write(t, <<[cmd |-> "BC_FREE_BUFFER", h |-> buffer[t]]>>)
  /\ buffer' = [buffer EXCEPT ![t] = None]
  /\ unread' = unread \ {t}
  /\ UNCHANGED <<mHandleToObject, proxy, mLock, postWrite, agenda, mine, link, left>>

(* RefBase::decStrong: onLastStrongRef follows when the count reaches zero.  *)
decStrong(t) ==
  /\ At(t, "decStrong")
  /\ LET p == Subject(t)
         last == IF proxy[p].strong = 1
                 THEN <<Do("decStrongHandle", p), Do("unlinkAll", p)>> ELSE <<>>
     IN  /\ proxy' = [proxy EXCEPT ![p].strong = @ - 1]
         /\ Then(t, last \o <<Do("decWeak", p)>>)
  /\ UNCHANGED <<mHandleToObject, mLock, mOut, postWrite, mine, buffer, unread, driver, link, left>>

(* onLastStrongRef: BC_RELEASE ...                                           *)
decStrongHandle(t) ==
  /\ At(t, "decStrongHandle")
  /\ Write(t, <<BC("BC_RELEASE", Subject(t))>>)
  /\ Then(t, <<>>)
  /\ UNCHANGED <<mHandleToObject, proxy, mLock, postWrite, mine, buffer, unread, link, left>>

(* ... and the recipients that are left are unlinked; the command for the    *)
(* driver is not flushed.                                                    *)
unlinkAll(t) ==
  /\ At(t, "unlinkAll")
  /\ LET p == Subject(t) IN
       /\ Unlocked(p)
       /\ IF proxy[p].mObituaries = None THEN UNCHANGED <<mOut, proxy, link>>
          ELSE /\ mOut' = [mOut EXCEPT ![t] = Append(@, BC("BC_CLEAR_DEATH_NOTIFICATION", p))]
               /\ proxy' = [proxy EXCEPT ![p].mObituaries = None]
               /\ link' = [r \in Recipients |-> IF r \in proxy[p].mObituaries THEN "unlinked" ELSE link[r]]
  /\ Then(t, <<>>)
  /\ UNCHANGED <<mHandleToObject, mLock, postWrite, mine, buffer, unread, driver, left>>

(* decWeak: the destructor runs when the last weak reference goes.           *)
decWeak(t) ==
  /\ At(t, "decWeak")
  /\ LET p == Subject(t)
         last == IF proxy[p].weak = 1 THEN <<Do("expungeHandle", p), Do("decWeakHandle", p)>> ELSE <<>>
     IN  /\ proxy' = [proxy EXCEPT ![p].weak = @ - 1]
         /\ Then(t, last)
  /\ UNCHANGED <<mHandleToObject, mLock, mOut, postWrite, mine, buffer, unread, driver, link, left>>

(* Faulty variant: the entry is emptied although it has a newer proxy.       *)
IsEntryAlways(p) == TRUE

(* The entry may have been given to a newer proxy.                           *)
IsEntry(p) == mHandleToObject[proxy[p].handle] = p

expungeHandle(t) ==
  /\ At(t, "expungeHandle")
  /\ LET p == Subject(t) IN
       mHandleToObject' = IF IsEntry(p) THEN [mHandleToObject EXCEPT ![proxy[p].handle] = None]
                          ELSE mHandleToObject
  /\ Then(t, <<>>)
  /\ UNCHANGED <<proxy, mLock, mOut, postWrite, mine, buffer, unread, driver, link, left>>

(* The end of ~BpBinder: BC_DECREFS, and the memory is freed.                *)
decWeakHandle(t) ==
  /\ At(t, "decWeakHandle")
  /\ Write(t, <<BC("BC_DECREFS", Subject(t))>>)
  /\ proxy' = [proxy EXCEPT ![Subject(t)] = NoProxy]
  /\ Then(t, <<>>)
  /\ UNCHANGED <<mHandleToObject, mLock, postWrite, mine, buffer, unread, link, left>>

----------------------------------------------------------------------------
(* Death notifications.                                                      *)

(* getWeakRefs()->incWeak(this) before the driver is asked.                  *)
CookieRefs == 1

First(p, r) == [do |-> "addFirst", p |-> p, r |-> r]

(* linkToDeath of the proxy a thread holds; the first link asks the driver,  *)
(* with a weak reference for the cookie, under mLock.                        *)
linkToDeath(t, r) ==
  LET p == mine[t] IN
  /\ Idle(t) /\ p # None /\ Unlocked(p)
  /\ link[r] = "never"
  /\ ~proxy[p].mObitsSent
  /\ IF proxy[p].mObituaries = None
     THEN /\ proxy' = [proxy EXCEPT ![p].weak = @ + CookieRefs]
          /\ mOut' = [mOut EXCEPT ![t] = Append(@, BC("BC_REQUEST_DEATH_NOTIFICATION", p))]
          /\ mLock' = [mLock EXCEPT ![p] = t]
          /\ Start(t, flushCommands \o <<First(p, r), Do("unlock", p)>>)
          /\ link' = [link EXCEPT ![r] = "linking"]
     ELSE /\ proxy' = [proxy EXCEPT ![p].mObituaries = @ \cup {r}]
          /\ link' = [link EXCEPT ![r] = "linked"]
          /\ UNCHANGED <<mOut, mLock, agenda>>
  /\ UNCHANGED <<mHandleToObject, postWrite, mine, buffer, unread, driver, left>>

addFirst(t) ==
  /\ At(t, "addFirst")
  /\ LET r == Head(agenda[t]).r IN
       /\ proxy' = [proxy EXCEPT ![Subject(t)].mObituaries = {r}]
       /\ link' = [link EXCEPT ![r] = "linked"]
  /\ Then(t, <<>>)
  /\ UNCHANGED <<mHandleToObject, mLock, mOut, postWrite, mine, buffer, unread, driver, left>>

unlock(t) ==
  /\ At(t, "unlock")
  /\ mLock' = [mLock EXCEPT ![Subject(t)] = None]
  /\ Then(t, <<>>)
  /\ UNCHANGED <<mHandleToObject, proxy, mOut, postWrite, mine, buffer, unread, driver, link, left>>

(* Faulty variants: the notification is cleared although others are linked;  *)
(* the recipient is found and not removed.                                   *)
LastLinkAlways(p, r) == TRUE
NotUnlinked(p, r) == proxy[p].mObituaries

(* What is left of mObituaries without r, and whether that is nothing.       *)
LastLink(p, r) == proxy[p].mObituaries = {r}
Unlinked(p, r) == proxy[p].mObituaries \ {r}

(* unlinkToDeath: the last one clears the notification, under mLock.         *)
unlinkToDeath(t, r) ==
  LET p == mine[t] IN
  /\ Idle(t) /\ p # None /\ Unlocked(p)
  /\ ~proxy[p].mObitsSent
  /\ proxy[p].mObituaries # None /\ r \in proxy[p].mObituaries
  /\ link' = [link EXCEPT ![r] = "unlinked"]
  /\ IF LastLink(p, r)
     THEN /\ proxy' = [proxy EXCEPT ![p].mObituaries = None]
          /\ mOut' = [mOut EXCEPT ![t] = Append(@, BC("BC_CLEAR_DEATH_NOTIFICATION", p))]
          /\ mLock' = [mLock EXCEPT ![p] = t]
          /\ Start(t, flushCommands \o <<Do("unlock", p)>>)
     ELSE /\ proxy' = [proxy EXCEPT ![p].mObituaries = Unlinked(p, r)]
          /\ UNCHANGED <<mOut, mLock, agenda>>
  /\ UNCHANGED <<mHandleToObject, postWrite, mine, buffer, unread, driver, left>>

(* BR_DEAD_BINDER: sendObituary takes the recipients and clears the          *)
(* notification under mLock, then reports to each of them.                   *)
Report(p, rs) == [do |-> "reportOneDeath", p |-> p, to |-> rs]

sendObituary(t) ==
  /\ At(t, "sendObituary")
  /\ LET p == Subject(t)
         obits == proxy[p].mObituaries
     IN  \/ /\ proxy[p].mObitsSent
            /\ Then(t, <<>>)
            /\ UNCHANGED <<proxy, mLock, mOut>>
         \/ /\ ~proxy[p].mObitsSent /\ Unlocked(p)
            /\ proxy' = [proxy EXCEPT ![p].mObitsSent = TRUE, ![p].mObituaries = None]
            /\ IF obits = None THEN Then(t, <<>>) /\ UNCHANGED <<mLock, mOut>>
               ELSE /\ mOut' = [mOut EXCEPT ![t] = Append(@, BC("BC_CLEAR_DEATH_NOTIFICATION", p))]
                    /\ mLock' = [mLock EXCEPT ![p] = t]
                    /\ Then(t, flushCommands \o <<Do("unlock", p), Report(p, obits)>>)
  /\ UNCHANGED <<mHandleToObject, postWrite, mine, buffer, unread, driver, link, left>>

(* A recipient that is not linked is told: "wrong".                          *)
reportOneDeath(t) ==
  /\ At(t, "reportOneDeath")
  /\ \E r \in Head(agenda[t]).to :
       LET rest == Head(agenda[t]).to \ {r} IN
       /\ link' = [link EXCEPT ![r] = IF @ = "linked" THEN "told" ELSE "wrong"]
       /\ Then(t, IF rest = {} THEN <<>> ELSE <<Report(Subject(t), rest)>>)
  /\ UNCHANGED <<mHandleToObject, proxy, mLock, mOut, postWrite, mine, buffer, unread, driver, left>>

deadBinderDone(t) ==
  /\ At(t, "deadBinderDone")
  /\ mOut' = [mOut EXCEPT ![t] = Append(@, [cmd |-> "BC_DEAD_BINDER_DONE", p |-> Subject(t)])]
  /\ Then(t, <<>>)
  /\ UNCHANGED <<mHandleToObject, proxy, mLock, postWrite, mine, buffer, unread, driver, link, left>>

----------------------------------------------------------------------------
(* A looper that serves nothing, or any thread in a call, is at the driver.  *)
AtDriver(t) == Idle(t) /\ buffer[t] = None

(* A transaction or a reply brings a handle.                                 *)
Receive(t, h) ==
  /\ AtDriver(t)
  /\ left > 0
  /\ left' = left - 1
  /\ driver' = Counted(Executed(mOut[t]), h, "buffers", 1)
  /\ buffer' = [buffer EXCEPT ![t] = h]
  /\ unread' = unread \cup {t}
  /\ Talks(t, <<>>)
  /\ UNCHANGED <<mHandleToObject, proxy, mLock, mine, link>>

(* A thread goes to the driver and nothing comes of it.                      *)
Poll(t) ==
  /\ AtDriver(t)
  /\ mOut[t] # <<>>
  /\ driver' = Executed(mOut[t])
  /\ Talks(t, <<>>)
  /\ UNCHANGED <<mHandleToObject, proxy, mLock, mine, buffer, unread, link, left>>

(* BR_DEAD_BINDER: what was written in the same call comes first.            *)
ReadDeadBinder(t) ==
  /\ t \in Loopers /\ AtDriver(t)
  /\ LET d == Executed(mOut[t]) IN
       \E i \in DOMAIN d.deaths :
         /\ d.deaths[i].at = "queued"
         /\ driver' = [d EXCEPT !.deaths[i].at = "sent"]
         /\ Talks(t, <<Do("sendObituary", d.deaths[i].cookie), Do("deadBinderDone", d.deaths[i].cookie)>>)
  /\ UNCHANGED <<mHandleToObject, proxy, mLock, mine, buffer, unread, link, left>>

(* Faulty variant: the reference of the link stays.                          *)
KeepsCookie(p) == <<>>

(* What BR_CLEAR_DEATH_NOTIFICATION_DONE makes a thread do.                  *)
ReleasesCookie(p) == <<Do("decWeak", p)>>

(* BR_CLEAR_DEATH_NOTIFICATION_DONE gives the reference of the link back.    *)
ReadClearDone(t) ==
  /\ t \in Loopers /\ AtDriver(t)
  /\ LET d == Executed(mOut[t]) IN
       /\ d.cleared # <<>>
       /\ driver' = [d EXCEPT !.cleared = Tail(@)]
       /\ Talks(t, ReleasesCookie(Head(d.cleared)))
  /\ UNCHANGED <<mHandleToObject, proxy, mLock, mine, buffer, unread, link, left>>

(* The process of an object dies.                                            *)
Die(h) ==
  /\ driver.alive[h]
  /\ driver' = [driver EXCEPT !.alive[h] = FALSE,
                              !.deaths = [i \in DOMAIN @ |-> IF @[i].h = h /\ @[i].at = "set"
                                                             THEN [@[i] EXCEPT !.at = "queued"] ELSE @[i]]]
  /\ UNCHANGED <<mHandleToObject, proxy, mLock, mOut, postWrite, agenda, mine, buffer, unread, link, left>>

(* What a thread is in the middle of, and what it does of its own accord.    *)
Continue(t) ==
  \/ talkWithDriver(t) \/ decStrong(t) \/ decStrongHandle(t) \/ unlinkAll(t) \/ decWeak(t)
  \/ expungeHandle(t) \/ decWeakHandle(t) \/ addFirst(t) \/ unlock(t)
  \/ sendObituary(t) \/ reportOneDeath(t) \/ deadBinderDone(t)

Loop(t) == Poll(t) \/ ReadDeadBinder(t) \/ ReadClearDone(t)

Next == \/ \E t \in Threads : \/ Continue(t) \/ Loop(t)
                              \/ getStrongProxyForHandle(t) \/ Drop(t) \/ freeBuffer(t)
                              \/ \E h \in Handles : Receive(t, h)
                              \/ \E r \in Recipients : linkToDeath(t, r) \/ unlinkToDeath(t, r)
        \/ \E h \in Handles : Die(h)

Spec == Init /\ [][Next]_vars

(* Threads run, handlers end, and loopers come back to the driver; another   *)
(* thread may never call again.                                              *)
FairSpec == /\ Spec
            /\ \A t \in Threads : WF_vars(Continue(t)) /\ WF_vars(freeBuffer(t))
            /\ \A t \in Loopers : WF_vars(Loop(t))

----------------------------------------------------------------------------
(* Commands about a handle that are in a mOut, or about to be written.       *)
Pending(cmd, h) ==
  LET in(t) == Cardinality({i \in DOMAIN mOut[t] : mOut[t][i].cmd = cmd /\ mOut[t][i].h = h})
  IN  FoldSet(LAMBDA t, n : n + in(t), 0, Threads)
About(what, h) ==
  LET in(t) == Cardinality({i \in DOMAIN agenda[t] : agenda[t][i].do = what
                                                     /\ proxy[agenda[t][i].p].handle = h})
  IN  FoldSet(LAMBDA t, n : n + in(t), 0, Threads)

(* onFirstRef and onLastStrongRef alternate although force_set can revive a  *)
(* proxy between the two halves of its last decrement: the driver counts,    *)
(* with what is on its way to it, one strong reference for each proxy in use.*)
StrongConserved ==
  \A h \in Handles :
    driver.refs[h].strong + Pending("BC_ACQUIRE", h)
      = Pending("BC_RELEASE", h) + About("decStrongHandle", h)
        + Cardinality({p \in Proxies : proxy[p].handle = h /\ proxy[p].strong > 0})

(* A handle keeps naming the object a proxy was made for: the driver counts  *)
(* some reference by it, be it that of a buffer, until the proxy is gone; and *)
(* a decrement of one thread never reaches the driver before the increment   *)
(* another has in its mOut ("Create a temp reference until the driver has    *)
(* handled this command").                                                   *)
HandleStaysValid ==
  /\ ~driver.underflow
  /\ \A p \in Proxies : Allocated(p) => Total(driver.refs[proxy[p].handle]) > 0

(* What the driver counts for this process is what its proxies need.         *)
DriverCounts == StrongConserved /\ HandleStaysValid

(* "attemptIncWeak() is safe because we know the BpBinder destructor will    *)
(* always call expungeHandle()", and the pointers the driver gives back with *)
(* BR_DEAD_BINDER and BR_CLEAR_DEATH_NOTIFICATION_DONE are those of proxies. *)
Used == {mHandleToObject[h] : h \in Handles} \cup {mine[t] : t \in Threads}
        \cup UNION {{agenda[t][i].p : i \in DOMAIN agenda[t]} : t \in Threads}
        \cup UNION {Range(postWrite[t].weak) \cup Range(postWrite[t].strong) : t \in Threads}
        \cup {driver.deaths[i].cookie : i \in DOMAIN driver.deaths} \cup Range(driver.cleared)
NoDanglingProxy == \A p \in Used \ {None} : Allocated(p)

(* A remote object has one proxy at a time: a second one is only made while  *)
(* the destructor of the first runs, and that leaves the new entry alone.    *)
OneProxy ==
  \A p, q \in Proxies :
    p # q /\ proxy[p].weak > 0 /\ proxy[q].weak > 0 => proxy[p].handle # proxy[q].handle

(* The table of handles and the pointers in the driver name one live proxy.  *)
ProxiesNamed == NoDanglingProxy /\ OneProxy

(* "The recipient will no longer be called": binderDied() is called at most  *)
(* once for a link, and not after unlinkToDeath() returned NO_ERROR or the   *)
(* last strong reference was dropped, whatever is on its way from the driver.*)
ToldOnlyWhileLinked == \A r \in Recipients : link[r] # "wrong"

(* "If this binder object unexpectedly goes away [...] binderDied() will be  *)
(* called": the driver knows of every proxy that has recipients.             *)
LinksAreRegistered ==
  \A p \in Proxies :
    proxy[p].mObituaries # None /\ Unlocked(p)
    => \E i \in DOMAIN driver.deaths : driver.deaths[i].registered /\ driver.deaths[i].cookie = p

Quiet == /\ \A t \in Threads : Idle(t) /\ mOut[t] = <<>> /\ mine[t] = None /\ buffer[t] = None
         /\ driver.cleared = <<>>
         /\ \A i \in DOMAIN driver.deaths : driver.deaths[i].at \notin {"queued", "sent"}

(* When the threads have let go of everything and written their commands, no *)
(* proxy and no reference is left, unless the driver refused a request.      *)
NothingLeaks ==
  Quiet /\ ~driver.refused
  => /\ \A p \in Proxies : ~Allocated(p)
     /\ \A h \in Handles : driver.refs[h] = NoRefs

(* A recipient of an object that died is told, or its link ends, as long as  *)
(* the driver has not refused a request.                                     *)
DeathsReported ==
  \A r \in Recipients :
    (link[r] = "linked" /\ \A h \in Handles : ~driver.alive[h]) ~> (link[r] # "linked" \/ driver.refused)
=============================================================================
