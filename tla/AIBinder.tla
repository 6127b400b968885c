------------------------------ MODULE AIBinder ------------------------------
(* The NDK's view of a binder object that is not its own (ndk/ibinder.cpp):   *)
(* the ABpBinder that stands for it, found again through a Value attached to  *)
(* the object, the class associated with it, and a death recipient with the   *)
(* TransferDeathRecipient it makes for every link.  Threads of the process    *)
(* use all of it at once.  RefBase is external; the object is a proxy as      *)
(* module BpBinder has it, seen from above: a count, a Value and obituaries.  *)
EXTENDS Integers, Sequences, FiniteSets

CONSTANTS Threads,
          Proxies,    \* where an ABpBinder can be allocated, numbers: the first free one is taken
          Links,      \* where a TransferDeathRecipient can be allocated, numbers as well
          Classes,    \* AIBinder_Class objects of the object's descriptor
          Strangers,  \* ... and of other descriptors
          Cookies,
          None, Absent,
          Scenarios   \* bounds: [ops, left], the calls of the API and how many of them

ASSUME NamesApart ==
  /\ IsFiniteSet(Threads) /\ IsFiniteSet(Proxies)
  /\ Links \subseteq Nat
  /\ None # Absent /\ {None, Absent} \cap Proxies = {}
  /\ None \notin Classes \cup Strangers

VARIABLES remote,  \* the IBinder: its strong count, mObituaries and mObitsSent
          value,   \* the attached Value: Absent, or its binder, a proxy or None
          abp,     \* [Proxies -> the ABpBinder]
          held,    \* [Threads -> the AIBinder* it has a reference of, or None]
          weakly,  \* [Threads -> the AIBinder its AIBinder_Weak is of, or None]
          told,    \* [Threads -> the class that was associated with what it holds, or None]
          given,   \* BOOLEAN: the rest of the process holds the IBinder
          rec,     \* the AIBinder_DeathRecipient: its count and mDeathRecipients, a vector in the
                   \* order of linking, which is that of the numbers of the links
          tdr,     \* [Links -> the TransferDeathRecipient]
          agenda,  \* [Threads -> what the thread is about to do]
          ops,     \* the calls of this behaviour
          left     \* how many of them may still be made

refs == <<remote, value, abp, held, weakly, told, given>>
deaths == <<rec, tdr>>
vars == <<refs, deaths, agenda, ops, left>>

(* A weak count includes one for every strong reference.                     *)
NoProxy == [strong |-> 0, weak |-> 0, mClazz |-> None]

(* A link has the calls of onUnlinked and onDied counted, and what the user  *)
(* was told or did about it.                                                 *)
NoLink == [sp |-> 0, mCookie |-> None, mWho |-> FALSE, unlinked |-> 0, died |-> FALSE,
           late |-> FALSE, user |-> "never"]

Init == /\ remote = [strong |-> 1, obits |-> <<>>, sent |-> FALSE]
        /\ value = Absent
        /\ abp = [p \in Proxies |-> NoProxy]
        /\ held = [t \in Threads |-> None]
        /\ weakly = [t \in Threads |-> None]
        /\ told = [t \in Threads |-> None]
        /\ given = TRUE
        /\ rec = [strong |-> 1, list |-> {}]
        /\ tdr = [l \in Links |-> NoLink]
        /\ agenda = [t \in Threads |-> <<>>]
        /\ \E s \in Scenarios : ops = s.ops /\ left = s.left

----------------------------------------------------------------------------
(* What a thread does step by step, and the calls it makes.                  *)
Do(what, x) == [do |-> what, on |-> x]
Idle(t) == agenda[t] = <<>>
At(t, what) == ~Idle(t) /\ Head(agenda[t]).do = what
On(t) == Head(agenda[t]).on
Then(t, steps) == agenda' = [agenda EXCEPT ![t] = steps \o Tail(@)]

Call(t, op, steps) ==
  /\ Idle(t)
  /\ op \in ops
  /\ left > 0
  /\ left' = left - 1
  /\ agenda' = [agenda EXCEPT ![t] = steps]
  /\ UNCHANGED ops

(* The step of a call that is under way.                                     *)
Step(t, what, steps) == At(t, what) /\ Then(t, steps) /\ UNCHANGED <<ops, left>>

----------------------------------------------------------------------------
(* ABpBinder.                                                                *)

(* lookupOrCreateFromBinder(binder) with an sp<IBinder> of the caller.       *)
lookupOrCreateFromBinder(t) ==
  /\ held[t] = None
  /\ remote.strong > 0
  /\ Call(t, "lookup", <<Do("findObject", None)>>)
  /\ remote' = [remote EXCEPT !.strong = @ + 1]
  /\ UNCHANGED <<value, abp, held, weakly, told, given, deaths>>

findObject(t) ==
  /\ Step(t, "findObject", IF value = Absent THEN <<Do("attachObject", None), Do("withLock", None)>>
                           ELSE <<Do("withLock", None)>>)
  /\ UNCHANGED <<refs, deaths>>

(* "allocated by another thread": the Value that was attached first stays.   *)
attachObject(t) ==
  /\ Step(t, "attachObject", <<>>)
  /\ value' = IF value = Absent THEN None ELSE value
  /\ UNCHANGED <<remote, abp, held, weakly, told, given, deaths>>

FirstFree(S, Free(_)) == {x \in S : Free(x) /\ \A y \in S : y < x => ~Free(y)}

(* Faulty variant: an ABpBinder comes back without its hold on the object.   *)
RevivedAlone(p) == 0

(* BpRefBase::onIncStrongAttempted: an ABpBinder whose last strong reference *)
(* is gone takes one on the object again, if that is still there.            *)
Revived(p) == IF abp[p].strong = 0 THEN 1 ELSE 0
Promotes(p) == p \in Proxies /\ (abp[p].strong > 0 \/ remote.strong > 0)

(* Under the lock of the object: the ABpBinder of the Value, or a new one.   *)
(* A promotion is one step of RefBase: that of two threads which revive an   *)
(* ABpBinder at once the later gives its reference on the object back, is    *)
(* left out.                                                                 *)
promoteOrMake(t) ==
  /\ Step(t, "withLock", <<Do("decRemote", None)>>)
  /\ \E p \in Proxies :
       /\ held' = [held EXCEPT ![t] = p]
       /\ \/ /\ Promotes(value) /\ p = value
             /\ abp' = [abp EXCEPT ![p].strong = @ + 1, ![p].weak = @ + 1]
             /\ remote' = [remote EXCEPT !.strong = @ + Revived(p)]
             /\ UNCHANGED value
          \/ /\ ~Promotes(value)
             /\ p \in FirstFree(Proxies, LAMBDA q : abp[q].weak = 0)
             /\ abp' = [abp EXCEPT ![p] = [NoProxy EXCEPT !.strong = 1, !.weak = 2]]
             /\ remote' = [remote EXCEPT !.strong = @ + 1]
             /\ value' = p
  /\ UNCHANGED <<weakly, told, given, deaths>>

(* An sp<IBinder> goes: that of the argument, or that of an ABpBinder in     *)
(* BpRefBase::onLastStrongRef.                                               *)
decRemote(t) ==
  /\ Step(t, "decRemote", <<>>)
  /\ remote' = [remote EXCEPT !.strong = @ - 1]
  /\ UNCHANGED <<value, abp, held, weakly, told, given, deaths>>

(* The rest of the process lets go of the object.                            *)
Forget ==
  /\ given
  /\ given' = FALSE
  /\ remote' = [remote EXCEPT !.strong = @ - 1]
  /\ UNCHANGED <<value, abp, held, weakly, told, deaths, agenda, ops, left>>

(* AIBinder_decStrong: onLastStrongRef follows when the count reaches zero.  *)
AIBinder_decStrong(t) ==
  /\ Idle(t) /\ held[t] # None
  /\ LET p == held[t]
         last == IF abp[p].strong = 1
                 THEN <<Do("onLastStrongRef", p), Do("decRemote", None)>> ELSE <<>>
     IN  /\ abp' = [abp EXCEPT ![p].strong = @ - 1]
         /\ agenda' = [agenda EXCEPT ![t] = last \o <<Do("decWeak", p)>>]
  /\ held' = [held EXCEPT ![t] = None]
  /\ told' = [told EXCEPT ![t] = None]
  /\ UNCHANGED <<remote, value, weakly, given, deaths, ops, left>>

(* A weak reference goes, and with the last one the object.                  *)
LessWeak(b) == IF b.weak = 1 THEN NoProxy ELSE [b EXCEPT !.weak = @ - 1]
Weaker(all, p) == [all EXCEPT ![p] = LessWeak(@)]

(* ABpBinder::onLastStrongRef empties the Value, whatever it has by then.    *)
onLastStrongRef(t) ==
  /\ Step(t, "onLastStrongRef", <<>>)
  /\ value' = None
  /\ abp' = IF value \in Proxies THEN Weaker(abp, value) ELSE abp
  /\ UNCHANGED <<remote, held, weakly, told, given, deaths>>

decWeak(t) ==
  /\ Step(t, "decWeak", <<>>)
  /\ abp' = Weaker(abp, On(t))
  /\ UNCHANGED <<remote, value, held, weakly, told, given, deaths>>

AIBinder_Weak_new(t) ==
  /\ held[t] # None /\ weakly[t] = None
  /\ Call(t, "weak", <<>>)
  /\ weakly' = [weakly EXCEPT ![t] = held[t]]
  /\ abp' = [abp EXCEPT ![held[t]].weak = @ + 1]
  /\ UNCHANGED <<remote, value, held, told, given, deaths>>

AIBinder_Weak_promote(t) ==
  /\ held[t] = None /\ weakly[t] # None
  /\ Call(t, "weak", <<>>)
  /\ LET p == weakly[t] IN
       IF Promotes(p)
       THEN /\ abp' = [abp EXCEPT ![p].strong = @ + 1, ![p].weak = @ + 1]
            /\ remote' = [remote EXCEPT !.strong = @ + Revived(p)]
            /\ held' = [held EXCEPT ![t] = p]
       ELSE UNCHANGED <<abp, remote, held>>
  /\ UNCHANGED <<value, weakly, told, given, deaths>>

AIBinder_Weak_delete(t) ==
  /\ Idle(t) /\ weakly[t] # None
  /\ weakly' = [weakly EXCEPT ![t] = None]
  /\ abp' = Weaker(abp, weakly[t])
  /\ UNCHANGED <<remote, value, held, told, given, deaths, agenda, ops, left>>

----------------------------------------------------------------------------
(* Classes.                                                                  *)
Associated(t, c) == told' = [told EXCEPT ![t] = c]

(* associateClass: the class the object has decides, ...                     *)
AIBinder_associateClass(t, c) ==
  /\ held[t] # None
  /\ LET has == abp[held[t]].mClazz IN
       /\ Call(t, "class", IF has = None THEN <<Do("descriptor", c)>> ELSE <<>>)
       /\ IF has = c THEN Associated(t, c) ELSE UNCHANGED told
  /\ UNCHANGED <<remote, value, abp, held, weakly, given, deaths>>

(* ... or the object's descriptor, which a dead one may not give any more ... *)
getInterfaceDescriptor(t) ==
  /\ At(t, "descriptor")
  /\ \E match \in {On(t) \in Classes} \cup (IF remote.sent THEN {FALSE} ELSE {}) :
       Step(t, "descriptor", IF match THEN <<Do("setClass", On(t))>> ELSE <<>>)
  /\ UNCHANGED <<refs, deaths>>

(* Faulty variant: the class is set because there was none a moment ago.     *)
MaySet(has, c) == TRUE

(* associateClassInternal(set): whether c is what the object has from now on.*)
Sets(has, c) == has \in {None, c}

(* ... and it is set unless another thread has set one.                      *)
setClass(t) ==
  /\ Step(t, "setClass", <<>>)
  /\ LET p == held[t] IN
       IF Sets(abp[p].mClazz, On(t))
       THEN abp' = [abp EXCEPT ![p].mClazz = On(t)] /\ Associated(t, On(t))
       ELSE UNCHANGED <<abp, told>>
  /\ UNCHANGED <<remote, value, held, weakly, given, deaths>>

----------------------------------------------------------------------------
(* Death recipients.                                                         *)

(* The links of S lose an sp<>: the destructor of one that has no other      *)
(* calls onUnlinked.                                                         *)
Released(all, S) ==
  [l \in Links |-> IF l \notin S THEN all[l]
                   ELSE [all[l] EXCEPT !.sp = @ - 1, !.unlinked = IF all[l].sp = 1 THEN @ + 1 ELSE @]]

Pruned(list) == {l \in list : tdr[l].mWho}

(* AIBinder_DeathRecipient::linkToDeath, under mDeathRecipientsMutex: a link *)
(* the object refuses is destroyed, others are listed and dead ones pruned.  *)
linkToDeath(t, c) ==
  /\ held[t] # None /\ rec.strong > 0
  /\ Call(t, "link", <<>>)
  /\ \E l \in FirstFree(Links, LAMBDA k : tdr[k] = NoLink) :
       LET new == [NoLink EXCEPT !.sp = 1, !.mCookie = c, !.mWho = TRUE] IN
       /\ IF remote.sent
          THEN /\ tdr' = Released([tdr EXCEPT ![l] = [new EXCEPT !.user = "refused"]], {l})
               /\ UNCHANGED <<remote, rec>>
          ELSE /\ tdr' = Released([tdr EXCEPT ![l] = [new EXCEPT !.user = "linked"]],
                                  rec.list \ Pruned(rec.list))
               /\ rec' = [rec EXCEPT !.list = Pruned(@) \cup {l}]
               /\ remote' = [remote EXCEPT !.obits = Append(@, l)]
  /\ UNCHANGED <<value, abp, held, weakly, told, given>>

(* Faulty variant: the cookie is not compared.                               *)
MatchesAny(l, c) == tdr[l].mWho

Matches(l, c) == tdr[l].mCookie = c /\ tdr[l].mWho

(* BpBinder::unlinkToDeath: the obituary for l is removed, if there is one.  *)
Without(obits, l) ==
  IF \E i \in DOMAIN obits : obits[i] = l
  THEN LET i == CHOOSE j \in DOMAIN obits : obits[j] = l
       IN  SubSeq(obits, 1, i - 1) \o SubSeq(obits, i + 1, Len(obits))
  ELSE obits

(* AIBinder_DeathRecipient::unlinkToDeath: the last entry of the list that   *)
(* matches is erased, and the object forgets it if it has not died.          *)
unlinkToDeath(c, by) ==
  LET found == {l \in rec.list : Matches(l, c)} IN
  IF found = {} THEN UNCHANGED <<rec, remote, tdr>>      \* STATUS_NAME_NOT_FOUND
  ELSE \E l \in found :
         /\ \A k \in found : k <= l
         /\ rec' = [rec EXCEPT !.list = @ \ {l}]
         /\ tdr' = Released([tdr EXCEPT ![l].user = by], {l})
         /\ remote' = [remote EXCEPT !.obits = Without(@, l)]

AIBinder_unlinkToDeath(t, c) ==
  /\ held[t] # None /\ rec.strong > 0
  /\ Call(t, "link", <<>>)
  /\ unlinkToDeath(c, "unlinked")
  /\ UNCHANGED <<value, abp, held, weakly, told, given>>

(* AIBinder_DeathRecipient_delete, the last call for the recipient: its      *)
(* destructor lets go of the list.                                           *)
AIBinder_DeathRecipient_delete ==
  /\ rec.strong = 1
  /\ "link" \in ops
  /\ rec' = [strong |-> 0, list |-> {}]
  /\ tdr' = Released(tdr, rec.list)
  /\ UNCHANGED <<refs, agenda, ops, left>>

(* BpBinder::sendObituary, by the thread that reads BR_DEAD_BINDER.  Once    *)
(* the last strong reference is gone the obituaries are too, and there is    *)
(* nobody to tell.                                                           *)
sendObituary(t) ==
  /\ Idle(t) /\ ~remote.sent /\ remote.strong > 0
  /\ "die" \in ops
  /\ remote' = [remote EXCEPT !.sent = TRUE, !.obits = <<>>]
  /\ agenda' = [agenda EXCEPT ![t] = [i \in DOMAIN remote.obits |-> Do("reportOneDeath", remote.obits[i])]]
  /\ UNCHANGED <<value, abp, held, weakly, told, given, deaths, ops, left>>

(* Faulty variant: the recipient is called through its weak reference.       *)
CalledUnheld(l) == TRUE

(* obit.recipient.promote() *)
PromotesLink(l) == tdr[l].sp > 0

reportOneDeath(t) ==
  /\ At(t, "reportOneDeath")
  /\ LET l == On(t) IN
       IF PromotesLink(l)
       THEN /\ Step(t, "reportOneDeath", <<Do("onDied", l), Do("unlinkDead", l), Do("clearWho", l)>>)
            /\ tdr' = [tdr EXCEPT ![l].sp = @ + 1]
       ELSE Step(t, "reportOneDeath", <<>>) /\ UNCHANGED tdr
  /\ UNCHANGED <<refs, rec>>

(* TransferDeathRecipient::binderDied calls onDied ...                       *)
Died(link) == [link EXCEPT !.died = TRUE, !.late = @ \/ link.unlinked > 0]
onDied(t) ==
  /\ Step(t, "onDied", <<>>)
  /\ tdr' = [tdr EXCEPT ![On(t)] = Died(@)]
  /\ UNCHANGED <<refs, rec>>

(* ... takes a link with its cookie out of the list, if the recipient and   *)
(* the object are still there, ...                                           *)
unlinkDead(t) ==
  /\ Step(t, "unlinkDead", <<>>)
  /\ IF rec.strong > 0 /\ remote.strong > 0 THEN unlinkToDeath(tdr[On(t)].mCookie, "linked")
     ELSE UNCHANGED <<rec, remote, tdr>>
  /\ UNCHANGED <<value, abp, held, weakly, told, given>>

(* ... and forgets the object; then reportOneDeath lets go of the link.      *)
clearWho(t) ==
  /\ Step(t, "clearWho", <<>>)
  /\ tdr' = Released([tdr EXCEPT ![On(t)].mWho = FALSE], {On(t)})
  /\ UNCHANGED <<refs, rec>>

----------------------------------------------------------------------------
Continue(t) ==
  \/ findObject(t) \/ attachObject(t) \/ promoteOrMake(t) \/ decRemote(t) \/ onLastStrongRef(t)
  \/ decWeak(t) \/ getInterfaceDescriptor(t) \/ setClass(t)
  \/ reportOneDeath(t) \/ onDied(t) \/ unlinkDead(t) \/ clearWho(t)

Next ==
  \/ \E t \in Threads :
       \/ Continue(t)
       \/ lookupOrCreateFromBinder(t) \/ AIBinder_decStrong(t)
       \/ AIBinder_Weak_new(t) \/ AIBinder_Weak_promote(t) \/ AIBinder_Weak_delete(t)
       \/ \E c \in Classes \cup Strangers : AIBinder_associateClass(t, c)
       \/ \E c \in Cookies : linkToDeath(t, c) \/ AIBinder_unlinkToDeath(t, c)
       \/ sendObituary(t)
  \/ Forget \/ AIBinder_DeathRecipient_delete

Spec == Init /\ [][Next]_vars

----------------------------------------------------------------------------
Busy(steps) == {t \in Threads : \E i \in DOMAIN agenda[t] : agenda[t][i].do \in steps}

(* An ABpBinder in use holds its object exactly once, although a lookup or   *)
(* AIBinder_Weak_promote can bring it back between the two halves of its     *)
(* last decStrong: remote() is never an object that is gone.                 *)
RemoteHeldOnce ==
  remote.strong = (IF given THEN 1 ELSE 0) + Cardinality({p \in Proxies : abp[p].strong > 0})
                  + Cardinality(Busy({"decRemote"})) + Cardinality(Busy({"findObject", "withLock"}))

Quiet == \A t \in Threads : Idle(t)

(* "we must remove this weak reference in order for the ABpBinder to be      *)
(* deleted": when no thread has a reference any more, no ABpBinder is left   *)
(* and the Value is empty, also when there was more than one of them.        *)
ProxiesFreed ==
  Quiet /\ (\A t \in Threads : held[t] = None /\ weakly[t] = None)
  => value \in {Absent, None} /\ \A p \in Proxies : abp[p] = NoProxy

(* The ABpBinders of an object keep it as long as they are used, no longer.  *)
ProxiesHold == RemoteHeldOnce /\ ProxiesFreed

(* A thread that was told its class is associated finds that class on what   *)
(* it holds from then on, whichever other class another thread associates.   *)
AssociatedStays == \A t \in Threads : told[t] # None => abp[held[t]].mClazz = told[t]

(* onUnlinked "is called exactly once for each call to linkToDeath", and     *)
(* onDied is not called for a cookie after it: the cookie may be freed there.*)
CookiesReleasedOnce ==
  \A l \in Links :
    /\ tdr[l].unlinked <= 1 /\ ~tdr[l].late
    /\ Quiet /\ rec.strong = 0 /\ tdr[l] # NoLink => tdr[l].unlinked = 1

(* Every cookie that is linked and not unlinked when the object dies gets    *)
(* onDied, while other threads link and unlink.                              *)
DeathsTold ==
  Quiet /\ remote.sent /\ rec.strong > 0
  => \A l \in Links : tdr[l].user = "linked" => \E k \in Links : tdr[k].mCookie = tdr[l].mCookie /\ tdr[k].died

(* "at most one ABpBinder object exists in a given process representing it". *)
AtMostOneProxy == Cardinality({p \in Proxies : abp[p].strong > 0}) <= 1
=============================================================================
