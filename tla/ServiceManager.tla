---------------------------- MODULE ServiceManager ----------------------------
(* The service manager (cmds/servicemanager/ServiceManager.cpp): a directory *)
(* of services by name that tells waiting processes about registrations, and *)
(* tells a service, every few seconds, whether it has clients.  It runs on   *)
(* one looper thread, so each call is one step; its callbacks are oneway.    *)
EXTENDS Integers, Sequences, FiniteSets

CONSTANTS Name,
          Proc,          \* processes
          Service,       \* service objects
          Listener,      \* IServiceCallback objects
          Counter,       \* IClientCallback objects
          Owner,         \* [objects -> the process they live in]
          CanAdd,        \* [Name -> the processes mAccess->canAdd admits]
          CanFind,       \* [Name -> the processes mAccess->canFind admits]
          NoService,
          MaxCallbacks,  \* bound: how often a callback is registered for a name
          MaxInbox       \* bound: a process this far behind gets no new calls

Object == Service \cup Listener \cup Counter
ASSUME Owners == /\ DOMAIN Owner = Object /\ \A o \in Object : Owner[o] \in Proc
                 /\ Listener \cap Counter = {} /\ IsFiniteSet(Proc)

VARIABLES mNameToService,
          mNameToRegistrationCallback,   \* [Name -> [Listener -> how often it is in the vector]]
          mNameToClientCallback,         \* [Name -> [Counter -> how often it is in the vector]]
          checking,    \* names handleClientCallbacks has yet to come to
          inbox,       \* [Listener \cup Counter -> oneway calls not yet handled]
          holders,     \* [Service -> processes, other than this, with a reference]
          alive,       \* processes that are running
          obituaries,  \* objects whose death this process has yet to be told of
          starts,      \* names whose start was requested from init
          failed       \* the CHECK that failed, or "none"

smVars == <<mNameToService, mNameToRegistrationCallback, mNameToClientCallback, checking,
            inbox, holders, alive, obituaries, starts, failed>>

Entry(b) == [binder |-> b, hasClients |-> FALSE, guaranteeClient |-> FALSE]

SMInit ==
  /\ mNameToService = [n \in Name |-> NoService]
  /\ mNameToRegistrationCallback = [n \in Name |-> [l \in Listener |-> 0]]
  /\ mNameToClientCallback = [n \in Name |-> [c \in Counter |-> 0]]
  /\ checking = {}
  /\ inbox = [o \in Listener \cup Counter |-> <<>>]
  /\ holders = [b \in Service |-> {}]
  /\ alive = Proc
  /\ obituaries = {}
  /\ starts = {}
  /\ failed = "none"

Known(n) == mNameToService[n] # NoService

callbacks == <<mNameToRegistrationCallback, mNameToClientCallback>>

(* The callbacks of a vector, whose order shows in no queue of one of them.  *)
Listed(vector) == {o \in DOMAIN vector : vector[o] > 0}

(* Each of them is called.  A oneway call to an object of a process that has *)
(* died goes nowhere.                                                        *)
Told(box, vector, m) ==
  [o \in DOMAIN box |->
     IF o \in Listed(vector) /\ Owner[o] \in alive
     THEN box[o] \o [i \in 1..vector[o] |-> m] ELSE box[o]]

(* The looper takes the next call or event.                                  *)
Ready == checking = {}
Room == \A o \in DOMAIN inbox : Len(inbox[o]) < MaxInbox
OnRegistration(n, b) == [name |-> n, binder |-> b]
OnClients(b, clients) == [binder |-> b, clients |-> clients]

(* A reference that travels or arrives is the receiver's, unless it is home. *)
HandedTo(p, b) == [holders EXCEPT ![b] = @ \cup ({p} \ {Owner[b]})]

----------------------------------------------------------------------------
(* Faulty variant: the hand-out is not remembered.                           *)
Forgotten(n) == mNameToService

(* guaranteeClient = true *)
Guaranteed(n) == [mNameToService EXCEPT ![n].guaranteeClient = TRUE]

(* getService and checkService: tryGetService.  A process that may not find  *)
(* the service, or is isolated, gets nothing and changes nothing.            *)
tryGetService(p, n, startIfNotFound) ==
  /\ Ready
  /\ p \in CanFind[n]
  /\ \/ /\ Known(n)
        /\ holders' = HandedTo(p, mNameToService[n].binder)
        /\ mNameToService' = Guaranteed(n)
        /\ UNCHANGED starts
     \/ /\ ~Known(n) /\ startIfNotFound
        /\ starts' = starts \cup {n}
        /\ UNCHANGED <<holders, mNameToService>>
  /\ UNCHANGED <<callbacks, checking, inbox, alive, obituaries, failed>>

(* addService overwrites an entry, and tells every listener for the name.    *)
addService(n, b) ==
  /\ Ready
  /\ Owner[b] \in CanAdd[n]
  /\ Room
  /\ LET listeners == mNameToRegistrationCallback[n]
         told == Listed(listeners) # {}
     IN  /\ mNameToService' =
              [mNameToService EXCEPT ![n] = [Entry(b) EXCEPT !.guaranteeClient = told]]
         /\ inbox' = Told(inbox, listeners, OnRegistration(n, b))
         /\ holders' = [holders EXCEPT ![b] =
              @ \cup ({Owner[l] : l \in Listed(listeners)} \cap (alive \ {Owner[b]}))]
  /\ UNCHANGED <<callbacks, checking, alive, obituaries, starts, failed>>

registerForNotifications(n, l) ==
  /\ Ready
  /\ Owner[l] \in CanFind[n]
  /\ Room
  /\ mNameToRegistrationCallback[n][l] < MaxCallbacks
  /\ mNameToRegistrationCallback' = [mNameToRegistrationCallback EXCEPT ![n][l] = @ + 1]
  /\ IF Known(n)
     THEN LET b == mNameToService[n].binder IN
            /\ inbox' = Told(inbox, [x \in {l} |-> 1], OnRegistration(n, b))
            /\ holders' = HandedTo(Owner[l], b)
     ELSE UNCHANGED <<inbox, holders>>
  /\ UNCHANGED <<mNameToService, mNameToClientCallback, checking, alive, obituaries, starts, failed>>

(* Faulty variant: only the first registration of the callback is removed.   *)
FirstRemoved(vector, who) ==
  [o \in DOMAIN vector |-> IF o = who /\ vector[o] > 0 THEN vector[o] - 1 ELSE vector[o]]

(* removeRegistrationCallback, removeClientCallback: all of who's go.        *)
Without(vector, who) == [o \in DOMAIN vector |-> IF o = who THEN 0 ELSE vector[o]]

unregisterForNotifications(n, l) ==
  /\ Ready
  /\ Owner[l] \in CanFind[n]
  /\ l \in Listed(mNameToRegistrationCallback[n])
  /\ mNameToRegistrationCallback' = [mNameToRegistrationCallback EXCEPT ![n] = Without(@, l)]
  /\ UNCHANGED <<mNameToService, mNameToClientCallback, checking, inbox, holders, alive, obituaries,
                 starts, failed>>

(* Only the process that registered the service, with that service.          *)
registerClientCallback(n, b, c) ==
  /\ Ready
  /\ Owner[c] \in CanAdd[n]
  /\ Known(n) /\ mNameToService[n].binder = b /\ Owner[b] = Owner[c]
  /\ mNameToClientCallback[n][c] < MaxCallbacks
  /\ mNameToClientCallback' = [mNameToClientCallback EXCEPT ![n][c] = @ + 1]
  /\ UNCHANGED <<mNameToService, mNameToRegistrationCallback, checking, inbox, holders, alive,
                 obituaries, starts, failed>>

----------------------------------------------------------------------------
(* getNodeStrongRefCount: this process has one reference, each holder one.   *)
Count(b) == 1 + Cardinality(holders[b])

(* Faulty variant: the record is not kept.                                   *)
NotifyUnrecorded(st, n, clients) ==
  [st EXCEPT !.inbox = Told(@, mNameToClientCallback[n], OnClients(st.entry.binder, clients))]

(* sendClientCallbackNotifications for name n, on its entry and the          *)
(* callbacks sent so far.                                                    *)
Notify(st, n, clients) ==
  IF st.entry.hasClients = clients THEN [st EXCEPT !.failed = "Record shows"]
  ELSE IF Listed(mNameToClientCallback[n]) = {} THEN [st EXCEPT !.failed = "no callbacks"]
  ELSE [entry |-> [st.entry EXCEPT !.hasClients = clients],
        inbox |-> Told(st.inbox, mNameToClientCallback[n], OnClients(st.entry.binder, clients)),
        failed |-> st.failed]

Watched(n) == Known(n) /\ Listed(mNameToClientCallback[n]) # {}

(* What handleServiceClientCallback does on the timer for a service with     *)
(* callbacks; tryUnregisterService only has it count.  The driver counts the *)
(* references of a node, and services are in other processes: the answer -1  *)
(* of getNodeStrongRefCount, on which nothing is done, does not occur.       *)
ClientsHandled(st, n, hasClients) ==
  LET unseen == st.entry.guaranteeClient /\ ~st.entry.hasClients /\ ~hasClients
      told == IF unseen THEN Notify(st, n, TRUE) ELSE st
      rested == [told EXCEPT !.entry.guaranteeClient = FALSE]
  IN  IF rested.entry.hasClients # hasClients THEN Notify(rested, n, hasClients) ELSE rested

handleServiceClientCallback(n) ==
  /\ n \in checking
  /\ checking' = checking \ {n}
  /\ LET after == ClientsHandled([entry |-> mNameToService[n], inbox |-> inbox, failed |-> failed], n,
                                 Count(mNameToService[n].binder) > 1)
     IN  /\ mNameToService' = [mNameToService EXCEPT ![n] = after.entry]
         /\ inbox' = after.inbox
         /\ failed' = after.failed
  /\ UNCHANGED <<callbacks, holders, alive, obituaries, starts>>

(* handleClientCallbacks, off the five-second timer, goes through the names; *)
(* what it sends may be handled before it has come to the last.              *)
handleClientCallbacks ==
  /\ Ready
  /\ \E n \in Name : Watched(n)
  /\ Room
  /\ checking' = {n \in Name : Watched(n)}
  /\ UNCHANGED <<mNameToService, callbacks, inbox, holders, alive, obituaries, starts, failed>>

(* What tryUnregisterService asks for: no client is expected, and nobody     *)
(* but this process and the transaction itself has a reference.              *)
Unregisterable(n) == ~mNameToService[n].guaranteeClient /\ Watched(n)
                     /\ Count(mNameToService[n].binder) + 1 <= 2

(* tryUnregisterService: the answer of a call for the registered service.    *)
tryUnregisterService(n, b, ok) ==
  /\ Ready
  /\ Owner[b] \in CanAdd[n]
  /\ IF ~Known(n) \/ (Known(n) /\ mNameToService[n].binder # b)
     THEN ~ok /\ UNCHANGED mNameToService
     ELSE /\ ok = Unregisterable(n)
          /\ mNameToService' = IF ok THEN [mNameToService EXCEPT ![n] = NoService]
                               ELSE Guaranteed(n)
  /\ UNCHANGED <<callbacks, checking, inbox, holders, alive, obituaries, starts, failed>>

----------------------------------------------------------------------------
Referenced(o) ==
  \E n \in Name : \/ Known(n) /\ mNameToService[n].binder = o
                  \/ o \in Listed(mNameToRegistrationCallback[n])
                  \/ o \in Listed(mNameToClientCallback[n])

(* A process ends.  This process linked to the death of each object it holds.*)
Die(p) ==
  /\ p \in alive
  /\ alive' = alive \ {p}
  /\ obituaries' = obituaries \cup {o \in Object : Owner[o] = p /\ Referenced(o)}
  /\ holders' = [b \in Service |-> holders[b] \ {p}]
  /\ inbox' = [o \in DOMAIN inbox |-> IF Owner[o] = p THEN <<>> ELSE inbox[o]]
  /\ UNCHANGED <<mNameToService, callbacks, checking, starts, failed>>

binderDied(who) ==
  /\ Ready
  /\ who \in obituaries
  /\ obituaries' = obituaries \ {who}
  /\ mNameToService' = [n \in Name |-> IF Known(n) /\ mNameToService[n].binder = who
                                       THEN NoService ELSE mNameToService[n]]
  /\ mNameToRegistrationCallback' =
       [n \in Name |-> Without(mNameToRegistrationCallback[n], who)]
  /\ mNameToClientCallback' = [n \in Name |-> Without(mNameToClientCallback[n], who)]
  /\ UNCHANGED <<checking, inbox, holders, alive, starts, failed>>

----------------------------------------------------------------------------
(* What the other processes do with what they are sent.                      *)
Handle(o) ==
  /\ inbox[o] # <<>>
  /\ inbox' = [inbox EXCEPT ![o] = Tail(@)]
  /\ UNCHANGED <<mNameToService, callbacks, checking, holders, alive, obituaries, starts, failed>>

(* A process lets a service go, unless one is still on its way to it.        *)
Drop(p, b) ==
  /\ p \in holders[b]
  /\ \A l \in Listener : Owner[l] = p => \A i \in DOMAIN inbox[l] : inbox[l][i].binder # b
  /\ holders' = [holders EXCEPT ![b] = @ \ {p}]
  /\ UNCHANGED <<mNameToService, callbacks, checking, inbox, alive, obituaries, starts, failed>>

(* init starts what was asked for: the process decides what it registers.    *)
interfaceStart(n) ==
  /\ n \in starts
  /\ starts' = starts \ {n}
  /\ UNCHANGED <<mNameToService, callbacks, checking, inbox, holders, alive, obituaries, failed>>

Client(p) ==
  \/ \E n \in Name, start \in BOOLEAN : tryGetService(p, n, start)
  \/ \E n \in Name, l \in Listener :
       Owner[l] = p /\ (registerForNotifications(n, l) \/ unregisterForNotifications(n, l))

Server(p) ==
  \E n \in Name, b \in Service :
    /\ Owner[b] = p
    /\ \/ addService(n, b)
       \/ \E c \in Counter : registerClientCallback(n, b, c)
       \/ \E ok \in BOOLEAN : tryUnregisterService(n, b, ok)

----------------------------------------------------------------------------
(* The CHECKs of sendClientCallbackNotifications hold: a service is told of  *)
(* a change only, and only when it has a callback to be told with.           *)
ClientChecksHold == failed = "none"

(* What dies is forgotten: an object of a dead process is only found while   *)
(* its obituary is under way, under however many names it was registered.    *)
DeadAreForgotten == \A o \in Object : Referenced(o) /\ Owner[o] \notin alive => o \in obituaries

=============================================================================
