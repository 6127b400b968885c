-------------------------- MODULE LazyServiceProofs --------------------------
(* The service manager and the lazy processes agree on services and clients, *)
(* for any number of processes, names, services, callbacks and calls.        *)
EXTENDS LazyServiceRegistrar, TLAPS

USE SMTT(20)

(* No two processes may add a service under the same name.                   *)
Uncontended == \A n \in Name : \A p, q \in CanAdd[n] : p = q

Entries == [binder : Service, hasClients : BOOLEAN, guaranteeClient : BOOLEAN]
Records == [service : Service, clients : BOOLEAN, registered : BOOLEAN]
News == [binder : Service, clients : BOOLEAN]
Places == {"free", "registering", "unregistering", "reRegistering", "exited"}

(* The values of the service manager's variables.                            *)
DirectoryType ==
  /\ mNameToService \in [Name -> Entries \cup {NoService}]
  /\ mNameToRegistrationCallback \in [Name -> [Listener -> Nat]]
  /\ mNameToClientCallback \in [Name -> [Counter -> Nat]]
  /\ checking \subseteq Name
  /\ DOMAIN inbox = Listener \cup Counter
  /\ \A c \in Counter : inbox[c] \in Seq(News)
  /\ holders \in [Service -> SUBSET Proc]
  /\ alive \subseteq Proc

(* The values of the variables of the lazy processes.                        *)
LazyType ==
  /\ mRegisteredServices \in [Lazy -> [Name -> Records \cup {NoService}]]
  /\ work \in [Lazy -> [at : Places, todo : SUBSET Name]]
  /\ \A p \in Lazy : work[p].todo \subseteq registers[p].names
  /\ \A p \in Lazy :
       /\ p \in Proc /\ registers[p].names \subseteq Name
       /\ CounterOf[p] \in Counter /\ Owner[CounterOf[p]] = p
       /\ \A n \in registers[p].names : Mine(p, n) \in Service /\ Owner[Mine(p, n)] = p

(* Objects are told of after the end of their process only.                  *)
ObituariesTrue == \A o \in obituaries : Owner[o] \notin alive

(* The pass of the timer only finds services with callbacks.                 *)
ChecksPass == failed = "none" /\ \A n \in checking : Watched(n)

(* An entry and a client callback are those of a process that may add them.  *)
Admitted ==
  \A n \in Name :
    /\ Known(n) => Owner[mNameToService[n].binder] \in CanAdd[n]
    /\ \A c \in Listed(mNameToClientCallback[n]) : Owner[c] \in CanAdd[n]

----------------------------------------------------------------------------
Registering(p, n) == work[p].at = "registering" /\ n \in work[p].todo
Ending(p) == work[p].at \in {"unregistering", "exited"}
Found(p, n) == Known(n) /\ mNameToService[n].binder = Mine(p, n)

(* What the holder of mMutex is about.                                       *)
WorkSound(p) ==
  /\ work[p].at \in {"free", "exited"} => work[p].todo = {}
  /\ work[p].at = "exited" => p \notin alive
  /\ work[p].at # "registering" => \A n \in work[p].todo : Has(p, n)
  /\ work[p].at = "registering"
     => \E n \in registers[p].names : work[p].todo = {n} /\ ~Has(p, n)

(* The map of a process has its own services, of which those it takes for    *)
(* registered can be found.                                                  *)
MapSound(p) ==
  /\ \A n \in Name :
       Has(p, n) => /\ n \in registers[p].names /\ p \in CanAdd[n]
                    /\ mRegisteredServices[p][n].service = Mine(p, n)
  /\ \A n \in Name :
       Has(p, n) /\ ~mRegisteredServices[p][n].registered
       => \/ Ending(p) /\ n \notin work[p].todo
          \/ work[p].at = "reRegistering" /\ n \in work[p].todo
  /\ \A n \in Name :
       Ending(p) /\ Has(p, n) /\ n \notin work[p].todo => ~mRegisteredServices[p][n].registered
  /\ p \in alive =>
       \A n \in Name :
         Registering(p, n) \/ (Has(p, n) /\ mRegisteredServices[p][n].registered) => Found(p, n)

(* A service of the process is only found while the process knows of it.     *)
FoundSound(p) ==
  \A n \in Name :
    Known(n) /\ Owner[mNameToService[n].binder] = p
    => /\ Found(p, n)
       /\ Registering(p, n) \/ (Has(p, n) /\ mRegisteredServices[p][n].registered)

(* A service in use is one the process has not unregistered.                 *)
UseSound(p) ==
  \A b \in Service :
    Owner[b] = p /\ holders[b] # {}
    => \E n \in Name : /\ Mine(p, n) = b
                       /\ Registering(p, n) \/ (Has(p, n) /\ (Ending(p) => n \in work[p].todo))

(* The process has one callback object, once for each service.               *)
CallbackSound(p) ==
  p \in alive =>
    \A n \in Name :
      /\ mNameToClientCallback[n][CounterOf[p]] = IF Has(p, n) THEN 1 ELSE 0
      /\ \A c \in Counter : Owner[c] = p /\ c # CounterOf[p] => mNameToClientCallback[n][c] = 0
      /\ Registering(p, n) => ~mNameToService[n].hasClients

(* What is on its way tells, one after the other, of changes of what the     *)
(* process knows, up to what the service manager knows.                      *)
Tells(queue, b, from, to) ==
  /\ \A i \in 1..Len(queue) :
       /\ queue[i].binder = b
       /\ queue[i].clients # (IF i = 1 THEN from ELSE queue[i - 1].clients)
  /\ to = IF queue = <<>> THEN from ELSE queue[Len(queue)].clients

NewsSound(p) ==
  p \in alive =>
    \A n \in Name :
      registers[p].names = {n}
      => /\ work[p].at = "reRegistering" => work[p].todo = {}
         /\ ~Has(p, n) => inbox[CounterOf[p]] = <<>>
         /\ Has(p, n) /\ mRegisteredServices[p][n].registered
            => Tells(inbox[CounterOf[p]], Mine(p, n), mRegisteredServices[p][n].clients,
                     mNameToService[n].hasClients)

NotFatal == (\A p \in Lazy : OneService(p)) => fatal = "none"

Sound(p) == /\ WorkSound(p) /\ MapSound(p) /\ FoundSound(p) /\ UseSound(p)
            /\ CallbackSound(p) /\ NewsSound(p)

DirectoryInv == DirectoryType /\ ObituariesTrue /\ ChecksPass /\ Admitted /\ DeadAreForgotten
Inv == DirectoryInv /\ LazyType /\ (\A p \in Lazy : Sound(p)) /\ NotFatal

----------------------------------------------------------------------------
(* What the calls of the service manager do to its own invariant.            *)

LEMMA EntryFields ==
  ASSUME NEW e \in Entries, NEW x \in BOOLEAN
  PROVE  /\ e # NoService /\ e.binder \in Service /\ e.hasClients \in BOOLEAN
         /\ e.guaranteeClient \in BOOLEAN
         /\ [e EXCEPT !.guaranteeClient = x] \in Entries
         /\ [e EXCEPT !.guaranteeClient = x] # NoService
         /\ [e EXCEPT !.guaranteeClient = x].binder = e.binder
         /\ [e EXCEPT !.guaranteeClient = x].hasClients = e.hasClients
         /\ [e EXCEPT !.guaranteeClient = x].guaranteeClient = x
         /\ [e EXCEPT !.hasClients = x] \in Entries
         /\ [e EXCEPT !.hasClients = x] # NoService
         /\ [e EXCEPT !.hasClients = x].binder = e.binder
         /\ [e EXCEPT !.hasClients = x].hasClients = x
         /\ [e EXCEPT !.hasClients = x].guaranteeClient = e.guaranteeClient
  BY Zenon, NoRecord DEF Entries

LEMMA GuaranteedFacts ==
  ASSUME DirectoryType, NEW n \in Name, Known(n)
  PROVE  /\ Guaranteed(n) \in [Name -> Entries \cup {NoService}]
         /\ \A m \in Name :
              /\ Guaranteed(n)[m] # NoService <=> Known(m)
              /\ Known(m) => /\ Guaranteed(n)[m].binder = mNameToService[m].binder
                             /\ Guaranteed(n)[m].hasClients = mNameToService[m].hasClients
<1>1. mNameToService \in [Name -> Entries \cup {NoService}] /\ mNameToService[n] \in Entries
  BY Zenon DEF DirectoryType, Known
<1>2. Guaranteed(n) = [mNameToService EXCEPT ![n] = [@ EXCEPT !.guaranteeClient = TRUE]]
  BY Zenon DEF Guaranteed
<1>. QED
  <2> DEFINE e == [mNameToService[n] EXCEPT !.guaranteeClient = TRUE]
  <2>1. /\ e \in Entries /\ e # NoService
        /\ e.binder = mNameToService[n].binder /\ e.hasClients = mNameToService[n].hasClients
    <3>1. TRUE \in BOOLEAN
      BY Zenon
    <3>. QED  BY <1>1, <3>1, EntryFields, Zenon
  <2>2. Guaranteed(n) = [mNameToService EXCEPT ![n] = e]
    BY Zenon, <1>2
  <2> HIDE DEF e
  <2>. QED  BY Zenon, <1>1, <2>1, <2>2 DEF Known

LEMMA HandedFacts ==
  ASSUME DirectoryType, NEW p \in Proc, NEW b \in Service
  PROVE  /\ HandedTo(p, b) \in [Service -> SUBSET Proc]
         /\ \A x \in Service : x # b => HandedTo(p, b)[x] = holders[x]
  BY Zenon DEF DirectoryType, HandedTo

LEMMA ToldFacts ==
  ASSUME NEW box, DOMAIN box = Listener \cup Counter,
         \A c \in Counter : box[c] \in Seq(News),
         NEW vector, NEW m,
         \A c \in Counter : c \in DOMAIN vector => vector[c] \in Nat /\ m \in News
  PROVE  /\ DOMAIN Told(box, vector, m) = Listener \cup Counter
         /\ \A c \in Counter : Told(box, vector, m)[c] \in Seq(News)
         /\ \A c \in Counter : c \notin DOMAIN vector => Told(box, vector, m)[c] = box[c]
<1>1. /\ DOMAIN Told(box, vector, m) = Listener \cup Counter
      /\ \A c \in Counter : Told(box, vector, m)[c] =
           IF c \in DOMAIN vector /\ vector[c] > 0 /\ Owner[c] \in alive
           THEN box[c] \o [i \in 1..vector[c] |-> m] ELSE box[c]
  BY Zenon DEF Told, Listed
<1>2. ASSUME NEW c \in Counter, c \in DOMAIN vector
      PROVE  box[c] \o [i \in 1..vector[c] |-> m] \in Seq(News)
  <2>1. m \in News /\ vector[c] \in Nat /\ box[c] \in Seq(News)
    BY Zenon, <1>2
  <2>2. [i \in 1..vector[c] |-> m] \in Seq(News)
    BY <2>1
  <2>. QED  BY <2>1, <2>2
<1>4. \A c \in Counter : Told(box, vector, m)[c] \in Seq(News)
  <2> TAKE c \in Counter
  <2>1. CASE c \in DOMAIN vector /\ vector[c] > 0 /\ Owner[c] \in alive
    <3>1. Told(box, vector, m)[c] = box[c] \o [i \in 1..vector[c] |-> m]
      BY <1>1, <2>1, Zenon
    <3>. QED  BY <1>2, <2>1, <3>1, Zenon
  <2>2. CASE ~(c \in DOMAIN vector /\ vector[c] > 0 /\ Owner[c] \in alive)
    <3>1. Told(box, vector, m)[c] = box[c]
      BY <1>1, <2>2, Zenon
    <3>. QED  BY Zenon, <3>1
  <2>. QED  BY Zenon, <2>1, <2>2
<1>5. \A c \in Counter : c \notin DOMAIN vector => Told(box, vector, m)[c] = box[c]
  BY <1>1, Zenon
<1>. QED  BY Zenon, <1>1, <1>4, <1>5

LEMMA ToldNot ==
  ASSUME NEW box, NEW vector, NEW m, NEW c \in DOMAIN box, vector[c] = 0
  PROVE  Told(box, vector, m)[c] = box[c]
  BY DEF Told, Listed

LEMMA ToldOnce ==
  ASSUME NEW box, NEW vector, NEW m \in News, NEW c \in DOMAIN box, box[c] \in Seq(News),
         c \in DOMAIN vector, vector[c] = 1, Owner[c] \in alive
  PROVE  Told(box, vector, m)[c] = Append(box[c], m)
<1>1. Told(box, vector, m)[c] = box[c] \o [i \in 1..vector[c] |-> m]
  BY DEF Told, Listed
<1>2. [i \in 1..vector[c] |-> m] = <<m>>
  OBVIOUS
<1>3. box[c] \o <<m>> = Append(box[c], m)
  OBVIOUS
<1>. QED  BY <1>1, <1>2, <1>3, Zenon

(* Steps that add no object.                                                 *)
LEMMA NothingAdded ==
  ASSUME DirectoryInv, DirectoryType', ChecksPass', UNCHANGED <<alive, obituaries>>,
         \A m \in Name :
           /\ Known(m)' => Known(m) /\ mNameToService'[m].binder = mNameToService[m].binder
           /\ Listed(mNameToRegistrationCallback'[m]) \subseteq Listed(mNameToRegistrationCallback[m])
           /\ Listed(mNameToClientCallback'[m]) \subseteq Listed(mNameToClientCallback[m])
  PROVE  DirectoryInv'
<1>1. ObituariesTrue' /\ Admitted'
  BY Zenon DEF DirectoryInv, ObituariesTrue, Admitted
<1>2. DeadAreForgotten'
  BY Zenon DEF DirectoryInv, DeadAreForgotten, Referenced
<1>. QED  BY Zenon, <1>1, <1>2 DEF DirectoryInv

LEMMA ReadyChecks ==
  ASSUME DirectoryInv, Ready, UNCHANGED <<checking, failed>>
  PROVE  ChecksPass'
  BY Zenon DEF DirectoryInv, Ready, ChecksPass

LEMMA SameDirectoryChecks ==
  ASSUME DirectoryInv, UNCHANGED <<mNameToService, callbacks, failed>>, checking' \subseteq checking
  PROVE  ChecksPass'
  BY Zenon DEF DirectoryInv, ChecksPass, Watched, Known, callbacks

LEMMA GetKeeps ==
  ASSUME DirectoryInv, NEW p \in Proc, NEW n \in Name, NEW start, tryGetService(p, n, start)
  PROVE  DirectoryInv'
<1> USE DEF DirectoryInv
<1>1. /\ mNameToService' \in [Name -> Entries \cup {NoService}]
      /\ \A m \in Name : Known(m)' =>
           Known(m) /\ mNameToService'[m].binder = mNameToService[m].binder
  BY Zenon, GuaranteedFacts DEF tryGetService, Known, DirectoryType
<1>2. Known(n) => mNameToService[n].binder \in Service
  BY Zenon DEF Known, DirectoryType, Entries
<1>3. holders' \in [Service -> SUBSET Proc]
  BY <1>2, HandedFacts DEF tryGetService, DirectoryType
<1>4. Ready /\ UNCHANGED <<callbacks, checking, inbox, alive, obituaries, failed>>
  BY Zenon DEF tryGetService
<1>5. DirectoryType'
  BY Zenon, <1>1, <1>3, <1>4 DEF DirectoryType, callbacks
<1>. QED  BY Zenon, <1>1, <1>4, <1>5, ReadyChecks, NothingAdded DEF callbacks

LEMMA UnregisterForKeeps ==
  ASSUME DirectoryInv, NEW n \in Name, NEW l \in Listener, unregisterForNotifications(n, l)
  PROVE  DirectoryInv'
<1> USE DEF DirectoryInv
<1>1. /\ Ready
      /\ mNameToRegistrationCallback' = [mNameToRegistrationCallback EXCEPT ![n] = Without(@, l)]
      /\ UNCHANGED <<mNameToService, mNameToClientCallback, checking, inbox, holders, alive,
                     obituaries, failed>>
  BY Zenon DEF unregisterForNotifications
<1>2. /\ Without(mNameToRegistrationCallback[n], l) \in [Listener -> Nat]
      /\ Listed(Without(mNameToRegistrationCallback[n], l)) \subseteq
           Listed(mNameToRegistrationCallback[n])
  BY DEF DirectoryType, Without, Listed
<1>3. DirectoryType'
  BY Zenon, <1>1, <1>2 DEF DirectoryType
<1>4. \A m \in Name : Listed(mNameToRegistrationCallback'[m]) \subseteq
                        Listed(mNameToRegistrationCallback[m])
  BY Zenon, <1>1, <1>2 DEF DirectoryType
<1>. QED  BY Zenon, <1>1, <1>3, <1>4, ReadyChecks, NothingAdded DEF Known

LEMMA TryUnregisterKeeps ==
  ASSUME DirectoryInv, NEW n \in Name, NEW b, NEW ok, tryUnregisterService(n, b, ok)
  PROVE  DirectoryInv'
<1> USE DEF DirectoryInv
<1>1. Ready /\ UNCHANGED <<callbacks, checking, inbox, holders, alive, obituaries, failed>>
  BY Zenon DEF tryUnregisterService
<1>2. /\ mNameToService' \in [Name -> Entries \cup {NoService}]
      /\ \A m \in Name : Known(m)' =>
           Known(m) /\ mNameToService'[m].binder = mNameToService[m].binder
  <2>1. \/ mNameToService' = mNameToService
        \/ Known(n) /\ mNameToService' = [mNameToService EXCEPT ![n] = NoService]
        \/ Known(n) /\ mNameToService' = Guaranteed(n)
    BY Zenon DEF tryUnregisterService
  <2>2. CASE mNameToService' = mNameToService
    BY Zenon, <2>2 DEF Known, DirectoryType
  <2>3. CASE Known(n) /\ mNameToService' = [mNameToService EXCEPT ![n] = NoService]
    BY Zenon, <2>3 DEF Known, DirectoryType
  <2>4. CASE Known(n) /\ mNameToService' = Guaranteed(n)
    BY Zenon, <2>4, GuaranteedFacts DEF Known
  <2>. QED  BY Zenon, <2>1, <2>2, <2>3, <2>4
<1>3. DirectoryType'
  BY Zenon, <1>1, <1>2 DEF DirectoryType, callbacks
<1>. QED  BY Zenon, <1>1, <1>2, <1>3, ReadyChecks, NothingAdded DEF callbacks

LEMMA HandleKeeps ==
  ASSUME DirectoryInv, NEW o \in Listener \cup Counter, Handle(o)
  PROVE  DirectoryInv'
<1> USE DEF DirectoryInv
<1>1. /\ inbox[o] # <<>> /\ inbox' = [inbox EXCEPT ![o] = Tail(@)]
      /\ UNCHANGED <<mNameToService, callbacks, checking, holders, alive, obituaries, failed>>
  BY Zenon DEF Handle
<1>2. o \in Counter => Tail(inbox[o]) \in Seq(News)
  BY <1>1 DEF DirectoryType
<1>3. DOMAIN inbox' = Listener \cup Counter /\ \A c \in Counter : inbox'[c] \in Seq(News)
  BY Zenon, <1>1, <1>2 DEF DirectoryType
<1>4. DirectoryType'
  BY Zenon, <1>1, <1>3 DEF DirectoryType, callbacks
<1>. QED  BY Zenon, <1>1, <1>4, SameDirectoryChecks, NothingAdded DEF callbacks, Known

LEMMA DropKeeps ==
  ASSUME DirectoryInv, NEW p \in Proc, NEW b \in Service, Drop(p, b)
  PROVE  DirectoryInv'
<1> USE DEF DirectoryInv
<1>1. /\ holders' = [holders EXCEPT ![b] = @ \ {p}]
      /\ UNCHANGED <<mNameToService, callbacks, checking, inbox, alive, obituaries, failed>>
  BY Zenon DEF Drop
<1>2. DirectoryType'
  BY Zenon, <1>1 DEF DirectoryType, callbacks
<1>. QED  BY Zenon, <1>1, <1>2, SameDirectoryChecks, NothingAdded DEF callbacks, Known

LEMMA StartKeeps ==
  ASSUME DirectoryInv, NEW n \in Name, interfaceStart(n)
  PROVE  DirectoryInv'
<1> USE DEF DirectoryInv
<1>1. UNCHANGED <<mNameToService, callbacks, checking, inbox, holders, alive, obituaries, failed>>
  BY Zenon DEF interfaceStart
<1>2. DirectoryType'
  BY Zenon, <1>1 DEF DirectoryType, callbacks
<1>. QED  BY Zenon, <1>1, <1>2, SameDirectoryChecks, NothingAdded DEF callbacks, Known

LEMMA PassKeeps ==
  ASSUME DirectoryInv, handleClientCallbacks
  PROVE  DirectoryInv'
<1> USE DEF DirectoryInv
<1>1. /\ checking' = {n \in Name : Watched(n)}
      /\ UNCHANGED <<mNameToService, callbacks, inbox, holders, alive, obituaries, failed>>
  BY Zenon DEF handleClientCallbacks
<1>2. DirectoryType' /\ ChecksPass'
  BY Zenon, <1>1 DEF DirectoryType, ChecksPass, Watched, Known, callbacks
<1>. QED  BY Zenon, <1>1, <1>2, NothingAdded DEF callbacks, Known

(* What handleServiceClientCallback makes of an entry and the queues.        *)
Sent(box, n, b, clients) == Told(box, mNameToClientCallback[n], OnClients(b, clients))

Ent(b, h, g) == [binder |-> b, hasClients |-> h, guaranteeClient |-> g]
Snap(e, bx, f) == [entry |-> e, inbox |-> bx, failed |-> f]

Yes == TRUE
No == FALSE

LEMMA SnapNotify ==
  ASSUME NEW n, Listed(mNameToClientCallback[n]) # {},
         NEW b, NEW h, NEW g, NEW bx, NEW f, NEW clients, h # clients
  PROVE  Notify(Snap(Ent(b, h, g), bx, f), n, clients)
         = Snap(Ent(b, clients, g), Sent(bx, n, b, clients), f)
<1>1. /\ Snap(Ent(b, h, g), bx, f).entry = Ent(b, h, g) /\ Snap(Ent(b, h, g), bx, f).inbox = bx
      /\ Snap(Ent(b, h, g), bx, f).failed = f
  BY Zenon DEF Snap
<1>2. /\ Ent(b, h, g).binder = b /\ Ent(b, h, g).hasClients = h
      /\ [Ent(b, h, g) EXCEPT !.hasClients = clients] = Ent(b, clients, g)
  BY DEF Ent
<1>3. Snap(Ent(b, clients, g), Sent(bx, n, b, clients), f)
      = [entry |-> Ent(b, clients, g), inbox |-> Sent(bx, n, b, clients), failed |-> f]
  BY Zenon DEF Snap
<1>. QED  BY <1>1, <1>2, <1>3, Zenon DEF Notify, Sent

LEMMA SnapRested ==
  ASSUME NEW b, NEW h, NEW g, NEW bx, NEW f, NEW x
  PROVE  [Snap(Ent(b, h, g), bx, f) EXCEPT !.entry.guaranteeClient = x] = Snap(Ent(b, h, x), bx, f)
  BY DEF Snap, Ent

LEMMA SnapFields ==
  ASSUME NEW b, NEW h, NEW g, NEW bx, NEW f
  PROVE  /\ Snap(Ent(b, h, g), bx, f).entry.hasClients = h
         /\ Snap(Ent(b, h, g), bx, f).entry.guaranteeClient = g
  BY Zenon DEF Snap, Ent

LEMMA HandledForm ==
  ASSUME NEW st, NEW n, NEW has
  PROVE  ClientsHandled(st, n, has)
         = LET unseen == st.entry.guaranteeClient /\ ~st.entry.hasClients /\ ~has
               told == IF unseen THEN Notify(st, n, Yes) ELSE st
               rested == [told EXCEPT !.entry.guaranteeClient = No]
           IN  IF rested.entry.hasClients # has THEN Notify(rested, n, has) ELSE rested
  BY Zenon DEF ClientsHandled, Yes, No

(* What the pass of the timer makes of an entry with callbacks: the clients  *)
(* as counted, no guarantee, and what is sent on the way there.              *)
LEMMA HandledFacts ==
  ASSUME NEW n, Listed(mNameToClientCallback[n]) # {}, NEW e \in Entries, NEW bx, NEW f,
         NEW has \in BOOLEAN
  PROVE  LET after == ClientsHandled([entry |-> e, inbox |-> bx, failed |-> f], n, has)
             b == e.binder
             seen == ~e.hasClients /\ ~has /\ e.guaranteeClient
         IN  /\ after.entry = Ent(b, has, No) /\ after.failed = f
             /\ e.hasClients # has => after.inbox = Sent(bx, n, b, has)
             /\ seen => after.inbox = Sent(Sent(bx, n, b, Yes), n, b, has)
             /\ e.hasClients = has /\ ~seen => after.inbox = bx
<1> DEFINE b == e.binder
           h == e.hasClients
           g == e.guaranteeClient
           st == [entry |-> e, inbox |-> bx, failed |-> f]
           unseen == st.entry.guaranteeClient /\ ~st.entry.hasClients /\ ~has
           told == IF unseen THEN Notify(st, n, Yes) ELSE st
           rested == [told EXCEPT !.entry.guaranteeClient = No]
           after == IF rested.entry.hasClients # has THEN Notify(rested, n, has) ELSE rested
<1>1. st = Snap(Ent(b, h, g), bx, f) /\ h \in BOOLEAN /\ g \in BOOLEAN
  BY Zenon DEF Snap, Ent, Entries
<1>2. unseen <=> g /\ ~h /\ ~has
  BY Zenon
<1>3. ASSUME NEW k, NEW x, NEW y, told = Snap(Ent(b, k, y), x, f)
      PROVE  rested = Snap(Ent(b, k, No), x, f) /\ rested.entry.hasClients = k
  <2> HIDE DEF told
  <2>1. rested = Snap(Ent(b, k, No), x, f)
    BY <1>3, SnapRested
  <2> HIDE DEF rested
  <2>. QED  BY <2>1, SnapFields
<1>4. ASSUME NEW k, NEW x, k # has
      PROVE  Notify(Snap(Ent(b, k, No), x, f), n, has) = Snap(Ent(b, has, No), Sent(x, n, b, has), f)
  BY <1>4, SnapNotify
<1>5. ClientsHandled(st, n, has) = after
  BY HandledForm, Zenon
<1>6. ASSUME NEW x PROVE /\ Snap(Ent(b, has, No), x, f).entry = Ent(b, has, No)
                         /\ Snap(Ent(b, has, No), x, f).failed = f
                         /\ Snap(Ent(b, has, No), x, f).inbox = x
  BY Zenon DEF Snap
<1> HIDE DEF st
<1>7. CASE h # has
  <2>1. told = Snap(Ent(b, h, g), bx, f)
    BY Zenon, <1>1, <1>2, <1>7
  <2>2. rested = Snap(Ent(b, h, No), bx, f) /\ rested.entry.hasClients = h
    BY Zenon, <1>3, <2>1
  <2> HIDE DEF rested, unseen
  <2>3. after = Snap(Ent(b, has, No), Sent(bx, n, b, has), f)
    BY Zenon, <1>4, <1>7, <2>2
  <2>4. ~(~h /\ ~has /\ g)
    BY Zenon, <1>1, <1>7
  <2> HIDE DEF after
  <2>. QED  BY <1>5, <1>6, <1>7, <2>3, <2>4 DEF st
<1>8. CASE h = has /\ ~(~h /\ ~has /\ g)
  <2>1. told = Snap(Ent(b, h, g), bx, f)
    BY Zenon, <1>1, <1>2, <1>8
  <2>2. rested = Snap(Ent(b, h, No), bx, f) /\ rested.entry.hasClients = h
    BY Zenon, <1>3, <2>1
  <2> HIDE DEF rested, unseen
  <2>3. after = Snap(Ent(b, has, No), bx, f)
    BY Zenon, <1>8, <2>2
  <2> HIDE DEF after, b, h, g
  <2>. QED  BY <1>5, <1>6, <1>8, <2>3 DEF st, b, h, g
<1>9. CASE ~h /\ ~has /\ g
  <2>1. h # Yes /\ Yes # has
    BY <1>9, Zenon DEF Yes
  <2>2. told = Snap(Ent(b, Yes, g), Sent(bx, n, b, Yes), f)
    <3>1. Notify(Snap(Ent(b, h, g), bx, f), n, Yes) = Snap(Ent(b, Yes, g), Sent(bx, n, b, Yes), f)
      BY <2>1, SnapNotify
    <3>. QED  BY <1>1, <1>2, <1>9, <3>1, Zenon
  <2>3. rested = Snap(Ent(b, Yes, No), Sent(bx, n, b, Yes), f) /\ rested.entry.hasClients = Yes
    BY Zenon, <1>3, <2>2
  <2> HIDE DEF rested, unseen
  <2>4. after = Snap(Ent(b, has, No), Sent(Sent(bx, n, b, Yes), n, b, has), f)
    BY Zenon, <1>4, <2>1, <2>3
  <2>5. h = has
    BY Zenon, <1>1, <1>9
  <2> HIDE DEF after
  <2>. QED  BY <1>5, <1>6, <1>9, <2>4, <2>5 DEF st
<1>. QED  BY Zenon, <1>7, <1>8, <1>9

Boxes(box) == DOMAIN box = Listener \cup Counter /\ \A c \in Counter : box[c] \in Seq(News)

LEMMA SentBoxes ==
  ASSUME DirectoryType, NEW box, Boxes(box), NEW n \in Name, NEW b \in Service, NEW clients \in BOOLEAN
  PROVE  Boxes(Sent(box, n, b, clients))
<1>1. DOMAIN box = Listener \cup Counter /\ \A c \in Counter : box[c] \in Seq(News)
  BY Zenon DEF Boxes
<1>2. OnClients(b, clients) \in News
  BY Zenon DEF OnClients, News
<1>3. mNameToClientCallback[n] \in [Counter -> Nat]
  BY Zenon DEF DirectoryType
<1>4. \A c \in Counter : c \in DOMAIN mNameToClientCallback[n]
                         => mNameToClientCallback[n][c] \in Nat /\ OnClients(b, clients) \in News
  BY Zenon, <1>2, <1>3
<1> DEFINE told == Told(box, mNameToClientCallback[n], OnClients(b, clients))
<1>5. DOMAIN told = Listener \cup Counter
  BY <1>1, <1>4, ToldFacts, Zenon
<1>6. \A c \in Counter : told[c] \in Seq(News)
  BY <1>1, <1>4, ToldFacts, Zenon
<1>. QED  BY <1>5, <1>6, Zenon DEF Sent, Boxes

LEMMA SentNot ==
  ASSUME NEW box, Boxes(box), NEW n \in Name, NEW b, NEW clients, NEW c \in Counter,
         mNameToClientCallback[n][c] = 0
  PROVE  Sent(box, n, b, clients)[c] = box[c]
<1>1. c \in DOMAIN box
  BY Zenon DEF Boxes
<1>. QED  BY Zenon, <1>1, ToldNot DEF Sent

LEMMA SentOnce ==
  ASSUME DirectoryType, NEW box, Boxes(box), NEW n \in Name, NEW b \in Service,
         NEW clients \in BOOLEAN, NEW c \in Counter, Owner[c] \in alive,
         mNameToClientCallback[n][c] = 1
  PROVE  Sent(box, n, b, clients)[c] = Append(box[c], OnClients(b, clients))
<1>1. c \in DOMAIN box /\ box[c] \in Seq(News)
  BY Zenon DEF Boxes
<1>2. OnClients(b, clients) \in News
  BY Zenon DEF OnClients, News
<1>3. c \in DOMAIN mNameToClientCallback[n]
  BY Zenon DEF DirectoryType
<1>. QED  BY Zenon, <1>1, <1>2, <1>3, ToldOnce DEF Sent

(* The step of the pass for one name.                                        *)
LEMMA CheckFacts ==
  ASSUME DirectoryInv, NEW n \in Name, handleServiceClientCallback(n)
  PROVE  LET e == mNameToService[n]
             b == e.binder
             has == Count(b) > 1
             seen == ~e.hasClients /\ ~has /\ e.guaranteeClient
         IN  /\ Watched(n) /\ e \in Entries /\ has \in BOOLEAN /\ Ent(b, has, No) \in Entries
             /\ mNameToService' = [mNameToService EXCEPT ![n] = Ent(b, has, No)]
             /\ failed' = failed /\ checking' = checking \ {n}
             /\ e.hasClients # has => inbox' = Sent(inbox, n, b, has)
             /\ seen => inbox' = Sent(Sent(inbox, n, b, Yes), n, b, has)
             /\ e.hasClients = has /\ ~seen => inbox' = inbox
             /\ UNCHANGED <<callbacks, holders, alive, obituaries>>
<1> DEFINE e == mNameToService[n]
           b == e.binder
           has == Count(b) > 1
           after == ClientsHandled([entry |-> e, inbox |-> inbox, failed |-> failed], n, has)
<1>1. /\ n \in checking /\ checking' = checking \ {n}
      /\ mNameToService' = [mNameToService EXCEPT ![n] = after.entry]
      /\ inbox' = after.inbox /\ failed' = after.failed
      /\ UNCHANGED <<callbacks, holders, alive, obituaries>>
  BY Zenon DEF handleServiceClientCallback
<1>2. Watched(n)
  BY Zenon, <1>1 DEF DirectoryInv, ChecksPass
<1>3. e \in Entries /\ Listed(mNameToClientCallback[n]) # {}
  BY Zenon, <1>2 DEF DirectoryInv, DirectoryType, Watched, Known
<1>4. has \in BOOLEAN
  OBVIOUS
<1> HIDE DEF has
<1>5. Ent(b, has, No) \in Entries
  <2>1. No \in BOOLEAN
    BY Zenon DEF No
  <2>. QED  BY Zenon, <1>3, <1>4, <2>1 DEF Ent, Entries
<1>6. LET seen == ~e.hasClients /\ ~has /\ e.guaranteeClient
      IN  /\ after.entry = Ent(b, has, No) /\ after.failed = failed
          /\ e.hasClients # has => after.inbox = Sent(inbox, n, b, has)
          /\ seen => after.inbox = Sent(Sent(inbox, n, b, Yes), n, b, has)
          /\ e.hasClients = has /\ ~seen => after.inbox = inbox
  BY <1>3, <1>4, HandledFacts
<1> HIDE DEF after, e
<1>. QED  BY <1>1, <1>2, <1>3, <1>4, <1>5, <1>6, Zenon DEF has, e

LEMMA CheckKeeps ==
  ASSUME DirectoryInv, NEW n \in Name, handleServiceClientCallback(n)
  PROVE  DirectoryInv'
<1> DEFINE e == mNameToService[n]
           b == e.binder
           has == Count(b) > 1
<1>1. /\ Watched(n) /\ e \in Entries /\ has \in BOOLEAN /\ Ent(b, has, No) \in Entries
      /\ mNameToService' = [mNameToService EXCEPT ![n] = Ent(b, has, No)]
      /\ failed' = failed /\ checking' = checking \ {n}
      /\ UNCHANGED <<callbacks, holders, alive, obituaries>>
      /\ \/ inbox' = Sent(inbox, n, b, has)
         \/ inbox' = Sent(Sent(inbox, n, b, Yes), n, b, has)
         \/ inbox' = inbox
  BY Zenon, CheckFacts
<1> HIDE DEF has
<1>2. DirectoryType /\ b \in Service
  BY Zenon, <1>1 DEF DirectoryInv, Entries
<1>3. Boxes(inbox)
  BY Zenon, <1>2 DEF DirectoryType, Boxes
<1>4. Yes \in BOOLEAN
  BY Zenon DEF Yes
<1>5. Boxes(inbox')
  <2>1. ASSUME NEW box, Boxes(box), NEW x \in BOOLEAN
        PROVE  Boxes(Sent(box, n, b, x))
    BY <1>2, <2>1, SentBoxes, Zenon
  <2>. QED  BY <1>1, <1>3, <1>4, <2>1, Zenon
<1>6. /\ mNameToService' \in [Name -> Entries \cup {NoService}]
      /\ \A m \in Name : /\ Known(m)' <=> Known(m)
                         /\ Known(m) => mNameToService'[m].binder = mNameToService[m].binder
  <2>1. Ent(b, has, No).binder = b /\ Ent(b, has, No) # NoService /\ Known(n)
    <3>1. Ent(b, has, No) # NoService
      BY Zenon, <1>1, NoRecord DEF Entries
    <3>2. Ent(b, has, No).binder = b
      BY Zenon DEF Ent
    <3>. QED  BY Zenon, <1>1, <3>1, <3>2 DEF Watched
  <2>. QED  BY Zenon, <1>1, <1>2, <2>1 DEF Known, DirectoryType
<1>7. DirectoryType' /\ ChecksPass'
  BY Zenon, <1>1, <1>2, <1>5, <1>6 DEF DirectoryInv, DirectoryType, ChecksPass, Watched, callbacks, Boxes
<1>. QED  BY Zenon, <1>1, <1>6, <1>7, NothingAdded DEF callbacks

(* Steps that add objects of live processes.                                 *)
LEMMA LiveAdded ==
  ASSUME DirectoryInv, DirectoryType', ChecksPass', UNCHANGED <<alive, obituaries>>,
         \A m \in Name :
           /\ Known(m)' => \/ Known(m) /\ mNameToService'[m].binder = mNameToService[m].binder
                           \/ Owner[mNameToService'[m].binder] \in alive \cap CanAdd[m]
           /\ \A o \in Listed(mNameToRegistrationCallback'[m]) :
                o \in Listed(mNameToRegistrationCallback[m]) \/ Owner[o] \in alive
           /\ \A o \in Listed(mNameToClientCallback'[m]) :
                o \in Listed(mNameToClientCallback[m]) \/ Owner[o] \in alive \cap CanAdd[m]
  PROVE  DirectoryInv'
<1>1. ObituariesTrue'
  BY Zenon DEF DirectoryInv, ObituariesTrue
<1>2. Admitted'
  BY Zenon DEF DirectoryInv, Admitted
<1>3. DeadAreForgotten'
  BY Zenon DEF DirectoryInv, DeadAreForgotten, Referenced
<1>. QED  BY Zenon, <1>1, <1>2, <1>3 DEF DirectoryInv

LEMMA ListedIn ==
  ASSUME NEW S, NEW vector \in [S -> Nat], NEW o
  PROVE  o \in Listed(vector) <=> o \in S /\ vector[o] > 0
  BY Zenon DEF Listed

LEMMA NewEntry ==
  ASSUME NEW b \in Service, NEW told \in BOOLEAN
  PROVE  LET e == [Entry(b) EXCEPT !.guaranteeClient = told]
         IN  /\ e \in Entries /\ e # NoService
             /\ e.binder = b /\ ~e.hasClients /\ e.guaranteeClient = told
<1>1. Entry(b) \in Entries
  BY Zenon DEF Entry, Entries
<1>2. Entry(b).binder = b /\ ~Entry(b).hasClients
  BY Zenon DEF Entry
<1>3. ASSUME NEW d \in Entries
      PROVE  LET e == [d EXCEPT !.guaranteeClient = told]
             IN  /\ e \in Entries /\ e # NoService /\ e.binder = d.binder
                 /\ e.hasClients = d.hasClients /\ e.guaranteeClient = told
  BY Zenon, NoRecord DEF Entries
<1>. QED  BY <1>1, <1>2, <1>3, Zenon

LEMMA AddFacts ==
  ASSUME DirectoryInv, NEW n \in Name, NEW b \in Service, addService(n, b)
  PROVE  /\ Ready /\ Owner[b] \in CanAdd[n]
         /\ mNameToService' \in [Name -> Entries \cup {NoService}]
         /\ \A m \in Name : m # n => mNameToService'[m] = mNameToService[m]
         /\ Known(n)' /\ mNameToService'[n].binder = b /\ ~mNameToService'[n].hasClients
         /\ DOMAIN inbox' = Listener \cup Counter
         /\ \A c \in Counter : inbox'[c] = inbox[c]
         /\ holders' \in [Service -> SUBSET Proc]
         /\ \A x \in Service : x # b => holders'[x] = holders[x]
         /\ UNCHANGED <<callbacks, checking, alive, obituaries, failed>>
<1> DEFINE listeners == mNameToRegistrationCallback[n]
           told == Listed(listeners) # {}
           e == [Entry(b) EXCEPT !.guaranteeClient = told]
           m == OnRegistration(n, b)
<1>1. /\ Ready /\ Owner[b] \in CanAdd[n]
      /\ mNameToService' = [mNameToService EXCEPT ![n] = e]
      /\ inbox' = Told(inbox, listeners, m)
      /\ holders' = [holders EXCEPT ![b] =
              @ \cup ({Owner[l] : l \in Listed(listeners)} \cap (alive \ {Owner[b]}))]
      /\ UNCHANGED <<callbacks, checking, alive, obituaries, failed>>
  BY Zenon DEF addService
<1>2. DirectoryType /\ listeners \in [Listener -> Nat] /\ alive \subseteq Proc
  BY Zenon DEF DirectoryInv, DirectoryType
<1>3. told \in BOOLEAN
  BY Zenon
<1> HIDE DEF told, listeners, m
<1>4. e \in Entries /\ e # NoService /\ e.binder = b /\ ~e.hasClients
  BY Zenon, <1>3, NewEntry
<1> HIDE DEF e
<1>5. DOMAIN inbox' = Listener \cup Counter
  BY Zenon, <1>1, <1>2 DEF DirectoryType, Told
<1>6. ASSUME NEW c \in Counter PROVE inbox'[c] = inbox[c]
  BY Zenon, <1>1, <1>2, Owners DEF DirectoryType, Told, Listed
<1>7. holders' \in [Service -> SUBSET Proc] /\ \A x \in Service : x # b => holders'[x] = holders[x]
  BY Zenon, <1>1, <1>2 DEF DirectoryType
<1>8. /\ mNameToService' \in [Name -> Entries \cup {NoService}]
      /\ \A x \in Name : x # n => mNameToService'[x] = mNameToService[x]
      /\ mNameToService'[n] = e
  BY Zenon, <1>1, <1>2, <1>4 DEF DirectoryType
<1>. QED  BY <1>1, <1>4, <1>5, <1>6, <1>7, <1>8, Zenon DEF Known

LEMMA AddKeeps ==
  ASSUME DirectoryInv, NEW n \in Name, NEW b \in Service, Owner[b] \in alive, addService(n, b)
  PROVE  DirectoryInv'
<1>1. /\ Ready /\ Owner[b] \in CanAdd[n]
      /\ mNameToService' \in [Name -> Entries \cup {NoService}]
      /\ \A m \in Name : m # n => mNameToService'[m] = mNameToService[m]
      /\ mNameToService'[n].binder = b
      /\ DOMAIN inbox' = Listener \cup Counter
      /\ \A c \in Counter : inbox'[c] = inbox[c]
      /\ holders' \in [Service -> SUBSET Proc]
      /\ UNCHANGED <<callbacks, checking, alive, obituaries, failed>>
  BY AddFacts, Zenon
<1>2. DirectoryType'
  BY Zenon, <1>1 DEF DirectoryInv, DirectoryType, callbacks
<1>3. ChecksPass'
  BY Zenon, <1>1, ReadyChecks
<1>. QED  BY Zenon, <1>1, <1>2, <1>3, LiveAdded DEF callbacks, Known

LEMMA RegisterForFacts ==
  ASSUME DirectoryInv, NEW n \in Name, NEW l \in Listener, registerForNotifications(n, l)
  PROVE  /\ Ready
         /\ mNameToRegistrationCallback' \in [Name -> [Listener -> Nat]]
         /\ \A m \in Name, o \in Listener : o # l =>
              mNameToRegistrationCallback'[m][o] = mNameToRegistrationCallback[m][o]
         /\ DOMAIN inbox' = Listener \cup Counter
         /\ \A c \in Counter : inbox'[c] = inbox[c]
         /\ holders' \in [Service -> SUBSET Proc]
         /\ \A x \in Service : \/ holders'[x] = holders[x]
                               \/ Known(n) /\ x = mNameToService[n].binder
         /\ UNCHANGED <<mNameToService, mNameToClientCallback, checking, alive, obituaries, failed>>
<1>1. /\ Ready
      /\ mNameToRegistrationCallback' = [mNameToRegistrationCallback EXCEPT ![n][l] = @ + 1]
      /\ \/ /\ Known(n)
            /\ inbox' = Told(inbox, [x \in {l} |-> 1], OnRegistration(n, mNameToService[n].binder))
            /\ holders' = HandedTo(Owner[l], mNameToService[n].binder)
         \/ UNCHANGED <<inbox, holders>>
      /\ UNCHANGED <<mNameToService, mNameToClientCallback, checking, alive, obituaries, failed>>
  BY Zenon DEF registerForNotifications
<1>2. DirectoryType
  BY Zenon DEF DirectoryInv
<1>3. /\ mNameToRegistrationCallback' \in [Name -> [Listener -> Nat]]
      /\ \A m \in Name, o \in Listener : o # l =>
           mNameToRegistrationCallback'[m][o] = mNameToRegistrationCallback[m][o]
  BY <1>1, <1>2 DEF DirectoryType
<1>4. Known(n) => mNameToService[n].binder \in Service
  BY Zenon, <1>2 DEF Known, DirectoryType, Entries
<1>5. Owner[l] \in Proc
  BY Zenon, Owners DEF Object
<1>6. /\ holders' \in [Service -> SUBSET Proc]
      /\ \A x \in Service : holders'[x] = holders[x] \/ (Known(n) /\ x = mNameToService[n].binder)
  BY <1>1, <1>2, <1>4, <1>5, HandedFacts DEF DirectoryType
<1>7. DOMAIN inbox' = Listener \cup Counter /\ \A c \in Counter : inbox'[c] = inbox[c]
  <2>1. CASE UNCHANGED inbox
    BY Zenon, <1>2, <2>1 DEF DirectoryType
  <2>2. CASE inbox' = Told(inbox, [x \in {l} |-> 1], OnRegistration(n, mNameToService[n].binder))
    BY Zenon, <1>2, <2>2, Owners DEF DirectoryType, Told, Listed
  <2>. QED  BY Zenon, <1>1, <2>1, <2>2
<1>. QED  BY <1>1, <1>3, <1>6, <1>7, Zenon

LEMMA RegisterForKeeps ==
  ASSUME DirectoryInv, NEW n \in Name, NEW l \in Listener, Owner[l] \in alive,
         registerForNotifications(n, l)
  PROVE  DirectoryInv'
<1>1. /\ Ready
      /\ mNameToRegistrationCallback' \in [Name -> [Listener -> Nat]]
      /\ \A m \in Name, o \in Listener : o # l =>
           mNameToRegistrationCallback'[m][o] = mNameToRegistrationCallback[m][o]
      /\ DOMAIN inbox' = Listener \cup Counter
      /\ \A c \in Counter : inbox'[c] = inbox[c]
      /\ holders' \in [Service -> SUBSET Proc]
      /\ UNCHANGED <<mNameToService, mNameToClientCallback, checking, alive, obituaries, failed>>
  BY RegisterForFacts, Zenon
<1>2. DirectoryType'
  BY Zenon, <1>1 DEF DirectoryInv, DirectoryType
<1>3. ChecksPass'
  BY Zenon, <1>1, ReadyChecks
<1>4. ASSUME NEW m \in Name, NEW o \in Listed(mNameToRegistrationCallback'[m])
      PROVE  o \in Listed(mNameToRegistrationCallback[m]) \/ Owner[o] \in alive
  <2>1. /\ mNameToRegistrationCallback[m] \in [Listener -> Nat]
        /\ mNameToRegistrationCallback'[m] \in [Listener -> Nat]
    BY Zenon, <1>1 DEF DirectoryInv, DirectoryType
  <2>2. o \in Listener /\ mNameToRegistrationCallback'[m][o] > 0
    BY Zenon, <2>1, <1>4, ListedIn
  <2>. QED  BY Zenon, <1>1, <2>1, <2>2, ListedIn
<1>. QED  BY Zenon, <1>1, <1>2, <1>3, <1>4, LiveAdded DEF Known

LEMMA RegisterClientFacts ==
  ASSUME DirectoryInv, NEW n \in Name, NEW b \in Service, NEW c \in Counter,
         registerClientCallback(n, b, c)
  PROVE  /\ Ready /\ Owner[c] \in CanAdd[n] /\ Known(n) /\ mNameToService[n].binder = b
         /\ Owner[b] = Owner[c]
         /\ mNameToClientCallback' \in [Name -> [Counter -> Nat]]
         /\ \A m \in Name, o \in Counter : m # n \/ o # c =>
              mNameToClientCallback'[m][o] = mNameToClientCallback[m][o]
         /\ mNameToClientCallback'[n][c] = mNameToClientCallback[n][c] + 1
         /\ UNCHANGED <<mNameToService, mNameToRegistrationCallback, checking, inbox, holders, alive,
                        obituaries, failed>>
  BY DEF registerClientCallback, DirectoryInv, DirectoryType

LEMMA RegisterClientKeeps ==
  ASSUME DirectoryInv, NEW n \in Name, NEW b \in Service, NEW c \in Counter, Owner[c] \in alive,
         registerClientCallback(n, b, c)
  PROVE  DirectoryInv'
<1>1. /\ Ready /\ Owner[c] \in CanAdd[n]
      /\ mNameToClientCallback' \in [Name -> [Counter -> Nat]]
      /\ \A m \in Name, o \in Counter : m # n \/ o # c =>
           mNameToClientCallback'[m][o] = mNameToClientCallback[m][o]
      /\ UNCHANGED <<mNameToService, mNameToRegistrationCallback, checking, inbox, holders, alive,
                     obituaries, failed>>
  BY RegisterClientFacts
<1>2. DirectoryType'
  BY Zenon, <1>1 DEF DirectoryInv, DirectoryType
<1>3. ChecksPass'
  BY Zenon, <1>1, ReadyChecks
<1>4. ASSUME NEW m \in Name, NEW o \in Listed(mNameToClientCallback'[m])
      PROVE  o \in Listed(mNameToClientCallback[m]) \/ Owner[o] \in alive \cap CanAdd[m]
  <2>1. /\ mNameToClientCallback[m] \in [Counter -> Nat]
        /\ mNameToClientCallback'[m] \in [Counter -> Nat]
    BY Zenon, <1>1 DEF DirectoryInv, DirectoryType
  <2>2. o \in Counter /\ mNameToClientCallback'[m][o] > 0
    BY Zenon, <2>1, <1>4, ListedIn
  <2>. QED  BY Zenon, <1>1, <2>1, <2>2, ListedIn
<1>. QED  BY Zenon, <1>1, <1>2, <1>3, <1>4, LiveAdded DEF Known

LEMMA DieKeeps ==
  ASSUME DirectoryInv, NEW p \in Proc, Die(p)
  PROVE  DirectoryInv'
<1>1. /\ alive' = alive \ {p}
      /\ obituaries' = obituaries \cup {o \in Object : Owner[o] = p /\ Referenced(o)}
      /\ holders' = [b \in Service |-> holders[b] \ {p}]
      /\ inbox' = [o \in DOMAIN inbox |-> IF Owner[o] = p THEN <<>> ELSE inbox[o]]
      /\ UNCHANGED <<mNameToService, callbacks, checking, failed>>
  BY Zenon DEF Die
<1>2. DirectoryType'
  <2>1. \A c \in Counter : inbox'[c] \in Seq(News)
    BY <1>1 DEF DirectoryInv, DirectoryType
  <2>. QED  BY Zenon, <1>1, <2>1 DEF DirectoryInv, DirectoryType, callbacks
<1>3. ChecksPass'
  BY Zenon, <1>1, SameDirectoryChecks
<1>4. ObituariesTrue' /\ Admitted'
  BY Zenon, <1>1 DEF DirectoryInv, ObituariesTrue, Admitted, Known, callbacks
<1>5. \A o : Referenced(o)' <=> Referenced(o)
  BY Zenon, <1>1 DEF Referenced, Known, callbacks
<1>6. DeadAreForgotten'
  BY Zenon, <1>1, <1>5 DEF DirectoryInv, DeadAreForgotten
<1>. QED  BY Zenon, <1>2, <1>3, <1>4, <1>6 DEF DirectoryInv

LEMMA DiedFacts ==
  ASSUME DirectoryInv, NEW who, binderDied(who)
  PROVE  /\ Ready /\ Owner[who] \notin alive
         /\ mNameToService' \in [Name -> Entries \cup {NoService}]
         /\ \A m \in Name : IF Known(m) /\ mNameToService[m].binder = who THEN ~Known(m)'
                            ELSE mNameToService'[m] = mNameToService[m]
         /\ mNameToRegistrationCallback' \in [Name -> [Listener -> Nat]]
         /\ mNameToClientCallback' \in [Name -> [Counter -> Nat]]
         /\ \A m \in Name, l \in Listener :
              mNameToRegistrationCallback'[m][l] = IF l = who THEN 0 ELSE mNameToRegistrationCallback[m][l]
         /\ \A m \in Name, c \in Counter :
              mNameToClientCallback'[m][c] = IF c = who THEN 0 ELSE mNameToClientCallback[m][c]
         /\ obituaries' = obituaries \ {who}
         /\ UNCHANGED <<checking, inbox, holders, alive, failed>>
<1> USE DEF DirectoryInv, DirectoryType
<1>1. /\ Ready /\ who \in obituaries /\ obituaries' = obituaries \ {who}
      /\ mNameToService' = [n \in Name |-> IF Known(n) /\ mNameToService[n].binder = who
                                           THEN NoService ELSE mNameToService[n]]
      /\ mNameToRegistrationCallback' =
           [n \in Name |-> Without(mNameToRegistrationCallback[n], who)]
      /\ mNameToClientCallback' = [n \in Name |-> Without(mNameToClientCallback[n], who)]
      /\ UNCHANGED <<checking, inbox, holders, alive, failed>>
  BY Zenon DEF binderDied
<1>2. Owner[who] \notin alive
  BY Zenon, <1>1 DEF ObituariesTrue
<1>3. /\ mNameToService' \in [Name -> Entries \cup {NoService}]
      /\ \A m \in Name : IF Known(m) /\ mNameToService[m].binder = who THEN ~Known(m)'
                         ELSE mNameToService'[m] = mNameToService[m]
  BY Zenon, <1>1 DEF Known
<1>4. /\ mNameToRegistrationCallback' \in [Name -> [Listener -> Nat]]
      /\ \A m \in Name, l \in Listener :
           mNameToRegistrationCallback'[m][l] = IF l = who THEN 0 ELSE mNameToRegistrationCallback[m][l]
  BY Zenon, <1>1 DEF Without
<1>5. /\ mNameToClientCallback' \in [Name -> [Counter -> Nat]]
      /\ \A m \in Name, c \in Counter :
           mNameToClientCallback'[m][c] = IF c = who THEN 0 ELSE mNameToClientCallback[m][c]
  BY Zenon, <1>1 DEF Without
<1>. QED  BY <1>1, <1>2, <1>3, <1>4, <1>5, Zenon

LEMMA DiedKeeps ==
  ASSUME DirectoryInv, NEW who, binderDied(who)
  PROVE  DirectoryInv'
<1>1. /\ Ready /\ Owner[who] \notin alive
      /\ mNameToService' \in [Name -> Entries \cup {NoService}]
      /\ \A m \in Name : IF Known(m) /\ mNameToService[m].binder = who THEN ~Known(m)'
                         ELSE mNameToService'[m] = mNameToService[m]
      /\ mNameToRegistrationCallback' \in [Name -> [Listener -> Nat]]
      /\ mNameToClientCallback' \in [Name -> [Counter -> Nat]]
      /\ \A m \in Name, l \in Listener :
           mNameToRegistrationCallback'[m][l] = IF l = who THEN 0 ELSE mNameToRegistrationCallback[m][l]
      /\ \A m \in Name, c \in Counter :
           mNameToClientCallback'[m][c] = IF c = who THEN 0 ELSE mNameToClientCallback[m][c]
      /\ obituaries' = obituaries \ {who}
      /\ UNCHANGED <<checking, inbox, holders, alive, failed>>
  BY DiedFacts, Zenon
<1>2. DirectoryType'
  BY Zenon, <1>1 DEF DirectoryInv, DirectoryType
<1>3. ChecksPass'
  BY Zenon, <1>1, ReadyChecks
<1>4. ASSUME NEW m \in Name
      PROVE  /\ Known(m)' => /\ Known(m) /\ mNameToService'[m].binder = mNameToService[m].binder
                             /\ mNameToService'[m].binder # who
             /\ \A o \in Listed(mNameToRegistrationCallback'[m]) :
                  o \in Listed(mNameToRegistrationCallback[m]) /\ o # who
             /\ \A o \in Listed(mNameToClientCallback'[m]) :
                  o \in Listed(mNameToClientCallback[m]) /\ o # who
  <2>1. Known(m)' => /\ Known(m) /\ mNameToService'[m].binder = mNameToService[m].binder
                     /\ mNameToService'[m].binder # who
    BY Zenon, <1>1 DEF Known
  <2>2. \A o \in Listed(mNameToRegistrationCallback'[m]) :
          o \in Listed(mNameToRegistrationCallback[m]) /\ o # who
    BY <1>1 DEF Listed, DirectoryInv, DirectoryType
  <2>3. \A o \in Listed(mNameToClientCallback'[m]) :
          o \in Listed(mNameToClientCallback[m]) /\ o # who
    BY <1>1 DEF Listed, DirectoryInv, DirectoryType
  <2>. QED  BY <2>1, <2>2, <2>3, Zenon
<1>5. ObituariesTrue' /\ Admitted'
  BY Zenon, <1>1, <1>4 DEF DirectoryInv, ObituariesTrue, Admitted
<1>6. \A o : Referenced(o)' => Referenced(o) /\ o # who
  BY Zenon, <1>4 DEF Referenced
<1>7. DeadAreForgotten'
  BY Zenon, <1>1, <1>6 DEF DirectoryInv, DeadAreForgotten
<1>. QED  BY Zenon, <1>2, <1>3, <1>5, <1>7 DEF DirectoryInv

----------------------------------------------------------------------------
(* What holds of any processes: the service manager's invariant, and what    *)
(* each lazy process is about.                                               *)
Base == DirectoryInv /\ LazyType /\ \A p \in Lazy : WorkSound(p)

LEMMA RecordFields ==
  ASSUME NEW r \in Records, NEW x \in BOOLEAN
  PROVE  /\ r # NoService /\ r.service \in Service /\ r.clients \in BOOLEAN /\ r.registered \in BOOLEAN
         /\ [r EXCEPT !.registered = x] \in Records /\ [r EXCEPT !.registered = x] # NoService
         /\ [r EXCEPT !.registered = x].service = r.service
         /\ [r EXCEPT !.registered = x].clients = r.clients
         /\ [r EXCEPT !.registered = x].registered = x
         /\ [r EXCEPT !.clients = x] \in Records /\ [r EXCEPT !.clients = x] # NoService
         /\ [r EXCEPT !.clients = x].service = r.service
         /\ [r EXCEPT !.clients = x].registered = r.registered
         /\ [r EXCEPT !.clients = x].clients = x
  BY Zenon, NoRecord DEF Records

(* A lazy process p only changes what is its own.                            *)
Own(p) ==
  /\ registers' = registers
  /\ \A q \in Lazy : q # p => work'[q] = work[q] /\ mRegisteredServices'[q] = mRegisteredServices[q]

(* The types and the work of the lazy processes after a step of p.           *)
OwnTyped(p) ==
  /\ mRegisteredServices' \in [Lazy -> [Name -> Records \cup {NoService}]]
  /\ work' \in [Lazy -> [at : Places, todo : SUBSET Name]]
  /\ work'[p].todo \subseteq registers[p].names

LEMMA OwnKeeps ==
  ASSUME Base, NEW p \in Lazy, Own(p), OwnTyped(p), WorkSound(p)', alive' \subseteq alive
  PROVE  LazyType' /\ \A q \in Lazy : WorkSound(q)'
<1>1. LazyType'
  BY Zenon DEF Base, LazyType, Own, OwnTyped, Mine, Lazy
<1>2. ASSUME NEW q \in Lazy, q # p PROVE WorkSound(q)'
  BY <1>2 DEF Base, WorkSound, Own, Has
<1>. QED  BY Zenon, <1>1, <1>2

(* Steps that leave the lazy processes alone.                                *)
LEMMA OthersKeep ==
  ASSUME Base, UNCHANGED lazyVars, alive' \subseteq alive
  PROVE  LazyType' /\ \A q \in Lazy : WorkSound(q)'
<1>1. LazyType'
  BY Zenon DEF Base, LazyType, lazyVars, Mine, Lazy
<1>2. ASSUME NEW q \in Lazy PROVE WorkSound(q)'
  BY Zenon DEF Base, WorkSound, lazyVars, Has
<1>. QED  BY Zenon, <1>1, <1>2

LEMMA GotoFacts ==
  ASSUME LazyType, NEW p \in Lazy, NEW w \in [at : Places, todo : SUBSET Name], Goto(p, w)
  PROVE  /\ work' \in [Lazy -> [at : Places, todo : SUBSET Name]]
         /\ work'[p] = w /\ \A q \in Lazy : q # p => work'[q] = work[q]
  BY Zenon DEF LazyType, Goto

LEMMA RecordSet ==
  ASSUME LazyType, NEW p \in Lazy, NEW n \in Name, NEW r \in Records,
         mRegisteredServices' = [mRegisteredServices EXCEPT ![p][n] = r]
  PROVE  /\ mRegisteredServices' \in [Lazy -> [Name -> Records \cup {NoService}]]
         /\ mRegisteredServices'[p][n] = r
         /\ \A m \in Name : m # n => mRegisteredServices'[p][m] = mRegisteredServices[p][m]
         /\ \A q \in Lazy : q # p => mRegisteredServices'[q] = mRegisteredServices[q]
  BY Zenon DEF LazyType

LEMMA LazyFacts ==
  ASSUME LazyType, NEW p \in Lazy
  PROVE  /\ p \in Proc /\ registers[p].names \subseteq Name /\ work[p].todo \subseteq registers[p].names
         /\ CounterOf[p] \in Counter /\ Owner[CounterOf[p]] = p
         /\ \A n \in registers[p].names : Mine(p, n) \in Service /\ Owner[Mine(p, n)] = p
         /\ \A n \in Name : Has(p, n) => mRegisteredServices[p][n] \in Records
         /\ work[p] \in [at : Places, todo : SUBSET Name]
  BY DEF LazyType, Has

LEMMA RegisterStep ==
  ASSUME Base, NEW p \in Lazy, NEW n \in Name, registerService(p, n)
  PROVE  /\ p \in alive /\ work[p].at = "free" /\ n \in registers[p].names /\ ~Has(p, n)
         /\ addService(n, Mine(p, n))
         /\ work'[p].at = "registering" /\ work'[p].todo = {n}
         /\ mRegisteredServices'[p] = mRegisteredServices[p] /\ fatal' = fatal
         /\ Own(p) /\ OwnTyped(p) /\ WorkSound(p)'
<1> DEFINE w == [at |-> "registering", todo |-> {n}]
<1>1. /\ p \in alive /\ work[p].at = "free" /\ n \in registers[p].names /\ ~Has(p, n)
      /\ addService(n, Mine(p, n)) /\ Goto(p, w)
      /\ registers' = registers /\ mRegisteredServices' = mRegisteredServices /\ fatal' = fatal
  BY Zenon DEF registerService, At, Live
<1>2. w \in [at : Places, todo : SUBSET Name] /\ w.at = "registering" /\ w.todo = {n}
  BY Zenon DEF Places
<1> HIDE DEF w
<1>3. /\ work' \in [Lazy -> [at : Places, todo : SUBSET Name]]
      /\ work'[p] = w /\ \A q \in Lazy : q # p => work'[q] = work[q]
  BY Zenon, <1>1, <1>2, GotoFacts DEF Base
<1>4. Own(p) /\ OwnTyped(p)
  BY <1>1, <1>2, <1>3 DEF Own, OwnTyped, Base, LazyType
<1>5. WorkSound(p)'
  BY Zenon, <1>1, <1>2, <1>3 DEF WorkSound, Has
<1>. QED  BY Zenon, <1>1, <1>2, <1>3, <1>4, <1>5

LEMMA AddClientStep ==
  ASSUME Base, NEW p \in Lazy, addClientCallback(p)
  PROVE  \E n \in registers[p].names :
           /\ p \in alive /\ work[p].at = "registering" /\ work[p].todo = {n} /\ ~Has(p, n)
           /\ \/ /\ registerClientCallback(n, Mine(p, n), CounterOf[p])
                 /\ mRegisteredServices'[p][n] \in Records
                 /\ mRegisteredServices'[p][n].service = Mine(p, n)
                 /\ ~mRegisteredServices'[p][n].clients
                 /\ mRegisteredServices'[p][n].registered
                 /\ \A m \in Name : m # n => mRegisteredServices'[p][m] = mRegisteredServices[p][m]
              \/ /\ UNCHANGED smVars
                 /\ Known(n) => mNameToService[n].binder # Mine(p, n)
                 /\ mRegisteredServices'[p] = mRegisteredServices[p]
           /\ work'[p].at = "free" /\ work'[p].todo = {} /\ fatal' = fatal
           /\ Own(p) /\ OwnTyped(p) /\ WorkSound(p)'
<1>1. WorkSound(p) /\ LazyType
  BY Zenon DEF Base
<1>2. p \in alive /\ work[p].at = "registering"
  BY Zenon DEF addClientCallback, At, Live
<1>3. PICK n \in registers[p].names : work[p].todo = {n} /\ ~Has(p, n)
  BY Zenon, <1>1, <1>2 DEF WorkSound
<1> DEFINE r == [service |-> Mine(p, n), clients |-> FALSE, registered |-> TRUE]
<1>4. /\ \/ /\ registerClientCallback(n, Mine(p, n), CounterOf[p])
            /\ mRegisteredServices' = [mRegisteredServices EXCEPT ![p][n] = r]
         \/ /\ Known(n) => mNameToService[n].binder # Mine(p, n)
            /\ UNCHANGED <<smVars, mRegisteredServices>>
      /\ Goto(p, Free) /\ registers' = registers /\ fatal' = fatal
  BY Zenon, <1>3 DEF addClientCallback
<1>5. Free \in [at : Places, todo : SUBSET Name] /\ Free.at = "free" /\ Free.todo = {}
  BY Zenon DEF Places, Free
<1>6. /\ work' \in [Lazy -> [at : Places, todo : SUBSET Name]]
      /\ work'[p] = Free /\ \A q \in Lazy : q # p => work'[q] = work[q]
  BY Zenon, <1>1, <1>4, <1>5, GotoFacts
<1>7. n \in Name /\ Mine(p, n) \in Service
  BY Zenon, <1>1 DEF LazyType
<1>8. r \in Records /\ r.service = Mine(p, n) /\ ~r.clients /\ r.registered
  BY Zenon, <1>7 DEF Records
<1> HIDE DEF r
<1>9. CASE /\ registerClientCallback(n, Mine(p, n), CounterOf[p])
           /\ mRegisteredServices' = [mRegisteredServices EXCEPT ![p][n] = r]
  <2>1. /\ mRegisteredServices' \in [Lazy -> [Name -> Records \cup {NoService}]]
        /\ mRegisteredServices'[p][n] = r
        /\ \A m \in Name : m # n => mRegisteredServices'[p][m] = mRegisteredServices[p][m]
        /\ \A q \in Lazy : q # p => mRegisteredServices'[q] = mRegisteredServices[q]
    BY <1>1, <1>7, <1>8, <1>9, RecordSet, Zenon
  <2>2. Own(p) /\ OwnTyped(p)
    BY Zenon, <1>4, <1>5, <1>6, <2>1 DEF Own, OwnTyped
  <2>3. WorkSound(p)'
    BY Zenon, <1>5, <1>6 DEF WorkSound
  <2>. QED  BY Zenon, <1>2, <1>3, <1>4, <1>5, <1>6, <1>8, <1>9, <2>1, <2>2, <2>3
<1>10. CASE /\ Known(n) => mNameToService[n].binder # Mine(p, n)
            /\ UNCHANGED <<smVars, mRegisteredServices>>
  <2>2. Own(p) /\ OwnTyped(p)
    BY Zenon, <1>1, <1>4, <1>5, <1>6, <1>10 DEF Own, OwnTyped, LazyType
  <2>3. WorkSound(p)'
    BY Zenon, <1>5, <1>6 DEF WorkSound
  <2>. QED  BY Zenon, <1>2, <1>3, <1>4, <1>5, <1>6, <1>10, <2>2, <2>3
<1>. QED  BY Zenon, <1>4, <1>9, <1>10

LEMMA ShutdownFacts ==
  ASSUME LazyType, NEW p \in Lazy, NEW services, NEW persist,
         maybeTryShutdownLocked(p, services, persist)
  PROVE  /\ work' \in [Lazy -> [at : Places, todo : SUBSET Name]]
         /\ \A q \in Lazy : q # p => work'[q] = work[q]
         /\ \/ work'[p].at = "free" /\ work'[p].todo = {}
            \/ work'[p].at = "unregistering" /\ work'[p].todo = NamesOf(p)
<1>1. Goto(p, Free) \/ Goto(p, Unregistering(NamesOf(p)))
  BY Zenon DEF maybeTryShutdownLocked
<1>2. Free \in [at : Places, todo : SUBSET Name] /\ Free.at = "free" /\ Free.todo = {}
  BY Zenon DEF Places, Free
<1>3. NamesOf(p) \in SUBSET Name
  BY Zenon, LazyFacts DEF NamesOf
<1>4. /\ Unregistering(NamesOf(p)) \in [at : Places, todo : SUBSET Name]
      /\ Unregistering(NamesOf(p)).at = "unregistering" /\ Unregistering(NamesOf(p)).todo = NamesOf(p)
  BY Zenon, <1>3 DEF Places, Unregistering
<1>5. CASE Goto(p, Free)
  BY Zenon, <1>2, <1>5, GotoFacts
<1>6. CASE Goto(p, Unregistering(NamesOf(p)))
  BY Zenon, <1>4, <1>6, GotoFacts
<1>. QED  BY Zenon, <1>1, <1>5, <1>6

(* How onClients ends: in a LOG_ALWAYS_FATAL, or with the news taken in.     *)
Unknown(p, m) == \A n \in Name : ~(Has(p, n) /\ mRegisteredServices[p][n].service = m.binder)
About(p, n, m) == Has(p, n) /\ mRegisteredServices[p][n].service = m.binder

(* After maybeTryShutdownLocked.                                             *)
MaybeEnding(p) ==
  \/ work'[p].at = "free" /\ work'[p].todo = {}
  \/ work'[p].at = "unregistering" /\ work'[p].todo = NamesOf(p)

TakesIn(p, n, m) ==
  /\ mRegisteredServices[p][n].clients # m.clients
  /\ Handle(CounterOf[p])
  /\ mRegisteredServices'[p][n] = [mRegisteredServices[p][n] EXCEPT !.clients = m.clients]
  /\ \A x \in Name : x # n => mRegisteredServices'[p][x] = mRegisteredServices[p][x]
  /\ MaybeEnding(p)
  /\ fatal' = fatal

LEMMA ShutdownWork ==
  ASSUME Base, NEW p \in Lazy, MaybeEnding(p), \A n \in Name : Has(p, n)' <=> Has(p, n)
  PROVE  WorkSound(p)' /\ work'[p].todo \subseteq registers[p].names
<1>1. NamesOf(p) \subseteq registers[p].names /\ \A n \in NamesOf(p) : n \in Name /\ Has(p, n)
  BY Zenon, LazyFacts DEF NamesOf, Base
<1>2. CASE work'[p].at = "free" /\ work'[p].todo = {}
  BY Zenon, <1>2 DEF WorkSound
<1>3. CASE work'[p].at = "unregistering" /\ work'[p].todo = NamesOf(p)
  BY Zenon, <1>1, <1>3 DEF WorkSound
<1>. QED  BY Zenon, <1>2, <1>3 DEF MaybeEnding

LEMMA OnClientsStep ==
  ASSUME Base, NEW p \in Lazy, onClients(p)
  PROVE  LET m == Head(inbox[CounterOf[p]]) IN
         /\ p \in alive /\ work[p].at = "free" /\ inbox[CounterOf[p]] # <<>> /\ m \in News
         /\ Own(p) /\ OwnTyped(p) /\ WorkSound(p)'
         /\ \/ Unknown(p, m) /\ UNCHANGED <<smVars, mRegisteredServices, work>>
            \/ \E n \in Name :
                 /\ About(p, n, m)
                 /\ \/ /\ mRegisteredServices[p][n].clients = m.clients
                       /\ UNCHANGED <<smVars, mRegisteredServices, work>>
                    \/ TakesIn(p, n, m)
<1> DEFINE c == CounterOf[p]
           m == Head(inbox[c])
           ours == {n \in Name : Has(p, n) /\ mRegisteredServices[p][n].service = m.binder}
           n == CHOOSE x \in ours : TRUE
           services == [mRegisteredServices[p] EXCEPT ![n].clients = m.clients]
<1>1. LazyType /\ DirectoryType /\ c \in Counter
  BY Zenon, LazyFacts DEF Base, DirectoryInv
<1>2. p \in alive /\ work[p].at = "free" /\ inbox[c] # <<>> /\ registers' = registers
  BY Zenon DEF onClients, At, Live
<1>3. m \in News
  <2>1. inbox[c] \in Seq(News)
    BY Zenon, <1>1 DEF DirectoryType
  <2>. QED  BY <1>2, <2>1
<1>4. /\ ours = {} => UNCHANGED <<smVars, mRegisteredServices, work>>
      /\ ours # {} /\ mRegisteredServices[p][n].clients = m.clients
         => UNCHANGED <<smVars, mRegisteredServices, work>>
      /\ ours # {} /\ mRegisteredServices[p][n].clients # m.clients
         => /\ Handle(c) /\ mRegisteredServices' = [mRegisteredServices EXCEPT ![p] = services]
            /\ maybeTryShutdownLocked(p, services, mForcePersist[p]) /\ fatal' = fatal
  BY Zenon DEF onClients
<1>5. ours # {} => n \in ours
  BY Zenon
<1> HIDE DEF n, m
<1>6. ASSUME UNCHANGED <<smVars, mRegisteredServices, work>>
      PROVE  Own(p) /\ OwnTyped(p) /\ WorkSound(p)'
  BY Zenon, <1>1, <1>2, <1>6 DEF Own, OwnTyped, LazyType, Base, WorkSound, Has, smVars
<1>7. CASE ours = {}
  BY Zenon, <1>2, <1>3, <1>4, <1>6, <1>7 DEF Unknown, m
<1>8. CASE ours # {} /\ mRegisteredServices[p][n].clients = m.clients
  BY Zenon, <1>2, <1>3, <1>4, <1>5, <1>6, <1>8 DEF About, m
<1>9. CASE ours # {} /\ mRegisteredServices[p][n].clients # m.clients
  <2> DEFINE r == [mRegisteredServices[p][n] EXCEPT !.clients = m.clients]
  <2>1. n \in Name /\ About(p, n, m) /\ mRegisteredServices[p][n] \in Records
    BY Zenon, <1>1, <1>5, <1>9, LazyFacts DEF About
  <2>2. r \in Records
    BY Zenon, <1>3, <2>1 DEF Records, News
  <2>3. mRegisteredServices' = [mRegisteredServices EXCEPT ![p][n] = r]
    BY Zenon, <1>4, <1>9
  <2> HIDE DEF r
  <2>4. /\ mRegisteredServices' \in [Lazy -> [Name -> Records \cup {NoService}]]
        /\ mRegisteredServices'[p][n] = r
        /\ \A x \in Name : x # n => mRegisteredServices'[p][x] = mRegisteredServices[p][x]
        /\ \A q \in Lazy : q # p => mRegisteredServices'[q] = mRegisteredServices[q]
    BY <1>1, <2>1, <2>2, <2>3, RecordSet, Zenon
  <2>5. /\ work' \in [Lazy -> [at : Places, todo : SUBSET Name]]
        /\ \A q \in Lazy : q # p => work'[q] = work[q]
        /\ MaybeEnding(p)
    BY Zenon, <1>1, <1>4, <1>9, ShutdownFacts DEF MaybeEnding
  <2>6. \A x \in Name : Has(p, x)' <=> Has(p, x)
    <3>1. r # NoService /\ Has(p, n)
      BY Zenon, <2>1, <2>2, NoRecord DEF Records, About
    <3>. QED  BY Zenon, <2>4, <3>1 DEF Has
  <2>7. WorkSound(p)' /\ work'[p].todo \subseteq registers[p].names
    BY Zenon, <2>5, <2>6, ShutdownWork
  <2>8. Own(p) /\ OwnTyped(p)
    BY Zenon, <1>2, <2>4, <2>5, <2>7 DEF Own, OwnTyped
  <2>9. TakesIn(p, n, m)
    BY Zenon, <1>4, <1>9, <2>4, <2>5 DEF TakesIn, r
  <2>. QED  BY Zenon, <1>2, <1>3, <2>1, <2>7, <2>8, <2>9 DEF m
<1>. QED  BY Zenon, <1>7, <1>8, <1>9

LEMMA ForcePersistStep ==
  ASSUME Base, NEW p \in Lazy, NEW persist, forcePersist(p, persist)
  PROVE  /\ work[p].at = "free" /\ MaybeEnding(p)
         /\ mRegisteredServices'[p] = mRegisteredServices[p] /\ fatal' = fatal
         /\ UNCHANGED smVars
         /\ Own(p) /\ OwnTyped(p) /\ WorkSound(p)'
<1>1. /\ work[p].at = "free" /\ maybeTryShutdownLocked(p, mRegisteredServices[p], persist)
      /\ UNCHANGED <<smVars, registers, mRegisteredServices, fatal>>
  BY Zenon DEF forcePersist, At
<1>2. /\ work' \in [Lazy -> [at : Places, todo : SUBSET Name]]
      /\ \A q \in Lazy : q # p => work'[q] = work[q]
      /\ MaybeEnding(p)
  BY Zenon, <1>1, ShutdownFacts DEF MaybeEnding, Base
<1>3. WorkSound(p)' /\ work'[p].todo \subseteq registers[p].names
  BY Zenon, <1>1, <1>2, ShutdownWork DEF Has
<1>4. Own(p) /\ OwnTyped(p)
  BY Zenon, <1>1, <1>2, <1>3 DEF Own, OwnTyped, Base, LazyType
<1>. QED  BY Zenon, <1>1, <1>2, <1>3, <1>4

(* The record of a service with its registration set to x.                   *)
Marks(p, n, x) == mRegisteredServices' = [mRegisteredServices EXCEPT ![p][n].registered = x]
Marked(p, n, x) ==
  /\ mRegisteredServices'[p][n] \in Records
  /\ mRegisteredServices'[p][n].service = mRegisteredServices[p][n].service
  /\ mRegisteredServices'[p][n].clients = mRegisteredServices[p][n].clients
  /\ mRegisteredServices'[p][n].registered = x
  /\ \A m \in Name : m # n => mRegisteredServices'[p][m] = mRegisteredServices[p][m]

LEMMA MarkedFacts ==
  ASSUME Base, NEW p \in Lazy, NEW n \in Name, Has(p, n), NEW x \in BOOLEAN,
         Marks(p, n, x)
  PROVE  /\ mRegisteredServices' \in [Lazy -> [Name -> Records \cup {NoService}]]
         /\ Marked(p, n, x)
         /\ \A q \in Lazy : q # p => mRegisteredServices'[q] = mRegisteredServices[q]
         /\ \A m \in Name : Has(p, m)' <=> Has(p, m)
<1> DEFINE r == [mRegisteredServices[p][n] EXCEPT !.registered = x]
<1>1. LazyType /\ mRegisteredServices[p][n] \in Records
  BY Zenon, LazyFacts DEF Base
<1>2. /\ r \in Records /\ r # NoService /\ r.service = mRegisteredServices[p][n].service
      /\ r.clients = mRegisteredServices[p][n].clients /\ r.registered = x
  BY Zenon, <1>1, NoRecord DEF Records
<1>3. mRegisteredServices' = [mRegisteredServices EXCEPT ![p][n] = r]
  BY Zenon DEF Marks
<1> HIDE DEF r
<1>4. /\ mRegisteredServices' \in [Lazy -> [Name -> Records \cup {NoService}]]
      /\ mRegisteredServices'[p][n] = r
      /\ \A m \in Name : m # n => mRegisteredServices'[p][m] = mRegisteredServices[p][m]
      /\ \A q \in Lazy : q # p => mRegisteredServices'[q] = mRegisteredServices[q]
  BY Zenon, <1>1, <1>2, <1>3 DEF LazyType
<1>5. Marked(p, n, x)
  BY Zenon, <1>2, <1>4 DEF Marked
<1>6. \A m \in Name : Has(p, m)' <=> Has(p, m)
  BY Zenon, <1>2, <1>4 DEF Has
<1>. QED  BY Zenon, <1>4, <1>5, <1>6

LEMMA TryUnregisterStep ==
  ASSUME Base, NEW p \in Lazy, tryUnregister(p)
  PROVE  \E n \in registers[p].names, ok \in BOOLEAN :
           /\ p \in alive /\ work[p].at = "unregistering" /\ n \in work[p].todo /\ Has(p, n)
           /\ tryUnregisterService(n, Mine(p, n), ok)
           /\ Marked(p, n, ~ok)
           /\ IF ok THEN work'[p].at = "unregistering" /\ work'[p].todo = work[p].todo \ {n}
              ELSE work'[p].at = "reRegistering" /\ work'[p].todo = ToReRegister(p)
           /\ fatal' = fatal
           /\ Own(p) /\ OwnTyped(p) /\ WorkSound(p)'
           /\ \A m \in Name : Has(p, m)' <=> Has(p, m)
<1>1. /\ p \in alive /\ work[p].at = "unregistering" /\ registers' = registers /\ fatal' = fatal
      /\ LazyType /\ WorkSound(p)
  BY Zenon DEF tryUnregister, At, Live, Base
<1>2. PICK n \in work[p].todo, ok \in BOOLEAN :
        /\ tryUnregisterService(n, Mine(p, n), ok)
        /\ Marks(p, n, ~ok)
        /\ Goto(p, IF Continues(p, ok) THEN Unregistering(work[p].todo \ {n})
                   ELSE ReRegistering(ToReRegister(p)))
  BY Zenon DEF tryUnregister, Marks
<1>3. n \in registers[p].names /\ n \in Name /\ Has(p, n) /\ work[p].todo \subseteq registers[p].names
      /\ registers[p].names \subseteq Name
  BY Zenon, <1>1, LazyFacts DEF WorkSound
<1>4. (~ok) \in BOOLEAN
  BY Zenon
<1>5. /\ mRegisteredServices' \in [Lazy -> [Name -> Records \cup {NoService}]]
      /\ Marked(p, n, ~ok)
      /\ \A q \in Lazy : q # p => mRegisteredServices'[q] = mRegisteredServices[q]
      /\ \A m \in Name : Has(p, m)' <=> Has(p, m)
  BY <1>2, <1>3, <1>4, MarkedFacts, Zenon
<1> DEFINE go == Unregistering(work[p].todo \ {n})
           back == ReRegistering(ToReRegister(p))
<1>6. /\ go \in [at : Places, todo : SUBSET Name]
      /\ go.at = "unregistering" /\ go.todo = work[p].todo \ {n}
  BY Zenon, <1>3 DEF Unregistering, Places
<1>7. /\ back \in [at : Places, todo : SUBSET Name]
      /\ back.at = "reRegistering" /\ back.todo = ToReRegister(p)
  <2>1. ToReRegister(p) \in SUBSET Name
    BY Zenon, <1>3 DEF ToReRegister, NamesOf
  <2>. QED  BY Zenon, <2>1 DEF ReRegistering, Places
<1>8. \A m \in ToReRegister(p) : m \in registers[p].names /\ Has(p, m)
  BY Zenon DEF ToReRegister, NamesOf
<1>9. ok => Goto(p, go)
  BY Zenon, <1>2 DEF Continues
<1>10. ~ok => Goto(p, back)
  BY Zenon, <1>2 DEF Continues
<1> HIDE DEF go, back
<1>11. /\ work' \in [Lazy -> [at : Places, todo : SUBSET Name]]
       /\ \A q \in Lazy : q # p => work'[q] = work[q]
       /\ IF ok THEN work'[p] = go ELSE work'[p] = back
  BY Zenon, <1>1, <1>6, <1>7, <1>9, <1>10, GotoFacts
<1>12. Own(p) /\ OwnTyped(p)
  BY Zenon, <1>1, <1>3, <1>5, <1>6, <1>7, <1>8, <1>11 DEF Own, OwnTyped
<1>13. WorkSound(p)'
  BY Zenon, <1>1, <1>3, <1>5, <1>6, <1>7, <1>8, <1>11 DEF WorkSound
<1>14. IF ok THEN work'[p].at = "unregistering" /\ work'[p].todo = work[p].todo \ {n}
       ELSE work'[p].at = "reRegistering" /\ work'[p].todo = ToReRegister(p)
  BY Zenon, <1>6, <1>7, <1>11
<1>. QED  BY <1>1, <1>2, <1>3, <1>5, <1>12, <1>13, <1>14, Zenon

LEMMA ExitStep ==
  ASSUME Base, NEW p \in Lazy, exit(p)
  PROVE  /\ p \in alive /\ work[p].at = "unregistering" /\ work[p].todo = {} /\ Die(p)
         /\ work'[p].at = "exited" /\ work'[p].todo = {}
         /\ mRegisteredServices'[p] = mRegisteredServices[p] /\ fatal' = fatal
         /\ Own(p) /\ OwnTyped(p) /\ WorkSound(p)'
<1> DEFINE w == [at |-> "exited", todo |-> {}]
<1>1. /\ p \in alive /\ work[p].at = "unregistering" /\ work[p].todo = {} /\ Die(p) /\ Goto(p, w)
      /\ registers' = registers /\ mRegisteredServices' = mRegisteredServices /\ fatal' = fatal
  BY Zenon DEF exit, At, Live
<1>2. w \in [at : Places, todo : SUBSET Name] /\ w.at = "exited" /\ w.todo = {}
  BY Zenon DEF Places
<1> HIDE DEF w
<1>3. /\ work' \in [Lazy -> [at : Places, todo : SUBSET Name]]
      /\ work'[p] = w /\ \A q \in Lazy : q # p => work'[q] = work[q]
  BY Zenon, <1>1, <1>2, GotoFacts DEF Base
<1>4. Own(p) /\ OwnTyped(p)
  BY Zenon, <1>1, <1>2, <1>3 DEF Own, OwnTyped, Base, LazyType
<1>5. WorkSound(p)'
  BY Zenon, <1>1, <1>2, <1>3 DEF WorkSound, Die
<1>. QED  BY Zenon, <1>1, <1>2, <1>3, <1>4, <1>5

LEMMA ReRegisterStep ==
  ASSUME Base, NEW p \in Lazy, reRegister(p)
  PROVE  \E n \in registers[p].names :
           /\ p \in alive /\ work[p].at = "reRegistering" /\ n \in work[p].todo /\ Has(p, n)
           /\ addService(n, Mine(p, n))
           /\ Marked(p, n, Yes)
           /\ work'[p].at = "reRegistering" /\ work'[p].todo = work[p].todo \ {n}
           /\ fatal' = fatal
           /\ Own(p) /\ OwnTyped(p) /\ WorkSound(p)'
           /\ \A m \in Name : Has(p, m)' <=> Has(p, m)
<1>1. /\ p \in alive /\ work[p].at = "reRegistering" /\ registers' = registers /\ fatal' = fatal
      /\ LazyType /\ WorkSound(p)
  BY Zenon DEF reRegister, At, Live, Base
<1>2. PICK n \in work[p].todo :
        /\ addService(n, Mine(p, n))
        /\ Marks(p, n, Yes)
        /\ Goto(p, ReRegistering(work[p].todo \ {n}))
  BY Zenon DEF reRegister, Yes, Marks
<1>3. n \in registers[p].names /\ n \in Name /\ Has(p, n) /\ work[p].todo \subseteq registers[p].names
      /\ registers[p].names \subseteq Name
  BY Zenon, <1>1, LazyFacts DEF WorkSound
<1>4. Yes \in BOOLEAN
  BY Zenon DEF Yes
<1>5. /\ mRegisteredServices' \in [Lazy -> [Name -> Records \cup {NoService}]]
      /\ Marked(p, n, Yes)
      /\ \A q \in Lazy : q # p => mRegisteredServices'[q] = mRegisteredServices[q]
      /\ \A m \in Name : Has(p, m)' <=> Has(p, m)
  BY <1>2, <1>3, <1>4, MarkedFacts, Zenon
<1> DEFINE go == ReRegistering(work[p].todo \ {n})
<1>6. /\ go \in [at : Places, todo : SUBSET Name]
      /\ go.at = "reRegistering" /\ go.todo = work[p].todo \ {n}
  BY Zenon, <1>3 DEF ReRegistering, Places
<1>7. Goto(p, go)
  BY Zenon, <1>2
<1> HIDE DEF go
<1>8. /\ work' \in [Lazy -> [at : Places, todo : SUBSET Name]]
      /\ \A q \in Lazy : q # p => work'[q] = work[q]
      /\ work'[p] = go
  BY Zenon, <1>1, <1>6, <1>7, GotoFacts
<1>9. Own(p) /\ OwnTyped(p)
  BY Zenon, <1>1, <1>3, <1>5, <1>6, <1>8 DEF Own, OwnTyped
<1>10. WorkSound(p)'
  BY Zenon, <1>1, <1>3, <1>5, <1>6, <1>8 DEF WorkSound
<1>. QED  BY <1>1, <1>2, <1>3, <1>5, <1>6, <1>8, <1>9, <1>10, Zenon

LEMMA ReRegisteredStep ==
  ASSUME Base, NEW p \in Lazy, reRegistered(p)
  PROVE  /\ p \in alive /\ work[p].at = "reRegistering" /\ work[p].todo = {} /\ UNCHANGED smVars
         /\ work'[p].at = "free" /\ work'[p].todo = {}
         /\ mRegisteredServices'[p] = mRegisteredServices[p] /\ fatal' = fatal
         /\ Own(p) /\ OwnTyped(p) /\ WorkSound(p)'
<1>1. /\ p \in alive /\ work[p].at = "reRegistering" /\ work[p].todo = {} /\ Goto(p, Free)
      /\ UNCHANGED <<smVars, registers, mRegisteredServices, fatal>>
  BY Zenon DEF reRegistered, At, Live
<1>2. Free \in [at : Places, todo : SUBSET Name] /\ Free.at = "free" /\ Free.todo = {}
  BY Zenon DEF Places, Free
<1>3. /\ work' \in [Lazy -> [at : Places, todo : SUBSET Name]]
      /\ work'[p] = Free /\ \A q \in Lazy : q # p => work'[q] = work[q]
  BY Zenon, <1>1, <1>2, GotoFacts DEF Base
<1>4. Own(p) /\ OwnTyped(p)
  BY Zenon, <1>1, <1>2, <1>3 DEF Own, OwnTyped, Base, LazyType
<1>5. WorkSound(p)'
  BY Zenon, <1>1, <1>2, <1>3 DEF WorkSound
<1>. QED  BY Zenon, <1>1, <1>2, <1>3, <1>4, <1>5

LEMMA SameKeeps ==
  ASSUME DirectoryInv, UNCHANGED smVars
  PROVE  DirectoryInv'
<1>1. UNCHANGED <<mNameToService, callbacks, checking, inbox, holders, alive, obituaries, failed>>
  BY Zenon DEF smVars, callbacks
<1>2. DirectoryType'
  BY Zenon, <1>1 DEF DirectoryInv, DirectoryType, callbacks
<1>. QED  BY Zenon, <1>1, <1>2, SameDirectoryChecks, NothingAdded DEF callbacks, Known

LEMMA BaseInit == Init => Base
<1> SUFFICES ASSUME Init PROVE Base
  BY Zenon
<1>1. SMInit /\ mRegisteredServices = [p \in Lazy |-> [n \in Name |-> NoService]]
      /\ work = [p \in Lazy |-> Free]
  BY Zenon DEF Init
<1>2. \A n \in Name : /\ ~Known(n) /\ Listed(mNameToRegistrationCallback[n]) = {}
                      /\ Listed(mNameToClientCallback[n]) = {}
  BY <1>1 DEF SMInit, Known, Listed
<1>3. DirectoryType
  BY <1>1 DEF SMInit, DirectoryType
<1>4. DirectoryInv
  <2>1. ObituariesTrue /\ ChecksPass
    BY Zenon, <1>1 DEF SMInit, ObituariesTrue, ChecksPass
  <2>2. Admitted /\ DeadAreForgotten
    BY Zenon, <1>2 DEF Admitted, DeadAreForgotten, Referenced
  <2>. QED  BY Zenon, <1>3, <2>1, <2>2 DEF DirectoryInv
<1>5. PICK s \in Scenarios : registers = s.registers
  BY Zenon DEF Init
<1>6. Free \in [at : Places, todo : SUBSET Name] /\ Free.at = "free" /\ Free.todo = {}
  BY Zenon DEF Places, Free
<1>7. LazyType
  BY <1>1, <1>5, <1>6, LazyProcesses DEF LazyType, Lazy, Mine
<1>8. \A p \in Lazy : WorkSound(p)
  BY Zenon, <1>1, <1>6 DEF WorkSound
<1>. QED  BY Zenon, <1>4, <1>7, <1>8 DEF Base

(* Who takes a step that changes the service manager's state.                *)
LEMMA UsesKeep ==
  ASSUME Base, NEW p \in alive, Uses(p)
  PROVE  Base'
<1>1. DirectoryInv /\ UNCHANGED lazyVars /\ alive \subseteq Proc /\ (Client(p) \/ Server(p))
  BY Zenon DEF Base, DirectoryInv, DirectoryType, Uses
<1>2. DirectoryInv' /\ alive' = alive
  <2>1. ASSUME NEW n \in Name, NEW start \in BOOLEAN, tryGetService(p, n, start)
        PROVE  DirectoryInv' /\ alive' = alive
    <3>1. DirectoryInv'
      BY <1>1, <2>1, GetKeeps, Zenon
    <3>2. alive' = alive
      BY Zenon, <2>1 DEF tryGetService
    <3>. QED  BY Zenon, <3>1, <3>2
  <2>2. ASSUME NEW n \in Name, NEW l \in Listener, Owner[l] = p, registerForNotifications(n, l)
        PROVE  DirectoryInv' /\ alive' = alive
    <3>1. DirectoryInv'
      BY <1>1, <2>2, RegisterForKeeps, Zenon
    <3>2. alive' = alive
      BY Zenon, <2>2 DEF registerForNotifications
    <3>. QED  BY Zenon, <3>1, <3>2
  <2>3. ASSUME NEW n \in Name, NEW l \in Listener, unregisterForNotifications(n, l)
        PROVE  DirectoryInv' /\ alive' = alive
    <3>1. DirectoryInv'
      BY <1>1, <2>3, UnregisterForKeeps, Zenon
    <3>2. alive' = alive
      BY Zenon, <2>3 DEF unregisterForNotifications
    <3>. QED  BY Zenon, <3>1, <3>2
  <2>4. ASSUME NEW n \in Name, NEW b \in Service, Owner[b] = p, addService(n, b)
        PROVE  DirectoryInv' /\ alive' = alive
    BY Zenon, <1>1, <2>4, AddKeeps DEF addService
  <2>5. ASSUME NEW n \in Name, NEW b \in Service, Owner[b] = p, NEW c \in Counter,
               registerClientCallback(n, b, c)
        PROVE  DirectoryInv' /\ alive' = alive
    <3>1. Owner[c] \in alive
      BY Zenon, <2>5 DEF registerClientCallback
    <3>2. DirectoryInv'
      BY <1>1, <2>5, <3>1, RegisterClientKeeps, Zenon
    <3>. QED  BY Zenon, <2>5, <3>2 DEF registerClientCallback
  <2>6. ASSUME NEW n \in Name, NEW b \in Service, NEW ok \in BOOLEAN, tryUnregisterService(n, b, ok)
        PROVE  DirectoryInv' /\ alive' = alive
    <3>1. DirectoryInv'
      BY <1>1, <2>6, TryUnregisterKeeps, Zenon
    <3>2. alive' = alive
      BY Zenon, <2>6 DEF tryUnregisterService
    <3>. QED  BY Zenon, <3>1, <3>2
  <2>. QED  BY <1>1, <2>1, <2>2, <2>3, <2>4, <2>5, <2>6, Zenon DEF Client, Server
<1>. QED  BY Zenon, <1>1, <1>2, OthersKeep DEF Base, lazyVars, Lazy

LEMMA OwnBase ==
  ASSUME Base, NEW p \in Lazy, Own(p), OwnTyped(p), WorkSound(p)', alive' \subseteq alive, DirectoryInv'
  PROVE  Base'
<1>1. Lazy' = Lazy
  BY Zenon DEF Own, Lazy
<1>. QED  BY Zenon, <1>1, OwnKeeps DEF Base

LEMMA BaseNext ==
  ASSUME Base, [Next]_vars
  PROVE  Base'
<1>0. DirectoryInv /\ LazyType
  BY Zenon DEF Base
<1>1. ASSUME NEW p \in Lazy, NEW n \in Name, registerService(p, n)
      PROVE  Base'
  <2>1. /\ addService(n, Mine(p, n)) /\ Mine(p, n) \in Service /\ Owner[Mine(p, n)] \in alive
        /\ Own(p) /\ OwnTyped(p) /\ WorkSound(p)'
    BY <1>0, <1>1, RegisterStep, LazyFacts
  <2>. QED  BY Zenon, <1>0, <2>1, AddKeeps, OwnBase DEF addService
<1>2. ASSUME NEW p \in Lazy, NEW persist \in BOOLEAN, forcePersist(p, persist)
      PROVE  Base'
  <2>1. UNCHANGED smVars /\ Own(p) /\ OwnTyped(p) /\ WorkSound(p)'
    BY Zenon, <1>2, ForcePersistStep
  <2>. QED  BY Zenon, <1>0, <2>1, SameKeeps, OwnBase DEF smVars
<1>3. ASSUME NEW p \in Lazy, addClientCallback(p)
      PROVE  Base'
  <2>1. PICK n \in registers[p].names :
           /\ p \in alive
           /\ registerClientCallback(n, Mine(p, n), CounterOf[p]) \/ UNCHANGED smVars
           /\ Own(p) /\ OwnTyped(p) /\ WorkSound(p)'
    BY Zenon, <1>3, AddClientStep
  <2>2. /\ n \in Name /\ Mine(p, n) \in Service /\ CounterOf[p] \in Counter
        /\ Owner[CounterOf[p]] \in alive
    BY Zenon, <1>0, <2>1, LazyFacts
  <2>3. CASE registerClientCallback(n, Mine(p, n), CounterOf[p])
    <3>1. DirectoryInv'
      BY Zenon, <1>0, <2>2, <2>3, RegisterClientKeeps
    <3>2. alive' \subseteq alive
      BY Zenon, <2>3 DEF registerClientCallback
    <3>. QED  BY Zenon, <2>1, <3>1, <3>2, OwnBase
  <2>4. CASE UNCHANGED smVars
    BY Zenon, <1>0, <2>1, <2>4, SameKeeps, OwnBase DEF smVars
  <2>. QED  BY Zenon, <2>1, <2>3, <2>4
<1>4. ASSUME NEW p \in Lazy, onClients(p)
      PROVE  Base'
  <2>1. /\ Own(p) /\ OwnTyped(p) /\ WorkSound(p)'
        /\ UNCHANGED smVars \/ Handle(CounterOf[p])
    <3> DEFINE m == Head(inbox[CounterOf[p]])
    <3>1. /\ Own(p) /\ OwnTyped(p) /\ WorkSound(p)'
          /\ \/ UNCHANGED <<smVars, mRegisteredServices, work>>
             \/ \E n \in Name : TakesIn(p, n, m)
      BY <1>4, OnClientsStep, Zenon
    <3>. QED  BY <3>1, Zenon DEF TakesIn
  <2>2. CounterOf[p] \in Listener \cup Counter
    BY Zenon, <1>0, LazyFacts
  <2>3. CASE UNCHANGED smVars
    BY Zenon, <1>0, <2>1, <2>3, SameKeeps, OwnBase DEF smVars
  <2>4. CASE Handle(CounterOf[p])
    <3>1. DirectoryInv'
      BY Zenon, <1>0, <2>2, <2>4, HandleKeeps
    <3>2. alive' \subseteq alive
      BY Zenon, <2>4 DEF Handle
    <3>. QED  BY Zenon, <2>1, <3>1, <3>2, OwnBase
  <2>. QED  BY Zenon, <2>1, <2>3, <2>4
<1>5. ASSUME NEW p \in Lazy, tryUnregister(p)
      PROVE  Base'
  <2>1. PICK n \in registers[p].names, ok \in BOOLEAN :
          /\ tryUnregisterService(n, Mine(p, n), ok)
          /\ Own(p) /\ OwnTyped(p) /\ WorkSound(p)'
    BY Zenon, <1>5, TryUnregisterStep
  <2>2. n \in Name
    BY Zenon, <1>0, LazyFacts
  <2>. QED  BY Zenon, <1>0, <2>1, <2>2, TryUnregisterKeeps, OwnBase DEF tryUnregisterService
<1>6. ASSUME NEW p \in Lazy, exit(p)
      PROVE  Base'
  <2>1. Die(p) /\ Own(p) /\ OwnTyped(p) /\ WorkSound(p)' /\ p \in Proc
    BY Zenon, <1>0, <1>6, ExitStep, LazyFacts
  <2>. QED  BY Zenon, <1>0, <2>1, DieKeeps, OwnBase DEF Die
<1>7. ASSUME NEW p \in Lazy, reRegister(p)
      PROVE  Base'
  <2>1. PICK n \in registers[p].names :
          /\ p \in alive /\ addService(n, Mine(p, n))
          /\ Own(p) /\ OwnTyped(p) /\ WorkSound(p)'
    BY Zenon, <1>7, ReRegisterStep
  <2>2. n \in Name /\ Mine(p, n) \in Service /\ Owner[Mine(p, n)] \in alive
    BY Zenon, <1>0, <2>1, LazyFacts
  <2>. QED  BY Zenon, <1>0, <2>1, <2>2, AddKeeps, OwnBase DEF addService
<1>8. ASSUME NEW p \in Lazy, reRegistered(p)
      PROVE  Base'
  <2>1. UNCHANGED smVars /\ Own(p) /\ OwnTyped(p) /\ WorkSound(p)'
    BY Zenon, <1>8, ReRegisteredStep
  <2>. QED  BY Zenon, <1>0, <2>1, SameKeeps, OwnBase DEF smVars
<1>9. ASSUME NEW p \in Others, Uses(p)
      PROVE  Base'
  BY Zenon, <1>9, UsesKeep DEF Others
<1>10. ASSUME UNCHANGED lazyVars, alive' \subseteq alive, DirectoryInv'
       PROVE  Base'
  BY Zenon, <1>10, OthersKeep DEF Base, lazyVars, Lazy
<1>11. ASSUME NEW p \in Proc, Dies(p)
       PROVE  Base'
  BY Zenon, <1>0, <1>10, <1>11, DieKeeps DEF Dies, Die
<1>12. ASSUME NEW p \in Others, LetsGo(p)
       PROVE  Base'
  <2>1. p \in Proc /\ UNCHANGED lazyVars
    BY Zenon, <1>0, <1>12 DEF Others, DirectoryInv, DirectoryType, LetsGo
  <2>2. ASSUME NEW b \in Service, Drop(p, b) PROVE DirectoryInv' /\ alive' = alive
    <3>1. DirectoryInv'
      BY <1>0, <2>1, <2>2, DropKeeps, Zenon
    <3>2. alive' = alive
      BY Zenon, <2>2 DEF Drop
    <3>. QED  BY Zenon, <3>1, <3>2
  <2>3. ASSUME NEW o \in Listener \cup Counter, Handle(o) PROVE DirectoryInv' /\ alive' = alive
    <3>1. DirectoryInv'
      BY <1>0, <2>3, HandleKeeps, Zenon
    <3>2. alive' = alive
      BY Zenon, <2>3 DEF Handle
    <3>. QED  BY Zenon, <3>1, <3>2
  <2>. QED  BY Zenon, <1>10, <1>12, <2>1, <2>2, <2>3 DEF LetsGo
<1>13. CASE Started
  BY Zenon, <1>0, <1>10, <1>13, StartKeeps DEF Started, interfaceStart
<1>14. CASE Tick
  <2>1. ASSUME NEW n \in Name, handleServiceClientCallback(n) PROVE DirectoryInv' /\ alive' = alive
    <3>1. DirectoryInv'
      BY <1>0, <2>1, CheckKeeps, Zenon
    <3>2. alive' = alive
      BY Zenon, <2>1 DEF handleServiceClientCallback
    <3>. QED  BY Zenon, <3>1, <3>2
  <2>2. ASSUME handleClientCallbacks PROVE DirectoryInv' /\ alive' = alive
    <3>1. DirectoryInv'
      BY <1>0, <2>2, PassKeeps, Zenon
    <3>2. alive' = alive
      BY Zenon, <2>2 DEF handleClientCallbacks
    <3>. QED  BY Zenon, <3>1, <3>2
  <2>. QED  BY Zenon, <1>10, <1>14, <2>1, <2>2 DEF Tick
<1>15. CASE Obituary
  BY Zenon, <1>0, <1>10, <1>15, DiedKeeps DEF Obituary, binderDied
<1>16. CASE UNCHANGED vars
  BY Zenon, <1>0, <1>10, <1>16, SameKeeps DEF vars, smVars
<1>. QED
  BY <1>1, <1>2, <1>3, <1>4, <1>5, <1>6, <1>7, <1>8, <1>9, <1>11, <1>12, <1>13, <1>14, <1>15, <1>16, Zenon
  DEF Next, LazySteps

LEMMA SpecBase == Spec => []Base
<1>1. Base /\ [Next]_vars => Base'
  BY Zenon, BaseNext
<1>. QED  BY <1>1, BaseInit, PTL DEF Spec

(* An object of a dead process is only found while its obituary is under     *)
(* way: binderDied removes it wherever it was registered.                    *)
THEOREM DeadForgotten == Spec => []DeadAreForgotten
<1>1. Base => DeadAreForgotten
  BY Zenon DEF Base, DirectoryInv
<1>. QED  BY <1>1, SpecBase, PTL

(* The CHECKs of sendClientCallbackNotifications hold, whoever registers     *)
(* what.                                                                     *)
THEOREM ChecksNeverFail == Spec => []ClientChecksHold
<1>1. Base => ClientChecksHold
  BY Zenon DEF Base, DirectoryInv, ChecksPass, ClientChecksHold
<1>. QED  BY <1>1, SpecBase, PTL

----------------------------------------------------------------------------
(* What a step of another process leaves alone of what a lazy process p      *)
(* counts on: its entries, its callbacks, and that no client gets hold of a  *)
(* service of p but by finding it.                                           *)
Spares(p) ==
  /\ alive' \subseteq alive
  /\ \A n \in Name : p \in alive' /\ Known(n) /\ Owner[mNameToService[n].binder] = p
                     => Known(n)' /\ mNameToService'[n].binder = mNameToService[n].binder
  /\ \A n \in Name : Known(n)' /\ Owner[mNameToService'[n].binder] = p
                     => Known(n) /\ mNameToService'[n].binder = mNameToService[n].binder
  /\ \A b \in Service : Owner[b] = p /\ holders'[b] # {}
                        => \/ holders[b] # {}
                           \/ \E n \in Name : Known(n) /\ mNameToService[n].binder = b
  /\ p \in alive' => \A n \in Name, c \in Counter :
                       Owner[c] = p => mNameToClientCallback'[n][c] = mNameToClientCallback[n][c]

(* Nor is it told anything.                                                  *)
Quiet(p) ==
  p \in alive' =>
    /\ inbox'[CounterOf[p]] = inbox[CounterOf[p]]
    /\ \A n \in Name : Known(n) /\ Owner[mNameToService[n].binder] = p
                       => mNameToService'[n].hasClients = mNameToService[n].hasClients

Idle(p) == /\ registers' = registers
           /\ work'[p] = work[p] /\ mRegisteredServices'[p] = mRegisteredServices[p]

LEMMA OwnFound ==
  ASSUME Base, NEW p \in Lazy, Sound(p), p \in alive, NEW n \in Name,
         Registering(p, n) \/ (Has(p, n) /\ mRegisteredServices[p][n].registered)
  PROVE  /\ n \in registers[p].names /\ Found(p, n) /\ Known(n)
         /\ mNameToService[n].binder = Mine(p, n) /\ Owner[mNameToService[n].binder] = p
         /\ p \in CanAdd[n]
<1>1. n \in registers[p].names
  BY Zenon DEF Sound, MapSound, WorkSound, Registering
<1>2. Found(p, n)
  BY Zenon DEF Sound, MapSound
<1>3. Owner[Mine(p, n)] = p
  BY Zenon, <1>1, LazyFacts DEF Base
<1>4. p \in CanAdd[n]
  BY Zenon, <1>2, <1>3 DEF Base, DirectoryInv, Admitted, Found
<1>. QED  BY Zenon, <1>1, <1>2, <1>3, <1>4 DEF Found

LEMMA FrameSound ==
  ASSUME Base, NEW p \in Lazy, Sound(p), Spares(p), Idle(p)
  PROVE  /\ MapSound(p)' /\ FoundSound(p)' /\ UseSound(p)'
         /\ Quiet(p) => CallbackSound(p)' /\ NewsSound(p)'
<1>1. /\ \A n \in Name : /\ Registering(p, n)' <=> Registering(p, n)
                         /\ Has(p, n)' <=> Has(p, n)
                         /\ mRegisteredServices'[p][n] = mRegisteredServices[p][n]
      /\ Ending(p)' <=> Ending(p)
      /\ work'[p] = work[p] /\ registers' = registers
  BY Zenon DEF Idle, Registering, Has, Ending
<1>2. ASSUME NEW n \in Name, p \in alive',
             Registering(p, n) \/ (Has(p, n) /\ mRegisteredServices[p][n].registered)
      PROVE  /\ Found(p, n)'
             /\ Quiet(p) => mNameToService'[n].hasClients = mNameToService[n].hasClients
  <2>1. p \in alive
    BY Zenon, <1>2 DEF Spares
  <2>2. /\ Known(n) /\ mNameToService[n].binder = Mine(p, n) /\ Owner[mNameToService[n].binder] = p
    BY <1>2, <2>1, OwnFound, Zenon
  <2>. QED  BY Zenon, <1>2, <2>2 DEF Spares, Quiet, Found, Mine
<1>3. MapSound(p)'
  <2>1. p \in alive' => \A n \in Name :
          Registering(p, n)' \/ (Has(p, n)' /\ mRegisteredServices'[p][n].registered) => Found(p, n)'
    BY Zenon, <1>1, <1>2
  <2>2. MapSound(p)
    BY Zenon DEF Sound
  <2>. QED  BY Zenon, <1>1, <2>1, <2>2 DEF MapSound, Mine
<1>4. FoundSound(p)'
  <2> SUFFICES ASSUME NEW n \in Name, Known(n)', Owner[mNameToService'[n].binder] = p
               PROVE  /\ Found(p, n)'
                      /\ Registering(p, n)' \/ (Has(p, n)' /\ mRegisteredServices'[p][n].registered)
    BY Zenon DEF FoundSound
  <2>1. Known(n) /\ mNameToService'[n].binder = mNameToService[n].binder
    BY Zenon DEF Spares
  <2>2. Found(p, n) /\ (Registering(p, n) \/ (Has(p, n) /\ mRegisteredServices[p][n].registered))
    BY Zenon, <2>1 DEF Sound, FoundSound
  <2>. QED  BY Zenon, <1>1, <2>1, <2>2 DEF Found, Mine
<1>5. UseSound(p)'
  <2> SUFFICES ASSUME NEW b \in Service, Owner[b] = p, holders'[b] # {}
               PROVE  \E n \in Name :
                        /\ Mine(p, n) = b
                        /\ Registering(p, n)' \/ (Has(p, n)' /\ (Ending(p)' => n \in work'[p].todo))
    BY Zenon DEF UseSound, Mine
  <2>1. CASE holders[b] # {}
    BY Zenon, <1>1, <2>1 DEF Sound, UseSound
  <2>2. ASSUME NEW n \in Name, Known(n), mNameToService[n].binder = b
        PROVE  /\ Mine(p, n) = b
               /\ Registering(p, n) \/ (Has(p, n) /\ (Ending(p) => n \in work[p].todo))
    <3>1. Found(p, n) /\ (Registering(p, n) \/ (Has(p, n) /\ mRegisteredServices[p][n].registered))
      BY Zenon, <2>2 DEF Sound, FoundSound
    <3>. QED  BY Zenon, <2>2, <3>1 DEF Found, Sound, MapSound
  <2>. QED  BY Zenon, <1>1, <2>1, <2>2 DEF Spares
<1>6. ASSUME Quiet(p) PROVE CallbackSound(p)'
  <2> SUFFICES ASSUME p \in alive', NEW n \in Name
               PROVE  /\ mNameToClientCallback'[n][CounterOf[p]] = IF Has(p, n)' THEN 1 ELSE 0
                      /\ \A c \in Counter : Owner[c] = p /\ c # CounterOf[p]
                                            => mNameToClientCallback'[n][c] = 0
                      /\ Registering(p, n)' => ~mNameToService'[n].hasClients
    BY Zenon DEF CallbackSound
  <2>1. p \in alive /\ CallbackSound(p)
    BY Zenon DEF Spares, Sound
  <2>2. CounterOf[p] \in Counter /\ Owner[CounterOf[p]] = p
    BY Zenon, LazyFacts DEF Base
  <2>3. \A c \in Counter : Owner[c] = p => mNameToClientCallback'[n][c] = mNameToClientCallback[n][c]
    BY Zenon DEF Spares
  <2>4. Registering(p, n)' => ~mNameToService'[n].hasClients
    BY Zenon, <1>1, <1>2, <1>6, <2>1 DEF CallbackSound
  <2>. QED  BY Zenon, <1>1, <2>1, <2>2, <2>3, <2>4 DEF CallbackSound
<1>7. ASSUME Quiet(p) PROVE NewsSound(p)'
  <2> SUFFICES ASSUME p \in alive', NEW n \in Name, registers[p].names = {n}
               PROVE  /\ work'[p].at = "reRegistering" => work'[p].todo = {}
                      /\ ~Has(p, n)' => inbox'[CounterOf[p]] = <<>>
                      /\ Has(p, n)' /\ mRegisteredServices'[p][n].registered
                         => Tells(inbox'[CounterOf[p]], Mine(p, n), mRegisteredServices'[p][n].clients,
                                  mNameToService'[n].hasClients)
    BY <1>1, Zenon DEF NewsSound, Tells, Mine
  <2>1. p \in alive /\ NewsSound(p) /\ inbox'[CounterOf[p]] = inbox[CounterOf[p]]
    BY Zenon, <1>7 DEF Spares, Sound, Quiet
  <2>2. ASSUME Has(p, n), mRegisteredServices[p][n].registered
        PROVE  mNameToService'[n].hasClients = mNameToService[n].hasClients
    BY Zenon, <1>2, <1>7, <2>2
  <2>. QED  BY <1>1, <2>1, <2>2, Zenon DEF NewsSound
<1>. QED  BY Zenon, <1>3, <1>4, <1>5, <1>6, <1>7

----------------------------------------------------------------------------
(* The calls of others spare a lazy process, if nobody else may register     *)
(* what it registers.                                                        *)

(* Steps after which the directory has no entry it did not have.             *)
LEMMA SameSpares ==
  ASSUME NEW p, alive' = alive, UNCHANGED mNameToClientCallback,
         \A n \in Name : /\ Known(n)' <=> Known(n)
                         /\ Known(n) => /\ mNameToService'[n].binder = mNameToService[n].binder
                                        /\ mNameToService'[n].hasClients = mNameToService[n].hasClients,
         \A b \in Service : \/ holders'[b] \subseteq holders[b]
                            \/ \E n \in Name : Known(n) /\ mNameToService[n].binder = b,
         inbox'[CounterOf[p]] = inbox[CounterOf[p]]
  PROVE  Spares(p) /\ Quiet(p)
  BY Zenon DEF Spares, Quiet

LEMMA GetSpares ==
  ASSUME Base, NEW p \in Lazy, NEW q \in Proc, NEW n \in Name, NEW start, tryGetService(q, n, start)
  PROVE  Spares(p) /\ Quiet(p)
<1>1. DirectoryType
  BY Zenon DEF Base, DirectoryInv
<1>2. UNCHANGED <<alive, mNameToClientCallback, inbox>>
  BY Zenon DEF tryGetService, callbacks
<1>3. \A m \in Name : /\ Known(m)' <=> Known(m)
                      /\ Known(m) => /\ mNameToService'[m].binder = mNameToService[m].binder
                                     /\ mNameToService'[m].hasClients = mNameToService[m].hasClients
  BY <1>1, GuaranteedFacts DEF tryGetService, Known
<1>4. \A b \in Service : \/ holders'[b] = holders[b]
                         \/ Known(n) /\ mNameToService[n].binder = b
  <2>1. Known(n) => mNameToService[n].binder \in Service
    BY Zenon, <1>1 DEF Known, DirectoryType, Entries
  <2>. QED  BY <1>1, <2>1, HandedFacts DEF tryGetService
<1>. QED  BY Zenon, <1>2, <1>3, <1>4, SameSpares

LEMMA RegisterForSpares ==
  ASSUME Base, NEW p \in Lazy, NEW n \in Name, NEW l \in Listener, registerForNotifications(n, l)
  PROVE  Spares(p) /\ Quiet(p)
<1>1. CounterOf[p] \in Counter /\ DirectoryInv
  BY Zenon, LazyFacts DEF Base
<1>2. /\ UNCHANGED <<mNameToService, mNameToClientCallback, alive>>
      /\ inbox'[CounterOf[p]] = inbox[CounterOf[p]]
      /\ \A x \in Service : \/ holders'[x] = holders[x]
                            \/ Known(n) /\ x = mNameToService[n].binder
  BY Zenon, <1>1, RegisterForFacts
<1>. QED  BY Zenon, <1>2, SameSpares DEF Known

LEMMA UnregisterForSpares ==
  ASSUME NEW p \in Lazy, NEW n \in Name, NEW l \in Listener, unregisterForNotifications(n, l)
  PROVE  Spares(p) /\ Quiet(p)
<1>1. UNCHANGED <<mNameToService, mNameToClientCallback, inbox, holders, alive>>
  BY Zenon DEF unregisterForNotifications
<1>. QED  BY Zenon, <1>1, SameSpares DEF Known

LEMMA AddSpares ==
  ASSUME Base, Uncontended, NEW p \in Lazy, NEW n \in Name, NEW b \in Service, Owner[b] # p,
         addService(n, b)
  PROVE  Spares(p) /\ Quiet(p)
<1>1. CounterOf[p] \in Counter /\ DirectoryInv
  BY Zenon, LazyFacts DEF Base
<1>2. /\ Owner[b] \in CanAdd[n]
      /\ \A m \in Name : m # n => mNameToService'[m] = mNameToService[m]
      /\ Known(n)' /\ mNameToService'[n].binder = b
      /\ inbox'[CounterOf[p]] = inbox[CounterOf[p]]
      /\ \A x \in Service : x # b => holders'[x] = holders[x]
      /\ UNCHANGED <<mNameToClientCallback, alive>>
  BY Zenon, <1>1, AddFacts DEF callbacks
<1>3. \A m \in Name : Known(m) /\ Owner[mNameToService[m].binder] = p => m # n
  BY <1>1, <1>2 DEF DirectoryInv, Admitted, Uncontended
<1>4. /\ \A m \in Name : Known(m) /\ Owner[mNameToService[m].binder] = p
                         => Known(m)' /\ mNameToService'[m] = mNameToService[m]
      /\ \A m \in Name : Known(m)' /\ Owner[mNameToService'[m].binder] = p
                         => Known(m) /\ mNameToService'[m].binder = mNameToService[m].binder
  BY Zenon, <1>2, <1>3 DEF Known
<1>. QED  BY Zenon, <1>2, <1>4 DEF Spares, Quiet

LEMMA RegisterClientSpares ==
  ASSUME Base, NEW p \in Lazy, NEW n \in Name, NEW b \in Service, NEW c \in Counter, Owner[c] # p,
         registerClientCallback(n, b, c)
  PROVE  Spares(p) /\ Quiet(p)
<1>1. /\ \A m \in Name, o \in Counter : Owner[o] = p =>
           mNameToClientCallback'[m][o] = mNameToClientCallback[m][o]
      /\ UNCHANGED <<mNameToService, inbox, holders, alive>>
  BY RegisterClientFacts DEF Base
<1>. QED  BY Zenon, <1>1 DEF Spares, Quiet, Known

LEMMA TryUnregisterFacts ==
  ASSUME Base, NEW n \in Name, NEW b, NEW ok, tryUnregisterService(n, b, ok)
  PROVE  /\ \A m \in Name : m # n => mNameToService'[m] = mNameToService[m]
         /\ UNCHANGED <<mNameToClientCallback, inbox, holders, alive>>
         /\ IF ok THEN Known(n) /\ mNameToService[n].binder = b /\ Unregisterable(n) /\ ~Known(n)'
            ELSE /\ Known(n)' <=> Known(n)
                 /\ Known(n) => /\ mNameToService'[n].binder = mNameToService[n].binder
                                /\ mNameToService'[n].hasClients = mNameToService[n].hasClients
<1>1. DirectoryType
  BY Zenon DEF Base, DirectoryInv
<1>2. UNCHANGED <<mNameToClientCallback, inbox, holders, alive>>
  BY Zenon DEF tryUnregisterService, callbacks
<1>3. \/ ~ok /\ mNameToService' = mNameToService
      \/ /\ ok /\ Known(n) /\ mNameToService[n].binder = b /\ Unregisterable(n)
         /\ mNameToService' = [mNameToService EXCEPT ![n] = NoService]
      \/ ~ok /\ Known(n) /\ mNameToService' = Guaranteed(n)
  BY Zenon DEF tryUnregisterService
<1>4. CASE ~ok /\ mNameToService' = mNameToService
  BY Zenon, <1>2, <1>4 DEF Known
<1>5. CASE /\ ok /\ Known(n) /\ mNameToService[n].binder = b /\ Unregisterable(n)
           /\ mNameToService' = [mNameToService EXCEPT ![n] = NoService]
  BY Zenon, <1>1, <1>2, <1>5 DEF Known, DirectoryType
<1>6. CASE ~ok /\ Known(n) /\ mNameToService' = Guaranteed(n)
  <2>1. \A m \in Name : m # n => mNameToService'[m] = mNameToService[m]
    BY Zenon, <1>1, <1>6 DEF Guaranteed, DirectoryType
  <2>2. /\ Known(n)' <=> Known(n)
        /\ mNameToService'[n].binder = mNameToService[n].binder
        /\ mNameToService'[n].hasClients = mNameToService[n].hasClients
    BY Zenon, <1>1, <1>6, GuaranteedFacts DEF Known
  <2>. QED  BY Zenon, <1>2, <1>6, <2>1, <2>2
<1>. QED  BY Zenon, <1>3, <1>4, <1>5, <1>6

LEMMA TryUnregisterSpares ==
  ASSUME Base, NEW p \in Lazy, NEW n \in Name, NEW b \in Service, Owner[b] # p, NEW ok,
         tryUnregisterService(n, b, ok)
  PROVE  Spares(p) /\ Quiet(p)
<1>1. /\ \A m \in Name : m # n => mNameToService'[m] = mNameToService[m]
      /\ UNCHANGED <<mNameToClientCallback, inbox, holders, alive>>
      /\ \/ Known(n) /\ mNameToService[n].binder = b /\ ~Known(n)'
         \/ /\ Known(n)' <=> Known(n)
            /\ Known(n) => /\ mNameToService'[n].binder = mNameToService[n].binder
                           /\ mNameToService'[n].hasClients = mNameToService[n].hasClients
  BY Zenon, TryUnregisterFacts
<1>2. \A m \in Name : m # n => (Known(m)' <=> Known(m))
  BY Zenon, <1>1 DEF Known
<1>. QED  BY Zenon, <1>1, <1>2 DEF Spares, Quiet

LEMMA DieSpares ==
  ASSUME Base, NEW p \in Lazy, NEW q, Die(q)
  PROVE  Spares(p) /\ Quiet(p)
<1>1. /\ alive' = alive \ {q}
      /\ holders' = [b \in Service |-> holders[b] \ {q}]
      /\ inbox' = [o \in DOMAIN inbox |-> IF Owner[o] = q THEN <<>> ELSE inbox[o]]
      /\ UNCHANGED <<mNameToService, mNameToClientCallback>>
  BY Zenon DEF Die, callbacks
<1>2. CounterOf[p] \in DOMAIN inbox /\ Owner[CounterOf[p]] = p
  BY Zenon, LazyFacts DEF Base, DirectoryInv, DirectoryType
<1>3. Quiet(p)
  BY Zenon, <1>1, <1>2 DEF Quiet
<1>4. Spares(p)
  BY Zenon, <1>1 DEF Spares, Known
<1>. QED  BY Zenon, <1>3, <1>4

LEMMA DiedSpares ==
  ASSUME Base, NEW p \in Lazy, NEW who, binderDied(who)
  PROVE  Spares(p) /\ Quiet(p)
<1>1. /\ Owner[who] \notin alive
      /\ \A m \in Name : IF Known(m) /\ mNameToService[m].binder = who THEN ~Known(m)'
                         ELSE mNameToService'[m] = mNameToService[m]
      /\ \A m \in Name, c \in Counter :
           mNameToClientCallback'[m][c] = IF c = who THEN 0 ELSE mNameToClientCallback[m][c]
      /\ UNCHANGED <<inbox, holders, alive>>
  BY DiedFacts DEF Base
<1>2. Quiet(p)
  BY Zenon, <1>1 DEF Quiet
<1>3. Spares(p)
  BY Zenon, <1>1 DEF Spares, Known
<1>. QED  BY Zenon, <1>2, <1>3

LEMMA HandleSpares ==
  ASSUME Base, NEW p \in Lazy, NEW o \in Listener \cup Counter, Owner[o] # p, Handle(o)
  PROVE  Spares(p) /\ Quiet(p)
<1>1. /\ inbox' = [inbox EXCEPT ![o] = Tail(@)]
      /\ UNCHANGED <<mNameToService, mNameToClientCallback, holders, alive>>
  BY Zenon DEF Handle, callbacks
<1>2. inbox'[CounterOf[p]] = inbox[CounterOf[p]]
  BY <1>1, LazyFacts DEF Base
<1>. QED  BY Zenon, <1>1, <1>2, SameSpares DEF Known

LEMMA DropSpares ==
  ASSUME Base, NEW p \in Lazy, NEW q, NEW b \in Service, Drop(q, b)
  PROVE  Spares(p) /\ Quiet(p)
<1>1. /\ holders' = [holders EXCEPT ![b] = @ \ {q}]
      /\ UNCHANGED <<mNameToService, mNameToClientCallback, inbox, alive>>
  BY Zenon DEF Drop, callbacks
<1>2. \A x \in Service : holders'[x] \subseteq holders[x]
  BY Zenon, <1>1 DEF Base, DirectoryInv, DirectoryType
<1>. QED  BY Zenon, <1>1, <1>2, SameSpares DEF Known

LEMMA NothingSpares ==
  ASSUME NEW p, UNCHANGED <<mNameToService, mNameToClientCallback, inbox, holders, alive>>
  PROVE  Spares(p) /\ Quiet(p)
  BY Zenon, SameSpares DEF Known

----------------------------------------------------------------------------
(* News, one after the other.                                                *)

LEMMA TellsNone ==
  ASSUME NEW b, NEW x PROVE Tells(<<>>, b, x, x)
  BY DEF Tells

LEMMA TellsAppend ==
  ASSUME NEW q \in Seq(News), NEW b \in Service, NEW from, NEW to, NEW x \in BOOLEAN, x # to,
         Tells(q, b, from, to)
  PROVE  Tells(Append(q, OnClients(b, x)), b, from, x)
<1> DEFINE m == OnClients(b, x)
           r == Append(q, m)
<1>1. m \in News /\ m.binder = b /\ m.clients = x
  BY Zenon DEF OnClients, News
<1> HIDE DEF m
<1>2. /\ Len(q) \in Nat /\ Len(r) = Len(q) + 1 /\ r # <<>> /\ r[Len(r)] = m
      /\ \A i \in 1..Len(q) : r[i] = q[i]
  BY <1>1
<1>3. q = <<>> <=> Len(q) = 0
  OBVIOUS
<1> HIDE DEF r
<1>4. ASSUME NEW i \in 1..Len(r)
      PROVE  r[i].binder = b /\ r[i].clients # (IF i = 1 THEN from ELSE r[i - 1].clients)
  <2>1. CASE i \in 1..Len(q)
    <3>1. q[i].binder = b /\ q[i].clients # (IF i = 1 THEN from ELSE q[i - 1].clients)
      BY Zenon, <2>1 DEF Tells
    <3>2. r[i] = q[i] /\ (i # 1 => r[i - 1] = q[i - 1])
      BY <1>2, <2>1
    <3>. QED  BY Zenon, <3>1, <3>2
  <2>2. CASE i = Len(q) + 1
    <3>1. r[i].binder = b /\ r[i].clients = x
      BY Zenon, <1>1, <1>2, <2>2
    <3>2. CASE Len(q) = 0
      BY <1>2, <1>3, <2>2, <3>1, <3>2 DEF Tells
    <3>3. CASE Len(q) # 0
      <4>1. i # 1 /\ r[i - 1] = q[Len(q)] /\ q # <<>>
        BY <1>2, <1>3, <2>2, <3>3
      <4>2. q[Len(q)].clients = to
        BY Zenon, <4>1 DEF Tells
      <4>. QED  BY Zenon, <3>1, <4>1, <4>2
    <3>. QED  BY Zenon, <3>2, <3>3
  <2>. QED  BY <1>2, <2>1, <2>2
<1>. QED  BY Zenon, <1>1, <1>2, <1>4 DEF Tells, r, m

LEMMA TellsTail ==
  ASSUME NEW q \in Seq(News), q # <<>>, NEW b, NEW from, NEW to, Tells(q, b, from, to)
  PROVE  /\ Head(q).binder = b /\ Head(q).clients # from
         /\ Tells(Tail(q), b, Head(q).clients, to)
<1> DEFINE r == Tail(q)
<1>1. /\ Len(q) \in Nat /\ Len(q) > 0 /\ Head(q) = q[1] /\ Len(r) = Len(q) - 1
      /\ \A i \in 1..Len(r) : r[i] = q[i + 1]
      /\ r = <<>> <=> Len(r) = 0
  <2>1. Len(q) \in Nat /\ Len(q) > 0 /\ Head(q) = q[1]
    OBVIOUS
  <2>2. r \in Seq(News) /\ Len(r) = Len(q) - 1 /\ \A i \in 1..Len(r) : r[i] = q[i + 1]
    BY <2>1
  <2> HIDE DEF r
  <2>3. r = <<>> <=> Len(r) = 0
    BY <2>2
  <2>. QED  BY Zenon, <2>1, <2>2, <2>3
<1> HIDE DEF r
<1>2. q[1].binder = b /\ q[1].clients # from
  BY <1>1 DEF Tells
<1>3. ASSUME NEW i \in 1..Len(r)
      PROVE  r[i].binder = b /\ r[i].clients # (IF i = 1 THEN q[1].clients ELSE r[i - 1].clients)
  <2>1. i + 1 \in 1..Len(q) /\ i + 1 # 1 /\ (i + 1) - 1 = i
    BY <1>1
  <2>2. q[i + 1].binder = b /\ q[i + 1].clients # q[i].clients
    BY Zenon, <2>1 DEF Tells
  <2>3. r[i] = q[i + 1] /\ (i # 1 => r[i - 1] = q[i])
    BY <1>1
  <2>. QED  BY Zenon, <2>2, <2>3
<1>4. to = IF r = <<>> THEN q[1].clients ELSE r[Len(r)].clients
  <2>1. to = q[Len(q)].clients
    BY Zenon DEF Tells
  <2>. QED  BY <1>1, <2>1
<1>. QED  BY Zenon, <1>1, <1>2, <1>3, <1>4 DEF Tells, r

----------------------------------------------------------------------------
(* The step of the pass for one name.  If the entry is a lazy process's, it  *)
(* is the process that is told; otherwise it is spared.                      *)
LEMMA CheckSound ==
  ASSUME Base, Uncontended, NEW p \in Lazy, Sound(p), NEW n \in Name, handleServiceClientCallback(n),
         Idle(p)
  PROVE  MapSound(p)' /\ FoundSound(p)' /\ UseSound(p)' /\ CallbackSound(p)' /\ NewsSound(p)'
<1> DEFINE e == mNameToService[n]
           b == e.binder
           has == Count(b) > 1
           c == CounterOf[p]
           q == inbox[c]
<1>1. DirectoryInv /\ DirectoryType /\ LazyType /\ c \in Counter /\ Owner[c] = p
  BY Zenon, LazyFacts DEF Base, DirectoryInv
<1>2. /\ Watched(n) /\ e \in Entries /\ has \in BOOLEAN
      /\ mNameToService' = [mNameToService EXCEPT ![n] = Ent(b, has, No)]
      /\ e.hasClients # has => inbox' = Sent(inbox, n, b, has)
      /\ ~e.hasClients /\ ~has /\ e.guaranteeClient => inbox' = Sent(Sent(inbox, n, b, Yes), n, b, has)
      /\ e.hasClients = has /\ ~(~e.hasClients /\ ~has /\ e.guaranteeClient) => inbox' = inbox
      /\ UNCHANGED <<callbacks, holders, alive>>
      /\ Ent(b, has, No) \in Entries
  BY <1>1, CheckFacts, Zenon
<1> HIDE DEF has
<1>3. b \in Service /\ e.hasClients \in BOOLEAN /\ Known(n) /\ mNameToClientCallback[n] \in [Counter -> Nat]
  BY Zenon, <1>1, <1>2 DEF Entries, Watched, DirectoryType
<1>4. Ent(b, has, No).binder = b /\ Ent(b, has, No).hasClients = has /\ Ent(b, has, No) # NoService
  <2>1. Ent(b, has, No) # NoService
    BY Zenon, <1>2, NoRecord DEF Entries
  <2>. QED  BY Zenon, <2>1 DEF Ent
<1>5. /\ mNameToService'[n] = Ent(b, has, No)
      /\ \A m \in Name : m # n => mNameToService'[m] = mNameToService[m]
  BY Zenon, <1>1, <1>2 DEF DirectoryType
<1>6. /\ \A m \in Name : /\ Known(m)' <=> Known(m)
                         /\ Known(m) => mNameToService'[m].binder = mNameToService[m].binder
      /\ mNameToService'[n].hasClients = has
      /\ UNCHANGED <<mNameToClientCallback, holders, alive>>
  BY Zenon, <1>2, <1>3, <1>4, <1>5 DEF Known, callbacks
<1>7. Spares(p)
  BY Zenon, <1>6 DEF Spares
<1>8. MapSound(p)' /\ FoundSound(p)' /\ UseSound(p)' /\ (Quiet(p) => CallbackSound(p)' /\ NewsSound(p)')
  BY Zenon, <1>7, FrameSound
<1>9. CASE p \notin alive
  BY Zenon, <1>6, <1>8, <1>9 DEF Quiet
<1>10. PICK k \in Counter : k \in Listed(mNameToClientCallback[n]) /\ Owner[k] \in CanAdd[n]
  BY Zenon, <1>1, <1>2, <1>3, ListedIn DEF Watched, DirectoryInv, Admitted
<1>11. Owner[b] \in CanAdd[n] /\ Owner[b] = Owner[k]
  BY <1>1, <1>3, <1>10 DEF DirectoryInv, Admitted, Uncontended
<1>12. Boxes(inbox) /\ q \in Seq(News)
  BY Zenon, <1>1 DEF DirectoryType, Boxes
<1>13. Yes \in BOOLEAN /\ (has # Yes <=> ~has) /\ (e.hasClients # Yes <=> ~e.hasClients)
  BY <1>2, <1>3, Zenon DEF Yes
<1>14. CASE p \in alive /\ Owner[b] # p
  <2>1. mNameToClientCallback[n][c] = 0
    <3>1. ~Has(p, n)
      BY Zenon, <1>11, <1>14 DEF Sound, MapSound, Uncontended
    <3>. QED  BY Zenon, <1>14, <3>1 DEF Sound, CallbackSound
  <2>2. inbox'[c] = inbox[c]
    <3>1. ASSUME NEW box, Boxes(box), NEW x \in BOOLEAN
          PROVE  Boxes(Sent(box, n, b, x)) /\ Sent(box, n, b, x)[c] = box[c]
      <4>1. Boxes(Sent(box, n, b, x))
        BY <1>1, <1>3, <3>1, SentBoxes, Zenon
      <4>2. Sent(box, n, b, x)[c] = box[c]
        BY <1>1, <2>1, <3>1, SentNot
      <4>. QED  BY Zenon, <4>1, <4>2
    <3>2. Sent(inbox, n, b, has)[c] = inbox[c]
      BY <1>2, <1>12, <3>1
    <3>3. Sent(Sent(inbox, n, b, Yes), n, b, has)[c] = inbox[c]
      BY <1>2, <1>12, <1>13, <3>1, Zenon
    <3>. QED  BY <1>2, <3>2, <3>3, Zenon
  <2>3. Quiet(p)
    BY Zenon, <1>5, <1>14, <2>2 DEF Quiet
  <2>. QED  BY Zenon, <1>8, <2>3
<1>15. CASE p \in alive /\ Owner[b] = p
  <2>1. Found(p, n) /\ (Registering(p, n) \/ (Has(p, n) /\ mRegisteredServices[p][n].registered))
    BY Zenon, <1>3, <1>15 DEF Sound, FoundSound
  <2>2. k = c /\ mNameToClientCallback[n][c] # 0
    <3>1. mNameToClientCallback[n][k] > 0
      BY Zenon, <1>3, <1>10, ListedIn
    <3>2. CallbackSound(p) /\ Owner[k] = p
      BY Zenon, <1>11, <1>15 DEF Sound
    <3>3. k # c => mNameToClientCallback[n][k] = 0
      BY Zenon, <1>15, <3>2 DEF CallbackSound
    <3>. QED  BY <3>1, <3>3
  <2>3. Has(p, n) /\ mNameToClientCallback[n][c] = 1
    BY Zenon, <1>15, <2>2 DEF Sound, CallbackSound
  <2>4. ~Registering(p, n) /\ mRegisteredServices[p][n].registered /\ n \in registers[p].names
        /\ b = Mine(p, n)
    BY Zenon, <2>1, <2>3 DEF Sound, WorkSound, Registering, MapSound, Found
  <2>5. CallbackSound(p)'
    <3> SUFFICES ASSUME NEW m \in Name
                 PROVE  /\ mNameToClientCallback'[m][c] = IF Has(p, m)' THEN 1 ELSE 0
                        /\ \A x \in Counter : Owner[x] = p /\ x # c => mNameToClientCallback'[m][x] = 0
                        /\ Registering(p, m)' => ~mNameToService'[m].hasClients
      BY Zenon DEF CallbackSound
    <3>1. /\ Has(p, m)' <=> Has(p, m)
          /\ Registering(p, m)' <=> Registering(p, m)
      BY Zenon DEF Idle, Has, Registering
    <3>2. Registering(p, m) => m # n
      BY Zenon, <2>4
    <3>. QED  BY Zenon, <1>5, <1>6, <1>15, <3>1, <3>2 DEF Sound, CallbackSound
  <2>6. NewsSound(p)'
    <3> SUFFICES ASSUME NEW m \in Name, registers[p].names = {m}
                 PROVE  /\ work'[p].at = "reRegistering" => work'[p].todo = {}
                        /\ ~Has(p, m)' => inbox'[c] = <<>>
                        /\ Has(p, m)' /\ mRegisteredServices'[p][m].registered
                           => Tells(inbox'[c], Mine(p, m), mRegisteredServices'[p][m].clients,
                                    mNameToService'[m].hasClients)
      BY Zenon DEF NewsSound, Tells, Mine, Idle
    <3>1. m = n
      BY Zenon, <2>4
    <3>2. /\ Has(p, n)' /\ mRegisteredServices'[p] = mRegisteredServices[p] /\ work'[p] = work[p]
      BY Zenon, <2>3 DEF Idle, Has
    <3>3. /\ work[p].at = "reRegistering" => work[p].todo = {}
          /\ Tells(q, b, mRegisteredServices[p][n].clients, e.hasClients)
      BY Zenon, <1>15, <2>3, <2>4, <3>1 DEF Sound, NewsSound
    <3>4. ASSUME NEW box, Boxes(box), NEW x \in BOOLEAN
          PROVE  /\ Boxes(Sent(box, n, b, x))
                 /\ Sent(box, n, b, x)[c] = Append(box[c], OnClients(b, x))
      <4>1. Boxes(Sent(box, n, b, x))
        BY <1>1, <1>3, <3>4, SentBoxes, Zenon
      <4>2. Sent(box, n, b, x)[c] = Append(box[c], OnClients(b, x))
        BY <1>1, <1>3, <1>15, <2>3, <3>4, SentOnce
      <4>. QED  BY Zenon, <4>1, <4>2
    <3>5. Tells(inbox'[c], b, mRegisteredServices[p][n].clients, has)
      <4>1. CASE e.hasClients # has
        <5>1. inbox'[c] = Append(q, OnClients(b, has))
          BY <1>2, <1>12, <3>4, <4>1, Zenon
        <5>2. q \in Seq(News) /\ b \in Service /\ has \in BOOLEAN /\ has # e.hasClients
          BY Zenon, <1>1, <1>2, <1>3, <1>12, <4>1
        <5>3. Tells(Append(q, OnClients(b, has)), b, mRegisteredServices[p][n].clients, has)
          BY Zenon, <3>3, <5>2, TellsAppend
        <5>. QED  BY Zenon, <5>1, <5>3
      <4>2. CASE ~e.hasClients /\ ~has /\ e.guaranteeClient
        <5> DEFINE box == Sent(inbox, n, b, Yes)
        <5>1. Boxes(box) /\ box[c] = Append(q, OnClients(b, Yes))
          BY <1>12, <1>13, <3>4, Zenon
        <5>2. Tells(box[c], b, mRegisteredServices[p][n].clients, Yes)
          BY <1>1, <1>3, <1>12, <1>13, <3>3, <4>2, <5>1, TellsAppend
        <5> HIDE DEF box
        <5>3. inbox'[c] = Append(box[c], OnClients(b, has))
          BY <1>2, <3>4, <4>2, <5>1, Zenon DEF box
        <5>4. has # Yes
          BY <1>13, <4>2, Zenon
        <5>5. box[c] \in Seq(News)
          BY <1>1, <5>1, Zenon DEF Boxes
        <5>. QED  BY Zenon, <1>2, <1>3, <5>2, <5>3, <5>4, <5>5, TellsAppend
      <4>3. CASE e.hasClients = has /\ ~(~e.hasClients /\ ~has /\ e.guaranteeClient)
        BY Zenon, <1>2, <3>3, <4>3
      <4>. QED  BY Zenon, <4>1, <4>2, <4>3
    <3>. QED  BY <1>6, <2>4, <3>1, <3>2, <3>3, <3>5, Zenon
  <2>. QED  BY Zenon, <1>8, <2>5, <2>6
<1>. QED  BY Zenon, <1>9, <1>14, <1>15

----------------------------------------------------------------------------
(* The steps of a lazy process itself.                                       *)
Kept(p) == MapSound(p)' /\ FoundSound(p)' /\ UseSound(p)' /\ CallbackSound(p)' /\ NewsSound(p)'

LEMMA RegisterSound ==
  ASSUME Base, NEW p \in Lazy, Sound(p), NEW n \in Name, registerService(p, n)
  PROVE  Kept(p)
<1>1. DirectoryInv /\ LazyType /\ WorkSound(p) /\ MapSound(p) /\ FoundSound(p) /\ UseSound(p)
      /\ CallbackSound(p) /\ NewsSound(p)
  BY Zenon DEF Base, Sound
<1>2. /\ p \in alive /\ work[p].at = "free" /\ n \in registers[p].names /\ ~Has(p, n)
      /\ addService(n, Mine(p, n))
      /\ work'[p].at = "registering" /\ work'[p].todo = {n}
      /\ mRegisteredServices'[p] = mRegisteredServices[p] /\ registers' = registers
  BY Zenon, RegisterStep DEF Own
<1>3. /\ Mine(p, n) \in Service /\ Owner[Mine(p, n)] = p /\ CounterOf[p] \in Counter
  BY Zenon, <1>1, <1>2, LazyFacts
<1>4. /\ \A m \in Name : m # n => mNameToService'[m] = mNameToService[m]
      /\ Known(n)' /\ mNameToService'[n].binder = Mine(p, n) /\ ~mNameToService'[n].hasClients
      /\ inbox'[CounterOf[p]] = inbox[CounterOf[p]]
      /\ \A x \in Service : x # Mine(p, n) => holders'[x] = holders[x]
      /\ UNCHANGED <<mNameToClientCallback, alive>>
  BY Zenon, <1>1, <1>2, <1>3, AddFacts DEF callbacks
<1>5. /\ \A m \in Name : /\ Has(p, m)' <=> Has(p, m)
                         /\ mRegisteredServices'[p][m] = mRegisteredServices[p][m]
                         /\ Registering(p, m)' <=> m = n
                         /\ ~Registering(p, m)
      /\ ~Ending(p)' /\ ~Ending(p)
  BY Zenon, <1>2 DEF Has, Registering, Ending
<1>6. \A m \in Name : Has(p, m) => m # n /\ mRegisteredServices[p][m].registered
  BY Zenon, <1>1, <1>2, <1>5 DEF MapSound
<1>7. \A m \in Name : /\ m = n => Found(p, m)'
                      /\ m # n => (Found(p, m)' <=> Found(p, m)) /\ (Known(m)' <=> Known(m))
  BY Zenon, <1>4 DEF Found, Known, Mine
<1>8. MapSound(p)'
  <2>1. \A m \in Name : Registering(p, m)' \/ (Has(p, m)' /\ mRegisteredServices'[p][m].registered)
                        => Found(p, m)'
    BY Zenon, <1>1, <1>2, <1>5, <1>6, <1>7 DEF MapSound
  <2>2. \A m \in Name :
          Has(p, m)' => /\ m \in registers'[p].names /\ p \in CanAdd[m]
                        /\ mRegisteredServices'[p][m].service = Mine(p, m)
    BY Zenon, <1>1, <1>2, <1>5 DEF MapSound
  <2>. QED  BY Zenon, <1>5, <1>6, <2>1, <2>2 DEF MapSound, Mine
<1>9. FoundSound(p)'
  <2> SUFFICES ASSUME NEW m \in Name, Known(m)', Owner[mNameToService'[m].binder] = p
               PROVE  /\ Found(p, m)'
                      /\ Registering(p, m)' \/ (Has(p, m)' /\ mRegisteredServices'[p][m].registered)
    BY Zenon DEF FoundSound
  <2>1. CASE m = n
    BY Zenon, <1>5, <1>7, <2>1
  <2>2. CASE m # n
    BY Zenon, <1>1, <1>4, <1>5, <1>7, <2>2 DEF FoundSound
  <2>. QED  BY Zenon, <2>1, <2>2
<1>10. UseSound(p)'
  <2> SUFFICES ASSUME NEW b \in Service, Owner[b] = p, holders'[b] # {}
               PROVE  \E m \in Name :
                        /\ Mine(p, m) = b
                        /\ Registering(p, m)' \/ (Has(p, m)' /\ (Ending(p)' => m \in work'[p].todo))
    BY Zenon DEF UseSound, Mine
  <2>1. CASE b = Mine(p, n)
    BY Zenon, <1>5, <2>1
  <2>2. CASE b # Mine(p, n)
    BY Zenon, <1>1, <1>4, <1>5, <2>2 DEF UseSound
  <2>. QED  BY Zenon, <2>1, <2>2
<1>11. CallbackSound(p)'
  BY Zenon, <1>1, <1>2, <1>4, <1>5 DEF CallbackSound
<1>12. NewsSound(p)'
  <2> SUFFICES ASSUME NEW m \in Name, registers[p].names = {m}
               PROVE  /\ work'[p].at = "reRegistering" => work'[p].todo = {}
                      /\ ~Has(p, m)' => inbox'[CounterOf[p]] = <<>>
                      /\ ~(Has(p, m)' /\ mRegisteredServices'[p][m].registered)
    BY <1>2, Zenon DEF NewsSound
  <2>1. m = n
    BY Zenon, <1>2
  <2>. QED  BY Zenon, <1>1, <1>2, <1>4, <1>5, <2>1 DEF NewsSound
<1>. QED  BY Zenon, <1>8, <1>9, <1>10, <1>11, <1>12 DEF Kept

LEMMA AddClientSound ==
  ASSUME Base, NEW p \in Lazy, Sound(p), addClientCallback(p)
  PROVE  Kept(p)
<1>1. DirectoryInv /\ LazyType /\ WorkSound(p) /\ MapSound(p) /\ FoundSound(p) /\ UseSound(p)
      /\ CallbackSound(p) /\ NewsSound(p)
  BY Zenon DEF Base, Sound
<1>2. PICK n \in registers[p].names :
           /\ p \in alive /\ work[p].at = "registering" /\ work[p].todo = {n} /\ ~Has(p, n)
           /\ \/ /\ registerClientCallback(n, Mine(p, n), CounterOf[p])
                 /\ mRegisteredServices'[p][n] \in Records
                 /\ mRegisteredServices'[p][n].service = Mine(p, n)
                 /\ ~mRegisteredServices'[p][n].clients
                 /\ mRegisteredServices'[p][n].registered
                 /\ \A m \in Name : m # n => mRegisteredServices'[p][m] = mRegisteredServices[p][m]
              \/ Known(n) => mNameToService[n].binder # Mine(p, n)
           /\ work'[p].at = "free" /\ work'[p].todo = {} /\ registers' = registers
  BY Zenon, AddClientStep DEF Own
<1>3. n \in Name /\ Mine(p, n) \in Service /\ CounterOf[p] \in Counter /\ Owner[CounterOf[p]] = p
  BY Zenon, <1>1, LazyFacts
<1>4. Registering(p, n) /\ Found(p, n)
  BY Zenon, <1>1, <1>2, <1>3 DEF Registering, MapSound
<1>5. /\ registerClientCallback(n, Mine(p, n), CounterOf[p])
      /\ mRegisteredServices'[p][n] \in Records
      /\ mRegisteredServices'[p][n].service = Mine(p, n)
      /\ ~mRegisteredServices'[p][n].clients
      /\ mRegisteredServices'[p][n].registered
      /\ \A m \in Name : m # n => mRegisteredServices'[p][m] = mRegisteredServices[p][m]
  BY Zenon, <1>2, <1>4 DEF Found
<1>6. /\ Owner[CounterOf[p]] \in CanAdd[n]
      /\ \A m \in Name, o \in Counter : m # n \/ o # CounterOf[p] =>
           mNameToClientCallback'[m][o] = mNameToClientCallback[m][o]
      /\ mNameToClientCallback'[n][CounterOf[p]] = mNameToClientCallback[n][CounterOf[p]] + 1
      /\ UNCHANGED <<mNameToService, inbox, holders, alive>>
  BY <1>1, <1>3, <1>5, RegisterClientFacts
<1>7. /\ \A m \in Name : /\ Has(p, m)' <=> (m = n \/ Has(p, m))
                         /\ ~Registering(p, m)'
                         /\ Registering(p, m) => m = n
      /\ ~Ending(p)' /\ ~Ending(p)
  <2>1. mRegisteredServices'[p][n] # NoService
    BY Zenon, <1>5, NoRecord DEF Records
  <2>. QED  BY Zenon, <1>2, <1>5, <2>1 DEF Has, Registering, Ending
<1>8. \A m \in Name : Has(p, m) => m # n /\ mRegisteredServices[p][m].registered
  BY Zenon, <1>1, <1>2, <1>7 DEF MapSound
<1>9. \A m \in Name : (Found(p, m)' <=> Found(p, m)) /\ (Known(m)' <=> Known(m))
  BY Zenon, <1>6 DEF Found, Known, Mine
<1>10. \A m \in Name : Has(p, m)' => mRegisteredServices'[p][m].registered /\ Found(p, m)'
  BY Zenon, <1>1, <1>2, <1>4, <1>5, <1>7, <1>8, <1>9 DEF MapSound
<1>11. MapSound(p)'
  <2>1. \A m \in Name :
          Has(p, m)' => /\ m \in registers'[p].names /\ p \in CanAdd[m]
                        /\ mRegisteredServices'[p][m].service = Mine(p, m)
    BY Zenon, <1>1, <1>2, <1>3, <1>5, <1>6, <1>7 DEF MapSound
  <2>. QED  BY Zenon, <1>7, <1>10, <2>1 DEF MapSound, Mine
<1>12. FoundSound(p)'
  <2> SUFFICES ASSUME NEW m \in Name, Known(m)', Owner[mNameToService'[m].binder] = p
               PROVE  Found(p, m)' /\ Has(p, m)' /\ mRegisteredServices'[p][m].registered
    BY Zenon DEF FoundSound
  <2>1. Found(p, m) /\ (m = n \/ Has(p, m))
    BY Zenon, <1>1, <1>6, <1>7, <1>9 DEF FoundSound
  <2>. QED  BY Zenon, <1>7, <1>10, <2>1
<1>13. UseSound(p)'
  <2> SUFFICES ASSUME NEW b \in Service, Owner[b] = p, holders'[b] # {}
               PROVE  \E m \in Name : Mine(p, m) = b /\ Has(p, m)'
    BY Zenon, <1>7 DEF UseSound, Mine
  <2>. QED  BY Zenon, <1>1, <1>6, <1>7 DEF UseSound
<1>14. CallbackSound(p)'
  <2> SUFFICES ASSUME NEW m \in Name
               PROVE  /\ mNameToClientCallback'[m][CounterOf[p]] = IF Has(p, m)' THEN 1 ELSE 0
                      /\ \A c \in Counter : Owner[c] = p /\ c # CounterOf[p]
                                            => mNameToClientCallback'[m][c] = 0
    BY Zenon, <1>7 DEF CallbackSound
  <2>1. /\ mNameToClientCallback[m][CounterOf[p]] = IF Has(p, m) THEN 1 ELSE 0
        /\ \A c \in Counter : Owner[c] = p /\ c # CounterOf[p] => mNameToClientCallback[m][c] = 0
    BY Zenon, <1>1, <1>2 DEF CallbackSound
  <2>2. \A c \in Counter : c # CounterOf[p]
                           => mNameToClientCallback'[m][c] = mNameToClientCallback[m][c]
    BY Zenon, <1>6
  <2>3. mNameToClientCallback'[m][CounterOf[p]]
        = IF m = n THEN mNameToClientCallback[m][CounterOf[p]] + 1
          ELSE mNameToClientCallback[m][CounterOf[p]]
    BY Zenon, <1>3, <1>6
  <2>4. m = n => ~Has(p, m)
    BY Zenon, <1>2
  <2>5. Has(p, m)' <=> (m = n \/ Has(p, m))
    BY Zenon, <1>7
  <2>. QED  BY <2>1, <2>2, <2>3, <2>4, <2>5
<1>15. NewsSound(p)'
  <2> SUFFICES ASSUME NEW m \in Name, registers[p].names = {m}
               PROVE  /\ Has(p, m)'
                      /\ Tells(inbox'[CounterOf[p]], Mine(p, m), mRegisteredServices'[p][m].clients,
                               mNameToService'[m].hasClients)
    <3>1. ~(work'[p].at = "reRegistering")
      BY Zenon, <1>2
    <3>. QED  BY <1>2, <3>1, Zenon DEF NewsSound, Tells, Mine
  <2>1. m = n
    BY Zenon, <1>2
  <2>2. inbox'[CounterOf[p]] = <<>>
    BY Zenon, <1>1, <1>2, <1>6, <2>1 DEF NewsSound
  <2>3. mRegisteredServices'[p][n].clients = mNameToService'[n].hasClients
    <3>1. ~mNameToService[n].hasClients
      BY Zenon, <1>1, <1>2, <1>3, <1>4 DEF CallbackSound
    <3>2. mNameToService[n].hasClients \in BOOLEAN /\ mRegisteredServices'[p][n].clients \in BOOLEAN
      BY Zenon, <1>1, <1>3, <1>4, <1>5 DEF DirectoryInv, DirectoryType, Found, Known, Entries, Records
    <3>. QED  BY Zenon, <1>5, <1>6, <3>1, <3>2
  <2>. QED  BY Zenon, <1>3, <1>7, <2>1, <2>2, <2>3, TellsNone
<1>. QED  BY Zenon, <1>11, <1>12, <1>13, <1>14, <1>15 DEF Kept

(* maybeTryShutdownLocked, after which the directory is as it was.           *)
LEMMA MaybeEndingSound ==
  ASSUME Base, NEW p \in Lazy, Sound(p), Own(p), MaybeEnding(p), work[p].at = "free",
         \A n \in Name : /\ Has(p, n)' <=> Has(p, n)
                         /\ Has(p, n) =>
                              /\ mRegisteredServices'[p][n].service = mRegisteredServices[p][n].service
                              /\ mRegisteredServices'[p][n].registered
                                 = mRegisteredServices[p][n].registered,
         UNCHANGED <<mNameToService, mNameToClientCallback, holders, alive>>
  PROVE  MapSound(p)' /\ FoundSound(p)' /\ UseSound(p)' /\ CallbackSound(p)'
<1>1. MapSound(p) /\ FoundSound(p) /\ UseSound(p) /\ CallbackSound(p)
  BY Zenon DEF Sound
<1>2. \A n \in Name : ~Registering(p, n) /\ ~Registering(p, n)'
  BY Zenon DEF MaybeEnding, Registering
<1>3. \A n \in Name : Has(p, n) => mRegisteredServices[p][n].registered
  BY Zenon, <1>1 DEF MapSound, Ending
<1>4. \A n \in Name : (Found(p, n)' <=> Found(p, n)) /\ (Known(n)' <=> Known(n))
  BY Zenon DEF Found, Known, Mine
<1>5. \A n \in Name : Has(p, n) /\ Ending(p)' => n \in work'[p].todo
  BY Zenon, <1>1 DEF MaybeEnding, Ending, NamesOf, MapSound
<1>6. registers' = registers
  BY Zenon DEF Own
<1>7. MapSound(p)'
  BY Zenon, <1>1, <1>2, <1>3, <1>4, <1>5, <1>6 DEF MapSound, Mine
<1>8. FoundSound(p)'
  BY Zenon, <1>1, <1>2, <1>3, <1>4 DEF FoundSound
<1>9. UseSound(p)'
  BY Zenon, <1>1, <1>2, <1>5 DEF UseSound, Mine
<1>10. CallbackSound(p)'
  BY Zenon, <1>1, <1>2 DEF CallbackSound
<1>. QED  BY Zenon, <1>7, <1>8, <1>9, <1>10

(* ... when the process has heard nothing.                                   *)
LEMMA NothingHeard ==
  ASSUME Base, NEW p \in Lazy, Sound(p), Own(p), work'[p].at \in {"free", "unregistering"},
         mRegisteredServices'[p] = mRegisteredServices[p],
         UNCHANGED <<mNameToService, inbox, alive>>
  PROVE  NewsSound(p)'
<1>1. NewsSound(p) /\ registers' = registers
  BY Zenon DEF Sound, Own
<1>2. \A n \in Name : Has(p, n)' <=> Has(p, n)
  BY Zenon DEF Has
<1>3. ~(work'[p].at = "reRegistering")
  BY Zenon
<1> SUFFICES ASSUME p \in alive, NEW n \in Name, registers[p].names = {n}
             PROVE  /\ ~Has(p, n)' => inbox'[CounterOf[p]] = <<>>
                    /\ Has(p, n)' /\ mRegisteredServices'[p][n].registered
                       => Tells(inbox'[CounterOf[p]], Mine(p, n), mRegisteredServices'[p][n].clients,
                                mNameToService'[n].hasClients)
  BY <1>1, <1>3, Zenon DEF NewsSound, Tells, Mine
<1>. QED  BY <1>1, <1>2, Zenon DEF NewsSound

LEMMA ForcePersistSound ==
  ASSUME Base, NEW p \in Lazy, Sound(p), NEW persist, forcePersist(p, persist)
  PROVE  Kept(p)
<1>1. /\ work[p].at = "free" /\ MaybeEnding(p) /\ Own(p)
      /\ mRegisteredServices'[p] = mRegisteredServices[p]
      /\ UNCHANGED <<mNameToService, mNameToClientCallback, inbox, holders, alive>>
  BY Zenon, ForcePersistStep DEF smVars
<1>2. MapSound(p)' /\ FoundSound(p)' /\ UseSound(p)' /\ CallbackSound(p)'
  BY Zenon, <1>1, MaybeEndingSound DEF Has
<1>3. work'[p].at \in {"free", "unregistering"}
  BY Zenon, <1>1 DEF MaybeEnding
<1>. QED  BY Zenon, <1>1, <1>2, <1>3, NothingHeard DEF Kept

LEMMA ReRegisteredSound ==
  ASSUME Base, NEW p \in Lazy, Sound(p), reRegistered(p)
  PROVE  Kept(p)
<1>1. /\ work[p].at = "reRegistering" /\ work[p].todo = {} /\ Own(p)
      /\ work'[p].at = "free" /\ work'[p].todo = {}
      /\ mRegisteredServices'[p] = mRegisteredServices[p]
      /\ UNCHANGED <<mNameToService, mNameToClientCallback, inbox, holders, alive>>
  BY Zenon, ReRegisteredStep DEF smVars
<1>2. MapSound(p) /\ FoundSound(p) /\ UseSound(p) /\ CallbackSound(p)
  BY Zenon DEF Sound
<1>3. /\ \A n \in Name : /\ ~Registering(p, n) /\ ~Registering(p, n)'
                         /\ Has(p, n)' <=> Has(p, n)
                         /\ Has(p, n) => mRegisteredServices[p][n].registered
                         /\ Found(p, n)' <=> Found(p, n)
                         /\ Known(n)' <=> Known(n)
      /\ ~Ending(p) /\ ~Ending(p)' /\ registers' = registers
  BY Zenon, <1>1, <1>2 DEF Registering, Has, MapSound, Ending, Found, Known, Mine, Own
<1>4. MapSound(p)'
  BY Zenon, <1>1, <1>2, <1>3 DEF MapSound, Mine
<1>5. FoundSound(p)'
  BY Zenon, <1>1, <1>2, <1>3 DEF FoundSound
<1>6. UseSound(p)'
  BY Zenon, <1>1, <1>2, <1>3 DEF UseSound, Mine
<1>7. CallbackSound(p)'
  BY Zenon, <1>1, <1>2, <1>3 DEF CallbackSound
<1>. QED  BY Zenon, <1>1, <1>4, <1>5, <1>6, <1>7, NothingHeard DEF Kept

LEMMA ExitSound ==
  ASSUME Base, NEW p \in Lazy, Sound(p), exit(p)
  PROVE  Kept(p)
<1>1. /\ work[p].at = "unregistering" /\ work[p].todo = {} /\ Own(p)
      /\ Die(p) /\ work'[p].at = "exited" /\ work'[p].todo = {}
      /\ mRegisteredServices'[p] = mRegisteredServices[p]
  BY Zenon, ExitStep
<1>2. /\ p \notin alive' /\ UNCHANGED mNameToService
      /\ \A b \in Service : holders'[b] \subseteq holders[b]
  BY Zenon, <1>1 DEF Die
<1>3. MapSound(p) /\ FoundSound(p) /\ UseSound(p)
  BY Zenon DEF Sound
<1>4. /\ \A n \in Name : /\ ~Registering(p, n) /\ ~Registering(p, n)'
                         /\ Has(p, n)' <=> Has(p, n)
                         /\ Found(p, n)' <=> Found(p, n)
                         /\ Known(n)' <=> Known(n)
      /\ Ending(p) /\ Ending(p)' /\ registers' = registers
  BY Zenon, <1>1, <1>2 DEF Registering, Has, Ending, Found, Known, Mine, Own
<1>5. MapSound(p)'
  BY Zenon, <1>1, <1>2, <1>3, <1>4 DEF MapSound, Mine
<1>6. FoundSound(p)'
  BY Zenon, <1>1, <1>2, <1>3, <1>4 DEF FoundSound
<1>7. UseSound(p)'
  BY Zenon, <1>1, <1>2, <1>3, <1>4 DEF UseSound, Mine
<1>8. CallbackSound(p)' /\ NewsSound(p)'
  BY <1>2, Zenon DEF CallbackSound, NewsSound
<1>. QED  BY Zenon, <1>5, <1>6, <1>7, <1>8 DEF Kept

(* A process with one service has taken in all news but those in its inbox.  *)
LEMMA NewsOfOne ==
  ASSUME Base, NEW p \in Lazy, Sound(p), NEW n \in Name, registers[p].names = {n},
         p \in alive, work[p].at = "free", inbox[CounterOf[p]] # <<>>
  PROVE  /\ Has(p, n) /\ mRegisteredServices[p][n].registered
         /\ Head(inbox[CounterOf[p]]).binder = Mine(p, n)
         /\ mRegisteredServices[p][n].service = Mine(p, n)
         /\ Head(inbox[CounterOf[p]]).clients # mRegisteredServices[p][n].clients
         /\ Tells(Tail(inbox[CounterOf[p]]), Mine(p, n), Head(inbox[CounterOf[p]]).clients,
                  mNameToService[n].hasClients)
<1>1. NewsSound(p) /\ MapSound(p)
  BY Zenon DEF Sound
<1>2. Has(p, n)
  BY <1>1, Zenon DEF NewsSound
<1>3. mRegisteredServices[p][n].registered /\ mRegisteredServices[p][n].service = Mine(p, n)
  BY Zenon, <1>1, <1>2 DEF MapSound, Ending
<1>4. Tells(inbox[CounterOf[p]], Mine(p, n), mRegisteredServices[p][n].clients,
            mNameToService[n].hasClients)
  BY <1>1, <1>2, <1>3, Zenon DEF NewsSound
<1>5. inbox[CounterOf[p]] \in Seq(News) /\ inbox[CounterOf[p]] # <<>>
  BY Zenon, LazyFacts DEF Base, DirectoryInv, DirectoryType
<1> DEFINE q == inbox[CounterOf[p]]
           from == mRegisteredServices[p][n].clients
           to == mNameToService[n].hasClients
<1>6. /\ Head(q).binder = Mine(p, n) /\ Head(q).clients # from
      /\ Tells(Tail(q), Mine(p, n), Head(q).clients, to)
  <2>1. q \in Seq(News) /\ q # <<>> /\ Tells(q, Mine(p, n), from, to)
    BY Zenon, <1>4, <1>5
  <2> HIDE DEF q, from, to
  <2>2. QED
    BY Zenon, <2>1, TellsTail
<1>. QED  BY <1>2, <1>3, <1>6, Zenon

LEMMA OnClientsNotFatal ==
  ASSUME Base, NEW p \in Lazy, Sound(p), onClients(p), NotFatal
  PROVE  NotFatal'
<1> SUFFICES ASSUME \A q \in Lazy : OneService(q)
             PROVE  fatal' = fatal
  <2>1. Own(p)
    BY Zenon, OnClientsStep
  <2>. QED  BY Zenon, <2>1 DEF NotFatal, OneService, Own, Lazy
<1> DEFINE m == Head(inbox[CounterOf[p]])
<1>1. /\ p \in alive /\ work[p].at = "free" /\ inbox[CounterOf[p]] # <<>>
      /\ \/ Unknown(p, m)
         \/ \E n \in Name : About(p, n, m) /\ (mRegisteredServices[p][n].clients = m.clients
                                               \/ TakesIn(p, n, m))
  BY Zenon, OnClientsStep
<1>2. PICK n \in Name : registers[p].names = {n}
  BY Zenon DEF OneService
<1>3. /\ Has(p, n) /\ m.binder = Mine(p, n) /\ mRegisteredServices[p][n].service = Mine(p, n)
      /\ m.clients # mRegisteredServices[p][n].clients
  BY Zenon, <1>1, <1>2, NewsOfOne
<1>4. \A x \in Name : Has(p, x) => x = n
  BY Zenon, <1>2 DEF Sound, MapSound
<1>. HIDE DEF m
<1>5. ~Unknown(p, m)
  BY Zenon, <1>3 DEF Unknown
<1>6. TakesIn(p, n, m)
  BY Zenon, <1>1, <1>3, <1>4, <1>5 DEF About
<1>. QED  BY Zenon, <1>6 DEF TakesIn

LEMMA OnClientsSound ==
  ASSUME Base, NEW p \in Lazy, Sound(p), onClients(p)
  PROVE  Kept(p)
<1> DEFINE m == Head(inbox[CounterOf[p]])
<1>1. /\ p \in alive /\ work[p].at = "free" /\ inbox[CounterOf[p]] # <<>> /\ m \in News /\ Own(p)
      /\ \/ UNCHANGED <<smVars, mRegisteredServices, work>>
         \/ \E n \in Name : About(p, n, m) /\ TakesIn(p, n, m)
  BY Zenon, OnClientsStep
<1>. HIDE DEF m
<1>2. CASE UNCHANGED <<smVars, mRegisteredServices, work>>
  <2>1. UNCHANGED <<mNameToService, mNameToClientCallback, inbox, holders, alive>>
    BY Zenon, <1>2 DEF smVars
  <2>2. Spares(p) /\ Quiet(p)
    BY Zenon, <2>1, NothingSpares
  <2>3. Idle(p)
    BY Zenon, <1>1, <1>2 DEF Idle, Own
  <2>. QED  BY Zenon, <2>2, <2>3, FrameSound DEF Kept
<1>3. ASSUME NEW n \in Name, About(p, n, m), TakesIn(p, n, m)
      PROVE  Kept(p)
  <2>1. /\ Has(p, n) /\ mRegisteredServices[p][n].service = m.binder
        /\ mRegisteredServices'[p][n] = [mRegisteredServices[p][n] EXCEPT !.clients = m.clients]
        /\ \A x \in Name : x # n => mRegisteredServices'[p][x] = mRegisteredServices[p][x]
        /\ MaybeEnding(p) /\ Handle(CounterOf[p])
    BY Zenon, <1>3 DEF About, TakesIn
  <2>2. mRegisteredServices[p][n] \in Records /\ CounterOf[p] \in DOMAIN inbox
    BY Zenon, <2>1, LazyFacts DEF Base, LazyType, Has, DirectoryInv, DirectoryType
  <2>3. /\ mRegisteredServices'[p][n] \in Records
        /\ mRegisteredServices'[p][n].service = mRegisteredServices[p][n].service
        /\ mRegisteredServices'[p][n].registered = mRegisteredServices[p][n].registered
        /\ mRegisteredServices'[p][n].clients = m.clients
    BY Zenon, <1>1, <2>1, <2>2 DEF Records, News
  <2>4. \A x \in Name : Has(p, x)' <=> Has(p, x)
    BY Zenon, <2>1, <2>3, NoRecord DEF Has, Records
  <2>5. /\ UNCHANGED <<mNameToService, mNameToClientCallback, holders, alive>>
        /\ inbox'[CounterOf[p]] = Tail(inbox[CounterOf[p]])
    BY Zenon, <2>1, <2>2 DEF Handle, callbacks
  <2>6. MapSound(p)' /\ FoundSound(p)' /\ UseSound(p)' /\ CallbackSound(p)'
    <3>1. \A x \in Name :
            /\ Has(p, x)' <=> Has(p, x)
            /\ Has(p, x) =>
                 /\ mRegisteredServices'[p][x].service = mRegisteredServices[p][x].service
                 /\ mRegisteredServices'[p][x].registered = mRegisteredServices[p][x].registered
      <4>1. \A x \in Name : x # n => mRegisteredServices'[p][x] = mRegisteredServices[p][x]
        BY Zenon, <2>1
      <4>. QED  BY <2>3, <2>4, <4>1, Zenon
    <3>2. UNCHANGED <<mNameToService, mNameToClientCallback, holders, alive>>
      BY Zenon, <2>5
    <3>. QED  BY <1>1, <2>1, <3>1, <3>2, MaybeEndingSound, Zenon
  <2>7. NewsSound(p)'
    <3>1. ~(work'[p].at = "reRegistering") /\ registers' = registers
      BY Zenon, <1>1, <2>1 DEF MaybeEnding, Own
    <3> SUFFICES ASSUME NEW x \in Name, registers[p].names = {x}
                 PROVE  /\ Has(p, x)'
                        /\ Tells(inbox'[CounterOf[p]], Mine(p, x), mRegisteredServices'[p][x].clients,
                                 mNameToService'[x].hasClients)
      BY <3>1, Zenon DEF NewsSound, Tells, Mine
    <3>2. /\ Has(p, x)
          /\ Tells(Tail(inbox[CounterOf[p]]), Mine(p, x), m.clients, mNameToService[x].hasClients)
      BY Zenon, <1>1, NewsOfOne DEF m
    <3>3. x = n
      BY Zenon, <2>1 DEF Sound, MapSound
    <3>. QED  BY Zenon, <2>3, <2>4, <2>5, <3>2, <3>3
  <2>. QED  BY Zenon, <2>6, <2>7 DEF Kept
<1>. QED  BY Zenon, <1>1, <1>2, <1>3

(* A service of which nobody but its process has a reference.                *)
NoneHold == \A S \in SUBSET Proc : 1 + Cardinality(S) + 1 <= 2 => S = {}

LEMMA TryUnregisterSound ==
  ASSUME Base, NEW p \in Lazy, Sound(p), NoneHold, tryUnregister(p)
  PROVE  Kept(p)
<1>1. DirectoryInv /\ LazyType /\ WorkSound(p) /\ MapSound(p) /\ FoundSound(p) /\ UseSound(p)
      /\ CallbackSound(p) /\ NewsSound(p)
  BY Zenon DEF Base, Sound
<1>2. PICK n \in registers[p].names, ok \in BOOLEAN :
           /\ p \in alive /\ work[p].at = "unregistering" /\ n \in work[p].todo /\ Has(p, n)
           /\ tryUnregisterService(n, Mine(p, n), ok)
           /\ Marked(p, n, ~ok)
           /\ IF ok THEN work'[p].at = "unregistering" /\ work'[p].todo = work[p].todo \ {n}
              ELSE work'[p].at = "reRegistering" /\ work'[p].todo = ToReRegister(p)
           /\ Own(p)
           /\ \A m \in Name : Has(p, m)' <=> Has(p, m)
  BY TryUnregisterStep, Zenon
<1>3. n \in Name /\ Mine(p, n) \in Service /\ Owner[Mine(p, n)] = p
  BY Zenon, <1>1, LazyFacts
<1>4. /\ \A m \in Name : /\ ~Registering(p, m) /\ ~Registering(p, m)'
      /\ Ending(p) /\ (Ending(p)' <=> ok) /\ registers' = registers
  BY Zenon, <1>2 DEF Registering, Ending, Own
<1>5. /\ \A m \in Name : Has(p, m)' <=> Has(p, m)
      /\ \A m \in Name : Has(p, m) =>
           /\ mRegisteredServices'[p][m].service = mRegisteredServices[p][m].service
           /\ mRegisteredServices'[p][m].clients = mRegisteredServices[p][m].clients
      /\ \A m \in Name : m # n => mRegisteredServices'[p][m] = mRegisteredServices[p][m]
      /\ ok => ~mRegisteredServices'[p][n].registered
      /\ ~ok => mRegisteredServices'[p][n].registered
  <2>1. Marked(p, n, ~ok)
    BY Zenon, <1>2
  <2>2. \A m \in Name : m # n => mRegisteredServices'[p][m] = mRegisteredServices[p][m]
    BY <2>1, Zenon DEF Marked
  <2>3. /\ mRegisteredServices'[p][n].service = mRegisteredServices[p][n].service
        /\ mRegisteredServices'[p][n].clients = mRegisteredServices[p][n].clients
        /\ ok => ~mRegisteredServices'[p][n].registered
        /\ ~ok => mRegisteredServices'[p][n].registered
    BY <2>1, Zenon DEF Marked
  <2>. QED  BY <1>2, <2>2, <2>3, Zenon
<1>6. mRegisteredServices[p][n].registered /\ Found(p, n)
  BY Zenon, <1>1, <1>2, <1>3, <1>4 DEF MapSound
<1>7. /\ \A m \in Name : m # n => mNameToService'[m] = mNameToService[m]
      /\ UNCHANGED <<mNameToClientCallback, inbox, holders, alive>>
      /\ ok => Unregisterable(n) /\ ~Known(n)'
      /\ ~ok => /\ Known(n)' /\ mNameToService'[n].binder = mNameToService[n].binder
                /\ mNameToService'[n].hasClients = mNameToService[n].hasClients
  <2>1. Known(n)
    BY Zenon, <1>6 DEF Found
  <2>. QED  BY Zenon, <1>2, <1>3, <2>1, TryUnregisterFacts
<1>8. \A m \in Name : m # n => (Found(p, m)' <=> Found(p, m)) /\ (Known(m)' <=> Known(m))
  BY Zenon, <1>7 DEF Found, Known, Mine
<1>9. ~ok => Found(p, n)'
  BY Zenon, <1>6, <1>7 DEF Found, Mine
<1>10. ok => holders[Mine(p, n)] = {}
  <2>1. holders[Mine(p, n)] \in SUBSET Proc
    BY Zenon, <1>1, <1>3 DEF DirectoryInv, DirectoryType
  <2>2. ok => 1 + Cardinality(holders[Mine(p, n)]) + 1 <= 2
    BY Zenon, <1>6, <1>7 DEF Unregisterable, Count, Found
  <2>. QED  BY Zenon, <2>1, <2>2 DEF NoneHold
<1>11. ~ok => \A m \in Name : Has(p, m) /\ ~mRegisteredServices[p][m].registered => m \in work'[p].todo
  BY Zenon, <1>1, <1>2 DEF ToReRegister, NamesOf, MapSound
<1>12. MapSound(p)'
  <2>1. \A m \in Name :
          Has(p, m)' => /\ m \in registers'[p].names /\ p \in CanAdd[m]
                        /\ mRegisteredServices'[p][m].service = Mine(p, m)
    BY Zenon, <1>1, <1>4, <1>5 DEF MapSound
  <2>2. ASSUME NEW m \in Name, Has(p, m), ~mRegisteredServices'[p][m].registered
        PROVE  \/ Ending(p)' /\ m \notin work'[p].todo
               \/ work'[p].at = "reRegistering" /\ m \in work'[p].todo
    <3>1. CASE m = n
      BY Zenon, <1>2, <1>4, <1>5, <2>2, <3>1
    <3>2. CASE m # n
      BY Zenon, <1>1, <1>2, <1>4, <1>5, <1>11, <2>2, <3>2 DEF MapSound
    <3>. QED  BY Zenon, <3>1, <3>2
  <2>3. ASSUME NEW m \in Name, Ending(p)', Has(p, m), m \notin work'[p].todo
        PROVE  ~mRegisteredServices'[p][m].registered
    <3>1. CASE m = n
      BY Zenon, <1>4, <1>5, <2>3, <3>1
    <3>2. CASE m # n
      BY Zenon, <1>1, <1>2, <1>4, <1>5, <2>3, <3>2 DEF MapSound
    <3>. QED  BY Zenon, <3>1, <3>2
  <2>4. ASSUME NEW m \in Name, Has(p, m), mRegisteredServices'[p][m].registered
        PROVE  Found(p, m)'
    <3>1. CASE m = n
      BY Zenon, <1>5, <1>9, <2>4, <3>1
    <3>2. CASE m # n
      BY Zenon, <1>1, <1>2, <1>5, <1>8, <2>4, <3>2 DEF MapSound
    <3>. QED  BY Zenon, <3>1, <3>2
  <2>. QED  BY Zenon, <1>4, <1>5, <2>1, <2>2, <2>3, <2>4 DEF MapSound, Mine
<1>13. FoundSound(p)'
  <2> SUFFICES ASSUME NEW m \in Name, Known(m)', Owner[mNameToService'[m].binder] = p
               PROVE  Found(p, m)' /\ Has(p, m)' /\ mRegisteredServices'[p][m].registered
    BY Zenon DEF FoundSound
  <2>1. CASE m = n
    BY Zenon, <1>2, <1>5, <1>7, <1>9, <2>1
  <2>2. CASE m # n
    BY Zenon, <1>1, <1>4, <1>5, <1>7, <1>8, <2>2 DEF FoundSound
  <2>. QED  BY Zenon, <2>1, <2>2
<1>14. UseSound(p)'
  <2> SUFFICES ASSUME NEW b \in Service, Owner[b] = p, holders'[b] # {}
               PROVE  \E m \in Name : Mine(p, m) = b /\ Has(p, m)' /\ (Ending(p)' => m \in work'[p].todo)
    BY Zenon DEF UseSound, Mine
  <2>1. PICK m \in Name : Mine(p, m) = b /\ Has(p, m) /\ m \in work[p].todo
    BY Zenon, <1>1, <1>4, <1>7 DEF UseSound
  <2>2. ok => m # n
    BY Zenon, <1>7, <1>10, <2>1
  <2>. QED  BY Zenon, <1>2, <1>4, <1>5, <2>1, <2>2
<1>15. CallbackSound(p)'
  BY Zenon, <1>1, <1>4, <1>5, <1>7 DEF CallbackSound
<1>16. NewsSound(p)'
  <2> SUFFICES ASSUME NEW m \in Name, registers[p].names = {m}
               PROVE  /\ work'[p].at = "reRegistering" => work'[p].todo = {}
                      /\ Has(p, m)'
                      /\ mRegisteredServices'[p][m].registered
                         => Tells(inbox'[CounterOf[p]], Mine(p, m), mRegisteredServices'[p][m].clients,
                                  mNameToService'[m].hasClients)
    BY <1>4, Zenon DEF NewsSound, Tells, Mine
  <2>1. m = n
    BY Zenon
  <2>2. ToReRegister(p) = {}
    BY Zenon, <1>6, <2>1 DEF ToReRegister, NamesOf
  <2>3. work'[p].at = "reRegistering" => work'[p].todo = {}
    BY Zenon, <1>2, <2>2
  <2>4. Tells(inbox[CounterOf[p]], Mine(p, n), mRegisteredServices[p][n].clients,
              mNameToService[n].hasClients)
    BY <1>1, <1>2, <1>6, <2>1, Zenon DEF NewsSound
  <2>5. mRegisteredServices'[p][n].registered
        => /\ inbox'[CounterOf[p]] = inbox[CounterOf[p]]
           /\ mRegisteredServices'[p][n].clients = mRegisteredServices[p][n].clients
           /\ mNameToService'[n].hasClients = mNameToService[n].hasClients
    BY Zenon, <1>2, <1>3, <1>5, <1>7
  <2>. QED  BY <1>2, <1>3, <1>5, <2>1, <2>3, <2>4, <2>5, Zenon
<1>. QED  BY Zenon, <1>12, <1>13, <1>14, <1>15, <1>16 DEF Kept

LEMMA ReRegisterSound ==
  ASSUME Base, NEW p \in Lazy, Sound(p), reRegister(p)
  PROVE  Kept(p)
<1>1. DirectoryInv /\ LazyType /\ WorkSound(p) /\ MapSound(p) /\ FoundSound(p) /\ UseSound(p)
      /\ CallbackSound(p) /\ NewsSound(p)
  BY Zenon DEF Base, Sound
<1>2. PICK n \in registers[p].names :
           /\ p \in alive /\ work[p].at = "reRegistering" /\ n \in work[p].todo /\ Has(p, n)
           /\ addService(n, Mine(p, n))
           /\ Marked(p, n, Yes)
           /\ work'[p].at = "reRegistering" /\ work'[p].todo = work[p].todo \ {n}
           /\ Own(p)
           /\ \A m \in Name : Has(p, m)' <=> Has(p, m)
  BY ReRegisterStep, Zenon
<1>3. n \in Name /\ Mine(p, n) \in Service /\ Owner[Mine(p, n)] = p /\ CounterOf[p] \in Counter
  BY Zenon, <1>1, LazyFacts
<1>4. /\ \A m \in Name : /\ ~Registering(p, m) /\ ~Registering(p, m)'
      /\ ~Ending(p) /\ ~Ending(p)' /\ registers' = registers
  BY Zenon, <1>2 DEF Registering, Ending, Own
<1>5. /\ mRegisteredServices'[p][n].registered
      /\ mRegisteredServices'[p][n].service = mRegisteredServices[p][n].service
      /\ \A m \in Name : m # n => mRegisteredServices'[p][m] = mRegisteredServices[p][m]
  BY <1>2, Zenon DEF Marked, Yes
<1>6. /\ \A m \in Name : m # n => mNameToService'[m] = mNameToService[m]
      /\ Known(n)' /\ mNameToService'[n].binder = Mine(p, n)
      /\ \A x \in Service : x # Mine(p, n) => holders'[x] = holders[x]
      /\ UNCHANGED <<mNameToClientCallback, alive>>
  BY Zenon, <1>1, <1>2, <1>3, AddFacts DEF callbacks
<1>7. \A m \in Name : /\ m = n => Found(p, m)'
                      /\ m # n => (Found(p, m)' <=> Found(p, m)) /\ (Known(m)' <=> Known(m))
  BY Zenon, <1>6 DEF Found, Known, Mine
<1>8. MapSound(p)'
  <2>1. \A m \in Name :
          Has(p, m)' => /\ m \in registers'[p].names /\ p \in CanAdd[m]
                        /\ mRegisteredServices'[p][m].service = Mine(p, m)
    BY Zenon, <1>1, <1>2, <1>4, <1>5 DEF MapSound
  <2>2. \A m \in Name : Has(p, m) /\ ~mRegisteredServices'[p][m].registered => m \in work'[p].todo
    BY Zenon, <1>1, <1>2, <1>4, <1>5 DEF MapSound
  <2>3. \A m \in Name : Has(p, m) /\ mRegisteredServices'[p][m].registered => Found(p, m)'
    BY Zenon, <1>1, <1>2, <1>5, <1>7 DEF MapSound
  <2>. QED  BY Zenon, <1>2, <1>4, <2>1, <2>2, <2>3 DEF MapSound, Mine
<1>9. FoundSound(p)'
  <2> SUFFICES ASSUME NEW m \in Name, Known(m)', Owner[mNameToService'[m].binder] = p
               PROVE  Found(p, m)' /\ Has(p, m)' /\ mRegisteredServices'[p][m].registered
    BY Zenon DEF FoundSound
  <2>1. CASE m = n
    BY Zenon, <1>2, <1>5, <1>7, <2>1
  <2>2. CASE m # n
    BY Zenon, <1>1, <1>2, <1>4, <1>5, <1>6, <1>7, <2>2 DEF FoundSound
  <2>. QED  BY Zenon, <2>1, <2>2
<1>10. UseSound(p)'
  <2> SUFFICES ASSUME NEW b \in Service, Owner[b] = p, holders'[b] # {}
               PROVE  \E m \in Name : Mine(p, m) = b /\ Has(p, m)'
    BY Zenon, <1>4 DEF UseSound, Mine
  <2>1. CASE b = Mine(p, n)
    BY Zenon, <1>2, <1>3, <2>1
  <2>2. CASE b # Mine(p, n)
    BY Zenon, <1>1, <1>2, <1>4, <1>6, <2>2 DEF UseSound
  <2>. QED  BY Zenon, <2>1, <2>2
<1>11. CallbackSound(p)'
  BY Zenon, <1>1, <1>2, <1>4, <1>6 DEF CallbackSound
<1>12. NewsSound(p)'
  <2>1. \A m \in Name : registers[p].names # {m}
    BY <1>1, <1>2, Zenon DEF NewsSound
  <2>. QED  BY <1>4, <2>1, Zenon DEF NewsSound
<1>. QED  BY Zenon, <1>8, <1>9, <1>10, <1>11, <1>12 DEF Kept

----------------------------------------------------------------------------
(* The steps of another process.                                             *)
LEMMA Elsewhere ==
  ASSUME Base, NEW p \in Lazy, Sound(p), Spares(p) /\ Quiet(p), Idle(p)
  PROVE  Kept(p)
  BY Zenon, FrameSound DEF Kept

LEMMA OwnElsewhere ==
  ASSUME NEW q \in Lazy, NEW p \in Lazy, p # q, Own(q)
  PROVE  Idle(p)
  BY Zenon DEF Own, Idle

LEMMA RegisterKept ==
  ASSUME Base, Uncontended, NEW p \in Lazy, Sound(p), NEW q \in Lazy, NEW n \in Name,
         registerService(q, n)
  PROVE  Kept(p)
<1>1. CASE q = p
  BY Zenon, <1>1, RegisterSound
<1>2. CASE q # p
  <2>1. /\ addService(n, Mine(q, n)) /\ Own(q) /\ Mine(q, n) \in Service /\ Owner[Mine(q, n)] = q
    BY Zenon, RegisterStep, LazyFacts DEF Base
  <2>2. Spares(p) /\ Quiet(p)
    BY Zenon, <1>2, <2>1, AddSpares
  <2>. QED  BY Zenon, <1>2, <2>1, <2>2, Elsewhere, OwnElsewhere
<1>. QED  BY Zenon, <1>1, <1>2

LEMMA ForcePersistKept ==
  ASSUME Base, NEW p \in Lazy, Sound(p), NEW q \in Lazy, NEW persist, forcePersist(q, persist)
  PROVE  Kept(p)
<1>1. CASE q = p
  BY Zenon, <1>1, ForcePersistSound
<1>2. CASE q # p
  <2>1. /\ Own(q)
        /\ UNCHANGED <<mNameToService, mNameToClientCallback, inbox, holders, alive>>
    BY Zenon, ForcePersistStep DEF smVars
  <2>. QED  BY Zenon, <1>2, <2>1, NothingSpares, Elsewhere, OwnElsewhere
<1>. QED  BY Zenon, <1>1, <1>2

LEMMA AddClientKept ==
  ASSUME Base, NEW p \in Lazy, Sound(p), NEW q \in Lazy, addClientCallback(q)
  PROVE  Kept(p)
<1>1. CASE q = p
  BY Zenon, <1>1, AddClientSound
<1>2. CASE q # p
  <2>1. PICK n \in registers[q].names :
          /\ registerClientCallback(n, Mine(q, n), CounterOf[q]) \/ UNCHANGED smVars
          /\ Own(q)
    BY Zenon, AddClientStep
  <2>2. /\ n \in Name /\ Mine(q, n) \in Service /\ CounterOf[q] \in Counter
        /\ Owner[CounterOf[q]] # p
    BY Zenon, <1>2, LazyFacts DEF Base
  <2>3. CASE registerClientCallback(n, Mine(q, n), CounterOf[q])
    BY Zenon, <1>2, <2>1, <2>2, <2>3, RegisterClientSpares, Elsewhere, OwnElsewhere
  <2>4. CASE UNCHANGED smVars
    <3>1. UNCHANGED <<mNameToService, mNameToClientCallback, inbox, holders, alive>>
      BY Zenon, <2>4 DEF smVars
    <3>. QED  BY Zenon, <1>2, <2>1, <3>1, NothingSpares, Elsewhere, OwnElsewhere
  <2>. QED  BY Zenon, <2>1, <2>3, <2>4
<1>. QED  BY Zenon, <1>1, <1>2

LEMMA OnClientsKept ==
  ASSUME Base, NEW p \in Lazy, Sound(p), NEW q \in Lazy, onClients(q)
  PROVE  Kept(p)
<1>1. CASE q = p
  BY Zenon, <1>1, OnClientsSound
<1>2. CASE q # p
  <2>1. Own(q) /\ (UNCHANGED smVars \/ Handle(CounterOf[q]))
    <3> DEFINE m == Head(inbox[CounterOf[q]])
    <3>1. /\ Own(q)
          /\ \/ UNCHANGED <<smVars, mRegisteredServices, work>>
             \/ \E n \in Name : TakesIn(q, n, m)
      BY OnClientsStep, Zenon
    <3>. QED  BY <3>1, Zenon DEF TakesIn
  <2>2. CASE Handle(CounterOf[q])
    <3>1. CounterOf[q] \in Listener \cup Counter /\ Owner[CounterOf[q]] # p
      BY Zenon, <1>2, LazyFacts DEF Base
    <3>. QED  BY Zenon, <1>2, <2>1, <2>2, <3>1, HandleSpares, Elsewhere, OwnElsewhere
  <2>3. CASE UNCHANGED smVars
    <3>1. UNCHANGED <<mNameToService, mNameToClientCallback, inbox, holders, alive>>
      BY Zenon, <2>3 DEF smVars
    <3>. QED  BY Zenon, <1>2, <2>1, <3>1, NothingSpares, Elsewhere, OwnElsewhere
  <2>. QED  BY Zenon, <2>1, <2>2, <2>3
<1>. QED  BY Zenon, <1>1, <1>2

LEMMA TryUnregisterKept ==
  ASSUME Base, NoneHold, NEW p \in Lazy, Sound(p), NEW q \in Lazy, tryUnregister(q)
  PROVE  Kept(p)
<1>1. CASE q = p
  BY Zenon, <1>1, TryUnregisterSound
<1>2. CASE q # p
  <2>1. PICK n \in registers[q].names, ok \in BOOLEAN :
          tryUnregisterService(n, Mine(q, n), ok) /\ Own(q)
    BY Zenon, TryUnregisterStep
  <2>2. n \in Name /\ Mine(q, n) \in Service /\ Owner[Mine(q, n)] # p
    BY Zenon, <1>2, LazyFacts DEF Base
  <2>. QED  BY Zenon, <1>2, <2>1, <2>2, TryUnregisterSpares, Elsewhere, OwnElsewhere
<1>. QED  BY Zenon, <1>1, <1>2

LEMMA ExitKept ==
  ASSUME Base, NEW p \in Lazy, Sound(p), NEW q \in Lazy, exit(q)
  PROVE  Kept(p)
<1>1. CASE q = p
  BY Zenon, <1>1, ExitSound
<1>2. CASE q # p
  BY Zenon, <1>2, ExitStep, DieSpares, Elsewhere, OwnElsewhere
<1>. QED  BY Zenon, <1>1, <1>2

LEMMA ReRegisterKept ==
  ASSUME Base, Uncontended, NEW p \in Lazy, Sound(p), NEW q \in Lazy, reRegister(q)
  PROVE  Kept(p)
<1>1. CASE q = p
  BY Zenon, <1>1, ReRegisterSound
<1>2. CASE q # p
  <2>1. PICK n \in registers[q].names : addService(n, Mine(q, n)) /\ Own(q)
    BY Zenon, ReRegisterStep
  <2>2. n \in Name /\ Mine(q, n) \in Service /\ Owner[Mine(q, n)] # p
    BY Zenon, <1>2, LazyFacts DEF Base
  <2>. QED  BY Zenon, <1>2, <2>1, <2>2, AddSpares, Elsewhere, OwnElsewhere
<1>. QED  BY Zenon, <1>1, <1>2

LEMMA ReRegisteredKept ==
  ASSUME Base, NEW p \in Lazy, Sound(p), NEW q \in Lazy, reRegistered(q)
  PROVE  Kept(p)
<1>1. CASE q = p
  BY Zenon, <1>1, ReRegisteredSound
<1>2. CASE q # p
  <2>1. /\ Own(q)
        /\ UNCHANGED <<mNameToService, mNameToClientCallback, inbox, holders, alive>>
    BY Zenon, ReRegisteredStep DEF smVars
  <2>. QED  BY Zenon, <1>2, <2>1, NothingSpares, Elsewhere, OwnElsewhere
<1>. QED  BY Zenon, <1>1, <1>2

LEMMA UsesKept ==
  ASSUME Base, Uncontended, NEW p \in Lazy, Sound(p), NEW q \in Others, Uses(q)
  PROVE  Kept(p)
<1>1. q \in Proc /\ q # p
  BY Zenon DEF Others, Base, DirectoryInv, DirectoryType
<1>2. Idle(p)
  BY Zenon DEF Uses, lazyVars, Idle
<1>3. ASSUME NEW n \in Name, NEW start \in BOOLEAN, tryGetService(q, n, start)
      PROVE  Spares(p) /\ Quiet(p)
  BY Zenon, <1>1, <1>3, GetSpares
<1>4. ASSUME NEW n \in Name, NEW l \in Listener, registerForNotifications(n, l)
      PROVE  Spares(p) /\ Quiet(p)
  BY Zenon, <1>4, RegisterForSpares
<1>5. ASSUME NEW n \in Name, NEW l \in Listener, unregisterForNotifications(n, l)
      PROVE  Spares(p) /\ Quiet(p)
  BY Zenon, <1>5, UnregisterForSpares
<1>6. ASSUME NEW n \in Name, NEW b \in Service, Owner[b] = q, addService(n, b)
      PROVE  Spares(p) /\ Quiet(p)
  BY Zenon, <1>1, <1>6, AddSpares
<1>7. ASSUME NEW n \in Name, NEW b \in Service, Owner[b] = q, NEW c \in Counter,
             registerClientCallback(n, b, c)
      PROVE  Spares(p) /\ Quiet(p)
  <2>1. Owner[c] # p
    BY Zenon, <1>1, <1>7 DEF registerClientCallback
  <2>. QED  BY Zenon, <1>7, <2>1, RegisterClientSpares
<1>8. ASSUME NEW n \in Name, NEW b \in Service, Owner[b] = q, NEW ok \in BOOLEAN,
             tryUnregisterService(n, b, ok)
      PROVE  Spares(p) /\ Quiet(p)
  BY Zenon, <1>1, <1>8, TryUnregisterSpares
<1>9. Spares(p) /\ Quiet(p)
  BY <1>3, <1>4, <1>5, <1>6, <1>7, <1>8, Zenon DEF Uses, Client, Server
<1>. QED  BY Zenon, <1>2, <1>9, Elsewhere

(* The processes that use LazyServiceRegistrar remain the same.              *)
LEMMA NextLazy ==
  ASSUME Base, [Next]_vars
  PROVE  Lazy' = Lazy
<1>1. ASSUME NEW q \in Lazy, addClientCallback(q) \/ onClients(q) \/ tryUnregister(q) \/ exit(q)
             \/ reRegister(q) \/ reRegistered(q)
      PROVE  registers' = registers
  BY <1>1, Zenon DEF addClientCallback, onClients, tryUnregister, exit, reRegister, reRegistered
<1>2. registers' = registers
  BY <1>1, Zenon DEF Next, LazySteps, registerService, forcePersist, Uses, Dies, LetsGo, Started, Tick,
                     Obituary, vars, lazyVars
<1>. QED  BY Zenon, <1>2 DEF Lazy

LEMMA KeptNext ==
  ASSUME Base, Uncontended, NoneHold, NEW p \in Lazy, Sound(p), [Next]_vars
  PROVE  Kept(p)
<1>1. ASSUME NEW q \in Lazy, NEW n \in Name, registerService(q, n) PROVE Kept(p)
  BY Zenon, <1>1, RegisterKept
<1>2. ASSUME NEW q \in Lazy, NEW persist \in BOOLEAN, forcePersist(q, persist) PROVE Kept(p)
  BY Zenon, <1>2, ForcePersistKept
<1>3. ASSUME NEW q \in Lazy, LazySteps(q) PROVE Kept(p)
  BY <1>3, AddClientKept, OnClientsKept, TryUnregisterKept, ExitKept, ReRegisterKept,
     ReRegisteredKept, Zenon DEF LazySteps
<1>4. ASSUME NEW q \in Others, Uses(q) PROVE Kept(p)
  BY Zenon, <1>4, UsesKept
<1>5. ASSUME UNCHANGED lazyVars, Spares(p) /\ Quiet(p) PROVE Kept(p)
  <2>1. Idle(p)
    BY Zenon, <1>5 DEF lazyVars, Idle
  <2>. QED  BY Zenon, <1>5, <2>1, Elsewhere
<1>6. ASSUME NEW q \in Proc, Dies(q) PROVE Kept(p)
  BY Zenon, <1>5, <1>6, DieSpares DEF Dies
<1>7. ASSUME NEW q \in Others, LetsGo(q) PROVE Kept(p)
  <2>1. q # p /\ UNCHANGED lazyVars
    BY Zenon, <1>7 DEF Others, LetsGo
  <2>2. ASSUME NEW b \in Service, Drop(q, b) PROVE Spares(p) /\ Quiet(p)
    BY Zenon, <2>2, DropSpares
  <2>3. ASSUME NEW o \in Listener \cup Counter, Owner[o] = q, Handle(o) PROVE Spares(p) /\ Quiet(p)
    BY Zenon, <2>1, <2>3, HandleSpares
  <2>. QED  BY <1>5, <1>7, <2>1, <2>2, <2>3, Zenon DEF LetsGo
<1>8. CASE Started
  <2>1. /\ UNCHANGED lazyVars
        /\ UNCHANGED <<mNameToService, mNameToClientCallback, inbox, holders, alive>>
    BY Zenon, <1>8 DEF Started, interfaceStart, callbacks
  <2>. QED  BY Zenon, <1>5, <2>1, NothingSpares
<1>9. CASE Tick
  <2>1. UNCHANGED lazyVars /\ Idle(p)
    BY Zenon, <1>9 DEF Tick, lazyVars, Idle
  <2>2. ASSUME NEW n \in Name, handleServiceClientCallback(n) PROVE Kept(p)
    BY <2>1, <2>2, CheckSound, Zenon DEF Kept
  <2>3. ASSUME handleClientCallbacks PROVE Kept(p)
    <3>1. UNCHANGED <<mNameToService, mNameToClientCallback, inbox, holders, alive>>
      BY Zenon, <2>3 DEF handleClientCallbacks, callbacks
    <3>. QED  BY Zenon, <1>5, <2>1, <3>1, NothingSpares
  <2>. QED  BY <1>9, <2>2, <2>3, Zenon DEF Tick
<1>10. CASE Obituary
  BY Zenon, <1>5, <1>10, DiedSpares DEF Obituary
<1>11. CASE UNCHANGED vars
  <2>1. /\ UNCHANGED lazyVars
        /\ UNCHANGED <<mNameToService, mNameToClientCallback, inbox, holders, alive>>
    BY Zenon, <1>11 DEF vars, smVars
  <2>. QED  BY Zenon, <1>5, <2>1, NothingSpares
<1>. QED
  BY <1>1, <1>2, <1>3, <1>4, <1>6, <1>7, <1>8, <1>9, <1>10, <1>11, Zenon DEF Next

LEMMA NotFatalNext ==
  ASSUME Inv, Base, [Next]_vars
  PROVE  NotFatal'
<1>1. NotFatal
  BY Zenon DEF Inv
<1>2. ASSUME registers' = registers, fatal' = fatal PROVE NotFatal'
  BY Zenon, <1>1, <1>2 DEF NotFatal, OneService, Lazy
<1>3. ASSUME NEW q \in Lazy, onClients(q) PROVE NotFatal'
  BY Zenon, <1>1, <1>3, OnClientsNotFatal DEF Inv
<1>4. ASSUME UNCHANGED lazyVars PROVE NotFatal'
  BY Zenon, <1>2, <1>4 DEF lazyVars
<1>5. ASSUME NEW q \in Lazy, NEW n \in Name, registerService(q, n) PROVE NotFatal'
  BY Zenon, <1>2, <1>5 DEF registerService
<1>6. ASSUME NEW q \in Lazy, NEW persist \in BOOLEAN, forcePersist(q, persist) PROVE NotFatal'
  BY Zenon, <1>2, <1>6 DEF forcePersist
<1>7. ASSUME NEW q \in Lazy, addClientCallback(q) PROVE NotFatal'
  BY Zenon, <1>2, <1>7 DEF addClientCallback
<1>8. ASSUME NEW q \in Lazy, tryUnregister(q) PROVE NotFatal'
  BY Zenon, <1>2, <1>8 DEF tryUnregister
<1>9. ASSUME NEW q \in Lazy, exit(q) PROVE NotFatal'
  BY Zenon, <1>2, <1>9 DEF exit
<1>10. ASSUME NEW q \in Lazy, reRegister(q) PROVE NotFatal'
  BY Zenon, <1>2, <1>10 DEF reRegister
<1>11. ASSUME NEW q \in Lazy, reRegistered(q) PROVE NotFatal'
  BY Zenon, <1>2, <1>11 DEF reRegistered
<1>. QED
  BY <1>3, <1>4, <1>5, <1>6, <1>7, <1>8, <1>9, <1>10, <1>11, Zenon
  DEF Next, LazySteps, Uses, Dies, LetsGo, Started, Tick, Obituary, vars

LEMMA InvNext ==
  ASSUME Inv, Uncontended, NoneHold, [Next]_vars
  PROVE  Inv'
<1>1. Base
  BY Zenon DEF Inv, Base, Sound
<1>2. Base'
  BY Zenon, <1>1, BaseNext
<1>3. NotFatal'
  BY Zenon, <1>1, NotFatalNext
<1>4. Lazy' = Lazy
  BY Zenon, <1>1, NextLazy
<1>5. ASSUME NEW p \in Lazy PROVE Sound(p)'
  <2>1. Kept(p)
    BY Zenon, <1>1, KeptNext DEF Inv
  <2>2. WorkSound(p)'
    BY Zenon, <1>2, <1>4 DEF Base
  <2>. QED  BY <2>1, <2>2, Zenon DEF Kept, Sound
<1>. QED  BY <1>2, <1>3, <1>4, <1>5, Zenon DEF Inv, Base

LEMMA InvInit == Init => Inv
<1> SUFFICES ASSUME Init PROVE Inv
  BY Zenon
<1>1. SMInit /\ mRegisteredServices = [p \in Lazy |-> [n \in Name |-> NoService]]
      /\ work = [p \in Lazy |-> Free] /\ fatal = "none"
  BY Zenon DEF Init
<1>2. Base
  BY Zenon, BaseInit
<1>3. ASSUME NEW p \in Lazy PROVE Sound(p)
  <2>1. /\ \A n \in Name : ~Has(p, n) /\ ~Registering(p, n) /\ ~Known(n)
        /\ work[p].at = "free" /\ ~Ending(p)
    BY Zenon, <1>1 DEF Has, Registering, Ending, SMInit, Known, Free
  <2>2. CounterOf[p] \in Counter
    BY Zenon, <1>2, LazyFacts DEF Base
  <2>3. MapSound(p) /\ FoundSound(p)
    BY Zenon, <2>1 DEF MapSound, FoundSound
  <2>4. UseSound(p)
    BY Zenon, <1>1 DEF UseSound, SMInit
  <2>5. CallbackSound(p)
    BY Zenon, <1>1, <2>1, <2>2 DEF CallbackSound, SMInit
  <2>6. inbox[CounterOf[p]] = <<>>
    BY Zenon, <1>1, <2>2 DEF SMInit
  <2>7. ~(work[p].at = "reRegistering")
    BY Zenon, <2>1
  <2>8. NewsSound(p)
    BY <2>1, <2>6, <2>7, Zenon DEF NewsSound
  <2>9. WorkSound(p)
    BY Zenon, <1>2 DEF Base
  <2>. QED  BY Zenon, <2>3, <2>4, <2>5, <2>8, <2>9 DEF Sound
<1>. QED  BY Zenon, <1>1, <1>2, <1>3 DEF Inv, Base, NotFatal

(* A process only gets to its exit by way of exit.                           *)
LEMMA ExitOnly ==
  ASSUME Base, NEW p \in Lazy, [Next]_vars, work'[p].at = "exited"
  PROVE  work[p].at = "exited" \/ exit(p)
<1> SUFFICES ASSUME ~exit(p) PROVE work'[p] = work[p] \/ work'[p].at # "exited"
  BY Zenon
<1>1. ASSUME NEW q \in Lazy, q # p, Own(q) PROVE work'[p] = work[p]
  BY Zenon, <1>1 DEF Own
<1>2. ASSUME NEW q \in Lazy, NEW n \in Name, registerService(q, n)
      PROVE  work'[p] = work[p] \/ work'[p].at # "exited"
  <2>1. Own(q) /\ work'[q].at = "registering"
    BY Zenon, <1>2, RegisterStep
  <2>. QED  BY Zenon, <1>1, <2>1
<1>3. ASSUME NEW q \in Lazy, NEW persist \in BOOLEAN, forcePersist(q, persist)
      PROVE  work'[p] = work[p] \/ work'[p].at # "exited"
  <2>1. Own(q) /\ MaybeEnding(q)
    BY Zenon, <1>3, ForcePersistStep
  <2>. QED  BY Zenon, <1>1, <2>1 DEF MaybeEnding
<1>4. ASSUME NEW q \in Lazy, addClientCallback(q)
      PROVE  work'[p] = work[p] \/ work'[p].at # "exited"
  <2>1. Own(q) /\ work'[q].at = "free"
    BY Zenon, <1>4, AddClientStep
  <2>. QED  BY Zenon, <1>1, <2>1
<1>5. ASSUME NEW q \in Lazy, onClients(q)
      PROVE  work'[p] = work[p] \/ work'[p].at # "exited"
  <2> DEFINE m == Head(inbox[CounterOf[q]])
  <2>1. Own(q) /\ (UNCHANGED work \/ \E n \in Name : TakesIn(q, n, m))
    BY <1>5, OnClientsStep, Zenon
  <2>2. UNCHANGED work \/ MaybeEnding(q)
    BY <2>1, Zenon DEF TakesIn
  <2>. QED  BY Zenon, <1>1, <2>1, <2>2 DEF MaybeEnding
<1>6. ASSUME NEW q \in Lazy, tryUnregister(q)
      PROVE  work'[p] = work[p] \/ work'[p].at # "exited"
  <2>1. Own(q) /\ work'[q].at \in {"unregistering", "reRegistering"}
    BY Zenon, <1>6, TryUnregisterStep
  <2>. QED  BY Zenon, <1>1, <2>1
<1>7. ASSUME NEW q \in Lazy, exit(q)
      PROVE  work'[p] = work[p] \/ work'[p].at # "exited"
  BY Zenon, <1>1, <1>7, ExitStep
<1>8. ASSUME NEW q \in Lazy, reRegister(q)
      PROVE  work'[p] = work[p] \/ work'[p].at # "exited"
  <2>1. Own(q) /\ work'[q].at = "reRegistering"
    BY Zenon, <1>8, ReRegisterStep
  <2>. QED  BY Zenon, <1>1, <2>1
<1>9. ASSUME NEW q \in Lazy, reRegistered(q)
      PROVE  work'[p] = work[p] \/ work'[p].at # "exited"
  <2>1. Own(q) /\ work'[q].at = "free"
    BY Zenon, <1>9, ReRegisteredStep
  <2>. QED  BY Zenon, <1>1, <2>1
<1>10. ASSUME UNCHANGED lazyVars PROVE work'[p] = work[p]
  BY Zenon, <1>10 DEF lazyVars
<1>. QED
  BY <1>2, <1>3, <1>4, <1>5, <1>6, <1>7, <1>8, <1>9, <1>10, Zenon
  DEF Next, LazySteps, Uses, Dies, LetsGo, Started, Tick, Obituary, vars

INSTANCE FiniteSetTheorems

LEMMA NoneHoldIt == NoneHold
<1> SUFFICES ASSUME NEW S \in SUBSET Proc, 1 + Cardinality(S) + 1 <= 2 PROVE S = {}
  BY Zenon DEF NoneHold
<1>1. IsFiniteSet(Proc)
  BY Owners, Zenon
<1>2. IsFiniteSet(S)
  BY <1>1, FS_Subset, Zenon
<1>3. Cardinality(S) \in Nat
  BY <1>2, FS_CardinalityType, Zenon
<1>4. Cardinality(S) = 0
  BY <1>3
<1>. QED  BY <1>2, <1>4, FS_EmptySet, Zenon

LEMMA SpecInv ==
  ASSUME Uncontended PROVE Spec => []Inv
<1>1. Inv /\ [Next]_vars => Inv'
  BY Zenon, InvNext, NoneHoldIt
<1>. QED  BY <1>1, InvInit, PTL DEF Spec

(* Where no two processes may add a service under one name, a process with   *)
(* one service is only told of changes of what it knows: it never stops with *)
(* "Process already thought", nor the service manager at one of its CHECKs.  *)
THEOREM OnlyNewsTold ==
  ASSUME Uncontended PROVE Spec => []ToldOfNews
<1>1. Inv => ToldOfNews
  <2>1. Inv => ClientChecksHold /\ NotFatal
    BY Zenon DEF Inv, DirectoryInv, ChecksPass, ClientChecksHold
  <2>2. NotFatal => ToldOfChangesOnly
    <3>1. fatal = "none" => fatal # "already thought so"
      BY Zenon
    <3>. QED  BY <3>1, Zenon DEF NotFatal, ToldOfChangesOnly
  <2>. QED  BY <2>1, <2>2, Zenon DEF ToldOfNews
<1>. QED  BY <1>1, SpecInv, PTL

(* A process that holds mMutex for nothing has all its services registered,  *)
(* after a refused tryUnregisterService too, and, once it has handled all    *)
(* callbacks about its one service, agrees with the service manager on its   *)
(* clients.                                                                  *)
THEOREM RegistrationsAlwaysAgree ==
  ASSUME Uncontended PROVE Spec => []RegistrationsAgree
<1>1. ASSUME Inv PROVE RegistrationsAgree
  <2>1. Base
    BY <1>1, Zenon DEF Inv, Base, Sound
  <2>2. ASSUME NEW p \in Lazy, NEW n \in Name, At(p, "free"), Has(p, n)
        PROVE  mRegisteredServices[p][n].registered /\ Known(n) /\ n \in registers[p].names
    <3>1. p \in alive /\ work[p].at = "free" /\ MapSound(p)
      BY Zenon, <1>1, <2>2 DEF At, Live, Inv, Sound
    <3>2. mRegisteredServices[p][n].registered /\ n \in registers[p].names
      BY Zenon, <2>2, <3>1 DEF MapSound, Ending
    <3>. QED  BY Zenon, <2>2, <3>1, <3>2 DEF MapSound, Found
  <2>3. ASSUME NEW p \in Lazy, NEW n \in Name, At(p, "free"), Has(p, n),
               inbox[CounterOf[p]] = <<>>, OneService(p)
        PROVE  mRegisteredServices[p][n].clients = mNameToService[n].hasClients
    <3>1. mRegisteredServices[p][n].registered /\ registers[p].names = {n}
      BY Zenon, <2>2, <2>3 DEF OneService
    <3>2. p \in alive /\ NewsSound(p)
      BY Zenon, <1>1, <2>3 DEF At, Live, Inv, Sound
    <3>3. Tells(inbox[CounterOf[p]], Mine(p, n), mRegisteredServices[p][n].clients,
                mNameToService[n].hasClients)
      BY <2>3, <3>1, <3>2, Zenon DEF NewsSound
    <3>. QED  BY Zenon, <2>3, <3>3 DEF Tells
  <2>4. AllRegistered
    BY <2>2, Zenon DEF AllRegistered
  <2>5. RecordsAgree
    BY <2>3, Zenon DEF RecordsAgree
  <2>. QED  BY Zenon, <2>4, <2>5 DEF RegistrationsAgree
<1>2. Inv => RegistrationsAgree
  BY Zenon, <1>1
<1>. QED  BY <1>2, SpecInv, PTL

(* When tryShutdownLocked comes to its exit, no client has a reference to a  *)
(* service of the process.                                                   *)
THEOREM ExitsOnlyUnused ==
  ASSUME Uncontended PROVE Spec => ExitsUnused
<1> DEFINE Unused == \A p \in Lazy : ~At(p, "exited") /\ work'[p].at = "exited" =>
                       \A b \in Service : Owner[b] = p => holders[b] = {}
<1>1. ASSUME Inv, [Next]_vars PROVE [Unused]_vars
  <2> SUFFICES ASSUME NEW p \in Lazy, work'[p].at = "exited", NEW b \in Service, Owner[b] = p
               PROVE  holders[b] = {}
    BY Zenon
  <2>1. Base
    BY <1>1, Zenon DEF Inv, Base, Sound
  <2>2. work[p].at = "exited" \/ exit(p)
    BY Zenon, <1>1, <2>1, ExitOnly
  <2>3. Ending(p) /\ work[p].todo = {}
    BY Zenon, <2>1, <2>2, ExitStep DEF Base, WorkSound, Ending
  <2>4. \A n \in Name : ~Registering(p, n)
    BY Zenon, <2>3 DEF Registering
  <2>. QED  BY Zenon, <1>1, <2>3, <2>4 DEF Inv, Sound, UseSound
<1>2. Inv /\ [Next]_vars => [Unused]_vars
  BY Zenon, <1>1
<1>. QED  BY <1>2, SpecInv, PTL DEF Spec, ExitsUnused
=============================================================================
