------------------------ MODULE LazyServiceRegistrar ------------------------
(* Processes whose services end when nobody uses them                        *)
(* (LazyServiceRegistrar.cpp), together with the service manager they talk   *)
(* to: the service manager tells a process about clients with oneway calls,  *)
(* which the process handles, when it comes to them, under its mMutex, by    *)
(* calling back into the service manager.                                    *)
EXTENDS ServiceManager

CONSTANTS Scenarios,    \* a set of records with registers and gets, below
          ServiceFor,   \* [Proc -> [Name -> Service]]
          CounterOf     \* [Proc -> its ClientCounterCallbackImpl]

(* A process registers services of its own, with its own callback object.    *)
ASSUME LazyProcesses ==
  \A s \in Scenarios : \A p \in DOMAIN s.registers :
    /\ p \in Proc /\ s.registers[p].names \subseteq Name
    /\ CounterOf[p] \in Counter /\ Owner[CounterOf[p]] = p
    /\ \A n \in s.registers[p].names : ServiceFor[p][n] \in Service /\ Owner[ServiceFor[p][n]] = p

(* NoService is no record of a service.                                      *)
ASSUME NoRecord ==
  /\ NoService \notin [binder : Service, hasClients : BOOLEAN, guaranteeClient : BOOLEAN]
  /\ NoService \notin [service : Service, clients : BOOLEAN, registered : BOOLEAN]

VARIABLES registers,             \* [Lazy -> the names it registers, and whether it has an
                                 \* active services callback]
          mRegisteredServices,   \* [Lazy -> [Name -> entry or NoService]]
          mForcePersist,         \* [Lazy -> BOOLEAN]
          mPreviousHasClients,   \* [Lazy -> "none", "yes" or "no"]
          work,                  \* [Lazy -> what the holder of mMutex is doing]
          fatal,                 \* the LOG_ALWAYS_FATAL that was reached, or "none"
          gets                   \* bound: calls of the other processes, deaths and uses of
                                 \* forcePersist that are left

Lazy == DOMAIN registers   \* the processes that use LazyServiceRegistrar

lazyVars == <<registers, mRegisteredServices, mForcePersist, mPreviousHasClients, work, fatal>>
vars == <<smVars, lazyVars, gets>>

Free == [at |-> "free", todo |-> {}]
Unregistering(names) == [at |-> "unregistering", todo |-> names]
ReRegistering(names) == [at |-> "reRegistering", todo |-> names]

Init == /\ SMInit
        /\ \E s \in Scenarios : registers = s.registers /\ gets = s.gets
        /\ mRegisteredServices = [p \in Lazy |-> [n \in Name |-> NoService]]
        /\ mForcePersist = [p \in Lazy |-> FALSE]
        /\ mPreviousHasClients = [p \in Lazy |-> "none"]
        /\ work = [p \in Lazy |-> Free]
        /\ fatal = "none"

Live(p) == fatal = "none" /\ p \in alive
At(p, where) == Live(p) /\ work[p].at = where
Goto(p, w) == work' = [work EXCEPT ![p] = w]
Mine(p, n) == ServiceFor[p][n]
Has(p, n) == mRegisteredServices[p][n] # NoService
NamesOf(p) == {n \in registers[p].names : Has(p, n)}

----------------------------------------------------------------------------
(* registerService of a name for the first time: addService, ...             *)
registerService(p, n) ==
  /\ At(p, "free") /\ n \in registers[p].names /\ ~Has(p, n)
  /\ addService(n, Mine(p, n))
  /\ Goto(p, [at |-> "registering", todo |-> {n}])
  /\ UNCHANGED <<registers, mRegisteredServices, mForcePersist, mPreviousHasClients, fatal, gets>>

(* ... then registerClientCallback, refused when the name is no longer its.  *)
addClientCallback(p) ==
  /\ At(p, "registering")
  /\ \E n \in work[p].todo :
       \/ /\ registerClientCallback(n, Mine(p, n), CounterOf[p])
          /\ mRegisteredServices' = [mRegisteredServices EXCEPT ![p][n] =
               [service |-> Mine(p, n), clients |-> FALSE, registered |-> TRUE]]
       \/ /\ Ready
          /\ Known(n) => mNameToService[n].binder # Mine(p, n)
          /\ UNCHANGED <<smVars, mRegisteredServices>>
  /\ Goto(p, Free)
  /\ UNCHANGED <<registers, mForcePersist, mPreviousHasClients, fatal, gets>>

(* maybeTryShutdownLocked, where services are those it then has.  The        *)
(* callback of the application says whether it has handled the change.       *)
Connected(services) == {n \in Name : services[n] # NoService /\ services[n].clients}

maybeTryShutdownLocked(p, services, persist) ==
  LET has == IF Connected(services) # {} THEN "yes" ELSE "no"
      asks == ~persist /\ registers[p].callback /\ has # mPreviousHasClients[p]
  IN  /\ mPreviousHasClients' = [mPreviousHasClients EXCEPT ![p] = IF asks THEN has ELSE @]
      /\ \E handled \in (IF asks THEN BOOLEAN ELSE {FALSE}) :
           Goto(p, IF ~persist /\ ~handled /\ has = "no" THEN Unregistering(NamesOf(p)) ELSE Free)

(* onClients: the service manager's message, handled under mMutex.           *)
onClients(p) ==
  /\ At(p, "free")
  /\ LET c == CounterOf[p] IN
     /\ inbox[c] # <<>>
     /\ LET m == Head(inbox[c])
            ours == {n \in Name : Has(p, n) /\ mRegisteredServices[p][n].service = m.binder}
            n == CHOOSE x \in ours : TRUE
        IN  IF ours = {}
            THEN /\ fatal' = "callback for unknown service"
                 /\ UNCHANGED <<smVars, mRegisteredServices, mPreviousHasClients, work>>
            ELSE IF mRegisteredServices[p][n].clients = m.clients
            THEN /\ fatal' = "already thought so"
                 /\ UNCHANGED <<smVars, mRegisteredServices, mPreviousHasClients, work>>
            ELSE LET services == [mRegisteredServices[p] EXCEPT ![n].clients = m.clients] IN
                 /\ Handle(c)
                 /\ mRegisteredServices' = [mRegisteredServices EXCEPT ![p] = services]
                 /\ maybeTryShutdownLocked(p, services, mForcePersist[p])
                 /\ UNCHANGED fatal
  /\ UNCHANGED <<registers, mForcePersist, gets>>

forcePersist(p, persist) ==
  /\ At(p, "free") /\ gets > 0
  /\ gets' = gets - 1
  /\ mForcePersist' = [mForcePersist EXCEPT ![p] = persist]
  /\ maybeTryShutdownLocked(p, mRegisteredServices[p], persist)
  /\ UNCHANGED <<smVars, registers, mRegisteredServices, fatal>>

----------------------------------------------------------------------------
(* Faulty variant: the process ends though a service could not be removed.   *)
GoesOn(p, ok) == TRUE
(* Faulty variant: after a refusal nothing is registered again.              *)
NothingToReRegister(p) == {}

(* tryUnregisterLocked stops at the first refusal.                           *)
Continues(p, ok) == ok

(* reRegisterLocked takes the services it has unregistered.                  *)
ToReRegister(p) == {n \in NamesOf(p) : ~mRegisteredServices[p][n].registered}

(* One turn of tryUnregisterLocked's loop, which goes by the names in an     *)
(* order that says nothing; at its end the process exits.                    *)
tryUnregister(p) ==
  /\ At(p, "unregistering")
  /\ \E n \in work[p].todo, ok \in BOOLEAN :
       /\ tryUnregisterService(n, Mine(p, n), ok)
       /\ mRegisteredServices' = [mRegisteredServices EXCEPT ![p][n].registered = ~ok]
       /\ Goto(p, IF Continues(p, ok) THEN Unregistering(work[p].todo \ {n})
                  ELSE ReRegistering(ToReRegister(p)))
  /\ UNCHANGED <<registers, mForcePersist, mPreviousHasClients, fatal, gets>>

exit(p) ==
  /\ At(p, "unregistering") /\ work[p].todo = {}
  /\ Die(p)
  /\ Goto(p, [at |-> "exited", todo |-> {}])
  /\ UNCHANGED <<registers, mRegisteredServices, mForcePersist, mPreviousHasClients, fatal, gets>>

reRegister(p) ==
  /\ At(p, "reRegistering")
  /\ \E n \in work[p].todo :
       /\ addService(n, Mine(p, n))
       /\ mRegisteredServices' = [mRegisteredServices EXCEPT ![p][n].registered = TRUE]
       /\ Goto(p, ReRegistering(work[p].todo \ {n}))
  /\ UNCHANGED <<registers, mForcePersist, mPreviousHasClients, fatal, gets>>

reRegistered(p) ==
  /\ At(p, "reRegistering") /\ work[p].todo = {}
  /\ Goto(p, Free)
  /\ UNCHANGED <<smVars, registers, mRegisteredServices, mForcePersist, mPreviousHasClients, fatal, gets>>
----------------------------------------------------------------------------
LazySteps(p) == \/ addClientCallback(p) \/ onClients(p) \/ tryUnregister(p) \/ exit(p)
                \/ reRegister(p) \/ reRegistered(p)

(* The other processes use the service manager as they like.  They handle    *)
(* what they are sent, and let services go again.                            *)
Uses(p) == (Client(p) \/ Server(p)) /\ UNCHANGED lazyVars

LetsGo(p) ==
  /\ \/ \E b \in Service : Drop(p, b)
     \/ \E o \in Listener \cup Counter : Owner[o] = p /\ Handle(o)
  /\ UNCHANGED <<lazyVars, gets>>

Dies(p) == Live(p) /\ Die(p) /\ UNCHANGED lazyVars

(* The service manager's own events.                                         *)
Tick == /\ handleClientCallbacks \/ \E n \in Name : handleServiceClientCallback(n)
        /\ UNCHANGED <<lazyVars, gets>>
Obituary == (\E o \in Object : binderDied(o)) /\ UNCHANGED <<lazyVars, gets>>

Started == (\E n \in Name : interfaceStart(n)) /\ UNCHANGED <<lazyVars, gets>>

Others == alive \ Lazy

Next == \/ \E p \in Lazy : \/ \E n \in Name : registerService(p, n)
                           \/ \E persist \in BOOLEAN : forcePersist(p, persist)
                           \/ LazySteps(p)
        \/ gets > 0 /\ gets' = gets - 1 /\ \E p \in Others : Uses(p)
        \/ gets > 0 /\ gets' = gets - 1 /\ \E p \in Proc : Dies(p)
        \/ \E p \in Others : LetsGo(p)
        \/ Started
        \/ Tick
        \/ Obituary

Spec == Init /\ [][Next]_vars

(* The timer of the service manager keeps ticking, the processes handle what *)
(* they are sent, the looper comes to each of their calls in the end, and    *)
(* clients let go of services.                                               *)
FairSpec == /\ Spec
            /\ WF_vars(Tick)
            /\ \A p \in Proc : /\ SF_vars(p \in Lazy /\ LazySteps(p))
                                /\ WF_vars(p \in Others /\ LetsGo(p))

----------------------------------------------------------------------------
(* "Process already thought %s had clients": a process with one service is   *)
(* only told of changes of what it knows.                                    *)
OneService(p) == \E n \in Name : registers[p].names = {n}
ToldOfChangesOnly == (\A p \in Lazy : OneService(p)) => fatal # "already thought so"

(* The service manager and the process agree that a callback tells news.     *)
ToldOfNews == ClientChecksHold /\ ToldOfChangesOnly

(* Once a process with one service has handled all it was sent, it and the   *)
(* service manager agree on whether the service has clients.                 *)
RecordsAgree ==
  \A p \in Lazy, n \in Name :
    /\ At(p, "free") /\ inbox[CounterOf[p]] = <<>> /\ OneService(p)
    /\ Has(p, n) /\ Known(n) /\ mNameToService[n].binder = Mine(p, n)
    => mRegisteredServices[p][n].clients = mNameToService[n].hasClients

(* A process that exits leaves no client with a dead service: whoever has a  *)
(* reference when tryShutdownLocked comes to its exit keeps it alive.        *)
ExitsUnused ==
  [][\A p \in Lazy : ~At(p, "exited") /\ work'[p].at = "exited" =>
       \A b \in Service : Owner[b] = p => holders[b] = {}]_vars

(* A process that goes on has all its services registered again.             *)
AllRegistered ==
  \A p \in Lazy, n \in Name :
    At(p, "free") /\ Has(p, n) => mRegisteredServices[p][n].registered /\ Known(n)

(* A process that has nothing to do stands as the service manager has it.    *)
RegistrationsAgree == RecordsAgree /\ AllRegistered

(* A service whose hand-out was recorded, and that is not wanted any more,   *)
(* ends, if the application leaves that to LazyServiceRegistrar.             *)
UnusedServicesEnd ==
  \A p \in Proc, n \in Name :
    (/\ p \in Lazy /\ ~registers[p].callback /\ Has(p, n)
     /\ Known(n) /\ mNameToService[n].guaranteeClient)
    ~> (~Live(p) \/ (p \in Lazy /\ mForcePersist[p]))

=============================================================================
