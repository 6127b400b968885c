# A TLA+ model of libbinder and the service manager

This directory holds TLA+ specifications of the binder library (`libs/binder`)
and of the service manager (`cmds/servicemanager`): RPC sessions, kernel binder,
parcels, shared memory, the NDK's view of binders, and the directory of services.
With them are the TLC configurations that check them on small instances, and
proofs, checked by TLAPS, of six components for every size of them.
`PROJECT.json` lists the components, runs, properties, mutants, the source lines
behind each definition, the hazards of the code and the theorems.

## 1. The system

Binder lets a process call objects of another process. There are two ways to
carry such a call, and a directory of objects on top of them.

| Part | State it keeps | What changes it | What it talks to |
|---|---|---|---|
| `RpcState` | per end of a session, a table from wire addresses to nodes: the object or proxy, `timesSent`, `timesRecd`, `sentRef`, `asyncNumber`, `asyncTodo` | binders written to and read from parcels, calls, replies, decrements, the last strong reference to a proxy, shutdown | `BpBinder`, `Parcel`, `RpcSession`'s connections |
| `RpcSession` connections | the outgoing and incoming connections, who owns each, who sleeps for one | `ExclusiveConnection::find` and its destructor, connections being added | every caller of `RpcState` |
| `RpcSession` life cycle | incoming threads, the shutdown trigger, the event listener | `setupClient`, `join`, `shutdownAndWait` | `RpcServer`, `FdTrigger` |
| `RpcServer` | the join loop, threads that are connecting, the sessions by id | `join`, `establishConnection`, the end of a session, `shutdown` | `RpcSession` |
| `ServiceManager` | services, listeners and client callbacks by name; `guaranteeClient`, `hasClients` | its interface calls, a timer, deaths | the driver's reference counts, every process |
| `LazyServiceRegistrar` | the services of a process and whether each has clients | notifications of the service manager, `forcePersist`, the exit | `ServiceManager` |
| `IPCThreadState`, `ProcessState` | per thread the commands to and from the driver and the pending decrements; per process the handle table and the thread pool | driver commands, transactions, threads that join and leave | the kernel driver, `BpBinder`, `BBinder` |
| `BpBinder`, `BBinder` | obituaries, attached objects, proxy counts; extras, the RPC link | link, unlink and death, attach, the last reference | `IPCThreadState`, `RpcSession` |
| `Parcel` and its relatives | a buffer, the objects in it, their ownership | writers, readers, truncation, growth | everything |
| `MemoryDealer`, `IMemory` | the chunks of a heap; mappings of remote heaps with counts | allocate, deallocate, map, death of the owner | `Parcel` |
| `IServiceManager` (client) | waiters for a service | `waitForService`, a notification | `ServiceManager` |
| NDK and Rust bindings | death recipients and their cookies, wrappers | link, unlink, death | `BpBinder` |
| Commands and helpers | per-thread output buffers, a dump thread with a time-out, a permission cache | | |

Behaviours that make this hard: `RpcState` releases `mNodeMutex` between the
steps of an operation, and the references, decrements and oneway calls of a
session travel over several sockets with no order between them; a thread that
waits for a reply serves nested calls; either end may go away at any step; a
connection pool with a condition variable; thread lists and connection lists
that a shutdown waits for; a directory whose notifications are oneway, so that
the processes act on what was true some time ago; processes that die; proxies
that are revived between the two halves of their last decrement; a parcel whose
objects belong to whoever holds the buffer, while it grows, is cut, is copied, or
an allocation fails in between.

What makes it correct: references are neither lost nor given back twice, so
that an object lives exactly as long as it is used; fatal checks never fire;
calls return; oneway calls on an object run in their order; a connection has
one user; no sleeper is forgotten; shutdown comes back and leaves nothing
running; what died is forgotten; a lazy service ends when nobody uses it and
never under a client; what is read from a parcel is what was written to it, or an
error; memory that was handed out is not overwritten, and a pointer into it is
into a live mapping.

## 2. Modules

### RPC sessions

**`RpcRefs`** is the abstract specification of what a session promises about
references. The tables of the two ends are counters per address: `timesSent`
and `timesRecd` of the nodes, the references and decrements on their way, and
the proxy, which is absent, in use, or inside `onLastStrongRef`. Its actions are
`onBinderLeaving` (`Send`), `onBinderEntering` (`Receive`), the decrements of
`flushExcessBinderRefs` (`Acknowledge`) and `onLastStrongRef` (`Drop`,
`Release`), `processDecStrong` (`ReceiveDec`) and `clear` (`Close`).

**`RpcState`** models `RpcState.cpp` in detail. A thread is a stack of frames
(the caller's side of a call, a command being served, `onLastStrongRef`), and
one action is one critical section of `mNodeMutex` with the send or the local
work that follows it, so each place where the code unlocks and locks again is
an interleaving point. The commands sent to one end form a bag. Fatal checks,
and uses of iterators or pointers that may be null, are outcomes in `aborted`.
`rpcSend` and `rpcRec` fail once an end is gone; the failure shuts the session
down in the same step, as the code does. **`RpcStateRefs`** is the refinement
mapping to `RpcRefs`.

**`RpcConnections`** models `ExclusiveConnection`: `find` with its search for
the thread's own connection, a free one, or a nested incoming one, the rotation
of oneway calls, the condition variable with its waiting count, the destructor
with its conditional wake-up, and `addOutgoingConnection`, which publishes a
connection that its own thread still owns.

**`RpcServer`** models the server and the server's side of its sessions: the
join loop, `establishConnection` before and under the lock,
`assignIncomingConnectionToThisThread`, an init message that is refused (the
thread leaves and the session goes on), the end of the serving loop with its three
separate critical sections, and `shutdown`.
**`RpcClientSession`** models the other end: `setupClient` with its clean-up,
the incoming threads, `shutdownAndWait(true)`, and a server that may go away.

### Services

**`ServiceManager`** has one action per call of the interface that changes the
directory, the timer that counts clients, and deaths; the reference counts and
the delivery of calls by the driver are external. A vector of callbacks is a
count per callback: in which order different callbacks are called shows nowhere.
A pass of the timer is one step per name (`checking`), in which no other call is
taken, but processes may already handle what it has sent.
**`LazyServiceRegistrar`** composes it with processes that use
`LazyServiceRegistrar.cpp`: their steps call the service manager's actions, and
`tryUnregisterLocked`, `exit` and `reRegisterLocked` are separate steps because
each is a call to another process.

### Kernel binder

**`BpBinder`** models the proxies of a process for objects behind the kernel
driver: `BpBinder.cpp`, the handle table of `ProcessState.cpp` and the commands
that each thread collects in `mOut`. A thread has an agenda of the steps it is
about to take, one per critical section or driver call, so that a proxy can be
revived between the two halves of its last decrement. The driver is a record
that executes commands in the order they are written: reference counts per
handle, death notifications and their cookies.

**`IPCThreadState`** models the binder threads: `startThreadPool`,
`joinThreadPool`, `spawnPooledThread`, `requestExit` and
`blockUntilThreadAvailable`, and on each thread a stack of frames for commands,
outgoing calls and the changes a handler makes to the identity and the work
source of the thread. `executeCommand` is a step before and a step after the
code of the object. The tokens for identities and work sources are modelled with
the sign extension of the code.

**`AIBinder`** is the NDK's view of a remote object (`ndk/ibinder.cpp`): the
`ABpBinder` that stands for it and is found again through a `Value` attached to
the object, weak references, the class associated with it, and a death recipient
with the `TransferDeathRecipient` it makes for every link. The object below is a
proxy as `BpBinder` has it, reduced to a count, the `Value` and the obituaries.
As in `BpBinder` a thread has an agenda, one entry per critical section.

### Parcels

These modules are operators from a parcel to an outcome (the parcel after the
call, the status, the value read), one per method, and two state machines that
call them.

**`Parcel`** is the buffer: position, size, capacity, object list, the cached
knowledge about descriptors, growth with its three branches in `continueWrite`,
`appendFrom`, `ipcSetDataReference`, `freeData`, and the acquisition and release
of objects. Data is counted in words of four bytes, the unit that writes are
padded to. **`Parcels`** lets one process call these methods on two parcels in any
order, with allocations that fail. Its history variable `taken` is the
descriptors that were closed with a driver's buffer while the parcel kept their
entries (section 5).

**`ParcelData`** is `writeData` and `readData` of `Parcel.h` for every type they
dispatch on (scalars, strings in both encodings, binders, descriptors, vectors,
fixed arrays, optionals, parcelables, holders, bundles, `Status`, blobs, native
handles, flattenables). **`AParcel`** is the same for the NDK, for `std` types and
for pointers. **`RequestHeader`** is the interface token with the strict mode
policy and the work source. **`Interfaces`** gives the requests and replies of the
hand-written interfaces as the fields that each proxy and each stub writes and
reads, and the argument passing of `SafeInterface`. **`ParcelValues`** writes
values with one library, sends them through the driver, a session, a relay or a
copy, whole or cut, and reads them with a library.

### Shared memory

**`MemoryDealer`** is the best-fit allocator with its list of chunks, the
merging of free neighbours and the return of whole pages to the system;
allocating and freeing are split where the code leaves the allocator's lock.
**`IMemory`** composes it with a client: `BpMemory`, `BpMemoryHeap` and the
`HeapCache` with its counts, the locks each takes, and transactions and `mmap`s
that fail.

### Conventions

The `MC*` modules define the instances; the `*Proofs` modules hold the theorems.
Data is abstracted to what the properties distinguish: an address is its creator
and a number, in `RpcState` a parcel is the binder it carries, if any, a session
is named by the thread that made it. Logging is left out. In the
parcel modules, where values matter, values are kept and a word is the integer or
the bytes it holds. Definitions that start with "Faulty variant" are slips
against which the properties are validated; no specification uses them.

## 3. What is checked

| Run | Module | States | Shows |
|---|---|---|---|
| `rpc_refs` | `MCRpcRefs` | 48 thousand | `Conservation`, `NodeOutlivesReferences` of the counting protocol |
| `rpc_session` | `MCRpcState` | 140 thousand | `RefinesRpcRefs`: each critical section of the code is a step of `RpcRefs` or none; `ChecksThatHold`: the fatal checks that no interleaving fails; `NothingLeaks`: once all is quiet no oneway call is left in a queue, and once all is dropped no node is left, but those of objects called oneway; `OnewaySequential`; `CallsReturn` |
| `connections` | `MCRpcConnections` | 36 thousand | `ConnectionsExclusive`: whoever uses a connection owns it, and a nested call goes where it is read; `FindReturns` |
| `rpc_server` | `RpcServer` | 224 thousand | `LifeCycleSound`: the fatal checks hold, the trigger outlives the threads that wait on it, each session in the map has a thread that will take it out; `ShutdownTerminates` |
| `client_session` | `RpcClientSession` | 2540 | `ShutdownComplete`: `shutdownAndWait(true)` returns, nothing of the session runs after it, and it can only meet a thread that was refused a connection |
| `service_manager` | `MCLazyServiceRegistrar` | 123 thousand | `ToldOfNews`: the CHECKs hold and a client callback is told of changes only; `DeadAreForgotten`; `RegistrationsAgree`: both sides agree on what is registered and used; `ExitsUnused`; `UnusedServicesEnd` |
| `proxies` | `MCBpBinder` | 153 thousand | `DriverCounts`: references are conserved and handles used are valid; `ProxiesNamed`: a handle has one proxy and the table never a dead one; `ToldOnlyWhileLinked`; `NothingLeaks`; `DeathsReported` |
| `threads` | `MCIPCThreadState` | 118 thousand | `PoolSound`: the driver's requests for threads are answered and an exit leaves no thread but late ones; `IdentityKept`: the caller's identity and header come back after a nested call; `TokensRestore`; `WaitersReturn` |
| `parcels` | `MCParcels` | 1.09 million | `ObjectsConserved`: references and descriptors are released exactly once, but for descriptors in a buffer taken over from the driver (section 5), and the knowledge about descriptors is not stale; `ObjectsGuarded`: objects are never read as data; `MemoryCounted`: the memory in use is what was allocated, for data and for the object list |
| `parcel_values` | `MCParcelValues` | 149 thousand | `ValuesArrive`: what is read is what was written, or an error; `ReaderOwnsDescriptors`; `WorkSourceArrives` |
| `memory` | `IMemory` | 767 thousand | `ContentsKept`; `RoomIsFound`: free room is one chunk, however it was freed; `PointersGood`: a pointer is into a live mapping, to its own allocation; `MappingReleased` |
| `ndk_binders` | `MCAIBinder` | 1.02 million | `ProxiesHold`: an `ABpBinder` in use holds its object once and none is left over; `AssociatedStays`; `CookiesReleasedOnce`: `onUnlinked` once per link and `onDied` not after it; `DeathsTold` |

Each property is paired with a mutant, a plausible slip in one mapped definition
under which TLC finds the property violated.

**Bounds.**

* `RpcRefs`: one address of each end and three references each way, so that both
  ends play both roles and counts above one occur.
* `RpcState`: `Passing` has four threads whose two calls pass two binders, enough
  for the same address to travel both ways at once. `Ending` has two roots and a
  shutdown, so that a session ends while a proxy is dropped. `Nested` has calls
  nested to depth three, and four oneway calls over two serving threads: the
  queue fills to its limit and the number reaches its maximum. `MaxId = 1` makes
  the address counter wrap.
* `RpcConnections`: two calling threads and a serving one; set-ups with no
  connection, one, and a second one being added; nested use to depth three.
* `RpcServer`: three connections, at most two per session, so that a session can
  be joined, left and joined in vain; two lives of the server.
  `RpcClientSession`: two set-ups with two incoming threads each.
* `ServiceManager`: a client and a server, which is lazy with one service, lazy
  with two and an active-services callback, or an ordinary process; three to five
  calls of the others, which includes the second registration of a callback and
  either death.
* `BpBinder`: a looper and another thread, one handle, two proxies (one being
  destroyed while the next is made); two arrivals of the handle with two
  recipients, three without.
* `IPCThreadState`: a pool of up to four threads and three calls, with two
  waiters and a maximum that grows, or with an exit; and one thread on which three
  calls nest and handlers make three changes.
* `Parcels`: an object takes two words and a first buffer three, so that every
  growth, every cut between objects and every position inside an object occurs in
  four to seven calls; one allocation may fail at either of two places.
* `ParcelValues`: one value of every type, sent in every way and cut at every
  word; every pair of values in a row through the driver; every message of
  the interfaces but the two that section 5 names; requests followed by a value. Three readers (`libbinder`, the
  NDK with `std` types and with pointers) meet two writers.
* `MemoryDealer`: six units in a heap of three pages, two callers and sizes from 0
  to more than a page, so that chunks are split, refused and merged on either
  side; two client threads, three real heaps, a count of up to four.
* `AIBinder`: three threads, six calls of each group; four proxies and five links
  are more than these calls can need at once. Threads, cookies and the classes of
  one descriptor are symmetric: no property tells them apart, and no operator
  chooses among them. The run has no temporal property.

The runs stop when the bounds are used up, so TLC's deadlock check is off; the
liveness properties say what must not stop.

**Fairness.** Weak fairness of the threads' own steps: the operating system
schedules a thread that can run. In `RpcState` it is weaker, that some thread
runs as long as one can, and a command on a socket is read by a thread that waits
for one. In `RpcServer` a wait for the peer only has to end once the trigger that
interrupts it has fired: a silent client is not assumed to go away. In `BpBinder`
every thread finishes what it began and frees its parcels, and only loopers are
sure to come back to the driver. In `IPCThreadState` handlers end and calls are
answered. In `LazyServiceRegistrar` the timer of the service manager keeps
ticking, and clients let go of services in the end. The steps of a lazy process
are strongly fair: they call the service manager, which is busy during each pass
of its timer and comes to every caller in the end. Calls by applications, deaths,
obituaries and `forcePersist` are never fair. The
other modules state safety only, over every prefix of every behaviour.

## 4. What is proved

Each proof has an inductive invariant, which TLC checked on the run's instance
before it was proved, one lemma per action, and a last step that combines them.

**`RpcRefsProofs`**, for every set of addresses, every assignment of creators and
every bound `MaxRefs`, from the assumptions that the two ends differ and each
address has a creator:

* `TypeCorrect`: the counters stay natural numbers, although the code subtracts
  from unsigned ones;
* `ReferencesConserved`: what one end counts as sent is on its way, counted as
  received, or on its way back;
* `ProxiesCounted`, `DecsAlwaysCovered` and `NodesOutliveReferences`: a proxy
  exists exactly while it has references to give back; a decrement never exceeds
  the count it is taken from; the creator's node outlives every reference.

The inductive invariant is `TypeOK /\ ProxyCounted /\ Conservation`.
`NodeOutlivesReferences` alone is not inductive: that a node is still there when
a decrement arrives depends on the references still under way, which
`Conservation` accounts for, and that a proxy which was sent back is alive
depends on `ProxyCounted`.

**`RpcConnectionsProofs`**, for any number of threads and connections, any depth
of nested calls and any number of calls: `ExclusiveConnections`, that
`ConnectionsExclusive` always holds. It is assumed that each connection is listed
once and is either outgoing or incoming, that a serving thread has a connection
of its own, and that the threads that add connections do nothing else.
`ConnectionsExclusive` speaks about the frames that use a connection and is not
inductive, because a destructor releases the connection for every frame of its
thread. `Ownership` adds that of all the frames of a thread that hold a
connection, only the outermost releases it (the others are `mReentrant`).
`Nestings` adds that the bottom of a serving thread's stack decides where its
nested calls go: above a twoway call `allowNested` is set and everything twoway
stays on that connection, above a oneway call nothing does.

**`RpcServerProofs`**, for any number of connections, callers of `shutdown`, lives
of the server and threads per session: `LifeCycleIsSound`, that `LifeCycleSound`
always holds. The assumption is that a session allows at least one thread. The
invariant adds to the properties the lists that threads are in (`Belonging`), the
trigger (`Triggered`) and the stages of a session (`Stages`): no connection yet,
some, the last one lost, out of the map. That a session is taken out of the map
once depends on exactly one thread having been the one that emptied the list of
connections, and that it is taken out at all depends on that thread still being
on its way: neither can be seen from the map alone.

**`RpcClientSessionProofs`**, for any number of incoming threads, limits on
connections and set-ups: `OnlyRefusedAreLeft` (`OnlyRefusedThreadsLeft`) and
`NothingRunsAfterShutdown` (`QuietAfterShutdown`), the two halves of
`ShutdownComplete` that are not liveness. The wait looks at `mIncoming` and the
check behind it at `mThreads`; `Entered` says which threads are in each, in every
stage of a thread. A thread that is in `mThreads` and not yet in `mIncoming`
would slip past the wait: `OneJoins` says that `setupClient` still waits for such
a thread, so that nobody shuts down.

**`LazyServiceProofs`**, for any finite number of processes and any number of names,
services, callbacks and calls, with any mix of lazy and other processes, each with
any number of services. It is assumed that a lazy process registers services and a
callback of its own.

* `DeadForgotten` and `ChecksNeverFail`: an object of a dead process is found only
  while its obituary is under way, and the CHECKs of
  `sendClientCallbackNotifications` hold. The invariant `Base` adds the types,
  that obituaries are true, that what is listed was admitted, that a name which the
  timer has yet to come to has an entry and callbacks (that `Ready` keeps every
  other call out), and what the holder of `mMutex` is about (`WorkSound`).
* `OnlyNewsTold`, `RegistrationsAlwaysAgree` and `ExitsOnlyUnused` (an action
  property), under the hypothesis `Uncontended`: no two processes may add a
  service under the same name. It is needed: with two lazy processes for one
  name TLC finds each of the three violated (section 5).

  The invariant adds `Sound` for each lazy process, which ties its map to the
  directory and to the calls under way. `MapSound` and `FoundSound`: a service of
  the process is in the directory exactly while the process takes it for
  registered or is registering it. `UseSound`: a service in use is one the process
  has not unregistered, which makes its exit safe; when `tryUnregisterService`
  succeeds nobody has a reference because of the count, and nobody gets one later
  because of `FoundSound`. `NewsSound`: for a process with one service the calls in
  its queue tell of changes, one after the other, from what the process believes
  to what the service manager has recorded; agreement once the queue is empty is
  not inductive without it. It needs `CallbackSound`: the callback is registered
  exactly once for each service. A step of another process changes none of this:
  `Spares` states what it leaves alone, and `FrameSound` that this is enough.

**`IMemoryProofs`**, first the dealer, for every set of callers, all sizes, and
every size of heap, page and unit where a page is a whole number of units. Sizes
are natural numbers: the theorems speak of the code as long as a size and its
alignment fit into `size_t` (`MemoryDealer.cpp:327`) and a chunk into 28 bits of
units (line 146).

* `ContentsAreKept`: what the owner of an allocation wrote stays until it is
  freed, the pages returned to the system included; `ChunksFreedOnce`. The
  invariant is that chunks do not overlap and that each living allocation has a
  chunk in use of its own, large enough for it.
* `RoomIsAlwaysFound`: a request for which some stretch of the heap is owned by
  nobody is granted, whatever was freed before and in which order. The invariant
  adds that the chunks tile the heap, that no two free ones are neighbours, and
  that a chunk in use is no larger than its owner needs: then unowned units in a
  row lie in one free chunk. That merging keeps this needs all three, since
  `dealloc` looks at one neighbour on each side and trusts that there is no more
  to merge. Tiling is stated without chains of chunks: every unit of the heap is in
  a chunk.
* `ContentsKeptForClients` and `RoomFoundForClients`: the same with the client of
  `IMemory` composed, whose steps are steps of the dealer or leave it alone.

Then its clients, for any number of threads, proxies and real heaps, any bound on
the counts, and with every failure of a transaction or an `mmap`:
`PointersStayGood`, that a thread at the end of `unsecurePointer` has a pointer
into a mapping, at the range of a living allocation; and `MappingIsReleased`, that
as long as nothing has failed the last proxy takes the mapping with it. It is
assumed that threads and proxies are finitely many and that their names differ
from those of mappings. The invariant `CInv` ties the count of the cached heap to
what it counts: the proxies that copied the mapping and the threads between
`find_heap` and their copy. The count covers them always, and is exact while
nothing has failed: a heap whose mapping was copied before its descriptor was set
is never freed, so the count only errs upwards. The rest says what a thread knows
at each place of `assertMapped`, that a `BpMemory` has one user, and that a real
heap which is mapped stays so, because whoever maps it holds its lock until the
descriptor is set.

**`IPCThreadStateProofs`**, for any finite number of threads, any pool, any depth of
nested calls and any changes that handlers make: `PoolStaysSound`,
`IdentityIsKept` and `TokensDoRestore` (an action property). It is assumed that the main
thread is one of the threads and that process and user ids are not negative, which the
packing of tokens needs. The invariant has two halves:

* of the stacks: a frame holds what is to come back when it is
  left, stated relative to the frame below it, so that entering or leaving frames
  keeps it for all the others. A call carries a work source only if a frame of the
  same handler holds one (`HasSet`). The identity itself cannot be inductive: what
  comes back after a nested call is in the frames only.
* of the pool: what a thread may hold at each place
  (`PlaceSound`), that only the caller of `requestExit` acts on its steps
  (`ExiterSound`), and that a thread still in the pool when it has looked is late
  or has nothing to do (`ExitSound`).

**`AIBinderProofs`**, for any finite number of threads and `ABpBinder`s and any number
of links, classes, cookies and calls: `ProxiesHoldTheirObject`,
`AssociatedClassStays`, `CookiesAreReleasedOnce` and `LinkedCookiesAreTold`. It is
assumed that the names of `ABpBinder`s and classes differ from those for
"none", and that links are numbered in the order they are made in. A thread works
off an agenda, so the invariant says which agendas there are, and has two halves
that need each other:

* `RefInv`, of references: the strong count of an `ABpBinder` is the number of
  threads that hold it, and its weak count adds the threads that keep it weakly, the decrements still on an agenda and
  the entry in `ABpBinderTag::Value` (`Counted`). The object is held once for all of
  them (`RemoteHeldOnce`), and an entry that names an `ABpBinder` nobody holds is one
  that some thread is about to empty (`ValueKept`). That a class stays is not
  inductive: it goes with the last weak reference, so it depends on all counts.
* `DeathInv`, of links: a `TransferDeathRecipient` is counted by the list it is in and
  by the thread that reports to it; `onUnlinked` was called for it exactly when
  neither is left; one thread at most reports deaths, and only after the obituaries
  were sent; and a link whose recipient is alive is still with it and its death listed
  or being reported, or its cookie was told (`LinkSound`). The cookie appears there,
  not the link, because `binderDied` takes out the last link with its cookie, which
  need not be its own.

Facts about finite sets that the lemmas need (`SizesOf`, `NobodyElse`, `NoneHold`) are hypotheses
of these lemmas, and are proved from the library's theorems before the last
theorem of each module.

**Model-checked only.** Liveness is outside the prover's logic. `RefinesRpcRefs`
and the other properties of `RpcState` are not proved, since `RpcStateRefs` sums
over bags and sets of frames and a proof needs induction over them. The typed parcel
values are recursive over types, and the buffers of `Parcels` are rewritten by folds
over their object lists, which again needs induction over data; so do the sums over
threads in `BpBinder`.

## 5. Disagreements between the code and what it says of itself

The modules contain definitions for these that no run uses. Each is found
violated with the change given to a run's configuration:

* `FlushFindsNode` in `rpc_session`: `flushExcessBinderRefs` aborts with "Can't be
  deleted while we hold sp<>" (`RpcState.cpp:196`) when another thread's decrement
  erased the node after `onBinderEntering` released the lock.
* `OnewayRefsFlushed` in `rpc_session`: a oneway call with nothing queued behind it
  returns at `RpcState.cpp:935` and keeps the reference it came with; the comment
  at line 954 says "done processing all the async commands on this binder that we
  can, so write decstrongs on the binder".
* `FindReturns` in `connections`, with `SetUps <- First`: the thread that sets up
  the first connection gives it up (`RpcSession.cpp:725`) without waking a thread
  that already sleeps for it.
* `LinksAreRegistered` in `proxies`, with `Scenarios <- LinkScenarios`:
  `onLastStrongRef` (`BpBinder.cpp:525`) leaves the command that clears a death
  notification in the buffer of its thread; a recipient that another thread links
  to the revived proxy loses its notification.
* `AtMostOneProxy` in `ndk_binders`: "at most one ABpBinder object exists in a given
  process" (`ndk/ibinder.cpp:268`). An `ABpBinder` whose last reference is going
  empties the `Value` (line 255) after another thread may have revived it, and the
  next lookup makes a second one. `ProxiesHold` shows that both are freed.
* `NamedAreOpen` in `parcels`: "If there is a different owner, we need to take
  posession" (`Parcel.cpp:2478`), but the descriptors in the driver's buffer are not
  duplicated. `continueWrite` copies their entries and lets `freeBuffer` close them
  (line 2512, `closeFileDescriptors` from `IPCThreadState.cpp:1478`), so a parcel
  that was received and then grown names descriptors that are closed, and releasing
  an entry whose sender set the cookie closes the number again. `FdsOwned`
  says that no other entry names a closed descriptor.
* `ValuesArrive` in `parcel_values`, with `Scenarios <- MCAllMessages`:
  `BpUidObserver::onUidProcAdjChanged` (`IUidObserver.cpp:70`) writes no interface
  token, which its stub checks; `BnShellCallback` (`IShellCallback.cpp:73`) writes
  an `int32` before the descriptor that its proxy (line 48) does not read.

Of `RpcState`, `RpcServer`, `RpcSession`, `IPCThreadState` and the services, met by
stating the check as an invariant (`aborted[p] # "..."`) with the bounds given:

* `RpcState.cpp:648`: two threads give back the references of one address; the
  second finds no node and aborts, although the comment at line 654 expects
  "multiple threads send dec refs at the same time" (two calls, two binders).
* `RpcState.cpp:274`: `clear` aborts with "expected to be owned" between the last
  strong reference to a proxy and the erasure of its node (two roots, a
  shutdown); in the same window `onBinderEntering` succeeds with a null binder,
  which `flushExcessBinderRefs` dereferences (two roots).
* `RpcState.cpp:809` and `:1056`: a decrement overtakes oneway calls on another
  socket; the node is used without being found, or is erased with calls in its
  queue (two oneway calls, three serving threads).
* `RpcState.cpp:905`: a proxy that is dropped and received again numbers its
  oneway calls from 0; `OnewaySequential` fails, and calls stay in the queue, with
  two roots and two oneway calls.
* `RpcServer.cpp:435`: the server aborts when the client of a connection the
  other way is gone before the init message is sent. `ChecksHold` excepts it.
* `RpcSession.cpp:225`: "Shutdown failed" when a thread was refused a connection
  and has not yet left `mThreads`. `OnlyRefusedThreadsLeft` says it is the only
  way.
* `IPCThreadState.cpp:408`: a work source token made while the work source is
  unset (-1) has the propagation bit set by sign extension, so that restoring it
  turns propagation on. `binderLibTest.cpp:1092` (`PropagateFlagRestored`) expects
  it off, and starts from work source 0. What calls carry stays unset
  (`TokensRestore`) unless a handler restores a token before it calls
  `enforceInterface`; `HeaderOnlyIfSet` is about handlers that call it first.
* `ProcessState.cpp:532`: "may actually be one more than this, if join is called";
  the thread of `startThreadPool` is not counted in the maximum either, so there
  can be two more (a maximum of one, a thread that joins: three threads).
* `ProcessState.cpp:145`: a thread that registers between the last look at
  `mThreadPoolSet` and the assignment of `mExitRequested` stays in the driver, or
  leaves with a call it has read and not served. `OnlyLateThreadsStay` says
  that no other thread does.
* `ProcessState.cpp:510`: a request of the driver for a thread is ignored before
  `startThreadPool`, and the driver asks again only when a thread has registered.
  `PoolSound` is about the requests that come later.
* `ServiceManager.cpp:406`: `registerForNotifications` hands out a service
  without `guaranteeClient`, unlike `tryGetService` (line 272). A service whose
  only client came this way may never be told; `UnusedServicesEnd` is about the
  hand-outs that are recorded.
* `LazyServiceRegistrar.cpp:204`, `:247`: with two services, one unregistered and
  registered again, a notification about the old registration may still be
  waiting, and the process aborts when it is told again. `ToldOfChangesOnly` and
  `RecordsAgree` are about processes with one service.
* `LazyServiceRegistrar.cpp:176`: with two lazy processes for one name the first
  is told about the clients of the other's service and aborts; one whose
  registration was overtaken exits on the clients it already has.

Read in the code while it was modelled; the modules follow the code, and the
properties are stated for what it does:

* `Parcel.h:754` says that a null binder read as a single argument "will be
  interpreted as UNKNOWN_ERROR"; the readers return `UNEXPECTED_NULL`.
* `Parcelable.h:47` asks that after `readFromParcel` the object has "equivalent
  state to the object that wrote itself"; `PersistableBundle::readFromParcel`
  (`PersistableBundle.cpp:388`) adds to what the bundle already holds. The readers
  in `ParcelData` start from an empty bundle.
* `Parcel.cpp:2397`: `restartWrite(0)` frees a buffer and leaves
  `gParcelGlobalAllocCount` as it was; no run calls it with 0.
* `Parcel.cpp:1405`: `writeObject` looks for room in the object list before
  `growData`, which may replace the list by a smaller one if the buffer is the
  driver's. No run receives a list with room that a take-over would lose.
* The NDK reads a nullable string as null, and `PersistableBundle` itself as
  empty, where the data has ended; `NoWrongValue` names these readers.
* `BpMemory::getMemory` (`IMemory.cpp:189`) has no lock, so `IMemory` lets threads
  take turns on one `BpMemory`. A first call whose heap cannot be mapped leaves
  `mHeap` set and the size 0 for good.
* `HeapCache::binderDied` (`IMemory.cpp:430`) is never linked to a binder, and
  `fastPointer` (`:145`) is not called.
* `MemoryHeapBase.cpp:78`: when sealing fails the descriptor is closed and `mFD`
  keeps its number.
* `binder_ibinder.h:347`: "If the binder is deleted, it will be automatically
  unlinked"; `onUnlinked` comes only when the recipient prunes the entry at a later
  link, or is deleted. `CookiesReleasedOnce` says that it comes by then.
* `ndk/ibinder.cpp:452`: a death takes out the last link with its cookie, so a
  cookie that is linked twice may be told once. `DeathsTold` is about cookies, not
  about links.

## 6. What is not modelled

The reason for each component is under "components" in `PROJECT.json`. The larger
gaps:

* Local objects: the references that the driver takes on a `BBinder`, the set that
  `releaseAllBBinder` walks (`ProcessState.cpp:122`), the lock-free creation of
  the extras, `setRpcClientDebug` with its link. The hazards are listed
  without a property.
* Handle 0 (`ProcessState.cpp:458`), whose first lookup makes a call with the lock
  of the handle table held. `BpBinder` is about the other handles. Whether the
  call can come back to the lock depends on parcels that the application holds.
* The limits on the number of proxies, which warn or call a callback and change
  no other state.
* The lookup of services by clients (`waitForService`): a wait with a time-out of
  a second around calls that `ServiceManager` has.
* The transports. The session modules see a read or a write that is complete,
  fails, or is interrupted by the trigger; the retry loops for partial transfers
  are inside such a step. TLS handshakes and certificate formats are left out.
* `sendObituaries` (`RpcState.cpp:218`), which tells the recipients of a session's
  proxies before `clear`. Which socket a command of a session is on: in `RpcState`
  any thread that reads may find any command. That allows more orders than the
  sockets do, and for `CallsReturn` it assumes that an answer is read by who waits.
* A driver that cannot count references (-1 from `getNodeStrongRefCount`,
  `ServiceManager.cpp:639`), on which the service manager does nothing.
* What happens inside one promotion of `RefBase`. In `AIBinder` it is one step; two
  threads that revive an `ABpBinder` at once may each take a reference on the
  object, and the later one gives its own back in `onLastStrongRef`, which takes the
  object's lock that a lookup (`ndk/ibinder.cpp:286`) already holds.
* A death reported when the object has weak references only: `onLastStrongRef` has
  dropped the obituaries by then, and nobody is told.
* Sizes and versions on the wire of a session, which are validated message by
  message and carry no state.
* The Rust bindings: typed wrappers over the NDK functions that `AIBinder` and
  `AParcel` model. What they add is the ownership of Rust values.
* Parcels that an application fills with blobs it maps itself, text output, debug
  helpers, the command-line tools (`dumpsys`, `service`, `binderdebug`), forwarding
  through adb: input and output.
* SELinux checks, which are predicates of the caller (`CanAdd`, `CanFind`), and the
  permission cache, a list under a lock.
* Interface definitions, from which code outside this repository is generated.
