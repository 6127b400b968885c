------------------------------ MODULE Parcels -------------------------------
(***************************************************************************)
(* Parcels of one process and the calls made on them: written, read in any *)
(* order and from any position, cut, appended to each other, received from *)
(* the driver and freed.  The process keeps count of what they hold.       *)
(*                                                                         *)
(* A caller is taken to follow two rules the class does not check: data is *)
(* not written over an object, and a cut does not split an object.         *)
(***************************************************************************)
EXTENDS Parcel, FiniteSetsExt

CONSTANTS
    Ids,          \* the parcels
    Refs,         \* the binders of the process, as strong references
    Scenarios     \* what is called on which parcel: [ops, steps, fails, wire]

ASSUME ScenarioAssumption ==
    \A s \in Scenarios : s.steps \in Nat /\ s.fails \in Nat

VARIABLES
    par,     \* the parcels, without their process
    proc,    \* the process
    last,    \* the last call: name, parcel, position before, status
    scen,    \* what may still be called
    taken    \* the descriptors named by entries kept from a buffer of the driver

vars == <<par, proc, last, scen, taken>>

\* A descriptor of the caller.
OwnFd == 1

NoProc == "process"
NoCall == [op |-> "none", q |-> 0, at |-> 0, st |-> "OK"]

Init ==
    /\ scen \in Scenarios
    /\ par = [q \in Ids |-> initState(NoProc)]
    /\ proc = [strong |-> [r \in Refs |-> 0], stability |-> [r \in Refs |-> Undeclared],
               fds |-> OwnFd :> "own", nextFd |-> OwnFd + 1, allocSize |-> 0, allocCount |-> 0,
               lent |-> {}, fail |-> "none"]
    /\ last = NoCall
    /\ taken = {}

-----------------------------------------------------------------------------
\* The parcel q with its process, in a call in which allocation f fails.
With(q, f) == [par[q] EXCEPT !.proc = [proc EXCEPT !.fail = f]]

Failures == IF scen.fails = 0 THEN {"none"} ELSE {"none", "data", "objects"}

\* The descriptors the list of a parcel names.
FdsNamed(p) ==
    {obj.val : obj \in {obj \in Range(ObjectsOf(p, p.mObjects)) : obj.type = "FD"}}

\* One call on q: Op gives its outcome.
Call(op, q, Op(_)) ==
    /\ <<op, q>> \in scen.ops /\ scen.steps > 0
    /\ \E f \in Failures :
        LET o == Op(With(q, f))
        IN  /\ par' = [par EXCEPT ![q] = [o.p EXCEPT !.proc = NoProc]]
            /\ proc' = [o.p.proc EXCEPT !.fail = "none"]
            /\ taken' = IF par[q].mOwner = "driver" /\ o.p.mOwner = "none"
                        THEN taken \cup (FdsNamed(par[q]) \cap FdsNamed(o.p)) ELSE taken
            /\ last' = [op |-> op, q |-> q, at |-> par[q].mDataPos, st |-> o.st]
            /\ scen' = [scen EXCEPT !.steps = @ - 1,
                                    !.fails = IF f = "none" THEN @ ELSE @ - 1]

\* The words the objects of a parcel take.
Listed(p) == UNION {off .. off + OBJ - 1 : off \in Range(p.mObjects)}

\* A write of len words at the position disturbs no object.  The buffers of
\* the driver are mapped read-only: there a caller writes at the end.
Clear(q, len) ==
    /\ par[q].mDataPos <= par[q].mDataSize
    /\ par[q].mOwner # "none" => par[q].mDataPos = par[q].mDataSize
    /\ (par[q].mDataPos .. par[q].mDataPos + len - 1) \cap Listed(par[q]) = {}

\* Offsets that split no object.
Whole(p) == {n \in 0 .. p.mDataSize :
                \A off \in Range(p.mObjects) : n <= off \/ n >= off + OBJ}

WriteData(q) ==
    Clear(q, 1) /\ Call("writeData", q, LAMBDA p : writeAligned(p, <<Word(1)>>))
WriteBinder(q) ==
    /\ Clear(q, OBJ + 1)
    /\ \E b \in Refs \cup {NullBinder} :
        Call("writeBinder", q, LAMBDA p : flattenBinder(p, b))
WriteFd(q) ==
    Clear(q, OBJ) /\ Call("writeFd", q, LAMBDA p : writeDupFileDescriptor(p, OwnFd))

\* The caller keeps the descriptor and closes it itself.
LendFd(q) ==
    Clear(q, OBJ) /\ Call("lendFd", q, LAMBDA p : writeFileDescriptor(p, OwnFd, 0))

SetPosition(q) ==
    \E pos \in 0 .. par[q].mDataSize :
        /\ pos # par[q].mDataPos
        /\ Call("setPosition", q, LAMBDA p : Ok(setDataPosition(p, pos), "none"))
\* A received buffer is not cut before the position.
SetSize(q) ==
    \E size \in Whole(par[q]) \cup {par[q].mDataSize + 1} :
        /\ par[q].mOwner # "none" => size = 0 \/ size >= par[q].mDataPos
        /\ Call("setSize", q, LAMBDA p : setDataSize(p, size))
SetCapacity(q) ==
    Call("setCapacity", q, LAMBDA p : setDataCapacity(p, mDataCapacity(p) + 1))
SetData(q) == Call("setData", q, LAMBDA p : setData(p, <<Word(2)>>))

AllowFds(q) ==
    \/ Call("allowFds", q, LAMBDA p : pushAllowFds(p, FALSE))
    \/ Call("allowFds", q, LAMBDA p : Ok(restoreAllowFds(p, TRUE), "none"))

ReadData(q) == Call("readData", q, LAMBDA p : readAligned(p, 1))
ReadBinder(q) == Call("readBinder", q, LAMBDA p : unflattenBinder(p))
ReadFd(q) == Call("readFd", q, LAMBDA p : readFileDescriptor(p))
HasFds(q) == Call("hasFds", q, LAMBDA p : hasFileDescriptors(p))

AppendTo(q) ==
    \E src \in Ids \ {q} : \E from, to \in Whole(par[src]) :
        /\ from < to /\ par[q].mDataPos = par[q].mDataSize
        /\ Call("append", q, LAMBDA p : appendFrom(p, par[src], from, to - from))

FreeData(q) == Call("free", q, LAMBDA p : Ok(freeData(p), "none"))

\* The driver hands over a buffer: words and object offsets.  A descriptor in
\* it gets a number that is free and keeps the sender's cookie; buffers are
\* named by the step.
Receive(q) ==
    \E m \in scen.wire :
        Call("receive", q, LAMBDA p :
            LET fd == p.proc.nextFd
                hasFd == \E w \in Range(m.words) : w.type = "FD"
                words == [i \in DOMAIN m.words |->
                            IF m.words[i].type = "FD" THEN [m.words[i] EXCEPT !.val = fd]
                            ELSE m.words[i]]
                lent == [p EXCEPT !.proc.lent = @ \cup {scen.steps},
                                  !.proc.fds = IF hasFd THEN @ @@ (fd :> "sent") ELSE @,
                                  !.proc.nextFd = @ + 1]
            IN  Ok(ipcSetDataReference(lent, words, m.objects, "driver", scen.steps), "none"))

Next == \E q \in Ids :
    \/ WriteData(q) \/ WriteBinder(q) \/ WriteFd(q) \/ LendFd(q)
    \/ SetPosition(q) \/ SetSize(q) \/ SetCapacity(q) \/ SetData(q) \/ AllowFds(q)
    \/ ReadData(q) \/ ReadBinder(q) \/ ReadFd(q) \/ HasFds(q)
    \/ AppendTo(q) \/ FreeData(q) \/ Receive(q)

Spec == Init /\ [][Next]_vars

-----------------------------------------------------------------------------
(* Properties                                                              *)

SumOver(S, F(_)) == MapThenSumSet(F, S)

\* The objects the list of a parcel names.
Held(q) == ObjectsOf(par[q], par[q].mObjects)
Owning == {q \in Ids : par[q].mOwner = "none"}

\* Every strong reference that acquire_object took is released once: the count
\* a binder has from parcels is the number of list entries that name it, in
\* the parcels that own their data.
RefsConserved ==
    \A r \in Refs : proc.strong[r] =
        SumOver(Owning, LAMBDA q :
            Cardinality({i \in DOMAIN Held(q) : r \in RefOf(Held(q)[i])}))

\* Every entry for a descriptor names an open one, every descriptor open but the
\* caller's own is that of one entry that owns it, and the caller's is owned by
\* none: none is closed while an entry names it, closed twice, or left open when
\* its entry is gone (release_object, closeFileDescriptors, the error paths of
\* writeDupFileDescriptor).  The exception is what continueWrite does when it
\* takes a buffer of the driver over: it keeps the entries for descriptors that
\* freeBuffer closes.  These, and no others, name a closed descriptor.
FdsOwned ==
    LET Entries == {e \in UNION {{<<q, i>> : i \in DOMAIN Held(q)} : q \in Ids} :
                        Held(e[1])[e[2]].type = "FD"}
        Fd(e) == Held(e[1])[e[2]].val
        Owners == {e \in Entries : Held(e[1])[e[2]].cookie # 0 \/ e[1] \notin Owning}
        Open == DOMAIN proc.fds
    IN  /\ \A e \in Entries : Fd(e) \in Open <=> Fd(e) \notin taken
        /\ Open = ({Fd(e) : e \in Owners} \ taken) \cup {OwnFd}
        /\ \A e, f \in Owners : Fd(e) # OwnFd /\ (Fd(e) = Fd(f) => e = f)

\* The exception left out: every entry names an open descriptor.  No run uses it.
NamedAreOpen == \A q \in Ids : FdsNamed(par[q]) \subseteq DOMAIN proc.fds

\* Reads of data never deliver a word of a listed object, whatever the order the
\* objects were written in and wherever the hint and the sorted flag of the list
\* stand ("Don't allow non-object reads on object data"), and a listed descriptor is
\* found by readObject from any position of the hint once the list is in order.
ObjectsGuarded ==
    LET p == par[last.q]
    IN  /\ last.op = "readData" /\ last.st = "OK" => last.at \notin Listed(p)
        /\ (/\ last.op = "readFd" /\ last.at \in Range(p.mObjects)
            /\ Sorted(p.mObjects) /\ ObjectAt(p, last.at).type = "FD")
           => last.st = "OK"

\* A parcel that says it knows its descriptors and has none names none: the
\* cached flag is never stale where it would let a descriptor through.
FdsKnown ==
    \A q \in Ids : par[q].mFdsKnown /\ ~par[q].mHasFds =>
        \A i \in DOMAIN Held(q) : Held(q)[i].type # "FD"

\* What the entries of parcels hold is held, once each, and known.
ObjectsConserved == RefsConserved /\ FdsOwned /\ FdsKnown

\* gParcelGlobalAllocCount and gParcelGlobalAllocSize count the buffers that
\* parcels allocated and their capacities, through growth, failed growth,
\* hand-over and freeing, the list of objects never outgrows the memory allocated
\* for it, and a buffer of the driver is lent exactly as long as a parcel refers
\* to it.
MemoryCounted ==
    LET mapped == {q \in Owning : par[q].mapped}
    IN  /\ proc.allocCount = Cardinality(mapped)
        /\ proc.allocSize = SumOver(mapped, LAMBDA q : mDataCapacity(par[q]))
        /\ \A q \in Ids : mObjectsSize(par[q]) <= par[q].mObjectsCapacity
        /\ proc.lent = {par[q].buffer : q \in {q \in Ids : par[q].mOwner = "driver"}}
=============================================================================
