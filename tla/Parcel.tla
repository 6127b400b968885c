------------------------------- MODULE Parcel -------------------------------
(***************************************************************************)
(* The buffer of android::Parcel: data, object list and what they own.    *)
(*                                                                         *)
(* A parcel is a record with the fields of the class.  Data is counted in  *)
(* words of four bytes, the unit every write is padded to; mData is the    *)
(* sequence of the words allocated, so its length is mDataCapacity, and    *)
(* "mapped" says that mData is not null.  A flat_binder_object takes OBJ   *)
(* words: the first holds the object, the others Rest.  mObjects is the    *)
(* sequence of the offsets, counted from 0 as in the code.                 *)
(*                                                                         *)
(* What the methods change outside the parcel is the record proc: the      *)
(* strong counts that acquire_object and release_object move, the open     *)
(* file descriptors (a function from numbers to the files they are open    *)
(* on), the two global allocation counters, the buffers the driver has     *)
(* lent, and "fail", the allocation that fails in this call.               *)
(* It travels in the parcel's field proc.                                  *)
(*                                                                         *)
(* A method is an operator from a parcel to an outcome: the parcel after   *)
(* the call, the status, and the value read.                               *)
(***************************************************************************)
EXTENDS Integers, Sequences, FiniteSets, SequencesExt

CONSTANTS
    OBJ,         \* words of a flat_binder_object
    MinWords     \* least capacity of a first allocation: 128 bytes

ASSUME ParcelAssumption == OBJ \in Nat \ {0} /\ MinWords \in Nat \ {0}

Ok(p, v) == [p |-> p, st |-> "OK", v |-> v]
Fail(p, e) == [p |-> p, st |-> e, v |-> "none"]

\* if (status != OK) return status
Then(o, F(_, _)) == IF o.st = "OK" THEN F(o.p, o.v) ELSE o
\* if (status != OK) return e
FailsAs(o, e) == IF o.st = "OK" THEN o ELSE Fail(o.p, e)

Smaller(a, b) == IF a < b THEN a ELSE b
Larger(a, b) == IF a < b THEN b ELSE a

-----------------------------------------------------------------------------
(* Objects and the references an entry of the list stands for.  val is the *)
(* union of binder and handle.                                             *)

Rest == [type |-> "rest", val |-> 0, cookie |-> 0]
Local(b) == [type |-> "BINDER", val |-> b, cookie |-> b]
Handle(h) == [type |-> "HANDLE", val |-> h, cookie |-> 0]
FileDesc(fd, own) == [type |-> "FD", val |-> fd, cookie |-> own]
NullObject == [type |-> "BINDER", val |-> 0, cookie |-> 0]

\* A word of plain data.
Word(v) == [type |-> "word", val |-> v, cookie |-> 0]

Words(obj) == <<obj>> \o [i \in 1 .. OBJ - 1 |-> Rest]

Close(fds, gone) == Restrict(fds, DOMAIN fds \ gone)

\* The strong reference an object stands for, if it stands for one.
RefOf(obj) ==
    IF obj.type = "BINDER" /\ obj.val # 0 THEN {<<"BBinder", obj.cookie>>}
    ELSE IF obj.type = "HANDLE" THEN {<<"BpBinder", obj.val>>}
    ELSE {}

Count(proc, obj, d) ==
    IF RefOf(obj) = {} THEN proc
    ELSE [proc EXCEPT !.strong[CHOOSE r \in RefOf(obj) : TRUE] = @ + d]
acquire_object(proc, obj) == Count(proc, obj, 1)
release_object(proc, obj) ==
    LET gone == IF obj.type = "FD" /\ obj.cookie # 0 THEN {obj.val} ELSE {}
    IN  [Count(proc, obj, -1) EXCEPT !.fds = Close(@, gone)]

ObjectAt(p, off) == p.mData[off + 1]

acquireAll(proc, objs) == FoldLeft(acquire_object, proc, objs)
releaseAll(proc, objs) == FoldLeft(release_object, proc, objs)

\* The objects of a part of the list.
ObjectsOf(p, offs) == [i \in DOMAIN offs |-> ObjectAt(p, offs[i])]

releaseObjects(p) ==
    [p EXCEPT !.proc = releaseAll(@, ObjectsOf(p, p.mObjects))]

\* Faulty variant: only the descriptors the sender owned are closed.
closeOwnedFileDescriptors(p) ==
    [p EXCEPT !.proc.fds = Close(@, {o.val : o \in
        {o \in Range(ObjectsOf(p, p.mObjects)) : o.type = "FD" /\ o.cookie # 0}})]

\* Close the descriptors of a buffer the driver lent, owned or not.
closeFileDescriptors(p) ==
    [p EXCEPT !.proc.fds = Close(@, {o.val : o \in
        {o \in Range(ObjectsOf(p, p.mObjects)) : o.type = "FD"}})]

-----------------------------------------------------------------------------
(* The state of a parcel                                                   *)

initState(proc) ==
    [mError |-> "OK", mData |-> <<>>, mapped |-> FALSE,
     mDataSize |-> 0, mDataPos |-> 0, mSession |-> "none",
     mObjects |-> <<>>, mObjectsCapacity |-> 0,
     mNextObjectHint |-> 0, mObjectsSorted |-> FALSE,
     mHasFds |-> FALSE, mFdsKnown |-> TRUE, mAllowFds |-> TRUE,
     mOwner |-> "none", buffer |-> 0,
     mRequestHeaderPresent |-> FALSE,
     mWorkSourceRequestHeaderPosition |-> 0,
     proc |-> proc]

mDataCapacity(p) == Len(p.mData)
mObjectsSize(p) == Len(p.mObjects)
dataSize(p) == Larger(p.mDataSize, p.mDataPos)
dataAvail(p) == dataSize(p) - p.mDataPos

\* Faulty variant: the hint for the next object stays where reading left it.
moveKeepingHint(p, pos) == [p EXCEPT !.mDataPos = pos, !.mObjectsSorted = FALSE]

setDataPosition(p, pos) ==
    [p EXCEPT !.mDataPos = pos, !.mNextObjectHint = 0, !.mObjectsSorted = FALSE]

\* The list is passed in order up to the first object past the range when the
\* parcel believes it sorted.
hasFileDescriptorsInRange(p, offset, len) ==
    IF offset + len > p.mDataSize THEN Fail(p, "BAD_VALUE")
    ELSE LET Past(i) == p.mObjects[i] + OBJ > offset + len
             Seen(i) == /\ offset <= p.mObjects[i] /\ ~Past(i)
                        /\ p.mObjectsSorted => \A j \in 1 .. i : ~Past(j)
         IN  Ok(p, \E i \in DOMAIN p.mObjects :
                       Seen(i) /\ ObjectAt(p, p.mObjects[i]).type = "FD")

\* A refused range leaves the flag as it was.
scanForFds(p) ==
    LET o == hasFileDescriptorsInRange(p, 0, dataSize(p))
    IN  [p EXCEPT !.mHasFds = IF o.st = "OK" THEN o.v ELSE @, !.mFdsKnown = TRUE]

hasFileDescriptors(p) ==
    LET q == IF p.mFdsKnown THEN p ELSE scanForFds(p) IN Ok(q, q.mHasFds)

pushAllowFds(p, allowFds) ==
    Ok([p EXCEPT !.mAllowFds = @ /\ allowFds], p.mAllowFds)
restoreAllowFds(p, lastValue) == [p EXCEPT !.mAllowFds = lastValue]

-----------------------------------------------------------------------------
(* Memory                                                                  *)

\* IPCThreadState::freeBuffer for the driver; a session's buffers are freed by
\* a function that does nothing else.
release_func(p) ==
    IF p.mOwner = "driver"
    THEN [closeFileDescriptors(p) EXCEPT !.proc.lent = @ \ {p.buffer}]
    ELSE p

freeDataNoInit(p) ==
    IF p.mOwner # "none" THEN release_func(p).proc
    ELSE [releaseObjects(p).proc EXCEPT
            !.allocSize = IF p.mapped THEN @ - mDataCapacity(p) ELSE @,
            !.allocCount = IF p.mapped THEN @ - 1 ELSE @]

freeData(p) == initState(freeDataNoInit(p))

\* The words of a buffer of another size; fresh memory is Fresh.
Fresh == [type |-> "fresh", val |-> 0, cookie |-> 0]
Resized(s, n) == SubSeq(s, 1, Smaller(Len(s), n)) \o [i \in 1 .. n - Len(s) |-> Fresh]

\* How many objects stay when the data is cut to desired: the code drops
\* entries from the end of the list until one starts inside.
ObjectsKept(p, desired) ==
    IF desired >= p.mDataSize THEN mObjectsSize(p)
    ELSE IF desired = 0 THEN 0
    ELSE CHOOSE k \in 0 .. mObjectsSize(p) :
            /\ k = 0 \/ p.mObjects[k] < desired
            /\ \A j \in k + 1 .. mObjectsSize(p) : p.mObjects[j] >= desired

NoMemory(p) == Fail([p EXCEPT !.mError = "NO_MEMORY"], "NO_MEMORY")

\* "If there is a different owner, we need to take posession."
TakePossession(p, desired) ==
    LET kept == SubSeq(p.mObjects, 1, ObjectsKept(p, desired))
    IN  IF desired = 0 THEN Ok(freeData(p), "none")
        ELSE IF p.proc.fail = "data" \/ (kept # <<>> /\ p.proc.fail = "objects")
        THEN NoMemory(p)
        ELSE Ok([release_func([p EXCEPT !.proc = acquireAll(@, ObjectsOf(p, kept))]) EXCEPT
                    !.mOwner = "none", !.buffer = 0, !.mapped = TRUE,
                    !.mData = Resized(SubSeq(p.mData, 1, p.mDataSize), desired),
                    !.mDataSize = Smaller(p.mDataSize, desired),
                    !.mObjects = kept, !.mObjectsCapacity = Len(kept),
                    !.mNextObjectHint = 0, !.mObjectsSorted = FALSE,
                    !.proc.allocSize = @ + desired, !.proc.allocCount = @ + 1],
                "none")

\* The parcel owns its data: objects past the end are released first.
KeepObjects(p, k) ==
    LET gone == ObjectsOf(p, SubSeq(p.mObjects, k + 1, mObjectsSize(p)))
    IN  IF gone = <<>> THEN p
        ELSE [p EXCEPT
                !.proc = releaseAll(@, gone),
                !.mFdsKnown = @ /\ \A o \in Range(gone) : o.type # "FD",
                !.mObjects = SubSeq(@, 1, k),
                !.mObjectsCapacity = IF k > 0 /\ p.proc.fail = "objects" THEN @ ELSE k,
                !.mNextObjectHint = 0, !.mObjectsSorted = FALSE]
ResizeOwn(p, desired) ==
    IF desired <= mDataCapacity(p)
    THEN Ok([p EXCEPT !.mDataSize = Smaller(@, desired), !.mDataPos = Smaller(@, desired)], "none")
    ELSE IF p.proc.fail = "data" THEN NoMemory(p)
    ELSE Ok([p EXCEPT !.mData = Resized(@, desired),
                      !.proc.allocSize = @ + desired - mDataCapacity(p)], "none")
ContinueOwn(p, desired) == ResizeOwn(KeepObjects(p, ObjectsKept(p, desired)), desired)

ContinueFirstUncounted(p, desired) ==
    Ok([p EXCEPT !.mData = Resized(<<>>, desired), !.mapped = TRUE,
                 !.proc.allocSize = @ + desired], "none")
\* "This is the first data.  Easy!"
ContinueFirst(p, desired) ==
    IF p.proc.fail = "data" THEN NoMemory(p)
    ELSE Ok([p EXCEPT !.mData = Resized(<<>>, desired), !.mapped = TRUE,
                      !.mDataSize = 0, !.mDataPos = 0,
                      !.proc.allocSize = @ + desired,
                      !.proc.allocCount = @ + 1], "none")

continueWrite(p, desired) ==
    IF p.mOwner # "none" THEN TakePossession(p, desired)
    ELSE IF p.mapped THEN ContinueOwn(p, desired)
    ELSE ContinueFirst(p, desired)

growData(p, len) ==
    LET newSize == ((p.mDataSize + len) * 3) \div 2
    IN  IF newSize <= p.mDataSize THEN Fail(p, "NO_MEMORY")
        ELSE continueWrite(p, Larger(newSize, MinWords))

\* realloc to nothing frees the memory and gives null.
restartWrite(p, desired) ==
    IF p.mOwner # "none" THEN continueWrite(freeData(p), desired)
    ELSE IF p.proc.fail = "data" /\ desired > mDataCapacity(p) THEN NoMemory(p)
    ELSE LET q == releaseObjects(p)
             moved == desired = 0 \/ p.proc.fail # "data"
         IN  Ok([q EXCEPT
                    !.proc.allocSize = IF moved THEN @ + desired - mDataCapacity(p) ELSE @,
                    !.proc.allocCount = IF moved /\ ~p.mapped THEN @ + 1 ELSE @,
                    !.mData = IF moved THEN Resized(@, desired) ELSE @,
                    !.mapped = IF moved THEN desired # 0 \/ ~p.mapped ELSE @,
                    !.mDataSize = 0, !.mDataPos = 0,
                    !.mObjects = <<>>, !.mObjectsCapacity = 0,
                    !.mNextObjectHint = 0, !.mObjectsSorted = FALSE,
                    !.mHasFds = FALSE, !.mFdsKnown = TRUE, !.mAllowFds = TRUE],
                "none")

setDataSize(p, size) ==
    Then(continueWrite(p, size), LAMBDA q, v : Ok([q EXCEPT !.mDataSize = size], v))

setDataCapacity(p, size) ==
    IF size > mDataCapacity(p) THEN continueWrite(p, size) ELSE Ok(p, "none")

setData(p, words) ==
    Then(restartWrite(p, Len(words)), LAMBDA q, v :
        Ok([q EXCEPT !.mData = words \o SubSeq(@, Len(words) + 1, Len(@)),
                     !.mDataSize = Len(words), !.mFdsKnown = FALSE], v))

-----------------------------------------------------------------------------
(* Writing                                                                 *)

finishWrite(p, len) ==
    [p EXCEPT !.mDataPos = @ + len,
              !.mDataSize = Larger(@, p.mDataPos + len)]

\* Words put at the position of a parcel whose buffer holds them.
PutWords(p, words) ==
    [p EXCEPT !.mData = SubSeq(@, 1, p.mDataPos) \o words
                            \o SubSeq(@, p.mDataPos + Len(words) + 1, Len(@))]

\* The room a write needs, growing the data when it is not there.
MakeRoom(p, len) ==
    IF p.mDataPos + len <= mDataCapacity(p) THEN Ok(p, "none") ELSE growData(p, len)

\* writeAligned, writeUnpadded and the padded writes: all of them place the
\* words, move the position and then the size.
writeAligned(p, words) ==
    Then(MakeRoom(p, Len(words)), LAMBDA q, v :
        Ok(finishWrite(PutWords(q, words), Len(words)), v))

\* writeInplace reports a failed allocation as a null pointer only.
writeInplace(p, words) == FailsAs(writeAligned(p, words), "null")

\* write turns the null pointer into the parcel's error.
errorOf(o) == IF o.st = "null" THEN [o EXCEPT !.st = o.p.mError] ELSE o
write(p, words) == errorOf(writeInplace(p, words))

\* Room in the object list.
GrowObjects(p, capacity) ==
    IF p.proc.fail = "objects" THEN Fail(p, "NO_MEMORY")
    ELSE Ok([p EXCEPT !.mObjectsCapacity = capacity], "none")

\* The object is written before the check on descriptors, which fails "before
\* modifying our object index".  A null object gets no entry; nor does the
\* handle 0, because handle and binder share their place.
PlaceObject(p, obj, nullMetaData) ==
    LET put == PutWords(p, Words(obj))
        isFd == obj.type = "FD"
        listed == nullMetaData \/ obj.val # 0
        q == [put EXCEPT
                !.mHasFds = @ \/ isFd, !.mFdsKnown = @ \/ isFd,
                !.mObjects = IF listed THEN Append(@, p.mDataPos) ELSE @,
                !.proc = IF listed THEN acquire_object(@, obj) ELSE @]
    IN  IF isFd /\ ~p.mAllowFds THEN Fail(put, "FDS_NOT_ALLOWED")
        ELSE Ok(finishWrite(q, OBJ), "none")

\* Whether the list has room is seen before the data grows.
writeObject(p, obj, nullMetaData) ==
    LET enoughObjects == mObjectsSize(p) < p.mObjectsCapacity
    IN  Then(MakeRoom(p, OBJ), LAMBDA q, v :
            Then(IF enoughObjects THEN Ok(q, "none") ELSE GrowObjects(q, ((mObjectsSize(q) + 2) * 3) \div 2),
                LAMBDA r, w : PlaceObject(r, obj, nullMetaData)))

writeFileDescriptor(p, fd, takeOwnership) ==
    IF p.mSession # "none" THEN Fail(p, "BAD_TYPE")
    ELSE writeObject(p, FileDesc(fd, takeOwnership), TRUE)

\* fcntl(F_DUPFD_CLOEXEC): the next number that was never used, open on the
\* same file.
Dup(p, fd) == [p EXCEPT !.proc.fds = @ @@ (p.proc.nextFd :> p.proc.fds[fd]),
                        !.proc.nextFd = @ + 1]

\* The descriptors opened since p are closed again when o failed.
ClosedOnError(p, o) ==
    IF o.st = "OK" THEN o
    ELSE [o EXCEPT !.p.proc.fds = Restrict(@, DOMAIN @ \cap DOMAIN p.proc.fds)]

WriteDup(p, fd, Write(_, _, _)) ==
    IF fd \notin DOMAIN p.proc.fds THEN Fail(p, "EBADF")
    ELSE ClosedOnError(p, Write(Dup(p, fd), p.proc.nextFd, 1))

writeDupFileDescriptor(p, fd) == WriteDup(p, fd, writeFileDescriptor)

\* The status of the write of "no communication channel" is dropped.
writeParcelFileDescriptor(p, fd, takeOwnership) ==
    writeFileDescriptor(writeAligned(p, <<Word(0)>>).p, fd, takeOwnership)

writeDupParcelFileDescriptor(p, fd) == WriteDup(p, fd, writeParcelFileDescriptor)

-----------------------------------------------------------------------------
(* Reading                                                                 *)

Sorted(s) == \A i \in 1 .. Len(s) - 1 : s[i] <= s[i + 1]

\* The check against the objects from the hint on, in a sorted list.
CheckAgainstObjects(p, upperBound) ==
    LET From == {i \in p.mNextObjectHint + 1 .. mObjectsSize(p) :
                    \A j \in p.mNextObjectHint + 1 .. i : upperBound > p.mObjects[j]}
        Overlap == {i \in From : p.mDataPos < p.mObjects[i] + OBJ}
    IN  IF Overlap # {} THEN Fail(p, "PERMISSION_DENIED")
        ELSE Ok([p EXCEPT !.mNextObjectHint = @ + Cardinality(From)], "none")

\* "Don't allow non-object reads on object data"
validateReadData(p, upperBound) ==
    CheckAgainstObjects(
        IF p.mObjectsSorted \/ mObjectsSize(p) <= 1 THEN p
        ELSE IF Sorted(p.mObjects) THEN [p EXCEPT !.mObjectsSorted = TRUE]
        ELSE [p EXCEPT !.mObjects = SortSeq(@, <), !.mNextObjectHint = 0,
                       !.mObjectsSorted = TRUE],
        upperBound)

\* readAligned, read: a refused read still passes over the words.
TakeWords(o, len) ==
    [o EXCEPT !.p.mDataPos = @ + len,
              !.v = IF o.st = "OK" THEN SubSeq(o.p.mData, o.p.mDataPos + 1, o.p.mDataPos + len)
                    ELSE @]
readAligned(p, len) ==
    IF p.mDataPos + len > p.mDataSize THEN Fail(p, "NOT_ENOUGH_DATA")
    ELSE TakeWords(IF mObjectsSize(p) > 0 THEN validateReadData(p, p.mDataPos + len)
                   ELSE Ok(p, "none"), len)

\* readInplace reports every failure as a null pointer.
readInplace(p, len) == FailsAs(readAligned(p, len), "null")

\* Forward from the hint to the first entry not before the position, then
\* backward to the first not after it.
SearchForward(p) ==
    LET N == mObjectsSize(p)
        from == p.mNextObjectHint + 1
    IN  IF from > N THEN N
        ELSE CHOOSE i \in from .. N :
                /\ \A j \in from .. i - 1 : p.mObjects[j] < p.mDataPos
                /\ i = N \/ p.mObjects[i] >= p.mDataPos
SearchBackward(p, from) ==
    CHOOSE i \in 1 .. from :
        /\ \A j \in i + 1 .. from : p.mObjects[j] > p.mDataPos
        /\ i = 1 \/ p.mObjects[i] <= p.mDataPos

readObject(p, nullMetaData) ==
    IF p.mDataPos + OBJ > p.mDataSize THEN Fail(p, "null")
    ELSE LET obj == ObjectAt(p, p.mDataPos)
             q == [p EXCEPT !.mDataPos = @ + OBJ]
             f == SearchForward(p)
             b == SearchBackward(p, f)
             Found(i) == p.mObjects[i] = p.mDataPos
         IN  IF ~nullMetaData /\ obj.cookie = 0 /\ obj.val = 0 THEN Ok(q, obj)
             ELSE IF mObjectsSize(p) > 0 /\ Found(f)
             THEN Ok([q EXCEPT !.mNextObjectHint = f], obj)
             ELSE IF mObjectsSize(p) > 0 /\ Found(b)
             THEN Ok([q EXCEPT !.mNextObjectHint = b], obj)
             ELSE Fail(q, "null")

\* The descriptor stays the parcel's.
readFileDescriptor(p) ==
    Then(FailsAs(readObject(p, TRUE), "BAD_TYPE"), LAMBDA q, obj :
        IF obj.type = "FD" THEN Ok(q, obj.val) ELSE Fail(q, "BAD_TYPE"))

-----------------------------------------------------------------------------
(* Binders.  A binder is its strong reference, or NullBinder.  Its         *)
(* stability is kept with the object, in proc.stability.                   *)

NullBinder == <<"null", 0>>
Undeclared == 0
Vendor == 3
System == 12
Vintf == 63
isDeclaredLevel(stability) == stability \in {Vendor, System, Vintf}

\* (provided & required) == required: the bits of VINTF are all of them, those
\* of the other two are disjoint.
check(provided, required) == required \in {Undeclared, provided} \/ provided = Vintf

getRepr(proc, binder) ==
    IF binder = NullBinder THEN Undeclared ELSE proc.stability[binder]

\* The stability of an object is set once; only the force functions lower it.
setRepr(proc, binder, setting, allowDowngrade) ==
    LET current == getRepr(proc, binder)
        lowered == allowDowngrade /\ check(current, setting)
        set == [proc EXCEPT !.stability[binder] = setting]
    IN  IF binder = NullBinder
        THEN [proc |-> proc, st |-> IF setting = Undeclared THEN "OK" ELSE "BAD_TYPE"]
        ELSE IF ~isDeclaredLevel(setting) THEN [proc |-> proc, st |-> "BAD_TYPE"]
        ELSE IF current = setting THEN [proc |-> proc, st |-> "OK"]
        ELSE IF current # Undeclared /\ ~lowered THEN [proc |-> proc, st |-> "BAD_TYPE"]
        ELSE [proc |-> set, st |-> "OK"]

\* The level of code outside the vendor partition.
getLocalLevel == System

tryMarkCompilationUnit(proc, binder) == setRepr(proc, binder, getLocalLevel, FALSE).proc

finishFlattenBinder(p, binder) ==
    LET marked == tryMarkCompilationUnit(p.proc, binder)
    IN  writeAligned([p EXCEPT !.proc = marked], <<Word(getRepr(marked, binder))>>)

Declared(p, binder, r) ==
    IF r.st = "OK" THEN Ok([p EXCEPT !.proc = r.proc], binder) ELSE Fail(p, r.st)
finishUnflattenBinder(p, binder) ==
    Then(readAligned(p, 1), LAMBDA q, v :
        Declared(q, binder, setRepr(q.proc, binder, v[1].val, FALSE)))

\* For a session a binder is a flag and an address.  RpcState keeps the
\* addresses; here the two words of an address name the binder.  It refuses the
\* proxies of the driver.
Address(binder) == <<Word(IF binder[1] = "BBinder" THEN 1 ELSE 2), Word(binder[2])>>
BinderAt(addr) == <<IF addr[1].val = 1 THEN "BBinder" ELSE "rpc", addr[2].val>>

flattenForRpc(p, binder) ==
    Then(writeAligned(p, <<Word(IF binder = NullBinder THEN 0 ELSE 1)>>), LAMBDA q, v :
        Then(IF binder = NullBinder THEN Ok(q, v)
             ELSE IF binder[1] = "BpBinder" THEN Fail(q, "INVALID_OPERATION")
             ELSE writeAligned(q, Address(binder)),
             LAMBDA r, w : finishFlattenBinder(r, binder)))

flattenBinder(p, binder) ==
    IF p.mSession # "none" THEN flattenForRpc(p, binder)
    ELSE IF binder[1] = "rpc" THEN Fail(p, "INVALID_OPERATION")
    ELSE LET obj == CASE binder[1] = "null" -> NullObject
                      [] binder[1] = "BpBinder" -> Handle(binder[2])
                      [] binder[1] = "BBinder" -> Local(binder[2])
         IN  Then(writeObject(p, obj, FALSE), LAMBDA q, v : finishFlattenBinder(q, binder))

unflattenForRpc(p) ==
    Then(readAligned(p, 1), LAMBDA q, flag :
        IF flag[1].val = 0 THEN finishUnflattenBinder(q, NullBinder)
        ELSE Then(readAligned(q, 2), LAMBDA r, addr : finishUnflattenBinder(r, BinderAt(addr))))

\* A null object and the object 0 of the process are told apart by the type.
unflattenBinder(p) ==
    IF p.mSession # "none" THEN unflattenForRpc(p)
    ELSE Then(FailsAs(readObject(p, FALSE), "BAD_TYPE"), LAMBDA q, obj :
        IF obj.type \notin {"BINDER", "HANDLE"} THEN Fail(q, "BAD_TYPE")
        ELSE finishUnflattenBinder(q, IF obj.type = "HANDLE" THEN <<"BpBinder", obj.val>>
                                      ELSE IF obj.cookie = 0 THEN NullBinder
                                      ELSE <<"BBinder", obj.cookie>>))

-----------------------------------------------------------------------------
(* Whole parcels                                                           *)

\* The entries appended are those from the first to the last in the range.
\* Descriptors get numbers of their own; the copies are in fds.
AppendObject(p, off) ==
    LET obj == ObjectAt(p, off)
        open == obj.val \in DOMAIN p.proc.fds
        q == [p EXCEPT !.mObjects = Append(@, off), !.proc = acquire_object(@, obj)]
        copied == [IF open THEN Dup(q, obj.val) ELSE q EXCEPT
                    !.mData[off + 1] = FileDesc(IF open THEN p.proc.nextFd ELSE -1, 1),
                    !.mHasFds = TRUE, !.mFdsKnown = TRUE]
    IN  IF obj.type = "FD" THEN copied ELSE q

appendFrom(p, src, offset, len) ==
    LET InRange == {i \in DOMAIN src.mObjects :
                        offset <= src.mObjects[i] /\ src.mObjects[i] + OBJ <= offset + len}
        first == CHOOSE i \in InRange : \A j \in InRange : i <= j
        last == CHOOSE i \in InRange : \A j \in InRange : j <= i
        offs == IF InRange = {} THEN <<>>
                ELSE [i \in 1 .. last - first + 1 |->
                        src.mObjects[first + i - 1] - offset + p.mDataPos]
        \* the room is measured from the size, and the size grows by len
        room == IF p.mDataSize + len > mDataCapacity(p) THEN growData(p, len)
                ELSE Ok(p, "none")
        Copied(q) == [PutWords(q, SubSeq(src.mData, offset + 1, offset + len)) EXCEPT
                        !.mDataPos = @ + len, !.mDataSize = @ + len]
        fdRefused(q) == ~q.mAllowFds /\ \E i \in DOMAIN offs : ObjectAt(q, offs[i]).type = "FD"
        wanted == mObjectsSize(p) + Len(offs)
    IN  IF p.mSession # src.mSession THEN Fail(p, "BAD_TYPE")
        ELSE IF len = 0 THEN Ok(p, "none")
        ELSE IF offset + len > src.mDataSize THEN Fail(p, "BAD_VALUE")
        ELSE Then(room, LAMBDA q, v :
               Then(IF offs = <<>> \/ wanted <= q.mObjectsCapacity THEN Ok(Copied(q), "none")
                    ELSE GrowObjects(Copied(q), (wanted * 3) \div 2),
                    LAMBDA r, w :
                        LET s == FoldLeft(AppendObject, r, offs)
                        IN  IF fdRefused(r) THEN Fail(s, "FDS_NOT_ALLOWED") ELSE Ok(s, "none")))

\* A buffer of the driver or of a session.  Entries must not overlap and must
\* be of the three kinds; otherwise the list is taken to be empty.
ipcSetDataReference(p, words, objects, owner, buffer) ==
    LET fresh == freeData(p)
        Bad(i) == \/ i > 1 /\ objects[i] < objects[i - 1] + OBJ
                  \/ words[objects[i] + 1].type \notin {"BINDER", "HANDLE", "FD"}
    IN  scanForFds([fresh EXCEPT
            !.mData = words, !.mapped = TRUE, !.mDataSize = Len(words),
            !.mObjects = IF \E i \in DOMAIN objects : Bad(i) THEN <<>> ELSE objects,
            !.mObjectsCapacity = Len(objects), !.mOwner = owner, !.buffer = buffer])
=============================================================================
