---------------------------- MODULE ParcelValues ----------------------------
(***************************************************************************)
(* Typed values sent from one thread to another in a parcel: written with  *)
(* one library, handed over by the driver, a session, a relay or a copy of *)
(* the bytes, perhaps cut, and read with a library.  The receiver is a     *)
(* thread of the same process, so that binders arrive as themselves and    *)
(* descriptors as duplicates.                                              *)
(*                                                                         *)
(* A case is [w, v, r, x, libs]: the value v is written as type w and read *)
(* as type r; x is <<what the reader is to get>>, or <<>> when it must be  *)
(* refused; libs are the libraries that have the types.                    *)
(***************************************************************************)
EXTENDS Interfaces, FiniteSetsExt

CONSTANTS
    Cases,        \* a sequence of cases
    Refs,         \* the binders of the process
    Files,        \* the caller's descriptors and the files they are open on
    Scenarios     \* [writer, reader, items, first, later, session, ways, cuts, looks, tokens]

ASSUME ScenarioAssumption == \A s \in Scenarios : s.items \in Nat

VARIABLES
    p,         \* the parcel, without its process
    proc,      \* the process
    scen,
    phase,     \* "write", "read", "freed"
    wrote,     \* the cases written: [c, end], with the position after each
    got,       \* what was read: [st, v, end]
    way,       \* how the parcel was handed over: [how, cut, thread, work]
    ok         \* whether the writes and the looks at the parcel went well

vars == <<p, proc, scen, phase, wrote, got, way, ok>>

NoProc == "process"

Init ==
    /\ scen \in Scenarios
    /\ \E propagate, oneway \in BOOLEAN :
        proc = [strong |-> [r \in Refs |-> 0], stability |-> [r \in Refs |-> Undeclared],
                fds |-> Files, nextFd |-> Max(DOMAIN Files) + 1, allocSize |-> 0,
                allocCount |-> 0, lent |-> {}, fail |-> "none",
                thread |-> [strict |-> 5, work |-> 7, propagate |-> propagate,
                            oneway |-> oneway]]
    /\ (~scen.tokens => ~proc.thread.propagate /\ ~proc.thread.oneway)
    /\ p = [initState(NoProc) EXCEPT !.mSession = scen.session]
    /\ phase = "write" /\ wrote = <<>> /\ got = <<>> /\ ok = TRUE
    /\ way = [how |-> "none", cut |-> FALSE, thread |-> proc.thread, work |-> <<>>]

-----------------------------------------------------------------------------
\* The types of single calls, beside those of writeData.
WriteItem(q, lib, t, v) ==
    CASE t.k = "token" -> writeInterfaceToken(q, v)
      [] t.k = "message" -> WriteFields(q, t.of, v)
      [] t.k = "call" -> callRemote(q, t.of, v)
      [] t.k = "reply" -> callLocal_reply(q, t.of, v.args, v.result)
      [] t.k = "status" -> Status_writeToParcel(q, v)
      [] t.k = "string8" -> writeString8(q, v)
      [] t.k = "cstring" -> writeCString(q, v)
      [] t.k = "blob" -> writeBlob(q, PackedWords(T("int32"), v), FALSE)
      [] t.k = "native" -> writeNativeHandle(q, v)
      [] t.k = "flat" -> WriteFlattenable(q, v)
      [] t.k = "light" -> WriteLight(q, v)
      [] t.k = "size" -> IF lib = "cpp" THEN writeVectorSize(q, v) ELSE AParcel_writeVectorSize(q, v)
      [] OTHER -> IF lib = "cpp" THEN writeValue(q, t, v) ELSE AParcel_writeData(q, t, v)
ReadItem(q, lib, t) ==
    CASE t.k = "token" -> enforceInterface(q, t.name)
      [] t.k = "message" -> ReadFields(q, t.of)
      [] t.k = "call" -> callLocal(q, t.of)
      [] t.k = "reply" -> callRemote_result(q, t.of)
      [] t.k = "status" -> Status_readFromParcel(q)
      [] t.k = "string8" -> readString8(q)
      [] t.k = "cstring" -> readCString(q)
      [] t.k = "blob" -> Then(readBlob(q, t.n), LAMBDA s, w : Ok(s, PackedValues(T("int32"), w, t.n)))
      [] t.k = "native" -> readNativeHandle(q)
      [] t.k = "flat" -> ReadFlattenable(q)
      [] t.k = "light" -> ReadLight(q)
      [] t.k = "size" -> IF lib = "cpp" THEN resizeOutVector(q, t.nullable)
                         ELSE AParcel_resizeVector(q, t.nullable)
      [] OTHER -> CASE lib = "cpp" -> readValue(q, t)
                    [] lib = "ndk" -> AParcel_readData(q, t)
                    [] lib = "pointer" -> AParcel_readPointer(q, t)

With == [p EXCEPT !.proc = proc]
Becomes(q) == p' = [q EXCEPT !.proc = NoProc] /\ proc' = q.proc

Write(c) ==
    /\ phase = "write" /\ Len(wrote) < scen.items
    /\ {scen.writer, scen.reader} \subseteq Cases[c].libs
    /\ c \in IF wrote = <<>> THEN scen.first ELSE scen.later
    /\ \E o \in {WriteItem(With, scen.writer, Cases[c].w, Cases[c].v)} :
           /\ Becomes(o.p)
           /\ ok' = (ok /\ o.st = "OK")
           /\ wrote' = Append(wrote, [c |-> c, end |-> o.p.mDataPos])
    /\ UNCHANGED <<scen, phase, got, way>>

\* The work source of a request is changed before it goes out.
ReplaceWorkSource ==
    /\ phase = "write" /\ scen.tokens /\ way.work = <<>> /\ wrote # <<>>
    /\ \E o \in {replaceCallingWorkSourceUid(With, 9)} :
           /\ Becomes(o.p)
           /\ way' = [way EXCEPT !.work = IF o.v THEN <<9>> ELSE <<>>]
           /\ ok' = (ok /\ readCallingWorkSourceUid(o.p).v = IF o.v THEN 9 ELSE kUnsetWorkSource)
    /\ UNCHANGED <<scen, phase, wrote, got>>

\* The driver copies the data, cookies included, and opens the descriptors again
\* in the receiver.
Delivered(q) ==
    LET Opened == FoldLeft(LAMBDA s, off :
                IF ObjectAt(s, off).type # "FD" THEN s
                ELSE [Dup(s, ObjectAt(s, off).val) EXCEPT
                        !.mData[off + 1] = FileDesc(s.proc.nextFd, ObjectAt(s, off).cookie)],
                q, q.mObjects)
        kept == [q EXCEPT !.proc = Opened.proc]
        fresh == initState([freeDataNoInit(kept) EXCEPT !.lent = {1}])
    IN  ipcSetDataReference(fresh, SubSeq(Opened.mData, 1, q.mDataSize), q.mObjects, "driver", 1)

\* A session's buffer is copied from the socket.
Transmitted(q) ==
    LET fresh == initState(freeDataNoInit(q))
    IN  markForRpc(ipcSetDataReference(fresh, SubSeq(q.mData, 1, q.mDataSize), <<>>, "session", 0),
                   q.mSession).p

Relayed(q) ==
    LET o == appendFrom(initState(q.proc), q, 0, dataSize(q))
    IN  setDataPosition([o.p EXCEPT !.proc = freeDataNoInit([q EXCEPT !.proc = o.p.proc])], 0)

Marshalled(q) ==
    LET bytes == AParcel_marshal(q).v
    IN  setDataPosition(AParcel_unmarshal(initState(freeDataNoInit(q)), bytes).p, 0)

\* The receiver is another thread, which has no policy and no work source.
Send(how) ==
    /\ phase = "write" /\ wrote # <<>> /\ how \in scen.ways
    /\ how = "marshal" => mObjectsSize(p) = 0
    /\ (how = "session") = (p.mSession # "none")
    /\ \E q \in {CASE how = "local" -> setDataPosition(With, 0)
                   [] how = "driver" -> Delivered(With)
                   [] how = "session" -> Transmitted(With)
                   [] how = "relay" -> Relayed(With)
                   [] how = "marshal" -> Marshalled(With)} :
           Becomes([q EXCEPT !.proc.thread.strict = 0, !.proc.thread.work = kUnsetWorkSource,
                             !.proc.thread.propagate = TRUE])
    /\ way' = [way EXCEPT !.how = how]
    /\ phase' = "read"
    /\ UNCHANGED <<scen, wrote, got, ok>>

\* Less arrives than was written.
Cut(n) ==
    /\ phase = "read" /\ got = <<>> /\ scen.cuts /\ ~way.cut /\ n \in 0 .. p.mDataSize - 1
    /\ \A off \in Range(p.mObjects) : n <= off \/ n >= off + OBJ
    /\ Becomes(setDataSize(With, n).p)
    /\ way' = [way EXCEPT !.cut = TRUE]
    /\ UNCHANGED <<scen, phase, wrote, got, ok>>

\* Read the next value.  Nothing is cleaned up here: a reader that fails closes
\* what it opened, itself or with the object it reads into.
Reading == phase = "read" /\ Len(got) < Len(wrote) /\ \A i \in DOMAIN got : got[i].st = "OK"
Read ==
    /\ Reading
    /\ \E t \in {Cases[wrote[Len(got) + 1].c].r} :
        \E o \in {ReadItem(With, scen.reader, t)} :
           /\ Becomes(o.p)
           /\ got' = Append(got, [st |-> o.st, v |-> o.v, end |-> o.p.mDataPos])
    /\ UNCHANGED <<scen, phase, wrote, way, ok>>

\* A look at the objects and at the work source, between two reads.
Inspect ==
    /\ Reading /\ scen.looks /\ ~way.cut
    /\ \E b \in {debugReadAllStrongBinders(With)} : \E f \in {debugReadAllFileDescriptors(b.p)} :
       LET Type(off) == ObjectAt(p, off).type
       IN  /\ Becomes(f.p)
           /\ ok' = /\ ok
                    /\ Len(b.v) = Len(SelectSeq(p.mObjects, LAMBDA off : Type(off) = "BINDER"))
                    /\ Len(f.v) = Len(SelectSeq(p.mObjects, LAMBDA off : Type(off) = "FD"))
                    /\ compareDataInRange(f.p, 0, p, 0, p.mDataSize).v
    /\ UNCHANGED <<scen, phase, wrote, got, way>>

\* A holder that is not opened is written to another parcel, which is read instead.
Forward ==
    /\ Reading /\ got = <<>> /\ Len(wrote) = 1 /\ way.how = "driver" /\ ~way.cut
    /\ Cases[wrote[1].c].r.k = "holder" /\ scen.reader = "cpp"
    /\ \E t \in {Cases[wrote[1].c].r} :
        \E o \in {ParcelableHolder_readFromParcel(readInt32(With).p, t)} :
        LET held == IF o.v = <<>> THEN <<>> ELSE <<[o.v[1] EXCEPT !.proc = NoProc]>>
            n == writeInt32(initState(freeDataNoInit(o.p)), kNonNullParcelableFlag)
        IN  /\ o.st = "OK"
            /\ \E s \in {ForwardHolder(n.p, t, held)} :
                Becomes(setDataPosition(IF held = <<>> THEN s.p
                            ELSE Unheld(s.p, [held[1] EXCEPT !.proc = s.p.proc]), 0))
    /\ way' = [way EXCEPT !.how = "forward"]
    /\ UNCHANGED <<scen, phase, wrote, got, ok>>

Free ==
    /\ phase = "read" /\ ~Reading
    /\ Becomes(freeData(With))
    /\ phase' = "freed"
    /\ UNCHANGED <<scen, wrote, got, way, ok>>

Next ==
    \/ \E c \in DOMAIN Cases : Write(c)
    \/ ReplaceWorkSource
    \/ \E how \in {"local", "driver", "session", "relay", "marshal"} : Send(how)
    \/ \E n \in 0 .. p.mDataSize : Cut(n)
    \/ Read \/ Inspect \/ Forward \/ Free

Spec == Init /\ [][Next]_vars

-----------------------------------------------------------------------------
(* Properties                                                              *)

\* A value with its descriptors replaced by the files they are open on.
RECURSIVE View(_, _, _)
View(fds, t, v) ==
    CASE t.k \in {"fd", "pfd"} -> fds[v]
      [] t.k \in {"vector", "array"} -> [i \in DOMAIN v |-> View(fds, t.of, v[i])]
      [] t.k = "opt" -> [i \in DOMAIN v |-> View(fds, t.of, v[i])]
      [] t.k = "struct" -> [i \in DOMAIN v |-> View(fds, t.of[i], v[i])]
      [] t.k = "holder" -> IF v.name = <<>> THEN <<>>
                           ELSE [i \in DOMAIN v.val |-> View(fds, v.of[i], v.val[i])]
      [] t.k \in {"native", "flat"} -> [v EXCEPT !.fds = [i \in DOMAIN @ |-> fds[@[i]]]]
      [] t.k = "call" -> [i \in DOMAIN v |-> View(fds, t.of[Picked(t.of, FALSE)[i]].t, v[i])]
      [] OTHER -> v

\* The descriptors in a value.
RECURSIVE FdsIn(_, _)
FdsIn(t, v) ==
    CASE t.k \in {"fd", "pfd"} -> <<v>>
      [] t.k \in {"vector", "array", "opt"} ->
            FlattenSeq([i \in DOMAIN v |-> FdsIn(t.of, v[i])])
      [] t.k = "struct" -> FlattenSeq([i \in DOMAIN v |-> FdsIn(t.of[i], v[i])])
      [] t.k = "holder" -> IF v.name = <<>> THEN <<>>
                           ELSE FlattenSeq([i \in DOMAIN v.val |-> FdsIn(v.of[i], v.val[i])])
      [] t.k \in {"native", "flat"} -> v.fds
      [] t.k = "call" ->
            FlattenSeq([i \in DOMAIN v |-> FdsIn(t.of[Picked(t.of, FALSE)[i]].t, v[i])])
      [] OTHER -> <<>>

\* What the reader of a case is to get: the pointer overloads take null where the
\* others refuse it.
ReaderType(c) == IF scen.reader = "pointer" THEN PointerType(Cases[c].r) ELSE Cases[c].r
Wrapped(t, x) ==
    LET Elements(v) == IF t.of.k = "utf8" THEN [i \in DOMAIN v |-> <<v[i]>>] ELSE v
    IN  CASE t.k = "utf8" -> IF x = <<>> THEN << <<>> >> ELSE <<x>>
          [] t.k = "vector" -> IF x = <<>> THEN << <<>> >> ELSE << <<Elements(x[1])>> >>
          [] t.k = "array" -> IF x = <<>> THEN <<>> ELSE <<Elements(x[1])>>
          [] OTHER -> x
Expected(c) == IF scen.reader = "pointer" THEN Wrapped(Cases[c].r, Cases[c].x) ELSE Cases[c].x
Right(i) ==
    LET c == wrote[i].c
    IN  /\ Expected(c) # <<>>
        /\ View(proc.fds, ReaderType(c), got[i].v) = View(Files, ReaderType(c), Expected(c)[1])

\* What was written is what is read, with any pair of libraries and however the
\* parcel travelled: a value that fits the reader's type arrives whole and leaves
\* the position where the next value begins, and null is refused by a reader that
\* cannot hold it.  Writes of values that fit succeed, and looking at the objects of
\* a parcel or replacing its work source finds what is there and changes nothing.
ReadsAsWritten ==
    ok /\ (~way.cut => \A i \in DOMAIN got :
        IF Expected(wrote[i].c) = <<>> THEN got[i].st # "OK"
        ELSE got[i].st = "OK" /\ Right(i) /\ got[i].end = wrote[i].end)

\* A parcel that ends early gives no wrong value: every read returns what was
\* written or an error.  Five readers are lenient and left out: where the data
\* ends a nullable string of the NDK is null, a PersistableBundle empty, the fields
\* of a hand-written interface have their defaults, a native handle is null for
\* SafeInterface, and a Flattenable is given no bytes, which it may refuse itself.
RECURSIVE Lenient(_)
Lenient(t) ==
    CASE t.k \in {"bundle", "flat", "message"} -> TRUE
      [] t.k = "opt" /\ t.of.k = "utf8" -> scen.reader # "cpp"
      [] t.k \in {"opt", "vector", "array"} -> Lenient(t.of)
      [] t.k \in {"struct", "holder"} -> \E i \in DOMAIN t.of : Lenient(t.of[i])
      [] t.k = "call" -> \E i \in DOMAIN t.of : t.of[i].t.k \in {"native", "flat"}
      [] OTHER -> FALSE
NoWrongValue ==
    way.cut => \A i \in DOMAIN got :
        got[i].st = "OK" /\ ~Lenient(ReaderType(wrote[i].c)) =>
            Right(i) \/ (Cases[wrote[i].c].r.k = "token" /\ ~got[i].v)

\* A parcel gives the values that were written, or an error for what is missing.
ValuesArrive == ReadsAsWritten /\ NoWrongValue

\* The descriptors a reader was given are its own: each is open on the file that was
\* sent, in no two places, before and after the parcel is freed, and once it is
\* freed nothing else is left of it: no descriptor, reference, memory or buffer,
\* whether the reads failed or not.
ReaderOwnsDescriptors ==
    LET given == FlattenSeq([i \in DOMAIN got |->
                    IF got[i].st = "OK" THEN FdsIn(ReaderType(wrote[i].c), got[i].v) ELSE <<>>])
    IN  /\ IsInjective(given) /\ Range(given) \subseteq DOMAIN proc.fds \ DOMAIN Files
        /\ phase = "freed" =>
            /\ DOMAIN proc.fds = DOMAIN Files \cup Range(given)
            /\ \A r \in Refs : proc.strong[r] = 0
            /\ proc.allocCount = 0 /\ proc.allocSize = 0 /\ proc.lent = {}

\* A request that is accepted gives the serving thread the caller's strict mode
\* policy, unless the call is one-way, and the work source the caller propagates or
\* put into the request, which is not propagated further.
WorkSourceArrives ==
    LET sender == way.thread
        work == IF way.work # <<>> THEN way.work[1]
                ELSE IF sender.propagate THEN sender.work ELSE kUnsetWorkSource
    IN  (/\ got # <<>> /\ got[1].st = "OK" /\ scen.session = "none"
         /\ Cases[wrote[1].c].r.k = "token" /\ got[1].v)
        => proc.thread = [sender EXCEPT
                            !.strict = IF sender.oneway THEN 0 ELSE Gather(@),
                            !.work = work, !.propagate = FALSE]
=============================================================================
