--------------------------- MODULE RequestHeader ----------------------------
(***************************************************************************)
(* The header of a request: the strict mode policy, the work source and    *)
(* the interface.  proc.thread is the IPCThreadState of the thread that    *)
(* makes the call: [strict, work, propagate, oneway].  A parcel of a       *)
(* session has the interface alone.                                        *)
(***************************************************************************)
EXTENDS AParcel

kUnsetWorkSource == -1
kHeader == 1398362964

\* The bit of PENALTY_GATHER is out of TLC's range; this one stands for it.
PENALTY_GATHER == 2 ^ 30
Gather(policy) == IF policy >= PENALTY_GATHER THEN policy ELSE policy + PENALTY_GATHER

updateWorkSourceRequestHeaderPosition(p) ==
    IF p.mRequestHeaderPresent THEN p
    ELSE [p EXCEPT !.mWorkSourceRequestHeaderPosition = p.mDataPos,
                   !.mRequestHeaderPresent = TRUE]

writeTokenPropagating(p, interface) ==
    LET q == updateWorkSourceRequestHeaderPosition(writeInt32(p, Gather(p.proc.thread.strict)).p)
        r == writeInt32(q, p.proc.thread.work).p
    IN  writeString16(IF p.mSession = "none" THEN writeInt32(r, kHeader).p ELSE p, interface)
\* The statuses of the first three writes are dropped.
writeInterfaceToken(p, interface) ==
    LET thread == p.proc.thread
        q == updateWorkSourceRequestHeaderPosition(writeInt32(p, Gather(thread.strict)).p)
        r == writeInt32(q, IF thread.propagate THEN thread.work ELSE kUnsetWorkSource).p
    IN  writeString16(IF p.mSession = "none" THEN writeInt32(r, kHeader).p ELSE p, interface)

replaceCallingWorkSourceUid(p, uid) ==
    LET o == writeInt32(setDataPosition(p, p.mWorkSourceRequestHeaderPosition), uid)
    IN  IF ~p.mRequestHeaderPresent THEN Ok(p, FALSE)
        ELSE Ok(setDataPosition(o.p, p.mDataPos), o.st = "OK")

readCallingWorkSourceUid(p) ==
    LET o == readInt32OrZero(setDataPosition(p, p.mWorkSourceRequestHeaderPosition))
    IN  IF ~p.mRequestHeaderPresent THEN Ok(p, kUnsetWorkSource)
        ELSE Ok(setDataPosition(o.p, p.mDataPos), o.v)

\* The value is whether the request is one for the interface.
Names(interface, o) == Ok(o.p, IF o.st = "OK" THEN o.v = interface ELSE interface = <<>>)
enforceInterface(p, interface) ==
    IF p.mSession # "none" THEN Names(interface, readString16Inplace(p))
    ELSE Then(readInt32OrZero(p), LAMBDA q, policy :
        Then(readInt32OrZero(updateWorkSourceRequestHeaderPosition(q)), LAMBDA r, work :
            Then(readInt32OrZero([r EXCEPT
                    !.proc.thread.strict = IF p.proc.thread.oneway THEN 0 ELSE policy,
                    !.proc.thread.work = work, !.proc.thread.propagate = FALSE]),
                LAMBDA s, header :
                    IF header # kHeader THEN Ok(s, FALSE)
                    ELSE Names(interface, readString16Inplace(s)))))

\* A session's format is set before data is written, or on data received.
markForRpc(p, session) ==
    IF p.mapped /\ p.mOwner = "none" THEN Fail(p, "fatal")
    ELSE Ok([p EXCEPT !.mSession = session], "none")

\* Looking at all the objects of a kind, for debugging: the values read.
debugReadAll(p, type, Read(_)) ==
    LET offs == SelectSeq(p.mObjects, LAMBDA off : ObjectAt(p, off).type = type)
        o == FoldLeft(LAMBDA s, off :
                OrDefault(Then(Read(setDataPosition(s.p, off)), LAMBDA q, v :
                              Ok(q, Append(s.v, v))), s.v),
                Ok(p, <<>>), offs)
    IN  Ok(setDataPosition(o.p, p.mDataPos), o.v)
debugReadAllStrongBinders(p) == debugReadAll(p, "BINDER", readStrongBinder)
debugReadAllFileDescriptors(p) == debugReadAll(p, "FD", readFileDescriptor)

compareDataInRange(p, offset, q, otherOffset, len) ==
    IF offset + len > p.mDataSize \/ otherOffset + len > q.mDataSize THEN Fail(p, "BAD_VALUE")
    ELSE Ok(p, SubSeq(p.mData, offset + 1, offset + len)
                  = SubSeq(q.mData, otherOffset + 1, otherOffset + len))
=============================================================================
