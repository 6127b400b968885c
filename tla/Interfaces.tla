----------------------------- MODULE Interfaces -----------------------------
(***************************************************************************)
(* The hand-written interfaces of libbinder, as the fields their proxies   *)
(* (Bp) and stubs (Bn) put into requests and replies and take out of them, *)
(* and SafeInterface, which derives both from a method's parameters.       *)
(*                                                                         *)
(* A field is [k] or [k, n]; a message is a sequence of fields, its value  *)
(* the sequence of theirs.                                                 *)
(***************************************************************************)
EXTENDS RequestHeader

Token == T("token")            \* the interface token, checked by CHECK_INTERFACE
Int32 == T("int32")
Int64 == T("int64")
Flag == T("flag")              \* a bool written as 1 or 0
Text == T("string16")
Texts16 == T("texts")          \* a count and the strings
Args == T("args")              \* the same, read as far as there is data
Binder == T("binder?")
Fd == T("fdref")               \* a descriptor that stays the parcel's
Pfd == T("pfdref")             \* the same as a ParcelFileDescriptor
OptPfd == T("optpfd")          \* an int that says whether one, given away, follows
Exception == T("exception")
Ints(n) == [k |-> "ints", n |-> n]          \* an int array the caller knows the size of

interfaceDescriptor == <<73>>

-----------------------------------------------------------------------------
(* Proxies and stubs drop the statuses of their writes, and read with the  *)
(* readers that give a default in place of a status.                       *)

WriteField(p, f, v) ==
    CASE f.k = "token" -> writeInterfaceToken(p, interfaceDescriptor)
      [] f.k = "flag" -> writeInt32(p, IF v THEN 1 ELSE 0)
      [] f.k \in {"texts", "args"} -> Then(writeInt32(p, Len(v)), LAMBDA q, x :
                                WriteEach(q, Len(v), LAMBDA r, i : writeString16(r, v[i])))
      [] f.k = "fdref" -> writeFileDescriptor(p, v, 0)
      [] f.k = "pfdref" -> writeParcelFileDescriptor(p, v, 0)
      [] f.k = "optpfd" -> IF v = <<>> THEN writeInt32(p, 0)
                           ELSE Then(writeInt32(p, 1), LAMBDA q, x : writeParcelFileDescriptor(
                                     Dup(q, v[1]), q.proc.nextFd, 1))
      [] f.k = "exception" -> Status_writeToParcel(p, StatusOk)
      [] f.k = "ints" -> Then(writeInt32(p, Len(v)), LAMBDA q, x :
                              write(q, PackedWords(T("int32"), v)))
      [] OTHER -> writeData(p, f, v)
WriteFields(p, fields, v) ==
    Ok(FoldLeft(LAMBDA q, i : WriteField(q, fields[i], v[i]).p, p, Upto(Len(fields))), "none")

\* What the method sees of a descriptor is the file it is open on, "none" when there
\* is none.
NoFile == <<"none", <<>>>>
FileOf(o) ==
    IF o.st = "OK" /\ o.v \in DOMAIN o.p.proc.fds THEN Ok(o.p, o.p.proc.fds[o.v])
    ELSE Ok(o.p, NoFile)

ReadField(p, f) ==
    CASE f.k = "token" -> Then(enforceInterface(p, interfaceDescriptor), LAMBDA q, mine :
                              IF mine THEN Ok(q, TRUE) ELSE Fail(q, "PERMISSION_DENIED"))
      [] f.k = "int32" -> readInt32OrZero(p)
      [] f.k = "int64" -> OrDefault(readScalar(p, f), <<0, 0>>)
      [] f.k = "flag" -> Then(readInt32OrZero(p), LAMBDA q, w : Ok(q, w = 1))
      [] f.k = "string16" -> OrDefault(readString16(p), <<>>)
      [] f.k = "texts" -> Then(readInt32OrZero(p), LAMBDA q, n :
                               ReadEach(q, n, LAMBDA r, i : OrDefault(readString16(r), <<>>)))
      [] f.k = "args" -> Then(readInt32OrZero(p), LAMBDA q, n :
                              FoldLeft(LAMBDA o, i :
                                    IF dataAvail(o.p) = 0 THEN o
                                    ELSE Then(OrDefault(readString16(o.p), <<>>), LAMBDA r, s :
                                            Ok(r, Append(o.v, s))), Ok(q, <<>>), Upto(n)))
      [] f.k = "binder?" -> OrDefault(readStrongBinder(p), NullBinder)
      [] f.k = "fdref" -> FileOf(readFileDescriptor(p))
      [] f.k = "pfdref" -> FileOf(readParcelFileDescriptor(p))
      [] f.k = "optpfd" -> Then(readInt32OrZero(p), LAMBDA q, w :
                                IF w = 0 THEN Ok(q, NoFile)
                                ELSE FileOf(readParcelFileDescriptor(q)))
      [] f.k = "exception" -> Then(Status_readFromParcel(p), LAMBDA q, s :
                                   IF s.ex = EX_NONE THEN Ok(q, TRUE) ELSE Fail(q, "exception"))
      [] f.k = "ints" -> Then(readInt32OrZero(p), LAMBDA q, n :
                              IF n # f.n THEN Fail(q, "NOT_ENOUGH_DATA")
                              ELSE Then(readAligned(q, n), LAMBDA r, w :
                                        Ok(r, PackedValues(T("int32"), w, n))))
ReadFields(p, fields) == ReadEach(p, Len(fields), LAMBDA q, i : ReadField(q, fields[i]))

-----------------------------------------------------------------------------
(* Requests: what the proxy writes, what the stub reads                    *)

BpBatteryStats(m) ==
    CASE m \in {"noteStartSensor", "noteStopSensor"} -> <<Token, Int32, Int32>>
      [] m \in {"noteResetVideo", "noteResetAudio", "noteResetCamera", "noteResetFlashlight"} ->
            <<Token>>
      [] OTHER -> <<Token, Int32>>       \* video, audio, flashlight and camera on and off
BnBatteryStats(m) ==
    CASE m \in {"noteStartSensor", "noteStopSensor"} -> <<Token, Int32, Int32>>
      [] m \in {"noteResetVideo", "noteResetAudio", "noteResetCamera", "noteResetFlashlight"} ->
            <<Token>>
      [] OTHER -> <<Token, Int32>>

BpUidObserver(m) ==
    CASE m \in {"onUidGone", "onUidIdle"} -> <<Token, Int32, Flag>>
      [] m = "onUidActive" -> <<Token, Int32>>
      [] m = "onUidStateChanged" -> <<Token, Int32, Int32, Int64, Int32>>
      [] m = "onUidProcAdjChanged" -> <<Int32>>
BnUidObserver(m) ==
    CASE m \in {"onUidGone", "onUidIdle"} -> <<Token, Int32, Flag>>
      [] m \in {"onUidActive", "onUidProcAdjChanged"} -> <<Token, Int32>>
      [] m = "onUidStateChanged" -> <<Token, Int32, Int32, Int64, Int32>>

BpPermissionController(m) ==
    CASE m = "checkPermission" -> <<Token, Text, Int32, Int32>>
      [] m = "noteOp" -> <<Token, Text, Int32, Text>>
      [] m = "getPackagesForUid" -> <<Token, Int32>>
      [] m = "isRuntimePermission" -> <<Token, Text>>
      [] m = "getPackageUid" -> <<Token, Text, Int32>>
BnPermissionController(m) ==
    CASE m = "checkPermission" -> <<Token, Text, Int32, Int32>>
      [] m = "noteOp" -> <<Token, Text, Int32, Text>>
      [] m = "getPackagesForUid" -> <<Token, Int32>>
      [] m = "isRuntimePermission" -> <<Token, Text>>
      [] m = "getPackageUid" -> <<Token, Text, Int32>>

BpShellCallback == <<Token, Text, Text, Text>>
BnShellCallback == <<Token, Text, Text, Text>>
BpResultReceiver == <<Token, Int32>>
BnResultReceiver == <<Token, Int32>>

\* Requests every binder answers, which have no token.
BpBinder_dump == <<Fd, Args>>
BBinder_dump == <<Fd, Args>>
IBinder_shellCommand == <<Fd, Fd, Fd, Args, Binder, Binder>>
BBinder_shellCommand == <<Fd, Fd, Fd, Args, Binder, Binder>>

-----------------------------------------------------------------------------
(* Replies: what the stub writes, what the proxy reads.  The stubs of the  *)
(* activity manager and of the process info service are the system's, in   *)
(* Java.                                                                   *)

PermissionController_reply(m) ==
    CASE m \in {"checkPermission", "isRuntimePermission"} -> <<Exception, Flag>>
      [] m \in {"noteOp", "getPackageUid"} -> <<Exception, Int32>>
      [] m = "getPackagesForUid" -> <<Exception, Texts16>>
PermissionController_result(m) ==
    CASE m \in {"checkPermission", "isRuntimePermission"} -> <<Exception, Flag>>
      [] m \in {"noteOp", "getPackageUid"} -> <<Exception, Int32>>
      [] m = "getPackagesForUid" -> <<Exception, Texts16>>

ShellCallback_reply == <<Exception, OptPfd>>
ShellCallback_result == <<Exception, Pfd>>

Memory_reply == <<Binder, Int64, Int64>>
Memory_result == <<Binder, Int64, Int64>>
MemoryHeap_reply == <<Fd, Int64, Int64, Int32>>
MemoryHeap_result == <<Fd, Int64, Int64, Int32>>

ActivityManager_reply(m) ==
    CASE m = "openContentUri" -> <<Exception, OptPfd>>
      [] m \in {"registerUidObserver", "unregisterUidObserver"} -> <<Exception>>
      [] m = "isUidActive" -> <<Exception, Flag>>
      [] m \in {"getUidProcessState", "checkPermission"} -> <<Exception, Int32>>
BpActivityManager(m) ==
    CASE m = "openContentUri" -> <<Exception, OptPfd>>
      [] m \in {"registerUidObserver", "unregisterUidObserver"} -> <<Exception>>
      [] m = "isUidActive" -> <<Exception, Flag>>
      [] m \in {"getUidProcessState", "checkPermission"} -> <<Exception, Int32>>

ProcessInfoService_reply(n) == <<Exception, Ints(n), Ints(n), Int32>>
BpProcessInfoService(n) == <<Exception, Ints(n), Ints(n), Int32>>

-----------------------------------------------------------------------------
(* SafeInterface.  A method is a sequence of parameters [t, out]: those    *)
(* that are pointers are outputs.                                          *)

\* Not const, and without a status, for native handles.
NoHandle == [fds |-> <<>>, ints |-> <<>>]
ParcelHandler_write(p, t, v) ==
    CASE t.k = "flat" -> WriteFlattenable(p, v)
      [] t.k = "light" -> WriteLight(p, v)
      [] t.k = "native" -> writeNativeHandle(p, v)
      [] t.k = "string8" -> writeString8(p, v)
      [] OTHER -> writeData(p, t, v)
ParcelHandler_read(p, t) ==
    CASE t.k = "flat" -> ReadFlattenable(p)
      [] t.k = "light" -> ReadLight(p)
      [] t.k = "native" -> OrDefault(readNativeHandle(p), NoHandle)
      [] t.k = "string8" -> readString8(p)
      [] OTHER -> readData(p, t, FALSE)

Picked(params, out) == SelectSeq(Upto(Len(params)), LAMBDA i : params[i].out = out)

WriteArgs(p, params, args, out) ==
    LET which == Picked(params, out)
    IN  WriteEach(p, Len(which), LAMBDA q, i :
            ParcelHandler_write(q, params[which[i]].t, args[which[i]]))
ReadArgs(p, params, out) ==
    LET which == Picked(params, out)
    IN  ReadInto(p, Len(which), LAMBDA q, i : ParcelHandler_read(q, params[which[i]].t))

writeInputs(p, params, args) == WriteArgs(p, params, args, FALSE)
readInputs(p, params) == ReadArgs(p, params, FALSE)
writeOutputs(p, params, args) == WriteArgs(p, params, args, TRUE)
readOutputs(p, params) == ReadArgs(p, params, TRUE)

\* The request and the reply of a call; args are all of the method's arguments, of
\* which the request has the inputs and the reply the outputs.
callRemote(p, params, args) ==
    writeInputs(writeInterfaceToken(p, interfaceDescriptor).p, params, args)
callLocal(p, params) ==
    Then(ReadField(p, Token), LAMBDA q, mine : readInputs(q, params))
callLocal_reply(p, params, args, result) ==
    Then(writeOutputs(p, params, args), LAMBDA q, v : writeInt32(q, result))
callRemote_result(p, params) ==
    Then(readOutputs(p, params), LAMBDA q, outs :
        Destroyed(p, q, Then(readInt32(q), LAMBDA r, result :
                            Ok(r, [outs |-> outs, result |-> result]))))
=============================================================================
