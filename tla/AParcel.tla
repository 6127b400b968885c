------------------------------ MODULE AParcel -------------------------------
(***************************************************************************)
(* The typed values of libbinder_ndk: the C functions on an AParcel and    *)
(* the C++ templates over them (binder_parcel_utils.h), for std types and  *)
(* for pointers.  An AParcel is the android::Parcel it wraps, so the       *)
(* values written here are read by readData of ParcelData and the other    *)
(* way round.                                                              *)
(***************************************************************************)
EXTENDS ParcelData

Known == {"OK", "NO_MEMORY", "INVALID_OPERATION", "BAD_VALUE", "BAD_TYPE", "PERMISSION_DENIED",
          "NOT_ENOUGH_DATA", "FDS_NOT_ALLOWED", "UNEXPECTED_NULL", "UNKNOWN_ERROR"}
PruneStatusT(o) == IF o.st \in Known THEN o ELSE Fail(o.p, "UNKNOWN_ERROR")

-----------------------------------------------------------------------------
(* Lengths of arrays                                                       *)

WriteAndValidateArraySize(p, isNullArray, length) ==
    IF \/ length < -1
       \/ ~isNullArray /\ length < 0
       \/ isNullArray /\ length > 0
    THEN Fail(p, "BAD_VALUE")
    ELSE PruneStatusT(writeInt32(p, length))

ReadAndValidateArraySize(p) ==
    Then(PruneStatusT(readInt32(p)), LAMBDA q, length :
        IF length < -1 THEN Fail(q, "BAD_VALUE")
        ELSE IF length > 4 * dataAvail(q) THEN Fail(q, "NO_MEMORY")
        ELSE Ok(q, length))

\* Whether the allocator of a type takes a length: those that return a buffer, and
\* those that make room for elements set one by one.
stdArrayAllocator(length, N) == length = N
nullableStdArrayAllocator(length, N) == length < 0 \/ length = N
stdVectorAllocator(length) == length >= 0
nullableStdVectorAllocator(length) == length >= -1
stdArrayExternalAllocator(length, N) == length = N
nullableStdArrayExternalAllocator(length, N) == length < 0 \/ length = N
stdVectorExternalAllocator(length) == length >= 0
nullableStdVectorExternalAllocator(length) == length >= -1

-----------------------------------------------------------------------------
(* Strings, scalars, binders, descriptors                                  *)

AParcel_writeString(p, s) ==
    Then(PruneStatusT(writeInt32(p, Len(utf8_to_utf16(s)))), LAMBDA q, v :
        FailsAs(writeInplace(q, Pack(Append(utf8_to_utf16(s), 0), 2, Chars)), "NO_MEMORY"))
AParcel_writeNullString(p) == PruneStatusT(writeInt32(p, -1))

\* The allocator is asked for length -1 whatever the reason the text is not
\* there, so a nullable string reads as null at the end of the data too.
AParcel_readString(p) == readUtf8FromUtf16(p)
AParcel_readNullableString(p) ==
    OrDefault(Then(readString16Inplace(p), LAMBDA q, s : Ok(q, <<utf16_to_utf8(s)>>)), <<>>)

AParcel_writeScalar(p, t, v) == PruneStatusT(writeScalar(p, t, v))
AParcel_readScalar(p, t) == PruneStatusT(readScalar(p, t))

AParcel_readStrongBinder(p) == PruneStatusT(unflattenBinder(p))
AParcel_writeRequiredStrongBinder(p, b) ==
    IF b = NullBinder THEN Fail(p, "UNEXPECTED_NULL") ELSE flattenBinder(p, b)
AParcel_readRequiredStrongBinder(p) ==
    Then(AParcel_readStrongBinder(p), LAMBDA q, b :
        IF b = NullBinder THEN Fail(q, "UNEXPECTED_NULL") ELSE Ok(q, b))

\* The value is <<>> for the descriptor -1, or <<fd>>.
AParcel_writeParcelFileDescriptor(p, v) ==
    IF v = <<>> THEN PruneStatusT(writeInt32(p, 0))
    ELSE Then(PruneStatusT(writeInt32(p, 1)), LAMBDA q, w :
            PruneStatusT(writeDupParcelFileDescriptor(q, v[1])))
AParcel_readParcelFileDescriptor(p) ==
    PruneStatusT(Then(readInt32(p), LAMBDA q, present :
        IF present = kNullParcelableFlag THEN Ok(q, <<>>)
        ELSE IF present # kNonNullParcelableFlag THEN Fail(q, "UNEXPECTED_NULL")
        ELSE Then(readUniqueParcelFileDescriptor(q), LAMBDA r, fd : Ok(r, <<fd>>))))
\* A descriptor that is not there is a negative number.
AParcel_writeRequiredParcelFileDescriptor(p, fd) ==
    IF fd < 0 THEN Fail(p, "UNEXPECTED_NULL") ELSE AParcel_writeParcelFileDescriptor(p, <<fd>>)
AParcel_readRequiredParcelFileDescriptor(p) ==
    Then(AParcel_readParcelFileDescriptor(p), LAMBDA q, v :
        IF v = <<>> THEN Fail(q, "UNEXPECTED_NULL") ELSE Ok(q, v[1]))

-----------------------------------------------------------------------------
(* AParcel_writeData and AParcel_readData, with the nullable forms         *)

RECURSIVE AParcel_writeData(_, _, _), AParcel_readData(_, _)

\* The functions that handle one element of an array; nullable says whether they are
\* those for an optional element.
WriteStringElement(p, nullable, v) ==
    IF nullable /\ v = <<>> THEN AParcel_writeNullString(p)
    ELSE AParcel_writeString(p, IF nullable THEN v[1] ELSE v)
ReadStringElement(p, nullable) ==
    IF nullable THEN AParcel_readNullableString(p) ELSE AParcel_readString(p)
WriteBinderElement(p, nullable, v) ==
    IF nullable THEN flattenBinder(p, v) ELSE AParcel_writeRequiredStrongBinder(p, v)
ReadBinderElement(p, nullable) ==
    IF nullable THEN AParcel_readStrongBinder(p) ELSE AParcel_readRequiredStrongBinder(p)
WriteFileDescriptorElement(p, nullable, v) ==
    IF nullable THEN AParcel_writeParcelFileDescriptor(p, v)
    ELSE AParcel_writeRequiredParcelFileDescriptor(p, v)
ReadFileDescriptorElement(p, nullable) ==
    IF nullable THEN AParcel_readParcelFileDescriptor(p)
    ELSE AParcel_readRequiredParcelFileDescriptor(p)
WriteDataElement(p, t, nullable, v) == AParcel_writeData(p, IF nullable THEN Opt(t) ELSE t, v)
ReadDataElement(p, t, nullable) == AParcel_readData(p, IF nullable THEN Opt(t) ELSE t)

ElementType(t) == IF t.k = "opt" THEN t.of ELSE t
IsNullable(t) == t.k \in {"opt", "binder?"}
WriteElement(p, t, v) ==
    LET plain == ElementType(t)
    IN  CASE plain.k = "utf8" -> WriteStringElement(p, IsNullable(t), v)
          [] plain.k \in {"binder", "binder?"} -> WriteBinderElement(p, IsNullable(t), v)
          [] plain.k = "pfd" -> WriteFileDescriptorElement(p, IsNullable(t), v)
          [] OTHER -> WriteDataElement(p, plain, IsNullable(t), v)
ReadElement(p, t) ==
    LET plain == ElementType(t)
    IN  CASE plain.k = "utf8" -> ReadStringElement(p, IsNullable(t))
          [] plain.k \in {"binder", "binder?"} -> ReadBinderElement(p, IsNullable(t))
          [] plain.k = "pfd" -> ReadFileDescriptorElement(p, IsNullable(t))
          [] OTHER -> ReadDataElement(p, plain, IsNullable(t))

\* An array that is memory, and one of elements; string arrays and parcelable
\* arrays have the same shape.
WriteMemory(p, t, vs) ==
    Then(WriteAndValidateArraySize(p, vs = <<>>, Len(vs)), LAMBDA q, v :
        IF vs = <<>> THEN Ok(q, v)
        ELSE FailsAs(writeInplace(q, PackedWords(t, vs)), "NO_MEMORY"))
WriteArray(p, t, vs) ==
    Then(WriteAndValidateArraySize(p, FALSE, Len(vs)), LAMBDA q, v :
        PruneStatusT(WriteEach(q, Len(vs), LAMBDA r, i : WriteElement(r, t, vs[i]))))
WriteNullArray(p) == WriteAndValidateArraySize(p, TRUE, -1)

\* The value is <<>> for a null array, else <<elements>>.
ReadIntoMemory(q, t, length, allocated) ==
    IF ~allocated THEN Fail(q, "NO_MEMORY")
    ELSE IF length < 0 THEN Ok(q, <<>>)
    ELSE IF length = 0 THEN Ok(q, << <<>> >>)
    ELSE Then(FailsAs(readInplace(q, PackedLen(t, length)), "NO_MEMORY"), LAMBDA r, w :
            Ok(r, <<PackedValues(t, w, length)>>))
ReadIntoArray(q, t, length, allocated) ==
    IF ~allocated THEN Fail(q, "NO_MEMORY")
    ELSE IF length < 0 THEN Ok(q, <<>>)
    ELSE Then(PruneStatusT(ReadInto(q, length, LAMBDA r, i : ReadElement(r, t))),
              LAMBDA r, vs : Ok(r, <<vs>>))
ReadMemory(p, t, Allocator(_)) ==
    Then(ReadAndValidateArraySize(p), LAMBDA q, length : ReadIntoMemory(q, t, length, Allocator(length)))
ReadArray(p, t, Allocator(_)) ==
    Then(ReadAndValidateArraySize(p), LAMBDA q, length : ReadIntoArray(q, t, length, Allocator(length)))
NonNull(o) == IF o.st = "OK" THEN Ok(o.p, o.v[1]) ELSE o

\* AParcel_writeVector and AParcel_readVector for a std::vector, an optional one and
\* a pointer with a length; uint32_t and float are as int32_t, uint64_t and double as
\* int64_t.
WriteVector(p, t, vs) ==
    IF is_pointer_equivalent_array(t) THEN WriteMemory(p, t, vs) ELSE WriteArray(p, t, vs)
AParcel_writeVector(p, t, nullable, v) ==
    IF nullable /\ v = <<>> THEN WriteNullArray(p)
    ELSE WriteVector(p, t, IF nullable THEN v[1] ELSE v)
AParcel_readNullableVector(p, t) ==
    IF is_pointer_equivalent_array(t) THEN ReadMemory(p, t, nullableStdVectorAllocator)
    ELSE ReadArray(p, t, nullableStdVectorExternalAllocator)
AParcel_readVector(p, t) ==
    NonNull(IF is_pointer_equivalent_array(t) THEN ReadMemory(p, t, stdVectorAllocator)
            ELSE ReadArray(p, t, stdVectorExternalAllocator))

\* The size of an out parameter: the callee makes a vector of it.
AParcel_writeVectorSize(p, v) == writeInt32(p, IF v = <<>> THEN -1 ELSE Len(v[1]))
AParcel_resizeVector(p, nullable) ==
    Then(readInt32(p), LAMBDA q, size :
        IF size = -1 /\ nullable THEN Ok(q, <<>>)
        ELSE IF size < 0 THEN Fail(q, "UNEXPECTED_NULL")
        ELSE IF size > kMaxAllocationSize THEN Fail(q, "NO_MEMORY")
        ELSE Ok(q, <<[i \in 1 .. size |-> 0]>>))

\* Arrays of fixed size.
AParcel_writeFixedArray(p, t, vs) ==
    IF is_pointer_equivalent_array(t) THEN WriteMemory(p, t, vs) ELSE WriteArray(p, t, vs)
AParcel_writeNullableFixedArray(p, t, v) ==
    IF v = <<>> THEN PruneStatusT(writeInt32(p, -1)) ELSE AParcel_writeFixedArray(p, t, v[1])
AParcel_readFixedArray(p, t, N) ==
    NonNull(IF is_pointer_equivalent_array(t)
            THEN ReadMemory(p, t, LAMBDA l : stdArrayAllocator(l, N))
            ELSE ReadArray(p, t, LAMBDA l : stdArrayExternalAllocator(l, N)))
AParcel_readNullableFixedArray(p, t, N) ==
    IF is_pointer_equivalent_array(t)
    THEN ReadMemory(p, t, LAMBDA l : nullableStdArrayAllocator(l, N))
    ELSE ReadArray(p, t, LAMBDA l : nullableStdArrayExternalAllocator(l, N))

\* The holder of the NDK keeps its parcelable written out in a parcel.
setParcelable(proc, h) ==
    IF h.name = <<>> THEN initState(proc)
    ELSE LET q == AParcel_writeString(initState(proc), utf16_to_utf8(h.name)).p
         IN  WriteEach(q, Len(h.of), LAMBDA r, i : AParcel_writeData(r, h.of[i], h.val[i])).p
WriteHeld(p, h, held) ==
    Then(writeInt32(p, h.stability), LAMBDA q, v :
        Then(writeInt32(q, 4 * dataSize(held)), LAMBDA r, w :
            PruneStatusT(appendFrom(r, held, 0, dataSize(held)))))
AfterWrite(o, held) == FreeHeld(o.p, [o EXCEPT !.p = [held EXCEPT !.proc = o.p.proc]])
WriteAndFree(p, h, held) == AfterWrite(WriteHeld([p EXCEPT !.proc = held.proc], h, held), held)
AParcelableHolder_writeToParcel(p, h) == WriteAndFree(p, h, setParcelable(p.proc, h))

AParcelableHolder_readFromParcel(p, t) ==
    Then(readInt32(p), LAMBDA q, stability :
        IF stability # t.stability THEN Fail(q, "BAD_VALUE")
        ELSE Then(readInt32(q), LAMBDA r, size :
            IF size < 0 THEN Fail(r, "BAD_VALUE") ELSE PruneStatusT(CopyHeld(r, size))))

AParcelableHolder_getParcelable(held, t) ==
    LET p == setDataPosition(held, 0)
    IN  IF dataSize(p) = 0 THEN Ok(p, [t EXCEPT !.name = <<>>])
        ELSE Then(AParcel_readString(p), LAMBDA q, name :
            IF name # utf16_to_utf8(t.name) THEN Ok(q, [t EXCEPT !.name = <<>>])
            ELSE Then(ReadInto(q, Len(t.of), LAMBDA r, i : AParcel_readData(r, t.of[i])),
                    LAMBDA r, vs : Ok(r, [t EXCEPT !.val = vs])))
AReadHeld(p, t) ==
    Then(AParcelableHolder_readFromParcel(p, t), LAMBDA q, held :
        FreeHeld(q, AParcelableHolder_getParcelable([held EXCEPT !.proc = q.proc], t)))

IsAParcelable(t) == t.k \in {"struct", "holder"}
AWriteToParcel(p, t, v) ==
    IF t.k = "holder" THEN AParcelableHolder_writeToParcel(p, v)
    ELSE WriteEach(p, Len(t.of), LAMBDA q, i : AParcel_writeData(q, t.of[i], v[i]))
AReadFromParcel(p, t) ==
    IF t.k = "holder" THEN AReadHeld(p, t)
    ELSE ReadInto(p, Len(t.of), LAMBDA q, i : AParcel_readData(q, t.of[i]))

AParcel_writeParcelable(p, t, v) ==
    Then(PruneStatusT(writeInt32(p, 1)), LAMBDA q, w : AWriteToParcel(q, t, v))

\* The value is <<>> for null, else <<v>>.
AParcel_readNullableParcelable(p, t) ==
    Then(PruneStatusT(readInt32(p)), LAMBDA q, null :
        IF null = 0 THEN Ok(q, <<>>)
        ELSE Then(AReadFromParcel(q, t), LAMBDA r, v : Ok(r, <<v>>)))
AParcel_readParcelable(p, t) ==
    Then(AParcel_readNullableParcelable(p, t), LAMBDA q, v :
        IF v = <<>> THEN Fail(q, "UNEXPECTED_NULL") ELSE Ok(q, v[1]))

AParcel_writeNullableData(p, t, v) ==
    CASE t.k = "pfd" -> AParcel_writeParcelFileDescriptor(p, v)
      [] t.k = "utf8" /\ v = <<>> -> AParcel_writeNullString(p)
      [] t.k = "vector" -> AParcel_writeVector(p, t.of, TRUE, v)
      [] t.k = "array" -> AParcel_writeNullableFixedArray(p, t.of, v)
      [] IsAParcelable(t) /\ v = <<>> -> PruneStatusT(writeInt32(p, 0))
      [] OTHER -> AParcel_writeData(p, t, v[1])

AParcel_readNullableData(p, t) ==
    CASE t.k = "pfd" -> AParcel_readParcelFileDescriptor(p)
      [] t.k = "utf8" -> AParcel_readNullableString(p)
      [] t.k = "vector" -> AParcel_readNullableVector(p, t.of)
      [] t.k = "array" -> AParcel_readNullableFixedArray(p, t.of, t.n)
      [] IsAParcelable(t) -> AParcel_readNullableParcelable(p, t)

AParcel_writeData(p, t, v) ==
    CASE IsScalar(t) -> AParcel_writeScalar(p, t, v)
      [] t.k = "utf8" -> AParcel_writeString(p, v)
      [] t.k = "pfd" -> AParcel_writeRequiredParcelFileDescriptor(p, v)
      [] t.k = "binder" -> AParcel_writeRequiredStrongBinder(p, v)
      [] t.k = "binder?" -> flattenBinder(p, v)
      [] IsAParcelable(t) -> AParcel_writeParcelable(p, t, v)
      [] t.k = "vector" -> AParcel_writeVector(p, t.of, FALSE, v)
      [] t.k = "array" -> AParcel_writeFixedArray(p, t.of, v)
      [] t.k = "opt" -> AParcel_writeNullableData(p, t.of, v)

AParcel_readData(p, t) ==
    CASE IsScalar(t) -> AParcel_readScalar(p, t)
      [] t.k = "utf8" -> AParcel_readString(p)
      [] t.k = "pfd" -> AParcel_readRequiredParcelFileDescriptor(p)
      [] t.k = "binder" -> AParcel_readRequiredStrongBinder(p)
      [] t.k = "binder?" -> AParcel_readStrongBinder(p)
      [] IsAParcelable(t) -> AParcel_readParcelable(p, t)
      [] t.k = "vector" -> AParcel_readVector(p, t.of)
      [] t.k = "array" -> AParcel_readFixedArray(p, t.of, t.n)
      [] t.k = "opt" -> AParcel_readNullableData(p, t.of)

\* The overloads for pointers take null for a string and for an array of any
\* length, whether or not the type is nullable; the length tells.
PointerType(t) ==
    LET element == IF t.of.k = "utf8" THEN Opt(t.of) ELSE t.of
    IN  CASE t.k = "utf8" -> Opt(t)
          [] t.k = "vector" -> Opt(Vec(element))
          [] t.k = "array" -> Arr(element, t.n)
          [] OTHER -> t
AParcel_readPointer(p, t) == AParcel_readData(p, PointerType(t))

-----------------------------------------------------------------------------
(* Whole parcels                                                           *)

AParcel_marshal(p) ==
    IF mObjectsSize(p) > 0 THEN Fail(p, "INVALID_OPERATION")
    ELSE Ok(p, SubSeq(p.mData, 1, p.mDataSize))
AParcel_unmarshal(p, words) ==
    Then(PruneStatusT(setDataSize(p, Len(words))), LAMBDA q, v :
        FailsAs(writeInplace(setDataPosition(q, 0), words), "NO_MEMORY"))
=============================================================================
