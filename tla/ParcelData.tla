----------------------------- MODULE ParcelData -----------------------------
(***************************************************************************)
(* The typed values of android::Parcel: writeData and readData of          *)
(* Parcel.h with the methods of Parcel.cpp they call, and the parcelables  *)
(* of libbinder.                                                           *)
(*                                                                         *)
(* A type is a record: T(k) for a simple kind k, Vec, Arr, Opt and         *)
(* Struct for what is built from others.  A value of Opt(t) is <<>> or     *)
(* <<v>>, of T("int64") its two words, of a string its characters, of a    *)
(* descriptor its number.                                                  *)
(***************************************************************************)
EXTENDS Parcel

CONSTANT BlobLimit      \* words of the largest blob written in place

T(k) == [k |-> k]
Vec(t) == [k |-> "vector", of |-> t]
Arr(t, n) == [k |-> "array", of |-> t, n |-> n]
Opt(t) == [k |-> "opt", of |-> t]
Struct(ts) == [k |-> "struct", of |-> ts]          \* a parcelable with fields ts

kNullVectorSize == -1
kNullParcelableFlag == 0
kNonNullParcelableFlag == 1

Upto(n) == [i \in 1 .. n |-> i]

\* Each of n writes, or reads, as long as they succeed.
WriteEach(p, n, Write(_, _)) ==
    FoldLeft(LAMBDA o, i : Then(o, LAMBDA q, v : Write(q, i)), Ok(p, "none"), Upto(n))
ReadEach(p, n, Read(_, _)) ==
    FoldLeft(LAMBDA o, i : Then(o, LAMBDA q, vs :
                Then(Read(q, i), LAMBDA r, v : Ok(r, Append(vs, v)))), Ok(p, <<>>), Upto(n))

\* When o fails, the values read from p up to q are destroyed by the object they
\* were read into, and their descriptors closed.  What the failed read itself
\* opened is left to its reader.
Destroyed(p, q, o) ==
    IF o.st = "OK" THEN o
    ELSE [o EXCEPT !.p.proc.fds = Close(@, DOMAIN q.proc.fds \ DOMAIN p.proc.fds)]
\* n reads into the elements or fields of one object.
ReadInto(p, n, Read(_, _)) ==
    FoldLeft(LAMBDA o, i : Then(o, LAMBDA q, vs :
                Destroyed(p, q, Then(Read(q, i), LAMBDA r, v : Ok(r, Append(vs, v))))),
             Ok(p, <<>>), Upto(n))

-----------------------------------------------------------------------------
(* Words and what is packed in them, the first value in the low bits       *)

Pack(vs, per, base) ==
    LET At(i) == IF i \in DOMAIN vs THEN vs[i] ELSE 0
    IN  [w \in 1 .. (Len(vs) + per - 1) \div per |->
            Word(MapThenSumSet(LAMBDA j : At(per * (w - 1) + j + 1) * base ^ j, 0 .. per - 1))]
Unpack(words, n, per, base) ==
    [i \in 1 .. n |-> (words[(i - 1) \div per + 1].val \div base ^ ((i - 1) % per)) % base]

Bytes == 256
Chars == 65536

is_pointer_equivalent_array(t) == t.k \in {"byte", "int32", "int64"}

\* An array of such a type as memory.
PackedLen(t, n) == CASE t.k = "byte" -> (n + 3) \div 4
                     [] t.k = "int32" -> n
                     [] t.k = "int64" -> 2 * n
PackedWords(t, vs) == CASE t.k = "byte" -> Pack(vs, 4, Bytes)
                        [] t.k = "int32" -> [i \in DOMAIN vs |-> Word(vs[i])]
                        [] t.k = "int64" -> [i \in 1 .. 2 * Len(vs) |->
                                                Word(vs[(i + 1) \div 2][2 - (i % 2)])]
PackedValues(t, words, n) ==
    CASE t.k = "byte" -> Unpack(words, n, 4, Bytes)
      [] t.k = "int32" -> [i \in 1 .. n |-> words[i].val]
      [] t.k = "int64" -> [i \in 1 .. n |-> <<words[2 * i - 1].val, words[2 * i].val>>]

writeInt32(p, v) == writeAligned(p, <<Word(v)>>)
readInt32(p) == Then(readAligned(p, 1), LAMBDA q, w : Ok(q, w[1].val))

\* The reader without a status: 0 when the read fails.
OrDefault(o, v) == IF o.st = "OK" THEN o ELSE Ok(o.p, v)
readInt32OrZero(p) == OrDefault(readInt32(p), 0)

\* Scalars are words of their own; bool, char16_t and int8_t are widened to
\* int32_t and cut back by a cast.
IsScalar(t) == t.k \in {"bool", "byte", "char", "int32", "int64"}
ToInt32(t, v) == IF t.k = "bool" THEN (IF v THEN 1 ELSE 0) ELSE v
FromInt32(t, w) == CASE t.k = "bool" -> w # 0
                     [] t.k = "byte" -> w % Bytes
                     [] t.k = "char" -> w % Chars
                     [] t.k = "int32" -> w
writeScalar(p, t, v) ==
    IF t.k = "int64" THEN writeAligned(p, PackedWords(t, <<v>>)) ELSE writeInt32(p, ToInt32(t, v))
readScalar(p, t) ==
    IF t.k = "int64"
    THEN Then(readAligned(p, 2), LAMBDA q, w : Ok(q, PackedValues(t, w, 1)[1]))
    ELSE Then(readInt32(p), LAMBDA q, w : Ok(q, FromInt32(t, w)))

-----------------------------------------------------------------------------
(* Strings.  The conversions of libutils are modelled for the characters   *)
(* of one and of two bytes.                                                *)

RECURSIVE utf8_to_utf16(_), utf16_to_utf8(_)
utf8_to_utf16(s) ==
    IF s = <<>> THEN <<>>
    ELSE IF s[1] < 128 THEN <<s[1]>> \o utf8_to_utf16(Tail(s))
    ELSE <<((s[1] % 32) * 64) + (s[2] % 64)>> \o utf8_to_utf16(SubSeq(s, 3, Len(s)))
utf16_to_utf8(s) ==
    IF s = <<>> THEN <<>>
    ELSE (IF s[1] < 128 THEN <<s[1]>> ELSE <<192 + s[1] \div 64, 128 + (s[1] % 64)>>)
            \o utf16_to_utf8(Tail(s))

\* A length and the characters with their terminator, per to a word.
WriteText(p, s, per, base) ==
    Then(writeInt32(p, Len(s)), LAMBDA q, v : write(q, Pack(Append(s, 0), per, base)))
ReadTextInplace(p, per, base) ==
    Then(readInt32OrZero(p), LAMBDA q, size :
        IF size < 0 THEN Fail(q, "null")
        ELSE Then(readInplace(q, (size + per) \div per), LAMBDA r, words :
            LET text == Unpack(words, size + 1, per, base)
            IN  IF text[size + 1] # 0 THEN Fail(r, "null") ELSE Ok(r, SubSeq(text, 1, size))))

NullRefused(o) == IF o.st = "null" THEN Fail(o.p, "UNEXPECTED_NULL") ELSE o

writeString16(p, s) == WriteText(p, s, 2, Chars)
readString16Inplace(p) == ReadTextInplace(p, 2, Chars)
readString16(p) == NullRefused(readString16Inplace(p))
writeString8(p, s) == WriteText(p, s, 4, Bytes)
readString8(p) == NullRefused(ReadTextInplace(p, 4, Bytes))

\* A failed allocation of the text is NO_MEMORY here.
writeUtf8AsUtf16(p, s) == writeString16(p, utf8_to_utf16(s))
readUtf8FromUtf16(p) ==
    Then(readString16(p), LAMBDA q, s : Ok(q, utf16_to_utf8(s)))

writeCString(p, s) == write(p, Pack(Append(s, 0), 4, Bytes))
\* The end is looked for in the bytes, whatever they are.
readCString(p) ==
    LET bytes == Unpack(SubSeq(p.mData, p.mDataPos + 1, p.mDataSize),
                        4 * (p.mDataSize - p.mDataPos), 4, Bytes)
        Ends == {i \in DOMAIN bytes : bytes[i] = 0}
        len == CHOOSE i \in Ends : \A j \in Ends : i <= j
    IN  IF p.mDataPos >= p.mDataSize \/ Ends = {} THEN Fail(p, "null")
        ELSE Ok([p EXCEPT !.mDataPos = @ + (len + 3) \div 4], SubSeq(bytes, 1, len - 1))

-----------------------------------------------------------------------------
(* Binders and descriptors                                                 *)

readStrongBinder(p) ==
    Then(unflattenBinder(p), LAMBDA q, b :
        IF b = NullBinder THEN Fail(q, "UNEXPECTED_NULL") ELSE Ok(q, b))

\* The reader's own descriptor: a duplicate.
DupRead(o) ==
    IF o.st # "OK" THEN Fail(o.p, "BAD_TYPE")
    ELSE IF o.v \notin DOMAIN o.p.proc.fds THEN Fail(o.p, "BAD_VALUE")
    ELSE Ok(Dup(o.p, o.v), o.p.proc.nextFd)

readUniqueFileDescriptor(p) == DupRead(readFileDescriptor(p))

\* With a communication channel the writer is told that it is detached, which
\* fails when the descriptor of the channel is not there.
Detached(o) == Then(readFileDescriptor(o.p), LAMBDA q, channel : [o EXCEPT !.p = q])
readParcelFileDescriptor(p) ==
    Then(readInt32OrZero(p), LAMBDA q, comm :
        IF comm = 0 THEN readFileDescriptor(q) ELSE Detached(readFileDescriptor(q)))
readUniqueParcelFileDescriptor(p) == DupRead(readParcelFileDescriptor(p))

-----------------------------------------------------------------------------
(* Blobs, native handles and flattenables.  A file is a pair: its name and *)
(* its contents, which are the words of a blob for a region of ashmem.     *)

BLOB_INPLACE == 0
BLOB_ASHMEM_IMMUTABLE == 1
BLOB_ASHMEM_MUTABLE == 2

\* The words are what the caller puts into the blob.
writeBlob(p, words, mutableCopy) ==
    LET fd == p.proc.nextFd
        region == [p EXCEPT !.proc.fds = @ @@ (fd :> <<"region", words>>),
                            !.proc.nextFd = @ + 1]
        kind == IF mutableCopy THEN BLOB_ASHMEM_MUTABLE ELSE BLOB_ASHMEM_IMMUTABLE
    IN  IF ~p.mAllowFds \/ Len(words) <= BlobLimit
        THEN Then(writeInt32(p, BLOB_INPLACE), LAMBDA q, v :
                FailsAs(writeInplace(q, words), "NO_MEMORY"))
        ELSE IF p.proc.fail = "region" THEN Fail(p, "NO_MEMORY")
        ELSE ClosedOnError(p, Then(writeInt32(region, kind), LAMBDA q, v :
                                writeFileDescriptor(q, fd, 1)))

\* The reader maps the parcel's own region.
readBlob(p, len) ==
    Then(readInt32(p), LAMBDA q, type :
        IF type = BLOB_INPLACE THEN FailsAs(readInplace(q, len), "BAD_VALUE")
        ELSE Then(FailsAs(readFileDescriptor(q), "BAD_VALUE"), LAMBDA r, fd :
            LET file == r.proc.fds[fd]
            IN  IF file[1] # "region" \/ Len(file[2]) < len THEN Fail(r, "BAD_VALUE")
                ELSE Ok(r, SubSeq(file[2], 1, len))))

writeNativeHandle(p, h) ==
    Then(writeInt32(p, Len(h.fds)), LAMBDA q, v : Then(writeInt32(q, Len(h.ints)), LAMBDA r, w :
        Then(WriteEach(r, Len(h.fds), LAMBDA s, i : writeDupFileDescriptor(s, h.fds[i])),
             LAMBDA s, x : write(s, PackedWords(T("int32"), h.ints)))))

\* Faulty variant: descriptors duplicated before a failure stay open.
DuplicatesLeft(p, n) == ReadEach(p, n, LAMBDA q, i : readUniqueFileDescriptor(q))

\* Descriptors duplicated before a failure are closed again.
Duplicates(p, n) ==
    ReadInto(p, n, LAMBDA q, i : readUniqueFileDescriptor(q))

readNativeHandle(p) ==
    Then(readInt32(p), LAMBDA q, numFds : Then(readInt32(q), LAMBDA r, numInts :
        Then(Duplicates(r, numFds), LAMBDA s, fds :
            Then(ClosedOnError(r, readAligned(s, numInts)), LAMBDA t, w :
                Ok(t, [fds |-> fds, ints |-> PackedValues(T("int32"), w, numInts)])))))

\* A Flattenable: its bytes, here words, and its descriptors.
WriteFlattenable(p, f) ==
    Then(writeInt32(p, 4 * Len(f.data)), LAMBDA q, v : Then(writeInt32(q, Len(f.fds)),
        LAMBDA r, w :
            Then(FailsAs(writeInplace(r, PackedWords(T("int32"), f.data)), "BAD_VALUE"),
                 LAMBDA s, x : WriteEach(s, Len(f.fds), LAMBDA t, i :
                                    writeDupFileDescriptor(t, f.fds[i])))))
ReadFlattenable(p) ==
    Then(readInt32OrZero(p), LAMBDA q, len : Then(readInt32OrZero(q), LAMBDA r, count :
        IF len < 0 \/ count < 0 THEN Fail(r, "BAD_VALUE")
        ELSE FailsAs(Then(readInplace(r, len \div 4), LAMBDA s, buf :
                Then(Duplicates(s, count), LAMBDA t, fds :
                    Ok(t, [data |-> PackedValues(T("int32"), buf, len \div 4), fds |-> fds]))),
                "BAD_VALUE")))

\* A LightFlattenable of variable size.
WriteLight(p, data) ==
    Then(writeInt32(p, 4 * Len(data)), LAMBDA q, v :
        IF data = <<>> THEN Ok(q, v)
        ELSE FailsAs(writeInplace(q, PackedWords(T("int32"), data)), "NO_MEMORY"))
ReadLight(p) ==
    Then(readInt32(p), LAMBDA q, s :
        IF s = 0 THEN Ok(q, <<>>)
        ELSE IF s < 0 THEN Fail(q, "NO_MEMORY")
        ELSE Then(FailsAs(readInplace(q, s \div 4), "NO_MEMORY"), LAMBDA r, w :
                Ok(r, PackedValues(T("int32"), w, s \div 4))))

-----------------------------------------------------------------------------
(* binder::Status: an exception, an error code, a message.                 *)
(* EX_TRANSACTION_FAILED is not written: its code, here the name of a      *)
(* status, is what writeToParcel returns.                                  *)

EX_NONE == 0
EX_SECURITY == -1
EX_SERVICE_SPECIFIC == -8
EX_PARCELABLE == -9
EX_HAS_REPLY_HEADER == -128
EX_TRANSACTION_FAILED == -129

StatusOk == [ex |-> EX_NONE, code |-> 0, msg |-> <<>>]

Status_writeToParcel(p, s) ==
    IF s.ex = EX_TRANSACTION_FAILED THEN Fail(p, s.code)
    ELSE Then(writeInt32(p, s.ex), LAMBDA q, v :
        IF s.ex = EX_NONE THEN Ok(q, v)
        ELSE Then(writeString16(q, utf8_to_utf16(s.msg)), LAMBDA r, w :
               Then(writeInt32(r, 0), LAMBDA t, x :
                  IF s.ex = EX_SERVICE_SPECIFIC THEN writeInt32(t, s.code)
                  ELSE IF s.ex = EX_PARCELABLE THEN writeInt32(t, 0)
                  ELSE Ok(t, x))))

\* A header that says its size, the size included, is passed over.
SkipHeader(p) ==
    Then(readInt32(p), LAMBDA q, size :
        IF size < 0 \/ size > 4 * dataAvail(p) THEN Fail(q, "UNKNOWN_ERROR")
        ELSE Ok(setDataPosition(q, p.mDataPos + size \div 4), "none"))

\* The remote stack trace: its size does not include the size.
SkipStackTraceFromSize(p) ==
    Then(readInt32(p), LAMBDA q, size : Ok(setDataPosition(q, p.mDataPos + size \div 4), "none"))
SkipStackTrace(p) ==
    Then(readInt32(p), LAMBDA q, size :
        IF size < 0 \/ size > 4 * dataAvail(q) THEN Fail(q, "UNKNOWN_ERROR")
        ELSE Ok(setDataPosition(q, q.mDataPos + size \div 4), "none"))

\* A null message reads as the empty one.
ReadMessage(p) ==
    Then(readInt32(p), LAMBDA q, size :
        IF size = kNullVectorSize THEN Ok(q, <<>>)
        ELSE readUtf8FromUtf16(setDataPosition(q, p.mDataPos)))

Status_readFromParcel(p) ==
    Then(readInt32(p), LAMBDA q, ex :
        IF ex = EX_HAS_REPLY_HEADER THEN Then(SkipHeader(q), LAMBDA r, v : Ok(r, StatusOk))
        ELSE IF ex = EX_NONE THEN Ok(q, StatusOk)
        ELSE Then(ReadMessage(q), LAMBDA r, msg : Then(SkipStackTrace(r), LAMBDA t, v :
                LET st == [ex |-> ex, code |-> 0, msg |-> msg]
                IN  IF ex = EX_SERVICE_SPECIFIC
                    THEN Then(readInt32(t), LAMBDA u, code : Ok(u, [st EXCEPT !.code = code]))
                    ELSE IF ex = EX_PARCELABLE
                    THEN Then(SkipHeader(t), LAMBDA u, w : Ok(u, st))
                    ELSE Ok(t, st))))

-----------------------------------------------------------------------------
(* writeData and readData                                                  *)

RECURSIVE writeData(_, _, _), readData(_, _, _)

\* A value written after room for its size in bytes, which is then filled in.
Backpatched(p, Write(_)) ==
    Then(writeInt32(p, 0), LAMBDA q, v :
        Then(Write(q), LAMBDA r, w :
            Then(writeInt32(setDataPosition(r, p.mDataPos), 4 * (r.mDataPos - q.mDataPos)),
                LAMBDA t, x : Ok(setDataPosition(t, r.mDataPos), "none"))))

\* A holder is [stability, name, of, val]: a parcelable of type "of" under its
\* name, or nothing when the name is empty.  The status of the parcelable's own
\* writeToParcel is dropped.
ParcelableHolder_writeToParcel(p, h) ==
    Then(writeInt32(p, h.stability), LAMBDA q, v :
        IF h.name = <<>> THEN writeInt32(q, 0)
        ELSE Backpatched(q, LAMBDA r : Then(writeString16(r, h.name), LAMBDA s, w :
                Ok(WriteEach(s, Len(h.of), LAMBDA t, i : writeData(t, h.of[i], h.val[i])).p,
                   "none"))))

\* The bytes are copied into a parcel of the holder, which belongs to no session.
\* The value is that parcel, or nothing; Unheld frees it.
Unheld(p, held) == [p EXCEPT !.proc = freeDataNoInit(held)]
PassOver(p, size, o) ==
    IF o.st # "OK" THEN Fail(Unheld(p, o.p), o.st)
    ELSE Ok([setDataPosition(p, p.mDataPos + size \div 4) EXCEPT !.proc = o.p.proc], o.p)
CopyHeld(p, size) ==
    PassOver(p, size, appendFrom(initState(p.proc), p, p.mDataPos, size \div 4))
ParcelableHolder_readFromParcel(p, t) ==
    Then(readInt32(p), LAMBDA q, stability :
        IF stability # t.stability THEN Fail(q, "BAD_VALUE")
        ELSE Then(readInt32(q), LAMBDA r, size :
            IF size < 0 THEN Fail(r, "BAD_VALUE")
            ELSE IF size = 0 THEN Ok(r, <<>>)
            ELSE Then(CopyHeld(r, size), LAMBDA s, held : Ok(s, <<held>>))))

\* The parcelable of the holder, if it has the type asked for.
getParcelable(p, t) ==
    Then(readString16(setDataPosition(p, 0)), LAMBDA q, name :
        IF name # t.name THEN Ok(q, [t EXCEPT !.name = <<>>])
        ELSE Then(ReadInto(q, Len(t.of), LAMBDA r, i : readData(r, t.of[i], FALSE)),
                LAMBDA r, vs : Ok(r, [t EXCEPT !.val = vs])))
FreeHeld(p, o) == [o EXCEPT !.p = Unheld(p, o.p)]
ReadHeld(p, t) ==
    Then(ParcelableHolder_readFromParcel(p, t), LAMBDA q, held :
        IF held = <<>> THEN Ok(q, [t EXCEPT !.name = <<>>])
        ELSE FreeHeld(q, getParcelable([held[1] EXCEPT !.proc = q.proc], t)))

\* A holder that was received and not opened is sent on by copying its parcel.
ForwardHolder(p, t, held) ==
    Then(writeInt32(p, t.stability), LAMBDA q, v :
        Then(writeInt32(q, IF held = <<>> THEN 0 ELSE 4 * dataSize(held[1])), LAMBDA r, w :
            IF held = <<>> THEN Ok(r, w)
            ELSE appendFrom(r, held[1], 0, dataSize(held[1]))))

\* A bundle maps each kind of value to a map from keys to values of the kind.
\* double is modelled by int64.
BundleKinds == <<"bool", "int32", "int64", "double", "string16", "vec_bool", "vec_int32",
                 "vec_int64", "vec_double", "vec_string16", "bundle">>
BundleType == [bool |-> T("bool"), int32 |-> T("int32"), int64 |-> T("int64"),
               double |-> T("int64"), string16 |-> T("string16"),
               vec_bool |-> Vec(T("bool")), vec_int32 |-> Vec(T("int32")),
               vec_int64 |-> Vec(T("int64")), vec_double |-> Vec(T("int64")),
               vec_string16 |-> Vec(T("string16")), bundle |-> T("bundle")]
BUNDLE_MAGIC == 1279544898
BUNDLE_MAGIC_NATIVE == 1279544900
VAL == [bool |-> 9, int32 |-> 1, int64 |-> 6, double |-> 8, string16 |-> 0, vec_bool |-> 23,
        vec_int32 |-> 18, vec_int64 |-> 19, vec_double |-> 28, vec_string16 |-> 14,
        bundle |-> 25]

NoBundle == [k \in Range(BundleKinds) |-> <<>>]

\* The key is erased from the first map that has it.
erase(b, key) ==
    LET Has == {i \in DOMAIN BundleKinds : key \in DOMAIN b[BundleKinds[i]]}
    IN  IF Has = {} THEN b
        ELSE [b EXCEPT ![BundleKinds[Min(Has)]] = Restrict(@, DOMAIN @ \ {key})]
put(b, kind, key, v) == [erase(b, key) EXCEPT ![kind] = (key :> v) @@ @]

\* The entries in the order they are written; keys are told apart by their first
\* character.
Entries(b) ==
    FlattenSeq([i \in DOMAIN BundleKinds |->
        LET kind == BundleKinds[i]
            keys == SortSeq(SetToSeq(DOMAIN b[kind]), LAMBDA x, y : x[1] < y[1])
        IN  [j \in DOMAIN keys |-> <<kind, keys[j]>>]])

writeToParcelInner(p, b) ==
    LET es == Entries(b)
    IN  Then(writeInt32(p, Len(es)), LAMBDA q, v :
            WriteEach(q, Len(es), LAMBDA r, i :
                Then(writeString16(r, es[i][2]), LAMBDA s, w :
                    Then(writeInt32(s, VAL[es[i][1]]), LAMBDA t, x :
                        writeData(t, BundleType[es[i][1]], b[es[i][1]][es[i][2]])))))

\* The length filled in leaves out the length and the magic number.
PersistableBundle_writeToParcel(p, b) ==
    IF Entries(b) = <<>> THEN writeInt32(p, 0)
    ELSE Then(writeInt32(p, 1), LAMBDA q, v : Then(writeInt32(q, BUNDLE_MAGIC_NATIVE),
            LAMBDA r, w : Then(writeToParcelInner(r, b), LAMBDA s, x :
                Then(writeInt32(setDataPosition(s, p.mDataPos), 4 * (s.mDataPos - r.mDataPos)),
                    LAMBDA t, y : Ok(setDataPosition(t, s.mDataPos), "none")))))

\* One entry, added to the bundle.
ReadEntry(p, b) ==
    Then(readString16(p), LAMBDA q, key : Then(readInt32(q), LAMBDA r, val :
        LET Kinds == {k \in DOMAIN VAL : VAL[k] = val}
            kind == CHOOSE k \in Kinds : TRUE
        IN  IF Kinds = {} THEN Fail(r, "BAD_TYPE")
            ELSE Then(readData(r, BundleType[kind], FALSE), LAMBDA s, v :
                    Ok(s, [b EXCEPT ![kind] = (key :> v) @@ @]))))

readFromParcelInner(p, b) ==
    Then(readInt32(p), LAMBDA q, magic :
        IF magic \notin {BUNDLE_MAGIC, BUNDLE_MAGIC_NATIVE} THEN Fail(q, "BAD_VALUE")
        ELSE Then(readInt32(q), LAMBDA r, n :
                FoldLeft(LAMBDA o, i : Then(o, ReadEntry), Ok(r, b), Upto(n))))

\* The length matters only when it is 0: an empty bundle, or the end of the data.
PersistableBundle_readFromParcel(p, b) ==
    Then(readInt32OrZero(p), LAMBDA q, length :
        IF length < 0 THEN Fail(q, "UNEXPECTED_NULL")
        ELSE IF length = 0 THEN Ok(q, b)
        ELSE readFromParcelInner(q, b))

\* The elements of a vector or array after its length.
WriteElements(p, t, vs) ==
    IF is_pointer_equivalent_array(t) THEN write(p, PackedWords(t, vs))
    ELSE WriteEach(p, Len(vs), LAMBDA q, i : writeData(q, t, vs[i]))

\* A failed write of the length is not noticed.
WriteWidened(p, t, vs) ==
    FailsAs(writeInplace(p, [i \in DOMAIN vs |-> Word(ToInt32(t, vs[i]))]), "BAD_VALUE")
writeVector(p, t, vs) ==
    LET q == writeInt32(p, Len(vs)).p
    IN  IF t.k \in {"bool", "char"} THEN WriteWidened(q, t, vs) ELSE WriteElements(q, t, vs)
writeArray(p, t, vs) ==
    Then(writeInt32(p, Len(vs)), LAMBDA q, v : WriteElements(q, t, vs))

IsParcelable(t) == t.k \in {"struct", "pfd", "holder", "bundle"}
writeToParcel(p, t, v) ==
    CASE t.k = "struct" -> WriteEach(p, Len(t.of), LAMBDA q, i : writeData(q, t.of[i], v[i]))
      [] t.k = "pfd" -> writeDupParcelFileDescriptor(p, v)
      [] t.k = "holder" -> ParcelableHolder_writeToParcel(p, v)
      [] t.k = "bundle" -> PersistableBundle_writeToParcel(p, v)
writeParcelable(p, t, v) ==
    Then(writeInt32(p, kNonNullParcelableFlag), LAMBDA q, w : writeToParcel(q, t, v))
NullFlag(t) == IF IsParcelable(t) THEN kNullParcelableFlag ELSE kNullVectorSize
writeNullable(p, t, v) ==
    IF v = <<>> THEN writeInt32(p, NullFlag(t)) ELSE writeData(p, t, v[1])

writeData(p, t, v) ==
    CASE IsScalar(t) -> writeScalar(p, t, v)
      [] t.k = "string16" -> writeString16(p, v)
      [] t.k = "utf8" -> writeUtf8AsUtf16(p, v)
      [] t.k = "fd" -> writeDupFileDescriptor(p, v)
      [] t.k \in {"binder", "binder?"} -> flattenBinder(p, v)
      [] IsParcelable(t) -> writeParcelable(p, t, v)
      [] t.k = "opt" -> writeNullable(p, t.of, v)
      [] t.k = "vector" -> writeVector(p, t.of, v)
      [] t.k = "array" -> writeArray(p, t.of, v)

readFromParcel(p, t) ==
    CASE t.k = "struct" -> ReadInto(p, Len(t.of), LAMBDA q, i : readData(q, t.of[i], FALSE))
      [] t.k = "pfd" -> readUniqueParcelFileDescriptor(p)
      [] t.k = "holder" -> ReadHeld(p, t)
      [] t.k = "bundle" -> PersistableBundle_readFromParcel(p, NoBundle)
readParcelable(p, t) ==
    Then(readInt32(p), LAMBDA q, present :
        IF present # kNonNullParcelableFlag THEN Fail(q, "UNEXPECTED_NULL")
        ELSE readFromParcel(q, t))

\* The length is looked at, then read again with the value.
readNullable(p, t) ==
    Then(readInt32(p), LAMBDA q, peek :
        IF peek = NullFlag(t) THEN Ok(q, <<>>)
        ELSE Then(readData(setDataPosition(q, p.mDataPos), t, TRUE), LAMBDA r, v : Ok(r, <<v>>)))

\* An out parameter: its size goes ahead, and the callee makes a vector of it.
kMaxAllocationSize == 1000000
writeVectorSize(p, v) == writeInt32(p, IF v = <<>> THEN -1 ELSE Len(v[1]))
readOutVectorSizeWithCheck(p, elmSize) ==
    Then(readInt32(p), LAMBDA q, size :
        IF size >= 0 /\ elmSize * size >= kMaxAllocationSize THEN Fail(q, "NO_MEMORY")
        ELSE Ok(q, size))
resizeOutVector(p, nullable) ==
    Then(readOutVectorSizeWithCheck(p, 4), LAMBDA q, size :
        IF size >= 0 THEN Ok(q, <<[i \in 1 .. size |-> 0]>>)
        ELSE IF nullable THEN Ok(q, <<>>) ELSE Fail(q, "UNEXPECTED_NULL"))

\* spNullable is READ_FLAG_SP_NULLABLE, which reaches the binders of a vector or
\* array and of the arrays nested in it.
Inplace(p, len, F(_)) ==
    Then(FailsAs(readInplace(p, len), "BAD_VALUE"), LAMBDA q, w : Ok(q, F(w)))
ReadElements(p, t, n, spNullable) ==
    IF is_pointer_equivalent_array(t)
    THEN Inplace(p, PackedLen(t, n), LAMBDA w : PackedValues(t, w, n))
    ELSE ReadInto(p, n, LAMBDA q, i :
        IF t.k \in {"binder", "binder?"}
        THEN IF spNullable THEN unflattenBinder(q) ELSE readStrongBinder(q)
        ELSE readData(q, t, t.k = "array" /\ spNullable))

readVector(p, t, spNullable) ==
    Then(readInt32(p), LAMBDA q, size :
        IF size < 0 THEN Fail(q, "UNEXPECTED_NULL")
        ELSE IF size > 4 * dataAvail(q) THEN Fail(q, "BAD_VALUE")
        ELSE IF t.k \in {"bool", "char"}
        THEN Inplace(q, size, LAMBDA w : [i \in 1 .. size |-> FromInt32(t, w[i].val)])
        ELSE ReadElements(q, t, size, spNullable))
readArray(p, t, N, spNullable) ==
    Then(readInt32(p), LAMBDA q, size :
        IF size < 0 THEN Fail(q, "UNEXPECTED_NULL")
        ELSE IF size # N THEN Fail(q, "BAD_VALUE")
        ELSE ReadElements(q, t, N, spNullable))

readData(p, t, spNullable) ==
    CASE IsScalar(t) -> readScalar(p, t)
      [] t.k = "string16" -> readString16(p)
      [] t.k = "utf8" -> readUtf8FromUtf16(p)
      [] t.k = "fd" -> readUniqueFileDescriptor(p)
      [] t.k = "binder" -> readStrongBinder(p)
      [] t.k = "binder?" -> unflattenBinder(p)
      [] IsParcelable(t) -> readParcelable(p, t)
      [] t.k = "opt" -> readNullable(p, t.of)
      [] t.k = "vector" -> readVector(p, t.of, spNullable)
      [] t.k = "array" -> readArray(p, t.of, t.n, spNullable)

\* The public methods for a type are calls of these two.
writeValue(p, t, v) == writeData(p, t, v)
readValue(p, t) == readData(p, t, FALSE)
=============================================================================
