--------------------------- MODULE MCParcelValues ---------------------------
(* Instances of ParcelValues.                                              *)
EXTENDS ParcelValues

B1 == <<"BBinder", 1>>
H1 == <<"BpBinder", 1>>
MCRefs == {B1, H1}
MCFiles == 1 :> <<"log", <<>>>> @@ 2 :> <<"socket", <<>>>>

All == {"cpp", "ndk", "pointer"}
Both == {"cpp", "ndk"}
Cpp == {"cpp"}

\* A value that is read as it was written, one read as a nullable type, one
\* read back from a nullable type, null read as such a type and by a reader
\* that cannot hold it.
Same(libs, t, v) == [w |-> t, v |-> v, r |-> t, x |-> <<v>>, libs |-> libs]
Widened(libs, t, v) == [w |-> t, v |-> v, r |-> Opt(t), x |-> << <<v>> >>, libs |-> libs]
Narrowed(libs, t, v) == [w |-> Opt(t), v |-> <<v>>, r |-> t, x |-> <<v>>, libs |-> libs]
Null(libs, t) == [w |-> Opt(t), v |-> <<>>, r |-> Opt(t), x |-> << <<>> >>, libs |-> libs]
Refused(libs, t) == [w |-> Opt(t), v |-> <<>>, r |-> t, x |-> <<>>, libs |-> libs]

Utf8 == T("utf8")
e == <<104, 195, 169, 106>>            \* a string with a character of two bytes
abc == <<97, 98, 99>>
Point == Struct(<<T("int32"), T("byte")>>)
Open == Struct(<<T("pfd"), T("int32")>>)
Holder(of, val) == [k |-> "holder", stability |-> 1, name |-> <<80>>, of |-> of, val |-> val]
Empty(h) == [h EXCEPT !.name = <<>>]
HInt == Holder(<<T("int32"), Utf8>>, <<5, abc>>)
HFd == Holder(<<T("pfd"), T("binder")>>, <<1, B1>>)
Status(ex, code, msg) == [ex |-> ex, code |-> code, msg |-> msg]
Bundle1 == put(put(NoBundle, "int32", <<65>>, 4), "string16", <<66>>, abc)
Bundle2 == put(put(put(Bundle1, "bundle", <<67>>, Bundle1), "vec_bool", <<65>>, <<TRUE, FALSE>>),
               "vec_string16", <<68>>, <<abc, <<>> >>)
Bundle3 == erase(put(put(Bundle2, "int64", <<69>>, <<1, 2>>), "double", <<70>>, <<3, 4>>), <<66>>)

Scalars == <<
    Same(All, T("int32"), -4), Same(All, T("int64"), <<1, 2>>), Same(All, T("bool"), TRUE),
    Same(All, T("byte"), 200), Same(All, T("char"), 300)>>
Texts == <<
    Same(All, Utf8, abc), Same(All, Utf8, <<>>), Same(All, Utf8, e),
    Same(Cpp, T("string16"), <<104, 233>>), Same(Cpp, T("string8"), abc),
    Same(Cpp, T("cstring"), <<97, 98, 99, 100>>),
    Widened(All, Utf8, e), Narrowed(All, Utf8, abc), Null(Both, Utf8), Refused(All, Utf8)>>
Objects == <<
    Same(All, T("binder"), B1), Same(All, T("binder?"), NullBinder),
    [Same(Both, T("binder?"), NullBinder) EXCEPT !.r = T("binder"), !.x = <<>>],
    Null(Both, T("pfd")), Refused(Both, T("pfd"))>>
Arrays == <<
    Same(All, Vec(T("int32")), <<3, -4>>), Same(All, Vec(T("byte")), <<1, 2, 3, 4, 100>>),
    Same(All, Vec(T("bool")), <<TRUE, FALSE, TRUE>>), Same(All, Vec(T("int64")), <<>>),
    Same(All, Vec(T("char")), <<300, 1>>), Same(All, Vec(Utf8), <<abc, e>>),
    Null(Both, Vec(T("int32"))), Refused(All, Vec(T("int32"))), Refused(All, Vec(T("bool"))),
    Widened(Both, Vec(T("byte")), <<9>>),
    Same(Both, Opt(Vec(T("binder?"))), << <<NullBinder, B1>> >>),
    Same(Both, Opt(Vec(Opt(Utf8))), << << <<abc>>, <<>> >> >>),
    Same(Both, Vec(Point), << <<1, 2>>, <<3, 4>> >>),
    Same(Both, Opt(Vec(Opt(Point))), << << <<>>, << <<3, 4>> >> >> >>),
    Same(All, Arr(T("int32"), 2), <<3, 4>>), Same(Both, Arr(T("byte"), 3), <<1, 2, 3>>),
    Same(Both, Arr(Arr(T("int32"), 1), 2), << <<3>>, <<4>> >>),
    Same(Both, Arr(T("bool"), 2), <<FALSE, TRUE>>),
    [Same(All, Arr(T("int32"), 2), <<3, 4>>) EXCEPT !.r = Arr(T("int32"), 3), !.x = <<>>],
    Same(Both, Opt(Arr(T("binder?"), 2)), << <<NullBinder, B1>> >>),
    Null(Both, Arr(T("int64"), 1)),
    [w |-> T("size"), v |-> << <<0, 0>> >>, r |-> [k |-> "size", nullable |-> FALSE],
     x |-> << << <<0, 0>> >> >>, libs |-> Both],
    [w |-> T("size"), v |-> <<>>, r |-> [k |-> "size", nullable |-> FALSE], x |-> <<>>,
     libs |-> Both],
    [w |-> T("size"), v |-> <<>>, r |-> [k |-> "size", nullable |-> TRUE], x |-> << <<>> >>,
     libs |-> Both]>>
Parcelables == <<
    Same(Both, Point, <<7, 8>>), Null(Both, Point), Refused(Both, Point),
    Same(Cpp, T("bundle"), NoBundle), Same(Cpp, T("bundle"), Bundle2),
    Same(Cpp, T("bundle"), Bundle3),
    Same(Both, T("status"), StatusOk), Same(Both, T("status"), Status(EX_SECURITY, 0, abc)),
    Same(Both, T("status"), Status(EX_SERVICE_SPECIFIC, -3, e)),
    [Same(Cpp, T("blob"), <<5, 6>>) EXCEPT !.r = [k |-> "blob", n |-> 2]],
    Same(Cpp, T("light"), <<4, 5>>), Same(Cpp, T("light"), <<>>)>>
\* What a session does not carry: descriptors, proxies of the driver, holders.
KernelOnly == <<
    Same(All, T("binder?"), H1), Same(Both, T("pfd"), 1), Widened(Both, T("pfd"), 2),
    Same(Cpp, T("fd"), 2),
    Same(Both, Vec(T("binder")), <<B1, H1>>), Same(Both, Vec(T("pfd")), <<1, 2>>),
    Same(Both, Open, <<2, 8>>), Widened(Both, Open, <<1, 2>>),
    Same(Both, Empty(HInt), Empty(HInt)), Same(Both, HInt, HInt), Same(Both, HFd, HFd),
    [Same(Both, HInt, HInt) EXCEPT !.r = [HInt EXCEPT !.name = <<81>>], !.x = <<Empty(HInt)>>],
    [Same(Both, HInt, HInt) EXCEPT !.r = [HInt EXCEPT !.stability = 0], !.x = <<>>],
    [Same(Cpp, T("blob"), <<5, 6, 7>>) EXCEPT !.r = [k |-> "blob", n |-> 3]],
    Same(Cpp, T("native"), [fds |-> <<1, 2>>, ints |-> <<4>>]),
    Same(Cpp, T("flat"), [data |-> <<4, 5>>, fds |-> <<2>>])>>
Request(name, asked) ==
    [w |-> T("token"), v |-> name, r |-> [k |-> "token", name |-> asked], x |-> <<name = asked>>,
     libs |-> All]
Tokens == <<Request(<<73>>, <<73>>), Request(<<73>>, <<74>>)>>

\* A message with a sample of every field: what is written and what is to be seen.
Sample(f) == CASE f.k \in {"token", "exception", "flag"} -> TRUE
               [] f.k = "int32" -> 6
               [] f.k = "int64" -> <<1, 2>>
               [] f.k = "string16" -> abc
               [] f.k \in {"texts", "args"} -> <<abc, <<>> >>
               [] f.k = "binder?" -> B1
               [] f.k \in {"fdref", "pfdref"} -> 2
               [] f.k = "optpfd" -> <<1>>
               [] f.k = "ints" -> Upto(f.n)
Seen(f) == CASE f.k \in {"fdref", "pfdref"} -> MCFiles[2]
             [] f.k = "optpfd" -> MCFiles[1]
             [] OTHER -> Sample(f)
Message(w, r) ==
    [w |-> [k |-> "message", of |-> w], v |-> [i \in DOMAIN w |-> Sample(w[i])],
     r |-> [k |-> "message", of |-> r], x |-> <<[i \in DOMAIN w |-> Seen(w[i])]>>, libs |-> Cpp]
Messages ==
    LET Each(ms, W(_), R(_)) == [i \in DOMAIN ms |-> Message(W(ms[i]), R(ms[i]))]
        asked == <<"checkPermission", "noteOp", "getPackagesForUid", "isRuntimePermission",
                   "getPackageUid">>
    IN  Each(<<"noteStartSensor", "noteStartVideo", "noteResetCamera">>,
             BpBatteryStats, BnBatteryStats)
        \o Each(<<"onUidGone", "onUidActive", "onUidStateChanged">>, BpUidObserver, BnUidObserver)
        \o Each(asked, BpPermissionController, BnPermissionController)
        \o Each(asked, PermissionController_reply, PermissionController_result)
        \o Each(<<"openContentUri", "registerUidObserver", "isUidActive", "checkPermission">>,
                ActivityManager_reply, BpActivityManager)
        \o <<Message(BpShellCallback, BnShellCallback), Message(BpResultReceiver, BnResultReceiver),
             Message(BpBinder_dump, BBinder_dump),
             Message(IBinder_shellCommand, BBinder_shellCommand),
             Message(Memory_reply, Memory_result), Message(MemoryHeap_reply, MemoryHeap_result),
             Message(ProcessInfoService_reply(2), BpProcessInfoService(2)),
             [Message(ProcessInfoService_reply(2), BpProcessInfoService(3)) EXCEPT !.x = <<>>]>>

\* Calls of SafeInterface: inputs and outputs in any order.
In(t) == [t |-> t, out |-> FALSE]
Out(t) == [t |-> t, out |-> TRUE]
SafeCase(params, args) ==
    LET Values(out) == [i \in DOMAIN Picked(params, out) |-> args[Picked(params, out)[i]]]
        reply == [args |-> args, result |-> -3]
        call == [k |-> "call", of |-> params]
        back == [k |-> "reply", of |-> params]
    IN  <<[w |-> call, v |-> args, r |-> call, x |-> <<Values(FALSE)>>, libs |-> Cpp],
          [w |-> back, v |-> reply, r |-> back,
           x |-> <<[outs |-> Values(TRUE), result |-> -3]>>, libs |-> Cpp]>>
Safe == SafeCase(<<In(T("bool")), Out(T("int64")), In(T("binder?")), Out(Vec(Point))>>,
                 <<TRUE, <<1, 2>>, B1, << <<3, 4>> >> >>)
        \o SafeCase(<<In(T("string8")), In(T("flat")), Out(T("light")), In(Open)>>,
                    <<abc, [data |-> <<4>>, fds |-> <<2>>], <<7>>, <<1, 5>> >>)
        \o SafeCase(<<In(T("native"))>>, <<[fds |-> <<1>>, ints |-> <<4>>]>>)
Misread == <<Message(BpUidObserver("onUidProcAdjChanged"), BnUidObserver("onUidProcAdjChanged")),
             Message(ShellCallback_reply, ShellCallback_result)>>

Carried == Scalars \o Texts \o Objects \o Arrays \o Parcelables
Values == Carried \o KernelOnly
MCCases == Values \o Tokens \o Messages \o Safe \o Misread
Of(before, cases) == Len(before) + 1 .. Len(before) + Len(cases)
Single == Of(<<>>, Values)
Plain == Of(<<>>, Carried)
Requests == Of(Values, Tokens)
Whole == Of(Values \o Tokens, Messages \o Safe)

Scenario(writer, reader, items, ways) ==
    [writer |-> writer, reader |-> reader, items |-> items, first |-> Single,
     later |-> Single, session |-> "none", ways |-> ways, cuts |-> FALSE, looks |-> TRUE,
     tokens |-> FALSE]
MCScenarios ==
    \* one value, sent and cut in every way
    {[Scenario(w, r, 1, {"local", "driver", "relay", "marshal"}) EXCEPT !.cuts = TRUE] :
        w \in Both, r \in All}
    \cup {[Scenario(w, r, 1, {"session"}) EXCEPT !.session = "peer", !.first = Plain, !.cuts = TRUE] :
        w \in Both, r \in All}
    \* requests and replies of the interfaces
    \cup {[Scenario("cpp", "cpp", 1, {"local", "driver"}) EXCEPT !.first = Whole, !.cuts = TRUE]}
    \* one value after another
    \cup {Scenario(w, r, 2, {"driver"}) : w \in Both, r \in Both}
    \* requests with a value
    \cup {[Scenario("cpp", "cpp", 2, {"driver", "session"}) EXCEPT !.session = s, !.later = Plain,
            !.first = Requests, !.tokens = TRUE, !.cuts = TRUE] : s \in {"none", "peer"}}

\* The messages of every interface, those of Misread included.
MCAllMessages == {[Scenario("cpp", "cpp", 1, {"local", "driver"}) EXCEPT
                    !.first = Of(Values \o Tokens, Messages \o Safe \o Misread)]}
=============================================================================
