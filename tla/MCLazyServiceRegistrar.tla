----------------------- MODULE MCLazyServiceRegistrar -----------------------
(* Instances of LazyServiceRegistrar: a server that is lazy, with one or two *)
(* services, or uses the service manager as it likes, and a client.          *)
EXTENDS LazyServiceRegistrar

CONSTANTS server, client, s1, s2, l1, k1, na, nb

MCOwner == [o \in Object |-> IF o = l1 THEN client ELSE server]
MCServiceFor == [p \in Proc |-> [n \in Name |-> IF n = na THEN s1 ELSE s2]]
MCCanAdd == [n \in Name |-> {server}]
MCCanFind == [n \in Name |-> Proc]
MCCounterOf == [p \in Proc |-> k1]

ServerRegisters(names, callback) == [p \in {server} |-> [names |-> names, callback |-> callback]]
NoneRegisters == [p \in {} |-> {}]

MCScenarios == {[registers |-> ServerRegisters({na}, FALSE), gets |-> 4],
                [registers |-> ServerRegisters({na, nb}, TRUE), gets |-> 3],
                [registers |-> NoneRegisters, gets |-> 5]}

=============================================================================
