-------------------------- MODULE MCRpcConnections --------------------------
(* Instances of RpcConnections: two client threads, a serving thread with    *)
(* its incoming connection, and threads that add connections.                *)
EXTENDS RpcConnections

CONSTANTS t1, t2, t3, a1, a2, o1, o2, i1

MCServing == [t \in {t3} |-> i1]
MCOutgoing == <<o1, o2>>
MCAdder == [c \in {o1, o2} |-> IF c = o1 THEN a1 ELSE a2]

(* No connection at all, one, and a second one that is being added.          *)
InUse == {<<0, 0>>, <<1, 1>>, <<1, 2>>}
(* The first and only connection is being added.                             *)
First == {<<0, 1>>}

=============================================================================
