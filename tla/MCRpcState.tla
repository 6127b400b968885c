----------------------------- MODULE MCRpcState -----------------------------
(* Instances of RpcState: a server with a root object, a client with one     *)
(* callback object, and a few threads on either side.  A scenario gives the  *)
(* number of getRootObject, twoway and oneway calls, of binders passed in    *)
(* parcels, and of shutdowns.                                                *)
EXTENDS RpcStateRefs

CONSTANTS tc1, tc2, ts1, ts2, root, cb

MCThreads == [p \in Peer |-> IF p = Client THEN {tc1, tc2} ELSE {ts1, ts2}]
MCLocal == [p \in Peer |-> IF p = Client THEN {cb} ELSE {root}]

Budget(roots, syncs, oneways, passed, shutdowns) ==
  [root |-> roots, sync |-> syncs, oneway |-> oneways, pass |-> passed, shutdown |-> shutdowns]

(* Calls of four threads that pass any binder back and forth.                *)
Passing == Budget(1, 2, 0, 2, 0) @@ [threads |-> Thread, depth |-> 1, carries |-> {"local", "proxy"}]

(* The end of a session while two threads get and drop the root object.      *)
Ending == Budget(2, 1, 0, 1, 1)
            @@ [threads |-> Thread \ {ts2}, depth |-> 1, carries |-> {"local", "proxy"}]

(* A client with one thread: nested calls, oneway calls on several sockets,  *)
(* and the end of either.                                                    *)
Nested == {budget @@ [threads |-> Thread \ {tc2}, depth |-> 3, carries |-> {"local"}] :
             budget \in {Budget(1, 2, 0, 1, 1), Budget(1, 0, 4, 0, 1), Budget(1, 1, 2, 1, 0)}}

MCScenarios == {Passing, Ending} \cup Nested
=============================================================================
