----------------------------- MODULE MCRpcRefs -----------------------------
(* Small instance of RpcRefs: one binder of each end, so that both ends play *)
(* both roles, with up to MaxRefs outstanding references each way.           *)
EXTENDS RpcRefs

CONSTANTS c1, s1   \* an address created by the client, one by the server

MCAddr == {c1, s1}
MCCreator == [a \in MCAddr |-> IF a = c1 THEN Client ELSE Server]

=============================================================================
