---------------------------- MODULE MCBpBinder ----------------------------
(* Proxies that are linked by two recipients, and proxies that come and go   *)
(* often enough for a second one to be made while the first is destroyed.    *)
EXTENDS BpBinder

ProxyScenarios == {[receives |-> 2, recipients |-> Recipients], [receives |-> 3, recipients |-> {}]}
LinkScenarios == {[receives |-> 2, recipients |-> Recipients]}
=============================================================================
