-------------------------- MODULE MCIPCThreadState --------------------------
(* Instances of IPCThreadState for TLC.                                      *)
EXTENDS IPCThreadState

Alice == [pid |-> 2, uid |-> 20, sid |-> "alice", workSource |-> 7, policy |-> 1]
Bob == [pid |-> 3, uid |-> 30, sid |-> None, workSource |-> kUnsetWorkSource, policy |-> 0]
TwoSenders == {Alice, Bob}
ThisProcess == [pid |-> 1, uid |-> 10]

(* The pool: it grows, and is waited for and taken down while calls come in. *)
PoolScenarios ==
  {[maxThreads |-> 1, raises |-> 1, starts |-> 1, senders |-> {Bob}, oneways |-> {TRUE}, calls |-> 3,
    outgoing |-> 0, changes |-> 0, depth |-> 1, blocks |-> 2, exits |-> 0],
   [maxThreads |-> 1, raises |-> 0, starts |-> 2, senders |-> {Bob}, oneways |-> {FALSE}, calls |-> 3,
    outgoing |-> 1, changes |-> 0, depth |-> 3, blocks |-> 0, exits |-> 1]}

(* One thread on which calls nest.                                           *)
CallScenarios ==
  {[maxThreads |-> 1, raises |-> 0, starts |-> 0, senders |-> TwoSenders, oneways |-> BOOLEAN, calls |-> 3,
    outgoing |-> 2, changes |-> 3, depth |-> 6, blocks |-> 0, exits |-> 0]}

ThreadScenarios == PoolScenarios \cup CallScenarios
=============================================================================
