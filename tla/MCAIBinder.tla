---------------------------- MODULE MCAIBinder ----------------------------
(* Threads that look up, drop and revive the ABpBinder of an object; that    *)
(* associate classes with it; and that link and unlink while it dies.        *)
EXTENDS AIBinder, TLC

NdkScenarios == {[ops |-> {"lookup", "weak"}, left |-> 6],
                 [ops |-> {"lookup", "class", "die"}, left |-> 6],
                 [ops |-> {"lookup", "link", "die"}, left |-> 6]}

(* No property tells two threads, classes of the object's descriptor or     *)
(* cookies apart.                                                            *)
Alike == Permutations(Threads) \cup Permutations(Classes) \cup Permutations(Cookies)
=============================================================================
