----------------------------- MODULE MCMonitor -----------------------------
(* Instances of Monitor: two conditions of one lock, or two locks with one *)
(* condition each.                                                         *)
EXTENDS Monitor, TLC

CONSTANTS t1, t2, t3, l1, l2, c1, c2

OneLock  == c1 :> l1 @@ c2 :> l1
TwoLocks == c1 :> l1 @@ c2 :> l2

Symmetry == Permutations(Thread)
====
