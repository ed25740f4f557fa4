---------------------------- MODULE MCThreadLock ----------------------------
(* Two processes: two tasks in the first and one in the second.            *)
EXTENDS ThreadLock, TLC

CONSTANTS c1, c2, k1, k2, k3

TwoOwners == {c1, c2}
ThreeTasks == {k1, k2, k3}
TasksHome == k1 :> c1 @@ k2 :> c1 @@ k3 :> c2
OneOpaque == {k2}
=============================================================================
