--------------------------- MODULE MCUpgradeDrain ---------------------------
(* Instances of UpgradeDrain: the entries are of the lane scanned last. *)
EXTENDS UpgradeDrain

Eval == [e \in Entries |-> "eval"]
=============================================================================
