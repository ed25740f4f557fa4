-------------------------- MODULE MCWorkItemLedger --------------------------
(* WorkItemLedger for TLC.  TLC evaluates the assumptions on the        *)
(* constants; no definition is added.                                      *)
EXTENDS WorkItemLedger
=============================================================================
