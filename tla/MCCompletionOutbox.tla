------------------------ MODULE MCCompletionOutbox ------------------------
EXTENDS CompletionOutbox, TLC

TwoNamespaces == <<"answer", "plain">>
OneNamespace == <<"answer">>

(* Handlers and deliveries are interchangeable; no temporal property is    *)
(* checked in the run that uses this.                                      *)
Symmetries == Permutations(Slots) \cup Permutations(Deliveries)

=============================================================================
