-------------------------- MODULE MCDeliveryLease --------------------------
(***************************************************************************)
(* Two instances of DeliveryLease.  Replicas: two consumers with one slot  *)
(* each, the second of which also runs the maintenance dead-letter.        *)
(* Slots: one consumer with two slots, so that two handlers of the same    *)
(* process can meet over the entry.                                        *)
(***************************************************************************)
EXTENDS DeliveryLease, TLC

CONSTANTS c1, c2, h1, h2

ReplicaConsumers == {c1, c2}
ReplicaHome == h1 :> c1 @@ h2 :> c2
ReplicaSweepers == {c2}

(* A plain turn does what a backed one does that is never waived, so one   *)
(* of the two is enough in each instance.                                  *)
ReplicaClasses == {"poison", "backed"}
SlotClasses == {"poison", "plain"}

SlotConsumers == {c1}
SlotHome == h1 :> c1 @@ h2 :> c1
SlotSweepers == {}
SlotSymmetry == Permutations({h1, h2})

TwoHandlers == {h1, h2}

(* The fingerprint leaves out what nothing reads any more: lease objects   *)
(* nobody refers to, the clocks of a lost one that no reply can reach, the *)
(* generation and the looked-up lease of a handler that has left its body. *)
Referenced ==
    {tok[h] : h \in {g \in Handlers : pc[g] # "releasing"}}
    \cup {via[h] : h \in {g \in Handlers : pc[g] \in Holding}}
    \cup {held[c] : c \in Consumers} \cup {m.tok : m \in {n \in net : n.live}}

Clocks(t) ==
    IF lost[t] /\ \A m \in net : m.live => m.tok # t THEN <<>> ELSE <<left[t], renewed[t]>>

Objects ==
    LET shown == Referenced
    IN  [t \in Tokens |-> IF t \in shown THEN <<Clocks(t), lost[t], lock[t]>> ELSE <<>>]

Slots ==
    [h \in Handlers |-> <<pc[h], tok[h],
                          IF pc[h] \in Holding THEN <<ownGen[h], via[h]>> ELSE <<>>>>]

(* The marker counts when nobody settled, the other endings while neither  *)
(* a marker nor a grave says that the row may go: no action and no         *)
(* property tells more of the endings apart.                               *)
Ended ==
    <<doneBy = {} /\ "marked" \in endings,
      entry # "settled" /\ ~Done /\ ~buried /\ endings # {}>>

View ==
    LET kept == <<entry, pel, delivered, leaseTok, leaseLeft, gen, budget, doneBy, buried>>
    IN  <<class, kept, Ended, net, minted, Objects, Slots, procs>>
=============================================================================
