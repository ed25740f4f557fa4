--------------------------- MODULE FencedDelivery ---------------------------
(***************************************************************************)
(* What the delivery lease promises of one stream entry, without clocks,   *)
(* requests, handlers or processes: who owns the entry, who may act on it, *)
(* and what must be durable before it leaves the group.                    *)
(*                                                                         *)
(* DeliveryLease implements this specification (DeliveryLease!Implements-  *)
(* Fence): every late, repeated or lost request, crash and expiry of the   *)
(* code is one of the steps below or no step at all.                       *)
(***************************************************************************)

CONSTANT Tokens     \* owner tokens

VARIABLES
    class,      \* "poison", "plain" or "backed": see DeliveryLease
    row,        \* "new", "pending" or "settled"
    owner,      \* the token that owns the entry: {} or a singleton
    acting,     \* tokens whose holder may act on its own authority
    doneBy,     \* tokens that settled the event
    buried,     \* the entry is in the graveyard
    endings     \* "marked", "parked", "waived": how else it has ended

fence == <<class, row, owner, acting, doneBy, buried, endings>>

Init ==
    /\ row = "new" /\ owner = {} /\ acting = {}
    /\ class \in {"poison", "plain", "backed"}
    /\ doneBy = {} /\ buried = FALSE /\ endings = {}

Deliver ==
    /\ row = "new"
    /\ row' = "pending"
    /\ UNCHANGED <<class, owner, acting, doneBy, buried, endings>>

(* An entry gets an owner only when it has none and nobody acts on it; the *)
(* owner may never hear of it.                                             *)
Grant ==
    /\ row = "pending" /\ owner = {} /\ acting = {}
    /\ \E t \in Tokens : owner' = {t} /\ acting' \subseteq {t}
    /\ UNCHANGED <<class, row, doneBy, buried, endings>>

(* A renewal that is confirmed late gives the owner its authority back. *)
Confirm ==
    /\ row = "pending" /\ owner # {}
    /\ acting' = owner
    /\ UNCHANGED <<class, row, owner, doneBy, buried, endings>>

(* Authority ends at any time; ownership of a pending entry ends only      *)
(* after the owner's authority has.                                        *)
Lapse ==
    /\ UNCHANGED <<class, row, doneBy, buried, endings>>
    /\ owner' \in {owner, {}}
    /\ row = "pending" /\ owner' # owner => acting = {}
    /\ acting' \subseteq acting

(* Only the owner settles, and only an event nobody has settled. *)
Settle ==
    /\ owner # {} /\ doneBy = {}
    /\ doneBy' = owner
    /\ acting' \subseteq acting
    /\ UNCHANGED <<class, row, owner, buried, endings>>

Bury ==
    /\ buried' = TRUE
    /\ UNCHANGED <<class, row, owner, acting, doneBy, endings>>

(* The event is marked done by somebody who need not be the owner. *)
Mark ==
    /\ endings' = endings \cup {"marked"}
    /\ acting' \subseteq acting
    /\ UNCHANGED <<class, row, owner, doneBy, buried>>

(* The outcome of a backed entry is left to its other home. *)
Waive ==
    /\ class = "backed"
    /\ endings' = endings \cup {"waived"}
    /\ UNCHANGED <<class, row, owner, acting, doneBy, buried>>

(* Only the owner turns an unfinished entry into a wait, which takes it    *)
(* off the group at once.                                                  *)
Park ==
    /\ row = "pending" /\ owner # {}
    /\ doneBy = {} /\ "marked" \notin endings
    /\ row' = "settled"
    /\ endings' = endings \cup {"parked"}
    /\ acting' \subseteq acting
    /\ UNCHANGED <<class, owner, doneBy, buried>>

(* The entry leaves the group when its outcome is durable. *)
Remove ==
    /\ row = "pending"
    /\ doneBy # {} \/ buried \/ endings \cap {"marked", "waived"} # {}
    /\ row' = "settled"
    /\ UNCHANGED <<class, owner, acting, doneBy, buried, endings>>

Next ==
    \/ Lapse \/ Deliver \/ Grant \/ Confirm
    \/ Settle \/ Mark \/ Waive \/ Bury \/ Park \/ Remove

Spec == Init /\ [][Next]_fence
=============================================================================
