--------------------------- MODULE DeliveryLease ---------------------------
(***************************************************************************)
(* Ownership of ONE stream delivery (ADR-0131, ADR-0207): the Lua scripts  *)
(* of delivery_lease.py, the lease life cycle, acknowledgement and         *)
(* dead-letter paths of stream_consumer.py, and the settlement order of    *)
(* consumer.py.                                                            *)
(*                                                                         *)
(* Valkey holds the pending row (pel), the lease key, the delivery state   *)
(* and the completion marker.  A worker process ("consumer") has one       *)
(* handler slot per unit of its semaphore.  Every request travels through  *)
(* net and is executed late, dropped, or executed with its reply lost and  *)
(* sent again by the client library.  A lease key's remaining life and a   *)
(* holder's local deadline are countdowns that Tick decrements together:   *)
(* the monotonic clocks are assumed to run at the rate of Valkey's clock.  *)
(*                                                                         *)
(* Which maintenance pass takes a row, and when, is the subject of         *)
(* ReclaimScan; here any consumer may claim the pending row at any time.   *)
(***************************************************************************)
EXTENDS Integers, FiniteSets

CONSTANTS
    Consumers,      \* consumer names of the group
    Handlers,       \* semaphore slots of all consumers
    Home,           \* Home[h]: the consumer that slot h belongs to
    None,           \* no consumer
    LeaseTTL,       \* delivery_lease_ttl_s
    Heartbeat,      \* delivery_lease_heartbeat_s
    MaxDelay,       \* a request reaches Valkey within MaxDelay or never
    Budget,         \* delivery_budget_s
    MaxDelivery,    \* max_delivery
    Classes,        \* bound: what the entry may carry
    Sweepers,       \* bound: consumers whose maintenance may dead-letter
    MaxQueued,      \* bound: dispatches of the entry waiting for a slot
    MaxClaim,       \* bound: deliveries of the row
    MaxToken        \* bound: lease acquisitions that are attempted

(* A "poison" entry cannot be parsed.  The outcome of a "backed" one has   *)
(* another durable home as well: the work-item ledger for a factory wake,  *)
(* another delivery for a copy of a resume, the wait record for the wake   *)
(* of a wait.  A "plain" turn has no other.                                *)

(* The validators of WorkerConfig, and the reserve of ownership_window_s. *)
ASSUME ConstantsAssumption ==
    /\ Home \in [Handlers -> Consumers]
    /\ None \notin Consumers
    /\ Classes \subseteq {"poison", "plain", "backed"}
    /\ Sweepers \subseteq Consumers
    /\ LeaseTTL \in Nat /\ Heartbeat \in Nat /\ MaxDelay \in Nat
    /\ Heartbeat > 0
    /\ LeaseTTL >= 3 * Heartbeat
    /\ MaxDelay <= Heartbeat
    /\ Budget \in Nat
    /\ MaxDelivery \in Nat /\ MaxDelivery >= 2
    /\ MaxQueued \in Nat /\ MaxClaim \in Nat /\ MaxToken \in Nat

VARIABLES
    class,      \* what the entry carries: fixed when it is enqueued
    entry,      \* "new", "pending" or "settled" (acknowledged off the group)
    pel,        \* consumer of the pending row
    delivered,  \* times_delivered of the row
    leaseTok,   \* lease key: owner token, 0 when absent
    leaseLeft,  \* remaining life of the lease key
    gen,        \* delivery state: fencing generation, 0 when absent
    budget,     \* delivery state: what is left until deadline_ms
    doneBy,     \* tokens whose fenced settlement wrote the done marker
    buried,     \* the graveyard stream has a row for the entry
    endings,    \* how else the delivery has ended: see Endings
    net,        \* requests on their way to Valkey
    minted,     \* owner tokens drawn so far
    left,       \* lease objects: local_deadline_monotonic - now
    renewed,    \* lease objects: the window of the renewal in flight
    lost,       \* lease objects: lost.is_set()
    lock,       \* lease objects: who holds settlement_lock
    pc,         \* slots: where the handler is
    tok,        \* slots: token of the handler's own lease, 0 if none
    ownGen,     \* slots: generation of the handler's own lease
    via,        \* slots: token of the lease _ack looked up, 0 if none
    queued,     \* consumers: dispatches of the entry waiting for a slot
    inflight,   \* consumers: entry id in _inflight_ids
    held,       \* consumers: _held_leases[entry id], 0 if none
    maint       \* consumers: the over-cap dead-letter of the entry

valkey == <<entry, pel, delivered, leaseTok, leaseLeft, gen, budget, doneBy, buried, endings>>
objects == <<left, renewed, lost, lock>>
slots == <<pc, tok, ownGen, via>>
procs == <<queued, inflight, held, maint>>
vars == <<class, valkey, net, minted, objects, slots, procs>>

Tokens == 1..MaxToken

(* Mutant: no heartbeat is reserved. *)
WindowNoReserve == LeaseTTL

(* Mutant: the heartbeat is added instead of reserved. *)
WindowAddsReserve == LeaseTTL + Heartbeat

Window == LeaseTTL - Heartbeat      \* ownership_window_s
Dec(n) == IF n > 0 THEN n - 1 ELSE 0

(* The marker of mark_done, which compares no lease; the wait record       *)
(* _PARK_LUA leaves behind; a body that returned without a marker.         *)
Endings == {"marked", "parked", "waived"}

(* Between registration in _held_leases and deregistration. *)
Holding == {"running", "turn", "terminal", "buried", "acking", "acked"}
Phases == {"idle", "acquiring", "exiting", "releasing"} \cup Holding

Message == [kind : {"acquire", "renew", "xack"}, h : Handlers, tok : 0..MaxToken,
            gen : Nat, age : Nat, live : BOOLEAN]

ValkeyType ==
    /\ entry \in {"new", "pending", "settled"}
    /\ pel \in Consumers \cup {None}
    /\ delivered \in 0..MaxClaim
    /\ leaseTok \in 0..MaxToken
    /\ leaseLeft \in 0..LeaseTTL
    /\ gen \in Nat
    /\ budget \in 0..Budget
    /\ doneBy \subseteq Tokens
    /\ buried \in BOOLEAN
    /\ endings \subseteq Endings

NetType == net \subseteq Message

ObjectType ==
    /\ minted \in 0..MaxToken
    /\ left \in [Tokens -> 0..Window]
    /\ renewed \in [Tokens -> 0..Window]
    /\ lost \in [Tokens -> BOOLEAN]
    /\ lock \in [Tokens -> {"free", "renew", "ack"}]

SlotType ==
    /\ pc \in [Handlers -> Phases]
    /\ tok \in [Handlers -> 0..MaxToken]
    /\ ownGen \in [Handlers -> Nat]
    /\ via \in [Handlers -> 0..MaxToken]

ProcType ==
    /\ queued \in [Consumers -> 0..MaxQueued]
    /\ inflight \in [Consumers -> BOOLEAN]
    /\ held \in [Consumers -> 0..MaxToken]
    /\ maint \in [Consumers -> {"off", "condemned", "buried", "acked"}]

TypeOK ==
    /\ class \in Classes
    /\ ValkeyType /\ NetType /\ ObjectType /\ SlotType /\ ProcType

Init ==
    /\ class \in Classes
    /\ entry = "new" /\ pel = None /\ delivered = 0
    /\ leaseTok = 0 /\ leaseLeft = 0
    /\ gen = 0 /\ budget = 0
    /\ doneBy = {} /\ buried = FALSE /\ endings = {}
    /\ net = {} /\ minted = 0
    /\ left = [t \in Tokens |-> 0]
    /\ renewed = [t \in Tokens |-> 0]
    /\ lost = [t \in Tokens |-> FALSE]
    /\ lock = [t \in Tokens |-> "free"]
    /\ pc = [h \in Handlers |-> "idle"]
    /\ tok = [h \in Handlers |-> 0]
    /\ ownGen = [h \in Handlers |-> 0]
    /\ via = [h \in Handlers |-> 0]
    /\ queued = [c \in Consumers |-> 0]
    /\ inflight = [c \in Consumers |-> FALSE]
    /\ held = [c \in Consumers |-> 0]
    /\ maint = [c \in Consumers |-> "off"]

-----------------------------------------------------------------------------
(* The network.  A live request still has a caller waiting for its reply.  *)

Request(kind, h, t, g) ==
    [kind |-> kind, h |-> h, tok |-> t, gen |-> g, age |-> 0, live |-> TRUE]

(* m with another age and another caller. *)
Copy(m, age, live) ==
    [kind |-> m.kind, h |-> m.h, tok |-> m.tok, gen |-> m.gen, age |-> age, live |-> live]

(* The caller of these requests stops waiting; they may still be executed. *)
Abandon(S) == (net \ S) \cup {Copy(m, m.age, FALSE) : m \in S \cap net}

(* The reply to m is lost: nothing more happens, or the client library     *)
(* sends m again while the caller's timeout has not run out.               *)
MaySendAgain(m) ==
    /\ m.live
    /\ m.kind # "acquire" /\ m.tok # 0 => left[m.tok] > 0

ReplyLost(m) ==
    \/ net' = net \ {m}
    \/ /\ MaySendAgain(m)
       /\ net' = (net \ {m}) \cup {Copy(m, 0, TRUE)}

(* The request itself never arrives. *)
Lose(m) ==
    /\ m \in net
    /\ net' = net \ {m}
    /\ UNCHANGED <<class, valkey, minted, objects, slots, procs>>

-----------------------------------------------------------------------------
(* Delivery of the row: _consume, and the claim of a maintenance pass.     *)

Deliver(c) ==
    /\ entry = "new"
    /\ MaxQueued > 0 /\ MaxClaim > 0
    /\ entry' = "pending"
    /\ pel' = c
    /\ delivered' = 1
    /\ queued' = [queued EXCEPT ![c] = 1]
    /\ UNCHANGED <<class, leaseTok, leaseLeft, gen, budget, doneBy, buried, endings,
                   net, minted, objects, slots, inflight, held, maint>>

Claim(c) ==
    /\ entry = "pending"
    /\ delivered < MaxClaim
    /\ pel' = c
    /\ delivered' = delivered + 1
    /\ \/ UNCHANGED queued              \* in flight here, or leased again
       \/ /\ ~inflight[c] /\ leaseTok = 0
          /\ queued[c] < MaxQueued
          /\ queued' = [queued EXCEPT ![c] = @ + 1]
    /\ UNCHANGED <<class, entry, leaseTok, leaseLeft, gen, budget, doneBy, buried, endings,
                   net, minted, objects, slots, inflight, held, maint>>

-----------------------------------------------------------------------------
(* Acquisition: _dispatch, _handle, _delivery_lease, acquire.              *)

(* A slot is free.  The owner token is drawn, and the local window anchored, *)
(* before the script is sent.                                              *)
Start(h) ==
    LET c == Home[h]
        t == minted + 1
    IN  /\ pc[h] = "idle"
        /\ queued[c] > 0
        /\ minted < MaxToken
        /\ queued' = [queued EXCEPT ![c] = @ - 1]
        /\ inflight' = [inflight EXCEPT ![c] = TRUE]
        /\ minted' = t
        /\ tok' = [tok EXCEPT ![h] = t]
        /\ left' = [left EXCEPT ![t] = Window]
        /\ pc' = [pc EXCEPT ![h] = "acquiring"]
        /\ net' = net \cup {Request("acquire", h, t, 0)}
        /\ UNCHANGED <<class, valkey, renewed, lost, lock, ownGen, via, held, maint>>

(* _handle's finally, for a handler that never held the lease. *)
LeaveUnleased(h) ==
    /\ pc' = [pc EXCEPT ![h] = "idle"]
    /\ tok' = [tok EXCEPT ![h] = 0]
    /\ inflight' = [inflight EXCEPT ![Home[h]] = FALSE]

AcquireGuards(m) ==
    /\ entry = "pending"
    /\ pel = Home[m.h]
    /\ leaseTok = 0

(* Mutant: HSET instead of HSETNX restarts the budget. *)
GrantLeaseFreshBudget(m) ==
    /\ leaseTok' = m.tok
    /\ leaseLeft' = LeaseTTL
    /\ gen' = gen + 1
    /\ budget' = Budget
    /\ UNCHANGED <<entry, pel, delivered, doneBy, buried, endings>>

(* HSETNX deadline, HINCRBY gen, SET lease PX ttl. *)
GrantLease(m) ==
    /\ leaseTok' = m.tok
    /\ leaseLeft' = LeaseTTL
    /\ gen' = gen + 1
    /\ budget' = IF gen = 0 THEN Budget ELSE budget
    /\ UNCHANGED <<entry, pel, delivered, doneBy, buried, endings>>

(* The reply reaches the handler: the lease is registered and the body runs. *)
AcquireGranted(m) ==
    /\ m.kind = "acquire" /\ m.live
    /\ AcquireGuards(m)
    /\ GrantLease(m)
    /\ net' = net \ {m}
    /\ pc' = [pc EXCEPT ![m.h] = "running"]
    /\ ownGen' = [ownGen EXCEPT ![m.h] = gen']
    /\ held' = [held EXCEPT ![Home[m.h]] = m.tok]
    /\ UNCHANGED <<class, minted, objects, tok, via, queued, inflight, maint>>

AcquireGrantedUnheard(m) ==
    /\ m.kind = "acquire"
    /\ AcquireGuards(m)
    /\ GrantLease(m)
    /\ ReplyLost(m)
    /\ UNCHANGED <<class, minted, objects, slots, procs>>

AcquireRefused(m) ==
    /\ m.kind = "acquire" /\ m.live
    /\ ~AcquireGuards(m)
    /\ net' = net \ {m}
    /\ LeaveUnleased(m.h)
    /\ UNCHANGED <<class, valkey, minted, objects, ownGen, via, queued, held, maint>>

(* The script call raises: no lease object, the row stays pending. *)
AcquireFails(h) ==
    /\ pc[h] = "acquiring"
    /\ net' = Abandon({m \in net : m.h = h})
    /\ LeaveUnleased(h)
    /\ UNCHANGED <<class, valkey, minted, objects, ownGen, via, queued, held, maint>>

-----------------------------------------------------------------------------
(* Renewal: _heartbeat_lease and heartbeat.                                *)

Renewing(h) ==
    /\ pc[h] \in Holding \ {"acked"}
    /\ ~lost[tok[h]]

RenewSend(h) ==
    LET t == tok[h]
    IN  /\ Renewing(h)
        /\ lock[t] = "free"
        /\ left[t] > 0
        /\ left[t] <= Window - Heartbeat        \* next_due has passed
        /\ lock' = [lock EXCEPT ![t] = "renew"]
        /\ renewed' = [renewed EXCEPT ![t] = Window]
        /\ net' = net \cup {Request("renew", h, t, ownGen[h])}
        /\ UNCHANGED <<class, valkey, minted, left, lost, slots, procs>>

EndRenewal(t) ==
    /\ lock' = [lock EXCEPT ![t] = "free"]
    /\ renewed' = [renewed EXCEPT ![t] = 0]

RenewGuards(m) ==
    /\ entry = "pending"
    /\ pel = Home[m.h]
    /\ leaseTok = m.tok
    /\ gen = m.gen

(* Mutant: the renewal adds to the remaining life. *)
ExtendLeaseAdds ==
    /\ leaseLeft' = leaseLeft + LeaseTTL
    /\ UNCHANGED <<entry, pel, delivered, leaseTok, gen, budget, doneBy, buried, endings>>

(* PEXPIRE of lease and state; XCLAIM JUSTID leaves times_delivered alone. *)
ExtendLease ==
    /\ leaseLeft' = LeaseTTL
    /\ UNCHANGED <<entry, pel, delivered, leaseTok, gen, budget, doneBy, buried, endings>>

(* A confirmed renewal moves the local deadline to its own send time plus  *)
(* the window, never to the time of the reply.                             *)
RenewConfirmed(m) ==
    /\ m.kind = "renew" /\ m.live
    /\ RenewGuards(m)
    /\ ExtendLease
    /\ net' = net \ {m}
    /\ left' = [left EXCEPT ![m.tok] = renewed[m.tok]]
    /\ EndRenewal(m.tok)
    /\ UNCHANGED <<class, minted, lost, slots, procs>>

RenewUnheard(m) ==
    /\ m.kind = "renew"
    /\ RenewGuards(m)
    /\ ExtendLease
    /\ ReplyLost(m)
    /\ UNCHANGED <<class, minted, objects, slots, procs>>

RenewRefused(m) ==
    /\ m.kind = "renew" /\ m.live
    /\ ~RenewGuards(m)
    /\ net' = net \ {m}
    /\ lost' = [lost EXCEPT ![m.tok] = TRUE]
    /\ EndRenewal(m.tok)
    /\ UNCHANGED <<class, valkey, minted, left, slots, procs>>

(* A raising attempt is unconfirmed: the prior local deadline stands. *)
RenewFails(h) ==
    /\ pc[h] \in Holding
    /\ lock[tok[h]] = "renew"
    /\ net' = Abandon({m \in net : m.h = h /\ m.kind = "renew"})
    /\ EndRenewal(tok[h])
    /\ UNCHANGED <<class, valkey, minted, left, lost, slots, procs>>

(* The heartbeat task wakes after the local deadline. *)
LocalDeadline(h) ==
    /\ Renewing(h)
    /\ left[tok[h]] = 0
    /\ lost' = [lost EXCEPT ![tok[h]] = TRUE]
    /\ UNCHANGED <<class, valkey, net, minted, left, renewed, lock, slots, procs>>

-----------------------------------------------------------------------------
(* The body of the handler: consumer._handle and the kernel's settlement.  *)

Goto(h, phase) == pc' = [pc EXCEPT ![h] = phase]

(* is_terminal: the marker is there, whichever script wrote it. *)
Done == doneBy # {} \/ "marked" \in endings

(* process_event begins with is_terminal: a done event is not run again. *)
CheckTerminal(h) ==
    /\ pc[h] = "running" /\ class # "poison"
    /\ Goto(h, IF Done THEN "terminal" ELSE "turn")
    /\ UNCHANGED <<class, valkey, net, minted, objects, tok, ownGen, via, procs>>

(* Mutant: the settlement compares nothing. *)
SettleGuardsUnfenced(h) == TRUE

SettleGuards(h) == leaseTok = tok[h] /\ gen = ownGen[h]

(* _SETTLE_FENCED_LUA; the reply may be lost, which fails the turn. *)
SettleFenced(h) ==
    /\ pc[h] = "turn"
    /\ SettleGuards(h)
    /\ doneBy' = doneBy \cup {tok[h]}
    /\ \E phase \in {"terminal", "exiting"} : Goto(h, phase)
    /\ UNCHANGED <<class, entry, pel, delivered, leaseTok, leaseLeft, gen, budget, buried, endings,
                   net, minted, objects, tok, ownGen, via, procs>>

SettleRefused(h) ==
    /\ pc[h] = "turn"
    /\ ~SettleGuards(h)
    /\ lost' = [lost EXCEPT ![tok[h]] = TRUE]
    /\ Goto(h, "terminal")
    /\ UNCHANGED <<class, valkey, net, minted, left, renewed, lock, tok, ownGen, via, procs>>

(* mark_done under a lease compares neither token nor generation: an HTTP  *)
(* caller refused, a factory execution that has ended, a CI continuation   *)
(* that is stale, a wait that expired without a notice.                    *)
MarkUnfenced(h) ==
    /\ pc[h] = "turn"
    /\ endings' = endings \cup {"marked"}
    /\ Goto(h, "terminal")
    /\ UNCHANGED <<class, entry, pel, delivered, leaseTok, leaseLeft, gen, budget, doneBy, buried,
                   net, minted, objects, tok, ownGen, via, procs>>

(* The body returns without a marker, and the entry is acknowledged: the   *)
(* ledger refuses the wake, its start or its finish, or ends it; another   *)
(* delivery owns the resume; the wait is of another generation.            *)
Waive(h) ==
    /\ pc[h] \in {"running", "turn"}
    /\ class = "backed"
    /\ endings' = endings \cup {"waived"}
    /\ Goto(h, "terminal")
    /\ UNCHANGED <<class, entry, pel, delivered, leaseTok, leaseLeft, gen, budget, doneBy, buried,
                   net, minted, objects, tok, ownGen, via, procs>>

ParkGuards(h) ==
    /\ entry = "pending" /\ pel = Home[h]
    /\ leaseTok = tok[h] /\ gen = ownGen[h]
    /\ ~Done

(* _PARK_LUA writes the wait record and removes the row in one script.  A  *)
(* refusal, and a reply that is lost, is an exception (Fail).              *)
Park(h) ==
    /\ pc[h] \in {"running", "turn"} /\ class # "poison"
    /\ ~lost[tok[h]]
    /\ ParkGuards(h)
    /\ entry' = "settled" /\ pel' = None
    /\ endings' = endings \cup {"parked"}
    /\ Goto(h, "acked")
    /\ UNCHANGED <<class, delivered, leaseTok, leaseLeft, gen, budget, doneBy, buried,
                   net, minted, objects, tok, ownGen, via, procs>>

(* _dead_letter of an unparseable entry: refusal, then XADD. *)
BuryPoison(h) ==
    LET lk == held[Home[h]]
    IN  /\ pc[h] = "running" /\ class = "poison"
        /\ IF (lk # 0 /\ lost[lk]) \/ (lk = 0 /\ leaseTok # 0)
             THEN Goto(h, "exiting") /\ UNCHANGED buried
             ELSE Goto(h, "buried") /\ buried' = TRUE
        /\ UNCHANGED <<class, entry, pel, delivered, leaseTok, leaseLeft, gen, budget, doneBy, endings,
                       net, minted, objects, tok, ownGen, via, procs>>

(* Any exception, or cancellation by the generation teardown. *)
Fail(h) ==
    /\ pc[h] \in Holding
    /\ Goto(h, "exiting")
    /\ net' = Abandon({m \in net : m.h = h})
    /\ lock' = [t \in Tokens |-> IF t = tok[h] \/ (t = via[h] /\ lock[t] = "ack")
                                   THEN "free" ELSE lock[t]]
    /\ UNCHANGED <<class, valkey, minted, left, renewed, lost, tok, ownGen, via, procs>>

-----------------------------------------------------------------------------
(* Acknowledgement: the pre-ACK checks and _ack.                           *)

Acking(h) == \E m \in net : m.h = h /\ m.kind = "xack" /\ m.live

(* The lease _ack consults: whatever is registered for the entry id when   *)
(* it is entered, kept over its retries.                                   *)
AckLease(h) == IF pc[h] = "acking" THEN via[h] ELSE held[Home[h]]

(* Mutant: the row is acknowledged before the turn is settled. *)
MayEnterAckEarly(h) ==
    \/ pc[h] \in {"turn", "terminal"} /\ ~lost[tok[h]]
    \/ pc[h] = "buried"
    \/ pc[h] = "acking" /\ ~Acking(h)

(* raise_if_lost before _ack: of the handler's own lease on the terminal   *)
(* path, of the registered lease in _dead_letter.                          *)
MayEnterAck(h) ==
    \/ pc[h] = "terminal" /\ ~lost[tok[h]]
    \/ pc[h] = "buried"
    \/ pc[h] = "acking" /\ ~Acking(h)

(* Mutant: only the lost flag is consulted. *)
InWindowNotLost(t) == ~lost[t]

(* raise_if_lost and the comparison with local_deadline_monotonic in _ack. *)
InWindow(t) == ~lost[t] /\ left[t] > 0

(* XACK is sent under settlement_lock while the local deadline is ahead;   *)
(* with no registered lease it is sent as it is.                           *)
AckSend(h) ==
    LET lk == AckLease(h)
    IN  /\ MayEnterAck(h)
        /\ lk # 0 => lock[lk] = "free" /\ InWindow(lk)
        /\ pc' = [pc EXCEPT ![h] = "acking"]
        /\ via' = [via EXCEPT ![h] = lk]
        /\ lock' = [t \in Tokens |-> IF t = lk THEN "ack" ELSE lock[t]]
        /\ net' = net \cup {Request("xack", h, lk, 0)}
        /\ UNCHANGED <<class, valkey, minted, left, renewed, lost, tok, ownGen, procs>>

(* LeaseLostError before or inside _ack: nothing is written. *)
AckRefused(h) ==
    LET lk == AckLease(h)
    IN  /\ \/ pc[h] = "terminal" /\ lost[tok[h]]
           \/ MayEnterAck(h) /\ lk # 0 /\ ~InWindow(lk)
        /\ Goto(h, "exiting")
        /\ UNCHANGED <<class, valkey, net, minted, objects, tok, ownGen, via, procs>>

(* XACK names the entry only: it removes the row whoever owns it. *)
RemoveRow ==
    /\ entry' = "settled"
    /\ pel' = None
    /\ UNCHANGED <<delivered, leaseTok, leaseLeft, gen, budget, doneBy, buried, endings>>

Unlock(t) == lock' = [lock EXCEPT ![t] = "free"]

AckConfirmed(m) ==
    /\ m.kind = "xack" /\ m.live
    /\ IF entry = "pending" THEN RemoveRow ELSE UNCHANGED valkey
    /\ net' = net \ {m}
    /\ IF m.tok = 0
         THEN Goto(m.h, "acked") /\ UNCHANGED <<lost, lock>>
         ELSE /\ Unlock(m.tok)
              /\ lost' = [lost EXCEPT ![m.tok] = @ \/ entry # "pending"]
              /\ Goto(m.h, IF entry = "pending" THEN "acked" ELSE "exiting")
    /\ UNCHANGED <<class, minted, left, renewed, tok, ownGen, via, procs>>

AckUnheard(m) ==
    /\ m.kind = "xack"
    /\ IF entry = "pending" THEN RemoveRow ELSE UNCHANGED valkey
    /\ ReplyLost(m)
    /\ UNCHANGED <<class, minted, objects, slots, procs>>

(* The attempt times out or raises; _ack backs off and tries again. *)
AckFails(h) ==
    /\ pc[h] = "acking"
    /\ via[h] # 0
    /\ lock[via[h]] = "ack"
    /\ net' = Abandon({m \in net : m.h = h /\ m.kind = "xack"})
    /\ Unlock(via[h])
    /\ UNCHANGED <<class, valkey, minted, left, renewed, lost, slots, procs>>

(* settle: the lease and the state are deleted unconditionally. *)
DropKeys ==
    /\ leaseTok' = 0 /\ leaseLeft' = 0
    /\ gen' = 0 /\ budget' = 0
    /\ UNCHANGED <<entry, pel, delivered, doneBy, buried, endings>>

SettleDelivery(h) ==
    /\ pc[h] = "acked"
    /\ DropKeys \/ UNCHANGED valkey             \* best effort
    /\ Goto(h, "exiting")
    /\ UNCHANGED <<class, net, minted, objects, tok, ownGen, via, procs>>

-----------------------------------------------------------------------------
(* The finally of _delivery_lease, then the finally of _handle.            *)

(* Mutant: the release deletes the lease key whoever owns it. *)
ReleaseScriptAny(t) ==
    /\ leaseTok' = 0 /\ leaseLeft' = 0
    /\ UNCHANGED <<entry, pel, delivered, gen, budget, doneBy, buried, endings>>

(* Compare-and-delete; a failed release leaves the lease to expire. *)
ReleaseScript(t) ==
    /\ IF leaseTok = t THEN leaseTok' = 0 /\ leaseLeft' = 0
                       ELSE UNCHANGED <<leaseTok, leaseLeft>>
    /\ UNCHANGED <<entry, pel, delivered, gen, budget, doneBy, buried, endings>>

(* The registration of the entry id is popped, whichever lease it names,   *)
(* and the heartbeat task is cancelled.                                    *)
Deregister(h) ==
    /\ pc[h] = "exiting"
    /\ held' = [held EXCEPT ![Home[h]] = 0]
    /\ net' = Abandon({m \in net : m.h = h})
    /\ Unlock(tok[h])
    /\ Goto(h, "releasing")
    /\ UNCHANGED <<class, valkey, minted, left, renewed, lost, tok, ownGen, via,
                   queued, inflight, maint>>

Exit(h) ==
    /\ pc[h] = "releasing"
    /\ ReleaseScript(tok[h]) \/ UNCHANGED valkey
    /\ Goto(h, "idle")
    /\ tok' = [tok EXCEPT ![h] = 0]
    /\ ownGen' = [ownGen EXCEPT ![h] = 0]
    /\ via' = [via EXCEPT ![h] = 0]
    /\ inflight' = [inflight EXCEPT ![Home[h]] = FALSE]
    /\ UNCHANGED <<class, net, minted, objects, queued, held, maint>>

-----------------------------------------------------------------------------
(* Over-cap dead-letter by a maintenance pass, which holds no lease.       *)

SetMaint(c, phase) == maint' = [maint EXCEPT ![c] = phase]

Condemn(c) ==
    /\ c \in Sweepers
    /\ maint[c] = "off"
    /\ entry = "pending"
    /\ delivered >= MaxDelivery
    /\ ~inflight[c]
    /\ leaseTok = 0
    /\ SetMaint(c, "condemned")
    /\ UNCHANGED <<class, valkey, net, minted, objects, slots, queued, inflight, held>>

(* _dead_letter_refusal: its own registered lease if there is one, else    *)
(* whether anybody's lease is live.                                        *)
DeadLetterRefusal(c) ==
    IF held[c] # 0 THEN lost[held[c]] ELSE leaseTok # 0

(* Refused, or XADD to the graveyard; a failing XADD leaves the row to a   *)
(* later pass.                                                             *)
MaintBury(c) ==
    /\ maint[c] = "condemned"
    /\ \/ ~DeadLetterRefusal(c) /\ SetMaint(c, "buried") /\ buried' = TRUE
       \/ SetMaint(c, "off") /\ UNCHANGED buried
    /\ UNCHANGED <<class, entry, pel, delivered, leaseTok, leaseLeft, gen, budget, doneBy, endings,
                   net, minted, objects, slots, queued, inflight, held>>

(* _ack again looks the entry id up: fenced when a handler of the same     *)
(* process has registered meanwhile, a plain XACK otherwise.               *)
MaintAck(c) ==
    LET lk == held[c]
        fenced == lk # 0
        refused == fenced /\ ~InWindow(lk)
    IN  /\ maint[c] = "buried"
        /\ (fenced /\ ~refused) => lock[lk] = "free"
        /\ IF refused
             THEN SetMaint(c, "off") /\ UNCHANGED <<valkey, lost>>
             ELSE IF entry = "pending"
             THEN SetMaint(c, "acked") /\ RemoveRow /\ UNCHANGED lost
             ELSE /\ SetMaint(c, IF fenced THEN "off" ELSE "acked")
                  /\ lost' = [t \in Tokens |-> lost[t] \/ t = lk]
                  /\ UNCHANGED valkey
        /\ UNCHANGED <<class, net, minted, left, renewed, lock, slots, queued, inflight, held>>

MaintSettle(c) ==
    /\ maint[c] = "acked"
    /\ DropKeys \/ UNCHANGED valkey
    /\ SetMaint(c, "off")
    /\ UNCHANGED <<class, net, minted, objects, slots, queued, inflight, held>>

-----------------------------------------------------------------------------
(* Process crash: everything in memory is gone, Valkey and the network are *)
(* not.  The process restarts under the same consumer name.                *)
Crash(c) ==
    LET mine == {h \in Handlers : Home[h] = c}
    IN  /\ \/ \E h \in mine : pc[h] # "idle"
           \/ queued[c] > 0
           \/ maint[c] # "off"
        /\ pc' = [h \in Handlers |-> IF h \in mine THEN "idle" ELSE pc[h]]
        /\ tok' = [h \in Handlers |-> IF h \in mine THEN 0 ELSE tok[h]]
        /\ ownGen' = [h \in Handlers |-> IF h \in mine THEN 0 ELSE ownGen[h]]
        /\ via' = [h \in Handlers |-> IF h \in mine THEN 0 ELSE via[h]]
        /\ net' = Abandon({m \in net : m.h \in mine})
        /\ queued' = [queued EXCEPT ![c] = 0]
        /\ inflight' = [inflight EXCEPT ![c] = FALSE]
        /\ held' = [held EXCEPT ![c] = 0]
        /\ maint' = [maint EXCEPT ![c] = "off"]
        /\ UNCHANGED <<class, valkey, minted, objects>>

(* Time passes for every clock at once, unless a request would be later    *)
(* than MaxDelay.                                                          *)
Tick ==
    /\ \A m \in net : m.age < MaxDelay
    /\ leaseLeft' = Dec(leaseLeft)
    /\ leaseTok' = IF leaseLeft <= 1 THEN 0 ELSE leaseTok
    /\ budget' = Dec(budget)
    /\ left' = [t \in Tokens |-> Dec(left[t])]
    /\ renewed' = [t \in Tokens |-> Dec(renewed[t])]
    /\ net' = {Copy(m, m.age + 1, m.live) : m \in net}
    /\ UNCHANGED <<class, entry, pel, delivered, gen, doneBy, buried, endings,
                   minted, lost, lock, slots, procs>>

-----------------------------------------------------------------------------
ServerStep(m) ==
    \/ Lose(m)
    \/ AcquireGranted(m) \/ AcquireGrantedUnheard(m) \/ AcquireRefused(m)
    \/ RenewConfirmed(m) \/ RenewUnheard(m) \/ RenewRefused(m)
    \/ AckConfirmed(m) \/ AckUnheard(m)

HandlerStep(h) ==
    \/ Start(h) \/ AcquireFails(h)
    \/ RenewSend(h) \/ RenewFails(h) \/ LocalDeadline(h)
    \/ CheckTerminal(h) \/ SettleFenced(h) \/ SettleRefused(h)
    \/ MarkUnfenced(h) \/ Waive(h) \/ Park(h) \/ BuryPoison(h) \/ Fail(h)
    \/ AckSend(h) \/ AckRefused(h) \/ AckFails(h)
    \/ SettleDelivery(h) \/ Deregister(h) \/ Exit(h)

ConsumerStep(c) ==
    \/ Deliver(c) \/ Claim(c)
    \/ Condemn(c) \/ MaintBury(c) \/ MaintAck(c) \/ MaintSettle(c)
    \/ Crash(c)

Next ==
    \/ \E m \in net : ServerStep(m)
    \/ \E h \in Handlers : HandlerStep(h)
    \/ \E c \in Consumers : ConsumerStep(c)
    \/ Tick

Spec == Init /\ [][Next]_vars

-----------------------------------------------------------------------------
(* The authority a handler may act on: its lease object is neither lost    *)
(* nor past its local deadline.                                            *)
Authority(h) == pc[h] \in Holding /\ ~lost[tok[h]] /\ left[tok[h]] > 0

(* Two handlers never both have authority over the delivery, in one        *)
(* process or in two, whatever requests are late, repeated or lost.        *)
OneAuthority ==
    \A h1, h2 \in Handlers : Authority(h1) /\ Authority(h2) => h1 = h2

(* While the row is pending, a handler with authority owns the lease key   *)
(* on the server, and would still own it one heartbeat later: its local    *)
(* window ends first (ownership_window_s).                                 *)
AuthorityIsLeased ==
    entry = "pending" =>
        \A h \in Handlers : Authority(h) =>
            leaseTok = tok[h] /\ leaseLeft >= left[tok[h]] + Heartbeat

(* A fenced XACK, retried or late, reaches Valkey while the lease it was   *)
(* sent under is live, as long as that lease's handler has not left: it    *)
(* never removes a row that another owner has acquired (_ack's checks      *)
(* against local_deadline_monotonic).                                      *)
AckUnderOwnLease ==
    \A m \in net : \A h \in Handlers :
        /\ m.kind = "xack" /\ m.tok # 0
        /\ tok[h] = m.tok /\ pc[h] \in Holding
        /\ entry = "pending"
        => leaseTok = m.tok

(* At most one owner ever settles the event: a stale owner's settlement    *)
(* is refused and a later owner does not run a done event (settle_fenced). *)
(* The markers of mark_done, which is not fenced, are not counted.         *)
SettledOnce == \A t1, t2 \in doneBy : t1 = t2

(* The durable homes an outcome can have. *)
Outcome ==
    \/ Done \/ buried \/ "parked" \in endings
    \/ class = "backed" /\ "waived" \in endings

(* The row leaves the group only once its outcome has a durable home: the  *)
(* done marker, a graveyard row or the record of a capacity wait (XADD,    *)
(* settle_fenced and mark_done before XACK, _PARK_LUA with it).  A body    *)
(* that returns without a marker takes it off only if a ledger row, a wait *)
(* or another delivery has the work.                                       *)
NeverLost == entry = "settled" => Outcome

(* A replacement inherits the deadline: while the delivery state lives,    *)
(* no acquisition or renewal gives budget back (HSETNX deadline_ms).       *)
BudgetNeverExtended ==
    [][gen # 0 /\ gen' # 0 => budget' <= budget]_vars

(* _dead_letter_refusal: "a new owner may have acquired in the window      *)
(* since that read, and its delivery must not be settled underneath it".   *)
(* No maintenance pass removes the row of a handler that has authority.    *)
(* This does not hold (README, section 6).                                 *)
NotSettledUnderneath ==
    [][\A c \in Consumers, h \in Handlers :
          maint[c] = "buried" /\ maint'[c] = "acked" /\ entry = "pending"
             => ~(Authority(h) /\ leaseTok = tok[h])]_vars

-----------------------------------------------------------------------------
(* The abstract delivery: the live lease key names the owner, and the      *)
(* tokens of the handlers that have authority are the ones that act.       *)
Owner == {leaseTok} \ {0}
Acting == {tok[h] : h \in {g \in Handlers : Authority(g)}}

Fence == INSTANCE FencedDelivery WITH
    row <- entry, owner <- Owner, acting <- Acting

(* Every step of the lease scripts, the heartbeat, the handlers, the       *)
(* maintenance pass, the network and the clock is a step of FencedDelivery *)
(* or none: in particular no lease ends, and none is granted, while a      *)
(* handler still has authority over the pending row.                       *)
ImplementsFence == Fence!Spec
=============================================================================
