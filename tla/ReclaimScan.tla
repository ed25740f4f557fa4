---------------------------- MODULE ReclaimScan ----------------------------
(***************************************************************************)
(* How a pending row finds its next handler: the read loop, the four        *)
(* transfer passes of stream_consumer.py (over-cap scan, proven-dead peer,  *)
(* expired lease, XAUTOCLAIM backstop), local recovery after a restart, and *)
(* the semaphore of consumer.py, for ONE stream entry.                      *)
(*                                                                         *)
(* A pass holds the process-local _reclaim_lock and walks through stages;   *)
(* each step of a stage is one call to Valkey, so the passes of different   *)
(* replicas interleave between any two of them.  Handlers and their lease   *)
(* are as coarse here as DeliveryLease allows: a handler acts on the row    *)
(* only while its own lease key is live (AuthorityIsLeased).                *)
(*                                                                         *)
(* Idle time saturates at Backstop and the delivery count just above        *)
(* MaxDelivery: no guard of the code tells larger values apart.             *)
(***************************************************************************)
EXTENDS Integers, FiniteSets

CONSTANTS
    Consumers,      \* replicas of the group, one semaphore slot each
    None,           \* no consumer
    LeaseTTL,       \* delivery_lease_ttl_s
    ExpiredIdle,    \* lease_expired_idle_ms
    Backstop,       \* reclaim_min_idle_ms
    AliveTTL,       \* heartbeat_ttl_ms of the consumer liveness key
    MaxDelivery,    \* max_delivery
    MaxStall,       \* a page row is claimed within MaxStall of its XPENDING read
    Busy,           \* bound: replicas whose slot other entries may take
    Sweeps,         \* bound: the periodic loops that run at each replica
    MaxCrash,       \* bound: process crashes
    MaxFault,       \* bound: calls of a pass that raise
    MaxTrouble      \* bound: crashes and calls that raise together

(* The validators of WorkerConfig; MaxStall is the assumption under which  *)
(* comparing idle times detects a competing transfer.                      *)
ASSUME ScanAssumption ==
    /\ None \notin Consumers
    /\ LeaseTTL \in Nat \ {0} /\ AliveTTL \in Nat \ {0}
    /\ ExpiredIdle \in Nat /\ Backstop \in Nat
    /\ LeaseTTL <= ExpiredIdle /\ ExpiredIdle < Backstop
    /\ MaxDelivery \in Nat /\ MaxDelivery >= 2
    /\ MaxStall \in Nat /\ MaxStall < ExpiredIdle
    /\ Busy \subseteq Consumers
    /\ Sweeps \in [Consumers -> SUBSET {"maintenance", "prompt"}]
    /\ MaxCrash \in Nat /\ MaxFault \in Nat /\ MaxTrouble \in Nat

VARIABLES
    entry,      \* "new", "pending" or "gone"
    owner,      \* consumer of the pending row
    count,      \* times_delivered
    idle,       \* time_since_delivered
    lease,      \* consumer whose handler owns the lease key
    leaseLeft,  \* remaining life of the lease key
    state,      \* the delivery state hash exists
    buried,     \* the graveyard stream has a row for the entry
    alive,      \* remaining life of each consumer's liveness key
    arb,        \* arb[p]: who holds the reclaim arbitration of p's rows
    up,         \* the process runs a generation
    other,      \* its slot is taken by another entry
    working,    \* its slot runs a handler of the entry
    waiting,    \* loops that wait for the slot with the entry in hand
    absent,     \* absent[c][p]: 0, or 1 + how long c has seen p's key absent
    loop,       \* the loop that holds _reclaim_lock
    stage,      \* where its pass is
    step,
    peer,       \* whose rows the pass is transferring
    seen,       \* the row as XPENDING returned it
    age,        \* how long ago
    over,       \* the pass has the entry in over_cap
    picked,     \* the pass has selected the entry
    crashes,
    faults

row == <<entry, owner, count, idle>>
keys == <<lease, leaseLeft, state>>
fleet == <<alive, arb, up, crashes>>
slots == <<other, working, waiting>>
pass == <<loop, stage, step, peer, seen, age, over, picked>>
vars == <<row, keys, buried, fleet, slots, absent, pass, faults>>

Loops == {"reader", "maintenance", "prompt", "bootstrap"}
Stages == {"rest", "cap", "dead", "own", "expired", "auto", "dispatch"}
Steps == {"none", "look", "arb", "recheck", "scan", "lease", "state", "claim", "reread",
          "bury", "ack", "settle"}
Row == [count : 0..(MaxDelivery + 1), idle : 0..Backstop]
NoRow == [count |-> 0, idle |-> 0]

TypeOK ==
    /\ entry \in {"new", "pending", "gone"}
    /\ owner \in Consumers \cup {None}
    /\ count \in 0..(MaxDelivery + 1)
    /\ idle \in 0..Backstop
    /\ lease \in Consumers \cup {None}
    /\ leaseLeft \in 0..LeaseTTL
    /\ state \in BOOLEAN
    /\ buried \in BOOLEAN
    /\ alive \in [Consumers -> 0..AliveTTL]
    /\ arb \in [Consumers -> Consumers \cup {None}]
    /\ up \in [Consumers -> BOOLEAN]
    /\ other \in [Consumers -> BOOLEAN]
    /\ working \in [Consumers -> BOOLEAN]
    /\ waiting \in [Consumers -> SUBSET Loops]
    /\ absent \in [Consumers -> [Consumers -> 0..(AliveTTL + 1)]]
    /\ loop \in [Consumers -> Loops]
    /\ stage \in [Consumers -> Stages]
    /\ step \in [Consumers -> Steps]
    /\ peer \in [Consumers -> Consumers \cup {None}]
    /\ seen \in [Consumers -> Row]
    /\ age \in [Consumers -> 0..MaxStall]
    /\ over \in [Consumers -> BOOLEAN]
    /\ picked \in [Consumers -> BOOLEAN]
    /\ crashes \in 0..MaxCrash
    /\ faults \in 0..MaxFault

Init ==
    /\ entry = "new" /\ owner = None /\ count = 0 /\ idle = 0
    /\ lease = None /\ leaseLeft = 0 /\ state = FALSE
    /\ buried = FALSE
    /\ alive = [c \in Consumers |-> AliveTTL]
    /\ arb = [c \in Consumers |-> None]
    /\ up = [c \in Consumers |-> TRUE]
    /\ other = [c \in Consumers |-> FALSE]
    /\ working = [c \in Consumers |-> FALSE]
    /\ waiting = [c \in Consumers |-> {}]
    /\ absent = [c \in Consumers |-> [p \in Consumers |-> 0]]
    /\ loop = [c \in Consumers |-> "reader"]
    /\ stage = [c \in Consumers |-> "rest"]
    /\ step = [c \in Consumers |-> "none"]
    /\ peer = [c \in Consumers |-> None]
    /\ seen = [c \in Consumers |-> NoRow]
    /\ age = [c \in Consumers |-> 0]
    /\ over = [c \in Consumers |-> FALSE]
    /\ picked = [c \in Consumers |-> FALSE]
    /\ crashes = 0
    /\ faults = 0

Least(m, n) == IF m < n THEN m ELSE n
Dec(n) == IF n > 0 THEN n - 1 ELSE 0

-----------------------------------------------------------------------------
(* Reading, the semaphore and the handler.                                 *)

(* Bootstrap has returned, so the other loops run. *)
Booted(c) == up[c] /\ stage[c] # "own" /\ "bootstrap" \notin waiting[c]

SlotFree(c) == ~other[c] /\ ~working[c]

Read(c) ==
    /\ Booted(c)
    /\ entry = "new"
    /\ entry' = "pending" /\ owner' = c /\ count' = 1 /\ idle' = 0
    /\ waiting' = [waiting EXCEPT ![c] = @ \cup {"reader"}]
    /\ UNCHANGED <<keys, buried, fleet, other, working, absent, pass, faults>>

OtherStarts(c) ==
    /\ c \in Busy /\ up[c] /\ SlotFree(c)
    /\ other' = [other EXCEPT ![c] = TRUE]
    /\ UNCHANGED <<row, keys, buried, fleet, working, waiting, absent, pass, faults>>

OtherEnds(c) ==
    /\ other[c]
    /\ other' = [other EXCEPT ![c] = FALSE]
    /\ UNCHANGED <<row, keys, buried, fleet, working, waiting, absent, pass, faults>>

(* _dispatch gets the slot; the handler is granted the lease, or refused   *)
(* and gone.  Acquisition leaves the row's idle time alone.                *)
Acquire(c) ==
    \E k \in waiting[c] :
        /\ SlotFree(c)
        /\ waiting' = [waiting EXCEPT ![c] = @ \ {k}]
        /\ IF entry = "pending" /\ owner = c /\ lease = None
             THEN /\ working' = [working EXCEPT ![c] = TRUE]
                  /\ lease' = c /\ leaseLeft' = LeaseTTL /\ state' = TRUE
             ELSE UNCHANGED <<working, keys>>
        /\ UNCHANGED <<row, buried, fleet, other, absent, pass, faults>>

(* Mutant: the renewal adds to the remaining life. *)
RenewAdds(c) ==
    /\ working[c] /\ lease = c
    /\ entry = "pending" /\ owner = c
    /\ leaseLeft' = leaseLeft + LeaseTTL
    /\ idle' = 0
    /\ UNCHANGED <<entry, owner, count, lease, state, buried, fleet, slots, absent, pass, faults>>

(* The heartbeat renews the lease and, by XCLAIM JUSTID, the idle clock.   *)
Renew(c) ==
    /\ working[c] /\ lease = c
    /\ entry = "pending" /\ owner = c
    /\ leaseLeft' = LeaseTTL
    /\ idle' = 0
    /\ UNCHANGED <<entry, owner, count, lease, state, buried, fleet, slots, absent, pass, faults>>

(* The turn settles and the row is acknowledged under the lease. *)
Finish(c) ==
    /\ working[c] /\ lease = c /\ entry = "pending"
    /\ entry' = "gone" /\ owner' = None
    /\ lease' = None /\ leaseLeft' = 0 /\ state' = FALSE
    /\ working' = [working EXCEPT ![c] = FALSE]
    /\ UNCHANGED <<count, idle, buried, fleet, other, waiting, absent, pass, faults>>

(* The handler raises or has lost its lease.  Its own lease is released,   *)
(* or left to expire if the release fails.                                 *)
Fail(c) ==
    /\ working[c]
    /\ working' = [working EXCEPT ![c] = FALSE]
    /\ \/ lease = c /\ lease' = None /\ leaseLeft' = 0
       \/ UNCHANGED <<lease, leaseLeft>>
    /\ UNCHANGED <<row, state, buried, fleet, other, waiting, absent, pass, faults>>

-----------------------------------------------------------------------------
(* Walking through a pass.                                                 *)

At(c, st, sp) == stage[c] = st /\ step[c] = sp

Goto(c, st, sp) ==
    /\ stage' = [stage EXCEPT ![c] = st]
    /\ step' = [step EXCEPT ![c] = sp]

(* Mutant: a tick ends before the backstop. *)
FollowingNoBackstop(c) ==
    CASE stage[c] = "cap" -> <<"dead", "look">>
      [] stage[c] = "dead" /\ loop[c] = "maintenance" -> <<"expired", "scan">>
      [] OTHER -> <<"dispatch", "none">>

(* The order of the passes in _reclaim_once; the prompt loop and bootstrap *)
(* run one of them only.                                                   *)
Following(c) ==
    CASE stage[c] = "cap" -> <<"dead", "look">>
      [] stage[c] = "dead" /\ loop[c] = "maintenance" -> <<"expired", "scan">>
      [] stage[c] = "expired" -> <<"auto", "claim">>
      [] OTHER -> <<"dispatch", "none">>

Forget(c) ==
    /\ seen' = [seen EXCEPT ![c] = NoRow]
    /\ age' = [age EXCEPT ![c] = 0]

(* The pass of c has won the arbitration of p's rows; an arb[p] = c left by *)
(* an earlier incarnation of c has another token.                          *)
Arbitrates(c, p) == up[c] /\ peer[c] = p /\ arb[p] = c /\ step[c] # "arb"

(* The row, or the pass, is done with: the arbitration is released and the *)
(* next pass begins.                                                       *)
Leave(c) ==
    /\ Goto(c, Following(c)[1], Following(c)[2])
    /\ Forget(c)
    /\ peer' = [peer EXCEPT ![c] = None]
    /\ arb' = [p \in Consumers |-> IF Arbitrates(c, p) THEN None ELSE arb[p]]

(* The same step of the same pass goes on. *)
Stay(c, sp) ==
    /\ Goto(c, stage[c], sp)
    /\ UNCHANGED <<seen, age, peer, arb>>

(* The same pass goes on without the snapshot. *)
Move(c, sp) ==
    /\ Goto(c, stage[c], sp)
    /\ Forget(c)
    /\ UNCHANGED <<peer, arb>>

(* What a step of a pass leaves alone, besides the row, keys and graveyard. *)
PassFrame == UNCHANGED <<alive, up, crashes, slots, loop, faults>>

(* A tick of the maintenance loop (_reclaim_once) or of the prompt loop    *)
(* (_prompt_reclaim_once) gets _reclaim_lock.                              *)
Begin(c, k) ==
    /\ Booted(c) /\ stage[c] = "rest"
    /\ k \notin waiting[c]
    /\ k \in Sweeps[c]
    /\ loop' = [loop EXCEPT ![c] = k]
    /\ IF k = "maintenance" THEN Goto(c, "cap", "scan") ELSE Goto(c, "dead", "look")
    /\ UNCHANGED <<row, keys, buried, fleet, slots, absent, peer, seen, age, over, picked, faults>>

(* _dispatch_reclaimed, after _reclaim_lock is released. *)
Dispatch(c) ==
    /\ stage[c] = "dispatch"
    /\ Goto(c, "rest", "none")
    /\ waiting' = [waiting EXCEPT ![c] = IF picked[c] /\ ~working[c] THEN @ \cup {loop[c]} ELSE @]
    /\ over' = [over EXCEPT ![c] = FALSE]
    /\ picked' = [picked EXCEPT ![c] = FALSE]
    /\ UNCHANGED <<row, keys, buried, fleet, other, working, absent, loop, peer, seen, age, faults>>

-----------------------------------------------------------------------------
(* Proof of death and arbitration: _select_dead_consumer_entries and       *)
(* _recover_local_pending_once.                                            *)

Proven(c, p) == absent[c][p] = AliveTTL + 1

(* Only the owner of the row has pending rows.  Its key must have been     *)
(* absent at two looks at least one liveness TTL apart.                    *)
Look(c) ==
    LET gone == {p \in Consumers \ {c} : entry = "pending" /\ owner = p /\ alive[p] = 0}
    IN  /\ At(c, "dead", "look")
        /\ absent' = [absent EXCEPT ![c] =
               [p \in Consumers |-> IF p \notin gone THEN 0
                                    ELSE IF absent[c][p] = 0 THEN 1 ELSE absent[c][p]]]
        /\ \/ \E p \in gone :
                 /\ Proven(c, p)
                 /\ peer' = [peer EXCEPT ![c] = p]
                 /\ Goto(c, "dead", "arb")
                 /\ UNCHANGED <<seen, age, arb>>
           \/ /\ \A p \in gone : ~Proven(c, p)
              /\ Leave(c)
        /\ PassFrame /\ UNCHANGED <<row, keys, buried, over, picked>>

(* Mutant: SET without NX. *)
TakeArbitrationAnyway(c) ==
    /\ step[c] = "arb"
    /\ arb' = [arb EXCEPT ![peer[c]] = c]
    /\ Goto(c, stage[c], IF stage[c] = "dead" THEN "recheck" ELSE "scan")
    /\ UNCHANGED <<seen, age, peer>>
    /\ PassFrame /\ UNCHANGED <<row, keys, buried, absent, over, picked>>

(* SET NX; local recovery waits and tries again, a peer's pass gives up.   *)
TakeArbitration(c) ==
    /\ step[c] = "arb"
    /\ \/ /\ arb[peer[c]] = None
          /\ arb' = [arb EXCEPT ![peer[c]] = c]
          /\ Goto(c, stage[c], IF stage[c] = "dead" THEN "recheck" ELSE "scan")
          /\ UNCHANGED <<seen, age, peer>>
       \/ arb[peer[c]] # None /\ stage[c] = "dead" /\ Leave(c)
    /\ PassFrame /\ UNCHANGED <<row, keys, buried, absent, over, picked>>

(* The key may have been published again before the arbitration was won. *)
Recheck(c) ==
    /\ At(c, "dead", "recheck")
    /\ IF alive[peer[c]] > 0
         THEN Leave(c) /\ absent' = [absent EXCEPT ![c][peer[c]] = 0]
         ELSE Stay(c, "scan") /\ UNCHANGED absent
    /\ PassFrame /\ UNCHANGED <<row, keys, buried, over, picked>>

(* Mutant: the arbitration is taken without a TTL. *)
ArbitrationExpiresNever(p) == arb[p] # None /\ UNCHANGED vars

(* The TTL of an arbitration whose holder died.  It is at least a minute,  *)
(* more than any pass takes.                                               *)
ArbitrationExpires(p) ==
    /\ arb[p] # None
    /\ ~Arbitrates(arb[p], p)
    /\ arb' = [arb EXCEPT ![p] = None]
    /\ UNCHANGED <<row, keys, buried, alive, up, crashes, slots, absent, pass, faults>>

-----------------------------------------------------------------------------
(* One row of a page: XPENDING, lease, state, cap, XCLAIM, lease again.    *)

(* Which rows XPENDING returns to the pass; the expired pass first asks    *)
(* _transfer_capacity, less what it has already selected.                  *)
InScan(c) ==
    /\ entry = "pending"
    /\ CASE stage[c] = "cap" -> idle >= Backstop
         [] stage[c] = "expired" -> idle >= ExpiredIdle /\ SlotFree(c) /\ ~picked[c]
         [] OTHER -> owner = peer[c]

Scan(c) ==
    /\ step[c] = "scan"
    /\ IF InScan(c)
         THEN /\ Goto(c, stage[c], "lease")
              /\ seen' = [seen EXCEPT ![c] = [count |-> count, idle |-> idle]]
              /\ UNCHANGED <<age, peer, arb>>
         ELSE Leave(c)
    /\ PassFrame /\ UNCHANGED <<row, keys, buried, absent, over, picked>>

(* The cap is judged on the count read before the claim. *)
Judge(c) ==
    IF seen[c].count >= MaxDelivery
      THEN Move(c, "bury") /\ over' = [over EXCEPT ![c] = TRUE]
      ELSE /\ IF stage[c] = "cap" THEN Leave(c) ELSE Stay(c, "claim")
           /\ UNCHANGED over

CheckLease(c) ==
    /\ step[c] = "lease"
    /\ IF working[c] \/ over[c] \/ lease # None
         THEN Leave(c) /\ UNCHANGED over
         ELSE IF stage[c] = "expired" THEN Stay(c, "state") /\ UNCHANGED over
         ELSE Judge(c)
    /\ PassFrame /\ UNCHANGED <<row, keys, buried, absent, picked>>

(* The expired pass only takes rows that were leased before. *)
CheckState(c) ==
    /\ step[c] = "state"
    /\ IF state THEN Judge(c) ELSE Leave(c) /\ UNCHANGED over
    /\ PassFrame /\ UNCHANGED <<row, keys, buried, absent, picked>>

(* Mutant: XCLAIM without a minimum idle time. *)
MinIdleZero(c) == IF stage[c] = "auto" THEN Backstop ELSE 0

(* The min-idle of the claim: XCLAIM's is the idle time the pass has seen, *)
(* floored to 1, or its scan filter; XAUTOCLAIM's is the backstop.         *)
MinIdle(c) ==
    CASE stage[c] = "auto" -> Backstop
      [] stage[c] = "expired" -> ExpiredIdle
      [] OTHER -> IF seen[c].idle = 0 THEN 1 ELSE seen[c].idle

ClaimMatches(c) == entry = "pending" /\ idle >= MinIdle(c)

Claim(c) ==
    /\ step[c] = "claim"
    /\ IF ClaimMatches(c)
         THEN /\ owner' = c
              /\ count' = Least(count + 1, MaxDelivery + 1)
              /\ idle' = 0
              /\ Move(c, "reread")
         ELSE Leave(c) /\ UNCHANGED <<owner, count, idle>>
    /\ PassFrame /\ UNCHANGED <<entry, keys, buried, absent, over, picked>>

(* The claimed row is selected unless it is in flight here, over the cap,  *)
(* or leased again.                                                        *)
Reread(c) ==
    /\ step[c] = "reread"
    /\ picked' = [picked EXCEPT ![c] = @ \/ ~(working[c] \/ over[c] \/ lease # None)]
    /\ Leave(c)
    /\ PassFrame /\ UNCHANGED <<row, keys, buried, absent, over>>

-----------------------------------------------------------------------------
(* _dead_letter of an over-cap row: refusal and XADD, XACK, settle.        *)

Refused(c) == IF working[c] THEN lease # c ELSE lease # None

Bury(c) ==
    /\ step[c] = "bury"
    /\ IF Refused(c) THEN Leave(c) /\ UNCHANGED buried
                     ELSE Stay(c, "ack") /\ buried' = TRUE
    /\ PassFrame /\ UNCHANGED <<row, keys, absent, over, picked>>

(* A plain XACK, or one fenced by the lease of this process's own handler. *)
BuryAck(c) ==
    /\ step[c] = "ack"
    /\ IF working[c] /\ (lease # c \/ entry # "pending")
         THEN Leave(c) /\ UNCHANGED <<entry, owner>>
         ELSE Stay(c, "settle") /\ entry' = "gone" /\ owner' = None
    /\ PassFrame /\ UNCHANGED <<count, idle, keys, buried, absent, over, picked>>

BurySettle(c) ==
    /\ step[c] = "settle"
    /\ lease' = None /\ leaseLeft' = 0 /\ state' = FALSE
    /\ Leave(c)
    /\ PassFrame /\ UNCHANGED <<row, buried, absent, over, picked>>

-----------------------------------------------------------------------------
(* Failures.                                                               *)

(* The tick is abandoned: what it selected is not dispatched. *)
Abort(c) ==
    /\ Goto(c, "rest", "none")
    /\ Forget(c)
    /\ over' = [over EXCEPT ![c] = FALSE]
    /\ picked' = [picked EXCEPT ![c] = FALSE]
    /\ UNCHANGED <<peer, arb>>

(* A call of the pass raises.  An unreadable lease or state, a failed      *)
(* dead-letter, and anything in the proven-dead pass leave the row; a      *)
(* failed scan or claim of the other passes, executed or not, aborts the   *)
(* tick.  Local recovery does not survive it: see Crash.                   *)
Fault(c) ==
    /\ faults < MaxFault /\ crashes + faults < MaxTrouble
    /\ faults' = faults + 1
    /\ stage[c] \in {"cap", "dead", "own", "expired", "auto"}
    /\ \/ /\ stage[c] = "dead" \/ step[c] \in {"lease", "state", "reread", "bury", "ack", "settle"}
          /\ Leave(c) /\ UNCHANGED <<over, picked>>
       \/ /\ stage[c] \in {"cap", "expired", "auto"} /\ step[c] \in {"scan", "claim", "reread"}
          /\ Abort(c)
    /\ UNCHANGED <<row, keys, buried, alive, up, crashes, slots, absent, loop>>

(* The process, or one generation of it, ends: what it holds in memory is  *)
(* gone.  Its liveness key is deleted by _cleanup_alive or left to expire. *)
Crash(c) ==
    /\ up[c] /\ crashes < MaxCrash /\ crashes + faults < MaxTrouble
    /\ crashes' = crashes + 1
    /\ up' = [up EXCEPT ![c] = FALSE]
    /\ \E left \in {0, alive[c]} : alive' = [alive EXCEPT ![c] = left]
    /\ other' = [other EXCEPT ![c] = FALSE]
    /\ working' = [working EXCEPT ![c] = FALSE]
    /\ waiting' = [waiting EXCEPT ![c] = {}]
    /\ absent' = [absent EXCEPT ![c] = [p \in Consumers |-> 0]]
    /\ Goto(c, "rest", "none") /\ Forget(c)
    /\ peer' = [peer EXCEPT ![c] = None]
    /\ over' = [over EXCEPT ![c] = FALSE]
    /\ picked' = [picked EXCEPT ![c] = FALSE]
    /\ UNCHANGED <<row, keys, buried, arb, loop, faults>>

(* A new generation publishes its liveness key, then recovers local rows.  *)
Restart(c) ==
    /\ ~up[c]
    /\ up' = [up EXCEPT ![c] = TRUE]
    /\ alive' = [alive EXCEPT ![c] = AliveTTL]
    /\ loop' = [loop EXCEPT ![c] = "bootstrap"]
    /\ Goto(c, "own", "arb")
    /\ peer' = [peer EXCEPT ![c] = c]
    /\ UNCHANGED <<row, keys, buried, arb, crashes, slots, absent, seen, age, over, picked, faults>>

(* A running generation refreshes its liveness key in time; one that       *)
(* cannot ends itself first (ConsumerLivenessExpired).                     *)
Tick ==
    /\ \A c \in Consumers : seen[c] # NoRow => age[c] < MaxStall
    /\ idle' = IF entry = "pending" THEN Least(idle + 1, Backstop) ELSE idle
    /\ leaseLeft' = Dec(leaseLeft)
    /\ lease' = IF leaseLeft <= 1 THEN None ELSE lease
    /\ alive' = [c \in Consumers |-> IF up[c] THEN AliveTTL ELSE Dec(alive[c])]
    /\ absent' = [c \in Consumers |-> [p \in Consumers |->
                     IF absent[c][p] = 0 THEN 0 ELSE Least(absent[c][p] + 1, AliveTTL + 1)]]
    /\ age' = [c \in Consumers |-> IF seen[c] = NoRow THEN 0 ELSE age[c] + 1]
    /\ UNCHANGED <<entry, owner, count, state, buried, arb, up, crashes, slots,
                   loop, stage, step, peer, seen, over, picked, faults>>

-----------------------------------------------------------------------------
PassStep(c) ==
    \/ Look(c) \/ TakeArbitration(c) \/ Recheck(c)
    \/ Scan(c) \/ CheckLease(c) \/ CheckState(c) \/ Claim(c) \/ Reread(c)
    \/ Bury(c) \/ BuryAck(c) \/ BurySettle(c)
    \/ Dispatch(c)

HandlerStep(c) == Acquire(c) \/ Renew(c) \/ Finish(c) \/ Fail(c)

Next ==
    \/ \E c \in Consumers :
          \/ Read(c) \/ OtherStarts(c) \/ OtherEnds(c)
          \/ HandlerStep(c)
          \/ Begin(c, "maintenance") \/ Begin(c, "prompt")
          \/ PassStep(c)
          \/ ArbitrationExpires(c)
          \/ Fault(c) \/ Crash(c) \/ Restart(c)
    \/ Tick

Spec == Init /\ [][Next]_vars

(* Time passes; calls return; handlers end; the semaphore and the          *)
(* _reclaim_lock serve their waiters in order, hence strong fairness; a    *)
(* supervisor restarts a process; a TTL runs out.                          *)
Fairness ==
    /\ SF_vars(Tick)
    /\ \A c \in Consumers :
          /\ SF_vars(Begin(c, "maintenance")) /\ WF_vars(PassStep(c))
          /\ WF_vars(OtherEnds(c)) /\ SF_vars(Acquire(c))
          /\ WF_vars(Finish(c) \/ Fail(c))
          /\ WF_vars(Restart(c)) /\ WF_vars(ArbitrationExpires(c))

FairSpec == Spec /\ Fairness

-----------------------------------------------------------------------------
(* A compare-and-claim never takes a row beyond its last delivery, however *)
(* the passes of the replicas interleave: the count it was judged on is    *)
(* still the row's count (_claim_pending_page).                            *)
ClaimsWithinCap ==
    [][\A c \in Consumers :
          step[c] = "claim" /\ step'[c] = "reread" /\ stage[c] # "auto"
             => count' <= MaxDelivery]_vars

(* A transfer from a peer proven dead never takes a row that its owner, or *)
(* a restarted owner, has a handler or a waiting dispatch for              *)
(* (_select_dead_consumer_entries against _recover_local_pending_once).    *)
TransferOnlyFromDead ==
    [][\A c \in Consumers :
          step[c] = "claim" /\ step'[c] = "reread" /\ stage[c] = "dead"
             => owner = peer[c] /\ ~working[owner] /\ waiting[owner] = {}]_vars

(* Nobody is going to handle the row: it has no lease, and its owner has   *)
(* neither a handler nor a dispatch for it.                                *)
Orphan ==
    /\ entry = "pending" /\ lease = None
    /\ ~working[owner] /\ waiting[owner] = {}

(* Whatever crashed, raced or failed, an orphaned row is taken up or       *)
(* buried: no row is stranded in the pending list (_reclaim_once).         *)
OrphanRecovered == Orphan ~> ~Orphan
=============================================================================
