----------------------------- MODULE ThreadLock -----------------------------
(***************************************************************************)
(* The per-thread lock of threadlock.py: SET NX PX with a token that names  *)
(* its owner, renewal and release by compare-and-set scripts, and the       *)
(* stealing of a crashed owner's lock (#2500), for ONE thread key.          *)
(*                                                                         *)
(* A task is one hold() of the key in a worker process.  Tasks of Opaque    *)
(* use the pressure lock of the same process, whose tokens carry no owner.  *)
(* A process publishes a liveness key; when it cannot, it cancels its tasks *)
(* within Drain (_run_consumer_generation), and a process may crash.        *)
(*                                                                         *)
(* A call that raises may have been executed, may be executed later (late), *)
(* or never.                                                               *)
(***************************************************************************)
EXTENDS Integers, FiniteSets

CONSTANTS
    Owners,         \* consumer names, one process each
    Tasks,          \* holders and would-be holders of the key
    Home,           \* Home[k]: the process of task k
    Opaque,         \* tasks of the pressure lock (owner=None)
    None,           \* no owner
    LockTTL,        \* lock_ttl_ms
    MaxBody,        \* worst-case critical section (claim_timeout)
    MaxReply,       \* the reply of a successful SET or steal takes at most this
    MaxDelay,       \* a call that raised is executed within this or never
    Wait,           \* acquire_timeout_s
    Proof,          \* dead_owner_proof_s
    AliveTTL,       \* heartbeat_ttl_ms of the consumer liveness key
    Drain,          \* a generation that lost its liveness ends its tasks in this
    MaxToken,       \* bound: acquisitions
    MaxBoot,        \* bound: process restarts of one owner
    MaxFault        \* bound: calls that raise, and generations that end

(* A generation is torn down within the proof of death. *)
ASSUME LockAssumption ==
    /\ Home \in [Tasks -> Owners]
    /\ Opaque \subseteq Tasks
    /\ None \notin Owners
    /\ LockTTL \in Nat /\ MaxBody \in Nat /\ MaxReply \in Nat
    /\ MaxDelay \in Nat /\ MaxDelay < LockTTL
    /\ Wait \in Nat /\ Proof \in Nat /\ Drain \in Nat
    /\ Drain < Proof
    /\ AliveTTL \in Nat \ {0}
    /\ MaxToken \in Nat /\ MaxBoot \in Nat /\ MaxFault \in Nat

VARIABLES
    key,        \* value of the lock key
    keyLeft,    \* its remaining life
    alive,      \* remaining life of each liveness key
    life,       \* processes: "up", "draining" or "down"
    drainLeft,  \* what is left of the teardown
    boot,       \* boot id of each process
    held,       \* _held_tokens of each process
    minted,     \* nonces drawn
    pc,         \* tasks: where acquire or hold is
    tok,        \* tasks: the token
    seen,       \* tasks: the value _try_steal read
    left,       \* tasks: until the acquire deadline; in the body, its end
    proof,      \* tasks: what is left of the sleep, or of the reply
    lost,       \* tasks: LockLease._lost
    alone,      \* tasks: nobody else has won the key since the task won it
    late,       \* calls that raised and may still be executed
    faults

lock == <<key, keyLeft>>
fleet == <<alive, life, drainLeft, boot>>
holds == <<pc, tok, seen, left, proof, lost, alone>>
vars == <<lock, fleet, held, minted, holds, late, faults>>

Phases == {"idle", "set", "get", "check", "sleep", "again", "recheck", "steal", "poll",
           "won", "body", "fenced", "release"}
Inside == {"won", "body"}

(* A token names its owner and boot, or neither (a bare nonce). *)
Token == [owner : Owners \cup {None}, boot : 0..MaxBoot, nonce : 1..MaxToken]
NoToken == [owner |-> None, boot |-> 0, nonce |-> 0]
Value == Token \cup {NoToken}
Call == [kind : {"set", "steal", "renew", "release"}, tok : Value, expect : Value,
         age : 0..MaxDelay]

TypeOK ==
    /\ key \in Value
    /\ keyLeft \in 0..LockTTL
    /\ alive \in [Owners -> 0..AliveTTL]
    /\ life \in [Owners -> {"up", "draining", "down"}]
    /\ drainLeft \in [Owners -> 0..Drain]
    /\ boot \in [Owners -> 0..MaxBoot]
    /\ held \in [Owners -> SUBSET Token]
    /\ minted \in 0..MaxToken
    /\ pc \in [Tasks -> Phases]
    /\ tok \in [Tasks -> Value]
    /\ seen \in [Tasks -> Value]
    /\ left \in [Tasks -> Nat]
    /\ proof \in [Tasks -> Nat]
    /\ lost \in [Tasks -> BOOLEAN]
    /\ alone \in [Tasks -> BOOLEAN]
    /\ late \subseteq Call
    /\ faults \in 0..MaxFault

Init ==
    /\ key = NoToken /\ keyLeft = 0
    /\ alive = [c \in Owners |-> AliveTTL]
    /\ life = [c \in Owners |-> "up"]
    /\ drainLeft = [c \in Owners |-> 0]
    /\ boot = [c \in Owners |-> 0]
    /\ held = [c \in Owners |-> {}]
    /\ minted = 0
    /\ pc = [k \in Tasks |-> "idle"]
    /\ tok = [k \in Tasks |-> NoToken]
    /\ seen = [k \in Tasks |-> NoToken]
    /\ left = [k \in Tasks |-> 0]
    /\ proof = [k \in Tasks |-> 0]
    /\ lost = [k \in Tasks |-> FALSE]
    /\ alone = [k \in Tasks |-> FALSE]
    /\ late = {} /\ faults = 0

Dec(n) == IF n > 0 THEN n - 1 ELSE 0

-----------------------------------------------------------------------------
(* The scripts.                                                            *)

Put(t) == key' = t /\ keyLeft' = LockTTL
SetNX(t) == IF key = NoToken THEN Put(t) ELSE UNCHANGED lock
StealScript(x, t) == IF key = x THEN Put(t) ELSE UNCHANGED lock

(* Mutant: the renewal writes the token whoever holds the key. *)
RenewScriptSets(t) == Put(t)

(* Mutant: the renewal adds to the remaining life. *)
RenewScriptAdds(t) ==
    IF key = t THEN keyLeft' = keyLeft + LockTTL /\ UNCHANGED key ELSE UNCHANGED lock

RenewScript(t) == IF key = t THEN keyLeft' = LockTTL /\ UNCHANGED key ELSE UNCHANGED lock
ReleaseScript(t) == IF key = t THEN key' = NoToken /\ keyLeft' = 0 ELSE UNCHANGED lock

Execute(m) ==
    CASE m.kind = "set" -> SetNX(m.tok)
      [] m.kind = "steal" -> StealScript(m.expect, m.tok)
      [] m.kind = "renew" -> RenewScript(m.tok)
      [] m.kind = "release" -> ReleaseScript(m.tok)

Request(kind, t, x) == [kind |-> kind, tok |-> t, expect |-> x, age |-> 0]

(* A call that raises: executed, still on its way, or lost. *)
Raises(m) ==
    /\ faults < MaxFault
    /\ faults' = faults + 1
    /\ \/ Execute(m) /\ UNCHANGED late
       \/ UNCHANGED lock /\ late' = late \cup {m}
       \/ UNCHANGED <<lock, late>>

Arrive(m) ==
    /\ m \in late
    /\ Execute(m)
    /\ late' = late \ {m}
    /\ UNCHANGED <<fleet, held, minted, holds, faults>>

-----------------------------------------------------------------------------
(* ThreadLock.acquire                                                      *)

Goto(k, phase) == pc' = [pc EXCEPT ![k] = phase]

(* _lock_token; the token is registered before the first SET NX. *)
NewToken(k) ==
    [owner |-> IF k \in Opaque THEN None ELSE Home[k],
     boot  |-> IF k \in Opaque THEN 0 ELSE boot[Home[k]],
     nonce |-> minted + 1]

Start(k) ==
    /\ pc[k] = "idle" /\ life[Home[k]] = "up"
    /\ minted < MaxToken
    /\ minted' = minted + 1
    /\ tok' = [tok EXCEPT ![k] = NewToken(k)]
    /\ held' = [held EXCEPT ![Home[k]] = @ \cup {NewToken(k)}]
    /\ left' = [left EXCEPT ![k] = Wait]
    /\ Goto(k, "set")
    /\ UNCHANGED <<lock, fleet, seen, proof, lost, alone, late, faults>>

(* The key is this task's; the reply is under way. *)
Win(k) ==
    /\ Put(tok[k])
    /\ Goto(k, "won")
    /\ proof' = [proof EXCEPT ![k] = MaxReply]
    /\ alone' = [j \in Tasks |-> j = k]

TrySet(k) ==
    /\ pc[k] = "set"
    /\ IF key = NoToken THEN Win(k) ELSE Goto(k, "get") /\ UNCHANGED <<lock, proof, alone>>
    /\ UNCHANGED <<fleet, held, minted, tok, seen, left, lost, late, faults>>

(* The reply of SET is lost and the client library sends it again, whether *)
(* the first has been executed, will be, or is lost.  The task may find the *)
(* lock held by its own token.  The pressure lock's client never repeats.  *)
SetRepeated(k) ==
    /\ pc[k] = "set" /\ k \notin Opaque
    /\ Raises(Request("set", tok[k], NoToken))
    /\ UNCHANGED <<fleet, held, minted, holds>>

(* The finally of acquire and of release. *)
Discard(k) ==
    /\ held' = [held EXCEPT ![Home[k]] = @ \ {tok[k]}]
    /\ tok' = [tok EXCEPT ![k] = NoToken]
    /\ seen' = [seen EXCEPT ![k] = NoToken]
    /\ left' = [left EXCEPT ![k] = 0]
    /\ proof' = [proof EXCEPT ![k] = 0]
    /\ lost' = [lost EXCEPT ![k] = FALSE]
    /\ Goto(k, "idle")

(* SET or the steal raises, or the task is cancelled while it is under way. *)
AcquireRaises(k) ==
    /\ \/ pc[k] = "set" /\ Raises(Request("set", tok[k], NoToken))
       \/ pc[k] = "steal" /\ Raises(Request("steal", tok[k], seen[k]))
    /\ Discard(k)
    /\ UNCHANGED <<fleet, minted, alone>>

(* A held value that _try_steal goes on with: it names an owner, is not    *)
(* registered here, and is not of this very incarnation.  The pressure     *)
(* lock has neither a name nor a liveness view, and steals nothing.        *)
Stealable(k, t) ==
    /\ k \notin Opaque
    /\ t \notin held[Home[k]]
    /\ t.owner # None
    /\ ~(t.owner = Home[k] /\ t.boot = boot[Home[k]])

(* A leftover of an earlier boot of this name is taken at once. *)
Get(k) ==
    /\ pc[k] = "get"
    /\ IF Stealable(k, key)
         THEN /\ seen' = [seen EXCEPT ![k] = key]
              /\ Goto(k, IF key.owner = Home[k] THEN "steal" ELSE "check")
         ELSE Goto(k, "poll") /\ UNCHANGED seen
    /\ UNCHANGED <<lock, fleet, held, minted, tok, left, proof, lost, alone, late, faults>>

(* Mutant: one observation is enough. *)
CheckOnce(k) ==
    /\ pc[k] = "check"
    /\ \/ alive[seen[k].owner] = 0 /\ Goto(k, "steal")
       \/ Goto(k, "poll")
    /\ UNCHANGED <<lock, fleet, held, minted, tok, seen, left, proof, lost, alone, late, faults>>

(* The owner's liveness key is absent, and the deadline leaves time for the *)
(* proof.  An unreadable or incapable owner is left alone.                 *)
Check(k) ==
    /\ pc[k] = "check"
    /\ \/ /\ alive[seen[k].owner] = 0 /\ left[k] > Proof
          /\ proof' = [proof EXCEPT ![k] = Proof]
          /\ Goto(k, "sleep")
       \/ Goto(k, "poll") /\ UNCHANGED proof
    /\ UNCHANGED <<lock, fleet, held, minted, tok, seen, left, lost, alone, late, faults>>

(* After the sleep the value must be the same. *)
GetAgain(k) ==
    /\ pc[k] = "sleep" /\ proof[k] = 0
    /\ Goto(k, IF left[k] > 0 /\ key = seen[k] THEN "recheck" ELSE "poll")
    /\ UNCHANGED <<lock, fleet, held, minted, tok, seen, left, proof, lost, alone, late, faults>>

Recheck(k) ==
    /\ pc[k] = "recheck"
    /\ \/ alive[seen[k].owner] = 0 /\ Goto(k, "steal")
       \/ Goto(k, "poll")
    /\ UNCHANGED <<lock, fleet, held, minted, tok, seen, left, proof, lost, alone, late, faults>>

CasSteal(k) ==
    /\ pc[k] = "steal"
    /\ IF key = seen[k] THEN Win(k) ELSE Goto(k, "poll") /\ UNCHANGED <<lock, proof, alone>>
    /\ UNCHANGED <<fleet, held, minted, tok, seen, left, lost, late, faults>>

(* The deadline is looked at before the next attempt. *)
Poll(k) ==
    /\ pc[k] = "poll"
    /\ IF left[k] = 0 THEN Discard(k)
         ELSE /\ Goto(k, "set")
              /\ seen' = [seen EXCEPT ![k] = NoToken]
              /\ UNCHANGED <<held, tok, left, proof, lost>>
    /\ UNCHANGED <<lock, fleet, minted, alone, late, faults>>

-----------------------------------------------------------------------------
(* ThreadLock.hold                                                         *)

Enter(k) ==
    /\ pc[k] = "won"
    /\ Goto(k, "body")
    /\ left' = [left EXCEPT ![k] = MaxBody]
    /\ proof' = [proof EXCEPT ![k] = 0]
    /\ seen' = [seen EXCEPT ![k] = NoToken]
    /\ UNCHANGED <<lock, fleet, held, minted, tok, lost, alone, late, faults>>

SetLost(k, gone) == lost' = [lost EXCEPT ![k] = gone]

(* _renew_until_lost: one refusal or one failure ends it. *)
Renew(k) ==
    /\ pc[k] = "body" /\ ~lost[k]
    /\ \/ /\ RenewScript(tok[k])
          /\ SetLost(k, key # tok[k])
          /\ UNCHANGED <<late, faults>>
       \/ /\ Raises(Request("renew", tok[k], NoToken))
          /\ SetLost(k, TRUE)
    /\ UNCHANGED <<fleet, held, minted, pc, tok, seen, left, proof, alone>>

(* ensure_owned inside the body: what follows it is fenced; a loss raises. *)
EnsureOwned(k) ==
    /\ pc[k] = "body"
    /\ \/ /\ ~lost[k] /\ RenewScript(tok[k])
          /\ SetLost(k, key # tok[k])
          /\ Goto(k, IF key = tok[k] THEN "body" ELSE "release")
          /\ UNCHANGED <<late, faults>>
       \/ /\ ~lost[k] /\ Raises(Request("renew", tok[k], NoToken))
          /\ SetLost(k, TRUE) /\ Goto(k, "release")
       \/ /\ lost[k] /\ Goto(k, "release")
          /\ UNCHANGED <<lock, lost, late, faults>>
    /\ UNCHANGED <<fleet, held, minted, tok, seen, left, proof, alone>>

(* The body returned: hold fences it once more before it reports success. *)
Return(k) ==
    /\ pc[k] = "body" /\ ~lost[k]
    /\ RenewScript(tok[k])
    /\ SetLost(k, key # tok[k])
    /\ Goto(k, IF key = tok[k] THEN "fenced" ELSE "release")
    /\ UNCHANGED <<fleet, held, minted, tok, seen, left, proof, alone, late, faults>>

(* The body raised, was cancelled, or returned with the lease lost. *)
Raise(k) ==
    /\ pc[k] = "body"
    /\ Goto(k, "release")
    /\ UNCHANGED <<lock, fleet, held, minted, tok, seen, left, proof, lost, alone, late, faults>>

Release(k) ==
    /\ pc[k] \in {"fenced", "release"}
    /\ \/ ReleaseScript(tok[k]) /\ UNCHANGED <<late, faults>>
       \/ Raises(Request("release", tok[k], NoToken))
    /\ Discard(k)
    /\ UNCHANGED <<fleet, minted, alone>>

-----------------------------------------------------------------------------
(* Processes.                                                              *)

Busy(c) == \E k \in Tasks : Home[k] = c /\ pc[k] # "idle"

(* The liveness key cannot be renewed, or is refused: the generation ends. *)
LivenessExpires(c) ==
    /\ life[c] = "up"
    /\ faults < MaxFault /\ faults' = faults + 1
    /\ life' = [life EXCEPT ![c] = "draining"]
    /\ drainLeft' = [drainLeft EXCEPT ![c] = Drain]
    /\ \E n \in {0, alive[c]} : alive' = [alive EXCEPT ![c] = n]
    /\ UNCHANGED <<lock, boot, held, minted, holds, late>>

(* A task is cancelled before hold has the token: nothing is released.  Its *)
(* generation is draining, or a timeout around hold has run out.           *)
Cancel(k) ==
    /\ pc[k] \notin {"idle", "body", "fenced", "release"}
    /\ Discard(k)
    /\ UNCHANGED <<lock, fleet, minted, alone, late, faults>>

(* All tasks are joined; _cleanup_alive is best effort. *)
Drained(c) ==
    /\ life[c] = "draining" /\ ~Busy(c)
    /\ life' = [life EXCEPT ![c] = "down"]
    /\ drainLeft' = [drainLeft EXCEPT ![c] = 0]
    /\ \E n \in {0, alive[c]} : alive' = [alive EXCEPT ![c] = n]
    /\ UNCHANGED <<lock, boot, held, minted, holds, late, faults>>

(* The process is killed; the next one has another boot id. *)
Crash(c) ==
    LET mine == {k \in Tasks : Home[k] = c}
    IN  /\ life[c] # "down" /\ boot[c] < MaxBoot
        /\ life' = [life EXCEPT ![c] = "down"]
        /\ drainLeft' = [drainLeft EXCEPT ![c] = 0]
        /\ boot' = [boot EXCEPT ![c] = @ + 1]
        /\ held' = [held EXCEPT ![c] = {}]
        /\ pc' = [k \in Tasks |-> IF k \in mine THEN "idle" ELSE pc[k]]
        /\ tok' = [k \in Tasks |-> IF k \in mine THEN NoToken ELSE tok[k]]
        /\ seen' = [k \in Tasks |-> IF k \in mine THEN NoToken ELSE seen[k]]
        /\ left' = [k \in Tasks |-> IF k \in mine THEN 0 ELSE left[k]]
        /\ proof' = [k \in Tasks |-> IF k \in mine THEN 0 ELSE proof[k]]
        /\ lost' = [k \in Tasks |-> k \notin mine /\ lost[k]]
        /\ UNCHANGED <<lock, alive, minted, alone, late, faults>>

Restart(c) ==
    /\ life[c] = "down"
    /\ life' = [life EXCEPT ![c] = "up"]
    /\ alive' = [alive EXCEPT ![c] = AliveTTL]
    /\ UNCHANGED <<lock, drainLeft, boot, held, minted, holds, late, faults>>

(* Time passes, unless a critical section, a reply, a late call or a       *)
(* teardown would take longer than it may.                                 *)
Tick ==
    /\ \A k \in Tasks : pc[k] = "body" => left[k] > 0
    /\ \A k \in Tasks : pc[k] = "won" => proof[k] > 0
    /\ \A c \in Owners : life[c] = "draining" /\ Busy(c) => drainLeft[c] > 0
    /\ \A m \in late : m.age < MaxDelay
    /\ keyLeft' = Dec(keyLeft)
    /\ key' = IF keyLeft <= 1 THEN NoToken ELSE key
    /\ alive' = [c \in Owners |-> IF life[c] = "up" THEN AliveTTL ELSE Dec(alive[c])]
    /\ drainLeft' = [c \in Owners |-> Dec(drainLeft[c])]
    /\ left' = [k \in Tasks |-> Dec(left[k])]
    /\ proof' = [k \in Tasks |-> Dec(proof[k])]
    /\ late' = {[m EXCEPT !.age = @ + 1] : m \in late}
    /\ UNCHANGED <<life, boot, held, minted, pc, tok, seen, lost, alone, faults>>

-----------------------------------------------------------------------------
(* "The TTL must exceed the worst-case critical section" (WorkerConfig,    *)
(* lock_ttl_ms); nothing in the code enforces it.  Since: the key was won  *)
(* at most this long ago.  Overdue: a whole TTL may have passed since.     *)
Since(k) ==
    IF pc[k] = "won" THEN MaxReply - proof[k] ELSE MaxReply + (MaxBody - left[k])

Overdue(k) == pc[k] \in Inside /\ Since(k) >= LockTTL

AcquireStep(k) ==
    \/ TrySet(k) \/ SetRepeated(k) \/ AcquireRaises(k)
    \/ Get(k) \/ Check(k) \/ GetAgain(k) \/ Recheck(k) \/ CasSteal(k) \/ Poll(k)
    \/ Cancel(k)

HoldStep(k) ==
    \/ Enter(k) \/ Renew(k) \/ EnsureOwned(k)
    \/ Return(k) \/ Raise(k) \/ Release(k)

Next ==
    \/ \E k \in Tasks : Start(k) \/ AcquireStep(k) \/ HoldStep(k)
    \/ \E m \in late : Arrive(m)
    \/ \E c \in Owners : LivenessExpires(c) \/ Drained(c) \/ Crash(c) \/ Restart(c)
    \/ Tick

Spec == Init /\ [][Next]_vars

-----------------------------------------------------------------------------
(* One live session per thread: two tasks are inside the critical section  *)
(* of the thread at once, in one process or in two, only when one of them  *)
(* has been inside for a whole TTL, whoever crashed, was proved dead or was *)
(* torn down (ThreadLock.hold).                                            *)
OneInside ==
    \A j, k \in Tasks : pc[j] \in Inside /\ pc[k] \in Inside =>
        j = k \/ Overdue(j) \/ Overdue(k)

(* A body that finds its token in the key was never displaced, however     *)
(* long it took: whatever passes ensure_owned, hold's successful return    *)
(* included, has had the thread to itself since it entered.                *)
TokenMeansAlone ==
    \A k \in Tasks : pc[k] = "body" /\ key = tok[k] => alone[k]
=============================================================================
