---------------------------- MODULE CapacityWait ----------------------------
(***************************************************************************)
(* The durable capacity wait of ONE event (capacity_wait.py), the runs      *)
(* consumer's handler around it (consumer.py), the admission of a woken     *)
(* turn by the runner (kernel/claim.py, kernel/work_items.py) and the       *)
(* event-level claim of an approval resume (delivery_lease.py).             *)
(*                                                                         *)
(* A turn that finds no sandbox is parked: its entry is acknowledged and a  *)
(* record keeps the event until a wake appends a copy of it.  One deadline  *)
(* bounds the wait.  The producer may append an approval resume twice, so   *)
(* several entries of the event can be pending at the same time.            *)
(*                                                                         *)
(* The lease of a delivery is what DeliveryLease shows it to be: the holder *)
(* notices the loss before the key is gone (raise_if_lost), a call that is  *)
(* already on its way may still be executed.  A handler step is one call,   *)
(* with the checks that its caller makes on the reply.                      *)
(***************************************************************************)
EXTENDS Integers, Sequences, FiniteSets

CONSTANTS
    Handlers,       \* handler slots, each of a consumer of its own
    None,           \* no handler
    Budget,         \* capacity_wait_budget_s
    Retry,          \* _PARK_RETRY_MS
    MaxDelivery,    \* max_delivery
    MaxEpoch,       \* bound: turns opened on the runner under the wait
    MaxEntry,       \* bound: entries of the event on the stream
    MaxFault        \* bound: crashes, lost leases, replies, runners and sends

ASSUME WaitAssumption ==
    /\ None \notin Handlers
    /\ Retry \in Nat \ {0} /\ Budget \in Nat /\ Retry <= Budget
    /\ MaxDelivery \in Nat \ {0} /\ MaxEpoch \in Nat
    /\ MaxEntry \in Nat /\ MaxEntry >= 2 /\ MaxFault \in Nat

VARIABLES
    resume,     \* the event is an approval resume (its id says so)
    stream,     \* its entries, in stream order, with their pending rows
    rec,        \* the capacity-wait record
    left,       \* until deadline_ms
    due,        \* until due_ms; the due index has the event while it waits
    fly,        \* until its score in the flight index, -1: not in it
    claim,      \* entry that holds the approval resume claim, 0: none
    hs,         \* the handlers
    adm,        \* the runner: admission result of each turn epoch
    note,       \* the notice loop: what it is sending, and at which step
    lock,       \* the notice lock exists
    done,       \* done marker, and how the event was settled
    started,    \* history: epochs that the runner granted
    told,       \* history: what the expiry reply said
    shown,      \* history: the last text placed in the thread
    faults      \* bound

qVars == <<stream, claim>>
tVars == <<left, due, fly>>
nVars == <<note, lock>>
xVars == <<started, told, shown>>
vars == <<resume, qVars, rec, tVars, hs, adm, nVars, done, xVars, faults>>

Epochs == 1 .. MaxEpoch
Causes == {"", "capacity_wait_expired", "delivery_exhausted", "grant_unknown"}
Running == {"adopt", "run", "grant", "admit", "resolve", "confirm", "turn", "park"}
Steps == Running \cup {"idle", "claim", "prepare", "check", "claimWake",
                       "expire", "reconfirm", "unknown", "flag", "stop", "reply",
                       "complete", "get", "mark", "noted", "ack"}

NoRecord == [state |-> "none", gen |-> 0, wake |-> 0, cause |-> "", epoch |-> 0,
             confirmed |-> FALSE, unknown |-> FALSE, ever |-> FALSE,
             terminalOnly |-> FALSE, notice |-> FALSE, expiry |-> FALSE]
Idle == [pc |-> "idle", e |-> 0, gen |-> 0, epoch |-> 0,
         cause |-> "", state |-> "none", replied |-> FALSE]
NoNote == [pc |-> "off", kind |-> "queued", gen |-> 0]
Entry(gen, terminalOnly) ==
    [gen |-> gen, terminalOnly |-> terminalOnly, row |-> "unread",
     delivered |-> 0, lease |-> None]

MaxGen == 2 * MaxEntry
States == {"none", "waiting", "woken", "active", "expired", "done"}

TypeOK ==
    /\ resume \in BOOLEAN
    /\ Len(stream) <= MaxEntry
    /\ \A e \in DOMAIN stream :
         stream[e] \in [gen : 0 .. MaxGen, terminalOnly : BOOLEAN,
                        row : {"unread", "pending", "acked"},
                        delivered : 0 .. MaxDelivery, lease : Handlers \cup {None}]
    /\ rec \in [state : States, gen : 0 .. MaxGen, wake : 0 .. MaxEntry,
                cause : Causes, epoch : Epochs \cup {0}, confirmed : BOOLEAN,
                unknown : BOOLEAN, ever : BOOLEAN, terminalOnly : BOOLEAN,
                notice : BOOLEAN, expiry : BOOLEAN]
    /\ left \in 0 .. Budget /\ due \in 0 .. Retry /\ fly \in -1 .. Budget
    /\ claim \in 0 .. MaxEntry
    /\ hs \in [Handlers -> [pc : Steps, e : 0 .. MaxEntry, gen : 0 .. MaxGen,
                            epoch : Epochs \cup {0}, cause : Causes,
                            state : States, replied : BOOLEAN]]
    /\ adm \in [Epochs -> {"none", "pending", "granted", "denied", "unknown"}]
    /\ note \in [pc : {"off", "check", "send", "finish", "failed"},
                 kind : {"queued", "expiry"}, gen : 0 .. MaxGen]
    /\ lock \in BOOLEAN
    /\ done \in {"none", "answer", "expiry"}
    /\ started \subseteq Epochs
    /\ told \in Causes
    /\ shown \in {"none", "queued", "answer", "expiry"}
    /\ faults \in 0 .. MaxFault

Init ==
    /\ resume \in BOOLEAN
    /\ stream = IF resume THEN <<Entry(0, FALSE), Entry(0, FALSE)>>
                          ELSE <<Entry(0, FALSE)>>
    /\ rec = NoRecord
    /\ left = Budget /\ due = 0 /\ fly = -1
    /\ claim = 0
    /\ hs = [h \in Handlers |-> Idle]
    /\ adm = [n \in Epochs |-> "none"]
    /\ note = NoNote /\ lock = FALSE
    /\ done = "none"
    /\ started = {} /\ told = "" /\ shown = "none"
    /\ faults = 0

Fault == faults < MaxFault /\ faults' = faults + 1

(***************************************************************************)
(* The handler and its lease.                                              *)
(***************************************************************************)
Mine(h) == stream[hs[h].e]
Lost(h) == Mine(h).lease # h

(* The body of _handle ends and releases the lease and, with it, the resume *)
(* claim (_RELEASE_LUA).  q is the stream after the handler's last call.    *)
End(h, q) ==
    LET e == hs[h].e IN
    /\ hs' = [hs EXCEPT ![h] = Idle]
    /\ stream' = IF Lost(h) THEN q ELSE [q EXCEPT ![e].lease = None]
    /\ claim' = IF claim = e /\ ~Lost(h) THEN 0 ELSE claim

Drop(h) == End(h, stream)
Go(h, step) == hs' = [hs EXCEPT ![h].pc = step] /\ UNCHANGED qVars

(* The next call is behind raise_if_lost. *)
Held(h, step) == IF Lost(h) THEN Drop(h) ELSE Go(h, step)

(* A delivery is given to h: it is read, or a pending row that nobody leases *)
(* is reclaimed.  Entries with a wait generation are checked against the    *)
(* wait first; an approval resume without one claims the event first.       *)
Deliver(h, e) ==
    /\ stream' = [stream EXCEPT ![e].row = "pending", ![e].lease = h,
                                ![e].delivered = @ + 1]
    /\ hs' = [hs EXCEPT ![h] = [Idle EXCEPT
                !.e = e, !.gen = stream[e].gen,
                !.pc = IF stream[e].gen # 0 THEN "check"
                       ELSE IF resume THEN "claim" ELSE "run"]]
    /\ UNCHANGED <<resume, rec, tVars, claim, adm, nVars, done, xVars, faults>>

Read(h) ==
    /\ hs[h].pc = "idle"
    /\ \E e \in DOMAIN stream :
         /\ stream[e].row = "unread"
         /\ \A d \in 1 .. e - 1 : stream[d].row # "unread"
         /\ Deliver(h, e)

(* Mutant: off by one. *)
WithinCapOnce(e) == stream[e].delivered <= MaxDelivery

WithinCap(e) == stream[e].delivered < MaxDelivery

Reclaim(h) ==
    /\ hs[h].pc = "idle"
    /\ \E e \in DOMAIN stream :
         /\ stream[e].row = "pending" /\ stream[e].lease = None
         /\ WithinCap(e) /\ Deliver(h, e)

(* Maintenance dead-letters a row that has used up its deliveries. *)
DeadLetter ==
    /\ \E e \in DOMAIN stream :
         /\ stream[e].row = "pending" /\ stream[e].lease = None
         /\ ~WithinCap(e)
         /\ stream' = [stream EXCEPT ![e].row = "acked"]
    /\ UNCHANGED <<resume, rec, tVars, claim, hs, adm, nVars, done, xVars, faults>>

(* A lease ends with the claim that its owner took.  Heartbeats fail, or    *)
(* the process dies and its key runs out.                                  *)
Expire(e) ==
    /\ stream' = [stream EXCEPT ![e].lease = None]
    /\ claim' = IF claim = e THEN 0 ELSE claim

LoseLease(h) ==
    /\ hs[h].pc # "idle" /\ ~Lost(h) /\ Fault
    /\ Expire(hs[h].e)
    /\ UNCHANGED <<resume, rec, tVars, hs, adm, nVars, done, xVars>>

Crash(h) ==
    /\ hs[h].pc # "idle" /\ Fault
    /\ hs' = [hs EXCEPT ![h] = Idle]
    /\ UNCHANGED <<resume, qVars, rec, tVars, adm, nVars, done, xVars>>

LeaseExpires ==
    /\ \E e \in DOMAIN stream, h \in Handlers :
         stream[e].lease = h /\ hs[h].e # e /\ Expire(e)
    /\ UNCHANGED <<resume, rec, tVars, hs, adm, nVars, done, xVars, faults>>

(***************************************************************************)
(* Which of several copies is worked on.                                   *)
(***************************************************************************)

(* Mutant: the holder of the claim is not looked up. *)
ClaimedNever(e) == FALSE

(* _CLAIM_RESUME_LUA: another entry holds the claim under a live lease, and *)
(* is still pending.                                                       *)
Claimed(e) == claim \notin {0, e} /\ stream[claim].row = "pending"

(* claim_resume: before anything else for an entry of the producer, after   *)
(* the check of the wait for a copy that a wake appended.  A producer's     *)
(* entry that finds the claim held is a duplicate and is acknowledged.      *)
ClaimResume(h) ==
    LET e == hs[h].e IN
    /\ hs[h].pc \in {"claim", "claimWake"}
    /\ IF Lost(h) \/ (Claimed(e) /\ hs[h].pc = "claimWake")
         THEN Drop(h)
         ELSE IF Claimed(e)
         THEN Go(h, "ack")
         ELSE /\ claim' = e
              /\ hs' = [hs EXCEPT ![h].pc = IF @ = "claim" THEN "prepare" ELSE "run"]
              /\ UNCHANGED stream
    /\ UNCHANGED <<resume, rec, tVars, adm, nVars, done, xVars, faults>>

(* _PREPARE_RESUME_LUA: the wait still has the event, or the entry it woke   *)
(* is on the stream.  Otherwise the wake was lost and h adopts the wait.    *)
Retained(e) ==
    \/ rec.state = "waiting"
    \/ rec.wake # 0 /\ (rec.wake = e \/ stream[rec.wake].row # "acked")

Adopted(e) ==
    IF Retained(e) THEN rec ELSE [rec EXCEPT !.gen = @ + 1, !.wake = e]

PrepareResume(h) ==
    LET e == hs[h].e IN
    /\ hs[h].pc = "prepare"
    /\ \/ Lost(h) /\ Drop(h) /\ UNCHANGED rec
       \/ /\ ~Lost(h)
          /\ done # "none" \/ rec.state \notin {"waiting", "woken", "active"}
          /\ Go(h, "run") /\ UNCHANGED rec
       \/ /\ ~Lost(h)
          /\ done = "none" /\ rec.state \in {"waiting", "woken", "active"}
          /\ rec' = Adopted(e)
          /\ IF rec'.wake # e
               THEN Go(h, "ack")
               ELSE /\ hs' = [hs EXCEPT ![h].pc = "check", ![h].gen = rec'.gen]
                    /\ UNCHANGED qVars
    /\ UNCHANGED <<resume, tVars, adm, nVars, done, xVars, faults>>

(* check_delivery *)
CheckDelivery(gen) ==
    IF rec.gen # gen \/ rec.state \notin {"woken", "active"} THEN "stale"
    ELSE IF rec.state = "active" /\ rec.confirmed THEN "ready"
    ELSE IF left = 0 THEN "expired"
    ELSE IF rec.state = "active" THEN "pending"
    ELSE "ready"

(***************************************************************************)
(* The runner stops exactly this epoch and tells what it decided about it    *)
(* (_quiesce_capacity_epoch); a turn that waits for admission is denied.    *)
(***************************************************************************)
(* Mutant: the decision is read, the epoch is not stopped. *)
DecisionAsRead(n) == adm[n]

Decision(n) == IF adm[n] = "pending" THEN "denied" ELSE adm[n]
Quiesced(n) == IF n = 0 THEN adm ELSE [adm EXCEPT ![n] = Decision(n)]

(* The runner is told to stop the epoch, and may not be reached. *)
StopOrNot(n) ==
    \/ adm' = Quiesced(n) /\ UNCHANGED faults
    \/ UNCHANGED adm /\ Fault

(* An entry with a wait generation, once leased. *)
CheckWait(h) ==
    LET status == CheckDelivery(hs[h].gen) IN
    /\ hs[h].pc = "check"
    /\ IF status = "pending" \/ (status = "ready" /\ Mine(h).terminalOnly)
         THEN Drop(h)
         ELSE IF status = "stale"  THEN Held(h, "ack")
         ELSE IF done # "none"     THEN Go(h, "get")
         ELSE IF status = "expired" THEN Go(h, "expire")
         ELSE IF resume /\ Mine(h).gen # 0 THEN Held(h, "claimWake")
         ELSE Go(h, IF Mine(h).gen = 0 THEN "adopt" ELSE "run")
    /\ UNCHANGED <<resume, rec, tVars, adm, nVars, done, xVars, faults>>

(* A wait that was adopted has its earlier epoch stopped before the turn is  *)
(* processed.                                                              *)
StopAdopted(h) ==
    /\ hs[h].pc = "adopt"
    /\ \/ adm' = Quiesced(rec.epoch) /\ Go(h, "run") /\ UNCHANGED faults
       \/ rec.epoch # 0 /\ Fault /\ Drop(h) /\ UNCHANGED adm
    /\ UNCHANGED <<resume, rec, tVars, nVars, done, xVars>>

(***************************************************************************)
(* process_event.  Without a wait the turn is started directly; under a     *)
(* wait the runner opens it behind an admission gate.                       *)
(***************************************************************************)

(* The event is settled already. *)
SkipDone(h) ==
    /\ hs[h].pc = "run" /\ done # "none"
    /\ Held(h, IF hs[h].gen = 0 THEN "ack" ELSE "get")
    /\ UNCHANGED <<resume, rec, tVars, adm, nVars, done, xVars, faults>>

(* No sandbox, a predecessor in the thread, or a busy runner. *)
NoCapacity(h) ==
    /\ hs[h].pc = "run" /\ done = "none"
    /\ Held(h, "park")
    /\ UNCHANGED <<resume, rec, tVars, adm, nVars, done, xVars, faults>>

(* The turn ends in an error, or its runner is gone; the entry stays        *)
(* pending.                                                                *)
Fail(h) ==
    /\ \/ hs[h].pc \in {"run", "turn"} /\ Fault
       \/ hs[h].pc = "turn" /\ adm[hs[h].epoch] # "granted" /\ UNCHANGED faults
    /\ Drop(h)
    /\ UNCHANGED <<resume, rec, tVars, adm, nVars, done, xVars>>

(* The wait is checked again before and after the sandbox is claimed. *)
WaitOver(h) ==
    LET status == CheckDelivery(hs[h].gen) IN
    /\ hs[h].pc = "run" /\ hs[h].gen # 0 /\ done = "none" /\ status # "ready"
    /\ IF status = "expired" THEN Go(h, "expire") ELSE Drop(h)
    /\ UNCHANGED <<resume, rec, tVars, adm, nVars, done, xVars, faults>>

OpenTurn(h) ==
    /\ hs[h].pc = "run" /\ hs[h].gen # 0 /\ done = "none"
    /\ CheckDelivery(hs[h].gen) = "ready"
    /\ \A n \in Epochs : adm[n] # "pending"
    /\ \E n \in Epochs :
         /\ adm[n] = "none" /\ \A m \in 1 .. n - 1 : adm[m] # "none"
         /\ adm' = [adm EXCEPT ![n] = "pending"]
         /\ hs' = [hs EXCEPT ![h].pc = "grant", ![h].epoch = n]
    /\ UNCHANGED <<resume, qVars, rec, tVars, nVars, done, xVars, faults>>

(* _BEGIN_GRANT_LUA, and the denial that follows its refusal. *)
MayGrant(h) ==
    /\ ~Lost(h) /\ done = "none" /\ rec.gen = hs[h].gen
    /\ \/ rec.state = "woken" /\ left > 0
       \/ rec.state = "active" /\ rec.confirmed

BeginGrant(h) ==
    /\ hs[h].pc = "grant"
    /\ IF MayGrant(h)
         THEN /\ rec' = [rec EXCEPT !.state = "active", !.epoch = hs[h].epoch,
                                    !.confirmed = FALSE, !.unknown = FALSE]
              /\ Held(h, "admit") /\ UNCHANGED <<adm, faults>>
         ELSE /\ StopOrNot(hs[h].epoch)
              /\ IF ~Lost(h) /\ rec.gen = hs[h].gen /\ rec.state = "woken" /\ done = "none"
                   THEN Go(h, "expire") ELSE Drop(h)
              /\ UNCHANGED rec
    /\ UNCHANGED <<resume, tVars, nVars, done, xVars>>

(* admit_turn(allow): the runner accepts only while the gate is open.  The   *)
(* call may fail though it was executed.                                   *)
Admit(h) ==
    LET n == hs[h].epoch IN
    /\ hs[h].pc = "admit"
    /\ \/ /\ adm[n] = "pending" /\ adm' = [adm EXCEPT ![n] = "granted"]
          /\ started' = started \cup {n}
          /\ \/ Held(h, "confirm") /\ UNCHANGED faults
             \/ Go(h, "resolve") /\ Fault
       \/ /\ adm[n] # "pending" /\ Go(h, "resolve")
          /\ UNCHANGED <<adm, started, faults>>
       \/ /\ Go(h, "resolve") /\ Fault
          /\ UNCHANGED <<adm, started>>
    /\ UNCHANGED <<resume, rec, tVars, nVars, done, told, shown>>

(* _CONFIRM_GRANT_LUA and _GRANT_UNKNOWN_LUA. *)
Granting(h) ==
    /\ rec.state = "active" \/ (rec.state = "woken" /\ rec.terminalOnly)
    /\ rec.gen = hs[h].gen

MayConfirm(h, n) == Granting(h) /\ rec.epoch = n /\ done = "none" /\ ~Lost(h)

Confirmed(h, n) ==
    IF MayConfirm(h, n)
      THEN [rec EXCEPT !.confirmed = TRUE, !.ever = TRUE, !.unknown = FALSE,
                       !.cause = IF rec.state = "woken" THEN "delivery_exhausted" ELSE @]
      ELSE rec

Doubted(h, n) ==
    IF Granting(h) /\ rec.epoch = n /\ ~rec.confirmed
      THEN [rec EXCEPT !.unknown = TRUE] ELSE rec

Recorded(h, n) ==
    CASE Decision(n) = "granted" -> Confirmed(h, n)
      [] Decision(n) = "unknown" -> Doubted(h, n)
      [] OTHER -> rec

(* The failed admission is looked up; unless it is found granted the epoch   *)
(* is stopped, what the runner decided is recorded and the delivery given   *)
(* up.  The status, and the runner that is to be stopped, may not answer.   *)
ResolveAdmit(h) ==
    LET n == hs[h].epoch IN
    /\ hs[h].pc = "resolve"
    /\ \/ /\ adm[n] = "granted" /\ Held(h, "confirm")
          /\ UNCHANGED <<rec, adm, faults>>
       \/ /\ \/ adm[n] # "granted" /\ UNCHANGED faults
             \/ adm[n] = "granted" /\ Fault
          /\ adm' = Quiesced(n)
          /\ rec' = Recorded(h, n) /\ Drop(h)
       \/ /\ Fault /\ UNCHANGED adm
          /\ rec' = Doubted(h, n) /\ Drop(h)
    /\ UNCHANGED <<resume, tVars, nVars, done, xVars>>

ConfirmGrant(h) ==
    LET n == hs[h].epoch IN
    /\ hs[h].pc = "confirm"
    /\ rec' = Confirmed(h, n)
    /\ IF MayConfirm(h, n)
         THEN Go(h, "turn") /\ UNCHANGED <<adm, faults>>
         ELSE Drop(h) /\ StopOrNot(n)
    /\ UNCHANGED <<resume, tVars, nVars, done, xVars>>

(* The fence of the settlement (settle_fenced). *)
MaySettle(h) == done = "none" /\ ~Lost(h)

(* The turn finishes and its settlement, fenced by the lease, writes the     *)
(* marker and the answer.                                                  *)
Answer(h) ==
    /\ \/ hs[h].pc = "run" /\ hs[h].gen = 0 /\ done = "none"
       \/ hs[h].pc = "turn" /\ adm[hs[h].epoch] = "granted"
    /\ IF MaySettle(h)
         THEN /\ Go(h, IF hs[h].gen = 0 THEN "ack" ELSE "get")
              /\ done' = "answer" /\ shown' = "answer"
         ELSE Drop(h) /\ UNCHANGED <<done, shown>>
    /\ UNCHANGED <<resume, rec, tVars, adm, nVars, started, told, faults>>

(* A gate that nobody opens denies the turn after its timeout. *)
AdmissionTimeout ==
    /\ \E n \in Epochs : adm[n] = "pending" /\ adm' = Quiesced(n)
    /\ UNCHANGED <<resume, qVars, rec, tVars, hs, nVars, done, xVars, faults>>

(* The sandbox is lost, and with it what the runner remembers. *)
RunnerLost ==
    /\ \E n \in Epochs : adm[n] \in {"pending", "granted", "denied"}
    /\ Fault
    /\ adm' = [n \in Epochs |-> IF adm[n] = "none" THEN "none" ELSE "unknown"]
    /\ UNCHANGED <<resume, qVars, rec, tVars, hs, nVars, done, xVars>>

(***************************************************************************)
(* Parking and waking.                                                     *)
(***************************************************************************)

(* _PARK_LUA: the record keeps the event from here on, and the entry is      *)
(* acknowledged in the same script.  The deadline is that of the first      *)
(* park.  The queued notice is sent once, unless a grant came in between.   *)
MayPark(h) ==
    /\ ~Lost(h) /\ done = "none" /\ Mine(h).row = "pending"
    /\ IF rec.state = "none" THEN hs[h].gen = 0
                             ELSE rec.state = "woken" /\ rec.gen = hs[h].gen

Parked ==
    [rec EXCEPT !.state = "waiting", !.cause = "",
                !.gen = IF rec.state = "none" THEN 1 ELSE @ + 1,
                !.notice = rec.state = "none" \/ @ \/ rec.confirmed \/ rec.unknown]

Park(h) ==
    /\ hs[h].pc = "park"
    /\ IF MayPark(h)
         THEN /\ rec' = Parked
              /\ left' = IF rec.state = "none" THEN Budget ELSE left
              /\ due' = IF left' < Retry THEN left' ELSE Retry
              /\ fly' = -1
              /\ End(h, [stream EXCEPT ![hs[h].e].row = "acked"])
         ELSE Drop(h) /\ UNCHANGED <<rec, tVars>>
    /\ UNCHANGED <<resume, adm, nVars, done, xVars, faults>>

Appended(gen, terminalOnly) == Append(stream, Entry(gen, terminalOnly))

(* Mutant: a notice that is being sent does not hold the wake back. *)
WakeDueAnyway == due = 0

WakeDue == due = 0 /\ ~lock

(* Mutant: the wake leaves the wait in no index. *)
FlightNone == -1

Flight == left          \* the score of the flight index is the deadline

(* _WAKE_LUA *)
Wake ==
    /\ rec.state = "waiting"
    /\ IF done # "none"
         THEN rec' = [rec EXCEPT !.state = "done"] /\ UNCHANGED <<stream, fly>>
         ELSE /\ WakeDue /\ Len(stream) < MaxEntry
              /\ stream' = Appended(rec.gen + 1, FALSE)
              /\ rec' = [rec EXCEPT !.state = "woken", !.gen = @ + 1,
                                    !.wake = Len(stream) + 1, !.terminalOnly = FALSE]
              /\ fly' = Flight
    /\ UNCHANGED <<resume, left, due, claim, hs, adm, nVars, done, xVars, faults>>

(* The cause of an expiry: _FLAG_EXPIRY_LUA, and _RECONCILE_LUA when the     *)
(* record has none yet.                                                    *)
Cause ==
    IF rec.ever THEN "delivery_exhausted"
    ELSE IF rec.unknown THEN "grant_unknown"
    ELSE "capacity_wait_expired"

(* _STATE_LUA, with the state and the cause that mark_terminal read: what is  *)
(* already in the target state is left as it is.                            *)
Terminal(state, cause, gen) ==
    LET target == IF cause = "" THEN "done" ELSE "expired" IN
    IF rec.state # state \/ rec.gen # gen \/ done = "none" \/ state = target
      THEN rec
      ELSE [rec EXCEPT !.state = target, !.cause = cause, !.expiry = cause # ""]

(* reconcile_lost_wakes, for a score that is due: it is never ahead of the   *)
(* deadline.  A wait whose entry is neither pending nor an unread terminal  *)
(* one gets a delivery that may only end it.  A settled wait is marked.     *)
OnStream ==
    \/ stream[rec.wake].row = "pending"
    \/ rec.terminalOnly /\ stream[rec.wake].row = "unread"

Reconcile ==
    /\ fly = 0
    /\ IF rec.state \notin {"woken", "active"}
         THEN fly' = -1 /\ UNCHANGED <<rec, stream>>
       ELSE IF done # "none"
         THEN /\ rec' = Terminal(rec.state, rec.cause, rec.gen)
              /\ fly' = -1 /\ UNCHANGED stream
       ELSE IF OnStream
         THEN fly' = Retry /\ UNCHANGED <<rec, stream>>
       ELSE /\ Len(stream) < MaxEntry
            /\ stream' = Appended(rec.gen + 1, TRUE)
            /\ rec' = [rec EXCEPT !.state = "woken", !.gen = @ + 1,
                                  !.wake = Len(stream) + 1, !.terminalOnly = TRUE,
                                  !.cause = IF @ \in {"delivery_exhausted",
                                                     "capacity_wait_expired"}
                                              THEN @ ELSE Cause]
            /\ fly' = Retry
    /\ UNCHANGED <<resume, left, due, claim, hs, adm, nVars, done, xVars, faults>>

(***************************************************************************)
(* _expire_wait_delivery.                                                  *)
(***************************************************************************)

(* resolve_capacity_grant for a grant whose result nobody recorded. *)
ResolveGrant(h) ==
    LET open == ~rec.confirmed /\ rec.epoch # 0 IN
    /\ hs[h].pc = "expire"
    /\ \/ /\ ~open /\ Go(h, "flag") /\ UNCHANGED <<adm, faults>>
       \/ /\ open /\ adm' = Quiesced(rec.epoch)
          /\ hs' = [hs EXCEPT ![h].epoch = rec.epoch,
                ![h].pc = CASE adm'[rec.epoch] = "granted" -> "reconfirm"
                            [] adm'[rec.epoch] = "unknown" -> "unknown"
                            [] OTHER -> "flag"]
          /\ UNCHANGED <<qVars, faults>>
       \/ open /\ Fault /\ Drop(h) /\ UNCHANGED adm
    /\ UNCHANGED <<resume, rec, tVars, nVars, done, xVars>>

(* The work was started: an active wait goes back to the ordinary retries.   *)
Reconfirm(h) ==
    /\ hs[h].pc = "reconfirm"
    /\ rec' = Confirmed(h, hs[h].epoch)
    /\ IF MayConfirm(h, hs[h].epoch) /\ rec.state = "woken"
         THEN Go(h, "flag") ELSE Drop(h)
    /\ UNCHANGED <<resume, tVars, adm, nVars, done, xVars, faults>>

MarkUnknown(h) ==
    /\ hs[h].pc = "unknown"
    /\ rec' = Doubted(h, hs[h].epoch)
    /\ Go(h, "flag")
    /\ UNCHANGED <<resume, tVars, adm, nVars, done, xVars, faults>>

FlagExpiry(h) ==
    LET may == /\ rec.state = "woken" \/ (rec.state = "active" /\ ~rec.confirmed)
               /\ rec.gen = hs[h].gen /\ left = 0
    IN
    /\ hs[h].pc = "flag"
    /\ IF may
         THEN /\ rec' = [rec EXCEPT !.cause = Cause]
              /\ IF Lost(h) THEN Drop(h)
                   ELSE /\ hs' = [hs EXCEPT ![h].pc = "stop", ![h].cause = Cause,
                                            ![h].epoch = rec.epoch]
                        /\ UNCHANGED qVars
         ELSE Drop(h) /\ UNCHANGED rec
    /\ UNCHANGED <<resume, tVars, adm, nVars, done, xVars, faults>>

(* expire_capacity_wait: the exact epoch is stopped, then the thread is told, *)
(* then the event is settled under the lease.                              *)
StopEpoch(h) ==
    /\ hs[h].pc = "stop"
    /\ \/ adm' = Quiesced(hs[h].epoch) /\ Held(h, "reply") /\ UNCHANGED faults
       \/ hs[h].epoch # 0 /\ Fault /\ Drop(h) /\ UNCHANGED adm
    /\ UNCHANGED <<resume, rec, tVars, nVars, done, xVars>>

ReplyExpired(h) ==
    /\ hs[h].pc = "reply"
    /\ \/ /\ told' = hs[h].cause /\ shown' = "expiry"
          /\ hs' = [hs EXCEPT ![h].pc = "complete", ![h].replied = TRUE]
          /\ UNCHANGED faults
       \/ /\ Fault /\ hs' = [hs EXCEPT ![h].pc = "complete"]
          /\ UNCHANGED <<told, shown>>
    /\ UNCHANGED <<resume, qVars, rec, tVars, adm, nVars, done, started>>

CompleteExpired(h) ==
    /\ hs[h].pc = "complete"
    /\ IF MaySettle(h) THEN Go(h, "get") /\ done' = "expiry"
                       ELSE Drop(h) /\ UNCHANGED done
    /\ UNCHANGED <<resume, rec, tVars, adm, nVars, xVars, faults>>

(* mark_terminal reads the record, then runs _STATE_LUA on what it read. *)
GetRecord(h) ==
    /\ hs[h].pc = "get"
    /\ hs' = [hs EXCEPT ![h].pc = "mark", ![h].state = rec.state, ![h].cause = rec.cause]
    /\ UNCHANGED <<resume, qVars, rec, tVars, adm, nVars, done, xVars, faults>>

MarkTerminal(h) ==
    LET marked == rec.state = hs[h].state /\ rec.gen = hs[h].gen /\ done # "none" IN
    /\ hs[h].pc = "mark"
    /\ rec' = Terminal(hs[h].state, hs[h].cause, hs[h].gen)
    /\ fly' = IF marked THEN -1 ELSE fly
    /\ IF ~marked THEN Drop(h)
       ELSE IF hs[h].replied THEN Go(h, "noted")
       ELSE Held(h, "ack")
    /\ UNCHANGED <<resume, left, due, adm, nVars, done, xVars, faults>>

(* finish_expiry_notice, for the reply that the handler sent itself. *)
NoteExpired(h) ==
    /\ hs[h].pc = "noted"
    /\ rec' = IF rec.state = "expired" /\ rec.gen = hs[h].gen
                THEN [rec EXCEPT !.expiry = FALSE] ELSE rec
    /\ Held(h, "ack")
    /\ UNCHANGED <<resume, tVars, adm, nVars, done, xVars, faults>>

(* _ack: the XACK of a lost lease is not sent, and one that is sent reaches  *)
(* Valkey under the lease (AckUnderOwnLease of DeliveryLease).              *)
Ack(h) ==
    /\ hs[h].pc = "ack"
    /\ IF Lost(h) THEN Drop(h)
                  ELSE End(h, [stream EXCEPT ![hs[h].e].row = "acked"])
    /\ UNCHANGED <<resume, rec, tVars, adm, nVars, done, xVars, faults>>

(***************************************************************************)
(* The notices: one lock for the queued and for the expiry notice.          *)
(***************************************************************************)

(* _NOTICE_CLAIM_LUA and _EXPIRY_NOTICE_CLAIM_LUA *)
ClaimNotice ==
    /\ note.pc = "off" /\ ~lock
    /\ \/ /\ rec.state = "waiting" /\ rec.notice /\ done = "none"
          /\ note' = [pc |-> "check", kind |-> "queued", gen |-> rec.gen]
       \/ /\ rec.state = "expired" /\ rec.expiry /\ done # "none"
          /\ note' = [pc |-> "send", kind |-> "expiry", gen |-> rec.gen]
    /\ lock' = TRUE
    /\ UNCHANGED <<resume, qVars, rec, tVars, hs, adm, done, xVars, faults>>

(* notify_capacity_queued sends nothing once the event is settled. *)
CheckNotice ==
    /\ note.pc = "check"
    /\ note' = [note EXCEPT !.pc = IF done = "none" THEN "send" ELSE "finish"]
    /\ UNCHANGED <<resume, qVars, rec, tVars, hs, adm, lock, done, xVars, faults>>

SendNotice ==
    /\ note.pc = "send"
    /\ \/ /\ shown' = note.kind /\ note' = [note EXCEPT !.pc = "finish"]
          /\ told' = IF note.kind = "expiry" THEN rec.cause ELSE told
          /\ UNCHANGED faults
       \/ /\ Fault /\ note' = [note EXCEPT !.pc = "failed"]
          /\ UNCHANGED <<shown, told>>
    /\ UNCHANGED <<resume, qVars, rec, tVars, hs, adm, lock, done, started>>

(* _NOTICE_FINISH_LUA and _EXPIRY_NOTICE_FINISH_LUA *)
FinishNotice ==
    LET sent == note.pc = "finish" /\ rec.gen = note.gen IN
    /\ note.pc \in {"finish", "failed"}
    /\ rec' = IF sent /\ note.kind = "queued" /\ rec.state = "waiting"
                THEN [rec EXCEPT !.notice = FALSE]
              ELSE IF sent /\ note.kind = "expiry" /\ rec.state = "expired"
                THEN [rec EXCEPT !.expiry = FALSE]
              ELSE rec
    /\ note' = NoNote /\ lock' = FALSE
    /\ UNCHANGED <<resume, qVars, tVars, hs, adm, done, xVars, faults>>

(* The process of the notice loop dies; its lock runs out, after the bound  *)
(* of the send (_notice_lock_ttl_ms).                                      *)
CrashNotice ==
    /\ note.pc # "off" /\ Fault /\ note' = NoNote
    /\ UNCHANGED <<resume, qVars, rec, tVars, hs, adm, lock, done, xVars>>

(* Mutant: the lock is taken without a time to live. *)
NoticeLockStays ==
    /\ lock /\ note.pc = "off" /\ lock' = lock
    /\ UNCHANGED <<resume, qVars, rec, tVars, hs, adm, note, done, xVars, faults>>

NoticeLockExpires ==
    /\ lock /\ note.pc = "off" /\ lock' = FALSE
    /\ UNCHANGED <<resume, qVars, rec, tVars, hs, adm, note, done, xVars, faults>>

(* The deadline starts with the first park. *)
Tick ==
    /\ rec.state # "none"
    /\ left > 0 \/ due > 0 \/ fly > 0
    /\ left' = IF left > 0 THEN left - 1 ELSE 0
    /\ due' = IF due > 0 THEN due - 1 ELSE 0
    /\ fly' = IF fly > 0 THEN fly - 1 ELSE fly
    /\ UNCHANGED <<resume, qVars, rec, hs, adm, nVars, done, xVars, faults>>

Handle(h) ==
    \/ ClaimResume(h) \/ PrepareResume(h) \/ CheckWait(h) \/ StopAdopted(h)
    \/ SkipDone(h) \/ NoCapacity(h) \/ Fail(h) \/ WaitOver(h) \/ OpenTurn(h)
    \/ BeginGrant(h) \/ Admit(h) \/ ResolveAdmit(h) \/ ConfirmGrant(h) \/ Answer(h)
    \/ Park(h) \/ ResolveGrant(h) \/ Reconfirm(h) \/ MarkUnknown(h) \/ FlagExpiry(h)
    \/ StopEpoch(h) \/ ReplyExpired(h) \/ CompleteExpired(h) \/ GetRecord(h) \/ MarkTerminal(h)
    \/ NoteExpired(h) \/ Ack(h)

Take(h) == Read(h) \/ Reclaim(h)
Notice == ClaimNotice \/ CheckNotice \/ SendNotice \/ FinishNotice

(* Nothing is left to do for the event. *)
Quiet ==
    /\ \A e \in DOMAIN stream : stream[e].row = "acked"
    /\ rec.state \in {"none", "done", "expired"} /\ ~rec.expiry

Rest == Quiet /\ UNCHANGED vars

Next ==
    \/ \E h \in Handlers : Take(h) \/ Handle(h) \/ LoseLease(h) \/ Crash(h)
    \/ DeadLetter \/ LeaseExpires \/ AdmissionTimeout \/ RunnerLost
    \/ Wake \/ Reconcile \/ Notice \/ CrashNotice \/ NoticeLockExpires
    \/ Tick \/ Rest

Spec == Init /\ [][Next]_vars

(* Handlers run on, workers keep reading and reclaiming, the wake and the    *)
(* notice loop keep running, clocks advance and keys expire.                *)
Fairness ==
    /\ \A h \in Handlers : WF_vars(Handle(h))
    /\ WF_vars(\E h \in Handlers : Read(h)) /\ WF_vars(\E h \in Handlers : Reclaim(h))
    /\ WF_vars(DeadLetter) /\ WF_vars(LeaseExpires) /\ WF_vars(AdmissionTimeout)
    /\ WF_vars(Wake) /\ WF_vars(Reconcile)
    /\ WF_vars(Notice) /\ WF_vars(NoticeLockExpires) /\ WF_vars(Tick)

FairSpec == Spec /\ Fairness
----------------------------------------------------------------------------

(* The event is never lost: until it is settled, an entry of it is unread or *)
(* pending, or the record will wake it or end it (it waits, or it is in the *)
(* flight index), or it was dead-lettered before any wait began.            *)
NeverLost ==
    \/ done # "none"
    \/ \E e \in DOMAIN stream : stream[e].row # "acked"
    \/ rec.state = "waiting"
    \/ rec.state \in {"woken", "active"} /\ fly >= 0
    \/ rec.state = "none" /\ \E e \in DOMAIN stream : stream[e].delivered >= MaxDelivery

(* Of all the entries that carry one event (duplicates of an approval       *)
(* resume, copies that wakes appended) at most one is worked on by a handler *)
(* that has authority over it.                                             *)
OneAtWork ==
    \A h, k \in Handlers :
      h # k => ~ /\ hs[h].pc \in Running /\ ~Lost(h)
                 /\ hs[k].pc \in Running /\ ~Lost(k)

(* What the thread is told when the wait ends is true: "could not start" only *)
(* if the runner never granted a turn of it and nobody answered, "started but *)
(* could not finish" only if it did.                                       *)
Truthful ==
    /\ told = "capacity_wait_expired" => started = {} /\ done # "answer"
    /\ told = "delivery_exhausted" => started # {}

(* An event that was answered is not reported as expired, neither by a      *)
(* handler nor by the record the notice loop works from.  This does not     *)
(* hold (README, section 6).                                               *)
AnsweredIsDone == done = "answer" => told = "" /\ rec.state # "expired"

(* The queued notice never replaces the answer or the expiry reply. *)
NoQueuedAfterReply ==
    [][(shown \in {"answer", "expiry"}) => (shown' # "queued")]_vars

(* Every accepted event comes to rest, with its expiry notice delivered. *)
ComesToRest == <>[]Quiet
=============================================================================
