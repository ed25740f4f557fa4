------------------------- MODULE CompletionOutbox -------------------------
(***************************************************************************)
(* The terminal ordering of one event: the done and side_effect markers,   *)
(* the completion outbox of markers.py, and the three parties that deliver *)
(* a completion in kernel/completion.py: the handler that settled the      *)
(* event, a later handler that skips it, and the sweeper.                  *)
(*                                                                         *)
(* Every step is one call to Valkey or one emit, so the parties interleave *)
(* between any two of them.  A stream entry that carries the event is a    *)
(* delivery; a retry that slipped the dispatcher's guard is a second one.  *)
(* A completion is known by its record generation only: text, route and    *)
(* outcome play no part.  Leases are as coarse as DeliveryLease allows:    *)
(* what is checked against the local deadline, the side_effect write and   *)
(* the acknowledgement, is done with the key held (AuthorityIsLeased); a   *)
(* bare test of the lost flag, before an attempt, says nothing of the key. *)
(* The thread order index that settle_fenced also writes belongs to the    *)
(* capacity wait and is left out.                                          *)
(***************************************************************************)
EXTENDS Integers, Sequences, FiniteSets

CONSTANTS
    Slots,          \* handlers of the replicas' semaphores
    Sweepers,       \* maintenance and startup sweeps of the replicas
    Deliveries,     \* stream entries with this event id
    None,
    Namespaces,     \* storage namespaces, in the order read_completion tries them
    Leased,         \* subset of BOOLEAN: is the consumer built with a lease store
    Targetless,     \* subset of BOOLEAN: has the event no reply target
    Hows,           \* subset of AllHows: how an attempt's outcome is settled
    Failures,       \* subset of {"bury", "note", "unnote"}: how an emit may fail
    IdemTTL,        \* idempotency_ttl_s
    Grace,          \* completion_sweep_grace_s
    Retention,      \* completion_max_retention_s
    MaxGen,         \* bound: record generations minted
    MaxLapse,       \* bound: leases that end under a running handler
    MaxFault        \* bound: calls that raise, crashes and aborted passes

Kinds == {Namespaces[i] : i \in DOMAIN Namespaces}
Actors == Slots \cup Sweepers
AllHows == {"turn", "slice"}

ASSUME OutboxAssumption ==
    /\ Slots \cap Sweepers = {}
    /\ None \notin Slots \cup Deliveries \cup Kinds
    /\ Namespaces \in Seq(Kinds) /\ Cardinality(Kinds) = Len(Namespaces)
    /\ Leased \subseteq BOOLEAN /\ Targetless \subseteq BOOLEAN
    /\ Hows \subseteq AllHows
    /\ Failures \subseteq {"bury", "note", "unnote"}
    /\ IdemTTL \in Nat \ {0} /\ Grace \in Nat /\ Retention \in Nat
    /\ IdemTTL <= Retention /\ Grace <= Retention
    /\ MaxGen \in Nat /\ MaxLapse \in Nat /\ MaxFault \in Nat

VARIABLES
    leased,         \* the consumer has a lease store
    targetless,     \* the event has no reply target
    row,            \* row[d]: the entry is pending
    fence,          \* fence[d]: the handler whose lease on d is live
    done,           \* remaining life of the done marker, 0 when absent
    effect,         \* remaining life of the side_effect marker
    rec,            \* rec[k]: the completion hash of a namespace
    index,          \* namespaces whose pending set names the event
    published,      \* the sweep_published key: a generation and its life
    minted,         \* generations minted so far
    age,            \* age[g]: time since created_at
    pc,
    job,            \* what an actor has in hand
    todo,           \* entries a sweep has still to handle
    slices,         \* generations built with a successor
    pubs,           \* pubs[g]: successors published for g
    settled,        \* generations that were made terminal
    owed,           \* owed[k]: the last generation settled in k
    refused,        \* generations whose emit a provider refused
    resolved,       \* generations confirmed, moved to the graveyard, or discarded
    sinceSettled,   \* time since the last settlement, capped at Retention
    sinceEffect,    \* time since an effect was observed, capped at IdemTTL
    lapses,
    faults

config == <<leased, targetless>>
rows == <<row, fence, lapses>>
markers == <<done, effect, sinceSettled, sinceEffect>>
outbox == <<rec, index>>
sweepKeys == <<published, slices, pubs>>
gens == <<minted, age>>
actors == <<pc, job, todo>>
fate == <<refused, resolved>>
terminal == <<settled, owed>>
vars == <<config, rows, markers, outbox, sweepKeys, gens, actors, fate, terminal, faults>>

Gens == 1..MaxGen
NoRec == [gen |-> 0, done |-> FALSE, cause |-> FALSE]
NoJob == [d |-> None, k |-> None, g |-> 0, how |-> "turn"]
Verdicts == {"read", "drop", "discard", "emit"}
PCs == {"idle", "check", "read", "side", "start", "run", "acted", "settle", "resend", "gaveup",
        "lost", "publish", "mark", "emit", "bury", "note", "unnote", "clear", "ack", "members",
        "pass", "drop", "discard"}

(* The done marker outlives the outbox record: mark_done's ttl_s.  (The    *)
(* history_capacity marker, without expiry, only lasts longer.)            *)
MarkerTTLIdem == IdemTTL
MarkerTTL == IF IdemTTL > Retention THEN IdemTTL ELSE Retention

DecPastZero(t) == t - 1
Dec(t) == IF t = 0 THEN t ELSE t - 1
Inc(t, cap) == IF t < cap THEN t + 1 ELSE t

TypeOK ==
    /\ leased \in BOOLEAN /\ targetless \in BOOLEAN
    /\ row \in [Deliveries -> BOOLEAN]
    /\ fence \in [Deliveries -> Slots \cup {None}]
    /\ done \in 0..MarkerTTL
    /\ effect \in 0..IdemTTL
    /\ rec \in [Kinds -> [gen : 0..MaxGen, done : BOOLEAN, cause : BOOLEAN]]
    /\ index \subseteq Kinds
    /\ published \in [gen : 0..MaxGen, left : 0..MarkerTTL]
    /\ minted \in 0..MaxGen
    /\ age \in [Gens -> 0..(Retention + 1)]
    /\ pc \in [Actors -> PCs]
    /\ job \in [Actors -> [d : Deliveries \cup {None}, k : Kinds \cup {None}, g : 0..MaxGen,
                           how : AllHows]]
    /\ todo \in [Sweepers -> SUBSET [k : Kinds, g : 0..MaxGen, v : Verdicts]]
    /\ slices \subseteq Gens /\ settled \subseteq Gens
    /\ pubs \in [Gens -> Nat]
    /\ owed \in [Kinds -> 0..MaxGen]
    /\ refused \subseteq Gens /\ resolved \subseteq Gens
    /\ sinceSettled \in 0..Retention /\ sinceEffect \in 0..IdemTTL
    /\ lapses \in 0..MaxLapse /\ faults \in 0..MaxFault

Init ==
    /\ leased \in Leased /\ targetless \in Targetless
    /\ row = [d \in Deliveries |-> TRUE]
    /\ fence = [d \in Deliveries |-> None]
    /\ done = 0 /\ effect = 0
    /\ rec = [k \in Kinds |-> NoRec] /\ index = {}
    /\ published = [gen |-> 0, left |-> 0]
    /\ minted = 0 /\ age = [g \in Gens |-> 0]
    /\ pc = [a \in Actors |-> "idle"]
    /\ job = [a \in Actors |-> NoJob]
    /\ todo = [s \in Sweepers |-> {}]
    /\ slices = {} /\ pubs = [g \in Gens |-> 0]
    /\ settled = {} /\ owed = [k \in Kinds |-> 0]
    /\ refused = {} /\ resolved = {}
    /\ sinceSettled = Retention /\ sinceEffect = IdemTTL
    /\ lapses = 0 /\ faults = 0

-----------------------------------------------------------------------------
(* Where an actor is.  A handler that returns or raises leaves its slot    *)
(* and releases its lease; the consumer acknowledges the entry only when   *)
(* process_event returned.                                                 *)

Goto(a, to) == pc' = [pc EXCEPT ![a] = to]
Holds(a) == fence[job[a].d] = a
Released(a) == [d \in Deliveries |-> IF fence[d] = a THEN None ELSE fence[d]]

Quit(a) ==
    /\ pc' = [pc EXCEPT ![a] = "idle"]
    /\ job' = [job EXCEPT ![a] = NoJob]
    /\ fence' = Released(a)
    /\ UNCHANGED <<row, lapses, todo>>

Fault == faults < MaxFault /\ faults' = faults + 1

(* A handler, its process or a call it makes may fail at any step, and one *)
(* whose lease is gone is cancelled.                                       *)
Leave(a) ==
    /\ pc[a] # "idle"
    /\ \/ leased /\ ~Holds(a) /\ UNCHANGED faults
       \/ Fault
    /\ Quit(a)
    /\ UNCHANGED <<config, markers, outbox, sweepKeys, gens, fate, terminal>>

(* The lease key ends while its handler goes on.  Without a lease store a  *)
(* live handler keeps its row: the backstop is longer than any turn.       *)
Lapse(d) ==
    /\ leased /\ fence[d] # None /\ lapses < MaxLapse
    /\ fence' = [fence EXCEPT ![d] = None]
    /\ lapses' = lapses + 1
    /\ UNCHANGED <<config, row, markers, outbox, sweepKeys, gens, actors, fate, terminal, faults>>

Acquire(a, d) ==
    /\ pc[a] = "idle" /\ row[d] /\ fence[d] = None
    /\ fence' = [fence EXCEPT ![d] = a]
    /\ Goto(a, "check")
    /\ job' = [job EXCEPT ![a].d = d]
    /\ UNCHANGED <<config, row, lapses, markers, outbox, sweepKeys, gens, todo, fate, terminal,
                   faults>>

-----------------------------------------------------------------------------
(* _process_event: the skip of a finished event, the escalation of one     *)
(* whose effects were observed, and the turn.                              *)

Stored(k) == rec[k].gen # 0
IsTerminal == done > 0 \/ \E k \in Kinds : rec[k].done

CheckTerminal(a) ==
    /\ pc[a] = "check"
    /\ Goto(a, IF IsTerminal THEN "read" ELSE "side")
    /\ UNCHANGED <<config, rows, markers, outbox, sweepKeys, gens, job, todo, fate, terminal,
                   faults>>

(* read_completion returns the first namespace that holds a record, and    *)
(* the skip emits it if it is flagged done.                                *)
ReadFirst(i) ==
    /\ Stored(Namespaces[i])
    /\ \A j \in DOMAIN Namespaces : j < i => ~Stored(Namespaces[j])

ReemitPending(a) ==
    /\ pc[a] = "read"
    /\ \/ \E i \in DOMAIN Namespaces :
             /\ ReadFirst(i) /\ rec[Namespaces[i]].done
             /\ Goto(a, "emit")
             /\ job' = [job EXCEPT ![a].k = Namespaces[i], ![a].g = rec[Namespaces[i]].gen]
       \/ /\ ~\E i \in DOMAIN Namespaces : ReadFirst(i) /\ rec[Namespaces[i]].done
          /\ Goto(a, "ack") /\ UNCHANGED job
    /\ UNCHANGED <<config, rows, markers, outbox, sweepKeys, gens, todo, fate, terminal, faults>>

(* _complete builds the record; a targetless event has none.  The settle   *)
(* publishes a successor when a sweep slice was cut.                       *)
BuildRecord(a, k, how) ==
    /\ Goto(a, "settle")
    /\ IF targetless
       THEN k = Namespaces[1] /\ UNCHANGED <<gens, job, slices>>
       ELSE /\ minted < MaxGen
            /\ minted' = minted + 1
            /\ job' = [job EXCEPT ![a].k = k, ![a].g = minted + 1, ![a].how = how]
            /\ slices' = IF how = "slice" THEN slices \cup {minted + 1} ELSE slices
            /\ UNCHANGED age

SawSideEffect(a) ==
    /\ pc[a] = "side"
    /\ IF effect > 0
       THEN \E k \in Kinds : BuildRecord(a, k, "turn")
       ELSE Goto(a, "start") /\ UNCHANGED <<gens, job, slices>>
    /\ UNCHANGED <<config, rows, markers, outbox, published, pubs, todo, fate, terminal, faults>>

(* Before every attempt the loop reads the lost flag, which the heartbeat  *)
(* sets some time after the key is gone, if it runs at all: a handler that *)
(* stalled past its lease may find it set (Leave) or go on.                *)
StartAttempt(a) ==
    /\ pc[a] = "start"
    /\ Goto(a, "run")
    /\ UNCHANGED <<config, rows, markers, outbox, sweepKeys, gens, job, todo, fate, terminal,
                   faults>>

(* A side_effect_flag frame: the marker is durable before the turn goes on *)
(* and only a handler with its lease writes it.                            *)
ObserveEffectStale(a) ==
    /\ pc[a] \in {"run", "acted"}
    /\ effect' = IdemTTL /\ sinceEffect' = 0
    /\ Goto(a, "acted")
    /\ UNCHANGED <<config, rows, done, sinceSettled, outbox, sweepKeys, gens, job, todo, fate,
                   terminal, faults>>

ObserveEffect(a) ==
    /\ pc[a] \in {"run", "acted"} /\ Holds(a)
    /\ effect' = IdemTTL /\ sinceEffect' = 0
    /\ Goto(a, "acted")
    /\ UNCHANGED <<config, rows, done, sinceSettled, outbox, sweepKeys, gens, job, todo, fate,
                   terminal, faults>>

(* Only an attempt without side effects is retried.                        *)
RetryAttempt(a) ==
    /\ pc[a] = "run"
    /\ Goto(a, "start")
    /\ UNCHANGED <<config, rows, markers, outbox, sweepKeys, gens, job, todo, fate, terminal,
                   faults>>

(* A terminal outcome: delivered, escalated, or dropped before any attempt.*)
Finish(a, k, how) ==
    /\ pc[a] \in {"start", "run", "acted"}
    /\ how \in IF targetless \/ pc[a] = "start" THEN {"turn"} ELSE Hows
    /\ BuildRecord(a, k, how)
    /\ UNCHANGED <<config, rows, markers, outbox, published, pubs, todo, fate, terminal, faults>>

-----------------------------------------------------------------------------
(* Settlement.                                                             *)

(* _SETTLE_FENCED_LUA and _SETTLE_FENCED_AND_PUBLISH_LUA past their        *)
(* guards: a repeated slice settlement finds its own published marker and  *)
(* writes nothing.                                                         *)
WriteTerminal(j) ==
    /\ rec' = [rec EXCEPT ![j.k] = [gen |-> j.g, done |-> TRUE, cause |-> FALSE]]
    /\ index' = index \cup {j.k}
    /\ done' = MarkerTTL /\ sinceSettled' = 0
    /\ settled' = settled \cup {j.g}
    /\ owed' = [owed EXCEPT ![j.k] = j.g]
    /\ IF j.how = "slice"
       THEN /\ published' = [gen |-> j.g, left |-> MarkerTTL]
            /\ pubs' = [pubs EXCEPT ![j.g] = @ + 1]
       ELSE UNCHANGED <<published, pubs>>
    /\ UNCHANGED slices

SettleScriptRepeats(j) ==
    /\ WriteTerminal(j)
    /\ UNCHANGED <<effect, sinceEffect>>

SettleScript(j) ==
    \/ /\ j.how = "slice" /\ published.gen = j.g
       /\ UNCHANGED <<outbox, markers, terminal, sweepKeys>>
    \/ /\ ~(j.how = "slice" /\ published.gen = j.g)
       /\ WriteTerminal(j)
       /\ UNCHANGED <<effect, sinceEffect>>

(* _SETTLE_FENCED_MARKER_LUA and mark_done_without_completion.             *)
SettleMarker ==
    /\ done' = MarkerTTL /\ sinceSettled' = 0
    /\ UNCHANGED <<effect, sinceEffect, outbox, terminal, sweepKeys>>

(* The reply of the script arrives, or is lost and the client repeats the  *)
(* call, or the call raises in the end, whether or not the script ran; the *)
(* client repeats for less than a tick.  A refused owner marks its lease   *)
(* lost and leaves the entry pending.                                      *)
Settle(a) ==
    /\ pc[a] \in {"settle", "resend"} /\ leased
    /\ \/ /\ ~Holds(a)
          /\ Quit(a)
          /\ UNCHANGED <<markers, outbox, terminal, sweepKeys, faults>>
       \/ /\ Holds(a)
          /\ IF targetless THEN SettleMarker ELSE SettleScript(job[a])
          /\ \/ /\ Goto(a, IF targetless THEN "ack" ELSE "emit")
                /\ UNCHANGED <<rows, job, todo, faults>>
             \/ Fault /\ Goto(a, "resend") /\ UNCHANGED <<rows, job, todo>>
       \/ /\ Fault /\ Goto(a, "gaveup")
          /\ UNCHANGED <<rows, job, todo, markers, outbox, terminal, sweepKeys>>
    /\ UNCHANGED <<config, gens, fate>>

(* An exception of the settlement propagates, except that                  *)
(* _settle_and_publish first reads the published marker, which tells a     *)
(* script that ran from one that did not.                                  *)
SettleRaises(a) ==
    /\ pc[a] = "gaveup"
    /\ IF job[a].how = "slice"
       THEN Goto(a, "lost") /\ UNCHANGED <<rows, job, todo>>
       ELSE Quit(a)
    /\ UNCHANGED <<config, markers, outbox, sweepKeys, gens, fate, terminal, faults>>

RecoverReply(a) ==
    /\ pc[a] = "lost"
    /\ IF published.gen = job[a].g
       THEN Goto(a, "emit") /\ UNCHANGED <<rows, job, todo>>
       ELSE Quit(a)
    /\ UNCHANGED <<config, markers, outbox, sweepKeys, gens, fate, terminal, faults>>

(* Without a lease the record, the successor and the marker are written by *)
(* separate calls, and mark_done refuses a record that is not the caller's.*)
MarkPending(a) ==
    /\ pc[a] = "settle" /\ ~leased /\ ~targetless
    /\ rec' = [rec EXCEPT ![job[a].k] = [gen |-> job[a].g, done |-> FALSE, cause |-> FALSE]]
    /\ index' = index \cup {job[a].k}
    /\ Goto(a, IF job[a].how = "slice" THEN "publish" ELSE "mark")
    /\ UNCHANGED <<config, rows, markers, sweepKeys, gens, job, todo, fate, terminal, faults>>

PublishSuccessor(a) ==
    /\ pc[a] = "publish"
    /\ pubs' = [pubs EXCEPT ![job[a].g] = @ + 1]
    /\ Goto(a, "mark")
    /\ UNCHANGED <<config, rows, markers, outbox, published, slices, gens, job, todo, fate,
                   terminal, faults>>

MarkDone(a) ==
    /\ pc[a] = "mark"
    /\ LET j == job[a]
       IN  IF rec[j.k].gen = j.g
           THEN /\ done' = MarkerTTL /\ sinceSettled' = 0
                /\ rec' = [rec EXCEPT ![j.k].done = TRUE]
                /\ settled' = settled \cup {j.g}
                /\ owed' = [owed EXCEPT ![j.k] = j.g]
                /\ Goto(a, "emit")
                /\ UNCHANGED <<rows, job, todo>>
           ELSE Quit(a) /\ UNCHANGED <<done, sinceSettled, rec, terminal>>
    /\ UNCHANGED <<config, effect, sinceEffect, index, sweepKeys, gens, fate, faults>>

MarkDoneWithoutCompletion(a) ==
    /\ pc[a] = "settle" /\ ~leased /\ targetless
    /\ SettleMarker
    /\ Goto(a, "ack")
    /\ UNCHANGED <<config, rows, gens, job, todo, fate, faults>>

-----------------------------------------------------------------------------
(* _deliver_completion, by whichever party has the record in hand.         *)

AfterDelivery(a) ==
    IF a \in Slots
    THEN Goto(a, "ack") /\ UNCHANGED job
    ELSE Goto(a, "pass") /\ job' = [job EXCEPT ![a] = NoJob]

(* The answer, if the record has one, is sent before turn.completed; a     *)
(* send that raises may have arrived, and both are sent again next time.   *)
EmitConfirmed(a) ==
    /\ pc[a] = "emit"
    /\ resolved' = resolved \cup {job[a].g}
    /\ Goto(a, "clear")
    /\ UNCHANGED <<config, rows, markers, outbox, sweepKeys, gens, job, todo, refused, terminal,
                   faults>>

EmitFails(a, cause) ==
    /\ pc[a] = "emit"
    /\ refused' = IF cause = "note" THEN refused \cup {job[a].g} ELSE refused
    /\ Goto(a, cause)
    /\ UNCHANGED <<config, rows, markers, outbox, sweepKeys, gens, job, todo, resolved, terminal,
                   faults>>

Owns(j) == rec[j.k].gen = j.g
Remove(k) ==
    /\ rec' = [rec EXCEPT ![k] = NoRec]
    /\ index' = index \ {k}

(* _CLEAR_COMPLETION_LUA                                                   *)
ClearAny(j) == Remove(j.k)
ClearScript(j) == IF Owns(j) THEN Remove(j.k) ELSE UNCHANGED outbox

Clear(a) ==
    /\ pc[a] = "clear"
    /\ ClearScript(job[a])
    /\ AfterDelivery(a)
    /\ UNCHANGED <<config, rows, markers, sweepKeys, gens, todo, fate, terminal, faults>>

(* _DEAD_LETTER_COMPLETION_LUA, for a deleted reply target.                *)
DeadLetterScript(j) ==
    IF Owns(j)
    THEN Remove(j.k) /\ resolved' = resolved \cup {j.g}
    ELSE UNCHANGED <<outbox, resolved>>

DeadLetter(a) ==
    /\ pc[a] = "bury"
    /\ DeadLetterScript(job[a])
    /\ AfterDelivery(a)
    /\ UNCHANGED <<config, rows, markers, sweepKeys, gens, todo, refused, terminal, faults>>

(* _UPDATE_COMPLETION_CAUSE_LUA; an error of the call itself is swallowed. *)
CauseAny(j, cause) == rec' = [rec EXCEPT ![j.k].cause = cause]
CauseScript(j, cause) ==
    IF Owns(j) THEN rec' = [rec EXCEPT ![j.k].cause = cause] ELSE UNCHANGED rec

UpdateCause(a) ==
    /\ pc[a] \in {"note", "unnote"}
    /\ \/ CauseScript(job[a], pc[a] = "note") /\ UNCHANGED faults
       \/ Fault /\ UNCHANGED rec
    /\ AfterDelivery(a)
    /\ UNCHANGED <<config, rows, markers, index, sweepKeys, gens, todo, fate, terminal>>

(* The consumer: a stale owner may not acknowledge.                        *)
Ack(a) ==
    /\ pc[a] = "ack" /\ (leased => Holds(a))
    /\ row' = [row EXCEPT ![job[a].d] = FALSE]
    /\ fence' = Released(a)
    /\ Goto(a, "idle")
    /\ job' = [job EXCEPT ![a] = NoJob]
    /\ UNCHANGED <<config, lapses, markers, outbox, sweepKeys, gens, todo, fate, terminal, faults>>

-----------------------------------------------------------------------------
(* sweep_pending_completions: one read of the pending sets, one of the     *)
(* records they name, then one entry after the other.  A verdict is from   *)
(* the read; what it acts on may have changed since.                       *)

SweepStart(s) ==
    /\ pc[s] = "idle" /\ index # {}
    /\ todo' = [todo EXCEPT ![s] = [k : index, g : {0}, v : {"read"}]]
    /\ Goto(s, "members")
    /\ UNCHANGED <<config, rows, markers, outbox, sweepKeys, gens, job, fate, terminal, faults>>

VerdictKeeps(r) ==
    IF r.gen = 0 THEN "drop"
    ELSE IF ~r.done \/ age[r.gen] < Grace THEN "rest"
    ELSE "emit"

VerdictTrusts(r) ==
    IF r.gen = 0 THEN "drop"
    ELSE IF age[r.gen] > Retention THEN "discard"
    ELSE IF age[r.gen] < Grace THEN "rest"
    ELSE "emit"

Verdict(r) ==
    IF r.gen = 0 THEN "drop"
    ELSE IF age[r.gen] > Retention THEN "discard"
    ELSE IF ~r.done \/ age[r.gen] < Grace THEN "rest"
    ELSE "emit"

SweepRead(s) ==
    /\ pc[s] = "members"
    /\ todo' = [todo EXCEPT ![s] =
           {e \in {[k |-> m.k, g |-> rec[m.k].gen, v |-> Verdict(rec[m.k])] : m \in todo[s]} :
               e.v # "rest"}]
    /\ Goto(s, "pass")
    /\ UNCHANGED <<config, rows, markers, outbox, sweepKeys, gens, job, fate, terminal, faults>>

(* The batch is sorted, the plain namespace first.                         *)
Before(e, f) ==
    \E i, j \in DOMAIN Namespaces : j < i /\ Namespaces[i] = e.k /\ Namespaces[j] = f.k

SweepNext(s) ==
    /\ pc[s] = "pass"
    /\ \/ todo[s] = {} /\ Goto(s, "idle") /\ UNCHANGED <<job, todo>>
       \/ \E e \in todo[s] :
             /\ \A f \in todo[s] : ~Before(f, e)
             /\ Goto(s, e.v)
             /\ job' = [job EXCEPT ![s].k = e.k, ![s].g = e.g]
             /\ todo' = [todo EXCEPT ![s] = @ \ {e}]
    /\ UNCHANGED <<config, rows, markers, outbox, sweepKeys, gens, fate, terminal, faults>>

(* drop_pending_member: only the membership goes.                          *)
DropMember(s) ==
    /\ pc[s] = "drop"
    /\ index' = index \ {job[s].k}
    /\ AfterDelivery(s)
    /\ UNCHANGED <<config, rows, markers, rec, sweepKeys, gens, todo, fate, terminal, faults>>

Discard(s) ==
    /\ pc[s] = "discard"
    /\ ClearScript(job[s])
    /\ resolved' = IF Owns(job[s]) THEN resolved \cup {job[s].g} ELSE resolved
    /\ AfterDelivery(s)
    /\ UNCHANGED <<config, rows, markers, sweepKeys, gens, todo, refused, terminal, faults>>

(* The pass ends early: an exception, a restart, or its time budget.       *)
SweepAborts(s) ==
    /\ pc[s] # "idle" /\ Fault
    /\ Goto(s, "idle")
    /\ job' = [job EXCEPT ![s] = NoJob]
    /\ todo' = [todo EXCEPT ![s] = {}]
    /\ UNCHANGED <<config, rows, markers, outbox, sweepKeys, gens, fate, terminal>>

-----------------------------------------------------------------------------
(* A tick is longer than the client's repetitions of a call; handlers and  *)
(* sweeps may take any time.                                               *)
Tick ==
    /\ done' = Dec(done) /\ effect' = Dec(effect)
    /\ published' = IF published.left <= 1 THEN [gen |-> 0, left |-> 0]
                    ELSE [published EXCEPT !.left = @ - 1]
    /\ age' = [g \in Gens |-> IF g <= minted THEN Inc(age[g], Retention + 1) ELSE age[g]]
    /\ sinceSettled' = Inc(sinceSettled, Retention)
    /\ sinceEffect' = Inc(sinceEffect, IdemTTL)
    /\ pc' = [a \in Actors |-> IF pc[a] = "resend" THEN "gaveup" ELSE pc[a]]
    /\ UNCHANGED <<config, rows, outbox, slices, pubs, minted, job, todo, fate, terminal, faults>>

Deliver(a) ==
    \/ EmitConfirmed(a)
    \/ \E cause \in Failures : EmitFails(a, cause)
    \/ Clear(a) \/ DeadLetter(a) \/ UpdateCause(a)

Handle(a) ==
    \/ \E d \in Deliveries : Acquire(a, d)
    \/ CheckTerminal(a) \/ ReemitPending(a) \/ SawSideEffect(a)
    \/ StartAttempt(a) \/ ObserveEffect(a) \/ RetryAttempt(a)
    \/ \E k \in Kinds, how \in AllHows : Finish(a, k, how)
    \/ Settle(a) \/ SettleRaises(a) \/ RecoverReply(a)
    \/ MarkPending(a) \/ PublishSuccessor(a) \/ MarkDone(a) \/ MarkDoneWithoutCompletion(a)
    \/ Ack(a) \/ Leave(a)

Sweep(s) ==
    SweepStart(s) \/ SweepRead(s) \/ SweepNext(s) \/ DropMember(s) \/ Discard(s)

Next ==
    \/ \E a \in Slots : Handle(a) \/ Deliver(a)
    \/ \E s \in Sweepers : Sweep(s) \/ Deliver(s) \/ SweepAborts(s)
    \/ \E d \in Deliveries : Lapse(d)
    \/ Tick

Spec == Init /\ [][Next]_vars

(* The maintenance loop keeps sweeping and time passes; no handler has to  *)
(* take another step.                                                      *)
FairSpec == Spec /\ WF_vars(Tick) /\ \A s \in Sweepers : WF_vars(Sweep(s) \/ Deliver(s))

-----------------------------------------------------------------------------
(* Properties.                                                             *)

(* No completion is lost in silence: the last one settled in a namespace   *)
(* is still stored, flagged done, or its emit was confirmed, or it is in   *)
(* the graveyard, or the sweeper discarded it at the retention limit       *)
(* (clear_completion and dead_letter_completion compare generations).      *)
Accounted ==
    \A k \in Kinds : owed[k] # 0 =>
        (rec[k].gen = owed[k] /\ rec[k].done) \/ owed[k] \in resolved

(* Nobody sends a completion whose turn may still be run again: what is    *)
(* in hand for an emit, of the sweeper and the skip too, is durably done   *)
(* (done_flag).                                                            *)
EmitsOnlySettled == \A a \in Actors : pc[a] = "emit" => job[a].g \in settled

(* A stored refusal cause was observed by a send of that very generation:  *)
(* note_provider_egress_refusal never accuses a replacement record.        *)
CauseObserved == \A k \in Kinds : rec[k].cause => rec[k].gen \in refused

(* A fenced sweep slice is settled exactly when its successor has been     *)
(* published, and published once, however often the script is repeated or  *)
(* its reply lost (_SETTLE_FENCED_AND_PUBLISH_LUA).                        *)
SliceHasOneSuccessor ==
    leased => \A g \in Gens : pubs[g] = IF g \in slices \cap settled THEN 1 ELSE 0

(* A handler that starts an attempt and has not lost its lease to another. *)
Starts(a) == pc[a] = "start" /\ pc'[a] = "run" /\ (leased => Holds(a))

(* A turn that was settled is not started again for the whole retention    *)
(* window, whichever of marker and record is left (is_terminal, mark_done),*)
(* except by a handler that stalled past its lease after it had looked;    *)
(* and no handler, that one included, settles a second outcome of it.      *)
FinishedNotRerun ==
    [][/\ \A a \in Slots : Starts(a) => sinceSettled = Retention
       /\ settled' # settled => sinceSettled = Retention]_vars

(* A turn whose effects were observed is not started again while the       *)
(* side_effect marker lives: a second handler escalates instead.  Again    *)
(* only a handler without its lease may, and it records no effect.         *)
EffectNotRepeated ==
    [][\A a \in Slots : Starts(a) => sinceEffect = IdemTTL]_vars

(* No handler at all starts a turn that was settled.  This does not hold   *)
(* (README, section 6): the flag read before an attempt may be stale.      *)
NoStaleAttempt ==
    [][\A a \in Slots : pc[a] = "start" /\ pc'[a] = "run" => sinceSettled = Retention]_vars

(* What is owed is emitted, buried or discarded in the end, even if no     *)
(* handler ever takes another step and the adapter never answers, as long  *)
(* as its pending set names it (sweep_pending_completions).                *)
OwedIsResolved == \A k \in Kinds : owed[k] # 0 ~> (owed[k] \in resolved \/ k \notin index)

(* The pending set and the payload never diverge: a stored record is named *)
(* by its pending set (clear_completion's docstring).  This does not hold  *)
(* (README, section 6).                                                    *)
RecordIsIndexed == \A k \in Kinds : Stored(k) => k \in index

=============================================================================
