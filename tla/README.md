# Verification of Curie's delivery core

Curie runs agent turns for chat threads and issues. A dispatcher enqueues an
event on a Valkey stream; worker replicas of one consumer group read it, own it
under a lease, run the turn in a sandbox, record its outcome and acknowledge the
row. A turn that finds no sandbox waits for one; an issue with the factory's
label becomes a WorkItem whose execution requests the API keeps in PostgreSQL; a
Helm upgrade pauses and drains the fleet. Between those steps replicas crash,
calls time out and are repeated, and other replicas take work over. This
directory models that core in TLA+, checks it with TLC on small instances, and
proves its safety properties with TLAPS for every value of the constants (three
of them for events with one stream entry).

Paths below are relative to `src/apps/worker/src/curie_worker/` unless they
start with `src/`; `api:` stands for `src/apps/api/src/curie_api/`.

## 1. The system

| Component | State | Operations | Interacts with |
|---|---|---|---|
| Delivery lease (`delivery_lease.py`) | lease key (owner token, TTL), delivery state (generation, deadline), local window of each lease object, resume claims | acquire, heartbeat, release, settle, claim_resume (Lua scripts) | stream consumer, markers |
| Stream consumer (`stream_consumer.py`) | pending list of the group, `_held_leases`, in-flight ids, absence proofs | read loop, lease life cycle, `_ack`, dead-letter, four transfer passes, local recovery, generation teardown | everything below |
| Consumer liveness (`consumer_liveness.py`) | liveness and capability keys, reclaim arbitration keys | publish, renew, clean up, try_acquire_reclaim, release_reclaim | stream consumer, thread lock |
| Runs consumer (`consumer.py`) | semaphore, in-flight set | `_dispatch`, `_handle`, maintenance and prompt loops | kernel, stream consumer |
| Thread lock (`threadlock.py`) | lock key of a thread, `_held_tokens`, lease objects | acquire, `_try_steal`, renew, ensure_owned, release, hold | kernel, liveness |
| Completion markers and settlement (`markers.py`, `kernel/completion.py`) | done and side_effect markers, completion records of the outbox, their pending sets, published marker of a slice | settle with and without a lease, emit, skip, sweep, quarantine | delivery lease, kernel |
| Capacity wait (`capacity_wait.py`, `kernel/capacity.py`) | wait record, due and flight index, notice lock, the runner's admission of a turn epoch | park, wake, reconcile, prepare_resume, begin and confirm a grant, expire, notices | runs consumer, kernel, runner |
| Upgrade drain (`upgrade_drain.py`, `src/packages/upgrade-pause`, `api:schema_compat.py`, chart hooks) | pause marker (scoped and legacy key), success record, drain gate, pause authority of the migration | drain, attest, migrate, hold, release | claiming loops, Helm |
| Work-item ledger (`api:workitems/lifecycle.py`, `api:workitem_dispatch.py`, `api:workitem_reconciler.py`; worker side `workitem_dispatch.py`, `workitem_orphans.py`, `kernel/work_items.py`) | WorkItem (cancelled, stored relabel), execution requests (status, cause, generation, acquisition, owner, epoch, deadlines), runs and claimed terminations of workers | readmit, revision, cancel, acquire, defer, start, heartbeat, hold, finish, claim and record a termination, the reconciler's steps | webhooks, workers, publications |
| Kernel turn life cycle (`kernel/`) | route of a thread, approvals, attempts | claim, steer, retry, park, complete | runner, API |
| Protected lanes, publication and action executors, cron and connector loops, eval lane | their own registries and ledgers | loops over the API | API, Kubernetes |
| Dispatcher, rest of the API, docker daemon, CLI, UI, adapters, packages, charts (`src/apps`, `src/cli`, `src/adapters`, `src/packages`, `src/charts`) | PostgreSQL, configuration | requests | outside this project |

What is hard here: a lease that is believed and a lease that is held are two
clocks; a request may be executed after its caller has given up; XACK names an
entry and not an owner; a cap, a liveness key or a lease is read by one call and
acted on by a later one; a process restarts under the name of its predecessor;
a replica dies holding the right to take another's rows; a completion is stored,
sent and cleared by three calls, by whichever of three parties gets there; a
parked event lives in a record, an index or a stream entry, never in two that
agree; the pause of an upgrade is handed from hook to hook while it expires; the
owner of a work item is replaced while it may still be working. `PROJECT.json`
lists these hazards at their lines.

What makes each part correct: one authority over a delivery, believed only while
the server agrees; one settlement; no row removed without a recorded outcome; a
budget no takeover renews; transfers within the delivery cap and only from the
dead; no row stranded; one task in the critical section of a thread; a settled
completion stored until it is sent or given up aloud, and its turn not run again;
a parked event woken or ended, told the truth about, and worked on once; accepted
work settled before the fleet rolls, and no pause that outlives its upgrade; one
active request per WorkItem, one owner of it that speaks alone, and an end for
each.

## 2. Modules

| Module | Models | Runs | Proved |
|---|---|---|---|
| `DeliveryLease` | ownership of one delivery | `MCDeliveryLease`: lease_replicas, lease_slots | `DeliveryLeaseProofs` |
| `FencedDelivery` | what the lease promises: the abstract specification | lease_replicas (`ImplementsFence`) | `DeliveryLeaseRefinement` |
| `ReclaimScan` | how a pending row finds its next handler | `MCReclaimScan`: reclaim_races, reclaim_recovery | `ReclaimScanProofs` |
| `ThreadLock` | the lock of one thread | `MCThreadLock`: thread_lock | `ThreadLockProofs` |
| `CompletionOutbox` | the terminal ordering of one event | `MCCompletionOutbox`: outbox_one, outbox_duplicates | `CompletionOutboxProofs` |
| `CapacityWait` | the wait of one event for a sandbox | `MCCapacityWait`: capacity_wait | `CapacityWaitProofs` |
| `UpgradeDrain` | the drain gate, the pause and the fleet over overlapping upgrades | `MCUpgradeDrain`: upgrade_drain | `UpgradeDrainProofs` |
| `WorkItemLedger` | the execution requests of one WorkItem | `MCWorkItemLedger`: ledger_rows, ledger_workers, ledger_three | `WorkItemLedgerProofs` |

### DeliveryLease

One entry. Valkey's part of the state is the row (`entry`, `pel`, `delivered`),
the lease key (`leaseTok`, `leaseLeft`), the delivery state (`gen`, `budget`),
the fenced done marker (`doneBy` keeps which tokens settled), the graveyard
(`buried`) and how else a body has ended the event (`endings`). `class` is what
kind of entry it is: one that cannot be parsed (`"poison"`), one that has no
record elsewhere (`"plain"`), or one that is `"backed"` by the work-item ledger, a
capacity wait or another delivery of the same resume. A lease object, identified by
its token, has its local window (`left`), the window of a renewal under way
(`renewed`), its lost flag and its settlement lock. A handler slot has a program counter that follows
`Consumer._handle` and `_delivery_lease`; a process has its queue,
`_inflight_ids`, `_held_leases` and its over-cap dead-letter.

Acquire, renewal and XACK are messages in `net`: executed within `MaxDelay` or
never, answered or not, and repeated by the client while the caller waits. A
caller that stops waiting leaves its request in the network (`live` FALSE). The
settlement script, the release, the graveyard XADD and the deletion of the keys
are single calls whose failure is a branch of their action. `Crash` empties the
memory of a process and nothing else.

A body ends in one of four ways. It settles under the fence (`SettleFenced`); it
marks the event done without one (`MarkUnfenced`: `mark_done` of the early refusals
in `kernel/lifecycle.py`, also of an owner that has lost its lease); it parks the
event (`Park`: `_PARK_LUA` writes the wait record and removes the row in one
script); or it returns without a marker and the row is acknowledged all the same
(`Waive`: a refused acquire or finish, a terminate wake, a redundant resume, a
stale wait). The last happens only where the outcome has another home, which is
what `"backed"` says; that those homes bring the work to an end is
`EveryRequestEnds` of `WorkItemLedger` and `ComesToRest` of `CapacityWait`.

`Tick` decrements every countdown at once. Any consumer may claim the row at any
time: this over-approximates the passes, which `ReclaimScan` models.

### ReclaimScan

One entry and replicas with one semaphore slot each. A pass holds the
process-local `_reclaim_lock` and walks through stages (over-cap, proven-dead
peer, own rows at bootstrap, expired lease, XAUTOCLAIM, dispatch); a step is one
call, so that passes of two replicas interleave between any two calls. A page
row is remembered as XPENDING returned it (`seen`) and aged (`age`). The order
of the passes is `Following`; the arbitration of a dead peer's rows is `arb`.
Handlers are coarse: they act only while their lease key is theirs, which is
what `AuthorityIsLeased` establishes in `DeliveryLease`. `Fault` is a call of a
pass that raises, with the isolation the code gives each stage.

### ThreadLock

One thread key. A task is one `hold()`; its program counter separates each call
of `acquire` and `_try_steal` (SET NX, GET, two liveness observations, the sleep
between them, the compare-and-set) and of the critical section (renewals,
`ensure_owned`, the last fence, release). A call that raises has been executed,
will be (`late`), or is lost; SET may be repeated by the client and then find
its own token. A process loses its liveness key and drains, crashes, or
restarts: a crash gives the next process another boot id, an ended generation
does not, because the `ThreadLock` object survives it.

### CompletionOutbox

One event id. Valkey's part: the done and side_effect markers with their
remaining life, one completion hash per namespace (`rec`: generation, done flag,
refusal cause), the namespaces whose pending set names the event (`index`), the
`sweep_published` key, and the rows of the stream entries that carry the event
(two when a retry slipped the dispatcher's guard). A handler walks from the
terminal check over the side-effect check, the attempts and the settlement to
the emit, the clear and the acknowledgement; a sweeper reads the pending sets,
then the records, then acts entry by entry on what it read. Every step is one
call. A handler that finds the event terminal re-emits the stored record.

Settlement is one script under a lease (`SettleScript`, with the published
marker that makes the script of a sweep slice repeatable) and three calls
without one (`MarkPending`, `PublishSuccessor`, `MarkDone`); a targetless event
writes the marker alone. A script's reply may be lost, the client may repeat it,
and the caller may give up although it ran. A completion is its generation: its
text, route and outcome play no part. `fence` is the lease key as `DeliveryLease`
establishes it: a script compares it, and so does everything that is behind
`raise_if_lost` with its deadline. The gate before an attempt is not: it reads the
local lost flag only (`kernel/lifecycle.py:1141`), which the heartbeat sets when it
runs, so a handler that stalled past its lease may start an attempt
(`StartAttempt`) or find the flag set (`Leave`). The variables `settled`, `owed`,
`refused`, `resolved`, `slices`, `pubs` and the two `since` clocks are history for the properties.

### FencedDelivery

The abstract promise of the lease, without clocks, requests or processes: an
entry gets an owner only when it has none and nobody acts on it, ownership of a
pending entry ends only after authority has, only the owner settles and only an
unsettled event, only the owner parks, and the entry leaves the group when its
outcome is durable: settled, marked, buried, parked, or waived by an entry that is
backed.
`DeliveryLease!ImplementsFence` maps the owner to the lease key and the acting
tokens to the handlers with authority.

### CapacityWait

One event, ordinary (one stream entry) or an approval resume (two, because the
producer may repeat its XADD). `stream` holds its entries with their pending
rows and leases, `rec` the wait record, `left`, `due` and `fly` the deadline, the
due index and the flight index, `claim` the event-level claim of `_CLAIM_RESUME_LUA`,
`adm` what the runner remembers of each turn epoch. A handler follows
`Consumer._handle` and `_process_event`: claim the resume, prepare it, check the
wait, adopt or open a turn, begin the grant, be admitted, confirm, answer, or
park again; past the deadline it resolves the grant, stops the epoch, replies,
completes and notes the expiry. The wake loop (`Wake`), the reconciler of the
flight index (`Reconcile`), the notice loop, dead-letters and the reclaim of a
row run beside it. One step is one call with the checks its caller makes on the
reply; a process, a lease, a reply, the runner or a send may be lost between any
two (`MaxFault`).

The lease of a delivery is what `DeliveryLease` shows it to be: `Ack` relies on
`AckUnderOwnLease`. Four pairs of calls are one step because nothing writes in
between or the second is repeated until it succeeds: check_delivery and
is_terminal, prepare_resume and its get, flag_expiry and its get, reconcile and
its mark_terminal. A dead-letter is one step; its parts are in `DeliveryLease`.

### UpgradeDrain

A revision is one `helm upgrade`: drain, attest, schema-migrate, hold, roll,
release. Helm runs one at a time but may give up on a hook whose process runs
on, so processes of an older revision overlap a newer one. `mark` is the pair of
marker keys with their revision and remaining life; `gate` and `scan` follow
`run_gate` and its page-by-page scan of both lanes; `mig`, `authority` and `call`
follow `upgrade_with_pause` and its renewals, whose answers may be late or lost;
`hook` is the process of the attest and the hold hook, apart from what Helm makes
of it: a call that raises, a pod killed before or after its renewal, an answer
that is lost, and a hook that goes on after Helm gave up are all in it;
`stray` is a cancelled write that Valkey may still execute. The claiming loops
look at the marker and then block in XREADGROUP: two steps. `old` loops read the
legacy key, until the roll replaces them. `accepted` and `pause` are history.

### WorkItemLedger

One WorkItem (`item`), its execution requests (`req`) and what each worker
believes of them (`run`, `term`). An endpoint or a reconciler step is one
PostgreSQL transaction that locks the WorkItem and then the request and checks
every condition again, so each is one action; workers, webhooks, the reconciler
and the clock interleave between them. A label, a mention and a removal also hold
the advisory lock of their issue (`lock_issue`, `api:github_factory.py:208`) from the
first look for the event's row to the outer commit, because dispatch runs in
savepoints there (`api:github_factory.py:441`); the poll, the label reconciliation
and the tracker intake take the same lock. So the look, the admission and the
snapshot are one step (`Label`, `Mention`), and a second caller of the event finds
its row. Only a stored relabel leaves no row: when the removal of the label has
dropped it, the second caller admits it again (`LabelAgain`). The admissions endpoint
(`Admit`) takes no such lock and commits the row before the snapshot, and
`admit_pending_readmit` commits before it too: `WriteSnapshot` is a step of its own
for these two. A deadline is the fact whether it has passed. A wake
and a stop notice are fields of the row: a generation that is superseded takes
its wake and its runs with it, because every write of an older one is refused.
`Adopt` is the resume of a parked turn, under the epoch the row has: a worker looks
at its own runs and settlements only, as the code does, so two workers can have
adopted one request.

## 3. What the runs check

| Run | Instance | Shows |
|---|---|---|
| lease_replicas | two replicas, TTL 3, heartbeat 1, delay 1, two deliveries and two tokens, one maintenance dead-letter | `OneAuthority`, `AuthorityIsLeased`, `AckUnderOwnLease`, `SettledOnce`, `NeverLost`, and the refinement `ImplementsFence` |
| lease_slots | two slots of one process that share `_held_leases`, a budget of one | `BudgetNeverExtended` |
| reclaim_races | two replicas, both loops at each, contended slots, one crash | `ClaimsWithinCap`, `TransferOnlyFromDead` |
| reclaim_recovery | one replica sweeps; two crashes, or a crash and a failing call | `OrphanRecovered`, also when the arbitrating replica dies |
| thread_lock | three tasks in two processes, one with an ownerless token, two tokens each, bodies that may outlast the TTL | `OneInside`, `TokenMeansAlone` |
| outbox_one | one delivery, two handlers, one sweeper, with or without a lease store and a reply target, turns and slices, one lapse, one fault | `Accounted`, `EmitsOnlySettled`, `SliceHasOneSuccessor`, `FinishedNotRerun`, `EffectNotRepeated`, `OwedIsResolved` |
| outbox_duplicates | two deliveries, two namespaces, every way an emit fails, under leases | `CauseObserved` |
| capacity_wait | two handlers, budget 2, retry 1, two deliveries per entry, two epochs, six entries, one fault | `NeverLost`, `OneAtWork`, `Truthful`, `NoQueuedAfterReply`, `ComesToRest` |
| upgrade_drain | two revisions, one entry in the lane scanned last, one claiming loop, one fault | `AcceptedSettled`, `PauseBounded`, `RollUnderPause`, `ApplyUnderPause`, `EverySettles` |
| ledger_rows | one worker, two requests, one removal of the label, one fault | `CancelledIsQuiet`, `EveryRequestEnds` |
| ledger_workers | two workers, one request, one removal, three faults | `OwnerSpeaksAlone` |
| ledger_three | one worker, three requests, no removal, no fault | `OneActive`, also when the admissions endpoint overtakes a stored relabel |

Each module's `TypeOK` is checked by one of its runs.

Bounds. Every constant marked `bound` in a module caps a counter. Two replicas
are every role a race over one row needs: the owner and the one that takes over;
the proofs lift the number, and the other bounds, for the safety properties. TTL 3 with heartbeat 1 is the
smallest ratio the validator accepts (`ttl >= 3 * heartbeat`), and a delay of
one heartbeat is the largest the reserve covers. Two tokens are a holder and its
replacement; two deliveries reach the cap. In `ReclaimScan` idle time saturates
at the backstop and the count above the cap, because no guard tells larger
values apart, and three idle units separate a fresh row, one past the lease and
one past the backstop. In `ThreadLock` two tokens are a leftover and a
contender for it, and one restart per process makes a leftover of the same
name; `MaxFault` is one failing call, which every path must survive.
In `CompletionOutbox` two generations are the record an emitter read and its
replacement, a retention of two with a marker life of one separates the two
expiries, and one lapse or one fault is one lost lease, reply, call or process;
no guard counts further. In `CapacityWait` six entries are two copies of a resume
and what the wakes of two epochs, a retry and a terminal copy append, and
`MaxEpoch` 2 is an epoch that was lost and its successor. In `UpgradeDrain` two
revisions are an abandoned upgrade and the next, and an entry of the second lane
is claimed while the first is scanned. In `WorkItemLedger` two requests are the
one that runs or stops and the one that is queued, stored or admitted behind it,
and the third of ledger_three is the one that gets in between;
a removal makes the WorkItem terminal and a later label opens it again; a start
limit of one makes the first deferral the last, and two in ledger_workers
reaches a second generation.
`lease_*` hide the fields of lease objects that no slot, process or live request
refers to (`View`); the symmetries are of replicas, slots or tasks that no
constant tells apart. The ledger runs do not check deadlock: a WorkItem whose
requests have ended and whose bounds are used up stops.

Larger instances, checked once and too slow to repeat: reclaim_recovery with a
slot that other entries contend for (0.36 million states); upgrade_drain with two
faults, safety only (3.3 million); capacity_wait with two faults, safety only
(5.4 million), and with the invariant `Story` of section 4, four deliveries per
entry, four entries and two faults (7.9 million); WorkItemLedger with two workers
and two requests, one removal and one fault, the safety invariants (3.9 million),
with two workers, one request and three faults under fairness, and with two
removals, one worker and two requests (0.3 million). The largest runs are
outbox_duplicates (4.6 million states), lease_replicas (2.1 million) and
ledger_three (2.0 million).

Fairness. `ReclaimScan!Fairness` (reclaim_recovery): time passes; a call under
way returns or raises (`PassStep`, the client has socket timeouts); a handler
ends (its budget); the entries that compete for a slot end; `asyncio.Semaphore`
and `asyncio.Lock` wake their waiters in order, so a loop that waits for a slot
or for `_reclaim_lock` is served although others keep coming (strong fairness of
`Acquire` and of the maintenance tick); the supervisor restarts a process; a TTL
runs out. Nothing is assumed of the prompt loop, of renewals, of the read loop or
of success.

`CompletionOutbox!FairSpec` (outbox_one) assumes that time passes and that a
sweeper keeps taking its steps: the maintenance loop sweeps on every tick and
every emit has the sink's timeout. No handler has to take another step, and an
emit may fail for ever: then the retention limit resolves the completion.

`CapacityWait!Fairness` (capacity_wait): handlers go on (each call has a
timeout), some worker keeps reading, reclaiming and dead-lettering, the wake,
flight and notice loops run, keys and leases expire, clocks advance. Nothing is
assumed of capacity: a turn may be refused until the deadline.

`UpgradeDrain!Fairness` (upgrade_drain): pods run, Jobs have deadlines, the
claiming loops run, deliveries have a budget and clocks advance. Helm and its
operator may stop at any point: no hook is assumed to follow another.

`WorkItemLedger!Fairness` (ledger_rows): the reconciler's loop runs each of its
steps again and again, deadlines pass, a terminate wake is read and its teardown
ends, a worker that is down is started again. Nothing is assumed of acquiring,
starting, beating, reporting or publishing: a request nobody takes expires.

## 4. What is proved

`DeliveryLeaseProofs` proves, for any sets of consumers and slots, any number of
tokens and deliveries, and any TTL, heartbeat and delay with
`LeaseTTL >= 3 * Heartbeat`, `Heartbeat > 0`, `MaxDelay <= Heartbeat`:
`TypeOK`, `OneAuthority`, `AuthorityIsLeased`, `AckUnderOwnLease`,
`SettledOnce`, `NeverLost` as invariants and `BudgetNeverExtended` as an action
property.

None of them is inductive alone. `IInv` adds, in named conjuncts, what requests
and lease objects know about the server:

- tokens: each slot's token is drawn, belongs to one slot, and every token of a
  request or of the key has been drawn (`OwnTokens`, `DrawnTokens`,
  `DrawnRequests`, `FreshToken`, `Untouched`), and requests of one kind and
  token are unique and carry their slot's generation (`Requests`,
  `UniqueRequests`, `RequestTokens`);
- `Leased`, the core: while the row is pending and a lease object is neither
  lost nor past its window, its token is in the key and the key outlives the
  window, and the window of a renewal under way, by a heartbeat. It needs the
  window to be anchored at the send and a late renewal only ever to extend;
- `LeasedAck`: a fenced XACK in the network was sent inside the window, so that
  `MaxDelay <= Heartbeat` brings it to Valkey before the key expires;
- `TurnIsFirst`: a handler in its turn that still holds the key is the first to
  settle; `OutcomeFirst` and `AckAfterOutcome`: every path to XACK passes an
  outcome, the marker-less return of a backed entry included.

Each conjunct has a step lemma, by cases over the actions; frame lemmas
(`HolderStays`, `LeaseStays`, `WindowStays`, `SlotTokenStays`, `RequestOrigin`)
say once which actions leave what alone.

`CompletionOutboxProofs` proves, for any handlers, sweepers, deliveries,
namespaces, generations and time constants with `IdemTTL <= Retention` and
`Grace <= Retention`: `TypeOK`, `EmitsOnlySettled` and `CauseObserved`, and
`Accounted` under the assumption `FALSE \notin Leased`. Four invariants carry
them:

- `TypeInv` adds to `TypeOK` that what an actor acts on names a record and a
  generation (`InHand`, `EntryInHand`), which makes the scripts' comparisons
  meaningful, and that an event without a reply target has no slice;
- `SettledInv`: every place an emit takes its generation from holds only settled
  ones: a done record, the published marker, a sweeper's old reading, the hand;
- `CauseInv`: an emitter about to note a refusal has seen one of its generation;
- `AccountedInv`: nobody is in the leaseless settlement, and who is about to
  clear has confirmed the generation it will compare.

The frame lemmas (`MarkerFrame` to `TodoFrame`) say which actions touch which
part of the state, and `Entered` which actions bring an actor to a label that an
invariant speaks of.

`DeliveryLeaseRefinement` proves `LeaseImplementsFence`: under the same
assumptions every behaviour of `DeliveryLease` is one of `FencedDelivery`. A step
is classified by what it does to authority (`AuthorityStays`, `LostStays`,
`ActingShrinks`), to the key (`KeyStays`: while somebody has authority over the
pending row the key neither ends nor changes; `KeyEnds`, `FreeKey`) and to the
durable outcome; `GrantStep`, `ConfirmStep`, `RemoveStep` and `LapseStep` map the
classes to abstract actions and `FenceStep` combines them. `IInv` gives each
abstract guard: that the key is free when it is granted and that nobody acts
then, that a confirmed renewal is the owner's, and that an outcome precedes XACK.
An unfenced mark, a marker-less return and a park map to `Mark`, `Waive` and
`Park` of the abstract fence.

`WorkItemLedgerProofs` proves, for any workers, requests, limits and numbers of
faults: `TypeOK`, `OneActive`, `CancelledIsQuiet` and `OwnerSpeaksAlone`. `IInv` adds

- `Shape`: what the rows together allow when a transaction inserts or promotes
  one: no row beyond the ones asked for, two active rows are one, a stopping row
  has a cause that stops, nothing is taken up while the WorkItem is cancelled;
- `Voices`: the epoch of a request advances at every start and every termination
  claim, no handler has an epoch the row has not reached (`Bounded`), a run that
  beats or a claimed termination has the current epoch alone (`OneVoice`), and
  nobody beats for a request that is parked (`Muted`), which is what makes a resume
  under the same epoch harmless to an owner.

A transaction is described by what it does to the rows (a row is written, a
successor is inserted, rows end), and those descriptions preserve the invariant.

`ThreadLockProofs` proves, for any processes and tasks and any durations with
`Drain < Proof` and `MaxDelay < LockTTL`: `TypeOK`, `OneInside` and
`TokenMeansAlone`. The core of `IInv`:

- `Proven` and `Harmless`: a steal is only ever sent for a token that no task has
  any more (`Retired`), because its boot is over or because a whole proof has
  passed since its owner was seen without liveness, in which the owner's
  generation has ended; a late release is of a retired token too;
- `Secure`: the key of a task inside holds its token, and outlives it, until a
  whole TTL has passed since its last confirmed call (`Since`), and a late SET
  is younger than the key it would renew.

`UpgradeDrainProofs` proves, for any finite sets of revisions and entries, any
lanes and page size, and leases ordered as `DrainAssumption` says: `TypeOK`,
`AcceptedSettled`, `PauseBounded`, and the action properties `RollUnderPause` and
`ApplyUnderPause`. `IInv` is a conjunction over revisions:

- `Covers`: what was accepted before the marker and is not settled is still
  ahead of the scan (`Ahead`: a later lane, beyond the cursor, on the page or
  after a full one), or the scan has already seen something alive;
- `Verdict`, `Hooked`, `Fresh`, `Serial`: what a verdict, a record and each hook
  presuppose;
- `Pair`, `Held`, `Broken`: whose the two keys are, and that a broken pause is not
  made again by any late write unless a newer gate has started;
- `Trusted`: the deadline a migration goes by is before the end of the lease;
  `Bounded`: and the lease ends with its phase, where the roll hold begins with the
  execution of the hold hook's renewal and not with Helm's answer to it.

The scan's next page is the smallest entries beyond the cursor: that a finite set
of entries has a smallest and a largest is proved from the library's
`WFMin` and `NatLessThanWellFounded` (`SmallestExists`, `LargestExists`).

`ReclaimScanProofs` proves, for any replicas, cap and windows with
`MaxStall < ExpiredIdle` and the rest of `ScanAssumption`: `TypeOK` and the action
properties `ClaimsWithinCap` and `TransferOnlyFromDead`. The two races of a
compare-and-claim are settled by different means, and `IInv` has a part for each:
`Snapshot` says that the row is as the page showed it (`AsRead`) or was claimed
since and cannot be idle enough again while the snapshot lives (`Outrun`);
`Arbitration` that two passes over one consumer's rows exclude each other;
`Silenced` that this consumer is down, or restarted and waits for the
arbitration of its own rows, so that `Generation` leaves it without handlers.

`CompletionOutboxProofs` proves three more properties under the hypothesis
`OneEntry`, that one stream entry carries the event: `SliceHasOneSuccessor`,
`FinishedNotRerun` and `EffectNotRepeated`. The last two speak of handlers that have
their lease when they begin an attempt (`Starts`); `FinishedNotRerun` also says that
nobody, a stalled handler included, settles a second outcome. A lease excludes every other
handler (`HoldInv`), a marker that was absent when its holder looked is absent
until the holder writes it (`MarkersLast`, `NothingRecent`), and a script that is
repeated under the lease finds its own published marker (`MintedInv`,
`PublishedOnce`). The hypothesis is needed: with two entries, outbox_one's other
constants, a lease store and no lapse, TLC finds a script executed, the slice of
the other entry settled, which replaces the one published marker of the event,
and the client's repetition of the first script publishing again.

`CapacityWaitProofs` proves, for any handlers, budgets, delivery caps and any
number of epochs, entries and faults: `TypeOK`, `OneAtWork`, `NeverLost`,
`Truthful` and `NoQueuedAfterReply`. `IInv`:

- `Generations` and `Copies`: only the entry of the last wake carries the
  generation of the record, which tells the copies that wakes appended apart;
- `Duplicates`: the duplicates of a resume are told apart by the claim instead;
  `Leases` and `Places` say who can be where with what in hand;
- `Kept`: until there is a record, an entry is accounted for (not acknowledged,
  or delivered as often as the cap allows), and an acknowledgement is only of a
  duplicate of another such entry; afterwards an index names the record;
- `Paid`: each generation of the record is paid by an entry that was appended or
  acknowledged, which bounds generations by twice the entries (`MaxGen`).

Its steps are sorted by shape (`Loosened`, `Moved`, `Retired`, `Deliver`, `Claim`,
`Adopt`, `Append`): one lemma per shape and part of the invariant, then one per
action that says which shape it has.

`Truthful` and `NoQueuedAfterReply` need a second invariant, `Story`, that holds
beside `IInv`. What a wait reports is decided in several calls by handlers of
which all but one may have lost their lease, so it follows what can still happen
to the wait:

- `Tied`: a handler with authority that is past the grant, or ends the wait, works
  under the record's generation;
- `Over`: whoever ends the wait, the reply and a terminal copy come only when the
  wait is `Ended` (settled, or past its deadline with nobody left who could open a
  turn under it);
- `Noticing`: a queued notice under way holds the lock and the event still waits.
  With `Over` this is `NoQueuedAfterReply`: an ended wait does not wait again;
- `InFlight`: the flight index falls due no sooner than the deadline, so that the
  reconciler appends a terminal copy only to a wait that is past it;
- `Grants`: before the record knows of a grant (`ever`), only a turn of its own
  epoch may have been started, and the runner's decisions are final or open;
- `Hand` and `Reports`: a handler flags an expiry only when the last epoch is
  accounted for (`Judged`), and a cause in a handler's hand or in what was told is
  true (`TrueCause`). The cause in the record is the exception: the reconciler
  writes "could not start" before the last epoch is known to be stopped, and
  nobody acts on it until the handler of the terminal copy has flagged it again.

Most steps are `Ordinary` (the record is annotated, the runner settles) with
handlers that stay, stop or go on (`Follows`, `Arrives`); a grant, a park, a wake,
an adoption and a settlement have lemmas of their own.

Every inductive invariant was an invariant of a TLC run on its module's
constants before it was proved. Leaves that need more than the default time name
their prover and its limit (`SMTT(30)`, `ZenonT(40)`). The theorems of a module
rest on the assumption its `ASSUME` names, which TLC evaluates in each run, and
on nothing else but the hypotheses above.

Only model-checked:

- liveness: `OrphanRecovered`, `OwedIsResolved`, `ComesToRest`, `EverySettles`,
  `EveryRequestEnds`. Fairness and ENABLED are outside what this prover does;
- nothing at all of duplicate entries for `SliceHasOneSuccessor`, `FinishedNotRerun`
  and `EffectNotRepeated`: they are false there and stated for one (section 5);
- what is backed elsewhere comes to an end there: `EveryRequestEnds`, `ComesToRest`.

## 5. Assumptions

- Monotonic clocks run at the rate of Valkey's clock; a request is executed
  within `MaxDelay <= Heartbeat` of being sent or never. The code has socket
  timeouts but no bound on a request already in a kernel buffer.
- `ReclaimScan`: a page row is claimed within `MaxStall < ExpiredIdle` of its
  XPENDING. Otherwise comparing idle times could not see a competing transfer.
  The arbitration key outlives a pass (its TTL is at least a minute), and its
  release succeeds when its holder is up. `ClaimsWithinCap` speaks of the
  compare-and-claim passes: XAUTOCLAIM at the backstop may hand an over-cap row
  out once more, because it sees a later state than the scan before it.
- `ThreadLock`: a generation that lost its liveness has ended its tasks within
  `Drain < Proof` (nothing in `_cancel_and_join` bounds it), and a late call comes
  before `LockTTL`. `OneInside` excepts a body that has lasted a whole TTL
  (`Overdue`): the comment on `lock_ttl_ms` asks that none does and no validator
  enforces it. Work in threads (`asyncio.to_thread`) ends with its body.
- `CompletionOutbox`: `Accounted` holds with a lease store or with one delivery
  of the event; a leaseless consumer with two would overwrite a done record by
  `mark_completion_pending`. `EffectNotRepeated` speaks of the time the
  side_effect marker lives, `idempotency_ttl_s`: shorter by default than the
  retention for which comments promise side effects at most once. The client
  repeats a call for less than a tick. `SliceHasOneSuccessor`,
  `FinishedNotRerun` and `EffectNotRepeated` are statements about one delivery:
  two deliveries of one event that both passed the terminal check both run, and
  a repeated slice script finds the other's published marker; the successors
  then carry one event id. `FinishedNotRerun` and `EffectNotRepeated` also leave
  out the attempt of a handler that lost its lease and has not noticed (section 6).
- `CapacityWait`: the notice lock outlives a send (`_notice_lock_ttl_ms` compares it with
  the send's timeout). The order of waits within a thread is one of the
  reasons of `NoCapacity`. `Truthful` speaks of turns opened under the wait: work
  that a raw first attempt had begun before it parked is not counted.
- `UpgradeDrain`: `MaxReply < Interval < Handoff`, as the defaults of the socket
  timeout, `PAUSE_RENEW_INTERVAL_S` and `PAUSE_LEASE_S` are. `RollUnderPause` and
  `ApplyUnderPause` except a gate that failed after its record was written
  (`gate[r] # "ok"`): with three faults (the SET of the record raises although it
  was executed, the drain Job is deleted under Helm, a cancelled heartbeat is
  executed late) the roll can follow it. `PauseBounded` follows the docstring of
  `run_gate`: "A failure after hold can still pause claims for the roll hold", and so
  does one in it, once the renewal was executed. A hook Job has no retry
  (`backoffLimit: 0`) and Helm's reaction to it is not timed.
- `WorkItemLedger`: a second termination claim during a teardown is counted as a
  fault, because the first teardown must have outlasted its lease. The WorkItem
  exists (`create_or_get_work_item`). `_defer_factory_refusal` is `Acquire`
  followed by `Defer`. What a report says beyond how the request ends is not kept.

## 6. Findings

No run shows a violation. Seven sentences of the code, or ones a reader may take
from it, do not hold as they stand. Each is a definition of its module and in no
run; adding it to the named configuration gives the counterexample.

1. `NotSettledUnderneath` (`DeliveryLease`, action property, constants of
   lease_replicas). `_dead_letter_refusal` (`stream_consumer.py:1115`) says that a
   new owner's delivery "must not be settled underneath it". It reads the lease
   once; the plain XACK and the deletion of the lease keys that follow are
   separate calls, and a replica that acquires in between loses its row while it
   works. The outcome is not lost: the graveyard has the row (`NeverLost`).
2. `RecordIsIndexed` (`CompletionOutbox`, invariant, constants of
   outbox_duplicates with one namespace and no fault). `clear_completion`
   (`markers.py:987`) says that "the set and the payload can never diverge
   durably". A sweeper that found a member without a payload removes the member by
   a plain SREM (`markers.py:1046`); if a duplicate delivery settled a new record
   in between, no sweep will find it. Its own handler still emits it, and a skip
   does if its row is delivered again. `OwedIsResolved` leaves such a record out.
3. `DrainedMeansIdle` (`UpgradeDrain`, invariant, one revision, no fault).
   `upgrade_drain.py:23` says "so no replica in that installation takes new work"
   and the gate logs "no delivery is in flight" (line 774). `_consume` looks at
   the marker and then blocks in XREADGROUP: a loop that looked before the marker
   was written claims one more batch and leases it after the scan. What was
   accepted before the marker is settled (`AcceptedSettled`).
4. `TranscriptGone` (`WorkItemLedger`, invariant, constants of ledger_rows). "a
   WorkItem's transcript is deleted in the transaction that makes the WorkItem
   terminal" (`api:transcripts.py:14`). A transcript kept because a relabel was
   stored stays when the label is removed again: the branch of
   `request_cancellation` for a WorkItem that is cancelled already
   (`api:workitems/lifecycle.py:1938`) drops the relabel and does not expire it.
5. `AnsweredIsDone` (`CapacityWait`, invariant, constants of capacity_wait with four
   deliveries per entry, two entries and two faults, deadlock not checked because
   two entries stop a second wake; the default of `max_delivery` is five). `raise_if_lost` (`delivery_lease.py:345`) is to come before "any other
   terminal write" and says that an owner without its lease "may not ... emit a
   terminal result". `flag_expiry` (`capacity_wait.py:1167`, called at
   `consumer.py:482`) is not behind it and its script does not compare the lease. An
   owner that lost its lease after it judged the wait expired can flag it while its
   successor opens the next epoch; `_CONFIRM_GRANT_LUA` leaves the cause of an
   active record as it is, the successor answers, and `mark_terminal` closes the
   answered wait as expired: the notice loop tells the thread that the work
   "started but could not finish" after the answer. `Truthful` allows it, because
   the work did start.
6. `NoStaleAttempt` (`CompletionOutbox`, action property, constants of outbox_one).
   The loop over attempts asks `lease.lost.is_set()` before each
   (`kernel/lifecycle.py:1141`), a flag that the heartbeat sets. A handler that
   passed the terminal check, stalled until its key expired and runs again before
   its heartbeat does starts the turn that its replacement has settled. It records
   no effect and settles nothing (`FinishedNotRerun`, second conjunct), but the
   sandbox sees the turn twice.
7. `OneSpeaker` (`WorkItemLedger`, invariant, constants of ledger_workers).
   `_adopt_resumed_work_item` refuses "an active or settling delivery" of the request
   (`kernel/work_items.py:334`) by what its own process remembers, and goes on under
   the epoch of the row (line 381). A worker that adopted a parked request and
   stalled past its lease, and the one that adopted it after, both have an epoch
   the ledger accepts: whichever finishes first is believed. `OwnerSpeaksAlone`
   is what remains.

Two observations without a definition: `admit_pending_readmit` says "Never commit
a request that cannot be dispatched" and commits the request and its snapshot
separately: a process that ends in between leaves a request that is not
published until the label event is replayed or its wait deadline ends it; and a teardown is scoped to the thread,
so one that was claimed before a relabel started may meet the sandbox of the
newer request.

## 7. Not modelled

The map covers the coordination core: the streams, leases, locks, markers and
ledgers that several processes write. The repository has some 377,000 lines; the
rest is left out for these reasons, by component in `PROJECT.json`:

- without state of its own that two actors change: the UI, the CLI, chat
  adapters, protocol and telemetry packages, the docker daemon's request policy,
  `src/tools` and the end-to-end harnesses, the charts beyond the upgrade hooks;
- I/O with Kubernetes, the model provider or a forge, whose own behaviour would
  have to be invented: sandboxes, the runner session beyond its admission gate,
  workspaces and bindings, cron and connector loops;
- separate systems of the size of the worker: protected lanes with their launch
  registry, approvals, actions and publications of the API, identities and
  configuration behind PostgreSQL transactions;
- the eval lane, which shares the modelled base and runs its handler inline, and
  the dispatcher, whose enqueue-once guard precedes the first modelled step.

In the modelled parts:

- stream consumer and lease: `entry_eligibility` (None on the runs lane), the
  vanished-entry notice, group creation; the capability key is folded into the
  proof of absence; a bootstrap that raises ends the generation, as `Crash` does;
  a page has one row.
- outbox: malformed records and their quarantine (every writer sets the fields),
  the thread-order index, the marker without expiry of a history-capacity refusal
  (it only lasts longer), the answer and `turn.completed` as two sends (both are
  repeated), batch and budget of a sweep beyond its early end.
- capacity wait: prune and retention of records, the suppression of notices for
  HTTP identities, the pause of the wake loop during an upgrade, calls cancelled
  in flight, and defensive branches that no state reaches.
- upgrade drain: the status and observer modes, which only read.
- work-item ledger: base transitions (what a request that waits for another base
  does), CI fix rounds (`hold_for_ci_fix`), tracker comments and issue text, the
  sandbox, a heartbeat that arrives after a hold, and a second caller of a stored
  relabel that stalls between its look for the row and the WorkItem's lock while the
  reconciler, which does not take the lock of the issue, admits the relabel and its
  request ends.

## 8. Plan

1. Proofs: an abstract specification of the wait, as `FencedDelivery` is of the lease.
2. Modules: base transitions and CI fix rounds as actions of `WorkItemLedger`;
   approvals and action execution as a ledger of their own.
