-------------------------- MODULE WorkItemLedger --------------------------
(***************************************************************************)
(* The ledger of one WorkItem of the factory: which of its execution       *)
(* requests runs, who runs it, and how each of them ends.                  *)
(*                                                                         *)
(* The rows are PostgreSQL's.  An endpoint or a reconciler step is one     *)
(* transaction that locks the WorkItem, then the request, and checks       *)
(* every condition again under those locks, so each is one action here;    *)
(* the versions that callers pass only turn more calls into refusals.      *)
(* Workers, label webhooks, the reconciler and the clock interleave        *)
(* between transactions.  A deadline or a lease is the fact whether it     *)
(* has passed, because nothing in the ledger compares two of them except   *)
(* the runtime lease that hold_for_approval sets to the execution deadline *)
(* ("held").                                                               *)
(*                                                                         *)
(* Labels, mentions and the removal of the label also hold the lock of     *)
(* their issue (lock_issue) from the first look to the outer commit.       *)
(*                                                                         *)
(* Base transitions, CI fix rounds, tracker text and the sandbox itself    *)
(* are left out; a publication of the request is its outcome only (pr).    *)
(***************************************************************************)
EXTENDS Naturals, FiniteSets

CONSTANTS
    Workers,     \* consumer names of worker processes
    NoOne,       \* no owner
    StartLimit,  \* work_item_start_deferral_limit
    RetryLimit,  \* OWNER_LOST_RETRY_LIMIT
    MaxReq,      \* bound: execution requests ever asked for
    MaxUnlabel,  \* bound: removals of the label that cancel the WorkItem
    MaxFault     \* bound: lost replies, crashes, failed teardowns, late calls

ASSUME LedgerAssumption ==
    /\ NoOne \notin Workers
    /\ {StartLimit, RetryLimit, MaxReq} \subseteq Nat \ {0}
    /\ {MaxUnlabel, MaxFault} \subseteq Nat

Ids == 1..MaxReq
Active == {"waiting", "running", "stopping"}
Ended == {"completed", "failed", "expired", "cancelled"}

VARIABLES
    item,        \* the WorkItem: cancelled_at, the stored relabel, next_sequence
    req,         \* its execution requests
    asked,       \* how many request ids have been used
    run,         \* the WorkItemRun of each worker and request
    term,        \* the epoch of each termination a worker has claimed, or 0
    up,          \* worker processes that are running
    transcript,  \* the thread has a stored transcript
    unlabels, faults

callers == <<asked, unlabels>>
workers == <<run, term, up>>
vars == <<item, req, callers, workers, transcript, faults>>

(* A row as _insert_waiting_request and create_revision_request write it.  *)
(* Every write that advances dispatch_generation clears the acquisition    *)
(* and leaves the new generation unpublished.  What belongs to an earlier  *)
(* generation is refused, whatever its number, so the model forgets the    *)
(* wake and the runs of one.                                               *)
Row(status, seq, snapshot) ==
    [st |-> status, cause |-> "none", seq |-> seq, snap |-> snapshot,
     pub |-> FALSE, wake |-> FALSE, acq |-> NoOne, acqLive |-> FALSE, fails |-> 0,
     waitOver |-> FALSE, execOver |-> FALSE, owner |-> NoOne, epoch |-> 0,
     hb |-> "none", told |-> FALSE, stop |-> FALSE, overdue |-> FALSE, owed |-> FALSE,
     pr |-> "none"]

NoRow == Row("none", 0, FALSE)
NoRun == [pc |-> "idle", epoch |-> 0, beats |-> FALSE]

Init ==
    /\ item = [cancelled |-> FALSE, readmit |-> 0, next |-> 1]
    /\ req = [r \in Ids |-> NoRow]
    /\ asked = 0
    /\ run = [w \in Workers |-> [r \in Ids |-> NoRun]]
    /\ term = [w \in Workers |-> [r \in Ids |-> 0]]
    /\ up = Workers
    /\ transcript = FALSE
    /\ unlabels = 0
    /\ faults = 0

---------------------------------------------------------------------------
(* Reading and ending rows *)

In(rows, S) == {r \in Ids : rows[r].st \in S}

(* lock_active_request *)
ActiveReq == In(req, Active)

(* a fault of the environment: a lost reply, a crash, a call that fails *)
Fault == faults < MaxFault /\ faults' = faults + 1

(* settle_terminal: a request that ends takes the transcript with it unless *)
(* something continues the WorkItem.                                        *)
SettleTerminal(rows, itm) ==
    transcript' = (transcript /\ (\/ In(rows, Active \cup {"queued"}) # {}
                                  \/ itm.readmit # 0))

(* A row that moves on keeps in the model only what is read of it later.   *)
(* One that ends: status, terminal_cause.                                  *)
End(row, status, cause) ==
    [NoRow EXCEPT !.st = status, !.cause = cause, !.seq = row.seq,
                  !.epoch = row.epoch]

(* one that starts: the worker owns it under the next epoch *)
Running(row, w) ==
    [NoRow EXCEPT !.st = "running", !.seq = row.seq, !.snap = row.snap,
                  !.owner = w, !.epoch = row.epoch + 1, !.hb = "live"]

(* one that is running and is asked to stop *)
Stopping(row, cause, hb) ==
    [row EXCEPT !.st = "stopping", !.cause = cause, !.hb = hb, !.execOver = FALSE,
                !.pr = IF cause = "owner_lost" THEN @ ELSE "none"]

(* _release_parked_hold: an explicit stop ends a hold, a short lease is kept *)
Release(hb) == IF hb = "held" THEN "late" ELSE hb

(* Mutant: the queued mentions are left. *)
KeepQueued(rows) == rows

(* _cancel_queued_requests *)
CancelQueued(rows) ==
    [r \in Ids |-> IF rows[r].st = "queued"
                   THEN End(rows[r], "cancelled", "issue") ELSE rows[r]]

(* owner_lost_streak: ended requests, newest first, as long as they were lost *)
Streak(rows) ==
    LET ended == In(rows, Ended)
        other == {r \in ended : rows[r].cause # "owner_lost"}
    IN Cardinality({r \in ended : \A o \in other : rows[o].seq < rows[r].seq})

---------------------------------------------------------------------------
(* Labels, mentions and the removal of the label *)

(* create_execution_request once nothing is active, for an event that has  *)
(* no row.  One that has a row is answered with it and changes nothing.    *)
CreateRequest(rows, itm, r, snapshot) ==
    /\ req[r].st = "none"
    /\ req' = [rows EXCEPT ![r] = Row("waiting", itm.next, snapshot)]
    /\ item' = [itm EXCEPT !.next = @ + 1]

(* readmit on a run that has to stop first: store the relabel *)
StoreRelabel(r, a) ==
    /\ req' = [req EXCEPT ![a] =
          IF @.st = "running" THEN Stopping(@, "issue", Release(@.hb))
                              ELSE [@ EXCEPT !.cause = "issue"]]
    /\ item' = [item EXCEPT !.readmit = r]

(* readmit and admit_pending_readmit: a relabel supersedes what waits *)
Superseded ==
    [a \in Ids |-> IF req[a].st = "waiting"
                   THEN End(req[a], "cancelled", "issue") ELSE req[a]]

(* the WorkItem that a relabel opens again *)
Reopened == [item EXCEPT !.cancelled = FALSE, !.readmit = 0]

(* lifecycle.readmit for a label event r that has no row yet *)
Readmit(r) ==
    \/ \E a \in In(req, {"running", "stopping"}) : StoreRelabel(r, a)
    \/ /\ In(req, {"running", "stopping"}) = {}
       /\ CreateRequest(Superseded, Reopened, r, TRUE)

(* A label event arrives, by webhook, poll or label reconciliation.  Every  *)
(* caller takes lock_issue (pg_advisory_xact_lock) before it looks for the  *)
(* row of the event and keeps it until the outer commit: dispatch commits   *)
(* savepoints.  So the look, the admission and the snapshot are one step,   *)
(* and a second caller of the event finds its row or its stored relabel.    *)
Label ==
    LET r == asked + 1
    IN /\ asked < MaxReq
       /\ asked' = r
       /\ Readmit(r)
       /\ UNCHANGED <<unlabels, workers, transcript, faults>>

(* A second caller of a label event that has neither: its relabel was       *)
(* stored, and the removal of the label or a later label dropped it, while  *)
(* this caller, whose poll read the event before, waited for the lock.      *)
LabelAgain(r) ==
    /\ Fault
    /\ r \in 1..asked
    /\ req[r].st = "none"
    /\ item.readmit # r
    /\ Readmit(r)
    /\ UNCHANGED <<callers, workers, transcript>>

(* admit, for the admissions endpoint: it takes no lock on the issue, and   *)
(* it commits the row before it writes the snapshot.                        *)
Admit ==
    LET r == asked + 1
    IN /\ asked < MaxReq
       /\ ~item.cancelled
       /\ ActiveReq = {}
       /\ asked' = r
       /\ CreateRequest(req, item, r, FALSE)
       /\ UNCHANGED <<unlabels, workers, transcript, faults>>

(* _write_snapshot, after admit or admit_pending_readmit has committed the  *)
(* row, or when the event of a row without one comes again                  *)
WriteSnapshot(r) ==
    /\ req[r].st = "waiting"
    /\ ~req[r].snap
    /\ req' = [req EXCEPT ![r].snap = TRUE]
    /\ UNCHANGED <<item, callers, workers, transcript, faults>>

(* create_revision_request: a mention runs now or queues behind what is there *)
Mention ==
    LET r == asked + 1
        idle == In(req, Active \cup {"queued"}) = {} /\ item.readmit = 0
    IN /\ asked < MaxReq
       /\ In(req, Active \cup Ended) # {}
       /\ ~item.cancelled
       /\ asked' = r
       /\ \/ idle /\ CreateRequest(req, item, r, TRUE)
          \/ /\ ~idle
             /\ req' = [req EXCEPT ![r] = Row("queued", item.next, TRUE)]
             /\ item' = [item EXCEPT !.next = @ + 1]
       /\ UNCHANGED <<unlabels, workers, transcript, faults>>

(* request_cancellation on a WorkItem that is cancelled already: the last  *)
(* label action wins, so a stored relabel is dropped.                      *)
UnlabelAgain ==
    /\ item.cancelled
    /\ UNCHANGED unlabels
    /\ req' = CancelQueued(req)
    /\ item' = [item EXCEPT !.readmit = 0]
    /\ UNCHANGED transcript

(* request_cancellation *)
UnlabelFirst ==
    /\ ~item.cancelled
    /\ unlabels < MaxUnlabel
    /\ unlabels' = unlabels + 1
    /\ item' = [item EXCEPT !.cancelled = TRUE, !.readmit = 0]
    /\ \/ \E a \in In(req, {"waiting"}) :
             /\ req' = [CancelQueued(req) EXCEPT ![a] = End(@, "cancelled", "issue")]
             /\ SettleTerminal(req', item')
       \/ \E a \in In(req, {"running"}) :
             /\ req' = [CancelQueued(req) EXCEPT ![a] =
                           Stopping(@, "issue", Release(@.hb))]
             /\ UNCHANGED transcript
       \/ \E a \in In(req, {"stopping"}) :
             /\ req' = [CancelQueued(req) EXCEPT ![a].cause = "issue"]
             /\ UNCHANGED transcript
       \/ /\ ActiveReq = {}
          /\ req' = CancelQueued(req)
          /\ transcript' = FALSE

Unlabel ==
    /\ asked > 0
    /\ UnlabelFirst \/ UnlabelAgain
    /\ UNCHANGED <<asked, workers, faults>>

---------------------------------------------------------------------------
(* The reconciler: every step is a transaction of its own *)

(* expire_waiting *)
ExpireWaiting(r) ==
    /\ req[r].st = "waiting"
    /\ req[r].waitOver
    /\ ~item.cancelled
    /\ req' = [req EXCEPT ![r] = End(@, "expired", "capacity")]
    /\ SettleTerminal(req', item)
    /\ UNCHANGED <<item, callers, workers, faults>>

(* request_execution_deadline_cancellation *)
DeadlineCancel(r) ==
    /\ req[r].st = "running"
    /\ req[r].execOver
    /\ ~item.cancelled
    /\ req' = [req EXCEPT ![r] = Stopping(@, "deadline", @.hb)]
    /\ UNCHANGED <<item, callers, workers, transcript, faults>>

(* AWAITING_PUBLICATION *)
AwaitsPublication(row) == row.pr \in {"flight", "opened"}

(* request_owner_lost_cancellation: a whole TTL past the runtime lease *)
OwnerLostCancel(r) ==
    /\ req[r].st = "running"
    /\ req[r].hb = "lost"
    /\ ~AwaitsPublication(req[r])
    /\ ~item.cancelled
    /\ req' = [req EXCEPT ![r] = Stopping(@, "owner_lost", @.hb)]
    /\ UNCHANGED <<item, callers, workers, transcript, faults>>

(* _unconfirmed_settle_teardown: owed, and no newer request owns the thread *)
TeardownDue(r) ==
    /\ req[r].st = "cancelled"
    /\ req[r].owed
    /\ ActiveReq = {}

(* Mutant: the wake is published once. *)
PublishTerminateOnce(r) ==
    /\ ~req[r].told
    /\ \/ req[r].st = "stopping" /\ (req[r].cause = "issue" \/ req[r].hb # "live")
       \/ TeardownDue(r)
    /\ req' = [req EXCEPT ![r].told = TRUE, ![r].stop = TRUE]
    /\ UNCHANGED <<item, callers, workers, transcript, faults>>

(* claim_terminate_publishes and the XADD of the terminate wake *)
PublishTerminate(r) ==
    /\ ~req[r].stop
    /\ \/ /\ req[r].st = "stopping"
          /\ req[r].cause = "issue" \/ req[r].hb # "live"
       \/ TeardownDue(r)
    /\ req' = [req EXCEPT ![r].told = TRUE, ![r].stop = TRUE]
    /\ UNCHANGED <<item, callers, workers, transcript, faults>>

(* settle_overdue_cancellation: no worker confirmed the stop in time.  The *)
(* epoch advances, so that a late receipt of the old owner is refused.     *)
SettleOverdue(r) ==
    /\ req[r].st = "stopping"
    /\ req[r].cause = "issue"
    /\ req[r].overdue
    /\ req[r].told
    /\ req[r].hb # "live"
    /\ req' = [req EXCEPT ![r] = [End(req[r], "cancelled", "issue") EXCEPT
                  !.owed = TRUE, !.epoch = req[r].epoch + 1, !.told = TRUE,
                  !.stop = req[r].stop, !.hb = req[r].hb]]
    /\ SettleTerminal(req', item)
    /\ UNCHANGED <<item, callers, workers, faults>>

(* Mutant: a request that was admitted meanwhile is left waiting. *)
AdmitReadmitBeside ==
    /\ item.readmit # 0
    /\ In(req, {"running", "stopping"}) = {}
    /\ CreateRequest(req, Reopened, item.readmit, FALSE)
    /\ UNCHANGED <<callers, workers, transcript, faults>>

(* admit_pending_readmit: the relabel that was stored behind a stopping run *)
AdmitReadmit ==
    /\ item.readmit # 0
    /\ In(req, {"running", "stopping"}) = {}
    /\ CreateRequest(Superseded, Reopened, item.readmit, FALSE)
    /\ UNCHANGED <<callers, workers, transcript, faults>>

(* admit_next_revision: the oldest mention, unless its pull request closed *)
AdmitNext(r) ==
    /\ item.readmit = 0
    /\ ActiveReq = {}
    /\ req[r].st = "queued"
    /\ \A q \in In(req, {"queued"}) : req[r].seq <= req[q].seq
    /\ \/ /\ req' = [req EXCEPT ![r].st = "waiting"]
          /\ UNCHANGED transcript
       \/ /\ req' = [req EXCEPT ![r] = End(@, "cancelled", "lineage")]
          /\ SettleTerminal(req', item)
    /\ UNCHANGED <<item, callers, workers, faults>>

(* An acquisition given back: the next generation, to be published again. *)
Redispatch(r, row) ==
    /\ req' = [req EXCEPT ![r] = [row EXCEPT !.pub = FALSE, !.wake = FALSE,
                                             !.acq = NoOne, !.acqLive = FALSE]]
    /\ run' = [w \in Workers |-> [run[w] EXCEPT ![r] = NoRun]]

(* redispatch_lapsed_acquisitions *)
RedispatchLapsed(r) ==
    /\ req[r].st = "waiting"
    /\ req[r].acq # NoOne
    /\ ~req[r].acqLive
    /\ Redispatch(r, req[r])
    /\ UNCHANGED <<item, callers, term, up, transcript, faults>>

(* claim_due, the XADD and fence_published.  A reconciler that fails after *)
(* the XADD leaves the generation unpublished and it is sent again.        *)
PublishWake(r) ==
    /\ req[r].st = "waiting"
    /\ ~req[r].waitOver
    /\ req[r].snap
    /\ item.readmit = 0
    /\ ~req[r].pub
    /\ \/ /\ req' = [req EXCEPT ![r].wake = TRUE, ![r].pub = TRUE]
          /\ UNCHANGED faults
       \/ Fault /\ req' = [req EXCEPT ![r].wake = TRUE]
    /\ UNCHANGED <<item, callers, workers, transcript>>

(* claim_publication_settlement, then terminalize_execution: an opened     *)
(* pull request is the terminus even after the deadline, with the verdict  *)
(* of its CI; a publication that failed ends the request before it.        *)
SettlePublication(r) ==
    /\ req[r].st = "running"
    /\ ~item.cancelled
    /\ \/ /\ req[r].pr = "opened"
          /\ \E status \in {"completed", "failed"} :
                req' = [req EXCEPT ![r] = End(@, status, "publication")]
       \/ /\ req[r].pr = "refused"
          /\ ~req[r].execOver
          /\ req' = [req EXCEPT ![r] = End(@, "failed", "publication")]
    /\ SettleTerminal(req', item)
    /\ UNCHANGED <<item, callers, workers, faults>>

---------------------------------------------------------------------------
(* A worker takes a request *)

SetRun(w, r, new) == run' = [run EXCEPT ![w][r] = new]

(* _check_acquirable, for the current generation *)
Acquirable(w, r) ==
    /\ ~item.cancelled
    /\ req[r].st = "waiting"
    /\ ~req[r].waitOver
    /\ req[r].acq \in {NoOne, w} \/ ~req[r].acqLive

(* acquire, for an execute wake; a lost reply leaves the lease and no run *)
Acquire(w, r) ==
    /\ w \in up
    /\ req[r].wake
    /\ run[w][r].pc = "idle"
    /\ Acquirable(w, r)
    /\ req' = [req EXCEPT ![r].wake = FALSE, ![r].acq = w, ![r].acqLive = TRUE]
    /\ \/ SetRun(w, r, [NoRun EXCEPT !.pc = "got"]) /\ UNCHANGED faults
       \/ Fault /\ UNCHANGED run
    /\ UNCHANGED <<item, callers, term, up, transcript>>

(* a wake whose acquire is refused, and a wake that the stream loses *)
DropWake(w, r) ==
    /\ w \in up
    /\ req[r].wake
    /\ \/ ~Acquirable(w, r) /\ UNCHANGED faults
       \/ Fault
    /\ req' = [req EXCEPT ![r].wake = FALSE]
    /\ UNCHANGED <<item, callers, workers, transcript>>

(* _acquire_renew_loop *)
RenewAcquire(w, r) ==
    /\ run[w][r].pc = "got"
    /\ Acquirable(w, r)
    /\ req' = [req EXCEPT ![r].acq = w, ![r].acqLive = TRUE]
    /\ UNCHANGED <<item, callers, workers, transcript, faults>>

(* the acquisition that defer and start both require *)
Holds(w, r) ==
    /\ run[w][r].pc = "got"
    /\ req[r].st = "waiting"
    /\ req[r].acq = w
    /\ req[r].acqLive

(* Mutant: a failed start is dispatched again, however often. *)
DeferForEver(w, r) ==
    /\ Holds(w, r)
    /\ Redispatch(r, [req[r] EXCEPT !.fails = @ + 1])
    /\ UNCHANGED <<item, callers, term, up, transcript, faults>>

(* defer, _apply_deferral: a wait is dispatched again, a failed start too  *)
(* until the limit ends the request.                                       *)
Defer(w, r) ==
    /\ Holds(w, r)
    /\ \/ Redispatch(r, req[r]) /\ UNCHANGED transcript
       \/ /\ req[r].fails + 1 < StartLimit
          /\ Redispatch(r, [req[r] EXCEPT !.fails = @ + 1])
          /\ UNCHANGED transcript
       \/ /\ req[r].fails + 1 >= StartLimit
          /\ req' = [req EXCEPT ![r] = End(@, "failed", "start")]
          /\ SettleTerminal(req', item)
          /\ SetRun(w, r, NoRun)
    /\ UNCHANGED <<item, callers, term, up, faults>>

(* a run whose start or deferral is refused *)
GiveUp(w, r) ==
    /\ run[w][r].pc = "got"
    /\ ~Holds(w, r)
    /\ SetRun(w, r, NoRun)
    /\ UNCHANGED <<item, req, callers, term, up, transcript, faults>>

(* start and start_execution_where.  The turn then writes the transcript.  *)
(* When the reply is lost the row runs and the worker has no run for it.   *)
Start(w, r) ==
    /\ Holds(w, r)
    /\ ~item.cancelled
    /\ ~req[r].waitOver
    /\ req' = [req EXCEPT ![r] = Running(@, w)]
    /\ \/ /\ SetRun(w, r, [NoRun EXCEPT !.pc = "on", !.epoch = req'[r].epoch,
                                          !.beats = TRUE])
          /\ UNCHANGED faults
       \/ Fault /\ SetRun(w, r, NoRun)
    /\ transcript' = TRUE
    /\ UNCHANGED <<item, callers, term, up>>

---------------------------------------------------------------------------
(* A worker runs a request *)

(* The heartbeat still owns the row: heartbeat's conditions, by status. *)
BeatRenews(w, r) ==
    /\ req[r].st = "running"
    /\ req[r].epoch = run[w][r].epoch
    /\ req[r].hb \in {"live", "held"} \/ ~req[r].execOver

BeatStops(w, r) ==
    /\ req[r].st = "stopping"
    /\ req[r].epoch = run[w][r].epoch
    /\ req[r].hb = "live"

(* _heartbeat_loop: renew the lease, stop what is cancelled, or give up a  *)
(* request that is another owner's by now.  Calls that keep failing count  *)
(* as a refusal.                                                           *)
Beat(w, r) ==
    /\ run[w][r].pc \in {"on", "settling"}
    /\ run[w][r].beats
    /\ \/ /\ BeatRenews(w, r)
          /\ req' = [req EXCEPT ![r].hb = "live"]
          /\ UNCHANGED <<run, faults>>
       \/ /\ BeatStops(w, r)
          /\ SetRun(w, r, [run[w][r] EXCEPT !.pc = "stop"])
          /\ UNCHANGED <<req, faults>>
       \/ /\ ~BeatRenews(w, r) /\ ~BeatStops(w, r)
          /\ SetRun(w, r, NoRun)
          /\ UNCHANGED <<req, faults>>
       \/ /\ Fault
          /\ SetRun(w, r, NoRun)
          /\ UNCHANGED req
    /\ UNCHANGED <<item, callers, term, up, transcript>>

(* the turn of a run hands a patch to the publication loop *)
Publish(w, r) ==
    /\ run[w][r].pc = "on"
    /\ req[r].st = "running"
    /\ req[r].epoch = run[w][r].epoch
    /\ req[r].pr = "none"
    /\ req' = [req EXCEPT ![r].pr = "flight"]
    /\ UNCHANGED <<item, callers, workers, transcript, faults>>

PublicationEnds(r) ==
    /\ req[r].st = "running"
    /\ req[r].pr = "flight"
    /\ \E outcome \in {"opened", "refused"} :
          req' = [req EXCEPT ![r].pr = outcome]
    /\ UNCHANGED <<item, callers, workers, transcript, faults>>

(* finish and terminalize_execution as the worker calls them *)
Finishes(w, r) ==
    /\ req[r].epoch = run[w][r].epoch
    /\ req[r].hb \in {"live", "held"}
    /\ req[r].st = "running"
    /\ ~item.cancelled
    /\ ~req[r].execOver

(* _finish_or_settle and _settle_work_item: a report that the API accepts, *)
(* leaves to the publication or refuses ends the run; one whose answer is  *)
(* lost is repeated as long as the heartbeat runs.  The ledger reads the   *)
(* cause of an ended request, so the outcome of the report is not kept.    *)
Finish(w, r) ==
    /\ run[w][r].pc \in {"on", "settling"}
    /\ \/ /\ Finishes(w, r)
          /\ req' = [req EXCEPT ![r] = End(@, "failed", "report")]
          /\ SettleTerminal(req', item)
       \/ /\ ~Finishes(w, r) \/ req[r].pr # "none"
          /\ UNCHANGED <<req, transcript>>
    /\ \/ SetRun(w, r, NoRun) /\ UNCHANGED faults
       \/ /\ Fault
          /\ SetRun(w, r, IF run[w][r].beats
                          THEN [run[w][r] EXCEPT !.pc = "settling"] ELSE NoRun)
    /\ UNCHANGED <<item, callers, term, up>>

(* hold_for_approval: the turn parks, or ends when the hold is refused.    *)
(* The parked WorkItemRun only keeps its own worker from declaring the     *)
(* request lost, which the hold does too.                                  *)
Hold(w, r) ==
    /\ run[w][r].pc = "on"
    /\ \/ /\ req[r].st = "running"
          /\ req[r].epoch = run[w][r].epoch
          /\ ~req[r].execOver
          /\ req' = [req EXCEPT ![r].hb = "held"]
       \/ /\ \/ req[r].st # "running"
             \/ req[r].epoch # run[w][r].epoch
             \/ req[r].execOver
          /\ UNCHANGED req
    /\ SetRun(w, r, NoRun)
    /\ UNCHANGED <<item, callers, term, up, transcript, faults>>

(* The worker has no run of the request, or one that never started, or one *)
(* that the same resume adopted and that this delivery of it replaces.     *)
MayAdopt(w, r) ==
    \/ run[w][r].pc \in {"idle", "got"}
    \/ run[w][r].pc = "on" /\ ~run[w][r].beats

(* running_for_conversation and _adopt_resumed_work_item: the approval     *)
(* resume continues a parked request on any worker, under its epoch.  The  *)
(* worker looks only at its own runs and settlements: another worker may   *)
(* have adopted the request and, stalled past the lease of its delivery    *)
(* and of the thread, still be at it.  An adopted run has no heartbeat.    *)
Adopt(w, r) ==
    /\ w \in up
    /\ req[r].st = "running"
    /\ req[r].hb = "held"
    /\ ~item.cancelled
    /\ ~req[r].execOver
    /\ MayAdopt(w, r)
    /\ SetRun(w, r, [NoRun EXCEPT !.pc = "on", !.epoch = req[r].epoch])
    /\ UNCHANGED <<item, req, callers, term, up, transcript, faults>>

---------------------------------------------------------------------------
(* A worker ends a request *)

(* claim_termination.  A second claim while the first is still at its      *)
(* teardown means that the teardown outlasted the lease or the retry.      *)
Claimable(w, r) ==
    /\ \/ req[r].st = "stopping"
       \/ TeardownDue(r)
    /\ req[r].owner \in {NoOne, w} \/ req[r].hb # "live"

(* Mutant: the claim leaves the epoch, so the old run still speaks. *)
ClaimSameEpoch(w, r) ==
    /\ w \in up
    /\ req[r].stop
    /\ Claimable(w, r)
    /\ req' = [req EXCEPT ![r] = [@ EXCEPT !.stop = FALSE, !.owner = w, !.hb = "live"]]
    /\ term' = [term EXCEPT ![w][r] = req[r].epoch]
    /\ UNCHANGED <<item, callers, run, up, transcript, faults>>

ClaimTermination(w, r) ==
    /\ w \in up
    /\ req[r].stop
    /\ Claimable(w, r)
    /\ req' = [req EXCEPT ![r] = [req[r] EXCEPT
                  !.stop = FALSE, !.owner = w, !.epoch = req[r].epoch + 1, !.hb = "live"]]
    /\ term' = [term EXCEPT ![w][r] = req'[r].epoch]
    /\ run' = [run EXCEPT ![w][r] =
                  IF @.pc = "settling" THEN NoRun ELSE @]
    /\ IF \E v \in Workers : term[v][r] # 0 THEN Fault ELSE UNCHANGED faults
    /\ UNCHANGED <<item, callers, up, transcript>>

(* a terminate wake whose claim is refused, or that the stream loses *)
DropStop(w, r) ==
    /\ w \in up
    /\ req[r].stop
    /\ \/ ~Claimable(w, r) /\ UNCHANGED faults
       \/ Fault
    /\ req' = [req EXCEPT ![r].stop = FALSE]
    /\ UNCHANGED <<item, callers, workers, transcript>>

StatusOf(cause) ==
    CASE cause = "issue" -> "cancelled"
      [] cause = "deadline" -> "expired"
      [] cause = "owner_lost" -> "failed"

(* _admit_owner_lost_successor; MaxReq bounds the retries *)
Retried(rows, r) ==
    /\ rows[r].cause = "owner_lost"
    /\ ~item.cancelled
    /\ item.readmit = 0
    /\ req[r].pr = "none"
    /\ Streak(rows) < RetryLimit
    /\ asked < MaxReq

(* record_runtime_termination_where for a request that is stopping; a lost *)
(* one whose pull request was closed is not retried either.                *)
Terminated(r, rows) ==
    /\ \/ /\ Retried(rows, r)
          /\ req' = [rows EXCEPT ![asked + 1] = Row("waiting", item.next, TRUE)]
          /\ item' = [item EXCEPT !.next = @ + 1]
          /\ asked' = asked + 1
       \/ /\ req' = rows
          /\ UNCHANGED <<item, asked>>
    /\ SettleTerminal(req', item')

(* record_termination under epoch e, after the sandbox is seen to be gone; *)
(* _confirm_settled_teardown for a request that was settled without it     *)
Record(r, e) ==
    \/ /\ req[r].epoch = e
       /\ req[r].st = "stopping"
       /\ Terminated(r, [req EXCEPT ![r] = End(@, StatusOf(@.cause), @.cause)])
    \/ /\ req[r].epoch = e
       /\ req[r].st = "cancelled"
       /\ req[r].owed
       /\ req' = [req EXCEPT ![r] = End(@, "cancelled", @.cause)]
       /\ UNCHANGED <<item, asked, transcript>>
    \/ /\ \/ req[r].epoch # e
          \/ req[r].st # "stopping" /\ ~(req[r].st = "cancelled" /\ req[r].owed)
       /\ UNCHANGED <<item, req, asked, transcript>>

(* _terminate_work_item after its claim *)
Terminate(w, r) ==
    /\ term[w][r] # 0
    /\ Record(r, term[w][r])
    /\ term' = [term EXCEPT ![w][r] = 0]
    /\ UNCHANGED <<unlabels, run, up, faults>>

(* _stop_owned_work_item *)
StopOwned(w, r) ==
    /\ run[w][r].pc = "stop"
    /\ Record(r, run[w][r].epoch)
    /\ SetRun(w, r, NoRun)
    /\ UNCHANGED <<unlabels, term, up, faults>>

(* the teardown is not seen to be complete, so nothing is recorded *)
HaltFails(w, r) ==
    /\ Fault
    /\ \/ /\ term[w][r] # 0
          /\ term' = [term EXCEPT ![w][r] = 0]
          /\ UNCHANGED run
       \/ /\ run[w][r].pc = "stop"
          /\ SetRun(w, r, NoRun)
          /\ UNCHANGED term
    /\ UNCHANGED <<item, req, callers, up, transcript>>

(* WorkItemOrphanSweeper: the owner is a peer that is gone, or is this      *)
(* worker under its old name without the run (owns_work_item).             *)
Orphaned(w, r) ==
    \/ req[r].owner = w /\ run[w][r].pc = "idle"
    \/ req[r].owner \notin up \cup {NoOne}

(* declare_owner_lost *)
DeclareLost(w, r) ==
    /\ w \in up
    /\ req[r].st = "running"
    /\ req[r].hb # "held"
    /\ ~AwaitsPublication(req[r])
    /\ ~item.cancelled
    /\ Orphaned(w, r)
    /\ req' = [req EXCEPT ![r] = Stopping(@, "owner_lost", "late")]
    /\ UNCHANGED <<item, callers, workers, transcript, faults>>

(* A worker process ends; a delivery that had not started its request is   *)
(* read again.                                                             *)
Crash(w) ==
    /\ Fault
    /\ w \in up
    /\ up' = up \ {w}
    /\ run' = [run EXCEPT ![w] = [r \in Ids |-> NoRun]]
    /\ term' = [term EXCEPT ![w] = [r \in Ids |-> 0]]
    /\ req' = [r \in Ids |-> IF run[w][r].pc = "got" /\ req[r].st = "waiting"
                            THEN [req[r] EXCEPT !.wake = TRUE] ELSE req[r]]
    /\ UNCHANGED <<item, callers, transcript>>

Restart(w) ==
    /\ w \notin up
    /\ up' = up \cup {w}
    /\ UNCHANGED <<item, req, callers, run, term, transcript, faults>>

---------------------------------------------------------------------------
(* Time *)

Later(r, row) ==
    /\ req' = [req EXCEPT ![r] = row]
    /\ UNCHANGED <<item, callers, workers, transcript, faults>>

LapseAcquire(r) ==
    /\ req[r].st = "waiting" /\ req[r].acqLive
    /\ Later(r, [req[r] EXCEPT !.acqLive = FALSE])

LapseWait(r) ==
    /\ req[r].st = "waiting" /\ ~req[r].waitOver
    /\ Later(r, [req[r] EXCEPT !.waitOver = TRUE])

(* a hold ends with the execution deadline it was set to *)
LapseExec(r) ==
    /\ req[r].st = "running" /\ ~req[r].execOver
    /\ Later(r, [req[r] EXCEPT !.execOver = TRUE, !.hb = Release(@)])

(* the runtime lease, and then a whole TTL after it *)
LapseBeat(r) ==
    \/ /\ req[r].st \in {"running", "stopping", "cancelled"} /\ req[r].hb = "live"
       /\ Later(r, [req[r] EXCEPT !.hb = "late"])
    \/ /\ req[r].st = "running" /\ req[r].hb = "late"
       /\ Later(r, [req[r] EXCEPT !.hb = "lost"])

(* the settle window, which is read once the terminate wake is published *)
LapseCancel(r) ==
    /\ req[r].st = "stopping" /\ req[r].told /\ req[r].cause = "issue"
    /\ ~req[r].overdue
    /\ Later(r, [req[r] EXCEPT !.overdue = TRUE])

---------------------------------------------------------------------------
Callers ==
    \/ Label \/ Admit \/ Mention \/ Unlabel
    \/ \E r \in Ids : LabelAgain(r) \/ WriteSnapshot(r)

Reconcile(r) ==
    \/ ExpireWaiting(r) \/ DeadlineCancel(r) \/ OwnerLostCancel(r)
    \/ PublishTerminate(r) \/ SettleOverdue(r) \/ AdmitNext(r)
    \/ RedispatchLapsed(r) \/ PublishWake(r) \/ SettlePublication(r)

Time(r) ==
    LapseAcquire(r) \/ LapseWait(r) \/ LapseExec(r) \/ LapseBeat(r) \/ LapseCancel(r)

Work(w, r) ==
    \/ Acquire(w, r) \/ DropWake(w, r) \/ RenewAcquire(w, r)
    \/ Defer(w, r) \/ GiveUp(w, r) \/ Start(w, r) \/ Beat(w, r) \/ Publish(w, r) \/ Finish(w, r)
    \/ Hold(w, r) \/ Adopt(w, r)

EndWork(w, r) ==
    \/ ClaimTermination(w, r) \/ DropStop(w, r) \/ Terminate(w, r)
    \/ StopOwned(w, r) \/ HaltFails(w, r) \/ DeclareLost(w, r)

Next ==
    \/ Callers
    \/ AdmitReadmit
    \/ \E r \in Ids : Reconcile(r) \/ Time(r) \/ PublicationEnds(r)
    \/ \E w \in Workers, r \in Ids : Work(w, r) \/ EndWork(w, r)
    \/ \E w \in Workers : Crash(w) \/ Restart(w)

(* The reconciler's loop runs its steps for ever, deadlines pass, a        *)
(* terminate wake is read and its teardown ends, and a worker that is down *)
(* is started again.  Nothing says that a run is taken, beats or reports.  *)
(* Steps that only rows of different status enable share a condition.      *)
Fairness ==
    /\ WF_vars(AdmitReadmit)
    /\ \A r \in Ids :
          /\ WF_vars(ExpireWaiting(r) \/ DeadlineCancel(r) \/ AdmitNext(r))
          /\ WF_vars(PublishTerminate(r)) /\ WF_vars(SettleOverdue(r))
          /\ WF_vars(LapseWait(r) \/ LapseExec(r) \/ LapseCancel(r))
          /\ WF_vars(LapseBeat(r))
          /\ WF_vars(\E w \in Workers : ClaimTermination(w, r) \/ DropStop(w, r))
          /\ \A w \in Workers : WF_vars(Terminate(w, r)) /\ WF_vars(StopOwned(w, r))
    /\ \A w \in Workers : WF_vars(Restart(w))

Spec == Init /\ [][Next]_vars
FairSpec == Spec /\ Fairness

---------------------------------------------------------------------------
(* Properties *)

(* What the columns of a row hold. *)
Statuses == Active \cup Ended \cup {"none", "queued"}
Causes ==
    {"none", "issue", "capacity", "deadline", "owner_lost", "lineage", "publication",
     "start", "report"}
Beats == {"none", "live", "late", "lost", "held"}
Outcomes == {"none", "flight", "opened", "refused"}

Rows ==
    [st : Statuses, cause : Causes, seq : Nat, snap : BOOLEAN, pub : BOOLEAN,
     wake : BOOLEAN, acq : Workers \cup {NoOne}, acqLive : BOOLEAN,
     fails : 0..StartLimit, waitOver : BOOLEAN, execOver : BOOLEAN,
     owner : Workers \cup {NoOne}, epoch : Nat, hb : Beats, told : BOOLEAN,
     stop : BOOLEAN, overdue : BOOLEAN, owed : BOOLEAN, pr : Outcomes]

Runs ==
    [pc : {"idle", "got", "on", "settling", "stop"},
     epoch : Nat, beats : BOOLEAN]

(* Type: rows, runs and wakes hold what the code can write. *)
TypeOK ==
    /\ item \in [cancelled : BOOLEAN, readmit : 0..MaxReq, next : Nat]
    /\ req \in [Ids -> Rows]
    /\ asked \in 0..MaxReq
    /\ run \in [Workers -> [Ids -> Runs]]
    /\ term \in [Workers -> [Ids -> Nat]]
    /\ up \subseteq Workers
    /\ transcript \in BOOLEAN
    /\ unlabels \in 0..MaxUnlabel
    /\ faults \in 0..MaxFault

(* A WorkItem has at most one request that waits, runs or stops, although  *)
(* labels, mentions, the stored relabel, queued revisions and the          *)
(* successor of a lost run each insert or promote one in a transaction of  *)
(* their own.  The model has no unique index to refuse the second.         *)
OneActive == Cardinality(ActiveReq) <= 1

(* Once the label is removed nothing of the WorkItem is taken up: no       *)
(* request waits, is queued or keeps running without having been told to   *)
(* stop, until a later label opens the WorkItem again.                     *)
CancelledIsQuiet ==
    item.cancelled => In(req, {"queued", "waiting", "running"}) = {}

(* The handlers whose report the ledger would still accept. *)
Speakers ==
    {p \in Workers \X ActiveReq :
        /\ run[p[1]][p[2]].pc \in {"on", "settling", "stop"}
        /\ run[p[1]][p[2]].epoch = req[p[2]].epoch}

Terminators ==
    {p \in Workers \X ActiveReq :
        /\ term[p[1]][p[2]] = req[p[2]].epoch
        /\ term[p[1]][p[2]] # 0}

(* The handlers that answer for the row: the run that started the request  *)
(* and beats for it, or the termination that took it over.                 *)
Owners == {p \in Speakers : run[p[1]][p[2]].beats} \cup Terminators

(* Whoever owns the row speaks alone: while a run keeps the heartbeat, or  *)
(* once a termination has claimed the request, no other handler of any     *)
(* worker has the epoch, neither a stalled owner nor a resumed turn.       *)
OwnerSpeaksAlone ==
    Owners # {} => Cardinality(Speakers) + Cardinality(Terminators) = 1

(* At most one handler speaks for the WorkItem.  This does not hold        *)
(* (README, section 6): two workers can adopt one parked request.          *)
OneSpeaker == Cardinality(Speakers) + Cardinality(Terminators) <= 1

(* A request is owed: it waits, runs, stops or is queued, or it is the     *)
(* relabel that is stored until a run has stopped.                         *)
Owed(r) == req[r].st \in Active \cup {"queued"} \/ item.readmit = r

(* Every request that is asked for is dealt with: whatever worker          *)
(* disappears, whatever reply or wake is lost, a deadline or a             *)
(* cancellation leads to the teardown of what runs, and what is queued or  *)
(* stored behind it is admitted and ends too.                              *)
EveryRequestEnds == \A r \in Ids : Owed(r) ~> ~Owed(r)

(* "A WorkItem's transcript is deleted in the transaction that makes the   *)
(* WorkItem terminal" (transcripts.py): nothing is left to run, nothing is *)
(* stored.  This does not hold (README, section 6).                        *)
TranscriptGone ==
    transcript => In(req, Active \cup {"queued"}) # {} \/ item.readmit # 0

=============================================================================
