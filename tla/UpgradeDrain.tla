---------------------------- MODULE UpgradeDrain ----------------------------
(***************************************************************************)
(* The pre-upgrade drain gate (upgrade_drain.py), the pause lease that its  *)
(* hooks hand from one to the next (curie_upgrade_pause, schema_compat.py)  *)
(* and the claiming loops that it pauses (stream_consumer.py), for ONE      *)
(* installation.                                                           *)
(*                                                                         *)
(* A revision r is one `helm upgrade`: the hooks drain, attest,             *)
(* schema-migrate and hold, then the roll, then release.  Helm runs one     *)
(* upgrade at a time, but it may give up on a hook whose process runs on,   *)
(* so the processes of an older revision overlap the hooks of a newer one.  *)
(* The attest and hold Jobs run one pod each (backoffLimit 0).              *)
(*                                                                         *)
(* The marker is the pair of keys that say the fleet is paused: "scoped",   *)
(* which the workers of this version read, and "legacy", which the workers  *)
(* of the version before read and which only a bridging revision writes.    *)
(* Both expire.  A call that was cancelled may still be executed (stray).   *)
(***************************************************************************)
EXTENDS Integers, Sequences, FiniteSets

CONSTANTS
    Revs,           \* revisions of the release, in order
    Entries,        \* stream entries, numbered in stream order
    Lane,           \* Lane[e]: "runs" or "eval"
    Loops,          \* read and reclaim loops of the fleet
    Lease,          \* quiesce_lease_s
    Handoff,        \* PAUSE_LEASE_S
    Hold,           \* upgrade_quiesce_ttl_s
    Interval,       \* PAUSE_RENEW_INTERVAL_S
    MaxReply,       \* a renewal is answered within this (socket_timeout)
    Page,           \* _PEL_SCAN_PAGE
    MaxTry,         \* pods of the schema-migrate Job (backoffLimit 3)
    MaxFault        \* bound: failed calls, kills, deleted Jobs and lost owners

(* The reply of a renewal is timed out within the margin the local clock    *)
(* of the migration leaves.                                                *)
ASSUME DrainAssumption ==
    /\ Revs \subseteq Nat \ {0} /\ IsFiniteSet(Revs)
    /\ Entries \subseteq Nat \ {0} /\ IsFiniteSet(Entries)
    /\ Lane \in [Entries -> {"runs", "eval"}]
    /\ Lease \in Nat \ {0} /\ Handoff \in Nat /\ Hold \in Nat
    /\ Lease <= Handoff /\ Handoff <= Hold
    /\ Interval \in Nat /\ MaxReply \in Nat
    /\ MaxReply < Interval /\ Interval < Handoff
    /\ Page \in Nat \ {0} /\ MaxTry \in Nat /\ MaxFault \in Nat

VARIABLES
    mark,       \* the two marker keys: revision and remaining life
    record,     \* revisions whose success record exists
    helm,       \* the hook or step each upgrade is at
    hook,       \* the attest or hold process of each revision
    bridge,     \* curie.upgradeLegacyQuiesce, as rendered for each revision
    gate,       \* the drain process of each revision
    scan,       \* where its scan of the pending lists is
    stray,      \* life of a marker write that was cancelled in flight, 0: none
    mig,        \* the schema-migrate process of each revision
    authority,  \* its _PauseAuthority: local time left, confirmed, lost
    call,       \* its renewal: executed and not answered, and for how long
    tries,      \* pods it has started
    identified, \* the managed Secret holds the installation id
    loop,       \* each claiming loop: "check" or "claim"
    old,        \* claiming loops of the version that reads the legacy key
    entry,      \* what has become of each entry
    accepted,   \* history: leased since the gate first wrote the marker
    pause,      \* history: what has become of the pause since the verdict
    faults      \* bound

mVars == <<mark, record, stray>>
hVars == <<helm, hook, bridge, identified>>
gVars == <<gate, scan>>
sVars == <<mig, authority, call, tries>>
fVars == <<loop, old, entry>>
xVars == <<accepted, pause>>
vars == <<mVars, hVars, gVars, sVars, fVars, xVars, faults>>

Keys == {"scoped", "legacy"}

(* Mutant: the eval lane is forgotten. *)
LanesRunsOnly == <<"runs">>

Lanes == <<"runs", "eval">>                 \* _lanes

(* A revision of 0 is no marker; Bare is the unversioned "1" of the gate    *)
(* before #2374.                                                           *)
Bare == -1
Absent == [rev |-> 0, ttl |-> 0]

NoScan == [lane |-> 1, cursor |-> 0, page |-> {}, read |-> FALSE, live |-> FALSE]
NoCall == [result |-> "none", age |-> 0]
NoAuthority == [left |-> 0, confirmed |-> FALSE, lost |-> TRUE]

Stages == {"none", "drain", "attest", "migrate", "hold", "roll",
           "release", "release2", "done", "failed", "aborted"}
HookStates == {"none", "attest", "attest2", "attested", "hold", "held", "bad"}

TypeOK ==
    /\ mark \in [Keys -> [rev : Revs \cup {0, Bare}, ttl : 0 .. Hold]]
    /\ record \subseteq Revs
    /\ helm \in [Revs -> Stages]
    /\ hook \in [Revs -> HookStates]
    /\ bridge \in [Revs -> BOOLEAN]
    /\ gate \in [Revs -> {"none", "wait", "handoff", "record", "clear",
                          "ok", "bad"}]
    /\ identified \in BOOLEAN
    /\ scan \in [Revs -> [lane : 1 .. 3, cursor : Entries \cup {0},
                          page : SUBSET Entries, read : BOOLEAN, live : BOOLEAN]]
    /\ stray \in [Revs -> {0, Lease, Handoff}]
    /\ mig \in [Revs -> {"none", "confirm", "probe", "apply", "ok", "bad"}]
    /\ authority \in [Revs -> [left : 0 .. Handoff, confirmed : BOOLEAN,
                               lost : BOOLEAN]]
    /\ call \in [Revs -> [result : {"none", "renewed", "refused"},
                          age : 0 .. MaxReply]]
    /\ tries \in [Revs -> 0 .. MaxTry]
    /\ loop \in [Loops -> {"check", "claim"}]
    /\ old \subseteq Loops
    /\ entry \in [Entries -> {"unread", "taken", "leased", "orphan", "settled"}]
    /\ accepted \in [Revs -> SUBSET Entries]
    /\ pause \in [Revs -> {"none", "drained", "held", "broken"}]
    /\ faults \in 0 .. MaxFault

(* The fleet before the first upgrade is of the version that reads the     *)
(* legacy key, or it has been rolled already.  A gate of that version may   *)
(* have left its unversioned marker.                                       *)
Init ==
    /\ old \in {{}, Loops}
    /\ identified = (old = {})
    /\ \E left \in {Absent, [rev |-> Bare, ttl |-> Lease]} :
         mark = [k \in Keys |-> IF k = "legacy" /\ ~identified THEN left ELSE Absent]
    /\ record = {}
    /\ helm = [r \in Revs |-> "none"]
    /\ hook = [r \in Revs |-> "none"]
    /\ bridge = [r \in Revs |-> FALSE]
    /\ gate = [r \in Revs |-> "none"]
    /\ scan = [r \in Revs |-> NoScan]
    /\ stray = [r \in Revs |-> 0]
    /\ mig = [r \in Revs |-> "none"]
    /\ authority = [r \in Revs |-> NoAuthority]
    /\ call = [r \in Revs |-> NoCall]
    /\ tries = [r \in Revs |-> 0]
    /\ loop = [l \in Loops |-> "check"]
    /\ entry = [e \in Entries |-> "unread"]
    /\ accepted = [r \in Revs |-> {}]
    /\ pause = [r \in Revs |-> "none"]
    /\ faults = 0

-----------------------------------------------------------------------------
(* The scripts on the marker keys *)

(* marker_keys: the scoped key and, for a bridging revision, the legacy one *)
MarkerKeys(r) == IF bridge[r] THEN Keys ELSE {"scoped"}

(* _WRITE_OWNED_MARKER_LUA: refused when a key holds a higher revision,     *)
(* else every key gets this revision and this life, longer or shorter.      *)
WriteTaken(r) == \A k \in MarkerKeys(r) : mark[k].rev <= r
Written(r, ttl) ==
    [k \in Keys |-> IF k \in MarkerKeys(r) THEN [rev |-> r, ttl |-> ttl]
                                           ELSE mark[k]]

(* _CLEAR_OWNED_MARKER_LUA: the scoped key when it is this revision's, the  *)
(* legacy key when it is this revision's and the scoped one is no other's.  *)
MayClearSiblings(r) == mark["scoped"].rev \in {0, r}
Cleared(r) ==
    [k \in Keys |->
        IF /\ k \in MarkerKeys(r)
           /\ mark[k].rev = r
           /\ k = "scoped" \/ MayClearSiblings(r)
        THEN Absent
        ELSE mark[k]]

(* _RENEW_PAUSE_LUA: only the scoped key grants authority; every key that   *)
(* exists is extended, none is created or shortened.                       *)
RenewResult(r) ==
    CASE mark["scoped"].rev = 0 -> "absent"
      [] mark["scoped"].rev = r -> "renewed"
      [] OTHER -> "foreign"

(* Mutant: the renewal adds to what is left. *)
RenewedAdds(r, ttl) ==
    [k \in Keys |-> IF k \in MarkerKeys(r) /\ mark[k].rev # 0
                    THEN [mark[k] EXCEPT !.ttl = @ + ttl] ELSE mark[k]]

Renewed(r, ttl) ==
    [k \in Keys |->
        IF k \in MarkerKeys(r) /\ mark[k].rev # 0 /\ mark[k].ttl < ttl
        THEN [mark[k] EXCEPT !.ttl = ttl]
        ELSE mark[k]]

(* History: the pause of a drained revision is broken once a key of its     *)
(* marker is not its own.                                                  *)
Unbroken(p, m) ==
    [q \in Revs |-> IF p[q] = "held" /\ \E k \in MarkerKeys(q) : m[k].rev # q
                    THEN "broken" ELSE p[q]]
SetMark(m) == mark' = m /\ pause' = Unbroken(pause, m)

Fault == faults < MaxFault /\ faults' = faults + 1

-----------------------------------------------------------------------------
(* Helm.  It serialises the upgrades of a release, and waits for the Job of *)
(* each hook, or gives up on a release Job that is retried meanwhile; the   *)
(* render of a revision decides whether it bridges.                        *)

HelmStart(r) ==
    /\ helm[r] = "none"
    /\ \A q \in Revs : q < r =>
          helm[q] \in {"release", "release2", "done", "failed", "aborted"}
    /\ helm' = [helm EXCEPT ![r] = "drain"]
    /\ bridge' = [bridge EXCEPT ![r] = ~identified]
    /\ UNCHANGED <<identified, hook, mVars, gVars, sVars, fVars, xVars, faults>>

(* The client times out or is killed: no later hook of r is created.       *)
HelmGivesUp(r) ==
    /\ helm[r] \notin {"none", "done", "failed", "aborted"}
    /\ helm' = [helm EXCEPT ![r] =
            IF @ \in {"roll", "release", "release2"} THEN "aborted" ELSE "failed"]
    /\ UNCHANGED <<mVars, hook, bridge, identified, gVars, sVars, fVars, xVars, faults>>

Refuse(r) == helm' = [helm EXCEPT ![r] = "failed"] /\ UNCHANGED hook
GoOn(r, stage) == helm' = [helm EXCEPT ![r] = stage] /\ UNCHANGED hook
StartHook(r, stage) ==
    /\ helm' = [helm EXCEPT ![r] = stage]
    /\ hook' = [hook EXCEPT ![r] = stage]

(* "Helm treats deletion of that Job as the hook finishing" (#3360); the    *)
(* process gets SIGTERM, when it gets it.                                  *)
DrainJobDeleted(r) ==
    /\ helm[r] = "drain" /\ gate[r] # "none"
    /\ Fault
    /\ StartHook(r, "attest")
    /\ UNCHANGED <<mVars, bridge, identified, gVars, sVars, fVars, xVars>>

(* The drain Job ended: 0 lets the upgrade go on, 1 fails it.               *)
DrainJobDone(r) ==
    /\ helm[r] = "drain" /\ gate[r] \in {"ok", "bad"}
    /\ IF gate[r] = "ok" THEN StartHook(r, "attest") ELSE Refuse(r)
    /\ UNCHANGED <<mVars, bridge, identified, gVars, sVars, fVars, xVars, faults>>

-----------------------------------------------------------------------------
(* run_gate, mode drain *)

(* request_quiesce with the waiting lease, before anything else.            *)
GateStart(r) ==
    /\ helm[r] = "drain" /\ gate[r] = "none"
    /\ IF WriteTaken(r)
       THEN /\ SetMark(Written(r, Lease))
            /\ accepted' = [accepted EXCEPT ![r] =
                               {e \in Entries : entry[e] = "leased"}]
            /\ gate' = [gate EXCEPT ![r] = "wait"]
       ELSE /\ gate' = [gate EXCEPT ![r] = "bad"]
            /\ UNCHANGED <<mark, xVars>>
    /\ UNCHANGED <<record, stray, hVars, scan, sVars, fVars, faults>>

(* Mutant: the heartbeat takes the default life, the roll hold. *)
GateHeartbeatHold(r) ==
    /\ gate[r] = "wait" /\ WriteTaken(r)
    /\ SetMark(Written(r, Hold))
    /\ UNCHANGED <<record, stray, hVars, gVars, sVars, fVars, accepted, faults>>

(* _renew_lease, as often and as late as it comes; a fenced write ends the  *)
(* wait (QuiesceWriteRefused) and clears nothing.                          *)
GateHeartbeat(r) ==
    /\ gate[r] = "wait"
    /\ IF WriteTaken(r)
       THEN /\ SetMark(Written(r, Lease))
            /\ UNCHANGED gate
       ELSE /\ gate' = [gate EXCEPT ![r] = "bad"]
            /\ UNCHANGED <<mark, pause>>
    /\ UNCHANGED <<record, stray, hVars, scan, sVars, fVars, accepted, faults>>

(* Pending entries of the lane after the cursor, a page at most.           *)
Pending(s) ==
    {e \in Entries : /\ Lane[e] = Lanes[s.lane] /\ e > s.cursor
                     /\ entry[e] \in {"taken", "leased", "orphan"}}
FirstPage(S) == {e \in S : Cardinality({d \in S : d < e}) < Page}

(* _unsettled_in_lane: XPENDING of a page ...                              *)
ScanPage(r) ==
    /\ gate[r] = "wait" /\ scan[r].lane <= Len(Lanes) /\ ~scan[r].read
    /\ scan' = [scan EXCEPT ![r].page = FirstPage(Pending(scan[r])),
                            ![r].read = TRUE]
    /\ UNCHANGED <<mVars, hVars, gate, sVars, fVars, xVars, faults>>

(* ... then EXISTS of the lease of each; a short page ends the lane.        *)
ScanLeases(r) ==
    /\ gate[r] = "wait" /\ scan[r].read
    /\ LET s == scan[r]
           short == Cardinality(s.page) < Page
       IN  scan' = [scan EXCEPT ![r] =
                [NoScan EXCEPT
                    !.lane = IF short THEN s.lane + 1 ELSE s.lane,
                    !.cursor = IF short THEN 0
                               ELSE CHOOSE e \in s.page : \A d \in s.page : d <= e,
                    !.live = s.live \/ \E e \in s.page : entry[e] = "leased"]]
    /\ UNCHANGED <<mVars, hVars, gate, sVars, fVars, xVars, faults>>

(* A heartbeat or a handoff that was cancelled may still reach Valkey.      *)
MayStray(r, ttl) ==
    \/ UNCHANGED <<stray, faults>>
    \/ Fault /\ stray' = [stray EXCEPT ![r] = ttl]

(* _wait_settled: nothing leased ends the wait, else it polls again or the  *)
(* deadline has passed and the upgrade is refused.                         *)
ScanVerdict(r) ==
    /\ gate[r] = "wait" /\ scan[r].lane > Len(Lanes)
    /\ scan' = [scan EXCEPT ![r] = NoScan]
    /\ \/ /\ ~scan[r].live
          /\ gate' = [gate EXCEPT ![r] = "handoff"]
          /\ pause' = [pause EXCEPT ![r] = "drained"]
          /\ MayStray(r, Lease)
       \/ /\ scan[r].live
          /\ UNCHANGED <<gate, stray, pause, faults>>
       \/ /\ scan[r].live
          /\ gate' = [gate EXCEPT ![r] = "clear"]
          /\ MayStray(r, Lease)
          /\ UNCHANGED pause
    /\ UNCHANGED <<mark, record, hVars, sVars, fVars, accepted>>

(* await_drained hands the marker off, created again if it has lapsed.      *)
GateHandoff(r) ==
    /\ gate[r] = "handoff"
    /\ IF WriteTaken(r)
       THEN /\ mark' = Written(r, Handoff)
            /\ pause' = Unbroken([pause EXCEPT ![r] = "held"], mark')
            /\ gate' = [gate EXCEPT ![r] = "record"]
       ELSE /\ gate' = [gate EXCEPT ![r] = "bad"]
            /\ UNCHANGED <<mark, pause>>
    /\ UNCHANGED <<record, stray, hVars, scan, sVars, fVars, accepted, faults>>

(* _record_drain_success; a SET that raised may have been executed, and     *)
(* drops the handoff lease.  The record lives for the roll hold, no shorter *)
(* than the marker it vouches for, so its expiry refuses nothing more.      *)
GateRecord(r) ==
    /\ gate[r] = "record"
    /\ \/ /\ record' = record \cup {r}
          /\ gate' = [gate EXCEPT ![r] = "ok"]
          /\ UNCHANGED faults
       \/ /\ Fault
          /\ record' \in {record, record \cup {r}}
          /\ gate' = [gate EXCEPT ![r] = "clear"]
    /\ UNCHANGED <<mark, stray, hVars, scan, sVars, fVars, xVars>>

(* SIGTERM cancels the wait or the handoff, and a scan, a heartbeat or a    *)
(* handoff that raises ends them: the marker is then cleared.              *)
GateInterrupted(r) ==
    /\ gate[r] \in {"wait", "handoff"}
    /\ Fault
    /\ gate' = [gate EXCEPT ![r] = "clear"]
    /\ scan' = [scan EXCEPT ![r] = NoScan]
    /\ stray' \in {stray, [stray EXCEPT ![r] = IF gate[r] = "wait" THEN Lease
                                                ELSE Handoff]}
    /\ UNCHANGED <<mark, record, hVars, sVars, fVars, xVars>>

(* SIGKILL or the loss of the node, and SIGTERM once the handlers are       *)
(* removed: no cleanup runs.                                               *)
GateKilled(r) ==
    /\ gate[r] \in {"wait", "handoff", "record", "clear"}
    /\ Fault
    /\ gate' = [gate EXCEPT ![r] = "bad"]
    /\ scan' = [scan EXCEPT ![r] = NoScan]
    /\ UNCHANGED <<mVars, hVars, sVars, fVars, xVars>>

(* clear_quiesce, then exit 1.                                             *)
GateClear(r) ==
    /\ gate[r] = "clear"
    /\ SetMark(Cleared(r))
    /\ gate' = [gate EXCEPT ![r] = "bad"]
    /\ UNCHANGED <<record, stray, hVars, scan, sVars, fVars, accepted, faults>>

(* The cancelled write is executed after all, fenced like any other, or it  *)
(* is lost.                                                                *)
StrayWrite(r) ==
    /\ stray[r] # 0
    /\ stray' = [stray EXCEPT ![r] = 0]
    /\ \/ WriteTaken(r) /\ SetMark(Written(r, stray[r]))
       \/ UNCHANGED <<mark, pause>>
    /\ UNCHANGED <<record, hVars, gVars, sVars, fVars, accepted, faults>>

-----------------------------------------------------------------------------
(* run_gate, modes attest, hold and release.  The process of a hook goes on *)
(* although Helm may have given up on it.  A cancelled write of the gate    *)
(* does not outlast the start of the next hook's pod.                      *)

AttestRead(r) ==
    /\ hook[r] = "attest" /\ stray[r] = 0
    /\ hook' = [hook EXCEPT ![r] = IF r \in record THEN "attest2" ELSE "bad"]
    /\ UNCHANGED <<mVars, helm, bridge, identified, gVars, sVars, fVars, xVars, faults>>

(* renew_pause; absent or foreign authority refuses the upgrade.            *)
HookRenew(r, to, ttl) ==
    /\ IF RenewResult(r) = "renewed"
       THEN hook' = [hook EXCEPT ![r] = to] /\ SetMark(Renewed(r, ttl))
       ELSE hook' = [hook EXCEPT ![r] = "bad"] /\ UNCHANGED <<mark, pause>>
    /\ UNCHANGED <<record, stray, helm, bridge, identified, gVars, sVars, fVars,
                   accepted, faults>>

AttestRenew(r) == hook[r] = "attest2" /\ HookRenew(r, "attested", Handoff)

(* Mutant: the hold writes the marker instead of renewing it. *)
HoldRenewWrites(r) ==
    /\ hook[r] = "hold" /\ WriteTaken(r)
    /\ hook' = [hook EXCEPT ![r] = "held"] /\ SetMark(Written(r, Hold))
    /\ UNCHANGED <<record, stray, helm, bridge, identified, gVars, sVars, fVars,
                   accepted, faults>>

HoldRenew(r) == hook[r] = "hold" /\ HookRenew(r, "held", Hold)

(* A call raises before it is executed, or the pod is killed.               *)
HookFails(r) ==
    /\ hook[r] \in {"attest", "attest2", "hold"}
    /\ Fault
    /\ hook' = [hook EXCEPT ![r] = "bad"]
    /\ UNCHANGED <<mVars, helm, bridge, identified, gVars, sVars, fVars, xVars>>

(* The Job of the hook ended.  After the hold the manifests are applied,    *)
(* the Secret among them.  A renewal whose answer was lost, or whose pod    *)
(* was killed after it, fails the hook although the marker was extended.    *)
HookJobDone(r) ==
    /\ helm[r] \in {"attest", "hold"}
    /\ \/ /\ helm[r] = "attest" /\ hook[r] = "attested"
          /\ GoOn(r, "migrate") /\ UNCHANGED <<identified, faults>>
       \/ /\ helm[r] = "hold" /\ hook[r] = "held"
          /\ GoOn(r, "roll") /\ identified' = TRUE /\ UNCHANGED faults
       \/ /\ hook[r] \in {"attested", "held"} /\ Fault
          /\ Refuse(r) /\ UNCHANGED identified
       \/ /\ hook[r] = "bad"
          /\ Refuse(r) /\ UNCHANGED <<identified, faults>>
    /\ UNCHANGED <<mVars, bridge, gVars, sVars, fVars, xVars>>

(* Pods of the old version are replaced, whether or not Helm waits for it.  *)
RollLoop(r, l) ==
    /\ helm[r] \in {"roll", "release", "release2", "done", "aborted"}
    /\ l \in old
    /\ old' = old \ {l}
    /\ loop' = [loop EXCEPT ![l] = "check"]
    /\ UNCHANGED <<mVars, hVars, gVars, sVars, entry, xVars, faults>>

RollDone(r) ==
    /\ helm[r] = "roll"
    /\ GoOn(r, "release")
    /\ UNCHANGED <<mVars, bridge, identified, gVars, sVars, fVars, xVars, faults>>

(* The release Job is retried and may come late, after Helm gave up on it. *)
ReleaseClear(r) ==
    /\ helm[r] = "release"
    /\ SetMark(Cleared(r))
    /\ GoOn(r, "release2")
    /\ UNCHANGED <<record, stray, bridge, identified, gVars, sVars, fVars,
                   accepted, faults>>

ReleaseRecord(r) ==
    /\ helm[r] = "release2"
    /\ record' = record \ {r}
    /\ GoOn(r, "done")
    /\ UNCHANGED <<mark, stray, bridge, identified, gVars, sVars, fVars, xVars,
                   faults>>

-----------------------------------------------------------------------------
(* upgrade_with_pause: the schema-migrate Job *)

Live(r) == mig[r] \in {"confirm", "probe", "apply"}

(* _PauseAuthority.valid: confirmed, not lost and before the local deadline *)
Valid(r) == authority[r].confirmed /\ ~authority[r].lost /\ authority[r].left > 0

(* Mutant: the local deadline is the whole lease. *)
DeadlineWholeLease == Handoff

(* The confirmed lease is trusted for its life less one renewal interval.   *)
Deadline == Handoff - Interval

(* A pod of the Job; the Job controller starts the next one by itself.      *)
MigStart(r) ==
    /\ mig[r] \in {"none", "bad"} /\ tries[r] < MaxTry
    /\ helm[r] = "migrate" \/ (helm[r] = "failed" /\ tries[r] > 0)
    /\ mig' = [mig EXCEPT ![r] = "confirm"]
    /\ authority' = [authority EXCEPT ![r] =
            [left |-> Deadline, confirmed |-> FALSE, lost |-> FALSE]]
    /\ call' = [call EXCEPT ![r] = NoCall]
    /\ tries' = [tries EXCEPT ![r] = @ + 1]
    /\ UNCHANGED <<mVars, hVars, gVars, fVars, xVars, faults>>

(* _renew_upgrade_pause: the script is executed ...                        *)
MigRenew(r) ==
    /\ Live(r) /\ ~authority[r].lost /\ call[r] = NoCall
    /\ IF RenewResult(r) = "renewed"
       THEN /\ SetMark(Renewed(r, Handoff))
            /\ call' = [call EXCEPT ![r] = [result |-> "renewed", age |-> 0]]
       ELSE /\ call' = [call EXCEPT ![r] = [result |-> "refused", age |-> 0]]
            /\ UNCHANGED <<mark, pause>>
    /\ UNCHANGED <<record, stray, hVars, gVars, mig, authority, tries, fVars,
                   accepted, faults>>

(* ... and answered: confirm() unless the authority is lost already.        *)
MigReply(r) ==
    /\ Live(r) /\ call[r].result # "none"
    /\ call' = [call EXCEPT ![r] = NoCall]
    /\ authority' = [authority EXCEPT ![r] =
            IF call[r].result = "renewed" /\ ~@.lost /\ @.left > 0
            THEN [left |-> Deadline, confirmed |-> TRUE, lost |-> FALSE]
            ELSE [@ EXCEPT !.lost = TRUE]]
    /\ UNCHANGED <<mVars, hVars, gVars, mig, tries, fVars, xVars, faults>>

(* The answer is lost: the renewal is retried, nothing is confirmed.        *)
MigReplyLost(r) ==
    /\ Live(r) /\ call[r].result # "none"
    /\ Fault
    /\ call' = [call EXCEPT ![r] = NoCall]
    /\ UNCHANGED <<mVars, hVars, gVars, mig, authority, tries, fVars, xVars>>

(* The process goes on, or it ends and its authority with it.               *)
MigTo(r, pc) ==
    /\ mig' = [mig EXCEPT ![r] = pc]
    /\ IF pc \in {"ok", "bad"}
       THEN /\ authority' = [authority EXCEPT ![r] = NoAuthority]
            /\ call' = [call EXCEPT ![r] = NoCall]
       ELSE UNCHANGED <<authority, call>>
    /\ UNCHANGED <<mVars, hVars, gVars, tries, fVars, xVars>>
IfValid(r, pc) == IF Valid(r) THEN pc ELSE "bad"

(* The first confirmation, or the loss of the authority before it.          *)
MigConfirmed(r) ==
    /\ mig[r] = "confirm" /\ (authority[r].confirmed \/ authority[r].lost)
    /\ MigTo(r, IfValid(r, "probe"))
    /\ UNCHANGED faults

(* Postgres is ready: before_apply lets the migration start, or refuses.    *)
MigApply(r) ==
    /\ mig[r] = "probe"
    /\ MigTo(r, IfValid(r, "apply"))
    /\ UNCHANGED faults

(* No migration is pending, or the plan refuses, or Postgres is not ready.  *)
MigNoApply(r) ==
    /\ mig[r] = "probe"
    /\ MigTo(r, IfValid(r, "ok")) \/ MigTo(r, "bad")
    /\ UNCHANGED faults

(* A started migration finishes, and fails the Job if the pause was lost.   *)
MigDone(r) ==
    /\ mig[r] = "apply"
    /\ MigTo(r, IfValid(r, "ok"))
    /\ UNCHANGED faults

MigKilled(r) ==
    /\ Live(r)
    /\ Fault
    /\ MigTo(r, "bad")

MigJobDone(r) ==
    /\ helm[r] = "migrate"
    /\ \/ mig[r] = "ok" /\ StartHook(r, "hold")
       \/ mig[r] = "bad" /\ tries[r] = MaxTry /\ Refuse(r)
    /\ UNCHANGED <<mVars, bridge, identified, gVars, sVars, fVars, xVars, faults>>

-----------------------------------------------------------------------------
(* The fleet *)

(* is_quiescing: existence of the key this version reads.                   *)
Quiescing(l) == mark[IF l \in old THEN "legacy" ELSE "scoped"].rev # 0

(* _claims_paused, before a blocking read and before a reclaim; it fails    *)
(* open.                                                                   *)
ClaimCheck(l) ==
    /\ loop[l] = "check"
    /\ \/ ~Quiescing(l) /\ UNCHANGED faults
       \/ Quiescing(l) /\ Fault
    /\ loop' = [loop EXCEPT ![l] = "claim"]
    /\ UNCHANGED <<mVars, hVars, gVars, sVars, old, entry, xVars>>

Waiting == {e \in Entries : entry[e] \in {"unread", "orphan"}}

(* XREADGROUP gives new entries, XAUTOCLAIM what nobody holds, or nothing.  *)
Claim(l) ==
    /\ loop[l] = "claim"
    /\ loop' = [loop EXCEPT ![l] = "check"]
    /\ \/ \E e \in Waiting : entry' = [entry EXCEPT ![e] = "taken"]
       \/ Waiting = {} /\ UNCHANGED entry
    /\ UNCHANGED <<mVars, hVars, gVars, sVars, old, xVars, faults>>

(* The handler of a claimed entry takes its delivery lease.                *)
AcquireLease(e) ==
    /\ entry[e] = "taken"
    /\ entry' = [entry EXCEPT ![e] = "leased"]
    /\ UNCHANGED <<mVars, hVars, gVars, sVars, loop, old, xVars, faults>>

Unhold(e, st) ==
    /\ entry' = [entry EXCEPT ![e] = st]
    /\ accepted' = [r \in Revs |-> accepted[r] \ {e}]
    /\ UNCHANGED <<mVars, hVars, gVars, sVars, loop, old, pause>>

(* The fenced settlement: acknowledged and released.                        *)
Settle(e) == entry[e] = "leased" /\ Unhold(e, "settled") /\ UNCHANGED faults

(* The owner is gone and its lease has expired, or it never got one.        *)
OwnerLost(e) == entry[e] \in {"taken", "leased"} /\ Fault /\ Unhold(e, "orphan")

-----------------------------------------------------------------------------
Less(n) == IF n = 0 THEN 0 ELSE n - 1

(* Mutant: the marker is written without an expiry. *)
AgedForEver(m) == m

Aged(m) == IF m.ttl <= 1 THEN Absent ELSE [m EXCEPT !.ttl = @ - 1]

(* Time passes for the keys and for the local clock of the migration; a     *)
(* cancelled write does not outlast it, nor a renewal its socket timeout.   *)
Tick ==
    /\ \A r \in Revs : stray[r] = 0
    /\ \A r \in Revs : call[r] # NoCall => call[r].age < MaxReply
    /\ \/ \E k \in Keys : mark[k].ttl > 0
       \/ \E r \in Revs : Live(r) /\ authority[r].left > 0
    /\ SetMark([k \in Keys |-> Aged(mark[k])])
    /\ authority' = [r \in Revs |->
            [authority[r] EXCEPT !.left = Less(@), !.lost = @ \/ authority[r].left <= 1]]
    /\ call' = [r \in Revs |-> IF call[r] = NoCall THEN NoCall
                               ELSE [call[r] EXCEPT !.age = @ + 1]]
    /\ UNCHANGED <<record, stray, hVars, gVars, mig, tries, fVars, accepted, faults>>

Gate(r) ==
    \/ GateStart(r) \/ ScanPage(r) \/ ScanLeases(r) \/ ScanVerdict(r)
    \/ GateHandoff(r) \/ GateRecord(r) \/ GateClear(r)
Migration(r) ==
    \/ MigRenew(r) \/ MigReply(r) \/ MigConfirmed(r) \/ MigApply(r)
    \/ MigNoApply(r) \/ MigDone(r)
Hooks(r) ==
    \/ HelmStart(r) \/ HelmGivesUp(r) \/ DrainJobDeleted(r) \/ DrainJobDone(r)
    \/ AttestRead(r) \/ AttestRenew(r) \/ MigStart(r) \/ MigJobDone(r)
    \/ HoldRenew(r) \/ HookFails(r) \/ HookJobDone(r) \/ RollDone(r) \/ ReleaseClear(r) \/ ReleaseRecord(r)
    \/ \E l \in Loops : RollLoop(r, l)
Trouble(r) ==
    \/ GateHeartbeat(r) \/ GateInterrupted(r) \/ GateKilled(r) \/ StrayWrite(r)
    \/ MigReplyLost(r) \/ MigKilled(r)

Next ==
    \/ \E r \in Revs : Gate(r) \/ Migration(r) \/ Hooks(r) \/ Trouble(r)
    \/ \E l \in Loops : ClaimCheck(l) \/ Claim(l)
    \/ \E e \in Entries : AcquireLease(e) \/ Settle(e) \/ OwnerLost(e)
    \/ Tick

(* Pods run, Jobs have deadlines, clocks advance and deliveries have a      *)
(* budget; Helm and its operator may stop at any point.                    *)
Fairness ==
    /\ WF_vars(Tick)
    /\ \A r \in Revs :
         /\ WF_vars(Gate(r)) /\ WF_vars(StrayWrite(r)) /\ WF_vars(MigReply(r))
         /\ WF_vars(MigRenew(r)) /\ WF_vars(MigConfirmed(r))
         /\ WF_vars(MigApply(r)) /\ WF_vars(MigDone(r))
    /\ \A l \in Loops : WF_vars(ClaimCheck(l)) /\ WF_vars(Claim(l))
    /\ \A e \in Entries : WF_vars(AcquireLease(e)) /\ WF_vars(Settle(e))

Spec == Init /\ [][Next]_vars
FairSpec == Spec /\ Fairness

-----------------------------------------------------------------------------
(* Properties *)

PastAttest == {"migrate", "hold", "roll", "release", "release2", "done", "aborted"}

(* What an owner held when the gate first paused the fleet has been settled *)
(* or let go when the gate reports drained, and so before any later hook of *)
(* the upgrade, although the two lanes are scanned page by page, the drain  *)
(* Job may be deleted under Helm and the marker may have lapsed meanwhile.  *)
AcceptedSettled ==
    \A r \in Revs :
        gate[r] \in {"handoff", "record", "ok"} \/ helm[r] \in PastAttest
            => accepted[r] = {}

(* The roll is let through, by the renewal of the hold hook, only under a   *)
(* pause that has not been broken since the verdict of that drain, for the  *)
(* fleet of either version: the hooks renew authority and never make it,    *)
(* and no process of another revision takes a key away from under the pair. *)
(* (A gate that failed although its record was written may have been        *)
(* overlooked by Helm, when its Job was deleted.)                          *)
RollUnderPause ==
    [][\A r \in Revs :
        hook[r] # "held" /\ hook'[r] = "held" =>
            pause[r] = "held" \/ gate[r] # "ok"]_vars

(* A migration starts only under the unbroken pause of its own revision,    *)
(* because the local deadline of the Job ends before the lease it           *)
(* confirmed.  Besides a gate as above, only the gate of a newer revision   *)
(* revokes the pause sooner than that.                                     *)
ApplyUnderPause ==
    [][\A r \in Revs :
        mig[r] # "apply" /\ mig'[r] = "apply" =>
            \/ pause[r] = "held" \/ gate[r] # "ok"
            \/ \E q \in Revs : q > r /\ gate[q] # "none"]_vars

(* A killed gate pauses the fleet for a waiting lease at most, an upgrade   *)
(* that fails before its hold hook was executed for the handoff lease, and  *)
(* one that fails in or after it for the roll hold, whatever late writes,   *)
(* late hooks and releases do.                                             *)
PauseBounded ==
    \A r \in Revs : \A k \in Keys : mark[k].rev = r =>
        mark[k].ttl <= IF pause[r] = "none" THEN Lease
                       ELSE IF hook[r] = "held" THEN Hold
                       ELSE Handoff

(* "reporting drained over a fleet that is still claiming is the failure    *)
(* the gate exists to prevent": when the success record is written nothing  *)
(* is in flight.  This does not hold (README, section 6).                  *)
DrainedMeansIdle ==
    \A r \in Revs : gate[r] = "ok" /\ helm[r] = "drain" /\ pause[r] = "held"
        => \A e \in Entries : entry[e] # "leased"

(* No upgrade, killed, refused or given up at any point, leaves the fleet   *)
(* paused for ever: every entry is settled in the end.                     *)
EverySettles == \A e \in Entries : <>(entry[e] = "settled")
=============================================================================
