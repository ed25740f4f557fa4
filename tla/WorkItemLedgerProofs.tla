------------------------ MODULE WorkItemLedgerProofs ------------------------
(***************************************************************************)
(* Proofs about WorkItemLedger for any number of workers and requests and  *)
(* any limits.                                                             *)
(*                                                                         *)
(* OneActive, CancelledIsQuiet and OwnerSpeaksAlone are not inductive.     *)
(* Voices says of each request why nobody speaks beside its owner: the     *)
(* epoch advances when a run starts and when a termination claims it, no   *)
(* handler has an epoch that the row has not reached, and a resumed turn   *)
(* takes over the epoch of a parked request only, whose run has stopped to *)
(* beat.  Several resumed turns may have the epoch together.  Shape says   *)
(* of the rows together what the transactions rely on when they insert or  *)
(* promote one.                                                            *)
(***************************************************************************)
EXTENDS WorkItemLedger, FiniteSetTheorems, TLAPS

Rests == {"none", "queued", "waiting"}
Speaking == {"on", "settling", "stop"}
Stops == {"issue", "deadline", "owner_lost"}
Taken == {"queued", "waiting", "running"}

(* Handlers whose report on r the ledger would accept.                     *)
Speaks(w, r) == run[w][r].pc \in Speaking /\ run[w][r].epoch = req[r].epoch
Claims(w, r) == term[w][r] = req[r].epoch /\ term[w][r] # 0

Bounded(r) ==
    \A w \in Workers :
        /\ run[w][r].pc \in Speaking => 0 < run[w][r].epoch /\ run[w][r].epoch <= req[r].epoch
        /\ term[w][r] <= req[r].epoch
        /\ req[r].st = "running" => term[w][r] < req[r].epoch

Beating(w, r) == Speaks(w, r) /\ run[w][r].beats

OneVoice(r) ==
    \A v, w \in Workers :
        /\ Beating(v, r) /\ Speaks(w, r) => v = w
        /\ Claims(v, r) /\ Claims(w, r) => v = w
        /\ ~(Speaks(v, r) /\ Claims(w, r))

(* Nobody beats for r, which is what a resumed turn relies on.             *)
Muted(r) == \A w \in Workers : ~Beating(w, r)

VoiceOf(r) ==
    /\ req[r].st \in Rests => req[r].epoch = 0
    /\ Bounded(r)
    /\ OneVoice(r)
    /\ req[r].st = "running" /\ req[r].hb = "held" => Muted(r)

Voices == \A r \in Ids : VoiceOf(r)

Shape ==
    /\ \A r \in Ids : r > asked => req[r].st = "none"
    /\ item.readmit <= asked
    /\ \A q, r \in Ids : req[q].st \in Active /\ req[r].st \in Active => q = r
    /\ \A r \in Ids : req[r].st = "stopping" => req[r].cause \in Stops
    /\ item.cancelled => \A r \in Ids : req[r].st \notin Taken

IInv == TypeOK /\ Shape /\ Voices

-----------------------------------------------------------------------------
(* The rows that the transactions write.                                   *)

LEMMA Words ==
    /\ Active \subseteq Statuses /\ Ended \subseteq Statuses
    /\ "none" \in Statuses /\ "queued" \in Statuses
    /\ "waiting" \in Active /\ "running" \in Active /\ "stopping" \in Active
    /\ Stops \subseteq Causes
    /\ {"none", "issue", "capacity", "lineage", "publication", "start", "report"}
          \subseteq Causes
    /\ {"none", "live", "late", "lost", "held"} \subseteq Beats
    /\ {"none", "flight", "opened", "refused"} \subseteq Outcomes
  BY DEF Statuses, Active, Ended, Stops, Causes, Beats, Outcomes

LEMMA RowWritten ==
    ASSUME NEW s \in Statuses, NEW n \in Nat, NEW b \in BOOLEAN
    PROVE  /\ Row(s, n, b) \in Rows
           /\ Row(s, n, b).st = s
           /\ Row(s, n, b).epoch = 0
  BY LedgerAssumption, Words DEF Row, Rows

LEMMA NothingWritten ==
    NoRow \in Rows /\ NoRun \in Runs /\ NoRun.pc = "idle"
  BY Words, RowWritten DEF NoRow, NoRun, Runs

LEMMA EndWritten ==
    ASSUME NEW row \in Rows, NEW s \in Ended, NEW c \in Causes
    PROVE  /\ End(row, s, c) \in Rows
           /\ End(row, s, c).st = s
           /\ End(row, s, c).cause = c
           /\ End(row, s, c).epoch = row.epoch
<1>1. row.seq \in Nat /\ row.epoch \in Nat
  BY DEF Rows
<1>2. s \in Statuses /\ NoRow \in Rows
  BY Words, NothingWritten
<1>3. End(row, s, c) \in Rows
  BY <1>1, <1>2 DEF End, Rows
<1>4. /\ End(row, s, c).st = s
      /\ End(row, s, c).cause = c
      /\ End(row, s, c).epoch = row.epoch
  BY <1>2 DEF End, Rows
<1> QED BY <1>3, <1>4

LEMMA RunningWritten ==
    ASSUME NEW row \in Rows, NEW w \in Workers
    PROVE  /\ Running(row, w) \in Rows
           /\ Running(row, w).st = "running"
           /\ Running(row, w).epoch = row.epoch + 1
           /\ Running(row, w).hb = "live"
<1>1. row.seq \in Nat /\ row.epoch + 1 \in Nat /\ row.snap \in BOOLEAN
  BY DEF Rows
<1>2. "running" \in Statuses /\ "live" \in Beats /\ NoRow \in Rows
  BY Words, NothingWritten
<1>3. Running(row, w) \in Rows
  BY <1>1, <1>2 DEF Running, Rows
<1>4. /\ Running(row, w).st = "running" /\ Running(row, w).epoch = row.epoch + 1
      /\ Running(row, w).hb = "live"
  BY <1>2 DEF Running, Rows
<1> QED BY <1>3, <1>4

LEMMA StoppingWritten ==
    ASSUME NEW row \in Rows, NEW c \in Stops, NEW hb \in Beats
    PROVE  /\ Stopping(row, c, hb) \in Rows
           /\ Stopping(row, c, hb).st = "stopping"
           /\ Stopping(row, c, hb).cause = c
           /\ Stopping(row, c, hb).epoch = row.epoch
<1> DEFINE pr == IF c = "owner_lost" THEN row.pr ELSE "none"
<1>1. pr \in Outcomes
  BY Words DEF Rows
<1>2. "stopping" \in Statuses /\ c \in Causes
  BY Words
<1>3. Stopping(row, c, hb) = [row EXCEPT !.st = "stopping", !.cause = c, !.hb = hb,
                                         !.execOver = FALSE, !.pr = pr]
  BY DEF Stopping
<1> HIDE DEF pr
<1>4. Stopping(row, c, hb) \in Rows
  BY <1>1, <1>2, <1>3 DEF Rows
<1>5. /\ Stopping(row, c, hb).st = "stopping"
      /\ Stopping(row, c, hb).cause = c
      /\ Stopping(row, c, hb).epoch = row.epoch
  BY <1>3 DEF Rows
<1> QED BY <1>4, <1>5

LEMMA ReleaseWritten ==
    ASSUME NEW hb \in Beats
    PROVE  Release(hb) \in Beats \ {"held"}
  BY Words DEF Release

(* A write to one row of the table.                                        *)
LEMMA OneRow ==
    ASSUME TypeOK, NEW r \in Ids, NEW row \in Rows, req' = [req EXCEPT ![r] = row]
    PROVE  /\ req' \in [Ids -> Rows]
           /\ req'[r] = row
           /\ \A q \in Ids \ {r} : req'[q] = req[q]
  BY DEF TypeOK

LEMMA OneRun ==
    ASSUME TypeOK, NEW w \in Workers, NEW r \in Ids, NEW new \in Runs, SetRun(w, r, new)
    PROVE  /\ run' \in [Workers -> [Ids -> Runs]]
           /\ run'[w][r] = new
           /\ \A v \in Workers, q \in Ids : <<v, q>> # <<w, r>> => run'[v][q] = run[v][q]
  BY DEF TypeOK, SetRun

-----------------------------------------------------------------------------
(* What a transaction does to the voices of a request.                     *)

(* No handler of r gets a new voice.                                       *)
Hushed(r) ==
    \A w \in Workers :
        /\ \/ run'[w][r].pc \notin Speaking
           \/ /\ run[w][r].pc \in Speaking
              /\ run'[w][r].epoch = run[w][r].epoch
              /\ run'[w][r].beats = run[w][r].beats
        /\ term'[w][r] \in {0, term[w][r]}

(* The epoch of r stands still and nobody gets a voice.                    *)
Still(r) ==
    /\ req'[r].epoch = req[r].epoch
    /\ req'[r].st = "running" => req[r].st = "running"
    /\ req'[r].st = "running" /\ req'[r].hb = "held" => req[r].hb = "held" \/ Muted(r)'
    /\ req'[r].st \in Rests => req[r].st \in Rests
    /\ Hushed(r)

(* What arithmetic needs to know of the types.                             *)
Epochs(r) ==
    /\ req[r].epoch \in Nat
    /\ \A w \in Workers : run[w][r].epoch \in Nat /\ term[w][r] \in Nat

LEMMA EpochTypes ==
    ASSUME NEW r \in Ids
    PROVE  (TypeOK => Epochs(r)) /\ (TypeOK' => Epochs(r)')
  BY DEF TypeOK, Epochs, Rows, Runs

LEMMA StillKeeps ==
    ASSUME NEW r \in Ids, Epochs(r), Epochs(r)', VoiceOf(r), Still(r)
    PROVE  VoiceOf(r)'
<1>1. ASSUME NEW v \in Workers
      PROVE  /\ run'[v][r].pc \in Speaking =>
                   0 < run'[v][r].epoch /\ run'[v][r].epoch <= req'[r].epoch
             /\ term'[v][r] <= req'[r].epoch
             /\ req'[r].st = "running" => term'[v][r] < req'[r].epoch
  BY DEF VoiceOf, Still, Hushed, Bounded, Epochs
<1>2. ASSUME NEW w \in Workers
      PROVE  /\ Speaks(w, r)' => Speaks(w, r)
             /\ Beating(w, r)' => Beating(w, r)
             /\ Claims(w, r)' => Claims(w, r)
  BY DEF Still, Hushed, Beating, Speaks, Claims
<1>3. OneVoice(r)' /\ (Muted(r) => Muted(r)')
  BY <1>2 DEF VoiceOf, OneVoice, Muted
<1> QED BY <1>1, <1>3 DEF VoiceOf, Bounded, Still

(* The epoch of r advances; at most worker w gets a voice, one.            *)
Advanced(r) ==
    /\ req'[r].epoch = req[r].epoch + 1
    /\ req'[r].st \notin Rests

LEMMA SilentlyKeeps ==
    ASSUME NEW r \in Ids, Epochs(r), Epochs(r)', VoiceOf(r), Advanced(r), Hushed(r)
    PROVE  VoiceOf(r)'
<1>1. ASSUME NEW v \in Workers
      PROVE  /\ run'[v][r].pc \in Speaking =>
                   0 < run'[v][r].epoch /\ run'[v][r].epoch <= req'[r].epoch
             /\ term'[v][r] <= req'[r].epoch
             /\ req'[r].st = "running" => term'[v][r] < req'[r].epoch
  BY DEF VoiceOf, Advanced, Hushed, Bounded, Epochs
<1>2. ASSUME NEW w \in Workers
      PROVE  ~Speaks(w, r)' /\ ~Claims(w, r)'
  BY DEF VoiceOf, Advanced, Hushed, Bounded, Speaks, Claims, Epochs
<1>3. OneVoice(r)' /\ Muted(r)'
  BY <1>2 DEF OneVoice, Muted, Beating
<1> QED BY <1>1, <1>3 DEF VoiceOf, Bounded, Advanced

LEMMA StartedKeeps ==
    ASSUME NEW w \in Workers, NEW r \in Ids, Epochs(r), Epochs(r)', VoiceOf(r), Advanced(r),
           run'[w][r].epoch = req'[r].epoch, req'[r].hb = "live",
           \A v \in Workers \ {w} : run'[v][r] = run[v][r], term' = term
    PROVE  VoiceOf(r)'
<1>1. ASSUME NEW v \in Workers
      PROVE  /\ run'[v][r].pc \in Speaking =>
                   0 < run'[v][r].epoch /\ run'[v][r].epoch <= req'[r].epoch
             /\ term'[v][r] <= req'[r].epoch
             /\ req'[r].st = "running" => term'[v][r] < req'[r].epoch
  BY DEF VoiceOf, Advanced, Bounded, Epochs
<1>2. ASSUME NEW v \in Workers
      PROVE  (Speaks(v, r)' => v = w) /\ ~Claims(v, r)'
  BY DEF VoiceOf, Advanced, Bounded, Speaks, Claims, Epochs
<1>3. OneVoice(r)'
  BY <1>2 DEF OneVoice, Beating
<1> QED BY <1>1, <1>3 DEF VoiceOf, Bounded, Advanced

LEMMA ClaimedKeeps ==
    ASSUME NEW w \in Workers, NEW r \in Ids, Epochs(r), Epochs(r)', VoiceOf(r), Advanced(r),
           req'[r].st # "running",
           term'[w][r] = req'[r].epoch,
           \A v \in Workers \ {w} : term'[v][r] = term[v][r],
           \A v \in Workers : run'[v][r].pc \in Speaking => run'[v][r] = run[v][r]
    PROVE  VoiceOf(r)'
<1>1. ASSUME NEW v \in Workers
      PROVE  /\ run'[v][r].pc \in Speaking =>
                   0 < run'[v][r].epoch /\ run'[v][r].epoch <= req'[r].epoch
             /\ term'[v][r] <= req'[r].epoch
             /\ req'[r].st = "running" => term'[v][r] < req'[r].epoch
  BY DEF VoiceOf, Advanced, Bounded, Epochs
<1>2. ASSUME NEW v \in Workers
      PROVE  ~Speaks(v, r)' /\ (Claims(v, r)' => v = w)
  BY DEF VoiceOf, Advanced, Bounded, Speaks, Claims, Epochs
<1>3. OneVoice(r)'
  BY <1>2 DEF OneVoice, Beating
<1> QED BY <1>1, <1>3 DEF VoiceOf, Bounded, Advanced

-----------------------------------------------------------------------------
(* What a transaction does to the shape of the table.                      *)

(* Counts and stored numbers only name requests that were asked for.       *)
Counted ==
    /\ asked <= asked'
    /\ item'.readmit <= asked'

(* No row becomes active that was not.                                     *)
Settles(r) ==
    /\ req[r].st = "none" => req'[r].st = "none" \/ r <= asked'
    /\ req'[r].st \in Active => req[r].st \in Active
    /\ req'[r].st = "stopping" => req'[r].cause \in Stops
    /\ item'.cancelled => req'[r].st \notin Taken

LEMMA SettlesKeeps ==
    ASSUME TypeOK, TypeOK', Shape, Counted, \A r \in Ids : Settles(r)
    PROVE  Shape'
<1>1. \A r \in Ids : r > asked' => req'[r].st = "none"
  BY DEF Shape, Counted, Settles, TypeOK, Ids
<1>2. \A q, r \in Ids : req'[q].st \in Active /\ req'[r].st \in Active => q = r
  BY DEF Shape, Settles
<1>3. \A r \in Ids : req'[r].st = "stopping" => req'[r].cause \in Stops
  BY DEF Settles
<1>4. item'.cancelled => \A r \in Ids : req'[r].st \notin Taken
  BY DEF Settles
<1> QED BY <1>1, <1>2, <1>3, <1>4 DEF Shape, Counted

(* Row n becomes the one that waits.                                       *)
LEMMA AdmitsKeeps ==
    ASSUME TypeOK, TypeOK', Shape, Counted, NEW n \in Ids, n <= asked',
           req'[n].st = "waiting", item'.cancelled = FALSE,
           \A q \in Ids \ {n} : /\ req[q].st = "none" => req'[q].st = "none"
                                /\ req'[q].st \notin Active
    PROVE  Shape'
<1>1. \A r \in Ids : r > asked' => req'[r].st = "none"
  BY DEF Shape, Counted, TypeOK, Ids
<1>2. \A q, r \in Ids : req'[q].st \in Active /\ req'[r].st \in Active => q = r
  OBVIOUS
<1>3. \A r \in Ids : req'[r].st = "stopping" => req'[r].cause \in Stops
  BY Words
<1> QED BY <1>1, <1>2, <1>3 DEF Shape, Counted

(* The new contents of one row, when only that row is written.             *)
Same(r, row) ==
    /\ row.epoch = req[r].epoch
    /\ row.st = req[r].st
    /\ row.cause = req[r].cause
    /\ row.hb = req[r].hb

Allowed(r, row) ==
    /\ row.epoch = req[r].epoch
    /\ row.st = "running" /\ row.hb = "held" => req[r].hb = "held" \/ Muted(r)'
    /\ \/ row.st = req[r].st /\ row.cause = req[r].cause
       \/ req[r].st # "none" /\ row.st \in Ended
       \/ req[r].st \in Active /\ row.st = "stopping" /\ row.cause \in Stops

LEMMA MoveKeeps ==
    ASSUME IInv, NEW r \in Ids, NEW row \in Rows, req' = [req EXCEPT ![r] = row],
           Allowed(r, row), UNCHANGED <<item, callers>>,
           run' \in [Workers -> [Ids -> Runs]], term' \in [Workers -> [Ids -> Nat]],
           \A q \in Ids : Hushed(q),
           up' \subseteq Workers, transcript' \in BOOLEAN, faults' \in 0..MaxFault
    PROVE  IInv'
<1>1. TypeOK /\ Shape /\ Voices
  BY DEF IInv
<1>2. /\ req' \in [Ids -> Rows]
      /\ req'[r] = row
      /\ \A q \in Ids \ {r} : req'[q] = req[q]
  BY <1>1, OneRow
<1>3. TypeOK'
  BY <1>1, <1>2 DEF TypeOK, callers
<1>4. Counted
  BY <1>1 DEF Counted, Shape, callers, TypeOK
<1>5. ASSUME NEW q \in Ids PROVE Settles(q)
  <2>1. CASE q # r
    BY <1>1, <1>2, <2>1 DEF Settles, Shape
  <2>2. CASE q = r
    BY <1>1, <1>2, <2>2, Words DEF Settles, Shape, Allowed, Ended, Taken, Active
  <2> QED BY <2>1, <2>2
<1>6. ASSUME NEW q \in Ids PROVE VoiceOf(q)'
  <2>1. Still(q)
    <3>1. CASE q # r
      BY <1>2, <3>1 DEF Still
    <3>2. CASE q = r
      BY <1>2, <3>2 DEF Still, Allowed, Ended, Rests
    <3> QED BY <3>1, <3>2
  <2> QED BY <1>1, <1>3, <2>1, EpochTypes, StillKeeps DEF Voices
<1>7. Shape'
  BY <1>1, <1>3, <1>4, <1>5, SettlesKeeps
<1> QED BY <1>3, <1>6, <1>7 DEF IInv, Voices

(* The same for the transactions that leave the workers alone.             *)
LEMMA RowKeeps ==
    ASSUME IInv, NEW r \in Ids, NEW row \in Rows, req' = [req EXCEPT ![r] = row],
           Allowed(r, row), UNCHANGED <<item, callers, workers>>,
           transcript' \in BOOLEAN, faults' \in 0..MaxFault
    PROVE  IInv'
<1>1. /\ run' \in [Workers -> [Ids -> Runs]] /\ term' \in [Workers -> [Ids -> Nat]]
      /\ up' \subseteq Workers
  BY DEF IInv, TypeOK, workers
<1>2. \A q \in Ids : Hushed(q)
  BY DEF Hushed, workers
<1> QED BY <1>1, <1>2, MoveKeeps DEF workers

(* and for those that write no row.                                        *)
LEMMA NoRowKeeps ==
    ASSUME IInv, NEW r \in Ids, UNCHANGED <<item, req, callers>>,
           run' \in [Workers -> [Ids -> Runs]], term' \in [Workers -> [Ids -> Nat]],
           \A q \in Ids : Hushed(q),
           up' \subseteq Workers, transcript' \in BOOLEAN, faults' \in 0..MaxFault
    PROVE  IInv'
<1>1. req[r] \in Rows /\ req' = [req EXCEPT ![r] = req[r]]
  BY DEF IInv, TypeOK
<1>2. Allowed(r, req[r])
  BY DEF Allowed
<1> QED BY <1>1, <1>2, MoveKeeps

LEMMA FaultTypes ==
    ASSUME TypeOK, Fault \/ UNCHANGED faults
    PROVE  faults' \in 0..MaxFault
  BY LedgerAssumption DEF TypeOK, Fault

(* A run that ends, or goes on under its epoch.                            *)
LEMMA RunHushed ==
    ASSUME TypeOK, NEW w \in Workers, NEW r \in Ids, NEW new \in Runs, SetRun(w, r, new),
           \/ new.pc \notin Speaking
           \/ /\ run[w][r].pc \in Speaking
              /\ new.epoch = run[w][r].epoch /\ new.beats = run[w][r].beats,
           term' = term
    PROVE  /\ run' \in [Workers -> [Ids -> Runs]]
           /\ term' \in [Workers -> [Ids -> Nat]]
           /\ \A q \in Ids : Hushed(q)
<1>1. /\ run' \in [Workers -> [Ids -> Runs]]
      /\ run'[w][r] = new
      /\ \A v \in Workers, q \in Ids : <<v, q>> # <<w, r>> => run'[v][q] = run[v][q]
  BY OneRun
<1>2. ASSUME NEW q \in Ids PROVE Hushed(q)
  <2> SUFFICES ASSUME NEW v \in Workers
               PROVE  \/ run'[v][q].pc \notin Speaking
                      \/ /\ run[v][q].pc \in Speaking
                         /\ run'[v][q].epoch = run[v][q].epoch
                         /\ run'[v][q].beats = run[v][q].beats
    BY DEF Hushed
  <2>1. CASE v = w /\ q = r
    BY <1>1, <2>1
  <2>2. CASE <<v, q>> # <<w, r>>
    BY <1>1, <2>2
  <2> QED BY <2>1, <2>2
<1> QED BY <1>1, <1>2 DEF TypeOK

LEMMA NoRunHushed ==
    ASSUME TypeOK, NEW w \in Workers, NEW r \in Ids, SetRun(w, r, NoRun), term' = term
    PROVE  /\ run' \in [Workers -> [Ids -> Runs]]
           /\ term' \in [Workers -> [Ids -> Nat]]
           /\ \A q \in Ids : Hushed(q)
<1>1. NoRun \in Runs /\ NoRun.pc \notin Speaking
  BY NothingWritten DEF Speaking
<1> QED BY <1>1, RunHushed

-----------------------------------------------------------------------------
(* Transactions and clock ticks that write columns of one row and move     *)
(* neither its status nor its epoch.                                       *)

LEMMA WriteSnapshotKeeps ==
    ASSUME IInv, NEW r \in Ids, WriteSnapshot(r)
    PROVE  IInv'
<1> DEFINE row == [req[r] EXCEPT !.snap = TRUE]
<1>1. TypeOK /\ req[r] \in Rows
  BY DEF IInv, TypeOK
<1>2. row \in Rows /\ Same(r, row)
  BY <1>1, Words DEF Rows, Same
<1>3. req' = [req EXCEPT ![r] = row]
  BY <1>1 DEF WriteSnapshot
<1>4. UNCHANGED <<item, callers, workers, transcript>> /\ (Fault \/ UNCHANGED faults)
  BY DEF WriteSnapshot
<1>5. Allowed(r, row)
  BY <1>2 DEF Allowed, Same
<1> HIDE DEF row
<1> QED BY <1>1, <1>2, <1>3, <1>4, <1>5, FaultTypes, RowKeeps DEF TypeOK

LEMMA PublishTerminateKeeps ==
    ASSUME IInv, NEW r \in Ids, PublishTerminate(r)
    PROVE  IInv'
<1> DEFINE row == [req[r] EXCEPT !.told = TRUE, !.stop = TRUE]
<1>1. TypeOK /\ req[r] \in Rows
  BY DEF IInv, TypeOK
<1>2. row \in Rows /\ Same(r, row)
  BY <1>1, Words DEF Rows, Same
<1>3. req' = [req EXCEPT ![r] = row]
  BY <1>1 DEF PublishTerminate
<1>4. UNCHANGED <<item, callers, workers, transcript>> /\ (Fault \/ UNCHANGED faults)
  BY DEF PublishTerminate
<1>5. Allowed(r, row)
  BY <1>2 DEF Allowed, Same
<1> HIDE DEF row
<1> QED BY <1>1, <1>2, <1>3, <1>4, <1>5, FaultTypes, RowKeeps DEF TypeOK

LEMMA DropWakeKeeps ==
    ASSUME IInv, NEW w \in Workers, NEW r \in Ids, DropWake(w, r)
    PROVE  IInv'
<1> DEFINE row == [req[r] EXCEPT !.wake = FALSE]
<1>1. TypeOK /\ req[r] \in Rows
  BY DEF IInv, TypeOK
<1>2. row \in Rows /\ Same(r, row)
  BY <1>1, Words DEF Rows, Same
<1>3. req' = [req EXCEPT ![r] = row]
  BY <1>1 DEF DropWake
<1>4. UNCHANGED <<item, callers, workers, transcript>> /\ (Fault \/ UNCHANGED faults)
  BY DEF DropWake
<1>5. Allowed(r, row)
  BY <1>2 DEF Allowed, Same
<1> HIDE DEF row
<1> QED BY <1>1, <1>2, <1>3, <1>4, <1>5, FaultTypes, RowKeeps DEF TypeOK

LEMMA RenewAcquireKeeps ==
    ASSUME IInv, NEW w \in Workers, NEW r \in Ids, RenewAcquire(w, r)
    PROVE  IInv'
<1> DEFINE row == [req[r] EXCEPT !.acq = w, !.acqLive = TRUE]
<1>1. TypeOK /\ req[r] \in Rows
  BY DEF IInv, TypeOK
<1>2. row \in Rows /\ Same(r, row)
  BY <1>1, Words DEF Rows, Same
<1>3. req' = [req EXCEPT ![r] = row]
  BY <1>1 DEF RenewAcquire
<1>4. UNCHANGED <<item, callers, workers, transcript>> /\ (Fault \/ UNCHANGED faults)
  BY DEF RenewAcquire
<1>5. Allowed(r, row)
  BY <1>2 DEF Allowed, Same
<1> HIDE DEF row
<1> QED BY <1>1, <1>2, <1>3, <1>4, <1>5, FaultTypes, RowKeeps DEF TypeOK

LEMMA PublishKeeps ==
    ASSUME IInv, NEW w \in Workers, NEW r \in Ids, Publish(w, r)
    PROVE  IInv'
<1> DEFINE row == [req[r] EXCEPT !.pr = "flight"]
<1>1. TypeOK /\ req[r] \in Rows
  BY DEF IInv, TypeOK
<1>2. row \in Rows /\ Same(r, row)
  BY <1>1, Words DEF Rows, Same
<1>3. req' = [req EXCEPT ![r] = row]
  BY <1>1 DEF Publish
<1>4. UNCHANGED <<item, callers, workers, transcript>> /\ (Fault \/ UNCHANGED faults)
  BY DEF Publish
<1>5. Allowed(r, row)
  BY <1>2 DEF Allowed, Same
<1> HIDE DEF row
<1> QED BY <1>1, <1>2, <1>3, <1>4, <1>5, FaultTypes, RowKeeps DEF TypeOK

LEMMA DropStopKeeps ==
    ASSUME IInv, NEW w \in Workers, NEW r \in Ids, DropStop(w, r)
    PROVE  IInv'
<1> DEFINE row == [req[r] EXCEPT !.stop = FALSE]
<1>1. TypeOK /\ req[r] \in Rows
  BY DEF IInv, TypeOK
<1>2. row \in Rows /\ Same(r, row)
  BY <1>1, Words DEF Rows, Same
<1>3. req' = [req EXCEPT ![r] = row]
  BY <1>1 DEF DropStop
<1>4. UNCHANGED <<item, callers, workers, transcript>> /\ (Fault \/ UNCHANGED faults)
  BY DEF DropStop
<1>5. Allowed(r, row)
  BY <1>2 DEF Allowed, Same
<1> HIDE DEF row
<1> QED BY <1>1, <1>2, <1>3, <1>4, <1>5, FaultTypes, RowKeeps DEF TypeOK

LEMMA LapseAcquireKeeps ==
    ASSUME IInv, NEW r \in Ids, LapseAcquire(r)
    PROVE  IInv'
<1> DEFINE row == [req[r] EXCEPT !.acqLive = FALSE]
<1>1. TypeOK /\ req[r] \in Rows
  BY DEF IInv, TypeOK
<1>2. row \in Rows /\ Same(r, row)
  BY <1>1, Words DEF Rows, Same
<1>3. req' = [req EXCEPT ![r] = row]
  BY <1>1 DEF LapseAcquire, Later
<1>4. UNCHANGED <<item, callers, workers, transcript>> /\ (Fault \/ UNCHANGED faults)
  BY DEF LapseAcquire, Later
<1>5. Allowed(r, row)
  BY <1>2 DEF Allowed, Same
<1> HIDE DEF row
<1> QED BY <1>1, <1>2, <1>3, <1>4, <1>5, FaultTypes, RowKeeps DEF TypeOK

LEMMA LapseWaitKeeps ==
    ASSUME IInv, NEW r \in Ids, LapseWait(r)
    PROVE  IInv'
<1> DEFINE row == [req[r] EXCEPT !.waitOver = TRUE]
<1>1. TypeOK /\ req[r] \in Rows
  BY DEF IInv, TypeOK
<1>2. row \in Rows /\ Same(r, row)
  BY <1>1, Words DEF Rows, Same
<1>3. req' = [req EXCEPT ![r] = row]
  BY <1>1 DEF LapseWait, Later
<1>4. UNCHANGED <<item, callers, workers, transcript>> /\ (Fault \/ UNCHANGED faults)
  BY DEF LapseWait, Later
<1>5. Allowed(r, row)
  BY <1>2 DEF Allowed, Same
<1> HIDE DEF row
<1> QED BY <1>1, <1>2, <1>3, <1>4, <1>5, FaultTypes, RowKeeps DEF TypeOK

LEMMA LapseCancelKeeps ==
    ASSUME IInv, NEW r \in Ids, LapseCancel(r)
    PROVE  IInv'
<1> DEFINE row == [req[r] EXCEPT !.overdue = TRUE]
<1>1. TypeOK /\ req[r] \in Rows
  BY DEF IInv, TypeOK
<1>2. row \in Rows /\ Same(r, row)
  BY <1>1, Words DEF Rows, Same
<1>3. req' = [req EXCEPT ![r] = row]
  BY <1>1 DEF LapseCancel, Later
<1>4. UNCHANGED <<item, callers, workers, transcript>> /\ (Fault \/ UNCHANGED faults)
  BY DEF LapseCancel, Later
<1>5. Allowed(r, row)
  BY <1>2 DEF Allowed, Same
<1> HIDE DEF row
<1> QED BY <1>1, <1>2, <1>3, <1>4, <1>5, FaultTypes, RowKeeps DEF TypeOK

LEMMA PublishWakeKeeps ==
    ASSUME IInv, NEW r \in Ids, PublishWake(r)
    PROVE  IInv'
<1>1. TypeOK /\ req[r] \in Rows
  BY DEF IInv, TypeOK
<1>2. PICK b \in BOOLEAN : req' = [req EXCEPT ![r] = [req[r] EXCEPT !.wake = TRUE, !.pub = b]]
  <2>1. CASE req' = [req EXCEPT ![r].wake = TRUE, ![r].pub = TRUE]
    BY <1>1, <2>1
  <2>2. CASE req' = [req EXCEPT ![r].wake = TRUE]
    <3>1. [req[r] EXCEPT !.wake = TRUE, !.pub = req[r].pub] = [req[r] EXCEPT !.wake = TRUE]
      BY <1>1 DEF Rows
    <3>2. req[r].pub \in BOOLEAN
      BY <1>1 DEF Rows
    <3> QED BY <1>1, <2>2, <3>1, <3>2
  <2> QED BY <2>1, <2>2 DEF PublishWake
<1> DEFINE row == [req[r] EXCEPT !.wake = TRUE, !.pub = b]
<1>3. row \in Rows /\ Same(r, row)
  BY <1>1 DEF Rows, Same
<1>4. UNCHANGED <<item, callers, workers, transcript>> /\ (Fault \/ UNCHANGED faults)
  BY DEF PublishWake
<1>5. Allowed(r, row)
  BY <1>3 DEF Allowed, Same
<1> HIDE DEF row
<1> QED BY <1>1, <1>2, <1>3, <1>4, <1>5, FaultTypes, RowKeeps DEF TypeOK, row

LEMMA PublicationEndsKeeps ==
    ASSUME IInv, NEW r \in Ids, PublicationEnds(r)
    PROVE  IInv'
<1>1. TypeOK /\ req[r] \in Rows
  BY DEF IInv, TypeOK
<1>2. PICK o \in {"opened", "refused"} : req' = [req EXCEPT ![r].pr = o]
  BY DEF PublicationEnds
<1> DEFINE row == [req[r] EXCEPT !.pr = o]
<1>3. row \in Rows /\ Same(r, row)
  BY <1>1, Words DEF Rows, Same
<1>4. req' = [req EXCEPT ![r] = row]
  BY <1>1, <1>2
<1>5. UNCHANGED <<item, callers, workers, transcript, faults>>
  BY DEF PublicationEnds
<1>6. Allowed(r, row)
  BY <1>3 DEF Allowed, Same
<1> HIDE DEF row
<1> QED BY <1>1, <1>3, <1>4, <1>5, <1>6, RowKeeps DEF TypeOK

(* A tick of the runtime lease.                                            *)
LEMMA BeatColumn ==
    ASSUME IInv, NEW r \in Ids, NEW hb \in Beats \ {"held"}, NEW b \in BOOLEAN,
           Later(r, [req[r] EXCEPT !.execOver = b, !.hb = hb])
    PROVE  IInv'
<1> DEFINE row == [req[r] EXCEPT !.execOver = b, !.hb = hb]
<1>1. TypeOK /\ req[r] \in Rows
  BY DEF IInv, TypeOK
<1>2. /\ row \in Rows /\ row.epoch = req[r].epoch /\ row.st = req[r].st
      /\ row.cause = req[r].cause /\ row.hb # "held"
  BY <1>1 DEF Rows
<1>3. req' = [req EXCEPT ![r] = row] /\ UNCHANGED <<item, callers, workers, transcript, faults>>
  BY DEF Later
<1>4. Allowed(r, row)
  BY <1>2 DEF Allowed
<1> HIDE DEF row
<1> QED BY <1>1, <1>2, <1>3, <1>4, RowKeeps DEF TypeOK

LEMMA LapseExecKeeps ==
    ASSUME IInv, NEW r \in Ids, LapseExec(r)
    PROVE  IInv'
<1>1. req[r] \in Rows /\ req[r].hb \in Beats
  BY DEF IInv, TypeOK, Rows
<1>2. Release(req[r].hb) \in Beats \ {"held"}
  BY <1>1, ReleaseWritten
<1>3. Later(r, [req[r] EXCEPT !.execOver = TRUE, !.hb = Release(req[r].hb)])
  BY <1>1 DEF LapseExec
<1> QED BY <1>2, <1>3, BeatColumn

LEMMA LapseBeatKeeps ==
    ASSUME IInv, NEW r \in Ids, LapseBeat(r)
    PROVE  IInv'
<1>1. req[r] \in Rows /\ req[r].execOver \in BOOLEAN
  BY DEF IInv, TypeOK, Rows
<1>2. PICK hb \in {"late", "lost"} : Later(r, [req[r] EXCEPT !.hb = hb])
  BY DEF LapseBeat
<1>3. [req[r] EXCEPT !.hb = hb] = [req[r] EXCEPT !.execOver = req[r].execOver, !.hb = hb]
  BY <1>1 DEF Rows
<1> QED BY <1>1, <1>2, <1>3, Words, BeatColumn

-----------------------------------------------------------------------------
(* A request stops or ends and its workers are left alone.                 *)

LEMMA StopsKeeps ==
    ASSUME IInv, NEW r \in Ids, req[r].st \in Active, NEW c \in Stops, NEW hb \in Beats,
           req' = [req EXCEPT ![r] = Stopping(req[r], c, hb)],
           UNCHANGED <<item, callers, workers, transcript, faults>>
    PROVE  IInv'
<1>1. TypeOK /\ req[r] \in Rows
  BY DEF IInv, TypeOK
<1> DEFINE row == Stopping(req[r], c, hb)
<1>2. row \in Rows /\ row.st = "stopping" /\ row.cause = c /\ row.epoch = req[r].epoch
  BY <1>1, StoppingWritten
<1>3. Allowed(r, row)
  BY <1>2 DEF Allowed, Ended
<1> HIDE DEF row
<1> QED BY <1>1, <1>2, <1>3, RowKeeps DEF TypeOK, row

LEMMA EndsKeeps ==
    ASSUME IInv, NEW r \in Ids, req[r].st # "none", NEW s \in Ended, NEW c \in Causes,
           req' = [req EXCEPT ![r] = End(req[r], s, c)],
           UNCHANGED <<item, callers, workers, faults>>, transcript' \in BOOLEAN
    PROVE  IInv'
<1>1. TypeOK /\ req[r] \in Rows
  BY DEF IInv, TypeOK
<1> DEFINE row == End(req[r], s, c)
<1>2. row \in Rows /\ row.st = s /\ row.epoch = req[r].epoch
  BY <1>1, EndWritten
<1>3. Allowed(r, row)
  BY <1>2 DEF Allowed, Ended
<1> HIDE DEF row
<1> QED BY <1>1, <1>2, <1>3, RowKeeps DEF TypeOK, row

LEMMA TranscriptSettled ==
    ASSUME NEW rows, NEW itm, SettleTerminal(rows, itm)
    PROVE  transcript' \in BOOLEAN
  BY DEF SettleTerminal

LEMMA DeadlineCancelKeeps ==
    ASSUME IInv, NEW r \in Ids, DeadlineCancel(r)
    PROVE  IInv'
<1>1. "deadline" \in Stops /\ req[r].hb \in Beats /\ req \in [Ids -> Rows]
  BY DEF Stops, IInv, TypeOK, Rows
<1> QED BY <1>1, Words, StopsKeeps DEF DeadlineCancel

LEMMA OwnerLostCancelKeeps ==
    ASSUME IInv, NEW r \in Ids, OwnerLostCancel(r)
    PROVE  IInv'
<1>1. "owner_lost" \in Stops /\ req[r].hb \in Beats /\ req \in [Ids -> Rows]
  BY DEF Stops, IInv, TypeOK, Rows
<1> QED BY <1>1, Words, StopsKeeps DEF OwnerLostCancel

LEMMA DeclareLostKeeps ==
    ASSUME IInv, NEW w \in Workers, NEW r \in Ids, DeclareLost(w, r)
    PROVE  IInv'
<1>1. "owner_lost" \in Stops /\ req \in [Ids -> Rows]
  BY DEF Stops, IInv, TypeOK
<1> QED BY <1>1, Words, StopsKeeps DEF DeclareLost

LEMMA ExpireWaitingKeeps ==
    ASSUME IInv, NEW r \in Ids, ExpireWaiting(r)
    PROVE  IInv'
<1>1. "expired" \in Ended /\ req \in [Ids -> Rows]
  BY DEF Ended, IInv, TypeOK
<1> QED BY <1>1, Words, TranscriptSettled, EndsKeeps DEF ExpireWaiting

LEMMA SettlePublicationKeeps ==
    ASSUME IInv, NEW r \in Ids, SettlePublication(r)
    PROVE  IInv'
<1>1. req \in [Ids -> Rows]
  BY DEF IInv, TypeOK
<1>2. PICK s \in {"completed", "failed"} :
          req' = [req EXCEPT ![r] = End(req[r], s, "publication")]
  BY <1>1 DEF SettlePublication
<1>3. s \in Ended
  BY DEF Ended
<1> QED BY <1>2, <1>3, Words, TranscriptSettled, EndsKeeps DEF SettlePublication

LEMMA SettleOverdueKeeps ==
    ASSUME IInv, NEW r \in Ids, SettleOverdue(r)
    PROVE  IInv'
<1>1. TypeOK /\ Shape /\ Voices /\ req[r] \in Rows
  BY DEF IInv, TypeOK
<1> DEFINE end == End(req[r], "cancelled", "issue")
<1> DEFINE row == [end EXCEPT !.owed = TRUE, !.epoch = req[r].epoch + 1, !.told = TRUE,
                              !.stop = req[r].stop, !.hb = req[r].hb]
<1>2. end \in Rows /\ end.st = "cancelled" /\ end.epoch = req[r].epoch
  <2>1. "cancelled" \in Ended /\ "issue" \in Causes
    BY Words DEF Ended
  <2> QED BY <1>1, <2>1, EndWritten
<1>3. req' = [req EXCEPT ![r] = row]
  BY DEF SettleOverdue
<1> HIDE DEF end
<1>4. req[r].stop \in BOOLEAN /\ req[r].hb \in Beats /\ req[r].epoch + 1 \in Nat
  BY <1>1, <1>2 DEF Rows
<1>5. row \in Rows
  <2>1. ASSUME NEW n \in Nat, NEW b \in BOOLEAN, NEW hb \in Beats
        PROVE  [end EXCEPT !.owed = TRUE, !.epoch = n, !.told = TRUE, !.stop = b,
                           !.hb = hb] \in Rows
    BY <1>2, <2>1 DEF Rows
  <2> QED BY <1>4, <2>1
<1>6. row.st = "cancelled" /\ row.epoch = req[r].epoch + 1
  <2>1. ASSUME NEW n \in Nat, NEW b \in BOOLEAN, NEW hb \in Beats
        PROVE  LET new == [end EXCEPT !.owed = TRUE, !.epoch = n, !.told = TRUE,
                                      !.stop = b, !.hb = hb]
               IN  new.st = end.st /\ new.epoch = n
    BY <1>2, <2>1 DEF Rows
  <2> QED BY <1>2, <1>4, <2>1
<1> HIDE DEF row
<1>7. /\ req' \in [Ids -> Rows]
      /\ req'[r] = row
      /\ \A q \in Ids \ {r} : req'[q] = req[q]
  BY <1>1, <1>3, <1>5, OneRow
<1>8. UNCHANGED <<item, callers, workers, faults>> /\ transcript' \in BOOLEAN
  BY TranscriptSettled DEF SettleOverdue
<1>9. TypeOK'
  BY <1>1, <1>7, <1>8 DEF TypeOK, callers, workers
<1>10. Counted
  BY <1>1, <1>8 DEF Counted, Shape, callers, TypeOK
<1>11. ASSUME NEW q \in Ids PROVE Settles(q)
  <2>1. CASE q # r
    BY <1>1, <1>7, <1>8, <2>1 DEF Settles, Shape
  <2>2. CASE q = r
    BY <1>6, <1>7, <2>2 DEF Settles, Taken, Active, SettleOverdue
  <2> QED BY <2>1, <2>2
<1>12. \A q \in Ids : Hushed(q)
  BY <1>8 DEF Hushed, workers
<1>13. ASSUME NEW q \in Ids PROVE VoiceOf(q)'
  <2>1. CASE q # r
    <3>1. Still(q)
      BY <1>7, <1>12, <2>1 DEF Still
    <3> QED BY <1>1, <1>9, <3>1, EpochTypes, StillKeeps DEF Voices
  <2>2. CASE q = r
    <3>1. Advanced(q)
      BY <1>6, <1>7, <2>2 DEF Advanced, Rests
    <3> QED BY <1>1, <1>9, <1>12, <3>1, EpochTypes, SilentlyKeeps DEF Voices
  <2> QED BY <2>1, <2>2
<1> QED BY <1>1, <1>9, <1>10, <1>11, <1>13, SettlesKeeps DEF IInv, Voices

-----------------------------------------------------------------------------
(* A worker takes and runs a request.                                      *)

LEMMA AcquireKeeps ==
    ASSUME IInv, NEW w \in Workers, NEW r \in Ids, Acquire(w, r)
    PROVE  IInv'
<1>1. TypeOK /\ req[r] \in Rows
  BY DEF IInv, TypeOK
<1> DEFINE row == [req[r] EXCEPT !.wake = FALSE, !.acq = w, !.acqLive = TRUE]
<1>2. row \in Rows /\ Same(r, row)
  BY <1>1 DEF Rows, Same
<1>3. req' = [req EXCEPT ![r] = row]
  BY <1>1 DEF Acquire
<1>4. UNCHANGED <<item, callers, term, up, transcript>> /\ (Fault \/ UNCHANGED faults)
  BY DEF Acquire
<1>5. Allowed(r, row)
  BY <1>2 DEF Allowed, Same
<1>6. /\ run' \in [Workers -> [Ids -> Runs]] /\ term' \in [Workers -> [Ids -> Nat]]
      /\ \A q \in Ids : Hushed(q)
  <2>1. CASE SetRun(w, r, [NoRun EXCEPT !.pc = "got"])
    <3>1. [NoRun EXCEPT !.pc = "got"] \in Runs /\ [NoRun EXCEPT !.pc = "got"].pc \notin Speaking
      BY DEF NoRun, Runs, Speaking
    <3> QED BY <1>1, <1>4, <2>1, <3>1, RunHushed
  <2>2. CASE UNCHANGED run
    BY <1>1, <1>4, <2>2 DEF TypeOK, Hushed
  <2> QED BY <2>1, <2>2 DEF Acquire
<1> HIDE DEF row
<1> QED BY <1>1, <1>2, <1>3, <1>4, <1>5, <1>6, FaultTypes, MoveKeeps DEF TypeOK

LEMMA RedispatchKeeps ==
    ASSUME IInv, NEW r \in Ids, NEW old \in Rows, Same(r, old), Redispatch(r, old),
           UNCHANGED <<item, callers, term, up, transcript, faults>>
    PROVE  IInv'
<1>1. TypeOK
  BY DEF IInv
<1> DEFINE row == [old EXCEPT !.pub = FALSE, !.wake = FALSE, !.acq = NoOne, !.acqLive = FALSE]
<1>2. row \in Rows /\ Same(r, row)
  BY DEF Rows, Same
<1>3. req' = [req EXCEPT ![r] = row]
  BY DEF Redispatch
<1>4. Allowed(r, row)
  BY <1>2 DEF Allowed, Same
<1>5. /\ run' \in [Workers -> [Ids -> Runs]]
      /\ \A w \in Workers, q \in Ids : run'[w][q] = IF q = r THEN NoRun ELSE run[w][q]
  BY <1>1, NothingWritten DEF Redispatch, TypeOK
<1>6. \A q \in Ids : Hushed(q)
  BY <1>5, NothingWritten DEF Hushed, Speaking
<1> HIDE DEF row
<1> QED BY <1>1, <1>2, <1>3, <1>4, <1>5, <1>6, MoveKeeps DEF TypeOK

LEMMA RedispatchLapsedKeeps ==
    ASSUME IInv, NEW r \in Ids, RedispatchLapsed(r)
    PROVE  IInv'
<1>1. req[r] \in Rows
  BY DEF IInv, TypeOK
<1> QED BY <1>1, RedispatchKeeps DEF RedispatchLapsed, Same

LEMMA DeferKeeps ==
    ASSUME IInv, NEW w \in Workers, NEW r \in Ids, Defer(w, r)
    PROVE  IInv'
<1>1. TypeOK /\ req[r] \in Rows /\ req[r].fails \in 0..StartLimit
  BY DEF IInv, TypeOK, Rows
<1>2. UNCHANGED <<item, callers, term, up, faults>> /\ req[r].st = "waiting"
  BY DEF Defer, Holds
<1>3. CASE Redispatch(r, req[r]) /\ UNCHANGED transcript
  BY <1>1, <1>2, <1>3, RedispatchKeeps DEF Same
<1>4. CASE /\ req[r].fails + 1 < StartLimit
           /\ Redispatch(r, [req[r] EXCEPT !.fails = @ + 1])
           /\ UNCHANGED transcript
  <2> DEFINE row == [req[r] EXCEPT !.fails = req[r].fails + 1]
  <2>1. req[r].fails + 1 \in 0..StartLimit
    BY <1>1, <1>4, LedgerAssumption
  <2>2. row \in Rows /\ Same(r, row)
    BY <1>1, <2>1 DEF Rows, Same
  <2>3. Redispatch(r, row)
    BY <1>4
  <2> HIDE DEF row
  <2> QED BY <1>2, <1>4, <2>2, <2>3, RedispatchKeeps
<1>5. CASE /\ req' = [req EXCEPT ![r] = End(@, "failed", "start")]
           /\ SettleTerminal(req', item)
           /\ SetRun(w, r, NoRun)
  <2> DEFINE row == End(req[r], "failed", "start")
  <2>1. "failed" \in Ended /\ "start" \in Causes
    BY Words DEF Ended
  <2>2. row \in Rows /\ row.st = "failed" /\ row.epoch = req[r].epoch
    BY <1>1, <2>1, EndWritten
  <2>3. Allowed(r, row)
    BY <1>2, <2>1, <2>2 DEF Allowed
  <2>4. req' = [req EXCEPT ![r] = row]
    BY <1>1, <1>5 DEF TypeOK
  <2> HIDE DEF row
  <2> QED BY <1>1, <1>2, <1>5, <2>2, <2>3, <2>4, TranscriptSettled, NoRunHushed, MoveKeeps DEF TypeOK
<1> QED BY <1>3, <1>4, <1>5 DEF Defer

LEMMA GiveUpKeeps ==
    ASSUME IInv, NEW w \in Workers, NEW r \in Ids, GiveUp(w, r)
    PROVE  IInv'
<1>1. TypeOK
  BY DEF IInv
<1> QED BY <1>1, NoRunHushed, NoRowKeeps DEF GiveUp, TypeOK

LEMMA StartKeeps ==
    ASSUME IInv, NEW w \in Workers, NEW r \in Ids, Start(w, r)
    PROVE  IInv'
<1>1. TypeOK /\ Shape /\ Voices /\ req[r] \in Rows
  BY DEF IInv, TypeOK
<1> DEFINE row == Running(req[r], w)
<1>2. row \in Rows /\ row.st = "running" /\ row.epoch = req[r].epoch + 1 /\ row.hb = "live"
  BY <1>1, RunningWritten
<1>3. req' = [req EXCEPT ![r] = row]
  BY <1>1 DEF Start, TypeOK
<1> HIDE DEF row
<1>4. /\ req' \in [Ids -> Rows]
      /\ req'[r] = row
      /\ \A q \in Ids \ {r} : req'[q] = req[q]
  BY <1>1, <1>2, <1>3, OneRow
<1>5. /\ UNCHANGED <<item, callers, term, up>> /\ transcript' = TRUE
      /\ req[r].st = "waiting" /\ item.cancelled = FALSE
      /\ Fault \/ UNCHANGED faults
  BY <1>1 DEF Start, Holds, TypeOK
<1>6. PICK new \in Runs :
        /\ SetRun(w, r, new)
        /\ new.epoch = req'[r].epoch \/ new.pc \notin Speaking
  <2>1. CASE SetRun(w, r, NoRun)
    BY <2>1, NothingWritten DEF Speaking
  <2>2. CASE SetRun(w, r, [NoRun EXCEPT !.pc = "on", !.epoch = req'[r].epoch, !.beats = TRUE])
    <3>1. req'[r].epoch \in Nat
      BY <1>2, <1>4 DEF Rows
    <3>2. LET new == [NoRun EXCEPT !.pc = "on", !.epoch = req'[r].epoch, !.beats = TRUE]
          IN new \in Runs /\ new.epoch = req'[r].epoch
      BY <3>1 DEF NoRun, Runs
    <3> QED BY <2>2, <3>2
  <2> QED BY <2>1, <2>2 DEF Start
<1>7. /\ run' \in [Workers -> [Ids -> Runs]]
      /\ run'[w][r] = new
      /\ \A v \in Workers, q \in Ids : <<v, q>> # <<w, r>> => run'[v][q] = run[v][q]
  BY <1>1, <1>6, OneRun
<1>8. TypeOK'
  BY <1>1, <1>4, <1>5, <1>7, FaultTypes DEF TypeOK, callers
<1>9. Counted
  BY <1>1, <1>5 DEF Counted, Shape, callers, TypeOK
<1>10. ASSUME NEW q \in Ids PROVE Settles(q)
  <2>1. CASE q # r
    BY <1>1, <1>4, <1>5, <2>1 DEF Settles, Shape
  <2>2. CASE q = r
    BY <1>2, <1>4, <1>5, <2>2, Words DEF Settles
  <2> QED BY <2>1, <2>2
<1>11. ASSUME NEW q \in Ids PROVE VoiceOf(q)'
  <2>1. CASE q # r
    <3>1. Still(q)
      BY <1>4, <1>5, <1>7, <2>1 DEF Still, Hushed
    <3> QED BY <1>1, <1>8, <3>1, EpochTypes, StillKeeps DEF Voices
  <2>2. CASE q = r
    <3>1. Advanced(q)
      BY <1>2, <1>4, <2>2 DEF Advanced, Rests
    <3>2. CASE new.epoch = req'[r].epoch
      <4>1. \A v \in Workers \ {w} : run'[v][q] = run[v][q]
        BY <1>7, <2>2
      <4> QED BY <1>1, <1>2, <1>4, <1>5, <1>7, <1>8, <2>2, <3>1, <3>2, <4>1, EpochTypes,
                 StartedKeeps DEF Voices
    <3>3. CASE new.pc \notin Speaking
      <4>1. Hushed(q)
        BY <1>5, <1>7, <2>2, <3>3 DEF Hushed
      <4> QED BY <1>1, <1>8, <3>1, <4>1, EpochTypes, SilentlyKeeps DEF Voices
    <3> QED BY <1>6, <3>2, <3>3
  <2> QED BY <2>1, <2>2
<1> QED BY <1>1, <1>8, <1>9, <1>10, <1>11, SettlesKeeps DEF IInv, Voices

LEMMA BeatKeeps ==
    ASSUME IInv, NEW w \in Workers, NEW r \in Ids, Beat(w, r)
    PROVE  IInv'
<1>1. TypeOK /\ req[r] \in Rows /\ run[w][r] \in Runs
  BY DEF IInv, TypeOK
<1>2. /\ UNCHANGED <<item, callers, term, up, transcript>> /\ (Fault \/ UNCHANGED faults)
      /\ run[w][r].pc \in Speaking
  BY DEF Beat, Speaking
<1>3. CASE req' = [req EXCEPT ![r].hb = "live"] /\ UNCHANGED run
  <2> DEFINE row == [req[r] EXCEPT !.hb = "live"]
  <2>1. /\ row \in Rows /\ row.epoch = req[r].epoch /\ row.st = req[r].st
        /\ row.cause = req[r].cause /\ row.hb = "live"
    BY <1>1, Words DEF Rows
  <2>2. req' = [req EXCEPT ![r] = row]
    BY <1>1, <1>3
  <2>3. Allowed(r, row)
    BY <2>1 DEF Allowed
  <2> HIDE DEF row
  <2> QED BY <1>1, <1>2, <1>3, <2>1, <2>2, <2>3, FaultTypes, RowKeeps DEF TypeOK, workers
<1>4. CASE SetRun(w, r, [run[w][r] EXCEPT !.pc = "stop"]) /\ UNCHANGED req
  <2> DEFINE new == [run[w][r] EXCEPT !.pc = "stop"]
  <2>1. new \in Runs /\ new.epoch = run[w][r].epoch /\ new.beats = run[w][r].beats
    BY <1>1 DEF Runs
  <2> HIDE DEF new
  <2>2. SetRun(w, r, new)
    BY <1>4 DEF new
  <2> QED BY <1>1, <1>2, <1>4, <2>1, <2>2, FaultTypes, RunHushed, NoRowKeeps DEF TypeOK
<1>5. CASE SetRun(w, r, NoRun) /\ UNCHANGED req
  BY <1>1, <1>2, <1>5, FaultTypes, NoRunHushed, NoRowKeeps DEF TypeOK
<1> QED BY <1>3, <1>4, <1>5 DEF Beat

LEMMA FinishKeeps ==
    ASSUME IInv, NEW w \in Workers, NEW r \in Ids, Finish(w, r)
    PROVE  IInv'
<1>1. TypeOK /\ req[r] \in Rows /\ run[w][r] \in Runs
  BY DEF IInv, TypeOK
<1>2. /\ UNCHANGED <<item, callers, term, up>> /\ (Fault \/ UNCHANGED faults)
      /\ run[w][r].pc \in Speaking
  BY DEF Finish, Speaking
<1>3. /\ run' \in [Workers -> [Ids -> Runs]] /\ term' \in [Workers -> [Ids -> Nat]]
      /\ \A q \in Ids : Hushed(q)
  <2>1. CASE SetRun(w, r, NoRun)
    BY <1>1, <1>2, <2>1, NoRunHushed
  <2>2. CASE SetRun(w, r, [run[w][r] EXCEPT !.pc = "settling"])
    <3> DEFINE new == [run[w][r] EXCEPT !.pc = "settling"]
    <3>1. new \in Runs /\ new.epoch = run[w][r].epoch /\ new.beats = run[w][r].beats
      BY <1>1 DEF Runs
    <3> HIDE DEF new
    <3>2. SetRun(w, r, new)
      BY <2>2 DEF new
    <3> QED BY <1>1, <1>2, <3>1, <3>2, RunHushed
  <2> QED BY <2>1, <2>2 DEF Finish
<1>4. CASE /\ Finishes(w, r)
           /\ req' = [req EXCEPT ![r] = End(@, "failed", "report")]
           /\ SettleTerminal(req', item)
  <2> DEFINE row == End(req[r], "failed", "report")
  <2>1. "failed" \in Ended /\ "report" \in Causes
    BY Words DEF Ended
  <2>2. row \in Rows /\ row.st = "failed" /\ row.epoch = req[r].epoch
    BY <1>1, <2>1, EndWritten
  <2>3. Allowed(r, row)
    BY <1>4, <2>1, <2>2 DEF Allowed, Finishes
  <2>4. req' = [req EXCEPT ![r] = row]
    BY <1>1, <1>4 DEF TypeOK
  <2> HIDE DEF row
  <2> QED BY <1>1, <1>2, <1>3, <1>4, <2>2, <2>3, <2>4, FaultTypes, TranscriptSettled, MoveKeeps
          DEF TypeOK
<1>5. CASE UNCHANGED <<req, transcript>>
  BY <1>1, <1>2, <1>3, <1>5, FaultTypes, NoRowKeeps DEF TypeOK
<1> QED BY <1>4, <1>5 DEF Finish

(* The run that parks was the only one to beat, if it did; if it did not,  *)
(* nobody else did, because its epoch would be that one's alone.           *)
LEMMA HoldKeeps ==
    ASSUME IInv, NEW w \in Workers, NEW r \in Ids, Hold(w, r)
    PROVE  IInv'
<1>1. TypeOK /\ req[r] \in Rows /\ OneVoice(r)
  BY DEF IInv, TypeOK, Voices, VoiceOf
<1>2. UNCHANGED <<item, callers, term, up, transcript, faults>> /\ SetRun(w, r, NoRun)
  BY DEF Hold
<1>3. CASE /\ req' = [req EXCEPT ![r].hb = "held"]
           /\ req[r].epoch = run[w][r].epoch
  <2> DEFINE row == [req[r] EXCEPT !.hb = "held"]
  <2>1. row \in Rows /\ row.epoch = req[r].epoch /\ row.st = req[r].st /\ row.cause = req[r].cause
    BY <1>1, Words DEF Rows
  <2>2. req' = [req EXCEPT ![r] = row]
    BY <1>1, <1>3
  <2> HIDE DEF row
  <2>3. req'[r].epoch = req[r].epoch
    BY <1>1, <2>1, <2>2, OneRow
  <2>4. Muted(r)'
    <3> SUFFICES ASSUME NEW v \in Workers, Beating(v, r)' PROVE FALSE
      BY DEF Muted
    <3>1. run'[w][r] = NoRun /\ (v # w => run'[v][r] = run[v][r])
      BY <1>1, <1>2, NothingWritten, OneRun
    <3>2. v # w
      BY <3>1, NothingWritten DEF Beating, Speaks, Speaking
    <3>3. Beating(v, r)
      BY <2>3, <3>1, <3>2 DEF Beating, Speaks
    <3>4. Speaks(w, r)
      BY <1>3 DEF Speaks, Speaking, Hold
    <3> QED BY <1>1, <3>2, <3>3, <3>4 DEF OneVoice
  <2>5. Allowed(r, row)
    BY <2>1, <2>4 DEF Allowed
  <2> QED BY <1>1, <1>2, <2>1, <2>2, <2>5, NoRunHushed, MoveKeeps DEF TypeOK
<1>4. CASE UNCHANGED req
  BY <1>1, <1>2, <1>4, NoRunHushed, NoRowKeeps DEF TypeOK
<1> QED BY <1>3, <1>4 DEF Hold

(* Nobody beats for a parked request, and a running one was claimed by no  *)
(* termination at its epoch: only runs without a heartbeat have the epoch. *)
LEMMA AdoptKeeps ==
    ASSUME IInv, NEW w \in Workers, NEW r \in Ids, Adopt(w, r)
    PROVE  IInv'
<1>1. TypeOK /\ Shape /\ Voices /\ req[r] \in Rows /\ req[r].epoch \in Nat
  BY DEF IInv, TypeOK, Rows
<1> DEFINE new == [NoRun EXCEPT !.pc = "on", !.epoch = req[r].epoch]
<1>2. new \in Runs /\ new.epoch = req[r].epoch /\ new.beats = FALSE
  BY <1>1 DEF NoRun, Runs
<1>3. SetRun(w, r, new)
  BY DEF Adopt
<1> HIDE DEF new
<1>4. /\ run' \in [Workers -> [Ids -> Runs]]
      /\ run'[w][r] = new
      /\ \A v \in Workers, q \in Ids : <<v, q>> # <<w, r>> => run'[v][q] = run[v][q]
  BY <1>1, <1>2, <1>3, OneRun
<1>5. /\ UNCHANGED <<item, req, callers, term, up, transcript, faults>>
      /\ req[r].st = "running" /\ req[r].hb = "held"
  BY DEF Adopt
<1>6. TypeOK'
  BY <1>1, <1>4, <1>5 DEF TypeOK, callers
<1>7. Shape'
  BY <1>1, <1>5 DEF Shape, callers
<1>8. ASSUME NEW q \in Ids PROVE VoiceOf(q)'
  <2>1. CASE q # r
    <3>1. Still(q)
      BY <1>4, <1>5, <2>1 DEF Still, Hushed
    <3> QED BY <1>1, <1>6, <3>1, EpochTypes, StillKeeps DEF Voices
  <2>2. CASE q = r
    <3>1. VoiceOf(r) /\ Epochs(r)
      BY <1>1, EpochTypes DEF Voices
    <3>2. 0 < req[r].epoch /\ \A v \in Workers : term[v][r] < req[r].epoch
      BY <1>5, <3>1 DEF VoiceOf, Bounded, Epochs
    <3>3. Bounded(r)'
      BY <1>2, <1>4, <1>5, <3>1, <3>2 DEF VoiceOf, Bounded, Epochs
    <3>4. ASSUME NEW v \in Workers PROVE ~Beating(v, r)' /\ ~Claims(v, r)'
      <4>1. ~Claims(v, r)'
        BY <1>5, <3>1, <3>2 DEF Claims, Epochs
      <4>2. ~Beating(v, r)
        BY <1>5, <3>1 DEF VoiceOf, Muted
      <4>3. CASE v = w
        BY <1>2, <1>4, <4>1, <4>3 DEF Beating
      <4>4. CASE v # w
        BY <1>4, <1>5, <4>1, <4>2, <4>4 DEF Beating, Speaks
      <4> QED BY <4>3, <4>4
    <3>5. OneVoice(r)' /\ Muted(r)'
      BY <3>4 DEF OneVoice, Muted
    <3> QED BY <1>5, <2>2, <3>3, <3>5 DEF VoiceOf, Rests
  <2> QED BY <2>1, <2>2
<1> QED BY <1>6, <1>7, <1>8 DEF IInv, Voices

-----------------------------------------------------------------------------
(* A worker ends a request.                                                *)

LEMMA ClaimTerminationKeeps ==
    ASSUME IInv, NEW w \in Workers, NEW r \in Ids, ClaimTermination(w, r)
    PROVE  IInv'
<1>1. /\ TypeOK /\ Shape /\ Voices /\ req[r] \in Rows /\ run[w][r] \in Runs
      /\ req[r].epoch + 1 \in Nat
  BY DEF IInv, TypeOK, Rows
<1> DEFINE row == [req[r] EXCEPT !.stop = FALSE, !.owner = w, !.epoch = req[r].epoch + 1,
                                 !.hb = "live"]
<1>2. row \in Rows /\ row.st = req[r].st /\ row.cause = req[r].cause /\ row.epoch = req[r].epoch + 1
  <2>1. ASSUME NEW n \in Nat
        PROVE  LET x == [req[r] EXCEPT !.stop = FALSE, !.owner = w, !.epoch = n, !.hb = "live"]
               IN x \in Rows /\ x.st = req[r].st /\ x.cause = req[r].cause /\ x.epoch = n
    BY <1>1, <2>1, Words DEF Rows
  <2> QED BY <1>1, <2>1
<1>3. req' = [req EXCEPT ![r] = row]
  BY DEF ClaimTermination
<1> HIDE DEF row
<1>4. /\ req' \in [Ids -> Rows]
      /\ req'[r] = row
      /\ \A q \in Ids \ {r} : req'[q] = req[q]
  BY <1>1, <1>2, <1>3, OneRow
<1>5. /\ UNCHANGED <<item, callers, up, transcript>>
      /\ req[r].st \in {"stopping", "cancelled"}
      /\ Fault \/ UNCHANGED faults
  BY DEF ClaimTermination, Claimable, TeardownDue
<1>6. /\ term' \in [Workers -> [Ids -> Nat]]
      /\ term'[w][r] = req'[r].epoch
      /\ \A v \in Workers, q \in Ids : <<v, q>> # <<w, r>> => term'[v][q] = term[v][q]
  <2>1. req'[r].epoch \in Nat
    BY <1>1, <1>2, <1>4
  <2>2. term' = [term EXCEPT ![w][r] = req'[r].epoch]
    BY DEF ClaimTermination
  <2> QED BY <1>1, <2>1, <2>2, SMTT(30) DEF TypeOK
<1>7. /\ run' \in [Workers -> [Ids -> Runs]]
      /\ \A v \in Workers, q \in Ids : run'[v][q] = run[v][q] \/ run'[v][q].pc \notin Speaking
  <2> DEFINE new == IF run[w][r].pc = "settling" THEN NoRun ELSE run[w][r]
  <2>1. new \in Runs /\ (new = run[w][r] \/ new.pc \notin Speaking)
    BY <1>1, NothingWritten DEF Speaking
  <2>2. SetRun(w, r, new)
    BY DEF ClaimTermination, SetRun
  <2> HIDE DEF new
  <2>3. /\ run' \in [Workers -> [Ids -> Runs]]
        /\ run'[w][r] = new
        /\ \A v \in Workers, q \in Ids : <<v, q>> # <<w, r>> => run'[v][q] = run[v][q]
    BY <1>1, <2>1, <2>2, OneRun
  <2> QED BY <2>1, <2>3
<1>8. TypeOK'
  BY <1>1, <1>4, <1>5, <1>6, <1>7, FaultTypes DEF TypeOK, callers
<1>9. Counted
  BY <1>1, <1>5 DEF Counted, Shape, callers, TypeOK
<1>10. ASSUME NEW q \in Ids PROVE Settles(q)
  <2>1. CASE q # r
    BY <1>1, <1>4, <1>5, <2>1 DEF Settles, Shape
  <2>2. CASE q = r
    BY <1>1, <1>2, <1>4, <1>5, <2>2 DEF Settles, Shape
  <2> QED BY <2>1, <2>2
<1>11. ASSUME NEW q \in Ids PROVE VoiceOf(q)'
  <2>1. CASE q # r
    <3>1. Still(q)
      BY <1>4, <1>6, <1>7, <2>1 DEF Still, Hushed
    <3> QED BY <1>1, <1>8, <3>1, EpochTypes, StillKeeps DEF Voices
  <2>2. CASE q = r
    <3>1. Advanced(q) /\ req'[q].st # "running"
      BY <1>2, <1>4, <1>5, <2>2 DEF Advanced, Rests
    <3>2. \A v \in Workers \ {w} : term'[v][q] = term[v][q]
      BY <1>6, <2>2
    <3> QED BY <1>1, <1>6, <1>7, <1>8, <2>2, <3>1, <3>2, EpochTypes, ClaimedKeeps DEF Voices
  <2> QED BY <2>1, <2>2
<1> QED BY <1>1, <1>8, <1>9, <1>10, <1>11, SettlesKeeps DEF IInv, Voices

LEMMA TermHushed ==
    ASSUME TypeOK, NEW w \in Workers, NEW r \in Ids, term' = [term EXCEPT ![w][r] = 0],
           run' = run
    PROVE  /\ run' \in [Workers -> [Ids -> Runs]]
           /\ term' \in [Workers -> [Ids -> Nat]]
           /\ \A q \in Ids : Hushed(q)
<1>1. /\ term' \in [Workers -> [Ids -> Nat]]
      /\ term'[w][r] = 0
      /\ \A v \in Workers, q \in Ids : <<v, q>> # <<w, r>> => term'[v][q] = term[v][q]
  BY SMTT(30) DEF TypeOK
<1>2. ASSUME NEW v \in Workers, NEW q \in Ids PROVE term'[v][q] \in {0, term[v][q]}
  BY <1>1
<1> QED BY <1>1, <1>2 DEF Hushed, TypeOK

LEMMA HaltFailsKeeps ==
    ASSUME IInv, NEW w \in Workers, NEW r \in Ids, HaltFails(w, r)
    PROVE  IInv'
<1>1. TypeOK
  BY DEF IInv
<1>2. UNCHANGED <<item, req, callers, up, transcript>> /\ Fault
  BY DEF HaltFails
<1>3. /\ run' \in [Workers -> [Ids -> Runs]] /\ term' \in [Workers -> [Ids -> Nat]]
      /\ \A q \in Ids : Hushed(q)
  BY <1>1, TermHushed, NoRunHushed DEF HaltFails
<1> QED BY <1>1, <1>2, <1>3, FaultTypes, NoRowKeeps DEF TypeOK

LEMMA CrashKeeps ==
    ASSUME IInv, NEW w \in Workers, Crash(w)
    PROVE  IInv'
<1>1. TypeOK /\ Shape /\ Voices /\ req \in [Ids -> Rows]
  BY DEF IInv, TypeOK
<1>2. UNCHANGED <<item, callers, transcript>> /\ up' = up \ {w} /\ Fault
  BY DEF Crash
<1>3. ASSUME NEW q \in Ids
      PROVE  /\ req'[q] \in Rows /\ req'[q].st = req[q].st
             /\ req'[q].cause = req[q].cause /\ req'[q].epoch = req[q].epoch
             /\ req'[q].hb = req[q].hb
  <2>1. req'[q] \in {req[q], [req[q] EXCEPT !.wake = TRUE]}
    BY DEF Crash
  <2>2. req[q] \in Rows
    BY <1>1
  <2> QED BY <2>1, <2>2 DEF Rows
<1>4. req' \in [Ids -> Rows]
  BY <1>3 DEF Crash
<1>5. /\ run' \in [Workers -> [Ids -> Runs]]
      /\ \A v \in Workers, q \in Ids : run'[v][q] = IF v = w THEN NoRun ELSE run[v][q]
  BY <1>1, NothingWritten DEF Crash, TypeOK
<1>6. /\ term' \in [Workers -> [Ids -> Nat]]
      /\ \A v \in Workers, q \in Ids : term'[v][q] = IF v = w THEN 0 ELSE term[v][q]
  BY <1>1 DEF Crash, TypeOK
<1>7. TypeOK'
  BY <1>1, <1>2, <1>4, <1>5, <1>6, FaultTypes DEF TypeOK, callers
<1>8. Counted
  BY <1>1, <1>2 DEF Counted, Shape, callers, TypeOK
<1>9. ASSUME NEW q \in Ids PROVE Settles(q)
  BY <1>1, <1>2, <1>3 DEF Settles, Shape
<1>10. ASSUME NEW q \in Ids PROVE VoiceOf(q)'
  <2>1. Still(q)
    BY <1>3, <1>5, <1>6, NothingWritten DEF Still, Hushed, Speaking
  <2> QED BY <1>1, <1>7, <2>1, EpochTypes, StillKeeps DEF Voices
<1> QED BY <1>1, <1>7, <1>8, <1>9, <1>10, SettlesKeeps DEF IInv, Voices

LEMMA RestartKeeps ==
    ASSUME IInv, NEW w \in Workers, Restart(w)
    PROVE  IInv'
<1>1. TypeOK /\ Shape /\ Voices
  BY DEF IInv
<1>2. UNCHANGED <<item, req, callers, run, term, transcript, faults>> /\ up' = up \cup {w}
  BY DEF Restart
<1>3. TypeOK'
  BY <1>1, <1>2 DEF TypeOK, callers
<1>4. Shape'
  BY <1>1, <1>2 DEF Shape, callers
<1>5. Voices'
  BY <1>1, <1>2 DEF Voices, VoiceOf, Bounded, OneVoice, Muted, Beating, Speaks, Claims
<1> QED BY <1>3, <1>4, <1>5 DEF IInv

(* Rows end, and one that was asked for now is the one that waits.         *)
LEMMA InsertKeeps ==
    ASSUME IInv, TypeOK', Counted, NEW n \in Ids, n <= asked', item'.cancelled = FALSE,
           req[n].st \in {"none", "queued"},
           req'[n].st = "waiting", req'[n].epoch = 0,
           \A q \in Ids \ {n} : /\ req[q].st = "none" => req'[q].st = "none"
                                /\ req'[q].st \notin Active
                                /\ req'[q].st \in Rests => req[q].st \in Rests
                                /\ req'[q].epoch = req[q].epoch,
           \A q \in Ids : Hushed(q)
    PROVE  IInv'
<1>1. TypeOK /\ Shape /\ Voices
  BY DEF IInv
<1>2. Shape'
  BY <1>1, AdmitsKeeps
<1>3. ASSUME NEW q \in Ids PROVE VoiceOf(q)'
  <2>1. VoiceOf(q)
    BY <1>1 DEF Voices
  <2>2. CASE q = n
    <3>1. Still(q)
      BY <2>1, <2>2 DEF Still, VoiceOf, Rests
    <3> QED BY <1>1, <2>1, <3>1, EpochTypes, StillKeeps
  <2>3. CASE q # n
    <3>1. Still(q)
      BY <2>3, Words DEF Still
    <3> QED BY <1>1, <2>1, <3>1, EpochTypes, StillKeeps
  <2> QED BY <2>2, <2>3
<1> QED BY <1>2, <1>3 DEF IInv, Voices

LEMMA StatusTypes ==
    ASSUME NEW c \in Stops
    PROVE  StatusOf(c) \in Ended
  BY DEF StatusOf, Stops, Ended

(* The stopping row ends; a lost run leaves a successor.                   *)
LEMMA TerminatedKeeps ==
    ASSUME IInv, NEW r \in Ids, req[r].st = "stopping",
           Terminated(r, [req EXCEPT ![r] = End(@, StatusOf(@.cause), @.cause)]),
           run' \in [Workers -> [Ids -> Runs]], term' \in [Workers -> [Ids -> Nat]],
           \A q \in Ids : Hushed(q),
           UNCHANGED <<unlabels, up, faults>>
    PROVE  IInv'
<1>1. TypeOK /\ Shape /\ Voices /\ req \in [Ids -> Rows] /\ req[r] \in Rows
  BY DEF IInv, TypeOK
<1> DEFINE row == End(req[r], StatusOf(req[r].cause), req[r].cause)
<1> DEFINE rows == [req EXCEPT ![r] = row]
<1>2. req[r].cause \in Stops
  BY <1>1 DEF Shape
<1>3. row \in Rows /\ row.st \in Ended /\ row.epoch = req[r].epoch
  <2>1. StatusOf(req[r].cause) \in Ended
    BY <1>2, StatusTypes
  <2>2. req[r].cause \in Causes
    BY <1>2, Words
  <2> QED BY <1>1, <2>1, <2>2, EndWritten
<1>4. Terminated(r, rows)
  <2>1. rows = [req EXCEPT ![r] = End(@, StatusOf(@.cause), @.cause)]
    OBVIOUS
  <2> QED BY <2>1
<1> HIDE DEF row
<1>5. transcript' \in BOOLEAN
  <2>1. SettleTerminal(req', item')
    BY <1>4 DEF Terminated
  <2> QED BY <2>1, TranscriptSettled
<1>6. CASE req' = rows /\ UNCHANGED <<item, asked>>
  <2>1. Allowed(r, row)
    BY <1>3 DEF Allowed, Ended
  <2> QED BY <1>1, <1>3, <1>5, <1>6, <2>1, MoveKeeps DEF TypeOK, callers
<1>7. CASE /\ Retried(rows, r)
           /\ req' = [rows EXCEPT ![asked + 1] = Row("waiting", item.next, TRUE)]
           /\ item' = [item EXCEPT !.next = @ + 1]
           /\ asked' = asked + 1
  <2> DEFINE n == asked + 1
  <2>1. n \in Ids /\ req[n].st = "none" /\ n # r
    <3>1. asked \in 0..MaxReq /\ asked < MaxReq
      BY <1>1, <1>7 DEF Retried, TypeOK
    <3>2. n \in Ids /\ n > asked
      BY <3>1, LedgerAssumption DEF Ids
    <3>3. req[n].st = "none"
      BY <1>1, <3>2 DEF Shape
    <3> QED BY <3>2, <3>3
  <2> DEFINE fresh == Row("waiting", item.next, TRUE)
  <2>2. fresh \in Rows /\ fresh.st = "waiting" /\ fresh.epoch = 0
    BY <1>1, RowWritten, Words DEF TypeOK
  <2>3. req' = [rows EXCEPT ![n] = fresh]
    BY <1>7
  <2> HIDE DEF fresh
  <2>4. rows \in [Ids -> Rows] /\ rows[r] = row /\ \A q \in Ids \ {r} : rows[q] = req[q]
    BY <1>1, <1>3
  <2> HIDE DEF rows
  <2>5. req' \in [Ids -> Rows] /\ req'[n] = fresh /\ \A q \in Ids \ {n} : req'[q] = rows[q]
    BY <2>1, <2>2, <2>3, <2>4
  <2>6. /\ item' \in [cancelled : BOOLEAN, readmit : 0..MaxReq, next : Nat]
        /\ item'.cancelled = FALSE /\ item'.readmit = item.readmit
    <3>1. item \in [cancelled : BOOLEAN, readmit : 0..MaxReq, next : Nat] /\ ~item.cancelled
      BY <1>1, <1>7 DEF TypeOK, Retried
    <3> QED BY <1>7, <3>1
  <2>7. asked' \in 0..MaxReq
    BY <1>1, <1>7, LedgerAssumption DEF TypeOK, Retried
  <2>8. TypeOK'
    BY <1>1, <1>5, <2>5, <2>6, <2>7 DEF TypeOK
  <2>9. Counted
    BY <1>1, <1>7, <2>6 DEF Counted, Shape, TypeOK, Ids
  <2>10. ASSUME NEW q \in Ids \ {n}
         PROVE  /\ req[q].st = "none" => req'[q].st = "none"
                /\ req'[q].st \notin Active
                /\ req'[q].st \in Rests => req[q].st \in Rests
                /\ req'[q].epoch = req[q].epoch
    <3>1. CASE q = r
      BY <1>3, <2>4, <2>5, <3>1 DEF Ended, Active, Rests
    <3>2. CASE q # r
      BY <1>1, <2>4, <2>5, <3>2, Words DEF Shape
    <3> QED BY <3>1, <3>2
  <2>11. n <= asked'
    BY <1>7, <2>7
  <2> HIDE DEF n
  <2> QED BY <2>1, <2>2, <2>5, <2>6, <2>8, <2>9, <2>10, <2>11, InsertKeeps
<1> QED BY <1>4, <1>6, <1>7 DEF Terminated

LEMMA RecordKeeps ==
    ASSUME IInv, NEW r \in Ids, NEW e, Record(r, e),
           run' \in [Workers -> [Ids -> Runs]], term' \in [Workers -> [Ids -> Nat]],
           \A q \in Ids : Hushed(q),
           UNCHANGED <<unlabels, up, faults>>
    PROVE  IInv'
<1>1. TypeOK /\ req[r] \in Rows /\ req[r].cause \in Causes
  BY DEF IInv, TypeOK, Rows
<1>2. CASE /\ req[r].st = "stopping"
           /\ Terminated(r, [req EXCEPT ![r] = End(@, StatusOf(@.cause), @.cause)])
  BY <1>2, TerminatedKeeps
<1>3. CASE /\ req[r].st = "cancelled"
           /\ req' = [req EXCEPT ![r] = End(@, "cancelled", @.cause)]
           /\ UNCHANGED <<item, asked, transcript>>
  <2> DEFINE row == End(req[r], "cancelled", req[r].cause)
  <2>1. "cancelled" \in Ended
    BY DEF Ended
  <2>2. row \in Rows /\ row.st = "cancelled" /\ row.epoch = req[r].epoch
    BY <1>1, <2>1, EndWritten
  <2>3. Allowed(r, row)
    BY <1>3, <2>1, <2>2 DEF Allowed
  <2>4. req' = [req EXCEPT ![r] = row]
    BY <1>1, <1>3 DEF TypeOK
  <2> HIDE DEF row
  <2> QED BY <1>1, <1>3, <2>2, <2>3, <2>4, MoveKeeps DEF TypeOK, callers
<1>4. CASE UNCHANGED <<item, req, asked, transcript>>
  BY <1>1, <1>4, NoRowKeeps DEF TypeOK, callers
<1> QED BY <1>2, <1>3, <1>4 DEF Record

LEMMA TerminateKeeps ==
    ASSUME IInv, NEW w \in Workers, NEW r \in Ids, Terminate(w, r)
    PROVE  IInv'
<1>1. TypeOK
  BY DEF IInv
<1>2. /\ Record(r, term[w][r]) /\ term' = [term EXCEPT ![w][r] = 0]
      /\ UNCHANGED <<unlabels, run, up, faults>>
  BY DEF Terminate
<1> QED BY <1>1, <1>2, TermHushed, RecordKeeps

LEMMA StopOwnedKeeps ==
    ASSUME IInv, NEW w \in Workers, NEW r \in Ids, StopOwned(w, r)
    PROVE  IInv'
<1>1. TypeOK
  BY DEF IInv
<1>2. /\ Record(r, run[w][r].epoch) /\ SetRun(w, r, NoRun)
      /\ UNCHANGED <<unlabels, term, up, faults>>
  BY DEF StopOwned
<1> QED BY <1>1, <1>2, NoRunHushed, RecordKeeps

-----------------------------------------------------------------------------
(* Labels, mentions, the removal of the label, and what the reconciler     *)
(* admits.                                                                 *)

LEMMA AdmitNextKeeps ==
    ASSUME IInv, NEW r \in Ids, AdmitNext(r)
    PROVE  IInv'
<1>1. TypeOK /\ Shape /\ Voices /\ req \in [Ids -> Rows] /\ req[r] \in Rows
  BY DEF IInv, TypeOK
<1>2. UNCHANGED <<item, callers, workers, faults>> /\ req[r].st = "queued" /\ ActiveReq = {}
  BY DEF AdmitNext
<1>3. CASE req' = [req EXCEPT ![r].st = "waiting"] /\ UNCHANGED transcript
  <2> DEFINE row == [req[r] EXCEPT !.st = "waiting"]
  <2>1. row \in Rows /\ row.st = "waiting" /\ row.epoch = req[r].epoch
    BY <1>1, Words DEF Rows
  <2>2. req' = [req EXCEPT ![r] = row]
    BY <1>1, <1>3
  <2> HIDE DEF row
  <2>3. /\ req' \in [Ids -> Rows]
        /\ req'[r] = row
        /\ \A q \in Ids \ {r} : req'[q] = req[q]
    BY <1>1, <2>1, <2>2, OneRow
  <2>4. TypeOK'
    BY <1>1, <1>2, <1>3, <2>3 DEF TypeOK, callers, workers
  <2>5. Counted
    BY <1>1, <1>2 DEF Counted, Shape, callers, TypeOK
  <2>6. req[r].epoch = 0
    BY <1>1, <1>2 DEF Voices, VoiceOf, Rests
  <2>7. r <= asked'
    BY <1>1, <1>2 DEF Shape, TypeOK, callers, Ids
  <2>8. item'.cancelled = FALSE
    BY <1>1, <1>2 DEF Shape, TypeOK, Taken
  <2>9. \A q \in Ids : req[q].st \notin Active /\ Hushed(q)
    BY <1>2 DEF ActiveReq, In, Hushed, workers
  <2> QED BY <1>2, <2>1, <2>3, <2>4, <2>5, <2>6, <2>7, <2>8, <2>9, InsertKeeps
<1>4. CASE req' = [req EXCEPT ![r] = End(@, "cancelled", "lineage")] /\ SettleTerminal(req', item)
  <2>1. "cancelled" \in Ended
    BY DEF Ended
  <2> QED BY <1>1, <1>2, <1>4, <2>1, Words, TranscriptSettled, EndsKeeps
<1> QED BY <1>3, <1>4 DEF AdmitNext

(* What create_execution_request does after the caller has ended rows and  *)
(* has opened the WorkItem.                                                *)
LEMMA CreateKeeps ==
    ASSUME IInv, NEW r \in Ids, NEW rows \in [Ids -> Rows], NEW snapshot \in BOOLEAN,
           NEW itm \in [cancelled : BOOLEAN, readmit : 0..MaxReq, next : Nat],
           CreateRequest(rows, itm, r, snapshot),
           itm.cancelled = FALSE, itm.readmit \in {0, item.readmit},
           r <= asked', asked <= asked', asked' \in 0..MaxReq,
           \A q \in Ids : /\ rows[q].st \notin Active
                          /\ rows[q].epoch = req[q].epoch
                          /\ rows[q].st \in Rests => req[q].st \in Rests
                          /\ req[q].st = "none" => rows[q].st = "none",
           faults' \in 0..MaxFault, UNCHANGED <<unlabels, workers, transcript>>
    PROVE  IInv'
<1>1. TypeOK /\ Shape /\ Voices
  BY DEF IInv
<1>2. \A q \in Ids : Hushed(q)
  BY DEF Hushed, workers
<1>3. /\ req[r].st = "none"
      /\ req' = [rows EXCEPT ![r] = Row("waiting", itm.next, snapshot)]
      /\ item' = [itm EXCEPT !.next = @ + 1]
  BY DEF CreateRequest
<1> DEFINE fresh == Row("waiting", itm.next, snapshot)
<1>4. fresh \in Rows /\ fresh.st = "waiting" /\ fresh.epoch = 0
  BY RowWritten, Words
<1>5. req' = [rows EXCEPT ![r] = fresh]
  BY <1>3
<1> HIDE DEF fresh
<1>6. req' \in [Ids -> Rows] /\ req'[r] = fresh /\ \A q \in Ids \ {r} : req'[q] = rows[q]
  BY <1>4, <1>5
<1>7. /\ item' \in [cancelled : BOOLEAN, readmit : 0..MaxReq, next : Nat]
      /\ item'.cancelled = FALSE /\ item'.readmit = itm.readmit
  BY <1>3
<1>8. TypeOK'
  BY <1>1, <1>6, <1>7 DEF TypeOK, workers
<1>9. Counted
  BY <1>1, <1>7 DEF Counted, Shape, TypeOK
<1> QED BY <1>2, <1>3, <1>4, <1>6, <1>7, <1>8, <1>9, InsertKeeps

(* Steps that admit nothing, with the workers left alone.                  *)
LEMMA CallerKeeps ==
    ASSUME IInv, TypeOK', Counted, UNCHANGED workers,
           \A q \in Ids : /\ Settles(q)
                          /\ req'[q].epoch = req[q].epoch
                          /\ req'[q].st = "running" => req'[q] = req[q]
                          /\ req'[q].st \in Rests => req[q].st \in Rests
    PROVE  IInv'
<1>1. TypeOK /\ Shape /\ Voices
  BY DEF IInv
<1>2. \A q \in Ids : Hushed(q)
  BY DEF Hushed, workers
<1>3. ASSUME NEW q \in Ids PROVE VoiceOf(q)'
  <2>1. Still(q)
    BY <1>2 DEF Still
  <2> QED BY <1>1, <2>1, EpochTypes, StillKeeps DEF Voices
<1> QED BY <1>1, <1>3, SettlesKeeps DEF IInv, Voices

LEMMA ReopenedTypes ==
    ASSUME TypeOK
    PROVE  /\ Reopened \in [cancelled : BOOLEAN, readmit : 0..MaxReq, next : Nat]
           /\ Reopened.cancelled = FALSE /\ Reopened.readmit = 0
<1>1. item \in [cancelled : BOOLEAN, readmit : 0..MaxReq, next : Nat] /\ 0 \in 0..MaxReq
  BY LedgerAssumption DEF TypeOK
<1> QED BY <1>1 DEF Reopened

LEMMA NothingActive ==
    ASSUME ActiveReq = {}
    PROVE  \A q \in Ids : req[q].st \notin Active
  BY DEF ActiveReq, In

(* A relabel that finds no run to stop leaves no row active.               *)
LEMMA SupersededRows ==
    ASSUME TypeOK, In(req, {"running", "stopping"}) = {}
    PROVE  /\ Superseded \in [Ids -> Rows]
           /\ \A q \in Ids : /\ Superseded[q].st \notin Active
                             /\ Superseded[q].epoch = req[q].epoch
                             /\ Superseded[q].st \in Rests => req[q].st \in Rests
                             /\ req[q].st = "none" => Superseded[q].st = "none"
<1>1. ASSUME NEW q \in Ids
      PROVE  /\ Superseded[q] \in Rows
             /\ Superseded[q].st \notin Active
             /\ Superseded[q].epoch = req[q].epoch
             /\ Superseded[q].st \in Rests => req[q].st \in Rests
             /\ req[q].st = "none" => Superseded[q].st = "none"
  <2>1. req[q] \in Rows /\ req[q].st \notin {"running", "stopping"}
    BY DEF TypeOK, In
  <2> DEFINE row == End(req[q], "cancelled", "issue")
  <2>2. row \in Rows /\ row.st = "cancelled" /\ row.epoch = req[q].epoch
    <3>1. "cancelled" \in Ended /\ "issue" \in Causes
      BY Words DEF Ended
    <3> QED BY <2>1, <3>1, EndWritten
  <2>3. Superseded[q] = IF req[q].st = "waiting" THEN row ELSE req[q]
    BY DEF Superseded
  <2> HIDE DEF row
  <2> QED BY <2>1, <2>2, <2>3 DEF Active, Rests
<1> QED BY <1>1 DEF Superseded

LEMMA AdmitReadmitKeeps ==
    ASSUME IInv, AdmitReadmit
    PROVE  IInv'
<1>1. TypeOK /\ Shape
  BY DEF IInv
<1> DEFINE r == item.readmit
<1>2. r \in Ids /\ r <= asked
  <2>1. item.readmit \in 0..MaxReq /\ item.readmit # 0 /\ item.readmit <= asked
    BY <1>1 DEF AdmitReadmit, TypeOK, Shape
  <2>2. MaxReq \in Nat
    BY LedgerAssumption
  <2> QED BY <2>1, <2>2 DEF Ids
<1>3. /\ UNCHANGED <<asked, unlabels, workers, transcript, faults>>
      /\ CreateRequest(Superseded, Reopened, r, FALSE)
      /\ In(req, {"running", "stopping"}) = {}
  BY DEF AdmitReadmit, callers
<1>4. asked \in 0..MaxReq /\ asked <= asked' /\ r <= asked' /\ asked' \in 0..MaxReq
  BY <1>1, <1>2, <1>3 DEF TypeOK
<1>5. faults' \in 0..MaxFault
  BY <1>1, <1>3 DEF TypeOK
<1> HIDE DEF r
<1> QED BY <1>1, <1>2, <1>3, <1>4, <1>5, ReopenedTypes, SupersededRows, CreateKeeps

(* readmit for a label event whose number has been used by now.            *)
LEMMA ReadmitKeeps ==
    ASSUME IInv, NEW r \in Ids, Readmit(r),
           r <= asked', asked <= asked', asked' \in 0..MaxReq,
           faults' \in 0..MaxFault, UNCHANGED <<unlabels, workers, transcript>>
    PROVE  IInv'
<1>1. TypeOK /\ Shape /\ Voices /\ req \in [Ids -> Rows]
  BY DEF IInv, TypeOK
<1>2. ASSUME NEW a \in In(req, {"running", "stopping"}), StoreRelabel(r, a) PROVE IInv'
  <2>1. a \in Ids /\ req[a] \in Rows /\ req[a].st \in {"running", "stopping"} /\ req[a].hb \in Beats
    BY <1>1 DEF In, Rows
  <2> DEFINE row == IF req[a].st = "running"
                    THEN Stopping(req[a], "issue", Release(req[a].hb))
                    ELSE [req[a] EXCEPT !.cause = "issue"]
  <2>2. row \in Rows /\ row.st = "stopping" /\ row.cause = "issue" /\ row.epoch = req[a].epoch
    <3>1. "issue" \in Stops /\ "issue" \in Causes /\ Release(req[a].hb) \in Beats
      BY <2>1, Words, ReleaseWritten DEF Stops
    <3>2. CASE req[a].st = "running"
      BY <2>1, <3>1, <3>2, StoppingWritten
    <3>3. CASE req[a].st = "stopping"
      BY <2>1, <3>1, <3>3 DEF Rows
    <3> QED BY <2>1, <3>2, <3>3
  <2>3. req' = [req EXCEPT ![a] = row]
    BY <1>2 DEF StoreRelabel
  <2> HIDE DEF row
  <2>4. /\ req' \in [Ids -> Rows]
        /\ req'[a] = row
        /\ \A q \in Ids \ {a} : req'[q] = req[q]
    BY <1>1, <2>1, <2>2, <2>3, OneRow
  <2>5. /\ item' \in [cancelled : BOOLEAN, readmit : 0..MaxReq, next : Nat]
        /\ item'.cancelled = item.cancelled /\ item'.readmit = r
    <3>1. item \in [cancelled : BOOLEAN, readmit : 0..MaxReq, next : Nat]
      BY <1>1 DEF TypeOK
    <3>2. r \in 0..MaxReq
      BY LedgerAssumption DEF Ids
    <3>3. item' = [item EXCEPT !.readmit = r]
      BY <1>2 DEF StoreRelabel
    <3> QED BY <3>1, <3>2, <3>3
  <2>6. TypeOK'
    BY <1>1, <2>4, <2>5 DEF TypeOK, workers
  <2>7. Counted
    BY <1>1, <2>5 DEF Counted
  <2>8. ASSUME NEW q \in Ids
        PROVE  /\ Settles(q)
               /\ req'[q].epoch = req[q].epoch
               /\ req'[q].st = "running" => req'[q] = req[q]
               /\ req'[q].st \in Rests => req[q].st \in Rests
    <3>1. CASE q # a
      BY <1>1, <2>4, <2>5, <3>1 DEF Settles, Shape
    <3>2. CASE q = a
      BY <2>1, <2>2, <2>4, <3>2 DEF Settles, Active, Taken, Rests, Stops
    <3> QED BY <3>1, <3>2
  <2> QED BY <2>6, <2>7, <2>8, CallerKeeps
<1>3. CASE /\ In(req, {"running", "stopping"}) = {}
           /\ CreateRequest(Superseded, Reopened, r, TRUE)
  BY <1>1, <1>3, ReopenedTypes, SupersededRows, CreateKeeps
<1> QED BY <1>2, <1>3 DEF Readmit

LEMMA LabelKeeps ==
    ASSUME IInv, Label
    PROVE  IInv'
<1> DEFINE r == asked + 1
<1>1. TypeOK
  BY DEF IInv
<1>2. asked \in Nat /\ MaxReq \in Nat /\ asked < MaxReq
  BY <1>1, LedgerAssumption DEF Label, TypeOK
<1>3. r \in Ids /\ r \in 0..MaxReq /\ asked <= r /\ r <= r
  BY <1>2 DEF Ids
<1>4. asked' = r /\ Readmit(r) /\ UNCHANGED <<unlabels, workers, transcript, faults>>
  BY DEF Label
<1> HIDE DEF r
<1> QED BY <1>1, <1>3, <1>4, FaultTypes, ReadmitKeeps

LEMMA LabelAgainKeeps ==
    ASSUME IInv, NEW r \in Ids, LabelAgain(r)
    PROVE  IInv'
<1>1. TypeOK
  BY DEF IInv
<1>2. /\ r \in 1..asked /\ Readmit(r) /\ Fault
      /\ UNCHANGED <<asked, unlabels, workers, transcript>>
  BY DEF LabelAgain, callers
<1>3. r <= asked' /\ asked <= asked' /\ asked' \in 0..MaxReq
  BY <1>1, <1>2 DEF TypeOK
<1> QED BY <1>1, <1>2, <1>3, FaultTypes, ReadmitKeeps

LEMMA AdmitKeeps ==
    ASSUME IInv, Admit
    PROVE  IInv'
<1> DEFINE r == asked + 1
<1>1. TypeOK /\ req \in [Ids -> Rows]
  BY DEF IInv, TypeOK
<1>2. asked \in Nat /\ MaxReq \in Nat /\ asked < MaxReq
  BY <1>1, LedgerAssumption DEF Admit, TypeOK
<1>3. r \in Ids /\ r \in 0..MaxReq /\ asked <= r /\ r <= r
  BY <1>2 DEF Ids
<1>4. /\ asked' = r /\ item.cancelled = FALSE /\ ActiveReq = {}
      /\ CreateRequest(req, item, r, FALSE)
      /\ UNCHANGED <<unlabels, workers, transcript, faults>>
  BY <1>1 DEF Admit, TypeOK
<1>5. item \in [cancelled : BOOLEAN, readmit : 0..MaxReq, next : Nat] /\ faults' \in 0..MaxFault
  BY <1>1, <1>4 DEF TypeOK
<1> HIDE DEF r
<1> QED BY <1>1, <1>3, <1>4, <1>5, NothingActive, CreateKeeps

LEMMA MentionKeeps ==
    ASSUME IInv, Mention
    PROVE  IInv'
<1> DEFINE r == asked + 1
<1>1. TypeOK /\ Shape /\ Voices /\ req \in [Ids -> Rows]
  BY DEF IInv, TypeOK
<1>2. asked \in Nat /\ MaxReq \in Nat /\ asked < MaxReq
  BY <1>1, LedgerAssumption DEF Mention, TypeOK
<1>3. r \in Ids /\ r \in 0..MaxReq /\ asked <= r /\ r <= r /\ r > asked
  BY <1>2 DEF Ids
<1>4. /\ asked' = r /\ item.cancelled = FALSE
      /\ UNCHANGED <<unlabels, workers, transcript, faults>>
  BY <1>1 DEF Mention, TypeOK
<1>5. item \in [cancelled : BOOLEAN, readmit : 0..MaxReq, next : Nat] /\ req[r].st = "none"
  BY <1>1, <1>3 DEF TypeOK, Shape
<1>6. CASE In(req, Active \cup {"queued"}) = {} /\ CreateRequest(req, item, r, TRUE)
  <2>1. \A q \in Ids : req[q].st \notin Active
    BY <1>6 DEF In
  <2> HIDE DEF r
  <2> QED BY <1>1, <1>3, <1>4, <1>5, <1>6, <2>1, CreateKeeps DEF TypeOK
<1>7. CASE /\ req' = [req EXCEPT ![r] = Row("queued", item.next, TRUE)]
           /\ item' = [item EXCEPT !.next = @ + 1]
  <2> DEFINE fresh == Row("queued", item.next, TRUE)
  <2>1. fresh \in Rows /\ fresh.st = "queued" /\ fresh.epoch = 0
    BY <1>5, RowWritten, Words
  <2>2. req' = [req EXCEPT ![r] = fresh]
    BY <1>7
  <2> HIDE DEF fresh
  <2>3. req' \in [Ids -> Rows] /\ req'[r] = fresh /\ \A q \in Ids \ {r} : req'[q] = req[q]
    BY <1>1, <1>3, <2>1, <2>2
  <2>4. /\ item' \in [cancelled : BOOLEAN, readmit : 0..MaxReq, next : Nat]
        /\ item'.cancelled = FALSE /\ item'.readmit = item.readmit
    BY <1>4, <1>5, <1>7
  <2>5. TypeOK'
    BY <1>1, <1>3, <1>4, <2>3, <2>4 DEF TypeOK, workers
  <2>6. Counted
    <3>1. item.readmit \in Nat /\ item.readmit <= asked
      BY <1>1, <1>5, LedgerAssumption DEF Shape
    <3> QED BY <1>2, <1>4, <2>4, <3>1 DEF Counted
  <2>7. req[r].epoch = 0
    BY <1>1, <1>3, <1>5 DEF Voices, VoiceOf, Rests
  <2>8. ASSUME NEW q \in Ids
        PROVE  /\ Settles(q)
               /\ req'[q].epoch = req[q].epoch
               /\ req'[q].st = "running" => req'[q] = req[q]
               /\ req'[q].st \in Rests => req[q].st \in Rests
    <3>1. CASE q # r
      BY <1>1, <2>3, <2>4, <3>1 DEF Settles, Shape
    <3>2. CASE q = r
      BY <1>3, <1>4, <1>5, <2>1, <2>3, <2>4, <2>7, <3>2 DEF Settles, Active, Rests
    <3> QED BY <3>1, <3>2
  <2> QED BY <1>4, <2>5, <2>6, <2>8, CallerKeeps
<1> QED BY <1>6, <1>7 DEF Mention

(* _cancel_queued_requests                                                 *)
LEMMA QueueCancelled ==
    ASSUME TypeOK
    PROVE  /\ CancelQueued(req) \in [Ids -> Rows]
           /\ \A q \in Ids :
                 /\ req[q].st # "queued" => CancelQueued(req)[q] = req[q]
                 /\ req[q].st = "queued" => /\ CancelQueued(req)[q].st = "cancelled"
                                            /\ CancelQueued(req)[q].epoch = req[q].epoch
<1>1. ASSUME NEW q \in Ids
      PROVE  LET row == End(req[q], "cancelled", "issue")
             IN req[q] \in Rows /\ row \in Rows /\ row.st = "cancelled" /\ row.epoch = req[q].epoch
  <2>1. "cancelled" \in Ended /\ "issue" \in Causes /\ req[q] \in Rows
    BY Words DEF Ended, TypeOK
  <2> QED BY <2>1, EndWritten
<1> QED BY <1>1 DEF CancelQueued

(* The removal of the label: the queue is cancelled and the active row, if *)
(* there is one, ends or stops for it.                                     *)
LEMMA UnlabelledKeeps ==
    ASSUME IInv, TypeOK', item'.readmit = 0, UNCHANGED <<asked, workers>>,
           \A q \in Ids :
              /\ req'[q].epoch = req[q].epoch
              /\ \/ req[q].st \notin Taken /\ req'[q] = req[q]
                 \/ req[q].st # "none" /\ req'[q].st = "cancelled"
                 \/ /\ req[q].st \in Active
                    /\ req'[q].st = "stopping" /\ req'[q].cause = "issue"
    PROVE  IInv'
<1>1. TypeOK /\ Shape
  BY DEF IInv
<1>2. Counted
  BY <1>1 DEF Counted, Shape, TypeOK
<1>3. ASSUME NEW q \in Ids
      PROVE  /\ Settles(q)
             /\ req'[q].st = "running" => req'[q] = req[q]
             /\ req'[q].st \in Rests => req[q].st \in Rests
  <2>1. CASE req[q].st \notin Taken /\ req'[q] = req[q]
    BY <1>1, <2>1 DEF Settles, Shape
  <2>2. CASE req[q].st # "none" /\ req'[q].st = "cancelled"
    BY <2>2 DEF Settles, Active, Taken, Rests
  <2>3. CASE req[q].st \in Active /\ req'[q].st = "stopping" /\ req'[q].cause = "issue"
    BY <2>3 DEF Settles, Active, Taken, Rests, Stops
  <2> QED BY <2>1, <2>2, <2>3
<1> QED BY <1>2, <1>3, CallerKeeps

LEMMA UnlabelKeeps ==
    ASSUME IInv, Unlabel
    PROVE  IInv'
<1>1. TypeOK /\ Shape
  BY DEF IInv
<1>2. UNCHANGED <<asked, workers, faults>>
  BY DEF Unlabel
<1> DEFINE rows == CancelQueued(req)
<1>3. /\ rows \in [Ids -> Rows]
      /\ \A q \in Ids :
            /\ req[q].st # "queued" => rows[q] = req[q]
            /\ req[q].st = "queued" => rows[q].st = "cancelled" /\ rows[q].epoch = req[q].epoch
  BY <1>1, QueueCancelled
<1>4. /\ item' \in [cancelled : BOOLEAN, readmit : 0..MaxReq, next : Nat]
      /\ item'.readmit = 0
  <2>1. item \in [cancelled : BOOLEAN, readmit : 0..MaxReq, next : Nat] /\ 0 \in 0..MaxReq
    BY <1>1, LedgerAssumption DEF TypeOK
  <2>2. \E b \in BOOLEAN : item' = [item EXCEPT !.cancelled = b, !.readmit = 0]
    BY <2>1 DEF Unlabel, UnlabelFirst, UnlabelAgain
  <2> QED BY <2>1, <2>2
<1>5. unlabels' \in 0..MaxUnlabel
  BY <1>1, LedgerAssumption DEF Unlabel, UnlabelFirst, UnlabelAgain, TypeOK
<1>6. transcript' \in BOOLEAN
  BY <1>1, TranscriptSettled DEF Unlabel, UnlabelFirst, UnlabelAgain, TypeOK
<1> HIDE DEF rows
<1>7. ASSUME req' \in [Ids -> Rows] PROVE TypeOK'
  BY <1>1, <1>2, <1>4, <1>5, <1>6, <1>7 DEF TypeOK, workers
(* Only the queue changes, because nothing is active.                      *)
<1>8. ASSUME req' = rows, \A q \in Ids : req[q].st \notin Active PROVE IInv'
  <2>1. ASSUME NEW q \in Ids
        PROVE  /\ req'[q].epoch = req[q].epoch
               /\ \/ req[q].st \notin Taken /\ req'[q] = req[q]
                  \/ req[q].st # "none" /\ req'[q].st = "cancelled"
    BY <1>3, <1>8 DEF Taken, Active
  <2> QED BY <1>2, <1>3, <1>4, <1>7, <1>8, <2>1, UnlabelledKeeps
(* The active row a is written too.                                        *)
<1>9. ASSUME NEW a \in Ids, req[a].st \in Active, NEW row \in Rows,
             req' = [rows EXCEPT ![a] = row], row.epoch = req[a].epoch,
             row.st = "cancelled" \/ (row.st = "stopping" /\ row.cause = "issue")
      PROVE  IInv'
  <2>1. req' \in [Ids -> Rows] /\ req'[a] = row /\ \A q \in Ids \ {a} : req'[q] = rows[q]
    BY <1>3, <1>9
  <2>2. ASSUME NEW q \in Ids
        PROVE  /\ req'[q].epoch = req[q].epoch
               /\ \/ req[q].st \notin Taken /\ req'[q] = req[q]
                  \/ req[q].st # "none" /\ req'[q].st = "cancelled"
                  \/ /\ req[q].st \in Active
                     /\ req'[q].st = "stopping" /\ req'[q].cause = "issue"
    <3>1. CASE q = a
      BY <1>9, <2>1, <3>1 DEF Active
    <3>2. CASE q # a
      <4>1. req[q].st \notin Active
        BY <1>1, <1>9, <3>2 DEF Shape
      <4> QED BY <1>3, <2>1, <3>2, <4>1 DEF Taken, Active
    <3> QED BY <3>1, <3>2
  <2> QED BY <1>2, <1>4, <1>7, <2>1, <2>2, UnlabelledKeeps
<1>10. CASE UnlabelAgain
  <2>1. item.cancelled /\ req' = rows
    BY <1>10 DEF UnlabelAgain, rows
  <2>2. ASSUME NEW q \in Ids
        PROVE  /\ req'[q].epoch = req[q].epoch
               /\ req[q].st \notin Taken /\ req'[q] = req[q]
    BY <1>1, <1>3, <2>1 DEF Shape, Taken
  <2> QED BY <1>2, <1>3, <1>4, <1>7, <2>1, <2>2, UnlabelledKeeps
<1>11. CASE UnlabelFirst
  <2>1. ASSUME NEW a \in In(req, {"waiting"}),
               req' = [CancelQueued(req) EXCEPT ![a] = End(@, "cancelled", "issue")]
        PROVE  IInv'
    <3>1. a \in Ids /\ req[a].st = "waiting" /\ req[a] \in Rows /\ rows[a] = req[a]
      BY <1>1, <1>3 DEF In, TypeOK
    <3> DEFINE row == End(req[a], "cancelled", "issue")
    <3>2. "cancelled" \in Ended /\ "issue" \in Causes
      BY Words DEF Ended
    <3>3. row \in Rows /\ row.st = "cancelled" /\ row.epoch = req[a].epoch
      BY <3>1, <3>2, EndWritten
    <3>4. req' = [rows EXCEPT ![a] = row]
      BY <2>1, <3>1 DEF rows
    <3> HIDE DEF row
    <3> QED BY <1>9, <3>1, <3>3, <3>4, Words
  <2>2. ASSUME NEW a \in In(req, {"running"}),
               req' = [CancelQueued(req) EXCEPT ![a] = Stopping(@, "issue", Release(@.hb))]
        PROVE  IInv'
    <3>1. a \in Ids /\ req[a].st = "running" /\ req[a] \in Rows /\ rows[a] = req[a]
      BY <1>1, <1>3 DEF In, TypeOK
    <3> DEFINE row == Stopping(req[a], "issue", Release(req[a].hb))
    <3>2. "issue" \in Stops /\ Release(req[a].hb) \in Beats
      BY <3>1, ReleaseWritten DEF Stops, Rows
    <3>3. row \in Rows /\ row.st = "stopping" /\ row.cause = "issue" /\ row.epoch = req[a].epoch
      BY <3>1, <3>2, StoppingWritten
    <3>4. req' = [rows EXCEPT ![a] = row]
      BY <2>2, <3>1 DEF rows
    <3> HIDE DEF row
    <3> QED BY <1>9, <3>1, <3>3, <3>4, Words
  <2>3. ASSUME NEW a \in In(req, {"stopping"}),
               req' = [CancelQueued(req) EXCEPT ![a].cause = "issue"]
        PROVE  IInv'
    <3>1. a \in Ids /\ req[a].st = "stopping" /\ req[a] \in Rows /\ rows[a] = req[a]
      BY <1>1, <1>3 DEF In, TypeOK
    <3> DEFINE row == [req[a] EXCEPT !.cause = "issue"]
    <3>2. row \in Rows /\ row.st = "stopping" /\ row.cause = "issue" /\ row.epoch = req[a].epoch
      BY <3>1, Words DEF Rows
    <3>3. req' = [rows EXCEPT ![a] = row]
      BY <2>3, <3>1 DEF rows
    <3> HIDE DEF row
    <3> QED BY <1>9, <3>1, <3>2, <3>3, Words
  <2>4. CASE ActiveReq = {} /\ req' = CancelQueued(req)
    BY <1>8, <2>4, NothingActive DEF rows
  <2> QED BY <1>11, <2>1, <2>2, <2>3, <2>4 DEF UnlabelFirst
<1> QED BY <1>10, <1>11 DEF Unlabel

-----------------------------------------------------------------------------
(* The invariant.                                                          *)

LEMMA InvInit == Init => IInv
<1> SUFFICES ASSUME Init PROVE IInv
  OBVIOUS
<1>1. \A r \in Ids : req[r] = NoRow /\ NoRow.st = "none" /\ NoRow.epoch = 0
  BY RowWritten, Words DEF Init, NoRow
<1>2. TypeOK
  <2>1. 0 \in 0..MaxReq /\ 0 \in 0..MaxUnlabel /\ 0 \in 0..MaxFault
    BY LedgerAssumption
  <2>2. /\ item \in [cancelled : BOOLEAN, readmit : 0..MaxReq, next : Nat]
        /\ asked \in 0..MaxReq /\ unlabels \in 0..MaxUnlabel /\ faults \in 0..MaxFault
    BY <2>1 DEF Init
  <2>3. req \in [Ids -> Rows] /\ run \in [Workers -> [Ids -> Runs]]
    BY NothingWritten DEF Init
  <2>4. term \in [Workers -> [Ids -> Nat]]
    BY DEF Init
  <2> QED BY <2>2, <2>3, <2>4 DEF Init, TypeOK
<1>3. Shape
  BY <1>1 DEF Init, Shape, Active, Taken
<1>4. Voices
  BY <1>1, NothingWritten DEF Init, Voices, VoiceOf, Bounded, OneVoice, Muted, Beating, Speaks,
     Claims, Speaking
<1> QED BY <1>2, <1>3, <1>4 DEF IInv

LEMMA InvStutter == ASSUME IInv, UNCHANGED vars PROVE IInv'
<1>1. TypeOK'
  BY DEF IInv, TypeOK, vars, callers, workers
<1>2. Shape'
  BY DEF IInv, Shape, vars, callers
<1>3. Voices'
  BY DEF IInv, Voices, VoiceOf, Bounded, OneVoice, Muted, Beating, Speaks, Claims, vars, workers
<1> QED BY <1>1, <1>2, <1>3 DEF IInv

LEMMA InvNext == ASSUME IInv, [Next]_vars PROVE IInv'
<1>1. CASE Callers
  BY <1>1, LabelKeeps, AdmitKeeps, MentionKeeps, UnlabelKeeps, LabelAgainKeeps,
     WriteSnapshotKeeps DEF Callers
<1>2. CASE AdmitReadmit
  BY <1>2, AdmitReadmitKeeps
<1>3. ASSUME NEW r \in Ids, Reconcile(r) PROVE IInv'
  BY <1>3, ExpireWaitingKeeps, DeadlineCancelKeeps, OwnerLostCancelKeeps,
     PublishTerminateKeeps, SettleOverdueKeeps, AdmitNextKeeps, RedispatchLapsedKeeps,
     PublishWakeKeeps, SettlePublicationKeeps
     DEF Reconcile
<1>4. ASSUME NEW r \in Ids, Time(r) PROVE IInv'
  BY <1>4, LapseAcquireKeeps, LapseWaitKeeps, LapseExecKeeps, LapseBeatKeeps, LapseCancelKeeps
     DEF Time
<1>5. ASSUME NEW r \in Ids, PublicationEnds(r) PROVE IInv'
  BY <1>5, PublicationEndsKeeps
<1>6. ASSUME NEW w \in Workers, NEW r \in Ids, Work(w, r) PROVE IInv'
  BY <1>6, AcquireKeeps, DropWakeKeeps, RenewAcquireKeeps, DeferKeeps, GiveUpKeeps, StartKeeps,
     BeatKeeps, PublishKeeps, FinishKeeps, HoldKeeps, AdoptKeeps
     DEF Work
<1>7. ASSUME NEW w \in Workers, NEW r \in Ids, EndWork(w, r) PROVE IInv'
  BY <1>7, ClaimTerminationKeeps, DropStopKeeps, TerminateKeeps, StopOwnedKeeps,
     HaltFailsKeeps, DeclareLostKeeps
     DEF EndWork
<1>8. ASSUME NEW w \in Workers, Crash(w) \/ Restart(w) PROVE IInv'
  BY <1>8, CrashKeeps, RestartKeeps
<1>9. CASE UNCHANGED vars
  BY <1>9, InvStutter
<1> QED BY <1>1, <1>2, <1>3, <1>4, <1>5, <1>6, <1>7, <1>8, <1>9 DEF Next

-----------------------------------------------------------------------------
(* What the invariant says of the sets that the properties count.          *)

LEMMA AtMostOne ==
    ASSUME NEW S, \A x, y \in S : x = y
    PROVE  Cardinality(S) \in {0, 1} /\ (S = {} => Cardinality(S) = 0)
<1>1. CASE S = {}
  BY <1>1, FS_EmptySet
<1>2. ASSUME NEW x \in S PROVE Cardinality(S) = 1
  <2>1. S = {x}
    BY <1>2
  <2> QED BY <2>1, FS_Singleton
<1> QED BY <1>1, <1>2

LEMMA InvOneActive == ASSUME IInv PROVE OneActive
<1>1. \A q, r \in ActiveReq : q = r
  BY DEF IInv, Shape, ActiveReq, In
<1>2. Cardinality(ActiveReq) \in {0, 1}
  BY <1>1, AtMostOne
<1> QED BY <1>2 DEF OneActive

LEMMA InvCancelledIsQuiet == ASSUME IInv PROVE CancelledIsQuiet
  BY DEF IInv, Shape, CancelledIsQuiet, In, Taken

LEMMA InvOwnerSpeaksAlone == ASSUME IInv PROVE OwnerSpeaksAlone
<1>1. \A q, r \in ActiveReq : q = r /\ q \in Ids
  BY DEF IInv, Shape, ActiveReq, In
<1>2. ASSUME NEW p \in Workers \X ActiveReq, NEW q \in Workers \X ActiveReq
      PROVE  /\ p[1] \in Workers /\ q[1] \in Workers /\ p[2] = q[2] /\ OneVoice(p[2])
             /\ p[1] = q[1] => p = q
  BY <1>1 DEF IInv, Voices, VoiceOf
<1>3. \A p \in Speakers : p \in Workers \X ActiveReq /\ Speaks(p[1], p[2])
  BY DEF Speakers, Speaks, Speaking
<1>4. \A p \in Terminators : p \in Workers \X ActiveReq /\ Claims(p[1], p[2])
  BY DEF Terminators, Claims
<1>5. ASSUME NEW p \in Speakers, NEW q \in Terminators PROVE FALSE
  BY <1>2, <1>3, <1>4 DEF OneVoice
<1>6. ASSUME NEW p \in Speakers, run[p[1]][p[2]].beats
      PROVE  Speakers = {p} /\ Terminators = {}
  <2>1. Beating(p[1], p[2])
    BY <1>3, <1>6 DEF Beating
  <2>2. \A q \in Speakers : q = p
    BY <1>2, <1>3, <2>1 DEF OneVoice
  <2> QED BY <1>5, <2>2
<1>7. ASSUME NEW p \in Terminators PROVE Terminators = {p} /\ Speakers = {}
  <2>1. \A q \in Terminators : q = p
    BY <1>2, <1>4 DEF OneVoice
  <2> QED BY <1>5, <2>1
<1>8. ASSUME NEW p \in Owners PROVE Cardinality(Speakers) + Cardinality(Terminators) = 1
  <2>1. CASE p \in Terminators
    BY <1>7, <2>1, FS_EmptySet, FS_Singleton
  <2>2. CASE p \in Speakers /\ run[p[1]][p[2]].beats
    <3>1. Speakers = {p} /\ Terminators = {}
      BY <1>6, <2>2, Zenon
    <3>2. Cardinality(Speakers) = 1
      BY <3>1, FS_Singleton
    <3>3. Cardinality(Terminators) = 0
      BY <3>1, FS_EmptySet
    <3> QED BY <3>2, <3>3
  <2> QED BY <2>1, <2>2 DEF Owners
<1> QED BY <1>8 DEF OwnerSpeaksAlone

-----------------------------------------------------------------------------
(* The theorems.                                                           *)

(* The inductive invariant holds: the epoch of a row separates its owner   *)
(* from every earlier handler, a parked request has no run that beats for  *)
(* it, and the table has the shape the transactions rely on.               *)
THEOREM LedgerInvariant == Spec => []IInv
  BY InvInit, InvNext, PTL DEF Spec

(* Rows, runs, terminations and counters keep their types in every         *)
(* interleaving of the transactions.                                       *)
THEOREM LedgerTypes == Spec => []TypeOK
<1>1. IInv => TypeOK
  BY DEF IInv
<1> QED BY <1>1, LedgerInvariant, PTL

(* A WorkItem has at most one active request, however labels, mentions,    *)
(* the stored relabel, the queue and the successor of a lost run           *)
(* interleave, and without the unique index of the table.                  *)
THEOREM LedgerOneActive == Spec => []OneActive
  BY InvOneActive, LedgerInvariant, PTL

(* A WorkItem whose label was removed has no request that is queued,       *)
(* waits or runs untold.                                                   *)
THEOREM LedgerCancelledIsQuiet == Spec => []CancelledIsQuiet
  BY InvCancelledIsQuiet, LedgerInvariant, PTL

(* Whoever owns the row, the run that beats for it or the termination that *)
(* claimed it, is the only handler whose report the ledger would accept:   *)
(* crashes, lost replies, resumed turns and late terminations leave no     *)
(* second one beside it.                                                   *)
THEOREM LedgerOwnerSpeaksAlone == Spec => []OwnerSpeaksAlone
  BY InvOwnerSpeaksAlone, LedgerInvariant, PTL

=============================================================================
