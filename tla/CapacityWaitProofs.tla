------------------------- MODULE CapacityWaitProofs -------------------------
(***************************************************************************)
(* Proofs about CapacityWait for any handlers, budgets and delivery caps    *)
(* and any number of epochs, entries and faults.                            *)
(*                                                                         *)
(* Which of several copies of an event is worked on is decided by different *)
(* means for the two kinds of event: the copies that wakes append are told  *)
(* apart by the generation of the record (Generations), the duplicates of   *)
(* an approval resume by the claim (Duplicates).  Between them an event is  *)
(* kept (Kept): while there is no record an entry is left that is not       *)
(* acknowledged, and afterwards the record is in an index.  The second part *)
(* (Story) is about what the thread is told.                               *)
(***************************************************************************)
EXTENDS CapacityWait, FiniteSetTheorems, SequenceTheorems, TLAPS

EntrySet == [gen : 0 .. MaxGen, terminalOnly : BOOLEAN,
             row : {"unread", "pending", "acked"},
             delivered : 0 .. MaxDelivery, lease : Handlers \cup {None}]
RecordSet == [state : States, gen : 0 .. MaxGen, wake : 0 .. MaxEntry,
              cause : Causes, epoch : Epochs \cup {0}, confirmed : BOOLEAN,
              unknown : BOOLEAN, ever : BOOLEAN, terminalOnly : BOOLEAN,
              notice : BOOLEAN, expiry : BOOLEAN]
HandlerSet == [pc : Steps, e : 0 .. MaxEntry, gen : 0 .. MaxGen,
               epoch : Epochs \cup {0}, cause : Causes,
               state : States, replied : BOOLEAN]
NoteSet == [pc : {"off", "check", "send", "finish", "failed"},
            kind : {"queued", "expiry"}, gen : 0 .. MaxGen]
Decisions == {"none", "pending", "granted", "denied", "unknown"}

(* The type invariant, part by part.                                       *)
QueueTypes ==
    /\ stream \in Seq(EntrySet) /\ Len(stream) <= MaxEntry
    /\ hs \in [Handlers -> HandlerSet] /\ claim \in 0 .. MaxEntry
TimeTypes == left \in 0 .. Budget /\ due \in 0 .. Retry /\ fly \in -1 .. Budget
RunnerTypes == adm \in [Epochs -> Decisions] /\ started \subseteq Epochs
NoticeTypes ==
    /\ note \in NoteSet /\ lock \in BOOLEAN /\ told \in Causes
    /\ shown \in {"none", "queued", "answer", "expiry"}
PlainTypes ==
    /\ resume \in BOOLEAN /\ done \in {"none", "answer", "expiry"}
    /\ faults \in 0 .. MaxFault
Types ==
    /\ QueueTypes /\ rec \in RecordSet /\ TimeTypes /\ RunnerTypes
    /\ NoticeTypes /\ PlainTypes

Busy(h) == hs[h].pc # "idle"

(* The handler has authority over the entry it handles.                    *)
Has(h) == Busy(h) /\ ~Lost(h)

(* Only a pending row is leased.                                           *)
Leases ==
    /\ \A h \in Handlers : Busy(h) => hs[h].e \in DOMAIN stream
    /\ \A e \in DOMAIN stream :
         /\ stream[e].row # "pending" => stream[e].lease = None
         /\ stream[e].row = "unread" => stream[e].delivered = 0

(* Only the entry of the last wake carries the generation of the record;    *)
(* the producer's entries carry none.                                      *)
Generations ==
    /\ rec.gen = 0 <=> rec.state = "none"
    /\ rec.state = "none" => rec.wake = 0
    /\ rec.wake \in 0 .. Len(stream) /\ claim \in 0 .. Len(stream)
    /\ rec.state \in {"woken", "active"} => rec.wake # 0
    /\ Len(stream) >= 1 /\ (resume = TRUE => Len(stream) >= 2)
    /\ \A e \in DOMAIN stream :
         /\ stream[e].gen <= rec.gen
         /\ stream[e].gen = rec.gen /\ rec.gen # 0 => rec.wake = e
         /\ stream[e].gen = 0 => e = 1 \/ (resume = TRUE /\ e = 2)
    /\ \A h \in Handlers : Busy(h) =>
         /\ hs[h].gen <= rec.gen
         /\ hs[h].gen = Mine(h).gen \/ (resume = TRUE /\ Mine(h).gen = 0)

(* Where a handler can be without a wait, and what it has in hand.         *)
Places ==
    \A h \in Handlers : Busy(h) =>
      /\ hs[h].gen = 0 => hs[h].pc \in {"claim", "prepare", "run", "park", "ack"}
      /\ hs[h].gen # 0 => hs[h].pc \notin {"claim", "prepare"}
      /\ hs[h].pc \in {"claim", "prepare", "claimWake", "adopt"} => resume = TRUE
      /\ hs[h].pc \in {"grant", "admit", "resolve", "confirm", "turn"} => hs[h].epoch \in Epochs

(* The copies of an event that is no approval resume.                      *)
Copies ==
    resume = FALSE =>
      /\ rec.state # "none" => stream[1].row = "acked"
      /\ \A h \in Handlers : Has(h) /\ hs[h].pc \in Running /\ hs[h].gen # 0 =>
           rec.wake = hs[h].e /\ rec.state # "waiting"

(* The duplicates and copies of an approval resume.                        *)
Duplicates ==
    resume = TRUE =>
      \A h \in Handlers :
        /\ Has(h)
        /\ hs[h].pc \in Running \cup {"prepare"} \/ (hs[h].pc = "check" /\ Mine(h).gen = 0)
        => claim = hs[h].e

(* The row is there, or has had its deliveries.                            *)
Accounted(e) == stream[e].row # "acked" \/ stream[e].delivered >= MaxDelivery

(* Before there is a record, an entry is only acknowledged as the duplicate *)
(* of another, which is accounted for.                                     *)
Kept ==
    /\ rec.state \in {"woken", "active"} => fly >= 0
    /\ rec.state \in {"done", "expired"} => done # "none"
    /\ rec.state = "none" /\ done = "none" =>
         /\ \E e \in DOMAIN stream : Accounted(e)
         /\ \A h \in Handlers : Has(h) /\ hs[h].pc = "ack" =>
              /\ resume = TRUE /\ claim # hs[h].e
              /\ \E e \in DOMAIN stream \ {hs[h].e} : Accounted(e)
              /\ \A k \in Handlers : Has(k) /\ hs[k].pc = "ack" => k = h

(* A generation is paid for by an entry that was appended or acknowledged; *)
(* the adoption of a wait by the acknowledgement of its last wake.         *)
Acked == {e \in DOMAIN stream : stream[e].row = "acked"}
WakeGone == rec.state \in {"woken", "active"} /\ rec.wake \in Acked
Paid == rec.gen + (IF WakeGone THEN 1 ELSE 0) <= Len(stream) + Cardinality(Acked)

Safe == Leases /\ Generations /\ Places /\ Copies /\ Duplicates /\ Kept /\ Paid

IInv ==
    /\ Types /\ Safe

(***************************************************************************)
(* The shapes of a step.                                                   *)
(***************************************************************************)

(* The record keeps its generation and its wake, and goes on or is settled. *)
Mild ==
    /\ rec'.gen = rec.gen /\ rec'.wake = rec.wake
    /\ \/ rec'.state = rec.state
       \/ rec.state \in {"woken", "active"} /\ rec'.state = "active"
       \/ rec.state # "none" /\ rec'.state \in {"done", "expired"} /\ done' # "none"

(* Nothing happens to the record but that, and a settlement stays.         *)
Calm ==
    /\ resume' = resume /\ Mild
    /\ done # "none" => done' # "none"
    /\ rec'.state \in {"woken", "active"} => fly' >= 0

(* Entry d is as it was, but for its lease.                                *)
SameRow(d) ==
    /\ stream'[d].gen = stream[d].gen /\ stream'[d].row = stream[d].row
    /\ stream'[d].delivered = stream[d].delivered

(* Leases and the claim are given up, handlers stop.                       *)
Loosened ==
    /\ stream' \in Seq(EntrySet) /\ Len(stream') = Len(stream)
    /\ hs' \in [Handlers -> HandlerSet]
    /\ \A d \in 1 .. Len(stream) :
         SameRow(d) /\ stream'[d].lease \in {stream[d].lease, None}
    /\ \/ claim' = claim
       \/ claim' = 0 /\ (claim # 0 => stream'[claim].lease = None)
    /\ \A k \in Handlers : hs'[k] = hs[k] \/ hs'[k] = Idle

(* Handler h goes on with its entry.                                       *)
Moved(h) ==
    /\ UNCHANGED qVars /\ hs' \in [Handlers -> HandlerSet]
    /\ \A k \in Handlers : k # h => hs'[k] = hs[k]
    /\ Busy(h) /\ hs'[h].e = hs[h].e /\ hs'[h].pc \notin {"idle", "claim", "prepare"}

(* Where it goes.                                                          *)
Placed(h) ==
    /\ hs'[h].gen = hs[h].gen
    /\ hs[h].gen = 0 => hs'[h].pc \in {"run", "park", "ack"}
    /\ hs'[h].pc \in {"claimWake", "adopt"} => resume = TRUE
    /\ hs'[h].pc \in {"grant", "admit", "resolve", "confirm", "turn"} => hs'[h].epoch \in Epochs

(* By what right it works on the entry, or acknowledges it.                *)
Entitled(h) ==
    /\ resume = FALSE /\ Has(h) /\ hs'[h].pc \in Running /\ hs[h].gen # 0 =>
         rec.wake = hs[h].e /\ rec.state # "waiting"
    /\ resume = TRUE /\ Has(h) /\ (hs'[h].pc \in Running \/ (hs'[h].pc = "check" /\ Mine(h).gen = 0)) =>
         claim = hs[h].e
    /\ hs'[h].pc = "ack" /\ Has(h) =>
         \/ rec.state # "none" \/ done' # "none"
         \/ resume = TRUE /\ Claimed(hs[h].e)

-----------------------------------------------------------------------------
LEMMA TypesTypeOK == Types => TypeOK
<1> SUFFICES ASSUME Types PROVE TypeOK
  OBVIOUS
<1>1. /\ Len(stream) <= MaxEntry
      /\ \A e \in DOMAIN stream : stream[e] \in EntrySet
  BY ElementOfSeq, LenProperties DEF Types, QueueTypes
<1>2. /\ rec \in RecordSet /\ hs \in [Handlers -> HandlerSet] /\ note \in NoteSet
      /\ adm \in [Epochs -> Decisions] /\ started \subseteq Epochs
  BY DEF Types, QueueTypes, RunnerTypes, NoticeTypes
<1>3. /\ left \in 0 .. Budget /\ due \in 0 .. Retry /\ fly \in -1 .. Budget
      /\ lock \in BOOLEAN /\ told \in Causes /\ shown \in {"none", "queued", "answer", "expiry"}
      /\ resume \in BOOLEAN /\ done \in {"none", "answer", "expiry"} /\ faults \in 0 .. MaxFault
  BY DEF Types, TimeTypes, NoticeTypes, PlainTypes
<1>4. claim \in 0 .. MaxEntry
  BY DEF Types, QueueTypes
<1> QED
  BY <1>1, <1>2, <1>3, <1>4, Zenon DEF TypeOK, EntrySet, RecordSet, HandlerSet, NoteSet, Decisions

(* What the proofs use of the types of the queue.                          *)
LEMMA Queue ==
  ASSUME Types, Leases
  PROVE  /\ Len(stream) \in Nat /\ Len(stream) <= MaxEntry
         /\ DOMAIN stream = 1 .. Len(stream)
         /\ \A d \in 1 .. Len(stream) :
              /\ stream[d] \in EntrySet /\ stream[d].gen \in 0 .. MaxGen
              /\ stream[d].row \in {"unread", "pending", "acked"}
              /\ stream[d].delivered \in 0 .. MaxDelivery
              /\ stream[d].lease \in Handlers \cup {None}
         /\ \A k \in Handlers :
              /\ hs[k] \in HandlerSet /\ hs[k].gen \in 0 .. MaxGen /\ hs[k].pc \in Steps
              /\ hs[k].epoch \in Epochs \cup {0}
              /\ Busy(k) => hs[k].e \in 1 .. Len(stream)
         /\ Acked = {d \in 1 .. Len(stream) : stream[d].row = "acked"}
<1>1. stream \in Seq(EntrySet) /\ Len(stream) <= MaxEntry
  BY DEF Types, QueueTypes
<1>2. Len(stream) \in Nat /\ DOMAIN stream = 1 .. Len(stream)
  BY <1>1, LenProperties
<1>3. \A d \in 1 .. Len(stream) : stream[d] \in EntrySet
  BY <1>1, ElementOfSeq
<1>4. \A k \in Handlers : hs[k] \in HandlerSet
  BY DEF Types, QueueTypes
<1>5. \A k \in Handlers : Busy(k) => hs[k].e \in 1 .. Len(stream)
  BY <1>2 DEF Leases
<1>6. ASSUME NEW s \in EntrySet
      PROVE  /\ s.gen \in 0 .. MaxGen /\ s.row \in {"unread", "pending", "acked"}
             /\ s.delivered \in 0 .. MaxDelivery /\ s.lease \in Handlers \cup {None}
  BY DEF EntrySet
<1>7. ASSUME NEW s \in HandlerSet
      PROVE  s.gen \in 0 .. MaxGen /\ s.pc \in Steps /\ s.epoch \in Epochs \cup {0}
  BY DEF HandlerSet
<1> QED
  BY <1>1, <1>2, <1>3, <1>4, <1>5, <1>6, <1>7 DEF Acked

LEMMA UpTo ==
  ASSUME NEW n \in Nat
  PROVE  IsFiniteSet(1 .. n) /\ Cardinality(1 .. n) = n
<1>1. /\ IsFiniteSet(1 .. n)
      /\ Cardinality(1 .. n) = IF 1 > n THEN 0 ELSE n - 1 + 1
  BY FS_Interval
<1> QED
  BY <1>1

LEMMA AckedFinite ==
  ASSUME Types, Leases
  PROVE  IsFiniteSet(Acked) /\ Cardinality(Acked) \in Nat /\ Cardinality(Acked) <= Len(stream)
<1>1. Len(stream) \in Nat /\ Acked \in SUBSET (1 .. Len(stream))
  BY Queue
<1>2. IsFiniteSet(1 .. Len(stream)) /\ Cardinality(1 .. Len(stream)) = Len(stream)
  BY <1>1, UpTo
<1> QED
  BY <1>1, <1>2, FS_Subset, FS_CardinalityType

(* Two handlers with authority have different entries.                     *)
LEMMA OwnEntry ==
  ASSUME NEW h \in Handlers, NEW k \in Handlers, Has(h), Has(k), hs[h].e = hs[k].e
  PROVE  h = k
BY DEF Has, Lost, Mine

(* The row of a handler with authority is pending.                         *)
LEMMA HasPending ==
  ASSUME Types, Leases, NEW h \in Handlers, Has(h)
  PROVE  hs[h].e \in 1 .. Len(stream) /\ Mine(h).row = "pending"
<1>1. hs[h].e \in 1 .. Len(stream) /\ DOMAIN stream = 1 .. Len(stream)
  BY Queue DEF Has
<1> QED
  BY <1>1, WaitAssumption DEF Has, Lost, Mine, Leases


LEMMA IdleIsFree == Idle.pc = "idle"
BY DEF Idle

(* The record in a calm step.                                              *)
LEMMA CalmRecord ==
  ASSUME Types, Leases, Generations, Calm
  PROVE  /\ rec'.gen = rec.gen /\ rec'.wake = rec.wake /\ rec.gen \in 0 .. MaxGen
         /\ rec'.state = "none" <=> rec.state = "none"
         /\ rec'.state \in {"woken", "active"} => rec.state \in {"woken", "active"} /\ fly' >= 0
         /\ rec'.state = "waiting" => rec.state = "waiting"
         /\ rec'.state \in {"done", "expired"} => rec.state \in {"done", "expired"} \/ done' # "none"
         /\ done' = "none" => done = "none"
         /\ resume' = resume
<1>1. rec.gen \in 0 .. MaxGen
  BY DEF Types, RecordSet
<1> QED
  BY <1>1 DEF Calm, Mild

(* Leases are given up, handlers stop: every part of the invariant stays.   *)
LEMMA LoosenedKeeps ==
  ASSUME Types, Safe, Calm, Loosened
  PROVE  Safe'
<1>1. Leases /\ Generations /\ Places /\ Copies /\ Duplicates /\ Kept /\ Paid
  BY DEF Safe
<1>2. /\ Len(stream') = Len(stream) /\ Len(stream) \in Nat
      /\ DOMAIN stream = 1 .. Len(stream) /\ DOMAIN stream' = 1 .. Len(stream)
      /\ \A d \in 1 .. Len(stream) : stream[d].lease \in Handlers \cup {None}
      /\ \A d \in 1 .. Len(stream) : SameRow(d) /\ stream'[d].lease \in {stream[d].lease, None}
  BY <1>1, Queue, LenProperties DEF Loosened
<1>3. \A k \in Handlers : Busy(k) => hs[k].e \in 1 .. Len(stream)
  BY <1>1, Queue
<1>4. ASSUME NEW k \in Handlers, Busy(k)'
      PROVE  /\ hs'[k] = hs[k] /\ Busy(k)
             /\ Mine(k)'.gen = Mine(k).gen /\ Mine(k)'.row = Mine(k).row
             /\ Has(k)' => Has(k)
  <2>0. hs'[k] = hs[k] \/ hs'[k] = Idle
    BY DEF Loosened
  <2>1. hs'[k] = hs[k] /\ Busy(k)
    BY <1>4, <2>0, IdleIsFree DEF Busy
  <2>2. SameRow(hs[k].e) /\ stream'[hs[k].e].lease \in {stream[hs[k].e].lease, None}
    BY <1>2, <1>3, <2>1
  <2>3. Has(k)' => Has(k)
    BY <2>1, <2>2, WaitAssumption DEF Has, Lost, Mine
  <2> QED
    BY <2>1, <2>2, <2>3 DEF Mine, SameRow
<1>5. /\ rec'.gen = rec.gen /\ rec'.wake = rec.wake
      /\ rec'.state = "none" <=> rec.state = "none"
      /\ rec'.state \in {"woken", "active"} => rec.state \in {"woken", "active"} /\ fly' >= 0
      /\ rec'.state = "waiting" => rec.state = "waiting"
      /\ rec'.state \in {"done", "expired"} => rec.state \in {"done", "expired"} \/ done' # "none"
      /\ done' = "none" => done = "none"
      /\ resume' = resume
  BY <1>1, CalmRecord
<1>6. Leases'
  BY <1>1, <1>2, <1>3, <1>4 DEF Leases, SameRow
<1>7. claim' \in {claim, 0} /\ claim' \in 0 .. Len(stream)
  BY <1>1 DEF Loosened, Generations
<1>8. Generations'
  BY <1>1, <1>2, <1>4, <1>5, <1>7 DEF Generations, SameRow
<1>9. Places'
  BY <1>1, <1>4, <1>5 DEF Places
<1>10. Copies'
  BY <1>1, <1>2, <1>4, <1>5 DEF Copies, SameRow, Has, Generations
<1>11. ASSUME NEW k \in Handlers, Has(k)', claim = hs[k].e
       PROVE  claim' = hs[k].e
  <2>1. Has(k) /\ hs'[k] = hs[k] /\ hs[k].e \in 1 .. Len(stream)
    BY <1>11, <1>3, <1>4 DEF Has
  <2>2. stream'[claim].lease = k
    BY <1>11, <2>1 DEF Has, Lost, Mine
  <2> QED
    BY <1>11, <2>1, <2>2, WaitAssumption DEF Loosened
<1>12. Duplicates'
  BY <1>1, <1>4, <1>5, <1>11 DEF Duplicates, Has
<1>13. \A d \in 1 .. Len(stream) : Accounted(d) => Accounted(d)'
  BY <1>2 DEF Accounted, SameRow
<1>14. Kept'
  <2>1. /\ rec'.state \in {"woken", "active"} => fly' >= 0
        /\ rec'.state \in {"done", "expired"} => done' # "none"
    BY <1>1, <1>5 DEF Kept, Calm
  <2>2. ASSUME rec'.state = "none", done' = "none"
        PROVE  \E e \in DOMAIN stream' : Accounted(e)'
    BY <1>1, <1>2, <1>5, <1>13, <2>2 DEF Kept
  <2>3. ASSUME rec'.state = "none", done' = "none", NEW k \in Handlers, Has(k)', hs'[k].pc = "ack"
        PROVE  /\ resume' = TRUE /\ claim' # hs'[k].e
               /\ \E e \in DOMAIN stream' \ {hs'[k].e} : Accounted(e)'
               /\ \A m \in Handlers : Has(m)' /\ hs'[m].pc = "ack" => m = k
    <3>1. Has(k) /\ hs[k].pc = "ack" /\ hs'[k] = hs[k] /\ hs[k].e # 0
      BY <2>3, <1>3, <1>4 DEF Has
    <3>2. \A m \in Handlers : Has(m)' /\ hs'[m].pc = "ack" => Has(m) /\ hs[m].pc = "ack"
      BY <1>4 DEF Has
    <3> QED
      BY <1>1, <1>2, <1>5, <1>7, <1>13, <2>3, <3>1, <3>2 DEF Kept
  <2> QED
    BY <2>1, <2>2, <2>3 DEF Kept
<1>15. Acked' = Acked
  BY <1>2 DEF Acked, SameRow
<1>16. Paid'
  <2>1. WakeGone' => WakeGone
    BY <1>5, <1>15 DEF WakeGone
  <2>2. Cardinality(Acked) \in Nat /\ rec.gen \in 0 .. MaxGen
    BY <1>1, AckedFinite DEF Types, RecordSet
  <2> QED
    BY <1>1, <1>2, <1>5, <1>15, <2>1, <2>2 DEF Paid
<1> QED
  BY <1>6, <1>8, <1>9, <1>10, <1>12, <1>14, <1>16 DEF Safe


(* Before the first record the stream has the producer's entries only.     *)
LEMMA ProducerOnly ==
  ASSUME Types, Leases, Generations, rec.state = "none"
  PROVE  Len(stream) <= 2 /\ (resume = FALSE => Len(stream) = 1)
<1>1. Len(stream) \in Nat /\ DOMAIN stream = 1 .. Len(stream) /\ resume \in BOOLEAN
  BY Queue DEF Types, PlainTypes
<1>2. \A d \in 1 .. Len(stream) : stream[d].gen \in 0 .. MaxGen
  BY Queue
<1>3. rec.gen = 0 /\ Len(stream) >= 1
  BY DEF Generations
<1>4. \A d \in 1 .. Len(stream) : stream[d].gen = 0
  BY <1>1, <1>2, <1>3 DEF Generations
<1>5. \A d \in 1 .. Len(stream) : d = 1 \/ (resume = TRUE /\ d = 2)
  BY <1>1, <1>4 DEF Generations
<1>6. Len(stream) \in 1 .. Len(stream)
  BY <1>1, <1>3
<1> QED
  BY <1>1, <1>5, <1>6

(* A handler goes on with its entry.                                       *)
LEMMA MovedKeeps ==
  ASSUME Types, Safe, Calm, NEW h \in Handlers, Moved(h), Placed(h), Entitled(h)
  PROVE  Safe'
<1>1. Leases /\ Generations /\ Places /\ Copies /\ Duplicates /\ Kept /\ Paid
  BY DEF Safe
<1>2. /\ Len(stream) \in Nat /\ DOMAIN stream = 1 .. Len(stream)
      /\ stream' = stream /\ claim' = claim
      /\ \A k \in Handlers : Busy(k) => hs[k].e \in 1 .. Len(stream)
  BY <1>1, Queue DEF Moved, qVars
<1>3. /\ rec'.gen = rec.gen /\ rec'.wake = rec.wake
      /\ rec'.state = "none" <=> rec.state = "none"
      /\ rec'.state \in {"woken", "active"} => rec.state \in {"woken", "active"} /\ fly' >= 0
      /\ rec'.state = "waiting" => rec.state = "waiting"
      /\ rec'.state \in {"done", "expired"} => rec.state \in {"done", "expired"} \/ done' # "none"
      /\ done' = "none" => done = "none"
      /\ resume' = resume
  BY <1>1, CalmRecord
<1>4. /\ \A k \in Handlers : k # h => hs'[k] = hs[k]
      /\ Busy(h) /\ Busy(h)' /\ hs'[h].e = hs[h].e /\ hs'[h].gen = hs[h].gen
      /\ hs'[h].pc \notin {"idle", "claim", "prepare"}
  BY DEF Moved, Placed, Busy
<1>5. \A k \in Handlers : /\ Busy(k)' <=> Busy(k)
                          /\ Busy(k) => Mine(k)' = Mine(k) /\ hs'[k].e = hs[k].e
                                        /\ hs'[k].gen = hs[k].gen
                          /\ Has(k)' <=> Has(k)
  BY <1>2, <1>4 DEF Busy, Mine, Has, Lost
<1>6. Leases'
  BY <1>1, <1>2, <1>5 DEF Leases
<1>7. Generations'
  BY <1>1, <1>2, <1>3, <1>5 DEF Generations
<1>8. Places'
  BY <1>1, <1>3, <1>4, <1>5 DEF Places, Placed
<1>9. Copies'
  <2> SUFFICES ASSUME resume = FALSE
               PROVE  /\ rec'.state # "none" => stream'[1].row = "acked"
                      /\ \A k \in Handlers : Has(k)' /\ hs'[k].pc \in Running /\ hs'[k].gen # 0 =>
                           rec'.wake = hs'[k].e /\ rec'.state # "waiting"
    BY <1>3 DEF Copies
  <2>1. rec'.state # "none" => stream'[1].row = "acked"
    BY <1>1, <1>2, <1>3 DEF Copies
  <2>2. ASSUME NEW k \in Handlers, Has(k)', hs'[k].pc \in Running, hs'[k].gen # 0
        PROVE  rec.wake = hs[k].e /\ rec.state # "waiting"
    <3>1. Has(k) /\ hs[k].gen # 0
      BY <2>2, <1>5 DEF Has
    <3>2. CASE k = h
      BY <2>2, <3>1, <3>2 DEF Entitled
    <3>3. CASE k # h
      BY <1>1, <1>4, <2>2, <3>1, <3>3 DEF Copies
    <3> QED
      BY <3>2, <3>3
  <2> QED
    BY <1>3, <1>5, <2>1, <2>2 DEF Has
<1>10. Duplicates'
  <2> SUFFICES ASSUME resume = TRUE, NEW k \in Handlers, Has(k)',
                      \/ hs'[k].pc \in Running \cup {"prepare"}
                      \/ hs'[k].pc = "check" /\ Mine(k)'.gen = 0
               PROVE  claim' = hs'[k].e
    BY <1>3 DEF Duplicates
  <2>1. Has(k) /\ Mine(k)' = Mine(k) /\ hs'[k].e = hs[k].e
    BY <1>5 DEF Has
  <2>2. CASE k = h
    <3>1. hs'[h].pc \in Running \/ (hs'[h].pc = "check" /\ Mine(h).gen = 0)
      BY <1>4, <2>1, <2>2
    <3> QED
      BY <1>2, <2>1, <2>2, <3>1 DEF Entitled
  <2>3. CASE k # h
    <3>1. hs'[k] = hs[k]
      BY <1>4, <2>3
    <3> QED
      BY <1>1, <1>2, <2>1, <3>1 DEF Duplicates
  <2> QED
    BY <2>2, <2>3
<1>11. \A d \in 1 .. Len(stream) : Accounted(d)' <=> Accounted(d)
  BY <1>2 DEF Accounted
<1>12. Kept'
  <2>1. /\ rec'.state \in {"woken", "active"} => fly' >= 0
        /\ rec'.state \in {"done", "expired"} => done' # "none"
    BY <1>1, <1>3 DEF Kept, Calm
  <2>2. ASSUME rec'.state = "none", done' = "none"
        PROVE  /\ rec.state = "none" /\ done = "none"
               /\ \E e \in DOMAIN stream' : Accounted(e)'
    BY <1>1, <1>2, <1>3, <1>11, <2>2 DEF Kept
  <2>3. ASSUME rec'.state = "none", done' = "none", hs'[h].pc = "ack", Has(h), hs[h].pc # "ack"
        PROVE  /\ resume = TRUE /\ claim # hs[h].e
               /\ \E e \in 1 .. Len(stream) \ {hs[h].e} : Accounted(e)
               /\ \A k \in Handlers : Has(k) /\ hs'[k].pc = "ack" => k = h
    <3>1. resume = TRUE /\ Claimed(hs[h].e)
      BY <2>2, <2>3 DEF Entitled
    <3>2. claim \in 1 .. Len(stream) /\ claim # hs[h].e /\ stream[claim].row = "pending"
      BY <1>1, <1>2, <3>1 DEF Claimed, Generations
    <3>3. Accounted(claim)
      BY <3>2 DEF Accounted
    <3>4. ASSUME NEW k \in Handlers, Has(k), hs'[k].pc = "ack", k # h
          PROVE  FALSE
      <4>1. hs[k].pc = "ack" /\ hs[k].e # hs[h].e
        BY <1>4, <2>3, <3>4, OwnEntry
      <4>2. claim # hs[k].e
        BY <1>1, <2>2, <2>3, <3>4, <4>1 DEF Kept
      <4>3. hs[h].e \in 1 .. Len(stream) /\ hs[k].e \in 1 .. Len(stream)
        BY <1>2, <2>3, <3>4 DEF Has
      <4>4. Len(stream) <= 2
        BY <1>1, <2>2, <2>3, ProducerOnly
      <4> QED
        BY <1>2, <3>2, <4>1, <4>2, <4>3, <4>4
    <3> QED
      BY <3>1, <3>2, <3>3, <3>4
  <2>4. ASSUME rec'.state = "none", done' = "none", NEW k \in Handlers, Has(k)', hs'[k].pc = "ack"
        PROVE  /\ resume' = TRUE /\ claim' # hs'[k].e
               /\ \E e \in DOMAIN stream' \ {hs'[k].e} : Accounted(e)'
               /\ \A m \in Handlers : Has(m)' /\ hs'[m].pc = "ack" => m = k
    <3>1. Has(k) /\ hs'[k].e = hs[k].e
      BY <2>4, <1>5 DEF Has
    <3>2. \A m \in Handlers : Has(m)' => Has(m)
      BY <1>5
    <3>3. CASE hs'[h].pc = "ack" /\ Has(h) /\ hs[h].pc # "ack"
      <4>1. k = h
        BY <2>3, <2>4, <3>1, <3>3
      <4> QED
        BY <1>2, <1>3, <1>11, <2>3, <2>4, <3>1, <3>2, <3>3, <4>1
    <3>4. CASE ~(hs'[h].pc = "ack" /\ Has(h) /\ hs[h].pc # "ack")
      <4>1. \A m \in Handlers : Has(m) /\ hs'[m].pc = "ack" => hs[m].pc = "ack"
        BY <1>4, <3>4
      <4> QED
        BY <1>1, <1>2, <1>3, <1>11, <2>2, <2>4, <3>1, <3>2, <4>1 DEF Kept
    <3> QED
      BY <3>3, <3>4
  <2> QED
    BY <2>1, <2>2, <2>4 DEF Kept
<1>13. Paid'
  <2>1. Acked' = Acked /\ (WakeGone' => WakeGone)
    BY <1>2, <1>3 DEF Acked, WakeGone
  <2>2. Cardinality(Acked) \in Nat /\ rec.gen \in 0 .. MaxGen
    BY <1>1, AckedFinite DEF Types, RecordSet
  <2> QED
    BY <1>1, <1>2, <1>3, <2>1, <2>2 DEF Paid
<1> QED
  BY <1>6, <1>7, <1>8, <1>9, <1>10, <1>12, <1>13 DEF Safe


(* An entry is changed.                                                    *)
LEMMA Updated ==
  ASSUME Types, Leases, NEW e \in 1 .. Len(stream), NEW r \in EntrySet,
         stream' = [stream EXCEPT ![e] = r]
  PROVE  /\ stream' \in Seq(EntrySet) /\ Len(stream') = Len(stream)
         /\ DOMAIN stream' = 1 .. Len(stream)
         /\ stream'[e] = r
         /\ \A d \in 1 .. Len(stream) : d # e => stream'[d] = stream[d]
<1>1. stream \in Seq(EntrySet)
  BY DEF Types, QueueTypes
<1>2. /\ stream' \in Seq(EntrySet) /\ Len(stream') = Len(stream)
      /\ \A d \in 1 .. Len(stream) : stream'[d] = IF d = e THEN r ELSE stream[d]
  BY <1>1, ExceptSeq
<1> QED
  BY <1>2, LenProperties

(* A delivery is given to an idle handler.                                 *)
LEMMA DeliverKeeps ==
  ASSUME Types, Safe, NEW h \in Handlers, NEW e \in DOMAIN stream, hs[h].pc = "idle",
         stream[e].row # "acked", stream[e].lease = None,
         stream[e].delivered < MaxDelivery, Deliver(h, e)
  PROVE  Types' /\ Safe'
<1>1. Leases /\ Generations /\ Places /\ Copies /\ Duplicates /\ Kept /\ Paid
  BY DEF Safe
<1>2. /\ Len(stream) \in Nat /\ Len(stream) <= MaxEntry /\ DOMAIN stream = 1 .. Len(stream)
      /\ \A k \in Handlers : Busy(k) => hs[k].e \in 1 .. Len(stream)
      /\ e \in 1 .. Len(stream) /\ stream[e] \in EntrySet
      /\ stream[e].delivered \in 0 .. MaxDelivery /\ stream[e].gen \in 0 .. MaxGen
  BY <1>1, Queue
<1> DEFINE r == [stream[e] EXCEPT !.row = "pending", !.lease = h, !.delivered = @ + 1]
<1> DEFINE s == [Idle EXCEPT !.e = e, !.gen = stream[e].gen,
                   !.pc = IF stream[e].gen # 0 THEN "check" ELSE IF resume THEN "claim" ELSE "run"]
<1>3. stream' = [stream EXCEPT ![e] = r] /\ hs' = [hs EXCEPT ![h] = s]
  BY DEF Deliver
<1>4. UNCHANGED <<resume, rec, left, due, fly, claim, adm, note, lock, done, started, told, shown, faults>>
  BY DEF Deliver, tVars, nVars, xVars
<1>5. ASSUME NEW q \in EntrySet, q.delivered < MaxDelivery
      PROVE  [q EXCEPT !.row = "pending", !.lease = h, !.delivered = @ + 1] \in EntrySet
  <2>1. q.delivered \in 0 .. MaxDelivery /\ MaxDelivery \in Nat
    BY WaitAssumption DEF EntrySet
  <2>2. q.delivered + 1 \in 0 .. MaxDelivery
    BY <1>5, <2>1
  <2> HIDE DEF r, s
  <2> QED
    BY <2>2 DEF EntrySet
<1>6. /\ r \in EntrySet /\ r.row = "pending" /\ r.lease = h
      /\ r.gen = stream[e].gen /\ r.delivered = stream[e].delivered + 1
  BY <1>2, <1>5 DEF EntrySet
<1>7. s \in HandlerSet
  <2>1. e \in 0 .. MaxEntry /\ stream[e].gen \in 0 .. MaxGen
    BY <1>2, WaitAssumption
  <2>2. "" \in Causes /\ "none" \in States /\ {"check", "claim", "run"} \subseteq Steps
    BY DEF Causes, States, Steps, Running
  <2> QED
    BY <2>1, <2>2 DEF HandlerSet, Idle
<1>8. /\ s.e = e /\ s.gen = stream[e].gen
      /\ stream[e].gen # 0 => s.pc = "check"
      /\ stream[e].gen = 0 /\ resume = TRUE => s.pc = "claim"
      /\ stream[e].gen = 0 /\ resume = FALSE => s.pc = "run"
      /\ s.pc \in {"check", "claim", "run"}
  BY DEF Idle
<1> HIDE DEF r, s
<1>9. /\ stream' \in Seq(EntrySet) /\ Len(stream') = Len(stream) /\ DOMAIN stream' = 1 .. Len(stream)
      /\ stream'[e] = r /\ \A d \in 1 .. Len(stream) : d # e => stream'[d] = stream[d]
  BY <1>1, <1>2, <1>3, <1>6, Updated
<1>10. /\ hs' \in [Handlers -> HandlerSet] /\ hs'[h] = s
       /\ \A k \in Handlers : k # h => hs'[k] = hs[k]
  BY <1>3, <1>7 DEF Types, QueueTypes
<1>11. QueueTypes'
  BY <1>2, <1>4, <1>9, <1>10 DEF QueueTypes, Types
<1>12. Types'
  BY <1>4, <1>11 DEF Types, TimeTypes, RunnerTypes, NoticeTypes, PlainTypes
<1>13. ASSUME NEW k \in Handlers, k # h, Busy(k)'
       PROVE  /\ hs'[k] = hs[k] /\ Busy(k) /\ hs[k].e \in 1 .. Len(stream)
              /\ Mine(k)'.gen = Mine(k).gen /\ (Has(k)' => Has(k))
  <2>1. hs'[k] = hs[k] /\ Busy(k) /\ hs[k].e \in 1 .. Len(stream)
    BY <1>2, <1>10, <1>13 DEF Busy
  <2>2. CASE hs[k].e = e
    BY <1>6, <1>9, <1>13, <2>1, <2>2 DEF Has, Lost, Mine
  <2>3. CASE hs[k].e # e
    BY <1>9, <2>1, <2>3 DEF Has, Lost, Mine
  <2> QED
    BY <2>1, <2>2, <2>3
<1>14. resume \in BOOLEAN
  BY DEF Types, PlainTypes
<1>15. Mine(h)'.gen = hs'[h].gen /\ hs'[h].e = e
  BY <1>6, <1>8, <1>9, <1>10 DEF Mine
<1>16. Leases'
  BY <1>1, <1>2, <1>6, <1>9, <1>13, <1>15, WaitAssumption DEF Leases
<1>17. Generations'
  <2>1. \A d \in 1 .. Len(stream) : stream'[d].gen = stream[d].gen
    BY <1>6, <1>9
  <2> QED
    <3>1. \A k \in Handlers : Busy(k)' =>
             /\ hs'[k].gen <= rec.gen
             /\ hs'[k].gen = Mine(k)'.gen \/ (resume = TRUE /\ Mine(k)'.gen = 0)
      <4>1. hs'[h].gen <= rec.gen
        BY <1>1, <1>2, <1>8, <1>10 DEF Generations
      <4>2. ASSUME NEW k \in Handlers, k # h, Busy(k)'
            PROVE  /\ hs'[k].gen <= rec.gen
                   /\ hs'[k].gen = Mine(k)'.gen \/ (resume = TRUE /\ Mine(k)'.gen = 0)
        BY <1>1, <1>13, <4>2 DEF Generations
      <4> QED
        BY <1>15, <4>1, <4>2
    <3>2. DOMAIN stream' = DOMAIN stream /\ Len(stream') = Len(stream)
      BY <1>2, <1>9
    <3> QED
      BY <1>1, <1>2, <1>4, <2>1, <3>1, <3>2 DEF Generations
<1>18. Places'
  BY <1>1, <1>4, <1>8, <1>10, <1>13, <1>14, <1>2 DEF Places
<1>19. Copies'
  <2>1. 1 \in 1 .. Len(stream)
    BY <1>1, <1>2 DEF Generations
  <2>2. stream[1].row = "acked" => stream'[1].row = "acked"
    BY <1>9, <2>1
  <2>3. hs'[h].pc \in Running => hs'[h].gen = 0
    BY <1>8, <1>10 DEF Running
  <2> QED
    BY <1>1, <1>4, <1>13, <2>2, <2>3 DEF Copies, Has
<1>20. Duplicates'
  <2>1. resume = TRUE => hs'[h].pc \notin Running \cup {"prepare"} /\ ~(hs'[h].pc = "check" /\ Mine(h)'.gen = 0)
    BY <1>2, <1>8, <1>10, <1>15 DEF Running
  <2> QED
    BY <1>1, <1>4, <1>13, <2>1 DEF Duplicates, Has
<1>21. \A d \in 1 .. Len(stream) : Accounted(d) => Accounted(d)'
  BY <1>6, <1>9 DEF Accounted
<1>22. Kept'
  <2>1. hs'[h].pc # "ack"
    BY <1>8, <1>10
  <2>2. ASSUME rec.state = "none", done = "none", NEW k \in Handlers, Has(k)', hs'[k].pc = "ack"
        PROVE  /\ resume' = TRUE /\ claim' # hs'[k].e
               /\ \E d \in DOMAIN stream' \ {hs'[k].e} : Accounted(d)'
               /\ \A m \in Handlers : Has(m)' /\ hs'[m].pc = "ack" => m = k
    <3>1. \A m \in Handlers : Has(m)' /\ hs'[m].pc = "ack" => Has(m) /\ hs[m].pc = "ack" /\ hs'[m] = hs[m]
      BY <1>13, <2>1 DEF Has
    <3> QED
      BY <1>1, <1>2, <1>4, <1>9, <1>21, <2>2, <3>1 DEF Kept
  <2>3. rec.state = "none" /\ done = "none" => \E d \in DOMAIN stream' : Accounted(d)'
    BY <1>1, <1>2, <1>9, <1>21 DEF Kept
  <2> QED
    BY <1>1, <1>4, <2>2, <2>3 DEF Kept
<1>23. Paid'
  <2>1. Acked' = Acked
    BY <1>2, <1>6, <1>9 DEF Acked
  <2> QED
    BY <1>1, <1>4, <1>9, <2>1 DEF Paid, WakeGone
<1> QED
  BY <1>12, <1>16, <1>17, <1>18, <1>19, <1>20, <1>22, <1>23 DEF Safe


(* Entry e is acknowledged, and who had it is done with it.                *)
Retired(e) ==
    /\ stream' = [stream EXCEPT ![e] = [stream[e] EXCEPT !.row = "acked", !.lease = None]]
    /\ hs' \in [Handlers -> HandlerSet]
    /\ \A k \in Handlers : hs'[k] = hs[k] \/ hs'[k] = Idle
    /\ claim' = claim \/ (claim = e /\ claim' = 0)

LEMMA RetiredQueue ==
  ASSUME Types, Safe, NEW e \in 1 .. Len(stream), stream[e].row # "acked",
         Retired(e), resume' = resume
  PROVE  /\ QueueTypes' /\ Leases' /\ Places' /\ Duplicates'
         /\ Len(stream') = Len(stream) /\ DOMAIN stream' = 1 .. Len(stream)
         /\ stream'[e].row = "acked" /\ stream'[e].delivered = stream[e].delivered
         /\ \A d \in 1 .. Len(stream) : stream'[d].gen = stream[d].gen
         /\ \A d \in 1 .. Len(stream) : d # e => stream'[d] = stream[d]
         /\ claim' \in {claim, 0} /\ claim' \in 0 .. Len(stream)
         /\ \A k \in Handlers : Busy(k)' => /\ hs'[k] = hs[k] /\ Busy(k)
                                            /\ Mine(k)'.gen = Mine(k).gen
         /\ \A k \in Handlers : Has(k)' => hs'[k] = hs[k] /\ Has(k) /\ hs[k].e # e
         /\ Acked' = Acked \cup {e}
         /\ Cardinality(Acked') = Cardinality(Acked) + 1 /\ Cardinality(Acked) \in Nat
<1>1. Leases /\ Generations /\ Places /\ Duplicates
  BY DEF Safe
<1>2. /\ Len(stream) \in Nat /\ Len(stream) <= MaxEntry /\ DOMAIN stream = 1 .. Len(stream)
      /\ \A k \in Handlers : Busy(k) => hs[k].e \in 1 .. Len(stream)
      /\ stream[e] \in EntrySet
  BY <1>1, Queue
<1> DEFINE r == [stream[e] EXCEPT !.row = "acked", !.lease = None]
<1>3. ASSUME NEW q \in EntrySet
      PROVE  [q EXCEPT !.row = "acked", !.lease = None] \in EntrySet
  BY DEF EntrySet
<1>4. /\ r \in EntrySet /\ r.row = "acked" /\ r.lease = None
      /\ r.gen = stream[e].gen /\ r.delivered = stream[e].delivered
  BY <1>2, <1>3 DEF EntrySet
<1>5. stream' = [stream EXCEPT ![e] = r] /\ hs' \in [Handlers -> HandlerSet]
  BY DEF Retired
<1> HIDE DEF r
<1>6. /\ stream' \in Seq(EntrySet) /\ Len(stream') = Len(stream) /\ DOMAIN stream' = 1 .. Len(stream)
      /\ stream'[e] = r /\ \A d \in 1 .. Len(stream) : d # e => stream'[d] = stream[d]
  BY <1>1, <1>4, <1>5, Updated
<1>7. claim' \in {claim, 0} /\ claim' \in 0 .. Len(stream) /\ (claim # e => claim' = claim)
  BY <1>1 DEF Retired, Generations
<1>8. QueueTypes'
  BY <1>2, <1>5, <1>6, <1>7, WaitAssumption DEF QueueTypes
<1>9. ASSUME NEW k \in Handlers, Busy(k)'
      PROVE  hs'[k] = hs[k] /\ Busy(k) /\ Mine(k)'.gen = Mine(k).gen
  <2>1. hs'[k] = hs[k] \/ hs'[k] = Idle
    BY DEF Retired
  <2>2. hs'[k] = hs[k] /\ Busy(k)
    BY <1>9, <2>1, IdleIsFree DEF Busy
  <2> QED
    BY <1>2, <1>4, <1>6, <2>2 DEF Mine
<1>10. ASSUME NEW k \in Handlers, Has(k)'
       PROVE  hs'[k] = hs[k] /\ Has(k) /\ hs[k].e # e
  <2>1. hs'[k] = hs[k] /\ Busy(k) /\ hs[k].e \in 1 .. Len(stream)
    BY <1>2, <1>9, <1>10 DEF Has
  <2>2. stream'[hs[k].e].lease = k
    BY <1>10, <2>1 DEF Has, Lost, Mine
  <2>3. hs[k].e # e
    BY <1>4, <1>6, <2>2, WaitAssumption
  <2> QED
    BY <1>6, <2>1, <2>2, <2>3 DEF Has, Lost, Mine
<1>11. Leases'
  BY <1>1, <1>2, <1>4, <1>6, <1>9 DEF Leases
<1>12. Places'
  BY <1>1, <1>9 DEF Places
<1>13. Duplicates'
  BY <1>1, <1>7, <1>9, <1>10 DEF Duplicates, Has
<1>14. Acked' = Acked \cup {e} /\ e \notin Acked
  BY <1>2, <1>4, <1>6 DEF Acked
<1>15. Cardinality(Acked') = Cardinality(Acked) + 1 /\ Cardinality(Acked) \in Nat
  BY <1>1, <1>14, AckedFinite, FS_AddElement
<1>16. /\ \A d \in 1 .. Len(stream) : stream'[d].gen = stream[d].gen
       /\ stream'[e].row = "acked" /\ stream'[e].delivered = stream[e].delivered
  BY <1>4, <1>6
<1> QED
  BY <1>6, <1>7, <1>8, <1>9, <1>10, <1>11, <1>12, <1>13, <1>14, <1>15, <1>16

(* A row is acknowledged, by its handler or as a dead letter.              *)
LEMMA RetiredKeeps ==
  ASSUME Types, Safe, NEW e \in 1 .. Len(stream), stream[e].row # "acked", Retired(e),
         UNCHANGED <<resume, rec, fly, done>>,
         \/ stream[e].delivered >= MaxDelivery
         \/ \E h \in Handlers : hs[h].e = e /\ Has(h) /\ hs[h].pc = "ack"
  PROVE  Safe'
<1>1. Leases /\ Generations /\ Copies /\ Kept /\ Paid
  BY DEF Safe
<1>2. /\ Leases' /\ Places' /\ Duplicates'
      /\ Len(stream') = Len(stream) /\ DOMAIN stream' = 1 .. Len(stream)
      /\ stream'[e].row = "acked" /\ stream'[e].delivered = stream[e].delivered
      /\ \A d \in 1 .. Len(stream) : stream'[d].gen = stream[d].gen
      /\ \A d \in 1 .. Len(stream) : d # e => stream'[d] = stream[d]
      /\ claim' \in {claim, 0} /\ claim' \in 0 .. Len(stream)
      /\ \A k \in Handlers : Busy(k)' => /\ hs'[k] = hs[k] /\ Busy(k)
                                         /\ Mine(k)'.gen = Mine(k).gen
      /\ \A k \in Handlers : Has(k)' => hs'[k] = hs[k] /\ Has(k) /\ hs[k].e # e
      /\ Acked' = Acked \cup {e}
      /\ Cardinality(Acked') = Cardinality(Acked) + 1 /\ Cardinality(Acked) \in Nat
  BY RetiredQueue
<1>3. /\ Len(stream) \in Nat /\ DOMAIN stream = 1 .. Len(stream)
      /\ \A k \in Handlers : Busy(k) => hs[k].e \in 1 .. Len(stream)
      /\ \A d \in 1 .. Len(stream) : stream[d].delivered \in 0 .. MaxDelivery
  BY <1>1, Queue
<1>4. Generations'
  <2>1. /\ Len(stream') = Len(stream) /\ DOMAIN stream' = 1 .. Len(stream)
        /\ \A d \in 1 .. Len(stream) : stream'[d].gen = stream[d].gen
        /\ claim' \in 0 .. Len(stream)
        /\ \A k \in Handlers : Busy(k)' => /\ hs'[k] = hs[k] /\ Busy(k)
                                           /\ Mine(k)'.gen = Mine(k).gen
        /\ rec' = rec /\ resume' = resume
    BY <1>2
  <2> QED
    BY <1>1, <1>3, <2>1 DEF Generations
<1>5. Copies'
  <2>1. 1 \in 1 .. Len(stream)
    BY <1>1, <1>3 DEF Generations
  <2>2. stream[1].row = "acked" => stream'[1].row = "acked"
    BY <1>2, <2>1
  <2> QED
    BY <1>1, <1>2, <2>2 DEF Copies
<1>6. Kept'
  <2>1. ASSUME rec.state = "none", done = "none", ~(stream[e].delivered >= MaxDelivery)
        PROVE  /\ \E d \in DOMAIN stream' : Accounted(d)'
               /\ \A k \in Handlers : ~(Has(k)' /\ hs'[k].pc = "ack")
    <3>1. PICK h \in Handlers : hs[h].e = e /\ Has(h) /\ hs[h].pc = "ack"
      BY <2>1
    <3>2. /\ \E d \in DOMAIN stream \ {e} : Accounted(d)
          /\ \A k \in Handlers : Has(k) /\ hs[k].pc = "ack" => k = h
      BY <1>1, <2>1, <3>1 DEF Kept
    <3>3. \A d \in DOMAIN stream \ {e} : Accounted(d) => Accounted(d)'
      BY <1>2, <1>3 DEF Accounted
    <3> QED
      BY <1>2, <1>3, <3>1, <3>2, <3>3
  <2>2. ASSUME rec.state = "none", done = "none", stream[e].delivered >= MaxDelivery
        PROVE  /\ \E d \in DOMAIN stream' : Accounted(d)'
               /\ \A k \in Handlers : Has(k)' /\ hs'[k].pc = "ack" =>
                    /\ resume' = TRUE /\ claim' # hs'[k].e
                    /\ \E d \in DOMAIN stream' \ {hs'[k].e} : Accounted(d)'
                    /\ \A m \in Handlers : Has(m)' /\ hs'[m].pc = "ack" => m = k
    <3>1. \A d \in 1 .. Len(stream) : Accounted(d) => Accounted(d)'
      BY <1>2, <2>2 DEF Accounted
    <3>2. \A k \in Handlers : Has(k) => hs[k].e # 0
      BY <1>3 DEF Has
    <3> QED
      BY <1>1, <1>2, <1>3, <2>2, <3>1, <3>2 DEF Kept
  <2> QED
    BY <1>1, <2>1, <2>2 DEF Kept
<1>7. Paid'
  <2>1. rec.gen \in 0 .. MaxGen
    BY DEF Types, RecordSet
  <2> QED
    BY <1>1, <1>2, <1>3, <2>1 DEF Paid
<1> QED
  BY <1>2, <1>4, <1>5, <1>6, <1>7 DEF Safe


(* The event is parked, and its entry acknowledged in the same script.     *)
LEMMA ParkKeeps ==
  ASSUME Types, Safe, NEW h \in Handlers, hs[h].pc = "park", MayPark(h),
         Retired(hs[h].e), rec'.state = "waiting", rec'.gen = rec.gen + 1, rec'.wake = rec.wake,
         resume' = resume
  PROVE  Safe'
<1>1. Leases /\ Generations /\ Copies /\ Kept /\ Paid
  BY DEF Safe
<1>2. Busy(h) /\ Has(h)
  BY DEF Busy, Has, MayPark
<1>3. /\ Len(stream) \in Nat /\ DOMAIN stream = 1 .. Len(stream)
      /\ \A k \in Handlers : Busy(k) => hs[k].e \in 1 .. Len(stream)
      /\ \A d \in 1 .. Len(stream) : stream[d].gen \in 0 .. MaxGen
      /\ \A k \in Handlers : hs[k].gen \in 0 .. MaxGen
  BY <1>1, Queue
<1> DEFINE e == hs[h].e
<1>4. e \in 1 .. Len(stream) /\ stream[e].row = "pending"
  BY <1>2, <1>3 DEF MayPark, Mine
<1> HIDE DEF e
<1>5. Retired(e)
  BY DEF e
<1>6. /\ Leases' /\ Places' /\ Duplicates'
      /\ Len(stream') = Len(stream) /\ DOMAIN stream' = 1 .. Len(stream)
      /\ stream'[e].row = "acked"
      /\ \A d \in 1 .. Len(stream) : stream'[d].gen = stream[d].gen
      /\ \A d \in 1 .. Len(stream) : d # e => stream'[d] = stream[d]
      /\ claim' \in 0 .. Len(stream)
      /\ \A k \in Handlers : Busy(k)' => /\ hs'[k] = hs[k] /\ Busy(k)
                                         /\ Mine(k)'.gen = Mine(k).gen
      /\ \A k \in Handlers : Has(k)' => hs'[k] = hs[k] /\ Has(k) /\ hs[k].e # e
      /\ Cardinality(Acked') = Cardinality(Acked) + 1 /\ Cardinality(Acked) \in Nat
  BY <1>4, <1>5, RetiredQueue
<1>7. rec.gen \in 0 .. MaxGen /\ resume \in BOOLEAN /\ MaxGen \in Nat
  BY WaitAssumption DEF Types, RecordSet, PlainTypes, MaxGen
<1>8. Generations'
  <2>1. \A d \in 1 .. Len(stream) : stream'[d].gen <= rec.gen
    BY <1>1, <1>3, <1>6 DEF Generations
  <2>2. \A k \in Handlers : Busy(k)' =>
           /\ hs'[k].gen <= rec.gen
           /\ hs'[k].gen = Mine(k)'.gen \/ (resume = TRUE /\ Mine(k)'.gen = 0)
    BY <1>1, <1>6 DEF Generations
  <2>3. /\ rec.wake \in 0 .. Len(stream)
        /\ Len(stream) >= 1 /\ (resume = TRUE => Len(stream) >= 2)
        /\ \A d \in 1 .. Len(stream) : stream'[d].gen = 0 => d = 1 \/ (resume = TRUE /\ d = 2)
    BY <1>1, <1>3, <1>6 DEF Generations
  <2>4. /\ \A d \in 1 .. Len(stream) : stream'[d].gen <= rec.gen + 1 /\ stream'[d].gen # rec.gen + 1
        /\ \A k \in Handlers : Busy(k)' => hs'[k].gen <= rec.gen + 1
    BY <1>3, <1>6, <1>7, <2>1, <2>2
  <2>5. rec.gen + 1 # 0
    BY <1>7
  <2>6. /\ Len(stream') = Len(stream) /\ DOMAIN stream' = 1 .. Len(stream)
        /\ claim' \in 0 .. Len(stream)
    BY <1>6
  <2> QED
    BY <2>2, <2>3, <2>4, <2>5, <2>6 DEF Generations
<1>9. Copies'
  <2> SUFFICES ASSUME resume = FALSE
               PROVE  /\ stream'[1].row = "acked"
                      /\ \A k \in Handlers : ~(Has(k)' /\ hs'[k].pc \in Running /\ hs'[k].gen # 0)
    BY DEF Copies
  <2>1. 1 \in 1 .. Len(stream)
    BY <1>1, <1>3 DEF Generations
  <2>2. stream'[1].row = "acked"
    <3>1. CASE rec.state = "none"
      <4>1. Mine(h).gen = 0
        BY <1>1, <1>2, <3>1 DEF Generations, MayPark
      <4>2. e = 1
        BY <1>1, <1>3, <1>4, <4>1 DEF Generations, Mine, e
      <4> QED
        BY <1>6, <4>2
    <3>2. CASE rec.state # "none"
      <4>1. stream[1].row = "acked"
        BY <1>1, <3>2 DEF Copies
      <4> QED
        BY <1>6, <2>1, <4>1
    <3> QED
      BY <3>1, <3>2
  <2>3. ASSUME NEW k \in Handlers, Has(k)', hs'[k].pc \in Running, hs'[k].gen # 0
        PROVE  FALSE
    <3>1. Has(k) /\ hs'[k] = hs[k] /\ hs[k].e # e
      BY <1>6, <2>3
    <3>2. rec.wake = hs[k].e /\ rec.state # "waiting"
      BY <1>1, <2>3, <3>1 DEF Copies
    <3>3. rec.state # "none"
      BY <1>1, <1>3, <2>3, <3>1 DEF Generations, Has
    <3>4. hs[h].gen = rec.gen /\ rec.gen # 0 /\ hs[h].pc \in Running
      BY <1>1, <3>3 DEF MayPark, Generations, Running
    <3>5. rec.wake = e
      BY <1>1, <1>2, <3>4 DEF Copies, e
    <3> QED
      BY <3>1, <3>2, <3>5
  <2> QED
    BY <2>2, <2>3
<1>10. Kept'
  BY DEF Kept
<1>11. Paid'
  <2>1. ~WakeGone'
    BY DEF WakeGone
  <2>2. rec.gen <= Len(stream) + Cardinality(Acked)
    BY <1>1, <1>3, <1>6, <1>7 DEF Paid
  <2> QED
    BY <1>3, <1>6, <1>7, <2>1, <2>2 DEF Paid
<1> QED
  BY <1>6, <1>8, <1>9, <1>10, <1>11 DEF Safe

(* A wake appends a copy of the event.                                     *)
LEMMA AppendKeeps ==
  ASSUME Types, Safe, NEW b \in BOOLEAN, stream' = Appended(rec.gen + 1, b), Len(stream) < MaxEntry,
         rec.state = "waiting" \/ (rec.state \in {"woken", "active"} /\ ~OnStream),
         rec'.state = "woken", rec'.gen = rec.gen + 1, rec'.wake = Len(stream) + 1, fly' >= 0,
         UNCHANGED <<resume, hs, claim>>
  PROVE  QueueTypes' /\ Safe' /\ rec.gen + 1 \in 0 .. MaxGen
<1>1. Leases /\ Generations /\ Places /\ Copies /\ Duplicates /\ Kept /\ Paid
  BY DEF Safe
<1>2. /\ Len(stream) \in Nat /\ DOMAIN stream = 1 .. Len(stream)
      /\ \A k \in Handlers : Busy(k) => hs[k].e \in 1 .. Len(stream)
      /\ \A d \in 1 .. Len(stream) : stream[d].gen \in 0 .. MaxGen
      /\ \A k \in Handlers : hs[k].gen \in 0 .. MaxGen
  BY <1>1, Queue
<1>3. /\ rec.gen \in 0 .. MaxGen /\ MaxGen \in Nat /\ MaxGen = 2 * MaxEntry /\ MaxEntry \in Nat
      /\ MaxDelivery \in Nat /\ resume \in BOOLEAN
  BY WaitAssumption DEF Types, RecordSet, PlainTypes, MaxGen
<1>4. IsFiniteSet(Acked) /\ Cardinality(Acked) \in Nat /\ Cardinality(Acked) <= Len(stream)
  BY <1>1, AckedFinite
<1>5. rec.gen <= Len(stream) + Cardinality(Acked)
  BY <1>1, <1>2, <1>3, <1>4 DEF Paid
<1>6. rec.gen + 1 \in 0 .. MaxGen
  BY <1>2, <1>3, <1>4, <1>5
<1> DEFINE r == Entry(rec.gen + 1, b)
<1>7. /\ r.gen = rec.gen + 1 /\ r.row = "unread" /\ r.delivered = 0 /\ r.lease = None
      /\ r \in EntrySet
  BY <1>3, <1>6 DEF Entry, EntrySet
<1>8. stream' = Append(stream, r) /\ stream \in Seq(EntrySet)
  BY DEF Appended, Types, QueueTypes
<1> HIDE DEF r
<1>9. /\ stream' \in Seq(EntrySet) /\ Len(stream') = Len(stream) + 1
      /\ \A d \in 1 .. Len(stream) : stream'[d] = stream[d]
      /\ stream'[Len(stream) + 1] = r
  BY <1>7, <1>8, AppendProperties
<1>10. DOMAIN stream' = 1 .. (Len(stream) + 1)
  BY <1>9, LenProperties
<1>11. QueueTypes'
  BY <1>2, <1>3, <1>9 DEF QueueTypes, Types
<1>12. \A d \in DOMAIN stream' : d \in 1 .. Len(stream) \/ d = Len(stream) + 1
  BY <1>2, <1>10
<1>13. \A k \in Handlers : /\ hs'[k] = hs[k] /\ (Busy(k)' <=> Busy(k))
                           /\ Busy(k) => Mine(k)' = Mine(k)
                           /\ Has(k)' <=> Has(k)
  BY <1>2, <1>9 DEF Busy, Mine, Has, Lost
<1>14. Leases'
  BY <1>1, <1>2, <1>7, <1>9, <1>10, <1>12, <1>13 DEF Leases
<1>15. Generations'
  <2>1. \A d \in 1 .. Len(stream) : stream'[d].gen <= rec.gen + 1 /\ stream'[d].gen # rec.gen + 1
    BY <1>1, <1>2, <1>3, <1>9 DEF Generations
  <2>2. \A d \in 1 .. Len(stream) : stream'[d].gen = 0 => d = 1 \/ (resume = TRUE /\ d = 2)
    BY <1>1, <1>2, <1>9 DEF Generations
  <2>3. \A d \in DOMAIN stream' :
           /\ stream'[d].gen <= rec.gen + 1
           /\ stream'[d].gen = rec.gen + 1 => d = Len(stream) + 1
           /\ stream'[d].gen = 0 => d = 1 \/ (resume = TRUE /\ d = 2)
    BY <1>3, <1>7, <1>9, <1>12, <2>1, <2>2
  <2>4. \A k \in Handlers : Busy(k)' =>
           /\ hs'[k].gen <= rec.gen + 1
           /\ hs'[k].gen = Mine(k)'.gen \/ (resume = TRUE /\ Mine(k)'.gen = 0)
    BY <1>1, <1>2, <1>3, <1>13 DEF Generations
  <2>5. /\ Len(stream) + 1 \in 0 .. Len(stream') /\ claim' \in 0 .. Len(stream')
        /\ Len(stream') >= 1 /\ (resume = TRUE => Len(stream') >= 2)
        /\ rec.gen + 1 # 0 /\ Len(stream) + 1 # 0
    BY <1>1, <1>2, <1>3, <1>9 DEF Generations
  <2> QED
    BY <2>3, <2>4, <2>5 DEF Generations
<1>16. Places'
  BY <1>1, <1>13 DEF Places
<1>17. Copies'
  <2>1. 1 \in 1 .. Len(stream)
    BY <1>1, <1>2 DEF Generations
  <2>2. resume = FALSE => stream'[1].row = "acked"
    BY <1>1, <1>9, <2>1 DEF Copies
  <2>3. ASSUME resume = FALSE, NEW k \in Handlers, Has(k), hs[k].pc \in Running, hs[k].gen # 0
        PROVE  FALSE
    <3>1. rec.wake = hs[k].e /\ rec.state # "waiting"
      BY <1>1, <2>3 DEF Copies
    <3>2. Mine(k).row = "pending"
      BY <1>1, <2>3, HasPending
    <3> QED
      BY <3>1, <3>2 DEF OnStream, Mine
  <2> QED
    BY <1>13, <2>2, <2>3 DEF Copies
<1>18. Duplicates'
  BY <1>1, <1>13 DEF Duplicates, Has
<1>19. Kept'
  BY DEF Kept
<1>20. Paid'
  <2>1. Acked' = Acked
    BY <1>2, <1>7, <1>9, <1>10, <1>12 DEF Acked
  <2>2. Len(stream) + 1 \notin Acked
    BY <1>2 DEF Acked
  <2>3. ~WakeGone'
    BY <2>1, <2>2 DEF WakeGone
  <2> QED
    BY <1>2, <1>3, <1>4, <1>5, <1>9, <2>1, <2>3 DEF Paid
<1> QED
  BY <1>6, <1>11, <1>14, <1>15, <1>16, <1>17, <1>18, <1>19, <1>20 DEF Safe


(* The state of a handler is changed.                                      *)
LEMMA HandlerStep ==
  ASSUME Types, NEW h \in Handlers, NEW s \in HandlerSet, hs' = [hs EXCEPT ![h] = s]
  PROVE  /\ hs' \in [Handlers -> HandlerSet] /\ hs'[h] = s
         /\ \A k \in Handlers : k # h => hs'[k] = hs[k]
BY DEF Types, QueueTypes

(* The claim is taken: nobody else worked under it.                        *)
LEMMA ClaimKeeps ==
  ASSUME Types, Safe, NEW h \in Handlers, hs[h].pc \in {"claim", "claimWake"}, Has(h),
         ~Claimed(hs[h].e), claim' = hs[h].e,
         hs' = [hs EXCEPT ![h].pc = IF @ = "claim" THEN "prepare" ELSE "run"],
         UNCHANGED <<resume, stream, rec, fly, done>>
  PROVE  QueueTypes' /\ Safe'
<1>1. Leases /\ Generations /\ Places /\ Copies /\ Duplicates /\ Kept /\ Paid
  BY DEF Safe
<1>2. /\ Len(stream) \in Nat /\ Len(stream) <= MaxEntry /\ DOMAIN stream = 1 .. Len(stream)
      /\ \A k \in Handlers : Busy(k) => hs[k].e \in 1 .. Len(stream)
      /\ \A k \in Handlers : hs[k] \in HandlerSet /\ hs[k].gen \in 0 .. MaxGen
  BY <1>1, Queue
<1>3. resume = TRUE /\ hs[h].e \in 1 .. Len(stream)
  BY <1>1, <1>2 DEF Places, Has
<1>4. ASSUME NEW s \in HandlerSet, NEW p \in {"prepare", "run"}
      PROVE  /\ [s EXCEPT !.pc = p] \in HandlerSet /\ [s EXCEPT !.pc = p].pc = p
             /\ [s EXCEPT !.pc = p].e = s.e /\ [s EXCEPT !.pc = p].gen = s.gen
  BY DEF HandlerSet, Steps, Running
<1> DEFINE p == IF hs[h].pc = "claim" THEN "prepare" ELSE "run"
<1>5. p \in {"prepare", "run"} /\ hs' = [hs EXCEPT ![h] = [hs[h] EXCEPT !.pc = p]]
  OBVIOUS
<1>6. (p = "prepare" => hs[h].pc = "claim") /\ (p = "run" => hs[h].pc = "claimWake")
  OBVIOUS
<1> HIDE DEF p
<1>7. /\ hs' \in [Handlers -> HandlerSet] /\ hs'[h].pc = p
      /\ hs'[h].e = hs[h].e /\ hs'[h].gen = hs[h].gen
      /\ \A k \in Handlers : k # h => hs'[k] = hs[k]
  <2> DEFINE s == [hs[h] EXCEPT !.pc = p]
  <2>1. s \in HandlerSet /\ s.pc = p /\ s.e = hs[h].e /\ s.gen = hs[h].gen
    <3>1. hs[h] \in HandlerSet /\ p \in {"prepare", "run"}
      BY <1>2, <1>5
    <3> QED
      BY <3>1, <1>4, Zenon
  <2>2. hs' = [hs EXCEPT ![h] = s]
    BY <1>5
  <2> HIDE DEF s
  <2> QED
    BY <2>1, <2>2, HandlerStep
<1>8. QueueTypes'
  BY <1>2, <1>3, <1>7, WaitAssumption DEF QueueTypes, Types
<1>9. \A k \in Handlers : /\ Busy(k)' <=> Busy(k)
                          /\ Busy(k) => Mine(k)' = Mine(k) /\ hs'[k].e = hs[k].e
                                        /\ hs'[k].gen = hs[k].gen
                          /\ Has(k)' <=> Has(k)
  BY <1>5, <1>7 DEF Busy, Mine, Has, Lost
<1>10. Leases'
  BY <1>1, <1>9 DEF Leases
<1>11. Generations'
  <2>1. claim' \in 0 .. Len(stream)
    BY <1>3
  <2> QED
    BY <1>1, <1>9, <2>1 DEF Generations
<1>12. Places'
  <2>1. ASSUME NEW k \in Handlers, k # h, Busy(k)'
        PROVE  hs'[k] = hs[k] /\ Busy(k)
    BY <1>7, <1>9, <2>1
  <2>2. /\ hs[h].gen = 0 => hs[h].pc = "claim"
        /\ hs[h].gen # 0 => hs[h].pc = "claimWake"
    BY <1>1 DEF Places, Has
  <2> QED
    BY <1>1, <1>3, <1>5, <1>6, <1>7, <2>1, <2>2 DEF Places
<1>13. Copies'
  BY <1>3 DEF Copies
<1>14. Duplicates'
  <2> SUFFICES ASSUME NEW k \in Handlers, k # h, Has(k)',
                      \/ hs'[k].pc \in Running \cup {"prepare"}
                      \/ hs'[k].pc = "check" /\ Mine(k)'.gen = 0
               PROVE  FALSE
    BY <1>7 DEF Duplicates
  <2>1. Has(k) /\ hs'[k] = hs[k] /\ Mine(k)' = Mine(k)
    BY <1>7, <1>9 DEF Has
  <2>2. claim = hs[k].e
    BY <1>1, <1>3, <2>1 DEF Duplicates
  <2>3. hs[k].e # hs[h].e /\ hs[k].e \in 1 .. Len(stream) /\ Mine(k).row = "pending"
    BY <1>1, <2>1, OwnEntry, HasPending
  <2> QED
    BY <2>2, <2>3 DEF Claimed, Mine
<1>15. Kept'
  <2>1. ASSUME NEW k \in Handlers, Has(k)', hs'[k].pc = "ack"
        PROVE  /\ Has(k) /\ hs'[k] = hs[k] /\ hs[k].pc = "ack" /\ claim' # hs[k].e
    BY <1>5, <1>7, <1>9, <2>1, OwnEntry DEF Has
  <2>2. \A d \in DOMAIN stream : Accounted(d)' <=> Accounted(d)
    BY DEF Accounted
  <2> QED
    BY <1>1, <2>1, <2>2 DEF Kept
<1>16. Paid'
  BY <1>1 DEF Paid, WakeGone, Acked
<1> QED
  BY <1>8, <1>10, <1>11, <1>12, <1>13, <1>14, <1>15, <1>16 DEF Safe

(* A wait whose wake was lost is adopted, or the wake was this entry.       *)
LEMMA AdoptKeeps ==
  ASSUME Types, Safe, NEW h \in Handlers, hs[h].pc = "prepare", Has(h),
         rec.state \in {"waiting", "woken", "active"},
         \/ rec' = rec
         \/ ~Retained(hs[h].e) /\ rec' = [rec EXCEPT !.gen = @ + 1, !.wake = hs[h].e],
         rec'.wake = hs[h].e,
         hs' = [hs EXCEPT ![h].pc = "check", ![h].gen = rec'.gen],
         UNCHANGED <<resume, stream, claim, fly, done>>
  PROVE  QueueTypes' /\ rec' \in RecordSet /\ Safe'
<1>1. Leases /\ Generations /\ Places /\ Copies /\ Duplicates /\ Kept /\ Paid
  BY DEF Safe
<1>2. /\ Len(stream) \in Nat /\ Len(stream) <= MaxEntry /\ DOMAIN stream = 1 .. Len(stream)
      /\ \A k \in Handlers : Busy(k) => hs[k].e \in 1 .. Len(stream)
      /\ \A k \in Handlers : hs[k] \in HandlerSet /\ hs[k].gen \in 0 .. MaxGen
      /\ \A d \in 1 .. Len(stream) : stream[d].gen \in 0 .. MaxGen
  BY <1>1, Queue
<1>3. /\ resume = TRUE /\ hs[h].e \in 1 .. Len(stream) /\ hs[h].gen = 0 /\ Mine(h).gen = 0
      /\ Mine(h).row = "pending" /\ claim = hs[h].e
  <2>1. resume = TRUE /\ hs[h].gen = 0
    BY <1>1 DEF Places, Has
  <2>2. hs[h].e \in 1 .. Len(stream) /\ Mine(h).row = "pending"
    BY <1>1, HasPending
  <2>3. Mine(h).gen = 0
    BY <1>1, <2>1 DEF Generations, Has
  <2> QED
    BY <1>1, <2>1, <2>2, <2>3 DEF Duplicates
<1>4. /\ rec \in RecordSet /\ rec.gen \in 0 .. MaxGen /\ MaxGen \in Nat
      /\ MaxGen = 2 * MaxEntry /\ MaxEntry \in Nat
  BY WaitAssumption DEF Types, RecordSet, MaxGen
<1>5. Cardinality(Acked) \in Nat /\ Cardinality(Acked) <= Len(stream)
  BY <1>1, AckedFinite
<1>6. Acked' = Acked /\ hs[h].e \notin Acked
  BY <1>3 DEF Acked, Mine
<1>7. rec' = rec \/ (WakeGone /\ rec' = [rec EXCEPT !.gen = @ + 1, !.wake = hs[h].e])
  <2>1. ASSUME ~Retained(hs[h].e)
        PROVE  WakeGone
    <3>1. rec.state \in {"woken", "active"}
      BY <2>1 DEF Retained
    <3>2. rec.wake # 0 /\ rec.wake \in 1 .. Len(stream)
      BY <1>1, <1>2, <3>1 DEF Generations
    <3>3. stream[rec.wake].row = "acked"
      BY <2>1, <3>2 DEF Retained
    <3> QED
      BY <1>2, <3>1, <3>2, <3>3 DEF WakeGone, Acked
  <2> QED
    BY <2>1
<1>8. /\ rec'.state = rec.state
      /\ rec'.gen = rec.gen \/ (WakeGone /\ rec'.gen = rec.gen + 1)
      /\ rec'.gen = rec.gen => rec.wake = hs[h].e
  <2>1. CASE rec' = rec
    BY <2>1
  <2>2. CASE WakeGone /\ rec' = [rec EXCEPT !.gen = @ + 1, !.wake = hs[h].e]
    <3>1. rec'.state = rec.state /\ rec'.gen = rec.gen + 1
      BY <1>4, <2>2 DEF RecordSet
    <3> QED
      BY <1>4, <2>2, <3>1
  <2> QED
    BY <1>7, <2>1, <2>2
<1>9. rec'.gen \in 0 .. MaxGen /\ rec.gen <= rec'.gen /\ rec'.gen # 0
  <2>1. WakeGone => rec.gen + 1 <= Len(stream) + Cardinality(Acked)
    BY <1>1 DEF Paid
  <2>2. rec.gen # 0
    BY <1>1 DEF Generations
  <2> QED
    BY <1>2, <1>4, <1>5, <1>8, <2>1, <2>2
<1>10. rec' \in RecordSet
  <2>1. ASSUME NEW g \in 0 .. MaxGen, NEW w \in 0 .. MaxEntry
        PROVE  [rec EXCEPT !.gen = g, !.wake = w] \in RecordSet
    BY <1>4 DEF RecordSet
  <2>2. CASE rec' = rec
    BY <1>4, <2>2
  <2>3. CASE rec' = [rec EXCEPT !.gen = @ + 1, !.wake = hs[h].e]
    <3>1. rec.gen + 1 \in 0 .. MaxGen
      BY <1>4, <1>9, <2>3 DEF RecordSet
    <3>2. hs[h].e \in 0 .. MaxEntry
      BY <1>2, <1>3, <1>4
    <3> QED
      BY <2>1, <2>3, <3>1, <3>2
  <2> QED
    BY <1>7, <2>2, <2>3
<1>11. /\ hs' \in [Handlers -> HandlerSet] /\ hs'[h].pc = "check" /\ hs'[h].gen = rec'.gen
       /\ hs'[h].e = hs[h].e
       /\ \A k \in Handlers : k # h => hs'[k] = hs[k]
  <2>1. PICK g \in 0 .. MaxGen : g = rec'.gen
    BY <1>9
  <2> DEFINE s == [hs[h] EXCEPT !.pc = "check", !.gen = g]
  <2>2. hs[h] \in HandlerSet
    BY <1>2
  <2>3. s \in HandlerSet /\ s.pc = "check" /\ s.gen = g /\ s.e = hs[h].e
    BY <2>2 DEF HandlerSet, Steps
  <2>4. hs' = [hs EXCEPT ![h] = s]
    BY <2>1
  <2> HIDE DEF s
  <2> QED
    BY <2>1, <2>3, <2>4, HandlerStep
<1>12. QueueTypes'
  BY <1>11 DEF QueueTypes, Types
<1>13. \A k \in Handlers : /\ Busy(k)' <=> Busy(k)
                           /\ Busy(k) => Mine(k)' = Mine(k) /\ hs'[k].e = hs[k].e
                           /\ Has(k)' <=> Has(k)
  BY <1>11 DEF Busy, Mine, Has, Lost
<1>14. Leases'
  BY <1>1, <1>13 DEF Leases
<1>15. Generations'
  <2>1. ASSUME NEW d \in 1 .. Len(stream)
        PROVE  /\ stream[d].gen <= rec'.gen
               /\ stream[d].gen = rec'.gen => hs[h].e = d
    <3>1. stream[d].gen <= rec.gen /\ (stream[d].gen = rec.gen /\ rec.gen # 0 => rec.wake = d)
      BY <1>1, <1>2 DEF Generations
    <3> QED
      BY <1>2, <1>4, <1>8, <1>9, <3>1
  <2>2. ASSUME NEW k \in Handlers, Busy(k)
        PROVE  /\ hs'[k].gen <= rec'.gen
               /\ hs'[k].gen = Mine(k)'.gen \/ (resume = TRUE /\ Mine(k)'.gen = 0)
    <3>1. CASE k = h
      BY <1>3, <1>4, <1>9, <1>11, <1>13, <2>2, <3>1
    <3>2. CASE k # h
      <4>1. hs[k].gen <= rec.gen /\ (hs[k].gen = Mine(k).gen \/ (resume = TRUE /\ Mine(k).gen = 0))
        BY <1>1, <2>2 DEF Generations
      <4> QED
        BY <1>2, <1>4, <1>9, <1>11, <1>13, <2>2, <3>2, <4>1
    <3> QED
      BY <3>1, <3>2
  <2>3. rec'.wake \in 0 .. Len(stream) /\ rec'.wake # 0
    BY <1>2, <1>3
  <2>4. /\ claim \in 0 .. Len(stream) /\ Len(stream) >= 1 /\ (resume = TRUE => Len(stream) >= 2)
        /\ \A d \in 1 .. Len(stream) : stream[d].gen = 0 => d = 1 \/ (resume = TRUE /\ d = 2)
    BY <1>1, <1>2 DEF Generations
  <2> QED
    BY <1>2, <1>8, <1>9, <1>13, <2>1, <2>2, <2>3, <2>4 DEF Generations
<1>16. Places'
  BY <1>1, <1>9, <1>11, <1>13 DEF Places
<1>17. Copies'
  BY <1>3 DEF Copies
<1>18. Duplicates'
  BY <1>1, <1>3, <1>11, <1>13 DEF Duplicates, Has
<1>19. Kept'
  BY <1>1, <1>8 DEF Kept
<1>20. Paid'
  <2>1. CASE rec' = rec
    BY <1>1, <1>6, <2>1 DEF Paid, WakeGone
  <2>2. CASE WakeGone /\ rec' = [rec EXCEPT !.gen = @ + 1, !.wake = hs[h].e]
    <3>1. ~WakeGone'
      BY <1>6 DEF WakeGone
    <3>2. rec'.gen = rec.gen + 1
      BY <1>4, <2>2 DEF RecordSet
    <3>3. rec.gen + 1 <= Len(stream) + Cardinality(Acked)
      BY <1>1, <2>2 DEF Paid
    <3> QED
      BY <1>2, <1>4, <1>5, <1>6, <3>1, <3>2, <3>3 DEF Paid
  <2> QED
    BY <1>7, <2>1, <2>2
<1> QED
  BY <1>10, <1>12, <1>14, <1>15, <1>16, <1>17, <1>18, <1>19, <1>20 DEF Safe


(***************************************************************************)
(* The steps of a handler, by what they do with its entry.                  *)
(***************************************************************************)
LEMMA LoosenedStep ==
  ASSUME Types, Safe, Calm, Loosened
  PROVE  QueueTypes' /\ Safe'
<1>1. Safe'
  BY LoosenedKeeps
<1>2. claim' \in 0 .. MaxEntry
  BY WaitAssumption DEF Loosened, Types, QueueTypes
<1> QED
  BY <1>1, <1>2 DEF Loosened, QueueTypes, Types

LEMMA IdleTyped == Idle \in HandlerSet
BY WaitAssumption DEF Idle, HandlerSet, Steps, Causes, States, MaxGen

(* The lease of entry e is given up.                                       *)
LEMMA Unleased ==
  ASSUME Types, Leases, NEW e \in 1 .. Len(stream),
         stream' = [stream EXCEPT ![e].lease = None]
  PROVE  /\ stream' \in Seq(EntrySet) /\ Len(stream') = Len(stream)
         /\ stream'[e].lease = None
         /\ \A d \in 1 .. Len(stream) :
              SameRow(d) /\ stream'[d].lease \in {stream[d].lease, None}
<1> DEFINE r == [stream[e] EXCEPT !.lease = None]
<1>1. stream[e] \in EntrySet
  BY Queue
<1>2. ASSUME NEW q \in EntrySet
      PROVE  /\ [q EXCEPT !.lease = None] \in EntrySet
             /\ [q EXCEPT !.lease = None].lease = None
             /\ [q EXCEPT !.lease = None].gen = q.gen
             /\ [q EXCEPT !.lease = None].row = q.row
             /\ [q EXCEPT !.lease = None].delivered = q.delivered
  BY DEF EntrySet
<1>3. /\ r \in EntrySet /\ r.lease = None /\ r.gen = stream[e].gen /\ r.row = stream[e].row
      /\ r.delivered = stream[e].delivered
  BY <1>1, <1>2
<1>4. stream' = [stream EXCEPT ![e] = r]
  OBVIOUS
<1> HIDE DEF r
<1>5. /\ stream' \in Seq(EntrySet) /\ Len(stream') = Len(stream) /\ stream'[e] = r
      /\ \A d \in 1 .. Len(stream) : d # e => stream'[d] = stream[d]
  BY <1>3, <1>4, Updated
<1> QED
  BY <1>3, <1>5 DEF SameRow

LEMMA DropStep ==
  ASSUME Types, Safe, Calm, NEW h \in Handlers, Busy(h), Drop(h)
  PROVE  QueueTypes' /\ Safe'
<1>1. Leases
  BY DEF Safe
<1>2. hs[h].e \in 1 .. Len(stream)
  BY <1>1, Queue
<1>3. /\ hs' = [hs EXCEPT ![h] = Idle]
      /\ stream' = IF Lost(h) THEN stream ELSE [stream EXCEPT ![hs[h].e].lease = None]
      /\ claim' = IF claim = hs[h].e /\ ~Lost(h) THEN 0 ELSE claim
  BY DEF Drop, End
<1>4. hs' \in [Handlers -> HandlerSet] /\ \A k \in Handlers : hs'[k] = hs[k] \/ hs'[k] = Idle
  BY <1>3, HandlerStep, IdleTyped
<1>5. CASE Lost(h)
  <2>1. stream' = stream /\ claim' = claim /\ stream \in Seq(EntrySet)
    BY <1>3, <1>5 DEF Types, QueueTypes
  <2>2. Loosened
    BY <1>4, <2>1 DEF Loosened, SameRow
  <2> QED
    BY <2>2, LoosenedStep
<1>6. CASE ~Lost(h)
  <2>1. /\ stream' \in Seq(EntrySet) /\ Len(stream') = Len(stream)
        /\ stream'[hs[h].e].lease = None
        /\ \A d \in 1 .. Len(stream) :
             SameRow(d) /\ stream'[d].lease \in {stream[d].lease, None}
    BY <1>1, <1>2, <1>3, <1>6, Unleased
  <2>2. Loosened
    BY <1>3, <1>4, <2>1 DEF Loosened
  <2> QED
    BY <2>2, LoosenedStep
<1> QED
  BY <1>5, <1>6

LEMMA ExpireStep ==
  ASSUME Types, Safe, Calm, NEW e \in DOMAIN stream, Expire(e), hs' = hs
  PROVE  QueueTypes' /\ Safe'
<1>1. Leases /\ hs \in [Handlers -> HandlerSet]
  BY DEF Safe, Types, QueueTypes
<1>2. e \in 1 .. Len(stream)
  BY <1>1, Queue
<1>3. /\ stream' \in Seq(EntrySet) /\ Len(stream') = Len(stream)
      /\ stream'[e].lease = None
      /\ \A d \in 1 .. Len(stream) :
           SameRow(d) /\ stream'[d].lease \in {stream[d].lease, None}
  BY <1>1, <1>2, Unleased DEF Expire
<1>4. Loosened
  BY <1>1, <1>3 DEF Loosened, Expire
<1> QED
  BY <1>4, LoosenedStep

(* Neither the entries nor their leases change.                            *)
LEMMA SameQueueStep ==
  ASSUME Types, Safe, Calm, UNCHANGED <<stream, claim>>,
         hs' = hs \/ \E h \in Handlers : hs' = [hs EXCEPT ![h] = Idle]
  PROVE  QueueTypes' /\ Safe'
<1>1. stream \in Seq(EntrySet) /\ hs \in [Handlers -> HandlerSet]
  BY DEF Types, QueueTypes
<1>2. hs' \in [Handlers -> HandlerSet] /\ \A k \in Handlers : hs'[k] = hs[k] \/ hs'[k] = Idle
  <2>1. CASE hs' = hs
    BY <1>1, <2>1
  <2>2. ASSUME NEW h \in Handlers, hs' = [hs EXCEPT ![h] = Idle]
        PROVE  hs' \in [Handlers -> HandlerSet] /\ \A k \in Handlers : hs'[k] = hs[k] \/ hs'[k] = Idle
    BY <2>2, HandlerStep, IdleTyped
  <2> QED
    BY <2>1, <2>2
<1>3. Loosened
  BY <1>1, <1>2 DEF Loosened, SameRow
<1> QED
  BY <1>3, LoosenedStep

(* Where handler h may go.                                                 *)
Onward(h, step) ==
    /\ step \in Steps \ {"idle", "claim", "prepare", "check"}
    /\ hs[h].gen = 0 => step \in {"run", "park", "ack"}
    /\ step \in {"claimWake", "adopt"} => resume = TRUE
    /\ step \in Running /\ Has(h) =>
         \/ hs[h].pc \in Running \cup {"prepare"}
         \/ /\ resume = FALSE => rec.wake = hs[h].e /\ rec.state # "waiting"
            /\ resume = TRUE => claim = hs[h].e
    /\ step = "ack" /\ Has(h) =>
         \/ rec.state # "none" \/ done' # "none"
         \/ resume = TRUE /\ Claimed(hs[h].e)

AtGate == {"grant", "admit", "resolve", "confirm", "turn"}

LEMMA MoveStep ==
  ASSUME Types, Safe, Calm, NEW h \in Handlers, Busy(h), UNCHANGED qVars,
         NEW s \in HandlerSet, hs' = [hs EXCEPT ![h] = s], s.e = hs[h].e, s.gen = hs[h].gen,
         Onward(h, s.pc), s.pc \in AtGate => s.epoch \in Epochs
  PROVE  QueueTypes' /\ Safe'
<1>1. /\ hs' \in [Handlers -> HandlerSet] /\ hs'[h] = s
      /\ \A k \in Handlers : k # h => hs'[k] = hs[k]
  BY HandlerStep
<1>2. Moved(h)
  BY <1>1 DEF Moved, Onward
<1>3. Placed(h)
  BY <1>1 DEF Placed, Onward, AtGate
<1>4. Entitled(h)
  <2>1. ASSUME resume = FALSE, Has(h), s.pc \in Running, hs[h].gen # 0
        PROVE  rec.wake = hs[h].e /\ rec.state # "waiting"
    <3>1. CASE hs[h].pc \in Running
      BY <2>1, <3>1 DEF Safe, Copies
    <3>2. CASE hs[h].pc = "prepare"
      BY <2>1, <3>2 DEF Safe, Places, Has
    <3> QED
      BY <2>1, <3>1, <3>2 DEF Onward
  <2>2. ASSUME resume = TRUE, Has(h), s.pc \in Running
        PROVE  claim = hs[h].e
    BY <2>2 DEF Safe, Duplicates, Onward
  <2>3. s.pc # "check"
    BY DEF Onward
  <2>4. s.pc = "ack" /\ Has(h) =>
          rec.state # "none" \/ done' # "none" \/ (resume = TRUE /\ Claimed(hs[h].e))
    BY DEF Onward
  <2> QED
    BY <1>1, <2>1, <2>2, <2>3, <2>4 DEF Entitled
<1>5. Safe'
  BY <1>2, <1>3, <1>4, MovedKeeps
<1> QED
  BY <1>1, <1>5 DEF QueueTypes, Types, qVars

LEMMA GoStep ==
  ASSUME Types, Safe, Calm, NEW h \in Handlers, Busy(h), NEW step, Go(h, step),
         Onward(h, step), step \in AtGate => hs[h].epoch \in Epochs
  PROVE  QueueTypes' /\ Safe'
<1> DEFINE s == [hs[h] EXCEPT !.pc = step]
<1>1. hs[h] \in HandlerSet /\ step \in Steps
  BY DEF Types, QueueTypes, Onward
<1>2. ASSUME NEW q \in HandlerSet, NEW p \in Steps
      PROVE  /\ [q EXCEPT !.pc = p] \in HandlerSet /\ [q EXCEPT !.pc = p].pc = p
             /\ [q EXCEPT !.pc = p].e = q.e /\ [q EXCEPT !.pc = p].gen = q.gen
             /\ [q EXCEPT !.pc = p].epoch = q.epoch
  BY DEF HandlerSet
<1>3. /\ s \in HandlerSet /\ s.pc = step /\ s.e = hs[h].e /\ s.gen = hs[h].gen
      /\ s.epoch = hs[h].epoch
  BY <1>1, <1>2, Zenon
<1>4. hs' = [hs EXCEPT ![h] = s] /\ UNCHANGED qVars
  BY DEF Go
<1> HIDE DEF s
<1>5. Onward(h, s.pc) /\ (s.pc \in AtGate => s.epoch \in Epochs)
  BY <1>3
<1> QED
  BY <1>3, <1>4, <1>5, MoveStep

LEMMA HeldStep ==
  ASSUME Types, Safe, Calm, NEW h \in Handlers, Busy(h), NEW step, Held(h, step),
         Onward(h, step), step \in AtGate => hs[h].epoch \in Epochs
  PROVE  QueueTypes' /\ Safe'
BY GoStep, DropStep DEF Held


(***************************************************************************)
(* One lemma per action.                                                   *)
(***************************************************************************)

(* The types, put together again.                                          *)
LEMMA TypesStep ==
  ASSUME QueueTypes', rec' \in RecordSet, TimeTypes', RunnerTypes', NoticeTypes', PlainTypes'
  PROVE  Types'
BY DEF Types

LEMMA FaultTyped ==
  ASSUME Types, Fault \/ UNCHANGED faults
  PROVE  faults' \in 0 .. MaxFault
BY WaitAssumption DEF Types, PlainTypes, Fault

(* Neither the record nor its settlement changes.                          *)
LEMMA CalmSame ==
  ASSUME Safe, UNCHANGED <<resume, rec, fly, done>>
  PROVE  Calm
BY DEF Safe, Kept, Calm, Mild

LEMMA TakeStep ==
  ASSUME Types, Safe, NEW h \in Handlers, Take(h)
  PROVE  Types' /\ Safe'
<1>1. Leases
  BY DEF Safe
<1>2. CASE Read(h)
  <2>1. PICK e \in DOMAIN stream : stream[e].row = "unread" /\ Deliver(h, e)
    BY <1>2 DEF Read
  <2>2. stream[e].lease = None /\ stream[e].delivered < MaxDelivery
    BY <1>1, <2>1, WaitAssumption DEF Leases
  <2> QED
    BY <1>2, <2>1, <2>2, DeliverKeeps DEF Read
<1>3. CASE Reclaim(h)
  <2>1. PICK e \in DOMAIN stream : /\ stream[e].row = "pending" /\ stream[e].lease = None
                                   /\ WithinCap(e) /\ Deliver(h, e)
    BY <1>3 DEF Reclaim
  <2> QED
    BY <1>3, <2>1, DeliverKeeps DEF Reclaim, WithinCap
<1> QED
  BY <1>2, <1>3 DEF Take

LEMMA DeadLetterStep ==
  ASSUME Types, Safe, DeadLetter
  PROVE  Types' /\ Safe'
<1>1. Leases
  BY DEF Safe
<1>2. PICK e \in DOMAIN stream :
         /\ stream[e].row = "pending" /\ stream[e].lease = None /\ ~WithinCap(e)
         /\ stream' = [stream EXCEPT ![e].row = "acked"]
  BY DEF DeadLetter
<1>3. /\ e \in 1 .. Len(stream) /\ stream[e] \in EntrySet
      /\ stream[e].delivered \in 0 .. MaxDelivery /\ MaxDelivery \in Nat
  BY <1>1, Queue, WaitAssumption
<1>4. UNCHANGED <<resume, rec, left, due, fly, claim, hs, adm, note, lock, done, started, told, shown, faults>>
  BY DEF DeadLetter, tVars, nVars, xVars
<1>5. ASSUME NEW q \in EntrySet, q.lease = None
      PROVE  [q EXCEPT !.row = "acked"] = [q EXCEPT !.row = "acked", !.lease = None]
  BY <1>5 DEF EntrySet
<1>6. Retired(e)
  <2>1. stream' = [stream EXCEPT ![e] = [stream[e] EXCEPT !.row = "acked"]]
    BY <1>2
  <2>2. stream' = [stream EXCEPT ![e] = [stream[e] EXCEPT !.row = "acked", !.lease = None]]
    BY <1>2, <1>3, <1>5, <2>1
  <2> QED
    BY <1>4, <2>2 DEF Retired, Types, QueueTypes
<1>7. stream[e].delivered >= MaxDelivery /\ stream[e].row # "acked"
  BY <1>2, <1>3 DEF WithinCap
<1>8. QueueTypes'
  BY <1>3, <1>4, <1>6, <1>7, RetiredQueue
<1>9. Safe'
  BY <1>3, <1>4, <1>6, <1>7, RetiredKeeps
<1> QED
  BY <1>4, <1>8, <1>9 DEF Types, TimeTypes, RunnerTypes, NoticeTypes, PlainTypes

LEMMA LoseLeaseStep ==
  ASSUME Types, Safe, NEW h \in Handlers, LoseLease(h)
  PROVE  Types' /\ Safe'
<1>1. UNCHANGED <<resume, rec, left, due, fly, hs, adm, note, lock, done, started, told, shown>>
  BY DEF LoseLease, tVars, nVars, xVars
<1>2. hs[h].e \in DOMAIN stream /\ Expire(hs[h].e)
  BY DEF LoseLease, Safe, Leases, Busy
<1>3. QueueTypes' /\ Safe'
  BY <1>1, <1>2, CalmSame, ExpireStep
<1>4. faults' \in 0 .. MaxFault
  BY FaultTyped DEF LoseLease
<1> QED
  BY <1>1, <1>3, <1>4 DEF Types, TimeTypes, RunnerTypes, NoticeTypes, PlainTypes

LEMMA LeaseExpiresStep ==
  ASSUME Types, Safe, LeaseExpires
  PROVE  Types' /\ Safe'
<1>1. UNCHANGED <<resume, rec, left, due, fly, hs, adm, note, lock, done, started, told, shown, faults>>
  BY DEF LeaseExpires, tVars, nVars, xVars
<1>2. PICK e \in DOMAIN stream : Expire(e)
  BY DEF LeaseExpires
<1>3. QueueTypes' /\ Safe'
  BY <1>1, <1>2, CalmSame, ExpireStep
<1> QED
  BY <1>1, <1>3 DEF Types, TimeTypes, RunnerTypes, NoticeTypes, PlainTypes

LEMMA CrashStep ==
  ASSUME Types, Safe, NEW h \in Handlers, Crash(h)
  PROVE  Types' /\ Safe'
<1>1. UNCHANGED <<resume, stream, claim, rec, left, due, fly, adm, note, lock, done, started, told, shown>>
  BY DEF Crash, qVars, tVars, nVars, xVars
<1>2. hs' = [hs EXCEPT ![h] = Idle]
  BY DEF Crash
<1>3. QueueTypes' /\ Safe'
  BY <1>1, <1>2, CalmSame, SameQueueStep
<1>4. faults' \in 0 .. MaxFault
  BY FaultTyped DEF Crash
<1> QED
  BY <1>1, <1>3, <1>4 DEF Types, TimeTypes, RunnerTypes, NoticeTypes, PlainTypes

(* A step of a handler that leaves the record alone and settles nothing.   *)
LEMMA PlainStep ==
  ASSUME Types, Safe, NEW h \in Handlers, Busy(h),
         UNCHANGED <<resume, rec, tVars, adm, nVars, done, xVars>>, Fault \/ UNCHANGED faults,
         \/ Drop(h)
         \/ \E step \in Steps : /\ Go(h, step) \/ Held(h, step)
                                /\ Onward(h, step) /\ (step \in AtGate => hs[h].epoch \in Epochs)
  PROVE  Types' /\ Safe'
<1>1. UNCHANGED <<resume, rec, left, due, fly, adm, note, lock, done, started, told, shown>>
  BY DEF tVars, nVars, xVars
<1>2. Calm
  BY <1>1, CalmSame
<1>3. QueueTypes' /\ Safe'
  BY <1>2, DropStep, GoStep, HeldStep
<1>4. faults' \in 0 .. MaxFault
  BY FaultTyped
<1> QED
  BY <1>1, <1>3, <1>4 DEF Types, TimeTypes, RunnerTypes, NoticeTypes, PlainTypes


LEMMA ClaimResumeStep ==
  ASSUME Types, Safe, NEW h \in Handlers, ClaimResume(h)
  PROVE  Types' /\ Safe'
<1>1. UNCHANGED <<resume, rec, tVars, adm, nVars, done, xVars, faults>>
  BY DEF ClaimResume
<1>2. Busy(h) /\ hs[h].pc \in {"claim", "claimWake"}
  BY DEF ClaimResume, Busy
<1>3. CASE Drop(h)
  BY <1>1, <1>2, <1>3, PlainStep
<1>4. CASE ~Drop(h) /\ Claimed(hs[h].e)
  <2>1. ~Lost(h) /\ hs[h].pc = "claim" /\ Go(h, "ack")
    BY <1>2, <1>4 DEF ClaimResume
  <2>2. resume = TRUE
    BY <1>2 DEF Safe, Places
  <2>3. Onward(h, "ack") /\ "ack" \in Steps /\ "ack" \notin AtGate
    BY <1>4, <2>2 DEF Onward, Steps, Running, AtGate
  <2> QED
    BY <1>1, <1>2, <2>1, <2>3, PlainStep
<1>5. CASE ~Drop(h) /\ ~Claimed(hs[h].e)
  <2>1. /\ ~Lost(h) /\ claim' = hs[h].e /\ UNCHANGED stream
        /\ hs' = [hs EXCEPT ![h].pc = IF @ = "claim" THEN "prepare" ELSE "run"]
    BY <1>5 DEF ClaimResume
  <2>2. UNCHANGED <<resume, rec, left, due, fly, adm, note, lock, done, started, told, shown, faults>>
    BY <1>1 DEF tVars, nVars, xVars
  <2>3. QueueTypes' /\ Safe'
    BY <1>2, <1>5, <2>1, <2>2, ClaimKeeps DEF Has
  <2> QED
    BY <2>2, <2>3 DEF Types, TimeTypes, RunnerTypes, NoticeTypes, PlainTypes
<1> QED
  BY <1>3, <1>4, <1>5

LEMMA PrepareResumeStep ==
  ASSUME Types, Safe, NEW h \in Handlers, PrepareResume(h)
  PROVE  Types' /\ Safe'
<1>1. UNCHANGED <<resume, tVars, adm, nVars, done, xVars, faults>>
  BY DEF PrepareResume
<1>2. Busy(h) /\ hs[h].pc = "prepare"
  BY DEF PrepareResume, Busy
<1>3. CASE Lost(h) /\ Drop(h) /\ UNCHANGED rec
  BY <1>1, <1>2, <1>3, PlainStep
<1>4. CASE ~Lost(h) /\ Go(h, "run") /\ UNCHANGED rec
  <2>1. Onward(h, "run") /\ "run" \in Steps /\ "run" \notin AtGate
    BY <1>2 DEF Onward, Steps, Running, AtGate
  <2> QED
    BY <1>1, <1>2, <1>4, <2>1, PlainStep
<1>5. CASE /\ ~Lost(h) /\ rec.state \in {"waiting", "woken", "active"}
           /\ rec' = Adopted(hs[h].e)
           /\ IF rec'.wake # hs[h].e
                THEN Go(h, "ack")
                ELSE /\ hs' = [hs EXCEPT ![h].pc = "check", ![h].gen = rec'.gen]
                     /\ UNCHANGED qVars
  <2>1. CASE rec'.wake # hs[h].e
    <3>1. rec \in RecordSet
      BY DEF Types
    <3>2. rec' = rec
      BY <1>5, <2>1, <3>1 DEF Adopted, RecordSet
    <3>3. Onward(h, "ack") /\ "ack" \in Steps /\ "ack" \notin AtGate
      BY <1>2, <1>5 DEF Onward, Steps, Running, AtGate
    <3> QED
      BY <1>1, <1>2, <1>5, <2>1, <3>2, <3>3, PlainStep
  <2>2. CASE rec'.wake = hs[h].e
    <3>1. rec' = rec \/ (~Retained(hs[h].e) /\ rec' = [rec EXCEPT !.gen = @ + 1, !.wake = hs[h].e])
      BY <1>5 DEF Adopted
    <3>2. /\ hs' = [hs EXCEPT ![h].pc = "check", ![h].gen = rec'.gen]
          /\ UNCHANGED <<stream, claim>> /\ Has(h)
      BY <1>2, <1>5, <2>2 DEF qVars, Has
    <3>3. UNCHANGED <<resume, left, due, fly, adm, note, lock, done, started, told, shown, faults>>
      BY <1>1 DEF tVars, nVars, xVars
    <3>4. rec.state \in {"waiting", "woken", "active"}
      BY <1>5
    <3>5. QueueTypes' /\ rec' \in RecordSet /\ Safe'
      BY <1>2, <2>2, <3>1, <3>2, <3>3, <3>4, AdoptKeeps
    <3> QED
      BY <3>3, <3>5 DEF Types, TimeTypes, RunnerTypes, NoticeTypes, PlainTypes
  <2> QED
    BY <2>1, <2>2
<1> QED
  BY <1>3, <1>4, <1>5 DEF PrepareResume

LEMMA StatusKinds ==
  ASSUME NEW gen, CheckDelivery(gen) # "stale"
  PROVE  rec.gen = gen /\ rec.state \in {"woken", "active"}
BY DEF CheckDelivery

LEMMA CheckWaitStep ==
  ASSUME Types, Safe, NEW h \in Handlers, CheckWait(h)
  PROVE  Types' /\ Safe'
<1>1. UNCHANGED <<resume, rec, tVars, adm, nVars, done, xVars, faults>>
  BY DEF CheckWait
<1>2. Busy(h) /\ hs[h].pc = "check"
  BY DEF CheckWait, Busy
<1>3. Leases /\ Generations /\ Places /\ Duplicates /\ resume \in BOOLEAN
  BY DEF Safe, Types, PlainTypes
<1>4. hs[h].gen # 0 /\ hs[h].gen \in 0 .. MaxGen /\ rec.gen \in 0 .. MaxGen
  BY <1>2, <1>3, Queue DEF Places, Types, RecordSet
<1>5. hs[h].e \in DOMAIN stream
  BY <1>2, <1>3 DEF Leases
<1> DEFINE status == CheckDelivery(hs[h].gen)
<1> HIDE DEF status
<1>6. CASE Drop(h)
  BY <1>1, <1>2, <1>6, PlainStep
<1>7. CASE status = "stale" /\ Held(h, "ack")
  <2>1. rec.state # "none"
    BY <1>2, <1>3, <1>4 DEF Generations
  <2>2. Onward(h, "ack") /\ "ack" \in Steps /\ "ack" \notin AtGate
    BY <1>4, <2>1 DEF Onward, Steps, Running, AtGate
  <2> QED
    BY <1>1, <1>2, <1>7, <2>2, PlainStep
<1>8. CASE Go(h, "get")
  <2>1. Onward(h, "get") /\ "get" \in Steps /\ "get" \notin AtGate
    BY <1>4 DEF Onward, Steps, Running, AtGate
  <2> QED
    BY <1>1, <1>2, <1>8, <2>1, PlainStep
<1>9. CASE Go(h, "expire")
  <2>1. Onward(h, "expire") /\ "expire" \in Steps /\ "expire" \notin AtGate
    BY <1>4 DEF Onward, Steps, Running, AtGate
  <2> QED
    BY <1>1, <1>2, <1>9, <2>1, PlainStep
<1>10. CASE resume = TRUE /\ Held(h, "claimWake")
  <2>1. Onward(h, "claimWake") /\ "claimWake" \in Steps /\ "claimWake" \notin AtGate
    BY <1>4, <1>10 DEF Onward, Steps, Running, AtGate
  <2> QED
    BY <1>1, <1>2, <1>10, <2>1, PlainStep
<1>11. CASE Mine(h).gen = 0 /\ Go(h, "adopt")
  <2>1. resume = TRUE
    BY <1>2, <1>3, <1>4, <1>11 DEF Generations
  <2>2. Has(h) => claim = hs[h].e
    BY <1>2, <1>3, <1>11, <2>1 DEF Duplicates
  <2>3. Onward(h, "adopt") /\ "adopt" \in Steps /\ "adopt" \notin AtGate
    BY <1>4, <2>1, <2>2 DEF Onward, Steps, Running, AtGate
  <2> QED
    BY <1>1, <1>2, <1>11, <2>3, PlainStep
<1>12. CASE resume = FALSE /\ status # "stale" /\ Go(h, "run")
  <2>1. rec.gen = hs[h].gen /\ rec.state \in {"woken", "active"}
    BY <1>12, StatusKinds DEF status
  <2>2. Mine(h).gen = rec.gen
    BY <1>2, <1>3, <1>12, <2>1 DEF Generations
  <2>3. rec.wake = hs[h].e
    BY <1>3, <1>4, <1>5, <2>1, <2>2 DEF Generations, Mine
  <2>4. Onward(h, "run") /\ "run" \in Steps /\ "run" \notin AtGate
    BY <1>4, <1>12, <2>1, <2>3 DEF Onward, Steps, Running, AtGate
  <2> QED
    BY <1>1, <1>2, <1>12, <2>4, PlainStep
<1>13. \/ Drop(h) \/ (status = "stale" /\ Held(h, "ack")) \/ Go(h, "get") \/ Go(h, "expire")
       \/ (resume = TRUE /\ Held(h, "claimWake")) \/ (Mine(h).gen = 0 /\ Go(h, "adopt"))
       \/ (resume = FALSE /\ status # "stale" /\ Go(h, "run"))
  <2>1. CASE resume = TRUE
    BY <2>1 DEF CheckWait, status
  <2>2. CASE resume = FALSE
    BY <2>2 DEF CheckWait, status
  <2> QED
    BY <1>3, <2>1, <2>2
<1> QED
  BY <1>6, <1>7, <1>8, <1>9, <1>10, <1>11, <1>12, <1>13

(* What the runner is told, and answers.                                   *)
LEMMA QuiescedTyped ==
  ASSUME Types, NEW n \in Epochs \cup {0}
  PROVE  Quiesced(n) \in [Epochs -> Decisions]
<1>1. adm \in [Epochs -> Decisions]
  BY DEF Types, RunnerTypes
<1>2. CASE n = 0
  BY <1>1, <1>2 DEF Quiesced
<1>3. CASE n # 0
  <2>1. Decision(n) \in Decisions
    BY <1>1, <1>3 DEF Decision, Decisions
  <2> QED
    BY <1>1, <1>3, <2>1 DEF Quiesced
<1> QED
  BY <1>2, <1>3

(* The same for a step that reaches the runner.                            *)
LEMMA RunnerStep ==
  ASSUME Types, Safe, NEW h \in Handlers, Busy(h), RunnerTypes',
         UNCHANGED <<resume, rec, tVars, nVars, done, told, shown>>, Fault \/ UNCHANGED faults,
         \/ Drop(h)
         \/ \E step \in Steps : /\ Go(h, step) \/ Held(h, step)
                                /\ Onward(h, step) /\ (step \in AtGate => hs[h].epoch \in Epochs)
  PROVE  Types' /\ Safe'
<1>1. UNCHANGED <<resume, rec, left, due, fly, note, lock, done, told, shown>>
  BY DEF tVars, nVars
<1>2. Calm
  BY <1>1, CalmSame
<1>3. QueueTypes' /\ Safe'
  BY <1>2, DropStep, GoStep, HeldStep
<1>4. faults' \in 0 .. MaxFault
  BY FaultTyped
<1> QED
  BY <1>1, <1>3, <1>4 DEF Types, TimeTypes, NoticeTypes, PlainTypes

LEMMA StopAdoptedStep ==
  ASSUME Types, Safe, NEW h \in Handlers, StopAdopted(h)
  PROVE  Types' /\ Safe'
<1>1. Busy(h) /\ hs[h].pc = "adopt" /\ hs[h].gen # 0
  BY DEF StopAdopted, Busy, Safe, Places
<1>2. UNCHANGED <<resume, rec, tVars, nVars, done, told, shown>> /\ UNCHANGED started
  BY DEF StopAdopted, xVars
<1>3. Onward(h, "run") /\ "run" \in Steps /\ "run" \notin AtGate
  BY <1>1 DEF Onward, Steps, Running, AtGate
<1>4. CASE adm' = Quiesced(rec.epoch) /\ Go(h, "run") /\ UNCHANGED faults
  <2>1. rec.epoch \in Epochs \cup {0}
    BY DEF Types, RecordSet
  <2>2. RunnerTypes'
    BY <1>2, <1>4, <2>1, QuiescedTyped DEF Types, RunnerTypes
  <2> QED
    BY <1>1, <1>2, <1>3, <1>4, <2>2, RunnerStep
<1>5. CASE Fault /\ Drop(h) /\ UNCHANGED adm
  <2>1. RunnerTypes'
    BY <1>2, <1>5 DEF Types, RunnerTypes
  <2> QED
    BY <1>1, <1>2, <1>5, <2>1, RunnerStep
<1> QED
  BY <1>4, <1>5 DEF StopAdopted


LEMMA SkipDoneStep ==
  ASSUME Types, Safe, NEW h \in Handlers, SkipDone(h)
  PROVE  Types' /\ Safe'
<1>1. Busy(h) /\ hs[h].pc = "run" /\ done # "none" /\ done' = done
  BY DEF SkipDone, Busy
<1>2. UNCHANGED <<resume, rec, tVars, adm, nVars, done, xVars, faults>>
  BY DEF SkipDone
<1>3. CASE hs[h].gen = 0
  <2>1. Held(h, "ack")
    BY <1>3 DEF SkipDone
  <2>2. Onward(h, "ack") /\ "ack" \in Steps /\ "ack" \notin AtGate
    BY <1>1 DEF Onward, Steps, Running, AtGate
  <2> QED
    BY <1>1, <1>2, <2>1, <2>2, PlainStep
<1>4. CASE hs[h].gen # 0
  <2>1. Held(h, "get")
    BY <1>4 DEF SkipDone
  <2>2. Onward(h, "get") /\ "get" \in Steps /\ "get" \notin AtGate
    BY <1>1, <1>4 DEF Onward, Steps, Running, AtGate
  <2> QED
    BY <1>1, <1>2, <2>1, <2>2, PlainStep
<1> QED
  BY <1>3, <1>4

LEMMA NoCapacityStep ==
  ASSUME Types, Safe, NEW h \in Handlers, NoCapacity(h)
  PROVE  Types' /\ Safe'
<1>1. Busy(h) /\ hs[h].pc = "run" /\ Held(h, "park")
  BY DEF NoCapacity, Busy
<1>2. UNCHANGED <<resume, rec, tVars, adm, nVars, done, xVars, faults>>
  BY DEF NoCapacity
<1>3. Onward(h, "park") /\ "park" \in Steps /\ "park" \notin AtGate
  BY <1>1 DEF Onward, Steps, Running, AtGate
<1> QED
  BY <1>1, <1>2, <1>3, PlainStep

LEMMA FailStep ==
  ASSUME Types, Safe, NEW h \in Handlers, Fail(h)
  PROVE  Types' /\ Safe'
<1>1. Busy(h) /\ Drop(h) /\ (Fault \/ UNCHANGED faults)
  BY DEF Fail, Busy
<1>2. UNCHANGED <<resume, rec, tVars, adm, nVars, done, xVars>>
  BY DEF Fail
<1> QED
  BY <1>1, <1>2, PlainStep

LEMMA WaitOverStep ==
  ASSUME Types, Safe, NEW h \in Handlers, WaitOver(h)
  PROVE  Types' /\ Safe'
<1>1. Busy(h) /\ hs[h].gen # 0 /\ (Drop(h) \/ Go(h, "expire"))
  BY DEF WaitOver, Busy
<1>2. UNCHANGED <<resume, rec, tVars, adm, nVars, done, xVars, faults>>
  BY DEF WaitOver
<1>3. Onward(h, "expire") /\ "expire" \in Steps /\ "expire" \notin AtGate
  BY <1>1 DEF Onward, Steps, Running, AtGate
<1> QED
  BY <1>1, <1>2, <1>3, PlainStep

LEMMA OpenTurnStep ==
  ASSUME Types, Safe, NEW h \in Handlers, OpenTurn(h)
  PROVE  Types' /\ Safe'
<1>1. Busy(h) /\ hs[h].pc = "run" /\ hs[h].gen # 0 /\ hs[h] \in HandlerSet
  BY DEF OpenTurn, Busy, Types, QueueTypes
<1>2. UNCHANGED <<resume, stream, claim, rec, left, due, fly, note, lock, done, started, told, shown, faults>>
  BY DEF OpenTurn, qVars, tVars, nVars, xVars
<1>3. PICK n \in Epochs : /\ adm' = [adm EXCEPT ![n] = "pending"]
                          /\ hs' = [hs EXCEPT ![h].pc = "grant", ![h].epoch = n]
  BY DEF OpenTurn
<1>4. ASSUME NEW q \in HandlerSet
      PROVE  /\ [q EXCEPT !.pc = "grant", !.epoch = n] \in HandlerSet
             /\ [q EXCEPT !.pc = "grant", !.epoch = n].pc = "grant"
             /\ [q EXCEPT !.pc = "grant", !.epoch = n].epoch = n
             /\ [q EXCEPT !.pc = "grant", !.epoch = n].e = q.e
             /\ [q EXCEPT !.pc = "grant", !.epoch = n].gen = q.gen
  BY DEF HandlerSet, Steps, Running
<1> DEFINE s == [hs[h] EXCEPT !.pc = "grant", !.epoch = n]
<1>5. s \in HandlerSet /\ s.pc = "grant" /\ s.epoch = n /\ s.e = hs[h].e /\ s.gen = hs[h].gen
  BY <1>1, <1>4, Zenon
<1>6. hs' = [hs EXCEPT ![h] = s]
  BY <1>3
<1> HIDE DEF s
<1>7. Onward(h, "grant")
  BY <1>1 DEF Onward, Steps, Running
<1>8. Calm /\ UNCHANGED qVars
  BY <1>2, CalmSame DEF qVars
<1>9. Onward(h, s.pc) /\ (s.pc \in AtGate => s.epoch \in Epochs)
  BY <1>5, <1>7
<1>10. QueueTypes' /\ Safe'
  BY <1>1, <1>5, <1>6, <1>8, <1>9, MoveStep
<1>11. RunnerTypes'
  BY <1>2, <1>3 DEF Types, RunnerTypes, Decisions
<1> QED
  BY <1>2, <1>10, <1>11 DEF Types, TimeTypes, NoticeTypes, PlainTypes

(* A step that changes the record mildly.                                  *)
LEMMA MildStep ==
  ASSUME Types, Safe, NEW h \in Handlers, Busy(h), RunnerTypes', rec' \in RecordSet, Mild,
         UNCHANGED <<resume, tVars, nVars, done, xVars>>, Fault \/ UNCHANGED faults,
         \/ Drop(h)
         \/ \E step \in Steps : /\ Go(h, step) \/ Held(h, step)
                                /\ Onward(h, step) /\ (step \in AtGate => hs[h].epoch \in Epochs)
  PROVE  Types' /\ Safe'
<1>1. UNCHANGED <<resume, left, due, fly, note, lock, done, started, told, shown>>
  BY DEF tVars, nVars, xVars
<1>2. Calm
  BY <1>1 DEF Calm, Mild, Safe, Kept
<1>3. QueueTypes' /\ Safe'
  BY <1>2, DropStep, GoStep, HeldStep
<1>4. faults' \in 0 .. MaxFault
  BY FaultTyped
<1> QED
  BY <1>1, <1>3, <1>4 DEF Types, TimeTypes, NoticeTypes, PlainTypes

(* What a grant writes.                                                    *)
LEMMA GrantTyped ==
  ASSUME NEW r \in RecordSet, NEW n \in Epochs
  PROVE  /\ [r EXCEPT !.state = "active", !.epoch = n, !.confirmed = FALSE,
                      !.unknown = FALSE] \in RecordSet
         /\ [r EXCEPT !.state = "active", !.epoch = n, !.confirmed = FALSE,
                      !.unknown = FALSE].gen = r.gen
         /\ [r EXCEPT !.state = "active", !.epoch = n, !.confirmed = FALSE,
                      !.unknown = FALSE].wake = r.wake
         /\ [r EXCEPT !.state = "active", !.epoch = n, !.confirmed = FALSE,
                      !.unknown = FALSE].state = "active"
BY DEF RecordSet, States

LEMMA DoubtedTyped ==
  ASSUME Types, NEW h \in Handlers, NEW n
  PROVE  /\ Doubted(h, n) \in RecordSet
         /\ Doubted(h, n).state = rec.state /\ Doubted(h, n).gen = rec.gen
         /\ Doubted(h, n).wake = rec.wake
<1>1. rec \in RecordSet
  BY DEF Types
<1>2. ASSUME NEW r \in RecordSet
      PROVE  /\ [r EXCEPT !.unknown = TRUE] \in RecordSet
             /\ [r EXCEPT !.unknown = TRUE].state = r.state
             /\ [r EXCEPT !.unknown = TRUE].gen = r.gen
             /\ [r EXCEPT !.unknown = TRUE].wake = r.wake
  BY DEF RecordSet
<1>3. Doubted(h, n) = rec \/ Doubted(h, n) = [rec EXCEPT !.unknown = TRUE]
  BY DEF Doubted
<1> QED
  BY <1>1, <1>2, <1>3

LEMMA ConfirmedTyped ==
  ASSUME Types, NEW h \in Handlers, NEW n
  PROVE  /\ Confirmed(h, n) \in RecordSet
         /\ Confirmed(h, n).state = rec.state /\ Confirmed(h, n).gen = rec.gen
         /\ Confirmed(h, n).wake = rec.wake
<1>1. rec \in RecordSet /\ rec.cause \in Causes
  BY DEF Types, RecordSet
<1>2. ASSUME NEW r \in RecordSet, NEW c \in Causes
      PROVE  /\ [r EXCEPT !.confirmed = TRUE, !.ever = TRUE, !.unknown = FALSE, !.cause = c] \in RecordSet
             /\ [r EXCEPT !.confirmed = TRUE, !.ever = TRUE, !.unknown = FALSE, !.cause = c].state = r.state
             /\ [r EXCEPT !.confirmed = TRUE, !.ever = TRUE, !.unknown = FALSE, !.cause = c].gen = r.gen
             /\ [r EXCEPT !.confirmed = TRUE, !.ever = TRUE, !.unknown = FALSE, !.cause = c].wake = r.wake
  BY DEF RecordSet
<1> DEFINE c == IF rec.state = "woken" THEN "delivery_exhausted" ELSE rec.cause
<1>3. c \in Causes
  BY <1>1 DEF Causes
<1>4. \/ Confirmed(h, n) = rec
      \/ Confirmed(h, n) = [rec EXCEPT !.confirmed = TRUE, !.ever = TRUE, !.unknown = FALSE, !.cause = c]
  BY DEF Confirmed
<1> HIDE DEF c
<1> QED
  BY <1>1, <1>2, <1>3, <1>4

LEMMA BeginGrantStep ==
  ASSUME Types, Safe, NEW h \in Handlers, BeginGrant(h)
  PROVE  Types' /\ Safe'
<1>1. Busy(h) /\ hs[h].pc = "grant"
  BY DEF BeginGrant, Busy
<1>2. hs[h].gen # 0 /\ hs[h].epoch \in Epochs
  BY <1>1 DEF Safe, Places
<1>3. UNCHANGED <<resume, tVars, nVars, done, xVars>> /\ UNCHANGED started
  BY DEF BeginGrant, xVars
<1>4. CASE MayGrant(h)
  <2>1. /\ rec' = [rec EXCEPT !.state = "active", !.epoch = hs[h].epoch,
                              !.confirmed = FALSE, !.unknown = FALSE]
        /\ Held(h, "admit") /\ UNCHANGED <<adm, faults>>
    BY <1>4 DEF BeginGrant
  <2>2. rec \in RecordSet
    BY DEF Types
  <2>3. rec' \in RecordSet /\ Mild
    <3>1. /\ rec' \in RecordSet /\ rec'.gen = rec.gen /\ rec'.wake = rec.wake
          /\ rec'.state = "active"
      BY <1>2, <2>1, <2>2, GrantTyped
    <3> QED
      BY <1>4, <3>1 DEF Mild, MayGrant
  <2>4. Onward(h, "admit") /\ "admit" \in Steps
    BY <1>1, <1>2 DEF Onward, Steps, Running
  <2>5. RunnerTypes'
    BY <1>3, <2>1 DEF Types, RunnerTypes
  <2> QED
    BY <1>1, <1>2, <1>3, <2>1, <2>3, <2>4, <2>5, MildStep
<1>5. CASE ~MayGrant(h)
  <2>1. /\ StopOrNot(hs[h].epoch) /\ UNCHANGED rec
        /\ Go(h, "expire") \/ Drop(h)
    BY <1>5 DEF BeginGrant
  <2>2. RunnerTypes' /\ (Fault \/ UNCHANGED faults)
    BY <1>2, <1>3, <2>1, QuiescedTyped DEF Types, RunnerTypes, StopOrNot
  <2>3. Onward(h, "expire") /\ "expire" \in Steps /\ "expire" \notin AtGate
    BY <1>2 DEF Onward, Steps, Running, AtGate
  <2>4. UNCHANGED <<told, shown>>
    BY <1>3 DEF xVars
  <2> QED
    BY <1>1, <1>3, <2>1, <2>2, <2>3, <2>4, RunnerStep
<1> QED
  BY <1>4, <1>5

LEMMA AdmitStep ==
  ASSUME Types, Safe, NEW h \in Handlers, Admit(h)
  PROVE  Types' /\ Safe'
<1>1. Busy(h) /\ hs[h].pc = "admit"
  BY DEF Admit, Busy
<1>2. hs[h].gen # 0 /\ hs[h].epoch \in Epochs
  BY <1>1 DEF Safe, Places
<1>3. UNCHANGED <<resume, rec, tVars, nVars, done, told, shown>>
  BY DEF Admit
<1>4. RunnerTypes' /\ (Fault \/ UNCHANGED faults)
  <2>1. adm \in [Epochs -> Decisions] /\ started \subseteq Epochs
    BY DEF Types, RunnerTypes
  <2>2. [adm EXCEPT ![hs[h].epoch] = "granted"] \in [Epochs -> Decisions]
    BY <1>2, <2>1 DEF Decisions
  <2>3. \/ adm' = [adm EXCEPT ![hs[h].epoch] = "granted"] /\ started' = started \cup {hs[h].epoch}
        \/ UNCHANGED <<adm, started>>
    BY DEF Admit
  <2> QED
    BY <1>2, <2>1, <2>2, <2>3 DEF RunnerTypes, Admit
<1>5. Held(h, "confirm") \/ Go(h, "resolve")
  BY DEF Admit
<1>6. Onward(h, "confirm") /\ Onward(h, "resolve") /\ "confirm" \in Steps /\ "resolve" \in Steps
  BY <1>1, <1>2 DEF Onward, Steps, Running
<1> QED
  BY <1>1, <1>2, <1>3, <1>4, <1>5, <1>6, RunnerStep


LEMMA ResolveAdmitStep ==
  ASSUME Types, Safe, NEW h \in Handlers, ResolveAdmit(h)
  PROVE  Types' /\ Safe'
<1>1. Busy(h) /\ hs[h].pc = "resolve"
  BY DEF ResolveAdmit, Busy
<1>2. hs[h].gen # 0 /\ hs[h].epoch \in Epochs
  BY <1>1 DEF Safe, Places
<1>3. UNCHANGED <<resume, tVars, nVars, done, xVars>> /\ UNCHANGED started
  BY DEF ResolveAdmit, xVars
<1> DEFINE n == hs[h].epoch
<1>4. CASE Held(h, "confirm") /\ UNCHANGED <<rec, adm, faults>>
  <2>1. Onward(h, "confirm") /\ "confirm" \in Steps
    BY <1>1, <1>2 DEF Onward, Steps, Running
  <2>2. RunnerTypes' /\ UNCHANGED <<told, shown>>
    BY <1>3, <1>4 DEF Types, RunnerTypes, xVars
  <2> QED
    BY <1>1, <1>2, <1>3, <1>4, <2>1, <2>2, RunnerStep
<1>5. CASE adm' = Quiesced(n) /\ rec' = Recorded(h, n) /\ Drop(h) /\ (Fault \/ UNCHANGED faults)
  <2>1. RunnerTypes'
    BY <1>2, <1>3, <1>5, QuiescedTyped DEF Types, RunnerTypes
  <2>2. rec' = rec \/ rec' = Confirmed(h, n) \/ rec' = Doubted(h, n)
    BY <1>5 DEF Recorded
  <2>3. rec' \in RecordSet /\ Mild
    BY <2>2, ConfirmedTyped, DoubtedTyped DEF Mild, Types
  <2> QED
    BY <1>1, <1>3, <1>5, <2>1, <2>3, MildStep
<1>6. CASE Fault /\ UNCHANGED adm /\ rec' = Doubted(h, n) /\ Drop(h)
  <2>1. RunnerTypes'
    BY <1>3, <1>6 DEF Types, RunnerTypes
  <2>2. rec' \in RecordSet /\ Mild
    BY <1>6, DoubtedTyped DEF Mild
  <2> QED
    BY <1>1, <1>3, <1>6, <2>1, <2>2, MildStep
<1> QED
  BY <1>4, <1>5, <1>6 DEF ResolveAdmit

LEMMA ConfirmGrantStep ==
  ASSUME Types, Safe, NEW h \in Handlers, ConfirmGrant(h)
  PROVE  Types' /\ Safe'
<1>1. Busy(h) /\ hs[h].pc = "confirm"
  BY DEF ConfirmGrant, Busy
<1>2. hs[h].gen # 0 /\ hs[h].epoch \in Epochs
  BY <1>1 DEF Safe, Places
<1>3. UNCHANGED <<resume, tVars, nVars, done, xVars>> /\ UNCHANGED started
  BY DEF ConfirmGrant, xVars
<1>4. rec' \in RecordSet /\ Mild
  BY ConfirmedTyped DEF ConfirmGrant, Mild
<1>5. \/ Go(h, "turn") /\ UNCHANGED <<adm, faults>>
      \/ Drop(h) /\ StopOrNot(hs[h].epoch)
  BY DEF ConfirmGrant
<1>6. RunnerTypes' /\ (Fault \/ UNCHANGED faults)
  BY <1>2, <1>3, <1>5, QuiescedTyped DEF Types, RunnerTypes, StopOrNot
<1>7. Onward(h, "turn") /\ "turn" \in Steps
  BY <1>1, <1>2 DEF Onward, Steps, Running
<1> QED
  BY <1>1, <1>2, <1>3, <1>4, <1>5, <1>6, <1>7, MildStep

(* A step that settles the event, or finds it cannot.                      *)
LEMMA SettleStep ==
  ASSUME Types, Safe, NEW h \in Handlers, Busy(h), NEW step \in Steps,
         UNCHANGED <<resume, rec, tVars, adm, nVars, started, told, faults>>,
         done' \in {"none", "answer", "expiry"}, shown' \in {"none", "queued", "answer", "expiry"},
         \/ Drop(h) /\ UNCHANGED done
         \/ Go(h, step) /\ done' # "none" /\ Onward(h, step) /\ step \notin AtGate
  PROVE  Types' /\ Safe'
<1>1. UNCHANGED <<resume, rec, left, due, fly, adm, note, lock, started, told, faults>>
  BY DEF tVars, nVars
<1>2. Calm
  BY <1>1 DEF Calm, Mild, Safe, Kept
<1>3. QueueTypes' /\ Safe'
  BY <1>2, DropStep, GoStep
<1> QED
  BY <1>1, <1>3 DEF Types, TimeTypes, RunnerTypes, NoticeTypes, PlainTypes

LEMMA AnswerStep ==
  ASSUME Types, Safe, NEW h \in Handlers, Answer(h)
  PROVE  Types' /\ Safe'
<1>1. Busy(h)
  BY DEF Answer, Busy
<1>2. UNCHANGED <<resume, rec, tVars, adm, nVars, started, told, faults>>
  BY DEF Answer
<1>3. \/ Drop(h) /\ UNCHANGED <<done, shown>>
      \/ /\ Go(h, IF hs[h].gen = 0 THEN "ack" ELSE "get")
         /\ done' = "answer" /\ shown' = "answer"
  BY DEF Answer
<1>4. /\ done' \in {"none", "answer", "expiry"}
      /\ shown' \in {"none", "queued", "answer", "expiry"}
  BY <1>3 DEF Types, PlainTypes, NoticeTypes
<1> DEFINE step == IF hs[h].gen = 0 THEN "ack" ELSE "get"
<1>5. step \in Steps /\ step \notin AtGate
  BY DEF Steps, AtGate
<1>6. done' # "none" => Onward(h, step)
  BY DEF Onward, Steps, Running
<1>7. \/ Drop(h) /\ UNCHANGED done
      \/ Go(h, step) /\ done' # "none"
  BY <1>3
<1> HIDE DEF step
<1> QED
  BY <1>1, <1>2, <1>4, <1>5, <1>6, <1>7, SettleStep

LEMMA CompleteExpiredStep ==
  ASSUME Types, Safe, NEW h \in Handlers, CompleteExpired(h)
  PROVE  Types' /\ Safe'
<1>1. Busy(h) /\ hs[h].gen # 0
  BY DEF CompleteExpired, Busy, Safe, Places
<1>2. UNCHANGED <<resume, rec, tVars, adm, nVars, started, told, faults>> /\ shown' = shown
  BY DEF CompleteExpired, xVars
<1>3. \/ Drop(h) /\ UNCHANGED done
      \/ Go(h, "get") /\ done' = "expiry"
  BY DEF CompleteExpired
<1>4. /\ done' \in {"none", "answer", "expiry"}
      /\ shown' \in {"none", "queued", "answer", "expiry"}
  BY <1>2, <1>3 DEF Types, PlainTypes, NoticeTypes
<1>5. "get" \in Steps /\ "get" \notin AtGate /\ Onward(h, "get")
  BY <1>1 DEF Onward, Steps, Running, AtGate
<1> QED
  BY <1>1, <1>2, <1>3, <1>4, <1>5, SettleStep

(* The handler acknowledges its entry in its last call.                    *)
LEMMA EndRetires ==
  ASSUME Types, Leases, NEW h \in Handlers, Has(h),
         End(h, [stream EXCEPT ![hs[h].e].row = "acked"])
  PROVE  Retired(hs[h].e) /\ hs[h].e \in 1 .. Len(stream) /\ stream[hs[h].e].row # "acked"
<1> DEFINE e == hs[h].e
<1>1. e \in 1 .. Len(stream) /\ stream[e].row = "pending" /\ stream[e] \in EntrySet
  BY HasPending, Queue DEF Mine
<1>2. ~Lost(h)
  BY DEF Has
<1>3. stream \in Seq(EntrySet) /\ DOMAIN stream = 1 .. Len(stream) /\ stream = [d \in 1 .. Len(stream) |-> stream[d]]
  BY LenProperties DEF Types, QueueTypes
<1>4. stream' = [[stream EXCEPT ![e].row = "acked"] EXCEPT ![e].lease = None]
  BY <1>2 DEF End
<1>5. stream' = [stream EXCEPT ![e] = [stream[e] EXCEPT !.row = "acked", !.lease = None]]
  BY <1>1, <1>3, <1>4
<1>6. hs' = [hs EXCEPT ![h] = Idle] /\ (claim' = claim \/ (claim = e /\ claim' = 0))
  BY <1>2 DEF End
<1>7. hs' \in [Handlers -> HandlerSet] /\ \A k \in Handlers : hs'[k] = hs[k] \/ hs'[k] = Idle
  BY <1>6, HandlerStep, IdleTyped
<1> QED
  BY <1>1, <1>5, <1>6, <1>7 DEF Retired

LEMMA AckStep ==
  ASSUME Types, Safe, NEW h \in Handlers, Ack(h)
  PROVE  Types' /\ Safe'
<1>1. Busy(h) /\ hs[h].pc = "ack" /\ Leases
  BY DEF Ack, Busy, Safe
<1>2. UNCHANGED <<resume, rec, tVars, adm, nVars, done, xVars, faults>>
  BY DEF Ack
<1>3. CASE Lost(h)
  BY <1>1, <1>2, <1>3, PlainStep DEF Ack
<1>4. CASE ~Lost(h)
  <2>1. Has(h) /\ End(h, [stream EXCEPT ![hs[h].e].row = "acked"])
    BY <1>1, <1>4 DEF Ack, Has
  <2>2. Retired(hs[h].e) /\ hs[h].e \in 1 .. Len(stream) /\ stream[hs[h].e].row # "acked"
    BY <1>1, <2>1, EndRetires
  <2>3. UNCHANGED <<resume, rec, left, due, fly, adm, note, lock, done, started, told, shown, faults>>
    BY <1>2 DEF tVars, nVars, xVars
  <2>4. QueueTypes'
    BY <2>2, <2>3, RetiredQueue
  <2>5. Safe'
    BY <1>1, <2>1, <2>2, <2>3, RetiredKeeps
  <2> QED
    BY <2>3, <2>4, <2>5 DEF Types, TimeTypes, RunnerTypes, NoticeTypes, PlainTypes
<1> QED
  BY <1>3, <1>4


LEMMA ParkStep ==
  ASSUME Types, Safe, NEW h \in Handlers, Park(h)
  PROVE  Types' /\ Safe'
<1>1. Busy(h) /\ hs[h].pc = "park" /\ Leases
  BY DEF Park, Busy, Safe
<1>2. UNCHANGED <<resume, adm, nVars, done, xVars, faults>>
  BY DEF Park
<1>3. CASE ~MayPark(h)
  <2>1. Drop(h) /\ UNCHANGED <<rec, tVars>>
    BY <1>3 DEF Park
  <2> QED
    BY <1>1, <1>2, <2>1, PlainStep
<1>4. CASE MayPark(h)
  <2>1. /\ rec' = Parked
        /\ left' = IF rec.state = "none" THEN Budget ELSE left
        /\ due' = IF left' < Retry THEN left' ELSE Retry
        /\ fly' = -1
        /\ End(h, [stream EXCEPT ![hs[h].e].row = "acked"])
    BY <1>4 DEF Park
  <2>2. Has(h)
    BY <1>1, <1>4 DEF Has, MayPark
  <2>3. Retired(hs[h].e) /\ hs[h].e \in 1 .. Len(stream) /\ stream[hs[h].e].row # "acked"
    BY <1>1, <2>1, <2>2, EndRetires
  <2>4. UNCHANGED <<resume, adm, note, lock, done, started, told, shown, faults>>
    BY <1>2 DEF nVars, xVars
  <2>5. rec \in RecordSet /\ rec.gen \in 0 .. MaxGen /\ MaxGen \in Nat
    BY WaitAssumption DEF Types, RecordSet, MaxGen
  <2>6. rec'.state = "waiting" /\ rec'.gen = rec.gen + 1 /\ rec'.wake = rec.wake
    <3>1. rec.state = "none" => rec.gen = 0
      BY DEF Safe, Generations
    <3>2. rec'.state = "waiting" /\ rec'.wake = rec.wake
      BY <2>1, <2>5 DEF Parked, RecordSet
    <3>3. rec'.gen = IF rec.state = "none" THEN 1 ELSE rec.gen + 1
      BY <2>1, <2>5 DEF Parked, RecordSet
    <3> QED
      BY <2>5, <3>1, <3>2, <3>3
  <2>7. QueueTypes'
    BY <2>3, <2>4, RetiredQueue
  <2>8. Safe'
    BY <1>1, <1>4, <2>3, <2>4, <2>6, ParkKeeps
  <2>9. rec' \in RecordSet
    <3>1. QueueTypes' /\ Leases' /\ Paid'
      BY <2>7, <2>8 DEF Safe
    <3>2. /\ Len(stream') = Len(stream) /\ Cardinality(Acked') = Cardinality(Acked) + 1
          /\ Cardinality(Acked) \in Nat /\ Acked' = Acked \cup {hs[h].e}
      <4>1. resume' = resume
        BY <2>4
      <4> QED
        BY <2>3, <4>1, RetiredQueue
    <3>3. Len(stream) \in Nat /\ Len(stream) <= MaxEntry
      BY <1>1, Queue
    <3>4. IsFiniteSet(1 .. Len(stream)) /\ Cardinality(1 .. Len(stream)) = Len(stream)
      BY <3>3, UpTo
    <3>5. Acked' \in SUBSET (1 .. Len(stream))
      BY <1>1, <2>3, <3>2, Queue
    <3>6. Cardinality(Acked') <= Len(stream)
      BY <3>4, <3>5, FS_Subset
    <3>7. rec.gen <= Len(stream) + Cardinality(Acked)
      BY <2>5, <3>2, <3>3 DEF Safe, Paid
    <3>8. rec.gen + 1 \in 0 .. MaxGen
      BY <2>5, <3>2, <3>3, <3>6, <3>7, WaitAssumption DEF MaxGen
    <3>9. ASSUME NEW r \in RecordSet, NEW g \in 0 .. MaxGen, NEW b \in BOOLEAN
          PROVE  [r EXCEPT !.state = "waiting", !.cause = "", !.gen = g, !.notice = b] \in RecordSet
      BY DEF RecordSet, States, Causes
    <3>10. PICK b \in BOOLEAN : rec' = [rec EXCEPT !.state = "waiting", !.cause = "",
                                                   !.gen = rec'.gen, !.notice = b]
      <4>1. rec'.gen = IF rec.state = "none" THEN 1 ELSE rec.gen + 1
        BY <2>1, <2>5 DEF Parked, RecordSet
      <4> DEFINE b == rec.state = "none" \/ rec.notice \/ rec.confirmed \/ rec.unknown
      <4>2. b \in BOOLEAN
        OBVIOUS
      <4>3. rec' = [rec EXCEPT !.state = "waiting", !.cause = "", !.gen = rec'.gen, !.notice = b]
        BY <2>1, <4>1 DEF Parked
      <4> QED
        BY <4>2, <4>3
    <3>11. rec'.gen \in 0 .. MaxGen
      BY <2>6, <3>8
    <3>12. [rec EXCEPT !.state = "waiting", !.cause = "", !.gen = rec'.gen, !.notice = b] \in RecordSet
      BY <2>5, <3>9, <3>11
    <3> QED
      BY <3>10, <3>12
  <2>10. TimeTypes'
    BY <2>1, WaitAssumption DEF Types, TimeTypes
  <2> QED
    BY <2>4, <2>7, <2>8, <2>9, <2>10 DEF Types, RunnerTypes, NoticeTypes, PlainTypes
<1> QED
  BY <1>3, <1>4

(* A handler notes something down and goes on.                             *)
LEMMA NoteDown ==
  ASSUME Types, Safe, NEW h \in Handlers, Busy(h), RunnerTypes', rec' \in RecordSet, Mild,
         NEW s \in HandlerSet, hs' = [hs EXCEPT ![h] = s], s.e = hs[h].e, s.gen = hs[h].gen,
         Onward(h, s.pc), s.pc \notin AtGate,
         UNCHANGED <<resume, qVars, tVars, nVars, done, faults>>,
         told' \in Causes, shown' \in {"none", "queued", "answer", "expiry"}
  PROVE  Types' /\ Safe'
<1>1. UNCHANGED <<resume, left, due, fly, note, lock, done, faults>> /\ UNCHANGED qVars
  BY DEF tVars, nVars
<1>2. Calm
  BY <1>1 DEF Calm, Mild, Safe, Kept
<1>3. QueueTypes' /\ Safe'
  BY <1>1, <1>2, MoveStep
<1> QED
  BY <1>1, <1>3 DEF Types, TimeTypes, NoticeTypes, PlainTypes

LEMMA ResolveGrantStep ==
  ASSUME Types, Safe, NEW h \in Handlers, ResolveGrant(h)
  PROVE  Types' /\ Safe'
<1>1. Busy(h) /\ hs[h].pc = "expire" /\ hs[h].gen # 0
  BY DEF ResolveGrant, Busy, Safe, Places
<1>2. UNCHANGED <<resume, rec, tVars, nVars, done, told, shown>> /\ UNCHANGED started
  BY DEF ResolveGrant, xVars
<1>3. rec \in RecordSet /\ rec.epoch \in Epochs \cup {0}
  BY DEF Types, RecordSet
<1>4. \A step \in {"flag", "reconfirm", "unknown"} :
         Onward(h, step) /\ step \in Steps /\ step \notin AtGate
  BY <1>1 DEF Onward, Steps, Running, AtGate
<1>5. CASE Go(h, "flag") /\ UNCHANGED <<adm, faults>>
  <2>1. RunnerTypes'
    BY <1>2, <1>5 DEF Types, RunnerTypes
  <2> QED
    BY <1>1, <1>2, <1>4, <1>5, <2>1, RunnerStep
<1>6. CASE Fault /\ Drop(h) /\ UNCHANGED adm
  <2>1. RunnerTypes'
    BY <1>2, <1>6 DEF Types, RunnerTypes
  <2> QED
    BY <1>1, <1>2, <1>6, <2>1, RunnerStep
<1>7. CASE /\ adm' = Quiesced(rec.epoch)
           /\ \E p \in {"flag", "reconfirm", "unknown"} :
                hs' = [hs EXCEPT ![h].epoch = rec.epoch, ![h].pc = p]
           /\ UNCHANGED <<qVars, faults>>
  <2>1. RunnerTypes'
    BY <1>2, <1>3, <1>7, QuiescedTyped DEF Types, RunnerTypes
  <2>2. PICK p \in {"flag", "reconfirm", "unknown"} :
           hs' = [hs EXCEPT ![h].epoch = rec.epoch, ![h].pc = p]
    BY <1>7
  <2>3. PICK n \in Epochs \cup {0} : n = rec.epoch
    BY <1>3
  <2> DEFINE s == [hs[h] EXCEPT !.epoch = n, !.pc = p]
  <2>4. hs' = [hs EXCEPT ![h] = s] /\ UNCHANGED <<qVars, faults>>
    BY <1>7, <2>2, <2>3
  <2>5. hs[h] \in HandlerSet /\ p \in Steps
    BY <1>4, <2>2 DEF Types, QueueTypes
  <2>6. s \in HandlerSet /\ s.pc = p /\ s.e = hs[h].e /\ s.gen = hs[h].gen
    BY <2>5 DEF HandlerSet
  <2> HIDE DEF s
  <2>7. Onward(h, s.pc) /\ s.pc \notin AtGate
    BY <1>4, <2>2, <2>6
  <2>8. rec' \in RecordSet /\ Mild
    BY <1>2, <1>3 DEF Mild
  <2>9. told' \in Causes /\ shown' \in {"none", "queued", "answer", "expiry"}
    BY <1>2 DEF Types, NoticeTypes
  <2> QED
    BY <1>1, <1>2, <2>1, <2>4, <2>6, <2>7, <2>8, <2>9, NoteDown
<1>8. CASE /\ adm' = Quiesced(rec.epoch)
           /\ hs' = [hs EXCEPT ![h].epoch = rec.epoch,
                ![h].pc = CASE adm'[rec.epoch] = "granted" -> "reconfirm"
                            [] adm'[rec.epoch] = "unknown" -> "unknown"
                            [] OTHER -> "flag"]
           /\ UNCHANGED <<qVars, faults>>
  <2>1. CASE adm'[rec.epoch] = "granted"
    BY <1>7, <1>8, <2>1
  <2>2. CASE adm'[rec.epoch] = "unknown"
    BY <1>7, <1>8, <2>2
  <2>3. CASE adm'[rec.epoch] # "granted" /\ adm'[rec.epoch] # "unknown"
    BY <1>7, <1>8, <2>3
  <2> QED
    BY <2>1, <2>2, <2>3
<1> QED
  BY <1>5, <1>6, <1>8 DEF ResolveGrant

LEMMA ReconfirmStep ==
  ASSUME Types, Safe, NEW h \in Handlers, Reconfirm(h)
  PROVE  Types' /\ Safe'
<1>1. Busy(h) /\ hs[h].gen # 0
  BY DEF Reconfirm, Busy, Safe, Places
<1>2. UNCHANGED <<resume, tVars, nVars, done, xVars>> /\ UNCHANGED <<started, adm, faults>>
  BY DEF Reconfirm, xVars
<1>3. rec' \in RecordSet /\ Mild
  BY ConfirmedTyped DEF Reconfirm, Mild
<1>4. Go(h, "flag") \/ Drop(h)
  BY DEF Reconfirm
<1>5. Onward(h, "flag") /\ "flag" \in Steps /\ "flag" \notin AtGate
  BY <1>1 DEF Onward, Steps, Running, AtGate
<1>6. RunnerTypes'
  BY <1>2 DEF Types, RunnerTypes
<1> QED
  BY <1>1, <1>2, <1>3, <1>4, <1>5, <1>6, MildStep

LEMMA MarkUnknownStep ==
  ASSUME Types, Safe, NEW h \in Handlers, MarkUnknown(h)
  PROVE  Types' /\ Safe'
<1>1. Busy(h) /\ hs[h].gen # 0
  BY DEF MarkUnknown, Busy, Safe, Places
<1>2. UNCHANGED <<resume, tVars, nVars, done, xVars>> /\ UNCHANGED <<started, adm, faults>>
  BY DEF MarkUnknown, xVars
<1>3. rec' \in RecordSet /\ Mild
  BY DoubtedTyped DEF MarkUnknown, Mild
<1>4. Go(h, "flag")
  BY DEF MarkUnknown
<1>5. Onward(h, "flag") /\ "flag" \in Steps /\ "flag" \notin AtGate
  BY <1>1 DEF Onward, Steps, Running, AtGate
<1>6. RunnerTypes'
  BY <1>2 DEF Types, RunnerTypes
<1> QED
  BY <1>1, <1>2, <1>3, <1>4, <1>5, <1>6, MildStep


LEMMA CauseTyped == Cause \in Causes
BY DEF Cause, Causes

LEMMA FlagExpiryStep ==
  ASSUME Types, Safe, NEW h \in Handlers, FlagExpiry(h)
  PROVE  Types' /\ Safe'
<1>1. Busy(h) /\ hs[h].gen # 0
  BY DEF FlagExpiry, Busy, Safe, Places
<1>2. UNCHANGED <<resume, tVars, nVars, done, xVars>> /\ UNCHANGED <<started, told, shown, adm, faults>>
  BY DEF FlagExpiry, xVars
<1>3. rec \in RecordSet /\ RunnerTypes'
  BY <1>2 DEF Types, RunnerTypes
<1>4. PICK c \in Causes : c = Cause
  BY CauseTyped
<1>5. ASSUME NEW r \in RecordSet
      PROVE  /\ [r EXCEPT !.cause = c] \in RecordSet /\ [r EXCEPT !.cause = c].gen = r.gen
             /\ [r EXCEPT !.cause = c].wake = r.wake /\ [r EXCEPT !.cause = c].state = r.state
  BY DEF RecordSet
<1>6. CASE rec' = rec /\ Drop(h)
  BY <1>1, <1>2, <1>3, <1>6, MildStep DEF Mild
<1>7. CASE rec' = [rec EXCEPT !.cause = c]
  <2>1. rec' \in RecordSet /\ Mild
    BY <1>3, <1>5, <1>7 DEF Mild
  <2>2. CASE Drop(h)
    BY <1>1, <1>2, <1>3, <2>1, <2>2, MildStep
  <2>3. CASE ~Drop(h)
    <3>1. PICK n \in Epochs \cup {0} : n = rec.epoch
      BY <1>3 DEF RecordSet
    <3> DEFINE s == [hs[h] EXCEPT !.pc = "stop", !.cause = c, !.epoch = n]
    <3>2. hs' = [hs EXCEPT ![h] = s] /\ UNCHANGED qVars
      BY <1>4, <2>3, <3>1 DEF FlagExpiry
    <3>3. hs[h] \in HandlerSet
      BY DEF Types, QueueTypes
    <3>4. s \in HandlerSet /\ s.pc = "stop" /\ s.e = hs[h].e /\ s.gen = hs[h].gen
      BY <3>3 DEF HandlerSet, Steps
    <3> HIDE DEF s
    <3>5. Onward(h, s.pc) /\ s.pc \notin AtGate
      BY <1>1, <3>4 DEF Onward, Steps, Running, AtGate
    <3>6. told' \in Causes /\ shown' \in {"none", "queued", "answer", "expiry"}
      BY <1>2 DEF Types, NoticeTypes
    <3> QED
      BY <1>1, <1>2, <1>3, <2>1, <3>2, <3>4, <3>5, <3>6, NoteDown
  <2> QED
    BY <2>2, <2>3
<1> QED
  BY <1>4, <1>6, <1>7 DEF FlagExpiry

LEMMA StopEpochStep ==
  ASSUME Types, Safe, NEW h \in Handlers, StopEpoch(h)
  PROVE  Types' /\ Safe'
<1>1. Busy(h) /\ hs[h].gen # 0 /\ hs[h].epoch \in Epochs \cup {0}
  BY DEF StopEpoch, Busy, Safe, Places, Types, QueueTypes, HandlerSet
<1>2. UNCHANGED <<resume, rec, tVars, nVars, done, told, shown>> /\ UNCHANGED started
  BY DEF StopEpoch, xVars
<1>3. RunnerTypes' /\ (Fault \/ UNCHANGED faults)
  BY <1>1, <1>2, QuiescedTyped DEF StopEpoch, Types, RunnerTypes
<1>4. Held(h, "reply") \/ Drop(h)
  BY DEF StopEpoch
<1>5. Onward(h, "reply") /\ "reply" \in Steps /\ "reply" \notin AtGate
  BY <1>1 DEF Onward, Steps, Running, AtGate
<1> QED
  BY <1>1, <1>2, <1>3, <1>4, <1>5, RunnerStep

(* A handler notes something down, the record stays.                       *)
LEMMA NoteOnly ==
  ASSUME Types, Safe, NEW h \in Handlers, Busy(h),
         NEW s \in HandlerSet, hs' = [hs EXCEPT ![h] = s], s.e = hs[h].e, s.gen = hs[h].gen,
         Onward(h, s.pc), s.pc \notin AtGate,
         UNCHANGED <<resume, qVars, rec, tVars, adm, nVars, done, started>>,
         Fault \/ UNCHANGED faults,
         told' \in Causes, shown' \in {"none", "queued", "answer", "expiry"}
  PROVE  Types' /\ Safe'
<1>1. UNCHANGED <<resume, rec, left, due, fly, adm, note, lock, done, started>> /\ UNCHANGED qVars
  BY DEF tVars, nVars
<1>2. Calm
  BY <1>1, CalmSame
<1>3. QueueTypes' /\ Safe'
  BY <1>1, <1>2, MoveStep
<1>4. faults' \in 0 .. MaxFault
  BY FaultTyped
<1> QED
  BY <1>1, <1>3, <1>4 DEF Types, TimeTypes, RunnerTypes, NoticeTypes, PlainTypes

LEMMA ReplyExpiredStep ==
  ASSUME Types, Safe, NEW h \in Handlers, ReplyExpired(h)
  PROVE  Types' /\ Safe'
<1>1. Busy(h) /\ hs[h].gen # 0 /\ hs[h] \in HandlerSet /\ hs[h].cause \in Causes
  BY DEF ReplyExpired, Busy, Safe, Places, Types, QueueTypes, HandlerSet
<1>2. UNCHANGED <<resume, qVars, rec, tVars, adm, nVars, done, started>>
  BY DEF ReplyExpired
<1>3. /\ told' \in Causes /\ shown' \in {"none", "queued", "answer", "expiry"}
      /\ Fault \/ UNCHANGED faults
  BY <1>1 DEF ReplyExpired, Types, NoticeTypes
<1>4. PICK b \in BOOLEAN : \/ hs' = [hs EXCEPT ![h].pc = "complete", ![h].replied = b]
                           \/ hs' = [hs EXCEPT ![h].pc = "complete"]
  BY DEF ReplyExpired
<1>5. PICK s \in HandlerSet : /\ hs' = [hs EXCEPT ![h] = s] /\ s.pc = "complete"
                              /\ s.e = hs[h].e /\ s.gen = hs[h].gen
  <2>1. CASE hs' = [hs EXCEPT ![h].pc = "complete", ![h].replied = b]
    <3> DEFINE s == [hs[h] EXCEPT !.pc = "complete", !.replied = b]
    <3>1. s \in HandlerSet /\ s.pc = "complete" /\ s.e = hs[h].e /\ s.gen = hs[h].gen
      BY <1>1 DEF HandlerSet, Steps
    <3>2. hs' = [hs EXCEPT ![h] = s]
      BY <2>1
    <3> QED
      BY <3>1, <3>2
  <2>2. CASE hs' = [hs EXCEPT ![h].pc = "complete"]
    <3> DEFINE s == [hs[h] EXCEPT !.pc = "complete"]
    <3>1. s \in HandlerSet /\ s.pc = "complete" /\ s.e = hs[h].e /\ s.gen = hs[h].gen
      BY <1>1 DEF HandlerSet, Steps
    <3>2. hs' = [hs EXCEPT ![h] = s]
      BY <2>2
    <3> QED
      BY <3>1, <3>2
  <2> QED
    BY <1>4, <2>1, <2>2
<1>6. Onward(h, s.pc) /\ s.pc \notin AtGate
  BY <1>1, <1>5 DEF Onward, Steps, Running, AtGate
<1> QED
  BY <1>1, <1>2, <1>3, <1>5, <1>6, NoteOnly

LEMMA GetRecordStep ==
  ASSUME Types, Safe, NEW h \in Handlers, GetRecord(h)
  PROVE  Types' /\ Safe'
<1>1. Busy(h) /\ hs[h].gen # 0 /\ hs[h] \in HandlerSet
  BY DEF GetRecord, Busy, Safe, Places, Types, QueueTypes
<1>2. /\ UNCHANGED <<resume, qVars, rec, tVars, adm, nVars, done, started>>
      /\ UNCHANGED faults /\ told' = told /\ shown' = shown
  BY DEF GetRecord, xVars
<1>3. PICK x \in States, c \in Causes : x = rec.state /\ c = rec.cause
  BY DEF Types, RecordSet
<1> DEFINE s == [hs[h] EXCEPT !.pc = "mark", !.state = x, !.cause = c]
<1>4. s \in HandlerSet /\ s.pc = "mark" /\ s.e = hs[h].e /\ s.gen = hs[h].gen
  BY <1>1 DEF HandlerSet, Steps
<1>5. hs' = [hs EXCEPT ![h] = s]
  BY <1>3 DEF GetRecord
<1> HIDE DEF s
<1>6. Onward(h, s.pc) /\ s.pc \notin AtGate
  BY <1>1, <1>4 DEF Onward, Steps, Running, AtGate
<1>7. told' \in Causes /\ shown' \in {"none", "queued", "answer", "expiry"}
  BY <1>2 DEF Types, NoticeTypes
<1> QED
  BY <1>1, <1>2, <1>4, <1>5, <1>6, <1>7, NoteOnly


(* A record that is marked is settled; one that is not is left alone.      *)
LEMMA TerminalTyped ==
  ASSUME Types, NEW state, NEW cause \in Causes, NEW gen
  PROVE  /\ Terminal(state, cause, gen) \in RecordSet
         /\ Terminal(state, cause, gen).gen = rec.gen
         /\ Terminal(state, cause, gen).wake = rec.wake
         /\ \/ Terminal(state, cause, gen).state = rec.state
            \/ /\ Terminal(state, cause, gen).state \in {"done", "expired"}
               /\ done # "none" /\ rec.gen = gen
         /\ rec.state = state /\ rec.gen = gen /\ done # "none" =>
              Terminal(state, cause, gen).state \in {"done", "expired"}
<1>1. rec \in RecordSet
  BY DEF Types
<1> DEFINE t == IF cause = "" THEN "done" ELSE "expired"
<1>2. t \in {"done", "expired"} /\ t \in States
  BY DEF States
<1>4. CASE rec.state # state \/ rec.gen # gen \/ done = "none" \/ state = t
  <2>1. Terminal(state, cause, gen) = rec
    BY <1>4 DEF Terminal
  <2> QED
    BY <1>1, <1>2, <1>4, <2>1
<1>5. CASE ~(rec.state # state \/ rec.gen # gen \/ done = "none" \/ state = t)
  <2>1. PICK b \in BOOLEAN : b = (cause # "")
    OBVIOUS
  <2>2. Terminal(state, cause, gen) = [rec EXCEPT !.state = t, !.cause = cause, !.expiry = b]
    BY <1>5, <2>1 DEF Terminal
  <2> HIDE DEF t
  <2>3. /\ [rec EXCEPT !.state = t, !.cause = cause, !.expiry = b] \in RecordSet
        /\ [rec EXCEPT !.state = t, !.cause = cause, !.expiry = b].gen = rec.gen
        /\ [rec EXCEPT !.state = t, !.cause = cause, !.expiry = b].wake = rec.wake
        /\ [rec EXCEPT !.state = t, !.cause = cause, !.expiry = b].state = t
    BY <1>1, <1>2 DEF RecordSet
  <2> QED
    BY <1>2, <1>5, <2>2, <2>3
<1> QED
  BY <1>4, <1>5

LEMMA MarkTerminalStep ==
  ASSUME Types, Safe, NEW h \in Handlers, MarkTerminal(h)
  PROVE  Types' /\ Safe'
<1>1. Busy(h) /\ hs[h].gen # 0 /\ hs[h].cause \in Causes
  BY DEF MarkTerminal, Busy, Safe, Places, Types, QueueTypes, HandlerSet
<1>2. UNCHANGED <<resume, left, due, adm, note, lock, done, started, told, shown, faults>>
  BY DEF MarkTerminal, nVars, xVars
<1> DEFINE marked == rec.state = hs[h].state /\ rec.gen = hs[h].gen /\ done # "none"
<1>3. rec' = Terminal(hs[h].state, hs[h].cause, hs[h].gen) /\ fly' = IF marked THEN -1 ELSE fly
  BY DEF MarkTerminal
<1>4. /\ rec' \in RecordSet /\ rec'.gen = rec.gen /\ rec'.wake = rec.wake
      /\ \/ rec'.state = rec.state
         \/ rec'.state \in {"done", "expired"} /\ done # "none" /\ rec.gen = hs[h].gen
      /\ marked => rec'.state \in {"done", "expired"}
  BY <1>1, <1>3, TerminalTyped
<1>5. Mild
  BY <1>1, <1>2, <1>4 DEF Mild, Safe, Generations
<1>6. Calm
  <2>1. rec'.state \in {"woken", "active"} => fly' >= 0
    BY <1>3, <1>4 DEF Safe, Kept
  <2> QED
    BY <1>2, <1>5, <2>1 DEF Calm
<1>7. TimeTypes'
  BY <1>2, <1>3, WaitAssumption DEF Types, TimeTypes
<1>8. QueueTypes' /\ Safe'
  <2>1. CASE Drop(h)
    BY <1>1, <1>6, <2>1, DropStep
  <2>2. CASE Go(h, "noted")
    <3>1. Onward(h, "noted") /\ "noted" \notin AtGate
      BY <1>1 DEF Onward, Steps, Running, AtGate
    <3> QED
      BY <1>1, <1>6, <2>2, <3>1, GoStep
  <2>3. CASE marked /\ Held(h, "ack")
    <3>1. Onward(h, "ack") /\ "ack" \notin AtGate
      BY <1>1, <1>2, <2>3 DEF Onward, Steps, Running, AtGate
    <3> QED
      BY <1>1, <1>6, <2>3, <3>1, HeldStep
  <2> QED
    BY <2>1, <2>2, <2>3 DEF MarkTerminal
<1> QED
  BY <1>2, <1>4, <1>7, <1>8 DEF Types, RunnerTypes, NoticeTypes, PlainTypes

LEMMA NoticeTyped ==
  ASSUME NEW r \in RecordSet
  PROVE  /\ [r EXCEPT !.expiry = FALSE] \in RecordSet /\ [r EXCEPT !.notice = FALSE] \in RecordSet
         /\ [r EXCEPT !.expiry = FALSE].gen = r.gen /\ [r EXCEPT !.notice = FALSE].gen = r.gen
         /\ [r EXCEPT !.expiry = FALSE].wake = r.wake /\ [r EXCEPT !.notice = FALSE].wake = r.wake
         /\ [r EXCEPT !.expiry = FALSE].state = r.state /\ [r EXCEPT !.notice = FALSE].state = r.state
BY DEF RecordSet

LEMMA NoteExpiredStep ==
  ASSUME Types, Safe, NEW h \in Handlers, NoteExpired(h)
  PROVE  Types' /\ Safe'
<1>1. Busy(h) /\ hs[h].gen # 0 /\ hs[h].gen \in 0 .. MaxGen /\ rec \in RecordSet
  BY DEF NoteExpired, Busy, Safe, Places, Types, QueueTypes, HandlerSet
<1>2. UNCHANGED <<resume, tVars, nVars, done, xVars>> /\ UNCHANGED <<started, adm, faults>>
  BY DEF NoteExpired, xVars
<1>3. rec' \in RecordSet /\ Mild
  <2>1. rec' = rec \/ rec' = [rec EXCEPT !.expiry = FALSE]
    BY DEF NoteExpired
  <2> QED
    BY <1>1, <2>1, NoticeTyped DEF Mild
<1>4. RunnerTypes'
  BY <1>2 DEF Types, RunnerTypes
<1>5. rec.state # "none"
  <2>1. rec.gen \in 0 .. MaxGen /\ hs[h].gen <= rec.gen
    BY <1>1 DEF RecordSet, Safe, Generations
  <2> QED
    BY <1>1, <2>1 DEF Safe, Generations
<1>6. Onward(h, "ack") /\ "ack" \in Steps /\ "ack" \notin AtGate
  BY <1>1, <1>5 DEF Onward, Steps, Running, AtGate
<1>7. Held(h, "ack")
  BY DEF NoteExpired
<1> QED
  BY <1>1, <1>2, <1>3, <1>4, <1>6, <1>7, MildStep

(* A step of one of the loops that leaves the stream and the handlers.     *)
LEMMA LoopStep ==
  ASSUME Types, Safe, UNCHANGED <<resume, stream, claim, hs, done>>, Mild,
         rec' \in RecordSet, TimeTypes', RunnerTypes', NoticeTypes', faults' \in 0 .. MaxFault,
         rec'.state \in {"woken", "active"} => fly' >= 0
  PROVE  Types' /\ Safe'
<1>1. Calm
  BY DEF Calm
<1>2. QueueTypes' /\ Safe'
  BY <1>1, SameQueueStep
<1> QED
  BY <1>2 DEF Types, PlainTypes

LEMMA RunnerLoops ==
  ASSUME Types, Safe, AdmissionTimeout \/ RunnerLost
  PROVE  Types' /\ Safe'
<1>1. UNCHANGED <<resume, stream, claim, hs, done, rec, left, due, fly, note, lock, started, told, shown>>
  BY DEF AdmissionTimeout, RunnerLost, qVars, tVars, nVars, xVars
<1>2. adm \in [Epochs -> Decisions]
  BY DEF Types, RunnerTypes
<1>3. adm' \in [Epochs -> Decisions]
  <2>1. CASE AdmissionTimeout
    BY <2>1, QuiescedTyped DEF AdmissionTimeout
  <2>2. CASE RunnerLost
    BY <1>2, <2>2 DEF RunnerLost, Decisions
  <2> QED
    BY <2>1, <2>2
<1>4. faults' \in 0 .. MaxFault
  BY FaultTyped DEF AdmissionTimeout, RunnerLost
<1>5. RunnerTypes' /\ TimeTypes' /\ NoticeTypes' /\ rec' \in RecordSet
  BY <1>1, <1>3 DEF Types, RunnerTypes, TimeTypes, NoticeTypes
<1>6. Mild /\ (rec'.state \in {"woken", "active"} => fly' >= 0)
  BY <1>1 DEF Mild, Safe, Kept
<1> QED
  BY <1>1, <1>4, <1>5, <1>6, LoopStep

LEMMA NoticeLoops ==
  ASSUME Types, Safe, Notice \/ CrashNotice \/ NoticeLockExpires
  PROVE  Types' /\ Safe'
<1>1. UNCHANGED <<resume, stream, claim, hs, done, left, due, fly, adm, started>>
  BY DEF Notice, ClaimNotice, CheckNotice, SendNotice, FinishNotice, CrashNotice,
         NoticeLockExpires, qVars, tVars, xVars, nVars
<1>2. /\ note \in NoteSet /\ lock \in BOOLEAN /\ told \in Causes /\ rec \in RecordSet
      /\ shown \in {"none", "queued", "answer", "expiry"}
      /\ rec.gen \in 0 .. MaxGen /\ rec.cause \in Causes /\ note.kind \in {"queued", "expiry"}
  BY DEF Types, NoticeTypes, RecordSet, NoteSet
<1>3. ASSUME NEW q \in NoteSet, NEW p \in {"off", "check", "send", "finish", "failed"}
      PROVE  [q EXCEPT !.pc = p] \in NoteSet
  BY DEF NoteSet
<1>4. NoNote \in NoteSet
  BY WaitAssumption DEF NoNote, NoteSet, MaxGen
<1>5. rec' = rec \/ rec' = [rec EXCEPT !.expiry = FALSE] \/ rec' = [rec EXCEPT !.notice = FALSE]
  BY DEF Notice, ClaimNotice, CheckNotice, SendNotice, FinishNotice, CrashNotice, NoticeLockExpires
<1>6. rec' \in RecordSet /\ Mild
  BY <1>2, <1>5, NoticeTyped DEF Mild
<1>7. NoticeTypes'
  <2>1. CASE ClaimNotice
    BY <1>2, <2>1 DEF ClaimNotice, NoticeTypes, NoteSet, xVars
  <2>2. CASE CheckNotice
    BY <1>2, <1>3, <2>2 DEF CheckNotice, NoticeTypes, xVars
  <2>3. CASE SendNotice
    BY <1>2, <1>3, <2>3 DEF SendNotice, NoticeTypes
  <2>4. CASE FinishNotice
    BY <1>2, <1>4, <2>4 DEF FinishNotice, NoticeTypes, xVars
  <2>5. CASE CrashNotice
    BY <1>2, <1>4, <2>5 DEF CrashNotice, NoticeTypes, xVars
  <2>6. CASE NoticeLockExpires
    BY <1>2, <2>6 DEF NoticeLockExpires, NoticeTypes, xVars
  <2> QED
    BY <2>1, <2>2, <2>3, <2>4, <2>5, <2>6 DEF Notice
<1>8. faults' \in 0 .. MaxFault
  BY FaultTyped DEF Notice, ClaimNotice, CheckNotice, SendNotice, FinishNotice, CrashNotice,
                    NoticeLockExpires
<1>9. TimeTypes' /\ RunnerTypes'
  BY <1>1 DEF Types, TimeTypes, RunnerTypes
<1>10. rec'.state \in {"woken", "active"} => fly' >= 0
  BY <1>1, <1>6 DEF Mild, Safe, Kept
<1> QED
  BY <1>1, <1>6, <1>7, <1>8, <1>9, <1>10, LoopStep

LEMMA TickStep ==
  ASSUME Types, Safe, Tick
  PROVE  Types' /\ Safe'
<1>1. UNCHANGED <<resume, stream, claim, hs, done, rec, adm, note, lock, started, told, shown, faults>>
  BY DEF Tick, qVars, nVars, xVars
<1>2. TimeTypes' /\ (fly >= 0 => fly' >= 0)
  BY WaitAssumption DEF Types, TimeTypes, Tick
<1>3. RunnerTypes' /\ NoticeTypes' /\ rec' \in RecordSet /\ faults' \in 0 .. MaxFault
  BY <1>1 DEF Types, RunnerTypes, NoticeTypes, PlainTypes
<1>4. Mild /\ (rec'.state \in {"woken", "active"} => fly' >= 0)
  BY <1>1, <1>2 DEF Mild, Safe, Kept
<1> QED
  BY <1>1, <1>2, <1>3, <1>4, LoopStep


LEMMA WakeStep ==
  ASSUME Types, Safe, Wake
  PROVE  Types' /\ Safe'
<1>1. UNCHANGED <<resume, left, due, claim, hs, adm, note, lock, done, started, told, shown, faults>>
  BY DEF Wake, nVars, xVars
<1>2. RunnerTypes' /\ NoticeTypes' /\ faults' \in 0 .. MaxFault /\ PlainTypes'
  BY <1>1 DEF Types, RunnerTypes, NoticeTypes, PlainTypes
<1>3. rec \in RecordSet /\ rec.state = "waiting"
  BY DEF Types, Wake
<1>4. CASE done # "none"
  <2>1. rec' = [rec EXCEPT !.state = "done"] /\ UNCHANGED <<stream, fly>>
    BY <1>4 DEF Wake
  <2>2. /\ rec' \in RecordSet /\ rec'.gen = rec.gen /\ rec'.wake = rec.wake /\ rec'.state = "done"
    BY <1>3, <2>1 DEF RecordSet, States
  <2>3. Mild /\ TimeTypes'
    BY <1>1, <1>3, <1>4, <2>1, <2>2 DEF Mild, Types, TimeTypes
  <2> QED
    BY <1>1, <1>2, <2>1, <2>2, <2>3, LoopStep
<1>5. CASE done = "none"
  <2>1. /\ Len(stream) < MaxEntry /\ stream' = Appended(rec.gen + 1, FALSE)
        /\ rec' = [rec EXCEPT !.state = "woken", !.gen = @ + 1,
                              !.wake = Len(stream) + 1, !.terminalOnly = FALSE]
        /\ fly' = left
    BY <1>5 DEF Wake, Flight
  <2>2. rec'.state = "woken" /\ rec'.gen = rec.gen + 1 /\ rec'.wake = Len(stream) + 1
    BY <1>3, <2>1 DEF RecordSet
  <2>3. fly' >= 0 /\ TimeTypes'
    BY <1>1, <2>1, WaitAssumption DEF Types, TimeTypes
  <2>4. QueueTypes' /\ Safe' /\ rec.gen + 1 \in 0 .. MaxGen
    BY <1>1, <1>3, <2>1, <2>2, <2>3, AppendKeeps
  <2>5. rec' \in RecordSet
    <3>1. Len(stream) \in Nat
      BY Queue DEF Safe
    <3>2. PICK g \in 0 .. MaxGen, w \in 0 .. MaxEntry : g = rec.gen + 1 /\ w = Len(stream) + 1
      BY <2>1, <2>4, <3>1, WaitAssumption
    <3>3. rec' = [rec EXCEPT !.state = "woken", !.gen = g, !.wake = w, !.terminalOnly = FALSE]
      BY <2>1, <3>2
    <3>4. [rec EXCEPT !.state = "woken", !.gen = g, !.wake = w, !.terminalOnly = FALSE] \in RecordSet
      BY <1>3 DEF RecordSet, States
    <3> QED
      BY <3>3, <3>4
  <2> QED
    BY <1>2, <2>3, <2>4, <2>5 DEF Types
<1> QED
  BY <1>4, <1>5

LEMMA ReconcileStep ==
  ASSUME Types, Safe, Reconcile
  PROVE  Types' /\ Safe'
<1>1. UNCHANGED <<resume, left, due, claim, hs, adm, note, lock, done, started, told, shown, faults>>
  BY DEF Reconcile, nVars, xVars
<1>2. RunnerTypes' /\ NoticeTypes' /\ faults' \in 0 .. MaxFault /\ PlainTypes'
  BY <1>1 DEF Types, RunnerTypes, NoticeTypes, PlainTypes
<1>3. rec \in RecordSet /\ rec.cause \in Causes
  BY DEF Types, RecordSet
<1>4. fly' \in {-1, Retry} => TimeTypes'
  BY <1>1, WaitAssumption DEF Types, TimeTypes
<1>5. CASE rec.state \notin {"woken", "active"}
  <2>1. fly' = -1 /\ UNCHANGED <<rec, stream>>
    BY <1>5 DEF Reconcile
  <2>2. Mild
    BY <2>1 DEF Mild
  <2> QED
    BY <1>1, <1>2, <1>3, <1>4, <1>5, <2>1, <2>2, LoopStep
<1>6. CASE rec.state \in {"woken", "active"} /\ done # "none"
  <2>1. rec' = Terminal(rec.state, rec.cause, rec.gen) /\ fly' = -1 /\ UNCHANGED stream
    BY <1>6 DEF Reconcile
  <2>2. /\ rec' \in RecordSet /\ rec'.gen = rec.gen /\ rec'.wake = rec.wake
        /\ rec'.state \in {"done", "expired"}
    BY <1>3, <1>6, <2>1, TerminalTyped
  <2>3. Mild
    BY <1>1, <1>6, <2>2 DEF Mild
  <2>4. rec'.state \notin {"woken", "active"}
    BY <2>2
  <2> QED
    BY <1>1, <1>2, <1>4, <2>1, <2>2, <2>3, <2>4, LoopStep
<1>7. CASE rec.state \in {"woken", "active"} /\ done = "none" /\ OnStream
  <2>1. fly' = Retry /\ UNCHANGED <<rec, stream>>
    BY <1>7 DEF Reconcile
  <2>2. Mild /\ fly' >= 0
    BY <2>1, WaitAssumption DEF Mild
  <2> QED
    BY <1>1, <1>2, <1>3, <1>4, <2>1, <2>2, LoopStep
<1>8. CASE rec.state \in {"woken", "active"} /\ done = "none" /\ ~OnStream
  <2>1. PICK c \in Causes :
           /\ Len(stream) < MaxEntry /\ stream' = Appended(rec.gen + 1, TRUE)
           /\ rec' = [rec EXCEPT !.state = "woken", !.gen = rec.gen + 1,
                                 !.wake = Len(stream) + 1, !.terminalOnly = TRUE, !.cause = c]
           /\ fly' = Retry
    <3> DEFINE c == IF rec.cause \in {"delivery_exhausted", "capacity_wait_expired"}
                      THEN rec.cause ELSE Cause
    <3>1. c \in Causes
      BY <1>3, CauseTyped
    <3>2. /\ Len(stream) < MaxEntry /\ stream' = Appended(rec.gen + 1, TRUE)
          /\ rec' = [rec EXCEPT !.state = "woken", !.gen = rec.gen + 1,
                                !.wake = Len(stream) + 1, !.terminalOnly = TRUE, !.cause = c]
          /\ fly' = Retry
      BY <1>8 DEF Reconcile
    <3> QED
      BY <3>1, <3>2
  <2>2. rec'.state = "woken" /\ rec'.gen = rec.gen + 1 /\ rec'.wake = Len(stream) + 1
    BY <1>3, <2>1 DEF RecordSet
  <2>3. fly' >= 0
    BY <2>1, WaitAssumption
  <2>4. QueueTypes' /\ Safe' /\ rec.gen + 1 \in 0 .. MaxGen
    BY <1>1, <1>8, <2>1, <2>2, <2>3, AppendKeeps
  <2>5. rec' \in RecordSet
    <3>1. Len(stream) \in Nat
      BY Queue DEF Safe
    <3>2. PICK g \in 0 .. MaxGen, w \in 0 .. MaxEntry : g = rec.gen + 1 /\ w = Len(stream) + 1
      BY <2>1, <2>4, <3>1, WaitAssumption
    <3>3. rec' = [rec EXCEPT !.state = "woken", !.gen = g, !.wake = w, !.terminalOnly = TRUE, !.cause = c]
      BY <2>1, <3>2
    <3>4. [rec EXCEPT !.state = "woken", !.gen = g, !.wake = w, !.terminalOnly = TRUE, !.cause = c]
            \in RecordSet
      BY <1>3 DEF RecordSet, States
    <3> QED
      BY <3>3, <3>4
  <2> QED
    BY <1>2, <1>4, <2>1, <2>4, <2>5 DEF Types
<1> QED
  BY <1>5, <1>6, <1>7, <1>8

(***************************************************************************)
(* The invariant holds, and what follows from it.                          *)
(***************************************************************************)
LEMMA InitSafe == Init => IInv
<1> SUFFICES ASSUME Init PROVE IInv
  OBVIOUS
<1> DEFINE r == Entry(0, FALSE)
<1>1. /\ r \in EntrySet /\ r.gen = 0 /\ r.row = "unread" /\ r.delivered = 0 /\ r.lease = None
  BY WaitAssumption DEF Entry, EntrySet, MaxGen
<1>2. resume \in BOOLEAN
  BY DEF Init
<1>3. (resume = TRUE /\ stream = <<r, r>>) \/ (resume = FALSE /\ stream = <<r>>)
  BY DEF Init
<1> HIDE DEF r
<1>4. /\ stream \in Seq(EntrySet) /\ Len(stream) \in {1, 2} /\ (resume = TRUE => Len(stream) = 2)
      /\ DOMAIN stream = 1 .. Len(stream)
      /\ (resume = FALSE => Len(stream) = 1) /\ \A d \in 1 .. Len(stream) : stream[d] = r
  <2>1. CASE resume = TRUE /\ stream = <<r, r>>
    BY <1>1, <2>1
  <2>2. CASE resume = FALSE /\ stream = <<r>>
    BY <1>1, <2>2
  <2> QED
    BY <1>3, <2>1, <2>2
<1>5. left = Budget /\ due = 0 /\ fly = -1 /\ claim = 0 /\ faults = 0
  BY DEF Init
<1>6. rec \in RecordSet /\ rec.gen = 0 /\ rec.wake = 0 /\ rec.state = "none"
  <2>1. rec = NoRecord
    BY DEF Init
  <2>2. 0 \in 0 .. MaxGen /\ 0 \in 0 .. MaxEntry
    BY WaitAssumption DEF MaxGen
  <2>3. "" \in Causes /\ "none" \in States
    BY DEF Causes, States
  <2>4. NoRecord \in RecordSet
    BY <2>2, <2>3 DEF NoRecord, RecordSet
  <2>5. NoRecord.gen = 0 /\ NoRecord.wake = 0 /\ NoRecord.state = "none"
    BY DEF NoRecord
  <2> QED
    BY <2>1, <2>4, <2>5
<1>7. hs \in [Handlers -> HandlerSet] /\ \A h \in Handlers : ~Busy(h)
  <2>1. hs = [h \in Handlers |-> Idle]
    BY DEF Init
  <2> QED
    BY <2>1, IdleIsFree, IdleTyped DEF Busy
<1>8. Types
  <2>1. QueueTypes
    BY <1>4, <1>5, <1>7, WaitAssumption DEF QueueTypes
  <2>2. TimeTypes
    BY <1>5, WaitAssumption DEF TimeTypes
  <2>3. RunnerTypes
    <3>1. adm = [n \in Epochs |-> "none"] /\ started = {}
      BY DEF Init
    <3> QED
      BY <3>1 DEF RunnerTypes, Decisions
  <2>4. NoticeTypes
    <3>1. note = NoNote /\ lock \in BOOLEAN /\ told = "" /\ shown = "none"
      BY DEF Init
    <3>2. NoNote \in NoteSet
      BY WaitAssumption DEF NoNote, NoteSet, MaxGen
    <3> QED
      BY <3>1, <3>2 DEF NoticeTypes, Causes
  <2>5. PlainTypes
    <3>1. done = "none"
      BY DEF Init
    <3> QED
      BY <1>2, <1>5, <3>1, WaitAssumption DEF PlainTypes
  <2> QED
    BY <1>6, <2>1, <2>2, <2>3, <2>4, <2>5 DEF Types
<1>9. Leases
  BY <1>1, <1>4, <1>7 DEF Leases
<1>10. Generations
  BY <1>1, <1>4, <1>5, <1>6, <1>7 DEF Generations
<1>11. Places /\ Copies /\ Duplicates
  BY <1>6, <1>7 DEF Places, Copies, Duplicates, Has
<1>12. Kept
  <2>1. 1 \in DOMAIN stream /\ Accounted(1)
    BY <1>1, <1>4 DEF Accounted
  <2> QED
    BY <1>6, <1>7, <2>1 DEF Kept, Has
<1>13. Paid
  <2>1. Cardinality(Acked) \in Nat /\ Len(stream) \in Nat /\ ~WakeGone
    BY <1>4, <1>6, <1>8, <1>9, AckedFinite DEF WakeGone
  <2> QED
    BY <1>6, <2>1 DEF Paid
<1> QED
  BY <1>8, <1>9, <1>10, <1>11, <1>12, <1>13 DEF IInv, Safe

LEMMA HandleStep ==
  ASSUME Types, Safe, NEW h \in Handlers, Handle(h)
  PROVE  Types' /\ Safe'
BY ClaimResumeStep, PrepareResumeStep, CheckWaitStep, StopAdoptedStep, SkipDoneStep,
   NoCapacityStep, FailStep, WaitOverStep, OpenTurnStep, BeginGrantStep, AdmitStep,
   ResolveAdmitStep, ConfirmGrantStep, AnswerStep, ParkStep, ResolveGrantStep, ReconfirmStep,
   MarkUnknownStep, FlagExpiryStep, StopEpochStep, ReplyExpiredStep, CompleteExpiredStep,
   GetRecordStep, MarkTerminalStep, NoteExpiredStep, AckStep
   DEF Handle

LEMMA NextSafe == IInv /\ [Next]_vars => IInv'
<1> SUFFICES ASSUME Types, Safe, [Next]_vars PROVE Types' /\ Safe'
  BY DEF IInv
<1>1. ASSUME NEW h \in Handlers, Take(h) \/ Handle(h) \/ LoseLease(h) \/ Crash(h)
      PROVE  Types' /\ Safe'
  BY <1>1, TakeStep, HandleStep, LoseLeaseStep, CrashStep
<1>2. CASE DeadLetter \/ LeaseExpires
  BY <1>2, DeadLetterStep, LeaseExpiresStep
<1>3. CASE AdmissionTimeout \/ RunnerLost
  BY <1>3, RunnerLoops
<1>4. CASE Wake \/ Reconcile
  BY <1>4, WakeStep, ReconcileStep
<1>5. CASE Notice \/ CrashNotice \/ NoticeLockExpires
  BY <1>5, NoticeLoops
<1>6. CASE Tick
  BY <1>6, TickStep
<1>7. CASE UNCHANGED vars
  <2>1. UNCHANGED <<resume, stream, claim, hs, done, rec, left, due, fly, adm, note, lock, started,
                    told, shown, faults>>
    BY <1>7 DEF vars, qVars, tVars, nVars, xVars
  <2>2. /\ TimeTypes' /\ RunnerTypes' /\ NoticeTypes' /\ rec' \in RecordSet
        /\ faults' \in 0 .. MaxFault
    BY <2>1 DEF Types, TimeTypes, RunnerTypes, NoticeTypes, PlainTypes
  <2>3. Mild /\ (rec'.state \in {"woken", "active"} => fly' >= 0)
    BY <2>1 DEF Mild, Safe, Kept
  <2> QED
    BY <2>1, <2>2, <2>3, LoopStep
<1> QED
  BY <1>1, <1>2, <1>3, <1>4, <1>5, <1>6, <1>7 DEF Next, Rest

(* The inductive invariant: what each part says is at its definition.       *)
THEOREM WaitInvariant == Spec => []IInv
<1>1. Init => IInv
  BY InitSafe
<1>2. IInv /\ [Next]_vars => IInv'
  BY NextSafe
<1> QED
  BY <1>1, <1>2, PTL DEF Spec

(* Every variable keeps its type.  In particular the generation of the      *)
(* record stays within twice the number of entries (Paid): each generation  *)
(* appends an entry or acknowledges one.                                   *)
THEOREM WaitTypes == Spec => []TypeOK
<1>1. IInv => TypeOK
  BY TypesTypeOK DEF IInv
<1> QED
  BY <1>1, WaitInvariant, PTL

(* Two handlers at work with authority are the same.                       *)
LEMMA SafeOneAtWork == IInv => OneAtWork
<1> SUFFICES ASSUME IInv, NEW h \in Handlers, NEW k \in Handlers,
                    hs[h].pc \in Running, ~Lost(h), hs[k].pc \in Running, ~Lost(k)
             PROVE  h = k
  BY DEF OneAtWork
<1>1. Types /\ Leases /\ Generations /\ Copies /\ Duplicates /\ resume \in BOOLEAN
  BY DEF IInv, Safe, Types, PlainTypes
<1>2. Has(h) /\ Has(k) /\ Busy(h) /\ Busy(k)
  BY DEF Has, Busy, Running
<1>3. CASE resume = TRUE
  BY <1>1, <1>2, <1>3, OwnEntry DEF Duplicates
<1>4. CASE resume = FALSE
  <2>1. ASSUME NEW m \in Handlers, Has(m), hs[m].gen = 0
        PROVE  hs[m].e = 1 /\ rec.gen = 0
    <3>1. hs[m].e \in 1 .. Len(stream) /\ Mine(m).row = "pending" /\ DOMAIN stream = 1 .. Len(stream)
      BY <1>1, <2>1, HasPending, Queue
    <3>2. Mine(m).gen = 0
      BY <1>1, <1>4, <2>1 DEF Generations, Has
    <3>3. hs[m].e = 1
      BY <1>1, <1>4, <3>1, <3>2 DEF Generations, Mine
    <3>4. rec.state = "none"
      BY <1>1, <1>4, <3>1, <3>3 DEF Copies, Mine
    <3> QED
      BY <1>1, <3>3, <3>4 DEF Generations
  <2>2. ASSUME rec.gen = 0, NEW m \in Handlers, Busy(m)
        PROVE  hs[m].gen = 0
    <3>1. hs[m].gen \in 0 .. MaxGen /\ hs[m].gen <= rec.gen
      BY <1>1, <2>2, Queue DEF Generations
    <3> QED
      BY <2>2, <3>1
  <2>3. CASE hs[h].gen = 0 \/ hs[k].gen = 0
    BY <1>2, <2>1, <2>2, <2>3, OwnEntry
  <2>4. CASE hs[h].gen # 0 /\ hs[k].gen # 0
    BY <1>1, <1>2, <1>4, <2>4, OwnEntry DEF Copies
  <2> QED
    BY <2>3, <2>4
<1> QED
  BY <1>1, <1>3, <1>4

(* Of the entries of one event at most one is worked on by a handler that   *)
(* has authority over it.                                                  *)
THEOREM WaitOneAtWork == Spec => []OneAtWork
<1>1. IInv => OneAtWork
  BY SafeOneAtWork
<1> QED
  BY <1>1, WaitInvariant, PTL

(* An event that is not settled is on the stream, or in an index that will  *)
(* wake or end it, or was dead-lettered before any wait began.             *)
THEOREM WaitNeverLost == Spec => []NeverLost
<1>1. IInv => NeverLost
  <2> SUFFICES ASSUME IInv, done = "none" PROVE NeverLost
    BY DEF NeverLost
  <2>1. Kept /\ rec.state \in States
    BY DEF IInv, Safe, Types, RecordSet
  <2>2. CASE rec.state = "none"
    BY <2>1, <2>2 DEF Kept, Accounted, NeverLost
  <2>3. CASE rec.state # "none"
    BY <2>1, <2>3 DEF Kept, NeverLost, States
  <2> QED
    BY <2>2, <2>3
<1> QED
  BY <1>1, WaitInvariant, PTL

(***************************************************************************)
(* What the thread is told.                                                *)
(*                                                                         *)
(* The wait of an event ends in one of two ways: it is settled, or its      *)
(* deadline passed before a turn was opened and nobody can open one any     *)
(* more (Ended).  Then the record does not go back to waiting, so no queued *)
(* notice is claimed, and one that was claimed before holds the wake back.  *)
(* The verdict "could not start" is reached when the deadline has passed    *)
(* and the last epoch is known to be stopped (Unstarted); nothing starts    *)
(* after that.                                                             *)
(***************************************************************************)
Gated == {"admit", "resolve", "confirm", "turn"}
Ending == {"stop", "reply", "complete"}
Starting == {"claimWake", "adopt", "run", "park"}
Expiring == {"expire", "reconfirm", "unknown", "flag"} \cup Ending
OnItsWay == rec.state \in {"woken", "active"}

(* The handler and the record it works under.                              *)
Tied(h) ==
    /\ Busy(h) /\ hs[h].gen = rec.gen /\ rec.gen # 0 => rec.wake = hs[h].e
    /\ Has(h) /\ hs[h].gen = 0 /\ hs[h].pc \in {"run", "park"} /\ done = "none" =>
         rec.state = "none"
    /\ Has(h) /\ hs[h].pc \in Gated =>
         rec.gen = hs[h].gen /\ rec.state \in {"active", "done", "expired"}
    /\ Has(h) /\ hs[h].pc \in Ending => rec.gen = hs[h].gen

(* Handler k may still open a turn under the record.                       *)
Opening(k) == Has(k) /\ hs[k].pc \in Starting /\ hs[k].gen = rec.gen

(* The wait is over: it is settled, or it has only its end left.           *)
Ended ==
    \/ done # "none"
    \/ /\ left = 0 /\ OnItsWay
       /\ \A k \in Handlers : Opening(k) => rec.state = "active"

Over ==
    /\ \A h \in Handlers : hs[h].pc \in Ending => Ended
    /\ shown \in {"answer", "expiry"} => Ended
    /\ rec.state = "woken" /\ rec.terminalOnly => Ended

(* A queued notice is sent while the event waits, under the lock.          *)
Noticing ==
    note.pc # "off" =>
      /\ lock
      /\ note.kind = "expiry" => done # "none"
      /\ note.kind = "queued" /\ note.pc \in {"check", "send"} =>
           done = "none" /\ rec.state = "waiting"

(* The flight index does not fall due before the deadline.                 *)
InFlight == OnItsWay => fly >= left

(* The record has no grant before the first turn is opened under the wait.  *)
Fresh == rec.state \in {"none", "waiting"} \/ (rec.state = "woken" /\ ~rec.terminalOnly)
Ungranted == rec.epoch = 0 /\ ~rec.ever /\ ~rec.unknown /\ ~rec.confirmed

(* What the record says of the grants, against what the runner granted.    *)
Grants ==
    /\ Fresh => Ungranted
    /\ ~rec.ever => started \subseteq {rec.epoch}
    /\ rec.ever => started # {}
    /\ rec.confirmed => rec.ever
    /\ rec.epoch # 0 => adm[rec.epoch] # "none"
    /\ \A n \in Epochs :
         /\ adm[n] = "granted" => n \in started
         /\ n \in started => adm[n] \in {"granted", "unknown"}

(* The last epoch is accounted for.                                        *)
Judged ==
    rec.epoch = 0 \/ rec.ever \/ rec.unknown
    \/ (rec.epoch \notin started /\ adm[rec.epoch] # "pending")

(* No turn was started, and none will be.                                  *)
Unstarted ==
    /\ left = 0 /\ started = {} /\ ~rec.ever
    /\ rec.epoch = 0 \/ adm[rec.epoch] # "pending"

TrueCause(c) ==
    /\ c = "capacity_wait_expired" => Unstarted
    /\ c = "delivery_exhausted" => started # {}

(* What a handler has in hand.                                             *)
Hand(h) ==
    /\ hs[h].pc \in {"grant", "admit", "resolve"} => adm[hs[h].epoch] # "none"
    /\ hs[h].pc \in Gated \cup {"reconfirm", "unknown"} =>
         hs[h].epoch \in Epochs /\ (hs[h].epoch = rec.epoch \/ rec.ever)
    /\ hs[h].pc \in {"confirm", "turn", "reconfirm"} => hs[h].epoch \in started
    /\ hs[h].pc = "flag" /\ hs[h].gen = rec.gen /\ OnItsWay => Judged
    /\ hs[h].pc \in Expiring => left = 0
    /\ hs[h].pc \in {"get", "mark"} => done # "none"
    /\ hs[h].pc \in Ending \cup {"mark"} => TrueCause(hs[h].cause)

(* The cause that the record has, and what was told.  The reconciler writes *)
(* a cause before the last epoch is accounted for; nobody acts on it until  *)
(* it is.                                                                  *)
Reports ==
    /\ rec.cause = "delivery_exhausted" => started # {}
    /\ rec.cause = "capacity_wait_expired" =>
         \/ Unstarted
         \/ /\ done = "none" /\ rec.state = "woken" /\ rec.terminalOnly
            /\ \A h \in Handlers : ~(Has(h) /\ hs[h].pc \in Ending)
    /\ rec.state \in {"none", "waiting"} => rec.cause = ""
    /\ rec.state = "none" => told = ""
    /\ TrueCause(told)
    /\ done = "answer" => started # {} \/ rec.state = "none"

Story ==
    /\ \A h \in Handlers : Tied(h) /\ Hand(h)
    /\ Over /\ Noticing /\ InFlight /\ Grants /\ Reports

(* A handler that stays where it is, or stops.                             *)
Follows(k) == hs'[k] = Idle \/ (hs'[k] = hs[k] /\ (Has(k)' => Has(k)))

(* A handler that goes on, in a step that does not end the wait.           *)
Arrives(k) ==
    /\ Tied(k)' /\ Hand(k)'
    /\ hs'[k].pc \in Ending =>
         /\ Ended
         /\ rec'.cause = "capacity_wait_expired" /\ Has(k)' =>
              Unstarted \/ (Has(k) /\ hs[k].pc \in Ending)
    /\ Opening(k)' => Opening(k) \/ left # 0 \/ rec.state # "woken"

(* The runner opens a turn, stops epochs, and forgets.                      *)
Settles(n) ==
    \/ adm'[n] = adm[n]
    \/ adm[n] = "none" /\ adm'[n] = "pending"
    \/ adm[n] = "pending" /\ adm'[n] = "denied"
    \/ adm[n] # "none" /\ adm'[n] = "unknown"

(* The record of the wait is annotated: a grant is confirmed or doubted, a  *)
(* cause is given.                                                         *)
Annotated ==
    /\ rec'.state = rec.state /\ rec'.gen = rec.gen /\ rec'.wake = rec.wake
    /\ rec'.terminalOnly <=> rec.terminalOnly
    /\ rec'.epoch = rec.epoch
    /\ rec.ever => rec'.ever
    /\ rec'.ever => rec.ever \/ started # {}
    /\ rec'.confirmed => rec'.ever
    /\ rec.unknown => rec'.unknown \/ rec'.ever
    /\ Fresh => ~rec'.ever /\ ~rec'.unknown /\ ~rec'.confirmed
    /\ \/ rec'.cause = rec.cause
       \/ rec.state \notin {"none", "waiting"} /\ TrueCause(rec'.cause)

Ordinary ==
    /\ UNCHANGED <<left, fly, started, done, note, lock, told, shown>>
    /\ Annotated /\ \A n \in Epochs : Settles(n)

-----------------------------------------------------------------------------
LEMMA RecordKept ==
  ASSUME Grants, rec' = rec
  PROVE  Annotated
BY DEF Annotated, Grants, Ungranted

(* What was accounted for stays so.                                        *)
LEMMA VerdictStays ==
  ASSUME Types, Types', Grants, Ordinary
  PROVE  (Unstarted => Unstarted') /\ (Judged => Judged') /\ Grants'
<1>1. /\ rec.epoch \in Epochs \cup {0} /\ adm \in [Epochs -> Decisions]
      /\ started \subseteq Epochs
  BY DEF Types, RunnerTypes, RecordSet
<1>2. /\ rec'.state = rec.state /\ rec'.epoch = rec.epoch /\ started' = started /\ left' = left
      /\ rec'.terminalOnly <=> rec.terminalOnly
      /\ rec.ever => rec'.ever
      /\ rec'.ever => rec.ever \/ started # {}
      /\ rec'.confirmed => rec'.ever
      /\ rec.unknown => rec'.unknown \/ rec'.ever
      /\ Fresh => ~rec'.ever /\ ~rec'.unknown /\ ~rec'.confirmed
  BY DEF Ordinary, Annotated
<1>3. \A n \in Epochs : Settles(n)
  BY DEF Ordinary
<1>4. ASSUME NEW n \in Epochs
      PROVE  /\ adm[n] # "none" => adm'[n] # "none"
             /\ adm[n] \notin {"none", "pending"} => adm'[n] # "pending"
             /\ adm'[n] = "granted" => adm[n] = "granted"
             /\ adm[n] \in {"granted", "unknown"} => adm'[n] \in {"granted", "unknown"}
  BY <1>3 DEF Settles
<1>5. Unstarted => Unstarted'
  BY <1>1, <1>2, <1>4 DEF Unstarted, Grants
<1>6. Judged => Judged'
  BY <1>1, <1>2, <1>4 DEF Judged, Grants
<1>7. Grants'
  BY <1>1, <1>2, <1>4 DEF Grants, Fresh, Ungranted
<1> QED
  BY <1>5, <1>6, <1>7

(* A handler that stays keeps what it has.                                 *)
LEMMA FollowsKeeps ==
  ASSUME Types, Types', Safe, Story, Ordinary, NEW k \in Handlers, Follows(k)
  PROVE  Tied(k)' /\ Hand(k)'
<1>1. CASE hs'[k] = Idle
  <2>1. hs'[k].pc = "idle"
    BY <1>1, IdleIsFree
  <2>2. Tied(k)'
    BY <2>1 DEF Tied, Busy, Has
  <2>3. Hand(k)'
    BY <2>1 DEF Hand, Gated, Ending, Expiring
  <2> QED
    BY <2>2, <2>3
<1>2. CASE hs'[k] = hs[k] /\ (Has(k)' => Has(k))
  <2>1. Tied(k) /\ Hand(k) /\ Grants
    BY DEF Story
  <2>2. /\ rec'.state = rec.state /\ rec'.gen = rec.gen /\ rec'.wake = rec.wake /\ done' = done
        /\ left' = left /\ rec'.epoch = rec.epoch /\ (rec.ever => rec'.ever) /\ started' = started
    BY DEF Ordinary, Annotated
  <2>3. (Unstarted => Unstarted') /\ (Judged => Judged')
    BY <2>1, VerdictStays
  <2>4. Tied(k)'
    BY <1>2, <2>1, <2>2 DEF Tied, Busy
  <2>5. hs[k].pc \in {"grant", "admit", "resolve"} => adm'[hs[k].epoch] # "none"
    <3>1. hs[k].epoch \in Epochs => Settles(hs[k].epoch)
      BY DEF Ordinary
    <3>2. hs[k].pc \in {"grant", "admit", "resolve"} => hs[k].epoch \in Epochs
      BY DEF Safe, Places, Busy
    <3> QED
      BY <2>1, <3>1, <3>2 DEF Hand, Settles
  <2>6. Hand(k)'
    BY <1>2, <2>1, <2>2, <2>3, <2>5 DEF Hand, TrueCause, OnItsWay
  <2> QED
    BY <2>4, <2>6
<1> QED
  BY <1>1, <1>2 DEF Follows

LEMMA OrdinaryStep ==
  ASSUME Types, Types', Safe, Story, Ordinary, \A k \in Handlers : Follows(k) \/ Arrives(k)
  PROVE  Story'
<1>1. /\ rec'.state = rec.state /\ rec'.gen = rec.gen /\ rec'.wake = rec.wake
      /\ left' = left /\ fly' = fly /\ started' = started /\ done' = done
      /\ rec'.terminalOnly <=> rec.terminalOnly
      /\ \/ rec'.cause = rec.cause
         \/ rec.state \notin {"none", "waiting"} /\ TrueCause(rec'.cause)
  BY DEF Ordinary, Annotated
<1>2. note' = note /\ lock' = lock /\ told' = told /\ shown' = shown
  BY DEF Ordinary
<1>3. Grants /\ Over /\ Noticing /\ InFlight /\ Reports
  BY DEF Story
<1>4. (Unstarted => Unstarted') /\ Grants'
  BY <1>3, VerdictStays
<1>5. \A h \in Handlers : Tied(h)' /\ Hand(h)'
  BY FollowsKeeps DEF Arrives
<1>6. ASSUME NEW k \in Handlers, Opening(k)'
      PROVE  Opening(k) \/ left # 0 \/ rec.state # "woken"
  <2>1. CASE Follows(k)
    <3>1. hs'[k].pc # "idle" /\ Has(k)' /\ hs'[k].pc \in Starting /\ hs'[k].gen = rec.gen
      BY <1>1, <1>6 DEF Opening, Has, Busy
    <3> QED
      BY <2>1, <3>1, IdleIsFree DEF Follows, Opening
  <2> QED
    BY <1>6, <2>1 DEF Arrives
<1>7. Ended => Ended'
  BY <1>1, <1>6 DEF Ended, OnItsWay
<1>8. Over'
  <2>1. ASSUME NEW k \in Handlers, hs'[k].pc \in Ending PROVE Ended
    BY <1>3, <2>1, IdleIsFree DEF Arrives, Follows, Over, Ending
  <2> QED
    BY <1>1, <1>2, <1>3, <1>7, <2>1 DEF Over
<1>9. Noticing' /\ InFlight'
  BY <1>1, <1>2, <1>3 DEF Noticing, InFlight, OnItsWay
<1>10. ASSUME NEW k \in Handlers, Has(k)', hs'[k].pc \in Ending, rec'.cause = "capacity_wait_expired"
       PROVE  Unstarted \/ (Has(k) /\ hs[k].pc \in Ending)
  BY <1>10, IdleIsFree DEF Arrives, Follows, Ending
<1>11. Reports'
  BY <1>1, <1>2, <1>3, <1>4, <1>10 DEF Reports, TrueCause
<1> QED
  BY <1>4, <1>5, <1>8, <1>9, <1>11 DEF Story

(* Leases are given up, handlers stop.                                     *)
LEMMA FollowAll ==
  ASSUME Types, Leases,
         \A k \in Handlers : hs'[k] = hs[k] \/ hs'[k] = Idle,
         \A d \in 1 .. Len(stream) : stream'[d].lease \in {stream[d].lease, None}
  PROVE  \A k \in Handlers : Follows(k)
<1> SUFFICES ASSUME NEW k \in Handlers, hs'[k] # Idle PROVE Follows(k)
  BY DEF Follows
<1>1. hs'[k] = hs[k]
  OBVIOUS
<1>2. Busy(k) => hs[k].e \in 1 .. Len(stream)
  BY Queue
<1>3. Has(k)' => Has(k)
  BY <1>1, <1>2, WaitAssumption DEF Has, Busy, Lost, Mine
<1> QED
  BY <1>1, <1>3 DEF Follows

LEMMA DropFollows ==
  ASSUME Types, Leases, NEW h \in Handlers, Busy(h), Drop(h)
  PROVE  \A k \in Handlers : Follows(k)
<1>1. hs[h].e \in 1 .. Len(stream)
  BY Queue
<1>2. /\ hs' = [hs EXCEPT ![h] = Idle]
      /\ stream' = IF Lost(h) THEN stream ELSE [stream EXCEPT ![hs[h].e].lease = None]
  BY DEF Drop, End
<1>3. \A k \in Handlers : hs'[k] = hs[k] \/ hs'[k] = Idle
  BY <1>2, HandlerStep, IdleTyped
<1>4. \A d \in 1 .. Len(stream) : stream'[d].lease \in {stream[d].lease, None}
  BY <1>1, <1>2, Unleased
<1> QED
  BY <1>3, <1>4, FollowAll

LEMMA EndFollows ==
  ASSUME Types, Leases, NEW h \in Handlers, Has(h),
         End(h, [stream EXCEPT ![hs[h].e].row = "acked"])
  PROVE  \A k \in Handlers : Follows(k)
<1> DEFINE r == [stream[hs[h].e] EXCEPT !.row = "acked", !.lease = None]
<1>1. Retired(hs[h].e) /\ hs[h].e \in 1 .. Len(stream)
  BY EndRetires
<1>2. stream[hs[h].e] \in EntrySet
  BY <1>1, Queue
<1>3. r \in EntrySet /\ r.lease = None
  BY <1>2 DEF EntrySet
<1>4. stream' = [stream EXCEPT ![hs[h].e] = r]
  BY <1>1 DEF Retired
<1> HIDE DEF r
<1>5. \A d \in 1 .. Len(stream) : stream'[d] = stream[d] \/ stream'[d].lease = None
  BY <1>1, <1>3, <1>4, Updated
<1>6. \A k \in Handlers : hs'[k] = hs[k] \/ hs'[k] = Idle
  BY <1>1 DEF Retired
<1> QED
  BY <1>5, <1>6, FollowAll

(* Handler h goes on with its entry.                                       *)
LEMMA MoveFollows ==
  ASSUME Types, NEW h \in Handlers, Busy(h), UNCHANGED stream,
         NEW s \in HandlerSet, hs' = [hs EXCEPT ![h] = s], s.e = hs[h].e
  PROVE  /\ hs'[h] = s /\ (Has(h)' => Has(h))
         /\ \A k \in Handlers : k # h => Follows(k)
<1>1. hs'[h] = s /\ \A k \in Handlers : k # h => hs'[k] = hs[k]
  BY HandlerStep
<1>2. Has(h)' => Has(h)
  BY <1>1 DEF Has, Busy, Lost, Mine
<1>3. ASSUME NEW k \in Handlers, k # h PROVE Follows(k)
  BY <1>1, <1>3 DEF Follows, Has, Busy, Lost, Mine
<1> QED
  BY <1>1, <1>2, <1>3

LEMMA GoFollows ==
  ASSUME Types, NEW h \in Handlers, Busy(h), NEW step \in Steps, Go(h, step)
  PROVE  /\ hs'[h].pc = step /\ hs'[h].e = hs[h].e /\ hs'[h].gen = hs[h].gen
         /\ hs'[h].epoch = hs[h].epoch /\ hs'[h].cause = hs[h].cause
         /\ Has(h)' => Has(h)
         /\ \A k \in Handlers : k # h => Follows(k)
<1> DEFINE s == [hs[h] EXCEPT !.pc = step]
<1>1. hs[h] \in HandlerSet
  BY DEF Types, QueueTypes
<1>2. ASSUME NEW q \in HandlerSet, NEW p \in Steps
      PROVE  /\ [q EXCEPT !.pc = p] \in HandlerSet /\ [q EXCEPT !.pc = p].pc = p
             /\ [q EXCEPT !.pc = p].e = q.e /\ [q EXCEPT !.pc = p].gen = q.gen
             /\ [q EXCEPT !.pc = p].epoch = q.epoch /\ [q EXCEPT !.pc = p].cause = q.cause
  BY DEF HandlerSet
<1>3. /\ s \in HandlerSet /\ s.pc = step /\ s.e = hs[h].e /\ s.gen = hs[h].gen
      /\ s.epoch = hs[h].epoch /\ s.cause = hs[h].cause
  BY <1>1, <1>2, Zenon
<1>4. hs' = [hs EXCEPT ![h] = s] /\ UNCHANGED stream
  BY DEF Go, qVars
<1> HIDE DEF s
<1> QED
  BY <1>3, <1>4, MoveFollows

(* Where a handler may go in an ordinary step.                             *)
Lands(h, step) ==
    /\ step \in Steps \ {"grant", "admit", "reconfirm", "unknown", "mark"}
    /\ step \in {"run", "park"} /\ hs[h].gen = 0 /\ Has(h) /\ done = "none" =>
         rec.state = "none"
    /\ step \in Starting /\ Has(h) /\ hs[h].gen = rec.gen =>
         hs[h].pc \in Starting \/ left # 0 \/ rec.state # "woken"
    /\ step \in Gated => hs[h].pc \in Gated
    /\ step \in {"confirm", "turn"} => hs[h].epoch \in started
    /\ step = "resolve" => hs[h].pc = "admit"
    /\ step = "flag" /\ hs[h].gen = rec.gen /\ OnItsWay => Judged \/ Judged'
    /\ step \in Expiring => left = 0
    /\ step = "get" => done # "none"
    /\ step \in Ending => hs[h].pc \in Ending

LEMMA DropStory ==
  ASSUME Types, Types', Safe, Story, Ordinary, NEW h \in Handlers, Busy(h), Drop(h)
  PROVE  Story'
<1>1. \A k \in Handlers : Follows(k)
  BY DropFollows DEF Safe
<1> QED
  BY <1>1, OrdinaryStep

LEMMA GoStory ==
  ASSUME Types, Types', Safe, Story, Ordinary, NEW h \in Handlers, Busy(h),
         NEW step, Go(h, step), Lands(h, step)
  PROVE  Story'
<1>1. /\ hs'[h].pc = step /\ hs'[h].e = hs[h].e /\ hs'[h].gen = hs[h].gen
      /\ hs'[h].epoch = hs[h].epoch /\ hs'[h].cause = hs[h].cause
      /\ Has(h)' => Has(h)
      /\ \A k \in Handlers : k # h => Follows(k)
  BY GoFollows DEF Lands
<1>2. /\ rec'.state = rec.state /\ rec'.gen = rec.gen /\ rec'.wake = rec.wake /\ done' = done
      /\ left' = left /\ rec'.epoch = rec.epoch /\ (rec.ever => rec'.ever) /\ started' = started
  BY DEF Ordinary, Annotated
<1>3. Tied(h) /\ Hand(h) /\ Grants /\ Over
  BY DEF Story
<1>4. (Unstarted => Unstarted') /\ (Judged => Judged')
  BY <1>3, VerdictStays
<1>5. Tied(h)'
  BY <1>1, <1>2, <1>3 DEF Tied, Lands
<1>6. step = "resolve" => adm'[hs[h].epoch] # "none"
  <2>1. step = "resolve" => hs[h].epoch \in Epochs /\ adm[hs[h].epoch] # "none"
    BY <1>3 DEF Lands, Hand, Gated
  <2>2. hs[h].epoch \in Epochs => Settles(hs[h].epoch)
    BY DEF Ordinary
  <2> QED
    BY <2>1, <2>2 DEF Settles
<1>7. Hand(h)'
  BY <1>1, <1>2, <1>3, <1>4, <1>6 DEF Hand, Lands, TrueCause, OnItsWay, Gated, Ending
<1>8. Opening(h)' => Opening(h) \/ left # 0 \/ rec.state # "woken"
  BY <1>1, <1>2 DEF Opening, Lands
<1>9. Arrives(h)
  BY <1>1, <1>3, <1>5, <1>7, <1>8 DEF Arrives, Over, Lands
<1> QED
  BY <1>1, <1>9, OrdinaryStep

LEMMA HeldStory ==
  ASSUME Types, Types', Safe, Story, Ordinary, NEW h \in Handlers, Busy(h),
         NEW step, Held(h, step), Lands(h, step)
  PROVE  Story'
BY GoStory, DropStory DEF Held

(* Only the queue and the handlers change.                                 *)
LEMMA PlainOrdinary ==
  ASSUME Story, UNCHANGED <<rec, tVars, adm, nVars, done, xVars>>
  PROVE  Ordinary
<1>1. UNCHANGED <<rec, left, fly, adm, note, lock, done, started, told, shown>>
  BY DEF tVars, nVars, xVars
<1>2. Annotated
  BY <1>1, RecordKept DEF Story
<1>3. \A n \in Epochs : Settles(n)
  BY <1>1 DEF Settles
<1> QED
  BY <1>1, <1>2, <1>3 DEF Ordinary

LEMMA TakeStory ==
  ASSUME Types, Types', Safe, Story, NEW h \in Handlers, Take(h)
  PROVE  Story'
<1>1. PICK e \in DOMAIN stream :
         stream[e].row # "acked" /\ stream[e].lease = None /\ Deliver(h, e)
  BY DEF Take, Read, Reclaim, Safe, Leases
<1>2. hs[h].pc = "idle"
  BY DEF Take, Read, Reclaim
<1>3. /\ Leases /\ Generations /\ Copies /\ e \in 1 .. Len(stream) /\ stream[e] \in EntrySet
      /\ \A k \in Handlers : Busy(k) => hs[k].e \in 1 .. Len(stream)
      /\ DOMAIN stream = 1 .. Len(stream) /\ stream = [d \in 1 .. Len(stream) |-> stream[d]]
  BY <1>1, Queue, LenProperties DEF Safe, Types, QueueTypes
<1>4. Ordinary /\ resume \in BOOLEAN
  BY <1>1, PlainOrdinary DEF Deliver, Types, PlainTypes
<1>5. \A d \in 1 .. Len(stream) : d # e => stream'[d] = stream[d]
  BY <1>1, <1>3 DEF Deliver
<1>6. stream'[e].lease = h
  BY <1>1, <1>3 DEF Deliver, EntrySet
<1>7. /\ hs'[h].e = e /\ hs'[h].gen = stream[e].gen
      /\ hs'[h].pc = IF stream[e].gen # 0 THEN "check" ELSE IF resume THEN "claim" ELSE "run"
      /\ \A k \in Handlers : k # h => hs'[k] = hs[k]
  BY <1>1 DEF Deliver, Types, QueueTypes, Idle
<1>8. ASSUME NEW k \in Handlers, k # h PROVE Follows(k)
  <2>1. hs'[k] = hs[k]
    BY <1>7, <1>8
  <2>2. Has(k)' => Has(k)
    BY <1>3, <1>5, <1>6, <1>8, <2>1 DEF Has, Busy, Lost, Mine
  <2> QED
    BY <2>1, <2>2 DEF Follows
<1>9. rec' = rec /\ done' = done
  BY <1>1 DEF Deliver
<1>10. hs'[h].pc = "run" => rec.state = "none" /\ stream[e].gen = 0
  <2>1. hs'[h].pc = "run" => resume = FALSE /\ stream[e].gen = 0
    BY <1>4, <1>7
  <2>2. hs'[h].pc = "run" => e = 1
    BY <1>3, <2>1 DEF Generations
  <2> QED
    BY <1>1, <1>3, <2>1, <2>2 DEF Copies
<1>11. Tied(h)'
  <2>1. stream[e].gen = rec.gen /\ rec.gen # 0 => rec.wake = e
    BY <1>3 DEF Generations
  <2>2. hs'[h].pc \in {"check", "claim", "run"}
    BY <1>7
  <2> QED
    BY <1>7, <1>9, <1>10, <2>1, <2>2 DEF Tied, Gated, Ending
<1>12. hs'[h].pc \in {"check", "claim", "run"}
  BY <1>7
<1>13. Hand(h)' /\ hs'[h].pc \notin Ending
  BY <1>12 DEF Hand, Gated, Expiring, Ending
<1>14. Opening(h)' => rec.state # "woken"
  BY <1>10, <1>12 DEF Opening, Starting
<1>15. Arrives(h)
  BY <1>11, <1>13, <1>14 DEF Arrives
<1> QED
  BY <1>4, <1>8, <1>15, OrdinaryStep

LEMMA DeadLetterStory ==
  ASSUME Types, Types', Safe, Story, DeadLetter
  PROVE  Story'
<1>1. Ordinary
  BY PlainOrdinary DEF DeadLetter
<1>2. PICK e \in DOMAIN stream : stream' = [stream EXCEPT ![e].row = "acked"]
  BY DEF DeadLetter
<1>3. e \in 1 .. Len(stream) /\ stream[e] \in EntrySet /\ Leases
  BY Queue DEF Safe
<1> DEFINE r == [stream[e] EXCEPT !.row = "acked"]
<1>4. r \in EntrySet /\ r.lease = stream[e].lease
  BY <1>3 DEF EntrySet
<1>5. stream' = [stream EXCEPT ![e] = r]
  BY <1>2
<1> HIDE DEF r
<1>6. \A d \in 1 .. Len(stream) : stream'[d].lease = stream[d].lease
  BY <1>3, <1>4, <1>5, Updated
<1>7. \A k \in Handlers : Follows(k)
  BY <1>3, <1>6, FollowAll DEF DeadLetter
<1> QED
  BY <1>1, <1>7, OrdinaryStep

(* A lease is lost, or a process.                                          *)
LEMMA LossStory ==
  ASSUME Types, Types', Safe, Story, LeaseExpires \/ \E h \in Handlers : LoseLease(h) \/ Crash(h)
  PROVE  Story'
<1>1. Ordinary
  BY PlainOrdinary DEF LeaseExpires, LoseLease, Crash
<1>2. CASE \E e \in DOMAIN stream : Expire(e) /\ hs' = hs
  <2>1. PICK e \in DOMAIN stream : Expire(e) /\ hs' = hs
    BY <1>2
  <2>2. e \in 1 .. Len(stream) /\ Leases
    BY Queue DEF Safe
  <2>3. \A d \in 1 .. Len(stream) : stream'[d].lease \in {stream[d].lease, None}
    BY <2>1, <2>2, Unleased DEF Expire
  <2> QED
    BY <1>1, <2>1, <2>2, <2>3, FollowAll, OrdinaryStep
<1>3. CASE \E h \in Handlers : Crash(h)
  <2>1. PICK h \in Handlers : hs' = [hs EXCEPT ![h] = Idle] /\ UNCHANGED stream
    BY <1>3 DEF Crash, qVars
  <2>2. \A k \in Handlers : hs'[k] = hs[k] \/ hs'[k] = Idle
    BY <2>1, HandlerStep, IdleTyped
  <2>3. \A k \in Handlers : Follows(k)
    BY <2>1, <2>2, FollowAll DEF Safe
  <2> QED
    BY <1>1, <2>3, OrdinaryStep
<1>4. ASSUME NEW h \in Handlers, LoseLease(h)
      PROVE  \E e \in DOMAIN stream : Expire(e) /\ hs' = hs
  BY <1>4 DEF LoseLease, Safe, Leases, Busy
<1>5. LeaseExpires => \E e \in DOMAIN stream : Expire(e) /\ hs' = hs
  BY DEF LeaseExpires
<1> QED
  BY <1>2, <1>3, <1>4, <1>5

LEMMA ClaimResumeStory ==
  ASSUME Types, Types', Safe, Story, NEW h \in Handlers, ClaimResume(h)
  PROVE  Story'
<1>1. Ordinary /\ Busy(h) /\ hs[h].pc \in {"claim", "claimWake"}
  BY PlainOrdinary DEF ClaimResume, Busy
<1>2. CASE Drop(h)
  BY <1>1, <1>2, DropStory
<1>3. CASE Go(h, "ack")
  <2>1. Lands(h, "ack")
    BY DEF Lands, Steps, Starting, Gated, Expiring, Ending
  <2> QED
    BY <1>1, <1>3, <2>1, GoStory
<1>4. CASE /\ hs' = [hs EXCEPT ![h].pc = IF @ = "claim" THEN "prepare" ELSE "run"]
           /\ UNCHANGED stream
  <2> DEFINE p == IF hs[h].pc = "claim" THEN "prepare" ELSE "run"
             s == [hs[h] EXCEPT !.pc = p]
  <2>1. hs[h] \in HandlerSet /\ p \in Steps /\ Tied(h) /\ Places
    BY DEF Types, QueueTypes, Steps, Running, Story, Safe
  <2>2. s \in HandlerSet /\ s.pc = p /\ s.e = hs[h].e /\ s.gen = hs[h].gen
    BY <2>1 DEF HandlerSet
  <2>3. hs' = [hs EXCEPT ![h] = s]
    BY <1>4
  <2> HIDE DEF s
  <2>4. hs'[h] = s /\ (Has(h)' => Has(h)) /\ \A k \in Handlers : k # h => Follows(k)
    BY <1>1, <1>4, <2>2, <2>3, MoveFollows
  <2>5. rec' = rec /\ done' = done
    BY DEF ClaimResume
  <2>6. s.pc = "prepare" \/ (s.pc = "run" /\ hs[h].pc = "claimWake" /\ hs[h].gen # 0)
    BY <1>1, <2>1, <2>2 DEF Places
  <2>7. Tied(h)'
    BY <1>1, <2>1, <2>2, <2>4, <2>5, <2>6 DEF Tied, Gated, Ending
  <2>8. Hand(h)' /\ hs'[h].pc \notin Ending
    BY <2>4, <2>6 DEF Hand, Gated, Expiring, Ending
  <2>9. Opening(h)' => Opening(h)
    BY <2>2, <2>4, <2>5, <2>6 DEF Opening, Starting
  <2>10. Arrives(h)
    BY <2>7, <2>8, <2>9 DEF Arrives
  <2> QED
    BY <1>1, <2>4, <2>10, OrdinaryStep
<1> QED
  BY <1>2, <1>3, <1>4 DEF ClaimResume

LEMMA CheckWaitStory ==
  ASSUME Types, Types', Safe, Story, NEW h \in Handlers, CheckWait(h)
  PROVE  Story'
<1> DEFINE status == CheckDelivery(hs[h].gen)
<1>1. Ordinary /\ Busy(h) /\ hs[h].pc = "check" /\ hs[h].gen # 0
  BY PlainOrdinary DEF CheckWait, Busy, Safe, Places
<1>2. Lands(h, "ack")
  BY DEF Lands, Steps, Starting, Gated, Expiring, Ending
<1>3. done # "none" => Lands(h, "get")
  BY DEF Lands, Steps, Starting, Gated, Expiring, Ending
<1>4. status = "expired" => Lands(h, "expire")
  BY DEF Lands, Steps, Starting, Gated, Ending, CheckDelivery
<1>5. status = "ready" => left # 0 \/ rec.state # "woken"
  BY DEF CheckDelivery
<1>6. status = "ready" => \A p \in {"claimWake", "adopt", "run"} : Lands(h, p)
  BY <1>1, <1>5 DEF Lands, Steps, Running, Gated, Expiring, Ending
<1>7. status \in {"stale", "ready", "expired", "pending"}
  BY DEF CheckDelivery
<1>8. \/ Drop(h) \/ Held(h, "ack") \/ (done # "none" /\ Go(h, "get"))
      \/ status = "expired" /\ Go(h, "expire")
      \/ status = "ready" /\ (Held(h, "claimWake") \/ Go(h, "adopt") \/ Go(h, "run"))
  BY <1>7 DEF CheckWait
<1> HIDE DEF status
<1> QED
  BY <1>1, <1>2, <1>3, <1>4, <1>6, <1>8, DropStory, GoStory, HeldStory

LEMMA BeforeTurnStory ==
  ASSUME Types, Types', Safe, Story, NEW h \in Handlers,
         SkipDone(h) \/ NoCapacity(h) \/ Fail(h) \/ WaitOver(h)
  PROVE  Story'
<1>1. Ordinary /\ Busy(h) /\ Tied(h)
  BY PlainOrdinary DEF SkipDone, NoCapacity, Fail, WaitOver, Busy, Story
<1>2. CASE SkipDone(h)
  <2>1. Lands(h, "ack") /\ Lands(h, "get")
    BY <1>2 DEF SkipDone, Lands, Steps, Starting, Gated, Expiring, Ending
  <2>2. Held(h, "ack") \/ Held(h, "get")
    BY <1>2 DEF SkipDone
  <2> QED
    BY <1>1, <2>1, <2>2, HeldStory
<1>3. CASE NoCapacity(h)
  <2>1. Lands(h, "park")
    BY <1>1, <1>3 DEF NoCapacity, Lands, Steps, Running, Starting, Gated, Expiring, Ending, Tied
  <2> QED
    BY <1>1, <1>3, <2>1, HeldStory DEF NoCapacity
<1>4. CASE Fail(h)
  BY <1>1, <1>4, DropStory DEF Fail
<1>5. CASE WaitOver(h)
  <2>1. CheckDelivery(hs[h].gen) = "expired" => Lands(h, "expire")
    BY DEF Lands, Steps, Starting, Gated, Ending, CheckDelivery
  <2> QED
    BY <1>1, <1>5, <2>1, DropStory, GoStory DEF WaitOver
<1> QED
  BY <1>2, <1>3, <1>4, <1>5

LEMMA GetRecordStory ==
  ASSUME Types, Types', Safe, Story, NEW h \in Handlers, GetRecord(h)
  PROVE  Story'
<1>1. Ordinary /\ Busy(h) /\ hs[h] \in HandlerSet /\ hs[h].pc = "get"
  BY PlainOrdinary DEF GetRecord, Busy, Types, QueueTypes, qVars
<1>2. Tied(h) /\ Hand(h) /\ Reports /\ Grants /\ hs[h].gen # 0
  BY <1>1 DEF Story, Safe, Places
<1>3. PICK x \in States, c \in Causes : x = rec.state /\ c = rec.cause
  BY DEF Types, RecordSet
<1> DEFINE s == [hs[h] EXCEPT !.pc = "mark", !.state = x, !.cause = c]
<1>4. s \in HandlerSet /\ s.pc = "mark" /\ s.e = hs[h].e /\ s.gen = hs[h].gen /\ s.cause = c
  BY <1>1 DEF HandlerSet, Steps
<1>5. hs' = [hs EXCEPT ![h] = s] /\ UNCHANGED stream
  BY <1>3 DEF GetRecord, qVars
<1> HIDE DEF s
<1>6. hs'[h] = s /\ (Has(h)' => Has(h)) /\ \A k \in Handlers : k # h => Follows(k)
  BY <1>1, <1>4, <1>5, MoveFollows
<1>7. rec' = rec /\ done' = done /\ started' = started
  BY DEF GetRecord, xVars
<1>8. Tied(h)'
  BY <1>1, <1>2, <1>4, <1>6, <1>7 DEF Tied, Gated, Ending, Busy
<1>9. done # "none" /\ TrueCause(c)
  BY <1>1, <1>2, <1>3 DEF Hand, Reports, TrueCause
<1>10. Unstarted => Unstarted'
  BY <1>1, <1>2, VerdictStays
<1>11. Hand(h)' /\ hs'[h].pc \notin Ending /\ ~Opening(h)'
  BY <1>4, <1>6, <1>7, <1>9, <1>10 DEF Hand, Gated, Expiring, Ending, TrueCause, Opening, Starting
<1>12. Arrives(h)
  BY <1>8, <1>11 DEF Arrives
<1> QED
  BY <1>1, <1>6, <1>12, OrdinaryStep

LEMMA AckStory ==
  ASSUME Types, Types', Safe, Story, NEW h \in Handlers, Ack(h)
  PROVE  Story'
<1>1. Ordinary /\ Busy(h)
  BY PlainOrdinary DEF Ack, Busy
<1>2. CASE Lost(h)
  BY <1>1, <1>2, DropStory DEF Ack
<1>3. CASE ~Lost(h)
  <2>1. \A k \in Handlers : Follows(k)
    BY <1>1, <1>3, EndFollows DEF Ack, Has, Safe
  <2> QED
    BY <1>1, <2>1, OrdinaryStep
<1> QED
  BY <1>2, <1>3

(* The runner is asked, and the record annotated.                          *)
LEMMA QuiescedSettles ==
  ASSUME Types, NEW n \in Epochs \cup {0}, adm' = Quiesced(n)
  PROVE  (\A m \in Epochs : Settles(m)) /\ (n # 0 => adm'[n] = Decision(n))
<1>1. adm \in [Epochs -> Decisions]
  BY DEF Types, RunnerTypes
<1>2. CASE n = 0
  BY <1>2 DEF Quiesced, Settles
<1>3. CASE n # 0
  <2>1. n \in Epochs /\ adm' = [adm EXCEPT ![n] = Decision(n)]
    BY <1>3 DEF Quiesced
  <2>2. adm'[n] = Decision(n) /\ \A m \in Epochs : m # n => adm'[m] = adm[m]
    BY <1>1, <2>1
  <2> QED
    BY <2>2 DEF Settles, Decision
<1> QED
  BY <1>2, <1>3

LEMMA StopSettles ==
  ASSUME Types, NEW n \in Epochs \cup {0}, StopOrNot(n)
  PROVE  \A m \in Epochs : Settles(m)
BY QuiescedSettles DEF StopOrNot, Settles

LEMMA AnnotatedOrdinary ==
  ASSUME Annotated, \A n \in Epochs : Settles(n), UNCHANGED <<tVars, nVars, done, xVars>>
  PROVE  Ordinary
BY DEF Ordinary, tVars, nVars, xVars

LEMMA RunnerOrdinary ==
  ASSUME Story, \A n \in Epochs : Settles(n), UNCHANGED <<rec, tVars, nVars, done, xVars>>
  PROVE  Ordinary
<1>1. Annotated
  BY RecordKept DEF Story
<1> QED
  BY <1>1, AnnotatedOrdinary

LEMMA DoubtedAnnotates ==
  ASSUME Types, Grants, NEW h \in Handlers, NEW n, rec' = Doubted(h, n)
  PROVE  /\ Annotated
         /\ Granting(h) /\ rec.epoch = n /\ ~rec.confirmed => rec'.unknown
<1>1. CASE rec' = rec /\ ~(Granting(h) /\ rec.epoch = n /\ ~rec.confirmed)
  BY <1>1, RecordKept
<1>2. CASE rec' = [rec EXCEPT !.unknown = TRUE] /\ Granting(h)
  <2>1. rec \in RecordSet
    BY DEF Types
  <2>2. /\ rec'.state = rec.state /\ rec'.gen = rec.gen /\ rec'.wake = rec.wake
        /\ rec'.terminalOnly = rec.terminalOnly /\ rec'.epoch = rec.epoch
        /\ rec'.ever = rec.ever /\ rec'.confirmed = rec.confirmed /\ rec'.cause = rec.cause
        /\ rec'.unknown = TRUE
    BY <1>2, <2>1 DEF RecordSet
  <2>3. ~Fresh
    BY <1>2 DEF Fresh, Granting
  <2> QED
    BY <2>2, <2>3 DEF Annotated, Grants
<1> QED
  BY <1>1, <1>2 DEF Doubted

LEMMA ConfirmedAnnotates ==
  ASSUME Types, Grants, NEW h \in Handlers, NEW n \in started, rec' = Confirmed(h, n)
  PROVE  Annotated /\ (MayConfirm(h, n) => rec'.ever)
<1>1. CASE rec' = rec /\ ~MayConfirm(h, n)
  BY <1>1, RecordKept
<1>2. CASE MayConfirm(h, n)
  <2> DEFINE c == IF rec.state = "woken" THEN "delivery_exhausted" ELSE rec.cause
  <2>1. rec \in RecordSet
    BY DEF Types
  <2>2. rec' = [rec EXCEPT !.confirmed = TRUE, !.ever = TRUE, !.unknown = FALSE, !.cause = c]
    BY <1>2 DEF Confirmed
  <2> HIDE DEF c
  <2>3. /\ rec'.state = rec.state /\ rec'.gen = rec.gen /\ rec'.wake = rec.wake
        /\ rec'.terminalOnly = rec.terminalOnly /\ rec'.epoch = rec.epoch
        /\ rec'.ever = TRUE /\ rec'.confirmed = TRUE /\ rec'.cause = c
    BY <2>1, <2>2 DEF RecordSet
  <2>4. ~Fresh /\ started # {} /\ rec.state \in {"active", "woken"}
    BY <1>2 DEF Fresh, Granting, MayConfirm
  <2>5. c = rec.cause \/ TrueCause(c)
    BY <2>4 DEF c, TrueCause
  <2> QED
    BY <2>3, <2>4, <2>5 DEF Annotated
<1> QED
  BY <1>1, <1>2 DEF Confirmed

LEMMA NoticeAnnotates ==
  ASSUME Types, Grants,
         rec' = [rec EXCEPT !.expiry = FALSE] \/ rec' = [rec EXCEPT !.notice = FALSE]
  PROVE  Annotated
<1>1. rec \in RecordSet
  BY DEF Types
<1>2. /\ rec'.state = rec.state /\ rec'.gen = rec.gen /\ rec'.wake = rec.wake
      /\ rec'.terminalOnly = rec.terminalOnly /\ rec'.epoch = rec.epoch /\ rec'.ever = rec.ever
      /\ rec'.unknown = rec.unknown /\ rec'.confirmed = rec.confirmed /\ rec'.cause = rec.cause
  BY <1>1 DEF RecordSet
<1> QED
  BY <1>2 DEF Annotated, Grants, Ungranted

LEMMA StopAdoptedStory ==
  ASSUME Types, Types', Safe, Story, NEW h \in Handlers, StopAdopted(h)
  PROVE  Story'
<1>1. Busy(h) /\ hs[h].pc = "adopt" /\ hs[h].gen # 0
  BY DEF StopAdopted, Busy, Safe, Places
<1>2. UNCHANGED <<rec, tVars, nVars, done, xVars>> /\ rec.epoch \in Epochs \cup {0}
  BY DEF StopAdopted, Types, RecordSet
<1>3. (\A n \in Epochs : Settles(n)) /\ (Go(h, "run") \/ Drop(h))
  BY <1>2, QuiescedSettles DEF StopAdopted, Settles
<1>4. Ordinary
  BY <1>2, <1>3, RunnerOrdinary
<1>5. Lands(h, "run")
  BY <1>1 DEF Lands, Steps, Running, Starting, Gated, Expiring, Ending
<1> QED
  BY <1>1, <1>3, <1>4, <1>5, GoStory, DropStory

LEMMA ResolveAdmitStory ==
  ASSUME Types, Types', Safe, Story, NEW h \in Handlers, ResolveAdmit(h)
  PROVE  Story'
<1> DEFINE n == hs[h].epoch
<1>1. Busy(h) /\ hs[h].pc = "resolve" /\ n \in Epochs
  BY DEF ResolveAdmit, Busy, Safe, Places
<1>2. UNCHANGED <<tVars, nVars, done, xVars>> /\ Grants
  BY DEF ResolveAdmit, Story
<1>3. adm[n] = "granted" => n \in started
  BY <1>1, <1>2 DEF Grants
<1>4. CASE adm[n] = "granted" /\ Held(h, "confirm") /\ UNCHANGED <<rec, adm>>
  <2>1. Ordinary
    BY <1>2, <1>4, PlainOrdinary
  <2>2. Lands(h, "confirm")
    BY <1>1, <1>3, <1>4 DEF Lands, Steps, Running, Starting, Gated, Expiring, Ending
  <2> QED
    BY <1>1, <1>4, <2>1, <2>2, HeldStory
<1>5. CASE adm' = Quiesced(n) /\ rec' = Recorded(h, n) /\ Drop(h)
  <2>1. \A m \in Epochs : Settles(m)
    BY <1>1, <1>5, QuiescedSettles
  <2>2. Decision(n) = "granted" => n \in started
    BY <1>3 DEF Decision
  <2>3. Annotated
    <3>1. CASE Decision(n) = "granted"
      BY <1>2, <1>5, <2>2, <3>1, ConfirmedAnnotates DEF Recorded
    <3>2. CASE Decision(n) = "unknown"
      BY <1>2, <1>5, <3>2, DoubtedAnnotates DEF Recorded
    <3>3. CASE Decision(n) \notin {"granted", "unknown"}
      BY <1>2, <1>5, <3>3, RecordKept DEF Recorded
    <3> QED
      BY <3>1, <3>2, <3>3
  <2>4. Ordinary
    BY <1>2, <2>1, <2>3, AnnotatedOrdinary
  <2> QED
    BY <1>1, <1>5, <2>4, DropStory
<1>6. CASE UNCHANGED adm /\ rec' = Doubted(h, n) /\ Drop(h)
  <2>1. Annotated /\ \A m \in Epochs : Settles(m)
    BY <1>2, <1>6, DoubtedAnnotates DEF Settles
  <2>2. Ordinary
    BY <1>2, <2>1, AnnotatedOrdinary
  <2> QED
    BY <1>1, <1>6, <2>2, DropStory
<1> QED
  BY <1>4, <1>5, <1>6 DEF ResolveAdmit

LEMMA ConfirmGrantStory ==
  ASSUME Types, Types', Safe, Story, NEW h \in Handlers, ConfirmGrant(h)
  PROVE  Story'
<1> DEFINE n == hs[h].epoch
<1>1. Busy(h) /\ hs[h].pc = "confirm" /\ n \in Epochs
  BY DEF ConfirmGrant, Busy, Safe, Places
<1>2. UNCHANGED <<tVars, nVars, done, xVars>> /\ Grants /\ Hand(h)
  BY DEF ConfirmGrant, Story
<1>3. n \in started
  BY <1>1, <1>2 DEF Hand
<1>4. Annotated
  BY <1>2, <1>3, ConfirmedAnnotates DEF ConfirmGrant
<1>5. (Go(h, "turn") \/ Drop(h)) /\ \A m \in Epochs : Settles(m)
  BY <1>1, StopSettles DEF ConfirmGrant, Settles
<1>6. Ordinary
  BY <1>2, <1>4, <1>5, AnnotatedOrdinary
<1>7. Lands(h, "turn")
  BY <1>1, <1>3 DEF Lands, Steps, Running, Starting, Gated, Expiring, Ending
<1> QED
  BY <1>1, <1>5, <1>6, <1>7, GoStory, DropStory

(* The admission of a turn that is not opened.                             *)
LEMMA GrantRefusedStory ==
  ASSUME Types, Types', Safe, Story, NEW h \in Handlers, BeginGrant(h), ~MayGrant(h)
  PROVE  Story'
<1>1. Busy(h) /\ hs[h].pc = "grant" /\ hs[h].epoch \in Epochs
  BY DEF BeginGrant, Busy, Safe, Places
<1>2. UNCHANGED <<rec, tVars, nVars, done, xVars>>
  BY DEF BeginGrant
<1>3. \A m \in Epochs : Settles(m)
  BY <1>1, StopSettles DEF BeginGrant
<1>4. Ordinary
  BY <1>2, <1>3, RunnerOrdinary
<1>5. left \in 0 .. Budget
  BY DEF Types, TimeTypes
<1>6. ~Lost(h) /\ rec.gen = hs[h].gen /\ rec.state = "woken" /\ done = "none" => left = 0
  BY <1>5, WaitAssumption DEF MayGrant
<1>7. left = 0 => Lands(h, "expire")
  BY DEF Lands, Steps, Starting, Gated, Ending
<1>8. Drop(h) \/ (left = 0 /\ Go(h, "expire"))
  BY <1>6 DEF BeginGrant
<1> QED
  BY <1>1, <1>4, <1>7, <1>8, GoStory, DropStory

LEMMA StopEpochStory ==
  ASSUME Types, Types', Safe, Story, NEW h \in Handlers, StopEpoch(h)
  PROVE  Story'
<1>1. Busy(h) /\ hs[h].pc = "stop" /\ hs[h].epoch \in Epochs \cup {0}
  BY DEF StopEpoch, Busy, Types, QueueTypes, HandlerSet
<1>2. UNCHANGED <<rec, tVars, nVars, done, xVars>> /\ Hand(h)
  BY DEF StopEpoch, Story
<1>3. (\A m \in Epochs : Settles(m)) /\ (Held(h, "reply") \/ Drop(h))
  BY <1>1, QuiescedSettles DEF StopEpoch, Settles
<1>4. Ordinary
  BY <1>2, <1>3, RunnerOrdinary
<1>5. Lands(h, "reply")
  BY <1>1, <1>2 DEF Lands, Steps, Starting, Gated, Expiring, Ending, Hand
<1> QED
  BY <1>1, <1>3, <1>4, <1>5, HeldStory, DropStory

LEMMA ReconfirmStory ==
  ASSUME Types, Types', Safe, Story, NEW h \in Handlers, Reconfirm(h)
  PROVE  Story'
<1> DEFINE n == hs[h].epoch
<1>1. Busy(h) /\ hs[h].pc = "reconfirm"
  BY DEF Reconfirm, Busy
<1>2. UNCHANGED <<tVars, adm, nVars, done, xVars>> /\ Grants /\ Hand(h)
  BY DEF Reconfirm, Story
<1>3. n \in started /\ left = 0
  BY <1>1, <1>2 DEF Hand, Expiring
<1>4. Annotated /\ (MayConfirm(h, n) => rec'.ever)
  BY <1>2, <1>3, ConfirmedAnnotates DEF Reconfirm
<1>5. Ordinary
  BY <1>2, <1>4, AnnotatedOrdinary DEF Settles
<1>6. Drop(h) \/ (Go(h, "flag") /\ MayConfirm(h, n))
  BY DEF Reconfirm
<1>7. MayConfirm(h, n) => Lands(h, "flag")
  BY <1>3, <1>4 DEF Lands, Steps, Starting, Gated, Ending, Judged
<1> QED
  BY <1>1, <1>5, <1>6, <1>7, GoStory, DropStory

LEMMA MarkUnknownStory ==
  ASSUME Types, Types', Safe, Story, NEW h \in Handlers, MarkUnknown(h)
  PROVE  Story'
<1> DEFINE n == hs[h].epoch
<1>1. Busy(h) /\ hs[h].pc = "unknown"
  BY DEF MarkUnknown, Busy
<1>2. UNCHANGED <<tVars, adm, nVars, done, xVars>> /\ Grants /\ Hand(h)
  BY DEF MarkUnknown, Story
<1>3. left = 0 /\ (n = rec.epoch \/ rec.ever)
  BY <1>1, <1>2 DEF Hand, Expiring
<1>4. Annotated /\ (Granting(h) /\ rec.epoch = n /\ ~rec.confirmed => rec'.unknown)
  BY <1>2, DoubtedAnnotates DEF MarkUnknown
<1>5. Ordinary
  BY <1>2, <1>4, AnnotatedOrdinary DEF Settles
<1>6. hs[h].gen = rec.gen /\ OnItsWay => Judged \/ Judged'
  <2>1. rec.state = "woken" /\ ~rec.terminalOnly => rec.epoch = 0
    BY <1>2 DEF Grants, Fresh, Ungranted
  <2>2. rec.confirmed => rec.ever
    BY <1>2 DEF Grants
  <2> QED
    BY <1>3, <1>4, <2>1, <2>2 DEF Judged, Granting, OnItsWay
<1>7. Lands(h, "flag")
  BY <1>3, <1>6 DEF Lands, Steps, Starting, Gated, Ending
<1> QED
  BY <1>1, <1>5, <1>7, GoStory DEF MarkUnknown

LEMMA NoteExpiredStory ==
  ASSUME Types, Types', Safe, Story, NEW h \in Handlers, NoteExpired(h)
  PROVE  Story'
<1>1. Busy(h) /\ UNCHANGED <<tVars, adm, nVars, done, xVars>> /\ Grants /\ Held(h, "ack")
  BY DEF NoteExpired, Busy, Story
<1>2. Annotated
  <2>1. CASE rec' = rec
    BY <1>1, <2>1, RecordKept
  <2>2. CASE rec' = [rec EXCEPT !.expiry = FALSE]
    BY <1>1, <2>2, NoticeAnnotates
  <2> QED
    BY <2>1, <2>2 DEF NoteExpired
<1>3. Ordinary
  BY <1>1, <1>2, AnnotatedOrdinary DEF Settles
<1>4. Lands(h, "ack")
  BY DEF Lands, Steps, Starting, Gated, Expiring, Ending
<1> QED
  BY <1>1, <1>3, <1>4, HeldStory

(* A handler that opens a turn, or finds out about the last one.           *)
LEMMA OpenTurnStory ==
  ASSUME Types, Types', Safe, Story, NEW h \in Handlers, OpenTurn(h)
  PROVE  Story'
<1>1. Busy(h) /\ hs[h].pc = "run" /\ hs[h].gen # 0 /\ hs[h] \in HandlerSet /\ Tied(h)
  BY DEF OpenTurn, Busy, Types, QueueTypes, Story
<1>2. /\ UNCHANGED <<rec, tVars, nVars, done, xVars>> /\ UNCHANGED stream
      /\ adm \in [Epochs -> Decisions]
  BY DEF OpenTurn, qVars, Types, RunnerTypes
<1>3. PICK n \in Epochs : /\ adm[n] = "none" /\ adm' = [adm EXCEPT ![n] = "pending"]
                          /\ hs' = [hs EXCEPT ![h].pc = "grant", ![h].epoch = n]
  BY DEF OpenTurn
<1> DEFINE s == [hs[h] EXCEPT !.pc = "grant", !.epoch = n]
<1>4. s \in HandlerSet /\ s.pc = "grant" /\ s.e = hs[h].e /\ s.gen = hs[h].gen /\ s.epoch = n
  BY <1>1, <1>3 DEF HandlerSet, Steps, Running
<1>5. hs' = [hs EXCEPT ![h] = s]
  BY <1>3
<1> HIDE DEF s
<1>6. hs'[h] = s /\ (Has(h)' => Has(h)) /\ \A k \in Handlers : k # h => Follows(k)
  BY <1>1, <1>2, <1>4, <1>5, MoveFollows
<1>7. (\A m \in Epochs : Settles(m)) /\ adm'[n] = "pending"
  BY <1>2, <1>3 DEF Settles
<1>8. Ordinary
  BY <1>2, <1>7, RunnerOrdinary
<1>9. Tied(h)'
  BY <1>1, <1>2, <1>4, <1>6 DEF Tied, Gated, Ending
<1>10. Hand(h)' /\ hs'[h].pc \notin Ending /\ ~Opening(h)'
  BY <1>4, <1>6, <1>7 DEF Hand, Gated, Expiring, Ending, Opening, Starting
<1>11. Arrives(h)
  BY <1>9, <1>10 DEF Arrives
<1> QED
  BY <1>6, <1>8, <1>11, OrdinaryStep

LEMMA ResolveGrantStory ==
  ASSUME Types, Types', Safe, Story, NEW h \in Handlers, ResolveGrant(h)
  PROVE  Story'
<1>1. Busy(h) /\ hs[h].pc = "expire" /\ hs[h] \in HandlerSet /\ hs[h].gen # 0
  BY DEF ResolveGrant, Busy, Types, QueueTypes, Safe, Places
<1>2. UNCHANGED <<rec, tVars, nVars, done, xVars>> /\ UNCHANGED <<left, started, done>>
  BY DEF ResolveGrant, tVars, xVars
<1>3. Tied(h) /\ Hand(h) /\ Grants /\ rec.epoch \in Epochs \cup {0}
  BY DEF Story, Types, RecordSet
<1>4. left = 0
  BY <1>1, <1>3 DEF Hand, Expiring
<1>5. CASE Drop(h) /\ UNCHANGED adm
  BY <1>1, <1>2, <1>5, PlainOrdinary, DropStory
<1>6. CASE ~(~rec.confirmed /\ rec.epoch # 0) /\ Go(h, "flag") /\ UNCHANGED adm
  <2>1. Judged
    BY <1>3, <1>6 DEF Judged, Grants
  <2>2. Lands(h, "flag")
    BY <1>4, <2>1 DEF Lands, Steps, Starting, Gated, Ending
  <2> QED
    BY <1>1, <1>2, <1>6, <2>2, PlainOrdinary, GoStory
<1>7. CASE /\ rec.epoch # 0 /\ adm' = Quiesced(rec.epoch)
           /\ hs' = [hs EXCEPT ![h].epoch = rec.epoch,
                ![h].pc = CASE adm'[rec.epoch] = "granted" -> "reconfirm"
                            [] adm'[rec.epoch] = "unknown" -> "unknown"
                            [] OTHER -> "flag"]
           /\ UNCHANGED qVars
  <2>1. (\A m \in Epochs : Settles(m)) /\ adm'[rec.epoch] = Decision(rec.epoch)
    BY <1>3, <1>7, QuiescedSettles
  <2>2. Ordinary
    BY <1>2, <2>1, RunnerOrdinary
  <2>3. PICK n \in Epochs : n = rec.epoch
    BY <1>3, <1>7
  <2>4. PICK p \in {"flag", "reconfirm", "unknown"} :
           /\ hs' = [hs EXCEPT ![h].epoch = n, ![h].pc = p]
           /\ p = "reconfirm" => adm'[n] = "granted"
           /\ p = "unknown" => adm'[n] = "unknown"
           /\ p = "flag" => adm'[n] \notin {"granted", "unknown"}
    <3>1. CASE adm'[n] = "granted"
      BY <1>7, <2>3, <3>1
    <3>2. CASE adm'[n] = "unknown"
      BY <1>7, <2>3, <3>2
    <3>3. CASE adm'[n] \notin {"granted", "unknown"}
      BY <1>7, <2>3, <3>3
    <3> QED
      BY <3>1, <3>2, <3>3
  <2> DEFINE s == [hs[h] EXCEPT !.epoch = n, !.pc = p]
  <2>5. s \in HandlerSet /\ s.pc = p /\ s.e = hs[h].e /\ s.gen = hs[h].gen /\ s.epoch = n
    BY <1>1, <2>4 DEF HandlerSet, Steps
  <2>6. hs' = [hs EXCEPT ![h] = s] /\ UNCHANGED stream
    BY <1>7, <2>4 DEF qVars
  <2> HIDE DEF s
  <2>7. hs'[h] = s /\ (Has(h)' => Has(h)) /\ \A k \in Handlers : k # h => Follows(k)
    BY <1>1, <2>5, <2>6, MoveFollows
  <2>8. Tied(h)'
    BY <1>1, <1>2, <1>3, <2>4, <2>5, <2>7 DEF Tied, Gated, Ending
  <2>9. Grants'
    BY <1>3, <2>2, VerdictStays
  <2>10. adm'[n] = Decision(n) /\ Decision(n) # "pending"
    BY <2>1, <2>3 DEF Decision
  <2>11. p = "reconfirm" => n \in started
    BY <1>2, <2>4, <2>9 DEF Grants
  <2>12. p = "flag" => Judged'
    BY <1>2, <2>3, <2>4, <2>9, <2>10 DEF Grants, Judged
  <2>13. hs'[h].pc = p /\ hs'[h].epoch = n
    BY <2>5, <2>7
  <2>14. Hand(h)' /\ hs'[h].pc \notin Ending /\ ~Opening(h)'
    BY <1>2, <1>4, <2>3, <2>4, <2>11, <2>12, <2>13 DEF Hand, Gated, Ending, Opening, Starting
  <2>15. Arrives(h)
    BY <2>8, <2>14 DEF Arrives
  <2> QED
    BY <2>2, <2>7, <2>15, OrdinaryStep
<1> QED
  BY <1>5, <1>6, <1>7 DEF ResolveGrant

LEMMA FlagExpiryStory ==
  ASSUME Types, Types', Safe, Story, NEW h \in Handlers, FlagExpiry(h)
  PROVE  Story'
<1>1. Busy(h) /\ hs[h].pc = "flag" /\ hs[h] \in HandlerSet
  BY DEF FlagExpiry, Busy, Types, QueueTypes
<1>2. UNCHANGED <<tVars, adm, nVars, done, xVars>> /\ UNCHANGED <<left, adm, started, done>>
  BY DEF FlagExpiry, tVars, xVars
<1>3. /\ Tied(h) /\ Hand(h) /\ Grants /\ rec \in RecordSet /\ rec.epoch \in Epochs \cup {0}
      /\ started \subseteq Epochs /\ 0 \notin Epochs
  BY DEF Story, Types, RecordSet, RunnerTypes, Epochs
<1>4. CASE Drop(h) /\ UNCHANGED rec
  BY <1>1, <1>2, <1>4, PlainOrdinary, DropStory
<1>5. CASE /\ OnItsWay /\ rec.gen = hs[h].gen /\ left = 0
           /\ rec' = [rec EXCEPT !.cause = Cause]
  <2>1. PICK c \in Causes : c = Cause
    BY CauseTyped
  <2>2. Judged
    BY <1>1, <1>3, <1>5 DEF Hand
  <2>3. TrueCause(c)
    BY <1>3, <1>5, <2>1, <2>2 DEF TrueCause, Cause, Judged, Unstarted, Grants
  <2>4. /\ rec'.state = rec.state /\ rec'.gen = rec.gen /\ rec'.wake = rec.wake
        /\ rec'.terminalOnly = rec.terminalOnly /\ rec'.epoch = rec.epoch /\ rec'.ever = rec.ever
        /\ rec'.unknown = rec.unknown /\ rec'.confirmed = rec.confirmed /\ rec'.cause = c
    BY <1>3, <1>5, <2>1 DEF RecordSet
  <2>5. Annotated
    BY <1>3, <1>5, <2>3, <2>4 DEF Annotated, Grants, Ungranted, OnItsWay
  <2>6. Ordinary
    BY <1>2, <2>5, AnnotatedOrdinary DEF Settles
  <2>7. CASE Drop(h)
    BY <1>1, <2>6, <2>7, DropStory
  <2>8. CASE /\ ~Lost(h) /\ UNCHANGED qVars
             /\ hs' = [hs EXCEPT ![h].pc = "stop", ![h].cause = Cause, ![h].epoch = rec.epoch]
    <3>1. PICK n \in Epochs \cup {0} : n = rec.epoch
      BY <1>3
    <3> DEFINE s == [hs[h] EXCEPT !.pc = "stop", !.cause = c, !.epoch = n]
    <3>2. /\ s \in HandlerSet /\ s.pc = "stop" /\ s.e = hs[h].e /\ s.gen = hs[h].gen
          /\ s.cause = c
      BY <1>1 DEF HandlerSet, Steps
    <3>3. hs' = [hs EXCEPT ![h] = s] /\ UNCHANGED stream
      BY <2>1, <2>8, <3>1 DEF qVars
    <3> HIDE DEF s
    <3>4. hs'[h] = s /\ (Has(h)' => Has(h)) /\ \A k \in Handlers : k # h => Follows(k)
      BY <1>1, <3>2, <3>3, MoveFollows
    <3>5. hs'[h].pc = "stop" /\ hs'[h].e = hs[h].e /\ hs'[h].gen = hs[h].gen /\ hs'[h].cause = c
      BY <3>2, <3>4
    <3>6. Ended
      <4>1. Has(h) /\ rec.gen # 0
        BY <1>1, <1>5, <2>8 DEF Has, Safe, Places
      <4>2. ASSUME NEW k \in Handlers, Opening(k) PROVE k = h
        <5>1. Tied(k) /\ Has(k) /\ Busy(k)
          BY <4>2 DEF Story, Opening, Has
        <5>2. rec.wake = hs[k].e /\ rec.wake = hs[h].e
          BY <1>1, <1>3, <1>5, <4>1, <4>2, <5>1 DEF Tied, Opening
        <5> QED
          BY <4>1, <5>1, <5>2, OwnEntry
      <4>3. ~Opening(h)
        BY <1>1 DEF Opening, Starting
      <4> QED
        BY <1>5, <4>2, <4>3 DEF Ended
    <3>7. Tied(h)'
      BY <1>1, <1>3, <1>5, <2>4, <3>5 DEF Tied, Gated, Ending
    <3>8. Unstarted => Unstarted'
      BY <1>3, <2>6, VerdictStays
    <3>9. Hand(h)' /\ ~Opening(h)'
      BY <1>2, <1>5, <2>3, <3>5, <3>8 DEF Hand, Gated, Expiring, Ending, TrueCause, Opening, Starting
    <3>10. rec'.cause = "capacity_wait_expired" => Unstarted
      BY <2>3, <2>4 DEF TrueCause
    <3>11. Arrives(h)
      BY <3>6, <3>7, <3>9, <3>10 DEF Arrives
    <3> QED
      BY <2>6, <3>4, <3>11, OrdinaryStep
  <2> QED
    BY <1>5, <2>7, <2>8 DEF FlagExpiry, OnItsWay
<1> QED
  BY <1>4, <1>5 DEF FlagExpiry, OnItsWay

LEMMA RunnerLoopsStory ==
  ASSUME Types, Types', Safe, Story, AdmissionTimeout \/ RunnerLost
  PROVE  Story'
<1>1. UNCHANGED <<rec, tVars, nVars, done, xVars>> /\ UNCHANGED <<hs, stream>>
  BY DEF AdmissionTimeout, RunnerLost, qVars
<1>2. \A n \in Epochs : Settles(n)
  <2>1. CASE AdmissionTimeout
    BY <2>1, QuiescedSettles DEF AdmissionTimeout
  <2>2. CASE RunnerLost
    BY <2>2 DEF RunnerLost, Settles
  <2> QED
    BY <2>1, <2>2
<1>3. Ordinary
  BY <1>1, <1>2, RunnerOrdinary
<1>4. \A k \in Handlers : Follows(k)
  BY <1>1, FollowAll DEF Safe
<1> QED
  BY <1>3, <1>4, OrdinaryStep

(***************************************************************************)
(* The steps that change the course of the wait.                           *)
(***************************************************************************)

(* What a step may do without taking anything from a handler that stays.   *)
Lasting ==
    /\ started \subseteq started' /\ (done # "none" => done' # "none")
    /\ left = 0 /\ rec.state # "none" => left' = 0
    /\ \A n \in Epochs : adm[n] # "none" => adm'[n] # "none"
    /\ rec.ever => rec'.ever
    /\ rec.ever \/ rec.epoch = 0 \/ rec'.epoch = rec.epoch
    /\ Unstarted /\ rec.state # "none" => Unstarted'
    /\ \/ rec'.gen = rec.gen /\ (OnItsWay' => OnItsWay) /\ (Judged /\ left = 0 => Judged')
       \/ rec'.gen > rec.gen

(* The handlers are no further than the record.                            *)
LEMMA GenOrder ==
  ASSUME Types, Safe, NEW k \in Handlers, Busy(k)
  PROVE  /\ rec.gen \in Nat /\ hs[k].gen \in Nat /\ hs[k].gen <= rec.gen
         /\ rec.gen = 0 <=> rec.state = "none"
         /\ hs[k].pc \in Expiring \cup {"get", "mark"} => hs[k].gen # 0 /\ rec.state # "none"
<1>1. rec.gen \in 0 .. MaxGen /\ hs[k].gen \in 0 .. MaxGen /\ MaxGen \in Nat
  BY WaitAssumption DEF Types, RecordSet, QueueTypes, HandlerSet, MaxGen
<1>2. hs[k].gen <= rec.gen /\ (rec.gen = 0 <=> rec.state = "none")
  BY DEF Safe, Generations
<1>3. hs[k].pc \in Expiring \cup {"get", "mark"} => hs[k].gen # 0
  BY DEF Safe, Places, Expiring, Ending
<1> QED
  BY <1>1, <1>2, <1>3

LEMMA HandKeeps ==
  ASSUME Types, Safe, NEW k \in Handlers, Hand(k), Follows(k), Lasting
  PROVE  Hand(k)'
<1>1. CASE hs'[k].pc = "idle"
  BY <1>1 DEF Hand, Gated, Ending, Expiring
<1>2. CASE hs'[k].pc # "idle"
  <2>1. hs'[k] = hs[k] /\ Busy(k)
    BY <1>2, IdleIsFree DEF Follows, Busy
  <2>2. /\ rec.gen \in Nat /\ hs[k].gen \in Nat /\ hs[k].gen <= rec.gen
        /\ hs[k].pc \in Expiring \cup {"get", "mark"} => hs[k].gen # 0 /\ rec.state # "none"
    BY <2>1, GenOrder
  <2>3. hs[k].pc \in {"grant", "admit", "resolve"} => hs[k].epoch \in Epochs
    BY <2>1 DEF Safe, Places
  <2>4. hs[k].pc \in {"grant", "admit", "resolve"} => adm'[hs[k].epoch] # "none"
    BY <2>3 DEF Hand, Lasting
  <2>5. hs[k].pc \in Gated \cup {"reconfirm", "unknown"} =>
          hs[k].epoch \in Epochs /\ (hs[k].epoch = rec'.epoch \/ rec'.ever)
    <3>1. 0 \notin Epochs
      BY DEF Epochs
    <3> QED
      BY <3>1 DEF Hand, Lasting
  <2>6. hs[k].pc \in {"confirm", "turn", "reconfirm"} => hs[k].epoch \in started'
    BY DEF Hand, Lasting
  <2>7. hs[k].pc \in Expiring => left' = 0
    BY <2>2 DEF Hand, Lasting
  <2>8. hs[k].pc = "flag" /\ hs[k].gen = rec'.gen /\ OnItsWay' => Judged'
    <3>1. CASE rec'.gen = rec.gen /\ (OnItsWay' => OnItsWay) /\ (Judged /\ left = 0 => Judged')
      BY <3>1 DEF Hand, Expiring
    <3>2. CASE rec'.gen > rec.gen
      BY <2>2, <3>2
    <3> QED
      BY <3>1, <3>2 DEF Lasting
  <2>9. hs[k].pc \in {"get", "mark"} => done' # "none"
    BY DEF Hand, Lasting
  <2>10. hs[k].pc \in Ending \cup {"mark"} =>
           /\ hs[k].cause = "capacity_wait_expired" => Unstarted'
           /\ hs[k].cause = "delivery_exhausted" => started' # {}
    BY <2>2 DEF Hand, Lasting, TrueCause, Expiring
  <2> QED
    BY <2>1, <2>4, <2>5, <2>6, <2>7, <2>8, <2>9, <2>10 DEF Hand, TrueCause
<1> QED
  BY <1>1, <1>2

LEMMA TiedKeeps ==
  ASSUME NEW k \in Handlers, Tied(k), Follows(k), rec'.gen = rec.gen, rec'.wake = rec.wake,
         rec.state = "none" => rec'.state = "none" \/ done' # "none",
         rec.state \in {"active", "done", "expired"} => rec'.state \in {"active", "done", "expired"},
         done # "none" => done' # "none"
  PROVE  Tied(k)'
<1>1. CASE hs'[k].pc = "idle"
  BY <1>1 DEF Tied, Busy, Has
<1>2. CASE hs'[k].pc # "idle"
  <2>1. hs'[k] = hs[k] /\ Busy(k) /\ (Has(k)' => Has(k))
    BY <1>2, IdleIsFree DEF Follows, Busy
  <2> QED
    BY <2>1 DEF Tied
<1> QED
  BY <1>1, <1>2

(* Nobody opens a turn who did not before.                                 *)
LEMMA FollowsOpening ==
  ASSUME Types, Safe, NEW k \in Handlers, Follows(k)
  PROVE  /\ rec'.gen = rec.gen /\ Opening(k)' => Opening(k)
         /\ rec'.gen > rec.gen => ~Opening(k)'
<1> SUFFICES ASSUME Opening(k)'
             PROVE  (rec'.gen = rec.gen => Opening(k)) /\ ~(rec'.gen > rec.gen)
  OBVIOUS
<1>1. hs'[k] = hs[k] /\ Busy(k) /\ Has(k)
  BY IdleIsFree DEF Follows, Opening, Has, Busy
<1>2. rec.gen \in Nat /\ hs[k].gen \in Nat /\ hs[k].gen <= rec.gen
  BY <1>1, GenOrder
<1> QED
  BY <1>1, <1>2 DEF Opening

(* The wait stays over.                                                    *)
LEMMA EndedKeeps ==
  ASSUME done # "none" => done' # "none", left = 0 => left' = 0, OnItsWay => OnItsWay',
         \A k \in Handlers : Opening(k)' => Opening(k) \/ rec'.state = "active",
         rec.state = "active" => rec'.state = "active"
  PROVE  Ended => Ended'
BY DEF Ended

(* _BEGIN_GRANT_LUA: only the first grant is made before the deadline, and  *)
(* a later one only after a grant was confirmed.                           *)
LEMMA GrantStory ==
  ASSUME Types, Types', Safe, Story, NEW h \in Handlers, BeginGrant(h), MayGrant(h)
  PROVE  Story'
<1> DEFINE n == hs[h].epoch
<1>1. Busy(h) /\ hs[h].pc = "grant" /\ n \in Epochs
  BY DEF BeginGrant, Busy, Safe, Places
<1>2. UNCHANGED <<left, fly, note, lock, done, started, told, shown, adm>> /\ Go(h, "admit")
  BY DEF BeginGrant, tVars, nVars, xVars, Held, MayGrant
<1>3. /\ rec' = [rec EXCEPT !.state = "active", !.epoch = n, !.confirmed = FALSE, !.unknown = FALSE]
      /\ rec \in RecordSet
  BY DEF BeginGrant, Types
<1>4. /\ rec'.state = "active" /\ rec'.epoch = n /\ rec'.gen = rec.gen /\ rec'.wake = rec.wake
      /\ rec'.confirmed = FALSE /\ rec'.ever = rec.ever /\ rec'.terminalOnly = rec.terminalOnly
      /\ rec'.cause = rec.cause
  BY <1>3 DEF RecordSet
<1>5. /\ \A k \in Handlers : Tied(k) /\ Hand(k)
      /\ Over /\ Noticing /\ InFlight /\ Grants /\ Reports
  BY DEF Story
<1>6. /\ ~Lost(h) /\ done = "none" /\ rec.gen = hs[h].gen /\ OnItsWay
      /\ left # 0 \/ (rec.state = "active" /\ rec.confirmed)
      /\ rec.state = "woken" => left # 0
  BY DEF MayGrant, OnItsWay
<1>7. ~rec.ever => /\ rec.state = "woken" /\ ~rec.terminalOnly /\ rec.epoch = 0 /\ started = {}
                   /\ left # 0
  <2>1. ~rec.ever => rec.state = "woken" /\ left # 0
    BY <1>5, <1>6 DEF Grants, OnItsWay, MayGrant
  <2>2. ~rec.ever => ~rec.terminalOnly
    BY <1>5, <1>6, <2>1 DEF Over, Ended
  <2>3. 0 \notin Epochs /\ started \subseteq Epochs
    BY DEF Epochs, Types, RunnerTypes
  <2> QED
    BY <1>5, <2>1, <2>2, <2>3 DEF Grants, Fresh, Ungranted
<1>8. left = 0 => rec.ever
  BY <1>7
<1>9. ~Unstarted
  BY <1>8 DEF Unstarted
<1>10. "admit" \in Steps
  BY DEF Steps, Running
<1>11. /\ hs'[h].pc = "admit" /\ hs'[h].e = hs[h].e /\ hs'[h].gen = hs[h].gen /\ hs'[h].epoch = n
       /\ \A k \in Handlers : k # h => Follows(k)
  BY <1>1, <1>2, <1>10, GoFollows
<1>12. Lasting
  <2>1. Judged /\ left = 0 => Judged'
    BY <1>4, <1>8 DEF Judged
  <2> QED
    BY <1>2, <1>4, <1>6, <1>7, <1>9, <2>1 DEF Lasting
<1>13. ASSUME NEW k \in Handlers, k # h PROVE Tied(k)' /\ Hand(k)'
  <2>1. rec.state # "none"
    BY <1>6 DEF OnItsWay
  <2> QED
    BY <1>2, <1>4, <1>5, <1>11, <1>12, <1>13, <2>1, TiedKeeps, HandKeeps
<1>14. Tied(h)'
  BY <1>1, <1>4, <1>5, <1>6, <1>11 DEF Tied, Ending
<1>15. Hand(h)'
  BY <1>1, <1>2, <1>4, <1>5, <1>11 DEF Hand, Gated, Expiring, Ending
<1>16. Ended => Ended'
  BY <1>2, <1>4, <1>6, EndedKeeps DEF OnItsWay
<1>17. Over'
  <2>1. ASSUME NEW k \in Handlers, hs'[k].pc \in Ending PROVE Ended
    BY <1>5, <1>11, <2>1, IdleIsFree DEF Follows, Over, Ending
  <2> QED
    BY <1>2, <1>4, <1>5, <1>16, <2>1 DEF Over
<1>18. Noticing' /\ InFlight'
  BY <1>2, <1>4, <1>5, <1>6 DEF Noticing, InFlight, OnItsWay
<1>19. Grants'
  <2>1. adm[n] # "none"
    BY <1>1, <1>5 DEF Hand
  <2> QED
    BY <1>2, <1>4, <1>5, <1>7, <2>1 DEF Grants, Fresh
<1>20. Reports'
  <2>1. rec.cause # "capacity_wait_expired"
    BY <1>5, <1>6, <1>9 DEF Reports, Over, Ended
  <2> QED
    BY <1>2, <1>4, <1>5, <1>6, <1>9, <2>1 DEF Reports, TrueCause, OnItsWay
<1> QED
  BY <1>13, <1>14, <1>15, <1>17, <1>18, <1>19, <1>20 DEF Story

(* The parts of the story that are not about one handler, when a turn is   *)
(* admitted.                                                               *)
LEMMA AdmittedStory ==
  ASSUME Types, Types', Story, NEW h \in Handlers, NEW n \in Epochs,
         UNCHANGED <<rec, left, fly, note, lock, done, told, shown>>,
         adm[n] = "pending", adm' = [adm EXCEPT ![n] = "granted"], started' = started \cup {n},
         n = rec.epoch \/ rec.ever,
         \A k \in Handlers : Tied(k)' /\ Hand(k)',
         \A k \in Handlers : Opening(k)' => Opening(k),
         \A k \in Handlers : Follows(k) \/ hs'[k].pc \notin Ending
  PROVE  Story'
<1>1. Over /\ Noticing /\ InFlight /\ Grants /\ Reports
  BY DEF Story
<1>2. adm'[n] = "granted" /\ \A m \in Epochs : m # n => adm'[m] = adm[m]
  BY DEF Types, RunnerTypes
<1>3. ~Unstarted
  BY DEF Unstarted, Epochs
<1>4. Ended => Ended'
  BY EndedKeeps DEF OnItsWay
<1>5. ASSUME NEW k \in Handlers, hs'[k].pc \in Ending
      PROVE  hs[k].pc \in Ending /\ (Has(k)' => Has(k))
  BY <1>5, IdleIsFree DEF Follows, Ending
<1>6. Over'
  BY <1>1, <1>4, <1>5 DEF Over
<1>7. Noticing' /\ InFlight'
  BY <1>1 DEF Noticing, InFlight, OnItsWay
<1>8. Grants'
  BY <1>1, <1>2 DEF Grants, Fresh, Ungranted
<1>9. Reports'
  BY <1>1, <1>3, <1>5 DEF Reports, TrueCause
<1> QED
  BY <1>6, <1>7, <1>8, <1>9 DEF Story

(* The runner admits the turn: the gate of the epoch was open, so nobody   *)
(* had reached the verdict that nothing was started.                       *)
LEMMA AdmitStory ==
  ASSUME Types, Types', Safe, Story, NEW h \in Handlers, Admit(h)
  PROVE  Story'
<1> DEFINE n == hs[h].epoch
<1>1. Busy(h) /\ hs[h].pc = "admit" /\ n \in Epochs
  BY DEF Admit, Busy, Safe, Places
<1>2. UNCHANGED <<rec, left, fly, note, lock, done, told, shown>>
  BY DEF Admit, tVars, nVars
<1>3. CASE Go(h, "resolve") /\ UNCHANGED <<adm, started>>
  <2>1. Ordinary
    BY <1>2, <1>3, RecordKept DEF Ordinary, Settles, Story
  <2>2. Lands(h, "resolve")
    BY <1>1 DEF Lands, Steps, Running, Starting, Gated, Expiring, Ending
  <2> QED
    BY <1>1, <1>3, <2>1, <2>2, GoStory
<1>4. CASE /\ adm[n] = "pending" /\ adm' = [adm EXCEPT ![n] = "granted"]
           /\ started' = started \cup {n}
           /\ Held(h, "confirm") \/ Go(h, "resolve")
  <2>1. /\ \A k \in Handlers : Tied(k) /\ Hand(k)
        /\ Over /\ Noticing /\ InFlight /\ Grants /\ Reports
    BY DEF Story
  <2>2. adm'[n] = "granted" /\ \A m \in Epochs : m # n => adm'[m] = adm[m]
    BY <1>1, <1>4 DEF Types, RunnerTypes
  <2>3. n = rec.epoch \/ rec.ever
    BY <1>1, <2>1 DEF Hand, Gated
  <2>4. ~Unstarted
    BY <1>1, <1>4, <2>3 DEF Unstarted, Epochs
  <2>5. Judged => Judged'
    <3>1. CASE rec.epoch = n
      BY <1>1, <1>2, <1>4, <3>1 DEF Judged, Epochs
    <3>2. CASE rec.ever
      BY <1>2, <3>2 DEF Judged
    <3> QED
      BY <2>3, <3>1, <3>2
  <2>6. Lasting
    BY <1>2, <1>4, <2>2, <2>4, <2>5 DEF Lasting, OnItsWay
  <2>7. "confirm" \in Steps /\ "resolve" \in Steps
    BY DEF Steps, Running
  <2>8. CASE Drop(h)
    <3>1. \A k \in Handlers : Follows(k)
      BY <1>1, <2>8, DropFollows DEF Safe
    <3>2. \A k \in Handlers : Tied(k)' /\ Hand(k)'
      BY <1>2, <2>1, <2>6, <3>1, TiedKeeps, HandKeeps
    <3>3. \A k \in Handlers : Opening(k)' => Opening(k)
      BY <1>2, <3>1, FollowsOpening
    <3> QED
      BY <1>1, <1>2, <1>4, <2>3, <3>1, <3>2, <3>3, AdmittedStory
  <2>9. ASSUME NEW step \in {"confirm", "resolve"}, Go(h, step) PROVE Story'
    <3>1. /\ hs'[h].pc = step /\ hs'[h].e = hs[h].e /\ hs'[h].gen = hs[h].gen /\ hs'[h].epoch = n
          /\ Has(h)' => Has(h)
          /\ \A k \in Handlers : k # h => Follows(k)
      BY <1>1, <2>7, <2>9, GoFollows
    <3>2. \A k \in Handlers : k # h => Tied(k)' /\ Hand(k)'
      BY <1>2, <2>1, <2>6, <3>1, TiedKeeps, HandKeeps
    <3>3. Tied(h)'
      BY <1>1, <1>2, <2>1, <3>1 DEF Tied, Gated, Ending
    <3>4. Hand(h)'
      BY <1>1, <1>2, <1>4, <2>1, <2>2, <2>3, <3>1 DEF Hand, Gated, Ending, Expiring
    <3>5. \A k \in Handlers : Opening(k)' => Opening(k)
      BY <1>2, <3>1, FollowsOpening DEF Opening, Starting
    <3>6. \A k \in Handlers : k # h => Follows(k)
      BY <3>1
    <3>7. hs'[h].pc \notin Ending
      BY <3>1 DEF Ending
    <3> QED
      BY <1>1, <1>2, <1>4, <2>3, <3>2, <3>3, <3>4, <3>5, <3>6, <3>7, AdmittedStory
  <2> QED
    BY <1>4, <2>8, <2>9 DEF Held
<1> QED
  BY <1>3, <1>4 DEF Admit

(* The event is settled by a handler with authority over its entry.        *)
LEMMA SettledStory ==
  ASSUME Types, Types', Safe, Story, NEW h \in Handlers, Has(h), NEW step \in {"get", "ack"},
         Go(h, step), done = "none", done' # "none",
         UNCHANGED <<rec, left, fly, adm, note, lock, started, told>>,
         shown' \in {shown, "answer"}, rec.state # "waiting",
         rec.cause = "capacity_wait_expired" => Unstarted,
         done' = "answer" => started # {} \/ rec.state = "none"
  PROVE  Story'
<1>1. /\ \A k \in Handlers : Tied(k) /\ Hand(k)
      /\ Over /\ Noticing /\ InFlight /\ Grants /\ Reports
  BY DEF Story
<1>2. step \in Steps /\ Busy(h)
  BY DEF Steps, Has
<1>3. /\ hs'[h].pc = step /\ hs'[h].e = hs[h].e /\ hs'[h].gen = hs[h].gen
      /\ \A k \in Handlers : k # h => Follows(k)
  BY <1>2, GoFollows
<1>4. Unstarted => Unstarted'
  BY DEF Unstarted
<1>5. Lasting
  BY <1>4 DEF Lasting, Judged, OnItsWay
<1>6. \A k \in Handlers : k # h => Tied(k)' /\ Hand(k)'
  BY <1>1, <1>3, <1>5, TiedKeeps, HandKeeps
<1>7. Tied(h)' /\ Hand(h)'
  <2>1. Tied(h)'
    BY <1>1, <1>2, <1>3 DEF Tied, Gated, Ending
  <2>2. Hand(h)'
    BY <1>3 DEF Hand, Gated, Expiring, Ending
  <2> QED
    BY <2>1, <2>2
<1>8. Over'
  BY DEF Over, Ended
<1>9. Noticing' /\ InFlight' /\ Grants'
  <2>1. Noticing'
    BY <1>1 DEF Noticing
  <2>2. InFlight' /\ Grants'
    BY <1>1 DEF InFlight, Grants, Fresh, Ungranted, OnItsWay
  <2> QED
    BY <2>1, <2>2
<1>10. Reports'
  BY <1>1, <1>4 DEF Reports, TrueCause
<1> QED
  BY <1>6, <1>7, <1>8, <1>9, <1>10 DEF Story

LEMMA AnswerStory ==
  ASSUME Types, Types', Safe, Story, NEW h \in Handlers, Answer(h)
  PROVE  Story'
<1>1. /\ Busy(h) /\ Tied(h) /\ Hand(h) /\ Reports
      /\ UNCHANGED <<rec, tVars, adm, nVars, started, told>>
      /\ UNCHANGED <<rec, left, fly, adm, note, lock, started, told>>
  BY DEF Answer, Busy, Story, tVars, nVars
<1>2. CASE MaySettle(h)
  <2>1. Has(h) /\ done = "none" /\ done' = "answer" /\ shown' = "answer"
    BY <1>1, <1>2 DEF Answer, MaySettle, Has
  <2>2. Go(h, "ack") \/ Go(h, "get")
    BY <1>2 DEF Answer
  <2>3. \/ rec.state = "none"
        \/ rec.state \in {"active", "done", "expired"} /\ started # {}
    BY <1>1, <2>1 DEF Answer, Tied, Hand, Gated
  <2>4. rec.cause = "capacity_wait_expired" => Unstarted
    BY <1>1, <2>3 DEF Reports
  <2> QED
    BY <1>1, <2>1, <2>2, <2>3, <2>4, SettledStory
<1>3. CASE ~MaySettle(h)
  <2>1. Drop(h) /\ UNCHANGED <<done, shown>>
    BY <1>3 DEF Answer
  <2>2. Ordinary
    BY <1>1, <2>1, PlainOrdinary DEF xVars
  <2> QED
    BY <1>1, <2>1, <2>2, DropStory
<1> QED
  BY <1>2, <1>3

LEMMA CompleteExpiredStory ==
  ASSUME Types, Types', Safe, Story, NEW h \in Handlers, CompleteExpired(h)
  PROVE  Story'
<1>1. /\ Busy(h) /\ hs[h].pc = "complete" /\ Over /\ Reports
      /\ UNCHANGED <<rec, tVars, adm, nVars, xVars>>
      /\ UNCHANGED <<rec, left, fly, adm, note, lock, started, told, shown>>
  BY DEF CompleteExpired, Busy, Story, tVars, nVars, xVars
<1>2. CASE MaySettle(h)
  <2>1. Has(h) /\ done = "none" /\ done' = "expiry" /\ Go(h, "get")
    BY <1>1, <1>2 DEF CompleteExpired, MaySettle, Has
  <2>2. rec.state # "waiting"
    BY <1>1, <2>1 DEF Over, Ended, Ending, OnItsWay
  <2>3. rec.cause = "capacity_wait_expired" => Unstarted
    BY <1>1, <2>1 DEF Reports, Ending
  <2> QED
    BY <1>1, <2>1, <2>2, <2>3, SettledStory
<1>3. CASE ~MaySettle(h)
  <2>1. Drop(h) /\ UNCHANGED done
    BY <1>3 DEF CompleteExpired
  <2> QED
    BY <1>1, <2>1, PlainOrdinary, DropStory
<1> QED
  BY <1>2, <1>3

LEMMA ReplyExpiredStory ==
  ASSUME Types, Types', Safe, Story, NEW h \in Handlers, ReplyExpired(h)
  PROVE  Story'
<1>1. Busy(h) /\ hs[h].pc = "reply" /\ hs[h] \in HandlerSet
  BY DEF ReplyExpired, Busy, Types, QueueTypes
<1>2. UNCHANGED <<stream, claim, rec, left, due, fly, adm, note, lock, done, started>>
  BY DEF ReplyExpired, qVars, tVars, nVars
<1>3. /\ \A k \in Handlers : Tied(k) /\ Hand(k)
      /\ Over /\ Noticing /\ InFlight /\ Grants /\ Reports
  BY DEF Story
<1>4. CASE UNCHANGED <<told, shown>> /\ hs' = [hs EXCEPT ![h].pc = "complete"]
  <2>1. Ordinary
    BY <1>2, <1>3, <1>4, RecordKept DEF Ordinary, Settles
  <2>2. Lands(h, "complete")
    BY <1>1, <1>3 DEF Lands, Steps, Starting, Gated, Expiring, Ending, Hand
  <2>3. Go(h, "complete")
    BY <1>2, <1>4 DEF Go, qVars
  <2> QED
    BY <1>1, <2>1, <2>2, <2>3, GoStory
<1>5. CASE /\ told' = hs[h].cause /\ shown' = "expiry"
           /\ hs' = [hs EXCEPT ![h].pc = "complete", ![h].replied = TRUE]
  <2> DEFINE s == [hs[h] EXCEPT !.pc = "complete", !.replied = TRUE]
  <2>1. /\ s \in HandlerSet /\ s.pc = "complete" /\ s.e = hs[h].e /\ s.gen = hs[h].gen
        /\ s.cause = hs[h].cause
    BY <1>1 DEF HandlerSet, Steps
  <2>2. hs' = [hs EXCEPT ![h] = s]
    BY <1>5
  <2> HIDE DEF s
  <2>3. hs'[h] = s /\ (Has(h)' => Has(h)) /\ \A k \in Handlers : k # h => Follows(k)
    BY <1>1, <1>2, <2>1, <2>2, MoveFollows
  <2>4. /\ hs'[h].pc = "complete" /\ hs'[h].e = hs[h].e /\ hs'[h].gen = hs[h].gen
        /\ hs'[h].cause = hs[h].cause
    BY <2>1, <2>3
  <2>5. Unstarted => Unstarted'
    BY <1>2 DEF Unstarted
  <2>6. Lasting
    BY <1>2, <2>5 DEF Lasting, Judged, OnItsWay
  <2>7. \A k \in Handlers : k # h => Tied(k)' /\ Hand(k)'
    BY <1>2, <1>3, <2>3, <2>6, TiedKeeps, HandKeeps
  <2>8. Tied(h)'
    BY <1>1, <1>2, <1>3, <2>3, <2>4 DEF Tied, Gated, Ending
  <2>9. left = 0 /\ TrueCause(hs[h].cause) /\ Ended /\ rec.state # "none"
    BY <1>1, <1>3, GenOrder DEF Hand, Expiring, Ending, Over
  <2>10. Hand(h)'
    BY <1>2, <2>4, <2>5, <2>9 DEF Hand, Gated, Expiring, Ending, TrueCause
  <2>11. \A k \in Handlers : Opening(k)' => Opening(k)
    BY <1>2, <2>3, <2>4, FollowsOpening DEF Opening, Starting
  <2>12. Ended'
    BY <1>2, <2>9, <2>11, EndedKeeps DEF OnItsWay
  <2>13. Over' /\ Noticing' /\ InFlight'
    BY <1>2, <1>3, <2>12 DEF Over, Noticing, InFlight, OnItsWay
  <2>14. Grants'
    BY <1>2, <1>3 DEF Grants, Fresh, Ungranted
  <2>15. ASSUME NEW k \in Handlers, Has(k)', hs'[k].pc \in Ending
         PROVE  Has(k) /\ hs[k].pc \in Ending
    BY <1>1, <2>3, <2>15, IdleIsFree DEF Follows, Ending
  <2>16. Reports'
    BY <1>2, <1>3, <1>5, <2>5, <2>9, <2>15 DEF Reports, TrueCause
  <2> QED
    BY <2>7, <2>8, <2>10, <2>13, <2>14, <2>16 DEF Story
<1> QED
  BY <1>4, <1>5 DEF ReplyExpired

(* The record of a settled event is closed.                                *)
LEMMA ClosedStory ==
  ASSUME Types, Types', Safe, Story, done # "none",
         UNCHANGED <<left, adm, started, done, note, lock, told, shown>>,
         rec.state # "none", rec'.state \in {"done", "expired"},
         rec'.gen = rec.gen, rec'.wake = rec.wake, rec'.epoch = rec.epoch,
         rec'.ever <=> rec.ever, rec'.unknown <=> rec.unknown, rec'.confirmed <=> rec.confirmed,
         TrueCause(rec'.cause),
         \A k \in Handlers :
           \/ Follows(k)
           \/ /\ Busy(k) /\ hs'[k].pc \in {"noted", "ack"}
              /\ hs'[k].e = hs[k].e /\ hs'[k].gen = hs[k].gen
  PROVE  Story'
<1>1. /\ \A k \in Handlers : Tied(k) /\ Hand(k)
      /\ Over /\ Noticing /\ InFlight /\ Grants /\ Reports
  BY DEF Story
<1>2. Unstarted => Unstarted'
  BY DEF Unstarted
<1>3. Lasting
  BY <1>2 DEF Lasting, Judged, OnItsWay
<1>4. ASSUME NEW k \in Handlers PROVE Tied(k)' /\ Hand(k)'
  <2>1. CASE Follows(k)
    BY <1>1, <1>3, <2>1, TiedKeeps, HandKeeps
  <2>2. CASE /\ Busy(k) /\ hs'[k].pc \in {"noted", "ack"}
             /\ hs'[k].e = hs[k].e /\ hs'[k].gen = hs[k].gen
    <3>1. Tied(k)'
      BY <1>1, <2>2 DEF Tied, Gated, Ending
    <3>2. Hand(k)'
      BY <2>2 DEF Hand, Gated, Expiring, Ending
    <3> QED
      BY <3>1, <3>2
  <2> QED
    BY <2>1, <2>2
<1>5. Over' /\ Noticing' /\ InFlight'
  BY <1>1 DEF Over, Ended, Noticing, InFlight, OnItsWay
<1>6. Grants'
  BY <1>1 DEF Grants, Fresh
<1>7. Reports'
  BY <1>1, <1>2 DEF Reports, TrueCause
<1> QED
  BY <1>4, <1>5, <1>6, <1>7 DEF Story

LEMMA TerminalFields ==
  ASSUME Types, NEW state, NEW cause \in Causes, NEW gen
  PROVE  LET r == Terminal(state, cause, gen)
         IN  /\ r.epoch = rec.epoch /\ r.ever = rec.ever /\ r.unknown = rec.unknown
             /\ r.confirmed = rec.confirmed /\ r.cause \in {rec.cause, cause}
<1>1. rec \in RecordSet
  BY DEF Types
<1> DEFINE t == IF cause = "" THEN "done" ELSE "expired"
<1>2. \/ Terminal(state, cause, gen) = rec
      \/ Terminal(state, cause, gen) = [rec EXCEPT !.state = t, !.cause = cause, !.expiry = cause # ""]
  BY DEF Terminal
<1> HIDE DEF t
<1>3. ASSUME NEW b
      PROVE  LET r == [rec EXCEPT !.state = t, !.cause = cause, !.expiry = b]
             IN  /\ r.epoch = rec.epoch /\ r.ever = rec.ever /\ r.unknown = rec.unknown
                 /\ r.confirmed = rec.confirmed /\ r.cause = cause
  BY <1>1 DEF RecordSet
<1> QED
  BY <1>2, <1>3

LEMMA MarkTerminalStory ==
  ASSUME Types, Types', Safe, Story, NEW h \in Handlers, MarkTerminal(h)
  PROVE  Story'
<1>1. Busy(h) /\ hs[h].pc = "mark" /\ hs[h].cause \in Causes /\ hs[h].gen # 0
  BY DEF MarkTerminal, Busy, Types, QueueTypes, HandlerSet, Safe, Places
<1>2. UNCHANGED <<left, adm, started, done, note, lock, told, shown>>
  BY DEF MarkTerminal, nVars, xVars
<1>3. Hand(h) /\ Grants /\ Reports
  BY DEF Story
<1> DEFINE marked == rec.state = hs[h].state /\ rec.gen = hs[h].gen /\ done # "none"
<1>4. rec' = Terminal(hs[h].state, hs[h].cause, hs[h].gen) /\ fly' = IF marked THEN -1 ELSE fly
  BY DEF MarkTerminal
<1>5. CASE ~marked
  <2>1. rec' = rec /\ fly' = fly /\ Drop(h)
    BY <1>4, <1>5 DEF MarkTerminal, Terminal
  <2>2. Ordinary
    BY <1>2, <1>3, <2>1, RecordKept DEF Ordinary, Settles
  <2> QED
    BY <1>1, <2>1, <2>2, DropStory
<1>6. CASE marked
  <2>1. /\ rec'.gen = rec.gen /\ rec'.wake = rec.wake /\ rec'.state \in {"done", "expired"}
    BY <1>1, <1>4, <1>6, TerminalTyped
  <2>2. /\ rec'.epoch = rec.epoch /\ rec'.ever = rec.ever /\ rec'.unknown = rec.unknown
        /\ rec'.confirmed = rec.confirmed /\ rec'.cause \in {rec.cause, hs[h].cause}
    BY <1>1, <1>4, TerminalFields
  <2>3. rec.state # "none"
    BY <1>1, GenOrder
  <2>4. TrueCause(rec'.cause)
    BY <1>1, <1>3, <1>6, <2>2 DEF Hand, Reports, TrueCause
  <2>5. Drop(h) \/ Go(h, "noted") \/ Go(h, "ack")
    BY <1>6 DEF MarkTerminal, Held
  <2>6. "noted" \in Steps /\ "ack" \in Steps
    BY DEF Steps
  <2>7. ASSUME NEW k \in Handlers
        PROVE  \/ Follows(k)
               \/ /\ Busy(k) /\ hs'[k].pc \in {"noted", "ack"}
                  /\ hs'[k].e = hs[k].e /\ hs'[k].gen = hs[k].gen
    BY <1>1, <2>5, <2>6, DropFollows, GoFollows DEF Safe
  <2> QED
    BY <1>2, <1>6, <2>1, <2>2, <2>3, <2>4, <2>7, ClosedStory
<1> QED
  BY <1>5, <1>6

(* A new generation: those who hold an older one have no turn and no end   *)
(* under it.                                                               *)
LEMMA TiedAnew ==
  ASSUME Types, Safe, NEW k \in Handlers, Follows(k), rec'.gen > rec.gen,
         ~(Has(k) /\ hs[k].pc \in Gated \cup Ending),
         ~(Has(k) /\ hs[k].gen = 0 /\ hs[k].pc \in {"run", "park"} /\ done' = "none")
  PROVE  Tied(k)'
<1>1. CASE hs'[k].pc = "idle"
  BY <1>1 DEF Tied, Busy, Has
<1>2. CASE hs'[k].pc # "idle"
  <2>1. hs'[k] = hs[k] /\ Busy(k) /\ (Has(k)' => Has(k))
    BY <1>2, IdleIsFree DEF Follows, Busy
  <2>2. rec.gen \in Nat /\ hs[k].gen \in Nat /\ hs[k].gen <= rec.gen
    BY <2>1, GenOrder
  <2>3. hs'[k].gen # rec'.gen
    BY <2>1, <2>2
  <2> QED
    BY <2>1, <2>3 DEF Tied
<1> QED
  BY <1>1, <1>2

(* The handler whose copy the wait is under holds its pending row.         *)
LEMMA UnderWake ==
  ASSUME Types, Safe, Story, NEW k \in Handlers, Has(k), hs[k].gen = rec.gen, rec.gen # 0
  PROVE  rec.wake = hs[k].e /\ rec.wake # 0 /\ stream[rec.wake].row = "pending"
<1>1. Busy(k) /\ Tied(k) /\ Leases
  BY DEF Has, Story, Safe
<1>2. rec.wake = hs[k].e
  BY <1>1 DEF Tied
<1>3. hs[k].e \in 1 .. Len(stream) /\ Mine(k).row = "pending" /\ Len(stream) \in Nat
  BY <1>1, HasPending, Queue
<1> QED
  BY <1>2, <1>3 DEF Mine

(* A lost wake is adopted.                                                 *)
LEMMA AdoptStory ==
  ASSUME Types, Types', Safe, Story, NEW h \in Handlers, Has(h), hs[h].pc = "prepare",
         rec.state \in {"waiting", "woken", "active"}, done = "none", ~Retained(hs[h].e),
         rec' = [rec EXCEPT !.gen = @ + 1, !.wake = hs[h].e],
         NEW s \in HandlerSet, s.pc = "check", s.e = hs[h].e,
         hs' = [hs EXCEPT ![h] = s], UNCHANGED stream,
         UNCHANGED <<left, fly, adm, note, lock, done, started, told, shown>>
  PROVE  Story'
<1>1. /\ \A k \in Handlers : Tied(k) /\ Hand(k)
      /\ Over /\ Noticing /\ InFlight /\ Grants /\ Reports
  BY DEF Story
<1>2. Busy(h) /\ hs[h] \in HandlerSet /\ rec \in RecordSet /\ rec' \in RecordSet
  BY DEF Has, Types, QueueTypes
<1>3. /\ rec'.state = rec.state /\ rec'.gen = rec.gen + 1 /\ rec'.wake = hs[h].e
      /\ rec'.terminalOnly = rec.terminalOnly /\ rec'.epoch = rec.epoch /\ rec'.ever = rec.ever
      /\ rec'.unknown = rec.unknown /\ rec'.confirmed = rec.confirmed /\ rec'.cause = rec.cause
  BY <1>2 DEF RecordSet
<1>7. hs'[h] = s /\ \A k \in Handlers : k # h => Follows(k)
  BY <1>2, MoveFollows
<1>8. hs'[h].pc = "check" /\ hs'[h].e = hs[h].e
  BY <1>7
<1>9. rec.gen \in Nat /\ rec'.gen > rec.gen /\ rec.gen # 0
  BY <1>2, <1>3, GenOrder
<1>10. Unstarted => Unstarted'
  BY <1>3 DEF Unstarted
<1>11. Lasting
  BY <1>3, <1>9, <1>10 DEF Lasting
<1>12. ASSUME NEW k \in Handlers, k # h PROVE Tied(k)' /\ Hand(k)'
  <2>1. ~(Has(k) /\ hs[k].pc \in Gated)
    <3>1. resume = TRUE
      BY <1>2 DEF Safe, Places
    <3>2. claim = hs[h].e
      BY <3>1 DEF Safe, Duplicates
    <3>3. Has(k) /\ hs[k].pc \in Gated => claim = hs[k].e
      BY <3>1 DEF Safe, Duplicates, Gated, Running
    <3> QED
      BY <1>12, <3>2, <3>3, OwnEntry
  <2>2. ~(Has(k) /\ hs[k].pc \in Ending)
    <3>1. Has(k) /\ hs[k].pc \in Ending => hs[k].gen = rec.gen
      BY <1>1 DEF Tied
    <3> QED
      BY <1>9, <3>1, UnderWake DEF Retained
  <2>3. ~(Has(k) /\ hs[k].gen = 0 /\ hs[k].pc \in {"run", "park"} /\ done' = "none")
    BY <1>1 DEF Tied
  <2> QED
    BY <1>1, <1>7, <1>9, <1>11, <1>12, <2>1, <2>2, <2>3, TiedAnew, HandKeeps
<1>13. Tied(h)'
  BY <1>3, <1>8 DEF Tied, Gated, Ending
<1>14. Hand(h)'
  BY <1>8 DEF Hand, Gated, Expiring, Ending
<1>15. ASSUME NEW k \in Handlers PROVE ~Opening(k)'
  BY <1>7, <1>8, <1>9, FollowsOpening DEF Opening, Starting
<1>16. Ended => Ended'
  BY <1>3, <1>15, EndedKeeps DEF OnItsWay
<1>17. ASSUME NEW k \in Handlers, hs'[k].pc \in Ending
       PROVE  hs[k].pc \in Ending /\ (Has(k)' => Has(k))
  BY <1>7, <1>8, <1>17, IdleIsFree DEF Follows, Ending
<1>18. Over'
  BY <1>1, <1>3, <1>16, <1>17 DEF Over
<1>19. Noticing' /\ InFlight'
  BY <1>1, <1>3 DEF Noticing, InFlight, OnItsWay
<1>20. Grants'
  BY <1>1, <1>3 DEF Grants, Fresh, Ungranted
<1>21. Reports'
  BY <1>1, <1>3, <1>10, <1>17 DEF Reports, TrueCause
<1> QED
  BY <1>12, <1>13, <1>14, <1>18, <1>19, <1>20, <1>21 DEF Story

LEMMA PrepareResumeStory ==
  ASSUME Types, Types', Safe, Story, NEW h \in Handlers, PrepareResume(h)
  PROVE  Story'
<1>1. Busy(h) /\ hs[h].pc = "prepare" /\ hs[h].gen = 0 /\ hs[h] \in HandlerSet
  BY DEF PrepareResume, Busy, Safe, Places, Types, QueueTypes
<1>2. UNCHANGED <<tVars, adm, nVars, done, xVars>>
  BY DEF PrepareResume
<1>3. CASE Drop(h) /\ UNCHANGED rec
  BY <1>1, <1>2, <1>3, PlainOrdinary, DropStory
<1>4. CASE /\ done # "none" \/ rec.state \notin {"waiting", "woken", "active"}
           /\ Go(h, "run") /\ UNCHANGED rec
  <2>1. done = "none" => rec.state = "none"
    BY <1>4 DEF Safe, Kept, Types, RecordSet, States
  <2>2. hs[h].gen = rec.gen => rec.state # "woken"
    BY <1>1, GenOrder
  <2>3. Lands(h, "run")
    BY <2>1, <2>2 DEF Lands, Steps, Running, Starting, Gated, Expiring, Ending
  <2> QED
    BY <1>1, <1>2, <1>4, <2>3, PlainOrdinary, GoStory
<1>5. CASE /\ ~Lost(h) /\ done = "none" /\ rec.state \in {"waiting", "woken", "active"}
           /\ rec' = Adopted(hs[h].e)
           /\ IF rec'.wake # hs[h].e
                THEN Go(h, "ack")
                ELSE /\ hs' = [hs EXCEPT ![h].pc = "check", ![h].gen = rec'.gen]
                     /\ UNCHANGED qVars
  <2>1. rec \in RecordSet /\ Has(h)
    BY <1>1, <1>5 DEF Types, Has
  <2>2. CASE ~Retained(hs[h].e)
    <3>1. rec' = [rec EXCEPT !.gen = @ + 1, !.wake = hs[h].e]
      BY <1>5, <2>2 DEF Adopted
    <3>2. rec'.wake = hs[h].e
      BY <2>1, <3>1 DEF RecordSet
    <3>3. /\ hs' = [hs EXCEPT ![h].pc = "check", ![h].gen = rec'.gen] /\ UNCHANGED stream
          /\ UNCHANGED <<left, fly, adm, note, lock, done, started, told, shown>>
      BY <1>2, <1>5, <3>2 DEF qVars, tVars, nVars, xVars
    <3>4. PICK g \in 0 .. MaxGen : g = rec'.gen
      <4>1. rec' \in RecordSet
        BY DEF Types
      <4> QED
        BY <4>1 DEF RecordSet
    <3> DEFINE s == [hs[h] EXCEPT !.pc = "check", !.gen = g]
    <3>5. s \in HandlerSet /\ s.pc = "check" /\ s.e = hs[h].e
      BY <1>1 DEF HandlerSet, Steps
    <3>6. hs' = [hs EXCEPT ![h] = s]
      BY <3>3, <3>4
    <3> HIDE DEF s
    <3> QED
      BY <1>1, <1>5, <2>1, <2>2, <3>1, <3>3, <3>5, <3>6, AdoptStory
  <2>3. CASE Retained(hs[h].e)
    <3>1. rec' = rec
      BY <1>5, <2>3 DEF Adopted
    <3>2. Ordinary
      BY <1>2, <3>1, PlainOrdinary
    <3>3. CASE Go(h, "ack")
      <4>1. Lands(h, "ack")
        BY DEF Lands, Steps, Starting, Gated, Expiring, Ending
      <4> QED
        BY <1>1, <3>2, <3>3, <4>1, GoStory
    <3>4. CASE /\ rec.wake = hs[h].e /\ UNCHANGED qVars
               /\ hs' = [hs EXCEPT ![h].pc = "check", ![h].gen = rec.gen]
      <4>1. PICK g \in 0 .. MaxGen : g = rec.gen
        BY <2>1 DEF RecordSet
      <4> DEFINE s == [hs[h] EXCEPT !.pc = "check", !.gen = g]
      <4>2. s \in HandlerSet /\ s.pc = "check" /\ s.e = hs[h].e
        BY <1>1 DEF HandlerSet, Steps
      <4>3. hs' = [hs EXCEPT ![h] = s] /\ UNCHANGED stream
        BY <3>4, <4>1 DEF qVars
      <4> HIDE DEF s
      <4>4. hs'[h] = s /\ \A k \in Handlers : k # h => Follows(k)
        BY <1>1, <4>2, <4>3, MoveFollows
      <4>5. hs'[h].pc = "check" /\ hs'[h].e = hs[h].e
        BY <4>2, <4>4
      <4>6. Tied(h)'
        BY <3>1, <3>4, <4>5 DEF Tied, Gated, Ending
      <4>7. Hand(h)' /\ hs'[h].pc \notin Ending /\ ~Opening(h)'
        BY <4>5 DEF Hand, Gated, Expiring, Ending, Opening, Starting
      <4>8. Arrives(h)
        BY <4>6, <4>7 DEF Arrives
      <4> QED
        BY <3>2, <4>4, <4>8, OrdinaryStep
    <3> QED
      BY <1>5, <3>1, <3>3, <3>4
  <2> QED
    BY <2>2, <2>3
<1> QED
  BY <1>3, <1>4, <1>5 DEF PrepareResume

(* The event is parked.                                                    *)
LEMMA ParkStory ==
  ASSUME Types, Types', Safe, Story, NEW h \in Handlers, Park(h)
  PROVE  Story'
<1>1. Busy(h) /\ hs[h].pc = "park" /\ UNCHANGED <<adm, nVars, done, xVars>>
  BY DEF Park, Busy
<1>2. CASE ~MayPark(h)
  <2>1. Drop(h) /\ UNCHANGED <<rec, tVars>>
    BY <1>2 DEF Park
  <2> QED
    BY <1>1, <2>1, PlainOrdinary, DropStory
<1>3. CASE MayPark(h)
  <2>1. /\ \A k \in Handlers : Tied(k) /\ Hand(k)
        /\ Over /\ Noticing /\ InFlight /\ Grants /\ Reports
    BY DEF Story
  <2>2. /\ Has(h) /\ done = "none" /\ rec' = Parked
        /\ left' = IF rec.state = "none" THEN Budget ELSE left
        /\ End(h, [stream EXCEPT ![hs[h].e].row = "acked"])
    BY <1>1, <1>3 DEF Park, MayPark, Has
  <2>3. UNCHANGED <<adm, note, lock, done, started, told, shown>>
    BY <1>1 DEF nVars, xVars
  <2>4. \A k \in Handlers : Follows(k)
    BY <2>2, EndFollows DEF Safe
  <2>5. rec \in RecordSet /\ rec.gen \in Nat /\ (rec.gen = 0 <=> rec.state = "none")
    BY <1>1, GenOrder DEF Types
  <2>6. /\ rec'.state = "waiting" /\ rec'.cause = ""
        /\ rec'.gen = IF rec.state = "none" THEN 1 ELSE rec.gen + 1
        /\ rec'.epoch = rec.epoch /\ rec'.ever = rec.ever
        /\ rec'.unknown = rec.unknown /\ rec'.confirmed = rec.confirmed
    BY <2>2, <2>5 DEF Parked, RecordSet
  <2>7. rec'.gen > rec.gen
    <3>1. CASE rec.state = "none"
      <4>1. rec.gen = 0 /\ rec'.gen = 1
        BY <2>5, <2>6, <3>1
      <4> QED
        BY <4>1
    <3>2. CASE rec.state # "none"
      <4>1. rec'.gen = rec.gen + 1
        BY <2>6, <3>2
      <4> QED
        BY <2>5, <4>1
    <3> QED
      BY <3>1, <3>2
  <2>8. rec.state = "none" \/ (rec.state = "woken" /\ Opening(h))
    BY <1>1, <1>3, <2>2 DEF MayPark, Opening, Starting
  <2>9. ~Ended
    BY <2>2, <2>8 DEF Ended, OnItsWay
  <2>10. Fresh /\ Ungranted
    BY <2>1, <2>8, <2>9 DEF Over, Grants, Fresh
  <2>11. Unstarted /\ rec.state # "none" => Unstarted'
    BY <2>2, <2>3, <2>6 DEF Unstarted
  <2>12. Lasting
    BY <2>2, <2>3, <2>6, <2>7, <2>11 DEF Lasting
  <2>13. ASSUME NEW k \in Handlers, k # h
         PROVE  ~(Has(k) /\ hs[k].pc \in Running)
    <3>1. OneAtWork
      BY SafeOneAtWork DEF IInv
    <3> QED
      BY <1>1, <2>2, <2>13, <3>1 DEF OneAtWork, Has, Running
  <2>14. ASSUME NEW k \in Handlers PROVE Tied(k)' /\ Hand(k)'
    <3>1. CASE hs'[k].pc = "idle"
      BY <3>1 DEF Tied, Hand, Busy, Has, Gated, Ending, Expiring
    <3>2. CASE hs'[k].pc # "idle"
      <4>1. k # h
        BY <2>2, <3>2, IdleIsFree DEF End, Types, QueueTypes
      <4>2. ~(Has(k) /\ hs[k].pc \in Gated \cup {"run", "park"})
        BY <2>13, <4>1 DEF Gated, Running
      <4>3. hs[k].pc \notin Ending
        BY <2>1, <2>9 DEF Over
      <4> QED
        BY <2>1, <2>4, <2>7, <2>12, <4>2, <4>3, TiedAnew, HandKeeps
    <3> QED
      BY <3>1, <3>2
  <2>15. ASSUME NEW k \in Handlers PROVE hs'[k].pc \notin Ending
    BY <2>1, <2>4, <2>9, IdleIsFree DEF Over, Follows, Ending
  <2>16. Over'
    BY <2>1, <2>3, <2>6, <2>9, <2>15 DEF Over
  <2>17. Noticing'
    BY <2>1, <2>3, <2>8 DEF Noticing
  <2>18. InFlight'
    BY <2>6 DEF InFlight, OnItsWay
  <2>19. Grants'
    BY <2>1, <2>3, <2>6, <2>10 DEF Grants, Ungranted
  <2>20. Reports'
    <3>1. told = "capacity_wait_expired" => Unstarted'
      BY <2>1, <2>11 DEF Reports, TrueCause
    <3> QED
      BY <2>1, <2>2, <2>3, <2>6, <3>1 DEF Reports, TrueCause
  <2> QED
    BY <2>14, <2>16, <2>17, <2>18, <2>19, <2>20 DEF Story
<1> QED
  BY <1>2, <1>3

(* A copy of the event is appended to the stream.                          *)
LEMMA AppendFollows ==
  ASSUME Types, Types', Safe, NEW b \in BOOLEAN, stream' = Appended(rec.gen + 1, b),
         rec'.gen = rec.gen + 1, UNCHANGED hs
  PROVE  \A k \in Handlers : Follows(k)
<1>1. rec.gen + 1 \in 0 .. MaxGen /\ stream \in Seq(EntrySet) /\ MaxDelivery \in Nat
  BY WaitAssumption DEF Types, QueueTypes, RecordSet
<1> DEFINE r == Entry(rec.gen + 1, b)
<1>2. r \in EntrySet
  BY <1>1 DEF Entry, EntrySet
<1>3. stream' = Append(stream, r)
  BY DEF Appended
<1> HIDE DEF r
<1>4. \A d \in 1 .. Len(stream) : stream'[d] = stream[d]
  BY <1>1, <1>2, <1>3, AppendProperties
<1> QED
  BY <1>4, FollowAll DEF Safe

(* The wait is woken, or what is left of it is sent to its end.            *)
LEMMA RewokenStory ==
  ASSUME Types, Types', Safe, Story, done = "none", rec.state # "none",
         rec.state = "waiting" => ~lock,
         \A k \in Handlers : Follows(k),
         \A k \in Handlers : ~(Has(k) /\ hs[k].pc \in Gated \cup Ending),
         UNCHANGED <<hs, left, adm, note, lock, done, started, told, shown>>,
         rec'.state = "woken", rec'.gen = rec.gen + 1, fly' >= left,
         rec'.epoch = rec.epoch, rec'.ever <=> rec.ever,
         rec'.unknown <=> rec.unknown, rec'.confirmed <=> rec.confirmed,
         rec'.terminalOnly => left = 0,
         ~rec'.terminalOnly => Ungranted,
         rec'.cause = "delivery_exhausted" => started # {},
         rec'.cause = "capacity_wait_expired" => Unstarted \/ rec'.terminalOnly
  PROVE  Story'
<1>1. /\ \A k \in Handlers : Tied(k) /\ Hand(k)
      /\ Over /\ Noticing /\ InFlight /\ Grants /\ Reports
  BY DEF Story
<1>2. rec.gen \in 0 .. MaxGen /\ MaxGen \in Nat
  BY WaitAssumption DEF Types, RecordSet, MaxGen
<1>3. rec'.gen > rec.gen
  BY <1>2
<1>4. Unstarted => Unstarted'
  BY DEF Unstarted
<1>5. Lasting
  BY <1>3, <1>4 DEF Lasting
<1>6. ASSUME NEW k \in Handlers PROVE Tied(k)' /\ Hand(k)'
  <2>1. ~(Has(k) /\ hs[k].gen = 0 /\ hs[k].pc \in {"run", "park"} /\ done' = "none")
    BY <1>1 DEF Tied
  <2> QED
    BY <1>1, <1>3, <1>5, <2>1, TiedAnew, HandKeeps
<1>7. ASSUME NEW k \in Handlers PROVE ~Opening(k)'
  BY <1>3, FollowsOpening
<1>8. left = 0 => Ended'
  BY <1>7 DEF Ended, OnItsWay
<1>9. Ended => left = 0
  BY DEF Ended
<1>10. Over'
  BY <1>1, <1>8, <1>9 DEF Over
<1>11. Noticing'
  BY <1>1 DEF Noticing
<1>12. InFlight'
  BY DEF InFlight
<1>13. Grants'
  BY <1>1 DEF Grants, Fresh, Ungranted
<1>14. ASSUME NEW k \in Handlers PROVE ~(Has(k) /\ hs[k].pc \in Ending)'
  BY IdleIsFree DEF Follows, Has, Busy
<1>15. Reports'
  BY <1>1, <1>4, <1>14 DEF Reports, TrueCause
<1> QED
  BY <1>6, <1>10, <1>11, <1>12, <1>13, <1>15 DEF Story

LEMMA WakeStory ==
  ASSUME Types, Types', Safe, Story, Wake
  PROVE  Story'
<1>1. UNCHANGED <<hs, left, adm, note, lock, done, started, told, shown>>
  BY DEF Wake, nVars, xVars
<1>2. rec \in RecordSet /\ rec.state = "waiting"
  BY DEF Types, Wake
<1>3. /\ \A k \in Handlers : Tied(k) /\ Hand(k)
      /\ Over /\ Noticing /\ InFlight /\ Grants /\ Reports
  BY DEF Story
<1>4. rec.cause = "" /\ Ungranted
  BY <1>2, <1>3 DEF Reports, Grants, Fresh
<1>5. CASE done # "none"
  <2>1. rec' = [rec EXCEPT !.state = "done"] /\ UNCHANGED stream
    BY <1>5 DEF Wake
  <2>2. /\ rec'.state = "done" /\ rec'.gen = rec.gen /\ rec'.wake = rec.wake
        /\ rec'.epoch = rec.epoch /\ rec'.ever = rec.ever /\ rec'.unknown = rec.unknown
        /\ rec'.confirmed = rec.confirmed /\ rec'.cause = rec.cause
    BY <1>2, <2>1 DEF RecordSet
  <2>3. TrueCause(rec'.cause)
    BY <1>4, <2>2 DEF TrueCause
  <2>4. \A k \in Handlers : Follows(k)
    BY <1>1, <2>1, FollowAll DEF Safe
  <2> QED
    BY <1>1, <1>2, <1>5, <2>2, <2>3, <2>4, ClosedStory
<1>6. CASE done = "none"
  <2>1. /\ ~lock /\ stream' = Appended(rec.gen + 1, FALSE)
        /\ rec' = [rec EXCEPT !.state = "woken", !.gen = @ + 1,
                              !.wake = Len(stream) + 1, !.terminalOnly = FALSE]
        /\ fly' = left
    BY <1>6 DEF Wake, Flight, WakeDue
  <2>2. /\ rec'.state = "woken" /\ rec'.gen = rec.gen + 1 /\ rec'.terminalOnly = FALSE
        /\ rec'.epoch = rec.epoch /\ rec'.ever = rec.ever /\ rec'.unknown = rec.unknown
        /\ rec'.confirmed = rec.confirmed /\ rec'.cause = rec.cause
    BY <1>2, <2>1 DEF RecordSet
  <2>3. \A k \in Handlers : Follows(k)
    BY <1>1, <2>1, <2>2, AppendFollows
  <2>4. \A k \in Handlers : ~(Has(k) /\ hs[k].pc \in Gated \cup Ending)
    BY <1>2, <1>3, <1>6 DEF Tied, Over, Ended, OnItsWay
  <2>5. fly' >= left
    BY <2>1 DEF Types, TimeTypes
  <2> QED
    BY <1>1, <1>2, <1>4, <1>6, <2>1, <2>2, <2>3, <2>4, <2>5, RewokenStory
<1> QED
  BY <1>5, <1>6

(* Only the score of the flight index changes.                             *)
LEMMA FlightStory ==
  ASSUME Types, Safe, Story, OnItsWay => fly' >= left,
         UNCHANGED <<hs, stream, rec, left, adm, note, lock, done, started, told, shown>>
  PROVE  Story'
<1>1. ASSUME NEW k \in Handlers
      PROVE  /\ Tied(k)' <=> Tied(k)
             /\ Hand(k)' <=> Hand(k)
             /\ Opening(k)' <=> Opening(k)
             /\ Has(k)' <=> Has(k)
  BY DEF Tied, Hand, Opening, Has, Busy, Lost, Mine, TrueCause, Unstarted, Judged, OnItsWay
<1>2. Ended' <=> Ended
  BY <1>1 DEF Ended, OnItsWay
<1>3. (Over' <=> Over) /\ (Noticing' <=> Noticing) /\ (Grants' <=> Grants)
  BY <1>2 DEF Over, Noticing, Grants, Fresh, Ungranted
<1>4. Reports' <=> Reports
  BY <1>1 DEF Reports, TrueCause, Unstarted
<1>5. InFlight'
  BY DEF InFlight, OnItsWay
<1> QED
  BY <1>1, <1>3, <1>4, <1>5 DEF Story

LEMMA ReconcileStory ==
  ASSUME Types, Types', Safe, Story, Reconcile
  PROVE  Story'
<1>1. UNCHANGED <<hs, left, adm, note, lock, done, started, told, shown>> /\ fly = 0
  BY DEF Reconcile, nVars, xVars
<1>2. rec \in RecordSet /\ rec.cause \in Causes /\ left \in 0 .. Budget
  BY DEF Types, RecordSet, TimeTypes
<1>3. /\ \A k \in Handlers : Tied(k) /\ Hand(k)
      /\ Over /\ Noticing /\ InFlight /\ Grants /\ Reports
  BY DEF Story
<1>4. CASE rec.state \notin {"woken", "active"}
  <2>1. UNCHANGED <<rec, stream>>
    BY <1>4 DEF Reconcile
  <2> QED
    BY <1>1, <1>4, <2>1, FlightStory DEF OnItsWay
<1>5. CASE rec.state \in {"woken", "active"} /\ done # "none"
  <2>1. rec' = Terminal(rec.state, rec.cause, rec.gen) /\ UNCHANGED stream
    BY <1>5 DEF Reconcile
  <2>2. /\ rec'.gen = rec.gen /\ rec'.wake = rec.wake /\ rec'.state \in {"done", "expired"}
    BY <1>2, <1>5, <2>1, TerminalTyped
  <2>3. /\ rec'.epoch = rec.epoch /\ rec'.ever = rec.ever /\ rec'.unknown = rec.unknown
        /\ rec'.confirmed = rec.confirmed /\ rec'.cause = rec.cause
    BY <1>2, <2>1, TerminalFields
  <2>4. TrueCause(rec'.cause)
    BY <1>3, <1>5, <2>3 DEF Reports, TrueCause
  <2>5. \A k \in Handlers : Follows(k)
    BY <1>1, <2>1, FollowAll DEF Safe
  <2>6. rec.state # "none"
    BY <1>5
  <2> QED
    BY <1>1, <1>5, <2>2, <2>3, <2>4, <2>5, <2>6, ClosedStory
<1>6. CASE rec.state \in {"woken", "active"} /\ done = "none"
  <2>1. left = 0
    BY <1>1, <1>2, <1>3, <1>6 DEF InFlight, OnItsWay
  <2>2. CASE OnStream
    <3>1. fly' = Retry /\ UNCHANGED <<rec, stream>>
      BY <1>6, <2>2 DEF Reconcile
    <3>2. fly' >= left
      BY <2>1, <3>1, WaitAssumption
    <3> QED
      BY <1>1, <3>1, <3>2, FlightStory
  <2>3. CASE ~OnStream
    <3> DEFINE c == IF rec.cause \in {"delivery_exhausted", "capacity_wait_expired"}
                      THEN rec.cause ELSE Cause
    <3>1. /\ stream' = Appended(rec.gen + 1, TRUE) /\ fly' = Retry
          /\ rec' = [rec EXCEPT !.state = "woken", !.gen = rec.gen + 1,
                                !.wake = Len(stream) + 1, !.terminalOnly = TRUE, !.cause = c]
      BY <1>6, <2>3 DEF Reconcile
    <3>2. c = "delivery_exhausted" => started # {}
      BY <1>3 DEF Cause, Reports, Grants
    <3> HIDE DEF c
    <3>3. /\ rec'.state = "woken" /\ rec'.gen = rec.gen + 1 /\ rec'.terminalOnly = TRUE
          /\ rec'.epoch = rec.epoch /\ rec'.ever = rec.ever /\ rec'.unknown = rec.unknown
          /\ rec'.confirmed = rec.confirmed /\ rec'.cause = c
      BY <1>2, <3>1 DEF RecordSet
    <3>4. \A k \in Handlers : Follows(k)
      BY <1>1, <3>1, <3>3, AppendFollows
    <3>5. ASSUME NEW k \in Handlers, Has(k), hs[k].pc \in Gated \cup Ending PROVE FALSE
      <4>1. hs[k].gen = rec.gen /\ Busy(k)
        BY <1>3, <3>5 DEF Tied, Has
      <4>2. rec.gen # 0
        BY <1>6, <4>1, GenOrder
      <4> QED
        BY <2>3, <3>5, <4>1, <4>2, UnderWake DEF OnStream
    <3>6. fly' >= left /\ rec.state \notin {"none", "waiting"}
      BY <1>6, <2>1, <3>1, WaitAssumption
    <3> QED
      BY <1>1, <1>6, <2>1, <3>2, <3>3, <3>4, <3>5, <3>6, RewokenStory
  <2> QED
    BY <2>2, <2>3
<1> QED
  BY <1>4, <1>5, <1>6

(* The notices.                                                            *)
LEMMA NoticeStory ==
  ASSUME Types, Types', Safe, Story, Annotated, Noticing',
         UNCHANGED <<hs, stream, left, fly, adm, done, started>>,
         shown' = shown \/ done # "none" \/ shown' \notin {"answer", "expiry"},
         told' = told \/ (rec.state # "none" /\ TrueCause(told')),
         rec'.cause = rec.cause
  PROVE  Story'
<1>1. /\ \A k \in Handlers : Tied(k) /\ Hand(k)
      /\ Over /\ Noticing /\ InFlight /\ Grants /\ Reports
  BY DEF Story
<1>2. /\ rec'.state = rec.state /\ rec'.gen = rec.gen /\ rec'.wake = rec.wake
      /\ rec'.terminalOnly <=> rec.terminalOnly
      /\ rec'.epoch = rec.epoch
      /\ rec.ever => rec'.ever
      /\ rec'.ever => rec.ever \/ started # {}
      /\ rec'.confirmed => rec'.ever
      /\ rec.unknown => rec'.unknown \/ rec'.ever
      /\ Fresh => ~rec'.ever /\ ~rec'.unknown /\ ~rec'.confirmed
  BY DEF Annotated
<1>3. (Unstarted => Unstarted') /\ (Judged => Judged')
  BY <1>2 DEF Unstarted, Judged
<1>4. \A k \in Handlers : Follows(k)
  BY FollowAll DEF Safe
<1>5. Lasting
  BY <1>2, <1>3 DEF Lasting, OnItsWay
<1>6. \A k \in Handlers : Tied(k)' /\ Hand(k)'
  BY <1>1, <1>2, <1>4, <1>5, TiedKeeps, HandKeeps
<1>7. Ended => Ended'
  BY <1>2, <1>4, FollowsOpening, EndedKeeps DEF OnItsWay
<1>8. Over'
  BY <1>1, <1>2, <1>7 DEF Over, Ended
<1>9. InFlight'
  BY <1>1, <1>2 DEF InFlight, OnItsWay
<1>10. Grants'
  BY <1>1, <1>2 DEF Grants, Fresh, Ungranted
<1>11. Reports'
  <2>1. ASSUME NEW k \in Handlers PROVE Has(k)' <=> Has(k)
    BY DEF Has, Busy, Lost, Mine
  <2>2. TrueCause(told) => TrueCause(told)'
    BY <1>3 DEF TrueCause, Reports
  <2> QED
    BY <1>1, <1>2, <1>3, <2>1, <2>2 DEF Reports, TrueCause
<1> QED
  BY <1>6, <1>8, <1>9, <1>10, <1>11 DEF Story

LEMMA NoticeLoopsStory ==
  ASSUME Types, Types', Safe, Story, Notice \/ CrashNotice \/ NoticeLockExpires
  PROVE  Story'
<1>1. UNCHANGED <<hs, stream, left, fly, adm, done, started>>
  BY DEF Notice, ClaimNotice, CheckNotice, SendNotice, FinishNotice, CrashNotice,
         NoticeLockExpires, qVars, tVars, xVars, nVars
<1>2. Noticing /\ Grants /\ Reports
  BY DEF Story
<1>3. /\ note \in NoteSet /\ rec \in RecordSet /\ NoNote.pc = "off"
      /\ note.kind \in {"queued", "expiry"}
  BY DEF Types, NoticeTypes, NoNote, NoteSet
<1>4. ASSUME NEW p \in {"off", "check", "send", "finish", "failed"}
      PROVE  [note EXCEPT !.pc = p].pc = p /\ [note EXCEPT !.pc = p].kind = note.kind
  BY <1>3 DEF NoteSet
<1>5. rec' = rec \/ rec' = [rec EXCEPT !.expiry = FALSE] \/ rec' = [rec EXCEPT !.notice = FALSE]
  BY DEF Notice, ClaimNotice, CheckNotice, SendNotice, FinishNotice, CrashNotice, NoticeLockExpires
<1>6. Annotated /\ rec'.cause = rec.cause
  BY <1>2, <1>3, <1>5, RecordKept, NoticeAnnotates DEF RecordSet
<1>7. CASE ClaimNotice
  <2>1. rec' = rec /\ told' = told /\ shown' = shown /\ lock' = TRUE
    BY <1>7 DEF ClaimNotice, xVars
  <2>2. \/ /\ rec.state = "waiting" /\ done = "none" /\ note'.kind = "queued"
        \/ done # "none" /\ note'.kind = "expiry"
    BY <1>7 DEF ClaimNotice
  <2>3. Noticing'
    BY <1>1, <2>1, <2>2 DEF Noticing
  <2> QED
    BY <1>1, <1>6, <2>1, <2>3, NoticeStory
<1>8. CASE CheckNotice
  <2>1. rec' = rec /\ told' = told /\ shown' = shown /\ lock' = lock
    BY <1>8 DEF CheckNotice, xVars
  <2>2. note.pc = "check" /\ note'.kind = note.kind /\ note'.pc \in {"send", "finish"}
    BY <1>4, <1>8 DEF CheckNotice
  <2>3. Noticing'
    BY <1>1, <1>2, <2>1, <2>2 DEF Noticing
  <2> QED
    BY <1>1, <1>6, <2>1, <2>3, NoticeStory
<1>9. CASE SendNotice
  <2>1. rec' = rec /\ lock' = lock /\ note.pc = "send"
    BY <1>9 DEF SendNotice
  <2>2. note'.kind = note.kind /\ note'.pc \in {"finish", "failed"}
    BY <1>4, <1>9 DEF SendNotice
  <2>3. Noticing'
    BY <1>1, <1>2, <2>1, <2>2 DEF Noticing
  <2>4. note.kind = "expiry" => done # "none"
    BY <1>2, <2>1 DEF Noticing
  <2>5. shown' = shown \/ shown' = note.kind
    BY <1>9 DEF SendNotice
  <2>6. told' = told \/ (note.kind = "expiry" /\ told' = rec.cause)
    BY <1>9 DEF SendNotice
  <2>7. done # "none" => TrueCause(rec.cause)
    BY <1>2 DEF Reports, TrueCause
  <2>8. told' = told \/ (rec.state # "none" /\ TrueCause(told'))
    <3>1. rec.state = "none" => rec.cause = "" /\ told = ""
      BY <1>2 DEF Reports
    <3> QED
      BY <2>4, <2>6, <2>7, <3>1
  <2> QED
    BY <1>1, <1>3, <1>6, <2>1, <2>3, <2>4, <2>5, <2>8, NoticeStory
<1>10. CASE FinishNotice \/ CrashNotice \/ NoticeLockExpires
  <2>1. told' = told /\ shown' = shown /\ note'.pc = "off"
    BY <1>3, <1>10 DEF FinishNotice, CrashNotice, NoticeLockExpires, xVars
  <2>2. Noticing'
    BY <2>1 DEF Noticing
  <2> QED
    BY <1>1, <1>6, <2>1, <2>2, NoticeStory
<1> QED
  BY <1>7, <1>8, <1>9, <1>10 DEF Notice

(* Time passes.  The flight index is never ahead of the deadline.          *)
LEMMA TickStory ==
  ASSUME Types, Types', Safe, Story, Tick
  PROVE  Story'
<1>1. UNCHANGED <<hs, stream, rec, adm, note, lock, done, started, told, shown>> /\ rec.state # "none"
  BY DEF Tick, qVars, nVars, xVars
<1>2. /\ left = 0 => left' = 0
      /\ fly >= left => fly' >= left'
  BY WaitAssumption DEF Tick, Types, TimeTypes
<1>3. /\ \A k \in Handlers : Tied(k) /\ Hand(k)
      /\ Over /\ Noticing /\ InFlight /\ Grants /\ Reports
  BY DEF Story
<1>4. (Unstarted => Unstarted') /\ (Judged => Judged')
  BY <1>1, <1>2 DEF Unstarted, Judged
<1>5. \A k \in Handlers : Follows(k)
  BY <1>1, FollowAll DEF Safe
<1>6. Lasting
  BY <1>1, <1>2, <1>4 DEF Lasting, OnItsWay
<1>7. \A k \in Handlers : Tied(k)' /\ Hand(k)'
  BY <1>1, <1>3, <1>5, <1>6, TiedKeeps, HandKeeps
<1>8. Ended => Ended'
  BY <1>1, <1>2, <1>5, FollowsOpening, EndedKeeps DEF OnItsWay
<1>9. Over' /\ Noticing' /\ InFlight' /\ Grants'
  BY <1>1, <1>2, <1>3, <1>8 DEF Over, Noticing, InFlight, OnItsWay, Grants, Fresh, Ungranted
<1>10. Reports'
  <2>1. ASSUME NEW k \in Handlers PROVE Has(k)' <=> Has(k)
    BY <1>1 DEF Has, Busy, Lost, Mine
  <2> QED
    BY <1>1, <1>3, <1>4, <2>1 DEF Reports, TrueCause
<1> QED
  BY <1>7, <1>9, <1>10 DEF Story

LEMMA InitStory == Init => Story
<1> SUFFICES ASSUME Init PROVE Story
  OBVIOUS
<1>1. /\ rec = NoRecord /\ hs = [h \in Handlers |-> Idle] /\ adm = [n \in Epochs |-> "none"]
      /\ note = NoNote /\ done = "none" /\ started = {} /\ told = "" /\ shown = "none"
  BY DEF Init
<1>2. /\ rec.state = "none" /\ rec.gen = 0 /\ rec.epoch = 0 /\ rec.cause = ""
      /\ ~rec.confirmed /\ ~rec.unknown /\ ~rec.ever
  BY <1>1 DEF NoRecord
<1>3. note.pc = "off"
  BY <1>1 DEF NoNote
<1>4. \A h \in Handlers : hs[h].pc = "idle"
  BY <1>1, IdleIsFree
<1>5. \A h \in Handlers : Tied(h) /\ Hand(h)
  BY <1>4 DEF Tied, Hand, Busy, Has, Gated, Ending, Expiring
<1>6. Over /\ Noticing /\ InFlight
  BY <1>1, <1>2, <1>3, <1>4 DEF Over, Noticing, InFlight, OnItsWay, Ending
<1>7. Grants
  BY <1>1, <1>2 DEF Grants, Ungranted
<1>8. Reports
  BY <1>1, <1>2 DEF Reports, TrueCause
<1> QED
  BY <1>5, <1>6, <1>7, <1>8 DEF Story

LEMMA HandleStory ==
  ASSUME Types, Types', Safe, Story, NEW h \in Handlers, Handle(h)
  PROVE  Story'
<1>1. CASE BeginGrant(h)
  BY <1>1, GrantStory, GrantRefusedStory
<1> QED
  BY <1>1, ClaimResumeStory, PrepareResumeStory, CheckWaitStory, StopAdoptedStory,
     BeforeTurnStory, OpenTurnStory, AdmitStory, ResolveAdmitStory, ConfirmGrantStory,
     AnswerStory, ParkStory, ResolveGrantStory, ReconfirmStory, MarkUnknownStory,
     FlagExpiryStory, StopEpochStory, ReplyExpiredStory, CompleteExpiredStory,
     GetRecordStory, MarkTerminalStory, NoteExpiredStory, AckStory
     DEF Handle

LEMMA NextStory == IInv /\ Story /\ [Next]_vars => Story'
<1> SUFFICES ASSUME IInv, Story, [Next]_vars PROVE Story'
  OBVIOUS
<1>1. Types /\ Safe /\ Types'
  BY NextSafe DEF IInv
<1>2. ASSUME NEW h \in Handlers, Take(h) \/ Handle(h) \/ LoseLease(h) \/ Crash(h)
      PROVE  Story'
  BY <1>1, <1>2, TakeStory, HandleStory, LossStory
<1>3. CASE DeadLetter \/ LeaseExpires
  BY <1>1, <1>3, DeadLetterStory, LossStory
<1>4. CASE AdmissionTimeout \/ RunnerLost
  BY <1>1, <1>4, RunnerLoopsStory
<1>5. CASE Wake \/ Reconcile
  BY <1>1, <1>5, WakeStory, ReconcileStory
<1>6. CASE Notice \/ CrashNotice \/ NoticeLockExpires
  BY <1>1, <1>6, NoticeLoopsStory
<1>7. CASE Tick
  BY <1>1, <1>7, TickStory
<1>8. CASE UNCHANGED vars
  <2>1. UNCHANGED <<stream, hs, done, rec, left, fly, adm, note, lock, started, told, shown>>
    BY <1>8 DEF vars, qVars, tVars, nVars, xVars
  <2>2. OnItsWay => fly' >= left
    BY <2>1 DEF Story, InFlight
  <2> QED
    BY <1>1, <2>1, <2>2, FlightStory
<1> QED
  BY <1>2, <1>3, <1>4, <1>5, <1>6, <1>7, <1>8 DEF Next, Rest

(* Only the notice loop says that the event is queued.                     *)
LEMMA QueuedByNotice ==
  ASSUME [Next]_vars, shown' = "queued", shown # "queued"
  PROVE  note.pc = "send" /\ note.kind = "queued"
<1>1. ASSUME NEW h \in Handlers, Handle(h) PROVE shown' = shown \/ shown' \in {"answer", "expiry"}
  <2>1. CASE \/ ClaimResume(h) \/ PrepareResume(h) \/ CheckWait(h) \/ StopAdopted(h)
             \/ SkipDone(h) \/ NoCapacity(h) \/ Fail(h) \/ WaitOver(h) \/ OpenTurn(h)
             \/ BeginGrant(h) \/ ResolveAdmit(h) \/ ConfirmGrant(h) \/ Park(h)
    BY <2>1 DEF ClaimResume, PrepareResume, CheckWait, StopAdopted, SkipDone, NoCapacity, Fail,
                WaitOver, OpenTurn, BeginGrant, ResolveAdmit, ConfirmGrant, Park, xVars
  <2>2. CASE \/ ResolveGrant(h) \/ Reconfirm(h) \/ MarkUnknown(h) \/ FlagExpiry(h)
             \/ StopEpoch(h) \/ CompleteExpired(h) \/ GetRecord(h) \/ MarkTerminal(h)
             \/ NoteExpired(h) \/ Ack(h)
    BY <2>2 DEF ResolveGrant, Reconfirm, MarkUnknown, FlagExpiry, StopEpoch, CompleteExpired,
                GetRecord, MarkTerminal, NoteExpired, Ack, xVars
  <2>3. CASE Admit(h) \/ Answer(h) \/ ReplyExpired(h)
    BY <2>3 DEF Admit, Answer, ReplyExpired
  <2> QED
    BY <1>1, <2>1, <2>2, <2>3 DEF Handle
<1>2. ASSUME NEW h \in Handlers, Take(h) \/ LoseLease(h) \/ Crash(h) PROVE shown' = shown
  BY <1>2 DEF Take, Read, Reclaim, Deliver, LoseLease, Crash, xVars
<1>3. CASE \/ DeadLetter \/ LeaseExpires \/ AdmissionTimeout \/ RunnerLost \/ Wake \/ Reconcile
           \/ CrashNotice \/ NoticeLockExpires \/ Tick \/ UNCHANGED vars
  BY <1>3 DEF DeadLetter, LeaseExpires, AdmissionTimeout, RunnerLost, Wake, Reconcile,
              CrashNotice, NoticeLockExpires, Tick, vars, xVars
<1>4. CASE Notice
  BY <1>4 DEF Notice, ClaimNotice, CheckNotice, SendNotice, FinishNotice, xVars
<1> QED
  BY <1>1, <1>2, <1>3, <1>4 DEF Next, Rest

(* The invariant of what the thread is told.                               *)
LEMMA StoryAlways == Spec => [](IInv /\ Story)
<1>1. Init => IInv /\ Story
  BY InitSafe, InitStory
<1>2. IInv /\ Story /\ [Next]_vars => (IInv /\ Story)'
  BY NextSafe, NextStory
<1> QED
  BY <1>1, <1>2, PTL DEF Spec

(* What the thread is told when the wait ends is true, however the handlers, *)
(* the reconciler and the notice loop interleave and whatever fails: "could  *)
(* not start" is told only of an event of which the runner never granted a   *)
(* turn (and that nobody answered), "started but could not finish" only of   *)
(* one of which it did.                                                     *)
THEOREM WaitTruthful == Spec => []Truthful
<1>1. ASSUME Story PROVE Truthful
  <2>1. TrueCause(told) /\ (rec.state = "none" => told = "")
        /\ (done = "answer" => started # {} \/ rec.state = "none")
    BY <1>1 DEF Story, Reports
  <2> QED
    BY <2>1 DEF TrueCause, Unstarted, Truthful
<1> QED
  BY <1>1, StoryAlways, PTL

(* The queued notice never replaces the answer or the expiry reply: the loop *)
(* that sends it holds the lock that keeps the event from being woken, and   *)
(* an event that was answered or expired is not waiting any more.           *)
THEOREM WaitNoQueuedAfterReply == Spec => NoQueuedAfterReply
<1>1. ASSUME Story, [Next]_vars, shown \in {"answer", "expiry"} PROVE shown' # "queued"
  <2> SUFFICES ASSUME shown' = "queued" PROVE FALSE
    OBVIOUS
  <2>1. note.pc = "send" /\ note.kind = "queued"
    BY <1>1, QueuedByNotice
  <2>2. done = "none" /\ rec.state = "waiting"
    BY <1>1, <2>1 DEF Story, Noticing
  <2>3. Ended
    BY <1>1 DEF Story, Over
  <2> QED
    BY <2>2, <2>3 DEF Ended, OnItsWay
<1>2. Story /\ [Next]_vars => [(shown \in {"answer", "expiry"}) => (shown' # "queued")]_vars
  BY <1>1
<1> QED
  BY <1>2, StoryAlways, PTL DEF Spec, NoQueuedAfterReply
=============================================================================
