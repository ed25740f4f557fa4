---------------------- MODULE CompletionOutboxProofs ----------------------
(***************************************************************************)
(* Proofs about CompletionOutbox for any number of handlers, sweepers,     *)
(* deliveries, namespaces and generations and any time constants.          *)
(***************************************************************************)
EXTENDS CompletionOutbox, TLAPS

Rec == [gen : 0..MaxGen, done : BOOLEAN, cause : BOOLEAN]
Job == [d : Deliveries \cup {None}, k : Kinds \cup {None}, g : 0..MaxGen, how : AllHows]
Entry == [k : Kinds, g : 0..MaxGen, v : Verdicts]

(* Where an actor acts on a record, and on a generation of it.             *)
OnRecord == {"emit", "bury", "note", "unnote", "clear", "discard", "lost", "publish", "mark"}
Settling == {"settle", "resend", "gaveup"}

(* What an actor at l has in hand names a record; without a reply target   *)
(* there is none, and no slice.                                            *)
InHand(l, j) ==
    /\ l \in OnRecord \cup {"drop"} => j.k \in Kinds
    /\ l \in OnRecord => j.g \in Gens
    /\ l \in Settling => targetless = TRUE \/ (j.k \in Kinds /\ j.g \in Gens)
    /\ targetless = TRUE => j.how = "turn"

EntryInHand(e) == e.v \in {"emit", "discard"} => e.g \in Gens

ActorTypes ==
    /\ pc \in [Actors -> PCs]
    /\ job \in [Actors -> Job]
    /\ \A a \in Actors : InHand(pc[a], job[a])

TodoTypes ==
    /\ todo \in [Sweepers -> SUBSET Entry]
    /\ \A s \in Sweepers : \A e \in todo[s] : EntryInHand(e)

RowTypes ==
    /\ leased \in BOOLEAN /\ targetless \in BOOLEAN
    /\ row \in [Deliveries -> BOOLEAN]
    /\ fence \in [Deliveries -> Slots \cup {None}]
    /\ lapses \in 0..MaxLapse /\ faults \in 0..MaxFault

MarkerTypes ==
    /\ done \in 0..MarkerTTL
    /\ effect \in 0..IdemTTL
    /\ sinceSettled \in 0..Retention /\ sinceEffect \in 0..IdemTTL

OutboxTypes ==
    /\ rec \in [Kinds -> Rec]
    /\ index \subseteq Kinds
    /\ refused \subseteq Gens /\ resolved \subseteq Gens

GenTypes ==
    /\ published \in [gen : 0..MaxGen, left : 0..MarkerTTL]
    /\ minted \in 0..MaxGen
    /\ age \in [Gens -> 0..(Retention + 1)]
    /\ slices \subseteq Gens
    /\ pubs \in [Gens -> Nat]
    /\ settled \subseteq Gens
    /\ owed \in [Kinds -> 0..MaxGen]

TypeInv ==
    ActorTypes /\ TodoTypes /\ RowTypes /\ MarkerTypes /\ OutboxTypes /\ GenTypes

LEMMA TypeInvImpliesTypeOK == TypeInv => TypeOK
  BY DEF TypeInv, ActorTypes, TodoTypes, RowTypes, MarkerTypes, OutboxTypes, GenTypes, TypeOK,
     Rec, Job, Entry

LEMMA NoneInHand == NoJob \in Job /\ NoRec \in Rec
  BY OutboxAssumption DEF NoJob, Job, NoRec, Rec, AllHows

LEMMA TypeInit == Init => TypeInv
<1> SUFFICES ASSUME Init PROVE TypeInv OBVIOUS
<1>1. RowTypes /\ MarkerTypes /\ OutboxTypes /\ GenTypes
  BY OutboxAssumption, NoneInHand
     DEF Init, RowTypes, MarkerTypes, OutboxTypes, GenTypes, MarkerTTL
<1>2. TodoTypes
  BY DEF Init, TodoTypes
<1>3. ActorTypes
  BY NoneInHand DEF Init, ActorTypes, InHand, OnRecord, Settling, PCs, NoJob
<1> QED BY <1>1, <1>2, <1>3 DEF TypeInv

(* An actor moves, with a new job in hand or the same.                     *)
LEMMA ActorMoves ==
    ASSUME ActorTypes, NEW a \in Actors, NEW l \in PCs, NEW j \in Job, InHand(l, j),
           pc' = [pc EXCEPT ![a] = l], job' = [job EXCEPT ![a] = j],
           targetless' = targetless
    PROVE  ActorTypes'
<1>1. pc' \in [Actors -> PCs] /\ job' \in [Actors -> Job]
  BY DEF ActorTypes
<1>2. ASSUME NEW b \in Actors PROVE InHand(pc[b], job[b])'
  <2>1. CASE b = a
    BY <2>1 DEF ActorTypes, InHand
  <2>2. CASE b # a
    BY <2>2 DEF ActorTypes, InHand
  <2> QED BY <2>1, <2>2
<1> QED BY <1>1, <1>2 DEF ActorTypes

LEMMA ActorGoes ==
    ASSUME ActorTypes, NEW a \in Actors, NEW l \in PCs, InHand(l, job[a]),
           Goto(a, l), job' = job, targetless' = targetless
    PROVE  ActorTypes'
<1>1. job[a] \in Job /\ job' = [job EXCEPT ![a] = job[a]]
  BY DEF ActorTypes
<1> QED BY <1>1, ActorMoves DEF Goto

LEMMA ActorQuits ==
    ASSUME ActorTypes, NEW a \in Actors, Goto(a, "idle"), job' = [job EXCEPT ![a] = NoJob],
           targetless' = targetless
    PROVE  ActorTypes'
<1>1. "idle" \in PCs /\ InHand("idle", NoJob)
  BY DEF PCs, InHand, OnRecord, Settling, NoJob
<1> QED BY <1>1, NoneInHand, ActorMoves DEF Goto

-----------------------------------------------------------------------------
(* Which actions touch which part of the state.                            *)

LEMMA ConfigFrame ==
    ASSUME Next
    PROVE  UNCHANGED config
<1>1. ASSUME NEW a \in Slots, Handle(a) PROVE UNCHANGED config
  BY <1>1 DEF Handle, Acquire, CheckTerminal, ReemitPending, SawSideEffect, StartAttempt,
     ObserveEffect, RetryAttempt, Finish, Settle, SettleRaises, RecoverReply, MarkPending,
     PublishSuccessor, MarkDone, MarkDoneWithoutCompletion, Ack, Leave
<1>2. ASSUME NEW a \in Actors, Deliver(a) PROVE UNCHANGED config
  BY <1>2 DEF Deliver, EmitConfirmed, EmitFails, Clear, DeadLetter, UpdateCause
<1>3. ASSUME NEW s \in Sweepers, Sweep(s) \/ SweepAborts(s) PROVE UNCHANGED config
  BY <1>3 DEF Sweep, SweepStart, SweepRead, SweepNext, DropMember, Discard, SweepAborts
<1>4. ASSUME NEW d \in Deliveries, Lapse(d) PROVE UNCHANGED config
  BY <1>4 DEF Lapse
<1>5. Tick => UNCHANGED config
  BY DEF Tick
<1> QED BY <1>1, <1>2, <1>3, <1>4, <1>5 DEF Next, Actors

LEMMA MarkerFrame ==
    ASSUME Next
    PROVE  \/ UNCHANGED markers
           \/ Tick
           \/ \E a \in Slots :
                 ObserveEffect(a) \/ Settle(a) \/ MarkDone(a) \/ MarkDoneWithoutCompletion(a)
<1>1. ASSUME NEW a \in Slots, Handle(a)
      PROVE  UNCHANGED markers \/ ObserveEffect(a) \/ Settle(a) \/ MarkDone(a) \/
             MarkDoneWithoutCompletion(a)
  BY <1>1 DEF Handle, Acquire, CheckTerminal, ReemitPending, SawSideEffect, StartAttempt,
     RetryAttempt, Finish, SettleRaises, RecoverReply, MarkPending, PublishSuccessor, Ack, Leave
<1>2. ASSUME NEW a \in Actors, Deliver(a) PROVE UNCHANGED markers
  BY <1>2 DEF Deliver, EmitConfirmed, EmitFails, Clear, DeadLetter, UpdateCause
<1>3. ASSUME NEW s \in Sweepers, Sweep(s) \/ SweepAborts(s) PROVE UNCHANGED markers
  BY <1>3 DEF Sweep, SweepStart, SweepRead, SweepNext, DropMember, Discard, SweepAborts
<1>4. ASSUME NEW d \in Deliveries, Lapse(d) PROVE UNCHANGED markers
  BY <1>4 DEF Lapse
<1> QED BY <1>1, <1>2, <1>3, <1>4 DEF Next, Actors

LEMMA OutboxFrame ==
    ASSUME Next
    PROVE  \/ UNCHANGED outbox
           \/ \E a \in Slots : Settle(a) \/ MarkPending(a) \/ MarkDone(a)
           \/ \E a \in Actors : Clear(a) \/ DeadLetter(a) \/ UpdateCause(a)
           \/ \E s \in Sweepers : DropMember(s) \/ Discard(s)
<1>1. ASSUME NEW a \in Slots, Handle(a)
      PROVE  UNCHANGED outbox \/ Settle(a) \/ MarkPending(a) \/ MarkDone(a)
  BY <1>1 DEF Handle, Acquire, CheckTerminal, ReemitPending, SawSideEffect, StartAttempt,
     ObserveEffect, RetryAttempt, Finish, SettleRaises, RecoverReply, PublishSuccessor,
     MarkDoneWithoutCompletion, Ack, Leave, SettleMarker
<1>2. ASSUME NEW a \in Actors, Deliver(a)
      PROVE  UNCHANGED outbox \/ Clear(a) \/ DeadLetter(a) \/ UpdateCause(a)
  BY <1>2 DEF Deliver, EmitConfirmed, EmitFails
<1>3. ASSUME NEW s \in Sweepers, Sweep(s) \/ SweepAborts(s)
      PROVE  UNCHANGED outbox \/ DropMember(s) \/ Discard(s)
  BY <1>3 DEF Sweep, SweepStart, SweepRead, SweepNext, SweepAborts
<1>4. ASSUME NEW d \in Deliveries, Lapse(d) PROVE UNCHANGED outbox
  BY <1>4 DEF Lapse
<1>5. Tick => UNCHANGED outbox
  BY DEF Tick
<1> QED BY <1>1, <1>2, <1>3, <1>4, <1>5 DEF Next, Actors

LEMMA FateFrame ==
    ASSUME Next
    PROVE  \/ UNCHANGED fate
           \/ \E a \in Actors :
                 EmitConfirmed(a) \/ (\E cause \in Failures : EmitFails(a, cause)) \/
                    DeadLetter(a)
           \/ \E s \in Sweepers : Discard(s)
<1>1. ASSUME NEW a \in Slots, Handle(a) PROVE UNCHANGED fate
  BY <1>1 DEF Handle, Acquire, CheckTerminal, ReemitPending, SawSideEffect, StartAttempt,
     ObserveEffect, RetryAttempt, Finish, Settle, SettleRaises, RecoverReply, MarkPending,
     PublishSuccessor, MarkDone, MarkDoneWithoutCompletion, Ack, Leave
<1>2. ASSUME NEW a \in Actors, Deliver(a)
      PROVE  UNCHANGED fate \/ EmitConfirmed(a) \/ (\E cause \in Failures : EmitFails(a, cause))
             \/ DeadLetter(a)
  BY <1>2 DEF Deliver, Clear, UpdateCause
<1>3. ASSUME NEW s \in Sweepers, Sweep(s) \/ SweepAborts(s) PROVE UNCHANGED fate \/ Discard(s)
  BY <1>3 DEF Sweep, SweepStart, SweepRead, SweepNext, DropMember, SweepAborts
<1>4. ASSUME NEW d \in Deliveries, Lapse(d) PROVE UNCHANGED fate
  BY <1>4 DEF Lapse
<1>5. Tick => UNCHANGED fate
  BY DEF Tick
<1> QED BY <1>1, <1>2, <1>3, <1>4, <1>5 DEF Next, Actors

LEMMA GenFrame ==
    ASSUME Next
    PROVE  \/ UNCHANGED <<sweepKeys, gens, terminal>>
           \/ Tick
           \/ \E a \in Slots :
                 SawSideEffect(a) \/ (\E k \in Kinds, how \in AllHows : Finish(a, k, how)) \/
                    Settle(a) \/ PublishSuccessor(a) \/ MarkDone(a)
<1>1. ASSUME NEW a \in Slots, Handle(a)
      PROVE  UNCHANGED <<sweepKeys, gens, terminal>> \/ SawSideEffect(a) \/ (\E k \in Kinds, how
             \in AllHows : Finish(a, k, how)) \/ Settle(a) \/ PublishSuccessor(a) \/ MarkDone(a)
  BY <1>1 DEF Handle, Acquire, CheckTerminal, ReemitPending, StartAttempt, ObserveEffect,
     RetryAttempt, SettleRaises, RecoverReply, MarkPending, MarkDoneWithoutCompletion, Ack,
     Leave, SettleMarker
<1>2. ASSUME NEW a \in Actors, Deliver(a) PROVE UNCHANGED <<sweepKeys, gens, terminal>>
  BY <1>2 DEF Deliver, EmitConfirmed, EmitFails, Clear, DeadLetter, UpdateCause
<1>3. ASSUME NEW s \in Sweepers, Sweep(s) \/ SweepAborts(s)
      PROVE  UNCHANGED <<sweepKeys, gens, terminal>>
  BY <1>3 DEF Sweep, SweepStart, SweepRead, SweepNext, DropMember, Discard, SweepAborts
<1>4. ASSUME NEW d \in Deliveries, Lapse(d) PROVE UNCHANGED <<sweepKeys, gens, terminal>>
  BY <1>4 DEF Lapse
<1> QED BY <1>1, <1>2, <1>3, <1>4 DEF Next, Actors

LEMMA RowFrame ==
    ASSUME Next
    PROVE  \/ UNCHANGED <<rows, faults>>
           \/ \E d \in Deliveries : Lapse(d)
           \/ \E a \in Slots :
                 (\E d \in Deliveries : Acquire(a, d)) \/ Settle(a) \/ SettleRaises(a) \/
                    RecoverReply(a) \/ MarkDone(a) \/ Ack(a) \/ Leave(a)
           \/ \E a \in Actors : UpdateCause(a)
           \/ \E s \in Sweepers : SweepAborts(s)
<1>1. ASSUME NEW a \in Slots, Handle(a)
      PROVE  UNCHANGED <<rows, faults>> \/ (\E d \in Deliveries : Acquire(a, d)) \/ Settle(a) \/
             SettleRaises(a) \/ RecoverReply(a) \/ MarkDone(a) \/ Ack(a) \/ Leave(a)
  BY <1>1 DEF Handle, CheckTerminal, ReemitPending, SawSideEffect, StartAttempt, ObserveEffect,
     RetryAttempt, Finish, MarkPending, PublishSuccessor, MarkDoneWithoutCompletion
<1>2. ASSUME NEW a \in Actors, Deliver(a) PROVE UNCHANGED <<rows, faults>> \/ UpdateCause(a)
  BY <1>2 DEF Deliver, EmitConfirmed, EmitFails, Clear, DeadLetter
<1>3. ASSUME NEW s \in Sweepers, Sweep(s) \/ SweepAborts(s)
      PROVE  UNCHANGED <<rows, faults>> \/ SweepAborts(s)
  BY <1>3 DEF Sweep, SweepStart, SweepRead, SweepNext, DropMember, Discard
<1>5. Tick => UNCHANGED <<rows, faults>>
  BY DEF Tick
<1> QED BY <1>1, <1>2, <1>3, <1>5 DEF Next, Actors

LEMMA TodoFrame ==
    ASSUME Next
    PROVE  \/ UNCHANGED todo
           \/ \E s \in Sweepers :
                 SweepStart(s) \/ SweepRead(s) \/ SweepNext(s) \/ SweepAborts(s)
<1>1. ASSUME NEW a \in Slots, Handle(a) PROVE UNCHANGED todo
  BY <1>1 DEF Handle, Acquire, CheckTerminal, ReemitPending, SawSideEffect, StartAttempt,
     ObserveEffect, RetryAttempt, Finish, Settle, SettleRaises, RecoverReply, MarkPending,
     PublishSuccessor, MarkDone, MarkDoneWithoutCompletion, Ack, Leave, Quit
<1>2. ASSUME NEW a \in Actors, Deliver(a) PROVE UNCHANGED todo
  BY <1>2 DEF Deliver, EmitConfirmed, EmitFails, Clear, DeadLetter, UpdateCause
<1>3. ASSUME NEW s \in Sweepers, Sweep(s) \/ SweepAborts(s)
      PROVE  UNCHANGED todo \/ SweepStart(s) \/ SweepRead(s) \/ SweepNext(s) \/ SweepAborts(s)
  BY <1>3 DEF Sweep, DropMember, Discard
<1>4. ASSUME NEW d \in Deliveries, Lapse(d) PROVE UNCHANGED todo
  BY <1>4 DEF Lapse, actors
<1>5. Tick => UNCHANGED todo
  BY DEF Tick
<1> QED BY <1>1, <1>2, <1>3, <1>4, <1>5 DEF Next, Actors

-----------------------------------------------------------------------------
(* Every part keeps its type.                                              *)

LEMMA MarkerTTLNat == MarkerTTL \in Nat
  BY OutboxAssumption DEF MarkerTTL

LEMMA JobTypes ==
    ASSUME TypeInv, NEW a \in Actors
    PROVE  /\ job[a] \in Job
           /\ pc[a] \in OnRecord \cup {"drop"} => job[a].k \in Kinds
           /\ pc[a] \in OnRecord => job[a].g \in Gens
           /\ targetless = TRUE => job[a].how = "turn"
  BY DEF TypeInv, ActorTypes, InHand

(* What a settlement writes: nothing, the marker alone, or the record.     *)
LEMMA SettleWrites ==
    ASSUME TypeInv, NEW a \in Slots, Settle(a)
    PROVE  \/ UNCHANGED <<markers, outbox, terminal, sweepKeys>>
           \/ SettleMarker
           \/ /\ job[a].k \in Kinds /\ job[a].g \in Gens
              /\ WriteTerminal(job[a]) /\ UNCHANGED <<effect, sinceEffect>>
<1>1. CASE targetless = TRUE
  BY <1>1 DEF Settle
<1>2. CASE targetless = FALSE
  <2>1. job[a].k \in Kinds /\ job[a].g \in Gens
    BY <1>2 DEF TypeInv, ActorTypes, InHand, Settle, Settling, Actors
  <2>2. \/ UNCHANGED <<markers, outbox, terminal, sweepKeys>>
        \/ SettleScript(job[a])
    BY <1>2 DEF Settle
  <2> QED BY <2>1, <2>2 DEF SettleScript
<1> QED BY <1>1, <1>2 DEF TypeInv, RowTypes

(* Where a settlement goes.                                                *)
LEMMA SettleGoes ==
    ASSUME TypeInv, NEW a \in Slots, Settle(a)
    PROVE  \/ Quit(a) /\ UNCHANGED faults
           \/ /\ UNCHANGED <<rows, job, todo>>
              /\ UNCHANGED faults \/ Fault
              /\ \E l \in {"ack", "emit", "resend", "gaveup"} : Goto(a, l) /\ InHand(l, job[a])
<1>1. CASE targetless = TRUE
  <2>1. \A l \in {"ack", "resend", "gaveup"} : InHand(l, job[a])
    BY <1>1, JobTypes DEF InHand, OnRecord, Settling, Actors
  <2> QED BY <1>1, <2>1 DEF Settle
<1>2. CASE targetless = FALSE
  <2>1. job[a].k \in Kinds /\ job[a].g \in Gens
    BY <1>2 DEF TypeInv, ActorTypes, InHand, Settle, Settling, Actors
  <2>2. \A l \in {"emit", "resend", "gaveup"} : InHand(l, job[a])
    BY <2>1, JobTypes DEF InHand, OnRecord, Settling, Actors
  <2> QED BY <1>2, <2>2 DEF Settle
<1> QED BY <1>1, <1>2 DEF TypeInv, RowTypes

LEMMA MarkerStep == ASSUME TypeInv, Next PROVE MarkerTypes'
<1> USE DEF TypeInv, MarkerTypes, markers
<1>1. CASE UNCHANGED markers
  BY <1>1
<1>2. CASE Tick
  <2>1. /\ done' = Dec(done) /\ effect' = Dec(effect)
        /\ sinceSettled' = Inc(sinceSettled, Retention) /\ sinceEffect' = Inc(sinceEffect, IdemTTL)
    BY <1>2 DEF Tick
  <2> QED BY <2>1, OutboxAssumption, MarkerTTLNat DEF Dec, Inc
<1>3. ASSUME NEW a \in Slots, ObserveEffect(a) PROVE MarkerTypes'
  BY <1>3, OutboxAssumption DEF ObserveEffect
<1>4. ASSUME NEW a \in Slots, Settle(a) PROVE MarkerTypes'
  <2>1. \/ UNCHANGED markers
        \/ done' = MarkerTTL /\ sinceSettled' = 0 /\ UNCHANGED <<effect, sinceEffect>>
    BY <1>4, SettleWrites DEF SettleMarker, WriteTerminal
  <2> QED BY <2>1, OutboxAssumption, MarkerTTLNat
<1>5. ASSUME NEW a \in Slots, MarkDone(a) PROVE MarkerTypes'
  BY <1>5, OutboxAssumption, MarkerTTLNat DEF MarkDone
<1>6. ASSUME NEW a \in Slots, MarkDoneWithoutCompletion(a) PROVE MarkerTypes'
  <2>1. SettleMarker BY <1>6 DEF MarkDoneWithoutCompletion
  <2> QED BY <2>1, OutboxAssumption, MarkerTTLNat DEF SettleMarker
<1> QED BY <1>1, <1>2, <1>3, <1>4, <1>5, <1>6, MarkerFrame

LEMMA RowStep == ASSUME TypeInv, Next PROVE RowTypes'
<1> USE DEF TypeInv, RowTypes, config, rows
<1>1. UNCHANGED config
  BY ConfigFrame
<1>2. CASE UNCHANGED <<rows, faults>>
  BY <1>1, <1>2
<1>3. ASSUME NEW a \in Slots, Quit(a), UNCHANGED faults \/ Fault PROVE RowTypes'
  BY <1>1, <1>3, OutboxAssumption DEF Quit, Released, Fault
<1>4. ASSUME NEW a \in Slots, NEW d \in Deliveries, Acquire(a, d) PROVE RowTypes'
  BY <1>1, <1>4 DEF Acquire
<1>5. ASSUME NEW a \in Slots, Settle(a) PROVE RowTypes'
  <2>1. CASE Quit(a) /\ UNCHANGED faults
    BY <1>3, <2>1
  <2>2. CASE UNCHANGED rows /\ (UNCHANGED faults \/ Fault)
    BY <1>1, <2>2, OutboxAssumption DEF Fault
  <2> QED BY <1>5, <2>1, <2>2, SettleGoes
<1>6. ASSUME NEW a \in Slots, SettleRaises(a) \/ RecoverReply(a) \/ MarkDone(a) PROVE RowTypes'
  <2>1. UNCHANGED faults /\ (UNCHANGED rows \/ Quit(a))
    BY <1>6 DEF SettleRaises, RecoverReply, MarkDone
  <2> QED BY <1>2, <1>3, <2>1
<1>7. ASSUME NEW a \in Slots, Ack(a) PROVE RowTypes'
  <2>1. /\ row' = [row EXCEPT ![job[a].d] = FALSE] /\ fence' = Released(a)
        /\ UNCHANGED <<lapses, faults>>
    BY <1>7 DEF Ack
  <2> QED BY <1>1, <2>1 DEF Released
<1>8. ASSUME NEW a \in Slots, Leave(a) PROVE RowTypes'
  <2>1. Quit(a) /\ (UNCHANGED faults \/ Fault)
    BY <1>8 DEF Leave
  <2> QED BY <1>3, <2>1
<1>9. ASSUME NEW a \in Actors, UpdateCause(a) PROVE RowTypes'
  <2>1. UNCHANGED rows /\ (UNCHANGED faults \/ Fault)
    BY <1>9 DEF UpdateCause
  <2> QED BY <1>1, <2>1, OutboxAssumption DEF Fault
<1>10. ASSUME NEW s \in Sweepers, SweepAborts(s) PROVE RowTypes'
  <2>1. UNCHANGED rows /\ Fault
    BY <1>10 DEF SweepAborts
  <2> QED BY <1>1, <2>1, OutboxAssumption DEF Fault
<1>11. ASSUME NEW d \in Deliveries, Lapse(d) PROVE RowTypes'
  <2>1. /\ fence' = [fence EXCEPT ![d] = None] /\ lapses < MaxLapse /\ lapses' = lapses + 1
        /\ UNCHANGED <<row, faults>>
    BY <1>11 DEF Lapse
  <2> QED BY <1>1, <2>1, OutboxAssumption
<1> QED BY <1>2, <1>4, <1>5, <1>6, <1>7, <1>8, <1>9, <1>10, <1>11, RowFrame

LEMMA RemoveTypes ==
    ASSUME OutboxTypes, NEW k \in Kinds, Remove(k)
    PROVE  rec' \in [Kinds -> Rec] /\ index' \subseteq Kinds
  BY NoneInHand DEF OutboxTypes, Remove

LEMMA CauseTypes ==
    ASSUME OutboxTypes, NEW j, NEW c \in BOOLEAN, CauseScript(j, c)
    PROVE  rec' \in [Kinds -> Rec]
  BY DEF OutboxTypes, CauseScript, Rec

LEMMA RecStep == ASSUME TypeInv, Next PROVE rec' \in [Kinds -> Rec] /\ index' \subseteq Kinds
<1> DEFINE Kept == rec' \in [Kinds -> Rec] /\ index' \subseteq Kinds
<1> USE DEF TypeInv, OutboxTypes
<1>1. CASE UNCHANGED outbox
  BY <1>1 DEF outbox
<1>2. ASSUME NEW a \in Slots, Settle(a) PROVE Kept
  <2>1. CASE UNCHANGED outbox
    BY <1>1, <2>1
  <2>2. CASE job[a].k \in Kinds /\ job[a].g \in Gens /\ WriteTerminal(job[a])
    <3>1. [gen |-> job[a].g, done |-> TRUE, cause |-> FALSE] \in Rec
      BY <2>2 DEF Rec, Gens
    <3> QED BY <2>2, <3>1 DEF WriteTerminal
  <2> QED BY <1>2, <2>1, <2>2, SettleWrites DEF SettleMarker
<1>3. ASSUME NEW a \in Slots, MarkPending(a) PROVE Kept
  <2>1. /\ targetless # TRUE /\ pc[a] \in Settling
        /\ rec' = [rec EXCEPT ![job[a].k] = [gen |-> job[a].g, done |-> FALSE, cause |-> FALSE]]
        /\ index' = index \cup {job[a].k}
    BY <1>3 DEF MarkPending, Settling
  <2>2. job[a].k \in Kinds /\ job[a].g \in Gens
    BY <2>1 DEF ActorTypes, InHand, Actors
  <2>3. [gen |-> job[a].g, done |-> FALSE, cause |-> FALSE] \in Rec
    BY <2>2 DEF Rec, Gens
  <2> QED BY <2>1, <2>2, <2>3
<1>4. ASSUME NEW a \in Slots, MarkDone(a) PROVE Kept
  <2>1. UNCHANGED index /\ (UNCHANGED rec \/ rec' = [rec EXCEPT ![job[a].k].done = TRUE])
    BY <1>4 DEF MarkDone
  <2>2. ASSUME NEW k \in Kinds PROVE [rec[k] EXCEPT !.done = TRUE] \in Rec
    <3>1. rec[k] \in Rec
      OBVIOUS
    <3> QED BY <3>1 DEF Rec
  <2>3. [rec EXCEPT ![job[a].k].done = TRUE] \in [Kinds -> Rec]
    BY <2>2
  <2> QED BY <2>1, <2>3
<1>5. ASSUME NEW a \in Actors, Clear(a) \/ DeadLetter(a) PROVE Kept
  <2>1. job[a].k \in Kinds
    BY <1>5, JobTypes DEF Clear, DeadLetter, OnRecord
  <2>2. UNCHANGED outbox \/ Remove(job[a].k)
    BY <1>5 DEF Clear, DeadLetter, ClearScript, DeadLetterScript
  <2> QED BY <1>1, <2>1, <2>2, RemoveTypes
<1>6. ASSUME NEW a \in Actors, UpdateCause(a) PROVE Kept
  <2>1. UNCHANGED index /\ (UNCHANGED rec \/ CauseScript(job[a], pc[a] = "note"))
    BY <1>6 DEF UpdateCause
  <2>2. (pc[a] = "note") \in BOOLEAN
    OBVIOUS
  <2>3. PICK c \in BOOLEAN : c = (pc[a] = "note")
    BY <2>2
  <2>4. UNCHANGED rec \/ CauseScript(job[a], c)
    BY <2>1, <2>3
  <2> QED BY <2>1, <2>4, CauseTypes DEF outbox
<1>7. ASSUME NEW s \in Sweepers, DropMember(s) PROVE Kept
  BY <1>7 DEF DropMember
<1>8. ASSUME NEW s \in Sweepers, Discard(s) PROVE Kept
  <2>1. job[s].k \in Kinds
    BY <1>8, JobTypes DEF Discard, OnRecord, Actors
  <2>2. UNCHANGED outbox \/ Remove(job[s].k)
    BY <1>8 DEF Discard, ClearScript
  <2> QED BY <1>1, <2>1, <2>2, RemoveTypes
<1> QED BY <1>1, <1>2, <1>3, <1>4, <1>5, <1>6, <1>7, <1>8, OutboxFrame

LEMMA FateStep == ASSUME TypeInv, Next PROVE refused' \subseteq Gens /\ resolved' \subseteq Gens
<1> DEFINE Kept == refused' \subseteq Gens /\ resolved' \subseteq Gens
<1> USE DEF TypeInv, OutboxTypes
<1>1. CASE UNCHANGED fate
  BY <1>1 DEF fate
<1>2. ASSUME NEW a \in Actors, pc[a] \in OnRecord,
             refused' \subseteq refused \cup {job[a].g},
             resolved' \subseteq resolved \cup {job[a].g}
      PROVE  Kept
  BY <1>2, JobTypes
<1>3. ASSUME NEW a \in Actors, EmitConfirmed(a) \/ DeadLetter(a) PROVE Kept
  <2>1. /\ pc[a] \in {"emit", "bury"} /\ UNCHANGED refused
        /\ resolved' = resolved \/ resolved' = resolved \cup {job[a].g}
    BY <1>3 DEF EmitConfirmed, DeadLetter, DeadLetterScript
  <2> QED BY <1>2, <2>1 DEF OnRecord
<1>4. ASSUME NEW a \in Actors, NEW cause \in Failures, EmitFails(a, cause) PROVE Kept
  <2>1. /\ pc[a] = "emit" /\ UNCHANGED resolved
        /\ refused' = refused \/ refused' = refused \cup {job[a].g}
    BY <1>4 DEF EmitFails
  <2> QED BY <1>2, <2>1 DEF OnRecord
<1>5. ASSUME NEW s \in Sweepers, Discard(s) PROVE Kept
  <2>1. /\ pc[s] = "discard" /\ UNCHANGED refused
        /\ resolved' = resolved \/ resolved' = resolved \cup {job[s].g}
    BY <1>5 DEF Discard
  <2> QED BY <1>2, <2>1 DEF OnRecord, Actors
<1> QED BY <1>1, <1>3, <1>4, <1>5, FateFrame

LEMMA BuildWrites ==
    ASSUME GenTypes, NEW a \in Slots, NEW k, NEW how, BuildRecord(a, k, how)
    PROVE  minted' \in 0..MaxGen /\ slices' \subseteq Gens /\ UNCHANGED age
<1>1. CASE targetless
  BY <1>1 DEF BuildRecord, GenTypes, gens
<1>2. CASE ~targetless
  <2>1. minted < MaxGen /\ minted' = minted + 1 /\ UNCHANGED age
    BY <1>2 DEF BuildRecord
  <2>2. minted + 1 \in Gens /\ minted' \in 0..MaxGen
    BY <2>1, OutboxAssumption DEF GenTypes, Gens
  <2>3. slices' = slices \/ slices' = slices \cup {minted + 1}
    BY <1>2 DEF BuildRecord
  <2> QED BY <2>1, <2>2, <2>3 DEF GenTypes
<1> QED BY <1>1, <1>2

LEMMA GenStep == ASSUME TypeInv, Next PROVE GenTypes'
<1> USE DEF TypeInv
<1>1. CASE UNCHANGED <<sweepKeys, gens, terminal>>
  BY <1>1 DEF GenTypes, sweepKeys, gens, terminal
<1>2. CASE Tick
  <2>1. published' \in [gen : 0..MaxGen, left : 0..MarkerTTL]
    <3>1. \/ published' = [gen |-> 0, left |-> 0]
          \/ published' = [published EXCEPT !.left = @ - 1] /\ ~(published.left <= 1)
      BY <1>2 DEF Tick
    <3> QED BY SMTT(30), <3>1, OutboxAssumption, MarkerTTLNat DEF GenTypes
  <2>2. age' \in [Gens -> 0..(Retention + 1)]
    BY <1>2, OutboxAssumption DEF Tick, GenTypes, Inc, Gens
  <2> QED BY <1>2, <2>1, <2>2 DEF Tick, GenTypes, terminal
<1>3. ASSUME NEW a \in Slots, NEW k, NEW how, BuildRecord(a, k, how),
             UNCHANGED <<published, pubs, terminal>>
      PROVE  GenTypes'
  BY <1>3, BuildWrites DEF GenTypes, terminal
<1>4. ASSUME NEW a \in Slots, SawSideEffect(a) PROVE GenTypes'
  <2>1. \/ \E k \in Kinds : BuildRecord(a, k, "turn")
        \/ UNCHANGED <<gens, slices>>
    BY <1>4 DEF SawSideEffect
  <2>2. UNCHANGED <<published, pubs, terminal>>
    BY <1>4 DEF SawSideEffect
  <2>3. CASE UNCHANGED <<gens, slices>>
    BY <1>1, <2>2, <2>3 DEF sweepKeys
  <2> QED BY <1>3, <2>1, <2>2, <2>3
<1>5. ASSUME NEW a \in Slots, NEW k \in Kinds, NEW how \in AllHows, Finish(a, k, how)
      PROVE  GenTypes'
  BY <1>3, <1>5 DEF Finish
<1>6. ASSUME NEW a \in Slots, Settle(a) PROVE GenTypes'
  <2>1. UNCHANGED gens
    BY <1>6 DEF Settle
  <2>2. CASE UNCHANGED <<terminal, sweepKeys>>
    BY <1>1, <2>1, <2>2
  <2>3. CASE job[a].k \in Kinds /\ job[a].g \in Gens /\ WriteTerminal(job[a])
    <3>1. settled' \subseteq Gens /\ owed' \in [Kinds -> 0..MaxGen] /\ UNCHANGED slices
      <4>1. job[a].g \in 0..MaxGen
        BY <2>3 DEF Gens
      <4> QED BY <2>3, <4>1 DEF WriteTerminal, GenTypes
    <3>2. /\ published' \in [gen : 0..MaxGen, left : 0..MarkerTTL]
          /\ pubs' \in [Gens -> Nat]
      BY SMTT(30), <2>3, MarkerTTLNat DEF WriteTerminal, GenTypes, Gens
    <3> QED BY <2>1, <3>1, <3>2 DEF GenTypes, gens
  <2> QED BY <1>6, <2>2, <2>3, SettleWrites DEF SettleMarker
<1>7. ASSUME NEW a \in Slots, PublishSuccessor(a) PROVE GenTypes'
  <2>1. /\ pubs' = [pubs EXCEPT ![job[a].g] = @ + 1]
        /\ UNCHANGED <<published, slices, gens, terminal>>
    BY <1>7 DEF PublishSuccessor
  <2>2. job[a].g \in Gens
    BY <1>7, JobTypes DEF PublishSuccessor, OnRecord, Actors
  <2>3. pubs' \in [Gens -> Nat]
    BY <2>1, <2>2 DEF GenTypes
  <2> QED BY <2>1, <2>3 DEF GenTypes, gens, terminal
<1>8. ASSUME NEW a \in Slots, MarkDone(a) PROVE GenTypes'
  <2>1. UNCHANGED <<sweepKeys, gens>> /\ pc[a] = "mark"
    BY <1>8 DEF MarkDone
  <2>2. job[a].g \in Gens
    BY <2>1, JobTypes DEF OnRecord, Actors
  <2>3. \/ UNCHANGED terminal
        \/ settled' = settled \cup {job[a].g} /\ owed' = [owed EXCEPT ![job[a].k] = job[a].g]
    BY <1>8 DEF MarkDone
  <2>4. job[a].g \in 0..MaxGen
    BY <2>2 DEF Gens
  <2>5. settled' \subseteq Gens /\ owed' \in [Kinds -> 0..MaxGen]
    BY <2>2, <2>3, <2>4 DEF GenTypes, terminal
  <2> QED BY <2>1, <2>5 DEF GenTypes, sweepKeys, gens
<1> QED BY <1>1, <1>2, <1>4, <1>5, <1>6, <1>7, <1>8, GenFrame

LEMMA TodoStep == ASSUME TypeInv, Next PROVE TodoTypes'
<1> USE DEF TypeInv, TodoTypes
<1>1. CASE UNCHANGED todo
  BY <1>1
<1>2. ASSUME NEW s \in Sweepers, NEW es \in SUBSET Entry, \A e \in es : EntryInHand(e),
             todo' = [todo EXCEPT ![s] = es]
      PROVE  TodoTypes'
  BY <1>2 DEF EntryInHand
<1>3. ASSUME NEW s \in Sweepers, SweepStart(s) PROVE TodoTypes'
  <2>1. /\ [k : index, g : {0}, v : {"read"}] \in SUBSET Entry
        /\ \A e \in [k : index, g : {0}, v : {"read"}] : EntryInHand(e)
    BY OutboxAssumption DEF Entry, Verdicts, EntryInHand, OutboxTypes
  <2>2. todo' = [todo EXCEPT ![s] = [k : index, g : {0}, v : {"read"}]]
    BY <1>3 DEF SweepStart
  <2> QED BY <1>2, <2>1, <2>2
<1>4. ASSUME NEW s \in Sweepers, SweepRead(s) PROVE TodoTypes'
  <2> DEFINE read == {[k |-> m.k, g |-> rec[m.k].gen, v |-> Verdict(rec[m.k])] : m \in todo[s]}
             es == {e \in read : e.v # "rest"}
  <2>1. ASSUME NEW e \in es PROVE e \in Entry /\ EntryInHand(e)
    <3>1. PICK m \in todo[s] : e = [k |-> m.k, g |-> rec[m.k].gen, v |-> Verdict(rec[m.k])]
      OBVIOUS
    <3>2. m.k \in Kinds
      BY DEF Entry
    <3>3. rec[m.k] \in Rec
      BY <3>2 DEF OutboxTypes
    <3>4. Verdict(rec[m.k]) \in {"drop", "discard", "emit"}
      BY <2>1, <3>1 DEF Verdict
    <3>5. rec[m.k].gen = 0 => Verdict(rec[m.k]) = "drop"
      BY DEF Verdict
    <3>6. e \in Entry
      BY <3>1, <3>2, <3>3, <3>4 DEF Entry, Rec, Verdicts
    <3>7. EntryInHand(e)
      BY <3>1, <3>3, <3>5 DEF EntryInHand, Rec, Gens
    <3> QED BY <3>6, <3>7
  <2>2. todo' = [todo EXCEPT ![s] = es]
    BY <1>4 DEF SweepRead
  <2>3. es \in SUBSET Entry /\ \A e \in es : EntryInHand(e)
    BY <2>1
  <2> QED BY <1>2, <2>2, <2>3
<1>5. ASSUME NEW s \in Sweepers, SweepNext(s) PROVE TodoTypes'
  <2>1. UNCHANGED todo \/ \E e \in todo[s] : todo' = [todo EXCEPT ![s] = @ \ {e}]
    BY <1>5 DEF SweepNext
  <2> QED BY <1>1, <2>1
<1>6. ASSUME NEW s \in Sweepers, SweepAborts(s) PROVE TodoTypes'
  BY <1>2, <1>6 DEF SweepAborts
<1> QED BY <1>1, <1>3, <1>4, <1>5, <1>6, TodoFrame

(* Where an actor goes with what it has in hand.                           *)
LEMMA ActorStep == ASSUME TypeInv, Next PROVE ActorTypes'
<1> USE DEF TypeInv
<1>0. targetless' = targetless
  BY ConfigFrame DEF config
<1>1. ASSUME NEW a \in Actors, NEW l \in PCs, l \notin OnRecord \cup Settling \cup {"drop"},
             Goto(a, l), UNCHANGED job
      PROVE  ActorTypes'
  BY <1>0, <1>1, JobTypes, ActorGoes DEF InHand
<1>2. ASSUME NEW a \in Slots, Quit(a) PROVE ActorTypes'
  BY <1>0, <1>2, ActorQuits DEF Quit, Goto, Actors
<1>3. ASSUME NEW a \in Actors, pc[a] \in OnRecord, NEW l \in OnRecord, Goto(a, l), UNCHANGED job
      PROVE  ActorTypes'
  <2>1. l \in PCs /\ InHand(l, job[a])
    BY <1>3, JobTypes DEF OnRecord, PCs, InHand, Settling
  <2> QED BY <1>0, <1>3, <2>1, ActorGoes
<1>4. ASSUME NEW a \in Slots, NEW d \in Deliveries, Acquire(a, d) PROVE ActorTypes'
  <2>1. Goto(a, "check") /\ job' = [job EXCEPT ![a] = [job[a] EXCEPT !.d = d]]
    BY <1>4 DEF Acquire
  <2>2. [job[a] EXCEPT !.d = d] \in Job
    BY JobTypes DEF Job, Actors
  <2>3. "check" \in PCs /\ InHand("check", [job[a] EXCEPT !.d = d])
    BY JobTypes DEF Actors, Job, PCs, InHand, OnRecord, Settling
  <2> QED BY <1>0, <2>1, <2>2, <2>3, ActorMoves DEF Goto, Actors
<1>5. ASSUME NEW a \in Slots, ReemitPending(a) PROVE ActorTypes'
  <2>1. CASE Goto(a, "ack") /\ UNCHANGED job
    BY <1>1, <2>1 DEF PCs, OnRecord, Settling, Actors
  <2>2. ASSUME NEW i \in DOMAIN Namespaces, ReadFirst(i), Goto(a, "emit"),
               job' = [job EXCEPT ![a].k = Namespaces[i], ![a].g = rec[Namespaces[i]].gen]
        PROVE  ActorTypes'
    <3> DEFINE k == Namespaces[i]
               j == [job[a] EXCEPT !.k = k, !.g = rec[k].gen]
    <3>1. k \in Kinds
      BY DEF Kinds
    <3>2. rec[k] \in Rec /\ rec[k].gen # 0
      BY <2>2, <3>1 DEF ReadFirst, Stored, OutboxTypes
    <3>3. rec[k].gen \in Gens
      BY <3>2 DEF Rec, Gens
    <3>4. j \in Job /\ j.k = k /\ j.g = rec[k].gen /\ j.how = job[a].how
      BY <3>1, <3>2, JobTypes DEF Job, Rec, Actors
    <3>5. "emit" \in PCs /\ InHand("emit", j)
      BY <3>1, <3>3, <3>4, JobTypes DEF PCs, InHand, OnRecord, Settling, Actors
    <3>6. job' = [job EXCEPT ![a] = j]
      BY <2>2 DEF ActorTypes, Actors
    <3> QED BY <1>0, <2>2, <3>4, <3>5, <3>6, ActorMoves DEF Goto, Actors
  <2> QED BY <1>5, <2>1, <2>2 DEF ReemitPending
<1>6. ASSUME NEW a \in Slots, NEW k \in Kinds, NEW how \in AllHows, BuildRecord(a, k, how)
      PROVE  ActorTypes'
  <2>1. Goto(a, "settle") /\ "settle" \in PCs
    BY <1>6 DEF BuildRecord, PCs
  <2>2. CASE targetless = TRUE
    <3>1. UNCHANGED job /\ InHand("settle", job[a])
      BY <1>6, <2>2, JobTypes DEF BuildRecord, InHand, OnRecord, Settling, Actors
    <3> QED BY <1>0, <2>1, <3>1, ActorGoes DEF Actors
  <2>3. CASE targetless = FALSE
    <3> DEFINE j == [job[a] EXCEPT !.k = k, !.g = minted + 1, !.how = how]
    <3>1. minted < MaxGen
      BY <1>6, <2>3 DEF BuildRecord
    <3>2. minted + 1 \in Gens /\ minted + 1 \in 0..MaxGen
      BY <3>1, OutboxAssumption DEF GenTypes, Gens
    <3>3. j \in Job /\ j.k = k /\ j.g = minted + 1
      BY <3>2, JobTypes DEF Job, Actors
    <3>4. InHand("settle", j)
      BY <2>3, <3>2, <3>3 DEF InHand, OnRecord, Settling
    <3>5. job' = [job EXCEPT ![a] = j]
      <4>1. job' = [job EXCEPT ![a].k = k, ![a].g = minted + 1, ![a].how = how]
        BY <1>6, <2>3 DEF BuildRecord
      <4> QED BY <4>1 DEF ActorTypes, Actors
    <3> QED BY <1>0, <2>1, <3>3, <3>4, <3>5, ActorMoves DEF Goto, Actors
  <2> QED BY <2>2, <2>3 DEF RowTypes
<1>7. ASSUME NEW a \in Slots, SawSideEffect(a) PROVE ActorTypes'
  <2>1. \/ \E k \in Kinds : BuildRecord(a, k, "turn")
        \/ Goto(a, "start") /\ UNCHANGED job
    BY <1>7 DEF SawSideEffect
  <2> QED BY <1>1, <1>6, <2>1 DEF AllHows, PCs, OnRecord, Settling, Actors
<1>8. ASSUME NEW a \in Slots, NEW k \in Kinds, NEW how \in AllHows, Finish(a, k, how)
      PROVE  ActorTypes'
  BY <1>6, <1>8 DEF Finish
<1>9. ASSUME NEW a \in Slots, Settle(a) PROVE ActorTypes'
  <2>1. {"ack", "emit", "resend", "gaveup"} \subseteq PCs
    BY DEF PCs
  <2> QED BY <1>0, <1>2, <1>9, <2>1, SettleGoes, ActorGoes DEF Actors
<1>10. ASSUME NEW a \in Slots,
              CheckTerminal(a) \/ StartAttempt(a) \/ ObserveEffect(a) \/ RetryAttempt(a)
       PROVE  ActorTypes'
  <2>1. UNCHANGED job /\ \E l \in {"read", "side", "run", "acted", "start"} : Goto(a, l)
    BY <1>10 DEF CheckTerminal, StartAttempt, ObserveEffect, RetryAttempt
  <2> QED BY <1>1, <2>1 DEF PCs, OnRecord, Settling, Actors
<1>11. ASSUME NEW a \in Slots, MarkDoneWithoutCompletion(a) PROVE ActorTypes'
  <2>1. UNCHANGED job /\ Goto(a, "ack")
    BY <1>11 DEF MarkDoneWithoutCompletion
  <2> QED BY <1>1, <2>1 DEF PCs, OnRecord, Settling, Actors
<1>12. ASSUME NEW a \in Slots, SettleRaises(a) PROVE ActorTypes'
  <2>1. CASE Quit(a)
    BY <1>2, <2>1
  <2>2. CASE job[a].how = "slice" /\ Goto(a, "lost") /\ UNCHANGED job
    <3>1. pc[a] = "gaveup"
      BY <1>12 DEF SettleRaises
    <3>2. job[a].k \in Kinds /\ job[a].g \in Gens
      BY <2>2, <3>1 DEF ActorTypes, InHand, Settling, Actors
    <3>3. "lost" \in PCs /\ InHand("lost", job[a])
      BY <3>2, JobTypes DEF PCs, InHand, OnRecord, Settling, Actors
    <3> QED BY <1>0, <2>2, <3>3, ActorGoes DEF Actors
  <2> QED BY <1>12, <2>1, <2>2 DEF SettleRaises
<1>13. ASSUME NEW a \in Slots, RecoverReply(a) PROVE ActorTypes'
  <2>1. pc[a] = "lost" /\ (Quit(a) \/ (Goto(a, "emit") /\ UNCHANGED job))
    BY <1>13 DEF RecoverReply
  <2> QED BY <1>2, <1>3, <2>1 DEF OnRecord, Actors
<1>14. ASSUME NEW a \in Slots, MarkPending(a) PROVE ActorTypes'
  <2>1. /\ targetless # TRUE /\ pc[a] \in Settling /\ UNCHANGED job
        /\ \E l \in {"publish", "mark"} : Goto(a, l)
    BY <1>14 DEF MarkPending, Settling
  <2>2. job[a].k \in Kinds /\ job[a].g \in Gens
    BY <2>1 DEF ActorTypes, InHand, Actors
  <2>3. \A l \in {"publish", "mark"} : l \in PCs /\ InHand(l, job[a])
    BY <2>2, JobTypes DEF PCs, InHand, OnRecord, Settling, Actors
  <2> QED BY <1>0, <2>1, <2>3, ActorGoes DEF Actors
<1>15. ASSUME NEW a \in Slots, PublishSuccessor(a) PROVE ActorTypes'
  <2>1. pc[a] = "publish" /\ Goto(a, "mark") /\ UNCHANGED job
    BY <1>15 DEF PublishSuccessor
  <2> QED BY <1>3, <2>1 DEF OnRecord, Actors
<1>16. ASSUME NEW a \in Slots, MarkDone(a) PROVE ActorTypes'
  <2>1. pc[a] = "mark" /\ (Quit(a) \/ (Goto(a, "emit") /\ UNCHANGED job))
    BY <1>16 DEF MarkDone
  <2> QED BY <1>2, <1>3, <2>1 DEF OnRecord, Actors
<1>17. ASSUME NEW a \in Slots, Ack(a) \/ Leave(a) PROVE ActorTypes'
  <2>1. Goto(a, "idle") /\ job' = [job EXCEPT ![a] = NoJob]
    BY <1>17 DEF Ack, Leave, Quit, Goto
  <2> QED BY <1>0, <2>1, ActorQuits DEF Actors
<1>18. ASSUME NEW a \in Actors, AfterDelivery(a) PROVE ActorTypes'
  <2>1. CASE Goto(a, "ack") /\ UNCHANGED job
    BY <1>1, <2>1 DEF PCs, OnRecord, Settling
  <2>2. CASE Goto(a, "pass") /\ job' = [job EXCEPT ![a] = NoJob]
    <3>1. "pass" \in PCs /\ InHand("pass", NoJob)
      BY DEF PCs, InHand, OnRecord, Settling, NoJob
    <3> QED BY <1>0, <2>2, <3>1, NoneInHand, ActorMoves DEF Goto
  <2> QED BY <1>18, <2>1, <2>2 DEF AfterDelivery
<1>19. ASSUME NEW a \in Actors, Deliver(a) PROVE ActorTypes'
  <2>1. CASE AfterDelivery(a)
    BY <1>18, <2>1
  <2>2. CASE pc[a] = "emit" /\ UNCHANGED job /\ \E l \in Failures \cup {"clear"} : Goto(a, l)
    <3>1. Failures \cup {"clear"} \subseteq OnRecord /\ "emit" \in OnRecord
      BY OutboxAssumption DEF OnRecord
    <3> QED BY <1>3, <2>2, <3>1
  <2> QED BY <1>19, <2>1, <2>2
          DEF Deliver, EmitConfirmed, EmitFails, Clear, DeadLetter, UpdateCause
<1>20. ASSUME NEW s \in Sweepers, DropMember(s) \/ Discard(s) PROVE ActorTypes'
  BY <1>18, <1>20 DEF DropMember, Discard, Actors
<1>21. ASSUME NEW s \in Sweepers, SweepStart(s) \/ SweepRead(s) PROVE ActorTypes'
  <2>1. UNCHANGED job /\ \E l \in {"members", "pass"} : Goto(s, l)
    BY <1>21 DEF SweepStart, SweepRead
  <2> QED BY <1>1, <2>1 DEF PCs, OnRecord, Settling, Actors
<1>22. ASSUME NEW s \in Sweepers, SweepNext(s) PROVE ActorTypes'
  <2>1. CASE Goto(s, "idle") /\ UNCHANGED job
    BY <1>1, <2>1 DEF PCs, OnRecord, Settling, Actors
  <2>2. ASSUME NEW e \in todo[s], Goto(s, e.v), job' = [job EXCEPT ![s].k = e.k, ![s].g = e.g]
        PROVE  ActorTypes'
    <3> DEFINE j == [job[s] EXCEPT !.k = e.k, !.g = e.g]
    <3>1. e \in Entry /\ EntryInHand(e)
      BY DEF TodoTypes
    <3>2. j \in Job /\ j.k = e.k /\ j.g = e.g /\ j.how = job[s].how
      BY <3>1, JobTypes DEF Job, Entry, Actors
    <3>3. e.v \in PCs /\ InHand(e.v, j)
      BY <3>1, <3>2, JobTypes
         DEF Entry, EntryInHand, Verdicts, PCs, InHand, OnRecord, Settling, Actors
    <3>4. job' = [job EXCEPT ![s] = j]
      BY <2>2 DEF ActorTypes, Actors
    <3> QED BY <1>0, <2>2, <3>2, <3>3, <3>4, ActorMoves DEF Goto, Actors
  <2> QED BY <1>22, <2>1, <2>2 DEF SweepNext
<1>23. ASSUME NEW s \in Sweepers, SweepAborts(s) PROVE ActorTypes'
  BY <1>0, <1>23, ActorQuits DEF SweepAborts, Actors
<1>24. CASE Tick
  <2>1. /\ pc' = [a \in Actors |-> IF pc[a] = "resend" THEN "gaveup" ELSE pc[a]]
        /\ UNCHANGED job
    BY <1>24 DEF Tick
  <2>2. "gaveup" \in PCs
    BY DEF PCs
  <2>3. ASSUME NEW a \in Actors PROVE InHand(pc[a], job[a])'
    BY <1>0, <2>1 DEF ActorTypes, InHand, OnRecord, Settling
  <2> QED BY <2>1, <2>2, <2>3 DEF ActorTypes
<1>25. ASSUME NEW d \in Deliveries, Lapse(d) PROVE ActorTypes'
  BY <1>0, <1>25 DEF Lapse, actors, ActorTypes, InHand
<1>26. ASSUME NEW a \in Slots, Handle(a) PROVE ActorTypes'
  BY <1>4, <1>5, <1>7, <1>8, <1>9, <1>10, <1>11, <1>12, <1>13, <1>14, <1>15, <1>16, <1>17, <1>26
     DEF Handle
<1> QED BY <1>19, <1>20, <1>21, <1>22, <1>23, <1>24, <1>25, <1>26 DEF Next, Sweep, Actors

LEMMA TypeStep == TypeInv /\ [Next]_vars => TypeInv'
<1> SUFFICES ASSUME TypeInv, [Next]_vars PROVE TypeInv' OBVIOUS
<1>1. CASE Next
  BY <1>1, ActorStep, TodoStep, RowStep, MarkerStep, RecStep, FateStep, GenStep
     DEF TypeInv, OutboxTypes
<1>2. CASE UNCHANGED vars
  BY <1>2 DEF TypeInv, ActorTypes, InHand, TodoTypes, RowTypes, MarkerTypes, OutboxTypes, GenTypes,
     vars, config, rows, markers, outbox, sweepKeys, gens, actors, fate, terminal
<1> QED BY <1>1, <1>2

-----------------------------------------------------------------------------
(* Who moves where.                                                        *)

Stays(b) == pc'[b] = pc[b] /\ job'[b] = job[b]
Watched == {"emit", "note", "clear", "publish", "mark"}

(* The steps by which an actor comes to a watched label.                   *)
HandlerEnters(b) ==
    \/ ReemitPending(b) \/ Settle(b) \/ RecoverReply(b)
    \/ MarkPending(b) \/ PublishSuccessor(b) \/ MarkDone(b)
Enters(b) ==
    \/ b \in Slots /\ HandlerEnters(b)
    \/ b \in Sweepers /\ SweepNext(b)
    \/ EmitConfirmed(b) \/ \E cause \in Failures : EmitFails(b, cause)

LEMMA Entered ==
    ASSUME TypeInv, Next, NEW b \in Actors
    PROVE  Stays(b) \/ pc'[b] \notin Watched \/ Enters(b)
<1> USE DEF TypeInv, ActorTypes
<1>1. ASSUME NEW a \in Actors, NEW l, Goto(a, l),
             UNCHANGED job \/ \E j : job' = [job EXCEPT ![a] = j]
      PROVE  IF b = a THEN pc'[b] = l ELSE Stays(b)
  BY <1>1 DEF Goto, Stays
<1>2. ASSUME NEW a \in Slots, Quit(a) PROVE Stays(b) \/ pc'[b] = "idle"
  BY <1>2 DEF Quit, Stays, Actors
<1>3. ASSUME NEW a \in Actors, AfterDelivery(a) PROVE Stays(b) \/ pc'[b] \notin Watched
  <2>1. PICK l \in {"ack", "pass"} : Goto(a, l)
    BY <1>3 DEF AfterDelivery
  <2>2. UNCHANGED job \/ job' = [job EXCEPT ![a] = NoJob]
    BY <1>3 DEF AfterDelivery
  <2> QED BY <1>1, <2>1, <2>2 DEF Watched
<1>4. ASSUME NEW a \in Slots, NEW d \in Deliveries, Acquire(a, d)
      PROVE  Stays(b) \/ pc'[b] \notin Watched
  <2>1. Goto(a, "check") /\ job' = [job EXCEPT ![a].d = d]
    BY <1>4 DEF Acquire
  <2> QED BY <2>1 DEF Goto, Stays, Watched, Actors
<1>5. ASSUME NEW a \in Slots, NEW k, NEW how, BuildRecord(a, k, how)
      PROVE  Stays(b) \/ pc'[b] \notin Watched
  <2>1. Goto(a, "settle")
    BY <1>5 DEF BuildRecord
  <2>2. \/ UNCHANGED job
        \/ job' = [job EXCEPT ![a].k = k, ![a].g = minted + 1, ![a].how = how]
    BY <1>5 DEF BuildRecord
  <2> QED BY <2>1, <2>2 DEF Goto, Stays, Watched, Actors
<1>6. ASSUME NEW a \in Slots, Handle(a) PROVE Stays(b) \/ pc'[b] \notin Watched \/ Enters(b)
  <2>1. CASE HandlerEnters(a)
    <3>1. CASE b = a
      BY <2>1, <3>1 DEF Enters
    <3>2. CASE b # a
      <4>1. CASE Quit(a)
        BY <1>2, <4>1 DEF Watched
      <4>2. CASE UNCHANGED job /\ \E l : Goto(a, l)
        BY <3>2, <4>2 DEF Goto, Stays
      <4>3. CASE ReemitPending(a)
        <5>1. /\ \E l : Goto(a, l)
              /\ UNCHANGED job \/ \E k, g : job' = [job EXCEPT ![a].k = k, ![a].g = g]
          BY <4>3 DEF ReemitPending
        <5> QED BY <3>2, <5>1 DEF Goto, Stays
      <4>4. CASE Settle(a)
        BY <4>1, <4>2, <4>4, SettleGoes
      <4> QED BY <2>1, <4>1, <4>2, <4>3, <4>4
              DEF HandlerEnters, RecoverReply, MarkPending, PublishSuccessor, MarkDone
    <3> QED BY <3>1, <3>2
  <2>2. CASE SawSideEffect(a)
    <3>1. \/ \E k \in Kinds : BuildRecord(a, k, "turn")
          \/ Goto(a, "start") /\ UNCHANGED job
      BY <2>2 DEF SawSideEffect
    <3> QED BY <1>5, <3>1 DEF Goto, Stays, Watched, Actors
  <2>3. CASE \E k \in Kinds, how \in AllHows : Finish(a, k, how)
    BY <1>5, <2>3 DEF Finish
  <2>4. CASE CheckTerminal(a) \/ StartAttempt(a) \/ ObserveEffect(a) \/ RetryAttempt(a)
                \/ MarkDoneWithoutCompletion(a)
    <3>1. UNCHANGED job /\ \E l \in {"read", "side", "run", "acted", "start", "ack"} : Goto(a, l)
      BY <2>4 DEF CheckTerminal, StartAttempt, ObserveEffect, RetryAttempt,
         MarkDoneWithoutCompletion
    <3> QED BY <3>1 DEF Goto, Stays, Watched, Actors
  <2>5. CASE SettleRaises(a)
    <3>1. Quit(a) \/ (Goto(a, "lost") /\ UNCHANGED job)
      BY <2>5 DEF SettleRaises
    <3> QED BY <1>2, <3>1 DEF Goto, Stays, Watched, Actors
  <2>6. CASE Ack(a) \/ Leave(a)
    <3>1. Goto(a, "idle") /\ job' = [job EXCEPT ![a] = NoJob]
      BY <2>6 DEF Ack, Leave, Quit, Goto
    <3> QED BY <3>1 DEF Goto, Stays, Watched, Actors
  <2> QED BY <1>4, <1>6, <2>1, <2>2, <2>3, <2>4, <2>5, <2>6 DEF Handle, HandlerEnters
<1>7. ASSUME NEW a \in Actors, Deliver(a) PROVE Stays(b) \/ pc'[b] \notin Watched \/ Enters(b)
  <2>1. CASE AfterDelivery(a)
    BY <1>3, <2>1
  <2>2. CASE EmitConfirmed(a)
    BY <2>2 DEF EmitConfirmed, Goto, Stays, Enters
  <2>3. ASSUME NEW cause \in Failures, EmitFails(a, cause) PROVE Stays(b) \/ Enters(b)
    <3>1. Goto(a, cause) /\ UNCHANGED job
      BY <2>3 DEF EmitFails
    <3> QED BY <2>3, <3>1 DEF Goto, Stays, Enters
  <2> QED BY <1>7, <2>1, <2>2, <2>3 DEF Deliver, Clear, DeadLetter, UpdateCause
<1>8. ASSUME NEW s \in Sweepers, Sweep(s) \/ SweepAborts(s)
      PROVE  Stays(b) \/ pc'[b] \notin Watched \/ Enters(b)
  <2>1. CASE AfterDelivery(s)
    BY <1>3, <2>1 DEF Actors
  <2>2. CASE SweepStart(s) \/ SweepRead(s)
    <3>1. UNCHANGED job /\ \E l \in {"members", "pass"} : Goto(s, l)
      BY <2>2 DEF SweepStart, SweepRead
    <3> QED BY <3>1 DEF Goto, Stays, Watched, Actors
  <2>3. CASE SweepNext(s)
    <3>1. /\ \E l : Goto(s, l)
          /\ UNCHANGED job \/ \E k, g : job' = [job EXCEPT ![s].k = k, ![s].g = g]
      BY <2>3 DEF SweepNext
    <3> QED BY <2>3, <3>1 DEF Goto, Stays, Enters
  <2>4. CASE SweepAborts(s)
    <3>1. Goto(s, "idle") /\ job' = [job EXCEPT ![s] = NoJob]
      BY <2>4 DEF SweepAborts
    <3> QED BY <3>1 DEF Goto, Stays, Watched, Actors
  <2> QED BY <1>8, <2>1, <2>2, <2>3, <2>4 DEF Sweep, DropMember, Discard
<1>9. CASE Tick
  <2>1. /\ pc' = [a \in Actors |-> IF pc[a] = "resend" THEN "gaveup" ELSE pc[a]]
        /\ UNCHANGED job
    BY <1>9 DEF Tick
  <2> QED BY <2>1 DEF Stays, Watched
<1>10. ASSUME NEW d \in Deliveries, Lapse(d) PROVE Stays(b)
  BY <1>10 DEF Lapse, actors, Stays
<1> QED BY <1>6, <1>7, <1>8, <1>9, <1>10 DEF Next, Actors

-----------------------------------------------------------------------------
(* What may be emitted has been settled: in a record, in the published     *)
(* marker, in what a sweeper read, and in hand.                            *)

RecSettled == \A k \in Kinds : rec[k].done = TRUE => rec[k].gen \in settled
PublishedSettled == published.gen # 0 => published.gen \in settled
TodoSettled == \A s \in Sweepers : \A e \in todo[s] : e.v = "emit" => e.g \in settled
HandSettled == \A a \in Actors : pc[a] = "emit" => job[a].g \in settled

SettledInv == RecSettled /\ PublishedSettled /\ TodoSettled /\ HandSettled

LEMMA SettledGrows == ASSUME TypeInv, Next PROVE settled \subseteq settled'
<1>1. ASSUME NEW a \in Slots, Settle(a) PROVE settled \subseteq settled'
  BY <1>1, SettleWrites DEF SettleMarker, WriteTerminal, terminal
<1>2. ASSUME NEW a \in Slots, MarkDone(a) PROVE settled \subseteq settled'
  BY <1>2 DEF MarkDone, terminal
<1>3. ASSUME UNCHANGED terminal PROVE settled \subseteq settled'
  BY <1>3 DEF terminal
<1> QED BY <1>1, <1>2, <1>3, GenFrame DEF SawSideEffect, Finish, PublishSuccessor, Tick

LEMMA RecSettledStep == ASSUME TypeInv, SettledInv, Next PROVE RecSettled'
<1> USE DEF SettledInv, RecSettled
<1>0. settled \subseteq settled'
  BY SettledGrows
<1>1. CASE UNCHANGED rec
  BY <1>0, <1>1
<1>2. ASSUME NEW k \in Kinds, Remove(k) PROVE RecSettled'
  BY <1>0, <1>2 DEF Remove, NoRec, TypeInv, OutboxTypes
<1>3. ASSUME NEW a \in Slots, Settle(a) PROVE RecSettled'
  <2>1. CASE job[a].k \in Kinds /\ job[a].g \in Gens /\ WriteTerminal(job[a])
    BY <1>0, <2>1 DEF WriteTerminal, TypeInv, OutboxTypes
  <2> QED BY <1>1, <1>3, <2>1, SettleWrites DEF SettleMarker, outbox
<1>4. ASSUME NEW a \in Slots, MarkPending(a) PROVE RecSettled'
  <2>1. rec' = [rec EXCEPT ![job[a].k] = [gen |-> job[a].g, done |-> FALSE, cause |-> FALSE]]
    BY <1>4 DEF MarkPending
  <2> QED BY <1>0, <2>1 DEF TypeInv, OutboxTypes
<1>5. ASSUME NEW a \in Slots, MarkDone(a) PROVE RecSettled'
  <2>1. \/ UNCHANGED rec
        \/ /\ rec[job[a].k].gen = job[a].g /\ rec' = [rec EXCEPT ![job[a].k].done = TRUE]
           /\ settled' = settled \cup {job[a].g}
    BY <1>5 DEF MarkDone
  <2>2. CASE UNCHANGED rec
    BY <1>1, <2>2
  <2>3. CASE /\ rec[job[a].k].gen = job[a].g /\ rec' = [rec EXCEPT ![job[a].k].done = TRUE]
             /\ settled' = settled \cup {job[a].g}
    <3> SUFFICES ASSUME NEW k \in Kinds, rec'[k].done PROVE rec'[k].gen \in settled'
      OBVIOUS
    <3>1. rec \in [Kinds -> Rec] /\ rec[k] \in Rec
      BY DEF TypeInv, OutboxTypes
    <3>2. CASE k = job[a].k
      <4>1. rec'[k] = [rec[k] EXCEPT !.done = TRUE]
        BY <2>3, <3>1, <3>2
      <4>2. rec'[k].gen = rec[k].gen
        BY <3>1, <4>1 DEF Rec
      <4> QED BY <2>3, <3>2, <4>2
    <3>3. CASE k # job[a].k
      <4>1. rec'[k] = rec[k]
        BY <2>3, <3>1, <3>3
      <4> QED BY <1>0, <4>1
    <3> QED BY <3>2, <3>3
  <2> QED BY <2>1, <2>2, <2>3
<1>6. ASSUME NEW a \in Actors, Clear(a) \/ DeadLetter(a) PROVE RecSettled'
  <2>1. UNCHANGED rec \/ Remove(job[a].k)
    BY <1>6 DEF Clear, DeadLetter, ClearScript, DeadLetterScript, outbox
  <2>2. job[a].k \in Kinds
    BY <1>6, JobTypes DEF Clear, DeadLetter, OnRecord
  <2> QED BY <1>1, <1>2, <2>1, <2>2
<1>7. ASSUME NEW a \in Actors, UpdateCause(a) PROVE RecSettled'
  <2>1. UNCHANGED rec \/ \E c : rec' = [rec EXCEPT ![job[a].k].cause = c]
    BY <1>7 DEF UpdateCause, CauseScript
  <2> SUFFICES ASSUME NEW k \in Kinds, rec'[k].done PROVE rec'[k].gen \in settled'
    OBVIOUS
  <2>2. rec \in [Kinds -> Rec] /\ rec[k] \in Rec
    BY DEF TypeInv, OutboxTypes
  <2>3. rec'[k] = rec[k] \/ \E c : rec'[k] = [rec[k] EXCEPT !.cause = c]
    BY <2>1, <2>2
  <2>4. rec'[k].gen = rec[k].gen /\ rec'[k].done = rec[k].done
    BY <2>2, <2>3 DEF Rec
  <2> QED BY <1>0, <2>4
<1>8. ASSUME NEW s \in Sweepers, DropMember(s) PROVE RecSettled'
  BY <1>1, <1>8 DEF DropMember
<1>9. ASSUME NEW s \in Sweepers, Discard(s) PROVE RecSettled'
  <2>1. UNCHANGED rec \/ Remove(job[s].k)
    BY <1>9 DEF Discard, ClearScript, outbox
  <2>2. job[s].k \in Kinds
    BY <1>9, JobTypes DEF Discard, OnRecord, Actors
  <2> QED BY <1>1, <1>2, <2>1, <2>2
<1> QED BY <1>1, <1>3, <1>4, <1>5, <1>6, <1>7, <1>8, <1>9, OutboxFrame DEF outbox

LEMMA PublishedSettledStep == ASSUME TypeInv, SettledInv, Next PROVE PublishedSettled'
<1> USE DEF SettledInv, PublishedSettled
<1>0. settled \subseteq settled'
  BY SettledGrows
<1>1. CASE UNCHANGED published
  BY <1>0, <1>1
<1>2. CASE Tick
  <2>1. \/ published' = [gen |-> 0, left |-> 0]
        \/ published' = [published EXCEPT !.left = @ - 1]
    BY <1>2 DEF Tick
  <2> QED BY <1>0, <2>1 DEF TypeInv, GenTypes
<1>3. ASSUME NEW a \in Slots, Settle(a) PROVE PublishedSettled'
  <2>1. UNCHANGED published \/ WriteTerminal(job[a])
    BY <1>3, SettleWrites DEF SettleMarker, sweepKeys
  <2>2. CASE WriteTerminal(job[a])
    <3>1. UNCHANGED published \/ published' = [gen |-> job[a].g, left |-> MarkerTTL]
      BY <2>2 DEF WriteTerminal
    <3>2. job[a].g \in settled'
      BY <2>2 DEF WriteTerminal
    <3> QED BY <1>1, <3>1, <3>2
  <2> QED BY <1>1, <2>1, <2>2
<1> QED BY <1>1, <1>2, <1>3, GenFrame
        DEF sweepKeys, SawSideEffect, Finish, PublishSuccessor, MarkDone

LEMMA TodoSettledStep == ASSUME TypeInv, SettledInv, Next PROVE TodoSettled'
<1> USE DEF SettledInv, TodoSettled
<1>0. settled \subseteq settled'
  BY SettledGrows
<1>1. ASSUME \A s \in Sweepers : todo'[s] \subseteq todo[s] PROVE TodoSettled'
  BY <1>0, <1>1
<1>2. ASSUME NEW s \in Sweepers, SweepStart(s) PROVE TodoSettled'
  <2>1. todo' = [todo EXCEPT ![s] = [k : index, g : {0}, v : {"read"}]]
    BY <1>2 DEF SweepStart
  <2> QED BY <1>0, <2>1 DEF TypeInv, TodoTypes
<1>3. ASSUME NEW s \in Sweepers, SweepRead(s) PROVE TodoSettled'
  <2> DEFINE read == {[k |-> m.k, g |-> rec[m.k].gen, v |-> Verdict(rec[m.k])] : m \in todo[s]}
  <2>1. ASSUME NEW e \in read, e.v = "emit" PROVE e.g \in settled
    <3>1. PICK m \in todo[s] : e = [k |-> m.k, g |-> rec[m.k].gen, v |-> Verdict(rec[m.k])]
      OBVIOUS
    <3>2. m.k \in Kinds
      BY DEF TypeInv, TodoTypes, Entry
    <3>3. rec[m.k] \in Rec
      BY <3>2 DEF TypeInv, OutboxTypes
    <3>4. rec[m.k].done = TRUE
      BY <2>1, <3>1, <3>3 DEF Verdict, Rec
    <3> QED BY <3>1, <3>2, <3>4 DEF RecSettled
  <2>2. todo' = [todo EXCEPT ![s] = {e \in read : e.v # "rest"}]
    BY <1>3 DEF SweepRead
  <2> QED BY <1>0, <2>1, <2>2 DEF TypeInv, TodoTypes
<1>4. ASSUME NEW s \in Sweepers, SweepNext(s) PROVE TodoSettled'
  <2>1. UNCHANGED todo \/ \E e \in todo[s] : todo' = [todo EXCEPT ![s] = @ \ {e}]
    BY <1>4 DEF SweepNext
  <2> QED BY <1>0, <2>1 DEF TypeInv, TodoTypes
<1>5. ASSUME NEW s \in Sweepers, SweepAborts(s) PROVE TodoSettled'
  <2>1. todo' = [todo EXCEPT ![s] = {}]
    BY <1>5 DEF SweepAborts
  <2> QED BY <1>0, <2>1 DEF TypeInv, TodoTypes
<1> QED BY <1>1, <1>2, <1>3, <1>4, <1>5, TodoFrame

LEMMA HandSettledStep == ASSUME TypeInv, SettledInv, Next PROVE HandSettled'
<1> USE DEF SettledInv, HandSettled
<1>0. settled \subseteq settled'
  BY SettledGrows
<1> SUFFICES ASSUME NEW b \in Actors, pc'[b] = "emit" PROVE job'[b].g \in settled'
  OBVIOUS
<1>1. CASE Stays(b)
  BY <1>0, <1>1 DEF Stays
<1>2. CASE b \in Slots /\ ReemitPending(b)
  <2>1. PICK i \in DOMAIN Namespaces :
           /\ rec[Namespaces[i]].done
           /\ job' = [job EXCEPT ![b].k = Namespaces[i], ![b].g = rec[Namespaces[i]].gen]
    <3>1. pc'[b] # "ack"
      OBVIOUS
    <3>2. ~Goto(b, "ack")
      BY <3>1 DEF Goto, TypeInv, ActorTypes
    <3> QED BY <1>2, <3>2 DEF ReemitPending
  <2>2. Namespaces[i] \in Kinds
    BY DEF Kinds
  <2>3. rec[Namespaces[i]].gen \in settled
    BY <2>1, <2>2 DEF RecSettled, TypeInv, OutboxTypes, Rec
  <2>4. job'[b].g = rec[Namespaces[i]].gen
    BY <2>1 DEF TypeInv, ActorTypes, Job
  <2> QED BY <1>0, <2>3, <2>4
<1>3. CASE b \in Slots /\ Settle(b)
  <2>1. CASE targetless = TRUE
    <3>1. Quit(b) \/ \E l \in {"ack", "resend", "gaveup"} : Goto(b, l)
      BY <1>3, <2>1 DEF Settle
    <3> QED BY <3>1 DEF Quit, Goto, TypeInv, ActorTypes
  <2>2. CASE targetless = FALSE
    <3>1. \/ Quit(b)
          \/ \E l \in {"resend", "gaveup"} : Goto(b, l)
          \/ UNCHANGED job /\ SettleScript(job[b])
      BY <1>3, <2>2 DEF Settle
    <3>2. CASE UNCHANGED job /\ SettleScript(job[b])
      <4>1. job[b].g \in Gens
        BY <1>3, <2>2 DEF TypeInv, ActorTypes, InHand, Settle, Settling
      <4>2. 0 \notin Gens
        BY DEF Gens
      <4>3. published.gen = job[b].g \/ WriteTerminal(job[b])
        BY <3>2 DEF SettleScript
      <4> QED BY <1>0, <3>2, <4>1, <4>2, <4>3 DEF WriteTerminal, PublishedSettled
    <3> QED BY <3>1, <3>2 DEF Quit, Goto, TypeInv, ActorTypes
  <2> QED BY <2>1, <2>2 DEF TypeInv, RowTypes
<1>4. CASE b \in Slots /\ RecoverReply(b)
  <2>1. Quit(b) \/ (published.gen = job[b].g /\ UNCHANGED job)
    BY <1>4 DEF RecoverReply
  <2>2. job[b].g \in Gens
    BY <1>4, JobTypes DEF RecoverReply, OnRecord
  <2>3. 0 \notin Gens
    BY DEF Gens
  <2>4. ~Quit(b)
    BY DEF Quit, TypeInv, ActorTypes
  <2> QED BY <1>0, <2>1, <2>2, <2>3, <2>4 DEF PublishedSettled
<1>5. CASE b \in Slots /\ MarkDone(b)
  <2>1. Quit(b) \/ (settled' = settled \cup {job[b].g} /\ UNCHANGED job)
    BY <1>5 DEF MarkDone
  <2>2. ~Quit(b)
    BY DEF Quit, TypeInv, ActorTypes
  <2> QED BY <2>1, <2>2
<1>6. CASE b \in Sweepers /\ SweepNext(b)
  <2>1. ~Goto(b, "idle")
    BY DEF Goto, TypeInv, ActorTypes
  <2>2. PICK e \in todo[b] : Goto(b, e.v) /\ job' = [job EXCEPT ![b].k = e.k, ![b].g = e.g]
    BY <1>6, <2>1 DEF SweepNext
  <2>3. e.v = "emit" /\ job'[b].g = e.g
    BY <2>2 DEF Goto, TypeInv, ActorTypes, Job
  <2> QED BY <1>0, <1>6, <2>3 DEF TodoSettled
<1>7. ASSUME NEW l, l # "emit", Goto(b, l) PROVE FALSE
  BY <1>7 DEF Goto, TypeInv, ActorTypes
<1>8. ~(MarkPending(b) \/ PublishSuccessor(b) \/ EmitConfirmed(b))
  BY <1>7 DEF MarkPending, PublishSuccessor, EmitConfirmed
<1>9. ~\E cause \in Failures : EmitFails(b, cause)
  BY <1>7, OutboxAssumption DEF EmitFails
<1> QED BY <1>1, <1>2, <1>3, <1>4, <1>5, <1>6, <1>8, <1>9, Entered
        DEF Enters, HandlerEnters, Watched

LEMMA SettledInit == Init => SettledInv
  BY DEF Init, SettledInv, RecSettled, PublishedSettled, TodoSettled, HandSettled, NoRec

LEMMA SettledStep == TypeInv /\ SettledInv /\ [Next]_vars => SettledInv'
<1> SUFFICES ASSUME TypeInv, SettledInv, [Next]_vars PROVE SettledInv' OBVIOUS
<1>1. CASE Next
  BY <1>1, RecSettledStep, PublishedSettledStep, TodoSettledStep, HandSettledStep DEF SettledInv
<1>2. CASE UNCHANGED vars
  BY <1>2 DEF SettledInv, RecSettled, PublishedSettled, TodoSettled, HandSettled,
     vars, outbox, sweepKeys, actors, terminal
<1> QED BY <1>1, <1>2

-----------------------------------------------------------------------------
(* A stored cause, and one about to be stored, was observed.               *)

CauseInv ==
    /\ \A k \in Kinds : rec[k].cause = TRUE => rec[k].gen \in refused
    /\ \A a \in Actors : pc[a] = "note" => job[a].g \in refused

LEMMA RefusedGrows == ASSUME Next PROVE refused \subseteq refused'
  BY FateFrame DEF fate, EmitConfirmed, EmitFails, DeadLetter, Discard

LEMMA CauseRecStep ==
    ASSUME TypeInv, CauseInv, Next, NEW k \in Kinds, rec'[k].cause = TRUE
    PROVE  rec'[k].gen \in refused'
<1> USE DEF CauseInv
<1>0. refused \subseteq refused'
  BY RefusedGrows
<1>1. CASE rec'[k].gen = rec[k].gen /\ rec'[k].cause = rec[k].cause
  BY <1>0, <1>1
<1>2. ASSUME NEW l, Remove(l) PROVE rec'[k].gen \in refused'
  BY <1>1, <1>2 DEF Remove, NoRec, TypeInv, OutboxTypes
<1>3. ASSUME NEW l, NEW g, NEW d,
             rec' = [rec EXCEPT ![l] = [gen |-> g, done |-> d, cause |-> FALSE]]
      PROVE  rec'[k].gen \in refused'
  BY <1>1, <1>3 DEF TypeInv, OutboxTypes
<1>4. ASSUME NEW a \in Slots, Settle(a) PROVE rec'[k].gen \in refused'
  <2>1. UNCHANGED rec \/ WriteTerminal(job[a])
    BY <1>4, SettleWrites DEF SettleMarker, outbox
  <2> QED BY <1>1, <1>3, <2>1 DEF WriteTerminal
<1>5. ASSUME NEW a \in Slots, MarkPending(a) PROVE rec'[k].gen \in refused'
  BY <1>3, <1>5 DEF MarkPending
<1>6. ASSUME NEW a \in Slots, MarkDone(a) PROVE rec'[k].gen \in refused'
  <2>1. UNCHANGED rec \/ rec' = [rec EXCEPT ![job[a].k].done = TRUE]
    BY <1>6 DEF MarkDone
  <2> QED BY <1>1, <2>1 DEF TypeInv, OutboxTypes, Rec
<1>7. ASSUME NEW a \in Actors, Clear(a) \/ DeadLetter(a) PROVE rec'[k].gen \in refused'
  <2>1. UNCHANGED rec \/ Remove(job[a].k)
    BY <1>7 DEF Clear, DeadLetter, ClearScript, DeadLetterScript, outbox
  <2> QED BY <1>1, <1>2, <2>1
<1>8. ASSUME NEW a \in Actors, UpdateCause(a) PROVE rec'[k].gen \in refused'
  <2>1. CASE UNCHANGED rec
    BY <1>1, <2>1
  <2>2. CASE Owns(job[a]) /\ rec' = [rec EXCEPT ![job[a].k].cause = (pc[a] = "note")]
    <3>1. CASE pc[a] = "note"
      <4>1. rec[job[a].k].gen \in refused
        BY <2>2, <3>1 DEF Owns
      <4>2. rec'[k].gen = rec[k].gen
        BY <2>2 DEF TypeInv, OutboxTypes, Rec
      <4>3. k # job[a].k => rec'[k].cause = rec[k].cause
        BY <2>2 DEF TypeInv, OutboxTypes, Rec
      <4> QED BY <1>0, <1>1, <4>1, <4>2, <4>3
    <3>2. CASE pc[a] # "note"
      <4>1. rec' = [rec EXCEPT ![job[a].k].cause = FALSE]
        BY <2>2, <3>2
      <4> QED BY <1>1, <4>1 DEF TypeInv, OutboxTypes, Rec
    <3> QED BY <3>1, <3>2
  <2> QED BY <1>8, <2>1, <2>2 DEF UpdateCause, CauseScript
<1>9. ASSUME NEW s \in Sweepers, DropMember(s) \/ Discard(s) PROVE rec'[k].gen \in refused'
  <2>1. UNCHANGED rec \/ Remove(job[s].k)
    BY <1>9 DEF DropMember, Discard, ClearScript, outbox
  <2> QED BY <1>1, <1>2, <2>1
<1> QED BY <1>1, <1>4, <1>5, <1>6, <1>7, <1>8, <1>9, OutboxFrame DEF outbox

(* Only a refused send comes to the note, only a confirmed one to the      *)
(* clear.                                                                  *)
LEMMA EntersNoteOrClear ==
    ASSUME TypeInv, Next, NEW b \in Actors, pc'[b] \in {"note", "clear"}
    PROVE  \/ Stays(b)
           \/ pc'[b] = "note" /\ EmitFails(b, "note")
           \/ pc'[b] = "clear" /\ EmitConfirmed(b)
<1>1. ASSUME NEW l, Goto(b, l) PROVE pc'[b] = l
  BY <1>1 DEF Goto, TypeInv, ActorTypes
<1>2. ~Quit(b)
  BY DEF Quit, TypeInv, ActorTypes
<1>3. ~(ReemitPending(b) \/ RecoverReply(b) \/ MarkPending(b) \/ PublishSuccessor(b) \/ MarkDone(b))
  BY <1>1, <1>2 DEF ReemitPending, RecoverReply, MarkPending, PublishSuccessor, MarkDone
<1>4. ~(b \in Slots /\ Settle(b))
  BY <1>1, <1>2, SettleGoes
<1>5. ~(b \in Sweepers /\ SweepNext(b))
  <2> SUFFICES ASSUME b \in Sweepers, SweepNext(b) PROVE FALSE OBVIOUS
  <2>1. Goto(b, "idle") \/ \E e \in todo[b] : Goto(b, e.v)
    BY DEF SweepNext
  <2>2. \A e \in todo[b] : e.v \in Verdicts
    BY DEF TypeInv, TodoTypes, Entry
  <2> QED BY <1>1, <2>1, <2>2 DEF Verdicts
<1>6. EmitConfirmed(b) => pc'[b] = "clear"
  BY <1>1 DEF EmitConfirmed
<1>7. ASSUME NEW cause \in Failures, EmitFails(b, cause)
      PROVE  cause = "note" /\ pc'[b] = "note"
  BY <1>1, <1>7, OutboxAssumption DEF EmitFails
<1> QED BY <1>3, <1>4, <1>5, <1>6, <1>7, Entered DEF Enters, HandlerEnters, Watched

LEMMA CauseInit == Init => CauseInv
  BY DEF Init, CauseInv, NoRec

LEMMA CauseStep == TypeInv /\ CauseInv /\ [Next]_vars => CauseInv'
<1> SUFFICES ASSUME TypeInv, CauseInv, [Next]_vars PROVE CauseInv' OBVIOUS
<1>1. CASE Next
  <2>1. ASSUME NEW b \in Actors, pc'[b] = "note" PROVE job'[b].g \in refused'
    <3>1. CASE Stays(b)
      BY <1>1, <2>1, <3>1, RefusedGrows DEF CauseInv, Stays
    <3>2. CASE EmitFails(b, "note")
      BY <3>2 DEF EmitFails
    <3> QED BY <1>1, <2>1, <3>1, <3>2, EntersNoteOrClear
  <2> QED BY <1>1, <2>1, CauseRecStep DEF CauseInv
<1>2. CASE UNCHANGED vars
  BY <1>2 DEF CauseInv, vars, outbox, actors, fate
<1> QED BY <1>1, <1>2

-----------------------------------------------------------------------------
(* Under leases a settled completion is accounted for: nobody is in the    *)
(* leaseless settlement, and who clears has confirmed its generation.      *)

Kept(k) == (rec[k].gen = owed[k] /\ rec[k].done = TRUE) \/ owed[k] \in resolved
AccountedInv ==
    /\ leased = TRUE
    /\ \A a \in Actors : pc[a] \notin {"publish", "mark"}
    /\ \A a \in Actors : pc[a] = "clear" => job[a].g \in resolved
    /\ \A k \in Kinds : owed[k] # 0 => Kept(k)

LEMMA ResolvedGrows == ASSUME Next PROVE resolved \subseteq resolved'
  BY FateFrame DEF fate, EmitConfirmed, EmitFails, DeadLetter, DeadLetterScript, Discard

LEMMA NoLeaselessStep ==
    ASSUME TypeInv, AccountedInv, Next, NEW b \in Actors
    PROVE  pc'[b] \notin {"publish", "mark"}
<1> SUFFICES ASSUME pc'[b] \in {"publish", "mark"} PROVE FALSE OBVIOUS
<1>1. ASSUME NEW l, Goto(b, l) PROVE pc'[b] = l
  BY <1>1 DEF Goto, TypeInv, ActorTypes
<1>2. ~Quit(b)
  BY DEF Quit, TypeInv, ActorTypes
<1>3. ~(ReemitPending(b) \/ RecoverReply(b) \/ MarkDone(b) \/ EmitConfirmed(b))
  BY <1>1, <1>2 DEF ReemitPending, RecoverReply, MarkDone, EmitConfirmed
<1>4. ~(MarkPending(b) \/ PublishSuccessor(b))
  BY DEF MarkPending, PublishSuccessor, AccountedInv
<1>5. ~(b \in Slots /\ Settle(b))
  BY <1>1, <1>2, SettleGoes
<1>6. ~(b \in Sweepers /\ SweepNext(b))
  <2> SUFFICES ASSUME b \in Sweepers, SweepNext(b) PROVE FALSE OBVIOUS
  <2>1. Goto(b, "idle") \/ \E e \in todo[b] : Goto(b, e.v)
    BY DEF SweepNext
  <2>2. \A e \in todo[b] : e.v \in Verdicts
    BY DEF TypeInv, TodoTypes, Entry
  <2> QED BY <1>1, <2>1, <2>2 DEF Verdicts
<1>7. ~\E cause \in Failures : EmitFails(b, cause)
  BY <1>1, OutboxAssumption DEF EmitFails
<1>8. ~Stays(b)
  BY DEF Stays, AccountedInv
<1> QED BY <1>3, <1>4, <1>5, <1>6, <1>7, <1>8, Entered DEF Enters, HandlerEnters, Watched

(* A step of who holds j removes at most the record of j, and then j is    *)
(* resolved.                                                               *)
LEMMA KeptStep ==
    ASSUME TypeInv, AccountedInv, Next, NEW k \in Kinds, owed'[k] # 0
    PROVE  Kept(k)'
<1> USE DEF AccountedInv, Kept
<1>0. resolved \subseteq resolved'
  BY ResolvedGrows
<1>1. CASE owed'[k] = owed[k] /\ rec'[k].gen = rec[k].gen /\ rec'[k].done = rec[k].done
  BY <1>0, <1>1
<1>2. ASSUME UNCHANGED terminal, NEW j, Owns(j), Remove(j.k), j.g \in resolved' PROVE Kept(k)'
  <2>1. owed'[k] = owed[k]
    BY <1>2 DEF terminal
  <2>2. CASE k = j.k
    BY <1>0, <1>2, <2>1, <2>2 DEF Owns
  <2>3. CASE k # j.k
    <3>1. rec'[k] = rec[k]
      BY <1>2, <2>3 DEF Remove, TypeInv, OutboxTypes
    <3> QED BY <1>1, <2>1, <3>1
  <2> QED BY <2>2, <2>3
<1>3. ASSUME NEW a \in Slots, Settle(a) PROVE Kept(k)'
  <2>1. CASE UNCHANGED <<outbox, terminal>>
    BY <1>1, <2>1 DEF outbox, terminal
  <2>2. CASE job[a].k \in Kinds /\ job[a].g \in Gens /\ WriteTerminal(job[a])
    <3>1. /\ rec' = [rec EXCEPT ![job[a].k] = [gen |-> job[a].g, done |-> TRUE, cause |-> FALSE]]
          /\ owed' = [owed EXCEPT ![job[a].k] = job[a].g]
      BY <2>2 DEF WriteTerminal
    <3>2. CASE k = job[a].k
      BY <3>1, <3>2 DEF TypeInv, OutboxTypes, GenTypes
    <3>3. CASE k # job[a].k
      BY <1>1, <3>1, <3>3 DEF TypeInv, OutboxTypes, GenTypes
    <3> QED BY <3>2, <3>3
  <2> QED BY <1>3, <2>1, <2>2, SettleWrites DEF SettleMarker
<1>4. ASSUME NEW a \in Slots, MarkPending(a) \/ MarkDone(a) PROVE FALSE
  BY <1>4 DEF MarkPending, MarkDone, Actors
<1>5. ASSUME NEW a \in Actors, Clear(a) PROVE Kept(k)'
  <2>1. UNCHANGED terminal /\ job[a].g \in resolved
    BY <1>5 DEF Clear
  <2>2. UNCHANGED outbox \/ (Owns(job[a]) /\ Remove(job[a].k))
    BY <1>5 DEF Clear, ClearScript
  <2> QED BY <1>0, <1>1, <1>2, <2>1, <2>2 DEF outbox, terminal
<1>6. ASSUME NEW a \in Actors, DeadLetter(a) PROVE Kept(k)'
  <2>1. UNCHANGED terminal
    BY <1>6 DEF DeadLetter
  <2>2. UNCHANGED outbox \/ (Owns(job[a]) /\ Remove(job[a].k) /\ job[a].g \in resolved')
    BY <1>6 DEF DeadLetter, DeadLetterScript
  <2> QED BY <1>1, <1>2, <2>1, <2>2 DEF outbox, terminal
<1>7. ASSUME NEW s \in Sweepers, Discard(s) PROVE Kept(k)'
  <2>1. UNCHANGED terminal
    BY <1>7 DEF Discard
  <2>2. UNCHANGED outbox \/ (Owns(job[s]) /\ Remove(job[s].k) /\ job[s].g \in resolved')
    BY <1>7 DEF Discard, ClearScript
  <2> QED BY <1>1, <1>2, <2>1, <2>2 DEF outbox, terminal
<1>8. ASSUME NEW a \in Actors, UpdateCause(a) PROVE Kept(k)'
  <2>1. UNCHANGED terminal /\ (UNCHANGED rec \/ \E c : rec' = [rec EXCEPT ![job[a].k].cause = c])
    BY <1>8 DEF UpdateCause, CauseScript
  <2>2. ASSUME NEW c, rec' = [rec EXCEPT ![job[a].k].cause = c]
        PROVE  rec'[k].gen = rec[k].gen /\ rec'[k].done = rec[k].done
    BY <2>2 DEF TypeInv, OutboxTypes, Rec
  <2> QED BY <1>1, <2>1, <2>2 DEF terminal
<1>9. ASSUME NEW s \in Sweepers, DropMember(s) PROVE Kept(k)'
  BY <1>1, <1>9 DEF DropMember, terminal
<1>10. CASE UNCHANGED outbox
  <2>1. UNCHANGED terminal \/ \E a \in Slots : Settle(a) \/ MarkDone(a)
    BY GenFrame DEF SawSideEffect, Finish, PublishSuccessor, Tick
  <2> QED BY <1>1, <1>3, <1>4, <1>10, <2>1 DEF outbox, terminal
<1> QED BY <1>3, <1>4, <1>5, <1>6, <1>7, <1>8, <1>9, <1>10, OutboxFrame

LEMMA AccountedInit == ASSUME FALSE \notin Leased PROVE Init => AccountedInv
<1> SUFFICES ASSUME Init PROVE AccountedInv OBVIOUS
<1>1. leased = TRUE
  BY OutboxAssumption DEF Init
<1> QED BY <1>1 DEF Init, AccountedInv

LEMMA AccountedStep == TypeInv /\ AccountedInv /\ [Next]_vars => AccountedInv'
<1> SUFFICES ASSUME TypeInv, AccountedInv, [Next]_vars PROVE AccountedInv' OBVIOUS
<1>1. CASE Next
  <2>1. leased' = TRUE
    BY <1>1, ConfigFrame DEF AccountedInv, config
  <2>2. ASSUME NEW b \in Actors, pc'[b] = "clear" PROVE job'[b].g \in resolved'
    <3>1. CASE Stays(b)
      BY <1>1, <2>2, <3>1, ResolvedGrows DEF AccountedInv, Stays
    <3>2. CASE EmitConfirmed(b)
      BY <3>2 DEF EmitConfirmed
    <3> QED BY <1>1, <2>2, <3>1, <3>2, EntersNoteOrClear
  <2> QED BY <1>1, <2>1, <2>2, NoLeaselessStep, KeptStep DEF AccountedInv
<1>2. CASE UNCHANGED vars
  BY <1>2 DEF AccountedInv, Kept, vars, config, outbox, actors, fate, terminal
<1> QED BY <1>1, <1>2

-----------------------------------------------------------------------------
(* One entry carries the event.  Then a lease excludes every other handler *)
(* of the event, and a marker that was absent when its holder looked stays *)
(* absent until the holder itself writes it.                               *)

OneEntry == \A d, e \in Deliveries : d = e

(* Who is not idle handles an entry, and without a lease store keeps it.   *)
HoldInv ==
    \A b \in Slots :
        /\ pc[b] # "idle" => job[b].d \in Deliveries /\ (leased = FALSE => Holds(b))
        /\ pc[b] \in {"publish", "mark"} => leased = FALSE

(* The markers live as long as what they report is recent.                 *)
MarkersLast == done + sinceSettled >= Retention /\ effect + sinceEffect >= IdemTTL

(* A holder on its way to an attempt or to a settlement has nothing recent *)
(* behind it.                                                              *)
Attempting == {"side", "start", "run"}
Unsettled == Attempting \cup {"acted", "settle", "publish", "mark"}

NothingRecent(b) ==
    pc[b] \in Unsettled /\ Holds(b) =>
        sinceSettled = Retention /\ (pc[b] \in {"start", "run"} => sinceEffect = IdemTTL)

(* A settlement that is sent again has been written.                       *)
ResentSettled(b) == pc[b] = "resend" /\ targetless = FALSE => job[b].g \in settled

RerunInv ==
    /\ HoldInv /\ MarkersLast
    /\ \A b \in Slots : NothingRecent(b) /\ ResentSettled(b)

(* A generation is settled by the handler that minted it; a script that is *)
(* repeated under the lease finds its own published marker.                *)
Settles(b) == pc[b] \in Settling /\ targetless = FALSE

MintedInv ==
    /\ slices \subseteq 1..minted /\ settled \subseteq 1..minted
    /\ \A b \in Slots : Settles(b) =>
          /\ job[b].g \in 1..minted
          /\ job[b].how = "slice" <=> job[b].g \in slices
          /\ pc[b] = "settle" => job[b].g \notin settled
          /\ pc[b] = "resend" /\ job[b].how = "slice" /\ Holds(b) => published.gen = job[b].g
    /\ \A b, c \in Slots : Settles(b) /\ Settles(c) /\ job[b].g = job[c].g => b = c

PublishedOnce == \A g \in Gens : pubs[g] = IF g \in slices \cap settled THEN 1 ELSE 0

SliceInv == HoldInv /\ (leased = TRUE => MintedInv /\ PublishedOnce)

(* A step of a handler is no step of the others, and their leases stay.    *)
LEMMA OthersStay ==
    ASSUME TypeInv, NEW a \in Slots, Handle(a) \/ Deliver(a), NEW b \in Slots \ {a}
    PROVE  Stays(b) /\ \A d \in Deliveries : fence'[d] = b <=> fence[d] = b
<1> USE DEF TypeInv, ActorTypes, RowTypes, Actors
<1>1. ASSUME \E l : Goto(a, l), UNCHANGED job \/ \E j : job' = [job EXCEPT ![a] = j]
      PROVE  Stays(b)
  BY <1>1 DEF Goto, Stays
<1>2. ASSUME fence' = fence \/ fence' = Released(a)
      PROVE  \A d \in Deliveries : fence'[d] = b <=> fence[d] = b
  BY <1>2, OutboxAssumption DEF Released
<1>3. ASSUME Quit(a) PROVE Stays(b) /\ \A d \in Deliveries : fence'[d] = b <=> fence[d] = b
  BY <1>1, <1>2, <1>3 DEF Quit, Goto
<1>4. ASSUME NEW d \in Deliveries, Acquire(a, d)
      PROVE  Stays(b) /\ \A e \in Deliveries : fence'[e] = b <=> fence[e] = b
  <2>1. Goto(a, "check") /\ job' = [job EXCEPT ![a].d = d] /\ fence[d] = None
        /\ fence' = [fence EXCEPT ![d] = a]
    BY <1>4 DEF Acquire
  <2>2. Stays(b)
    BY <2>1 DEF Goto, Stays
  <2> QED BY <2>1, <2>2, OutboxAssumption
<1>5. ASSUME NEW k, NEW how, BuildRecord(a, k, how) PROVE Stays(b)
  <2>1. /\ Goto(a, "settle")
        /\ UNCHANGED job \/ job' = [job EXCEPT ![a].k = k, ![a].g = minted + 1, ![a].how = how]
    BY <1>5 DEF BuildRecord
  <2> QED BY <2>1 DEF Goto, Stays
<1>6. CASE Settle(a)
  <2>1. Quit(a) \/ (UNCHANGED <<rows, job>> /\ \E l : Goto(a, l))
    BY <1>6, SettleGoes
  <2> QED BY <1>1, <1>2, <1>3, <2>1 DEF rows
<1>7. CASE ReemitPending(a)
  <2>1. /\ UNCHANGED rows /\ \E l : Goto(a, l)
        /\ UNCHANGED job \/ \E k, g : job' = [job EXCEPT ![a].k = k, ![a].g = g]
    BY <1>7 DEF ReemitPending
  <2>2. Stays(b)
    BY <2>1 DEF Goto, Stays
  <2> QED BY <1>2, <2>1, <2>2 DEF rows
<1>8. CASE SawSideEffect(a) \/ \E k \in Kinds, how \in AllHows : Finish(a, k, how)
  <2>1. UNCHANGED rows
    BY <1>8 DEF SawSideEffect, Finish
  <2>2. \/ \E k, how : BuildRecord(a, k, how)
        \/ Goto(a, "start") /\ UNCHANGED job
    BY <1>8 DEF SawSideEffect, Finish
  <2> QED BY <1>1, <1>2, <1>5, <2>1, <2>2 DEF rows
<1>9. CASE CheckTerminal(a) \/ StartAttempt(a) \/ ObserveEffect(a) \/ RetryAttempt(a)
              \/ MarkPending(a) \/ PublishSuccessor(a) \/ MarkDoneWithoutCompletion(a)
  <2>1. UNCHANGED <<rows, job>> /\ \E l : Goto(a, l)
    BY <1>9 DEF CheckTerminal, StartAttempt, ObserveEffect, RetryAttempt, MarkPending,
       PublishSuccessor, MarkDoneWithoutCompletion
  <2> QED BY <1>1, <1>2, <2>1 DEF rows
<1>10. CASE SettleRaises(a) \/ RecoverReply(a) \/ MarkDone(a) \/ Leave(a)
  <2>1. Quit(a) \/ (UNCHANGED <<rows, job>> /\ \E l : Goto(a, l))
    BY <1>10 DEF SettleRaises, RecoverReply, MarkDone, Leave
  <2> QED BY <1>1, <1>2, <1>3, <2>1 DEF rows
<1>11. CASE Ack(a)
  BY <1>1, <1>2, <1>11 DEF Ack
<1>12. CASE Deliver(a)
  <2>1. /\ UNCHANGED rows /\ \E l : Goto(a, l)
        /\ UNCHANGED job \/ job' = [job EXCEPT ![a] = NoJob]
    BY <1>12 DEF Deliver, EmitConfirmed, EmitFails, Clear, DeadLetter, UpdateCause, AfterDelivery
  <2> QED BY <1>1, <1>2, <2>1 DEF rows
<1> QED BY <1>4, <1>6, <1>7, <1>8, <1>9, <1>10, <1>11, <1>12 DEF Handle

(* A sweeper moves no handler, and time moves it from a resend only.       *)
LEMMA HandlersStay ==
    ASSUME TypeInv, Next, ~\E a \in Slots : Handle(a) \/ Deliver(a)
    PROVE  /\ \A b \in Slots :
                 \/ Stays(b)
                 \/ Tick /\ pc[b] = "resend" /\ pc'[b] = "gaveup" /\ job'[b] = job[b]
           /\ UNCHANGED fence \/ \E d \in Deliveries : Lapse(d)
<1> USE DEF TypeInv, ActorTypes, Actors
<1>1. ASSUME NEW s \in Sweepers, \E l : Goto(s, l),
             \/ UNCHANGED job \/ \E j : job' = [job EXCEPT ![s] = j]
             \/ \E k, g : job' = [job EXCEPT ![s].k = k, ![s].g = g]
      PROVE  \A b \in Slots : Stays(b)
  BY <1>1, OutboxAssumption DEF Goto, Stays
<1>2. ASSUME NEW s \in Sweepers, Sweep(s) \/ Deliver(s) \/ SweepAborts(s)
      PROVE  UNCHANGED fence /\ \A b \in Slots : Stays(b)
  <2>1. UNCHANGED rows
    BY <1>2 DEF Sweep, SweepStart, SweepRead, SweepNext, DropMember, Discard, SweepAborts,
       Deliver, EmitConfirmed, EmitFails, Clear, DeadLetter, UpdateCause
  <2>2. CASE SweepNext(s)
    <3>1. /\ \E l : Goto(s, l)
          /\ UNCHANGED job \/ \E k, g : job' = [job EXCEPT ![s].k = k, ![s].g = g]
      BY <2>2 DEF SweepNext
    <3> QED BY <1>1, <2>1, <3>1 DEF rows
  <2>3. CASE ~SweepNext(s)
    <3>1. /\ \E l : Goto(s, l)
          /\ UNCHANGED job \/ job' = [job EXCEPT ![s] = NoJob]
      BY <1>2, <2>3 DEF Sweep, SweepStart, SweepRead, DropMember, Discard, SweepAborts,
         Deliver, EmitConfirmed, EmitFails, Clear, DeadLetter, UpdateCause, AfterDelivery
    <3> QED BY <1>1, <2>1, <3>1 DEF rows
  <2> QED BY <2>2, <2>3
<1>3. CASE Tick
  <2>1. /\ pc' = [a \in Actors |-> IF pc[a] = "resend" THEN "gaveup" ELSE pc[a]]
        /\ UNCHANGED <<job, rows>>
    BY <1>3 DEF Tick
  <2> QED BY <1>3, <2>1 DEF Stays, rows
<1>4. ASSUME NEW d \in Deliveries, Lapse(d) PROVE \A b \in Slots : Stays(b)
  BY <1>4 DEF Lapse, actors, Stays
<1> QED BY <1>2, <1>3, <1>4 DEF Next

(* How a handler comes to where it is, and that it keeps its entry.        *)
LEMMA OwnStep ==
    ASSUME TypeInv, NEW a \in Slots, Handle(a) \/ Deliver(a)
    PROVE  /\ \/ pc'[a] = "idle"
              \/ \E d \in Deliveries : Acquire(a, d)
              \/ pc[a] # "idle" /\ job'[a].d = job[a].d /\ UNCHANGED fence
           /\ pc'[a] = "side" => CheckTerminal(a)
           /\ pc'[a] = "start" => SawSideEffect(a) \/ RetryAttempt(a)
           /\ pc'[a] = "run" => StartAttempt(a)
           /\ pc'[a] \in {"publish", "mark"} => MarkPending(a) \/ PublishSuccessor(a)
           /\ pc'[a] = "acted" => ObserveEffect(a)
           /\ pc'[a] = "settle" =>
                 /\ pc[a] \in Attempting \cup {"acted"}
                 /\ \E k, how : BuildRecord(a, k, how)
           /\ pc'[a] \in {"resend", "gaveup"} => Settle(a)
<1> USE DEF TypeInv, ActorTypes, Actors, Job
<1>1. ASSUME NEW l, Goto(a, l) PROVE pc'[a] = l
  BY <1>1 DEF Goto
<1>2. ASSUME Quit(a) PROVE pc'[a] = "idle"
  BY <1>2 DEF Quit
<1>3. CASE \E d \in Deliveries : Acquire(a, d)
  <2>1. pc'[a] = "check"
    BY <1>1, <1>3 DEF Acquire
  <2> QED BY <1>3, <2>1
<1>4. CASE Settle(a)
  <2>1. pc[a] # "idle"
    BY <1>4 DEF Settle
  <2>2. \/ pc'[a] = "idle"
        \/ UNCHANGED <<rows, job>> /\ pc'[a] \in {"ack", "emit", "resend", "gaveup"}
    BY <1>1, <1>2, <1>4, SettleGoes
  <2> QED BY <1>4, <2>1, <2>2 DEF rows
<1>5. CASE ReemitPending(a)
  <2>1. /\ pc[a] = "read" /\ UNCHANGED rows /\ pc'[a] \in {"emit", "ack"}
        /\ UNCHANGED job \/ \E k, g : job' = [job EXCEPT ![a].k = k, ![a].g = g]
    BY <1>1, <1>5 DEF ReemitPending
  <2>2. job'[a].d = job[a].d
    BY <2>1
  <2> QED BY <2>1, <2>2 DEF rows
<1>6. CASE SawSideEffect(a) \/ \E k \in Kinds, how \in AllHows : Finish(a, k, how)
  <2>1. pc[a] \in Attempting \cup {"acted"} /\ UNCHANGED rows
    BY <1>6 DEF SawSideEffect, Finish, Attempting
  <2>2. \/ \E k, how : BuildRecord(a, k, how)
        \/ SawSideEffect(a) /\ Goto(a, "start") /\ UNCHANGED job
    BY <1>6 DEF SawSideEffect, Finish
  <2>3. ASSUME NEW k, NEW how, BuildRecord(a, k, how)
        PROVE  pc'[a] = "settle" /\ job'[a].d = job[a].d
    <3>1. /\ Goto(a, "settle")
          /\ UNCHANGED job \/ job' = [job EXCEPT ![a].k = k, ![a].g = minted + 1, ![a].how = how]
      BY <2>3 DEF BuildRecord
    <3> QED BY <1>1, <3>1
  <2> QED BY <1>1, <2>1, <2>2, <2>3 DEF rows, Attempting
<1>7. CASE CheckTerminal(a) \/ StartAttempt(a) \/ ObserveEffect(a) \/ RetryAttempt(a)
              \/ MarkPending(a) \/ PublishSuccessor(a) \/ MarkDoneWithoutCompletion(a)
  <2>1. pc[a] # "idle" /\ UNCHANGED <<rows, job>>
    BY <1>7 DEF CheckTerminal, StartAttempt, ObserveEffect, RetryAttempt, MarkPending,
       PublishSuccessor, MarkDoneWithoutCompletion
  <2>2. /\ CheckTerminal(a) => pc'[a] \in {"read", "side"}
        /\ StartAttempt(a) => pc'[a] = "run"
        /\ ObserveEffect(a) => pc'[a] = "acted"
        /\ RetryAttempt(a) => pc'[a] = "start"
        /\ MarkPending(a) \/ PublishSuccessor(a) => pc'[a] \in {"publish", "mark"}
        /\ MarkDoneWithoutCompletion(a) => pc'[a] = "ack"
    BY <1>1 DEF CheckTerminal, StartAttempt, ObserveEffect, RetryAttempt, MarkPending,
       PublishSuccessor, MarkDoneWithoutCompletion
  <2> QED BY <1>7, <2>1, <2>2 DEF rows
<1>8. CASE SettleRaises(a) \/ RecoverReply(a) \/ MarkDone(a) \/ Leave(a)
  <2>1. pc[a] # "idle"
    BY <1>8 DEF SettleRaises, RecoverReply, MarkDone, Leave
  <2>2. pc'[a] = "idle" \/ (UNCHANGED <<rows, job>> /\ pc'[a] \in {"lost", "emit"})
    BY <1>1, <1>2, <1>8 DEF SettleRaises, RecoverReply, MarkDone, Leave
  <2> QED BY <2>1, <2>2 DEF rows
<1>9. CASE Ack(a)
  BY <1>1, <1>9 DEF Ack
<1>10. CASE Deliver(a)
  <2>1. pc[a] # "idle" /\ UNCHANGED <<rows, job>>
    BY <1>10 DEF Deliver, EmitConfirmed, EmitFails, Clear, DeadLetter, UpdateCause, AfterDelivery
  <2>2. pc'[a] \in {"clear", "ack", "bury", "note", "unnote"}
    BY <1>1, <1>10, OutboxAssumption
       DEF Deliver, EmitConfirmed, EmitFails, Clear, DeadLetter, UpdateCause, AfterDelivery
  <2> QED BY <2>1, <2>2 DEF rows
<1> QED BY <1>3, <1>4, <1>5, <1>6, <1>7, <1>8, <1>9, <1>10 DEF Handle

LEMMA HoldStep == ASSUME TypeInv, HoldInv, Next PROVE HoldInv'
<1>1. UNCHANGED config
  BY ConfigFrame
<1>2. ASSUME NEW b \in Slots, Stays(b), \A d \in Deliveries : fence'[d] = b <=> fence[d] = b
      PROVE  /\ pc'[b] # "idle" => job'[b].d \in Deliveries /\ (leased' = FALSE => Holds(b)')
             /\ pc'[b] \in {"publish", "mark"} => leased' = FALSE
  BY <1>1, <1>2 DEF HoldInv, Stays, Holds, config
<1>3. ASSUME NEW a \in Slots, Handle(a) \/ Deliver(a) PROVE HoldInv'
  <2>1. ASSUME NEW b \in Slots \ {a}
        PROVE  /\ pc'[b] # "idle" => job'[b].d \in Deliveries /\ (leased' = FALSE => Holds(b)')
               /\ pc'[b] \in {"publish", "mark"} => leased' = FALSE
    BY <1>2, <1>3, OthersStay
  <2>2. pc'[a] # "idle" => job'[a].d \in Deliveries /\ (leased' = FALSE => Holds(a)')
    <3>1. CASE \E d \in Deliveries : Acquire(a, d)
      <4>1. PICK d \in Deliveries : Acquire(a, d)
        BY <3>1
      <4>2. job'[a].d = d /\ fence'[d] = a
        BY <4>1 DEF Acquire, TypeInv, ActorTypes, RowTypes, Actors, Job
      <4> QED BY <4>2 DEF Holds
    <3>2. CASE pc[a] # "idle" /\ job'[a].d = job[a].d /\ UNCHANGED fence
      BY <1>1, <3>2 DEF HoldInv, Holds, config
    <3> QED BY <1>3, <3>1, <3>2, OwnStep
  <2>3. pc'[a] \in {"publish", "mark"} => leased' = FALSE
    <3>1. MarkPending(a) => leased = FALSE
      BY DEF MarkPending, TypeInv, RowTypes
    <3>2. PublishSuccessor(a) => leased = FALSE
      BY DEF PublishSuccessor, HoldInv
    <3> QED BY <1>1, <1>3, <3>1, <3>2, OwnStep DEF config
  <2> QED BY <2>1, <2>2, <2>3 DEF HoldInv
<1>4. CASE ~\E a \in Slots : Handle(a) \/ Deliver(a)
  <2>1. UNCHANGED fence \/ leased = TRUE
    BY <1>4, HandlersStay DEF Lapse, TypeInv, RowTypes
  <2>2. ASSUME NEW b \in Slots
        PROVE  \/ Stays(b)
               \/ pc[b] # "idle" /\ pc'[b] = "gaveup" /\ job'[b] = job[b]
    BY <1>4, HandlersStay
  <2> QED BY <1>1, <2>1, <2>2 DEF HoldInv, Stays, Holds, config
<1> QED BY <1>3, <1>4

(* With one entry, who holds the lease is alone.                           *)
LEMMA HolderAlone ==
    ASSUME OneEntry, HoldInv, NEW a \in Slots, NEW b \in Slots,
           pc[a] # "idle", pc[b] # "idle", Holds(a), Holds(b)
    PROVE  a = b
<1>1. job[a].d \in Deliveries /\ job[b].d \in Deliveries
  BY DEF HoldInv
<1> QED BY <1>1 DEF OneEntry, Holds

(* Only the holder of a lease writes a marker.                             *)
LEMMA WriterHolds ==
    ASSUME TypeInv, HoldInv, NEW a \in Slots,
           ObserveEffect(a) \/ Settle(a) \/ MarkDone(a) \/ MarkDoneWithoutCompletion(a)
    PROVE  \/ UNCHANGED <<markers, outbox, terminal, sweepKeys>>
           \/ pc[a] # "idle" /\ Holds(a)
<1>1. CASE ObserveEffect(a)
  BY <1>1 DEF ObserveEffect
<1>2. CASE Settle(a)
  BY <1>2 DEF Settle
<1>3. CASE MarkDone(a) \/ MarkDoneWithoutCompletion(a)
  <2>1. pc[a] # "idle" /\ leased = FALSE
    BY <1>3 DEF MarkDone, MarkDoneWithoutCompletion, HoldInv, TypeInv, RowTypes
  <2> QED BY <2>1 DEF HoldInv
<1> QED BY <1>1, <1>2, <1>3

(* What the steps that write a marker write, and where they lead.          *)
LEMMA MarkerWrites ==
    ASSUME TypeInv, NEW a \in Slots,
           ObserveEffect(a) \/ Settle(a) \/ MarkDone(a) \/ MarkDoneWithoutCompletion(a)
    PROVE  /\ \/ UNCHANGED markers
              \/ done' = MarkerTTL /\ sinceSettled' = 0 /\ UNCHANGED <<effect, sinceEffect>>
              \/ effect' = IdemTTL /\ sinceEffect' = 0 /\ UNCHANGED <<done, sinceSettled>>
           /\ pc'[a] \in Unsettled => ObserveEffect(a) /\ pc'[a] = "acted"
<1> USE DEF TypeInv, ActorTypes, Actors, markers, Unsettled, Attempting
<1>1. CASE ObserveEffect(a)
  BY <1>1 DEF ObserveEffect, Goto
<1>2. CASE Settle(a)
  <2>1. \/ UNCHANGED markers
        \/ done' = MarkerTTL /\ sinceSettled' = 0 /\ UNCHANGED <<effect, sinceEffect>>
    BY <1>2, SettleWrites DEF SettleMarker, WriteTerminal
  <2>2. pc'[a] \in {"idle", "ack", "emit", "resend", "gaveup"}
    BY <1>2, SettleGoes DEF Quit, Goto
  <2> QED BY <2>1, <2>2
<1>3. CASE MarkDone(a)
  BY <1>3 DEF MarkDone, Goto, Quit
<1>4. CASE MarkDoneWithoutCompletion(a)
  BY <1>4 DEF MarkDoneWithoutCompletion, SettleMarker, Goto
<1> QED BY <1>1, <1>2, <1>3, <1>4

LEMMA MarkersLastStep == ASSUME TypeInv, MarkersLast, Next PROVE MarkersLast'
<1> USE OutboxAssumption DEF MarkersLast, TypeInv, MarkerTypes
<1>1. CASE UNCHANGED markers
  BY <1>1 DEF markers
<1>2. CASE Tick
  <2>1. /\ done' = Dec(done) /\ effect' = Dec(effect)
        /\ sinceSettled' = Inc(sinceSettled, Retention) /\ sinceEffect' = Inc(sinceEffect, IdemTTL)
    BY <1>2 DEF Tick
  <2> QED BY <2>1, MarkerTTLNat DEF Dec, Inc
<1>3. CASE done' = MarkerTTL /\ sinceSettled' = 0 /\ UNCHANGED <<effect, sinceEffect>>
  BY <1>3 DEF MarkerTTL
<1>4. CASE effect' = IdemTTL /\ sinceEffect' = 0 /\ UNCHANGED <<done, sinceSettled>>
  BY <1>4
<1> QED BY <1>1, <1>2, <1>3, <1>4, MarkerFrame, MarkerWrites

LEMMA NothingRecentStep ==
    ASSUME OneEntry, TypeInv, RerunInv, Next, NEW b \in Slots
    PROVE  NothingRecent(b)'
<1>1. HoldInv /\ MarkersLast /\ NothingRecent(b)
  BY DEF RerunInv
<1> SUFFICES ASSUME pc'[b] \in Unsettled, Holds(b)'
             PROVE  /\ sinceSettled' = Retention
                    /\ pc'[b] \in {"start", "run"} => sinceEffect' = IdemTTL
  BY DEF NothingRecent
<1> USE DEF Unsettled, Attempting
<1>0. CASE ObserveEffect(b)
  <2>1. pc[b] \in {"run", "acted"} /\ Holds(b) /\ pc'[b] = "acted" /\ UNCHANGED sinceSettled
    BY <1>0 DEF ObserveEffect, Goto, TypeInv, ActorTypes, Actors
  <2> QED BY <1>1, <2>1 DEF NothingRecent
<1>2. CASE /\ ~ObserveEffect(b)
           /\ \E a \in Slots :
                 ObserveEffect(a) \/ Settle(a) \/ MarkDone(a) \/ MarkDoneWithoutCompletion(a)
  <2>1. PICK a \in Slots :
             ObserveEffect(a) \/ Settle(a) \/ MarkDone(a) \/ MarkDoneWithoutCompletion(a)
    BY <1>2
  <2>2. a # b
    BY <1>2, <2>1, MarkerWrites
  <2>3. Handle(a)
    BY <2>1 DEF Handle
  <2>4. Stays(b) /\ \A d \in Deliveries : fence'[d] = b <=> fence[d] = b
    BY <2>2, <2>3, OthersStay
  <2>5. Holds(b) /\ pc[b] # "idle"
    BY <1>1, <2>4 DEF Stays, Holds, HoldInv
  <2>6. UNCHANGED markers
    BY <1>1, <2>1, <2>2, <2>5, WriterHolds, HolderAlone
  <2> QED BY <1>1, <2>4, <2>5, <2>6 DEF NothingRecent, Stays, markers
<1>3. CASE UNCHANGED markers /\ ~ObserveEffect(b)
  <2>1. CASE Stays(b) /\ (Holds(b)' => Holds(b))
    BY <1>1, <1>3, <2>1 DEF NothingRecent, Stays, markers
  <2>2. CASE Handle(b) \/ Deliver(b)
    <3>1. \/ pc[b] # "idle" /\ job'[b].d = job[b].d /\ UNCHANGED fence
          \/ \E d \in Deliveries : Acquire(b, d)
      BY <2>2, OwnStep
    <3>2. ~\E d \in Deliveries : Acquire(b, d)
      BY DEF Acquire, Goto, TypeInv, ActorTypes, Actors
    <3>3. Holds(b)
      BY <3>1, <3>2 DEF Holds
    <3>4. CASE pc'[b] = "side"
      <4>1. pc'[b] = IF IsTerminal THEN "read" ELSE "side"
        BY <2>2, <3>4, OwnStep DEF CheckTerminal, Goto, TypeInv, ActorTypes, Actors
      <4>2. ~(done > 0)
        BY <3>4, <4>1 DEF IsTerminal
      <4>3. sinceSettled = Retention
        BY <1>1, <4>2, OutboxAssumption, MarkerTTLNat DEF MarkersLast, TypeInv, MarkerTypes
      <4> QED BY <1>3, <3>4, <4>3 DEF markers
    <3>5. CASE pc'[b] = "start" /\ SawSideEffect(b)
      <4>1. pc[b] = "side" /\ ~(effect > 0)
        BY <3>5 DEF SawSideEffect, BuildRecord, Goto, TypeInv, ActorTypes, Actors
      <4>2. sinceEffect = IdemTTL
        BY <1>1, <4>1, OutboxAssumption DEF MarkersLast, TypeInv, MarkerTypes
      <4> QED BY <1>1, <1>3, <3>3, <4>1, <4>2 DEF NothingRecent, markers
    <3>6. CASE RetryAttempt(b) \/ StartAttempt(b)
      BY <1>1, <1>3, <3>3, <3>6 DEF NothingRecent, RetryAttempt, StartAttempt, markers
    <3>7. CASE pc'[b] = "settle"
      <4>1. pc[b] \in Attempting \cup {"acted"}
        BY <2>2, <3>7, OwnStep
      <4> QED BY <1>1, <1>3, <3>3, <3>7, <4>1 DEF NothingRecent, markers
    <3>8. CASE pc'[b] \in {"publish", "mark"}
      <4>1. pc[b] \in {"settle", "publish"}
        BY <2>2, <3>8, OwnStep DEF MarkPending, PublishSuccessor
      <4> QED BY <1>1, <1>3, <3>3, <3>8, <4>1 DEF NothingRecent, markers
    <3> QED BY <1>3, <2>2, <3>4, <3>5, <3>6, <3>7, <3>8, OwnStep
  <2>3. ASSUME NEW a \in Slots, a # b, Handle(a) \/ Deliver(a)
        PROVE  Stays(b) /\ (Holds(b)' => Holds(b))
    <3>1. Stays(b) /\ \A d \in Deliveries : fence'[d] = b <=> fence[d] = b
      BY <2>3, OthersStay
    <3>2. job[b].d \in Deliveries
      BY <1>1, <3>1 DEF HoldInv, Stays
    <3> QED BY <3>1, <3>2 DEF Holds, Stays
  <2>4. CASE ~\E a \in Slots : Handle(a) \/ Deliver(a)
    <3>1. Stays(b) /\ (UNCHANGED fence \/ \E d \in Deliveries : Lapse(d))
      BY <2>4, HandlersStay
    <3>2. job[b].d \in Deliveries
      BY <1>1, <3>1 DEF HoldInv, Stays
    <3>3. Holds(b)' => Holds(b)
      BY <3>1, <3>2, OutboxAssumption DEF Lapse, Holds, Stays, TypeInv, RowTypes
    <3> QED BY <2>1, <3>1, <3>3
  <2> QED BY <2>1, <2>2, <2>3, <2>4
<1>4. CASE Tick
  <2>1. /\ sinceSettled' = Inc(sinceSettled, Retention) /\ sinceEffect' = Inc(sinceEffect, IdemTTL)
        /\ pc' = [a \in Actors |-> IF pc[a] = "resend" THEN "gaveup" ELSE pc[a]]
        /\ UNCHANGED <<job, rows>>
    BY <1>4 DEF Tick
  <2>2. pc'[b] = pc[b] /\ Holds(b)
    BY <2>1 DEF Actors, Holds, rows
  <2> QED BY <1>1, <2>1, <2>2, OutboxAssumption DEF NothingRecent, Inc
<1> QED BY <1>0, <1>2, <1>3, <1>4, MarkerFrame

(* Who settles after a step has built the record in it, or has settled     *)
(* before with the same generation.                                        *)
LEMMA SettlerStep ==
    ASSUME TypeInv, HoldInv, Next, NEW b \in Slots, Settles(b)'
    PROVE  \/ \E k, how : BuildRecord(b, k, how)
           \/ /\ Settles(b) /\ job'[b] = job[b] /\ (Holds(b)' => Holds(b))
              /\ \/ Settle(b) /\ pc'[b] \in {"resend", "gaveup"}
                 \/ pc'[b] = pc[b] /\ ~Tick
                 \/ pc'[b] = "gaveup"
                 \/ pc'[b] = "settle" /\ pc[b] = "settle"
<1> USE DEF Settling
<1>1. targetless = FALSE /\ pc'[b] \in Settling
  BY ConfigFrame DEF Settles, config
<1>2. CASE Handle(b) \/ Deliver(b)
  <2>1. CASE pc'[b] = "settle"
    BY <1>2, <2>1, OwnStep
  <2>2. CASE pc'[b] \in {"resend", "gaveup"}
    <3>1. Settle(b)
      BY <1>2, <2>2, OwnStep
    <3>2. pc[b] \in Settling /\ UNCHANGED <<rows, job>>
      BY <2>2, <3>1, SettleGoes DEF Settle, Quit, TypeInv, ActorTypes, Actors
    <3> QED BY <1>1, <2>2, <3>1, <3>2 DEF Settles, Holds, rows
  <2> QED BY <1>1, <2>1, <2>2
<1>3. ASSUME NEW a \in Slots, a # b, Handle(a) \/ Deliver(a)
      PROVE  /\ Settles(b) /\ job'[b] = job[b] /\ (Holds(b)' => Holds(b))
             /\ pc'[b] = pc[b]
  <2>1. Stays(b) /\ \A d \in Deliveries : fence'[d] = b <=> fence[d] = b
    BY <1>3, OthersStay
  <2>2. job[b].d \in Deliveries
    BY <1>1, <2>1 DEF HoldInv, Stays
  <2> QED BY <1>1, <2>1, <2>2 DEF Holds, Stays, Settles
<1>4. CASE ~\E a \in Slots : Handle(a) \/ Deliver(a)
  <2>1. /\ \/ Stays(b)
           \/ pc[b] = "resend" /\ pc'[b] = "gaveup" /\ job'[b] = job[b]
        /\ UNCHANGED fence \/ \E d \in Deliveries : Lapse(d)
    BY <1>4, HandlersStay
  <2>2. Settles(b) /\ job'[b] = job[b]
    BY <1>1, <2>1 DEF Settles, Stays
  <2>3. job[b].d \in Deliveries
    BY <2>2 DEF HoldInv, Settles
  <2>4. Holds(b)' => Holds(b)
    BY <2>1, <2>2, <2>3, OutboxAssumption DEF Lapse, Holds, TypeInv, RowTypes
  <2>5. Tick => pc'[b] # "resend"
    BY DEF Tick, Actors
  <2>6. pc'[b] = pc[b] \/ pc'[b] = "gaveup"
    BY <2>1 DEF Stays
  <2> QED BY <1>1, <2>2, <2>4, <2>5, <2>6
<1>5. ASSUME NEW a \in Slots, Handle(a) \/ Deliver(a) PROVE ~Tick \/ pc'[b] # "resend"
  BY DEF Tick, Actors
<1> QED BY <1>1, <1>2, <1>3, <1>4, <1>5

(* What a settlement writes, with the guards of its script.                *)
LEMMA ScriptGuards ==
    ASSUME TypeInv, NEW a \in Slots, Settle(a)
    PROVE  /\ \/ UNCHANGED <<terminal, sweepKeys>>
              \/ /\ Settles(a) /\ pc[a] # "gaveup" /\ Holds(a) /\ WriteTerminal(job[a])
                 /\ ~(job[a].how = "slice" /\ published.gen = job[a].g)
           /\ pc'[a] = "resend" /\ targetless = FALSE /\ job[a].how = "slice" =>
                 published'.gen = job[a].g
<1>1. pc[a] \in {"settle", "resend"}
  BY DEF Settle
<1>2. CASE targetless = TRUE
  BY <1>2 DEF Settle, SettleMarker
<1>3. CASE targetless = FALSE
  <2>1. /\ Settles(a)
        /\ \/ UNCHANGED <<terminal, sweepKeys>> /\ (Quit(a) \/ Goto(a, "gaveup"))
           \/ Holds(a) /\ SettleScript(job[a])
    BY <1>1, <1>3 DEF Settle, Settles, Settling
  <2>2. ASSUME SettleScript(job[a]), job[a].how = "slice" PROVE published'.gen = job[a].g
    BY <2>2 DEF SettleScript, WriteTerminal, sweepKeys
  <2>3. Quit(a) \/ Goto(a, "gaveup") => pc'[a] # "resend"
    BY DEF Quit, Goto, TypeInv, ActorTypes, Actors
  <2> QED BY <1>1, <2>1, <2>2, <2>3 DEF SettleScript
<1> QED BY <1>2, <1>3 DEF TypeInv, RowTypes

(* A settlement that is repeated has written its generation.               *)
LEMMA ResentStep ==
    ASSUME TypeInv, SettledInv, RerunInv, Next, NEW b \in Slots
    PROVE  ResentSettled(b)'
<1> SUFFICES ASSUME pc'[b] = "resend", targetless' = FALSE PROVE job'[b].g \in settled'
  BY DEF ResentSettled
<1>1. targetless = FALSE /\ HoldInv /\ ResentSettled(b) /\ Settles(b)'
  BY ConfigFrame DEF config, RerunInv, Settles, Settling
<1>2. ~\E k, how : BuildRecord(b, k, how)
  BY DEF BuildRecord, Goto, TypeInv, ActorTypes, Actors
<1>3. /\ Settles(b) /\ job'[b] = job[b]
      /\ Settle(b) \/ pc[b] = "resend"
  BY <1>1, <1>2, SettlerStep
<1>4. CASE Settle(b)
  <2>1. SettleScript(job[b])
    BY <1>1, <1>4 DEF Settle, Quit, Goto, TypeInv, ActorTypes, Actors
  <2>2. job[b].g \in Gens
    BY <1>1, <1>3 DEF TypeInv, ActorTypes, InHand, Settles, Settling, Actors
  <2>3. job[b].g \in settled'
    BY <2>1, <2>2 DEF SettleScript, WriteTerminal, SettledInv, PublishedSettled, terminal, Gens
  <2> QED BY <1>3, <2>3
<1>5. CASE pc[b] = "resend"
  BY <1>1, <1>3, <1>5, SettledGrows DEF ResentSettled
<1> QED BY <1>3, <1>4, <1>5

LEMMA RerunInit == Init => RerunInv
  BY OutboxAssumption DEF Init, RerunInv, HoldInv, MarkersLast, NothingRecent, Unsettled,
     Attempting, ResentSettled, Actors

LEMMA RerunStep ==
    ASSUME OneEntry
    PROVE  TypeInv /\ SettledInv /\ RerunInv /\ [Next]_vars => RerunInv'
<1> SUFFICES ASSUME TypeInv, SettledInv, RerunInv, [Next]_vars PROVE RerunInv' OBVIOUS
<1>1. CASE Next
  <2>1. HoldInv' /\ MarkersLast'
    BY <1>1, HoldStep, MarkersLastStep DEF RerunInv
  <2>2. \A b \in Slots : NothingRecent(b)' /\ ResentSettled(b)'
    BY <1>1, NothingRecentStep, ResentStep
  <2> QED BY <2>1, <2>2 DEF RerunInv
<1>2. CASE UNCHANGED vars
  BY <1>2 DEF RerunInv, HoldInv, MarkersLast, NothingRecent, ResentSettled, Holds, vars, config,
     rows, markers, actors, terminal
<1> QED BY <1>1, <1>2

(* Who starts an attempt with its lease has nothing recent behind it.      *)
LEMMA StarterFresh ==
    ASSUME TypeInv, RerunInv, NEW a \in Slots, Starts(a)
    PROVE  sinceSettled = Retention /\ sinceEffect = IdemTTL
<1>1. pc[a] = "start" /\ Holds(a)
  BY DEF Starts, RerunInv, HoldInv, TypeInv, RowTypes
<1> QED BY <1>1 DEF RerunInv, NothingRecent, Unsettled, Attempting

(* Who settles a new outcome had nothing recent behind it.                 *)
LEMMA SettlesFresh ==
    ASSUME TypeInv, RerunInv, [Next]_vars, settled' # settled
    PROVE  sinceSettled = Retention
<1>1. Next
  BY DEF vars, terminal
<1>2. PICK a \in Slots : Settle(a) \/ MarkDone(a)
  BY <1>1, GenFrame DEF Tick, SawSideEffect, Finish, PublishSuccessor, terminal
<1>3. HoldInv /\ NothingRecent(a) /\ ResentSettled(a)
  BY DEF RerunInv
<1>4. pc[a] # "idle" /\ Holds(a)
  BY <1>2, <1>3, WriterHolds DEF terminal
<1>5. CASE Settle(a)
  <2>1. Settles(a) /\ pc[a] # "gaveup" /\ WriteTerminal(job[a])
    BY <1>5, ScriptGuards DEF terminal
  <2>2. pc[a] # "resend"
    BY <1>3, <2>1 DEF ResentSettled, WriteTerminal, Settles
  <2> QED BY <1>3, <1>4, <2>1, <2>2 DEF NothingRecent, Unsettled, Settles, Settling
<1>6. CASE MarkDone(a)
  BY <1>3, <1>4, <1>6 DEF MarkDone, NothingRecent, Unsettled
<1> QED BY <1>2, <1>5, <1>6

LEMMA SliceUnchanged ==
    ASSUME TypeInv, HoldInv, MintedInv, PublishedOnce, Next,
           UNCHANGED <<minted, slices, settled, pubs>>,
           UNCHANGED published \/ Tick, ~\E a \in Slots : Settle(a)
    PROVE  MintedInv' /\ PublishedOnce'
<1>1. PublishedOnce'
  BY DEF PublishedOnce
<1>2. ASSUME NEW b \in Slots, Settles(b)'
      PROVE  /\ Settles(b) /\ job'[b] = job[b]
             /\ pc'[b] = "settle" => pc[b] = "settle"
             /\ pc'[b] = "resend" /\ Holds(b)' => pc[b] = "resend" /\ Holds(b) /\ UNCHANGED published
  <2>1. ~\E k, how : BuildRecord(b, k, how)
    <3>1. targetless = FALSE
      BY <1>2, ConfigFrame DEF Settles, config
    <3>2. minted' # minted + 1
      BY OutboxAssumption DEF TypeInv, GenTypes
    <3> QED BY <3>1, <3>2 DEF BuildRecord
  <2> QED BY <1>2, <2>1, SettlerStep
<1>3. ASSUME NEW b \in Slots, Settles(b)'
      PROVE  /\ job'[b].g \in 1..minted'
             /\ job'[b].how = "slice" <=> job'[b].g \in slices'
             /\ pc'[b] = "settle" => job'[b].g \notin settled'
             /\ pc'[b] = "resend" /\ job'[b].how = "slice" /\ Holds(b)' =>
                   published'.gen = job'[b].g
  BY <1>2, <1>3 DEF MintedInv
<1>4. ASSUME NEW b \in Slots, NEW c \in Slots, Settles(b)', Settles(c)', job'[b].g = job'[c].g
      PROVE  b = c
  BY <1>2, <1>4 DEF MintedInv
<1> QED BY <1>1, <1>3, <1>4 DEF MintedInv

LEMMA SliceStep ==
    ASSUME OneEntry
    PROVE  TypeInv /\ SliceInv /\ [Next]_vars => SliceInv'
<1> SUFFICES ASSUME TypeInv, SliceInv, [Next]_vars PROVE SliceInv' OBVIOUS
<1>1. CASE UNCHANGED vars
  BY <1>1 DEF SliceInv, HoldInv, MintedInv, PublishedOnce, Settles, Holds, vars, config, rows,
     sweepKeys, gens, actors, terminal
<1>2. CASE Next
  <2>1. HoldInv /\ HoldInv' /\ UNCHANGED config
    BY <1>2, HoldStep, ConfigFrame DEF SliceInv
  <2> SUFFICES ASSUME leased = TRUE, MintedInv, PublishedOnce
               PROVE  MintedInv' /\ PublishedOnce'
    BY <2>1 DEF SliceInv, config
  <2>2. CASE UNCHANGED <<sweepKeys, gens, terminal>> /\ ~\E a \in Slots : Settle(a)
    BY <1>2, <2>1, <2>2, SliceUnchanged DEF sweepKeys, gens, terminal
  <2>3. CASE Tick /\ ~\E a \in Slots : Settle(a)
    <3>1. UNCHANGED <<minted, slices, settled, pubs>>
      BY <2>3 DEF Tick, terminal
    <3> QED BY <1>2, <2>1, <2>3, <3>1, SliceUnchanged
  <2>4. ASSUME NEW a \in Slots,
               SawSideEffect(a) \/ \E k \in Kinds, how \in AllHows : Finish(a, k, how),
               ~\E c \in Slots : Settle(c)
        PROVE  MintedInv' /\ PublishedOnce'
    <3>1. UNCHANGED <<published, pubs, settled>> /\ Handle(a)
      BY <2>4 DEF SawSideEffect, Finish, terminal, Handle
    <3>2. CASE UNCHANGED <<gens, slices>>
      BY <1>2, <2>1, <2>4, <3>1, <3>2, SliceUnchanged DEF gens
    <3>3. CASE targetless = FALSE /\ \E k \in Kinds, how \in AllHows : BuildRecord(a, k, how)
      <4>1. PICK k \in Kinds, how \in AllHows : BuildRecord(a, k, how)
        BY <3>3
      <4>2. /\ minted' = minted + 1 /\ pc'[a] = "settle"
            /\ job'[a].g = minted + 1 /\ job'[a].how = how
            /\ slices' = IF how = "slice" THEN slices \cup {minted + 1} ELSE slices
        BY <3>3, <4>1 DEF BuildRecord, Goto, TypeInv, ActorTypes, Actors, Job
      <4>3. minted \in Nat /\ minted + 1 \notin slices /\ minted + 1 \notin settled
            /\ 1..minted \subseteq 1..minted' /\ minted + 1 \in 1..minted'
            /\ minted + 1 \notin 1..minted
        BY <4>2, OutboxAssumption DEF TypeInv, GenTypes, MintedInv
      <4>4. PublishedOnce'
        BY <3>1, <4>2, <4>3 DEF PublishedOnce
      <4>5. ASSUME NEW b \in Slots \ {a}, Settles(b)'
            PROVE  /\ Settles(b) /\ job'[b] = job[b] /\ job[b].g \in 1..minted
                   /\ pc'[b] = pc[b] /\ (Holds(b)' => Holds(b))
        <5>1. Stays(b) /\ \A d \in Deliveries : fence'[d] = b <=> fence[d] = b
          BY <3>1, OthersStay
        <5>2. Settles(b) /\ job[b].d \in Deliveries
          BY <2>1, <4>5, <5>1 DEF HoldInv, Stays, Settles, Settling, config
        <5> QED BY <5>1, <5>2 DEF Holds, Stays, MintedInv
      <4>6. slices' \subseteq 1..minted' /\ settled' \subseteq 1..minted'
        BY <3>1, <4>2, <4>3 DEF MintedInv
      <4>7. ASSUME NEW b \in Slots, Settles(b)'
            PROVE  /\ job'[b].g \in 1..minted'
                   /\ job'[b].how = "slice" <=> job'[b].g \in slices'
                   /\ pc'[b] = "settle" => job'[b].g \notin settled'
                   /\ pc'[b] = "resend" /\ job'[b].how = "slice" /\ Holds(b)' =>
                         published'.gen = job'[b].g
        <5>1. CASE b = a
          BY <3>1, <4>2, <4>3, <5>1
        <5>2. CASE b # a
          <6>1. job[b].g \in slices' <=> job[b].g \in slices
            BY <4>2, <4>3, <4>5, <4>7, <5>2
          <6> QED BY <3>1, <4>3, <4>5, <4>7, <5>2, <6>1 DEF MintedInv
        <5> QED BY <5>1, <5>2
      <4>8. ASSUME NEW b \in Slots, NEW c \in Slots, Settles(b)', Settles(c)',
                   job'[b].g = job'[c].g
            PROVE  b = c
        BY <4>2, <4>3, <4>5, <4>8 DEF MintedInv
      <4> QED BY <4>4, <4>6, <4>7, <4>8 DEF MintedInv
    <3>4. \/ UNCHANGED <<gens, slices>>
          \/ targetless = FALSE /\ \E k \in Kinds, how \in AllHows : BuildRecord(a, k, how)
      BY <2>4 DEF SawSideEffect, Finish, BuildRecord, AllHows, TypeInv, RowTypes
    <3> QED BY <3>2, <3>3, <3>4
  <2>5. ASSUME NEW a \in Slots, Settle(a) PROVE MintedInv' /\ PublishedOnce'
    <3>1. UNCHANGED minted /\ Handle(a) /\ pc[a] # "idle"
      BY <2>5 DEF Settle, gens, Handle
    <3>2. ASSUME NEW b \in Slots \ {a}, Settles(b)'
          PROVE  /\ Settles(b) /\ job'[b] = job[b] /\ pc'[b] = pc[b]
                 /\ Holds(b)' => Holds(b)
      <4>1. Stays(b) /\ \A d \in Deliveries : fence'[d] = b <=> fence[d] = b
        BY <3>1, OthersStay
      <4>2. Settles(b) /\ job[b].d \in Deliveries
        BY <2>1, <3>2, <4>1 DEF HoldInv, Stays, Settles, Settling, config
      <4> QED BY <4>1, <4>2 DEF Holds, Stays
    <3>3. Settles(a)' => /\ Settles(a) /\ job'[a] = job[a]
                         /\ pc'[a] \in {"resend", "gaveup"}
      BY <2>1, <2>5, SettleGoes
         DEF Settle, Settles, Settling, Quit, Goto, TypeInv, ActorTypes, Actors, config
    <3>4. pc'[a] = "resend" /\ targetless = FALSE /\ job[a].how = "slice" =>
             published'.gen = job[a].g
      BY <2>5, ScriptGuards
    <3>5. ASSUME NEW b \in Slots, NEW c \in Slots, Settles(b)', Settles(c)',
                 job'[b].g = job'[c].g
          PROVE  b = c
      BY <3>2, <3>3, <3>5 DEF MintedInv
    <3>6. CASE UNCHANGED <<terminal, sweepKeys>>
      <4>1. ASSUME NEW b \in Slots, Settles(b)'
            PROVE  /\ job'[b].g \in 1..minted'
                   /\ job'[b].how = "slice" <=> job'[b].g \in slices'
                   /\ pc'[b] = "settle" => job'[b].g \notin settled'
                   /\ pc'[b] = "resend" /\ job'[b].how = "slice" /\ Holds(b)' =>
                         published'.gen = job'[b].g
        <5>1. CASE b = a
          BY <2>1, <3>1, <3>3, <3>4, <3>6, <4>1, <5>1
             DEF MintedInv, Settles, sweepKeys, terminal, config
        <5>2. CASE b # a
          BY <3>1, <3>2, <3>6, <4>1, <5>2 DEF MintedInv, sweepKeys, terminal
        <5> QED BY <5>1, <5>2
      <4> QED BY <3>1, <3>5, <3>6, <4>1 DEF MintedInv, PublishedOnce, sweepKeys, terminal
    <3>7. CASE /\ Settles(a) /\ pc[a] # "gaveup" /\ Holds(a) /\ WriteTerminal(job[a])
               /\ ~(job[a].how = "slice" /\ published.gen = job[a].g)
      <4>1. /\ job[a].g \in 1..minted /\ job[a].g \in Gens
            /\ job[a].how = "slice" <=> job[a].g \in slices
            /\ job[a].how = "slice" => job[a].g \notin settled
        <5>1. job[a].how = "slice" => pc[a] = "settle"
          BY <3>7 DEF MintedInv, Settles, Settling
        <5>2. job[a].g \in Gens
          BY <3>7 DEF TypeInv, ActorTypes, InHand, Settles, Actors
        <5> QED BY <3>7, <5>1, <5>2 DEF MintedInv
      <4>2. /\ settled' = settled \cup {job[a].g} /\ slices' = slices
            /\ pubs' = IF job[a].how = "slice"
                         THEN [pubs EXCEPT ![job[a].g] = @ + 1] ELSE pubs
        BY <3>7 DEF WriteTerminal
      <4>3. PublishedOnce'
        <5> SUFFICES ASSUME NEW g \in Gens
                     PROVE  pubs'[g] = IF g \in slices' \cap settled' THEN 1 ELSE 0
          BY DEF PublishedOnce
        <5>1. pubs[g] = IF g \in slices \cap settled THEN 1 ELSE 0
          BY DEF PublishedOnce
        <5>2. CASE g = job[a].g /\ job[a].how = "slice"
          <6>1. pubs'[g] = pubs[g] + 1
            BY <4>2, <5>2 DEF TypeInv, GenTypes
          <6> QED BY <4>1, <4>2, <5>1, <5>2, <6>1
        <5>3. CASE ~(g = job[a].g /\ job[a].how = "slice")
          <6>1. pubs'[g] = pubs[g]
            BY <4>2, <5>3 DEF TypeInv, GenTypes
          <6> QED BY <4>1, <4>2, <5>1, <5>3, <6>1
        <5> QED BY <5>2, <5>3
      <4>4. ASSUME NEW b \in Slots, Settles(b)'
            PROVE  /\ job'[b].g \in 1..minted'
                   /\ job'[b].how = "slice" <=> job'[b].g \in slices'
                   /\ pc'[b] = "settle" => job'[b].g \notin settled'
                   /\ pc'[b] = "resend" /\ job'[b].how = "slice" /\ Holds(b)' =>
                         published'.gen = job'[b].g
        <5>1. CASE b = a
          BY <2>1, <3>1, <3>3, <3>4, <4>1, <4>2, <4>4, <5>1 DEF Settles, config
        <5>2. CASE b # a
          <6>1. Settles(b) /\ job'[b] = job[b] /\ pc'[b] = pc[b] /\ (Holds(b)' => Holds(b))
            BY <3>2, <4>4, <5>2
          <6>2. job[b].g # job[a].g
            BY <3>7, <5>2, <6>1 DEF MintedInv
          <6>3. ~Holds(b)'
            BY <2>1, <3>1, <3>7, <5>2, <6>1, HolderAlone DEF Settles, Settling
          <6> QED BY <3>1, <4>2, <6>1, <6>2, <6>3 DEF MintedInv
        <5> QED BY <5>1, <5>2
      <4>5. slices' \subseteq 1..minted' /\ settled' \subseteq 1..minted'
        BY <3>1, <4>1, <4>2 DEF MintedInv
      <4> QED BY <3>5, <4>3, <4>4, <4>5 DEF MintedInv
    <3> QED BY <2>5, <3>6, <3>7, ScriptGuards
  <2>6. ASSUME NEW a \in Slots, PublishSuccessor(a) \/ MarkDone(a) PROVE FALSE
    BY <2>1, <2>6 DEF PublishSuccessor, MarkDone, HoldInv
  <2> QED BY <1>2, <2>2, <2>3, <2>4, <2>5, <2>6, GenFrame
<1> QED BY <1>1, <1>2

-----------------------------------------------------------------------------
(* TypeOK: every reachable state of markers, records, handlers and         *)
(* sweepers is well typed; what an actor acts on names a record.           *)
THEOREM TypeCorrectness == Spec => []TypeOK
<1>1. Spec => []TypeInv
  BY TypeInit, TypeStep, PTL DEF Spec
<1> QED BY <1>1, TypeInvImpliesTypeOK, PTL

(* EmitsOnlySettled: no party sends a completion whose turn may be run     *)
(* again (done_flag of sweep_pending_completions and of the skip).         *)
THEOREM OnlySettledIsEmitted == Spec => []EmitsOnlySettled
<1>1. Spec => [](TypeInv /\ SettledInv)
  BY TypeInit, TypeStep, SettledInit, SettledStep, PTL DEF Spec
<1>2. SettledInv => EmitsOnlySettled
  BY DEF SettledInv, HandSettled, EmitsOnlySettled
<1> QED BY <1>1, <1>2, PTL

(* CauseObserved: a stored refusal was observed by a send of the stored    *)
(* generation (_UPDATE_COMPLETION_CAUSE_LUA).                              *)
THEOREM CauseIsObserved == Spec => []CauseObserved
<1>1. Spec => [](TypeInv /\ CauseInv)
  BY TypeInit, TypeStep, CauseInit, CauseStep, PTL DEF Spec
<1>2. TypeInv /\ CauseInv => CauseObserved
  BY DEF TypeInv, OutboxTypes, Rec, CauseInv, CauseObserved
<1> QED BY <1>1, <1>2, PTL

(* Accounted: with a lease store, no completion is lost in silence, by any *)
(* number of deliveries of the event, handlers and sweepers                *)
(* (_CLEAR_COMPLETION_LUA, _DEAD_LETTER_COMPLETION_LUA).                   *)
THEOREM NoCompletionLost ==
    ASSUME FALSE \notin Leased
    PROVE  Spec => []Accounted
<1>1. Spec => [](TypeInv /\ AccountedInv)
  BY TypeInit, TypeStep, AccountedInit, AccountedStep, PTL DEF Spec
<1>2. AccountedInv => Accounted
  BY DEF AccountedInv, Kept, Accounted
<1> QED BY <1>1, <1>2, PTL

(* SliceHasOneSuccessor: when one entry carries the event, a fenced slice  *)
(* is settled exactly when its successor was published, and published      *)
(* once, for any handlers, repetitions and lost replies                    *)
(* (_SETTLE_FENCED_AND_PUBLISH_LUA).                                       *)
THEOREM OneSuccessor ==
    ASSUME OneEntry
    PROVE  Spec => []SliceHasOneSuccessor
<1>1. Init => SliceInv
  BY DEF Init, SliceInv, HoldInv, MintedInv, PublishedOnce, Settles, Settling, Actors
<1>2. Spec => [](TypeInv /\ SliceInv)
  BY <1>1, TypeInit, TypeStep, SliceStep, PTL DEF Spec
<1>3. TypeInv /\ SliceInv => SliceHasOneSuccessor
  BY DEF TypeInv, RowTypes, SliceInv, PublishedOnce, SliceHasOneSuccessor
<1> QED BY <1>2, <1>3, PTL

(* FinishedNotRerun: when one entry carries the event, no handler that has *)
(* its lease begins an attempt within the retention window of a            *)
(* settlement, and none at all settles another outcome in it, with a lease *)
(* store or without (is_terminal, mark_done, settle_fenced).               *)
THEOREM FinishedIsNotRerun ==
    ASSUME OneEntry
    PROVE  Spec => FinishedNotRerun
<1> DEFINE Fresh == /\ \A a \in Slots : Starts(a) => sinceSettled = Retention
                    /\ settled' # settled => sinceSettled = Retention
<1>1. Spec => [](TypeInv /\ RerunInv)
  BY TypeInit, TypeStep, SettledInit, SettledStep, RerunInit, RerunStep, PTL DEF Spec
<1>2. TypeInv /\ RerunInv /\ [Next]_vars => [Fresh]_vars
  BY StarterFresh, SettlesFresh
<1>3. FinishedNotRerun <=> [][Fresh]_vars
  BY PTL DEF FinishedNotRerun
<1> QED BY <1>1, <1>2, <1>3, PTL DEF Spec

(* EffectNotRepeated: when one entry carries the event, no handler that    *)
(* has its lease begins an attempt while the side_effect marker of an      *)
(* earlier one is to live (side_effect_flag frames, _process_event).       *)
THEOREM EffectIsNotRepeated ==
    ASSUME OneEntry
    PROVE  Spec => EffectNotRepeated
<1> DEFINE Fresh == \A a \in Slots : Starts(a) => sinceEffect = IdemTTL
<1>1. Spec => [](TypeInv /\ RerunInv)
  BY TypeInit, TypeStep, SettledInit, SettledStep, RerunInit, RerunStep, PTL DEF Spec
<1>2. TypeInv /\ RerunInv /\ [Next]_vars => [Fresh]_vars
  BY StarterFresh
<1>3. EffectNotRepeated <=> [][Fresh]_vars
  BY PTL DEF EffectNotRepeated
<1> QED BY <1>1, <1>2, <1>3, PTL DEF Spec

=============================================================================
