---------------------- MODULE DeliveryLeaseRefinement ----------------------
(***************************************************************************)
(* DeliveryLease implements FencedDelivery, for every value of the         *)
(* constants.  The owner of the abstract delivery is the lease key and its *)
(* acting tokens are those of the handlers with authority, so each step is *)
(* classified by what it does to authority (AuthorityStays), to the key    *)
(* (KeyEnds, KeyStays) and to the durable outcome; the inductive invariant *)
(* IInv of DeliveryLeaseProofs supplies the guards of the abstract step.   *)
(***************************************************************************)
EXTENDS DeliveryLeaseProofs

(* A step that gives nobody authority: no acquisition is heard or not      *)
(* heard, and no renewal is confirmed.                                     *)
Granting == \E m \in net : AcquireGranted(m) \/ AcquireGrantedUnheard(m)
Confirming == \E m \in net : RenewConfirmed(m)

(* A lease object that is lost stays lost. *)
LEMMA LostStays ==
  ASSUME TypeOK, [Next]_vars, NEW t \in Tokens, lost[t]
  PROVE  lost'[t]
<1> USE DEF TypeOK, ObjectType
<1>1. CASE UNCHANGED lost
  BY <1>1
<1>2. ASSUME NEW m \in net, RenewRefused(m) PROVE lost'[t]
  BY <1>2 DEF RenewRefused
<1>3. ASSUME NEW m \in net, AckConfirmed(m) PROVE lost'[t]
  BY <1>3 DEF AckConfirmed
<1>4. ASSUME NEW h \in Handlers, LocalDeadline(h) PROVE lost'[t]
  BY <1>4 DEF LocalDeadline
<1>5. ASSUME NEW h \in Handlers, SettleRefused(h) PROVE lost'[t]
  BY <1>5 DEF SettleRefused
<1>6. ASSUME NEW c \in Consumers, MaintAck(c) PROVE lost'[t]
  BY <1>6 DEF MaintAck
<1>7. QED
  BY <1>1, <1>2, <1>3, <1>4, <1>5, <1>6
     DEF Next, ServerStep, HandlerStep, ConsumerStep, Lose, AcquireGranted,
         AcquireGrantedUnheard, AcquireRefused, RenewConfirmed, RenewUnheard,
         AckUnheard, Start, AcquireFails, RenewSend, RenewFails, CheckTerminal,
         SettleFenced, MarkUnfenced, Waive, Park, BuryPoison, Fail, AckSend, AckRefused, AckFails,
         SettleDelivery, Deregister, Exit, Deliver, Claim, Condemn, MaintBury,
         MaintSettle, Crash, Tick, objects, vars

(* A handler has authority after a step because it had it before, or       *)
(* because its acquisition is granted or its renewal confirmed.            *)
LEMMA AuthorityStays ==
  ASSUME TypeOK, OwnTokens, Requests, [Next]_vars, NEW g \in Handlers, Authority(g)'
  PROVE  /\ tok'[g] = tok[g]
         /\ \/ Authority(g)
            \/ \E m \in net : AcquireGranted(m) /\ m.h = g
            \/ \E m \in net : RenewConfirmed(m) /\ m.tok = tok[g]
<1>1. HolderBefore(g)
  BY HolderStays DEF Authority
<1>2. CASE pc[g] \in Holding
  <2>1. tok[g] \in Tokens
    BY <1>2 DEF TypeOK, SlotType, OwnTokens, Holding, Tokens
  <2>2. WindowAfter(tok[g])
    BY <1>2, WindowStays
  <2>3. ~lost[tok[g]]
    BY <1>1, <2>1, LostStays DEF Authority, HolderBefore
  <2>4. CASE Tick
    <3>1. left'[tok[g]] = Dec(left[tok[g]]) /\ left[tok[g]] \in Nat
      BY <2>4, <2>1, WindowNat DEF Tick, TypeOK, ObjectType
    <3>2. left[tok[g]] > 0
      BY <3>1, <1>1 DEF Dec, Authority, HolderBefore
    <3>3. QED
      BY <1>1, <1>2, <2>3, <3>2 DEF Authority, HolderBefore
  <2>5. CASE left'[tok[g]] = left[tok[g]]
    BY <1>1, <1>2, <2>3, <2>5 DEF Authority, HolderBefore
  <2>6. QED
    BY <1>1, <2>2, <2>4, <2>5 DEF WindowAfter, HolderBefore
<1>3. QED
  BY <1>1, <1>2 DEF HolderBefore

(* Unless it is granted, the lease key keeps its owner or loses it. *)
LEMMA KeyEnds ==
  ASSUME TypeOK, [Next]_vars, ~Granting
  PROVE  leaseTok' \in {leaseTok, 0}
<1> USE DEF valkey
<1>1. ASSUME NEW h \in Handlers, Exit(h) PROVE leaseTok' \in {leaseTok, 0}
  BY <1>1 DEF Exit, ReleaseScript
<1>2. ASSUME NEW h \in Handlers, SettleDelivery(h) PROVE leaseTok' \in {leaseTok, 0}
  BY <1>2 DEF SettleDelivery, DropKeys
<1>3. ASSUME NEW c \in Consumers, MaintSettle(c) PROVE leaseTok' \in {leaseTok, 0}
  BY <1>3 DEF MaintSettle, DropKeys
<1>4. ASSUME Tick PROVE leaseTok' \in {leaseTok, 0}
  BY <1>4 DEF Tick
<1>5. CASE UNCHANGED leaseTok
  BY <1>5
<1>6. QED
  BY ZenonT(40), <1>1, <1>2, <1>3, <1>4, <1>5
     DEF Granting, Next, ServerStep, HandlerStep, ConsumerStep, Lose, AcquireRefused,
         RenewConfirmed, RenewUnheard, RenewRefused, AckConfirmed, AckUnheard, Start,
         AcquireFails, RenewSend, RenewFails, LocalDeadline, CheckTerminal,
         SettleFenced, SettleRefused, MarkUnfenced, Waive, Park, BuryPoison, Fail, AckSend, AckRefused, AckFails,
         Deregister, Deliver, Claim, Condemn, MaintBury, MaintAck, Crash,
         ExtendLease, RemoveRow, vars

(* While the row is pending the key outlives the authority of its owner:   *)
(* no release, settlement or expiry takes it away.                         *)
LEMMA KeyStays ==
  ASSUME IInv, [Next]_vars, NEW g \in Handlers, Authority(g), entry = "pending"
  PROVE  leaseTok' = leaseTok
<1>1. /\ tok[g] \in Tokens /\ left[tok[g]] \in Nat
      /\ leaseTok = tok[g] /\ leaseLeft >= left[tok[g]] + Heartbeat
      /\ leaseLeft \in Nat
  BY SMTT(30), WindowNat, ConstantsAssumption
     DEF IInv, TypeOK, ValkeyType, SlotType, ObjectType, OwnTokens, Leased, Authority, Holding, Tokens
<1>2. leaseTok # 0 /\ ~(leaseLeft <= 1)
  BY <1>1, ConstantsAssumption DEF Tokens, Authority
<1> USE DEF valkey
<1>3. ASSUME NEW h \in Handlers, Exit(h) PROVE leaseTok' = leaseTok
  <2>1. tok[h] # tok[g]
    BY <1>1, <1>3 DEF Exit, IInv, OwnTokens, Authority, Holding, Tokens
  <2>2. QED
    BY <1>1, <1>3, <2>1 DEF Exit, ReleaseScript
<1>4. ASSUME NEW h \in Handlers, SettleDelivery(h) PROVE leaseTok' = leaseTok
  BY <1>4 DEF SettleDelivery, IInv, OutcomeFirst
<1>5. ASSUME NEW c \in Consumers, MaintSettle(c) PROVE leaseTok' = leaseTok
  BY <1>5 DEF MaintSettle, IInv, OutcomeFirst
<1>6. ASSUME Tick PROVE leaseTok' = leaseTok
  BY <1>2, <1>6 DEF Tick
<1>7. ASSUME NEW m \in net, AcquireGranted(m) \/ AcquireGrantedUnheard(m)
      PROVE  leaseTok' = leaseTok
  BY <1>2, <1>7 DEF AcquireGranted, AcquireGrantedUnheard, AcquireGuards
<1>8. CASE UNCHANGED leaseTok
  BY <1>8
<1>9. QED
  BY ZenonT(40), <1>3, <1>4, <1>5, <1>6, <1>7, <1>8
     DEF Next, ServerStep, HandlerStep, ConsumerStep, Lose, AcquireRefused,
         RenewConfirmed, RenewUnheard, RenewRefused, AckConfirmed, AckUnheard, Start,
         AcquireFails, RenewSend, RenewFails, LocalDeadline, CheckTerminal,
         SettleFenced, SettleRefused, MarkUnfenced, Waive, Park, BuryPoison, Fail, AckSend, AckRefused, AckFails,
         Deregister, Deliver, Claim, Condemn, MaintBury, MaintAck, Crash,
         ExtendLease, RemoveRow, vars

(* A step without an acquisition or a confirmed renewal takes authority    *)
(* away, if it changes it.                                                 *)
LEMMA ActingShrinks ==
  ASSUME IInv, [Next]_vars, ~Granting, ~Confirming
  PROVE  Acting' \subseteq Acting
<1>1. ASSUME NEW g \in Handlers, Authority(g)' PROVE tok'[g] = tok[g] /\ Authority(g)
  BY <1>1, AuthorityStays DEF IInv, Granting, Confirming
<1>2. QED
  BY <1>1 DEF Acting

(* Nobody acts on a pending row whose lease key is free. *)
LEMMA FreeKey ==
  ASSUME IInv, entry = "pending", leaseTok = 0
  PROVE  \A h \in Handlers : ~Authority(h)
  BY DEF IInv, OwnTokens, Leased, Authority, Holding

(* A step that leaves the row and the outcome alone, and gives nobody      *)
(* authority, is a lapse or no abstract step.                              *)
LEMMA LapseStep ==
  ASSUME IInv, [Next]_vars, ~Granting, ~Confirming, UNCHANGED <<class, entry, doneBy, buried, endings>>
  PROVE  Fence!Lapse
<1>1. Acting' \subseteq Acting
  BY ActingShrinks
<1>2. leaseTok' \in {leaseTok, 0}
  BY KeyEnds DEF IInv
<1>3. Owner' \in {Owner, {}}
  BY <1>2 DEF Owner
<1>4. entry = "pending" /\ Owner' # Owner => Acting = {}
  BY KeyStays DEF Owner, Acting
<1>5. QED
  BY <1>1, <1>3, <1>4 DEF Fence!Lapse

(* Whoever hears of it or not, an acquisition is an abstract grant. *)
LEMMA GrantStep ==
  ASSUME IInv, [Next]_vars, NEW m \in net, AcquireGranted(m) \/ AcquireGrantedUnheard(m)
  PROVE  Fence!Grant
<1>1. /\ entry = "pending" /\ leaseTok = 0
      /\ leaseTok' = m.tok
      /\ UNCHANGED <<class, entry, doneBy, buried, endings, left, lost, tok>>
  BY DEF AcquireGranted, AcquireGrantedUnheard, AcquireGuards, GrantLease, objects, slots
<1>2. m.tok \in Tokens /\ m.h \in Handlers
  BY MessageType
     DEF AcquireGranted, AcquireGrantedUnheard, IInv, TypeOK, NetType, Requests, RequestOK, Tokens
<1>3. \A g \in Handlers : ~Authority(g)
  BY <1>1, FreeKey
<1>4. \A g \in Handlers : Authority(g)' => tok'[g] = m.tok
  <2>1. CASE AcquireGrantedUnheard(m)
    BY <1>1, <1>3, <2>1 DEF AcquireGrantedUnheard, slots, Authority
  <2>2. CASE AcquireGranted(m)
    <3>1. tok[m.h] = m.tok
      BY <2>2 DEF AcquireGranted, IInv, Requests, RequestOK
    <3>2. \A g \in Handlers : g # m.h => pc'[g] = pc[g]
      BY <2>2 DEF AcquireGranted, IInv, TypeOK, SlotType
    <3>3. QED
      BY <1>1, <1>3, <3>1, <3>2 DEF Authority
  <2>3. QED
    BY <2>1, <2>2
<1>5. Owner = {} /\ Owner' = {m.tok}
  BY <1>1, <1>2 DEF Owner, Tokens
<1>6. Acting = {} /\ Acting' \subseteq {m.tok}
  BY <1>3, <1>4 DEF Acting
<1>7. QED
  BY <1>1, <1>2, <1>5, <1>6 DEF Fence!Grant

(* A confirmed renewal changes nobody's authority, or restores the owner's. *)
LEMMA ConfirmStep ==
  ASSUME IInv, [Next]_vars, NEW m \in net, RenewConfirmed(m)
  PROVE  Fence!Confirm \/ Fence!Lapse
<1>1. /\ entry = "pending" /\ leaseTok = m.tok
      /\ UNCHANGED <<class, entry, leaseTok, doneBy, buried, endings, lost, tok, pc>>
  BY DEF RenewConfirmed, RenewGuards, ExtendLease, slots
<1>2. m.tok # 0
  BY DEF RenewConfirmed, IInv, Requests, RequestOK
<1>3. Owner = {m.tok} /\ Owner' = Owner
  BY <1>1, <1>2 DEF Owner
<1>4. \A g \in Handlers : Authority(g) => tok[g] = m.tok
  BY <1>1 DEF IInv, Leased, Authority
<1>5. ASSUME NEW g \in Handlers, Authority(g)'
      PROVE  tok'[g] = m.tok
  <2>1. \/ Authority(g)
        \/ \E n \in net : AcquireGranted(n) /\ n.h = g
        \/ \E n \in net : RenewConfirmed(n) /\ n.tok = tok[g]
    BY <1>5, AuthorityStays DEF IInv
  <2>2. ASSUME NEW n \in net, AcquireGranted(n) PROVE FALSE
    BY <1>1, <1>2, <2>2 DEF AcquireGranted, AcquireGuards
  <2>3. ASSUME NEW n \in net, RenewConfirmed(n) PROVE n.tok = m.tok
    BY <1>1, <2>3 DEF RenewConfirmed, RenewGuards
  <2>4. QED
    BY <1>1, <1>4, <2>1, <2>2, <2>3
<1>6. CASE Acting' = {}
  BY <1>1, <1>3, <1>6 DEF Fence!Lapse
<1>7. CASE Acting' # {}
  <2>1. Acting' = {m.tok}
    BY <1>5, <1>7 DEF Acting
  <2>2. QED
    BY <1>1, <1>3, <2>1 DEF Fence!Confirm
<1>8. QED
  BY <1>6, <1>7

(* Authority is left alone by a step that changes no lease object and      *)
(* moves no handler in or out of the lease.                                *)
LEMMA ActingUnchanged ==
  ASSUME UNCHANGED <<left, lost, tok>>,
         \A g \in Handlers : pc'[g] \in Holding <=> pc[g] \in Holding
  PROVE  Acting' = Acting
  BY DEF Acting, Authority

(* An XACK that removes the row finds a durable outcome. *)
LEMMA RemoveStep ==
  ASSUME IInv, NEW m \in net, AckConfirmed(m) \/ AckUnheard(m), entry = "pending"
  PROVE  Fence!Remove
<1>1. /\ m.kind = "xack"
      /\ entry' = "settled"
      /\ UNCHANGED <<class, leaseTok, doneBy, buried, endings, left, tok>>
  BY DEF AckConfirmed, AckUnheard, RemoveRow, objects, slots
<1>2. doneBy # {} \/ buried \/ endings \cap {"marked", "waived"} # {}
  BY <1>1 DEF IInv, AckAfterOutcome, OutcomeFirst, Outcome, Done
<1>3. Owner' = Owner
  BY <1>1 DEF Owner
<1>4. lost' = lost
  <2>1. CASE AckUnheard(m)
    BY <2>1 DEF AckUnheard, objects
  <2>2. CASE AckConfirmed(m)
    BY <2>2, MessageType DEF AckConfirmed, IInv, TypeOK, ObjectType, NetType
  <2>3. QED
    BY <2>1, <2>2
<1>5. \A g \in Handlers : pc'[g] \in Holding <=> pc[g] \in Holding
  <2>1. CASE AckUnheard(m)
    BY <2>1 DEF AckUnheard, slots
  <2>2. CASE AckConfirmed(m)
    <3>1. pc[m.h] = "acking" /\ pc' = [pc EXCEPT ![m.h] = "acked"]
      BY <2>2 DEF AckConfirmed, Goto, IInv, Requests, RequestOK
    <3>2. QED
      BY <3>1 DEF Holding, IInv, TypeOK, SlotType
  <2>3. QED
    BY <2>1, <2>2
<1>6. Acting' = Acting
  BY <1>1, <1>4, <1>5, ActingUnchanged
<1>7. QED
  BY <1>1, <1>2, <1>3, <1>6 DEF Fence!Remove

(* Every step of the code is an abstract step or none. *)
LEMMA FenceStep ==
  ASSUME IInv, [Next]_vars
  PROVE  [Fence!Next]_(Fence!fence)
<1>1. CASE Granting
  BY <1>1, GrantStep DEF Granting, Fence!Next
<1>2. CASE Confirming
  BY <1>2, ConfirmStep DEF Confirming, Fence!Next
<1>3. CASE ~Granting /\ ~Confirming
  <2>1. CASE UNCHANGED <<class, entry, doneBy, buried, endings>>
    BY <1>3, <2>1, LapseStep DEF Fence!Next
  <2>2. ASSUME NEW m \in net, AckConfirmed(m) \/ AckUnheard(m) PROVE Fence!Next
    <3>1. CASE entry = "pending"
      BY <2>2, <3>1, RemoveStep DEF Fence!Next
    <3>2. CASE entry # "pending"
      <4>1. UNCHANGED <<class, entry, doneBy, buried, endings>>
        BY <2>2, <3>2 DEF AckConfirmed, AckUnheard, valkey
      <4>2. QED
        BY <1>3, <4>1, LapseStep DEF Fence!Next
    <3>3. QED
      BY <3>1, <3>2
  <2>3. ASSUME NEW c \in Consumers, Deliver(c) PROVE Fence!Next
    <3>1. Acting' = Acting
      BY <2>3, ActingUnchanged DEF Deliver, objects, slots
    <3>2. QED
      BY <2>3, <3>1 DEF Deliver, Owner, Fence!Deliver, Fence!Next
  <2>4. ASSUME NEW h \in Handlers, SettleFenced(h) PROVE Fence!Next
    <3>1. leaseTok = tok[h] /\ pc[h] = "turn"
      BY <2>4 DEF SettleFenced, SettleGuards
    <3>2. doneBy = {} /\ leaseTok # 0
      BY <3>1 DEF IInv, TurnIsFirst, OwnTokens
    <3>3. Owner = {leaseTok} /\ Owner' = Owner /\ doneBy' = Owner
      BY <2>4, <3>1, <3>2 DEF SettleFenced, Owner
    <3>4. Acting' \subseteq Acting
      BY <1>3, ActingShrinks
    <3>5. QED
      BY <2>4, <3>2, <3>3, <3>4 DEF SettleFenced, Fence!Settle, Fence!Next
  <2>5. ASSUME NEW h \in Handlers, MarkUnfenced(h) PROVE Fence!Next
    <3>1. Acting' \subseteq Acting /\ Owner' = Owner
      BY <1>3, <2>5, ActingShrinks DEF MarkUnfenced, Owner
    <3>2. QED
      BY <2>5, <3>1 DEF MarkUnfenced, Fence!Mark, Fence!Next
  <2>6. ASSUME NEW h \in Handlers, Waive(h) PROVE Fence!Next
    <3>1. \A g \in Handlers : pc'[g] \in Holding <=> pc[g] \in Holding
      BY <2>6 DEF Waive, Goto, Holding, IInv, TypeOK, SlotType
    <3>2. Acting' = Acting /\ Owner' = Owner
      BY <2>6, <3>1, ActingUnchanged DEF Waive, objects, Owner
    <3>3. QED
      BY <2>6, <3>2 DEF Waive, Fence!Waive, Fence!Next
  <2>7. ASSUME NEW h \in Handlers, Park(h) PROVE Fence!Next
    <3>1. leaseTok # 0
      BY <2>7 DEF Park, ParkGuards, IInv, OwnTokens
    <3>2. Owner # {} /\ Owner' = Owner
      BY <2>7, <3>1 DEF Park, Owner
    <3>3. Acting' \subseteq Acting
      BY <1>3, ActingShrinks
    <3>4. QED
      BY <2>7, <3>2, <3>3 DEF Park, ParkGuards, Done, Fence!Park, Fence!Next
  <2>8. ASSUME NEW h \in Handlers, BuryPoison(h) PROVE Fence!Next
    <3>1. CASE UNCHANGED buried
      <4>1. UNCHANGED <<class, entry, doneBy, endings>>
        BY <2>8 DEF BuryPoison
      <4>2. QED
        BY <1>3, <3>1, <4>1, LapseStep DEF Fence!Next
    <3>2. CASE ~UNCHANGED buried
      <4>1. /\ pc[h] = "running" /\ pc' = [pc EXCEPT ![h] = "buried"] /\ buried' = TRUE
            /\ UNCHANGED <<class, entry, leaseTok, doneBy, endings, left, lost, tok>>
        BY <2>8, <3>2 DEF BuryPoison, Goto, objects
      <4>2. \A g \in Handlers : pc'[g] \in Holding <=> pc[g] \in Holding
        BY <4>1 DEF Holding, IInv, TypeOK, SlotType
      <4>3. Acting' = Acting /\ Owner' = Owner
        BY <4>1, <4>2, ActingUnchanged DEF Owner
      <4>4. QED
        BY <4>1, <4>3 DEF Fence!Bury, Fence!Next
    <3>3. QED
      BY <3>1, <3>2
  <2>9. ASSUME NEW c \in Consumers, MaintBury(c) PROVE Fence!Next
    <3>1. UNCHANGED <<class, entry, leaseTok, doneBy, endings, left, lost, tok, pc>>
      BY <2>9 DEF MaintBury, objects, slots
    <3>2. Acting' = Acting /\ Owner' = Owner
      BY <3>1, ActingUnchanged DEF Owner
    <3>3. CASE UNCHANGED buried
      BY <1>3, <3>1, <3>3, LapseStep DEF Fence!Next
    <3>4. CASE buried' = TRUE
      BY <3>1, <3>2, <3>4 DEF Fence!Bury, Fence!Next
    <3>5. QED
      BY <2>9, <3>3, <3>4 DEF MaintBury
  <2>10. ASSUME NEW c \in Consumers, MaintAck(c) PROVE Fence!Next
    <3>1. CASE UNCHANGED <<class, entry, doneBy, buried, endings>>
      BY <1>3, <3>1, LapseStep DEF Fence!Next
    <3>2. CASE RemoveRow /\ UNCHANGED lost /\ entry = "pending"
      <4>1. doneBy # {} \/ buried \/ endings \cap {"marked", "waived"} # {}
        BY <2>10, <3>2 DEF MaintAck, IInv, OutcomeFirst, Outcome, Done
      <4>2. Acting' = Acting /\ Owner' = Owner
        BY <2>10, <3>2, ActingUnchanged DEF MaintAck, RemoveRow, slots, Owner
      <4>3. QED
        BY <2>10, <3>2, <4>1, <4>2 DEF MaintAck, RemoveRow, Fence!Remove, Fence!Next
    <3>3. QED
      BY <2>10, <3>1, <3>2 DEF MaintAck, valkey
  <2>11. QED
    BY ZenonT(40), <2>1, <2>2, <2>3, <2>4, <2>5, <2>6, <2>7, <2>8, <2>9, <2>10
       DEF Next, ServerStep, HandlerStep, ConsumerStep, Lose, AcquireRefused,
           AcquireGranted, AcquireGrantedUnheard, RenewConfirmed,
           RenewUnheard, RenewRefused, Start, AcquireFails, RenewSend, RenewFails,
           LocalDeadline, CheckTerminal, SettleRefused, Fail, AckSend, AckRefused,
           AckFails, SettleDelivery, Deregister, Exit, Claim, Condemn, MaintSettle,
           Crash, Tick, GrantLease, ExtendLease, DropKeys, ReleaseScript, valkey, vars
<1>4. QED
  BY <1>1, <1>2, <1>3

(* The lease scripts, heartbeats, handlers, dead-letter pass, network and  *)
(* clock implement the abstract fenced delivery, for every number of       *)
(* consumers, slots and tokens and every delay MaxDelay admits.            *)
THEOREM LeaseImplementsFence == Spec => ImplementsFence
<1>1. ASSUME Init PROVE Fence!Init
  <2>1. Owner = {}
    BY <1>1 DEF Init, Owner
  <2>2. \A h \in Handlers : ~Authority(h)
    BY <1>1 DEF Init, Authority, Holding
  <2>3. Acting = {}
    BY <2>2, Zenon DEF Acting
  <2>4. class \in {"poison", "plain", "backed"}
    BY <1>1, ConstantsAssumption DEF Init, ConstantsAssumption
  <2>5. QED
    BY <1>1, <2>1, <2>3, <2>4 DEF Init, Fence!Init
<1>2. IInv /\ [Next]_vars => [Fence!Next]_(Fence!fence)
  BY FenceStep
<1>3. QED
  BY <1>1, <1>2, Invariance, PTL DEF Spec, ImplementsFence, Fence!Spec

=============================================================================
