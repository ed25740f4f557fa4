------------------------ MODULE DeliveryLeaseProofs ------------------------
(***************************************************************************)
(* Invariance proofs for DeliveryLease, for every set of consumers and     *)
(* slots and every configuration ConstantsAssumption admits.               *)
(*                                                                         *)
(* IInv is the inductive invariant.  Its core is Leased: while a handler's *)
(* local window is open, its lease key lives on the server at least one    *)
(* heartbeat longer.  Two open windows would then need two lease keys,     *)
(* which gives OneAuthority; a settlement in the window is the owner's,    *)
(* which gives SettledOnce.  The other conjuncts say where the requests    *)
(* under way come from, that tokens are drawn once, and that an outcome    *)
(* precedes every acknowledgement.  There is one lemma per conjunct,       *)
(* preceded by what one step can do to the network, a window and the key.  *)
(***************************************************************************)
EXTENDS DeliveryLease, TLAPS

(* Nothing has happened to an entry that has not been delivered. *)
Untouched ==
    entry = "new" =>
        /\ net = {}
        /\ leaseTok = 0
        /\ \A h \in Handlers : pc[h] = "idle"
        /\ \A c \in Consumers : queued[c] = 0 /\ maint[c] = "off"

(* Tokens are drawn in order, and no two slots have the same one. *)
OwnTokens ==
    /\ \A h \in Handlers : tok[h] <= minted
    /\ \A h \in Handlers : pc[h] = "idle" <=> tok[h] = 0
    /\ \A g, h \in Handlers : tok[g] = tok[h] /\ tok[g] # 0 => g = h

(* No token is in use that has not been drawn. *)
DrawnTokens ==
    /\ leaseTok <= minted
    /\ \A c \in Consumers : held[c] <= minted
    /\ \A h \in Handlers : via[h] <= minted

(* ... nor in a request. *)
DrawnRequests == \A m \in net : m.tok <= minted

(* What a request that is under way says about its sender. *)
RequestOK(m) ==
    /\ m.kind # "xack" => m.tok # 0
    /\ m.kind = "acquire" /\ m.live => pc[m.h] = "acquiring" /\ tok[m.h] = m.tok
    /\ m.kind = "renew" /\ m.live => pc[m.h] \in Holding \cup {"exiting"} /\ tok[m.h] = m.tok
    /\ m.kind = "xack" /\ m.live => pc[m.h] = "acking" /\ via[m.h] = m.tok
    /\ m.age <= MaxDelay

(* It is so for every request. *)
Requests == \A m \in net : RequestOK(m)

(* A token is acquired with once, and a handler waits for one XACK. *)
Same(m, n) ==
    /\ m.kind = "acquire" /\ n.kind = "acquire" /\ m.tok = n.tok => m = n
    /\ /\ m.kind = "xack" /\ n.kind = "xack"
       /\ m.live /\ n.live /\ m.h = n.h
       => m = n

(* It is so for every pair of requests. *)
UniqueRequests == \A m, n \in net : Same(m, n)

(* A slot's token is in an acquire request only while the slot is          *)
(* acquiring, and until then in no other.                                  *)
RequestTokens ==
    \A m \in net : \A h \in Handlers :
        m.tok # 0 /\ tok[h] = m.tok => (m.kind = "acquire" <=> pc[h] = "acquiring")

(* ... nor is it registered, or used for an XACK. *)
FreshToken ==
    \A h \in Handlers : pc[h] = "acquiring" =>
        /\ \A c \in Consumers : held[c] # tok[h]
        /\ \A g \in Handlers : via[g] # tok[h]

(* An expired lease key has no owner. *)
LeaseKey == leaseTok # 0 <=> leaseLeft > 0

(* The local window of a handler ends one heartbeat before its lease key. *)
Leased ==
    entry = "pending" =>
        \A h \in Handlers :
            pc[h] \in Holding /\ left[tok[h]] > 0 =>
                leaseTok = tok[h] /\ leaseLeft >= left[tok[h]] + Heartbeat

(* m is an XACK under way that was sent under the lease of handler h. *)
AckUnder(m, h) ==
    /\ m.kind = "xack" /\ m.tok # 0
    /\ tok[h] = m.tok /\ pc[h] \in Holding

(* It was sent while at least one tick and one heartbeat of the lease were *)
(* left, so the lease is live when it arrives.                             *)
LeasedAck ==
    entry = "pending" =>
        \A m \in net : \A h \in Handlers :
            AckUnder(m, h) => leaseTok = m.tok /\ leaseLeft + m.age >= 1 + Heartbeat

(* A turn that still owns the lease key is the first to settle. *)
TurnIsFirst ==
    \A h \in Handlers : pc[h] = "turn" /\ leaseTok = tok[h] => doneBy = {}

(* Whoever may acknowledge has seen a durable outcome; a wait record was   *)
(* written with the removal of the row.                                    *)
OutcomeFirst ==
    /\ \A h \in Handlers :
         /\ pc[h] = "terminal" /\ ~lost[tok[h]] => Outcome
         /\ pc[h] \in {"buried", "acking", "acked"} => Outcome
         /\ pc[h] = "acked" => entry = "settled"
    /\ \A c \in Consumers :
         /\ maint[c] \in {"buried", "acked"} => Outcome
         /\ maint[c] = "acked" => entry = "settled"
    /\ entry = "settled" => Outcome
    /\ "parked" \in endings => entry = "settled"

(* No XACK is under way before there is an outcome. *)
AckAfterOutcome == \A m \in net : m.kind = "xack" => Outcome

(* The inductive invariant. *)
IInv ==
    /\ TypeOK
    /\ Untouched /\ OwnTokens /\ DrawnTokens /\ DrawnRequests
    /\ Requests /\ UniqueRequests /\ RequestTokens /\ FreshToken
    /\ LeaseKey /\ Leased /\ LeasedAck
    /\ TurnIsFirst /\ OutcomeFirst /\ AckAfterOutcome
    /\ OneAuthority /\ SettledOnce

(* What a step has done if slot g holds a lease after it. *)
HolderBefore(g) ==
    /\ tok'[g] = tok[g]
    /\ pc[g] \in Holding \/ \E m \in net : AcquireGranted(m) /\ m.h = g

(* What a step does to the lease key of a handler that goes on holding it. *)
LeaseAfter == Tick \/ (leaseTok' = leaseTok /\ leaseLeft' >= leaseLeft)

(* What a step does to the local window of token t. *)
WindowAfter(t) ==
    Tick \/ left'[t] = left[t] \/ \E m \in net : RenewConfirmed(m) /\ m.tok = t

(* What a step does to the token of slot g. *)
SlotTokenAfter(g) ==
    \/ tok'[g] = 0
    \/ tok'[g] = tok[g] /\ (pc'[g] = "acquiring" <=> pc[g] = "acquiring")
    \/ Start(g)
    \/ tok'[g] = tok[g] /\ \E m \in net : AcquireGranted(m) /\ m.h = g

(* BudgetNeverExtended, of one step. *)
Inherited == gen # 0 /\ gen' # 0 => budget' <= budget

-----------------------------------------------------------------------------
(* Messages.                                                               *)

(* The local window is what the reserve of one heartbeat leaves of the lease. *)
LEMMA WindowNat == Window \in Nat /\ Window > 0 /\ LeaseTTL = Window + Heartbeat
  BY ConstantsAssumption DEF Window

(* The fields of a request. *)
LEMMA RequestType ==
  ASSUME NEW k \in {"acquire", "renew", "xack"}, NEW h \in Handlers,
         NEW t \in 0..MaxToken, NEW g \in Nat
  PROVE  /\ Request(k, h, t, g) \in Message
         /\ Request(k, h, t, g).kind = k /\ Request(k, h, t, g).h = h
         /\ Request(k, h, t, g).tok = t /\ Request(k, h, t, g).gen = g
         /\ Request(k, h, t, g).age = 0 /\ Request(k, h, t, g).live = TRUE
  BY DEF Request, Message

(* The types of a message's fields. *)
LEMMA MessageType ==
  ASSUME NEW m \in Message
  PROVE  /\ m.kind \in {"acquire", "renew", "xack"} /\ m.h \in Handlers
         /\ m.tok \in 0..MaxToken /\ m.gen \in Nat /\ m.age \in Nat /\ m.live \in BOOLEAN
  BY DEF Message

(* k is a request n of before the step: not younger, unless its sender has *)
(* time left to repeat it, and without a caller that n did not have.       *)
From(k, n) ==
    /\ k \in Message
    /\ k.kind = n.kind /\ k.h = n.h /\ k.tok = n.tok /\ k.gen = n.gen
    /\ k.live => n.live
    /\ k.age >= n.age \/ (n.kind # "acquire" /\ n.tok # 0 => left[n.tok] > 0)

(* A request that is untouched by the step comes from itself. *)
LEMMA FromItself ==
  ASSUME NEW k \in Message
  PROVE  From(k, k)
<1>1. k.age \in Nat
  BY MessageType
<1>2. k.age >= k.age
  BY <1>1
<1> QED
  BY <1>2, Zenon DEF From

(* k comes from n when the requests in S lose their caller. *)
Cut(k, n, S) ==
    /\ From(k, n) /\ k.age = n.age
    /\ IF n \in S THEN k = Copy(n, n.age, FALSE) /\ ~k.live ELSE k = n

(* k comes from n when the reply to m is lost. *)
Resent(k, n, m) ==
    /\ From(k, n)
    /\ \/ k = n /\ n # m
       \/ /\ n = m /\ k = Copy(m, 0, TRUE) /\ k.age = 0
          /\ m.kind # "acquire" /\ m.tok # 0 => left[m.tok] > 0

(* k is n one tick later. *)
Older(k, n) ==
    /\ From(k, n) /\ k = Copy(n, n.age + 1, n.live)
    /\ k.age = n.age + 1 /\ n.age < MaxDelay

(* Abandoning the requests in S creates none, and none of S stays live. *)
LEMMA AbandonFacts ==
  ASSUME NetType, NEW S, NEW k \in Abandon(S)
  PROVE  \E n \in net : Cut(k, n, S)
<1>1. CASE k \in net \ S
  BY <1>1, FromItself DEF NetType, Cut
<1>2. CASE k \in {Copy(n, n.age, FALSE) : n \in S \cap net}
  <2>1. PICK n \in S \cap net : k = Copy(n, n.age, FALSE)
    BY <1>2
  <2>2. n \in Message /\ n.age \in Nat
    BY MessageType DEF NetType
  <2>3. /\ k \in Message /\ k.kind = n.kind /\ k.h = n.h /\ k.tok = n.tok
        /\ k.gen = n.gen /\ k.age = n.age /\ ~k.live
    BY <2>1, <2>2 DEF Copy, Message
  <2>4. k.age >= n.age
    BY <2>2, <2>3
  <2> QED
    BY <2>1, <2>3, <2>4, Zenon DEF Cut, From
<1> QED
  BY <1>1, <1>2 DEF Abandon

(* A lost reply adds at most a fresh copy of the request. *)
LEMMA ReplyLostFacts ==
  ASSUME NetType, NEW m \in net, ReplyLost(m), NEW k \in net'
  PROVE  \E n \in net : Resent(k, n, m)
<1>1. CASE k \in net \ {m}
  BY <1>1, FromItself DEF NetType, Resent
<1>2. CASE MaySendAgain(m) /\ k = Copy(m, 0, TRUE)
  <2>1. m \in Message
    BY DEF NetType
  <2>2. From(k, m) /\ k.age = 0
    BY <1>2, <2>1 DEF From, MaySendAgain, Copy, Message
  <2> QED
    BY <1>2, <2>2 DEF MaySendAgain, Resent
<1> QED
  BY <1>1, <1>2 DEF ReplyLost

(* Time changes the age of a request and nothing else. *)
LEMMA TickFacts ==
  ASSUME NetType, Tick, NEW k \in net'
  PROVE  \E n \in net : Older(k, n)
<1>1. PICK n \in net : k = Copy(n, n.age + 1, n.live)
  BY DEF Tick
<1>2. n \in Message /\ n.age + 1 \in Nat /\ n.live \in BOOLEAN
  BY MessageType DEF NetType
<1>3. /\ k \in Message /\ k.kind = n.kind /\ k.h = n.h /\ k.tok = n.tok
      /\ k.gen = n.gen /\ k.live = n.live /\ k.age = n.age + 1
  BY <1>1, <1>2 DEF Copy, Message
<1>4. k.age >= n.age /\ n.age < MaxDelay
  BY <1>3, MessageType DEF NetType, Tick
<1> QED
  BY <1>1, <1>3, <1>4, Zenon DEF Older, From

-----------------------------------------------------------------------------
(* Types.                                                                  *)

(* Every step preserves the types of Valkey's data. *)
LEMMA ValkeyTypeStep ==
  ASSUME TypeOK, OwnTokens, [Next]_vars
  PROVE  ValkeyType'
<1> USE ConstantsAssumption
<1>m. \A m \in net : /\ m.h \in Handlers /\ m.tok \in 0..MaxToken /\ m.gen \in Nat
                    /\ m.kind \in {"acquire", "renew", "xack"}
  BY MessageType DEF TypeOK, NetType
<1>t. \A h \in Handlers : pc[h] # "idle" => tok[h] \in Tokens
  BY DEF TypeOK, SlotType, OwnTokens, Tokens
<1> USE <1>m, <1>t DEF TypeOK, ValkeyType, SlotType, Tokens, valkey
<1>1. CASE UNCHANGED <<entry, pel, delivered, leaseTok, leaseLeft, gen, budget, doneBy, buried, endings>>
  BY <1>1
<1>2. ASSUME NEW m \in net, AcquireGranted(m) PROVE ValkeyType'
  BY <1>2 DEF AcquireGranted, AcquireGuards, GrantLease
<1>3. ASSUME NEW m \in net, AcquireGrantedUnheard(m) PROVE ValkeyType'
  BY <1>3 DEF AcquireGrantedUnheard, AcquireGuards, GrantLease
<1>4. ASSUME NEW m \in net, RenewConfirmed(m) PROVE ValkeyType'
  BY <1>4 DEF RenewConfirmed, RenewGuards, ExtendLease, EndRenewal
<1>5. ASSUME NEW m \in net, RenewUnheard(m) PROVE ValkeyType'
  BY <1>5 DEF RenewUnheard, RenewGuards, ExtendLease
<1>6. ASSUME NEW m \in net, AckConfirmed(m) PROVE ValkeyType'
  BY <1>6 DEF AckConfirmed, RemoveRow, Unlock, Goto
<1>7. ASSUME NEW m \in net, AckUnheard(m) PROVE ValkeyType'
  BY <1>7 DEF AckUnheard, RemoveRow
<1>8. ASSUME NEW h \in Handlers, SettleFenced(h) PROVE ValkeyType'
  BY <1>8 DEF SettleFenced, SettleGuards, Goto
<1>mark. ASSUME NEW h \in Handlers, MarkUnfenced(h) PROVE ValkeyType'
  BY <1>mark DEF MarkUnfenced, Endings
<1>waive. ASSUME NEW h \in Handlers, Waive(h) PROVE ValkeyType'
  BY <1>waive DEF Waive, Endings
<1>park. ASSUME NEW h \in Handlers, Park(h) PROVE ValkeyType'
  BY <1>park DEF Park, Endings
<1>9. ASSUME NEW h \in Handlers, BuryPoison(h) PROVE ValkeyType'
  BY <1>9 DEF BuryPoison, Goto
<1>10. ASSUME NEW h \in Handlers, SettleDelivery(h) PROVE ValkeyType'
  <2>1. CASE DropKeys
    BY <1>10, <2>1 DEF SettleDelivery, DropKeys
  <2>2. CASE UNCHANGED valkey
    BY <2>2
  <2> QED
    BY <1>10, <2>1, <2>2 DEF SettleDelivery
<1>11. ASSUME NEW h \in Handlers, Exit(h) PROVE ValkeyType'
  <2>1. CASE ReleaseScript(tok[h])
    BY <1>11, <2>1 DEF Exit, ReleaseScript
  <2>2. CASE UNCHANGED valkey
    BY <2>2
  <2> QED
    BY <1>11, <2>1, <2>2 DEF Exit
<1>12. ASSUME NEW h \in Handlers, Deregister(h) PROVE ValkeyType'
  BY <1>12 DEF Deregister, valkey
<1>13. ASSUME NEW c \in Consumers, Deliver(c) PROVE ValkeyType'
  BY <1>13 DEF Deliver
<1>14. ASSUME NEW c \in Consumers, Claim(c) PROVE ValkeyType'
  BY <1>14 DEF Claim
<1>15. ASSUME NEW c \in Consumers, MaintBury(c) PROVE ValkeyType'
  BY <1>15 DEF MaintBury, SetMaint, DeadLetterRefusal
<1>16. ASSUME NEW c \in Consumers, MaintAck(c) PROVE ValkeyType'
  BY <1>16 DEF MaintAck, SetMaint, RemoveRow, InWindow
<1>17. ASSUME NEW c \in Consumers, MaintSettle(c) PROVE ValkeyType'
  <2>1. CASE DropKeys
    BY <1>17, <2>1 DEF MaintSettle, DropKeys
  <2>2. CASE UNCHANGED valkey
    BY <2>2
  <2> QED
    BY <1>17, <2>1, <2>2 DEF MaintSettle
<1>18. ASSUME Tick PROVE ValkeyType'
  BY <1>18 DEF Tick, Dec
<1>19. QED
  BY <1>mark, <1>waive, <1>park, <1>1, <1>2, <1>3, <1>4, <1>5, <1>6, <1>7, <1>8, <1>9, <1>10, <1>11, <1>12, <1>13,
     <1>14, <1>15, <1>16, <1>17, <1>18
     DEF Next, ServerStep, HandlerStep, ConsumerStep, Lose, AcquireRefused,
         RenewRefused, Start, AcquireFails, RenewSend, RenewFails, LocalDeadline,
         CheckTerminal, SettleRefused, Fail, AckSend, AckRefused, AckFails, Condemn,
         Crash, objects, slots, procs, vars

(* ... of the requests under way, *)
LEMMA NetTypeStep ==
  ASSUME TypeOK, [Next]_vars
  PROVE  NetType'
<1> USE ConstantsAssumption
<1> USE DEF TypeOK, NetType, From, Cut, Resent, Older
<1>1. CASE UNCHANGED <<net>>
  BY <1>1
<1>2. ASSUME NEW m \in net, Lose(m) PROVE NetType'
  BY <1>2 DEF Lose
<1>3. ASSUME NEW m \in net, AcquireGranted(m) PROVE NetType'
  BY <1>3 DEF AcquireGranted
<1>4. ASSUME NEW m \in net, AcquireGrantedUnheard(m) PROVE NetType'
  BY <1>4, ReplyLostFacts DEF AcquireGrantedUnheard
<1>5. ASSUME NEW m \in net, AcquireRefused(m) PROVE NetType'
  BY <1>5 DEF AcquireRefused
<1>6. ASSUME NEW m \in net, RenewConfirmed(m) PROVE NetType'
  BY <1>6 DEF RenewConfirmed
<1>7. ASSUME NEW m \in net, RenewUnheard(m) PROVE NetType'
  BY <1>7, ReplyLostFacts DEF RenewUnheard
<1>8. ASSUME NEW m \in net, RenewRefused(m) PROVE NetType'
  BY <1>8 DEF RenewRefused
<1>9. ASSUME NEW m \in net, AckConfirmed(m) PROVE NetType'
  BY <1>9 DEF AckConfirmed
<1>10. ASSUME NEW m \in net, AckUnheard(m) PROVE NetType'
  BY <1>10, ReplyLostFacts DEF AckUnheard
<1>11. ASSUME NEW h \in Handlers, Start(h) PROVE NetType'
  <2>1. minted + 1 \in 0..MaxToken /\ 0 \in Nat
    BY <1>11 DEF Start, ObjectType
  <2>2. Request("acquire", h, minted + 1, 0) \in Message
    BY <2>1 DEF Request, Message
  <2> QED
    BY <1>11, <2>2 DEF Start
<1>12. ASSUME NEW h \in Handlers, AcquireFails(h) PROVE NetType'
  BY <1>12, AbandonFacts DEF AcquireFails
<1>13. ASSUME NEW h \in Handlers, RenewSend(h) PROVE NetType'
  <2>1. tok[h] \in 0..MaxToken /\ ownGen[h] \in Nat
    BY <1>13 DEF SlotType
  <2>2. Request("renew", h, tok[h], ownGen[h]) \in Message
    BY <2>1 DEF Request, Message
  <2> QED
    BY <1>13, <2>2 DEF RenewSend
<1>14. ASSUME NEW h \in Handlers, RenewFails(h) PROVE NetType'
  BY <1>14, AbandonFacts DEF RenewFails
<1>15. ASSUME NEW h \in Handlers, Fail(h) PROVE NetType'
  BY <1>15, AbandonFacts DEF Fail
<1>16. ASSUME NEW h \in Handlers, AckSend(h) PROVE NetType'
  <2>1. AckLease(h) \in 0..MaxToken /\ 0 \in Nat
    BY <1>16 DEF AckSend, AckLease, SlotType, ProcType
  <2>2. Request("xack", h, AckLease(h), 0) \in Message
    BY <2>1 DEF Request, Message
  <2> QED
    BY <1>16, <2>2 DEF AckSend
<1>17. ASSUME NEW h \in Handlers, AckFails(h) PROVE NetType'
  BY <1>17, AbandonFacts DEF AckFails
<1>18. ASSUME NEW h \in Handlers, Exit(h) PROVE NetType'
  BY <1>18 DEF Exit
<1>19. ASSUME NEW h \in Handlers, Deregister(h) PROVE NetType'
  BY <1>19, AbandonFacts DEF Deregister
<1>20. ASSUME NEW c \in Consumers, Crash(c) PROVE NetType'
  BY <1>20, AbandonFacts DEF Crash
<1>21. ASSUME Tick PROVE NetType'
  BY <1>21, TickFacts DEF Tick
<1>22. QED
  BY <1>1, <1>2, <1>3, <1>4, <1>5, <1>6, <1>7, <1>8, <1>9, <1>10, <1>11, <1>12,
     <1>13, <1>14, <1>15, <1>16, <1>17, <1>18, <1>19, <1>20, <1>21
     DEF Next, ServerStep, HandlerStep, ConsumerStep, LocalDeadline,
         CheckTerminal, SettleFenced, MarkUnfenced, Waive, Park, SettleRefused, BuryPoison, AckRefused,
         SettleDelivery, Deliver, Claim, Condemn, MaintBury, MaintAck, MaintSettle,
         RemoveRow, DropKeys, valkey, objects, slots, procs, vars

(* ... of the lease objects, *)
LEMMA ObjectTypeStep ==
  ASSUME TypeOK, OwnTokens, Requests, [Next]_vars
  PROVE  ObjectType'
<1> USE ConstantsAssumption
<1>m. \A m \in net : /\ m.h \in Handlers /\ m.tok \in 0..MaxToken /\ m.gen \in Nat
                    /\ m.kind \in {"acquire", "renew", "xack"}
  BY MessageType DEF TypeOK, NetType
<1>t. \A h \in Handlers : pc[h] # "idle" => tok[h] \in Tokens
  BY DEF TypeOK, SlotType, OwnTokens, Tokens
<1>w. Window \in Nat /\ Window > 0
  BY WindowNat
<1> USE <1>m, <1>w, <1>t DEF TypeOK, NetType, ObjectType, SlotType, ProcType, Tokens, objects, Requests, RequestOK, Holding
<1>1. CASE UNCHANGED <<minted, left, renewed, lost, lock>>
  BY <1>1
<1>2. ASSUME NEW m \in net, RenewConfirmed(m) PROVE ObjectType'
  <2>1. /\ left' = [left EXCEPT ![m.tok] = renewed[m.tok]]
        /\ lock' = [lock EXCEPT ![m.tok] = "free"]
        /\ renewed' = [renewed EXCEPT ![m.tok] = 0]
        /\ UNCHANGED <<minted, lost>>
    BY <1>2 DEF RenewConfirmed, EndRenewal
  <2>2. left' \in [Tokens -> 0..Window]
    BY ONLY <2>1, ObjectType DEF ObjectType
  <2>0. 0 \in 0..Window
    BY ONLY <1>w
  <2>3. renewed' \in [Tokens -> 0..Window]
    BY ONLY <2>0, <2>1, ObjectType, Zenon DEF ObjectType
  <2>4. lock' \in [Tokens -> {"free", "renew", "ack"}]
    BY ONLY <2>1, ObjectType DEF ObjectType
  <2> QED
    BY ONLY <2>1, <2>2, <2>3, <2>4, ObjectType DEF ObjectType
<1>3. ASSUME NEW m \in net, RenewRefused(m) PROVE ObjectType'
  BY <1>3 DEF RenewRefused, EndRenewal
<1>4. ASSUME NEW m \in net, AckConfirmed(m) PROVE ObjectType'
  <2>1. CASE m.tok = 0
    BY <1>4, <2>1 DEF AckConfirmed
  <2>2. CASE m.tok # 0
    <3>1. m.tok \in Tokens
      BY <2>2
    <3>2. lock' = [lock EXCEPT ![m.tok] = "free"]
      BY <1>4, <2>2 DEF AckConfirmed, Unlock
    <3>3. lost' = [lost EXCEPT ![m.tok] = lost[m.tok] \/ entry # "pending"]
      BY <1>4, <2>2 DEF AckConfirmed
    <3>4. lost' \in [Tokens -> BOOLEAN]
      BY <3>1, <3>3, Zenon
    <3> QED
      BY <1>4, <3>1, <3>2, <3>4 DEF AckConfirmed
  <2> QED
    BY <2>1, <2>2
<1>5. ASSUME NEW h \in Handlers, Start(h) PROVE ObjectType'
  BY SMTT(30), <1>5 DEF Start
<1>6. ASSUME NEW h \in Handlers, RenewSend(h) PROVE ObjectType'
  BY SMTT(30), <1>6 DEF RenewSend, Renewing
<1>7. ASSUME NEW h \in Handlers, RenewFails(h) PROVE ObjectType'
  BY <1>7 DEF RenewFails, EndRenewal
<1>8. ASSUME NEW h \in Handlers, LocalDeadline(h) PROVE ObjectType'
  BY <1>8 DEF LocalDeadline, Renewing
<1>9. ASSUME NEW h \in Handlers, SettleRefused(h) PROVE ObjectType'
  BY <1>9 DEF SettleRefused, SettleGuards, Goto
<1>10. ASSUME NEW h \in Handlers, Fail(h) PROVE ObjectType'
  BY <1>10 DEF Fail, Goto
<1>11. ASSUME NEW h \in Handlers, AckSend(h) PROVE ObjectType'
  BY <1>11 DEF AckSend, MayEnterAck, AckLease, Acking, InWindow
<1>12. ASSUME NEW h \in Handlers, AckFails(h) PROVE ObjectType'
  BY <1>12 DEF AckFails, Unlock
<1>13. ASSUME NEW h \in Handlers, Exit(h) PROVE ObjectType'
  BY <1>13 DEF Exit, objects
<1>14. ASSUME NEW h \in Handlers, Deregister(h) PROVE ObjectType'
  BY <1>14 DEF Deregister, Unlock, Goto
<1>15. ASSUME NEW c \in Consumers, MaintAck(c) PROVE ObjectType'
  BY ZenonT(40), <1>15 DEF MaintAck, SetMaint, RemoveRow, InWindow
<1>16. ASSUME Tick PROVE ObjectType'
  BY <1>16 DEF Tick, Dec
<1>17. QED
  BY <1>1, <1>2, <1>3, <1>4, <1>5, <1>6, <1>7, <1>8, <1>9, <1>10, <1>11, <1>12,
     <1>13, <1>14, <1>15, <1>16
     DEF Next, ServerStep, HandlerStep, ConsumerStep, Lose, AcquireGranted,
         AcquireGrantedUnheard, AcquireRefused, RenewUnheard, AckUnheard,
         AcquireFails, CheckTerminal, SettleFenced, MarkUnfenced, Waive, Park, BuryPoison, AckRefused,
         SettleDelivery, Deliver, Claim, Condemn, MaintBury, MaintSettle, Crash,
         GrantLease, ExtendLease, RemoveRow, DropKeys, valkey, slots, procs, vars

(* ... of the handlers, *)
LEMMA SlotTypeStep ==
  ASSUME TypeOK, [Next]_vars
  PROVE  SlotType'
<1> USE ConstantsAssumption
<1>m. \A m \in net : /\ m.h \in Handlers /\ m.tok \in 0..MaxToken /\ m.gen \in Nat
                    /\ m.kind \in {"acquire", "renew", "xack"}
  BY MessageType DEF TypeOK, NetType
<1> USE <1>m DEF TypeOK, ValkeyType, ObjectType, SlotType, ProcType, Tokens, Phases, Holding, slots
<1>1. CASE UNCHANGED <<pc, tok, ownGen, via>>
  BY <1>1
<1>2. ASSUME NEW m \in net, AcquireGranted(m) PROVE SlotType'
  <2>1. gen' \in Nat /\ m.h \in Handlers
    BY <1>2 DEF AcquireGranted, GrantLease
  <2> QED
    BY <1>2, <2>1 DEF AcquireGranted
<1>3. ASSUME NEW m \in net, AcquireRefused(m) PROVE SlotType'
  BY <1>3 DEF AcquireRefused, LeaveUnleased
<1>4. ASSUME NEW m \in net, AckConfirmed(m) PROVE SlotType'
  BY <1>4 DEF AckConfirmed, RemoveRow, Unlock, Goto
<1>5. ASSUME NEW h \in Handlers, Start(h) PROVE SlotType'
  BY <1>5 DEF Start
<1>6. ASSUME NEW h \in Handlers, AcquireFails(h) PROVE SlotType'
  BY <1>6 DEF AcquireFails, LeaveUnleased
<1>7. ASSUME NEW h \in Handlers, CheckTerminal(h) PROVE SlotType'
  BY <1>7 DEF CheckTerminal, Goto
<1>8. ASSUME NEW h \in Handlers, SettleFenced(h) PROVE SlotType'
  BY <1>8 DEF SettleFenced, SettleGuards, Goto
<1>mark. ASSUME NEW h \in Handlers, MarkUnfenced(h) PROVE SlotType'
  BY <1>mark DEF MarkUnfenced, Goto
<1>waive. ASSUME NEW h \in Handlers, Waive(h) PROVE SlotType'
  BY <1>waive DEF Waive, Goto
<1>park. ASSUME NEW h \in Handlers, Park(h) PROVE SlotType'
  BY <1>park DEF Park, ParkGuards, Goto
<1>9. ASSUME NEW h \in Handlers, SettleRefused(h) PROVE SlotType'
  BY <1>9 DEF SettleRefused, SettleGuards, Goto
<1>10. ASSUME NEW h \in Handlers, BuryPoison(h) PROVE SlotType'
  BY <1>10 DEF BuryPoison, Goto
<1>11. ASSUME NEW h \in Handlers, Fail(h) PROVE SlotType'
  BY <1>11 DEF Fail, Goto
<1>12. ASSUME NEW h \in Handlers, AckSend(h) PROVE SlotType'
  BY <1>12 DEF AckSend, MayEnterAck, AckLease, Acking, InWindow
<1>13. ASSUME NEW h \in Handlers, AckRefused(h) PROVE SlotType'
  BY <1>13 DEF AckRefused, MayEnterAck, AckLease, Acking, InWindow, Goto
<1>14. ASSUME NEW h \in Handlers, SettleDelivery(h) PROVE SlotType'
  BY <1>14 DEF SettleDelivery, DropKeys, Goto
<1>15. ASSUME NEW h \in Handlers, Exit(h) PROVE SlotType'
  BY <1>15 DEF Exit, ReleaseScript, Goto
<1>16. ASSUME NEW h \in Handlers, Deregister(h) PROVE SlotType'
  BY <1>16 DEF Deregister, Unlock, Goto
<1>17. ASSUME NEW c \in Consumers, Crash(c) PROVE SlotType'
  BY <1>17 DEF Crash
<1>18. QED
  BY <1>mark, <1>waive, <1>park, <1>1, <1>2, <1>3, <1>4, <1>5, <1>6, <1>7, <1>8, <1>9, <1>10, <1>11, <1>12,
     <1>13, <1>14, <1>15, <1>16, <1>17
     DEF Next, ServerStep, HandlerStep, ConsumerStep, Lose,
         AcquireGrantedUnheard, RenewConfirmed, RenewUnheard, RenewRefused,
         AckUnheard, RenewSend, RenewFails, LocalDeadline, AckFails, Deliver, Claim,
         Condemn, MaintBury, MaintAck, MaintSettle, Tick, GrantLease, ExtendLease,
         RemoveRow, DropKeys, valkey, objects, procs, vars

(* ... and of the processes. *)
LEMMA ProcTypeStep ==
  ASSUME TypeOK, [Next]_vars
  PROVE  ProcType'
<1> USE ConstantsAssumption
<1>m. \A m \in net : /\ m.h \in Handlers /\ m.tok \in 0..MaxToken /\ m.gen \in Nat
                    /\ m.kind \in {"acquire", "renew", "xack"}
  BY MessageType DEF TypeOK, NetType
<1> USE <1>m DEF TypeOK, ProcType, procs
<1>1. CASE UNCHANGED <<queued, inflight, held, maint>>
  BY <1>1
<1>2. ASSUME NEW m \in net, AcquireGranted(m) PROVE ProcType'
  BY <1>2 DEF AcquireGranted, AcquireGuards, GrantLease
<1>3. ASSUME NEW m \in net, AcquireRefused(m) PROVE ProcType'
  BY <1>3 DEF AcquireRefused, LeaveUnleased
<1>4. ASSUME NEW h \in Handlers, Start(h) PROVE ProcType'
  BY <1>4 DEF Start
<1>5. ASSUME NEW h \in Handlers, AcquireFails(h) PROVE ProcType'
  BY <1>5 DEF AcquireFails, LeaveUnleased
<1>6. ASSUME NEW h \in Handlers, Exit(h) PROVE ProcType'
  BY <1>6 DEF Exit, ReleaseScript, Goto
<1>7. ASSUME NEW h \in Handlers, Deregister(h) PROVE ProcType'
  BY <1>7 DEF Deregister, Unlock, Goto
<1>8. ASSUME NEW c \in Consumers, Deliver(c) PROVE ProcType'
  BY <1>8 DEF Deliver
<1>9. ASSUME NEW c \in Consumers, Claim(c) PROVE ProcType'
  BY <1>9 DEF Claim
<1>10. ASSUME NEW c \in Consumers, Condemn(c) PROVE ProcType'
  BY <1>10 DEF Condemn, SetMaint
<1>11. ASSUME NEW c \in Consumers, MaintBury(c) PROVE ProcType'
  BY <1>11 DEF MaintBury, SetMaint, DeadLetterRefusal
<1>12. ASSUME NEW c \in Consumers, MaintAck(c) PROVE ProcType'
  BY <1>12 DEF MaintAck, SetMaint, RemoveRow, InWindow
<1>13. ASSUME NEW c \in Consumers, MaintSettle(c) PROVE ProcType'
  BY <1>13 DEF MaintSettle, SetMaint, DropKeys
<1>14. ASSUME NEW c \in Consumers, Crash(c) PROVE ProcType'
  BY <1>14 DEF Crash
<1>15. QED
  BY ZenonT(40), <1>1, <1>2, <1>3, <1>4, <1>5, <1>6, <1>7, <1>8, <1>9, <1>10, <1>11, <1>12, <1>13,
     <1>14
     DEF Next, ServerStep, HandlerStep, ConsumerStep, Lose,
         AcquireGrantedUnheard, RenewConfirmed, RenewUnheard, RenewRefused,
         AckConfirmed, AckUnheard, RenewSend, RenewFails, LocalDeadline,
         CheckTerminal, SettleFenced, MarkUnfenced, Waive, Park, SettleRefused, BuryPoison, Fail, AckSend,
         AckRefused, AckFails, SettleDelivery, Tick, GrantLease, ExtendLease,
         RemoveRow, DropKeys, valkey, objects, slots, vars

-----------------------------------------------------------------------------
(* What one step can do.                                                   *)

(* What a step can do to the requests under way. *)
LEMMA NetworkStep ==
  ASSUME [Next]_vars
  PROVE  \/ net' \subseteq net \/ Tick
         \/ \E m \in net : ReplyLost(m)
         \/ \E S \in SUBSET net : net' = Abandon(S)
         \/ \E h \in Handlers : Start(h) \/ RenewSend(h) \/ AckSend(h)
<1>1. ASSUME NEW m \in net, ServerStep(m) PROVE net' \subseteq net \/ ReplyLost(m)
  BY <1>1
     DEF ServerStep, Lose, AcquireGranted, AcquireGrantedUnheard, AcquireRefused,
         RenewConfirmed, RenewUnheard, RenewRefused, AckConfirmed, AckUnheard
<1>2. ASSUME NEW h \in Handlers,
             AcquireFails(h) \/ RenewFails(h) \/ Fail(h) \/ AckFails(h) \/ Deregister(h)
      PROVE  \E S \in SUBSET net : net' = Abandon(S)
  BY <1>2, Zenon DEF AcquireFails, RenewFails, Fail, AckFails, Deregister
<1>3. ASSUME NEW c \in Consumers, Crash(c) PROVE \E S \in SUBSET net : net' = Abandon(S)
  BY <1>3, Zenon DEF Crash
<1>4. QED
  BY <1>1, <1>2, <1>3
     DEF Next, HandlerStep, ConsumerStep, LocalDeadline, CheckTerminal, SettleFenced, MarkUnfenced, Waive, Park,
         SettleRefused, BuryPoison, AckRefused, SettleDelivery, Exit, Deliver, Claim,
         Condemn, MaintBury, MaintAck, MaintSettle, vars

(* A request under way was under way before, or this step sent it. *)
LEMMA RequestOrigin ==
  ASSUME TypeOK, [Next]_vars, NEW k \in net'
  PROVE  \/ \E n \in net : From(k, n)
         \/ \E h \in Handlers : Start(h) /\ k = Request("acquire", h, minted + 1, 0)
         \/ \E h \in Handlers : RenewSend(h) /\ k = Request("renew", h, tok[h], ownGen[h])
         \/ \E h \in Handlers : AckSend(h) /\ k = Request("xack", h, AckLease(h), 0)
<1>1. NetType
  BY DEF TypeOK
<1>2. CASE k \in net
  BY <1>1, <1>2, FromItself DEF NetType
<1>3. ASSUME NEW m \in net, ReplyLost(m) PROVE \E n \in net : From(k, n)
  BY <1>1, <1>3, ReplyLostFacts DEF Resent
<1>4. ASSUME NEW S \in SUBSET net, net' = Abandon(S) PROVE \E n \in net : From(k, n)
  BY <1>1, <1>4, AbandonFacts DEF Cut
<1>5. CASE Tick
  BY <1>1, <1>5, TickFacts DEF Older
<1>6. CASE k \notin net /\ \E h \in Handlers : Start(h) \/ RenewSend(h) \/ AckSend(h)
  BY <1>6 DEF Start, RenewSend, AckSend
<1>7. QED
  BY <1>2, <1>3, <1>4, <1>5, <1>6, NetworkStep

(* A durable outcome stays. *)
LEMMA OutcomeStays ==
  ASSUME [Next]_vars, Outcome
  PROVE  Outcome'
<1> USE DEF Outcome, Done
<1>1. CASE UNCHANGED <<class, doneBy, buried, endings>>
  BY <1>1
<1>2. ASSUME NEW h \in Handlers, SettleFenced(h) PROVE Outcome'
  BY <1>2 DEF SettleFenced
<1>mark. ASSUME NEW h \in Handlers, MarkUnfenced(h) PROVE Outcome'
  BY <1>mark DEF MarkUnfenced, Goto
<1>waive. ASSUME NEW h \in Handlers, Waive(h) PROVE Outcome'
  BY <1>waive DEF Waive, Goto
<1>park. ASSUME NEW h \in Handlers, Park(h) PROVE Outcome'
  BY <1>park DEF Park, ParkGuards, Goto
<1>3. ASSUME NEW h \in Handlers, BuryPoison(h) PROVE Outcome'
  BY <1>3 DEF BuryPoison
<1>4. ASSUME NEW c \in Consumers, MaintBury(c) PROVE Outcome'
  BY <1>4 DEF MaintBury
<1>5. QED
  BY ZenonT(40), <1>mark, <1>waive, <1>park, <1>1, <1>2, <1>3, <1>4
     DEF Next, ServerStep, HandlerStep, ConsumerStep, Lose, AcquireGranted,
         AcquireGrantedUnheard, AcquireRefused, RenewConfirmed, RenewUnheard,
         RenewRefused, AckConfirmed, AckUnheard, Start, AcquireFails, RenewSend,
         RenewFails, LocalDeadline, CheckTerminal, SettleRefused, Fail, AckSend,
         AckRefused, AckFails, SettleDelivery, Deregister, Exit, Deliver, Claim, Condemn,
         MaintAck, MaintSettle, Crash, Tick, GrantLease, ExtendLease, RemoveRow,
         DropKeys, ReleaseScript, valkey, objects, slots, procs, vars

(* Tokens are never drawn twice. *)
LEMMA MintedGrows ==
  ASSUME TypeOK, [Next]_vars
  PROVE  minted' \in Nat /\ minted' >= minted
<1> USE ConstantsAssumption
<1> USE DEF TypeOK, ObjectType
<1>1. CASE UNCHANGED <<minted>>
  BY <1>1
<1>2. ASSUME NEW h \in Handlers, Start(h)
      PROVE  minted' \in Nat /\ minted' >= minted
  BY <1>2 DEF Start
<1>3. QED
  BY ZenonT(40), <1>1, <1>2
     DEF Next, ServerStep, HandlerStep, ConsumerStep, Lose, AcquireGranted,
         AcquireGrantedUnheard, AcquireRefused, RenewConfirmed, RenewUnheard,
         RenewRefused, AckConfirmed, AckUnheard, AcquireFails, RenewSend,
         RenewFails, LocalDeadline, CheckTerminal, SettleFenced, MarkUnfenced, Waive, Park, SettleRefused,
         BuryPoison, Fail, AckSend, AckRefused, AckFails, SettleDelivery, Deregister, Exit,
         Deliver, Claim, Condemn, MaintBury, MaintAck, MaintSettle, Crash, Tick,
         GrantLease, ExtendLease, RemoveRow, DropKeys, ReleaseScript, valkey,
         objects, slots, procs, vars

(* A handler holds a lease because it did, with the same token, or because *)
(* its acquisition is granted.                                             *)
LEMMA HolderStays ==
  ASSUME TypeOK, Requests, [Next]_vars, NEW g \in Handlers, pc'[g] \in Holding
  PROVE  HolderBefore(g)
<1> USE ConstantsAssumption
<1>m. \A m \in net : /\ m.h \in Handlers /\ m.tok \in 0..MaxToken /\ m.gen \in Nat
                    /\ m.kind \in {"acquire", "renew", "xack"}
  BY MessageType DEF TypeOK, NetType
<1> USE <1>m DEF TypeOK, ValkeyType, ObjectType, SlotType, ProcType, Requests, RequestOK, Holding, HolderBefore, slots
<1>1. CASE UNCHANGED <<pc, tok>>
  BY <1>1
<1>2. ASSUME NEW m \in net, AcquireGranted(m) PROVE HolderBefore(g)
  BY <1>2 DEF AcquireGranted, AcquireGuards, GrantLease
<1>3. ASSUME NEW m \in net, AcquireRefused(m) PROVE HolderBefore(g)
  BY <1>3 DEF AcquireRefused, LeaveUnleased
<1>4. ASSUME NEW m \in net, AckConfirmed(m) PROVE HolderBefore(g)
  BY <1>4 DEF AckConfirmed, RemoveRow, Unlock, Goto
<1>5. ASSUME NEW h \in Handlers, Start(h) PROVE HolderBefore(g)
  BY <1>5 DEF Start
<1>6. ASSUME NEW h \in Handlers, AcquireFails(h) PROVE HolderBefore(g)
  BY <1>6 DEF AcquireFails, LeaveUnleased
<1>7. ASSUME NEW h \in Handlers, CheckTerminal(h) PROVE HolderBefore(g)
  BY <1>7 DEF CheckTerminal, Goto
<1>8. ASSUME NEW h \in Handlers, SettleFenced(h) PROVE HolderBefore(g)
  BY <1>8 DEF SettleFenced, SettleGuards, Goto
<1>mark. ASSUME NEW h \in Handlers, MarkUnfenced(h) PROVE HolderBefore(g)
  BY <1>mark DEF MarkUnfenced, Goto
<1>waive. ASSUME NEW h \in Handlers, Waive(h) PROVE HolderBefore(g)
  BY <1>waive DEF Waive, Goto
<1>park. ASSUME NEW h \in Handlers, Park(h) PROVE HolderBefore(g)
  BY <1>park DEF Park, ParkGuards, Goto
<1>9. ASSUME NEW h \in Handlers, SettleRefused(h) PROVE HolderBefore(g)
  BY <1>9 DEF SettleRefused, SettleGuards, Goto
<1>10. ASSUME NEW h \in Handlers, BuryPoison(h) PROVE HolderBefore(g)
  BY <1>10 DEF BuryPoison, Goto
<1>11. ASSUME NEW h \in Handlers, Fail(h) PROVE HolderBefore(g)
  BY <1>11 DEF Fail, Goto
<1>12. ASSUME NEW h \in Handlers, AckSend(h) PROVE HolderBefore(g)
  BY <1>12 DEF AckSend, MayEnterAck, AckLease, Acking, InWindow
<1>13. ASSUME NEW h \in Handlers, AckRefused(h) PROVE HolderBefore(g)
  BY <1>13 DEF AckRefused, MayEnterAck, AckLease, Acking, InWindow, Goto
<1>14. ASSUME NEW h \in Handlers, SettleDelivery(h) PROVE HolderBefore(g)
  BY <1>14 DEF SettleDelivery, DropKeys, Goto
<1>15. ASSUME NEW h \in Handlers, Exit(h) PROVE HolderBefore(g)
  BY <1>15 DEF Exit, ReleaseScript, Goto
<1>16. ASSUME NEW h \in Handlers, Deregister(h) PROVE HolderBefore(g)
  BY <1>16 DEF Deregister, Unlock, Goto
<1>17. ASSUME NEW c \in Consumers, Crash(c) PROVE HolderBefore(g)
  BY <1>17 DEF Crash
<1>18. QED
  BY <1>mark, <1>waive, <1>park, <1>1, <1>2, <1>3, <1>4, <1>5, <1>6, <1>7, <1>8, <1>9, <1>10, <1>11, <1>12,
     <1>13, <1>14, <1>15, <1>16, <1>17
     DEF Next, ServerStep, HandlerStep, ConsumerStep, Lose,
         AcquireGrantedUnheard, RenewConfirmed, RenewUnheard, RenewRefused,
         AckUnheard, RenewSend, RenewFails, LocalDeadline, AckFails, Deliver, Claim,
         Condemn, MaintBury, MaintAck, MaintSettle, Tick, GrantLease, ExtendLease,
         RemoveRow, DropKeys, valkey, objects, procs, vars

(* The lease key of a handler that goes on holding it is shortened by time *)
(* alone while the row is pending.                                         *)
LEMMA LeaseStays ==
  ASSUME TypeOK, OwnTokens, OutcomeFirst, [Next]_vars,
         NEW g \in Handlers, pc[g] \in Holding, pc'[g] \in Holding,
         leaseTok = tok[g], entry' = "pending"
  PROVE  LeaseAfter
<1> USE ConstantsAssumption
<1>m. \A m \in net : /\ m.h \in Handlers /\ m.tok \in 0..MaxToken /\ m.gen \in Nat
                    /\ m.kind \in {"acquire", "renew", "xack"}
  BY MessageType DEF TypeOK, NetType
<1>t. \A h \in Handlers : pc[h] # "idle" => tok[h] \in Tokens
  BY DEF TypeOK, SlotType, OwnTokens, Tokens
<1> USE <1>m, <1>t DEF TypeOK, ValkeyType, ObjectType, SlotType, ProcType, OwnTokens, OutcomeFirst, Holding, LeaseAfter, Tokens, valkey
<1>1. CASE UNCHANGED <<leaseTok, leaseLeft>>
  BY <1>1
<1>2. ASSUME NEW m \in net, AcquireGranted(m) PROVE LeaseAfter
  BY <1>2 DEF AcquireGranted, AcquireGuards, GrantLease
<1>3. ASSUME NEW m \in net, AcquireGrantedUnheard(m) PROVE LeaseAfter
  BY <1>3 DEF AcquireGrantedUnheard, AcquireGuards, GrantLease
<1>4. ASSUME NEW m \in net, RenewConfirmed(m) PROVE LeaseAfter
  BY <1>4 DEF RenewConfirmed, RenewGuards, ExtendLease, EndRenewal
<1>5. ASSUME NEW m \in net, RenewUnheard(m) PROVE LeaseAfter
  BY <1>5 DEF RenewUnheard, RenewGuards, ExtendLease
<1>6. ASSUME NEW h \in Handlers, SettleDelivery(h) PROVE LeaseAfter
  BY <1>6 DEF SettleDelivery, DropKeys, Goto
<1>7. ASSUME NEW h \in Handlers, Exit(h) PROVE LeaseAfter
  <2>1. h # g /\ tok[h] # tok[g]
    BY <1>7 DEF Exit, Goto
  <2> QED
    BY <1>7, <2>1 DEF Exit, ReleaseScript
<1>8. ASSUME NEW h \in Handlers, Deregister(h) PROVE LeaseAfter
  BY <1>8 DEF Deregister, valkey
<1>9. ASSUME NEW c \in Consumers, MaintSettle(c) PROVE LeaseAfter
  BY <1>9 DEF MaintSettle, SetMaint, DropKeys
<1>10. ASSUME Tick PROVE LeaseAfter
  BY <1>10 DEF Tick
<1>11. QED
  BY ZenonT(40), <1>1, <1>2, <1>3, <1>4, <1>5, <1>6, <1>7, <1>8, <1>9, <1>10
     DEF Next, ServerStep, HandlerStep, ConsumerStep, Lose, AcquireRefused,
         RenewRefused, AckConfirmed, AckUnheard, Start, AcquireFails, RenewSend,
         RenewFails, LocalDeadline, CheckTerminal, SettleFenced, MarkUnfenced, Waive, Park, SettleRefused,
         BuryPoison, Fail, AckSend, AckRefused, AckFails, Deliver, Claim, Condemn,
         MaintBury, MaintAck, Crash, RemoveRow, objects, slots, procs, vars

(* The local window of a holder grows by a confirmed renewal alone. *)
LEMMA WindowStays ==
  ASSUME TypeOK, OwnTokens, [Next]_vars, NEW g \in Handlers, pc[g] \in Holding
  PROVE  WindowAfter(tok[g])
<1> USE ConstantsAssumption
<1>t. \A h \in Handlers : pc[h] # "idle" => tok[h] \in Tokens
  BY DEF TypeOK, SlotType, OwnTokens, Tokens
<1> USE <1>t DEF TypeOK, ObjectType, SlotType, OwnTokens, Holding, WindowAfter, Tokens, objects
<1>1. CASE UNCHANGED <<left>>
  BY <1>1
<1>2. ASSUME NEW m \in net, RenewConfirmed(m) PROVE WindowAfter(tok[g])
  BY <1>2 DEF RenewConfirmed, RenewGuards, ExtendLease, EndRenewal
<1>3. ASSUME NEW h \in Handlers, Start(h) PROVE WindowAfter(tok[g])
  BY <1>3 DEF Start
<1>4. ASSUME Tick PROVE WindowAfter(tok[g])
  BY <1>4 DEF Tick
<1>5. QED
  BY ZenonT(40), <1>1, <1>2, <1>3, <1>4
     DEF Next, ServerStep, HandlerStep, ConsumerStep, Lose, AcquireGranted,
         AcquireGrantedUnheard, AcquireRefused, RenewUnheard, RenewRefused,
         AckConfirmed, AckUnheard, AcquireFails, RenewSend, RenewFails,
         LocalDeadline, CheckTerminal, SettleFenced, MarkUnfenced, Waive, Park, SettleRefused, BuryPoison,
         Fail, AckSend, AckRefused, AckFails, SettleDelivery, Deregister, Exit, Deliver, Claim,
         Condemn, MaintBury, MaintAck, MaintSettle, Crash, GrantLease, ExtendLease,
         RemoveRow, DropKeys, ReleaseScript, valkey, slots, procs, vars

(* The row of a holder's delivery is not pending for the first time. *)
LEMMA PendingBefore ==
  ASSUME TypeOK, Untouched, [Next]_vars, NEW g \in Handlers, pc[g] \in Holding, entry' = "pending"
  PROVE  entry = "pending"
<1> USE ConstantsAssumption
<1> USE DEF Untouched, Holding, RemoveRow, valkey
<1>1. CASE UNCHANGED <<entry>>
  BY <1>1
<1>2. ASSUME NEW m \in net, AckConfirmed(m) PROVE entry = "pending"
  BY <1>2 DEF AckConfirmed, RemoveRow, Unlock, Goto
<1>3. ASSUME NEW m \in net, AckUnheard(m) PROVE entry = "pending"
  BY <1>3 DEF AckUnheard, RemoveRow
<1>4. ASSUME NEW c \in Consumers, Deliver(c) PROVE entry = "pending"
  BY <1>4 DEF Deliver
<1>5. ASSUME NEW c \in Consumers, MaintAck(c) PROVE entry = "pending"
  BY <1>5 DEF MaintAck, SetMaint, RemoveRow, InWindow
<1>6. QED
  BY ZenonT(40), <1>1, <1>2, <1>3, <1>4, <1>5
     DEF Next, ServerStep, HandlerStep, ConsumerStep, Lose, AcquireGranted,
         AcquireGrantedUnheard, AcquireRefused, RenewConfirmed, RenewUnheard,
         RenewRefused, Start, AcquireFails, RenewSend, RenewFails, LocalDeadline,
         CheckTerminal, SettleFenced, MarkUnfenced, Waive, Park, SettleRefused, BuryPoison, Fail, AckSend,
         AckRefused, AckFails, SettleDelivery, Deregister, Exit, Claim, Condemn, MaintBury,
         MaintSettle, Crash, Tick, GrantLease, ExtendLease, DropKeys, ReleaseScript,
         objects, slots, procs, vars

(* A slot stops acquiring with its token by a grant, or loses the token. *)
LEMMA SlotTokenStays ==
  ASSUME TypeOK, OwnTokens, Requests, [Next]_vars, NEW g \in Handlers
  PROVE  SlotTokenAfter(g)
<1> USE ConstantsAssumption
<1>m. \A m \in net : /\ m.h \in Handlers /\ m.tok \in 0..MaxToken /\ m.gen \in Nat
                    /\ m.kind \in {"acquire", "renew", "xack"}
  BY MessageType DEF TypeOK, NetType
<1> USE <1>m DEF TypeOK, ObjectType, SlotType, OwnTokens, Requests, RequestOK, Holding, SlotTokenAfter, slots
<1>1. CASE UNCHANGED <<pc, tok>>
  BY <1>1
<1>2. ASSUME NEW m \in net, AcquireGranted(m) PROVE SlotTokenAfter(g)
  BY <1>2 DEF AcquireGranted, AcquireGuards, GrantLease
<1>3. ASSUME NEW m \in net, AcquireRefused(m) PROVE SlotTokenAfter(g)
  BY <1>3 DEF AcquireRefused, LeaveUnleased
<1>4. ASSUME NEW m \in net, AckConfirmed(m) PROVE SlotTokenAfter(g)
  BY <1>4 DEF AckConfirmed, RemoveRow, Unlock, Goto
<1>5. ASSUME NEW h \in Handlers, Start(h) PROVE SlotTokenAfter(g)
  BY <1>5 DEF Start
<1>6. ASSUME NEW h \in Handlers, AcquireFails(h) PROVE SlotTokenAfter(g)
  BY <1>6 DEF AcquireFails, LeaveUnleased
<1>7. ASSUME NEW h \in Handlers, CheckTerminal(h) PROVE SlotTokenAfter(g)
  BY <1>7 DEF CheckTerminal, Goto
<1>8. ASSUME NEW h \in Handlers, SettleFenced(h) PROVE SlotTokenAfter(g)
  BY <1>8 DEF SettleFenced, SettleGuards, Goto
<1>mark. ASSUME NEW h \in Handlers, MarkUnfenced(h) PROVE SlotTokenAfter(g)
  BY <1>mark DEF MarkUnfenced, Goto
<1>waive. ASSUME NEW h \in Handlers, Waive(h) PROVE SlotTokenAfter(g)
  BY <1>waive DEF Waive, Goto
<1>park. ASSUME NEW h \in Handlers, Park(h) PROVE SlotTokenAfter(g)
  BY <1>park DEF Park, ParkGuards, Goto
<1>9. ASSUME NEW h \in Handlers, SettleRefused(h) PROVE SlotTokenAfter(g)
  BY <1>9 DEF SettleRefused, SettleGuards, Goto
<1>10. ASSUME NEW h \in Handlers, BuryPoison(h) PROVE SlotTokenAfter(g)
  BY <1>10 DEF BuryPoison, Goto
<1>11. ASSUME NEW h \in Handlers, Fail(h) PROVE SlotTokenAfter(g)
  BY <1>11 DEF Fail, Goto
<1>12. ASSUME NEW h \in Handlers, AckSend(h) PROVE SlotTokenAfter(g)
  BY <1>12 DEF AckSend, MayEnterAck, AckLease, Acking, InWindow
<1>13. ASSUME NEW h \in Handlers, AckRefused(h) PROVE SlotTokenAfter(g)
  BY <1>13 DEF AckRefused, MayEnterAck, AckLease, Acking, InWindow, Goto
<1>14. ASSUME NEW h \in Handlers, SettleDelivery(h) PROVE SlotTokenAfter(g)
  BY <1>14 DEF SettleDelivery, DropKeys, Goto
<1>15. ASSUME NEW h \in Handlers, Exit(h) PROVE SlotTokenAfter(g)
  BY <1>15 DEF Exit, ReleaseScript, Goto
<1>16. ASSUME NEW h \in Handlers, Deregister(h) PROVE SlotTokenAfter(g)
  BY <1>16 DEF Deregister, Unlock, Goto
<1>17. ASSUME NEW c \in Consumers, Crash(c) PROVE SlotTokenAfter(g)
  BY <1>17 DEF Crash
<1>18. QED
  BY <1>mark, <1>waive, <1>park, <1>1, <1>2, <1>3, <1>4, <1>5, <1>6, <1>7, <1>8, <1>9, <1>10, <1>11, <1>12,
     <1>13, <1>14, <1>15, <1>16, <1>17
     DEF Next, ServerStep, HandlerStep, ConsumerStep, Lose,
         AcquireGrantedUnheard, RenewConfirmed, RenewUnheard, RenewRefused,
         AckUnheard, RenewSend, RenewFails, LocalDeadline, AckFails, Deliver, Claim,
         Condemn, MaintBury, MaintAck, MaintSettle, Tick, GrantLease, ExtendLease,
         RemoveRow, DropKeys, valkey, objects, procs, vars

-----------------------------------------------------------------------------
(* Every step preserves each part of the inductive invariant.              *)

(* Nothing touches the entry before it is delivered. *)
LEMMA UntouchedStep ==
  ASSUME TypeOK, Untouched, [Next]_vars
  PROVE  Untouched'
<1> USE ConstantsAssumption
<1>m. \A m \in net : /\ m.h \in Handlers /\ m.tok \in 0..MaxToken /\ m.gen \in Nat
                    /\ m.kind \in {"acquire", "renew", "xack"}
  BY MessageType DEF TypeOK, NetType
<1> USE <1>m DEF TypeOK, NetType, ProcType, SlotType, Untouched, Holding, valkey, slots, procs
<1>1. CASE UNCHANGED <<entry, net, leaseTok, pc, queued, maint>>
  BY <1>1
<1>2. ASSUME NEW m \in net, Lose(m) PROVE Untouched'
  BY <1>2 DEF Lose
<1>3. ASSUME NEW m \in net, AcquireGranted(m) PROVE Untouched'
  BY <1>3 DEF AcquireGranted, AcquireGuards, GrantLease
<1>4. ASSUME NEW m \in net, AcquireGrantedUnheard(m) PROVE Untouched'
  BY <1>4, ReplyLostFacts DEF AcquireGrantedUnheard, AcquireGuards, GrantLease
<1>5. ASSUME NEW m \in net, AcquireRefused(m) PROVE Untouched'
  BY <1>5 DEF AcquireRefused, LeaveUnleased
<1>6. ASSUME NEW m \in net, RenewConfirmed(m) PROVE Untouched'
  BY <1>6 DEF RenewConfirmed, RenewGuards, ExtendLease, EndRenewal
<1>7. ASSUME NEW m \in net, RenewUnheard(m) PROVE Untouched'
  BY <1>7, ReplyLostFacts DEF RenewUnheard, RenewGuards, ExtendLease
<1>8. ASSUME NEW m \in net, RenewRefused(m) PROVE Untouched'
  BY <1>8 DEF RenewRefused, EndRenewal
<1>9. ASSUME NEW m \in net, AckConfirmed(m) PROVE Untouched'
  BY <1>9 DEF AckConfirmed, RemoveRow, Unlock, Goto
<1>10. ASSUME NEW m \in net, AckUnheard(m) PROVE Untouched'
  BY <1>10, ReplyLostFacts DEF AckUnheard, RemoveRow
<1>11. ASSUME NEW h \in Handlers, Start(h) PROVE Untouched'
  BY <1>11 DEF Start
<1>12. ASSUME NEW h \in Handlers, AcquireFails(h) PROVE Untouched'
  BY <1>12, AbandonFacts DEF AcquireFails, LeaveUnleased
<1>13. ASSUME NEW h \in Handlers, RenewSend(h) PROVE Untouched'
  BY <1>13 DEF RenewSend, Renewing
<1>14. ASSUME NEW h \in Handlers, RenewFails(h) PROVE Untouched'
  BY <1>14, AbandonFacts DEF RenewFails, EndRenewal
<1>15. ASSUME NEW h \in Handlers, CheckTerminal(h) PROVE Untouched'
  BY <1>15 DEF CheckTerminal, Goto
<1>16. ASSUME NEW h \in Handlers, SettleFenced(h) PROVE Untouched'
  BY <1>16 DEF SettleFenced, SettleGuards, Goto
<1>mark. ASSUME NEW h \in Handlers, MarkUnfenced(h) PROVE Untouched'
  BY <1>mark DEF MarkUnfenced, Goto
<1>waive. ASSUME NEW h \in Handlers, Waive(h) PROVE Untouched'
  BY <1>waive DEF Waive, Goto
<1>park. ASSUME NEW h \in Handlers, Park(h) PROVE Untouched'
  BY <1>park DEF Park, ParkGuards, Goto
<1>17. ASSUME NEW h \in Handlers, SettleRefused(h) PROVE Untouched'
  BY <1>17 DEF SettleRefused, SettleGuards, Goto
<1>18. ASSUME NEW h \in Handlers, BuryPoison(h) PROVE Untouched'
  BY <1>18 DEF BuryPoison, Goto
<1>19. ASSUME NEW h \in Handlers, Fail(h) PROVE Untouched'
  BY <1>19, AbandonFacts DEF Fail, Goto
<1>20. ASSUME NEW h \in Handlers, AckSend(h) PROVE Untouched'
  BY <1>20 DEF AckSend, MayEnterAck, AckLease, Acking, InWindow
<1>21. ASSUME NEW h \in Handlers, AckRefused(h) PROVE Untouched'
  BY <1>21 DEF AckRefused, MayEnterAck, AckLease, Acking, InWindow, Goto
<1>22. ASSUME NEW h \in Handlers, AckFails(h) PROVE Untouched'
  BY <1>22, AbandonFacts DEF AckFails, Unlock
<1>23. ASSUME NEW h \in Handlers, SettleDelivery(h) PROVE Untouched'
  BY <1>23 DEF SettleDelivery, DropKeys, Goto
<1>24. ASSUME NEW h \in Handlers, Exit(h) PROVE Untouched'
  BY <1>24 DEF Exit, ReleaseScript, Goto
<1>25. ASSUME NEW h \in Handlers, Deregister(h) PROVE Untouched'
  BY <1>25, AbandonFacts DEF Deregister, Unlock, Goto
<1>26. ASSUME NEW c \in Consumers, Deliver(c) PROVE Untouched'
  BY <1>26 DEF Deliver
<1>27. ASSUME NEW c \in Consumers, Claim(c) PROVE Untouched'
  BY <1>27 DEF Claim
<1>28. ASSUME NEW c \in Consumers, Condemn(c) PROVE Untouched'
  BY <1>28 DEF Condemn, SetMaint
<1>29. ASSUME NEW c \in Consumers, MaintBury(c) PROVE Untouched'
  BY <1>29 DEF MaintBury, SetMaint, DeadLetterRefusal
<1>30. ASSUME NEW c \in Consumers, MaintAck(c) PROVE Untouched'
  BY <1>30 DEF MaintAck, SetMaint, RemoveRow, InWindow
<1>31. ASSUME NEW c \in Consumers, MaintSettle(c) PROVE Untouched'
  BY <1>31 DEF MaintSettle, SetMaint, DropKeys
<1>32. ASSUME NEW c \in Consumers, Crash(c) PROVE Untouched'
  BY <1>32, AbandonFacts DEF Crash
<1>33. ASSUME Tick PROVE Untouched'
  BY <1>33, TickFacts DEF Tick
<1>34. QED
  BY <1>mark, <1>waive, <1>park, <1>1, <1>2, <1>3, <1>4, <1>5, <1>6, <1>7, <1>8, <1>9, <1>10, <1>11, <1>12,
     <1>13, <1>14, <1>15, <1>16, <1>17, <1>18, <1>19, <1>20, <1>21, <1>22,
     <1>23, <1>24, <1>25, <1>26, <1>27, <1>28, <1>29, <1>30, <1>31, <1>32, <1>33
     DEF Next, ServerStep, HandlerStep, ConsumerStep, LocalDeadline, objects,
         vars

(* acquire draws a token of its own for every handler. *)
LEMMA OwnTokensStep ==
  ASSUME TypeOK, OwnTokens, Requests, [Next]_vars
  PROVE  OwnTokens'
<1> USE ConstantsAssumption
<1>m. \A m \in net : /\ m.h \in Handlers /\ m.tok \in 0..MaxToken /\ m.gen \in Nat
                    /\ m.kind \in {"acquire", "renew", "xack"}
  BY MessageType DEF TypeOK, NetType
<1> USE <1>m DEF TypeOK, NetType, ObjectType, SlotType, OwnTokens, Requests, RequestOK, Holding, slots
<1>1. CASE UNCHANGED <<minted, pc, tok>>
  BY <1>1
<1>2. ASSUME NEW m \in net, AcquireGranted(m) PROVE OwnTokens'
  BY <1>2 DEF AcquireGranted, AcquireGuards, GrantLease
<1>3. ASSUME NEW m \in net, AcquireRefused(m) PROVE OwnTokens'
  BY <1>3 DEF AcquireRefused, LeaveUnleased
<1>4. ASSUME NEW m \in net, AckConfirmed(m) PROVE OwnTokens'
  BY <1>4 DEF AckConfirmed, RemoveRow, Unlock, Goto
<1>5. ASSUME NEW h \in Handlers, Start(h) PROVE OwnTokens'
  BY <1>5 DEF Start
<1>6. ASSUME NEW h \in Handlers, AcquireFails(h) PROVE OwnTokens'
  BY <1>6 DEF AcquireFails, LeaveUnleased
<1>7. ASSUME NEW h \in Handlers, CheckTerminal(h) PROVE OwnTokens'
  BY <1>7 DEF CheckTerminal, Goto
<1>8. ASSUME NEW h \in Handlers, SettleFenced(h) PROVE OwnTokens'
  BY <1>8 DEF SettleFenced, SettleGuards, Goto
<1>mark. ASSUME NEW h \in Handlers, MarkUnfenced(h) PROVE OwnTokens'
  BY <1>mark DEF MarkUnfenced, Goto
<1>waive. ASSUME NEW h \in Handlers, Waive(h) PROVE OwnTokens'
  BY <1>waive DEF Waive, Goto
<1>park. ASSUME NEW h \in Handlers, Park(h) PROVE OwnTokens'
  BY <1>park DEF Park, ParkGuards, Goto
<1>9. ASSUME NEW h \in Handlers, SettleRefused(h) PROVE OwnTokens'
  BY <1>9 DEF SettleRefused, SettleGuards, Goto
<1>10. ASSUME NEW h \in Handlers, BuryPoison(h) PROVE OwnTokens'
  BY <1>10 DEF BuryPoison, Goto
<1>11. ASSUME NEW h \in Handlers, Fail(h) PROVE OwnTokens'
  BY <1>11 DEF Fail, Goto
<1>12. ASSUME NEW h \in Handlers, AckSend(h) PROVE OwnTokens'
  BY <1>12 DEF AckSend, MayEnterAck, AckLease, Acking, InWindow
<1>13. ASSUME NEW h \in Handlers, AckRefused(h) PROVE OwnTokens'
  BY <1>13 DEF AckRefused, MayEnterAck, AckLease, Acking, InWindow, Goto
<1>14. ASSUME NEW h \in Handlers, SettleDelivery(h) PROVE OwnTokens'
  BY <1>14 DEF SettleDelivery, DropKeys, Goto
<1>15. ASSUME NEW h \in Handlers, Exit(h) PROVE OwnTokens'
  BY <1>15 DEF Exit, ReleaseScript, Goto
<1>16. ASSUME NEW h \in Handlers, Deregister(h) PROVE OwnTokens'
  BY <1>16 DEF Deregister, Unlock, Goto
<1>17. ASSUME NEW c \in Consumers, Crash(c) PROVE OwnTokens'
  BY <1>17 DEF Crash
<1>18. QED
  BY <1>mark, <1>waive, <1>park, <1>1, <1>2, <1>3, <1>4, <1>5, <1>6, <1>7, <1>8, <1>9, <1>10, <1>11, <1>12,
     <1>13, <1>14, <1>15, <1>16, <1>17
     DEF Next, ServerStep, HandlerStep, ConsumerStep, Lose,
         AcquireGrantedUnheard, RenewConfirmed, RenewUnheard, RenewRefused,
         AckUnheard, RenewSend, RenewFails, LocalDeadline, AckFails, Deliver, Claim,
         Condemn, MaintBury, MaintAck, MaintSettle, Tick, GrantLease, ExtendLease,
         RemoveRow, DropKeys, valkey, objects, procs, vars

(* Only drawn tokens are registered, used or written to the lease key, *)
LEMMA DrawnTokensStep ==
  ASSUME TypeOK, OwnTokens, DrawnTokens, DrawnRequests, [Next]_vars
  PROVE  DrawnTokens'
<1> USE ConstantsAssumption
<1>m. \A m \in net : /\ m.h \in Handlers /\ m.tok \in 0..MaxToken /\ m.gen \in Nat
                    /\ m.kind \in {"acquire", "renew", "xack"}
  BY MessageType DEF TypeOK, NetType
<1> USE <1>m DEF TypeOK, ValkeyType, ObjectType, SlotType, ProcType, OwnTokens, DrawnTokens, DrawnRequests, valkey, slots, procs
<1>1. CASE UNCHANGED <<minted, leaseTok, held, via>>
  BY <1>1
<1>2. ASSUME NEW m \in net, AcquireGranted(m) PROVE DrawnTokens'
  BY <1>2 DEF AcquireGranted, AcquireGuards, GrantLease
<1>3. ASSUME NEW m \in net, AcquireGrantedUnheard(m) PROVE DrawnTokens'
  BY <1>3 DEF AcquireGrantedUnheard, AcquireGuards, GrantLease
<1>4. ASSUME NEW h \in Handlers, Start(h) PROVE DrawnTokens'
  BY <1>4 DEF Start
<1>5. ASSUME NEW h \in Handlers, AckSend(h) PROVE DrawnTokens'
  BY <1>5 DEF AckSend, MayEnterAck, AckLease, Acking, InWindow
<1>6. ASSUME NEW h \in Handlers, SettleDelivery(h) PROVE DrawnTokens'
  BY <1>6 DEF SettleDelivery, DropKeys, Goto
<1>7. ASSUME NEW h \in Handlers, Exit(h) PROVE DrawnTokens'
  BY <1>7 DEF Exit, ReleaseScript, Goto
<1>8. ASSUME NEW h \in Handlers, Deregister(h) PROVE DrawnTokens'
  BY <1>8 DEF Deregister, Unlock, Goto
<1>9. ASSUME NEW c \in Consumers, MaintSettle(c) PROVE DrawnTokens'
  BY <1>9 DEF MaintSettle, SetMaint, DropKeys
<1>10. ASSUME NEW c \in Consumers, Crash(c) PROVE DrawnTokens'
  BY <1>10 DEF Crash
<1>11. ASSUME Tick PROVE DrawnTokens'
  BY <1>11 DEF Tick
<1>12. QED
  BY ZenonT(40), <1>1, <1>2, <1>3, <1>4, <1>5, <1>6, <1>7, <1>8, <1>9, <1>10, <1>11
     DEF Next, ServerStep, HandlerStep, ConsumerStep, Lose, AcquireRefused,
         RenewConfirmed, RenewUnheard, RenewRefused, AckConfirmed, AckUnheard,
         AcquireFails, RenewSend, RenewFails, LocalDeadline, CheckTerminal,
         SettleFenced, MarkUnfenced, Waive, Park, SettleRefused, BuryPoison, Fail, AckRefused, AckFails,
         Deliver, Claim, Condemn, MaintBury, MaintAck, ExtendLease, RemoveRow,
         objects, vars

(* ... or carried by a request. *)
LEMMA DrawnRequestsStep ==
  ASSUME TypeOK, OwnTokens, DrawnTokens, DrawnRequests, [Next]_vars
  PROVE  DrawnRequests'
<1> SUFFICES ASSUME NEW k \in net' PROVE k.tok <= minted'
  BY DEF DrawnRequests
<1> USE ConstantsAssumption DEF TypeOK, ObjectType, SlotType, ProcType
<1>0. minted' \in Nat /\ minted' >= minted
  BY MintedGrows
<1>1. ASSUME NEW n \in net, From(k, n) PROVE k.tok <= minted'
  BY <1>0, <1>1, MessageType DEF DrawnRequests, From, NetType
<1>2. ASSUME NEW h \in Handlers, Start(h), k = Request("acquire", h, minted + 1, 0)
      PROVE  k.tok <= minted'
  BY <1>2 DEF Start, Request
<1>3. ASSUME NEW h \in Handlers, k = Request("renew", h, tok[h], ownGen[h])
      PROVE  k.tok <= minted'
  BY <1>0, <1>3 DEF OwnTokens, Request
<1>4. ASSUME NEW h \in Handlers, k = Request("xack", h, AckLease(h), 0)
      PROVE  k.tok <= minted'
  BY <1>0, <1>4 DEF DrawnTokens, Request, AckLease
<1>5. QED
  BY <1>1, <1>2, <1>3, <1>4, RequestOrigin

(* A live request is the one its sender is waiting for: every path that stops *)
(* waiting (an exception, a timeout, the finally, a crash) abandons it.       *)
LEMMA RequestsStep ==
  ASSUME TypeOK, OwnTokens, UniqueRequests, Requests, [Next]_vars
  PROVE  Requests'
<1> USE ConstantsAssumption
<1>m. \A m \in net : /\ m.h \in Handlers /\ m.tok \in 0..MaxToken /\ m.gen \in Nat
                    /\ m.kind \in {"acquire", "renew", "xack"}
  BY MessageType DEF TypeOK, NetType
<1>t. \A h \in Handlers : pc[h] # "idle" => tok[h] \in Tokens
  BY DEF TypeOK, SlotType, OwnTokens, Tokens
<1> USE <1>m, <1>t DEF TypeOK, ObjectType, SlotType, ProcType, OwnTokens, UniqueRequests, Same, Requests, RequestOK, Holding, slots
<1>1. CASE UNCHANGED <<net, pc, tok, via>>
  BY <1>1
<1>2. ASSUME NEW m \in net, Lose(m) PROVE Requests'
  BY <1>2 DEF Lose
<1>3. ASSUME NEW m \in net, AcquireGranted(m) PROVE Requests'
  BY <1>3 DEF AcquireGranted, AcquireGuards, GrantLease
<1>4. ASSUME NEW m \in net, AcquireGrantedUnheard(m) PROVE Requests'
  <2> SUFFICES ASSUME NEW k \in net' PROVE RequestOK(k)'
    OBVIOUS
  <2>1. PICK n \in net : Resent(k, n, m)
    <3>1. NetType
      OBVIOUS
    <3> QED
      BY <1>4, <3>1, ReplyLostFacts DEF AcquireGrantedUnheard
  <2>2. RequestOK(n) /\ From(k, n)
    BY <2>1 DEF Resent
  <2>3. k.age <= MaxDelay
    <3>1. k.age = n.age \/ k.age = 0
      BY <2>1, Zenon DEF Resent
    <3>2. n.age <= MaxDelay
      BY <2>2, Zenon
    <3> QED
      BY <3>1, <3>2
  <2>4. pc' = pc /\ tok' = tok /\ via' = via
    BY <1>4 DEF AcquireGrantedUnheard
  <2> QED
    BY <2>2, <2>3, <2>4, Zenon DEF From
<1>5. ASSUME NEW m \in net, AcquireRefused(m) PROVE Requests'
  BY <1>5 DEF AcquireRefused, LeaveUnleased
<1>6. ASSUME NEW m \in net, RenewConfirmed(m) PROVE Requests'
  BY <1>6 DEF RenewConfirmed, RenewGuards, ExtendLease, EndRenewal
<1>7. ASSUME NEW m \in net, RenewUnheard(m) PROVE Requests'
  <2> SUFFICES ASSUME NEW k \in net' PROVE RequestOK(k)'
    OBVIOUS
  <2>1. PICK n \in net : Resent(k, n, m)
    <3>1. NetType
      OBVIOUS
    <3> QED
      BY <1>7, <3>1, ReplyLostFacts DEF RenewUnheard
  <2>2. RequestOK(n) /\ From(k, n)
    BY <2>1 DEF Resent
  <2>3. k.age <= MaxDelay
    <3>1. k.age = n.age \/ k.age = 0
      BY <2>1, Zenon DEF Resent
    <3>2. n.age <= MaxDelay
      BY <2>2, Zenon
    <3> QED
      BY <3>1, <3>2
  <2>4. pc' = pc /\ tok' = tok /\ via' = via
    BY <1>7 DEF RenewUnheard
  <2> QED
    BY <2>2, <2>3, <2>4, Zenon DEF From
<1>8. ASSUME NEW m \in net, RenewRefused(m) PROVE Requests'
  BY <1>8 DEF RenewRefused, EndRenewal
<1>9. ASSUME NEW m \in net, AckConfirmed(m) PROVE Requests'
  BY <1>9 DEF AckConfirmed, RemoveRow, Unlock, Goto
<1>10. ASSUME NEW m \in net, AckUnheard(m) PROVE Requests'
  <2> SUFFICES ASSUME NEW k \in net' PROVE RequestOK(k)'
    OBVIOUS
  <2>1. PICK n \in net : Resent(k, n, m)
    <3>1. NetType
      OBVIOUS
    <3> QED
      BY <1>10, <3>1, ReplyLostFacts DEF AckUnheard
  <2>2. RequestOK(n) /\ From(k, n)
    BY <2>1 DEF Resent
  <2>3. k.age <= MaxDelay
    <3>1. k.age = n.age \/ k.age = 0
      BY <2>1, Zenon DEF Resent
    <3>2. n.age <= MaxDelay
      BY <2>2, Zenon
    <3> QED
      BY <3>1, <3>2
  <2>4. pc' = pc /\ tok' = tok /\ via' = via
    BY <1>10 DEF AckUnheard
  <2> QED
    BY <2>2, <2>3, <2>4, Zenon DEF From
<1>11. ASSUME NEW h \in Handlers, Start(h) PROVE Requests'
  BY <1>11 DEF Start, Request
<1>12. ASSUME NEW h \in Handlers, AcquireFails(h) PROVE Requests'
  <2> SUFFICES ASSUME NEW k \in net' PROVE RequestOK(k)'
    OBVIOUS
  <2>1. PICK n \in net : Cut(k, n, {m \in net : m.h = h})
    <3>1. NetType
      OBVIOUS
    <3> QED
      BY <1>12, <3>1, AbandonFacts, Zenon DEF AcquireFails
  <2> QED
    BY ZenonT(40), <1>12, <2>1 DEF AcquireFails, LeaveUnleased, Cut, From
<1>13. ASSUME NEW h \in Handlers, RenewSend(h) PROVE Requests'
  BY <1>13 DEF RenewSend, Renewing, Request
<1>14. ASSUME NEW h \in Handlers, RenewFails(h) PROVE Requests'
  <2> SUFFICES ASSUME NEW k \in net' PROVE RequestOK(k)'
    OBVIOUS
  <2>1. PICK n \in net : Cut(k, n, {m \in net : m.h = h /\ m.kind = "renew"})
    <3>1. NetType
      OBVIOUS
    <3> QED
      BY <1>14, <3>1, AbandonFacts, Zenon DEF RenewFails
  <2> QED
    BY <1>14, <2>1 DEF RenewFails, EndRenewal, Cut, From
<1>15. ASSUME NEW h \in Handlers, CheckTerminal(h) PROVE Requests'
  BY <1>15 DEF CheckTerminal, Goto
<1>16. ASSUME NEW h \in Handlers, SettleFenced(h) PROVE Requests'
  BY <1>16 DEF SettleFenced, SettleGuards, Goto
<1>mark. ASSUME NEW h \in Handlers, MarkUnfenced(h) PROVE Requests'
  BY <1>mark DEF MarkUnfenced, Goto
<1>waive. ASSUME NEW h \in Handlers, Waive(h) PROVE Requests'
  BY <1>waive DEF Waive, Goto
<1>park. ASSUME NEW h \in Handlers, Park(h) PROVE Requests'
  BY <1>park DEF Park, ParkGuards, Goto
<1>17. ASSUME NEW h \in Handlers, SettleRefused(h) PROVE Requests'
  BY <1>17 DEF SettleRefused, SettleGuards, Goto
<1>18. ASSUME NEW h \in Handlers, BuryPoison(h) PROVE Requests'
  BY <1>18 DEF BuryPoison, Goto
<1>19. ASSUME NEW h \in Handlers, Fail(h) PROVE Requests'
  <2> SUFFICES ASSUME NEW k \in net' PROVE RequestOK(k)'
    OBVIOUS
  <2>1. PICK n \in net : Cut(k, n, {m \in net : m.h = h})
    <3>1. NetType
      OBVIOUS
    <3> QED
      BY <1>19, <3>1, AbandonFacts, Zenon DEF Fail
  <2> QED
    BY ZenonT(40), <1>19, <2>1 DEF Fail, Goto, Cut, From
<1>20. ASSUME NEW h \in Handlers, AckSend(h) PROVE Requests'
  BY <1>20 DEF AckSend, MayEnterAck, AckLease, Acking, InWindow, Request
<1>21. ASSUME NEW h \in Handlers, AckRefused(h) PROVE Requests'
  BY <1>21 DEF AckRefused, MayEnterAck, AckLease, Acking, InWindow, Goto
<1>22. ASSUME NEW h \in Handlers, AckFails(h) PROVE Requests'
  <2> SUFFICES ASSUME NEW k \in net' PROVE RequestOK(k)'
    OBVIOUS
  <2>1. PICK n \in net : Cut(k, n, {m \in net : m.h = h /\ m.kind = "xack"})
    <3>1. NetType
      OBVIOUS
    <3> QED
      BY <1>22, <3>1, AbandonFacts, Zenon DEF AckFails
  <2> QED
    BY <1>22, <2>1 DEF AckFails, Unlock, Cut, From
<1>23. ASSUME NEW h \in Handlers, SettleDelivery(h) PROVE Requests'
  BY <1>23 DEF SettleDelivery, DropKeys, Goto
<1>24. ASSUME NEW h \in Handlers, Exit(h) PROVE Requests'
  BY <1>24 DEF Exit, Goto
<1>25. ASSUME NEW h \in Handlers, Deregister(h) PROVE Requests'
  <2> SUFFICES ASSUME NEW k \in net' PROVE RequestOK(k)'
    OBVIOUS
  <2>1. PICK n \in net : Cut(k, n, {m \in net : m.h = h})
    <3>1. NetType
      OBVIOUS
    <3> QED
      BY <1>25, <3>1, AbandonFacts, Zenon DEF Deregister
  <2> QED
    BY <1>25, <2>1 DEF Deregister, Unlock, Goto, Cut, From
<1>26. ASSUME NEW c \in Consumers, Crash(c) PROVE Requests'
  <2> SUFFICES ASSUME NEW k \in net' PROVE RequestOK(k)'
    OBVIOUS
  <2>1. PICK n \in net : Cut(k, n, {m \in net : m.h \in {h \in Handlers : Home[h] = c}})
    <3>1. NetType
      OBVIOUS
    <3> QED
      BY <1>26, <3>1, AbandonFacts, Zenon DEF Crash
  <2> QED
    BY <1>26, <2>1 DEF Crash, Cut, From
<1>27. ASSUME Tick PROVE Requests'
  <2> SUFFICES ASSUME NEW k \in net' PROVE RequestOK(k)'
    OBVIOUS
  <2>1. PICK n \in net : Older(k, n)
    <3>1. NetType
      OBVIOUS
    <3> QED
      BY <1>27, <3>1, TickFacts
  <2>2. RequestOK(n) /\ From(k, n)
    BY <2>1 DEF Older
  <2>3. k.age <= MaxDelay
    BY <2>1, <2>2, MessageType DEF NetType, Older
  <2>4. pc' = pc /\ tok' = tok /\ via' = via
    BY <1>27 DEF Tick
  <2> QED
    BY <2>2, <2>3, <2>4, Zenon DEF From
<1>28. QED
  BY <1>mark, <1>waive, <1>park, <1>1, <1>2, <1>3, <1>4, <1>5, <1>6, <1>7, <1>8, <1>9, <1>10, <1>11, <1>12,
     <1>13, <1>14, <1>15, <1>16, <1>17, <1>18, <1>19, <1>20, <1>21, <1>22,
     <1>23, <1>24, <1>25, <1>26, <1>27
     DEF Next, ServerStep, HandlerStep, ConsumerStep, LocalDeadline, Deliver,
         Claim, Condemn, MaintBury, MaintAck, MaintSettle, RemoveRow, DropKeys,
         valkey, objects, procs, vars

(* No action sends a second acquisition with one token, or a second XACK *)
(* before the first has been answered or given up.                       *)
LEMMA UniqueRequestsStep ==
  ASSUME TypeOK, DrawnRequests, Requests, UniqueRequests, [Next]_vars
  PROVE  UniqueRequests'
<1> SUFFICES ASSUME NEW k1 \in net', NEW k2 \in net' PROVE Same(k1, k2)
  BY DEF UniqueRequests, Same
<1>1. NetType
  BY DEF TypeOK
<1>2. ASSUME NEW m \in net, ReplyLost(m) PROVE Same(k1, k2)
  <2>1. PICK n1 \in net : Resent(k1, n1, m)
    BY <1>1, <1>2, ReplyLostFacts
  <2>2. PICK n2 \in net : Resent(k2, n2, m)
    BY <1>1, <1>2, ReplyLostFacts
  <2>3. Same(n1, n2)
    BY DEF UniqueRequests
  <2>4. QED
    BY <2>1, <2>2, <2>3 DEF Same, Resent, From
<1>3. ASSUME NEW S \in SUBSET net, net' = Abandon(S) PROVE Same(k1, k2)
  <2>1. PICK n1 \in net : Cut(k1, n1, S)
    BY <1>1, <1>3, AbandonFacts
  <2>2. PICK n2 \in net : Cut(k2, n2, S)
    BY <1>1, <1>3, AbandonFacts
  <2>3. Same(n1, n2)
    BY DEF UniqueRequests
  <2>4. QED
    BY <2>1, <2>2, <2>3 DEF Same, Cut, From
<1>4. CASE Tick
  <2>1. PICK n1 \in net : Older(k1, n1)
    BY <1>1, <1>4, TickFacts
  <2>2. PICK n2 \in net : Older(k2, n2)
    BY <1>1, <1>4, TickFacts
  <2>3. Same(n1, n2)
    BY DEF UniqueRequests
  <2>4. QED
    BY <2>1, <2>2, <2>3 DEF Same, Older, From
<1>5. CASE net' \subseteq net
  BY <1>5 DEF UniqueRequests
<1>6. ASSUME NEW h \in Handlers, Start(h) PROVE Same(k1, k2)
  <2> DEFINE r == Request("acquire", h, minted + 1, 0)
  <2>1. net' = net \cup {r} /\ r.kind = "acquire" /\ r.tok = minted + 1
    BY <1>6 DEF Start, Request
  <2> HIDE DEF r
  <2>2. \A m \in net : m.tok # minted + 1
    BY ConstantsAssumption, MessageType DEF DrawnRequests, TypeOK, NetType, ObjectType
  <2>3. QED
    BY <2>1, <2>2 DEF UniqueRequests, Same
<1>7. ASSUME NEW h \in Handlers, RenewSend(h) PROVE Same(k1, k2)
  BY <1>7 DEF RenewSend, Request, UniqueRequests, Same
<1>8. ASSUME NEW h \in Handlers, AckSend(h) PROVE Same(k1, k2)
  <2> DEFINE r == Request("xack", h, AckLease(h), 0)
  <2>1. net' = net \cup {r} /\ r.kind = "xack" /\ r.h = h
    BY <1>8 DEF AckSend, Request
  <2> HIDE DEF r
  <2>2. \A m \in net : ~(m.kind = "xack" /\ m.live /\ m.h = h)
    BY <1>8 DEF AckSend, MayEnterAck, Acking, Requests, RequestOK
  <2>3. QED
    BY <2>1, <2>2 DEF UniqueRequests, Same
<1>9. QED
  BY <1>2, <1>3, <1>4, <1>5, <1>6, <1>7, <1>8, NetworkStep

(* A slot's token is in an acquire request exactly while it is acquiring. *)
LEMMA RequestTokensStep ==
  ASSUME TypeOK, OwnTokens, DrawnRequests, Requests, UniqueRequests, FreshToken,
         RequestTokens, [Next]_vars
  PROVE  RequestTokens'
<1> SUFFICES ASSUME NEW k \in net', NEW g \in Handlers, k.tok # 0, tok'[g] = k.tok
             PROVE  k.kind = "acquire" <=> pc'[g] = "acquiring"
  BY DEF RequestTokens
<1> USE ConstantsAssumption
<1>0. SlotTokenAfter(g)
  BY SlotTokenStays
<1>1. ASSUME NEW n \in net, From(k, n) PROVE k.kind = "acquire" <=> pc'[g] = "acquiring"
  <2>1. CASE tok'[g] = tok[g] /\ (pc'[g] = "acquiring" <=> pc[g] = "acquiring")
    BY <1>1, <2>1 DEF RequestTokens, From
  <2>2. CASE Start(g)
    BY <1>1, <2>2, MessageType DEF Start, From, DrawnRequests, TypeOK, NetType, ObjectType, SlotType
  <2>3. ASSUME NEW m \in net, AcquireGranted(m), m.h = g PROVE FALSE \/ (k.kind = "acquire" <=> pc'[g] = "acquiring")
    BY <2>3 DEF AcquireGranted, Requests, RequestOK, UniqueRequests, Same, TypeOK, SlotType
  <2>4. QED
  BY <1>0, <2>1, <2>2, <2>3 DEF SlotTokenAfter
<1>2. ASSUME NEW h \in Handlers, Start(h), k = Request("acquire", h, minted + 1, 0)
      PROVE  k.kind = "acquire" <=> pc'[g] = "acquiring"
  BY <1>2 DEF Start, Request, OwnTokens, TypeOK, ObjectType, SlotType
<1>3. ASSUME NEW h \in Handlers, RenewSend(h), k = Request("renew", h, tok[h], ownGen[h])
      PROVE  k.kind = "acquire" <=> pc'[g] = "acquiring"
  BY <1>3 DEF RenewSend, Renewing, Holding, Request, OwnTokens, slots
<1>4. ASSUME NEW h \in Handlers, AckSend(h), k = Request("xack", h, AckLease(h), 0)
      PROVE  k.kind = "acquire" <=> pc'[g] = "acquiring"
  BY <1>4 DEF AckSend, AckLease, MayEnterAck, Request, FreshToken, TypeOK, SlotType
<1>5. QED
  BY <1>1, <1>2, <1>3, <1>4, RequestOrigin

(* A lease is registered in _held_leases only after its acquisition. *)
LEMMA FreshTokenStep ==
  ASSUME TypeOK, OwnTokens, DrawnTokens, Requests, FreshToken, [Next]_vars
  PROVE  FreshToken'
<1> USE ConstantsAssumption
<1>m. \A m \in net : /\ m.h \in Handlers /\ m.tok \in 0..MaxToken /\ m.gen \in Nat
                    /\ m.kind \in {"acquire", "renew", "xack"}
  BY MessageType DEF TypeOK, NetType
<1>t. \A h \in Handlers : pc[h] # "idle" => tok[h] \in Tokens
  BY DEF TypeOK, SlotType, OwnTokens, Tokens
<1> USE <1>m, <1>t DEF TypeOK, ObjectType, SlotType, ProcType, OwnTokens, DrawnTokens, Requests, RequestOK, FreshToken, Holding, slots, procs
<1>1. CASE UNCHANGED <<pc, tok, via, held>>
  BY <1>1
<1>2. ASSUME NEW m \in net, AcquireGranted(m) PROVE FreshToken'
  BY <1>2 DEF AcquireGranted, AcquireGuards, GrantLease
<1>3. ASSUME NEW m \in net, AcquireRefused(m) PROVE FreshToken'
  BY <1>3 DEF AcquireRefused, LeaveUnleased
<1>4. ASSUME NEW m \in net, AckConfirmed(m) PROVE FreshToken'
  BY <1>4 DEF AckConfirmed, RemoveRow, Unlock, Goto
<1>5. ASSUME NEW h \in Handlers, Start(h) PROVE FreshToken'
  BY <1>5 DEF Start
<1>6. ASSUME NEW h \in Handlers, AcquireFails(h) PROVE FreshToken'
  BY <1>6 DEF AcquireFails, LeaveUnleased
<1>7. ASSUME NEW h \in Handlers, CheckTerminal(h) PROVE FreshToken'
  BY <1>7 DEF CheckTerminal, Goto
<1>8. ASSUME NEW h \in Handlers, SettleFenced(h) PROVE FreshToken'
  BY <1>8 DEF SettleFenced, SettleGuards, Goto
<1>mark. ASSUME NEW h \in Handlers, MarkUnfenced(h) PROVE FreshToken'
  BY <1>mark DEF MarkUnfenced, Goto
<1>waive. ASSUME NEW h \in Handlers, Waive(h) PROVE FreshToken'
  BY <1>waive DEF Waive, Goto
<1>park. ASSUME NEW h \in Handlers, Park(h) PROVE FreshToken'
  BY <1>park DEF Park, ParkGuards, Goto
<1>9. ASSUME NEW h \in Handlers, SettleRefused(h) PROVE FreshToken'
  BY <1>9 DEF SettleRefused, SettleGuards, Goto
<1>10. ASSUME NEW h \in Handlers, BuryPoison(h) PROVE FreshToken'
  BY <1>10 DEF BuryPoison, Goto
<1>11. ASSUME NEW h \in Handlers, Fail(h) PROVE FreshToken'
  BY <1>11 DEF Fail, Goto
<1>12. ASSUME NEW h \in Handlers, AckSend(h) PROVE FreshToken'
  BY <1>12 DEF AckSend, MayEnterAck, AckLease, Acking, InWindow
<1>13. ASSUME NEW h \in Handlers, AckRefused(h) PROVE FreshToken'
  BY <1>13 DEF AckRefused, MayEnterAck, AckLease, Acking, InWindow, Goto
<1>14. ASSUME NEW h \in Handlers, SettleDelivery(h) PROVE FreshToken'
  BY <1>14 DEF SettleDelivery, DropKeys, Goto
<1>15. ASSUME NEW h \in Handlers, Exit(h) PROVE FreshToken'
  BY <1>15 DEF Exit, ReleaseScript, Goto
<1>16. ASSUME NEW h \in Handlers, Deregister(h) PROVE FreshToken'
  BY <1>16 DEF Deregister, Unlock, Goto
<1>17. ASSUME NEW c \in Consumers, Crash(c) PROVE FreshToken'
  BY <1>17 DEF Crash
<1>18. QED
  BY <1>mark, <1>waive, <1>park, <1>1, <1>2, <1>3, <1>4, <1>5, <1>6, <1>7, <1>8, <1>9, <1>10, <1>11, <1>12,
     <1>13, <1>14, <1>15, <1>16, <1>17
     DEF Next, ServerStep, HandlerStep, ConsumerStep, Lose,
         AcquireGrantedUnheard, RenewConfirmed, RenewUnheard, RenewRefused,
         AckUnheard, RenewSend, RenewFails, LocalDeadline, AckFails, Deliver, Claim,
         Condemn, MaintBury, MaintAck, MaintSettle, Tick, GrantLease, ExtendLease,
         RemoveRow, DropKeys, valkey, objects, vars

(* The lease key exists exactly while it has life left. *)
LEMMA LeaseKeyStep ==
  ASSUME TypeOK, LeaseKey, Requests, [Next]_vars
  PROVE  LeaseKey'
<1> USE ConstantsAssumption
<1>m. \A m \in net : /\ m.h \in Handlers /\ m.tok \in 0..MaxToken /\ m.gen \in Nat
                    /\ m.kind \in {"acquire", "renew", "xack"}
  BY MessageType DEF TypeOK, NetType
<1> USE <1>m DEF TypeOK, ValkeyType, NetType, SlotType, Requests, RequestOK, LeaseKey, valkey
<1>1. CASE UNCHANGED <<leaseTok, leaseLeft>>
  BY <1>1
<1>2. ASSUME NEW m \in net, AcquireGranted(m) PROVE LeaseKey'
  BY <1>2 DEF AcquireGranted, AcquireGuards, GrantLease
<1>3. ASSUME NEW m \in net, AcquireGrantedUnheard(m) PROVE LeaseKey'
  BY <1>3 DEF AcquireGrantedUnheard, AcquireGuards, GrantLease
<1>4. ASSUME NEW m \in net, RenewConfirmed(m) PROVE LeaseKey'
  BY <1>4 DEF RenewConfirmed, RenewGuards, ExtendLease, EndRenewal
<1>5. ASSUME NEW m \in net, RenewUnheard(m) PROVE LeaseKey'
  BY <1>5 DEF RenewUnheard, RenewGuards, ExtendLease
<1>6. ASSUME NEW h \in Handlers, SettleDelivery(h) PROVE LeaseKey'
  BY <1>6 DEF SettleDelivery, DropKeys, Goto
<1>7. ASSUME NEW h \in Handlers, Exit(h) PROVE LeaseKey'
  BY <1>7 DEF Exit, ReleaseScript, Goto
<1>8. ASSUME NEW h \in Handlers, Deregister(h) PROVE LeaseKey'
  BY <1>8 DEF Deregister, valkey
<1>9. ASSUME NEW c \in Consumers, MaintSettle(c) PROVE LeaseKey'
  BY <1>9 DEF MaintSettle, SetMaint, DropKeys
<1>10. ASSUME Tick PROVE LeaseKey'
  BY <1>10 DEF Tick, Dec
<1>11. QED
  BY ZenonT(40), <1>1, <1>2, <1>3, <1>4, <1>5, <1>6, <1>7, <1>8, <1>9, <1>10
     DEF Next, ServerStep, HandlerStep, ConsumerStep, Lose, AcquireRefused,
         RenewRefused, AckConfirmed, AckUnheard, Start, AcquireFails, RenewSend,
         RenewFails, LocalDeadline, CheckTerminal, SettleFenced, MarkUnfenced, Waive, Park, SettleRefused,
         BuryPoison, Fail, AckSend, AckRefused, AckFails, Deliver, Claim, Condemn,
         MaintBury, MaintAck, Crash, RemoveRow, objects, slots, procs, vars

(* The heart of the fence: the local window is anchored before the request      *)
(* that sets the key's expiry is sent, and is one heartbeat shorter, so it ends *)
(* first whatever the delays; nobody else can hold the key meanwhile.           *)
LEMMA LeasedStep ==
  ASSUME TypeOK, Untouched, OwnTokens, Requests, OutcomeFirst, Leased, [Next]_vars
  PROVE  Leased'
<1> SUFFICES ASSUME entry' = "pending", NEW g \in Handlers,
                    pc'[g] \in Holding, left'[tok'[g]] > 0
             PROVE  leaseTok' = tok'[g] /\ leaseLeft' >= left'[tok'[g]] + Heartbeat
  BY DEF Leased
<1> USE ConstantsAssumption, WindowNat
<1>1. HolderBefore(g)
  BY HolderStays
<1>2. ASSUME NEW m \in net, AcquireGranted(m), m.h = g
      PROVE  leaseTok' = tok'[g] /\ leaseLeft' >= left'[tok'[g]] + Heartbeat
  <2>1. m.tok \in Tokens /\ tok'[g] = m.tok
    BY <1>1, <1>2, MessageType
       DEF HolderBefore, AcquireGranted, Requests, RequestOK, TypeOK, NetType, Tokens
  <2>2. left'[m.tok] \in 0..Window
    BY <1>2, <2>1 DEF AcquireGranted, TypeOK, ObjectType, objects
  <2>3. QED
    BY <1>2, <2>1, <2>2 DEF AcquireGranted, GrantLease
<1>3. CASE pc[g] \in Holding /\ tok'[g] = tok[g]
  <2>1. entry = "pending"
    BY <1>3, PendingBefore
  <2>2. tok[g] \in Tokens
    BY <1>3 DEF TypeOK, SlotType, OwnTokens, Holding, Tokens
  <2>3. ASSUME NEW m \in net, RenewConfirmed(m), m.tok = tok[g]
        PROVE  leaseTok' = tok'[g] /\ leaseLeft' >= left'[tok'[g]] + Heartbeat
    <3>1. left'[m.tok] \in 0..Window
      BY <2>2, <2>3 DEF RenewConfirmed, TypeOK, ObjectType
    <3>2. QED
      BY <1>3, <2>3, <3>1 DEF RenewConfirmed, RenewGuards, ExtendLease
  <2>4. CASE left'[tok[g]] = left[tok[g]] /\ ~Tick
    <3>1. leaseTok = tok[g] /\ leaseLeft >= left[tok[g]] + Heartbeat
      BY <1>3, <2>1, <2>4 DEF Leased
    <3>2. leaseTok' = leaseTok /\ leaseLeft' >= leaseLeft
      BY <1>3, <2>4, <3>1, LeaseStays DEF LeaseAfter
    <3>3. leaseLeft' \in Int /\ leaseLeft \in Int /\ left[tok[g]] \in Int
      BY <2>2, ValkeyTypeStep DEF TypeOK, ValkeyType, ObjectType
    <3>4. QED
      BY <1>3, <2>4, <3>1, <3>2, <3>3
  <2>5. CASE Tick
    <3>1. left'[tok[g]] = Dec(left[tok[g]]) /\ left[tok[g]] \in Nat
      BY <2>2, <2>5 DEF Tick, TypeOK, ObjectType
    <3>2. left[tok[g]] > 0
      BY <1>3, <3>1 DEF Dec
    <3>3. leaseTok = tok[g] /\ leaseLeft >= left[tok[g]] + Heartbeat
      BY <1>3, <2>1, <3>2 DEF Leased
    <3>4. QED
      BY <1>3, <2>5, <3>1, <3>3 DEF Tick, Dec, TypeOK, ValkeyType
  <2>6. QED
    BY <1>3, <2>3, <2>4, <2>5, WindowStays DEF WindowAfter
<1>4. QED
  BY <1>1, <1>2, <1>3 DEF HolderBefore

(* An XACK is sent inside the local window and arrives within MaxDelay, which *)
(* is at most the heartbeat by which the window is shorter than the lease.    *)
LEMMA LeasedAckStep ==
  ASSUME TypeOK, Untouched, OwnTokens, Requests, RequestTokens, OutcomeFirst,
         Leased, LeasedAck, [Next]_vars
  PROVE  LeasedAck'
<1> SUFFICES ASSUME entry' = "pending", NEW k \in net', NEW g \in Handlers, AckUnder(k, g)'
             PROVE  leaseTok' = k.tok /\ leaseLeft' + k.age >= 1 + Heartbeat
  BY DEF LeasedAck
<1> USE ConstantsAssumption
<1>1. HolderBefore(g) /\ k.kind = "xack" /\ k.tok # 0 /\ tok[g] = k.tok
  BY HolderStays DEF AckUnder, HolderBefore
<1>2. ASSUME NEW m \in net, AcquireGranted(m), m.h = g PROVE FALSE
  BY <1>1, <1>2 DEF AcquireGranted, Requests, RequestOK, RequestTokens
<1>3. pc[g] \in Holding /\ entry = "pending" /\ tok[g] \in Tokens
  BY <1>1, <1>2, PendingBefore DEF HolderBefore, TypeOK, SlotType, Tokens
<1>4. leaseLeft \in Nat /\ leaseLeft' \in Nat /\ left[tok[g]] \in Nat
  BY <1>3, ValkeyTypeStep DEF TypeOK, ValkeyType, ObjectType
<1>5. ASSUME NEW n \in net, From(k, n), ~Tick
      PROVE  leaseTok' = k.tok /\ leaseLeft' + k.age >= 1 + Heartbeat
  <2>1. AckUnder(n, g) /\ n.tok = k.tok /\ n.age \in Nat /\ k.age \in Nat
    BY <1>1, <1>3, <1>5, MessageType DEF From, AckUnder, TypeOK, NetType
  <2>2. leaseTok = k.tok /\ leaseLeft + n.age >= 1 + Heartbeat
    BY <1>3, <2>1 DEF LeasedAck
  <2>3. k.age >= n.age \/ left[tok[g]] > 0
    BY <1>1, <1>5, <2>1 DEF From, AckUnder
  <2>4. leaseLeft + k.age >= 1 + Heartbeat
    BY <1>3, <1>4, <2>1, <2>2, <2>3 DEF Leased
  <2>5. leaseTok' = leaseTok /\ leaseLeft' >= leaseLeft
    BY <1>1, <1>3, <1>5, <2>2, LeaseStays DEF LeaseAfter, AckUnder
  <2>6. QED
    BY <1>4, <2>1, <2>2, <2>4, <2>5
<1>6. CASE Tick
  <2>1. PICK n \in net : Older(k, n)
    BY <1>6, TickFacts DEF TypeOK
  <2>2. AckUnder(n, g) /\ n.tok = k.tok /\ n.age \in Nat /\ k.age = n.age + 1 /\ n.age < MaxDelay
    BY <1>1, <1>3, <2>1, MessageType DEF Older, From, AckUnder, TypeOK, NetType
  <2>3. leaseTok = k.tok /\ leaseLeft + n.age >= 1 + Heartbeat
    BY <1>3, <2>2 DEF LeasedAck
  <2>4. QED
    BY <1>4, <1>6, <2>2, <2>3 DEF Tick, Dec
<1>7. ASSUME NEW h \in Handlers, AckSend(h), k = Request("xack", h, AckLease(h), 0)
      PROVE  leaseTok' = k.tok /\ leaseLeft' + k.age >= 1 + Heartbeat
  <2>1. k.tok = AckLease(h) /\ k.age = 0
    BY <1>7 DEF Request
  <2>2. left[tok[g]] > 0
    BY <1>1, <1>7, <2>1 DEF AckSend, InWindow
  <2>3. leaseTok = k.tok /\ leaseLeft >= 1 + Heartbeat
    BY <1>1, <1>3, <1>4, <2>2 DEF Leased
  <2>4. QED
    BY <1>4, <1>7, <2>1, <2>3 DEF AckSend, valkey
<1>8. QED
  <2>1. \A h \in Handlers : k # Request("acquire", h, minted + 1, 0) /\ k # Request("renew", h, tok[h], ownGen[h])
    BY <1>1 DEF Request
  <2>2. QED
    BY <1>5, <1>6, <1>7, <2>1, RequestOrigin

(* A new owner's turn starts only after is_terminal was false, and the old *)
(* owner's settle_fenced is refused once the key names the new one.        *)
LEMMA TurnIsFirstStep ==
  ASSUME TypeOK, OwnTokens, Requests, RequestTokens, TurnIsFirst, [Next]_vars
  PROVE  TurnIsFirst'
<1> USE ConstantsAssumption
<1>m. \A m \in net : /\ m.h \in Handlers /\ m.tok \in 0..MaxToken /\ m.gen \in Nat
                    /\ m.kind \in {"acquire", "renew", "xack"}
  BY MessageType DEF TypeOK, NetType
<1>t. \A h \in Handlers : pc[h] # "idle" => tok[h] \in Tokens
  BY DEF TypeOK, SlotType, OwnTokens, Tokens
<1> USE <1>m, <1>t DEF TypeOK, ValkeyType, SlotType, OwnTokens, Requests, RequestOK, RequestTokens, TurnIsFirst, Holding, valkey, slots
<1>1. CASE UNCHANGED <<leaseTok, doneBy, pc, tok>>
  BY <1>1
<1>2. ASSUME NEW m \in net, AcquireGranted(m) PROVE TurnIsFirst'
  BY <1>2 DEF AcquireGranted, AcquireGuards, GrantLease
<1>3. ASSUME NEW m \in net, AcquireGrantedUnheard(m) PROVE TurnIsFirst'
  BY <1>3 DEF AcquireGrantedUnheard, AcquireGuards, GrantLease
<1>4. ASSUME NEW m \in net, AcquireRefused(m) PROVE TurnIsFirst'
  BY <1>4 DEF AcquireRefused, LeaveUnleased
<1>5. ASSUME NEW m \in net, AckConfirmed(m) PROVE TurnIsFirst'
  BY <1>5 DEF AckConfirmed, RemoveRow, Unlock, Goto
<1>6. ASSUME NEW h \in Handlers, Start(h) PROVE TurnIsFirst'
  BY <1>6 DEF Start
<1>7. ASSUME NEW h \in Handlers, AcquireFails(h) PROVE TurnIsFirst'
  BY <1>7 DEF AcquireFails, LeaveUnleased
<1>8. ASSUME NEW h \in Handlers, CheckTerminal(h) PROVE TurnIsFirst'
  BY <1>8 DEF CheckTerminal, Done, Goto
<1>9. ASSUME NEW h \in Handlers, SettleFenced(h) PROVE TurnIsFirst'
  BY ZenonT(40), <1>9 DEF SettleFenced, SettleGuards, Goto
<1>mark. ASSUME NEW h \in Handlers, MarkUnfenced(h) PROVE TurnIsFirst'
  BY <1>mark DEF MarkUnfenced, Goto
<1>waive. ASSUME NEW h \in Handlers, Waive(h) PROVE TurnIsFirst'
  BY <1>waive DEF Waive, Goto
<1>park. ASSUME NEW h \in Handlers, Park(h) PROVE TurnIsFirst'
  BY <1>park DEF Park, ParkGuards, Goto
<1>10. ASSUME NEW h \in Handlers, SettleRefused(h) PROVE TurnIsFirst'
  BY <1>10 DEF SettleRefused, SettleGuards, Goto
<1>11. ASSUME NEW h \in Handlers, BuryPoison(h) PROVE TurnIsFirst'
  BY <1>11 DEF BuryPoison, Goto
<1>12. ASSUME NEW h \in Handlers, Fail(h) PROVE TurnIsFirst'
  BY <1>12 DEF Fail, Goto
<1>13. ASSUME NEW h \in Handlers, AckSend(h) PROVE TurnIsFirst'
  BY <1>13 DEF AckSend, MayEnterAck, AckLease, Acking, InWindow
<1>14. ASSUME NEW h \in Handlers, AckRefused(h) PROVE TurnIsFirst'
  BY <1>14 DEF AckRefused, MayEnterAck, AckLease, Acking, InWindow, Goto
<1>15. ASSUME NEW h \in Handlers, SettleDelivery(h) PROVE TurnIsFirst'
  BY <1>15 DEF SettleDelivery, DropKeys, Goto
<1>16. ASSUME NEW h \in Handlers, Exit(h) PROVE TurnIsFirst'
  BY <1>16 DEF Exit, ReleaseScript, Goto
<1>17. ASSUME NEW h \in Handlers, Deregister(h) PROVE TurnIsFirst'
  BY <1>17 DEF Deregister, Unlock, Goto
<1>18. ASSUME NEW c \in Consumers, MaintSettle(c) PROVE TurnIsFirst'
  BY <1>18 DEF MaintSettle, SetMaint, DropKeys
<1>19. ASSUME NEW c \in Consumers, Crash(c) PROVE TurnIsFirst'
  BY <1>19 DEF Crash
<1>20. ASSUME Tick PROVE TurnIsFirst'
  BY <1>20 DEF Tick
<1>21. QED
  BY <1>mark, <1>waive, <1>park, <1>1, <1>2, <1>3, <1>4, <1>5, <1>6, <1>7, <1>8, <1>9, <1>10, <1>11, <1>12,
     <1>13, <1>14, <1>15, <1>16, <1>17, <1>18, <1>19, <1>20
     DEF Next, ServerStep, HandlerStep, ConsumerStep, Lose, RenewConfirmed,
         RenewUnheard, RenewRefused, AckUnheard, RenewSend, RenewFails,
         LocalDeadline, AckFails, Deliver, Claim, Condemn, MaintBury, MaintAck,
         ExtendLease, RemoveRow, objects, procs, vars

(* Every path to _ack passes a marker, the graveyard XADD or a waiver. *)
LEMMA OutcomeFirstStep ==
  ASSUME TypeOK, Untouched, OwnTokens, Requests, OutcomeFirst, AckAfterOutcome, [Next]_vars
  PROVE  OutcomeFirst'
<1> USE ConstantsAssumption
<1>m. \A m \in net : /\ m.h \in Handlers /\ m.tok \in 0..MaxToken /\ m.gen \in Nat
                    /\ m.kind \in {"acquire", "renew", "xack"}
  BY MessageType DEF TypeOK, NetType
<1>t. \A h \in Handlers : pc[h] # "idle" => tok[h] \in Tokens
  BY DEF TypeOK, SlotType, OwnTokens, Tokens
<1> USE <1>m, <1>t DEF TypeOK, ValkeyType, ObjectType, SlotType, ProcType, Untouched, OwnTokens, Requests, RequestOK, OutcomeFirst, AckAfterOutcome, Outcome, Done, Holding, valkey, objects, slots, procs
<1>1. CASE UNCHANGED <<class, entry, doneBy, buried, endings, lost, pc, tok, maint>>
  BY <1>1
<1>2. ASSUME NEW m \in net, AcquireGranted(m) PROVE OutcomeFirst'
  BY <1>2 DEF AcquireGranted, AcquireGuards, GrantLease
<1>3. ASSUME NEW m \in net, AcquireRefused(m) PROVE OutcomeFirst'
  BY <1>3 DEF AcquireRefused, LeaveUnleased
<1>4. ASSUME NEW m \in net, RenewRefused(m) PROVE OutcomeFirst'
  BY <1>4 DEF RenewRefused, EndRenewal
<1>5. ASSUME NEW m \in net, AckConfirmed(m) PROVE OutcomeFirst'
  BY <1>5 DEF AckConfirmed, RemoveRow, Unlock, Goto
<1>6. ASSUME NEW m \in net, AckUnheard(m) PROVE OutcomeFirst'
  BY <1>6 DEF AckUnheard, RemoveRow
<1>7. ASSUME NEW h \in Handlers, Start(h) PROVE OutcomeFirst'
  BY <1>7 DEF Start
<1>8. ASSUME NEW h \in Handlers, AcquireFails(h) PROVE OutcomeFirst'
  BY <1>8 DEF AcquireFails, LeaveUnleased
<1>9. ASSUME NEW h \in Handlers, LocalDeadline(h) PROVE OutcomeFirst'
  BY <1>9 DEF LocalDeadline, Renewing
<1>10. ASSUME NEW h \in Handlers, CheckTerminal(h) PROVE OutcomeFirst'
  BY <1>10 DEF CheckTerminal, Goto
<1>11. ASSUME NEW h \in Handlers, SettleFenced(h) PROVE OutcomeFirst'
  BY <1>11 DEF SettleFenced, SettleGuards, Goto
<1>mark. ASSUME NEW h \in Handlers, MarkUnfenced(h) PROVE OutcomeFirst'
  BY <1>mark DEF MarkUnfenced, Goto
<1>waive. ASSUME NEW h \in Handlers, Waive(h) PROVE OutcomeFirst'
  BY <1>waive DEF Waive, Goto
<1>park. ASSUME NEW h \in Handlers, Park(h) PROVE OutcomeFirst'
  BY <1>park DEF Park, ParkGuards, Goto
<1>12. ASSUME NEW h \in Handlers, SettleRefused(h) PROVE OutcomeFirst'
  BY <1>12 DEF SettleRefused, SettleGuards, Goto
<1>13. ASSUME NEW h \in Handlers, BuryPoison(h) PROVE OutcomeFirst'
  BY <1>13 DEF BuryPoison, Goto
<1>14. ASSUME NEW h \in Handlers, Fail(h) PROVE OutcomeFirst'
  BY <1>14 DEF Fail, Goto
<1>15. ASSUME NEW h \in Handlers, AckSend(h) PROVE OutcomeFirst'
  BY <1>15 DEF AckSend, MayEnterAck, AckLease, Acking, InWindow
<1>16. ASSUME NEW h \in Handlers, AckRefused(h) PROVE OutcomeFirst'
  BY <1>16 DEF AckRefused, MayEnterAck, AckLease, Acking, InWindow, Goto
<1>17. ASSUME NEW h \in Handlers, SettleDelivery(h) PROVE OutcomeFirst'
  BY <1>17 DEF SettleDelivery, DropKeys, Goto
<1>18. ASSUME NEW h \in Handlers, Exit(h) PROVE OutcomeFirst'
  BY <1>18 DEF Exit, ReleaseScript, Goto
<1>19. ASSUME NEW h \in Handlers, Deregister(h) PROVE OutcomeFirst'
  BY <1>19 DEF Deregister, Unlock, Goto
<1>20. ASSUME NEW c \in Consumers, Deliver(c) PROVE OutcomeFirst'
  BY <1>20 DEF Deliver
<1>21. ASSUME NEW c \in Consumers, Condemn(c) PROVE OutcomeFirst'
  BY <1>21 DEF Condemn, SetMaint
<1>22. ASSUME NEW c \in Consumers, MaintBury(c) PROVE OutcomeFirst'
  BY <1>22 DEF MaintBury, SetMaint, DeadLetterRefusal
<1>23. ASSUME NEW c \in Consumers, MaintAck(c) PROVE OutcomeFirst'
  BY <1>23 DEF MaintAck, SetMaint, RemoveRow, InWindow
<1>24. ASSUME NEW c \in Consumers, MaintSettle(c) PROVE OutcomeFirst'
  BY <1>24 DEF MaintSettle, SetMaint, DropKeys
<1>25. ASSUME NEW c \in Consumers, Crash(c) PROVE OutcomeFirst'
  BY <1>25 DEF Crash
<1>26. QED
  BY <1>mark, <1>waive, <1>park, <1>1, <1>2, <1>3, <1>4, <1>5, <1>6, <1>7, <1>8, <1>9, <1>10, <1>11, <1>12,
     <1>13, <1>14, <1>15, <1>16, <1>17, <1>18, <1>19, <1>20, <1>21, <1>22, <1>23,
     <1>24, <1>25
     DEF Next, ServerStep, HandlerStep, ConsumerStep, Lose,
         AcquireGrantedUnheard, RenewConfirmed, RenewUnheard, RenewSend, RenewFails,
         AckFails, Claim, Tick, GrantLease, ExtendLease, vars

(* ... so every XACK under way was sent after a durable outcome. *)
LEMMA AckAfterOutcomeStep ==
  ASSUME TypeOK, OutcomeFirst, AckAfterOutcome, [Next]_vars
  PROVE  AckAfterOutcome'
<1> SUFFICES ASSUME NEW k \in net', k.kind = "xack" PROVE Outcome'
  BY DEF AckAfterOutcome
<1>1. ASSUME NEW n \in net, From(k, n) PROVE Outcome
  BY <1>1 DEF AckAfterOutcome, From
<1>2. ASSUME NEW h \in Handlers, AckSend(h) PROVE Outcome
  BY <1>2 DEF AckSend, MayEnterAck, OutcomeFirst
<1>3. \A h \in Handlers : k # Request("acquire", h, minted + 1, 0) /\ k # Request("renew", h, tok[h], ownGen[h])
  BY DEF Request
<1>4. QED
  BY <1>1, <1>2, <1>3, RequestOrigin, OutcomeStays

(* Authority is gained by a grant or a confirmed renewal only, and either needs *)
(* the lease key, which the previous authority would still own (Leased).        *)
LEMMA OneAuthorityStep ==
  ASSUME TypeOK, OwnTokens, Requests, Leased, OneAuthority, [Next]_vars
  PROVE  OneAuthority'
<1> USE ConstantsAssumption
<1>m. \A m \in net : /\ m.h \in Handlers /\ m.tok \in 0..MaxToken /\ m.gen \in Nat
                    /\ m.kind \in {"acquire", "renew", "xack"}
  BY MessageType DEF TypeOK, NetType
<1>t. \A h \in Handlers : pc[h] # "idle" => tok[h] \in Tokens
  BY DEF TypeOK, SlotType, OwnTokens, Tokens
<1>w. Window \in Nat /\ Window > 0
  BY WindowNat
<1> USE <1>m, <1>t, <1>w DEF TypeOK, ValkeyType, NetType, ObjectType, SlotType, OwnTokens, Requests, RequestOK, Leased, OneAuthority, Authority, Holding, objects, slots
<1>1. CASE UNCHANGED <<left, lost, pc, tok>>
  BY <1>1
<1>2. ASSUME NEW m \in net, AcquireGranted(m) PROVE OneAuthority'
  BY <1>2 DEF AcquireGranted, AcquireGuards, GrantLease
<1>3. ASSUME NEW m \in net, AcquireRefused(m) PROVE OneAuthority'
  BY <1>3 DEF AcquireRefused, LeaveUnleased
<1>4. ASSUME NEW m \in net, RenewConfirmed(m) PROVE OneAuthority'
  BY <1>4 DEF RenewConfirmed, RenewGuards, ExtendLease, EndRenewal
<1>5. ASSUME NEW m \in net, RenewRefused(m) PROVE OneAuthority'
  BY <1>5 DEF RenewRefused, EndRenewal
<1>6. ASSUME NEW m \in net, AckConfirmed(m) PROVE OneAuthority'
  BY <1>6 DEF AckConfirmed, RemoveRow, Unlock, Goto
<1>7. ASSUME NEW h \in Handlers, Start(h) PROVE OneAuthority'
  BY <1>7 DEF Start
<1>8. ASSUME NEW h \in Handlers, AcquireFails(h) PROVE OneAuthority'
  BY <1>8 DEF AcquireFails, LeaveUnleased
<1>9. ASSUME NEW h \in Handlers, LocalDeadline(h) PROVE OneAuthority'
  BY <1>9 DEF LocalDeadline, Renewing
<1>10. ASSUME NEW h \in Handlers, CheckTerminal(h) PROVE OneAuthority'
  BY <1>10 DEF CheckTerminal, Goto
<1>11. ASSUME NEW h \in Handlers, SettleFenced(h) PROVE OneAuthority'
  BY <1>11 DEF SettleFenced, SettleGuards, Goto
<1>mark. ASSUME NEW h \in Handlers, MarkUnfenced(h) PROVE OneAuthority'
  BY <1>mark DEF MarkUnfenced, Goto
<1>waive. ASSUME NEW h \in Handlers, Waive(h) PROVE OneAuthority'
  BY <1>waive DEF Waive, Goto
<1>park. ASSUME NEW h \in Handlers, Park(h) PROVE OneAuthority'
  BY <1>park DEF Park, ParkGuards, Goto
<1>12. ASSUME NEW h \in Handlers, SettleRefused(h) PROVE OneAuthority'
  BY <1>12 DEF SettleRefused, SettleGuards, Goto
<1>13. ASSUME NEW h \in Handlers, BuryPoison(h) PROVE OneAuthority'
  BY <1>13 DEF BuryPoison, Goto
<1>14. ASSUME NEW h \in Handlers, Fail(h) PROVE OneAuthority'
  BY <1>14 DEF Fail, Goto
<1>15. ASSUME NEW h \in Handlers, AckSend(h) PROVE OneAuthority'
  BY <1>15 DEF AckSend, MayEnterAck, AckLease, Acking, InWindow
<1>16. ASSUME NEW h \in Handlers, AckRefused(h) PROVE OneAuthority'
  BY <1>16 DEF AckRefused, MayEnterAck, AckLease, Acking, InWindow, Goto
<1>17. ASSUME NEW h \in Handlers, SettleDelivery(h) PROVE OneAuthority'
  BY <1>17 DEF SettleDelivery, DropKeys, Goto
<1>18. ASSUME NEW h \in Handlers, Exit(h) PROVE OneAuthority'
  BY <1>18 DEF Exit, ReleaseScript, Goto
<1>19. ASSUME NEW h \in Handlers, Deregister(h) PROVE OneAuthority'
  BY <1>19 DEF Deregister, Unlock, Goto
<1>20. ASSUME NEW c \in Consumers, MaintAck(c) PROVE OneAuthority'
  BY <1>20 DEF MaintAck, SetMaint, RemoveRow, InWindow
<1>21. ASSUME NEW c \in Consumers, Crash(c) PROVE OneAuthority'
  BY <1>21 DEF Crash
<1>22. ASSUME Tick PROVE OneAuthority'
  BY <1>22 DEF Tick, Dec
<1>23. QED
  BY <1>mark, <1>waive, <1>park, <1>1, <1>2, <1>3, <1>4, <1>5, <1>6, <1>7, <1>8, <1>9, <1>10, <1>11, <1>12,
     <1>13, <1>14, <1>15, <1>16, <1>17, <1>18, <1>19, <1>20, <1>21, <1>22
     DEF Next, ServerStep, HandlerStep, ConsumerStep, Lose,
         AcquireGrantedUnheard, RenewUnheard, AckUnheard, RenewSend, RenewFails,
         AckFails, Deliver, Claim, Condemn, MaintBury, MaintSettle, GrantLease,
         ExtendLease, RemoveRow, DropKeys, valkey, procs, vars

(* A second settlement would come from a turn that owns the key (TurnIsFirst). *)
LEMMA SettledOnceStep ==
  ASSUME TypeOK, TurnIsFirst, SettledOnce, [Next]_vars
  PROVE  SettledOnce'
<1> USE DEF TypeOK, SettledOnce, TurnIsFirst, valkey
<1>1. CASE UNCHANGED <<doneBy>>
  BY <1>1
<1>2. ASSUME NEW h \in Handlers, SettleFenced(h) PROVE SettledOnce'
  BY <1>2 DEF SettleFenced, SettleGuards, Goto
<1>3. QED
  BY ZenonT(40), <1>1, <1>2
     DEF Next, ServerStep, HandlerStep, ConsumerStep, Lose, AcquireGranted,
         AcquireGrantedUnheard, AcquireRefused, RenewConfirmed, RenewUnheard,
         RenewRefused, AckConfirmed, AckUnheard, Start, AcquireFails, RenewSend,
         RenewFails, LocalDeadline, CheckTerminal, MarkUnfenced, Waive, Park, SettleRefused, BuryPoison, Fail,
         AckSend, AckRefused, AckFails, SettleDelivery, Deregister, Exit, Deliver, Claim,
         Condemn, MaintBury, MaintAck, MaintSettle, Crash, Tick, GrantLease,
         ExtendLease, RemoveRow, DropKeys, ReleaseScript, objects, slots, procs,
         vars

-----------------------------------------------------------------------------
(* The theorems.                                                           *)

(* The invariant holds before the first delivery. *)
LEMMA InitIInv == Init => IInv
<1> SUFFICES ASSUME Init PROVE IInv
  OBVIOUS
<1> USE ConstantsAssumption, WindowNat
<1>1. TypeOK
  <2>1. ValkeyType
    <3>1. delivered \in 0..MaxClaim /\ leaseTok \in 0..MaxToken /\ gen \in Nat
      BY DEF Init
    <3>2. leaseLeft \in 0..LeaseTTL /\ budget \in 0..Budget
      BY DEF Init
    <3>3. entry \in {"new", "pending", "settled"} /\ pel \in Consumers \cup {None}
      BY DEF Init
    <3>4. doneBy \subseteq Tokens /\ buried \in BOOLEAN /\ endings \subseteq Endings
      BY DEF Init
    <3>5. QED
      BY <3>1, <3>2, <3>3, <3>4 DEF ValkeyType
  <2>2. ObjectType
    BY DEF Init, ObjectType
  <2>3. NetType /\ SlotType /\ ProcType
    BY DEF Init, NetType, SlotType, ProcType, Phases
  <2>4. QED
    BY <2>1, <2>2, <2>3 DEF Init, TypeOK
<1>2. Untouched /\ OwnTokens /\ DrawnTokens /\ DrawnRequests /\ Requests
  BY DEF Init, Untouched, OwnTokens, DrawnTokens, DrawnRequests, Requests
<1>3. UniqueRequests /\ RequestTokens /\ FreshToken /\ LeaseKey
  BY DEF Init, UniqueRequests, RequestTokens, FreshToken, LeaseKey
<1>4. Leased /\ LeasedAck /\ TurnIsFirst /\ OutcomeFirst /\ AckAfterOutcome
  BY DEF Init, Leased, LeasedAck, TurnIsFirst, OutcomeFirst, AckAfterOutcome
<1>5. OneAuthority /\ SettledOnce
  BY DEF Init, OneAuthority, Authority, Holding, SettledOnce
<1>6. QED
  BY <1>1, <1>2, <1>3, <1>4, <1>5 DEF IInv

(* Every step of the scripts, the handlers, the maintenance pass, a crash  *)
(* or the clock preserves it.                                              *)
LEMMA NextIInv == IInv /\ [Next]_vars => IInv'
<1> SUFFICES ASSUME IInv, [Next]_vars PROVE IInv'
  OBVIOUS
<1>0. /\ TypeOK /\ Untouched /\ OwnTokens /\ DrawnTokens /\ DrawnRequests
      /\ Requests /\ UniqueRequests /\ RequestTokens /\ FreshToken
      /\ LeaseKey /\ Leased /\ LeasedAck /\ TurnIsFirst /\ OutcomeFirst
      /\ AckAfterOutcome /\ OneAuthority /\ SettledOnce
  BY DEF IInv
<1>1. (class \in Classes)'
  BY ZenonT(40), <1>0
     DEF TypeOK, Next, ServerStep, HandlerStep, ConsumerStep, Lose, AcquireGranted,
         AcquireGrantedUnheard, AcquireRefused, RenewConfirmed, RenewUnheard, RenewRefused,
         AckConfirmed, AckUnheard, Start, AcquireFails, RenewSend, RenewFails, LocalDeadline,
         CheckTerminal, SettleFenced, MarkUnfenced, Waive, Park, SettleRefused, BuryPoison, Fail, AckSend, AckRefused,
         AckFails, SettleDelivery, Deregister, Exit, Deliver, Claim, Condemn, MaintBury, MaintAck,
         MaintSettle, Crash, Tick, vars
<1>2. TypeOK'
  BY <1>0, <1>1, ValkeyTypeStep, NetTypeStep, ObjectTypeStep, SlotTypeStep,
     ProcTypeStep
     DEF TypeOK
<1>3. (Untouched /\ OwnTokens /\ DrawnTokens /\ DrawnRequests)'
  BY <1>0, UntouchedStep, OwnTokensStep, DrawnTokensStep, DrawnRequestsStep
<1>4. (Requests /\ UniqueRequests /\ RequestTokens /\ FreshToken /\ LeaseKey)'
  BY <1>0, RequestsStep, UniqueRequestsStep, RequestTokensStep,
     FreshTokenStep, LeaseKeyStep
<1>5. (Leased /\ LeasedAck /\ TurnIsFirst /\ OutcomeFirst /\ AckAfterOutcome)'
  BY <1>0, LeasedStep, LeasedAckStep, TurnIsFirstStep, OutcomeFirstStep,
     AckAfterOutcomeStep
<1>6. (OneAuthority /\ SettledOnce)'
  BY <1>0, OneAuthorityStep, SettledOnceStep
<1>7. QED
  BY <1>2, <1>3, <1>4, <1>5, <1>6 DEF IInv

(* The inductive invariant holds of every reachable state. *)
THEOREM Invariance == Spec => []IInv
  BY InitIInv, NextIInv, PTL DEF Spec

(* Every variable keeps its type: in particular no token, generation, budget or *)
(* window leaves its range, whatever is late, repeated or lost.                 *)
THEOREM TypeCorrectness == Spec => []TypeOK
<1>1. IInv => TypeOK
  BY DEF IInv
<1>2. QED
  BY <1>1, Invariance, PTL

(* Two handlers, in one process or in two, never both act with authority over *)
(* a delivery (delivery_lease.py: acquire, heartbeat, is_lost).               *)
THEOREM OneOwner == Spec => []OneAuthority
<1>1. IInv => OneAuthority
  BY DEF IInv
<1>2. QED
  BY <1>1, Invariance, PTL

(* A handler with authority owns the lease key for at least one more heartbeat *)
(* while the row is pending (ownership_window_s).                              *)
THEOREM LocalWindowIsCovered == Spec => []AuthorityIsLeased
<1>1. IInv => AuthorityIsLeased
  BY DEF IInv, AuthorityIsLeased, Authority, Leased
<1>2. QED
  BY <1>1, Invariance, PTL

(* An XACK sent by _ack under a lease never reaches Valkey after another owner *)
(* has acquired, while the lease's handler is still there.                     *)
THEOREM AckIsFenced == Spec => []AckUnderOwnLease
<1>1. IInv => AckUnderOwnLease
  BY DEF IInv, AckUnderOwnLease, LeasedAck, AckUnder
<1>2. QED
  BY <1>1, Invariance, PTL

(* At most one owner writes the done marker of the event (settle_fenced). *)
THEOREM SettledAtMostOnce == Spec => []SettledOnce
<1>1. IInv => SettledOnce
  BY DEF IInv
<1>2. QED
  BY <1>1, Invariance, PTL

(* The row leaves the group only when a marker, a graveyard row, a wait    *)
(* record or, for a backed entry, another home has the outcome.            *)
THEOREM NothingIsLost == Spec => []NeverLost
<1>1. IInv => NeverLost
  BY DEF IInv, NeverLost, OutcomeFirst
<1>2. QED
  BY <1>1, Invariance, PTL

(* No step gives budget back to a delivery whose state exists. *)
LEMMA BudgetStep ==
  ASSUME TypeOK, [Next]_vars
  PROVE  Inherited
<1> USE ConstantsAssumption
<1> USE DEF TypeOK, ValkeyType, Inherited, valkey
<1>1. CASE UNCHANGED <<gen, budget>>
  BY <1>1
<1>2. ASSUME NEW m \in net, AcquireGranted(m) PROVE Inherited
  BY <1>2 DEF AcquireGranted, AcquireGuards, GrantLease
<1>3. ASSUME NEW m \in net, AcquireGrantedUnheard(m) PROVE Inherited
  BY <1>3 DEF AcquireGrantedUnheard, AcquireGuards, GrantLease
<1>4. ASSUME NEW h \in Handlers, SettleDelivery(h) PROVE Inherited
  BY <1>4 DEF SettleDelivery, DropKeys, Goto
<1>5. ASSUME NEW c \in Consumers, MaintSettle(c) PROVE Inherited
  BY <1>5 DEF MaintSettle, SetMaint, DropKeys
<1>6. ASSUME Tick PROVE Inherited
  BY <1>6 DEF Tick, Dec
<1>7. QED
  BY ZenonT(40), <1>1, <1>2, <1>3, <1>4, <1>5, <1>6
     DEF Next, ServerStep, HandlerStep, ConsumerStep, Lose, AcquireRefused,
         RenewConfirmed, RenewUnheard, RenewRefused, AckConfirmed, AckUnheard,
         Start, AcquireFails, RenewSend, RenewFails, LocalDeadline, CheckTerminal,
         SettleFenced, MarkUnfenced, Waive, Park, SettleRefused, BuryPoison, Fail, AckSend, AckRefused,
         AckFails, Deregister, Exit, Deliver, Claim, Condemn, MaintBury, MaintAck, Crash,
         ExtendLease, RemoveRow, ReleaseScript, objects, slots, procs, vars

(* A replacement owner inherits the deadline of the delivery: HSETNX in the  *)
(* acquire script never restarts the budget (_ACQUIRE_LUA, DeliveryBudget). *)
THEOREM BudgetIsInherited == Spec => BudgetNeverExtended
<1>1. TypeOK /\ [Next]_vars => [gen # 0 /\ gen' # 0 => budget' <= budget]_vars
  BY BudgetStep DEF Inherited
<1>2. QED
  BY <1>1, TypeCorrectness, PTL DEF Spec, BudgetNeverExtended

=============================================================================
