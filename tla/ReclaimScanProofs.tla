------------------------- MODULE ReclaimScanProofs -------------------------
(***************************************************************************)
(* Proofs about ReclaimScan for any set of replicas, any cap and any        *)
(* windows ordered as ScanAssumption says.                                  *)
(*                                                                         *)
(* The two races of a compare-and-claim are settled by different means.     *)
(* Between a pass that goes by idle time and any other, the clock decides:  *)
(* a row that was claimed after the snapshot cannot be as idle again while  *)
(* the snapshot lives (Snapshot).  Between two passes that transfer the     *)
(* rows of one consumer, the arbitration decides (Arbitration), and it also *)
(* keeps the restarted consumer from booting (Silenced).                    *)
(***************************************************************************)
EXTENDS ReclaimScan, TLAPS

(* A process that is down runs nothing, and one that recovers its local     *)
(* rows has not started a handler yet.                                     *)
Generation(c) ==
    /\ up[c] => alive[c] > 0
    /\ ~up[c] => stage[c] = "rest"
    /\ stage[c] \in {"rest", "dispatch"} => step[c] = "none"
    /\ ~up[c] \/ stage[c] = "own" => ~working[c] /\ waiting[c] = {}

(* The passes that transfer the rows of one consumer.                      *)
ByPeer(c) == stage[c] \in {"dead", "own"}

Arbitration(c) ==
    /\ step[c] = "arb" => ByPeer(c)
    /\ ByPeer(c) /\ step[c] # "look" => peer[c] \in Consumers
    /\ ByPeer(c) /\ step[c] \notin {"look", "arb"} => arb[peer[c]] = c
    /\ stage[c] = "own" => peer[c] = c
    /\ step[c] = "claim" => stage[c] # "cap"

(* The row is still as the pass of c has read it.                          *)
AsRead(c) ==
    /\ count = seen[c].count /\ idle <= seen[c].idle + age[c]
    /\ ByPeer(c) => owner = peer[c]

(* The row was claimed since, and will not be idle enough for the claim of  *)
(* c within the life of its snapshot.                                      *)
Outrun(c) == idle + (MaxStall - age[c]) < MinIdle(c)

Snapshot(c) ==
    stage[c] \in {"dead", "own", "expired"} /\ step[c] \in {"lease", "state", "claim"} =>
        /\ entry # "new" /\ seen[c].count >= 1
        /\ step[c] = "claim" => seen[c].count < MaxDelivery
        /\ entry = "pending" => AsRead(c) \/ Outrun(c)

(* The consumer whose rows are being transferred is down, or it has         *)
(* restarted and waits for the arbitration of its own rows.                *)
Silenced(c) ==
    stage[c] = "dead" /\ step[c] \notin {"look", "arb", "recheck"} =>
        \/ ~up[peer[c]]
        \/ stage[peer[c]] = "own" /\ step[peer[c]] = "arb"

ScanInv(c) == Generation(c) /\ Arbitration(c) /\ Snapshot(c) /\ Silenced(c)

IInv ==
    /\ TypeOK
    /\ entry = "pending" => count >= 1
    /\ \A c \in Consumers : ScanInv(c)

-----------------------------------------------------------------------------
(* Types.                                                                  *)

Someone == Consumers \cup {None}
Counts == 0 .. (MaxDelivery + 1)
Idles == 0 .. Backstop

AllTyped ==
    /\ entry \in {"new", "pending", "gone"} /\ owner \in Someone
    /\ count \in Counts /\ idle \in Idles
    /\ lease \in Someone /\ leaseLeft \in 0 .. LeaseTTL
    /\ state \in BOOLEAN /\ buried \in BOOLEAN
    /\ alive \in [Consumers -> 0 .. AliveTTL] /\ arb \in [Consumers -> Someone]
    /\ up \in [Consumers -> BOOLEAN] /\ other \in [Consumers -> BOOLEAN]
    /\ working \in [Consumers -> BOOLEAN] /\ waiting \in [Consumers -> SUBSET Loops]
    /\ absent \in [Consumers -> [Consumers -> 0 .. (AliveTTL + 1)]]
    /\ loop \in [Consumers -> Loops] /\ stage \in [Consumers -> Stages]
    /\ step \in [Consumers -> Steps] /\ peer \in [Consumers -> Someone]
    /\ seen \in [Consumers -> Row] /\ age \in [Consumers -> 0 .. MaxStall]
    /\ over \in [Consumers -> BOOLEAN] /\ picked \in [Consumers -> BOOLEAN]
    /\ crashes \in 0 .. MaxCrash /\ faults \in 0 .. MaxFault

LEMMA Typed == (TypeOK <=> AllTyped) /\ (TypeOK' <=> AllTyped')
  BY DEF TypeOK, AllTyped, Someone, Counts, Idles

LEMMA Constants ==
    /\ None \notin Consumers /\ None \in Someone
    /\ LeaseTTL \in Nat /\ AliveTTL \in Nat /\ AliveTTL > 0 /\ AliveTTL \in 0 .. AliveTTL
    /\ LeaseTTL \in 0 .. LeaseTTL /\ 0 \in 0 .. LeaseTTL /\ 0 \in 0 .. AliveTTL
    /\ ExpiredIdle \in Nat /\ Backstop \in Nat /\ ExpiredIdle < Backstop
    /\ MaxDelivery \in Nat /\ MaxStall \in Nat /\ MaxStall < ExpiredIdle
    /\ 0 \in 0 .. MaxStall /\ 0 \in Idles /\ 1 \in Counts /\ 0 \in Counts
    /\ NoRow \in Row
<1>1. NoRow \in Row
  BY ScanAssumption DEF NoRow, Row
<1> QED BY <1>1, ScanAssumption DEF Someone, Idles, Counts

LEMMA Fields ==
    ASSUME TypeOK, NEW c \in Consumers
    PROVE  /\ count \in Nat /\ idle \in Nat /\ count <= MaxDelivery + 1 /\ idle <= Backstop
           /\ seen[c].count \in Nat /\ seen[c].idle \in Nat
           /\ age[c] \in Nat /\ age[c] <= MaxStall /\ alive[c] \in Nat
           /\ MinIdle(c) \in Nat
<1>1. count \in Nat /\ idle \in Nat /\ count <= MaxDelivery + 1 /\ idle <= Backstop
  BY Constants DEF TypeOK
<1>2. seen[c].count \in 0 .. (MaxDelivery + 1) /\ seen[c].idle \in 0 .. Backstop
  BY DEF TypeOK, Row
<1>3. age[c] \in 0 .. MaxStall /\ alive[c] \in 0 .. AliveTTL
  BY DEF TypeOK
<1>4. MinIdle(c) \in Nat
  BY <1>2, Constants DEF MinIdle
<1> QED BY <1>1, <1>2, <1>3, <1>4, Constants

(* The control of a pass.                                                  *)
LEMMA GotoTypes ==
    ASSUME TypeOK, NEW c \in Consumers, NEW st \in Stages, NEW sp \in Steps, Goto(c, st, sp)
    PROVE  /\ stage' \in [Consumers -> Stages] /\ step' \in [Consumers -> Steps]
           /\ stage'[c] = st /\ step'[c] = sp
           /\ \A q \in Consumers \ {c} : stage'[q] = stage[q] /\ step'[q] = step[q]
  BY DEF Goto, TypeOK

LEMMA ForgetTypes ==
    ASSUME TypeOK, NEW c \in Consumers, Forget(c)
    PROVE  /\ seen' \in [Consumers -> Row] /\ age' \in [Consumers -> 0 .. MaxStall]
           /\ \A q \in Consumers \ {c} : seen'[q] = seen[q] /\ age'[q] = age[q]
  BY Constants DEF Forget, TypeOK

LEMMA FollowingTypes ==
    ASSUME NEW c \in Consumers
    PROVE  /\ Following(c)[1] \in Stages /\ Following(c)[2] \in Steps
           /\ Following(c)[1] \in {"dead", "expired", "auto", "dispatch"}
           /\ Following(c)[1] = "dead" => Following(c)[2] = "look"
           /\ Following(c)[1] = "expired" => Following(c)[2] = "scan"
           /\ Following(c)[1] = "auto" => Following(c)[2] = "claim"
           /\ Following(c)[1] = "dispatch" => Following(c)[2] = "none"
<1>1. CASE stage[c] = "cap"
  BY <1>1 DEF Following, Stages, Steps
<1>2. CASE stage[c] = "dead" /\ loop[c] = "maintenance"
  BY <1>2 DEF Following, Stages, Steps
<1>3. CASE stage[c] = "expired"
  BY <1>3 DEF Following, Stages, Steps
<1>4. CASE stage[c] \notin {"cap", "expired"} /\ ~(stage[c] = "dead" /\ loop[c] = "maintenance")
  BY <1>4 DEF Following, Stages, Steps
<1> QED BY <1>1, <1>2, <1>3, <1>4

(* What every step of a pass may do to the control and the arbitration.     *)
PassTyped ==
    /\ stage' \in [Consumers -> Stages] /\ step' \in [Consumers -> Steps]
    /\ seen' \in [Consumers -> Row] /\ age' \in [Consumers -> 0 .. MaxStall]
    /\ peer' \in [Consumers -> Someone] /\ arb' \in [Consumers -> Someone]

LEMMA LeaveTypes ==
    ASSUME TypeOK, NEW c \in Consumers, Leave(c)
    PROVE  PassTyped
<1> USE Typed DEF AllTyped
<1>1. /\ stage' \in [Consumers -> Stages] /\ step' \in [Consumers -> Steps]
      /\ seen' \in [Consumers -> Row] /\ age' \in [Consumers -> 0 .. MaxStall]
  BY FollowingTypes, GotoTypes, ForgetTypes DEF Leave
<1>2. peer' \in [Consumers -> Someone] /\ arb' \in [Consumers -> Someone]
  BY Constants DEF Leave
<1> QED BY <1>1, <1>2 DEF PassTyped

LEMMA StayTypes ==
    ASSUME TypeOK, NEW c \in Consumers, NEW sp \in Steps, Stay(c, sp) \/ Move(c, sp)
    PROVE  PassTyped
<1> USE Typed DEF AllTyped
<1>1. stage[c] \in Stages
  OBVIOUS
<1>2. stage' \in [Consumers -> Stages] /\ step' \in [Consumers -> Steps]
  BY <1>1, GotoTypes DEF Stay, Move
<1> QED BY <1>2, ForgetTypes DEF Stay, Move, PassTyped

LEMMA HandlerTypes ==
    ASSUME TypeOK, NEW c \in Consumers,
           Read(c) \/ OtherStarts(c) \/ OtherEnds(c) \/ HandlerStep(c)
    PROVE  TypeOK'
<1> USE Typed DEF AllTyped, row, keys, fleet, slots, pass
<1>1. CASE Read(c)
  BY <1>1, Constants DEF Read, Loops, Someone
<1>2. CASE OtherStarts(c) \/ OtherEnds(c)
  BY <1>2 DEF OtherStarts, OtherEnds
<1>3. CASE Acquire(c)
  <2>1. PICK k \in waiting[c] : waiting' = [waiting EXCEPT ![c] = @ \ {k}]
    BY <1>3 DEF Acquire
  <2>2. waiting' \in [Consumers -> SUBSET Loops]
    BY <2>1
  <2>3. /\ working' \in [Consumers -> BOOLEAN] /\ lease' \in Someone
        /\ leaseLeft' \in 0 .. LeaseTTL /\ state' \in BOOLEAN
    <3>1. CASE UNCHANGED <<working, keys>>
      BY <3>1
    <3>2. CASE /\ working' = [working EXCEPT ![c] = TRUE]
               /\ lease' = c /\ leaseLeft' = LeaseTTL /\ state' = TRUE
      BY <3>2, Constants DEF Someone
    <3> QED BY <1>3, <3>1, <3>2 DEF Acquire
  <2> QED BY <1>3, <2>2, <2>3 DEF Acquire
<1>4. CASE Renew(c)
  BY <1>4, Constants DEF Renew
<1>5. CASE Finish(c)
  BY <1>5, Constants DEF Finish
<1>6. CASE Fail(c)
  BY <1>6, Constants DEF Fail
<1> QED BY <1>1, <1>2, <1>3, <1>4, <1>5, <1>6 DEF HandlerStep

LEMMA PassTypes ==
    ASSUME TypeOK, NEW c \in Consumers, PassStep(c)
    PROVE  TypeOK'
<1> USE Typed DEF AllTyped, row, keys, fleet, slots, pass, PassFrame
<1>1. {"arb", "recheck", "scan", "lease", "state", "claim", "reread", "bury", "ack", "settle",
       "none"} \subseteq Steps /\ {"dead", "dispatch", "rest"} \subseteq Stages
  BY DEF Steps, Stages
<1>2. ASSUME PassTyped,
             UNCHANGED <<entry, owner, count, idle, keys, buried, alive, up, crashes, slots,
                         loop, faults>>,
             absent' \in [Consumers -> [Consumers -> 0 .. (AliveTTL + 1)]],
             over' \in [Consumers -> BOOLEAN], picked' \in [Consumers -> BOOLEAN]
      PROVE  TypeOK'
  BY <1>2 DEF PassTyped
<1>3. ASSUME Judge(c) PROVE PassTyped /\ over' \in [Consumers -> BOOLEAN]
  <2>1. PassTyped
    BY <1>1, <1>3, LeaveTypes, StayTypes DEF Judge
  <2> QED BY <1>3, <2>1 DEF Judge
<1>4. CASE Look(c)
  <2>1. absent' \in [Consumers -> [Consumers -> 0 .. (AliveTTL + 1)]]
    <3> DEFINE gone == {p \in Consumers \ {c} : entry = "pending" /\ owner = p /\ alive[p] = 0}
               f == [p \in Consumers |-> IF p \notin gone THEN 0
                                         ELSE IF absent[c][p] = 0 THEN 1 ELSE absent[c][p]]
    <3>1. absent' = [absent EXCEPT ![c] = f]
      BY <1>4 DEF Look
    <3>2. 0 \in 0 .. (AliveTTL + 1) /\ 1 \in 0 .. (AliveTTL + 1)
          /\ \A p \in Consumers : absent[c][p] \in 0 .. (AliveTTL + 1)
      BY Constants
    <3>3. f \in [Consumers -> 0 .. (AliveTTL + 1)]
      BY <3>2
    <3> HIDE DEF f, gone
    <3> QED BY <3>1, <3>3
  <2>2. CASE Leave(c)
    <3>1. PassTyped
      BY <2>2, LeaveTypes
    <3> QED BY <1>2, <1>4, <2>1, <3>1 DEF Look
  <2>3. CASE ~Leave(c)
    <3>1. PICK p \in Consumers : /\ peer' = [peer EXCEPT ![c] = p] /\ Goto(c, "dead", "arb")
                                 /\ UNCHANGED <<seen, age, arb>>
      BY <1>4, <2>3 DEF Look
    <3>2. PassTyped
      BY <1>1, <3>1, GotoTypes DEF PassTyped, Someone
    <3> QED BY <1>2, <1>4, <2>1, <3>2 DEF Look
  <2> QED BY <2>2, <2>3
<1>5. CASE TakeArbitration(c)
  <2>1. CASE Leave(c)
    BY <1>2, <1>5, <2>1, LeaveTypes DEF TakeArbitration
  <2>2. CASE ~Leave(c)
    <3>1. PICK sp \in {"recheck", "scan"} :
             /\ Goto(c, stage[c], sp) /\ arb' = [arb EXCEPT ![peer[c]] = c]
             /\ UNCHANGED <<seen, age, peer>>
      BY <1>5, <2>2 DEF TakeArbitration
    <3>2. stage[c] \in Stages /\ arb' \in [Consumers -> Someone]
      BY <3>1 DEF Someone
    <3>3. PassTyped
      BY <1>1, <3>1, <3>2, GotoTypes DEF PassTyped
    <3> QED BY <1>2, <1>5, <3>3 DEF TakeArbitration
  <2> QED BY <2>1, <2>2
<1>6. CASE Recheck(c)
  <2>1. PassTyped
    BY <1>1, <1>6, LeaveTypes, StayTypes DEF Recheck
  <2>2. absent' \in [Consumers -> [Consumers -> 0 .. (AliveTTL + 1)]]
    <3>1. 0 \in 0 .. (AliveTTL + 1)
      BY Constants
    <3>2. ASSUME NEW f \in [Consumers -> 0 .. (AliveTTL + 1)], NEW p
          PROVE  [f EXCEPT ![p] = 0] \in [Consumers -> 0 .. (AliveTTL + 1)]
      BY <3>1
    <3>3. absent' = absent \/ absent' = [absent EXCEPT ![c][peer[c]] = 0]
      BY <1>6 DEF Recheck
    <3>4. absent[c] \in [Consumers -> 0 .. (AliveTTL + 1)]
      OBVIOUS
    <3>5. [absent[c] EXCEPT ![peer[c]] = 0] \in [Consumers -> 0 .. (AliveTTL + 1)]
      BY <3>2, <3>4
    <3> QED BY <3>3, <3>5
  <2> QED BY <1>2, <1>6, <2>1, <2>2 DEF Recheck
<1>7. CASE Scan(c)
  <2>1. CASE InScan(c)
    <3>1. Goto(c, stage[c], "lease") /\ seen' = [seen EXCEPT ![c] = [count |-> count, idle |-> idle]]
          /\ UNCHANGED <<age, peer, arb>>
      BY <1>7, <2>1 DEF Scan
    <3>2. [count |-> count, idle |-> idle] \in Row /\ stage[c] \in Stages
      BY DEF Row, Counts, Idles
    <3>3. PassTyped
      BY <1>1, <3>1, <3>2, GotoTypes DEF PassTyped
    <3> QED BY <1>2, <1>7, <3>3 DEF Scan
  <2>2. CASE ~InScan(c)
    BY <1>2, <1>7, <2>2, LeaveTypes DEF Scan
  <2> QED BY <2>1, <2>2
<1>8. CASE CheckLease(c)
  <2>1. PassTyped /\ over' \in [Consumers -> BOOLEAN]
    BY <1>1, <1>3, <1>8, LeaveTypes, StayTypes DEF CheckLease
  <2> QED BY <1>2, <1>8, <2>1 DEF CheckLease
<1>9. CASE CheckState(c)
  <2>1. PassTyped /\ over' \in [Consumers -> BOOLEAN]
    BY <1>3, <1>9, LeaveTypes DEF CheckState
  <2> QED BY <1>2, <1>9, <2>1 DEF CheckState
<1>10. CASE Claim(c)
  <2>1. PassTyped
    BY <1>1, <1>10, LeaveTypes, StayTypes DEF Claim
  <2>2. owner' \in Someone /\ count' \in Counts /\ idle' \in Idles
    BY <1>10, Constants DEF Claim, Someone, Counts, Least
  <2> QED BY <1>10, <2>1, <2>2 DEF Claim, PassTyped
<1>11. CASE Reread(c)
  <2>1. picked' \in [Consumers -> BOOLEAN]
    BY <1>11 DEF Reread
  <2> QED BY <1>2, <1>11, <2>1, LeaveTypes DEF Reread
<1>12. CASE Bury(c)
  <2>1. PassTyped
    BY <1>1, <1>12, LeaveTypes, StayTypes DEF Bury
  <2> QED BY <1>12, <2>1 DEF Bury, PassTyped
<1>13. CASE BuryAck(c)
  <2>1. PassTyped
    BY <1>1, <1>13, LeaveTypes, StayTypes DEF BuryAck
  <2>2. entry' \in {"new", "pending", "gone"} /\ owner' \in Someone
    BY <1>13, Constants DEF BuryAck
  <2> QED BY <1>13, <2>1, <2>2 DEF BuryAck, PassTyped
<1>14. CASE BurySettle(c)
  <2>1. PassTyped
    BY <1>14, LeaveTypes DEF BurySettle
  <2> QED BY <1>14, <2>1, Constants DEF BurySettle, PassTyped
<1>15. CASE Dispatch(c)
  <2>1. stage' \in [Consumers -> Stages] /\ step' \in [Consumers -> Steps]
    BY <1>1, <1>15, GotoTypes DEF Dispatch
  <2>2. waiting' \in [Consumers -> SUBSET Loops]
    BY <1>15 DEF Dispatch
  <2> QED BY <1>15, <2>1, <2>2 DEF Dispatch
<1> QED BY <1>4, <1>5, <1>6, <1>7, <1>8, <1>9, <1>10, <1>11, <1>12, <1>13, <1>14, <1>15
        DEF PassStep

LEMMA ProcessTypes ==
    ASSUME TypeOK, NEW c \in Consumers,
           \/ Begin(c, "maintenance") \/ Begin(c, "prompt") \/ ArbitrationExpires(c)
           \/ Fault(c) \/ Crash(c) \/ Restart(c)
    PROVE  TypeOK'
<1> USE Typed DEF AllTyped, row, keys, fleet, slots, pass
<1>1. {"none", "look", "scan", "arb"} \subseteq Steps
      /\ {"rest", "cap", "dead", "own"} \subseteq Stages
      /\ {"maintenance", "prompt", "bootstrap"} \subseteq Loops
  BY DEF Steps, Stages, Loops
<1>2. ASSUME NEW k \in {"maintenance", "prompt"}, Begin(c, k) PROVE TypeOK'
  <2>1. stage' \in [Consumers -> Stages] /\ step' \in [Consumers -> Steps]
    BY <1>1, <1>2, GotoTypes DEF Begin
  <2>2. loop' \in [Consumers -> Loops]
    BY <1>1, <1>2 DEF Begin
  <2> QED BY <1>2, <2>1, <2>2 DEF Begin
<1>3. CASE ArbitrationExpires(c)
  <2>1. arb' \in [Consumers -> Someone]
    BY <1>3, Constants DEF ArbitrationExpires
  <2> QED BY <1>3, <2>1 DEF ArbitrationExpires
<1>4. CASE Fault(c)
  <2>1. faults' \in 0 .. MaxFault
    BY <1>4, ScanAssumption DEF Fault
  <2>2. PassTyped
    <3>1. CASE Leave(c)
      BY <3>1, LeaveTypes
    <3>2. CASE Abort(c)
      BY <1>1, <3>2, GotoTypes, ForgetTypes DEF Abort, PassTyped
    <3> QED BY <1>4, <3>1, <3>2 DEF Fault
  <2>3. over' \in [Consumers -> BOOLEAN] /\ picked' \in [Consumers -> BOOLEAN]
    BY <1>4 DEF Fault, Abort
  <2> QED BY <1>4, <2>1, <2>2, <2>3 DEF Fault, PassTyped
<1>5. CASE Crash(c)
  <2>1. crashes' \in 0 .. MaxCrash
    BY <1>5, ScanAssumption DEF Crash
  <2>2. /\ stage' \in [Consumers -> Stages] /\ step' \in [Consumers -> Steps]
        /\ seen' \in [Consumers -> Row] /\ age' \in [Consumers -> 0 .. MaxStall]
    BY <1>1, <1>5, GotoTypes, ForgetTypes DEF Crash
  <2>3. alive' \in [Consumers -> 0 .. AliveTTL]
    BY <1>5, Constants DEF Crash
  <2>4. absent' \in [Consumers -> [Consumers -> 0 .. (AliveTTL + 1)]]
    <3>1. [p \in Consumers |-> 0] \in [Consumers -> 0 .. (AliveTTL + 1)]
      BY Constants
    <3> QED BY <1>5, <3>1 DEF Crash
  <2>5. /\ up' \in [Consumers -> BOOLEAN] /\ other' \in [Consumers -> BOOLEAN]
        /\ working' \in [Consumers -> BOOLEAN] /\ waiting' \in [Consumers -> SUBSET Loops]
        /\ peer' \in [Consumers -> Someone] /\ over' \in [Consumers -> BOOLEAN]
        /\ picked' \in [Consumers -> BOOLEAN]
    BY <1>5, Constants DEF Crash
  <2> QED BY <1>5, <2>1, <2>2, <2>3, <2>4, <2>5 DEF Crash
<1>6. CASE Restart(c)
  <2>1. stage' \in [Consumers -> Stages] /\ step' \in [Consumers -> Steps]
    BY <1>1, <1>6, GotoTypes DEF Restart
  <2>2. /\ up' \in [Consumers -> BOOLEAN] /\ alive' \in [Consumers -> 0 .. AliveTTL]
        /\ loop' \in [Consumers -> Loops] /\ peer' \in [Consumers -> Someone]
    BY <1>1, <1>6, Constants DEF Restart, Someone
  <2> QED BY <1>6, <2>1, <2>2 DEF Restart
<1> QED BY <1>2, <1>3, <1>4, <1>5, <1>6

LEMMA TickTypes ==
    ASSUME TypeOK, Tick
    PROVE  TypeOK'
<1> USE Typed DEF AllTyped, row, keys, fleet, slots, pass
<1>1. idle' \in Idles /\ leaseLeft' \in 0 .. LeaseTTL /\ lease' \in Someone
  BY Constants DEF Tick, Least, Dec, Idles
<1>2. alive' \in [Consumers -> 0 .. AliveTTL]
  BY Constants DEF Tick, Dec
<1>3. absent' \in [Consumers -> [Consumers -> 0 .. (AliveTTL + 1)]]
  <2>1. ASSUME NEW n \in 0 .. (AliveTTL + 1)
        PROVE  (IF n = 0 THEN 0 ELSE Least(n + 1, AliveTTL + 1)) \in 0 .. (AliveTTL + 1)
    BY Constants DEF Least
  <2>2. \A c \in Consumers : \A p \in Consumers : absent[c][p] \in 0 .. (AliveTTL + 1)
    OBVIOUS
  <2> QED BY <2>1, <2>2 DEF Tick
<1>4. age' \in [Consumers -> 0 .. MaxStall]
  <2>1. ASSUME NEW c \in Consumers
        PROVE  (IF seen[c] = NoRow THEN 0 ELSE age[c] + 1) \in 0 .. MaxStall
    <3>1. age[c] \in 0 .. MaxStall /\ (seen[c] # NoRow => age[c] < MaxStall)
      BY DEF Tick
    <3> QED BY <3>1, Constants
  <2> QED BY <2>1 DEF Tick
<1> QED BY <1>1, <1>2, <1>3, <1>4 DEF Tick

-----------------------------------------------------------------------------
(* A step of one replica, as another sees it.                              *)

Same(q) ==
    /\ stage'[q] = stage[q] /\ step'[q] = step[q] /\ peer'[q] = peer[q]
    /\ seen'[q] = seen[q] /\ age'[q] = age[q]
    /\ up'[q] = up[q] /\ alive'[q] = alive[q]
    /\ working'[q] = working[q] /\ waiting'[q] = waiting[q]

(* The arbitration that the pass of q has won stays with it.               *)
Holds(q) == \A p \in Consumers : Arbitrates(q, p) => arb'[p] = q

(* Down, or waiting for the arbitration of its own rows.                   *)
Mute(p) == ~up[p] \/ (stage[p] = "own" /\ step[p] = "arb")

LEMMA Bystander ==
    ASSUME IInv, NEW q \in Consumers, Same(q), Holds(q), Snapshot(q)',
           \A p \in Consumers : arb[p] # None /\ Mute(p) => Mute(p)'
    PROVE  ScanInv(q)'
<1>1. Generation(q) /\ Arbitration(q) /\ Silenced(q)
  BY DEF IInv, ScanInv
<1>2. Generation(q)'
  BY <1>1 DEF Same, Generation
<1>3. ByPeer(q) /\ step[q] \notin {"look", "arb"} =>
         peer[q] \in Consumers /\ arb[peer[q]] = q /\ arb'[peer[q]] = q
  BY <1>1 DEF Arbitration, Arbitrates, Holds, Generation, ByPeer
<1>4. Arbitration(q)'
  BY <1>1, <1>3 DEF Same, Arbitration, ByPeer
<1>5. Silenced(q)'
  BY <1>1, <1>3, Constants DEF Same, Silenced, Mute, ByPeer
<1> QED BY <1>2, <1>4, <1>5 DEF ScanInv

LEMMA StepCloses ==
    ASSUME IInv, TypeOK', NEW c \in Consumers, ScanInv(c)',
           entry' = "pending" => count' >= 1,
           \A q \in Consumers \ {c} : Same(q) /\ Holds(q) /\ Snapshot(q)',
           arb[c] # None /\ Mute(c) => Mute(c)'
    PROVE  IInv'
<1>1. ASSUME NEW q \in Consumers \ {c} PROVE ScanInv(q)'
  <2>1. \A p \in Consumers : arb[p] # None /\ Mute(p) => Mute(p)'
    BY DEF Same, Mute
  <2> QED BY <2>1, Bystander
<1> QED BY <1>1 DEF IInv

(* The row after a step that does not claim it.                            *)
RowKept ==
    \/ entry' = "gone"
    \/ entry = "new"
    \/ UNCHANGED <<entry, owner, count>> /\ idle' \in {idle, 0}

LEMMA SnapshotKept ==
    ASSUME IInv, NEW q \in Consumers, RowKept,
           stage'[q] = stage[q], step'[q] = step[q], peer'[q] = peer[q],
           seen'[q] = seen[q], age'[q] = age[q]
    PROVE  Snapshot(q)'
<1>1. Snapshot(q) /\ TypeOK
  BY DEF IInv, ScanInv
<1>2. /\ idle \in Nat /\ seen[q].idle \in Nat /\ age[q] \in Nat /\ age[q] <= MaxStall
      /\ MinIdle(q) \in Nat /\ MinIdle(q)' = MinIdle(q) /\ MaxStall \in Nat
  BY <1>1, Fields, Constants DEF MinIdle
<1>3. CASE entry' = "gone" \/ entry = "new"
  BY <1>1, <1>3 DEF Snapshot
<1>4. CASE UNCHANGED <<entry, owner, count>> /\ idle' \in {idle, 0}
  <2>1. AsRead(q) => AsRead(q)'
    BY <1>2, <1>4 DEF AsRead, ByPeer
  <2>2. Outrun(q) => Outrun(q)'
    BY <1>2, <1>4 DEF Outrun
  <2> QED BY <1>1, <1>4, <2>1, <2>2 DEF Snapshot
<1> QED BY <1>3, <1>4 DEF RowKept

(* A pass claims the row: the snapshots of the others are outrun.          *)
LEMMA SnapshotClaimed ==
    ASSUME IInv, NEW c \in Consumers, NEW q \in Consumers \ {c},
           step[c] = "claim", ClaimMatches(c), entry' = entry, idle' = 0,
           stage'[q] = stage[q], step'[q] = step[q], peer'[q] = peer[q],
           seen'[q] = seen[q], age'[q] = age[q]
    PROVE  Snapshot(q)'
<1>1. /\ TypeOK /\ Snapshot(q) /\ Snapshot(c) /\ Arbitration(q) /\ Arbitration(c)
      /\ Generation(c)
  BY DEF IInv, ScanInv
<1>2. /\ idle \in Nat /\ seen[q].idle \in Nat /\ age[q] \in Nat /\ age[q] <= MaxStall
      /\ MinIdle(q) \in Nat /\ MinIdle(q)' = MinIdle(q)
      /\ MinIdle(c) \in Nat /\ age[c] \in Nat /\ age[c] <= MaxStall
  BY <1>1, Fields DEF MinIdle
<1>3. /\ MaxStall \in Nat /\ ExpiredIdle \in Nat /\ MaxStall < ExpiredIdle
      /\ Backstop \in Nat /\ ExpiredIdle < Backstop
  BY Constants
<1>4. entry = "pending" /\ idle >= MinIdle(c) /\ stage[c] # "cap"
  BY <1>1 DEF ClaimMatches, Arbitration
<1> SUFFICES ASSUME stage[q] \in {"dead", "own", "expired"},
                    step[q] \in {"lease", "state", "claim"}
             PROVE  Outrun(q)'
  BY <1>1, <1>4 DEF Snapshot
<1>5. CASE stage[q] = "expired"
  <2>1. MinIdle(q) = ExpiredIdle
    BY <1>5 DEF MinIdle
  <2> QED BY <1>2, <1>3, <2>1 DEF Outrun
<1>6. CASE stage[q] \in {"dead", "own"}
  <2>1. AsRead(q) \/ Outrun(q)
    BY <1>1, <1>4 DEF Snapshot
  <2>2. CASE Outrun(q)
    BY <1>2, <1>3, <2>2 DEF Outrun
  <2>3. CASE AsRead(q) /\ stage[c] \in {"dead", "own"}
    <3>1. AsRead(c)
      <4>1. ~Outrun(c)
        BY <1>2, <1>3, <1>4 DEF Outrun
      <4> QED BY <1>1, <1>4, <2>3, <4>1 DEF Snapshot
    <3>2. owner = peer[c] /\ owner = peer[q]
      BY <1>6, <2>3, <3>1 DEF AsRead, ByPeer
    <3>3. arb[peer[c]] = c /\ arb[peer[q]] = q
      BY <1>1, <1>6, <2>3 DEF Arbitration, ByPeer
    <3> QED BY <3>2, <3>3
  <2>4. CASE AsRead(q) /\ stage[c] \notin {"dead", "own"}
    <3>1. stage[c] \in {"expired", "auto"}
      BY <1>1, <1>4, <2>4 DEF TypeOK, Stages, Generation
    <3>2. idle >= ExpiredIdle
      <4>1. stage[c] = "expired" => MinIdle(c) = ExpiredIdle
        BY DEF MinIdle
      <4>2. stage[c] = "auto" => MinIdle(c) = Backstop
        BY DEF MinIdle
      <4> QED BY <1>2, <1>3, <1>4, <3>1, <4>1, <4>2
    <3>3. idle <= seen[q].idle + age[q]
      BY <2>4 DEF AsRead
    <3>4. MinIdle(q) >= seen[q].idle
      BY <1>2, <1>6 DEF MinIdle
    <3> QED BY <1>2, <1>3, <3>2, <3>3, <3>4 DEF Outrun
  <2> QED BY <2>1, <2>2, <2>3, <2>4
<1> QED BY <1>5, <1>6

-----------------------------------------------------------------------------
(* The handlers.                                                           *)

LEMMA HandlersKeep ==
    ASSUME IInv, NEW c \in Consumers,
           Read(c) \/ OtherStarts(c) \/ OtherEnds(c) \/ HandlerStep(c)
    PROVE  IInv'
<1> USE DEF row, keys, fleet, slots, pass
<1>1. TypeOK /\ (entry = "pending" => count >= 1) /\ Generation(c) /\ Arbitration(c) /\ Silenced(c)
  BY DEF IInv, ScanInv
<1>2. TypeOK'
  BY <1>1, HandlerTypes
<1>3. UNCHANGED <<fleet, absent, pass>>
  BY DEF Read, OtherStarts, OtherEnds, HandlerStep, Acquire, Renew, Finish, Fail
<1>4. \A q \in Consumers \ {c} : working'[q] = working[q] /\ waiting'[q] = waiting[q]
  BY <1>1 DEF Read, OtherStarts, OtherEnds, HandlerStep, Acquire, Renew, Finish, Fail, TypeOK
<1>5. (up[c] /\ stage[c] # "own") \/ UNCHANGED <<working, waiting>>
  BY <1>1 DEF Read, OtherStarts, OtherEnds, HandlerStep, Acquire, Renew, Finish, Fail, Booted,
              Generation
<1>6. RowKept /\ (entry' = "pending" => count' >= 1)
  <2>1. CASE Read(c)
    BY <2>1 DEF Read, RowKept
  <2>2. CASE Finish(c)
    BY <2>2 DEF Finish, RowKept
  <2>3. CASE Renew(c)
    BY <1>1, <2>3 DEF Renew, RowKept
  <2>4. CASE OtherStarts(c) \/ OtherEnds(c) \/ Acquire(c) \/ Fail(c)
    BY <1>1, <2>4 DEF OtherStarts, OtherEnds, Acquire, Fail, RowKept
  <2> QED BY <2>1, <2>2, <2>3, <2>4 DEF HandlerStep
<1>7. \A q \in Consumers : Snapshot(q)'
  BY <1>3, <1>6, SnapshotKept
<1>8. \A q \in Consumers \ {c} : Same(q)
  BY <1>3, <1>4 DEF Same
<1>9. \A q \in Consumers : Holds(q)
  BY <1>3 DEF Holds, Arbitrates
<1>10. Generation(c)'
  BY <1>1, <1>3, <1>5 DEF Generation
<1>11. Arbitration(c)' /\ Silenced(c)'
  BY <1>1, <1>3 DEF Arbitration, ByPeer, Silenced
<1>12. Mute(c) => Mute(c)'
  BY <1>3 DEF Mute
<1> QED BY <1>2, <1>6, <1>7, <1>8, <1>9, <1>10, <1>11, <1>12, StepCloses DEF ScanInv

-----------------------------------------------------------------------------
(* The passes.                                                             *)

(* The pass is done with the row, whatever became of it.                   *)
LEMMA LeaveKeeps ==
    ASSUME IInv, TypeOK', NEW c \in Consumers, up[c],
           ~(stage[c] = "own" /\ step[c] = "arb"), Leave(c), UNCHANGED <<up, alive, slots>>,
           RowKept, entry' = "pending" => count' >= 1
    PROVE  IInv'
<1>1. TypeOK /\ Generation(c)
  BY DEF IInv, ScanInv
<1>2. /\ stage'[c] \in {"dead", "expired", "auto", "dispatch"}
      /\ stage'[c] = "dead" => step'[c] = "look"
      /\ stage'[c] = "expired" => step'[c] = "scan"
      /\ stage'[c] = "auto" => step'[c] = "claim"
      /\ stage'[c] = "dispatch" => step'[c] = "none"
      /\ \A q \in Consumers \ {c} : /\ stage'[q] = stage[q] /\ step'[q] = step[q]
                                    /\ seen'[q] = seen[q] /\ age'[q] = age[q]
  BY <1>1, FollowingTypes, GotoTypes, ForgetTypes DEF Leave
<1>3. \A q \in Consumers \ {c} : peer'[q] = peer[q]
  BY <1>1 DEF Leave, TypeOK
<1>4. \A q \in Consumers \ {c} : Same(q)
  BY <1>2, <1>3 DEF Same, slots
<1>5. \A q \in Consumers \ {c} : Holds(q)
  BY DEF Leave, Holds, Arbitrates
<1>6. \A q \in Consumers \ {c} : Snapshot(q)'
  BY <1>4, SnapshotKept DEF Same
<1>7. ScanInv(c)'
  BY <1>1, <1>2 DEF ScanInv, Generation, Arbitration, ByPeer, Snapshot, Silenced
<1>8. ~Mute(c)
  BY DEF Mute
<1> QED BY <1>4, <1>5, <1>6, <1>7, <1>8, StepCloses

(* The pass goes on within its stage.                                      *)
LEMMA StageKeeps ==
    ASSUME IInv, TypeOK', NEW c \in Consumers, up[c], NEW sp \in Steps \ {"arb", "none"},
           stage[c] \notin {"rest", "dispatch"},
           Goto(c, stage[c], sp), UNCHANGED <<up, alive, slots>>,
           peer' = peer, \A q \in Consumers \ {c} : seen'[q] = seen[q] /\ age'[q] = age[q],
           \A q \in Consumers \ {c} : Snapshot(q)', Snapshot(c)',
           entry' = "pending" => count' >= 1,
           \/ arb' = arb /\ ~(stage[c] = "own" /\ step[c] = "arb")
           \/ arb[peer[c]] = None /\ ByPeer(c) /\ arb' = [arb EXCEPT ![peer[c]] = c],
           ByPeer(c) => peer[c] \in Consumers /\ arb'[peer[c]] = c /\ sp # "look",
           sp = "claim" => stage[c] # "cap",
           stage[c] = "dead" /\ sp # "recheck" => Mute(peer[c])
    PROVE  IInv'
<1>1. TypeOK /\ Generation(c) /\ Arbitration(c)
  BY DEF IInv, ScanInv
<1>2. /\ stage'[c] = stage[c] /\ step'[c] = sp
      /\ \A q \in Consumers \ {c} : stage'[q] = stage[q] /\ step'[q] = step[q]
  BY <1>1, GotoTypes DEF TypeOK
<1>3. \A q \in Consumers \ {c} : Same(q)
  BY <1>2 DEF Same, slots
<1>4. ASSUME NEW q \in Consumers \ {c} PROVE Holds(q)
  <2>1. ASSUME NEW p \in Consumers, Arbitrates(q, p) PROVE arb'[p] = q
    <3>1. arb[p] = q /\ arb[p] # None
      BY <2>1, Constants DEF Arbitrates
    <3> QED BY <1>1, <3>1 DEF TypeOK
  <2> QED BY <2>1 DEF Holds
<1>5. Generation(c)' /\ Arbitration(c)'
  BY <1>1, <1>2 DEF Generation, Arbitration, ByPeer, slots
<1>6. Silenced(c)'
  <2> SUFFICES ASSUME stage[c] = "dead", sp # "recheck"
               PROVE  ~up[peer[c]] \/ (stage'[peer[c]] = "own" /\ step'[peer[c]] = "arb")
    BY <1>2 DEF Silenced
  <2>1. peer[c] \in Consumers /\ Mute(peer[c]) /\ peer[c] # c
    BY DEF ByPeer, Mute
  <2> QED BY <1>2, <2>1 DEF Mute
<1>7. arb[c] # None => ~Mute(c)
  BY <1>1 DEF Mute, Arbitration
<1> QED BY <1>3, <1>4, <1>5, <1>6, <1>7, StepCloses DEF ScanInv

LEMMA PassesKeep ==
    ASSUME IInv, NEW c \in Consumers, PassStep(c)
    PROVE  IInv'
<1> USE DEF row, keys, fleet, slots, pass
<1>1. /\ TypeOK /\ (entry = "pending" => count >= 1) /\ Generation(c) /\ Arbitration(c)
      /\ Snapshot(c) /\ Silenced(c)
  BY DEF IInv, ScanInv
<1>2. TypeOK'
  BY <1>1, PassTypes
<1>3. /\ \/ stage[c] = "dispatch"
         \/ step[c] # "none" /\ stage[c] \notin {"rest", "dispatch"}
      /\ up[c]
  <2>1. stage[c] = "dispatch" \/ step[c] # "none"
    BY DEF PassStep, Look, At, TakeArbitration, Recheck, Scan, CheckLease, CheckState, Claim,
           Reread, Bury, BuryAck, BurySettle, Dispatch
  <2> QED BY <1>1, <2>1 DEF Generation
<1>4. ASSUME Leave(c), PassFrame, step[c] # "arb" \/ stage[c] = "dead",
             RowKept, entry' = "pending" => count' >= 1
      PROVE  IInv'
  BY <1>2, <1>3, <1>4, LeaveKeeps DEF PassFrame
<1>5. ASSUME UNCHANGED <<entry, owner, count, idle>>
      PROVE  RowKept /\ (entry' = "pending" => count' >= 1)
  BY <1>1, <1>5 DEF RowKept
<1>6. ASSUME NEW sp \in Steps \ {"arb", "none", "look", "recheck"}, Goto(c, stage[c], sp), PassFrame,
             step[c] \notin {"none", "look", "arb"}, peer' = peer, arb' = arb,
             \A q \in Consumers \ {c} : seen'[q] = seen[q] /\ age'[q] = age[q],
             \A q \in Consumers \ {c} : Snapshot(q)', Snapshot(c)',
             entry' = "pending" => count' >= 1,
             sp = "claim" => stage[c] # "cap",
             stage[c] = "dead" /\ step[c] = "recheck" => Mute(peer[c])
      PROVE  IInv'
  <2>1. stage[c] \notin {"rest", "dispatch"}
    BY <1>1, <1>6 DEF Generation
  <2>2. ByPeer(c) => peer[c] \in Consumers /\ arb'[peer[c]] = c
    BY <1>1, <1>6 DEF Arbitration
  <2>3. stage[c] = "dead" => Mute(peer[c])
    BY <1>1, <1>6 DEF Silenced, Mute
  <2> QED BY <1>2, <1>3, <1>6, <2>1, <2>2, <2>3, StageKeeps DEF PassFrame
<1>7. ASSUME NEW sp \in Steps, Goto(c, stage[c], sp), RowKept, peer' = peer,
             \A q \in Consumers \ {c} : seen'[q] = seen[q] /\ age'[q] = age[q]
      PROVE  \A q \in Consumers \ {c} : Snapshot(q)'
  <2>1. stage[c] \in Stages
    BY <1>1 DEF TypeOK
  <2>2. \A q \in Consumers \ {c} : stage'[q] = stage[q] /\ step'[q] = step[q]
    BY <1>1, <1>7, <2>1, GotoTypes
  <2> QED BY <1>7, <2>2, SnapshotKept
<1>8. ASSUME NEW sp \in Steps, Stay(c, sp) \/ Move(c, sp)
      PROVE  /\ Goto(c, stage[c], sp) /\ peer' = peer /\ arb' = arb
             /\ stage'[c] = stage[c] /\ step'[c] = sp
             /\ \A q \in Consumers \ {c} : seen'[q] = seen[q] /\ age'[q] = age[q]
  BY <1>1, <1>8, GotoTypes, ForgetTypes DEF Stay, Move, TypeOK
<1>9. {"recheck", "scan", "lease", "state", "claim", "reread", "bury", "ack", "settle"}
         \subseteq Steps \ {"arb", "none", "look"}
  BY DEF Steps
<1>10. CASE Look(c)
  <2>1. /\ stage[c] = "dead" /\ step[c] = "look" /\ PassFrame
        /\ UNCHANGED <<entry, owner, count, idle>>
    BY <1>10 DEF Look, At
  <2>2. CASE Leave(c)
    BY <1>4, <1>5, <2>1, <2>2
  <2>3. CASE ~Leave(c)
    <3>1. PICK p \in Consumers : /\ peer' = [peer EXCEPT ![c] = p] /\ Goto(c, "dead", "arb")
                                 /\ UNCHANGED <<seen, age, arb>>
      BY <1>10, <2>3 DEF Look
    <3>2. /\ stage'[c] = "dead" /\ step'[c] = "arb" /\ peer'[c] = p
          /\ \A q \in Consumers \ {c} :
                stage'[q] = stage[q] /\ step'[q] = step[q] /\ peer'[q] = peer[q]
      BY <1>1, <3>1, GotoTypes DEF TypeOK, Stages, Steps
    <3>3. \A q \in Consumers \ {c} : Same(q) /\ Holds(q)
      BY <2>1, <3>1, <3>2 DEF Same, Holds, Arbitrates, PassFrame
    <3>4. \A q \in Consumers \ {c} : Snapshot(q)'
      BY <1>5, <2>1, <3>3, SnapshotKept DEF Same
    <3>5. ScanInv(c)'
      BY <1>1, <1>3, <2>1, <3>1, <3>2
         DEF ScanInv, Generation, Arbitration, ByPeer, Snapshot, Silenced, PassFrame
    <3>6. ~Mute(c)
      BY <1>3, <2>1 DEF Mute
    <3> QED BY <1>2, <1>5, <2>1, <3>3, <3>4, <3>5, <3>6, StepCloses
  <2> QED BY <2>2, <2>3
<1>11. CASE TakeArbitration(c)
  <2>1. step[c] = "arb" /\ PassFrame /\ UNCHANGED <<entry, owner, count, idle>>
    BY <1>11 DEF TakeArbitration
  <2>2. CASE stage[c] = "dead" /\ Leave(c)
    BY <1>4, <1>5, <2>1, <2>2
  <2>3. CASE arb[peer[c]] = None /\ arb' = [arb EXCEPT ![peer[c]] = c]
             /\ Goto(c, stage[c], IF stage[c] = "dead" THEN "recheck" ELSE "scan")
             /\ UNCHANGED <<seen, age, peer>>
    <3>1. PICK sp \in {"recheck", "scan"} :
             Goto(c, stage[c], sp) /\ (stage[c] = "dead" => sp = "recheck")
      BY <2>3
    <3>2. ByPeer(c) /\ peer[c] \in Consumers
      BY <1>1, <2>1 DEF Arbitration
    <3>3. arb'[peer[c]] = c
      BY <1>1, <2>3, <3>2 DEF TypeOK
    <3>4. \A q \in Consumers \ {c} : Snapshot(q)'
      BY <1>5, <1>7, <1>9, <2>1, <2>3, <3>1
    <3>5. step'[c] = sp
      BY <1>1, <1>9, <3>1, GotoTypes DEF TypeOK
    <3>6. Snapshot(c)'
      BY <3>5 DEF Snapshot
    <3>7. sp \in Steps \ {"arb", "none"} /\ sp # "look" /\ sp # "claim"
      BY <1>9, <3>1
    <3>8. stage[c] \notin {"rest", "dispatch"} /\ up[c]
      BY <1>3, <3>2 DEF ByPeer
    <3>9. UNCHANGED <<up, alive, slots>> /\ peer' = peer /\ seen' = seen /\ age' = age
      BY <2>1, <2>3 DEF PassFrame
    <3>10. arb[peer[c]] = None /\ ByPeer(c) /\ arb' = [arb EXCEPT ![peer[c]] = c]
      BY <2>3, <3>2
    <3>11. entry' = "pending" => count' >= 1
      BY <1>5, <2>1
    <3> QED BY <1>2, <3>1, <3>2, <3>3, <3>4, <3>6, <3>7, <3>8, <3>9, <3>10, <3>11, StageKeeps
  <2> QED BY <1>11, <2>2, <2>3 DEF TakeArbitration
<1>12. CASE Recheck(c)
  <2>1. /\ stage[c] = "dead" /\ step[c] = "recheck" /\ PassFrame
        /\ UNCHANGED <<entry, owner, count, idle>>
    BY <1>12 DEF Recheck, At
  <2>2. CASE Leave(c)
    BY <1>4, <1>5, <2>1, <2>2
  <2>3. CASE ~Leave(c)
    <3>1. ~(alive[peer[c]] > 0) /\ Stay(c, "scan")
      BY <1>12, <2>3 DEF Recheck
    <3>2. peer[c] \in Consumers
      BY <1>1, <2>1 DEF Arbitration, ByPeer
    <3>3. Mute(peer[c])
      BY <3>1, <3>2 DEF IInv, ScanInv, Generation, Mute
    <3>4. Snapshot(c)'
      BY <1>8, <1>9, <3>1 DEF Snapshot
    <3> QED BY <1>5, <1>6, <1>7, <1>8, <1>9, <2>1, <3>1, <3>3, <3>4
  <2> QED BY <2>2, <2>3
<1>13. CASE Scan(c)
  <2>1. step[c] = "scan" /\ PassFrame /\ UNCHANGED <<entry, owner, count, idle>>
    BY <1>13 DEF Scan
  <2>2. CASE ~InScan(c)
    BY <1>4, <1>5, <1>13, <2>1, <2>2 DEF Scan
  <2>3. CASE InScan(c)
    <3>1. /\ Goto(c, stage[c], "lease") /\ UNCHANGED <<age, peer, arb>>
          /\ seen' = [seen EXCEPT ![c] = [count |-> count, idle |-> idle]]
      BY <1>13, <2>3 DEF Scan
    <3>2. /\ stage'[c] = stage[c] /\ step'[c] = "lease"
          /\ seen'[c] = [count |-> count, idle |-> idle]
          /\ \A q \in Consumers \ {c} : seen'[q] = seen[q]
      BY <1>1, <1>9, <3>1, GotoTypes DEF TypeOK
    <3>3. entry = "pending" /\ (ByPeer(c) => owner = peer[c])
      BY <2>3 DEF InScan, ByPeer
    <3>4. Snapshot(c)'
      <4>1. seen'[c].count = count /\ seen'[c].idle = idle
        BY <3>2
      <4>2. idle \in Nat /\ age[c] \in Nat
        BY <1>1, Fields
      <4>3. AsRead(c)'
        BY <2>1, <3>1, <3>2, <3>3, <4>1, <4>2 DEF AsRead, ByPeer
      <4> QED BY <1>1, <2>1, <3>2, <3>3, <4>1, <4>3 DEF Snapshot
    <3>5. \A q \in Consumers \ {c} : Snapshot(q)'
      BY <1>5, <1>7, <1>9, <2>1, <3>1, <3>2
    <3> QED BY <1>5, <1>6, <1>9, <2>1, <3>1, <3>2, <3>4, <3>5
  <2> QED BY <2>2, <2>3
<1>14. ASSUME Judge(c), PassFrame, UNCHANGED <<entry, owner, count, idle>>,
              step[c] \in {"lease", "state"}
       PROVE  IInv'
  <2>1. CASE Leave(c)
    BY <1>4, <1>5, <1>14, <2>1
  <2>2. CASE Move(c, "bury")
    <3>1. Snapshot(c)'
      BY <1>8, <1>9, <2>2 DEF Snapshot
    <3> QED BY <1>5, <1>6, <1>7, <1>8, <1>9, <1>14, <2>2, <3>1
  <2>3. CASE ~(seen[c].count >= MaxDelivery) /\ stage[c] # "cap" /\ Stay(c, "claim")
    <3>1. /\ stage'[c] = stage[c] /\ step'[c] = "claim"
          /\ UNCHANGED <<seen, age, peer>>
      BY <1>8, <1>9, <2>3 DEF Stay
    <3>2. Snapshot(c)'
      <4>1. seen[c].count \in Nat /\ MaxDelivery \in Nat
        BY <1>1, Fields, Constants
      <4>2. seen[c].count < MaxDelivery
        BY <2>3, <4>1
      <4>3. stage[c] \in {"dead", "own", "expired"} =>
               /\ entry # "new" /\ seen[c].count >= 1
               /\ entry = "pending" => AsRead(c) \/ Outrun(c)
        BY <1>1, <1>14 DEF Snapshot
      <4>4. (AsRead(c) => AsRead(c)') /\ (Outrun(c) => Outrun(c)')
        BY <1>14, <3>1 DEF AsRead, Outrun, MinIdle, ByPeer
      <4> QED BY <1>14, <3>1, <4>2, <4>3, <4>4 DEF Snapshot
    <3> QED BY <1>5, <1>6, <1>7, <1>8, <1>9, <1>14, <2>3, <3>2
  <2> QED BY <1>14, <2>1, <2>2, <2>3 DEF Judge
<1>15. CASE CheckLease(c)
  <2>1. step[c] = "lease" /\ PassFrame /\ UNCHANGED <<entry, owner, count, idle>>
    BY <1>15 DEF CheckLease
  <2>2. CASE Leave(c)
    BY <1>4, <1>5, <2>1, <2>2
  <2>3. CASE Judge(c)
    BY <1>14, <2>1, <2>3
  <2>4. CASE Stay(c, "state")
    <3>1. /\ stage'[c] = stage[c] /\ step'[c] = "state"
          /\ UNCHANGED <<seen, age, peer>>
      BY <1>8, <1>9, <2>4 DEF Stay
    <3>2. Snapshot(c)'
      <4>1. (AsRead(c) => AsRead(c)') /\ (Outrun(c) => Outrun(c)')
        BY <2>1, <3>1 DEF AsRead, Outrun, MinIdle, ByPeer
      <4> QED BY <1>1, <2>1, <3>1, <4>1 DEF Snapshot
    <3> QED BY <1>5, <1>6, <1>7, <1>8, <1>9, <2>1, <2>4, <3>2
  <2> QED BY <1>15, <2>2, <2>3, <2>4 DEF CheckLease
<1>16. CASE CheckState(c)
  <2>1. step[c] = "state" /\ PassFrame /\ UNCHANGED <<entry, owner, count, idle>>
    BY <1>16 DEF CheckState
  <2>2. CASE Leave(c)
    BY <1>4, <1>5, <2>1, <2>2
  <2>3. CASE Judge(c)
    BY <1>14, <2>1, <2>3
  <2> QED BY <1>16, <2>2, <2>3 DEF CheckState
<1>17. CASE Claim(c)
  <2>1. step[c] = "claim" /\ PassFrame /\ entry' = entry
    BY <1>17 DEF Claim
  <2>2. CASE ~ClaimMatches(c)
    <3>1. Leave(c) /\ UNCHANGED <<entry, owner, count, idle>>
      BY <1>17, <2>2 DEF Claim
    <3> QED BY <1>4, <1>5, <2>1, <3>1
  <2>3. CASE ClaimMatches(c)
    <3>1. Move(c, "reread") /\ idle' = 0 /\ count' = Least(count + 1, MaxDelivery + 1)
      BY <1>17, <2>3 DEF Claim
    <3>2. /\ Goto(c, stage[c], "reread") /\ peer' = peer /\ arb' = arb
          /\ stage'[c] = stage[c] /\ step'[c] = "reread"
          /\ \A q \in Consumers \ {c} : seen'[q] = seen[q] /\ age'[q] = age[q]
      BY <1>8, <1>9, <3>1
    <3>3. \A q \in Consumers \ {c} : stage'[q] = stage[q] /\ step'[q] = step[q]
      BY <1>1, <1>9, <3>2, GotoTypes DEF TypeOK
    <3>4. \A q \in Consumers \ {c} : Snapshot(q)'
      BY <2>1, <2>3, <3>1, <3>2, <3>3, SnapshotClaimed
    <3>5. Snapshot(c)'
      BY <3>2 DEF Snapshot
    <3>6. count' >= 1
      BY <1>1, <3>1, Fields, Constants DEF Least
    <3> QED BY <1>6, <1>9, <2>1, <3>2, <3>4, <3>5, <3>6
  <2> QED BY <2>2, <2>3
<1>18. CASE Reread(c)
  <2>1. step[c] = "reread" /\ Leave(c) /\ PassFrame /\ UNCHANGED <<entry, owner, count, idle>>
    BY <1>18 DEF Reread
  <2> QED BY <1>4, <1>5, <2>1
<1>19. CASE Bury(c)
  <2>1. step[c] = "bury" /\ PassFrame /\ UNCHANGED <<entry, owner, count, idle>>
    BY <1>19 DEF Bury
  <2>2. CASE Leave(c)
    BY <1>4, <1>5, <2>1, <2>2
  <2>3. CASE Stay(c, "ack")
    <3>1. Snapshot(c)'
      BY <1>8, <1>9, <2>3 DEF Snapshot
    <3> QED BY <1>5, <1>6, <1>7, <1>8, <1>9, <2>1, <2>3, <3>1
  <2> QED BY <1>19, <2>2, <2>3 DEF Bury
<1>20. CASE BuryAck(c)
  <2>1. step[c] = "ack" /\ PassFrame /\ UNCHANGED <<count, idle>>
    BY <1>20 DEF BuryAck
  <2>2. CASE Leave(c) /\ UNCHANGED <<entry, owner>>
    BY <1>4, <1>5, <2>1, <2>2
  <2>3. CASE Stay(c, "settle") /\ entry' = "gone"
    <3>1. Snapshot(c)'
      BY <1>8, <1>9, <2>3 DEF Snapshot
    <3>2. RowKept
      BY <2>3 DEF RowKept
    <3>3. \A q \in Consumers \ {c} : Snapshot(q)'
      BY <1>7, <1>8, <1>9, <2>3, <3>2
    <3> QED BY <1>6, <1>8, <1>9, <2>1, <2>3, <3>1, <3>3
  <2> QED BY <1>20, <2>2, <2>3 DEF BuryAck
<1>21. CASE BurySettle(c)
  <2>1. step[c] = "settle" /\ Leave(c) /\ PassFrame /\ UNCHANGED <<entry, owner, count, idle>>
    BY <1>21 DEF BurySettle
  <2> QED BY <1>4, <1>5, <2>1
<1>22. CASE Dispatch(c)
  <2>1. /\ stage[c] = "dispatch" /\ Goto(c, "rest", "none")
        /\ UNCHANGED <<row, keys, buried, fleet, other, working, absent, loop, peer, seen,
                       age, faults>>
        /\ \A q \in Consumers \ {c} : waiting'[q] = waiting[q]
    BY <1>1, <1>22 DEF Dispatch, TypeOK
  <2>2. /\ stage'[c] = "rest" /\ step'[c] = "none"
        /\ \A q \in Consumers \ {c} : stage'[q] = stage[q] /\ step'[q] = step[q]
    BY <1>1, <2>1, GotoTypes DEF Stages, Steps
  <2>3. \A q \in Consumers \ {c} : Same(q) /\ Holds(q)
    BY <2>1, <2>2 DEF Same, Holds, Arbitrates
  <2>4. \A q \in Consumers \ {c} : Snapshot(q)'
    BY <1>5, <2>1, <2>3, SnapshotKept DEF Same
  <2>5. ScanInv(c)'
    BY <1>1, <1>3, <2>1, <2>2 DEF ScanInv, Generation, Arbitration, ByPeer, Snapshot, Silenced
  <2>6. ~Mute(c)
    BY <1>3, <2>1 DEF Mute
  <2> QED BY <1>2, <1>5, <2>1, <2>3, <2>4, <2>5, <2>6, StepCloses
<1> QED BY <1>10, <1>11, <1>12, <1>13, <1>15, <1>16, <1>17, <1>18, <1>19, <1>20, <1>21, <1>22
        DEF PassStep
-----------------------------------------------------------------------------
(* Ticks of the loops, failures, restarts and time.                        *)

LEMMA ProcessesKeep ==
    ASSUME IInv, NEW c \in Consumers,
           \/ Begin(c, "maintenance") \/ Begin(c, "prompt") \/ ArbitrationExpires(c)
           \/ Fault(c) \/ Crash(c) \/ Restart(c)
    PROVE  IInv'
<1> USE DEF row, keys, fleet, slots, pass
<1>1. /\ TypeOK /\ (entry = "pending" => count >= 1) /\ Generation(c) /\ Arbitration(c)
  BY DEF IInv, ScanInv
<1>2. TypeOK'
  BY <1>1, ProcessTypes
<1>3. UNCHANGED <<entry, owner, count, idle>>
  BY DEF Begin, ArbitrationExpires, Fault, Crash, Restart
<1>4. RowKept /\ (entry' = "pending" => count' >= 1)
  BY <1>1, <1>3 DEF RowKept
<1>5. {"none", "look", "scan", "arb"} \subseteq Steps
      /\ {"rest", "cap", "dead", "own"} \subseteq Stages
  BY DEF Steps, Stages
<1>6. ASSUME \A q \in Consumers \ {c} : Same(q), arb' = arb, ScanInv(c)', Mute(c) => Mute(c)'
      PROVE  IInv'
  <2>1. \A q \in Consumers \ {c} : Snapshot(q)'
    BY <1>4, <1>6, SnapshotKept DEF Same
  <2>2. \A q \in Consumers \ {c} : Holds(q)
    BY <1>6 DEF Holds, Arbitrates
  <2> QED BY <1>2, <1>4, <1>6, <2>1, <2>2, StepCloses
<1>7. ASSUME NEW k \in {"maintenance", "prompt"}, Begin(c, k) PROVE IInv'
  <2>1. /\ up[c] /\ stage[c] = "rest"
        /\ Goto(c, "cap", "scan") \/ Goto(c, "dead", "look")
        /\ UNCHANGED <<fleet, slots, peer, seen, age>>
    BY <1>7 DEF Begin, Booted
  <2>2. /\ \/ stage'[c] = "cap" /\ step'[c] = "scan"
           \/ stage'[c] = "dead" /\ step'[c] = "look"
        /\ \A q \in Consumers \ {c} : stage'[q] = stage[q] /\ step'[q] = step[q]
    BY <1>1, <1>5, <2>1, GotoTypes
  <2>3. \A q \in Consumers \ {c} : Same(q)
    BY <2>1, <2>2 DEF Same
  <2>4. ScanInv(c)'
    BY <1>1, <2>1, <2>2 DEF ScanInv, Generation, Arbitration, ByPeer, Snapshot, Silenced
  <2>5. ~Mute(c)
    BY <2>1 DEF Mute
  <2> QED BY <1>6, <2>1, <2>3, <2>4, <2>5
<1>8. CASE ArbitrationExpires(c)
  <2>1. /\ arb' = [arb EXCEPT ![c] = None] /\ ~Arbitrates(arb[c], c)
        /\ UNCHANGED <<alive, up, slots, pass>>
    BY <1>8 DEF ArbitrationExpires
  <2>2. ASSUME NEW q \in Consumers PROVE Same(q) /\ Holds(q)
    <3>1. ASSUME NEW p \in Consumers, Arbitrates(q, p) PROVE arb'[p] = q
      <4>1. arb[p] = q
        BY <3>1 DEF Arbitrates
      <4>2. p # c
        BY <2>1, <3>1, <4>1
      <4> QED BY <1>1, <2>1, <4>1, <4>2 DEF TypeOK
    <3> QED BY <2>1, <3>1 DEF Same, Holds
  <2>3. \A q \in Consumers : Snapshot(q)'
    BY <1>4, <2>2, SnapshotKept DEF Same
  <2>4. \A p \in Consumers : Mute(p) => Mute(p)'
    BY <2>1 DEF Mute
  <2>5. \A q \in Consumers : ScanInv(q)'
    BY <2>2, <2>3, <2>4, Bystander
  <2> QED BY <1>2, <1>4, <2>5 DEF IInv
<1>9. CASE Fault(c)
  <2>1. up[c] /\ UNCHANGED <<up, alive, slots>>
    BY <1>1, <1>9 DEF Fault, Generation
  <2>2. CASE Leave(c) /\ ~(stage[c] = "own" /\ step[c] = "arb")
    BY <1>2, <1>4, <2>1, <2>2, LeaveKeeps
  <2>3. CASE stage[c] # "own" /\ Abort(c)
    <3>1. /\ stage'[c] = "rest" /\ step'[c] = "none"
          /\ \A q \in Consumers \ {c} : /\ stage'[q] = stage[q] /\ step'[q] = step[q]
                                        /\ seen'[q] = seen[q] /\ age'[q] = age[q]
      BY <1>1, <1>5, <2>3, GotoTypes, ForgetTypes DEF Abort
    <3>2. \A q \in Consumers \ {c} : Same(q)
      BY <2>1, <2>3, <3>1 DEF Same, Abort
    <3>3. ScanInv(c)'
      BY <1>1, <2>1, <3>1 DEF ScanInv, Generation, Arbitration, ByPeer, Snapshot, Silenced
    <3>4. ~Mute(c)
      BY <2>1, <2>3 DEF Mute
    <3> QED BY <1>6, <2>3, <3>2, <3>3, <3>4 DEF Abort
  <2> QED BY <1>9, <2>2, <2>3 DEF Fault
<1>10. CASE Crash(c)
  <2>1. /\ stage'[c] = "rest" /\ step'[c] = "none"
        /\ \A q \in Consumers \ {c} : /\ stage'[q] = stage[q] /\ step'[q] = step[q]
                                      /\ seen'[q] = seen[q] /\ age'[q] = age[q]
    BY <1>1, <1>5, <1>10, GotoTypes, ForgetTypes DEF Crash
  <2>2. /\ ~up'[c] /\ ~working'[c] /\ waiting'[c] = {}
        /\ \A q \in Consumers \ {c} : /\ up'[q] = up[q] /\ alive'[q] = alive[q]
                                      /\ working'[q] = working[q] /\ waiting'[q] = waiting[q]
                                      /\ peer'[q] = peer[q]
    BY <1>1, <1>10 DEF Crash, TypeOK
  <2>3. \A q \in Consumers \ {c} : Same(q)
    BY <2>1, <2>2 DEF Same
  <2>4. ScanInv(c)'
    BY <2>1, <2>2 DEF ScanInv, Generation, Arbitration, ByPeer, Snapshot, Silenced
  <2>5. Mute(c)'
    BY <2>2 DEF Mute
  <2> QED BY <1>6, <1>10, <2>3, <2>4, <2>5 DEF Crash
<1>11. CASE Restart(c)
  <2>1. /\ stage'[c] = "own" /\ step'[c] = "arb"
        /\ \A q \in Consumers \ {c} : stage'[q] = stage[q] /\ step'[q] = step[q]
    BY <1>1, <1>5, <1>11, GotoTypes DEF Restart
  <2>2. /\ ~up[c] /\ up'[c] /\ alive'[c] = AliveTTL /\ peer'[c] = c
        /\ UNCHANGED <<arb, working, waiting, seen, age>>
        /\ \A q \in Consumers \ {c} : /\ up'[q] = up[q] /\ alive'[q] = alive[q]
                                      /\ peer'[q] = peer[q]
    BY <1>1, <1>11 DEF Restart, TypeOK
  <2>3. \A q \in Consumers \ {c} : Same(q)
    BY <2>1, <2>2 DEF Same
  <2>4. ScanInv(c)'
    BY <1>1, <2>1, <2>2, Constants
       DEF ScanInv, Generation, Arbitration, ByPeer, Snapshot, Silenced
  <2>5. Mute(c)'
    BY <2>1 DEF Mute
  <2> QED BY <1>6, <2>2, <2>3, <2>4, <2>5
<1> QED BY <1>7, <1>8, <1>9, <1>10, <1>11

(* Time does not move a snapshot from as-read to claimable, and it does not *)
(* let an outrun one catch up.                                             *)
LEMMA TickKeeps ==
    ASSUME IInv, Tick
    PROVE  IInv'
<1> USE DEF slots
<1>1. TypeOK /\ (entry = "pending" => count >= 1)
  BY DEF IInv
<1>2. TypeOK'
  BY <1>1, TickTypes
<1>3. /\ UNCHANGED <<entry, owner, count, arb, up, working, waiting, stage, step, peer, seen>>
      /\ idle' <= idle + 1 /\ idle' \in Nat /\ idle \in Nat
  BY <1>1, <1>2, Constants DEF Tick, Least, TypeOK
<1>4. ASSUME NEW c \in Consumers PROVE ScanInv(c)'
  <2>1. Generation(c) /\ Arbitration(c) /\ Snapshot(c) /\ Silenced(c)
    BY DEF IInv, ScanInv
  <2>2. Generation(c)'
    <3>1. up[c] => alive'[c] > 0
      BY Constants DEF Tick
    <3> QED BY <1>3, <2>1, <3>1 DEF Generation
  <2>3. Arbitration(c)' /\ Silenced(c)'
    BY <1>3, <2>1 DEF Arbitration, ByPeer, Silenced
  <2>4. ASSUME seen[c].count >= 1
        PROVE  (AsRead(c) => AsRead(c)') /\ (Outrun(c) => Outrun(c)')
    <3>1. seen[c] # NoRow
      BY <2>4 DEF NoRow
    <3>2. age'[c] = age[c] + 1
      BY <3>1 DEF Tick
    <3>3. /\ age[c] \in Nat /\ seen[c].idle \in Nat /\ MinIdle(c) \in Nat
          /\ MaxStall \in Nat
      BY <1>1, Fields, Constants
    <3>4. MinIdle(c)' = MinIdle(c)
      BY <1>3 DEF MinIdle
    <3>5. AsRead(c) => AsRead(c)'
      BY <1>3, <3>2, <3>3 DEF AsRead, ByPeer
    <3>6. Outrun(c) => Outrun(c)'
      BY <1>3, <3>2, <3>3, <3>4 DEF Outrun
    <3> QED BY <3>5, <3>6
  <2>5. Snapshot(c)'
    BY <1>3, <2>1, <2>4 DEF Snapshot
  <2> QED BY <2>2, <2>3, <2>5 DEF ScanInv
<1> QED BY <1>1, <1>2, <1>3, <1>4 DEF IInv
-----------------------------------------------------------------------------
LEMMA InvInit == Init => IInv
<1> SUFFICES ASSUME Init PROVE IInv
  OBVIOUS
<1>1. TypeOK
  <2>1. /\ {"rest"} \subseteq Stages /\ {"none"} \subseteq Steps /\ {"reader"} \subseteq Loops
        /\ 0 \in 0 .. MaxCrash /\ 0 \in 0 .. MaxFault /\ 0 \in 0 .. (AliveTTL + 1)
    BY ScanAssumption DEF Stages, Steps, Loops
  <2> QED BY <2>1, Typed, Constants DEF Init, AllTyped
<1>2. \A c \in Consumers : ScanInv(c)
  BY Constants DEF Init, ScanInv, Generation, Arbitration, ByPeer, Snapshot, Silenced
<1> QED BY <1>1, <1>2 DEF Init, IInv

LEMMA InvStutter == IInv /\ UNCHANGED vars => IInv'
<1> SUFFICES ASSUME IInv, UNCHANGED vars PROVE IInv'
  OBVIOUS
<1> USE DEF vars, row, keys, fleet, slots, pass
<1>1. TypeOK'
  BY Typed DEF IInv, AllTyped
<1>2. \A c \in Consumers : Snapshot(c)'
  BY SnapshotKept DEF RowKept
<1>3. \A c \in Consumers : ScanInv(c)'
  <2>1. \A c \in Consumers : Same(c) /\ Holds(c) /\ (Mute(c) => Mute(c)')
    BY DEF Same, Holds, Arbitrates, Mute
  <2> QED BY <1>2, <2>1, Bystander
<1> QED BY <1>1, <1>3 DEF IInv

LEMMA InvNext == IInv /\ [Next]_vars => IInv'
<1> SUFFICES ASSUME IInv, [Next]_vars PROVE IInv'
  OBVIOUS
<1>1. CASE UNCHANGED vars
  BY <1>1, InvStutter
<1>2. CASE Tick
  BY <1>2, TickKeeps
<1>3. ASSUME NEW c \in Consumers,
             \/ Read(c) \/ OtherStarts(c) \/ OtherEnds(c) \/ HandlerStep(c)
             \/ Begin(c, "maintenance") \/ Begin(c, "prompt")
             \/ PassStep(c) \/ ArbitrationExpires(c)
             \/ Fault(c) \/ Crash(c) \/ Restart(c)
      PROVE  IInv'
  BY <1>3, HandlersKeep, PassesKeep, ProcessesKeep
<1> QED BY <1>1, <1>2, <1>3 DEF Next

(* The control, the arbitration and the snapshots of the passes are         *)
(* consistent with the row throughout.                                     *)
THEOREM ScanInvariant == Spec => []IInv
  BY InvInit, InvNext, PTL DEF Spec

(* Every variable stays in its domain: the bounds on the row, the leases    *)
(* and the ages are kept by the steps.                                     *)
THEOREM ScanTypes == Spec => []TypeOK
<1>1. IInv => TypeOK
  BY DEF IInv
<1> QED BY <1>1, ScanInvariant, PTL

-----------------------------------------------------------------------------
(* What a claim finds.                                                     *)

(* Only the claim of c takes its pass from the claim to the second look at  *)
(* the lease.                                                              *)
LEMMA ClaimMoves ==
    ASSUME IInv, [Next]_vars, NEW c \in Consumers, step[c] = "claim", step'[c] = "reread"
    PROVE  Claim(c) /\ ClaimMatches(c)
<1>1. TypeOK
  BY DEF IInv
<1>2. {"none", "look", "scan", "arb", "claim", "bury", "ack", "settle", "reread", "recheck",
       "lease", "state"} \subseteq Steps
      /\ {"rest", "cap", "dead", "own"} \subseteq Stages
  BY DEF Steps, Stages
<1>3. ~UNCHANGED step
  OBVIOUS
<1>4. ASSUME NEW d \in Consumers, NEW st \in Stages, NEW sp \in Steps, Goto(d, st, sp)
      PROVE  d = c /\ sp = "reread"
  <2>1. d = c
    BY <1>1, <1>4, GotoTypes
  <2> QED BY <1>1, <1>4, <2>1, GotoTypes
<1>5. ASSUME NEW d \in Consumers PROVE ~Leave(d)
  <2>1. Following(d)[2] \in {"look", "scan", "claim", "none"}
    BY FollowingTypes
  <2> QED BY <1>4, <2>1, FollowingTypes DEF Leave
<1>6. ASSUME NEW d \in Consumers, NEW sp \in Steps \ {"reread"} PROVE ~Stay(d, sp) /\ ~Move(d, sp)
  <2>1. stage[d] \in Stages
    BY <1>1 DEF TypeOK
  <2> QED BY <1>4, <1>6, <2>1 DEF Stay, Move
<1>7. ASSUME NEW d \in Consumers, Claim(d) PROVE d = c /\ ClaimMatches(c)
  <2>1. ClaimMatches(d) /\ Goto(d, stage[d], "reread")
    BY <1>5, <1>7 DEF Claim, Move
  <2>2. stage[d] \in Stages
    BY <1>1 DEF TypeOK
  <2> QED BY <1>2, <1>4, <2>1, <2>2
<1>8. ASSUME NEW d \in Consumers, PassStep(d) PROVE Claim(d)
  <2>1. ~Judge(d)
    BY <1>2, <1>5, <1>6 DEF Judge
  <2>2. ~Look(d)
    BY <1>2, <1>4, <1>5 DEF Look
  <2>3. ~TakeArbitration(d)
    <3>1. stage[d] \in Stages
      BY <1>1 DEF TypeOK
    <3> QED BY <1>2, <1>4, <1>5, <3>1 DEF TakeArbitration
  <2>4. ~Recheck(d) /\ ~CheckLease(d) /\ ~CheckState(d) /\ ~Bury(d) /\ ~BuryAck(d)
        /\ ~BurySettle(d) /\ ~Reread(d)
    BY <1>2, <1>5, <1>6, <2>1
       DEF Recheck, CheckLease, CheckState, Bury, BuryAck, BurySettle, Reread
  <2>5. ~Scan(d)
    <3>1. stage[d] \in Stages
      BY <1>1 DEF TypeOK
    <3> QED BY <1>2, <1>4, <1>5, <3>1 DEF Scan
  <2>6. ~Dispatch(d)
    BY <1>2, <1>4 DEF Dispatch
  <2> QED BY <1>8, <2>2, <2>3, <2>4, <2>5, <2>6 DEF PassStep
<1>9. ASSUME NEW d \in Consumers
      PROVE  /\ ~(Read(d) \/ OtherStarts(d) \/ OtherEnds(d) \/ HandlerStep(d))
             /\ ~ArbitrationExpires(d)
  BY <1>3 DEF Read, OtherStarts, OtherEnds, HandlerStep, Acquire, Renew, Finish, Fail,
              ArbitrationExpires, pass
<1>10. ASSUME NEW d \in Consumers
       PROVE  /\ ~Begin(d, "maintenance") /\ ~Begin(d, "prompt")
              /\ ~Fault(d) /\ ~Crash(d) /\ ~Restart(d)
  BY <1>2, <1>4, <1>5 DEF Begin, Fault, Abort, Crash, Restart
<1>11. ~Tick
  BY <1>3 DEF Tick
<1>12. ~UNCHANGED vars
  BY <1>3 DEF vars, pass
<1>13. PICK d \in Consumers : Claim(d)
  BY <1>8, <1>9, <1>10, <1>11, <1>12 DEF Next
<1> QED BY <1>7, <1>13

(* A compare-and-claim that matches finds the row as the pass has read it.  *)
LEMMA ClaimFindsAsRead ==
    ASSUME IInv, NEW c \in Consumers, step[c] = "claim", ClaimMatches(c), stage[c] # "auto"
    PROVE  AsRead(c) /\ seen[c].count < MaxDelivery
<1>1. TypeOK /\ Generation(c) /\ Arbitration(c) /\ Snapshot(c)
  BY DEF IInv, ScanInv
<1>2. stage[c] \in {"dead", "own", "expired"}
  BY <1>1 DEF TypeOK, Stages, Generation, Arbitration
<1>3. entry = "pending" /\ idle >= MinIdle(c)
  BY DEF ClaimMatches
<1>4. ~Outrun(c)
  <2>1. /\ idle \in Nat /\ MinIdle(c) \in Nat /\ age[c] \in Nat /\ age[c] <= MaxStall
        /\ MaxStall \in Nat
    BY <1>1, Fields, Constants
  <2> QED BY <1>3, <2>1 DEF Outrun
<1> QED BY <1>1, <1>2, <1>3, <1>4 DEF Snapshot

(* No compare-and-claim takes a row beyond its last delivery, for any       *)
(* number of replicas and however their passes interleave                  *)
(* (_claim_pending_page).                                                  *)
THEOREM ScanClaimsWithinCap == Spec => ClaimsWithinCap
<1> DEFINE Within == \A c \in Consumers :
               step[c] = "claim" /\ step'[c] = "reread" /\ stage[c] # "auto"
                  => count' <= MaxDelivery
<1>1. IInv /\ [Next]_vars => [Within]_vars
  <2> SUFFICES ASSUME IInv, [Next]_vars, NEW c \in Consumers,
                      step[c] = "claim", step'[c] = "reread", stage[c] # "auto"
               PROVE  count' <= MaxDelivery
    OBVIOUS
  <2>1. Claim(c) /\ ClaimMatches(c)
    BY ClaimMoves
  <2>2. count < MaxDelivery
    BY <2>1, ClaimFindsAsRead DEF AsRead
  <2>3. count' = Least(count + 1, MaxDelivery + 1)
    BY <2>1 DEF Claim
  <2>4. count \in Nat /\ MaxDelivery \in Nat
    BY Fields, Constants DEF IInv
  <2> QED BY <2>2, <2>3, <2>4 DEF Least
<1>2. ClaimsWithinCap <=> [][Within]_vars
  BY PTL DEF ClaimsWithinCap
<1> QED BY <1>1, <1>2, ScanInvariant, PTL DEF Spec

(* A transfer from a peer proven dead finds the row with that peer, which   *)
(* has no handler and no waiting dispatch for it even if it has restarted   *)
(* since (_select_dead_consumer_entries, _recover_local_pending_once).     *)
THEOREM ScanTransferOnlyFromDead == Spec => TransferOnlyFromDead
<1> DEFINE FromDead == \A c \in Consumers :
               step[c] = "claim" /\ step'[c] = "reread" /\ stage[c] = "dead"
                  => owner = peer[c] /\ ~working[owner] /\ waiting[owner] = {}
<1>1. IInv /\ [Next]_vars => [FromDead]_vars
  <2> SUFFICES ASSUME IInv, [Next]_vars, NEW c \in Consumers,
                      step[c] = "claim", step'[c] = "reread", stage[c] = "dead"
               PROVE  owner = peer[c] /\ ~working[owner] /\ waiting[owner] = {}
    OBVIOUS
  <2>1. Claim(c) /\ ClaimMatches(c)
    BY ClaimMoves
  <2>2. owner = peer[c]
    BY <2>1, ClaimFindsAsRead DEF AsRead, ByPeer
  <2>3. peer[c] \in Consumers /\ (~up[peer[c]] \/ stage[peer[c]] = "own")
    BY DEF IInv, ScanInv, Arbitration, ByPeer, Silenced
  <2>4. ~working[peer[c]] /\ waiting[peer[c]] = {}
    BY <2>3 DEF IInv, ScanInv, Generation
  <2> QED BY <2>2, <2>4
<1>2. TransferOnlyFromDead <=> [][FromDead]_vars
  BY PTL DEF TransferOnlyFromDead
<1> QED BY <1>1, <1>2, ScanInvariant, PTL DEF Spec

=============================================================================
