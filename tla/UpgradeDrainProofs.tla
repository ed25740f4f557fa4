------------------------- MODULE UpgradeDrainProofs -------------------------
(***************************************************************************)
(* Proofs about UpgradeDrain for any finite sets of revisions and entries,  *)
(* any fleet, page size and leases ordered as DrainAssumption says.         *)
(*                                                                         *)
(* The invariant follows one revision through its upgrade: what its scan    *)
(* has not looked at yet (Covers), what a recorded verdict means (Verdict,  *)
(* Hooked), whose the marker is (Pair, Held, Broken) and how long it lasts  *)
(* at least (Trusted) and at most (Bounded).                                *)
(***************************************************************************)
EXTENDS UpgradeDrain, FiniteSetTheorems, TLAPS

Rolled == {"roll", "release", "release2", "done", "aborted"}
Attested == {"attest2", "attested", "hold", "held"}
Holding == {"hold", "held"}
Over == {"release", "release2", "done", "failed", "aborted"}

(* Helm runs one upgrade at a time.                                        *)
Serial == \A q, r \in Revs : q < r /\ helm[r] # "none" => helm[q] \in Over

(* A gate that has not started has left nothing, nor has its upgrade.       *)
Fresh(r) ==
    /\ helm[r] = "none" => gate[r] = "none"
    /\ gate[r] = "none" =>
          /\ helm[r] \in {"none", "drain", "failed"} /\ hook[r] = "none"
          /\ scan[r] = NoScan /\ stray[r] = 0 /\ r \notin record
          /\ pause[r] = "none" /\ tries[r] = 0
          /\ \A k \in Keys : mark[k].rev # r

(* Which lane of the scan an entry is in.                                  *)
LaneNo(e) == IF Lane[e] = "runs" THEN 1 ELSE 2

(* Entry e is still ahead of scan s: in a later lane, or beyond the cursor  *)
(* and, once a page is read, on it or after it when it is full.             *)
Ahead(s, e) ==
    \/ LaneNo(e) > s.lane
    \/ /\ LaneNo(e) = s.lane /\ e > s.cursor
       /\ s.read => \/ e \in s.page
                    \/ Cardinality(s.page) >= Page /\ \A d \in s.page : d < e

(* Nothing that was accepted escapes the scan.                             *)
Covers(r) ==
    /\ \A e \in accepted[r] : entry[e] = "leased"
    /\ scan[r].read => scan[r].lane \in {1, 2}
    /\ gate[r] = "wait" => \A e \in accepted[r] : scan[r].live \/ Ahead(scan[r], e)

(* The verdict of the drain, and what rests on it.                         *)
Verdict(r) ==
    /\ pause[r] # "none" => accepted[r] = {}
    /\ gate[r] \in {"handoff", "record", "ok"} => pause[r] # "none"
    /\ gate[r] \in {"record", "ok"} => pause[r] \in {"held", "broken"}
    /\ stray[r] <= Lease \/ pause[r] # "none"
    /\ r \in record => gate[r] \in {"ok", "clear", "bad"} /\ pause[r] # "none"

(* The hooks after the drain.                                              *)
Hooked(r) ==
    /\ hook[r] \in Attested \/ helm[r] \in PastAttest \/ tries[r] > 0 =>
          gate[r] \in {"ok", "clear", "bad"} /\ stray[r] = 0 /\ pause[r] # "none"
    /\ tries[r] > 0 => hook[r] \notin {"none", "attest", "attest2"}
    /\ Live(r) => helm[r] \in {"migrate", "failed"} /\ tries[r] > 0
    /\ hook[r] \in Holding \/ helm[r] \in Rolled \cup {"hold"} => mig[r] = "ok"
    /\ helm[r] = "migrate" => hook[r] = "attested"
    /\ helm[r] = "hold" => hook[r] \in Holding \cup {"bad"}
    /\ helm[r] \in Rolled => hook[r] = "held"
    /\ helm[r] \in {"none", "drain"} => hook[r] = "none"

(* The two keys of a bridging revision go together.                        *)
Pair(r) == bridge[r] /\ mark["scoped"].rev = r => mark["legacy"] = mark["scoped"]

Held(r) == pause[r] = "held" => \A k \in MarkerKeys(r) : mark[k].rev = r

(* No newer gate has started.                                              *)
Sole(r) == \A q \in Revs : q > r => gate[q] = "none"

(* A pause that was broken is not made again, under a sole upgrade or once  *)
(* its hold hook has started.                                              *)
Broken(r) ==
    gate[r] \in {"record", "ok"} /\ (Sole(r) \/ hook[r] \in Holding) /\ pause[r] = "broken" =>
        mark["scoped"].rev # r /\ stray[r] = 0

(* What a migration trusts: its confirmed deadline is before the lease's.   *)
Trusted(r) ==
    Live(r) /\ gate[r] = "ok" /\ Sole(r) =>
        /\ Valid(r) => pause[r] = "held" /\ mark["scoped"].ttl > authority[r].left
        /\ call[r].result = "renewed" =>
              pause[r] = "held" /\ mark["scoped"].ttl + call[r].age >= Handoff

Limit(r) == IF pause[r] = "none" THEN Lease
            ELSE IF hook[r] = "held" THEN Hold ELSE Handoff
Bounded(r) == \A k \in Keys : mark[k].rev = r => mark[k].ttl <= Limit(r)

RevInv(r) ==
    /\ Fresh(r) /\ Covers(r) /\ Verdict(r) /\ Hooked(r)
    /\ Pair(r) /\ Held(r) /\ Broken(r) /\ Trusted(r) /\ Bounded(r)

IInv == TypeOK /\ Serial /\ \A r \in Revs : RevInv(r)

-----------------------------------------------------------------------------
(* Pages.                                                                  *)

LEMMA SmallestExists ==
    ASSUME NEW T, T \subseteq Nat, T # {}
    PROVE  \E x \in T : \A y \in T : x <= y
<1> DEFINE Precedes == {p \in Nat \X Nat : p[1] < p[2]}
<1>1. IsWellFoundedOn(Precedes, Nat)
  BY NatLessThanWellFounded DEF OpToRel
<1>2. PICK x \in T : \A y \in T : ~(<<y, x>> \in Precedes)
  <2> HIDE DEF Precedes
  <2> QED BY <1>1, WFMin
<1>3. \A y \in T : ~(y < x)
  BY <1>2
<1> QED BY <1>3

(* By the smallest size of a set without a largest element.                *)
LEMMA LargestExists ==
    ASSUME NEW S, IsFiniteSet(S), S \subseteq Nat, S # {}
    PROVE  \E x \in S : \A y \in S : y <= x
<1> DEFINE Topless == {n \in Nat : \E T \in SUBSET S :
                          /\ Cardinality(T) = n /\ T # {}
                          /\ \A x \in T : \E y \in T : ~(y <= x)}
<1> SUFFICES ASSUME Topless # {} PROVE FALSE
  <2>1. Cardinality(S) \in Nat
    BY FS_CardinalityType
  <2> QED BY <2>1
<1>1. PICK n \in Topless : \A m \in Topless : n <= m
  <2>1. Topless \subseteq Nat
    OBVIOUS
  <2> HIDE DEF Topless
  <2> QED BY <2>1, SmallestExists
<1>2. PICK T \in SUBSET S :
         Cardinality(T) = n /\ T # {} /\ \A x \in T : \E y \in T : ~(y <= x)
  OBVIOUS
<1>3. PICK e \in T : TRUE
  BY <1>2
<1>4. /\ IsFiniteSet(T \ {e}) /\ Cardinality(T \ {e}) = n - 1
  BY <1>2, <1>3, FS_Subset, FS_RemoveElement
<1>5. T \ {e} # {}
  BY <1>2, <1>3
<1>6. n - 1 \in Nat /\ n - 1 \notin Topless
  <2>1. n \in Nat
    OBVIOUS
  <2>2. n - 1 \in Nat
    BY <1>4, FS_CardinalityType
  <2> HIDE DEF Topless
  <2> QED BY <1>1, <2>1, <2>2
<1>7. PICK x \in T \ {e} : \A y \in T \ {e} : y <= x
  BY <1>4, <1>5, <1>6
<1>8. x \in Nat /\ e \in Nat /\ \A y \in T : y \in Nat
  BY <1>2, <1>3, <1>7
<1>9. CASE e <= x
  BY <1>2, <1>7, <1>8, <1>9
<1>10. CASE x < e
  <2>1. \A y \in T : y <= e
    BY <1>7, <1>8, <1>10
  <2> QED BY <1>2, <1>3, <2>1
<1> QED BY <1>8, <1>9, <1>10

(* A page holds the first entries: what is left out comes after a full one. *)
LEMMA PageIsFirst ==
    ASSUME NEW S \in SUBSET Entries, NEW e \in S, e \notin FirstPage(S)
    PROVE  Cardinality(FirstPage(S)) >= Page /\ \A d \in FirstPage(S) : d < e
<1> DEFINE Below(x) == {d \in S : d < x}
<1>1. IsFiniteSet(S) /\ S \subseteq Nat /\ Page \in Nat
  BY DrainAssumption, FS_Subset
<1>2. \A x \in S : IsFiniteSet(Below(x)) /\ Cardinality(Below(x)) \in Nat
  BY <1>1, FS_Subset, FS_CardinalityType
<1>3. \A x \in S : x \in FirstPage(S) <=> Cardinality(Below(x)) < Page
  BY DEF FirstPage
<1>4. ASSUME NEW d \in FirstPage(S) PROVE d < e
  <2>1. d \in S /\ Cardinality(Below(d)) < Page /\ ~(Cardinality(Below(e)) < Page)
    BY <1>3 DEF FirstPage
  <2>2. CASE e <= d
    <3>1. ASSUME NEW x \in Below(e) PROVE x \in Below(d)
      <4>1. x \in S /\ x < e /\ x \in Nat /\ d \in Nat /\ e \in Nat
        BY <1>1, <2>1
      <4> QED BY <2>2, <4>1
    <3>2. Cardinality(Below(e)) <= Cardinality(Below(d))
      <4>1. Below(e) \subseteq Below(d)
        BY <3>1
      <4> HIDE DEF Below
      <4> QED BY <1>2, <2>1, <4>1, FS_Subset
    <3> QED BY <1>1, <1>2, <2>1, <3>2
  <2> QED BY <1>1, <2>1, <2>2
<1>5. Cardinality(FirstPage(S)) >= Page
  <2> DEFINE Rest == S \ FirstPage(S)
  <2>1. PICK x \in Rest : \A y \in Rest : x <= y
    <3>1. Rest \subseteq Nat /\ Rest # {}
      BY <1>1
    <3> HIDE DEF Rest
    <3> QED BY <3>1, SmallestExists
  <2>2. Below(x) \subseteq FirstPage(S)
    <3> SUFFICES ASSUME NEW y \in Below(x), y \in Rest PROVE FALSE
      OBVIOUS
    <3>1. x \in Nat /\ y \in Nat /\ y < x /\ x <= y
      BY <1>1, <2>1
    <3> QED BY <3>1
  <2>3. x \in S /\ ~(Cardinality(Below(x)) < Page)
    BY <1>3, <2>1
  <2>4. IsFiniteSet(FirstPage(S)) /\ Cardinality(FirstPage(S)) \in Nat
    BY <1>1, FS_Subset, FS_CardinalityType DEF FirstPage
  <2>5. Cardinality(Below(x)) <= Cardinality(FirstPage(S))
    <3> HIDE DEF Below
    <3> QED BY <2>2, <2>4, FS_Subset
  <2> QED BY <1>1, <1>2, <2>3, <2>4, <2>5
<1> QED BY <1>4, <1>5

(* The cursor moves to the last entry of a full page.                      *)
LEMMA LastOfPage ==
    ASSUME NEW P \in SUBSET Entries, ~(Cardinality(P) < Page)
    PROVE  LET c == CHOOSE e \in P : \A d \in P : d <= e
           IN  c \in P /\ \A d \in P : d <= c
<1>1. IsFiniteSet(P) /\ P \subseteq Nat
  BY DrainAssumption, FS_Subset
<1>2. P # {}
  BY DrainAssumption, FS_EmptySet
<1> QED BY <1>1, <1>2, LargestExists

-----------------------------------------------------------------------------
(* The marker keys.                                                        *)

Mark == [rev : Revs \cup {0, Bare}, ttl : 0 .. Hold]

LEMMA Constants ==
    /\ Revs \subseteq Nat /\ 0 \notin Revs /\ Bare \notin Revs
    /\ Lease \in 0 .. Hold /\ Handoff \in 0 .. Hold /\ Hold \in 0 .. Hold
    /\ Deadline \in 0 .. Handoff /\ Lease \in Nat /\ Handoff \in Nat /\ Hold \in Nat
    /\ Interval \in Nat /\ MaxReply \in Nat
    /\ Lease <= Handoff /\ Handoff <= Hold /\ MaxReply < Interval /\ Interval < Handoff
    /\ Deadline = Handoff - Interval
  BY DrainAssumption DEF Bare, Deadline

LEMMA MarkFields ==
    ASSUME TypeOK
    PROVE  /\ mark \in [Keys -> Mark]
           /\ \A k \in Keys : /\ mark[k].rev \in Revs \cup {0, Bare} /\ mark[k].rev \in Int
                              /\ mark[k].ttl \in 0 .. Hold /\ mark[k].ttl \in Nat
           /\ Absent \in Mark /\ Absent.rev = 0
<1>1. mark \in [Keys -> Mark]
  BY DEF TypeOK, Mark
<1>2. \A m \in Mark : m.rev \in Revs \cup {0, Bare} /\ m.ttl \in 0 .. Hold
  BY DEF Mark
<1>3. Absent \in Mark /\ Absent.rev = 0
  BY Constants DEF Absent, Mark
<1>4. \A x \in Revs \cup {0, Bare} : x \in Int
  BY Constants DEF Bare
<1>5. \A x \in 0 .. Hold : x \in Nat
  BY Constants
<1>6. ASSUME NEW k \in Keys
      PROVE  /\ mark[k].rev \in Revs \cup {0, Bare} /\ mark[k].rev \in Int
             /\ mark[k].ttl \in 0 .. Hold /\ mark[k].ttl \in Nat
  <2>1. mark[k] \in Mark
    BY <1>1
  <2>2. mark[k].rev \in Revs \cup {0, Bare} /\ mark[k].ttl \in 0 .. Hold
    BY <1>2, <2>1
  <2> QED BY <1>4, <1>5, <2>2
<1> QED BY <1>1, <1>3, <1>6

LEMMA WrittenKeys ==
    ASSUME TypeOK, NEW r \in Revs, NEW t \in 0 .. Hold
    PROVE  /\ Written(r, t) \in [Keys -> Mark]
           /\ \A k \in Keys : /\ k \in MarkerKeys(r) =>
                                   Written(r, t)[k].rev = r /\ Written(r, t)[k].ttl = t
                              /\ k \notin MarkerKeys(r) => Written(r, t)[k] = mark[k]
           /\ "scoped" \in MarkerKeys(r) /\ MarkerKeys(r) \subseteq Keys
           /\ bridge[r] => Written(r, t)["legacy"] = Written(r, t)["scoped"]
<1> DEFINE w == [rev |-> r, ttl |-> t]
<1>1. w \in Mark /\ w.rev = r /\ w.ttl = t
  BY DEF Mark
<1>2. mark \in [Keys -> Mark]
  BY MarkFields
<1>3. MarkerKeys(r) \subseteq Keys /\ "scoped" \in MarkerKeys(r)
  BY DEF MarkerKeys, Keys
<1>4. Written(r, t) = [k \in Keys |-> IF k \in MarkerKeys(r) THEN w ELSE mark[k]]
  BY DEF Written
<1>5. bridge[r] => MarkerKeys(r) = Keys
  BY DEF MarkerKeys
<1>6. "scoped" \in Keys /\ "legacy" \in Keys
  BY DEF Keys
<1> HIDE DEF w
<1>7. bridge[r] => Written(r, t)["legacy"] = Written(r, t)["scoped"]
  BY <1>4, <1>5, <1>6
<1> QED BY <1>1, <1>2, <1>3, <1>4, <1>7

LEMMA ClearedKeys ==
    ASSUME TypeOK, NEW r \in Revs
    PROVE  /\ Cleared(r) \in [Keys -> Mark]
           /\ \A k \in Keys : \/ Cleared(r)[k] = mark[k]
                              \/ Cleared(r)[k] = Absent /\ mark[k].rev = r
           /\ mark["scoped"].rev = r => Cleared(r)["scoped"] = Absent
  BY MarkFields DEF Cleared, Keys, MarkerKeys

LEMMA RenewedKeys ==
    ASSUME TypeOK, NEW r \in Revs, NEW t \in 0 .. Hold
    PROVE  /\ Renewed(r, t) \in [Keys -> Mark]
           /\ \A k \in Keys :
                 /\ Renewed(r, t)[k].rev = mark[k].rev
                 /\ Renewed(r, t)[k].ttl \in {mark[k].ttl, t}
                 /\ Renewed(r, t)[k].ttl >= mark[k].ttl
                 /\ k \notin MarkerKeys(r) => Renewed(r, t)[k] = mark[k]
           /\ mark["scoped"].rev = r => Renewed(r, t)["scoped"].ttl >= t
           /\ bridge[r] /\ mark["legacy"] = mark["scoped"] =>
                 Renewed(r, t)["legacy"] = Renewed(r, t)["scoped"]
<1>1. mark \in [Keys -> Mark] /\ t \in Nat
  BY MarkFields, Constants
<1>2. ASSUME NEW m \in Mark
      PROVE  [m EXCEPT !.ttl = t] \in Mark /\ [m EXCEPT !.ttl = t].rev = m.rev
             /\ [m EXCEPT !.ttl = t].ttl = t
  BY DEF Mark
<1>3. "scoped" \in MarkerKeys(r) /\ MarkerKeys(r) \subseteq Keys /\ "legacy" \in Keys
      /\ (bridge[r] => MarkerKeys(r) = Keys)
  BY DEF MarkerKeys, Keys
<1>4. \A k \in Keys : Renewed(r, t)[k] =
        IF k \in MarkerKeys(r) /\ mark[k].rev # 0 /\ mark[k].ttl < t
        THEN [mark[k] EXCEPT !.ttl = t] ELSE mark[k]
  BY DEF Renewed
<1>5. ASSUME NEW k \in Keys
      PROVE  mark[k] \in Mark /\ mark[k].ttl \in Nat /\ Renewed(r, t)[k] \in Mark
  <2>1. mark[k] \in Mark /\ mark[k].ttl \in Nat
    BY <1>1, MarkFields
  <2> QED BY <1>2, <1>4, <2>1
<1>6. Renewed(r, t) \in [Keys -> Mark]
  <2>1. Renewed(r, t) = [k \in Keys |-> Renewed(r, t)[k]]
    BY DEF Renewed
  <2> QED BY <1>5, <2>1
<1>7. ASSUME NEW k \in Keys
      PROVE  /\ Renewed(r, t)[k].rev = mark[k].rev
             /\ Renewed(r, t)[k].ttl \in {mark[k].ttl, t}
             /\ Renewed(r, t)[k].ttl >= mark[k].ttl
             /\ k \notin MarkerKeys(r) => Renewed(r, t)[k] = mark[k]
             /\ k \in MarkerKeys(r) /\ mark[k].rev # 0 => Renewed(r, t)[k].ttl >= t
  <2> DEFINE w == [mark[k] EXCEPT !.ttl = t]
  <2>1. w.rev = mark[k].rev /\ w.ttl = t /\ mark[k].ttl \in Nat
    BY <1>2, <1>5
  <2>2. Renewed(r, t)[k] = IF k \in MarkerKeys(r) /\ mark[k].rev # 0 /\ mark[k].ttl < t
                           THEN w ELSE mark[k]
    BY <1>4
  <2> HIDE DEF w
  <2> QED BY <1>1, <2>1, <2>2
<1>8. mark["scoped"].rev = r => Renewed(r, t)["scoped"].ttl >= t
  BY <1>3, <1>7, Constants
<1>9. bridge[r] /\ mark["legacy"] = mark["scoped"] =>
         Renewed(r, t)["legacy"] = Renewed(r, t)["scoped"]
  BY <1>3, <1>4
<1> QED BY <1>6, <1>7, <1>8, <1>9

LEMMA AgedKeys ==
    ASSUME TypeOK
    PROVE  /\ [k \in Keys |-> Aged(mark[k])] \in [Keys -> Mark]
           /\ \A k \in Keys :
                 /\ mark[k].ttl <= 1 => Aged(mark[k]) = Absent
                 /\ mark[k].ttl > 1 => /\ Aged(mark[k]).rev = mark[k].rev
                                       /\ Aged(mark[k]).ttl = mark[k].ttl - 1
<1>1. mark \in [Keys -> Mark] /\ Absent \in Mark
  BY MarkFields
<1>2. ASSUME NEW m \in Mark, m.ttl > 1
      PROVE  [m EXCEPT !.ttl = @ - 1] \in Mark /\ [m EXCEPT !.ttl = @ - 1].rev = m.rev
             /\ [m EXCEPT !.ttl = @ - 1].ttl = m.ttl - 1
  <2>1. m.ttl - 1 \in 0 .. Hold
    BY <1>2, Constants DEF Mark
  <2> QED BY <2>1 DEF Mark
<1>3. ASSUME NEW m \in Mark PROVE m.ttl \in Nat
  BY Constants DEF Mark
<1>4. ASSUME NEW m \in Mark
      PROVE  /\ Aged(m) \in Mark
             /\ m.ttl <= 1 => Aged(m) = Absent
             /\ m.ttl > 1 => Aged(m).rev = m.rev /\ Aged(m).ttl = m.ttl - 1
  BY <1>1, <1>2, <1>3 DEF Aged
<1> QED BY <1>1, <1>4

LEMMA UnbrokenPause ==
    ASSUME NEW p \in [Revs -> {"none", "drained", "held", "broken"}], NEW m
    PROVE  /\ Unbroken(p, m) \in [Revs -> {"none", "drained", "held", "broken"}]
           /\ \A q \in Revs :
                 /\ Unbroken(p, m)[q] = p[q] \/ (p[q] = "held" /\ Unbroken(p, m)[q] = "broken")
                 /\ Unbroken(p, m)[q] = "held" <=>
                       p[q] = "held" /\ \A k \in MarkerKeys(q) : m[k].rev = q
<1>1. ASSUME NEW q \in Revs, \A k \in MarkerKeys(q) : m[k].rev = q
      PROVE  Unbroken(p, m)[q] = p[q]
  BY <1>1 DEF Unbroken
<1>2. ASSUME NEW q \in Revs, ~(\A k \in MarkerKeys(q) : m[k].rev = q), p[q] = "held"
      PROVE  Unbroken(p, m)[q] = "broken"
  BY <1>2 DEF Unbroken
<1>3. ASSUME NEW q \in Revs, p[q] # "held"
      PROVE  Unbroken(p, m)[q] = p[q]
  BY <1>3 DEF Unbroken
<1>4. ASSUME NEW q \in Revs
      PROVE  /\ Unbroken(p, m)[q] = p[q] \/ (p[q] = "held" /\ Unbroken(p, m)[q] = "broken")
             /\ Unbroken(p, m)[q] = "held" <=>
                   p[q] = "held" /\ \A k \in MarkerKeys(q) : m[k].rev = q
  BY <1>1, <1>2, <1>3
<1>5. Unbroken(p, m) \in [Revs -> {"none", "drained", "held", "broken"}]
  BY DEF Unbroken
<1> QED BY <1>4, <1>5

-----------------------------------------------------------------------------
(* Types.                                                                  *)

PauseStates == {"none", "drained", "held", "broken"}
GateStates == {"none", "wait", "handoff", "record", "clear", "ok", "bad"}
MigStates == {"none", "confirm", "probe", "apply", "ok", "bad"}
Scan == [lane : 1 .. 3, cursor : Entries \cup {0}, page : SUBSET Entries,
         read : BOOLEAN, live : BOOLEAN]
Authority == [left : 0 .. Handoff, confirmed : BOOLEAN, lost : BOOLEAN]
Renewal == [result : {"none", "renewed", "refused"}, age : 0 .. MaxReply]

AllTyped ==
    /\ mark \in [Keys -> Mark] /\ record \subseteq Revs
    /\ helm \in [Revs -> Stages] /\ hook \in [Revs -> HookStates]
    /\ bridge \in [Revs -> BOOLEAN]
    /\ gate \in [Revs -> GateStates] /\ identified \in BOOLEAN
    /\ scan \in [Revs -> Scan] /\ stray \in [Revs -> {0, Lease, Handoff}]
    /\ mig \in [Revs -> MigStates] /\ authority \in [Revs -> Authority]
    /\ call \in [Revs -> Renewal] /\ tries \in [Revs -> 0 .. MaxTry]
    /\ loop \in [Loops -> {"check", "claim"}] /\ old \subseteq Loops
    /\ entry \in [Entries -> {"unread", "taken", "leased", "orphan", "settled"}]
    /\ accepted \in [Revs -> SUBSET Entries] /\ pause \in [Revs -> PauseStates]
    /\ faults \in 0 .. MaxFault

LEMMA Typed == (TypeOK <=> AllTyped) /\ (TypeOK' <=> AllTyped')
  BY DEF TypeOK, AllTyped, Mark, GateStates, Scan, MigStates, Authority, Renewal, PauseStates

LEMMA Literals ==
    /\ NoScan \in Scan /\ NoCall \in Renewal /\ NoAuthority \in Authority
    /\ [result |-> "renewed", age |-> 0] \in Renewal
    /\ [result |-> "refused", age |-> 0] \in Renewal
    /\ \A b \in BOOLEAN : [left |-> Deadline, confirmed |-> b, lost |-> FALSE] \in Authority
    /\ \A a \in Authority : [a EXCEPT !.lost = TRUE] \in Authority
    /\ 0 \in 0 .. MaxTry /\ 0 \in 0 .. MaxFault
<1>1. NoScan \in Scan
  BY DEF NoScan, Scan
<1>2. 0 \in 0 .. MaxReply /\ 0 \in 0 .. Handoff /\ Deadline \in 0 .. Handoff
      /\ 0 \in 0 .. MaxTry /\ 0 \in 0 .. MaxFault
  BY Constants, DrainAssumption
<1>3. /\ NoCall \in Renewal /\ [result |-> "renewed", age |-> 0] \in Renewal
      /\ [result |-> "refused", age |-> 0] \in Renewal
  BY <1>2 DEF NoCall, Renewal
<1>4. /\ NoAuthority \in Authority
      /\ \A b \in BOOLEAN : [left |-> Deadline, confirmed |-> b, lost |-> FALSE] \in Authority
      /\ \A a \in Authority : [a EXCEPT !.lost = TRUE] \in Authority
  BY <1>2 DEF NoAuthority, Authority
<1> QED BY <1>1, <1>2, <1>3, <1>4

LEMMA FaultTypes ==
    ASSUME TypeOK, Fault
    PROVE  faults' \in 0 .. MaxFault
  BY DrainAssumption DEF TypeOK, Fault

LEMMA SetMarkTypes ==
    ASSUME TypeOK, NEW m \in [Keys -> Mark], SetMark(m)
    PROVE  mark' \in [Keys -> Mark] /\ pause' \in [Revs -> PauseStates]
<1>1. pause \in [Revs -> PauseStates]
  BY Typed DEF AllTyped
<1> QED BY <1>1, UnbrokenPause DEF SetMark, PauseStates

LEMMA HooksTypes ==
    ASSUME TypeOK, NEW r \in Revs, Hooks(r)
    PROVE  TypeOK'
<1> USE Typed DEF AllTyped, mVars, hVars, gVars, sVars, fVars, xVars
<1>1. ASSUME NEW st \in Stages, helm' = [helm EXCEPT ![r] = st]
      PROVE  helm' \in [Revs -> Stages]
  BY <1>1
<1>0. ASSUME NEW st \in HookStates, hook' = [hook EXCEPT ![r] = st]
      PROVE  hook' \in [Revs -> HookStates]
  BY <1>0
<1>2. CASE HelmStart(r)
  BY <1>1, <1>2 DEF HelmStart, Stages
<1>3. CASE HelmGivesUp(r)
  BY <1>1, <1>3 DEF HelmGivesUp, Stages
<1>4. CASE DrainJobDeleted(r)
  BY <1>0, <1>1, <1>4, FaultTypes DEF DrainJobDeleted, StartHook, Stages, HookStates
<1>5. CASE DrainJobDone(r)
  BY <1>0, <1>1, <1>5 DEF DrainJobDone, StartHook, Refuse, Stages, HookStates
<1>6. CASE AttestRead(r)
  BY <1>0, <1>6 DEF AttestRead, HookStates
<1>7. ASSUME NEW to \in HookStates, NEW t \in {Handoff, Hold}, HookRenew(r, to, t)
      PROVE  TypeOK'
  <2>1. hook' \in [Revs -> HookStates]
    BY <1>0, <1>7 DEF HookRenew, HookStates
  <2>2. mark' \in [Keys -> Mark] /\ pause' \in [Revs -> PauseStates]
    BY <1>7, RenewedKeys, SetMarkTypes, Constants DEF HookRenew
  <2> QED BY <1>7, <2>1, <2>2 DEF HookRenew
<1>8. CASE MigStart(r)
  <2>1. tries' \in [Revs -> 0 .. MaxTry]
    BY <1>8, DrainAssumption DEF MigStart
  <2>2. mig' \in [Revs -> MigStates]
    BY <1>8 DEF MigStart, MigStates
  <2>3. authority' \in [Revs -> Authority] /\ call' \in [Revs -> Renewal]
    BY <1>8, Literals DEF MigStart
  <2> QED BY <1>8, <2>1, <2>2, <2>3 DEF MigStart
<1>9. CASE MigJobDone(r)
  BY <1>0, <1>1, <1>9 DEF MigJobDone, StartHook, Refuse, Stages, HookStates
<1>10. CASE AttestRenew(r) \/ HoldRenew(r)
  BY <1>7, <1>10 DEF AttestRenew, HoldRenew, HookStates
<1>15. CASE HookFails(r)
  BY <1>0, <1>15, FaultTypes DEF HookFails, HookStates
<1>16. CASE HookJobDone(r)
  <2>1. helm' \in [Revs -> Stages] /\ UNCHANGED hook
    BY <1>1, <1>16 DEF HookJobDone, GoOn, Refuse, Stages
  <2>2. identified' \in BOOLEAN /\ faults' \in 0 .. MaxFault
    BY <1>16, FaultTypes DEF HookJobDone
  <2> QED BY <1>16, <2>1, <2>2 DEF HookJobDone
<1>11. CASE RollDone(r)
  BY <1>1, <1>11 DEF RollDone, GoOn, Stages
<1>12. CASE ReleaseClear(r)
  <2>1. helm' \in [Revs -> Stages] /\ UNCHANGED hook
    BY <1>1, <1>12 DEF ReleaseClear, GoOn, Stages
  <2>2. mark' \in [Keys -> Mark] /\ pause' \in [Revs -> PauseStates]
    BY <1>12, ClearedKeys, SetMarkTypes DEF ReleaseClear
  <2> QED BY <1>12, <2>1, <2>2 DEF ReleaseClear
<1>13. CASE ReleaseRecord(r)
  BY <1>1, <1>13 DEF ReleaseRecord, GoOn, Stages
<1>14. ASSUME NEW l \in Loops, RollLoop(r, l) PROVE TypeOK'
  BY <1>14 DEF RollLoop
<1> QED BY <1>2, <1>3, <1>4, <1>5, <1>6, <1>8, <1>9, <1>10, <1>11, <1>12, <1>13, <1>14, <1>15,
           <1>16 DEF Hooks

LEMMA GateTypes ==
    ASSUME TypeOK, NEW r \in Revs,
           Gate(r) \/ GateHeartbeat(r) \/ GateInterrupted(r) \/ GateKilled(r) \/ StrayWrite(r),
           scan[r].read => scan[r].lane \in {1, 2}
    PROVE  TypeOK'
<1> USE Typed DEF AllTyped, mVars, hVars, gVars, sVars, fVars, xVars
<1>1. ASSUME NEW g \in GateStates, gate' = [gate EXCEPT ![r] = g]
      PROVE  gate' \in [Revs -> GateStates]
  BY <1>1
<1>2. ASSUME scan' = [scan EXCEPT ![r] = NoScan]
      PROVE  scan' \in [Revs -> Scan]
  BY <1>2, Literals
<1>3. ASSUME NEW t \in {0, Lease, Handoff}, stray' = [stray EXCEPT ![r] = t]
      PROVE  stray' \in [Revs -> {0, Lease, Handoff}]
  BY <1>3
<1>4. ASSUME NEW t \in {Lease, Handoff}, MayStray(r, t)
      PROVE  stray' \in [Revs -> {0, Lease, Handoff}] /\ faults' \in 0 .. MaxFault
  BY <1>3, <1>4, FaultTypes DEF MayStray
<1>5. ASSUME NEW t \in {0, Lease, Handoff}, SetMark(Written(r, t))
      PROVE  mark' \in [Keys -> Mark] /\ pause' \in [Revs -> PauseStates]
  BY <1>5, WrittenKeys, SetMarkTypes, Constants
<1>6. CASE GateStart(r)
  <2>1. accepted' \in [Revs -> SUBSET Entries]
    BY <1>6 DEF GateStart
  <2>2. mark' \in [Keys -> Mark] /\ pause' \in [Revs -> PauseStates]
    BY <1>5, <1>6 DEF GateStart
  <2>3. gate' \in [Revs -> GateStates]
    BY <1>1, <1>6 DEF GateStart, GateStates
  <2> QED BY <1>6, <2>1, <2>2, <2>3 DEF GateStart
<1>7. CASE ScanPage(r)
  <2> DEFINE P == FirstPage(Pending(scan[r]))
  <2>1. P \in SUBSET Entries
    BY DEF FirstPage, Pending
  <2> HIDE DEF P
  <2>2. [scan[r] EXCEPT !.page = P, !.read = TRUE] \in Scan
    <3>1. ASSUME NEW s \in Scan PROVE [s EXCEPT !.page = P, !.read = TRUE] \in Scan
      BY <2>1, <3>1 DEF Scan
    <3> QED BY <3>1
  <2>3. scan' = [scan EXCEPT ![r] = [scan[r] EXCEPT !.page = P, !.read = TRUE]]
    BY <1>7 DEF ScanPage, P
  <2>4. scan' \in [Revs -> Scan]
    BY <2>2, <2>3
  <2> QED BY <1>7, <2>4 DEF ScanPage
<1>8. CASE ScanLeases(r)
  <2>1. scan[r] \in Scan /\ scan[r].page \in SUBSET Entries /\ scan[r].lane \in 1 .. 3
        /\ scan[r].live \in BOOLEAN
    BY DEF Scan
  <2>2. scan'[r] \in Scan /\ scan' = [scan EXCEPT ![r] = scan'[r]]
    <3> DEFINE s == scan[r]
               short == Cardinality(s.page) < Page
               c == CHOOSE e \in s.page : \A d \in s.page : d <= e
               live == s.live \/ \E e \in s.page : entry[e] = "leased"
    <3>1. (IF short THEN 0 ELSE c) \in Entries \cup {0}
      BY <2>1, LastOfPage
    <3>2. (IF short THEN s.lane + 1 ELSE s.lane) \in 1 .. 3
      BY <1>8, <2>1 DEF ScanLeases
    <3>3. live \in BOOLEAN
      OBVIOUS
    <3>4. ASSUME NEW x \in 1 .. 3, NEW y \in Entries \cup {0}, NEW z \in BOOLEAN
          PROVE  [NoScan EXCEPT !.lane = x, !.cursor = y, !.live = z] \in Scan
      BY DEF NoScan, Scan
    <3>5. scan' = [scan EXCEPT ![r] = [NoScan EXCEPT
                     !.lane = IF short THEN s.lane + 1 ELSE s.lane,
                     !.cursor = IF short THEN 0 ELSE c, !.live = live]]
      BY <1>8 DEF ScanLeases
    <3> HIDE DEF short, c, live, s
    <3>6. [NoScan EXCEPT !.lane = IF short THEN s.lane + 1 ELSE s.lane,
                         !.cursor = IF short THEN 0 ELSE c, !.live = live] \in Scan
      BY <3>1, <3>2, <3>3, <3>4
    <3> QED BY <3>5, <3>6
  <2>3. scan' \in [Revs -> Scan]
    BY <2>2
  <2> QED BY <1>8, <2>3 DEF ScanLeases
<1>9. CASE ScanVerdict(r)
  <2>1. scan' \in [Revs -> Scan]
    BY <1>2, <1>9 DEF ScanVerdict
  <2>2. stray' \in [Revs -> {0, Lease, Handoff}] /\ faults' \in 0 .. MaxFault
    BY <1>4, <1>9 DEF ScanVerdict
  <2>3. gate' \in [Revs -> GateStates]
    BY <1>1, <1>9 DEF ScanVerdict, GateStates
  <2>4. pause' \in [Revs -> PauseStates]
    BY <1>9 DEF ScanVerdict, PauseStates
  <2> QED BY <1>9, <2>1, <2>2, <2>3, <2>4 DEF ScanVerdict
<1>10. CASE GateHandoff(r)
  <2>1. mark' \in [Keys -> Mark]
    BY <1>10, WrittenKeys, Constants DEF GateHandoff
  <2>2. pause' \in [Revs -> PauseStates]
    <3>1. [pause EXCEPT ![r] = "held"] \in [Revs -> PauseStates]
      BY DEF PauseStates
    <3>2. \/ pause' = pause
          \/ pause' = Unbroken([pause EXCEPT ![r] = "held"], Written(r, Handoff))
      BY <1>10 DEF GateHandoff
    <3>3. Unbroken([pause EXCEPT ![r] = "held"], Written(r, Handoff)) \in [Revs -> PauseStates]
      BY <3>1, UnbrokenPause DEF PauseStates
    <3> QED BY <3>2, <3>3
  <2>3. gate' \in [Revs -> GateStates]
    BY <1>1, <1>10 DEF GateHandoff, GateStates
  <2> QED BY <1>10, <2>1, <2>2, <2>3 DEF GateHandoff
<1>11. CASE GateRecord(r)
  BY <1>1, <1>11, FaultTypes DEF GateRecord, GateStates
<1>12. CASE GateClear(r)
  <2>1. mark' \in [Keys -> Mark] /\ pause' \in [Revs -> PauseStates]
    BY <1>12, ClearedKeys, SetMarkTypes DEF GateClear
  <2> QED BY <1>1, <1>12, <2>1 DEF GateClear, GateStates
<1>13. CASE GateHeartbeat(r)
  <2>1. mark' \in [Keys -> Mark] /\ pause' \in [Revs -> PauseStates]
    BY <1>5, <1>13 DEF GateHeartbeat
  <2>2. gate' \in [Revs -> GateStates]
    BY <1>1, <1>13 DEF GateHeartbeat, GateStates
  <2> QED BY <1>13, <2>1, <2>2 DEF GateHeartbeat
<1>14. CASE GateInterrupted(r)
  <2>1. stray' \in [Revs -> {0, Lease, Handoff}]
    BY <1>3, <1>14 DEF GateInterrupted
  <2>2. gate' \in [Revs -> GateStates]
    BY <1>1, <1>14 DEF GateInterrupted, GateStates
  <2> QED BY <1>2, <1>14, <2>1, <2>2, FaultTypes DEF GateInterrupted
<1>15. CASE GateKilled(r)
  BY <1>1, <1>2, <1>15, FaultTypes DEF GateKilled, GateStates
<1>16. CASE StrayWrite(r)
  <2>1. mark' \in [Keys -> Mark] /\ pause' \in [Revs -> PauseStates]
    BY <1>5, <1>16 DEF StrayWrite
  <2>2. stray' \in [Revs -> {0, Lease, Handoff}]
    BY <1>3, <1>16 DEF StrayWrite
  <2> QED BY <1>16, <2>1, <2>2 DEF StrayWrite
<1> QED BY <1>6, <1>7, <1>8, <1>9, <1>10, <1>11, <1>12, <1>13, <1>14, <1>15, <1>16 DEF Gate

LEMMA MigrationTypes ==
    ASSUME TypeOK, NEW r \in Revs, Migration(r) \/ MigReplyLost(r) \/ MigKilled(r)
    PROVE  TypeOK'
<1> USE Typed DEF AllTyped, mVars, hVars, gVars, sVars, fVars, xVars
<1>1. ASSUME NEW st \in MigStates, MigTo(r, st), faults' \in 0 .. MaxFault PROVE TypeOK'
  BY <1>1, Literals DEF MigTo
<1>2. \A st \in MigStates : IfValid(r, st) \in MigStates
  BY DEF IfValid, MigStates
<1>3. {"probe", "apply", "ok", "bad"} \subseteq MigStates
  BY DEF MigStates
<1>4. CASE MigRenew(r)
  <2>1. call' \in [Revs -> Renewal]
    BY <1>4, Literals DEF MigRenew
  <2>2. mark' \in [Keys -> Mark] /\ pause' \in [Revs -> PauseStates]
    BY <1>4, RenewedKeys, SetMarkTypes, Constants DEF MigRenew
  <2> QED BY <1>4, <2>1, <2>2 DEF MigRenew
<1>5. CASE MigReply(r)
  <2>1. call' \in [Revs -> Renewal]
    BY <1>5, Literals DEF MigReply
  <2>2. authority' \in [Revs -> Authority]
    BY <1>5, Literals DEF MigReply
  <2> QED BY <1>5, <2>1, <2>2 DEF MigReply
<1>6. CASE MigReplyLost(r)
  <2>1. call' \in [Revs -> Renewal]
    BY <1>6, Literals DEF MigReplyLost
  <2> QED BY <1>6, <2>1, FaultTypes DEF MigReplyLost
<1>7. CASE MigConfirmed(r) \/ MigApply(r) \/ MigNoApply(r) \/ MigDone(r)
  BY <1>1, <1>2, <1>3, <1>7 DEF MigConfirmed, MigApply, MigNoApply, MigDone
<1>8. CASE MigKilled(r)
  BY <1>1, <1>3, <1>8, FaultTypes DEF MigKilled
<1> QED BY <1>4, <1>5, <1>6, <1>7, <1>8 DEF Migration

LEMMA FleetTypes ==
    ASSUME TypeOK,
           \/ \E l \in Loops : ClaimCheck(l) \/ Claim(l)
           \/ \E e \in Entries : AcquireLease(e) \/ Settle(e) \/ OwnerLost(e)
    PROVE  TypeOK'
<1> USE Typed DEF AllTyped, mVars, hVars, gVars, sVars, fVars, xVars
<1>1. ASSUME NEW l \in Loops, ClaimCheck(l) PROVE TypeOK'
  BY <1>1, FaultTypes DEF ClaimCheck
<1>2. ASSUME NEW l \in Loops, Claim(l) PROVE TypeOK'
  <2>1. entry' \in [Entries -> {"unread", "taken", "leased", "orphan", "settled"}]
    BY <1>2 DEF Claim, Waiting
  <2> QED BY <1>2, <2>1 DEF Claim
<1>3. ASSUME NEW e \in Entries, AcquireLease(e) PROVE TypeOK'
  BY <1>3 DEF AcquireLease
<1>4. ASSUME NEW e \in Entries, NEW st \in {"settled", "orphan"}, Unhold(e, st),
             faults' \in 0 .. MaxFault
      PROVE  TypeOK'
  BY <1>4 DEF Unhold
<1> QED BY <1>1, <1>2, <1>3, <1>4, FaultTypes DEF Settle, OwnerLost

LEMMA TickTypes ==
    ASSUME TypeOK, Tick
    PROVE  TypeOK'
<1> USE Typed DEF AllTyped, mVars, hVars, gVars, sVars, fVars, xVars
<1>1. mark' \in [Keys -> Mark] /\ pause' \in [Revs -> PauseStates]
  BY AgedKeys, SetMarkTypes DEF Tick
<1>2. authority' \in [Revs -> Authority]
  <2>1. ASSUME NEW a \in Authority
        PROVE  [a EXCEPT !.left = Less(@), !.lost = @ \/ a.left <= 1] \in Authority
    <3>1. a.left \in 0 .. Handoff /\ Less(a.left) \in 0 .. Handoff
      BY <2>1, Constants DEF Authority, Less
    <3> QED BY <2>1, <3>1 DEF Authority
  <2>2. authority' = [r \in Revs |->
            [authority[r] EXCEPT !.left = Less(@), !.lost = @ \/ authority[r].left <= 1]]
    BY DEF Tick
  <2> QED BY <2>1, <2>2
<1>3. call' \in [Revs -> Renewal]
  <2>1. ASSUME NEW r \in Revs, call[r] # NoCall
        PROVE  [call[r] EXCEPT !.age = @ + 1] \in Renewal
    <3>1. call[r] \in Renewal /\ call[r].age < MaxReply
      BY <2>1 DEF Tick
    <3>2. call[r].age + 1 \in 0 .. MaxReply
      BY <3>1, Constants DEF Renewal
    <3> QED BY <3>1, <3>2 DEF Renewal
  <2> QED BY <2>1, Literals DEF Tick
<1> QED BY <1>1, <1>2, <1>3 DEF Tick

-----------------------------------------------------------------------------
(* A step of one revision, as the others see it.                           *)

(* What a process of revision q may do to the keys.                        *)
Touches(q) ==
    \/ mark' = mark
    \/ /\ gate'[q] # "none"
       /\ \/ WriteTaken(q) /\ \E t \in 0 .. Hold : mark' = Written(q, t)
          \/ mark' = Cleared(q)
          \/ mark["scoped"].rev = q /\ \E t \in 0 .. Hold : mark' = Renewed(q, t)

(* The history of the pause follows the keys.                              *)
Follows(r) ==
    /\ pause'[r] = pause[r] \/ (pause[r] = "held" /\ pause'[r] = "broken")
    /\ pause'[r] = "held" <=>
          pause[r] = "held" /\ \A k \in MarkerKeys(r) : mark'[k].rev = r

Apart(q, r) ==
    /\ helm'[r] = helm[r] /\ hook'[r] = hook[r] /\ bridge'[r] = bridge[r]
    /\ gate'[r] = gate[r]
    /\ scan'[r] = scan[r] /\ stray'[r] = stray[r] /\ mig'[r] = mig[r]
    /\ authority'[r] = authority[r] /\ call'[r] = call[r] /\ tries'[r] = tries[r]
    /\ accepted'[r] = accepted[r] /\ (r \in record' <=> r \in record)
    /\ Follows(r)

StepOf(q) ==
    /\ Touches(q) /\ entry' = entry
    /\ gate'[q] = "none" => gate[q] = "none"
    /\ \A r \in Revs \ {q} : Apart(q, r)

(* No process takes a key of a newer revision, or a key of an older one     *)
(* without writing its own.                                                *)
LEMMA KeysOfOthers ==
    ASSUME IInv, NEW q \in Revs, NEW r \in Revs \ {q}, Touches(q), bridge'[r] = bridge[r]
    PROVE  /\ \A k \in Keys : mark'[k].rev = r => mark'[k] = mark[k]
           /\ q < r /\ (\A k \in MarkerKeys(r) : mark[k].rev = r) =>
                 \A k \in MarkerKeys(r) : mark'[k] = mark[k]
           /\ Pair(r)'
<1>1. TypeOK /\ Pair(q) /\ Pair(r)
  BY DEF IInv, RevInv
<1>2. /\ "scoped" \in MarkerKeys(r) /\ MarkerKeys(r) \subseteq Keys
      /\ "scoped" \in MarkerKeys(q) /\ "scoped" \in Keys /\ "legacy" \in Keys
      /\ (bridge[r] <=> MarkerKeys(r) = Keys) /\ (bridge[r] => MarkerKeys(r) = Keys)
      /\ (~bridge[q] => MarkerKeys(q) = {"scoped"})
  BY DEF MarkerKeys, Keys
<1>3. r # 0 /\ r \in Int /\ q \in Int /\ q # r
  BY Constants
<1>4. CASE mark' = mark
  BY <1>1, <1>4 DEF Pair
<1>5. CASE WriteTaken(q) /\ \E t \in 0 .. Hold : mark' = Written(q, t)
  <2>1. PICK t \in 0 .. Hold : mark' = Written(q, t)
    BY <1>5
  <2>2. \A k \in Keys : (k \in MarkerKeys(q) => mark'[k].rev = q)
                        /\ (k \notin MarkerKeys(q) => mark'[k] = mark[k])
    BY <1>1, <2>1, WrittenKeys
  <2>3. mark["scoped"].rev <= q
    BY <1>2, <1>5 DEF WriteTaken
  <2>4. mark'["scoped"].rev = q
    BY <1>2, <2>2
  <2> QED BY <1>2, <1>3, <2>2, <2>3, <2>4 DEF Pair
<1>6. CASE mark' = Cleared(q)
  <2>1. \A k \in Keys : mark'[k] = mark[k] \/ (mark'[k] = Absent /\ mark[k].rev = q)
    BY <1>1, <1>6, ClearedKeys
  <2>2. Absent.rev = 0
    BY DEF Absent
  <2>3. \A k \in Keys : mark'[k].rev = r => mark'[k] = mark[k]
    BY <1>3, <2>1, <2>2
  <2>4. \A k \in Keys : mark[k].rev = r => mark'[k] = mark[k]
    BY <1>3, <2>1
  <2>5. Pair(r)'
    BY <1>1, <1>2, <2>3, <2>4 DEF Pair
  <2> QED BY <1>2, <2>3, <2>4, <2>5
<1>7. CASE mark["scoped"].rev = q /\ \E t \in 0 .. Hold : mark' = Renewed(q, t)
  <2>1. PICK t \in 0 .. Hold : mark' = Renewed(q, t)
    BY <1>7
  <2>2. \A k \in Keys : mark'[k].rev = mark[k].rev
                        /\ (k \notin MarkerKeys(q) => mark'[k] = mark[k])
    BY <1>1, <2>1, RenewedKeys
  <2>3. \A k \in MarkerKeys(q) : mark[k].rev = q
    <3>1. CASE bridge[q]
      <4>1. mark["legacy"] = mark["scoped"] /\ MarkerKeys(q) = {"scoped", "legacy"}
        BY <1>1, <1>7, <3>1 DEF Pair, MarkerKeys, Keys
      <4> QED BY <1>7, <4>1
    <3>2. CASE ~bridge[q]
      BY <1>2, <1>7, <3>2
    <3> QED BY <3>1, <3>2
  <2> QED BY <1>2, <1>3, <1>7, <2>2, <2>3 DEF Pair
<1> QED BY <1>4, <1>5, <1>6, <1>7 DEF Touches

LEMMA OthersKept ==
    ASSUME IInv, TypeOK', NEW q \in Revs, StepOf(q), NEW r \in Revs \ {q}
    PROVE  RevInv(r)'
<1>1. /\ TypeOK /\ Fresh(r) /\ Covers(r) /\ Verdict(r) /\ Hooked(r)
      /\ Pair(r) /\ Held(r) /\ Broken(r) /\ Trusted(r) /\ Bounded(r)
  BY DEF IInv, RevInv
<1>2. /\ helm'[r] = helm[r] /\ hook'[r] = hook[r] /\ bridge'[r] = bridge[r]
      /\ gate'[r] = gate[r]
      /\ scan'[r] = scan[r] /\ stray'[r] = stray[r] /\ mig'[r] = mig[r]
      /\ authority'[r] = authority[r] /\ call'[r] = call[r] /\ tries'[r] = tries[r]
      /\ accepted'[r] = accepted[r] /\ (r \in record' <=> r \in record) /\ entry' = entry
  BY DEF StepOf, Apart
<1>3. /\ pause'[r] = pause[r] \/ (pause[r] = "held" /\ pause'[r] = "broken")
      /\ pause'[r] = "held" <=>
            pause[r] = "held" /\ \A k \in MarkerKeys(r) : mark'[k].rev = r
  BY DEF StepOf, Apart, Follows
<1>4. /\ \A k \in Keys : mark'[k].rev = r => mark'[k] = mark[k]
      /\ q < r /\ (\A k \in MarkerKeys(r) : mark[k].rev = r) =>
            \A k \in MarkerKeys(r) : mark'[k] = mark[k]
      /\ Pair(r)'
  BY <1>2, KeysOfOthers DEF StepOf
<1>5. MarkerKeys(r)' = MarkerKeys(r) /\ "scoped" \in MarkerKeys(r) /\ "scoped" \in Keys
  BY <1>2 DEF MarkerKeys, Keys
<1>6. Sole(r)' => Sole(r) /\ (q < r \/ mark' = mark)
  <2>1. \A x \in Revs : gate'[x] = "none" => gate[x] = "none"
    BY DEF StepOf, Apart
  <2>2. q \in Int /\ r \in Int /\ q # r
    BY Constants
  <2>3. Sole(r)' => Sole(r)
    BY <2>1 DEF Sole
  <2>4. Sole(r)' => q < r \/ gate'[q] = "none"
    BY <2>2 DEF Sole
  <2> QED BY <2>3, <2>4 DEF StepOf, Touches
<1>7. pause[r] = "held" /\ Sole(r)' =>
        pause'[r] = "held" /\ mark'["scoped"] = mark["scoped"]
  BY <1>1, <1>3, <1>4, <1>5, <1>6 DEF Held
<1>8. Fresh(r)'
  BY <1>1, <1>2, <1>3, <1>4 DEF Fresh
<1>9. Covers(r)'
  BY <1>1, <1>2 DEF Covers
<1>10. Verdict(r)'
  BY <1>1, <1>2, <1>3 DEF Verdict
<1>11. Hooked(r)'
  BY <1>1, <1>2, <1>3 DEF Hooked, Live
<1>12. Held(r)'
  BY <1>3, <1>5 DEF Held
<1>13. Broken(r)'
  <2>1. pause[r] = "held" /\ pause'[r] = "broken" => mark'["scoped"].rev # r
    BY <1>2, <1>3, <1>4, <1>5 DEF Pair, MarkerKeys, Keys
  <2>2. hook[r] \in Holding => stray[r] = 0
    BY <1>1 DEF Hooked, Holding, Attested
  <2> QED BY <1>1, <1>2, <1>3, <1>4, <1>5, <1>6, <1>7, <2>1, <2>2 DEF Broken
<1>14. Trusted(r)'
  BY <1>1, <1>2, <1>6, <1>7 DEF Trusted, Live, Valid
<1>15. Bounded(r)'
  <2>1. Limit(r)' = Limit(r)
    BY <1>2, <1>3 DEF Limit
  <2> QED BY <1>1, <1>4, <2>1 DEF Bounded
<1> QED BY <1>4, <1>8, <1>9, <1>10, <1>11, <1>12, <1>13, <1>14, <1>15 DEF RevInv

-----------------------------------------------------------------------------
(* A step of one revision, as itself sees it.                              *)

(* Helm's order is kept.                                                   *)
Ordered(r) ==
    \/ helm'[r] = helm[r]
    \/ helm[r] # "none" /\ (helm[r] \in Over => helm'[r] \in Over)
    \/ helm[r] = "none" /\ \A q \in Revs : q < r => helm[q] \in Over

LEMMA StepCloses ==
    ASSUME IInv, TypeOK', NEW r \in Revs, StepOf(r), Ordered(r), RevInv(r)'
    PROVE  IInv'
<1>1. Serial /\ "none" \notin Over
  BY DEF IInv, Over
<1>2. \A q \in Revs \ {r} : helm'[q] = helm[q]
  BY DEF StepOf, Apart
<1>3. ASSUME NEW q \in Revs, NEW s \in Revs, q < s, helm'[s] # "none"
      PROVE  helm'[q] \in Over
  <2>0. q # s
    BY <1>3, Constants
  <2>1. CASE s = r
    BY <1>1, <1>2, <1>3, <2>0, <2>1 DEF Serial, Ordered
  <2>2. CASE q = r
    BY <1>1, <1>2, <1>3, <2>0, <2>2 DEF Serial, Ordered
  <2>3. CASE q # r /\ s # r
    BY <1>1, <1>2, <1>3, <2>3 DEF Serial
  <2> QED BY <2>1, <2>2, <2>3
<1>4. Serial'
  BY <1>3 DEF Serial
<1>5. \A q \in Revs : RevInv(q)'
  BY OthersKept
<1> QED BY <1>4, <1>5 DEF IInv

LEMMA FollowsMark ==
    ASSUME TypeOK, NEW m, SetMark(m)
    PROVE  \A r \in Revs : Follows(r)
<1>1. pause \in [Revs -> {"none", "drained", "held", "broken"}] /\ mark' = m
      /\ pause' = Unbroken(pause, m)
  BY DEF TypeOK, SetMark
<1> QED BY <1>1, UnbrokenPause DEF Follows

LEMMA FollowsStill ==
    ASSUME IInv, UNCHANGED <<mark, pause>>
    PROVE  \A r \in Revs : Follows(r)
  BY DEF IInv, RevInv, Held, Follows

(* The own keys of a revision after each script.                           *)
LEMMA OwnKeys ==
    ASSUME IInv, NEW r \in Revs, bridge'[r] = bridge[r], NEW t \in 0 .. Hold
    PROVE  /\ mark' = Written(r, t) =>
                 /\ Pair(r)' /\ \A k \in MarkerKeys(r) : mark'[k].rev = r
                 /\ mark'["scoped"].ttl = t
                 /\ \A k \in Keys : mark'[k].rev = r =>
                       mark'[k].ttl = t \/ (mark'[k] = mark[k] /\ mark[k].rev = r)
           /\ mark' = Cleared(r) =>
                 /\ Pair(r)' /\ mark'["scoped"].rev # r
                 /\ \A k \in Keys : mark'[k].rev = r => mark'[k] = mark[k]
           /\ mark' = Renewed(r, t) =>
                 /\ Pair(r)'
                 /\ \A k \in Keys : /\ mark'[k].rev = mark[k].rev
                                    /\ mark'[k].ttl \in {mark[k].ttl, t}
                                    /\ mark'[k].ttl >= mark[k].ttl
                 /\ mark["scoped"].rev = r => mark'["scoped"].ttl >= t
<1>1. TypeOK /\ Pair(r)
  BY DEF IInv, RevInv
<1>2. r # 0 /\ Absent.rev = 0 /\ "scoped" \in Keys /\ "legacy" \in Keys
      /\ "scoped" \in MarkerKeys(r) /\ MarkerKeys(r) \subseteq Keys
  BY Constants DEF Absent, Keys, MarkerKeys
<1>3. ASSUME mark' = Written(r, t)
      PROVE  /\ Pair(r)' /\ \A k \in MarkerKeys(r) : mark'[k].rev = r
             /\ mark'["scoped"].ttl = t
             /\ \A k \in Keys : mark'[k].rev = r =>
                   mark'[k].ttl = t \/ (mark'[k] = mark[k] /\ mark[k].rev = r)
  <2>1. /\ \A k \in Keys : /\ k \in MarkerKeys(r) => mark'[k].rev = r /\ mark'[k].ttl = t
                           /\ k \notin MarkerKeys(r) => mark'[k] = mark[k]
        /\ bridge[r] => mark'["legacy"] = mark'["scoped"]
    BY <1>1, <1>3, WrittenKeys
  <2> QED BY <1>2, <2>1 DEF Pair
<1>4. ASSUME mark' = Cleared(r)
      PROVE  /\ Pair(r)' /\ mark'["scoped"].rev # r
             /\ \A k \in Keys : mark'[k].rev = r => mark'[k] = mark[k]
  <2>1. /\ \A k \in Keys : mark'[k] = mark[k] \/ (mark'[k] = Absent /\ mark[k].rev = r)
        /\ mark["scoped"].rev = r => mark'["scoped"] = Absent
    BY <1>1, <1>4, ClearedKeys
  <2> QED BY <1>2, <2>1 DEF Pair
<1>5. ASSUME mark' = Renewed(r, t)
      PROVE  /\ Pair(r)'
             /\ \A k \in Keys : /\ mark'[k].rev = mark[k].rev
                                /\ mark'[k].ttl \in {mark[k].ttl, t}
                                /\ mark'[k].ttl >= mark[k].ttl
             /\ mark["scoped"].rev = r => mark'["scoped"].ttl >= t
  <2>1. /\ \A k \in Keys : /\ mark'[k].rev = mark[k].rev
                           /\ mark'[k].ttl \in {mark[k].ttl, t}
                           /\ mark'[k].ttl >= mark[k].ttl
        /\ mark["scoped"].rev = r => mark'["scoped"].ttl >= t
        /\ bridge[r] /\ mark["legacy"] = mark["scoped"] =>
              mark'["legacy"] = mark'["scoped"]
    BY <1>1, <1>5, RenewedKeys
  <2> QED BY <1>1, <1>2, <2>1 DEF Pair
<1> QED BY <1>3, <1>4, <1>5

(* Parts of the invariant that a step of the revision leaves alone.        *)
LEMMA LimitGrows ==
    ASSUME TypeOK, NEW r \in Revs, pause[r] # "none" => pause'[r] # "none",
           hook[r] = "held" => hook'[r] = "held"
    PROVE  /\ Limit(r) <= Limit(r)' /\ Lease <= Limit(r)' /\ Limit(r)' \in Nat
           /\ pause'[r] # "none" => Handoff <= Limit(r)'
           /\ pause'[r] # "none" /\ hook'[r] = "held" => Limit(r)' = Hold
           /\ Limit(r) \in Nat
  BY Constants DEF Limit

LEMMA KeysIdle ==
    ASSUME IInv, NEW r \in Revs, UNCHANGED mark, bridge'[r] = bridge[r],
           pause'[r] = pause[r] \/ pause'[r] # "held",
           pause[r] # "none" => pause'[r] # "none",
           hook[r] = "held" => hook'[r] = "held"
    PROVE  Pair(r)' /\ Held(r)' /\ Bounded(r)'
<1>1. TypeOK /\ Pair(r) /\ Held(r) /\ Bounded(r)
  BY DEF IInv, RevInv
<1>2. Pair(r)' /\ Held(r)'
  BY <1>1 DEF Pair, Held, MarkerKeys
<1>3. Bounded(r)'
  BY <1>1, LimitGrows, MarkFields DEF Bounded
<1> QED BY <1>2, <1>3

(* Helm or a hook goes to its next stage, and nothing else of the revision  *)
(* changes.                                                                *)
LEMMA HelmMoves ==
    ASSUME IInv, TypeOK', NEW r \in Revs, helm[r] # "none",
           \A q \in Revs \ {r} : helm'[q] = helm[q] /\ hook'[q] = hook[q],
           UNCHANGED <<mark, stray, bridge, gVars, sVars, entry, xVars>>,
           record' = record \/ record' = record \ {r},
           helm'[r] # "none", gate[r] = "none" => helm'[r] = "failed" /\ hook'[r] = "none",
           hook[r] = "held" => hook'[r] = "held",
           hook'[r] \in Holding => hook[r] \in Holding \/ Sole(r),
           helm[r] \in Over => helm'[r] \in Over,
           Hooked(r)'
    PROVE  IInv'
<1>1. /\ TypeOK /\ Fresh(r) /\ Covers(r) /\ Verdict(r)
      /\ Broken(r) /\ Trusted(r)
  BY DEF IInv, RevInv
<1>2. UNCHANGED <<gate, scan, mig, authority, call, tries, accepted, pause>>
  BY DEF gVars, sVars, xVars
<1>3. StepOf(r)
  <2>1. \A q \in Revs : Follows(q)
    BY <1>2, FollowsStill
  <2> QED BY <1>2, <2>1 DEF StepOf, Touches, Apart
<1>4. Ordered(r)
  BY DEF Ordered
<1>5. Fresh(r)' /\ Covers(r)' /\ Verdict(r)'
  BY <1>1, <1>2 DEF Fresh, Covers, Verdict
<1>6. Pair(r)' /\ Held(r)' /\ Bounded(r)'
  BY <1>2, KeysIdle
<1>7. Broken(r)' /\ Trusted(r)'
  BY <1>1, <1>2 DEF Broken, Trusted, Live, Valid, Sole
<1> QED BY <1>3, <1>4, <1>5, <1>6, <1>7, StepCloses DEF RevInv

(* A hook renews the pause of its revision.                                *)
LEMMA HookRenews ==
    ASSUME IInv, TypeOK', NEW r \in Revs,
           NEW to \in {"attested", "held"}, NEW t \in {Handoff, Hold},
           to = "attested" => hook[r] = "attest2" /\ t = Handoff,
           to = "held" => hook[r] = "hold",
           mark["scoped"].rev = r, SetMark(Renewed(r, t)), hook' = [hook EXCEPT ![r] = to],
           UNCHANGED <<record, stray, helm, bridge, gVars, sVars, entry, accepted>>
    PROVE  IInv'
<1>1. /\ TypeOK /\ Fresh(r) /\ Covers(r) /\ Verdict(r) /\ Hooked(r)
      /\ Held(r) /\ Broken(r) /\ Bounded(r)
  BY DEF IInv, RevInv
<1>2. hook'[r] = to /\ (\A q \in Revs \ {r} : hook'[q] = hook[q]) /\ to \in HookStates
  BY <1>1 DEF TypeOK, HookStates
<1>3. UNCHANGED <<gate, scan, mig, authority, call, tries, accepted>> /\ t \in 0 .. Hold
      /\ mark' = Renewed(r, t) /\ bridge'[r] = bridge[r]
  BY Constants DEF gVars, sVars, SetMark
<1>4. \A q \in Revs : Follows(q)
  BY <1>1, FollowsMark
<1>5. hook[r] \in Attested /\ hook[r] # "held"
  BY DEF Attested
<1>6. gate[r] \in {"ok", "clear", "bad"} /\ stray[r] = 0 /\ pause[r] # "none"
  BY <1>1, <1>5 DEF Hooked
<1>7. StepOf(r)
  <2>1. Touches(r)
    BY <1>3, <1>6 DEF Touches
  <2> QED BY <1>2, <1>3, <1>4, <2>1 DEF StepOf, Apart
<1>8. Ordered(r)
  BY DEF Ordered
<1>9. /\ Pair(r)'
      /\ \A k \in Keys : /\ mark'[k].rev = mark[k].rev
                         /\ mark'[k].ttl \in {mark[k].ttl, t}
  BY <1>3, OwnKeys
<1>10. pause'[r] = pause[r]
  <2>1. MarkerKeys(r) \subseteq Keys
    BY DEF MarkerKeys, Keys
  <2> QED BY <1>1, <1>4, <1>9, <2>1 DEF Follows, Held
<1>11. Fresh(r)' /\ Covers(r)' /\ Verdict(r)'
  BY <1>1, <1>3, <1>6, <1>10 DEF Fresh, Covers, Verdict
<1>12. ~Live(r) /\ (to = "held" => mig[r] = "ok")
  BY <1>1 DEF Hooked, Live, Holding
<1>13. Hooked(r)'
  BY <1>1, <1>2, <1>3, <1>6, <1>10, <1>12 DEF Hooked, Live, Rolled, Holding
<1>14. Held(r)'
  BY <1>3, <1>4 DEF Held, Follows, MarkerKeys
<1>15. Broken(r)'
  BY <1>1, <1>2, <1>3, <1>9, <1>10 DEF Broken, Sole, Keys, Holding
<1>16. Trusted(r)'
  BY <1>3, <1>12 DEF Trusted, Live
<1>17. Bounded(r)'
  <2>1. /\ Limit(r) <= Limit(r)' /\ Limit(r)' \in Nat /\ Limit(r) \in Nat
        /\ Handoff <= Limit(r)' /\ (hook'[r] = "held" => Limit(r)' = Hold)
    BY <1>1, <1>5, <1>6, <1>10, LimitGrows
  <2>2. t <= Limit(r)'
    BY <1>2, <2>1, Constants
  <2> QED BY <1>1, <1>9, <2>1, <2>2, MarkFields DEF Bounded
<1> QED BY <1>7, <1>8, <1>9, <1>11, <1>13, <1>14, <1>15, <1>16, <1>17, StepCloses DEF RevInv

LEMMA HooksKeep ==
    ASSUME IInv, NEW r \in Revs, Hooks(r)
    PROVE  IInv'
<1>1. /\ TypeOK /\ Fresh(r) /\ Covers(r) /\ Verdict(r) /\ Hooked(r)
      /\ Pair(r) /\ Held(r) /\ Broken(r) /\ Trusted(r) /\ Bounded(r)
  BY DEF IInv, RevInv
<1>2. TypeOK' /\ helm[r] \in Stages
  BY <1>1, HooksTypes DEF TypeOK
<1> USE DEF mVars, gVars, sVars, fVars, xVars, hVars
<1>3. CASE HelmStart(r)
  <2>1. /\ helm[r] = "none" /\ helm'[r] = "drain" /\ gate[r] = "none"
        /\ \A q \in Revs \ {r} : helm'[q] = helm[q] /\ bridge'[q] = bridge[q]
        /\ UNCHANGED <<identified, hook, mVars, gVars, sVars, fVars, xVars, faults>>
    BY <1>1, <1>3 DEF HelmStart, TypeOK, Fresh
  <2>2. StepOf(r)
    <3>1. \A q \in Revs : Follows(q)
      BY <2>1, FollowsStill
    <3> QED BY <2>1, <3>1 DEF StepOf, Touches, Apart
  <2>3. Ordered(r)
    BY <1>3 DEF HelmStart, Ordered, Over
  <2>4. /\ scan[r] = NoScan /\ stray[r] = 0 /\ r \notin record
        /\ pause[r] = "none" /\ tries[r] = 0 /\ hook[r] = "none"
        /\ \A k \in Keys : mark[k].rev # r
    BY <1>1, <2>1 DEF Fresh
  <2>5. Fresh(r)' /\ Covers(r)' /\ Verdict(r)'
    BY <1>1, <2>1, <2>4 DEF Fresh, Covers, Verdict
  <2>6. Hooked(r)'
    BY <1>1, <2>1, <2>4 DEF Hooked, Live, Attested, Holding, PastAttest, Rolled
  <2>7. Pair(r)' /\ Held(r)' /\ Broken(r)' /\ Bounded(r)'
    BY <2>1, <2>4 DEF Pair, Held, Broken, Bounded, Keys
  <2>8. Trusted(r)'
    BY <2>1 DEF Trusted
  <2> QED BY <1>2, <2>2, <2>3, <2>5, <2>6, <2>7, <2>8, StepCloses DEF RevInv
<1>4. CASE HelmGivesUp(r)
  <2>1. /\ helm[r] \notin {"none", "done", "failed", "aborted"}
        /\ helm'[r] = IF helm[r] \in {"roll", "release", "release2"} THEN "aborted" ELSE "failed"
        /\ \A q \in Revs \ {r} : helm'[q] = helm[q]
        /\ UNCHANGED <<mVars, hook, bridge, identified, gVars, sVars, fVars, xVars, faults>>
    BY <1>1, <1>4 DEF HelmGivesUp, TypeOK
  <2>2. gate[r] = "none" => helm'[r] = "failed" /\ hook[r] = "none"
    BY <1>1, <2>1 DEF Fresh
  <2>3. Hooked(r)'
    BY <1>1, <2>1 DEF Hooked, Live, PastAttest, Rolled
  <2> QED BY <1>2, <2>1, <2>2, <2>3, HelmMoves DEF Over
<1>5. ASSUME helm[r] = "drain", gate[r] # "none", StartHook(r, "attest"),
             UNCHANGED <<mVars, bridge, identified, gVars, sVars, fVars, xVars>>
      PROVE  IInv'
  <2>1. /\ helm'[r] = "attest" /\ hook'[r] = "attest"
        /\ \A q \in Revs \ {r} : helm'[q] = helm[q] /\ hook'[q] = hook[q]
    BY <1>1, <1>5 DEF StartHook, TypeOK
  <2>2. ~Live(r) /\ hook[r] # "held" /\ ~(tries[r] > 0)
    BY <1>1, <1>5 DEF Hooked, Holding
  <2>3. Hooked(r)'
    BY <1>5, <2>1, <2>2 DEF Hooked, Live, PastAttest, Rolled, Attested, Holding
  <2> QED BY <1>2, <1>5, <2>1, <2>2, <2>3, HelmMoves DEF Over, Holding
<1>6. ASSUME helm[r] \in {"drain", "attest", "migrate", "hold"}, gate[r] # "none", Refuse(r),
             UNCHANGED <<mark, record, stray, bridge, gVars, sVars, fVars, xVars>>
      PROVE  IInv'
  <2>1. /\ helm'[r] = "failed" /\ hook' = hook
        /\ \A q \in Revs \ {r} : helm'[q] = helm[q]
    BY <1>1, <1>6 DEF Refuse, TypeOK
  <2>2. Hooked(r)'
    BY <1>1, <1>6, <2>1 DEF Hooked, Live, PastAttest, Rolled
  <2> QED BY <1>2, <1>6, <2>1, <2>2, HelmMoves DEF Over
<1>7. ASSUME NEW to \in {"attest2", "bad"}, hook[r] \in {"attest", "attest2", "hold"},
             hook' = [hook EXCEPT ![r] = to],
             to = "attest2" => r \in record /\ stray[r] = 0 /\ hook[r] = "attest",
             UNCHANGED <<mVars, helm, bridge, gVars, sVars, fVars, xVars>>
      PROVE  IInv'
  <2>1. /\ hook'[r] = to /\ helm' = helm
        /\ \A q \in Revs \ {r} : hook'[q] = hook[q]
    BY <1>1, <1>7 DEF TypeOK
  <2>2. gate[r] # "none" /\ helm[r] # "none"
    BY <1>1, <1>7 DEF Fresh
  <2>3. Hooked(r)'
    BY <1>1, <1>7, <2>1 DEF Hooked, Live, Verdict, Attested, Holding
  <2> QED BY <1>2, <1>7, <2>1, <2>2, <2>3, HelmMoves DEF Holding
<1>8. CASE DrainJobDeleted(r) \/ DrainJobDone(r)
  BY <1>5, <1>6, <1>8 DEF DrainJobDeleted, DrainJobDone
<1>9. CASE AttestRead(r) \/ HookFails(r)
  BY <1>7, <1>9 DEF AttestRead, HookFails
<1>10. CASE AttestRenew(r) \/ HoldRenew(r)
  <2>1. PICK to \in {"attested", "held"}, t \in {Handoff, Hold} :
          /\ to = "attested" => hook[r] = "attest2" /\ t = Handoff
          /\ to = "held" => hook[r] = "hold"
          /\ HookRenew(r, to, t)
    BY <1>10 DEF AttestRenew, HoldRenew
  <2>2. CASE RenewResult(r) = "renewed"
    <3>1. mark["scoped"].rev = r
      BY <2>2, Constants DEF RenewResult
    <3>2. hook' = [hook EXCEPT ![r] = to] /\ SetMark(Renewed(r, t))
      BY <2>1, <2>2 DEF HookRenew
    <3>3. UNCHANGED <<record, stray, helm, bridge, gVars, sVars, entry, accepted>>
      BY <2>1 DEF HookRenew
    <3> QED BY <1>2, <2>1, <3>1, <3>2, <3>3, HookRenews
  <2>3. CASE RenewResult(r) # "renewed"
    BY <1>7, <2>1, <2>3 DEF HookRenew
  <2> QED BY <2>2, <2>3
<1>17. CASE HookJobDone(r)
  <2>1. /\ helm[r] \in {"attest", "hold"} /\ gate[r] # "none"
        /\ UNCHANGED <<mVars, bridge, gVars, sVars, fVars, xVars>>
    BY <1>1, <1>17 DEF HookJobDone, Fresh
  <2>2. CASE Refuse(r)
    BY <1>6, <2>1, <2>2
  <2>3. ASSUME NEW st \in {"migrate", "roll"}, GoOn(r, st),
               hook[r] = IF st = "migrate" THEN "attested" ELSE "held"
        PROVE  IInv'
    <3>1. /\ helm'[r] = st /\ hook' = hook
          /\ \A q \in Revs \ {r} : helm'[q] = helm[q]
      BY <1>1, <2>3 DEF GoOn, TypeOK
    <3>2. ~Live(r) /\ gate[r] \in {"ok", "clear", "bad"} /\ stray[r] = 0 /\ pause[r] # "none"
      BY <1>1, <2>1, <2>3 DEF Hooked, Attested
    <3>3. Hooked(r)'
      BY <1>1, <2>1, <2>3, <3>1, <3>2 DEF Hooked, Live, Rolled, Holding
    <3> QED BY <1>2, <2>1, <3>1, <3>3, HelmMoves DEF Over
  <2> QED BY <1>17, <2>2, <2>3 DEF HookJobDone
<1>11. CASE MigStart(r)
  <2>1. /\ mig[r] \in {"none", "bad"} /\ helm[r] \in {"migrate", "failed"}
        /\ helm[r] = "migrate" \/ tries[r] > 0
        /\ UNCHANGED <<mVars, hVars, gVars, fVars, xVars, faults>>
    BY <1>11 DEF MigStart
  <2>2. /\ mig'[r] = "confirm" /\ authority'[r].confirmed = FALSE /\ call'[r] = NoCall
        /\ tries'[r] = tries[r] + 1
        /\ \A q \in Revs \ {r} : /\ mig'[q] = mig[q] /\ authority'[q] = authority[q]
                                 /\ call'[q] = call[q] /\ tries'[q] = tries[q]
    BY <1>1, <1>11 DEF MigStart, TypeOK
  <2>3. tries[r] \in Nat
    BY <1>1, DrainAssumption DEF TypeOK
  <2>4. gate[r] \in {"ok", "clear", "bad"} /\ stray[r] = 0 /\ pause[r] # "none"
    BY <1>1, <2>1 DEF Hooked, PastAttest
  <2>5. StepOf(r)
    <3>1. \A q \in Revs : Follows(q)
      BY <2>1, FollowsStill
    <3> QED BY <2>1, <2>2, <3>1 DEF StepOf, Touches, Apart
  <2>6. Ordered(r)
    BY <2>1 DEF Ordered
  <2>7. Fresh(r)' /\ Covers(r)' /\ Verdict(r)'
    BY <1>1, <2>1, <2>4 DEF Fresh, Covers, Verdict
  <2>8. Hooked(r)'
    BY <1>1, <2>1, <2>2, <2>3, <2>4 DEF Hooked, Live, Rolled, Holding
  <2>9. Pair(r)' /\ Held(r)' /\ Bounded(r)'
    BY <2>1, KeysIdle
  <2>10. Broken(r)'
    BY <1>1, <2>1 DEF Broken, Sole
  <2>11. Trusted(r)'
    BY <2>2 DEF Trusted, Valid, NoCall
  <2> QED BY <1>2, <2>5, <2>6, <2>7, <2>8, <2>9, <2>10, <2>11, StepCloses DEF RevInv
<1>12. CASE MigJobDone(r)
  <2>1. /\ helm[r] = "migrate" /\ gate[r] # "none"
        /\ UNCHANGED <<mVars, bridge, identified, gVars, sVars, fVars, xVars, faults>>
    BY <1>1, <1>12 DEF MigJobDone, Fresh
  <2>2. CASE mig[r] = "ok" /\ StartHook(r, "hold")
    <3>1. /\ helm'[r] = "hold" /\ hook'[r] = "hold"
          /\ \A q \in Revs \ {r} : helm'[q] = helm[q] /\ hook'[q] = hook[q]
      BY <1>1, <2>2 DEF StartHook, TypeOK
    <3>2. Sole(r)
      <4>1. Serial /\ \A q \in Revs : Fresh(q)
        BY DEF IInv, RevInv
      <4> QED BY <2>1, <4>1 DEF Sole, Serial, Over, Fresh
    <3>3. Hooked(r)'
      BY <1>1, <2>1, <2>2, <3>1 DEF Hooked, Live, PastAttest, Rolled, Holding
    <3>4. hook[r] # "held"
      BY <1>1, <2>1 DEF Hooked
    <3> QED BY <1>2, <2>1, <3>1, <3>2, <3>3, <3>4, HelmMoves DEF Over
  <2>3. CASE Refuse(r)
    BY <1>6, <2>1, <2>3
  <2> QED BY <1>12, <2>2, <2>3 DEF MigJobDone
<1>13. CASE RollDone(r)
  <2>1. /\ helm[r] = "roll" /\ gate[r] # "none" /\ helm'[r] = "release" /\ hook' = hook
        /\ \A q \in Revs \ {r} : helm'[q] = helm[q]
        /\ UNCHANGED <<mVars, bridge, identified, gVars, sVars, fVars, xVars, faults>>
    BY <1>1, <1>13 DEF RollDone, Fresh, GoOn, TypeOK
  <2>2. Hooked(r)'
    BY <1>1, <2>1 DEF Hooked, Live, PastAttest, Rolled
  <2> QED BY <1>2, <2>1, <2>2, HelmMoves DEF Over
<1>14. CASE ReleaseClear(r)
  <2>1. /\ helm[r] = "release" /\ helm'[r] = "release2" /\ hook' = hook
        /\ \A q \in Revs \ {r} : helm'[q] = helm[q]
        /\ mark' = Cleared(r) /\ SetMark(Cleared(r))
        /\ UNCHANGED <<record, stray, bridge, identified, gVars, sVars, fVars, accepted, faults>>
    BY <1>1, <1>14 DEF ReleaseClear, GoOn, TypeOK, SetMark
  <2>2. \A q \in Revs : Follows(q)
    BY <1>1, <2>1, FollowsMark
  <2>3. /\ gate[r] \in {"ok", "clear", "bad"} /\ stray[r] = 0 /\ pause[r] # "none"
        /\ mig[r] = "ok" /\ hook[r] = "held" /\ tries[r] \in Nat
    BY <1>1, <2>1, DrainAssumption DEF Hooked, PastAttest, Rolled, TypeOK
  <2>4. StepOf(r)
    BY <2>1, <2>2, <2>3 DEF StepOf, Touches, Apart
  <2>5. Ordered(r)
    BY <2>1 DEF Ordered, Over
  <2>6. /\ Pair(r)' /\ mark'["scoped"].rev # r
        /\ \A k \in Keys : mark'[k].rev = r => mark'[k] = mark[k]
    BY <2>1, OwnKeys, Constants
  <2>7. pause'[r] # "none"
    BY <2>2, <2>3 DEF Follows
  <2>8. Fresh(r)' /\ Covers(r)'
    BY <1>1, <2>1, <2>3 DEF Fresh, Covers
  <2>9. Verdict(r)'
    BY <1>1, <2>1, <2>2, <2>3, <2>7 DEF Verdict, Follows
  <2>10. Hooked(r)'
    BY <2>1, <2>3, <2>7 DEF Hooked, Live, Rolled
  <2>11. Held(r)' /\ Broken(r)' /\ Trusted(r)'
    BY <2>1, <2>2, <2>3, <2>6 DEF Held, Follows, MarkerKeys, Broken, Trusted, Live
  <2>12. Bounded(r)'
    <3>1. Limit(r) <= Limit(r)' /\ Limit(r)' \in Nat /\ Limit(r) \in Nat
      BY <1>1, <2>1, <2>7, LimitGrows DEF Rolled
    <3> QED BY <1>1, <2>6, <3>1, MarkFields DEF Bounded
  <2> QED BY <1>2, <2>4, <2>5, <2>6, <2>8, <2>9, <2>10, <2>11, <2>12, StepCloses DEF RevInv
<1>15. CASE ReleaseRecord(r)
  <2>1. /\ helm[r] = "release2" /\ gate[r] # "none" /\ helm'[r] = "done" /\ hook' = hook
        /\ \A q \in Revs \ {r} : helm'[q] = helm[q]
        /\ record' = record \ {r}
        /\ UNCHANGED <<mark, stray, bridge, identified, gVars, sVars, fVars, xVars, faults>>
    BY <1>1, <1>15 DEF ReleaseRecord, Fresh, GoOn, TypeOK
  <2>2. Hooked(r)'
    BY <1>1, <2>1 DEF Hooked, Live, PastAttest, Rolled
  <2> QED BY <1>2, <2>1, <2>2, HelmMoves DEF Over
<1>16. ASSUME NEW l \in Loops, RollLoop(r, l) PROVE IInv'
  <2>1. UNCHANGED <<mVars, hVars, gVars, sVars, entry, xVars, faults>>
    BY <1>16 DEF RollLoop
  <2>2. StepOf(r) /\ Ordered(r)
    <3>1. \A q \in Revs : Follows(q)
      BY <2>1, FollowsStill
    <3> QED BY <2>1, <3>1 DEF StepOf, Touches, Apart, Ordered
  <2>3. Fresh(r)' /\ Covers(r)' /\ Verdict(r)' /\ Hooked(r)'
    BY <1>1, <2>1 DEF Fresh, Covers, Verdict, Hooked, Live
  <2>4. Pair(r)' /\ Held(r)' /\ Bounded(r)'
    BY <2>1, KeysIdle
  <2>5. Broken(r)' /\ Trusted(r)'
    BY <1>1, <2>1 DEF Broken, Trusted, Sole, Live, Valid
  <2> QED BY <1>2, <2>2, <2>3, <2>4, <2>5, StepCloses DEF RevInv
<1> QED BY <1>3, <1>4, <1>8, <1>9, <1>10, <1>11, <1>12, <1>13, <1>14, <1>15, <1>16, <1>17
        DEF Hooks

-----------------------------------------------------------------------------
(* The gate.                                                               *)

(* Until the gate has ended no later hook of its upgrade has started.       *)
LEMMA GateFirst ==
    ASSUME IInv, NEW r \in Revs,
           gate[r] \in {"none", "wait", "handoff", "record"} \/ stray[r] # 0
    PROVE  /\ hook[r] \notin Attested /\ hook[r] \notin Holding
           /\ ~(tries[r] > 0) /\ ~Live(r)
           /\ helm[r] \notin PastAttest /\ helm[r] \notin Rolled
           /\ helm[r] # "hold" /\ helm[r] # "migrate"
<1>1. Hooked(r)
  BY DEF IInv, RevInv
<1>2. hook[r] \notin Attested /\ helm[r] \notin PastAttest /\ ~(tries[r] > 0) /\ ~Live(r)
  BY <1>1 DEF Hooked
<1> QED BY <1>2 DEF Attested, Holding, PastAttest, Rolled

(* The gate goes on and the keys stay.                                     *)
LEMMA GateMoves ==
    ASSUME IInv, TypeOK', NEW r \in Revs, helm[r] # "none", gate'[r] # "none",
           UNCHANGED <<mark, hVars, sVars, entry>>,
           \A q \in Revs \ {r} :
              /\ gate'[q] = gate[q] /\ scan'[q] = scan[q] /\ stray'[q] = stray[q]
              /\ pause'[q] = pause[q] /\ accepted'[q] = accepted[q]
              /\ (q \in record' <=> q \in record),
           pause'[r] = pause[r] \/ pause'[r] = "drained",
           pause[r] # "none" => pause'[r] # "none",
           gate[r] \in {"none", "wait", "handoff", "record"} \/
              (gate'[r] = "bad" /\ stray'[r] = stray[r] /\ pause'[r] = pause[r]),
           gate'[r] \in {"record", "ok"} =>
              gate[r] = "record" /\ stray'[r] = stray[r] /\ pause'[r] = pause[r],
           Covers(r)', Verdict(r)'
    PROVE  IInv'
<1>1. TypeOK /\ Fresh(r) /\ Hooked(r) /\ Held(r) /\ Broken(r)
  BY DEF IInv, RevInv
<1>2. /\ UNCHANGED <<helm, hook, bridge, mig, authority, call, tries>>
      /\ mark' = mark /\ entry' = entry
  BY DEF hVars, sVars
<1>3. StepOf(r)
  <2>1. \A q \in Revs \ {r} : Follows(q)
    BY <1>2 DEF IInv, RevInv, Held, Follows
  <2> QED BY <1>2, <2>1 DEF StepOf, Touches, Apart
<1>4. Ordered(r)
  BY <1>2 DEF Ordered
<1>5. Fresh(r)'
  BY <1>2 DEF Fresh
<1>6. Hooked(r)'
  <2>1. CASE gate[r] \in {"none", "wait", "handoff", "record"}
    BY <1>1, <1>2, <2>1, GateFirst DEF Hooked, Live
  <2>2. CASE gate'[r] = "bad" /\ stray'[r] = stray[r] /\ pause'[r] = pause[r]
    BY <1>1, <1>2, <2>2 DEF Hooked, Live
  <2> QED BY <2>1, <2>2
<1>7. Pair(r)' /\ Held(r)' /\ Bounded(r)'
  BY <1>2, KeysIdle
<1>8. Broken(r)'
  <2>1. Sole(r)' => Sole(r)
    BY Constants DEF Sole
  <2> QED BY <1>1, <1>2, <2>1 DEF Broken
<1>9. Trusted(r)'
  <2>1. gate'[r] = "ok" => ~Live(r)
    BY GateFirst
  <2> QED BY <1>2, <2>1 DEF Trusted, Live
<1> QED BY <1>3, <1>4, <1>5, <1>6, <1>7, <1>8, <1>9, StepCloses DEF RevInv

(* The gate, or a cancelled write of it, sets the keys.                    *)
LEMMA GateWrites ==
    ASSUME IInv, TypeOK', NEW r \in Revs, NEW t \in {Lease, Handoff},
           gate[r] \in {"none", "wait", "handoff", "record"} \/ stray[r] # 0,
           WriteTaken(r), mark' = Written(r, t), helm[r] # "none", gate'[r] # "none",
           UNCHANGED <<hVars, sVars, entry>>,
           \A q \in Revs \ {r} :
              /\ gate'[q] = gate[q] /\ scan'[q] = scan[q] /\ stray'[q] = stray[q]
              /\ accepted'[q] = accepted[q] /\ (q \in record' <=> q \in record)
              /\ Follows(q),
           pause[r] # "none" => pause'[r] # "none",
           t = Lease \/ pause'[r] # "none",
           Covers(r)', Verdict(r)', Broken(r)'
    PROVE  IInv'
<1>1. TypeOK /\ Bounded(r) /\ Hooked(r)
  BY DEF IInv, RevInv
<1>2. UNCHANGED <<helm, hook, bridge, mig, authority, call, tries>> /\ entry' = entry
  BY DEF hVars, sVars
<1>3. t \in 0 .. Hold /\ t \in Nat
  BY Constants
<1>4. StepOf(r)
  <2>1. Touches(r)
    BY <1>3 DEF Touches
  <2> QED BY <1>2, <2>1 DEF StepOf, Apart
<1>5. Ordered(r)
  BY <1>2 DEF Ordered
<1>6. /\ Pair(r)' /\ \A k \in MarkerKeys(r) : mark'[k].rev = r
      /\ \A k \in Keys : mark'[k].rev = r =>
            mark'[k].ttl = t \/ (mark'[k] = mark[k] /\ mark[k].rev = r)
  BY <1>2, <1>3, OwnKeys
<1>7. Fresh(r)'
  BY <1>2 DEF Fresh
<1>8. Hooked(r)' /\ Trusted(r)'
  BY <1>1, <1>2, GateFirst DEF Hooked, Trusted, Live
<1>9. Held(r)'
  BY <1>2, <1>6 DEF Held, MarkerKeys
<1>10. Bounded(r)'
  <2>1. /\ Limit(r) <= Limit(r)' /\ Lease <= Limit(r)' /\ Limit(r)' \in Nat
        /\ pause'[r] # "none" => Handoff <= Limit(r)'
        /\ Limit(r) \in Nat
    BY <1>1, <1>2, LimitGrows
  <2>2. t <= Limit(r)'
    BY <2>1
  <2> QED BY <1>1, <1>3, <1>6, <2>1, <2>2, MarkFields DEF Bounded
<1> QED BY <1>4, <1>5, <1>6, <1>7, <1>8, <1>9, <1>10, StepCloses DEF RevInv

(* Reading a page and looking at its leases loses nothing that was ahead.   *)
LEMMA PageCovers ==
    ASSUME TypeOK, NEW s \in Scan, ~s.read, s.lane <= 2,
           NEW e \in Entries, entry[e] = "leased", Ahead(s, e),
           NEW z \in Scan, z.lane = s.lane, z.cursor = s.cursor,
           z.page = FirstPage(Pending(s))
    PROVE  Ahead(z, e)
<1>1. CASE LaneNo(e) > s.lane
  BY <1>1 DEF Ahead
<1>2. CASE LaneNo(e) = s.lane /\ e > s.cursor
  <2>1. Lane[e] \in {"runs", "eval"} /\ s.lane \in {1, 2}
    BY <1>2, DrainAssumption DEF LaneNo
  <2>2. Lane[e] = Lanes[s.lane]
    BY <1>2, <2>1 DEF LaneNo, Lanes
  <2>3. e \in Pending(s) /\ Pending(s) \in SUBSET Entries
    BY <1>2, <2>2 DEF Pending
  <2>4. e \in z.page \/ (Cardinality(z.page) >= Page /\ \A d \in z.page : d < e)
    BY <2>3, PageIsFirst
  <2> QED BY <1>2, <2>4 DEF Ahead
<1> QED BY <1>1, <1>2 DEF Ahead

LEMMA LeasesCover ==
    ASSUME TypeOK, NEW s \in Scan, s.read, s.lane \in {1, 2},
           NEW e \in Entries, e \notin s.page, Ahead(s, e), NEW z \in Scan, ~z.read,
           z.lane = (IF Cardinality(s.page) < Page THEN s.lane + 1 ELSE s.lane),
           z.cursor = (IF Cardinality(s.page) < Page THEN 0
                       ELSE CHOOSE x \in s.page : \A d \in s.page : d <= x)
    PROVE  Ahead(z, e)
<1>1. s.page \in SUBSET Entries /\ Cardinality(s.page) \in Nat /\ Page \in Nat
      /\ e \in Nat /\ e > 0 /\ LaneNo(e) \in {1, 2}
  BY DrainAssumption, FS_Subset, FS_CardinalityType DEF Scan, LaneNo
<1>2. CASE LaneNo(e) > s.lane
  <2>1. CASE Cardinality(s.page) < Page
    BY <1>1, <1>2, <2>1 DEF Ahead
  <2>2. CASE ~(Cardinality(s.page) < Page)
    BY <1>2, <2>2 DEF Ahead
  <2> QED BY <2>1, <2>2
<1>3. CASE LaneNo(e) = s.lane /\ Cardinality(s.page) >= Page /\ \A d \in s.page : d < e
  <2>1. ~(Cardinality(s.page) < Page)
    BY <1>1, <1>3
  <2>2. z.cursor \in s.page
    BY <1>1, <2>1, LastOfPage
  <2>3. z.cursor \in Nat /\ z.cursor < e
    BY <1>1, <1>3, <2>2, DrainAssumption
  <2> QED BY <1>1, <1>3, <2>1, <2>3 DEF Ahead
<1> QED BY <1>2, <1>3 DEF Ahead

LEMMA ScanKeeps ==
    ASSUME IInv, NEW r \in Revs, ScanPage(r) \/ ScanLeases(r)
    PROVE  IInv'
<1>1. TypeOK /\ Fresh(r) /\ Covers(r) /\ Verdict(r)
  BY DEF IInv, RevInv
<1>2. TypeOK'
  BY <1>1, GateTypes DEF Gate, Covers
<1>3. /\ gate[r] = "wait" /\ gate' = gate
      /\ UNCHANGED <<mVars, hVars, gate, sVars, fVars, xVars>>
      /\ \A q \in Revs \ {r} : scan'[q] = scan[q]
  BY <1>1 DEF ScanPage, ScanLeases, TypeOK
<1>4. helm[r] # "none"
  BY <1>1, <1>3 DEF Fresh
<1>5. scan[r] \in Scan /\ scan'[r] \in Scan /\ accepted[r] \in SUBSET Entries
  BY <1>1, <1>2, Typed DEF AllTyped
<1>6. Len(Lanes) = 2
  BY DEF Lanes
<1>7. Verdict(r)'
  BY <1>1, <1>3 DEF Verdict, mVars, xVars
<1>8. Covers(r)'
  <2>1. \A e \in accepted[r] : entry[e] = "leased" /\ e \in Entries
    BY <1>1, <1>5 DEF Covers
  <2>2. \A e \in accepted[r] : scan[r].live \/ Ahead(scan[r], e)
    BY <1>1, <1>3 DEF Covers
  <2>3. CASE ScanPage(r)
    <3>1. /\ ~scan[r].read /\ scan[r].lane <= 2
          /\ scan'[r].lane = scan[r].lane /\ scan'[r].cursor = scan[r].cursor
          /\ scan'[r].page = FirstPage(Pending(scan[r]))
          /\ scan'[r].live = scan[r].live
      BY <1>1, <1>5, <1>6, <2>3 DEF ScanPage, TypeOK
    <3>2. scan'[r].lane \in {1, 2}
      BY <1>5, <3>1 DEF Scan
    <3>3. \A e \in accepted[r] : scan'[r].live \/ Ahead(scan'[r], e)
      BY <1>1, <1>5, <2>1, <2>2, <3>1, PageCovers
    <3> QED BY <1>3, <2>1, <3>2, <3>3 DEF Covers, xVars, fVars, Ahead, LaneNo
  <2>4. CASE ScanLeases(r)
    <3> DEFINE s == scan[r]
               c == IF Cardinality(s.page) < Page THEN 0
                    ELSE CHOOSE x \in s.page : \A d \in s.page : d <= x
               l == IF Cardinality(s.page) < Page THEN s.lane + 1 ELSE s.lane
               v == s.live \/ \E e \in s.page : entry[e] = "leased"
    <3>1. s.read /\ s.lane \in {1, 2}
      BY <1>1, <2>4 DEF ScanLeases, Covers
    <3>2. scan'[r] = [NoScan EXCEPT !.lane = l, !.cursor = c, !.live = v]
      BY <1>1, <2>4 DEF ScanLeases, TypeOK
    <3> HIDE DEF s, c, l, v
    <3>3. scan'[r].lane = l /\ scan'[r].cursor = c /\ ~scan'[r].read /\ scan'[r].live = v
      BY <3>2 DEF NoScan
    <3>4. ASSUME NEW e \in accepted[r]
          PROVE  scan'[r].live \/ Ahead(scan'[r], e)
      <4>1. CASE s.live \/ e \in s.page
        BY <2>1, <3>3, <4>1 DEF v
      <4>2. CASE ~s.live /\ e \notin s.page
        BY <1>1, <1>5, <2>1, <2>2, <3>1, <3>3, <4>2, LeasesCover DEF s, l, c
      <4> QED BY <4>1, <4>2
    <3> QED BY <1>3, <2>1, <3>3, <3>4 DEF Covers, xVars, fVars, Ahead, LaneNo
  <2> QED BY <2>3, <2>4
<1> QED BY <1>2, <1>3, <1>4, <1>7, <1>8, GateMoves DEF mVars, fVars, xVars

LEMMA GateKeeps ==
    ASSUME IInv, NEW r \in Revs,
           Gate(r) \/ GateHeartbeat(r) \/ GateInterrupted(r) \/ GateKilled(r) \/ StrayWrite(r)
    PROVE  IInv'
<1>1. /\ TypeOK /\ Fresh(r) /\ Covers(r) /\ Verdict(r) /\ Hooked(r)
      /\ Held(r) /\ Broken(r) /\ Bounded(r)
  BY DEF IInv, RevInv
<1>2. TypeOK'
  BY <1>1, GateTypes DEF Covers
<1>3. gate[r] # "none" => helm[r] # "none"
  BY <1>1 DEF Fresh
<1>4. Lease \in Nat /\ Handoff \in Nat /\ Lease # 0
  BY DrainAssumption
<1>5. ASSUME gate'[r] # "wait" \/ accepted'[r] = {}, accepted'[r] \subseteq accepted[r],
             entry' = entry, scan'[r] \in {scan[r], NoScan}
      PROVE  Covers(r)'
  BY <1>1, <1>5 DEF Covers, NoScan
<1> USE DEF mVars, hVars, gVars, sVars, fVars, xVars
<1>6. CASE GateStart(r)
  <2>1. /\ helm[r] = "drain" /\ gate[r] = "none" /\ scan'[r] = NoScan /\ stray'[r] = 0
        /\ r \notin record' /\ pause[r] = "none"
        /\ UNCHANGED <<record, stray, hVars, scan, sVars, fVars, faults>>
    BY <1>1, <1>6 DEF GateStart, Fresh
  <2>2. CASE WriteTaken(r)
    <3>1. /\ SetMark(Written(r, Lease)) /\ mark' = Written(r, Lease) /\ gate'[r] = "wait"
          /\ accepted'[r] = {e \in Entries : entry[e] = "leased"}
          /\ \A q \in Revs \ {r} : gate'[q] = gate[q] /\ accepted'[q] = accepted[q]
      BY <1>1, <1>6, <2>2 DEF GateStart, TypeOK, SetMark
    <3>2. \A q \in Revs : Follows(q)
      BY <1>1, <3>1, FollowsMark
    <3>3. pause'[r] = "none"
      BY <2>1, <3>2 DEF Follows
    <3>4. \A e \in Entries : Ahead(NoScan, e)'
      BY DrainAssumption DEF Ahead, NoScan, LaneNo
    <3>5. Covers(r)'
      BY <2>1, <3>1, <3>4 DEF Covers, NoScan
    <3>6. Verdict(r)' /\ Broken(r)'
      BY <1>4, <2>1, <3>1, <3>3 DEF Verdict, Broken
    <3> QED BY <1>2, <2>1, <2>2, <3>1, <3>2, <3>5, <3>6, GateWrites
  <2>3. CASE ~WriteTaken(r)
    <3>1. /\ gate'[r] = "bad" /\ UNCHANGED <<mark, xVars>>
          /\ \A q \in Revs \ {r} : gate'[q] = gate[q]
      BY <1>1, <1>6, <2>3 DEF GateStart, TypeOK
    <3>2. Covers(r)'
      BY <1>5, <2>1, <3>1
    <3>3. Verdict(r)'
      BY <1>1, <2>1, <3>1 DEF Verdict
    <3> QED BY <1>2, <2>1, <3>1, <3>2, <3>3, GateMoves
  <2> QED BY <2>2, <2>3
<1>7. CASE ScanPage(r) \/ ScanLeases(r)
  BY <1>7, ScanKeeps
<1>8. CASE ScanVerdict(r)
  <2>1. /\ gate[r] = "wait" /\ scan[r].lane > 2 /\ scan'[r] = NoScan
        /\ \A q \in Revs \ {r} : scan'[q] = scan[q]
        /\ UNCHANGED <<mark, record, hVars, sVars, fVars, accepted>>
    BY <1>1, <1>8 DEF ScanVerdict, TypeOK, Lanes
  <2>2. ASSUME MayStray(r, Lease)
        PROVE  stray'[r] \in {stray[r], Lease} /\ \A q \in Revs \ {r} : stray'[q] = stray[q]
    BY <1>1, <2>2 DEF MayStray, TypeOK
  <2>3. stray[r] \in {0, Lease, Handoff} /\ (r \in record => FALSE)
    BY <1>1, <2>1 DEF TypeOK, Verdict
  <2>4. CASE ~scan[r].live /\ gate' = [gate EXCEPT ![r] = "handoff"]
             /\ pause' = [pause EXCEPT ![r] = "drained"] /\ MayStray(r, Lease)
    <3>1. accepted[r] = {}
      <4>1. \A e \in accepted[r] : Ahead(scan[r], e)
        BY <1>1, <2>1, <2>4 DEF Covers
      <4>2. \A e \in accepted[r] : LaneNo(e) \in {1, 2} /\ scan[r].lane \in 1 .. 3
        BY <1>1 DEF LaneNo, TypeOK
      <4> QED BY <2>1, <4>1, <4>2 DEF Ahead
    <3>2. /\ gate'[r] = "handoff" /\ pause'[r] = "drained"
          /\ \A q \in Revs \ {r} : gate'[q] = gate[q] /\ pause'[q] = pause[q]
      BY <1>1, <2>4 DEF TypeOK
    <3>3. Covers(r)' /\ Verdict(r)'
      BY <1>5, <2>1, <2>3, <3>1, <3>2 DEF Verdict
    <3> QED BY <1>2, <1>3, <2>1, <2>2, <2>4, <3>2, <3>3, GateMoves
  <2>5. CASE scan[r].live /\ UNCHANGED <<gate, stray, pause, faults>>
    <3>1. ASSUME NEW e \in accepted[r] PROVE Ahead(NoScan, e)'
      <4>1. e \in Nat /\ e > 0
        BY <1>1, DrainAssumption DEF TypeOK
      <4> QED BY <4>1 DEF Ahead, NoScan, LaneNo
    <3>2. Covers(r)'
      BY <1>1, <2>1, <3>1 DEF Covers, NoScan
    <3>3. Verdict(r)'
      BY <1>1, <2>1, <2>5 DEF Verdict
    <3> QED BY <1>2, <1>3, <2>1, <2>5, <3>2, <3>3, GateMoves
  <2>6. CASE gate' = [gate EXCEPT ![r] = "clear"] /\ MayStray(r, Lease) /\ UNCHANGED pause
    <3>1. gate'[r] = "clear" /\ \A q \in Revs \ {r} : gate'[q] = gate[q]
      BY <1>1, <2>6 DEF TypeOK
    <3>2. Covers(r)'
      BY <1>5, <2>1, <3>1
    <3>3. Verdict(r)'
      BY <1>1, <1>4, <2>1, <2>2, <2>3, <2>6, <3>1 DEF Verdict
    <3> QED BY <1>2, <1>3, <2>1, <2>2, <2>6, <3>1, <3>2, <3>3, GateMoves
  <2> QED BY <1>8, <2>4, <2>5, <2>6 DEF ScanVerdict
<1>9. CASE GateHandoff(r)
  <2>1. gate[r] = "handoff" /\ pause[r] # "none" /\ accepted[r] = {} /\ r \notin record
        /\ UNCHANGED <<record, stray, hVars, scan, sVars, fVars, accepted, faults>>
    BY <1>1, <1>9 DEF GateHandoff, Verdict
  <2>2. CASE WriteTaken(r)
    <3> DEFINE p == [pause EXCEPT ![r] = "held"]
    <3>1. /\ mark' = Written(r, Handoff) /\ pause' = Unbroken(p, Written(r, Handoff))
          /\ gate'[r] = "record" /\ \A q \in Revs \ {r} : gate'[q] = gate[q]
      BY <1>1, <1>9, <2>2 DEF GateHandoff, TypeOK
    <3>2. /\ p \in [Revs -> {"none", "drained", "held", "broken"}] /\ p[r] = "held"
          /\ \A q \in Revs \ {r} : p[q] = pause[q]
      BY <1>1 DEF TypeOK
    <3> HIDE DEF p
    <3>3. \A q \in Revs :
             /\ pause'[q] = p[q] \/ (p[q] = "held" /\ pause'[q] = "broken")
             /\ pause'[q] = "held" <=>
                   p[q] = "held" /\ \A k \in MarkerKeys(q) : mark'[k].rev = q
      BY <3>1, <3>2, UnbrokenPause
    <3>4. \A q \in Revs \ {r} : Follows(q)
      BY <3>2, <3>3 DEF Follows
    <3>5. pause'[r] = "held"
      <4>1. \A k \in MarkerKeys(r) : mark'[k].rev = r
        BY <1>1, <3>1, WrittenKeys, Constants
      <4> QED BY <3>2, <3>3, <4>1
    <3>6. Covers(r)'
      BY <1>5, <2>1, <3>1
    <3>7. Verdict(r)' /\ Broken(r)'
      BY <1>1, <2>1, <3>1, <3>5 DEF Verdict, Broken
    <3> QED BY <1>2, <1>3, <2>1, <2>2, <3>1, <3>4, <3>5, <3>6, <3>7, GateWrites
  <2>3. CASE ~WriteTaken(r)
    <3>1. /\ gate'[r] = "bad" /\ UNCHANGED <<mark, pause>>
          /\ \A q \in Revs \ {r} : gate'[q] = gate[q]
      BY <1>1, <1>9, <2>3 DEF GateHandoff, TypeOK
    <3>2. Covers(r)' /\ Verdict(r)'
      BY <1>1, <1>5, <2>1, <3>1 DEF Verdict
    <3> QED BY <1>2, <1>3, <2>1, <3>1, <3>2, GateMoves
  <2> QED BY <2>2, <2>3
<1>10. CASE GateRecord(r)
  <2>1. /\ gate[r] = "record" /\ pause[r] \in {"held", "broken"} /\ accepted[r] = {}
        /\ UNCHANGED <<mark, stray, hVars, scan, sVars, fVars, xVars>>
        /\ record' \in {record, record \cup {r}}
    BY <1>1, <1>10 DEF GateRecord, Verdict
  <2>2. /\ gate'[r] \in {"ok", "clear"} /\ \A q \in Revs \ {r} : gate'[q] = gate[q]
    BY <1>1, <1>10 DEF GateRecord, TypeOK
  <2>3. Covers(r)' /\ Verdict(r)'
    BY <1>1, <1>5, <2>1, <2>2 DEF Verdict
  <2> QED BY <1>2, <1>3, <2>1, <2>2, <2>3, GateMoves
<1>11. CASE GateClear(r)
  <2>1. /\ gate[r] = "clear" /\ gate'[r] = "bad" /\ \A q \in Revs \ {r} : gate'[q] = gate[q]
        /\ SetMark(Cleared(r)) /\ mark' = Cleared(r)
        /\ UNCHANGED <<record, stray, hVars, scan, sVars, fVars, accepted, faults>>
    BY <1>1, <1>11 DEF GateClear, SetMark, TypeOK
  <2>2. \A q \in Revs : Follows(q)
    BY <1>1, <2>1, FollowsMark
  <2>3. StepOf(r) /\ Ordered(r)
    BY <2>1, <2>2 DEF StepOf, Touches, Apart, Ordered
  <2>4. Pair(r)' /\ \A k \in Keys : mark'[k].rev = r => mark'[k] = mark[k]
    BY <2>1, OwnKeys, Constants
  <2>5. pause[r] = "none" <=> pause'[r] = "none"
    BY <2>2 DEF Follows
  <2>6. Fresh(r)' /\ Verdict(r)'
    BY <1>1, <1>3, <2>1, <2>5 DEF Fresh, Verdict
  <2>7. Covers(r)'
    BY <1>5, <2>1
  <2>8. Hooked(r)'
    BY <1>1, <2>1, <2>5 DEF Hooked, Live
  <2>9. Held(r)' /\ Broken(r)' /\ Trusted(r)'
    BY <2>1, <2>2 DEF Held, Follows, MarkerKeys, Broken, Trusted
  <2>10. Bounded(r)'
    <3>1. Limit(r)' = Limit(r)
      BY <2>1, <2>5 DEF Limit
    <3> QED BY <1>1, <2>4, <3>1 DEF Bounded
  <2> QED BY <1>2, <2>3, <2>4, <2>6, <2>7, <2>8, <2>9, <2>10, StepCloses DEF RevInv
<1>12. CASE GateHeartbeat(r)
  <2>1. gate[r] = "wait" /\ r \notin record
        /\ UNCHANGED <<record, stray, hVars, scan, sVars, fVars, accepted, faults>>
    BY <1>1, <1>12 DEF GateHeartbeat, Verdict
  <2>2. CASE WriteTaken(r)
    <3>1. SetMark(Written(r, Lease)) /\ mark' = Written(r, Lease) /\ gate' = gate
      BY <1>12, <2>2 DEF GateHeartbeat, SetMark
    <3>2. \A q \in Revs : Follows(q)
      BY <1>1, <3>1, FollowsMark
    <3>3. pause[r] = "none" <=> pause'[r] = "none"
      BY <3>2 DEF Follows
    <3>4. Covers(r)'
      BY <1>1, <2>1, <3>1 DEF Covers, Ahead, LaneNo
    <3>5. Verdict(r)' /\ Broken(r)'
      BY <1>1, <2>1, <3>1, <3>3 DEF Verdict, Broken
    <3> QED BY <1>2, <1>3, <2>1, <2>2, <3>1, <3>2, <3>3, <3>4, <3>5, GateWrites
  <2>3. CASE ~WriteTaken(r)
    <3>1. /\ gate'[r] = "bad" /\ UNCHANGED <<mark, pause>>
          /\ \A q \in Revs \ {r} : gate'[q] = gate[q]
      BY <1>1, <1>12, <2>3 DEF GateHeartbeat, TypeOK
    <3>2. Covers(r)' /\ Verdict(r)'
      BY <1>1, <1>5, <2>1, <3>1 DEF Verdict
    <3> QED BY <1>2, <1>3, <2>1, <3>1, <3>2, GateMoves
  <2> QED BY <2>2, <2>3
<1>13. CASE GateInterrupted(r)
  <2>1. /\ gate[r] \in {"wait", "handoff"} /\ gate'[r] = "clear" /\ scan'[r] = NoScan
        /\ \A q \in Revs \ {r} :
              gate'[q] = gate[q] /\ scan'[q] = scan[q] /\ stray'[q] = stray[q]
        /\ stray'[r] = stray[r] \/ (gate[r] = "wait" /\ stray'[r] = Lease)
              \/ (gate[r] = "handoff" /\ stray'[r] = Handoff)
        /\ UNCHANGED <<mark, record, hVars, sVars, fVars, xVars>>
    BY <1>1, <1>13 DEF GateInterrupted, TypeOK
  <2>2. Covers(r)'
    BY <1>5, <2>1
  <2>3. Verdict(r)'
    BY <1>1, <1>4, <2>1 DEF Verdict
  <2> QED BY <1>2, <1>3, <2>1, <2>2, <2>3, GateMoves
<1>14. CASE GateKilled(r)
  <2>1. /\ gate[r] \in {"wait", "handoff", "record", "clear"}
        /\ gate'[r] = "bad" /\ scan'[r] = NoScan
        /\ \A q \in Revs \ {r} : gate'[q] = gate[q] /\ scan'[q] = scan[q]
        /\ UNCHANGED <<mVars, hVars, sVars, fVars, xVars>>
    BY <1>1, <1>14 DEF GateKilled, TypeOK
  <2>2. Covers(r)'
    BY <1>5, <2>1
  <2>3. Verdict(r)'
    BY <1>1, <2>1 DEF Verdict
  <2> QED BY <1>2, <1>3, <2>1, <2>2, <2>3, GateMoves
<1>15. CASE StrayWrite(r)
  <2>1. /\ stray[r] # 0 /\ stray'[r] = 0 /\ \A q \in Revs \ {r} : stray'[q] = stray[q]
        /\ stray[r] \in {Lease, Handoff} /\ gate[r] # "none"
        /\ UNCHANGED <<record, hVars, gVars, sVars, fVars, accepted, faults>>
    BY <1>1, <1>15 DEF StrayWrite, TypeOK, Fresh
  <2>2. CASE WriteTaken(r) /\ SetMark(Written(r, stray[r]))
    <3>1. mark' = Written(r, stray[r])
      BY <2>2 DEF SetMark
    <3>2. \A q \in Revs : Follows(q)
      BY <1>1, <2>2, FollowsMark
    <3>3. \A k \in MarkerKeys(r) : mark'[k].rev = r
      BY <1>1, <2>1, <3>1, WrittenKeys, Constants
    <3>4. pause'[r] = pause[r]
      BY <3>2, <3>3 DEF Follows
    <3>5. Covers(r)'
      BY <1>1, <2>1 DEF Covers, Ahead, LaneNo
    <3>6. Verdict(r)'
      BY <1>1, <1>4, <2>1, <3>4 DEF Verdict
    <3>7. Broken(r)'
      BY <1>1, <2>1, <3>4 DEF Broken, Sole
    <3>8. stray[r] = Lease \/ pause'[r] # "none"
      <4>1. stray[r] <= Lease \/ pause[r] # "none"
        BY <1>1 DEF Verdict
      <4> QED BY <1>4, <2>1, <3>4, <4>1, Constants
    <3> QED BY <1>2, <1>3, <2>1, <2>2, <3>1, <3>2, <3>4, <3>5, <3>6, <3>7, <3>8, GateWrites
  <2>3. CASE UNCHANGED <<mark, pause>>
    <3>1. Fresh(r)' /\ Covers(r)' /\ Verdict(r)' /\ Hooked(r)'
      BY <1>1, <1>4, <2>1, <2>3 DEF Fresh, Covers, Ahead, LaneNo, Verdict, Hooked, Live
    <3>2. StepOf(r) /\ Ordered(r)
      <4>1. \A q \in Revs : Follows(q)
        BY <2>3, FollowsStill
      <4> QED BY <2>1, <2>3, <4>1 DEF StepOf, Touches, Apart, Ordered
    <3>3. Pair(r)' /\ Held(r)' /\ Bounded(r)'
      BY <2>1, <2>3, KeysIdle
    <3>4. Broken(r)' /\ Trusted(r)'
      <4>1. Trusted(r)
        BY DEF IInv, RevInv
      <4> QED BY <1>1, <2>1, <2>3, <4>1 DEF Broken, Trusted, Sole, Live, Valid
    <3> QED BY <1>2, <3>1, <3>2, <3>3, <3>4, StepCloses DEF RevInv
  <2> QED BY <1>15, <2>2, <2>3 DEF StrayWrite
<1> QED BY <1>6, <1>7, <1>8, <1>9, <1>10, <1>11, <1>12, <1>13, <1>14, <1>15 DEF Gate

-----------------------------------------------------------------------------
(* The migration.                                                          *)

(* The process moves on or ends; the keys and the gate stay.               *)
LEMMA MigMoves ==
    ASSUME IInv, TypeOK', NEW r \in Revs, Live(r),
           UNCHANGED <<mVars, hVars, gVars, tries, fVars, xVars>>,
           \A q \in Revs \ {r} :
              mig'[q] = mig[q] /\ authority'[q] = authority[q] /\ call'[q] = call[q],
           Trusted(r)'
    PROVE  IInv'
<1> USE DEF mVars, hVars, gVars, fVars, xVars
<1>1. TypeOK /\ Fresh(r) /\ Covers(r) /\ Verdict(r) /\ Hooked(r) /\ Broken(r)
  BY DEF IInv, RevInv
<1>2. StepOf(r) /\ Ordered(r)
  <2>1. \A q \in Revs : Follows(q)
    BY FollowsStill
  <2> QED BY <2>1 DEF StepOf, Touches, Apart, Ordered
<1>3. Fresh(r)' /\ Covers(r)' /\ Verdict(r)'
  BY <1>1 DEF Fresh, Covers, Ahead, LaneNo, Verdict
<1>4. Hooked(r)'
  <2>1. helm[r] \in {"migrate", "failed"} /\ tries[r] > 0
    BY <1>1 DEF Hooked
  <2> QED BY <1>1, <2>1 DEF Hooked, Live, Holding, Rolled
<1>5. Pair(r)' /\ Held(r)' /\ Bounded(r)'
  BY KeysIdle
<1>6. Broken(r)'
  BY <1>1 DEF Broken, Sole
<1> QED BY <1>2, <1>3, <1>4, <1>5, <1>6, StepCloses DEF RevInv

LEMMA MigToKeeps ==
    ASSUME IInv, TypeOK', NEW r \in Revs, Live(r), NEW pc, MigTo(r, pc)
    PROVE  IInv'
<1> USE DEF mVars, hVars, gVars, fVars, xVars
<1>1. TypeOK /\ Trusted(r)
  BY DEF IInv, RevInv
<1>2. /\ UNCHANGED <<mVars, hVars, gVars, tries, fVars, xVars>> /\ mig'[r] = pc
      /\ \A q \in Revs \ {r} :
            mig'[q] = mig[q] /\ authority'[q] = authority[q] /\ call'[q] = call[q]
  BY <1>1 DEF MigTo, TypeOK
<1>3. Trusted(r)'
  <2>1. CASE pc \in {"ok", "bad"}
    BY <1>2, <2>1 DEF Trusted, Live
  <2>2. CASE pc \notin {"ok", "bad"}
    <3>1. UNCHANGED <<authority, call>>
      BY <2>2 DEF MigTo
    <3>2. UNCHANGED <<gate, mark, pause>>
      BY <1>2
    <3> QED BY <1>1, <3>1, <3>2 DEF Trusted, Valid, Sole
  <2> QED BY <2>1, <2>2
<1> QED BY <1>2, <1>3, MigMoves

LEMMA MigrationKeeps ==
    ASSUME IInv, NEW r \in Revs, Migration(r) \/ MigReplyLost(r) \/ MigKilled(r)
    PROVE  IInv'
<1>1. /\ TypeOK /\ Fresh(r) /\ Covers(r) /\ Verdict(r) /\ Hooked(r)
      /\ Held(r) /\ Broken(r) /\ Trusted(r) /\ Bounded(r)
  BY DEF IInv, RevInv
<1>2. TypeOK'
  BY <1>1, MigrationTypes
<1>3. authority[r] \in Authority /\ call[r] \in Renewal
  BY <1>1, Typed DEF AllTyped
<1>4. authority[r].left \in Nat /\ call[r].age \in 0 .. MaxReply /\ call[r].age \in Nat
  BY <1>3, Constants DEF Authority, Renewal
<1>5. mark["scoped"].ttl \in Nat
  BY <1>1, MarkFields DEF Keys
<1> USE DEF mVars, hVars, gVars, fVars, xVars
<1>6. CASE MigRenew(r)
  <2>1. /\ Live(r) /\ ~authority[r].lost /\ call[r] = NoCall
        /\ UNCHANGED <<record, stray, hVars, gVars, mig, authority, tries, fVars,
                       accepted, faults>>
        /\ \A q \in Revs \ {r} : call'[q] = call[q]
    BY <1>1, <1>6 DEF MigRenew, TypeOK
  <2>2. CASE RenewResult(r) = "renewed"
    <3>1. mark["scoped"].rev = r
      BY <2>2, Constants DEF RenewResult
    <3>2. /\ SetMark(Renewed(r, Handoff)) /\ mark' = Renewed(r, Handoff)
          /\ call'[r] = [result |-> "renewed", age |-> 0]
      BY <1>1, <1>6, <2>2 DEF MigRenew, TypeOK, SetMark
    <3>3. \A q \in Revs : Follows(q)
      BY <1>1, <3>2, FollowsMark
    <3>4. /\ gate[r] \in {"ok", "clear", "bad"} /\ stray[r] = 0 /\ pause[r] # "none"
          /\ helm[r] \in {"migrate", "failed"} /\ tries[r] > 0
      BY <1>1, <2>1 DEF Hooked
    <3>5. StepOf(r) /\ Ordered(r)
      <4>1. Touches(r)
        BY <2>1, <3>1, <3>2, <3>4, Constants DEF Touches
      <4> QED BY <2>1, <3>3, <4>1 DEF StepOf, Apart, Ordered
    <3>6. /\ Pair(r)'
          /\ \A k \in Keys : /\ mark'[k].rev = mark[k].rev
                             /\ mark'[k].ttl \in {mark[k].ttl, Handoff}
                             /\ mark'[k].ttl >= mark[k].ttl
          /\ mark'["scoped"].ttl >= Handoff
      BY <2>1, <3>1, <3>2, OwnKeys, Constants
    <3>7. pause'[r] = pause[r]
      <4>1. MarkerKeys(r) \subseteq Keys
        BY DEF MarkerKeys, Keys
      <4> QED BY <1>1, <3>3, <3>6, <4>1 DEF Follows, Held
    <3>8. Fresh(r)' /\ Covers(r)' /\ Verdict(r)'
      BY <1>1, <2>1, <3>4, <3>6, <3>7 DEF Fresh, Covers, Ahead, LaneNo, Verdict
    <3>9. Hooked(r)'
      BY <1>1, <2>1, <3>7 DEF Hooked, Live
    <3>10. Held(r)'
      BY <2>1, <3>3 DEF Held, Follows, MarkerKeys
    <3>11. Broken(r)'
      BY <1>1, <2>1, <3>6, <3>7 DEF Broken, Sole, Keys
    <3>12. Trusted(r)'
      <4> SUFFICES ASSUME gate[r] = "ok", Sole(r)
                   PROVE  /\ Valid(r) => /\ pause[r] = "held"
                                         /\ mark'["scoped"].ttl > authority[r].left
                          /\ pause[r] = "held" /\ mark'["scoped"].ttl + 0 >= Handoff
        BY <2>1, <3>2, <3>7 DEF Trusted, Valid, Sole
      <4>1. pause[r] = "held"
        BY <1>1, <3>1 DEF Verdict, Broken
      <4>2. mark'["scoped"].ttl \in Nat /\ mark'["scoped"].ttl >= mark["scoped"].ttl
        BY <1>2, <3>6, MarkFields, <1>5, Constants DEF Keys
      <4>3. Valid(r) => mark["scoped"].ttl > authority[r].left
        BY <1>1, <2>1 DEF Trusted
      <4> QED BY <1>4, <1>5, <3>6, <4>1, <4>2, <4>3
    <3>13. Bounded(r)'
      <4>1. /\ Limit(r) <= Limit(r)' /\ Limit(r)' \in Nat /\ Limit(r) \in Nat
            /\ Handoff <= Limit(r)'
        BY <1>1, <2>1, <3>4, <3>7, LimitGrows
      <4> QED BY <1>1, <3>6, <4>1, MarkFields, Constants DEF Bounded
    <3> QED BY <1>2, <3>5, <3>6, <3>8, <3>9, <3>10, <3>11, <3>12, <3>13, StepCloses DEF RevInv
  <2>3. CASE RenewResult(r) # "renewed"
    <3>1. UNCHANGED <<mark, pause>> /\ call'[r].result = "refused"
      BY <1>1, <1>6, <2>3 DEF MigRenew, TypeOK
    <3>2. Trusted(r)'
      BY <1>1, <2>1, <3>1 DEF Trusted, Valid, Live, Sole
    <3> QED BY <1>2, <2>1, <3>1, <3>2, MigMoves
  <2> QED BY <2>2, <2>3
<1>7. CASE MigReply(r)
  <2>1. /\ Live(r) /\ call'[r] = NoCall
        /\ UNCHANGED <<mVars, hVars, gVars, mig, tries, fVars, xVars, faults>>
        /\ \A q \in Revs \ {r} : call'[q] = call[q] /\ authority'[q] = authority[q]
        /\ authority'[r] =
              IF call[r].result = "renewed" /\ ~authority[r].lost /\ authority[r].left > 0
              THEN [left |-> Deadline, confirmed |-> TRUE, lost |-> FALSE]
              ELSE [authority[r] EXCEPT !.lost = TRUE]
    BY <1>1, <1>7 DEF MigReply, TypeOK
  <2>2. Trusted(r)'
    <3>1. CASE call[r].result = "renewed" /\ ~authority[r].lost /\ authority[r].left > 0
      <4>1. authority'[r].left = Handoff - Interval
        BY <2>1, <3>1, Constants
      <4>2. Live(r) /\ gate[r] = "ok" /\ Sole(r) =>
               pause[r] = "held" /\ mark["scoped"].ttl + call[r].age >= Handoff
        BY <1>1, <3>1 DEF Trusted
      <4>3. mark["scoped"].ttl + call[r].age >= Handoff =>
               mark["scoped"].ttl > Handoff - Interval
        BY <1>4, <1>5, Constants
      <4> QED BY <2>1, <4>1, <4>2, <4>3 DEF Trusted, Live, Sole, NoCall
    <3>2. CASE ~(call[r].result = "renewed" /\ ~authority[r].lost /\ authority[r].left > 0)
      <4>1. authority'[r].lost = TRUE
        BY <1>3, <2>1, <3>2 DEF Authority
      <4> QED BY <2>1, <4>1 DEF Trusted, Valid, NoCall
    <3> QED BY <3>1, <3>2
  <2> QED BY <1>2, <2>1, <2>2, MigMoves
<1>8. CASE MigReplyLost(r)
  <2>1. /\ Live(r) /\ call'[r] = NoCall
        /\ UNCHANGED <<mVars, hVars, gVars, mig, authority, tries, fVars, xVars>>
        /\ \A q \in Revs \ {r} : call'[q] = call[q]
    BY <1>1, <1>8 DEF MigReplyLost, TypeOK
  <2>2. Trusted(r)'
    BY <1>1, <2>1 DEF Trusted, Valid, Live, Sole, NoCall
  <2> QED BY <1>2, <2>1, <2>2, MigMoves
<1>9. CASE MigConfirmed(r) \/ MigApply(r) \/ MigNoApply(r) \/ MigDone(r) \/ MigKilled(r)
  <2>1. Live(r)
    BY <1>9 DEF MigConfirmed, MigApply, MigNoApply, MigDone, MigKilled, Live
  <2>2. PICK pc \in MigStates : MigTo(r, pc)
    BY <1>9 DEF MigConfirmed, MigApply, MigNoApply, MigDone, MigKilled, IfValid, MigStates
  <2> QED BY <1>2, <2>1, <2>2, MigToKeeps
<1> QED BY <1>6, <1>7, <1>8, <1>9 DEF Migration

-----------------------------------------------------------------------------
(* The fleet and the clock.                                                *)

LEMMA FleetKeeps ==
    ASSUME IInv,
           \/ \E l \in Loops : ClaimCheck(l) \/ Claim(l)
           \/ \E e \in Entries : AcquireLease(e) \/ Settle(e) \/ OwnerLost(e)
    PROVE  IInv'
<1> USE DEF mVars, hVars, gVars, sVars, xVars
<1>1. TypeOK /\ Serial
  BY DEF IInv
<1>2. TypeOK'
  BY <1>1, FleetTypes
<1>3. UNCHANGED <<mVars, hVars, gVars, sVars, pause>>
  BY DEF ClaimCheck, Claim, AcquireLease, Settle, OwnerLost, Unhold
<1>4. ASSUME NEW r \in Revs, NEW e \in accepted'[r]
      PROVE  e \in accepted[r] /\ (entry[e] = "leased" => entry'[e] = "leased")
  <2>1. \A x \in accepted[r] : x \in Entries
    BY <1>1 DEF TypeOK
  <2>2. CASE \E l \in Loops : ClaimCheck(l) \/ Claim(l)
    BY <1>1, <1>4, <2>1, <2>2 DEF ClaimCheck, Claim, Waiting, TypeOK
  <2>3. ASSUME NEW x \in Entries, AcquireLease(x)
        PROVE  e \in accepted[r] /\ (entry[e] = "leased" => entry'[e] = "leased")
    BY <1>1, <1>4, <2>1, <2>3 DEF AcquireLease, TypeOK
  <2>4. ASSUME NEW x \in Entries, NEW st, Unhold(x, st)
        PROVE  e \in accepted[r] /\ (entry[e] = "leased" => entry'[e] = "leased")
    BY <1>1, <1>4, <2>1, <2>4 DEF Unhold, TypeOK
  <2> QED BY <2>2, <2>3, <2>4 DEF Settle, OwnerLost
<1>5. ASSUME NEW r \in Revs PROVE RevInv(r)'
  <2>1. /\ Fresh(r) /\ Covers(r) /\ Verdict(r) /\ Hooked(r)
        /\ Pair(r) /\ Held(r) /\ Broken(r) /\ Trusted(r) /\ Bounded(r)
    BY DEF IInv, RevInv
  <2>2. Fresh(r)' /\ Hooked(r)' /\ Broken(r)' /\ Trusted(r)'
    BY <1>3, <2>1 DEF Fresh, Hooked, Live, Broken, Trusted, Valid, Sole
  <2>3. Pair(r)' /\ Held(r)' /\ Bounded(r)'
    BY <1>3, KeysIdle
  <2>4. Covers(r)'
    BY <1>3, <1>4, <2>1 DEF Covers, Ahead, LaneNo
  <2>5. Verdict(r)'
    BY <1>3, <1>4, <2>1 DEF Verdict
  <2> QED BY <2>2, <2>3, <2>4, <2>5 DEF RevInv
<1>6. Serial'
  BY <1>1, <1>3 DEF Serial
<1> QED BY <1>2, <1>5, <1>6 DEF IInv

LEMMA TickKeeps ==
    ASSUME IInv, Tick
    PROVE  IInv'
<1> USE DEF mVars, hVars, gVars, fVars
<1>1. TypeOK /\ Serial
  BY DEF IInv
<1>2. TypeOK'
  BY <1>1, TickTypes
<1>3. UNCHANGED <<record, stray, hVars, gVars, mig, tries, fVars, accepted, faults>>
  BY DEF Tick
<1>4. \A r \in Revs : Follows(r)
  BY <1>1, FollowsMark DEF Tick
<1>5. \A k \in Keys : /\ mark'[k] = Aged(mark[k])
                      /\ mark[k].ttl <= 1 => mark'[k].rev = 0
                      /\ mark[k].ttl > 1 => /\ mark'[k].rev = mark[k].rev
                                            /\ mark'[k].ttl = mark[k].ttl - 1
                      /\ mark[k].ttl \in Nat
  <2>1. \A k \in Keys : mark'[k] = Aged(mark[k])
    BY DEF Tick, SetMark
  <2> QED BY <1>1, <2>1, AgedKeys, MarkFields
<1>6. ASSUME NEW r \in Revs PROVE RevInv(r)'
  <2>1. /\ Fresh(r) /\ Covers(r) /\ Verdict(r) /\ Hooked(r)
        /\ Pair(r) /\ Held(r) /\ Broken(r) /\ Trusted(r) /\ Bounded(r)
    BY DEF IInv, RevInv
  <2>2. stray[r] = 0 /\ r # 0 /\ "scoped" \in Keys /\ "legacy" \in Keys
        /\ MarkerKeys(r)' = MarkerKeys(r)
    BY <1>3, Constants DEF Tick, Keys, MarkerKeys
  <2>3. (pause'[r] = "none" <=> pause[r] = "none")
        /\ (pause'[r] \in {"held", "broken"} <=> pause[r] \in {"held", "broken"})
    BY <1>4 DEF Follows
  <2>4. \A k \in Keys : mark'[k].rev = r => mark[k].rev = r /\ mark[k].ttl > 1
    BY <1>5, <2>2
  <2>5. Fresh(r)' /\ Covers(r)' /\ Verdict(r)' /\ Hooked(r)'
    BY <1>3, <2>1, <2>3, <2>4 DEF Fresh, Covers, Ahead, LaneNo, Verdict, Hooked, Live
  <2>6. Pair(r)'
    BY <1>3, <1>5, <2>1, <2>2, <2>4 DEF Pair
  <2>7. Held(r)'
    BY <1>4, <2>2 DEF Held, Follows
  <2>8. pause[r] = "held" /\ mark["scoped"].ttl > 1 => pause'[r] = "held"
    <3> SUFFICES ASSUME pause[r] = "held", mark["scoped"].ttl > 1 PROVE pause'[r] = "held"
      OBVIOUS
    <3>1. \A k \in MarkerKeys(r) : mark[k].rev = r /\ k \in Keys
      BY <2>1 DEF Held, MarkerKeys, Keys
    <3>2. \A k \in MarkerKeys(r) : mark[k] = mark["scoped"]
      BY <2>1, <3>1 DEF Pair, MarkerKeys, Keys
    <3>3. \A k \in MarkerKeys(r) : mark'[k].rev = r
      BY <1>5, <3>1, <3>2
    <3> QED BY <1>4, <3>3 DEF Follows
  <2>9. Broken(r)'
    BY <1>3, <1>4, <2>1, <2>2, <2>4, <2>8 DEF Broken, Sole, Follows
  <2>10. Trusted(r)'
    <3> SUFFICES ASSUME Live(r), gate[r] = "ok", Sole(r)
                 PROVE  /\ Valid(r)' => /\ pause'[r] = "held"
                                        /\ mark'["scoped"].ttl > authority'[r].left
                        /\ call'[r].result = "renewed" =>
                              /\ pause'[r] = "held"
                              /\ mark'["scoped"].ttl + call'[r].age >= Handoff
      BY <1>3 DEF Trusted, Live, Sole
    <3>1. authority[r] \in Authority /\ call[r] \in Renewal
      BY <1>1, Typed DEF AllTyped
    <3>2. authority[r].left \in Nat /\ call[r].age \in Nat
      BY <3>1, Constants DEF Authority, Renewal
    <3>3. ASSUME Valid(r)'
          PROVE  pause'[r] = "held" /\ mark'["scoped"].ttl > authority'[r].left
      <4>1. authority'[r] = [authority[r] EXCEPT !.left = Less(@),
                                                 !.lost = @ \/ authority[r].left <= 1]
        BY DEF Tick
      <4>2. /\ authority'[r].left = Less(authority[r].left)
            /\ authority'[r].lost = (authority[r].lost \/ authority[r].left <= 1)
            /\ authority'[r].confirmed = authority[r].confirmed
        BY <3>1, <4>1 DEF Authority
      <4>3. ~authority[r].lost /\ ~(authority[r].left <= 1) /\ authority[r].confirmed
        BY <3>3, <4>2 DEF Valid
      <4>4. authority[r].left > 1 /\ authority'[r].left = authority[r].left - 1
        BY <3>2, <4>2, <4>3 DEF Less
      <4>5. Valid(r)
        BY <3>2, <4>3, <4>4 DEF Valid
      <4>6. pause[r] = "held" /\ mark["scoped"].ttl > authority[r].left
        BY <2>1, <4>5 DEF Trusted
      <4>7. mark["scoped"].ttl > 1 /\ mark'["scoped"].ttl = mark["scoped"].ttl - 1
        BY <1>5, <2>2, <3>2, <4>4, <4>6
      <4> QED BY <1>5, <2>2, <2>8, <3>2, <4>4, <4>6, <4>7
    <3>4. ASSUME call'[r].result = "renewed"
          PROVE  /\ pause'[r] = "held"
                 /\ mark'["scoped"].ttl + call'[r].age >= Handoff
      <4>1. call[r] # NoCall
        BY <3>4 DEF Tick, NoCall
      <4>2. call'[r] = [call[r] EXCEPT !.age = @ + 1] /\ call[r].age < MaxReply
        BY <4>1 DEF Tick
      <4>3. call'[r].age = call[r].age + 1 /\ call[r].result = "renewed"
        BY <3>1, <3>4, <4>2 DEF Renewal
      <4>4. pause[r] = "held" /\ mark["scoped"].ttl + call[r].age >= Handoff
        BY <2>1, <4>3 DEF Trusted
      <4>5. mark["scoped"].ttl > 1
        BY <1>5, <2>2, <3>2, <4>2, <4>4, Constants
      <4>6. mark'["scoped"].ttl = mark["scoped"].ttl - 1
        BY <1>5, <2>2, <4>5
      <4> QED BY <1>5, <2>2, <2>8, <3>2, <4>3, <4>4, <4>5, <4>6, Constants
    <3> QED BY <3>3, <3>4
  <2>11. Bounded(r)'
    <3>1. Limit(r)' = Limit(r) /\ Limit(r) \in Nat
      BY <1>3, <2>3, Constants DEF Limit
    <3> QED BY <1>5, <2>1, <2>4, <3>1 DEF Bounded
  <2> QED BY <2>5, <2>6, <2>7, <2>9, <2>10, <2>11 DEF RevInv
<1>7. Serial'
  BY <1>1, <1>3 DEF Serial
<1> QED BY <1>2, <1>6, <1>7 DEF IInv

-----------------------------------------------------------------------------
(* The invariant and what follows from it.                                 *)

LEMMA InvInit ==
    ASSUME Init
    PROVE  IInv
<1>1. TypeOK
  <2>1. mark \in [Keys -> Mark]
    <3>1. Absent \in Mark /\ [rev |-> Bare, ttl |-> Lease] \in Mark
      BY Constants DEF Absent, Mark
    <3> QED BY <3>1 DEF Init
  <2>2. /\ helm \in [Revs -> Stages] /\ hook \in [Revs -> HookStates]
        /\ bridge \in [Revs -> BOOLEAN]
        /\ gate \in [Revs -> GateStates] /\ identified \in BOOLEAN
        /\ mig \in [Revs -> MigStates] /\ pause \in [Revs -> PauseStates]
    BY DEF Init, Stages, HookStates, GateStates, MigStates, PauseStates
  <2>3. /\ scan \in [Revs -> Scan] /\ authority \in [Revs -> Authority]
        /\ call \in [Revs -> Renewal] /\ tries \in [Revs -> 0 .. MaxTry]
        /\ faults \in 0 .. MaxFault
    BY Literals DEF Init
  <2>4. /\ record \subseteq Revs /\ stray \in [Revs -> {0, Lease, Handoff}]
        /\ loop \in [Loops -> {"check", "claim"}] /\ old \subseteq Loops
        /\ entry \in [Entries -> {"unread", "taken", "leased", "orphan", "settled"}]
        /\ accepted \in [Revs -> SUBSET Entries]
    BY DEF Init
  <2> QED BY <2>1, <2>2, <2>3, <2>4, Typed DEF AllTyped
<1>2. Serial
  BY DEF Init, Serial
<1>3. ASSUME NEW r \in Revs PROVE RevInv(r)
  <2>1. /\ helm[r] = "none" /\ hook[r] = "none" /\ gate[r] = "none" /\ scan[r] = NoScan /\ stray[r] = 0
        /\ record = {} /\ pause[r] = "none" /\ tries[r] = 0 /\ accepted[r] = {}
        /\ mig[r] = "none"
    BY <1>3 DEF Init
  <2>2. \A k \in Keys : mark[k].rev # r
    <3>1. \A k \in Keys : mark[k].rev \in {0, Bare}
      BY DEF Init, Absent
    <3> QED BY <3>1, Constants
  <2>3. Fresh(r)
    BY <2>1, <2>2 DEF Fresh
  <2>4. Covers(r) /\ Verdict(r)
    BY <2>1, Constants DEF Covers, Verdict, NoScan
  <2>5. Hooked(r)
    BY <2>1 DEF Hooked, Live, Attested, Holding, PastAttest, Rolled
  <2>6. Pair(r) /\ Held(r) /\ Broken(r) /\ Bounded(r)
    BY <2>1, <2>2 DEF Pair, Held, Broken, Bounded, Keys
  <2>7. Trusted(r)
    BY <2>1 DEF Trusted, Live
  <2> QED BY <2>3, <2>4, <2>5, <2>6, <2>7 DEF RevInv
<1> QED BY <1>1, <1>2, <1>3 DEF IInv

LEMMA InvStutter ==
    ASSUME IInv, UNCHANGED vars
    PROVE  IInv'
<1> USE DEF vars, mVars, hVars, gVars, sVars, fVars, xVars
<1>1. TypeOK'
  BY DEF IInv, TypeOK
<1>2. Serial'
  BY DEF IInv, Serial
<1>3. ASSUME NEW r \in Revs PROVE RevInv(r)'
  <2>1. /\ Fresh(r) /\ Covers(r) /\ Verdict(r) /\ Hooked(r)
        /\ Pair(r) /\ Held(r) /\ Broken(r) /\ Trusted(r) /\ Bounded(r)
    BY DEF IInv, RevInv
  <2>2. Fresh(r)' /\ Covers(r)' /\ Verdict(r)'
    BY <2>1 DEF Fresh, Covers, Ahead, LaneNo, Verdict
  <2>3. Hooked(r)' /\ Broken(r)' /\ Trusted(r)'
    BY <2>1 DEF Hooked, Live, Broken, Trusted, Valid, Sole
  <2>4. Pair(r)' /\ Held(r)' /\ Bounded(r)'
    BY KeysIdle
  <2> QED BY <2>2, <2>3, <2>4 DEF RevInv
<1> QED BY <1>1, <1>2, <1>3 DEF IInv

LEMMA InvNext ==
    ASSUME IInv, [Next]_vars
    PROVE  IInv'
<1>1. CASE \E r \in Revs : Gate(r) \/ Migration(r) \/ Hooks(r) \/ Trouble(r)
  BY <1>1, GateKeeps, MigrationKeeps, HooksKeep DEF Trouble
<1>2. CASE \/ \E l \in Loops : ClaimCheck(l) \/ Claim(l)
           \/ \E e \in Entries : AcquireLease(e) \/ Settle(e) \/ OwnerLost(e)
  BY <1>2, FleetKeeps
<1>3. CASE Tick
  BY <1>3, TickKeeps
<1>4. CASE UNCHANGED vars
  BY <1>4, InvStutter
<1> QED BY <1>1, <1>2, <1>3, <1>4 DEF Next

(* Which steps move a hook, and which the migration.                       *)
LEMMA Movers ==
    ASSUME Next
    PROVE  /\ hook' = hook \/ \E r \in Revs : Hooks(r)
           /\ \/ mig' = mig
              \/ \E r \in Revs : \/ MigStart(r) \/ MigConfirmed(r) \/ MigApply(r)
                                 \/ MigNoApply(r) \/ MigDone(r) \/ MigKilled(r)
<1> USE DEF hVars, sVars
<1>1. ASSUME NEW r \in Revs, Gate(r) PROVE UNCHANGED <<hook, mig>>
  BY <1>1 DEF Gate, GateStart, ScanPage, ScanLeases, ScanVerdict, GateHandoff, GateRecord,
              GateClear
<1>2. ASSUME NEW r \in Revs,
             GateHeartbeat(r) \/ GateInterrupted(r) \/ GateKilled(r) \/ StrayWrite(r)
      PROVE  UNCHANGED <<hook, mig>>
  BY <1>2 DEF GateHeartbeat, GateInterrupted, GateKilled, StrayWrite
<1>3. ASSUME NEW r \in Revs, MigRenew(r) \/ MigReply(r) \/ MigReplyLost(r)
      PROVE  UNCHANGED <<hook, mig>>
  BY <1>3 DEF MigRenew, MigReply, MigReplyLost
<1>4. ASSUME NEW r \in Revs,
             MigConfirmed(r) \/ MigApply(r) \/ MigNoApply(r) \/ MigDone(r) \/ MigKilled(r)
      PROVE  hook' = hook
  BY <1>4 DEF MigConfirmed, MigApply, MigNoApply, MigDone, MigKilled, MigTo
<1>5. ASSUME NEW r \in Revs, Hooks(r) PROVE mig' = mig \/ MigStart(r)
  <2>1. CASE \/ HelmStart(r) \/ HelmGivesUp(r) \/ DrainJobDeleted(r) \/ DrainJobDone(r)
             \/ AttestRead(r) \/ AttestRenew(r)
    BY <2>1 DEF HelmStart, HelmGivesUp, DrainJobDeleted, DrainJobDone, AttestRead, AttestRenew,
       HookRenew
  <2>2. CASE \/ MigJobDone(r) \/ HoldRenew(r) \/ RollDone(r) \/ ReleaseClear(r)
             \/ ReleaseRecord(r) \/ HookFails(r) \/ HookJobDone(r)
             \/ \E l \in Loops : RollLoop(r, l)
    BY <2>2 DEF MigJobDone, HoldRenew, HookRenew, HookFails, HookJobDone, RollDone,
       ReleaseClear, ReleaseRecord, RollLoop
  <2> QED BY <1>5, <2>1, <2>2 DEF Hooks
<1>6. CASE \/ \E l \in Loops : ClaimCheck(l) \/ Claim(l)
           \/ \E e \in Entries : AcquireLease(e) \/ Settle(e) \/ OwnerLost(e)
  <2>1. UNCHANGED <<hook, mig>>
    BY <1>6 DEF ClaimCheck, Claim, AcquireLease, Settle, OwnerLost, Unhold
  <2> QED BY <2>1
<1>7. CASE Tick
  BY <1>7 DEF Tick
<1>8. ASSUME NEW r \in Revs, Migration(r) \/ Trouble(r)
      PROVE  /\ hook' = hook
             /\ \/ mig' = mig \/ MigConfirmed(r) \/ MigApply(r)
                \/ MigNoApply(r) \/ MigDone(r) \/ MigKilled(r)
  BY <1>2, <1>3, <1>4, <1>8 DEF Migration, Trouble
<1> QED BY <1>1, <1>5, <1>6, <1>7, <1>8 DEF Next

(* Every state of the gate, the hooks, the migration and the fleet          *)
(* satisfies the invariant: what was accepted stays in sight of the scan,   *)
(* and the keys say no more, and last no longer, than the hooks made them.  *)
THEOREM DrainInvariant == Spec => []IInv
<1>1. Init => IInv
  BY InvInit
<1>2. IInv /\ [Next]_vars => IInv'
  BY InvNext
<1> QED BY <1>1, <1>2, PTL DEF Spec

(* The markers, the processes and the leases stay within their types: a key *)
(* is of a revision of the release and never outlives the roll hold, and a  *)
(* scan never goes past the two lanes.                                     *)
THEOREM DrainTypes == Spec => []TypeOK
<1>1. IInv => TypeOK
  BY DEF IInv
<1> QED BY <1>1, DrainInvariant, PTL

(* No upgrade passes its drain, and none is attested, while an entry that   *)
(* was leased when the gate paused the fleet is still held by its owner,    *)
(* for any number of entries and any page size of the scan.                 *)
THEOREM DrainAcceptedSettled == Spec => []AcceptedSettled
<1>1. ASSUME IInv PROVE AcceptedSettled
  <2>1. ASSUME NEW r \in Revs,
               gate[r] \in {"handoff", "record", "ok"} \/ helm[r] \in PastAttest
        PROVE  accepted[r] = {}
    <3>1. Verdict(r) /\ Hooked(r)
      BY <1>1 DEF IInv, RevInv
    <3>2. pause[r] # "none"
      BY <2>1, <3>1 DEF Verdict, Hooked
    <3> QED BY <3>1, <3>2 DEF Verdict
  <2> QED BY <2>1 DEF AcceptedSettled
<1> QED BY <1>1, DrainInvariant, PTL

(* No key outlives what its upgrade has reached: the waiting lease before   *)
(* the verdict, the handoff lease until the hold hook has been executed,    *)
(* and only then the roll hold, although hooks fail, lose their replies and *)
(* go on after Helm gave up on them.                                       *)
THEOREM DrainPauseBounded == Spec => []PauseBounded
<1>1. ASSUME IInv PROVE PauseBounded
  <2>1. \A r \in Revs : Bounded(r)
    BY <1>1 DEF IInv, RevInv
  <2> QED BY <2>1 DEF PauseBounded, Bounded, Limit
<1> QED BY <1>1, DrainInvariant, PTL

(* The hold hook lets the roll through only under the unbroken pause of     *)
(* that revision's drain: the renewal found the scoped key its own, and     *)
(* nothing makes a marker again that was taken away or has expired.        *)
THEOREM DrainRollUnderPause == Spec => RollUnderPause
<1> DEFINE Held1 == \A r \in Revs : hook[r] # "held" /\ hook'[r] = "held" =>
                       pause[r] = "held" \/ gate[r] # "ok"
<1>1. ASSUME IInv, [Next]_vars PROVE [Held1]_vars
  <2> SUFFICES ASSUME NEW r \in Revs, hook[r] # "held", hook'[r] = "held", gate[r] = "ok"
               PROVE  pause[r] = "held"
    OBVIOUS
  <2>1. TypeOK /\ Verdict(r) /\ Broken(r)
    BY <1>1 DEF IInv, RevInv
  <2>2. HoldRenew(r)
    <3> USE DEF hVars
    <3>1. hook' # hook
      OBVIOUS
    <3>2. Next
      BY <1>1, <3>1 DEF vars
    <3>3. PICK q \in Revs : Hooks(q)
      BY <3>1, <3>2, Movers
    <3>4. q = r
      BY <2>1, <3>1, <3>3 DEF Hooks, HelmStart, HelmGivesUp, DrainJobDeleted, DrainJobDone,
         AttestRead, AttestRenew, MigStart, MigJobDone, HoldRenew, HookRenew, HookFails,
         HookJobDone, RollDone, ReleaseClear, ReleaseRecord, RollLoop, GoOn, Refuse, StartHook,
         TypeOK
    <3> QED BY <2>1, <3>1, <3>3, <3>4 DEF Hooks, HelmStart, HelmGivesUp, DrainJobDeleted,
           DrainJobDone, AttestRead, AttestRenew, MigStart, MigJobDone, HookRenew, HookFails,
           HookJobDone, RollDone, ReleaseClear, ReleaseRecord, RollLoop, GoOn, Refuse,
           StartHook, TypeOK
  <2>3. mark["scoped"].rev = r /\ hook[r] \in Holding
    <3>1. RenewResult(r) = "renewed"
      BY <2>1, <2>2 DEF HoldRenew, HookRenew, TypeOK
    <3> QED BY <2>2, <3>1, Constants DEF RenewResult, HoldRenew, Holding
  <2> QED BY <2>1, <2>3 DEF Verdict, Broken
<1>2. IInv /\ [Next]_vars => [Held1]_vars
  BY <1>1
<1>3. RollUnderPause <=> [][Held1]_vars
  BY PTL DEF RollUnderPause
<1> QED BY <1>2, <1>3, DrainInvariant, PTL DEF Spec

(* A migration starts only under the unbroken pause of its own revision,    *)
(* however late its renewals are answered, unless a newer gate has started. *)
THEOREM DrainApplyUnderPause == Spec => ApplyUnderPause
<1> DEFINE Safe == \A r \in Revs : mig[r] # "apply" /\ mig'[r] = "apply" =>
                      \/ pause[r] = "held" \/ gate[r] # "ok"
                      \/ \E q \in Revs : q > r /\ gate[q] # "none"
<1>1. ASSUME IInv, [Next]_vars PROVE [Safe]_vars
  <2> SUFFICES ASSUME NEW r \in Revs, mig[r] # "apply", mig'[r] = "apply", gate[r] = "ok",
                      Sole(r)
               PROVE  pause[r] = "held"
    BY DEF Sole
  <2>1. TypeOK /\ Trusted(r)
    BY <1>1 DEF IInv, RevInv
  <2>2. mig[r] = "probe" /\ Valid(r)
    <3>1. mig' # mig
      OBVIOUS
    <3>2. Next
      BY <1>1, <3>1 DEF vars, sVars
    <3>3. PICK q \in Revs :
             \/ MigStart(q) \/ MigConfirmed(q) \/ MigApply(q) \/ MigNoApply(q)
             \/ MigDone(q) \/ MigKilled(q)
      BY <3>1, <3>2, Movers
    <3>4. q = r
      BY <2>1, <3>3 DEF MigStart, MigConfirmed, MigApply, MigNoApply, MigDone, MigKilled,
         MigTo, TypeOK
    <3> QED BY <2>1, <3>3, <3>4 DEF MigStart, MigConfirmed, MigApply, MigNoApply, MigDone,
         MigKilled, MigTo, IfValid, TypeOK
  <2> QED BY <2>1, <2>2 DEF Trusted, Live
<1>2. IInv /\ [Next]_vars => [Safe]_vars
  BY <1>1
<1>3. ApplyUnderPause <=> [][Safe]_vars
  BY PTL DEF ApplyUnderPause
<1> QED BY <1>2, <1>3, DrainInvariant, PTL DEF Spec

=============================================================================
