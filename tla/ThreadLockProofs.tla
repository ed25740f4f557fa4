-------------------------- MODULE ThreadLockProofs --------------------------
(***************************************************************************)
(* Proofs about ThreadLock for any number of processes and tasks and any   *)
(* durations with Drain < Proof and MaxDelay < LockTTL.                    *)
(*                                                                         *)
(* The key of a task that is inside is safe as long as nobody expects it   *)
(* to be dead: a steal is only ever sent for a token that no task has any  *)
(* more (Retired), because its owner's boot is over, or because a whole    *)
(* proof has passed since its owner was seen without liveness, in which    *)
(* the owner's generation has been torn down.                              *)
(***************************************************************************)
EXTENDS ThreadLock, TLAPS

(* No task has token t, and none will.                                     *)
Retired(t) == \A k \in Tasks : tok[k] # t

(* A task's token is its own.                                              *)
TokenOf(k) ==
    /\ pc[k] = "idle" => tok[k] = NoToken
    /\ pc[k] # "idle" =>
          /\ tok[k] \in Token
          /\ tok[k].nonce <= minted
          /\ k \in Opaque => tok[k].owner = None
          /\ k \notin Opaque => tok[k].owner = Home[k] /\ tok[k].boot = boot[Home[k]]

Tokens ==
    /\ \A k \in Tasks : TokenOf(k)
    /\ \A j, k \in Tasks : tok[j] = tok[k] /\ tok[k] # NoToken => j = k

(* Nonces that anything refers to have been drawn.                         *)
Drawn ==
    /\ key.nonce <= minted
    /\ \A k \in Tasks : seen[k].nonce <= minted
    /\ \A m \in late : m.tok.nonce <= minted /\ m.expect.nonce <= minted

Processes ==
    \A c \in Owners :
        /\ life[c] = "up" => alive[c] > 0
        /\ life[c] = "down" => ~Busy(c)

(* What a would-be thief knows of the value it has read.                   *)
Proven(k) ==
    /\ pc[k] \in {"check", "sleep", "recheck", "steal"} => seen[k] \in Token
    /\ pc[k] \in {"check", "sleep", "recheck"} => seen[k].owner \in Owners
    /\ pc[k] = "sleep" =>
          \/ Retired(seen[k])
          \/ /\ life[seen[k].owner] = "draining"
             /\ drainLeft[seen[k].owner] < proof[k]
    /\ pc[k] \in {"recheck", "steal"} => Retired(seen[k])

(* A call under way.                                                       *)
Harmless(m) ==
    /\ m.tok \in Token
    /\ m.kind = "steal" => m.expect \in Token /\ Retired(m.expect) /\ Retired(m.tok)
    /\ m.kind = "release" => Retired(m.tok)

(* The key of a task that is inside.                                       *)
Secure(k) ==
    pc[k] \in Inside =>
        /\ Since(k) >= 0
        /\ Since(k) < LockTTL => key = tok[k] /\ keyLeft + Since(k) >= LockTTL
        /\ key = tok[k] => alone[k]
        /\ \A m \in late : m.kind = "set" /\ m.tok = tok[k] =>
              key = tok[k] /\ keyLeft + m.age >= LockTTL

IInv ==
    /\ TypeOK /\ Tokens /\ Drawn /\ Processes
    /\ \A k \in Tasks : Proven(k)
    /\ \A m \in late : Harmless(m)
    /\ \A k \in Tasks : Secure(k)

-----------------------------------------------------------------------------
(* Types.                                                                  *)

LEMMA NoTokenIsNone ==
    /\ NoToken \notin Token /\ NoToken \in Value /\ NoToken.nonce = 0
    /\ \A t \in Value : t # NoToken => t \in Token
    /\ \A t \in Token : t \in Value /\ t.nonce \in Nat /\ t.owner \in Owners \cup {None}
    /\ \A t \in Value : t.nonce \in Nat
  BY LockAssumption DEF NoToken, Token, Value

LEMMA DecTypes ==
    /\ \A n \in Nat : Dec(n) \in Nat /\ Dec(n) <= n /\ (n > 0 => Dec(n) = n - 1)
    /\ \A n \in Nat : \A x \in 0..n : Dec(x) \in 0..n
  BY DEF Dec

LEMMA CallFields ==
    ASSUME NEW m \in Call
    PROVE  /\ m.kind \in {"set", "steal", "renew", "release"}
           /\ m.tok \in Value /\ m.expect \in Value /\ m.age \in 0..MaxDelay
  BY DEF Call

LEMMA RequestTypes ==
    ASSUME NEW kind \in {"set", "steal", "renew", "release"}, NEW t \in Value, NEW x \in Value
    PROVE  /\ Request(kind, t, x) \in Call
           /\ Request(kind, t, x).kind = kind /\ Request(kind, t, x).tok = t
           /\ Request(kind, t, x).expect = x
  BY LockAssumption DEF Request, Call

(* Each script leaves the key, or writes what it was told to.              *)
LEMMA ScriptTypes ==
    ASSUME key \in Value, keyLeft \in 0..LockTTL, NEW m \in Call, Execute(m)
    PROVE  /\ key' \in Value /\ keyLeft' \in 0..LockTTL
           /\ key' \in {key, m.tok, NoToken}
<1>1. LockTTL \in 0..LockTTL /\ 0 \in 0..LockTTL
  BY LockAssumption
<1>2. m.tok \in Value /\ m.kind \in {"set", "steal", "renew", "release"}
  BY CallFields
<1>3. CASE m.kind = "set"
  BY <1>1, <1>2, <1>3 DEF Execute, SetNX, Put, lock
<1>4. CASE m.kind = "steal"
  BY <1>1, <1>2, <1>4 DEF Execute, StealScript, Put, lock
<1>5. CASE m.kind = "renew"
  BY <1>1, <1>2, <1>5 DEF Execute, RenewScript, lock
<1>6. CASE m.kind = "release"
  BY <1>1, <1>2, <1>6, NoTokenIsNone DEF Execute, ReleaseScript, lock
<1> QED BY <1>2, <1>3, <1>4, <1>5, <1>6

LEMMA RaisesTypes ==
    ASSUME TypeOK, NEW m \in Call, Raises(m)
    PROVE  /\ key' \in Value /\ keyLeft' \in 0..LockTTL
           /\ late' \subseteq Call /\ faults' \in 0..MaxFault
<1>1. key \in Value /\ keyLeft \in 0..LockTTL /\ late \subseteq Call /\ faults \in 0..MaxFault
  BY DEF TypeOK
<1>2. faults' \in 0..MaxFault
  BY <1>1, LockAssumption DEF Raises
<1>3. CASE Execute(m) /\ UNCHANGED late
  BY <1>1, <1>2, <1>3, ScriptTypes
<1>4. CASE UNCHANGED lock /\ late' \subseteq late \cup {m}
  BY <1>1, <1>2, <1>4 DEF lock
<1> QED BY <1>3, <1>4 DEF Raises, lock

LEMMA DiscardTypes ==
    ASSUME TypeOK, NEW k \in Tasks, Discard(k)
    PROVE  /\ held' \in [Owners -> SUBSET Token] /\ tok' \in [Tasks -> Value]
           /\ seen' \in [Tasks -> Value] /\ left' \in [Tasks -> Nat]
           /\ proof' \in [Tasks -> Nat] /\ lost' \in [Tasks -> BOOLEAN]
           /\ pc' \in [Tasks -> Phases]
<1>1. Home[k] \in Owners /\ NoToken \in Value /\ "idle" \in Phases
  BY LockAssumption, NoTokenIsNone DEF Phases
<1> QED BY <1>1 DEF TypeOK, Discard, Goto

(* The parts of the type that a step of a task may disturb.                *)
TaskTypes ==
    /\ key \in Value /\ keyLeft \in 0..LockTTL
    /\ held \in [Owners -> SUBSET Token]
    /\ pc \in [Tasks -> Phases] /\ tok \in [Tasks -> Value] /\ seen \in [Tasks -> Value]
    /\ left \in [Tasks -> Nat] /\ proof \in [Tasks -> Nat]
    /\ lost \in [Tasks -> BOOLEAN] /\ alone \in [Tasks -> BOOLEAN]
    /\ late \subseteq Call /\ faults \in 0..MaxFault

LEMMA TypeParts ==
    ASSUME TypeOK
    PROVE  /\ TaskTypes
           /\ TaskTypes' /\ UNCHANGED <<fleet, minted>> => TypeOK'
  BY DEF TypeOK, TaskTypes, fleet

LEMMA WinTypes ==
    ASSUME TypeOK, NEW k \in Tasks, Win(k)
    PROVE  /\ key' \in Value /\ keyLeft' \in 0..LockTTL /\ pc' \in [Tasks -> Phases]
           /\ proof' \in [Tasks -> Nat] /\ alone' \in [Tasks -> BOOLEAN]
  BY LockAssumption DEF TypeOK, Win, Put, Goto, Phases

LEMMA RenewTypes ==
    ASSUME TypeOK, NEW t \in Value, RenewScript(t)
    PROVE  key' \in Value /\ keyLeft' \in 0..LockTTL
  BY LockAssumption DEF TypeOK, RenewScript, lock

LEMMA GotoTypes ==
    ASSUME TypeOK, NEW k \in Tasks, NEW l \in Phases, Goto(k, l)
    PROVE  pc' \in [Tasks -> Phases]
  BY DEF TypeOK, Goto

LEMMA AcquireTypes ==
    ASSUME TypeOK, NEW k \in Tasks, AcquireStep(k)
    PROVE  TypeOK'
<1> USE TypeParts
<1>1. Home[k] \in Owners /\ NoToken \in Value /\ tok[k] \in Value /\ seen[k] \in Value
  BY LockAssumption, NoTokenIsNone DEF TypeOK
<1>2. {"get", "poll", "steal", "check", "sleep", "recheck", "set"} \subseteq Phases
  BY DEF Phases
<1>3. CASE TrySet(k)
  <2>1. UNCHANGED <<fleet, held, minted, tok, seen, left, lost, late, faults>>
    BY <1>3 DEF TrySet
  <2>2. CASE Win(k)
    BY <2>1, <2>2, WinTypes DEF TaskTypes
  <2>3. CASE Goto(k, "get") /\ UNCHANGED <<lock, proof, alone>>
    BY <1>2, <2>1, <2>3, GotoTypes DEF TaskTypes, lock
  <2> QED BY <1>3, <2>2, <2>3 DEF TrySet
<1>4. CASE SetRepeated(k)
  <2>1. Raises(Request("set", tok[k], NoToken)) /\ UNCHANGED <<fleet, held, minted, holds>>
    BY <1>4 DEF SetRepeated
  <2> QED BY <1>1, <2>1, RequestTypes, RaisesTypes DEF TaskTypes, holds
<1>5. CASE AcquireRaises(k)
  <2>1. Discard(k) /\ UNCHANGED <<fleet, minted, alone>>
    BY <1>5 DEF AcquireRaises
  <2>2. PICK m \in Call : Raises(m)
    BY <1>1, <1>5, RequestTypes DEF AcquireRaises
  <2> QED BY <2>1, <2>2, RaisesTypes, DiscardTypes DEF TaskTypes
<1>6. CASE Get(k)
  <2>1. UNCHANGED <<lock, fleet, held, minted, tok, left, proof, lost, alone, late, faults>>
    BY <1>6 DEF Get
  <2>2. seen' \in [Tasks -> Value]
    BY <1>6 DEF Get, TypeOK
  <2>3. pc' \in [Tasks -> Phases]
    BY <1>2, <1>6, GotoTypes DEF Get
  <2> QED BY <2>1, <2>2, <2>3 DEF TaskTypes, lock
<1>7. CASE Check(k)
  <2>1. UNCHANGED <<lock, fleet, held, minted, tok, seen, left, lost, alone, late, faults>>
    BY <1>7 DEF Check
  <2>2. proof' \in [Tasks -> Nat]
    BY <1>7, LockAssumption DEF Check, TypeOK
  <2>3. pc' \in [Tasks -> Phases]
    BY <1>2, <1>7, GotoTypes DEF Check
  <2> QED BY <2>1, <2>2, <2>3 DEF TaskTypes, lock
<1>8. CASE GetAgain(k)
  <2>1. UNCHANGED <<lock, fleet, held, minted, tok, seen, left, proof, lost, alone, late, faults>>
    BY <1>8 DEF GetAgain
  <2>2. pc' \in [Tasks -> Phases]
    BY <1>2, <1>8, GotoTypes DEF GetAgain
  <2> QED BY <2>1, <2>2 DEF TaskTypes, lock
<1>9. CASE Recheck(k)
  <2>1. UNCHANGED <<lock, fleet, held, minted, tok, seen, left, proof, lost, alone, late, faults>>
    BY <1>9 DEF Recheck
  <2>2. pc' \in [Tasks -> Phases]
    BY <1>2, <1>9, GotoTypes DEF Recheck
  <2> QED BY <2>1, <2>2 DEF TaskTypes, lock
<1>10. CASE CasSteal(k)
  <2>1. UNCHANGED <<fleet, held, minted, tok, seen, left, lost, late, faults>>
    BY <1>10 DEF CasSteal
  <2>2. CASE Win(k)
    BY <2>1, <2>2, WinTypes DEF TaskTypes
  <2>3. CASE Goto(k, "poll") /\ UNCHANGED <<lock, proof, alone>>
    BY <1>2, <2>1, <2>3, GotoTypes DEF TaskTypes, lock
  <2> QED BY <1>10, <2>2, <2>3 DEF CasSteal
<1>11. CASE Poll(k)
  <2>1. UNCHANGED <<lock, fleet, minted, alone, late, faults>>
    BY <1>11 DEF Poll
  <2>2. CASE Discard(k)
    BY <2>1, <2>2, DiscardTypes DEF TaskTypes, lock
  <2>3. CASE /\ Goto(k, "set")
             /\ seen' = [seen EXCEPT ![k] = NoToken]
             /\ UNCHANGED <<held, tok, left, proof, lost>>
    <3>1. seen' \in [Tasks -> Value]
      BY <1>1, <2>3 DEF TypeOK
    <3> QED BY <1>2, <2>1, <2>3, <3>1, GotoTypes DEF TaskTypes, lock
  <2> QED BY <1>11, <2>2, <2>3 DEF Poll
<1>12. CASE Cancel(k)
  BY <1>12, DiscardTypes DEF Cancel, TaskTypes, lock
<1> QED BY <1>3, <1>4, <1>5, <1>6, <1>7, <1>8, <1>9, <1>10, <1>11, <1>12 DEF AcquireStep

LEMMA HoldTypes ==
    ASSUME TypeOK, NEW k \in Tasks, HoldStep(k)
    PROVE  TypeOK'
<1> USE TypeParts
<1>1. Home[k] \in Owners /\ NoToken \in Value /\ tok[k] \in Value
  BY LockAssumption, NoTokenIsNone DEF TypeOK
<1>2. {"body", "fenced", "release"} \subseteq Phases
  BY DEF Phases
<1>3. ASSUME NEW b \in BOOLEAN, SetLost(k, b) PROVE lost' \in [Tasks -> BOOLEAN]
  BY <1>3 DEF SetLost, TypeOK
<1>4. CASE Enter(k)
  <2>1. UNCHANGED <<lock, fleet, held, minted, tok, lost, alone, late, faults>>
    BY <1>4 DEF Enter
  <2>2. left' \in [Tasks -> Nat] /\ proof' \in [Tasks -> Nat] /\ seen' \in [Tasks -> Value]
    BY <1>1, <1>4, LockAssumption DEF Enter, TypeOK
  <2>3. pc' \in [Tasks -> Phases]
    BY <1>2, <1>4, GotoTypes DEF Enter
  <2> QED BY <2>1, <2>2, <2>3 DEF TaskTypes, lock
<1>5. CASE Renew(k)
  <2>1. UNCHANGED <<fleet, held, minted, pc, tok, seen, left, proof, alone>>
    BY <1>5 DEF Renew
  <2>2. lost' \in [Tasks -> BOOLEAN]
    BY <1>3, <1>5 DEF Renew
  <2>3. CASE RenewScript(tok[k]) /\ UNCHANGED <<late, faults>>
    BY <1>1, <2>1, <2>2, <2>3, RenewTypes DEF TaskTypes
  <2>4. CASE Raises(Request("renew", tok[k], NoToken))
    BY <1>1, <2>1, <2>2, <2>4, RequestTypes, RaisesTypes DEF TaskTypes
  <2> QED BY <1>5, <2>3, <2>4 DEF Renew
<1>6. CASE EnsureOwned(k)
  <2>1. UNCHANGED <<fleet, held, minted, tok, seen, left, proof, alone>>
    BY <1>6 DEF EnsureOwned
  <2>2. lost' \in [Tasks -> BOOLEAN]
    BY <1>3, <1>6 DEF EnsureOwned, TypeOK
  <2>3. pc' \in [Tasks -> Phases]
    BY <1>2, <1>6, GotoTypes DEF EnsureOwned
  <2>4. CASE RenewScript(tok[k]) /\ UNCHANGED <<late, faults>>
    BY <1>1, <2>1, <2>2, <2>3, <2>4, RenewTypes DEF TaskTypes
  <2>5. CASE Raises(Request("renew", tok[k], NoToken))
    BY <1>1, <2>1, <2>2, <2>3, <2>5, RequestTypes, RaisesTypes DEF TaskTypes
  <2>6. CASE UNCHANGED <<lock, late, faults>>
    BY <2>1, <2>2, <2>3, <2>6 DEF TaskTypes, lock
  <2> QED BY <1>6, <2>4, <2>5, <2>6 DEF EnsureOwned
<1>7. CASE Return(k)
  <2>1. UNCHANGED <<fleet, held, minted, tok, seen, left, proof, alone, late, faults>>
    BY <1>7 DEF Return
  <2>2. lost' \in [Tasks -> BOOLEAN]
    BY <1>3, <1>7 DEF Return
  <2>3. pc' \in [Tasks -> Phases]
    BY <1>2, <1>7, GotoTypes DEF Return
  <2> QED BY <1>1, <1>7, <2>1, <2>2, <2>3, RenewTypes DEF TaskTypes, Return
<1>8. CASE Raise(k)
  BY <1>2, <1>8, GotoTypes DEF Raise, TaskTypes, lock
<1>9. CASE Release(k)
  <2>1. Discard(k) /\ UNCHANGED <<fleet, minted, alone>>
    BY <1>9 DEF Release
  <2>2. CASE ReleaseScript(tok[k]) /\ UNCHANGED <<late, faults>>
    <3>1. key' \in Value /\ keyLeft' \in 0..LockTTL
      BY <1>1, <2>2, LockAssumption DEF ReleaseScript, lock, TypeOK
    <3> QED BY <2>1, <2>2, <3>1, DiscardTypes DEF TaskTypes
  <2>3. CASE Raises(Request("release", tok[k], NoToken))
    BY <1>1, <2>1, <2>3, RequestTypes, RaisesTypes, DiscardTypes DEF TaskTypes
  <2> QED BY <1>9, <2>2, <2>3 DEF Release
<1> QED BY <1>4, <1>5, <1>6, <1>7, <1>8, <1>9 DEF HoldStep

LEMMA NewTokenTypes ==
    ASSUME TypeOK, NEW k \in Tasks, minted < MaxToken
    PROVE  /\ NewToken(k) \in Token
           /\ NewToken(k).nonce = minted + 1
           /\ k \in Opaque => NewToken(k).owner = None
           /\ k \notin Opaque => /\ NewToken(k).owner = Home[k]
                                 /\ NewToken(k).boot = boot[Home[k]]
<1>1. Home[k] \in Owners /\ boot[Home[k]] \in 0..MaxBoot /\ 0 \in 0..MaxBoot
  BY LockAssumption DEF TypeOK
<1>2. minted + 1 \in 1..MaxToken
  BY LockAssumption DEF TypeOK
<1> QED BY <1>1, <1>2 DEF NewToken, Token

LEMMA StartTypes ==
    ASSUME TypeOK, NEW k \in Tasks, Start(k)
    PROVE  TypeOK'
<1>1. NewToken(k) \in Token /\ NewToken(k) \in Value /\ Home[k] \in Owners /\ "set" \in Phases
  BY LockAssumption, NewTokenTypes, NoTokenIsNone DEF Start, Phases
<1>2. minted' \in 0..MaxToken
  BY LockAssumption DEF Start, TypeOK
<1>3. /\ tok' \in [Tasks -> Value] /\ held' \in [Owners -> SUBSET Token]
      /\ left' \in [Tasks -> Nat] /\ pc' \in [Tasks -> Phases]
  BY <1>1, LockAssumption DEF Start, TypeOK, Goto
<1> QED BY <1>2, <1>3 DEF Start, TypeOK, lock, fleet

LEMMA ArriveTypes ==
    ASSUME TypeOK, NEW m \in late, Arrive(m)
    PROVE  TypeOK'
<1>1. m \in Call /\ key \in Value /\ keyLeft \in 0..LockTTL
  BY DEF TypeOK
<1>2. key' \in Value /\ keyLeft' \in 0..LockTTL
  BY <1>1, ScriptTypes DEF Arrive
<1> QED BY <1>2 DEF TypeOK, Arrive, fleet, holds

LEMMA ProcessTypes ==
    ASSUME TypeOK, NEW c \in Owners, LivenessExpires(c) \/ Drained(c) \/ Crash(c) \/ Restart(c)
    PROVE  TypeOK'
<1>1. CASE LivenessExpires(c)
  <2>1. /\ life' \in [Owners -> {"up", "draining", "down"}] /\ faults' \in 0..MaxFault
        /\ drainLeft' \in [Owners -> 0..Drain] /\ alive' \in [Owners -> 0..AliveTTL]
    BY <1>1, LockAssumption DEF LivenessExpires, TypeOK
  <2> QED BY <1>1, <2>1 DEF LivenessExpires, TypeOK, lock, holds
<1>2. CASE Drained(c)
  <2>1. /\ life' \in [Owners -> {"up", "draining", "down"}]
        /\ drainLeft' \in [Owners -> 0..Drain] /\ alive' \in [Owners -> 0..AliveTTL]
    BY <1>2, LockAssumption DEF Drained, TypeOK
  <2> QED BY <1>2, <2>1 DEF Drained, TypeOK, lock, holds
<1>3. CASE Crash(c)
  <2>1. /\ life' \in [Owners -> {"up", "draining", "down"}]
        /\ drainLeft' \in [Owners -> 0..Drain] /\ boot' \in [Owners -> 0..MaxBoot]
    BY <1>3, LockAssumption DEF Crash, TypeOK
  <2>2. held' \in [Owners -> SUBSET Token]
    BY <1>3 DEF Crash, TypeOK
  <2>3. pc' \in [Tasks -> Phases]
    BY <1>3 DEF Crash, TypeOK, Phases
  <2>4. tok' \in [Tasks -> Value] /\ seen' \in [Tasks -> Value]
    BY <1>3, NoTokenIsNone DEF Crash, TypeOK
  <2>5. left' \in [Tasks -> Nat] /\ proof' \in [Tasks -> Nat]
    BY <1>3 DEF Crash, TypeOK
  <2>6. lost' \in [Tasks -> BOOLEAN]
    BY <1>3 DEF Crash, TypeOK
  <2> QED BY <1>3, <2>1, <2>2, <2>3, <2>4, <2>5, <2>6 DEF Crash, TypeOK, lock
<1>4. CASE Restart(c)
  <2>1. life' \in [Owners -> {"up", "draining", "down"}] /\ alive' \in [Owners -> 0..AliveTTL]
    BY <1>4, LockAssumption DEF Restart, TypeOK
  <2> QED BY <1>4, <2>1 DEF Restart, TypeOK, lock, holds
<1> QED BY <1>1, <1>2, <1>3, <1>4

LEMMA TickTypes ==
    ASSUME TypeOK, Tick
    PROVE  TypeOK'
<1>1. key' \in Value /\ keyLeft' \in 0..LockTTL
  BY LockAssumption, NoTokenIsNone, DecTypes DEF TypeOK, Tick
<1>2. alive' \in [Owners -> 0..AliveTTL]
  BY LockAssumption, DecTypes DEF TypeOK, Tick
<1>3. drainLeft' \in [Owners -> 0..Drain]
  BY LockAssumption, DecTypes DEF TypeOK, Tick
<1>4. left' \in [Tasks -> Nat] /\ proof' \in [Tasks -> Nat]
  BY DecTypes DEF TypeOK, Tick
<1>5. late' \subseteq Call
  <2> SUFFICES ASSUME NEW m \in late PROVE [m EXCEPT !.age = @ + 1] \in Call
    BY DEF Tick
  <2>1. m \in Call /\ m.age + 1 \in 0..MaxDelay
    BY LockAssumption, CallFields DEF TypeOK, Tick
  <2> QED BY <2>1 DEF Call
<1> QED BY <1>1, <1>2, <1>3, <1>4, <1>5 DEF TypeOK, Tick

-----------------------------------------------------------------------------
(* Tokens.                                                                 *)

(* Tokens are kept or given up: what is retired stays so.                  *)
Settled(k) ==
    \/ tok'[k] = tok[k] /\ (pc'[k] = "idle" <=> pc[k] = "idle")
    \/ tok'[k] = NoToken /\ pc'[k] = "idle"

LEMMA TokensKept ==
    ASSUME Tokens, UNCHANGED <<boot, minted>>, \A k \in Tasks : Settled(k)
    PROVE  /\ Tokens'
           /\ \A t \in Token : Retired(t) => Retired(t)'
<1>1. ASSUME NEW k \in Tasks PROVE TokenOf(k)'
  BY DEF Tokens, TokenOf, Settled
<1>2. ASSUME NEW j \in Tasks, NEW k \in Tasks, tok'[j] = tok'[k], tok'[k] # NoToken
      PROVE  j = k
  BY <1>2 DEF Tokens, Settled
<1>3. ASSUME NEW t \in Token, Retired(t) PROVE Retired(t)'
  BY <1>3, NoTokenIsNone DEF Retired, Settled
<1> QED BY <1>1, <1>2, <1>3 DEF Tokens

(* Who has a token that names an owner belongs to that owner.              *)
LEMMA OwnersToken ==
    ASSUME Tokens, NEW t \in Token, t.owner \in Owners, NEW k \in Tasks, tok[k] = t
    PROVE  k \notin Opaque /\ Home[k] = t.owner /\ t.boot = boot[t.owner] /\ Busy(t.owner)
<1>1. pc[k] # "idle"
  BY NoTokenIsNone DEF Tokens, TokenOf
<1>2. k \notin Opaque
  BY <1>1, LockAssumption DEF Tokens, TokenOf
<1> QED BY <1>1, <1>2 DEF Tokens, TokenOf, Busy

LEMMA QuietOwner ==
    ASSUME Tokens, NEW t \in Token, t.owner \in Owners, ~Busy(t.owner)
    PROVE  Retired(t)
  BY OwnersToken DEF Retired

(* A thief that waits, and whose process and victim are left alone.        *)
LEMMA ProvenKept ==
    ASSUME NEW k \in Tasks, Proven(k), pc'[k] = pc[k], seen'[k] = seen[k],
           proof'[k] = proof[k], \A t \in Token : Retired(t) => Retired(t)',
           pc[k] = "sleep" =>
              \/ Retired(seen[k])'
              \/ life'[seen[k].owner] = life[seen[k].owner]
                 /\ drainLeft'[seen[k].owner] = drainLeft[seen[k].owner]
    PROVE  Proven(k)'
  BY DEF Proven, Retired

-----------------------------------------------------------------------------
(* The key of a task that is inside, while others call the scripts.        *)

(* Call m does not displace task k, nor put its token back.                *)
Mild(m, k) ==
    /\ m.kind = "set" => key = tok[k] \/ m.tok # tok[k]
    /\ m.kind = "steal" => m.expect # tok[k] /\ m.tok # tok[k]
    /\ m.kind = "release" => m.tok # tok[k]

Undisturbed(k) ==
    /\ key = tok[k] => key' = tok[k] /\ keyLeft' >= keyLeft
    /\ key # tok[k] => key' # tok[k]

LEMMA MildLeaves ==
    ASSUME TypeOK, NEW m \in Call, NEW k \in Tasks, tok[k] # NoToken, Mild(m, k), Execute(m)
    PROVE  Undisturbed(k)
<1>1. keyLeft \in 0..LockTTL /\ LockTTL \in Nat
  BY LockAssumption DEF TypeOK
<1>2. m.kind \in {"set", "steal", "renew", "release"}
  BY CallFields
<1>3. CASE m.kind = "set"
  BY <1>1, <1>3 DEF Execute, SetNX, Put, lock, Mild, Undisturbed
<1>4. CASE m.kind = "steal"
  BY <1>1, <1>4 DEF Execute, StealScript, Put, lock, Mild, Undisturbed
<1>5. CASE m.kind = "renew"
  BY <1>1, <1>5 DEF Execute, RenewScript, lock, Undisturbed
<1>6. CASE m.kind = "release"
  BY <1>1, <1>6 DEF Execute, ReleaseScript, lock, Mild, Undisturbed
<1> QED BY <1>2, <1>3, <1>4, <1>5, <1>6

LEMMA IdleLock ==
    ASSUME TypeOK, UNCHANGED lock
    PROVE  \A k \in Tasks : Undisturbed(k)
  BY DEF TypeOK, Undisturbed, lock

LEMMA SecureKept ==
    ASSUME TypeOK, TypeOK', NEW k \in Tasks, Secure(k), Undisturbed(k),
           pc'[k] = pc[k], tok'[k] = tok[k], left'[k] = left[k], proof'[k] = proof[k],
           alone'[k] = alone[k] \/ key' # tok[k],
           \A m \in late' : m \in late \/ m.kind # "set" \/ m.tok # tok[k]
    PROVE  Secure(k)'
<1> SUFFICES ASSUME pc[k] \in Inside
             PROVE  /\ Since(k)' >= 0
                    /\ Since(k)' < LockTTL => key' = tok'[k] /\ keyLeft' + Since(k)' >= LockTTL
                    /\ key' = tok'[k] => alone'[k]
                    /\ \A m \in late' : m.kind = "set" /\ m.tok = tok'[k] =>
                          key' = tok'[k] /\ keyLeft' + m.age >= LockTTL
  BY DEF Secure
<1>1. Since(k)' = Since(k)
  BY DEF Since
<1>2. keyLeft \in Nat /\ keyLeft' \in Nat /\ Since(k) \in Int /\ LockTTL \in Nat
  BY LockAssumption DEF TypeOK, Since
<1>3. \A m \in late : m.age \in Nat
  BY CallFields, LockAssumption DEF TypeOK
<1>4. /\ Since(k)' >= 0
      /\ Since(k)' < LockTTL => key' = tok'[k] /\ keyLeft' + Since(k)' >= LockTTL
      /\ key' = tok'[k] => alone'[k]
  BY <1>1, <1>2 DEF Secure, Undisturbed
<1>5. ASSUME NEW m \in late', m.kind = "set", m.tok = tok'[k]
      PROVE  key' = tok'[k] /\ keyLeft' + m.age >= LockTTL
  BY <1>2, <1>3, <1>5 DEF Secure, Undisturbed
<1> QED BY <1>4, <1>5

LEMMA SecureOutside ==
    ASSUME NEW k \in Tasks, pc'[k] \notin Inside
    PROVE  Secure(k)'
  BY DEF Secure

-----------------------------------------------------------------------------
(* One step of one task.                                                   *)

(* A call that task k makes where it is.                                   *)
OwnCall(k, m) ==
    /\ m \in Call /\ m.tok = tok[k] /\ m.expect \in {NoToken, seen[k]}
    /\ m.kind = "set" => pc[k] = "set"
    /\ m.kind = "steal" => pc[k] = "steal" /\ m.expect = seen[k]
    /\ m.kind = "release" => pc[k] \in {"fenced", "release"}

(* The call is executed, or may be later, or neither.                      *)
Calls(k) ==
    /\ UNCHANGED lock \/ \E m \in Call : OwnCall(k, m) /\ Execute(m)
    /\ \A m \in late' :
          \/ m \in late
          \/ OwnCall(k, m) /\ (m.kind \in {"steal", "release"} => pc'[k] = "idle")

Others(k) ==
    \A j \in Tasks \ {k} :
        /\ pc'[j] = pc[j] /\ tok'[j] = tok[j] /\ seen'[j] = seen[j]
        /\ left'[j] = left[j] /\ proof'[j] = proof[j]
        /\ alone'[j] = alone[j] \/ key' # tok[j]

LEMMA TaskStep ==
    ASSUME IInv, TypeOK', NEW k \in Tasks, pc[k] # "idle", UNCHANGED <<fleet, minted>>,
           Settled(k), Others(k), Calls(k), seen'[k] \in {seen[k], key, NoToken},
           Proven(k)', Secure(k)'
    PROVE  IInv'
<1>1. /\ TypeOK /\ Tokens /\ Drawn /\ Processes
      /\ \A j \in Tasks : Proven(j) /\ Secure(j)
      /\ \A m \in late : Harmless(m)
  BY DEF IInv
<1>2. /\ Tokens'
      /\ \A t \in Token : Retired(t) => Retired(t)'
  <2>1. \A j \in Tasks : Settled(j)
    BY DEF Others, Settled
  <2> QED BY <1>1, <2>1, TokensKept DEF fleet
<1>3. tok[k] \in Token /\ tok[k] # NoToken /\ tok[k].nonce <= minted
  BY <1>1, NoTokenIsNone DEF Tokens, TokenOf
<1>4. \A m \in late : m \in Call
  BY <1>1 DEF TypeOK
<1>5. Drawn'
  <2>1. NoToken.nonce <= minted /\ minted' = minted
    BY <1>1, NoTokenIsNone DEF TypeOK
  <2>2. key'.nonce <= minted
    <3>1. ASSUME NEW m \in Call, OwnCall(k, m), Execute(m) PROVE key'.nonce <= minted
      <4>1. key' \in {key, m.tok, NoToken}
        BY <1>1, <3>1, ScriptTypes DEF TypeOK
      <4> QED BY <1>1, <1>3, <2>1, <3>1, <4>1 DEF Drawn, OwnCall
    <3> QED BY <1>1, <3>1 DEF Calls, Drawn, lock
  <2>3. ASSUME NEW j \in Tasks PROVE seen'[j].nonce <= minted
    BY <1>1, <2>1 DEF Drawn, Others
  <2>4. ASSUME NEW m \in late' PROVE m.tok.nonce <= minted /\ m.expect.nonce <= minted
    BY <1>1, <1>3, <2>1 DEF Drawn, Calls, OwnCall
  <2> QED BY <2>1, <2>2, <2>3, <2>4 DEF Drawn
<1>6. Processes'
  <2>1. ASSUME NEW c \in Owners, ~Busy(c) PROVE ~Busy(c)'
    BY <2>1 DEF Busy, Others
  <2> QED BY <1>1, <2>1 DEF Processes, fleet
<1>7. ASSUME NEW j \in Tasks PROVE Proven(j)'
  <2>1. CASE j # k
    BY <1>1, <1>2, <2>1, ProvenKept DEF Others, fleet
  <2> QED BY <2>1
<1>8. ASSUME NEW m \in late' PROVE Harmless(m)'
  <2>1. CASE m \in late
    <3>1. Harmless(m) /\ m.tok \in Value
      BY <1>1, <1>4, <2>1, CallFields
    <3>2. m.kind \in {"steal", "release"} => Retired(m.tok)'
      BY <1>2, <3>1 DEF Harmless
    <3> QED BY <1>2, <3>1, <3>2 DEF Harmless
  <2>2. CASE OwnCall(k, m) /\ (m.kind \in {"steal", "release"} => pc'[k] = "idle")
    <3>1. m.kind \in {"steal", "release"} => Retired(m.tok)'
      <4>1. ASSUME pc'[k] = "idle", NEW j \in Tasks PROVE tok'[j] # m.tok
        <5>1. CASE j = k
          BY <1>2, <1>3, <2>2, <4>1, <5>1 DEF Tokens, TokenOf, OwnCall
        <5>2. CASE j # k
          BY <1>1, <1>3, <2>2, <5>2 DEF Tokens, Others, OwnCall
        <5> QED BY <5>1, <5>2
      <4> QED BY <2>2, <4>1 DEF Retired
    <3>2. m.kind = "steal" => m.expect \in Token /\ Retired(m.expect)'
      BY <1>1, <1>2, <2>2 DEF OwnCall, Proven
    <3> QED BY <1>3, <2>2, <3>1, <3>2 DEF Harmless, OwnCall
  <2> QED BY <2>1, <2>2 DEF Calls
<1>9. ASSUME NEW j \in Tasks PROVE Secure(j)'
  <2>1. CASE j # k
    <3>1. CASE pc[j] \in Inside
      <4>1. tok[j] \in Token /\ tok[j] # NoToken /\ tok[j] # tok[k]
        BY <1>1, <1>3, <2>1, <3>1, NoTokenIsNone DEF Tokens, TokenOf, Inside
      <4>2. Undisturbed(j)
        <5>1. ASSUME NEW m \in Call, OwnCall(k, m), Execute(m) PROVE Undisturbed(j)
          <6>1. m.kind = "steal" => m.expect # tok[j]
            BY <1>1, <5>1 DEF OwnCall, Proven, Retired
          <6>2. Mild(m, j)
            BY <4>1, <5>1, <6>1 DEF Mild, OwnCall
          <6> QED BY <1>1, <4>1, <5>1, <6>2, MildLeaves
        <5> QED BY <1>1, <5>1, IdleLock DEF Calls
      <4>3. \A m \in late' : m \in late \/ m.kind # "set" \/ m.tok # tok[j]
        BY <4>1 DEF Calls, OwnCall
      <4> QED BY <1>1, <2>1, <4>2, <4>3, SecureKept DEF Others
    <3>2. CASE pc[j] \notin Inside
      BY <2>1, <3>2, SecureOutside DEF Others
    <3> QED BY <3>1, <3>2
  <2> QED BY <2>1
<1> QED BY <1>2, <1>5, <1>6, <1>7, <1>8, <1>9 DEF IInv

LEMMA RaisesCalls ==
    ASSUME NEW k \in Tasks, NEW m \in Call, OwnCall(k, m), Raises(m),
           m.kind \in {"steal", "release"} => pc'[k] = "idle"
    PROVE  Calls(k)
  BY DEF Raises, Calls, lock

(* The requests that acquire and hold make.                                *)
LEMMA OwnRequests ==
    ASSUME TypeOK, NEW k \in Tasks
    PROVE  /\ pc[k] = "set" => OwnCall(k, Request("set", tok[k], NoToken))
           /\ pc[k] = "steal" => OwnCall(k, Request("steal", tok[k], seen[k]))
           /\ OwnCall(k, Request("renew", tok[k], NoToken))
           /\ pc[k] \in {"fenced", "release"} => OwnCall(k, Request("release", tok[k], NoToken))
<1>1. tok[k] \in Value /\ seen[k] \in Value /\ NoToken \in Value
  BY NoTokenIsNone DEF TypeOK
<1> QED BY <1>1, RequestTypes DEF OwnCall

LEMMA Executed ==
    ASSUME TypeOK, NEW k \in Tasks
    PROVE  /\ RenewScript(tok[k]) => Execute(Request("renew", tok[k], NoToken))
           /\ ReleaseScript(tok[k]) => Execute(Request("release", tok[k], NoToken))
           /\ key = NoToken /\ Put(tok[k]) => Execute(Request("set", tok[k], NoToken))
           /\ key = seen[k] /\ Put(tok[k]) => Execute(Request("steal", tok[k], seen[k]))
<1>1. tok[k] \in Value /\ seen[k] \in Value /\ NoToken \in Value
  BY NoTokenIsNone DEF TypeOK
<1>2. ASSUME NEW m, m.kind = "renew", RenewScript(m.tok) PROVE Execute(m)
  BY <1>2 DEF Execute
<1>3. ASSUME NEW m, m.kind = "release", ReleaseScript(m.tok) PROVE Execute(m)
  BY <1>3 DEF Execute
<1>4. ASSUME NEW m, m.kind = "set", key = NoToken, Put(m.tok) PROVE Execute(m)
  BY <1>4 DEF Execute, SetNX
<1>5. ASSUME NEW m, m.kind = "steal", key = m.expect, Put(m.tok) PROVE Execute(m)
  BY <1>5 DEF Execute, StealScript
<1>6. RenewScript(tok[k]) => Execute(Request("renew", tok[k], NoToken))
  BY <1>1, <1>2, RequestTypes
<1>7. ReleaseScript(tok[k]) => Execute(Request("release", tok[k], NoToken))
  BY <1>1, <1>3, RequestTypes
<1>8. key = NoToken /\ Put(tok[k]) => Execute(Request("set", tok[k], NoToken))
  BY <1>1, <1>4, RequestTypes
<1>9. key = seen[k] /\ Put(tok[k]) => Execute(Request("steal", tok[k], seen[k]))
  BY <1>1, <1>5, RequestTypes
<1> QED BY <1>6, <1>7, <1>8, <1>9

LEMMA Discarded ==
    ASSUME TypeOK, NEW k \in Tasks, Discard(k), alone' = alone
    PROVE  /\ Settled(k) /\ Others(k) /\ seen'[k] = NoToken /\ pc'[k] = "idle"
           /\ Proven(k)' /\ Secure(k)'
<1>1. pc'[k] = "idle" /\ tok'[k] = NoToken /\ seen'[k] = NoToken
  BY DEF Discard, Goto, TypeOK
<1>2. Others(k)
  BY DEF Others, Discard, Goto, TypeOK
<1>3. Proven(k)' /\ Secure(k)'
  BY <1>1 DEF Proven, Secure, Inside
<1> QED BY <1>1, <1>2, <1>3 DEF Settled

(* A task that only goes to another phase, still outside.                  *)
LEMMA Goes ==
    ASSUME TypeOK, NEW k \in Tasks, pc[k] # "idle", NEW l \in Phases \ {"idle", "won", "body"},
           Goto(k, l), UNCHANGED <<tok, seen, left, proof, alone>>
    PROVE  /\ Settled(k) /\ Others(k) /\ seen'[k] = seen[k] /\ pc'[k] = l
           /\ Secure(k)'
<1>1. pc'[k] = l /\ \A j \in Tasks \ {k} : pc'[j] = pc[j]
  BY DEF Goto, TypeOK
<1> QED BY <1>1 DEF Settled, Others, Secure, Inside

LEMMA Passive ==
    ASSUME NEW k \in Tasks, UNCHANGED <<lock, late>>
    PROVE  Calls(k)
  BY DEF Calls

LEMMA WinKeeps ==
    ASSUME IInv, TypeOK', NEW k \in Tasks, Win(k),
           \/ pc[k] = "set" /\ key = NoToken
           \/ pc[k] = "steal" /\ key = seen[k],
           UNCHANGED <<fleet, held, minted, tok, seen, left, lost, late, faults>>
    PROVE  IInv'
<1>1. TypeOK /\ Tokens
  BY DEF IInv
<1>2. /\ pc' = [pc EXCEPT ![k] = "won"] /\ proof' = [proof EXCEPT ![k] = MaxReply]
      /\ key' = tok[k] /\ keyLeft' = LockTTL /\ alone' = [j \in Tasks |-> j = k]
  BY DEF Win, Put, Goto
<1>3. pc'[k] = "won" /\ proof'[k] = MaxReply /\ alone'[k] = TRUE
  BY <1>1, <1>2 DEF TypeOK
<1>4. tok[k] # NoToken
  BY <1>1, NoTokenIsNone DEF Tokens, TokenOf
<1>5. Others(k)
  <2>1. ASSUME NEW j \in Tasks \ {k} PROVE tok[j] # tok[k]
    BY <1>1, <1>4 DEF Tokens
  <2> QED BY <1>1, <1>2, <2>1 DEF Others, TypeOK
<1>6. Calls(k)
  <2>1. \E m \in Call : OwnCall(k, m) /\ Execute(m)
    BY <1>1, OwnRequests, Executed DEF Win, OwnCall
  <2> QED BY <2>1 DEF Calls
<1>7. Secure(k)'
  <2>1. Since(k)' = 0 /\ LockTTL \in Nat
    BY <1>3, LockAssumption DEF Since
  <2>2. \A m \in late' : m.age \in Nat
    BY <1>1, CallFields, LockAssumption DEF TypeOK
  <2> QED BY <1>2, <1>3, <2>1, <2>2 DEF Secure
<1>8. Proven(k)'
  BY <1>3 DEF Proven
<1>9. Settled(k)
  BY <1>3 DEF Settled
<1> QED BY <1>5, <1>6, <1>7, <1>8, <1>9, TaskStep

LEMMA AcquireKeeps ==
    ASSUME IInv, NEW k \in Tasks, AcquireStep(k)
    PROVE  IInv'
<1>1. TypeOK /\ Tokens /\ Drawn /\ Processes /\ \A j \in Tasks : Proven(j) /\ Secure(j)
  BY DEF IInv
<1>2. TypeOK'
  BY <1>1, AcquireTypes
<1>3. {"get", "poll", "steal", "check", "sleep", "recheck", "set"}
         \subseteq Phases \ {"idle", "won", "body"}
  BY DEF Phases
<1>4. \A l \in {"get", "poll", "set"} : pc'[k] = l => Proven(k)'
  BY DEF Proven
<1>5. ASSUME NEW t \in Token, Retired(t), tok' = tok PROVE Retired(t)'
  BY <1>5 DEF Retired
<1>6. CASE TrySet(k)
  <2>1. pc[k] = "set" /\ UNCHANGED <<fleet, held, minted, tok, seen, left, lost, late, faults>>
    BY <1>6 DEF TrySet
  <2>2. CASE key = NoToken /\ Win(k)
    BY <1>2, <2>1, <2>2, WinKeeps
  <2>3. CASE Goto(k, "get") /\ UNCHANGED <<lock, proof, alone>>
    BY <1>1, <1>2, <1>3, <1>4, <2>1, <2>3, Goes, Passive, TaskStep
  <2> QED BY <1>6, <2>2, <2>3 DEF TrySet
<1>7. CASE SetRepeated(k)
  <2> DEFINE m == Request("set", tok[k], NoToken)
  <2>1. pc[k] = "set" /\ Raises(m) /\ UNCHANGED <<fleet, held, minted, holds>>
    BY <1>7 DEF SetRepeated
  <2>2. OwnCall(k, m) /\ m.kind = "set" /\ m \in Call
    BY <1>1, <2>1, OwnRequests DEF OwnCall, Request
  <2>3. Calls(k)
    <3> HIDE DEF m
    <3> QED BY <2>1, <2>2, RaisesCalls
  <2>4. Others(k) /\ Settled(k) /\ seen'[k] = seen[k]
    BY <2>1 DEF Others, Settled, holds
  <2>5. Proven(k)' /\ Secure(k)'
    BY <2>1 DEF Proven, Secure, Inside, holds
  <2> QED BY <1>2, <2>1, <2>3, <2>4, <2>5, TaskStep
<1>8. CASE AcquireRaises(k)
  <2>1. /\ Discard(k) /\ UNCHANGED <<fleet, minted, alone>> /\ pc[k] # "idle"
        /\ \/ pc[k] = "set" /\ Raises(Request("set", tok[k], NoToken))
           \/ pc[k] = "steal" /\ Raises(Request("steal", tok[k], seen[k]))
    BY <1>8 DEF AcquireRaises
  <2>2. Calls(k)
    <3>1. PICK m : OwnCall(k, m) /\ Raises(m)
      BY <1>1, <2>1, OwnRequests
    <3> QED BY <1>1, <2>1, <3>1, Discarded, RaisesCalls DEF OwnCall
  <2> QED BY <1>1, <1>2, <2>1, <2>2, Discarded, TaskStep
<1>9. CASE Get(k)
  <2>1. /\ pc[k] = "get"
        /\ UNCHANGED <<lock, fleet, held, minted, tok, left, proof, lost, alone, late, faults>>
    BY <1>9 DEF Get
  <2>2. CASE Stealable(k, key)
    <3>1. /\ seen' = [seen EXCEPT ![k] = key]
          /\ Goto(k, IF key.owner = Home[k] THEN "steal" ELSE "check")
      BY <1>9, <2>2 DEF Get
    <3>2. /\ seen'[k] = key /\ pc'[k] = (IF key.owner = Home[k] THEN "steal" ELSE "check")
          /\ \A j \in Tasks \ {k} : pc'[j] = pc[j] /\ seen'[j] = seen[j]
      BY <1>1, <3>1 DEF TypeOK, Goto
    <3>3. key \in Token /\ key.owner \in Owners
      <4>1. key.owner # None /\ key \in Value
        BY <1>1, <2>2 DEF Stealable, TypeOK
      <4>2. key # NoToken
        BY <4>1 DEF NoToken
      <4> QED BY <4>1, <4>2, NoTokenIsNone
    <3>4. key.owner = Home[k] => Retired(key)
      BY <1>1, <2>2, <3>3, OwnersToken DEF Stealable, Retired
    <3>5. Proven(k)'
      BY <1>5, <2>1, <3>2, <3>3, <3>4 DEF Proven
    <3>6. Settled(k) /\ Others(k) /\ Secure(k)'
      BY <2>1, <3>2 DEF Settled, Others, Secure, Inside
    <3> QED BY <1>2, <2>1, <3>2, <3>5, <3>6, Passive, TaskStep
  <2>3. CASE Goto(k, "poll") /\ UNCHANGED seen
    BY <1>1, <1>2, <1>3, <1>4, <2>1, <2>3, Goes, Passive, TaskStep
  <2> QED BY <1>9, <2>2, <2>3 DEF Get
<1>10. CASE Check(k)
  <2>1. /\ pc[k] = "check"
        /\ UNCHANGED <<lock, fleet, held, minted, tok, seen, left, lost, alone, late, faults>>
    BY <1>10 DEF Check
  <2>2. CASE /\ alive[seen[k].owner] = 0
             /\ proof' = [proof EXCEPT ![k] = Proof]
             /\ Goto(k, "sleep")
    <3>1. /\ proof'[k] = Proof /\ pc'[k] = "sleep"
          /\ \A j \in Tasks \ {k} : pc'[j] = pc[j] /\ proof'[j] = proof[j]
      BY <1>1, <2>2 DEF TypeOK, Goto
    <3> DEFINE c == seen[k].owner
    <3>2. seen[k] \in Token /\ c \in Owners
      BY <1>1, <2>1 DEF Proven
    <3>3. life[c] \in {"draining", "down"} /\ drainLeft[c] < Proof
      <4>1. life[c] # "up"
        BY <1>1, <2>2, <3>2 DEF Processes
      <4>2. life[c] \in {"up", "draining", "down"} /\ drainLeft[c] \in 0..Drain
        BY <1>1, <3>2 DEF TypeOK
      <4> QED BY <4>1, <4>2, LockAssumption
    <3>4. life[c] = "down" => Retired(seen[k])
      BY <1>1, <3>2, QuietOwner DEF Processes
    <3>5. Proven(k)'
      BY <1>5, <2>1, <3>1, <3>2, <3>3, <3>4 DEF Proven, fleet
    <3>6. Settled(k) /\ Others(k) /\ Secure(k)'
      BY <2>1, <3>1 DEF Settled, Others, Secure, Inside
    <3> QED BY <1>2, <2>1, <3>5, <3>6, Passive, TaskStep
  <2>3. CASE Goto(k, "poll") /\ UNCHANGED proof
    BY <1>1, <1>2, <1>3, <1>4, <2>1, <2>3, Goes, Passive, TaskStep
  <2> QED BY <1>10, <2>2, <2>3 DEF Check
<1>11. CASE GetAgain(k)
  <2>1. /\ pc[k] = "sleep" /\ proof[k] = 0
        /\ UNCHANGED <<lock, fleet, held, minted, tok, seen, left, proof, lost, alone, late, faults>>
    BY <1>11 DEF GetAgain
  <2>2. PICK l \in {"recheck", "poll"} : Goto(k, l)
    BY <1>11 DEF GetAgain
  <2>3. seen[k] \in Token /\ seen[k].owner \in Owners /\ Retired(seen[k])
    <3>1. seen[k] \in Token /\ seen[k].owner \in Owners
      BY <1>1, <2>1 DEF Proven
    <3>2. drainLeft[seen[k].owner] \in Nat
      BY <1>1, <3>1, LockAssumption DEF TypeOK
    <3>3. Retired(seen[k])
      BY <1>1, <2>1, <3>2 DEF Proven
    <3> QED BY <3>1, <3>3
  <2>4. pc'[k] = l
    BY <1>1, <2>2 DEF TypeOK, Goto
  <2>5. Proven(k)'
    BY <1>5, <2>1, <2>3, <2>4 DEF Proven
  <2> QED BY <1>1, <1>2, <1>3, <2>1, <2>2, <2>5, Goes, Passive, TaskStep
<1>12. CASE Recheck(k)
  <2>1. /\ pc[k] = "recheck"
        /\ UNCHANGED <<lock, fleet, held, minted, tok, seen, left, proof, lost, alone, late, faults>>
    BY <1>12 DEF Recheck
  <2>2. PICK l \in {"steal", "poll"} : Goto(k, l)
    BY <1>12 DEF Recheck
  <2>3. seen[k] \in Token /\ Retired(seen[k])
    BY <1>1, <2>1 DEF Proven
  <2>4. pc'[k] = l
    BY <1>1, <2>2 DEF TypeOK, Goto
  <2>5. Proven(k)'
    BY <1>5, <2>1, <2>3, <2>4 DEF Proven
  <2> QED BY <1>1, <1>2, <1>3, <2>1, <2>2, <2>5, Goes, Passive, TaskStep
<1>13. CASE CasSteal(k)
  <2>1. pc[k] = "steal" /\ UNCHANGED <<fleet, held, minted, tok, seen, left, lost, late, faults>>
    BY <1>13 DEF CasSteal
  <2>2. CASE key = seen[k] /\ Win(k)
    BY <1>2, <2>1, <2>2, WinKeeps
  <2>3. CASE Goto(k, "poll") /\ UNCHANGED <<lock, proof, alone>>
    BY <1>1, <1>2, <1>3, <1>4, <2>1, <2>3, Goes, Passive, TaskStep
  <2> QED BY <1>13, <2>2, <2>3 DEF CasSteal
<1>14. CASE Poll(k)
  <2>1. pc[k] = "poll" /\ UNCHANGED <<lock, fleet, minted, alone, late, faults>>
    BY <1>14 DEF Poll
  <2>2. CASE Discard(k)
    BY <1>1, <1>2, <2>1, <2>2, Discarded, Passive, TaskStep
  <2>3. CASE /\ Goto(k, "set")
             /\ seen' = [seen EXCEPT ![k] = NoToken]
             /\ UNCHANGED <<held, tok, left, proof, lost>>
    <3>1. /\ pc'[k] = "set" /\ seen'[k] = NoToken
          /\ \A j \in Tasks \ {k} : pc'[j] = pc[j] /\ seen'[j] = seen[j]
      BY <1>1, <2>3 DEF TypeOK, Goto
    <3>2. Settled(k) /\ Others(k) /\ Secure(k)'
      BY <2>1, <2>3, <3>1 DEF Settled, Others, Secure, Inside
    <3> QED BY <1>2, <1>4, <2>1, <3>1, <3>2, Passive, TaskStep
  <2> QED BY <1>14, <2>2, <2>3 DEF Poll
<1>15. CASE Cancel(k)
  <2>1. pc[k] # "idle" /\ Discard(k) /\ UNCHANGED <<lock, fleet, minted, alone, late, faults>>
    BY <1>15 DEF Cancel
  <2> QED BY <1>1, <1>2, <2>1, Discarded, Passive, TaskStep
<1> QED BY <1>6, <1>7, <1>8, <1>9, <1>10, <1>11, <1>12, <1>13, <1>14, <1>15 DEF AcquireStep

(* A task that stays in its body and asks for its lease.                   *)
LEMMA StaysInside ==
    ASSUME IInv, TypeOK', NEW k \in Tasks, pc[k] = "body", Calls(k),
           RenewScript(tok[k]) \/ Raises(Request("renew", tok[k], NoToken)),
           UNCHANGED <<fleet, minted, pc, tok, seen, left, proof, alone>>,
           \A m \in late' : m \in late \/ m.kind # "set"
    PROVE  IInv'
<1>1. TypeOK /\ Tokens /\ Proven(k) /\ Secure(k)
  BY DEF IInv
<1>2. Undisturbed(k)
  <2> DEFINE m == Request("renew", tok[k], NoToken)
  <2>1. m \in Call /\ m.kind = "renew"
    BY <1>1, OwnRequests DEF OwnCall, Request
  <2>2. Mild(m, k)
    BY <2>1 DEF Mild
  <2>3. tok[k] # NoToken
    BY <1>1, NoTokenIsNone DEF Tokens, TokenOf
  <2>4. Execute(m) \/ UNCHANGED lock
    BY <1>1, Executed DEF Raises, lock
  <2> HIDE DEF m
  <2> QED BY <1>1, <2>1, <2>2, <2>3, <2>4, MildLeaves, IdleLock
<1>3. Secure(k)'
  BY <1>1, <1>2, SecureKept
<1>4. Proven(k)' /\ Settled(k) /\ Others(k)
  BY DEF Proven, Settled, Others
<1> QED BY <1>3, <1>4, TaskStep

LEMMA HoldKeeps ==
    ASSUME IInv, NEW k \in Tasks, HoldStep(k)
    PROVE  IInv'
<1>1. TypeOK /\ Tokens /\ \A j \in Tasks : Proven(j) /\ Secure(j)
  BY DEF IInv
<1>2. TypeOK'
  BY <1>1, HoldTypes
<1>3. {"fenced", "release"} \subseteq Phases \ {"idle", "won", "body"}
  BY DEF Phases
<1>4. \A l \in {"fenced", "release"} : pc'[k] = l => Proven(k)'
  BY DEF Proven
<1> DEFINE m == Request("renew", tok[k], NoToken)
<1>5. OwnCall(k, m) /\ m \in Call /\ m.kind = "renew"
  BY <1>1, OwnRequests DEF OwnCall, Request
<1> HIDE DEF m
<1>6. ASSUME RenewScript(tok[k]), UNCHANGED late PROVE Calls(k)
  BY <1>1, <1>5, <1>6, Executed DEF Calls, m
<1>7. ASSUME Raises(m) PROVE Calls(k) /\ \A x \in late' : x \in late \/ x.kind # "set"
  <2>1. Calls(k)
    BY <1>5, <1>7, RaisesCalls
  <2> QED BY <1>5, <1>7, <2>1 DEF Raises
<1>8. CASE Enter(k)
  <2>1. /\ pc[k] = "won"
        /\ UNCHANGED <<lock, fleet, held, minted, tok, lost, alone, late, faults>>
    BY <1>8 DEF Enter
  <2>2. /\ pc'[k] = "body" /\ left'[k] = MaxBody /\ proof'[k] = 0 /\ seen'[k] = NoToken
        /\ Others(k)
    BY <1>1, <1>8 DEF Enter, Goto, Others, TypeOK
  <2>3. Secure(k)'
    <3>1. Since(k) = MaxReply - proof[k] /\ Since(k)' = MaxReply
      BY <2>1, <2>2, LockAssumption DEF Since
    <3>2. /\ proof[k] \in Nat /\ MaxReply \in Nat /\ LockTTL \in Nat /\ keyLeft \in Nat
          /\ \A x \in late : x.age \in Nat
      BY <1>1, CallFields, LockAssumption DEF TypeOK
    <3> QED BY <1>1, <2>1, <2>2, <3>1, <3>2 DEF Secure, Inside, lock
  <2>4. Proven(k)' /\ Settled(k)
    BY <2>1, <2>2 DEF Proven, Settled
  <2> QED BY <1>2, <2>1, <2>2, <2>3, <2>4, Passive, TaskStep
<1>9. CASE Renew(k)
  <2>1. pc[k] = "body" /\ UNCHANGED <<fleet, held, minted, pc, tok, seen, left, proof, alone>>
    BY <1>9 DEF Renew
  <2>2. CASE RenewScript(tok[k]) /\ UNCHANGED <<late, faults>>
    BY <1>2, <1>6, <2>1, <2>2, StaysInside
  <2>3. CASE Raises(m)
    BY <1>2, <1>7, <2>1, <2>3, StaysInside DEF m
  <2> QED BY <1>9, <2>2, <2>3 DEF Renew, m
<1>10. CASE EnsureOwned(k)
  <2>1. pc[k] = "body" /\ UNCHANGED <<fleet, held, minted, tok, seen, left, proof, alone>>
    BY <1>10 DEF EnsureOwned
  <2>2. CASE /\ RenewScript(tok[k])
             /\ Goto(k, IF key = tok[k] THEN "body" ELSE "release")
             /\ UNCHANGED <<late, faults>>
    <3>1. CASE key = tok[k]
      <4>1. pc' = pc
        BY <1>1, <2>1, <2>2, <3>1 DEF Goto, TypeOK
      <4> QED BY <1>2, <1>6, <2>1, <2>2, <4>1, StaysInside
    <3>2. CASE key # tok[k]
      BY <1>1, <1>2, <1>3, <1>4, <1>6, <2>1, <2>2, <3>2, Goes, TaskStep
    <3> QED BY <3>1, <3>2
  <2>3. CASE Raises(m) /\ Goto(k, "release")
    BY <1>1, <1>2, <1>3, <1>4, <1>7, <2>1, <2>3, Goes, TaskStep
  <2>4. CASE Goto(k, "release") /\ UNCHANGED <<lock, lost, late, faults>>
    BY <1>1, <1>2, <1>3, <1>4, <2>1, <2>4, Goes, Passive, TaskStep
  <2> QED BY <1>10, <2>2, <2>3, <2>4 DEF EnsureOwned, m
<1>11. CASE Return(k)
  <2>1. /\ pc[k] = "body" /\ RenewScript(tok[k])
        /\ UNCHANGED <<fleet, held, minted, tok, seen, left, proof, alone, late, faults>>
    BY <1>11 DEF Return
  <2>2. PICK l \in {"fenced", "release"} : Goto(k, l)
    BY <1>11 DEF Return
  <2> QED BY <1>1, <1>2, <1>3, <1>4, <1>6, <2>1, <2>2, Goes, TaskStep
<1>12. CASE Raise(k)
  <2>1. /\ pc[k] = "body" /\ Goto(k, "release")
        /\ UNCHANGED <<lock, fleet, held, minted, tok, seen, left, proof, lost, alone, late, faults>>
    BY <1>12 DEF Raise
  <2> QED BY <1>1, <1>2, <1>3, <1>4, <2>1, Goes, Passive, TaskStep
<1>13. CASE Release(k)
  <2> DEFINE d == Request("release", tok[k], NoToken)
  <2>1. /\ pc[k] \in {"fenced", "release"} /\ Discard(k) /\ UNCHANGED <<fleet, minted, alone>>
        /\ (ReleaseScript(tok[k]) /\ UNCHANGED <<late, faults>>) \/ Raises(d)
    BY <1>13 DEF Release
  <2>2. OwnCall(k, d) /\ d \in Call /\ (ReleaseScript(tok[k]) => Execute(d))
    BY <1>1, <2>1, OwnRequests, Executed DEF OwnCall
  <2> HIDE DEF d
  <2>3. Calls(k)
    BY <1>1, <2>1, <2>2, Discarded, RaisesCalls DEF Calls
  <2> QED BY <1>1, <1>2, <2>1, <2>3, Discarded, TaskStep
<1> QED BY <1>8, <1>9, <1>10, <1>11, <1>12, <1>13 DEF HoldStep

LEMMA StartKeeps ==
    ASSUME IInv, NEW k \in Tasks, Start(k)
    PROVE  IInv'
<1>1. /\ TypeOK /\ Tokens /\ Drawn /\ Processes
      /\ \A j \in Tasks : Proven(j) /\ Secure(j)
      /\ \A m \in late : Harmless(m)
  BY DEF IInv
<1>2. TypeOK'
  BY <1>1, StartTypes
<1> DEFINE t == NewToken(k)
<1>3. /\ pc[k] = "idle" /\ life[Home[k]] = "up" /\ minted' = minted + 1 /\ minted \in Nat
      /\ minted < MaxToken
      /\ UNCHANGED <<lock, fleet, seen, proof, lost, alone, late, faults>>
  BY <1>1, LockAssumption DEF Start, TypeOK
<1>4. /\ pc'[k] = "set" /\ tok'[k] = t
      /\ \A j \in Tasks \ {k} : pc'[j] = pc[j] /\ tok'[j] = tok[j] /\ left'[j] = left[j]
  BY <1>1 DEF Start, TypeOK, Goto
<1>5. /\ t \in Token /\ t.nonce = minted + 1 /\ t # NoToken
      /\ k \in Opaque => t.owner = None
      /\ k \notin Opaque => t.owner = Home[k] /\ t.boot = boot[Home[k]]
  BY <1>1, <1>3, NewTokenTypes, NoTokenIsNone
<1> HIDE DEF t
<1>6. ASSUME NEW x \in Value, x.nonce <= minted PROVE x # t
  BY <1>3, <1>5, <1>6
<1>7. ASSUME NEW j \in Tasks PROVE tok[j] # t
  BY <1>1, <1>5, <1>6, NoTokenIsNone DEF Tokens, TokenOf
<1>8. ASSUME NEW x \in Value, x.nonce <= minted, Retired(x) PROVE Retired(x)'
  BY <1>4, <1>6, <1>8 DEF Retired
<1>9. Tokens'
  <2>1. ASSUME NEW j \in Tasks PROVE TokenOf(j)'
    <3>1. CASE j = k
      BY <1>3, <1>4, <1>5, <3>1 DEF TokenOf, fleet
    <3>2. CASE j # k
      <4>1. TokenOf(j) /\ pc'[j] = pc[j] /\ tok'[j] = tok[j] /\ boot' = boot
        BY <1>1, <1>3, <1>4, <3>2 DEF Tokens, fleet
      <4>2. pc[j] # "idle" => tok[j].nonce <= minted'
        BY <1>3, <4>1, NoTokenIsNone DEF TokenOf
      <4> QED BY <4>1, <4>2 DEF TokenOf
    <3> QED BY <3>1, <3>2
  <2>2. ASSUME NEW i \in Tasks, NEW j \in Tasks, tok'[i] = tok'[j], tok'[j] # NoToken
        PROVE  i = j
    BY <1>1, <1>4, <1>7, <2>2 DEF Tokens
  <2> QED BY <2>1, <2>2 DEF Tokens
<1>10. Drawn'
  <2>1. \A x \in Value : x.nonce <= minted => x.nonce <= minted'
    BY <1>3, NoTokenIsNone
  <2>2. key \in Value /\ (\A j \in Tasks : seen[j] \in Value)
        /\ \A m \in late : m.tok \in Value /\ m.expect \in Value
    BY <1>1, CallFields DEF TypeOK
  <2> QED BY <1>1, <1>3, <2>1, <2>2 DEF Drawn, lock
<1>11. Processes'
  <2>1. ASSUME NEW c \in Owners, life[c] = "down" PROVE ~Busy(c)'
    BY <1>1, <1>3, <1>4, <2>1 DEF Processes, Busy
  <2> QED BY <1>1, <1>3, <2>1 DEF Processes, fleet
<1>12. ASSUME NEW j \in Tasks PROVE Proven(j)'
  <2>1. CASE j = k
    BY <1>4, <2>1 DEF Proven
  <2>2. CASE j # k
    <3>1. seen[j] \in Value /\ seen[j].nonce <= minted
      BY <1>1 DEF Drawn, TypeOK
    <3>2. Retired(seen[j]) => \A i \in Tasks : tok'[i] # seen[j]
      BY <1>8, <3>1 DEF Retired
    <3>3. /\ pc'[j] = pc[j] /\ seen'[j] = seen[j] /\ proof'[j] = proof[j]
          /\ life' = life /\ drainLeft' = drainLeft
      BY <1>3, <1>4, <2>2 DEF fleet
    <3> QED BY <1>1, <3>2, <3>3 DEF Proven, Retired
  <2> QED BY <2>1, <2>2
<1>13. ASSUME NEW m \in late' PROVE Harmless(m)'
  <2>1. m \in late /\ m \in Call /\ m.tok.nonce <= minted /\ m.expect.nonce <= minted
    BY <1>1, <1>3, <1>13 DEF Drawn, TypeOK
  <2>2. /\ Retired(m.tok) => Retired(m.tok)'
        /\ Retired(m.expect) => Retired(m.expect)'
    BY <1>8, <2>1, CallFields
  <2> QED BY <1>1, <2>1, <2>2 DEF Harmless
<1>14. ASSUME NEW j \in Tasks PROVE Secure(j)'
  <2>1. CASE j = k
    BY <1>4, <2>1, SecureOutside DEF Inside
  <2>2. CASE j # k
    <3>1. Undisturbed(j)
      BY <1>1, <1>3, IdleLock
    <3> QED BY <1>1, <1>2, <1>3, <1>4, <2>2, <3>1, SecureKept
  <2> QED BY <2>1, <2>2
<1> QED BY <1>2, <1>9, <1>10, <1>11, <1>12, <1>13, <1>14 DEF IInv

(* A call that arrives late finds nobody's key that it could displace.     *)
LEMMA ArriveKeeps ==
    ASSUME IInv, NEW m \in late, Arrive(m)
    PROVE  IInv'
<1>1. /\ TypeOK /\ Tokens /\ Drawn /\ Processes
      /\ \A j \in Tasks : Proven(j) /\ Secure(j)
      /\ \A x \in late : Harmless(x)
  BY DEF IInv
<1>2. TypeOK'
  BY <1>1, ArriveTypes
<1>3. /\ m \in Call /\ Execute(m) /\ late' = late \ {m}
      /\ UNCHANGED <<fleet, held, minted, holds, faults>>
  BY <1>1 DEF Arrive, TypeOK
<1>4. UNCHANGED <<pc, tok, seen, left, proof, lost, alone, life, drainLeft, boot, alive>>
  BY <1>3 DEF holds, fleet
<1>5. Tokens' /\ Processes' /\ (\A j \in Tasks : Proven(j)')
  BY <1>1, <1>3, <1>4 DEF Tokens, TokenOf, Processes, Busy, Proven, Retired
<1>6. \A x \in late' : Harmless(x)'
  BY <1>1, <1>3, <1>4 DEF Harmless, Retired
<1>7. Drawn'
  <2>1. key' \in {key, m.tok, NoToken}
    BY <1>1, <1>3, ScriptTypes DEF TypeOK
  <2>2. NoToken.nonce <= minted
    BY <1>1, NoTokenIsNone DEF TypeOK
  <2> QED BY <1>1, <1>3, <1>4, <2>1, <2>2 DEF Drawn
<1>8. ASSUME NEW j \in Tasks PROVE Secure(j)'
  <2>1. CASE pc[j] \in Inside
    <3>1. tok[j] # NoToken
      BY <1>1, <2>1, NoTokenIsNone DEF Tokens, TokenOf, Inside
    <3>2. m.kind = "set" => key = tok[j] \/ m.tok # tok[j]
      BY <1>1, <2>1 DEF Secure
    <3>3. /\ m.kind = "steal" => m.expect # tok[j] /\ m.tok # tok[j]
          /\ m.kind = "release" => m.tok # tok[j]
      BY <1>1 DEF Harmless, Retired
    <3>4. Undisturbed(j)
      BY <1>1, <1>3, <3>1, <3>2, <3>3, MildLeaves DEF Mild
    <3> QED BY <1>1, <1>2, <1>3, <1>4, <3>4, SecureKept
  <2>2. CASE pc[j] \notin Inside
    BY <1>4, <2>2, SecureOutside
  <2> QED BY <2>1, <2>2
<1> QED BY <1>2, <1>5, <1>6, <1>7, <1>8 DEF IInv

-----------------------------------------------------------------------------
(* Processes and time.                                                     *)

(* A step that leaves the key, the calls under way and the tasks that are  *)
(* inside alone.                                                           *)
LEMMA SecureThrough ==
    ASSUME IInv, TypeOK', UNCHANGED <<lock, late, alone>>, NEW j \in Tasks,
           \/ pc'[j] \notin Inside
           \/ /\ pc'[j] = pc[j] /\ tok'[j] = tok[j]
              /\ left'[j] = left[j] /\ proof'[j] = proof[j]
    PROVE  Secure(j)'
<1>1. TypeOK /\ Secure(j) /\ Undisturbed(j)
  BY IdleLock DEF IInv
<1>2. CASE pc'[j] \notin Inside
  BY <1>2, SecureOutside
<1>3. CASE /\ pc'[j] = pc[j] /\ tok'[j] = tok[j]
           /\ left'[j] = left[j] /\ proof'[j] = proof[j]
  BY <1>1, <1>3, SecureKept
<1> QED BY <1>2, <1>3

(* A process ends or begins while its tasks, if it has any, go on.         *)
LEMMA LivenessKeeps ==
    ASSUME IInv, NEW c \in Owners, LivenessExpires(c) \/ Drained(c) \/ Restart(c)
    PROVE  IInv'
<1>1. /\ TypeOK /\ Tokens /\ Drawn /\ Processes
      /\ \A j \in Tasks : Proven(j) /\ Secure(j)
      /\ \A m \in late : Harmless(m)
  BY DEF IInv
<1>2. TypeOK'
  BY <1>1, ProcessTypes
<1>3. UNCHANGED <<key, keyLeft, boot, minted, pc, tok, seen, left, proof, alone, late>>
  BY DEF LivenessExpires, Drained, Restart, lock, holds
<1>4. \A d \in Owners \ {c} :
        life'[d] = life[d] /\ alive'[d] = alive[d] /\ drainLeft'[d] = drainLeft[d]
  BY <1>1 DEF LivenessExpires, Drained, Restart, TypeOK
<1>5. \/ life[c] = "up" /\ life'[c] = "draining"
      \/ life[c] = "draining" /\ ~Busy(c) /\ life'[c] = "down"
      \/ life[c] = "down" /\ life'[c] = "up" /\ alive'[c] > 0
  BY <1>1, LockAssumption DEF LivenessExpires, Drained, Restart, TypeOK
<1>6. Tokens' /\ Drawn' /\ (\A m \in late' : Harmless(m)')
  BY <1>1, <1>3 DEF Tokens, TokenOf, Drawn, Harmless, Retired
<1>7. Processes'
  <2>1. \A d \in Owners : Busy(d)' <=> Busy(d)
    BY <1>3 DEF Busy
  <2> QED BY <1>1, <1>4, <1>5, <2>1 DEF Processes
<1>8. ASSUME NEW j \in Tasks PROVE Proven(j)'
  <2>1. CASE pc[j] = "sleep" /\ seen[j].owner = c /\ ~Retired(seen[j])
    <3>1. seen[j] \in Token /\ life[c] = "draining"
      BY <1>1, <2>1 DEF Proven
    <3>2. ~Busy(c)
      BY <1>5, <3>1
    <3> QED BY <1>1, <2>1, <3>1, <3>2, QuietOwner
  <2>2. CASE pc[j] # "sleep" \/ seen[j].owner # c \/ Retired(seen[j])
    <3>1. pc[j] = "sleep" => seen[j].owner \in Owners
      BY <1>1 DEF Proven
    <3> QED BY <1>1, <1>3, <1>4, <2>2, <3>1 DEF Proven, Retired
  <2> QED BY <2>1, <2>2
<1>9. \A j \in Tasks : Secure(j)'
  BY <1>2, <1>3, SecureThrough DEF lock
<1> QED BY <1>2, <1>6, <1>7, <1>8, <1>9 DEF IInv

(* A crash retires the tokens of the boot.                                 *)
LEMMA CrashKeeps ==
    ASSUME IInv, NEW c \in Owners, Crash(c)
    PROVE  IInv'
<1>1. /\ TypeOK /\ Tokens /\ Drawn /\ Processes
      /\ \A j \in Tasks : Proven(j) /\ Secure(j)
      /\ \A m \in late : Harmless(m)
  BY DEF IInv
<1>2. TypeOK'
  BY <1>1, ProcessTypes
<1>3. UNCHANGED <<lock, alive, minted, alone, late, faults>>
  BY DEF Crash
<1>4. /\ life'[c] = "down"
      /\ \A d \in Owners \ {c} :
            life'[d] = life[d] /\ boot'[d] = boot[d] /\ drainLeft'[d] = drainLeft[d]
  BY <1>1 DEF Crash, TypeOK
<1>5. ASSUME NEW k \in Tasks
      PROVE  /\ Home[k] = c => pc'[k] = "idle" /\ tok'[k] = NoToken /\ seen'[k] = NoToken
             /\ Home[k] # c => /\ pc'[k] = pc[k] /\ tok'[k] = tok[k] /\ seen'[k] = seen[k]
                               /\ left'[k] = left[k] /\ proof'[k] = proof[k]
  BY DEF Crash
<1>6. \A k \in Tasks : Home[k] \in Owners
  BY LockAssumption
<1>7. Tokens'
  <2>1. ASSUME NEW k \in Tasks PROVE TokenOf(k)'
    BY <1>1, <1>3, <1>4, <1>5, <1>6 DEF Tokens, TokenOf
  <2>2. ASSUME NEW j \in Tasks, NEW k \in Tasks, tok'[j] = tok'[k], tok'[k] # NoToken
        PROVE  j = k
    BY <1>1, <1>5, <2>2 DEF Tokens
  <2> QED BY <2>1, <2>2 DEF Tokens
<1>8. ASSUME NEW t \in Token, Retired(t) PROVE \A k \in Tasks : tok'[k] # t
  BY <1>5, <1>8, NoTokenIsNone DEF Retired
<1>9. ASSUME NEW t \in Token, t.owner = c PROVE \A k \in Tasks : tok'[k] # t
  BY <1>1, <1>5, <1>9, OwnersToken, NoTokenIsNone
<1>10. Drawn'
  <2>1. NoToken.nonce <= minted
    BY <1>1, NoTokenIsNone DEF TypeOK
  <2>2. \A k \in Tasks : seen'[k] \in {seen[k], NoToken}
    BY <1>5
  <2> QED BY <1>1, <1>3, <2>1, <2>2 DEF Drawn, lock
<1>11. Processes'
  <2>1. \A d \in Owners : Busy(d)' => Busy(d) /\ d # c
    BY <1>5 DEF Busy
  <2> QED BY <1>1, <1>3, <1>4, <2>1 DEF Processes
<1>12. ASSUME NEW j \in Tasks PROVE Proven(j)'
  <2>1. CASE Home[j] = c
    BY <1>5, <2>1 DEF Proven
  <2>2. CASE Home[j] # c
    <3>1. pc[j] \in {"check", "sleep", "recheck", "steal"} =>
            /\ Retired(seen[j]) => \A k \in Tasks : tok'[k] # seen[j]
            /\ seen[j].owner = c => \A k \in Tasks : tok'[k] # seen[j]
      BY <1>1, <1>8, <1>9 DEF Proven
    <3>2. pc'[j] = pc[j] /\ seen'[j] = seen[j] /\ proof'[j] = proof[j]
      BY <1>5, <2>2
    <3> QED BY <1>1, <1>4, <3>1, <3>2 DEF Proven, Retired
  <2> QED BY <2>1, <2>2
<1>13. ASSUME NEW m \in late' PROVE Harmless(m)'
  BY <1>1, <1>3, <1>8 DEF Harmless, Retired
<1>14. ASSUME NEW j \in Tasks PROVE Secure(j)'
  BY <1>2, <1>3, <1>5, SecureThrough DEF Inside
<1> QED BY <1>2, <1>7, <1>10, <1>11, <1>12, <1>13, <1>14 DEF IInv

(* Time passes: a key that is not overdue has life left, and a proof in    *)
(* progress outlasts the teardown it waits for.                            *)
LEMMA TickKeeps ==
    ASSUME IInv, Tick
    PROVE  IInv'
<1>1. /\ TypeOK /\ Tokens /\ Drawn /\ Processes
      /\ \A j \in Tasks : Proven(j) /\ Secure(j)
      /\ \A m \in late : Harmless(m)
  BY DEF IInv
<1>2. TypeOK'
  BY <1>1, TickTypes
<1>3. /\ UNCHANGED <<life, boot, held, minted, pc, tok, seen, lost, alone, faults>>
      /\ keyLeft' = Dec(keyLeft) /\ key' = (IF keyLeft <= 1 THEN NoToken ELSE key)
      /\ late' = {[m EXCEPT !.age = @ + 1] : m \in late}
  BY DEF Tick
<1>4. ASSUME NEW n \in late'
      PROVE  \E m \in late : /\ n.kind = m.kind /\ n.tok = m.tok /\ n.expect = m.expect
                             /\ m.age \in Nat /\ n.age = m.age + 1 /\ m.age < MaxDelay
  <2>1. PICK m \in late : n = [m EXCEPT !.age = @ + 1]
    BY <1>3
  <2>2. m \in Call /\ m.age < MaxDelay
    BY <1>1 DEF TypeOK, Tick
  <2>3. n.kind = m.kind /\ n.tok = m.tok /\ n.expect = m.expect /\ n.age = m.age + 1
    BY <2>1, <2>2 DEF Call
  <2>4. m.age \in Nat
    BY <2>2, CallFields, LockAssumption
  <2> QED BY <2>2, <2>3, <2>4
<1>5. Tokens'
  BY <1>1, <1>3 DEF Tokens, TokenOf
<1>6. Drawn'
  <2>1. NoToken.nonce <= minted
    BY <1>1, NoTokenIsNone DEF TypeOK
  <2> QED BY <1>1, <1>3, <1>4, <2>1 DEF Drawn
<1>7. Processes'
  <2>1. \A c \in Owners : life[c] = "up" => alive'[c] = AliveTTL
    BY DEF Tick
  <2> QED BY <1>1, <1>3, <2>1, LockAssumption DEF Processes, Busy
<1>8. ASSUME NEW j \in Tasks PROVE Proven(j)'
  <2>1. CASE pc[j] = "sleep" /\ ~Retired(seen[j])
    <3> DEFINE c == seen[j].owner
    <3>1. /\ seen[j] \in Token /\ c \in Owners
          /\ life[c] = "draining" /\ drainLeft[c] < proof[j]
      BY <1>1, <2>1 DEF Proven
    <3>2. Busy(c)
      BY <1>1, <2>1, <3>1, QuietOwner
    <3>3. drainLeft[c] \in Nat /\ drainLeft[c] > 0 /\ proof[j] \in Nat
      BY <1>1, <3>1, <3>2, LockAssumption DEF Tick, TypeOK
    <3>4. drainLeft'[c] = drainLeft[c] - 1 /\ proof'[j] = proof[j] - 1
      BY <3>1, <3>3 DEF Tick, Dec
    <3>5. drainLeft'[c] < proof'[j]
      BY <3>1, <3>3, <3>4
    <3> QED BY <1>3, <2>1, <3>1, <3>5 DEF Proven
  <2>2. CASE pc[j] # "sleep" \/ Retired(seen[j])
    BY <1>1, <1>3, <2>2 DEF Proven, Retired
  <2> QED BY <2>1, <2>2
<1>9. ASSUME NEW n \in late' PROVE Harmless(n)'
  BY <1>1, <1>3, <1>4, <1>9 DEF Harmless, Retired
<1>10. ASSUME NEW j \in Tasks PROVE Secure(j)'
  <2> SUFFICES ASSUME pc[j] \in Inside PROVE Secure(j)'
    BY <1>3, SecureOutside
  <2>1. tok[j] # NoToken
    BY <1>1, NoTokenIsNone DEF Tokens, TokenOf, Inside
  <2>2. keyLeft \in Nat /\ LockTTL \in Nat /\ Since(j) \in Int
    BY <1>1, LockAssumption DEF TypeOK, Since
  <2>3. Since(j)' = Since(j) + 1
    <3>1. left[j] \in Nat /\ proof[j] \in Nat /\ MaxReply \in Nat /\ MaxBody \in Nat
      BY <1>1, LockAssumption DEF TypeOK
    <3>2. CASE pc[j] = "won"
      BY <1>3, <3>1, <3>2 DEF Tick, Since, Dec
    <3>3. CASE pc[j] = "body"
      BY <1>3, <3>1, <3>3 DEF Tick, Since, Dec
    <3> QED BY <3>2, <3>3 DEF Inside
  <2>4. /\ Since(j) >= 0
        /\ Since(j) < LockTTL => key = tok[j] /\ keyLeft + Since(j) >= LockTTL
        /\ key = tok[j] => alone[j]
        /\ \A m \in late : m.kind = "set" /\ m.tok = tok[j] =>
              key = tok[j] /\ keyLeft + m.age >= LockTTL
    BY <1>1 DEF Secure
  <2>5. keyLeft >= 2 => key' = key /\ keyLeft' = keyLeft - 1
    BY <1>3, <2>2 DEF Dec
  <2>6. key' = tok[j] => key = tok[j]
    BY <1>3, <2>1
  <2>7. Since(j) + 1 < LockTTL => key' = tok[j] /\ keyLeft' + (Since(j) + 1) >= LockTTL
    BY <2>2, <2>4, <2>5
  <2>8. ASSUME NEW n \in late', n.kind = "set", n.tok = tok[j]
        PROVE  key' = tok[j] /\ keyLeft' + n.age >= LockTTL
    <3>1. PICK m \in late : /\ n.kind = m.kind /\ n.tok = m.tok
                            /\ m.age \in Nat /\ n.age = m.age + 1 /\ m.age < MaxDelay
      BY <1>4
    <3>2. key = tok[j] /\ keyLeft + m.age >= LockTTL
      BY <2>4, <2>8, <3>1
    <3>3. keyLeft >= 2
      BY <2>2, <3>1, <3>2, LockAssumption
    <3> QED BY <2>2, <2>5, <3>1, <3>2, <3>3
  <2> QED BY <1>3, <2>2, <2>3, <2>4, <2>6, <2>7, <2>8 DEF Secure
<1> QED BY <1>2, <1>5, <1>6, <1>7, <1>8, <1>9, <1>10 DEF IInv

-----------------------------------------------------------------------------
(* The invariant.                                                          *)

LEMMA InvInit == Init => IInv
<1> SUFFICES ASSUME Init PROVE IInv
  OBVIOUS
<1>1. TypeOK
  <2>1. /\ AliveTTL \in 0..AliveTTL /\ 0 \in 0..Drain /\ 0 \in 0..MaxBoot /\ 0 \in 0..LockTTL
        /\ 0 \in 0..MaxToken /\ 0 \in 0..MaxFault /\ "idle" \in Phases /\ NoToken \in Value
    BY LockAssumption, NoTokenIsNone DEF Phases
  <2> QED BY <2>1 DEF Init, TypeOK
<1>2. Tokens /\ Drawn
  BY NoTokenIsNone DEF Init, Tokens, TokenOf, Drawn
<1>3. Processes
  BY LockAssumption DEF Init, Processes
<1>4. (\A k \in Tasks : Proven(k) /\ Secure(k)) /\ \A m \in late : Harmless(m)
  BY DEF Init, Proven, Secure, Inside
<1> QED BY <1>1, <1>2, <1>3, <1>4 DEF IInv

LEMMA InvStutter ==
    ASSUME IInv, UNCHANGED vars
    PROVE  IInv'
<1>1. UNCHANGED <<key, keyLeft, alive, life, drainLeft, boot, held, minted,
                  pc, tok, seen, left, proof, lost, alone, late, faults>>
  BY DEF vars, lock, fleet, holds
<1>2. TypeOK' /\ Tokens' /\ Drawn' /\ Processes'
  BY <1>1 DEF IInv, TypeOK, Tokens, TokenOf, Drawn, Processes, Busy
<1>3. (\A k \in Tasks : Proven(k)') /\ (\A m \in late' : Harmless(m)')
  BY <1>1 DEF IInv, Proven, Harmless, Retired
<1>4. \A k \in Tasks : Secure(k)'
  BY <1>1 DEF IInv, Secure, Since
<1> QED BY <1>2, <1>3, <1>4 DEF IInv

LEMMA InvNext == IInv /\ [Next]_vars => IInv'
<1> SUFFICES ASSUME IInv, [Next]_vars PROVE IInv'
  OBVIOUS
<1>1. ASSUME NEW k \in Tasks, Start(k) \/ AcquireStep(k) \/ HoldStep(k) PROVE IInv'
  BY <1>1, StartKeeps, AcquireKeeps, HoldKeeps
<1>2. ASSUME NEW m \in late, Arrive(m) PROVE IInv'
  BY <1>2, ArriveKeeps
<1>3. ASSUME NEW c \in Owners, LivenessExpires(c) \/ Drained(c) \/ Crash(c) \/ Restart(c)
      PROVE  IInv'
  BY <1>3, LivenessKeeps, CrashKeeps
<1>4. CASE Tick
  BY <1>4, TickKeeps
<1>5. CASE UNCHANGED vars
  BY <1>5, InvStutter
<1> QED BY <1>1, <1>2, <1>3, <1>4, <1>5 DEF Next

(* Whatever processes crash, are torn down or restart, and whichever calls *)
(* are lost, late or repeated: steals are only ever sent for tokens nobody *)
(* has any more, and the key of a task inside is its own until a whole TTL *)
(* has passed (ThreadLock._try_steal, _STEAL_LUA, hold).                   *)
THEOREM LockInvariant == Spec => []IInv
  BY InvInit, InvNext, PTL DEF Spec

(* Every variable keeps its type: in particular every key and every value  *)
(* a task has read is a token that was drawn, and no life exceeds its TTL. *)
THEOREM LockTypes == Spec => []TypeOK
<1>1. IInv => TypeOK
  BY DEF IInv
<1> QED BY <1>1, LockInvariant, PTL

(* Two tasks are never inside the critical section of the thread at once,  *)
(* unless one of them has been inside for a whole TTL (ThreadLock.hold).   *)
THEOREM LockOneInside == Spec => []OneInside
<1>1. IInv => OneInside
  <2> SUFFICES ASSUME IInv, NEW j \in Tasks, NEW k \in Tasks,
                      pc[j] \in Inside, pc[k] \in Inside, ~Overdue(j), ~Overdue(k)
               PROVE  j = k
    BY DEF OneInside
  <2>1. LockTTL \in Int /\ Since(j) \in Int /\ Since(k) \in Int
    BY LockAssumption DEF IInv, TypeOK, Since
  <2>2. key = tok[j] /\ key = tok[k]
    BY <2>1 DEF IInv, Secure, Overdue
  <2>3. tok[k] # NoToken
    BY NoTokenIsNone DEF IInv, Tokens, TokenOf, Inside
  <2> QED BY <2>2, <2>3 DEF IInv, Tokens
<1> QED BY <1>1, LockInvariant, PTL

(* Whatever passes ensure_owned has had the thread to itself since it won  *)
(* the key, however long it took (LockLease.ensure_owned, hold's return).  *)
THEOREM LockTokenMeansAlone == Spec => []TokenMeansAlone
<1>1. IInv => TokenMeansAlone
  BY DEF IInv, Secure, TokenMeansAlone, Inside
<1> QED BY <1>1, LockInvariant, PTL

=============================================================================
