-------------------------- MODULE RequestAuthProofs --------------------------
(***************************************************************************)
(* RequestAuth for any number of requests and handlers, and any clock      *)
(* parameters that satisfy WindowAssumption.                               *)
(***************************************************************************)
EXTENDS RequestAuth, TLAPS

-----------------------------------------------------------------------------
\* Every variable keeps its type.
THEOREM AuthTypeCorrect == Spec => []TypeOK
<1>1. Init => TypeOK
  BY RequestsAssumption, WindowAssumption DEF Init, TypeOK
<1>2. TypeOK /\ [Next]_vars => TypeOK'
  <2> SUFFICES ASSUME TypeOK, [Next]_vars PROVE TypeOK'
    OBVIOUS
  <2>1. \A h \in Handlers, n \in Nonces : \A s \in Stages :
          Job(h, n, s) \in [id: Handlers, nonce: Nonces, stage: Stages, since: Nat]
    BY DEF Job, TypeOK
  <2>2. \A n \in Nonces : Counted(n) \in [Nonces -> 0 .. 2]
    <3> SUFFICES ASSUME NEW n \in Nonces PROVE Counted(n) \in [Nonces -> 0 .. 2]
      OBVIOUS
    <3> DEFINE count == IF effects[n] < 2 THEN effects[n] + 1 ELSE 2
    <3>1. count \in 0 .. 2
      BY DEF TypeOK
    <3>2. Counted(n) = [effects EXCEPT ![n] = count]
      BY DEF Counted
    <3> HIDE DEF count
    <3> QED BY <3>1, <3>2 DEF TypeOK
  <2>3. \A n \in Nonces : Record(n) => seen' \subseteq [nonce: Nonces, at: Nat]
    BY DEF Record, Remembered, TypeOK
  <2>4. \A n \in Nonces : Replay(n) => seen' \subseteq [nonce: Nonces, at: Nat]
    BY DEF Replay, Remembered, TypeOK
  <2>5. CASE Tick \/ ClockSet \/ RowDeleted
    <3>1. CASE Tick
      BY <3>1 DEF Tick, TypeOK
    <3>2. CASE ClockSet
      BY <3>2 DEF ClockSet, TypeOK
    <3>3. CASE RowDeleted
      BY <3>3 DEF RowDeleted, TypeOK
    <3> QED BY <2>5, <3>1, <3>2, <3>3
  <2>6. CASE Restart
    BY <2>6 DEF Restart, TypeOK
  <2>7. ASSUME NEW r \in running, HeartbeatNonce(r) PROVE TypeOK'
    <3>1. r.id \in Handlers /\ r.nonce \in Nonces
      BY DEF TypeOK
    <3>2. running' \subseteq [id: Handlers, nonce: Nonces, stage: Stages, since: Nat]
      BY <2>1, <2>7, <3>1 DEF HeartbeatNonce, TypeOK, Stages
    <3>3. seen' \subseteq [nonce: Nonces, at: Nat]
      BY <2>3, <2>4, <2>7, <3>1 DEF HeartbeatNonce
    <3> QED BY <2>7, <3>2, <3>3 DEF HeartbeatNonce, TypeOK
  <2>8. ASSUME NEW r \in running, HeartbeatApply(r) \/ HeartbeatFails(r) \/ ChatRuns(r) PROVE TypeOK'
    <3>1. r.nonce \in Nonces
      BY DEF TypeOK
    <3> QED BY <2>2, <2>8, <3>1 DEF HeartbeatApply, HeartbeatFails, ChatRuns, Counts, Lost, TypeOK
  <2>9. ASSUME NEW h \in Handlers, NEW n \in Nonces, HeartbeatVerify(h, n) PROVE TypeOK'
    BY <2>1, <2>9 DEF HeartbeatVerify, TypeOK, Stages
  <2>10. ASSUME NEW h \in Handlers, NEW n \in Nonces, NEW intact \in BOOLEAN,
                ChatVerify(h, n, intact)
         PROVE  TypeOK'
    <3>1. running' \subseteq [id: Handlers, nonce: Nonces, stage: Stages, since: Nat]
      BY <2>1, <2>10 DEF ChatVerify, TypeOK, Stages
    <3>2. seen' \subseteq [nonce: Nonces, at: Nat]
      BY <2>3, <2>4, <2>10 DEF ChatVerify, TypeOK
    <3>3. lost' \subseteq Nonces
      BY <2>10 DEF ChatVerify, TypeOK
    <3> QED BY <2>10, <3>1, <3>2, <3>3 DEF ChatVerify, TypeOK
  <2>11. CASE UNCHANGED vars
    BY <2>11 DEF vars, TypeOK
  <2> QED BY <2>5, <2>6, <2>7, <2>8, <2>9, <2>10, <2>11 DEF Next
<1> QED BY <1>1, <1>2, PTL DEF Spec

-----------------------------------------------------------------------------
(* AtMostOnce is not inductive: it needs to know that what took effect is     *)
(* still remembered, or too old for any copy to pass the skew check.          *)

Taken(n) ==
  effects[n] > 0 \/ \E r \in running : r.nonce = n /\ r.stage = "accepted"

Spent(n) == Taken(n) \/ n \in lost

\* No copy is acceptable any more, nor has a handler at work that verified one.
TooLate(n) == now > request[n].issued + Skew + MaxDelay

\* The earliest moment a copy can have been recorded.
Window(n) == request[n].issued - Skew - MaxStep

VerifiedInv ==
  \A r \in running : r.stage = "verified" =>
    /\ request[r.nonce].kind = "heartbeat"
    /\ r.since <= now /\ now <= r.since + MaxDelay
    /\ Window(r.nonce) <= r.since /\ r.since <= request[r.nonce].issued + Skew

SeenInv == \A s \in seen : Guarded(s.nonce) => Window(s.nonce) <= s.at

MemoryInv ==
  \A n \in Nonces : Guarded(n) /\ Spent(n) => TooLate(n) \/ \E s \in seen : s.nonce = n

LostInv == \A n \in lost : Guarded(n) => ~Taken(n)

AuthInv == VerifiedInv /\ SeenInv /\ MemoryInv /\ LostInv /\ AtMostOnce

\* What a lookup drops is too old to matter.
LEMMA Forgotten ==
  ASSUME TypeOK, SeenInv, NEW s \in seen, s \notin Remembered(seen), Guarded(s.nonce)
  PROVE  TooLate(s.nonce)
<1>1. s.nonce \in Nonces /\ s.at \in Nat /\ now \in Nat /\ request[s.nonce].issued \in Int
  BY DEF TypeOK, Request
<1>2. now - s.at >= Retention
  BY <1>1, WindowAssumption DEF Remembered
<1>3. Window(s.nonce) <= s.at
  BY DEF SeenInv
<1> QED BY <1>1, <1>2, <1>3, WindowAssumption DEF Window, TooLate

\* A nonce that passes the lookup in time has had no effect yet.
LEMMA FreshUnspent ==
  ASSUME TypeOK, SeenInv, MemoryInv, NEW n \in Nonces, Guarded(n), Fresh(n), ~TooLate(n)
  PROVE  ~Spent(n)
<1> SUFFICES ASSUME Spent(n) PROVE FALSE
  OBVIOUS
<1> PICK s \in seen : s.nonce = n
  BY DEF MemoryInv
<1>1. s \notin Remembered(seen)
  BY DEF Fresh
<1> QED BY <1>1, Forgotten

\* A copy that passes the skew check lies in the window of its nonce.
LEMMA TimelyWindow ==
  ASSUME TypeOK, NEW n \in Nonces, Timely(n)
  PROVE  ~TooLate(n) /\ Window(n) <= now /\ now <= request[n].issued + Skew
<1>1. request[n].issued \in Int /\ now \in Nat /\ step \in 0 .. MaxStep
  BY DEF TypeOK, Request
<1> QED BY <1>1, WindowAssumption DEF Timely, Wall, TooLate, Window

\* A lookup keeps what MemoryInv needs, whether it records or refuses.
LEMMA LookupMemory ==
  ASSUME TypeOK, SeenInv, NEW n \in Nonces, UNCHANGED <<request, now>>,
         (Record(n) /\ (Guarded(n) => Window(n) <= now)) \/ Replay(n)
  PROVE  /\ SeenInv'
         /\ \A s \in seen : Guarded(s.nonce) =>
              TooLate(s.nonce) \/ \E t \in seen' : t.nonce = s.nonce
<1>1. Remembered(seen) \subseteq seen'
  BY DEF Record, Replay
<1>2. \A t \in seen' : t \in seen \/ (t.nonce = n /\ t.at = now /\ (Guarded(n) => Window(n) <= now))
  BY DEF Record, Replay, Remembered
<1>3. SeenInv'
  BY <1>2 DEF SeenInv, Guarded, Window
<1>4. ASSUME NEW s \in seen, Guarded(s.nonce)
      PROVE  TooLate(s.nonce) \/ \E t \in seen' : t.nonce = s.nonce
  BY <1>1, <1>4, Forgotten
<1> QED BY <1>3, <1>4

\* A nonce that is recorded in time takes effect for the first time.
LEMMA AcceptAuth ==
  ASSUME TypeOK, AuthInv, NEW n \in Nonces, Guarded(n), Fresh(n), Record(n),
         ~TooLate(n), Window(n) <= now,
         UNCHANGED <<request, now, effects>>,
         NEW old \in SUBSET running, NEW h,
         \/ running' = old \cup {Job(h, n, "accepted")} /\ lost' = lost
         \/ running' = old /\ lost' = lost \cup {n}
  PROVE  AuthInv'
<1>1. ~Spent(n)
  BY FreshUnspent DEF AuthInv
<1>2. SeenInv' /\ \A s \in seen : Guarded(s.nonce) =>
                     TooLate(s.nonce) \/ \E t \in seen' : t.nonce = s.nonce
  BY LookupMemory DEF AuthInv
<1>3. \A r \in running' : r \in running \/ (r.nonce = n /\ r.stage = "accepted")
  BY DEF Job
<1>4. VerifiedInv'
  BY <1>3 DEF AuthInv, VerifiedInv, Window
<1>5. \E t \in seen' : t.nonce = n
  <2>1. [nonce |-> n, at |-> now] \in seen'
    BY DEF Record
  <2> QED BY <2>1
<1>6. \A m \in Nonces : Spent(m)' => Spent(m) \/ m = n
  BY <1>3 DEF Spent, Taken
<1>7. MemoryInv'
  <2> SUFFICES ASSUME NEW m \in Nonces, Guarded(m), Spent(m)'
               PROVE  TooLate(m) \/ \E t \in seen' : t.nonce = m
    BY DEF MemoryInv, Guarded, TooLate
  <2> QED BY <1>2, <1>5, <1>6 DEF AuthInv, MemoryInv
<1>8. AtMostOnce'
  <2> SUFFICES ASSUME NEW m \in Nonces, Guarded(m)
               PROVE  /\ effects[m] <= 1
                      /\ \A r \in running' : r.nonce = m /\ r.stage = "accepted" =>
                           /\ effects[m] = 0
                           /\ \A q \in running' : q.nonce = m /\ q.stage = "accepted" => q = r
    BY DEF AtMostOnce, Guarded
  <2>1. effects[n] = 0 /\ \A r \in running : ~(r.nonce = n /\ r.stage = "accepted")
    BY <1>1 DEF Spent, Taken, TypeOK
  <2>2. CASE m = n
    <3>1. \A r \in running' : r.nonce = n /\ r.stage = "accepted" => r = Job(h, n, "accepted")
      BY <2>1
    <3> QED BY <2>1, <2>2, <3>1
  <2>3. CASE m # n
    <3>1. \A r \in running' : r.nonce = m => r \in running
      BY <1>3, <2>3
    <3> QED BY <3>1 DEF AuthInv, AtMostOnce
  <2> QED BY <2>2, <2>3
<1>9. LostInv'
  <2>1. \A m \in Nonces : Taken(m)' => Taken(m) \/ m = n
    BY <1>3 DEF Taken
  <2>2. CASE running' = old /\ lost' = lost \cup {n}
    <3>1. \A m \in Nonces : Taken(m)' => Taken(m)
      BY <2>2 DEF Taken
    <3>2. n \in Nonces /\ ~Taken(n)
      BY <1>1 DEF Spent
    <3> QED BY <2>2, <3>1, <3>2 DEF AuthInv, LostInv, Guarded, TypeOK
  <2>3. CASE lost' = lost
    <3>1. n \notin lost
      BY <1>1 DEF Spent
    <3> QED BY <2>1, <2>3, <3>1 DEF AuthInv, LostInv, Guarded, TypeOK
  <2> QED BY <2>2, <2>3
<1> QED BY <1>2, <1>4, <1>7, <1>8, <1>9 DEF AuthInv

\* Steps that start nothing, count nothing and only forget what is too old.
LEMMA QuietAuth ==
  ASSUME TypeOK, AuthInv, UNCHANGED <<request, now, effects, lost>>, running' \subseteq running,
         SeenInv',
         \A s \in seen : Guarded(s.nonce) => TooLate(s.nonce) \/ \E t \in seen' : t.nonce = s.nonce
  PROVE  AuthInv'
<1>1. VerifiedInv'
  BY DEF AuthInv, VerifiedInv, Window
<1>2. MemoryInv'
  <2> SUFFICES ASSUME NEW n \in Nonces, Guarded(n), Spent(n)'
               PROVE  TooLate(n) \/ \E t \in seen' : t.nonce = n
    BY DEF MemoryInv, Guarded, TooLate
  <2>1. Spent(n)
    BY DEF Spent, Taken
  <2> QED BY <2>1 DEF AuthInv, MemoryInv
<1>3. AtMostOnce'
  BY DEF AuthInv, AtMostOnce, Guarded
<1>4. LostInv'
  BY DEF AuthInv, LostInv, Guarded, Taken
<1> QED BY <1>1, <1>2, <1>3, <1>4 DEF AuthInv

\* What AtMostOnce rests on holds in every state.
THEOREM AuthInvariant == Spec => []AuthInv
<1>1. Init => AuthInv
  BY DEF Init, AuthInv, VerifiedInv, SeenInv, MemoryInv, LostInv, Spent, Taken, AtMostOnce
<1>2. TypeOK /\ TypeOK' /\ AuthInv /\ [Next]_vars => AuthInv'
  <2> SUFFICES ASSUME TypeOK, TypeOK', AuthInv, [Next]_vars PROVE AuthInv'
    OBVIOUS
  <2>1. CASE Tick
    <3>1. /\ now' = now + 1 /\ now \in Nat
          /\ UNCHANGED <<request, seen, running, effects, lost>>
          /\ \A r \in running : r.stage = "verified" => now - r.since < MaxDelay
      BY <2>1 DEF Tick, TypeOK
    <3>2. VerifiedInv'
      <4> SUFFICES ASSUME NEW r \in running, r.stage = "verified"
                   PROVE  /\ request[r.nonce].kind = "heartbeat"
                          /\ r.since <= now + 1 /\ now + 1 <= r.since + MaxDelay
                          /\ Window(r.nonce) <= r.since
                          /\ r.since <= request[r.nonce].issued + Skew
        BY <3>1 DEF VerifiedInv, Window
      <4>1. r.since \in Nat
        BY DEF TypeOK
      <4> QED BY <3>1, <4>1, WindowAssumption DEF AuthInv, VerifiedInv
    <3>3. SeenInv'
      BY <3>1 DEF AuthInv, SeenInv, Guarded, Window
    <3>4. \A n \in Nonces : TooLate(n) => TooLate(n)'
      BY <3>1, WindowAssumption DEF TooLate, TypeOK, Request
    <3>5. MemoryInv'
      BY <3>1, <3>4 DEF AuthInv, MemoryInv, Guarded, Spent, Taken
    <3>6. AtMostOnce'
      BY <3>1 DEF AuthInv, AtMostOnce, Guarded
    <3>7. LostInv'
      BY <3>1 DEF AuthInv, LostInv, Guarded, Taken
    <3> QED BY <3>2, <3>3, <3>5, <3>6, <3>7 DEF AuthInv
  <2>2. CASE ClockSet \/ RowDeleted \/ UNCHANGED vars
    <3>1. UNCHANGED <<request, now, seen, running, effects, lost>>
      BY <2>2 DEF ClockSet, RowDeleted, vars
    <3> QED BY <3>1 DEF AuthInv, VerifiedInv, SeenInv, MemoryInv, LostInv, AtMostOnce, Spent,
                        Taken, TooLate, Window, Guarded
  <2>3. CASE Restart
    <3>1. /\ seen' = {} /\ running' = {} /\ effects' = [n \in Nonces |-> 0]
          /\ request' = request /\ lost' = {}
      BY <2>3 DEF Restart
    <3> QED BY <3>1 DEF AuthInv, VerifiedInv, SeenInv, MemoryInv, LostInv, AtMostOnce, Spent, Taken
  <2>4. ASSUME NEW r \in running, HeartbeatNonce(r) PROVE AuthInv'
    <3>1. r.nonce \in Nonces /\ r.since \in Nat /\ now \in Nat /\ request[r.nonce].issued \in Int
      BY DEF TypeOK, Request
    <3>2. /\ request[r.nonce].kind = "heartbeat"
          /\ r.since <= now /\ now <= r.since + MaxDelay
          /\ Window(r.nonce) <= r.since /\ r.since <= request[r.nonce].issued + Skew
      BY <2>4 DEF HeartbeatNonce, AuthInv, VerifiedInv
    <3>3. Guarded(r.nonce) /\ ~TooLate(r.nonce) /\ Window(r.nonce) <= now
      BY <3>1, <3>2, WindowAssumption DEF Guarded, TooLate, Window
    <3>4. UNCHANGED <<request, now, effects, lost>>
      BY <2>4 DEF HeartbeatNonce
    <3>5. CASE /\ Fresh(r.nonce) /\ Record(r.nonce)
               /\ running' = (running \ {r}) \cup {Job(r.id, r.nonce, "accepted")}
      BY <3>1, <3>3, <3>4, <3>5, AcceptAuth
    <3>6. CASE Replay(r.nonce) /\ running' = running \ {r}
      BY <3>1, <3>3, <3>4, <3>6, LookupMemory, QuietAuth DEF AuthInv
    <3> QED BY <2>4, <3>5, <3>6 DEF HeartbeatNonce
  <2>5. ASSUME NEW r \in running, HeartbeatApply(r) \/ HeartbeatFails(r) \/ ChatRuns(r)
        PROVE  AuthInv'
    <3>1. /\ r.stage = "accepted" /\ r.nonce \in Nonces /\ running' = running \ {r}
          /\ UNCHANGED <<request, now, seen>>
          /\ \/ effects' = effects /\ lost' = lost \cup {r.nonce}
             \/ effects' = Counted(r.nonce) /\ lost' = lost
      BY <2>5 DEF HeartbeatApply, HeartbeatFails, ChatRuns, Counts, Lost, TypeOK
    <3>2. \A n \in Nonces : n # r.nonce => effects'[n] = effects[n]
      BY <3>1 DEF Counted, TypeOK
    <3>3. VerifiedInv' /\ SeenInv'
      BY <3>1 DEF AuthInv, VerifiedInv, SeenInv, Window, Guarded
    <3>4. \A n \in Nonces : Spent(n)' => Spent(n)
      <4>1. Taken(r.nonce)
        BY <3>1 DEF Taken
      <4>2. \A n \in Nonces \ {r.nonce} : Taken(n)' => Taken(n)
        BY <3>1, <3>2 DEF Taken
      <4> QED BY <3>1, <4>1, <4>2 DEF Spent
    <3>5. MemoryInv'
      BY <3>1, <3>4 DEF AuthInv, MemoryInv, Guarded, TooLate
    <3>6. AtMostOnce'
      <4> SUFFICES ASSUME NEW n \in Nonces, Guarded(n)
                   PROVE  /\ effects'[n] <= 1
                          /\ \A q \in running' : q.nonce = n /\ q.stage = "accepted" =>
                               /\ effects'[n] = 0
                               /\ \A p \in running' :
                                    p.nonce = n /\ p.stage = "accepted" => p = q
        BY <3>1 DEF AtMostOnce, Guarded
      <4>1. CASE n = r.nonce
        <5>1. effects[n] = 0 /\ \A q \in running : q.nonce = n /\ q.stage = "accepted" => q = r
          BY <3>1, <4>1 DEF AuthInv, AtMostOnce
        <5>2. effects'[n] <= 1
          BY <3>1, <4>1, <5>1 DEF Counted, TypeOK
        <5> QED BY <3>1, <5>1, <5>2
      <4>2. CASE n # r.nonce
        BY <3>1, <3>2, <4>2 DEF AuthInv, AtMostOnce
      <4> QED BY <4>1, <4>2
    <3>7. LostInv'
      <4> SUFFICES ASSUME NEW n \in lost', Guarded(n)
                   PROVE  ~Taken(n)'
        BY <3>1 DEF LostInv, Guarded
      <4>0. n \in Nonces
        BY <3>1 DEF TypeOK
      <4>1. CASE n = r.nonce
        <5>1. effects[n] = 0 /\ \A q \in running : q.nonce = n /\ q.stage = "accepted" => q = r
          BY <3>1, <4>1 DEF AuthInv, AtMostOnce
        <5>2. r.nonce \notin lost
          BY <3>1, <4>1 DEF AuthInv, LostInv, Taken
        <5> QED BY <3>1, <4>1, <5>1, <5>2 DEF Taken
      <4>2. CASE n # r.nonce
        <5>1. n \in lost /\ ~Taken(n)
          BY <3>1, <4>2 DEF AuthInv, LostInv
        <5> QED BY <3>1, <3>2, <4>0, <5>1, <4>2 DEF Taken
      <4> QED BY <4>1, <4>2
    <3> QED BY <3>3, <3>5, <3>6, <3>7 DEF AuthInv
  <2>6. ASSUME NEW h \in Handlers, NEW n \in Nonces, HeartbeatVerify(h, n) PROVE AuthInv'
    <3>1. /\ running' = running \cup {Job(h, n, "verified")}
          /\ request[n].kind = "heartbeat" /\ Timely(n)
          /\ UNCHANGED <<request, now, seen, effects, lost>>
      BY <2>6 DEF HeartbeatVerify
    <3>2. Window(n) <= now /\ now <= request[n].issued + Skew /\ now \in Nat
      BY <3>1, TimelyWindow DEF TypeOK
    <3>3. \A r \in running' : r \in running \/ (r.nonce = n /\ r.stage = "verified" /\ r.since = now)
      BY <3>1 DEF Job
    <3>4. VerifiedInv'
      BY <3>1, <3>2, <3>3, WindowAssumption DEF AuthInv, VerifiedInv, Window
    <3>5. SeenInv'
      BY <3>1 DEF AuthInv, SeenInv, Window, Guarded
    <3>6. \A r \in running' : r.stage = "accepted" => r \in running
      BY <3>3
    <3>7. MemoryInv'
      BY <3>1, <3>6 DEF AuthInv, MemoryInv, Guarded, TooLate, Spent, Taken
    <3>8. AtMostOnce'
      BY <3>1, <3>6 DEF AuthInv, AtMostOnce, Guarded
    <3>9. LostInv'
      BY <3>1, <3>6 DEF AuthInv, LostInv, Guarded, Taken
    <3> QED BY <3>4, <3>5, <3>7, <3>8, <3>9 DEF AuthInv
  <2>7. ASSUME NEW h \in Handlers, NEW n \in Nonces, NEW intact \in BOOLEAN,
               ChatVerify(h, n, intact)
        PROVE  AuthInv'
    <3>1. UNCHANGED <<request, now, effects>> /\ request[n].kind # "heartbeat"
      BY <2>7 DEF ChatVerify
    <3>2. CASE /\ request[n].kind = "contributor"
               /\ running' = running \cup {Job(h, n, "accepted")} /\ UNCHANGED <<seen, lost>>
      <4>1. \A r \in running' : r \in running \/ (r.nonce = n /\ r.stage = "accepted")
        BY <3>2 DEF Job
      <4>2. VerifiedInv' /\ SeenInv'
        BY <3>1, <3>2, <4>1 DEF AuthInv, VerifiedInv, SeenInv, Window, Guarded
      <4>3. \A m \in Nonces : Guarded(m) => \A r \in running' : r.nonce = m => r \in running
        BY <3>2, <4>1 DEF Guarded
      <4>4. MemoryInv'
        BY <3>1, <3>2, <4>3 DEF AuthInv, MemoryInv, Guarded, TooLate, Spent, Taken
      <4>5. AtMostOnce'
        BY <3>1, <4>3 DEF AuthInv, AtMostOnce, Guarded
      <4>6. LostInv'
        BY <3>1, <3>2, <4>3 DEF AuthInv, LostInv, Guarded, Taken, TypeOK
      <4> QED BY <4>2, <4>4, <4>5, <4>6 DEF AuthInv
    <3>3. ASSUME Timely(n), Fresh(n), Record(n),
                 \/ running' = running \cup {Job(h, n, "accepted")} /\ lost' = lost
                 \/ running' = running /\ lost' = lost \cup {n}
          PROVE  AuthInv'
      <4>1. CASE Guarded(n)
        BY <3>1, <3>3, <4>1, TimelyWindow, AcceptAuth
      <4>2. CASE ~Guarded(n)
        <5>1. /\ SeenInv'
              /\ \A s \in seen : Guarded(s.nonce) =>
                   TooLate(s.nonce) \/ \E t \in seen' : t.nonce = s.nonce
          BY <3>1, <3>3, <4>2, LookupMemory DEF AuthInv
        <5>2. \A r \in running' : r \in running \/ (r.nonce = n /\ r.stage = "accepted")
          BY <3>3 DEF Job
        <5>3. VerifiedInv'
          BY <3>1, <5>2 DEF AuthInv, VerifiedInv, Window
        <5>4. \A m \in Nonces : Guarded(m) => \A r \in running' : r.nonce = m => r \in running
          BY <4>2, <5>2
        <5>5. MemoryInv'
          <6> SUFFICES ASSUME NEW m \in Nonces, Guarded(m), Spent(m)'
                       PROVE  TooLate(m) \/ \E t \in seen' : t.nonce = m
            BY <3>1 DEF MemoryInv, Guarded, TooLate
          <6>1. Spent(m)
            BY <3>1, <3>3, <4>2, <5>4 DEF Spent, Taken
          <6> QED BY <5>1, <6>1 DEF AuthInv, MemoryInv
        <5>6. AtMostOnce'
          BY <3>1, <5>4 DEF AuthInv, AtMostOnce, Guarded
        <5>7. LostInv'
          BY <3>1, <3>3, <4>2, <5>4 DEF AuthInv, LostInv, Guarded, Taken, TypeOK
        <5> QED BY <5>1, <5>3, <5>5, <5>6, <5>7 DEF AuthInv
      <4> QED BY <4>1, <4>2
    <3>4. CASE Replay(n) /\ UNCHANGED <<running, lost>>
      BY <3>1, <3>4, LookupMemory, QuietAuth DEF AuthInv
    <3> QED BY <2>7, <3>2, <3>3, <3>4 DEF ChatVerify
  <2> QED BY <2>1, <2>2, <2>3, <2>4, <2>5, <2>6, <2>7 DEF Next
<1> QED BY <1>1, <1>2, AuthTypeCorrect, PTL DEF Spec

\* Duplicates take no effect, for any clocks and delays within WindowAssumption.
THEOREM EffectsAtMostOnce == Spec => []AtMostOnce
<1>1. AuthInv => AtMostOnce
  BY DEF AuthInv
<1> QED BY <1>1, AuthInvariant, PTL

-----------------------------------------------------------------------------
\* Every nonce that is remembered stands for a request that took effect, is about to, or
\* came to nothing for good (auth.rs check_and_insert before heartbeat and chat).
THEOREM SpentHasOneOutcome == Spec => []OneOutcome
<1> DEFINE Remains == \A s \in seen : Spent(s.nonce)
<1>1. Init => Remains
  BY DEF Init
<1>2. ASSUME TypeOK, Remains, [Next]_vars
      PROVE  Remains'
  <2>1. CASE Tick \/ ClockSet \/ RowDeleted \/ UNCHANGED vars
    BY <1>2, <2>1 DEF Tick, ClockSet, RowDeleted, vars, Spent, Taken
  <2>2. CASE Restart
    BY <2>2 DEF Restart
  <2>3. ASSUME NEW r \in running, HeartbeatNonce(r), NEW s \in seen'
        PROVE  Spent(s.nonce)'
    <3>1. s \in seen \/ (s.nonce = r.nonce /\ Job(r.id, r.nonce, "accepted") \in running')
      BY <2>3 DEF HeartbeatNonce, Record, Replay, Remembered
    <3>2. \A q \in running : q.stage = "accepted" => q \in running'
      BY <2>3 DEF HeartbeatNonce
    <3>3. /\ Job(r.id, r.nonce, "accepted").nonce = r.nonce
          /\ Job(r.id, r.nonce, "accepted").stage = "accepted"
      BY DEF Job
    <3> QED BY <1>2, <2>3, <3>1, <3>2, <3>3 DEF HeartbeatNonce, Spent, Taken
  <2>4. ASSUME NEW r \in running, HeartbeatApply(r) \/ HeartbeatFails(r) \/ ChatRuns(r),
               NEW s \in seen'
        PROVE  Spent(s.nonce)'
    <3>1. /\ s \in seen /\ r.nonce \in Nonces /\ s.nonce \in Nonces
          /\ running' = running \ {r}
          /\ \/ effects' = effects /\ lost' = lost \cup {r.nonce}
             \/ effects' = Counted(r.nonce) /\ lost' = lost
      <4>1. seen' = seen
        BY <2>4 DEF HeartbeatApply, HeartbeatFails, ChatRuns
      <4>2. s \in seen /\ r.nonce \in Nonces /\ s.nonce \in Nonces
        BY <1>2, <4>1 DEF TypeOK
      <4> QED BY <2>4, <4>2 DEF HeartbeatApply, HeartbeatFails, ChatRuns, Counts, Lost
    <3>2. effects' = Counted(r.nonce) => effects'[r.nonce] > 0
      BY <3>1, <1>2 DEF Counted, TypeOK
    <3>3. s.nonce # r.nonce => effects'[s.nonce] = effects[s.nonce]
      BY <3>1, <1>2 DEF Counted, TypeOK
    <3>4. s.nonce = r.nonce => Spent(s.nonce)'
      BY <3>1, <3>2 DEF Spent, Taken
    <3>5. Spent(s.nonce)
      BY <1>2, <3>1
    <3> QED BY <3>1, <3>3, <3>4, <3>5 DEF Spent, Taken
  <2>5. ASSUME NEW h \in Handlers, NEW n \in Nonces, HeartbeatVerify(h, n), NEW s \in seen'
        PROVE  Spent(s.nonce)'
    BY <1>2, <2>5 DEF HeartbeatVerify, Spent, Taken
  <2>6. ASSUME NEW h \in Handlers, NEW n \in Nonces, NEW intact \in BOOLEAN,
               ChatVerify(h, n, intact), NEW s \in seen'
        PROVE  Spent(s.nonce)'
    <3>1. effects' = effects /\ running \subseteq running' /\ lost \subseteq lost'
      BY <2>6 DEF ChatVerify
    <3>2. CASE s \in seen
      BY <1>2, <3>1, <3>2 DEF Spent, Taken
    <3>3. CASE s \notin seen
      <4>1. /\ s.nonce = n
            /\ Job(h, n, "accepted") \in running' \/ n \in lost'
        BY <2>6, <3>3 DEF ChatVerify, Record, Replay, Remembered
      <4>2. Job(h, n, "accepted").nonce = n /\ Job(h, n, "accepted").stage = "accepted"
        BY DEF Job
      <4> QED BY <4>1, <4>2 DEF Spent, Taken
    <3> QED BY <3>2, <3>3
  <2> QED BY <1>2, <2>1, <2>2, <2>3, <2>4, <2>5, <2>6 DEF Next
<1>3. TypeOK /\ AuthInv /\ Remains => OneOutcome
  BY DEF AuthInv, LostInv, Spent, Taken, OneOutcome, TypeOK
<1> QED BY <1>1, <1>2, <1>3, AuthTypeCorrect, AuthInvariant, PTL DEF Spec
-----------------------------------------------------------------------------
(* The refinement.  Under the invariants a guarded request is open, accepted *)
(* or done, and each action moves one of them along, or all back to open.    *)

Plain(n) ==
  IF ~Guarded(n) THEN "open"
  ELSE IF Accepted(n) # {} THEN "accepted" ELSE IF effects[n] = 0 THEN "open" ELSE "done"

bar == [n \in Nonces |-> Progress(n)]

\* Nothing is repeated, now or after the step.
LEMMA ProgressPlain ==
  ASSUME TypeOK, AtMostOnce, NEW n \in Nonces
  PROVE  Progress(n) = Plain(n)
<1>1. Guarded(n) => effects[n] \in {0, 1}
  BY DEF TypeOK, AtMostOnce
<1>2. ASSUME Guarded(n), Accepted(n) # {}
      PROVE  effects[n] = 0 /\ \A r, q \in Accepted(n) : r = q
  BY <1>2 DEF AtMostOnce, Accepted
<1> QED BY <1>1, <1>2 DEF Progress, Plain

LEMMA ProgressPlainNext ==
  ASSUME TypeOK', AtMostOnce', NEW n \in Nonces
  PROVE  Progress(n)' = Plain(n)'
<1>1. Guarded(n)' => effects'[n] \in {0, 1}
  BY DEF TypeOK, AtMostOnce
<1>2. ASSUME Guarded(n)', Accepted(n)' # {}
      PROVE  effects'[n] = 0 /\ \A r, q \in Accepted(n)' : r = q
  BY <1>2 DEF AtMostOnce, Accepted
<1> QED BY <1>1, <1>2 DEF Progress, Plain

\* A step that moves at most one request, in a way the service allows.
LEMMA OneMoves ==
  ASSUME NEW n \in Nonces,
         \A k \in Nonces \ {n} : Progress(k)' = Progress(k),
         \/ Progress(n)' = Progress(n)
         \/ Progress(n) = "open" /\ Progress(n)' = "accepted"
         \/ Progress(n) = "accepted" /\ Progress(n)' \in {"done", "open"}
  PROVE  [Service!Next]_bar
<1> DEFINE next == [k \in Nonces |-> Progress(k)']
<1>1. bar' = next
  BY DEF bar
<1>2. CASE Progress(n)' = Progress(n)
  BY <1>1, <1>2 DEF bar
<1>3. ASSUME NEW to, Progress(n)' = to
      PROVE  bar' = [bar EXCEPT ![n] = to]
  BY <1>1, <1>3 DEF bar
<1>4. bar[n] = Progress(n)
  BY DEF bar
<1>5. CASE Progress(n) = "open" /\ Progress(n)' = "accepted"
  <2>1. Service!Accept(n)
    BY <1>3, <1>4, <1>5 DEF Service!Accept, Service!Becomes, bar
  <2> QED BY <2>1 DEF Service!Next
<1>6. CASE Progress(n) = "accepted" /\ Progress(n)' \in {"done", "open"}
  <2>1. Service!TakeEffect(n) \/ Service!ComeToNothing(n)
    BY <1>3, <1>4, <1>6 DEF Service!TakeEffect, Service!ComeToNothing, Service!Becomes, bar
  <2> QED BY <2>1 DEF Service!Next
<1> QED BY <1>2, <1>5, <1>6

\* A request whose handlers and effect are as before is where it was.
LEMMA Unmoved ==
  ASSUME NEW n \in Nonces, request' = request,
         Accepted(n)' = Accepted(n), effects'[n] = effects[n]
  PROVE  Progress(n)' = Progress(n)
BY DEF Progress, Guarded

\* A handler accepts a request: it was not accepted before, and has no effect yet.
LEMMA AcceptMoves ==
  ASSUME TypeOK, AtMostOnce, TypeOK', AtMostOnce', NEW r, NEW n \in Nonces,
         r.nonce = n, r.stage = "accepted",
         r \in running', request' = request, effects' = effects,
         \A q : q.stage = "accepted" /\ q # r => (q \in running' <=> q \in running)
  PROVE  [Service!Next]_bar
<1>1. ASSUME NEW k \in Nonces \ {n}
      PROVE  Progress(k)' = Progress(k)
  <2>1. Accepted(k)' = Accepted(k)
    BY DEF Accepted
  <2> QED BY <2>1, Unmoved
<1>2. Progress(n) = Plain(n) /\ Progress(n)' = Plain(n)'
  BY ProgressPlain, ProgressPlainNext
<1>3. CASE Guarded(n)
  <2>1. Guarded(n)' /\ Accepted(n)' # {}
    BY <1>3 DEF Guarded, Accepted
  <2>2. effects[n] = 0
    BY <2>1 DEF AtMostOnce, Guarded
  <2> QED BY <1>1, <1>2, <1>3, <2>1, <2>2, OneMoves DEF Plain
<1>4. CASE ~Guarded(n)
  <2>1. ~Guarded(n)'
    BY <1>4 DEF Guarded
  <2> QED BY <1>1, <1>2, <1>4, <2>1, OneMoves DEF Plain
<1> QED BY <1>3, <1>4

\* A handler is done with a request it had accepted.
LEMMA EndMoves ==
  ASSUME TypeOK, AtMostOnce, TypeOK', AtMostOnce', NEW r \in running,
         r.stage = "accepted", running' = running \ {r}, request' = request,
         \A k \in Nonces \ {r.nonce} : effects'[k] = effects[k]
  PROVE  [Service!Next]_bar
<1> DEFINE n == r.nonce
<1>0. n \in Nonces
  BY DEF TypeOK
<1>1. ASSUME NEW k \in Nonces \ {n}
      PROVE  Progress(k)' = Progress(k)
  <2>1. Accepted(k)' = Accepted(k)
    BY DEF Accepted
  <2> QED BY <2>1, Unmoved
<1>2. Progress(n) = Plain(n) /\ Progress(n)' = Plain(n)'
  BY <1>0, ProgressPlain, ProgressPlainNext
<1>3. CASE Guarded(n)
  <2>1. Accepted(n) # {} /\ Guarded(n)'
    BY <1>3 DEF Accepted, Guarded
  <2>2. Accepted(n)' = {}
    BY <1>0, <1>3 DEF Accepted, AtMostOnce
  <2>3. Plain(n) = "accepted" /\ Plain(n)' \in {"open", "done"}
    BY <1>3, <2>1, <2>2 DEF Plain
  <2> QED BY <1>0, <1>1, <1>2, <2>3, OneMoves
<1>4. CASE ~Guarded(n)
  <2>1. ~Guarded(n)'
    BY <1>4 DEF Guarded
  <2> QED BY <1>0, <1>1, <1>2, <1>4, <2>1, OneMoves DEF Plain
<1> QED BY <1>3, <1>4

\* Every step of the coordinator is one of the abstract service, or none.
LEMMA StepsImplement ==
  ASSUME TypeOK, AtMostOnce, TypeOK', AtMostOnce', [Next]_vars
  PROVE  [Service!Next]_bar
<1>1. ASSUME UNCHANGED <<request, running, effects>>
      PROVE  [Service!Next]_bar
  <2>1. \A k \in Nonces : Progress(k)' = Progress(k)
    BY <1>1 DEF Progress, Guarded, Accepted
  <2> QED BY <2>1 DEF bar
<1>2. CASE Tick \/ ClockSet \/ RowDeleted \/ UNCHANGED vars
  BY <1>1, <1>2 DEF Tick, ClockSet, RowDeleted, vars
<1>3. CASE Restart
  <2>1. \A k \in Nonces : Progress(k)' = "open"
    BY <1>3 DEF Restart, Progress, Accepted
  <2>2. Service!Restart
    BY <2>1 DEF Service!Restart
  <2> QED BY <2>2 DEF Service!Next, bar
<1>4. ASSUME NEW r \in running, HeartbeatNonce(r)
      PROVE  [Service!Next]_bar
  <2> DEFINE job == Job(r.id, r.nonce, "accepted")
  <2>1. r.nonce \in Nonces /\ job.nonce = r.nonce /\ job.stage = "accepted" /\ r.stage = "verified"
        /\ request' = request /\ effects' = effects
    BY <1>4 DEF HeartbeatNonce, Job, TypeOK
  <2>2. CASE running' = (running \ {r}) \cup {job}
    <3> HIDE DEF job
    <3> QED BY <2>1, <2>2, AcceptMoves
  <2>3. CASE running' = running \ {r}
    <3>1. ASSUME NEW k \in Nonces
          PROVE  Progress(k)' = Progress(k)
      <4>1. Accepted(k)' = Accepted(k)
        BY <2>1, <2>3 DEF Accepted
      <4> QED BY <2>1, <4>1, Unmoved
    <3> QED BY <3>1 DEF bar
  <2> QED BY <1>4, <2>2, <2>3 DEF HeartbeatNonce
<1>5. ASSUME NEW r \in running, HeartbeatApply(r) \/ HeartbeatFails(r) \/ ChatRuns(r)
      PROVE  [Service!Next]_bar
  <2>1. \A k \in Nonces \ {r.nonce} : effects'[k] = effects[k]
    BY <1>5 DEF HeartbeatApply, HeartbeatFails, ChatRuns, Counts, Lost, Counted, TypeOK
  <2> QED BY <1>5, <2>1, EndMoves DEF HeartbeatApply, HeartbeatFails, ChatRuns
<1>6. ASSUME NEW h \in Handlers, NEW n \in Nonces, HeartbeatVerify(h, n)
      PROVE  [Service!Next]_bar
  <2>1. ASSUME NEW k \in Nonces
        PROVE  Progress(k)' = Progress(k)
    <3>1. Job(h, n, "verified").stage = "verified"
      BY DEF Job
    <3>2. Accepted(k)' = Accepted(k)
      BY <1>6, <3>1 DEF HeartbeatVerify, Accepted
    <3> QED BY <1>6, <3>2, Unmoved DEF HeartbeatVerify
  <2> QED BY <2>1 DEF bar
<1>7. ASSUME NEW h \in Handlers, NEW n \in Nonces, NEW intact \in BOOLEAN, ChatVerify(h, n, intact)
      PROVE  [Service!Next]_bar
  <2> DEFINE job == Job(h, n, "accepted")
  <2>1. job.nonce = n /\ job.stage = "accepted"
    BY DEF Job
  <2>2. request' = request /\ effects' = effects /\ running' \in {running, running \cup {job}}
    BY <1>7 DEF ChatVerify
  <2> HIDE DEF job
  <2>3. CASE running' = running \cup {job}
    BY <2>1, <2>2, <2>3, AcceptMoves
  <2> QED BY <1>1, <2>2, <2>3
<1> QED BY <1>2, <1>3, <1>4, <1>5, <1>6, <1>7 DEF Next

\* The handlers of heartbeats and chats, with the nonce store and both clocks,
\* implement the service that carries out a request once.
THEOREM OneShotImplemented == Spec => ImplementsOneShot
<1>1. ASSUME Init
      PROVE  Service!Init
  BY <1>1 DEF Init, Service!Init, Progress, Accepted
<1>2. TypeOK /\ AtMostOnce /\ TypeOK' /\ AtMostOnce' /\ [Next]_vars => [Service!Next]_bar
  BY StepsImplement
<1> QED BY <1>1, <1>2, AuthTypeCorrect, EffectsAtMostOnce, PTL DEF Spec, ImplementsOneShot, Service!Spec, bar
=============================================================================
