----------------------------- MODULE RequestAuth -----------------------------
(***************************************************************************)
(* How the coordinator tells a request from its duplicates                 *)
(* (youai-coordinator/src/auth.rs, the heartbeat and chat handlers of      *)
(* api.rs).  The network delivers a signed request any number of times, at *)
(* any moment; a nonce is remembered for a while, in memory only, and a    *)
(* request is acceptable for a while around the time written in it.        *)
(*                                                                         *)
(* Two clocks matter: the nonce store uses the monotonic clock (now), the  *)
(* skew check the wall clock, which may be set back and forth within       *)
(* MaxStep of it.  Signing is required (YOUAI_DEV_MODE unset), and every   *)
(* request has a nonce of its own, as fresh_nonce makes them.              *)
(***************************************************************************)
EXTENDS Integers

CONSTANTS
  Handlers,    \* request handlers that run concurrently
  Nonces,      \* one per request that is sent
  Requests,    \* the requests a run may start from: functions on Nonces
  Skew,        \* DEFAULT_CLOCK_SKEW_SECS in ticks
  Retention,   \* NONCE_RETENTION_SECS in ticks
  MaxStep,     \* how far the wall clock may be moved
  MaxDelay,    \* how long a heartbeat handler may wait for its second lock
  MaxTime      \* bound on the monotonic clock

Kinds == {"heartbeat", "anonymous", "contributor"}
Request == [kind: Kinds, issued: Int, expires: Int]

ASSUME RequestsAssumption == Requests \subseteq [Nonces -> Request]
ASSUME WindowAssumption ==
  /\ Skew \in Nat /\ Retention \in Nat /\ MaxStep \in Nat /\ MaxDelay \in Nat /\ MaxTime \in Nat
  /\ Skew + Skew + MaxStep + MaxDelay < Retention

VARIABLES
  request,     \* what was signed under each nonce
  now,         \* Instant::now
  step,        \* wall clock - now
  registered,  \* the node whose token signs has its row
  seen,        \* NonceStore.inner
  running,     \* the handlers at work: on which request, how far, since when
  effects,     \* how often each request took effect in this life of the process;
               \* 2 stands for more (history)
  lost         \* the requests of which a copy passed the nonces in this life and came
               \* to nothing: a failed UPDATE, no row, a bad MAC, an early end (history)

vars == <<request, now, step, registered, seen, running, effects, lost>>

Stages == {"verified", "accepted"}

TypeOK ==
  /\ request \in [Nonces -> Request]
  /\ now \in Nat /\ step \in 0 .. MaxStep /\ registered \in BOOLEAN
  /\ seen \subseteq [nonce: Nonces, at: Nat]
  /\ running \subseteq [id: Handlers, nonce: Nonces, stage: Stages, since: Nat]
  /\ effects \in [Nonces -> 0 .. 2]
  /\ lost \subseteq Nonces

Init ==
  /\ request \in Requests
  /\ now = 0 /\ step \in 0 .. MaxStep /\ registered = TRUE
  /\ seen = {} /\ running = {}
  /\ effects = [n \in Nonces |-> 0] /\ lost = {}
-----------------------------------------------------------------------------
Wall == now + step

\* within_clock_skew.
Timely(n) == Wall - request[n].issued <= Skew /\ request[n].issued - Wall <= Skew

\* not_expired.
Unexpired(n) == request[n].expires > Wall

\* Mistake: a record outlives only half the window.
KeptForSkew(S) == {s \in S : now - s.at <= Skew}

\* The retain of check_and_insert.
Remembered(S) == {s \in S : now - s.at < Retention}

Fresh(n) == \A s \in Remembered(seen) : s.nonce # n

\* Mistake: the cutoff is stored in place of the time.
RecordCutoff(n) == seen' = Remembered(seen) \cup {[nonce |-> n, at |-> now - Retention]}

Record(n) == seen' = Remembered(seen) \cup {[nonce |-> n, at |-> now]}

\* Refused as a replay: the lookup still drops the old records.
Replay(n) == ~Fresh(n) /\ seen' = Remembered(seen)

Counted(n) == [effects EXCEPT ![n] = IF @ < 2 THEN @ + 1 ELSE 2]

Idle(h) == \A r \in running : r.id # h

Job(h, n, s) == [id |-> h, nonce |-> n, stage |-> s, since |-> now]

\* Mistake: the nonce is spent before the request is verified.
NonceFirst(h, n) ==
  /\ Idle(h) /\ request[n].kind = "heartbeat"
  /\ Fresh(n) /\ Record(n)
  /\ running' = IF Timely(n) /\ registered THEN running \cup {Job(h, n, "accepted")} ELSE running
  /\ UNCHANGED <<request, now, step, registered, effects, lost>>

\* A copy of a heartbeat passes verify_node_hmac, under the database lock.  A
\* copy that does not, or is damaged, is answered 401 and changes nothing.
HeartbeatVerify(h, n) ==
  /\ Idle(h) /\ request[n].kind = "heartbeat"
  /\ Timely(n) /\ registered
  /\ running' = running \cup {Job(h, n, "verified")}
  /\ UNCHANGED <<request, now, step, registered, seen, effects, lost>>

\* check_and_insert, under the lock of the store: go on, or 409.
HeartbeatNonce(r) ==
  /\ r.stage = "verified"
  /\ \/ /\ Fresh(r.nonce) /\ Record(r.nonce)
        /\ running' = (running \ {r}) \cup {Job(r.id, r.nonce, "accepted")}
     \/ Replay(r.nonce) /\ running' = running \ {r}
  /\ UNCHANGED <<request, now, step, registered, effects, lost>>

\* verify_chat_hmac, under both locks.  A contributor's token is enough; without
\* one the nonce is recorded before the MAC is compared (intact).
ChatVerify(h, n, intact) ==
  /\ Idle(h) /\ request[n].kind # "heartbeat"
  /\ \/ /\ request[n].kind = "contributor" /\ registered
        /\ running' = running \cup {Job(h, n, "accepted")} /\ UNCHANGED <<seen, lost>>
     \/ /\ ~(request[n].kind = "contributor" /\ registered)
        /\ Unexpired(n) /\ Timely(n)
        /\ \/ /\ Fresh(n) /\ Record(n)
              /\ \/ intact /\ running' = running \cup {Job(h, n, "accepted")} /\ UNCHANGED lost
                 \/ ~intact /\ lost' = lost \cup {n} /\ UNCHANGED running
           \/ Replay(n) /\ UNCHANGED <<running, lost>>
  /\ UNCHANGED <<request, now, step, registered, effects>>

\* The accepted request of r takes effect, or comes to nothing.
Counts(r) == effects' = Counted(r.nonce) /\ UNCHANGED lost
Lost(r) == lost' = lost \cup {r.nonce} /\ UNCHANGED effects

\* The UPDATE of the heartbeat, which finds the row, or does not (401).
HeartbeatApply(r) ==
  /\ r.stage = "accepted" /\ request[r.nonce].kind = "heartbeat"
  /\ IF registered THEN Counts(r) ELSE Lost(r)
  /\ running' = running \ {r}
  /\ UNCHANGED <<request, now, step, registered, seen>>

\* Its lock is poisoned or the UPDATE fails: 500, and the nonce stays spent.
HeartbeatFails(r) ==
  /\ r.stage = "accepted" /\ request[r.nonce].kind = "heartbeat"
  /\ Lost(r)
  /\ running' = running \ {r}
  /\ UNCHANGED <<request, now, step, registered, seen>>

\* The chat's inference, or an earlier end: empty prompt, nobody online.
ChatRuns(r) ==
  /\ r.stage = "accepted" /\ request[r.nonce].kind # "heartbeat"
  /\ Counts(r) \/ Lost(r)
  /\ running' = running \ {r}
  /\ UNCHANGED <<request, now, step, registered, seen>>

\* A prune or a registration elsewhere deletes the row; the token never comes back.
RowDeleted ==
  /\ registered /\ registered' = FALSE
  /\ UNCHANGED <<request, now, step, seen, running, effects, lost>>

\* The coordinator restarts: the nonces and the handlers are gone, the rows stay.
Restart ==
  /\ seen' = {} /\ running' = {} /\ effects' = [n \in Nonces |-> 0] /\ lost' = {}
  /\ UNCHANGED <<request, now, step, registered>>

Tick ==
  /\ now < MaxTime
  /\ \A r \in running : r.stage = "verified" => now - r.since < MaxDelay
  /\ now' = now + 1
  /\ UNCHANGED <<request, step, registered, seen, running, effects, lost>>

\* The wall clock is adjusted.
ClockSet ==
  /\ step' \in 0 .. MaxStep
  /\ UNCHANGED <<request, now, registered, seen, running, effects, lost>>

Next ==
  \/ Tick \/ ClockSet \/ RowDeleted \/ Restart
  \/ \E r \in running : HeartbeatNonce(r) \/ HeartbeatApply(r) \/ HeartbeatFails(r) \/ ChatRuns(r)
  \/ \E h \in Handlers, n \in Nonces :
       \/ HeartbeatVerify(h, n)
       \/ \E intact \in BOOLEAN : ChatVerify(h, n, intact)

Spec == Init /\ [][Next]_vars
-----------------------------------------------------------------------------
Guarded(n) == request[n].kind # "contributor"

\* However often and however late its copies arrive, and however their handlers
\* interleave, a heartbeat raises the score once and an anonymous chat runs once
\* in one life of the coordinator: 300 s of memory outlast the 2 * 60 s in which
\* a copy is acceptable, with room for a clock adjustment and a slow handler.
AtMostOnce ==
  \A n \in Nonces : Guarded(n) =>
    /\ effects[n] <= 1
    /\ \A r \in running : r.nonce = n /\ r.stage = "accepted" =>
         /\ effects[n] = 0
         /\ \A q \in running : q.nonce = n /\ q.stage = "accepted" => q = r

\* A nonce is remembered only of a request that took effect, is about to, or came to
\* nothing for one of the reasons the code has: the heartbeat's row was gone or its UPDATE
\* failed (api.rs:328), a copy of the chat with a bad MAC came first (auth.rs:168), the chat
\* ended early.  A copy that heartbeat verification turns away spends nothing.  And what
\* came to nothing is over: no copy of it takes effect in the same life after all.
OneOutcome ==
  /\ \A s \in seen :
       \/ effects[s.nonce] > 0
       \/ \E r \in running : r.nonce = s.nonce /\ r.stage = "accepted"
       \/ s.nonce \in lost
  /\ \A n \in lost : Guarded(n) =>
       /\ effects[n] = 0
       /\ \A r \in running : ~(r.nonce = n /\ r.stage = "accepted")

\* A request is accepted while one handler is about to carry it out; two of them,
\* or an effect that is repeated, are states the abstract service does not have.
Accepted(n) == {r \in running : r.nonce = n /\ r.stage = "accepted"}
Progress(n) ==
  IF ~Guarded(n) THEN "open"
  ELSE IF Accepted(n) # {}
         THEN IF effects[n] = 0 /\ \A r, q \in Accepted(n) : r = q THEN "accepted" ELSE "twice"
         ELSE IF effects[n] = 0 THEN "open" ELSE IF effects[n] = 1 THEN "done" ELSE "twice"

Service == INSTANCE OneShot WITH Requests <- Nonces, state <- [n \in Nonces |-> Progress(n)]

\* The handlers, the nonces and the two clocks implement the service that carries
\* out a heartbeat or an anonymous chat once: step by step, not only at the end.
ImplementsOneShot == Service!Spec
=============================================================================
