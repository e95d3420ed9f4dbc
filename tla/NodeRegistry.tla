---------------------------- MODULE NodeRegistry ----------------------------
(***************************************************************************)
(* The coordinator's node table (youai-coordinator/src/db.rs, api.rs) and  *)
(* the node agents that register in it and keep their row alive with       *)
(* heartbeats (youai-node/src/runtime.rs).                                 *)
(*                                                                         *)
(* Every SQL statement commits on its own, so a handler that runs two of   *)
(* them can be cut between them by a crash, and its second one can fail;   *)
(* the database mutex keeps the other handlers out meanwhile.  Time is     *)
(* counted in ticks; a row keeps its age (now - last_heartbeat) instead of *)
(* the timestamp, saturated one past Stale because no comparison in the    *)
(* code tells older ages apart.  An id stands for the id and token uuids,  *)
(* which are issued and stored as a pair.                                  *)
(***************************************************************************)
EXTENDS Naturals, FiniteSets

CONSTANTS
  Agents,       \* the youai-node installations
  Names, Urls,  \* values of config.name and of the advertised worker url
  Configs,      \* the ways the agents may be configured
  Ids,          \* uuids that registration can draw
  NoId,         \* "no node_id in config.yaml"
  Interval,     \* HEARTBEAT_INTERVAL_SECS in ticks, also the HTTP timeout (30 s)
  Stale,        \* NODE_STALE_SECS in ticks
  LockWait,     \* longest a registration takes from reading its clock to its DELETE, in ticks
  RestartTime,  \* longest restart_worker, in ticks
  MaxWaiting,   \* bound on the registrations that wait for the mutex at the same time
  MaxScore      \* bound on the contributor score that is tracked

ASSUME ConfigsAssumption == Configs \subseteq [Agents -> [name: Names, url: Urls]]
ASSUME NoIdAssumption == NoId \notin Ids
ASSUME TimeAssumption ==
  /\ Interval \in Nat \ {0} /\ RestartTime \in Nat /\ MaxScore \in Nat
  /\ LockWait \in 0 .. Interval
  /\ Stale \in Nat /\ Stale >= 3 * Interval

VARIABLES
  config,   \* config.yaml of each agent: the identity it registers under
  rows,     \* table nodes
  used,     \* ids ever drawn (history: a uuid is never drawn twice)
  dbOp,     \* what the holder of the database mutex is doing
  waiting,  \* registrations that wait for the mutex: whose, and how old is the time they read
  pending,  \* dbOp = "registering": the one that has it, with the id of its upserted row
  keep,     \* dbOp = "deduping": ids of `best` whose url is still to be cleaned
  booting,  \* dbOp = "deduping": the prune that precedes serving
  torn,     \* urls whose clean-up DELETE failed since the last good one (history)
  agent,    \* phase of the youai-node process
  cred,     \* node_id (with its token) in config.yaml
  timer,    \* ticks to the next interval tick, timeout or end of restart
  missed,   \* consecutive heartbeats without a 204; 2 stands for more, and for a
            \* loop delayed by a worker restart since the last 204; a 204 that a
            \* registration with an older time took back counts as missed (history)
  regReq,   \* a register request is on its way to the coordinator
  hbReq     \* progress of the heartbeat request at the coordinator

dbVars == <<rows, used, dbOp, waiting, pending, keep, booting, torn>>
agentVars == <<agent, cred, timer, missed>>
vars == <<config, dbVars, agentVars, regReq, hbReq>>

Ages == 0 .. Stale + 1
Row == [id: Ids, name: Names, url: Urls, age: Ages, score: 0 .. MaxScore]
Phases == {"down", "registering", "starting", "running", "beating", "restarting"}

TableTypeOK ==
  /\ config \in [Agents -> [name: Names, url: Urls]]
  /\ rows \subseteq Row
  /\ used \subseteq Ids
  /\ dbOp \in {"down", "idle", "registering", "deduping"}
  /\ waiting \subseteq [by: Agents, lag: 0 .. LockWait]
  /\ pending \subseteq [by: Agents, lag: 0 .. LockWait, id: Ids]
  /\ keep \subseteq Ids
  /\ booting \in BOOLEAN
  /\ torn \subseteq Urls

AgentTypeOK ==
  /\ agent \in [Agents -> Phases]
  /\ cred \in [Agents -> Ids \cup {NoId}]
  /\ timer \in [Agents -> Nat]
  /\ missed \in [Agents -> 0 .. 2]
  /\ regReq \in [Agents -> BOOLEAN]
  /\ hbReq \in [Agents -> {"none", "sent", "verified"}]

TypeOK == TableTypeOK /\ AgentTypeOK

Init ==
  /\ config \in Configs
  /\ rows = {} /\ used = {} /\ torn = {} /\ keep = {} /\ waiting = {} /\ pending = {}
  /\ dbOp = "down" /\ booting = FALSE
  /\ agent = [a \in Agents |-> "down"]
  /\ cred = [a \in Agents |-> NoId]
  /\ timer = [a \in Agents |-> 0]
  /\ missed = [a \in Agents |-> 0]
  /\ regReq = [a \in Agents |-> FALSE]
  /\ hbReq = [a \in Agents |-> "none"]

-----------------------------------------------------------------------------
(* Plausible mistakes, substituted for the definitions below to see that    *)
(* the properties notice them.                                              *)

\* The cutoff itself counts as stale.
IsStaleAtCutoff(age) == age >= Stale
\* Identity looked up by url only.
ByUrlOnly(R, who) == {r \in R : r.url = who.url /\ \A s \in R : s.url = r.url => r.age <= s.age}
\* Identity looked up among the online rows only.
ByOnlineIdentity(R, who) == {r \in R : r.name = who.name /\ r.url = who.url /\ r.age <= Stale}
\* The prune keeps the oldest row of a url.
IsWorst(K, R) ==
  /\ \A k \in K : \A r \in R : r.url = k.url => k.age >= r.age
  /\ \A r \in R : \E k \in K : k.url = r.url
  /\ \A k, l \in K : k.url = l.url => k = l
\* Re-registration starts the score over.
RenewedFromZero(r, age) == [r EXCEPT !.age = age, !.score = 0]
\* serve() ignores the error of its prune.
PruneFailsAndServes ==
  /\ dbOp = "deduping" /\ dbOp' = "idle"
  /\ keep' = {} /\ booting' = FALSE
  /\ UNCHANGED <<config, rows, used, waiting, pending, torn, agentVars, regReq, hbReq>>
-----------------------------------------------------------------------------
(* The statements of db.rs.                                                *)

\* online_nodes, is_online and the prune share the cutoff now - NODE_STALE_SECS.
IsStale(age) == age > Stale

\* find_node_by_identity: the freshest row with this name and this url.
ByIdentity(R, who) ==
  LET same == {r \in R : r.name = who.name /\ r.url = who.url}
  IN  {r \in same : \A s \in same : r.age <= s.age}

\* upsert_node: insert, or replace the row that has this id.
Upsert(R, row) == {r \in R : r.id # row.id} \cup {row}

\* delete_nodes_by_worker_url_except.
DeleteUrlExcept(R, u, id) == {r \in R : r.url # u \/ r.id = id}

\* The first DELETE of prune_nodes.
DropStale(R) == {r \in R : ~IsStale(r.age)}

\* The map `best` of prune_nodes: one row of least age per url, ties by scan order.
IsBest(K, R) ==
  /\ \A k \in K : \A r \in R : r.url = k.url => k.age <= r.age
  /\ \A r \in R : \E k \in K : k.url = r.url
  /\ \A k, l \in K : k.url = l.url => k = l

\* UPDATE of heartbeat: last_heartbeat = now, contributor_score + 1.
Beaten(r) ==
  [r EXCEPT !.age = 0, !.score = IF r.score < MaxScore THEN r.score + 1 ELSE r.score]
Touch(R, id) == {IF r.id = id THEN Beaten(r) ELSE r : r \in R}

\* register_node on a known identity: same id, token, created_at and score; the heartbeat
\* is the time that the handler read, be the row's later or not.
Renewed(r, age) == [r EXCEPT !.age = age]

FreshRow(id, who, age) ==
  [id |-> id, name |-> who.name, url |-> who.url, age |-> age, score |-> 0]

Known(id) == \E r \in rows : r.id = id
-----------------------------------------------------------------------------
(* Coordinator: start-up, prune and register.                              *)

\* The loop over `best` goes on while keep is not empty; after it the mutex is free,
\* and the coordinator serves.
PruneTo(K, boot) ==
  /\ keep' = K
  /\ dbOp' = IF K = {} THEN "idle" ELSE "deduping"
  /\ booting' = (boot /\ K # {})

\* prune_nodes up to its loop: at start-up before serving, or POST /nodes/prune.
PruneBegin ==
  /\ dbOp \in {"down", "idle"}
  /\ rows' = DropStale(rows)
  /\ \E K \in SUBSET rows' : IsBest(K, rows') /\ PruneTo({k.id : k \in K}, dbOp = "down")
  /\ UNCHANGED <<config, used, waiting, pending, torn, agentVars, regReq, hbReq>>

\* One round of the loop.
PruneUrl ==
  /\ dbOp = "deduping"
  /\ \E k \in rows :
       /\ k.id \in keep
       /\ rows' = DeleteUrlExcept(rows, k.url, k.id)
       /\ PruneTo(keep \ {k.id}, booting)
       /\ torn' = torn \ {k.url}
  /\ UNCHANGED <<config, used, waiting, pending, agentVars, regReq, hbReq>>

\* A statement of the loop fails: serve() returns the error, the endpoint answers 500.
PruneFails ==
  /\ dbOp = "deduping"
  /\ dbOp' = IF booting THEN "down" ELSE "idle"
  /\ keep' = {} /\ booting' = FALSE
  /\ UNCHANGED <<config, rows, used, waiting, pending, torn, agentVars, regReq, hbReq>>

\* register_node reads the clock and then asks for the mutex.
RegisterClock(a) ==
  /\ dbOp # "down" /\ ~booting /\ regReq[a] /\ Cardinality(waiting) < MaxWaiting
  /\ waiting' = waiting \cup {[by |-> a, lag |-> 0]}
  /\ regReq' = [regReq EXCEPT ![a] = FALSE]
  /\ UNCHANGED <<config, rows, used, dbOp, pending, keep, booting, torn, agentVars, hbReq>>

\* The row that it writes: that of its identity, or a new one.
RowsFor(w) ==
  LET known == ByIdentity(rows, config[w.by])
  IN  IF known # {} THEN {Renewed(r, w.lag) : r \in known}
                    ELSE {FreshRow(id, config[w.by], w.lag) : id \in Ids \ used}

\* The last beat of agent a is taken back by a row that is written with an older time.
TakenBack(a, row) ==
  agent[a] \in {"running", "beating"} /\ \E r \in rows : r.id = cred[a] /\ r.id = row.id /\ r.age < row.age

\* register_node with the mutex, up to and including upsert_node.
RegisterUpsert(w) ==
  /\ dbOp = "idle"
  /\ \E row \in RowsFor(w) :
       /\ rows' = Upsert(rows, row)
       /\ used' = used \cup {row.id}
       /\ pending' = {[by |-> w.by, lag |-> w.lag, id |-> row.id]}
       /\ missed' = [a \in Agents |-> IF missed[a] = 0 /\ TakenBack(a, row) THEN 1 ELSE missed[a]]
  /\ dbOp' = "registering" /\ waiting' = waiting \ {w}
  /\ UNCHANGED <<config, keep, booting, torn, agent, cred, timer, regReq, hbReq>>

\* The process of agent a exits; the loop's locals go with it.
Exit(a) ==
  /\ agent' = [agent EXCEPT ![a] = "down"]
  /\ timer' = [timer EXCEPT ![a] = 0]
  /\ missed' = [missed EXCEPT ![a] = 0]

\* The agent still waits for this answer, not for that of a later start.
Awaits(p) ==
  /\ agent[p.by] = "registering" /\ ~regReq[p.by]
  /\ \A w \in waiting : w.by = p.by => w.lag > p.lag

\* register_node from its DELETE on; the answer reaches an agent that still waits, or is lost.
RegisterDelete ==
  \E p \in pending :
    /\ rows' = DeleteUrlExcept(rows, config[p.by].url, p.id)
    /\ torn' = torn \ {config[p.by].url}
    /\ pending' = {} /\ dbOp' = "idle"
    /\ \/ /\ Awaits(p)
          /\ agent' = [agent EXCEPT ![p.by] = "starting"]
          /\ cred' = [cred EXCEPT ![p.by] = p.id]
          /\ timer' = [timer EXCEPT ![p.by] = Interval]
          /\ hbReq' = [hbReq EXCEPT ![p.by] = "sent"]
       \/ UNCHANGED <<agent, cred, timer, hbReq>>
    /\ UNCHANGED <<config, used, waiting, keep, booting, missed, regReq>>

\* The DELETE of register_node fails: 500, and the upserted row stays.
RegisterDeleteFails ==
  \E p \in pending :
    /\ torn' = torn \cup {config[p.by].url}
    /\ pending' = {} /\ dbOp' = "idle"
    /\ IF Awaits(p) THEN Exit(p.by) ELSE UNCHANGED <<agent, timer, missed>>
    /\ UNCHANGED <<config, rows, used, waiting, keep, booting, cred, regReq, hbReq>>

\* The coordinator process dies; its connections and the handlers on them are gone.
Crash ==
  /\ dbOp # "down"
  /\ dbOp' = "down" /\ waiting' = {} /\ pending' = {} /\ keep' = {} /\ booting' = FALSE
  /\ regReq' = [a \in Agents |-> FALSE]
  /\ hbReq' = [a \in Agents |-> "none"]
  /\ UNCHANGED <<config, rows, used, torn, agentVars>>
-----------------------------------------------------------------------------
(* Heartbeats: the agent's loop and the coordinator's handler.             *)

\* start() needs its heartbeat to succeed; the loop fires its first tick at once.
FirstAnswer(a, ok) ==
  /\ agent[a] = "starting"
  /\ IF ok THEN /\ agent' = [agent EXCEPT ![a] = "running"]
                /\ timer' = [timer EXCEPT ![a] = 0]
                /\ UNCHANGED <<missed>>
           ELSE Exit(a)

\* run_until_stopped only warns about a failure; then it looks whether the worker
\* has died, and if so blocks in restart_worker.
LoopAnswer(a, ok) ==
  /\ agent[a] = "beating"
  /\ \/ /\ agent' = [agent EXCEPT ![a] = "running"]
        /\ missed' = [missed EXCEPT ![a] = IF ok THEN 0 ELSE IF @ < 2 THEN @ + 1 ELSE 2]
        /\ UNCHANGED timer
     \/ /\ agent' = [agent EXCEPT ![a] = "restarting"]
        /\ missed' = [missed EXCEPT ![a] = 2]
        /\ timer' = [timer EXCEPT ![a] = RestartTime]

Answer(a, ok) == FirstAnswer(a, ok) \/ LoopAnswer(a, ok)

\* The answer of a finished handler: delivered if somebody waits, or lost.
Reply(a, ok) ==
  \/ Answer(a, ok)
  \/ UNCHANGED <<agent, missed, timer>>

\* First critical section: verify_node_hmac looks the row up.  The nonce is
\* fresh on this path (RequestAuth models deliveries that repeat it).
HeartbeatVerify(a) ==
  /\ dbOp = "idle" /\ hbReq[a] = "sent"
  /\ \/ /\ Known(cred[a])
        /\ hbReq' = [hbReq EXCEPT ![a] = "verified"]
        /\ UNCHANGED <<agent, missed, timer>>
     \/ /\ ~Known(cred[a])
        /\ hbReq' = [hbReq EXCEPT ![a] = "none"]
        /\ Reply(a, FALSE)
  /\ UNCHANGED <<config, dbVars, cred, regReq>>

\* Second critical section: the UPDATE, which the row may not have survived.
HeartbeatApply(a) ==
  /\ dbOp = "idle" /\ hbReq[a] = "verified"
  /\ rows' = Touch(rows, cred[a])
  /\ hbReq' = [hbReq EXCEPT ![a] = "none"]
  /\ Reply(a, Known(cred[a]))
  /\ UNCHANGED <<config, used, dbOp, waiting, pending, keep, booting, torn, cred, regReq>>

\* The interval tick: send_heartbeat.
BeatSend(a) ==
  /\ agent[a] = "running" /\ timer[a] = 0
  /\ agent' = [agent EXCEPT ![a] = "beating"]
  /\ timer' = [timer EXCEPT ![a] = Interval]
  /\ hbReq' = [hbReq EXCEPT ![a] = "sent"]
  /\ UNCHANGED <<config, dbVars, cred, missed, regReq>>

\* Refused, broken or timed out; the coordinator may still get to the request.
BeatFails(a) ==
  /\ Answer(a, FALSE)
  /\ \/ hbReq' = [hbReq EXCEPT ![a] = "none"]
     \/ UNCHANGED hbReq
  /\ UNCHANGED <<config, dbVars, cred, regReq>>
-----------------------------------------------------------------------------
(* The agent process.                                                      *)

\* NodeRuntime::start up to the register request.
AgentStart(a) ==
  /\ agent[a] = "down"
  /\ agent' = [agent EXCEPT ![a] = "registering"]
  /\ timer' = [timer EXCEPT ![a] = Interval]
  /\ regReq' = [regReq EXCEPT ![a] = TRUE]
  /\ hbReq' = [hbReq EXCEPT ![a] = "none"]
  /\ UNCHANGED <<config, dbVars, cred, missed>>

\* register_or_reuse fails; its request may still be handled later.
RegisterFails(a) ==
  /\ agent[a] = "registering"
  /\ Exit(a)
  /\ \/ regReq' = [regReq EXCEPT ![a] = FALSE]
     \/ UNCHANGED regReq
  /\ UNCHANGED <<config, dbVars, cred, hbReq>>

\* Ctrl+C or a kill, in any phase.
AgentStops(a) ==
  /\ agent[a] # "down"
  /\ Exit(a)
  /\ UNCHANGED <<config, dbVars, cred, regReq, hbReq>>

\* The worker is back: the next tick is still ahead, or overdue and fires at once.
\* (When restart_worker fails run_until_stopped bails: AgentStops.)
RestartEnd(a) ==
  /\ agent[a] = "restarting"
  /\ agent' = [agent EXCEPT ![a] = "running"]
  /\ \E t \in 0 .. Interval : timer' = [timer EXCEPT ![a] = t]
  /\ UNCHANGED <<config, dbVars, cred, missed, regReq, hbReq>>

Aged(r) == [r EXCEPT !.age = IF IsStale(r.age) THEN r.age ELSE r.age + 1]

Later(w) == [w EXCEPT !.lag = @ + 1]

\* Time passes, not past a deadline of a running agent or of a registration.
Tick ==
  /\ \A a \in Agents : agent[a] # "down" => timer[a] > 0
  /\ \A w \in waiting \cup pending : w.lag < LockWait
  /\ rows' = {Aged(r) : r \in rows}
  /\ waiting' = {Later(w) : w \in waiting} /\ pending' = {Later(p) : p \in pending}
  /\ timer' = [a \in Agents |-> IF agent[a] # "down" THEN timer[a] - 1 ELSE timer[a]]
  /\ UNCHANGED <<config, used, dbOp, keep, booting, torn, agent, cred, missed, regReq, hbReq>>

Coordinator ==
  \/ PruneBegin \/ PruneUrl \/ PruneFails
  \/ RegisterDelete \/ RegisterDeleteFails \/ Crash
  \/ \E w \in waiting : RegisterUpsert(w)
  \/ \E a \in Agents : RegisterClock(a) \/ HeartbeatVerify(a) \/ HeartbeatApply(a)

AgentStep(a) ==
  \/ AgentStart(a) \/ RegisterFails(a) \/ AgentStops(a)
  \/ BeatSend(a) \/ BeatFails(a) \/ RestartEnd(a)

Next == Tick \/ Coordinator \/ \E a \in Agents : AgentStep(a)

Spec == Init /\ [][Next]_vars
-----------------------------------------------------------------------------
(* Properties.                                                             *)

\* An identity (name, url) never has two rows, not even between the statements
\* of a handler or after a crash there: registration finds the row of an agent
\* that comes back, so a lost answer or a restart gives it its old id again.
IdentityUnique ==
  \A r, s \in rows : r.name = s.name /\ r.url = s.url => r = s

\* While the coordinator serves, two rows advertise one worker url only if the
\* clean-up DELETE of a registration failed there; a crash between the two
\* statements of register_node is repaired by the prune that precedes serving.
DuplicateUrlOnlyIfTorn ==
  dbOp = "idle" =>
    \A r, s \in rows : r.url = s.url /\ r.id # s.id => r.url \in torn

\* Installations with different identities never hold the same id and token.
CredentialNotShared ==
  \A a, b \in Agents : cred[a] = cred[b] /\ cred[a] # NoId => config[a] = config[b]

\* Nobody else registers this agent's url under another name.
Unrivalled(a) == \A b \in Agents : config[b].url = config[a].url => config[b] = config[a]

\* A running node that missed at most one heartbeat in a row, with any delay up
\* to the HTTP timeout and with prunes, crashes and other registrations going
\* on, is still in the table and still online: 90 s is enough for 30 s beats.
BeatingNodeOnline ==
  \A a \in Agents :
    /\ agent[a] \in {"running", "beating"} /\ Unrivalled(a)
    /\ missed[a] <= 1
    => \E r \in rows : r.id = cred[a] /\ ~IsStale(r.age)

\* No statement leaves a url that is online with a best row older than it had, but for
\* the time that a registration waited since it read its clock: a prune and a heartbeat
\* never do, and the upsert and the DELETE of register_node at most by that.
OnlyTimeAgesUrl ==
  [][\/ Tick
     \/ \A r \in rows : ~IsStale(r.age) =>
          \E s \in rows' :
            /\ s.url = r.url
            /\ s.age <= r.age \/ \E p \in pending \cup pending' : s.id = p.id /\ s.age = p.lag]_vars

\* A row belongs to one identity for life, and its contributor score is never
\* reset by a re-registration.
RowKeepsHistory ==
  [][\A r \in rows, s \in rows' : r.id = s.id =>
       r.name = s.name /\ r.url = s.url /\ r.score <= s.score]_vars

\* The list that the table stands for.
Seen(r) == [id |-> r.id, name |-> r.name, url |-> r.url, score |-> r.score,
            state |-> IF IsStale(r.age) THEN "stale" ELSE "online"]
Members == {Seen(r) : r \in rows}
Gone == used \ {r.id : r \in rows}

List == INSTANCE Membership WITH members <- Members, gone <- Gone

\* The statements of db.rs, cut anywhere by crashes and errors, implement the list that
\* Membership describes: no step gives a row to another identity, takes score from it,
\* brings a deleted id back or takes an online machine off without another in its place.
ImplementsMembership == List!Spec
=============================================================================
