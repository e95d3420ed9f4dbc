# TLA+ verification of youai

youai lets volunteers lend their computers to a shared language model. A
*coordinator* keeps a table of *nodes*, sends chats to them and remembers the
answers. Each node machine runs an *agent* that spawns a *guard*, which spawns a
*worker*, which answers HTTP requests and may own a *pipeline daemon* that holds
a part of a model. This directory holds TLA+ models of these parts, the TLC
configurations that check them on small instances, and TLAPS proofs of every invariant and
action property that the passing runs check. Paths and line numbers refer to the repository's root.

    tlc -workers 2 -config NodeRegistry.cfg MCNodeRegistry     # model-check
    tlapm NodeRegistryProofs.tla                               # prove

## 1. Inventory

| Part | Source | State | Operations | What is hard |
|---|---|---|---|---|
| node table | `youai-coordinator/src/db.rs` | SQLite table `nodes` | upsert, heartbeat, prune, delete by url, list | each statement commits alone; crash or error between two |
| registration, heartbeat | `.../api.rs:204-340` | the mutex around the database | `register_node`, `heartbeat` | the heartbeat takes three locks in turn; a registration reads its clock before it has the lock |
| request authentication | `.../auth.rs`, `youai-common/src/signing.rs` | nonces, in memory | verify, check and insert | duplicates and delays; two clocks; restart |
| chain and tier | `db.rs:160-166,326-379`, `registry.rs` | none (computed from the list) | resolve, count, select | order of the list, disagreeing members |
| chat router | `api.rs:363-680`, `pipeline.rs` | round-robin counter | cache lookup, chain, replica loop | a list used over many awaits; two chats at once |
| response cache | `cache.rs` | bounded table with expiry | get, put | concurrent misses, full table |
| node agent | `youai-node/src/runtime.rs` | child handle, runtime file, credentials | start, loop, restart, pause | processes die in any order; pause from another process |
| guard | `youai-guard/src` | the child it watches, its last readings | sleep, sample, kill, notice | its log pipe; late and rounded readings; failure of a sampler |
| command line and configuration | `youai-node/src/main.rs`, `youai-common/src/lib.rs` | `config.toml`, a copy in each command | load, change, save, save again | two commands at once; a save is two steps; two parsers of one size |
| model files | `youai-node/src/registry_verify.rs`, `registry.rs`, `scripts` | the files, the manifest | download, split, verify, load, look up | the file changes after the check; names compared by containment |
| worker, `/infer` | `youai-worker/src/server.rs`, `llama.rs`, `shards.rs` | split files, a thread per request | fetch, write, run `llama-cli`, time out | two requests and one file; cut writes; pipes nobody reads |
| worker and daemon | `youai-worker/src`, `native/youai-pipeline-step.cpp` | daemon behind a mutex, KV state in memory and on disk | step, retry, fall back, reload, save | crash between two files; retry; one daemon, many sessions |
| not modelled | gateway stubs; the rest of the command line, templates, web page, install scripts | | | see `PROJECT.json`, `components` |

How they interact: agents call the coordinator over HTTP (register, heartbeat);
the coordinator calls workers over HTTP (health, infer, pipeline step); agent,
guard and worker are parent and child processes joined by pipes and signals;
`youai-node pause` acts through a file and a signal; worker and daemon share two
pipes and the session directory. Within the coordinator, handlers share the
database, the nonce store, the cache and a counter, each behind a lock of its own.

What makes each part correct:

* table: one row per identity, one live row per url, a beating node is online;
* authentication: a signed request takes effect at most once;
* chain and tier: a chain that is returned can be walked, one that exists is
  found, a chat is not rerouted without need, the tier is one the network meets;
* chats: the answer fits the mode, every replica is tried before 502, each chat ends;
* machine: one guard per agent, the file names it, no worker without a guard, a
  worker over its limits is killed, a dead one replaced, pause stops the node;
* guard: the CPU time used stays within a budget whatever the pattern of bursts,
  memory over the limit is found within a loop, the kernel's limits come first;
* configuration: no command undoes another's setting unless they overlap, and what
  the coordinator is told is what the guard enforces;
* model files: what is loaded was compared with its own hash, or has a known
  reason not to be; the lookup returns the highest tier;
* `/infer`: every request ends, no `llama-cli` outlives its request but by the death of a
  worker without a cgroup, a bad or missing split has a known cause;
* session: every input decoded once, in order, in both stages; the activation
  sent on is the session's own; the daemon's mutex is given up.

`PROJECT.json` lists, under `hazards`, each place where one of these is at risk.

## 2. Plan

Most important behaviour first. Done: 1 to 11. Left: 12 and 13.

1. `NodeRegistry`, with `NodeRegistryProofs`; it implements `Membership`
2. `RequestAuth`, with `RequestAuthProofs`; it implements `OneShot`
3. `PipelineChain`, `TierSelection` (operators), composed by `Network`
4. `ResponseCache` (operators) and `ChatRouter`, which extends and implements `Network`;
   `ChatRouterProofs` is about both
5. `NodeSupervisor`, with `NodeSupervisorProofs`
6. `PipelineSession`, with `PipelineSessionProofs`; it implements `SessionStore`
7. `WorkerInfer`, with `WorkerInferProofs`
8. `GuardWatchdog`, proved in `NodeChecksProofs`
9. `NodeConfig`, with `NodeConfigProofs`
10. `ModelVerify`, proved in `NodeChecksProofs` too
11. Proofs of the action properties and of `Network`, `ChatRouter` and `ModelVerify`.
12. Measures, like `WorkLeft` of a chat, for the `/infer` handlers and the sessions: the
    part of their liveness that needs no fairness and can be proved.
13. The worker's log lines and the guard's in one module: `NodeSupervisor` fills the
    guard's stderr, `WorkerInfer` the stdout that worker and guard share.

Constants carry named assumptions where a proof needs them, and no module
declares a RECURSIVE operator.

## 3. Modules

### NodeRegistry
The table and the agents that keep their rows alive. One action per SQL
statement or critical section: `register_node` is `RegisterClock`, which reads the
clock (`api.rs:212`) and waits for the mutex, then `RegisterUpsert` and
`RegisterDelete` or `RegisterDeleteFails` with it; `prune_nodes` is `PruneBegin` and
then one `PruneUrl` for each entry of `best`, or `PruneFails`. `dbOp` says which
handler has the mutex. `heartbeat` is `HeartbeatVerify` and `HeartbeatApply`:
the mutex is given up between them, so a row may go. `Crash` ends the coordinator at any of
these points, and the next `PruneBegin` is the prune that `serve` runs first.
The agent's phases are the awaits of `start` and `run_until_stopped`; `timer` is
the time to its next tick or time limit.

A row keeps its age instead of a timestamp, saturated just past the cutoff. An id
stands for the pair of uuids. The heartbeat that an earlier life of an agent left
on the wire is dropped when it starts again: its effect would be that of a beat
received before the start. A registration writes the time it read before it waited, so its
row is as old as that wait (`lag`) and may set back a row that a heartbeat has touched
meanwhile. That the wait is at most `LockWait`, no longer than a heartbeat interval, is
assumed: what the mutex protects is a few SQL statements each time.
`missed` is history: a beat that such a registration takes back (`TakenBack`) counts as
missed, and a restart of the worker counts as two missed beats, since `restart_worker` can take up to 77 s
(2 s, 30 attempts of up to 2.5 s).

### RequestAuth
Copies of signed requests at any time in any order. A heartbeat goes through
`HeartbeatVerify`, `HeartbeatNonce` and `HeartbeatApply`, each under its own
lock; a chat through `ChatVerify` and `ChatRuns`. `HeartbeatFails` is the UPDATE or its lock
that fails with 500 when the nonce is spent (`api.rs:328-333`). `lost` is history: the requests
that passed the nonces and came to nothing, whose copies are refused all the same. The store counts on the
monotonic clock and the skew check on the wall clock, which `ClockSet` moves.
`YOUAI_DEV_MODE`, which disables signing, is taken as unset. HMAC is sound.

### PipelineChain, TierSelection, Network
`PipelineChain` holds `resolve_pipeline`, `count_pipeline_chains`,
`is_replica_eligible` and `detect_backend`; `TierSelection` is
`select_active_tier` with the tiers in the order of their ids. `Network` lets
nodes join and leave and keeps the list sorted as `online_nodes` does. A node may at any
time register as something else (`Registers`): the upsert replaces group, stage, length,
model and all the rest of its row (`db.rs:184-197`). A node is
on the list or not: how a row comes and goes is `NodeRegistry`. Ids stand for the order of
the list, by name and then by stage; `Shapes`, the ways in which the nodes may be registered,
therefore has sequences in that order only. `Only(s, S)` keeps the
elements of the list `s` that are in `S` (each `filter` and `retain` of the code); `Compute` and
`Tier` are what `network_snapshot` makes of it, `CompleteSets` the chains that are really there.

### ResponseCache, ChatRouter
`ResponseCache` holds the operators of `cache.rs`; entries carry the time they
have left. `ChatRouter` has a step per lock or worker call: `Ask` (parse, which
reads the tier), `Lookup`, `Route` (list, chain, dispatch), then `HealthOk/Fails`
and `InferOk/Fails` around the replica loop, or `CallOk/Fails` along the calls of
a chain's backend. `HangsUp` drops the handler. Nodes come, go and register as
something else between any two of these steps, and a handler goes on with the rows that it
listed: `AnswerFitsMode` is about these. Contributor scores are chosen
anew at each `Route`, as they change with every heartbeat: `Ordered` is the set of the
lists that `chat_replica` may come to, sorted by score first for a contributor. `rr` is
counted modulo
`RRSpan`, a multiple of every list's length.

### NodeSupervisor
One machine: `start` commands, guards, workers, the runtime file and `pause`.
Agents share the configuration file, hence the port. `room` is what fits in a
guard's log pipe. Guard and worker are spawned as a pair with one index, and
indices are not used again: the reuse of a pid by an unrelated process is
left out. `Cgroups` is the set of guards that could create their cgroup. One pause command runs at a time. The Ctrl+C handler of tokio is
taken as installed from the first select on. A guard whose pipe lost its reader
may go on or panic in the write: both are in `GuardFails` and the other steps.

### PipelineSession
Chats over two activation stages. The coordinator's loop is `Submit`, `Deliver`,
`Fails`; the worker's handler `Take` (mutex), `Launch` (daemon, spawned if need
be, or a process of its own) and `TryAgain`; the C++ process `Decode`, `Save`,
`Note` (`write_meta`), `Reply`. A KV state is the sequence of inputs decoded into
it, an activation the state it was exported from. `Crash` may come between any
two of these, and may leave a torn state file. A `write_meta` that fails or is cut leaves
`meta.txt` empty, since its stream truncates the file first (`CutMeta`). `hurt` (history) holds the chats
hit after `llama_decode`: for these the retry may decode an input twice or fail,
depending on which files were written. The activation file handed to the tail is
written anew for every step and not modelled. The chats of two coordinators
differ in nothing from two chats of one.

### Membership, OneShot, SessionStore
What `NodeRegistry`, `RequestAuth` and `PipelineSession` promise, without their mechanism.
`Membership` is the list that the nodes are on, without statements, mutexes, prunes and
ages: a member joins under an id never used before, is heard of (its score stays or grows by
one), fades, or leaves; one that is online leaves only where another online member of its
url stays. `ImplementsMembership` reads a member off each row (`Seen`), and as gone (`Gone`)
the ids that were drawn and have no row. `OneShot`: a request
that took effect is not accepted again in the same life of the coordinator.
`ImplementsOneShot` reads "accepted" off the handlers and "done" off what took effect.
`SessionStore`: at each stage and for each chat a log of inputs that grows by the
input that is due; only a chat something happened to may get its last input twice.
`ImplementsStore` takes the saved KV states for the logs and `hurt` for the suspects.

### WorkerInfer
The `/infer` handlers of one worker, each on a blocking thread of its own. A request without
`remote_shards` (all that the coordinator sends outside a GGUF chain) goes straight to `llama-cli`
(`llama.rs:142-144`). With some, a handler goes for each split that is missing through `Look`
(does the file exist; an error if the request names no peer for it), `Get` (ask
the peer), `Open` and `Close` (`fs::write` creates the file, then fills it) and
`Cached` (the log line); then `Spawn`, and `Collect` or `TimesOut` on `llama-cli`. Peers
come, go and are started again with other splits (`PeerChanges`); a write fails
(`WriteFails`). `WorkerDies` leaves its files and its `llama-cli`. `GuardEnds`, at the guard's next
poll, kills these where the guards have a cgroup; otherwise they are `orphans`. `WorkerStarts` is
the next guard's worker, perhaps for another model, whose splits have the names of the old
ones. `cause` is history: a split that two requests raced for, whose write was cut, whose peer
sent something else, or that is left of another model. `llama-cli`
is external: it maps its splits, writes an answer of any length, exits or fails. A
split's content is right, wrong, torn or absent.

### GuardWatchdog
One guard with its time and its readings: `Wake` ends the sleep of 500 ms and takes
`elapsed`, `SampleRam` and `SampleCpu` come later, so that usage of one tick is charged
to the next; every wait may be late by up to `MaxLate`, and a reading of the CPU time is
rounded down to `Quantum`. `kernel` says on what the guard runs: a cgroup (memory of all
processes, CPU quota per period of one CPU), `ps` and an accepted `RLIMIT_AS`, or `ps`
alone. Worker and children use what the kernel grants in `Elapse` and `Allocate`. The unit
of time is the kernel's period of 100 ms, drawn out so that few make a poll.

### NodeConfig
`config` and `start` with the file between them. `Load` reads (an empty file is the
defaults), `Truncate` and `Put` are the two halves of `fs::write`, `Killed` may come
between them. `start` goes on with `Check`, `Spawn`, `Healthy`, `Register`, `Persist` and its
second save, and runs on its copy, which `Restart` uses for the limit of each new guard.
Of the settings there are one that two programs parse, one that can only be set and
one that can be cleared. `want`, `stale`, `clash` and `mixed` are history.

### ModelVerify
The file of a node from the download script to the worker. `Download` and `Downloaded` are
`curl` writing to the file itself; `Start` resolves the path and compares the hash that
`Expected` finds in the manifest; `Load` is any later opening of the file. Names are
sequences of parts, so that containment is real; hashes are the file and its version. The two
passes of `find_model_sha256` look at the *places* of models, pairs of a tier and a position in
it, and take the first (`FirstOf`). A stage may be listed without a hash; the code then goes on
to the second pass, as if the stage were not listed, and may hold it to the hash of the whole
model. `OwnHash` says exactly this: a file is held to a hash that is not its own only if no stage
entry lists it with one, and then to the hash of a model whose id contains the configured name or
is contained in it (`registry_verify.rs:99`).
`Found` is the coordinator's lookup of a model over the same manifests.

## 4. Runs

| Run | Module, cfg | Instance | Shows |
|---|---|---|---|
| node_registry | MCNodeRegistry, NodeRegistry.cfg | 2 agents with equal, url-sharing or different identities, 2 ids, 1 registration waiting for the mutex, a beat per tick, rows outlive 3 | one row per identity; double urls only after a failed DELETE; credentials apart; beating nodes online; only time ages a url, but for the wait of a registration; implements `Membership` |
| request_auth | MCRequestAuth, RequestAuth.cfg | 2 requests, 2 handlers, skew 1, retention 5, 7 ticks | at most one effect; a spent nonce has one outcome; implements `OneShot` |
| network | MCNetwork, Network.cfg | 4 nodes, each with 4 ways to register, 5 tiers | chain in order and whole; found when the group agrees; kept but for a newcomer that sorts before a member; the tier is one the network meets |
| chat | MCChatRouter, ChatRouter.cfg | 2 clients, 3 nodes registered in 6 ways, cache of 1, 3 modes | cache bounded; answers fit the rows that were listed; every replica tried once; each step brings a chat closer to its end |
| supervisor | MCNodeSupervisor, NodeSupervisor.cfg | 2 agents, 2 spawns, the first guard without a cgroup, room for 1 log line | one guard per agent; the file follows; orphans only by pause or without cgroup; over limits leads to killed, dead leads to replaced, unless the pipe is full |
| guard_limit | MCNodeSupervisor, SupervisorLimit.cfg | 1 agent, 1 spawn | violated: finding 1 |
| pipeline_session | MCPipelineSession, PipelineSession.cfg | 2 chats, 2 tokens, 2 faults, room for 3 log lines | stages in step; own activation; mutex given up; implements `SessionStore` |
| daemon_prompt | MCPipelineSession, SessionPrompt.cfg | same | violated: finding 2 |
| worker_infer | MCWorkerInfer, WorkerInfer.cfg | 2 requests with and without peers, 1 split to fetch, with and without a cgroup, 1 fault (a failed write or the death of the worker), room for 4 log lines and 1 chunk of output | a bad or missing split has a cause; every request ends; no `llama-cli` outlives its request but by the death of a worker, and none that of a worker with a cgroup |
| guard | MCGuardWatchdog, Guard.cfg | 2 CPUs, limit 34 %, polls of 2 units with 1 unit of lateness, 9 units, three kernels | kernel first; CPU budget kept; memory found within a loop |
| node_config | MCNodeConfig, NodeConfig.cfg | 1 config and 2 start commands, 4 sets of options | settings lost only by overlap; offered is enforced |
| model_verify | MCModelVerify, ModelVerify.cfg | 4 manifests with tiers 0, 1, 2 and 10, a tier without models and a stage without a hash among them, 2 versions, whole, stage and split file, 4 setups | what is loaded has its hash or a cause; the hash is the file's own or that of a model the name fits; highest tier found |

Why the bounds are enough. Two agents and two ids give every collision of
identities and a row replaced by a stranger's, and one registration that waits is overtaken by
a heartbeat and by a registration that has the mutex; the proofs below remove these bounds.
`Stale = 3 * Interval` is the code's 90 s to 30 s at its tightest. In
`RequestAuth` the numbers keep the one inequality the code relies on
(`2 * Skew + MaxStep + MaxDelay < Retention`, 120 s against 300 s) with no slack,
and the clock runs past the retention; proofs remove this bound too. Four nodes
make two disjoint chains of two, a chain of three is hidden by one stranger. A
cache of one entry is full at the first answer; two clients make a concurrent
miss; a node that registers as something else turns a chain into two replicas. Two spawns are a restart, or one guard of each of two agents; the pipe is full
after one line, and the proofs cover any number of either.
Two faults in a session are a crash in the retry of a crash; three log lines are
full after one chat of one token has passed. Two requests race for one split; a third
differs from a second, and further splits are fetched one after the other in the same way,
which the proofs confirm. Four log lines are a fetch and a run of one request (three), and one of another
that fills the pipe; one fault cuts a write or leaves a `llama-cli` without a worker. Nine units of time are two to four loops of the guard: enough
for a burst on each side of a reading and for a sampler that loses time to exceed the
budget (the mutant does), and the proof has no bound. With one `config` and two `start`
commands every pair of kinds overlaps. Tier 10 is past the tiers whose order as strings is
that of their numbers; two versions make an old file and an old manifest.
`MaxScore`, `MaxWaiting`, `MaxTime`, `MaxPid`, `MaxFaults`, `MaxRam`, `MaxVersion`, `Horizon`, `LogRoom` and
`PipeRoom` are the bounds on counters; none of them is in the code except the last two,
which stand for the 64 KiB of a pipe.

The type invariants of `Network`, `ChatRouter` and `ModelVerify` are checked by their runs;
those of the other modules are proved only, and the runs leave them out. All are proved for
every value of the constants (section 6).

Deadlock is checked in `NodeRegistry`, `RequestAuth`, `Network`, `ChatRouter`,
`WorkerInfer` and `ModelVerify`. The supervisor stops when
all its commands have ended, as does `NodeConfig`; the session when all its chats have;
the guard at its horizon or when its worker has gone.

Each property of a passing run has a mutant of the code's definition (a swapped
column, an exclusive cutoff, a missing mode in the cache key, a restart that
forgets the file, a retry that is not counted, ...) under which it is violated.

### Fairness
`NodeSupervisor`: weak fairness of an agent's step (its task is never blocked for
good: each HTTP call has a time limit, the health wait has 30 attempts), of a
guard's loop (a thread of its own that sleeps 500 ms), of a loading worker's bind
and of a pause. None is assumed of crashes, signals or usage. A guard stuck in a
write is disabled, so no fairness makes it go on. `PipelineSession`: weak
fairness of a handler, which is a `spawn_blocking` task that runs to its end.
`WorkerInfer`: the same for an `/infer` handler; nothing is assumed of `llama-cli` or of the
peers, and a handler at a full log pipe is disabled. The
other specifications have none; that chats end is stated as a measure that each
step lowers (`WorkLeft`), to which only the time limits of the HTTP clients
(3 s and 180 s) need be added.

## 5. Where the code differs from what is written

With a run of their own:

1. `docs/SECURITY.md:89`: the guard kills at once. Nobody reads its stderr, and
   once the pipe is full it guards no more (`KilledWhenOver`).
2. `docs/PIPELINE.md:94`: the daemon has the logic of the single process. It turns
   each line break of a prompt into an `n` (`DaemonAsSingle`).

Stated in a module and not kept by the code; TLC shows each when the invariant is added
to the cfg named (with the change given, where there is one):

| Invariant | cfg | Written | The code |
|---|---|---|---|
| `CompleteChainFound` | Network | `db.rs:325`: stages are returned "when a complete online chain exists" | the first member by name decides on model and length, and a stranger hides the chain |
| `TierByChains` | Network | `docs/MODEL_TIERS.md:166,172` counts complete chains | `count_pipeline_chains` is 0 or 1, so tier 2 and up of `registry/manifest.json` are out of reach |
| `PauseStops` | NodeSupervisor | `youai-node/src/main.rs:22`, `docs/SECURITY.md:91`: pause stops contribution | it ends the guard and leaves the worker |
| `RunsOnWholeModel` | WorkerInfer | `docs/PIPELINE.md:61`: stage 0 fetches the splits and runs one infer | a second request takes the split that the first is still writing; a request that names no peers runs on whatever is there |
| `NoiseTolerated` | Guard, `Quantum = 4` | `monitor.rs:16`: spikes above the limit are sampling noise and allowed | `ps` gives whole seconds on Linux; the second that comes due within half a second kills a worker within its limit |
| `TreeOverRamKilled` | Guard | `docs/SECURITY.md:89`: killed if limits are exceeded | without a cgroup only the worker's own process is read, not `llama-cli` |
| `OfferAsConfigured` | NodeConfig, `Options <- AnySize` | `youai-common/src/lib.rs:455`: `ram_max_mb` is parsed from `ram_max` | a number alone is bytes to the guard and megabytes to the coordinator; `k` is known to one |
| `EditKept` | NodeConfig | `youai-node/src/main.rs:239`: "config saved to" | `start` saves its copy again when it has registered and undoes an edit made meanwhile |
| `FoundIfListed` | ModelVerify | `registry.rs:156`: looked up "across all tiers" | a tier without `models` ends the lookup |
| `WholeFileAccepted` | ModelVerify, `Manifests <- JustToday`, `MaxVersion = 1` | `docs/PIPELINE.md:61`: a node keeps its split only | the split is compared with the whole model's hash and refused |
| `RepairedByDownload` | ModelVerify | `registry_verify.rs:42`: run the script | the script keeps a file that is there, cut or outdated |

Seen while modelling, without a run: `docs/PIPELINE.md:22` says round-robin, but
contributors' lists are ordered differently from the others', so that two chats
in a row may start on the same replica; a node whose row was pruned gets 401 for
ever and does not register again before it is restarted; a restart plus a failed
beat exceed the 90 s.

## 6. Proofs

All theorems hold for any constants that satisfy the named assumptions.

`NodeRegistryProofs` (assumptions `ConfigsAssumption`, `NoIdAssumption`,
`TimeAssumption`): `TypeCorrect`; then `TableInvariant`, from which
`IdentityIsUnique` and `DuplicatesAreTorn` follow. The two properties are not
inductive. That a url with two rows was torn depends on who is about to clean it
up, so `TableInv` adds the primary key, that drawn ids are in `used`, that every
row is some agent's, that the pending row of a registration exists, that `keep`
names one row of each url, and that each duplicate is answered for: by a failed
DELETE, by the registration that has the mutex, by the prune at start-up that has not come to
it, or by the next start.

In the same module `CredentialInvariant` gives `CredentialsAreNotShared`
(a credential was drawn once and its row has its owner's identity), and
`FreshnessInvariant` gives `BeatingStaysOnline`. Its core is a budget: the
age of the row plus the ticks left on the agent's timer is at most one interval
while running and two while a beat is out, plus one for a missed beat; only `Tick` ages the row,
and it takes from the timer what it adds; every other step is one of seven moves (`StepMoves`), one of
them the registration that sets a beat back (`UpsertSetsBack`: by at most an interval),
and none of them takes the row of an agent without a rival (`RowSurvives`).
`RowsKeepHistory` goes through the statements one by one; it is proved only, and the run
checks the refinement below, which says more. `OnlyTimeMakesStale` needs to
know that the row a prune keeps is still the freshest of its url when the
other rows go, some statements after it was chosen (`ChosenStaysFreshest`), and that the row
of the registration that has the mutex is as old as its wait (`PendingInv`): it may replace a
fresher row, and the property says by how much.
`MembershipImplemented` is the refinement. Most of it is in the lemmas on what becomes of the
list when rows go, one is written again, a new one is inserted, or all age (`SubRowsLeave`,
`WrittenIsHeard`, `NewRowJoins`, `TickFades`); that an online machine is dropped only where
another stays is `UrlStaysFresh`, the step that `OnlyTimeMakesStale` rests on.

`RequestAuthProofs` (`RequestsAssumption`, `WindowAssumption`): `AuthTypeCorrect`;
`AuthInvariant`: what took effect is in the store or too old for any copy to pass,
because it was recorded no earlier than `issued - Skew - MaxStep`; hence
`EffectsAtMostOnce`. With `LostInv`, that what came to
nothing is not taken up again, it gives `SpentHasOneOutcome`. `OneShotImplemented` is the
refinement: the invariant says that what is done can no more be accepted, so every step
maps to a step of `OneShot` or to none.

`NodeSupervisorProofs` (`SupervisorAssumption`): `SupervisorInvariant` gives
`SupervisorTypeCorrect`, `GuardIsUnique`, `FileFollowsRestarts` and
`OrphansOnlyByPause`. Not even `TypeOK` is inductive: `stop_worker` records the
child as waited for, so that the agent must have one. `SupervisorInv` therefore says in
which phases an agent has a child it has not waited for, that a running guard is its
owner's child, and that a signalled pause names a process it signalled: a pause that found
nothing to signal must not be about to take a live agent's file. The steps are grouped
by who takes them: guard, worker, pause, and the agent's waits (`AgentMoves`), spawns and reaps.

`PipelineSessionProofs` (`SessionAssumption`): `SessionInvariant` says of
each chat, by `Good`, which input is due at either stage, what its files say, what the
process that has it in hand holds in memory, and from which state the activation was
exported. `StagesInStep` alone is lost in the step from decoding to saving. From it follow
`MutualExclusion`, `SessionTypeCorrect`, `InStep`, `ActivationIsOwn` and the refinement
`StoreImplemented`.

`WorkerInferProofs` (`WorkerAssumption`): `FetchInv` adds four things. `Placed`: a request's
phase says how far its fetch is. `OwnerInv`: a `llama-cli` whose worker lives is in the hands of a
waiting handler, and while a worker serves on a machine with a cgroup nothing is left of an
earlier one. `CauseOnDisk`: a cause is noted of files that are there. `Sound`: a split without a
cause is absent, whole, or in the hands of its only writer, and whole for every request and every
`llama-cli` that has passed it. Hence `SpoiledAlwaysHasCause` and `LlamaAlwaysHasHandler`;
`InferTypeCorrect` is proved on the way.

`NodeChecksProofs` is about two specifications that share no variable. Of `ModelVerify`
(`VerifyAssumption`, whose one demand on the manifests is that a hash is that of the file it
stands beside): `VerifyTypeCorrect`, and `VerifiedUntilCause`: until a cause is noted the file
on disk is the one that was compared, with what the manifest read at the start names. Hence
`LoadedFileHasCause`; and with `StageFound` and `FullFound` on the two passes `HashIsOwn`.
`HighestIsFound` rests on `GreatestOfFinite`: the greatest of a finite set is the one with the
fewest above it.

Of `GuardWatchdog` (`WatchdogAssumption`): `Account` is the core: readings are paid for by
the ticks they were charged to, and what was used since the last reading fits in the
time not yet accounted for. `Wake` moves time from one side to the other, `SampleCpu`
settles it. `BudgetAlwaysKept` follows with the bounds on the waits; `MemoryAccount` gives
`OverRamIsKilled`, and both with the ranges of the counters `WatchdogTypeCorrect`.
`KernelComesFirst` has a hypothesis of its own, `SlackCovers`: what the kernel may grant
beyond the quota of a poll because readings are late or rounded is at most what the watchdog's
threshold, of all CPUs, leaves above the quota, of one. At the code's poll of five periods
and readings in microseconds it holds on two CPUs for readings up to four periods late, and
on one CPU for limits up to 10 % only. It is needed: on one CPU with a limit of 100 % TLC finds
a worker under a cgroup that the watchdog kills for a late reading (`Guard.cfg` with
`NumCpus = 1`, `CpuPercent = 100`, invariant `KernelFirst`).

`NodeConfigProofs` (`CommandAssumption`): `FileInv`: while nothing clashed there is one writer,
behind whose back every other copy is stale, and a copy that is not stale follows from what
the file should say. `AgentInv`: while nothing is mixed up there is one agent, the worker is its
own and under its limit, and the row says what its copy says. They give
`ConfigTypeCorrect`, `SettingsKept` and `OfferIsEnforced`.

`ChatRouterProofs` (`NodesAssumption`, `GroupsAssumption`, `TiersAssumption`,
`CacheAssumption`, `ChatAssumption`)
is about `Network` and the router that extends it. `NetworkInv`: a node keeps its id whatever it
registers as, and the list holds the present rows in ascending order, hence without duplicates. From it `NetworkTypeCorrect`; `ChainsInOrder`,
`UniformChainsFound` and `ChainsKept` by what `Only`, `First`, `TryGroup` and `Resolve` return
(`OnlyRange`, `OnlyAscending`, `TryGroupChain`, `ResolvedChain`; `ChainIsComplete` and
`CompleteIsFound` are the two directions of the equivalence); `TiersEarned`
by `ActiveIsHighest`, `CountSaysComplete` (the count is 1 only where a complete set is online) and
`FewChainsApart` (no more than one chain apart is asked for where the count decides). `RouterInv` adds what must hold between two awaits of a handler: the list
it holds is a whole chain of its group or distinct eligible replicas although the network has
moved on and some of these rows are no longer anybody's, `tried` is what the turns since `start` have come to (`PlaceInTurn`, `Turns`: with
any value of the counter each turn is another replica), and each entry of the cache was made
by what its key stands for (`GoodCache`). None of `AnswerFitsMode`, `EveryReplicaTried` and
`EveryChatEnds` is inductive without these. They give `ChatTypeCorrect`, `CacheStaysBounded`,
`AnswersFit`, `NoReplicaLeftOut` and `ChatsEnd`. `RouterRefinesNetwork`: the router's own
steps leave the nodes alone, so the theorems about `Network` hold while chats run.
Where a proof needs induction over a list (filtering, concatenation, the count of turns) it
looks at the least length for which the claim fails: `LeastNumber` is the well-foundedness of
the numbers, stated for a set, and `Induction` follows from it for a set of numbers.

Only model-checked: the liveness properties `KilledUnlessBlocked`, `DeadWorkerReplaced`,
`MutexGivenUp` and `RequestEnds`, because liveness under fairness and ENABLED are beyond the
prover; and the properties of section 5, which the code does not have. Of the chats, that a
step is eventually taken rests on the time limits of the HTTP clients and is not stated.

## 7. Not modelled

The text of prompts and answers, the wording of errors, metrics and logs (but for
the pipes they fill); TLS and the strength of HMAC; SQLite's own recovery; the
numerical work of llama.cpp; how a percentage is computed in floating point, and `ps` times of a day and more; the
session directories, which are made for each pipeline chat and never removed; that the
coordinator's client gives up after 180 s, as long as the worker gives `llama-cli` alone, and
leaves a request at work that nobody waits for; two workers of one machine that share the
default session directory; a guard that something other than the agent kills, which leaves its
worker (`NodeSupervisor`) and the worker's `llama-cli` (`WorkerInfer`) running; the components listed as `partly`, for what their notes leave out; the components listed as `not_modelled` in `PROJECT.json`, each with its
reason there.
