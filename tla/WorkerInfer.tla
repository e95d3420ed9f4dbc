----------------------------- MODULE WorkerInfer -----------------------------
(***************************************************************************)
(* The /infer handler of a worker (youai-worker/src/server.rs, llama.rs,   *)
(* shards.rs).  Each request runs on a blocking thread of its own: where   *)
(* it names peers, it fetches from them the GGUF splits that its directory *)
(* lacks, one after the other; then it runs llama-cli on the directory and *)
(* waits for it.  Nothing keeps two requests apart but the files: a file   *)
(* that exists is not fetched.                                             *)
(*                                                                         *)
(* Split 0 is the worker's own; the others come from peers.  A file is     *)
(* written in place: opened empty (Open), complete at the end (Close).     *)
(***************************************************************************)
EXTENDS Integers, FiniteSets

CONSTANTS
  Handlers,    \* blocking threads that serve /infer
  Total,       \* splits of the model
  PipeRoom,    \* chunks of output that fit in llama-cli's stdout pipe
  LogRoom,     \* log lines that fit in the worker's stdout pipe, which nobody reads
  MaxFaults,   \* bound: the failed writes and deaths of the worker
  None

ASSUME WorkerAssumption ==
  /\ IsFiniteSet(Handlers)
  /\ Total \in Nat \ {0, 1} /\ PipeRoom \in Nat /\ LogRoom \in Nat /\ MaxFaults \in Nat
  /\ None \notin Handlers

Splits == 1 .. Total - 1
Bytes == {"right", "wrong"}

VARIABLES
  file,     \* for each fetched split, what is on disk
  opener,   \* who opened it last for writing
  job,      \* for each handler: where it is, at which split, with which bytes, and the
            \* splits that its request names a peer for
  llama,    \* the llama-cli of each handler
  worker,   \* "up", "dead" until its guard has ended, then "gone" until the next one
  cgroup,   \* whether the guards of this machine have one
  orphans,  \* how many llama-cli are left of workers that are gone
  peer,     \* what the peers answer with
  room,     \* what still fits in the worker's log pipe
  faults,
  cause     \* splits that two requests raced for, whose write was cut, whose peer sent
            \* something else, or which are left of another model (history)

vars == <<file, opener, job, llama, worker, cgroup, orphans, peer, room, faults, cause>>
machine == <<worker, cgroup, orphans>>

Phases == {"idle", "look", "get", "open", "write", "cached", "spawn", "wait"}
Ready == [pc |-> "idle", at |-> 1, got |-> "right", pure |-> TRUE, named |-> {}]

\* llama-cli: whether its request had the splits fetched, the chunks it has written of
\* its answer, and the splits that it found missing or bad.
NoLlama == [state |-> "none", fetched |-> FALSE, out |-> 0, length |-> 0,
            missing |-> {}, spoiled |-> {}]

TypeOK ==
  /\ file \in [Splits -> {"absent", "torn"} \cup Bytes]
  /\ opener \in [Splits -> Handlers \cup {None}]
  /\ job \in [Handlers -> [pc: Phases, at: 1 .. Total, got: Bytes, pure: BOOLEAN,
                       named: SUBSET Splits]]
  /\ llama \in [Handlers -> [state: {"none", "loading", "running", "exited", "failed"},
                             fetched: BOOLEAN, out: 0 .. PipeRoom, length: 0 .. PipeRoom + 1,
                             missing: SUBSET Splits, spoiled: SUBSET Splits]]
  /\ worker \in {"up", "dead", "gone"} /\ cgroup \in BOOLEAN /\ orphans \in Nat
  /\ peer \in Bytes \cup {"down"}
  /\ room \in 0 .. LogRoom /\ faults \in 0 .. MaxFaults /\ cause \subseteq Splits

Init ==
  /\ file = [i \in Splits |-> "absent"] /\ opener = [i \in Splits |-> None]
  /\ job = [h \in Handlers |-> Ready] /\ llama = [h \in Handlers |-> NoLlama]
  /\ worker = "up" /\ cgroup \in BOOLEAN /\ orphans = 0
  /\ peer = "right" /\ room = LogRoom /\ faults = 0 /\ cause = {}
-----------------------------------------------------------------------------
At(h, phase) == job[h].pc = phase
Goto(h, phase) == job' = [job EXCEPT ![h].pc = phase]
Ends(h) == job' = [job EXCEPT ![h] = Ready]

\* info!: the write into the pipe blocks while it is full.
Logs == room > 0 /\ room' = room - 1

\* Who has split i open for writing, but for h.
Writers(i, h) == {g \in Handlers \ {h} : At(g, "write") /\ job[g].at = i}

\* A request that passes the checks of run_inference.  Without remote_shards (those of
\* chat_replica, of run_pipeline_rpc and of any client that leaves the field out) it goes
\* straight to llama-cli; with some it may still name no peer for a split.
Infer(h) ==
  /\ At(h, "idle") /\ worker = "up"
  /\ \/ Goto(h, "spawn")
     \/ \E named \in SUBSET Splits :
          job' = [job EXCEPT ![h].pc = "look", ![h].named = named]
  /\ UNCHANGED <<file, opener, llama, machine, peer, room, faults, cause>>

\* dest.is_file(): a file that is there, whatever is in it, is taken for the split.
\* A missing split that the request names no peer for is an error.
Look(h) ==
  /\ At(h, "look")
  /\ LET i == job[h].at IN
     \/ /\ i = Total /\ Goto(h, "spawn") /\ UNCHANGED cause
     \/ /\ i < Total /\ file[i] # "absent"
        /\ job' = [job EXCEPT ![h].at = i + 1]
        /\ cause' = IF Writers(i, h) # {} THEN cause \cup {i} ELSE cause
     \/ /\ i < Total /\ file[i] = "absent"
        /\ IF i \in job[h].named THEN Goto(h, "get") ELSE Ends(h)
        /\ UNCHANGED cause
  /\ UNCHANGED <<file, opener, llama, machine, peer, room, faults>>

\* Mistake: an error of the peer is not the request's.
IgnoresError(h) ==
  /\ At(h, "get") /\ Logs
  /\ \/ /\ peer # "down"
        /\ job' = [job EXCEPT ![h].pc = "open", ![h].got = peer]
     \/ Goto(h, "cached")
  /\ UNCHANGED <<file, opener, llama, machine, peer, faults, cause>>

\* GET /model/shard: the peer's own split, whichever it is now, or an error.
Get(h) ==
  /\ At(h, "get") /\ Logs
  /\ \/ /\ peer # "down"
        /\ job' = [job EXCEPT ![h].pc = "open", ![h].got = peer]
     \/ Ends(h)
  /\ UNCHANGED <<file, opener, llama, machine, peer, faults, cause>>

\* fs::write opens the file and truncates it, under whoever writes it or has it mapped.
Open(h) ==
  LET i == job[h].at IN
  /\ At(h, "open")
  /\ file' = [file EXCEPT ![i] = "torn"]
  /\ opener' = [opener EXCEPT ![i] = h]
  /\ job' = [job EXCEPT ![h].pc = "write",
                        ![h].pure = \A g \in Writers(i, h) : job[g].got = job[h].got]
  /\ llama' = [g \in Handlers |->
                 IF llama[g].state = "running" THEN [llama[g] EXCEPT !.spoiled = @ \cup {i}]
                                               ELSE llama[g]]
  /\ cause' = IF file[i] # "absent" \/ job[h].got = "wrong" THEN cause \cup {i} ELSE cause
  /\ UNCHANGED <<machine, peer, room, faults>>

\* The last byte is written.  The bytes of the last opener are all there; those of an
\* earlier one may have been cut off by it, or mixed with its own.
Close(h) ==
  LET i == job[h].at IN
  /\ At(h, "write")
  /\ \E c \in IF opener[i] = h /\ job[h].pure THEN {job[h].got} ELSE {job[h].got, "torn"} :
       file' = [file EXCEPT ![i] = c]
  /\ Goto(h, "cached")
  /\ UNCHANGED <<opener, llama, machine, peer, room, faults, cause>>

\* The write fails: the request ends, the file stays.
WriteFails(h) ==
  /\ At(h, "write") /\ faults < MaxFaults
  /\ Ends(h)
  /\ faults' = faults + 1 /\ cause' = cause \cup {job[h].at}
  /\ UNCHANGED <<file, opener, llama, machine, peer, room>>

Cached(h) ==
  /\ At(h, "cached") /\ Logs
  /\ job' = [job EXCEPT ![h] = [Ready EXCEPT !.pc = "look", !.at = job[h].at + 1,
                                             !.named = job[h].named]]
  /\ UNCHANGED <<file, opener, llama, machine, peer, faults, cause>>

Spawn(h) ==
  /\ At(h, "spawn") /\ Logs
  /\ \E n \in 0 .. PipeRoom + 1 :
       llama' = [llama EXCEPT ![h] = [NoLlama EXCEPT !.state = "loading", !.length = n,
                                                     !.fetched = (job[h].at = Total)]]
  /\ job' = [job EXCEPT ![h].pc = "wait", ![h].named = {}]
  /\ UNCHANGED <<file, opener, machine, peer, faults, cause>>

\* wait_with_timeout: it has ended, and what the pipe holds is the answer.
Collect(h) ==
  /\ At(h, "wait") /\ llama[h].state \in {"exited", "failed"}
  /\ llama' = [llama EXCEPT ![h] = NoLlama] /\ Ends(h)
  /\ UNCHANGED <<file, opener, machine, peer, room, faults, cause>>

\* Mistakes: the time limit covers the fetch only; it ends the request alone.
NoTimeout(h) == FALSE

LeavesLlama(h) ==
  /\ At(h, "wait") /\ llama[h].state \in {"loading", "running"}
  /\ Ends(h)
  /\ UNCHANGED <<file, opener, llama, machine, peer, room, faults, cause>>

\* ... or has run for 180 s: killed and waited for.
TimesOut(h) ==
  /\ At(h, "wait") /\ llama[h].state \in {"loading", "running"}
  /\ llama' = [llama EXCEPT ![h] = NoLlama] /\ Ends(h)
  /\ UNCHANGED <<file, opener, machine, peer, room, faults, cause>>

\* llama-cli maps its splits and refuses a set that is not the model's.
Load(h) ==
  /\ llama[h].state = "loading"
  /\ LET missing == {i \in Splits : file[i] = "absent"}
         bad == {i \in Splits : file[i] \in {"torn", "wrong"}}
     IN  llama' = [llama EXCEPT ![h].missing = missing, ![h].spoiled = bad,
                                ![h].state = IF missing \cup bad = {} THEN "running" ELSE "failed"]
  /\ cause' = cause \cup {i \in Splits : Writers(i, h) # {}}
  /\ UNCHANGED <<file, opener, job, machine, peer, room, faults>>

\* It writes its answer, for which the pipe must have room, and ends.  A split that was
\* truncated under it, the limit on memory or a pipe without reader may kill it; or it
\* hangs.
Answer(h) ==
  /\ llama[h].state = "running"
  /\ \/ /\ llama[h].out < llama[h].length /\ llama[h].out < PipeRoom
        /\ llama' = [llama EXCEPT ![h].out = @ + 1]
     \/ /\ llama[h].out = llama[h].length
        /\ llama' = [llama EXCEPT ![h].state = "exited"]
     \/ llama' = [llama EXCEPT ![h].state = "failed"]
  /\ UNCHANGED <<file, opener, job, machine, peer, room, faults, cause>>

\* A peer goes, comes back, or is started again with another split.
PeerChanges ==
  /\ peer' \in (Bytes \cup {"down"}) \ {peer}
  /\ UNCHANGED <<file, opener, job, llama, machine, room, faults, cause>>

\* The worker dies, by its guard or otherwise; its llama-cli do not.
WorkerDies ==
  /\ worker = "up" /\ worker' = "dead"
  /\ faults < MaxFaults /\ faults' = faults + 1
  /\ job' = [h \in Handlers |-> Ready]
  /\ cause' = cause \cup {job[h].at : h \in {g \in Handlers : At(g, "write")}}
  /\ UNCHANGED <<file, opener, llama, cgroup, orphans, peer, room>>

\* The guard has found its worker dead, at its next poll, and ends.  What is in its cgroup
\* it kills (Drop of CgroupGuard); without one it has killed the worker's process only.
GuardEnds ==
  /\ worker = "dead" /\ worker' = "gone"
  /\ orphans' = IF cgroup THEN orphans
                ELSE orphans + Cardinality({h \in Handlers : llama[h].state \in {"loading", "running"}})
  /\ llama' = [h \in Handlers |-> NoLlama]
  /\ UNCHANGED <<file, opener, job, cgroup, peer, room, faults, cause>>

\* A llama-cli that nobody waits for comes to its end, if it does.
OrphanEnds ==
  /\ orphans > 0 /\ orphans' = orphans - 1
  /\ UNCHANGED <<file, opener, job, llama, worker, cgroup, peer, room, faults, cause>>

\* The agent has a new guard start a worker, with new pipes; an agent that was started
\* anew, perhaps for another model in files of the same names: the splits of the old one
\* stay where they are.
WorkerStarts ==
  /\ worker = "gone" /\ worker' = "up" /\ room' = LogRoom
  /\ \/ UNCHANGED <<file, cause>>
     \/ /\ file' = [i \in Splits |-> IF file[i] = "right" THEN "wrong" ELSE file[i]]
        /\ cause' = {i \in Splits : file[i] # "absent"} \cup cause
  /\ UNCHANGED <<opener, job, llama, cgroup, orphans, peer, faults>>

HandlerStep(h) ==
  \/ Look(h) \/ Get(h) \/ Open(h) \/ Close(h) \/ WriteFails(h) \/ Cached(h)
  \/ Spawn(h) \/ Collect(h) \/ TimesOut(h)

Next ==
  \/ \E h \in Handlers : Infer(h) \/ HandlerStep(h) \/ Load(h) \/ Answer(h)
  \/ PeerChanges \/ WorkerDies \/ GuardEnds \/ OrphanEnds \/ WorkerStarts

\* A handler's thread runs to its end: every wait in it has a limit but that of a log
\* line.  Nothing is assumed of llama-cli.
Spec == Init /\ [][Next]_vars /\ \A h \in Handlers : WF_vars(HandlerStep(h))
-----------------------------------------------------------------------------
\* llama-cli finds a bad split only where two requests raced for it, its write was cut,
\* the peer sent another one or it is left of another model, and misses one only where
\* its request named no peers at all: a fetch that is alone and not disturbed leaves the
\* whole split, through any number of requests, restarts and absent peers.
SpoiledHasCause ==
  \A h \in Handlers :
    /\ llama[h].spoiled \subseteq cause
    /\ llama[h].fetched => llama[h].missing = {}

\* Every request ends, though llama-cli hangs, or blocks on an answer longer than its
\* pipe, which nobody reads before it exits - unless the worker's own log pipe is full.
Logging == {"get", "cached", "spawn"}
RequestEnds ==
  \A h \in Handlers :
    ~At(h, "idle") ~> (At(h, "idle") \/ (room = 0 /\ job[h].pc \in Logging))

\* No llama-cli outlives the request that waits for it but by the death of the worker, and
\* where the guards have a cgroup none is left of an earlier worker by the time another
\* serves: such a machine runs at most one for each request at work.  Without a cgroup
\* those of a dead worker may run on beside the others.  (A guard that is killed itself
\* leaves its worker; that is NodeSupervisor's.)
LlamaHasHandler ==
  worker = "up" =>
    /\ \A h \in Handlers : llama[h].state # "none" => At(h, "wait")
    /\ cgroup => orphans = 0

(* docs/PIPELINE.md:61: stage 0 fetches the peers' splits and runs one infer.  What  *)
(* it runs on is then the model: never a split that is still being written or that  *)
(* was cut off.                                                                      *)
RunsOnWholeModel == \A h \in Handlers : llama[h].spoiled = {}
=============================================================================
