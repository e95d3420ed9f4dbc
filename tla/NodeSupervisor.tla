--------------------------- MODULE NodeSupervisor ---------------------------
(***************************************************************************)
(* One contributor machine: the `youai-node start` commands run on it (an  *)
(* agent each), the youai-guard process an agent spawns, the youai-worker  *)
(* that guard spawns, the file node.runtime.json and `youai-node pause`.   *)
(*                                                                         *)
(* A guard and its worker are spawned as a pair and share an index in      *)
(* Pids.  The agents read one configuration file, so every worker binds    *)
(* the same port and a health check is answered by whichever worker holds  *)
(* it.  A guard logs to a pipe of which its agent keeps the read end and   *)
(* never reads; room[p] counts the lines that still fit.                   *)
(***************************************************************************)
EXTENDS Naturals, FiniteSets

CONSTANTS Agents,    \* the `youai-node start` commands
          MaxPid,    \* how many guards may be spawned in all (a bound)
          LogRoom,   \* the log lines a guard's pipe holds (a bound)
          Cgroups    \* the guards that could create their cgroup

ASSUME SupervisorAssumption == /\ Agents # {}
                               /\ MaxPid \in Nat \ {0}
                               /\ LogRoom \in Nat
                               /\ Cgroups \subseteq 1..MaxPid

Pids == 1..MaxPid
NoPid == 0

VARIABLES
  pc,       \* where each agent is in NodeRuntime
  child,    \* NodeRuntime.worker_child, NoPid before the first spawn
  owner,    \* the agent that spawned each guard
  guard,    \* each guard process
  reaped,   \* the ended guards whose agent has waited for them
  room,     \* the lines that still fit in each guard's log pipe
  worker,   \* each worker process
  runtime,  \* the pid in node.runtime.json, NoPid if there is no file
  pause     \* the pause command, and the guard it was last given

vars == <<pc, child, owner, guard, reaped, room, worker, runtime, pause>>
procs == <<owner, guard, reaped, room, worker>>

Starting == {"spawning", "waiting", "registering", "firstbeat"}
Deaf == {"beating", "restarting", "rewaiting"}
Phases == Starting \cup Deaf \cup {"idle", "running", "down"}

Init == /\ pc = [a \in Agents |-> "idle"]
        /\ child = [a \in Agents |-> NoPid]
        /\ owner = [p \in Pids |-> CHOOSE a \in Agents : TRUE]
        /\ guard = [p \in Pids |-> "unused"]
        /\ reaped = {}
        /\ room = [p \in Pids |-> LogRoom]
        /\ worker = [p \in Pids |-> "none"]
        /\ runtime = NoPid
        /\ pause = [pc |-> "idle", pid |-> NoPid]

Ended(p) == guard[p] \in {"exited", "signalled", "failed"}
Alive(p) == worker[p] \in {"loading", "serving", "over"}
Listening(p) == worker[p] \in {"serving", "over"}

\* is_process_alive: kill(pid, 0) also finds a guard that has ended and that
\* nobody has waited for.  init waits for the guards of an agent that is gone.
Exists(p) == /\ p # NoPid
             /\ \/ guard[p] = "up"
                \/ Ended(p) /\ p \notin reaped /\ pc[owner[p]] # "down"
-----------------------------------------------------------------------------
(* The agent: NodeRuntime::start, run_until_stopped and restart_worker. *)

Goto(a, phase) == pc' = [pc EXCEPT ![a] = phase]

\* clear_runtime_state, then the error ends the command.
GivesUp(a) == /\ Goto(a, "down")
              /\ runtime' = NoPid

\* Refused while the process the file names exists.
Start(a) ==
  /\ pc[a] = "idle"
  /\ IF Exists(runtime)
       THEN Goto(a, "down") /\ UNCHANGED runtime
       ELSE Goto(a, "spawning") /\ runtime' = NoPid
  /\ UNCHANGED <<child, procs, pause>>

\* spawn_worker_child: the guard, and the worker it runs.
Spawn(a) ==
  \E p \in Pids :
    /\ pc[a] \in {"spawning", "restarting"}
    /\ guard[p] = "unused"
    /\ \A q \in 1..(p - 1) : guard[q] # "unused"
    /\ guard' = [guard EXCEPT ![p] = "up"]
    /\ worker' = [worker EXCEPT ![p] = "loading"]
    /\ owner' = [owner EXCEPT ![p] = a]
    /\ child' = [child EXCEPT ![a] = p]
    /\ Goto(a, IF pc[a] = "spawning" THEN "waiting" ELSE "rewaiting")
    /\ UNCHANGED <<reaped, room, runtime, pause>>

\* No model file, no binary, or the spawn itself fails.
SpawnFails(a) ==
  /\ \/ pc[a] = "spawning" /\ Goto(a, "down") /\ UNCHANGED runtime
     \/ pc[a] = "restarting" /\ GivesUp(a)
  /\ UNCHANGED <<child, procs, pause>>

\* Not the code: a restart that forgets persist_state.
HealthyUnsaved(a) ==
  /\ \E p \in Pids : Listening(p)
  /\ pc[a] \in {"waiting", "rewaiting"}
  /\ Goto(a, IF pc[a] = "waiting" THEN "registering" ELSE "running")
  /\ UNCHANGED <<child, procs, runtime, pause>>

\* wait_for_worker_health: some worker answers on the port.
Healthy(a) ==
  /\ \E p \in Pids : Listening(p)
  /\ \/ /\ pc[a] = "waiting"
        /\ Goto(a, "registering")
        /\ UNCHANGED runtime
     \/ /\ pc[a] = "rewaiting"
        /\ Goto(a, "running")
        /\ runtime' = child[a]
  /\ UNCHANGED <<child, procs, pause>>

\* None of the 30 attempts was answered.  The guard is not killed.
Unhealthy(a) ==
  /\ \/ pc[a] = "waiting" /\ Goto(a, "down") /\ UNCHANGED runtime
     \/ pc[a] = "rewaiting" /\ GivesUp(a)
  /\ UNCHANGED <<child, procs, pause>>

Register(a) ==
  /\ pc[a] = "registering"
  /\ Goto(a, "firstbeat")
  /\ runtime' = child[a]
  /\ UNCHANGED <<child, procs, pause>>

FirstBeat(a) ==
  /\ pc[a] = "firstbeat"
  /\ Goto(a, "running")
  /\ UNCHANGED <<child, procs, runtime, pause>>

\* register_or_reuse or the first heartbeat fails: `?` ends start, and the
\* guard and the file stay as they are.
StartFails(a) ==
  /\ pc[a] \in {"registering", "firstbeat"}
  /\ Goto(a, "down")
  /\ UNCHANGED <<child, procs, runtime, pause>>

Tick(a) ==
  /\ pc[a] = "running"
  /\ Goto(a, "beating")
  /\ UNCHANGED <<child, procs, runtime, pause>>

\* Not the code: the loop looks at the worker, or only after a good heartbeat.
BeatenByWorker(a) ==
  /\ pc[a] = "beating"
  /\ Goto(a, IF worker[child[a]] = "dead" THEN "restarting" ELSE "running")
  /\ UNCHANGED <<child, procs, runtime, pause>>
BeatenIfOk(a) ==
  /\ pc[a] = "beating"
  /\ \E ok \in BOOLEAN :
       Goto(a, IF ok /\ Ended(child[a]) THEN "restarting" ELSE "running")
  /\ UNCHANGED <<child, procs, runtime, pause>>

\* The heartbeat is over, well or badly, and try_wait looks at the guard.
Beaten(a) ==
  /\ pc[a] = "beating"
  /\ IF Ended(child[a])
       THEN Goto(a, "restarting") /\ reaped' = reaped \cup {child[a]}
       ELSE Goto(a, "running") /\ UNCHANGED reaped
  /\ UNCHANGED <<child, owner, guard, room, worker, runtime, pause>>

AgentStep(a) == \/ Spawn(a) \/ SpawnFails(a)
                \/ Healthy(a) \/ Unhealthy(a)
                \/ Register(a) \/ FirstBeat(a) \/ StartFails(a)
                \/ Tick(a) \/ Beaten(a)
-----------------------------------------------------------------------------
(* What happens to an agent from outside. *)

\* Ctrl+C at the terminal: SIGINT reaches the agent's whole process group.
Interrupted(a) ==
  LET group == {p \in Pids : owner[p] = a}
  IN  /\ guard' = [p \in Pids |-> IF p \in group /\ guard[p] = "up"
                                    THEN "signalled" ELSE guard[p]]
      /\ worker' = [p \in Pids |-> IF p \in group /\ Alive(p)
                                     THEN "dead" ELSE worker[p]]
      /\ UNCHANGED <<child, owner, room, pause>>

\* Before the first select! no handler is installed; in it, stop_worker kills
\* and waits for the guard; in a heartbeat or a restart nobody listens, and
\* the signal is lost.
CtrlC(a) ==
  /\ Interrupted(a)
  /\ \/ pc[a] \in Starting /\ Goto(a, "down") /\ UNCHANGED <<reaped, runtime>>
     \/ pc[a] = "running" /\ GivesUp(a) /\ reaped' = reaped \cup {child[a]}
     \/ pc[a] \in Deaf /\ UNCHANGED <<pc, reaped, runtime>>

\* The agent alone is killed.
AgentDies(a) ==
  /\ pc[a] \in Starting \cup Deaf \cup {"running"}
  /\ Goto(a, "down")
  /\ UNCHANGED <<child, procs, runtime, pause>>
-----------------------------------------------------------------------------
(* The guard: Watchdog::run and supervise_child. *)

\* A line goes to the pipe while the agent holds its read end; with no reader
\* left, the write fails at once.
Piped(p) == pc[owner[p]] # "down"
Unblocked(p) == Piped(p) => room[p] > 0
Logs(p) == room' = IF Piped(p) THEN [room EXCEPT ![p] = @ - 1] ELSE room

GuardEnds(p, how) == guard' = [guard EXCEPT ![p] = how]
WorkerEnds(p) == worker' = [worker EXCEPT ![p] = "dead"]

GuardTick(p) ==
  /\ guard[p] = "up" /\ Piped(p) /\ Unblocked(p)
  /\ worker[p] \in {"loading", "serving"}
  /\ Logs(p)
  /\ UNCHANGED <<pc, child, owner, guard, reaped, worker, runtime, pause>>

\* Not the code: the guard leaves without killing, or kills nobody and goes on.
GuardLeaves(p) ==
  /\ guard[p] = "up" /\ Unblocked(p)
  /\ worker[p] = "over"
  /\ Logs(p) /\ GuardEnds(p, "exited")
  /\ UNCHANGED <<pc, child, owner, reaped, worker, runtime, pause>>
GuardMisses(p) ==
  /\ guard[p] = "up" /\ Unblocked(p) /\ Piped(p)
  /\ worker[p] = "over"
  /\ Logs(p)
  /\ UNCHANGED <<pc, child, owner, guard, reaped, worker, runtime, pause>>

\* Over a limit: the breach is logged, the worker killed and waited for.
GuardKills(p) ==
  /\ guard[p] = "up" /\ Unblocked(p)
  /\ worker[p] = "over"
  /\ Logs(p) /\ WorkerEnds(p) /\ GuardEnds(p, "exited")
  /\ UNCHANGED <<pc, child, owner, reaped, runtime, pause>>

\* is_running finds that the worker has exited.
GuardNotices(p) ==
  /\ guard[p] = "up" /\ Unblocked(p)
  /\ worker[p] = "dead"
  /\ Logs(p) /\ GuardEnds(p, "exited")
  /\ UNCHANGED <<pc, child, owner, reaped, worker, runtime, pause>>

\* A sample fails and `?` ends the guard, or writing to a pipe without reader
\* panics.  Dropping the CgroupGuard kills what is in the cgroup.
GuardFails(p) ==
  /\ guard[p] = "up" /\ Unblocked(p) /\ Alive(p)
  /\ GuardEnds(p, "failed")
  /\ IF p \in Cgroups THEN WorkerEnds(p) ELSE UNCHANGED worker
  /\ UNCHANGED <<pc, child, owner, reaped, room, runtime, pause>>
-----------------------------------------------------------------------------
(* The worker: serve binds the port or fails. *)

PortFree == \A q \in Pids : ~Listening(q)
WorkerGoes(p, to) ==
  /\ worker' = [worker EXCEPT ![p] = to]
  /\ UNCHANGED <<pc, child, owner, guard, reaped, room, runtime, pause>>

Bind(p) == /\ worker[p] = "loading"
           /\ WorkerGoes(p, IF PortFree THEN "serving" ELSE "dead")
WorkerDies(p) == Alive(p) /\ WorkerGoes(p, "dead")
WorkerUsage(p) == \/ worker[p] = "serving" /\ WorkerGoes(p, "over")
                  \/ worker[p] = "over" /\ WorkerGoes(p, "serving")
-----------------------------------------------------------------------------
(* pause_running_node: SIGTERM, half a second, SIGKILL if the process still *)
(* exists, and the file is removed.                                         *)

PauseSignals ==
  /\ pause.pc = "idle"
  /\ runtime # NoPid
  /\ IF Exists(runtime)
       THEN /\ pause' = [pc |-> "signalled", pid |-> runtime]
            /\ guard' = [guard EXCEPT ![runtime] =
                           IF @ = "up" THEN "signalled" ELSE @]
            /\ UNCHANGED runtime
       ELSE runtime' = NoPid /\ UNCHANGED <<pause, guard>>
  /\ UNCHANGED <<pc, child, owner, reaped, room, worker>>

\* SIGTERM has ended the guard by now; SIGKILL finds at most its remains.
PauseClears ==
  /\ pause.pc = "signalled"
  /\ runtime' = NoPid
  /\ pause' = [pause EXCEPT !.pc = "idle"]
  /\ UNCHANGED <<pc, child, procs>>
-----------------------------------------------------------------------------
Next == \/ \E a \in Agents : Start(a) \/ AgentStep(a) \/ CtrlC(a) \/ AgentDies(a)
        \/ \E p \in Pids : \/ GuardTick(p) \/ GuardKills(p) \/ GuardNotices(p)
                           \/ GuardFails(p)
                           \/ Bind(p) \/ WorkerDies(p) \/ WorkerUsage(p)
        \/ PauseSignals \/ PauseClears

\* The agent's task and the guard's loop keep running, a process that was
\* spawned gets as far as bind, and a pause command runs to its end.
Fairness == /\ \A a \in Agents : WF_vars(AgentStep(a))
            /\ \A p \in Pids :
                 /\ WF_vars(GuardTick(p) \/ GuardKills(p) \/ GuardNotices(p))
                 /\ WF_vars(Bind(p))
            /\ WF_vars(PauseClears)

Spec == Init /\ [][Next]_vars /\ Fairness
-----------------------------------------------------------------------------
(* Every variable keeps the values NodeRuntime, the guard and the worker    *)
(* give it.                                                                 *)
TypeOK ==
  /\ pc \in [Agents -> Phases]
  /\ child \in [Agents -> Pids \cup {NoPid}]
  /\ owner \in [Pids -> Agents]
  /\ guard \in [Pids -> {"unused", "up", "exited", "signalled", "failed"}]
  /\ reaped \subseteq Pids
  /\ room \in [Pids -> 0..LogRoom]
  /\ worker \in [Pids -> {"none", "loading", "serving", "over", "dead"}]
  /\ runtime \in Pids \cup {NoPid}
  /\ pause \in [pc : {"idle", "signalled"}, pid : Pids \cup {NoPid}]

(* An agent never holds two running guards, however its restarts interleave *)
(* with crashes, pauses and signals: whatever guard of an agent still runs  *)
(* is the one in worker_child, the only one that agent can reap or kill.    *)
OneGuardPerAgent ==
  \A p \in Pids : guard[p] = "up" => child[owner[p]] = p

(* While an agent is in its loop, the file names the guard it holds, across *)
(* any number of restarts, so that pause reaches that guard.  Only another  *)
(* start command or a pause can make the file say something else.           *)
RuntimeNamesGuard ==
  \A a \in Agents :
    /\ pc[a] \in {"running", "beating"}
    /\ \A b \in Agents \ {a} : pc[b] = "idle"
    /\ pause.pid = NoPid
    => runtime = child[a]

(* A worker outlives its guard only where the SIGTERM of a pause ended the  *)
(* guard, or where the guard failed without a cgroup to empty.              *)
OrphanOnlyByPause ==
  \A p \in Pids :
    Alive(p) /\ Ended(p)
      => (guard[p] = "signalled" \/ (guard[p] = "failed" /\ p \notin Cgroups))

(* A worker over its limits is brought down, unless its guard stops first   *)
(* or is stuck writing to a log pipe nobody reads.                          *)
KilledUnlessBlocked ==
  \A p \in Pids :
    (guard[p] = "up" /\ worker[p] = "over")
      ~> (worker[p] # "over" \/ guard[p] # "up" \/ ~Unblocked(p))

(* The worker of an agent in its loop does not stay dead: the guard notices, *)
(* the agent notices the guard, and another worker is spawned or the agent   *)
(* stops; unless the guard is stuck writing its log.                         *)
DeadWorkerReplaced ==
  \A a \in Agents, p \in Pids :
    (pc[a] \in {"running", "beating"} /\ child[a] = p /\ worker[p] = "dead")
      ~> (pc[a] = "down" \/ child[a] # p \/ ~Unblocked(p))

(* docs/SECURITY.md:89 says of the guard "Kills the worker immediately if    *)
(* limits are exceeded": a worker over its limits, under a guard that runs,  *)
(* does not stay there.                                                      *)
KilledWhenOver ==
  \A p \in Pids :
    (guard[p] = "up" /\ worker[p] = "over")
      ~> (worker[p] # "over" \/ guard[p] # "up")

(* youai-node/src/main.rs:22 says of pause "Pause contribution immediately": *)
(* when the command is done, the worker under the guard it ended is not      *)
(* running.                                                                  *)
PauseStops ==
  pause.pc = "idle" /\ pause.pid # NoPid => ~Alive(pause.pid)
=============================================================================
