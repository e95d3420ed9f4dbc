------------------------ MODULE NodeSupervisorProofs ------------------------
(***************************************************************************)
(* NodeSupervisor's safety for any number of start commands, spawns and    *)
(* log lines, with and without cgroups.                                    *)
(***************************************************************************)
EXTENDS NodeSupervisor, TLAPS

USE DEF procs, Pids, NoPid

-----------------------------------------------------------------------------
(* TypeOK and the properties are not inductive: a restart records its child   *)
(* as waited for, so there must be one; and what pause finds in the file      *)
(* depends on which phases have a guard, and whose it is.                     *)

\* The phases in which an agent has a guard that it has not waited for.
Holding == {"waiting", "registering", "firstbeat", "running", "beating", "rewaiting"}

HasChild ==
  \A a \in Agents : pc[a] \in Holding =>
    /\ child[a] \in Pids \ reaped
    /\ owner[child[a]] = a
    /\ guard[child[a]] # "unused"

\* A guard that runs is its agent's child, and none runs while the agent spawns one.
GuardsHeld ==
  \A p \in Pids : guard[p] = "up" =>
    /\ child[owner[p]] = p
    /\ pc[owner[p]] \in Holding \cup {"down"}

ReapedUsed == \A p \in reaped : guard[p] # "unused"

\* What RuntimeNamesGuard says, from persist_state on.
FileNamesChild ==
  \A a \in Agents :
    /\ pc[a] \in {"firstbeat", "running", "beating"}
    /\ \A b \in Agents \ {a} : pc[b] = "idle"
    /\ pause.pid = NoPid
    => runtime = child[a]

PauseNamed == pause.pc = "signalled" => pause.pid # NoPid

SupervisorInv ==
  /\ TypeOK /\ PauseNamed /\ HasChild /\ GuardsHeld /\ ReapedUsed /\ FileNamesChild
  /\ OrphanOnlyByPause

GuardTypes == [Pids -> {"unused", "up", "exited", "signalled", "failed"}]
WorkerTypes == [Pids -> {"none", "loading", "serving", "over", "dead"}]

\* Nothing runs before the first command.
LEMMA SupervisorInit == Init => SupervisorInv
<1> SUFFICES ASSUME Init PROVE SupervisorInv
  OBVIOUS
<1>1. TypeOK
  BY SupervisorAssumption DEF Init, TypeOK, Phases
<1>2. PauseNamed /\ HasChild /\ GuardsHeld /\ ReapedUsed /\ FileNamesChild
  BY DEF Init, PauseNamed, HasChild, GuardsHeld, ReapedUsed, FileNamesChild, Holding
<1>3. OrphanOnlyByPause
  BY DEF Init, OrphanOnlyByPause, Alive
<1> QED BY <1>1, <1>2, <1>3 DEF SupervisorInv
-----------------------------------------------------------------------------
(* The steps of guards, workers and pause commands.                          *)

\* Guards that end without their agents' notice leave the agents' claims standing.
LEMMA GuardsEnd ==
  ASSUME SupervisorInv, UNCHANGED <<pc, child, owner, reaped>>,
         \A p \in Pids : \/ guard'[p] = guard[p]
                         \/ guard[p] = "up" /\ guard'[p] \notin {"up", "unused"}
  PROVE  HasChild' /\ GuardsHeld' /\ ReapedUsed'
<1>1. HasChild'
  BY DEF SupervisorInv, HasChild
<1>2. GuardsHeld'
  BY DEF SupervisorInv, GuardsHeld
<1>3. ReapedUsed'
  BY DEF SupervisorInv, ReapedUsed, TypeOK
<1> QED BY <1>1, <1>2, <1>3

\* Watchdog::run, supervise_child and the end of a guard keep the invariant.
LEMMA GuardSteps ==
  ASSUME SupervisorInv, NEW p \in Pids,
         GuardTick(p) \/ GuardKills(p) \/ GuardNotices(p) \/ GuardFails(p)
  PROVE  SupervisorInv'
<1>1. UNCHANGED <<pc, child, owner, reaped, runtime, pause>>
  BY DEF GuardTick, GuardKills, GuardNotices, GuardFails
<1>2. /\ guard' = guard \/ \E how \in {"exited", "failed"} : GuardEnds(p, how) /\ guard[p] = "up"
      /\ worker' = worker \/ WorkerEnds(p)
  BY DEF GuardTick, GuardKills, GuardNotices, GuardFails
<1>3. guard' \in GuardTypes /\ worker' \in WorkerTypes
  BY <1>2 DEF SupervisorInv, TypeOK, GuardEnds, WorkerEnds, GuardTypes, WorkerTypes
<1>4. room' \in [Pids -> 0..LogRoom]
  <2>1. CASE Piped(p) => room[p] > 0
    <3>1. room[p] \in 0..LogRoom /\ room \in [Pids -> 0..LogRoom] /\ LogRoom \in Nat
      BY SupervisorAssumption DEF SupervisorInv, TypeOK
    <3>2. room[p] > 0 => room[p] - 1 \in 0..LogRoom
      BY <3>1
    <3>3. room' = room \/ (Piped(p) /\ room' = [room EXCEPT ![p] = @ - 1])
      BY DEF GuardTick, GuardKills, GuardNotices, GuardFails, Logs
    <3> QED BY <2>1, <3>1, <3>2, <3>3
  <2>2. Piped(p) => room[p] > 0
    BY DEF GuardTick, GuardKills, GuardNotices, GuardFails, Unblocked
  <2> QED BY <2>1, <2>2
<1>5. TypeOK'
  BY <1>1, <1>3, <1>4 DEF SupervisorInv, TypeOK, GuardTypes, WorkerTypes
<1>6. HasChild' /\ GuardsHeld' /\ ReapedUsed'
  <2>1. \A q \in Pids : \/ guard'[q] = guard[q]
                        \/ guard[q] = "up" /\ guard'[q] \notin {"up", "unused"}
    BY <1>2 DEF SupervisorInv, TypeOK, GuardEnds
  <2> QED BY <1>1, <2>1, GuardsEnd
<1>7. PauseNamed' /\ FileNamesChild'
  BY <1>1 DEF SupervisorInv, PauseNamed, FileNamesChild
<1>8. OrphanOnlyByPause'
  BY DEF SupervisorInv, TypeOK, OrphanOnlyByPause, Alive, Ended, GuardTick, GuardKills, GuardNotices,
         GuardFails, GuardEnds, WorkerEnds
<1> QED BY <1>5, <1>6, <1>7, <1>8 DEF SupervisorInv

\* A worker's own steps never bring one to life under a guard that has ended.
LEMMA WorkerSteps ==
  ASSUME SupervisorInv, NEW p \in Pids, Bind(p) \/ WorkerDies(p) \/ WorkerUsage(p)
  PROVE  SupervisorInv'
<1>1. UNCHANGED <<pc, child, owner, guard, reaped, room, runtime, pause>>
  BY DEF Bind, WorkerDies, WorkerUsage, WorkerGoes
<1>2. \E to \in {"serving", "over", "dead"} : Alive(p) /\ worker' = [worker EXCEPT ![p] = to]
  BY DEF Bind, WorkerDies, WorkerUsage, WorkerGoes, Alive
<1>3. TypeOK'
  BY <1>1, <1>2 DEF SupervisorInv, TypeOK
<1>4. PauseNamed' /\ HasChild' /\ GuardsHeld' /\ ReapedUsed' /\ FileNamesChild'
  BY <1>1 DEF SupervisorInv, PauseNamed, HasChild, GuardsHeld, ReapedUsed, FileNamesChild
<1>5. OrphanOnlyByPause'
  BY <1>1, <1>2 DEF SupervisorInv, TypeOK, OrphanOnlyByPause, Alive, Ended
<1> QED BY <1>3, <1>4, <1>5 DEF SupervisorInv

\* pause_running_node keeps the invariant: the guard of a running agent exists, so that a
\* pause which finds nothing to signal does not take that agent's file.
LEMMA PauseSteps ==
  ASSUME SupervisorInv, PauseSignals \/ PauseClears
  PROVE  SupervisorInv'
<1>1. UNCHANGED <<pc, child, owner, reaped, room, worker>>
  BY DEF PauseSignals, PauseClears
<1>2. \/ /\ runtime # NoPid
         /\ pause' = [pc |-> "signalled", pid |-> runtime]
         /\ guard' = [guard EXCEPT ![runtime] = IF @ = "up" THEN "signalled" ELSE @]
         /\ runtime' = runtime
      \/ ~Exists(runtime) /\ runtime # NoPid /\ runtime' = NoPid /\ UNCHANGED <<pause, guard>>
      \/ PauseClears
  BY DEF PauseSignals
<1>3. TypeOK'
  BY <1>1, <1>2 DEF SupervisorInv, TypeOK, PauseClears
<1>4. \A p \in Pids : guard'[p] = guard[p] \/ (guard[p] = "up" /\ guard'[p] = "signalled")
  BY <1>2 DEF SupervisorInv, TypeOK, PauseClears
<1>5. HasChild' /\ GuardsHeld' /\ ReapedUsed'
  BY <1>1, <1>4, GuardsEnd
<1>6. FileNamesChild'
  <2>1. CASE runtime # NoPid /\ pause' = [pc |-> "signalled", pid |-> runtime]
    BY <2>1 DEF FileNamesChild
  <2>2. CASE ~Exists(runtime) /\ runtime # NoPid /\ runtime' = NoPid /\ UNCHANGED <<pause, guard>>
    <3> SUFFICES ASSUME NEW a \in Agents, pc[a] \in {"firstbeat", "running", "beating"},
                        \A b \in Agents \ {a} : pc[b] = "idle", pause.pid = NoPid
                 PROVE  FALSE
      BY <1>1, <2>2 DEF FileNamesChild
    <3>1. runtime = child[a]
      BY DEF SupervisorInv, FileNamesChild
    <3>2. /\ child[a] \in Pids \ reaped /\ owner[child[a]] = a /\ guard[child[a]] # "unused"
      BY DEF SupervisorInv, HasChild, Holding
    <3>3. guard[child[a]] \in {"unused", "up", "exited", "signalled", "failed"}
      BY <3>2 DEF SupervisorInv, TypeOK
    <3> QED BY <2>2, <3>1, <3>2, <3>3 DEF Exists, Ended
  <2>3. CASE PauseClears
    <3>1. pause.pid # NoPid /\ pause'.pid = pause.pid
      BY <2>3 DEF PauseClears, SupervisorInv, TypeOK, PauseNamed
    <3> QED BY <3>1 DEF FileNamesChild
  <2> QED BY <1>2, <2>1, <2>2, <2>3
<1>7. OrphanOnlyByPause'
  BY <1>1, <1>4 DEF SupervisorInv, OrphanOnlyByPause, Alive, Ended
<1>8. PauseNamed'
  BY <1>2 DEF SupervisorInv, PauseNamed, PauseClears, TypeOK
<1> QED BY <1>3, <1>5, <1>6, <1>7, <1>8 DEF SupervisorInv
-----------------------------------------------------------------------------
(* The steps of agents.                                                      *)

\* A step that leaves the processes alone, and takes the agent to no phase with a
\* guard unless it was in one, disturbs no claim about guards.
LEMMA AgentMoves ==
  ASSUME SupervisorInv, NEW a \in Agents, NEW to, Goto(a, to), UNCHANGED <<child, procs, pause>>,
         to \in Holding => pc[a] \in Holding,
         to \in Holding \cup {"down"} \/ (pc[a] \notin Holding \cup {"down"})
  PROVE  HasChild' /\ GuardsHeld' /\ ReapedUsed' /\ PauseNamed' /\ OrphanOnlyByPause'
<1>1. \A b \in Agents : pc'[b] = IF b = a THEN to ELSE pc[b]
  BY DEF Goto, SupervisorInv, TypeOK
<1>2. HasChild'
  BY <1>1 DEF SupervisorInv, HasChild
<1>3. GuardsHeld'
  BY <1>1 DEF SupervisorInv, GuardsHeld, TypeOK
<1>4. ReapedUsed' /\ PauseNamed' /\ OrphanOnlyByPause'
  BY DEF SupervisorInv, ReapedUsed, PauseNamed, OrphanOnlyByPause, Alive, Ended
<1> QED BY <1>2, <1>3, <1>4

\* The file follows: an agent that has ended, or has no file yet, claims nothing, and
\* one that is not alone needs nothing.
LEMMA OthersNotIdle ==
  ASSUME SupervisorInv, NEW a \in Agents, NEW to, Goto(a, to), to # "idle",
         to \in {"firstbeat", "running", "beating"} /\ pause'.pid = NoPid => runtime' = child'[a]
  PROVE  FileNamesChild'
<1>1. \A b \in Agents : pc'[b] = IF b = a THEN to ELSE pc[b]
  BY DEF Goto, SupervisorInv, TypeOK
<1> SUFFICES ASSUME NEW b \in Agents, pc'[b] \in {"firstbeat", "running", "beating"},
                    \A c \in Agents \ {b} : pc'[c] = "idle", pause'.pid = NoPid
             PROVE  runtime' = child'[b]
  BY DEF FileNamesChild
<1>2. b = a
  BY <1>1
<1> QED BY <1>1, <1>2

\* start up to the spawn, and the awaits of start, run_until_stopped and restart_worker
\* that end without a process having been spawned or waited for.
LEMMA AwaitSteps ==
  ASSUME SupervisorInv, NEW a \in Agents,
         \/ Start(a) \/ SpawnFails(a) \/ Healthy(a) \/ Unhealthy(a) \/ Register(a)
         \/ FirstBeat(a) \/ StartFails(a) \/ Tick(a) \/ AgentDies(a)
         \/ Beaten(a) /\ ~Ended(child[a])
  PROVE  SupervisorInv'
<1>1. UNCHANGED <<child, procs, pause>>
  BY DEF Start, SpawnFails, Healthy, Unhealthy, Register, FirstBeat, StartFails, Tick, AgentDies, Beaten
<1>2. PICK to \in Phases :
        /\ Goto(a, to) /\ to # "idle"
        /\ to \in Holding => pc[a] \in Holding
        /\ to \in Holding \cup {"down"} \/ (pc[a] \notin Holding \cup {"down"})
  BY DEF Start, SpawnFails, Healthy, Unhealthy, Register, FirstBeat, StartFails, Tick, AgentDies,
         Beaten, GivesUp, Goto, Phases, Starting, Deaf, Holding
<1>3. runtime' \in {runtime, NoPid} \/ (runtime' = child[a] /\ pc[a] \in Holding)
  BY DEF Start, SpawnFails, Healthy, Unhealthy, Register, FirstBeat, StartFails, Tick, AgentDies,
         Beaten, GivesUp, Holding
<1>4. TypeOK'
  BY <1>1, <1>2, <1>3 DEF SupervisorInv, TypeOK, Goto
<1>5. HasChild' /\ GuardsHeld' /\ ReapedUsed' /\ PauseNamed' /\ OrphanOnlyByPause'
  BY <1>1, <1>2, AgentMoves
<1>6. FileNamesChild'
  <2>1. pc'[a] = to
    BY <1>2 DEF Goto, SupervisorInv, TypeOK
  <2>2. CASE /\ runtime' = runtime /\ to \in {"running", "beating"}
             /\ pc[a] \in {"firstbeat", "running", "beating"}
    <3>1. \A b \in Agents \ {a} : pc'[b] = pc[b]
      BY <1>2 DEF Goto, SupervisorInv, TypeOK
    <3> SUFFICES ASSUME NEW b \in Agents, pc'[b] \in {"firstbeat", "running", "beating"},
                        \A c \in Agents \ {b} : pc'[c] = "idle", pause'.pid = NoPid
                 PROVE  runtime' = child'[b]
      BY DEF FileNamesChild
    <3>2. b = a
      BY <2>1, <2>2
    <3> QED BY <1>1, <2>2, <3>1, <3>2 DEF SupervisorInv, FileNamesChild
  <2>3. CASE to \in {"firstbeat", "running", "beating"} => runtime' = child'[a]
    BY <1>2, <2>3, OthersNotIdle
  <2> QED
    BY <1>1, <2>1, <2>2, <2>3 DEF Start, SpawnFails, Healthy, Unhealthy, Register, FirstBeat, StartFails,
         Tick, AgentDies, Beaten, GivesUp, Goto, SupervisorInv, TypeOK
<1> QED BY <1>4, <1>5, <1>6 DEF SupervisorInv

\* spawn_worker_child: the agent has no running guard, so the new one is its only one.
LEMMA SpawnStep ==
  ASSUME SupervisorInv, NEW a \in Agents, Spawn(a)
  PROVE  SupervisorInv'
<1> PICK p \in Pids : Spawn(a)!(p)
  BY DEF Spawn
<1>1. PICK to \in {"waiting", "rewaiting"} : Goto(a, to)
  OBVIOUS
<1>2. /\ \A q \in Pids : guard'[q] = IF q = p THEN "up" ELSE guard[q]
      /\ \A q \in Pids : owner'[q] = IF q = p THEN a ELSE owner[q]
      /\ \A q \in Pids : worker'[q] = IF q = p THEN "loading" ELSE worker[q]
      /\ \A b \in Agents : child'[b] = IF b = a THEN p ELSE child[b]
      /\ \A b \in Agents : pc'[b] = IF b = a THEN to ELSE pc[b]
  BY <1>1 DEF Goto, SupervisorInv, TypeOK
<1>3. p \notin reaped /\ guard[p] = "unused" /\ pc[a] \notin Holding \cup {"down"}
  BY DEF SupervisorInv, ReapedUsed, Holding
<1>4. TypeOK'
  BY <1>1 DEF SupervisorInv, TypeOK, Goto, Phases, Starting, Deaf
<1>5. HasChild'
  <2> SUFFICES ASSUME NEW b \in Agents, pc'[b] \in Holding
               PROVE  /\ child'[b] \in Pids \ reaped' /\ owner'[child'[b]] = b
                      /\ guard'[child'[b]] # "unused"
    BY DEF HasChild
  <2>1. CASE b = a
    BY <1>2, <1>3, <2>1
  <2>2. CASE b # a
    BY <1>2, <1>3, <2>2 DEF SupervisorInv, HasChild
  <2> QED BY <2>1, <2>2
<1>6. GuardsHeld'
  <2> SUFFICES ASSUME NEW q \in Pids, guard'[q] = "up"
               PROVE  child'[owner'[q]] = q /\ pc'[owner'[q]] \in Holding \cup {"down"}
    BY DEF GuardsHeld
  <2>1. CASE q = p
    BY <1>1, <1>2, <2>1 DEF Holding
  <2>2. CASE q # p
    BY <1>2, <1>3, <2>2 DEF SupervisorInv, GuardsHeld, TypeOK
  <2> QED BY <2>1, <2>2
<1>7. ReapedUsed' /\ PauseNamed'
  BY <1>2 DEF SupervisorInv, ReapedUsed, PauseNamed, TypeOK
<1>8. FileNamesChild'
  BY <1>1, OthersNotIdle
<1>9. OrphanOnlyByPause'
  BY <1>2 DEF SupervisorInv, OrphanOnlyByPause, Alive, Ended
<1> QED BY <1>4, <1>5, <1>6, <1>7, <1>8, <1>9 DEF SupervisorInv

\* The end of a heartbeat at which the guard is found ended and is waited for.
LEMMA ReapStep ==
  ASSUME SupervisorInv, NEW a \in Agents, Beaten(a), Ended(child[a])
  PROVE  SupervisorInv'
<1>1. /\ pc[a] = "beating" /\ Goto(a, "restarting") /\ reaped' = reaped \cup {child[a]}
      /\ UNCHANGED <<child, owner, guard, room, worker, runtime, pause>>
  BY DEF Beaten
<1>2. child[a] \in Pids /\ owner[child[a]] = a /\ guard[child[a]] \notin {"up", "unused"}
  BY <1>1 DEF SupervisorInv, HasChild, Holding, Ended
<1>3. \A b \in Agents : pc'[b] = IF b = a THEN "restarting" ELSE pc[b]
  BY <1>1 DEF Goto, SupervisorInv, TypeOK
<1>4. TypeOK'
  BY <1>1, <1>2 DEF SupervisorInv, TypeOK, Goto, Phases, Deaf
<1>5. HasChild'
  BY <1>1, <1>2, <1>3 DEF SupervisorInv, HasChild, Holding
<1>6. GuardsHeld'
  BY <1>1, <1>2, <1>3 DEF SupervisorInv, GuardsHeld, TypeOK
<1>7. ReapedUsed' /\ PauseNamed' /\ OrphanOnlyByPause'
  BY <1>1, <1>2 DEF SupervisorInv, ReapedUsed, PauseNamed, OrphanOnlyByPause, Alive, Ended
<1>8. FileNamesChild'
  BY <1>1, OthersNotIdle
<1> QED BY <1>4, <1>5, <1>6, <1>7, <1>8 DEF SupervisorInv

\* Ctrl+C ends the whole process group; the agent hears it in the select only.
LEMMA CtrlCStep ==
  ASSUME SupervisorInv, NEW a \in Agents, CtrlC(a)
  PROVE  SupervisorInv'
<1>1. /\ UNCHANGED <<child, owner, room, pause>>
      /\ \A p \in Pids : guard'[p] = IF owner[p] = a /\ guard[p] = "up" THEN "signalled" ELSE guard[p]
      /\ \A p \in Pids : worker'[p] = IF owner[p] = a /\ Alive(p) THEN "dead" ELSE worker[p]
      /\ guard' \in GuardTypes /\ worker' \in WorkerTypes
  BY DEF CtrlC, Interrupted, SupervisorInv, TypeOK, GuardTypes, WorkerTypes
<1>2. \/ /\ Goto(a, "down") /\ runtime' \in {runtime, NoPid}
         /\ \/ reaped' = reaped
            \/ pc[a] = "running" /\ reaped' = reaped \cup {child[a]}
      \/ UNCHANGED <<pc, reaped, runtime>>
  BY DEF CtrlC, GivesUp
<1>3. \/ UNCHANGED pc
      \/ \A b \in Agents : pc'[b] = IF b = a THEN "down" ELSE pc[b]
  BY <1>2 DEF Goto, SupervisorInv, TypeOK
<1>4. /\ reaped \subseteq reaped'
      /\ \A p \in reaped' \ reaped :
           p \in Pids /\ p = child[a] /\ owner[p] = a /\ guard[p] # "unused" /\ pc'[a] = "down"
  BY <1>2 DEF SupervisorInv, HasChild, Holding, Goto, TypeOK
<1>5. TypeOK'
  <2>1. reaped' \subseteq Pids
    BY <1>4 DEF SupervisorInv, TypeOK
  <2>2. pc' \in [Agents -> Phases] /\ runtime' \in Pids \cup {NoPid}
    BY <1>2 DEF SupervisorInv, TypeOK, Goto, Phases
  <2> QED BY <1>1, <2>1, <2>2 DEF SupervisorInv, TypeOK, GuardTypes, WorkerTypes
<1>6. HasChild'
  <2> SUFFICES ASSUME NEW b \in Agents, pc'[b] \in Holding
               PROVE  /\ child'[b] \in Pids \ reaped' /\ owner'[child'[b]] = b
                      /\ guard'[child'[b]] # "unused"
    BY DEF HasChild
  <2>1. pc[b] \in Holding /\ (b = a => reaped' = reaped)
    <3>1. CASE Goto(a, "down")
      BY <3>1 DEF Goto, Holding, SupervisorInv, TypeOK
    <3>2. CASE UNCHANGED <<pc, reaped, runtime>>
      BY <3>2
    <3> QED BY <1>2, <3>1, <3>2
  <2>2. child[b] \in Pids \ reaped /\ owner[child[b]] = b /\ guard[child[b]] # "unused"
    BY <2>1 DEF SupervisorInv, HasChild
  <2>3. child[b] \notin reaped'
    BY <1>4, <2>1, <2>2
  <2> QED BY <1>1, <2>2, <2>3
<1>7. GuardsHeld'
  BY <1>1, <1>3 DEF SupervisorInv, GuardsHeld, TypeOK
<1>8. ReapedUsed' /\ PauseNamed'
  BY <1>1, <1>4 DEF SupervisorInv, ReapedUsed, PauseNamed, TypeOK
<1>9. FileNamesChild'
  <2>1. CASE Goto(a, "down")
    BY <2>1, OthersNotIdle
  <2>2. CASE UNCHANGED <<pc, reaped, runtime>>
    BY <1>1, <2>2 DEF SupervisorInv, FileNamesChild
  <2> QED BY <1>2, <2>1, <2>2
<1>10. OrphanOnlyByPause'
  BY <1>1 DEF SupervisorInv, OrphanOnlyByPause, Alive, Ended
<1> QED BY <1>5, <1>6, <1>7, <1>8, <1>9, <1>10 DEF SupervisorInv
-----------------------------------------------------------------------------
\* SupervisorInv holds throughout, whatever is crashed, paused or interrupted.
THEOREM SupervisorInvariant == Spec => []SupervisorInv
<1>1. ASSUME SupervisorInv, [Next]_vars PROVE SupervisorInv'
  <2>1. CASE UNCHANGED vars
    BY <1>1, <2>1 DEF vars, SupervisorInv, TypeOK, PauseNamed, HasChild, GuardsHeld, ReapedUsed,
                      FileNamesChild, OrphanOnlyByPause, Alive, Ended
  <2>2. ASSUME NEW a \in Agents, Start(a) \/ AgentStep(a) \/ CtrlC(a) \/ AgentDies(a)
        PROVE  SupervisorInv'
    BY <1>1, <2>2, AwaitSteps, SpawnStep, ReapStep, CtrlCStep DEF AgentStep
  <2>3. ASSUME NEW p \in Pids, \/ GuardTick(p) \/ GuardKills(p) \/ GuardNotices(p) \/ GuardFails(p)
                               \/ Bind(p) \/ WorkerDies(p) \/ WorkerUsage(p)
        PROVE  SupervisorInv'
    BY <1>1, <2>3, GuardSteps, WorkerSteps
  <2>4. CASE PauseSignals \/ PauseClears
    BY <1>1, <2>4, PauseSteps
  <2> QED BY <1>1, <2>1, <2>2, <2>3, <2>4 DEF Next
<1> QED BY <1>1, SupervisorInit, PTL DEF Spec

\* Every variable keeps the values NodeRuntime, the guard and the worker give it: what an
\* agent waits for is always a process it spawned.
THEOREM SupervisorTypeCorrect == Spec => []TypeOK
<1>1. SupervisorInv => TypeOK
  BY DEF SupervisorInv
<1> QED BY <1>1, SupervisorInvariant, PTL

\* An agent never holds two running guards, however its restarts interleave with
\* crashes, pauses and signals (restart_worker, spawn_worker_child).
THEOREM GuardIsUnique == Spec => []OneGuardPerAgent
<1>1. SupervisorInv => OneGuardPerAgent
  BY DEF SupervisorInv, GuardsHeld, OneGuardPerAgent
<1> QED BY <1>1, SupervisorInvariant, PTL

\* The runtime file names the guard of an agent that is alone and was not paused
\* (persist_state, pause_running_node).
THEOREM FileFollowsRestarts == Spec => []RuntimeNamesGuard
<1>1. SupervisorInv => RuntimeNamesGuard
  BY DEF SupervisorInv, FileNamesChild, RuntimeNamesGuard
<1> QED BY <1>1, SupervisorInvariant, PTL

\* A worker outlives its guard only after a signal to the guard, or a failure without a
\* cgroup (supervise_child, CgroupGuard::drop).
THEOREM OrphansOnlyByPause == Spec => []OrphanOnlyByPause
<1>1. SupervisorInv => OrphanOnlyByPause
  BY DEF SupervisorInv
<1> QED BY <1>1, SupervisorInvariant, PTL
=============================================================================
