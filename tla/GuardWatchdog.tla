---------------------------- MODULE GuardWatchdog ----------------------------
(***************************************************************************)
(* The watchdog of a guard (youai-guard/src/monitor.rs) with its samplers  *)
(* and the limits that the kernel keeps (platform/linux.rs, macos.rs).     *)
(* A loop sleeps, reads the memory, reads the CPU time and compares; both  *)
(* readings are late with respect to the tick they are charged to.         *)
(*                                                                         *)
(* Time is in units of the kernel's period; CPU time in Grain per CPU and  *)
(* unit.  NodeSupervisor has what becomes of guard and worker afterwards.  *)
(***************************************************************************)
EXTENDS Integers

CONSTANTS
  NumCpus, Grain,
  CpuPercent, RamMax,   \* the limits of the guard
  Poll,                 \* units of sleep per loop
  MaxLate,              \* units that the scheduler or ps may add to each wait
  Quantum,              \* what a reading of the CPU time is rounded down to
  Kernels,              \* the systems the guard may run on
  MaxRam,               \* bound on the memory of a process
  Horizon               \* bound on the time

ASSUME WatchdogAssumption ==
  /\ NumCpus \in Nat \ {0} /\ Grain \in Nat \ {0} /\ Poll \in Nat \ {0}
  /\ CpuPercent \in 1 .. 100 /\ RamMax \in Nat \ {0}
  /\ MaxLate \in Nat /\ Quantum \in Nat \ {0} /\ MaxRam \in Nat /\ Horizon \in Nat
  /\ Kernels \subseteq [cgroup : BOOLEAN, rlimit : BOOLEAN]

Capacity == NumCpus * Grain

\* cpu_grace_percent on top of the limit, of all CPUs: hundredths of CPU time a unit.
Threshold == (CpuPercent + 2) * Capacity

\* cpu.max is a share of one CPU.
\* Mistake: of all of them.
OfAllCpus == (Capacity * CpuPercent) \div 100

Quota == (Grain * CpuPercent) \div 100

VARIABLES
  kernel,   \* the system: cgroup v2, or ps with RLIMIT_AS or without
  pc,       \* where the guard is: "run" asleep, "ram" and "cpu" about to read, "top"
  now,      \* time since it started
  since,    \* time since last_tick
  slept,    \* time in this sleep
  elapsed,  \* what the last tick measured
  last,     \* last_cpu_usec, last_cpu_time
  used,     \* CPU time of what the sampler counts: the cgroup, or the worker alone
  left,     \* quota left in the kernel's period
  mem,      \* memory of the worker and of the processes it started
  alive,    \* whether the worker runs
  outcome,
  over,     \* how long worker, and worker and children, have been over RamMax (history)
  greedy    \* whether more than CpuPercent was used in some unit (history)

clock == <<now, since, slept>>
history == <<over, greedy>>
vars == <<kernel, pc, clock, elapsed, last, used, left, mem, alive, outcome, history>>

Procs == {"worker", "children"}

Cgroup == kernel.cgroup
Rlimit == kernel.rlimit

TypeOK ==
  /\ kernel \in Kernels
  /\ pc \in {"top", "run", "ram", "cpu", "done"}
  /\ now \in 0 .. Horizon /\ slept \in 0 .. Poll + MaxLate
  /\ since \in 0 .. Poll + 2 * MaxLate /\ elapsed \in 0 .. Poll + 2 * MaxLate
  /\ used \in Nat /\ last \in 0 .. used /\ left \in 0 .. Quota
  /\ mem \in [Procs -> 0 .. MaxRam] /\ alive \in BOOLEAN
  /\ outcome \in {"none", "exited", "ram", "cpu", "error"}
  /\ over \in [Procs -> 0 .. Horizon] /\ greedy \in BOOLEAN

Init ==
  /\ kernel \in Kernels
  /\ pc = "top" /\ now = 0 /\ since = 0 /\ slept = 0 /\ elapsed = 0
  /\ last = 0 /\ used = 0 /\ left = Quota
  /\ mem = [p \in Procs |-> 0] /\ alive = TRUE /\ outcome = "none"
  /\ over = [p \in Procs |-> 0] /\ greedy = FALSE
-----------------------------------------------------------------------------
Tree(m) == m["worker"] + m["children"]

\* How long it has been over, after d more units with the memory m.
Over(m, d) ==
  [p \in Procs |-> IF RamMax < (IF p = "worker" THEN m["worker"] ELSE Tree(m))
                   THEN over[p] + d ELSE 0]

\* sample_memory_bytes: memory.current, or the worker's rss.
\* Mistake: the kilobytes of ps taken for bytes.
InKilobytes == 0

Memory == IF Cgroup THEN Tree(mem) ELSE mem["worker"]

\* usage_usec, or the time of ps: whole seconds on Linux.
\* Mistake: the minutes that ps writes before the seconds are left out.
SecondsOnly == used % 4

CpuTime == used - (used % Quantum)

\* What the kernel lets the processes do: a cgroup has RamMax together and Quota in each
\* period, which starts within the unit; else each process has RamMax if it accepted so.
Granted(u) ==
  IF Cgroup THEN \E b \in 0 .. Quota : u - b \in 0 .. left /\ left' = Quota - b
            ELSE UNCHANGED left
Holdable(m) ==
  IF Cgroup THEN Tree(m) <= RamMax ELSE Rlimit => \A p \in Procs : m[p] <= RamMax

\* A unit of time, in which the processes use u.  The guard is late within its bounds.
Elapse(u) ==
  /\ pc # "done" /\ now < Horizon
  /\ IF pc = "run" THEN slept < Poll + MaxLate ELSE since < MaxLate
  /\ now' = now + 1 /\ since' = since + 1
  /\ slept' = IF pc = "run" THEN slept + 1 ELSE slept
  /\ (alive \/ u = 0) /\ Granted(u) /\ used' = used + u
  /\ greedy' = (greedy \/ 100 * u > CpuPercent * Capacity)
  /\ over' = Over(mem, 1)
  /\ UNCHANGED <<pc, elapsed, last, mem, alive, outcome>>

\* Worker and children allocate and free, as far as the kernel lets them.
Allocate ==
  /\ alive /\ pc # "done"
  /\ mem' \in {m \in [Procs -> 0 .. MaxRam] : Holdable(m)}
  /\ over' = Over(mem', 0)
  /\ UNCHANGED <<pc, clock, elapsed, last, used, left, alive, outcome, greedy>>

WorkerExits ==
  /\ alive /\ alive' = FALSE
  /\ mem' = [mem EXCEPT !["worker"] = 0] /\ over' = Over(mem', 0)
  /\ UNCHANGED <<pc, clock, elapsed, last, used, left, outcome, greedy>>

Ends(how) == pc' = "done" /\ outcome' = how

\* SIGKILL for the worker; dropping the CgroupGuard kills what it started.
Kill(how) ==
  /\ Ends(how) /\ alive' = FALSE
  /\ mem' = IF Cgroup THEN [p \in Procs |-> 0] ELSE [mem EXCEPT !["worker"] = 0]

\* The condition of the loop: try_wait.
Top ==
  /\ pc = "top"
  /\ IF alive THEN pc' = "run" /\ UNCHANGED outcome ELSE Ends("exited")
  /\ slept' = 0
  /\ UNCHANGED <<now, since, elapsed, last, used, left, mem, alive, history>>

\* The sleep ends: elapsed and last_tick are taken, before the readings.
Wake ==
  /\ pc = "run" /\ slept >= Poll
  /\ pc' = "ram" /\ elapsed' = since /\ since' = 0
  /\ UNCHANGED <<now, slept, last, used, left, mem, alive, outcome, history>>

SampleRam ==
  /\ pc = "ram"
  /\ IF Memory > RamMax THEN Kill("ram")
     ELSE pc' = "cpu" /\ UNCHANGED <<mem, alive, outcome>>
  /\ UNCHANGED <<clock, elapsed, last, used, left, history>>

SampleCpu ==
  /\ pc = "cpu"
  /\ last' = CpuTime
  /\ IF 100 * (CpuTime - last) > Threshold * elapsed THEN Kill("cpu")
     ELSE pc' = "top" /\ UNCHANGED <<mem, alive, outcome>>
  /\ UNCHANGED <<clock, elapsed, used, left, history>>

\* A reading fails: run returns the error and nobody is killed, but by the drop.
SampleFails ==
  /\ pc \in {"ram", "cpu"} /\ Ends("error")
  /\ IF Cgroup THEN alive' = FALSE /\ mem' = [p \in Procs |-> 0] ELSE UNCHANGED <<alive, mem>>
  /\ UNCHANGED <<clock, elapsed, last, used, left, history>>

Next ==
  /\ \/ \E u \in 0 .. Capacity : Elapse(u)
     \/ Allocate \/ WorkerExits
     \/ Top \/ Wake \/ SampleRam \/ SampleCpu \/ SampleFails
  /\ UNCHANGED kernel

Spec == Init /\ [][Next]_vars
-----------------------------------------------------------------------------
\* While it is guarded, what the sampler counts has used no more CPU since the start than
\* limit and grace allow, but for one loop at full speed and one rounding: no pattern of
\* bursts, late wakes or slow readings slips through.
BudgetKept ==
  pc # "done" =>
    100 * used <= Threshold * now + 100 * (Capacity * (Poll + 3 * MaxLate) + Quantum)

\* With a cgroup the watchdog never has to kill: the kernel's limits, of one CPU and of
\* all processes together, come first.
KernelFirst == Cgroup => outcome \notin {"ram", "cpu"}

\* A worker does not stay over its memory limit for longer than a loop takes.
OverRamKilled == pc # "done" => over["worker"] <= Poll + 3 * MaxLate

(* monitor.rs:16: "Allow brief CPU spikes above limit (sampling noise)".  So a worker   *)
(* that never uses more than its share is not killed for its CPU time.                  *)
NoiseTolerated == outcome = "cpu" => greedy

(* docs/SECURITY.md:89: killed if limits are exceeded.  So the worker and the processes *)
(* that it started to do its work do not stay over the limit together.                  *)
TreeOverRamKilled == pc # "done" => over["children"] <= Poll + 3 * MaxLate
=============================================================================
