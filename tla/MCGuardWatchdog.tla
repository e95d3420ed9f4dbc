--------------------------- MODULE MCGuardWatchdog ---------------------------
(* A guard on a machine with two CPUs: Linux with and without a cgroup, macOS. *)
EXTENDS GuardWatchdog

Delegated == [cgroup |-> TRUE, rlimit |-> TRUE]
Fallback == [cgroup |-> FALSE, rlimit |-> TRUE]
MacOS == [cgroup |-> FALSE, rlimit |-> FALSE]

AllKernels == {Delegated, Fallback, MacOS}
=============================================================================
