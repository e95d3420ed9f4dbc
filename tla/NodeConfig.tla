------------------------------ MODULE NodeConfig ------------------------------
(***************************************************************************)
(* The node's command line and its file config.toml (youai-node/src/       *)
(* main.rs, load_config and save_config of youai-common).  `config` and    *)
(* `start` each read the file, change their copy and write it back, with   *)
(* nothing to keep two of them apart; `start` writes its copy a second     *)
(* time when it has registered, and runs on it from then on.               *)
(*                                                                         *)
(* A save empties the file and then fills it (fs::write).  An empty file,  *)
(* like none, reads as the defaults.  Of the settings there are ram_max,   *)
(* which the guard and the coordinator each parse, one that can only be    *)
(* set (the shard) and one that can be cleared (rpc_url).  All sizes of    *)
(* memory are in KiB.                                                      *)
(***************************************************************************)
EXTENDS Naturals

CONSTANTS
  Configs, Starts,  \* the `config` and the `start` commands that are run
  Options,          \* the options given: ram, shard, rpc (None if not), clear
  Smallest,         \* the memory without which no worker gets as far as bind
  None              \* an option that is not given, a setting without a value

Commands == Configs \cup Starts
Sizes == [n: Nat, unit: {"g", "m", "k", "none"}]

ASSUME CommandAssumption ==
  /\ Configs \cap Starts = {} /\ None \notin Starts
  /\ Smallest \in Nat
  /\ \A e \in Options :
       /\ e = [ram |-> e.ram, shard |-> e.shard, rpc |-> e.rpc, clear |-> e.clear]
       /\ e.ram = None \/ e.ram \in Sizes
       /\ e.shard = None \/ e.shard \in Nat
       /\ e.rpc \in {None, "url"} /\ e.clear \in BOOLEAN

VARIABLES
  file,     \* config.toml: does it parse, is it empty, what it says
  pc,       \* where each command is
  copy,     \* the configuration it holds
  edit,     \* the options it was given
  serving,  \* the worker on the port: who started it, under which limit
  row,      \* the ram_max_mb the coordinator was last told, in KiB; 0 for no row
  runtime,  \* the command whose guard node.runtime.json names
  want,     \* what the file would say had the commands run one by one (history)
  stale,    \* the commands whose copy is older than the file (history)
  clash,    \* which saves were of a stale copy, and was one cut (history)
  mixed     \* two starts at once, or one that took another's worker (history)

disk == <<file, want, stale, clash>>
agent == <<serving, row, runtime, mixed>>
vars == <<pc, copy, edit, disk, agent>>

Default == [ram |-> [n |-> 2, unit |-> "g"], shard |-> 0, rpc |-> None, node |-> FALSE]
NoOption == [ram |-> None, shard |-> None, rpc |-> None, clear |-> FALSE]

\* `start` has no option for the limits.
Given(c) == {e \in Options : c \in Starts => e.ram = None}

Init ==
  /\ file = [parses |-> TRUE, empty |-> TRUE, says |-> Default]
  /\ pc = [c \in Commands |-> "load"]
  /\ copy = [c \in Commands |-> Default] /\ edit = [c \in Commands |-> NoOption]
  /\ serving = [by |-> None, limit |-> 0] /\ row = 0 /\ runtime = None
  /\ want = Default /\ stale = {} /\ clash = {} /\ mixed = FALSE

Saving == {"save", "put"}
Resaving == {"resave", "reput"}
Agents == {"spawn", "wait", "register", "persist", "running"} \cup Resaving
-----------------------------------------------------------------------------
(* Sizes of memory. *)

\* parse_byte_size of the guard: a number alone is in bytes.
GuardLimit(ram) == CASE ram.unit = "g" -> ram.n * 1048576
                     [] ram.unit = "m" -> ram.n * 1024
                     [] ram.unit = "k" -> ram.n
                     [] ram.unit = "none" -> ram.n \div 1024

\* parse_ram_max_mb: a number alone is in megabytes, and whatever it does not
\* know, "k" too, becomes 2048 in register_or_reuse.
Offer(ram) == CASE ram.unit = "g" -> ram.n * 1048576
                [] ram.unit \in {"m", "none"} -> ram.n * 1024
                [] ram.unit = "k" -> 2048 * 1024
-----------------------------------------------------------------------------
(* What both commands do: load_config, the options, save_config. *)

Goto(c, phase) == pc' = [pc EXCEPT ![c] = phase]
Ends(c) == /\ Goto(c, "done")
           /\ copy' = [copy EXCEPT ![c] = Default]
           /\ edit' = [edit EXCEPT ![c] = NoOption]
           /\ stale' = stale \ {c}

Set(option, value) == IF option = None THEN value ELSE option

\* Mistake: an option that is not given has its default, as in RegisterNodeRequest.
ApplyAll(e, config) ==
  [config EXCEPT !.ram = Set(e.ram, @), !.shard = Set(e.shard, 0),
                 !.rpc = IF e.clear THEN None ELSE Set(e.rpc, @)]

\* apply_overrides, apply_shard_overrides and apply_rpc_url.
Apply(e, config) ==
  [config EXCEPT !.ram = Set(e.ram, @), !.shard = Set(e.shard, @),
                 !.rpc = IF e.clear THEN None ELSE Set(e.rpc, @)]

\* A file that does not parse ends the command.
Load(c) ==
  /\ pc[c] = "load"
  /\ IF file.parses
       THEN \E e \in Given(c) :
              /\ edit' = [edit EXCEPT ![c] = e]
              /\ copy' = [copy EXCEPT ![c] = Apply(e, file.says)]
              /\ Goto(c, "save")
              /\ stale' = IF \E d \in Commands : pc[d] \in {"put", "reput"}
                            THEN stale \cup {c} ELSE stale
       ELSE Ends(c)
  /\ UNCHANGED <<file, want, clash, agent>>

\* Everyone else who holds a copy and has yet to save it.
Unsaved == Saving \cup Resaving \cup {"check", "spawn", "wait", "register"}
Others(c) == {d \in Commands \ {c} : pc[d] \in Unsaved}

\* The first save of a command, or the one after the registration.
Which(c) == IF pc[c] \in Saving THEN "first" ELSE "second"

\* fs::write opens the file and empties it ...
Truncate(c) ==
  /\ \/ pc[c] = "save" /\ Goto(c, "put")
     \/ pc[c] = "resave" /\ Goto(c, "reput")
  /\ file' = [parses |-> TRUE, empty |-> TRUE, says |-> Default]
  /\ clash' = IF c \in stale THEN clash \cup {Which(c)} ELSE clash
  /\ stale' = stale \cup Others(c)
  /\ UNCHANGED <<copy, edit, want, agent>>

\* What the options ask for, whatever else is in the file.
Asked(e, config) ==
  [ram |-> IF e.ram # None THEN e.ram ELSE config.ram,
   shard |-> IF e.shard # None THEN e.shard ELSE config.shard,
   rpc |-> IF e.clear THEN None ELSE IF e.rpc # None THEN e.rpc ELSE config.rpc,
   node |-> config.node]

\* ... and then writes from its start.  Over what another command wrote since,
\* the end of a longer text stays, and seldom parses.
Put(c) ==
  /\ \/ /\ pc[c] = "put"
        /\ IF c \in Starts
             THEN Goto(c, "check") /\ stale' = stale \cup Others(c)
             ELSE Goto(c, "done") /\ stale' = (stale \cup Others(c)) \ {c}
        /\ want' = Asked(edit[c], want)
     \/ /\ pc[c] = "reput"
        /\ Goto(c, "persist") /\ stale' = (stale \cup Others(c)) \ {c}
        /\ want' = [want EXCEPT !.node = TRUE]
  /\ \E clean \in BOOLEAN :
       /\ file.empty => clean
       /\ file' = [parses |-> clean, empty |-> FALSE, says |-> copy[c]]
  /\ clash' = IF c \in stale THEN clash \cup {Which(c)} ELSE clash
  /\ edit' = [edit EXCEPT ![c] = NoOption]
  /\ copy' = IF c \in Starts THEN copy ELSE [copy EXCEPT ![c] = Default]
  /\ UNCHANGED agent

\* Ctrl+C, a kill or a crash; a save that was begun leaves the file empty.
Killed(c) ==
  /\ pc[c] \in Saving \cup Agents \cup {"check"}
  /\ Ends(c)
  /\ clash' = IF pc[c] \in {"put", "reput"} THEN clash \cup {"cut"} ELSE clash
  /\ runtime' = IF pc[c] = "running" THEN None ELSE runtime
  /\ UNCHANGED <<file, want, serving, row, mixed>>
-----------------------------------------------------------------------------
(* NodeRuntime::start, after the first save. *)

\* The guard the runtime file names is there as long as the agent that restarts
\* it, or the worker under it.
Exists(c) == c # None /\ (pc[c] = "running" \/ serving.by = c)

Check(c) ==
  /\ pc[c] = "check"
  /\ IF Exists(runtime)
       THEN Ends(c) /\ UNCHANGED <<runtime, mixed>>
       ELSE /\ Goto(c, "spawn") /\ runtime' = None
            /\ mixed' = (mixed \/ \E d \in Starts : pc[d] \in Agents)
            /\ UNCHANGED <<copy, edit, stale>>
  /\ UNCHANGED <<file, want, clash, serving, row>>

\* spawn_worker_child.  Under a limit that is too small the worker does not come
\* up; on a port that is taken it fails to bind.
Spawn(c) ==
  /\ pc[c] = "spawn"
  /\ Goto(c, "wait")
  /\ serving' = IF serving.by = None /\ GuardLimit(copy[c].ram) >= Smallest
                  THEN [by |-> c, limit |-> GuardLimit(copy[c].ram)]
                  ELSE serving
  /\ UNCHANGED <<copy, edit, disk, row, runtime, mixed>>

\* wait_for_worker_health: whichever worker is on the port answers.
Healthy(c) ==
  /\ pc[c] = "wait" /\ serving.by # None
  /\ Goto(c, "register")
  /\ mixed' = (mixed \/ serving.by # c)
  /\ UNCHANGED <<copy, edit, disk, serving, row, runtime>>

\* No answer, or the coordinator does not answer: the guard is not stopped.
StartFails(c) ==
  /\ pc[c] \in {"wait", "register"}
  /\ Ends(c)
  /\ UNCHANGED <<file, want, clash, agent>>

Register(c) ==
  /\ pc[c] = "register"
  /\ Goto(c, "resave")
  /\ row' = Offer(copy[c].ram)
  /\ copy' = [copy EXCEPT ![c].node = TRUE]
  /\ UNCHANGED <<edit, disk, serving, runtime, mixed>>

\* persist_state, and the first heartbeat, which may fail.
Persist(c) ==
  /\ pc[c] = "persist"
  /\ runtime' = c
  /\ \/ Goto(c, "running") /\ UNCHANGED <<copy, edit, stale>>
     \/ Ends(c)
  /\ UNCHANGED <<file, want, clash, serving, row, mixed>>

\* Mistake: the restart reads the file again.
FileLimit(c) == GuardLimit(file.says.ram)

\* The limit of a worker that is spawned again: the one of the configuration
\* its agent has held since it started.
HeldLimit(c) == GuardLimit(copy[c].ram)

\* restart_worker: on a port that is taken, the worker found there is healthy too.
Restart(c) ==
  /\ pc[c] = "running" /\ serving.by # c
  /\ IF serving.by = None /\ HeldLimit(c) < Smallest
       THEN Ends(c) /\ runtime' = None /\ UNCHANGED <<serving, mixed>>
       ELSE /\ serving' = IF serving.by = None
                            THEN [by |-> c, limit |-> HeldLimit(c)] ELSE serving
            /\ mixed' = (mixed \/ serving.by # None)
            /\ runtime' = c
            /\ UNCHANGED <<pc, copy, edit, stale>>
  /\ UNCHANGED <<file, want, clash, row>>

\* No model file, or the worker does not come up again.
RestartFails(c) ==
  /\ pc[c] = "running" /\ serving.by # c
  /\ Ends(c) /\ runtime' = None
  /\ UNCHANGED <<file, want, clash, serving, row, mixed>>
-----------------------------------------------------------------------------
(* The worker's end, and `pause`. *)

WorkerDies ==
  /\ serving.by # None
  /\ serving' = [by |-> None, limit |-> 0]
  /\ UNCHANGED <<pc, copy, edit, disk, row, runtime, mixed>>

\* The guard ends with or before its worker, and its agent goes on.
Pause ==
  /\ runtime # None /\ runtime' = None
  /\ UNCHANGED <<pc, copy, edit, disk, serving, row, mixed>>

Next ==
  \/ \E c \in Commands : Load(c) \/ Truncate(c) \/ Put(c) \/ Killed(c)
  \/ \E c \in Starts : \/ Check(c) \/ Spawn(c) \/ Healthy(c) \/ StartFails(c)
                       \/ Register(c) \/ Persist(c) \/ Restart(c)
                       \/ RestartFails(c)
  \/ WorkerDies \/ Pause

Spec == Init /\ [][Next]_vars
-----------------------------------------------------------------------------
(* The file and the copies are configurations, and every command is at one   *)
(* of its steps.                                                             *)
Config == [ram: Sizes, shard: Nat, rpc: {None, "url"}, node: BOOLEAN]
TypeOK ==
  /\ file \in [parses: BOOLEAN, empty: BOOLEAN, says: Config]
  /\ pc \in [Commands -> Saving \cup Agents \cup {"load", "check", "done"}]
  /\ copy \in [Commands -> Config] /\ edit \in [Commands -> Options \cup {NoOption}]
  /\ serving \in [by: Starts \cup {None}, limit: Nat] /\ row \in Nat
  /\ runtime \in Starts \cup {None} /\ want \in Config /\ stale \subseteq Commands
  /\ clash \subseteq {"first", "second", "cut"} /\ mixed \in BOOLEAN

(* Through any number of commands, restarts, failed starts and kills, a      *)
(* setting is lost or comes back only where two commands overlapped, from    *)
(* the load of one to its last save, or where a save was cut: no command     *)
(* touches what it was not asked to, and a start keeps the whole file.       *)
LostOnlyByClash ==
  clash = {} /\ (\A c \in Commands : pc[c] \notin {"put", "reput"})
    => file.parses /\ file.says = want

(* What the coordinator was told a node offers is what its guard enforces,   *)
(* also after restarts of the worker and edits of the file in between: for   *)
(* sizes in g and m, unless two starts ran at once or one took a worker that *)
(* an earlier one had left.                                                  *)
OfferEnforced ==
  \A c \in Starts :
    ~mixed /\ pc[c] = "running" /\ serving.by # None /\ copy[c].ram.unit \in {"g", "m"}
      => serving = [by |-> c, limit |-> row]

(* The same for every size the guard accepts: youai-common/src/lib.rs:455    *)
(* says of ram_max_mb "RAM cap in megabytes (parsed from config `ram_max`)". *)
OfferAsConfigured ==
  \A c \in Starts :
    ~mixed /\ pc[c] = "running" /\ serving.by # None
      => serving = [by |-> c, limit |-> row]

(* youai-node/src/main.rs:239 says "config saved to" the file: when no first  *)
(* save was of a stale copy, none was cut and nobody is saving, the limit     *)
(* that was set last is there.                                                *)
EditKept ==
  clash \subseteq {"second"} /\ (\A c \in Commands : pc[c] \notin {"put", "reput"})
    => file.says.ram = want.ram
=============================================================================
