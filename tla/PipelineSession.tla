--------------------------- MODULE PipelineSession ---------------------------
(***************************************************************************)
(* A chat over two activation stages: the coordinator's loop of steps, the *)
(* /pipeline/step handlers of the two workers with the mutex around each   *)
(* worker's daemon, and youai-pipeline-step, which reloads a session from  *)
(* its files, decodes, saves the state and then the position.              *)
(*                                                                         *)
(* The n-th input of a stage is written n: at the head 0 is the prompt and *)
(* n the n-th sampled token; at the tail n is the n-th activation.  A KV   *)
(* state is the sequence of the inputs decoded into it, and an activation  *)
(* is the KV state it was exported from.                                   *)
(***************************************************************************)
EXTENDS Naturals, Sequences

CONSTANTS Chats,          \* chats, each with a session id of its own
          MaxTokens,      \* max_tokens of a chat
          MaxFaults,      \* how many things go wrong in all (a bound)
          LogRoom,        \* the stderr lines a daemon's pipe holds (a bound)
          DaemonEnabled   \* daemon_enabled: YOUAI_PIPELINE_DAEMON

ASSUME SessionAssumption == /\ MaxTokens \in Nat \ {0}
                            /\ MaxFaults \in Nat
                            /\ LogRoom \in Nat \ {0}
                            /\ DaemonEnabled \in BOOLEAN

Stages == {"head", "tail"}
Ops == {"prefill-prompt", "forward-activation", "decode-token"}
StageOf(op) == IF op = "forward-activation" THEN "tail" ELSE "head"

VARIABLES
  chat,    \* each run_pipeline_activation: where it is, its next or current
           \* step, the tokens sampled so far and the activation in hand
  call,    \* each chat's last /pipeline/step handler
  daemon,  \* each worker's Option<PipelineDaemon>, and the room in its stderr
  mem,     \* the KV state in the memory of each stage's process, and n_past
  disk,    \* the session directory of each chat at each stage
  hurt,    \* history: the chats a crash or a failed write hit mid-step
  faults   \* how many have

vars == <<chat, call, daemon, mem, disk, hurt, faults>>

NoFiles == [kv |-> <<>>, torn |-> FALSE, meta |-> 0, act |-> <<>>, text |-> "none"]

Init ==
  /\ chat = [c \in Chats |-> [pc |-> "calling", op |-> "prefill-prompt",
                              sampled |-> 0, act |-> <<>>]]
  /\ call = [c \in Chats |-> [pc |-> "none", attempt |-> 0]]
  /\ daemon = [s \in Stages |-> [up |-> FALSE, room |-> LogRoom]]
  /\ mem = [s \in Stages |-> [kv |-> <<>>, past |-> 0]]
  /\ disk = [s \in Stages |-> [c \in Chats |-> NoFiles]]
  /\ hurt = {}
  /\ faults = 0

Stage(c) == StageOf(chat[c].op)
Running == {"sent", "decoded", "saved", "noted"}
\* The handlers that hold the mutex of their worker's daemon.
Holds(c) == call[c].pc \in Running \cup {"trying"}
\* Attempts 0 and 1 go to the daemon, the last to a process of its own.
Single == 2
ViaDaemon(c) == call[c].attempt # Single
\* A daemon whose stderr nobody reads stops once the pipe is full.
Stuck(c) == ViaDaemon(c) /\ daemon[Stage(c)].room = 0

Fault == faults < MaxFaults /\ faults' = faults + 1
-----------------------------------------------------------------------------
(* The coordinator: run_pipeline_activation and post_pipeline_step. *)

Submit(c) ==
  /\ chat[c].pc = "calling"
  /\ chat' = [chat EXCEPT ![c].pc = "waiting"]
  /\ call' = [call EXCEPT ![c] = [pc |-> "queued", attempt |-> 0]]
  /\ UNCHANGED <<daemon, mem, disk, hurt, faults>>

\* The answer to a head step carries the activation, to a tail step a token,
\* which may be the end of the text.
Deliver(c) ==
  LET sampled == chat[c].sampled + 1 IN
  /\ chat[c].pc = "waiting"
  /\ call[c].pc = "ok"
  /\ \/ /\ Stage(c) = "head"
        /\ chat' = [chat EXCEPT ![c].pc = "calling",
                                ![c].op = "forward-activation",
                                ![c].act = disk["head"][c].act]
     \/ /\ Stage(c) = "tail"
        /\ sampled < MaxTokens
        /\ chat' = [chat EXCEPT ![c].pc = "calling", ![c].op = "decode-token",
                                ![c].sampled = sampled]
     \/ /\ Stage(c) = "tail"
        /\ chat' = [chat EXCEPT ![c].pc = "done", ![c].sampled = sampled]
  /\ UNCHANGED <<call, daemon, mem, disk, hurt, faults>>

\* The call failed, or the client's 180 s are over and the handler goes on.
Fails(c) ==
  /\ chat[c].pc = "waiting"
  /\ chat' = [chat EXCEPT ![c].pc = "failed"]
  /\ \/ call[c].pc = "error" /\ UNCHANGED faults
     \/ call[c].pc # "error" /\ Fault
  /\ UNCHANGED <<call, daemon, mem, disk, hurt>>
-----------------------------------------------------------------------------
(* The worker: pipeline_step, run_pipeline_step and try_run_via_daemon. *)

Now(c, pc) == call' = [call EXCEPT ![c].pc = pc]

\* The mutex is taken; a missing program or model file refuses the step.
Take(c) ==
  /\ call[c].pc = "queued"
  /\ \A d \in Chats : Holds(d) => Stage(d) # Stage(c)
  /\ \/ /\ call' = [call EXCEPT ![c] =
                   [pc |-> "trying", attempt |-> IF DaemonEnabled THEN 0 ELSE Single]]
        /\ UNCHANGED faults
     \/ Now(c, "error") /\ Fault
  /\ UNCHANGED <<chat, daemon, mem, disk, hurt>>

FreshMem(s) == mem' = [mem EXCEPT ![s] = [kv |-> <<>>, past |-> 0]]

\* The request line is written to the daemon, spawned first if there is none;
\* without a daemon to be had, a process is run for this step alone.
Launch(c) ==
  LET s == Stage(c) IN
  /\ call[c].pc = "trying"
  /\ \/ /\ ViaDaemon(c) /\ daemon[s].up
        /\ Now(c, "sent")
        /\ UNCHANGED <<daemon, mem, faults>>
     \/ /\ ViaDaemon(c) /\ ~daemon[s].up
        /\ Now(c, "sent")
        /\ daemon' = [daemon EXCEPT ![s] = [up |-> TRUE, room |-> LogRoom]]
        /\ FreshMem(s)
        /\ UNCHANGED faults
     \/ /\ ViaDaemon(c) /\ ~daemon[s].up
        /\ call' = [call EXCEPT ![c].attempt = Single]
        /\ Fault
        /\ UNCHANGED <<daemon, mem>>
     \/ /\ ~ViaDaemon(c)
        /\ Now(c, "sent")
        /\ FreshMem(s)
        /\ UNCHANGED <<daemon, faults>>
  /\ UNCHANGED <<chat, disk, hurt>>

\* Not the code: the attempts are not counted.
RetriesForever(c) ==
  /\ call' = [call EXCEPT ![c].pc = "trying"]
  /\ daemon' = [daemon EXCEPT ![Stage(c)].up = FALSE]

\* The daemon is dropped, which kills it, and the step is tried again; a
\* failed single process fails the request.
TryAgain(c) ==
  /\ call' = [call EXCEPT ![c] =
                IF ViaDaemon(c)
                  THEN [pc |-> "trying", attempt |-> @.attempt + 1]
                  ELSE [pc |-> "error", attempt |-> Single]]
  /\ daemon' = IF ViaDaemon(c) THEN [daemon EXCEPT ![Stage(c)].up = FALSE]
                               ELSE daemon
-----------------------------------------------------------------------------
(* The process: reload_session, run_prefill_prompt, run_decode_token and    *)
(* run_forward_activation.                                                  *)

Files(c) == disk[Stage(c)][c]
Write(c, files) == disk' = [disk EXCEPT ![Stage(c)][c] = files]

\* Not the code: what another session left in memory stays, or the hidden state
\* is exported before the input is decoded.
LeftOver(c) ==
  LET kv == IF Files(c).kv = <<>> THEN mem[Stage(c)].kv ELSE Files(c).kv
  IN  [kv |-> kv, past |-> IF Files(c).meta = 0 THEN Len(kv) ELSE Files(c).meta]
\* reload_session: the memory is cleared before the state file is loaded, and
\* without a position file the number of loaded tokens stands for it.
Reloaded(c) ==
  [kv |-> Files(c).kv,
   past |-> IF Files(c).meta = 0 THEN Len(Files(c).kv) ELSE Files(c).meta]

ExportsEarly(c) ==
  LET m == Reloaded(c) IN
  /\ call[c].pc = "sent" /\ ~Stuck(c) /\ ~Files(c).torn
  /\ mem' = [mem EXCEPT ![Stage(c)] = [kv |-> Append(m.kv, chat[c].sampled),
                                      past |-> m.past + 1]]
  /\ Write(c, [Files(c) EXCEPT !.act = m.kv])
  /\ Now(c, "decoded")
  /\ UNCHANGED <<chat, daemon, hurt, faults>>

\* llama_decode of the next input, and at the head export_hidden.
Decode(c) ==
  LET kv == Append(Reloaded(c).kv, chat[c].sampled) IN
  /\ call[c].pc = "sent" /\ ~Stuck(c) /\ ~Files(c).torn
  /\ mem' = [mem EXCEPT ![Stage(c)] = [kv |-> kv, past |-> Reloaded(c).past + 1]]
  /\ Write(c, IF Stage(c) = "head" THEN [Files(c) EXCEPT !.act = kv] ELSE Files(c))
  /\ Now(c, "decoded")
  /\ UNCHANGED <<chat, daemon, hurt, faults>>

\* save_state.  The daemon's reader of a request line drops the backslash of
\* an escape and keeps the letter, so the lines of a prompt are joined.
Save(c) ==
  /\ call[c].pc = "decoded"
  /\ Write(c, [Files(c) EXCEPT
                 !.kv = mem[Stage(c)].kv,
                 !.torn = FALSE,
                 !.text = IF chat[c].op # "prefill-prompt" THEN @
                          ELSE IF ViaDaemon(c) THEN "joined" ELSE "lines"])
  /\ Now(c, "saved")
  /\ UNCHANGED <<chat, daemon, mem, hurt, faults>>

\* What a write_meta that does not finish leaves of meta.txt: the stream has emptied it,
\* and read_meta takes an empty file for 0.
CutMeta(c) == Write(c, [Files(c) EXCEPT !.meta = 0])

\* write_meta, of which nobody looks at the result: meta.txt does not open, or the line
\* is not written.
Note(c) ==
  /\ call[c].pc = "saved"
  /\ \/ Write(c, [Files(c) EXCEPT !.meta = mem[Stage(c)].past]) /\ UNCHANGED <<hurt, faults>>
     \/ hurt' = hurt \cup {c} /\ Fault /\ (UNCHANGED disk \/ CutMeta(c))
  /\ Now(c, "noted")
  /\ UNCHANGED <<chat, daemon, mem>>

\* The result is printed and read, the daemon logs a line to its stderr, and
\* the handler answers and gives up the mutex.
Reply(c) ==
  /\ call[c].pc = "noted"
  /\ Now(c, "ok")
  /\ daemon' = IF ViaDaemon(c) THEN [daemon EXCEPT ![Stage(c)].room = @ - 1]
                               ELSE daemon
  /\ UNCHANGED <<chat, mem, disk, hurt, faults>>

\* What a save that does not finish leaves of state.bin.
TornFile(c) == Write(c, [Files(c) EXCEPT !.torn = TRUE])

\* The state does not load, llama_decode fails, or the state cannot be saved.
StepFails(c) ==
  /\ \/ call[c].pc = "sent" /\ ~Stuck(c) /\ Files(c).torn /\ UNCHANGED faults
     \/ call[c].pc = "sent" /\ ~Stuck(c) /\ ~Files(c).torn /\ Fault
     \/ call[c].pc = "decoded" /\ Fault
  /\ TryAgain(c)
  /\ UNCHANGED disk \/ (call[c].pc = "decoded" /\ TornFile(c))
  /\ UNCHANGED <<chat, mem, hurt>>

\* The process is killed, perhaps in the middle of save_state or write_meta,
\* perhaps with the step on disk and its answer unsent.
Crash(c) ==
  /\ call[c].pc \in Running
  /\ Fault
  /\ TryAgain(c)
  /\ hurt' = IF call[c].pc \in {"decoded", "saved", "noted"}
               THEN hurt \cup {c} ELSE hurt
  /\ \/ UNCHANGED disk
     \/ call[c].pc = "decoded" /\ TornFile(c)
     \/ call[c].pc = "saved" /\ CutMeta(c)
  /\ UNCHANGED <<chat, mem>>
-----------------------------------------------------------------------------
HandlerStep(c) == \/ Take(c) \/ Launch(c) \/ Decode(c) \/ Save(c)
                  \/ Note(c) \/ Reply(c) \/ StepFails(c)

Next == \E c \in Chats :
          Submit(c) \/ Deliver(c) \/ Fails(c) \/ HandlerStep(c) \/ Crash(c)

\* A blocking task that runs, runs on.
Spec == Init /\ [][Next]_vars /\ \A c \in Chats : WF_vars(HandlerStep(c))
-----------------------------------------------------------------------------
Upto(n) == [i \in 1..n |-> i - 1]

Inputs == Seq(0 .. MaxTokens)
ChatTypes == [pc: {"calling", "waiting", "done", "failed"}, op: Ops,
              sampled: 0 .. MaxTokens, act: Inputs]
CallTypes == [pc: Running \cup {"none", "queued", "trying", "ok", "error"},
              attempt: 0 .. Single]
DaemonTypes == [up: BOOLEAN, room: 0 .. LogRoom]
MemTypes == [kv: Inputs, past: Nat]
FileTypes == [kv: Inputs, torn: BOOLEAN, meta: Nat, act: Inputs,
              text: {"none", "joined", "lines"}]

(* Every variable keeps the values the loop, the handlers and the process   *)
(* give it; the room in a daemon's stderr is never overdrawn.               *)
SessionTypeOK ==
  /\ chat \in [Chats -> ChatTypes]
  /\ call \in [Chats -> CallTypes]
  /\ daemon \in [Stages -> DaemonTypes]
  /\ mem \in [Stages -> MemTypes]
  /\ disk \in [Stages -> [Chats -> FileTypes]]
  /\ hurt \subseteq Chats
  /\ faults \in 0 .. MaxFaults

(* Whatever other chats do at the same workers and however often a step is  *)
(* tried, a chat no crash hit has each of its inputs decoded once, in       *)
(* order, at both stages, and the position files agree.                     *)
StagesInStep ==
  \A c \in Chats \ hurt :
    LET n == chat[c].sampled
        At(s, k) == disk[s][c].kv = Upto(k) /\ disk[s][c].meta = k IN
    chat[c].pc \in {"calling", "done"} =>
      /\ At("tail", n)
      /\ At("head", IF chat[c].pc = "done" \/ chat[c].op = "decode-token" THEN n
                    ELSE IF chat[c].op = "forward-activation" THEN n + 1 ELSE 0)

(* The activation the coordinator is about to send to the tail is that of   *)
(* the head's state as it is saved for this chat, after crashes and retries *)
(* too: never of an earlier step, nor of another chat's.                    *)
OwnActivation ==
  \A c \in Chats :
    (chat[c].pc = "calling" /\ chat[c].op = "forward-activation")
      => (chat[c].act = disk["head"][c].kv /\ ~disk["head"][c].torn)

(* A handler that took the mutex gives it up, unless its daemon is stuck    *)
(* writing to a stderr nobody reads.                                        *)
MutexGivenUp ==
  \A c \in Chats : Holds(c) ~> (~Holds(c) \/ Stuck(c))

Store == INSTANCE SessionStore
           WITH log <- [s \in Stages |-> [c \in Chats |-> disk[s][c].kv]],
                suspect <- hurt

(* The session files implement the logs of SessionStore: whatever crashes,  *)
(* retries and other chats do, each save adds the chat's own next input, or *)
(* its last one again if a crash hit the chat, and none is left out.        *)
ImplementsStore == Store!Spec

(* docs/PIPELINE.md:94 says the daemon has the same logic as v3, the single *)
(* process: a prompt reaches the model through it with its lines.           *)
DaemonAsSingle ==
  \A c \in Chats : disk["head"][c].text \in {"none", "lines"}
=============================================================================
