-------------------------- MODULE WorkerInferProofs --------------------------
(***************************************************************************)
(* Proofs about WorkerInfer: type correctness, no llama-cli without its    *)
(* request, and SpoiledHasCause, for any number of requests and splits.    *)
(***************************************************************************)
EXTENDS WorkerInfer, FiniteSetTheorems, TLAPS

\* The request has found split i, or has fetched it.
Passed(h, i) == job[h].at > i \/ (job[h].at = i /\ At(h, "cached"))
Writes(h, i) == At(h, "write") /\ job[h].at = i

\* A llama-cli that relies on the splits: it runs on them, or its request had them fetched.
Relies(h) == llama[h].state = "running" \/ (llama[h].state = "loading" /\ llama[h].fetched)

\* Where a request is says how far its fetch is.
Placed(j) ==
  /\ j.pc \in {"get", "open", "write", "cached"} => j.at < Total
  /\ j.pc = "idle" => j.at = 1

PlaceInv == \A h \in Handlers : Placed(job[h])

\* Where the worker is says who may be at work: its requests end with it, their llama-cli
\* with its guard or as orphans.
OwnerInv ==
  /\ worker # "up" => \A h \in Handlers : At(h, "idle")
  /\ worker = "up" => \A h \in Handlers : llama[h].state # "none" => At(h, "wait")
  /\ worker = "gone" => \A h \in Handlers : llama[h].state = "none"
  /\ cgroup => orphans = 0

\* A split without a cause is absent, whole, or in the hands of its only writer.
Sound(i) ==
  /\ \A h \in Handlers :
       Writes(h, i) =>
         opener[i] = h /\ job[h].pure /\ job[h].got = "right" /\ file[i] = "torn"
  /\ file[i] \in {"absent", "right"}
       \/ (file[i] = "torn" /\ opener[i] \in Handlers /\ Writes(opener[i], i))
  /\ \A h \in Handlers : Passed(h, i) \/ Relies(h) => file[i] = "right"

\* One with a cause has been opened at least once.
CauseOnDisk == \A i \in cause : file[i] # "absent"

FetchInv ==
  /\ TypeOK /\ PlaceInv /\ OwnerInv /\ CauseOnDisk
  /\ \A i \in Splits \ cause : Sound(i)
  /\ SpoiledHasCause

LEMMA InitFetch == Init => FetchInv
<1> SUFFICES ASSUME Init PROVE FetchInv OBVIOUS
<1> USE WorkerAssumption
<1>1. TypeOK
  BY DEF Init, TypeOK, Ready, NoLlama, Phases, Bytes
<1>2. PlaceInv /\ OwnerInv /\ CauseOnDisk /\ SpoiledHasCause
  BY DEF Init, PlaceInv, Placed, OwnerInv, CauseOnDisk, SpoiledHasCause, Ready, NoLlama, At
<1>3. \A i \in Splits \ cause : Sound(i)
  BY DEF Init, Sound, Writes, Passed, Relies, Ready, NoLlama, At, Splits
<1> QED BY <1>1, <1>2, <1>3 DEF FetchInv

JobTypes == [pc: Phases, at: 1 .. Total, got: Bytes, pure: BOOLEAN, named: SUBSET Splits]
LlamaTypes == [state: {"none", "loading", "running", "exited", "failed"}, fetched: BOOLEAN,
               out: 0 .. PipeRoom, length: 0 .. PipeRoom + 1,
               missing: SUBSET Splits, spoiled: SUBSET Splits]

RestOK ==
  /\ file \in [Splits -> {"absent", "torn"} \cup Bytes]
  /\ opener \in [Splits -> Handlers \cup {None}]
  /\ peer \in Bytes \cup {"down"} /\ cause \subseteq Splits
  /\ room \in 0 .. LogRoom /\ faults \in 0 .. MaxFaults

MachineOK == worker \in {"up", "dead", "gone"} /\ cgroup \in BOOLEAN /\ orphans \in Nat

\* Handler h goes to phase p at split n; the others stay.
Goes(h, p, n) ==
  /\ job' \in [Handlers -> JobTypes] /\ job'[h].pc = p /\ job'[h].at = n
  /\ \A g \in Handlers \ {h} : job'[g] = job[g]

\* What the types say of each handler, its job and its llama-cli.
LEMMA TypesOf ==
  ASSUME FetchInv
  PROVE  /\ TypeOK /\ PlaceInv /\ OwnerInv
         /\ job \in [Handlers -> JobTypes] /\ llama \in [Handlers -> LlamaTypes]
         /\ RestOK /\ MachineOK /\ Splits = 1 .. Total - 1 /\ Total \in Int /\ Total > 1
         /\ \A h \in Handlers :
              /\ job[h].pc \in {"get", "open", "write", "cached"} => job[h].at \in Splits
              /\ job[h].at \in 1 .. Total /\ job[h].got \in Bytes
              /\ job[h].pc = "idle" => job[h].at = 1
  BY WorkerAssumption
  DEF FetchInv, TypeOK, JobTypes, LlamaTypes, RestOK, MachineOK, PlaceInv, Placed, Splits

\* Each step of a request takes it, alone, to the next place.
LEMMA Going ==
  ASSUME TypeOK, NEW h \in Handlers, NEW j \in JobTypes, job' = [job EXCEPT ![h] = j]
  PROVE  Goes(h, j.pc, j.at) /\ job'[h] = j
<1>1. job \in [Handlers -> JobTypes]
  BY DEF TypeOK, JobTypes
<1> QED BY <1>1 DEF Goes

LEMMA Goings ==
  ASSUME FetchInv, NEW h \in Handlers
  PROVE  /\ \A p \in Phases : Goto(h, p) => Goes(h, p, job[h].at)
         /\ Ends(h) => Goes(h, "idle", 1)
         /\ Infer(h) => \E p \in {"spawn", "look"} : Goes(h, p, job[h].at)
         /\ Look(h) => \/ job[h].at = Total /\ Goes(h, "spawn", job[h].at)
                       \/ job[h].at < Total /\ Goes(h, "look", job[h].at + 1)
                       \/ job[h].at < Total /\ (Goes(h, "get", job[h].at) \/ Goes(h, "idle", 1))
         /\ Get(h) => Goes(h, "open", job[h].at) \/ Goes(h, "idle", 1)
         /\ Open(h) => /\ Goes(h, "write", job[h].at) /\ job'[h].got = job[h].got
                       /\ job'[h].pure = \A g \in Writers(job[h].at, h) : job[g].got = job[h].got
         /\ Cached(h) => Goes(h, "look", job[h].at + 1)
         /\ Spawn(h) => Goes(h, "wait", job[h].at)
<1> USE WorkerAssumption
<1>1. job[h] \in JobTypes /\ TypeOK /\ Splits = 1 .. Total - 1
  BY TypesOf
<1>2. ASSUME NEW p \in Phases, Goto(h, p) PROVE Goes(h, p, job[h].at)
  <2> DEFINE j == [job[h] EXCEPT !.pc = p]
  <2>1. j \in JobTypes /\ j.pc = p /\ j.at = job[h].at
    BY <1>1 DEF JobTypes
  <2>2. job' = [job EXCEPT ![h] = j]
    BY <1>2 DEF Goto
  <2> HIDE DEF j
  <2>3. Goes(h, j.pc, j.at)
    BY <1>1, <2>1, <2>2, Going
  <2> QED BY <2>1, <2>3
<1>3. ASSUME Ends(h) PROVE Goes(h, "idle", 1)
  <2>1. Ready \in JobTypes /\ Ready.pc = "idle" /\ Ready.at = 1
    BY DEF Ready, JobTypes, Phases, Bytes
  <2> QED BY <1>1, <1>3, <2>1, Going DEF Ends
<1>4. ASSUME Infer(h) PROVE \E p \in {"spawn", "look"} : Goes(h, p, job[h].at)
  <2>1. CASE Goto(h, "spawn")
    BY <1>2, <2>1 DEF Phases
  <2>2. ASSUME NEW named \in SUBSET Splits,
               job' = [job EXCEPT ![h].pc = "look", ![h].named = named]
        PROVE  Goes(h, "look", job[h].at)
    <3> DEFINE j == [job[h] EXCEPT !.pc = "look", !.named = named]
    <3>1. j \in JobTypes /\ j.pc = "look" /\ j.at = job[h].at
      BY <1>1 DEF JobTypes, Phases
    <3>2. job' = [job EXCEPT ![h] = j]
      BY <2>2
    <3> HIDE DEF j
    <3>3. Goes(h, j.pc, j.at)
      BY <1>1, <3>1, <3>2, Going
    <3> QED BY <3>1, <3>3
  <2> QED BY <1>4, <2>1, <2>2 DEF Infer
<1>5. ASSUME Look(h)
      PROVE  \/ job[h].at = Total /\ Goes(h, "spawn", job[h].at)
             \/ job[h].at < Total /\ Goes(h, "look", job[h].at + 1)
             \/ job[h].at < Total /\ (Goes(h, "get", job[h].at) \/ Goes(h, "idle", 1))
  <2>1. job[h].pc = "look"
    BY <1>5 DEF Look, At
  <2>2. ASSUME job[h].at < Total, job' = [job EXCEPT ![h].at = job[h].at + 1]
        PROVE  Goes(h, "look", job[h].at + 1)
    <3>1. /\ [job[h] EXCEPT !.at = job[h].at + 1] \in JobTypes
          /\ [job[h] EXCEPT !.at = job[h].at + 1].pc = "look"
          /\ [job[h] EXCEPT !.at = job[h].at + 1].at = job[h].at + 1
      BY <1>1, <2>1, <2>2 DEF JobTypes
    <3> QED BY <1>1, <2>2, <3>1, Going
  <2> QED BY <1>2, <1>3, <1>5, <2>2 DEF Look, Phases
<1>6. ASSUME Get(h) PROVE Goes(h, "open", job[h].at) \/ Goes(h, "idle", 1)
  <2>1. CASE peer # "down" /\ job' = [job EXCEPT ![h].pc = "open", ![h].got = peer]
    <3> DEFINE j == [job[h] EXCEPT !.pc = "open", !.got = peer]
    <3>1. j \in JobTypes /\ j.pc = "open" /\ j.at = job[h].at
      BY <1>1, <2>1 DEF JobTypes, Phases, TypeOK
    <3>2. job' = [job EXCEPT ![h] = j]
      BY <2>1
    <3> HIDE DEF j
    <3>3. Goes(h, j.pc, j.at)
      BY <1>1, <3>1, <3>2, Going
    <3> QED BY <3>1, <3>3
  <2> QED BY <1>3, <1>6, <2>1 DEF Get
<1>7. ASSUME Open(h)
      PROVE  /\ Goes(h, "write", job[h].at) /\ job'[h].got = job[h].got
             /\ job'[h].pure = \A g \in Writers(job[h].at, h) : job[g].got = job[h].got
  <2> DEFINE b == \A g \in Writers(job[h].at, h) : job[g].got = job[h].got
             j == [job[h] EXCEPT !.pc = "write", !.pure = b]
  <2>1. job' = [job EXCEPT ![h] = j]
    BY <1>7 DEF Open
  <2>2. b \in BOOLEAN
    OBVIOUS
  <2> HIDE DEF b
  <2>3. j \in JobTypes /\ j.pc = "write" /\ j.at = job[h].at /\ j.got = job[h].got /\ j.pure = b
    BY <1>1, <2>2 DEF JobTypes, Phases
  <2> HIDE DEF j
  <2>4. Goes(h, j.pc, j.at) /\ job'[h] = j
    BY <1>1, <2>1, <2>3, Going
  <2>5. Goes(h, "write", job[h].at) /\ job'[h].got = job[h].got /\ job'[h].pure = b
    BY <2>3, <2>4
  <2> QED BY <2>5 DEF b
<1>8. ASSUME Cached(h) PROVE Goes(h, "look", job[h].at + 1)
  <2> DEFINE j == [Ready EXCEPT !.pc = "look", !.at = job[h].at + 1, !.named = job[h].named]
  <2>1. job[h].at + 1 \in 1 .. Total
    BY <1>1, <1>8, TypesOf DEF Cached, At
  <2>2. j \in JobTypes /\ j.pc = "look" /\ j.at = job[h].at + 1
    BY <1>1, <2>1 DEF JobTypes, Phases, Ready, Bytes
  <2>3. job' = [job EXCEPT ![h] = j]
    BY <1>8 DEF Cached
  <2> HIDE DEF j
  <2>4. Goes(h, j.pc, j.at)
    BY <1>1, <2>2, <2>3, Going
  <2> QED BY <2>2, <2>4
<1>9. ASSUME Spawn(h) PROVE Goes(h, "wait", job[h].at)
  <2> DEFINE j == [job[h] EXCEPT !.pc = "wait", !.named = {}]
  <2>1. j \in JobTypes /\ j.pc = "wait" /\ j.at = job[h].at
    BY <1>1 DEF JobTypes, Phases
  <2>2. job' = [job EXCEPT ![h] = j]
    BY <1>9 DEF Spawn
  <2> HIDE DEF j
  <2>3. Goes(h, j.pc, j.at)
    BY <1>1, <2>1, <2>2, Going
  <2> QED BY <2>1, <2>3
<1> QED BY <1>2, <1>3, <1>4, <1>5, <1>6, <1>7, <1>8, <1>9

\* The others: a write that ends, and the two ends of a run.
LEMMA LastGoings ==
  ASSUME FetchInv, NEW h \in Handlers
  PROVE  /\ Close(h) => Goes(h, "cached", job[h].at)
         /\ WriteFails(h) \/ Collect(h) \/ TimesOut(h) => Goes(h, "idle", 1)
  BY Goings DEF Close, WriteFails, Collect, TimesOut, Phases

\* The death of the worker ends every job.
LEMMA AllEnd ==
  ASSUME WorkerDies
  PROVE  job' \in [Handlers -> JobTypes] /\ \A h \in Handlers : job'[h].pc = "idle" /\ job'[h].at = 1
<1>1. Ready \in JobTypes /\ Ready.pc = "idle" /\ Ready.at = 1
  BY WorkerAssumption DEF Ready, JobTypes, Phases, Bytes
<1> QED BY <1>1 DEF WorkerDies

\* The type of the jobs survives every step ...
LEMMA JobsStep ==
  ASSUME FetchInv, [Next]_vars
  PROVE  job' \in [Handlers -> JobTypes]
<1>1. ASSUME NEW h \in Handlers, Infer(h) \/ HandlerStep(h) PROVE job' \in [Handlers -> JobTypes]
  BY <1>1, Goings, LastGoings DEF HandlerStep, Goes
<1>2. CASE \/ \E h \in Handlers : Load(h) \/ Answer(h)
           \/ PeerChanges \/ GuardEnds \/ OrphanEnds \/ WorkerStarts \/ UNCHANGED vars
  BY <1>2, TypesOf DEF Load, Answer, PeerChanges, GuardEnds, OrphanEnds, WorkerStarts, vars
<1> QED BY <1>1, <1>2, AllEnd DEF Next

\* ... and that of each llama-cli too.
LEMMA LlamaStep ==
  ASSUME FetchInv, [Next]_vars
  PROVE  llama' \in [Handlers -> LlamaTypes]
<1> USE WorkerAssumption
<1>1. llama \in [Handlers -> LlamaTypes] /\ NoLlama \in LlamaTypes
  BY TypesOf DEF LlamaTypes, NoLlama
<1>2. ASSUME NEW h \in Handlers, Open(h) PROVE llama' \in [Handlers -> LlamaTypes]
  <2>1. job[h].at \in Splits
    BY <1>2, TypesOf DEF Open, At
  <2>2. \A g \in Handlers : [llama[g] EXCEPT !.spoiled = @ \cup {job[h].at}] \in LlamaTypes
    BY <1>1, <2>1 DEF LlamaTypes
  <2> QED BY <1>1, <1>2, <2>2 DEF Open
<1>3. ASSUME NEW h \in Handlers, Spawn(h) PROVE llama' \in [Handlers -> LlamaTypes]
  <2>1. ASSUME NEW n \in 0 .. PipeRoom + 1, NEW b \in BOOLEAN
        PROVE  [NoLlama EXCEPT !.state = "loading", !.length = n, !.fetched = b] \in LlamaTypes
    BY <1>1 DEF LlamaTypes
  <2> DEFINE b == job[h].at = Total
  <2>2. PICK n \in 0 .. PipeRoom + 1 :
          llama' = [llama EXCEPT ![h] = [NoLlama EXCEPT !.state = "loading", !.length = n, !.fetched = b]]
    BY <1>3 DEF Spawn
  <2>3. b \in BOOLEAN
    OBVIOUS
  <2> HIDE DEF b
  <2> QED BY <1>1, <2>1, <2>2, <2>3
<1>4. ASSUME NEW h \in Handlers, Load(h) PROVE llama' \in [Handlers -> LlamaTypes]
  <2>1. ASSUME NEW m \in SUBSET Splits, NEW bad \in SUBSET Splits, NEW t \in {"running", "failed"}
        PROVE  [llama[h] EXCEPT !.missing = m, !.spoiled = bad, !.state = t] \in LlamaTypes
    BY <1>1 DEF LlamaTypes
  <2> QED BY <1>1, <1>4, <2>1 DEF Load
<1>5. ASSUME NEW h \in Handlers, Answer(h) PROVE llama' \in [Handlers -> LlamaTypes]
  <2>1. ASSUME NEW t \in {"exited", "failed"}
        PROVE  [llama[h] EXCEPT !.state = t] \in LlamaTypes
    BY <1>1 DEF LlamaTypes
  <2>2. llama[h].out < PipeRoom => [llama[h] EXCEPT !.out = @ + 1] \in LlamaTypes
    BY <1>1 DEF LlamaTypes
  <2> QED BY <1>1, <1>5, <2>1, <2>2 DEF Answer
<1>6. ASSUME NEW h \in Handlers, Collect(h) \/ TimesOut(h)
      PROVE  llama' \in [Handlers -> LlamaTypes]
  BY <1>1, <1>6 DEF Collect, TimesOut
<1>7. CASE GuardEnds
  BY <1>1, <1>7 DEF GuardEnds
<1>8. ASSUME NEW h \in Handlers, \/ Infer(h) \/ Look(h) \/ Get(h) \/ Close(h)
                                 \/ WriteFails(h) \/ Cached(h)
      PROVE  llama' \in [Handlers -> LlamaTypes]
  BY <1>1, <1>8 DEF Infer, Look, Get, Close, WriteFails, Cached
<1>9. CASE PeerChanges \/ WorkerDies \/ OrphanEnds \/ WorkerStarts \/ UNCHANGED vars
  BY <1>1, <1>9 DEF PeerChanges, WorkerDies, OrphanEnds, WorkerStarts, vars
<1> QED BY <1>2, <1>3, <1>4, <1>5, <1>6, <1>7, <1>8, <1>9 DEF Next, HandlerStep

\* The machine counts its orphans ...
LEMMA MachineStep ==
  ASSUME FetchInv, [Next]_vars
  PROVE  MachineOK'
<1>1. MachineOK
  BY TypesOf
<1>2. CASE GuardEnds
  <2> DEFINE Alive == {h \in Handlers : llama[h].state \in {"loading", "running"}}
  <2>1. Cardinality(Alive) \in Nat
    BY WorkerAssumption, FS_Subset, FS_CardinalityType
  <2>2. orphans' = orphans \/ orphans' = orphans + Cardinality(Alive)
    BY <1>2 DEF GuardEnds
  <2> HIDE DEF Alive
  <2> QED BY <1>1, <1>2, <2>1, <2>2 DEF GuardEnds, MachineOK
<1>3. CASE WorkerDies \/ WorkerStarts \/ OrphanEnds
  BY <1>1, <1>3 DEF WorkerDies, WorkerStarts, OrphanEnds, MachineOK
<1>4. ASSUME NEW h \in Handlers, Infer(h) \/ HandlerStep(h) \/ Load(h) \/ Answer(h)
      PROVE  MachineOK'
  BY <1>1, <1>4 DEF HandlerStep, Infer, Look, Get, Open, Close, WriteFails, Cached, Spawn,
                    Collect, TimesOut, Load, Answer, machine, MachineOK
<1>5. CASE PeerChanges \/ UNCHANGED vars
  BY <1>1, <1>5 DEF PeerChanges, vars, machine, MachineOK
<1> QED BY <1>2, <1>3, <1>4, <1>5 DEF Next

\* ... and the files, the peer, the log pipe and the causes keep their types.
LEMMA RestStep ==
  ASSUME FetchInv, [Next]_vars
  PROVE  RestOK'
<1> USE WorkerAssumption, TypesOf
<1>1. RestOK
  OBVIOUS
<1>2. ASSUME NEW h \in Handlers, \/ Infer(h) \/ Collect(h) \/ TimesOut(h) \/ Answer(h)
                                 \/ Get(h) \/ Cached(h) \/ Spawn(h)
      PROVE  RestOK'
  <2>1. /\ UNCHANGED <<file, opener, peer, faults, cause>>
        /\ UNCHANGED room \/ Logs
    BY <1>2 DEF Infer, Get, Cached, Spawn, Collect, TimesOut, Answer
  <2> QED BY <1>1, <2>1 DEF Logs, RestOK
<1>3. ASSUME NEW h \in Handlers, Look(h) \/ Load(h) PROVE RestOK'
  <2>1. job[h].at < Total => job[h].at \in Splits
    OBVIOUS
  <2>2. Look(h) => cause' \subseteq cause \cup {job[h].at} /\ (cause' = cause \/ job[h].at < Total)
    BY DEF Look
  <2>3. Load(h) => cause' \subseteq cause \cup Splits
    BY DEF Load
  <2>4. cause' \subseteq Splits
    BY <1>1, <1>3, <2>1, <2>2, <2>3 DEF RestOK
  <2>5. UNCHANGED <<file, opener, peer, room, faults>>
    BY <1>3 DEF Look, Load
  <2> QED BY <1>1, <2>4, <2>5 DEF RestOK
<1>4. ASSUME NEW h \in Handlers, Open(h) \/ Close(h) \/ WriteFails(h) PROVE RestOK'
  <2>1. job[h].at \in Splits /\ job[h].got \in Bytes
    BY <1>4 DEF Open, Close, WriteFails, At
  <2>2. /\ UNCHANGED <<peer, room>>
        /\ UNCHANGED file \/ \E c \in {"torn", job[h].got} : file' = [file EXCEPT ![job[h].at] = c]
        /\ UNCHANGED opener \/ opener' = [opener EXCEPT ![job[h].at] = h]
        /\ UNCHANGED cause \/ cause' = cause \cup {job[h].at}
        /\ UNCHANGED faults \/ (faults < MaxFaults /\ faults' = faults + 1)
    BY <1>4 DEF Open, Close, WriteFails
  <2>3. file' \in [Splits -> {"absent", "torn"} \cup Bytes]
    BY <1>1, <2>1, <2>2 DEF RestOK
  <2>4. opener' \in [Splits -> Handlers \cup {None}]
    BY <1>1, <2>1, <2>2 DEF RestOK
  <2>5. cause' \subseteq Splits /\ room' \in 0 .. LogRoom /\ faults' \in 0 .. MaxFaults
    BY <1>1, <2>1, <2>2 DEF RestOK
  <2> QED BY <1>1, <2>2, <2>3, <2>4, <2>5 DEF RestOK
<1>5. CASE PeerChanges \/ GuardEnds \/ OrphanEnds \/ UNCHANGED vars
  BY <1>1, <1>5 DEF PeerChanges, GuardEnds, OrphanEnds, vars, RestOK
<1>6. CASE WorkerDies
  <2>1. cause' \subseteq Splits
    BY <1>1, <1>6 DEF WorkerDies, RestOK, At
  <2> QED BY <1>1, <1>6, <2>1 DEF WorkerDies, RestOK
<1>7. CASE WorkerStarts
  <2>1. file' \in [Splits -> {"absent", "torn"} \cup Bytes]
    BY <1>1, <1>7 DEF WorkerStarts, RestOK, Bytes
  <2>2. cause' \subseteq Splits
    BY <1>1, <1>7 DEF WorkerStarts, RestOK
  <2> QED BY <1>1, <1>7, <2>1, <2>2 DEF WorkerStarts, RestOK
<1> QED BY <1>2, <1>3, <1>4, <1>5, <1>6, <1>7 DEF Next, HandlerStep

\* So the type of the state survives every step.
LEMMA TypeStep == FetchInv /\ [Next]_vars => TypeOK'
<1> SUFFICES ASSUME FetchInv, [Next]_vars PROVE TypeOK' OBVIOUS
<1>1. RestOK' /\ MachineOK' /\ job' \in [Handlers -> JobTypes] /\ llama' \in [Handlers -> LlamaTypes]
  BY RestStep, MachineStep, JobsStep, LlamaStep
<1>2. Splits' = Splits
  BY DEF Splits
<1> QED BY <1>1, <1>2 DEF RestOK, MachineOK, TypeOK, JobTypes, LlamaTypes

\* Each request stays in a place its fetch allows ...
LEMMA PlaceStep == FetchInv /\ [Next]_vars => PlaceInv'
<1> SUFFICES ASSUME FetchInv, [Next]_vars PROVE PlaceInv' OBVIOUS
<1> USE WorkerAssumption
<1>1. ASSUME NEW h \in Handlers, NEW p, NEW n, Goes(h, p, n),
             p \in {"get", "open", "write", "cached"} => n < Total, p = "idle" => n = 1
      PROVE  PlaceInv'
  BY <1>1, TypesOf DEF Goes, PlaceInv, Placed
<1>2. ASSUME NEW h \in Handlers, Infer(h) PROVE PlaceInv'
  BY <1>1, <1>2, Goings
<1>3. ASSUME NEW h \in Handlers, Look(h) \/ Get(h) \/ Cached(h) \/ Spawn(h) PROVE PlaceInv'
  <2>1. Get(h) => job[h].at < Total
    BY TypesOf DEF Get, At
  <2> QED BY <1>1, <1>3, <2>1, Goings
<1>4. ASSUME NEW h \in Handlers, Open(h) \/ Close(h) PROVE PlaceInv'
  <2>1. job[h].at < Total
    BY <1>4, TypesOf DEF Open, Close, At
  <2> QED BY <1>1, <1>4, <2>1, Goings, LastGoings
<1>5. ASSUME NEW h \in Handlers, WriteFails(h) \/ Collect(h) \/ TimesOut(h) PROVE PlaceInv'
  BY <1>1, <1>5, LastGoings
<1>6. CASE WorkerDies
  BY <1>6, AllEnd DEF PlaceInv, Placed
<1>7. CASE \/ \E h \in Handlers : Load(h) \/ Answer(h)
           \/ PeerChanges \/ GuardEnds \/ OrphanEnds \/ WorkerStarts \/ UNCHANGED vars
  BY <1>7, TypesOf
  DEF Load, Answer, PeerChanges, GuardEnds, OrphanEnds, WorkerStarts, vars, PlaceInv, Placed
<1> QED BY <1>2, <1>3, <1>4, <1>5, <1>6, <1>7 DEF Next, HandlerStep

\* ... a llama-cli keeps the request it belongs to, while there is a worker ...
LEMMA OwnerStep == FetchInv /\ [Next]_vars => OwnerInv'
<1> SUFFICES ASSUME FetchInv, [Next]_vars PROVE OwnerInv' OBVIOUS
<1> USE TypesOf
<1>1. OwnerInv /\ worker \in {"up", "dead", "gone"}
  BY DEF MachineOK
<1>2. ASSUME NEW h \in Handlers, NEW p, NEW n, worker = "up" \/ p = "idle", Goes(h, p, n),
             UNCHANGED machine,
             \A g \in Handlers \ {h} : llama'[g].state = llama[g].state,
             llama'[h].state = "none" \/ p = "wait" \/ (job[h].pc # "wait" /\ llama'[h].state = llama[h].state)
      PROVE  OwnerInv'
  BY <1>1, <1>2 DEF machine, OwnerInv, Goes, At
<1>3. ASSUME NEW h \in Handlers, \/ Look(h) \/ Get(h) \/ Open(h) \/ Close(h) \/ WriteFails(h)
                                 \/ Cached(h) \/ Spawn(h) \/ Collect(h) \/ TimesOut(h) \/ Infer(h)
      PROVE  worker = "up" /\ UNCHANGED machine
  BY <1>1, <1>3 DEF Infer, Look, Get, Open, Close, WriteFails, Cached, Spawn, Collect, TimesOut,
                    OwnerInv, At
<1>4. ASSUME NEW h \in Handlers, \/ Infer(h) \/ Look(h) \/ Get(h) \/ Close(h) \/ WriteFails(h)
                                 \/ Cached(h) \/ Open(h)
      PROVE  OwnerInv'
  <2>1. job[h].pc # "wait"
    BY <1>4 DEF Infer, Look, Get, Close, WriteFails, Cached, Open, At
  <2>2. \A g \in Handlers : llama'[g].state = llama[g].state
    <3>1. CASE Open(h)
      BY <3>1 DEF Open, LlamaTypes
    <3> QED BY <1>4, <3>1 DEF Infer, Look, Get, Close, WriteFails, Cached
  <2>3. \E p, n : Goes(h, p, n)
    BY <1>4, Goings, LastGoings
  <2> QED BY <1>2, <1>3, <1>4, <2>1, <2>2, <2>3
<1>5. ASSUME NEW h \in Handlers, Spawn(h) PROVE OwnerInv'
  <2>1. \A g \in Handlers \ {h} : llama'[g] = llama[g]
    BY <1>5 DEF Spawn
  <2>2. Goes(h, "wait", job[h].at)
    BY <1>5, Goings
  <2> QED BY <1>2, <1>3, <1>5, <2>1, <2>2
<1>6. ASSUME NEW h \in Handlers, Collect(h) \/ TimesOut(h) PROVE OwnerInv'
  <2>1. llama'[h].state = "none" /\ \A g \in Handlers \ {h} : llama'[g] = llama[g]
    BY <1>6 DEF Collect, TimesOut, NoLlama
  <2>2. Goes(h, "idle", 1)
    BY <1>6, LastGoings
  <2> QED BY <1>2, <1>3, <1>6, <2>1, <2>2
<1>7. ASSUME NEW h \in Handlers, Load(h) \/ Answer(h) PROVE OwnerInv'
  <2>1. \A g \in Handlers \ {h} : llama'[g] = llama[g]
    BY <1>7 DEF Load, Answer
  <2>2. llama[h].state # "none" /\ UNCHANGED <<job, machine>>
    BY <1>7 DEF Load, Answer
  <2> QED BY <1>1, <2>1, <2>2 DEF machine, OwnerInv, At
<1>8. CASE PeerChanges \/ OrphanEnds \/ WorkerStarts \/ UNCHANGED vars
  BY <1>1, <1>8 DEF PeerChanges, OrphanEnds, WorkerStarts, MachineOK, vars, machine, OwnerInv, At
<1>9. CASE WorkerDies
  BY <1>1, <1>9, AllEnd DEF WorkerDies, OwnerInv, At
<1>10. CASE GuardEnds
  BY <1>1, <1>10 DEF GuardEnds, NoLlama, OwnerInv, At
<1> QED BY <1>4, <1>5, <1>6, <1>7, <1>8, <1>9, <1>10 DEF Next, HandlerStep

\* ... and no file goes away.
LEMMA DiskStep == FetchInv /\ [Next]_vars => CauseOnDisk'
<1> SUFFICES ASSUME FetchInv, [Next]_vars, NEW i \in cause' PROVE file'[i] # "absent"
  BY DEF CauseOnDisk
<1> USE TypesOf
<1>1. i \in cause => file[i] # "absent"
  BY DEF FetchInv, CauseOnDisk
<1>2. ASSUME NEW h \in Handlers, Writes(h, i) PROVE file[i] # "absent"
  BY <1>1, <1>2 DEF FetchInv, Sound, Writes, At
<1>3. i \in Splits
  BY RestStep DEF RestOK, Splits
<1>4. i \in cause' \ cause => file'[i] # "absent"
  <2> SUFFICES ASSUME i \notin cause PROVE file'[i] # "absent" OBVIOUS
  <2>1. ASSUME NEW h \in Handlers, Look(h) PROVE file'[i] # "absent"
    BY <2>1 DEF Look
  <2>2. ASSUME NEW h \in Handlers, Open(h) PROVE file'[i] # "absent"
    BY <1>3, <2>2 DEF Open, RestOK
  <2>3. ASSUME NEW h \in Handlers, WriteFails(h) PROVE file'[i] # "absent"
    BY <1>2, <2>3 DEF WriteFails, Writes
  <2>4. ASSUME NEW h \in Handlers, Load(h) PROVE file'[i] # "absent"
    BY <1>2, <2>4 DEF Load, Writers, Writes
  <2>5. ASSUME WorkerDies PROVE file'[i] # "absent"
    BY <1>2, <2>5 DEF WorkerDies, Writes
  <2>6. ASSUME WorkerStarts PROVE file'[i] # "absent"
    BY <1>3, <2>6 DEF WorkerStarts
  <2>7. ASSUME NEW h \in Handlers, \/ Infer(h) \/ Get(h) \/ Close(h) \/ Cached(h) \/ Spawn(h)
                                   \/ Collect(h) \/ TimesOut(h) \/ Answer(h)
        PROVE  FALSE
    BY <2>7 DEF Infer, Get, Close, Cached, Spawn, Collect, TimesOut, Answer
  <2>8. ~(PeerChanges \/ GuardEnds \/ OrphanEnds \/ UNCHANGED vars)
    BY DEF PeerChanges, GuardEnds, OrphanEnds, vars
  <2> QED BY <2>1, <2>2, <2>3, <2>4, <2>5, <2>6, <2>7, <2>8 DEF Next, HandlerStep
<1>5. file[i] # "absent" => file'[i] # "absent"
  <2> SUFFICES ASSUME file[i] # "absent" PROVE file'[i] # "absent" OBVIOUS
  <2>1. ASSUME NEW h \in Handlers, Open(h) PROVE file'[i] # "absent"
    BY <1>3, <2>1 DEF Open, RestOK
  <2>2. ASSUME NEW h \in Handlers, Close(h) PROVE file'[i] # "absent"
    <3>1. job[h].got # "absent"
      BY DEF Bytes
    <3>2. PICK c \in {job[h].got, "torn"} : file' = [file EXCEPT ![job[h].at] = c]
      BY <2>2 DEF Close
    <3> QED BY <1>3, <3>1, <3>2 DEF RestOK
  <2>3. ASSUME WorkerStarts PROVE file'[i] # "absent"
    BY <1>3, <2>3 DEF WorkerStarts
  <2>4. ASSUME NEW h \in Handlers, \/ Infer(h) \/ Look(h) \/ Get(h) \/ WriteFails(h) \/ Cached(h)
                                   \/ Spawn(h) \/ Collect(h) \/ TimesOut(h) \/ Load(h) \/ Answer(h)
        PROVE  file'[i] # "absent"
    BY <2>4 DEF Infer, Look, Get, WriteFails, Cached, Spawn, Collect, TimesOut, Load, Answer
  <2>5. CASE PeerChanges \/ WorkerDies \/ GuardEnds \/ OrphanEnds \/ UNCHANGED vars
    BY <2>5 DEF PeerChanges, WorkerDies, GuardEnds, OrphanEnds, vars
  <2> QED BY <2>1, <2>2, <2>3, <2>4, <2>5 DEF Next, HandlerStep
<1> QED BY <1>1, <1>4, <1>5

\* A handler that neither starts nor ends a write leaves sound what it does not pass.
LEMMA SoundKept ==
  ASSUME FetchInv, NEW i \in Splits, Sound(i), NEW h \in Handlers, NEW p, NEW n, Goes(h, p, n),
         file'[i] = file[i], opener'[i] = opener[i],
         ~Writes(h, i), ~(p = "write" /\ n = i),
         n > i \/ (n = i /\ p = "cached") => Passed(h, i) \/ file[i] = "right",
         \A g \in Handlers : Relies(g)' => Relies(g) \/ file[i] = "right"
  PROVE  Sound(i)'
<1>1. job'[h].pc = p /\ job'[h].at = n /\ \A g \in Handlers \ {h} : job'[g] = job[g]
  BY DEF Goes
<1>2. \A g \in Handlers : Writes(g, i)' => Writes(g, i) /\ g # h
  BY <1>1 DEF Writes, At
<1>3. \A g \in Handlers : Writes(g, i) => Writes(g, i)' /\ job'[g] = job[g]
  BY <1>1 DEF Writes, At
<1>4. \A g \in Handlers : Passed(g, i)' \/ Relies(g)' => file[i] = "right"
  BY <1>1 DEF Passed, At, Sound
<1> QED BY <1>1, <1>2, <1>3, <1>4 DEF Sound

\* And a split without a cause stays sound, under the requests that touch it and the others.
LEMMA SoundStep ==
  ASSUME FetchInv, [Next]_vars, NEW i \in Splits, i \notin cause'
  PROVE  Sound(i)'
<1> USE TypesOf
<1>1. i \in Int /\ i > 0 /\ i < Total
  OBVIOUS
<1>2. i \notin cause => Sound(i)
  BY DEF FetchInv
<1>3. ASSUME NEW h \in Handlers, NEW p, NEW n, Goes(h, p, n), UNCHANGED <<file, opener, cause>>,
             job[h].pc # "write", p # "write",
             n > i \/ (n = i /\ p = "cached") => Passed(h, i),
             \A g \in Handlers : Relies(g)' => Relies(g)
      PROVE  Sound(i)'
  BY <1>2, <1>3, SoundKept DEF Writes, At
<1>4. UNCHANGED llama => \A g \in Handlers : Relies(g)' => Relies(g)
  BY DEF Relies
<1>5. ASSUME NEW h \in Handlers, Infer(h) PROVE Sound(i)'
  <2>1. job[h].pc = "idle" /\ UNCHANGED <<file, opener, llama, cause>>
    BY <1>5 DEF Infer, At
  <2>2. PICK p \in {"spawn", "look"} : Goes(h, p, job[h].at)
    BY <1>5, Goings
  <2> QED BY <1>1, <1>3, <1>4, <2>1, <2>2
<1>6. ASSUME NEW h \in Handlers, Look(h) PROVE Sound(i)'
  <2>1. job[h].pc = "look" /\ UNCHANGED <<file, opener, llama>>
    BY <1>6 DEF Look, At
  <2>2. i \notin cause
    BY <1>6 DEF Look
  <2>3. CASE Goes(h, "spawn", job[h].at) \/ Goes(h, "get", job[h].at) \/ Goes(h, "idle", 1)
    BY <1>1, <1>2, <1>4, <2>1, <2>2, <2>3, SoundKept DEF Passed, Writes, At
  <2>4. CASE job[h].at < Total /\ Goes(h, "look", job[h].at + 1)
    <3>1. job[h].at = i => file[i] = "right"
      <4> SUFFICES ASSUME job[h].at = i PROVE file[i] = "right" OBVIOUS
      <4>1. job'[h].pc = "look"
        BY <2>4 DEF Goes
      <4>2. file[i] # "absent" /\ Writers(i, h) = {}
        <5>1. Ready.pc = "idle"
          BY DEF Ready
        <5>2. ~Ends(h) /\ ~Goto(h, "get")
          BY <4>1, <5>1 DEF Ends, Goto, JobTypes
        <5> QED BY <1>1, <1>6, <5>2 DEF Look
      <4>3. \A g \in Handlers : ~Writes(g, i)
        BY <2>1, <4>2 DEF Writers, Writes, At
      <4> QED BY <1>2, <2>2, <4>2, <4>3 DEF Sound
    <3>2. job[h].at + 1 > i => Passed(h, i) \/ file[i] = "right"
      BY <3>1 DEF Passed
    <3> QED BY <1>2, <1>4, <2>1, <2>2, <2>4, <3>2, SoundKept DEF Writes, At
  <2> QED BY <1>6, <2>3, <2>4, Goings
<1>7. ASSUME NEW h \in Handlers, Get(h) PROVE Sound(i)'
  <2>1. job[h].pc = "get" /\ UNCHANGED <<file, opener, llama, cause>>
    BY <1>7 DEF Get, At
  <2>2. CASE Goes(h, "open", job[h].at)
    BY <1>3, <1>4, <2>1, <2>2 DEF Passed
  <2>3. CASE Goes(h, "idle", 1)
    BY <1>1, <1>3, <1>4, <2>1, <2>3
  <2> QED BY <1>7, <2>2, <2>3, Goings
<1>8. ASSUME NEW h \in Handlers, Open(h) PROVE Sound(i)'
  <2>1. i \notin cause /\ Sound(i) /\ job[h].pc = "open" /\ job[h].at \in Splits
    BY <1>2, <1>8 DEF Open, At
  <2>2. Goes(h, "write", job[h].at) /\ job'[h].got = job[h].got
    BY <1>8, Goings
  <2>3. \A g \in Handlers : Relies(g)' => Relies(g)
    <3>1. \A g \in Handlers : llama'[g].state = llama[g].state /\ llama'[g].fetched = llama[g].fetched
      BY <1>8 DEF Open, LlamaTypes
    <3> QED BY <3>1 DEF Relies
  <2>4. CASE job[h].at = i
    <3>1. file[i] = "absent" /\ job[h].got = "right"
      BY <1>8, <2>4 DEF Open, Bytes
    <3>2. \A g \in Handlers : ~Writes(g, i) /\ ~Passed(g, i) /\ ~Relies(g)
      BY <2>1, <3>1 DEF Sound
    <3>3. Writers(i, h) = {}
      BY <3>2 DEF Writers, Writes
    <3>4. job'[h].pure
      BY <1>8, <2>4, <3>3, Goings
    <3>5. file'[i] = "torn" /\ opener'[i] = h
      BY <1>8, <2>4 DEF Open, RestOK
    <3>6. \A g \in Handlers : Writes(g, i)' => g = h
      BY <2>2, <3>2 DEF Writes, At, Goes
    <3>7. Writes(h, i)'
      BY <2>2, <2>4 DEF Writes, At, Goes
    <3>8. \A g \in Handlers : ~Passed(g, i)' /\ ~Relies(g)'
      BY <2>2, <2>3, <2>4, <3>2 DEF Passed, At, Goes
    <3> QED BY <2>2, <3>1, <3>4, <3>5, <3>6, <3>7, <3>8 DEF Sound
  <2>5. CASE job[h].at # i
    <3>1. file'[i] = file[i] /\ opener'[i] = opener[i]
      BY <1>8, <2>5 DEF Open, RestOK
    <3> QED BY <2>1, <2>2, <2>3, <2>5, <3>1, SoundKept DEF Writes, Passed, At
  <2> QED BY <2>4, <2>5
<1>9. ASSUME NEW h \in Handlers, Close(h) PROVE Sound(i)'
  <2>1. i \notin cause /\ Sound(i) /\ job[h].pc = "write" /\ UNCHANGED <<opener, llama>>
    BY <1>2, <1>9 DEF Close, At
  <2>2. Goes(h, "cached", job[h].at)
    BY <1>9, LastGoings
  <2>3. CASE job[h].at = i
    <3>1. opener[i] = h /\ job[h].pure /\ job[h].got = "right" /\ file[i] = "torn"
      BY <2>1, <2>3 DEF Sound, Writes, At
    <3>2. file'[i] = "right"
      BY <1>9, <2>3, <3>1 DEF Close, RestOK
    <3>3. \A g \in Handlers : ~Writes(g, i)'
      BY <2>1, <2>2, <3>1 DEF Sound, Writes, At, Goes
    <3> QED BY <3>2, <3>3 DEF Sound
  <2>4. CASE job[h].at # i
    <3>1. file'[i] = file[i]
      BY <1>9, <2>4 DEF Close, RestOK
    <3> QED BY <1>4, <2>1, <2>2, <2>4, <3>1, SoundKept DEF Writes, Passed, At
  <2> QED BY <2>3, <2>4
<1>10. ASSUME NEW h \in Handlers, WriteFails(h) PROVE Sound(i)'
  <2>1. i \notin cause /\ Sound(i) /\ job[h].at # i /\ UNCHANGED <<file, opener, llama>>
    BY <1>2, <1>10 DEF WriteFails
  <2> QED BY <1>1, <1>4, <1>10, <2>1, SoundKept, LastGoings DEF Writes
<1>11. ASSUME NEW h \in Handlers, Cached(h) PROVE Sound(i)'
  <2>1. job[h].pc = "cached" /\ UNCHANGED <<file, opener, llama, cause>>
    BY <1>11 DEF Cached, At
  <2>2. job[h].at + 1 > i => Passed(h, i)
    BY <2>1 DEF Passed, At
  <2> QED BY <1>3, <1>4, <1>11, <2>1, <2>2, Goings
<1>12. ASSUME NEW h \in Handlers, Spawn(h) PROVE Sound(i)'
  <2>1. job[h].pc = "spawn" /\ UNCHANGED <<file, opener, cause>>
    BY <1>12 DEF Spawn, At
  <2>2. Goes(h, "wait", job[h].at) /\ Sound(i)
    BY <1>2, <1>12, <2>1, Goings
  <2>3. Relies(h)' => file[i] = "right"
    <3> DEFINE b == job[h].at = Total
    <3>1. PICK n \in 0 .. PipeRoom + 1 :
            llama' = [llama EXCEPT ![h] = [NoLlama EXCEPT !.state = "loading", !.length = n, !.fetched = b]]
      BY <1>12 DEF Spawn
    <3>2. llama'[h].state = "loading" /\ (llama'[h].fetched <=> b)
      BY <3>1 DEF NoLlama
    <3>3. b => Passed(h, i)
      BY <1>1 DEF Passed
    <3> QED BY <2>2, <3>2, <3>3 DEF Relies, Sound
  <2>4. \A g \in Handlers \ {h} : llama'[g] = llama[g]
    BY <1>12 DEF Spawn
  <2>5. \A g \in Handlers : Relies(g)' => Relies(g) \/ file[i] = "right"
    BY <2>3, <2>4 DEF Relies
  <2> QED BY <2>1, <2>2, <2>5, SoundKept DEF Writes, Passed, At
<1>13. ASSUME NEW h \in Handlers, Collect(h) \/ TimesOut(h) PROVE Sound(i)'
  <2>1. job[h].pc = "wait" /\ UNCHANGED <<file, opener, cause>>
    BY <1>13 DEF Collect, TimesOut, At
  <2>2. \A g \in Handlers : Relies(g)' => Relies(g)
    BY <1>13 DEF Collect, TimesOut, NoLlama, Relies
  <2> QED BY <1>1, <1>3, <1>13, <2>1, <2>2, LastGoings
<1>14. ASSUME UNCHANGED <<file, opener, job>>, i \notin cause,
              \A g \in Handlers : Relies(g)' => Relies(g) \/ file[i] = "right"
       PROVE  Sound(i)'
  BY <1>2, <1>14 DEF Sound, Writes, Passed, At
<1>15. ASSUME NEW h \in Handlers, Load(h) \/ Answer(h) PROVE Sound(i)'
  <2>1. UNCHANGED <<file, opener, job>> /\ i \notin cause
    BY <1>15 DEF Load, Answer
  <2>2. \A g \in Handlers \ {h} : llama'[g] = llama[g]
    BY <1>15 DEF Load, Answer
  <2>3. Relies(h)' => Relies(h) \/ file[i] = "right"
    <3>1. CASE Load(h)
      BY <3>1 DEF Load, Relies, LlamaTypes, RestOK, Bytes
    <3>2. CASE Answer(h)
      BY <3>2 DEF Answer, Relies, LlamaTypes
    <3> QED BY <1>15, <3>1, <3>2
  <2> QED BY <1>14, <2>1, <2>2, <2>3 DEF Relies
<1>16. CASE PeerChanges \/ GuardEnds \/ OrphanEnds \/ UNCHANGED vars
  <2>1. \A g \in Handlers : Relies(g)' => Relies(g)
    BY <1>16 DEF PeerChanges, GuardEnds, OrphanEnds, vars, NoLlama, Relies
  <2> QED BY <1>14, <1>16, <2>1 DEF PeerChanges, GuardEnds, OrphanEnds, vars
<1>17. CASE WorkerDies
  <2>1. /\ i \notin cause /\ Sound(i) /\ UNCHANGED <<file, opener, llama>>
        /\ \A h \in Handlers : ~Writes(h, i)
    BY <1>2, <1>17 DEF WorkerDies, Writes
  <2>2. \A h \in Handlers : job'[h].pc = "idle" /\ job'[h].at = 1
    BY <1>17, AllEnd
  <2> QED BY <1>1, <1>4, <2>1, <2>2 DEF Sound, Writes, Passed, At
<1>18. CASE WorkerStarts
  <2>1. UNCHANGED <<opener, job, llama>> /\ i \notin cause
    BY <1>18 DEF WorkerStarts
  <2>2. file'[i] = file[i]
    BY <1>18 DEF WorkerStarts, RestOK
  <2> QED BY <1>2, <1>4, <2>1, <2>2 DEF Sound, Writes, Passed, At
<1> QED
  BY <1>5, <1>6, <1>7, <1>8, <1>9, <1>10, <1>11, <1>12, <1>13, <1>15, <1>16, <1>17, <1>18
  DEF Next, HandlerStep

\* What llama-cli finds bad, when it loads or later under its hands, has a cause.
LEMMA SpoiledStep == FetchInv /\ [Next]_vars => SpoiledHasCause'
<1> SUFFICES ASSUME FetchInv, [Next]_vars PROVE SpoiledHasCause' OBVIOUS
<1> USE TypesOf
<1>1. SpoiledHasCause
  BY DEF FetchInv
<1>2. ASSUME cause \subseteq cause', \A h \in Handlers : llama'[h] = llama[h] \/ llama'[h] = NoLlama
      PROVE  SpoiledHasCause'
  BY <1>1, <1>2 DEF SpoiledHasCause, NoLlama
<1>3. ASSUME NEW h \in Handlers, \/ Infer(h) \/ Look(h) \/ Get(h) \/ Close(h) \/ WriteFails(h)
                                 \/ Cached(h) \/ Collect(h) \/ TimesOut(h)
      PROVE  SpoiledHasCause'
  <2>1. cause \subseteq cause'
    BY <1>3 DEF Infer, Look, Get, Close, WriteFails, Cached, Collect, TimesOut
  <2> QED BY <1>2, <1>3, <2>1 DEF Infer, Look, Get, Close, WriteFails, Cached, Collect, TimesOut
<1>4. ASSUME NEW h \in Handlers, Open(h) PROVE SpoiledHasCause'
  <2>1. job[h].at \in Splits
    BY <1>4 DEF Open, At
  <2>2. ASSUME NEW g \in Handlers, llama[g].state = "running" PROVE job[h].at \in cause'
    <3>1. job[h].at \notin cause => file[job[h].at] = "right"
      BY <2>1, <2>2 DEF FetchInv, Sound, Relies
    <3> QED BY <1>4, <3>1 DEF Open
  <2>3. cause \subseteq cause'
    BY <1>4 DEF Open
  <2>4. ASSUME NEW g \in Handlers
        PROVE  /\ llama'[g].fetched = llama[g].fetched /\ llama'[g].missing = llama[g].missing
               /\ \/ llama'[g].spoiled = llama[g].spoiled
                  \/ llama[g].state = "running" /\ llama'[g].spoiled = llama[g].spoiled \cup {job[h].at}
    BY <1>4, <2>4 DEF Open, LlamaTypes
  <2> QED BY <1>1, <2>2, <2>3, <2>4 DEF SpoiledHasCause
<1>5. ASSUME NEW h \in Handlers, Spawn(h) PROVE SpoiledHasCause'
  <2> DEFINE b == job[h].at = Total
  <2>1. PICK n \in 0 .. PipeRoom + 1 :
          llama' = [llama EXCEPT ![h] = [NoLlama EXCEPT !.state = "loading", !.length = n, !.fetched = b]]
    BY <1>5 DEF Spawn
  <2>2. llama'[h].missing = {} /\ llama'[h].spoiled = {}
    BY <2>1 DEF NoLlama
  <2>3. UNCHANGED cause /\ \A g \in Handlers \ {h} : llama'[g] = llama[g]
    BY <1>5 DEF Spawn
  <2> QED BY <1>1, <2>2, <2>3 DEF SpoiledHasCause
<1>6. ASSUME NEW h \in Handlers, Load(h) PROVE SpoiledHasCause'
  <2>1. /\ llama'[h].missing = {i \in Splits : file[i] = "absent"}
        /\ llama'[h].spoiled = {i \in Splits : file[i] \in {"torn", "wrong"}}
        /\ llama'[h].fetched = llama[h].fetched
    BY <1>6 DEF Load, LlamaTypes
  <2>2. ASSUME NEW i \in Splits, file[i] \in {"torn", "wrong"}, i \notin cause' PROVE FALSE
    <3>1. Sound(i) /\ Writers(i, h) = {}
      BY <1>6, <2>2 DEF Load, FetchInv
    <3>2. ~Writes(h, i)
      BY <1>6 DEF Load, OwnerInv, MachineOK, Writes, At
    <3>3. \A g \in Handlers : ~Writes(g, i)
      BY <3>1, <3>2 DEF Writers, Writes
    <3> QED BY <2>2, <3>1, <3>3 DEF Sound
  <2>3. ASSUME llama[h].fetched, NEW i \in Splits, file[i] = "absent" PROVE FALSE
    BY <1>6, <2>3 DEF Load, FetchInv, Sound, Relies, CauseOnDisk
  <2>4. cause \subseteq cause' /\ \A g \in Handlers \ {h} : llama'[g] = llama[g]
    BY <1>6 DEF Load
  <2> QED BY <1>1, <2>1, <2>2, <2>3, <2>4 DEF SpoiledHasCause
<1>7. ASSUME NEW h \in Handlers, Answer(h) PROVE SpoiledHasCause'
  <2>1. UNCHANGED cause /\ \A g \in Handlers \ {h} : llama'[g] = llama[g]
    BY <1>7 DEF Answer
  <2>2. /\ llama'[h].missing = llama[h].missing /\ llama'[h].spoiled = llama[h].spoiled
        /\ llama'[h].fetched = llama[h].fetched
    BY <1>7 DEF Answer, LlamaTypes
  <2> QED BY <1>1, <2>1, <2>2 DEF SpoiledHasCause
<1>8. CASE PeerChanges \/ WorkerDies \/ GuardEnds \/ OrphanEnds \/ WorkerStarts \/ UNCHANGED vars
  <2>1. cause \subseteq cause'
    BY <1>8 DEF PeerChanges, WorkerDies, GuardEnds, OrphanEnds, WorkerStarts, vars
  <2> QED BY <1>2, <1>8, <2>1 DEF PeerChanges, WorkerDies, GuardEnds, OrphanEnds, WorkerStarts, vars
<1> QED BY <1>3, <1>4, <1>5, <1>6, <1>7, <1>8 DEF Next, HandlerStep

\* FetchInv is an invariant of the worker.
THEOREM FetchInvariant == Spec => []FetchInv
<1>1. FetchInv /\ [Next]_vars => FetchInv'
  <2> SUFFICES ASSUME FetchInv, [Next]_vars PROVE FetchInv' OBVIOUS
  <2>1. TypeOK' /\ PlaceInv' /\ OwnerInv' /\ CauseOnDisk' /\ SpoiledHasCause'
    BY TypeStep, PlaceStep, OwnerStep, DiskStep, SpoiledStep
  <2>2. \A i \in Splits \ cause' : Sound(i)'
    BY SoundStep
  <2>3. Splits' = Splits
    BY DEF Splits
  <2> QED BY <2>1, <2>2, <2>3 DEF FetchInv
<1> QED BY InitFetch, <1>1, PTL DEF Spec

\* The state has its type, for every number of requests and splits.
THEOREM InferTypeCorrect == Spec => []TypeOK
<1>1. FetchInv => TypeOK
  BY DEF FetchInv
<1> QED BY FetchInvariant, <1>1, PTL

\* A bad split under llama-cli (shards.rs:33, 61) has a race, a cut write, another peer or
\* another model behind it, and one that is missing a request without remote_shards
\* (llama.rs:142-144).
THEOREM SpoiledAlwaysHasCause == Spec => []SpoiledHasCause
<1>1. FetchInv => SpoiledHasCause
  BY DEF FetchInv
<1> QED BY FetchInvariant, <1>1, PTL

\* A llama-cli runs only while its request waits for it (llama.rs:86-104), and outlives
\* its worker only where the guard has no cgroup.
THEOREM LlamaAlwaysHasHandler == Spec => []LlamaHasHandler
<1>1. FetchInv => LlamaHasHandler
  BY DEF FetchInv, OwnerInv, LlamaHasHandler
<1> QED BY FetchInvariant, <1>1, PTL
=============================================================================
