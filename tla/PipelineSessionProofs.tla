------------------------- MODULE PipelineSessionProofs -------------------------
(***************************************************************************)
(* Proofs about PipelineSession, for any number of chats, tokens and       *)
(* faults: type correctness, one handler at a time at each daemon,         *)
(* StagesInStep, OwnActivation, and that the session files implement the   *)
(* logs of SessionStore.                                                   *)
(*                                                                         *)
(* What must hold of a chat is said by Good, over the values it is said    *)
(* of: the chat x, its handler k, its files h and t at head and tail, the  *)
(* memory m and the daemon d of the stage it is at, and the set H of the   *)
(* chats that were hit.                                                    *)
(***************************************************************************)
EXTENDS PipelineSession, TLAPS

Held == Running \cup {"trying"}
Before == {"queued", "trying", "sent", "decoded"}
After == {"saved", "noted", "ok"}
AtTail(x) == x.op = "forward-activation"
Working(x) == x.pc \in {"waiting", "failed"}
Due(kv) == Store!Due(kv)

\* The files of the stage the chat is at, and of the other one.
Own(x, h, t) == IF AtTail(x) THEN t ELSE h
Other(x, h, t) == IF AtTail(x) THEN h ELSE t

\* No handler is left over when the coordinator goes on.
InHand(x, k) == /\ x.pc = "calling" => k.pc \in {"none", "ok"}
                /\ x.pc = "done" => k.pc = "ok"

\* Which input is due at each stage.
InOrder(c, x, k, h, t, H) ==
  LET n == x.sampled
      own == Due(Own(x, h, t).kv)
      other == Due(Other(x, h, t).kv) IN
  /\ x.pc # "done" => n < MaxTokens
  /\ x.pc = "done" => own = n /\ other = n
  /\ x.op = "prefill-prompt" => n = 0
  /\ x.pc # "done" => other = IF AtTail(x) THEN n + 1 ELSE n
  /\ x.pc = "calling" => own = n
  /\ Working(x) => /\ own \in {n, n + 1}
                   /\ k.pc \in After => own = n + 1
                   /\ (k.pc \in Before /\ c \notin H) => own = n

\* A chat that was not hit has every input once, and its positions agree.
Exact(c, x, k, h, t, H) ==
  c \notin H =>
    /\ h.kv = Upto(Due(h.kv)) /\ t.kv = Upto(Due(t.kv))
    /\ Other(x, h, t).meta = Due(Other(x, h, t).kv)
    /\ Own(x, h, t).meta = IF k.pc = "saved" THEN x.sampled ELSE Due(Own(x, h, t).kv)

\* What the process has in memory while the chat holds the mutex.
InMemory(c, x, k, h, t, m, H) ==
  LET f == Own(x, h, t) IN
  /\ k.pc = "decoded" =>
       /\ m.kv = Append(f.kv, x.sampled)
       /\ m.past = (IF f.meta = 0 THEN Len(f.kv) ELSE f.meta) + 1
  /\ (k.pc = "saved" /\ c \notin H) => m.past = x.sampled + 1

\* The activation is exported from the state that is saved next.
Exported(x, k, h) ==
  /\ (~AtTail(x) /\ k.pc = "decoded") => h.act = Append(h.kv, x.sampled)
  /\ (~AtTail(x) /\ Working(x) /\ k.pc \in After) => h.act = h.kv /\ ~h.torn
  /\ (AtTail(x) /\ x.pc = "calling") => x.act = h.kv /\ ~h.torn

\* A step that has begun leaves room for its line.
Unstuck(k, d) ==
  (k.pc \in {"decoded", "saved", "noted"} /\ k.attempt # Single) => d.room # 0

Good(c, x, k, h, t, m, d, H) ==
  /\ InHand(x, k)
  /\ InOrder(c, x, k, h, t, H)
  /\ Exact(c, x, k, h, t, H)
  /\ InMemory(c, x, k, h, t, m, H)
  /\ Exported(x, k, h)
  /\ Unstuck(k, d)

GoodChat(c) == Good(c, chat[c], call[c], disk["head"][c], disk["tail"][c],
                    mem[Stage(c)], daemon[Stage(c)], hurt)

\* One handler at a time has the daemon of a worker.
Mutex == \A c, d \in Chats : (Holds(c) /\ Holds(d) /\ c # d) => Stage(c) # Stage(d)

SessionInv == SessionTypeOK /\ Mutex /\ \A c \in Chats : GoodChat(c)
-----------------------------------------------------------------------------
\* The sequence 0, 1, 2, ... and the input it waits for.
LEMMA UptoGrows ==
  ASSUME NEW n \in Nat
  PROVE  Upto(n + 1) = Append(Upto(n), n) /\ Len(Upto(n)) = n
<1> QED BY DEF Upto

LEMMA DueGrows ==
  ASSUME NEW kv \in Inputs, NEW i \in 0 .. MaxTokens
  PROVE  Due(Append(kv, i)) = i + 1 /\ Due(kv) \in Nat /\ Append(kv, i) \in Inputs
<1> USE SessionAssumption
<1>1. Append(kv, i) \in Inputs /\ Append(kv, i)[Len(kv) + 1] = i /\ Len(Append(kv, i)) = Len(kv) + 1
      /\ Len(kv) \in Nat
  BY DEF Inputs
<1>2. kv # <<>> => kv[Len(kv)] \in 0 .. MaxTokens
  BY DEF Inputs
<1>3. Append(kv, i) # <<>>
  BY <1>1
<1> QED BY <1>1, <1>2, <1>3 DEF Due, Store!Due

LEMMA InitSession == Init => SessionInv
<1> SUFFICES ASSUME Init PROVE SessionInv OBVIOUS
<1> USE SessionAssumption
<1>0. <<>> \in Inputs /\ Due(<<>>) = 0 /\ Upto(0) = <<>>
  BY DEF Inputs, Due, Store!Due, Upto
<1>1. SessionTypeOK
  BY <1>0 DEF Init, SessionTypeOK, NoFiles, ChatTypes, CallTypes, DaemonTypes, MemTypes,
              FileTypes, Ops, Single
<1>2. Mutex
  BY DEF Init, Mutex, Holds, Running
<1>3. ASSUME NEW c \in Chats PROVE GoodChat(c)
  <2>1. Stage(c) = "head"
    BY DEF Init, Stage, StageOf
  <2>2. chat[c] = [pc |-> "calling", op |-> "prefill-prompt", sampled |-> 0, act |-> <<>>]
        /\ call[c] = [pc |-> "none", attempt |-> 0]
        /\ disk["head"][c] = NoFiles /\ disk["tail"][c] = NoFiles /\ hurt = {}
    BY DEF Init, Stages
  <2> QED BY <1>0, <2>2 DEF GoodChat, Good, InHand, InOrder, Exact, InMemory, Exported, Unstuck,
                Own, Other, AtTail, Working, After, Before, NoFiles
<1> QED BY <1>1, <1>2, <1>3 DEF SessionInv
-----------------------------------------------------------------------------
\* A step of chat c leaves x, k, f, m, d and H: only the chat, its handler, and
\* the files, the memory and the daemon at its stage change; the latter two only
\* in the hands of the mutex, which is given only when it is free.
Moves(c, x, k, f, m, d, H) ==
  /\ x \in ChatTypes /\ k \in CallTypes /\ f \in FileTypes
  /\ m \in MemTypes /\ d \in DaemonTypes /\ H \in {hurt, hurt \cup {c}}
  /\ chat' = [chat EXCEPT ![c] = x]
  /\ call' = [call EXCEPT ![c] = k]
  /\ disk' = [disk EXCEPT ![Stage(c)] = [disk[Stage(c)] EXCEPT ![c] = f]]
  /\ mem' = [mem EXCEPT ![Stage(c)] = m]
  /\ daemon' = [daemon EXCEPT ![Stage(c)] = d]
  /\ hurt' = H
  /\ Holds(c) \/ (m = mem[Stage(c)] /\ d = daemon[Stage(c)])
  /\ k.pc \in Held =>
       /\ x.op = chat[c].op
       /\ Holds(c) \/ \A e \in Chats : Holds(e) => Stage(e) # Stage(c)

HeadFiles(c, f) == IF Stage(c) = "head" THEN f ELSE disk["head"][c]
TailFiles(c, f) == IF Stage(c) = "tail" THEN f ELSE disk["tail"][c]

LEMMA Typed ==
  ASSUME SessionTypeOK, NEW c \in Chats
  PROVE  /\ chat[c] \in ChatTypes /\ call[c] \in CallTypes
         /\ Stage(c) \in Stages /\ Stages = {"head", "tail"}
         /\ Stage(c) = IF AtTail(chat[c]) THEN "tail" ELSE "head"
         /\ \A s \in Stages : disk[s][c] \in FileTypes
         /\ Files(c) = Own(chat[c], disk["head"][c], disk["tail"][c])
         /\ Files(c) \in FileTypes
         /\ mem[Stage(c)] \in MemTypes /\ daemon[Stage(c)] \in DaemonTypes
         /\ hurt \subseteq Chats
<1>1. Stage(c) \in Stages /\ Stage(c) = IF AtTail(chat[c]) THEN "tail" ELSE "head"
  BY DEF Stage, StageOf, Stages, AtTail
<1>2. \A s \in Stages : disk[s][c] \in FileTypes
  BY DEF SessionTypeOK
<1>3. Files(c) = Own(chat[c], disk["head"][c], disk["tail"][c])
  BY <1>1 DEF Files, Own
<1> QED BY <1>1, <1>2, <1>3 DEF SessionTypeOK, Files, Stages

\* The values after such a step, for the chat that took it and for the others.
LEMMA Moved ==
  ASSUME SessionTypeOK, NEW c \in Chats,
         NEW x, NEW k, NEW f, NEW m, NEW d, NEW H, Moves(c, x, k, f, m, d, H)
  PROVE  /\ chat'[c] = x /\ call'[c] = k
         /\ disk'["head"][c] = HeadFiles(c, f) /\ disk'["tail"][c] = TailFiles(c, f)
         /\ mem'[Stage(c)] = m /\ daemon'[Stage(c)] = d
         /\ \A s \in Stages \ {Stage(c)} :
              mem'[s] = mem[s] /\ daemon'[s] = daemon[s]
         /\ \A e \in Chats \ {c} :
              /\ chat'[e] = chat[e] /\ call'[e] = call[e] /\ (e \in H <=> e \in hurt)
              /\ disk'["head"][e] = disk["head"][e] /\ disk'["tail"][e] = disk["tail"][e]
         /\ faults' \in 0 .. MaxFaults => SessionTypeOK'
<1> USE Typed
<1>1. chat'[c] = x /\ call'[c] = k
      /\ \A e \in Chats \ {c} : chat'[e] = chat[e] /\ call'[e] = call[e] /\ (e \in H <=> e \in hurt)
  BY DEF Moves, SessionTypeOK
<1>2. /\ mem'[Stage(c)] = m /\ daemon'[Stage(c)] = d
      /\ \A s \in Stages \ {Stage(c)} : mem'[s] = mem[s] /\ daemon'[s] = daemon[s]
  BY DEF Moves, SessionTypeOK
<1>3. /\ disk'[Stage(c)] = [disk[Stage(c)] EXCEPT ![c] = f]
      /\ \A s \in Stages \ {Stage(c)} : disk'[s] = disk[s]
      /\ \A s \in Stages : disk[s] \in [Chats -> FileTypes]
  BY DEF Moves, SessionTypeOK
<1>4. /\ disk'[Stage(c)][c] = f
      /\ \A s \in Stages : \A e \in Chats : (s # Stage(c) \/ e # c) => disk'[s][e] = disk[s][e]
  BY <1>3
<1>5. disk'["head"][c] = HeadFiles(c, f) /\ disk'["tail"][c] = TailFiles(c, f)
  BY <1>4 DEF HeadFiles, TailFiles
<1>6. /\ chat' \in [Chats -> ChatTypes] /\ call' \in [Chats -> CallTypes]
      /\ mem' \in [Stages -> MemTypes] /\ daemon' \in [Stages -> DaemonTypes]
      /\ hurt' \subseteq Chats
  BY DEF Moves, SessionTypeOK
<1>7. disk' \in [Stages -> [Chats -> FileTypes]]
  <2>1. [disk[Stage(c)] EXCEPT ![c] = f] \in [Chats -> FileTypes]
    BY <1>3 DEF Moves
  <2> QED BY <2>1 DEF Moves, SessionTypeOK
<1> QED BY <1>1, <1>2, <1>4, <1>5, <1>6, <1>7 DEF SessionTypeOK, Stages

\* A handler without the mutex has no claim on the memory or the daemon.
LEMMA Unheld ==
  ASSUME NEW c, NEW x, NEW k, NEW h, NEW t, NEW m, NEW d, NEW H,
         Good(c, x, k, h, t, m, d, H), k.pc \notin Held, NEW m2, NEW d2
  PROVE  Good(c, x, k, h, t, m2, d2, H)
<1> QED BY DEF Good, InMemory, Unstuck, Held, Running

LEMMA OthersGood ==
  ASSUME SessionInv, NEW c \in Chats, NEW e \in Chats \ {c},
         NEW x, NEW k, NEW f, NEW m, NEW d, NEW H, Moves(c, x, k, f, m, d, H)
  PROVE  GoodChat(e)'
<1>1. /\ chat'[e] = chat[e] /\ call'[e] = call[e] /\ (e \in hurt' <=> e \in hurt)
      /\ disk'["head"][e] = disk["head"][e] /\ disk'["tail"][e] = disk["tail"][e]
  BY Moved DEF SessionInv, Moves
<1>2. Stage(e)' = Stage(e) /\ Stage(e) \in Stages
  BY <1>1, Typed DEF Stage, SessionInv
<1>3. Good(e, chat[e], call[e], disk["head"][e], disk["tail"][e],
           mem'[Stage(e)], daemon'[Stage(e)], hurt)
  <2>1. CASE mem'[Stage(e)] = mem[Stage(e)] /\ daemon'[Stage(e)] = daemon[Stage(e)]
    BY <2>1 DEF SessionInv, GoodChat
  <2>2. CASE ~(mem'[Stage(e)] = mem[Stage(e)] /\ daemon'[Stage(e)] = daemon[Stage(e)])
    <3>1. Stage(e) = Stage(c) /\ Holds(c)
      BY <1>2, <2>2, Moved, Typed DEF SessionInv, Moves, SessionTypeOK
    <3>2. ~Holds(e)
      BY <3>1 DEF SessionInv, Mutex
    <3> QED BY <3>2, Unheld DEF SessionInv, GoodChat, Holds, Held
  <2> QED BY <2>1, <2>2
<1> QED BY <1>1, <1>2, <1>3 DEF GoodChat, Good, InOrder, Exact, InMemory

LEMMA MutexKept ==
  ASSUME SessionInv, NEW c \in Chats,
         NEW x, NEW k, NEW f, NEW m, NEW d, NEW H, Moves(c, x, k, f, m, d, H)
  PROVE  Mutex'
<1>1. \A e \in Chats \ {c} : Holds(e)' = Holds(e) /\ Stage(e)' = Stage(e)
  BY Moved DEF SessionInv, Holds, Stage
<1>2. ASSUME NEW e \in Chats \ {c}, Holds(c)', Holds(e)' PROVE Stage(c)' # Stage(e)'
  <2>1. k.pc \in Held /\ chat'[c] = x
    BY <1>2, Moved DEF SessionInv, Holds, Held
  <2>2. Stage(c)' = Stage(c)
    BY <2>1 DEF Moves, Stage
  <2> QED BY <1>1, <1>2, <2>1, <2>2 DEF SessionInv, Moves, Mutex
<1> QED BY <1>1, <1>2 DEF Mutex, SessionInv

\* What is good for the chat that moves is good for all.
LEMMA MovesKeep ==
  ASSUME SessionInv, NEW c \in Chats,
         NEW x, NEW k, NEW f, NEW m, NEW d, NEW H, Moves(c, x, k, f, m, d, H),
         Good(c, x, k, HeadFiles(c, f), TailFiles(c, f), m, d, H),
         faults' \in 0 .. MaxFaults
  PROVE  SessionInv'
<1>1. GoodChat(c)'
  <2>0. hurt' = H
    BY DEF Moves
  <2>1. /\ chat'[c] = x /\ call'[c] = k /\ hurt' = H
        /\ disk'["head"][c] = HeadFiles(c, f) /\ disk'["tail"][c] = TailFiles(c, f)
        /\ mem'[Stage(c)] = m /\ daemon'[Stage(c)] = d
    BY <2>0, Moved DEF SessionInv
  <2>2. CASE k.pc \in Held
    <3>1. Stage(c)' = Stage(c)
      BY <2>1, <2>2 DEF Stage, Moves
    <3> QED BY <2>1, <3>1 DEF GoodChat
  <2>3. CASE k.pc \notin Held
    BY <2>1, <2>3, Unheld DEF GoodChat
  <2> QED BY <2>2, <2>3
<1> QED BY <1>1, Moved, OthersGood, MutexKept DEF SessionInv
-----------------------------------------------------------------------------
\* What each step makes of the values, one lemma for each kind of step.

\* The coordinator calls.
LEMMA GoodSubmit ==
  ASSUME NEW c, NEW x \in ChatTypes, NEW k, NEW h, NEW t, NEW m, NEW d, NEW H,
         Good(c, x, k, h, t, m, d, H), x.pc = "calling"
  PROVE  Good(c, [x EXCEPT !.pc = "waiting"], [pc |-> "queued", attempt |-> 0],
              h, t, m, d, H)
<1> DEFINE y == [x EXCEPT !.pc = "waiting"]
<1>1. y.pc = "waiting" /\ y.op = x.op /\ y.sampled = x.sampled /\ y.act = x.act
  BY DEF ChatTypes
<1>2. k.pc # "saved"
  BY DEF Good, InHand
<1> HIDE DEF y
<1> QED BY <1>1, <1>2 DEF Good, InHand, InOrder, Exact, InMemory, Exported, Unstuck, Own, Other,
              AtTail, Working, Before, After

\* The coordinator gives up a call; the handler goes on.
LEMMA GoodFails ==
  ASSUME NEW c, NEW x \in ChatTypes, NEW k, NEW h, NEW t, NEW m, NEW d, NEW H,
         Good(c, x, k, h, t, m, d, H), x.pc = "waiting"
  PROVE  Good(c, [x EXCEPT !.pc = "failed"], k, h, t, m, d, H)
<1> DEFINE y == [x EXCEPT !.pc = "failed"]
<1>1. y.pc = "failed" /\ y.op = x.op /\ y.sampled = x.sampled /\ y.act = x.act
  BY DEF ChatTypes
<1> HIDE DEF y
<1> QED BY <1>1 DEF Good, InHand, InOrder, Exact, InMemory, Exported, Unstuck, Own, Other,
              AtTail, Working, Before, After

\* The answer of the head goes to the tail with the activation.
LEMMA GoodForward ==
  ASSUME NEW c, NEW x \in ChatTypes, NEW k, NEW h, NEW t, NEW m, NEW d, NEW H,
         Good(c, x, k, h, t, m, d, H), x.pc = "waiting", k.pc = "ok", ~AtTail(x)
  PROVE  Good(c, [x EXCEPT !.pc = "calling", !.op = "forward-activation", !.act = h.act],
              k, h, t, m, d, H)
<1> DEFINE y == [x EXCEPT !.pc = "calling", !.op = "forward-activation", !.act = h.act]
<1>1. y.pc = "calling" /\ y.op = "forward-activation" /\ y.sampled = x.sampled /\ y.act = h.act
  BY DEF ChatTypes
<1> HIDE DEF y
<1> QED BY <1>1 DEF Good, InHand, InOrder, Exact, InMemory, Exported, Unstuck, Own, Other,
              AtTail, Working, Before, After

\* The answer of the tail is a token, with which the chat goes on or ends.
LEMMA GoodToken ==
  ASSUME NEW c, NEW x \in ChatTypes, NEW k, NEW h, NEW t, NEW m, NEW d, NEW H, NEW y,
         Good(c, x, k, h, t, m, d, H), x.pc = "waiting", k.pc = "ok", AtTail(x),
         y.sampled = x.sampled + 1,
         \/ y.pc = "calling" /\ y.op = "decode-token" /\ y.sampled < MaxTokens
         \/ y.pc = "done" /\ y.op = x.op
  PROVE  Good(c, y, k, h, t, m, d, H)
<1>1. x.sampled \in Nat
  BY SessionAssumption DEF ChatTypes
<1> QED BY <1>1 DEF Good, InHand, InOrder, Exact, InMemory, Exported, Unstuck, Own, Other,
              AtTail, Working, Before, After

\* A handler that takes the mutex, starts an attempt or fails has nothing on disk,
\* unless the chat was hit.
LEMMA GoodAttempt ==
  ASSUME NEW c, NEW x \in ChatTypes, NEW k, NEW h, NEW t, NEW m, NEW d, NEW H,
         Good(c, x, k, h, t, m, d, H), k.pc \notin {"none", "ok"},
         NEW j, NEW g, NEW u, NEW n, NEW e, NEW I, c \in H => c \in I,
         k.pc \in Before \/ c \in I, j.pc \in {"trying", "sent", "error"},
         g.kv = h.kv /\ g.act = h.act /\ u.kv = t.kv,
         (g.meta = h.meta /\ u.meta = t.meta) \/ c \in I
  PROVE  Good(c, x, j, g, u, n, e, I)
<1>1. Working(x)
  BY DEF Good, InHand, Working, ChatTypes
<1>3. InHand(x, j) /\ Unstuck(j, e) /\ InMemory(c, x, j, g, u, n, I) /\ Exported(x, j, g)
  BY <1>1 DEF InHand, Unstuck, InMemory, Exported, Working, After
<1>4. InOrder(c, x, j, g, u, I)
  BY <1>1 DEF Good, InOrder, Own, Other, Working, Before, After
<1>5. Exact(c, x, j, g, u, I)
  BY <1>1 DEF Good, Exact, Own, Other, Before
<1> QED BY <1>3, <1>4, <1>5 DEF Good

\* The input is decoded; the head has exported its activation.
LEMMA GoodDecode ==
  ASSUME NEW c, NEW x \in ChatTypes, NEW k, NEW h, NEW t, NEW m, NEW d, NEW H,
         Good(c, x, k, h, t, m, d, H), k.pc = "sent",
         NEW j, NEW g, NEW u, NEW n,
         j.pc = "decoded", j.attempt # Single => d.room # 0,
         g.kv = h.kv /\ g.meta = h.meta,
         u.kv = t.kv /\ u.meta = t.meta,
         AtTail(x) \/ g.act = Append(h.kv, x.sampled),
         n.kv = Append(Own(x, h, t).kv, x.sampled),
         n.past = (IF Own(x, h, t).meta = 0 THEN Len(Own(x, h, t).kv)
                                            ELSE Own(x, h, t).meta) + 1
  PROVE  Good(c, x, j, g, u, n, d, H)
<1>1. Working(x)
  BY DEF Good, InHand, Working, ChatTypes
<1>2. Own(x, g, u).kv = Own(x, h, t).kv /\ Own(x, g, u).meta = Own(x, h, t).meta
      /\ Other(x, g, u).kv = Other(x, h, t).kv /\ Other(x, g, u).meta = Other(x, h, t).meta
  BY DEF Own, Other
<1>3. InHand(x, j) /\ Unstuck(j, d) /\ Exported(x, j, g)
  BY <1>1 DEF InHand, Unstuck, Exported, Working, After
<1>4. InMemory(c, x, j, g, u, n, H)
  BY <1>2 DEF InMemory
<1>5. InOrder(c, x, j, g, u, H)
  BY <1>1, <1>2 DEF Good, InOrder, Working, Before, After
<1>6. Exact(c, x, j, g, u, H)
  BY <1>2 DEF Good, Exact
<1> QED BY <1>3, <1>4, <1>5, <1>6 DEF Good

\* What is saved has the input that was due, or the last one again.
Owed(c, x, f, m, H) ==
  /\ m.kv = Append(f.kv, x.sampled)
  /\ \/ x.sampled = Due(f.kv)
     \/ c \in H /\ x.sampled + 1 = Due(f.kv)

LEMMA DueAtSave ==
  ASSUME NEW c, NEW x \in ChatTypes, NEW k, NEW h, NEW t, NEW m, NEW d, NEW H,
         Good(c, x, k, h, t, m, d, H), k.pc = "decoded"
  PROVE  Owed(c, x, Own(x, h, t), m, H)
<1>1. Working(x)
  BY DEF Good, InHand, Working, ChatTypes
<1> QED BY <1>1 DEF Good, InMemory, InOrder, Before, Owed

\* The state is saved.
LEMMA GoodSave ==
  ASSUME NEW c, NEW x \in ChatTypes, NEW k, NEW h \in FileTypes, NEW t \in FileTypes,
         NEW m, NEW d, NEW H,
         Good(c, x, k, h, t, m, d, H), k.pc = "decoded",
         NEW j, NEW g, NEW u,
         j.pc = "saved" /\ j.attempt = k.attempt,
         Other(x, g, u) = Other(x, h, t),
         LET f == Own(x, g, u) IN
           f.kv = m.kv /\ ~f.torn /\ f.meta = Own(x, h, t).meta /\ f.act = Own(x, h, t).act
  PROVE  Good(c, x, j, g, u, m, d, H)
<1> DEFINE n == x.sampled
           f == Own(x, g, u)
           o == Own(x, h, t)
<1>1. Working(x)
  BY DEF Good, InHand, Working, ChatTypes
<1>2. /\ Other(x, g, u) = Other(x, h, t)
      /\ ~AtTail(x) => g = f /\ u = t /\ o = h
      /\ AtTail(x) => g = h /\ u = f
  BY DEF Own, Other
<1>3. n \in 0 .. MaxTokens /\ n \in Nat /\ o.kv \in Inputs /\ o.meta \in Nat
  BY SessionAssumption DEF ChatTypes, FileTypes, Own
<1>4. f.kv = Append(o.kv, n) /\ Due(f.kv) = n + 1
  BY <1>3, DueGrows DEF Good, InMemory
<1>5. Due(o.kv) \in {n, n + 1} /\ (c \notin H => Due(o.kv) = n)
  BY <1>1 DEF Good, InOrder, Before
<1>6. c \notin H => o.kv = Upto(n) /\ o.meta = n
  BY <1>1, <1>5 DEF Good, Exact, Own, Other
<1>7. c \notin H => f.kv = Upto(Due(f.kv)) /\ f.meta = n /\ m.past = n + 1
  BY <1>3, <1>4, <1>6, UptoGrows DEF Good, InMemory
<1>8. InHand(x, j) /\ Unstuck(j, d)
  BY <1>1 DEF Good, InHand, Unstuck, Working
<1>9. Exported(x, j, g)
  BY <1>1, <1>2, <1>4 DEF Good, Exported, Working, After
<1>10. InMemory(c, x, j, g, u, m, H)
  BY <1>7 DEF InMemory
<1>11. InOrder(c, x, j, g, u, H)
  BY <1>1, <1>2, <1>4 DEF Good, InOrder, Working, After, Before
<1>12. Exact(c, x, j, g, u, H)
  <2>1. c \notin H => /\ Other(x, h, t).kv = Upto(Due(Other(x, h, t).kv))
                      /\ Other(x, h, t).meta = Due(Other(x, h, t).kv)
    BY DEF Good, Exact, Other
  <2>2. c \notin H => g.kv = Upto(Due(g.kv)) /\ u.kv = Upto(Due(u.kv))
    BY <1>2, <1>7, <2>1 DEF Own, Other
  <2> QED BY <1>2, <1>7, <2>1, <2>2 DEF Exact
<1> QED BY <1>8, <1>9, <1>10, <1>11, <1>12 DEF Good

\* The position is written, or the chat is hit.
LEMMA GoodNote ==
  ASSUME NEW c, NEW x \in ChatTypes, NEW k, NEW h, NEW t, NEW m, NEW d, NEW H,
         Good(c, x, k, h, t, m, d, H), k.pc = "saved",
         NEW j, NEW f, NEW I, c \in H => c \in I,
         j.pc = "noted" /\ j.attempt = k.attempt,
         LET o == Own(x, h, t) IN f.kv = o.kv /\ f.torn = o.torn /\ f.act = o.act,
         f.meta = m.past \/ c \in I
  PROVE  Good(c, x, j, IF AtTail(x) THEN h ELSE f, IF AtTail(x) THEN f ELSE t, m, d, I)
<1> DEFINE g == IF AtTail(x) THEN h ELSE f
           u == IF AtTail(x) THEN f ELSE t
           o == Own(x, h, t)
<1>1. Working(x)
  BY DEF Good, InHand, Working, ChatTypes
<1>2. /\ Own(x, g, u) = f /\ Other(x, g, u) = Other(x, h, t)
      /\ g.kv = h.kv /\ u.kv = t.kv /\ (~AtTail(x) => g.torn = h.torn /\ g.act = h.act)
  BY DEF Own, Other
<1>3. Due(f.kv) = x.sampled + 1
  BY <1>1 DEF Good, InOrder, After
<1> HIDE DEF g, u
<1>4. InHand(x, j) /\ Unstuck(j, d) /\ InMemory(c, x, j, g, u, m, I)
  BY <1>1 DEF Good, InHand, Unstuck, InMemory, Working
<1>5. Exported(x, j, g)
  BY <1>1, <1>2 DEF Good, Exported, Working, After
<1>6. InOrder(c, x, j, g, u, I)
  BY <1>1, <1>2, <1>3 DEF Good, InOrder, Working, After, Before
<1>7. Exact(c, x, j, g, u, I)
  BY <1>2, <1>3 DEF Good, Exact, InMemory
<1>8. Good(c, x, j, g, u, m, d, I)
  BY <1>4, <1>5, <1>6, <1>7 DEF Good
<1> QED BY <1>8 DEF g, u

\* The answer is sent.
LEMMA GoodReply ==
  ASSUME NEW c, NEW x \in ChatTypes, NEW k, NEW h, NEW t, NEW m, NEW d, NEW H,
         Good(c, x, k, h, t, m, d, H), k.pc = "noted", NEW j, j.pc = "ok", NEW e
  PROVE  Good(c, x, j, h, t, m, e, H)
<1>1. Working(x)
  BY DEF Good, InHand, Working, ChatTypes
<1> QED BY <1>1 DEF Good, InHand, InOrder, Exact, InMemory, Exported, Unstuck, Own, Other,
              AtTail, Working, Before, After
-----------------------------------------------------------------------------
\* What SessionStore sees of the state.
Log == [s \in Stages |-> [c \in Chats |-> disk[s][c].kv]]
bar == <<Log, hurt>>

LEMMA LogMoves ==
  ASSUME SessionTypeOK, NEW c \in Chats,
         NEW x, NEW k, NEW f, NEW m, NEW d, NEW H, Moves(c, x, k, f, m, d, H)
  PROVE  Log' = [Log EXCEPT ![Stage(c)] = [Log[Stage(c)] EXCEPT ![c] = f.kv]]
<1>1. /\ Stage(c) \in Stages
      /\ disk' = [disk EXCEPT ![Stage(c)] = [disk[Stage(c)] EXCEPT ![c] = f]]
      /\ disk \in [Stages -> [Chats -> FileTypes]]
  BY Typed DEF Moves, SessionTypeOK
<1>2. \A s \in Stages, e \in Chats :
         disk'[s][e] = IF s = Stage(c) /\ e = c THEN f ELSE disk[s][e]
  BY <1>1
<1>3. Log' = [s \in Stages |-> [e \in Chats |->
                IF s = Stage(c) /\ e = c THEN f.kv ELSE disk[s][e].kv]]
  <2>1. \A s \in Stages, e \in Chats :
          disk'[s][e].kv = IF s = Stage(c) /\ e = c THEN f.kv ELSE disk[s][e].kv
    BY <1>2
  <2> QED BY <2>1 DEF Log
<1>4. \A s \in Stages : Log[s] = [e \in Chats |-> disk[s][e].kv]
  BY DEF Log
<1>5. [Log EXCEPT ![Stage(c)] = [Log[Stage(c)] EXCEPT ![c] = f.kv]]
        = [s \in Stages |-> IF s = Stage(c)
                              THEN [e \in Chats |-> IF e = c THEN f.kv ELSE disk[s][e].kv]
                              ELSE [e \in Chats |-> disk[s][e].kv]]
  BY <1>1, <1>4 DEF Log
<1>6. \A s \in Stages :
        [e \in Chats |-> IF s = Stage(c) /\ e = c THEN f.kv ELSE disk[s][e].kv]
          = IF s = Stage(c) THEN [e \in Chats |-> IF e = c THEN f.kv ELSE disk[s][e].kv]
                            ELSE [e \in Chats |-> disk[s][e].kv]
  OBVIOUS
<1> QED BY <1>3, <1>5, <1>6

LEMMA LogGrows ==
  ASSUME NEW s \in Stages, NEW c \in Chats, NEW i,
         Log' = [Log EXCEPT ![s] = [Log[s] EXCEPT ![c] = Append(Log[s][c], i)]],
         hurt' = hurt,
         \/ i = Due(Log[s][c])
         \/ c \in hurt /\ Log[s][c] # <<>> /\ i = Log[s][c][Len(Log[s][c])]
  PROVE  [Store!Next]_bar
<1>1. Store!Once(s, c) \/ Store!Again(s, c)
  BY DEF Store!Once, Store!Again, Store!Grow, Due, Log
<1> QED BY <1>1 DEF Store!Next, bar

\* The files' state stays, or grows as the store allows.
Grows(c, f, H) ==
  \/ f.kv = Files(c).kv
  \/ /\ H = hurt
     /\ f.kv = Append(Files(c).kv, chat[c].sampled)
     /\ \/ chat[c].sampled = Due(Files(c).kv)
        \/ c \in hurt /\ chat[c].sampled + 1 = Due(Files(c).kv)

LEMMA StoreStep ==
  ASSUME SessionTypeOK, NEW c \in Chats,
         NEW x, NEW k, NEW f, NEW m, NEW d, NEW H, Moves(c, x, k, f, m, d, H),
         Grows(c, f, H)
  PROVE  [Store!Next]_bar
<1>0. hurt' = H /\ H \in {hurt, hurt \cup {c}}
  BY DEF Moves
<1>1. PICK s \in Stages : s = Stage(c)
  BY Typed
<1>2. PICK i \in Nat : i = chat[c].sampled
  BY Typed, SessionAssumption DEF ChatTypes
<1>3. Log' = [Log EXCEPT ![s] = [Log[s] EXCEPT ![c] = f.kv]]
  BY <1>1, LogMoves
<1>4. Log[s][c] = Files(c).kv /\ Files(c).kv \in Inputs
  BY <1>1, Typed DEF Log, Files, FileTypes
<1>5. CASE f.kv = Files(c).kv
  <2>1. Log = [Log EXCEPT ![s] = [Log[s] EXCEPT ![c] = Log[s][c]]]
    <3>1. Log[s] = [Log[s] EXCEPT ![c] = Log[s][c]]
      BY DEF Log
    <3>2. Log = [Log EXCEPT ![s] = Log[s]]
      BY DEF Log
    <3> QED BY <3>1, <3>2
  <2>2. Log' = Log
    BY <1>3, <1>4, <1>5, <2>1
  <2>3. bar' = bar \/ Store!Suspect(c)
    BY <1>0, <2>2 DEF Store!Suspect, Log, bar
  <2> QED BY <2>3 DEF Store!Next
<1>6. CASE f.kv = Append(Files(c).kv, chat[c].sampled) /\ H = hurt
           /\ chat[c].sampled = Due(Files(c).kv)
  BY <1>0, <1>2, <1>3, <1>4, <1>6, LogGrows
<1>7. CASE f.kv = Append(Files(c).kv, chat[c].sampled) /\ H = hurt
           /\ c \in hurt /\ chat[c].sampled + 1 = Due(Files(c).kv)
  <2>1. Log[s][c] # <<>> /\ Log[s][c][Len(Log[s][c])] + 1 = i + 1
    BY <1>2, <1>4, <1>7 DEF Due, Store!Due
  <2>2. Log[s][c][Len(Log[s][c])] = i
    BY <1>4, <2>1, SessionAssumption DEF Inputs
  <2> QED BY <1>0, <1>2, <1>3, <1>4, <1>7, <2>1, <2>2, LogGrows
<1> QED BY <1>5, <1>6, <1>7 DEF Grows

\* What a step has to show.
Kept == SessionInv' /\ [Store!Next]_bar

LEMMA MovesWell ==
  ASSUME SessionInv, NEW c \in Chats,
         NEW x, NEW k, NEW f, NEW m, NEW d, NEW H, Moves(c, x, k, f, m, d, H),
         Good(c, x, k, HeadFiles(c, f), TailFiles(c, f), m, d, H), Grows(c, f, H),
         UNCHANGED faults \/ Fault
  PROVE  Kept
<1>1. faults' \in 0 .. MaxFaults
  BY SessionAssumption DEF SessionInv, SessionTypeOK, Fault
<1>2. SessionInv'
  BY <1>1, MovesKeep
<1> QED BY <1>2, StoreStep DEF Kept, SessionInv

\* A step that leaves a variable alone, in the terms of Moves.
LEMMA Still ==
  ASSUME SessionTypeOK, NEW c \in Chats
  PROVE  /\ chat = [chat EXCEPT ![c] = chat[c]] /\ call = [call EXCEPT ![c] = call[c]]
         /\ disk = [disk EXCEPT ![Stage(c)] = [disk[Stage(c)] EXCEPT ![c] = Files(c)]]
         /\ mem = [mem EXCEPT ![Stage(c)] = mem[Stage(c)]]
         /\ daemon = [daemon EXCEPT ![Stage(c)] = daemon[Stage(c)]]
         /\ HeadFiles(c, Files(c)) = disk["head"][c]
         /\ TailFiles(c, Files(c)) = disk["tail"][c]
<1>1. /\ chat = [chat EXCEPT ![c] = chat[c]] /\ call = [call EXCEPT ![c] = call[c]]
      /\ mem = [mem EXCEPT ![Stage(c)] = mem[Stage(c)]]
      /\ daemon = [daemon EXCEPT ![Stage(c)] = daemon[Stage(c)]]
  BY Typed DEF SessionTypeOK
<1>2. disk[Stage(c)] = [disk[Stage(c)] EXCEPT ![c] = disk[Stage(c)][c]]
  BY Typed DEF SessionTypeOK
<1>3. disk = [disk EXCEPT ![Stage(c)] = disk[Stage(c)]]
  BY Typed DEF SessionTypeOK
<1> QED BY <1>1, <1>2, <1>3 DEF Files, HeadFiles, TailFiles

LEMMA Replaced ==
  ASSUME SessionTypeOK, NEW c \in Chats, NEW f
  PROVE  /\ HeadFiles(c, f) = IF AtTail(chat[c]) THEN disk["head"][c] ELSE f
         /\ TailFiles(c, f) = IF AtTail(chat[c]) THEN f ELSE disk["tail"][c]
<1> QED BY Typed DEF HeadFiles, TailFiles
-----------------------------------------------------------------------------
\* The steps of the coordinator.

LEMMA SubmitKeeps ==
  ASSUME SessionInv, NEW c \in Chats, Submit(c)
  PROVE  Kept
<1> DEFINE x == [chat[c] EXCEPT !.pc = "waiting"]
           k == [pc |-> "queued", attempt |-> 0]
<1>1. x \in ChatTypes /\ k \in CallTypes
  BY Typed DEF SessionInv, ChatTypes, CallTypes, Single
<1>2. Moves(c, x, k, Files(c), mem[Stage(c)], daemon[Stage(c)], hurt)
  BY <1>1, Typed, Still DEF SessionInv, Submit, Moves, Held, Running
<1>3. Good(c, x, k, disk["head"][c], disk["tail"][c], mem[Stage(c)], daemon[Stage(c)], hurt)
  BY Typed, GoodSubmit DEF SessionInv, GoodChat, Submit
<1> HIDE DEF x, k
<1> QED BY <1>2, <1>3, Still, MovesWell DEF SessionInv, Submit, Grows

LEMMA FailsKeeps ==
  ASSUME SessionInv, NEW c \in Chats, Fails(c)
  PROVE  Kept
<1> DEFINE x == [chat[c] EXCEPT !.pc = "failed"]
<1>1. x \in ChatTypes /\ x.op = chat[c].op
  BY Typed DEF SessionInv, ChatTypes
<1>2. call[c].pc \in Held => Holds(c)
  BY DEF Holds, Held
<1>3. Moves(c, x, call[c], Files(c), mem[Stage(c)], daemon[Stage(c)], hurt)
  BY <1>1, <1>2, Typed, Still DEF SessionInv, Fails, Moves
<1>4. Good(c, x, call[c], disk["head"][c], disk["tail"][c], mem[Stage(c)], daemon[Stage(c)], hurt)
  BY Typed, GoodFails DEF SessionInv, GoodChat, Fails
<1> HIDE DEF x
<1> QED BY <1>3, <1>4, Still, MovesWell DEF SessionInv, Fails, Grows

LEMMA DeliverKeeps ==
  ASSUME SessionInv, NEW c \in Chats, Deliver(c)
  PROVE  Kept
<1>1. ASSUME NEW x \in ChatTypes, chat' = [chat EXCEPT ![c] = x],
             Good(c, x, call[c], disk["head"][c], disk["tail"][c],
                  mem[Stage(c)], daemon[Stage(c)], hurt)
      PROVE  Kept
  <2>1. Moves(c, x, call[c], Files(c), mem[Stage(c)], daemon[Stage(c)], hurt)
    BY <1>1, Typed, Still DEF SessionInv, Deliver, Moves, Held, Running
  <2> QED BY <1>1, <2>1, Still, MovesWell DEF SessionInv, Deliver, Grows
<1>2. /\ chat[c] \in ChatTypes /\ chat[c].pc = "waiting" /\ call[c].pc = "ok"
      /\ Good(c, chat[c], call[c], disk["head"][c], disk["tail"][c],
              mem[Stage(c)], daemon[Stage(c)], hurt)
      /\ chat[c].sampled \in Nat /\ chat[c].sampled < MaxTokens
  BY Typed, SessionAssumption DEF SessionInv, GoodChat, Good, InOrder, Deliver, ChatTypes
<1>3. CASE Stage(c) = "head" /\ chat' = [chat EXCEPT ![c].pc = "calling",
                                ![c].op = "forward-activation",
                                ![c].act = disk["head"][c].act]
  <2> DEFINE x == [chat[c] EXCEPT !.pc = "calling", !.op = "forward-activation",
                                  !.act = disk["head"][c].act]
  <2>1. ~AtTail(chat[c]) /\ disk["head"][c].act \in Inputs
    BY <1>3, Typed DEF SessionInv, FileTypes
  <2>2. x \in ChatTypes
    BY <1>2, <2>1 DEF ChatTypes, Ops
  <2>3. chat' = [chat EXCEPT ![c] = x]
    BY <1>3
  <2>4. Good(c, x, call[c], disk["head"][c], disk["tail"][c],
             mem[Stage(c)], daemon[Stage(c)], hurt)
    BY <1>2, <2>1, GoodForward
  <2> HIDE DEF x
  <2> QED BY <1>1, <2>2, <2>3, <2>4
<1>4. CASE /\ Stage(c) = "tail" /\ chat[c].sampled + 1 < MaxTokens
           /\ chat' = [chat EXCEPT ![c].pc = "calling", ![c].op = "decode-token",
                                   ![c].sampled = chat[c].sampled + 1]
  <2> DEFINE x == [chat[c] EXCEPT !.pc = "calling", !.op = "decode-token",
                                  !.sampled = chat[c].sampled + 1]
  <2>1. /\ AtTail(chat[c]) /\ x.pc = "calling" /\ x.op = "decode-token"
        /\ x.sampled = chat[c].sampled + 1
    BY <1>2, <1>4, Typed DEF SessionInv, ChatTypes
  <2>2. x \in ChatTypes
    <3>1. chat[c].sampled + 1 \in 0 .. MaxTokens
      BY <1>2, SessionAssumption
    <3> QED BY <1>2, <3>1 DEF ChatTypes, Ops
  <2>3. chat' = [chat EXCEPT ![c] = x]
    BY <1>4
  <2> HIDE DEF x
  <2>4. Good(c, x, call[c], disk["head"][c], disk["tail"][c],
             mem[Stage(c)], daemon[Stage(c)], hurt)
    BY <1>2, <1>4, <2>1, GoodToken
  <2> QED BY <1>1, <2>2, <2>3, <2>4
<1>5. CASE /\ Stage(c) = "tail"
           /\ chat' = [chat EXCEPT ![c].pc = "done", ![c].sampled = chat[c].sampled + 1]
  <2> DEFINE x == [chat[c] EXCEPT !.pc = "done", !.sampled = chat[c].sampled + 1]
  <2>1. /\ AtTail(chat[c]) /\ x.pc = "done" /\ x.op = chat[c].op
        /\ x.sampled = chat[c].sampled + 1
    BY <1>2, <1>5, Typed DEF SessionInv, ChatTypes
  <2>2. x \in ChatTypes
    <3>1. chat[c].sampled + 1 \in 0 .. MaxTokens
      BY <1>2, SessionAssumption
    <3> QED BY <1>2, <3>1 DEF ChatTypes
  <2>3. chat' = [chat EXCEPT ![c] = x]
    BY <1>5
  <2> HIDE DEF x
  <2>4. Good(c, x, call[c], disk["head"][c], disk["tail"][c],
             mem[Stage(c)], daemon[Stage(c)], hurt)
    BY <1>2, <2>1, GoodToken
  <2> QED BY <1>1, <2>2, <2>3, <2>4
<1> QED BY <1>3, <1>4, <1>5 DEF Deliver
-----------------------------------------------------------------------------
\* The steps of a handler and of the process.

\* What is known of a chat whose handler moves.
LEMMA Handling ==
  ASSUME SessionInv, NEW c \in Chats
  PROVE  /\ Good(c, chat[c], call[c], disk["head"][c], disk["tail"][c],
                 mem[Stage(c)], daemon[Stage(c)], hurt)
         /\ chat[c] \in ChatTypes /\ call[c] \in CallTypes /\ Files(c) \in FileTypes
         /\ disk["head"][c] \in FileTypes /\ disk["tail"][c] \in FileTypes
         /\ mem[Stage(c)] \in MemTypes /\ daemon[Stage(c)] \in DaemonTypes
         /\ Files(c) = Own(chat[c], disk["head"][c], disk["tail"][c])
         /\ call[c].pc \in Held <=> Holds(c)
<1> QED BY Typed DEF SessionInv, GoodChat, Holds, Held, Stages

LEMMA AttemptGood ==
  ASSUME SessionInv, NEW c \in Chats, NEW k, NEW f, NEW m, NEW d,
         NEW H, c \in hurt => c \in H,
         call[c].pc \notin {"none", "ok"}, call[c].pc \in Before \/ c \in H,
         k.pc \in {"trying", "sent", "error"},
         f.kv = Files(c).kv /\ f.act = Files(c).act, f.meta = Files(c).meta \/ c \in H
  PROVE  Good(c, chat[c], k, HeadFiles(c, f), TailFiles(c, f), m, d, H)
<1> DEFINE g == HeadFiles(c, f)
           u == TailFiles(c, f)
<1>1. /\ g.kv = disk["head"][c].kv /\ g.act = disk["head"][c].act /\ u.kv = disk["tail"][c].kv
      /\ (g.meta = disk["head"][c].meta /\ u.meta = disk["tail"][c].meta) \/ c \in H
  BY Replaced, Handling DEF SessionInv, Own
<1> HIDE DEF g, u
<1>3. Good(c, chat[c], k, g, u, m, d, H)
  BY <1>1, Handling, GoodAttempt
<1> QED BY <1>3 DEF g, u

\* A handler that changes neither the state nor, but for a chat that is hit, the position
\* on disk.
LEMMA AttemptKeeps ==
  ASSUME SessionInv, NEW c \in Chats,
         NEW k \in CallTypes, NEW f, NEW m \in MemTypes, NEW d \in DaemonTypes,
         NEW H \in {hurt, hurt \cup {c}},
         call[c].pc \notin {"none", "ok"}, call[c].pc \in Before \/ c \in H,
         k.pc \in {"trying", "sent", "error"},
         \/ f \in {Files(c), [Files(c) EXCEPT !.torn = TRUE]}
         \/ c \in H /\ f = [Files(c) EXCEPT !.meta = 0],
         UNCHANGED chat, call' = [call EXCEPT ![c] = k],
         disk' = [disk EXCEPT ![Stage(c)] = [disk[Stage(c)] EXCEPT ![c] = f]],
         mem' = [mem EXCEPT ![Stage(c)] = m],
         daemon' = [daemon EXCEPT ![Stage(c)] = d],
         hurt' = H, UNCHANGED faults \/ Fault,
         \/ Holds(c)
         \/ /\ m = mem[Stage(c)] /\ d = daemon[Stage(c)]
            /\ \A e \in Chats : Holds(e) => Stage(e) # Stage(c)
  PROVE  Kept
<1>1. /\ f \in FileTypes /\ f.kv = Files(c).kv /\ f.act = Files(c).act
      /\ f.meta = Files(c).meta \/ c \in H
  <2>1. Files(c) \in FileTypes /\ 0 \in Nat
    BY Handling
  <2>2. CASE f \in {Files(c), [Files(c) EXCEPT !.torn = TRUE]}
    BY <2>1, <2>2 DEF FileTypes
  <2>3. CASE c \in H /\ f = [Files(c) EXCEPT !.meta = 0]
    BY <2>1, <2>3 DEF FileTypes
  <2> QED BY <2>2, <2>3
<1>2. Moves(c, chat[c], k, f, m, d, H)
  BY <1>1, Handling, Still DEF SessionInv, Moves
<1>3. Good(c, chat[c], k, HeadFiles(c, f), TailFiles(c, f), m, d, H)
  <2>1. c \in hurt => c \in H
    OBVIOUS
  <2> QED BY <1>1, <2>1, AttemptGood
<1> QED BY <1>1, <1>2, <1>3, MovesWell DEF Grows

LEMMA TakeKeeps ==
  ASSUME SessionInv, NEW c \in Chats, Take(c)
  PROVE  Kept
<1> DEFINE k1 == [pc |-> "trying", attempt |-> IF DaemonEnabled THEN 0 ELSE Single]
           k2 == [call[c] EXCEPT !.pc = "error"]
<1>1. ASSUME NEW k \in CallTypes, call' = [call EXCEPT ![c] = k], k.pc \in {"trying", "error"},
             UNCHANGED faults \/ Fault
      PROVE  Kept
  <2>1. call[c].pc \notin {"none", "ok"} /\ call[c].pc \in Before
    BY DEF Take, Before
  <2>2. \A e \in Chats : Holds(e) => Stage(e) # Stage(c)
    BY DEF Take
  <2>3. disk' = [disk EXCEPT ![Stage(c)] = [disk[Stage(c)] EXCEPT ![c] = Files(c)]]
        /\ mem' = [mem EXCEPT ![Stage(c)] = mem[Stage(c)]]
        /\ daemon' = [daemon EXCEPT ![Stage(c)] = daemon[Stage(c)]]
        /\ UNCHANGED <<chat, hurt>>
    BY Still DEF Take, SessionInv
  <2> QED BY <1>1, <2>1, <2>2, <2>3, Handling, AttemptKeeps
<1>2. k1 \in CallTypes /\ k1.pc = "trying"
  BY DEF CallTypes, Single
<1>3. k2 \in CallTypes /\ k2.pc = "error"
  BY Handling DEF CallTypes
<1>4. \/ call' = [call EXCEPT ![c] = k1] /\ UNCHANGED faults
      \/ call' = [call EXCEPT ![c] = k2] /\ Fault
  BY DEF Take, Now
<1> HIDE DEF k1, k2
<1> QED BY <1>1, <1>2, <1>3, <1>4

LEMMA LaunchKeeps ==
  ASSUME SessionInv, NEW c \in Chats, Launch(c)
  PROVE  Kept
<1> DEFINE fresh == [kv |-> <<>>, past |-> 0]
           born == [up |-> TRUE, room |-> LogRoom]
           k1 == [call[c] EXCEPT !.pc = "sent"]
           k2 == [call[c] EXCEPT !.attempt = Single]
<1>1. ASSUME NEW k \in CallTypes, NEW m \in MemTypes, NEW d \in DaemonTypes,
             call' = [call EXCEPT ![c] = k], k.pc \in {"trying", "sent"},
             mem' = [mem EXCEPT ![Stage(c)] = m], daemon' = [daemon EXCEPT ![Stage(c)] = d],
             UNCHANGED faults \/ Fault
      PROVE  Kept
  <2>1. call[c].pc \notin {"none", "ok"} /\ call[c].pc \in Before /\ Holds(c)
    BY DEF Launch, Before, Holds
  <2>2. disk' = [disk EXCEPT ![Stage(c)] = [disk[Stage(c)] EXCEPT ![c] = Files(c)]]
        /\ UNCHANGED <<chat, hurt>>
    BY Still DEF Launch, SessionInv
  <2> QED BY <1>1, <2>1, <2>2, AttemptKeeps
<1>2. fresh \in MemTypes /\ born \in DaemonTypes
  BY SessionAssumption DEF MemTypes, DaemonTypes, Inputs
<1>3. k1 \in CallTypes /\ k1.pc = "sent"
  BY Handling DEF CallTypes, Running
<1>4. k2 \in CallTypes /\ k2.pc = "trying"
  BY Handling DEF CallTypes, Launch, Single
<1>5. /\ mem = [mem EXCEPT ![Stage(c)] = mem[Stage(c)]] /\ mem[Stage(c)] \in MemTypes
      /\ daemon = [daemon EXCEPT ![Stage(c)] = daemon[Stage(c)]]
      /\ daemon[Stage(c)] \in DaemonTypes
  BY Still, Handling DEF SessionInv
<1>6. \/ /\ call' = [call EXCEPT ![c] = k1] /\ UNCHANGED <<daemon, mem, faults>>
      \/ /\ call' = [call EXCEPT ![c] = k1] /\ UNCHANGED faults
         /\ mem' = [mem EXCEPT ![Stage(c)] = fresh]
         /\ daemon' = [daemon EXCEPT ![Stage(c)] = born]
      \/ /\ call' = [call EXCEPT ![c] = k2] /\ Fault /\ UNCHANGED <<daemon, mem>>
      \/ /\ call' = [call EXCEPT ![c] = k1] /\ UNCHANGED <<daemon, faults>>
         /\ mem' = [mem EXCEPT ![Stage(c)] = fresh]
  BY DEF Launch, Now, FreshMem
<1> HIDE DEF fresh, born, k1, k2
<1> QED BY <1>1, <1>2, <1>3, <1>4, <1>5, <1>6

\* An attempt that failed, whatever it left behind.
LEMMA AgainKeeps ==
  ASSUME SessionInv, NEW c \in Chats, TryAgain(c), call[c].pc \in Running,
         UNCHANGED <<chat, mem>>, UNCHANGED faults \/ Fault,
         hurt' \in {hurt, hurt \cup {c}}, call[c].pc \in Before \/ c \in hurt',
         UNCHANGED disk \/ TornFile(c) \/ (c \in hurt' /\ CutMeta(c))
  PROVE  Kept
<1> DEFINE k == IF ViaDaemon(c) THEN [pc |-> "trying", attempt |-> call[c].attempt + 1]
                                ELSE [pc |-> "error", attempt |-> Single]
           d == IF ViaDaemon(c) THEN [daemon[Stage(c)] EXCEPT !.up = FALSE]
                                ELSE daemon[Stage(c)]
<1>1. k \in CallTypes /\ k.pc \in {"trying", "error"}
  BY Handling DEF CallTypes, ViaDaemon, Single
<1>2. d \in DaemonTypes
  BY Handling DEF DaemonTypes
<1>3. call' = [call EXCEPT ![c] = k]
  BY DEF TryAgain
<1>4. daemon' = [daemon EXCEPT ![Stage(c)] = d]
  BY Still DEF TryAgain, SessionInv
<1>5. call[c].pc \notin {"none", "ok"} /\ Holds(c)
  BY DEF Running, Holds
<1>6. mem' = [mem EXCEPT ![Stage(c)] = mem[Stage(c)]] /\ mem[Stage(c)] \in MemTypes
  BY Still, Handling DEF SessionInv
<1>7. \E f : /\ \/ f \in {Files(c), [Files(c) EXCEPT !.torn = TRUE]}
                \/ c \in hurt' /\ f = [Files(c) EXCEPT !.meta = 0]
             /\ disk' = [disk EXCEPT ![Stage(c)] = [disk[Stage(c)] EXCEPT ![c] = f]]
  BY Still DEF TornFile, CutMeta, Write, SessionInv
<1> HIDE DEF k, d
<1> QED BY <1>1, <1>2, <1>3, <1>4, <1>5, <1>6, <1>7, AttemptKeeps

LEMMA StepFailsKeeps ==
  ASSUME SessionInv, NEW c \in Chats, StepFails(c)
  PROVE  Kept
<1>1. call[c].pc \in Running /\ call[c].pc \in Before
  BY DEF StepFails, Running, Before
<1> QED BY <1>1, AgainKeeps DEF StepFails

LEMMA CrashKeeps ==
  ASSUME SessionInv, NEW c \in Chats, Crash(c)
  PROVE  Kept
<1>1. call[c].pc \in Before \/ c \in hurt'
  BY DEF Crash, Running, Before
<1>2. hurt' \in {hurt, hurt \cup {c}} /\ (call[c].pc = "saved" => c \in hurt')
  BY DEF Crash
<1> QED BY <1>1, <1>2, AgainKeeps DEF Crash

\* The handler's next place, in the hands of the mutex.
LEMMA Onward ==
  ASSUME SessionInv, NEW c \in Chats, Holds(c), NEW p \in Running \cup {"ok"}, Now(c, p),
         NEW f \in FileTypes, NEW m \in MemTypes, NEW d \in DaemonTypes,
         UNCHANGED chat, Write(c, f),
         mem' = [mem EXCEPT ![Stage(c)] = m], daemon' = [daemon EXCEPT ![Stage(c)] = d],
         hurt' \in {hurt, hurt \cup {c}}
  PROVE  /\ Moves(c, chat[c], [call[c] EXCEPT !.pc = p], f, m, d, hurt')
         /\ [call[c] EXCEPT !.pc = p].pc = p
         /\ [call[c] EXCEPT !.pc = p].attempt = call[c].attempt
<1>1. [call[c] EXCEPT !.pc = p] \in CallTypes
  BY Handling DEF CallTypes
<1>2. [call[c] EXCEPT !.pc = p].pc = p /\ [call[c] EXCEPT !.pc = p].attempt = call[c].attempt
  BY Handling DEF CallTypes
<1> QED BY <1>1, <1>2, Handling, Still DEF SessionInv, Moves, Now, Write

LEMMA DecodeKeeps ==
  ASSUME SessionInv, NEW c \in Chats, Decode(c)
  PROVE  Kept
<1> DEFINE kv == Append(Reloaded(c).kv, chat[c].sampled)
           m == [kv |-> kv, past |-> Reloaded(c).past + 1]
           f == IF Stage(c) = "head" THEN [Files(c) EXCEPT !.act = kv] ELSE Files(c)
           k == [call[c] EXCEPT !.pc = "decoded"]
<1>1. /\ Reloaded(c).kv = Files(c).kv /\ Files(c).kv \in Inputs
      /\ Reloaded(c).past = (IF Files(c).meta = 0 THEN Len(Files(c).kv) ELSE Files(c).meta)
      /\ Reloaded(c).past \in Nat
  BY Handling DEF Reloaded, FileTypes, Inputs
<1>2. kv = Append(Files(c).kv, chat[c].sampled) /\ kv \in Inputs
  BY <1>1, Handling, DueGrows DEF ChatTypes
<1>3. m \in MemTypes /\ m.kv = kv /\ m.past = Reloaded(c).past + 1
  BY <1>1, <1>2 DEF MemTypes
<1>4. /\ f \in FileTypes /\ f.kv = Files(c).kv /\ f.meta = Files(c).meta
      /\ Stage(c) = "head" => f.act = kv
  BY <1>2, Handling DEF FileTypes
<1>5. /\ Holds(c) /\ Now(c, "decoded") /\ UNCHANGED <<chat, daemon, hurt, faults>>
      /\ call[c].pc = "sent" /\ ~Stuck(c)
  BY DEF Decode, Holds, Running
<1>6. Write(c, f) /\ mem' = [mem EXCEPT ![Stage(c)] = m]
  BY DEF Decode
<1> HIDE DEF kv, m, f
<1>7. daemon' = [daemon EXCEPT ![Stage(c)] = daemon[Stage(c)]]
  BY <1>5, Still DEF SessionInv
<1>8. Moves(c, chat[c], k, f, m, daemon[Stage(c)], hurt)
      /\ k.pc = "decoded" /\ k.attempt = call[c].attempt
  BY <1>3, <1>4, <1>5, <1>6, <1>7, Onward, Handling DEF Running
<1> HIDE DEF k
<1>9. k.attempt # Single => daemon[Stage(c)].room # 0
  BY <1>5, <1>8 DEF Stuck, ViaDaemon
<1>10. LET g == HeadFiles(c, f)  u == TailFiles(c, f) IN
       /\ g.kv = disk["head"][c].kv /\ g.meta = disk["head"][c].meta
       /\ u.kv = disk["tail"][c].kv /\ u.meta = disk["tail"][c].meta
       /\ AtTail(chat[c]) \/ g.act = Append(disk["head"][c].kv, chat[c].sampled)
  BY <1>2, <1>4, Replaced, Handling, Typed DEF SessionInv, Own
<1>11. Good(c, chat[c], k, HeadFiles(c, f), TailFiles(c, f), m, daemon[Stage(c)], hurt)
  BY <1>1, <1>2, <1>3, <1>5, <1>8, <1>9, <1>10, Handling, GoodDecode
<1> QED BY <1>4, <1>5, <1>8, <1>11, MovesWell DEF Grows

LEMMA SaveKeeps ==
  ASSUME SessionInv, NEW c \in Chats, Save(c)
  PROVE  Kept
<1> DEFINE text == IF chat[c].op # "prefill-prompt" THEN Files(c).text
                   ELSE IF ViaDaemon(c) THEN "joined" ELSE "lines"
           m == mem[Stage(c)]
           d == daemon[Stage(c)]
           f == [Files(c) EXCEPT !.kv = m.kv, !.torn = FALSE, !.text = text]
           k == [call[c] EXCEPT !.pc = "saved"]
<1>1. /\ f \in FileTypes /\ f.kv = m.kv /\ ~f.torn
      /\ f.meta = Files(c).meta /\ f.act = Files(c).act
  BY Handling DEF FileTypes, MemTypes
<1>2. /\ Holds(c) /\ Now(c, "saved") /\ UNCHANGED <<chat, daemon, mem, hurt, faults>>
      /\ call[c].pc = "decoded"
  BY DEF Save, Holds, Running
<1>3. Write(c, f)
  BY DEF Save
<1> HIDE DEF text, f
<1>4. daemon' = [daemon EXCEPT ![Stage(c)] = d] /\ mem' = [mem EXCEPT ![Stage(c)] = m]
  BY <1>2, Still DEF SessionInv
<1>5. Moves(c, chat[c], k, f, m, d, hurt) /\ k.pc = "saved" /\ k.attempt = call[c].attempt
  <2>1. m \in MemTypes /\ d \in DaemonTypes /\ chat[c] \in ChatTypes
        /\ chat' = [chat EXCEPT ![c] = chat[c]] /\ hurt' = hurt
    BY <1>2, Handling, Still DEF SessionInv
  <2>2. k \in CallTypes /\ k.pc = "saved" /\ k.attempt = call[c].attempt
    BY Handling DEF CallTypes, Running
  <2>3. call' = [call EXCEPT ![c] = k]
    BY <1>2 DEF Now
  <2> HIDE DEF m, d, k
  <2> QED BY <1>1, <1>2, <1>3, <1>4, <2>1, <2>2, <2>3 DEF Moves, Write
<1> HIDE DEF k
<1>6. /\ Good(c, chat[c], k, IF AtTail(chat[c]) THEN disk["head"][c] ELSE f,
              IF AtTail(chat[c]) THEN f ELSE disk["tail"][c], m, d, hurt)
      /\ f.kv = Append(Files(c).kv, chat[c].sampled)
      /\ \/ chat[c].sampled = Due(Files(c).kv)
         \/ c \in hurt /\ chat[c].sampled + 1 = Due(Files(c).kv)
  <2> DEFINE h == disk["head"][c]
             t == disk["tail"][c]
             g == IF AtTail(chat[c]) THEN h ELSE f
             u == IF AtTail(chat[c]) THEN f ELSE t
  <2>1. /\ Good(c, chat[c], call[c], h, t, m, d, hurt) /\ chat[c] \in ChatTypes
        /\ h \in FileTypes /\ t \in FileTypes /\ Own(chat[c], h, t) = Files(c)
    BY Handling
  <2>2. f.kv = m.kv /\ ~f.torn /\ f.meta = Own(chat[c], h, t).meta
        /\ f.act = Own(chat[c], h, t).act
    BY <1>1, <2>1
  <2> HIDE DEF h, t, m, d
  <2>3. /\ Good(c, chat[c], k, g, u, m, d, hurt)
        /\ f.kv = Append(Own(chat[c], h, t).kv, chat[c].sampled)
        /\ \/ chat[c].sampled = Due(Own(chat[c], h, t).kv)
           \/ c \in hurt /\ chat[c].sampled + 1 = Due(Own(chat[c], h, t).kv)
    <3>1. call[c].pc = "decoded" /\ k.pc = "saved" /\ k.attempt = call[c].attempt
      BY <1>2, <1>5
    <3>2. Own(chat[c], g, u) = f /\ Other(chat[c], g, u) = Other(chat[c], h, t)
      BY DEF Own, Other
    <3> HIDE DEF g, u
    <3>3. /\ Own(chat[c], g, u).kv = m.kv /\ ~Own(chat[c], g, u).torn
          /\ Own(chat[c], g, u).meta = Own(chat[c], h, t).meta
          /\ Own(chat[c], g, u).act = Own(chat[c], h, t).act
      BY <2>2, <3>2
    <3>4. Good(c, chat[c], k, g, u, m, d, hurt)
      BY <2>1, <3>1, <3>2, <3>3, GoodSave
    <3>5. Owed(c, chat[c], Own(chat[c], h, t), m, hurt)
      BY <2>1, <3>1, DueAtSave
    <3> QED BY <2>2, <3>2, <3>4, <3>5 DEF Owed
  <2> QED BY <2>1, <2>3 DEF h, t
<1>7. Good(c, chat[c], k, HeadFiles(c, f), TailFiles(c, f), m, d, hurt)
  BY <1>6, Replaced DEF SessionInv
<1> QED BY <1>2, <1>5, <1>6, <1>7, MovesWell DEF Grows

LEMMA NoteKeeps ==
  ASSUME SessionInv, NEW c \in Chats, Note(c)
  PROVE  Kept
<1> DEFINE m == mem[Stage(c)]
           d == daemon[Stage(c)]
           k == [call[c] EXCEPT !.pc = "noted"]
<1>1. /\ Holds(c) /\ Now(c, "noted") /\ UNCHANGED <<chat, daemon, mem>>
      /\ call[c].pc = "saved"
  BY DEF Note, Holds, Running
<1>2. daemon' = [daemon EXCEPT ![Stage(c)] = d] /\ mem' = [mem EXCEPT ![Stage(c)] = m]
  BY <1>1, Still DEF SessionInv
<1>3. ASSUME NEW f \in FileTypes, Write(c, f), f.meta = m.past \/ c \in hurt',
             f.kv = Files(c).kv /\ f.torn = Files(c).torn /\ f.act = Files(c).act,
             hurt' \in {hurt, hurt \cup {c}}, UNCHANGED faults \/ Fault
      PROVE  Kept
  <2>1. Moves(c, chat[c], k, f, m, d, hurt') /\ k.pc = "noted" /\ k.attempt = call[c].attempt
    <3>1. m \in MemTypes /\ d \in DaemonTypes /\ chat[c] \in ChatTypes
          /\ chat' = [chat EXCEPT ![c] = chat[c]]
      BY <1>1, Handling, Still DEF SessionInv
    <3>2. k \in CallTypes /\ k.pc = "noted" /\ k.attempt = call[c].attempt
      BY Handling DEF CallTypes, Running
    <3>3. call' = [call EXCEPT ![c] = k]
      BY <1>1 DEF Now
    <3> HIDE DEF m, d, k
    <3> QED BY <1>1, <1>2, <1>3, <3>1, <3>2, <3>3 DEF Moves, Write
  <2>2. c \in hurt => c \in hurt'
    BY <1>3
  <2> HIDE DEF k, m, d
  <2>3. Good(c, chat[c], k, IF AtTail(chat[c]) THEN disk["head"][c] ELSE f,
              IF AtTail(chat[c]) THEN f ELSE disk["tail"][c], m, d, hurt')
    <3> DEFINE h == disk["head"][c]
               t == disk["tail"][c]
    <3>1. chat[c] \in ChatTypes /\ Good(c, chat[c], call[c], h, t, m, d, hurt)
      BY Handling DEF m, d
    <3>2. LET o == Own(chat[c], h, t) IN f.kv = o.kv /\ f.torn = o.torn /\ f.act = o.act
      BY <1>3, Handling
    <3>3. f.meta = m.past \/ c \in hurt'
      BY <1>3 DEF m
    <3> HIDE DEF h, t
    <3>4. Good(c, chat[c], k, IF AtTail(chat[c]) THEN h ELSE f,
               IF AtTail(chat[c]) THEN f ELSE t, m, d, hurt')
      BY <1>1, <2>1, <2>2, <3>1, <3>2, <3>3, GoodNote
    <3> QED BY <3>4 DEF h, t
  <2>4. Good(c, chat[c], k, HeadFiles(c, f), TailFiles(c, f), m, d, hurt')
    BY <2>3, Replaced DEF SessionInv
  <2> QED BY <1>3, <2>1, <2>4, MovesWell DEF Grows
<1>4. CASE Write(c, [Files(c) EXCEPT !.meta = mem[Stage(c)].past]) /\ UNCHANGED <<hurt, faults>>
  <2> DEFINE f == [Files(c) EXCEPT !.meta = mem[Stage(c)].past]
  <2>1. /\ f \in FileTypes /\ f.meta = m.past /\ f.kv = Files(c).kv
        /\ f.torn = Files(c).torn /\ f.act = Files(c).act
    BY Handling DEF FileTypes, MemTypes
  <2>2. Write(c, f)
    BY <1>4
  <2> HIDE DEF f
  <2> QED BY <1>3, <1>4, <2>1, <2>2
<1>5. CASE hurt' = hurt \cup {c} /\ Fault /\ UNCHANGED disk
  <2>1. Write(c, Files(c))
    BY <1>5, Still DEF Write, SessionInv
  <2> QED BY <1>3, <1>5, <2>1, Handling
<1>6. CASE hurt' = hurt \cup {c} /\ Fault /\ CutMeta(c)
  <2> DEFINE f == [Files(c) EXCEPT !.meta = 0]
  <2>1. /\ f \in FileTypes /\ f.kv = Files(c).kv
        /\ f.torn = Files(c).torn /\ f.act = Files(c).act
    BY Handling DEF FileTypes
  <2>2. Write(c, f)
    BY <1>6 DEF CutMeta
  <2> HIDE DEF f
  <2> QED BY <1>3, <1>6, <2>1, <2>2
<1> QED BY <1>4, <1>5, <1>6 DEF Note

LEMMA ReplyKeeps ==
  ASSUME SessionInv, NEW c \in Chats, Reply(c)
  PROVE  Kept
<1> DEFINE m == mem[Stage(c)]
           k == [call[c] EXCEPT !.pc = "ok"]
           d == IF ViaDaemon(c) THEN [daemon[Stage(c)] EXCEPT !.room = daemon[Stage(c)].room - 1]
                                ELSE daemon[Stage(c)]
<1>1. /\ Holds(c) /\ Now(c, "ok") /\ UNCHANGED <<chat, mem, disk, hurt, faults>>
      /\ call[c].pc = "noted"
  BY DEF Reply, Holds, Running
<1>2. d \in DaemonTypes
  <2>1. ViaDaemon(c) => daemon[Stage(c)].room # 0
    BY <1>1, Handling DEF Good, Unstuck, ViaDaemon
  <2>2. ViaDaemon(c) => daemon[Stage(c)].room - 1 \in 0 .. LogRoom
    BY <2>1, Handling, SessionAssumption DEF DaemonTypes
  <2> QED BY <2>2, Handling DEF DaemonTypes
<1>3. daemon' = [daemon EXCEPT ![Stage(c)] = d]
  BY Still DEF Reply, SessionInv
<1>4. mem' = [mem EXCEPT ![Stage(c)] = m] /\ Write(c, Files(c))
  BY <1>1, Still DEF SessionInv, Write
<1> HIDE DEF d
<1>5. Moves(c, chat[c], k, Files(c), m, d, hurt) /\ k.pc = "ok"
  BY <1>1, <1>2, <1>3, <1>4, Onward, Handling
<1> HIDE DEF k
<1>6. Good(c, chat[c], k, disk["head"][c], disk["tail"][c], m, d, hurt)
  BY <1>1, <1>5, Handling, GoodReply
<1> QED BY <1>1, <1>5, <1>6, Still, MovesWell DEF Grows, SessionInv
-----------------------------------------------------------------------------
LEMMA StutterKeeps == SessionInv /\ UNCHANGED vars => Kept
<1> SUFFICES ASSUME SessionInv, UNCHANGED vars PROVE Kept OBVIOUS
<1>1. SessionInv'
  BY DEF SessionInv, vars, SessionTypeOK, Mutex, Holds, Stage, GoodChat
<1>2. UNCHANGED bar
  BY DEF vars, bar, Log
<1> QED BY <1>1, <1>2 DEF Kept

LEMMA NextKeeps == SessionInv /\ [Next]_vars => Kept
<1> SUFFICES ASSUME SessionInv, [Next]_vars PROVE Kept OBVIOUS
<1>1. ASSUME NEW c \in Chats, HandlerStep(c) PROVE Kept
  BY <1>1, TakeKeeps, LaunchKeeps, DecodeKeeps, SaveKeeps, NoteKeeps, ReplyKeeps,
     StepFailsKeeps DEF HandlerStep
<1>2. ASSUME NEW c \in Chats, Submit(c) \/ Deliver(c) \/ Fails(c) \/ Crash(c) PROVE Kept
  BY <1>2, SubmitKeeps, DeliverKeeps, FailsKeeps, CrashKeeps
<1> QED BY <1>1, <1>2, StutterKeeps DEF Next

\* SessionInv is an invariant: the strengthening from which the rest follows.
THEOREM SessionInvariant == Spec => []SessionInv
<1>1. SessionInv /\ [Next]_vars => SessionInv'
  BY NextKeeps DEF Kept
<1> QED BY <1>1, InitSession, PTL DEF Spec

\* Every variable keeps its type, and the room in a daemon's stderr is never
\* overdrawn.
THEOREM SessionTypeCorrect == Spec => []SessionTypeOK
<1> QED BY SessionInvariant, PTL DEF SessionInv

\* The mutex of pipeline_step: two chats never have one daemon in hand.
THEOREM MutualExclusion == Spec => []Mutex
<1> QED BY SessionInvariant, PTL DEF SessionInv

\* A chat that no crash hit has every input decoded once, in order, at both
\* stages, whatever the other chats do and however often a step is tried.
THEOREM InStep == Spec => []StagesInStep
<1>1. SessionInv => StagesInStep
  <2> SUFFICES ASSUME SessionInv, NEW c \in Chats \ hurt, chat[c].pc \in {"calling", "done"}
               PROVE  LET n == chat[c].sampled
                          At(s, k) == disk[s][c].kv = Upto(k) /\ disk[s][c].meta = k IN
                      /\ At("tail", n)
                      /\ At("head", IF chat[c].pc = "done" \/ chat[c].op = "decode-token" THEN n
                                    ELSE IF chat[c].op = "forward-activation" THEN n + 1
                                    ELSE 0)
    BY DEF StagesInStep
  <2>1. chat[c].op \in Ops
    BY Typed DEF SessionInv, ChatTypes
  <2>2. call[c].pc # "saved"
    BY Handling DEF Good, InHand
  <2>3. /\ InOrder(c, chat[c], call[c], disk["head"][c], disk["tail"][c], hurt)
        /\ Exact(c, chat[c], call[c], disk["head"][c], disk["tail"][c], hurt)
    BY Handling DEF Good
  <2> QED BY <2>1, <2>2, <2>3 DEF InOrder, Exact, Own, Other, AtTail, Ops
<1> QED BY <1>1, SessionInvariant, PTL

\* The activation in the coordinator's hand is that of the head's saved state of
\* this chat, after crashes and retries too.
THEOREM ActivationIsOwn == Spec => []OwnActivation
<1>1. SessionInv => OwnActivation
  BY Handling DEF OwnActivation, Good, Exported, AtTail
<1> QED BY <1>1, SessionInvariant, PTL

\* The workers' session files implement the logs of SessionStore.
THEOREM StoreImplemented == Spec => ImplementsStore
<1>1. Init => Store!Init
  BY DEF Init, Store!Init, NoFiles
<1>2. SessionInv /\ [Next]_vars => [Store!Next]_bar
  BY NextKeeps DEF Kept
<1> QED BY <1>1, <1>2, SessionInvariant, PTL DEF Spec, ImplementsStore, Store!Spec, bar, Log
=============================================================================
