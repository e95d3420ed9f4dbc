--------------------------- MODULE NodeConfigProofs ---------------------------
(***************************************************************************)
(* Proofs about NodeConfig, for any number of commands and any options:    *)
(* type correctness, that a setting is lost only where commands clash, and *)
(* that the guard enforces what the coordinator was told.                  *)
(***************************************************************************)
EXTENDS NodeConfig, TLAPS

Phases == Saving \cup Agents \cup {"load", "check", "done"}
Edits == Options \cup {NoOption}

Writing(p) == p \in {"put", "reput"}

\* What the copy x of a command at p, with the options e, has to do with what the
\* file should say.
Claim(x, e, p, w) ==
  IF p \in Saving THEN x = Asked(e, w)
  ELSE IF p \in Resaving THEN x = [w EXCEPT !.node = TRUE]
  ELSE x = w

\* As long as nothing clashed there is one writer, behind whose back every copy
\* is stale, and every other copy follows from what the file should say.
FileInv ==
  clash = {} =>
    /\ \A c \in Commands : Writing(pc[c]) =>
         c \notin stale /\ file.empty /\ Others(c) \subseteq stale
    /\ (\A c \in Commands : ~Writing(pc[c])) => file.parses /\ file.says = want
    /\ \A c \in Commands : pc[c] \in Unsaved /\ c \notin stale
         => Claim(copy[c], edit[c], pc[c], want)

\* As long as nothing is mixed up there is one agent, and the worker is its own.
AgentInv ==
  /\ \A c \in Starts :
       pc[c] \in {"load", "save", "put", "check", "spawn"} => serving.by # c
  /\ ~mixed => \A c \in Starts :
       /\ \A d \in Starts : pc[c] \in Agents /\ pc[d] \in Agents => c = d
       /\ pc[c] \in Agents \ {"spawn", "wait"} => serving.by \in {c, None}
       /\ pc[c] \in Agents /\ serving.by = c => serving.limit = GuardLimit(copy[c].ram)
       /\ pc[c] \in Agents \ {"spawn", "wait", "register"} => row = Offer(copy[c].ram)

ConfigInv == TypeOK /\ FileInv /\ AgentInv
-----------------------------------------------------------------------------
(* The operations on configurations.                                         *)

LEMMA SameConfig ==
  ASSUME NEW x \in Config, NEW y \in Config,
         x.ram = y.ram, x.shard = y.shard, x.rpc = y.rpc, x.node = y.node
  PROVE  x = y
<1>1. /\ x = [ram |-> x.ram, shard |-> x.shard, rpc |-> x.rpc, node |-> x.node]
      /\ y = [ram |-> y.ram, shard |-> y.shard, rpc |-> y.rpc, node |-> y.node]
  BY DEF Config
<1> QED BY <1>1

LEMMA Applied ==
  ASSUME NEW e \in Edits, NEW x \in Config
  PROVE  Apply(e, x) \in Config /\ Apply(e, x) = Asked(e, x)
<1>1. /\ e.ram = None \/ e.ram \in Sizes
      /\ e.shard = None \/ e.shard \in Nat
      /\ e.rpc \in {None, "url"}
  BY CommandAssumption DEF Edits, NoOption
<1> DEFINE ram == Set(e.ram, x.ram)
           shard == Set(e.shard, x.shard)
           rpc == IF e.clear THEN None ELSE Set(e.rpc, x.rpc)
<1>2. ram \in Sizes /\ shard \in Nat /\ rpc \in {None, "url"}
  BY <1>1 DEF Set, Config
<1>3. Apply(e, x) = [x EXCEPT !.ram = ram, !.shard = shard, !.rpc = rpc]
  BY DEF Apply
<1>4. Asked(e, x) = [ram |-> ram, shard |-> shard, rpc |-> rpc, node |-> x.node]
  BY DEF Asked, Set
<1> HIDE DEF ram, shard, rpc
<1> DEFINE y == [x EXCEPT !.ram = ram, !.shard = shard, !.rpc = rpc]
           z == [ram |-> ram, shard |-> shard, rpc |-> rpc, node |-> x.node]
<1>5. /\ y \in Config /\ y.ram = ram /\ y.shard = shard /\ y.rpc = rpc
      /\ y.node = x.node
  BY <1>2 DEF Config
<1>6. /\ z \in Config /\ z.ram = ram /\ z.shard = shard /\ z.rpc = rpc
      /\ z.node = x.node
  BY <1>2 DEF Config
<1> HIDE DEF y, z
<1>7. y = z
  BY <1>5, <1>6, SameConfig
<1> QED BY <1>3, <1>4, <1>5, <1>7 DEF y, z

LEMMA Sized ==
  ASSUME NEW x \in Config
  PROVE  /\ x.ram \in Sizes /\ [x EXCEPT !.node = TRUE] \in Config
         /\ [x EXCEPT !.node = TRUE].ram = x.ram
         /\ GuardLimit(x.ram) \in Nat /\ Offer(x.ram) \in Nat
         /\ x.ram.unit \in {"g", "m"} => GuardLimit(x.ram) = Offer(x.ram)
<1>1. x.ram \in Sizes /\ [x EXCEPT !.node = TRUE] \in Config
      /\ [x EXCEPT !.node = TRUE].ram = x.ram
  BY DEF Config
<1>2. \A n \in Nat : n \div 1024 \in Nat /\ n * 1024 \in Nat /\ n * 1048576 \in Nat
  OBVIOUS
<1>3. x.ram.n \in Nat /\ x.ram.unit \in {"g", "m", "k", "none"}
  BY <1>1 DEF Sizes
<1>4. GuardLimit(x.ram) \in Nat
  BY <1>2, <1>3 DEF GuardLimit
<1>5. Offer(x.ram) \in Nat
  BY <1>2, <1>3 DEF Offer
<1>6. x.ram.unit \in {"g", "m"} => GuardLimit(x.ram) = Offer(x.ram)
  BY <1>3 DEF GuardLimit, Offer
<1> QED BY <1>1, <1>4, <1>5, <1>6

LEMMA DefaultTyped == Default \in Config
<1> QED BY DEF Default, Config, Sizes

LEMMA InitConfig == Init => ConfigInv
<1> SUFFICES ASSUME Init PROVE ConfigInv OBVIOUS
<1>1. TypeOK
  BY DefaultTyped DEF Init, TypeOK, Saving, Agents, Edits
<1>2. FileInv
  BY DEF Init, FileInv, Writing, Unsaved, Saving, Resaving
<1>3. AgentInv
  BY CommandAssumption DEF Init, AgentInv, Agents, Resaving, Commands
<1> QED BY <1>1, <1>2, <1>3 DEF ConfigInv
-----------------------------------------------------------------------------
(* Type correctness.                                                         *)

LEMMA EndsTyped ==
  ASSUME TypeOK, NEW c \in Commands, Ends(c)
  PROVE  /\ pc' \in [Commands -> Phases]
         /\ copy' \in [Commands -> Config] /\ edit' \in [Commands -> Edits]
         /\ stale' \subseteq Commands
<1> QED BY DefaultTyped DEF TypeOK, Ends, Goto, Phases, Edits

LEMMA TypeStep == TypeOK /\ [Next]_vars => TypeOK'
<1> SUFFICES ASSUME TypeOK, [Next]_vars PROVE TypeOK' OBVIOUS
<1> DEFINE FileOK == /\ file \in [parses: BOOLEAN, empty: BOOLEAN, says: Config]
                     /\ want \in Config /\ clash \subseteq {"first", "second", "cut"}
           OwnOK == /\ pc \in [Commands -> Phases] /\ copy \in [Commands -> Config]
                    /\ edit \in [Commands -> Edits] /\ stale \subseteq Commands
           AgentOK == /\ serving \in [by: Starts \cup {None}, limit: Nat] /\ row \in Nat
                      /\ runtime \in Starts \cup {None} /\ mixed \in BOOLEAN
<1>0. FileOK /\ OwnOK /\ AgentOK
  BY DEF TypeOK, Phases, Edits
<1>1. UNCHANGED agent => AgentOK'
  BY <1>0 DEF agent
<1>2. UNCHANGED <<file, want, clash>> => FileOK'
  BY <1>0
<1>3. FileOK' /\ OwnOK' /\ AgentOK' => TypeOK'
  BY DEF TypeOK, Phases, Edits
<1>4. ASSUME NEW c \in Commands, Ends(c) PROVE OwnOK'
  BY <1>4, EndsTyped
<1>5. ASSUME NEW c \in Commands, NEW p \in Phases, Goto(c, p),
             UNCHANGED copy \/ \E x \in Config : copy' = [copy EXCEPT ![c] = x],
             UNCHANGED edit \/ \E e \in Edits : edit' = [edit EXCEPT ![c] = e],
             stale' \subseteq Commands
      PROVE  OwnOK'
  BY <1>0, <1>5 DEF Goto
<1>6. ASSUME NEW c \in Commands, Load(c) PROVE TypeOK'
  <2>1. AgentOK' /\ FileOK'
    BY <1>1, <1>2, <1>6 DEF Load
  <2>2. CASE file.parses
    <3>1. PICK e \in Given(c) : /\ edit' = [edit EXCEPT ![c] = e]
                                /\ copy' = [copy EXCEPT ![c] = Apply(e, file.says)]
                                /\ Goto(c, "save") /\ stale' \in {stale \cup {c}, stale}
      BY <1>6, <2>2 DEF Load
    <3>2. e \in Edits /\ Apply(e, file.says) \in Config /\ "save" \in Phases
      BY <1>0, Applied DEF Given, Edits, Phases, Saving
    <3>3. stale' \subseteq Commands
      BY <1>0, <3>1
    <3> QED BY <1>3, <1>5, <2>1, <3>1, <3>2, <3>3
  <2>3. CASE ~file.parses
    BY <1>3, <1>4, <1>6, <2>1, <2>3 DEF Load
  <2> QED BY <2>2, <2>3
<1>7. ASSUME NEW c \in Commands, Truncate(c) PROVE TypeOK'
  <2>1. AgentOK' /\ FileOK'
    BY <1>0, <1>1, <1>7, DefaultTyped DEF Truncate, Which
  <2>2. "put" \in Phases /\ "reput" \in Phases /\ Others(c) \subseteq Commands
    BY DEF Phases, Saving, Agents, Resaving, Others
  <2> QED BY <1>0, <1>3, <1>5, <1>7, <2>1, <2>2 DEF Truncate
<1>8. ASSUME NEW c \in Commands, Put(c) PROVE TypeOK'
  <2>1. copy[c] \in Config /\ edit[c] \in Edits /\ Asked(edit[c], want) \in Config
        /\ [want EXCEPT !.node = TRUE] \in Config
    BY <1>0, Applied, Sized
  <2>2. AgentOK' /\ FileOK'
    <3>1. want' \in Config
      BY <1>8, <2>1 DEF Put
    <3>2. file' \in [parses: BOOLEAN, empty: BOOLEAN, says: Config]
      BY <1>8, <2>1 DEF Put
    <3>3. clash' \subseteq {"first", "second", "cut"} /\ UNCHANGED agent
      BY <1>0, <1>8 DEF Put, Which
    <3> QED BY <1>1, <3>1, <3>2, <3>3
  <2>3. {"check", "done", "persist"} \subseteq Phases /\ Others(c) \subseteq Commands
        /\ NoOption \in Edits
    BY DEF Phases, Agents, Others, Edits
  <2>4. \E p \in Phases : Goto(c, p)
    BY <1>8, <2>3 DEF Put
  <2>5. stale' \subseteq Commands
    BY <1>0, <1>8, <2>3 DEF Put
  <2>6. /\ UNCHANGED copy \/ \E x \in Config : copy' = [copy EXCEPT ![c] = x]
        /\ \E e \in Edits : edit' = [edit EXCEPT ![c] = e]
    BY <1>8, <2>3, DefaultTyped DEF Put
  <2> QED BY <1>3, <1>5, <2>2, <2>4, <2>5, <2>6
<1>9. ASSUME NEW c \in Commands, Killed(c) PROVE TypeOK'
  <2>1. AgentOK' /\ FileOK'
    BY <1>0, <1>9 DEF Killed
  <2> QED BY <1>3, <1>4, <1>9, <2>1 DEF Killed
<1>10. ASSUME NEW c \in Starts, NEW p \in {"spawn", "wait", "register", "resave", "running"},
              Goto(c, p), UNCHANGED <<edit, disk>>,
              UNCHANGED copy \/ copy' = [copy EXCEPT ![c].node = TRUE]
       PROVE  OwnOK' /\ FileOK'
  <2>1. c \in Commands /\ p \in Phases /\ copy[c] \in Config
        /\ [copy[c] EXCEPT !.node = TRUE] \in Config
    BY <1>0, Sized DEF Commands, Phases, Agents, Resaving
  <2>2. UNCHANGED copy \/ \E x \in Config : copy' = [copy EXCEPT ![c] = x]
    BY <1>10, <2>1
  <2> QED BY <1>0, <1>2, <1>5, <1>10, <2>1, <2>2 DEF disk
<1>11. ASSUME NEW c \in Starts PROVE c \in Commands /\ GuardLimit(copy[c].ram) \in Nat
                                     /\ Offer(copy[c].ram) \in Nat
  BY <1>0, Sized DEF Commands
<1>12. ASSUME NEW c \in Starts, Check(c) PROVE TypeOK'
  <2>1. AgentOK' /\ FileOK'
    BY <1>0, <1>2, <1>12 DEF Check
  <2> QED BY <1>2, <1>3, <1>4, <1>10, <1>11, <1>12, <2>1 DEF Check, disk
<1>13. ASSUME NEW c \in Starts, Spawn(c) PROVE TypeOK'
  <2>1. AgentOK'
    BY <1>0, <1>11, <1>13 DEF Spawn
  <2> QED BY <1>3, <1>10, <1>13, <2>1 DEF Spawn
<1>14. ASSUME NEW c \in Starts, Healthy(c) PROVE TypeOK'
  <2>1. AgentOK'
    BY <1>0, <1>14 DEF Healthy
  <2> QED BY <1>3, <1>10, <1>14, <2>1 DEF Healthy
<1>15. ASSUME NEW c \in Starts, StartFails(c) PROVE TypeOK'
  BY <1>1, <1>2, <1>3, <1>4, <1>11, <1>15 DEF StartFails
<1>16. ASSUME NEW c \in Starts, Register(c) PROVE TypeOK'
  <2>1. AgentOK'
    BY <1>0, <1>11, <1>16 DEF Register
  <2> QED BY <1>3, <1>10, <1>16, <2>1 DEF Register
<1>17. ASSUME NEW c \in Starts, Persist(c) PROVE TypeOK'
  <2>1. AgentOK' /\ FileOK'
    BY <1>0, <1>2, <1>17 DEF Persist
  <2> QED BY <1>3, <1>4, <1>10, <1>11, <1>17, <2>1 DEF Persist, disk
<1>18. ASSUME NEW c \in Starts, Restart(c) PROVE TypeOK'
  <2>1. AgentOK' /\ FileOK'
    <3>1. /\ \/ serving' = serving /\ runtime' = None
             \/ serving' = serving /\ runtime' = c
             \/ serving' = [by |-> c, limit |-> GuardLimit(copy[c].ram)] /\ runtime' = c
          /\ UNCHANGED <<file, want, clash, row>>
          /\ mixed' \in BOOLEAN
      BY <1>0, <1>18 DEF Restart, HeldLimit
    <3>2. serving' \in [by: Starts \cup {None}, limit: Nat]
          /\ runtime' \in Starts \cup {None}
      BY <1>0, <1>11, <1>18, <3>1
    <3> QED BY <1>0, <1>2, <3>1, <3>2
  <2>2. UNCHANGED <<pc, copy, edit, stale>> => OwnOK'
    BY <1>0
  <2> QED BY <1>3, <1>4, <1>11, <1>18, <2>1, <2>2 DEF Restart
<1>19. ASSUME NEW c \in Starts, RestartFails(c) PROVE TypeOK'
  <2>1. AgentOK' /\ FileOK'
    BY <1>0, <1>2, <1>19 DEF RestartFails
  <2> QED BY <1>3, <1>4, <1>11, <1>19, <2>1 DEF RestartFails
<1>20. ASSUME WorkerDies \/ Pause \/ UNCHANGED vars PROVE TypeOK'
  <2>1. UNCHANGED <<pc, copy, edit, disk>>
    BY <1>20 DEF WorkerDies, Pause, vars
  <2>2. FileOK' /\ OwnOK'
    BY <1>0, <2>1 DEF disk
  <2>3. AgentOK'
    BY <1>0, <1>20 DEF WorkerDies, Pause, vars, agent
  <2> QED BY <1>3, <2>2, <2>3
<1> QED BY <1>6, <1>7, <1>8, <1>9, <1>12, <1>13, <1>14, <1>15, <1>16, <1>17, <1>18, <1>19, <1>20
        DEF Next
-----------------------------------------------------------------------------
(* The file.                                                                 *)

\* A step of c, none of its saves, that may give up its copy or claim it anew.
LEMMA QuietFile ==
  ASSUME TypeOK, FileInv, NEW c \in Commands, NEW q \in Phases,
         pc' = [pc EXCEPT ![c] = q], ~Writing(pc[c]), ~Writing(q),
         UNCHANGED <<file, want, clash>>,
         stale' = stale \/ (stale' = stale \ {c} /\ q \notin Unsaved),
         q \in Unsaved => pc[c] \in Unsaved,
         \A d \in Commands \ {c} : copy'[d] = copy[d] /\ edit'[d] = edit[d],
         clash = {} /\ q \in Unsaved /\ c \notin stale
           => Claim(copy'[c], edit'[c], q, want)
  PROVE  FileInv'
<1> SUFFICES ASSUME clash = {} PROVE FileInv' BY DEF FileInv
<1>1. pc'[c] = q /\ \A d \in Commands \ {c} : pc'[d] = pc[d]
  BY DEF TypeOK
<1>2. \A d \in Commands : Writing(pc'[d]) =>
        d \notin stale' /\ file'.empty /\ Others(d)' \subseteq stale'
  BY <1>1 DEF FileInv, Others
<1>3. (\A d \in Commands : ~Writing(pc'[d])) => file'.parses /\ file'.says = want'
  BY <1>1 DEF FileInv
<1>4. \A d \in Commands : pc'[d] \in Unsaved /\ d \notin stale'
        => Claim(copy'[d], edit'[d], pc'[d], want')
  BY <1>1 DEF FileInv
<1> QED BY <1>2, <1>3, <1>4 DEF FileInv

LEMMA QuietEnd ==
  ASSUME TypeOK, FileInv, NEW c \in Commands, Ends(c), ~Writing(pc[c]),
         UNCHANGED <<file, want, clash>>
  PROVE  FileInv'
<1>1. "done" \in Phases /\ ~Writing("done") /\ "done" \notin Unsaved
  BY DEF Phases, Writing, Unsaved, Saving, Resaving
<1>2. \A d \in Commands \ {c} : copy'[d] = copy[d] /\ edit'[d] = edit[d]
  BY DEF Ends, TypeOK
<1> QED BY <1>1, <1>2, QuietFile DEF Ends, Goto

LEMMA WritersApart ==
  ASSUME FileInv, clash = {}, NEW c \in Commands, c \notin stale, pc[c] \in Unsaved,
         NEW d \in Commands \ {c}
  PROVE  ~Writing(pc[d])
<1> QED BY DEF FileInv, Others

LEMMA LoadFile == ASSUME TypeOK, FileInv, NEW c \in Commands, Load(c) PROVE FileInv'
<1>0. pc[c] = "load" /\ ~Writing(pc[c]) /\ UNCHANGED <<file, want, clash>>
  BY DEF Load, Writing
<1>1. CASE ~file.parses
  BY <1>0, <1>1, QuietEnd DEF Load
<1>2. CASE file.parses
  <2>1. PICK e \in Given(c) : /\ edit' = [edit EXCEPT ![c] = e]
                              /\ copy' = [copy EXCEPT ![c] = Apply(e, file.says)]
                              /\ Goto(c, "save")
                              /\ stale' = IF \E d \in Commands : pc[d] \in {"put", "reput"}
                                            THEN stale \cup {c} ELSE stale
    BY <1>2 DEF Load
  <2> SUFFICES ASSUME clash = {} PROVE FileInv' BY <1>0 DEF FileInv
  <2>2. /\ pc'[c] = "save" /\ edit'[c] = e /\ copy'[c] = Apply(e, file.says)
        /\ \A d \in Commands \ {c} :
             pc'[d] = pc[d] /\ edit'[d] = edit[d] /\ copy'[d] = copy[d]
    BY <2>1 DEF TypeOK, Goto
  <2>3. CASE \E d \in Commands : Writing(pc[d])
    <3>1. stale' = stale \cup {c}
      BY <2>1, <2>3 DEF Writing
    <3>2. \A d \in Commands : Writing(pc'[d]) =>
            d \notin stale' /\ file'.empty /\ Others(d)' \subseteq stale'
      BY <1>0, <2>2, <3>1 DEF FileInv, Others, Writing
    <3>3. \E d \in Commands : Writing(pc'[d])
      BY <1>0, <2>2, <2>3
    <3>4. \A d \in Commands : pc'[d] \in Unsaved /\ d \notin stale'
            => Claim(copy'[d], edit'[d], pc'[d], want')
      BY <1>0, <2>2, <3>1 DEF FileInv
    <3> QED BY <3>2, <3>3, <3>4 DEF FileInv
  <2>4. CASE \A d \in Commands : ~Writing(pc[d])
    <3>1. stale' = stale /\ file.says = want
      BY <2>1, <2>4 DEF Writing, FileInv
    <3>2. \A d \in Commands : ~Writing(pc'[d])
      BY <2>2, <2>4 DEF Writing
    <3>3. e \in Edits /\ want \in Config
      BY DEF Given, Edits, TypeOK
    <3>4. Claim(copy'[c], edit'[c], pc'[c], want')
      BY <1>0, <2>2, <3>1, <3>3, Applied DEF Claim, Saving
    <3>5. \A d \in Commands : pc'[d] \in Unsaved /\ d \notin stale'
            => Claim(copy'[d], edit'[d], pc'[d], want')
      BY <1>0, <2>2, <3>1, <3>4 DEF FileInv
    <3>6. file'.parses /\ file'.says = want'
      BY <1>0, <1>2, <3>1
    <3> QED BY <3>2, <3>5, <3>6 DEF FileInv
  <2> QED BY <2>3, <2>4
<1> QED BY <1>1, <1>2

LEMMA TruncateFile == ASSUME TypeOK, FileInv, NEW c \in Commands, Truncate(c) PROVE FileInv'
<1> SUFFICES ASSUME clash' = {} PROVE FileInv' BY DEF FileInv
<1>1. c \notin stale /\ clash = {} /\ stale' = stale \cup Others(c) /\ file'.empty
  BY DEF Truncate
<1>2. /\ \/ pc[c] = "save" /\ pc'[c] = "put"
         \/ pc[c] = "resave" /\ pc'[c] = "reput"
      /\ \A d \in Commands \ {c} : pc'[d] = pc[d]
      /\ UNCHANGED <<copy, edit, want>>
  BY DEF Truncate, Goto, TypeOK
<1>3. pc[c] \in Unsaved /\ c \notin stale'
  BY <1>1, <1>2 DEF Unsaved, Saving, Resaving, Others
<1>4. \A d \in Commands \ {c} : ~Writing(pc'[d])
  BY <1>1, <1>2, <1>3, WritersApart
<1>5. Writing(pc'[c]) /\ Others(c)' \subseteq stale'
  BY <1>1, <1>2 DEF Writing, Others
<1>6. \A d \in Commands : pc'[d] \in Unsaved /\ d \notin stale'
        => Claim(copy'[d], edit'[d], pc'[d], want')
  <2>1. Claim(copy[c], edit[c], pc[c], want)
    BY <1>1, <1>3 DEF FileInv
  <2>2. Claim(copy'[c], edit'[c], pc'[c], want')
    BY <1>2, <2>1 DEF Claim, Saving, Resaving
  <2>3. \A d \in Commands \ {c} : pc'[d] \in Unsaved => d \in stale'
    BY <1>1, <1>2 DEF Others
  <2> QED BY <2>2, <2>3
<1> QED BY <1>1, <1>3, <1>4, <1>5, <1>6 DEF FileInv

LEMMA PutFile == ASSUME TypeOK, FileInv, NEW c \in Commands, Put(c) PROVE FileInv'
<1> SUFFICES ASSUME clash' = {} PROVE FileInv' BY DEF FileInv
<1>1. c \notin stale /\ clash = {}
  BY DEF Put
<1>2. PICK q \in Phases : /\ pc' = [pc EXCEPT ![c] = q] /\ q \in {"check", "done", "persist"}
                          /\ q = "check" => c \in Starts /\ pc[c] = "put"
  BY DEF Put, Goto, Phases, Agents
<1>3. /\ pc'[c] = q /\ \A d \in Commands \ {c} : pc'[d] = pc[d]
      /\ pc[c] \in Unsaved /\ Writing(pc[c])
  BY <1>2 DEF TypeOK, Put, Unsaved, Saving, Resaving, Writing
<1>4. \A d \in Commands : ~Writing(pc'[d])
  <2>1. ~Writing(pc'[c])
    BY <1>2, <1>3 DEF Writing
  <2> QED BY <1>1, <1>3, <2>1, WritersApart
<1>5. \A d \in Commands \ {c} : pc'[d] \in Unsaved => d \in stale'
  BY <1>3 DEF Put, Others
<1>6. Claim(copy[c], edit[c], pc[c], want) /\ file.empty
  BY <1>1, <1>3 DEF FileInv
<1>7. copy[c] = want'
  <2>1. CASE pc[c] = "put" /\ want' = Asked(edit[c], want)
    BY <1>6, <2>1 DEF Claim, Saving
  <2>2. CASE pc[c] = "reput" /\ want' = [want EXCEPT !.node = TRUE]
    BY <1>6, <2>2 DEF Claim, Saving, Resaving
  <2> QED BY <2>1, <2>2 DEF Put
<1>8. file'.parses /\ file'.says = want'
  BY <1>6, <1>7 DEF Put
<1>9. pc'[c] \in Unsaved => Claim(copy'[c], edit'[c], pc'[c], want')
  <2>1. q \in Unsaved => q = "check"
    BY <1>2 DEF Unsaved, Saving, Resaving
  <2>2. q = "check" => copy'[c] = copy[c]
    BY <1>2 DEF Put
  <2> QED BY <1>3, <1>7, <2>1, <2>2 DEF Claim, Saving, Resaving
<1> QED BY <1>4, <1>5, <1>8, <1>9 DEF FileInv

LEMMA FileStep == TypeOK /\ FileInv /\ [Next]_vars => FileInv'
<1> SUFFICES ASSUME TypeOK, FileInv, [Next]_vars PROVE FileInv' OBVIOUS
<1>1. ASSUME NEW c \in Commands, Killed(c) PROVE FileInv'
  <2>1. CASE Writing(pc[c])
    BY <1>1, <2>1 DEF Killed, FileInv, Writing
  <2>2. CASE ~Writing(pc[c])
    BY <1>1, <2>2, QuietEnd DEF Killed, Writing
  <2> QED BY <2>1, <2>2
<1>2. ASSUME NEW c \in Starts, NEW p, NEW q \in Phases, pc[c] = p, pc' = [pc EXCEPT ![c] = q],
             UNCHANGED <<edit, disk>>,
             \/ /\ <<p, q>> \in {<<"check", "spawn">>, <<"spawn", "wait">>,
                                 <<"wait", "register">>, <<"persist", "running">>}
                /\ copy' = copy
             \/ p = "register" /\ q = "resave" /\ copy' = [copy EXCEPT ![c].node = TRUE]
      PROVE  FileInv'
  <2>1. c \in Commands /\ ~Writing(p) /\ ~Writing(q) /\ UNCHANGED <<file, want, clash, stale>>
    BY <1>2 DEF Commands, Writing, disk
  <2>2. q \in Unsaved => p \in Unsaved
    BY <1>2 DEF Unsaved, Saving, Resaving
  <2>3. \A d \in Commands \ {c} : copy'[d] = copy[d] /\ edit'[d] = edit[d]
    BY <1>2 DEF TypeOK
  <2>4. ASSUME clash = {}, q \in Unsaved, c \notin stale
        PROVE  Claim(copy'[c], edit'[c], q, want)
    <3>1. Claim(copy[c], edit[c], p, want)
      BY <1>2, <2>1, <2>2, <2>4 DEF FileInv
    <3>2. copy[c] = want
      BY <1>2, <3>1 DEF Claim, Saving, Resaving
    <3>3. CASE p = "register"
      <4>1. q = "resave" /\ copy'[c] = [copy[c] EXCEPT !.node = TRUE]
        BY <1>2, <2>1, <3>3 DEF TypeOK
      <4> QED BY <3>2, <4>1 DEF Claim, Saving, Resaving
    <3>4. CASE p # "register"
      BY <1>2, <3>2, <3>4 DEF Claim, Saving, Resaving
    <3> QED BY <3>3, <3>4
  <2> QED BY <1>2, <2>1, <2>2, <2>3, <2>4, QuietFile
<1>3. {"spawn", "wait", "register", "resave", "running"} \subseteq Phases
      /\ Starts \subseteq Commands
  BY DEF Phases, Agents, Resaving, Commands
<1>4. ASSUME NEW c \in Starts, Ends(c), UNCHANGED <<file, want, clash>>,
             pc[c] \in {"check", "wait", "register", "persist", "running"}
      PROVE  FileInv'
  BY <1>3, <1>4, QuietEnd DEF Writing
<1>5. ASSUME UNCHANGED <<pc, copy, edit, disk>> PROVE FileInv'
  BY <1>5 DEF disk, FileInv, Others
<1>6. ASSUME NEW c \in Starts, Check(c) PROVE FileInv'
  <2>1. CASE Ends(c)
    BY <1>4, <1>6, <2>1 DEF Check
  <2>2. CASE ~Ends(c)
    BY <1>2, <1>3, <1>6, <2>2 DEF Check, Goto, disk
  <2> QED BY <2>1, <2>2
<1>7. ASSUME NEW c \in Starts, Spawn(c) PROVE FileInv'
  BY <1>2, <1>3, <1>7 DEF Spawn, Goto
<1>8. ASSUME NEW c \in Starts, Healthy(c) PROVE FileInv'
  BY <1>2, <1>3, <1>8 DEF Healthy, Goto
<1>9. ASSUME NEW c \in Starts, StartFails(c) PROVE FileInv'
  BY <1>4, <1>9 DEF StartFails
<1>10. ASSUME NEW c \in Starts, Register(c) PROVE FileInv'
  BY <1>2, <1>3, <1>10 DEF Register, Goto
<1>11. ASSUME NEW c \in Starts, Persist(c) PROVE FileInv'
  <2>1. CASE Ends(c)
    BY <1>4, <1>11, <2>1 DEF Persist
  <2>2. CASE ~Ends(c)
    BY <1>2, <1>3, <1>11, <2>2 DEF Persist, Goto, disk
  <2> QED BY <2>1, <2>2
<1>12. ASSUME NEW c \in Starts, Restart(c) \/ RestartFails(c) PROVE FileInv'
  <2>1. CASE Ends(c)
    BY <1>4, <1>12, <2>1 DEF Restart, RestartFails
  <2>2. CASE ~Ends(c)
    BY <1>5, <1>12, <2>2 DEF Restart, RestartFails, disk
  <2> QED BY <2>1, <2>2
<1>13. ASSUME WorkerDies \/ Pause \/ UNCHANGED vars PROVE FileInv'
  BY <1>5, <1>13 DEF WorkerDies, Pause, vars
<1> QED BY <1>1, <1>6, <1>7, <1>8, <1>9, <1>10, <1>11, <1>12, <1>13,
           LoadFile, TruncateFile, PutFile DEF Next
-----------------------------------------------------------------------------
(* The agent and its worker.                                                 *)

Early == {"load", "save", "put", "check", "spawn"}
Registered == Agents \ {"spawn", "wait", "register"}

\* A step of c to q that makes it no more of an agent than it was.
LEMMA QuietAgent ==
  ASSUME TypeOK, AgentInv, NEW c \in Commands, NEW q \in Phases,
         pc' = [pc EXCEPT ![c] = q], UNCHANGED <<serving, row, mixed>>,
         \A d \in Starts \ {c} : copy'[d].ram = copy[d].ram,
         c \in Starts =>
           /\ q \in Early => pc[c] \in Early
           /\ q \in Agents => pc[c] \in Agents /\ copy'[c].ram = copy[c].ram
           /\ q \in Agents \ {"spawn", "wait"} => pc[c] \in Agents \ {"spawn", "wait"}
           /\ q \in Registered => pc[c] \in Registered
  PROVE  AgentInv'
<1>1. pc'[c] = q /\ \A d \in Commands \ {c} : pc'[d] = pc[d]
  BY DEF TypeOK
<1>2. Starts \subseteq Commands
  BY DEF Commands
<1>3. \A d \in Starts :
        /\ pc'[d] \in Early => pc[d] \in Early
        /\ pc'[d] \in Agents => pc[d] \in Agents /\ copy'[d].ram = copy[d].ram
        /\ pc'[d] \in Agents \ {"spawn", "wait"} => pc[d] \in Agents \ {"spawn", "wait"}
        /\ pc'[d] \in Registered => pc[d] \in Registered
  BY <1>1, <1>2
<1> HIDE DEF Agents, Early, Registered
<1> QED BY <1>3 DEF AgentInv, Early, Registered

LEMMA AgentStep == TypeOK /\ AgentInv /\ [Next]_vars => AgentInv'
<1> SUFFICES ASSUME TypeOK, AgentInv, [Next]_vars PROVE AgentInv' OBVIOUS
<1>1. /\ "done" \in Phases \ (Agents \cup Early) /\ Starts \subseteq Commands
      /\ {"save", "put", "check", "wait", "register", "resave", "reput", "persist",
          "running"} \subseteq Phases
      /\ {"resave", "reput", "persist", "running"} \subseteq Registered
      /\ Registered \subseteq Agents \ {"spawn", "wait"}
  BY DEF Phases, Saving, Agents, Resaving, Early, Registered, Commands
<1>2. ASSUME NEW c \in Commands, Ends(c), UNCHANGED <<serving, row, mixed>> PROVE AgentInv'
  <2>1. \A d \in Starts \ {c} : copy'[d].ram = copy[d].ram
    BY <1>1, <1>2 DEF Ends, TypeOK
  <2>2. "done" \notin Registered /\ "done" \notin Agents \ {"spawn", "wait"}
    BY <1>1
  <2> QED BY <1>1, <1>2, <2>1, <2>2, QuietAgent DEF Ends, Goto
<1>3. ASSUME NEW c \in Commands, Load(c) \/ Truncate(c) \/ Put(c) PROVE AgentInv'
  <2>1. UNCHANGED <<serving, row, mixed>>
    BY <1>3 DEF Load, Truncate, Put, agent
  <2>2. CASE Ends(c)
    BY <1>2, <2>1, <2>2
  <2>3. CASE ~Ends(c)
    <3>1. PICK q \in Phases :
             /\ pc' = [pc EXCEPT ![c] = q]
             /\ \/ q = "done" /\ c \notin Starts
                \/ q \in {"save", "put", "check"} /\ pc[c] \in {"load", "save", "put"}
                \/ /\ q \in {"reput", "persist"} /\ pc[c] \in Resaving
                   /\ c \notin Starts \/ UNCHANGED copy
      <4>1. CASE Load(c)
        BY <1>1, <2>3, <4>1 DEF Load, Goto
      <4>2. CASE Truncate(c)
        BY <1>1, <4>2 DEF Truncate, Goto, Resaving
      <4>3. CASE Put(c)
        BY <1>1, <4>3 DEF Put, Goto, Resaving
      <4> QED BY <1>3, <4>1, <4>2, <4>3
    <3>2. \A d \in Starts \ {c} : copy'[d].ram = copy[d].ram
      BY <1>1, <1>3, <2>3 DEF Load, Truncate, Put, TypeOK
    <3>3. CASE c \notin Starts
      BY <2>1, <3>1, <3>2, <3>3, QuietAgent
    <3>4. CASE c \in Starts /\ q \in {"save", "put", "check"}
      <4>1. q \in Early \ Agents /\ pc[c] \in Early /\ q \notin Registered
        BY <3>1, <3>4 DEF Early, Agents, Registered, Resaving
      <4> QED BY <2>1, <3>1, <3>2, <4>1, QuietAgent
    <3>5. CASE c \in Starts /\ q \in {"reput", "persist"}
      <4>1. q \notin Early /\ pc[c] \in Registered /\ UNCHANGED copy
        BY <1>1, <3>1, <3>5 DEF Early, Resaving
      <4> QED BY <1>1, <2>1, <3>1, <3>2, <4>1, QuietAgent
    <3>6. c \notin Starts \/ q \in {"save", "put", "check"} \/ q \in {"reput", "persist"}
      BY <3>1
    <3> QED BY <3>3, <3>4, <3>5, <3>6
  <2> QED BY <2>2, <2>3
<1>4. ASSUME NEW c \in Commands, Killed(c) PROVE AgentInv'
  BY <1>2, <1>4 DEF Killed
<1>5. ASSUME NEW c \in Starts, Ends(c), UNCHANGED <<serving, row, mixed>> PROVE AgentInv'
  BY <1>1, <1>2, <1>5
<1>6. ASSUME NEW c \in Starts, Check(c), ~Ends(c) PROVE AgentInv'
  <2>1. /\ pc[c] = "check" /\ pc'[c] = "spawn" /\ \A d \in Starts \ {c} : pc'[d] = pc[d]
        /\ UNCHANGED <<copy, serving, row>>
        /\ mixed' = (mixed \/ \E d \in Starts : pc[d] \in Agents)
    BY <1>1, <1>6 DEF Check, Goto, TypeOK
  <2>2. serving.by # c
    BY <2>1 DEF AgentInv
  <2>3. ~mixed' => \A d \in Starts \ {c} : pc'[d] \notin Agents
    BY <2>1
  <2> QED BY <2>1, <2>2, <2>3 DEF AgentInv, Early
<1>7. ASSUME NEW c \in Starts, Spawn(c) PROVE AgentInv'
  <2>1. /\ pc[c] = "spawn" /\ pc'[c] = "wait" /\ \A d \in Starts \ {c} : pc'[d] = pc[d]
        /\ UNCHANGED <<copy, row, mixed>>
        /\ \/ serving' = serving
           \/ serving' = [by |-> c, limit |-> GuardLimit(copy[c].ram)]
    BY <1>1, <1>7 DEF Spawn, Goto, TypeOK
  <2>2. serving.by # c /\ "spawn" \in Agents
    BY <2>1 DEF AgentInv, Agents
  <2>3. ~mixed => \A d \in Starts \ {c} : pc[d] \notin Agents
    BY <2>1, <2>2 DEF AgentInv
  <2> QED BY <2>1, <2>2, <2>3 DEF AgentInv
<1>8. ASSUME NEW c \in Starts, Healthy(c) PROVE AgentInv'
  <2>1. /\ pc[c] = "wait" /\ pc'[c] = "register" /\ \A d \in Starts \ {c} : pc'[d] = pc[d]
        /\ UNCHANGED <<copy, serving, row>> /\ mixed' = (mixed \/ serving.by # c)
    BY <1>1, <1>8 DEF Healthy, Goto, TypeOK
  <2>2. "wait" \in Agents
    BY DEF Agents
  <2> QED BY <2>1, <2>2 DEF AgentInv
<1>9. ASSUME NEW c \in Starts, Register(c) PROVE AgentInv'
  <2>1. /\ pc[c] = "register" /\ pc'[c] = "resave" /\ \A d \in Starts \ {c} : pc'[d] = pc[d]
        /\ UNCHANGED <<serving, mixed>> /\ row' = Offer(copy[c].ram)
        /\ \A d \in Starts : copy'[d].ram = copy[d].ram
    <3>1. copy' = [copy EXCEPT ![c] = [copy[c] EXCEPT !.node = TRUE]] /\ copy[c] \in Config
      BY <1>1, <1>9 DEF Register, TypeOK
    <3>2. \A d \in Starts : copy'[d].ram = copy[d].ram
      BY <1>1, <3>1, Sized DEF TypeOK
    <3> QED BY <1>1, <1>9, <3>2 DEF Register, Goto, TypeOK
  <2>2. "register" \in Agents \ {"spawn", "wait"}
    BY DEF Agents
  <2> QED BY <2>1, <2>2 DEF AgentInv
<1>10. ASSUME NEW c \in Starts, Persist(c), ~Ends(c) PROVE AgentInv'
  <2>1. pc[c] = "persist" /\ pc' = [pc EXCEPT ![c] = "running"]
        /\ UNCHANGED <<copy, serving, row, mixed>>
    BY <1>10 DEF Persist, Goto
  <2>2. "running" \notin Early
    BY DEF Early
  <2> QED BY <1>1, <2>1, <2>2, QuietAgent
<1>11. ASSUME NEW c \in Starts, Restart(c), ~Ends(c) PROVE AgentInv'
  <2>1. /\ pc[c] = "running" /\ "running" \in Agents \ {"spawn", "wait"}
        /\ serving.by # c /\ UNCHANGED <<pc, copy, row>>
        /\ mixed' = (mixed \/ serving.by # None)
        /\ serving' = IF serving.by = None
                        THEN [by |-> c, limit |-> GuardLimit(copy[c].ram)] ELSE serving
    BY <1>11 DEF Restart, HeldLimit, Agents
  <2>2. CASE serving.by = None
    <3>1. ~mixed => \A d \in Starts \ {c} : pc[d] \notin Agents
      BY <2>1 DEF AgentInv
    <3>2. pc[c] \notin Early
      BY <2>1 DEF Early
    <3> QED BY <2>1, <2>2, <3>1, <3>2 DEF AgentInv, Early
  <2>3. CASE serving.by # None
    BY <2>1, <2>3 DEF AgentInv
  <2> QED BY <2>2, <2>3
<1>12. ASSUME WorkerDies PROVE AgentInv'
  <2>1. None \notin Starts /\ serving'.by = None /\ UNCHANGED <<pc, copy, row, mixed>>
    BY <1>12, CommandAssumption DEF WorkerDies
  <2> QED BY <2>1 DEF AgentInv
<1>13. ASSUME Pause \/ UNCHANGED vars PROVE AgentInv'
  BY <1>13 DEF AgentInv, Pause, vars, agent
<1>14. ASSUME NEW c \in Starts, Ends(c),
              \/ Check(c) \/ StartFails(c) \/ Persist(c) \/ Restart(c) \/ RestartFails(c)
       PROVE  AgentInv'
  <2>1. Goto(c, "done")
    BY <1>14 DEF Ends
  <2>2. pc[c] # pc'[c] /\ pc'[c] = "done"
    BY <1>1, <1>14, <2>1 DEF Goto, TypeOK, Check, StartFails, Persist, Restart, RestartFails
  <2>3. UNCHANGED <<serving, row, mixed>>
    <3>1. CASE Check(c)
      BY <1>1, <2>2, <3>1 DEF Check, Goto, TypeOK
    <3>2. CASE Persist(c) \/ StartFails(c) \/ RestartFails(c)
      BY <3>2 DEF Persist, StartFails, RestartFails, agent
    <3>3. CASE Restart(c)
      BY <2>2, <3>3 DEF Restart
    <3> QED BY <1>14, <3>1, <3>2, <3>3
  <2> QED BY <1>5, <1>14, <2>3
<1>15. ASSUME NEW c \in Starts, StartFails(c) \/ RestartFails(c) PROVE Ends(c)
  BY <1>15 DEF StartFails, RestartFails
<1> QED BY <1>3, <1>4, <1>6, <1>7, <1>8, <1>9, <1>10, <1>11, <1>12, <1>13, <1>14, <1>15
        DEF Next
-----------------------------------------------------------------------------
(* What a reader should know of.                                             *)

(* Every reachable state satisfies the inductive invariant.                  *)
THEOREM ConfigInvariant == Spec => []ConfigInv
<1>1. ConfigInv /\ [Next]_vars => ConfigInv'
  BY TypeStep, FileStep, AgentStep DEF ConfigInv
<1> QED BY <1>1, InitConfig, PTL DEF Spec

(* The file and the copies are configurations, for any commands and options. *)
THEOREM ConfigTypeCorrect == Spec => []TypeOK
<1>1. ConfigInv => TypeOK
  BY DEF ConfigInv
<1> QED BY <1>1, ConfigInvariant, PTL

(* However many commands are run, killed and run again, a setting is lost    *)
(* only where two of them overlapped or where a save was cut.                *)
THEOREM SettingsKept == Spec => []LostOnlyByClash
<1>1. ConfigInv => LostOnlyByClash
  BY DEF ConfigInv, FileInv, LostOnlyByClash, Writing
<1> QED BY <1>1, ConfigInvariant, PTL

(* However often a worker is restarted and the file edited meanwhile, the    *)
(* coordinator's row is what the guard enforces, for sizes in g and m.       *)
THEOREM OfferIsEnforced == Spec => []OfferEnforced
<1>1. ASSUME ConfigInv PROVE OfferEnforced
  <2> SUFFICES ASSUME NEW c \in Starts, ~mixed, pc[c] = "running", serving.by # None,
                      copy[c].ram.unit \in {"g", "m"}
               PROVE  serving = [by |-> c, limit |-> row]
    BY DEF OfferEnforced
  <2>1. "running" \in Agents \ {"spawn", "wait", "register"}
    BY DEF Agents
  <2>2. serving.by = c /\ serving.limit = GuardLimit(copy[c].ram) /\ row = Offer(copy[c].ram)
    BY <1>1, <2>1 DEF ConfigInv, AgentInv
  <2>3. copy[c] \in Config /\ serving = [by |-> serving.by, limit |-> serving.limit]
    BY <1>1 DEF ConfigInv, TypeOK, Commands
  <2> QED BY <2>2, <2>3, Sized
<1> QED BY <1>1, ConfigInvariant, PTL
=============================================================================
