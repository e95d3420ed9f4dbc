------------------------ MODULE NodeRegistryProofs ------------------------
(***************************************************************************)
(* NodeRegistry's properties for every set of agents, every configuration  *)
(* and every interval, as long as a row outlives three heartbeats          *)
(* (TimeAssumption): the types, the table, what a step may do to a row,    *)
(* whose credential is whose, and why a node that beats stays online.      *)
(***************************************************************************)
EXTENDS NodeRegistry, TLAPS

USE DEF dbVars, agentVars

-----------------------------------------------------------------------------
(* Type correctness.                                                       *)

\* A counted heartbeat leaves a row that is new in age and the same in identity.
LEMMA BeatenRow ==
  ASSUME NEW r \in Row
  PROVE  /\ Beaten(r) \in Row
         /\ Beaten(r).id = r.id /\ Beaten(r).name = r.name /\ Beaten(r).url = r.url
         /\ Beaten(r).age = 0 /\ Beaten(r).score >= r.score
<1> DEFINE score == IF r.score < MaxScore THEN r.score + 1 ELSE r.score
<1>1. score \in 0 .. MaxScore /\ score >= r.score
  BY TimeAssumption DEF Row
<1>2. 0 \in Ages
  BY TimeAssumption DEF Ages
<1>3. Beaten(r) = [r EXCEPT !.age = 0, !.score = score]
  BY DEF Beaten
<1> HIDE DEF score
<1> QED BY <1>1, <1>2, <1>3 DEF Row

\* A tick leaves a row that is the same in identity and older by at most one.
LEMMA AgedRow ==
  ASSUME NEW r \in Row
  PROVE  /\ Aged(r) \in Row
         /\ Aged(r).id = r.id /\ Aged(r).name = r.name /\ Aged(r).url = r.url
         /\ Aged(r).score = r.score
         /\ r.age <= Aged(r).age /\ Aged(r).age <= r.age + 1
<1> DEFINE age == IF IsStale(r.age) THEN r.age ELSE r.age + 1
<1>1. age \in Ages /\ r.age <= age /\ age <= r.age + 1
  BY TimeAssumption DEF Row, Ages, IsStale
<1>2. Aged(r) = [r EXCEPT !.age = age]
  BY DEF Aged
<1> HIDE DEF age
<1> QED BY <1>1, <1>2 DEF Row

\* The statements of db.rs make rows of rows.
LEMMA RowTypes ==
  /\ \A R : R \subseteq Row => DropStale(R) \subseteq Row
  /\ \A R, u, id : R \subseteq Row => DeleteUrlExcept(R, u, id) \subseteq Row
  /\ \A R : \A id : R \subseteq Row => Touch(R, id) \subseteq Row
  /\ \A R : \A row \in Row : R \subseteq Row => Upsert(R, row) \subseteq Row
  /\ \A r \in Row : \A age \in 0 .. LockWait : Renewed(r, age) \in Row
  /\ \A id \in Ids : \A who \in [name: Names, url: Urls] : \A age \in 0 .. LockWait :
       FreshRow(id, who, age) \in Row
<1>1. \A r \in Row : \A age \in 0 .. LockWait : Renewed(r, age) \in Row
  <2> SUFFICES ASSUME NEW r \in Row, NEW age \in 0 .. LockWait PROVE Renewed(r, age) \in Row
    OBVIOUS
  <2>1. age \in Ages
    BY TimeAssumption DEF Ages
  <2> QED BY <2>1 DEF Renewed, Row
<1>2. \A R : \A id : R \subseteq Row => Touch(R, id) \subseteq Row
  BY BeatenRow DEF Touch
<1>3. \A id \in Ids : \A who \in [name: Names, url: Urls] : \A age \in 0 .. LockWait :
        FreshRow(id, who, age) \in Row
  BY TimeAssumption DEF FreshRow, Row, Ages
<1> QED BY <1>1, <1>2, <1>3 DEF DropStale, DeleteUrlExcept, Upsert

\* What register_node writes for a request that read its clock w.lag ago: the row of the
\* identity renewed, or the first one of it under an id never drawn.
LEMMA WrittenRow ==
  ASSUME TypeOK, NEW w \in waiting, NEW row \in RowsFor(w)
  PROVE  /\ row \in Row /\ row.age = w.lag /\ row.age <= Interval /\ ~IsStale(row.age)
         /\ row.name = config[w.by].name /\ row.url = config[w.by].url
         /\ \/ \E r \in rows : /\ row = Renewed(r, w.lag)
                               /\ row.id = r.id /\ row.name = r.name /\ row.url = r.url
                               /\ row.score = r.score
            \/ /\ ByIdentity(rows, config[w.by]) = {}
               /\ row.id \in Ids \ used
               /\ row = FreshRow(row.id, config[w.by], w.lag)
<1>1. w.by \in Agents /\ w.lag \in 0 .. LockWait /\ config[w.by] \in [name: Names, url: Urls]
  BY DEF TypeOK, TableTypeOK
<1>2. w.lag \in Nat /\ w.lag <= Interval /\ ~IsStale(w.lag)
  BY <1>1, TimeAssumption DEF IsStale
<1>3. CASE \E r \in ByIdentity(rows, config[w.by]) : row = Renewed(r, w.lag)
  <2> PICK r \in ByIdentity(rows, config[w.by]) : row = Renewed(r, w.lag)
    BY <1>3
  <2>1. r \in rows /\ r \in Row /\ r.name = config[w.by].name /\ r.url = config[w.by].url
    BY DEF ByIdentity, TypeOK, TableTypeOK
  <2>2. row \in Row
    BY <1>1, <2>1, RowTypes
  <2>3. /\ row.id = r.id /\ row.name = r.name /\ row.url = r.url
        /\ row.age = w.lag /\ row.score = r.score
    BY <2>1 DEF Renewed, Row
  <2> QED BY <1>2, <2>1, <2>2, <2>3
<1>4. CASE /\ ByIdentity(rows, config[w.by]) = {}
           /\ \E id \in Ids \ used : row = FreshRow(id, config[w.by], w.lag)
  <2> PICK id \in Ids \ used : row = FreshRow(id, config[w.by], w.lag)
    BY <1>4
  <2>1. row \in Row
    BY <1>1, RowTypes
  <2>2. /\ row.id = id /\ row.name = config[w.by].name /\ row.url = config[w.by].url
        /\ row.age = w.lag
    BY DEF FreshRow
  <2> QED BY <1>2, <1>4, <2>1, <2>2
<1> QED BY <1>3, <1>4 DEF RowsFor

\* The agent's reaction to an answer keeps its variables typed.
LEMMA AnswerTypes ==
  ASSUME AgentTypeOK, NEW a \in Agents, NEW ok \in BOOLEAN, Answer(a, ok)
  PROVE  /\ agent' \in [Agents -> Phases]
         /\ timer' \in [Agents -> Nat]
         /\ missed' \in [Agents -> 0 .. 2]
<1>1. CASE FirstAnswer(a, ok)
  <2>1. agent' \in [Agents -> Phases]
    BY <1>1 DEF FirstAnswer, Exit, AgentTypeOK, Phases
  <2>2. timer' \in [Agents -> Nat]
    BY <1>1 DEF FirstAnswer, Exit, AgentTypeOK
  <2>3. missed' \in [Agents -> 0 .. 2]
    BY <1>1 DEF FirstAnswer, Exit, AgentTypeOK
  <2> QED BY <2>1, <2>2, <2>3
<1>2. CASE LoopAnswer(a, ok)
  <2>1. agent' \in [Agents -> Phases]
    BY <1>2 DEF LoopAnswer, AgentTypeOK, Phases
  <2>2. timer' \in [Agents -> Nat]
    BY <1>2, TimeAssumption DEF LoopAnswer, AgentTypeOK
  <2>3. missed' \in [Agents -> 0 .. 2]
    BY <1>2 DEF LoopAnswer, AgentTypeOK
  <2> QED BY <2>1, <2>2, <2>3
<1> QED BY <1>1, <1>2 DEF Answer

\* So does an answer that may be lost.
LEMMA ReplyTypes ==
  ASSUME AgentTypeOK, NEW a \in Agents, NEW ok \in BOOLEAN, Reply(a, ok),
         UNCHANGED <<cred, regReq>>, hbReq' \in [Agents -> {"none", "sent", "verified"}]
  PROVE  AgentTypeOK'
<1>1. CASE Answer(a, ok)
  BY <1>1, AnswerTypes DEF AgentTypeOK
<1>2. CASE UNCHANGED <<agent, missed, timer>>
  BY <1>2 DEF AgentTypeOK
<1> QED BY <1>1, <1>2 DEF Reply

\* The passing of time keeps every type.
LEMMA TickTypes == TypeOK /\ Tick => TypeOK'
<1> SUFFICES ASSUME TypeOK, Tick PROVE TypeOK'
  OBVIOUS
<1>1. rows' \subseteq Row
  BY AgedRow DEF Tick, TypeOK, TableTypeOK
<1>2. timer' \in [Agents -> Nat]
  <2> SUFFICES ASSUME NEW a \in Agents
               PROVE  (IF agent[a] # "down" THEN timer[a] - 1 ELSE timer[a]) \in Nat
    BY DEF Tick
  <2> QED BY DEF Tick, TypeOK, AgentTypeOK
<1>3. waiting' \subseteq [by: Agents, lag: 0 .. LockWait]
  <2> SUFFICES ASSUME NEW w \in waiting PROVE Later(w) \in [by: Agents, lag: 0 .. LockWait]
    BY DEF Tick
  <2>1. w \in [by: Agents, lag: 0 .. LockWait] /\ w.lag < LockWait
    BY DEF Tick, TypeOK, TableTypeOK
  <2>2. w.lag + 1 \in 0 .. LockWait
    BY <2>1, TimeAssumption
  <2> QED BY <2>1, <2>2 DEF Later
<1>4. pending' \subseteq [by: Agents, lag: 0 .. LockWait, id: Ids]
  <2> SUFFICES ASSUME NEW p \in pending PROVE Later(p) \in [by: Agents, lag: 0 .. LockWait, id: Ids]
    BY DEF Tick
  <2>1. p \in [by: Agents, lag: 0 .. LockWait, id: Ids] /\ p.lag < LockWait
    BY DEF Tick, TypeOK, TableTypeOK
  <2>2. p.lag + 1 \in 0 .. LockWait
    BY <2>1, TimeAssumption
  <2> QED BY <2>1, <2>2 DEF Later
<1> QED BY <1>1, <1>2, <1>3, <1>4 DEF Tick, TypeOK, TableTypeOK, AgentTypeOK

\* Every variable keeps its type.
THEOREM TypeCorrect == Spec => []TypeOK
<1>1. Init => TypeOK
  <2> SUFFICES ASSUME Init PROVE TypeOK
    OBVIOUS
  <2>1. TableTypeOK
    BY ConfigsAssumption DEF Init, TableTypeOK
  <2>2. agent \in [Agents -> Phases] /\ cred \in [Agents -> Ids \cup {NoId}]
    BY DEF Init, Phases
  <2>3. timer \in [Agents -> Nat] /\ missed \in [Agents -> 0 .. 2]
    BY DEF Init
  <2>4. regReq \in [Agents -> BOOLEAN] /\ hbReq \in [Agents -> {"none", "sent", "verified"}]
    BY DEF Init
  <2> QED BY <2>1, <2>2, <2>3, <2>4 DEF TypeOK, AgentTypeOK
<1>2. TypeOK /\ [Next]_vars => TypeOK'
  <2> SUFFICES ASSUME TypeOK, [Next]_vars PROVE TypeOK'
    OBVIOUS
  <2>1. CASE Tick
    BY <2>1, TickTypes
  <2>2. CASE PruneBegin
    <3>1. rows' \subseteq Row
      BY <2>2, RowTypes DEF PruneBegin, TypeOK, TableTypeOK
    <3>2. keep' \subseteq Ids /\ booting' \in BOOLEAN /\ dbOp' \in {"idle", "deduping"}
      BY <2>2, <3>1 DEF PruneBegin, PruneTo, TypeOK, TableTypeOK, Row
    <3> QED BY <2>2, <3>1, <3>2 DEF PruneBegin, TypeOK, TableTypeOK, AgentTypeOK
  <2>3. CASE PruneUrl
    BY <2>3, RowTypes DEF PruneUrl, PruneTo, TypeOK, TableTypeOK, AgentTypeOK
  <2>4. CASE PruneFails
    BY <2>4 DEF PruneFails, TypeOK, TableTypeOK, AgentTypeOK
  <2>5. CASE RegisterDelete
    <3> PICK p \in pending : RegisterDelete!(p)
      BY <2>5 DEF RegisterDelete
    <3>1. TableTypeOK'
      BY RowTypes DEF TypeOK, TableTypeOK
    <3>2. AgentTypeOK'
      <4>1. p.by \in Agents /\ p.id \in Ids
        BY DEF TypeOK, TableTypeOK
      <4>2. CASE UNCHANGED <<agent, cred, timer, hbReq>>
        BY <4>2 DEF TypeOK, AgentTypeOK
      <4>3. CASE /\ agent' = [agent EXCEPT ![p.by] = "starting"]
                 /\ cred' = [cred EXCEPT ![p.by] = p.id]
                 /\ timer' = [timer EXCEPT ![p.by] = Interval]
                 /\ hbReq' = [hbReq EXCEPT ![p.by] = "sent"]
        BY <4>1, <4>3, TimeAssumption DEF TypeOK, AgentTypeOK, Phases
      <4> QED BY <4>2, <4>3
    <3> QED BY <3>1, <3>2 DEF TypeOK
  <2>6. CASE RegisterDeleteFails
    <3> PICK p \in pending : RegisterDeleteFails!(p)
      BY <2>6 DEF RegisterDeleteFails
    <3>1. TableTypeOK'
      BY DEF TypeOK, TableTypeOK
    <3>2. AgentTypeOK'
      <4>1. p.by \in Agents
        BY DEF TypeOK, TableTypeOK
      <4>2. CASE Exit(p.by)
        BY <4>1, <4>2 DEF Exit, TypeOK, AgentTypeOK, Phases
      <4>3. CASE UNCHANGED <<agent, timer, missed>>
        BY <4>3 DEF TypeOK, AgentTypeOK
      <4> QED BY <4>2, <4>3
    <3> QED BY <3>1, <3>2 DEF TypeOK
  <2>7. CASE Crash
    BY <2>7 DEF Crash, TypeOK, TableTypeOK, AgentTypeOK
  <2>8. ASSUME NEW w \in waiting, RegisterUpsert(w) PROVE TypeOK'
    <3> PICK row \in RowsFor(w) :
          /\ rows' = Upsert(rows, row)
          /\ used' = used \cup {row.id}
          /\ pending' = {[by |-> w.by, lag |-> w.lag, id |-> row.id]}
          /\ missed' = [a \in Agents |-> IF missed[a] = 0 /\ TakenBack(a, row) THEN 1 ELSE missed[a]]
      BY <2>8 DEF RegisterUpsert
    <3>1. row \in Row /\ row.id \in Ids
      BY WrittenRow DEF Row
    <3>2. w \in [by: Agents, lag: 0 .. LockWait]
      BY DEF TypeOK, TableTypeOK
    <3>3. rows' \subseteq Row /\ used' \subseteq Ids
      BY <3>1, RowTypes DEF TypeOK, TableTypeOK
    <3>4. /\ pending' \subseteq [by: Agents, lag: 0 .. LockWait, id: Ids]
          /\ waiting' \subseteq [by: Agents, lag: 0 .. LockWait]
      BY <2>8, <3>1, <3>2 DEF RegisterUpsert, TypeOK, TableTypeOK
    <3>5. missed' \in [Agents -> 0 .. 2]
      BY DEF TypeOK, AgentTypeOK
    <3>6. TableTypeOK'
      BY <2>8, <3>3, <3>4 DEF RegisterUpsert, TypeOK, TableTypeOK
    <3>7. AgentTypeOK'
      BY <2>8, <3>5 DEF RegisterUpsert, TypeOK, AgentTypeOK
    <3> QED BY <3>6, <3>7 DEF TypeOK
  <2>9. ASSUME NEW a \in Agents, HeartbeatVerify(a) PROVE TypeOK'
    <3>1. TableTypeOK'
      BY <2>9 DEF HeartbeatVerify, TypeOK, TableTypeOK
    <3>2. CASE /\ hbReq' = [hbReq EXCEPT ![a] = "verified"]
               /\ UNCHANGED <<agent, missed, timer>>
      BY <3>1, <3>2, <2>9 DEF HeartbeatVerify, TypeOK, AgentTypeOK
    <3>3. CASE hbReq' = [hbReq EXCEPT ![a] = "none"] /\ Reply(a, FALSE)
      <4>1. hbReq' \in [Agents -> {"none", "sent", "verified"}]
        BY <3>3 DEF TypeOK, AgentTypeOK
      <4> QED BY <4>1, <3>1, <3>3, <2>9, ReplyTypes DEF HeartbeatVerify, TypeOK
    <3> QED BY <3>2, <3>3, <2>9 DEF HeartbeatVerify
  <2>10. ASSUME NEW a \in Agents, HeartbeatApply(a) PROVE TypeOK'
    <3>1. TableTypeOK'
      BY <2>10, RowTypes DEF HeartbeatApply, TypeOK, TableTypeOK
    <3>2. Known(cred[a]) \in BOOLEAN
      BY DEF Known
    <3>3. hbReq' \in [Agents -> {"none", "sent", "verified"}]
      BY <2>10 DEF HeartbeatApply, TypeOK, AgentTypeOK
    <3> QED BY <3>1, <3>2, <3>3, <2>10, ReplyTypes DEF HeartbeatApply, TypeOK
  <2>11. ASSUME NEW a \in Agents, AgentStep(a) PROVE TypeOK'
    <3>1. TableTypeOK'
      BY <2>11 DEF AgentStep, AgentStart, RegisterFails, AgentStops, BeatSend, BeatFails,
                   RestartEnd, TypeOK, TableTypeOK
    <3>2. CASE AgentStart(a)
      BY <3>1, <3>2, TimeAssumption DEF AgentStart, TypeOK, AgentTypeOK, Phases
    <3>3. CASE RegisterFails(a)
      <4>1. regReq' \in [Agents -> BOOLEAN]
        BY <3>3 DEF RegisterFails, TypeOK, AgentTypeOK
      <4>2. /\ agent' \in [Agents -> Phases]
            /\ timer' \in [Agents -> Nat]
            /\ missed' \in [Agents -> 0 .. 2]
        BY <3>3 DEF RegisterFails, Exit, TypeOK, AgentTypeOK, Phases
      <4>3. cred' = cred /\ hbReq' = hbReq
        BY <3>3 DEF RegisterFails
      <4> QED BY <3>1, <4>1, <4>2, <4>3 DEF TypeOK, AgentTypeOK
    <3>4. CASE AgentStops(a)
      BY <3>1, <3>4 DEF AgentStops, Exit, TypeOK, AgentTypeOK, Phases
    <3>5. CASE BeatSend(a)
      BY <3>1, <3>5, TimeAssumption DEF BeatSend, TypeOK, AgentTypeOK, Phases
    <3>6. CASE BeatFails(a)
      <4>1. /\ agent' \in [Agents -> Phases]
            /\ timer' \in [Agents -> Nat]
            /\ missed' \in [Agents -> 0 .. 2]
        BY <3>6, AnswerTypes DEF BeatFails, TypeOK
      <4>2. hbReq' \in [Agents -> {"none", "sent", "verified"}]
        BY <3>6 DEF BeatFails, TypeOK, AgentTypeOK
      <4>3. cred' = cred /\ regReq' = regReq
        BY <3>6 DEF BeatFails
      <4> QED BY <3>1, <4>1, <4>2, <4>3 DEF TypeOK, AgentTypeOK
    <3>7. CASE RestartEnd(a)
      BY <3>1, <3>7, TimeAssumption DEF RestartEnd, TypeOK, AgentTypeOK, Phases
    <3> QED BY <2>11, <3>2, <3>3, <3>4, <3>5, <3>6, <3>7 DEF AgentStep
  <2>12. ASSUME NEW a \in Agents, RegisterClock(a) PROVE TypeOK'
    <3>1. [by |-> a, lag |-> 0] \in [by: Agents, lag: 0 .. LockWait]
      BY TimeAssumption
    <3>2. TableTypeOK'
      BY <2>12, <3>1 DEF RegisterClock, TypeOK, TableTypeOK
    <3>3. AgentTypeOK'
      BY <2>12 DEF RegisterClock, TypeOK, AgentTypeOK
    <3> QED BY <3>2, <3>3 DEF TypeOK
  <2>13. CASE UNCHANGED vars
    BY <2>13 DEF vars, TypeOK, TableTypeOK, AgentTypeOK
  <2> QED BY <2>1, <2>2, <2>3, <2>4, <2>5, <2>6, <2>7, <2>8, <2>9, <2>10, <2>11, <2>12, <2>13
          DEF Next, Coordinator
<1> QED BY <1>1, <1>2, PTL DEF Spec

-----------------------------------------------------------------------------
(* The table.  IdentityUnique and DuplicateUrlOnlyIfTorn are not inductive:   *)
(* they need the primary key, the freshness of the ids drawn, what a handler  *)
(* that holds the mutex has already done, and which duplicates the interrupted *)
(* handler or the running prune still answers for.                            *)

KeyUnique == \A r, s \in rows : r.id = s.id => r = s

IdsUsed == \A r \in rows : r.id \in used

SameIdentity(r, who) == r.name = who.name /\ r.url = who.url

RowsOwned == \A r \in rows : \E a \in Agents : SameIdentity(r, config[a])

PendingInv ==
  /\ pending # {} <=> dbOp = "registering"
  /\ \A p, q \in pending : p = q
  /\ \A p \in pending : \E r \in rows :
       r.id = p.id /\ SameIdentity(r, config[p.by]) /\ r.age = p.lag

KeepInv ==
  /\ keep # {} => dbOp = "deduping"
  /\ booting => dbOp = "deduping"
  /\ \A k \in keep : \E r \in rows : r.id = k
  /\ \A r, s \in rows : r.id \in keep /\ s.id \in keep /\ r.url = s.url => r = s

DuplicatesOwned ==
  \A r, s \in rows : r.url = s.url /\ r.id # s.id =>
    \/ r.url \in torn
    \/ dbOp = "down"
    \/ \E p \in pending : config[p.by].url = r.url
    \/ booting /\ \E k \in rows : k.id \in keep /\ k.url = r.url

TableInv ==
  /\ KeyUnique /\ IdsUsed /\ IdentityUnique /\ RowsOwned
  /\ PendingInv /\ KeepInv /\ DuplicatesOwned

USE DEF SameIdentity

\* The empty table satisfies the invariant.
LEMMA TableInvInit == Init => TableInv
BY DEF Init, TableInv, KeyUnique, IdsUsed, IdentityUnique, RowsOwned, PendingInv, KeepInv,
       DuplicatesOwned

\* The fields a property of the table reads survive a map over its rows.
LEMMA MapTable ==
  ASSUME TableInv, NEW f, rows' = {f[r] : r \in rows},
         \A r \in rows : f[r].id = r.id /\ f[r].name = r.name /\ f[r].url = r.url,
         UNCHANGED <<config, used, dbOp, keep, booting, torn>>,
         PendingInv', \A p \in pending : \E q \in pending' : q.by = p.by
  PROVE  TableInv'
<1>1. KeyUnique'
  BY DEF TableInv, KeyUnique
<1>2. IdsUsed' /\ RowsOwned'
  BY DEF TableInv, IdsUsed, RowsOwned
<1>3. IdentityUnique'
  BY DEF TableInv, IdentityUnique
<1>4. PendingInv'
  OBVIOUS
<1>5. KeepInv'
  BY DEF TableInv, KeepInv
<1>6. DuplicatesOwned'
  BY DEF TableInv, DuplicatesOwned
<1> QED BY <1>1, <1>2, <1>3, <1>4, <1>5, <1>6 DEF TableInv

\* Deleting rows keeps what the table promises as long as the rows a handler
\* relies on stay.
LEMMA SubTable ==
  ASSUME KeyUnique, IdsUsed, IdentityUnique, RowsOwned, rows' \subseteq rows,
         UNCHANGED <<config, used>>
  PROVE  KeyUnique' /\ IdsUsed' /\ IdentityUnique' /\ RowsOwned'
BY DEF KeyUnique, IdsUsed, IdentityUnique, RowsOwned

\* The first DELETE of prune_nodes and the choice of `best` keep the invariant.
LEMMA PruneBeginTable == ASSUME TypeOK, TableInv, PruneBegin PROVE TableInv'
<1>1. rows' \subseteq rows
  BY DEF PruneBegin, DropStale
<1>2. KeyUnique' /\ IdsUsed' /\ IdentityUnique' /\ RowsOwned'
  BY <1>1, SubTable DEF PruneBegin, TableInv
<1> PICK K \in SUBSET rows' : IsBest(K, rows') /\ PruneTo({k.id : k \in K}, dbOp = "down")
  BY DEF PruneBegin
<1>3. pending = {} /\ pending' = {} /\ config' = config /\ torn' = torn /\ dbOp \in {"down", "idle"}
  BY DEF PruneBegin, TableInv, PendingInv
<1>4. PendingInv'
  BY <1>3 DEF PendingInv, PruneTo
<1>5. KeepInv'
  <2>1. \A k \in keep' : \E r \in rows' : r.id = k
    BY DEF PruneTo
  <2>2. \A r \in rows' : r.id \in keep' => r \in K
    BY <1>2 DEF PruneTo, KeyUnique
  <2> QED BY <2>1, <2>2 DEF KeepInv, PruneTo, IsBest
<1>6. DuplicatesOwned'
  <2> SUFFICES ASSUME NEW r \in rows', NEW s \in rows', r.url = s.url, r.id # s.id
               PROVE  \/ r.url \in torn
                      \/ booting' /\ \E k \in rows' : k.id \in keep' /\ k.url = r.url
    BY <1>3 DEF DuplicatesOwned
  <2>1. PICK k \in K : k.url = r.url
    BY DEF IsBest
  <2>2. CASE dbOp = "down"
    BY <2>1, <2>2 DEF PruneTo
  <2>3. CASE dbOp = "idle"
    <3>1. ~booting
      BY <2>3 DEF TableInv, KeepInv
    <3> QED BY <1>1, <1>3, <2>3, <3>1 DEF TableInv, DuplicatesOwned
  <2> QED BY <1>3, <2>2, <2>3
<1> QED BY <1>2, <1>4, <1>5, <1>6 DEF TableInv

\* So does each DELETE of its loop.
LEMMA PruneUrlTable == ASSUME TypeOK, TableInv, PruneUrl PROVE TableInv'
<1> PICK k \in rows : /\ k.id \in keep
                      /\ rows' = DeleteUrlExcept(rows, k.url, k.id)
                      /\ PruneTo(keep \ {k.id}, booting)
                      /\ torn' = torn \ {k.url}
  BY DEF PruneUrl
<1>1. rows' = {r \in rows : r.url # k.url \/ r.id = k.id}
  BY DEF DeleteUrlExcept
<1>2. dbOp = "deduping" /\ pending = {} /\ UNCHANGED <<config, used, pending>>
  BY DEF PruneUrl, TableInv, PendingInv
<1>3. KeyUnique' /\ IdsUsed' /\ IdentityUnique' /\ RowsOwned'
  BY <1>1, <1>2, SubTable DEF TableInv
<1>4. PendingInv'
  BY <1>2 DEF PendingInv, PruneTo
<1>5. \A r \in rows : r.id \in keep /\ r.id # k.id => r.url # k.url
  BY DEF TableInv, KeepInv
<1>6. KeepInv'
  <2>1. \A l \in keep' : \E r \in rows' : r.id = l
    BY <1>1, <1>5 DEF TableInv, KeepInv, PruneTo
  <2> QED BY <1>1, <2>1 DEF TableInv, KeepInv, PruneTo
<1>7. DuplicatesOwned'
  <2> SUFFICES ASSUME NEW r \in rows', NEW s \in rows', r.url = s.url, r.id # s.id
               PROVE  \/ r.url \in torn'
                      \/ booting' /\ \E l \in rows' : l.id \in keep' /\ l.url = r.url
    BY <1>2 DEF DuplicatesOwned
  <2>1. r.url # k.url
    BY <1>1
  <2>2. \/ r.url \in torn
        \/ booting /\ \E l \in rows : l.id \in keep /\ l.url = r.url
    BY <1>1, <1>2 DEF TableInv, DuplicatesOwned
  <2>3. ASSUME NEW l \in rows, booting, l.id \in keep, l.url = r.url
        PROVE  booting' /\ l \in rows' /\ l.id \in keep'
    <3>1. l.id # k.id
      BY <2>1, <2>3 DEF TableInv, KeyUnique
    <3> QED BY <1>1, <2>1, <2>3, <3>1 DEF PruneTo
  <2> QED BY <2>1, <2>2, <2>3
<1> QED BY <1>3, <1>4, <1>6, <1>7 DEF TableInv

\* The upsert of register_node keeps the invariant: a known identity gets its own id again.
LEMMA RegisterUpsertTable ==
  ASSUME TypeOK, TableInv, NEW w \in waiting, RegisterUpsert(w)
  PROVE  TableInv'
<1> DEFINE a == w.by
<1>0. PICK row \in RowsFor(w) :
        /\ rows' = Upsert(rows, row)
        /\ used' = used \cup {row.id}
        /\ pending' = {[by |-> w.by, lag |-> w.lag, id |-> row.id]}
  BY DEF RegisterUpsert
<1>1. /\ rows' = {r \in rows : r.id # row.id} \cup {row}
      /\ SameIdentity(row, config[a]) /\ row.age = w.lag
      /\ \/ /\ used' = used /\ \E r \in rows : r.id = row.id /\ SameIdentity(r, config[a])
         \/ /\ used' = used \cup {row.id} /\ row.id \notin used
            /\ \A r \in rows : ~SameIdentity(r, config[a])
  <2>1. /\ row.name = config[a].name /\ row.url = config[a].url /\ row.age = w.lag
    BY WrittenRow
  <2>2. CASE \E r \in rows : /\ row = Renewed(r, w.lag)
                             /\ row.id = r.id /\ row.name = r.name /\ row.url = r.url
                             /\ row.score = r.score
    BY <1>0, <2>1, <2>2 DEF Upsert, TableInv, IdsUsed
  <2>3. CASE ByIdentity(rows, config[a]) = {} /\ row.id \in Ids \ used
    <3>1. \A r \in rows : ~SameIdentity(r, config[a])
      <4> SUFFICES ASSUME NEW r \in rows, SameIdentity(r, config[a])
                   PROVE  r \in ByIdentity(rows, config[a])
        BY <2>3
      <4>1. \A s \in rows : SameIdentity(s, config[a]) => s = r
        BY DEF TableInv, IdentityUnique
      <4>2. r.age <= r.age
        BY DEF TypeOK, TableTypeOK, Row, Ages
      <4> QED BY <4>1, <4>2 DEF ByIdentity
    <3> QED BY <1>0, <2>1, <2>3, <3>1 DEF Upsert
  <2> QED BY <2>2, <2>3, WrittenRow
<1>2. /\ dbOp = "idle" /\ dbOp' = "registering"
      /\ config' = config /\ keep' = keep /\ booting' = booting /\ torn' = torn
  BY DEF RegisterUpsert
<1>3. keep = {} /\ ~booting /\ pending = {}
  BY <1>2 DEF TableInv, KeepInv, PendingInv
<1>4. \A r \in rows : SameIdentity(r, config[a]) => r.id = row.id
  BY <1>1 DEF TableInv, IdentityUnique
<1>5. KeyUnique' /\ IdsUsed'
  BY <1>1 DEF TableInv, KeyUnique, IdsUsed
<1>6. IdentityUnique'
  BY <1>1, <1>4 DEF TableInv, IdentityUnique
<1>7. RowsOwned'
  <2>1. a \in Agents
    BY DEF TypeOK, TableTypeOK
  <2> QED BY <1>1, <1>2, <2>1 DEF TableInv, RowsOwned
<1>8. PendingInv'
  BY <1>0, <1>1, <1>2 DEF PendingInv
<1>9. KeepInv'
  BY <1>1, <1>2, <1>3 DEF KeepInv
<1>10. DuplicatesOwned'
  <2> SUFFICES ASSUME NEW r \in rows', NEW s \in rows', r.url = s.url, r.id # s.id
               PROVE  r.url \in torn \/ r.url = config[a].url
    BY <1>0, <1>2 DEF DuplicatesOwned
  <2>1. CASE r = row \/ s = row
    BY <1>1, <2>1
  <2>2. CASE r \in rows /\ s \in rows
    BY <1>2, <1>3, <2>2 DEF TableInv, DuplicatesOwned
  <2> QED BY <1>1, <2>1, <2>2
<1> QED BY <1>5, <1>6, <1>7, <1>8, <1>9, <1>10 DEF TableInv

\* The DELETE of register_node leaves its url with the pending row alone.
LEMMA RegisterDeleteTable == ASSUME TypeOK, TableInv, RegisterDelete PROVE TableInv'
<1> PICK p \in pending : RegisterDelete!(p)
  BY DEF RegisterDelete
<1>1. rows' = {r \in rows : r.url # config[p.by].url \/ r.id = p.id}
  BY DEF DeleteUrlExcept
<1>2. keep = {} /\ ~booting /\ dbOp = "registering" /\ \A q \in pending : q = p
  BY DEF TableInv, PendingInv, KeepInv
<1>3. KeyUnique' /\ IdsUsed' /\ IdentityUnique' /\ RowsOwned'
  BY <1>1, SubTable DEF TableInv
<1>4. PendingInv' /\ KeepInv'
  BY <1>2 DEF PendingInv, KeepInv
<1>5. DuplicatesOwned'
  BY <1>1, <1>2 DEF TableInv, DuplicatesOwned
<1> QED BY <1>3, <1>4, <1>5 DEF TableInv

\* The failures and the crash that end a handler early keep the invariant.
LEMMA FailureTable ==
  ASSUME TypeOK, TableInv, RegisterDeleteFails \/ PruneFails \/ Crash
  PROVE  TableInv'
<1>1. UNCHANGED <<config, rows, used>>
  BY DEF RegisterDeleteFails, PruneFails, Crash
<1>2. KeyUnique' /\ IdsUsed' /\ IdentityUnique' /\ RowsOwned'
  BY <1>1, SubTable DEF TableInv
<1>3. PendingInv' /\ KeepInv'
  BY <1>1 DEF TableInv, PendingInv, KeepInv, RegisterDeleteFails, PruneFails, Crash
<1>4. CASE RegisterDeleteFails
  <2> PICK p \in pending : RegisterDeleteFails!(p)
    BY <1>4 DEF RegisterDeleteFails
  <2>1. \A q \in pending : q = p
    BY DEF TableInv, PendingInv
  <2>2. dbOp = "registering" /\ ~booting
    BY DEF TableInv, PendingInv, KeepInv
  <2> QED BY <1>1, <1>2, <1>3, <2>1, <2>2 DEF TableInv, DuplicatesOwned
<1>5. CASE PruneFails
  BY <1>1, <1>2, <1>3, <1>5 DEF PruneFails, TableInv, DuplicatesOwned, PendingInv
<1>6. CASE Crash
  BY <1>1, <1>2, <1>3, <1>6 DEF Crash, TableInv, DuplicatesOwned
<1> QED BY <1>4, <1>5, <1>6

\* Time that passes while a handler holds the mutex adds as much to its lag as to its row.
LEMMA TickPending ==
  ASSUME TypeOK, PendingInv, Tick
  PROVE  PendingInv' /\ \A p \in pending : \E q \in pending' : q.by = p.by
<1>1. pending \subseteq [by: Agents, lag: 0 .. LockWait, id: Ids] /\ rows \subseteq Row
  BY DEF TypeOK, TableTypeOK
<1>2. \A p \in pending : /\ Later(p).by = p.by /\ Later(p).id = p.id /\ Later(p).lag = p.lag + 1
  BY <1>1 DEF Later
<1>3. pending' = {Later(p) : p \in pending} /\ rows' = {Aged(r) : r \in rows}
      /\ dbOp' = dbOp /\ config' = config
  BY DEF Tick
<1>4. ASSUME NEW p \in pending
      PROVE  \E r \in rows' : /\ r.id = p.id /\ SameIdentity(r, config[p.by])
                              /\ r.age = p.lag + 1
  <2> PICK r \in rows : r.id = p.id /\ SameIdentity(r, config[p.by]) /\ r.age = p.lag
    BY DEF PendingInv
  <2>1. r \in Row /\ ~IsStale(r.age)
    BY <1>1, TimeAssumption DEF IsStale
  <2>2. Aged(r).age = p.lag + 1
    BY <2>1 DEF Aged, Row
  <2> QED BY <1>3, <2>1, <2>2, AgedRow
<1>5. \A q \in pending' : \E r \in rows' :
        r.id = q.id /\ SameIdentity(r, config[q.by]) /\ r.age = q.lag
  BY <1>2, <1>3, <1>4
<1>6. \A p, q \in pending' : p = q
  BY <1>3 DEF PendingInv
<1>7. pending' = {} <=> pending = {}
  BY <1>3
<1> QED BY <1>2, <1>3, <1>5, <1>6, <1>7 DEF PendingInv

\* The inductive invariant of the table.
THEOREM TableInvariant == Spec => []TableInv
<1>1. TypeOK /\ TableInv /\ [Next]_vars => TableInv'
  <2> SUFFICES ASSUME TypeOK, TableInv, [Next]_vars PROVE TableInv'
    OBVIOUS
  <2>1. CASE Tick
    <3> DEFINE f == [r \in rows |-> Aged(r)]
    <3>1. rows' = {f[r] : r \in rows}
      BY <2>1 DEF Tick
    <3>2. \A r \in rows : f[r].id = r.id /\ f[r].name = r.name /\ f[r].url = r.url
      BY AgedRow DEF TypeOK, TableTypeOK
    <3>3. UNCHANGED <<config, used, dbOp, keep, booting, torn>>
      BY <2>1 DEF Tick
    <3>4. PendingInv' /\ \A p \in pending : \E q \in pending' : q.by = p.by
      BY <2>1, TickPending DEF TableInv
    <3> HIDE DEF f
    <3> QED BY <3>1, <3>2, <3>3, <3>4, MapTable
  <2>2. ASSUME NEW a \in Agents, HeartbeatApply(a) PROVE TableInv'
    <3> DEFINE f == [r \in rows |-> IF r.id = cred[a] THEN Beaten(r) ELSE r]
    <3>1. rows' = {f[r] : r \in rows}
      BY <2>2 DEF HeartbeatApply, Touch
    <3>2. \A r \in rows : f[r].id = r.id /\ f[r].name = r.name /\ f[r].url = r.url
      BY BeatenRow DEF TypeOK, TableTypeOK
    <3>3. UNCHANGED <<config, used, dbOp, keep, booting, torn>>
      BY <2>2 DEF HeartbeatApply
    <3>4. pending = {} /\ pending' = {} /\ dbOp' = "idle"
      BY <2>2 DEF HeartbeatApply, TableInv, PendingInv
    <3>5. PendingInv'
      BY <3>4 DEF PendingInv
    <3> HIDE DEF f
    <3> QED BY <3>1, <3>2, <3>3, <3>4, <3>5, MapTable
  <2>3. ASSUME UNCHANGED <<config, rows, used, dbOp, pending, keep, booting, torn>> PROVE TableInv'
    BY <2>3 DEF TableInv, KeyUnique, IdsUsed, IdentityUnique, RowsOwned, PendingInv, KeepInv,
                DuplicatesOwned
  <2>4. ASSUME NEW a \in Agents, RegisterClock(a) \/ HeartbeatVerify(a) \/ AgentStep(a)
        PROVE  TableInv'
    BY <2>3, <2>4 DEF RegisterClock, HeartbeatVerify, AgentStep, AgentStart, RegisterFails, AgentStops,
                      BeatSend, BeatFails, RestartEnd
  <2>5. CASE UNCHANGED vars
    BY <2>3, <2>5 DEF vars
  <2> QED BY <2>1, <2>2, <2>4, <2>5, PruneBeginTable, PruneUrlTable, RegisterUpsertTable,
             RegisterDeleteTable, FailureTable DEF Next, Coordinator
<1> QED BY <1>1, TableInvInit, TypeCorrect, PTL DEF Spec

\* An identity never has two rows, whatever interrupts registration.
THEOREM IdentityIsUnique == Spec => []IdentityUnique
<1>1. TableInv => IdentityUnique
  BY DEF TableInv
<1> QED BY <1>1, TableInvariant, PTL

\* A serving coordinator shows a url twice only after a failed clean-up DELETE.
THEOREM DuplicatesAreTorn == Spec => []DuplicateUrlOnlyIfTorn
<1>1. TableInv => DuplicateUrlOnlyIfTorn
  BY DEF TableInv, DuplicatesOwned, DuplicateUrlOnlyIfTorn, PendingInv, KeepInv
<1> QED BY <1>1, TableInvariant, PTL
-----------------------------------------------------------------------------
(* What a step may do to the rows.  OnlyTimeAgesUrl needs to know that the    *)
(* row a prune keeps, chosen before time may have passed, is still the        *)
(* freshest of its url, and (PendingInv) that the row a registration keeps is *)
(* as old as the time it read.                                                *)

Chosen(k) == k.id \in keep

ChosenFreshest ==
  \A k \in rows : Chosen(k) => \A r \in rows : r.url = k.url => k.age <= r.age

\* Ageing keeps the order of the ages, also where they are saturated.
LEMMA AgedOrder ==
  ASSUME NEW k \in Row, NEW r \in Row, k.age <= r.age
  PROVE  Aged(k).age <= Aged(r).age
BY TimeAssumption DEF Aged, IsStale, Row, Ages

\* Without a new choice the order is kept where rows stay as they are or go.
LEMMA ChosenKept ==
  ASSUME ChosenFreshest, rows' \subseteq rows, keep' \subseteq keep
  PROVE  ChosenFreshest'
BY DEF ChosenFreshest, Chosen

LEMMA ChosenStep ==
  ASSUME TypeOK, TableInv, ChosenFreshest, [Next]_vars
  PROVE  ChosenFreshest'
<1>1. CASE Tick
  <2> SUFFICES ASSUME NEW k \in rows, NEW r \in rows, Chosen(Aged(k))', Aged(r).url = Aged(k).url
               PROVE  Aged(k).age <= Aged(r).age
    BY <1>1 DEF Tick, ChosenFreshest
  <2>1. k \in Row /\ r \in Row
    BY DEF TypeOK, TableTypeOK
  <2>2. Aged(k).id = k.id /\ Aged(k).url = k.url /\ Aged(r).url = r.url
    BY <2>1, AgedRow
  <2>3. Chosen(k)
    BY <1>1, <2>2 DEF Tick, Chosen
  <2>4. k.age <= r.age
    BY <2>2, <2>3 DEF ChosenFreshest
  <2> QED BY <2>1, <2>4, AgedOrder
<1>2. CASE PruneBegin
  <2> PICK K \in SUBSET rows' : IsBest(K, rows') /\ PruneTo({k.id : k \in K}, dbOp = "down")
    BY <1>2 DEF PruneBegin
  <2>1. rows' \subseteq rows
    BY <1>2 DEF PruneBegin, DropStale
  <2>2. \A k \in rows' : k.id \in keep' => k \in K
    BY <2>1 DEF PruneTo, TableInv, KeyUnique
  <2> QED BY <2>1, <2>2 DEF ChosenFreshest, Chosen, IsBest
<1>3. CASE PruneUrl \/ PruneFails \/ RegisterDelete \/ RegisterDeleteFails \/ Crash
  BY <1>3, ChosenKept
  DEF PruneUrl, PruneFails, RegisterDelete, RegisterDeleteFails, Crash, DeleteUrlExcept, PruneTo
<1>4. ASSUME NEW w \in waiting, RegisterUpsert(w) PROVE ChosenFreshest'
  <2>1. keep' = {}
    BY <1>4 DEF RegisterUpsert, TableInv, KeepInv
  <2> QED BY <2>1 DEF ChosenFreshest, Chosen
<1>5. ASSUME NEW a \in Agents, HeartbeatApply(a) PROVE ChosenFreshest'
  <2>1. keep' = {}
    BY <1>5 DEF HeartbeatApply, TableInv, KeepInv
  <2> QED BY <2>1 DEF ChosenFreshest, Chosen
<1>6. ASSUME UNCHANGED <<rows, keep>> PROVE ChosenFreshest'
  BY <1>6, ChosenKept
<1>7. ASSUME NEW a \in Agents, RegisterClock(a) \/ HeartbeatVerify(a) \/ AgentStep(a)
      PROVE  ChosenFreshest'
  BY <1>6, <1>7 DEF RegisterClock, HeartbeatVerify, AgentStep, AgentStart, RegisterFails, AgentStops,
                    BeatSend, BeatFails, RestartEnd
<1>8. CASE UNCHANGED vars
  BY <1>6, <1>8 DEF vars
<1> QED BY <1>1, <1>2, <1>3, <1>4, <1>5, <1>7, <1>8 DEF Next, Coordinator

\* What a prune keeps (db.rs prune_nodes) is the freshest row of its url until the DELETE
\* for that url, also after time has passed between its statements.
THEOREM ChosenStaysFreshest == Spec => []ChosenFreshest
<1>1. Init => ChosenFreshest
  BY DEF Init, ChosenFreshest
<1>2. TypeOK /\ TableInv /\ ChosenFreshest /\ [Next]_vars => ChosenFreshest'
  BY ChosenStep
<1> QED BY <1>1, <1>2, TypeCorrect, TableInvariant, PTL DEF Spec

\* The row of an id after a step is the row it had: aged, beaten, as it was, or renewed.
LEMMA RowAfterStep ==
  ASSUME TypeOK, TableInv, [Next]_vars, NEW r \in rows, NEW s \in rows', r.id = s.id
  PROVE  \/ s \in {r, Aged(r), Beaten(r)}
         \/ s.name = r.name /\ s.url = r.url /\ s.score = r.score
<1>1. \A q \in rows : q.id = r.id => q = r
  BY DEF TableInv, KeyUnique
<1>2. r \in Row /\ rows \subseteq Row
  BY DEF TypeOK, TableTypeOK
<1>3. CASE Tick
  BY <1>1, <1>2, <1>3, AgedRow DEF Tick
<1>4. ASSUME NEW a \in Agents, HeartbeatApply(a) PROVE s \in {r, Beaten(r)}
  BY <1>1, <1>2, <1>4, BeatenRow DEF HeartbeatApply, Touch
<1>5. ASSUME rows' \subseteq rows PROVE s = r
  BY <1>1, <1>5
<1>6. ASSUME NEW w \in waiting, RegisterUpsert(w)
      PROVE  s = r \/ (s.name = r.name /\ s.url = r.url /\ s.score = r.score)
  <2> PICK row \in RowsFor(w) : rows' = Upsert(rows, row)
    BY <1>6 DEF RegisterUpsert
  <2>1. CASE s # row
    BY <1>1, <2>1 DEF Upsert
  <2>2. CASE s = row
    <3>1. row.id \in used
      BY <2>2 DEF TableInv, IdsUsed
    <3>2. PICK q \in rows : row.id = q.id /\ row.name = q.name /\ row.url = q.url /\ row.score = q.score
      BY <3>1, WrittenRow
    <3> QED BY <1>1, <2>2, <3>2
  <2> QED BY <2>1, <2>2
<1>7. CASE PruneBegin \/ PruneUrl \/ PruneFails \/ RegisterDelete \/ RegisterDeleteFails \/ Crash
  BY <1>5, <1>7 DEF PruneBegin, PruneUrl, PruneFails, RegisterDelete, RegisterDeleteFails, Crash,
                    DropStale, DeleteUrlExcept
<1>8. ASSUME NEW a \in Agents, RegisterClock(a) \/ HeartbeatVerify(a) \/ AgentStep(a) PROVE s = r
  BY <1>5, <1>8 DEF RegisterClock, HeartbeatVerify, AgentStep, AgentStart, RegisterFails,
                    AgentStops, BeatSend, BeatFails, RestartEnd
<1>9. CASE UNCHANGED vars
  BY <1>5, <1>9 DEF vars
<1> QED BY <1>3, <1>4, <1>6, <1>7, <1>8, <1>9 DEF Next, Coordinator

\* A row never changes hands and never loses score (register_node, heartbeat): whoever
\* has its id is the agent of its name and url, and re-registration keeps what it earned.
THEOREM RowsKeepHistory == Spec => RowKeepsHistory
<1>1. ASSUME TypeOK, TableInv, [Next]_vars
      PROVE  \A r \in rows, s \in rows' : r.id = s.id =>
               r.name = s.name /\ r.url = s.url /\ r.score <= s.score
  <2> SUFFICES ASSUME NEW r \in rows, NEW s \in rows', r.id = s.id
               PROVE  r.name = s.name /\ r.url = s.url /\ r.score <= s.score
    OBVIOUS
  <2>1. \/ s \in {r, Aged(r), Beaten(r)}
        \/ s.name = r.name /\ s.url = r.url /\ s.score = r.score
    BY <1>1, RowAfterStep
  <2>2. r \in Row /\ r.score \in Nat
    BY <1>1, TimeAssumption DEF TypeOK, TableTypeOK, Row
  <2> QED BY <2>1, <2>2, AgedRow, BeatenRow
<1> QED BY <1>1, TypeCorrect, TableInvariant, PTL DEF Spec, RowKeepsHistory

\* As fresh as it was, or as old as the time that the registration in progress read.
NotOlder(s, r) ==
  s.age <= r.age \/ \E p \in pending \cup pending' : s.id = p.id /\ s.age = p.lag

\* A statement other than the passing of time leaves every url that is online with a row
\* as fresh as the one it had, or as the time that the registration in progress read.
LEMMA UrlStaysFresh ==
  ASSUME TypeOK, TableInv, ChosenFreshest, [Next]_vars, ~Tick,
         NEW r \in rows, ~IsStale(r.age)
  PROVE  \E s \in rows' : s.url = r.url /\ NotOlder(s, r)
<1>1. r \in Row /\ rows \subseteq Row /\ r.age \in Nat
  BY TimeAssumption DEF TypeOK, TableTypeOK, Row, Ages
<1>2. ASSUME r \in rows' PROVE \E s \in rows' : s.url = r.url /\ NotOlder(s, r)
  BY <1>1, <1>2 DEF NotOlder
<1>3. CASE PruneBegin
  BY <1>2, <1>3 DEF PruneBegin, DropStale
<1>4. CASE PruneUrl
  <2> PICK k \in rows : k.id \in keep /\ rows' = DeleteUrlExcept(rows, k.url, k.id)
    BY <1>4 DEF PruneUrl
  <2>1. CASE r.url = k.url
    BY <2>1 DEF ChosenFreshest, Chosen, DeleteUrlExcept, NotOlder
  <2>2. CASE r.url # k.url
    BY <1>2, <2>2 DEF DeleteUrlExcept
  <2> QED BY <2>1, <2>2
<1>5. CASE RegisterDelete
  <2> PICK p \in pending : rows' = DeleteUrlExcept(rows, config[p.by].url, p.id)
    BY <1>5 DEF RegisterDelete
  <2>1. PICK k \in rows : k.id = p.id /\ k.url = config[p.by].url /\ k.age = p.lag
    BY DEF TableInv, PendingInv
  <2>2. CASE r.url = k.url
    BY <2>1, <2>2 DEF DeleteUrlExcept, NotOlder
  <2>3. CASE r.url # k.url
    BY <1>2, <2>1, <2>3 DEF DeleteUrlExcept
  <2> QED BY <2>2, <2>3
<1>6. ASSUME NEW w \in waiting, RegisterUpsert(w)
      PROVE  \E s \in rows' : s.url = r.url /\ NotOlder(s, r)
  <2> PICK row \in RowsFor(w) : /\ rows' = Upsert(rows, row)
                                /\ pending' = {[by |-> w.by, lag |-> w.lag, id |-> row.id]}
    BY <1>6 DEF RegisterUpsert
  <2>1. CASE r.id # row.id
    BY <1>2, <2>1 DEF Upsert
  <2>2. CASE r.id = row.id
    <3>1. row.id \in used
      BY <2>2 DEF TableInv, IdsUsed
    <3>2. row.age = w.lag
      BY WrittenRow
    <3>3. PICK q \in rows : row.id = q.id /\ row.url = q.url
      BY <3>1, WrittenRow
    <3>4. row.url = r.url
      BY <2>2, <3>3 DEF TableInv, KeyUnique
    <3>5. row \in rows'
      BY DEF Upsert
    <3>6. PICK p \in pending' : p.id = row.id /\ p.lag = w.lag
      OBVIOUS
    <3>7. NotOlder(row, r)
      BY <3>2, <3>6 DEF NotOlder
    <3> QED BY <3>4, <3>5, <3>7
  <2> QED BY <2>1, <2>2
<1>7. ASSUME NEW a \in Agents, HeartbeatApply(a)
      PROVE  \E s \in rows' : s.url = r.url /\ NotOlder(s, r)
  <2>1. (IF r.id = cred[a] THEN Beaten(r) ELSE r) \in rows'
    BY <1>7 DEF HeartbeatApply, Touch
  <2> QED BY <1>1, <2>1, BeatenRow DEF NotOlder
<1>8. ASSUME NEW a \in Agents, RegisterClock(a) \/ HeartbeatVerify(a) \/ AgentStep(a)
      PROVE  r \in rows'
  BY <1>8 DEF RegisterClock, HeartbeatVerify, AgentStep, AgentStart, RegisterFails, AgentStops,
              BeatSend, BeatFails, RestartEnd
<1>9. CASE PruneFails \/ RegisterDeleteFails \/ Crash \/ UNCHANGED vars
  BY <1>2, <1>9 DEF PruneFails, RegisterDeleteFails, Crash, vars
<1> QED BY <1>2, <1>3, <1>4, <1>5, <1>6, <1>7, <1>8, <1>9 DEF Next, Coordinator

\* Only time makes a worker's url stale: prune, registration and heartbeat (db.rs) each
\* leave it a row as fresh as its best one, whatever time passed between their statements,
\* but for what a registration lost between reading its clock (api.rs:212) and its row.
THEOREM OnlyTimeMakesStale == Spec => OnlyTimeAgesUrl
<1>1. ASSUME TypeOK, TableInv, ChosenFreshest, [Next]_vars
      PROVE  \/ Tick
             \/ \A r \in rows : ~IsStale(r.age) =>
                  \E s \in rows' :
                    /\ s.url = r.url
                    /\ s.age <= r.age \/ \E p \in pending \cup pending' : s.id = p.id /\ s.age = p.lag
  BY <1>1, UrlStaysFresh DEF NotOlder
<1> QED BY <1>1, TypeCorrect, TableInvariant, ChosenStaysFreshest, PTL DEF Spec, OnlyTimeAgesUrl

-----------------------------------------------------------------------------
(* The table implements the list of members.                                  *)

\* What a member is follows from its row, and rows of one key are one row.
LEMMA SeenRow ==
  ASSUME NEW r
  PROVE  /\ Seen(r).id = r.id /\ Seen(r).name = r.name /\ Seen(r).url = r.url
         /\ Seen(r).score = r.score
         /\ Seen(r).state = IF IsStale(r.age) THEN "stale" ELSE "online"
BY DEF Seen

LEMMA SeenOnce ==
  ASSUME KeyUnique, NEW r \in rows, NEW s \in rows, Seen(r) = Seen(s)
  PROVE  r = s
BY SeenRow DEF KeyUnique

\* Rows that go leave the list.
LEMMA SubRowsLeave ==
  ASSUME KeyUnique, IdsUsed, rows' \subseteq rows, used' = used,
         \A r \in rows : ~IsStale(r.age) => \E s \in rows' : s.url = r.url /\ ~IsStale(s.age)
  PROVE  List!Leaves
<1>1. Members' \subseteq Members
  BY DEF Members
<1>2. \A r \in rows : Seen(r) \in Members' <=> r \in rows'
  BY SeenOnce DEF Members
<1>3. ASSUME NEW m \in Members \ Members', m.state = "online"
      PROVE  \E n \in Members' : n.url = m.url /\ n.state = "online"
  <2>1. PICK r \in rows : m = Seen(r)
    BY <1>3 DEF Members
  <2>2. ~IsStale(r.age) /\ m.url = r.url
    BY <1>3, <2>1, SeenRow
  <2>3. PICK s \in rows' : s.url = r.url /\ ~IsStale(s.age)
    BY <2>2
  <2>4. Seen(s) \in Members' /\ Seen(s).url = m.url /\ Seen(s).state = "online"
    BY <2>2, <2>3, SeenRow DEF Members
  <2> QED BY <2>4
<1>4. Gone' = Gone \cup {m.id : m \in Members \ Members'}
  <2>1. {m.id : m \in Members \ Members'} = {r.id : r \in rows \ rows'}
    <3>1. \A m \in Members \ Members' : \E r \in rows \ rows' : m.id = r.id
      BY <1>2, SeenRow DEF Members
    <3>2. \A r \in rows \ rows' : Seen(r) \in Members \ Members' /\ Seen(r).id = r.id
      BY <1>2, SeenRow DEF Members
    <3> QED BY <3>1, <3>2
  <2>2. \A r \in rows : r.id \in used
    BY DEF IdsUsed
  <2>3. \A r \in rows \ rows', s \in rows' : r.id # s.id
    BY DEF KeyUnique
  <2> QED BY <2>1, <2>2, <2>3 DEF Gone
<1> QED BY <1>1, <1>3, <1>4 DEF List!Leaves

\* A row that is written again, young, is heard of.
LEMMA WrittenIsHeard ==
  ASSUME TypeOK, KeyUnique, used' = used,
         NEW r \in rows, NEW row \in Row, rows' = (rows \ {r}) \cup {row},
         row.id = r.id, row.name = r.name, row.url = r.url, ~IsStale(row.age),
         row.score \in {r.score, r.score + 1}
  PROVE  \E m \in Members : \E score \in {m.score, m.score + 1} : List!Heard(m, score)
<1>1. Seen(row) = List!Online(Seen(r).id, Seen(r).name, Seen(r).url, row.score)
  BY SeenRow DEF Seen, List!Online
<1>2. Members' = (Members \ {Seen(r)}) \cup {Seen(row)}
  <2>1. \A s \in rows \ {r} : Seen(s) # Seen(r)
    BY SeenOnce
  <2> QED BY <2>1 DEF Members
<1>3. Gone' = Gone
  <2>1. {s.id : s \in rows'} = {s.id : s \in rows}
    OBVIOUS
  <2> QED BY <2>1 DEF Gone
<1>4. Seen(r) \in Members /\ row.score \in {Seen(r).score, Seen(r).score + 1}
  BY SeenRow DEF Members
<1> QED BY <1>1, <1>2, <1>3, <1>4 DEF List!Heard

\* The first row of an identity is a member that joins.
LEMMA NewRowJoins ==
  ASSUME TypeOK, TableInv, NEW id \in Ids \ used, NEW who \in [name: Names, url: Urls],
         NEW age, ~IsStale(age), ByIdentity(rows, who) = {},
         rows' = Upsert(rows, FreshRow(id, who, age)), used' = used \cup {id}
  PROVE  List!Joins(id, who.name, who.url)
<1> DEFINE row == FreshRow(id, who, age)
<1>1. /\ row.id = id /\ row.name = who.name /\ row.url = who.url /\ row.age = age /\ row.score = 0
  BY DEF FreshRow
<1>2. \A r \in rows : r.id # id
  BY DEF TableInv, IdsUsed
<1>3. \A r \in rows : ~(r.name = who.name /\ r.url = who.url)
  <2> SUFFICES ASSUME NEW r \in rows, r.name = who.name, r.url = who.url
               PROVE  FALSE
    OBVIOUS
  <2>1. \A s \in rows : s.name = who.name /\ s.url = who.url => s = r
    BY DEF TableInv, IdentityUnique
  <2>2. r.age <= r.age
    BY TimeAssumption DEF TypeOK, TableTypeOK, Row, Ages
  <2> QED BY <2>1, <2>2 DEF ByIdentity
<1>4. rows' = rows \cup {row}
  BY <1>1, <1>2 DEF Upsert
<1>5. Seen(row) = List!Online(id, who.name, who.url, 0)
  BY <1>1 DEF Seen, List!Online
<1> HIDE DEF row
<1>6. Members' = Members \cup {Seen(row)}
  BY <1>4 DEF Members
<1>7. Gone' = Gone /\ id \notin Gone
  BY <1>1, <1>2, <1>4 DEF Gone
<1>8. \A m \in Members : m.id # id /\ ~(m.name = who.name /\ m.url = who.url)
  BY <1>2, <1>3, SeenRow DEF Members
<1> QED BY <1>5, <1>6, <1>7, <1>8 DEF List!Joins

LEMMA TickFades ==
  ASSUME TypeOK, TableInv, Tick
  PROVE  \E S \in SUBSET Members : List!Fades(S)
<1> DEFINE fading == {r \in rows : IsStale(Aged(r).age)}
           S == {Seen(r) : r \in fading}
<1>1. \A r \in rows : r \in Row
  BY DEF TypeOK, TableTypeOK
<1>2. ASSUME NEW r \in rows
      PROVE  Seen(Aged(r)) = IF Seen(r) \in S THEN [Seen(r) EXCEPT !.state = "stale"] ELSE Seen(r)
  <2>1. Seen(r) \in S <=> r \in fading
    BY SeenOnce DEF TableInv
  <2>2. /\ Aged(r).id = r.id /\ Aged(r).name = r.name /\ Aged(r).url = r.url
        /\ Aged(r).score = r.score
    BY <1>1, AgedRow
  <2>3. IsStale(r.age) => IsStale(Aged(r).age)
    BY <1>1, AgedRow, TimeAssumption DEF IsStale, Row, Ages
  <2>4. r \in fading <=> IsStale(Aged(r).age)
    OBVIOUS
  <2> HIDE DEF fading, S
  <2>5. CASE r \in fading
    BY <2>1, <2>2, <2>4, <2>5 DEF Seen
  <2>6. CASE r \notin fading
    BY <2>1, <2>2, <2>3, <2>4, <2>6 DEF Seen
  <2> QED BY <2>5, <2>6
<1>3. S \subseteq Members
  BY DEF Members
<1>4. Members' = {IF m \in S THEN [m EXCEPT !.state = "stale"] ELSE m : m \in Members}
  <2> DEFINE Faded(m) == IF m \in S THEN [m EXCEPT !.state = "stale"] ELSE m
  <2>1. Members' = {Seen(Aged(r)) : r \in rows}
    BY DEF Tick, Members
  <2>2. \A r \in rows : Seen(Aged(r)) = Faded(Seen(r))
    BY <1>2
  <2> HIDE DEF S, Faded
  <2>3. Members' = {Faded(m) : m \in Members}
    BY <2>1, <2>2 DEF Members
  <2> QED BY <2>3 DEF Faded
<1>5. Gone' = Gone
  <2>1. \A r \in rows : Aged(r).id = r.id
    BY <1>1, AgedRow
  <2>2. {r.id : r \in rows'} = {r.id : r \in rows}
    BY <2>1 DEF Tick
  <2> QED BY <2>2 DEF Tick, Gone
<1> HIDE DEF S
<1> QED BY <1>3, <1>4, <1>5 DEF List!Fades

\* Every step of the coordinator and the agents is one of the list, or none.
LEMMA StepsKeepList ==
  ASSUME TypeOK, TableInv, ChosenFreshest, [Next]_vars
  PROVE  [List!Next]_<<Members, Gone>>
<1>1. ASSUME UNCHANGED <<rows, used>> PROVE UNCHANGED <<Members, Gone>>
  BY <1>1 DEF Members, Gone
<1>2. CASE Tick
  BY <1>2, TickFades DEF List!Next
<1>3. ASSUME ~Tick, rows' \subseteq rows, used' = used, pending' \subseteq pending
      PROVE  List!Leaves
  <2>1. ASSUME NEW r \in rows, ~IsStale(r.age)
        PROVE  \E s \in rows' : s.url = r.url /\ ~IsStale(s.age)
    <3>1. PICK s \in rows' : s.url = r.url /\ NotOlder(s, r)
      BY <1>3, <2>1, UrlStaysFresh
    <3>2. r.age \in Nat /\ s.age \in Nat
      BY <1>3, TimeAssumption DEF TypeOK, TableTypeOK, Row, Ages
    <3>3. CASE s.age <= r.age
      BY <2>1, <3>1, <3>2, <3>3, TimeAssumption DEF IsStale
    <3>4. CASE \E p \in pending : s.age = p.lag
      BY <3>1, <3>4, TimeAssumption DEF IsStale, TypeOK, TableTypeOK
    <3> QED BY <1>3, <3>1, <3>3, <3>4 DEF NotOlder
  <2> QED BY <1>3, <2>1, SubRowsLeave DEF TableInv
<1>4. CASE PruneBegin \/ PruneUrl \/ RegisterDelete
  <2>1. rows' \subseteq rows /\ used' = used /\ pending' \subseteq pending
    BY <1>4 DEF PruneBegin, PruneUrl, RegisterDelete, DropStale, DeleteUrlExcept
  <2>2. CASE ~Tick
    BY <1>3, <2>1, <2>2 DEF List!Next
  <2> QED BY <1>2, <2>2
<1>5. ASSUME NEW w \in waiting, RegisterUpsert(w) PROVE List!Next
  <2> PICK row \in RowsFor(w) : rows' = Upsert(rows, row) /\ used' = used \cup {row.id}
    BY <1>5 DEF RegisterUpsert
  <2>1. row \in Row /\ row.age = w.lag /\ ~IsStale(row.age) /\ config[w.by] \in [name: Names, url: Urls]
    BY WrittenRow DEF TypeOK, TableTypeOK
  <2>2. CASE \E q \in rows : row.id = q.id /\ row.name = q.name /\ row.url = q.url /\ row.score = q.score
    <3> PICK q \in rows : row.id = q.id /\ row.name = q.name /\ row.url = q.url /\ row.score = q.score
      BY <2>2
    <3>1. rows' = (rows \ {q}) \cup {row} /\ used' = used
      BY DEF Upsert, TableInv, KeyUnique, IdsUsed
    <3>2. \E m \in Members : \E score \in {m.score, m.score + 1} : List!Heard(m, score)
      BY <2>1, <3>1, WrittenIsHeard DEF TableInv
    <3> QED BY <3>2 DEF List!Next
  <2>3. CASE /\ ByIdentity(rows, config[w.by]) = {}
             /\ row.id \in Ids \ used
             /\ row = FreshRow(row.id, config[w.by], w.lag)
    <3>1. List!Joins(row.id, config[w.by].name, config[w.by].url)
      BY <2>1, <2>3, NewRowJoins
    <3> QED BY <2>1, <2>3, <3>1 DEF List!Next
  <2> QED BY <2>2, <2>3, WrittenRow
<1>6. ASSUME NEW a \in Agents, HeartbeatApply(a) PROVE [List!Next]_<<Members, Gone>>
  <2>1. rows' = Touch(rows, cred[a]) /\ used' = used
    BY <1>6 DEF HeartbeatApply
  <2>2. CASE \A r \in rows : r.id # cred[a]
    BY <1>1, <2>1, <2>2 DEF Touch
  <2>3. ASSUME NEW r \in rows, r.id = cred[a] PROVE List!Next
    <3>1. rows' = (rows \ {r}) \cup {Beaten(r)}
      BY <2>1, <2>3 DEF Touch, TableInv, KeyUnique
    <3>2. r \in Row
      BY DEF TypeOK, TableTypeOK
    <3>3. Beaten(r).score \in {r.score, r.score + 1}
      BY <3>2 DEF Beaten, Row
    <3>4. ~IsStale(Beaten(r).age)
      BY <3>2, BeatenRow, TimeAssumption DEF IsStale
    <3>5. \E m \in Members : \E score \in {m.score, m.score + 1} : List!Heard(m, score)
      BY <2>1, <3>1, <3>2, <3>3, <3>4, BeatenRow, WrittenIsHeard DEF TableInv
    <3> QED BY <3>5 DEF List!Next
  <2> QED BY <2>2, <2>3
<1>7. ASSUME NEW a \in Agents, RegisterClock(a) \/ HeartbeatVerify(a) \/ AgentStep(a)
      PROVE  UNCHANGED <<Members, Gone>>
  BY <1>1, <1>7 DEF RegisterClock, HeartbeatVerify, AgentStep, AgentStart, RegisterFails, AgentStops,
                    BeatSend, BeatFails, RestartEnd
<1>8. CASE PruneFails \/ RegisterDeleteFails \/ Crash \/ UNCHANGED vars
  BY <1>1, <1>8 DEF PruneFails, RegisterDeleteFails, Crash, vars
<1> QED BY <1>2, <1>4, <1>5, <1>6, <1>7, <1>8 DEF Next, Coordinator

\* The table with its statements, crashes and failures (db.rs, api.rs) implements the list
\* of Membership: an identity keeps its id and what it earned, an id that went never comes
\* back, and an online machine goes only where another is online at its url.
THEOREM MembershipImplemented == Spec => ImplementsMembership
<1>1. Init => List!Init
  BY DEF Init, List!Init, Members, Gone
<1>2. TypeOK /\ TableInv /\ ChosenFreshest /\ [Next]_vars => [List!Next]_<<Members, Gone>>
  BY StepsKeepList
<1> QED BY <1>1, <1>2, TypeCorrect, TableInvariant, ChosenStaysFreshest, PTL
        DEF Spec, ImplementsMembership, List!Spec, List!vars

-----------------------------------------------------------------------------
(* Credentials.                                                            *)

CredUsed == \A a \in Agents : cred[a] # NoId => cred[a] \in used

CredOwned == \A a \in Agents : \A r \in rows : r.id = cred[a] => SameIdentity(r, config[a])

CredInv == CredUsed /\ CredOwned /\ CredentialNotShared

\* Rows keep their id and identity or are new with an id nobody holds.
LEMMA CredKept ==
  ASSUME CredInv, UNCHANGED <<config, cred>>, used \subseteq used',
         \A s \in rows' : \/ \E r \in rows : r.id = s.id /\ r.name = s.name /\ r.url = s.url
                          \/ \A a \in Agents : s.id # cred[a]
  PROVE  CredInv'
<1>1. CredUsed'
  BY DEF CredInv, CredUsed
<1>2. CredOwned'
  BY DEF CredInv, CredOwned
<1>3. CredentialNotShared'
  BY DEF CredInv, CredentialNotShared
<1> QED BY <1>1, <1>2, <1>3 DEF CredInv

\* Configurations that agree in name and url are equal.
LEMMA ConfigEquality ==
  ASSUME NEW c \in [name: Names, url: Urls], NEW d \in [name: Names, url: Urls],
         c.name = d.name, c.url = d.url
  PROVE  c = d
<1>1. c = [name |-> c.name, url |-> c.url] /\ d = [name |-> d.name, url |-> d.url]
  OBVIOUS
<1> QED BY <1>1

\* A heartbeat's UPDATE leaves the id, name and url of every row (db.rs heartbeat).
LEMMA TouchIdentity ==
  ASSUME TypeOK, NEW id, NEW s \in Touch(rows, id)
  PROVE  \E r \in rows : r.id = s.id /\ r.name = s.name /\ r.url = s.url
BY BeatenRow DEF Touch, TypeOK, TableTypeOK

\* The upsert of register_node keeps credentials with their owners.
LEMMA UpsertCred ==
  ASSUME TypeOK, TableInv, CredInv, NEW w \in waiting, RegisterUpsert(w)
  PROVE  CredInv'
<1> PICK row \in RowsFor(w) : rows' = Upsert(rows, row) /\ used' = used \cup {row.id}
  BY DEF RegisterUpsert
<1>1. UNCHANGED <<config, cred>>
  BY DEF RegisterUpsert
<1>2. CASE \E r \in rows : row.id = r.id /\ row.name = r.name /\ row.url = r.url
  <2>1. \A s \in rows' : \E q \in rows : q.id = s.id /\ q.name = s.name /\ q.url = s.url
    BY <1>2 DEF Upsert
  <2> QED BY <1>1, <2>1, CredKept
<1>3. CASE row.id \in Ids \ used
  <2>1. \A b \in Agents : row.id # cred[b]
    BY <1>3, NoIdAssumption DEF CredInv, CredUsed
  <2>2. \A s \in rows' : s \in rows \/ \A b \in Agents : s.id # cred[b]
    BY <2>1 DEF Upsert
  <2> QED BY <1>1, <2>2, CredKept
<1> QED BY <1>2, <1>3, WrittenRow

\* So does its DELETE, whose answer hands the pending id to the agent.
LEMMA DeleteCred == ASSUME TypeOK, TableInv, CredInv, RegisterDelete PROVE CredInv'
<1> PICK p \in pending : RegisterDelete!(p)
  BY DEF RegisterDelete
<1>1. rows' \subseteq rows /\ UNCHANGED <<config, used>>
  BY DEF DeleteUrlExcept
<1>2. CASE UNCHANGED <<agent, cred, timer, hbReq>>
  BY <1>1, <1>2, CredKept
<1>3. CASE cred' = [cred EXCEPT ![p.by] = p.id]
  <2>1. p.by \in Agents /\ p.id \in Ids /\ cred \in [Agents -> Ids \cup {NoId}]
    BY DEF TypeOK, TableTypeOK, AgentTypeOK
  <2> PICK q \in rows : q.id = p.id /\ SameIdentity(q, config[p.by])
    BY DEF TableInv, PendingInv
  <2>2. \A r \in rows : r.id = p.id => r = q
    BY DEF TableInv, KeyUnique
  <2>3. CredUsed'
    BY <1>1, <1>3, <2>1 DEF CredInv, CredUsed, TableInv, IdsUsed
  <2>4. CredOwned'
    <3> SUFFICES ASSUME NEW b \in Agents, NEW r \in rows, r.id = cred'[b]
                 PROVE  r.name = config[b].name /\ r.url = config[b].url
      BY <1>1 DEF CredOwned
    <3>1. CASE b = p.by
      BY <1>3, <2>1, <2>2, <3>1
    <3>2. CASE b # p.by
      BY <1>3, <2>1, <3>2 DEF CredInv, CredOwned
    <3> QED BY <3>1, <3>2
  <2>5. ASSUME NEW b \in Agents, cred[b] = p.id PROVE config[b] = config[p.by]
    <3>1. SameIdentity(q, config[b])
      BY <2>5 DEF CredInv, CredOwned
    <3>2. config[b] \in [name: Names, url: Urls] /\ config[p.by] \in [name: Names, url: Urls]
      BY <2>1 DEF TypeOK, TableTypeOK
    <3> QED BY <3>1, <3>2, ConfigEquality
  <2>6. CredentialNotShared'
    <3> SUFFICES ASSUME NEW b \in Agents, NEW c \in Agents, cred'[b] = cred'[c], cred'[b] # NoId
                 PROVE  config[b] = config[c]
      BY <1>1 DEF CredentialNotShared
    <3> QED BY <1>3, <2>1, <2>5 DEF CredInv, CredentialNotShared
  <2> QED BY <2>3, <2>4, <2>6 DEF CredInv
<1> QED BY <1>2, <1>3

\* A credential identifies one identity for ever.
THEOREM CredentialInvariant == Spec => []CredInv
<1>1. Init => CredInv
  BY DEF Init, CredInv, CredUsed, CredOwned, CredentialNotShared
<1>2. TypeOK /\ TableInv /\ CredInv /\ [Next]_vars => CredInv'
  <2> SUFFICES ASSUME TypeOK, TableInv, CredInv, [Next]_vars PROVE CredInv'
    OBVIOUS
  <2>1. CASE Tick
    <3>1. \A s \in rows' : \E r \in rows : r.id = s.id /\ r.name = s.name /\ r.url = s.url
      BY <2>1, AgedRow DEF Tick, TypeOK, TableTypeOK
    <3> QED BY <2>1, <3>1, CredKept DEF Tick
  <2>2. CASE PruneBegin \/ PruneUrl \/ PruneFails \/ RegisterDeleteFails \/ Crash
    <3>1. rows' \subseteq rows /\ UNCHANGED <<config, cred, used>>
      BY <2>2 DEF PruneBegin, DropStale, PruneUrl, DeleteUrlExcept, PruneFails,
                  RegisterDeleteFails, Crash, Exit
    <3> QED BY <3>1, CredKept
  <2>3. ASSUME NEW a \in Agents, HeartbeatApply(a) PROVE CredInv'
    <3>1. rows' = Touch(rows, cred[a]) /\ UNCHANGED <<config, cred, used>>
      BY <2>3 DEF HeartbeatApply
    <3> QED BY <3>1, TouchIdentity, CredKept
  <2>4. ASSUME NEW a \in Agents, RegisterClock(a) \/ HeartbeatVerify(a) \/ AgentStep(a)
        PROVE  CredInv'
    <3>1. UNCHANGED <<config, cred, used, rows>>
      BY <2>4 DEF RegisterClock, HeartbeatVerify, AgentStep, AgentStart, RegisterFails, AgentStops,
                  BeatSend, BeatFails, RestartEnd
    <3> QED BY <3>1, CredKept
  <2>5. CASE UNCHANGED vars
    BY <2>5, CredKept DEF vars
  <2> QED BY <2>1, <2>2, <2>3, <2>4, <2>5, UpsertCred, DeleteCred DEF Next, Coordinator
<1> QED BY <1>1, <1>2, TypeCorrect, TableInvariant, PTL DEF Spec

\* Two installations with different identities never hold one credential.
THEOREM CredentialsAreNotShared == Spec => []CredentialNotShared
<1>1. CredInv => CredentialNotShared
  BY DEF CredInv
<1> QED BY <1>1, CredentialInvariant, PTL

-----------------------------------------------------------------------------
(* Staying online.  BeatingNodeOnline is not inductive: the age a row has     *)
(* reached depends on how long the agent's timer still runs and on how many   *)
(* beats went unanswered.                                                     *)

Beats(a) == agent[a] \in {"running", "beating"} /\ missed[a] <= 1 /\ Unrivalled(a)

\* The age the row may reach before the agent's next timer event.
Budget(phase, m) ==
  (IF phase = "beating" THEN Interval + Interval ELSE Interval)
    + (IF m = 0 THEN 0 ELSE Interval)

PhaseInv ==
  \A a \in Agents :
    /\ agent[a] \in {"down", "registering", "starting"} => missed[a] = 0
    /\ agent[a] \in {"running", "beating"} => timer[a] <= Interval
    /\ agent[a] = "restarting" => missed[a] = 2

FreshInv ==
  \A a \in Agents : Beats(a) =>
    \E r \in rows : r.id = cred[a] /\ r.age + timer[a] <= Budget(agent[a], missed[a])

\* What a step other than Tick can do to one agent.
Kept(a) ==
  agent'[a] = agent[a] /\ timer'[a] = timer[a] /\ missed'[a] = missed[a] /\ cred'[a] = cred[a]

Left(a) ==
  \/ agent'[a] \in {"down", "registering", "starting"} /\ missed'[a] = 0
  \/ agent'[a] = "restarting" /\ missed'[a] = 2

Sent(a) ==
  /\ agent[a] = "running" /\ agent'[a] = "beating"
  /\ timer[a] = 0 /\ timer'[a] = Interval
  /\ missed'[a] = missed[a] /\ cred'[a] = cred[a]

Failed(a) ==
  /\ agent[a] = "beating" /\ agent'[a] = "running"
  /\ timer'[a] = timer[a] /\ cred'[a] = cred[a]
  /\ missed'[a] = IF missed[a] < 2 THEN missed[a] + 1 ELSE 2

Confirmed(a) ==
  /\ agent'[a] = "running" /\ timer'[a] <= Interval /\ missed'[a] = 0 /\ cred'[a] = cred[a]
  /\ \E s \in rows' : s.id = cred[a] /\ s.age = 0

Resumed(a) ==
  agent'[a] = "running" /\ missed'[a] = 2 /\ timer'[a] <= Interval

SetBack(a) ==
  /\ agent[a] \in {"running", "beating"} /\ agent'[a] = agent[a]
  /\ timer'[a] = timer[a] /\ cred'[a] = cred[a] /\ missed'[a] \in {1, 2}
  /\ missed[a] # 0 => missed'[a] = missed[a]
  /\ \E s \in rows' : s.id = cred[a] /\ s.age <= Interval

Move(a) ==
  \/ Kept(a) \/ Left(a) \/ Sent(a) \/ Failed(a) \/ Confirmed(a) \/ Resumed(a)
  \/ SetBack(a)

\* An unanswered or refused heartbeat.
LEMMA AnswerFails ==
  ASSUME AgentTypeOK, PhaseInv, NEW a \in Agents, Answer(a, FALSE), cred' = cred,
         NEW b \in Agents
  PROVE  Move(b)
<1>1. agent \in [Agents -> Phases] /\ timer \in [Agents -> Nat] /\ missed \in [Agents -> 0 .. 2]
  BY DEF AgentTypeOK
<1>2. CASE FirstAnswer(a, FALSE)
  BY <1>1, <1>2 DEF FirstAnswer, Exit, Move, Kept, Left
<1>3. CASE /\ agent[a] = "beating"
           /\ agent' = [agent EXCEPT ![a] = "running"]
           /\ missed' = [missed EXCEPT ![a] = IF missed[a] < 2 THEN missed[a] + 1 ELSE 2]
           /\ timer' = timer
  <2>1. CASE a = b
    <3>1. agent'[b] = "running" /\ timer'[b] = timer[b] /\ cred'[b] = cred[b]
      BY <1>1, <1>3, <2>1
    <3>2. missed'[b] = IF missed[b] < 2 THEN missed[b] + 1 ELSE 2
      BY <1>1, <1>3, <2>1
    <3> QED BY <1>3, <2>1, <3>1, <3>2 DEF Move, Failed
  <2>2. CASE a # b
    BY <1>1, <1>3, <2>2 DEF Move, Kept
  <2> QED BY <2>1, <2>2
<1>4. CASE /\ agent' = [agent EXCEPT ![a] = "restarting"]
           /\ missed' = [missed EXCEPT ![a] = 2]
           /\ timer' = [timer EXCEPT ![a] = RestartTime]
  BY <1>1, <1>4 DEF Move, Left, Kept
<1> QED BY <1>2, <1>3, <1>4 DEF Answer, LoopAnswer

\* An answer 204: the row is there and was just touched.
LEMMA AnswerConfirms ==
  ASSUME AgentTypeOK, PhaseInv, NEW a \in Agents, Answer(a, TRUE), cred' = cred,
         \E s \in rows' : s.id = cred[a] /\ s.age = 0,
         NEW b \in Agents
  PROVE  Move(b)
<1>1. agent \in [Agents -> Phases] /\ timer \in [Agents -> Nat] /\ missed \in [Agents -> 0 .. 2]
  BY DEF AgentTypeOK
<1>2. CASE FirstAnswer(a, TRUE)
  BY <1>1, <1>2, TimeAssumption DEF FirstAnswer, Move, Kept, Confirmed, PhaseInv
<1>3. CASE /\ agent[a] = "beating"
           /\ agent' = [agent EXCEPT ![a] = "running"]
           /\ missed' = [missed EXCEPT ![a] = 0]
           /\ timer' = timer
  BY <1>1, <1>3 DEF Move, Kept, Confirmed, PhaseInv
<1>4. CASE /\ agent' = [agent EXCEPT ![a] = "restarting"]
           /\ missed' = [missed EXCEPT ![a] = 2]
           /\ timer' = [timer EXCEPT ![a] = RestartTime]
  BY <1>1, <1>4 DEF Move, Left, Kept
<1> QED BY <1>2, <1>3, <1>4 DEF Answer, LoopAnswer

\* A registration that read an older time takes back the beat of its row, not for long.
LEMMA UpsertSetsBack ==
  ASSUME TypeOK, NEW w \in waiting, RegisterUpsert(w), NEW row \in RowsFor(w),
         rows' = Upsert(rows, row),
         missed' = [a \in Agents |-> IF missed[a] = 0 /\ TakenBack(a, row) THEN 1 ELSE missed[a]],
         NEW b \in Agents, TakenBack(b, row)
  PROVE  SetBack(b)
<1>1. agent' = agent /\ timer' = timer /\ cred' = cred
  BY DEF RegisterUpsert
<1>2. row \in rows' /\ row.id = cred[b] /\ row.age <= Interval
  BY WrittenRow DEF TakenBack, Upsert
<1>3. missed'[b] \in {1, 2} /\ (missed[b] # 0 => missed'[b] = missed[b])
  BY DEF TypeOK, AgentTypeOK
<1> QED BY <1>1, <1>2, <1>3 DEF TakenBack, SetBack

\* What a step can do to an agent's phase, timer and missed beats.
LEMMA StepMoves ==
  ASSUME TypeOK, PhaseInv, Next, ~Tick, NEW b \in Agents
  PROVE  Move(b)
<1>1. /\ agent \in [Agents -> Phases] /\ timer \in [Agents -> Nat]
      /\ missed \in [Agents -> 0 .. 2] /\ cred \in [Agents -> Ids \cup {NoId}]
      /\ AgentTypeOK
  BY DEF TypeOK, AgentTypeOK
<1>2. CASE PruneBegin \/ PruneUrl \/ PruneFails \/ Crash \/ \E a \in Agents : RegisterClock(a)
  BY <1>2 DEF PruneBegin, PruneUrl, PruneFails, Crash, RegisterClock, Move, Kept
<1>8. ASSUME NEW w \in waiting, RegisterUpsert(w) PROVE Move(b)
  <2> PICK row \in RowsFor(w) :
        /\ rows' = Upsert(rows, row)
        /\ missed' = [a \in Agents |-> IF missed[a] = 0 /\ TakenBack(a, row) THEN 1 ELSE missed[a]]
    BY <1>8 DEF RegisterUpsert
  <2>1. agent' = agent /\ timer' = timer /\ cred' = cred
    BY <1>8 DEF RegisterUpsert
  <2>2. CASE TakenBack(b, row)
    <3>1. SetBack(b)
      BY <1>8, <2>2, UpsertSetsBack
    <3> QED BY <3>1 DEF Move
  <2>3. CASE ~TakenBack(b, row)
    BY <2>1, <2>3 DEF Move, Kept
  <2> QED BY <2>2, <2>3
<1>3. CASE RegisterDelete
  <2> PICK p \in pending : RegisterDelete!(p)
    BY <1>3 DEF RegisterDelete
  <2>1. p.by \in Agents
    BY DEF TypeOK, TableTypeOK
  <2>2. CASE UNCHANGED <<agent, cred, timer, hbReq>>
    BY <2>2 DEF Move, Kept
  <2>3. CASE /\ Awaits(p)
             /\ agent' = [agent EXCEPT ![p.by] = "starting"]
             /\ cred' = [cred EXCEPT ![p.by] = p.id]
             /\ timer' = [timer EXCEPT ![p.by] = Interval]
    <3>1. CASE b = p.by
      <4>1. missed'[b] = 0
        BY <2>3, <3>1 DEF PhaseInv, Awaits
      <4> QED BY <1>1, <2>3, <3>1, <4>1 DEF Move, Left
    <3>2. CASE b # p.by
      BY <1>1, <2>1, <2>3, <3>2 DEF Move, Kept
    <3> QED BY <3>1, <3>2
  <2> QED BY <2>2, <2>3
<1>4. CASE RegisterDeleteFails
  <2> PICK p \in pending : RegisterDeleteFails!(p)
    BY <1>4 DEF RegisterDeleteFails
  <2>1. CASE Exit(p.by)
    BY <1>1, <2>1 DEF Exit, Move, Left, Kept
  <2>2. CASE UNCHANGED <<agent, timer, missed>>
    BY <2>2 DEF Move, Kept
  <2> QED BY <2>1, <2>2
<1>5. ASSUME NEW a \in Agents, HeartbeatVerify(a) PROVE Move(b)
  <2>1. CASE UNCHANGED <<agent, missed, timer>>
    BY <1>5, <2>1 DEF HeartbeatVerify, Move, Kept
  <2>2. CASE Answer(a, FALSE)
    BY <1>1, <1>5, <2>2, AnswerFails DEF HeartbeatVerify
  <2> QED BY <1>5, <2>1, <2>2 DEF HeartbeatVerify, Reply
<1>6. ASSUME NEW a \in Agents, HeartbeatApply(a) PROVE Move(b)
  <2>1. CASE UNCHANGED <<agent, missed, timer>>
    BY <1>6, <2>1 DEF HeartbeatApply, Move, Kept
  <2>2. CASE Answer(a, FALSE)
    BY <1>1, <1>6, <2>2, AnswerFails DEF HeartbeatApply
  <2>3. CASE Answer(a, TRUE) /\ Known(cred[a])
    <3> PICK r \in rows : r.id = cred[a]
      BY <2>3 DEF Known
    <3>1. Beaten(r) \in rows' /\ Beaten(r).id = cred[a] /\ Beaten(r).age = 0
      BY <1>6, BeatenRow DEF HeartbeatApply, Touch, TypeOK, TableTypeOK
    <3> QED BY <1>1, <1>6, <2>3, <3>1, AnswerConfirms DEF HeartbeatApply
  <2>4. CASE Answer(a, Known(cred[a]))
    <3>1. Known(cred[a]) \in BOOLEAN
      BY DEF Known
    <3> QED BY <2>2, <2>3, <2>4, <3>1
  <2> QED BY <1>6, <2>1, <2>4 DEF HeartbeatApply, Reply
<1>7. ASSUME NEW a \in Agents, AgentStep(a) PROVE Move(b)
  <2>1. CASE AgentStart(a)
    BY <1>1, <2>1 DEF AgentStart, PhaseInv, Move, Left, Kept
  <2>2. CASE RegisterFails(a)
    BY <1>1, <2>2 DEF RegisterFails, Exit, Move, Left, Kept
  <2>3. CASE AgentStops(a)
    BY <1>1, <2>3 DEF AgentStops, Exit, Move, Left, Kept
  <2>4. CASE BeatSend(a)
    BY <1>1, <2>4 DEF BeatSend, Move, Sent, Kept
  <2>5. CASE BeatFails(a)
    BY <1>1, <2>5, AnswerFails DEF BeatFails
  <2>6. CASE RestartEnd(a)
    BY <1>1, <2>6, TimeAssumption DEF RestartEnd, PhaseInv, Move, Resumed, Kept
  <2> QED BY <1>7, <2>1, <2>2, <2>3, <2>4, <2>5, <2>6 DEF AgentStep
<1> QED BY <1>2, <1>3, <1>4, <1>5, <1>6, <1>7, <1>8 DEF Next, Coordinator

\* Each of these moves keeps the phase invariant.
LEMMA MovePhase ==
  ASSUME TypeOK, TypeOK', PhaseInv, \A a \in Agents : Move(a)
  PROVE  PhaseInv'
<1> SUFFICES ASSUME NEW a \in Agents
             PROVE  /\ agent'[a] \in {"down", "registering", "starting"} => missed'[a] = 0
                    /\ agent'[a] \in {"running", "beating"} => timer'[a] <= Interval
                    /\ agent'[a] = "restarting" => missed'[a] = 2
  BY DEF PhaseInv
<1> QED BY TimeAssumption
        DEF Move, Kept, Left, Sent, Failed, Confirmed, Resumed, SetBack, PhaseInv

\* No step but the passing of time removes or ages the row of an unrivalled agent, unless
\* its beat is taken back.
LEMMA RowSurvives ==
  ASSUME TypeOK, TableInv, CredInv, Next, ~Tick,
         NEW a \in Agents, Beats(a), ~SetBack(a),
         NEW r \in rows, r.id = cred[a], r.age <= Stale
  PROVE  \E s \in rows' : s.id = r.id /\ s.age <= r.age
<1>1. r \in Row /\ SameIdentity(r, config[a]) /\ r.age <= r.age /\ 0 <= r.age
  BY DEF CredInv, CredOwned, TypeOK, TableTypeOK, Row, Ages
<1>2. \A s \in rows : s.url = r.url => s = r
  <2> SUFFICES ASSUME NEW s \in rows, s.url = r.url PROVE s = r
    OBVIOUS
  <2> PICK b \in Agents : SameIdentity(s, config[b])
    BY DEF TableInv, RowsOwned
  <2>1. config[b] = config[a]
    BY <1>1 DEF Beats, Unrivalled
  <2> QED BY <1>1, <2>1 DEF TableInv, IdentityUnique
<1>3. CASE PruneBegin
  BY <1>1, <1>3, TimeAssumption DEF PruneBegin, DropStale, IsStale, Row, Ages
<1>4. CASE PruneUrl
  BY <1>1, <1>2, <1>4 DEF PruneUrl, DeleteUrlExcept
<1>5. CASE RegisterDelete
  <2> PICK p \in pending : RegisterDelete!(p)
    BY <1>5 DEF RegisterDelete
  <2> PICK q \in rows : q.id = p.id /\ SameIdentity(q, config[p.by])
    BY DEF TableInv, PendingInv
  <2>1. r.url = config[p.by].url => r.id = p.id
    BY <1>2
  <2> QED BY <1>1, <2>1 DEF DeleteUrlExcept
<1>6. CASE PruneFails \/ RegisterDeleteFails \/ Crash
  BY <1>1, <1>6 DEF PruneFails, RegisterDeleteFails, Crash
<1>7. ASSUME NEW w \in waiting, RegisterUpsert(w)
      PROVE  \E s \in rows' : s.id = r.id /\ s.age <= r.age
  <2> PICK row \in RowsFor(w) :
        /\ rows' = Upsert(rows, row)
        /\ missed' = [c \in Agents |-> IF missed[c] = 0 /\ TakenBack(c, row) THEN 1 ELSE missed[c]]
    BY <1>7 DEF RegisterUpsert
  <2>1. CASE row.id # r.id
    BY <1>1, <2>1 DEF Upsert
  <2>2. CASE row.id = r.id
    <3>1. ~TakenBack(a, row)
      BY <1>7, UpsertSetsBack
    <3>2. row.age \in Nat /\ r.age \in Nat
      BY <1>1, WrittenRow DEF Row, Ages
    <3>3. row.age <= r.age
      BY <2>2, <3>1, <3>2 DEF TakenBack, Beats
    <3> QED BY <2>2, <3>3 DEF Upsert
  <2> QED BY <2>1, <2>2
<1>8. ASSUME NEW b \in Agents, HeartbeatApply(b)
      PROVE  \E s \in rows' : s.id = r.id /\ s.age <= r.age
  BY <1>1, <1>8, BeatenRow DEF HeartbeatApply, Touch
<1>9. ASSUME NEW b \in Agents, RegisterClock(b) \/ HeartbeatVerify(b) \/ AgentStep(b)
      PROVE  \E s \in rows' : s.id = r.id /\ s.age <= r.age
  <2>1. rows' = rows
    BY <1>9 DEF RegisterClock, HeartbeatVerify, AgentStep, AgentStart, RegisterFails, AgentStops, BeatSend,
                BeatFails, RestartEnd
  <2> QED BY <1>1, <2>1
<1> QED BY <1>3, <1>4, <1>5, <1>6, <1>7, <1>8, <1>9 DEF Next, Coordinator

\* The row an agent counts on is young enough to outlive any prune.
LEMMA FreshRowYoung ==
  ASSUME TypeOK, FreshInv, NEW a \in Agents, Beats(a)
  PROVE  \E r \in rows : /\ r.id = cred[a] /\ r.age <= Stale
                         /\ r.age + timer[a] <= Budget(agent[a], missed[a])
<1> PICK r \in rows : r.id = cred[a] /\ r.age + timer[a] <= Budget(agent[a], missed[a])
  BY DEF FreshInv
<1>1. r.age \in Nat /\ timer[a] \in Nat
  BY DEF TypeOK, TableTypeOK, AgentTypeOK, Row, Ages
<1>2. Budget(agent[a], missed[a]) \in Nat /\ Budget(agent[a], missed[a]) <= Stale
  BY TimeAssumption DEF Budget
<1>3. r.age <= Stale
  BY <1>1, <1>2, TimeAssumption
<1> QED BY <1>3

\* Every step but Tick keeps the freshness invariant.
LEMMA StepFresh ==
  ASSUME TypeOK, TypeOK', TableInv, CredInv, PhaseInv, FreshInv, Next, ~Tick
  PROVE  FreshInv'
<1>1. config' = config
  BY DEF Next, Coordinator, AgentStep, PruneBegin, PruneUrl, PruneFails, RegisterDelete,
         RegisterDeleteFails, Crash, RegisterClock, RegisterUpsert, HeartbeatVerify,
         HeartbeatApply, AgentStart, RegisterFails, AgentStops, BeatSend, BeatFails, RestartEnd
<1> SUFFICES ASSUME NEW a \in Agents, agent'[a] \in {"running", "beating"}, missed'[a] <= 1,
                    Unrivalled(a)
             PROVE  \E s \in rows' : /\ s.id = cred'[a]
                                     /\ s.age + timer'[a] <= Budget(agent'[a], missed'[a])
  BY <1>1 DEF FreshInv, Beats, Unrivalled
<1>2. /\ missed[a] \in 0 .. 2 /\ missed'[a] \in 0 .. 2
      /\ timer[a] \in Nat /\ timer'[a] \in Nat
  BY DEF TypeOK, AgentTypeOK
<1>3. \A s \in rows : s.age \in Nat
  BY DEF TypeOK, TableTypeOK, Row, Ages
<1>4. \A s \in rows' : s.age \in Nat
  BY DEF TypeOK, TableTypeOK, Row, Ages
<1>5. ASSUME Beats(a), ~SetBack(a), cred'[a] = cred[a],
             \A age \in Nat : age + timer[a] <= Budget(agent[a], missed[a])
                                => age + timer'[a] <= Budget(agent'[a], missed'[a])
      PROVE  \E s \in rows' : /\ s.id = cred'[a]
                              /\ s.age + timer'[a] <= Budget(agent'[a], missed'[a])
  <2> PICK r \in rows : /\ r.id = cred[a] /\ r.age <= Stale
                        /\ r.age + timer[a] <= Budget(agent[a], missed[a])
    BY <1>5, FreshRowYoung
  <2> PICK s \in rows' : s.id = r.id /\ s.age <= r.age
    BY <1>5, RowSurvives
  <2>1. r.age + timer'[a] <= Budget(agent'[a], missed'[a])
    BY <1>3, <1>5
  <2>2. Budget(agent'[a], missed'[a]) \in Nat
    BY TimeAssumption DEF Budget
  <2>3. s.age + timer'[a] <= Budget(agent'[a], missed'[a])
    BY <1>2, <1>3, <1>4, <2>1, <2>2
  <2> QED BY <1>5, <2>3
<1>6. CASE Kept(a) /\ ~SetBack(a)
  BY <1>5, <1>6 DEF Kept, Beats
<1>7. CASE Sent(a)
  <2>1. Budget("beating", missed[a]) = Budget("running", missed[a]) + Interval
    BY TimeAssumption DEF Budget
  <2>2. Budget("running", missed[a]) \in Nat
    BY TimeAssumption DEF Budget
  <2>3. \A age \in Nat : age + timer[a] <= Budget(agent[a], missed[a])
                           => age + timer'[a] <= Budget(agent'[a], missed'[a])
    BY <1>7, <2>1, <2>2, TimeAssumption DEF Sent
  <2> QED BY <1>5, <1>7, <2>3 DEF Sent, Beats, SetBack
<1>8. CASE Failed(a)
  <2>1. missed[a] = 0 /\ missed'[a] = 1
    BY <1>2, <1>8 DEF Failed
  <2>2. Budget("running", 1) = Budget("beating", 0)
    BY TimeAssumption DEF Budget
  <2> QED BY <1>5, <1>8, <2>1, <2>2 DEF Failed, Beats, SetBack
<1>9. CASE Confirmed(a)
  <2> PICK s \in rows' : s.id = cred[a] /\ s.age = 0
    BY <1>9 DEF Confirmed
  <2>1. s.age + timer'[a] <= Budget(agent'[a], missed'[a])
    BY <1>2, <1>9, TimeAssumption DEF Confirmed, Budget
  <2> QED BY <1>9, <2>1 DEF Confirmed
<1>10. CASE Left(a) \/ Resumed(a)
  BY <1>2, <1>10 DEF Left, Resumed
<1>11. CASE SetBack(a)
  <2> PICK s \in rows' : s.id = cred[a] /\ s.age <= Interval
    BY <1>11 DEF SetBack
  <2>1. missed'[a] = 1 /\ timer'[a] = timer[a] /\ timer[a] <= Interval /\ cred'[a] = cred[a]
    BY <1>2, <1>11 DEF SetBack, PhaseInv
  <2>2. s.age + timer'[a] <= Interval + Interval
    BY <1>2, <1>4, <2>1, TimeAssumption
  <2>3. Budget(agent'[a], 1) \in Nat /\ Interval + Interval <= Budget(agent'[a], 1)
    BY TimeAssumption DEF Budget
  <2>4. s.age + timer'[a] <= Budget(agent'[a], missed'[a])
    BY <1>2, <1>4, <2>1, <2>2, <2>3, TimeAssumption
  <2> QED BY <2>1, <2>4
<1>12. Move(a)
  BY StepMoves
<1> QED BY <1>6, <1>7, <1>8, <1>9, <1>10, <1>11, <1>12 DEF Move

\* A tick takes from the timer what it adds to the age.
LEMMA TickFresh ==
  ASSUME TypeOK, PhaseInv, FreshInv, Tick
  PROVE  PhaseInv' /\ FreshInv'
<1>1. /\ \A a \in Agents : agent[a] # "down" => timer[a] > 0
      /\ \A a \in Agents : timer'[a] = IF agent[a] # "down" THEN timer[a] - 1 ELSE timer[a]
      /\ UNCHANGED <<config, agent, missed, cred>>
      /\ \A a \in Agents : timer[a] \in Nat /\ timer'[a] <= timer[a]
  BY DEF Tick, TypeOK, AgentTypeOK
<1>2. PhaseInv'
  BY <1>1, TickTypes, TimeAssumption DEF PhaseInv, TypeOK, AgentTypeOK
<1>3. FreshInv'
  <2> SUFFICES ASSUME NEW a \in Agents, Beats(a)
               PROVE  \E s \in rows' : /\ s.id = cred[a]
                                       /\ s.age + timer'[a] <= Budget(agent[a], missed[a])
    BY <1>1 DEF FreshInv, Beats, Unrivalled
  <2> PICK r \in rows : r.id = cred[a] /\ r.age + timer[a] <= Budget(agent[a], missed[a])
    BY DEF FreshInv
  <2>1. r \in Row /\ r.age \in Nat
    BY DEF TypeOK, TableTypeOK, Row, Ages
  <2>2. /\ Aged(r) \in rows' /\ Aged(r).id = r.id /\ Aged(r).age \in Nat
        /\ Aged(r).age <= r.age + 1
    BY <2>1, AgedRow DEF Tick, Row, Ages
  <2>3. timer'[a] = timer[a] - 1
    BY <1>1 DEF Beats
  <2>4. Budget(agent[a], missed[a]) \in Nat
    BY TimeAssumption DEF Budget
  <2>5. Aged(r).age + timer'[a] <= Budget(agent[a], missed[a])
    BY <1>1, <2>1, <2>2, <2>3, <2>4
  <2> QED BY <2>2, <2>5
<1> QED BY <1>2, <1>3

\* What the promise about beating nodes rests on holds in every state.
THEOREM FreshnessInvariant == Spec => [](PhaseInv /\ FreshInv)
<1>1. Init => PhaseInv /\ FreshInv
  BY DEF Init, PhaseInv, FreshInv, Beats
<1>2. TypeOK /\ TypeOK' /\ TableInv /\ CredInv /\ (PhaseInv /\ FreshInv) /\ [Next]_vars
        => (PhaseInv /\ FreshInv)'
  <2> SUFFICES ASSUME TypeOK, TypeOK', TableInv, CredInv, PhaseInv, FreshInv, [Next]_vars
               PROVE  PhaseInv' /\ FreshInv'
    OBVIOUS
  <2>1. CASE Tick
    BY <2>1, TickFresh
  <2>2. CASE Next /\ ~Tick
    BY <2>2, StepMoves, MovePhase, StepFresh
  <2>3. CASE UNCHANGED vars
    <3>1. PhaseInv'
      BY <2>3 DEF vars, PhaseInv
    <3>2. FreshInv'
      BY <2>3 DEF vars, FreshInv, Beats, Unrivalled
    <3> QED BY <3>1, <3>2
  <2> QED BY <2>1, <2>2, <2>3
<1> QED BY <1>1, <1>2, TypeCorrect, TableInvariant, CredentialInvariant, PTL DEF Spec

\* A node that misses at most one heartbeat in a row is never taken for offline.
THEOREM BeatingStaysOnline == Spec => []BeatingNodeOnline
<1>1. TypeOK /\ FreshInv => BeatingNodeOnline
  <2> SUFFICES ASSUME TypeOK, FreshInv, NEW a \in Agents, Beats(a)
               PROVE  \E r \in rows : r.id = cred[a] /\ ~IsStale(r.age)
    BY DEF BeatingNodeOnline, Beats
  <2> PICK r \in rows : r.id = cred[a] /\ r.age <= Stale
    BY FreshRowYoung
  <2>1. ~IsStale(r.age)
    BY TimeAssumption DEF IsStale, TypeOK, TableTypeOK, Row, Ages
  <2> QED BY <2>1
<1> QED BY <1>1, TypeCorrect, FreshnessInvariant, PTL
=============================================================================
