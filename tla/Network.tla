-------------------------------- MODULE Network --------------------------------
(***************************************************************************)
(* The network as the coordinator sees it: nodes come online and go        *)
(* offline, and each request works on the list of the moment               *)
(* (network_snapshot of api.rs, online_nodes of db.rs).  NodeRegistry has  *)
(* how a row comes and goes; here a node is on the list or not, and may    *)
(* register again at any time as something else.                           *)
(***************************************************************************)
EXTENDS PipelineChain, TierSelection, SequencesExt

CONSTANTS
  Nodes,   \* how many there are; ids are in the order of the names, then of the stages
  Shapes   \* the ways they may be configured: sequences of Node, all in that order

Node == [id: 1 .. Nodes, group: Groups, stage: Nat, total: Nat, model: Nat,
         activation: BOOLEAN, ggufIndex: Nat, ggufTotal: Nat, rpc: BOOLEAN, cu: Nat]

ASSUME NodesAssumption ==
  /\ Nodes \in Nat
  /\ \A f \in Shapes : f \in [1 .. Nodes -> Node] /\ \A i \in 1 .. Nodes : f[i].id = i

VARIABLES
  node,    \* what each node is registered as
  online   \* online_nodes: those with a recent heartbeat, in the order of their ids

vars == <<node, online>>

TypeOK ==
  /\ node \in [1 .. Nodes -> Node] /\ online \in Seq(Range(node))
  /\ \A i, j \in DOMAIN online : i < j => online[i].id < online[j].id

Init == node \in Shapes /\ online = <<>>

\* What each node may be registered as.
Rows == [i \in 1 .. Nodes |-> {f[i] : f \in Shapes}]

\* The configurations that differ from f in node i only.
Changes ==
  [f \in Shapes |-> [i \in 1 .. Nodes |->
     {[f EXCEPT ![i] = row] : row \in Rows[i] \ {f[i]}} \cap Shapes]]

\* The nodes on the list.
Listed == {n.id : n \in Range(online)}

\* Mistake: the list is in the order of arrival.
Unsorted(rows, I) == LET S == {rows[i] : i \in I} IN Only(online, S) \o Only(rows, S \ Range(online))

\* The rows with the ids I, as online_nodes sorts them.
Sorted(rows, I) == Only(rows, {rows[i] : i \in I})

\* A node is seen again, by a heartbeat or a registration as what it was.
Joins(i) ==
  /\ i \notin Listed
  /\ online' = Sorted(node, Listed \cup {i}) /\ UNCHANGED node

\* It becomes stale, or its row is deleted.
Leaves(i) ==
  /\ i \in Listed
  /\ online' = Sorted(node, Listed \ {i}) /\ UNCHANGED node

\* Online or not, it registers as something else: upsert_node replaces group, stage,
\* length, model and all the rest of the row.
Registers(i) ==
  /\ node' \in Changes[node][i]
  /\ online' = Sorted(node', Listed \cup {i})

Next == \E i \in 1 .. Nodes : Joins(i) \/ Leaves(i) \/ Registers(i)

Spec == Init /\ [][Next]_vars
-----------------------------------------------------------------------------
Chain == Resolve(online, Preferred)

GroupOf(chain) == IF chain = <<>> THEN 0 ELSE chain[1].group

\* network_compute_units.
Compute == FoldSeq(LAMBDA n, sum : n.cu + sum, 0, online)

\* The active tier of network_snapshot.
Tier == ActiveTier(Compute, ChainCount(online))

\* The sets of online nodes that form a chain, each stage of it once.
CompleteSets ==
  {S \in SUBSET Range(online) :
     \E n \in S :
       /\ n.group # 0 /\ n.total >= 2 /\ Cardinality(S) = n.total
       /\ \A m \in S : m.group = n.group /\ m.total = n.total /\ m.model = n.model
       /\ {m.stage : m \in S} = 0 .. n.total - 1}
-----------------------------------------------------------------------------
\* The members of each group say the same about its length and model.
Agreeing ==
  \A n, m \in Range(online) :
    n.group # 0 /\ n.group = m.group => n.total = m.total /\ n.model = m.model

\* A resolved chain can be walked: its stages are 0, 1, ... in order, of one group, and
\* it has the model and the whole length that the first member of the group on the list
\* announces, whoever of the members announces another (resolve_pipeline).
ChainInOrder ==
  LET chain == Chain
      first == Head(Members(online, GroupOf(chain)))
  IN  chain # <<>> =>
        /\ Len(chain) = first.total
        /\ \A k \in DOMAIN chain :
             /\ chain[k] \in Range(online) /\ chain[k].stage = k - 1
             /\ chain[k].group = first.group /\ chain[k].model = first.model

\* When the members of a group agree on length and model no chain is overlooked:
\* resolve_pipeline finds one exactly when a complete one is online.
UniformChainFound == Agreeing => (Chain # <<>> <=> CompleteSets # {})

\* The chain of the preferred group, resolved before and after a step: it is left only with
\* one of its nodes, and a stage whose node is still there passes to a newcomer that sorts
\* before that node or to no other.
KeepsChain(was, is) ==
  LET first == Head(Members(online, Preferred))
      next == Head(Members(online', Preferred))
      newcomers == Range(online') \ Range(online)
  IN  /\ GroupOf(was) = Preferred
      /\ Members(online', Preferred) # <<>>
      /\ next.total = first.total /\ next.model = first.model
      => /\ Range(was) \subseteq Range(online') => GroupOf(is) = Preferred
         /\ GroupOf(is) = Preferred =>
              /\ Len(is) = Len(was)
              /\ \A k \in DOMAIN was : was[k] \in Range(online') =>
                   is[k] = was[k] \/ (is[k] \in newcomers /\ is[k].id < was[k].id)

\* Chats are not rerouted without need: as long as the first member of the preferred
\* group announces the same length and model, its chain is left only when one of its own
\* nodes is (gone, or registered as something else); and from one chain of it to the next
\* a stage whose node is still there passes to no other but a newcomer that sorts before
\* that node (resolve_pipeline takes the first holder of each stage from a sorted list).
ChainKept == [][\A was \in {Chain}, is \in {Chain'} : KeepsChain(was, is)]_vars

\* There are k complete chains online that share no node.
ChainsApart(k) ==
  \E F \in SUBSET CompleteSets :
    Cardinality(F) = k /\ \A S, T \in F : S = T \/ S \cap T = {}

\* The requirements of tier t as docs/MODEL_TIERS.md has them (:166, :172), pipeline_chains
\* being the complete chains that the network has.
Met(t) ==
  /\ ~(Tiers[t].planned /\ Tiers[t].models = 0)
  /\ Compute >= MinCompute(t) /\ ChainsApart(Tiers[t].chains)

\* Where the members of each group agree, the nodes are told no tier but the default one
\* that the network does not meet, and none below a tier that it meets, unless that tier
\* asks for more than one chain (select_active_tier is given count_pipeline_chains, which
\* is 0 or 1, for the number of chains).
TierEarned ==
  Agreeing =>
    /\ Tier # DefaultTier => Met(Tier)
    /\ \A t \in DOMAIN Tiers : Met(t) /\ Tiers[t].chains <= 1 => Tier >= t

\* The comment above resolve_pipeline (db.rs:325): a chain is returned when a complete
\* one is online.
CompleteChainFound == CompleteSets # {} => Chain # <<>>

\* docs/MODEL_TIERS.md:166: the tier is the highest whose requirements the network meets.
TierByChains == \A t \in DOMAIN Tiers : Met(t) => Tier >= t
=============================================================================
