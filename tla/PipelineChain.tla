---------------------------- MODULE PipelineChain ----------------------------
(***************************************************************************)
(* Which online nodes serve a chat: the shard chain that db.rs resolves,   *)
(* the backend pipeline.rs picks for it and the nodes lib.rs lets answer   *)
(* alone.  A node is a record [id, group, stage, total, model, activation, *)
(* ggufIndex, ggufTotal, rpc, cu]; `activation` says whether pipeline_kind *)
(* is "activation" and `rpc` whether rpc_url is set.  Group 0 is the empty *)
(* name; the other numbers are ordered as the names are.  A chain is a     *)
(* sequence of nodes, <<>> for None.                                       *)
(***************************************************************************)
EXTENDS Naturals, Sequences, FiniteSets

CONSTANTS
  Groups,     \* shard group names, 0 among them
  Preferred   \* DEFAULT_PIPELINE_GROUP

ASSUME GroupsAssumption ==
  Groups \subseteq Nat /\ 0 \in Groups /\ Preferred \in Groups \ {0}

\* The elements of s that are in S, in the order of s: SelectSeq, as a function over the
\* prefixes of s that proofs can unfold.
Only(s, S) ==
  LET upTo[i \in 0 .. Len(s)] ==
        IF i = 0 THEN <<>>
        ELSE IF s[i] \in S THEN Append(upTo[i - 1], s[i]) ELSE upTo[i - 1]
  IN  upTo[Len(s)]

InGroup(n, g) == n.total >= 2 /\ n.group # 0 /\ n.group = g

\* The members of a group in the order of the online list.
Members(online, g) == Only(online, {n \in {online[i] : i \in DOMAIN online} : InGroup(n, g)})

\* Mistake: any member with the right stage will do.
StagesOfAnyModel(ms, s, model) == {i \in DOMAIN ms : ms[i].stage = s}

Holders(ms, s, model) == {i \in DOMAIN ms : ms[i].stage = s /\ ms[i].model = model}

\* Mistake: the last one found wins.
Latest(S) == CHOOSE i \in S : \A j \in S : i >= j

First(S) == CHOOSE i \in S : \A j \in S : i <= j

\* try_group: the first member fixes the model and the number of stages.
TryGroup(online, g) ==
  LET ms == Members(online, g)
      holders(s) == Holders(ms, s, ms[1].model)
  IN  IF ms # <<>> /\ \A s \in 0 .. ms[1].total - 1 : holders(s) # {}
        THEN [i \in 1 .. ms[1].total |-> ms[First(holders(i - 1))]]
        ELSE <<>>

\* Mistake: no other group stands in for the preferred one.
PreferredOnly(online, preferred) == TryGroup(online, preferred)

\* resolve_pipeline: the preferred group if it is complete, else the first that is.
Resolve(online, preferred) ==
  LET chain == [g \in Groups |-> TryGroup(online, g)]
      complete == {g \in Groups : chain[g] # <<>>}
  IN  IF preferred \in complete THEN chain[preferred]
      ELSE IF complete # {} THEN chain[First(complete)]
      ELSE <<>>

\* count_pipeline_chains, which has no preference.
ChainCount(online) == IF Resolve(online, 0) # <<>> THEN 1 ELSE 0

\* is_replica_eligible.
ReplicaEligible(n) == n.total <= 1 /\ n.ggufTotal <= 1 /\ ~n.activation

\* detect_backend.
Backend(chain) ==
  LET stages == DOMAIN chain IN
  IF \E i \in stages : chain[i].activation
    THEN IF \A i \in stages : chain[i].activation THEN "activation" ELSE "error"
  ELSE IF chain[1].ggufTotal >= 2
    THEN IF \A i \in stages : chain[i].ggufTotal = chain[1].ggufTotal /\ chain[i].ggufIndex = i - 1
           THEN "gguf" ELSE "error"
  ELSE IF \A i \in stages \ {1} : chain[i].rpc THEN "rpc" ELSE "error"

\* The work run_pipeline_activation accepts.
Runnable(chain) ==
  Backend(chain) # "error" /\ (Backend(chain) = "activation" => Len(chain) = 2)
=============================================================================
