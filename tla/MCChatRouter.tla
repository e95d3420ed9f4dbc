----------------------------- MODULE MCChatRouter -----------------------------
(* Three nodes: a chain of two splits beside a replica or, its second node         *)
(* registered as a replica, one split beside two; or the chain of another backend,  *)
(* one of them unfit to run.  A contributor and another client chat.                *)
EXTENDS ChatRouter

Replica(i) ==
  [id |-> i, group |-> 0, stage |-> 0, total |-> 1, model |-> 1, activation |-> FALSE,
   ggufIndex |-> 0, ggufTotal |-> 1, rpc |-> FALSE, cu |-> 1]
Stage(i, s, t) == [Replica(i) EXCEPT !.group = 1, !.stage = s, !.total = t]
Activation(i, s) == [Stage(i, s, 2) EXCEPT !.activation = TRUE]
Gguf(i, s, t) == [Stage(i, s, t) EXCEPT !.ggufIndex = s, !.ggufTotal = t]
Rpc(i, s) == [Stage(i, s, 3) EXCEPT !.rpc = s > 0]

MCShapes ==
  {<<Gguf(1, 0, 2), Gguf(2, 1, 2), Replica(3)>>,
   <<Gguf(1, 0, 2), Replica(2), Replica(3)>>,
   <<Activation(1, 0), Activation(2, 1), Activation(3, 1)>>,
   <<Gguf(1, 0, 3), Gguf(2, 1, 3), Gguf(3, 2, 3)>>,
   <<Rpc(1, 0), Rpc(2, 1), Rpc(3, 2)>>,
   <<Rpc(1, 0), Gguf(2, 1, 3), Stage(3, 2, 3)>>}

MCTiers ==
  <<[cu |-> 1, chains |-> 0, ram |-> 0, planned |-> FALSE, models |-> 1]>>
=============================================================================
