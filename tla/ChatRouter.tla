------------------------------ MODULE ChatRouter ------------------------------
(***************************************************************************)
(* POST /api/v1/chat (api.rs, pipeline.rs): a question is looked up in the *)
(* cache, else sent down a shard chain or to one replica after another.    *)
(* The handlers run concurrently; between two of their steps nodes come,   *)
(* go and register as something else, the cache ages and other chats are   *)
(* answered.  Every call to a worker ends, by an answer, an error or the   *)
(* time limit of the client.                                               *)
(***************************************************************************)
EXTENDS Network, ResponseCache, Integers, TLC

CONSTANTS
  Clients,        \* each has one chat open at a time
  Contributors,   \* those whose chats bear the token of a node
  Prompts, Modes, \* what they ask, and the routing they ask for
  MaxTokens,      \* of a question
  MaxScore,       \* bound: contributor_score
  RRSpan          \* bound: rr is counted modulo RRSpan, which is no loss

ASSUME ChatAssumption ==
  /\ Contributors \subseteq Clients /\ Prompts \subseteq Nat
  /\ Modes \subseteq {"auto", "replica", "pipeline"}
  /\ MaxTokens \in Nat \ {0} /\ MaxScore \in Nat
  /\ RRSpan \in Nat \ {0}
  /\ \A f \in Shapes :
       \A n \in 1 .. Cardinality({i \in 1 .. Nodes : ReplicaEligible(f[i])}) : RRSpan % n = 0

VARIABLES
  cache,   \* AppState.cache
  rr,      \* AppState.rr
  chat,    \* the handler of each client's chat
  reply    \* what the last step sent to a client

allVars == <<node, online, cache, rr, chat, reply>>

Question == [prompt: Prompts, mode: Modes, tier: DOMAIN Tiers]

\* A handler: `nodes` are the rows it works on, as they were when it listed them and in
\* the order it will use them, `at` the call it has come to, `tried` the replicas that
\* failed it so far.
Idle == [pc |-> "idle", asks |-> <<>>, nodes |-> <<>>, at |-> 0, start |-> 0, tried |-> {}]

\* A reply: the nodes that made the answer, or the refusal.
Nothing == [to |-> {}, asks |-> <<>>, by |-> <<>>, error |-> ""]

PCs == {"idle", "asked", "missed", "health", "infer", "chain"}
Errors == {"", "no nodes", "no chain", "no replica", "failed"}

ChatTypeOK ==
  /\ TypeOK
  /\ rr \in 0 .. RRSpan - 1
  /\ \A k \in DOMAIN cache : cache[k].left \in 0 .. TtlContributor
  /\ \A c \in Clients :
       /\ chat[c].pc \in PCs /\ (chat[c].pc # "idle" => chat[c].asks \in Question)
       /\ chat[c].nodes \in Seq(Node) /\ reply.error \in Errors
       /\ (chat[c].pc \in {"health", "infer"} => chat[c].at < Len(chat[c].nodes))

RouterInit == Init /\ cache = EmptyCache /\ rr = 0 /\ chat = [c \in Clients |-> Idle] /\ reply = Nothing

Ends(c, by, e) ==
  /\ chat' = [chat EXCEPT ![c] = Idle]
  /\ reply' = [to |-> {c}, asks |-> chat[c].asks, by |-> by, error |-> e]

Reply(c, by) == Ends(c, by, "")
Error(c, e) == Ends(c, <<>>, e)

\* The handler goes on.
Becomes(c, handler) == chat' = [chat EXCEPT ![c] = handler] /\ reply' = Nothing

\* parse_chat_request: the tier is that of the network at this moment.
Ask(c, p, mode) ==
  /\ chat[c].pc = "idle"
  /\ Becomes(c, [Idle EXCEPT !.pc = "asked", !.asks = [prompt |-> p, mode |-> mode, tier |-> Tier]])
  /\ UNCHANGED <<vars, cache, rr>>

\* The lookup, after the wait of apply_chat_priority.
Lookup(c) ==
  LET live == Live(cache)
      key == CacheKey(chat[c].asks)
  IN /\ chat[c].pc = "asked"
     /\ cache' = live
     /\ IF key \in DOMAIN live THEN Reply(c, live[key].response)
        ELSE Becomes(c, [chat[c] EXCEPT !.pc = "missed"])
     /\ UNCHANGED <<vars, rr>>

\* The orders in which chat_replica may try the eligible nodes: the list's, or for a
\* contributor that of the scores of the moment, among equals the list's.
Before(a, b, score) ==
  score[a.id] > score[b.id] \/ (score[a.id] = score[b.id] /\ a.id < b.id)
Ordered(c) ==
  LET eligible == {n \in Range(online) : ReplicaEligible(n)}
  IN  IF c \in Contributors
        THEN {list \in SetToSeqs(eligible) : \E score \in [1 .. Nodes -> 0 .. MaxScore] :
                \A i, j \in DOMAIN list : i < j => Before(list[i], list[j], score)}
        ELSE {Only(online, eligible)}

\* The rest of chat up to the first call of a worker.
Route(c) ==
  LET chain == Chain
      mode == chat[c].asks.mode
  IN /\ chat[c].pc = "missed"
     /\ \/ /\ online = <<>> /\ Error(c, "no nodes")
           /\ UNCHANGED rr
        \/ /\ online # <<>> /\ chain = <<>> /\ mode = "pipeline" /\ Error(c, "no chain")
           /\ UNCHANGED rr
        \/ /\ chain # <<>> /\ mode \in {"auto", "pipeline"}
           /\ Becomes(c, [chat[c] EXCEPT !.pc = "chain", !.nodes = chain, !.at = 1])
           /\ UNCHANGED rr
        \/ /\ online # <<>> /\ (mode = "replica" \/ (mode = "auto" /\ chain = <<>>))
           /\ \E list \in Ordered(c) :
                IF list = <<>> THEN Error(c, "no replica") /\ UNCHANGED rr
                ELSE /\ Becomes(c, [chat[c] EXCEPT !.pc = "health", !.nodes = list, !.start = rr % Len(list)])
                     /\ rr' = (rr + 1) % RRSpan
     /\ UNCHANGED <<vars, cache>>

\* The tail of chat: the answer of `answer`'s nodes is stored and sent.
Answered(c, answer) ==
  /\ cache' \in Put(cache, CacheKey(chat[c].asks), answer, c \in Contributors)
  /\ Reply(c, answer)
-----------------------------------------------------------------------------
\* chat_replica: the node whose turn it is.
Turn(c) ==
  LET list == chat[c].nodes IN list[((chat[c].start + chat[c].at) % Len(list)) + 1]

\* The loop: another attempt while `at` is below `limit`, else 502.
Attempt(c, at, limit) ==
  IF at < limit
    THEN Becomes(c, [chat[c] EXCEPT !.pc = "health", !.at = at, !.tried = @ \cup {Turn(c)}])
    ELSE Error(c, "failed")

\* Mistakes: the last node is left out; the loop runs once too often; an attempt is repeated.
NextTurnShort(c) == Attempt(c, chat[c].at + 1, Len(chat[c].nodes) - 1)
NextTurnPast(c) == Attempt(c, chat[c].at + 1, Len(chat[c].nodes) + 1)
NextTurnStays(c) == Attempt(c, chat[c].at, Len(chat[c].nodes))

NextTurn(c) == Attempt(c, chat[c].at + 1, Len(chat[c].nodes))

HealthOk(c) ==
  /\ chat[c].pc = "health" /\ Becomes(c, [chat[c] EXCEPT !.pc = "infer"])
  /\ UNCHANGED <<vars, cache, rr>>
HealthFails(c) == chat[c].pc = "health" /\ NextTurn(c) /\ UNCHANGED <<vars, cache, rr>>

InferOk(c) ==
  /\ chat[c].pc = "infer" /\ Answered(c, <<Turn(c)>>)
  /\ UNCHANGED <<vars, rr>>
InferFails(c) == chat[c].pc = "infer" /\ NextTurn(c) /\ UNCHANGED <<vars, cache, rr>>
-----------------------------------------------------------------------------
\* The calls that run_pipeline makes for a chain, in order.
Call(op, n) == [op |-> op, to |-> n]
Health(nodes) == [i \in DOMAIN nodes |-> Call("health", nodes[i])]

\* run_pipeline_activation: one token after another, the head embedding what the tail sampled.
ActivationCalls(chain) ==
  Health(chain) \o <<Call("prefill", chain[1])>>
    \o [i \in 1 .. 2 * MaxTokens - 1 |->
          IF i % 2 = 1 THEN Call("forward", chain[2]) ELSE Call("decode", chain[1])]

\* run_pipeline_gguf, but for the probe of rpc_url, whose failure changes no outcome.
GgufCalls(chain) == Health(Tail(chain)) \o <<Call("infer", chain[1])>>

\* run_pipeline_rpc.
RpcCalls(chain) ==
  FlattenSeq([i \in DOMAIN Tail(chain) |-> <<Call("health", chain[i + 1]), Call("rpc", chain[i + 1])>>])
    \o <<Call("infer", chain[1])>>

Calls(chain) ==
  <<Call("health", chain[1])>> \o
    CASE Backend(chain) = "activation" -> ActivationCalls(chain)
      [] Backend(chain) = "gguf" -> GgufCalls(chain)
      [] Backend(chain) = "rpc" -> RpcCalls(chain)

\* One call of run_pipeline succeeds; the tail may sample the end of the answer.
CallOk(c) ==
  LET chain == chat[c].nodes
      calls == Calls(chain)
      at == chat[c].at
  IN /\ chat[c].pc = "chain"
     /\ \/ /\ ~Runnable(chain) /\ Error(c, "failed")
           /\ UNCHANGED cache
        \/ /\ Runnable(chain) /\ at < Len(calls)
           /\ Becomes(c, [chat[c] EXCEPT !.at = @ + 1])
           /\ UNCHANGED cache
        \/ /\ Runnable(chain) /\ (at = Len(calls) \/ calls[at].op = "forward")
           /\ Answered(c, chain)
     /\ UNCHANGED <<vars, rr>>

CallFails(c) ==
  /\ chat[c].pc = "chain" /\ Error(c, "failed")
  /\ UNCHANGED <<vars, cache, rr>>
-----------------------------------------------------------------------------
\* The client hangs up at an await: the handler is dropped where it stands.
HangsUp(c) ==
  /\ chat[c].pc \in {"asked", "health", "infer", "chain"}
  /\ Becomes(c, Idle)
  /\ UNCHANGED <<vars, cache, rr>>

Hour ==
  /\ cache' = Older(cache) /\ cache' # cache /\ reply' = Nothing
  /\ UNCHANGED <<vars, rr, chat>>

\* What the coordinator does for a chat, the calls it waits for included.
Step(c) ==
  \/ Lookup(c) \/ Route(c)
  \/ HealthOk(c) \/ HealthFails(c) \/ InferOk(c) \/ InferFails(c)
  \/ CallOk(c) \/ CallFails(c)

RouterNext ==
  \/ \E c \in Clients :
       \/ \E p \in Prompts, mode \in Modes : Ask(c, p, mode)
       \/ Step(c) \/ HangsUp(c)
  \/ Next /\ reply' = Nothing /\ UNCHANGED <<cache, rr, chat>>
  \/ Hour

RouterSpec == RouterInit /\ [][RouterNext]_allVars
-----------------------------------------------------------------------------
\* The table never outgrows its limit, whoever stores at the same time (put).
CacheBounded == Cardinality(DOMAIN cache) <= MaxEntries

\* An answer suits what was asked, remembered or not, by the rows the chat went by: a
\* replica chat is never answered by a chain, a pipeline chat only by a chain with every
\* stage, of one group and model, and no single answer comes from a node listed with a
\* part of a model (chat, cache_key).  A node that has registered as something else since
\* the chat listed it is still called as what it was: what the answer is worth then is for
\* the worker, not for the coordinator, and the property does not say.
AnswerFitsMode ==
  LET by == reply.by
      mode == reply.asks.mode
  IN  by # <<>> =>
        /\ (mode = "replica" => Len(by) = 1) /\ (mode = "pipeline" => Len(by) >= 2)
        /\ IF Len(by) = 1 THEN ReplicaEligible(by[1])
           ELSE /\ Runnable(by)
                /\ \A k \in DOMAIN by :
                     /\ by[k].stage = k - 1
                     /\ by[k].group = by[1].group /\ by[k].model = by[1].model

\* 502 for a replica chat means that every replica of its list has failed it, once
\* (chat_replica): with rr moving under it and other chats in between none is left out.
EveryReplicaTried ==
  [][\A c \in reply'.to :
       chat[c].pc \in {"health", "infer"} /\ reply'.error = "failed"
       => /\ chat[c].tried \cup {Turn(c)} = Range(chat[c].nodes)
          /\ Turn(c) \notin chat[c].tried]_allVars

\* The calls a chat may still have to wait for, and no more than that.
WorkLeft(c) ==
  LET most == 2 * (Nodes + MaxTokens + 1)
      nodes == chat[c].nodes
  IN  CASE chat[c].pc = "idle" -> 0
        [] chat[c].pc = "asked" -> most + 2
        [] chat[c].pc = "missed" -> most + 1
        [] chat[c].pc = "health" -> 2 * (Len(nodes) - chat[c].at)
        [] chat[c].pc = "infer" -> 2 * (Len(nodes) - chat[c].at) - 1
        [] chat[c].pc = "chain" -> 1 + IF Runnable(nodes) THEN Len(Calls(nodes)) - chat[c].at ELSE 0

\* Every chat comes to its reply: whatever fails, comes or goes meanwhile, each step of
\* its handler leaves less to wait for, and no failing worker keeps it in a loop
\* (chat_replica, run_pipeline); every call ends by the time limit of its client.
EveryChatEnds ==
  [][\A c \in Clients :
       chat[c].pc # "idle" /\ chat'[c] # chat[c] => 0 <= WorkLeft(c)' /\ WorkLeft(c)' < WorkLeft(c)]_allVars
=============================================================================
