---------------------------- MODULE MCNodeConfig ----------------------------
(* Values for model checking NodeConfig. *)
EXTENDS NodeConfig
CONSTANTS k1, s1, s2

OneConfig == {k1}
TwoStarts == {s1, s2}

\* `--ram-max 1g`, a shard with its rpc address, `--clear-rpc-url`, none.
With(ram, shard, rpc, clear) == [ram |-> ram, shard |-> shard, rpc |-> rpc, clear |-> clear]
Suffixed == {With([n |-> 1, unit |-> "g"], None, None, FALSE),
             With(None, 1, "url", FALSE), With(None, None, None, TRUE), NoOption}

\* A size that only the guard can read, and one that each reads its own way.
AnySize == {With([n |-> 4194304, unit |-> "k"], None, None, FALSE),
            With([n |-> 8192, unit |-> "none"], None, None, FALSE), NoOption}
=============================================================================
