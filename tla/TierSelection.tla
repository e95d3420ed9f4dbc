---------------------------- MODULE TierSelection ----------------------------
(***************************************************************************)
(* The model tier of the network: select_active_tier of                    *)
(* youai-coordinator/src/registry.rs over a manifest.  A tier is a record  *)
(* [cu, chains, ram, planned, models] (min_compute_units,                  *)
(* min_pipeline_chains, min_total_ram_gb, status "planned", number of      *)
(* models); Tiers lists them in the order of their ids.                    *)
(***************************************************************************)
EXTENDS Naturals, Sequences

CONSTANTS
  Tiers,         \* manifest.tiers
  DefaultTier    \* position of manifest.default_tier

ASSUME TiersAssumption ==
  /\ DefaultTier \in DOMAIN Tiers
  /\ Tiers \in Seq([cu: Nat, chains: Nat, ram: Nat, planned: BOOLEAN, models: Nat])

\* tier_min_compute: the RAM requirement stands in for a missing one in compute units.
MinCompute(t) == IF Tiers[t].cu > 0 THEN Tiers[t].cu ELSE Tiers[t].ram * 1024

\* The tiers the network is strong enough for.
Reached(cu, chains) ==
  {t \in DOMAIN Tiers :
     /\ ~(Tiers[t].planned /\ Tiers[t].models = 0)
     /\ cu >= MinCompute(t) /\ chains >= Tiers[t].chains}

\* Mistake: the first tier that fits wins.
FirstReached(cu, chains) ==
  LET R == Reached(cu, chains)
  IN  IF R = {} THEN DefaultTier ELSE CHOOSE t \in R : \A u \in R : t <= u

\* select_active_tier: the last one in the order of ids, or the default tier.
ActiveTier(cu, chains) ==
  LET R == Reached(cu, chains)
  IN  IF R = {} THEN DefaultTier ELSE CHOOSE t \in R : \A u \in R : u <= t
=============================================================================
