---------------------------- MODULE MCRequestAuth ----------------------------
(* Two requests, not both a contributor's, with any dates the clocks of the   *)
(* run can reach, and two copies being handled at a time.                     *)
EXTENDS RequestAuth, TLC

\* (A heartbeat does not expire.)
MCRequest ==
  {r \in [kind: Kinds, issued: {2, 3}, expires: {3, 5}] : r.kind = "heartbeat" => r.expires = 5}
MCRequests == {f \in [Nonces -> MCRequest] : \E n \in Nonces : f[n].kind # "contributor"}

Symmetry == Permutations(Handlers) \cup Permutations(Nonces)
=============================================================================
