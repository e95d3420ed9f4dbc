------------------------------- MODULE OneShot -------------------------------
(***************************************************************************)
(* What the nonces of signed requests are to achieve, without nonces,      *)
(* clocks or handlers: a request is accepted, then takes effect or comes   *)
(* to nothing, and once it has taken effect it is never accepted again as  *)
(* long as the coordinator runs.                                           *)
(***************************************************************************)
CONSTANT Requests

VARIABLE state  \* what has become of each request

Init == state = [n \in Requests |-> "open"]

Becomes(n, from, to) == state[n] = from /\ state' = [state EXCEPT ![n] = to]

Accept(n) == Becomes(n, "open", "accepted")
TakeEffect(n) == Becomes(n, "accepted", "done")
ComeToNothing(n) == Becomes(n, "accepted", "open")

\* A new life of the coordinator remembers nothing.
Restart == state' = [n \in Requests |-> "open"]

Next == \/ \E n \in Requests : Accept(n) \/ TakeEffect(n) \/ ComeToNothing(n)
        \/ Restart

Spec == Init /\ [][Next]_state
=============================================================================
