----------------------------- MODULE Membership -----------------------------
(***************************************************************************)
(* What the coordinator's table promises the nodes, without statements,    *)
(* clocks, mutexes or prunes: a member is one identity for life, with one  *)
(* id and a score that never falls; a machine that is online is taken off  *)
(* the list only in favour of another online member for the same url, and  *)
(* the id of one that was taken off is never given out again.              *)
(***************************************************************************)
EXTENDS Naturals

CONSTANTS Ids, Names, Urls

VARIABLES
  members,  \* those on the list, online or stale
  gone      \* the ids of those who were

vars == <<members, gone>>

Init == members = {} /\ gone = {}

Online(id, name, url, score) ==
  [id |-> id, name |-> name, url |-> url, score |-> score, state |-> "online"]

Joins(id, name, url) ==
  /\ id \notin gone
  /\ \A m \in members : m.id # id /\ ~(m.name = name /\ m.url = url)
  /\ members' = members \cup {Online(id, name, url, 0)}
  /\ UNCHANGED gone

\* A beat or a new registration; only a beat counts.
Heard(m, score) ==
  /\ members' = (members \ {m}) \cup {Online(m.id, m.name, m.url, score)}
  /\ UNCHANGED gone

\* Time passes for some.
Fades(S) ==
  /\ members' = {IF m \in S THEN [m EXCEPT !.state = "stale"] ELSE m : m \in members}
  /\ UNCHANGED gone

Leaves ==
  /\ members' \subseteq members
  /\ \A m \in members \ members' : m.state = "online" =>
       \E n \in members' : n.url = m.url /\ n.state = "online"
  /\ gone' = gone \cup {m.id : m \in members \ members'}

Next ==
  \/ Leaves
  \/ \E m \in members : \E score \in {m.score, m.score + 1} : Heard(m, score)
  \/ \E S \in SUBSET members : Fades(S)
  \/ \E id \in Ids, name \in Names, url \in Urls : Joins(id, name, url)

Spec == Init /\ [][Next]_vars
=============================================================================
