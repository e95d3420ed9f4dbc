--------------------------- MODULE MCNodeSupervisor ---------------------------
(* One machine, on which one or two start commands are given. *)
EXTENDS NodeSupervisor

CONSTANTS a, b
OneAgent == {a}
BothAgents == {a, b}
===============================================================================
