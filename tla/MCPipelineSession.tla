-------------------------- MODULE MCPipelineSession --------------------------
(* Two chats through the same two workers. *)
EXTENDS PipelineSession

CONSTANTS c1, c2
TwoChats == {c1, c2}
===============================================================================
