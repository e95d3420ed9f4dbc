------------------------------ MODULE SessionStore ------------------------------
(***************************************************************************)
(* What the session directories of a chat are to hold, without steps,      *)
(* processes or retries: at each stage the log of the inputs the chat has  *)
(* had decoded there.  A log grows by the input that is due; only a chat   *)
(* under suspicion may have its last input a second time.  No input is     *)
(* ever left out, and no other chat's gets in.                             *)
(***************************************************************************)
EXTENDS Naturals, Sequences

CONSTANTS Chats, Stages

VARIABLES log,      \* the inputs decoded, for each stage and chat
          suspect   \* the chats something went wrong for in mid-step

Init == /\ log = [s \in Stages |-> [c \in Chats |-> <<>>]]
        /\ suspect = {}

\* The inputs of a chat are numbered from 0 at each stage.
Due(kv) == IF kv = <<>> THEN 0 ELSE kv[Len(kv)] + 1

Grow(s, c, i) ==
  /\ log' = [log EXCEPT ![s] = [log[s] EXCEPT ![c] = Append(log[s][c], i)]]
  /\ UNCHANGED suspect

Once(s, c) == Grow(s, c, Due(log[s][c]))

Again(s, c) == /\ c \in suspect
               /\ log[s][c] # <<>>
               /\ Grow(s, c, log[s][c][Len(log[s][c])])

Suspect(c) == suspect' = suspect \cup {c} /\ UNCHANGED log

Next == \E c \in Chats : \/ Suspect(c)
                         \/ \E s \in Stages : Once(s, c) \/ Again(s, c)

Spec == Init /\ [][Next]_<<log, suspect>>
=============================================================================
