--------------------------- MODULE MCNodeRegistry ---------------------------
(* NodeRegistry for two agents.  Nothing tells the members of a set apart.    *)
EXTENDS NodeRegistry, TLC

\* One identity twice (a config.yaml copied with its default name and url), two
\* names on one url, or nothing in common.  (Equal names on two urls behave as
\* two unrelated identities do.)
MCConfigs ==
  {c \in [Agents -> [name: Names, url: Urls]] :
     \A a, b \in Agents : c[a].name = c[b].name => c[a].url = c[b].url}

Symmetry ==
  Permutations(Agents) \cup Permutations(Names) \cup Permutations(Urls) \cup Permutations(Ids)
=============================================================================
