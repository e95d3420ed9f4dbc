---------------------------- MODULE ResponseCache ----------------------------
(***************************************************************************)
(* The answers that the coordinator remembers (cache.rs).  A cache maps    *)
(* keys to entries [response, left], `left` being the time an entry has to *)
(* live; at 0 it has expired but stays in the table until it is evicted.   *)
(***************************************************************************)
EXTENDS Naturals, FiniteSets, Functions

CONSTANTS
  MaxEntries,      \* DEFAULT_MAX_ENTRIES
  TtlContributor,  \* DEFAULT_TTL_CONTRIBUTOR
  TtlAnonymous     \* DEFAULT_TTL_ANONYMOUS

ASSUME CacheAssumption ==
  /\ MaxEntries \in Nat \ {0}
  /\ TtlContributor \in Nat \ {0} /\ TtlAnonymous \in 1 .. TtlContributor

EmptyCache == [k \in {} |-> 0]

Ttl(contributor) == IF contributor THEN TtlContributor ELSE TtlAnonymous

\* Mistake: the mode of a chat is not part of the key.
KeyOfAnyMode(q) == [q EXCEPT !.mode = "auto"]

\* cache_key, for a question [prompt, mode, tier]; prompts are numbered so that those
\* equal but for case and outer blanks have the same half.
CacheKey(q) == [q EXCEPT !.prompt = q.prompt \div 2]

\* evict_expired.
Live(cache) == Restrict(cache, {k \in DOMAIN cache : cache[k].left > 0})

Without(cache, k) == Restrict(cache, DOMAIN cache \ {k})

\* evict_oldest: the entry that would expire first, any of them when several would.
Oldest(cache) == {k \in DOMAIN cache : \A j \in DOMAIN cache : cache[k].left <= cache[j].left}

\* Mistake: room is made only once the table is over its limit.
RoomLate(cache) ==
  IF Cardinality(DOMAIN cache) > MaxEntries THEN {Without(cache, k) : k \in Oldest(cache)} ELSE {cache}

\* What the tables may be once there is room for one more.
Room(cache) ==
  IF Cardinality(DOMAIN cache) >= MaxEntries THEN {Without(cache, k) : k \in Oldest(cache)} ELSE {cache}

\* put: the tables it may leave.
Put(cache, key, response, contributor) ==
  {[k \in DOMAIN c \cup {key} |->
      IF k = key THEN [response |-> response, left |-> Ttl(contributor)] ELSE c[k]]
     : c \in Room(Live(cache))}

\* An hour passes.
Older(cache) ==
  [k \in DOMAIN cache |-> [cache[k] EXCEPT !.left = IF @ > 0 THEN @ - 1 ELSE 0]]
=============================================================================
