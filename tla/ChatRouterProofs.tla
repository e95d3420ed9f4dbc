-------------------------- MODULE ChatRouterProofs --------------------------
(***************************************************************************)
(* The network and the chat router for any nodes, shapes, tiers, clients,  *)
(* questions and bounds.  First the facts about filtered sequences, sums   *)
(* and flattened sequences that the definitions rest on, each by a least   *)
(* counterexample; then the list of online nodes, the chain resolved from  *)
(* it and the tier; then the cache, the handlers and their replies.        *)
(***************************************************************************)
EXTENDS ChatRouter, FiniteSetTheorems, WellFoundedInduction, TLAPS

-----------------------------------------------------------------------------
(* Numbers.                                                                *)

LEMMA LeastNumber ==
  ASSUME NEW S \in SUBSET Nat, S # {}
  PROVE  \E m \in S : \A n \in S : m <= n
<1>1. PICK m \in S : \A n \in S : ~(<<n, m>> \in OpToRel(<, Nat))
  BY NatLessThanWellFounded, WFMin
<1>2. \A n \in S : ~(n < m)
  BY <1>1 DEF OpToRel
<1> QED BY <1>2

LEMMA GreatestNumber ==
  ASSUME NEW b \in Nat, NEW S \in SUBSET (0 .. b), S # {}
  PROVE  \E m \in S : \A n \in S : n <= m
<1> DEFINE R == {b - n : n \in S}
<1>1. R \in SUBSET Nat /\ R # {}
  <2>1. \A n \in S : b - n \in Nat
    OBVIOUS
  <2> QED BY <2>1
<1> HIDE DEF R
<1>2. PICK r \in R : \A q \in R : r <= q
  BY <1>1, LeastNumber
<1>3. PICK m \in S : r = b - m
  BY DEF R
<1>4. \A n \in S : b - n \in R
  BY DEF R
<1>5. \A n \in S : b - m <= b - n
  BY <1>2, <1>3, <1>4
<1> QED BY <1>5

\* Induction over the numbers, for a set of them.
LEMMA Induction ==
  ASSUME NEW S, 0 \in S, \A n \in Nat : n \in S => n + 1 \in S
  PROVE  \A n \in Nat : n \in S
<1> SUFFICES ASSUME NEW k \in Nat, k \notin S PROVE FALSE
  OBVIOUS
<1> DEFINE R == Nat \ S
<1>1. PICK m \in R : \A n \in R : m <= n
  BY LeastNumber
<1>2. m # 0 /\ m - 1 \in Nat
  BY <1>1
<1>3. m - 1 \in S
  BY <1>1, <1>2
<1> QED BY <1>1, <1>2, <1>3
-----------------------------------------------------------------------------
(* Filtered sequences.                                                     *)

\* The function over the prefixes that Only is defined by exists.
LEMMA OnlyUnfold ==
  ASSUME NEW T, NEW s \in Seq(T), NEW S
  PROVE  \E f : /\ \A i \in 0 .. Len(s) :
                     f[i] = IF i = 0 THEN <<>>
                            ELSE IF s[i] \in S THEN Append(f[i - 1], s[i]) ELSE f[i - 1]
                /\ Only(s, S) = f[Len(s)]
<1> DEFINE Step_(f, i) == IF i = 0 THEN <<>>
                          ELSE IF s[i] \in S THEN Append(f[i - 1], s[i]) ELSE f[i - 1]
           Good == {n \in Nat : \E f : f = [i \in 0 .. n |-> Step_(f, i)]}
<1>1. 0 \in Good
  <2> DEFINE g == [i \in 0 .. 0 |-> <<>>]
  <2>1. g = [i \in 0 .. 0 |-> Step_(g, i)]
    <3>1. \A i \in 0 .. 0 : Step_(g, i) = <<>>
      OBVIOUS
    <3> HIDE DEF Step_
    <3> QED BY <3>1
  <2> HIDE DEF g, Step_
  <2> QED BY <2>1
<1>2. ASSUME NEW n \in Nat, n \in Good PROVE n + 1 \in Good
  <2> HIDE DEF Step_
  <2> PICK f : f = [i \in 0 .. n |-> Step_(f, i)]
    BY <1>2
  <2> DEFINE g == [i \in 0 .. n + 1 |-> Step_(f, i)]
  <2>1. \A i \in 0 .. n : g[i] = f[i]
    <3> TAKE i \in 0 .. n
    <3>1. f[i] = Step_(f, i)
      OBVIOUS
    <3>2. g[i] = Step_(f, i)
      BY i \in 0 .. n + 1
    <3> QED BY <3>1, <3>2
  <2>2. \A i \in 0 .. n + 1 : Step_(g, i) = Step_(f, i)
    <3> TAKE i \in 0 .. n + 1
    <3>1. i # 0 => i - 1 \in 0 .. n
      OBVIOUS
    <3> HIDE DEF g
    <3> QED BY <2>1, <3>1 DEF Step_
  <2>3. g = [i \in 0 .. n + 1 |-> Step_(g, i)]
    BY <2>2
  <2> HIDE DEF g
  <2> QED BY <2>3
<1>3. Len(s) \in Good
  <2> HIDE DEF Good
  <2> QED BY <1>1, <1>2, Induction
<1> DEFINE upTo == CHOOSE f : f = [i \in 0 .. Len(s) |-> Step_(f, i)]
<1>4. Only(s, S) = upTo[Len(s)]
  BY DEF Only
<1>5. upTo = [i \in 0 .. Len(s) |-> Step_(upTo, i)]
  <2> HIDE DEF Step_
  <2> QED BY <1>3
<1> HIDE DEF upTo
<1>6. \A i \in 0 .. Len(s) : upTo[i] = Step_(upTo, i)
  <2> HIDE DEF Step_
  <2> QED BY <1>5
<1> QED BY <1>4, <1>6

\* Where the elements of a filtered sequence stood: at indices in the same order, and at
\* every index that holds an element of S.
LEMMA OnlyIndices ==
  ASSUME NEW T, NEW s \in Seq(T), NEW S
  PROVE  /\ Only(s, S) \in Seq(T)
         /\ \E h \in [DOMAIN Only(s, S) -> DOMAIN s] :
              /\ \A k \in DOMAIN Only(s, S) : Only(s, S)[k] = s[h[k]] /\ s[h[k]] \in S
              /\ \A k, l \in DOMAIN Only(s, S) : k < l => h[k] < h[l]
              /\ \A j \in DOMAIN s : s[j] \in S => \E k \in DOMAIN Only(s, S) : h[k] = j
<1>0. PICK f :
      /\ \A i \in 0 .. Len(s) :
           f[i] = IF i = 0 THEN <<>>
                  ELSE IF s[i] \in S THEN Append(f[i - 1], s[i]) ELSE f[i - 1]
      /\ Only(s, S) = f[Len(s)]
  BY OnlyUnfold
<1> DEFINE From(t, i, h) ==
             /\ h \in [DOMAIN t -> 1 .. i]
             /\ \A k \in DOMAIN t : t[k] = s[h[k]] /\ s[h[k]] \in S
             /\ \A k, l \in DOMAIN t : k < l => h[k] < h[l]
             /\ \A j \in 1 .. i : s[j] \in S => \E k \in DOMAIN t : h[k] = j
           Good == {i \in Nat : i <= Len(s) => f[i] \in Seq(T) /\ \E h : From(f[i], i, h)}
<1>1. 0 \in Good
  <2>1. f[0] = <<>>
    BY <1>0
  <2>2. From(<<>>, 0, [k \in {} |-> 0])
    OBVIOUS
  <2>3. f[0] \in Seq(T) /\ From(f[0], 0, [k \in {} |-> 0])
    <3> HIDE DEF From
    <3> QED BY <2>1, <2>2
  <2> HIDE DEF From
  <2> QED BY <2>3
<1>2. ASSUME NEW n \in Nat, n \in Good PROVE n + 1 \in Good
  <2> SUFFICES ASSUME n + 1 <= Len(s)
               PROVE  f[n + 1] \in Seq(T) /\ \E h : From(f[n + 1], n + 1, h)
    OBVIOUS
  <2> DEFINE t == f[n]
  <2>1. t \in Seq(T) /\ \E h : From(t, n, h)
    BY <1>2
  <2> PICK h : From(t, n, h)
    BY <2>1
  <2>2. f[n + 1] = IF s[n + 1] \in S THEN Append(t, s[n + 1]) ELSE t
    BY <1>0
  <2>3. s[n + 1] \in T
    OBVIOUS
  <2> HIDE DEF t
  <2>4. CASE s[n + 1] \in S
    <3> DEFINE u == Append(t, s[n + 1])
               m == Len(t) + 1
               g == [k \in 1 .. m |-> IF k = m THEN n + 1 ELSE h[k]]
    <3>0. m \in Nat \ {0} /\ DOMAIN t = 1 .. m - 1 /\ DOMAIN u = 1 .. m /\ u[m] = s[n + 1] /\ u \in Seq(T)
      BY <2>1, <2>3
    <3>1. \A k \in 1 .. m - 1 : u[k] = t[k] /\ g[k] = h[k] /\ h[k] \in 1 .. n
      BY <2>1
    <3>1b. g[m] = n + 1
      BY <3>0
    <3>2. From(u, n + 1, g)
      <4>1. g \in [1 .. m -> 1 .. n + 1]
        BY <3>0, <3>1
      <4> HIDE DEF u, m, g
      <4>0. \A k \in 1 .. m : k = m \/ k \in 1 .. m - 1
        BY <3>0
      <4>2. \A k \in 1 .. m : u[k] = s[g[k]] /\ s[g[k]] \in S
        <5> TAKE k \in 1 .. m
        <5>1. CASE k = m
          BY <5>1, <3>0, <3>1b, <2>4
        <5>2. CASE k \in 1 .. m - 1
          BY <5>2, <3>0, <3>1
        <5> QED BY <5>1, <5>2, <4>0
      <4>3. \A k, l \in 1 .. m : k < l => g[k] < g[l]
        <5> SUFFICES ASSUME NEW k \in 1 .. m, NEW l \in 1 .. m, k < l PROVE g[k] < g[l]
          OBVIOUS
        <5>0. k \in 1 .. m - 1
          BY <3>0
        <5>1. CASE l = m
          BY <5>0, <5>1, <3>1, <3>1b
        <5>2. CASE l \in 1 .. m - 1
          BY <5>0, <5>2, <3>0, <3>1
        <5> QED BY <5>1, <5>2, <4>0
      <4>4. \A j \in 1 .. n + 1 : s[j] \in S => \E k \in 1 .. m : g[k] = j
        <5> SUFFICES ASSUME NEW j \in 1 .. n + 1, s[j] \in S PROVE \E k \in 1 .. m : g[k] = j
          OBVIOUS
        <5>1. CASE j = n + 1
          BY <5>1, <3>0, <3>1b
        <5>2. CASE j \in 1 .. n
          <6> PICK k \in DOMAIN t : h[k] = j
            BY <5>2
          <6>1. k \in 1 .. m - 1
            BY <3>0
          <6>2. g[k] = j /\ k \in 1 .. m
            BY <6>1, <3>0, <3>1
          <6> QED BY <6>2
        <5> QED BY <5>1, <5>2
      <4> QED BY <3>0, <4>1, <4>2, <4>3, <4>4
    <3> HIDE DEF From, g
    <3> QED BY <2>2, <2>4, <3>0, <3>2
  <2>5. CASE s[n + 1] \notin S
    <3>1. From(t, n + 1, h)
      BY <2>5
    <3> HIDE DEF From
    <3> QED BY <2>1, <2>2, <2>5, <3>1
  <2> QED BY <2>4, <2>5
<1>3. Len(s) \in Good
  <2> HIDE DEF Good
  <2> QED BY <1>1, <1>2, Induction
<1>4. Only(s, S) \in Seq(T) /\ \E h : From(Only(s, S), Len(s), h)
  <2> HIDE DEF From
  <2> QED BY <1>0, <1>3
<1>5. DOMAIN s = 1 .. Len(s)
  OBVIOUS
<1> QED BY <1>4, <1>5

\* Exactly the elements of s in S, in the order they had.
LEMMA OnlyRange ==
  ASSUME NEW T, NEW s \in Seq(T), NEW S
  PROVE  Only(s, S) \in Seq(T) /\ Range(Only(s, S)) = Range(s) \cap S
<1> DEFINE t == Only(s, S)
<1>1. /\ t \in Seq(T)
      /\ \E h \in [DOMAIN t -> DOMAIN s] :
           /\ \A k \in DOMAIN t : t[k] = s[h[k]] /\ s[h[k]] \in S
           /\ \A j \in DOMAIN s : s[j] \in S => \E k \in DOMAIN t : h[k] = j
  BY OnlyIndices
<1> HIDE DEF t
<1>2. PICK h \in [DOMAIN t -> DOMAIN s] :
           /\ \A k \in DOMAIN t : t[k] = s[h[k]] /\ s[h[k]] \in S
           /\ \A j \in DOMAIN s : s[j] \in S => \E k \in DOMAIN t : h[k] = j
  BY <1>1
<1>3. Range(t) \subseteq Range(s) \cap S
  BY <1>2 DEF Range
<1>4. ASSUME NEW x \in Range(s) \cap S PROVE x \in Range(t)
  <2> PICK j \in DOMAIN s : s[j] = x
    BY DEF Range
  <2> PICK k \in DOMAIN t : h[k] = j
    BY <1>2
  <2> QED BY <1>2 DEF Range
<1> QED BY <1>1, <1>3, <1>4 DEF t

LEMMA NodeFields ==
  ASSUME NEW n \in Node
  PROVE  /\ n.id \in 1 .. Nodes /\ n.id \in Nat /\ n.group \in Groups /\ n.group \in Nat
         /\ n.stage \in Nat /\ n.total \in Nat /\ n.model \in Nat /\ n.cu \in Nat
<1>1. n.id \in 1 .. Nodes
  BY Zenon DEF Node
<1>2. n.id \in Nat
  BY <1>1, NodesAssumption
<1>3. n.group \in Groups /\ n.group \in Nat
  BY GroupsAssumption DEF Node
<1>4. n.stage \in Nat /\ n.total \in Nat /\ n.model \in Nat /\ n.cu \in Nat
  BY DEF Node
<1> QED BY <1>1, <1>2, <1>3, <1>4

\* A list is in the order of the ids.
Ascending(s) == \A i, j \in DOMAIN s : i < j => s[i].id < s[j].id

\* Filtering keeps the order of the ids.
LEMMA OnlyAscending ==
  ASSUME NEW s \in Seq(Node), Ascending(s), NEW S
  PROVE  Ascending(Only(s, S))
<1> DEFINE t == Only(s, S)
<1>1. \E h \in [DOMAIN t -> DOMAIN s] :
        /\ \A k \in DOMAIN t : t[k] = s[h[k]]
        /\ \A k, l \in DOMAIN t : k < l => h[k] < h[l]
  BY OnlyIndices
<1> HIDE DEF t
<1>2. PICK h \in [DOMAIN t -> DOMAIN s] :
        /\ \A k \in DOMAIN t : t[k] = s[h[k]]
        /\ \A k, l \in DOMAIN t : k < l => h[k] < h[l]
  BY <1>1
<1>3. ASSUME NEW k \in DOMAIN t, NEW l \in DOMAIN t, k < l PROVE t[k].id < t[l].id
  <2>1. h[k] \in DOMAIN s /\ h[l] \in DOMAIN s /\ h[k] < h[l]
    BY <1>2, <1>3
  <2> QED BY <1>2, <2>1 DEF Ascending
<1> QED BY <1>3 DEF Ascending, t

\* The members of a list in the order of the ids are told apart by them.
LEMMA AscendingIds ==
  ASSUME NEW s \in Seq(Node), Ascending(s), NEW i \in DOMAIN s, NEW j \in DOMAIN s
  PROVE  /\ s[i].id = s[j].id => i = j
         /\ s[i].id < s[j].id => i < j
<1>1. i \in Nat /\ j \in Nat /\ s[i].id \in Nat /\ s[j].id \in Nat
  <2>1. s[i] \in Node /\ s[j] \in Node
    OBVIOUS
  <2> QED BY <2>1, NodeFields
<1>2. (i < j => s[i].id < s[j].id) /\ (j < i => s[j].id < s[i].id)
  BY DEF Ascending
<1> QED BY <1>1, <1>2

-----------------------------------------------------------------------------
(* The network: its nodes keep their ids, whatever they register as, and the *)
(* list keeps their order.                                                 *)

NetworkInv ==
  /\ node \in Shapes /\ node \in [1 .. Nodes -> Node] /\ \A i \in 1 .. Nodes : node[i].id = i
  /\ online \in Seq(Range(node)) /\ Ascending(online)

LEMMA ShapeIsSequence ==
  ASSUME NEW f \in Shapes
  PROVE  /\ f \in [1 .. Nodes -> Node] /\ \A i \in 1 .. Nodes : f[i].id = i
         /\ f \in Seq(Range(f)) /\ f \in Seq(Node) /\ Range(f) \subseteq Node
         /\ Ascending(f) /\ Len(f) = Nodes
<1>1. Nodes \in Nat /\ f \in [1 .. Nodes -> Node] /\ \A i \in 1 .. Nodes : f[i].id = i
  BY NodesAssumption
<1>2. f \in Seq(Node) /\ Len(f) = Nodes
  BY <1>1
<1>3. Range(f) \subseteq Node /\ f \in [1 .. Nodes -> Range(f)]
  BY <1>1 DEF Range
<1>4. f \in Seq(Range(f))
  BY <1>1, <1>3
<1>5. Ascending(f)
  BY <1>1 DEF Ascending
<1> QED BY <1>1, <1>2, <1>3, <1>4, <1>5

LEMMA NetworkTypes ==
  ASSUME NetworkInv
  PROVE  /\ online \in Seq(Node) /\ Range(online) \subseteq Range(node) /\ Range(node) \subseteq Node
         /\ \A i \in DOMAIN online : online[i] \in Range(online) /\ online[i] \in Node
         /\ \A n, m \in Range(node) : n.id = m.id => n = m
         /\ \A n \in Range(node) : n.id \in 1 .. Nodes
<1>1. Range(node) \subseteq Node
  BY ShapeIsSequence DEF NetworkInv
<1>2. online \in Seq(Range(node))
  BY DEF NetworkInv
<1>3. /\ online \in Seq(Node) /\ Range(online) \subseteq Range(node)
      /\ \A i \in DOMAIN online : online[i] \in Range(online) /\ online[i] \in Node
  BY <1>1, <1>2 DEF Range
<1>4. \A n, m \in Range(node) : n.id = m.id => n = m
  <2> TAKE n, m \in Range(node)
  <2>1. PICK i \in 1 .. Nodes : n = node[i]
    BY DEF NetworkInv, Range
  <2>2. PICK j \in 1 .. Nodes : m = node[j]
    BY DEF NetworkInv, Range
  <2> QED BY <2>1, <2>2 DEF NetworkInv
<1>5. \A n \in Node : n.id \in 1 .. Nodes
  BY NodeFields
<1> QED BY <1>1, <1>3, <1>4, <1>5

LEMMA NetworkInit == Init => NetworkInv
<1> SUFFICES ASSUME Init PROVE NetworkInv
  OBVIOUS
<1>1. node \in Shapes /\ node \in [1 .. Nodes -> Node] /\ \A i \in 1 .. Nodes : node[i].id = i
  BY NodesAssumption DEF Init
<1>2. online = <<>>
  BY DEF Init
<1>3. online \in Seq(Range(node)) /\ Ascending(online)
  BY <1>2 DEF Ascending
<1> QED BY <1>1, <1>3 DEF NetworkInv

LEMMA NetworkStep == NetworkInv /\ [Next]_vars => NetworkInv'
<1> SUFFICES ASSUME NetworkInv, [Next]_vars PROVE NetworkInv'
  OBVIOUS
<1>1. CASE UNCHANGED vars
  BY <1>1 DEF NetworkInv, vars, Ascending, Range
<1>2. CASE Next
  <2> PICK i \in 1 .. Nodes : Joins(i) \/ Leaves(i) \/ Registers(i)
    BY <1>2 DEF Next
  <2>1. node' \in Shapes
    <3>1. CASE Joins(i) \/ Leaves(i)
      BY <3>1 DEF Joins, Leaves, NetworkInv
    <3>2. CASE Registers(i)
      <4>1. node' \in Changes[node][i] /\ node \in Shapes
        BY <3>2 DEF Registers, NetworkInv
      <4> QED BY <4>1 DEF Changes
    <3> QED BY <3>1, <3>2
  <2>2. \E S : online' = Only(node', S)
    <3>1. \E I : online' = Sorted(node', I)
      BY Zenon DEF Joins, Leaves, Registers
    <3> QED BY <3>1, Zenon DEF Sorted
  <2> DEFINE new == node'
  <2>3. /\ new \in [1 .. Nodes -> Node] /\ \A k \in 1 .. Nodes : new[k].id = k
        /\ new \in Seq(Range(new)) /\ new \in Seq(Node) /\ Ascending(new)
    <3>1. new \in Shapes
      BY <2>1
    <3> HIDE DEF new
    <3> QED BY <3>1, ShapeIsSequence
  <2>4. PICK S : online' = Only(new, S)
    BY <2>2
  <2>5. Only(new, S) \in Seq(Range(new)) /\ Ascending(Only(new, S))
    <3> HIDE DEF new
    <3> QED BY <2>3, OnlyRange, OnlyAscending
  <2> QED BY <2>1, <2>3, <2>4, <2>5 DEF NetworkInv, Ascending, Range
<1> QED BY <1>1, <1>2

LEMMA NetworkInvTypes == NetworkInv => TypeOK
BY DEF NetworkInv, TypeOK, Ascending

\* Every row is one that was registered and the list of the online ones is in the order of
\* their ids (online_nodes), however they come, go and register again.
THEOREM NetworkTypeCorrect == Spec => []TypeOK
<1>1. Init => NetworkInv
  BY NetworkInit
<1>2. NetworkInv /\ [Next]_vars => NetworkInv'
  BY NetworkStep
<1>3. NetworkInv => TypeOK
  BY NetworkInvTypes
<1> QED BY <1>1, <1>2, <1>3, PTL DEF Spec
-----------------------------------------------------------------------------
(* The chain.                                                              *)

\* The first of a set of indices.
LEMMA FirstIsLeast ==
  ASSUME NEW S \in SUBSET Nat, S # {}
  PROVE  First(S) \in S /\ \A j \in S : First(S) <= j
BY LeastNumber DEF First

\* The members of a group: those of the list that are in it, in its order.
LEMMA MembersOf ==
  ASSUME NEW list \in Seq(Node), Ascending(list), NEW g \in Groups
  PROVE  /\ Members(list, g) \in Seq(Node) /\ Ascending(Members(list, g))
         /\ Range(Members(list, g)) = {n \in Range(list) : InGroup(n, g)}
<1> DEFINE S == {n \in {list[i] : i \in DOMAIN list} : InGroup(n, g)}
<1>1. Members(list, g) = Only(list, S)
  BY DEF Members
<1>2. S = {n \in Range(list) : InGroup(n, g)}
  BY DEF Range
<1> HIDE DEF S
<1>3. Only(list, S) \in Seq(Node) /\ Range(Only(list, S)) = Range(list) \cap S
  BY OnlyRange
<1>4. Ascending(Only(list, S))
  BY OnlyAscending
<1> QED BY <1>1, <1>2, <1>3, <1>4

\* What makes a chain of the group g of a list: the first member announces its length and
\* model, and each stage is held by the first member that fits.
ChainOf(list, g, chain) ==
  LET ms == Members(list, g) IN
  /\ ms # <<>> /\ Len(chain) = ms[1].total
  /\ \A k \in DOMAIN chain :
       /\ chain[k] \in Range(ms) /\ chain[k].stage = k - 1 /\ chain[k].model = ms[1].model
       /\ \A n \in Range(ms) : n.stage = k - 1 /\ n.model = ms[1].model => chain[k].id <= n.id

LEMMA TryGroupChain ==
  ASSUME NEW list \in Seq(Node), Ascending(list), NEW g \in Groups, TryGroup(list, g) # <<>>
  PROVE  TryGroup(list, g) \in Seq(Node) /\ ChainOf(list, g, TryGroup(list, g))
<1> DEFINE ms == Members(list, g)
           holders(s) == Holders(ms, s, ms[1].model)
           chain == TryGroup(list, g)
<1>1. /\ ms # <<>> /\ \A s \in 0 .. ms[1].total - 1 : holders(s) # {}
      /\ chain = [i \in 1 .. ms[1].total |-> ms[First(holders(i - 1))]]
  BY DEF TryGroup
<1>2. ms \in Seq(Node) /\ Ascending(ms) /\ Range(ms) = {n \in Range(list) : InGroup(n, g)}
  BY MembersOf
<1> HIDE DEF ms, chain
<1>3. 1 \in DOMAIN ms /\ ms[1] \in Node /\ ms[1].total \in Nat
  <2>1. 1 \in DOMAIN ms /\ ms[1] \in Node
    BY <1>1, <1>2
  <2> QED BY <2>1 DEF Node
<1>4. ASSUME NEW k \in 1 .. ms[1].total
      PROVE  /\ First(holders(k - 1)) \in DOMAIN ms
             /\ ms[First(holders(k - 1))].stage = k - 1 /\ ms[First(holders(k - 1))].model = ms[1].model
             /\ \A j \in DOMAIN ms : ms[j].stage = k - 1 /\ ms[j].model = ms[1].model
                                     => First(holders(k - 1)) <= j
  <2>1. k - 1 \in 0 .. ms[1].total - 1
    BY <1>3
  <2>2. holders(k - 1) # {} /\ holders(k - 1) \in SUBSET Nat
    BY <1>1, <1>2, <2>1 DEF Holders
  <2>3. First(holders(k - 1)) \in holders(k - 1) /\ \A j \in holders(k - 1) : First(holders(k - 1)) <= j
    <3> HIDE DEF holders
    <3> QED BY <2>2, FirstIsLeast
  <2> QED BY <2>3 DEF Holders
<1> HIDE DEF holders
<1>5. chain \in Seq(Node) /\ Len(chain) = ms[1].total /\ DOMAIN chain = 1 .. ms[1].total
  <2>1. \A k \in 1 .. ms[1].total : chain[k] = ms[First(holders(k - 1))]
    BY <1>1
  <2>2. \A k \in 1 .. ms[1].total : chain[k] \in Node
    BY <1>2, <1>4, <2>1
  <2>3. chain \in [1 .. ms[1].total -> Node]
    BY <1>1, <2>1, <2>2
  <2> DEFINE m == ms[1].total
  <2>4. m \in Nat /\ chain \in [1 .. m -> Node]
    BY <1>3, <2>3
  <2> HIDE DEF m
  <2>5. chain \in Seq(Node) /\ Len(chain) = m /\ DOMAIN chain = 1 .. m
    BY <2>4
  <2> QED BY <2>5 DEF m
<1>6. ASSUME NEW k \in DOMAIN chain
      PROVE  /\ chain[k] \in Range(ms) /\ chain[k].stage = k - 1 /\ chain[k].model = ms[1].model
             /\ \A n \in Range(ms) : n.stage = k - 1 /\ n.model = ms[1].model => chain[k].id <= n.id
  <2> DEFINE f == First(holders(k - 1))
  <2>1. chain[k] = ms[f] /\ f \in DOMAIN ms
    BY <1>1, <1>4, <1>5
  <2>2. chain[k] \in Range(ms) /\ chain[k].stage = k - 1 /\ chain[k].model = ms[1].model
    BY <1>4, <1>5, <2>1 DEF Range
  <2>3. \A j \in DOMAIN ms : ms[j].stage = k - 1 /\ ms[j].model = ms[1].model => f <= j
    BY <1>4, <1>5
  <2> HIDE DEF f
  <2>4. ASSUME NEW j \in DOMAIN ms, f <= j PROVE ms[f].id <= ms[j].id
    <3>1. f = j \/ f < j
      BY <1>2, <2>1, <2>4
    <3>2. ms[f].id \in Nat /\ ms[j].id \in Nat
      <4>1. ms[f] \in Node /\ ms[j] \in Node
        BY <1>2, <2>1
      <4> QED BY <4>1, NodeFields
    <3> QED BY <1>2, <2>1, <3>1, <3>2 DEF Ascending
  <2>5. ASSUME NEW n \in Range(ms), n.stage = k - 1, n.model = ms[1].model PROVE chain[k].id <= n.id
    <3> PICK j \in DOMAIN ms : ms[j] = n
      BY DEF Range
    <3> QED BY <2>1, <2>3, <2>4, <2>5
  <2> QED BY <2>2, <2>5
<1> QED BY <1>1, <1>5, <1>6 DEF ChainOf, ms, chain

\* resolve_pipeline returns the chain of one group, and none only if no group has one.
LEMMA ResolveGroup ==
  ASSUME NEW list, NEW g \in Groups
  PROVE  /\ \E h \in Groups : Resolve(list, g) = TryGroup(list, h) \/ Resolve(list, g) = <<>>
         /\ TryGroup(list, g) # <<>> => Resolve(list, g) = TryGroup(list, g)
         /\ Resolve(list, g) = <<>> => \A h \in Groups : TryGroup(list, h) = <<>>
<1> DEFINE complete == {h \in Groups : TryGroup(list, h) # <<>>}
           chain == [h \in Groups |-> TryGroup(list, h)]
<1>1. Resolve(list, g) = IF g \in complete THEN TryGroup(list, g)
                         ELSE IF complete # {} THEN chain[First(complete)] ELSE <<>>
  <2> DEFINE found == {h \in Groups : chain[h] # <<>>}
  <2>1. Resolve(list, g) = IF g \in found THEN chain[g]
                           ELSE IF found # {} THEN chain[First(found)] ELSE <<>>
    BY Zenon DEF Resolve
  <2>2. found = complete /\ chain[g] = TryGroup(list, g)
    OBVIOUS
  <2> HIDE DEF found, complete, chain
  <2> QED BY <2>1, <2>2
<1>2. complete \in SUBSET Nat
  BY GroupsAssumption
<1>3. complete # {} => First(complete) \in complete
  <2> HIDE DEF complete
  <2> QED BY <1>2, FirstIsLeast
<1>4. complete # {} => chain[First(complete)] = TryGroup(list, First(complete))
  BY <1>3
<1> HIDE DEF chain
<1> QED BY <1>1, <1>3, <1>4

\* What a resolved chain is.
LEMMA ResolvedChain ==
  ASSUME NEW list \in Seq(Node), Ascending(list), NEW g \in Groups, Resolve(list, g) # <<>>
  PROVE  /\ Resolve(list, g) \in Seq(Node) /\ Len(Resolve(list, g)) >= 2
         /\ \E h \in Groups : ChainOf(list, h, Resolve(list, g)) /\ Resolve(list, g) = TryGroup(list, h)
<1>1. PICK h \in Groups : Resolve(list, g) = TryGroup(list, h)
  BY ResolveGroup
<1>2. Resolve(list, g) \in Seq(Node) /\ ChainOf(list, h, Resolve(list, g))
  BY <1>1, TryGroupChain
<1> DEFINE ms == Members(list, h)
<1>3. Len(Resolve(list, g)) = ms[1].total /\ ms # <<>>
  BY <1>2 DEF ChainOf
<1>4. ms \in Seq(Node) /\ Range(ms) = {n \in Range(list) : InGroup(n, h)}
  BY MembersOf
<1> HIDE DEF ms
<1>5. ms[1] \in Range(ms) /\ ms[1] \in Node
  BY <1>3, <1>4 DEF Range
<1>6. ms[1].total >= 2
  BY <1>4, <1>5 DEF InGroup
<1> QED BY <1>1, <1>2, <1>3, <1>6

\* The nodes of a chain of the online list.
LEMMA ChainNodes ==
  ASSUME NEW list \in Seq(Node), Ascending(list), NEW g \in Groups,
         NEW chain \in Seq(Node), ChainOf(list, g, chain)
  PROVE  \A k \in DOMAIN chain :
           /\ k \in Nat \ {0} /\ chain[k] \in Range(list) /\ InGroup(chain[k], g)
           /\ chain[k].stage = k - 1 /\ chain[k].group = chain[1].group
           /\ chain[k].model = chain[1].model
<1> TAKE k \in DOMAIN chain
<1>1. k \in Nat \ {0} /\ 1 \in DOMAIN chain
  OBVIOUS
<1>2. Range(Members(list, g)) = {n \in Range(list) : InGroup(n, g)}
  BY MembersOf
<1>3. /\ chain[k] \in Range(list) /\ InGroup(chain[k], g)
      /\ chain[1] \in Range(list) /\ InGroup(chain[1], g)
  BY <1>1, <1>2 DEF ChainOf
<1>4. chain[k].stage = k - 1 /\ chain[k].model = chain[1].model
  BY <1>1 DEF ChainOf
<1> QED BY <1>1, <1>3, <1>4 DEF InGroup

\* A resolved chain can be walked (resolve_pipeline), whatever nodes are online.
THEOREM ChainsInOrder == Spec => []ChainInOrder
<1>1. Init => NetworkInv
  BY NetworkInit
<1>2. NetworkInv /\ [Next]_vars => NetworkInv'
  BY NetworkStep
<1>3. NetworkInv => ChainInOrder
  <2> SUFFICES ASSUME NetworkInv PROVE ChainInOrder
    OBVIOUS
  <2>1. online \in Seq(Node) /\ Ascending(online) /\ Preferred \in Groups
    BY NetworkTypes, GroupsAssumption DEF NetworkInv
  <2> DEFINE chain == Chain
  <2>2. CASE chain = <<>>
    BY <2>2 DEF ChainInOrder
  <2>3. CASE chain # <<>>
    <3>1. chain \in Seq(Node) /\ \E h \in Groups : ChainOf(online, h, chain)
      BY <2>1, <2>3, ResolvedChain DEF Chain
    <3> HIDE DEF chain
    <3>2. PICK h \in Groups : ChainOf(online, h, chain)
      BY <3>1
    <3>3. \A k \in DOMAIN chain : chain[k] \in Range(online) /\ chain[k].group = h
      BY <2>1, <3>1, <3>2, ChainNodes DEF InGroup
    <3>4. GroupOf(chain) = h
      <4>1. 1 \in DOMAIN chain
        BY <2>3, <3>1
      <4> QED BY <2>3, <3>3, <4>1 DEF GroupOf
    <3> DEFINE ms == Members(online, h)
    <3>5. /\ ms # <<>> /\ Len(chain) = ms[1].total
          /\ \A k \in DOMAIN chain : chain[k].stage = k - 1 /\ chain[k].model = ms[1].model
      BY <3>2 DEF ChainOf
    <3>6. ms \in Seq(Node) /\ Range(ms) = {n \in Range(online) : InGroup(n, h)}
      BY <2>1, MembersOf
    <3> HIDE DEF ms
    <3>7. Head(ms) = ms[1] /\ ms[1] \in Range(ms)
      BY <3>5, <3>6 DEF Range
    <3>8. Head(ms).group = h
      BY <3>6, <3>7 DEF InGroup
    <3>9. Members(online, GroupOf(chain)) = ms
      BY <3>4 DEF ms
    <3> QED BY <3>3, <3>5, <3>7, <3>8, <3>9 DEF ChainInOrder, chain
  <2> QED BY <2>2, <2>3
<1> QED BY <1>1, <1>2, <1>3, PTL DEF Spec

\* A list without repetition has as many elements as places.
LEMMA DistinctCount ==
  ASSUME NEW T, NEW s \in Seq(T), \A i, j \in DOMAIN s : s[i] = s[j] => i = j
  PROVE  IsFiniteSet(Range(s)) /\ Cardinality(Range(s)) = Len(s)
<1>1. s \in Bijection(1 .. Len(s), Range(s)) /\ Len(s) \in Nat
  BY DEF Bijection, Injection, Surjection, IsInjective, Range
<1>2. ExistsBijection(1 .. Len(s), Range(s))
  BY <1>1 DEF ExistsBijection
<1> QED BY <1>1, <1>2, FS_CountingElements, FS_NatBijection

\* The nodes of a resolved chain are a complete set.
LEMMA ChainIsComplete ==
  ASSUME NetworkInv, Agreeing, Chain # <<>>
  PROVE  CompleteSets # {}
<1>1. online \in Seq(Node) /\ Ascending(online) /\ Preferred \in Groups
  BY NetworkTypes, GroupsAssumption DEF NetworkInv
<1> DEFINE chain == Chain
           S == Range(chain)
<1>2. chain \in Seq(Node) /\ Len(chain) >= 2 /\ \E h \in Groups : ChainOf(online, h, chain)
  BY <1>1, ResolvedChain DEF Chain
<1>3. PICK h \in Groups : ChainOf(online, h, chain)
  BY <1>2
<1> HIDE DEF chain
<1>4. \A k \in DOMAIN chain :
        /\ k \in Nat \ {0} /\ chain[k] \in Range(online) /\ InGroup(chain[k], h)
        /\ chain[k].stage = k - 1 /\ chain[k].group = chain[1].group
        /\ chain[k].model = chain[1].model
  BY <1>1, <1>2, <1>3, ChainNodes
<1>5. 1 \in DOMAIN chain /\ DOMAIN chain = 1 .. Len(chain) /\ Len(chain) \in Nat
  BY <1>2
<1>6. chain[1].group # 0 /\ chain[1].total >= 2 /\ chain[1] \in S
  BY <1>4, <1>5 DEF InGroup, Range
<1>7. Len(chain) = chain[1].total
  <2> DEFINE ms == Members(online, h)
  <2>1. ms # <<>> /\ Len(chain) = ms[1].total
    BY <1>3 DEF ChainOf
  <2>2. ms \in Seq(Node) /\ Range(ms) = {n \in Range(online) : InGroup(n, h)}
    BY <1>1, MembersOf
  <2> HIDE DEF ms
  <2>3. ms[1] \in Range(ms)
    BY <2>1, <2>2 DEF Range
  <2>4. ms[1].total = chain[1].total
    BY <2>2, <2>3, <1>4, <1>5 DEF Agreeing, InGroup
  <2> QED BY <2>1, <2>4
<1>8. Cardinality(S) = Len(chain)
  <2>1. \A i, j \in DOMAIN chain : chain[i] = chain[j] => i = j
    <3> SUFFICES ASSUME NEW i \in DOMAIN chain, NEW j \in DOMAIN chain, chain[i] = chain[j] PROVE i = j
      OBVIOUS
    <3>1. i - 1 = j - 1 /\ i \in Nat /\ j \in Nat
      BY <1>4
    <3> QED BY <3>1
  <2> QED BY <1>2, <2>1, DistinctCount
<1>9. \A m \in S : /\ m.group = chain[1].group /\ m.total = chain[1].total /\ m.model = chain[1].model
                   /\ m \in Range(online) /\ m.stage \in 0 .. chain[1].total - 1
  <2> SUFFICES ASSUME NEW k \in DOMAIN chain
               PROVE  /\ chain[k].group = chain[1].group /\ chain[k].total = chain[1].total
                      /\ chain[k].model = chain[1].model /\ chain[k] \in Range(online)
                      /\ chain[k].stage \in 0 .. chain[1].total - 1
    BY DEF Range
  <2>1. chain[k].total = chain[1].total
    BY <1>4, <1>5, <1>6 DEF Agreeing
  <2>2. chain[k].stage \in 0 .. chain[1].total - 1
    BY <1>4, <1>5, <1>7
  <2> QED BY <1>4, <2>1, <2>2
<1>10. \A s \in 0 .. chain[1].total - 1 : \E m \in S : m.stage = s
  <2> TAKE s \in 0 .. chain[1].total - 1
  <2>1. s + 1 \in DOMAIN chain /\ (s + 1) - 1 = s
    BY <1>5, <1>7
  <2>2. chain[s + 1].stage = s /\ chain[s + 1] \in S
    BY <1>4, <2>1 DEF Range
  <2> QED BY <2>2
<1>11. {m.stage : m \in S} = 0 .. chain[1].total - 1
  <2> HIDE DEF S
  <2> QED BY <1>9, <1>10
<1>12. S \in SUBSET Range(online)
  BY <1>9
<1> HIDE DEF S
<1>13. S \in CompleteSets
  BY <1>6, <1>7, <1>8, <1>9, <1>11, <1>12 DEF CompleteSets
<1> QED BY <1>13

\* A complete set is found.
LEMMA CompleteIsFound ==
  ASSUME NetworkInv, Agreeing, CompleteSets # {}
  PROVE  Chain # <<>>
<1>1. /\ online \in Seq(Node) /\ Ascending(online) /\ Preferred \in Groups
      /\ Range(online) \subseteq Node
  BY NetworkTypes, GroupsAssumption DEF NetworkInv
<1>2. PICK S \in CompleteSets : TRUE
  OBVIOUS
<1>3. S \subseteq Range(online)
  BY <1>2 DEF CompleteSets
<1>4. PICK n \in S :
        /\ n.group # 0 /\ n.total >= 2
        /\ \A m \in S : m.group = n.group /\ m.total = n.total /\ m.model = n.model
        /\ {m.stage : m \in S} = 0 .. n.total - 1
  BY <1>2 DEF CompleteSets
<1> DEFINE g == n.group
           ms == Members(online, g)
<1>5. n \in Range(online) /\ g \in Groups /\ n.total \in Nat
  BY <1>1, <1>3, NodeFields
<1>6. ms \in Seq(Node) /\ Range(ms) = {m \in Range(online) : InGroup(m, g)}
  BY <1>1, <1>5, MembersOf
<1>7. S \subseteq Range(ms)
  BY <1>3, <1>4, <1>6 DEF InGroup
<1> HIDE DEF ms
<1>8. ms # <<>> /\ ms[1] \in Range(ms)
  <2>1. \E i \in DOMAIN ms : ms[i] = n
    BY <1>7 DEF Range
  <2> QED BY <1>6, <2>1 DEF Range
<1>9. ms[1].total = n.total /\ ms[1].model = n.model
  BY <1>4, <1>5, <1>6, <1>8 DEF Agreeing, InGroup
<1>10. ASSUME NEW s \in 0 .. ms[1].total - 1 PROVE Holders(ms, s, ms[1].model) # {}
  <2>1. PICK m \in S : m.stage = s
    BY <1>4, <1>9
  <2>2. PICK i \in DOMAIN ms : ms[i] = m
    BY <1>7 DEF Range
  <2>3. i \in Holders(ms, s, ms[1].model)
    BY <1>4, <1>9, <2>1, <2>2 DEF Holders
  <2> QED BY <2>3
<1>11. TryGroup(online, g) # <<>>
  <2> DEFINE chain == [i \in 1 .. ms[1].total |-> ms[First(Holders(ms, i - 1, ms[1].model))]]
  <2>1. TryGroup(online, g) = chain
    BY <1>8, <1>10 DEF TryGroup, ms
  <2>2. 1 \in DOMAIN chain
    BY <1>4, <1>5, <1>9
  <2> HIDE DEF chain
  <2> QED BY <2>1, <2>2
<1> QED BY <1>1, <1>5, <1>11, ResolveGroup DEF Chain

\* When the members of a group agree, resolve_pipeline finds a chain exactly when a
\* complete one is online, whatever groups, stages and models the nodes have.
THEOREM UniformChainsFound == Spec => []UniformChainFound
<1>1. Init => NetworkInv
  BY NetworkInit
<1>2. NetworkInv /\ [Next]_vars => NetworkInv'
  BY NetworkStep
<1>3. NetworkInv => UniformChainFound
  BY ChainIsComplete, CompleteIsFound DEF UniformChainFound
<1> QED BY <1>1, <1>2, <1>3, PTL DEF Spec

\* What the chain of the preferred group is.
LEMMA PreferredChain ==
  ASSUME NEW list \in Seq(Node), Ascending(list), GroupOf(Resolve(list, Preferred)) = Preferred
  PROVE  /\ Resolve(list, Preferred) \in Seq(Node) /\ Len(Resolve(list, Preferred)) >= 2
         /\ ChainOf(list, Preferred, Resolve(list, Preferred))
         /\ \A k \in DOMAIN Resolve(list, Preferred) : InGroup(Resolve(list, Preferred)[k], Preferred)
<1> DEFINE chain == Resolve(list, Preferred)
<1>1. Preferred \in Groups /\ Preferred # 0
  BY GroupsAssumption
<1>2. chain # <<>>
  BY <1>1 DEF GroupOf
<1>3. chain \in Seq(Node) /\ Len(chain) >= 2 /\ \E h \in Groups : ChainOf(list, h, chain)
  BY <1>1, <1>2, ResolvedChain
<1>4. chain[1].group = Preferred
  BY <1>2 DEF GroupOf
<1> HIDE DEF chain
<1>5. PICK h \in Groups : ChainOf(list, h, chain)
  BY <1>3
<1>6. \A k \in DOMAIN chain : InGroup(chain[k], h)
  BY <1>3, <1>5, ChainNodes
<1>7. h = Preferred
  <2>1. 1 \in DOMAIN chain
    BY <1>3
  <2> QED BY <1>4, <1>6, <2>1 DEF InGroup
<1> QED BY <1>3, <1>5, <1>6, <1>7 DEF chain

\* The chain of the preferred group and a later list, whose first member of the group
\* announces the same length and model.
LEMMA ChainSurvives ==
  ASSUME NEW a \in Seq(Node), Ascending(a), NEW b \in Seq(Node), Ascending(b),
         NEW chain, chain = Resolve(a, Preferred), NEW new, new = Resolve(b, Preferred),
         GroupOf(chain) = Preferred,
         Members(b, Preferred) # <<>>,
         Head(Members(b, Preferred)).total = Head(Members(a, Preferred)).total,
         Head(Members(b, Preferred)).model = Head(Members(a, Preferred)).model
  PROVE  /\ Range(chain) \subseteq Range(b) => GroupOf(new) = Preferred
         /\ GroupOf(new) = Preferred =>
              /\ Len(new) = Len(chain)
              /\ \A k \in DOMAIN chain : chain[k] \in Range(b) =>
                   \/ new[k] = chain[k]
                   \/ new[k] \in Range(b) \ Range(a) /\ new[k].id < chain[k].id
<1> DEFINE ma == Members(a, Preferred)
           mb == Members(b, Preferred)
<1>1. Preferred \in Groups
  BY GroupsAssumption
<1>2. /\ chain \in Seq(Node) /\ Len(chain) >= 2 /\ ChainOf(a, Preferred, chain)
      /\ \A k \in DOMAIN chain : InGroup(chain[k], Preferred)
  BY PreferredChain
<1>3. /\ ma \in Seq(Node) /\ Range(ma) = {n \in Range(a) : InGroup(n, Preferred)}
      /\ mb \in Seq(Node) /\ Range(mb) = {n \in Range(b) : InGroup(n, Preferred)}
  BY <1>1, MembersOf
<1>4. /\ ma # <<>> /\ Len(chain) = ma[1].total
      /\ \A k \in DOMAIN chain :
           /\ chain[k].stage = k - 1 /\ chain[k].model = ma[1].model
           /\ \A n \in Range(ma) : n.stage = k - 1 /\ n.model = ma[1].model => chain[k].id <= n.id
  BY <1>2 DEF ChainOf
<1>5. mb # <<>> /\ Head(mb).total = Head(ma).total /\ Head(mb).model = Head(ma).model
  OBVIOUS
<1> HIDE DEF ma, mb
<1>6. mb[1].total = ma[1].total /\ mb[1].model = ma[1].model
  BY <1>3, <1>4, <1>5
<1>7. ASSUME Range(chain) \subseteq Range(b)
      PROVE  GroupOf(new) = Preferred
  <2>1. \A k \in DOMAIN chain : chain[k] \in Range(mb)
    BY <1>2, <1>3, <1>7 DEF Range
  <2>2. ASSUME NEW s \in 0 .. mb[1].total - 1 PROVE Holders(mb, s, mb[1].model) # {}
    <3>1. s + 1 \in DOMAIN chain /\ (s + 1) - 1 = s
      BY <1>2, <1>4, <1>6
    <3>2. PICK i \in DOMAIN mb : mb[i] = chain[s + 1]
      BY <2>1, <3>1 DEF Range
    <3>3. i \in Holders(mb, s, mb[1].model)
      BY <1>4, <1>6, <3>1, <3>2 DEF Holders
    <3> QED BY <3>3
  <2>3. TryGroup(b, Preferred) # <<>>
    <3> DEFINE c == [i \in 1 .. mb[1].total |-> mb[First(Holders(mb, i - 1, mb[1].model))]]
    <3>1. TryGroup(b, Preferred) = c
      BY <1>5, <2>2 DEF TryGroup, mb
    <3>2. 1 \in DOMAIN c
      BY <1>2, <1>4, <1>6
    <3> HIDE DEF c
    <3> QED BY <3>1, <3>2
  <2>4. new = TryGroup(b, Preferred)
    BY <1>1, <2>3, ResolveGroup
  <2>5. new \in Seq(Node) /\ ChainOf(b, Preferred, new) /\ new # <<>>
    BY <1>1, <2>3, <2>4, TryGroupChain
  <2>6. 1 \in DOMAIN new
    BY <2>5
  <2>7. InGroup(new[1], Preferred)
    BY <1>1, <2>5, <2>6, ChainNodes
  <2> QED BY <2>5, <2>7 DEF GroupOf, InGroup
<1>8. ASSUME GroupOf(new) = Preferred
      PROVE  /\ Len(new) = Len(chain)
             /\ \A k \in DOMAIN chain : chain[k] \in Range(b) =>
                  \/ new[k] = chain[k]
                  \/ new[k] \in Range(b) \ Range(a) /\ new[k].id < chain[k].id
  <2>1. new \in Seq(Node) /\ ChainOf(b, Preferred, new)
    BY <1>8, PreferredChain
  <2>2. /\ Len(new) = mb[1].total
        /\ \A k \in DOMAIN new :
             /\ new[k] \in Range(mb) /\ new[k].stage = k - 1 /\ new[k].model = mb[1].model
             /\ \A n \in Range(mb) : n.stage = k - 1 /\ n.model = mb[1].model => new[k].id <= n.id
    BY <2>1 DEF ChainOf, mb
  <2>3. Len(new) = Len(chain) /\ DOMAIN new = DOMAIN chain
    BY <1>2, <1>4, <1>6, <2>1, <2>2
  <2>4. ASSUME NEW k \in DOMAIN chain, chain[k] \in Range(b), new[k] # chain[k]
        PROVE  new[k] \in Range(b) \ Range(a) /\ new[k].id < chain[k].id
    <3>1. new[k] \in Node /\ chain[k] \in Node
      BY <1>2, <2>1, <2>3
    <3>2. new[k].id \in Nat /\ chain[k].id \in Nat
      BY <3>1, NodeFields
    <3>3. chain[k] \in Range(mb)
      BY <1>2, <1>3, <2>4
    <3>4. new[k].id <= chain[k].id
      BY <1>4, <1>6, <2>2, <2>3, <3>3
    <3>5. new[k] \in Range(b) /\ InGroup(new[k], Preferred)
      BY <1>3, <2>2, <2>3
    <3>6. new[k].id # chain[k].id
      <4>1. PICK i \in DOMAIN b : b[i] = new[k]
        BY <3>5 DEF Range
      <4>2. PICK j \in DOMAIN b : b[j] = chain[k]
        BY <2>4 DEF Range
      <4> QED BY <2>4, <4>1, <4>2, AscendingIds
    <3>7. new[k] \in Range(a) => chain[k].id <= new[k].id
      BY <1>3, <1>4, <1>6, <2>2, <2>3, <3>5
    <3> QED BY <3>2, <3>4, <3>5, <3>6, <3>7
  <2> QED BY <2>3, <2>4
<1> QED BY <1>7, <1>8

LEMMA NetworkInvariant == Spec => []NetworkInv
<1>1. Init => NetworkInv
  BY NetworkInit
<1>2. NetworkInv /\ [Next]_vars => NetworkInv'
  BY NetworkStep
<1> QED BY <1>1, <1>2, PTL DEF Spec

\* Chats are not rerouted without need (resolve_pipeline), however many nodes there are:
\* while the first member of the preferred group announces the same length and model, its
\* chain is left only with one of its nodes, and a stage whose node is still there passes
\* only to a newcomer that sorts before that node.
THEOREM ChainsKept == Spec => ChainKept
<1>1. ASSUME NetworkInv, NetworkInv', [Next]_vars
      PROVE  \A was \in {Chain}, is \in {Chain'} : KeepsChain(was, is)
  <2>1. online \in Seq(Node) /\ Ascending(online)
    BY <1>1, NetworkTypes DEF NetworkInv
  <2>2. online' \in Seq(Node)
    <3>1. node' \in [1 .. Nodes -> Node] /\ online' \in Seq(Range(node'))
      BY <1>1 DEF NetworkInv
    <3>2. Range(node') \subseteq Node
      BY <3>1 DEF Range
    <3> QED BY <3>1, <3>2
  <2>3. Ascending(online')
    BY <1>1 DEF NetworkInv, Ascending
  <2> DEFINE new == online'
  <2>4. Chain' = Resolve(new, Preferred) /\ Chain = Resolve(online, Preferred)
    BY DEF Chain
  <2>5. new \in Seq(Node) /\ Ascending(new)
    BY <2>2, <2>3
  <2> HIDE DEF new
  <2>6. SUFFICES ASSUME NEW was, was = Resolve(online, Preferred), NEW is, is = Resolve(new, Preferred),
                        GroupOf(was) = Preferred, Members(new, Preferred) # <<>>,
                        Head(Members(new, Preferred)).total = Head(Members(online, Preferred)).total,
                        Head(Members(new, Preferred)).model = Head(Members(online, Preferred)).model
                 PROVE  /\ Range(was) \subseteq Range(new) => GroupOf(is) = Preferred
                        /\ GroupOf(is) = Preferred =>
                             /\ Len(is) = Len(was)
                             /\ \A k \in DOMAIN was : was[k] \in Range(new) =>
                                  \/ is[k] = was[k]
                                  \/ is[k] \in Range(new) \ Range(online) /\ is[k].id < was[k].id
    BY <2>4 DEF KeepsChain, new
  <2> QED BY <2>1, <2>5, <2>6, ChainSurvives
<1> QED BY <1>1, NetworkInvariant, PTL DEF Spec, ChainKept
-----------------------------------------------------------------------------
(* The tier.                                                               *)

LEMMA TierList ==
  /\ Len(Tiers) \in Nat /\ DOMAIN Tiers = 1 .. Len(Tiers)
  /\ \A t \in DOMAIN Tiers : Tiers[t] \in [cu: Nat, chains: Nat, ram: Nat, planned: BOOLEAN, models: Nat]
<1> DEFINE T == [cu: Nat, chains: Nat, ram: Nat, planned: BOOLEAN, models: Nat]
<1>1. Tiers \in Seq(T)
  BY TiersAssumption
<1> HIDE DEF T
<1>2. Len(Tiers) \in Nat /\ DOMAIN Tiers = 1 .. Len(Tiers) /\ \A t \in DOMAIN Tiers : Tiers[t] \in T
  BY <1>1
<1> QED BY <1>2 DEF T

\* The highest tier reached, if any is.
LEMMA ActiveIsHighest ==
  ASSUME NEW cu, NEW chains, Reached(cu, chains) # {}
  PROVE  /\ ActiveTier(cu, chains) \in Reached(cu, chains)
         /\ \A u \in Reached(cu, chains) : u <= ActiveTier(cu, chains)
<1> DEFINE R == Reached(cu, chains)
<1>1. Len(Tiers) \in Nat /\ R \subseteq 0 .. Len(Tiers)
  BY TierList DEF Reached
<1> HIDE DEF R
<1>2. \E t \in R : \A u \in R : u <= t
  BY <1>1, GreatestNumber DEF R
<1> QED BY <1>2 DEF ActiveTier, R

\* Chains that share no node, as far as a requirement of at most one asks for them.
LEMMA FewChainsApart ==
  /\ ChainsApart(0)
  /\ CompleteSets # {} <=> ChainsApart(1)
<1>1. ChainsApart(0)
  BY FS_EmptySet DEF ChainsApart
<1>2. ASSUME NEW S \in CompleteSets PROVE ChainsApart(1)
  <2> DEFINE F == {S}
  <2>1. F \in SUBSET CompleteSets /\ Cardinality(F) = 1
    BY FS_Singleton
  <2>2. \A A, B \in F : A = B
    OBVIOUS
  <2> HIDE DEF F
  <2> QED BY <2>1, <2>2 DEF ChainsApart
<1>3. ASSUME ChainsApart(1) PROVE CompleteSets # {}
  <2> PICK F \in SUBSET CompleteSets : Cardinality(F) = 1
    BY <1>3 DEF ChainsApart
  <2>1. F # {}
    BY FS_EmptySet
  <2> QED BY <2>1
<1> QED BY <1>1, <1>2, <1>3

\* Where the members of each group agree, the number of chains that select_active_tier is
\* given says whether one is complete.
LEMMA CountSaysComplete ==
  ASSUME NetworkInv, Agreeing
  PROVE  ChainCount(online) = IF CompleteSets # {} THEN 1 ELSE 0
<1>1. Chain # <<>> <=> CompleteSets # {}
  BY ChainIsComplete, CompleteIsFound
<1>2. Preferred \in Groups /\ 0 \in Groups
  BY GroupsAssumption
<1>3. Resolve(online, 0) # <<>> <=> Chain # <<>>
  BY <1>2, ResolveGroup DEF Chain
<1> QED BY <1>1, <1>3 DEF ChainCount

\* The nodes are told no tier the network does not meet, nor one below a tier that it meets
\* with at most one chain (select_active_tier), for every manifest and any nodes whose groups
\* agree.
THEOREM TiersEarned == Spec => []TierEarned
<1>1. ASSUME NetworkInv, Agreeing
      PROVE  /\ Tier # DefaultTier => Met(Tier)
             /\ \A t \in DOMAIN Tiers : Met(t) /\ Tiers[t].chains <= 1 => Tier >= t
  <2> DEFINE n == ChainCount(online)
             R == Reached(Compute, n)
  <2>1. n = IF CompleteSets # {} THEN 1 ELSE 0
    BY <1>1, CountSaysComplete
  <2>2. \A t \in DOMAIN Tiers : t \in Nat /\ Tiers[t].chains \in Nat
    BY TierList
  <2>3. \A t \in DOMAIN Tiers :
          t \in R <=> /\ ~(Tiers[t].planned /\ Tiers[t].models = 0)
                     /\ Compute >= MinCompute(t) /\ n >= Tiers[t].chains
    BY DEF Reached
  <2>4. Tier # DefaultTier => Tier \in R
    BY ActiveIsHighest DEF Tier, ActiveTier
  <2>5. ASSUME NEW t \in R PROVE t \in DOMAIN Tiers
    BY <2>5 DEF Reached
  <2>6. R # {} => Tier \in R /\ \A u \in R : u <= Tier
    BY ActiveIsHighest DEF Tier
  <2> HIDE DEF n, R
  <2>7. ASSUME NEW t \in R PROVE Met(t)
    <3>1. t \in DOMAIN Tiers
      BY <2>5, <2>7
    <3>2. Tiers[t].chains = 0 \/ (Tiers[t].chains = 1 /\ CompleteSets # {})
      BY <2>1, <2>2, <2>3, <2>7, <3>1
    <3>3. ChainsApart(Tiers[t].chains)
      BY <3>2, FewChainsApart
    <3> QED BY <2>3, <2>7, <3>1, <3>3 DEF Met
  <2>8. ASSUME NEW t \in DOMAIN Tiers, Met(t), Tiers[t].chains <= 1 PROVE Tier >= t
    <3>1. Tiers[t].chains = 0 \/ Tiers[t].chains = 1
      BY <2>2, <2>8
    <3>2. n >= Tiers[t].chains
      <4>1. Tiers[t].chains = 1 => CompleteSets # {}
        BY <2>8, FewChainsApart DEF Met
      <4> QED BY <2>1, <3>1, <4>1
    <3>3. t \in R
      BY <2>3, <2>8, <3>2 DEF Met
    <3>4. t <= Tier /\ Tier \in Nat
      BY <2>2, <2>5, <2>6, <3>3
    <3> QED BY <2>2, <3>4
  <2> QED BY <2>4, <2>7, <2>8
<1>2. NetworkInv => TierEarned
  BY <1>1 DEF TierEarned
<1> QED BY <1>2, NetworkInvariant, PTL
-----------------------------------------------------------------------------
(* Turns.                                                                  *)

LEMMA Modulo ==
  ASSUME NEW n \in Nat \ {0}, NEW a \in Nat
  PROVE  /\ a % n \in 0 .. n - 1
         /\ a < n => a % n = a
         /\ n <= a /\ a < 2 * n => a % n = a - n
<1>1. a % n \in 0 .. n - 1
  OBVIOUS
<1>2. ASSUME a < n PROVE a % n = a
  BY <1>2
<1>3. ASSUME n <= a, a < 2 * n PROVE a % n = a - n
  BY <1>3
<1> QED BY <1>1, <1>2, <1>3

LEMMA PlaceInTurn ==
  ASSUME NEW n \in Nat \ {0}, NEW s \in Nat, s < n, NEW j \in 0 .. n - 1
  PROVE  (s + j) % n = IF s + j < n THEN s + j ELSE s + j - n
<1>1. s + j \in Nat /\ s + j < 2 * n
  OBVIOUS
<1>2. CASE s + j < n
  BY <1>1, <1>2, Modulo
<1>3. CASE ~(s + j < n)
  <2>1. n <= s + j
    BY <1>1, <1>3
  <2>2. \A a \in Nat : n <= a /\ a < 2 * n => a % n = a - n
    BY Modulo
  <2>3. (s + j) % n = (s + j) - n
    BY <1>1, <2>1, <2>2
  <2> QED BY <1>3, <2>3
<1> QED BY <1>2, <1>3

\* The node that a handler tries as its j-th, from 0.
Nth(h, j) == h.nodes[((h.start + j) % Len(h.nodes)) + 1]

\* From any start each node of a list without repetition has its turn, once.
LEMMA Turns ==
  ASSUME NEW T, NEW h, h.nodes \in Seq(T), h.start \in Nat, h.start < Len(h.nodes),
         \A i, j \in DOMAIN h.nodes : h.nodes[i] = h.nodes[j] => i = j
  PROVE  /\ \A j \in 0 .. Len(h.nodes) - 1 : Nth(h, j) \in Range(h.nodes)
         /\ \A i, j \in 0 .. Len(h.nodes) - 1 : Nth(h, i) = Nth(h, j) => i = j
         /\ {Nth(h, j) : j \in 0 .. Len(h.nodes) - 1} = Range(h.nodes)
<1> DEFINE n == Len(h.nodes)
           s == h.start
           place(j) == (IF s + j < n THEN s + j ELSE s + j - n) + 1
<1>1. n \in Nat \ {0} /\ s \in Nat /\ s < n /\ DOMAIN h.nodes = 1 .. n
  OBVIOUS
<1>2. ASSUME NEW j \in 0 .. n - 1 PROVE Nth(h, j) = h.nodes[place(j)] /\ place(j) \in 1 .. n
  <2> HIDE DEF n, s
  <2>1. s + j \in Nat /\ s + j < 2 * n
    BY <1>1
  <2>2. (s + j) % n = IF s + j < n THEN s + j ELSE s + j - n
    BY <1>1, PlaceInTurn
  <2>3. place(j) \in 1 .. n
    BY <1>1
  <2> QED BY <2>2, <2>3 DEF Nth, n, s
<1>3. \A j \in 0 .. n - 1 : Nth(h, j) \in Range(h.nodes)
  BY <1>1, <1>2 DEF Range
<1>4. ASSUME NEW i \in 0 .. n - 1, NEW j \in 0 .. n - 1, Nth(h, i) = Nth(h, j) PROVE i = j
  <2>1. place(i) = place(j)
    <3> HIDE DEF place
    <3> QED BY <1>1, <1>2, <1>4
  <2> HIDE DEF n, s
  <2> QED BY <1>1, <2>1
<1>5. ASSUME NEW x \in Range(h.nodes) PROVE \E j \in 0 .. n - 1 : Nth(h, j) = x
  <2>1. PICK k \in 1 .. n : h.nodes[k] = x
    BY <1>1 DEF Range
  <2> DEFINE j == IF s < k THEN k - 1 - s ELSE n + k - 1 - s
  <2>2. j \in 0 .. n - 1 /\ place(j) = k
    <3> HIDE DEF n, s
    <3> QED BY <1>1
  <2> HIDE DEF j, place
  <2> QED BY <1>2, <2>1, <2>2
<1>6. {Nth(h, j) : j \in 0 .. n - 1} = Range(h.nodes)
  <2> HIDE DEF n
  <2> QED BY <1>3, <1>5
<1> QED BY <1>3, <1>4, <1>6
-----------------------------------------------------------------------------
(* The calls for a chain.                                                  *)

\* The function over the prefixes that FlattenSeq is defined by exists.
LEMMA FlattenUnfold ==
  ASSUME NEW ss, Len(ss) \in Nat \ {0}
  PROVE  \E f : /\ \A i \in 1 .. Len(ss) : f[i] = IF i = 1 THEN ss[i] ELSE f[i - 1] \o ss[i]
                /\ FlattenSeq(ss) = f[Len(ss)]
<1> DEFINE Step_(f, i) == IF i = 1 THEN ss[i] ELSE f[i - 1] \o ss[i]
           Good == {n \in Nat : \E f : f = [i \in 1 .. n |-> Step_(f, i)]}
<1>1. 0 \in Good
  <2> DEFINE g == [i \in 1 .. 0 |-> <<>>]
  <2>1. g = [i \in 1 .. 0 |-> Step_(g, i)]
    <3>1. \A i \in 1 .. 0 : Step_(g, i) = <<>>
      OBVIOUS
    <3> HIDE DEF Step_
    <3> QED BY <3>1
  <2> HIDE DEF g, Step_
  <2> QED BY <2>1
<1>2. ASSUME NEW n \in Nat, n \in Good PROVE n + 1 \in Good
  <2> HIDE DEF Step_
  <2> PICK f : f = [i \in 1 .. n |-> Step_(f, i)]
    BY <1>2
  <2> DEFINE g == [i \in 1 .. n + 1 |-> Step_(f, i)]
  <2>1. \A i \in 1 .. n : g[i] = f[i]
    <3> TAKE i \in 1 .. n
    <3>1. f[i] = Step_(f, i)
      OBVIOUS
    <3>2. g[i] = Step_(f, i)
      BY i \in 1 .. n + 1
    <3> QED BY <3>1, <3>2
  <2>2. \A i \in 1 .. n + 1 : Step_(g, i) = Step_(f, i)
    <3> TAKE i \in 1 .. n + 1
    <3>1. i # 1 => i - 1 \in 1 .. n
      OBVIOUS
    <3> HIDE DEF g
    <3> QED BY <2>1, <3>1 DEF Step_
  <2>3. g = [i \in 1 .. n + 1 |-> Step_(g, i)]
    BY <2>2
  <2> HIDE DEF g
  <2> QED BY <2>3
<1>3. Len(ss) \in Good
  <2> HIDE DEF Good
  <2> QED BY <1>1, <1>2, Induction
<1> DEFINE flatten == CHOOSE f : f = [i \in 1 .. Len(ss) |-> Step_(f, i)]
<1>4. FlattenSeq(ss) = flatten[Len(ss)]
  BY DEF FlattenSeq
<1>5. flatten = [i \in 1 .. Len(ss) |-> Step_(flatten, i)]
  <2> HIDE DEF Step_
  <2> QED BY <1>3
<1> HIDE DEF flatten
<1>6. \A i \in 1 .. Len(ss) : flatten[i] = Step_(flatten, i)
  <2> HIDE DEF Step_
  <2> QED BY <1>5
<1> QED BY <1>4, <1>6

LEMMA FlattenPairs ==
  ASSUME NEW T, NEW ss \in Seq(Seq(T)), Len(ss) # 0, \A i \in DOMAIN ss : Len(ss[i]) = 2
  PROVE  FlattenSeq(ss) \in Seq(T) /\ Len(FlattenSeq(ss)) = 2 * Len(ss)
<1>1. Len(ss) \in Nat \ {0} /\ DOMAIN ss = 1 .. Len(ss) /\ \A i \in 1 .. Len(ss) : ss[i] \in Seq(T)
  OBVIOUS
<1>2. PICK f : /\ \A i \in 1 .. Len(ss) : f[i] = IF i = 1 THEN ss[i] ELSE f[i - 1] \o ss[i]
               /\ FlattenSeq(ss) = f[Len(ss)]
  BY <1>1, FlattenUnfold
<1> DEFINE Good == {i \in Nat : 1 <= i /\ i <= Len(ss) => f[i] \in Seq(T) /\ Len(f[i]) = 2 * i}
<1>3. 0 \in Good
  OBVIOUS
<1>4. ASSUME NEW n \in Nat, n \in Good PROVE n + 1 \in Good
  <2> SUFFICES ASSUME n + 1 <= Len(ss) PROVE f[n + 1] \in Seq(T) /\ Len(f[n + 1]) = 2 * (n + 1)
    OBVIOUS
  <2>1. n + 1 \in 1 .. Len(ss) /\ ss[n + 1] \in Seq(T) /\ Len(ss[n + 1]) = 2
    BY <1>1
  <2>2. CASE n = 0
    <3>1. f[n + 1] = ss[n + 1]
      BY <1>2, <2>1, <2>2
    <3> QED BY <2>1, <2>2, <3>1
  <2>3. CASE n # 0
    <3>1. f[n + 1] = f[n] \o ss[n + 1]
      <4>1. (n + 1) - 1 = n /\ n + 1 # 1
        BY <2>3
      <4> QED BY <1>2, <2>1, <4>1
    <3>2. f[n] \in Seq(T) /\ Len(f[n]) = 2 * n
      BY <1>1, <1>4, <2>3
    <3>3. \A u, v \in Seq(T) : u \o v \in Seq(T) /\ Len(u \o v) = Len(u) + Len(v)
      OBVIOUS
    <3>4. Len(f[n + 1]) = 2 * n + 2 /\ f[n + 1] \in Seq(T)
      BY <2>1, <3>1, <3>2, <3>3
    <3> QED BY <3>4
  <2> QED BY <2>2, <2>3
<1>5. Len(ss) \in Good
  <2> HIDE DEF Good
  <2> QED BY <1>1, <1>3, <1>4, Induction
<1> QED BY <1>1, <1>2, <1>5

\* A chain that run_pipeline accepts: how many calls it takes.
LEMMA CallsBounded ==
  ASSUME NEW N, NEW chain \in Seq(N), Len(chain) >= 2, Runnable(chain)
  PROVE  /\ Len(Calls(chain)) \in Nat \ {0}
         /\ Len(Calls(chain)) <= 2 * (Len(chain) + MaxTokens + 1)
<1> DEFINE C == [op: {"health", "prefill", "forward", "decode", "infer", "rpc"}, to: N]
           L == Len(chain)
<1>1. L \in Nat /\ L >= 2 /\ DOMAIN chain = 1 .. L /\ MaxTokens \in Nat \ {0}
  BY ChatAssumption
<1>2. \A i \in 1 .. L : chain[i] \in N
  OBVIOUS
<1>3. \A n \in N : \A op \in {"health", "prefill", "forward", "decode", "infer", "rpc"} : Call(op, n) \in C
  BY DEF Call
<1>4. Tail(chain) \in Seq(N) /\ Len(Tail(chain)) = L - 1
  BY <1>1
<1> HIDE DEF C
<1>5. ASSUME NEW s \in Seq(N) PROVE Health(s) \in Seq(C) /\ Len(Health(s)) = Len(s)
  <2>1. \A i \in 1 .. Len(s) : Call("health", s[i]) \in C
    BY <1>3
  <2>2. Health(s) = [i \in 1 .. Len(s) |-> Call("health", s[i])] /\ Len(s) \in Nat
    BY DEF Health
  <2> QED BY <2>1, <2>2
<1>6. \A u, v \in Seq(C) : u \o v \in Seq(C) /\ Len(u \o v) = Len(u) + Len(v)
  OBVIOUS
<1>7. \A x \in C : <<x>> \in Seq(C) /\ Len(<<x>>) = 1
  OBVIOUS
<1>8. Call("health", chain[1]) \in C /\ Call("prefill", chain[1]) \in C /\ Call("infer", chain[1]) \in C
  BY <1>1, <1>2, <1>3
<1>9. ASSUME Backend(chain) = "activation"
      PROVE  ActivationCalls(chain) \in Seq(C) /\ Len(ActivationCalls(chain)) = L + 2 * MaxTokens
  <2> DEFINE M == 2 * MaxTokens - 1
             loop == [i \in 1 .. M |-> IF i % 2 = 1 THEN Call("forward", chain[2]) ELSE Call("decode", chain[1])]
  <2>1. M \in Nat
    BY <1>1
  <2>2. Call("forward", chain[2]) \in C /\ Call("decode", chain[1]) \in C
    BY <1>1, <1>2, <1>3
  <2>3. loop \in Seq(C) /\ Len(loop) = M
    <3> HIDE DEF M
    <3> QED BY <2>1, <2>2
  <2>4. ActivationCalls(chain) = (Health(chain) \o <<Call("prefill", chain[1])>>) \o loop
    BY DEF ActivationCalls
  <2> HIDE DEF loop
  <2>5. Health(chain) \o <<Call("prefill", chain[1])>> \in Seq(C)
        /\ Len(Health(chain) \o <<Call("prefill", chain[1])>>) = L + 1
    BY <1>5, <1>6, <1>7, <1>8
  <2>6. ActivationCalls(chain) \in Seq(C) /\ Len(ActivationCalls(chain)) = (L + 1) + M
    BY <2>3, <2>4, <2>5, <1>6
  <2> QED BY <1>1, <2>6
<1>10. GgufCalls(chain) \in Seq(C) /\ Len(GgufCalls(chain)) = L
  <2>1. Health(Tail(chain)) \in Seq(C) /\ Len(Health(Tail(chain))) = L - 1
    BY <1>4, <1>5
  <2>2. <<Call("infer", chain[1])>> \in Seq(C) /\ Len(<<Call("infer", chain[1])>>) = 1
    BY <1>7, <1>8
  <2>3. GgufCalls(chain) \in Seq(C) /\ Len(GgufCalls(chain)) = (L - 1) + 1
    BY <2>1, <2>2, <1>6 DEF GgufCalls
  <2> QED BY <1>1, <2>3
<1>11. RpcCalls(chain) \in Seq(C) /\ Len(RpcCalls(chain)) = 2 * (L - 1) + 1
  <2> DEFINE ss == [i \in DOMAIN Tail(chain) |-> <<Call("health", chain[i + 1]), Call("rpc", chain[i + 1])>>]
             m == L - 1
  <2>1. m \in Nat \ {0} /\ DOMAIN Tail(chain) = 1 .. m
    BY <1>1, <1>4
  <2>2. \A i \in 1 .. m : Call("health", chain[i + 1]) \in C /\ Call("rpc", chain[i + 1]) \in C
    BY <1>1, <1>2, <1>3
  <2>3. \A x, y \in C : <<x, y>> \in Seq(C) /\ Len(<<x, y>>) = 2
    OBVIOUS
  <2>4. \A i \in 1 .. m : ss[i] \in Seq(C) /\ Len(ss[i]) = 2
    <3> TAKE i \in 1 .. m
    <3>1. ss[i] = <<Call("health", chain[i + 1]), Call("rpc", chain[i + 1])>>
      BY <2>1
    <3> QED BY <2>2, <2>3, <3>1
  <2>5. ss \in [1 .. m -> Seq(C)]
    <3>1. ss = [i \in 1 .. m |-> ss[i]]
      BY <2>1
    <3> HIDE DEF ss, m
    <3> QED BY <2>4, <3>1
  <2>6. RpcCalls(chain) = FlattenSeq(ss) \o <<Call("infer", chain[1])>>
    BY DEF RpcCalls
  <2> HIDE DEF ss, m
  <2>7. ss \in Seq(Seq(C)) /\ Len(ss) = m /\ DOMAIN ss = 1 .. m
    BY <2>1, <2>5
  <2>8. FlattenSeq(ss) \in Seq(C) /\ Len(FlattenSeq(ss)) = 2 * m
    BY <2>1, <2>4, <2>7, FlattenPairs
  <2>9. RpcCalls(chain) \in Seq(C) /\ Len(RpcCalls(chain)) = 2 * m + 1
    BY <1>6, <1>7, <1>8, <2>6, <2>8
  <2> QED BY <2>9 DEF m
<1>12. Backend(chain) \in {"activation", "gguf", "rpc"}
  BY DEF Runnable, Backend
<1> DEFINE rest == CASE Backend(chain) = "activation" -> ActivationCalls(chain)
                     [] Backend(chain) = "gguf" -> GgufCalls(chain)
                     [] Backend(chain) = "rpc" -> RpcCalls(chain)
<1>13. rest \in Seq(C) /\ Len(rest) \in Nat /\ Len(rest) + 1 <= 2 * (L + MaxTokens + 1)
  <2> HIDE DEF L
  <2>1. CASE Backend(chain) = "activation"
    <3>1. rest = ActivationCalls(chain)
      BY <2>1
    <3> HIDE DEF rest
    <3> QED BY <1>1, <1>9, <2>1, <3>1
  <2>2. CASE Backend(chain) = "gguf"
    <3>1. rest = GgufCalls(chain)
      BY <2>2
    <3> HIDE DEF rest
    <3> QED BY <1>1, <1>10, <3>1
  <2>3. CASE Backend(chain) = "rpc"
    <3>1. rest = RpcCalls(chain)
      BY <2>3
    <3> HIDE DEF rest
    <3> QED BY <1>1, <1>11, <3>1
  <2> QED BY <1>12, <2>1, <2>2, <2>3
<1>14. Calls(chain) = <<Call("health", chain[1])>> \o rest
  BY DEF Calls
<1> HIDE DEF rest
<1>15. Len(Calls(chain)) = 1 + Len(rest)
  BY <1>6, <1>7, <1>8, <1>13, <1>14
<1> QED BY <1>13, <1>15
-----------------------------------------------------------------------------
(* The router: what is so of a cache, a handler and a reply that hold rows *)
(* of N, at any time.  Rows outlive what they were: N is Node, not the     *)
(* nodes of the moment.                                                    *)

\* A list of nodes that resolve_pipeline may return.
IsChain(chain) ==
  /\ Len(chain) >= 2
  /\ \A k \in DOMAIN chain :
       chain[k].stage = k - 1 /\ chain[k].group = chain[1].group /\ chain[k].model = chain[1].model

\* The nodes of an answer suit the mode of the question.
Suits(by, mode) ==
  \/ Len(by) = 1 /\ mode # "pipeline" /\ ReplicaEligible(by[1])
  \/ IsChain(by) /\ Runnable(by) /\ mode # "replica"

GoodCache(N, table) ==
  /\ IsFiniteSet(DOMAIN table) /\ Cardinality(DOMAIN table) <= MaxEntries
  /\ \A k \in DOMAIN table :
       /\ table[k] \in [response: Seq(N), left: 0 .. TtlContributor]
       /\ Suits(table[k].response, k.mode)

\* chat_replica: the replicas that have failed are those whose turn has been.
TriesReplicas(h) ==
  /\ h.asks.mode # "pipeline" /\ h.at < Len(h.nodes) /\ h.start < Len(h.nodes)
  /\ \A i, j \in DOMAIN h.nodes : h.nodes[i] = h.nodes[j] => i = j
  /\ \A n \in Range(h.nodes) : ReplicaEligible(n)
  /\ h.tried = {Nth(h, j) : j \in 0 .. h.at - 1}

\* run_pipeline.
WalksChain(h) ==
  /\ h.asks.mode # "replica" /\ IsChain(h.nodes) /\ h.at >= 1
  /\ Runnable(h.nodes) => h.at <= Len(Calls(h.nodes))

GoodHandlers(N) ==
  {h \in [pc: PCs, asks: Question \cup {<<>>}, nodes: Seq(N), at: Nat, start: Nat, tried: SUBSET N] :
     /\ h.pc # "idle" => h.asks \in Question
     /\ h.pc \in {"asked", "missed"} => h.at = 0 /\ h.tried = {}
     /\ h.pc \in {"health", "infer"} => TriesReplicas(h)
     /\ h.pc = "chain" => WalksChain(h)}

GoodReplies(N) ==
  {r \in [to: SUBSET Clients, asks: Question \cup {<<>>}, by: Seq(N), error: Errors] :
     r.by # <<>> => Suits(r.by, r.asks.mode)}

RouterInv ==
  /\ NetworkInv /\ rr \in 0 .. RRSpan - 1
  /\ GoodCache(Node, cache)
  /\ chat \in [Clients -> GoodHandlers(Node)]
  /\ reply \in GoodReplies(Node)

LEMMA IdleIsGood == ASSUME NEW N PROVE Idle \in GoodHandlers(N)
BY DEF Idle, GoodHandlers, PCs

LEMMA NothingIsGood == ASSUME NEW N PROVE Nothing \in GoodReplies(N)
<1>1. Nothing \in [to: SUBSET Clients, asks: Question \cup {<<>>}, by: Seq(N), error: Errors]
  BY DEF Nothing, Errors
<1>2. Nothing.by = <<>>
  BY DEF Nothing
<1> QED BY <1>1, <1>2 DEF GoodReplies

LEMMA RouterInitInv == RouterInit => RouterInv
<1> SUFFICES ASSUME RouterInit PROVE RouterInv
  OBVIOUS
<1>1. NetworkInv
  BY NetworkInit DEF RouterInit
<1>2. rr \in 0 .. RRSpan - 1
  BY ChatAssumption DEF RouterInit
<1>3. DOMAIN cache = {}
  BY DEF RouterInit, EmptyCache
<1>4. GoodCache(Node, cache)
  <2>1. IsFiniteSet({}) /\ Cardinality({}) = 0
    BY FS_EmptySet
  <2> QED BY <1>3, <2>1, CacheAssumption DEF GoodCache
<1>5. chat \in [Clients -> GoodHandlers(Node)]
  <2>1. Idle \in GoodHandlers(Node)
    BY IdleIsGood
  <2> HIDE DEF Idle
  <2> QED BY <2>1 DEF RouterInit
<1>6. reply \in GoodReplies(Node)
  BY NothingIsGood DEF RouterInit
<1> QED BY <1>1, <1>2, <1>4, <1>5, <1>6 DEF RouterInv

\* A handler goes on as h, or ends with an answer or a refusal.
LEMMA BecomesGood ==
  ASSUME NEW N, chat \in [Clients -> GoodHandlers(N)], NEW c \in Clients,
         NEW h \in GoodHandlers(N), Becomes(c, h)
  PROVE  chat' \in [Clients -> GoodHandlers(N)] /\ reply' \in GoodReplies(N)
<1>1. chat' = [chat EXCEPT ![c] = h] /\ reply' = Nothing
  BY DEF Becomes
<1>2. chat' \in [Clients -> GoodHandlers(N)]
  BY <1>1
<1> QED BY <1>1, <1>2, NothingIsGood

LEMMA EndsGood ==
  ASSUME NEW N, chat \in [Clients -> GoodHandlers(N)], NEW c \in Clients,
         NEW by \in Seq(N), by # <<>> => Suits(by, chat[c].asks.mode), NEW e \in Errors, Ends(c, by, e)
  PROVE  chat' \in [Clients -> GoodHandlers(N)] /\ reply' \in GoodReplies(N)
<1>1. chat' = [chat EXCEPT ![c] = Idle] /\ reply' = [to |-> {c}, asks |-> chat[c].asks, by |-> by, error |-> e]
  BY DEF Ends
<1>2. chat' \in [Clients -> GoodHandlers(N)]
  BY <1>1, IdleIsGood
<1>3. chat[c].asks \in Question \cup {<<>>}
  BY DEF GoodHandlers
<1>4. reply' \in GoodReplies(N)
  BY <1>1, <1>3 DEF GoodReplies
<1> QED BY <1>2, <1>4
-----------------------------------------------------------------------------
(* The cache.                                                              *)

LEMMA LiveIsGood ==
  ASSUME NEW N, NEW table, GoodCache(N, table)
  PROVE  GoodCache(N, Live(table))
<1> DEFINE D == {k \in DOMAIN table : table[k].left > 0}
<1>1. DOMAIN Live(table) = D /\ \A k \in D : Live(table)[k] = table[k]
  BY DEF Live, Restrict
<1>2. IsFiniteSet(D) /\ Cardinality(D) <= Cardinality(DOMAIN table) /\ Cardinality(D) \in Nat
      /\ Cardinality(DOMAIN table) \in Nat
  BY FS_Subset, FS_CardinalityType DEF GoodCache
<1>3. Cardinality(D) <= MaxEntries
  BY <1>2, CacheAssumption DEF GoodCache
<1> QED BY <1>1, <1>2, <1>3 DEF GoodCache

LEMMA OlderIsGood ==
  ASSUME NEW N, NEW table, GoodCache(N, table)
  PROVE  GoodCache(N, Older(table))
<1>1. DOMAIN Older(table) = DOMAIN table
  BY DEF Older
<1>2. ASSUME NEW k \in DOMAIN table
      PROVE  /\ Older(table)[k] \in [response: Seq(N), left: 0 .. TtlContributor]
             /\ Older(table)[k].response = table[k].response
  <2>1. table[k] \in [response: Seq(N), left: 0 .. TtlContributor]
    BY DEF GoodCache
  <2> DEFINE l == IF table[k].left > 0 THEN table[k].left - 1 ELSE 0
  <2>2. Older(table)[k] = [table[k] EXCEPT !.left = l]
    BY DEF Older
  <2>3. l \in 0 .. TtlContributor
    BY <2>1, CacheAssumption
  <2> HIDE DEF l
  <2> QED BY <2>1, <2>2, <2>3
<1> QED BY <1>1, <1>2 DEF GoodCache

\* put makes room before it stores: the table stays within its limit.
LEMMA PutIsGood ==
  ASSUME NEW N, NEW table, GoodCache(N, table), NEW key, NEW by \in Seq(N), Suits(by, key.mode),
         NEW contributor \in BOOLEAN, NEW new \in Put(table, key, by, contributor)
  PROVE  GoodCache(N, new)
<1> DEFINE live == Live(table)
<1>1. GoodCache(N, live)
  BY LiveIsGood
<1>2. PICK c \in Room(live) :
        new = [k \in DOMAIN c \cup {key} |->
                 IF k = key THEN [response |-> by, left |-> Ttl(contributor)] ELSE c[k]]
  BY DEF Put
<1> HIDE DEF live
<1>3. IsFiniteSet(DOMAIN live) /\ Cardinality(DOMAIN live) \in Nat /\ Cardinality(DOMAIN live) <= MaxEntries
      /\ MaxEntries \in Nat \ {0}
  BY <1>1, FS_CardinalityType, CacheAssumption DEF GoodCache
<1>4. /\ IsFiniteSet(DOMAIN c) /\ Cardinality(DOMAIN c) \in Nat /\ Cardinality(DOMAIN c) < MaxEntries
      /\ DOMAIN c \subseteq DOMAIN live /\ \A k \in DOMAIN c : c[k] = live[k]
  <2>1. CASE Cardinality(DOMAIN live) >= MaxEntries
    <3>1. PICK k \in Oldest(live) : c = Without(live, k)
      BY <1>2, <2>1 DEF Room
    <3>2. DOMAIN c = DOMAIN live \ {k} /\ \A j \in DOMAIN c : c[j] = live[j]
      BY <3>1 DEF Without, Restrict
    <3>3. k \in DOMAIN live
      BY DEF Oldest
    <3>4. IsFiniteSet(DOMAIN c) /\ Cardinality(DOMAIN c) = Cardinality(DOMAIN live) - 1
      BY <1>3, <3>2, <3>3, FS_RemoveElement
    <3>5. Cardinality(DOMAIN c) \in Nat
      BY <3>4, FS_CardinalityType
    <3> QED BY <1>3, <3>2, <3>4, <3>5
  <2>2. CASE ~(Cardinality(DOMAIN live) >= MaxEntries)
    <3>1. c = live
      BY <1>2, <2>2 DEF Room
    <3> QED BY <1>3, <2>2, <3>1
  <2> QED BY <2>1, <2>2
<1>5. DOMAIN new = DOMAIN c \cup {key}
  BY <1>2
<1>6. IsFiniteSet(DOMAIN new) /\ Cardinality(DOMAIN new) <= MaxEntries
  <2>1. /\ IsFiniteSet(DOMAIN c \cup {key})
        /\ Cardinality(DOMAIN c \cup {key}) = IF key \in DOMAIN c THEN Cardinality(DOMAIN c)
                                               ELSE Cardinality(DOMAIN c) + 1
    BY <1>4, FS_AddElement
  <2>2. Cardinality(DOMAIN c \cup {key}) <= MaxEntries
    BY <1>3, <1>4, <2>1
  <2> QED BY <1>5, <2>1, <2>2
<1>7. ASSUME NEW k \in DOMAIN new
      PROVE  /\ new[k] \in [response: Seq(N), left: 0 .. TtlContributor]
             /\ Suits(new[k].response, k.mode)
  <2>1. CASE k = key
    <3>1. new[k] = [response |-> by, left |-> Ttl(contributor)]
      BY <1>2, <1>5, <2>1
    <3>2. Ttl(contributor) \in 0 .. TtlContributor
      BY CacheAssumption DEF Ttl
    <3> QED BY <2>1, <3>1, <3>2
  <2>2. CASE k # key
    <3>1. k \in DOMAIN c /\ new[k] = c[k]
      BY <1>2, <1>5, <2>2
    <3> QED BY <1>1, <1>4, <3>1 DEF GoodCache
  <2> QED BY <2>1, <2>2
<1> QED BY <1>6, <1>7 DEF GoodCache
-----------------------------------------------------------------------------
(* The lists that handlers work on.                                        *)

LEMMA NodesCounted ==
  ASSUME NetworkInv
  PROVE  IsFiniteSet(Range(node)) /\ Cardinality(Range(node)) = Nodes /\ Nodes \in Nat
<1>1. node \in Seq(Node) /\ Len(node) = Nodes /\ DOMAIN node = 1 .. Nodes
  BY ShapeIsSequence DEF NetworkInv
<1>2. \A i, j \in DOMAIN node : node[i] = node[j] => i = j
  BY <1>1 DEF NetworkInv
<1> QED BY <1>1, <1>2, DistinctCount, NodesAssumption

LEMMA ListBounded ==
  ASSUME NetworkInv, NEW s \in Seq(Range(node)), \A i, j \in DOMAIN s : s[i] = s[j] => i = j
  PROVE  Len(s) <= Nodes
<1>1. IsFiniteSet(Range(s)) /\ Cardinality(Range(s)) = Len(s)
  BY DistinctCount
<1>2. Range(s) \in SUBSET Range(node)
  BY DEF Range
<1> QED BY <1>1, <1>2, NodesCounted, FS_Subset

LEMMA ChainBounded ==
  ASSUME NetworkInv, NEW s \in Seq(Range(node)), IsChain(s)
  PROVE  Len(s) <= Nodes
<1>1. ASSUME NEW i \in DOMAIN s, NEW j \in DOMAIN s, s[i] = s[j] PROVE i = j
  <2>1. i \in Nat /\ j \in Nat /\ i - 1 = j - 1
    BY <1>1 DEF IsChain
  <2> QED BY <2>1
<1> QED BY <1>1, ListBounded

\* What resolve_pipeline returns.
LEMMA RoutedChain ==
  ASSUME NetworkInv, Chain # <<>>
  PROVE  Chain \in Seq(Range(node)) /\ Chain \in Seq(Node) /\ IsChain(Chain)
<1>1. /\ online \in Seq(Node) /\ Ascending(online) /\ Preferred \in Groups
      /\ Range(online) \subseteq Range(node)
  BY NetworkTypes, GroupsAssumption DEF NetworkInv
<1> DEFINE chain == Chain
<1>2. chain \in Seq(Node) /\ Len(chain) >= 2 /\ \E h \in Groups : ChainOf(online, h, chain)
  BY <1>1, ResolvedChain DEF Chain
<1>3. PICK h \in Groups : ChainOf(online, h, chain)
  BY <1>2
<1> HIDE DEF chain
<1>4. \A k \in DOMAIN chain :
        /\ chain[k] \in Range(online) /\ chain[k].stage = k - 1
        /\ chain[k].group = chain[1].group /\ chain[k].model = chain[1].model
  BY <1>1, <1>2, <1>3, ChainNodes
<1>5. chain \in Seq(Range(node))
  BY <1>1, <1>2, <1>4
<1> QED BY <1>2, <1>4, <1>5 DEF IsChain, chain

\* What chat_replica makes of the online nodes.
LEMMA RoutedList ==
  ASSUME NetworkInv, NEW c, NEW list \in Ordered(c)
  PROVE  /\ list \in Seq(Range(node)) /\ list \in Seq(Node)
         /\ \A i, j \in DOMAIN list : list[i] = list[j] => i = j
         /\ \A n \in Range(list) : ReplicaEligible(n)
<1> DEFINE eligible == {n \in Range(online) : ReplicaEligible(n)}
<1>1. /\ online \in Seq(Node) /\ Ascending(online) /\ Range(online) \subseteq Range(node)
      /\ online \in Seq(Range(node)) /\ Range(node) \subseteq Node
  BY NetworkTypes DEF NetworkInv
<1>2. CASE c \in Contributors
  <2>1. list \in SetToSeqs(eligible)
    BY <1>2 DEF Ordered
  <2>2. Cardinality(eligible) \in Nat
    BY <1>1, NodesCounted, FS_Subset, FS_CardinalityType
  <2> DEFINE m == Cardinality(eligible)
  <2>3. list \in [1 .. m -> eligible] /\ \A i, j \in 1 .. m : i # j => list[i] # list[j]
    BY <2>1 DEF SetToSeqs
  <2> HIDE DEF m
  <2>4. list \in [1 .. m -> Range(node)] /\ \A i \in 1 .. m : ReplicaEligible(list[i])
    BY <1>1, <2>3
  <2>5. m \in Nat
    BY <2>2 DEF m
  <2>6. list \in [1 .. m -> Node]
    BY <1>1, <2>4
  <2>7. list \in Seq(Range(node)) /\ list \in Seq(Node)
    BY <2>4, <2>5, <2>6
  <2> QED BY <2>3, <2>4, <2>5, <2>7 DEF Range
<1>3. CASE c \notin Contributors
  <2>1. list = Only(online, eligible)
    BY <1>3 DEF Ordered
  <2> HIDE DEF eligible
  <2>2. list \in Seq(Range(node)) /\ list \in Seq(Node) /\ Range(list) = Range(online) \cap eligible
    BY <1>1, <2>1, OnlyRange
  <2>3. Ascending(list)
    BY <1>1, <2>1, OnlyAscending
  <2>4. \A i, j \in DOMAIN list : list[i] = list[j] => i = j
    BY <2>2, <2>3, AscendingIds
  <2>5. \A n \in Range(list) : ReplicaEligible(n)
    BY <2>2 DEF eligible
  <2> QED BY <2>2, <2>4, <2>5
<1> QED BY <1>2, <1>3

LEMMA TierInTable == Tier \in DOMAIN Tiers
<1>1. \A cu, chains : ActiveTier(cu, chains) \in DOMAIN Tiers
  <2> TAKE cu, chains
  <2>1. CASE Reached(cu, chains) = {}
    BY <2>1, TiersAssumption DEF ActiveTier
  <2>2. CASE Reached(cu, chains) # {}
    BY <2>2, ActiveIsHighest DEF Reached
  <2> QED BY <2>1, <2>2
<1> QED BY <1>1 DEF Tier
-----------------------------------------------------------------------------
(* The steps of a handler.                                                 *)

\* The next turn of chat_replica, or 502.
LEMMA NextTurnGood ==
  ASSUME NEW N, chat \in [Clients -> GoodHandlers(N)], NEW c \in Clients,
         chat[c].pc \in {"health", "infer"}, NextTurn(c)
  PROVE  chat' \in [Clients -> GoodHandlers(N)] /\ reply' \in GoodReplies(N)
<1> DEFINE h == chat[c]
           t == [h EXCEPT !.pc = "health", !.at = h.at + 1, !.tried = h.tried \cup {Turn(c)}]
<1>0. /\ h \in GoodHandlers(N) /\ h.pc \in {"health", "infer"}
      /\ h \in [pc: PCs, asks: Question \cup {<<>>}, nodes: Seq(N), at: Nat, start: Nat, tried: SUBSET N]
  BY DEF GoodHandlers
<1>1. h.pc # "idle" /\ h.asks \in Question /\ TriesReplicas(h)
  BY <1>0 DEF GoodHandlers
<1>2. CASE h.at + 1 < Len(h.nodes)
  <2>1. Becomes(c, t)
    BY <1>2 DEF NextTurn, Attempt
  <2>2. Turn(c) = Nth(h, h.at)
    BY DEF Turn, Nth
  <2> HIDE DEF h
  <2>3. h.at \in Nat /\ h.at \in 0 .. Len(h.nodes) - 1
    BY <1>0, <1>1 DEF TriesReplicas
  <2>4. Turn(c) \in N
    <3>1. Nth(h, h.at) \in Range(h.nodes)
      BY <1>0, <1>1, <2>3, Turns DEF TriesReplicas
    <3>2. Range(h.nodes) \subseteq N
      BY <1>0 DEF Range
    <3> QED BY <2>2, <3>1, <3>2
  <2>5. /\ t \in [pc: PCs, asks: Question \cup {<<>>}, nodes: Seq(N), at: Nat, start: Nat, tried: SUBSET N]
        /\ t.pc = "health" /\ t.asks = h.asks /\ t.nodes = h.nodes /\ t.start = h.start
        /\ t.at = h.at + 1 /\ t.tried = h.tried \cup {Turn(c)}
    <3> DEFINE x == h.tried \cup {Turn(c)}
               y == h.at + 1
    <3>1. x \in SUBSET N /\ y \in Nat /\ "health" \in PCs
      BY <1>0, <2>3, <2>4 DEF PCs
    <3>2. t = [h EXCEPT !.pc = "health", !.at = y, !.tried = x]
      OBVIOUS
    <3> HIDE DEF x, y, t
    <3>3. /\ t \in [pc: PCs, asks: Question \cup {<<>>}, nodes: Seq(N), at: Nat, start: Nat, tried: SUBSET N]
          /\ t.pc = "health" /\ t.asks = h.asks /\ t.nodes = h.nodes /\ t.start = h.start
          /\ t.at = y /\ t.tried = x
      BY <1>0, <3>1, <3>2
    <3> QED BY <3>3 DEF x, y
  <2> HIDE DEF t
  <2>6. \A j : Nth(t, j) = Nth(h, j)
    BY <2>5 DEF Nth
  <2>7. t.tried = {Nth(t, j) : j \in 0 .. t.at - 1}
    <3>1. h.tried = {Nth(h, j) : j \in 0 .. h.at - 1}
      BY <1>1 DEF TriesReplicas
    <3>2. 0 .. t.at - 1 = (0 .. h.at - 1) \cup {h.at}
      BY <2>3, <2>5
    <3>3. t.tried = {Nth(h, j) : j \in 0 .. t.at - 1}
      BY <2>2, <2>5, <3>1, <3>2
    <3> QED BY <2>6, <3>3
  <2>8. TriesReplicas(t)
    BY <1>1, <1>2, <2>5, <2>7 DEF TriesReplicas
  <2>9. t \in GoodHandlers(N)
    BY <1>1, <2>5, <2>8 DEF GoodHandlers
  <2> QED BY <2>1, <2>9, BecomesGood
<1>3. CASE ~(h.at + 1 < Len(h.nodes))
  <2>1. Ends(c, <<>>, "failed")
    BY <1>3 DEF NextTurn, Attempt, Error
  <2>2. <<>> \in Seq(N) /\ "failed" \in Errors
    BY DEF Errors
  <2> QED BY <2>1, <2>2, EndsGood
<1> QED BY <1>2, <1>3

\* A refusal.
LEMMA ErrorGood ==
  ASSUME NEW N, chat \in [Clients -> GoodHandlers(N)], NEW c \in Clients, NEW e \in Errors, Error(c, e)
  PROVE  chat' \in [Clients -> GoodHandlers(N)] /\ reply' \in GoodReplies(N)
<1>1. Ends(c, <<>>, e)
  BY DEF Error
<1>2. <<>> \in Seq(N)
  OBVIOUS
<1> QED BY <1>1, <1>2, EndsGood

\* The questions that the key of a cache entry stands for have one mode.
LEMMA KeyMode ==
  ASSUME NEW q \in Question
  PROVE  CacheKey(q).mode = q.mode
BY DEF CacheKey, Question

\* The end of chat.
LEMMA AnsweredGood ==
  ASSUME NEW N, GoodCache(N, cache), chat \in [Clients -> GoodHandlers(N)], NEW c \in Clients,
         chat[c].asks \in Question,
         NEW by \in Seq(N), Suits(by, chat[c].asks.mode), Answered(c, by)
  PROVE  GoodCache(N, cache') /\ chat' \in [Clients -> GoodHandlers(N)] /\ reply' \in GoodReplies(N)
<1>1. Suits(by, CacheKey(chat[c].asks).mode)
  BY KeyMode
<1>2. cache' \in Put(cache, CacheKey(chat[c].asks), by, c \in Contributors)
  BY DEF Answered
<1>3. (c \in Contributors) \in BOOLEAN
  OBVIOUS
<1>4. GoodCache(N, cache')
  BY <1>1, <1>2, <1>3, PutIsGood
<1>5. Ends(c, by, "") /\ "" \in Errors
  BY DEF Answered, Reply, Errors
<1> QED BY <1>4, <1>5, EndsGood

LEMMA AskStep ==
  ASSUME NEW N, chat \in [Clients -> GoodHandlers(N)],
         NEW c \in Clients, NEW p \in Prompts, NEW mode \in Modes, Ask(c, p, mode)
  PROVE  chat' \in [Clients -> GoodHandlers(N)] /\ reply' \in GoodReplies(N)
<1> DEFINE q == [prompt |-> p, mode |-> mode, tier |-> Tier]
           h == [Idle EXCEPT !.pc = "asked", !.asks = q]
<1>1. Becomes(c, h)
  BY DEF Ask
<1>2. q \in Question
  BY TierInTable DEF Question
<1> HIDE DEF q
<1>3. h \in GoodHandlers(N)
  <2>1. /\ h \in [pc: PCs, asks: Question \cup {<<>>}, nodes: Seq(N), at: Nat, start: Nat, tried: SUBSET N]
        /\ h.pc = "asked" /\ h.asks = q /\ h.at = 0 /\ h.tried = {}
    <3> DEFINE i == Idle
    <3>1. /\ i \in [pc: PCs, asks: Question \cup {<<>>}, nodes: Seq(N), at: Nat, start: Nat, tried: SUBSET N]
          /\ i.at = 0 /\ i.tried = {} /\ "asked" \in PCs
      BY DEF Idle, PCs
    <3>2. h = [i EXCEPT !.pc = "asked", !.asks = q]
      OBVIOUS
    <3> HIDE DEF i, h
    <3> QED BY <1>2, <3>1, <3>2
  <2> HIDE DEF h
  <2> QED BY <1>2, <2>1 DEF GoodHandlers
<1> HIDE DEF h
<1> QED BY <1>1, <1>3, BecomesGood

LEMMA LookupStep ==
  ASSUME NEW N, GoodCache(N, cache), chat \in [Clients -> GoodHandlers(N)], NEW c \in Clients, Lookup(c)
  PROVE  GoodCache(N, cache') /\ chat' \in [Clients -> GoodHandlers(N)] /\ reply' \in GoodReplies(N)
<1> DEFINE live == Live(cache)
           key == CacheKey(chat[c].asks)
           h == [chat[c] EXCEPT !.pc = "missed"]
<1>1. /\ chat[c].pc = "asked" /\ cache' = live
      /\ IF key \in DOMAIN live THEN Reply(c, live[key].response) ELSE Becomes(c, h)
  BY DEF Lookup
<1>2. GoodCache(N, live)
  BY LiveIsGood
<1>3. chat[c] \in GoodHandlers(N)
  OBVIOUS
<1>4. chat[c].asks \in Question
  BY <1>1, <1>3 DEF GoodHandlers
<1> HIDE DEF live
<1>5. CASE key \in DOMAIN live
  <2> DEFINE by == live[key].response
  <2>1. Ends(c, by, "") /\ "" \in Errors
    BY <1>1, <1>5 DEF Reply, Errors
  <2>2. key.mode = chat[c].asks.mode
    BY <1>4, KeyMode
  <2>3. by \in Seq(N) /\ Suits(by, chat[c].asks.mode)
    <3> HIDE DEF key
    <3> QED BY <1>2, <1>5, <2>2 DEF GoodCache
  <2> HIDE DEF by
  <2> QED BY <1>1, <1>2, <2>1, <2>3, EndsGood
<1>6. CASE key \notin DOMAIN live
  <2>1. h \in GoodHandlers(N)
    <3> DEFINE g == chat[c]
    <3>1. /\ g \in [pc: PCs, asks: Question \cup {<<>>}, nodes: Seq(N), at: Nat, start: Nat, tried: SUBSET N]
          /\ g.asks \in Question /\ g.at = 0 /\ g.tried = {} /\ "missed" \in PCs
      BY <1>1, <1>3, <1>4 DEF GoodHandlers, PCs
    <3> HIDE DEF g
    <3>2. /\ h \in [pc: PCs, asks: Question \cup {<<>>}, nodes: Seq(N), at: Nat, start: Nat, tried: SUBSET N]
          /\ h.pc = "missed" /\ h.asks \in Question /\ h.at = 0 /\ h.tried = {}
      BY <3>1 DEF g
    <3> HIDE DEF h
    <3> QED BY <3>2 DEF GoodHandlers
  <2> HIDE DEF h
  <2> QED BY <1>1, <1>2, <1>6, <2>1, BecomesGood
<1> QED BY <1>5, <1>6

LEMMA RouteStep ==
  ASSUME NetworkInv, rr \in 0 .. RRSpan - 1, NEW N, N = Node,
         chat \in [Clients -> GoodHandlers(N)], NEW c \in Clients, Route(c)
  PROVE  /\ chat' \in [Clients -> GoodHandlers(N)] /\ reply' \in GoodReplies(N)
         /\ rr' \in 0 .. RRSpan - 1
<1> DEFINE h == chat[c]
<1>1. /\ h \in [pc: PCs, asks: Question \cup {<<>>}, nodes: Seq(N), at: Nat, start: Nat, tried: SUBSET N]
      /\ h.pc = "missed" /\ h.asks \in Question /\ h.at = 0 /\ h.tried = {}
  <2>1. h.pc = "missed" /\ h \in GoodHandlers(N)
    BY DEF Route
  <2> QED BY <2>1 DEF GoodHandlers
<1>2. RRSpan \in Nat \ {0} /\ rr \in Nat
  BY ChatAssumption
<1>3. {"no nodes", "no chain", "no replica"} \subseteq Errors
  BY DEF Errors
<1>4. ASSUME NEW e \in {"no nodes", "no chain", "no replica"}, Error(c, e), UNCHANGED rr
      PROVE  /\ chat' \in [Clients -> GoodHandlers(N)] /\ reply' \in GoodReplies(N)
             /\ rr' \in 0 .. RRSpan - 1
  BY <1>3, <1>4, ErrorGood
<1>5. ASSUME Chain # <<>>, h.asks.mode \in {"auto", "pipeline"}, UNCHANGED rr,
             Becomes(c, [h EXCEPT !.pc = "chain", !.nodes = Chain, !.at = 1])
      PROVE  /\ chat' \in [Clients -> GoodHandlers(N)] /\ reply' \in GoodReplies(N)
             /\ rr' \in 0 .. RRSpan - 1
  <2> DEFINE t == [h EXCEPT !.pc = "chain", !.nodes = Chain, !.at = 1]
  <2>1. Chain \in Seq(N) /\ IsChain(Chain)
    BY <1>5, RoutedChain
  <2>2. Runnable(Chain) => 1 <= Len(Calls(Chain))
    <3> SUFFICES ASSUME Runnable(Chain) PROVE 1 <= Len(Calls(Chain))
      OBVIOUS
    <3>1. Len(Calls(Chain)) \in Nat \ {0}
      BY <2>1, CallsBounded DEF IsChain
    <3> QED BY <3>1
  <2>3. /\ t \in [pc: PCs, asks: Question \cup {<<>>}, nodes: Seq(N), at: Nat, start: Nat, tried: SUBSET N]
        /\ t.pc = "chain" /\ t.asks = h.asks /\ t.nodes = Chain /\ t.at = 1
    <3>1. "chain" \in PCs
      BY DEF PCs
    <3> HIDE DEF h
    <3> QED BY <1>1, <2>1, <3>1
  <2>4. Becomes(c, t)
    BY <1>5
  <2> HIDE DEF t, h
  <2>5. WalksChain(t)
    BY <1>5, <2>1, <2>2, <2>3 DEF WalksChain
  <2>6. t \in GoodHandlers(N)
    BY <1>1, <2>3, <2>5 DEF GoodHandlers
  <2> QED BY <1>5, <2>4, <2>6, BecomesGood
<1>6. ASSUME NEW list \in Ordered(c), list # <<>>, h.asks.mode \in {"auto", "replica"},
             Becomes(c, [h EXCEPT !.pc = "health", !.nodes = list, !.start = rr % Len(list)]),
             rr' = (rr + 1) % RRSpan
      PROVE  /\ chat' \in [Clients -> GoodHandlers(N)] /\ reply' \in GoodReplies(N)
             /\ rr' \in 0 .. RRSpan - 1
  <2> DEFINE m == Len(list)
             s == rr % m
             t == [h EXCEPT !.pc = "health", !.nodes = list, !.start = s]
  <2>1. /\ list \in Seq(N) /\ \A i, j \in DOMAIN list : list[i] = list[j] => i = j
        /\ \A n \in Range(list) : ReplicaEligible(n)
    BY <1>6, RoutedList
  <2>2. m \in Nat \ {0}
    BY <1>6, <2>1
  <2>3. Becomes(c, t)
    BY <1>6
  <2> HIDE DEF h, m
  <2>4. s \in Nat /\ s < m
    BY <1>2, <2>2, Modulo
  <2> HIDE DEF s
  <2>5. /\ t \in [pc: PCs, asks: Question \cup {<<>>}, nodes: Seq(N), at: Nat, start: Nat, tried: SUBSET N]
        /\ t.pc = "health" /\ t.asks = h.asks /\ t.nodes = list /\ t.start = s /\ t.at = 0 /\ t.tried = {}
    <3>1. "health" \in PCs
      BY DEF PCs
    <3> QED BY <1>1, <2>1, <2>4, <3>1
  <2> HIDE DEF t
  <2>6. TriesReplicas(t)
    <3>1. {Nth(t, j) : j \in 0 .. 0 - 1} = {}
      OBVIOUS
    <3> QED BY <1>6, <2>1, <2>2, <2>4, <2>5, <3>1 DEF TriesReplicas, m
  <2>7. t \in GoodHandlers(N)
    BY <1>1, <2>5, <2>6 DEF GoodHandlers
  <2>8. rr' \in 0 .. RRSpan - 1
    <3>1. rr + 1 \in Nat
      BY <1>2
    <3> QED BY <1>2, <1>6, <3>1, Modulo
  <2> QED BY <2>3, <2>7, <2>8, BecomesGood
<1>7. /\ \/ \E e \in {"no nodes", "no chain", "no replica"} : Error(c, e) /\ UNCHANGED rr
         \/ /\ Chain # <<>> /\ h.asks.mode \in {"auto", "pipeline"} /\ UNCHANGED rr
            /\ Becomes(c, [h EXCEPT !.pc = "chain", !.nodes = Chain, !.at = 1])
         \/ /\ h.asks.mode \in {"auto", "replica"}
            /\ \E list \in Ordered(c) :
                 /\ list # <<>> /\ rr' = (rr + 1) % RRSpan
                 /\ Becomes(c, [h EXCEPT !.pc = "health", !.nodes = list, !.start = rr % Len(list)])
  BY Zenon DEF Route
<1> QED BY <1>4, <1>5, <1>6, <1>7

LEMMA HealthOkStep ==
  ASSUME NEW N, chat \in [Clients -> GoodHandlers(N)], NEW c \in Clients, HealthOk(c)
  PROVE  chat' \in [Clients -> GoodHandlers(N)] /\ reply' \in GoodReplies(N)
<1> DEFINE g == chat[c]
           h == [g EXCEPT !.pc = "infer"]
<1>1. g \in GoodHandlers(N) /\ g.pc = "health" /\ Becomes(c, h)
  BY DEF HealthOk
<1> HIDE DEF g
<1>2. /\ g \in [pc: PCs, asks: Question \cup {<<>>}, nodes: Seq(N), at: Nat, start: Nat, tried: SUBSET N]
      /\ g.asks \in Question /\ TriesReplicas(g) /\ "infer" \in PCs
  BY <1>1 DEF GoodHandlers, PCs
<1>3. /\ h \in [pc: PCs, asks: Question \cup {<<>>}, nodes: Seq(N), at: Nat, start: Nat, tried: SUBSET N]
      /\ h.pc = "infer" /\ h.asks = g.asks /\ h.nodes = g.nodes /\ h.at = g.at /\ h.start = g.start
      /\ h.tried = g.tried
  BY <1>2
<1> HIDE DEF h
<1>4. TriesReplicas(h)
  BY <1>2, <1>3 DEF TriesReplicas, Nth
<1>5. h \in GoodHandlers(N)
  BY <1>2, <1>3, <1>4 DEF GoodHandlers
<1> QED BY <1>1, <1>5, BecomesGood

\* One replica answers.
LEMMA InferOkStep ==
  ASSUME NEW N, GoodCache(N, cache), chat \in [Clients -> GoodHandlers(N)], NEW c \in Clients, InferOk(c)
  PROVE  GoodCache(N, cache') /\ chat' \in [Clients -> GoodHandlers(N)] /\ reply' \in GoodReplies(N)
<1> DEFINE h == chat[c]
           n == Turn(c)
<1>1. h \in GoodHandlers(N) /\ h.pc = "infer" /\ Answered(c, <<n>>)
  BY DEF InferOk
<1>2. n = Nth(h, h.at)
  BY DEF Turn, Nth
<1> HIDE DEF h, n
<1>3. h.asks \in Question /\ TriesReplicas(h) /\ h.nodes \in Seq(N) /\ h.at \in Nat /\ h.start \in Nat
  BY <1>1 DEF GoodHandlers
<1>4. n \in Range(h.nodes)
  <2>1. h.at \in 0 .. Len(h.nodes) - 1
    BY <1>3 DEF TriesReplicas
  <2> QED BY <1>2, <1>3, <2>1, Turns DEF TriesReplicas
<1>5. n \in N /\ ReplicaEligible(n)
  BY <1>3, <1>4 DEF TriesReplicas, Range
<1>6. <<n>> \in Seq(N) /\ Len(<<n>>) = 1 /\ <<n>>[1] = n
  BY <1>5
<1>7. Suits(<<n>>, h.asks.mode)
  BY <1>3, <1>5, <1>6 DEF Suits, TriesReplicas
<1> QED BY <1>1, <1>3, <1>6, <1>7, AnsweredGood DEF h

\* A call for a chain succeeds.
LEMMA CallOkStep ==
  ASSUME NEW N, GoodCache(N, cache), chat \in [Clients -> GoodHandlers(N)], NEW c \in Clients, CallOk(c)
  PROVE  GoodCache(N, cache') /\ chat' \in [Clients -> GoodHandlers(N)] /\ reply' \in GoodReplies(N)
<1> DEFINE g == chat[c]
           h == [g EXCEPT !.at = g.at + 1]
<1>1. /\ g \in GoodHandlers(N) /\ g.pc = "chain"
      /\ \/ Error(c, "failed") /\ UNCHANGED cache
         \/ Runnable(g.nodes) /\ g.at < Len(Calls(g.nodes)) /\ Becomes(c, h) /\ UNCHANGED cache
         \/ Runnable(g.nodes) /\ Answered(c, g.nodes)
  BY DEF CallOk
<1> HIDE DEF g
<1>2. /\ g \in [pc: PCs, asks: Question \cup {<<>>}, nodes: Seq(N), at: Nat, start: Nat, tried: SUBSET N]
      /\ g.asks \in Question /\ WalksChain(g)
  BY <1>1 DEF GoodHandlers
<1>3. CASE Error(c, "failed") /\ UNCHANGED cache
  <2>1. "failed" \in Errors
    BY DEF Errors
  <2> QED BY <1>3, <2>1, ErrorGood
<1>4. CASE Runnable(g.nodes) /\ g.at < Len(Calls(g.nodes)) /\ Becomes(c, h) /\ UNCHANGED cache
  <2>1. /\ h \in [pc: PCs, asks: Question \cup {<<>>}, nodes: Seq(N), at: Nat, start: Nat, tried: SUBSET N]
        /\ h.pc = "chain" /\ h.asks = g.asks /\ h.nodes = g.nodes /\ h.at = g.at + 1
    BY <1>1, <1>2
  <2> HIDE DEF h
  <2>2. Len(Calls(g.nodes)) \in Nat
    BY <1>2, <1>4, CallsBounded DEF WalksChain, IsChain
  <2>3. h.at >= 1 /\ h.at <= Len(Calls(h.nodes))
    BY <1>2, <1>4, <2>1, <2>2
  <2>4. WalksChain(h)
    BY <1>2, <2>1, <2>3 DEF WalksChain
  <2>5. h \in GoodHandlers(N)
    BY <1>2, <2>1, <2>4 DEF GoodHandlers
  <2> QED BY <1>4, <2>5, BecomesGood
<1>5. CASE Runnable(g.nodes) /\ Answered(c, g.nodes)
  <2>1. Suits(g.nodes, g.asks.mode) /\ g.nodes \in Seq(N)
    BY <1>2, <1>5 DEF WalksChain, Suits
  <2> QED BY <1>2, <1>5, <2>1, AnsweredGood DEF g
<1> QED BY <1>1, <1>3, <1>4, <1>5

\* A step of the router leaves the network alone or is one of it.
LEMMA RouterStepsNetwork == [RouterNext]_allVars => [Next]_vars
<1> SUFFICES ASSUME [RouterNext]_allVars PROVE [Next]_vars
  OBVIOUS
<1>1. CASE UNCHANGED allVars
  BY <1>1 DEF allVars, vars
<1>2. CASE RouterNext
  BY <1>2 DEF RouterNext, Ask, Step, Lookup, Route, HealthOk, HealthFails, InferOk, InferFails,
              CallOk, CallFails, HangsUp, Hour
<1> QED BY <1>1, <1>2

LEMMA RouterStepInv == RouterInv /\ [RouterNext]_allVars => RouterInv'
<1> SUFFICES ASSUME RouterInv, [RouterNext]_allVars PROVE RouterInv'
  OBVIOUS
<1> DEFINE N == Node
<1>1. [Next]_vars
  BY RouterStepsNetwork
<1>2. NetworkInv'
  BY <1>1, NetworkStep DEF RouterInv
<1>3. /\ GoodCache(N, cache) /\ chat \in [Clients -> GoodHandlers(N)] /\ reply \in GoodReplies(N)
      /\ rr \in 0 .. RRSpan - 1 /\ NetworkInv
  BY DEF RouterInv
<1>4. SUFFICES /\ GoodCache(N, cache') /\ chat' \in [Clients -> GoodHandlers(N)] /\ reply' \in GoodReplies(N)
               /\ rr' \in 0 .. RRSpan - 1
  BY <1>2 DEF RouterInv, GoodCache
<1> HIDE DEF N
<1>5. CASE UNCHANGED allVars
  BY <1>3, <1>5 DEF allVars
<1>6. ASSUME NEW c \in Clients, NEW p \in Prompts, NEW mode \in Modes, Ask(c, p, mode)
      PROVE  /\ GoodCache(N, cache') /\ chat' \in [Clients -> GoodHandlers(N)] /\ reply' \in GoodReplies(N)
             /\ rr' \in 0 .. RRSpan - 1
  <2>1. UNCHANGED <<cache, rr>>
    BY <1>6 DEF Ask
  <2> QED BY <1>3, <1>6, <2>1, AskStep
<1>7. ASSUME NEW c \in Clients, Step(c)
      PROVE  /\ GoodCache(N, cache') /\ chat' \in [Clients -> GoodHandlers(N)] /\ reply' \in GoodReplies(N)
             /\ rr' \in 0 .. RRSpan - 1
  <2>1. CASE Lookup(c)
    <3>1. UNCHANGED rr
      BY <2>1 DEF Lookup
    <3> QED BY <1>3, <2>1, <3>1, LookupStep
  <2>2. CASE Route(c)
    <3>1. UNCHANGED cache
      BY <2>2 DEF Route
    <3> QED BY <1>3, <2>2, <3>1, RouteStep DEF N
  <2>3. CASE HealthOk(c)
    <3>1. UNCHANGED <<cache, rr>>
      BY <2>3 DEF HealthOk
    <3> QED BY <1>3, <2>3, <3>1, HealthOkStep
  <2>4. CASE HealthFails(c) \/ InferFails(c)
    <3>1. UNCHANGED <<cache, rr>> /\ chat[c].pc \in {"health", "infer"} /\ NextTurn(c)
      BY <2>4 DEF HealthFails, InferFails
    <3> QED BY <1>3, <3>1, NextTurnGood
  <2>5. CASE InferOk(c)
    <3>1. UNCHANGED rr
      BY <2>5 DEF InferOk
    <3> QED BY <1>3, <2>5, <3>1, InferOkStep
  <2>6. CASE CallOk(c)
    <3>1. UNCHANGED rr
      BY <2>6 DEF CallOk
    <3> QED BY <1>3, <2>6, <3>1, CallOkStep
  <2>7. CASE CallFails(c)
    <3>1. UNCHANGED <<cache, rr>> /\ Error(c, "failed") /\ "failed" \in Errors
      BY <2>7 DEF CallFails, Errors
    <3> QED BY <1>3, <3>1, ErrorGood
  <2> QED BY <1>7, <2>1, <2>2, <2>3, <2>4, <2>5, <2>6, <2>7 DEF Step
<1>8. ASSUME NEW c \in Clients, HangsUp(c)
      PROVE  /\ GoodCache(N, cache') /\ chat' \in [Clients -> GoodHandlers(N)] /\ reply' \in GoodReplies(N)
             /\ rr' \in 0 .. RRSpan - 1
  <2>1. UNCHANGED <<cache, rr>> /\ Becomes(c, Idle)
    BY <1>8 DEF HangsUp
  <2> QED BY <1>3, <2>1, IdleIsGood, BecomesGood
<1>9. CASE Next /\ reply' = Nothing /\ UNCHANGED <<cache, rr, chat>>
  BY <1>3, <1>9, NothingIsGood
<1>10. CASE Hour
  BY <1>3, <1>10, OlderIsGood, NothingIsGood DEF Hour
<1> QED BY <1>5, <1>6, <1>7, <1>8, <1>9, <1>10 DEF RouterNext

LEMMA RouterInvariant == RouterSpec => []RouterInv
BY RouterInitInv, RouterStepInv, PTL DEF RouterSpec

\* The router implements Network: its own steps (parse_chat_request, chat, chat_replica,
\* the cache's clock) leave the nodes alone, so what is proved of the nodes and of the
\* chains they form holds while chats run.
THEOREM RouterRefinesNetwork == RouterSpec => Spec
<1>1. RouterInit => Init
  BY DEF RouterInit
<1> QED BY <1>1, RouterStepsNetwork, PTL DEF RouterSpec, Spec

\* The handlers, the cache and the counter keep their types, and a handler is never past
\* the end of its list (chat, chat_replica), however many clients and nodes there are.
THEOREM ChatTypeCorrect == RouterSpec => []ChatTypeOK
<1>1. RouterInv => ChatTypeOK
  <2> SUFFICES ASSUME RouterInv PROVE ChatTypeOK
    OBVIOUS
  <2>1. TypeOK /\ rr \in 0 .. RRSpan - 1
    BY NetworkInvTypes DEF RouterInv
  <2>2. \A k \in DOMAIN cache : cache[k].left \in 0 .. TtlContributor
    BY DEF RouterInv, GoodCache
  <2>3. reply.error \in Errors
    BY DEF RouterInv, GoodReplies
  <2>4. ASSUME NEW c \in Clients
        PROVE  /\ chat[c].pc \in PCs /\ (chat[c].pc # "idle" => chat[c].asks \in Question)
               /\ chat[c].nodes \in Seq(Node)
               /\ (chat[c].pc \in {"health", "infer"} => chat[c].at < Len(chat[c].nodes))
    <3>1. chat[c] \in GoodHandlers(Node)
      BY DEF RouterInv
    <3> QED BY <3>1 DEF GoodHandlers, TriesReplicas
  <2> QED BY <2>1, <2>2, <2>3, <2>4 DEF ChatTypeOK
<1> QED BY <1>1, RouterInvariant, PTL

\* The cache never outgrows its limit, whatever the limit and whoever stores (put).
THEOREM CacheStaysBounded == RouterSpec => []CacheBounded
<1>1. RouterInv => CacheBounded
  BY DEF RouterInv, GoodCache, CacheBounded
<1> QED BY <1>1, RouterInvariant, PTL

\* An answer suits what was asked, remembered or not (chat, cache_key), by the rows the
\* chat listed, for all questions, modes, networks and interleavings of the chats with the
\* nodes that come, go and register anew.
THEOREM AnswersFit == RouterSpec => []AnswerFitsMode
<1>1. RouterInv => AnswerFitsMode
  <2> SUFFICES ASSUME RouterInv, reply.by # <<>> PROVE AnswerFitsMode
    BY DEF AnswerFitsMode
  <2> DEFINE by == reply.by
             mode == reply.asks.mode
  <2>1. Suits(by, mode) /\ by \in Seq(Node)
    BY DEF RouterInv, GoodReplies
  <2> HIDE DEF by, mode
  <2>2. CASE Len(by) = 1 /\ mode # "pipeline" /\ ReplicaEligible(by[1])
    BY <2>2 DEF AnswerFitsMode, by, mode
  <2>3. CASE IsChain(by) /\ Runnable(by) /\ mode # "replica"
    <3>1. Len(by) >= 2 /\ Len(by) # 1 /\ DOMAIN by = 1 .. Len(by) /\ Len(by) \in Nat
      BY <2>1, <2>3 DEF IsChain
    <3> QED BY <2>3, <3>1 DEF AnswerFitsMode, IsChain, by, mode
  <2> QED BY <2>1, <2>2, <2>3 DEF Suits
<1> QED BY <1>1, RouterInvariant, PTL
-----------------------------------------------------------------------------
(* No replica is left out, and every chat ends.                            *)

\* When the last attempt of chat_replica fails the replicas it has tried are all of them.
LEMMA LastTurn ==
  ASSUME NEW N, NEW h, TriesReplicas(h), h.nodes \in Seq(N), h.at \in Nat, h.start \in Nat,
         ~(h.at + 1 < Len(h.nodes))
  PROVE  /\ h.tried \cup {Nth(h, h.at)} = Range(h.nodes)
         /\ Nth(h, h.at) \notin h.tried
<1>1. h.at = Len(h.nodes) - 1 /\ h.at \in 0 .. Len(h.nodes) - 1
  BY DEF TriesReplicas
<1>2. h.tried = {Nth(h, j) : j \in 0 .. h.at - 1}
  BY DEF TriesReplicas
<1>3. /\ \A i, j \in 0 .. Len(h.nodes) - 1 : Nth(h, i) = Nth(h, j) => i = j
      /\ {Nth(h, j) : j \in 0 .. Len(h.nodes) - 1} = Range(h.nodes)
  BY Turns DEF TriesReplicas
<1>4. 0 .. Len(h.nodes) - 1 = (0 .. h.at - 1) \cup {h.at}
  BY <1>1
<1>5. h.tried \cup {Nth(h, h.at)} = Range(h.nodes)
  BY <1>2, <1>3, <1>4
<1>6. ASSUME Nth(h, h.at) \in h.tried PROVE FALSE
  <2>1. PICK j \in 0 .. h.at - 1 : Nth(h, h.at) = Nth(h, j)
    BY <1>2, <1>6
  <2>2. j \in 0 .. Len(h.nodes) - 1 /\ j # h.at
    BY <1>1
  <2> QED BY <1>1, <1>3, <2>1, <2>2
<1> QED BY <1>5, <1>6

\* 502 for a replica chat means that every replica of its list has failed it, once, however
\* many there are, from wherever rr made it start (chat_replica).
THEOREM NoReplicaLeftOut == RouterSpec => EveryReplicaTried
<1>1. ASSUME RouterInv, RouterNext, NEW c \in reply'.to,
             chat[c].pc \in {"health", "infer"}, reply'.error = "failed"
      PROVE  /\ chat[c].tried \cup {Turn(c)} = Range(chat[c].nodes)
             /\ Turn(c) \notin chat[c].tried
  <2> DEFINE h == chat[c]
  <2>0. Nothing.to = {}
    BY DEF Nothing
  <2>3. reply' # Nothing
    BY <1>1, <2>0
  <2>1. \A d, g : Becomes(d, g) => FALSE
    BY <2>3 DEF Becomes
  <2>2. \A d, by, e : Ends(d, by, e) => c = d /\ e = "failed"
    BY <1>1 DEF Ends
  <2>4. PICK d \in Clients : Step(d)
    BY <1>1, <2>1, <2>3 DEF RouterNext, Ask, HangsUp, Hour
  <2>5. \A by : ~Reply(d, by)
    <3>1. ASSUME NEW by, Reply(d, by) PROVE FALSE
      <4>1. reply'.error = ""
        BY <3>1 DEF Reply, Ends
      <4> QED BY <1>1, <4>1
    <3> QED BY <3>1
  <2>6. ~Lookup(d) /\ ~HealthOk(d) /\ ~InferOk(d)
    BY <2>1, <2>5 DEF Lookup, HealthOk, InferOk, Answered
  <2>7. \A e : Error(d, e) => c = d
    BY <2>2 DEF Error
  <2>8. ~Route(d)
    <3> SUFFICES ASSUME Route(d) PROVE FALSE
      OBVIOUS
    <3>1. chat[d].pc = "missed"
      BY DEF Route
    <3>2. \E e : Error(d, e)
      BY <2>1 DEF Route
    <3> QED BY <1>1, <2>7, <3>1, <3>2
  <2>9. ~CallOk(d) /\ ~CallFails(d)
    <3> SUFFICES ASSUME CallOk(d) \/ CallFails(d) PROVE FALSE
      OBVIOUS
    <3>1. chat[d].pc = "chain"
      BY DEF CallOk, CallFails
    <3>2. Error(d, "failed")
      BY <2>1, <2>5 DEF CallOk, CallFails, Answered
    <3> QED BY <1>1, <2>7, <3>1, <3>2
  <2>10. chat[d].pc \in {"health", "infer"} /\ NextTurn(d)
    BY <2>4, <2>6, <2>8, <2>9 DEF Step, HealthFails, InferFails
  <2>11. Error(d, "failed") /\ ~(chat[d].at + 1 < Len(chat[d].nodes))
    BY <2>1, <2>10 DEF NextTurn, Attempt
  <2>12. c = d
    BY <2>7, <2>11
  <2>13. chat[d] \in GoodHandlers(Node)
    BY <1>1 DEF RouterInv
  <2>14. h \in GoodHandlers(Node) /\ h.pc \in {"health", "infer"} /\ ~(h.at + 1 < Len(h.nodes))
    BY <2>10, <2>11, <2>12, <2>13
  <2>15. Turn(c) = Nth(h, h.at)
    BY DEF Turn, Nth
  <2> HIDE DEF h
  <2>16. /\ TriesReplicas(h) /\ h.nodes \in Seq(Node) /\ h.at \in Nat /\ h.start \in Nat
    BY <2>14 DEF GoodHandlers
  <2>17. h.tried \cup {Turn(c)} = Range(h.nodes) /\ Turn(c) \notin h.tried
    BY <2>14, <2>15, <2>16, LastTurn
  <2> QED BY <2>17 DEF h
<1>2. ASSUME RouterInv, RouterNext
      PROVE  \A c \in reply'.to :
               chat[c].pc \in {"health", "infer"} /\ reply'.error = "failed"
               => /\ chat[c].tried \cup {Turn(c)} = Range(chat[c].nodes)
                  /\ Turn(c) \notin chat[c].tried
  BY <1>1, <1>2
<1> QED BY <1>2, RouterInvariant, PTL DEF RouterSpec, EveryReplicaTried

\* WorkLeft, of a handler.
Work(h) ==
  LET most == 2 * (Nodes + MaxTokens + 1)
  IN  CASE h.pc = "idle" -> 0
        [] h.pc = "asked" -> most + 2
        [] h.pc = "missed" -> most + 1
        [] h.pc = "health" -> 2 * (Len(h.nodes) - h.at)
        [] h.pc = "infer" -> 2 * (Len(h.nodes) - h.at) - 1
        [] h.pc = "chain" -> 1 + IF Runnable(h.nodes) THEN Len(Calls(h.nodes)) - h.at ELSE 0

LEMMA WorkOfIdle == Work(Idle) = 0
<1>1. Idle.pc = "idle"
  BY DEF Idle
<1> QED BY <1>1 DEF Work

\* The work left by phase, and that an open chat always has some.
LEMMA WorkOfPhase ==
  ASSUME NEW N, NEW h \in GoodHandlers(N), h.pc # "idle"
  PROVE  /\ Work(h) \in Nat \ {0}
         /\ h.pc = "asked" => Work(h) = 2 * (Nodes + MaxTokens + 1) + 2
         /\ h.pc = "missed" => Work(h) = 2 * (Nodes + MaxTokens + 1) + 1
         /\ h.pc = "health" => Work(h) = 2 * (Len(h.nodes) - h.at)
         /\ h.pc = "infer" => Work(h) = 2 * (Len(h.nodes) - h.at) - 1
         /\ h.pc = "chain" => Work(h) = 1 + IF Runnable(h.nodes) THEN Len(Calls(h.nodes)) - h.at ELSE 0
<1>1. /\ Nodes \in Nat /\ MaxTokens \in Nat
      /\ h.pc \in {"asked", "missed", "health", "infer", "chain"} /\ h.nodes \in Seq(N) /\ h.at \in Nat
      /\ (h.pc \in {"health", "infer"} => h.at < Len(h.nodes)) /\ (h.pc = "chain" => WalksChain(h))
  BY NodesAssumption, ChatAssumption DEF GoodHandlers, PCs, TriesReplicas
<1>2. CASE h.pc = "asked"
  BY <1>1, <1>2 DEF Work
<1>3. CASE h.pc = "missed"
  BY <1>1, <1>3 DEF Work
<1>4. CASE h.pc = "health"
  BY <1>1, <1>4 DEF Work
<1>5. CASE h.pc = "infer"
  BY <1>1, <1>5 DEF Work
<1>6. CASE h.pc = "chain"
  <2>1. Work(h) = 1 + IF Runnable(h.nodes) THEN Len(Calls(h.nodes)) - h.at ELSE 0
    BY <1>6 DEF Work
  <2>2. CASE Runnable(h.nodes)
    <3>1. h.at <= Len(Calls(h.nodes)) /\ Len(Calls(h.nodes)) \in Nat
      BY <1>1, <1>6, <2>2, CallsBounded DEF WalksChain, IsChain
    <3>2. Work(h) = 1 + (Len(Calls(h.nodes)) - h.at)
      BY <2>1, <2>2
    <3>3. Work(h) \in Nat \ {0}
      BY <1>1, <3>1, <3>2
    <3> QED BY <1>6, <2>1, <3>3
  <2>3. CASE ~Runnable(h.nodes)
    <3>1. Work(h) = 1
      BY <2>1, <2>3
    <3> QED BY <1>6, <2>1, <3>1
  <2> QED BY <2>2, <2>3
<1> QED BY <1>1, <1>2, <1>3, <1>4, <1>5, <1>6

\* Another chat moves, or this one to h.
LEMMA ChatMoves ==
  ASSUME NEW H, chat \in [Clients -> H], NEW c \in Clients, NEW d \in Clients, chat'[c] # chat[c],
         NEW h, chat' = [chat EXCEPT ![d] = h]
  PROVE  d = c /\ chat'[c] = h
OBVIOUS

LEMMA NextTurnWorks ==
  ASSUME NEW N, chat \in [Clients -> GoodHandlers(N)], chat' \in [Clients -> GoodHandlers(N)],
         NEW c \in Clients, chat[c].pc \in {"health", "infer"}, NextTurn(c)
  PROVE  0 <= Work(chat'[c]) /\ Work(chat'[c]) < Work(chat[c])
<1> DEFINE h == chat[c]
           t == chat'[c]
<1>1. h \in GoodHandlers(N) /\ h.pc \in {"health", "infer"} /\ t \in GoodHandlers(N)
  OBVIOUS
<1>2. CASE h.at + 1 < Len(h.nodes)
  <2>1. t = [h EXCEPT !.pc = "health", !.at = h.at + 1, !.tried = h.tried \cup {Turn(c)}]
    BY <1>2 DEF NextTurn, Attempt, Becomes
  <2>2. h.nodes \in Seq(N) /\ h.at \in Nat /\ h \in [pc: PCs, asks: Question \cup {<<>>}, nodes: Seq(N),
                                                     at: Nat, start: Nat, tried: SUBSET N]
    BY <1>1 DEF GoodHandlers
  <2> HIDE DEF h
  <2>3. t.pc = "health" /\ t.nodes = h.nodes /\ t.at = h.at + 1
    BY <2>1, <2>2
  <2> HIDE DEF t
  <2>4. Work(t) = 2 * (Len(h.nodes) - (h.at + 1)) /\ Work(t) \in Nat
    BY <1>1, <2>3, WorkOfPhase
  <2>5. Work(h) = 2 * (Len(h.nodes) - h.at) \/ Work(h) = 2 * (Len(h.nodes) - h.at) - 1
    BY <1>1, WorkOfPhase
  <2>6. 0 <= Work(t) /\ Work(t) < Work(h)
    BY <2>2, <2>4, <2>5
  <2> QED BY <2>6 DEF h, t
<1>3. CASE ~(h.at + 1 < Len(h.nodes))
  <2>1. t = Idle
    BY <1>3 DEF NextTurn, Attempt, Error, Ends
  <2> HIDE DEF h, t
  <2>2. Work(t) = 0 /\ Work(h) \in Nat \ {0}
    BY <1>1, <2>1, WorkOfIdle, WorkOfPhase
  <2> QED BY <2>2 DEF h, t
<1> QED BY <1>2, <1>3

\* The first call of chat_replica or of run_pipeline leaves less than the whole.
LEMMA RouteWorks ==
  ASSUME RouterInv, NEW c \in Clients, chat'[c] # chat[c], Route(c),
         chat' \in [Clients -> GoodHandlers(Node)]
  PROVE  0 <= Work(chat'[c]) /\ Work(chat'[c]) < Work(chat[c])
<1> DEFINE N == Node
           h == chat[c]
           t == chat'[c]
           most == 2 * (Nodes + MaxTokens + 1)
<1>1. /\ chat \in [Clients -> GoodHandlers(N)] /\ h \in GoodHandlers(N) /\ t \in GoodHandlers(N)
      /\ h.pc = "missed" /\ NetworkInv
  BY DEF RouterInv, Route
<1>2. /\ h \in [pc: PCs, asks: Question \cup {<<>>}, nodes: Seq(N), at: Nat, start: Nat, tried: SUBSET N]
      /\ h.at = 0
  BY <1>1 DEF GoodHandlers
<1>3. Work(h) = most + 1 /\ most \in Nat
  BY <1>1, WorkOfPhase, NodesAssumption, ChatAssumption
<1>4. ASSUME NEW e, Error(c, e) PROVE 0 <= Work(t) /\ Work(t) < Work(h)
  <2>1. t = Idle
    BY <1>4, <1>1 DEF Error, Ends
  <2> HIDE DEF t, h
  <2> QED BY <1>3, <2>1, WorkOfIdle
<1>5. ASSUME Chain # <<>>, Becomes(c, [h EXCEPT !.pc = "chain", !.nodes = Chain, !.at = 1])
      PROVE  0 <= Work(t) /\ Work(t) < Work(h)
  <2>1. t = [h EXCEPT !.pc = "chain", !.nodes = Chain, !.at = 1]
    BY <1>5, <1>1 DEF Becomes
  <2> HIDE DEF t, h
  <2>2. t.pc = "chain" /\ t.nodes = Chain /\ t.at = 1
    BY <1>2, <2>1
  <2>3. Chain \in Seq(N) /\ Chain \in Seq(Range(node)) /\ IsChain(Chain)
    BY <1>1, <1>5, RoutedChain
  <2>4. Len(Chain) <= Nodes /\ Len(Chain) >= 2 /\ Len(Chain) \in Nat
    BY <1>1, <2>3, ChainBounded DEF IsChain
  <2>5. Work(t) = 1 + (IF Runnable(Chain) THEN Len(Calls(Chain)) - 1 ELSE 0) /\ Work(t) \in Nat
    BY <1>1, <2>2, WorkOfPhase
  <2>6. CASE Runnable(Chain)
    <3>1. Len(Calls(Chain)) \in Nat /\ Len(Calls(Chain)) <= 2 * (Len(Chain) + MaxTokens + 1)
      BY <2>3, <2>4, <2>6, CallsBounded
    <3>2. Work(t) = Len(Calls(Chain))
      BY <2>5, <2>6, <3>1
    <3>3. Len(Calls(Chain)) <= most
      BY <2>4, <3>1, NodesAssumption, ChatAssumption
    <3> HIDE DEF most
    <3> QED BY <1>3, <3>1, <3>2, <3>3
  <2>7. CASE ~Runnable(Chain)
    <3>1. Work(t) = 1 /\ most >= 2
      BY <2>5, <2>7, NodesAssumption, ChatAssumption
    <3> HIDE DEF most
    <3> QED BY <1>3, <3>1
  <2> QED BY <2>6, <2>7
<1>6. ASSUME NEW list \in Ordered(c),
             Becomes(c, [h EXCEPT !.pc = "health", !.nodes = list, !.start = rr % Len(list)])
      PROVE  0 <= Work(t) /\ Work(t) < Work(h)
  <2>1. t = [h EXCEPT !.pc = "health", !.nodes = list, !.start = rr % Len(list)]
    BY <1>6, <1>1 DEF Becomes
  <2> HIDE DEF t, h
  <2>2. t.pc = "health" /\ t.nodes = list /\ t.at = 0
    BY <1>2, <2>1
  <2>3. /\ list \in Seq(N) /\ list \in Seq(Range(node))
        /\ \A i, j \in DOMAIN list : list[i] = list[j] => i = j
    BY <1>1, RoutedList
  <2>4. Len(list) <= Nodes /\ Len(list) \in Nat
    BY <1>1, <2>3, ListBounded
  <2>5. Work(t) = 2 * (Len(list) - 0) /\ Work(t) \in Nat
    BY <1>1, <2>2, WorkOfPhase
  <2>6. Work(t) <= most
    BY <2>4, <2>5, NodesAssumption, ChatAssumption
  <2> HIDE DEF most
  <2> QED BY <1>3, <2>5, <2>6
<1>7. \/ \E e : Error(c, e)
      \/ Chain # <<>> /\ Becomes(c, [h EXCEPT !.pc = "chain", !.nodes = Chain, !.at = 1])
      \/ \E list \in Ordered(c) :
           Becomes(c, [h EXCEPT !.pc = "health", !.nodes = list, !.start = rr % Len(list)])
  BY Zenon DEF Route
<1> QED BY <1>4, <1>5, <1>6, <1>7

\* Every chat comes to its reply: each step of its handler leaves less to wait for, for any
\* number of nodes, tokens and clients (chat_replica, run_pipeline).
THEOREM ChatsEnd == RouterSpec => EveryChatEnds
<1>1. ASSUME RouterInv, RouterNext, NEW c \in Clients, chat[c].pc # "idle", chat'[c] # chat[c]
      PROVE  0 <= Work(chat'[c]) /\ Work(chat'[c]) < Work(chat[c])
  <2> DEFINE N == Node
             h == chat[c]
             t == chat'[c]
  <2>1. chat' \in [Clients -> GoodHandlers(N)]
    <3>1. RouterInv'
      BY <1>1, RouterStepInv
    <3> QED BY <3>1 DEF RouterInv
  <2>2. chat \in [Clients -> GoodHandlers(N)]
    BY <1>1 DEF RouterInv
  <2>3. h \in GoodHandlers(N) /\ t \in GoodHandlers(N) /\ h.pc # "idle"
    BY <1>1, <2>1, <2>2
  <2>4. Work(h) \in Nat \ {0}
    <3> HIDE DEF h, N
    <3> QED BY <2>3, WorkOfPhase
  <2>5. \A d \in Clients : \A g : Becomes(d, g) => d = c /\ t = g
    BY <1>1, <2>2 DEF Becomes
  <2>6. \A d \in Clients : \A by, e : Ends(d, by, e) => d = c /\ t = Idle
    BY <1>1, <2>2 DEF Ends
  <2>7. ASSUME t = Idle PROVE 0 <= Work(t) /\ Work(t) < Work(h)
    <3> HIDE DEF t, h
    <3> QED BY <2>4, <2>7, WorkOfIdle
  <2>8. PICK d \in Clients : (\E p \in Prompts, mode \in Modes : Ask(d, p, mode)) \/ Step(d) \/ HangsUp(d)
    BY <1>1 DEF RouterNext, Hour
  <2>9. ~ \E p \in Prompts, mode \in Modes : Ask(d, p, mode)
    <3> SUFFICES ASSUME NEW p, NEW mode, Ask(d, p, mode) PROVE FALSE
      OBVIOUS
    <3>1. chat[d].pc = "idle" /\ \E g : Becomes(d, g)
      BY DEF Ask
    <3> QED BY <1>1, <2>5, <3>1
  <2>10. CASE HangsUp(d)
    BY <2>5, <2>7, <2>10 DEF HangsUp
  <2>11. CASE Lookup(d)
    <3>1. \/ Ends(d, Live(cache)[CacheKey(chat[d].asks)].response, "")
          \/ chat[d].pc = "asked" /\ Becomes(d, [chat[d] EXCEPT !.pc = "missed"])
      BY <2>11 DEF Lookup, Reply
    <3>2. CASE chat[d].pc = "asked" /\ Becomes(d, [chat[d] EXCEPT !.pc = "missed"])
      <4>1. h.pc = "asked" /\ t = [h EXCEPT !.pc = "missed"]
        BY <2>5, <3>2
      <4>2. h \in [pc: PCs, asks: Question \cup {<<>>}, nodes: Seq(N), at: Nat, start: Nat, tried: SUBSET N]
        BY <2>3 DEF GoodHandlers
      <4> HIDE DEF h, t, N
      <4>3. t.pc = "missed"
        BY <4>1, <4>2
      <4>4. Work(h) = 2 * (Nodes + MaxTokens + 1) + 2 /\ Work(t) = 2 * (Nodes + MaxTokens + 1) + 1
            /\ Work(t) \in Nat
        BY <2>3, <4>1, <4>3, WorkOfPhase
      <4> DEFINE most == 2 * (Nodes + MaxTokens + 1)
      <4>5. most \in Nat
        BY NodesAssumption, ChatAssumption
      <4>6. Work(h) = most + 2 /\ Work(t) = most + 1
        BY <4>4
      <4> HIDE DEF most
      <4>7. 0 <= Work(t) /\ Work(t) < Work(h)
        BY <4>4, <4>5, <4>6
      <4> QED BY <4>7 DEF h, t
    <3> QED BY <2>6, <2>7, <3>1, <3>2
  <2>12. CASE Route(d)
    <3>1. d = c
      <4>1. (\E e : Error(d, e)) \/ (\E g : Becomes(d, g))
        BY <2>12, Zenon DEF Route
      <4> QED BY <2>5, <2>6, <4>1 DEF Error
    <3> QED BY <1>1, <2>1, <2>12, <3>1, RouteWorks
  <2>13. CASE HealthOk(d)
    <3>1. d = c /\ h.pc = "health" /\ t = [h EXCEPT !.pc = "infer"]
      BY <2>5, <2>13 DEF HealthOk
    <3>2. h \in [pc: PCs, asks: Question \cup {<<>>}, nodes: Seq(N), at: Nat, start: Nat, tried: SUBSET N]
      BY <2>3 DEF GoodHandlers
    <3> HIDE DEF h, t, N
    <3>3. t.pc = "infer" /\ t.nodes = h.nodes /\ t.at = h.at /\ Len(h.nodes) \in Nat /\ h.at \in Nat
      BY <3>1, <3>2
    <3>4. Work(h) = 2 * (Len(h.nodes) - h.at) /\ Work(t) = 2 * (Len(h.nodes) - h.at) - 1 /\ Work(t) \in Nat
      BY <2>3, <3>1, <3>3, WorkOfPhase
    <3>5. 0 <= Work(t) /\ Work(t) < Work(h)
      BY <3>3, <3>4
    <3> QED BY <3>5 DEF h, t
  <2>14. CASE HealthFails(d) \/ InferFails(d)
    <3>1. chat[d].pc \in {"health", "infer"} /\ NextTurn(d)
      BY <2>14 DEF HealthFails, InferFails
    <3>2. (\E e : Error(d, e)) \/ (\E g : Becomes(d, g))
      BY <3>1 DEF NextTurn, Attempt
    <3>3. d = c
      BY <2>5, <2>6, <3>2 DEF Error
    <3> QED BY <2>1, <2>2, <3>1, <3>3, NextTurnWorks
  <2>15. CASE InferOk(d)
    BY <2>6, <2>7, <2>15 DEF InferOk, Answered, Reply
  <2>16. CASE CallOk(d)
    <3>1. \/ \E by, e : Ends(d, by, e)
          \/ /\ chat[d].pc = "chain" /\ Runnable(chat[d].nodes) /\ chat[d].at < Len(Calls(chat[d].nodes))
             /\ Becomes(d, [chat[d] EXCEPT !.at = chat[d].at + 1])
      BY <2>16 DEF CallOk, Error, Answered, Reply
    <3>2. ASSUME chat[d].pc = "chain", Runnable(chat[d].nodes), chat[d].at < Len(Calls(chat[d].nodes)),
                 Becomes(d, [chat[d] EXCEPT !.at = chat[d].at + 1])
          PROVE  0 <= Work(t) /\ Work(t) < Work(h)
      <4>1. h.pc = "chain" /\ t = [h EXCEPT !.at = h.at + 1] /\ Runnable(h.nodes)
        BY <2>5, <3>2
      <4>2. h \in [pc: PCs, asks: Question \cup {<<>>}, nodes: Seq(N), at: Nat, start: Nat, tried: SUBSET N]
            /\ WalksChain(h)
        BY <2>3, <4>1 DEF GoodHandlers
      <4> HIDE DEF h, t, N
      <4>3. t.pc = "chain" /\ t.nodes = h.nodes /\ t.at = h.at + 1 /\ h.at \in Nat
        BY <4>1, <4>2
      <4>4. Len(Calls(h.nodes)) \in Nat
        BY <4>1, <4>2, CallsBounded DEF WalksChain, IsChain
      <4>5. Work(h) = 1 + (Len(Calls(h.nodes)) - h.at)
        BY <2>3, <4>1, WorkOfPhase
      <4>6. Work(t) = 1 + (Len(Calls(h.nodes)) - (h.at + 1)) /\ Work(t) \in Nat
        BY <2>3, <4>1, <4>3, WorkOfPhase
      <4> QED BY <4>3, <4>4, <4>5, <4>6
    <3> QED BY <2>6, <2>7, <3>1, <3>2
  <2>17. CASE CallFails(d)
    BY <2>6, <2>7, <2>17 DEF CallFails, Error
  <2> QED BY <2>8, <2>9, <2>10, <2>11, <2>12, <2>13, <2>14, <2>15, <2>16, <2>17 DEF Step
<1>2. ASSUME RouterInv, RouterNext
      PROVE  \A c \in Clients :
               chat[c].pc # "idle" /\ chat'[c] # chat[c] => 0 <= WorkLeft(c)' /\ WorkLeft(c)' < WorkLeft(c)
  <2>1. \A c \in Clients : WorkLeft(c) = Work(chat[c]) /\ WorkLeft(c)' = Work(chat'[c])
    BY DEF WorkLeft, Work
  <2> QED BY <1>1, <1>2, <2>1
<1> QED BY <1>2, RouterInvariant, PTL DEF RouterSpec, EveryChatEnds
=============================================================================
