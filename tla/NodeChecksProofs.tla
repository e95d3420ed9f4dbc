-------------------------- MODULE NodeChecksProofs --------------------------
(***************************************************************************)
(* What a node checks.  First the model file: what start compares with the *)
(* manifest and what the worker loads afterwards (ModelVerify), for any    *)
(* manifests, files and versions.  Then the worker while it runs: its CPU  *)
(* budget and its memory limit (GuardWatchdog), for any number of CPUs,    *)
(* any limits, any poll interval, lateness and precision of the readings.  *)
(* The two specifications share no variable.                               *)
(***************************************************************************)
EXTENDS ModelVerify, GuardWatchdog, FiniteSetTheorems, WellFoundedInduction, TLAPS

LEMMA VerifyConstants ==
  /\ 1 \in Versions
  /\ \A setup \in Setups : setup.file \in Files
  /\ NoManifest \notin Manifests
BY VerifyAssumption DEF Versions

(* Every file has a content, the download a version, and the node has looked   *)
(* at a file that was there, for any manifests, setups and number of versions. *)
THEOREM VerifyTypeCorrect == VerifySpec => []VerifyTypeOK
<1>1. VerifyInit => VerifyTypeOK
  BY VerifyConstants DEF VerifyInit, VerifyTypeOK, Idle
<1>2. VerifyTypeOK /\ [VerifyNext]_verifyVars => VerifyTypeOK'
  <2> SUFFICES ASSUME VerifyTypeOK, [VerifyNext]_verifyVars PROVE VerifyTypeOK'
    OBVIOUS
  <2> USE DEF VerifyTypeOK
  <2>1. CASE Download
    BY <2>1 DEF Download, Writes, Files
  <2>2. CASE Downloaded
    BY <2>2 DEF Downloaded, Writes, Files
  <2>3. CASE Publish
    BY <2>3, VerifyAssumption DEF Publish, Versions
  <2>4. CASE Pull
    BY <2>4 DEF Pull
  <2>5. CASE Load
    BY <2>5, VerifyConstants DEF Load, Present
  <2>6. CASE Stop
    BY <2>6 DEF Stop, Idle
  <2>7. ASSUME NEW f \in Files, SplitFile(f) PROVE VerifyTypeOK'
    BY <2>7 DEF SplitFile, Writes
  <2>8. ASSUME NEW f \in Files, Delete(f) PROVE VerifyTypeOK'
    BY <2>8 DEF Delete, Writes
  <2>9. ASSUME NEW setup \in Setups, NEW skip \in BOOLEAN, Start(setup, skip)
        PROVE  VerifyTypeOK'
    <3>1. disk[setup.file] \in Versions \cup {Part}
      BY <2>9, VerifyConstants DEF Start, Present
    <3>2. node'.state \in {"running", "refused"} /\ node'.setup = setup
          /\ node'.seen = disk[setup.file]
      BY <2>9 DEF Start
    <3>3. UNCHANGED <<disk, hub, script, manifest>> /\ loaded' = None
          /\ cause' \subseteq {"unlisted", "changed"}
      BY <2>9 DEF Start
    <3> QED BY <3>1, <3>2, <3>3
  <2>10. CASE UNCHANGED verifyVars
    BY <2>10 DEF verifyVars
  <2> QED
    BY <2>1, <2>2, <2>3, <2>4, <2>5, <2>6, <2>7, <2>8, <2>9, <2>10 DEF VerifyNext
<1> QED BY <1>1, <1>2, PTL DEF VerifySpec

\* What was accepted is still on disk until a cause is noted, and what the node compared
\* is what the manifest it read names.
Verified ==
  /\ node.state = "running" /\ cause = {} =>
       /\ node.due = Hash(node.setup.file, disk[node.setup.file])
       /\ loaded \in {None, disk[node.setup.file]}
  /\ node.state # "idle" /\ node.due # None =>
       /\ node.read \in Manifests
       /\ node.due = Expected(node.read, node.setup.name, node.setup.file)

(* What was accepted is what is on disk until a cause is noted, whatever is  *)
(* downloaded, split, deleted or published in between.                       *)
THEOREM VerifiedUntilCause == VerifySpec => []Verified
<1>1. VerifyInit => Verified
  BY DEF VerifyInit, Verified, Idle
<1>2. VerifyTypeOK /\ Verified /\ [VerifyNext]_verifyVars => Verified'
  <2> SUFFICES ASSUME VerifyTypeOK, Verified, [VerifyNext]_verifyVars PROVE Verified'
    OBVIOUS
  <2>1. ASSUME NEW f, NEW content, Writes(f, content), UNCHANGED <<node, loaded>>
        PROVE  Verified'
    <3>1. CASE node.state = "running" /\ node.setup.file = f
      BY <2>1, <3>1 DEF Verified, Writes
    <3>2. CASE node.state = "running" /\ node.setup.file # f
      <4>1. node.setup.file \in Files
        BY <3>2, VerifyConstants DEF VerifyTypeOK
      <4>2. cause' = cause /\ disk'[node.setup.file] = disk[node.setup.file]
        BY <2>1, <3>2, <4>1 DEF Writes, VerifyTypeOK
      <4> QED BY <2>1, <4>2 DEF Verified
    <3>3. CASE node.state # "running"
      BY <2>1, <3>3 DEF Verified
    <3> QED BY <3>1, <3>2, <3>3
  <2>2. ASSUME UNCHANGED <<node, loaded, disk, cause>> PROVE Verified'
    BY <2>2 DEF Verified
  <2>3. CASE Download
    BY <2>1, <2>2, <2>3 DEF Download
  <2>4. CASE Downloaded
    BY <2>1, <2>2, <2>4 DEF Downloaded
  <2>5. CASE Load
    BY <2>5 DEF Load, Verified
  <2>6. CASE Stop
    BY <2>6 DEF Stop, Idle, Verified
  <2>7. ASSUME NEW f \in Files, SplitFile(f) \/ Delete(f) PROVE Verified'
    BY <2>1, <2>7 DEF SplitFile, Delete
  <2>8. ASSUME NEW setup \in Setups, NEW skip \in BOOLEAN, Start(setup, skip)
        PROVE  Verified'
    <3> DEFINE due == IF skip \/ manifest = NoManifest THEN None
                      ELSE Expected(manifest, setup.name, setup.file)
               hash == Hash(setup.file, disk[setup.file])
    <3>1. /\ node'.setup = setup /\ node'.due = due /\ node'.read = manifest
          /\ node'.state = IF Accepts(due, hash) THEN "running" ELSE "refused"
          /\ cause' = IF due = None THEN {"unlisted"} ELSE {}
          /\ disk' = disk /\ loaded' = None
      BY <2>8 DEF Start
    <3>2. due # None =>
            manifest \in Manifests /\ due = Expected(manifest, setup.name, setup.file)
      BY DEF VerifyTypeOK
    <3> HIDE DEF due, hash
    <3>3. node'.state = "running" /\ cause' = {} => due = hash
      BY <3>1 DEF Accepts
    <3> QED BY <3>1, <3>2, <3>3 DEF Verified, hash
  <2> QED
    BY <2>2, <2>3, <2>4, <2>5, <2>6, <2>7, <2>8
    DEF VerifyNext, Publish, Pull, verifyVars
<1> QED BY <1>1, <1>2, VerifyTypeCorrect, PTL DEF VerifySpec

(* Whatever the worker loads is what the manifest named when the node        *)
(* started, unless something exempted the file or changed it since: it holds *)
(* for any manifests, files and versions.                                    *)
THEOREM LoadedFileHasCause == VerifySpec => []LoadedHasCause
<1>1. Verified => LoadedHasCause
  BY DEF Verified, LoadedHasCause
<1> QED BY <1>1, VerifiedUntilCause, PTL
-----------------------------------------------------------------------------
(* The search for a hash.                                                     *)

LEMMA LeastNumber ==
  ASSUME NEW S \in SUBSET Nat, S # {}
  PROVE  \E m \in S : \A n \in S : m <= n
<1>1. PICK m \in S : \A n \in S : ~(<<n, m>> \in OpToRel(<, Nat))
  BY NatLessThanWellFounded, WFMin
<1>2. \A n \in S : ~(n < m)
  BY <1>1 DEF OpToRel
<1> QED BY <1>2

\* Of a set of places there is a first.
LEMMA FirstPlace ==
  ASSUME NEW places \in SUBSET (Nat \X Nat), places # {}
  PROVE  FirstOf(places) \in places
<1> DEFINE rows == {p[1] : p \in places}
<1>1. PICK row \in rows : \A r \in rows : row <= r
  <2>1. rows \in SUBSET Nat /\ rows # {}
    OBVIOUS
  <2> HIDE DEF rows
  <2> QED BY <2>1, LeastNumber
<1> DEFINE columns == {p[2] : p \in {q \in places : q[1] = row}}
<1>2. PICK column \in columns : \A c \in columns : column <= c
  <2>1. columns \in SUBSET Nat /\ columns # {}
    BY <1>1
  <2> HIDE DEF columns
  <2> QED BY <2>1, LeastNumber
<1>3. PICK p \in places : p[1] = row /\ p[2] = column
  BY <1>2
<1>4. \A q \in places : InOrder(p, q)
  <2> TAKE q \in places
  <2>1. row <= q[1] /\ row \in Nat /\ q[1] \in Nat
    BY <1>1
  <2>2. q[1] = row => column <= q[2]
    BY <1>2
  <2> QED BY <1>3, <2>1, <2>2 DEF InOrder
<1> QED BY <1>4 DEF FirstOf

LEMMA PlacesAreNumbers ==
  ASSUME NEW m \in Manifests
  PROVE  /\ Places(m) \subseteq Nat \X Nat
         /\ \A p \in Places(m) : HashesAreOwn(Model(m, p))
<1> SUFFICES ASSUME NEW p \in Places(m)
             PROVE  p \in Nat \X Nat /\ HashesAreOwn(Model(m, p))
  OBVIOUS
<1>1. PICK i \in DOMAIN StringOrder : p \in {i} \X DOMAIN Models(m, StringOrder[i])
  BY DEF Places
<1>2. i \in Nat
  BY VerifyAssumption
<1> DEFINE tier == StringOrder[i]
<1>3. tier \in DOMAIN m /\ m[tier] # NoModels /\ Models(m, tier) = m[tier]
  BY <1>1 DEF Models
<1>4. p[1] = i /\ p[2] \in DOMAIN m[tier] /\ p = <<p[1], p[2]>>
  BY <1>1, <1>3
<1>5. p[2] \in Nat /\ HashesAreOwn(m[tier][p[2]])
  BY <1>3, <1>4, VerifyAssumption
<1> QED BY <1>2, <1>3, <1>4, <1>5 DEF Model

\* A stage's hash is that of the stage, and it is found where a model lists one.
LEMMA StageFound ==
  ASSUME NEW m \in Manifests, NEW file
  PROVE  /\ StagesHash(m, file) # None => StagesHash(m, file).of = file
         /\ (\E p \in Places(m) : StageHash(Model(m, p), file) # None)
              => StagesHash(m, file) # None
<1> DEFINE known == {p \in Places(m) : StageHash(Model(m, p), file) # None}
<1>1. CASE known = {}
  BY <1>1 DEF StagesHash
<1>2. CASE known # {}
  <2>1. FirstOf(known) \in known
    BY <1>2, FirstPlace, PlacesAreNumbers
  <2>2. StagesHash(m, file) = StageHash(Model(m, FirstOf(known)), file)
    BY <1>2 DEF StagesHash
  <2>3. StagesHash(m, file).of = file /\ StagesHash(m, file) # None
    BY <2>1, <2>2, PlacesAreNumbers DEF StageHash, HashesAreOwn
  <2> QED BY <2>3
<1> QED BY <1>1, <1>2

\* The hash of a full model is that of the file of a model that matches.
LEMMA FullFound ==
  ASSUME NEW m \in Manifests, NEW name, NEW file, FullHash(m, name, file) # None
  PROVE  \E p \in Places(m) : /\ Matches(Model(m, p), name, file)
                              /\ FullHash(m, name, file).of = Model(m, p).filename
<1> DEFINE known == {p \in Places(m) : /\ Matches(Model(m, p), name, file)
                                      /\ Model(m, p).sha256 # None}
<1>1. known # {}
  BY DEF FullHash
<1>2. FirstOf(known) \in known
  BY <1>1, FirstPlace, PlacesAreNumbers
<1>3. FullHash(m, name, file) = Model(m, FirstOf(known)).sha256
  BY <1>1 DEF FullHash
<1> QED BY <1>2, <1>3, PlacesAreNumbers DEF HashesAreOwn

(* A file listed as a stage is compared with a hash of that stage, and any   *)
(* other one with its own or with that of a model the configured name fits   *)
(* (registry_verify.rs:99), whatever manifests there are and in whatever     *)
(* order their tiers are read: by the two passes of find_model_sha256.       *)
THEOREM HashIsOwn == VerifySpec => []OwnHash
<1>1. Verified => OwnHash
  <2> DEFINE m == node.read
             file == node.setup.file
             name == node.setup.name
             models == {Model(m, p) : p \in Places(m)}
             Fits(model) == Within(name, model.id) \/ Within(model.id, name)
  <2> SUFFICES ASSUME Verified, node.state # "idle", node.due # None, node.due.of # file
               PROVE  /\ \A model \in models : StageHash(model, file) = None
                      /\ \E model \in models : Fits(model) /\ model.filename = node.due.of
    BY DEF OwnHash
  <2>1. m \in Manifests /\ node.due = Expected(m, name, file)
    BY DEF Verified
  <2>2. StagesHash(m, file) = None
    BY <2>1, StageFound DEF Expected
  <2>3. \A model \in models : StageHash(model, file) = None
    BY <2>1, <2>2, StageFound
  <2>4. node.due = FullHash(m, name, file)
    BY <2>1, <2>2 DEF Expected
  <2>5. PICK p \in Places(m) : /\ Matches(Model(m, p), name, file)
                               /\ node.due.of = Model(m, p).filename
    BY <2>1, <2>4, FullFound
  <2>6. Fits(Model(m, p))
    BY <2>5 DEF Matches
  <2> QED BY <2>3, <2>5, <2>6
<1> QED BY <1>1, VerifiedUntilCause, PTL
-----------------------------------------------------------------------------
(* The coordinator's lookup.                                                  *)

\* Of a finite set of numbers there is a greatest: the one with the fewest above.
LEMMA GreatestOfFinite ==
  ASSUME NEW S \in SUBSET Nat, IsFiniteSet(S), S # {}
  PROVE  \E m \in S : \A n \in S : n <= m
<1> DEFINE Above(n) == {k \in S : k > n}
           counts == {Cardinality(Above(n)) : n \in S}
<1>1. \A n \in S : IsFiniteSet(Above(n)) /\ Cardinality(Above(n)) \in Nat
  <2> TAKE n \in S
  <2>1. Above(n) \subseteq S
    OBVIOUS
  <2> HIDE DEF Above
  <2> QED BY <2>1, FS_Subset, FS_CardinalityType
<1>2. counts \in SUBSET Nat /\ counts # {}
  BY <1>1
<1>3. PICK c \in counts : \A d \in counts : c <= d
  <2> HIDE DEF counts
  <2> QED BY <1>2, LeastNumber
<1>4. PICK m \in S : c = Cardinality(Above(m))
  OBVIOUS
<1>5. ASSUME NEW n \in S, n > m PROVE FALSE
  <2>1. Above(n) \subseteq Above(m) /\ n \in Above(m) /\ n \notin Above(n)
    <3>1. n \in Nat /\ m \in Nat
      OBVIOUS
    <3>2. \A k \in S : k > n => k > m
      <4> TAKE k \in S
      <4>1. k \in Nat
        OBVIOUS
      <4> QED BY <1>5, <3>1, <4>1
    <3>3. ~(n > n)
      BY <3>1
    <3>4. Above(n) \subseteq Above(m)
      BY <3>2
    <3>5. n \in Above(m)
      BY <1>5
    <3>6. n \notin Above(n)
      BY <3>3
    <3> QED BY <3>4, <3>5, <3>6
  <2>2. Cardinality(Above(m)) <= Cardinality(Above(n))
    BY <1>3, <1>4
  <2> HIDE DEF Above
  <2>3. Cardinality(Above(n)) <= Cardinality(Above(m)) /\
        (Cardinality(Above(n)) = Cardinality(Above(m)) => Above(n) = Above(m))
    BY <1>1, <2>1, FS_Subset
  <2> QED BY <1>1, <2>1, <2>2, <2>3
<1> QED BY <1>5

LEMMA LookupIsHighest ==
  ASSUME NEW m \in Manifests, NEW tier \in DOMAIN m, NEW i \in 1 .. Len(Models(m, tier))
  PROVE  \/ Found(m, m[tier][i].id) = None
         \/ Found(m, m[tier][i].id) >= tier
<1> DEFINE id == m[tier][i].id
           Has(t) == \E j \in DOMAIN m[t] : id \in {m[t][j].id, m[t][j].alternate_id}
           stops == {t \in DOMAIN m : m[t] = NoModels \/ Has(t)}
           last_ == CHOOSE t \in stops : \A u \in stops : TierKey(u) <= TierKey(t)
<1>1. CASE m[tier] = NoModels
  <2>1. Models(m, tier) = <<>>
    BY <1>1 DEF Models
  <2> QED BY <2>1
<1>2. CASE m[tier] # NoModels
  <2>1. i \in DOMAIN m[tier]
    BY <1>2, VerifyAssumption DEF Models
  <2>2. tier \in stops
    BY <2>1
  <2>3. stops \in SUBSET Nat /\ IsFiniteSet(stops)
    <3>1. stops \subseteq DOMAIN m
      OBVIOUS
    <3> HIDE DEF stops
    <3> QED BY <3>1, VerifyAssumption, FS_Subset
  <2>4. last_ \in stops /\ \A u \in stops : u <= last_
    <3> HIDE DEF stops
    <3>1. \E t \in stops : \A u \in stops : u <= t
      BY <2>2, <2>3, GreatestOfFinite
    <3> QED BY <3>1 DEF TierKey
  <2>5. Found(m, id) = IF m[last_] = NoModels THEN None ELSE last_
    BY <2>2 DEF Found
  <2> HIDE DEF last_, stops
  <2> QED BY <2>2, <2>3, <2>4, <2>5
<1> QED BY <1>1, <1>2

(* Of the tiers that list a model the lookup returns the highest by number,  *)
(* for any number of tiers: or nothing, where a tier without models is above.*)
THEOREM HighestIsFound == VerifySpec => []FoundInHighest
<1>1. VerifyTypeOK => FoundInHighest
  BY LookupIsHighest DEF VerifyTypeOK, FoundInHighest
<1> QED BY <1>1, VerifyTypeCorrect, PTL
-----------------------------------------------------------------------------
(* The watchdog of the guard.                                                 *)

\* What the last tick measured and no reading has been charged with yet.
Pending == IF pc \in {"ram", "cpu"} THEN elapsed ELSE 0

\* The types that the accounts need; TypeOK's bounds follow with the waits below.
Counts ==
  /\ pc \in {"top", "run", "ram", "cpu", "done"}
  /\ now \in Nat /\ since \in Nat /\ slept \in Nat /\ elapsed \in Nat
  /\ used \in Nat /\ last \in Nat /\ last <= used
  /\ mem \in [Procs -> 0 .. MaxRam] /\ over \in [Procs -> Nat]

\* How long each wait of the loop may be.
Waits ==
  /\ elapsed <= Poll + 2 * MaxLate
  /\ IF pc = "run" THEN slept <= Poll + MaxLate /\ since <= MaxLate + slept
     ELSE pc # "done" => since <= MaxLate

\* Readings are paid for by the ticks they are charged to, and what has been used since
\* the last reading fits in the time since the tick before it.
Account ==
  pc # "done" =>
    /\ since + Pending <= now
    /\ 100 * last <= Threshold * (now - (since + Pending))
    /\ used < last + Quantum + Capacity * (since + Pending)

\* A worker has been over its limit since the last reading of its memory at most.
MemoryAccount ==
  pc # "done" =>
    /\ over["worker"] <= since + (IF pc = "ram" THEN elapsed ELSE 0)
    /\ mem["worker"] <= RamMax => over["worker"] = 0

WatchdogInv == Counts /\ Waits /\ Account /\ MemoryAccount

LEMMA Constants ==
  /\ Capacity \in Nat \ {0} /\ Threshold \in Nat
  /\ NumCpus \in Nat /\ Poll \in Nat \ {0} /\ MaxLate \in Nat /\ Quantum \in Nat \ {0}
  /\ RamMax \in Nat /\ MaxRam \in Nat /\ Quota \in Nat
<1> USE WatchdogAssumption
<1>1. Capacity \in Nat \ {0}
  BY DEF Capacity
<1>2. Threshold \in Nat
  BY <1>1 DEF Threshold
<1>3. Quota \in Nat
  BY DEF Quota
<1> QED BY <1>1, <1>2, <1>3

\* A product with a larger factor is larger, and a sum is taken apart.
LEMMA Products ==
  ASSUME NEW k \in Nat, NEW m \in Nat, NEW n \in Nat
  PROVE  /\ k * (m + n) = k * m + k * n /\ k * m \in Nat /\ k * (m + 1) = k * m + k
         /\ m <= n => k * m <= k * n /\ k * (n - m) = k * n - k * m
OBVIOUS

\* A reading is a number, and less than a Quantum behind.
LEMMA ReadingClose ==
  ASSUME used \in Nat
  PROVE  CpuTime \in Nat /\ CpuTime <= used /\ used < CpuTime + Quantum
<1>1. used % Quantum \in 0 .. Quantum - 1
  BY Constants
<1>2. used % Quantum <= used
  BY Constants
<1> QED BY <1>1, <1>2, Constants DEF CpuTime

LEMMA WatchdogInit == Init => WatchdogInv
<1> SUFFICES ASSUME Init PROVE WatchdogInv OBVIOUS
<1>1. Counts /\ Waits
  BY Constants DEF Init, Counts, Waits
<1>2. Account
  <2>1. Capacity * 0 = 0 /\ Threshold * 0 = 0
    BY Constants
  <2> QED BY <2>1, Constants DEF Init, Account, Pending
<1>3. MemoryAccount
  BY DEF Init, MemoryAccount, Procs
<1> QED BY <1>1, <1>2, <1>3 DEF WatchdogInv
-----------------------------------------------------------------------------
\* Time passes: the waits grow within their bounds, and so does what can have been used.
LEMMA ElapseStep ==
  ASSUME WatchdogInv, NEW u \in 0 .. Capacity, Elapse(u)
  PROVE  WatchdogInv'
<1>1. Counts'
  BY Constants DEF WatchdogInv, Counts, Elapse, Over
<1>2. Waits'
  BY Constants DEF WatchdogInv, Counts, Waits, Elapse
<1>3. Account'
  <2>1. Pending' = Pending /\ Pending \in Nat /\ since \in Nat /\ now \in Nat /\ pc # "done"
    BY DEF WatchdogInv, Counts, Elapse, Pending
  <2>2. Capacity * ((since + 1) + Pending) = Capacity * (since + Pending) + Capacity
    <3>1. since + Pending \in Nat /\ (since + 1) + Pending = (since + Pending) + 1
      BY <2>1
    <3> QED BY <3>1, Products, Constants
  <2>3. (now + 1) - ((since + 1) + Pending) = now - (since + Pending)
    BY <2>1
  <2> QED BY <2>1, <2>2, <2>3, Constants, Products DEF WatchdogInv, Counts, Account, Elapse
<1>4. MemoryAccount'
  BY Constants DEF WatchdogInv, Counts, MemoryAccount, Elapse, Over, Procs
<1> QED BY <1>1, <1>2, <1>3, <1>4 DEF WatchdogInv

\* A tick moves the time it measured to the account of the readings to come.
LEMMA WakeStep == WatchdogInv /\ Wake => WatchdogInv'
<1> SUFFICES ASSUME WatchdogInv, Wake PROVE WatchdogInv' OBVIOUS
<1>1. Counts'
  BY DEF WatchdogInv, Counts, Wake, history
<1>2. Waits'
  BY Constants DEF WatchdogInv, Counts, Waits, Wake
<1>3. Account'
  <2>1. since' + Pending' = since + Pending
    BY DEF WatchdogInv, Counts, Wake, Pending
  <2> QED BY <2>1 DEF WatchdogInv, Account, Wake
<1>4. MemoryAccount'
  BY DEF WatchdogInv, Counts, MemoryAccount, Wake, history
<1> QED BY <1>1, <1>2, <1>3, <1>4 DEF WatchdogInv

\* A reading of the memory that passes finds the worker within its limit.
LEMMA RamStep == WatchdogInv /\ SampleRam => WatchdogInv'
<1> SUFFICES ASSUME WatchdogInv, SampleRam PROVE WatchdogInv' OBVIOUS
<1>1. Counts'
  BY Constants DEF WatchdogInv, Counts, SampleRam, Kill, Ends, clock, history, Procs
<1>2. CASE pc' = "done"
  BY <1>1, <1>2 DEF WatchdogInv, Waits, Account, MemoryAccount, SampleRam, clock
<1>3. CASE pc' # "done"
  <2>1. pc = "ram" /\ pc' = "cpu" /\ ~(Memory > RamMax) /\ UNCHANGED <<mem, over, clock, elapsed, last, used>>
    BY <1>3 DEF SampleRam, Kill, Ends, history
  <2>2. mem["worker"] <= RamMax
    BY <2>1, Constants DEF WatchdogInv, Counts, Memory, Tree, Procs
  <2>3. Waits' /\ Account'
    BY <2>1 DEF WatchdogInv, Waits, Account, Pending, clock
  <2>4. MemoryAccount'
    BY <2>1, <2>2 DEF WatchdogInv, Counts, MemoryAccount, clock
  <2> QED BY <1>1, <2>3, <2>4 DEF WatchdogInv
<1> QED BY <1>2, <1>3

\* A reading of the CPU time that passes is paid for by the tick.
LEMMA CpuStep == WatchdogInv /\ SampleCpu => WatchdogInv'
<1> SUFFICES ASSUME WatchdogInv, SampleCpu PROVE WatchdogInv' OBVIOUS
<1>1. Counts'
  <2>1. mem' \in [Procs -> 0 .. MaxRam] /\ pc' \in {"done", "top"}
    BY Constants DEF WatchdogInv, Counts, SampleCpu, Kill, Ends, Procs
  <2>2. UNCHANGED <<now, since, slept, elapsed, used, over>> /\ last' = CpuTime
    BY DEF SampleCpu, clock, history
  <2> QED BY <2>1, <2>2, ReadingClose DEF WatchdogInv, Counts
<1>2. CASE pc' = "done"
  BY <1>1, <1>2 DEF WatchdogInv, Waits, Account, MemoryAccount, SampleCpu, clock
<1>3. CASE pc' # "done"
  <2>1. /\ pc = "cpu" /\ pc' = "top" /\ last' = CpuTime
        /\ ~(100 * (CpuTime - last) > Threshold * elapsed)
        /\ UNCHANGED <<mem, over, clock, elapsed, used>>
    BY <1>3 DEF SampleCpu, Kill, Ends, history
  <2>2. Waits' /\ MemoryAccount'
    BY <2>1 DEF WatchdogInv, Waits, MemoryAccount, clock
  <2>3. Account'
    <3>1. Pending = elapsed /\ Pending' = 0
      BY <2>1 DEF Pending
    <3>2. 100 * (CpuTime - last) <= Threshold * elapsed
      BY <2>1, Constants, ReadingClose DEF WatchdogInv, Counts
    <3>3. PICK spare \in Nat : now = (since + elapsed) + spare
      <4>1. now - (since + elapsed) \in Nat
        BY <2>1, <3>1 DEF WatchdogInv, Counts, Account
      <4> QED BY <4>1 DEF WatchdogInv, Counts
    <3>4. 100 * last <= Threshold * spare
      <4>1. now - (since + elapsed) = spare
        BY <3>3 DEF WatchdogInv, Counts
      <4> QED BY <2>1, <3>1, <4>1 DEF WatchdogInv, Account
    <3>5. now - (since + 0) = spare + elapsed /\ since + 0 <= now /\ since + 0 = since
      BY <3>3 DEF WatchdogInv, Counts
    <3>6. Threshold * (spare + elapsed) = Threshold * spare + Threshold * elapsed
      BY <3>3, Products, Constants DEF WatchdogInv, Counts
    <3>7. 100 * CpuTime <= Threshold * (spare + elapsed)
      <4>1. Threshold * spare \in Nat /\ Threshold * elapsed \in Nat
        BY <3>3, Products, Constants DEF WatchdogInv, Counts
      <4> QED BY <3>2, <3>4, <3>6, <4>1, ReadingClose DEF WatchdogInv, Counts
    <3>8. used < CpuTime + Quantum + Capacity * since
      <4>1. Capacity * since \in Nat
        BY Products, Constants DEF WatchdogInv, Counts
      <4> QED BY <4>1, ReadingClose, Constants DEF WatchdogInv, Counts
    <3> QED BY <2>1, <3>1, <3>5, <3>7, <3>8 DEF Account, clock
  <2> QED BY <1>1, <2>2, <2>3 DEF WatchdogInv
<1> QED BY <1>2, <1>3

\* The steps that neither time nor a reading is part of.
LEMMA QuietSteps ==
  WatchdogInv /\ (Allocate \/ WorkerExits \/ Top \/ SampleFails \/ UNCHANGED vars) => WatchdogInv'
<1> SUFFICES ASSUME WatchdogInv,
                    Allocate \/ WorkerExits \/ Top \/ SampleFails \/ UNCHANGED vars
             PROVE  WatchdogInv'
  OBVIOUS
<1>1. CASE Allocate \/ WorkerExits
  <2>1. /\ UNCHANGED <<pc, clock, elapsed, last, used>>
        /\ mem' \in [Procs -> 0 .. MaxRam] /\ over' = Over(mem', 0)
    BY <1>1, Constants DEF WatchdogInv, Counts, Allocate, WorkerExits
  <2>2. over' \in [Procs -> Nat] /\ over'["worker"] <= over["worker"]
        /\ (mem'["worker"] <= RamMax => over'["worker"] = 0)
    BY <2>1, Constants DEF WatchdogInv, Counts, Over, Procs
  <2> QED
    BY <2>1, <2>2 DEF WatchdogInv, Counts, Waits, Account, MemoryAccount, Pending, clock, Procs
<1>2. CASE Top
  <2>1. Counts' /\ Waits'
    BY <1>2, Constants DEF WatchdogInv, Counts, Waits, Top, Ends, history
  <2>2. Account'
    BY <1>2 DEF WatchdogInv, Account, Pending, Top, Ends, history
  <2>3. MemoryAccount'
    BY <1>2 DEF WatchdogInv, MemoryAccount, Top, Ends, history
  <2> QED BY <2>1, <2>2, <2>3 DEF WatchdogInv
<1>3. CASE SampleFails
  BY <1>3, Constants
  DEF WatchdogInv, Counts, Waits, Account, MemoryAccount, SampleFails, Ends, clock, history
<1>4. CASE UNCHANGED vars
  BY <1>4 DEF WatchdogInv, Counts, Waits, Account, MemoryAccount, Pending, vars, clock, history
<1> QED BY <1>1, <1>2, <1>3, <1>4
-----------------------------------------------------------------------------
\* The accounts are an invariant of the watchdog.
THEOREM WatchdogInvariant == Spec => []WatchdogInv
<1>1. WatchdogInv /\ [Next]_vars => WatchdogInv'
  BY ElapseStep, WakeStep, RamStep, CpuStep, QuietSteps DEF Next
<1> QED BY WatchdogInit, <1>1, PTL DEF Spec

\* The CPU budget (monitor.rs:33-70) is kept for all constants: what the sampler counts
\* stays within limit and grace, but for one loop at full speed and one rounding.
THEOREM BudgetAlwaysKept == Spec => []BudgetKept
<1>1. WatchdogInv => BudgetKept
  <2> SUFFICES ASSUME WatchdogInv, pc # "done"
               PROVE  100 * used <= Threshold * now
                                      + 100 * (Capacity * (Poll + 3 * MaxLate) + Quantum)
    BY DEF BudgetKept
  <2> DEFINE t == since + Pending
  <2>1. t \in Nat /\ now \in Nat /\ t <= now /\ used \in Nat /\ last \in Nat /\ Pending \in Nat
    BY DEF WatchdogInv, Counts, Account, Pending
  <2>2. t <= Poll + 3 * MaxLate /\ Poll + 3 * MaxLate \in Nat
    BY Constants DEF WatchdogInv, Counts, Waits, Pending
  <2>3. 100 * last <= Threshold * (now - t) /\ used < last + Quantum + Capacity * t
    BY DEF WatchdogInv, Account
  <2> HIDE DEF t
  <2>4. Capacity * t \in Nat /\ Capacity * t <= Capacity * (Poll + 3 * MaxLate)
        /\ Capacity * (Poll + 3 * MaxLate) \in Nat
    BY <2>1, <2>2, Products, Constants
  <2>5. Threshold * (now - t) <= Threshold * now
        /\ Threshold * now \in Nat /\ Threshold * (now - t) \in Nat
    <3>1. now - t \in Nat /\ now - t <= now
      BY <2>1
    <3> QED BY <2>1, <3>1, Products, Constants
  <2> QED BY <2>1, <2>3, <2>4, <2>5, Constants
<1> QED BY WatchdogInvariant, <1>1, PTL

\* A worker over its memory limit (monitor.rs:40-50) is found within one loop.
THEOREM OverRamIsKilled == Spec => []OverRamKilled
<1>1. WatchdogInv => OverRamKilled
  BY Constants DEF WatchdogInv, Counts, Waits, MemoryAccount, OverRamKilled, Procs
<1> QED BY WatchdogInvariant, <1>1, PTL
-----------------------------------------------------------------------------
\* What TypeOK bounds and the accounts do not need.
Ranges ==
  /\ kernel \in Kernels /\ alive \in BOOLEAN /\ greedy \in BOOLEAN
  /\ outcome \in {"none", "exited", "ram", "cpu", "error"}
  /\ now <= Horizon /\ slept <= Poll + MaxLate /\ since <= Poll + 2 * MaxLate
  /\ left \in 0 .. Quota
  /\ \A p \in Procs : over[p] <= now

LEMMA RangesInit == Init => Ranges
<1> SUFFICES ASSUME Init PROVE Ranges OBVIOUS
<1>1. alive \in BOOLEAN /\ greedy \in BOOLEAN
  BY Zenon DEF Init
<1>2. now <= Horizon /\ slept <= Poll + MaxLate /\ since <= Poll + 2 * MaxLate
  BY Constants, WatchdogAssumption DEF Init
<1>3. left \in 0 .. Quota /\ \A p \in Procs : over[p] <= now
  BY Constants DEF Init
<1> QED BY <1>1, <1>2, <1>3 DEF Init, Ranges

\* Memory that is looked at again has not been over the limit for longer.
LEMMA OverBounded ==
  ASSUME WatchdogInv, Ranges, NEW m, NEW d \in {0, 1}, over' = Over(m, d), now' = now + d
  PROVE  \A p \in Procs : over'[p] <= now'
  BY DEF WatchdogInv, Counts, Ranges, Over

LEMMA RangesStep == WatchdogInv /\ Ranges /\ [Next]_vars => Ranges'
<1> SUFFICES ASSUME WatchdogInv, Ranges, [Next]_vars PROVE Ranges' OBVIOUS
<1>1. ASSUME NEW u \in 0 .. Capacity, Elapse(u), UNCHANGED kernel PROVE Ranges'
  <2>1. now' <= Horizon /\ slept' <= Poll + MaxLate /\ since' <= Poll + 2 * MaxLate
    BY <1>1, Constants, WatchdogAssumption DEF WatchdogInv, Counts, Waits, Ranges, Elapse
  <2>2. left' \in 0 .. Quota
    BY <1>1, Constants DEF Ranges, Elapse, Granted
  <2>3. \A p \in Procs : over'[p] <= now'
    BY <1>1, OverBounded DEF Elapse
  <2>4. greedy' \in BOOLEAN /\ UNCHANGED <<alive, outcome>>
    BY <1>1 DEF Ranges, Elapse
  <2> QED BY <1>1, <2>1, <2>2, <2>3, <2>4 DEF Ranges
<1>2. CASE (Allocate \/ WorkerExits) /\ UNCHANGED kernel
  <2>1. UNCHANGED <<clock, left, outcome, greedy>> /\ alive' \in BOOLEAN
    BY <1>2 DEF Allocate, WorkerExits, Ranges
  <2>2. over' = Over(mem', 0) /\ now' = now + 0
    BY <1>2, <2>1 DEF Allocate, WorkerExits, clock, WatchdogInv, Counts
  <2>3. \A p \in Procs : over'[p] <= now'
    BY <2>2, OverBounded
  <2> QED BY <1>2, <2>1, <2>3 DEF Ranges, clock
<1>3. CASE Top /\ UNCHANGED kernel
  BY <1>3, Constants DEF Ranges, Top, Ends, history
<1>4. CASE (Wake \/ SampleRam \/ SampleCpu \/ SampleFails) /\ UNCHANGED kernel
  <2>1. UNCHANGED <<now, slept, left, history>> /\ since' \in {0, since}
    BY <1>4 DEF Wake, SampleRam, SampleCpu, SampleFails, clock
  <2>2. alive' \in BOOLEAN /\ outcome' \in {"none", "exited", "ram", "cpu", "error"}
    BY <1>4 DEF Ranges, Wake, SampleRam, SampleCpu, SampleFails, Kill, Ends
  <2> QED BY <1>4, <2>1, <2>2, Constants DEF Ranges, history
<1>5. CASE UNCHANGED vars
  BY <1>5 DEF Ranges, vars, clock, history
<1> QED BY <1>1, <1>2, <1>3, <1>4, <1>5 DEF Next

\* Every variable keeps its type, and no clock or wait of the loop (monitor.rs:33-38)
\* leaves its range, for all limits, intervals and kernels.
THEOREM WatchdogTypeCorrect == Spec => []TypeOK
<1>1. WatchdogInv /\ Ranges => TypeOK
  <2> SUFFICES ASSUME WatchdogInv, Ranges PROVE TypeOK OBVIOUS
  <2>1. over \in [Procs -> 0 .. Horizon]
    BY WatchdogAssumption DEF WatchdogInv, Counts, Ranges
  <2> QED BY <2>1, Constants, WatchdogAssumption DEF WatchdogInv, Counts, Waits, Ranges, TypeOK
<1> QED BY WatchdogInvariant, RangesInit, RangesStep, <1>1, PTL DEF Spec
-----------------------------------------------------------------------------
\* With a cgroup the memory of all processes is within RamMax, and what has been used
\* since the last reading, with what is left of the period's quota, is within the quota
\* of the time since the tick before that reading and of one period.
KernelAccount ==
  Cgroup =>
    /\ Tree(mem) <= RamMax /\ left \in 0 .. Quota /\ outcome \notin {"ram", "cpu"}
    /\ pc = "run" => slept <= since
    /\ pc \in {"ram", "cpu"} => Poll <= elapsed
    /\ pc # "done" => used + left < last + Quantum + Quota * (since + Pending) + Quota

\* What the kernel grants fits in what the watchdog allows, for the shortest loop and
\* the latest reading: a period's quota in hand, the lateness of a reading and a
\* rounding fit in what Threshold leaves of a sleep beside the quota.
SlackCovers == 100 * (Quota * (MaxLate + 1) + Quantum - 1) <= (Threshold - 100 * Quota) * Poll

\* The quota, a share of one CPU, is never more than the threshold, a share of all.
LEMMA QuotaBelowThreshold == 100 * Quota <= Threshold
<1> USE WatchdogAssumption
<1>1. 100 * Quota <= Grain * CpuPercent
  <2>1. Grain * CpuPercent \in Nat
    OBVIOUS
  <2> QED BY <2>1 DEF Quota
<1>2. Grain * CpuPercent <= (CpuPercent + 2) * Capacity
  <2>1. Grain \in Nat /\ CpuPercent \in Nat /\ Capacity \in Nat /\ NumCpus \in Nat
    BY Constants
  <2>2. Grain * 1 <= Grain * NumCpus
    BY <2>1, Products
  <2>3. Grain <= Capacity
    BY <2>1, <2>2 DEF Capacity
  <2>4. CpuPercent * Grain <= CpuPercent * Capacity
    BY <2>1, <2>3, Products
  <2>5. (CpuPercent + 2) * Capacity = CpuPercent * Capacity + 2 * Capacity
    BY <2>1
  <2>6. CpuPercent * Capacity \in Nat /\ 2 * Capacity \in Nat /\ CpuPercent * Grain = Grain * CpuPercent
    BY <2>1
  <2> QED BY <2>1, <2>4, <2>5, <2>6
<1> QED BY <1>1, <1>2, Constants DEF Threshold

\* Under the kernel's limits no reading of the CPU time is over the threshold.
LEMMA ReadingWithinThreshold ==
  ASSUME WatchdogInv, KernelAccount, Cgroup, pc = "cpu", SlackCovers
  PROVE  100 * (CpuTime - last) <= Threshold * elapsed
<1> DEFINE spare == Threshold - 100 * Quota
<1>1. /\ since \in Nat /\ since <= MaxLate /\ elapsed \in Nat /\ Poll <= elapsed
      /\ used \in Nat /\ last \in Nat /\ left \in Nat
      /\ used + left < last + Quantum + Quota * (since + elapsed) + Quota
  BY Constants DEF WatchdogInv, Counts, Waits, KernelAccount, Pending
<1>2. spare \in Nat /\ Threshold = spare + 100 * Quota /\ Quota \in Nat
  BY Constants, QuotaBelowThreshold
<1>3. 100 * (Quota * (MaxLate + 1) + Quantum - 1) <= spare * Poll
  BY DEF SlackCovers
<1> HIDE DEF spare
<1>4. spare * Poll <= spare * elapsed /\ spare * Poll \in Nat /\ spare * elapsed \in Nat
  BY <1>1, <1>2, Products, Constants
<1>5. Quota * (since + elapsed) = Quota * since + Quota * elapsed
  BY <1>1, <1>2, Products
<1>6. Quota * since <= Quota * MaxLate /\ Quota * (MaxLate + 1) = Quota * MaxLate + Quota
  BY <1>1, <1>2, Products, Constants
<1>7. Quota * since \in Nat /\ Quota * elapsed \in Nat /\ Quota * MaxLate \in Nat
  BY <1>1, <1>2, Products, Constants
<1>8. Threshold * elapsed = spare * elapsed + 100 * (Quota * elapsed)
  BY <1>1, <1>2
<1>9. CpuTime \in Nat /\ CpuTime <= used
  BY <1>1, ReadingClose
<1> QED BY <1>1, <1>2, <1>3, <1>4, <1>5, <1>6, <1>7, <1>8, <1>9, Constants

LEMMA KernelAccountInit == Init => KernelAccount
<1> SUFFICES ASSUME Init PROVE KernelAccount OBVIOUS
<1>1. Quota * 0 = 0 /\ Tree(mem) = 0
  BY Constants DEF Init, Tree, Procs
<1> QED BY <1>1, Constants DEF Init, KernelAccount, Pending

LEMMA KernelAccountStep ==
  ASSUME SlackCovers, WatchdogInv, KernelAccount, [Next]_vars
  PROVE  KernelAccount'
<1> SUFFICES ASSUME Cgroup' PROVE KernelAccount'
  BY DEF KernelAccount
<1>1. Cgroup /\ UNCHANGED kernel
  BY DEF Next, vars, Cgroup
<1>2. ASSUME NEW u \in 0 .. Capacity, Elapse(u) PROVE KernelAccount'
  <2>1. PICK b \in 0 .. Quota : u - b \in 0 .. left /\ left' = Quota - b
    BY <1>1, <1>2 DEF Elapse, Granted
  <2>2. Pending' = Pending /\ Pending \in Nat /\ since \in Nat /\ since' = since + 1 /\ pc # "done"
    BY <1>2 DEF WatchdogInv, Counts, Elapse, Pending
  <2>3. Quota * ((since + 1) + Pending) = Quota * (since + Pending) + Quota
    <3>1. since + Pending \in Nat /\ (since + 1) + Pending = (since + Pending) + 1
      BY <2>2
    <3> QED BY <3>1, Products, Constants
  <2>4. Quota * (since + Pending) \in Nat
    BY <2>2, Products, Constants
  <2>5. used' + left' <= used + left + Quota
    <3>1. used \in Nat /\ left \in Nat /\ Quota \in Nat /\ used' = used + u /\ u \in Nat /\ b \in Nat
      BY <1>1, <1>2, Constants DEF WatchdogInv, Counts, KernelAccount, Elapse
    <3> QED BY <2>1, <3>1
  <2>6. used' + left' < last' + Quantum + Quota * (since' + Pending') + Quota
    BY <1>1, <1>2, <2>1, <2>2, <2>3, <2>4, <2>5, Constants
    DEF WatchdogInv, Counts, KernelAccount, Elapse
  <2>7. left' \in 0 .. Quota
    BY <2>1, Constants
  <2> QED BY <1>1, <1>2, <2>6, <2>7 DEF WatchdogInv, Counts, KernelAccount, Elapse, Tree
<1>3. CASE Allocate
  <2>1. Tree(mem') <= RamMax
    BY <1>1, <1>3 DEF Allocate, Holdable
  <2> QED BY <1>1, <1>3, <2>1 DEF KernelAccount, Allocate, Pending, clock, Tree
<1>4. CASE WorkerExits
  <2>1. Tree(mem') <= Tree(mem) /\ Tree(mem) \in Nat /\ Tree(mem') \in Nat
    BY <1>4, Constants DEF WatchdogInv, Counts, WorkerExits, Tree, Procs
  <2> QED BY <1>1, <1>4, <2>1, Constants DEF KernelAccount, WorkerExits, Pending, clock, Tree
<1>5. CASE Top
  BY <1>1, <1>5, Constants
  DEF WatchdogInv, Counts, KernelAccount, Top, Ends, Pending, history, Tree
<1>6. CASE Wake
  <2>1. since' + Pending' = since + Pending
    BY <1>6 DEF WatchdogInv, Counts, Wake, Pending
  <2>2. Poll <= elapsed'
    BY <1>1, <1>6, Constants DEF WatchdogInv, Counts, KernelAccount, Wake
  <2> QED BY <1>1, <1>6, <2>1, <2>2 DEF KernelAccount, Wake, Tree
<1>7. CASE SampleRam
  <2>1. ~(Memory > RamMax)
    <3>1. Memory = Tree(mem) /\ Tree(mem) \in Int
      BY <1>1, Constants DEF Memory, WatchdogInv, Counts, Tree, Procs
    <3> QED BY <1>1, <3>1, Constants DEF KernelAccount
  <2> QED BY <1>1, <1>7, <2>1 DEF KernelAccount, SampleRam, Pending, clock, Tree
<1>8. CASE SampleCpu
  <2>1. 100 * (CpuTime - last) <= Threshold * elapsed
    BY <1>1, <1>8, ReadingWithinThreshold DEF SampleCpu
  <2>2. ~(100 * (CpuTime - last) > Threshold * elapsed)
    BY <2>1, Constants, ReadingClose DEF WatchdogInv, Counts
  <2>3. pc' = "top" /\ last' = CpuTime /\ UNCHANGED <<mem, outcome, since, used, left>>
    BY <1>8, <2>2 DEF SampleCpu, clock
  <2>4. used' + left' < last' + Quantum + Quota * (since' + Pending') + Quota
    <3>1. Pending' = 0 /\ since + 0 = since /\ Quota * since \in Nat
      BY <2>3, Products, Constants DEF Pending, WatchdogInv, Counts
    <3> QED BY <1>1, <2>3, <3>1, ReadingClose, Constants DEF WatchdogInv, Counts, KernelAccount
  <2> QED BY <1>1, <2>3, <2>4 DEF KernelAccount, Tree
<1>9. CASE SampleFails
  <2>1. Tree(mem') <= RamMax
    BY <1>1, <1>9, Constants DEF SampleFails, Tree, Procs
  <2> QED BY <1>1, <1>9, <2>1 DEF KernelAccount, SampleFails, Ends, clock, Tree
<1>10. CASE UNCHANGED vars
  BY <1>1, <1>10 DEF KernelAccount, vars, clock, Pending, Tree
<1> QED BY <1>2, <1>3, <1>4, <1>5, <1>6, <1>7, <1>8, <1>9, <1>10 DEF Next

\* Under a cgroup the watchdog never kills (linux.rs: memory.max, cpu.max): wherever the
\* lateness of the readings fits in the slack between the kernel's quota, a share of one
\* CPU, and the watchdog's threshold, a share of all.
THEOREM KernelComesFirst ==
  ASSUME SlackCovers
  PROVE  Spec => []KernelFirst
<1>1. KernelAccount => KernelFirst
  BY DEF KernelAccount, KernelFirst
<1>2. WatchdogInv /\ KernelAccount /\ [Next]_vars => KernelAccount'
  BY KernelAccountStep
<1> QED BY WatchdogInvariant, KernelAccountInit, <1>1, <1>2, PTL DEF Spec
=============================================================================
