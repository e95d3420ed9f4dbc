----------------------------- MODULE ModelVerify -----------------------------
(***************************************************************************)
(* The model file of a node and the manifest of models: the scripts that   *)
(* put files on disk, the check of `youai-node start` against the manifest *)
(* (youai-node/src/registry_verify.rs), the worker that loads the file     *)
(* again and again afterwards, and the coordinator's lookup of a model     *)
(* (find_model_in_manifest).                                               *)
(*                                                                         *)
(* A manifest is a function from the tiers (numbers) to sequences of       *)
(* models, or NoModels where a tier has no such key.  A name is a sequence *)
(* of parts.  A file's content is a version, Part of one, or Absent;   *)
(* its hash is the file and the version.                                   *)
(***************************************************************************)
EXTENDS Integers, Sequences, FiniteSets

CONSTANTS
  Manifests,    \* the manifests a node may find in its directory
  StringOrder,  \* the tiers as a BTreeMap orders "tier0", "tier1", ...
  Full,         \* the name of the model file that is downloaded
  Derived,      \* the names of the files that are split off it
  Setups,       \* the model name and the file of a configuration
  MaxVersion,   \* how many versions the model has (a bound)
  Absent, Part, NoManifest, NoModels, None

VARIABLES
  disk,      \* the content of each file
  hub,       \* the version the download gives
  script,    \* download-model.sh
  manifest,  \* the manifest in the node's directory
  node,      \* the start command: its state, its setup, what it read and compared
  loaded,    \* what the worker loaded last
  cause      \* why an unverified file may be loaded (history)

verifyVars == <<disk, hub, script, manifest, node, loaded, cause>>

Files == {Full} \cup Derived
Versions == 1 .. MaxVersion
Hash(file, content) == [of |-> file, content |-> content]
Idle == [state |-> "idle", setup |-> None, seen |-> None,
         due |-> None, read |-> NoManifest]

\* A hash is that of the file it stands beside.
HashesAreOwn(model) ==
  /\ model.sha256 # None => model.sha256.of = model.filename
  /\ \A f \in DOMAIN model.stages : model.stages[f] # None => model.stages[f].of = f

ASSUME VerifyAssumption ==
  /\ MaxVersion \in Nat \ {0}
  /\ \A setup \in Setups : setup.file \in Files
  /\ StringOrder \in Seq(Nat)
  /\ NoManifest \notin Manifests
  /\ \A m \in Manifests :
       /\ DOMAIN m \subseteq Nat /\ IsFiniteSet(DOMAIN m)
       /\ \A tier \in DOMAIN m : m[tier] # NoModels =>
            /\ DOMAIN m[tier] = 1 .. Len(m[tier]) /\ Len(m[tier]) \in Nat
            /\ \A i \in DOMAIN m[tier] : HashesAreOwn(m[tier][i])

VerifyInit ==
  /\ disk = [f \in Files |-> Absent] /\ hub = 1 /\ script = "idle"
  /\ manifest \in Manifests
  /\ node = Idle /\ loaded = None /\ cause = {}
-----------------------------------------------------------------------------
(* find_model_sha256. *)

\* str::contains, by parts; - and _ both separate parts.
Within(s, t) == \E i \in 0 .. Len(t) - Len(s) : SubSeq(t, i + 1, i + Len(s)) = s

\* The models in the order of the file: places are pairs of tier and model.
Models(m, tier) == IF tier \in DOMAIN m /\ m[tier] # NoModels THEN m[tier] ELSE <<>>
Places(m) ==
  UNION {{i} \X DOMAIN Models(m, StringOrder[i]) : i \in DOMAIN StringOrder}
Model(m, place) == Models(m, StringOrder[place[1]])[place[2]]
InOrder(p, q) == p[1] < q[1] \/ (p[1] = q[1] /\ p[2] <= q[2])
FirstOf(places) == CHOOSE p \in places : \A q \in places : InOrder(p, q)

StageHash(model, file) ==
  IF file \in DOMAIN model.stages THEN model.stages[file] ELSE None
Matches(model, name, file) ==
  \/ Within(name, model.id) \/ Within(model.id, name) \/ model.filename = file

StagesHash(m, file) ==
  LET known == {p \in Places(m) : StageHash(Model(m, p), file) # None}
  IN  IF known = {} THEN None ELSE StageHash(Model(m, FirstOf(known)), file)
FullHash(m, name, file) ==
  LET known == {p \in Places(m) : /\ Matches(Model(m, p), name, file)
                                  /\ Model(m, p).sha256 # None}
  IN  IF known = {} THEN None ELSE Model(m, FirstOf(known)).sha256

\* Mistake: the fuzzy match of the full model comes first, as it once did.
FullFirst(m, name, file) ==
  LET full == FullHash(m, name, file)
  IN  IF full # None THEN full ELSE StagesHash(m, file)

\* The file as a stage of any model; else the first model that fits.
Expected(m, name, file) ==
  LET stage == StagesHash(m, file)
  IN  IF stage # None THEN stage ELSE FullHash(m, name, file)

(* find_model_in_manifest. *)

StringKey(tier) == CHOOSE i \in DOMAIN StringOrder : StringOrder[i] = tier
TierKey(tier) == tier

\* The tiers from the highest; one without the key "models" ends the search.
Found(m, id) ==
  LET Has(tier) == \E i \in DOMAIN m[tier] : id \in {m[tier][i].id, m[tier][i].alternate_id}
      Stops(tier) == m[tier] = NoModels \/ Has(tier)
      stops == {t \in DOMAIN m : Stops(t)}
  IN  IF stops = {} THEN None
      ELSE LET t == CHOOSE t \in stops : \A u \in stops : TierKey(u) <= TierKey(t)
           IN  IF m[t] = NoModels THEN None ELSE t
-----------------------------------------------------------------------------
(* The files: download-model.sh, the split scripts, the user. *)

\* A file that changes under a running node is one nobody verified.
Writes(f, content) ==
  /\ disk' = [disk EXCEPT ![f] = content]
  /\ cause' = IF node.state = "running" /\ node.setup.file = f
                THEN cause \cup {"changed"} ELSE cause

\* A file that exists is not downloaded.
Download ==
  /\ script # "loading"
  /\ IF disk[Full] = Absent
       THEN script' = "loading" /\ Writes(Full, Part)
       ELSE script' = "done" /\ UNCHANGED <<disk, cause>>
  /\ UNCHANGED <<hub, manifest, node, loaded>>

\* curl writes to the file itself; cut off, it leaves what it has.
Downloaded ==
  /\ script = "loading"
  /\ \/ script' = "done" /\ Writes(Full, hub)
     \/ script' = "idle" /\ UNCHANGED <<disk, cause>>
  /\ UNCHANGED <<hub, manifest, node, loaded>>

\* split-model.sh and split-model-layers.py read the whole model.
SplitFile(f) ==
  /\ f \in Derived /\ disk[Full] \in Versions
  /\ Writes(f, disk[Full])
  /\ UNCHANGED <<hub, script, manifest, node, loaded>>

Delete(f) ==
  /\ disk[f] # Absent /\ (f = Full => script # "loading")
  /\ Writes(f, Absent)
  /\ script' = IF f = Full THEN "idle" ELSE script
  /\ UNCHANGED <<hub, manifest, node, loaded>>

\* A new version at the same address, another manifest, or no manifest where the
\* node is started.
Publish ==
  /\ hub < MaxVersion /\ script # "loading"
  /\ hub' = hub + 1 /\ script' = "idle"
  /\ UNCHANGED <<disk, manifest, node, loaded, cause>>
Pull ==
  /\ manifest' \in Manifests \cup {NoManifest}
  /\ UNCHANGED <<disk, hub, script, node, loaded, cause>>
-----------------------------------------------------------------------------
(* The node. *)

\* Mistake: the path of the configuration is taken as it is.
AnyPath(file) == TRUE

\* resolve_model_path finds the file.
Present(file) == disk[file] # Absent

\* Mistake: a wrong hash is only logged.
WarnsOnly(due, hash) == TRUE

\* The file may be loaded: nothing to compare it with, or the same hash.
Accepts(due, hash) == due \in {None, hash}

\* resolve_model_path and verify_model_against_manifest.
Start(setup, skip) ==
  LET due == IF skip \/ manifest = NoManifest THEN None
             ELSE Expected(manifest, setup.name, setup.file)
      seen == disk[setup.file]
  IN  /\ node.state # "running" /\ Present(setup.file)
      /\ node' = [state |-> IF Accepts(due, Hash(setup.file, seen))
                              THEN "running" ELSE "refused",
                  setup |-> setup, seen |-> seen, due |-> due, read |-> manifest]
      /\ cause' = IF due = None THEN {"unlisted"} ELSE {}
      /\ loaded' = None
      /\ UNCHANGED <<disk, hub, script, manifest>>

\* Each llama-cli, each daemon and each restarted worker opens the file, and
\* nothing compares it again.
Load ==
  /\ node.state = "running" /\ Present(node.setup.file)
  /\ loaded' = disk[node.setup.file]
  /\ UNCHANGED <<disk, hub, script, manifest, node, cause>>

\* Stopped, or restarted without a file to load.
Stop ==
  /\ node.state = "running"
  /\ node' = Idle /\ loaded' = None /\ cause' = {}
  /\ UNCHANGED <<disk, hub, script, manifest>>

VerifyNext ==
  \/ Download \/ Downloaded \/ Publish \/ Pull \/ Load \/ Stop
  \/ \E f \in Files : SplitFile(f) \/ Delete(f)
  \/ \E setup \in Setups, skip \in BOOLEAN : Start(setup, skip)

VerifySpec == VerifyInit /\ [][VerifyNext]_verifyVars
-----------------------------------------------------------------------------
(* Files have contents, and the node has looked at one before it runs.       *)
VerifyTypeOK ==
  /\ disk \in [Files -> Versions \cup {Absent, Part}]
  /\ hub \in Versions /\ script \in {"idle", "loading", "done"}
  /\ manifest \in Manifests \cup {NoManifest}
  /\ node.state \in {"idle", "running", "refused"}
  /\ node.state # "idle" => node.setup \in Setups /\ node.seen \in Versions \cup {Part}
  /\ loaded \in Versions \cup {Part, None}
  /\ cause \subseteq {"unlisted", "changed"}

(* What the worker loads is what the manifest named when the node started,   *)
(* unless the manifest or the user exempted it or the file changed since:    *)
(* whatever cut downloads, new versions and manifests come in between.       *)
LoadedHasCause ==
  node.state = "running" /\ loaded # None /\ cause = {}
    => Hash(node.setup.file, loaded) = node.due

(* A file that a model lists as a stage is compared with a hash of that      *)
(* stage, whatever the order of the tiers.  Any other file, one listed as a  *)
(* whole model included, may be held to the hash of another file, but only   *)
(* of a model whose id contains the configured name or is contained in it.   *)
OwnHash ==
  node.state # "idle" /\ node.due # None
    => LET models == {Model(node.read, p) : p \in Places(node.read)}
           file == node.setup.file
           Fits(model) == Within(node.setup.name, model.id) \/ Within(model.id, node.setup.name)
       IN  \/ node.due.of = file
           \/ /\ \A model \in models : StageHash(model, file) = None
              /\ \E model \in models : Fits(model) /\ model.filename = node.due.of

(* The comment of find_model_in_manifest: of the tiers that list a model it  *)
(* returns the highest, by number, also past tier9.                          *)
FoundInHighest ==
  manifest # NoManifest =>
    \A tier \in DOMAIN manifest : \A i \in 1 .. Len(Models(manifest, tier)) :
      LET found == Found(manifest, manifest[tier][i].id)
      IN  found = None \/ found >= tier

(* The same comment says "Look up a model entry by `id` across all tiers"    *)
(* (youai-coordinator/src/registry.rs:156): a model of some tier is found.   *)
FoundIfListed ==
  manifest # NoManifest =>
    \A tier \in DOMAIN manifest : \A i \in 1 .. Len(Models(manifest, tier)) :
      Found(manifest, manifest[tier][i].id) # None

(* docs/PIPELINE.md:61 has each node keep only its split of the model, and   *)
(* start with it: a whole file of the current version is not refused.        *)
WholeFileAccepted == node.state = "refused" => node.seen # hub

(* registry_verify.rs:42 says of a file with the wrong hash "run             *)
(* ./scripts/download-model.sh": when the script has ended without error the *)
(* file is the one it downloads.                                             *)
RepairedByDownload == script = "done" => disk[Full] = hub
=============================================================================
