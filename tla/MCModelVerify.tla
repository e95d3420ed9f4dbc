---------------------------- MODULE MCModelVerify ----------------------------
(* Values for model checking ModelVerify: manifests like registry/           *)
(* manifest.json, with tiers past 9, a second model of the family in its own *)
(* tier, tiers that lack "models" and a stage that lacks its hash.            *)
EXTENDS ModelVerify

Smol == <<"smol", "360m">>
Q4 == Smol \o <<"q4">>
FullFile == Q4 \o <<"gguf">>
Stage0 == Q4 \o <<"stage00", "gguf">>
Split0 == Q4 \o <<"00001", "gguf">>
NoStages == [f \in {} |-> None]
Of(version, stages) ==
  [id |-> Q4, alternate_id |-> None, filename |-> FullFile,
   sha256 |-> Hash(FullFile, version), stages |-> stages]
Planned == [id |-> <<"qwen", "3b">>, alternate_id |-> Smol, filename |-> <<"qwen", "3b", "gguf">>,
            sha256 |-> None, stages |-> NoStages]
Big == [id |-> <<"smol", "1700m", "q4">>, alternate_id |-> None,
        filename |-> <<"smol", "1700m", "q4", "gguf">>,
        sha256 |-> Hash(<<"smol", "1700m", "q4", "gguf">>, 1), stages |-> NoStages]
Staged(version) == [f \in {Stage0} |-> Hash(Stage0, version)]
Unhashed == [f \in {Stage0} |-> None]

\* tier0 and tier1 as in the repository, tier2 and tier10 planned.
Tiers(first, second, tier2, tier10) ==
  [t \in {0, 1, 2, 10} |-> CASE t = 0 -> <<first>> [] t = 1 -> <<second>>
                             [] t = 2 -> tier2 [] t = 10 -> tier10]
Today == Tiers(Of(1, NoStages), Of(1, Staged(1)), <<Planned>>, <<Planned>>)
Tomorrow == Tiers(Of(2, NoStages), Of(2, Staged(2)), <<Planned, Of(2, Staged(2))>>, <<>>)
Mixed == Tiers(Big, Of(2, Staged(2)), <<Planned>>, <<Of(1, NoStages), Big>>)
Keyless == Tiers(Of(1, NoStages), Of(1, Unhashed), <<Planned>>, NoModels)

Order == <<0, 1, 10, 2>>
SomeManifests == {Today, Tomorrow, Mixed, Keyless}
JustToday == {Today}

StageAndSplit == {Stage0, Split0}
SomeSetups == {[name |-> Smol, file |-> FullFile], [name |-> Smol, file |-> Stage0],
               [name |-> <<"smol">>, file |-> FullFile], [name |-> Smol, file |-> Split0]}
=============================================================================
