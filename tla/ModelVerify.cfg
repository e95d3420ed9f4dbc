SPECIFICATION VerifySpec
CONSTANTS
  Absent = Absent
  Part = Part
  NoManifest = NoManifest
  NoModels = NoModels
  None = None
  Manifests <- SomeManifests
  StringOrder <- Order
  Full <- FullFile
  Derived <- StageAndSplit
  Setups <- SomeSetups
  MaxVersion = 2
INVARIANTS VerifyTypeOK LoadedHasCause OwnHash FoundInHighest
