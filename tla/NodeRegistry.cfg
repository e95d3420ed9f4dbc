SPECIFICATION Spec
CONSTANTS
  Agents = {a1, a2}
  Names = {n1, n2}
  Urls = {u1, u2}
  Configs <- MCConfigs
  Ids = {i1, i2}
  NoId = NoId
  Interval = 1
  Stale = 3
  LockWait = 1
  RestartTime = 1
  MaxWaiting = 1
  MaxScore = 1
SYMMETRY Symmetry
INVARIANTS IdentityUnique DuplicateUrlOnlyIfTorn CredentialNotShared BeatingNodeOnline
PROPERTIES OnlyTimeAgesUrl ImplementsMembership
