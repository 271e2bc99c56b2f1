SPECIFICATION MCSpec
CONSTANTS
  Tenants = {t1}
  Pools = {p1}
  Correlations = {x1}
  Profiles = {f1}
  Ids = {i1, i2}
  Versions = {"v1", "v2", "v3"}
  Identities = {"provider/model/version"}
  ProfileId <- OneIdentity
  MaxSafe = 6
  Undefined = Undefined
  Clients = {c1, c2}
  Requests <- AllRequests
  MaxAttempts = 2
  MaxSchedules = 2
  MaxDoubt = 1
  NoCall = NoCall
INVARIANTS
  TypeOK
  NoOverAdmission
  NoStaleWrite
  RetriesPaidByCommits
  TokensConserved
  EpochsApartUntilOvertaken
PROPERTIES
  IsAtomic
  HoldsLiftedByProof
  HistoryIsFinal
  EveryCallAnswered
