CONSTANTS
  u1 = u1
  i1 = i1
  i2 = i2
  x1 = x1
  x2 = x2
  r1 = r1
  r2 = r2
  mail = mail
  m1 = m1
  m2 = m2
  k1 = k1
  client = client
  t1 = t1
  j1 = j1
  Null = Null
  Users = {u1, x1, x2}
  Bootstrap = u1
  Identities = {i1, i2}
  EmailOf <- MCEmailOf
  Requests = {r1, r2}
  MaxRequests = 2
  Visits = {r1, r2}
  None = None
  StartRows <- MCStartRows
  StartGrants = {Null, "manager"}
  Members = {m1, m2}
  PasswordUsers = {m1}
  SessionIds = {x1, x2}
  KeyIds = {k1}
  MaxVisits = 3
  MaxClock = 4
  MaxAge = 4
  IdleLimits = {0, 3}
  TouchEvery = 2
  KeyDays = {2, None}
  SoonDays = 1
  PerAccount = 1
  PerClient = 2
  Window = 2
  Client = client
  Tenants = {t1}
  Schedules = {x1, x2}
  MaxBrands = 2
  MaxChannels = 2
  ReuseIds = FALSE
  Forms = {r1, r2}
  MaxForms = 2
  Jobs = {j1}
  Browsers = {x1, x2}
  People = {i1, i2}
  Issuers = {"duo", "entra"}
  StateMaxAge = 1
  CacheSeconds = 2
  MaxSignIns = 2
  MaxChanges = 2
  LastSecond = 2
  Actors = {i1, i2}
  Objects = {1}
  Slots = {r1, r2}
  PageSize = 1
  RetentionDays = 1
  MaxEvents = 3
  LastLogDay = 2
  MaxLost = 1
SPECIFICATION WebSpec
SYMMETRY WebSymmetry
INVARIANTS
  AdminRemains
  EndedForGood
  UsedSessionStaysOpen
  AttemptsAreLimited
  ListsTellTheTruth
  ChoicesHold
  SignInsAreConfirmed
  ActivityIsTold
PROPERTIES
  RightsAreHandedOn
CHECK_DEADLOCK FALSE
