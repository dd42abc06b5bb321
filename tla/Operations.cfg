SPECIFICATION OperationsSpec
CONSTANTS
  a1 = a1
  a2 = a2
  a3 = a3
  Administrators = {a1, a2}
  Holders = {a1, a2}
  u1 = u1
  q1 = q1
  q2 = q2
  q3 = q3
  k1 = k1
  i1 = i1
  i2 = i2
  Arrivals = {q1, q2, q3}
  Keys = {k1}
  Actors = {u1}
  ActorOf <- ActorOfKey
  Inputs = {i1, i2}
  Retention = 1
  MaxClock = 1
  rolledBack = rolledBack
  indeterminate = indeterminate
  backlog = backlog
  reached = reached
  f1 = f1
  f2 = f2
  f3 = f3
  s1 = s1
  s2 = s2
  o1 = o1
  Conditions = {rolledBack, indeterminate, backlog, reached}
  Reported = {reached}
  Fingerprints = {f1, f2, f3}
  FingerprintOf <- FingerprintOfCondition
  Severe = {indeterminate, reached}
  ConfirmAfter <- Twos
  Sustained = {backlog}
  ClearAfter <- Twos
  HealthyFor = {backlog}
  OwnerVerified = {rolledBack, indeterminate, reached}
  MaxIncidents = 2
  Reporters = {s1, s2}
  Owners = {o1}
  m1 = m1
  m2 = m2
  Writers = {m1, m2}
  MaxRebuilds = 3
  proxy = proxy
  prober = prober
  nobody = nobody
  Sources = {s1, s2}
  Proxy = proxy
  Prober = prober
  Accounts = {u1}
  NoAccount = nobody
  Slots = {q1, q2}
  SourceLimit = 1
  DenialLimit = 1
  MutationLimit = 1
  ReportLimit = 1
  SweepAt = 1
  Minute = 2
  AbuseMinutes = 2
  MaxRequests = 4
  LastTick = 4
  v1 = v1
  v2 = v2
  v3 = v3
  ReleaseNames = {v1, v2, v3}
  Interval = 2
  StaleAfter = 4
  Required = 3
  ApiTimeout = 3
  WorkerTimeout = 5
  MaxRollouts = 3
  u2 = u2
  EntryIds = {1, 2, 3, 4}
  EntryKinds <- KindsOfEntries
  Viewer = u1
  Colleagues = {u2}
  AuditFilters <- TwoFilters
  PageSize = 1
  ExportLimit = 2
  Millisecond = 2
  Day = 3
  RangeDays = 1
  Month = 2
  RetentionTime = 5
  Delay = 1
  MaxInstant = 20
  TargetsOf <- TargetsOfPanel
  MaxCalls = 3
  MaxReloads = 1
  ActingRoles <- TwoRoles
  Places = {"STUDENT_DISCOVERY", "STUDENT_LEARNING", "TEACHER_SCHEDULE"}
  RoleOfPlace <- RoleOfEachPlace
  DefaultPlace <- DefaultOfRole
  FirstRole = "STUDENT"
  Landing = "LANDING"
  NoPlace = "NO_PLACE"
  NoRole = "NO_ROLE"
  MaxVisits = 2
  MaxRemembers = 1
  j1 = j1
  c1 = c1
  g1 = g1
  JobTypes = {j1}
  FailureCodes = {c1}
  Integrations = {g1}
  Limit = 1
  Probes = 2
  MaxRebuildAttempts = 2
  MaxChanges = 5
  MaxReadings = 6
CHECK_DEADLOCK FALSE
INVARIANTS
  SomebodyHoldsRole
  RetriesTakeEffectOnce
  AlertsAreTrue
  ReopensAccountably
  AdmissionIsLimited
  BundleIsAccepted
  AuditLogIsWhole
  ClientIsSound
PROPERTIES
  OnlyRemovalLocksOut
  BundleFollowsWorker
