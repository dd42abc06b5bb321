SPECIFICATION LearningSpec
CONSTANTS
  u1 = u1
  n1 = n1
  n2 = n2
  b1 = b1
  b2 = b2
  b3 = b3
  s1 = s1
  s2 = s2
  s3 = s3
  t1 = t1
  t2 = t2
  c1 = c1
  w1 = w1
  w2 = w2
  w3 = w3
  c2 = c2
  m1 = m1
  m2 = m2
  d1 = d1
  d2 = d2
  d3 = d3
  k1 = k1
  k2 = k2
  r1 = r1
  r2 = r2
  a1 = a1
  h1 = h1
  h2 = h2
  Edits = {d1, d2, d3}
  Courses = {k1, k2}
  MaxUnits = 3
  Replacements = {0, 1, 2}
  Teachers = {r1, r2}
  Starts = {1, 2}
  Span = 2
  Exceptions <- OneException
  NewSessions = {a1}
  Hours = {h1, h2}
  LastDate = 4
  Day = 6
  Hour = 2
  Changes = {5, 6}
  Shifts <- AnHour
  Students = {u1}
  Bookings = {b1, b2, b3}
  Units = {n1, n2}
  Sessions = {s1, s2, s3}
  StudentOf <- StudentOfBooking
  SessionOf <- SessionOfBooking
  UnitOf <- UnitOfSession
  EndsAt <- EndOfSession
  Transactions = {t1, t2}
  RecordingWindow = 1
  ReviewWindow = 0
  MaxCorrections = 1
  Reviewed = {b1}
  MaxLag = 0
  MaxTime = 1
  Cohorts = {c1}
  CohortNames = {w1, w2, w3}
  CanonicalName <- WithoutCase
  Memberships = {m1, m2}
  CohortLag = 1
  LastInstant = 3
  Booked = {b1}
  SessionEnd <- EndOfBooked
  FeedbackWindow = 1
  RatingWindow = 2
  MaxRedactions = 1
  LastTime = 4
SYMMETRY LearningSymmetry
CHECK_DEADLOCK FALSE
INVARIANTS
  SnapshotReflectsPeriod
