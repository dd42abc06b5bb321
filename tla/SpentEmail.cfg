SPECIFICATION FairPlatformSpec
CONSTANTS
  e1 = e1
  e2 = e2
  r1 = r1
  Emails = {e1, e2}
  Recipients = {r1}
  RecipientOf <- RecipientOfEmail
  p1 = p1
  p2 = p2
  Passes = {p1, p2}
  MaxAttempts = 2
  x1 = x1
  x2 = x2
  u1 = u1
  Exports = {x1, x2}
  Requesters = {u1}
  w1 = w1
  w2 = w2
  ExportPasses = {w1, w2}
  MaxGenerations = 2
  Anonymized = {u1}
  Deleters = {w1, w2}
  FailuresToTask = 2
  MaxFailures = 3
  MaxStops = 2
CHECK_DEADLOCK FALSE
PROPERTIES
  FailuresRemainActionable
