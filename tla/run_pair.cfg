SPECIFICATION FairSpec
CONSTANTS
  A = A
  B = B
  d1 = d1
  d2 = d2
  d3 = d3
  f1 = f1
  p1 = p1
  p2 = p2
  p3 = p3
  p4 = p4
  p5 = p5
  q1 = q1
  e1 = e1
  e2 = e2
  x1 = x1
  x2 = x2
  NoCeiling = NoCeiling
  NoPerson = NoPerson
  Probe = Probe
  NoEmail = NoEmail
  Runs = {A, B}
  Tasks = {d1, f1}
  People = {p1, p2, q1}
  Emails = {e1, e2, x1}
  Domainless = {}
  MaxUnit = 1
  MaxConcurrency = 1
  MaxExecutions = 1
  MaxFailures = 1
  RunOf <- PairRunOf
  PeopleOf <- PairPeopleOf
  ProbeOf <- PairProbeOf
  EmailsOf <- PairEmailsOf
  Created <- PairCreated
  Ceiling <- PairCeiling
  Replies <- PairReplies
INVARIANTS
  EveryChargeBooked
  RowsBackedByVerdicts
  OneWriterPerVerdict
PROPERTIES
  VerdictsKept
  ExecutionsEnd
CHECK_DEADLOCK FALSE
