SPECIFICATION Spec
CONSTANTS
  A = A
  B = B
  d1 = d1
  d2 = d2
  d3 = d3
  f1 = f1
  p1 = p1
  p2 = p2
  p3 = p3
  p4 = p4
  p5 = p5
  q1 = q1
  e1 = e1
  e2 = e2
  x1 = x1
  x2 = x2
  NoCeiling = NoCeiling
  NoPerson = NoPerson
  Probe = Probe
  NoEmail = NoEmail
  Runs = {A}
  Tasks = {d1, d2, d3}
  People = {p1, p2, p3, p4, p5}
  Emails = {e1, x1, x2}
  Domainless = {d3}
  MaxUnit = 2
  MaxConcurrency = 2
  MaxExecutions = 2
  MaxFailures = 0
  RunOf <- SoloRunOf
  PeopleOf <- SoloPeopleOf
  ProbeOf <- SoloProbeOf
  EmailsOf <- SoloEmailsOf
  Created <- SoloCreated
  Ceiling <- SoloCeiling
  Replies <- SoloReplies
INVARIANTS
  TypeOK
  OvershootBounded
  StoredCostBounded
  BoughtOnce
PROPERTIES
  KeepsLifecycle
  OutcomesKept
CHECK_DEADLOCK FALSE
