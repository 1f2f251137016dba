SPECIFICATION FairSpec
CONSTANTS
  s1 = s1
  s2 = s2
  p = p
  q = q
  NoPattern = NoPattern
  NoRow = NoRow
  NoSession = NoSession
  Unanswered = Unanswered
  Sessions = {s1, s2}
  Patterns = {p, q}
  Threshold = 2
  Deduced = {p, q}
  ProbeReplies = {TRUE, FALSE, Unanswered}
  MaxSessions = 3
  MaxPeople = 2
  MaxExpiries = 1
INVARIANTS
  TypeOK
  TrustEarnedInQuiet
  ConfidenceBacked
PROPERTIES
  TrustNotOverwritten
  WaitersServed
CHECK_DEADLOCK FALSE
