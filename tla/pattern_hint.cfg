SPECIFICATION Spec
CONSTANTS
  s1 = s1
  s2 = s2
  p = p
  q = q
  NoPattern = NoPattern
  NoRow = NoRow
  NoSession = NoSession
  Unanswered = Unanswered
  Sessions = {s1}
  Patterns = {p, q}
  Threshold = 2
  Deduced = {p, q}
  ProbeReplies = {TRUE, FALSE}
  MaxSessions = 3
  MaxPeople = 2
  MaxExpiries = 0
INVARIANTS
  TrustEarned
CHECK_DEADLOCK FALSE
