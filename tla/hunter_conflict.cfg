SPECIFICATION Spec
CONSTANTS
  a1 = a1
  a2 = a2
  b1 = b1
  d1 = d1
  d2 = d2
  A = A
  B = B
  NoRow = NoRow
  NoSession = NoSession
  Undated = Undated
  Sessions = {a1, a2, b1}
  Domains = {d1, d2}
  Runs = {A, B}
  DomainOf <- MCDomainOf
  Named <- MCNamed
  RunOf <- MCRunOf
  Answers <- MCAnswers
  Stored <- MCStored
  MaxCalls = 2
  MaxRetries = 1
  Ttl = 1
  MaxPeople = 2
  MaxSessions = 2
  LastDay = 1
  MaxOutages = 1
INVARIANTS
  CacheNeverFailsRun
CHECK_DEADLOCK FALSE
