SPECIFICATION FairSpec
CONSTANTS
  A = A
  B = B
  check1 = check1
  d1 = d1
  d2 = d2
  gmail = gmail
  jo = jo
  jo2 = jo2
  li = li
  jr = jr
  JO = JO
  LI = LI
  Nameless = Nameless
  NoDomain = NoDomain
  NoRun = NoRun
  NameOf <- MCNameOf
  Personal = {gmail}
  Runs = {A, B}
  BodyOf <- MCBodyOf
  Checks = {check1}
  PoolSize = 1
  Slots = 2
  MaxStops = 1
PROPERTY InterruptedRunsResume
CHECK_DEADLOCK FALSE
