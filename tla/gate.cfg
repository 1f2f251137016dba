SPECIFICATION FairSpec
CONSTANTS
  verifier = verifier
  hunter = hunter
  r1 = r1
  r2 = r2
  r3 = r3
  r4 = r4
  Vendors = {verifier, hunter}
  Requests = {r1, r2, r3, r4}
  VendorOf <- MCVendorOf
  Sems = {s1, s2, s3, s4}
  NoSem = NoSem
  DefaultLimit <- MCDefault
  Settings = {0, 1, 3}
  Cap = 2
  MaxRetries = 1
  MaxConfigures = 1
INVARIANTS
  TypeOK
  PermitsConserved
  NoIdlePermit
  LineIsExact
PROPERTIES
  EveryRequestEnds
CHECK_DEADLOCK FALSE
