SPECIFICATION Spec
CONSTANTS
  dotted = dotted
  short = short
  foreign = foreign
  ana = ana
  bo = bo
  k1 = k1
  k2 = k2
  k3 = k3
  x = x
  y = y
  z = z
  u = u
  w = w
  s = s
  a1 = a1
  a2 = a2
  a3 = a3
  b1 = b1
  b2 = b2
  b3 = b3
  NoAddress = NoAddress
  NoFormat = NoFormat
  NoPattern = NoFormat
  NoContext = NoContext
  NoRow = NoRow
  NoOne = NoOne
  Sighted = Sighted
  Formats <- MCFormats
  Patterns = {dotted, short, foreign, Sighted}
  Addresses = {x, y, z, u, w, s}
  Offers = {x, w}
  Names <- MCNames
  People <- MCPeople
  LooksLike <- MCLooksLike
  MaxCandidates = 2
  Majority = 3
  Threshold = 2
  Contexts <- MCContexts
  Starts <- MCStarts
  Known <- MCKnown
  Price <- MCPrice
  BilledBy <- MCBilledBy
  HasSecondary = TRUE
INVARIANT CandidatesAreTheirs
CHECK_DEADLOCK FALSE
