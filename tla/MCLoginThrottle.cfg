SPECIFICATION FairSpec
CONSTANTS
  Attempts = {a1, a2, a3}
  Identifiers = {i1, i2}
  Ips = {p1, p2}
  NoRequest = NoRequest
  MaxPerIdentifier = 1
  MaxPerIp = 1
  Window = 2
  LoginMax = 1
  LimiterWindow = 1
  MaxConcurrent = 2
INVARIANT TypeOK
INVARIANT IdentifierBounded
INVARIANT IpBounded
INVARIANT UncountedBounded
PROPERTY LockoutEnds
