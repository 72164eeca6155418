SPECIFICATION FairSpec
CONSTANTS
  Files = {1, 2, 3}
  Releases <- MCReleases
  Statements = 2
  Runners = {r1, r2}
  Nobody = Nobody
INVARIANT TypeOK
INVARIANT NoCollision
PROPERTY Implements
PROPERTY EveryRunEnds
