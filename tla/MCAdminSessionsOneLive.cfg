SPECIFICATION Spec
CONSTANTS
  Sessions = {s1, s2, s3}
  Admins = {adm}
  Logins = {l1, l2}
  Requests = {r1}
  Absolute = 2
  Idle = 1
  TouchDelay = 1
  NoRow = NoRow
  NoSession = NoSession
SYMMETRY Symmetry
INVARIANT OneLiveSession
