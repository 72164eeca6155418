SPECIFICATION Spec
CONSTANTS
  Sessions = {s1, s2, s3}
  Tokens = {k0, k1, k2, k3, k4, k5, k6, k7, k8, k9}
  Tabs = {t1, t2}
  None = None
SYMMETRY Symmetry
INVARIANT TypeOK
INVARIANT WritesFromOwnForms
INVARIANT OwnFormsPass
INVARIANT LoginRefusalHasCause
INVARIANT OrphansHaveCause
INVARIANT RedirectsSettle
