SPECIFICATION Spec
CONSTANTS
  Requests = {r1, r2, r3, r4}
  Emails = {e1, e2}
  Identities = {g1, g2}
  BootstrapEmail = e1
  None = None
SYMMETRY Symmetry
CHECK_DEADLOCK FALSE
INVARIANTS OneSession StableIdentity
PROPERTIES OnlyStaleUndoes
