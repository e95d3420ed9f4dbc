SPECIFICATION Spec
CONSTANTS
  Handlers = {h1, h2}
  Nonces = {n1, n2}
  Requests <- MCRequests
  Skew = 1
  Retention = 5
  MaxStep = 1
  MaxDelay = 1
  MaxTime = 7
SYMMETRY Symmetry
INVARIANTS AtMostOnce OneOutcome
PROPERTY ImplementsOneShot
