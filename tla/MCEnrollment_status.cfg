SPECIFICATION Spec
CONSTANTS
  t1 = t1
  t2 = t2
  e1 = e1
  e2 = e2
  l1 = l1
  p1 = p1
  None = None
  Daemon = Daemon
  Tokens <- MCTokens
  InsecureURLs <- MCInsecure
  Enrollers <- MCEnrollers
  Logouts <- MCLogouts
  Probes <- MCProbes
  Exclusive = TRUE
  Faults = FALSE
SYMMETRY MCSymmetry
PROPERTIES
  PurgeIsReported
