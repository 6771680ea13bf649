\* A browser and the late POSTs of its earlier attempts, over configurations,
\* clears, restarts, and consent that comes and goes.
CONSTANTS
  Browser = {b1}
  Scope = {d1, d2}
  Jar = {j1, j2}
  NoCookies = NoCookies
  None = None
  Fickle = {b1}
  MaxVersion = 3
  MaxRevision = 3
  MaxConnection = 2
  MaxLate = 1
SYMMETRY Symmetry
SPECIFICATION Spec
INVARIANTS TypeOK StoredAsConfigured WithdrawnIsNotSent HiddenIsNotEmpty
PROPERTIES ReplacedWasCurrent
