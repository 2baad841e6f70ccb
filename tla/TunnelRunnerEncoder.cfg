SPECIFICATION Spec
CONSTANTS
  Clients = {c1, c2}
  Handlers = {h1, h2}
  MinBackoff = 2
  MaxBackoff = 5
  MaxActive = 2
  Nobody = nobody
CHECK_DEADLOCK FALSE
SYMMETRY MCSymmetry
INVARIANTS
  NilEncoderIsSurvived
