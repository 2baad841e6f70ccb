SPECIFICATION Spec
CONSTANTS
  Ids = {t1, t2}
  Variants = {plain, share, bad}
  Rejected = {bad}
  FileShares = {share}
  Off = off
  Versions = {v1}
  Runners = {r1, r2, r3}
  None = none
SYMMETRY MCSymmetry
INVARIANTS
  OneRunnerPerTunnel
  RegisteredRunners
  StoppedIsForeign
PROPERTIES
  NoNeedlessRestart
  ImplementsRegistry
