SPECIFICATION Spec
CONSTANTS
  m1 = m1
  m2 = m2
  m3 = m3
  m4 = m4
  c1 = c1
  c2 = c2
  k1 = k1
  k2 = k2
  Modules = {m1, m2, m3, m4}
  Callers = {c1, c2}
  Closers = {k1, k2}
  Nil = Nil
  Names = {"a", "b"}
  Name <- MCName
  Programs <- MCPrograms
  ShrinkThreshold = 1
INVARIANTS RegistryConsistent CloseIsFinal ExitReported
PROPERTIES CancelledCallsReturn
CHECK_DEADLOCK FALSE
