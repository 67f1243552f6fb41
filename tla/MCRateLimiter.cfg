SPECIFICATION Spec
CONSTANTS
  NANOS = 10
  Rps = 3
  Burst = 2
  U32Max = 4
  Tasks = {t1, t2}
  MaxNow = 14
SYMMETRY Symmetry
INVARIANTS
  TypeOK
  WindowBound
  NoOversleep
  WakeFindsToken
