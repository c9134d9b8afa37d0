CONSTANTS
  Commands = {c1, c2}
  Workers = {w1, w2}
  Contents = {v1, v2}
  Broken = Broken  Absent = Absent  None = None
  Binaries = {b1, b2}
  Foreign = Foreign
  Systems = {"linux"}
  Scenes <- OnAlone
SYMMETRY HostSymmetry
SPECIFICATION Spec
INVARIANT OnStarts
CHECK_DEADLOCK FALSE
