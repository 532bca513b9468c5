SPECIFICATION Spec
CONSTANTS
  s1 = s1
  s2 = s2
  w = w
  r = r
  Requests = {s1, s2, w, r}
  Kind <- MCKind
  PoolSize = 2
  Threads = 2
INVARIANTS
  TypeOK
  
PROPERTIES
  TimeoutNeedsCrowd
  ImplementsLending
CHECK_DEADLOCK FALSE
