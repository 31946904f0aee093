SPECIFICATION MCSpec
CONSTANTS
  Null = Null
  s1 = s1  s2 = s2  v1 = v1  i1 = i1  f1 = f1  f2 = f2  n1 = n1  a1 = a1  a2 = a2
  Ops = {s1, s2, v1, i1, f1, f2, n1, a1, a2}
  Kind <- MCKind
  InitDbs <- MCInitDbs
  Cap = 2  MaxErrors = 1  MaxFatal = 1
INVARIANTS RepliesTrue AllOrNothing
PROPERTIES  AtomicSpec
CHECK_DEADLOCK FALSE
