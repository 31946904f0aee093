SPECIFICATION Spec
CONSTANTS
  Null = Null
  a1 = a1  a2 = a2  k1 = k1  k2 = k2  k3 = k3  r1 = r1  r2 = r2  r3 = r3
  Accounts = {a1, a2}  Keys = {k1, k2}  Reqs = {r1, r2, r3}
  Registered <- OneRegistered
  TTL = 1  MaxTime = 3  MaxNonce = 4  MaxRestarts = 1
INVARIANTS NonceOnce OneAccountPerKey
PROPERTIES RetiredStayOut
SYMMETRY AuthSymmetry
CHECK_DEADLOCK FALSE
