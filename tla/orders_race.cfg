SPECIFICATION FairSpec
CONSTANTS
  Null = Null
  o1 = o1  o2 = o2  o3 = o3  a1 = a1  a2 = a2  a3 = a3  c1 = c1  c2 = c2  c3 = c3
  k1 = k1  k2 = k2  k3 = k3  r1 = r1  r2 = r2
  parent = parent  child = child  other = other
  Idents = {parent, child, other}
  Orders = {o1}  Authzs = {a1, a2}  Challs = {c1, c2, c3}
  Certs = {k1, k2}  Reqs = {r1, r2}
  OrderOf <- RaceOrderOf  AuthzOf <- RaceAuthzOf  Kind <- RaceKind  Ident <- RaceIdent
  Ancestors <- NoAncestors  SubdomainAuth = {}
  Delegated = {}  Upstream = FALSE  Renewals = {}
  Expiring = {}  Coalesced = FALSE
  MaxRespond = 2  MaxCrashes = 1  MaxDbErrors = 1
INVARIANTS TypeOK IssuedOnlyAfterProof OneTaskPerChallenge NoForgottenOrder
 
CHECK_DEADLOCK FALSE
