SPECIFICATION Spec
CONSTANTS
  Null = Null
  o1 = o1  o2 = o2  o3 = o3  a1 = a1  a2 = a2  a3 = a3  c1 = c1  c2 = c2  c3 = c3
  k1 = k1  k2 = k2  k3 = k3  r1 = r1  r2 = r2
  parent = parent  child = child  other = other
  Idents = {parent, child, other}
  Orders = {o1, o2, o3}  Authzs = {a1, a2, a3}  Challs = {c1, c2, c3}
  Certs = {k1, k2, k3}  Reqs = {r1, r2}
  OrderOf <- CoverOrderOf  AuthzOf <- CoverAuthzOf  Kind <- CoverKind  Ident <- CoverIdent
  Ancestors <- CoverAncestors  SubdomainAuth = {a1, a3}
  Delegated = {o3}  Upstream = TRUE  Renewals = {o1, o2}
  Expiring = {a1}  Coalesced = FALSE
  MaxRespond = 1  MaxCrashes = 1  MaxDbErrors = 0
SYMMETRY IssueSymmetry
INVARIANT OrderKeepsItsCertificate
PROPERTY DecisionsStand
CHECK_DEADLOCK FALSE
