SPECIFICATION MCFairSpec
CONSTANTS
  Parts = {"gossip", "store"}
  None = None
  n1 = n1  n2 = n2  a1 = a1
  Nodes = {n1, n2}  Accounts = {a1}
  SameSecond = TRUE
  MaxWrites = 2  MaxFaults = 1  MaxPersists = 1
  StoreTables = {"orders", "authorizations", "challenges", "certificates", "eab_keys", "operators", "delegations", "policy_rules", "mtc_checkpoints"}
  MaxRowWrites = 2  MaxStoreClones = 1  MaxStoreRestarts = 1
PROPERTIES NewestKept Converges RowsFollowCluster
CHECK_DEADLOCK FALSE
