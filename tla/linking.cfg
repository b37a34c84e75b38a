SPECIFICATION FairSpec
CONSTANTS
  ann = ann
  ben = ben
  k1 = k1
  k2 = k2
  Users = {ann, ben}
  Accounts = {ta, tb}
  Tokens = {k1, k2}
  Bots = {api, worker}
  OwnerOf <- MCOwnerOf
  MaxUpdates = 2
  MaxFaults = 1
  None = None
INVARIANTS OneUserPerAccount TokensLinkOnce
PROPERTY CommandsAreHandled
