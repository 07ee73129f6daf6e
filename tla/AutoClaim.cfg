SPECIFICATION FairSpec
CONSTANTS
  a = a
  x = x
  u = u
  m = m
  v = v
  Deposit <- Deposits
  Count <- Counts
  Origin <- Origins
  Receiver <- AddressOf
  CoveredBy <- FirstRoots
  Unclaimable <- Reverting
  AuthorizedClaimMessageAddresses <- Addresses
  MaxNumberOfClaimsPerGroup = 2
  PageLimit = 2
  MaxRoot = 2
  MaxFaults = 1
INVARIANTS
  ProvenByItsRoot
PROPERTIES
  EverythingClaimed
