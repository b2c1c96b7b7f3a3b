\* One family, two clients, others who claim and spend.
SPECIFICATION ClaimsSpec
CONSTANTS
  Bundles <- MCBundles
  Rent = 4
  Pool <- MCPool
  Purses <- MCPurses
  Fees = {1, 9}
INVARIANTS EveryLeafClaimable PaysEachLeafOnce CompleteMeansPaid QuietRowsClaim
CHECK_DEADLOCK FALSE
