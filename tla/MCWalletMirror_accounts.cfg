SPECIFICATION Spec
CONSTANTS
  w1 = w1
  w2 = w2
  alice = alice
  bob = bob
  usdc = usdc
  eurc = eurc
  ata1 = ata1
  ata2 = ata2
  None = None
  Wallets = {w1, w2}
  Keys = {alice, bob, usdc, eurc, ata1, ata2}
  OwnerOf <- MCOwnerOf
  TokenAccountOf <- MCTokenAccountOf
  MintOf <- MCMintOf
  Legacy = {w1}
  Tokens <- MCTokens
  PlanId <- MCPlanId
  Base = 4
  Word = 2
  MaxToken = 2
  Fee = 16
  ShareAmounts = {1}
  Bump = 1
  Slots = {1}
  MaxTx = 3
  MaxStarts = 2
  MaxFaults = 1
INVARIANTS
  TypeOK
  SubscriptionRead
  PlanRead
  RowsNameOwner
  
PROPERTIES
  Converges
  SyncReachesSubscriptions
CHECK_DEADLOCK TRUE
