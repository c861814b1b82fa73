SPECIFICATION FairSpec
CONSTANTS
  s1 = s1
  k1 = k1
  p1 = p1
  p2 = p2
  w1 = w1
  w2 = w2
  alice = alice
  bob = bob
  gold = gold
  silver = silver
  Null = Null
  Subs = {s1}
  Tokens = {k1}
  Plans = {p1}
  Wallets = {w1}
  MerchantOf <- OnePlanMerchant
  PlanId <- OnePlanId
  WalletOf <- OneWallet
  InitPlans = {p1}
  InitWallets = {w1}
  SlotSteps = {1}
  SigLimit = 1000
  MaxTx = 1
  MaxCrashes = 0
  MaxFaults = 0
PROPERTIES
  SubmittedSessionsSettle
