\* Every interleaving of the lookups; one player has two tabs.
SPECIFICATION FairSpec
CONSTANTS
  alice = alice
  bob = bob
  carol = carol
  tab1 = tab1
  tab2 = tab2
  tab3 = tab3
  Sockets <- ThreeTabs
  Addresses <- ThreePlayers
  NoAddr = null
  Wallets <- TwoTabs
  Tiers = {t1}
  NoTier = none
  MaxJoins = 3
  MayMiss = TRUE
  LookupAtomic = FALSE
  DuelCreatedHandled = TRUE
CHECK_DEADLOCK FALSE
INVARIANTS
  TypeOK
  
PROPERTIES
  PairsSettle
