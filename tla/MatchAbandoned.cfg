\* The handshake timer fires although the duel was created.
SPECIFICATION Spec
CONSTANTS
  alice = alice
  bob = bob
  carol = carol
  tab1 = tab1
  tab2 = tab2
  tab3 = tab3
  Sockets <- ThreeTabs
  Addresses <- ThreePlayers
  NoAddr = null
  Wallets <- OneTabEach
  Tiers = {t1}
  NoTier = none
  MaxJoins = 2
  MayMiss = FALSE
  LookupAtomic = TRUE
  DuelCreatedHandled = FALSE
CHECK_DEADLOCK FALSE
PROPERTIES
  NeverAbandonsCreated
