\* Two joiners pick the same waiting player.
SPECIFICATION Spec
CONSTANTS
  alice = alice
  bob = bob
  carol = carol
  tab1 = tab1
  tab2 = tab2
  tab3 = tab3
  Sockets <- ThreeTabs
  Addresses <- ThreePlayers
  NoAddr = null
  Wallets <- OneTabEach
  Tiers = {t1}
  NoTier = none
  MaxJoins = 3
  MayMiss = FALSE
  LookupAtomic = FALSE
  DuelCreatedHandled = FALSE
CHECK_DEADLOCK FALSE
PROPERTIES
  MatchesOnlyTheWaiting
