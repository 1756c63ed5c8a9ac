\* Leaves, closes, failed decks and retries around lookups that nothing interrupts.
SPECIFICATION Spec
CONSTANTS
  alice = alice
  bob = bob
  carol = carol
  tab1 = tab1
  tab2 = tab2
  tab3 = tab3
  Sockets <- ThreeTabs
  Addresses <- ThreePlayers
  NoAddr = null
  Wallets <- OneTabEach
  Tiers = {t1, t2}
  NoTier = none
  MaxJoins = 4
  MayMiss = TRUE
  LookupAtomic = TRUE
  DuelCreatedHandled = TRUE
CHECK_DEADLOCK FALSE

  
PROPERTIES
  MatchesOnlyTheWaiting
