\* Wallets with and without the stake, and with any allowance.
SPECIFICATION LobbySpec
CONSTANTS
  Stake = 1
  Balances = {0, 2}
  Allowances = {0, 1, 2}
  MaxMatches = 2
  MaxJoins = 2
  MaxCalls = 2
  MaxLobbyDrops = 0
CHECK_DEADLOCK FALSE
PROPERTIES
  ReadyMeansAble
