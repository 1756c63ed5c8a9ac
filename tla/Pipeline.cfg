\* Two cards, one duel, overlapping sweeps and polls, a fault and a restart.
SPECIFICATION MCSpec
CONSTANTS
  Duels = {d1}
  Players = {alice, bob}
  DeckSize = 2
  Verdicts = {"UP", "VOID"}
  s1 = s1
  s2 = s2
  q1 = q1
  q2 = q2
  r1 = r1
  r2 = r2
  Sweeps = {s1, s2}
  Requests = {r1, r2}
  Polls = {q1, q2}
  Null = null
  MaxFaults = 1
  MaxRestarts = 1
CHECK_DEADLOCK FALSE
INVARIANTS
  TypeOK
  OutcomesAreTheVenues
  RelayedOnce
  
PROPERTIES
  SettleFinishes
  MirrorFinishes
