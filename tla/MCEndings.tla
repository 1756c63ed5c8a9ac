------------------------------ MODULE MCEndings -----------------------------
(***************************************************************************)
(* What must come to an end: the seasons of the prize pool, the duels of   *)
(* the duel contract and the practice mode.  The three share no state, so  *)
(* that a behaviour is one of the part that it chose at the start, with    *)
(* the others at their beginning.                                          *)
(***************************************************************************)
EXTENDS SeasonClaim, PracticeSession

CONSTANTS op1, k1, usdc, dai, vault, none

\* Two distinct prizes, and the zero that fund rejects and setAllocations accepts.
PrizeAmounts == 0 .. 2

MCExpiryOffset == [i \in PracticeCards |-> i + 1]

VARIABLES
  part,
  duelSeq, duels, decks, swipes, cardSettled, nonces, keeper, duelBal, now, signed, cardEvents

\* Two duels in two tokens, a clock that reaches their timeouts, no swipes; a deck
\* that disagrees with a declared size of 1.
Escrow == INSTANCE DreamSwipeDuel WITH
  NoPlayer <- none, Keepers <- {k1}, Tokens <- {usdc, dai}, Vault <- vault,
  MaxDuels <- 2, Decks <- {<<"btc">>, <<"btc", "eth">>}, Stakes <- {1},
  Fills <- {[premium |-> 1, filled |-> 3]}, MIN_DECK_SIZE <- 1, MAX_DECK_SIZE <- 1,
  REVEAL_TIMEOUT_SEC <- 1, DUEL_TIMEOUT_SEC <- 2, SWIPE_DEADLINE_SEC <- 1,
  MaxTime <- 3, MaxSignatures <- 0, bal <- duelBal

duelVars == <<duelSeq, duels, decks, swipes, cardSettled, nonces, keeper, duelBal, now,
              signed, cardEvents>>
allVars == <<part, vars, duelVars, practiceVars>>

EndingsInit ==
  /\ part \in {"season", "duel", "practice"}
  /\ Init /\ Escrow!Init /\ PracticeInit
  /\ part = "season" \/ operator = op1

InSeason == part = "season" /\ UNCHANGED <<part, duelVars, practiceVars>>
InDuel == part = "duel" /\ UNCHANGED <<part, vars, practiceVars>>
InPractice == part = "practice" /\ UNCHANGED <<part, vars, duelVars>>

EndingsNext ==
  \/ InSeason /\ Next
  \/ InDuel /\ Escrow!Next
  \/ InPractice /\ PracticeNext

EndingsSpec ==
  /\ EndingsInit /\ [][EndingsNext]_allVars
  /\ \A p \in Players, id \in SeasonIds : WF_allVars(InSeason /\ Claim(p, id))
  /\ WF_allVars(InDuel /\ Escrow!Tick)
  /\ \A id \in 1 .. 2 : WF_allVars(InDuel /\ Escrow!ClaimDuelTimeout(id))
  /\ WF_allVars(InPractice /\ Effects)
  /\ WF_allVars(InPractice /\ PassTime)

(* Liveness: with nobody obliged to do anything but claim a timeout, each   *)
(* Active duel ends and with it the escrow of its stakes (claimDuelTimeout).*)
StakesComeBack == Escrow!StakesComeBack
=============================================================================
