------------------------------ MODULE DuelClient -----------------------------
(***************************************************************************)
(* What the web client makes of a duel of the contract: lib/duel.ts reads  *)
(* the raw tuple and writes the calls, lib/flicky.ts turns it into the     *)
(* state that the screens show and decides which refund to offer.          *)
(*                                                                         *)
(* A duel of the chain is a record with the fields of DreamSwipeDuel;      *)
(* what may be null is a set of at most one.  Times are in SECOND-ths.     *)
(***************************************************************************)
EXTENDS Integers, Sequences

CONSTANTS
  Zero,               \* the zero address
  Collateral,         \* COLLATERAL_ADDRESS
  SECOND,             \* client time units in a second of the chain
  REFUND_TIMEOUT_MS,  \* "mirroring REVEAL_TIMEOUT_SEC"
  DUEL_TIMEOUT_MS,    \* "mirroring DUEL_TIMEOUT_SEC"
  FAUCET_MAX

-----------------------------------------------------------------------------
(* duel.ts: the calls that the client can send, and their arguments.        *)
CreateCall(deckCommit, deckSize, tier, stake) ==
  [call |-> "createDuel", deckCommit |-> deckCommit, deckSize |-> deckSize, tier |-> tier,
   stakeToken |-> IF tier = "Staked" THEN Collateral ELSE Zero, stake |-> stake]

DuelCall(name, id) == [call |-> name, id |-> id]

\* An approval is of the exact amount; a claim above the cap throws.
ApproveCall(amount) == [call |-> "approve", amount |-> amount]
FaucetCall(amount) == IF amount > FAUCET_MAX THEN {} ELSE {[call |-> "faucet", amount |-> amount]}

DuelWinner(d) ==
  IF d.p0Score > d.p1Score THEN {d.creator}
  ELSE IF d.p1Score > d.p0Score THEN {d.challenger} ELSE {}

-----------------------------------------------------------------------------
(* flicky.ts: the state that the screens show.                              *)
\* A duel that was never created reads as complete.
MapStatus(status) ==
  CASE status = "Pending" -> "PENDING" [] status = "Active" -> "ACTIVE" [] OTHER -> "COMPLETE"

SplitScore(score) ==
  IF score >= 0 THEN [payout |-> score, premium |-> 0] ELSE [payout |-> 0, premium |-> -score]

\* swipe[player][card] is what getSwipe answers.  Cards count from 0.
SwipesOf(d, player, swipe) ==
  [i \in 0 .. d.deckSize - 1 |->
     IF d.deckRevealed /\ player # Zero /\ swipe[player][i].exists
     THEN {[isUp |-> swipe[player][i].direction = "Up", quantity |-> swipe[player][i].filled,
            premium |-> swipe[player][i].premium]}
     ELSE {}]

NextCardIdx(swipes) == LET taken == {i \in DOMAIN swipes : swipes[i] # {}}
                           count[s \in SUBSET DOMAIN swipes] ==
                             IF s = {} THEN 0 ELSE 1 + count[s \ {CHOOSE x \in s : TRUE}]
                       IN  count[taken]

\* The chain gives a count of settled cards: the first so many are shown as settled.
FetchDuel(d, deck, swipe) ==
  LET p0Swipes == SwipesOf(d, d.creator, swipe)
      p1Swipes == SwipesOf(d, d.challenger, swipe)
  IN  [status |-> MapStatus(d.status),
       tier |-> IF d.tier = "Staked" THEN 1 ELSE 2,
       creator |-> d.creator, challenger |-> d.challenger, cards |-> deck,
       p0Stake |-> d.stake, p1Stake |-> IF d.challenger # Zero THEN d.stake ELSE 0,
       p0Payout |-> SplitScore(d.p0Score).payout, p0Premium |-> SplitScore(d.p0Score).premium,
       p1Payout |-> SplitScore(d.p1Score).payout, p1Premium |-> SplitScore(d.p1Score).premium,
       p0NextCardIdx |-> NextCardIdx(p0Swipes), p1NextCardIdx |-> NextCardIdx(p1Swipes),
       settledCount |-> d.settledCount, startedAtMs |-> d.startedAtSec * SECOND,
       p0Swipes |-> p0Swipes, p1Swipes |-> p1Swipes,
       cardsSettled |-> {i \in 0 .. d.deckSize - 1 : i < d.settledCount}]

IsPlayer(duel, address) == address \in {duel.creator, duel.challenger}

PlayerScore(duel, address) ==
  IF duel.creator = address THEN duel.p0Payout - duel.p0Premium
  ELSE duel.p1Payout - duel.p1Premium

-----------------------------------------------------------------------------
(* flicky.ts: the refund that a player is offered.                          *)
ActiveRefund_AnyDeck(duel, elapsed) ==
  IF elapsed >= REFUND_TIMEOUT_MS THEN {"reveal_timeout"} ELSE {}
ActiveRefund(duel, elapsed) ==
  IF duel.cards = <<>> /\ elapsed >= REFUND_TIMEOUT_MS THEN {"reveal_timeout"}
  ELSE IF elapsed >= DUEL_TIMEOUT_MS THEN {"duel_timeout"} ELSE {}

RefundEligibility(duel, address, nowMs) ==
  CASE ~IsPlayer(duel, address) -> {}
    [] IsPlayer(duel, address) /\ duel.status = "PENDING" ->
         IF duel.creator = address THEN {"cancel_pending"} ELSE {}
    [] IsPlayer(duel, address) /\ duel.status = "ACTIVE" /\ duel.startedAtMs # 0 ->
         ActiveRefund(duel, nowMs - duel.startedAtMs)
    [] OTHER -> {}

BuildRefundDuelTx(id, kind) ==
  DuelCall(CASE kind = "cancel_pending" -> "cancelPending"
             [] kind = "reveal_timeout" -> "claimRevealTimeout"
             [] kind = "duel_timeout" -> "claimDuelTimeout", id)

-----------------------------------------------------------------------------
(* chain.ts: an amount as it is shown, with the digits below it cut off:    *)
(* scale units to a coin, of which the last shown digit is worth cut.       *)
FormatCollateral(base, scale, cut) ==
  LET abs == IF base < 0 THEN -base ELSE base
  IN  [negative |-> base < 0, whole |-> abs \div scale, fraction |-> (abs % scale) \div cut]
=============================================================================
