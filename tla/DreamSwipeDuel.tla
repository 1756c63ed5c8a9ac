--------------------------- MODULE DreamSwipeDuel ---------------------------
(***************************************************************************)
(* The duel contract, apps/contracts-evm/src/DreamSwipeDuel.sol.           *)
(*                                                                         *)
(* One action per external function that changes storage; a call that      *)
(* reverts changes nothing and is simply a disabled action.  The chain     *)
(* runs one transaction at a time, so an action is a whole call.           *)
(*                                                                         *)
(* Two things stand beside the contract: the ERC-20 balances it moves      *)
(* (bal, external), and the EIP-712 signatures that players have produced  *)
(* so far (signed), which a relayer may submit late, in any order or never *)
(* and which the contract recovers the signer of.  cardEvents is the log   *)
(* of CardSettled events, together with the evidence of the call.          *)
(*                                                                         *)
(* Abstractions: a duel id is the value of _duelSeq it was derived from    *)
(* (keccak256 taken as injective), a deck commit is the deck it commits    *)
(* to, salt included; createdAtSec, which nothing reads, is left out.      *)
(***************************************************************************)
EXTENDS Integers, Sequences, FiniteSets, FiniteSetsExt

CONSTANTS
  Players,        \* addresses that play
  NoPlayer,       \* address(0) in the challenger field
  Keepers,        \* addresses the admin may appoint as the keeper
  Tokens,         \* ERC-20 collateral tokens
  NoToken,        \* address(0) in the stakeToken field
  Vault,          \* the contract's own account in the tokens
  MaxDuels,       \* bound: duels ever created
  Decks,          \* decks a commit may stand for: sequences of markets
  Stakes,         \* stakes a creator may choose
  Fills,          \* venue execution facts the relayer may report for a swipe
  Funds,          \* each player's initial balance in each token
  MIN_DECK_SIZE,
  MAX_DECK_SIZE,
  REVEAL_TIMEOUT_SEC,
  DUEL_TIMEOUT_SEC,
  SWIPE_DEADLINE_SEC, \* how long a signature stays valid (web client)
  MaxTime,        \* bound: the last block timestamp
  MaxSignatures   \* bound: signatures ever produced

DuelIds == 1 .. MaxDuels
Cards == 0 .. MAX_DECK_SIZE - 1
Accounts == Players \cup {Vault}
Status == {"None", "Pending", "Active", "Complete"}
Tier == {"Free", "Staked"}
Direction == {"Up", "Down"}

Duel == [status : Status, tier : Tier, creator : Players \cup {NoPlayer},
         challenger : Players \cup {NoPlayer}, stakeToken : Tokens \cup {NoToken},
         stake : Nat, deckSize : Nat, settledCount : Nat,
         deckRevealed : BOOLEAN, deckCommit : Decks \cup {<<>>},
         startedAtSec : Nat, p0Score : Int, p1Score : Int]

Swipe == [exists : BOOLEAN, direction : Direction, premium : Nat, filled : Nat]

Signature == [player : Players, duelId : DuelIds, cardIdx : Cards,
              direction : Direction, nonce : Nat, deadline : Nat]

CardEvent == [winner : Direction, voided : BOOLEAN, p0Pnl : Int, p1Pnl : Int]

\* The mapping's default values: what Solidity reads at a key never written.
NoDuel == [status |-> "None", tier |-> "Free", creator |-> NoPlayer,
           challenger |-> NoPlayer, stakeToken |-> NoToken, stake |-> 0,
           deckSize |-> 0, settledCount |-> 0, deckRevealed |-> FALSE,
           deckCommit |-> <<>>, startedAtSec |-> 0, p0Score |-> 0, p1Score |-> 0]
NoSwipe == [exists |-> FALSE, direction |-> "Up", premium |-> 0, filled |-> 0]
NoEvent == [winner |-> "Up", voided |-> FALSE, p0Pnl |-> 0, p1Pnl |-> 0]

ASSUME PartiesAssumption ==
  /\ NoPlayer \notin Players
  /\ Vault \notin Players
  /\ NoToken \notin Tokens
  /\ Keepers # {}
ASSUME BoundsAssumption ==
  /\ MaxDuels \in Nat
  /\ Stakes \subseteq Nat \ {0}
  /\ Fills \subseteq [premium : Nat, filled : Nat]
  /\ Funds \in Nat
  /\ MaxTime \in Nat
  /\ MaxSignatures \in Nat
ASSUME DeckAssumption ==
  /\ MIN_DECK_SIZE \in Nat \ {0}
  /\ MAX_DECK_SIZE \in Nat
  /\ MIN_DECK_SIZE <= MAX_DECK_SIZE
  /\ \A deck \in Decks : Len(deck) \in Nat /\ deck # <<>>
ASSUME TimeoutAssumption ==
  /\ REVEAL_TIMEOUT_SEC \in Nat
  /\ DUEL_TIMEOUT_SEC \in Nat
  /\ SWIPE_DEADLINE_SEC \in Nat

VARIABLES
  duelSeq,      \* _duelSeq
  duels,        \* _duels
  decks,        \* _decks: empty until the reveal
  swipes,       \* _swipes: duel, player, card
  cardSettled,  \* _cardSettled: the settled cards of each duel
  nonces,       \* EIP-712 nonce of each player
  keeper,       \* the current keeper
  bal,          \* token balances of the players and of the contract
  now,          \* block.timestamp
  signed,       \* every signature produced so far
  cardEvents    \* the CardSettled log: the event of each settled card

vars == <<duelSeq, duels, decks, swipes, cardSettled, nonces, keeper, bal, now,
          signed, cardEvents>>

TypeOK ==
  /\ duelSeq \in 0 .. MaxDuels
  /\ duels \in [DuelIds -> Duel]
  /\ decks \in [DuelIds -> Decks \cup {<<>>}]
  /\ swipes \in [DuelIds -> [Players -> [Cards -> Swipe]]]
  /\ cardSettled \in [DuelIds -> SUBSET Cards]
  /\ nonces \in [Players -> Nat]
  /\ keeper \in Keepers
  /\ bal \in [Tokens -> [Accounts -> Nat]]
  /\ now \in Nat
  /\ signed \subseteq Signature
  /\ cardEvents \in [DuelIds -> [Cards -> CardEvent]]

Init ==
  /\ duelSeq = 0
  /\ duels = [id \in DuelIds |-> NoDuel]
  /\ decks = [id \in DuelIds |-> <<>>]
  /\ swipes = [id \in DuelIds |-> [p \in Players |-> [c \in Cards |-> NoSwipe]]]
  /\ cardSettled = [id \in DuelIds |-> {}]
  /\ nonces = [p \in Players |-> 0]
  /\ keeper \in Keepers
  /\ bal = [t \in Tokens |-> [a \in Accounts |-> IF a = Vault THEN 0 ELSE Funds]]
  /\ now = 0
  /\ signed = {}
  /\ cardEvents = [id \in DuelIds |-> [c \in Cards |-> NoEvent]]

-----------------------------------------------------------------------------
(***************************************************************************)
(* The ERC-20 calls.  A transfer reverts, with the transaction, when the   *)
(* payer's balance does not cover it (allowances are taken as granted).    *)
(***************************************************************************)
CanPay(t, from, amount) == bal[t][from] >= amount

\* A duel for nothing pays nothing out.
CanPayOut(d, amount) == d.tier = "Staked" => CanPay(d.stakeToken, Vault, amount)

Transfer(b, t, from, to, amount) ==
  [b EXCEPT ![t][from] = @ - amount, ![t][to] = @ + amount]

\* The stake pulled from a player who creates or joins a duel of this tier.
EscrowStake_Skip(p, tier, t, stake) == UNCHANGED bal
EscrowStake(p, tier, t, stake) ==
  IF tier = "Staked"
  THEN CanPay(t, p, stake) /\ bal' = Transfer(bal, t, p, Vault, stake)
  ELSE UNCHANGED bal

\* Both stakes back to their owners: _refundBoth, and finalize's draw.
RefundBoth_Pot(d) ==
  LET t == d.stakeToken IN
  Transfer(Transfer(bal, t, Vault, d.creator, d.stake), t, Vault, d.challenger, 2 * d.stake)
RefundBoth(d) ==
  LET t == d.stakeToken IN
  Transfer(Transfer(bal, t, Vault, d.creator, d.stake), t, Vault, d.challenger, d.stake)

-----------------------------------------------------------------------------
\* setKeeper: only the admin, which never changes, calls it.
SetKeeper(newKeeper) ==
  /\ keeper' = newKeeper
  /\ UNCHANGED <<duelSeq, duels, decks, swipes, cardSettled, nonces, bal, now,
                 signed, cardEvents>>

NewDuel(p, deck, size, tier, t, stake) ==
  [status |-> "Pending", tier |-> tier, creator |-> p, challenger |-> NoPlayer,
   stakeToken |-> IF tier = "Staked" THEN t ELSE NoToken, stake |-> stake,
   deckSize |-> size, settledCount |-> 0, deckRevealed |-> FALSE,
   deckCommit |-> deck, startedAtSec |-> 0, p0Score |-> 0, p1Score |-> 0]

\* createDuel.  deckSize is the caller's word: nothing ties it to the deck
\* behind the commit until the reveal.
CreateDuel(p, deck, size, tier, t, stake) ==
  /\ duelSeq < MaxDuels
  /\ size \in MIN_DECK_SIZE .. MAX_DECK_SIZE
  /\ tier = "Staked" => stake # 0
  /\ tier = "Free" => stake = 0
  /\ duelSeq' = duelSeq + 1
  /\ duels' = [duels EXCEPT ![duelSeq + 1] = NewDuel(p, deck, size, tier, t, stake)]
  /\ EscrowStake(p, tier, t, stake)
  /\ UNCHANGED <<decks, swipes, cardSettled, nonces, keeper, now, signed, cardEvents>>

CanJoin(p, d) ==
  /\ d.status = "Pending"
  /\ d.challenger = NoPlayer
  /\ p # d.creator

JoinDuel(p, id) ==
  LET d == duels[id] IN
  /\ CanJoin(p, d)
  /\ duels' = [duels EXCEPT ![id].challenger = p, ![id].status = "Active",
                            ![id].startedAtSec = now]
  /\ EscrowStake(p, d.tier, d.stakeToken, d.stake)
  /\ UNCHANGED <<duelSeq, decks, swipes, cardSettled, nonces, keeper, now, signed,
                 cardEvents>>

\* revealDeck: the deck must be the committed one and as long as declared.
Reveals_AnyDeck(d, deck) == Len(deck) = d.deckSize
Reveals(d, deck) == Len(deck) = d.deckSize /\ deck = d.deckCommit

RevealDeck(caller, id, deck) ==
  /\ caller = keeper
  /\ duels[id].status = "Active"
  /\ ~duels[id].deckRevealed
  /\ Reveals(duels[id], deck)
  /\ decks' = [decks EXCEPT ![id] = deck]
  /\ duels' = [duels EXCEPT ![id].deckRevealed = TRUE]
  /\ UNCHANGED <<duelSeq, swipes, cardSettled, nonces, keeper, bal, now, signed,
                 cardEvents>>

-----------------------------------------------------------------------------
(***************************************************************************)
(* Swipes: the player signs off-chain, the keeper submits.                 *)
(***************************************************************************)

\* signSwipe in the web client: the nonce is read from the chain, and the
\* same nonce may be signed again before the first signature is recorded.
SignSwipe(p, id, c, dir) ==
  /\ Cardinality(signed) < MaxSignatures
  /\ duels[id].status = "Active"
  /\ signed' = signed \cup {[player |-> p, duelId |-> id, cardIdx |-> c,
                             direction |-> dir, nonce |-> nonces[p],
                             deadline |-> now + SWIPE_DEADLINE_SEC]}
  /\ UNCHANGED <<duelSeq, duels, decks, swipes, cardSettled, nonces, keeper, bal,
                 now, cardEvents>>

\* ECDSA recovery of the typed data: p signed exactly these values.
Recovers_AnyDirection(p, id, c, dir, nonce, deadline) ==
  \E s \in signed : /\ s.player = p /\ s.duelId = id /\ s.cardIdx = c
                    /\ s.nonce = nonce /\ s.deadline = deadline
Recovers(p, id, c, dir, nonce, deadline) ==
  [player |-> p, duelId |-> id, cardIdx |-> c, direction |-> dir,
   nonce |-> nonce, deadline |-> deadline] \in signed

CanRecord_AnyStatus(id, p, c) ==
  /\ duels[id].deckRevealed
  /\ c < duels[id].deckSize
  /\ p \in {duels[id].creator, duels[id].challenger}
  /\ ~swipes[id][p][c].exists
CanRecord(id, p, c) ==
  /\ duels[id].status = "Active"
  /\ duels[id].deckRevealed
  /\ c < duels[id].deckSize
  /\ p \in {duels[id].creator, duels[id].challenger}
  /\ ~swipes[id][p][c].exists

RecordSwipe(caller, id, p, c, dir, fill, nonce, deadline) ==
  /\ caller = keeper
  /\ CanRecord(id, p, c)
  /\ now <= deadline
  /\ nonce = nonces[p]
  /\ Recovers(p, id, c, dir, nonce, deadline)
  /\ nonces' = [nonces EXCEPT ![p] = @ + 1]
  /\ swipes' = [swipes EXCEPT ![id][p][c] =
       [exists |-> TRUE, direction |-> dir, premium |-> fill.premium,
        filled |-> fill.filled]]
  /\ UNCHANGED <<duelSeq, duels, decks, cardSettled, keeper, bal, now, signed,
                 cardEvents>>

-----------------------------------------------------------------------------
(***************************************************************************)
(* Settlement, one card at a time, then the payout.                        *)
(***************************************************************************)

\* _scoreSwipe: payout minus premium; a missing swipe scores zero.
ScoreSwipe(s, winner, voided) ==
  IF ~s.exists THEN 0
  ELSE (CASE voided -> s.filled \div 2
          [] ~voided /\ s.direction = winner -> s.filled
          [] OTHER -> 0) - s.premium

CanSettle(id, c) ==
  /\ duels[id].status = "Active"
  /\ duels[id].deckRevealed
  /\ c < duels[id].deckSize
  /\ c \notin cardSettled[id]

Accrue_Last(d, p0Pnl, p1Pnl) ==
  [d EXCEPT !.settledCount = @ + 1, !.p0Score = p0Pnl, !.p1Score = p1Pnl]
Accrue(d, p0Pnl, p1Pnl) ==
  [d EXCEPT !.settledCount = @ + 1, !.p0Score = @ + p0Pnl, !.p1Score = @ + p1Pnl]

SettleCard(caller, id, c, winner, voided) ==
  LET d == duels[id]
      p0Pnl == ScoreSwipe(swipes[id][d.creator][c], winner, voided)
      p1Pnl == ScoreSwipe(swipes[id][d.challenger][c], winner, voided)
  IN
  /\ caller = keeper
  /\ CanSettle(id, c)
  /\ cardSettled' = [cardSettled EXCEPT ![id] = @ \cup {c}]
  /\ duels' = [duels EXCEPT ![id] = Accrue(d, p0Pnl, p1Pnl)]
  /\ cardEvents' = [cardEvents EXCEPT ![id][c] =
       [winner |-> winner, voided |-> voided, p0Pnl |-> p0Pnl, p1Pnl |-> p1Pnl]]
  /\ UNCHANGED <<duelSeq, decks, swipes, nonces, keeper, bal, now, signed>>

\* Higher realized PnL wins; NoPlayer stands for an exact tie.
Winner(d) == CASE d.p0Score > d.p1Score -> d.creator
               [] d.p1Score > d.p0Score -> d.challenger
               [] OTHER -> NoPlayer

CanFinalize_Early(d) == d.status = "Active" /\ d.deckRevealed
CanFinalize(d) == d.status = "Active" /\ d.settledCount = d.deckSize

\* Every way a duel ends leaves it Complete; nothing ends it twice.
Close_Forgets(id) == UNCHANGED duels
Close(id) == duels' = [duels EXCEPT ![id].status = "Complete"]

Finalize(id) ==
  LET d == duels[id] IN
  /\ CanFinalize(d) /\ CanPayOut(d, 2 * d.stake)
  /\ Close(id)
  /\ bal' = IF d.tier # "Staked" THEN bal
            ELSE IF Winner(d) = NoPlayer THEN RefundBoth(d)
            ELSE Transfer(bal, d.stakeToken, Vault, Winner(d), 2 * d.stake)
  /\ UNCHANGED <<duelSeq, decks, swipes, cardSettled, nonces, keeper, now, signed,
                 cardEvents>>

-----------------------------------------------------------------------------
(***************************************************************************)
(* Refunds.                                                                *)
(***************************************************************************)
CanCancel(p, d) == d.status = "Pending" /\ p = d.creator /\ CanPayOut(d, d.stake)

CancelPending(p, id) ==
  LET d == duels[id] IN
  /\ CanCancel(p, d)
  /\ Close(id)
  /\ bal' = IF d.tier # "Staked" THEN bal
            ELSE Transfer(bal, d.stakeToken, Vault, d.creator, d.stake)
  /\ UNCHANGED <<duelSeq, decks, swipes, cardSettled, nonces, keeper, now, signed,
                 cardEvents>>

\* The common tail of the two timeout claims: an Active duel has two players.
CanRefund(d) == d.status = "Active" /\ CanPayOut(d, 2 * d.stake)

RefundActive(id) ==
  LET d == duels[id] IN
  /\ CanRefund(d)
  /\ Close(id)
  /\ bal' = IF d.tier = "Staked" THEN RefundBoth(d) ELSE bal
  /\ UNCHANGED <<duelSeq, decks, swipes, cardSettled, nonces, keeper, now, signed,
                 cardEvents>>

RevealTimedOut(d) == ~d.deckRevealed /\ now >= d.startedAtSec + REVEAL_TIMEOUT_SEC

ClaimRevealTimeout(id) ==
  /\ RevealTimedOut(duels[id])
  /\ RefundActive(id)

DuelTimedOut_Revealed(d) ==
  d.deckRevealed /\ now >= d.startedAtSec + DUEL_TIMEOUT_SEC
DuelTimedOut(d) == now >= d.startedAtSec + DUEL_TIMEOUT_SEC

ClaimDuelTimeout(id) ==
  /\ DuelTimedOut(duels[id])
  /\ RefundActive(id)

\* A new block: block.timestamp moves on.
Tick ==
  /\ now < MaxTime
  /\ now' = now + 1
  /\ UNCHANGED <<duelSeq, duels, decks, swipes, cardSettled, nonces, keeper, bal,
                 signed, cardEvents>>

Next ==
  \/ \E k \in Keepers : SetKeeper(k)
  \/ \E p \in Players, deck \in Decks, size \in MIN_DECK_SIZE .. MAX_DECK_SIZE,
        tier \in Tier, t \in Tokens, stake \in Stakes \cup {0} :
        CreateDuel(p, deck, size, tier, t, stake)
  \/ \E p \in Players, id \in DuelIds : JoinDuel(p, id)
  \/ \E k \in Keepers, id \in DuelIds, deck \in Decks : RevealDeck(k, id, deck)
  \/ \E p \in Players, id \in DuelIds, c \in Cards, dir \in Direction :
        SignSwipe(p, id, c, dir)
  \/ \E k \in Keepers, s \in signed, dir \in Direction, fill \in Fills :
        RecordSwipe(k, s.duelId, s.player, s.cardIdx, dir, fill, s.nonce, s.deadline)
  \/ \E k \in Keepers, id \in DuelIds, c \in Cards, w \in Direction, v \in BOOLEAN :
        SettleCard(k, id, c, w, v)
  \/ \E id \in DuelIds : Finalize(id)
  \/ \E p \in Players, id \in DuelIds : CancelPending(p, id)
  \/ \E id \in DuelIds : ClaimRevealTimeout(id)
  \/ \E id \in DuelIds : ClaimDuelTimeout(id)
  \/ Tick

Spec == Init /\ [][Next]_vars

\* Blocks keep coming, and the duel timeout, which anyone may claim, is
\* claimed: a player with a stake in the duel has reason to.
Fairness == WF_vars(Tick) /\ \A id \in DuelIds : WF_vars(ClaimDuelTimeout(id))
FairSpec == Spec /\ Fairness
-----------------------------------------------------------------------------
(***************************************************************************)
(* Properties.                                                             *)
(***************************************************************************)

\* The fields of a duel agree with its status: who its players are, that they
\* differ, and that a token is named exactly when a stake is.
WellFormed(d) ==
  /\ d.status = "None" => d = NoDuel
  /\ d.status # "None" => d.creator \in Players /\ d.deckSize \in MIN_DECK_SIZE .. MAX_DECK_SIZE
  /\ d.status = "Pending" => d.challenger = NoPlayer /\ ~d.deckRevealed /\ d.settledCount = 0
  /\ d.status = "Active" => d.challenger \in Players
  /\ d.challenger \in Players => d.challenger # d.creator
  /\ d.tier = "Staked" => d.stakeToken \in Tokens /\ d.stake \in Stakes
  /\ d.tier = "Free" => d.stakeToken = NoToken /\ d.stake = 0

DuelsWellFormed == \A id \in DuelIds : WellFormed(duels[id])

\* What the contract owes for a duel: the stakes it still holds for it.
Held(d) == CASE d.status = "Pending" -> d.stake
             [] d.status = "Active" -> 2 * d.stake
             [] OTHER -> 0

\* Of that, what it owes in one token.
HeldIn(t, d) == IF d.stakeToken = t THEN Held(d) ELSE 0

\* The pooled balance of each token is exactly the sum of the stakes of the
\* duels still open in it: no payout is ever funded by another duel's escrow,
\* and none leaves a residue behind.
EscrowExact ==
  \A t \in Tokens :
    bal[t][Vault] = SumFunctionOnSet([id \in DuelIds |-> HeldIn(t, duels[id])], DuelIds)

\* The relayer can neither forge nor redirect, flip or replay a swipe: each
\* recorded one was signed by its player, one of the duel's two, for this duel,
\* card and direction; and a player's one nonce, shared by all their duels,
\* counts the swipes recorded for them anywhere, so each signature is spent at
\* most once and none out of turn.
SwipesAuthorized ==
  /\ \A id \in DuelIds, p \in Players, c \in Cards :
       swipes[id][p][c].exists =>
         /\ p \in {duels[id].creator, duels[id].challenger}
         /\ \E s \in signed : /\ s.player = p /\ s.duelId = id /\ s.cardIdx = c
                              /\ s.direction = swipes[id][p][c].direction
                              /\ s.nonce < nonces[p]
  /\ \A p \in Players :
       nonces[p] = Cardinality({x \in DuelIds \X Cards : swipes[x[1]][p][x[2]].exists})

\* The counter that gates finalize is the number of cards really settled, all
\* of them cards of the deck, and each running score the sum of their PnLs: no
\* card counted twice, none lost.
ScoreIsSumOfEvents ==
  \A id \in DuelIds :
    /\ cardSettled[id] \subseteq 0 .. duels[id].deckSize - 1
    /\ duels[id].settledCount = Cardinality(cardSettled[id])
    /\ duels[id].p0Score = SumFunctionOnSet([c \in Cards |-> cardEvents[id][c].p0Pnl], cardSettled[id])
    /\ duels[id].p1Score = SumFunctionOnSet([c \in Cards |-> cardEvents[id][c].p1Pnl], cardSettled[id])

\* The deck in play is the one committed to when the duel was created, before
\* anyone could see it; cards are settled and swiped in no other deck.
DeckWasCommitted ==
  \A id \in DuelIds :
    LET d == duels[id] IN
    /\ d.deckRevealed => decks[id] = d.deckCommit /\ Len(decks[id]) = d.deckSize
    /\ ~d.deckRevealed => cardSettled[id] = {} /\ \A p \in Players, c \in Cards :
                                                    ~swipes[id][p][c].exists

\* The outcome of a duel that is Complete is final: no late swipe, settlement,
\* join, reveal or second payout touches it.
CompleteIsFinal ==
  [][\A id \in DuelIds : duels[id].status = "Complete" =>
       /\ duels'[id] = duels[id]
       /\ swipes'[id] = swipes[id]
       /\ cardSettled'[id] = cardSettled[id]]_vars

\* By how much a player of the duel is ahead.
Lead(d, p) == IF p = d.creator THEN d.p0Score - d.p1Score ELSE d.p1Score - d.p0Score

\* A player walks away from a joined, staked duel with anything but their own
\* stake only when every card was settled: with the whole pot only when their
\* score was strictly the higher, with nothing only when it was strictly the lower.
PotIsEarned ==
  [][\A id \in DuelIds :
       LET d == duels[id] IN
       d.status = "Active" /\ duels'[id].status = "Complete" /\ d.tier = "Staked" =>
         \A p \in {d.creator, d.challenger} :
           LET gain == bal'[d.stakeToken][p] - bal[d.stakeToken][p] IN
           /\ gain # d.stake => cardSettled[id] = 0 .. d.deckSize - 1
           /\ gain > d.stake => Lead(d, p) > 0 /\ gain = 2 * d.stake
           /\ gain < d.stake => Lead(d, p) < 0 /\ gain = 0]_vars

\* Escrow is never trapped: an Active duel (started early enough for the bounded
\* clock to reach its timeout) completes, whatever keeper and opponent do.
StakesComeBack ==
  \A id \in DuelIds :
    (duels[id].status = "Active" /\ duels[id].startedAtSec + DUEL_TIMEOUT_SEC <= MaxTime)
      ~> (duels[id].status = "Complete")

\* Each card's events are what the swipes on that card earned: the docstring's
\* "duelScore = sum(cardPnl)", per player and per card.
EverySwipeIsScored ==
  \A id \in DuelIds : \A c \in cardSettled[id] :
    LET d == duels[id]
        e == cardEvents[id][c] IN
    /\ e.p0Pnl = ScoreSwipe(swipes[id][d.creator][c], e.winner, e.voided)
    /\ e.p1Pnl = ScoreSwipe(swipes[id][d.challenger][c], e.winner, e.voided)

-----------------------------------------------------------------------------
(***************************************************************************)
(* The contract implements DuelEscrow.                                     *)
(***************************************************************************)
PhaseOf(status) == CASE status = "None" -> "unopened"
                     [] status = "Pending" -> "open"
                     [] status = "Active" -> "matched"
                     [] status = "Complete" -> "paid"

PotOf(d) == [phase |-> PhaseOf(d.status), token |-> d.stakeToken, stake |-> d.stake,
             first |-> d.creator, second |-> d.challenger]

Escrow == INSTANCE DuelEscrow WITH
  wallet <- [t \in Tokens |-> [p \in Players |-> bal[t][p]]],
  vault <- [t \in Tokens |-> bal[t][Vault]],
  pots <- [id \in DuelIds |-> PotOf(duels[id])]

\* Money moves only as the escrow promises: into a pot by the two players in
\* equal stakes, and out of it once, whole, to those two.
ImplementsEscrow == Escrow!Spec
=============================================================================
