------------------------ MODULE DreamSwipeDuelProofs ------------------------
(***************************************************************************)
(* What the duel contract keeps true of its types, its money, its decks,   *)
(* its swipes and its scores, for any number of players, duels, tokens and *)
(* cards; that it implements the escrow DuelEscrow; that the client offers *)
(* the refunds it grants; and that the services' model of it is one.       *)
(*                                                                         *)
(* The inductive invariant, DuelInv, is the conjunction of the five safety *)
(* properties with the agreement of each duel's fields (DuelsWellFormed)   *)
(* and the freshness of ids (FreshIds): a created duel overwrites one that *)
(* held nothing, had no swipes and no settled cards.                       *)
(***************************************************************************)
EXTENDS DuelViews, SumProofs

\* A transfer between two accounts of a token keeps the balances well typed when
\* the payer covers it.
LEMMA TransferType ==
  ASSUME NEW b \in [Tokens -> [Accounts -> Nat]], NEW t \in Tokens,
         NEW x \in Accounts, NEW y \in Accounts, NEW n \in Nat, b[t][x] >= n
  PROVE  Transfer(b, t, x, y, n) \in [Tokens -> [Accounts -> Nat]]
BY DEF Transfer

\* The typing invariant holds only together with the agreement of each duel's
\* fields: a payout is typed because an Active duel has two players.
TypeInv == TypeOK /\ DuelsWellFormed

LEMMA InitType == Init => TypeInv
BY PartiesAssumption, BoundsAssumption, DeckAssumption
   DEF Init, TypeInv, TypeOK, DuelsWellFormed, WellFormed, NoDuel, NoSwipe, NoEvent,
       Duel, Swipe, CardEvent, Status, Tier, Direction, Accounts, DuelIds, Cards

LEMMA SetKeeperType ==
  ASSUME TypeInv, NEW k \in Keepers, SetKeeper(k)
  PROVE  TypeInv'
BY DEF TypeInv, TypeOK, DuelsWellFormed, SetKeeper

LEMMA EscrowStakeType ==
  ASSUME TypeOK, NEW p \in Players, NEW tier \in Tier, NEW t, NEW stake \in Nat,
         tier = "Staked" => t \in Tokens, EscrowStake(p, tier, t, stake)
  PROVE  bal' \in [Tokens -> [Accounts -> Nat]]
<1>1. CASE tier = "Staked"
  <2>1. bal \in [Tokens -> [Accounts -> Nat]] /\ p \in Accounts /\ Vault \in Accounts
    BY DEF TypeOK, Accounts
  <2>2. bal[t][p] >= stake /\ bal' = Transfer(bal, t, p, Vault, stake)
    BY <1>1 DEF EscrowStake, CanPay
  <2>3. QED
    BY <1>1, <2>1, <2>2, TransferType
<1>2. CASE tier # "Staked"
  BY <1>2 DEF EscrowStake, TypeOK
<1>3. QED BY <1>1, <1>2

LEMMA CreateDuelType ==
  ASSUME TypeInv, NEW p \in Players, NEW deck \in Decks,
         NEW size \in MIN_DECK_SIZE .. MAX_DECK_SIZE, NEW tier \in Tier,
         NEW t \in Tokens, NEW stake \in Stakes \cup {0},
         CreateDuel(p, deck, size, tier, t, stake)
  PROVE  TypeInv'
<1> USE PartiesAssumption, BoundsAssumption, DeckAssumption
<1> DEFINE new == NewDuel(p, deck, size, tier, t, stake)
<1>1. new \in Duel /\ WellFormed(new)
  BY DEF CreateDuel, NewDuel, Duel, WellFormed, Status, Tier
<1>2. duelSeq + 1 \in DuelIds /\ duelSeq' \in 0 .. MaxDuels
  BY DEF CreateDuel, TypeInv, TypeOK, DuelIds
<1>3. bal' \in [Tokens -> [Accounts -> Nat]]
  BY EscrowStakeType DEF CreateDuel, TypeInv
<1>4. duels' = [duels EXCEPT ![duelSeq + 1] = new]
  BY DEF CreateDuel
<1> HIDE DEF new
<1>5. duels' \in [DuelIds -> Duel] /\ DuelsWellFormed'
  BY <1>1, <1>2, <1>4 DEF TypeInv, TypeOK, DuelsWellFormed
<1>6. QED
  BY <1>2, <1>3, <1>5 DEF TypeInv, TypeOK, CreateDuel

LEMMA JoinDuelType ==
  ASSUME TypeInv, NEW p \in Players, NEW id \in DuelIds, JoinDuel(p, id)
  PROVE  TypeInv'
<1> USE PartiesAssumption, BoundsAssumption
<1> DEFINE new == [duels[id] EXCEPT !.challenger = p, !.status = "Active",
                                    !.startedAtSec = now]
<1>1. new \in Duel /\ WellFormed(new)
  BY DEF JoinDuel, CanJoin, TypeInv, TypeOK, DuelsWellFormed, Duel, WellFormed, Status
<1>2. bal' \in [Tokens -> [Accounts -> Nat]]
  <2>1. duels[id] \in Duel /\ WellFormed(duels[id])
    BY DEF TypeInv, TypeOK, DuelsWellFormed
  <2>2. duels[id].tier \in Tier /\ duels[id].stake \in Nat
    BY <2>1 DEF Duel
  <2>3. QED
    BY <2>1, <2>2, EscrowStakeType DEF JoinDuel, TypeInv, WellFormed
<1>3. duels' = [duels EXCEPT ![id] = new]
  BY DEF JoinDuel, TypeInv, TypeOK
<1> HIDE DEF new
<1>4. duels' \in [DuelIds -> Duel] /\ DuelsWellFormed'
  BY <1>1, <1>3 DEF TypeInv, TypeOK, DuelsWellFormed
<1>5. QED
  BY <1>2, <1>4 DEF TypeInv, TypeOK, JoinDuel

LEMMA RevealDeckType ==
  ASSUME TypeInv, NEW k \in Keepers, NEW id \in DuelIds, NEW deck \in Decks,
         RevealDeck(k, id, deck)
  PROVE  TypeInv'
<1> DEFINE new == [duels[id] EXCEPT !.deckRevealed = TRUE]
<1>1. new \in Duel /\ WellFormed(new)
  BY DEF RevealDeck, TypeInv, TypeOK, DuelsWellFormed, Duel, WellFormed, Status
<1>2. duels' = [duels EXCEPT ![id] = new]
  BY DEF RevealDeck, TypeInv, TypeOK
<1> HIDE DEF new
<1>3. QED
  BY <1>1, <1>2 DEF TypeInv, TypeOK, DuelsWellFormed, RevealDeck

LEMMA SignSwipeType ==
  ASSUME TypeInv, NEW p \in Players, NEW id \in DuelIds, NEW c \in Cards,
         NEW dir \in Direction, SignSwipe(p, id, c, dir)
  PROVE  TypeInv'
<1>1. nonces[p] \in Nat /\ now + SWIPE_DEADLINE_SEC \in Nat
  BY TimeoutAssumption DEF TypeInv, TypeOK
<1>2. signed' \subseteq Signature
  BY <1>1 DEF SignSwipe, TypeInv, TypeOK, Signature
<1>3. QED
  BY <1>2 DEF TypeInv, TypeOK, DuelsWellFormed, SignSwipe

LEMMA RecordSwipeType ==
  ASSUME TypeInv, NEW k \in Keepers, NEW id \in DuelIds, NEW p \in Players,
         NEW c \in Cards, NEW dir \in Direction, NEW fill \in Fills,
         NEW nonce, NEW deadline, RecordSwipe(k, id, p, c, dir, fill, nonce, deadline)
  PROVE  TypeInv'
<1> DEFINE new == [exists |-> TRUE, direction |-> dir, premium |-> fill.premium,
                   filled |-> fill.filled]
<1>1. new \in Swipe
  BY BoundsAssumption DEF Swipe
<1>2. swipes' = [swipes EXCEPT ![id][p][c] = new]
  BY DEF RecordSwipe
<1> HIDE DEF new
<1>3. swipes' \in [DuelIds -> [Players -> [Cards -> Swipe]]]
  BY <1>1, <1>2 DEF TypeInv, TypeOK
<1>4. nonces' \in [Players -> Nat]
  BY DEF RecordSwipe, TypeInv, TypeOK
<1>5. QED
  BY <1>3, <1>4 DEF TypeInv, TypeOK, DuelsWellFormed, RecordSwipe

LEMMA ScoreSwipeType ==
  ASSUME NEW s \in Swipe, NEW w, NEW v \in BOOLEAN
  PROVE  ScoreSwipe(s, w, v) \in Int
BY DEF ScoreSwipe, Swipe

LEMMA SettleCardType ==
  ASSUME TypeInv, NEW k \in Keepers, NEW id \in DuelIds, NEW c \in Cards,
         NEW w \in Direction, NEW v \in BOOLEAN, SettleCard(k, id, c, w, v)
  PROVE  TypeInv'
<1> DEFINE d == duels[id]
           p0 == ScoreSwipe(swipes[id][d.creator][c], w, v)
           p1 == ScoreSwipe(swipes[id][d.challenger][c], w, v)
           new == Accrue(d, p0, p1)
           event == [winner |-> w, voided |-> v, p0Pnl |-> p0, p1Pnl |-> p1]
<1>1. d \in Duel /\ WellFormed(d) /\ d.status = "Active"
  BY DEF SettleCard, CanSettle, TypeInv, TypeOK, DuelsWellFormed
<1>2. d.creator \in Players /\ d.challenger \in Players
  BY <1>1 DEF WellFormed
<1>3. p0 \in Int /\ p1 \in Int
  BY <1>2, ScoreSwipeType DEF TypeInv, TypeOK
<1>4. /\ duels' = [duels EXCEPT ![id] = new]
      /\ cardEvents' = [cardEvents EXCEPT ![id][c] = event]
      /\ cardSettled' = [cardSettled EXCEPT ![id] = @ \cup {c}]
  BY DEF SettleCard
<1> HIDE DEF p0, p1, d
<1>5. event \in CardEvent
  BY <1>3 DEF CardEvent
<1>6. new \in Duel /\ WellFormed(new)
  <2>0. d.settledCount + 1 \in Nat /\ d.p0Score + p0 \in Int /\ d.p1Score + p1 \in Int
    BY <1>1, <1>3 DEF Duel
  <2>1. new \in Duel
    BY <1>1, <2>0 DEF Accrue, Duel
  <2>2. /\ new.status = "Active" /\ new.creator = d.creator /\ new.challenger = d.challenger
        /\ new.tier = d.tier /\ new.stakeToken = d.stakeToken /\ new.stake = d.stake
        /\ new.deckSize = d.deckSize
    BY <1>1 DEF Accrue, Duel
  <2> HIDE DEF new
  <2>3. QED
    BY <1>1, <2>1, <2>2 DEF WellFormed
<1> HIDE DEF new, event
<1>7. duels' \in [DuelIds -> Duel] /\ DuelsWellFormed'
  BY <1>4, <1>6 DEF TypeInv, TypeOK, DuelsWellFormed
<1>8. cardEvents' \in [DuelIds -> [Cards -> CardEvent]]
  BY <1>4, <1>5 DEF TypeInv, TypeOK
<1>9. cardSettled' \in [DuelIds -> SUBSET Cards]
  BY <1>4 DEF TypeInv, TypeOK
<1>10. QED
  BY <1>7, <1>8, <1>9 DEF TypeInv, TypeOK, SettleCard

\* Closing a duel keeps its shape.
LEMMA CloseType ==
  ASSUME TypeInv, NEW id \in DuelIds, duels[id].status # "None", Close(id)
  PROVE  duels' \in [DuelIds -> Duel] /\ DuelsWellFormed'
<1> DEFINE d == duels[id]
           new == [d EXCEPT !.status = "Complete"]
<1>0. d \in Duel /\ WellFormed(d) /\ d.status # "None"
  BY DEF TypeInv, TypeOK, DuelsWellFormed
<1> HIDE DEF d
<1>1. new \in Duel /\ WellFormed(new)
  BY <1>0 DEF Duel, WellFormed, Status
<1> USE DEF d
<1>2. duels' = [duels EXCEPT ![id] = new]
  BY DEF Close, TypeInv, TypeOK
<1> HIDE DEF new
<1>3. QED
  BY <1>1, <1>2 DEF TypeInv, TypeOK, DuelsWellFormed

\* What the closing actions rely on: an Active staked duel names a token and two
\* distinct players, and the shares it pays out are natural numbers.
LEMMA ActiveDuel ==
  ASSUME TypeInv, NEW id \in DuelIds, duels[id].status = "Active"
  PROVE  /\ duels[id].creator \in Players /\ duels[id].challenger \in Players
         /\ duels[id].creator # duels[id].challenger
         /\ duels[id].stake \in Nat /\ 2 * duels[id].stake \in Nat
         /\ duels[id].tier = "Staked" => duels[id].stakeToken \in Tokens
         /\ duels[id].tier # "Staked" => duels[id].stakeToken = NoToken
<1>1. duels[id] \in Duel /\ WellFormed(duels[id])
  BY DEF TypeInv, TypeOK, DuelsWellFormed
<1>2. QED
  BY <1>1 DEF WellFormed, Duel, Tier

LEMMA RefundBothType ==
  ASSUME TypeInv, NEW id \in DuelIds, duels[id].status = "Active",
         duels[id].tier = "Staked",
         CanPay(duels[id].stakeToken, Vault, 2 * duels[id].stake)
  PROVE  RefundBoth(duels[id]) \in [Tokens -> [Accounts -> Nat]]
<1> DEFINE d == duels[id]
           t == d.stakeToken
           mid == Transfer(bal, t, Vault, d.creator, d.stake)
<1>1. /\ t \in Tokens /\ d.stake \in Nat
      /\ d.creator \in Accounts \ {Vault} /\ d.challenger \in Accounts /\ Vault \in Accounts
      /\ bal \in [Tokens -> [Accounts -> Nat]]
  BY ActiveDuel, PartiesAssumption DEF TypeInv, TypeOK, Accounts
<1>2. bal[t][Vault] >= 2 * d.stake
  BY DEF CanPay
<1> HIDE DEF d, t
<1>3. bal[t][Vault] >= d.stake
  BY <1>1, <1>2
<1>4. mid \in [Tokens -> [Accounts -> Nat]]
  BY <1>1, <1>3, TransferType
<1>5. mid[t][Vault] = bal[t][Vault] - d.stake
  BY <1>1 DEF Transfer
<1>6. mid[t][Vault] >= d.stake
  BY <1>1, <1>2, <1>5
<1> HIDE DEF mid
<1>7. Transfer(mid, t, Vault, d.challenger, d.stake) \in [Tokens -> [Accounts -> Nat]]
  BY <1>1, <1>4, <1>6, TransferType
<1>8. QED
  BY <1>7 DEF RefundBoth, d, t, mid

LEMMA FinalizeType ==
  ASSUME TypeInv, NEW id \in DuelIds, Finalize(id)
  PROVE  TypeInv'
<1> DEFINE d == duels[id]
<1>1. d.status = "Active" /\ Close(id)
  BY DEF Finalize, CanFinalize
<1>2. duels' \in [DuelIds -> Duel] /\ DuelsWellFormed'
  BY <1>1, CloseType
<1>3. bal' \in [Tokens -> [Accounts -> Nat]]
  <2>1. CASE d.tier # "Staked"
    BY <2>1 DEF Finalize, TypeInv, TypeOK
  <2>2. CASE d.tier = "Staked" /\ Winner(d) = NoPlayer
    BY <1>1, <2>2, RefundBothType DEF Finalize, CanPayOut
  <2>3. CASE d.tier = "Staked" /\ Winner(d) # NoPlayer
    <3>1. /\ d.stakeToken \in Tokens /\ 2 * d.stake \in Nat
          /\ Winner(d) \in Accounts /\ Vault \in Accounts
          /\ bal \in [Tokens -> [Accounts -> Nat]]
      BY <1>1, <2>3, ActiveDuel DEF Winner, TypeInv, TypeOK, Accounts
    <3>2. /\ bal[d.stakeToken][Vault] >= 2 * d.stake
          /\ bal' = Transfer(bal, d.stakeToken, Vault, Winner(d), 2 * d.stake)
      BY <2>3 DEF Finalize, CanPayOut, CanPay
    <3>3. QED
      BY <3>1, <3>2, TransferType
  <2>4. QED
    BY <2>1, <2>2, <2>3
<1>4. QED
  BY <1>2, <1>3 DEF TypeInv, TypeOK, Finalize

LEMMA CancelPendingType ==
  ASSUME TypeInv, NEW p \in Players, NEW id \in DuelIds, CancelPending(p, id)
  PROVE  TypeInv'
<1> DEFINE d == duels[id]
<1>1. d \in Duel /\ WellFormed(d) /\ d.status = "Pending" /\ Close(id)
  BY DEF CancelPending, CanCancel, TypeInv, TypeOK, DuelsWellFormed
<1>2. duels' \in [DuelIds -> Duel] /\ DuelsWellFormed'
  BY <1>1, CloseType
<1>3. bal' \in [Tokens -> [Accounts -> Nat]]
  <2>1. CASE d.tier # "Staked"
    BY <2>1 DEF CancelPending, TypeInv, TypeOK
  <2>2. CASE d.tier = "Staked"
    <3>1. /\ d.stakeToken \in Tokens /\ d.stake \in Nat
          /\ d.creator \in Accounts /\ Vault \in Accounts
          /\ bal \in [Tokens -> [Accounts -> Nat]]
      BY <1>1, <2>2 DEF WellFormed, Duel, TypeInv, TypeOK, Accounts
    <3>2. /\ bal[d.stakeToken][Vault] >= d.stake
          /\ bal' = Transfer(bal, d.stakeToken, Vault, d.creator, d.stake)
      BY <2>2 DEF CancelPending, CanCancel, CanPayOut, CanPay
    <3>3. QED
      BY <3>1, <3>2, TransferType
  <2>3. QED
    BY <2>1, <2>2
<1>4. QED
  BY <1>2, <1>3 DEF TypeInv, TypeOK, CancelPending

LEMMA RefundActiveType ==
  ASSUME TypeInv, NEW id \in DuelIds, RefundActive(id)
  PROVE  TypeInv'
<1> DEFINE d == duels[id]
<1>1. d.status = "Active" /\ Close(id)
  BY DEF RefundActive, CanRefund
<1>2. duels' \in [DuelIds -> Duel] /\ DuelsWellFormed'
  BY <1>1, CloseType
<1>3. bal' \in [Tokens -> [Accounts -> Nat]]
  <2>1. CASE d.tier # "Staked"
    BY <2>1 DEF RefundActive, TypeInv, TypeOK
  <2>2. CASE d.tier = "Staked"
    BY <1>1, <2>2, RefundBothType DEF RefundActive, CanRefund, CanPayOut
  <2>3. QED
    BY <2>1, <2>2
<1>4. QED
  BY <1>2, <1>3 DEF TypeInv, TypeOK, RefundActive

LEMMA TickType ==
  ASSUME TypeInv, Tick
  PROVE  TypeInv'
BY DEF TypeInv, TypeOK, DuelsWellFormed, Tick

\* Every action, and stuttering, keeps the invariant.
LEMMA StepType == TypeInv /\ [Next]_vars => TypeInv'
<1> SUFFICES ASSUME TypeInv, [Next]_vars PROVE TypeInv'
  OBVIOUS
<1>1. CASE \E k \in Keepers : SetKeeper(k)
  BY <1>1, SetKeeperType
<1>2. CASE \E p \in Players, deck \in Decks, size \in MIN_DECK_SIZE .. MAX_DECK_SIZE,
             tier \in Tier, t \in Tokens, stake \in Stakes \cup {0} :
             CreateDuel(p, deck, size, tier, t, stake)
  BY <1>2, CreateDuelType
<1>3. CASE \E p \in Players, id \in DuelIds : JoinDuel(p, id)
  BY <1>3, JoinDuelType
<1>4. CASE \E k \in Keepers, id \in DuelIds, deck \in Decks : RevealDeck(k, id, deck)
  BY <1>4, RevealDeckType
<1>5. CASE \E p \in Players, id \in DuelIds, c \in Cards, dir \in Direction :
             SignSwipe(p, id, c, dir)
  BY <1>5, SignSwipeType
<1>6. CASE \E k \in Keepers, s \in signed, dir \in Direction, fill \in Fills :
             RecordSwipe(k, s.duelId, s.player, s.cardIdx, dir, fill, s.nonce, s.deadline)
  <2>1. \A s \in signed : s.duelId \in DuelIds /\ s.player \in Players /\ s.cardIdx \in Cards
    BY DEF TypeInv, TypeOK, Signature
  <2>2. QED
    BY <1>6, <2>1, RecordSwipeType
<1>7. CASE \E k \in Keepers, id \in DuelIds, c \in Cards, w \in Direction, v \in BOOLEAN :
             SettleCard(k, id, c, w, v)
  BY <1>7, SettleCardType
<1>8. CASE \E id \in DuelIds : Finalize(id)
  BY <1>8, FinalizeType
<1>9. CASE \E p \in Players, id \in DuelIds : CancelPending(p, id)
  BY <1>9, CancelPendingType
<1>10. CASE \E id \in DuelIds : ClaimRevealTimeout(id)
  BY <1>10, RefundActiveType DEF ClaimRevealTimeout
<1>11. CASE \E id \in DuelIds : ClaimDuelTimeout(id)
  BY <1>11, RefundActiveType DEF ClaimDuelTimeout
<1>12. CASE Tick
  BY <1>12, TickType
<1>13. CASE UNCHANGED vars
  BY <1>13 DEF TypeInv, TypeOK, DuelsWellFormed, vars
<1>14. QED
  BY <1>1, <1>2, <1>3, <1>4, <1>5, <1>6, <1>7, <1>8, <1>9, <1>10, <1>11, <1>12, <1>13
     DEF Next

LEMMA TypeInvariant == Spec => []TypeInv
<1>1. QED
  BY InitType, StepType, PTL DEF Spec

\* Every reachable state is well typed: no balance, score or counter ever leaves
\* its range, whatever the callers do.
THEOREM TypeCorrect == Spec => []TypeOK
<1>1. TypeInv => TypeOK
  BY DEF TypeInv
<1>2. QED
  BY <1>1, TypeInvariant, PTL

-----------------------------------------------------------------------------
\* The ids not yet handed out name duels that do not exist.
FreshIds == \A id \in DuelIds : id > duelSeq => duels[id].status = "None"

RefInv == TypeInv /\ FreshIds

LEMMA FreshIdsStep ==
  ASSUME TypeInv, FreshIds, [Next]_vars
  PROVE  FreshIds'
<1>1. CASE duelSeq' = duelSeq /\ \A id \in DuelIds : duels[id].status = "None" => duels'[id].status = "None"
  BY <1>1 DEF FreshIds
<1>2. CASE \E p \in Players, deck \in Decks, size \in MIN_DECK_SIZE .. MAX_DECK_SIZE,
             tier \in Tier, t \in Tokens, stake \in Stakes \cup {0} :
             CreateDuel(p, deck, size, tier, t, stake)
  BY <1>2 DEF CreateDuel, FreshIds, TypeInv, TypeOK, DuelIds
<1> USE DEF TypeInv, TypeOK
<1>3. CASE \E k \in Keepers : SetKeeper(k)
  BY <1>1, <1>3 DEF SetKeeper
<1>4. CASE \E p \in Players, id \in DuelIds : JoinDuel(p, id)
  BY <1>1, <1>4 DEF JoinDuel, CanJoin
<1>5. CASE \E k \in Keepers, id \in DuelIds, deck \in Decks : RevealDeck(k, id, deck)
  BY <1>1, <1>5 DEF RevealDeck
<1>6. CASE \E p \in Players, id \in DuelIds, c \in Cards, dir \in Direction :
             SignSwipe(p, id, c, dir)
  BY <1>1, <1>6 DEF SignSwipe
<1>7. CASE \E k \in Keepers, s \in signed, dir \in Direction, fill \in Fills :
             RecordSwipe(k, s.duelId, s.player, s.cardIdx, dir, fill, s.nonce, s.deadline)
  BY <1>1, <1>7 DEF RecordSwipe
<1>8. CASE \E k \in Keepers, id \in DuelIds, c \in Cards, w \in Direction, v \in BOOLEAN :
             SettleCard(k, id, c, w, v)
  BY <1>1, <1>8 DEF SettleCard, CanSettle
<1>9. CASE \E id \in DuelIds : Finalize(id)
  BY <1>1, <1>9 DEF Finalize, CanFinalize, Close
<1>10. CASE \E p \in Players, id \in DuelIds : CancelPending(p, id)
  BY <1>1, <1>10 DEF CancelPending, CanCancel, Close
<1>11. CASE \E id \in DuelIds : ClaimRevealTimeout(id) \/ ClaimDuelTimeout(id)
  BY <1>1, <1>11 DEF ClaimRevealTimeout, ClaimDuelTimeout, RefundActive, CanRefund, Close
<1>12. CASE Tick \/ UNCHANGED vars
  BY <1>1, <1>12 DEF Tick, vars
<1>13. QED
  BY <1>2, <1>3, <1>4, <1>5, <1>6, <1>7, <1>8, <1>9, <1>10, <1>11, <1>12 DEF Next

LEMMA RefInvariant == Spec => []RefInv
<1>1. Init => FreshIds
  BY DEF Init, FreshIds, NoDuel
<1>2. RefInv /\ [Next]_vars => RefInv'
  BY StepType, FreshIdsStep DEF RefInv
<1>3. QED
  BY <1>1, <1>2, InitType, PTL DEF Spec, RefInv

\* What the invariant says of a duel that is about to be paid out.
LEMMA PaidDuel ==
  ASSUME RefInv, NEW id \in DuelIds, duels[id].status \in {"Pending", "Active"}
  PROVE  LET d == duels[id] IN
         /\ bal \in [Tokens -> [Accounts -> Nat]]
         /\ d.tier \in Tier /\ d.stake \in Nat
         /\ d.creator \in Players /\ d.creator # d.challenger
         /\ d.status = "Active" => d.challenger \in Players
         /\ d.tier = "Staked" => d.stakeToken \in Tokens
         /\ d.tier = "Free" => d.stakeToken = NoToken
<1> DEFINE d == duels[id]
<1>1. d \in Duel /\ WellFormed(d) /\ bal \in [Tokens -> [Accounts -> Nat]]
  BY DEF RefInv, TypeInv, TypeOK, DuelsWellFormed
<1>2. d.status \in {"Pending", "Active"}
  OBVIOUS
<1> HIDE DEF d
<1>3. QED
  BY <1>1, <1>2, PartiesAssumption DEF d, Duel, WellFormed

-----------------------------------------------------------------------------
(* The steps that the invariants below are about, one lemma for each.       *)
LEMMA IdsFinite == IsFiniteSet(DuelIds) /\ IsFiniteSet(Cards)
BY FS_Interval, BoundsAssumption, DeckAssumption DEF DuelIds, Cards

\* A call that ends a duel.
Ends(id) ==
  \/ Finalize(id)
  \/ \E p \in Players : CancelPending(p, id)
  \/ RefundActive(id)

\* Next, with the three ways out of a duel gathered in one case.
LEMMA Steps ==
  ASSUME [Next]_vars
  PROVE  \/ \E p \in Players, deck \in Decks, size \in MIN_DECK_SIZE .. MAX_DECK_SIZE,
               tier \in Tier, t \in Tokens, stake \in Stakes \cup {0} :
               CreateDuel(p, deck, size, tier, t, stake)
         \/ \E p \in Players, id \in DuelIds : JoinDuel(p, id)
         \/ \E k \in Keepers, id \in DuelIds, deck \in Decks : RevealDeck(k, id, deck)
         \/ \E k \in Keepers, s \in signed, dir \in Direction, fill \in Fills :
               RecordSwipe(k, s.duelId, s.player, s.cardIdx, dir, fill, s.nonce, s.deadline)
         \/ \E k \in Keepers, id \in DuelIds, c \in Cards, w \in Direction, v \in BOOLEAN :
               SettleCard(k, id, c, w, v)
         \/ \E id \in DuelIds : Ends(id)
         \/ \E p \in Players, id \in DuelIds, c \in Cards, dir \in Direction :
               SignSwipe(p, id, c, dir)
         \/ /\ UNCHANGED <<duelSeq, duels, decks, swipes, cardSettled, nonces, bal, signed, cardEvents>>
            /\ Tick \/ (\E k \in Keepers : SetKeeper(k)) \/ UNCHANGED vars
<1>1. CASE Tick \/ (\E k \in Keepers : SetKeeper(k)) \/ UNCHANGED vars
  BY <1>1 DEF Tick, SetKeeper, vars
<1>2. CASE \E id \in DuelIds : ClaimRevealTimeout(id) \/ ClaimDuelTimeout(id)
  BY <1>2 DEF ClaimRevealTimeout, ClaimDuelTimeout, Ends
<1>3. CASE \/ \E id \in DuelIds : Finalize(id)
           \/ \E p \in Players, id \in DuelIds : CancelPending(p, id)
  BY <1>3 DEF Ends
<1> QED BY <1>1, <1>2, <1>3 DEF Next

\* Every way out closes one duel that was open, and touches nothing but money.
LEMMA EndsClose ==
  ASSUME NEW id \in DuelIds, Ends(id)
  PROVE  /\ duels[id].status \in {"Pending", "Active"}
         /\ Close(id)
         /\ UNCHANGED <<duelSeq, decks, swipes, cardSettled, nonces, signed, cardEvents>>
BY DEF Ends, Finalize, CanFinalize, CancelPending, CanCancel, RefundActive, CanRefund

\* The fields of a record that another was made from by ending it.
LEMMA ClosedFields ==
  ASSUME duels \in [DuelIds -> Duel], NEW id \in DuelIds, Close(id)
  PROVE  /\ \A i \in DuelIds : i # id => duels'[i] = duels[i]
         /\ duels'[id] = [duels[id] EXCEPT !.status = "Complete"]
         /\ duels'[id].status = "Complete"
         /\ duels'[id].deckRevealed = duels[id].deckRevealed
         /\ duels'[id].deckCommit = duels[id].deckCommit
         /\ duels'[id].deckSize = duels[id].deckSize
         /\ duels'[id].settledCount = duels[id].settledCount
         /\ duels'[id].creator = duels[id].creator
         /\ duels'[id].challenger = duels[id].challenger
         /\ duels'[id].p0Score = duels[id].p0Score
         /\ duels'[id].p1Score = duels[id].p1Score
BY DEF Close, Duel

\* A new duel takes an id whose duel was never created.
LEMMA Fresh ==
  ASSUME RefInv, NEW p \in Players, NEW deck \in Decks,
         NEW size \in MIN_DECK_SIZE .. MAX_DECK_SIZE, NEW tier \in Tier,
         NEW t \in Tokens, NEW stake \in Stakes \cup {0},
         CreateDuel(p, deck, size, tier, t, stake)
  PROVE  /\ duelSeq + 1 \in DuelIds
         /\ duels[duelSeq + 1] = NoDuel
         /\ duels'[duelSeq + 1] = NewDuel(p, deck, size, tier, t, stake)
         /\ \A i \in DuelIds : i # duelSeq + 1 => duels'[i] = duels[i]
<1>1. duelSeq + 1 \in DuelIds
  BY BoundsAssumption DEF CreateDuel, RefInv, TypeInv, TypeOK, DuelIds
<1>2. duels[duelSeq + 1].status = "None"
  BY <1>1 DEF RefInv, TypeInv, TypeOK, FreshIds, DuelIds
<1>3. duels[duelSeq + 1] = NoDuel
  BY <1>1, <1>2 DEF RefInv, TypeInv, DuelsWellFormed, WellFormed
<1>4. duels \in [DuelIds -> Duel] /\ duels' = [duels EXCEPT ![duelSeq + 1] = NewDuel(p, deck, size, tier, t, stake)]
  BY DEF CreateDuel, RefInv, TypeInv, TypeOK
<1> QED BY <1>1, <1>3, <1>4

\* The duel a player joins, before and after.
LEMMA Joined ==
  ASSUME RefInv, NEW p \in Players, NEW id \in DuelIds, JoinDuel(p, id)
  PROVE  /\ \A i \in DuelIds : i # id => duels'[i] = duels[i]
         /\ duels[id].status = "Pending" /\ duels[id].challenger = NoPlayer
         /\ ~duels[id].deckRevealed
         /\ duels'[id].status = "Active" /\ duels'[id].challenger = p
         /\ duels'[id].deckRevealed = duels[id].deckRevealed
         /\ duels'[id].deckCommit = duels[id].deckCommit
         /\ duels'[id].deckSize = duels[id].deckSize
         /\ duels'[id].settledCount = duels[id].settledCount
         /\ duels'[id].creator = duels[id].creator
         /\ duels'[id].p0Score = duels[id].p0Score
         /\ duels'[id].p1Score = duels[id].p1Score
         /\ duels'[id].stake = duels[id].stake
         /\ duels'[id].stakeToken = duels[id].stakeToken
<1>1. duels[id] \in Duel /\ WellFormed(duels[id]) /\ duels \in [DuelIds -> Duel]
  BY DEF RefInv, TypeInv, TypeOK, DuelsWellFormed
<1>2. duels[id].status = "Pending" /\ duels[id].challenger = NoPlayer
  BY DEF JoinDuel, CanJoin
<1>3. ~duels[id].deckRevealed
  BY <1>1, <1>2 DEF WellFormed
<1>4. duels' = [duels EXCEPT ![id].challenger = p, ![id].status = "Active", ![id].startedAtSec = now]
  BY DEF JoinDuel
<1> QED BY <1>1, <1>2, <1>3, <1>4 DEF Duel

\* The duel whose card is settled, before and after.
LEMMA Settled ==
  ASSUME RefInv, NEW k \in Keepers, NEW id \in DuelIds, NEW c \in Cards,
         NEW w \in Direction, NEW v \in BOOLEAN, SettleCard(k, id, c, w, v)
  PROVE  /\ \A i \in DuelIds : i # id => duels'[i] = duels[i] /\ cardEvents'[i] = cardEvents[i]
                                         /\ cardSettled'[i] = cardSettled[i]
         /\ \A b \in Cards : b # c => cardEvents'[id][b] = cardEvents[id][b]
         /\ cardSettled'[id] = cardSettled[id] \cup {c} /\ c \notin cardSettled[id]
         /\ duels[id].deckRevealed /\ c < duels[id].deckSize
         /\ duels[id].status = "Active" /\ duels'[id].status = "Active"
         /\ duels'[id].deckRevealed = duels[id].deckRevealed
         /\ duels'[id].deckCommit = duels[id].deckCommit
         /\ duels'[id].deckSize = duels[id].deckSize
         /\ duels'[id].settledCount = duels[id].settledCount + 1
         /\ duels'[id].p0Score = duels[id].p0Score + cardEvents'[id][c].p0Pnl
         /\ duels'[id].p1Score = duels[id].p1Score + cardEvents'[id][c].p1Pnl
         /\ duels'[id].creator = duels[id].creator
         /\ duels'[id].challenger = duels[id].challenger
         /\ duels'[id].stake = duels[id].stake
         /\ duels'[id].stakeToken = duels[id].stakeToken
<1> DEFINE d == duels[id]
           p0 == ScoreSwipe(swipes[id][d.creator][c], w, v)
           p1 == ScoreSwipe(swipes[id][d.challenger][c], w, v)
           event == [winner |-> w, voided |-> v, p0Pnl |-> p0, p1Pnl |-> p1]
           new == Accrue(d, p0, p1)
<1>1. /\ d \in Duel /\ duels \in [DuelIds -> Duel] /\ cardSettled \in [DuelIds -> SUBSET Cards]
      /\ cardEvents \in [DuelIds -> [Cards -> CardEvent]]
  BY DEF RefInv, TypeInv, TypeOK
<1>2. /\ CanSettle(id, c)
      /\ cardSettled' = [cardSettled EXCEPT ![id] = @ \cup {c}]
      /\ duels' = [duels EXCEPT ![id] = new]
      /\ cardEvents' = [cardEvents EXCEPT ![id][c] = event]
  BY DEF SettleCard
<1>3. event.p0Pnl = p0 /\ event.p1Pnl = p1
  OBVIOUS
<1> HIDE DEF p0, p1, event
<1>4. /\ new.status = d.status /\ new.deckRevealed = d.deckRevealed
      /\ new.deckCommit = d.deckCommit /\ new.deckSize = d.deckSize
      /\ new.settledCount = d.settledCount + 1
      /\ new.p0Score = d.p0Score + p0 /\ new.p1Score = d.p1Score + p1
      /\ new.creator = d.creator /\ new.challenger = d.challenger
      /\ new.stake = d.stake /\ new.stakeToken = d.stakeToken
  BY <1>1 DEF Accrue, Duel
<1> HIDE DEF new
<1>5. duels'[id] = new /\ \A i \in DuelIds : i # id => duels'[i] = duels[i]
  BY <1>1, <1>2
<1>6. /\ cardEvents'[id][c] = event
      /\ \A b \in Cards : b # c => cardEvents'[id][b] = cardEvents[id][b]
      /\ \A i \in DuelIds : i # id => cardEvents'[i] = cardEvents[i]
  BY <1>1, <1>2
<1>7. /\ cardSettled'[id] = cardSettled[id] \cup {c}
      /\ \A i \in DuelIds : i # id => cardSettled'[i] = cardSettled[i]
  BY <1>1, <1>2
<1>8. d.status = "Active" /\ d.deckRevealed /\ c < d.deckSize /\ c \notin cardSettled[id]
  BY <1>2 DEF CanSettle
<1> QED BY <1>3, <1>4, <1>5, <1>6, <1>7, <1>8

\* The duel whose deck is revealed, before and after.
LEMMA Revealed ==
  ASSUME RefInv, NEW k \in Keepers, NEW id \in DuelIds, NEW deck \in Decks, RevealDeck(k, id, deck)
  PROVE  /\ \A i \in DuelIds : i # id => duels'[i] = duels[i] /\ decks'[i] = decks[i]
         /\ duels[id].status = "Active" /\ ~duels[id].deckRevealed
         /\ decks'[id] = duels[id].deckCommit /\ Len(decks'[id]) = duels[id].deckSize
         /\ duels'[id].deckRevealed
         /\ duels'[id].status = duels[id].status
         /\ duels'[id].deckCommit = duels[id].deckCommit
         /\ duels'[id].deckSize = duels[id].deckSize
         /\ duels'[id].settledCount = duels[id].settledCount
         /\ duels'[id].creator = duels[id].creator
         /\ duels'[id].challenger = duels[id].challenger
         /\ duels'[id].p0Score = duels[id].p0Score
         /\ duels'[id].p1Score = duels[id].p1Score
         /\ duels'[id].stake = duels[id].stake
         /\ duels'[id].stakeToken = duels[id].stakeToken
<1>1. duels[id] \in Duel /\ duels \in [DuelIds -> Duel] /\ decks \in [DuelIds -> Decks \cup {<<>>}]
  BY DEF RefInv, TypeInv, TypeOK
<1>2. /\ duels[id].status = "Active" /\ ~duels[id].deckRevealed
      /\ deck = duels[id].deckCommit /\ Len(deck) = duels[id].deckSize
      /\ decks' = [decks EXCEPT ![id] = deck]
      /\ duels' = [duels EXCEPT ![id].deckRevealed = TRUE]
  BY DEF RevealDeck, Reveals
<1>3. decks'[id] = deck
  BY <1>1, <1>2
<1> QED BY <1>1, <1>2, <1>3 DEF Duel

-----------------------------------------------------------------------------
\* The swipe a call records.
LEMMA Recorded ==
  ASSUME RefInv, NEW k \in Keepers, NEW s \in signed, NEW dir \in Direction, NEW fill \in Fills,
         RecordSwipe(k, s.duelId, s.player, s.cardIdx, dir, fill, s.nonce, s.deadline)
  PROVE  /\ s.duelId \in DuelIds /\ s.player \in Players /\ s.cardIdx \in Cards
         /\ duels[s.duelId].status = "Active" /\ duels[s.duelId].deckRevealed
         /\ s.player \in {duels[s.duelId].creator, duels[s.duelId].challenger}
         /\ ~swipes[s.duelId][s.player][s.cardIdx].exists
         /\ swipes'[s.duelId][s.player][s.cardIdx].exists
         /\ swipes'[s.duelId][s.player][s.cardIdx].direction = dir
         /\ \A i \in DuelIds, p \in Players, c \in Cards :
              ~(i = s.duelId /\ p = s.player /\ c = s.cardIdx) => swipes'[i][p][c] = swipes[i][p][c]
         /\ \A i \in DuelIds : i # s.duelId => swipes'[i] = swipes[i]
         /\ s.nonce = nonces[s.player] /\ s.nonce \in Nat
         /\ nonces' = [nonces EXCEPT ![s.player] = @ + 1]
         /\ \E r \in signed : /\ r.player = s.player /\ r.duelId = s.duelId
                              /\ r.cardIdx = s.cardIdx /\ r.direction = dir /\ r.nonce = s.nonce
<1> DEFINE id == s.duelId
           p == s.player
           c == s.cardIdx
           new == [exists |-> TRUE, direction |-> dir, premium |-> fill.premium,
                   filled |-> fill.filled]
<1>1. /\ id \in DuelIds /\ p \in Players /\ c \in Cards /\ s.nonce \in Nat
      /\ swipes \in [DuelIds -> [Players -> [Cards -> Swipe]]]
  BY DEF RefInv, TypeInv, TypeOK, Signature
<1>2. /\ CanRecord(id, p, c) /\ s.nonce = nonces[p]
      /\ Recovers(p, id, c, dir, s.nonce, s.deadline)
      /\ nonces' = [nonces EXCEPT ![p] = @ + 1]
      /\ swipes' = [swipes EXCEPT ![id][p][c] = new]
  BY DEF RecordSwipe
<1>3. new.exists /\ new.direction = dir
  OBVIOUS
<1> HIDE DEF new
<1>4. /\ swipes'[id][p][c] = new
      /\ \A i \in DuelIds, q \in Players, b \in Cards :
              ~(i = id /\ q = p /\ b = c) => swipes'[i][q][b] = swipes[i][q][b]
      /\ \A i \in DuelIds : i # id => swipes'[i] = swipes[i]
  BY <1>1, <1>2
<1>5. \E r \in signed : r.player = p /\ r.duelId = id /\ r.cardIdx = c /\ r.direction = dir /\ r.nonce = s.nonce
  BY <1>2 DEF Recovers
<1> HIDE DEF id, p, c
<1>6. duels[id].status = "Active" /\ duels[id].deckRevealed /\ p \in {duels[id].creator, duels[id].challenger}
      /\ ~swipes[id][p][c].exists
  BY <1>2 DEF CanRecord
<1> QED BY <1>1, <1>2, <1>3, <1>4, <1>5, <1>6 DEF id, p, c

-----------------------------------------------------------------------------
(* The deck in play is the committed one.                                   *)

\* A call changes the deck of one duel at most: it creates it with none, reveals the
\* committed one, or leaves both as they are.
LEMMA DeckStep ==
  ASSUME RefInv, DeckWasCommitted, [Next]_vars
  PROVE  DeckWasCommitted'
<1> DEFINE Kept(i) == /\ duels'[i].deckRevealed = duels[i].deckRevealed
                      /\ duels'[i].deckCommit = duels[i].deckCommit
                      /\ duels'[i].deckSize = duels[i].deckSize
                      /\ decks'[i] = decks[i]
           Unused(i) == /\ cardSettled[i] = {}
                        /\ \A p \in Players, c \in Cards : ~swipes[i][p][c].exists
<1>1. \A i \in DuelIds : /\ duels[i].deckRevealed => decks[i] = duels[i].deckCommit
                                                   /\ Len(decks[i]) = duels[i].deckSize
                         /\ ~duels[i].deckRevealed => Unused(i)
  BY DEF DeckWasCommitted
<1>2. duels \in [DuelIds -> Duel]
  BY DEF RefInv, TypeInv, TypeOK
<1>3. ASSUME \A i \in DuelIds : Kept(i), UNCHANGED <<cardSettled, swipes>>
      PROVE  DeckWasCommitted'
  BY <1>1, <1>3 DEF DeckWasCommitted
<1>4. CASE \E p \in Players, deck \in Decks, size \in MIN_DECK_SIZE .. MAX_DECK_SIZE,
             tier \in Tier, t \in Tokens, stake \in Stakes \cup {0} :
             CreateDuel(p, deck, size, tier, t, stake)
  <2>1. PICK p \in Players, deck \in Decks, size \in MIN_DECK_SIZE .. MAX_DECK_SIZE,
             tier \in Tier, t \in Tokens, stake \in Stakes \cup {0} :
             CreateDuel(p, deck, size, tier, t, stake)
    BY <1>4
  <2>2. UNCHANGED <<decks, cardSettled, swipes>>
    BY <2>1 DEF CreateDuel
  <2>3. duelSeq + 1 \in DuelIds /\ duels[duelSeq + 1] = NoDuel
        /\ duels'[duelSeq + 1] = NewDuel(p, deck, size, tier, t, stake)
        /\ \A i \in DuelIds : i # duelSeq + 1 => duels'[i] = duels[i]
    BY <2>1, Fresh
  <2>4. ~duels[duelSeq + 1].deckRevealed /\ ~duels'[duelSeq + 1].deckRevealed
    BY <2>3 DEF NoDuel, NewDuel
  <2> QED BY <1>1, <2>2, <2>3, <2>4 DEF DeckWasCommitted
<1>5. CASE \E p \in Players, id \in DuelIds : JoinDuel(p, id)
  <2>1. PICK p \in Players, id \in DuelIds : JoinDuel(p, id)
    BY <1>5
  <2>2. UNCHANGED <<decks, cardSettled, swipes>>
    BY <2>1 DEF JoinDuel
  <2>3. \A i \in DuelIds : Kept(i)
    BY <2>1, <2>2, Joined
  <2> QED BY <1>3, <2>2, <2>3
<1>6. CASE \E k \in Keepers, id \in DuelIds, deck \in Decks : RevealDeck(k, id, deck)
  <2>1. PICK k \in Keepers, id \in DuelIds, deck \in Decks : RevealDeck(k, id, deck)
    BY <1>6
  <2>2. UNCHANGED <<cardSettled, swipes>>
    BY <2>1 DEF RevealDeck
  <2> QED BY <1>1, <2>1, <2>2, Revealed DEF DeckWasCommitted
<1>7. CASE \E k \in Keepers, s \in signed, dir \in Direction, fill \in Fills :
             RecordSwipe(k, s.duelId, s.player, s.cardIdx, dir, fill, s.nonce, s.deadline)
  <2>1. PICK k \in Keepers, s \in signed, dir \in Direction, fill \in Fills :
             RecordSwipe(k, s.duelId, s.player, s.cardIdx, dir, fill, s.nonce, s.deadline)
    BY <1>7
  <2>2. UNCHANGED <<duels, decks, cardSettled>>
    BY <2>1 DEF RecordSwipe
  <2>3. duels[s.duelId].deckRevealed /\ \A i \in DuelIds : i # s.duelId => swipes'[i] = swipes[i]
    BY <2>1, Recorded
  <2> QED BY <1>1, <2>2, <2>3 DEF DeckWasCommitted
<1>8. CASE \E k \in Keepers, id \in DuelIds, c \in Cards, w \in Direction, v \in BOOLEAN :
             SettleCard(k, id, c, w, v)
  <2>1. PICK k \in Keepers, id \in DuelIds, c \in Cards, w \in Direction, v \in BOOLEAN :
             SettleCard(k, id, c, w, v)
    BY <1>8
  <2>2. UNCHANGED <<decks, swipes>>
    BY <2>1 DEF SettleCard
  <2>3. /\ duels[id].deckRevealed /\ \A i \in DuelIds : Kept(i)
        /\ \A i \in DuelIds : i # id => cardSettled'[i] = cardSettled[i]
    BY <2>1, <2>2, Settled
  <2> QED BY <1>1, <2>2, <2>3 DEF DeckWasCommitted
<1>9. CASE \E id \in DuelIds : Ends(id)
  <2>1. PICK id \in DuelIds : Ends(id)
    BY <1>9
  <2>2. Close(id) /\ UNCHANGED <<decks, cardSettled, swipes>>
    BY <2>1, EndsClose
  <2>3. \A i \in DuelIds : Kept(i)
    BY <1>2, <2>2, ClosedFields
  <2> QED BY <1>3, <2>2, <2>3
<1>10. CASE \E p \in Players, id \in DuelIds, c \in Cards, dir \in Direction :
              SignSwipe(p, id, c, dir)
  BY <1>3, <1>10 DEF SignSwipe
<1>11. CASE UNCHANGED <<duelSeq, duels, decks, swipes, cardSettled, nonces, bal, signed, cardEvents>>
  BY <1>3, <1>11
<1> QED BY <1>4, <1>5, <1>6, <1>7, <1>8, <1>9, <1>10, <1>11, Steps

-----------------------------------------------------------------------------
(* The running scores are the sums of the settled cards' events.            *)
Pnls0(i) == [c \in Cards |-> cardEvents[i][c].p0Pnl]
Pnls1(i) == [c \in Cards |-> cardEvents[i][c].p1Pnl]

\* One more card is settled: its PnLs join the sums, and the others stand.
LEMMA CardCounted ==
  ASSUME NEW S \in SUBSET Cards, NEW c \in Cards, c \notin S,
         NEW f \in [Cards -> Int], NEW h \in [Cards -> Int],
         \A b \in Cards : b # c => h[b] = f[b]
  PROVE  /\ Cardinality(S \cup {c}) = Cardinality(S) + 1
         /\ SumFunctionOnSet(h, S \cup {c}) = SumFunctionOnSet(f, S) + h[c]
<1>1. IsFiniteSet(S)
  BY IdsFinite, FS_Subset
<1>2. Cardinality(S \cup {c}) = Cardinality(S) + 1
  BY <1>1, FS_AddElement
<1>3. Numbers(f, S) /\ Numbers(h, S)
  BY <1>1 DEF Numbers
<1>4. SumFunctionOnSet(h, S) = SumFunctionOnSet(f, S)
  BY <1>3, SumSame
<1>5. SumFunctionOnSet(h, S \cup {c}) = h[c] + SumFunctionOnSet(h, S)
  BY <1>3, SumAdd
<1>6. SumFunctionOnSet(h, S) \in Int
  BY <1>3, SumType
<1> QED BY <1>2, <1>4, <1>5, <1>6

LEMMA ScoreStep ==
  ASSUME RefInv, DeckWasCommitted, ScoreIsSumOfEvents, [Next]_vars
  PROVE  ScoreIsSumOfEvents'
<1> DEFINE Kept(i) == /\ duels'[i].deckSize = duels[i].deckSize
                      /\ duels'[i].settledCount = duels[i].settledCount
                      /\ duels'[i].p0Score = duels[i].p0Score
                      /\ duels'[i].p1Score = duels[i].p1Score
<1>1. \A i \in DuelIds :
        /\ cardSettled[i] \subseteq 0 .. duels[i].deckSize - 1
        /\ duels[i].settledCount = Cardinality(cardSettled[i])
        /\ duels[i].p0Score = SumFunctionOnSet(Pnls0(i), cardSettled[i])
        /\ duels[i].p1Score = SumFunctionOnSet(Pnls1(i), cardSettled[i])
  BY DEF ScoreIsSumOfEvents, Pnls0, Pnls1
<1>2. duels \in [DuelIds -> Duel]
  BY DEF RefInv, TypeInv, TypeOK
<1>3. ASSUME \A i \in DuelIds : Kept(i), UNCHANGED <<cardSettled, cardEvents>>
      PROVE  ScoreIsSumOfEvents'
  BY <1>1, <1>3 DEF ScoreIsSumOfEvents, Pnls0, Pnls1
<1>4. CASE \E p \in Players, deck \in Decks, size \in MIN_DECK_SIZE .. MAX_DECK_SIZE,
             tier \in Tier, t \in Tokens, stake \in Stakes \cup {0} :
             CreateDuel(p, deck, size, tier, t, stake)
  <2>1. PICK p \in Players, deck \in Decks, size \in MIN_DECK_SIZE .. MAX_DECK_SIZE,
             tier \in Tier, t \in Tokens, stake \in Stakes \cup {0} :
             CreateDuel(p, deck, size, tier, t, stake)
    BY <1>4
  <2>2. UNCHANGED <<cardSettled, cardEvents>>
    BY <2>1 DEF CreateDuel
  <2>3. duelSeq + 1 \in DuelIds /\ duels[duelSeq + 1] = NoDuel
        /\ duels'[duelSeq + 1] = NewDuel(p, deck, size, tier, t, stake)
        /\ \A i \in DuelIds : i # duelSeq + 1 => duels'[i] = duels[i]
    BY <2>1, Fresh
  <2>4. /\ ~duels[duelSeq + 1].deckRevealed
        /\ duels'[duelSeq + 1].settledCount = 0
        /\ duels'[duelSeq + 1].p0Score = 0 /\ duels'[duelSeq + 1].p1Score = 0
    BY <2>3 DEF NoDuel, NewDuel
  <2>5. cardSettled[duelSeq + 1] = {}
    BY <2>3, <2>4 DEF DeckWasCommitted
  <2>6. Cardinality({}) = 0 /\ \A f : SumFunctionOnSet(f, {}) = 0
    BY FS_EmptySet, SumEmpty
  <2>7. \A i \in DuelIds :
        /\ cardSettled'[i] \subseteq 0 .. duels'[i].deckSize - 1
        /\ duels'[i].settledCount = Cardinality(cardSettled'[i])
        /\ duels'[i].p0Score = SumFunctionOnSet(Pnls0(i), cardSettled'[i])
        /\ duels'[i].p1Score = SumFunctionOnSet(Pnls1(i), cardSettled'[i])
    BY <1>1, <2>2, <2>3, <2>4, <2>5, <2>6
  <2> QED BY <2>2, <2>7 DEF ScoreIsSumOfEvents, Pnls0, Pnls1
<1>5. CASE \E p \in Players, id \in DuelIds : JoinDuel(p, id)
  <2>1. PICK p \in Players, id \in DuelIds : JoinDuel(p, id)
    BY <1>5
  <2>2. UNCHANGED <<cardEvents, cardSettled>>
    BY <2>1 DEF JoinDuel
  <2>3. \A i \in DuelIds : Kept(i)
    BY <2>1, Joined
  <2> QED BY <1>3, <2>2, <2>3
<1>6. CASE \E k \in Keepers, id \in DuelIds, deck \in Decks : RevealDeck(k, id, deck)
  <2>1. PICK k \in Keepers, id \in DuelIds, deck \in Decks : RevealDeck(k, id, deck)
    BY <1>6
  <2>2. UNCHANGED <<cardSettled, cardEvents>>
    BY <2>1 DEF RevealDeck
  <2>3. \A i \in DuelIds : Kept(i)
    BY <2>1, Revealed
  <2> QED BY <1>3, <2>2, <2>3
<1>7. CASE \E k \in Keepers, s \in signed, dir \in Direction, fill \in Fills :
             RecordSwipe(k, s.duelId, s.player, s.cardIdx, dir, fill, s.nonce, s.deadline)
  BY <1>3, <1>7 DEF RecordSwipe
<1>8. CASE \E k \in Keepers, id \in DuelIds, c \in Cards, w \in Direction, v \in BOOLEAN :
             SettleCard(k, id, c, w, v)
  <2>1. PICK k \in Keepers, id \in DuelIds, c \in Cards, w \in Direction, v \in BOOLEAN :
             SettleCard(k, id, c, w, v)
    BY <1>8
  <2> DEFINE f0 == Pnls0(id)
             f1 == Pnls1(id)
             h0 == [b \in Cards |-> cardEvents'[id][b].p0Pnl]
             h1 == [b \in Cards |-> cardEvents'[id][b].p1Pnl]
             S == cardSettled[id]
  <2>2. TypeOK /\ TypeOK'
    BY StepType DEF RefInv, TypeInv
  <2>3. /\ cardEvents[id] \in [Cards -> CardEvent] /\ cardEvents'[id] \in [Cards -> CardEvent]
        /\ S \in SUBSET Cards
    BY <2>2 DEF TypeOK
  <2>4. f0 \in [Cards -> Int] /\ f1 \in [Cards -> Int] /\ h0 \in [Cards -> Int] /\ h1 \in [Cards -> Int]
    BY <2>3 DEF CardEvent, Pnls0, Pnls1
  <2>5. /\ \A i \in DuelIds : i # id => duels'[i] = duels[i] /\ cardEvents'[i] = cardEvents[i]
                                         /\ cardSettled'[i] = cardSettled[i]
        /\ \A b \in Cards : b # c => cardEvents'[id][b] = cardEvents[id][b]
        /\ cardSettled'[id] = S \cup {c} /\ c \notin S
        /\ c < duels[id].deckSize /\ duels'[id].deckSize = duels[id].deckSize
        /\ duels'[id].settledCount = duels[id].settledCount + 1
        /\ duels'[id].p0Score = duels[id].p0Score + h0[c]
        /\ duels'[id].p1Score = duels[id].p1Score + h1[c]
    BY <2>1, Settled
  <2>6. \A b \in Cards : b # c => h0[b] = f0[b]
    BY <2>5 DEF Pnls0
  <2>6a. \A b \in Cards : b # c => h1[b] = f1[b]
    BY <2>5 DEF Pnls1
  <2>7. c \in Nat /\ duels[id].deckSize \in Nat
    BY <1>2 DEF Cards, Duel
  <2>8. /\ S \subseteq 0 .. duels[id].deckSize - 1
        /\ duels[id].settledCount = Cardinality(S)
        /\ duels[id].p0Score = SumFunctionOnSet(f0, S)
        /\ duels[id].p1Score = SumFunctionOnSet(f1, S)
    BY <1>1
  <2>9. \A i \in DuelIds : i # id => cardSettled'[i] \subseteq 0 .. duels'[i].deckSize - 1
           /\ duels'[i].settledCount = Cardinality(cardSettled'[i])
           /\ duels'[i].p0Score = SumFunctionOnSet([b \in Cards |-> cardEvents'[i][b].p0Pnl], cardSettled'[i])
           /\ duels'[i].p1Score = SumFunctionOnSet([b \in Cards |-> cardEvents'[i][b].p1Pnl], cardSettled'[i])
    BY <1>1, <2>5 DEF Pnls0, Pnls1
  <2> HIDE DEF f0, f1, h0, h1, S
  <2>10. c \notin S
    BY <2>5
  <2>11. /\ Cardinality(S \cup {c}) = Cardinality(S) + 1
         /\ SumFunctionOnSet(h0, S \cup {c}) = SumFunctionOnSet(f0, S) + h0[c]
    BY <2>3, <2>4, <2>6, <2>10, CardCounted
  <2>11a. SumFunctionOnSet(h1, S \cup {c}) = SumFunctionOnSet(f1, S) + h1[c]
    BY <2>3, <2>4, <2>6a, <2>10, CardCounted
  <2>12. /\ cardSettled'[id] \subseteq 0 .. duels'[id].deckSize - 1
         /\ duels'[id].settledCount = Cardinality(cardSettled'[id])
         /\ duels'[id].p0Score = SumFunctionOnSet(h0, cardSettled'[id])
         /\ duels'[id].p1Score = SumFunctionOnSet(h1, cardSettled'[id])
    BY <2>5, <2>7, <2>8, <2>11, <2>11a
  <2> QED BY <2>9, <2>12 DEF ScoreIsSumOfEvents, h0, h1
<1>9. CASE \E id \in DuelIds : Ends(id)
  <2>1. PICK id \in DuelIds : Ends(id)
    BY <1>9
  <2>2. Close(id) /\ UNCHANGED <<cardSettled, cardEvents>>
    BY <2>1, EndsClose
  <2>3. \A i \in DuelIds : Kept(i)
    BY <1>2, <2>2, ClosedFields
  <2> QED BY <1>3, <2>2, <2>3
<1>10. CASE \E p \in Players, id \in DuelIds, c \in Cards, dir \in Direction :
              SignSwipe(p, id, c, dir)
  BY <1>3, <1>10 DEF SignSwipe
<1>11. CASE UNCHANGED <<duelSeq, duels, decks, swipes, cardSettled, nonces, bal, signed, cardEvents>>
  BY <1>3, <1>11
<1> QED BY <1>4, <1>5, <1>6, <1>7, <1>8, <1>9, <1>10, <1>11, Steps

-----------------------------------------------------------------------------
(* The pooled balance is the sum of the open duels' stakes.                 *)

\* What a duel holds is a natural number, and nothing for one that is closed,
\* that never opened, or that is played for free.
LEMMA HeldType ==
  ASSUME NEW d \in Duel, NEW t
  PROVE  /\ HeldIn(t, d) \in Nat
         /\ d.status \in {"None", "Complete"} => HeldIn(t, d) = 0
         /\ d.status = "Pending" => HeldIn(t, d) = IF d.stakeToken = t THEN d.stake ELSE 0
         /\ d.status = "Active" => HeldIn(t, d) = IF d.stakeToken = t THEN 2 * d.stake ELSE 0
<1>1. d.stake \in Nat /\ 2 * d.stake \in Nat
  BY DEF Duel
<1>2. CASE d.status = "Pending"
  BY <1>1, <1>2 DEF HeldIn, Held
<1>3. CASE d.status = "Active"
  BY <1>1, <1>3 DEF HeldIn, Held
<1>4. CASE d.status \notin {"Pending", "Active"}
  BY <1>4 DEF HeldIn, Held
<1> QED BY <1>2, <1>3, <1>4

\* One duel changes, and the contract's balances with what it holds.
LEMMA EscrowFollows ==
  ASSUME EscrowExact, duels \in [DuelIds -> Duel], duels' \in [DuelIds -> Duel],
         bal \in [Tokens -> [Accounts -> Nat]],
         NEW id \in DuelIds, \A i \in DuelIds : i # id => duels'[i] = duels[i],
         \A t \in Tokens :
           bal'[t][Vault] = bal[t][Vault] - HeldIn(t, duels[id]) + HeldIn(t, duels'[id])
  PROVE  EscrowExact'
<1> SUFFICES ASSUME NEW t \in Tokens
             PROVE  bal'[t][Vault] = SumFunctionOnSet([i \in DuelIds |-> HeldIn(t, duels'[i])], DuelIds)
  BY DEF EscrowExact
<1> DEFINE f == [i \in DuelIds |-> HeldIn(t, duels[i])]
           h == [i \in DuelIds |-> HeldIn(t, duels'[i])]
<1>1. f \in [DuelIds -> Int] /\ h \in [DuelIds -> Int]
  BY HeldType
<1>2. \A i \in DuelIds : i # id => h[i] = f[i]
  OBVIOUS
<1>3. bal[t][Vault] = SumFunctionOnSet(f, DuelIds)
  BY DEF EscrowExact
<1>4. bal'[t][Vault] = bal[t][Vault] - f[id] + h[id]
  OBVIOUS
<1> HIDE DEF f, h
<1>5. SumFunctionOnSet(h, DuelIds) = SumFunctionOnSet(f, DuelIds) - f[id] + h[id]
  BY <1>1, <1>2, IdsFinite, SumUpdate
<1> QED BY <1>3, <1>4, <1>5 DEF h

\* No duel's holding changes, nor any balance.
LEMMA EscrowStands ==
  ASSUME EscrowExact, UNCHANGED bal, \A i \in DuelIds, t \in Tokens : HeldIn(t, duels'[i]) = HeldIn(t, duels[i])
  PROVE  EscrowExact'
BY DEF EscrowExact

\* A payment out of the contract, seen from its own account.
LEMMA VaultPays ==
  ASSUME NEW b \in [Tokens -> [Accounts -> Nat]], NEW t \in Tokens, NEW p \in Players,
         NEW n \in Nat, b[t][Vault] >= n
  PROVE  \A u \in Tokens : Transfer(b, t, Vault, p, n)[u][Vault] = b[u][Vault] - (IF u = t THEN n ELSE 0)
BY PartiesAssumption DEF Transfer, Accounts

\* Ending a duel takes out of the contract exactly what it held for it.
LEMMA EndPays ==
  ASSUME RefInv, NEW id \in DuelIds, Ends(id)
  PROVE  \A t \in Tokens : bal'[t][Vault] = bal[t][Vault] - HeldIn(t, duels[id])
<1> DEFINE d == duels[id]
           n == d.stake
           k == d.stakeToken
<1>1. d.status \in {"Pending", "Active"}
  BY EndsClose
<1>2. /\ bal \in [Tokens -> [Accounts -> Nat]] /\ d \in Duel /\ n \in Nat /\ 2 * n \in Nat
      /\ d.tier \in Tier /\ d.creator \in Players /\ Vault \in Accounts
      /\ d.status = "Active" => d.challenger \in Players
      /\ d.tier = "Staked" => k \in Tokens
      /\ d.tier = "Free" => k = NoToken
  <2>1. d \in Duel /\ Vault \in Accounts
    BY DEF RefInv, TypeInv, TypeOK, Accounts
  <2>2. /\ bal \in [Tokens -> [Accounts -> Nat]] /\ n \in Nat
        /\ d.tier \in Tier /\ d.creator \in Players
        /\ d.status = "Active" => d.challenger \in Players
        /\ d.tier = "Staked" => k \in Tokens
        /\ d.tier = "Free" => k = NoToken
    BY <1>1, PaidDuel
  <2> QED BY <2>1, <2>2
<1>3. \A t \in Tokens : bal[t][Vault] \in Nat
  BY <1>2
<1>4. CASE d.tier # "Staked"
  <2>1. UNCHANGED bal
    BY <1>4 DEF Ends, Finalize, CancelPending, CanCancel, RefundActive, CanRefund
  <2>2. k \notin Tokens
    BY <1>2, <1>4, PartiesAssumption DEF Tier
  <2>3. \A t \in Tokens : HeldIn(t, d) = 0
    BY <2>2 DEF HeldIn
  <2> QED BY <1>3, <2>1, <2>3
<1>5. CASE d.tier = "Staked" /\ d.status = "Pending"
  <2>1. CanPay(k, Vault, n) /\ bal' = Transfer(bal, k, Vault, d.creator, n)
    BY <1>5 DEF Ends, Finalize, CanFinalize, CancelPending, CanCancel, RefundActive,
              CanRefund, CanPayOut
  <2>2. \A t \in Tokens : HeldIn(t, d) = IF t = k THEN n ELSE 0
    BY <1>2, <1>5, HeldType
  <2>3. bal[k][Vault] >= n
    BY <2>1 DEF CanPay
  <2> HIDE DEF d, n, k
  <2>4. \A t \in Tokens : bal'[t][Vault] = bal[t][Vault] - (IF t = k THEN n ELSE 0)
    BY <1>2, <1>5, <2>1, <2>3, VaultPays
  <2> QED BY <2>2, <2>4 DEF d
<1>6. CASE d.tier = "Staked" /\ d.status = "Active"
  <2>1. CanPay(k, Vault, 2 * n) /\ (\/ bal' = RefundBoth(d)
                                    \/ Winner(d) # NoPlayer /\ bal' = Transfer(bal, k, Vault, Winner(d), 2 * n))
    BY <1>6 DEF Ends, Finalize, CancelPending, CanCancel, RefundActive, CanRefund, CanPayOut
  <2>2. \A t \in Tokens : HeldIn(t, d) = IF t = k THEN 2 * n ELSE 0
    BY <1>2, <1>6, HeldType
  <2>3. bal[k][Vault] >= 2 * n /\ bal[k][Vault] >= n
    BY <1>2, <1>3, <1>6, <2>1 DEF CanPay
  <2>4. Winner(d) # NoPlayer => Winner(d) \in Players
    BY <1>2, <1>6 DEF Winner
  <2>5. RefundBoth(d) = Transfer(Transfer(bal, k, Vault, d.creator, n), k, Vault, d.challenger, n)
    BY DEF RefundBoth
  <2> HIDE DEF d, n, k
  <2>6. CASE Winner(d) # NoPlayer /\ bal' = Transfer(bal, k, Vault, Winner(d), 2 * n)
    <3>1. \A t \in Tokens : bal'[t][Vault] = bal[t][Vault] - (IF t = k THEN 2 * n ELSE 0)
      BY <1>2, <1>6, <2>3, <2>4, <2>6, VaultPays
    <3> QED BY <2>2, <3>1 DEF d
  <2>7. CASE bal' = RefundBoth(d)
    <3> DEFINE mid == Transfer(bal, k, Vault, d.creator, n)
    <3>1. d.creator \in Accounts /\ k \in Tokens
      BY <1>2, <1>6 DEF Accounts
    <3>2. mid \in [Tokens -> [Accounts -> Nat]]
      BY <1>2, <1>6, <2>3, <3>1, TransferType
    <3>3. \A t \in Tokens : mid[t][Vault] = bal[t][Vault] - (IF t = k THEN n ELSE 0)
      BY <1>2, <1>6, <2>3, <3>1, VaultPays
    <3>4. bal' = Transfer(mid, k, Vault, d.challenger, n)
      BY <2>5, <2>7
    <3> HIDE DEF mid
    <3>5. mid[k][Vault] >= n
      BY <1>2, <1>3, <2>3, <3>1, <3>3
    <3>5a. d.challenger \in Players /\ n \in Nat
      BY <1>2, <1>6
    <3>6. \A t \in Tokens : bal'[t][Vault] = mid[t][Vault] - (IF t = k THEN n ELSE 0)
      BY <3>1, <3>2, <3>4, <3>5, <3>5a, VaultPays
    <3>7. \A t \in Tokens : bal'[t][Vault] = bal[t][Vault] - (IF t = k THEN 2 * n ELSE 0)
      BY <1>2, <1>3, <3>3, <3>6
    <3> QED BY <2>2, <3>7 DEF d
  <2> QED BY <2>1, <2>6, <2>7
<1> QED BY <1>1, <1>4, <1>5, <1>6

\* A stake pulled adds itself to the contract's account.
LEMMA VaultFills ==
  ASSUME bal \in [Tokens -> [Accounts -> Nat]], NEW p \in Players, NEW tier \in Tier,
         NEW t \in Tokens \cup {NoToken}, tier = "Staked" => t \in Tokens, NEW stake \in Nat,
         EscrowStake(p, tier, t, stake)
  PROVE  \A u \in Tokens : bal'[u][Vault] = bal[u][Vault] + (IF tier = "Staked" /\ u = t THEN stake ELSE 0)
<1>1. Vault \in Accounts /\ p # Vault /\ p \in Accounts
  BY PartiesAssumption DEF Accounts
<1>2. CASE tier = "Staked"
  BY <1>1, <1>2 DEF EscrowStake, Transfer
<1>3. CASE tier # "Staked"
  BY <1>1, <1>3 DEF EscrowStake
<1> QED BY <1>2, <1>3

LEMMA EscrowStep ==
  ASSUME RefInv, EscrowExact, [Next]_vars
  PROVE  EscrowExact'
<1>1. /\ duels \in [DuelIds -> Duel] /\ duels' \in [DuelIds -> Duel]
      /\ bal \in [Tokens -> [Accounts -> Nat]] /\ DuelsWellFormed /\ Vault \in Accounts
  BY StepType DEF RefInv, TypeInv, TypeOK, Accounts
<1>2. \A t \in Tokens : bal[t][Vault] \in Nat
  BY <1>1
<1>3. CASE \E p \in Players, deck \in Decks, size \in MIN_DECK_SIZE .. MAX_DECK_SIZE,
             tier \in Tier, t \in Tokens, stake \in Stakes \cup {0} :
             CreateDuel(p, deck, size, tier, t, stake)
  <2>1. PICK p \in Players, deck \in Decks, size \in MIN_DECK_SIZE .. MAX_DECK_SIZE,
             tier \in Tier, k \in Tokens, stake \in Stakes \cup {0} :
             CreateDuel(p, deck, size, tier, k, stake)
    BY <1>3
  <2> DEFINE id == duelSeq + 1
  <2>2. /\ id \in DuelIds /\ duels[id] = NoDuel
        /\ duels'[id] = NewDuel(p, deck, size, tier, k, stake)
        /\ \A i \in DuelIds : i # id => duels'[i] = duels[i]
    BY <2>1, Fresh
  <2>3. stake \in Nat /\ EscrowStake(p, tier, k, stake)
    BY <2>1, BoundsAssumption DEF CreateDuel
  <2> HIDE DEF id
  <2>4. \A t \in Tokens : HeldIn(t, duels[id]) = 0
    <3>1. duels[id].status = "None"
      BY <2>2 DEF NoDuel
    <3> QED BY <1>1, <2>2, <3>1, HeldType
  <2>5. \A t \in Tokens : HeldIn(t, duels'[id]) = IF tier = "Staked" /\ t = k THEN stake ELSE 0
    <3>1. /\ duels'[id].status = "Pending" /\ duels'[id].stake = stake
          /\ duels'[id].stakeToken = IF tier = "Staked" THEN k ELSE NoToken
      BY <2>2 DEF NewDuel
    <3>2. duels'[id] \in Duel
      BY <1>1, <2>2
    <3>3. \A t \in Tokens : HeldIn(t, duels'[id]) = IF duels'[id].stakeToken = t THEN stake ELSE 0
      BY <3>1, <3>2, HeldType
    <3> QED BY <3>1, <3>3, PartiesAssumption
  <2>6. \A t \in Tokens : bal'[t][Vault] = bal[t][Vault] + (IF tier = "Staked" /\ t = k THEN stake ELSE 0)
    BY <1>1, <2>3, VaultFills
  <2>7. \A t \in Tokens : bal'[t][Vault] = bal[t][Vault] - HeldIn(t, duels[id]) + HeldIn(t, duels'[id])
    BY <1>2, <2>3, <2>4, <2>5, <2>6
  <2> QED BY <1>1, <2>2, <2>7, EscrowFollows
<1>4. CASE \E p \in Players, id \in DuelIds : JoinDuel(p, id)
  <2>1. PICK p \in Players, id \in DuelIds : JoinDuel(p, id)
    BY <1>4
  <2> DEFINE d == duels[id]
             k == d.stakeToken
             n == d.stake
  <2>2. /\ d \in Duel /\ duels'[id] \in Duel /\ WellFormed(d)
        /\ EscrowStake(p, d.tier, k, n)
    BY <1>1, <2>1 DEF JoinDuel, DuelsWellFormed
  <2>3. /\ \A i \in DuelIds : i # id => duels'[i] = duels[i]
        /\ d.status = "Pending" /\ duels'[id].status = "Active"
        /\ duels'[id].stakeToken = k /\ duels'[id].stake = n
    BY <2>1, Joined
  <2>4. d.tier \in Tier /\ n \in Nat /\ (d.tier = "Staked" => k \in Tokens) /\ (d.tier = "Free" => k = NoToken)
    BY <2>2 DEF Duel, WellFormed
  <2>5. \A t \in Tokens : HeldIn(t, d) = IF k = t THEN n ELSE 0
    BY <2>2, <2>3, HeldType
  <2>6. \A t \in Tokens : HeldIn(t, duels'[id]) = IF k = t THEN 2 * n ELSE 0
    BY <2>2, <2>3, HeldType
  <2>7. \A t \in Tokens : (d.tier = "Staked" /\ t = k) <=> t = k
    BY <2>4, PartiesAssumption DEF Tier
  <2>8. \A t \in Tokens : bal'[t][Vault] = bal[t][Vault] + (IF d.tier = "Staked" /\ t = k THEN n ELSE 0)
    <3>1. k \in Tokens \cup {NoToken}
      BY <2>4 DEF Tier
    <3> HIDE DEF d, k, n
    <3> QED BY <1>1, <2>2, <2>4, <3>1, VaultFills
  <2> HIDE DEF k, n
  <2>9. \A t \in Tokens : bal'[t][Vault] = bal[t][Vault] - HeldIn(t, d) + HeldIn(t, duels'[id])
    BY <1>2, <2>4, <2>5, <2>6, <2>7, <2>8
  <2> QED BY <1>1, <2>3, <2>9, EscrowFollows
<1>5. CASE \E id \in DuelIds : Ends(id)
  <2>1. PICK id \in DuelIds : Ends(id)
    BY <1>5
  <2>2. /\ \A i \in DuelIds : i # id => duels'[i] = duels[i]
        /\ duels'[id].status = "Complete"
    BY <1>1, <2>1, EndsClose, ClosedFields
  <2>3. \A t \in Tokens : HeldIn(t, duels'[id]) = 0 /\ HeldIn(t, duels[id]) \in Nat
    BY <1>1, <2>2, HeldType
  <2>4. \A t \in Tokens : bal'[t][Vault] = bal[t][Vault] - HeldIn(t, duels[id]) + HeldIn(t, duels'[id])
    BY <1>2, <2>1, <2>3, EndPays
  <2> QED BY <1>1, <2>2, <2>4, EscrowFollows
<1>6. CASE \E k \in Keepers, id \in DuelIds, deck \in Decks : RevealDeck(k, id, deck)
  <2>1. PICK k \in Keepers, id \in DuelIds, deck \in Decks : RevealDeck(k, id, deck)
    BY <1>6
  <2>2. \A i \in DuelIds : /\ duels'[i].status = duels[i].status
                           /\ duels'[i].stake = duels[i].stake
                           /\ duels'[i].stakeToken = duels[i].stakeToken
    BY <2>1, Revealed
  <2> QED BY <2>1, <2>2, EscrowStands DEF RevealDeck, HeldIn, Held
<1>7. CASE \E k \in Keepers, id \in DuelIds, c \in Cards, w \in Direction, v \in BOOLEAN :
             SettleCard(k, id, c, w, v)
  <2>1. PICK k \in Keepers, id \in DuelIds, c \in Cards, w \in Direction, v \in BOOLEAN :
             SettleCard(k, id, c, w, v)
    BY <1>7
  <2>2. \A i \in DuelIds : /\ duels'[i].status = duels[i].status
                           /\ duels'[i].stake = duels[i].stake
                           /\ duels'[i].stakeToken = duels[i].stakeToken
    BY <2>1, Settled
  <2> QED BY <2>1, <2>2, EscrowStands DEF SettleCard, HeldIn, Held
<1>8. CASE \E k \in Keepers, s \in signed, dir \in Direction, fill \in Fills :
             RecordSwipe(k, s.duelId, s.player, s.cardIdx, dir, fill, s.nonce, s.deadline)
  BY <1>8, EscrowStands DEF RecordSwipe
<1>9. CASE \E p \in Players, id \in DuelIds, c \in Cards, dir \in Direction :
              SignSwipe(p, id, c, dir)
  BY <1>9, EscrowStands DEF SignSwipe
<1>10. CASE UNCHANGED <<duelSeq, duels, decks, swipes, cardSettled, nonces, bal, signed, cardEvents>>
  BY <1>10, EscrowStands
<1> QED BY <1>3, <1>4, <1>5, <1>6, <1>7, <1>8, <1>9, <1>10, Steps

-----------------------------------------------------------------------------
(* Every swipe was signed by its player, and nonces count them.             *)
SwipesOf(p) == {x \in DuelIds \X Cards : swipes[x[1]][p][x[2]].exists}

\* The two halves of SwipesAuthorized.
Signed ==
  \A id \in DuelIds, p \in Players, c \in Cards :
    swipes[id][p][c].exists =>
      /\ p \in {duels[id].creator, duels[id].challenger}
      /\ \E s \in signed : /\ s.player = p /\ s.duelId = id /\ s.cardIdx = c
                           /\ s.direction = swipes[id][p][c].direction
                           /\ s.nonce < nonces[p]
Counted == \A p \in Players : nonces[p] = Cardinality(SwipesOf(p))

LEMMA Authorized == SwipesAuthorized <=> Signed /\ Counted
BY DEF SwipesAuthorized, Signed, Counted, SwipesOf

LEMMA SwipesStand ==
  ASSUME Signed, Counted, UNCHANGED <<swipes, nonces>>, signed \subseteq signed',
         \A i \in DuelIds : \A p \in Players, c \in Cards :
           swipes[i][p][c].exists => /\ duels'[i].creator = duels[i].creator
                                     /\ duels'[i].challenger = duels[i].challenger
  PROVE  SwipesAuthorized'
<1>1. Counted'
  BY DEF Counted, SwipesOf
<1>2. Signed'
  <2> SUFFICES ASSUME NEW id \in DuelIds, NEW p \in Players, NEW c \in Cards,
                      swipes'[id][p][c].exists
               PROVE  /\ p \in {duels'[id].creator, duels'[id].challenger}
                      /\ \E s \in signed' : /\ s.player = p /\ s.duelId = id /\ s.cardIdx = c
                                            /\ s.direction = swipes'[id][p][c].direction
                                            /\ s.nonce < nonces'[p]
    BY DEF Signed
  <2>1. /\ p \in {duels[id].creator, duels[id].challenger}
        /\ \E s \in signed : /\ s.player = p /\ s.duelId = id /\ s.cardIdx = c
                             /\ s.direction = swipes[id][p][c].direction
                             /\ s.nonce < nonces[p]
    BY DEF Signed
  <2> QED BY <2>1
<1> QED BY <1>1, <1>2 DEF SwipesAuthorized, Signed, Counted, SwipesOf

LEMMA SwipeRecorded ==
  ASSUME RefInv, Signed, Counted,
         NEW k \in Keepers, NEW s \in signed, NEW dir \in Direction, NEW fill \in Fills,
         RecordSwipe(k, s.duelId, s.player, s.cardIdx, dir, fill, s.nonce, s.deadline)
  PROVE  SwipesAuthorized'
<1> DEFINE id == s.duelId
           p == s.player
           c == s.cardIdx
           pair == <<id, c>>
<1>1. /\ id \in DuelIds /\ p \in Players /\ c \in Cards
      /\ p \in {duels[id].creator, duels[id].challenger}
      /\ ~swipes[id][p][c].exists /\ swipes'[id][p][c].exists
      /\ swipes'[id][p][c].direction = dir
      /\ \A i \in DuelIds, q \in Players, b \in Cards :
           ~(i = id /\ q = p /\ b = c) => swipes'[i][q][b] = swipes[i][q][b]
      /\ s.nonce = nonces[p] /\ s.nonce \in Nat
      /\ nonces' = [nonces EXCEPT ![p] = @ + 1]
      /\ \E r \in signed : /\ r.player = p /\ r.duelId = id
                           /\ r.cardIdx = c /\ r.direction = dir /\ r.nonce = s.nonce
  BY Recorded
<1>2. UNCHANGED <<duels, signed>> /\ nonces \in [Players -> Nat] /\ \A x \in signed : x.nonce \in Nat
  BY DEF RecordSwipe, RefInv, TypeInv, TypeOK, Signature
<1> HIDE DEF id, p, c
<1>3. nonces'[p] = nonces[p] + 1 /\ \A q \in Players : q # p => nonces'[q] = nonces[q]
  BY <1>1, <1>2
<1>4. Counted'
  <2> DEFINE Later(q) == {x \in DuelIds \X Cards : swipes'[x[1]][q][x[2]].exists}
  <2>1. pair \in DuelIds \X Cards /\ pair[1] = id /\ pair[2] = c
    BY <1>1
  <2>2. \A x \in DuelIds \X Cards : x[1] \in DuelIds /\ x[2] \in Cards /\ (x # pair => x[1] # id \/ x[2] # c)
    OBVIOUS
  <2>3. \A q \in Players : q # p => Later(q) = SwipesOf(q)
    BY <1>1, <2>2 DEF SwipesOf
  <2>4. Later(p) = SwipesOf(p) \cup {pair} /\ pair \notin SwipesOf(p)
    BY <1>1, <2>1, <2>2 DEF SwipesOf
  <2>5. SwipesOf(p) \in SUBSET (DuelIds \X Cards) /\ IsFiniteSet(DuelIds \X Cards)
    BY IdsFinite, FS_Product DEF SwipesOf
  <2>6. IsFiniteSet(SwipesOf(p))
    BY <2>5, FS_Subset
  <2>7. Cardinality(Later(p)) = Cardinality(SwipesOf(p)) + 1
    BY <2>4, <2>6, FS_AddElement
  <2>8. ASSUME NEW q \in Players PROVE nonces'[q] = Cardinality(Later(q))
    <3>1. CASE q = p
      BY <1>1, <1>3, <2>7, <3>1 DEF Counted
    <3>2. CASE q # p
      BY <1>3, <2>3, <3>2 DEF Counted
    <3> QED BY <3>1, <3>2
  <2> QED BY <2>8 DEF Counted, SwipesOf
<1>5. Signed'
  <2> SUFFICES ASSUME NEW i \in DuelIds, NEW q \in Players, NEW b \in Cards,
                      swipes'[i][q][b].exists
               PROVE  /\ q \in {duels[i].creator, duels[i].challenger}
                      /\ \E r \in signed : /\ r.player = q /\ r.duelId = i /\ r.cardIdx = b
                                           /\ r.direction = swipes'[i][q][b].direction
                                           /\ r.nonce < nonces'[q]
    BY <1>2 DEF Signed
  <2>1. CASE i = id /\ q = p /\ b = c
    BY <1>1, <1>2, <1>3, <2>1
  <2>2. CASE ~(i = id /\ q = p /\ b = c)
    <3>1. swipes'[i][q][b] = swipes[i][q][b]
      BY <1>1, <2>2
    <3>2. /\ q \in {duels[i].creator, duels[i].challenger}
          /\ \E r \in signed : /\ r.player = q /\ r.duelId = i /\ r.cardIdx = b
                               /\ r.direction = swipes[i][q][b].direction
                               /\ r.nonce < nonces[q]
      BY <3>1 DEF Signed
    <3>3. nonces[q] <= nonces'[q] /\ nonces[q] \in Nat /\ nonces'[q] \in Nat
      BY <1>1, <1>2, <1>3
    <3> QED BY <1>2, <3>1, <3>2, <3>3
  <2> QED BY <2>1, <2>2
<1> QED BY <1>4, <1>5 DEF SwipesAuthorized, Signed, Counted, SwipesOf

LEMMA SwipeStep ==
  ASSUME RefInv, DeckWasCommitted, SwipesAuthorized, [Next]_vars
  PROVE  SwipesAuthorized'
<1>1. Signed /\ Counted
  BY Authorized
<1>2. duels \in [DuelIds -> Duel]
  BY DEF RefInv, TypeInv, TypeOK
<1>3. \A i \in DuelIds : ~duels[i].deckRevealed => \A p \in Players, c \in Cards : ~swipes[i][p][c].exists
  BY DEF DeckWasCommitted
<1>4. ASSUME UNCHANGED <<swipes, nonces, signed>>,
             \A i \in DuelIds : duels[i].deckRevealed => /\ duels'[i].creator = duels[i].creator
                                                         /\ duels'[i].challenger = duels[i].challenger
      PROVE  SwipesAuthorized'
  BY <1>1, <1>3, <1>4, SwipesStand
<1>5. CASE \E p \in Players, deck \in Decks, size \in MIN_DECK_SIZE .. MAX_DECK_SIZE,
             tier \in Tier, t \in Tokens, stake \in Stakes \cup {0} :
             CreateDuel(p, deck, size, tier, t, stake)
  <2>1. PICK p \in Players, deck \in Decks, size \in MIN_DECK_SIZE .. MAX_DECK_SIZE,
             tier \in Tier, t \in Tokens, stake \in Stakes \cup {0} :
             CreateDuel(p, deck, size, tier, t, stake)
    BY <1>5
  <2>2. UNCHANGED <<swipes, nonces, signed>>
    BY <2>1 DEF CreateDuel
  <2>3. duels[duelSeq + 1] = NoDuel /\ \A i \in DuelIds : i # duelSeq + 1 => duels'[i] = duels[i]
    BY <2>1, Fresh
  <2>4. ~duels[duelSeq + 1].deckRevealed
    BY <2>3 DEF NoDuel
  <2> QED BY <1>4, <2>2, <2>3, <2>4
<1>6. CASE \E p \in Players, id \in DuelIds : JoinDuel(p, id)
  <2>1. PICK p \in Players, id \in DuelIds : JoinDuel(p, id)
    BY <1>6
  <2>2. /\ \A i \in DuelIds : i # id => duels'[i] = duels[i]
        /\ ~duels[id].deckRevealed
    BY <2>1, Joined
  <2> QED BY <1>4, <2>1, <2>2 DEF JoinDuel
<1>7. CASE \E k \in Keepers, id \in DuelIds, deck \in Decks : RevealDeck(k, id, deck)
  <2>1. PICK k \in Keepers, id \in DuelIds, deck \in Decks : RevealDeck(k, id, deck)
    BY <1>7
  <2>2. \A i \in DuelIds : /\ duels'[i].creator = duels[i].creator
                           /\ duels'[i].challenger = duels[i].challenger
    BY <2>1, Revealed
  <2> QED BY <1>4, <2>1, <2>2 DEF RevealDeck
<1>8. CASE \E k \in Keepers, s \in signed, dir \in Direction, fill \in Fills :
             RecordSwipe(k, s.duelId, s.player, s.cardIdx, dir, fill, s.nonce, s.deadline)
  BY <1>1, <1>8, SwipeRecorded
<1>9. CASE \E k \in Keepers, id \in DuelIds, c \in Cards, w \in Direction, v \in BOOLEAN :
             SettleCard(k, id, c, w, v)
  <2>1. PICK k \in Keepers, id \in DuelIds, c \in Cards, w \in Direction, v \in BOOLEAN :
             SettleCard(k, id, c, w, v)
    BY <1>9
  <2>2. \A i \in DuelIds : /\ duels'[i].creator = duels[i].creator
                           /\ duels'[i].challenger = duels[i].challenger
    BY <2>1, Settled
  <2> QED BY <1>4, <2>1, <2>2 DEF SettleCard
<1>10. CASE \E id \in DuelIds : Ends(id)
  <2>1. PICK id \in DuelIds : Ends(id)
    BY <1>10
  <2>2. Close(id) /\ UNCHANGED <<swipes, nonces, signed>>
    BY <2>1, EndsClose
  <2>3. \A i \in DuelIds : /\ duels'[i].creator = duels[i].creator
                           /\ duels'[i].challenger = duels[i].challenger
    BY <1>2, <2>2, ClosedFields
  <2> QED BY <1>4, <2>2, <2>3
<1>11. CASE \E p \in Players, id \in DuelIds, c \in Cards, dir \in Direction :
              SignSwipe(p, id, c, dir)
  BY <1>1, <1>11, SwipesStand DEF SignSwipe
<1>12. CASE UNCHANGED <<duelSeq, duels, decks, swipes, cardSettled, nonces, bal, signed, cardEvents>>
  BY <1>4, <1>12
<1> QED BY <1>5, <1>6, <1>7, <1>8, <1>9, <1>10, <1>11, <1>12, Steps

-----------------------------------------------------------------------------
DuelInv == RefInv /\ DeckWasCommitted /\ ScoreIsSumOfEvents /\ EscrowExact /\ SwipesAuthorized

LEMMA DuelInvInit == Init => DuelInv
<1> SUFFICES ASSUME Init PROVE DuelInv
  OBVIOUS
<1>1. RefInv
  BY InitType DEF Init, RefInv, FreshIds, NoDuel
<1>2. DeckWasCommitted
  BY DEF Init, DeckWasCommitted, NoDuel, NoSwipe
<1>3. \A f : SumFunctionOnSet(f, {}) = 0
  BY SumEmpty
<1>4. Cardinality({}) = 0
  BY FS_EmptySet
<1>5. ScoreIsSumOfEvents
  BY <1>3, <1>4 DEF Init, ScoreIsSumOfEvents, NoDuel
<1>6. EscrowExact
  <2> SUFFICES ASSUME NEW t \in Tokens
               PROVE  bal[t][Vault] = SumFunctionOnSet([i \in DuelIds |-> HeldIn(t, duels[i])], DuelIds)
    BY DEF EscrowExact
  <2> DEFINE f == [i \in DuelIds |-> HeldIn(t, duels[i])]
  <2>1. bal[t][Vault] = 0
    BY DEF Init, Accounts
  <2>2. \A i \in DuelIds : f[i] = 0
    BY DEF Init, HeldIn, Held, NoDuel
  <2> HIDE DEF f
  <2>3. SumFunctionOnSet(f, DuelIds) = 0
    BY <2>2, IdsFinite, SumOfZeros
  <2> QED BY <2>1, <2>3 DEF f
<1>7. Signed
  BY DEF Init, Signed, NoSwipe
<1>8. Counted
  <2>1. \A p \in Players : SwipesOf(p) = {}
    BY DEF Init, SwipesOf, NoSwipe
  <2> QED BY <1>4, <2>1 DEF Init, Counted
<1> QED BY <1>1, <1>2, <1>5, <1>6, <1>7, <1>8, Authorized DEF DuelInv

LEMMA DuelInvStep == DuelInv /\ [Next]_vars => DuelInv'
<1> SUFFICES ASSUME DuelInv, [Next]_vars PROVE DuelInv'
  OBVIOUS
<1>1. RefInv'
  BY StepType, FreshIdsStep DEF DuelInv, RefInv
<1> QED BY <1>1, DeckStep, ScoreStep, EscrowStep, SwipeStep DEF DuelInv

LEMMA DuelInvariant == Spec => []DuelInv
BY DuelInvInit, DuelInvStep, PTL DEF Spec

\* No payout is ever funded by another duel's escrow, and none leaves a residue:
\* for any duels in any tokens, the pooled balance is the sum of the open stakes.
THEOREM EscrowIsExact == Spec => []EscrowExact
<1>1. DuelInv => EscrowExact
  BY DEF DuelInv
<1> QED BY <1>1, DuelInvariant, PTL

\* A relayer can only submit what a player signed, for that duel, card and
\* direction, and each signature once.
THEOREM OnlySignedSwipes == Spec => []SwipesAuthorized
<1>1. DuelInv => SwipesAuthorized
  BY DEF DuelInv
<1> QED BY <1>1, DuelInvariant, PTL

\* Nobody plays a deck other than the one committed to.
THEOREM OnlyCommittedDecks == Spec => []DeckWasCommitted
<1>1. DuelInv => DeckWasCommitted
  BY DEF DuelInv
<1> QED BY <1>1, DuelInvariant, PTL

\* The scores that decide the pot count every settled card once.
THEOREM ScoresAddUp == Spec => []ScoreIsSumOfEvents
<1>1. DuelInv => ScoreIsSumOfEvents
  BY DEF DuelInv
<1> QED BY <1>1, DuelInvariant, PTL

-----------------------------------------------------------------------------
(* What no call may do to a duel that is over, and what it takes to be paid *)
(* the pot.                                                                 *)

\* A step that takes an Active duel to Complete, or touches a Complete one at
\* all, is one of the ways out of that duel.
LEMMA OnlyEndsComplete ==
  ASSUME RefInv, [Next]_vars, NEW i \in DuelIds
  PROVE  /\ duels[i].status = "Active" /\ duels'[i].status = "Complete" => Ends(i)
         /\ duels[i].status = "Complete" => /\ duels'[i] = duels[i]
                                           /\ swipes'[i] = swipes[i]
                                           /\ cardSettled'[i] = cardSettled[i]
<1>1. CASE \E p \in Players, deck \in Decks, size \in MIN_DECK_SIZE .. MAX_DECK_SIZE,
             tier \in Tier, t \in Tokens, stake \in Stakes \cup {0} :
             CreateDuel(p, deck, size, tier, t, stake)
  <2>1. PICK p \in Players, deck \in Decks, size \in MIN_DECK_SIZE .. MAX_DECK_SIZE,
             tier \in Tier, t \in Tokens, stake \in Stakes \cup {0} :
             CreateDuel(p, deck, size, tier, t, stake)
    BY <1>1
  <2>2. duels[duelSeq + 1] = NoDuel /\ (i # duelSeq + 1 => duels'[i] = duels[i])
    BY <2>1, Fresh
  <2>3. duels[duelSeq + 1].status = "None"
    BY <2>2 DEF NoDuel
  <2> QED BY <2>1, <2>2, <2>3 DEF CreateDuel
<1>2. CASE \E p \in Players, id \in DuelIds : JoinDuel(p, id)
  <2>1. PICK p \in Players, id \in DuelIds : JoinDuel(p, id)
    BY <1>2
  <2>2. /\ i # id => duels'[i] = duels[i]
        /\ duels[id].status = "Pending" /\ duels'[id].status = "Active"
    BY <2>1, Joined
  <2> QED BY <2>1, <2>2 DEF JoinDuel
<1>3. CASE \E k \in Keepers, id \in DuelIds, deck \in Decks : RevealDeck(k, id, deck)
  <2>1. PICK k \in Keepers, id \in DuelIds, deck \in Decks : RevealDeck(k, id, deck)
    BY <1>3
  <2>2. /\ i # id => duels'[i] = duels[i]
        /\ duels[id].status = "Active" /\ duels'[id].status = duels[id].status
    BY <2>1, Revealed
  <2> QED BY <2>1, <2>2 DEF RevealDeck
<1>4. CASE \E k \in Keepers, s \in signed, dir \in Direction, fill \in Fills :
             RecordSwipe(k, s.duelId, s.player, s.cardIdx, dir, fill, s.nonce, s.deadline)
  <2>1. PICK k \in Keepers, s \in signed, dir \in Direction, fill \in Fills :
             RecordSwipe(k, s.duelId, s.player, s.cardIdx, dir, fill, s.nonce, s.deadline)
    BY <1>4
  <2>2. UNCHANGED <<duels, cardSettled>>
    BY <2>1 DEF RecordSwipe
  <2>3. duels[s.duelId].status = "Active" /\ (i # s.duelId => swipes'[i] = swipes[i])
    BY <2>1, Recorded
  <2> QED BY <2>2, <2>3
<1>5. CASE \E k \in Keepers, id \in DuelIds, c \in Cards, w \in Direction, v \in BOOLEAN :
             SettleCard(k, id, c, w, v)
  <2>1. PICK k \in Keepers, id \in DuelIds, c \in Cards, w \in Direction, v \in BOOLEAN :
             SettleCard(k, id, c, w, v)
    BY <1>5
  <2>2. /\ i # id => duels'[i] = duels[i] /\ cardSettled'[i] = cardSettled[i]
        /\ duels[id].status = "Active" /\ duels'[id].status = "Active"
    BY <2>1, Settled
  <2> QED BY <2>1, <2>2 DEF SettleCard
<1>6. CASE \E id \in DuelIds : Ends(id)
  <2>1. PICK id \in DuelIds : Ends(id)
    BY <1>6
  <2>2. /\ duels[id].status \in {"Pending", "Active"} /\ Close(id)
        /\ UNCHANGED <<swipes, cardSettled>>
    BY <2>1, EndsClose
  <2>3. i # id => duels'[i] = duels[i]
    BY <2>2, ClosedFields DEF RefInv, TypeInv, TypeOK
  <2> QED BY <2>1, <2>2, <2>3
<1>7. CASE \E p \in Players, id \in DuelIds, c \in Cards, dir \in Direction :
              SignSwipe(p, id, c, dir)
  BY <1>7 DEF SignSwipe
<1>8. CASE UNCHANGED <<duelSeq, duels, decks, swipes, cardSettled, nonces, bal, signed, cardEvents>>
  BY <1>8
<1> QED BY <1>1, <1>2, <1>3, <1>4, <1>5, <1>6, <1>7, <1>8, Steps

\* What a payout leaves in the accounts of a token.
LEMMA Pays ==
  ASSUME NEW b \in [Tokens -> [Accounts -> Nat]], NEW t \in Tokens, NEW p \in Players, NEW n \in Nat,
         b[t][Vault] >= n
  PROVE  \A q \in Players : Transfer(b, t, Vault, p, n)[t][q] = b[t][q] + (IF q = p THEN n ELSE 0)
BY PartiesAssumption DEF Transfer, Accounts

\* A deck of n cards.
LEMMA FirstCards ==
  ASSUME NEW n \in Nat
  PROVE  IsFiniteSet(0 .. n - 1) /\ Cardinality(0 .. n - 1) = n
BY FS_Interval

\* An Active duel ends in the payout of its pot to the player whose score is
\* the higher, all its cards settled, or in a refund to both.
LEMMA PotEarned ==
  ASSUME RefInv, ScoreIsSumOfEvents, NEW id \in DuelIds, Ends(id),
         duels[id].status = "Active", duels[id].tier = "Staked",
         NEW p \in {duels[id].creator, duels[id].challenger}
  PROVE  LET d == duels[id]
             gain == bal'[d.stakeToken][p] - bal[d.stakeToken][p]
         IN  /\ gain # d.stake => cardSettled[id] = 0 .. d.deckSize - 1
             /\ gain > d.stake => Lead(d, p) > 0 /\ gain = 2 * d.stake
             /\ gain < d.stake => Lead(d, p) < 0 /\ gain = 0
<1> DEFINE d == duels[id]
           t == d.stakeToken
           n == d.stake
           gain == bal'[t][p] - bal[t][p]
<1>1. /\ bal \in [Tokens -> [Accounts -> Nat]] /\ n \in Nat
      /\ d.creator \in Players /\ d.challenger \in Players /\ d.creator # d.challenger
      /\ t \in Tokens
  BY PaidDuel
<1>2. d.deckSize \in Nat /\ d.settledCount \in Nat
  BY DEF RefInv, TypeInv, TypeOK, Duel
<1>2a. d.p0Score \in Int /\ d.p1Score \in Int
  BY DEF RefInv, TypeInv, TypeOK, Duel
<1>3. /\ cardSettled[id] \subseteq 0 .. d.deckSize - 1
      /\ d.settledCount = Cardinality(cardSettled[id])
  BY DEF ScoreIsSumOfEvents
<1>4. /\ bal[t][Vault] >= 2 * n
      /\ \/ bal' = RefundBoth(d)
         \/ CanFinalize(d) /\ Winner(d) # NoPlayer /\ bal' = Transfer(bal, t, Vault, Winner(d), 2 * n)
  BY DEF Ends, Finalize, CancelPending, CanCancel, RefundActive, CanRefund,
         CanPayOut, CanPay
<1>5. \A q \in Players : bal[t][q] \in Nat
  BY <1>1 DEF Accounts
<1>5a. bal[t][Vault] \in Nat
  BY <1>1 DEF Accounts
<1>6. p \in Players /\ p \in {d.creator, d.challenger}
  BY <1>1
<1>7. RefundBoth(d) = Transfer(Transfer(bal, t, Vault, d.creator, n), t, Vault, d.challenger, n)
  BY DEF RefundBoth
<1>8. Winner(d) # NoPlayer => /\ Winner(d) \in {d.creator, d.challenger}
                              /\ p = Winner(d) => Lead(d, p) > 0
                              /\ p # Winner(d) => Lead(d, p) < 0
  BY <1>1, <1>2a, <1>6 DEF Winner, Lead
<1>9. CanFinalize(d) => d.settledCount = d.deckSize
  BY DEF CanFinalize
<1> SUFFICES /\ gain # n => cardSettled[id] = 0 .. d.deckSize - 1
             /\ gain > n => Lead(d, p) > 0 /\ gain = 2 * n
             /\ gain < n => Lead(d, p) < 0 /\ gain = 0
  OBVIOUS
<1> HIDE DEF d, t, n
<1>10. CASE bal' = RefundBoth(d)
  <2> DEFINE mid == Transfer(bal, t, Vault, d.creator, n)
  <2>1. bal[t][Vault] >= n
    BY <1>1, <1>4, <1>5a
  <2>2. d.creator \in Accounts /\ Vault \in Accounts
    BY <1>1 DEF Accounts
  <2>3. mid \in [Tokens -> [Accounts -> Nat]]
    BY <1>1, <2>1, <2>2, TransferType
  <2>4. \A q \in Players : mid[t][q] = bal[t][q] + (IF q = d.creator THEN n ELSE 0)
    BY <1>1, <2>1, Pays
  <2>5. mid[t][Vault] = bal[t][Vault] - n
    BY <1>1, <2>1, VaultPays
  <2>6. mid[t][Vault] >= n
    BY <1>1, <1>4, <1>5a, <2>5
  <2>7. bal' = Transfer(mid, t, Vault, d.challenger, n)
    BY <1>7, <1>10
  <2> HIDE DEF mid
  <2>8. \A q \in Players : bal'[t][q] = mid[t][q] + (IF q = d.challenger THEN n ELSE 0)
    BY <1>1, <2>3, <2>6, <2>7, Pays
  <2>9. gain = n
    BY <1>1, <1>5, <1>6, <2>4, <2>8
  <2> QED BY <1>1, <2>9
<1>11. CASE CanFinalize(d) /\ Winner(d) # NoPlayer /\ bal' = Transfer(bal, t, Vault, Winner(d), 2 * n)
  <2>1. 2 * n \in Nat /\ Winner(d) \in Players
    BY <1>1, <1>8, <1>11
  <2>2. \A q \in Players : bal'[t][q] = bal[t][q] + (IF q = Winner(d) THEN 2 * n ELSE 0)
    BY <1>1, <1>4, <1>11, <2>1, Pays
  <2>3. gain = IF p = Winner(d) THEN 2 * n ELSE 0
    BY <1>1, <1>5, <1>6, <2>1, <2>2
  <2> HIDE DEF gain
  <2>4. IsFiniteSet(0 .. d.deckSize - 1) /\ Cardinality(0 .. d.deckSize - 1) = d.deckSize
    BY <1>2, FirstCards
  <2>5. cardSettled[id] = 0 .. d.deckSize - 1
    BY <1>3, <1>9, <1>11, <2>4, FS_Subset
  <2>6. CASE p = Winner(d)
    <3>1. gain = 2 * n /\ ~(gain < n)
      BY <1>1, <2>3, <2>6
    <3> QED BY <1>8, <1>11, <2>5, <2>6, <3>1
  <2>7. CASE p # Winner(d)
    <3>1. gain = 0 /\ ~(gain > n)
      BY <1>1, <2>3, <2>7
    <3> QED BY <1>8, <1>11, <2>5, <2>7, <3>1
  <2> QED BY <2>6, <2>7
<1> QED BY <1>4, <1>10, <1>11

\* The outcome of a duel that is over is final.
THEOREM FinalMeansFinal == Spec => CompleteIsFinal
<1> DEFINE Final == \A id \in DuelIds : duels[id].status = "Complete" =>
                      /\ duels'[id] = duels[id]
                      /\ swipes'[id] = swipes[id]
                      /\ cardSettled'[id] = cardSettled[id]
<1>1. RefInv /\ [Next]_vars => [Final]_vars
  BY OnlyEndsComplete
<1> HIDE DEF Final
<1>2. Spec => [][Final]_vars
  BY <1>1, RefInvariant, PTL DEF Spec
<1> QED BY <1>2 DEF CompleteIsFinal, Final

\* Nobody takes anything but their own stake out of a duel short of a deck settled
\* to the last card; then the one strictly ahead takes all, the other nothing.
THEOREM PotsAreEarned == Spec => PotIsEarned
<1> DEFINE Earned == \A id \in DuelIds :
       LET d == duels[id] IN
       d.status = "Active" /\ duels'[id].status = "Complete" /\ d.tier = "Staked" =>
         \A p \in {d.creator, d.challenger} :
           LET gain == bal'[d.stakeToken][p] - bal[d.stakeToken][p] IN
           /\ gain # d.stake => cardSettled[id] = 0 .. d.deckSize - 1
           /\ gain > d.stake => Lead(d, p) > 0 /\ gain = 2 * d.stake
           /\ gain < d.stake => Lead(d, p) < 0 /\ gain = 0
<1>1. DuelInv /\ [Next]_vars => [Earned]_vars
  BY OnlyEndsComplete, PotEarned DEF DuelInv
<1> HIDE DEF Earned
<1>2. Spec => [][Earned]_vars
  BY <1>1, DuelInvariant, PTL DEF Spec
<1> QED BY <1>2 DEF PotIsEarned, Earned

-----------------------------------------------------------------------------
(***************************************************************************)
(* The duel contract implements DuelEscrow: every call is one step of the  *)
(* escrow, or moves no money at all.                                       *)
(***************************************************************************)
\* The escrow's view of the balances.
Wallet == [t \in Tokens |-> [p \in Players |-> bal[t][p]]]
Holdings == [t \in Tokens |-> bal[t][Vault]]

MovedIn(t, p, n) ==
  /\ Wallet[t][p] >= n
  /\ Wallet' = [Wallet EXCEPT ![t][p] = @ - n]
  /\ Holdings' = [Holdings EXCEPT ![t] = @ + n]

\* What a row of balances becomes when p is paid m, and q is paid n.
Credited(row, p, q, m, n) ==
  [r \in Players |-> row[r] + (IF r = p THEN m ELSE 0) + (IF r = q THEN n ELSE 0)]

MovedOut(t, p, q, m, n) ==
  /\ Holdings[t] >= m + n
  /\ Wallet' = [Wallet EXCEPT ![t] = Credited(Wallet[t], p, q, m, n)]
  /\ Holdings' = [Holdings EXCEPT ![t] = @ - (m + n)]

\* A player's payment into the contract, seen by the escrow.
LEMMA PaysIn ==
  ASSUME bal \in [Tokens -> [Accounts -> Nat]], NEW t \in Tokens, NEW p \in Players,
         NEW n \in Nat, bal[t][p] >= n, bal' = Transfer(bal, t, p, Vault, n)
  PROVE  MovedIn(t, p, n)
<1>1. t # NoToken /\ Vault \notin Players /\ p \in Accounts /\ Vault \in Accounts /\ Players \subseteq Accounts
  BY PartiesAssumption DEF Accounts
<1>2. \A u \in Tokens, a \in Accounts : bal'[u][a] =
        IF u = t THEN IF a = p THEN bal[t][a] - n
                      ELSE IF a = Vault THEN bal[t][a] + n ELSE bal[t][a]
        ELSE bal[u][a]
  BY <1>1 DEF Transfer
<1>3. QED
  BY <1>1, <1>2 DEF MovedIn, Wallet, Holdings

\* A payout in two shares, account by account, is the escrow's payout.
LEMMA PaysOut ==
  ASSUME bal \in [Tokens -> [Accounts -> Nat]], NEW t \in Tokens, NEW p, NEW q, p # q,
         NEW m \in Nat, NEW n \in Nat, bal[t][Vault] >= m + n,
         \A u \in Tokens, a \in Accounts : bal'[u][a] =
           bal[u][a] + (IF u # t THEN 0
                        ELSE IF a = Vault THEN -(m + n)
                        ELSE IF a = p THEN m
                        ELSE IF a = q THEN n ELSE 0)
  PROVE  MovedOut(t, p, q, m, n)
<1>1. t # NoToken /\ Vault \notin Players /\ Vault \in Accounts /\ Players \subseteq Accounts
  BY PartiesAssumption DEF Accounts
<1>2. \A u \in Tokens, a \in Accounts : bal[u][a] \in Int
  OBVIOUS
<1>3. \A r \in Players : bal'[t][r] = bal[t][r] + (IF r = p THEN m ELSE 0)
                                                + (IF r = q THEN n ELSE 0)
  BY <1>1, <1>2
<1>4. \A u \in Tokens \ {t}, a \in Accounts : bal'[u][a] = bal[u][a]
  BY <1>2
<1>5. bal'[t][Vault] = bal[t][Vault] - (m + n)
  BY <1>1, <1>2
<1>6. Holdings' = [Holdings EXCEPT ![t] = @ - (m + n)]
  BY <1>1, <1>4, <1>5 DEF Holdings
<1>7. Credited(Wallet[t], p, q, m, n) = [r \in Players |-> bal'[t][r]]
  BY <1>3 DEF Credited, Wallet
<1>8. Wallet' = [Wallet EXCEPT ![t] = Credited(Wallet[t], p, q, m, n)]
  <2> DEFINE row == Credited(Wallet[t], p, q, m, n)
  <2>1. row = [r \in Players |-> bal'[t][r]]
    BY <1>7
  <2>2. \A u \in Tokens \ {t} : [r \in Players |-> bal'[u][r]] = Wallet[u]
    BY <1>1, <1>4 DEF Wallet
  <2> HIDE DEF row
  <2>3. [u \in Tokens |-> [r \in Players |-> bal'[u][r]]] = [Wallet EXCEPT ![t] = row]
    BY <2>1, <2>2 DEF Wallet
  <2>4. QED
    BY <2>3 DEF row, Wallet
<1>9. QED
  BY <1>1, <1>6, <1>8 DEF MovedOut, Holdings

\* A payment of the contract to one of the two players moves nothing to the other.
LEMMA PaysOutFirst ==
  ASSUME bal \in [Tokens -> [Accounts -> Nat]], NEW t \in Tokens, NEW p \in Players,
         NEW q, p # q, NEW n \in Nat, NEW z, z = 0, bal[t][Vault] >= n,
         bal' = Transfer(bal, t, Vault, p, n)
  PROVE  MovedOut(t, p, q, n, z)
<1>1. p # Vault /\ p \in Accounts /\ Vault \in Accounts
  BY PartiesAssumption DEF Accounts
<1>2. \A u \in Tokens, a \in Accounts : bal'[u][a] =
        bal[u][a] + (IF u # t THEN 0 ELSE IF a = Vault THEN -n ELSE IF a = p THEN n ELSE 0)
  BY <1>1 DEF Transfer
<1>3. QED
  BY <1>2, PaysOut

LEMMA PaysOutSecond ==
  ASSUME bal \in [Tokens -> [Accounts -> Nat]], NEW t \in Tokens, NEW q \in Players,
         NEW p, p # q, NEW n \in Nat, NEW z, z = 0, bal[t][Vault] >= n,
         bal' = Transfer(bal, t, Vault, q, n)
  PROVE  MovedOut(t, p, q, z, n)
<1>1. q # Vault /\ q \in Accounts /\ Vault \in Accounts
  BY PartiesAssumption DEF Accounts
<1>2. \A u \in Tokens, a \in Accounts : bal'[u][a] =
        bal[u][a] + (IF u # t THEN 0 ELSE IF a = Vault THEN -n ELSE IF a = q THEN n ELSE 0)
  BY <1>1 DEF Transfer
<1>3. QED
  BY <1>2, PaysOut

\* Two equal refunds are a payout in equal shares.
LEMMA PaysOutBoth ==
  ASSUME bal \in [Tokens -> [Accounts -> Nat]], NEW t \in Tokens, NEW p \in Players,
         NEW q \in Players, p # q, NEW n \in Nat, bal[t][Vault] >= 2 * n,
         bal' = Transfer(Transfer(bal, t, Vault, p, n), t, Vault, q, n)
  PROVE  MovedOut(t, p, q, n, n)
<1>1. p # Vault /\ q # Vault /\ p \in Accounts /\ q \in Accounts /\ Vault \in Accounts
  BY PartiesAssumption DEF Accounts
<1> DEFINE mid == Transfer(bal, t, Vault, p, n)
<1>2. mid \in [Tokens -> [Accounts -> Int]]
  BY <1>1 DEF Transfer
<1>3. \A u \in Tokens, a \in Accounts : mid[u][a] =
        bal[u][a] + (IF u # t THEN 0 ELSE IF a = Vault THEN -n ELSE IF a = p THEN n ELSE 0)
  BY <1>1 DEF Transfer
<1> HIDE DEF mid
<1>4. \A u \in Tokens, a \in Accounts : bal'[u][a] =
        mid[u][a] + (IF u # t THEN 0 ELSE IF a = Vault THEN -n ELSE IF a = q THEN n ELSE 0)
  BY <1>1, <1>2 DEF Transfer, mid
<1>5. \A u \in Tokens, a \in Accounts : bal'[u][a] =
        bal[u][a] + (IF u # t THEN 0
                     ELSE IF a = Vault THEN -(n + n)
                     ELSE IF a = p THEN n
                     ELSE IF a = q THEN n ELSE 0)
  BY <1>1, <1>2, <1>3, <1>4
<1>6. bal[t][Vault] >= n + n
  OBVIOUS
<1>7. QED
  BY <1>5, <1>6, PaysOut

-----------------------------------------------------------------------------
Pots == [id \in DuelIds |-> PotOf(duels[id])]

\* Writing one duel is writing one pot.
LEMMA PotWritten ==
  ASSUME NEW id \in DuelIds, NEW new, duels \in [DuelIds -> Duel],
         duels' = [duels EXCEPT ![id] = new]
  PROVE  Pots' = [Pots EXCEPT ![id] = PotOf(new)]
<1>1. \A i \in DuelIds : duels'[i] = IF i = id THEN new ELSE duels[i]
  OBVIOUS
<1>2. \A i \in DuelIds : PotOf(duels'[i]) = IF i = id THEN PotOf(new) ELSE PotOf(duels[i])
  BY <1>1
<1>3. QED
  BY <1>2 DEF Pots

\* A stake pulled by the contract, in the token of the duel's tier.
LEMMA StakePaidIn ==
  ASSUME bal \in [Tokens -> [Accounts -> Nat]], NEW p \in Players, NEW tier \in Tier,
         NEW t, tier = "Staked" => t \in Tokens, tier = "Free" => t = NoToken,
         NEW stake \in Nat, tier = "Free" => stake = 0, EscrowStake(p, tier, t, stake)
  PROVE  IF t = NoToken THEN stake = 0 /\ UNCHANGED <<Wallet, Holdings>>
                        ELSE MovedIn(t, p, stake)
<1>1. CASE tier = "Staked"
  BY <1>1, PaysIn, PartiesAssumption DEF EscrowStake, CanPay
<1>2. CASE tier = "Free"
  BY <1>2 DEF EscrowStake, Wallet, Holdings
<1>3. QED
  BY <1>1, <1>2 DEF Tier

LEMMA CreateRefines ==
  ASSUME RefInv, NEW p \in Players, NEW deck \in Decks,
         NEW size \in MIN_DECK_SIZE .. MAX_DECK_SIZE, NEW tier \in Tier,
         NEW t \in Tokens, NEW stake \in Stakes \cup {0},
         CreateDuel(p, deck, size, tier, t, stake)
  PROVE  Escrow!Next
<1> DEFINE id == duelSeq + 1
           token == IF tier = "Staked" THEN t ELSE NoToken
           new == NewDuel(p, deck, size, tier, t, stake)
           pot == Escrow!Opened(p, token, stake)
<1>1. id \in DuelIds /\ duels[id].status = "None" /\ stake \in Nat
  BY BoundsAssumption DEF CreateDuel, RefInv, TypeInv, TypeOK, FreshIds, DuelIds
<1>2. (stake = 0) <=> (token = NoToken)
  BY PartiesAssumption DEF CreateDuel, Tier
<1>3. IF token = NoToken THEN stake = 0 /\ UNCHANGED <<Wallet, Holdings>>
                         ELSE MovedIn(token, p, stake)
  <2>1. EscrowStake(p, tier, token, stake)
    BY DEF CreateDuel, EscrowStake
  <2>2. (tier = "Staked" => token \in Tokens) /\ (tier = "Free" => token = NoToken /\ stake = 0)
    BY DEF CreateDuel
  <2> HIDE DEF token
  <2>3. QED
    BY <1>1, <2>1, <2>2, StakePaidIn DEF RefInv, TypeInv, TypeOK
<1>4. PotOf(new) = pot
  BY DEF NewDuel, PotOf, PhaseOf, Escrow!Opened
<1>5. duels' = [duels EXCEPT ![id] = new]
  BY DEF CreateDuel
<1>6. token \in Tokens \cup {NoToken}
  OBVIOUS
<1> HIDE DEF new, id, token
<1>7. Pots' = [Pots EXCEPT ![id] = pot]
  BY <1>1, <1>4, <1>5, PotWritten DEF RefInv, TypeInv, TypeOK
<1>8. Pots[id].phase = "unopened"
  BY <1>1 DEF Pots, PotOf, PhaseOf
<1>9. pot.token = token /\ pot.stake = stake
  BY DEF Escrow!Opened
<1>10. Escrow!PayIn(p, pot)
  <2> HIDE DEF pot
  <2>1. IF pot.token = NoToken THEN pot.stake = 0 /\ UNCHANGED <<Wallet, Holdings>>
        ELSE /\ Wallet[pot.token][p] >= pot.stake
             /\ Wallet' = [Wallet EXCEPT ![pot.token][p] = @ - pot.stake]
             /\ Holdings' = [Holdings EXCEPT ![pot.token] = @ + pot.stake]
    BY <1>3, <1>9 DEF MovedIn
  <2>2. QED
    BY <2>1 DEF Escrow!PayIn, Wallet, Holdings
<1>11. Escrow!Open(id, p, token, stake)
  BY <1>2, <1>7, <1>8, <1>10 DEF Escrow!Open, Pots
<1>12. QED
  BY <1>1, <1>6, <1>11 DEF Escrow!Next

\* The view of one duel through the pots.
LEMMA PotFields ==
  ASSUME NEW id \in DuelIds
  PROVE  /\ Pots[id] = PotOf(duels[id])
         /\ Pots[id].token = duels[id].stakeToken
         /\ Pots[id].stake = duels[id].stake
         /\ Pots[id].first = duels[id].creator
         /\ Pots[id].second = duels[id].challenger
         /\ duels[id].status = "Pending" => Pots[id].phase = "open"
         /\ duels[id].status = "Active" => Pots[id].phase = "matched"
BY DEF Pots, PotOf, PhaseOf

LEMMA JoinRefines ==
  ASSUME RefInv, NEW p \in Players, NEW id \in DuelIds, JoinDuel(p, id)
  PROVE  Escrow!Next
<1> DEFINE d == duels[id]
           new == [d EXCEPT !.challenger = p, !.status = "Active", !.startedAtSec = now]
           pot == [phase |-> "matched", token |-> d.stakeToken, stake |-> d.stake,
                   first |-> d.creator, second |-> p]
<1>1. /\ d \in Duel /\ WellFormed(d) /\ d.status = "Pending" /\ p # d.creator
      /\ EscrowStake(p, d.tier, d.stakeToken, d.stake)
      /\ bal \in [Tokens -> [Accounts -> Nat]] /\ duels \in [DuelIds -> Duel]
  BY DEF JoinDuel, CanJoin, RefInv, TypeInv, TypeOK, DuelsWellFormed
<1>2. duels' = [duels EXCEPT ![id] = new]
  BY DEF JoinDuel, RefInv, TypeInv, TypeOK
<1>3. PotOf(new) = pot
  <2>1. /\ new.status = "Active" /\ new.challenger = p /\ new.stakeToken = d.stakeToken
        /\ new.stake = d.stake /\ new.creator = d.creator
    BY <1>1 DEF Duel
  <2>a. PhaseOf("Active") = "matched"
    BY DEF PhaseOf
  <2> HIDE DEF new, d
  <2>2. QED
    BY <2>1, <2>a DEF PotOf
<1>4. Pots' = [Pots EXCEPT ![id] = pot]
  BY <1>1, <1>2, <1>3, PotWritten
<1>5. pot = [Pots[id] EXCEPT !.phase = "matched", !.second = p]
  <2> HIDE DEF d
  <2>1. Pots[id] = [phase |-> PhaseOf(d.status), token |-> d.stakeToken, stake |-> d.stake,
                    first |-> d.creator, second |-> d.challenger]
    BY PotFields DEF PotOf, d
  <2> DEFINE half == [Pots[id] EXCEPT !.phase = "matched"]
  <2>2. half = [phase |-> "matched", token |-> d.stakeToken, stake |-> d.stake,
                first |-> d.creator, second |-> d.challenger]
    BY <2>1
  <2>3. [Pots[id] EXCEPT !.phase = "matched", !.second = p] = [half EXCEPT !.second = p]
    OBVIOUS
  <2> HIDE DEF half
  <2>4. [half EXCEPT !.second = p] = pot
    <3>1. PICK t, s, c, q : t = d.stakeToken /\ s = d.stake /\ c = d.creator /\ q = d.challenger
      OBVIOUS
    <3>2. half = [phase |-> "matched", token |-> t, stake |-> s, first |-> c, second |-> q]
      BY <2>2, <3>1
    <3>3. [half EXCEPT !.second = p] =
            [phase |-> "matched", token |-> t, stake |-> s, first |-> c, second |-> p]
      BY <3>2
    <3>4. QED
      BY <3>1, <3>3
  <2>5. QED
    BY <2>3, <2>4
<1>6. /\ Pots[id].phase = "open" /\ Pots[id].token = d.stakeToken
      /\ Pots[id].stake = d.stake /\ Pots[id].first = d.creator
  BY <1>1, PotFields
<1> HIDE DEF new, d, pot
<1>7. /\ d.tier \in Tier /\ d.stake \in Nat
      /\ d.tier = "Staked" => d.stakeToken \in Tokens
      /\ d.tier = "Free" => d.stake = 0 /\ d.stakeToken = NoToken
  BY <1>1 DEF Duel, WellFormed
<1>8. IF Pots[id].token = NoToken THEN Pots[id].stake = 0 /\ UNCHANGED <<Wallet, Holdings>>
      ELSE /\ Wallet[Pots[id].token][p] >= Pots[id].stake
           /\ Wallet' = [Wallet EXCEPT ![Pots[id].token][p] = @ - Pots[id].stake]
           /\ Holdings' = [Holdings EXCEPT ![Pots[id].token] = @ + Pots[id].stake]
  BY <1>1, <1>6, <1>7, StakePaidIn DEF MovedIn
<1>9. Escrow!PayIn(p, Pots[id])
  BY <1>8 DEF Escrow!PayIn, Wallet, Holdings
<1>10. Pots' = [Pots EXCEPT ![id].phase = "matched", ![id].second = p]
  BY <1>4, <1>5 DEF Pots
<1>11. Escrow!Match(id, p)
  BY <1>1, <1>6, <1>9, <1>10 DEF Escrow!Match, Pots
<1>12. QED
  BY <1>11 DEF Escrow!Next

\* Closing a duel pays its pot.
LEMMA PotClosed ==
  ASSUME RefInv, NEW id \in DuelIds, Close(id)
  PROVE  Pots' = [Pots EXCEPT ![id].phase = "paid"]
<1> DEFINE d == duels[id]
           new == [d EXCEPT !.status = "Complete"]
<1>1. d \in Duel /\ duels \in [DuelIds -> Duel]
  BY DEF RefInv, TypeInv, TypeOK
<1>2. duels' = [duels EXCEPT ![id] = new]
  BY DEF Close
<1>3. /\ new.status = "Complete" /\ new.challenger = d.challenger
      /\ new.stakeToken = d.stakeToken /\ new.stake = d.stake /\ new.creator = d.creator
  BY <1>1 DEF Duel
<1>4. Pots' = [Pots EXCEPT ![id] = PotOf(new)]
  BY <1>1, <1>2, PotWritten
<1>5. PotOf(new) = [PotOf(d) EXCEPT !.phase = "paid"]
  <2>a. PhaseOf("Complete") = "paid"
    BY DEF PhaseOf
  <2> HIDE DEF new, d
  <2>1. PotOf(new) = [phase |-> "paid", token |-> d.stakeToken, stake |-> d.stake,
                      first |-> d.creator, second |-> d.challenger]
    BY <1>3, <2>a DEF PotOf
  <2>2. QED
    BY <2>1 DEF PotOf
<1> HIDE DEF new
<1>6. QED
  BY <1>4, <1>5, PotFields DEF Pots

\* Paying the pot's two players, together with the close, is a Pay.
LEMMA ClosePays ==
  ASSUME RefInv, NEW id \in DuelIds, Close(id), NEW m, NEW n,
         duels[id].status \in {"Pending", "Active"},
         <<m, n>> \in Escrow!Splits(Pots[id]),
         LET d == duels[id] IN
           IF d.stakeToken = NoToken THEN UNCHANGED bal
           ELSE MovedOut(d.stakeToken, d.creator, d.challenger, m, n)
  PROVE  Escrow!Next
<1> DEFINE pot == Pots[id]
           share == <<m, n>>
<1>1. pot.phase \in {"open", "matched"}
  BY PotFields
<1>2. share[1] = m /\ share[2] = n
  OBVIOUS
<1>3. CASE pot.token = NoToken
  <2>1. UNCHANGED bal
    BY <1>3, PotFields
  <2>2. Escrow!PayOut(pot, share)
    BY <1>3, <2>1 DEF Escrow!PayOut
  <2>3. QED
    BY <1>1, <2>2, PotClosed DEF Escrow!Next, Escrow!Pay, Pots
<1>4. CASE pot.token # NoToken
  <2>1. MovedOut(pot.token, pot.first, pot.second, share[1], share[2])
    BY <1>2, <1>4, PotFields DEF MovedOut
  <2>2. Escrow!PayOut(pot, share)
    BY <1>4, <2>1 DEF MovedOut, Credited, Wallet, Holdings, Escrow!PayOut
  <2>3. QED
    BY <1>1, <2>2, PotClosed DEF Escrow!Next, Escrow!Pay, Pots
<1>5. QED
  BY <1>3, <1>4

LEMMA CancelRefines ==
  ASSUME RefInv, NEW p \in Players, NEW id \in DuelIds, CancelPending(p, id)
  PROVE  Escrow!Next
<1> DEFINE d == duels[id]
<1>1. d.status = "Pending" /\ Close(id)
  BY DEF CancelPending, CanCancel
<1>2. <<d.stake, 0>> \in Escrow!Splits(Pots[id])
  BY <1>1, PotFields DEF Escrow!Splits
<1>3. CASE d.tier = "Staked"
  <2>1. CanPay(d.stakeToken, Vault, d.stake)
        /\ bal' = Transfer(bal, d.stakeToken, Vault, d.creator, d.stake)
    BY <1>3 DEF CancelPending, CanCancel, CanPayOut
  <2>2. /\ bal \in [Tokens -> [Accounts -> Nat]] /\ d.stake \in Nat
        /\ d.creator \in Players /\ d.creator # d.challenger /\ d.stakeToken \in Tokens
    BY <1>1, <1>3, PaidDuel
  <2>3. MovedOut(d.stakeToken, d.creator, d.challenger, d.stake, 0)
    <3> HIDE DEF d
    <3>1. PICK t, c, q, n : t = d.stakeToken /\ c = d.creator /\ q = d.challenger /\ n = d.stake
      OBVIOUS
    <3>2. MovedOut(t, c, q, n, 0)
      BY <2>1, <2>2, <3>1, PaysOutFirst DEF CanPay
    <3>3. QED
      BY <3>1, <3>2 DEF MovedOut
  <2>4. d.stakeToken # NoToken
    BY <2>2, PartiesAssumption
  <2>5. QED
    BY <1>1, <1>2, <2>3, <2>4, ClosePays
<1>4. CASE d.tier = "Free"
  <2>1. UNCHANGED bal /\ d.stakeToken = NoToken
    BY <1>1, <1>4, PaidDuel DEF CancelPending, CanCancel
  <2>2. QED
    BY <1>1, <1>2, <2>1, ClosePays
<1>5. QED
  BY <1>1, <1>3, <1>4, PaidDuel DEF Tier

\* Both stakes back to their owners.
LEMMA BothRefunded ==
  ASSUME RefInv, NEW id \in DuelIds, duels[id].status = "Active", Close(id),
         IF duels[id].tier = "Staked"
         THEN CanPay(duels[id].stakeToken, Vault, 2 * duels[id].stake)
              /\ bal' = RefundBoth(duels[id])
         ELSE UNCHANGED bal
  PROVE  Escrow!Next
<1> DEFINE d == duels[id]
<1>1. <<d.stake, d.stake>> \in Escrow!Splits(Pots[id])
  BY PotFields DEF Escrow!Splits
<1>2. CASE d.tier = "Staked"
  <2>1. CanPay(d.stakeToken, Vault, 2 * d.stake) /\ bal' = RefundBoth(d)
    BY <1>2
  <2>2. /\ bal \in [Tokens -> [Accounts -> Nat]] /\ d.stake \in Nat
        /\ d.creator \in Players /\ d.challenger \in Players
        /\ d.creator # d.challenger /\ d.stakeToken \in Tokens
    BY <1>2, PaidDuel
  <2>3. MovedOut(d.stakeToken, d.creator, d.challenger, d.stake, d.stake)
    BY <2>1, <2>2, PaysOutBoth DEF CanPay, RefundBoth, MovedOut
  <2>4. d.stakeToken # NoToken
    BY <2>2, PartiesAssumption
  <2>5. QED
    BY <1>1, <2>3, <2>4, ClosePays
<1>3. CASE d.tier = "Free"
  <2>1. UNCHANGED bal /\ d.stakeToken = NoToken
    BY <1>3, PaidDuel
  <2>2. QED
    BY <1>1, <2>1, ClosePays
<1>4. QED
  BY <1>2, <1>3, PaidDuel DEF Tier

LEMMA RefundRefines ==
  ASSUME RefInv, NEW id \in DuelIds, RefundActive(id)
  PROVE  Escrow!Next
BY BothRefunded DEF RefundActive, CanRefund, CanPayOut

LEMMA FinalizeRefines ==
  ASSUME RefInv, NEW id \in DuelIds, Finalize(id)
  PROVE  Escrow!Next
<1> DEFINE d == duels[id]
           x == Winner(d)
           n == 2 * d.stake
<1>1. d.status = "Active" /\ Close(id)
  BY DEF Finalize, CanFinalize
<1>2. CASE x = NoPlayer \/ d.tier # "Staked"
  BY <1>1, <1>2, BothRefunded DEF Finalize, CanPayOut
<1>3. CASE x # NoPlayer /\ d.tier = "Staked"
  <2>1. CanPay(d.stakeToken, Vault, n) /\ bal' = Transfer(bal, d.stakeToken, Vault, x, n)
    BY <1>3 DEF Finalize, CanPayOut
  <2>2. /\ bal \in [Tokens -> [Accounts -> Nat]] /\ d.stake \in Nat
        /\ d.creator \in Players /\ d.challenger \in Players
        /\ d.creator # d.challenger /\ d.stakeToken \in Tokens
    BY <1>1, <1>3, PaidDuel
  <2>3. x \in {d.creator, d.challenger}
    BY <1>3 DEF Winner
  <2>4. n \in Nat /\ d.stakeToken # NoToken
    BY <2>2, PartiesAssumption
  <2>5. {<<n, 0>>, <<0, n>>} \subseteq Escrow!Splits(Pots[id])
    BY <1>1, PotFields DEF Escrow!Splits
  <2> HIDE DEF x, n
  <2>9. PICK t, c, q : t = d.stakeToken /\ c = d.creator /\ q = d.challenger
    OBVIOUS
  <2>6. CASE x = d.creator
    <3>1. MovedOut(t, c, q, n, 0)
      BY <2>1, <2>2, <2>4, <2>6, <2>9, PaysOutFirst DEF CanPay
    <3>2. MovedOut(d.stakeToken, d.creator, d.challenger, n, 0)
      BY <2>9, <3>1 DEF MovedOut
    <3>3. QED
      BY <1>1, <2>4, <2>5, <3>2, ClosePays
  <2>7. CASE x = d.challenger
    <3>1. MovedOut(t, c, q, 0, n)
      BY <2>1, <2>2, <2>4, <2>7, <2>9, PaysOutSecond DEF CanPay
    <3>2. MovedOut(d.stakeToken, d.creator, d.challenger, 0, n)
      BY <2>9, <3>1 DEF MovedOut
    <3>3. QED
      BY <1>1, <2>4, <2>5, <3>2, ClosePays
  <2>8. QED
    BY <2>3, <2>6, <2>7
<1>4. QED
  BY <1>2, <1>3

\* A step that moves no money and changes no field that a pot shows is a stutter.
LEMMA Stutters ==
  ASSUME bal' = bal,
         \A id \in DuelIds : /\ duels'[id].status = duels[id].status
                             /\ duels'[id].stakeToken = duels[id].stakeToken
                             /\ duels'[id].stake = duels[id].stake
                             /\ duels'[id].creator = duels[id].creator
                             /\ duels'[id].challenger = duels[id].challenger
  PROVE  UNCHANGED Escrow!vars
<1>1. \A id \in DuelIds : PotOf(duels'[id]) = PotOf(duels[id])
  BY DEF PotOf
<1>2. QED
  BY <1>1 DEF Escrow!vars

LEMMA StepRefines == RefInv /\ [Next]_vars => [Escrow!Next]_(Escrow!vars)
<1> SUFFICES ASSUME RefInv, [Next]_vars
             PROVE  Escrow!Next \/ UNCHANGED Escrow!vars
  OBVIOUS
<1>1. CASE \E p \in Players, deck \in Decks, size \in MIN_DECK_SIZE .. MAX_DECK_SIZE,
             tier \in Tier, t \in Tokens, stake \in Stakes \cup {0} :
             CreateDuel(p, deck, size, tier, t, stake)
  BY <1>1, CreateRefines
<1>2. CASE \E p \in Players, id \in DuelIds : JoinDuel(p, id)
  BY <1>2, JoinRefines
<1>3. CASE \E id \in DuelIds : Finalize(id)
  BY <1>3, FinalizeRefines
<1>4. CASE \E p \in Players, id \in DuelIds : CancelPending(p, id)
  BY <1>4, CancelRefines
<1>5. CASE \E id \in DuelIds : ClaimRevealTimeout(id) \/ ClaimDuelTimeout(id)
  BY <1>5, RefundRefines DEF ClaimRevealTimeout, ClaimDuelTimeout
<1>6. duels \in [DuelIds -> Duel]
  BY DEF RefInv, TypeInv, TypeOK
<1>7. CASE \E k \in Keepers, id \in DuelIds, deck \in Decks : RevealDeck(k, id, deck)
  BY <1>6, <1>7, Stutters DEF RevealDeck, Duel
<1>8. CASE \E k \in Keepers, id \in DuelIds, c \in Cards, w \in Direction, v \in BOOLEAN :
             SettleCard(k, id, c, w, v)
  BY <1>6, <1>8, Stutters DEF SettleCard, Accrue, Duel
<1>9. CASE \/ \E k \in Keepers : SetKeeper(k)
           \/ \E p \in Players, id \in DuelIds, c \in Cards, dir \in Direction :
                SignSwipe(p, id, c, dir)
           \/ \E k \in Keepers, s \in signed, dir \in Direction, fill \in Fills :
                RecordSwipe(k, s.duelId, s.player, s.cardIdx, dir, fill, s.nonce, s.deadline)
           \/ Tick
           \/ UNCHANGED vars
  BY <1>9, Stutters DEF SetKeeper, SignSwipe, RecordSwipe, Tick, vars
<1>10. QED
  BY <1>1, <1>2, <1>3, <1>4, <1>5, <1>7, <1>8, <1>9 DEF Next

LEMMA InitRefines == Init => Escrow!Init
<1> SUFFICES ASSUME Init PROVE Escrow!Init
  OBVIOUS
<1>1. [t \in Tokens |-> [p \in Players |-> bal[t][p]]] \in [Tokens -> [Players -> Nat]]
  BY PartiesAssumption, BoundsAssumption DEF Init, Accounts
<1>2. [t \in Tokens |-> bal[t][Vault]] = [t \in Tokens |-> 0]
  BY DEF Init, Accounts
<1>3. \A id \in DuelIds : PotOf(duels[id]) = Escrow!Unopened
  BY DEF Init, NoDuel, PotOf, PhaseOf, Escrow!Unopened
<1>4. QED
  BY <1>1, <1>2, <1>3 DEF Escrow!Init

\* The duel contract implements the escrow: money moves only into a pot, by its
\* two players in equal stakes, and out of it once, whole, to those two.
THEOREM Refinement == Spec => ImplementsEscrow
<1>1. Spec => []RefInv
  BY RefInvariant
<1>2. QED
  BY <1>1, InitRefines, StepRefines, PTL DEF Spec, ImplementsEscrow, Escrow!Spec

-----------------------------------------------------------------------------
(***************************************************************************)
(* The client offers the refunds that the contract would grant.            *)
(***************************************************************************)
\* The escrow covers what an open duel would pay out, so that no payout reverts.
LEMMA PayoutsCovered ==
  ASSUME RefInv, EscrowExact, NEW id \in DuelIds
  PROVE  /\ duels[id].status = "Pending" => CanPayOut(duels[id], duels[id].stake)
         /\ duels[id].status = "Active" => CanPayOut(duels[id], 2 * duels[id].stake)
<1> DEFINE d == duels[id]
           t == d.stakeToken
           f == [i \in DuelIds |-> HeldIn(t, duels[i])]
<1>1. SUFFICES ASSUME d.status \in {"Pending", "Active"}, d.tier = "Staked"
               PROVE  bal[t][Vault] >= Held(d)
  BY DEF CanPayOut, CanPay, Held
<1>2. t \in Tokens
  BY <1>1, PaidDuel
<1>3. \A i \in DuelIds : f[i] \in Nat
  BY HeldType DEF RefInv, TypeInv, TypeOK
<1>4. f[id] = Held(d) /\ Held(d) \in Nat
  BY <1>3 DEF HeldIn
<1>5. bal[t][Vault] = SumFunctionOnSet(f, DuelIds)
  BY <1>2 DEF EscrowExact
<1> HIDE DEF f, d, t
<1>6. /\ SumFunctionOnSet(f, DuelIds) = f[id] + SumFunctionOnSet(f, DuelIds \ {id})
      /\ SumFunctionOnSet(f, DuelIds \ {id}) \in Nat
  <2>1. IsFiniteSet(DuelIds) /\ IsFiniteSet(DuelIds \ {id})
    BY IdsFinite, FS_Subset
  <2>2. Numbers(f, DuelIds)
    BY <1>3, <2>1, SumOfNaturals
  <2>3. SumFunctionOnSet(f, DuelIds \ {id}) \in Nat
    BY <1>3, <2>1, SumOfNaturals
  <2> QED BY <2>2, <2>3, SumPick
<1> QED BY <1>4, <1>5, <1>6

\* No deck is stored before it is revealed.
HiddenDecks == \A id \in DuelIds : ~duels[id].deckRevealed => decks[id] = <<>>

LEMMA HiddenStep == RefInv /\ HiddenDecks /\ [Next]_vars => HiddenDecks'
<1> SUFFICES ASSUME RefInv, HiddenDecks, [Next]_vars, NEW i \in DuelIds, ~duels'[i].deckRevealed
             PROVE  decks'[i] = <<>>
  BY DEF HiddenDecks
<1>1. CASE \E p \in Players, deck \in Decks, size \in MIN_DECK_SIZE .. MAX_DECK_SIZE,
             tier \in Tier, t \in Tokens, stake \in Stakes \cup {0} :
             CreateDuel(p, deck, size, tier, t, stake)
  <2>1. PICK p \in Players, deck \in Decks, size \in MIN_DECK_SIZE .. MAX_DECK_SIZE,
             tier \in Tier, t \in Tokens, stake \in Stakes \cup {0} :
             CreateDuel(p, deck, size, tier, t, stake)
    BY <1>1
  <2>2. ~duels[i].deckRevealed
    BY <2>1, Fresh DEF NoDuel
  <2> QED BY <2>1, <2>2 DEF CreateDuel, HiddenDecks
<1>2. CASE \E p \in Players, id \in DuelIds : JoinDuel(p, id)
  <2>1. PICK p \in Players, id \in DuelIds : JoinDuel(p, id)
    BY <1>2
  <2>2. duels'[i].deckRevealed = duels[i].deckRevealed
    BY <2>1, Joined
  <2> QED BY <2>1, <2>2 DEF JoinDuel, HiddenDecks
<1>3. CASE \E k \in Keepers, id \in DuelIds, deck \in Decks : RevealDeck(k, id, deck)
  <2>1. PICK k \in Keepers, id \in DuelIds, deck \in Decks : RevealDeck(k, id, deck)
    BY <1>3
  <2>2. i # id /\ duels'[i] = duels[i] /\ decks'[i] = decks[i]
    BY <2>1, Revealed
  <2> QED BY <2>2 DEF HiddenDecks
<1>4. CASE \E k \in Keepers, id \in DuelIds, c \in Cards, w \in Direction, v \in BOOLEAN :
             SettleCard(k, id, c, w, v)
  <2>1. PICK k \in Keepers, id \in DuelIds, c \in Cards, w \in Direction, v \in BOOLEAN :
             SettleCard(k, id, c, w, v)
    BY <1>4
  <2>2. duels'[i].deckRevealed = duels[i].deckRevealed
    BY <2>1, Settled
  <2> QED BY <2>1, <2>2 DEF SettleCard, HiddenDecks
<1>5. CASE \E id \in DuelIds : Ends(id)
  <2>1. PICK id \in DuelIds : Ends(id)
    BY <1>5
  <2>2. duels \in [DuelIds -> Duel] /\ Close(id) /\ UNCHANGED decks
    BY <2>1, EndsClose DEF RefInv, TypeInv, TypeOK
  <2>3. ~duels[i].deckRevealed
    BY <2>2, ClosedFields
  <2> QED BY <2>2, <2>3 DEF HiddenDecks
<1>6. CASE UNCHANGED <<duels, decks>>
  BY <1>6 DEF HiddenDecks
<1> QED BY <1>1, <1>2, <1>3, <1>4, <1>5, <1>6, Steps DEF SignSwipe, RecordSwipe

\* Two clocks of different units.
LEMMA Scaled ==
  ASSUME NEW a \in Nat, NEW b \in Nat, NEW s \in Nat \ {0}
  PROVE  /\ a * s \in Nat /\ b * s \in Nat /\ (a + b) * s = a * s + b * s
         /\ a >= b <=> a * s >= b * s
         /\ a = 0 <=> a * s = 0
<1>1. a * s \in Nat /\ b * s \in Nat /\ (a + b) * s = a * s + b * s
  BY SMT
<1>2. a >= b => a * s >= b * s
  BY SMT
<1>3. a < b => a * s < b * s
  BY SMT
<1>4. a = 0 <=> a * s = 0
  BY SMT
<1> QED BY <1>1, <1>2, <1>3, <1>4

\* How long ago the duel was joined, on the chain's clock and on the client's.
LEMMA ElapsedAgrees ==
  ASSUME NEW joined \in Nat, NEW timeout \in Nat, NEW time \in Nat, NEW ms \in 0 .. time * SECOND
  PROVE  /\ ms - joined * SECOND >= timeout * SECOND => time >= joined + timeout
         /\ time >= joined + timeout => time * SECOND - joined * SECOND >= timeout * SECOND
<1>1. /\ time * SECOND \in Nat /\ (joined + timeout) * SECOND \in Nat
      /\ joined * SECOND \in Nat /\ timeout * SECOND \in Nat
      /\ (joined + timeout) * SECOND = joined * SECOND + timeout * SECOND
      /\ time >= joined + timeout <=> time * SECOND >= (joined + timeout) * SECOND
  <2>1. joined + timeout \in Nat /\ SECOND \in Nat \ {0}
    BY ClientAssumption
  <2> QED BY <2>1, Scaled
<1>2. PICK j \in Nat, k \in Nat, n \in Nat, m \in Nat :
        j = joined * SECOND /\ k = timeout * SECOND /\ n = time * SECOND
        /\ m = (joined + timeout) * SECOND
  BY <1>1
<1>3. ms \in 0 .. n /\ m = j + k /\ (time >= joined + timeout <=> n >= m)
  BY <1>1, <1>2
<1>4. /\ ms - j >= k => n >= m
      /\ n >= m => n - j >= k
  BY <1>3
<1> QED BY <1>2, <1>3, <1>4

\* What is offered, and what is granted, kind by kind.
LEMMA OfferedKinds ==
  ASSUME NEW id \in DuelIds, NEW p \in Players, NEW ms
  PROVE  LET d == duels[id]
             elapsed == ms - d.startedAtSec * SECOND
             revealLate == decks[id] = <<>> /\ elapsed >= REVEAL_TIMEOUT_SEC * SECOND
             duelLate == elapsed >= DUEL_TIMEOUT_SEC * SECOND
         IN  Offered(p, id, ms) =
               IF p \notin {d.creator, d.challenger} THEN {}
               ELSE IF d.status = "Pending"
               THEN IF d.creator = p THEN {"cancel_pending"} ELSE {}
               ELSE IF d.status = "Active" /\ d.startedAtSec * SECOND # 0
               THEN IF revealLate THEN {"reveal_timeout"}
                    ELSE IF duelLate THEN {"duel_timeout"} ELSE {}
               ELSE {}
<1> DEFINE d == duels[id]
           duel == Client!FetchDuel(d, decks[id], swipes[id])
<1>1. /\ duel.creator = d.creator /\ duel.challenger = d.challenger /\ duel.cards = decks[id]
      /\ duel.startedAtMs = d.startedAtSec * SECOND
      /\ duel.status = Client!MapStatus(d.status)
  BY DEF Client!FetchDuel
<1>2. /\ duel.status = "PENDING" <=> d.status = "Pending"
      /\ duel.status = "ACTIVE" <=> d.status = "Active"
  BY <1>1 DEF Client!MapStatus
<1>3. Offered(p, id, ms) = Client!RefundEligibility(duel, p, ms)
  BY DEF Offered
<1> HIDE DEF duel, d
<1>4. CASE p \notin {d.creator, d.challenger}
  BY <1>1, <1>3, <1>4 DEF Client!RefundEligibility, Client!IsPlayer, d
<1>5. CASE p \in {d.creator, d.challenger} /\ d.status = "Pending"
  BY <1>1, <1>2, <1>3, <1>5 DEF Client!RefundEligibility, Client!IsPlayer, d
<1>6. CASE p \in {d.creator, d.challenger} /\ d.status = "Active" /\ d.startedAtSec * SECOND # 0
  <2>1. Offered(p, id, ms) = Client!ActiveRefund(duel, ms - d.startedAtSec * SECOND)
    BY <1>1, <1>2, <1>3, <1>6 DEF Client!RefundEligibility, Client!IsPlayer
  <2> QED BY <1>1, <1>6, <2>1 DEF Client!ActiveRefund, d
<1>7. CASE /\ p \in {d.creator, d.challenger} /\ d.status # "Pending"
           /\ ~(d.status = "Active" /\ d.startedAtSec * SECOND # 0)
  BY <1>1, <1>2, <1>3, <1>7 DEF Client!RefundEligibility, Client!IsPlayer, d
<1> QED BY <1>4, <1>5, <1>6, <1>7

LEMMA GrantedKinds ==
  ASSUME RefInv, EscrowExact, NEW id \in DuelIds, NEW p \in Players
  PROVE  LET d == duels[id] IN
         /\ "cancel_pending" \in Granted(p, d) <=> d.status = "Pending" /\ p = d.creator
         /\ "reveal_timeout" \in Granted(p, d) <=> d.status = "Active" /\ RevealTimedOut(d)
         /\ "duel_timeout" \in Granted(p, d) <=> d.status = "Active" /\ DuelTimedOut(d)
         /\ Granted(p, d) \subseteq {"cancel_pending", "reveal_timeout", "duel_timeout"}
<1> DEFINE d == duels[id]
<1>1. /\ d.status = "Pending" => CanPayOut(d, d.stake)
      /\ d.status = "Active" => CanPayOut(d, 2 * d.stake)
  BY PayoutsCovered
<1> HIDE DEF d
<1>2. /\ "cancel_pending" \in Granted(p, d) <=> CanCancel(p, d)
      /\ "reveal_timeout" \in Granted(p, d) <=> RevealTimedOut(d) /\ CanRefund(d)
      /\ "duel_timeout" \in Granted(p, d) <=> DuelTimedOut(d) /\ CanRefund(d)
  BY DEF Granted
<1>3. /\ CanCancel(p, d) <=> d.status = "Pending" /\ p = d.creator
      /\ CanRefund(d) <=> d.status = "Active"
  BY <1>1 DEF CanCancel, CanRefund
<1>4. Granted(p, d) \subseteq {"cancel_pending", "reveal_timeout", "duel_timeout"}
  BY DEF Granted
<1> QED BY <1>2, <1>3, <1>4 DEF d

\* A duel's deck is empty exactly until it is revealed.
LEMMA DeckShown ==
  ASSUME RefInv, DeckWasCommitted, HiddenDecks, NEW id \in DuelIds,
         duels[id].status \in {"Pending", "Active"}
  PROVE  decks[id] = <<>> <=> ~duels[id].deckRevealed
<1>1. duels[id].deckSize \in MIN_DECK_SIZE .. MAX_DECK_SIZE /\ MIN_DECK_SIZE \in Nat \ {0}
  BY DeckAssumption DEF RefInv, TypeInv, DuelsWellFormed, WellFormed
<1>2. duels[id].deckRevealed => Len(decks[id]) = duels[id].deckSize
  BY DEF DeckWasCommitted
<1>3. Len(<<>>) = 0
  OBVIOUS
<1> QED BY <1>1, <1>2, <1>3, DeckAssumption DEF HiddenDecks

LEMMA OffersFit == DuelInv /\ HiddenDecks => RefundsAreGranted
<1> SUFFICES ASSUME DuelInv, HiddenDecks, NEW id \in DuelIds, NEW p \in Players
             PROVE  LET d == duels[id] IN
                    /\ \A ms \in 0 .. now * SECOND : Offered(p, id, ms) \subseteq Granted(p, d)
                    /\ p \in {d.creator, d.challenger} /\ (d.status = "Pending" \/ d.startedAtSec # 0) =>
                         (Granted(p, d) # {} <=> Offered(p, id, now * SECOND) # {})
  BY DEF RefundsAreGranted
<1> DEFINE d == duels[id]
           joined == d.startedAtSec
           elapsed(ms) == ms - joined * SECOND
<1>1. RefInv /\ EscrowExact /\ DeckWasCommitted
  BY DEF DuelInv
<1>2. joined \in Nat /\ now \in Nat /\ d.deckRevealed \in BOOLEAN /\ now * SECOND \in 0 .. now * SECOND
      /\ (joined = 0 <=> joined * SECOND = 0)
  <2>1. joined \in Nat /\ now \in Nat /\ d.deckRevealed \in BOOLEAN
    BY <1>1 DEF RefInv, TypeInv, TypeOK, Duel
  <2>2. now * SECOND \in Nat /\ (joined = 0 <=> joined * SECOND = 0)
    BY <2>1, ClientAssumption, Scaled
  <2> QED BY <2>1, <2>2
<1>3. /\ "cancel_pending" \in Granted(p, d) <=> d.status = "Pending" /\ p = d.creator
      /\ "reveal_timeout" \in Granted(p, d) <=> d.status = "Active" /\ RevealTimedOut(d)
      /\ "duel_timeout" \in Granted(p, d) <=> d.status = "Active" /\ DuelTimedOut(d)
      /\ Granted(p, d) \subseteq {"cancel_pending", "reveal_timeout", "duel_timeout"}
  BY <1>1, GrantedKinds
<1>4. /\ RevealTimedOut(d) <=> ~d.deckRevealed /\ now >= joined + REVEAL_TIMEOUT_SEC
      /\ DuelTimedOut(d) <=> now >= joined + DUEL_TIMEOUT_SEC
  BY DEF RevealTimedOut, DuelTimedOut
<1>5. \A ms : Offered(p, id, ms) =
               IF p \notin {d.creator, d.challenger} THEN {}
               ELSE IF d.status = "Pending"
               THEN IF d.creator = p THEN {"cancel_pending"} ELSE {}
               ELSE IF d.status = "Active" /\ joined * SECOND # 0
               THEN IF decks[id] = <<>> /\ elapsed(ms) >= REVEAL_TIMEOUT_SEC * SECOND
                    THEN {"reveal_timeout"}
                    ELSE IF elapsed(ms) >= DUEL_TIMEOUT_SEC * SECOND THEN {"duel_timeout"} ELSE {}
               ELSE {}
  BY OfferedKinds
<1>6. d.status = "Active" => (decks[id] = <<>> <=> ~d.deckRevealed)
  BY <1>1, DeckShown DEF DuelInv
<1>7. \A ms \in 0 .. now * SECOND :
        /\ elapsed(ms) >= REVEAL_TIMEOUT_SEC * SECOND => now >= joined + REVEAL_TIMEOUT_SEC
        /\ elapsed(ms) >= DUEL_TIMEOUT_SEC * SECOND => now >= joined + DUEL_TIMEOUT_SEC
  BY <1>2, TimeoutAssumption, ElapsedAgrees
<1>8. /\ now >= joined + REVEAL_TIMEOUT_SEC => elapsed(now * SECOND) >= REVEAL_TIMEOUT_SEC * SECOND
      /\ now >= joined + DUEL_TIMEOUT_SEC => elapsed(now * SECOND) >= DUEL_TIMEOUT_SEC * SECOND
  BY <1>2, TimeoutAssumption, ElapsedAgrees
<1> HIDE DEF d, joined, elapsed
<1>9. ASSUME NEW ms \in 0 .. now * SECOND PROVE Offered(p, id, ms) \subseteq Granted(p, d)
  BY <1>3, <1>4, <1>5, <1>6, <1>7
<1>10. ASSUME p \in {d.creator, d.challenger}, d.status = "Pending" \/ joined # 0
       PROVE  Granted(p, d) # {} <=> Offered(p, id, now * SECOND) # {}
  <2>1. CASE d.status = "Pending"
    BY <1>3, <1>5, <1>10, <2>1
  <2>2. CASE d.status = "Active" /\ joined # 0
    <3>1. joined * SECOND # 0
      BY <1>2, <2>2
    <3>2. Granted(p, d) # {} => Offered(p, id, now * SECOND) # {}
      BY <1>3, <1>4, <1>5, <1>6, <1>8, <1>10, <2>2, <3>1
    <3>3. Offered(p, id, now * SECOND) \subseteq Granted(p, d)
      BY <1>2, <1>9
    <3> QED BY <3>2, <3>3
  <2>3. CASE d.status \notin {"Pending", "Active"}
    BY <1>3, <1>5, <1>10, <2>3
  <2> QED BY <1>10, <2>1, <2>2, <2>3
<1> QED BY <1>9, <1>10 DEF d, joined

\* What a client offers a player, the contract grants, and the other way.
THEOREM EveryRefundGranted == Spec => []RefundsAreGranted
<1>1. Init => HiddenDecks
  BY DEF Init, HiddenDecks
<1>2. DuelInv => RefInv
  BY DEF DuelInv
<1>3. Spec => []HiddenDecks
  BY <1>1, <1>2, HiddenStep, DuelInvariant, PTL DEF Spec
<1> QED BY <1>3, OffersFit, DuelInvariant, PTL

-----------------------------------------------------------------------------
(* The services' model of the contract (DuelChain) is one: what they see of *)
(* it changes as that model says.                                           *)

\* The view changes at one duel when nothing that is seen of the others does.
LEMMA ViewChanges ==
  ASSUME NEW id \in DuelIds, NEW seen, Seen(id)' = seen,
         \A i \in DuelIds : i # id => Seen(i)' = Seen(i)
  PROVE  View' = [View EXCEPT ![id] = seen] /\ View[id] = Seen(id)
BY DEF View

\* What is seen of a duel's cards, where they do not change.
LEMMA CardsSame ==
  ASSUME NEW i \in DuelIds, cardSettled'[i] = cardSettled[i], cardEvents'[i] = cardEvents[i]
  PROVE  Outcomes(i)' = Outcomes(i)
BY DEF Outcomes

\* What is seen of a duel's swipes, where they do not change.
LEMMA SwipesSame ==
  ASSUME NEW i \in DuelIds, swipes'[i] = swipes[i]
  PROVE  Swiped(i)' = Swiped(i)
BY DEF Swiped

\* A duel of which nothing seen changes.
LEMMA SeenSame ==
  ASSUME NEW i \in DuelIds, duels'[i] = duels[i], cardSettled'[i] = cardSettled[i],
         cardEvents'[i] = cardEvents[i], swipes'[i] = swipes[i]
  PROVE  Seen(i)' = Seen(i)
BY CardsSame, SwipesSame DEF Seen

\* A call that changes the status of one duel and nothing else that is seen of it.
LEMMA StatusChanges ==
  ASSUME NEW id \in DuelIds, NEW before, NEW after,
         duels[id].status = before, duels'[id].status = after,
         duels'[id].deckRevealed = duels[id].deckRevealed,
         \A i \in DuelIds : i # id => duels'[i] = duels[i],
         UNCHANGED <<swipes, cardSettled, cardEvents, nonces>>
  PROVE  Chain!SetStatus(id, before, after)
<1>1. Outcomes(id)' = Outcomes(id) /\ Swiped(id)' = Swiped(id)
  BY CardsSame, SwipesSame
<1>2. Seen(id)' = [Seen(id) EXCEPT !.status = after]
  BY <1>1 DEF Seen
<1>3. \A i \in DuelIds : i # id => Seen(i)' = Seen(i)
  BY SeenSame
<1>4. View' = [View EXCEPT ![id] = [Seen(id) EXCEPT !.status = after]] /\ View[id] = Seen(id)
  BY <1>2, <1>3, ViewChanges
<1>5. View[id].status = before
  BY <1>4 DEF Seen
<1>6. View' = [View EXCEPT ![id].status = after]
  BY <1>4
<1> QED BY <1>5, <1>6 DEF Chain!SetStatus

\* A step that the services know of.
SeenStep == (\E id \in DuelIds : Called(id)) \/ (\E tx \in Transactions : Chain!Execute(tx))

\* Each call on the contract is one of theirs.
LEMMA CreateSeen ==
  ASSUME DuelInv, NEW p \in Players, NEW deck \in Decks,
         NEW size \in MIN_DECK_SIZE .. MAX_DECK_SIZE, NEW tier \in Tier,
         NEW t \in Tokens, NEW stake \in Stakes \cup {0},
         CreateDuel(p, deck, size, tier, t, stake)
  PROVE  Called(duelSeq + 1) /\ duelSeq + 1 \in DuelIds
<1>1. /\ duelSeq + 1 \in DuelIds /\ duels[duelSeq + 1] = NoDuel
      /\ duels'[duelSeq + 1] = NewDuel(p, deck, size, tier, t, stake)
      /\ \A i \in DuelIds : i # duelSeq + 1 => duels'[i] = duels[i]
  BY Fresh DEF DuelInv
<1>2. UNCHANGED <<swipes, cardSettled, cardEvents, nonces>>
  BY DEF CreateDuel
<1>3. Chain!SetStatus(duelSeq + 1, "None", "Pending")
  <2>1. /\ duels[duelSeq + 1].status = "None" /\ duels'[duelSeq + 1].status = "Pending"
        /\ duels'[duelSeq + 1].deckRevealed = duels[duelSeq + 1].deckRevealed
    BY <1>1 DEF NoDuel, NewDuel
  <2>2. PICK id \in DuelIds : id = duelSeq + 1
    BY <1>1
  <2>3. Chain!SetStatus(id, "None", "Pending")
    BY <1>1, <1>2, <2>1, <2>2, StatusChanges
  <2> QED BY <2>2, <2>3
<1> QED BY <1>1, <1>3 DEF Called, Chain!CreateDuel

LEMMA JoinSeen ==
  ASSUME DuelInv, NEW p \in Players, NEW id \in DuelIds, JoinDuel(p, id)
  PROVE  Called(id)
<1>1. /\ duels[id].status = "Pending" /\ duels'[id].status = "Active"
      /\ duels'[id].deckRevealed = duels[id].deckRevealed
      /\ \A i \in DuelIds : i # id => duels'[i] = duels[i]
  BY Joined DEF DuelInv
<1>2. UNCHANGED <<swipes, cardSettled, cardEvents, nonces>>
  BY DEF JoinDuel
<1>3. Chain!SetStatus(id, "Pending", "Active")
  BY <1>1, <1>2, StatusChanges
<1> QED BY <1>3 DEF Called, Chain!JoinDuel

LEMMA RevealSeen ==
  ASSUME DuelInv, NEW k \in Keepers, NEW id \in DuelIds, NEW deck \in Decks, RevealDeck(k, id, deck)
  PROVE  Called(id)
<1>1. /\ \A i \in DuelIds : i # id => duels'[i] = duels[i]
      /\ duels[id].status = "Active" /\ ~duels[id].deckRevealed
      /\ duels'[id].deckRevealed /\ duels'[id].status = duels[id].status
  BY Revealed DEF DuelInv
<1>2. UNCHANGED <<swipes, cardSettled, cardEvents, nonces>>
  BY DEF RevealDeck
<1>3. duels'[id].deckRevealed = TRUE
  BY DEF RevealDeck, DuelInv, RefInv, TypeInv, TypeOK, Duel
<1>4. Seen(id)' = [Seen(id) EXCEPT !.revealed = TRUE]
  <2>1. Outcomes(id)' = Outcomes(id) /\ Swiped(id)' = Swiped(id)
    BY <1>2, CardsSame, SwipesSame
  <2>2. Seen(id)' = [status |-> duels[id].status, revealed |-> TRUE,
                     outcome |-> Outcomes(id), swiped |-> Swiped(id)]
    BY <1>1, <1>3, <2>1, Zenon DEF Seen
  <2>3. [Seen(id) EXCEPT !.revealed = TRUE] =
          [status |-> duels[id].status, revealed |-> TRUE,
           outcome |-> Outcomes(id), swiped |-> Swiped(id)]
    <3>1. PICK shown : shown = TRUE
      OBVIOUS
    <3>2. [Seen(id) EXCEPT !.revealed = shown] =
            [status |-> duels[id].status, revealed |-> shown,
             outcome |-> Outcomes(id), swiped |-> Swiped(id)]
      BY DEF Seen
    <3> QED BY <3>1, <3>2, Zenon
  <2> QED BY <2>2, <2>3
<1>5. \A i \in DuelIds : i # id => Seen(i)' = Seen(i)
  BY <1>1, <1>2, SeenSame
<1>6. View' = [View EXCEPT ![id] = [Seen(id) EXCEPT !.revealed = TRUE]] /\ View[id] = Seen(id)
  BY <1>4, <1>5, ViewChanges
<1>7. View[id].status = "Active" /\ ~View[id].revealed
  BY <1>1, <1>6 DEF Seen
<1> QED BY <1>2, <1>6, <1>7 DEF Called, Chain!RevealDeck

LEMMA SwipeSeen ==
  ASSUME DuelInv, NEW k \in Keepers, NEW s \in signed, NEW dir \in Direction, NEW fill \in Fills,
         RecordSwipe(k, s.duelId, s.player, s.cardIdx, dir, fill, s.nonce, s.deadline)
  PROVE  \E tx \in Transactions : Chain!Execute(tx)
<1>1. PICK id \in DuelIds, p \in Players, c \in Cards, n \in Nat :
        id = s.duelId /\ p = s.player /\ c = s.cardIdx /\ n = s.nonce
  BY DEF DuelInv, RefInv, TypeInv, TypeOK, Signature
<1> DEFINE tx == Chain!SwipeTx(NoPlayer, id, p, c, nonces[p])
           seen == [Seen(id) EXCEPT !.swiped = @ \cup {<<p, c>>}]
<1>2. /\ CanRecord(id, p, c) /\ n = nonces[p]
      /\ nonces' = [nonces EXCEPT ![p] = @ + 1]
      /\ swipes' = [swipes EXCEPT ![id][p][c] =
           [exists |-> TRUE, direction |-> dir, premium |-> fill.premium, filled |-> fill.filled]]
      /\ UNCHANGED <<duels, cardSettled, cardEvents>>
  BY <1>1 DEF RecordSwipe
<1>3. swipes \in [DuelIds -> [Players -> [Cards -> Swipe]]]
  BY DEF DuelInv, RefInv, TypeInv, TypeOK
<1>4. \A i \in DuelIds : i # id => Seen(i)' = Seen(i)
  BY <1>2, <1>3, SeenSame
<1>5. Seen(id)' = seen
  <2>1. \A x \in Players \X Cards : swipes'[id][x[1]][x[2]].exists <=>
                                      swipes[id][x[1]][x[2]].exists \/ x = <<p, c>>
    BY <1>2, <1>3
  <2>2. Swiped(id)' = Swiped(id) \cup {<<p, c>>}
    BY <2>1 DEF Swiped
  <2>3. Outcomes(id)' = Outcomes(id)
    BY <1>2, CardsSame
  <2>4. Seen(id)' = [status |-> duels[id].status, revealed |-> duels[id].deckRevealed,
                     outcome |-> Outcomes(id), swiped |-> Swiped(id) \cup {<<p, c>>}]
    BY <1>2, <2>2, <2>3, Zenon DEF Seen
  <2>5. seen = [status |-> duels[id].status, revealed |-> duels[id].deckRevealed,
                outcome |-> Outcomes(id), swiped |-> Swiped(id) \cup {<<p, c>>}]
    BY DEF Seen
  <2> QED BY <2>4, <2>5
<1>6. View' = [View EXCEPT ![id] = seen] /\ View[id] = Seen(id)
  BY <1>4, <1>5, ViewChanges
<1>7. /\ Seen(id).status = "Active" /\ Seen(id).revealed /\ <<p, c>> \notin Seen(id).swiped
  BY <1>2 DEF CanRecord, Seen, Swiped
<1>8. /\ tx.kind = "recordSwipe" /\ tx.duel = id /\ tx.player = p /\ tx.card = c
      /\ tx.nonce = nonces[p] /\ tx \in Transactions
  BY DEF Chain!SwipeTx, Transactions
<1>9. Chain!Executable(tx)
  BY <1>6, <1>7, <1>8 DEF Chain!Executable, Chain!Playing
<1>10. Chain!Effect(tx) = [View EXCEPT ![id].swiped = @ \cup {<<p, c>>}]
  BY <1>8 DEF Chain!Effect
<1>11. Chain!Execute(tx)
  BY <1>2, <1>6, <1>8, <1>9, <1>10 DEF Chain!Execute
<1> QED BY <1>8, <1>11

\* A settled card shows the verdict of its event.
LEMMA SettleSeen ==
  ASSUME DuelInv, NEW k \in Keepers, NEW id \in DuelIds, NEW c \in Cards,
         NEW w \in Direction, NEW v \in BOOLEAN, SettleCard(k, id, c, w, v)
  PROVE  \E tx \in Transactions : Chain!Execute(tx)
<1> DEFINE verdict == VerdictOf(cardEvents'[id][c])
           tx == Chain!SettleTx(NoPlayer, id, c, verdict)
           seen == [Seen(id) EXCEPT !.outcome[c] = verdict]
<1>1. /\ \A i \in DuelIds : i # id => duels'[i] = duels[i] /\ cardEvents'[i] = cardEvents[i]
                                      /\ cardSettled'[i] = cardSettled[i]
      /\ \A b \in Cards : b # c => cardEvents'[id][b] = cardEvents[id][b]
      /\ cardSettled'[id] = cardSettled[id] \cup {c} /\ c \notin cardSettled[id]
      /\ duels[id].deckRevealed /\ duels[id].status = "Active" /\ duels'[id].status = "Active"
      /\ duels'[id].deckRevealed = duels[id].deckRevealed
  BY Settled DEF DuelInv
<1>2. UNCHANGED <<swipes, nonces>>
  BY DEF SettleCard
<1>3. verdict \in {"UP", "DOWN", "VOID"}
  BY DEF VerdictOf
<1> HIDE DEF verdict
<1>4. Outcomes(id)' = [Outcomes(id) EXCEPT ![c] = verdict]
  BY <1>1 DEF Outcomes, verdict
<1>5. Seen(id)' = seen
  <2>1. Swiped(id)' = Swiped(id)
    BY <1>2, SwipesSame
  <2>2. Seen(id)' = [status |-> duels[id].status, revealed |-> duels[id].deckRevealed,
                     outcome |-> [Outcomes(id) EXCEPT ![c] = verdict], swiped |-> Swiped(id)]
    BY <1>1, <1>4, <2>1, Zenon DEF Seen
  <2>3. seen = [status |-> duels[id].status, revealed |-> duels[id].deckRevealed,
                outcome |-> [Outcomes(id) EXCEPT ![c] = verdict], swiped |-> Swiped(id)]
    BY DEF Seen
  <2> QED BY <2>2, <2>3
<1>6. \A i \in DuelIds : i # id => Seen(i)' = Seen(i)
  BY <1>1, <1>2, SeenSame
<1> HIDE DEF seen
<1>7. View' = [View EXCEPT ![id] = seen] /\ View[id] = Seen(id)
  BY <1>5, <1>6, ViewChanges
<1>8. View[id].status = "Active" /\ View[id].revealed /\ View[id].outcome[c] = "open"
  BY <1>1, <1>7 DEF Seen, Outcomes
<1>9. /\ tx.kind = "settleCard" /\ tx.duel = id /\ tx.card = c /\ tx.verdict = verdict
      /\ tx \in Transactions
  BY <1>3 DEF Chain!SettleTx, Transactions
<1> HIDE DEF tx
<1>10. Chain!Executable(tx)
  BY <1>8, <1>9 DEF Chain!Executable, Chain!Playing
<1>11. Chain!Effect(tx) = [View EXCEPT ![id] = seen]
  BY <1>7, <1>9 DEF Chain!Effect, seen
<1>12. Chain!Execute(tx)
  BY <1>2, <1>7, <1>9, <1>10, <1>11 DEF Chain!Execute
<1> QED BY <1>9, <1>12

\* Ending a duel changes its status.
LEMMA EndSeen ==
  ASSUME DuelInv, NEW id \in DuelIds, Ends(id)
  PROVE  /\ View' = [View EXCEPT ![id].status = "Complete"]
         /\ \A before \in {"Pending", "Active"} :
              duels[id].status = before => Chain!SetStatus(id, before, "Complete")
         /\ UNCHANGED nonces
<1>1. /\ duels[id].status \in {"Pending", "Active"}
      /\ duels'[id].status = "Complete" /\ duels'[id].deckRevealed = duels[id].deckRevealed
      /\ \A i \in DuelIds : i # id => duels'[i] = duels[i]
      /\ UNCHANGED <<swipes, cardSettled, cardEvents, nonces>>
  BY EndsClose, ClosedFields DEF DuelInv, RefInv, TypeInv, TypeOK
<1>2. \A before : duels[id].status = before => Chain!SetStatus(id, before, "Complete")
  BY <1>1, StatusChanges
<1>3. View' = [View EXCEPT ![id].status = "Complete"]
  BY <1>2 DEF Chain!SetStatus
<1> QED BY <1>1, <1>2, <1>3

\* Where every deck has the most cards, all of them are settled when finalize runs.
LEMMA FinalizeSeen ==
  ASSUME DuelInv, MIN_DECK_SIZE = MAX_DECK_SIZE, NEW id \in DuelIds, Finalize(id)
  PROVE  \E tx \in Transactions : Chain!Execute(tx)
<1> DEFINE d == duels[id]
           tx == Chain!FinalizeTx(NoPlayer, id)
<1>1. View' = [View EXCEPT ![id].status = "Complete"] /\ UNCHANGED nonces
  BY EndSeen DEF Ends
<1>2. d.status = "Active" /\ d.settledCount = d.deckSize
  BY DEF Finalize, CanFinalize
<1>3. d.deckSize = MAX_DECK_SIZE /\ d.deckSize \in Nat \ {0}
  BY <1>2, DeckAssumption DEF DuelInv, RefInv, TypeInv, DuelsWellFormed, WellFormed
<1>4. /\ cardSettled[id] \subseteq 0 .. d.deckSize - 1
      /\ d.settledCount = Cardinality(cardSettled[id])
  BY DEF DuelInv, ScoreIsSumOfEvents
<1>5. cardSettled[id] = Cards /\ cardSettled[id] # {}
  <2>1. IsFiniteSet(0 .. d.deckSize - 1) /\ Cardinality(0 .. d.deckSize - 1) = d.deckSize
    BY <1>3, FirstCards
  <2>2. cardSettled[id] = 0 .. d.deckSize - 1
    BY <1>2, <1>4, <2>1, FS_Subset
  <2>3. 0 .. d.deckSize - 1 = Cards
    BY <1>3 DEF Cards
  <2>4. 0 \in Cards
    BY DeckAssumption DEF Cards
  <2> QED BY <2>2, <2>3, <2>4
<1>6. d.deckRevealed
  BY <1>5 DEF DuelInv, DeckWasCommitted
<1> HIDE DEF d
<1>7. View[id] = Seen(id)
  BY DEF View
<1>8. View[id].status = "Active" /\ View[id].revealed /\ \A c \in Cards : View[id].outcome[c] # "open"
  BY <1>2, <1>5, <1>6, <1>7 DEF Seen, Outcomes, VerdictOf, d
<1>9. tx.kind = "finalize" /\ tx.duel = id /\ tx \in Transactions
  BY DEF Chain!FinalizeTx, Transactions
<1> HIDE DEF tx
<1>10. Chain!Executable(tx)
  <2>1. Chain!AllSettled(id) /\ Chain!Playing(id)
    BY <1>8 DEF Chain!AllSettled, Chain!Playing, Chain!Cards, Cards
  <2>2. Chain!Executable(tx) <=> Chain!Playing(id) /\ Chain!AllSettled(id)
    BY <1>9 DEF Chain!Executable
  <2> QED BY <2>1, <2>2
<1>11. Chain!Effect(tx) = [View EXCEPT ![id].status = "Complete"]
  BY <1>9 DEF Chain!Effect
<1>12. Chain!Execute(tx)
  BY <1>1, <1>9, <1>10, <1>11 DEF Chain!Execute
<1> QED BY <1>9, <1>12

\* Both refunds complete the duel.
LEMMA RefundSeen ==
  ASSUME DuelInv, NEW id \in DuelIds, RefundActive(id) \/ \E p \in Players : CancelPending(p, id)
  PROVE  Called(id)
<1>1. Ends(id)
  BY DEF Ends
<1>2. PICK before \in {"Pending", "Active"} : duels[id].status = before
  BY <1>1, EndsClose
<1>3. Chain!SetStatus(id, before, "Complete")
  BY <1>1, <1>2, EndSeen
<1> QED BY <1>3 DEF Called, Chain!RefundDuel

\* Every step: the calls above, or one that changes nothing that is seen.
LEMMA StepSeen ==
  ASSUME DuelInv, MIN_DECK_SIZE = MAX_DECK_SIZE, [Next]_vars
  PROVE  [SeenStep]_seenVars
<1>1. CASE \E p \in Players, deck \in Decks, size \in MIN_DECK_SIZE .. MAX_DECK_SIZE,
             tier \in Tier, t \in Tokens, stake \in Stakes \cup {0} :
             CreateDuel(p, deck, size, tier, t, stake)
  BY <1>1, CreateSeen DEF SeenStep
<1>2. CASE \E p \in Players, id \in DuelIds : JoinDuel(p, id)
  BY <1>2, JoinSeen DEF SeenStep
<1>3. CASE \E k \in Keepers, id \in DuelIds, deck \in Decks : RevealDeck(k, id, deck)
  BY <1>3, RevealSeen DEF SeenStep
<1>4. CASE \E k \in Keepers, s \in signed, dir \in Direction, fill \in Fills :
               RecordSwipe(k, s.duelId, s.player, s.cardIdx, dir, fill, s.nonce, s.deadline)
  BY <1>4, SwipeSeen DEF SeenStep
<1>5. CASE \E k \in Keepers, id \in DuelIds, c \in Cards, w \in Direction, v \in BOOLEAN :
             SettleCard(k, id, c, w, v)
  BY <1>5, SettleSeen DEF SeenStep
<1>6. CASE \E id \in DuelIds : Ends(id)
  BY <1>6, FinalizeSeen, RefundSeen DEF Ends, SeenStep
<1>7. CASE UNCHANGED <<duels, swipes, cardSettled, cardEvents, nonces>>
  <2>1. \A i \in DuelIds : Seen(i)' = Seen(i)
    BY <1>7, SeenSame
  <2>2. UNCHANGED <<View, nonces>>
    BY <1>7, <2>1 DEF View
  <2> QED BY <2>2 DEF seenVars, Chain!chainVars
<1> QED BY <1>1, <1>2, <1>3, <1>4, <1>5, <1>6, <1>7, Steps DEF SignSwipe

LEMMA InitSeen == Init => Chain!ChainInit
<1> SUFFICES ASSUME Init PROVE Chain!ChainInit
  OBVIOUS
<1>1. \A id \in DuelIds : Seen(id) = [status |-> "None", revealed |-> FALSE,
                                      outcome |-> [c \in Chain!Cards |-> "open"], swiped |-> {}]
  <2>1. \A id \in DuelIds : Outcomes(id) = [c \in Chain!Cards |-> "open"]
    BY DEF Init, Outcomes, Chain!Cards, Cards
  <2>2. \A id \in DuelIds : Swiped(id) = {}
    BY DEF Init, Swiped, NoSwipe
  <2>3. \A id \in DuelIds : duels[id].status = "None" /\ duels[id].deckRevealed = FALSE
    BY DEF Init, NoDuel
  <2> QED BY <2>1, <2>2, <2>3, Zenon DEF Seen
<1>2. nonces = [p \in Players |-> 0] /\ Chain!Cards = Cards
  BY DEF Init, Chain!Cards, Cards
<1> QED BY <1>1, <1>2 DEF View, Chain!ChainInit, Chain!Senders

\* The services' picture of the contract is one of it: with decks of one size, each
\* call is one that they know, or changes nothing that they see.
THEOREM ServicesSeeTheContract == MIN_DECK_SIZE = MAX_DECK_SIZE => (Spec => SeenAsChain)
<1> SUFFICES ASSUME MIN_DECK_SIZE = MAX_DECK_SIZE PROVE Spec => SeenAsChain
  OBVIOUS
<1>1. DuelInv /\ [Next]_vars => [SeenStep]_seenVars
  BY StepSeen
<1>2. Spec => Chain!ChainInit /\ [][SeenStep]_seenVars
  BY <1>1, InitSeen, DuelInvariant, PTL DEF Spec
<1> QED BY <1>2 DEF SeenAsChain, SeenStep
=============================================================================
