------------------------------ MODULE DuelViews ------------------------------
(***************************************************************************)
(* The duel contract as others see it: the web client, which offers a      *)
(* player the refund that it believes the contract would grant             *)
(* (DuelClient), and the services of the server, which keep only a part of *)
(* its state and send it transactions (DuelChain).                         *)
(***************************************************************************)
EXTENDS DreamSwipeDuel

CONSTANTS
  SECOND,       \* client time units in a second of the chain
  COLLATERAL,   \* the token of the stakes
  FAUCET_MAX    \* the cap of a faucet claim

ASSUME ClientAssumption == SECOND \in Nat \ {0}

-----------------------------------------------------------------------------
(* The client: its timeouts mirror the contract's.                          *)
Client == INSTANCE DuelClient WITH
  Zero <- NoPlayer, Collateral <- COLLATERAL,
  REFUND_TIMEOUT_MS <- REVEAL_TIMEOUT_SEC * SECOND,
  DUEL_TIMEOUT_MS <- DUEL_TIMEOUT_SEC * SECOND

\* What refundEligibility answers a player at a time of the client's clock, of the
\* duel that fetchDuel makes of the chain's.
Offered(p, id, ms) ==
  Client!RefundEligibility(Client!FetchDuel(duels[id], decks[id], swipes[id]), p, ms)

\* The refunds that the contract would grant a player who asks now.
Granted(p, d) ==
  {kind \in {"cancel_pending", "reveal_timeout", "duel_timeout"} :
     CASE kind = "cancel_pending" -> CanCancel(p, d)
       [] kind = "reveal_timeout" -> RevealTimedOut(d) /\ CanRefund(d)
       [] kind = "duel_timeout" -> DuelTimedOut(d) /\ CanRefund(d)}

\* A client whose clock is not ahead of the chain's offers a player no refund but
\* one that the contract would grant; and one whose clock agrees with it offers a
\* player of the duel a refund exactly when the contract would grant that player
\* one.  (A duel joined at time 0, which no block has, is offered none.)
RefundsAreGranted ==
  \A id \in DuelIds, p \in Players :
    LET d == duels[id] IN
    /\ \A ms \in 0 .. now * SECOND : Offered(p, id, ms) \subseteq Granted(p, d)
    /\ p \in {d.creator, d.challenger} /\ (d.status = "Pending" \/ d.startedAtSec # 0) =>
         (Granted(p, d) # {} <=> Offered(p, id, now * SECOND) # {})

-----------------------------------------------------------------------------
(* The services: the fields that they read, of duels whose decks are all of *)
(* one size.                                                                *)
VerdictOf(event) == IF event.voided THEN "VOID" ELSE IF event.winner = "Up" THEN "UP" ELSE "DOWN"

Outcomes(id) ==
  [c \in Cards |-> IF c \in cardSettled[id] THEN VerdictOf(cardEvents[id][c]) ELSE "open"]

Swiped(id) == {x \in Players \X Cards : swipes[id][x[1]][x[2]].exists}

Seen(id) ==
  [status |-> duels[id].status, revealed |-> duels[id].deckRevealed,
   outcome |-> Outcomes(id), swiped |-> Swiped(id)]

View == [id \in DuelIds |-> Seen(id)]

Chain == INSTANCE DuelChain WITH
  Duels <- DuelIds, DeckSize <- MAX_DECK_SIZE, Verdicts <- {"UP", "DOWN", "VOID"},
  Sweeps <- {}, Requests <- {}, Null <- NoPlayer,
  chain <- View,
  venue <- [id \in DuelIds |-> [c \in Cards |-> "open"]],
  mempool <- {}, receipt <- [s \in {} |-> "none"]

\* What a service may send.
Transactions ==
  {Chain!SettleTx(NoPlayer, id, c, v) : id \in DuelIds, c \in Cards, v \in {"UP", "DOWN", "VOID"}}
    \cup {Chain!FinalizeTx(NoPlayer, id) : id \in DuelIds}
    \cup {Chain!SwipeTx(NoPlayer, id, p, c, nonces[p]) : id \in DuelIds, p \in Players, c \in Cards}

seenVars == Chain!chainVars

\* A call of the players or of the admin.
Called(id) ==
  Chain!CreateDuel(id) \/ Chain!JoinDuel(id) \/ Chain!RevealDeck(id) \/ Chain!RefundDuel(id)

\* Whatever is called on the contract, the services see a call that they know of:
\* one of the players' or the admin's, or a transaction that had its effect.
SeenAsChain ==
  /\ Chain!ChainInit
  /\ [][(\E id \in DuelIds : Called(id)) \/ (\E tx \in Transactions : Chain!Execute(tx))]_seenVars
=============================================================================
