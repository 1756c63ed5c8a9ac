----------------------------- MODULE DuelChain -----------------------------
(***************************************************************************)
(* The duel contract and the venue as the server's services see them: what *)
(* getDuel, getDeck, isCardSettled, nonces and getSettlement answer, and   *)
(* the transactions the services send.  DreamSwipeDuel models the contract *)
(* itself; here a duel keeps only what a service reads or writes.          *)
(*                                                                         *)
(* A transaction waits in the mempool until a block executes it, or        *)
(* reverts it when the contract's guards fail by then.  Its sender awaits  *)
(* the receipt; a transaction whose sender gave up (from = Null) may     *)
(* still be mined.  Two such transactions of equal content are one: the    *)
(* second could only revert.                                               *)
(***************************************************************************)
EXTENDS Naturals, FiniteSets

CONSTANTS
  Duels,      \* duel ids the services may hear of
  Players,    \* the two players of every duel
  DeckSize,   \* cards of a deck
  Verdicts,   \* how a market may resolve: some of "UP", "DOWN", "VOID"
  Sweeps,     \* keeper sweeps that may run at once
  Requests,   \* relay requests
  Null        \* no sender that waits, no duel, nothing read, no row

ASSUME ChainAssumption ==
  /\ DeckSize \in Nat \ {0}
  /\ Verdicts \subseteq {"UP", "DOWN", "VOID"}
  /\ Sweeps \cap Requests = {}
  /\ Null \notin Sweeps \cup Requests

Cards == 0 .. DeckSize - 1
Senders == Sweeps \cup Requests
Outcome == Verdicts \cup {"open"}
ChainStatus == {"None", "Pending", "Active", "Complete"}

ChainDuel == [status : ChainStatus, revealed : BOOLEAN,
              outcome : [Cards -> Outcome], swiped : SUBSET (Players \X Cards)]

SettleTx(s, d, c, v) ==
  [kind |-> "settleCard", from |-> s, duel |-> d, card |-> c, verdict |-> v]
FinalizeTx(s, d) == [kind |-> "finalize", from |-> s, duel |-> d]
SwipeTx(s, d, p, c, n) ==
  [kind |-> "recordSwipe", from |-> s, duel |-> d, player |-> p, card |-> c, nonce |-> n]

VARIABLES
  chain,    \* _duels, _cardSettled with the event's winner, and _swipes
  nonces,   \* the next swipe nonce of each player
  venue,    \* the venue's resolution of each card's market
  mempool,  \* transactions sent and not yet mined
  receipt   \* what each sender's awaited transaction came to

chainVars == <<chain, nonces, venue, mempool, receipt>>

ChainTypeOK ==
  /\ chain \in [Duels -> ChainDuel]
  /\ nonces \in [Players -> Nat]
  /\ venue \in [Duels -> [Cards -> Outcome]]
  /\ \A tx \in mempool : tx.from \in Senders \cup {Null} /\ tx.duel \in Duels
  /\ receipt \in [Senders -> {"none", "success", "reverted"}]

ChainInit ==
  /\ chain = [d \in Duels |-> [status |-> "None", revealed |-> FALSE,
                               outcome |-> [c \in Cards |-> "open"], swiped |-> {}]]
  /\ nonces = [p \in Players |-> 0]
  /\ venue = [d \in Duels |-> [c \in Cards |-> "open"]]
  /\ mempool = {}
  /\ receipt = [s \in Senders |-> "none"]

AllSettled(d) == \A c \in Cards : chain[d].outcome[c] # "open"
Playing(d) == chain[d].status = "Active" /\ chain[d].revealed

(* Calls of the players and of the admin, and the refunds after a timeout.  *)
SetStatus(d, before, after) ==
  /\ chain[d].status = before
  /\ chain' = [chain EXCEPT ![d].status = after]
  /\ UNCHANGED <<nonces, venue, mempool, receipt>>

CreateDuel(d) == SetStatus(d, "None", "Pending")
JoinDuel(d) == SetStatus(d, "Pending", "Active")
RefundDuel(d) == \E before \in {"Pending", "Active"} : SetStatus(d, before, "Complete")

RevealDeck(d) ==
  /\ chain[d].status = "Active"
  /\ ~chain[d].revealed
  /\ chain' = [chain EXCEPT ![d].revealed = TRUE]
  /\ UNCHANGED <<nonces, venue, mempool, receipt>>

(* The venue resolves a market, for good.                                   *)
ResolveMarket(d, c) ==
  /\ chain[d].revealed
  /\ venue[d][c] = "open"
  /\ \E v \in Verdicts : venue' = [venue EXCEPT ![d][c] = v]
  /\ UNCHANGED <<chain, nonces, mempool, receipt>>

(* The guards a transaction meets when it is simulated, and again when it   *)
(* is mined.                                                                *)
Executable(tx) ==
  CASE tx.kind = "settleCard" -> Playing(tx.duel) /\ chain[tx.duel].outcome[tx.card] = "open"
    [] tx.kind = "finalize" -> Playing(tx.duel) /\ AllSettled(tx.duel)
    [] tx.kind = "recordSwipe" ->
         /\ Playing(tx.duel)
         /\ <<tx.player, tx.card>> \notin chain[tx.duel].swiped
         /\ tx.nonce = nonces[tx.player]

Effect(tx) ==
  CASE tx.kind = "settleCard" -> [chain EXCEPT ![tx.duel].outcome[tx.card] = tx.verdict]
    [] tx.kind = "finalize" -> [chain EXCEPT ![tx.duel].status = "Complete"]
    [] tx.kind = "recordSwipe" ->
         [chain EXCEPT ![tx.duel].swiped = @ \cup {<<tx.player, tx.card>>}]

Execute(tx) ==
  /\ Executable(tx)
  /\ chain' = Effect(tx)
  /\ nonces' = IF tx.kind = "recordSwipe" THEN [nonces EXCEPT ![tx.player] = @ + 1] ELSE nonces

(* A block includes tx; the mined status reaches its sender if it waits.    *)
Mine(tx) ==
  /\ tx \in mempool
  /\ mempool' = mempool \ {tx}
  /\ IF Executable(tx) THEN Execute(tx) ELSE UNCHANGED <<chain, nonces>>
  /\ receipt' = IF tx.from = Null THEN receipt
                ELSE [receipt EXCEPT ![tx.from] = IF Executable(tx) THEN "success"
                                                  ELSE "reverted"]
  /\ UNCHANGED venue

(* What a service does to the chain.                                        *)
Send(tx) == mempool' = mempool \cup {tx} /\ UNCHANGED <<chain, nonces, venue, receipt>>

TakeReceipt(s) ==
  /\ receipt[s] # "none"
  /\ receipt' = [receipt EXCEPT ![s] = "none"]
  /\ UNCHANGED <<chain, nonces, venue, mempool>>

(* The mempool once the senders in S no longer wait for their transactions. *)
Orphaned(S) ==
  {IF tx.from \in S THEN [tx EXCEPT !.from = Null] ELSE tx : tx \in mempool}

GiveUp(S) ==
  /\ mempool' = Orphaned(S)
  /\ receipt' = [s \in Senders |-> IF s \in S THEN "none" ELSE receipt[s]]
  /\ UNCHANGED <<chain, nonces, venue>>

ChainNext ==
  \E d \in Duels :
    \/ CreateDuel(d)
    \/ JoinDuel(d)
    \/ RevealDeck(d)
    \/ RefundDuel(d)
    \/ \E c \in Cards : ResolveMarket(d, c)
=============================================================================
