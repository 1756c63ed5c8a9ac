--------------------------- MODULE PipelineProofs ---------------------------
(***************************************************************************)
(* Proofs about Pipeline, for any number of duels, players, cards, sweeps, *)
(* refreshAll runs, requests, faults and restarts: the verdicts written on *)
(* chain are the venue's, one signed swipe is answered ok once, and a row  *)
(* of the mirror never runs ahead of the chain.                            *)
(*                                                                         *)
(* A service touches the chain in four ways: it sends a transaction, takes *)
(* a receipt, gives up waiting, or leaves the chain alone.  ServiceMove    *)
(* says so once, and what an invariant needs of the chain is shown for     *)
(* those ways, for the calls of the players and the admin, and for the     *)
(* block that mines a transaction.                                         *)
(***************************************************************************)
EXTENDS Pipeline, FiniteSetTheorems, TLAPS

-----------------------------------------------------------------------------
(* The invariants.                                                          *)

SettleTxs == [kind : {"settleCard"}, from : Sweeps \cup {Null}, duel : Duels,
              card : Cards, verdict : Verdicts]
FinalizeTxs == [kind : {"finalize"}, from : Sweeps \cup {Null}, duel : Duels]
SwipeTxs == [kind : {"recordSwipe"}, from : Requests \cup {Null}, duel : Duels,
             player : Players, card : Cards, nonce : Nat]
Txs == SettleTxs \cup FinalizeTxs \cup SwipeTxs

ChainOK == ChainTypeOK /\ mempool \subseteq Txs

\* A sweep that left its loop is on a duel, and waits for a card of the deck.
SweepsOK ==
  /\ KeeperTypeOK
  /\ \A s \in Sweeps :
       /\ sweep[s].pc \notin {"idle", "loop"} => sweep[s].duel \in Duels
       /\ sweep[s].pc = "settling" => sweep[s].card < DeckSize

\* A run that left its loop is on a duel, and one in its loop holds no read.
PollsOK ==
  /\ IndexerTypeOK
  /\ \A q \in Polls :
       /\ poll[q].pc \in {"reading", "publishing"} => poll[q].duel \in Duels
       /\ poll[q].pc \in {"idle", "loop"} => poll[q].raw = Null

PipelineTypes == ChainOK /\ SweepsOK /\ PollsOK /\ RelayTypeOK /\ restarts \in 0 .. MaxRestarts

\* A verdict that waits in the mempool is the venue's as well.
FromVenue(tx) == tx.kind = "settleCard" => tx.verdict = venue[tx.duel][tx.card]
VerdictsInv == OutcomesAreTheVenues /\ \A tx \in mempool : FromVenue(tx)

\* The transaction of a request that waits is its swipe; a swipe that the chain
\* executed, whether or not it has been answered yet, has used up its nonce.
Landed(r) == request[r].pc = "ok" \/ (request[r].pc = "relaying" /\ receipt[r] = "success")

RelayInv ==
  /\ \A tx \in mempool, r \in Requests :
       tx.from = r => request[r].pc = "relaying" /\ receipt[r] = "none" /\ tx = SwipeOf(r)
  /\ \A r \in Requests : receipt[r] # "none" => request[r].pc = "relaying"
  /\ \A r \in Requests :
       Landed(r) =>
         /\ request[r].player \in Players
         /\ request[r].nonce < nonces[request[r].player]
         /\ <<request[r].player, request[r].card>> \in chain[request[r].duel].swiped
  /\ \A r, o \in Requests :
       Landed(r) /\ Landed(o) /\ r # o =>
         <<request[r].player, request[r].nonce>> # <<request[o].player, request[o].nonce>>

\* What was read, or written, of a duel is not ahead of the duel k.
SettledCards(k) == {c \in Cards : k.outcome[c] # "open"}
Behind(v, k) ==
  /\ Rank(v.status) <= Rank(k.status)
  /\ v.settledCount <= Cardinality(SettledCards(k))
  /\ v.status = "Complete" =>
       v.settledCount = Cardinality(SettledCards(k)) /\ v.revealed = k.revealed

MirrorInv ==
  /\ \A q \in Polls : poll[q].pc = "reading" /\ poll[q].raw # Null =>
       Behind(poll[q].raw, chain[poll[q].duel])
  /\ \A d \in Duels : row[d] # Null => row[d].status # "None" /\ Behind(row[d], chain[d])

-----------------------------------------------------------------------------
(* What a service does to the chain.                                        *)

ServiceMove(S) ==
  \/ UNCHANGED chainVars
  \/ \E tx \in Txs : tx.from \in S /\ FromVenue(tx) /\ Send(tx)
  \/ \E s \in S : TakeReceipt(s)
  \/ \E T \in SUBSET S : GiveUp(T)

BlockMove == \E tx \in mempool : Mine(tx)

LEMMA SweepMoves ==
  ASSUME PipelineTypes, NEW s \in Sweeps, StartSweep(s) \/ SweepStep(s) \/ RpcFails(s)
  PROVE  ServiceMove(Sweeps)
<1> USE DEF PipelineTypes
<1>1. CASE SettleCard(s)
  <2>1. sweep[s].duel \in Duels /\ sweep[s].card \in Cards
    BY <1>1, ChainAssumption DEF SettleCard, SweepsOK, KeeperTypeOK, Cards
  <2>2. venue[sweep[s].duel][sweep[s].card] \in Verdicts
    BY <1>1, <2>1 DEF SettleCard, HasVerdict, Settlement, ChainOK, ChainTypeOK, Outcome
  <2>3. Settling(s) \in Txs
    BY <2>1, <2>2 DEF Settling, Settlement, SettleTx, Txs, SettleTxs
  <2>4. Settling(s).from \in Sweeps /\ FromVenue(Settling(s))
    BY DEF Settling, Settlement, SettleTx, FromVenue
  <2> QED BY <1>1, <2>3, <2>4 DEF SettleCard, ServiceMove
<1>2. CASE FinalizeDuel(s)
  <2>1. sweep[s].duel \in Duels
    BY <1>2 DEF FinalizeDuel, SweepsOK
  <2> DEFINE tx == FinalizeTx(s, sweep[s].duel)
  <2>2. tx \in Txs /\ tx.from \in Sweeps /\ FromVenue(tx)
    BY <2>1 DEF FinalizeTx, Txs, FinalizeTxs, FromVenue
  <2>3. Send(tx) \/ UNCHANGED chainVars
    BY <1>2 DEF FinalizeDuel
  <2> QED BY <2>2, <2>3 DEF ServiceMove
<1>3. CASE CardMined(s) \/ DuelFinalized(s)
  BY <1>3 DEF CardMined, DuelFinalized, ServiceMove
<1>4. CASE RpcFails(s)
  <2>1. UNCHANGED chainVars \/ GiveUp({s})
    BY <1>4 DEF RpcFails
  <2> QED BY <2>1 DEF ServiceMove
<1>5. CASE StartSweep(s) \/ SweepEnds(s) \/ ReadDuel(s) \/ ActOnReply(s) \/ SkipCard(s)
  BY <1>5 DEF StartSweep, SweepEnds, ReadDuel, ActOnReply, SkipCard, ServiceMove
<1> QED BY <1>1, <1>2, <1>3, <1>4, <1>5 DEF SweepStep

LEMMA RelayMoves ==
  ASSUME PipelineTypes, RelayNext
  PROVE  ServiceMove(Requests)
<1> USE DEF PipelineTypes
<1>1. ASSUME NEW r \in Requests, Preflight(r) PROVE ServiceMove(Requests)
  <2>1. CASE Send(SwipeOf(r)) /\ request[r].card < DeckSize /\ request[r].player # Outside
    <3>1. request[r] \in RequestRecord
      BY <1>1 DEF Preflight, RelayTypeOK, NotPosted
    <3>2. SwipeOf(r) \in Txs
      BY <2>1, <3>1, ChainAssumption
      DEF SwipeOf, SwipeTx, Txs, SwipeTxs, RequestRecord, Cards
    <3>3. SwipeOf(r).from \in Requests /\ FromVenue(SwipeOf(r))
      BY DEF SwipeOf, SwipeTx, FromVenue
    <3> QED BY <2>1, <3>2, <3>3 DEF ServiceMove
  <2>2. CASE UNCHANGED chainVars
    BY <2>2 DEF ServiceMove
  <2> QED BY <1>1, <2>1, <2>2 DEF Preflight
<1>2. ASSUME NEW r \in Requests, SwipeMined(r) PROVE ServiceMove(Requests)
  BY <1>2 DEF SwipeMined, ServiceMove
<1>3. ASSUME NEW r \in Requests, RelayFails(r) PROVE ServiceMove(Requests)
  BY <1>3 DEF RelayFails, ServiceMove
<1>4. ASSUME NEW r \in Requests, PostSwipe(r) \/ RefuseExpired(r)
      PROVE  ServiceMove(Requests)
  BY <1>4 DEF PostSwipe, RefuseExpired, ServiceMove
<1> QED BY <1>1, <1>2, <1>3, <1>4 DEF RelayNext

LEMMA PollMoves ==
  ASSUME NEW q \in Polls, StartPoll(q) \/ PollStep(q) \/ PollFails(q)
  PROVE  UNCHANGED chainVars
BY DEF StartPoll, PollStep, PollNext, ReadRaw, ReadDeck, UpsertDuel, PublishDuel, PollFails

LEMMA ChainMoves ==
  ASSUME PipelineTypes, [Next]_vars
  PROVE  ChainNext \/ BlockMove \/ ServiceMove(Senders)
<1>1. ServiceMove(Sweeps) => ServiceMove(Senders)
  BY DEF ServiceMove, Senders
<1>2. ServiceMove(Requests) => ServiceMove(Senders)
  BY DEF ServiceMove, Senders
<1>3. ASSUME NEW f \in Senders \cup {Null}, Mining(f) PROVE BlockMove
  BY <1>3 DEF Mining, BlockMove
<1>4. ASSUME NEW s \in Sweeps, Sweeping(s) \/ RpcFails(s) PROVE ServiceMove(Sweeps)
  BY <1>4, SweepMoves DEF Sweeping
<1>5. ASSUME NEW d \in Duels, Backfilling(d) PROVE ServiceMove(Senders)
  BY <1>5 DEF Backfilling, BackfillLog, ServiceMove
<1>6. ASSUME NEW q \in Polls, Polling(q) \/ PollFails(q) PROVE ServiceMove(Senders)
  BY <1>6, PollMoves DEF Polling, ServiceMove
<1>7. CASE RelayNext
  BY <1>2, <1>7, RelayMoves
<1>8. CASE Restart
  BY <1>8 DEF Restart, ServiceMove
<1>9. CASE UNCHANGED vars
  BY <1>9 DEF vars, ServiceMove
<1> QED BY <1>1, <1>3, <1>4, <1>5, <1>6, <1>7, <1>8, <1>9 DEF Next

-----------------------------------------------------------------------------
(* The block: what each kind of transaction does when it is mined.          *)

LEMMA SettleExecuted ==
  ASSUME NEW tx \in SettleTxs
  PROVE  /\ Executable(tx) <=> Playing(tx.duel) /\ chain[tx.duel].outcome[tx.card] = "open"
         /\ Effect(tx) = [chain EXCEPT ![tx.duel].outcome[tx.card] = tx.verdict]
         /\ tx.kind = "settleCard"
BY DEF SettleTxs, Executable, Effect

LEMMA FinalizeExecuted ==
  ASSUME NEW tx \in FinalizeTxs
  PROVE  /\ Executable(tx) <=> Playing(tx.duel) /\ AllSettled(tx.duel)
         /\ Effect(tx) = [chain EXCEPT ![tx.duel].status = "Complete"]
         /\ tx.kind = "finalize"
BY DEF FinalizeTxs, Executable, Effect

LEMMA SwipeExecuted ==
  ASSUME NEW tx \in SwipeTxs
  PROVE  /\ Executable(tx) <=> /\ Playing(tx.duel)
                               /\ <<tx.player, tx.card>> \notin chain[tx.duel].swiped
                               /\ tx.nonce = nonces[tx.player]
         /\ Effect(tx) =
              [chain EXCEPT ![tx.duel].swiped = @ \cup {<<tx.player, tx.card>>}]
         /\ tx.kind = "recordSwipe"
BY DEF SwipeTxs, Executable, Effect

\* The change a block makes to the duels: none, or that of one of the three kinds.
Mined(tx) ==
  \/ chain' = chain /\ nonces' = nonces
  \/ /\ tx \in SettleTxs
     /\ Playing(tx.duel) /\ chain[tx.duel].outcome[tx.card] = "open"
     /\ chain' = [chain EXCEPT ![tx.duel].outcome[tx.card] = tx.verdict]
     /\ nonces' = nonces
  \/ /\ tx \in FinalizeTxs
     /\ Playing(tx.duel)
     /\ chain' = [chain EXCEPT ![tx.duel].status = "Complete"]
     /\ nonces' = nonces
  \/ /\ tx \in SwipeTxs
     /\ Playing(tx.duel) /\ tx.nonce = nonces[tx.player]
     /\ chain' = [chain EXCEPT ![tx.duel].swiped = @ \cup {<<tx.player, tx.card>>}]
     /\ nonces' = [nonces EXCEPT ![tx.player] = @ + 1]

LEMMA MinedKinds ==
  ASSUME ChainOK, NEW tx \in mempool, Mine(tx)
  PROVE  Mined(tx)
<1>1. tx \in SettleTxs \/ tx \in FinalizeTxs \/ tx \in SwipeTxs
  BY DEF ChainOK, Txs
<1>2. CASE ~Executable(tx)
  BY <1>2 DEF Mine, Execute, Mined
<1>3. CASE Executable(tx) /\ tx \in SettleTxs
  BY <1>3, SettleExecuted DEF Mine, Execute, Mined
<1>4. CASE Executable(tx) /\ tx \in FinalizeTxs
  BY <1>4, FinalizeExecuted DEF Mine, Execute, Mined
<1>5. CASE Executable(tx) /\ tx \in SwipeTxs
  BY <1>5, SwipeExecuted DEF Mine, Execute, Mined
<1> QED BY <1>1, <1>2, <1>3, <1>4, <1>5

-----------------------------------------------------------------------------
(* A duel only grows, and one that is complete changes no more.             *)

LEMMA RankValues ==
  /\ Rank("None") = 0 /\ Rank("Pending") = 1
  /\ Rank("Active") = 2 /\ Rank("Complete") = 3
BY DEF Rank

LEMMA RankTop ==
  ASSUME NEW status \in ChainStatus
  PROVE  /\ Rank(status) \in Nat
         /\ Rank(status) >= 3 => status = "Complete"
         /\ status # "None" => Rank(status) > 0
BY RankValues DEF ChainStatus

Grows(k, k2) ==
  /\ Rank(k.status) <= Rank(k2.status)
  /\ \A c \in Cards : k.outcome[c] # "open" => k2.outcome[c] = k.outcome[c]
  /\ k.swiped \subseteq k2.swiped
  /\ k.status = "Complete" =>
       k2.status = "Complete" /\ k2.outcome = k.outcome /\ k2.revealed = k.revealed

LEMMA StaysTheSame == ASSUME NEW k \in ChainDuel PROVE Grows(k, k)
BY RankTop DEF Grows, ChainDuel

LEMMA CallsGrow ==
  ASSUME ChainOK, ChainNext, NEW d \in Duels
  PROVE  Grows(chain[d], chain'[d])
<1>1. chain[d] \in ChainDuel
  BY DEF ChainOK, ChainTypeOK
<1>2. ASSUME NEW e \in Duels, NEW before \in ChainStatus, NEW after \in ChainStatus,
             SetStatus(e, before, after), Rank(before) <= Rank(after), before # "Complete"
      PROVE  Grows(chain[d], chain'[d])
  <2>1. CASE d = e
    <3>1. /\ chain[d].status = before /\ chain'[d].status = after
          /\ chain'[d].outcome = chain[d].outcome
          /\ chain'[d].swiped = chain[d].swiped
      BY <1>1, <1>2, <2>1 DEF SetStatus, ChainOK, ChainTypeOK, ChainDuel
    <3> QED BY <1>2, <3>1 DEF Grows
  <2>2. CASE d # e
    BY <1>1, <1>2, <2>2, StaysTheSame DEF SetStatus, ChainOK, ChainTypeOK
  <2> QED BY <2>1, <2>2
<1>3. ASSUME NEW e \in Duels, CreateDuel(e) \/ JoinDuel(e) \/ RefundDuel(e)
      PROVE  Grows(chain[d], chain'[d])
  BY <1>2, <1>3, RankValues DEF CreateDuel, JoinDuel, RefundDuel, ChainStatus
<1>4. ASSUME NEW e \in Duels, RevealDeck(e) PROVE Grows(chain[d], chain'[d])
  <2>1. CASE d = e
    <3>1. /\ chain[d].status = "Active" /\ chain'[d].status = "Active"
          /\ chain'[d].outcome = chain[d].outcome
          /\ chain'[d].swiped = chain[d].swiped
      BY <1>1, <1>4, <2>1 DEF RevealDeck, ChainOK, ChainTypeOK, ChainDuel
    <3> QED BY <3>1, RankValues DEF Grows
  <2>2. CASE d # e
    BY <1>1, <1>4, <2>2, StaysTheSame DEF RevealDeck, ChainOK, ChainTypeOK
  <2> QED BY <2>1, <2>2
<1>5. ASSUME NEW e \in Duels, NEW c \in Cards, ResolveMarket(e, c)
      PROVE  Grows(chain[d], chain'[d])
  BY <1>1, <1>5, StaysTheSame DEF ResolveMarket
<1> QED BY <1>3, <1>4, <1>5 DEF ChainNext

LEMMA MiningGrows ==
  ASSUME ChainOK, NEW tx \in mempool, Mine(tx), NEW d \in Duels
  PROVE  Grows(chain[d], chain'[d])
<1>1. chain[d] \in ChainDuel /\ Mined(tx)
  BY MinedKinds DEF ChainOK, ChainTypeOK
<1>2. CASE chain'[d] = chain[d]
  BY <1>1, <1>2, StaysTheSame
<1>3. CASE tx.duel = d /\ Playing(d) /\ chain' # chain
  <2>1. chain[d].status = "Active"
    BY <1>3 DEF Playing
  <2>2. CASE tx \in SettleTxs
    <3>1. /\ chain[d].outcome[tx.card] = "open"
          /\ chain' = [chain EXCEPT ![d].outcome[tx.card] = tx.verdict]
      BY <1>1, <1>3, <2>2 DEF Mined, SettleTxs, FinalizeTxs, SwipeTxs
    <3>2. chain'[d] = [chain[d] EXCEPT !.outcome[tx.card] = tx.verdict]
      BY <3>1 DEF ChainOK, ChainTypeOK
    <3>3. /\ chain'[d].status = "Active" /\ chain'[d].swiped = chain[d].swiped
          /\ chain'[d].outcome = [chain[d].outcome EXCEPT ![tx.card] = tx.verdict]
      BY <1>1, <2>1, <3>2 DEF ChainDuel
    <3>4. ASSUME NEW c \in Cards, chain[d].outcome[c] # "open"
          PROVE  chain'[d].outcome[c] = chain[d].outcome[c]
      BY <1>1, <3>1, <3>3, <3>4 DEF ChainDuel
    <3> QED BY <2>1, <3>3, <3>4, RankValues DEF Grows
  <2>3. CASE tx \in FinalizeTxs
    <3>1. chain' = [chain EXCEPT ![d].status = "Complete"]
      BY <1>1, <1>3, <2>3 DEF Mined, SettleTxs, FinalizeTxs, SwipeTxs
    <3>2. chain'[d] = [chain[d] EXCEPT !.status = "Complete"]
      BY <3>1 DEF ChainOK, ChainTypeOK
    <3>3. /\ chain'[d].status = "Complete" /\ chain'[d].swiped = chain[d].swiped
          /\ chain'[d].outcome = chain[d].outcome
      BY <1>1, <3>2 DEF ChainDuel
    <3> QED BY <2>1, <3>3, RankValues DEF Grows
  <2>4. CASE tx \in SwipeTxs
    <3>1. chain' = [chain EXCEPT ![d].swiped = @ \cup {<<tx.player, tx.card>>}]
      BY <1>1, <1>3, <2>4 DEF Mined, SettleTxs, FinalizeTxs, SwipeTxs
    <3>2. chain'[d] = [chain[d] EXCEPT !.swiped = @ \cup {<<tx.player, tx.card>>}]
      BY <3>1 DEF ChainOK, ChainTypeOK
    <3>3. /\ chain'[d].status = "Active" /\ chain[d].swiped \subseteq chain'[d].swiped
          /\ chain'[d].outcome = chain[d].outcome
      BY <1>1, <2>1, <3>2 DEF ChainDuel
    <3> QED BY <2>1, <3>3, RankValues DEF Grows
  <2> QED BY <1>1, <1>3, <2>2, <2>3, <2>4 DEF Mined
<1>4. \/ chain' = chain
      \/ tx.duel = d /\ Playing(d)
      \/ chain'[d] = chain[d]
  BY <1>1 DEF Mined, ChainOK, ChainTypeOK
<1> QED BY <1>2, <1>3, <1>4

LEMMA DuelsGrow ==
  ASSUME PipelineTypes, [Next]_vars, NEW d \in Duels
  PROVE  Grows(chain[d], chain'[d])
<1>1. ChainOK /\ chain[d] \in ChainDuel
  BY DEF PipelineTypes, ChainOK, ChainTypeOK
<1>2. CASE ServiceMove(Senders)
  <2>1. chain' = chain
    BY <1>2 DEF ServiceMove, Send, TakeReceipt, GiveUp, chainVars
  <2> QED BY <1>1, <2>1, StaysTheSame
<1>3. CASE BlockMove
  BY <1>1, <1>3, MiningGrows DEF BlockMove
<1>4. CASE ChainNext
  BY <1>1, <1>4, CallsGrow
<1> QED BY <1>2, <1>3, <1>4, ChainMoves

-----------------------------------------------------------------------------
(* Types.                                                                   *)

LEMMA OrphansTyped ==
  ASSUME ChainOK, NEW S \in SUBSET Senders
  PROVE  Orphaned(S) \subseteq Txs
<1> SUFFICES ASSUME NEW tx \in mempool
             PROVE  (IF tx.from \in S THEN [tx EXCEPT !.from = Null] ELSE tx) \in Txs
  BY DEF Orphaned
<1>1. tx \in SettleTxs \/ tx \in FinalizeTxs \/ tx \in SwipeTxs
  BY DEF ChainOK, Txs
<1>2. CASE tx \in SettleTxs
  BY <1>2 DEF Txs, SettleTxs
<1>3. CASE tx \in FinalizeTxs
  BY <1>3 DEF Txs, FinalizeTxs
<1>4. CASE tx \in SwipeTxs
  BY <1>4 DEF Txs, SwipeTxs
<1> QED BY <1>1, <1>2, <1>3, <1>4

LEMMA TxsTyped ==
  ASSUME NEW tx \in Txs
  PROVE  tx.from \in Senders \cup {Null} /\ tx.duel \in Duels
BY DEF Txs, SettleTxs, FinalizeTxs, SwipeTxs, Senders

\* What ChainOK says of the mempool in ChainTypeOK follows from the rest of it.
LEMMA ChainTypes ==
  ASSUME chain' \in [Duels -> ChainDuel], nonces' \in [Players -> Nat],
         venue' \in [Duels -> [Cards -> Outcome]], mempool' \subseteq Txs,
         receipt' \in [Senders -> {"none", "success", "reverted"}]
  PROVE  ChainOK'
<1>1. \A tx \in mempool' : tx.from \in Senders \cup {Null} /\ tx.duel \in Duels
  BY TxsTyped
<1> QED BY <1>1 DEF ChainOK, ChainTypeOK

LEMMA ServiceTypes == ASSUME ChainOK, ServiceMove(Senders) PROVE ChainOK'
<1>1. CASE UNCHANGED chainVars
  BY <1>1 DEF chainVars, ChainOK, ChainTypeOK
<1>2. ASSUME NEW tx \in Txs, Send(tx) PROVE ChainOK'
  BY <1>2, ChainTypes DEF Send, ChainOK, ChainTypeOK
<1>3. ASSUME NEW s \in Senders, TakeReceipt(s) PROVE ChainOK'
  BY <1>3, ChainTypes DEF TakeReceipt, ChainOK, ChainTypeOK
<1>4. ASSUME NEW S \in SUBSET Senders, GiveUp(S) PROVE ChainOK'
  <2>1. mempool' \subseteq Txs
    BY <1>4, OrphansTyped DEF GiveUp
  <2> QED BY <1>4, <2>1, ChainTypes DEF GiveUp, ChainOK, ChainTypeOK
<1> QED BY <1>1, <1>2, <1>3, <1>4 DEF ServiceMove

LEMMA CallTypes == ASSUME ChainOK, ChainNext PROVE ChainOK'
<1>1. ASSUME NEW d \in Duels, NEW before \in ChainStatus, NEW after \in ChainStatus,
             SetStatus(d, before, after)
      PROVE  ChainOK'
  <2>1. chain' \in [Duels -> ChainDuel]
    BY <1>1 DEF SetStatus, ChainOK, ChainTypeOK, ChainDuel
  <2> QED BY <1>1, <2>1, ChainTypes DEF SetStatus, ChainOK, ChainTypeOK
<1>2. ASSUME NEW d \in Duels, CreateDuel(d) \/ JoinDuel(d) \/ RefundDuel(d) PROVE ChainOK'
  BY <1>1, <1>2 DEF CreateDuel, JoinDuel, RefundDuel, ChainStatus
<1>3. ASSUME NEW d \in Duels, RevealDeck(d) PROVE ChainOK'
  <2>1. chain' \in [Duels -> ChainDuel]
    BY <1>3 DEF RevealDeck, ChainOK, ChainTypeOK, ChainDuel
  <2> QED BY <1>3, <2>1, ChainTypes DEF RevealDeck, ChainOK, ChainTypeOK
<1>4. ASSUME NEW d \in Duels, NEW c \in Cards, ResolveMarket(d, c) PROVE ChainOK'
  <2>1. PICK v \in Verdicts : venue' = [venue EXCEPT ![d][c] = v]
    BY <1>4 DEF ResolveMarket
  <2>2. venue' \in [Duels -> [Cards -> Outcome]]
    BY <2>1 DEF ChainOK, ChainTypeOK, Outcome
  <2> QED BY <1>4, <2>2, ChainTypes DEF ResolveMarket, ChainOK, ChainTypeOK
<1> QED BY <1>2, <1>3, <1>4 DEF ChainNext

LEMMA MiningTypes ==
  ASSUME ChainOK, NEW tx \in mempool, Mine(tx)
  PROVE  ChainOK'
<1>0. chain \in [Duels -> ChainDuel]
  BY DEF ChainOK, ChainTypeOK
<1>1. tx \in Txs /\ Mined(tx)
  BY MinedKinds DEF ChainOK
<1>2. chain' \in [Duels -> ChainDuel] /\ nonces' \in [Players -> Nat]
  <2>1. CASE chain' = chain /\ nonces' = nonces
    BY <2>1 DEF ChainOK, ChainTypeOK
  <2>2. ASSUME tx \in SettleTxs, chain' = [chain EXCEPT ![tx.duel].outcome[tx.card] = tx.verdict]
        PROVE  chain' \in [Duels -> ChainDuel]
    <3>1. tx.duel \in Duels /\ tx.card \in Cards /\ tx.verdict \in Outcome
      BY <2>2 DEF SettleTxs, Outcome
    <3>2. [chain[tx.duel] EXCEPT !.outcome[tx.card] = tx.verdict] \in ChainDuel
      BY <1>0, <3>1 DEF ChainDuel
    <3> QED BY <1>0, <2>2, <3>1, <3>2
  <2>3. ASSUME tx \in FinalizeTxs, chain' = [chain EXCEPT ![tx.duel].status = "Complete"]
        PROVE  chain' \in [Duels -> ChainDuel]
    <3>1. tx.duel \in Duels
      BY <2>3 DEF FinalizeTxs
    <3>2. [chain[tx.duel] EXCEPT !.status = "Complete"] \in ChainDuel
      BY <1>0, <3>1 DEF ChainDuel, ChainStatus
    <3> QED BY <1>0, <2>3, <3>1, <3>2
  <2>4. ASSUME tx \in SwipeTxs,
               chain' = [chain EXCEPT ![tx.duel].swiped = @ \cup {<<tx.player, tx.card>>}],
               nonces' = [nonces EXCEPT ![tx.player] = @ + 1]
        PROVE  chain' \in [Duels -> ChainDuel] /\ nonces' \in [Players -> Nat]
    <3>1. tx.duel \in Duels /\ tx.card \in Cards /\ tx.player \in Players
      BY <2>4 DEF SwipeTxs
    <3>2. [chain[tx.duel] EXCEPT !.swiped = @ \cup {<<tx.player, tx.card>>}] \in ChainDuel
      BY <1>0, <3>1 DEF ChainDuel
    <3>3. nonces' \in [Players -> Nat]
      BY <2>4, <3>1 DEF ChainOK, ChainTypeOK
    <3> QED BY <1>0, <2>4, <3>1, <3>2, <3>3
  <2> QED BY <1>1, <2>1, <2>2, <2>3, <2>4 DEF Mined, ChainOK, ChainTypeOK
<1>3. receipt' \in [Senders -> {"none", "success", "reverted"}]
  BY <1>1, TxsTyped DEF Mine, Execute, ChainOK, ChainTypeOK
<1> QED BY <1>2, <1>3, ChainTypes DEF Mine, Execute, ChainOK, ChainTypeOK

LEMMA ChainStep == ASSUME PipelineTypes, [Next]_vars PROVE ChainOK'
BY ChainMoves, ServiceTypes, CallTypes, MiningTypes DEF PipelineTypes, BlockMove

SweepRecord ==
  [pc : {"idle", "loop", "reply", "card", "settling", "closing"},
   todo : SUBSET Duels, duel : Duels \cup {Null},
   status : ChainStatus, revealed : BOOLEAN, card : 0 .. DeckSize]
SweepOK(r) ==
  /\ r \in SweepRecord
  /\ r.pc \notin {"idle", "loop"} => r.duel \in Duels
  /\ r.pc = "settling" => r.card < DeckSize

LEMMA SweepsEach ==
  SweepsOK <=> /\ tracked \subseteq Duels
               /\ faults \in 0 .. MaxFaults
               /\ sweep \in [Sweeps -> SweepRecord]
               /\ \A s \in Sweeps : SweepOK(sweep[s])
BY DEF SweepsOK, KeeperTypeOK, SweepOK, SweepRecord

LEMMA GotoKeeps ==
  ASSUME SweepsOK, NEW s \in Sweeps, NEW to, SweepOK(to), Goto(s, to),
         tracked' \subseteq Duels, faults' \in 0 .. MaxFaults
  PROVE  SweepsOK'
<1>1. to \in SweepRecord
  BY DEF SweepOK
<1>2. sweep' \in [Sweeps -> SweepRecord] /\ \A t \in Sweeps : SweepOK(sweep'[t])
  BY <1>1, SweepsEach DEF Goto
<1> QED BY <1>2 DEF SweepsOK, KeeperTypeOK, SweepOK, SweepRecord

LEMMA SweepLocals ==
  ASSUME SweepsOK, NEW s \in Sweeps
  PROVE  /\ SweepOK(sweep[s])
         /\ SweepOK(Idle)
         /\ SweepOK(NextDuel(s))
         /\ sweep[s].pc \notin {"idle", "loop"} /\ sweep[s].card < DeckSize => SweepOK(NextCard(s))
         /\ \A pc \in {"card", "closing", "settling"} :
              sweep[s].pc \notin {"idle", "loop"} /\ (pc = "settling" => sweep[s].card < DeckSize)
                => SweepOK([sweep[s] EXCEPT !.pc = pc])
<1>1. SweepOK(sweep[s])
  BY SweepsEach
<1>2. DeckSize \in Nat
  BY ChainAssumption
<1>3. sweep[s] \in SweepRecord
  BY <1>1 DEF SweepOK
<1>4. SweepOK(Idle)
  BY <1>2 DEF SweepOK, SweepRecord, Idle, ChainStatus
<1>5. SweepOK(NextDuel(s))
  <2> DEFINE atLoop == [sweep[s] EXCEPT !.pc = "loop"]
             noDuel == [atLoop EXCEPT !.duel = Null]
             noStatus == [noDuel EXCEPT !.status = "None"]
             hidden == [noStatus EXCEPT !.revealed = FALSE]
             anew == [hidden EXCEPT !.card = 0]
  <2>1. atLoop \in SweepRecord /\ atLoop.pc = "loop"
    BY <1>3 DEF SweepRecord
  <2>2. noDuel \in SweepRecord /\ noDuel.pc = "loop"
    BY <2>1 DEF SweepRecord
  <2>3. noStatus \in SweepRecord /\ noStatus.pc = "loop"
    <3> HIDE DEF noDuel
    <3> QED BY <2>2 DEF SweepRecord, ChainStatus
  <2>4. hidden \in SweepRecord /\ hidden.pc = "loop"
    <3> HIDE DEF noStatus
    <3> QED BY <2>3 DEF SweepRecord
  <2>5. anew \in SweepRecord /\ anew.pc = "loop"
    <3> HIDE DEF hidden
    <3> QED BY <1>2, <2>4 DEF SweepRecord
  <2> QED BY <2>5 DEF SweepOK, NextDuel
<1>6. ASSUME NEW pc \in {"card", "closing", "settling"}, sweep[s].pc \notin {"idle", "loop"},
             pc = "settling" => sweep[s].card < DeckSize
      PROVE  SweepOK([sweep[s] EXCEPT !.pc = pc])
  BY <1>1, <1>6 DEF SweepOK, SweepRecord
<1>7. ASSUME sweep[s].pc \notin {"idle", "loop"}, sweep[s].card < DeckSize
      PROVE  SweepOK(NextCard(s))
  <2> DEFINE atCard == [sweep[s] EXCEPT !.pc = "card"]
             moved == [atCard EXCEPT !.card = sweep[s].card + 1]
  <2>1. sweep[s].card + 1 \in 0 .. DeckSize /\ sweep[s].duel \in Duels
    BY <1>1, <1>2, <1>3, <1>7 DEF SweepOK, SweepRecord
  <2>2. atCard \in SweepRecord /\ atCard.pc = "card" /\ atCard.duel \in Duels
    BY <1>3, <2>1 DEF SweepRecord
  <2>3. moved \in SweepRecord /\ moved.pc = "card" /\ moved.duel \in Duels
    <3> HIDE DEF atCard
    <3> QED BY <2>1, <2>2 DEF SweepRecord
  <2>4. NextCard(s) = moved
    BY <1>3 DEF NextCard, SweepRecord
  <2> QED BY <2>3, <2>4 DEF SweepOK
<1> QED BY <1>1, <1>4, <1>5, <1>6, <1>7

LEMMA FaultTyped ==
  ASSUME SweepsOK, Fault
  PROVE  faults' \in 0 .. MaxFaults
BY FaultsAssumption DEF SweepsOK, KeeperTypeOK, Fault

LEMMA SweepStepTypes ==
  ASSUME ChainOK, SweepsOK, NEW s \in Sweeps, StartSweep(s) \/ SweepStep(s) \/ RpcFails(s)
  PROVE  SweepsOK'
<1> USE SweepLocals
<1>0. tracked \subseteq Duels /\ faults \in 0 .. MaxFaults /\ DeckSize \in Nat
  BY ChainAssumption DEF SweepsOK, KeeperTypeOK
<1>1. CASE StartSweep(s)
  <2>1. SweepOK([Idle EXCEPT !.pc = "loop", !.todo = tracked])
    BY <1>0 DEF SweepOK, SweepRecord, Idle, ChainStatus
  <2> QED BY <1>0, <1>1, <2>1, GotoKeeps DEF StartSweep
<1>2. CASE SweepEnds(s)
  BY <1>0, <1>2, GotoKeeps DEF SweepEnds
<1>3. CASE ReadDuel(s)
  <2>1. PICK d \in sweep[s].todo :
          Goto(s, [sweep[s] EXCEPT !.pc = "reply", !.todo = @ \ {d}, !.duel = d,
                                   !.status = chain[d].status, !.revealed = chain[d].revealed])
    BY <1>3 DEF ReadDuel
  <2>2. d \in Duels /\ chain[d].status \in ChainStatus /\ chain[d].revealed \in BOOLEAN
    BY DEF SweepOK, SweepRecord, ChainOK, ChainTypeOK, ChainDuel
  <2>3. SweepOK([sweep[s] EXCEPT !.pc = "reply", !.todo = @ \ {d}, !.duel = d,
                                 !.status = chain[d].status, !.revealed = chain[d].revealed])
    BY <2>2 DEF SweepOK, SweepRecord
  <2> QED BY <1>0, <1>3, <2>1, <2>3, GotoKeeps DEF ReadDuel
<1>4. CASE ActOnReply(s)
  <2>1. \/ Goto(s, NextDuel(s))
        \/ Goto(s, [sweep[s] EXCEPT !.pc = "card"])
    BY <1>4 DEF ActOnReply
  <2>2. tracked' \subseteq Duels /\ faults' = faults /\ sweep[s].pc = "reply"
    BY <1>0, <1>4 DEF ActOnReply, Forget
  <2> QED BY <1>0, <2>1, <2>2, GotoKeeps
<1>5. CASE SkipCard(s)
  BY <1>0, <1>5, GotoKeeps DEF SkipCard
<1>6. CASE SettleCard(s)
  BY <1>0, <1>6, GotoKeeps DEF SettleCard
<1>7. CASE CardMined(s)
  <2>1. sweep[s].card < DeckSize
    BY <1>7 DEF CardMined, SweepOK
  <2> QED BY <1>0, <1>7, <2>1, GotoKeeps DEF CardMined
<1>8. CASE FinalizeDuel(s)
  BY <1>0, <1>8, GotoKeeps DEF FinalizeDuel
<1>9. CASE DuelFinalized(s)
  <2>1. tracked' \subseteq Duels
    BY <1>0, <1>9 DEF DuelFinalized, Forget
  <2> QED BY <1>0, <1>9, <2>1, GotoKeeps DEF DuelFinalized
<1>10. CASE RpcFails(s)
  <2>1. faults' \in 0 .. MaxFaults /\ tracked' = tracked
    BY <1>10, FaultTyped DEF RpcFails
  <2>2. \/ Goto(s, NextDuel(s))
        \/ Goto(s, NextCard(s)) /\ sweep[s].pc \in {"card", "settling"} /\ sweep[s].card < DeckSize
    BY <1>10 DEF RpcFails, SweepOK
  <2> QED BY <1>0, <2>1, <2>2, GotoKeeps
<1> QED BY <1>1, <1>2, <1>3, <1>4, <1>5, <1>6, <1>7, <1>8, <1>9, <1>10 DEF SweepStep

PollRecord ==
  [pc : {"idle", "loop", "reading", "publishing"}, todo : SUBSET Duels,
   duel : Duels \cup {Null}, raw : RawRead \cup {Null}, deck : {"cards", "empty", Null}]
PollOK(p) ==
  /\ p \in PollRecord
  /\ p.pc \in {"reading", "publishing"} => p.duel \in Duels
  /\ p.pc \in {"idle", "loop"} => p.raw = Null

LEMMA PollsEach ==
  PollsOK <=> /\ logs \subseteq Duels
              /\ mirrored \subseteq Duels
              /\ row \in [Duels -> Row \cup {Null}]
              /\ poll \in [Polls -> PollRecord]
              /\ \A q \in Polls : PollOK(poll[q])
BY DEF PollsOK, IndexerTypeOK, PollOK, PollRecord

LEMMA MoveKeeps ==
  ASSUME PollsOK, NEW q \in Polls, NEW to, PollOK(to), Move(q, to),
         logs' \subseteq Duels, mirrored' \subseteq Duels, row' \in [Duels -> Row \cup {Null}]
  PROVE  PollsOK'
<1>1. to \in PollRecord
  BY DEF PollOK
<1>2. poll' \in [Polls -> PollRecord] /\ \A p \in Polls : PollOK(poll'[p])
  BY <1>1, PollsEach DEF Move
<1> QED BY <1>2 DEF PollsOK, IndexerTypeOK, PollOK, PollRecord

LEMMA PollLocals ==
  ASSUME PollsOK, NEW q \in Polls
  PROVE  /\ PollOK(poll[q]) /\ poll[q] \in PollRecord
         /\ PollOK(IdlePoll)
         /\ PollOK(NextOf(q))
         /\ \A todo \in SUBSET Duels : PollOK([IdlePoll EXCEPT !.pc = "loop", !.todo = todo])
<1>1. PollOK(poll[q]) /\ poll[q] \in PollRecord
  BY PollsEach DEF PollOK
<1>2. PollOK(IdlePoll)
  BY DEF PollOK, PollRecord, IdlePoll
<1>3. ASSUME NEW todo \in SUBSET Duels
      PROVE  PollOK([IdlePoll EXCEPT !.pc = "loop", !.todo = todo])
  <2>1. IdlePoll \in PollRecord /\ IdlePoll.raw = Null
    BY <1>2 DEF PollOK, IdlePoll
  <2>2. [IdlePoll EXCEPT !.pc = "loop"] \in PollRecord
    BY <2>1 DEF PollRecord
  <2>3. [[IdlePoll EXCEPT !.pc = "loop"] EXCEPT !.todo = todo] \in PollRecord
    BY <2>2 DEF PollRecord
  <2>4. /\ [[IdlePoll EXCEPT !.pc = "loop"] EXCEPT !.todo = todo].pc = "loop"
        /\ [[IdlePoll EXCEPT !.pc = "loop"] EXCEPT !.todo = todo].raw = Null
    BY <2>1 DEF PollRecord
  <2> QED BY <2>3, <2>4 DEF PollOK
<1>4. PollOK(NextOf(q))
  BY <1>1, <1>3 DEF PollRecord, NextOf
<1> QED BY <1>1, <1>2, <1>3, <1>4

\* The number of settled cards of a duel is one of 0 .. DeckSize.
LEMMA SettledCount ==
  ASSUME NEW k
  PROVE  /\ IsFiniteSet(SettledCards(k))
         /\ Cardinality(SettledCards(k)) \in 0 .. DeckSize
<1>1. DeckSize \in Nat /\ 0 \in Int /\ DeckSize - 1 \in Int
  BY ChainAssumption
<1>2. IsFiniteSet(Cards) /\ Cardinality(Cards) = DeckSize
  BY <1>1, FS_Interval DEF Cards
<1>3. SettledCards(k) \subseteq Cards
  BY DEF SettledCards
<1>4. /\ IsFiniteSet(SettledCards(k))
      /\ Cardinality(SettledCards(k)) <= Cardinality(Cards)
  BY <1>2, <1>3, FS_Subset
<1>5. Cardinality(SettledCards(k)) \in Nat
  BY <1>4, FS_CardinalityType
<1> QED BY <1>1, <1>2, <1>4, <1>5

LEMMA ViewTyped ==
  ASSUME ChainOK, NEW d \in Duels
  PROVE  /\ View(d) \in RawRead
         /\ View(d) = [status |-> chain[d].status, revealed |-> chain[d].revealed,
                       settledCount |-> Cardinality(SettledCards(chain[d]))]
<1>1. View(d) = [status |-> chain[d].status, revealed |-> chain[d].revealed,
                 settledCount |-> Cardinality(SettledCards(chain[d]))]
  BY DEF View, SettledCards
<1>2. Cardinality(SettledCards(chain[d])) \in 0 .. DeckSize
  BY SettledCount
<1>3. chain[d].status \in ChainStatus /\ chain[d].revealed \in BOOLEAN
  BY DEF ChainOK, ChainTypeOK, ChainDuel
<1> QED BY <1>1, <1>2, <1>3 DEF RawRead

LEMMA PollStepTypes ==
  ASSUME ChainOK, PollsOK, NEW q \in Polls, StartPoll(q) \/ PollStep(q) \/ PollFails(q)
  PROVE  PollsOK'
<1> USE PollLocals
<1>0. /\ logs \subseteq Duels /\ mirrored \subseteq Duels
      /\ row \in [Duels -> Row \cup {Null}]
  BY PollsEach
<1>1. CASE StartPoll(q)
  BY <1>0, <1>1, MoveKeeps DEF StartPoll
<1>2. CASE PollNext(q)
  <2>1. CASE Move(q, IdlePoll)
    BY <1>0, <1>2, <2>1, MoveKeeps DEF PollNext
  <2>2. ASSUME NEW d \in poll[q].todo,
               Move(q, [poll[q] EXCEPT !.pc = "reading", !.todo = @ \ {d}, !.duel = d])
        PROVE  PollsOK'
    <3>1. d \in Duels
      BY DEF PollRecord
    <3>2. PollOK([poll[q] EXCEPT !.pc = "reading", !.todo = @ \ {d}, !.duel = d])
      BY <3>1 DEF PollOK, PollRecord
    <3> QED BY <1>0, <1>2, <2>2, <3>2, MoveKeeps DEF PollNext
  <2> QED BY <1>2, <2>1, <2>2 DEF PollNext
<1>3. CASE ReadRaw(q)
  <2>1. poll[q].duel \in Duels /\ poll[q].pc = "reading"
    BY <1>3 DEF ReadRaw, PollOK
  <2>2. View(poll[q].duel) \in RawRead
    BY <2>1, ViewTyped
  <2>3. PollOK([poll[q] EXCEPT !.raw = View(poll[q].duel)])
    BY <2>1, <2>2 DEF PollOK, PollRecord
  <2> QED BY <1>0, <1>3, <2>3, MoveKeeps DEF ReadRaw
<1>4. CASE ReadDeck(q)
  <2>1. PollOK([poll[q] EXCEPT !.deck = DeckView(poll[q].duel)])
    BY DEF PollOK, PollRecord, DeckView
  <2> QED BY <1>0, <1>4, <2>1, MoveKeeps DEF ReadDeck
<1>5. CASE UpsertDuel(q)
  <2>1. CASE Exists(q)
    <3>1. poll[q].duel \in Duels /\ poll[q].pc = "reading"
      BY <1>5 DEF UpsertDuel, HasRead, PollOK
    <3>2. poll[q].raw \in RawRead /\ poll[q].deck \in {"cards", "empty"}
      BY <1>5 DEF UpsertDuel, HasRead, PollRecord
    <3>3. RowOf(q) \in Row
      BY <3>2 DEF RowOf, RawRead, Row
    <3>4. row' \in [Duels -> Row \cup {Null}]
      BY <1>0, <1>5, <2>1, <3>1, <3>3 DEF UpsertDuel
    <3>5. PollOK([poll[q] EXCEPT !.pc = "publishing"])
      BY <3>1 DEF PollOK, PollRecord
    <3> QED BY <1>0, <1>5, <2>1, <3>4, <3>5, MoveKeeps DEF UpsertDuel
  <2>2. CASE ~Exists(q)
    BY <1>0, <1>5, <2>2, MoveKeeps DEF UpsertDuel
  <2> QED BY <2>1, <2>2
<1>6. CASE PublishDuel(q)
  BY <1>0, <1>6, MoveKeeps DEF PublishDuel
<1>7. CASE PollFails(q)
  BY <1>0, <1>7, MoveKeeps DEF PollFails
<1> QED BY <1>1, <1>2, <1>3, <1>4, <1>5, <1>6, <1>7 DEF PollStep

LEMMA RelayStepTypes ==
  ASSUME ChainOK, SweepsOK, RelayTypeOK, RelayNext
  PROVE  RelayTypeOK' /\ SweepsOK'
<1>1. ASSUME NEW r \in Requests, NEW pc \in {"ok", "expired", "conflict", "forbidden", "failed",
                                            "relaying"},
             request[r].pc \in {"checking", "relaying"}, Reply(r, pc)
      PROVE  RelayTypeOK'
  <2>1. request[r] \in RequestRecord
    BY <1>1 DEF RelayTypeOK, NotPosted
  <2>2. [request[r] EXCEPT !.pc = pc] \in RequestRecord
    BY <2>1 DEF RequestRecord
  <2>3. request' = [request EXCEPT ![r] = [request[r] EXCEPT !.pc = pc]]
    BY <1>1 DEF Reply
  <2> QED BY <2>2, <2>3 DEF RelayTypeOK
<1>2. ASSUME NEW r \in Requests, PostSwipe(r) PROVE RelayTypeOK' /\ SweepsOK'
  <2>1. PICK d \in Duels, p \in Players \cup {Outside}, c \in 0 .. DeckSize :
          /\ \E n \in SignedNonces(p) :
               request' = [request EXCEPT ![r] = [pc |-> "checking", duel |-> d, player |-> p,
                                                  card |-> c, nonce |-> n]]
          /\ tracked' = tracked \cup {d}
    BY <1>2 DEF PostSwipe
  <2>2. PICK n \in SignedNonces(p) :
          request' = [request EXCEPT ![r] = [pc |-> "checking", duel |-> d, player |-> p,
                                             card |-> c, nonce |-> n]]
    BY <2>1
  <2>3. n \in Nat
    BY DEF SignedNonces, ChainOK, ChainTypeOK
  <2>4. [pc |-> "checking", duel |-> d, player |-> p, card |-> c, nonce |-> n] \in RequestRecord
    BY <2>3 DEF RequestRecord
  <2>5. RelayTypeOK'
    BY <2>2, <2>4 DEF RelayTypeOK
  <2>6. SweepsOK'
    BY <1>2, <2>1 DEF PostSwipe, SweepsOK, KeeperTypeOK
  <2> QED BY <2>5, <2>6
<1>3. ASSUME NEW r \in Requests, RefuseExpired(r) \/ Preflight(r) \/ SwipeMined(r) \/ RelayFails(r)
      PROVE  RelayTypeOK'
  <2>1. request[r].pc \in {"checking", "relaying"}
    BY <1>3 DEF RefuseExpired, Preflight, SwipeMined, RelayFails
  <2>2. \E pc \in {"ok", "expired", "conflict", "forbidden", "failed", "relaying"} : Reply(r, pc)
    BY <1>3 DEF RefuseExpired, Preflight, SwipeMined, RelayFails, Answer
  <2> QED BY <1>1, <2>1, <2>2
<1>4. ASSUME NEW r \in Requests, RefuseExpired(r) \/ Preflight(r) \/ SwipeMined(r) \/ RelayFails(r)
      PROVE  SweepsOK'
  <2>1. UNCHANGED keeperVars /\ (UNCHANGED faults \/ Fault)
    BY <1>4 DEF RefuseExpired, Preflight, SwipeMined, RelayFails
  <2>2. faults' \in 0 .. MaxFaults
    BY <2>1, FaultTyped DEF SweepsOK, KeeperTypeOK
  <2> QED BY <2>1, <2>2 DEF keeperVars, SweepsOK, KeeperTypeOK
<1> QED BY <1>2, <1>3, <1>4 DEF RelayNext

LEMMA TypesStart == Init => PipelineTypes
<1> SUFFICES ASSUME Init PROVE PipelineTypes
  OBVIOUS
<1>1. ChainOK
  BY DEF Init, ChainInit, ChainOK, ChainTypeOK, ChainDuel, ChainStatus, Outcome
<1>2. SweepsOK
  BY ChainAssumption, FaultsAssumption
  DEF Init, KeeperInit, SweepsOK, KeeperTypeOK, Idle, ChainStatus
<1>3. PollsOK
  BY DEF Init, IndexerInit, PollsOK, IndexerTypeOK, IdlePoll
<1>4. RelayTypeOK /\ restarts \in 0 .. MaxRestarts
  BY RestartsAssumption DEF Init, RelayInit, RelayTypeOK
<1> QED BY <1>1, <1>2, <1>3, <1>4 DEF PipelineTypes

LEMMA TypesStep == PipelineTypes /\ [Next]_vars => PipelineTypes'
<1> SUFFICES ASSUME PipelineTypes, [Next]_vars PROVE PipelineTypes'
  OBVIOUS
<1> USE DEF PipelineTypes
<1>1. ChainOK'
  BY ChainStep
<1>2. ASSUME UNCHANGED keeperVars, UNCHANGED faults PROVE SweepsOK'
  BY <1>2 DEF keeperVars, SweepsOK, KeeperTypeOK
<1>3. ASSUME UNCHANGED indexerVars PROVE PollsOK'
  BY <1>3 DEF indexerVars, PollsOK, IndexerTypeOK
<1>4. ASSUME UNCHANGED request PROVE RelayTypeOK'
  BY <1>4 DEF RelayTypeOK
<1>5. CASE ChainNext /\ UNCHANGED <<keeperVars, faults, indexerVars, request, restarts>>
  BY <1>1, <1>2, <1>3, <1>4, <1>5
<1>6. ASSUME NEW f \in Senders \cup {Null}, Mining(f) PROVE PipelineTypes'
  BY <1>1, <1>2, <1>3, <1>4, <1>6 DEF Mining
<1>7. ASSUME NEW s \in Sweeps,
             Sweeping(s) \/ (RpcFails(s) /\ UNCHANGED <<indexerVars, request, restarts>>)
      PROVE  PipelineTypes'
  BY <1>1, <1>3, <1>4, <1>7, SweepStepTypes DEF Sweeping
<1>8. ASSUME NEW d \in Duels, Backfilling(d) PROVE PipelineTypes'
  <2>1. PollsOK'
    BY <1>8 DEF Backfilling, BackfillLog, Track, PollsOK, IndexerTypeOK
  <2>2. SweepsOK'
    BY <1>8 DEF Backfilling, BackfillLog, Track, SweepsOK, KeeperTypeOK
  <2> QED BY <1>1, <1>4, <1>8, <2>1, <2>2 DEF Backfilling
<1>9. ASSUME NEW q \in Polls,
             Polling(q) \/ (PollFails(q) /\ UNCHANGED <<request, restarts>>)
      PROVE  PipelineTypes'
  <2>1. PollsOK'
    BY <1>9, PollStepTypes DEF Polling
  <2>2. UNCHANGED keeperVars /\ (UNCHANGED faults \/ Fault)
    BY <1>9 DEF Polling, StartPoll, PollStep, PollNext, ReadRaw, ReadDeck, UpsertDuel,
                PublishDuel, PollFails
  <2>3. faults' \in 0 .. MaxFaults
    BY <2>2, FaultTyped DEF SweepsOK, KeeperTypeOK
  <2>4. SweepsOK'
    BY <2>2, <2>3 DEF keeperVars, SweepsOK, KeeperTypeOK
  <2> QED BY <1>1, <1>4, <1>9, <2>1, <2>4 DEF Polling
<1>10. CASE RelayNext /\ UNCHANGED restarts
  <2>1. UNCHANGED indexerVars
    BY <1>10 DEF RelayNext, PostSwipe, RefuseExpired, Preflight, SwipeMined, RelayFails
  <2> QED BY <1>1, <1>3, <1>10, <2>1, RelayStepTypes
<1>11. CASE Restart
  <2>1. SweepsOK'
    BY <1>11, ChainAssumption DEF Restart, SweepsOK, KeeperTypeOK, Idle, ChainStatus
  <2>2. PollsOK'
    BY <1>11 DEF Restart, PollsOK, IndexerTypeOK, IdlePoll
  <2>3. ASSUME NEW r \in Requests PROVE request'[r] \in {NotPosted} \cup RequestRecord
    <3>1. CASE Interrupted(r)
      <4>1. request[r] \in RequestRecord
        BY <3>1 DEF Interrupted, RelayTypeOK, NotPosted
      <4> QED BY <1>11, <3>1, <4>1 DEF Restart, RequestRecord
    <3>2. CASE ~Interrupted(r)
      BY <1>11, <3>2 DEF Restart, RelayTypeOK
    <3> QED BY <3>1, <3>2
  <2>4. RelayTypeOK'
    BY <1>11, <2>3 DEF Restart, RelayTypeOK
  <2>5. restarts' \in 0 .. MaxRestarts
    BY <1>11, RestartsAssumption DEF Restart
  <2> QED BY <1>1, <2>1, <2>2, <2>4, <2>5
<1>12. CASE UNCHANGED vars
  BY <1>1, <1>2, <1>3, <1>4, <1>12 DEF vars
<1> QED BY <1>5, <1>6, <1>7, <1>8, <1>9, <1>10, <1>11, <1>12 DEF Next

(* The type of every variable, in every behaviour of the three services.    *)
THEOREM PipelineTyped == Spec => []TypeOK
<1>1. PipelineTypes => TypeOK
  BY DEF PipelineTypes, ChainOK, SweepsOK, PollsOK, TypeOK
<1> QED BY <1>1, TypesStart, TypesStep, PTL DEF Spec

-----------------------------------------------------------------------------
(* The verdicts.  A venue's resolution is final, so a verdict sent while it *)
(* was true is true when it is mined, however late that is.                 *)

LEMMA VenueKeeps ==
  ASSUME ChainOK, [Next]_vars, PipelineTypes, NEW d \in Duels, NEW c \in Cards,
         venue[d][c] # "open"
  PROVE  venue'[d][c] = venue[d][c]
<1>1. CASE ServiceMove(Senders) \/ BlockMove
  BY <1>1 DEF ServiceMove, Send, TakeReceipt, GiveUp, chainVars, BlockMove, Mine, Execute
<1>2. CASE ChainNext
  <2>1. ASSUME NEW e \in Duels, NEW b \in Cards, ResolveMarket(e, b)
        PROVE  venue'[d][c] = venue[d][c]
    BY <2>1 DEF ResolveMarket, ChainOK, ChainTypeOK
  <2>2. ASSUME NEW e \in Duels, CreateDuel(e) \/ JoinDuel(e) \/ RevealDeck(e) \/ RefundDuel(e)
        PROVE  venue'[d][c] = venue[d][c]
    BY <2>2 DEF CreateDuel, JoinDuel, RevealDeck, RefundDuel, SetStatus
  <2> QED BY <1>2, <2>1, <2>2 DEF ChainNext
<1> QED BY <1>1, <1>2, ChainMoves

LEMMA VerdictsStep ==
  ASSUME PipelineTypes, VerdictsInv, [Next]_vars
  PROVE  VerdictsInv'
<1>0. ChainOK
  BY DEF PipelineTypes
<1>1. ASSUME NEW tx \in mempool, tx.kind = "settleCard"
      PROVE  /\ tx \in SettleTxs
             /\ venue'[tx.duel][tx.card] = tx.verdict
  <2>1. tx \in SettleTxs
    BY <1>0, <1>1 DEF ChainOK, Txs, SettleTxs, FinalizeTxs, SwipeTxs
  <2>2. tx.duel \in Duels /\ tx.card \in Cards /\ tx.verdict # "open"
    BY <2>1, ChainAssumption DEF SettleTxs
  <2>3. venue[tx.duel][tx.card] = tx.verdict
    BY <1>1 DEF VerdictsInv, FromVenue
  <2> QED BY <1>0, <2>1, <2>2, <2>3, VenueKeeps
\* An orphan keeps its content.
<1>2. ASSUME NEW S \in SUBSET Senders, NEW tx \in Orphaned(S)
      PROVE  FromVenue(tx)'
  <2>1. PICK u \in mempool : tx = IF u.from \in S THEN [u EXCEPT !.from = Null] ELSE u
    BY DEF Orphaned
  <2>2. u \in SettleTxs \/ u \in FinalizeTxs \/ u \in SwipeTxs
    BY <1>0 DEF ChainOK, Txs
  <2>3. CASE u \in SettleTxs
    <3>1. /\ u.kind = "settleCard"
          /\ tx.duel = u.duel /\ tx.card = u.card /\ tx.verdict = u.verdict
      BY <2>1, <2>3 DEF SettleTxs
    <3> QED BY <1>1, <3>1 DEF FromVenue
  <2>4. CASE u \in FinalizeTxs \/ u \in SwipeTxs
    <3>1. tx.kind # "settleCard"
      BY <2>1, <2>4 DEF FinalizeTxs, SwipeTxs
    <3> QED BY <3>1 DEF FromVenue
  <2> QED BY <2>2, <2>3, <2>4
<1>3. ASSUME NEW tx \in mempool PROVE FromVenue(tx)'
  BY <1>1 DEF FromVenue
<1>4. \A tx \in mempool' : FromVenue(tx)'
  <2>1. CASE mempool' \subseteq mempool
    BY <1>3, <2>1
  <2>2. ASSUME NEW S \in SUBSET Senders, GiveUp(S) PROVE \A tx \in mempool' : FromVenue(tx)'
    BY <1>2, <2>2 DEF GiveUp
  <2>3. ASSUME NEW u \in Txs, FromVenue(u), Send(u) PROVE \A tx \in mempool' : FromVenue(tx)'
    <3>1. FromVenue(u)'
      BY <2>3 DEF FromVenue, Send
    <3> QED BY <1>3, <2>3, <3>1 DEF Send
  <2>4. CASE ServiceMove(Senders)
    BY <2>1, <2>2, <2>3, <2>4 DEF ServiceMove, TakeReceipt, chainVars
  <2>5. CASE BlockMove \/ ChainNext
    <3>1. mempool' \subseteq mempool
      BY <2>5 DEF BlockMove, Mine, Execute, ChainNext, CreateDuel, JoinDuel, RevealDeck, RefundDuel,
                  SetStatus, ResolveMarket
    <3> QED BY <2>1, <3>1
  <2> QED BY <2>4, <2>5, ChainMoves
<1>5. ASSUME NEW d \in Duels, NEW c \in Cards, chain'[d].outcome[c] # "open"
      PROVE  chain'[d].outcome[c] = venue'[d][c]
  <2>1. CASE chain[d].outcome[c] # "open"
    <3>1. venue[d][c] # "open" /\ chain[d].outcome[c] = venue[d][c]
      BY <2>1 DEF VerdictsInv, OutcomesAreTheVenues
    <3>2. venue'[d][c] = venue[d][c]
      BY <1>0, <3>1, VenueKeeps
    <3>3. chain'[d].outcome[c] = chain[d].outcome[c]
      BY <2>1, DuelsGrow DEF Grows
    <3> QED BY <3>1, <3>2, <3>3
  <2>2. CASE chain[d].outcome[c] = "open"
    <3>1. ASSUME chain' = chain PROVE FALSE
      BY <1>5, <2>2, <3>1
    <3>2. BlockMove
      <4>1. ~ServiceMove(Senders)
        BY <3>1 DEF ServiceMove, Send, TakeReceipt, GiveUp, chainVars
      <4>2. ASSUME NEW e \in Duels, NEW before \in ChainStatus, NEW after \in ChainStatus,
                   SetStatus(e, before, after)
            PROVE  FALSE
        <5>1. chain'[d].outcome = chain[d].outcome
          BY <1>0, <4>2 DEF SetStatus, ChainOK, ChainTypeOK, ChainDuel
        <5> QED BY <1>5, <2>2, <5>1
      <4>3. ASSUME NEW e \in Duels, RevealDeck(e) PROVE FALSE
        <5>1. chain'[d].outcome = chain[d].outcome
          BY <1>0, <4>3 DEF RevealDeck, ChainOK, ChainTypeOK, ChainDuel
        <5> QED BY <1>5, <2>2, <5>1
      <4>4. ASSUME NEW e \in Duels, CreateDuel(e) \/ JoinDuel(e) \/ RefundDuel(e) PROVE FALSE
        BY <4>2, <4>4 DEF CreateDuel, JoinDuel, RefundDuel, ChainStatus
      <4>5. ASSUME NEW e \in Duels, NEW b \in Cards, ResolveMarket(e, b) PROVE FALSE
        BY <3>1, <4>5 DEF ResolveMarket
      <4>6. ~ChainNext
        BY <4>3, <4>4, <4>5 DEF ChainNext
      <4> QED BY <4>1, <4>6, ChainMoves
    <3>3. PICK tx \in mempool : Mine(tx)
      BY <3>2 DEF BlockMove
    <3>4. Mined(tx)
      BY <1>0, <3>3, MinedKinds
    <3>5. ASSUME tx \in FinalizeTxs, chain' = [chain EXCEPT ![tx.duel].status = "Complete"]
          PROVE  FALSE
      <4>1. chain'[d].outcome = chain[d].outcome
        BY <1>0, <3>5 DEF ChainOK, ChainTypeOK, ChainDuel
      <4> QED BY <1>5, <2>2, <4>1
    <3>6. ASSUME tx \in SwipeTxs,
                 chain' = [chain EXCEPT ![tx.duel].swiped = @ \cup {<<tx.player, tx.card>>}]
          PROVE  FALSE
      <4>1. chain'[d].outcome = chain[d].outcome
        BY <1>0, <3>6 DEF ChainOK, ChainTypeOK, ChainDuel
      <4> QED BY <1>5, <2>2, <4>1
    <3>7. /\ tx \in SettleTxs
          /\ chain' = [chain EXCEPT ![tx.duel].outcome[tx.card] = tx.verdict]
      BY <3>1, <3>4, <3>5, <3>6 DEF Mined
    <3>8. tx.duel = d /\ tx.card = c /\ chain'[d].outcome[c] = tx.verdict
      <4>1. chain[d] \in ChainDuel /\ tx.duel \in Duels /\ tx.card \in Cards
        BY <1>0, <3>7 DEF ChainOK, ChainTypeOK, SettleTxs
      <4>2. tx.duel = d
        BY <1>0, <1>5, <2>2, <3>7 DEF ChainOK, ChainTypeOK
      <4>3. chain'[d] = [chain[d] EXCEPT !.outcome[tx.card] = tx.verdict]
        BY <1>0, <3>7, <4>2 DEF ChainOK, ChainTypeOK
      <4>4. chain'[d].outcome = [chain[d].outcome EXCEPT ![tx.card] = tx.verdict]
        BY <4>1, <4>3 DEF ChainDuel
      <4> QED BY <1>5, <2>2, <4>1, <4>2, <4>4 DEF ChainDuel
    <3>9. tx.kind = "settleCard"
      BY <3>7 DEF SettleTxs
    <3> QED BY <1>1, <3>8, <3>9
  <2> QED BY <2>1, <2>2
<1> QED BY <1>4, <1>5 DEF VerdictsInv, OutcomesAreTheVenues

(* However sweeps overlap, calls fail, the server restarts and transactions *)
(* are late, a card is settled on chain as the venue resolved its market.   *)
THEOREM OutcomesAreRight == Spec => []OutcomesAreTheVenues
<1>1. Init => VerdictsInv
  BY DEF Init, ChainInit, VerdictsInv, OutcomesAreTheVenues
<1>2. PipelineTypes /\ VerdictsInv /\ [Next]_vars => VerdictsInv'
  BY VerdictsStep
<1>3. VerdictsInv => OutcomesAreTheVenues
  BY DEF VerdictsInv
<1> QED BY <1>1, <1>2, <1>3, TypesStart, TypesStep, PTL DEF Spec

-----------------------------------------------------------------------------
(* The relayer.  Most steps leave each request with its receipt and its     *)
(* transaction, or end it: RelayKeeps.  The two that do not are the one     *)
(* that sends a swipe and the block that mines it.                          *)

LEMMA RequestTyped ==
  ASSUME RelayTypeOK, NEW r \in Requests, request[r].pc # "unposted"
  PROVE  request[r] \in RequestRecord
BY DEF RelayTypeOK, NotPosted

LEMMA LandedTyped ==
  ASSUME RelayTypeOK, NEW r \in Requests, Landed(r)
  PROVE  request[r] \in RequestRecord
BY RequestTyped DEF Landed

\* Request r keeps all it has; or it ends, ok only if its swipe had landed.
Stays(r) == request'[r] = request[r] /\ receipt'[r] = receipt[r]
Ends(r) ==
  /\ request'[r].pc # "relaying"
  /\ request'[r].pc = "ok" => Landed(r) /\ request'[r] = [request[r] EXCEPT !.pc = "ok"]
  /\ receipt'[r] = "none"
  /\ \A tx \in mempool' : tx.from # r

LEMMA RelayKeeps ==
  ASSUME PipelineTypes, RelayInv,
         \A d \in Duels : chain[d].swiped \subseteq chain'[d].swiped,
         \A p \in Players : nonces[p] <= nonces'[p] /\ nonces'[p] \in Nat,
         \A r \in Requests : Stays(r) \/ Ends(r),
         \A tx \in mempool' : tx.from \in Requests => tx \in mempool
  PROVE  RelayInv'
<1> USE DEF PipelineTypes
<1>1. ASSUME NEW tx \in mempool', NEW r \in Requests, tx.from = r
      PROVE  request'[r].pc = "relaying" /\ receipt'[r] = "none" /\ tx = SwipeOf(r)'
  <2>1. tx \in mempool /\ Stays(r)
    BY <1>1 DEF Ends
  <2>2. request[r].pc = "relaying" /\ receipt[r] = "none" /\ tx = SwipeOf(r)
    BY <1>1, <2>1 DEF RelayInv
  <2> QED BY <2>1, <2>2 DEF Stays, SwipeOf
<1>2. ASSUME NEW r \in Requests, receipt'[r] # "none" PROVE request'[r].pc = "relaying"
  BY <1>2 DEF RelayInv, Stays, Ends
<1>3. ASSUME NEW r \in Requests, Landed(r)'
      PROVE  /\ Landed(r) /\ request[r] \in RequestRecord
             /\ request'[r].player = request[r].player /\ request'[r].nonce = request[r].nonce
             /\ request'[r].card = request[r].card /\ request'[r].duel = request[r].duel
  <2>1. CASE Stays(r)
    <3>1. Landed(r)
      BY <1>3, <2>1 DEF Stays, Landed
    <3> QED BY <2>1, <3>1, LandedTyped DEF Stays
  <2>2. CASE Ends(r)
    <3>1. Landed(r) /\ request'[r] = [request[r] EXCEPT !.pc = "ok"]
      BY <1>3, <2>2 DEF Ends, Landed
    <3>2. request[r] \in RequestRecord
      BY <3>1, LandedTyped
    <3> QED BY <3>1, <3>2 DEF RequestRecord
  <2> QED BY <2>1, <2>2
<1>4. ASSUME NEW r \in Requests, Landed(r)'
      PROVE  /\ request'[r].player \in Players
             /\ request'[r].nonce < nonces'[request'[r].player]
             /\ <<request'[r].player, request'[r].card>> \in chain'[request'[r].duel].swiped
  <2>1. /\ request[r].player \in Players
        /\ request[r].nonce < nonces[request[r].player]
        /\ <<request[r].player, request[r].card>> \in chain[request[r].duel].swiped
    BY <1>3, <1>4 DEF RelayInv
  <2>2. request[r].duel \in Duels /\ request[r].nonce \in Nat
    BY <1>3, <1>4 DEF RequestRecord
  <2>3. nonces[request[r].player] \in Nat
    BY <2>1 DEF ChainOK, ChainTypeOK
  <2> QED BY <1>3, <1>4, <2>1, <2>2, <2>3
<1>5. ASSUME NEW r \in Requests, NEW o \in Requests, Landed(r)', Landed(o)', r # o
      PROVE  <<request'[r].player, request'[r].nonce>> # <<request'[o].player, request'[o].nonce>>
  BY <1>3, <1>5 DEF RelayInv
<1> QED BY <1>1, <1>2, <1>4, <1>5 DEF RelayInv

LEMMA OrphansWait ==
  ASSUME ChainOK, NEW S \in SUBSET Senders, NEW tx \in Orphaned(S), tx.from \in Senders
  PROVE  tx \in mempool /\ tx.from \notin S
<1>1. PICK u \in mempool : tx = IF u.from \in S THEN [u EXCEPT !.from = Null] ELSE u
  BY DEF Orphaned
<1>2. u \in SettleTxs \/ u \in FinalizeTxs \/ u \in SwipeTxs
  BY DEF ChainOK, Txs
<1>3. Null \notin Senders
  BY ChainAssumption DEF Senders
<1>4. CASE u.from \in S
  <2>1. tx.from = Null
    BY <1>1, <1>2, <1>4 DEF SettleTxs, FinalizeTxs, SwipeTxs
  <2> QED BY <1>3, <2>1
<1> QED BY <1>1, <1>4

\* A step in which no request moves, and no block is mined.
LEMMA OthersKeepRelay ==
  ASSUME PipelineTypes, RelayInv, [Next]_vars, request' = request,
         ServiceMove(Sweeps) \/ ChainNext
  PROVE  RelayInv'
<1>0. ChainOK /\ Sweeps \subseteq Senders /\ Sweeps \cap Requests = {}
  BY ChainAssumption DEF PipelineTypes, Senders
<1>1. \A d \in Duels : chain[d].swiped \subseteq chain'[d].swiped
  BY DuelsGrow DEF Grows
<1>2. \A p \in Players : nonces[p] <= nonces'[p] /\ nonces'[p] \in Nat
  <2>1. nonces' = nonces
    BY DEF ServiceMove, Send, TakeReceipt, GiveUp, chainVars, ChainNext, CreateDuel, JoinDuel,
           RevealDeck, RefundDuel, SetStatus, ResolveMarket
  <2> QED BY <1>0, <2>1 DEF ChainOK, ChainTypeOK
<1>3. \A r \in Requests : receipt'[r] = receipt[r]
  <2>1. ASSUME NEW s \in Sweeps, TakeReceipt(s) PROVE \A r \in Requests : receipt'[r] = receipt[r]
    BY <1>0, <2>1 DEF TakeReceipt, ChainOK, ChainTypeOK
  <2>2. ASSUME NEW T \in SUBSET Sweeps, GiveUp(T)
        PROVE  \A r \in Requests : receipt'[r] = receipt[r]
    BY <1>0, <2>2 DEF GiveUp, ChainOK, ChainTypeOK, Senders
  <2>3. CASE ChainNext
    BY <2>3 DEF ChainNext, CreateDuel, JoinDuel, RevealDeck, RefundDuel, SetStatus, ResolveMarket
  <2> QED BY <2>1, <2>2, <2>3 DEF ServiceMove, Send, chainVars
<1>4. \A tx \in mempool' : tx.from \in Requests => tx \in mempool
  <2>1. ASSUME NEW T \in SUBSET Sweeps, GiveUp(T)
        PROVE  \A tx \in mempool' : tx.from \in Requests => tx \in mempool
    BY <1>0, <2>1, OrphansWait DEF GiveUp, Senders
  <2>2. ASSUME NEW u \in Txs, u.from \in Sweeps, Send(u)
        PROVE  \A tx \in mempool' : tx.from \in Requests => tx \in mempool
    BY <1>0, <2>2 DEF Send
  <2>3. CASE ChainNext
    BY <2>3 DEF ChainNext, CreateDuel, JoinDuel, RevealDeck, RefundDuel, SetStatus, ResolveMarket
  <2> QED BY <2>1, <2>2, <2>3 DEF ServiceMove, TakeReceipt, chainVars
<1> QED BY <1>1, <1>2, <1>3, <1>4, RelayKeeps DEF Stays

LEMMA MiningKeepsRelay ==
  ASSUME PipelineTypes, RelayInv, request' = request, NEW tx \in mempool, Mine(tx)
  PROVE  RelayInv'
<1>0. /\ ChainOK /\ tx \in Txs /\ receipt \in [Senders -> {"none", "success", "reverted"}]
      /\ mempool' = mempool \ {tx}
  BY DEF PipelineTypes, ChainOK, ChainTypeOK, Mine, Execute
<1>1. \A d \in Duels : chain[d].swiped \subseteq chain'[d].swiped
  BY <1>0, MiningGrows DEF Grows
<1>2. \A p \in Players : nonces[p] \in Nat /\ nonces'[p] \in Nat /\ nonces[p] <= nonces'[p]
  <2>1. Mined(tx) /\ nonces \in [Players -> Nat]
    BY <1>0, MinedKinds DEF ChainOK, ChainTypeOK
  <2> QED BY <2>1 DEF Mined, SwipeTxs
<1>3. CASE tx.from \notin Requests
  <2>1. \A r \in Requests : receipt'[r] = receipt[r]
    BY <1>0, <1>3 DEF Mine, Execute, Senders
  <2> QED BY <1>0, <1>1, <1>2, <2>1, RelayKeeps DEF Stays
<1>4. ASSUME NEW r \in Requests, tx.from = r PROVE RelayInv'
  <2>1. /\ request[r].pc = "relaying" /\ receipt[r] = "none" /\ tx = SwipeOf(r)
        /\ \A u \in mempool : u.from = r => u = tx
    BY <1>4 DEF RelayInv
  <2>2. tx \in SwipeTxs
    BY <1>0, <1>4, ChainAssumption DEF Txs, SettleTxs, FinalizeTxs
  <2>3. /\ tx.player = request[r].player /\ tx.card = request[r].card
        /\ tx.duel = request[r].duel /\ tx.nonce = request[r].nonce
    BY <2>1 DEF SwipeOf, SwipeTx
  <2>4. /\ request[r].player \in Players /\ request[r].duel \in Duels
        /\ request[r].nonce \in Nat
    BY <2>2, <2>3 DEF SwipeTxs
  <2>5. \A o \in Requests : o # r => receipt'[o] = receipt[o]
    BY <1>0, <1>4, ChainAssumption DEF Mine, Execute, Senders
  <2>6. receipt'[r] = IF Executable(tx) THEN "success" ELSE "reverted"
    BY <1>0, <1>4, ChainAssumption DEF Mine, Execute, Senders
  <2>7. \A o \in Requests : o # r => (Landed(o)' <=> Landed(o))
    BY <2>5 DEF Landed
  <2>8. ASSUME Landed(r)'
        PROVE  /\ request[r].nonce = nonces[request[r].player]
               /\ nonces'[request[r].player] = request[r].nonce + 1
               /\ <<request[r].player, request[r].card>> \in chain'[request[r].duel].swiped
    <3>1. Executable(tx)
      BY <2>1, <2>6, <2>8 DEF Landed
    <3>2. /\ tx.nonce = nonces[tx.player]
          /\ chain' = [chain EXCEPT ![tx.duel].swiped = @ \cup {<<tx.player, tx.card>>}]
          /\ nonces' = [nonces EXCEPT ![tx.player] = @ + 1]
      BY <2>2, <3>1, SwipeExecuted DEF Mine, Execute
    <3>3. nonces'[request[r].player] = request[r].nonce + 1
      BY <1>0, <2>3, <2>4, <3>2 DEF ChainOK, ChainTypeOK
    <3>4. chain'[request[r].duel].swiped
            = chain[request[r].duel].swiped \cup {<<request[r].player, request[r].card>>}
      BY <1>0, <2>3, <2>4, <3>2 DEF ChainOK, ChainTypeOK, ChainDuel
    <3> QED BY <2>3, <3>2, <3>3, <3>4
  <2>9. ASSUME NEW o \in Requests, o # r, Landed(o)
        PROVE  /\ request[o].player \in Players /\ request[o].nonce \in Nat
               /\ request[o].nonce < nonces[request[o].player]
               /\ request[o].nonce < nonces'[request[o].player]
               /\ <<request[o].player, request[o].card>> \in chain'[request[o].duel].swiped
    <3>1. /\ request[o].player \in Players
          /\ request[o].nonce < nonces[request[o].player]
          /\ <<request[o].player, request[o].card>> \in chain[request[o].duel].swiped
      BY <2>9 DEF RelayInv
    <3>2. request[o].duel \in Duels /\ request[o].nonce \in Nat
      BY <2>9, LandedTyped DEF PipelineTypes, RequestRecord
    <3> QED BY <1>1, <1>2, <3>1, <3>2
  <2>10. ASSUME NEW u \in mempool', NEW o \in Requests, u.from = o
         PROVE  request'[o].pc = "relaying" /\ receipt'[o] = "none" /\ u = SwipeOf(o)'
    <3>1. u \in mempool /\ o # r
      BY <1>0, <2>1, <2>10
    <3>2. request[o].pc = "relaying" /\ receipt[o] = "none" /\ u = SwipeOf(o)
      BY <2>10, <3>1 DEF RelayInv
    <3> QED BY <2>5, <3>1, <3>2 DEF SwipeOf
  <2>11. \A o \in Requests : receipt'[o] # "none" => request'[o].pc = "relaying"
    BY <2>1, <2>5 DEF RelayInv
  <2>12. ASSUME NEW o \in Requests, Landed(o)'
         PROVE  /\ request'[o].player \in Players
                /\ request'[o].nonce < nonces'[request'[o].player]
                /\ <<request'[o].player, request'[o].card>> \in chain'[request'[o].duel].swiped
    BY <2>4, <2>7, <2>8, <2>9, <2>12
  <2>13. ASSUME NEW o \in Requests, o # r, Landed(o)', Landed(r)'
         PROVE  <<request'[r].player, request'[r].nonce>> # <<request'[o].player, request'[o].nonce>>
    <3>1. request[o].nonce < nonces[request[o].player] /\ request[o].nonce \in Nat
      BY <2>7, <2>9, <2>13
    <3>2. request[r].nonce = nonces[request[r].player] /\ request[r].nonce \in Nat
      BY <2>4, <2>8, <2>13
    <3>3. ~(request[r].player = request[o].player /\ request[r].nonce = request[o].nonce)
      BY <3>1, <3>2
    <3> QED BY <3>3
  <2>14. ASSUME NEW o \in Requests, NEW p \in Requests, o # p, Landed(o)', Landed(p)'
         PROVE  <<request'[p].player, request'[p].nonce>> # <<request'[o].player, request'[o].nonce>>
    <3>1. CASE o # r /\ p # r
      BY <2>7, <2>14, <3>1 DEF RelayInv
    <3> QED BY <2>13, <2>14, <3>1
  <2> QED BY <2>10, <2>11, <2>12, <2>14 DEF RelayInv
<1> QED BY <1>3, <1>4

LEMMA RequestKeepsRelay ==
  ASSUME PipelineTypes, RelayInv, NEW r \in Requests,
         PostSwipe(r) \/ RefuseExpired(r) \/ Preflight(r) \/ SwipeMined(r) \/ RelayFails(r)
  PROVE  RelayInv'
<1>0. /\ ChainOK /\ RelayTypeOK /\ r \in Senders
      /\ nonces \in [Players -> Nat] /\ receipt \in [Senders -> {"none", "success", "reverted"}]
      /\ Requests \subseteq Senders
  BY DEF PipelineTypes, ChainOK, ChainTypeOK, Senders
<1>1. chain' = chain /\ nonces' = nonces
  BY DEF PostSwipe, RefuseExpired, Preflight, SwipeMined, RelayFails, Send, TakeReceipt, GiveUp,
         chainVars
<1>2. /\ \A d \in Duels : chain[d].swiped \subseteq chain'[d].swiped
      /\ \A p \in Players : nonces[p] <= nonces'[p] /\ nonces'[p] \in Nat
  BY <1>0, <1>1
<1>3. ASSUME receipt[r] = "none", UNCHANGED chainVars,
             request'[r].pc \notin {"ok", "relaying"},
             \A o \in Requests : o # r => request'[o] = request[o],
             request[r].pc # "relaying"
      PROVE  RelayInv'
  <2>1. receipt' = receipt /\ mempool' = mempool
    BY <1>3 DEF chainVars
  <2>2. \A tx \in mempool : tx.from # r
    BY <1>3 DEF RelayInv
  <2>3. \A o \in Requests : Stays(o) \/ Ends(o)
    BY <1>3, <2>1, <2>2 DEF Stays, Ends
  <2> QED BY <1>2, <2>1, <2>3, RelayKeeps
<1>4. ASSUME request[r].pc # "relaying" PROVE receipt[r] = "none"
  BY <1>4 DEF RelayInv
<1>5. CASE PostSwipe(r)
  <2>1. request[r].pc = "unposted" /\ UNCHANGED chainVars
    BY <1>5 DEF PostSwipe, NotPosted
  <2>2. /\ request'[r].pc = "checking"
        /\ \A o \in Requests : o # r => request'[o] = request[o]
    BY <1>0, <1>5 DEF PostSwipe, RelayTypeOK
  <2> QED BY <1>3, <1>4, <2>1, <2>2
<1>6. ASSUME NEW to, Reply(r, to), request[r].pc # "unposted"
      PROVE  /\ request[r] \in RequestRecord
             /\ request'[r] = [request[r] EXCEPT !.pc = to]
             /\ request'[r].pc = to
             /\ \A o \in Requests : o # r => request'[o] = request[o]
  <2>1. request[r] \in RequestRecord
    BY <1>0, <1>6, RequestTyped
  <2>2. /\ request'[r] = [request[r] EXCEPT !.pc = to]
        /\ \A o \in Requests : o # r => request'[o] = request[o]
    BY <1>0, <1>6 DEF Reply, RelayTypeOK
  <2> QED BY <2>1, <2>2 DEF RequestRecord
<1>7. CASE RefuseExpired(r)
  <2>1. request[r].pc = "checking" /\ Reply(r, "expired") /\ UNCHANGED chainVars
    BY <1>7 DEF RefuseExpired
  <2>2. /\ request'[r].pc = "expired"
        /\ \A o \in Requests : o # r => request'[o] = request[o]
    BY <1>6, <2>1
  <2> QED BY <1>3, <1>4, <2>1, <2>2
<1>8. CASE Preflight(r)
  <2>1. request[r].pc = "checking"
    BY <1>8 DEF Preflight
  <2>2. ASSUME NEW to \in {"conflict", "forbidden", "failed"}, Reply(r, to), UNCHANGED chainVars
        PROVE  RelayInv'
    <3>1. request'[r].pc = to /\ \A o \in Requests : o # r => request'[o] = request[o]
      BY <1>6, <2>1, <2>2
    <3> QED BY <1>3, <1>4, <2>1, <2>2, <3>1
  <2>3. ASSUME Reply(r, "relaying"), Send(SwipeOf(r)) PROVE RelayInv'
    <3>1. /\ request[r] \in RequestRecord
          /\ request'[r] = [request[r] EXCEPT !.pc = "relaying"]
          /\ request'[r].pc = "relaying"
          /\ \A o \in Requests : o # r => request'[o] = request[o]
      BY <1>6, <2>1, <2>3
    <3>2. receipt[r] = "none" /\ receipt' = receipt /\ mempool' = mempool \cup {SwipeOf(r)}
      BY <1>4, <2>1, <2>3 DEF Send
    <3>3. SwipeOf(r)' = SwipeOf(r)
      <4>1. /\ request'[r].duel = request[r].duel /\ request'[r].player = request[r].player
            /\ request'[r].card = request[r].card /\ request'[r].nonce = request[r].nonce
        BY <3>1 DEF RequestRecord
      <4> QED BY <4>1 DEF SwipeOf
    <3>4. ASSUME NEW tx \in mempool', NEW o \in Requests, tx.from = o
          PROVE  request'[o].pc = "relaying" /\ receipt'[o] = "none" /\ tx = SwipeOf(o)'
      <4>1. CASE o = r
        <5>1. tx \notin mempool
          BY <2>1, <3>4, <4>1 DEF RelayInv
        <5> QED BY <3>1, <3>2, <3>3, <3>4, <4>1, <5>1
      <4>2. CASE o # r
        <5>1. tx \in mempool
          BY <3>2, <3>4, <4>2 DEF SwipeOf, SwipeTx
        <5>2. request[o].pc = "relaying" /\ receipt[o] = "none" /\ tx = SwipeOf(o)
          BY <3>4, <5>1 DEF RelayInv
        <5> QED BY <3>1, <3>2, <4>2, <5>2 DEF SwipeOf
      <4> QED BY <4>1, <4>2
    <3>5. \A o \in Requests : receipt'[o] # "none" => request'[o].pc = "relaying"
      BY <3>1, <3>2 DEF RelayInv
    <3>6. ~Landed(r)' /\ \A o \in Requests : o # r => (Landed(o)' <=> Landed(o))
      BY <3>1, <3>2 DEF Landed
    <3>7. ASSUME NEW o \in Requests, Landed(o)'
          PROVE  /\ request'[o].player \in Players
                 /\ request'[o].nonce < nonces'[request'[o].player]
                 /\ <<request'[o].player, request'[o].card>> \in chain'[request'[o].duel].swiped
      BY <1>1, <3>1, <3>6, <3>7 DEF RelayInv
    <3>8. ASSUME NEW o \in Requests, NEW p \in Requests, o # p, Landed(o)', Landed(p)'
          PROVE  <<request'[o].player, request'[o].nonce>> # <<request'[p].player, request'[p].nonce>>
      BY <3>1, <3>6, <3>8 DEF RelayInv
    <3> QED BY <3>4, <3>5, <3>7, <3>8 DEF RelayInv
  <2> QED BY <1>8, <2>2, <2>3 DEF Preflight
<1>9. CASE SwipeMined(r)
  <2>1. /\ request[r].pc = "relaying" /\ receipt[r] # "none" /\ mempool' = mempool
        /\ receipt' = [receipt EXCEPT ![r] = "none"] /\ Reply(r, Answer(r))
    BY <1>9 DEF SwipeMined, TakeReceipt
  <2>2. /\ request'[r] = [request[r] EXCEPT !.pc = Answer(r)]
        /\ request'[r].pc = Answer(r)
        /\ \A o \in Requests : o # r => request'[o] = request[o]
    BY <1>6, <2>1
  <2>3. Answer(r) \in {"ok", "failed"} /\ (Answer(r) = "ok" => receipt[r] = "success")
    BY DEF Answer
  <2>4. \A tx \in mempool : tx.from # r
    BY <2>1 DEF RelayInv
  <2>5. Ends(r)
    BY <1>0, <2>1, <2>2, <2>3, <2>4 DEF Ends, Landed
  <2>6. \A o \in Requests : o # r => Stays(o)
    BY <1>0, <2>1, <2>2 DEF Stays
  <2> QED BY <1>2, <2>1, <2>5, <2>6, RelayKeeps
<1>10. CASE RelayFails(r)
  <2>1. request[r].pc # "unposted" /\ Reply(r, "failed") /\ GiveUp({r})
    BY <1>10 DEF RelayFails
  <2>2. request'[r].pc = "failed" /\ \A o \in Requests : o # r => request'[o] = request[o]
    BY <1>6, <2>1
  <2>3. mempool' = Orphaned({r}) /\ {r} \in SUBSET Senders
    BY <1>0, <2>1 DEF GiveUp
  <2>4. \A tx \in mempool' : tx.from \in Requests => tx \in mempool /\ tx.from # r
    BY <1>0, <2>3, OrphansWait
  <2>5. \A o \in Requests : receipt'[o] = IF o = r THEN "none" ELSE receipt[o]
    BY <1>0, <2>1 DEF GiveUp
  <2>6. Ends(r)
    BY <2>2, <2>4, <2>5 DEF Ends
  <2>7. \A o \in Requests : o # r => Stays(o)
    BY <2>2, <2>5 DEF Stays
  <2> QED BY <1>2, <2>4, <2>6, <2>7, RelayKeeps
<1> QED BY <1>5, <1>7, <1>8, <1>9, <1>10

LEMMA RestartKeepsRelay ==
  ASSUME PipelineTypes, RelayInv, Restart
  PROVE  RelayInv'
<1>0. ChainOK /\ RelayTypeOK /\ Requests \subseteq Senders
  BY DEF PipelineTypes, Senders
<1>1. /\ \A d \in Duels : chain[d].swiped \subseteq chain'[d].swiped
      /\ \A p \in Players : nonces[p] <= nonces'[p] /\ nonces'[p] \in Nat
  BY <1>0 DEF Restart, GiveUp, ChainOK, ChainTypeOK
<1>2. \A tx \in mempool' : tx.from \notin Senders
  <2>1. mempool' = Orphaned(Senders)
    BY DEF Restart, GiveUp
  <2> QED BY <1>0, <2>1, OrphansWait
<1>3. ASSUME NEW r \in Requests PROVE Ends(r)
  <2>1. receipt'[r] = "none" /\ \A tx \in mempool' : tx.from # r
    BY <1>0, <1>2 DEF Restart, GiveUp
  <2>2. request'[r] = IF Interrupted(r) THEN [request[r] EXCEPT !.pc = "failed"] ELSE request[r]
    BY DEF Restart
  <2>3. CASE Interrupted(r)
    <3>1. request[r] \in RequestRecord
      BY <1>0, <2>3, RequestTyped DEF Interrupted
    <3>2. request'[r].pc = "failed"
      BY <2>2, <2>3, <3>1 DEF RequestRecord
    <3> QED BY <2>1, <3>2 DEF Ends
  <2>4. CASE ~Interrupted(r)
    <3>1. request[r].pc # "relaying" /\ request'[r] = request[r]
      BY <2>2, <2>4 DEF Interrupted
    <3>2. ASSUME request[r].pc = "ok" PROVE request[r] = [request[r] EXCEPT !.pc = "ok"]
      <4>1. request[r] \in RequestRecord
        BY <1>0, <3>2, RequestTyped
      <4> QED BY <3>2, <4>1 DEF RequestRecord
    <3> QED BY <2>1, <3>1, <3>2 DEF Ends, Landed
  <2> QED BY <2>3, <2>4
<1> QED BY <1>0, <1>1, <1>2, <1>3, RelayKeeps

LEMMA RelayStep ==
  ASSUME PipelineTypes, RelayInv, [Next]_vars
  PROVE  RelayInv'
<1>1. CASE ChainNext /\ UNCHANGED request
  BY <1>1, OthersKeepRelay
<1>2. ASSUME NEW f \in Senders \cup {Null}, Mining(f) PROVE RelayInv'
  BY <1>2, MiningKeepsRelay DEF Mining
<1>3. ASSUME NEW s \in Sweeps, Sweeping(s) \/ RpcFails(s), UNCHANGED request PROVE RelayInv'
  <2>1. ServiceMove(Sweeps)
    BY <1>3, SweepMoves DEF Sweeping
  <2> QED BY <1>3, <2>1, OthersKeepRelay
<1>4. CASE UNCHANGED chainVars /\ UNCHANGED request
  <2>1. ServiceMove(Sweeps)
    BY <1>4 DEF ServiceMove
  <2> QED BY <1>4, <2>1, OthersKeepRelay
<1>5. ASSUME NEW d \in Duels, Backfilling(d) PROVE RelayInv'
  BY <1>4, <1>5 DEF Backfilling, BackfillLog
<1>6. ASSUME NEW q \in Polls, Polling(q) \/ PollFails(q), UNCHANGED request PROVE RelayInv'
  BY <1>4, <1>6, PollMoves DEF Polling
<1>7. CASE RelayNext
  BY <1>7, RequestKeepsRelay DEF RelayNext
<1>8. CASE Restart
  BY <1>8, RestartKeepsRelay
<1>9. CASE UNCHANGED vars
  BY <1>4, <1>9 DEF vars
<1>10. \A s \in Sweeps : Sweeping(s) => UNCHANGED request
  BY DEF Sweeping
<1>11. \A q \in Polls : Polling(q) => UNCHANGED request
  BY DEF Polling
<1> QED BY <1>1, <1>2, <1>3, <1>5, <1>6, <1>7, <1>8, <1>9, <1>10, <1>11 DEF Next

(* Whatever is submitted twice, lost, late or restarted, a reply of ok      *)
(* stands for a swipe on chain, and one signed nonce gets one such reply.   *)
THEOREM RepliesAreTrue == Spec => []RelayedOnce
<1>1. Init => RelayInv
  BY DEF Init, ChainInit, RelayInit, NotPosted, RelayInv, Landed, Senders
<1>2. PipelineTypes /\ RelayInv /\ [Next]_vars => RelayInv'
  BY RelayStep
<1>3. RelayInv => RelayedOnce
  BY DEF RelayInv, RelayedOnce, Relayed, Landed
<1> QED BY <1>1, <1>2, <1>3, TypesStart, TypesStep, PTL DEF Spec

-----------------------------------------------------------------------------
(* The mirror.  What a run has read of a duel stays behind the duel as it   *)
(* grows, so what it writes is behind too, whenever it writes it.           *)

LEMMA BehindStays ==
  ASSUME NEW k \in ChainDuel, NEW k2 \in ChainDuel, Grows(k, k2),
         NEW v, v.status \in ChainStatus, v.settledCount \in 0 .. DeckSize, Behind(v, k)
  PROVE  Behind(v, k2)
<1>0. k.status \in ChainStatus /\ k2.status \in ChainStatus /\ DeckSize \in Nat
  BY ChainAssumption DEF ChainDuel
<1>1. Rank(v.status) <= Rank(k2.status)
  <2>1. Rank(v.status) \in Nat /\ Rank(k.status) \in Nat /\ Rank(k2.status) \in Nat
    BY <1>0, RankTop
  <2> QED BY <2>1 DEF Behind, Grows
<1>2. Cardinality(SettledCards(k)) <= Cardinality(SettledCards(k2))
  <2>1. SettledCards(k) \subseteq SettledCards(k2)
    BY DEF SettledCards, Grows
  <2>2. IsFiniteSet(SettledCards(k2))
    BY SettledCount
  <2> QED BY <2>1, <2>2, FS_Subset
<1>3. v.settledCount <= Cardinality(SettledCards(k2))
  <2>1. /\ Cardinality(SettledCards(k)) \in 0 .. DeckSize
        /\ Cardinality(SettledCards(k2)) \in 0 .. DeckSize
    BY SettledCount
  <2>2. v.settledCount <= Cardinality(SettledCards(k))
    BY DEF Behind
  <2> QED BY <1>0, <1>2, <2>1, <2>2
<1>4. ASSUME v.status = "Complete"
      PROVE  v.settledCount = Cardinality(SettledCards(k2)) /\ v.revealed = k2.revealed
  <2>1. k.status = "Complete"
    <3>1. Rank(k.status) >= 3
      BY <1>0, <1>4, RankValues DEF Behind
    <3> QED BY <1>0, <3>1, RankTop
  <2>2. k2.outcome = k.outcome /\ k2.revealed = k.revealed
    BY <2>1 DEF Grows
  <2>3. SettledCards(k2) = SettledCards(k)
    BY <2>2 DEF SettledCards
  <2> QED BY <1>4, <2>2, <2>3 DEF Behind
<1> QED BY <1>1, <1>3, <1>4 DEF Behind

\* What is read is the duel as it is.
LEMMA ReadIsBehind ==
  ASSUME ChainOK, NEW d \in Duels
  PROVE  Behind(View(d), chain[d])
<1>1. chain[d].status \in ChainStatus
  BY DEF ChainOK, ChainTypeOK, ChainDuel
<1>2. Rank(chain[d].status) \in Nat
  BY <1>1, RankTop
<1>3. Cardinality(SettledCards(chain[d])) \in 0 .. DeckSize
  BY SettledCount
<1>4. /\ View(d).status = chain[d].status /\ View(d).revealed = chain[d].revealed
      /\ View(d).settledCount = Cardinality(SettledCards(chain[d]))
  BY ViewTyped
<1> QED BY <1>2, <1>3, <1>4, ChainAssumption DEF Behind

\* A read or a row of the last state, seen in the next.
LEMMA ReadStays ==
  ASSUME PipelineTypes, [Next]_vars, NEW d \in Duels, NEW v \in RawRead \cup Row,
         Behind(v, chain[d])
  PROVE  Behind(v, chain'[d])
<1>1. chain[d] \in ChainDuel
  BY DEF PipelineTypes, ChainOK, ChainTypeOK
<1>2. chain'[d] \in ChainDuel
  BY ChainStep DEF ChainOK, ChainTypeOK
<1>3. v.status \in ChainStatus /\ v.settledCount \in 0 .. DeckSize
  BY DEF RawRead, Row
<1> QED BY <1>1, <1>2, <1>3, DuelsGrow, BehindStays

\* A run whose read, and a row, of the next state were there before.
OldRead(q) == poll'[q].pc = "reading" /\ poll'[q].raw # Null =>
                /\ poll[q].pc = "reading"
                /\ poll'[q].raw = poll[q].raw /\ poll'[q].duel = poll[q].duel

LEMMA MirrorKeeps ==
  ASSUME PipelineTypes, [Next]_vars, MirrorInv
  PROVE  /\ \A q \in Polls : OldRead(q) =>
              (poll'[q].pc = "reading" /\ poll'[q].raw # Null =>
                 Behind(poll'[q].raw, chain'[poll'[q].duel]))
         /\ \A d \in Duels : row'[d] = row[d] =>
              (row'[d] # Null => row'[d].status # "None" /\ Behind(row'[d], chain'[d]))
<1>1. ASSUME NEW q \in Polls, OldRead(q), poll'[q].pc = "reading", poll'[q].raw # Null
      PROVE  Behind(poll'[q].raw, chain'[poll'[q].duel])
  <2>1. /\ poll[q].pc = "reading" /\ poll[q].raw # Null
        /\ poll'[q].raw = poll[q].raw /\ poll'[q].duel = poll[q].duel
    BY <1>1 DEF OldRead
  <2>2. poll[q].duel \in Duels /\ poll[q].raw \in RawRead
    BY <2>1, PollsEach DEF PipelineTypes, PollOK, PollRecord
  <2>3. Behind(poll[q].raw, chain[poll[q].duel])
    BY <2>1 DEF MirrorInv
  <2>4. Behind(poll[q].raw, chain'[poll[q].duel])
    BY <2>2, <2>3, ReadStays
  <2> QED BY <2>1, <2>4
<1>2. ASSUME NEW d \in Duels, row'[d] = row[d], row'[d] # Null
      PROVE  row'[d].status # "None" /\ Behind(row'[d], chain'[d])
  <2>1. row[d] \in Row
    BY <1>2, PollsEach DEF PipelineTypes
  <2>2. row[d].status # "None" /\ Behind(row[d], chain[d])
    BY <1>2 DEF MirrorInv
  <2>3. Behind(row[d], chain'[d])
    BY <2>1, <2>2, ReadStays
  <2> QED BY <1>2, <2>2, <2>3
<1> QED BY <1>1, <1>2

LEMMA MirrorHolds ==
  ASSUME \A q \in Polls : poll'[q].pc = "reading" /\ poll'[q].raw # Null =>
           Behind(poll'[q].raw, chain'[poll'[q].duel]),
         \A d \in Duels : row'[d] # Null =>
           row'[d].status # "None" /\ Behind(row'[d], chain'[d])
  PROVE  MirrorInv'
BY DEF MirrorInv, Behind, SettledCards

\* A step of one run, which neither reads getDuel nor writes a row.
LEMMA PollMovesOn ==
  ASSUME PipelineTypes, [Next]_vars, MirrorInv, NEW q \in Polls, row' = row,
         \A p \in Polls : p # q => poll'[p] = poll[p], OldRead(q)
  PROVE  MirrorInv'
<1>1. \A p \in Polls : OldRead(p)
  BY DEF OldRead
<1> QED BY <1>1, MirrorKeeps, MirrorHolds

LEMMA PollKeepsMirror ==
  ASSUME PipelineTypes, [Next]_vars, MirrorInv, NEW q \in Polls,
         StartPoll(q) \/ PollStep(q) \/ PollFails(q)
  PROVE  MirrorInv'
<1>0. ChainOK /\ PollsOK /\ poll \in [Polls -> PollRecord] /\ PollOK(poll[q])
  BY PollsEach DEF PipelineTypes
<1>1. ASSUME NEW to, Move(q, to)
      PROVE  poll'[q] = to /\ \A p \in Polls : p # q => poll'[p] = poll[p]
  BY <1>0, <1>1 DEF Move
<1>2. ASSUME NEW to, PollOK(to), to.pc \in {"idle", "loop", "publishing"}, Move(q, to), row' = row
      PROVE  MirrorInv'
  BY <1>1, <1>2, PollMovesOn DEF OldRead
<1>3. CASE StartPoll(q)
  <2> DEFINE to == [IdlePoll EXCEPT !.pc = "loop", !.todo = mirrored]
  <2>1. to.pc = "loop" /\ PollOK(to)
    BY <1>0, PollLocals, PollsEach DEF IdlePoll
  <2>2. Move(q, to) /\ row' = row
    BY <1>3 DEF StartPoll
  <2> HIDE DEF to
  <2> QED BY <1>2, <2>1, <2>2
<1>4. ASSUME Move(q, IdlePoll) \/ Move(q, NextOf(q)), row' = row PROVE MirrorInv'
  <2>1. PollOK(IdlePoll) /\ PollOK(NextOf(q)) /\ IdlePoll.pc = "idle" /\ NextOf(q).pc = "loop"
    BY <1>0, PollLocals DEF IdlePoll, NextOf
  <2> QED BY <1>2, <1>4, <2>1
<1>5. CASE PollNext(q)
  <2>1. ASSUME NEW d \in poll[q].todo,
               Move(q, [poll[q] EXCEPT !.pc = "reading", !.todo = @ \ {d}, !.duel = d])
        PROVE  MirrorInv'
    <3>1. poll[q].raw = Null
      BY <1>0, <1>5 DEF PollNext, PollOK
    <3>2. [poll[q] EXCEPT !.pc = "reading", !.todo = @ \ {d}, !.duel = d].raw = Null
      BY <1>0, <3>1 DEF PollRecord
    <3>3. poll'[q].raw = Null /\ \A p \in Polls : p # q => poll'[p] = poll[p]
      BY <1>1, <2>1, <3>2
    <3> QED BY <1>5, <3>3, PollMovesOn DEF PollNext, OldRead
  <2> QED BY <1>4, <1>5, <2>1 DEF PollNext
<1>6. CASE ReadRaw(q)
  <2>1. /\ poll[q].pc = "reading" /\ poll[q].duel \in Duels /\ poll[q] \in PollRecord
        /\ row' = row /\ chain' = chain
    BY <1>0, <1>6 DEF ReadRaw, PollOK, chainVars
  <2>2. /\ poll'[q] = [poll[q] EXCEPT !.raw = View(poll[q].duel)]
        /\ \A p \in Polls : p # q => poll'[p] = poll[p]
    BY <1>1, <1>6 DEF ReadRaw
  <2>3. poll'[q].raw = View(poll[q].duel) /\ poll'[q].duel = poll[q].duel
    BY <2>1, <2>2 DEF PollRecord
  <2>4. Behind(poll'[q].raw, chain'[poll'[q].duel])
    BY <1>0, <2>1, <2>3, ReadIsBehind
  <2>5. \A p \in Polls : p # q => OldRead(p)
    BY <2>2 DEF OldRead
  <2> QED BY <2>1, <2>4, <2>5, MirrorKeeps, MirrorHolds
<1>7. CASE ReadDeck(q)
  <2>1. /\ poll'[q] = [poll[q] EXCEPT !.deck = DeckView(poll[q].duel)]
        /\ \A p \in Polls : p # q => poll'[p] = poll[p]
        /\ row' = row /\ poll[q].pc = "reading" /\ poll[q] \in PollRecord
    BY <1>0, <1>1, <1>7 DEF ReadDeck, PollOK
  <2>2. poll'[q].raw = poll[q].raw /\ poll'[q].duel = poll[q].duel
    BY <2>1 DEF PollRecord
  <2> QED BY <2>1, <2>2, PollMovesOn DEF OldRead
<1>8. CASE UpsertDuel(q)
  <2>1. CASE Exists(q)
    <3>1. /\ poll[q].pc = "reading" /\ poll[q].raw # Null
          /\ poll[q].duel \in Duels /\ poll[q] \in PollRecord
      BY <1>0, <1>8 DEF UpsertDuel, HasRead, PollOK
    <3>2. poll[q].raw \in RawRead
      BY <3>1 DEF PollRecord
    <3>3. /\ row' = [row EXCEPT ![poll[q].duel] = RowOf(q)]
          /\ Move(q, [poll[q] EXCEPT !.pc = "publishing"])
          /\ row \in [Duels -> Row \cup {Null}]
      BY <1>0, <1>8, <2>1, PollsEach DEF UpsertDuel
    <3>4. /\ poll'[q].pc = "publishing"
          /\ \A p \in Polls : p # q => poll'[p] = poll[p]
      BY <1>1, <3>1, <3>3 DEF PollRecord
    <3>5. Behind(poll[q].raw, chain[poll[q].duel])
      BY <3>1 DEF MirrorInv
    <3>6. Behind(poll[q].raw, chain'[poll[q].duel])
      BY <3>1, <3>2, <3>5, ReadStays
    <3>7. /\ RowOf(q).status = poll[q].raw.status /\ RowOf(q).revealed = poll[q].raw.revealed
          /\ RowOf(q).settledCount = poll[q].raw.settledCount
      BY DEF RowOf
    <3>8. RowOf(q).status # "None" /\ Behind(RowOf(q), chain'[poll[q].duel])
      BY <2>1, <3>6, <3>7 DEF Behind, Exists
    <3>9. ASSUME NEW d \in Duels, row'[d] # Null
          PROVE  row'[d].status # "None" /\ Behind(row'[d], chain'[d])
      <4>1. CASE d = poll[q].duel
        BY <3>1, <3>3, <3>8, <4>1
      <4>2. CASE d # poll[q].duel
        <5>1. row'[d] = row[d]
          BY <3>3, <4>2
        <5> QED BY <3>9, <5>1, MirrorKeeps
      <4> QED BY <4>1, <4>2
    <3>10. \A p \in Polls : OldRead(p)
      BY <3>4 DEF OldRead
    <3> QED BY <3>9, <3>10, MirrorKeeps, MirrorHolds
  <2>2. CASE ~Exists(q)
    BY <1>4, <1>8, <2>2 DEF UpsertDuel
  <2> QED BY <2>1, <2>2
<1>9. CASE PublishDuel(q) \/ PollFails(q)
  BY <1>4, <1>9 DEF PublishDuel, PollFails
<1> QED BY <1>3, <1>5, <1>6, <1>7, <1>8, <1>9 DEF PollStep

LEMMA MirrorStep ==
  ASSUME PipelineTypes, [Next]_vars, MirrorInv
  PROVE  MirrorInv'
<1>1. ASSUME poll' = poll, row' = row PROVE MirrorInv'
  <2>1. \A q \in Polls : OldRead(q)
    BY <1>1 DEF OldRead
  <2> QED BY <1>1, <2>1, MirrorKeeps, MirrorHolds
<1>2. CASE ChainNext /\ UNCHANGED indexerVars
  BY <1>1, <1>2 DEF indexerVars
<1>3. ASSUME NEW f \in Senders \cup {Null}, Mining(f) PROVE MirrorInv'
  BY <1>1, <1>3 DEF Mining, indexerVars
<1>4. ASSUME NEW s \in Sweeps, Sweeping(s) \/ (RpcFails(s) /\ UNCHANGED indexerVars)
      PROVE  MirrorInv'
  BY <1>1, <1>4 DEF Sweeping, indexerVars
<1>5. ASSUME NEW d \in Duels, Backfilling(d) PROVE MirrorInv'
  BY <1>1, <1>5 DEF Backfilling, BackfillLog
<1>6. ASSUME NEW q \in Polls, Polling(q) \/ PollFails(q) PROVE MirrorInv'
  BY <1>6, PollKeepsMirror DEF Polling
<1>7. CASE RelayNext
  <2>1. UNCHANGED indexerVars
    BY <1>7 DEF RelayNext, PostSwipe, RefuseExpired, Preflight, SwipeMined, RelayFails
  <2> QED BY <1>1, <2>1 DEF indexerVars
<1>8. CASE Restart
  <2>1. row' = row /\ \A q \in Polls : poll'[q].pc = "idle"
    BY <1>8 DEF Restart, IdlePoll
  <2> QED BY <2>1, MirrorKeeps, MirrorHolds
<1>9. CASE UNCHANGED vars
  BY <1>1, <1>9 DEF vars, indexerVars
<1> QED BY <1>2, <1>3, <1>4, <1>5, <1>6, <1>7, <1>8, <1>9 DEF Next

(* In whatever order overlapping runs read and write, a row of the mirror   *)
(* never runs ahead of its duel, and a COMPLETE row holds its final state.  *)
THEOREM MirrorIsBehind == Spec => []MirrorNeverAhead
<1>1. Init => MirrorInv
  BY DEF Init, IndexerInit, IdlePoll, MirrorInv
<1>2. PipelineTypes /\ MirrorInv /\ [Next]_vars => MirrorInv'
  BY MirrorStep
<1>3. PipelineTypes /\ MirrorInv => MirrorNeverAhead
  <2>1. ASSUME PipelineTypes, NEW d \in Duels
        PROVE  View(d).settledCount = Cardinality(SettledCards(chain[d]))
    BY <2>1, ViewTyped DEF PipelineTypes
  <2> QED BY <2>1 DEF MirrorInv, MirrorNeverAhead, Behind
<1> QED BY <1>1, <1>2, <1>3, TypesStart, TypesStep, PTL DEF Spec
=============================================================================
