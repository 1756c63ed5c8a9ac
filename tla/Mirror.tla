------------------------------- MODULE Mirror -------------------------------
(***************************************************************************)
(* The tables of apps/server/src/db.ts and what is read out of them: the   *)
(* mirror of duels, ratings with their replay and matching (mmr.ts), the   *)
(* boards of leaderboard-api.ts, duels-api.ts and season.ts, chat, decks,  *)
(* markets.                                                                *)
(*                                                                         *)
(* A table is a function from the keys of its rows, a row that may be      *)
(* missing a set of at most one, and a query that orders by a column the   *)
(* set of the lists it may return, since rows that tie come in any order.  *)
(***************************************************************************)
EXTENDS Integers, Sequences, FiniteSets, TLC
LOCAL INSTANCE SequencesExt
LOCAL INSTANCE FiniteSetsExt

CONSTANTS
  COLUMN_NETWORK,          \* what a row is given that names no network
  DUSDC_COIN_TYPE,         \* of each network
  LOWER,                   \* each address in lower case
  DEFAULT_RATING, K_FACTOR,
  EXPECTED,                \* the expected score, in percent, by rating gap
  SEASON_MIN_STAKED_DUELS,
  mmrMatchWindowInitial,
  mmrMatchWindowExpandPerSec

NoRows == [k \in {} |-> k]
Put(table, key, row) == [k \in DOMAIN table \cup {key} |-> IF k = key THEN row ELSE table[k]]
Without(table, keys) == [k \in DOMAIN table \ keys |-> table[k]]
RowOf(table, key) == {table[k] : k \in DOMAIN table \cap {key}}

OrderedBy(rows, limit, Before(_, _)) ==
  {SubSeq(s, 1, Min({limit, Len(s)})) :
     s \in {s \in SetToSeqs(rows) : \A i, j \in DOMAIN s : Before(s[j], s[i]) => j < i}}

-----------------------------------------------------------------------------
(* The pool and the round of DDL that every query awaits first: whether     *)
(* there is a pool (_sql), the round that callers share (_ready, 0 for      *)
(* null), and how each round so far ended.  A round opens the pool, which   *)
(* needs the url.                                                           *)
NoPool == [sql |-> FALSE, ready |-> 0, rounds |-> <<>>]

GetSql(pool, url) == [pool EXCEPT !.sql = @ \/ url]

DbReady(pool, url) ==
  IF pool.ready # 0 THEN pool
  ELSE LET round == Len(pool.rounds) + 1
       IN  [GetSql(pool, url) EXCEPT !.ready = round, !.rounds = Append(@, "running")]

(* Whichever round fails, the memo is reset: the next caller starts another.*)
RoundEnds(pool, round, result) ==
  [pool EXCEPT !.rounds[round] = result, !.ready = IF result = "failed" THEN 0 ELSE @]

CloseDb(pool) == IF pool.sql THEN [pool EXCEPT !.sql = FALSE, !.ready = 0] ELSE pool

(* The schema: what ALTER adds to a table that exists, and gives its rows.  *)
(* The other columns are in the CREATE of their table and have no name here *)
(* but for the one by which a table of cursors is known to be too old.      *)
TABLES == <<"event_cursor", "duel", "chat_message", "player_rating", "deck", "predict_manager",
            "order_premiums", "predict_market", "market_settlements", "player_profile">>

Added(name) ==
  CASE name = "duel" -> [winner |-> "none", network |-> COLUMN_NETWORK]
    [] name = "player_rating" -> [network |-> COLUMN_NETWORK]
    [] name = "deck" -> [settleAtMs |-> "none"]
    [] OTHER -> NoRows

\* A database is a function from the names of its tables to their columns and rows.
EnsureTable(db, name) ==
  LET legacy == name = "event_cursor" /\ name \in DOMAIN db /\ "tx_digest" \in db[name].columns
      old == IF name \in DOMAIN db /\ ~legacy THEN db[name] ELSE [columns |-> {}, rows |-> NoRows]
      missing == [c \in DOMAIN Added(name) \ old.columns |-> Added(name)[c]]
  IN  Put(db, name, [columns |-> old.columns \cup DOMAIN Added(name),
                     rows |-> [k \in DOMAIN old.rows |-> old.rows[k] @@ missing]])

\* ensureSchema, as far as its first n tables: a round may fail after any of them.
EnsureSchema(db, n) == FoldLeft(EnsureTable, db, SubSeq(TABLES, 1, n))

(* Cursors by tracker: the last one saved is where the indexer resumes.     *)
SaveCursor(cursors, tracker, cursor, now) ==
  Put(cursors, tracker, [cursor |-> cursor, updatedAt |-> now])
LoadCursor(cursors, tracker) == {r.cursor : r \in RowOf(cursors, tracker)}
ListCursors(cursors) ==
  {[trackerId |-> t, cursor |-> cursors[t].cursor, updatedAt |-> cursors[t].updatedAt] :
     t \in DOMAIN cursors}

-----------------------------------------------------------------------------
(* Duels.  A refresh keeps the network that the first one wrote, and the    *)
(* winner, which it does not know.                                          *)
UpsertDuel(duels, d, network, now) ==
  LET old == RowOf(duels, d.id)
      kept == IF old = {} THEN [winner |-> "none", network |-> network] ELSE CHOOSE r \in old : TRUE
  IN  Put(duels, d.id,
          [id |-> d.id, status |-> d.status, stakeCoinType |-> d.stakeCoinType,
           creator |-> d.creator, challenger |-> d.challenger, cardOutcomes |-> d.cardOutcomes,
           p0Payout |-> d.p0Payout, p0Premium |-> d.p0Premium,
           p1Payout |-> d.p1Payout, p1Premium |-> d.p1Premium,
           winner |-> kept.winner, network |-> kept.network, lastUpdatedMs |-> now])

SetDuelWinner(duels, id, winner) ==
  IF id \in DOMAIN duels THEN [duels EXCEPT ![id].winner = winner] ELSE duels

MergeCardOutcome(duels, id, outcome, now) ==
  LET merged(s) == SortSeq(Append(SelectSeq(s, LAMBDA o : o.cardIdx # outcome.cardIdx), outcome),
                           LAMBDA a, b : a.cardIdx < b.cardIdx)
  IN  IF id \in DOMAIN duels
      THEN [duels EXCEPT ![id].cardOutcomes = merged(@), ![id].lastUpdatedMs = now]
      ELSE duels

GetDuel(duels, id, network) == {r \in RowOf(duels, id) : r.network = network}

(* status and player are absent or one; player is either side.              *)
ListRecentDuels(duels, limit, status, player, network) ==
  OrderedBy({r \in {duels[id] : id \in DOMAIN duels} :
               /\ r.network = network
               /\ status # {} => r.status \in status
               /\ player # {} => {r.creator, r.challenger} \cap player # {}},
            limit, LAMBDA a, b : a.lastUpdatedMs > b.lastUpdatedMs)

(* ?limit= of the two boards: absent, or a number.                          *)
LimitOf(given) == Min({100, Max({1, IF given = {} THEN 20 ELSE Max(given)})})

(* duels-api.ts: an answer has a status, and the duels it shows.  A row     *)
(* goes out without its network; a status that is none of the three and a   *)
(* player that is no address are as if they were not given.  The read       *)
(* itself may fail.                                                         *)
ToWire(row) == [field \in DOMAIN row \ {"network"} |-> row[field]]
Failed == [status |-> 500, duels |-> <<>>]

HandleDuelsRecent(duels, limit, status, player, network) ==
  {Failed} \cup
  {[status |-> 200, duels |-> [i \in DOMAIN rows |-> ToWire(rows[i])]] :
     rows \in ListRecentDuels(duels, LimitOf(limit), status \cap {"PENDING", "ACTIVE", "COMPLETE"},
                             player \cap DOMAIN LOWER, network)}

HandleDuelById(duels, id, wellFormed, network) ==
  IF ~wellFormed THEN {[status |-> 400, duels |-> <<>>]}
  ELSE {Failed} \cup
       (IF GetDuel(duels, id, network) = {} THEN {[status |-> 404, duels |-> <<>>]}
        ELSE {[status |-> 200, duels |-> <<ToWire(r)>>] : r \in GetDuel(duels, id, network)})

StakedDuelCounts(duels, network) ==
  LET staked == {id \in DOMAIN duels : /\ duels[id].status = "COMPLETE"
                                       /\ duels[id].network = network
                                       /\ duels[id].stakeCoinType = DUSDC_COIN_TYPE[network]}
      sides(a) == Cardinality({id \in staked : duels[id].creator = a})
                    + Cardinality({id \in staked : duels[id].challenger = a})
  IN  [a \in UNION {{duels[id].creator, duels[id].challenger} : id \in staked} |-> sides(a)]

-----------------------------------------------------------------------------
(* Ratings.                                                                 *)
Unrated == [rating |-> DEFAULT_RATING, gamesPlayed |-> 0, wins |-> 0, losses |-> 0, ties |-> 0]

GetPlayerRating(ratings, address) ==
  IF address \in DOMAIN ratings THEN ratings[address]
  ELSE Unrated @@ [network |-> COLUMN_NETWORK]

\* The insert names no network, and the update leaves it.
UpsertPlayerRating(ratings, address, r) ==
  Put(ratings, address,
      r @@ [network |-> GetPlayerRating(ratings, address).network])

(* applyDuelOutcome.  Math.round takes a half up.                           *)
Scored(r, score, expected) ==
  [rating |-> (200 * r.rating + 2 * K_FACTOR * (score - expected) + 100) \div 200,
   gamesPlayed |-> r.gamesPlayed + 1,
   wins |-> r.wins + (IF score = 100 THEN 1 ELSE 0),
   losses |-> r.losses + (IF score = 0 THEN 1 ELSE 0),
   ties |-> r.ties + (IF score = 50 THEN 1 ELSE 0)]

ApplyDuelOutcome(ratings, p0, p1, outcome) ==
  LET a == GetPlayerRating(ratings, p0)
      b == GetPlayerRating(ratings, p1)
      ea == EXPECTED[a.rating - b.rating]
      sa == CASE outcome = "p0_win" -> 100 [] outcome = "p1_win" -> 0 [] outcome = "tie" -> 50
  IN  UpsertPlayerRating(UpsertPlayerRating(ratings, p0, Scored(a, sa, ea)),
                         p1, Scored(b, 100 - sa, 100 - ea))

(* outcomeFromDuel: the recorded winner, or the head-to-head net.           *)
OutcomeFromDuel(d) ==
  LET p0Net == d.p0Payout - d.p0Premium
      p1Net == d.p1Payout - d.p1Premium
  IN  CASE d.winner = "p0" -> "p0_win"
        [] d.winner = "p1" -> "p1_win"
        [] d.winner = "tie" -> "tie"
        [] d.winner \notin {"p0", "p1", "tie"} /\ p0Net > p1Net -> "p0_win"
        [] d.winner \notin {"p0", "p1", "tie"} /\ p1Net > p0Net -> "p1_win"
        [] OTHER -> "tie"

(* The replay wipes the table and takes the finished duels of the default   *)
(* network in the order of their last refresh.                              *)
RecomputeRatingsFromMirror(duels, network) ==
  {FoldLeft(LAMBDA ratings, d : ApplyDuelOutcome(ratings, d.creator, d.challenger, OutcomeFromDuel(d)),
            NoRows, Reverse(newest)) :
     newest \in ListRecentDuels(duels, 1000000, {"COMPLETE"}, {}, network)}

Ranked(ratings, network) ==
  {a \in DOMAIN ratings : ratings[a].gamesPlayed > 0 /\ ratings[a].network = network}

Leaderboard(ratings, limit, network) ==
  OrderedBy(Ranked(ratings, network), limit, LAMBDA a, b : ratings[a].rating > ratings[b].rating)

PlayerRank(ratings, address, network) ==
  {1 + Cardinality({o \in Ranked(ratings, network) : ratings[o].rating > ratings[a].rating}) :
     a \in Ranked(ratings, network) \cap {address}}

(* The two rank endpoints: the board, and the card of one address.          *)
StakedBy(duels, network, a) ==
  LET counts == StakedDuelCounts(duels, network) IN IF a \in DOMAIN counts THEN counts[a] ELSE 0

HandleLeaderboard(ratings, duels, limit, network) ==
  {[i \in DOMAIN board |->
      [address |-> board[i], rating |-> ratings[board[i]].rating,
       stakedDuels |-> StakedBy(duels, network, board[i]),
       eligible |-> StakedBy(duels, network, board[i]) >= SEASON_MIN_STAKED_DUELS]] :
     board \in Leaderboard(ratings, LimitOf(limit), network)}

HandleMyRank(ratings, duels, address, network) ==
  {[address |-> LOWER[address], rank |-> rank,
    stakedDuels |-> StakedBy(duels, network, LOWER[address]),
    eligible |-> StakedBy(duels, network, LOWER[address]) >= SEASON_MIN_STAKED_DUELS] :
     rank \in PlayerRank(ratings, LOWER[address], network)}

SeasonPrizePoolTotal(split) ==
  FoldLeft(LAMBDA sum, t : sum + t.amount * (t.rankEnd - t.rankStart + 1), 0, split)

-----------------------------------------------------------------------------
(* Chat messages are numbered as they are inserted.                         *)
RecentChatMessages(messages, limit) ==
  LET newest == {id \in DOMAIN messages : Cardinality({o \in DOMAIN messages : o > id}) < limit}
  IN  SortSeq(SetToSeq(newest), LAMBDA a, b : a < b)

PruneChatMessages(messages, keep) ==
  Without(messages, {id \in DOMAIN messages : Cardinality({o \in DOMAIN messages : o > id}) >= keep})

-----------------------------------------------------------------------------
(* Decks are keyed by the hash in lower case.                               *)
UpsertDeck(decks, hash, deck) == Put(decks, LOWER[hash], deck)
GetDeck(decks, hash) == RowOf(decks, LOWER[hash])
DeleteDeck(decks, hash) == Without(decks, {LOWER[hash]})

(* Markets: a second event keeps the asset and the network of the first,    *)
(* and the time of creation where it has none itself.                       *)
SavePredictMarket(markets, m, network) ==
  LET old == RowOf(markets, m.id)
  IN  Put(markets, m.id,
          [id |-> m.id, expiry |-> m.expiry,
           created |-> IF m.created # {} THEN m.created ELSE UNION {r.created : r \in old},
           asset |-> CHOOSE x \in (IF old = {} THEN {m.asset} ELSE {r.asset : r \in old}) : TRUE,
           network |-> CHOOSE x \in (IF old = {} THEN {network} ELSE {r.network : r \in old}) : TRUE])

ListPredictMarkets(markets, asset, network) ==
  OrderedBy({m \in {markets[k] : k \in DOMAIN markets} : m.asset = asset /\ m.network = network},
            Cardinality(DOMAIN markets), LAMBDA a, b : a.expiry < b.expiry)

PredictMarketStats(markets, network, now) ==
  LET expiries == {[id |-> k, expiry |-> markets[k].expiry] :
                     k \in {k \in DOMAIN markets : markets[k].network = network}}
  IN  [count |-> Cardinality(expiries),
       newestExpiry |-> {Max({e.expiry : e \in expiries}) : x \in IF expiries = {} THEN {} ELSE {0}},
       liveCount |-> Cardinality({e \in expiries : e.expiry > now})]

(* Premiums by market and order, settlements by market, cursors by tracker, *)
(* managers by owner: the last write is what a read finds.                  *)
SaveRow(table, key, row) == Put(table, key, row)
GetRow(table, key) == RowOf(table, key)

-----------------------------------------------------------------------------
(* mmr.ts: the opponent that findClosestOpponent picks from the candidates. *)
MatchWindow(wait) ==
  mmrMatchWindowInitial + (IF wait > 0 THEN wait ELSE 0) * mmrMatchWindowExpandPerSec

Gap(a, b) == IF a >= b THEN a - b ELSE b - a
Wider(a, b) == IF a >= b THEN a ELSE b

(* A candidate is its rating and how long it waited; none is the index 0.   *)
FindClosestOpponent(myRating, myWait, pool) ==
  LET gap(i) == Gap(pool[i].rating, myRating)
      near(i) == gap(i) <= Wider(MatchWindow(pool[i].wait), MatchWindow(myWait))
      Better(best, i) ==
        IF near(i) /\ (best = 0 \/ gap(i) < gap(best)) THEN i ELSE best
  IN  FoldLeft(Better, 0, [i \in 1 .. Len(pool) |-> i])
=============================================================================
