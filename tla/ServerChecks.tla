---------------------------- MODULE ServerChecks ----------------------------
(***************************************************************************)
(* The pure functions of the server, of its data and of its agents         *)
(* (Mirror, Deckmaster, BookMath, ResultMath, NetworkConfig,    *)
(* Server) against what they are for, on every input within small bounds:  *)
(* TLC evaluates each assumption before the run of a module that extends   *)
(* this one.  One that says that something CAN happen records a surprise   *)
(* of the code.                                                            *)
(***************************************************************************)
EXTENDS Deckmaster, BookMath, ResultMath, NetworkConfig, Server
LOCAL INSTANCE FiniteSetsExt
LOCAL INSTANCE SequencesExt
LOCAL INSTANCE Functions

Seqs(S, n) == UNION {[1 .. k -> S] : k \in 0 .. n}
Maybe(S) == {{}} \cup {{x} : x \in S}
Increasing(s, key(_)) == \A i, j \in DOMAIN s : i < j => key(s[i]) < key(s[j])

-----------------------------------------------------------------------------
(* The result of a duel.                                                    *)
DuelRows == [winner : {"p0", "p1", "tie", "none"}, creator : {"ab"}, cardCount : {2},
            p0Payout : 0 .. 2, p0Premium : 0 .. 2, p1Payout : 0 .. 2, p1Premium : 0 .. 2,
            cardOutcomes : {<<>>}]

(* The result card, the history and the ratings name the same winner, and   *)
(* the two players never both win.                                          *)
ASSUME ResultsAgree ==
  \A d \in DuelRows :
    LET rated == OutcomeFromDuel(d)
        p0 == PlayerDuelResult(d, "ab")
        p1 == PlayerDuelResult(d, "cd")
    IN  /\ p0 = "win" <=> rated = "p0_win"
        /\ p1 = "win" <=> rated = "p1_win"
        /\ p0 = "tie" <=> p1 = "tie"
        /\ SummarizeDuelResult(d, "p0").outcome = p0 /\ SummarizeDuelResult(d, "p1").outcome = p1

(* A duel is shown as stuck where a side is missing from a settled card.    *)
Sides2 == [cardIdx : 1 .. 2, p0 : BOOLEAN, p1 : BOOLEAN]
ASSUME StuckMeansMissing ==
  \A swipes \in SUBSET Sides2, settled \in SUBSET {"m", "n"} :
    LET duel == [status |-> "ACTIVE", cards |-> <<"m", "n">>, swipes |-> swipes]
    IN  DuelUnsettleable(duel, settled) <=> MissingSides(duel, settled) # {}

-----------------------------------------------------------------------------
(* Profit and loss.                                                         *)
Swipes == {{[isUp |-> up, quantity |-> q]} : up \in BOOLEAN, q \in 0 .. 3}
Prices == Maybe(0 .. 3)
Chances == Maybe(0 .. PROBABILITY)

(* A settlement price locks a card: what the market or the time says beside *)
(* it changes nothing, and the card shows what it would at that price.      *)
ASSUME SettledPriceLocks ==
  \A swipe \in Swipes, strike \in Maybe(1 .. 3), price \in 1 .. 3, spot \in Prices, open \in Chances :
    TickCardPnl(swipe, strike, [settlementPrice |-> {price}, spot |-> spot], open)
      = LiveCardPnl(swipe, strike, {price})

(* The marks of opposite swipes differ from a zero sum by one rounding, and *)
(* no mark exceeds the stake.                                               *)
ASSUME MarksCancel ==
  \A q \in 0 .. 3, strike, spot \in Prices, open \in Chances :
    LET mark(up) == MarkCardPnl({[isUp |-> up, quantity |-> q]}, strike, spot, open)
    IN  \A a \in mark(TRUE), b \in mark(FALSE) : a + b \in {0, 1} /\ Absolute(a) <= q

-----------------------------------------------------------------------------
(* The history of a chart.                                                  *)
Samples == {s \in Seqs([t : 0 .. 5, p0 : {0}, p1 : {-1}], 4) : Increasing(s, LAMBDA x : x.t)}
Marks == Seqs([t : 0 .. 5, idx : {1}], 1)

(* What is stored is read back trimmed, once for all; it ends with the last *)
(* sample, spans no more than the age, and drops none that it could keep.   *)
ASSUME HistoryIsRecentEnough ==
  \A samples \in Samples, boundaries \in Marks :
    LET kept == TrimHistory(samples, boundaries)
        young == {i \in DOMAIN samples : samples[i].t >= samples[Len(samples)].t - MAX_AGE_MS}
    IN  /\ TrimHistory(kept.samples, kept.boundaries) = kept
        /\ \A p \in ParseHistory({SerializeHistory("duel", samples, boundaries)}) :
             p.samples = kept.samples /\ p.boundaries = kept.boundaries
        /\ IsSuffix(kept.samples, samples)
        /\ Len(kept.samples) = Min({MAX_SAMPLES, Cardinality(young)})
        /\ \A i \in DOMAIN kept.boundaries : kept.boundaries[i].t >= kept.firstT

(* The replay reveals each card once, in order, and lasts to the last.      *)
ASSUME ReplayRevealsAll ==
  \A n \in -1 .. 5 :
    LET schedule == RevealScheduleMs(n)
    IN  /\ Increasing(schedule, LAMBDA t : t)
        /\ n > 0 => Len(schedule) = n /\ schedule[n] = ReplayDurationMs(n)
        /\ n <= 0 => schedule = <<>> /\ ReplayDurationMs(n) = 0

-----------------------------------------------------------------------------
(* The boards.                                                              *)
Tiers == Seqs([rankStart : 1 .. 3, rankEnd : 1 .. 3, amount : 1 .. 2], 2)
WellFormed(split) ==
  /\ \A i \in DOMAIN split : split[i].rankStart <= split[i].rankEnd
  /\ \A i, j \in DOMAIN split :
       i # j => {split[i].rankStart .. split[i].rankEnd} # {} /\
                (split[i].rankStart .. split[i].rankEnd) \cap (split[j].rankStart .. split[j].rankEnd) = {}

PaidTo(split, position) == MapThenSumSet(LAMBDA a : a, PrizeForRank(split, position))

(* The headline pool is what the positions are paid, where no two tiers     *)
(* hold one position; where two do, more is announced than is shown.        *)
ASSUME PoolIsWhatIsPaid ==
  \A split \in Tiers :
    LET paid == MapThenSumSet(LAMBDA n : PaidTo(split, n), 1 .. 3)
    IN  /\ WellFormed(split) => paid = SeasonPrizePoolTotal(split)
        /\ (\A i \in DOMAIN split : split[i].rankStart <= split[i].rankEnd)
             => paid <= SeasonPrizePoolTotal(split)

Players == {"ab", "cd", "ef"}
RatingRows == [rating : 1 .. 3, gamesPlayed : 0 .. 1, network : {"testnet", "mainnet"}]
RatingTables == UNION {[A -> RatingRows] : A \in SUBSET Players}

(* A player's card never shows a rank behind the place on the board, and    *)
(* the same where no rating ties; who has no card is not on the board.      *)
ASSUME BoardAndCardAgree ==
  \A ratings \in RatingTables : \A board \in Leaderboard(ratings, 100, "testnet") :
    /\ {board[i] : i \in DOMAIN board} = {a \in Players : PlayerRank(ratings, a, "testnet") # {}}
    /\ \A i \in DOMAIN board : \A rank \in PlayerRank(ratings, board[i], "testnet") :
         /\ rank <= i
         /\ (\A j \in DOMAIN board : ratings[board[j]].rating = ratings[board[i]].rating => i = j)
              => rank = i

(* Players that tie share a rank, so that the cards may promise more than   *)
(* the pool, which is paid by position.                                     *)
ASSUME TiesPromiseTwice ==
  LET split == <<[rankStart |-> 1, rankEnd |-> 1, amount |-> 2]>>
      ratings == [a \in {"ab", "cd"} |-> [rating |-> 1, gamesPlayed |-> 1, network |-> "testnet"]]
  IN  MapThenSumSet(LAMBDA a : PaidTo(split, Max(PlayerRank(ratings, a, "testnet"))), {"ab", "cd"})
        > SeasonPrizePoolTotal(split)

(* The card is looked up in lower case, the rows keep the case of the       *)
(* chain: whose address mixes cases leads the board and has no card.        *)
ASSUME MixedCaseHasNoCard ==
  LET ratings == "Ab" :> [rating |-> 1, gamesPlayed |-> 1, network |-> "testnet"]
  IN  /\ \A board \in HandleLeaderboard(ratings, NoRows, {}, "testnet") : board[1].address = "Ab"
      /\ HandleMyRank(ratings, NoRows, "Ab", "testnet") = {}

-----------------------------------------------------------------------------
(* The rank screen.                                                         *)
RankedTables == {r \in RatingTables :
                   \A a \in DOMAIN r : r[a].gamesPlayed = 1 /\ r[a].network = "testnet"}
Splits == {split \in Tiers : WellFormed(split) /\ \A i \in DOMAIN split : split[i].amount = i}
SeasonOf(split) ==
  {[id |-> "s", endsAt |-> 2, prizeSplit |-> split, minStakedDuels |-> SEASON_MIN_STAKED_DUELS]}
StakedRow(creator, challenger, coin) ==
  [status |-> "COMPLETE", network |-> "testnet", creator |-> creator, challenger |-> challenger,
   stakeCoinType |-> coin]
StakedTables == {<<>>} \cup {<<StakedRow("ab", other, coin)>> : other \in {"cd", "ef"}, coin \in {"dusdc", "token"}}

(* The screen of a player: a row shows what the panel's line for its place  *)
(* pays, locked exactly where too few staked duels are shown with it; and   *)
(* where no rating ties the card shows what the player's own row does.      *)
ASSUME RankScreenAgrees ==
  \A ratings \in RankedTables, split \in Splits, duels \in StakedTables, me \in Players :
    \A board \in HandleLeaderboard(ratings, duels, {}, "testnet") :
      LET card == HandleMyRank(ratings, duels, me, "testnet")
          shown == GameRank(SeasonOf(split), {board}, {me},
                            FetchMyRank({[status |-> 200, card |-> card]}), 1)
      IN  /\ shown.countdown = {1} /\ shown.claim = {"s"}
          /\ shown.hint # "none" <=> board # <<>> /\ card = {}
          /\ \A rows \in shown.rows, panel \in shown.panel : \A i \in DOMAIN rows :
               /\ {c.prize : c \in rows[i].chip}
                    = {panel[j].amount : j \in {j \in DOMAIN panel : i \in panel[j].ranks}}
               /\ \A c \in rows[i].chip :
                    c.locked <=> \E lack \in c.missing : lack[1] < lack[2]
               /\ (rows[i].isMe /\ \A j \in DOMAIN rows : board[j].rating = board[i].rating => i = j)
                    => {mine.chip : mine \in shown.myCard} = {rows[i].chip}

(* A card that could not be read is shown as that of one who never played;  *)
(* so is the one that is missing for the case of the address.               *)
ASSUME FailureLooksUnranked ==
  \A answer \in {{}, {[status |-> 500, card |-> {}]}} :
    GameRank({}, {<<[address |-> "ab", rating |-> 1, eligible |-> FALSE, stakedDuels |-> 0]>>},
             {"ab"}, FetchMyRank(answer), 1).hint = "finish a duel"

(* A better rating never has a lesser badge.                                *)
ASSUME TiersRise ==
  LET badges == <<"bronze", "silver", "gold", "platinum">>
      place(rating) == CHOOSE i \in DOMAIN badges : badges[i] = RatingToTier({rating})
  IN  \A a, b \in {0, 1099, 1100, 1299, 1300, 1499, 1500} : a <= b => place(a) <= place(b)

-----------------------------------------------------------------------------
(* The mirror.                                                              *)
Read(id, time, creator, challenger, payout, coin) ==
  [id |-> id, status |-> "COMPLETE", stakeCoinType |-> coin, lastUpdatedMs |-> time,
   creator |-> creator, challenger |-> challenger, cardOutcomes |-> <<>>, network |-> "testnet",
   winner |-> "none", p0Payout |-> payout, p0Premium |-> 0, p1Payout |-> 1, p1Premium |-> 0]
Finished ==
  {Read(1, time, p[1], p[2], payout, coin) :
     time \in 1 .. 2, p \in {<<"ab", "cd">>, <<"cd", "ef">>}, payout \in 0 .. 2, coin \in {"dusdc", "token"}}
DuelTables == {[k \in DOMAIN s |-> [s[k] EXCEPT !.id = k]] : s \in Seqs(Finished, 2)}

(* A replay gives each duel one winner and one loser or two ties, whichever *)
(* way the rows of one time are taken, and makes or loses no rating but by  *)
(* rounding.                                                                *)
ASSUME ReplayIsFair ==
  \A duels \in DuelTables :
    \A ratings \in RecomputeRatingsFromMirror(duels, "testnet") :
      LET total(field(_)) == MapThenSumSet(LAMBDA a : field(ratings[a]), DOMAIN ratings)
          n == Cardinality(DOMAIN duels)
      IN  /\ total(LAMBDA r : r.wins) = total(LAMBDA r : r.losses)
          /\ total(LAMBDA r : r.gamesPlayed) = 2 * n
          /\ \A a \in DOMAIN ratings :
               ratings[a].gamesPlayed = ratings[a].wins + ratings[a].losses + ratings[a].ties
          /\ total(LAMBDA r : r.rating) - DEFAULT_RATING * Cardinality(DOMAIN ratings) \in 0 .. n

(* Two duels last refreshed at one time may be replayed in either order,    *)
(* which is not the same to those who played both.                          *)
ASSUME ReplayOrderMatters ==
  \E duels \in DuelTables : Cardinality(RecomputeRatingsFromMirror(duels, "testnet")) > 1

(* Each staked duel counts for both of its players, and for them only.      *)
ASSUME StakedCountsAddUp ==
  \A duels \in DuelTables :
    LET counts == StakedDuelCounts(duels, "testnet")
    IN  MapThenSumSet(LAMBDA a : counts[a], DOMAIN counts)
          = 2 * Cardinality({k \in DOMAIN duels : duels[k].stakeCoinType = "dusdc"})

(* Outcomes of a duel arrive in any order, and twice, to the same effect;   *)
(* the next refresh forgets them, and keeps the winner.                     *)
Outcomes == [cardIdx : 0 .. 2, upWon : BOOLEAN]
ASSUME OutcomesMerge ==
  \A a, b, c \in Outcomes :
    LET duel == Read(1, 1, "ab", "cd", 0, "dusdc")
        after(s) == FoldLeft(LAMBDA t, o : MergeCardOutcome(t, 1, o, 2), 1 :> duel, s)
        once == after(<<a, b, c>>)
        refreshed == UpsertDuel(SetDuelWinner(once, 1, "p1"), duel, "mainnet", 3)[1]
    IN  /\ a.cardIdx # b.cardIdx => once = after(<<b, a, c>>)
        /\ once = after(<<a, b, c, c>>)
        /\ Increasing(once[1].cardOutcomes, LAMBDA o : o.cardIdx)
        /\ refreshed.winner = "p1" /\ refreshed.network = "testnet" /\ refreshed.cardOutcomes = <<>>

(* What a prune leaves is what a reader of no more would have been shown.   *)
ASSUME PrunedIsRecent ==
  \A ids \in SUBSET (1 .. 5), keep, limit \in 0 .. 5 :
    RecentChatMessages(PruneChatMessages([id \in ids |-> "text"], keep), limit)
      = RecentChatMessages([id \in ids |-> "text"], Min({keep, limit}))

(* The time of creation that any event of a market knew is never lost, and  *)
(* the counts are those of the list.                                        *)
Events == [id : {"m"}, asset : {1}, expiry : 1 .. 2, created : Maybe(0 .. 1)]
ASSUME CreationIsKept ==
  \A s \in Seqs(Events, 3) :
    LET markets == FoldLeft(LAMBDA t, e : SavePredictMarket(t, e, "testnet"), NoRows, s)
        stats == PredictMarketStats(markets, "testnet", 1)
    IN  \A listed \in ListPredictMarkets(markets, 1, "testnet") :
          /\ Len(listed) = stats.count
          /\ Len(SelectSeq(listed, LAMBDA m : m.expiry > 1)) = stats.liveCount
          /\ (\E i \in DOMAIN s : s[i].created # {}) => \A i \in DOMAIN listed : listed[i].created # {}

(* A deck is found under its hash in any case, until it is deleted.         *)
ASSUME DecksIgnoreCase ==
  \A put, get, drop \in DOMAIN LOWER :
    LET decks == UpsertDeck(NoRows, put, "deck")
    IN  /\ GetDeck(decks, get) # {} <=> LOWER[get] = LOWER[put]
        /\ GetDeck(DeleteDeck(decks, drop), put) = {} <=> LOWER[drop] = LOWER[put]

-----------------------------------------------------------------------------
(* The database at boot and after.                                          *)
\* The oldest round that runs ends.
RoundRuns(pool, result) ==
  LET running == {n \in DOMAIN pool.rounds : pool.rounds[n] = "running"}
  IN  IF running = {} THEN pool ELSE RoundEnds(pool, Min(running), result)
AfterEvents(events, url) ==
  FoldLeft(LAMBDA pool, e :
             CASE e = "query" -> DbReady(pool, url)
               [] e = "ends" -> RoundRuns(pool, IF url THEN "done" ELSE "failed")
               [] e = "fails" -> RoundRuns(pool, "failed")
               [] e = "close" -> CloseDb(pool), NoPool, events)

(* The callers of one time share one round, none is handed a round that     *)
(* failed before it asked, and after one that ended well there is no other. *)
ASSUME RoundsAreShared ==
  \A url \in BOOLEAN, events \in Seqs({"query", "ends", "fails"}, 5) :
    LET pool == AfterEvents(events, url)
        are(result) == {n \in DOMAIN pool.rounds : pool.rounds[n] = result}
    IN  /\ Cardinality(are("running")) <= 1
        /\ are("running") \cup are("done") = {pool.ready} \ {0}
        /\ ~url => are("done") = {} /\ ~pool.sql

(* The pool is closed at shutdown while the keeper, the indexer and the     *)
(* pruning still run (AfterShutdown): the next query of theirs opens it     *)
(* again, and one closed during a round may have two rounds at a time, of   *)
(* which the failure of the first makes the second one be forgotten.        *)
ASSUME ClosedIsReopened ==
  /\ AfterEvents(<<"query", "ends", "close", "query">>, TRUE).sql
  /\ LET pool == AfterEvents(<<"query", "close", "query", "fails">>, TRUE)
     IN  pool.rounds = <<"failed", "running">> /\ pool.ready = 0

(* Old databases: any of three tables, from before a column was added or    *)
(* after it, with a row.                                                    *)
OldTables ==
  [duel : {[columns |-> c, rows |-> "k" :> [f \in c |-> "old"]] : c \in {{}, {"winner"}, {"winner", "network"}}},
   deck : {[columns |-> c, rows |-> "k" :> [f \in c |-> "old"]] : c \in {{}, {"settleAtMs"}}},
   event_cursor : {[columns |-> c, rows |-> "k" :> [f \in {} |-> "old"]] : c \in {{}, {"tx_digest"}}}]
OldDatabases == {[t \in S |-> db[t]] : S \in SUBSET {"duel", "deck", "event_cursor"}, db \in OldTables}

(* A boot brings each database to the one schema, however far a round that  *)
(* failed had come; it keeps every row and what it held, but for the        *)
(* cursors of the old shape, and a row without a network is testnet's.      *)
ASSUME SchemaGrows ==
  \A old \in OldDatabases, n \in 0 .. Len(TABLES) :
    LET db == EnsureSchema(old, Len(TABLES))
    IN  /\ EnsureSchema(EnsureSchema(old, n), Len(TABLES)) = db
        /\ DOMAIN db = Range(TABLES)
        /\ \A t \in DOMAIN db :
             DOMAIN Added(t) \subseteq db[t].columns /\ "tx_digest" \notin db[t].columns
        /\ \A t \in DOMAIN old : "tx_digest" \in old[t].columns \/
             \A k \in DOMAIN old[t].rows :
               LET before == old[t].rows[k]
               IN  /\ k \in DOMAIN db[t].rows
                   /\ \A f \in DOMAIN before : db[t].rows[k][f] = before[f]
                   /\ t = "duel" /\ "network" \notin DOMAIN before
                        => db[t].rows[k].network = COLUMN_NETWORK

(* What the indexer resumes from is its own last save, whoever saved since. *)
ASSUME CursorsAreApart ==
  \A s \in Seqs({"duels", "markets"} \X (1 .. 2), 3) :
    LET cursors == FoldLeft(LAMBDA t, w : SaveCursor(t, w[1], w[2], 0), NoRows, s)
    IN  /\ \A tracker \in {"duels", "markets"} :
             LET mine == SelectSeq(s, LAMBDA w : w[1] = tracker)
             IN  LoadCursor(cursors, tracker) = IF mine = <<>> THEN {} ELSE {Last(mine)[2]}
        /\ {c.trackerId : c \in ListCursors(cursors)} = {s[i][1] : i \in DOMAIN s}

-----------------------------------------------------------------------------
(* The lists of duels.                                                      *)
MixedTables == {[k \in DOMAIN t |-> [t[k] EXCEPT !.network = net[k]]] :
                  t \in {t \in DuelTables : \A k \in DOMAIN t : t[k].p0Payout = 0},
                  net \in [1 .. 2 -> {"testnet", "mainnet"}]}

(* A client is offered only duels that it can open on its network: the list *)
(* and the page agree on each, and on another network there is no page.     *)
ASSUME ListedCanBeOpened ==
  \A duels \in MixedTables, player \in Maybe({"ab", "not an address"}), limit \in Maybe(0 .. 2) :
    \A answer \in HandleDuelsRecent(duels, limit, {}, player, "testnet") :
      /\ answer.status = 200 => Len(answer.duels) <= (IF limit = {} THEN 20 ELSE Max(limit \cup {1}))
      /\ \A i \in DOMAIN answer.duels :
           LET id == answer.duels[i].id
               page(network) == HandleDuelById(duels, id, TRUE, network) \ {Failed}
           IN  /\ page("testnet") = {[status |-> 200, duels |-> <<answer.duels[i]>>]}
               /\ page("mainnet") = {[status |-> 404, duels |-> <<>>]}

(* A player that is no address narrows nothing; one in the case of another  *)
(* chain's tools finds no duel, since the mirror compares as it is written. *)
ASSUME PlayersFilter ==
  \A duels \in MixedTables :
    LET of(player) == HandleDuelsRecent(duels, {}, {"any"}, player, "testnet") \ {Failed}
    IN  /\ of({"not an address"}) = of({})
        /\ \A answer \in of({"Ab"}) : answer.duels = <<>>
        /\ \A answer \in of({"ab"}) :
             {answer.duels[i].id : i \in DOMAIN answer.duels}
               = {k \in DOMAIN duels : duels[k].network = "testnet" /\ "ab" \in {duels[k].creator, duels[k].challenger}}

-----------------------------------------------------------------------------
(* The deckmaster.                                                          *)
Snapshots == <<[id |-> "m", tickSize |-> 1, admissionTickSize |-> 1]>>
PlainDraw == [signs |-> [i \in 1 .. MAX_CARDS |-> 1], zones |-> BaseZones(MAX_CARDS)]
Bodies == [deckSize : Maybe(1 .. 3), minDeckSize : {{}}, maxDeckSize : Maybe({2})]
NoMarkets == [i \in {} |-> i]

(* No request is ever answered with a deck, since there is no spot to place *)
(* the strikes at.                                                          *)
ASSUME GenerateNeedsSpot ==
  \A served, granted \in BOOLEAN, found \in {NoMarkets, Snapshots}, body \in Bodies :
    HandleGenerate(served, granted, found, body, ReadBtcSpot, NoRows, "seed", PlainDraw).status # 200

(* Were there one, the deck stored under the hash would be the one that the *)
(* hash commits to, and every other hash would stay unknown.                *)
ASSUME RevealOpensTheCommitment ==
  \A body \in Bodies, spot \in {100, 200} :
    LET made == HandleGenerate(TRUE, TRUE, Snapshots, body, {spot}, NoRows, "seed", PlainDraw)
        revealed == HandleReveal(made.decks, made.hash)
    IN  /\ made.status = 200 /\ revealed.status = 200
        /\ made.hash = {ComputeDeckCommitWithSalt(revealed.cards, ZERO_SALT)}
        /\ Len(revealed.cards) \in MIN_CARDS .. MAX_CARDS
        /\ HandleReveal(made.decks, {ComputeDeckCommitWithSalt(<<>>, ZERO_SALT)}).status = 404

(* The commitment is to markets and strikes in their order, not to hints.   *)
Cards2 == [marketId : {"m", "n"}, strike : 1 .. 2]
ASSUME CommitmentIsToCards ==
  \A a, b \in [1 .. 2 -> Cards2] :
    CommitDeck(DreamdexCards(a)).hash = CommitDeck(DreamdexCards(b)).hash <=> a = b

(* A market that is announced again without a time stays in its tier, and   *)
(* so is still there to be dealt as the same kind.                          *)
ASSUME ReannouncedKeepsItsTier ==
  \A created \in 0 .. 3, expiry \in 2 .. 4, again \in BOOLEAN :
    LET event(t) == [id |-> "m", asset |-> 1, expiry |-> expiry, created |-> t]
        once == SavePredictMarket(NoRows, event({created}), "testnet")
        markets == IF again THEN SavePredictMarket(once, event({}), "mainnet") ELSE once
        opts == [now |-> 1, maxHorizon |-> 4, shortCount |-> 1, midCount |-> 1,
                 shortTtlFloor |-> 1, midTtlFloor |-> 1]
    IN  \A picked \in FindTieredDeckMarkets(markets, "testnet", opts) :
          /\ Len(picked) = IF ClassifyTier({expiry - created}) = "long" THEN 0 ELSE 1
          /\ picked = <<>> \/ picked[1].lifetime = {expiry - created}

(* Neither search finds a market that the other network announced.          *)
ASSUME MarketsAreOfOneNetwork ==
  \A net \in {"testnet", "mainnet"} :
    LET markets == SavePredictMarket(NoRows, [id |-> "m", asset |-> 1, expiry |-> 3, created |-> {}], net)
    IN  \A found \in FindDeckMarkets(markets, "testnet", 0, 5) : found = <<>> <=> net = "mainnet"

-----------------------------------------------------------------------------
(* The venue.                                                               *)
Onchain == [status : 0 .. 6, finalized : BOOLEAN, isResolved : BOOLEAN, isVoided : BOOLEAN,
            winningOutcome : 0 .. 1]
Coherent(m) == /\ m.isVoided <=> m.status = 5
               /\ m.isResolved <=> m.status = 4
               /\ m.finalized <=> m.status \in 4 .. 5

(* Where the flags agree with the code a market is settled as its status    *)
(* says, has a winner unless it is void, and is not for trading.            *)
ASSUME SettlementFollowsStatus ==
  \A m \in Onchain :
    /\ Coherent(m) => (GetSettlement(m) # {} <=> NormalizeStatus(m) \in {"RESOLVED", "VOIDED"})
    /\ \A s \in GetSettlement(m) : s.voided <=> s.winner = {}
    /\ Coherent(m) => \A s \in GetSettlement(m) : s.voided <=> NormalizeStatus(m) = "VOIDED"

(* A market that is void by its code alone has a winner all the same.       *)
ASSUME VoidCanHaveAWinner ==
  \E m \in Onchain : NormalizeStatus(m) = "VOIDED" /\ \E s \in GetSettlement(m) : s.winner # {}

(* A malformed order leaves no trace in the book.                           *)
Fields == {{}, {Malformed}, {0}, {1}}
Orders == [price : Fields, quantity : Fields, size : Fields]
ASSUME MalformedIsDropped ==
  \A o \in Orders :
    LET good == [price |-> {1}, quantity |-> {}, size |-> {2}]
        levels == ToLevels(<<o, good>>)
    IN  /\ Last(levels) = [price |-> 1, quantity |-> 2]
        /\ \A i \in DOMAIN levels : levels[i].quantity > 0 /\ levels[i].price \in 0 .. 1
        /\ Len(levels) = 2 <=> /\ o.price \in {{0}, {1}}
                               /\ o.quantity = {1} \/ (o.quantity = {} /\ o.size = {1})

(* An order is placed only where its market trades, on the side and at the  *)
(* price in the terms of UP: a DOWN quote costs what is asked for it.       *)
ASSUME OrdersAreInTermsOfUp ==
  \A m \in Onchain, direction \in {"UP", "DOWN"}, price \in 0 .. ONE_PROBABILITY :
    LET request == [side |-> "BUY", direction |-> direction, price |-> price, quantity |-> 1]
        sent == PlaceOrder(TRUE, {m}, request)
    IN  /\ (sent = Refused) <=> (NormalizeStatus(m) # "TRADING")
        /\ sent # Refused =>
             ToUpPrice(sent.price, IF sent.side = "BUY_YES" THEN "UP" ELSE "DOWN") = price
        /\ PlaceOrder(FALSE, {m}, request) = Refused

-----------------------------------------------------------------------------
(* Networks.                                                                *)
Settings == {<<name, suffix>> : name \in {"FLICKY_PACKAGE", "FLICKY_PACKAGE_ID"},
                                  suffix \in {"mainnet", "testnet", BARE}}
Environments == {[v \in S |-> v] : S \in SUBSET Settings}
Deployments == Maybe([network : Maybe({"testnet"}), packageId : Maybe({"deployed"})])

(* A package of mainnet is one that the deploy named for mainnet, provided  *)
(* that the deployment file says of which network it is; testnet takes what *)
(* is set for it before what is set for all.                                *)
ASSUME MainnetBorrowsNothing ==
  \A env \in Environments, deployed \in Deployments :
    LET mainnet == FlickyPackageId(env, "mainnet", deployed)
        testnet == FlickyPackageId(env, "testnet", deployed)
    IN  /\ (\A d \in deployed : d.network # {})
             => mainnet \subseteq {v \in Settings : v[2] = "mainnet"}
        /\ (\E v \in DOMAIN env : v[2] = "testnet") => \A v \in testnet : v[2] = "testnet"
        /\ (\E v \in DOMAIN env : v[2] # "mainnet") => testnet # {}

(* An unlabelled deployment file is taken for mainnet's.                    *)
ASSUME UnlabelledIsAnyones ==
  FlickyPackageId(NoRows, "mainnet", {[network |-> {}, packageId |-> {"deployed"}]}) = {"deployed"}

(* A process serves its default network, and answers of no other than the   *)
(* one asked for.                                                           *)
ASSUME AnswersOfTheNetworkAsked ==
  \A default \in Networks, listed \in Seqs(Networks, 2) :
    \A enabled \in EnabledNetworks(default, listed) :
      /\ ResolveNetworkParam(default, enabled, {}) = {default}
      /\ ResolveNetworkParam(default, enabled, {default}) = {default}
      /\ \A raw \in Networks \cup {"nowhere"} :
           ResolveNetworkParam(default, enabled, {raw}) \subseteq {raw}

(* A switch to an offered network lands on it; no entry leaves none to run  *)
(* on.  The build's own network is taken whether it is offered or not.      *)
Listings == Maybe(Seqs({"testnet", "mainnet", "typo"}, 2))
ASSUME SwitchLands ==
  \A listed \in Listings, fromEnv \in {"testnet", "mainnet", "typo"}, works \in BOOLEAN :
    LET available == AvailableNetworks(listed)
        offered == {available[i] : i \in DOMAIN available}
    IN  /\ offered # {} /\ offered \subseteq FlickyNetworks
        /\ \A active \in FlickyNetworks, next \in offered :
             SetNetwork(available, fromEnv, active, next, works) \subseteq {next}

ASSUME BuildNetworkIsNotChecked ==
  \E listed \in Listings :
    LET available == AvailableNetworks(listed)
    IN  ~ Contains(available, ActiveNetwork(available, {}, "mainnet"))

-----------------------------------------------------------------------------
(* The services.                                                            *)
KeyValues == {{}, {"malformed"}, {"one"}, {"other"}}
ServerEnvs == [duelAddress : {{}, {"malformed"}, {"one"}}, relayerKey : KeyValues, keeperKey : KeyValues]
Relays(env) == RelayRefusal(env) = {}

(* A keeper never runs without the indexer that tells it of duels, and no   *)
(* duel is swiped through a relay that no keeper settles, but where the     *)
(* keeper's key is malformed and the relayer's is not.                      *)
ASSUME RelayedDuelsAreSettled ==
  \A env \in ServerEnvs :
    /\ KeeperBoots(env) => IndexerBoots(env)
    /\ (Relays(env) /\ ~KeeperBoots(env)) <=>
         (GoodKey(env.duelAddress) /\ env.keeperKey = {"malformed"} /\ GoodKey(env.relayerKey))

(* Where one key is given and the other is not, the relayer and the keeper  *)
(* send from one account, with nothing between them that orders its         *)
(* transactions.                                                            *)
ASSUME OneKeyServesBoth ==
  \A env \in ServerEnvs :
    Relays(env) /\ KeeperBoots(env) =>
      (RelayerKey(env) = KeeperKey(env)) =
        (env.relayerKey = {} \/ env.keeperKey = {} \/ env.relayerKey = env.keeperKey)

(* /health speaks for the keeper as it is, and for the relayer by its own   *)
(* key alone (index.ts:145): a relayer that runs on the keeper's key is     *)
(* reported disabled, and one with a malformed key enabled.                 *)
ASSUME HealthMisreportsTheRelayer ==
  /\ \A env \in ServerEnvs :
       /\ HealthServices(env).keeper = KeeperBoots(env)
       /\ Relays(env) /\ ~HealthServices(env).relayer =>
            env.relayerKey = {} /\ RelayerKey(env) = env.keeperKey
  /\ \E env \in ServerEnvs : Relays(env) /\ ~HealthServices(env).relayer
  /\ \E env \in ServerEnvs : ~Relays(env) /\ HealthServices(env).relayer

(* When shutdown closes the database, everything that writes to it runs on: *)
(* the loops that it stops are the ones that only stream.                   *)
ASSUME WritersOutliveTheDatabase ==
  \A env \in ServerEnvs :
    AfterShutdown(env) = Loops(env) \cap {"indexer", "keeper", "chatPrune"}

(* A database that fails, however often, is reported and does not end the   *)
(* process, and anything else ends it; but a connection that the chain      *)
(* refuses passes for the database's (index.ts:253 has only the database in *)
(* mind).                                                                   *)
ASSUME DatabaseFailureIsSurvived ==
  LET reasons == {"DATABASE_URL", "postgres", "ECONNREFUSED", "bug"}
      after(s) == FoldLeft(UnhandledRejection, [alive |-> TRUE, reported |-> FALSE], s)
  IN  /\ \A n \in 0 .. 3 : \A s \in [1 .. n -> reasons] :
           /\ after(s).alive = ("bug" \notin Range(s))
           /\ after(s).alive => after(s).reported = (n > 0)
      /\ after(<<"ECONNREFUSED">>).reported

-----------------------------------------------------------------------------
(* HTTP.                                                                    *)
Segments == {"bot-arena", "deck", "settlement", "relay", "swipe", "health", "ws", "deckmaster",
             "generate", "reveal", "docs", "openapi.json", "duels", "recent", "id", "leaderboard",
             "me", "season", "avatar", "avatars", "sponsor", "manager"}
Paths == {<<a>> : a \in Segments} \cup {<<a, b>> : a \in Segments, b \in Segments}
Methods == {"GET", "POST", "OPTIONS", "DELETE"}

(* At most one handler answers a request: the order in which index.ts asks  *)
(* them is of no account.                                                   *)
ASSUME HandlersAreDisjoint ==
  \A path \in Paths, method \in Methods : Cardinality(ClaimedBy(method, path)) <= 1

(* Every address in the boot log is served, but for /sponsor and /manager,  *)
(* which are answered with a pointer to the documentation and a 200.        *)
ASSUME AnnouncedButAbsent ==
  {a \in Announced : Served(a[1], a[2])[1] = "documentation"} =
    {<<"GET", <<"sponsor">>>>, <<"POST", <<"sponsor">>>>, <<"GET", <<"manager">>>>}

(* A request is refused for its method on three addresses only: elsewhere a *)
(* wrong method, like an address that does not exist, succeeds.             *)
ASSUME WrongMethodSucceeds ==
  /\ {path \in Paths : \E method \in Methods : Served(method, path)[2] = 405} =
       {<<"bot-arena", "deck">>, <<"bot-arena", "settlement">>, <<"relay", "swipe">>}
  /\ \A path \in Paths : Served("DELETE", path)[2] \in {200, 405}

-----------------------------------------------------------------------------
(* WebSocket messages.                                                      *)
Senders == {{}, {"a"}, {"b"}}
QueueTiers == {<<"practice", 0>>, <<"free", 0>>, <<"casual", 3>>}
Messages == {[type |-> t, parsed |-> p, valid |-> v, tier |-> tier[1], stake |-> tier[2]] :
               t \in Limited \cup Unlimited \cup {"duel_start"}, p \in BOOLEAN, v \in BOOLEAN, tier \in QueueTiers}
Worlds == [balance : {{}, {2}, {3}}, markets : {{}, {LEAST_DECK - 1}, {LEAST_DECK}}]
Stock(n) == [bucket \in Limited \X {"anon", "a", "b"} |-> n]
Handled(n, m, address, world) == Dispatch(m, address, Stock(n), world)

(* Nobody enters the queue without an address, the stake and markets to     *)
(* play on; and a free duel asks for no balance.                            *)
ASSUME OnlyTheAbleQueue ==
  \A m \in {x \in Messages : x.type = "queue_join"}, address \in Senders, world \in Worlds :
    ("queue_join" \in Handled(1, m, address, world).call) =
      ( /\ m.parsed /\ m.valid /\ address # {} /\ m.tier # "practice"
        /\ m.stake > 0 => world.balance # {} /\ \A b \in world.balance : b >= m.stake
        /\ \E n \in world.markets : n >= LEAST_DECK )

(* A message is either answered with an error or handled, never both; one   *)
(* that is malformed spends nothing, and one whose bucket is empty does     *)
(* nothing.                                                                 *)
ASSUME AnsweredOrHandled ==
  \A m \in Messages, address \in Senders, world \in Worlds, n \in 0 .. 1 :
    LET d == Handled(n, m, address, world)
    IN  /\ Cardinality(d.error \cup d.call) <= 1
        /\ Cardinality(d.error \cup d.call) = 0 => m.type = "room_unsubscribe" /\ ~m.valid
        /\ d.tokens # Stock(n) => n > 0 /\ Malformation(m) = {}
        /\ n = 0 /\ m.type \in Limited => d.call = {}

(* A join that is refused at the gate has spent its token: a player who     *)
(* tries until markets open is told to slow down when they do.              *)
ASSUME RefusalsAreCharged ==
  LET join == [type |-> "queue_join", parsed |-> TRUE, valid |-> TRUE, tier |-> "casual", stake |-> 3]
      closed == [balance |-> {3}, markets |-> {LEAST_DECK - 1}]
      open == [balance |-> {3}, markets |-> {LEAST_DECK}]
      first == Handled(1, join, {"a"}, closed)
  IN  /\ first.error = {"oracles_unavailable"}
      /\ Dispatch(join, {"a"}, first.tokens, open).error = {"rate_limited"}

(* Two players never spend each other's tokens, and those without an        *)
(* address all spend the same.                                              *)
ASSUME AnonymousShareABucket ==
  \A m \in {x \in Messages : x.type \in Limited /\ x.parsed /\ x.valid}, world \in Worlds :
    LET After(address) == Handled(1, m, address, world).tokens
    IN  /\ Dispatch(m, {"b"}, After({"a"}), world).error # {"rate_limited"}
        /\ Dispatch(m, {"a"}, After({}), world).error # {"rate_limited"}
        /\ Dispatch(m, {}, After({}), world).error = {"rate_limited"}

-----------------------------------------------------------------------------
(* Broadcasts.                                                              *)
Connections == [1 .. 3 -> {{}, {"a"}, {"b"}, {"c"}}]

(* The global chat goes to everybody who said hello: a connection without   *)
(* an address hears nothing, and /health counts players, not their tabs.    *)
ASSUME ChatIsForTheNamed ==
  \A conns \in Connections :
    /\ BroadcastAll(conns) = UNION {SocketsForAddress(conns, a) : a \in {"a", "b", "c"}}
    /\ ConnectedAddressCount(conns) <= Cardinality(BroadcastAll(conns))
    /\ (ConnectedAddressCount(conns) = 0) = (BroadcastAll(conns) = {})

(* A reaction reaches the players of its duel alone once the duel is        *)
(* mirrored, whoever sent it: its sender too, whom chat.ts:159 leaves out   *)
(* ("the other player only"), and a spectator's as well as a player's.      *)
ASSUME ReactionsEcho ==
  \A conns \in Connections, room \in SUBSET (1 .. 3), c \in 1 .. 3 :
    LET duel == {[creator |-> {"a"}, challenger |-> {"b"}]}
        pending == {[creator |-> {"a"}, challenger |-> {}]}
        audience(d) == ChatReact(conns, c, TRUE, TRUE, d, room).audience
    IN  /\ conns[c] # {} => audience(duel) = {k \in 1 .. 3 : conns[k] \in {{"a"}, {"b"}}}
        /\ conns[c] \in {{"a"}, {"b"}} => c \in audience(duel)
        /\ conns[c] # {} => audience(pending) = room /\ audience({}) = room
        /\ conns[c] = {} => audience(duel) = {}
        /\ (conns[c] = {}) = (ChatReact(conns, c, TRUE, TRUE, duel, room).error = {"no_address"})

(* sendToAddresses sends once to each connection of each address, unless an *)
(* address is listed twice.                                                 *)
ASSUME NoSecondSend ==
  \A conns \in Connections, a, b \in {"a", "b", "c"} :
    (\A c \in 1 .. 3 : SendToAddresses(conns, <<a, b>>)[c] <= 1) <=>
      (a # b \/ SocketsForAddress(conns, a) = {})

-----------------------------------------------------------------------------
(* The price of a relayed swipe.                                            *)
Depths == UNION {[1 .. n -> [price : 1 .. ONE_PROBABILITY - 1, quantity : {1, RELAY_QUANTITY}]] : n \in 0 .. 1}
Executed(bids, asks, direction) ==
  PriceSwipe({QuoteOverBook(BuildOrderBook(bids, asks), direction, RELAY_QUANTITY)}, ONE_PROBABILITY)

(* Whatever the book, a swipe is filled with something, never with more     *)
(* than was asked for, and never costs more than it can pay; where the book *)
(* is empty either side costs half of what it pays.                         *)
ASSUME SwipesArePlayable ==
  \A bids, asks \in Depths, direction \in {"UP", "DOWN"} :
    LET e == Executed(bids, asks, direction)
    IN  /\ e.filled \in 1 .. RELAY_QUANTITY
        /\ e.premium \in 0 .. e.filled
        /\ bids = <<>> /\ asks = <<>> => 2 * e.premium = e.filled

(* A thin book fills less than the even odds of no book at all: the same    *)
(* swipe without a market is worth more contracts.                          *)
ASSUME ThinBooksFillLess ==
  /\ \A quote \in {{}, {[avgPrice |-> {1}, fillableQuantity |-> 1, cost |-> 1]}} :
       Execution({}, quote, ONE_PROBABILITY) = EvenOdds(ONE_PROBABILITY)
  /\ \E bids, asks \in Depths : Executed(bids, asks, "UP").filled < EvenOdds(ONE_PROBABILITY).filled

-----------------------------------------------------------------------------
(* Order books.                                                             *)
Levels == [price : 1 .. ONE_PROBABILITY - 1, quantity : 0 .. 2]
Sides == Seqs(Levels, 2)
Quantities == 0 .. 5

UnitsOf(levels) ==
  UNION {{<<levels[i].price, i, k>> : k \in 1 .. levels[i].quantity} : i \in DOMAIN levels}

\* The least that n of the units, or all of fewer, can cost.
Cheapest(units, n) ==
  Min({MapThenSumSet(LAMBDA u : u[1], taken) :
         taken \in kSubset(Min({n, Cardinality(units)}), units)})

(* A book keeps exactly the units on offer; its touch is the best price.    *)
ASSUME BooksAreOrdered ==
  \A bids, asks \in Sides :
    LET book == BuildOrderBook(bids, asks)
        offered(levels) == {l \in {levels[i] : i \in DOMAIN levels} : l.quantity > 0}
    IN  /\ book.bestBid = {p \in {l.price : l \in offered(bids)} :
                             \A l \in offered(bids) : l.price <= p}
        /\ book.bestAsk = {p \in {l.price : l \in offered(asks)} :
                             \A l \in offered(asks) : l.price >= p}
        /\ {book.bids[i] : i \in DOMAIN book.bids} = offered(bids)
        /\ book.bidDepth = MapThenSumSet(LAMBDA i : bids[i].quantity, DOMAIN bids)
        /\ \A x \in book.imbalance : -SCALE <= x /\ x <= SCALE
        /\ (book.imbalance = {}) <=> (offered(bids) \cup offered(asks) = {})

(* A quote fills what there is up to the quantity, and costs what the       *)
(* cheapest units cost, less the rounding of each level it reaches.         *)
ASSUME QuotesTakeTheCheapest ==
  \A asks \in Sides, q \in Quantities :
    LET quote == QuoteOverBook(BuildOrderBook(<<>>, asks), "UP", q)
        depth == TotalDepth(asks)
        exact == Cheapest(UnitsOf(SelectSeq(asks, LAMBDA l : l.quantity > 0)), q)
    IN  /\ quote.fillableQuantity = Min({q, depth})
        /\ quote.insufficientLiquidity <=> depth < q
        /\ quote.cost * ONE_PROBABILITY <= exact
        /\ exact < quote.cost * ONE_PROBABILITY + 2 * ONE_PROBABILITY

(* Where no bid reaches an ask, an UP and a DOWN unit cost no less than the *)
(* one unit that the pair pays, but for the rounding.                       *)
ASSUME PairsAreNotFree ==
  \A bids, asks \in Sides, q \in 1 .. 2 :
    LET book == BuildOrderBook(bids, asks)
        up == QuoteOverBook(book, "UP", q)
        down == QuoteOverBook(book, "DOWN", q)
        lost == Len(book.bids) + Len(book.asks)
    IN  (/\ \A b \in book.bestBid, a \in book.bestAsk : b <= a
         /\ up.fillableQuantity = q /\ down.fillableQuantity = q)
          => up.cost + down.cost + lost > q

(* The two sides of a card share its payout, or its refund.                 *)
ASSUME PayoutIsShared ==
  \A q \in Quantities, cost \in 0 .. 3, winner \in {{"UP"}, {"DOWN"}}, voided \in BOOLEAN :
    LET both == CardPnl("UP", q, cost, winner, voided) + CardPnl("DOWN", q, cost, winner, voided)
    IN  both + 2 * cost = (IF voided THEN q - (q % 2) ELSE q)

(* The contrarian side is never the dearer one.                             *)
ASSUME ContrarianIsCheaper ==
  \A bids, asks \in Sides : \A edge \in ContrarianEdge(BuildOrderBook(bids, asks)) :
    0 < edge.contrarianPrice /\ 2 * edge.contrarianPrice <= ONE_PROBABILITY

-----------------------------------------------------------------------------
(* The agents of the arena.                                                 *)
Strategies == {"momentum", "mean-reversion", "clob-imbalance", "contrarian"}
Books == {BuildOrderBook(bids, asks) : bids, asks \in Seqs(Levels, 1)}
Histories == Seqs(0 .. 2, 4) \cup Seqs({40, 41, 43}, 3)
Contexts == [book : {{}} \cup {{book} : book \in Books}, midHistory : {<<>>}]
              \cup [book : {{}}, midHistory : Histories]

(* Difficulty scales how decisive an agent is and nothing else: where an    *)
(* easier one makes a call, a harder one makes the same.                    *)
ASSUME HarderIsOnlyBolder ==
  \A strategy \in Strategies, context \in Contexts :
    LET easy == Decide(strategy, "easy", context)
        medium == Decide(strategy, "medium", context)
        hard == Decide(strategy, "hard", context)
    IN  /\ easy # NoSignal => easy = medium
        /\ medium # NoSignal => medium = hard
        /\ hard.confidence[1] \in 0 .. hard.confidence[2]

(* The two that fade the crowd never take opposite sides, and the side of   *)
(* the contrarian costs no more than the other.                             *)
ASSUME FadersAgree ==
  \A context \in Contexts :
    LET contrarian == Decide("contrarian", "hard", context)
        reversion == Decide("mean-reversion", "hard", context)
    IN  contrarian # NoSignal =>
          /\ contrarian.directions = reversion.directions
          /\ \A side \in contrarian.directions, other \in {"UP", "DOWN"}, book \in context.book :
               CostOf(book.mid, side) <= CostOf(book.mid, other)

(* The side of the imbalance is the one with more resting.                  *)
ASSUME ImbalanceFollows ==
  \A book \in Books :
    LET decision == Decide("clob-imbalance", "medium", [book |-> {book}, midHistory |-> <<>>])
    IN  decision # NoSignal =>
          /\ book.bidDepth + book.askDepth >= MIN_DEPTH
          /\ decision.directions = {IF book.bidDepth > book.askDepth THEN "UP" ELSE "DOWN"}

(* A series that only rises is momentum for UP, one that only falls for     *)
(* DOWN, unless it starts from nothing; too short a one is no signal.       *)
ASSUME MomentumFollows ==
  \A history \in Histories :
    LET decision == Decide("momentum", "hard", [book |-> {}, midHistory |-> history])
        sorted(Op(_, _)) == \A i, j \in DOMAIN history : i < j => Op(history[i], history[j])
    IN  /\ sorted(LAMBDA a, b : a < b) => "UP" \in decision.directions
        /\ sorted(LAMBDA a, b : a > b) => "DOWN" \in decision.directions
        /\ decision # NoSignal => Len(history) >= MIN_SAMPLES

(* The history keeps the last mids observed, in order.                      *)
ASSUME HistoryIsRecent ==
  \A mids \in Seqs(0 .. 1, MID_HISTORY_LIMIT + 2) :
    FoldLeft(LAMBDA series, mid : RecordMid(RecordMid(series, {mid}), Unknown), <<>>, mids)
      = SubSeq(mids, IF Len(mids) > MID_HISTORY_LIMIT
                     THEN Len(mids) - MID_HISTORY_LIMIT + 1 ELSE 1, Len(mids))

(* Opposite picks of one card are a zero-sum game, whatever they paid and   *)
(* however the market settles.                                              *)
ASSUME OppositePicksAreZeroSum ==
  \A mid \in {Unknown} \cup {{m} : m \in 0 .. ONE_PROBABILITY},
     winner \in {{"UP"}, {"DOWN"}}, voided \in BOOLEAN :
    LET result(side) == CardPnl(side, STAKE_PER_CARD, CostOf(mid, side), winner, voided)
    IN  result("UP") + result("DOWN") = 0

-----------------------------------------------------------------------------
(* Ratings.                                                                 *)
Pools == Seqs([rating : 0 .. 3, wait : 0 .. 1], 3)

(* The opponent is the first of those with the least gap in a window.       *)
ASSUME OpponentIsTheClosest ==
  \A pool \in Pools, mine \in 0 .. 3, wait \in 0 .. 1 :
    LET picked == FindClosestOpponent(mine, wait, pool)
        gap(i) == Gap(pool[i].rating, mine)
        inWindow == {i \in DOMAIN pool :
                       gap(i) <= MatchWindow(wait) \/ gap(i) <= MatchWindow(pool[i].wait)}
    IN  IF inWindow = {} THEN picked = 0
        ELSE /\ picked \in inWindow
             /\ \A i \in inWindow : gap(picked) <= gap(i)
             /\ \A i \in inWindow : gap(i) = gap(picked) => picked <= i

(* Seen from the other seat a duel has the mirrored outcome.                *)
Mirrored(x) == CASE x \in {"p0", "p0_win"} -> IF x = "p0" THEN "p1" ELSE "p1_win"
                 [] x \in {"p1", "p1_win"} -> IF x = "p1" THEN "p0" ELSE "p0_win"
                 [] OTHER -> x

ASSUME OutcomeIsSymmetric ==
  \A d \in [winner : {"p0", "p1", "tie", "none"},
            p0Payout : 0 .. 2, p0Premium : 0 .. 2, p1Payout : 0 .. 2, p1Premium : 0 .. 2] :
    OutcomeFromDuel([winner |-> Mirrored(d.winner),
                     p0Payout |-> d.p1Payout, p0Premium |-> d.p1Premium,
                     p1Payout |-> d.p0Payout, p1Premium |-> d.p0Premium])
      = Mirrored(OutcomeFromDuel(d))

-----------------------------------------------------------------------------
(* Decks.                                                                   *)
Rows == Seqs([id : 1 .. 3, expiry : 1 .. 4, lifetime : {{}, {1}, {2}}], 3)
Consistent(rows) == \A i, j \in DOMAIN rows : rows[i].id = rows[j].id => rows[i] = rows[j]
Expiries(s) == {s[i].expiry : i \in DOMAIN s}
InOrder(s) == \A i, j \in DOMAIN s : i < j => s[i].expiry <= s[j].expiry
IdsDistinct(s) == \A i, j \in DOMAIN s : s[i].id = s[j].id => i = j

(* The markets picked are live, distinct and in order of expiry, as many as *)
(* asked for if there are, and none left out expires sooner than one taken. *)
ASSUME MarketsAreTheSoonest ==
  \A rows \in {r \in Rows : Consistent(r)}, count \in 0 .. 2 :
    LET picked == SelectMarketRows(rows, 1, 0, 2, count)
        live == {r \in {rows[i] : i \in DOMAIN rows} : r.expiry \in {2, 3}}
        taken == {picked[i] : i \in DOMAIN picked}
    IN  /\ taken \subseteq live /\ IdsDistinct(picked) /\ InOrder(picked)
        /\ Len(picked) = Min({count, Cardinality(live)})
        /\ \A r \in live \ taken, t \in taken : t.expiry <= r.expiry

(* A tiered pick never holds one market twice, nor more of a tier than its  *)
(* share, and a long market never.                                          *)
ASSUME TiersKeepTheirShare ==
  \A rows \in {r \in Rows : Consistent(r)}, shorts, mids \in 0 .. 2 :
    LET picked == SelectTieredMarkets(rows,
                    [now |-> 0, maxHorizon |-> 4, shortCount |-> shorts, midCount |-> mids,
                     shortTtlFloor |-> 2, midTtlFloor |-> 1])
        of(tier) == {i \in DOMAIN picked : ClassifyTier(picked[i].lifetime) = tier}
    IN  /\ IdsDistinct(picked) /\ InOrder(picked)
        /\ Cardinality(of("short")) <= shorts /\ Cardinality(of("mid")) <= mids
        /\ of("long") = {}

(* The size of a deck is one that the contract takes, whatever was asked.   *)
Asked == {{}} \cup {{n} : n \in -1 .. MAX_CARDS + 2}
ASSUME DeckFitsTheContract ==
  \A body \in [deckSize : Asked, minDeckSize : Asked, maxDeckSize : Asked] :
    LET bounds == ResolveDeckBounds(body)
    IN  /\ MIN_CARDS <= bounds.min /\ bounds.min <= bounds.max /\ bounds.max <= MAX_CARDS
        /\ DecideDeckSize(1, bounds).deckSize \in MIN_CARDS .. MAX_CARDS

(* Up to five cards fit on one market with fine ticks without two alike,    *)
(* whatever the PRG deals.  Of twenty that no longer holds.               *)
Fine == [id |-> 1, tickSize |-> 1, admissionTickSize |-> 1]
IsDistinct(deck) == \A i, j \in DOMAIN deck : deck[i] = deck[j] => i = j

ASSUME CardsAreDistinct ==
  \A size \in 1 .. 5 : \A signs \in SignBalances(size), zones \in ZoneAllocations(size) :
    IsDistinct(BuildDeck(<<Fine>>, 10000, signs, zones))

ASSUME DuplicatesArise ==
  ~ IsDistinct(BuildDeck(<<Fine>>, 10000,
                         [i \in 1 .. 20 |-> IF i % 2 = 0 THEN 1 ELSE -1], BaseZones(20)))

(* Quoted strikes that all fall together leave room for eleven cards on one *)
(* market, if none is pushed below zero, and for no twelfth.                *)
ASSUME QuotedCardsAreDistinct ==
  \A size \in {2, 11, 12}, sign \in {1, -1}, raw \in 20 .. 22 :
    LET market == [id |-> 1, tickSize |-> 1, admissionTickSize |-> 2]
    IN  IsDistinct(BuildSviDeck(<<market>>, [i \in 1 .. size |-> raw], [i \in 1 .. size |-> sign]))
          <=> size <= 11

(* The draws make every order of the cards, each by one way only, so that   *)
(* fair draws are a fair shuffle.                                           *)
ASSUME ShuffleIsFair ==
  \A n \in 1 .. 5 :
    LET orders == {Shuffle([i \in 1 .. n |-> i], d) : d \in Draws(n)}
    IN  /\ Cardinality(orders) = Cardinality(Draws(n))
        /\ orders = SetToSeqs(1 .. n)

(* The hinted range is on the side that the card favours, and on practice   *)
(* the favoured side is the likelier.                                       *)
ASSUME HintsPointTheSameWay ==
  \A size \in 1 .. 3 : \A signs \in SignBalances(size), zones \in ZoneAllocations(size) :
    LET practice == PracticeDeck(signs, zones)
        deck == BuildDeck(<<Fine>>, 10000, signs, zones)
    IN  \A i \in DOMAIN deck :
          LET hints == Hints(deck[i], signs[i])
          IN  /\ hints.isUpFavored <=> 2 * practice[i].pUp > CERTAIN
              /\ hints.isUpFavored <=> 10000 \in hints.lowerTick .. hints.higherTick /\ hints.lowerTick > 0
              /\ hints.lowerTick < hints.higherTick
              /\ i > 1 => practice[i].expiryOffsetMs > practice[i - 1].expiryOffsetMs
=============================================================================
