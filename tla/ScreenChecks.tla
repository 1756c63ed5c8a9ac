---------------------------- MODULE ScreenChecks ----------------------------
(***************************************************************************)
(* The screens (DuelScreen with DuelClient, SwipeSurface with the ticks of *)
(* the price streams of Server, ResultMath) against what they are for, on  *)
(* every input within small bounds, as in ServerChecks.                    *)
(***************************************************************************)
EXTENDS DuelScreen, SwipeSurface, Server
LOCAL INSTANCE FiniteSetsExt
LOCAL INSTANCE SequencesExt

\* Half of a timeout apart, so that the two timeouts of the contract differ.
Refunds == INSTANCE DuelClient WITH
  Zero <- "zero", Collateral <- "usdc", SECOND <- 1, REFUND_TIMEOUT_MS <- 1,
  DUEL_TIMEOUT_MS <- 3, FAUCET_MAX <- 1

Opt(S) == {{}} \cup {{x} : x \in S}
SeqsOf(S, n) == UNION {[1 .. k -> S] : k \in 0 .. n}

OnePick == Opt({[isUp |-> TRUE, quantity |-> 2, premium |-> {}]})
CardTicks == Opt({[spot |-> {s}, expiryMs |-> {5}, settled |-> p # {}, settlementPrice |-> p] :
                      s \in {1, 3}, p \in Opt({1, 3})})
\* MirrorRows of two cards on two markets; the second card may lack its outcome.
MirrorRows ==
  {[id |-> "d", status |-> status, creator |-> "ab", challenger |-> "cd", cardCount |-> 2,
    settledCount |-> Len(outcomes), startedAtMs |-> 1, lastUpdatedMs |-> 1,
    cards |-> <<[market |-> "m", strike |-> 2], [market |-> "n", strike |-> 2]>>,
    cardOutcomes |-> outcomes, swipes |-> swipes] :
     status \in {"ACTIVE", "COMPLETE"},
     outcomes \in {o \in SeqsOf([cardIdx : 1 .. 2, p0 : Opt({-1, 0}), p1 : Opt({1})], 2) :
                     Len(o) = 2 => o[1].cardIdx # o[2].cardIdx},
     swipes \in {{[cardIdx |-> 1, p0 |-> a, p1 |-> b]} : a, b \in OnePick}}
TickTables == [{"m", "n"} -> CardTicks]

(* The sound and the badge of a card agree (duel-view.tsx:174-177), and a   *)
(* spectator hears nothing.                                                 *)
ASSUME SoundAndBadgeAgree ==
  \A duel \in MirrorRows, ticks \in TickTables, me \in {"ab", "cd", "ef"} :
    LET heard == SettleStates(duel, me, ticks, {})
    IN  IF me = "ef" THEN heard = <<>>
        ELSE \A i \in 1 .. 2 :
               LET seen == Tile(duel, i, Seat(duel, me), ticks, FALSE, TRUE, {}).state
               IN  heard[i] = IF seen = "live" THEN "pending" ELSE seen

(* A card that the replay has not reached shows nothing of its outcome.     *)
ASSUME HiddenTilesTellNothing ==
  \A duel \in MirrorRows, ticks \in TickTables, i \in 1 .. 2 :
    LET tile(d, t) == Tile(d, i, "p0", t, TRUE, FALSE, {})
        unsettled == [m \in {"m", "n"} |->
                        {[t EXCEPT !.settled = FALSE, !.settlementPrice = {}] : t \in ticks[m]}]
    IN  tile(duel, ticks) = tile([duel EXCEPT !.cardOutcomes = <<>>], unsettled)

(* The chart's last value is the sum of what the tiles show, where every    *)
(* outcome has the pnl of who swiped.                                       *)
ASSUME ChartIsSumOfTiles ==
  \A duel \in MirrorRows, ticks \in TickTables, seat \in {"p0", "p1"} :
    (\A k \in DOMAIN duel.cardOutcomes :
       duel.cardOutcomes[k][seat] = {} => SwipeOf(duel, duel.cardOutcomes[k].cardIdx, seat) = {})
    => CurrentRunningPnl(duel, seat, ticks, {})
         = MapThenSumSet(LAMBDA i :
             MapThenSumSet(LAMBDA x : x, Tile(duel, i, seat, ticks, FALSE, TRUE, {}).pnl), 1 .. 2)

(* The mirror's rows have no swipes (somnia-indexer.ts:215), so that each   *)
(* ACTIVE duel is declared dead, of neither player's making, as soon as one *)
(* of its markets has settled.                                              *)
ASSUME EveryDuelLooksDead ==
  \A duel \in MirrorRows, ticks \in TickTables, me \in {"ab", "cd"} :
    LET mirrored == [duel EXCEPT !.swipes = {}]
    IN  mirrored.status = "ACTIVE" /\ SettledMarkets(mirrored, ticks) # {}
          => Dead(mirrored, ticks) /\ DeadMsg(mirrored, me, ticks) = "not every"

(* The message names the one who did not finish, to either player.          *)
ASSUME DeadMsgNamesTheAbsent ==
  \A duel \in MirrorRows, ticks \in TickTables :
    Dead(duel, ticks) =>
      (DeadMsg(duel, "ab", ticks) = "opponent" <=> DeadMsg(duel, "cd", ticks) = "you")

(* The count down to a refund runs to REFUND_TIMEOUT_MS, but a deck that    *)
(* was revealed is refunded at DUEL_TIMEOUT_MS only: between the two the    *)
(* refund "opens in 0:00" and is not there.                                 *)
ASSUME CountdownEndsTooSoon ==
  \E duel \in MirrorRows, ticks \in TickTables, nowMs \in 2 .. 3 :
    RefundBox(duel, "ab", ticks, Refunds!RefundEligibility(duel, "ab", nowMs), FALSE,
              duel.startedAtMs + 1, nowMs) = {<<"opens in", 0>>}

(* Once the claim is offered the box offers it, and never to a spectator.   *)
ASSUME OfferedInTheBox ==
  \A duel \in MirrorRows, ticks \in TickTables, me \in {"ab", "cd", "ef"}, nowMs \in 2 .. 6 :
    LET kind == Refunds!RefundEligibility(duel, me, nowMs)
        box == RefundBox(duel, me, ticks, kind, FALSE, duel.startedAtMs + 1, nowMs)
    IN  /\ box = {<<"claim", 0>>} <=> kind # {} /\ Dead(duel, ticks)
        /\ me = "ef" => box = {}

(* What is shown of an amount is never more than it is, and less by no more *)
(* than one of the last digit.                                              *)
ASSUME ShownIsNoMore ==
  \A base \in -25 .. 25, scale \in {10}, cut \in {1, 5, 10} :
    LET shown == Refunds!FormatCollateral(base, scale, cut)
        worth == shown.whole * scale + shown.fraction * cut
        abs == IF base < 0 THEN -base ELSE base
    IN  worth <= abs /\ abs < worth + cut

-----------------------------------------------------------------------------
(* The replay.  A poll brings the same duel again; a skip is the player's.  *)
EndedDuel(n) == [id |-> "d", status |-> "COMPLETE", creator |-> "ab", challenger |-> "cd",
                cards |-> [i \in 1 .. n |-> [market |-> "m", strike |-> 2]]]
Started(n) == DuelArrives(NoReplay, EndedDuel(n), FALSE, FALSE)
RunReplay(n, events) ==
  FoldLeft(LAMBDA r, e : CASE e = "poll" -> DuelArrives(r, EndedDuel(n), TRUE, FALSE)
                           [] e = "timer" -> RevealNext(r, n)
                           [] e = "skip" -> SkipReplay(r, n), Started(n), events)

(* Left alone it reveals each card, hides none again, and ends; a skip ends *)
(* it at any point.                                                         *)
ASSUME ReplayEnds ==
  \A n \in 1 .. 3, events \in SeqsOf({"poll", "timer", "skip"}, 4) :
    LET r == RunReplay(n, events)
        kinds == {events[i] : i \in DOMAIN events}
        timers == Cardinality({i \in DOMAIN events : events[i] = "timer"})
    IN  /\ "skip" \in kinds => ~r.replaying
        /\ kinds \subseteq {"timer"} /\ timers >= n => ~r.replaying
        /\ "skip" \notin kinds /\ ~r.replaying => r.revealed = n
        /\ "skip" \notin kinds /\ events # <<>>
             => RunReplay(n, Front(events)).revealed <= r.revealed

(* A skip disarms no timer: the next one hides the cards that the skip had  *)
(* revealed, and where a poll then disarms the rest they stay hidden.       *)
ASSUME SkipIsUndone ==
  \A n \in 2 .. 3, polls \in SeqsOf({"poll"}, 2) :
    RunReplay(n, <<"skip", "timer">> \o polls).revealed = 1

(* A poll that comes before the last card is revealed disarms the others:   *)
(* the replay stands still, and the result does not open, until it is       *)
(* skipped.  Every deck whose replay is longer than a poll is one.          *)
ASSUME PollCutsReplay ==
  \A n \in 1 .. 3, events \in SeqsOf({"poll", "timer"}, 4) :
    (\E i \in DOMAIN events : events[i] = "poll" /\ i <= n)
      => LET r == RunReplay(n, events)
         IN  r.replaying /\ ~OpensResult(EndedDuel(n), "ab", r, {})
ASSUME LongReplaysAreCut ==
  \E n \in 1 .. 20 : \A k \in 1 .. 20 : ReplayDurationMs(k) > POLL_INTERVAL_MS <=> k > n

-----------------------------------------------------------------------------
(* The lists.                                                               *)
ListRows == [status : {"PENDING", "ACTIVE", "COMPLETE"}, cardCount : {0, 2}, settledCount : {0, 2},
             lastUpdatedMs : 0 .. 2, startedAtMs : {0}]
Lists == SeqsOf(ListRows, 2)

(* The tile shows a duel in play whenever there is one, which the history   *)
(* then lists among the first, and never one that awaits its opponent; the  *)
(* history loses no row.                                                    *)
ASSUME TileShowsWhatIsPlayed ==
  \A duels \in Lists :
    LET pick == PickMatch(duels)
        listed == HistoryOrder(duels)
    IN  /\ (\E i \in DOMAIN duels : IsLiveDuel(duels[i])) <=> \E d \in pick : IsLiveDuel(d)
        /\ \A d \in pick : d.status # "PENDING"
        /\ \A d \in pick : IsLiveDuel(d) => listed[1].status = "ACTIVE"
        /\ pick = {} <=> \A i \in DOMAIN duels : duels[i].status = "PENDING"
        /\ \A r \in ListRows : Cardinality({i \in DOMAIN duels : duels[i] = r})
                                 = Cardinality({i \in DOMAIN listed : listed[i] = r})

EndedDuels == [winner : {"p0", "p1", "tie"}, creator : {"ab"}, challenger : {"cd"},
                p0Payout : {0}, p0Premium : {0}, p1Payout : {0}, p1Premium : {0}]

(* The two records of a pairing are mirror images, and a streak is of wins. *)
ASSUME RecordsMirror ==
  \A duels \in SeqsOf(EndedDuels, 4) :
    LET mine == PlayerRecord(duels, "ab")
        theirs == PlayerRecord(duels, "cd")
    IN  /\ mine.wins = theirs.losses /\ mine.ties = theirs.ties
        /\ mine.wins + mine.losses + mine.ties = Len(duels)
        /\ mine.streak <= mine.wins /\ (mine.streak = 0 \/ theirs.streak = 0)

(* A participant reaches the game unless each read fails or comes too soon, *)
(* and who watches never does.                                              *)
DuelReads == Opt({[status |-> s, creator |-> "ab", challenger |-> c] :
                      s \in {"ACTIVE", "COMPLETE"}, c \in {"cd", "zero"}})
ASSUME OnlyPlayersPlay ==
  \A reads \in [1 .. PLAY_ATTEMPTS + 1 -> DuelReads] :
    /\ PlayLoad(reads, "ef") \in {"redirect", "error"}
    /\ PlayLoad(reads, "cd") = "ready" =>
         \E i \in DOMAIN reads : \E d \in reads[i] : d.challenger = "cd" /\ d.status = "ACTIVE"
    /\ PlayLoad(reads, "ab") = "redirect" => \E i \in DOMAIN reads : \E d \in reads[i] : d.status = "COMPLETE"

-----------------------------------------------------------------------------
(* The charts.                                                              *)
AtCount(id, settled) == [id |-> id, settledCount |-> settled, cards |-> <<>>, swipes |-> {},
                          cardOutcomes |-> <<>>]
VisitChart(h, duel, now) ==
  RecordSample(MarkBoundaries(h, duel, now), duel, [m \in {} |-> {}], {}, now)

(* However often the page is reloaded while a duel settles, no card is      *)
(* marked twice; the cards that settle while it is away are never marked.   *)
ASSUME CardsMarkedOnce ==
  \A a, b, c \in 0 .. 2 : a <= b /\ b <= c =>
    LET before == VisitChart(NoHistory, AtCount("d", a), 1)
        kept == Persist(before, AtCount("d", a), -PERSIST_MS, 1, {})
        back == VisitChart(HydrateHistory(NoHistory, AtCount("d", b), kept), AtCount("d", b), 2)
        after == VisitChart(back, AtCount("d", c), 3)
        marked == {after.boundaries[i].idx : i \in DOMAIN after.boundaries}
    IN  /\ Cardinality(marked) = Len(after.boundaries)
        /\ marked = IF kept = {} THEN 1 .. c ELSE 1 .. a \cup b + 1 .. c

(* The home tile goes on to another duel without a new chart: the count of  *)
(* the last duel stands, and the first cards of the next are not marked.    *)
ASSUME NextDuelLosesMarks ==
  \E a, b \in 1 .. 2 :
    LET first == VisitChart(NoHistory, AtCount("d", a), 1)
        next == VisitChart(HydrateHistory(first, AtCount("e", b), {}), AtCount("e", b), 2)
    IN  Shown(next, AtCount("e", b)).boundaries = <<>> /\ next.samples # <<>>

(* The eased price lies between where it started and its target, which it   *)
(* reaches in the time that the last gap took.                              *)
ASSUME EasesToTheTarget ==
  \A from, target \in 0 .. 2, start \in 0 .. 1, now \in 1 .. 6 :
    LET e == Ease({[from |-> from, to |-> from, startMs |-> start, durMs |-> 1]}, target, from, now)
        a == Only(e)
    IN  /\ \A t \in now .. now + EASE_MAX_MS :
             Eased(a, t) \in Min({from, target}) .. Max({from, target})
        /\ Eased(a, now + EASE_MAX_MS) = target
        /\ a.durMs <= EASE_MAX_MS

(* The axis spans some time, and the last sample is at its end.             *)
ASSUME AxisHasWidth ==
  \A samples \in SeqsOf([t : 0 .. 2], 2), range \in Opt({1}) :
    LET x == XDomain(samples, range)
    IN  x[1] < x[2] /\ (samples # <<>> => \E i \in DOMAIN samples : samples[i].t = x[2])

(* A wallet whose games were counted under two spellings of its address is  *)
(* shown the better of its two rows, whichever way its own is spelt; and a  *)
(* wallet with a row is never shown none, nor another wallet's.             *)
ASSUME SpellingsAreOnePlayer ==
  LET lower == [a \in {"Ab", "ab", "c"} |-> IF a = "Ab" THEN "ab" ELSE a]
      byRating(board) == \A i, j \in DOMAIN board : i < j => board[i].rating >= board[j].rating
  IN  \A board \in SeqsOf([address : DOMAIN lower, rating : 1 .. 2], 2), me \in DOMAIN lower :
        LET stats == PlayerStats(board, me, lower)
            mine == {i \in DOMAIN board : lower[board[i].address] = lower[me]}
        IN  byRating(board) =>
              /\ \A s \in stats : lower[s.address] = lower[me]
              /\ \A i \in mine : \E s \in stats : s.rating >= board[i].rating

-----------------------------------------------------------------------------
AllOdds == {{p} : p \in 0 .. PROBABILITY}

(* A premium floor never closes a card: one side is always open, and both   *)
(* are while the odds are within the band of funding.ts (17 to 83 percent). *)
ASSUME SomeSideIsOpen ==
  \A odds \in AllOdds \cup {{}} :
    /\ Placeable(TRUE, odds) \/ Placeable(FALSE, odds)
    /\ (\A p \in odds : 6 * p \in PROBABILITY .. 5 * PROBABILITY)
         => Placeable(TRUE, odds) /\ Placeable(FALSE, odds)

(* From its expiry on, a card takes the side that the spot is on and no     *)
(* other: a late swipe is not a bet.                                        *)
ASSUME LateSwipesFollowTheSpot ==
  \A strike, spot \in 1 .. 3, now \in 2 .. 3, open \in AllOdds :
    LET odds == Odds([strike |-> strike], {[spot |-> {spot}, expiry |-> {2}]}, now, open)
    IN  Placeable(TRUE, odds) = (spot > strike) /\ Placeable(FALSE, odds) = (spot <= strike)

-----------------------------------------------------------------------------
(* The stream's ticks as active-duel.tsx:205 keeps them.  Here a second has *)
(* 1000 milliseconds, and a strike is a price in the units of the venue.    *)
ClientTick(msg) == {[spot |-> msg.spot, expiry |-> msg.expiry]}
BookWith(mid) == {[mid |-> mid, bestBid |-> mid, bestAsk |-> mid]}

(* The stream sends the expiry in seconds and the price as a probability    *)
(* (market-stream.ts:139-141), the screen reads milliseconds and compares   *)
(* the price with the strike: on every market whose strike is a price, YES  *)
(* is locked from the first tick to the last, whatever the odds.            *)
ASSUME YesIsLockedOnRealTicks ==
  \A mid \in {1, 500000, 999999}, expirySec \in {60, 90}, nowMs \in {50000, 59999}, open \in AllOdds :
    LET tick == ClientTick(OracleTick("m", BookWith({mid}), {[expirySec |-> expirySec]}))
        odds == Odds([strike |-> 62500000], tick, nowMs, open)
    IN  /\ ~Placeable(TRUE, odds) /\ Placeable(FALSE, odds)
        /\ CountdownColor({expirySec - nowMs}) = "rose" /\ FmtCountdown(expirySec - nowMs) = <<"now">>

(* A book without a mid and a market that could not be read are sent as     *)
(* null, "so the UI renders its honest no-quotes state"                     *)
(* (market-stream.ts:136-138): the swipe screen throws on either, and shows *)
(* a card only for a tick that has both, or before the first tick where the *)
(* card has a label of its own, as in practice.                             *)
ASSUME EmptyBookBreaksTheScreen ==
  \A mid, expirySec \in {{}, {60}}, read \in BOOLEAN, label \in {{}, {45}} :
    LET book == IF read THEN BookWith(mid) ELSE {}
        tick == ClientTick(OracleTick("m", book, {[expirySec |-> e] : e \in expirySec}))
        view == SurfaceView(<<"card">>, 1, tick, label)
    IN  /\ view = "card" <=> read /\ mid # {} /\ expirySec # {}
        /\ view # "card" => view = "throws"
        /\ SurfaceView(<<"card">>, 1, {}, label) = IF label = {} THEN "loading" ELSE "card"

(* A countdown loses no whole second, and is red when it has run out.       *)
ASSUME CountdownIsExact ==
  \A ms \in {-1, 0, 1, 999, 1000, 59999, 60000, 3599999, 3600000, 3661000, 86400000} :
    LET shown == FmtCountdown(ms)
    IN  IF ms <= 0 THEN shown = <<"now">> /\ CountdownColor({ms}) = "rose"
        ELSE /\ shown[3] \in 0 .. 59
             /\ shown[1] = "m" => shown[2] < 60 /\ 1000 * (60 * shown[2] + shown[3]) \in ms - 999 .. ms
             /\ shown[1] = "h" => 60000 * (60 * shown[2] + shown[3]) \in ms - 59999 .. ms

-----------------------------------------------------------------------------
(* The drag.  k counts the swipes sent of the card now shown, and those of  *)
(* them that threw; the odds move and the screen is disabled as they may.   *)
Width == DRAG_COMMIT + 1
FirstDrag == [s |-> FreshSurface, disabled |-> FALSE, odds |-> {}, sent |-> 0, thrown |-> 0,
              offSide |-> FALSE]
DragStep(k, e) ==
  CASE e = "down" -> [k EXCEPT !.s = OnPointerDown(@, k.disabled)]
    [] e = "right" -> [k EXCEPT !.s = OnPointerMove(@, Width)]
    [] e = "left" -> [k EXCEPT !.s = OnPointerMove(@, -Width)]
    [] e = "up" -> LET next == OnPointerUp(k.s, k.odds, k.disabled)
                       sends == next.busy /\ ~k.s.busy
                   IN  [k EXCEPT !.s = next, !.sent = IF sends THEN @ + 1 ELSE @,
                                 !.offSide = @ \/ (sends /\ ~Placeable(k.s.x > 0, k.odds))]
    [] e = "longshot" -> [k EXCEPT !.odds = {0}]
    [] e = "disable" -> [k EXCEPT !.disabled = TRUE]
    [] e = "lands" -> IF ~k.s.busy THEN k ELSE [k EXCEPT !.s = SwipeLands(@), !.sent = 0, !.thrown = 0]
    [] e = "throws" -> IF ~k.s.busy THEN k ELSE [k EXCEPT !.s = SwipeThrows(@), !.thrown = @ + 1]
AfterDrag(events) == FoldLeft(DragStep, FirstDrag, events)
DragEvents == {"down", "right", "left", "up", "longshot", "disable", "lands", "throws"}
Dragged == SeqsOf(DragEvents, 5) \cup
           {<<"down", "right", "up">> \o g : g \in SeqsOf(DragEvents, 4)}

(* One swipe at a time is sent of a card, another only once it has failed,  *)
(* and none to a side that is closed.                                       *)
ASSUME OneSwipeOfACard ==
  \A events \in Dragged :
    LET k == AfterDrag(events)
    IN  k.sent <= k.thrown + 1 /\ ~k.offSide /\ (k.s.busy => k.sent = k.thrown + 1)

(* A card that has flown off has a swipe in flight, and so comes back or    *)
(* makes place for the next: unless the time ran out while it was dragged,  *)
(* when it is gone with nothing sent, and no gesture brings it back.        *)
ASSUME FlownCardsWereSwiped ==
  \A events \in Dragged :
    LET k == AfterDrag(events)
    IN  k.s.flying # {} /\ ~k.s.busy => \E i \in DOMAIN events : events[i] = "disable"
ASSUME CardLostInTheAir ==
  \A more \in SeqsOf(DragEvents, 3) :
    AfterDrag(<<"down", "right", "disable", "up">> \o more).s.flying = {TRUE}

-----------------------------------------------------------------------------
(* The ledger and the tile of the duel view agree on an open card once its  *)
(* time is up; on a card that is settled, whose spot has moved on, the      *)
(* ledger follows the spot and can show the opposite.                       *)
PickOf(up) == {[isUp |-> up, quantity |-> SWIPE_QUANTITY]}
ASSUME LedgerFollowsTheSpot ==
  /\ \A up \in BOOLEAN, strike, spot \in 1 .. 3 :
       LedgerRow({}, FALSE, PickOf(up), strike, {spot}).net
         = TickCardPnl(PickOf(up), {strike}, [spot |-> {spot}, settlementPrice |-> {}], {})
  /\ \E strike, spot, settled \in 1 .. 3 :
       LedgerRow({}, FALSE, PickOf(TRUE), strike, {spot}).net
         = {-x : x \in TickCardPnl(PickOf(TRUE), {strike}, [spot |-> {spot}, settlementPrice |-> {settled}], {})}

(* When the bar of the lockup is empty no card counts any more, and while   *)
(* one counts the bar is not.                                               *)
ASSUME BarEndsWithTheLastCard ==
  \A offsets \in [1 .. 2 -> {1000, 1500, 2500}], now \in {0, 500, 1000, 1500, 2499, 2500, 3000} :
    LET cards == [i \in 1 .. 2 |-> [expiryOffsetMs |-> offsets[i]]]
        lockup == [startMs |-> 0, endMs |-> Max({offsets[1], offsets[2]})]
        counting == {i \in 1 .. 2 : FlipTile(cards[i], {}, {TRUE}, 0, now)[2] > 0}
    IN  counting = {} <=> LockupBar(lockup, now)[1] = 0

(* Each settled card leaves the chart and shows its verdict, to both alike. *)
ASSUME VerdictsArePaired ==
  \A upWon, mine, bot \in BOOLEAN :
    /\ mine # bot => FlipTile([expiryOffsetMs |-> 1], {upWon}, {mine}, 0, 0)
                       # FlipTile([expiryOffsetMs |-> 1], {upWon}, {bot}, 0, 0)
    /\ StrikeLines(<<1, 2>>, {1}) = {2}

-----------------------------------------------------------------------------
(* The subscriptions: two sockets come and go.                              *)
HubStep(h, e) ==
  CASE e[1] = "sub" -> IF e[2] \in h.closed THEN h ELSE [h EXCEPT !.subs = SubscribeMarkets(@, e[2], e[3])]
    [] e[1] = "unsub" -> IF e[2] \in h.closed THEN h ELSE [h EXCEPT !.subs = UnsubscribeMarkets(@, e[2], e[3])]
    [] e[1] = "close" -> [subs |-> OnSocketCloseMarketStream(h.subs, e[2]), closed |-> h.closed \cup {e[2]}]
HubEvents == ({"sub", "unsub"} \X {1, 2} \X {{"m"}, {"m", "n"}}) \cup ({"close"} \X {1, 2} \X {{}})

(* No tick goes to a closed socket or to one that no longer watches, and no *)
(* book is read that nobody watches.                                        *)
ASSUME TicksAreForWatchers ==
  \A events \in SeqsOf(HubEvents, 4) :
    LET h == FoldLeft(HubStep, [subs |-> {}, closed |-> {}], events)
        read == [m \in {"m", "n"} |-> {}]
        sent == MarketTick(h.subs, read, read)
        stats == MarketStreamStats(h.subs)
        last(ws, m) == Max({0} \cup {i \in DOMAIN events : events[i][2] = ws
                                       /\ (events[i][1] = "close" \/ m \in events[i][3])})
    IN  /\ \A t \in sent : t[1] \notin h.closed
        /\ \A ws \in {1, 2}, m \in {"m", "n"} :
             <<m, ws>> \in h.subs =>
               last(ws, m) # 0 /\ events[last(ws, m)][1] = "sub"
        /\ stats.markets <= stats.subscribers /\ stats.subscribers = Cardinality(sent)

-----------------------------------------------------------------------------
(* The walk stays within its bounds, whatever quote it starts from.         *)
ASSUME WalkStaysInside ==
  \A start \in {SPOT_FLOOR, SPOT_CEILING, FirstFeed.lastSpot}, seed \in 0 .. SEED_RANGE :
    NextSyntheticSpot([lastSpot |-> start, spotSeed |-> seed]).lastSpot \in SPOT_FLOOR .. SPOT_CEILING

(* It is no noise (market-stream.ts:228-229), but a sawtooth: a step is the *)
(* last one less 85 units, but for the one jump up in every 23 or 24.  Two  *)
(* ticks tell the next ones, in which the cards of a practice deck settle.  *)
ASSUME WalkIsASawtooth ==
  \A seed \in 1 .. SEED_RANGE :
    Drift(seed + 1) - Drift(seed) \in {-85 * SEED_UNIT, (SEED_RANGE - 85) * SEED_UNIT}

(* With no quote, a deck that is dealt to one player moves the spot that    *)
(* the others are settled against.                                          *)
ASSUME DealingMovesTheSpot ==
  LET dealt == CurrentPracticeSpot(FirstFeed, <<>>)
  IN  /\ dealt.lastSpot # FirstFeed.lastSpot
      /\ \E t \in SpotTick(dealt, {1}, <<>>).sent, u \in SpotTick(FirstFeed, {1}, <<>>).sent :
           t[2].spot # u[2].spot

(* A walked price is labelled, and a quote never is.                        *)
ASSUME SyntheticIsLabelled ==
  \A markets \in SeqsOf({[asset |-> a, mid |-> m] : a \in {"BTC", "ETH"}, m \in {{}, {0}, {7}}}, 2) :
    LET r == SpotTick(FirstFeed, {1, 2}, markets)
    IN  /\ Cardinality(r.sent) = 2
        /\ \A t \in r.sent : t[2].synthetic <=> ~ \E m \in SpotMarket(markets) : m.mid = {7}
        /\ \A t \in r.sent : t[2].spot > 0
        /\ markets # <<>> => SpotMarket(markets) # {}
        /\ (\E i \in DOMAIN markets : markets[i].asset = "BTC") =>
             \A m \in SpotMarket(markets) : m.asset = "BTC"

-----------------------------------------------------------------------------
(* The score of practice, on two cards around a spot of 10.                 *)
ScoreCards == <<[strike |-> 9, expiryOffsetMs |-> 5, pUp |-> PROBABILITY - 1],
                [strike |-> 11, expiryOffsetMs |-> 4, pUp |-> 1]>>
BothSwiped == {<<PracticeSwipe(ScoreCards[1], u1, t1), PracticeSwipe(ScoreCards[2], u2, t2)>> :
                 u1 \in BOOLEAN, u2 \in BOOLEAN, t1 \in {0, SPEED_BONUS_WINDOW + 1},
                 t2 \in {0, SPEED_BONUS_WINDOW \div 2}}
Blank == [cards |-> ScoreCards, bots |-> <<TRUE, TRUE>>, swipes |-> <<{}, {}>>,
          shown |-> <<TRUE, TRUE>>, outcomes |-> <<>>]
Played(swipes, bots, order, spots) ==
  LET m == [Blank EXCEPT !.bots = bots, !.swipes = [i \in 1 .. 2 |-> {swipes[i]}]]
  IN  [m EXCEPT !.outcomes = [k \in DOMAIN order |-> Outcome(m, order[k], spots[order[k]])]]
Bots == [1 .. 2 -> BOOLEAN]
Spots == [1 .. 2 -> {8, 9, 11, 12}]
Matches == {Played(w, b, <<2, 1>>, p) : w \in BothSwiped, b \in Bots, p \in Spots}
HitsOf(m, up(_)) == Cardinality({k \in DOMAIN m.outcomes : m.outcomes[k].upWon = up(m.outcomes[k].cardIdx)})

(* The match goes to who called more cards right, and is tied when both     *)
(* called as many, in whatever order the cards settled.                     *)
ASSUME MoreHitsWin ==
  \A m \in Matches :
    LET r == PracticeResult(m)
        yours == HitsOf(m, LAMBDA i : \A s \in m.swipes[i] : s.isUp)
        bots == HitsOf(m, LAMBDA i : m.bots[i])
        reversed == [m EXCEPT !.outcomes = Reverse(@)]
    IN  /\ r.youWon = (yours > bots) /\ r.tied = (yours = bots)
        /\ r.yourPoints > 0 <=> yours > 0
        /\ PracticeResult(reversed) = r

(* The points are of another mind: a match can be lost with more points     *)
(* than the bot's, and tied with other points than the bot's.               *)
ASSUME PointsCanContradict ==
  LET cards == [i \in 1 .. 3 |-> ScoreCards[1]]
      lost == [cards |-> cards, bots |-> <<TRUE, TRUE, TRUE>>, shown |-> <<TRUE, TRUE, TRUE>>,
               swipes |-> [i \in 1 .. 3 |-> {PracticeSwipe(cards[i], FALSE, SPEED_BONUS_WINDOW)}],
               outcomes |-> <<>>]
      r == PracticeResult([lost EXCEPT !.outcomes =
             <<Outcome(lost, 1, 8), Outcome(lost, 2, 12), Outcome(lost, 3, 12)>>])
  IN  /\ ~r.youWon /\ ~r.tied /\ r.yourPoints > r.botPoints
      /\ \E m \in Matches : LET t == PracticeResult(m) IN t.tied /\ t.yourPoints # t.botPoints

(* Either side of a card is worth the same number of points on average, so  *)
(* that only being right more often than the odds pays; and a quick hit     *)
(* is worth at most half as much again as a slow one.                       *)
ASSUME PointsFollowTheOdds ==
  \A p \in 1 .. PROBABILITY - 1, t \in 0 .. 4 * SPEED_BONUS_WINDOW :
    /\ p * Points(p, Speed(t)) = (PROBABILITY - p) * Points(PROBABILITY - p, Speed(t))
    /\ 2 * Speed(t) <= 3 * Speed(SPEED_BONUS_WINDOW) /\ Speed(t) >= Speed(t + 1)
    /\ Speed(t) >= Speed(SPEED_BONUS_WINDOW)

(* A player who makes the bot's calls in the middle of the time that is     *)
(* paid for has the bot's points.                                           *)
ASSUME BotThinksAtHalfTime ==
  \A b \in Bots, p \in Spots :
    LET calls == [i \in 1 .. 2 |-> PracticeSwipe(ScoreCards[i], b[i], SPEED_BONUS_WINDOW \div 2)]
        r == PracticeResult(Played(calls, b, <<1, 2>>, p))
    IN  r.yourPoints = r.botPoints /\ r.tied

(* The ledger's rows add up to the result, and a settled card is marked at  *)
(* the price of its outcome: chart, ledger and result say the same.         *)
ASSUME ScoreIsWhatWasShown ==
  \A m \in Matches :
    LET room == PracticeRoom(m)
        row(k) == LET o == room.cardOutcomes[k]
                      swipe == room.swipes[o.cardIdx].p0
                  IN  [ledger |-> LedgerRow(o.p0Pnl, TRUE, swipe, ScoreCards[o.cardIdx].strike, {10}).net,
                       mark |-> MarkCardPnl(swipe, {ScoreCards[o.cardIdx].strike}, {o.settlementPrice}, {})]
    IN  /\ room.status = "COMPLETE"
        /\ \A k \in 1 .. 2 : row(k).ledger = row(k).mark
        /\ PracticeResult(m).yourPnl = Max(row(1).mark) + Max(row(2).mark)

(* The settle time that is shown before the lockup is never too late, and   *)
(* does not move any more once the lockup has begun.                        *)
ASSUME EstimateIsNeverLate ==
  \A k \in 1 .. 2, receivedAt \in 0 .. 3, lockup \in 0 .. 3 :
    LET settles == PracticeExpiry(ScoreCards[k], {lockup}, receivedAt)
    IN  /\ receivedAt <= lockup => PracticeExpiry(ScoreCards[k], {}, receivedAt) <= settles
        /\ settles = PracticeExpiry(ScoreCards[k], {lockup}, lockup)
=============================================================================
