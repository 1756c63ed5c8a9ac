------------------------------ MODULE DuelScreen -----------------------------
(***************************************************************************)
(* What the screens that follow a duel show of its row in the mirror:      *)
(* routes/game/duel-view.tsx, components/my-match-tile.tsx,                *)
(* routes/game/history.tsx, components/player-hero-card.tsx, the result    *)
(* modal, routes/game/play.tsx and the two charts.                         *)
(*                                                                         *)
(* A row has, for each card, its market and its strike; cardOutcomes is a  *)
(* sequence, swipes a set, and each names its cardIdx and has under "p0"   *)
(* and "p1" what is known of the seats.  ticks gives each market the tick  *)
(* last received, or none.  What may be null is a set of at most one.      *)
(***************************************************************************)
EXTENDS ResultMath
LOCAL INSTANCE FiniteSetsExt
LOCAL INSTANCE SequencesExt

CONSTANTS SHOWN_DECK,        \* the deck length shown where the row has none
          POLL_INTERVAL_MS, PLAY_ATTEMPTS,
          SAMPLE_INTERVAL_MS, EASE_MIN_MS, EASE_MAX_MS, PERSIST_MS

Only(s) == CHOOSE x \in s : TRUE

Seat(duel, me) == IF duel.creator = me THEN "p0" ELSE "p1"
OtherSeat(seat) == IF seat = "p0" THEN "p1" ELSE "p0"
Participant(duel, me) == me \in {duel.creator, duel.challenger}
Opponent(duel, me) == IF duel.creator = me THEN duel.challenger ELSE duel.creator

\* The first outcome that names the card, the swipe that does, and the card's tick.
OutcomeOf(duel, i) ==
  LET named == {k \in DOMAIN duel.cardOutcomes : duel.cardOutcomes[k].cardIdx = i}
  IN  IF named = {} THEN {} ELSE {duel.cardOutcomes[Min(named)]}
SwipeOf(duel, i, seat) == UNION {r[seat] : r \in {s \in duel.swipes : s.cardIdx = i}}
TickOf(duel, i, ticks) == IF i \in DOMAIN duel.cards THEN ticks[duel.cards[i].market] ELSE {}
OnStream(duel, i, ticks) == \E t \in TickOf(duel, i, ticks) : t.settled

\* tickCardPnl of a card, with open the probability that an open one has now.
MarkOf(duel, i, seat, ticks, open) ==
  LET tick == [settlementPrice |-> UNION {t.settlementPrice : t \in TickOf(duel, i, ticks)},
               spot |-> UNION {t.spot : t \in TickOf(duel, i, ticks)}]
  IN  IF i \in DOMAIN duel.cards
      THEN TickCardPnl(SwipeOf(duel, i, seat), {duel.cards[i].strike}, tick, open) ELSE {}

\* A card's profit: the recorded one, or else the mark.
PnlOf(duel, i, seat, ticks, open) ==
  LET recorded == UNION {o[seat] : o \in OutcomeOf(duel, i)}
  IN  IF recorded # {} THEN recorded ELSE MarkOf(duel, i, seat, ticks, open)

Verdict(pnl) == IF \E x \in pnl : x < 0 THEN "loss" ELSE "win"

-----------------------------------------------------------------------------
(* duel-view.tsx: the settlement sound, the tiles and the panels.           *)
SettleStates(duel, me, ticks, open) ==
  IF ~Participant(duel, me) THEN <<>>
  ELSE [i \in DOMAIN duel.cards |->
          LET pnl == PnlOf(duel, i, Seat(duel, me), ticks, open)
          IN  IF (OutcomeOf(duel, i) = {} /\ ~OnStream(duel, i, ticks)) \/ pnl = {} THEN "pending"
              ELSE Verdict(pnl)]

\* The sounds of a change: none on the first view, on a new deck or during a replay.
SettleSounds(before, after, replaying) ==
  IF before = {} \/ replaying \/ (\E b \in before : Len(b) # Len(after)) THEN {}
  ELSE {<<i, after[i]>> : i \in {k \in DOMAIN after :
          after[k] # "pending" /\ \A b \in before : b[k] = "pending"}}

Tile(duel, i, seat, ticks, dead, revealed, open) ==
  LET pnl == IF revealed THEN PnlOf(duel, i, seat, ticks, open) ELSE {}
      outcome == revealed /\ OutcomeOf(duel, i) # {}
      settledNow == outcome \/ (revealed /\ OnStream(duel, i, ticks))
      clock == UNION {t.expiryMs : t \in TickOf(duel, i, ticks)}
  IN  [state |-> IF settledNow /\ pnl # {} THEN Verdict(pnl) ELSE "live",
       pnl |-> pnl,
       picks |-> [s \in {"p0", "p1"} |-> SwipeOf(duel, i, s)],
       remaining |-> IF settledNow THEN {} ELSE clock,
       label |-> CASE outcome -> IF pnl = {} THEN "skipped" ELSE "percent"
                   [] ~outcome /\ settledNow -> IF dead THEN "void" ELSE "settling"
                   [] ~settledNow /\ pnl \cup clock # {} -> "counting"
                   [] OTHER -> "waiting"]

Slots(duel) == Max({duel.cardCount, Len(duel.cards)})
SettledShown(duel, ticks) ==
  Max({duel.settledCount, Cardinality({i \in DOMAIN duel.cards : OnStream(duel, i, ticks)})})

\* The lowest card in flight, whose strike the chart marks.
CurrentCard(duel, ticks) ==
  LET open == {i \in DOMAIN duel.cards : OutcomeOf(duel, i) = {} /\ ~OnStream(duel, i, ticks)}
  IN  IF open = {} THEN {} ELSE {Min(open)}

\* duel-state.ts on this row.
Flat(duel) ==
  [status |-> duel.status, cards |-> [i \in DOMAIN duel.cards |-> duel.cards[i].market],
   swipes |-> {[cardIdx |-> r.cardIdx, p0 |-> r.p0 # {}, p1 |-> r.p1 # {}] : r \in duel.swipes}]
SettledMarkets(duel, ticks) ==
  {duel.cards[i].market : i \in {k \in DOMAIN duel.cards : OnStream(duel, k, ticks)}}
Dead(duel, ticks) == DuelUnsettleable(Flat(duel), SettledMarkets(duel, ticks))
DeadMsg(duel, me, ticks) ==
  LET missing == MissingSides(Flat(duel), SettledMarkets(duel, ticks))
  IN  CASE missing = {OtherSeat(Seat(duel, me))} -> "opponent"
        [] missing = {Seat(duel, me)} -> "you"
        [] OTHER -> "not every"

\* The refund box of a dead duel; kind is what refundEligibility answers.
RefundBox(duel, me, ticks, kind, refunded, opensAt, nowMs) ==
  IF ~ (Dead(duel, ticks) /\ duel.status = "ACTIVE" /\ Participant(duel, me)) THEN {}
  ELSE {CASE refunded -> <<"refunded", 0>>
          [] ~refunded /\ kind # {} -> <<"claim", 0>>
          [] OTHER -> <<"opens in", Max({0, opensAt - nowMs})>>}

\* view is what the screen has fetched so far; a 404 hides a duel already shown.
Notice(view) ==
  IF view.err = "not_indexed" THEN "not indexed" ELSE IF view.duel = {} THEN "loading" ELSE "duel"

PollDuel(view, response) ==
  CASE response.status = 404 -> [view EXCEPT !.err = "not_indexed"]
    [] response.status = 200 -> [view EXCEPT !.duel = {response.duel}, !.err = "none"]
    [] OTHER -> [view EXCEPT !.err = "failed"]

Title(duel) ==
  CASE duel.status = "ACTIVE" -> "ongoing duel"
    [] duel.status = "COMPLETE" -> "duel result"
    [] OTHER -> "upcoming duel"
Pill(duel, wsOpen) ==
  IF duel.status = "COMPLETE" THEN {} ELSE {IF wsOpen THEN "live" ELSE "reconnecting"}
Footnote(duel, ticks) ==
  IF duel.status # "ACTIVE" THEN "final"
  ELSE IF Dead(duel, ticks) THEN "refundable" ELSE "settles by itself"

\* oracle_subscribe of the cards of an ACTIVE duel, and a tick that comes back.
Subscribed(duel, wsOpen) ==
  IF duel.status = "ACTIVE" /\ wsOpen THEN {duel.cards[i].market : i \in DOMAIN duel.cards} ELSE {}
OnTick(ticks, subscribed, msg) ==
  IF msg.market \notin subscribed THEN ticks
  ELSE [ticks EXCEPT ![msg.market] =
          {[spot |-> {msg.spot}, expiryMs |-> {msg.expiry}, settled |-> msg.settlementPrice # {},
            settlementPrice |-> msg.settlementPrice]}]

-----------------------------------------------------------------------------
(* duel-view.tsx: the replay of a completed duel, and the result modal.     *)
(* timers is how many reveals are still armed, count the cards last seen.   *)
NoReplay == [startedFor |-> {}, replaying |-> FALSE, revealed |-> 0, timers |-> 0, count |-> 0]

\* The effect of [duel]: its cleanup comes first and disarms every timer.  Then,
\* where the number of cards is new, a view that does not replay shows them all.
DuelArrives(r, duel, seenBefore, reducedMotion) ==
  LET n == Len(duel.cards)
      replays == ShouldReplay([status |-> duel.status, cardCount |-> n, seenBefore |-> seenBefore,
                               reducedMotion |-> reducedMotion])
  IN  IF r.startedFor = {duel.id}
      THEN [r EXCEPT !.timers = 0, !.count = n,
                     !.revealed = IF ~r.replaying /\ n # r.count THEN n ELSE @]
      ELSE [startedFor |-> {duel.id}, replaying |-> replays, count |-> n,
            revealed |-> IF replays THEN 0 ELSE n, timers |-> IF replays THEN n ELSE 0]

\* A timer sets the count whether or not the replay was skipped.
RevealNext(r, cardCount) ==
  IF r.timers = 0 THEN r
  ELSE [r EXCEPT !.timers = @ - 1, !.revealed = cardCount - r.timers + 1,
                 !.replaying = @ /\ r.timers # 1]

SkipReplay(r, cardCount) == [r EXCEPT !.replaying = FALSE, !.revealed = cardCount]

\* Opened by itself once in a browser, and never before the replay has ended.
OpensResult(duel, me, r, seen) ==
  duel.status = "COMPLETE" /\ Participant(duel, me) /\ ~r.replaying /\ duel.id \notin seen

-----------------------------------------------------------------------------
(* my-match-tile.tsx, history.tsx and player-hero-card.tsx.                 *)
IsLiveDuel(d) == d.status = "ACTIVE" /\ (d.cardCount = 0 \/ d.settledCount < d.cardCount)
RecencyOf(d) == IF d.lastUpdatedMs # 0 THEN d.lastUpdatedMs ELSE d.startedAtMs

\* sort is stable: of two rows as recent, the first in the list.
MostRecent(duels, keep(_)) ==
  LET kept == {i \in DOMAIN duels : keep(duels[i])}
      newest == {i \in kept : \A j \in kept : RecencyOf(duels[j]) <= RecencyOf(duels[i])}
  IN  IF kept = {} THEN {} ELSE {duels[Min(newest)]}

PickMatch(duels) ==
  LET live == MostRecent(duels, IsLiveDuel)
  IN  IF live # {} THEN live ELSE MostRecent(duels, LAMBDA d : d.status # "PENDING")

StatusRank(d) == CASE d.status = "ACTIVE" -> 0 [] d.status = "PENDING" -> 1 [] OTHER -> 2
HistoryOrder(duels) ==
  LET before(i, j) ==
        \/ StatusRank(duels[i]) < StatusRank(duels[j])
        \/ /\ StatusRank(duels[i]) = StatusRank(duels[j])
           /\ \/ duels[i].lastUpdatedMs > duels[j].lastUpdatedMs
              \/ duels[i].lastUpdatedMs = duels[j].lastUpdatedMs /\ i < j
      place == SetToSortSeq(DOMAIN duels, before)
  IN  [k \in DOMAIN duels |-> duels[place[k]]]

ResultKind(duel, me) ==
  CASE duel.status = "ACTIVE" -> "live"
    [] duel.status = "PENDING" -> "pending"
    [] OTHER -> IF PlayerDuelResult(duel, me) = "tie" THEN "push" ELSE PlayerDuelResult(duel, me)

\* What a row of the history shows beside its chip.
MatchRow(duel, me, zero) ==
  LET mine == Seat(duel, me)
      premium == IF mine = "p0" THEN duel.p0Premium ELSE duel.p1Premium
      payout == IF mine = "p0" THEN duel.p0Payout ELSE duel.p1Payout
  IN  [kind |-> ResultKind(duel, me),
       opponent |-> {Opponent(duel, me)} \ {zero},
       time |-> RecencyOf(duel),
       figure |-> CASE duel.status = "COMPLETE" -> <<payout - premium, premium>>
                    [] duel.status = "ACTIVE" ->
                         <<duel.settledCount, IF duel.cardCount = 0 THEN SHOWN_DECK ELSE duel.cardCount>>
                    [] OTHER -> <<>>]

\* The record of the finished duels, which are listed newest first.
PlayerRecord(duels, me) ==
  LET result(i) == PlayerDuelResult(duels[i], me)
      count(kind) == Cardinality({i \in DOMAIN duels : result(i) = kind})
      broken == {i \in DOMAIN duels : result(i) # "win"}
  IN  [wins |-> count("win"), losses |-> count("loss"), ties |-> count("tie"),
       streak |-> IF broken = {} THEN Len(duels) ELSE Min(broken) - 1]

\* The row of a player on the board; lower[a] is the address a in lower case.
PlayerStats(board, me, lower) ==
  LET mine == {i \in DOMAIN board : lower[board[i].address] = lower[me]}
  IN  IF mine = {} THEN {} ELSE {board[Min(mine)]}

\* play.tsx: reads is what fetchDuel answers, time after time; {} is a failure.
PlayLoad(reads, me) ==
  LET decides(i) == \/ i > PLAY_ATTEMPTS
                    \/ \E d \in reads[i] : d.status = "COMPLETE" \/ Participant(d, me)
      last == Min({i \in DOMAIN reads : decides(i)})
  IN  IF ~ \E i \in DOMAIN reads : decides(i) THEN "loading"
      ELSE IF reads[last] = {} THEN "error"
      ELSE IF \E d \in reads[last] : d.status # "COMPLETE" /\ Participant(d, me) THEN "ready"
      ELSE "redirect"

-----------------------------------------------------------------------------
(* streaming-pnl-chart.tsx and btc-spot-chart.tsx.                          *)
TotalPremium(duel, seat) ==
  MapThenSumSet(LAMBDA r : MapThenSumSet(LAMBDA s : MapThenSumSet(LAMBDA p : p, s.premium), r[seat]),
                duel.swipes)

\* What the outcomes recorded, and the marks of the swiped cards that have none.
CurrentRunningPnl(duel, seat, ticks, open) ==
  LET recorded(k) == MapThenSumSet(LAMBDA p : p, duel.cardOutcomes[k][seat])
      unsettled == {r \in duel.swipes : OutcomeOf(duel, r.cardIdx) = {}}
      marked(r) == MapThenSumSet(LAMBDA p : p,
                     IF TickOf(duel, r.cardIdx, ticks) = {} THEN {}
                     ELSE MarkOf(duel, r.cardIdx, seat, ticks, open))
  IN  MapThenSumSet(recorded, DOMAIN duel.cardOutcomes) + MapThenSumSet(marked, unsettled)

\* One frame of the easing of a price: e is the anchor, shown what is drawn.
Ease(e, target, shown, now) ==
  CASE e = {} -> {[from |-> target, to |-> target, startMs |-> now, durMs |-> 1]}
    [] \E a \in e : target # a.to ->
         {[from |-> shown, to |-> target, startMs |-> now,
           durMs |-> Min({EASE_MAX_MS, Max({EASE_MIN_MS, now - a.startMs})})] : a \in e}
    [] OTHER -> e
Eased(a, now) ==
  IF now - a.startMs >= a.durMs THEN a.to
  ELSE a.from + ((a.to - a.from) * (now - a.startMs)) \div a.durMs

\* The history: of which duel, its samples and its boundaries; settled is prevSettledRef.
NoHistory == [duelId |-> {}, samples |-> <<>>, boundaries |-> <<>>, settled |-> 0]

HydrateHistory(h, duel, raw) ==
  LET restored == {p \in ParseHistory(raw) : p.duelId = duel.id}
  IN  IF restored = {} THEN h
      ELSE LET p == Only(restored)
           IN  [duelId |-> {duel.id}, samples |-> p.samples, boundaries |-> p.boundaries,
                settled |-> duel.settledCount]

MarkBoundaries(h, duel, now) ==
  LET fresh == [k \in 1 .. duel.settledCount - h.settled |-> [t |-> now, idx |-> h.settled + k]]
      same == h.duelId = {duel.id}
  IN  IF duel.settledCount <= h.settled THEN h
      ELSE [duelId |-> {duel.id}, samples |-> IF same THEN h.samples ELSE <<>>,
            boundaries |-> (IF same THEN h.boundaries ELSE <<>>) \o fresh,
            settled |-> duel.settledCount]

\* Nothing is recorded before there is a tick or a settled card.
RecordSample(h, duel, ticks, open, now) ==
  LET sample == [t |-> now, p0 |-> CurrentRunningPnl(duel, "p0", ticks, open),
                 p1 |-> CurrentRunningPnl(duel, "p1", ticks, open)]
      kept == SubSeq(h.samples, Max({1, Len(h.samples) - MAX_SAMPLES + 2}), Len(h.samples))
  IN  CASE (\A m \in DOMAIN ticks : ticks[m] = {}) /\ duel.settledCount = 0 -> h
        [] h.duelId = {duel.id} -> [h EXCEPT !.samples = Append(kept, sample)]
        [] OTHER -> [h EXCEPT !.duelId = {duel.id}, !.samples = <<sample>>, !.boundaries = <<>>]

\* The stored histories, by duel: one is kept.
Persist(h, duel, lastPersist, now, stored) ==
  IF h.duelId # {duel.id} \/ h.samples = <<>> \/ now - lastPersist < PERSIST_MS THEN stored
  ELSE {SerializeHistory(duel.id, h.samples, h.boundaries)}

Shown(h, duel) ==
  IF h.duelId = {duel.id} THEN [samples |-> h.samples, boundaries |-> h.boundaries]
  ELSE [samples |-> <<>>, boundaries |-> <<>>]

XDomain(visible, range) ==
  IF visible = <<>> THEN <<0, 1>>
  ELSE LET tMax == Max({visible[i].t : i \in DOMAIN visible})
       IN  IF range # {} THEN <<tMax - Only(range), tMax>>
           ELSE IF visible[1].t < tMax THEN <<visible[1].t, tMax>>
           ELSE <<tMax - SAMPLE_INTERVAL_MS, tMax>>

\* The prices it may show: of the first card that has one, or else of any market.
PickSpot(ticks, cards) ==
  LET price(m) == {p \in UNION {t.spot : t \in ticks[m]} : p > 0}
      priced == {i \in DOMAIN cards : price(cards[i].market) # {}}
  IN  IF priced # {} THEN price(cards[Min(priced)].market)
      ELSE LET others == {m \in DOMAIN ticks : price(m) # {}}
           IN  UNION {price(m) : m \in others}

SpotSample(samples, spot, now, limit) ==
  IF spot = {} THEN samples
  ELSE LET next == Append(samples, [t |-> now, price |-> Only(spot)])
       IN  SubSeq(next, Max({1, Len(next) - limit + 1}), Len(next))
=============================================================================
