----------------------------- MODULE ResultMath -----------------------------
(***************************************************************************)
(* The numbers that the web client shows of a duel: lib/duel-result.ts,    *)
(* lib/duel-state.ts, lib/pnl.ts, lib/pnl-history.ts,                      *)
(* lib/settlement-replay.ts, lib/funding.ts and lib/season.ts; and of a    *)
(* practice match, hooks/use-practice-session.ts.                          *)
(*                                                                         *)
(* A value that may be null is a set of at most one.  The Black-Scholes    *)
(* probability of an open card is any number of PROBABILITY-ths that its   *)
(* caller names: only its two ends, at expiry, are computed here.          *)
(***************************************************************************)
EXTENDS Integers, Sequences, FiniteSets
LOCAL INSTANCE FiniteSetsExt
LOCAL INSTANCE SequencesExt

CONSTANTS
  PROBABILITY,                     \* certainty, as a whole number
  MAX_SAMPLES, MAX_AGE_MS,         \* what the chart retains
  Y_FLOOR_MICRO,                   \* its least half-amplitude
  DEFAULT_DECK_SIZE, SWIPE_QUANTITY, MIN_MANAGER_BALANCE,
  REPLAY_LEAD_IN_MS, REPLAY_STEP_MS,
  POINT_UNIT,          \* a multiple of every possible pUp
  SPEED_BONUS_WINDOW   \* ms on one card after which no bonus is left

ASSUME PracticeScoreAssumption ==
  /\ \A p \in 1 .. PROBABILITY : POINT_UNIT % p = 0
  /\ SPEED_BONUS_WINDOW \in Nat \ {0}

Absolute(n) == IF n < 0 THEN -n ELSE n

-----------------------------------------------------------------------------
(* duel-result.ts.                                                          *)
WinnerSideOf(d) ==
  LET p0Net == d.p0Payout - d.p0Premium
      p1Net == d.p1Payout - d.p1Premium
  IN  IF d.winner \in {"p0", "p1", "tie"} THEN d.winner
      ELSE IF p0Net > p1Net THEN "p0" ELSE IF p1Net > p0Net THEN "p1" ELSE "tie"

PlayerDuelResult(d, me) ==
  LET side == WinnerSideOf(d)
  IN  IF side = "tie" THEN "tie"
      ELSE IF side = (IF d.creator = me THEN "p0" ELSE "p1") THEN "win" ELSE "loss"

(* The result card; an outcome has the swipe and the pnl of either seat.    *)
SummarizeDuelResult(d, seat) ==
  LET payout == IF seat = "p0" THEN d.p0Payout ELSE d.p1Payout
      premium == IF seat = "p0" THEN d.p0Premium ELSE d.p1Premium
      side == WinnerSideOf(d)
      hit(o) == o[seat].swipe # {} /\ \E pnl \in o[seat].pnl : pnl >= 0
  IN  [outcome |-> IF side = "tie" THEN "tie" ELSE IF side = seat THEN "win" ELSE "loss",
       hits |-> Cardinality({i \in DOMAIN d.cardOutcomes : hit(d.cardOutcomes[i])}),
       totalCards |-> Max({d.cardCount, Len(d.cardOutcomes)}),
       net |-> IF premium = 0 THEN {} ELSE {payout - premium},
       returnPct |-> IF premium = 0 THEN {} ELSE {<<100 * (payout - premium), premium>>}]

-----------------------------------------------------------------------------
(* duel-state.ts.  A row of the mirror has the swipes of one card.          *)
SwipedBy(duel, i, seat) == \E r \in duel.swipes : r.cardIdx = i /\ r[seat]

DuelUnsettleable(duel, settledMarkets) ==
  /\ duel.status = "ACTIVE"
  /\ \E i \in DOMAIN duel.cards :
       /\ duel.cards[i] \in settledMarkets
       /\ ~ (SwipedBy(duel, i, "p0") /\ SwipedBy(duel, i, "p1"))

MissingSides(duel, settledMarkets) ==
  {seat \in {"p0", "p1"} :
     \E i \in DOMAIN duel.cards : duel.cards[i] \in settledMarkets /\ ~ SwipedBy(duel, i, seat)}

-----------------------------------------------------------------------------
(* pnl.ts.  A tick has the spot, and the settlement price once there is one.*)
LiveCardPnl(swipe, strike, spot) ==
  {LET inMoney == IF s.isUp THEN p > k ELSE p <= k
   IN  IF inMoney THEN s.quantity ELSE -s.quantity : s \in swipe, k \in strike, p \in spot}

(* open: the probability of an open card, none of one whose time is up.     *)
UpProbability(strike, spot, open) ==
  {IF open # {} THEN Max(open) ELSE IF q[2] > q[1] THEN PROBABILITY ELSE 0 :
     q \in {r \in strike \X spot : r[1] > 0 /\ r[2] > 0}}

\* Math.round: a half is rounded up.
Rounded(n, d) == (2 * n + d) \div (2 * d)

MarkCardPnl(swipe, strike, spot, open) ==
  {LET pIn == IF s.isUp THEN pUp ELSE PROBABILITY - pUp
   IN  Rounded(s.quantity * (2 * pIn - PROBABILITY), PROBABILITY) :
     s \in swipe, pUp \in UpProbability(strike, spot, open)}

TickCardPnl(swipe, strike, tick, open) ==
  IF tick.settlementPrice # {} THEN MarkCardPnl(swipe, strike, tick.settlementPrice, {})
  ELSE MarkCardPnl(swipe, strike, tick.spot, open)

-----------------------------------------------------------------------------
(* pnl-history.ts.  A sample is a time and the pnl of either seat.          *)
TrimHistory(samples, boundaries) ==
  LET recent == SubSeq(samples, Max({1, Len(samples) - MAX_SAMPLES + 1}), Len(samples))
      young(i) == recent[i].t >= recent[Len(recent)].t - MAX_AGE_MS
      trimmed == IF recent = <<>> THEN recent
                 ELSE SubSeq(recent, Min({i \in DOMAIN recent : young(i)}), Len(recent))
      firstT == IF trimmed = <<>> THEN 0 ELSE trimmed[1].t
  IN  [samples |-> trimmed, firstT |-> firstT,
       boundaries |-> SelectSeq(boundaries, LAMBDA b : b.t >= firstT)]

SliceToRange(samples, range) ==
  IF range = {} \/ samples = <<>> THEN samples
  ELSE SelectSeq(samples, LAMBDA s : s.t >= samples[Len(samples)].t - Max(range))

SerializeHistory(duelId, samples, boundaries) ==
  LET t == TrimHistory(samples, boundaries)
  IN  [v |-> 2, duelId |-> duelId, samples |-> t.samples, firstT |-> t.firstT,
       boundaries |-> t.boundaries]

(* raw is what the storage holds: no history, or one of some version.       *)
ParseHistory(raw) ==
  {[duelId |-> p.duelId, firstT |-> p.firstT, samples |-> p.samples, boundaries |-> p.boundaries] :
     p \in {r \in raw : r.v = 2}}

YAmpFor(samples) ==
  (Max({Y_FLOOR_MICRO} \cup UNION {{Absolute(samples[i].p0), Absolute(samples[i].p1)} :
                                      i \in DOMAIN samples}) * 115) \div 100

-----------------------------------------------------------------------------
(* settlement-replay.ts, funding.ts and season.ts.                          *)
RevealScheduleMs(cardCount) ==
  [i \in 1 .. Max({0, cardCount}) |-> REPLAY_LEAD_IN_MS + (i - 1) * REPLAY_STEP_MS]

ReplayDurationMs(cardCount) ==
  IF cardCount <= 0 THEN 0 ELSE REPLAY_LEAD_IN_MS + (cardCount - 1) * REPLAY_STEP_MS

ShouldReplay(input) ==
  ~ input.reducedMotion /\ ~ input.seenBefore /\ input.status = "COMPLETE" /\ input.cardCount > 0

RequiredManagerBalance(stake) ==
  Max({stake + DEFAULT_DECK_SIZE * SWIPE_QUANTITY, MIN_MANAGER_BALANCE})

(* The first tier that holds the position; none is {}.                      *)
PrizeForRank(split, position) ==
  LET within == {i \in DOMAIN split : split[i].rankStart <= position /\ position <= split[i].rankEnd}
  IN  IF within = {} THEN {} ELSE {split[Min(within)].amount}

(* What the rank screen has of the server: nothing where none answered or   *)
(* the answer was an error; one who is not ranked is answered without card. *)
FetchSeason(answer) == UNION {a.season : a \in {a \in answer : a.status = 200}}
FetchMyRank(answer) == UNION {a.card : a \in {a \in answer : a.status = 200}}

RatingToTier(rating) ==
  IF rating = {} THEN "unranked"
  ELSE LET above == Cardinality({floor \in {1100, 1300, 1500} : Max(rating) >= floor})
       IN  <<"bronze", "silver", "gold", "platinum">>[above + 1]

\* The prize of a row or of the card, with how it is shown.
PrizeChip(season, position, standing) ==
  {[prize |-> prize, locked |-> ~standing.eligible,
    missing |-> IF standing.eligible THEN {} ELSE {<<standing.stakedDuels, s.minStakedDuels>>}] :
     <<s, prize>> \in UNION {{s} \X PrizeForRank(s.prizeSplit, position) : s \in season}}

RankRow(season, me, entry, position) ==
  [position |-> position, address |-> entry.address, isMe |-> entry.address \in me,
   tier |-> RatingToTier({entry.rating}), chip |-> PrizeChip(season, position, entry)]

\* The lines of the panel: the ranks that each tier pays, and how much to each.
PrizePanel(season) ==
  {[i \in DOMAIN s.prizeSplit |->
      [ranks |-> s.prizeSplit[i].rankStart .. s.prizeSplit[i].rankEnd,
       amount |-> s.prizeSplit[i].amount,
       each |-> s.prizeSplit[i].rankStart # s.prizeSplit[i].rankEnd]] : s \in season}

(* The screen.  players is {} while no board came; me holds the address of  *)
(* who is signed in, in every case that it is written in; card is the last  *)
(* answer for one who was.                                                  *)
GameRank(season, players, me, card, now) ==
  LET board == UNION {{p[i] : i \in DOMAIN p} : p \in players} IN
  [countdown |-> {s.endsAt - now : s \in {s \in season : s.endsAt > now}},
   myCard |-> {[card |-> c, chip |-> PrizeChip(season, c.rank, c)] :
                 c \in IF me = {} THEN {} ELSE card},
   claim |-> {s.id : s \in season}, panel |-> PrizePanel(season),
   rows |-> {[i \in DOMAIN p |-> RankRow(season, me, p[i], i)] : p \in players},
   hint |-> CASE board = {} \/ card # {} -> "none"
              [] board # {} /\ card = {} /\ me # {} -> "finish a duel"
              [] board # {} /\ card = {} /\ me = {} -> "sign in"]

-----------------------------------------------------------------------------
(* A practice match, of which PracticeSession has the steps.  m has its     *)
(* cards (strike, expiryOffsetMs and pUp, the chance of UP in               *)
(* PROBABILITY-ths), the bot's picks, and per card the player's swipe (a    *)
(* set of at most one), whether the bot's pick is face-up, and the outcomes *)
(* in the order in which they came.                                         *)
(*                                                                          *)
(* Points are counted in units that leave no fraction: a sure hit without a *)
(* speed bonus is POINT_UNIT * 4 * SPEED_BONUS_WINDOW.                      *)
PracticeSwipe(card, up, timeOnCardMs) ==
  [isUp |-> up, pSwiped |-> IF up THEN card.pUp ELSE PROBABILITY - card.pUp,
   timeOnCardMs |-> timeOnCardMs]

Outcome(m, i, spot) == [cardIdx |-> i, settlementPrice |-> spot, upWon |-> spot > m.cards[i].strike]

-----------------------------------------------------------------------------
(* The room.                                                                *)
EvenStake(hit) == IF hit THEN SWIPE_QUANTITY ELSE -SWIPE_QUANTITY

CardOutcome(m, o) ==
  [cardIdx |-> o.cardIdx, settlementPrice |-> o.settlementPrice, upWon |-> o.upWon,
   p0Pnl |-> {EvenStake(o.upWon = s.isUp) : s \in m.swipes[o.cardIdx]},
   p1Pnl |-> EvenStake(o.upWon = m.bots[o.cardIdx])]

Wired(up) == [isUp |-> up, quantity |-> SWIPE_QUANTITY]
PracticeRoom(m) ==
  [status |-> IF Len(m.outcomes) = Len(m.cards) THEN "COMPLETE" ELSE "ACTIVE",
   cardOutcomes |-> [k \in DOMAIN m.outcomes |-> CardOutcome(m, m.outcomes[k])],
   swipes |-> [i \in DOMAIN m.cards |->
                 [p0 |-> {Wired(s.isUp) : s \in m.swipes[i]},
                  p1 |-> IF m.shown[i] THEN {Wired(m.bots[i])} ELSE {}]]]

\* The settle time of a card, or what it would be if the lockup began with
\* the last tick.
PracticeExpiry(card, lockupStartMs, receivedAtMs) ==
  card.expiryOffsetMs + (IF lockupStartMs # {} THEN Max(lockupStartMs) ELSE receivedAtMs)

-----------------------------------------------------------------------------
(* The score: the PnL decides, the points teach.                            *)
Points(pSwiped, speed) == (POINT_UNIT \div pSwiped) * PROBABILITY * speed

\* 1 + 0.5 * max(0, 1 - t / window), in 1 / (4 * window)-ths.
Speed(timeOnCardMs) == 4 * SPEED_BONUS_WINDOW + 2 * Max({0, SPEED_BONUS_WINDOW - timeOnCardMs})
BOT_SPEED == 5 * SPEED_BONUS_WINDOW

PracticeResult(m) ==
  LET rows == PracticeRoom(m).cardOutcomes
      Total(Of(_)) == FoldLeft(LAMBDA sum, o : sum + Of(o), 0, rows)
      hits(o) == {s \in m.swipes[o.cardIdx] : s.isUp = o.upWon}
      yourPnl == Total(LAMBDA o : IF o.p0Pnl = {} THEN 0 ELSE Max(o.p0Pnl))
      botPnl == Total(LAMBDA o : o.p1Pnl)
      pBot(i) == IF m.bots[i] THEN m.cards[i].pUp ELSE PROBABILITY - m.cards[i].pUp
  IN  [yourPnl |-> yourPnl, botPnl |-> botPnl,
       yourPoints |-> Total(LAMBDA o : FoldSet(LAMBDA s, sum : sum + Points(s.pSwiped, Speed(s.timeOnCardMs)),
                                               0, hits(o))),
       botPoints |-> Total(LAMBDA o : IF o.upWon = m.bots[o.cardIdx]
                                      THEN Points(pBot(o.cardIdx), BOT_SPEED) ELSE 0),
       youWon |-> yourPnl > botPnl, tied |-> yourPnl = botPnl]
=============================================================================
