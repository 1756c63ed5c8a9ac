------------------------------ MODULE BookMath ------------------------------
(***************************************************************************)
(* packages/dreamdex/src/book-math.ts: the metrics, quotes and results of  *)
(* a market's order book; and what somnia-adapter.ts beside it makes of    *)
(* the answers of the venue: a market's status and settlement, its book,   *)
(* an order's result, an owner's position, the link to the venue; and what *)
(* agents.ts beside them decides for each strategy of the Bot Arena, from  *)
(* the book and the price history that a player sees.                      *)
(*                                                                         *)
(* A level is a price and a quantity; ONE_PROBABILITY is the price of a    *)
(* certain outcome.  A value that may be unknown (null) is a set with at   *)
(* most one element.  Divisions are of bigints, towards zero; a fraction   *)
(* is the number of its SCALE-ths, which the code divides by SCALE last.   *)
(***************************************************************************)
EXTENDS Integers, Sequences, TLAPS
LOCAL INSTANCE SequencesExt

CONSTANTS
  ONE_PROBABILITY, SCALE,
  MID_HISTORY_LIMIT, MIN_SAMPLES, MIN_DEPTH, STAKE_PER_CARD,
  Refused,     \* what a call that throws returns
  Malformed    \* what is no number

ASSUME BookAssumption ==
  /\ ONE_PROBABILITY \in Nat \ {0} /\ SCALE \in Nat \ {0}
  /\ STAKE_PER_CARD \in Nat /\ STAKE_PER_CARD % 2 = 0

Unknown == {}
Over(a, b) == IF a >= 0 THEN a \div b ELSE -((-a) \div b)

TotalDepth(levels) == FoldLeft(LAMBDA sum, l : sum + l.quantity, 0, levels)

ComputeImbalance(bidDepth, askDepth) ==
  IF bidDepth + askDepth = 0 THEN Unknown
  ELSE {Over((bidDepth - askDepth) * SCALE, bidDepth + askDepth)}

(* buildOrderBook: emptied levels dropped, the best price first.            *)
Ordered(levels, before(_, _)) ==
  SortSeq(SelectSeq(levels, LAMBDA l : l.quantity > 0), LAMBDA a, b : before(a.price, b.price))

Touch(levels) == IF levels = <<>> THEN Unknown ELSE {levels[1].price}

BuildOrderBook(bids, asks) ==
  LET bid == Ordered(bids, LAMBDA p, q : p > q)
      ask == Ordered(asks, LAMBDA p, q : p < q)
  IN  [bids |-> bid, asks |-> ask,
       bestBid |-> Touch(bid), bestAsk |-> Touch(ask),
       spread |-> {a - b : a \in Touch(ask), b \in Touch(bid)},
       mid |-> {Over(a + b, 2) : a \in Touch(ask), b \in Touch(bid)},
       bidDepth |-> TotalDepth(bid), askDepth |-> TotalDepth(ask),
       imbalance |-> ComputeImbalance(TotalDepth(bid), TotalDepth(ask))]

(* walkBook: level by level, the cost of each rounded down.                 *)
Take(acc, level) ==
  LET remaining == acc.quantity - acc.filled
      take == IF level.quantity < remaining THEN level.quantity ELSE remaining
  IN  IF remaining <= 0 THEN acc
      ELSE [acc EXCEPT !.filled = @ + take,
                       !.cost = @ + Over(take * level.price, ONE_PROBABILITY)]

WalkBook(levels, quantity) ==
  FoldLeft(Take, [quantity |-> quantity, filled |-> 0, cost |-> 0], levels)

AvgPrice(walk) ==
  IF walk.filled > 0 THEN {Over(walk.cost * ONE_PROBABILITY, walk.filled)} ELSE Unknown

ToUpPrice(price, direction) == IF direction = "UP" THEN price ELSE ONE_PROBABILITY - price

(* quoteOverBook: DOWN consumes the bids at the mirrored price.             *)
Against(book, direction) ==
  IF direction = "UP" THEN book.asks
  ELSE [i \in DOMAIN book.bids |-> [book.bids[i] EXCEPT !.price = ONE_PROBABILITY - @]]

QuoteOverBook(book, direction, quantity) ==
  LET levels == Against(book, direction)
      walk == WalkBook(levels, quantity)
  IN  [fillableQuantity |-> walk.filled, cost |-> walk.cost, avgPrice |-> AvgPrice(walk),
       slippage |-> {Over((avg - touch) * SCALE, touch) :
                       avg \in AvgPrice(walk), touch \in Touch(levels) \ {0}},
       insufficientLiquidity |-> walk.filled < quantity]

(* contrarianEdge: the crowded side, and the price of the other.            *)
ContrarianEdge(book) ==
  {[crowdedSide |-> IF 2 * mid >= ONE_PROBABILITY THEN "UP" ELSE "DOWN",
    contrarianPrice |-> IF 2 * mid >= ONE_PROBABILITY THEN ONE_PROBABILITY - mid ELSE mid] :
     mid \in {m \in book.mid : 0 < m /\ m < ONE_PROBABILITY}}

(* cardPnl; winner is unknown or a direction.                               *)
CardPnl(direction, quantity, entryCost, winner, voided) ==
  IF voided THEN Over(quantity, 2) - entryCost
  ELSE (IF direction \in winner THEN quantity ELSE 0) - entryCost

-----------------------------------------------------------------------------
(* A market on chain: its status code and what the chain says beside it.    *)
STATUSES == <<"LISTED", "TRADING", "LOCKED", "SETTLING", "RESOLVED", "VOIDED">>

NormalizeStatus(m) ==
  IF m.isVoided THEN "VOIDED"
  ELSE IF m.status \in 0 .. 5 THEN STATUSES[m.status + 1]
  ELSE IF m.finalized THEN "RESOLVED" ELSE "UNKNOWN"

GetSettlement(m) ==
  {[winner |-> IF m.isVoided THEN {} ELSE {IF m.winningOutcome = 0 THEN "UP" ELSE "DOWN"},
    voided |-> m.isVoided] : x \in {m} \cap {y \in {m} : y.finalized \/ y.isResolved \/ y.isVoided}}

Capabilities(reachable, signerConfigured) ==
  [readable |-> reachable, writable |-> reachable /\ signerConfigured, orderBook |-> reachable,
   cashOut |-> reachable, venueLink |-> TRUE]

-----------------------------------------------------------------------------
(* The orders as the chain returns them: a price, and a quantity under one  *)
(* of two names, any of which may be missing or no number.                  *)
SafeBigInt(v) == {n \in v : n # Malformed}

ToLevels(orders) ==
  LET quantity(o) == SafeBigInt(IF o.quantity # {} THEN o.quantity ELSE o.size)
      wellFormed(o) == SafeBigInt(o.price) # {} /\ \E q \in quantity(o) : q > 0
      the(S) == CHOOSE x \in S : TRUE
      level(o) == [price |-> the(o.price), quantity |-> the(quantity(o))]
      kept == SelectSeq(orders, wellFormed)
  IN  [i \in DOMAIN kept |-> level(kept[i])]

GetOrderBook(found, bids, asks) ==
  IF found THEN BuildOrderBook(ToLevels(bids), ToLevels(asks)) ELSE Refused

GetQuote(book, direction, quantity) ==
  IF book = Refused THEN Refused ELSE QuoteOverBook(book, direction, quantity)

-----------------------------------------------------------------------------
(* One book in the terms of UP has four sides.                              *)
VenueSide(side, direction) ==
  CASE side = "BUY" /\ direction = "UP" -> "BUY_YES"
    [] side = "BUY" /\ direction = "DOWN" -> "BUY_NO"
    [] side = "SELL" /\ direction = "UP" -> "SELL_YES"
    [] side = "SELL" /\ direction = "DOWN" -> "SELL_NO"

(* What is sent to the venue, and what is made of its reply.                *)
PlaceOrder(signerConfigured, market, request) ==
  IF signerConfigured /\ market # {} /\ NormalizeStatus(CHOOSE m \in market : TRUE) = "TRADING"
  THEN [side |-> VenueSide(request.side, request.direction),
        price |-> ToUpPrice(request.price, request.direction), quantity |-> request.quantity]
  ELSE Refused

OrderResult(request, res) ==
  [orderId |-> res.orderId, txHash |-> res.hash,
   fills |-> [i \in DOMAIN res.fills |->
                [orderId |-> IF res.fills[i].orderId # {} THEN res.fills[i].orderId ELSE res.orderId,
                 direction |-> request.direction, price |-> res.fills[i].fillPrice,
                 quantity |-> res.fills[i].quantityFilled]],
   resting |-> res.fills = <<>> /\ res.orderId # {}]

CancelOrder(signerConfigured, market, request, res) ==
  IF signerConfigured /\ market # {}
  THEN [orderId |-> request.orderId, txHash |-> res.hash, cancelled |-> res.hash # {}]
  ELSE Refused

(* The balances are read by the ids of the two outcome tokens.              *)
GetPosition(market, balances) ==
  IF \E m \in market : m.upId # {} /\ m.downId # {}
  THEN LET m == CHOOSE m \in market : TRUE
           held(ids) == IF ids \cap DOMAIN balances = {} THEN 0
                        ELSE balances[CHOOSE x \in ids : TRUE]
       IN  [upQuantity |-> held(m.upId), downQuantity |-> held(m.downId)]
  ELSE Refused

(* The series that a window belongs to, or the page of all.                 *)
INTERVALS == [sec \in {300, 900, 3600, 14400} |->
                CASE sec = 300 -> "5m" [] sec = 900 -> "15m" [] sec = 3600 -> "1h"
                  [] sec = 14400 -> "4h"]

GetVenueLink(handle) ==
  {<<h.asset, INTERVALS[h.intervalSec]>> : h \in {x \in handle : x.intervalSec \in DOMAIN INTERVALS}}

-----------------------------------------------------------------------------
(* The agents, and the price of a pick in apps/web/src/routes/game/         *)
(* bot-arena.tsx.  A decision is the directions it may come out as (both,   *)
(* if it is left to chance) and its confidence, a fraction <<number, of>>,  *)
(* exact where the code rounds it to floating point.                        *)
NoSignal == [directions |-> {"UP", "DOWN"}, confidence |-> <<0, 1>>]
Signal(direction, confidence) == [directions |-> {direction}, confidence |-> confidence]

AtMostOne(fraction) == IF fraction[1] > fraction[2] THEN <<1, 1>> ELSE fraction
Less(a, b) == a[1] * b[2] < b[1] * a[2]
Size(n) == IF n >= 0 THEN n ELSE -n

(* applyDifficulty: a signal too weak to act on is left to chance.          *)
DifficultyThreshold(difficulty) ==
  CASE difficulty = "easy" -> <<6, 10>>
    [] difficulty = "medium" -> <<3, 10>>
    [] difficulty = "hard" -> <<0, 1>>

ApplyDifficulty(decision, difficulty) ==
  IF Less(decision.confidence, DifficultyThreshold(difficulty)) THEN NoSignal ELSE decision

(* Momentum: the mean of the recent half against that of the older half.    *)
SumOf(series) == FoldLeft(LAMBDA sum, mid : sum + mid, 0, series)

Momentum(context) ==
  LET history == context.midHistory
      half == Len(history) \div 2
      older == SumOf(SubSeq(history, 1, half)) * (Len(history) - half)
      recent == SumOf(SubSeq(history, half + 1, Len(history))) * half
  IN  IF Len(history) < MIN_SAMPLES \/ older = 0 THEN NoSignal
      ELSE Signal(IF recent >= older THEN "UP" ELSE "DOWN",
                AtMostOne(<<10 * Size(recent - older), older>>))

(* Mean reversion: against a market stretched from even.                    *)
MeanReversion(context) ==
  IF \A book \in context.book : book.mid = Unknown THEN NoSignal
  ELSE LET book == CHOOSE b \in context.book : TRUE
           stretch == 2 * (CHOOSE mid \in book.mid : TRUE) - ONE_PROBABILITY
           even == 2 * ONE_PROBABILITY
       IN  IF 100 * Size(stretch) < 15 * even
           THEN Signal(IF stretch >= 0 THEN "DOWN" ELSE "UP", <<100 * Size(stretch), 60 * even>>)
           ELSE Signal(IF stretch > 0 THEN "DOWN" ELSE "UP",
                     AtMostOne(<<10 * Size(stretch), 4 * even>>))

(* CLOB imbalance: with the side that has more resting, in a deep book.     *)
ClobImbalance(context) ==
  IF \A book \in context.book :
       book.bidDepth + book.askDepth < MIN_DEPTH \/ book.imbalance = Unknown
  THEN NoSignal
  ELSE LET imbalance == CHOOSE x \in UNION {book.imbalance : book \in context.book} : TRUE
       IN  Signal(IF imbalance >= 0 THEN "UP" ELSE "DOWN", <<Size(imbalance), SCALE>>)

(* Contrarian: the side that the market holds less likely.                  *)
Contrarian(context) ==
  LET edges == UNION {ContrarianEdge(book) : book \in context.book}
      mid == CHOOSE m \in UNION {book.mid : book \in context.book} : TRUE
  IN  IF edges = {} THEN NoSignal
      ELSE Signal(IF \E e \in edges : e.crowdedSide = "UP" THEN "DOWN" ELSE "UP",
                <<Size(2 * mid - ONE_PROBABILITY), ONE_PROBABILITY>>)

Decide(strategy, difficulty, context) ==
  LET decision == CASE strategy = "momentum" -> Momentum(context)
                    [] strategy = "mean-reversion" -> MeanReversion(context)
                    [] strategy = "clob-imbalance" -> ClobImbalance(context)
                    [] strategy = "contrarian" -> Contrarian(context)
  IN  IF decision = NoSignal THEN NoSignal ELSE ApplyDifficulty(decision, difficulty)

(* recordMid: the mids that the server observed, the last ones of them.     *)
RecordMid(series, mid) ==
  LET grown == series \o (IF mid = Unknown THEN <<>> ELSE <<CHOOSE m \in mid : TRUE>>)
  IN  SubSeq(grown, IF Len(grown) > MID_HISTORY_LIMIT THEN 2 ELSE 1, Len(grown))

(* costOf: what a pick of the arena pays; even where nothing is quoted.     *)
CostOf(mid, direction) ==
  LET upCost(m) == Over(STAKE_PER_CARD * m, ONE_PROBABILITY)
  IN  IF mid = Unknown THEN STAKE_PER_CARD \div 2
      ELSE LET up == upCost(CHOOSE m \in mid : TRUE)
           IN  IF direction = "UP" THEN up ELSE STAKE_PER_CARD - up

-----------------------------------------------------------------------------
(* What the arithmetic promises, for every price, quantity and scale.       *)

(* A division towards zero leaves less than the divisor.                    *)
LEMMA OverOf ==
  ASSUME NEW a \in Int, NEW b \in Nat \ {0}
  PROVE  /\ Over(a, b) \in Int
         /\ a >= 0 => b * Over(a, b) <= a /\ a < b * Over(a, b) + b
         /\ a <= 0 => b * Over(a, b) >= a /\ a > b * Over(a, b) - b
  BY SMT DEF Over

(* The two sides of one card share its payout (cardPnl): one of them is     *)
(* paid the whole quantity, or each is paid half of it, rounded down, where *)
(* the market is void; what they paid comes off, and nothing else.          *)
THEOREM SidesShareThePayout ==
  ASSUME NEW q \in Nat, NEW up \in Int, NEW down \in Int,
         NEW winner \in {{"UP"}, {"DOWN"}}, NEW voided \in BOOLEAN
  PROVE  CardPnl("UP", q, up, winner, voided) + CardPnl("DOWN", q, down, winner, voided)
           = (IF voided THEN q - (q % 2) ELSE q) - (up + down)
<1>1. CASE voided
  <2>1. Over(q, 2) = q \div 2
    BY DEF Over
  <2>2. 2 * (q \div 2) = q - (q % 2) /\ q \div 2 \in Int
    OBVIOUS
  <2> QED BY <1>1, <2>1, <2>2 DEF CardPnl
<1>2. CASE ~voided
  BY <1>2 DEF CardPnl
<1> QED BY <1>1, <1>2

(* A price of the market is unknown or a chance.                            *)
MidPrices == {Unknown} \cup {{m} : m \in 0 .. ONE_PROBABILITY}

(* What a stake costs at a price is no less than nothing and no more than   *)
(* the stake.                                                               *)
LEMMA UpCostOf ==
  ASSUME NEW m \in 0 .. ONE_PROBABILITY
  PROVE  /\ CostOf({m}, "UP") = Over(STAKE_PER_CARD * m, ONE_PROBABILITY)
         /\ CostOf({m}, "DOWN") = STAKE_PER_CARD - Over(STAKE_PER_CARD * m, ONE_PROBABILITY)
         /\ Over(STAKE_PER_CARD * m, ONE_PROBABILITY) \in 0 .. STAKE_PER_CARD
<1> DEFINE a == STAKE_PER_CARD * m
           c == Over(a, ONE_PROBABILITY)
<1>1. a \in Nat /\ a <= STAKE_PER_CARD * ONE_PROBABILITY
  BY SMT, BookAssumption
<1>2. c \in Int /\ ONE_PROBABILITY * c <= a /\ a < ONE_PROBABILITY * c + ONE_PROBABILITY
  BY <1>1, OverOf, BookAssumption
<1> HIDE DEF a, c
<1>3. c >= 0
  <2> SUFFICES ASSUME c <= -1 PROVE FALSE
    BY <1>2
  <2>1. ONE_PROBABILITY * c <= -ONE_PROBABILITY
    BY <1>2, BookAssumption
  <2> QED BY <1>1, <1>2, <2>1, BookAssumption
<1>4. c <= STAKE_PER_CARD
  <2> SUFFICES ASSUME c >= STAKE_PER_CARD + 1 PROVE FALSE
    BY <1>2, BookAssumption
  <2>1. ONE_PROBABILITY * c >= ONE_PROBABILITY * (STAKE_PER_CARD + 1)
    BY <1>2, BookAssumption
  <2>2. ONE_PROBABILITY * (STAKE_PER_CARD + 1) = STAKE_PER_CARD * ONE_PROBABILITY + ONE_PROBABILITY
    BY BookAssumption
  <2> QED BY <1>1, <1>2, <2>1, <2>2, BookAssumption
<1>5. {m} # Unknown /\ (CHOOSE x \in {m} : TRUE) = m
  BY DEF Unknown
<1> QED BY <1>2, <1>3, <1>4, <1>5, BookAssumption DEF CostOf, a, c

(* Opposite picks of one card of the arena are a zero-sum game, for every   *)
(* price of the market, however it settles (costOf, cardPnl): neither the   *)
(* rounding of a cost nor that of a refund is paid to one of them.          *)
THEOREM OppositePicksSumToNothing ==
  ASSUME NEW mid \in MidPrices, NEW winner \in {{"UP"}, {"DOWN"}}, NEW voided \in BOOLEAN
  PROVE  CardPnl("UP", STAKE_PER_CARD, CostOf(mid, "UP"), winner, voided)
           + CardPnl("DOWN", STAKE_PER_CARD, CostOf(mid, "DOWN"), winner, voided) = 0
<1> DEFINE up == CostOf(mid, "UP")
           down == CostOf(mid, "DOWN")
<1>1. up \in Int /\ down \in Int /\ up + down = STAKE_PER_CARD
  <2>1. CASE mid = Unknown
    <3>1. up = STAKE_PER_CARD \div 2 /\ down = STAKE_PER_CARD \div 2
      BY <2>1 DEF CostOf
    <3>2. /\ STAKE_PER_CARD \div 2 \in Int
          /\ STAKE_PER_CARD \div 2 + STAKE_PER_CARD \div 2 = STAKE_PER_CARD
      BY BookAssumption
    <3> QED BY <3>1, <3>2
  <2>2. CASE mid # Unknown
    <3>1. PICK m \in 0 .. ONE_PROBABILITY : mid = {m}
      BY <2>2 DEF MidPrices
    <3> QED BY <3>1, UpCostOf, BookAssumption
  <2> QED BY <2>1, <2>2
<1> HIDE DEF up, down
<1>2. CardPnl("UP", STAKE_PER_CARD, up, winner, voided)
        + CardPnl("DOWN", STAKE_PER_CARD, down, winner, voided)
          = (IF voided THEN STAKE_PER_CARD - (STAKE_PER_CARD % 2) ELSE STAKE_PER_CARD) - (up + down)
  <2>1. STAKE_PER_CARD \in Nat
    BY BookAssumption
  <2> QED BY <1>1, <2>1, SidesShareThePayout
<1>3. (IF voided THEN STAKE_PER_CARD - (STAKE_PER_CARD % 2) ELSE STAKE_PER_CARD) = STAKE_PER_CARD
  BY BookAssumption
<1>4. CardPnl("UP", STAKE_PER_CARD, up, winner, voided)
        + CardPnl("DOWN", STAKE_PER_CARD, down, winner, voided) = 0
  BY <1>1, <1>2, <1>3, BookAssumption
<1> QED BY <1>4 DEF up, down

(* The contrarian's side is never the dearer one (contrarianEdge, costOf),  *)
(* in any book with a mid price: its price is at most even, and so is what  *)
(* the arena makes it pay against the crowd, after rounding.                *)
THEOREM AgainstTheCrowdIsCheaper ==
  ASSUME NEW book, NEW m \in 0 .. ONE_PROBABILITY, book.mid = {m},
         NEW edge \in ContrarianEdge(book)
  PROVE  /\ 0 < edge.contrarianPrice /\ 2 * edge.contrarianPrice <= ONE_PROBABILITY
         /\ edge.crowdedSide = "UP" => CostOf(book.mid, "DOWN") <= CostOf(book.mid, "UP")
         /\ edge.crowdedSide = "DOWN" => CostOf(book.mid, "UP") <= CostOf(book.mid, "DOWN")
<1> DEFINE a == STAKE_PER_CARD * m
           c == Over(a, ONE_PROBABILITY)
           h == STAKE_PER_CARD \div 2
<1>1. /\ 0 < m /\ m < ONE_PROBABILITY
      /\ edge.crowdedSide = (IF 2 * m >= ONE_PROBABILITY THEN "UP" ELSE "DOWN")
      /\ edge.contrarianPrice = (IF 2 * m >= ONE_PROBABILITY THEN ONE_PROBABILITY - m ELSE m)
  BY DEF ContrarianEdge
<1>2. 0 < edge.contrarianPrice /\ 2 * edge.contrarianPrice <= ONE_PROBABILITY
  BY <1>1, BookAssumption
<1>3. h \in Nat /\ STAKE_PER_CARD = 2 * h
  BY BookAssumption
<1>4. a \in Nat /\ a = h * (2 * m)
  <2>1. (2 * h) * m = h * (2 * m) /\ (2 * h) * m \in Nat
    BY <1>3
  <2> QED BY <1>3, <2>1
<1>5. c \in Int /\ ONE_PROBABILITY * c <= a /\ a < ONE_PROBABILITY * c + ONE_PROBABILITY
  BY <1>4, OverOf, BookAssumption
<1>6. CostOf(book.mid, "UP") = c /\ CostOf(book.mid, "DOWN") = 2 * h - c
  BY <1>3, UpCostOf
<1> HIDE DEF a, c, h
<1>7. CASE 2 * m >= ONE_PROBABILITY
  <2>1. a >= h * ONE_PROBABILITY
    BY <1>3, <1>4, <1>7, BookAssumption
  <2>2. c >= h
    <3> SUFFICES ASSUME c + 1 <= h PROVE FALSE
      BY <1>3, <1>5
    <3>1. ONE_PROBABILITY * (c + 1) <= ONE_PROBABILITY * h
      BY <1>3, <1>5, BookAssumption
    <3>2. ONE_PROBABILITY * (c + 1) = ONE_PROBABILITY * c + ONE_PROBABILITY
      BY <1>5, BookAssumption
    <3> QED BY <1>3, <1>4, <1>5, <2>1, <3>1, <3>2, BookAssumption
  <2> QED BY <1>1, <1>2, <1>3, <1>5, <1>6, <1>7, <2>2
<1>8. CASE 2 * m < ONE_PROBABILITY
  <2>1. a <= h * ONE_PROBABILITY
    BY <1>3, <1>4, <1>8, BookAssumption
  <2>2. c <= h
    <3> SUFFICES ASSUME c >= h + 1 PROVE FALSE
      BY <1>3, <1>5
    <3>1. ONE_PROBABILITY * c >= ONE_PROBABILITY * (h + 1)
      BY <1>3, <1>5, BookAssumption
    <3>2. ONE_PROBABILITY * (h + 1) = ONE_PROBABILITY * h + ONE_PROBABILITY
      BY <1>3, BookAssumption
    <3> QED BY <1>3, <1>4, <1>5, <2>1, <3>1, <3>2, BookAssumption
  <2> QED BY <1>1, <1>2, <1>3, <1>5, <1>6, <1>8, <2>2, BookAssumption
<1> QED BY <1>7, <1>8, BookAssumption

(* The imbalance of a book is a fraction between all bids and all asks      *)
(* (computeImbalance), with the sign of the deeper side, so that the        *)
(* confidence an agent reads from it is at most certainty.                  *)
THEOREM ImbalanceIsAFraction ==
  ASSUME NEW bidDepth \in Nat, NEW askDepth \in Nat,
         NEW x \in ComputeImbalance(bidDepth, askDepth)
  PROVE  /\ x \in -SCALE .. SCALE
         /\ bidDepth >= askDepth => x >= 0
         /\ bidDepth <= askDepth => x <= 0
<1> DEFINE d == bidDepth - askDepth
           b == bidDepth + askDepth
           a == d * SCALE
<1>1. b \in Nat \ {0} /\ x = Over(a, b)
  BY DEF ComputeImbalance, Unknown
<1>2. d \in Int /\ -b <= d /\ d <= b /\ a \in Int
  BY BookAssumption
<1>3. /\ bidDepth >= askDepth <=> d >= 0
      /\ bidDepth <= askDepth <=> d <= 0
  OBVIOUS
<1>4. /\ x \in Int
      /\ a >= 0 => b * x <= a /\ a < b * x + b
      /\ a <= 0 => b * x >= a /\ a > b * x - b
  BY <1>1, <1>2, OverOf
<1> HIDE DEF d, b
<1>5. CASE d >= 0
  <2>1. a >= 0 /\ a <= b * SCALE
    BY <1>1, <1>2, <1>5, BookAssumption
  <2> HIDE DEF a
  <2>2. x >= 0
    <3> SUFFICES ASSUME x <= -1 PROVE FALSE
      BY <1>4
    <3>1. b * x <= -b
      BY <1>1, <1>4
    <3> QED BY <1>1, <1>2, <1>4, <2>1, <3>1
  <2>3. x <= SCALE
    <3> SUFFICES ASSUME x >= SCALE + 1 PROVE FALSE
      BY <1>4, BookAssumption
    <3>1. b * x >= b * (SCALE + 1) /\ b * (SCALE + 1) = b * SCALE + b
      BY <1>1, <1>4, BookAssumption
    <3> QED BY <1>1, <1>2, <1>4, <2>1, <3>1, BookAssumption
  <2>4. d <= 0 => x <= 0
    <3> SUFFICES ASSUME d = 0, x >= 1 PROVE FALSE
      BY <1>2, <1>4, <1>5
    <3>1. a = 0
      BY BookAssumption DEF a
    <3>2. b * x >= b
      BY <1>1, <1>4
    <3> QED BY <1>1, <1>4, <3>1, <3>2
  <2> QED BY <1>3, <1>4, <2>2, <2>3, <2>4, BookAssumption
<1>6. CASE d < 0
  <2>1. a <= 0 /\ a >= -(b * SCALE)
    BY <1>1, <1>2, <1>6, BookAssumption
  <2> HIDE DEF a
  <2>2. x <= 0
    <3> SUFFICES ASSUME x >= 1 PROVE FALSE
      BY <1>4
    <3>1. b * x >= b
      BY <1>1, <1>4
    <3> QED BY <1>1, <1>2, <1>4, <2>1, <3>1
  <2>3. x >= -SCALE
    <3> SUFFICES ASSUME x <= -SCALE - 1 PROVE FALSE
      BY <1>4, BookAssumption
    <3>1. b * x <= b * (-SCALE - 1) /\ b * (-SCALE - 1) = -(b * SCALE) - b
      BY <1>1, <1>4, BookAssumption
    <3> QED BY <1>1, <1>2, <1>4, <2>1, <3>1, BookAssumption
  <2> QED BY <1>2, <1>3, <1>4, <1>6, <2>2, <2>3, BookAssumption
<1> QED BY <1>2, <1>5, <1>6

(* Difficulty scales how decisive an agent is and nothing else              *)
(* (applyDifficulty): of any decision, where an easier agent makes a call,  *)
(* a harder one makes the same, and the hardest makes every call.           *)
THEOREM HarderMakesTheSameCalls ==
  ASSUME NEW decision, decision.confidence \in Nat \X Nat
  PROVE  /\ ApplyDifficulty(decision, "easy") # NoSignal
              => ApplyDifficulty(decision, "medium") = ApplyDifficulty(decision, "easy")
         /\ ApplyDifficulty(decision, "medium") # NoSignal
              => ApplyDifficulty(decision, "hard") = ApplyDifficulty(decision, "medium")
         /\ ApplyDifficulty(decision, "hard") = decision
<1> DEFINE n == decision.confidence[1]
           d == decision.confidence[2]
<1>1. n \in Nat /\ d \in Nat
  OBVIOUS
<1>2. /\ Less(decision.confidence, DifficultyThreshold("easy")) <=> n * 10 < 6 * d
      /\ Less(decision.confidence, DifficultyThreshold("medium")) <=> n * 10 < 3 * d
      /\ Less(decision.confidence, DifficultyThreshold("hard")) <=> n * 1 < 0 * d
  BY DEF Less, DifficultyThreshold
<1> HIDE DEF n, d
<1>3. /\ n * 10 < 3 * d => n * 10 < 6 * d
      /\ ~(n * 1 < 0 * d)
  BY <1>1
<1> QED BY <1>2, <1>3 DEF ApplyDifficulty
=============================================================================
