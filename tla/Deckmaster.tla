----------------------------- MODULE Deckmaster -----------------------------
(***************************************************************************)
(* apps/server/src/deckmaster.ts, and card-source.ts, which deals the live *)
(* deck: which markets a deck is made of, how many cards it has, where     *)
(* their strikes are placed; the markets read from the mirror, the         *)
(* commitment of a deck, its plaintext in the table of decks, and the two  *)
(* HTTP routes.                                                            *)
(*                                                                         *)
(* A row is a market_created event: a market, its expiry and its lifetime, *)
(* which is unknown (an empty set) or one number.  The PRG is any choice   *)
(* that the code can make of it.  Keccak is free of collisions: a          *)
(* commitment is the pair of what it commits to.                           *)
(***************************************************************************)
EXTENDS Mirror
LOCAL INSTANCE SequencesExt
LOCAL INSTANCE FiniteSetsExt

CONSTANTS
  SHORT_LIFETIME_MAX, MID_LIFETIME_MAX,
  ZONE_OFFSET,                     \* of each zone
  DEDUP_BUMP_STEP, DEDUP_MAX_BUMP,
  MIN_CARDS, MAX_CARDS,            \* the contract's deck sizes
  POS_INF_TICK,
  CERTAIN, ZONE_TARGET_PROB,       \* of each zone
  PRACTICE_EXPIRY_OFFSETS,
  ZERO_SALT,
  CARD_MIN_HEADROOM, CARD_MAX_HORIZON

ASSUME DeckAssumption ==
  /\ ZONE_OFFSET \in [{"close", "mid", "edge"} -> Nat]
  /\ DEDUP_BUMP_STEP \in Nat \ {0} /\ DEDUP_MAX_BUMP \in Nat
  /\ MIN_CARDS \in Nat \ {0} /\ MAX_CARDS \in Nat /\ MIN_CARDS <= MAX_CARDS

FirstOfEach(rows) ==
  FoldLeft(LAMBDA out, r : IF \E i \in DOMAIN out : out[i].id = r.id THEN out
                           ELSE Append(out, r), <<>>, rows)
UpTo(count, s) == SubSeq(s, 1, IF count < Len(s) THEN count ELSE Len(s))
SoonestFirst(s) == SortSeq(s, LAMBDA a, b : a.expiry < b.expiry)
FreshestFirst(s) == SortSeq(s, LAMBDA a, b : a.expiry > b.expiry)

SelectMarketRows(rows, now, minHeadroom, maxHorizon, count) ==
  UpTo(count, SoonestFirst(SelectSeq(FirstOfEach(rows),
    LAMBDA r : now + minHeadroom < r.expiry /\ r.expiry <= now + maxHorizon)))

ClassifyTier(lifetime) ==
  IF \E n \in lifetime : n <= SHORT_LIFETIME_MAX THEN "short"
  ELSE IF \E n \in lifetime : n <= MID_LIFETIME_MAX THEN "mid"
  ELSE "long"

(* Shorts: the freshest; mids: the soonest; together by expiry.             *)
SelectTieredMarkets(rows, opts) ==
  LET live(tier, floor) ==
        SelectSeq(FirstOfEach(rows), LAMBDA r :
          /\ r.expiry > opts.now /\ r.expiry <= opts.now + opts.maxHorizon
          /\ ClassifyTier(r.lifetime) = tier
          /\ r.expiry - opts.now >= floor)
  IN  SoonestFirst(UpTo(opts.shortCount, FreshestFirst(live("short", opts.shortTtlFloor)))
                     \o UpTo(opts.midCount, SoonestFirst(live("mid", opts.midTtlFloor))))

(* resolveDeckBounds; a field of the request is absent or one number.       *)
Clamped(n) == Max({MIN_CARDS, Min({MAX_CARDS, n})})
Given(field, default) == IF field = {} THEN default ELSE Max(field)

ResolveDeckBounds(body) ==
  IF body.deckSize # {} THEN [min |-> Clamped(Max(body.deckSize)), max |-> Clamped(Max(body.deckSize))]
  ELSE LET max == Clamped(Given(body.maxDeckSize, 5))
       IN  [min |-> Min({Clamped(Given(body.minDeckSize, 3)), max}), max |-> max]

DecideDeckSize(liveCount, bounds) == [ok |-> liveCount >= 1, deckSize |-> bounds.max]

(* allocateSignBalance and allocateZones: what the PRG may deal.            *)
Occurrences(s, v) == Cardinality({i \in DOMAIN s : s[i] = v})

SignBalances(deckSize) ==
  {s \in [1 .. deckSize -> {1, -1}] :
     Occurrences(s, 1) \in {deckSize \div 2, deckSize - deckSize \div 2}}

ZonePattern == <<"close", "close", "mid", "mid", "edge">>
BaseZones(deckSize) ==
  CASE deckSize = 1 -> <<"close">>
    [] deckSize = 2 -> <<"close", "mid">>
    [] deckSize = 3 -> <<"close", "mid", "edge">>
    [] deckSize = 4 -> <<"close", "mid", "mid", "edge">>
    [] deckSize > 4 -> [i \in 1 .. deckSize |-> ZonePattern[((i - 1) % 5) + 1]]

ZoneAllocations(deckSize) ==
  {z \in [1 .. deckSize -> DOMAIN ZONE_OFFSET] :
     \A zone \in DOMAIN ZONE_OFFSET : Occurrences(z, zone) = Occurrences(BaseZones(deckSize), zone)}

(* snapToAdmissionTick: the nearest admission tick, in ticks.               *)
SnapToAdmissionTick(rawStrike, tickSize, admissionTickSize) ==
  LET r == Max({rawStrike, 0})
  IN  (IF admissionTickSize <= 0 THEN r
       ELSE ((r + admissionTickSize \div 2) \div admissionTickSize) * admissionTickSize)
      \div tickSize

(* buildDeck: each card on its market in turn, its strike moved out step by *)
(* step while the pair is taken, and left a duplicate at the last step.     *)
Bumps == {b \in 0 .. DEDUP_MAX_BUMP + DEDUP_BUMP_STEP :
            /\ b % DEDUP_BUMP_STEP = 0
            /\ b = 0 \/ b - DEDUP_BUMP_STEP < DEDUP_MAX_BUMP}

StrikeTick(market, spot, sign, offset) ==
  SnapToAdmissionTick(spot + sign * ((spot * offset) \div 10000),
                      market.tickSize, market.admissionTickSize)

\* The first bump whose card is not taken yet, or else the last.
FirstFree(seen, card) ==
  LET fresh == {b \in DOMAIN card : card[b] \notin seen}
  IN  card[IF fresh = {} THEN Max(DOMAIN card) ELSE Min(fresh)]

Place(seen, market, spot, sign, zone) ==
  FirstFree(seen, [bump \in Bumps |->
    [market |-> market.id, tick |-> StrikeTick(market, spot, sign, ZONE_OFFSET[zone] + bump)]])

Dealt(deckSize, markets, PlaceOn(_, _, _)) ==
  FoldLeft(LAMBDA deck, i :
             Append(deck, PlaceOn({deck[k] : k \in DOMAIN deck}, markets[((i - 1) % Len(markets)) + 1], i)),
           <<>>, [i \in 1 .. deckSize |-> i])

BuildDeck(markets, spot, signs, zones) ==
  Dealt(Len(signs), markets, LAMBDA seen, m, i : Place(seen, m, spot, signs[i], zones[i]))

(* buildSviDeck: raw is where the quoted probability puts each strike; a    *)
(* taken pair moves outwards by whole admission cells.                      *)
PlaceSvi(seen, market, raw, sign) ==
  FirstFree(seen, [bump \in {k * market.admissionTickSize : k \in 0 .. 10} |->
    [market |-> market.id,
     tick |-> SnapToAdmissionTick(IF sign > 0 THEN raw + bump ELSE raw - bump,
                                  market.tickSize, market.admissionTickSize)]])

BuildSviDeck(markets, raws, signs) ==
  Dealt(Len(signs), markets, LAMBDA seen, m, i : PlaceSvi(seen, m, raws[i], signs[i]))

\* What a card carries beside its market and strike.
Hints(card, sign) ==
  [isUpFavored |-> sign < 0, lowerTick |-> IF sign < 0 THEN card.tick ELSE 0,
   higherTick |-> IF sign < 0 THEN POS_INF_TICK ELSE card.tick]

(* buildPracticeDeck, of which the chances are whole parts of CERTAIN.      *)
PracticeDeck(signs, zones) ==
  [i \in DOMAIN signs |->
     [expiryOffsetMs |-> PRACTICE_EXPIRY_OFFSETS[Min({i, Len(PRACTICE_EXPIRY_OFFSETS)})],
      pUp |-> IF signs[i] < 0 THEN ZONE_TARGET_PROB[zones[i]]
              ELSE CERTAIN - ZONE_TARGET_PROB[zones[i]]]]

(* shuffle: the draws are the PRG's, one below each index from the last.    *)
Draws(n) == {d \in [2 .. n -> 1 .. n] : \A i \in 2 .. n : d[i] <= i}
Shuffle(arr, draws) ==
  FoldLeft(LAMBDA out, i : [out EXCEPT ![i] = out[draws[i]], ![draws[i]] = out[i]],
           arr, [k \in 1 .. Len(arr) - 1 |-> Len(arr) + 1 - k])

-----------------------------------------------------------------------------
(* Decks from the mirror, and their commitments.                            *)
IndexedMarketRows(listed) ==
  [i \in DOMAIN listed |->
     [id |-> listed[i].id, expiry |-> listed[i].expiry,
      lifetime |-> {listed[i].expiry - t : t \in listed[i].created}]]

FindDeckMarkets(markets, network, now, count) ==
  {SelectMarketRows(IndexedMarketRows(listed), now, CARD_MIN_HEADROOM, CARD_MAX_HORIZON, count) :
     listed \in ListPredictMarkets(markets, 1, network)}

FindTieredDeckMarkets(markets, network, opts) ==
  {SelectTieredMarkets(IndexedMarketRows(listed), opts) :
     listed \in ListPredictMarkets(markets, 1, network)}

ComputeDeckCommitWithSalt(cards, salt) ==
  <<[i \in DOMAIN cards |-> <<cards[i].market, cards[i].strike>>], salt>>

CommitDeck(out) ==
  LET stored == [i \in DOMAIN out |-> [market |-> out[i].market, strike |-> out[i].strike]]
  IN  [cards |-> stored, hash |-> ComputeDeckCommitWithSalt(stored, ZERO_SALT)]

(* rememberDeck, and fetchDeckEntry with what is missing left out.          *)
RememberDeck(decks, hash, cards, seed, settleAtMs) ==
  Put(decks, hash, [cards |-> cards, seed |-> seed, settleAtMs |-> settleAtMs])

(* card-source.ts: the strike is the market's, and neither side is favoured *)
DreamdexCards(deck) ==
  [i \in DOMAIN deck |-> [market |-> deck[i].marketId, strike |-> deck[i].strike,
                          lowerTick |-> 0, higherTick |-> 0, isUpFavored |-> FALSE]]

(* POST /deckmaster/generate.  spot: what readBtcSpot returns, which is     *)
(* nothing, since it throws; draw: the sides and zones of MAX_CARDS cards   *)
(* that the seed gives.                                                     *)
ReadBtcSpot == {}

HandleGenerate(served, granted, found, body, spot, decks, seed, draw) ==
  LET bounds == ResolveDeckBounds(body)
      markets == UpTo(bounds.max, found)
      decision == DecideDeckSize(Len(markets), bounds)
      size == 1 .. decision.deckSize
      cards == BuildDeck(markets, CHOOSE x \in spot : TRUE,
                         [i \in size |-> draw.signs[i]], [i \in size |-> draw.zones[i]])
      deck == CommitDeck([i \in size |-> [market |-> cards[i].market, strike |-> cards[i].tick]])
      answer(status) == [status |-> status, hash |-> {}, decks |-> decks]
  IN  IF ~ served THEN answer(503)
      ELSE IF ~ granted THEN answer(429)
      ELSE IF ~ decision.ok THEN answer(503)
      ELSE IF spot = {} THEN answer(500)
      ELSE [status |-> 200, hash |-> {deck.hash},
            decks |-> RememberDeck(decks, deck.hash, deck.cards, {seed}, {})]

(* GET /deckmaster/reveal.                                                  *)
HandleReveal(decks, hash) ==
  LET rows == UNION {RowOf(decks, h) : h \in hash}
  IN  IF hash = {} THEN [status |-> 400]
      ELSE IF rows = {} THEN [status |-> 404]
      ELSE LET row == CHOOSE r \in rows : TRUE
           IN  [status |-> 200, cards |-> row.cards, seed |-> row.seed]
=============================================================================
