--------------------------- MODULE SwipeDeadline ---------------------------
(***************************************************************************)
(* When a player may still swipe a card: the deadlines of                  *)
(* apps/web/src/lib/swipe-window.ts as active-duel.tsx applies them to the *)
(* clock ticks and the price ticks that the server sends                   *)
(* (ws/match-clock.ts, ws/market-stream.ts).                               *)
(*                                                                         *)
(* Times are in milliseconds of the server, but for the expiry of a        *)
(* market, which the venue gives in seconds.  The player's swipes are as   *)
(* in ActiveDuel; here one is recorded at once, or fails.                  *)
(***************************************************************************)
EXTENDS Integers, FiniteSets

CONSTANTS
  CardsInDeck,
  ExpirySec,              \* market.expirySec of each card
  SECOND,                 \* milliseconds in a second
  SWIPE_WINDOW_MS,
  CARD_SWIPE_BUFFER_MS,
  StartedAtMs,            \* when the duel was joined
  Skew,                   \* by how much the player's clock is behind
  MaxMs                   \* bound: the clock stops there

VARIABLES
  serverNow,           \* the server's clock
  serverClockOffsetMs, \* what the client adds to its own, 0 before a match_tick
  ticks,               \* the expiry in the last oracle_tick of each card: a set
  cardIdx,             \* the card on the screen
  auto                 \* autoSwipeRef: the last card the fallback swiped, if any

vars == <<serverNow, serverClockOffsetMs, ticks, cardIdx, auto>>

NoAuto == -1
Deck == 0 .. CardsInDeck - 1

TypeOK ==
  /\ serverNow \in StartedAtMs .. MaxMs
  /\ serverClockOffsetMs \in {0, Skew}
  /\ \A i \in Deck : ticks[i] \subseteq Nat /\ Cardinality(ticks[i]) <= 1
  /\ cardIdx \in 0 .. CardsInDeck
  /\ auto \in Deck \cup {NoAuto}

Init ==
  /\ serverNow = StartedAtMs
  /\ serverClockOffsetMs = 0
  /\ ticks = [i \in Deck |-> {}]
  /\ cardIdx = 0
  /\ auto = NoAuto

(* swipe-window.ts, from the client's clock, and the sooner of the two.     *)
ClientNow == serverNow - Skew + serverClockOffsetMs

SwipeWindowRemainingMs == StartedAtMs + SWIPE_WINDOW_MS - ClientNow

CardSwipeRemainingMs(expiries) ==
  {expiry - CARD_SWIPE_BUFFER_MS - ClientNow : expiry \in {e \in expiries : e > 0}}

CurrentCardExpiryMs == IF cardIdx \in Deck THEN ticks[cardIdx] ELSE {}

Expired ==
  \E remaining \in {SwipeWindowRemainingMs} \cup CardSwipeRemainingMs(CurrentCardExpiryMs) :
    remaining <= 0

(* The player swipes by hand while the deck is not locked; a swipe that     *)
(* failed leaves the card where it was, and changes nothing here.           *)
SwipeByHand ==
  /\ cardIdx \in Deck
  /\ ~ Expired
  /\ cardIdx' = cardIdx + 1
  /\ UNCHANGED <<serverNow, serverClockOffsetMs, ticks, auto>>

(* Past the card's deadline, but before its market expires and the window   *)
(* closes, the favoured side is swiped for the player, once.                *)
AutoSwipe ==
  /\ cardIdx \in Deck
  /\ \E remaining \in CardSwipeRemainingMs(CurrentCardExpiryMs) : remaining <= 0
  /\ SwipeWindowRemainingMs > 0
  /\ \A expiry \in CurrentCardExpiryMs : ClientNow < expiry
  /\ auto # cardIdx
  /\ auto' = cardIdx
  /\ cardIdx' \in {cardIdx, cardIdx + 1}
  /\ UNCHANGED <<serverNow, serverClockOffsetMs, ticks>>

(* market-stream.ts: the tick of a card's market carries its expiry, as the *)
(* venue states it, unless the market could not be read.                    *)
ReceiveOracleTick(i) ==
  /\ \E expiry \in {{}, {ExpirySec[i]}} : ticks' = [ticks EXCEPT ![i] = expiry]
  /\ UNCHANGED <<serverNow, serverClockOffsetMs, cardIdx, auto>>

ReceiveMatchTick ==
  /\ serverClockOffsetMs' = Skew
  /\ UNCHANGED <<serverNow, ticks, cardIdx, auto>>

EverySecond ==
  /\ serverNow + SECOND <= MaxMs
  /\ serverNow' = serverNow + SECOND
  /\ UNCHANGED <<serverClockOffsetMs, ticks, cardIdx, auto>>

Next ==
  \/ SwipeByHand
  \/ AutoSwipe
  \/ \E i \in Deck : ReceiveOracleTick(i)
  \/ ReceiveMatchTick
  \/ EverySecond

Spec == Init /\ [][Next]_vars

-----------------------------------------------------------------------------
(* Safety: for a client that knows the server's clock, the deck locks no    *)
(* sooner than the tighter of the window and the current card's deadline,   *)
(* its market's expiry less the buffer.                                     *)
LocksAtDeadline ==
  cardIdx \in Deck /\ Expired /\ serverClockOffsetMs = Skew =>
    \/ serverNow >= StartedAtMs + SWIPE_WINDOW_MS
    \/ serverNow >= ExpirySec[cardIdx] * SECOND - CARD_SWIPE_BUFFER_MS
=============================================================================
