----------------------------- MODULE SwipeSurface -----------------------------
(***************************************************************************)
(* The card that a player swipes, components/swipe-screen.tsx, shared by   *)
(* the duel and by practice, and what routes/game/practice.tsx shows       *)
(* around it.                                                              *)
(*                                                                         *)
(* s is the state of the surface: the card it shows, the drag (its x, and  *)
(* whether the pointer is down), the side to which the card flies off, and *)
(* whether a swipe is being sent.  odds is the probability of YES, in      *)
(* PROBABILITY-ths, none where it is not known.  What may be null is a set *)
(* of at most one.                                                         *)
(***************************************************************************)
EXTENDS ResultMath
LOCAL INSTANCE FiniteSetsExt

CONSTANTS MIN_NET_PREMIUM,   \* of a swipe, in the unit of SWIPE_QUANTITY
          DRAG_COMMIT,       \* DRAG_COMMIT_FRACTION of the card's width
          LAST_MS, SOON_MS   \* 120_000 and 600_000: when the countdown turns red, amber

-----------------------------------------------------------------------------
(* What is shown.  A tick's null spot or expiry reaches BigInt, which       *)
(* throws while the screen is drawn: see SurfaceView.                       *)
Odds(card, tick, nowMs, open) ==
  UNION {UpProbability({card.strike}, t.spot, IF Max(t.expiry) > nowMs THEN open ELSE {}) :
           t \in {u \in tick : u.expiry # {}}}

SurfaceView(cards, cardIdx, tick, settleLabel) ==
  CASE cardIdx \notin DOMAIN cards -> "exhausted"
    [] cardIdx \in DOMAIN cards /\ (\E t \in tick : t.expiry = {}) -> "throws"
    [] cardIdx \in DOMAIN cards /\ settleLabel = {} /\ (tick = {} \/ \E t \in tick : t.expiry = {0}) -> "loading"
    [] cardIdx \in DOMAIN cards /\ (\E t \in tick : t.spot = {}) -> "throws"
    [] OTHER -> "card"

YesPct(odds) == {Rounded(100 * p, PROBABILITY) : p \in odds}
NoPct(odds) == {100 - pct : pct \in YesPct(odds)}

Placeable(up, odds) ==
  \A p \in odds :
    (IF up THEN p ELSE PROBABILITY - p) * SWIPE_QUANTITY >= MIN_NET_PREMIUM * PROBABILITY

CountdownColor(remainingMs) ==
  CASE remainingMs = {} -> "white"
    [] \E ms \in remainingMs : ms <= LAST_MS -> "rose"
    [] \E ms \in remainingMs : ms > LAST_MS /\ ms <= SOON_MS -> "amber"
    [] OTHER -> "cyan"

\* Hours and minutes from an hour on, or else minutes and seconds.
FmtCountdown(ms) ==
  LET s == ms \div 1000
  IN  CASE ms <= 0 -> <<"now">>
        [] s >= 3600 -> <<"h", s \div 3600, (s % 3600) \div 60>>
        [] OTHER -> <<"m", s \div 60, s % 60>>

-----------------------------------------------------------------------------
(* The drag.                                                                *)
FreshSurface == [cardIdx |-> 1, x |-> 0, active |-> FALSE, flying |-> {}, busy |-> FALSE, error |-> FALSE]
SnapBack(s) == [s EXCEPT !.x = 0, !.active = FALSE, !.flying = {}]
ToNextCard(s) == [SnapBack(s) EXCEPT !.cardIdx = @ + 1]

OnPointerDown(s, disabled) ==
  IF s.busy \/ s.flying # {} \/ disabled THEN s ELSE [s EXCEPT !.x = 0, !.active = TRUE]
OnPointerMove(s, x) == IF s.active THEN [s EXCEPT !.x = x] ELSE s

\* doSwipe up to the call of onSwipe; a disabled screen returns at once.
DoSwipe(s, up, odds, disabled) ==
  CASE disabled -> s
    [] ~disabled /\ ~Placeable(up, odds) -> [SnapBack(s) EXCEPT !.error = TRUE]
    [] OTHER -> [s EXCEPT !.busy = TRUE, !.error = FALSE]

\* A release, and a cancelled pointer alike.
OnPointerUp(s, odds, disabled) ==
  LET committed == s.x > DRAG_COMMIT \/ s.x < -DRAG_COMMIT
      up == s.x > 0
      flown == [s EXCEPT !.active = FALSE, !.flying = {up}]
  IN  CASE ~s.active -> s
        [] s.active /\ committed /\ Placeable(up, odds) -> DoSwipe(flown, up, odds, disabled)
        [] s.active /\ committed /\ ~Placeable(up, odds) -> [SnapBack(s) EXCEPT !.error = TRUE]
        [] OTHER -> SnapBack(s)

\* onSwipe ends: the caller has moved to the next card, or it threw.
SwipeLands(s) == [ToNextCard(s) EXCEPT !.busy = FALSE]
SwipeThrows(s) == [SnapBack(s) EXCEPT !.busy = FALSE, !.error = TRUE]

-----------------------------------------------------------------------------
(* CardLedger: a row of a card, from the outcome of the card, the player's  *)
(* swipe and the spot.                                                      *)
LedgerRow(outcomePnl, settled, swipe, strike, spot) ==
  LET projected == LiveCardPnl(swipe, {strike}, spot)
  IN  CASE settled -> [net |-> outcomePnl, label |-> IF outcomePnl = {} THEN "skipped" ELSE "settled"]
        [] ~settled /\ swipe # {} ->
             [net |-> projected, label |-> IF projected = {} THEN "ticking" ELSE "projected"]
        [] OTHER -> [net |-> {}, label |-> "none"]

ChartOpponent(roomState, me, opponent) ==
  IF opponent # {} THEN Max(opponent)
  ELSE IF roomState.creator = me THEN roomState.challenger ELSE roomState.creator

-----------------------------------------------------------------------------
(* practice.tsx: what is on the screen in each phase of PracticeSession.    *)
PracticeView(phase, hasRoom, hasResult) ==
  CASE phase = "INTRO" -> "intro"
    [] phase = "STARTING" -> "dealing"
    [] phase = "SWIPING" /\ hasRoom -> "card"
    [] phase = "LOCKUP" /\ hasRoom -> "lockup"
    [] phase = "RESULT" /\ hasRoom /\ hasResult -> "result"
    [] phase = "ERROR" -> "retry"
    [] OTHER -> "blank"

\* Seconds: a half is rounded up.
SettleLabelFor(cards, cardIdx) ==
  Rounded(IF cardIdx \in DOMAIN cards THEN cards[cardIdx].expiryOffsetMs ELSE 0, 1000)

MatchBar(phase, botRevealed) ==
  IF phase \in {"INTRO", "ERROR"} THEN {}
  ELSE {<<Cardinality({i \in DOMAIN botRevealed : botRevealed[i]}), Len(botRevealed)>>}

\* The bar as <<left, of>>.
LockupBar(lockup, nowMs) == <<Max({0, lockup.endMs - nowMs}), lockup.endMs - lockup.startMs>>

\* A tile of the strip; upWon is known once the card has settled.
FlipTile(card, upWon, mine, lockupStartMs, nowMs) ==
  LET due == lockupStartMs + card.expiryOffsetMs - nowMs
  IN  IF upWon = {} THEN <<"counting", Max({0, (due + 999) \div 1000})>>
      ELSE IF mine = upWon THEN <<"hit">> ELSE <<"miss">>

StrikeLines(cards, settled) == {i \in DOMAIN cards : i \notin settled}

ResultTitle(result) == IF result.tied THEN "Tie" ELSE IF result.youWon THEN "Victory" ELSE "Defeat"
=============================================================================
