----------------------------- MODULE ActiveDuel -----------------------------
(***************************************************************************)
(* A player's live duel in the web client: the play route                  *)
(* (apps/web/src/routes/game/play.tsx) and the ActiveDuel that it mounts   *)
(* in resume mode (active-duel.tsx), in any number of tabs.                *)
(*                                                                         *)
(* The duel has started; what the tabs see of it is the indexer's mirror   *)
(* of the chain, read for a snapshot or a broadcast at one time and        *)
(* delivered at another.  A swipe is a call to the relay, which records it *)
(* on chain or does not, and whose answer may be lost.  Prices, deadlines  *)
(* and directions are left out: a card may be swiped by hand and, once per *)
(* mount, by the deadline's fallback.                                      *)
(***************************************************************************)
EXTENDS Naturals, FiniteSets

CONSTANTS
  Tabs,
  DeckSize,
  MaxMounts   \* bound: times a tab mounts the screen

ASSUME ActiveDuelAssumption == DeckSize \in Nat \ {0} /\ MaxMounts \in Nat

DuelCards == 0 .. DeckSize - 1
DuelState == [revealed : BOOLEAN, mine : SUBSET DuelCards, complete : BOOLEAN]

Phases == [kind : {"AWAIT_REVEAL", "AWAIT_SETTLEMENT", "COMPLETE", "RESULT", "LOADING"},
           card : {0}] \cup [kind : {"SWIPING"}, card : 0 .. DeckSize]
At(kind) == [kind |-> kind, card |-> 0]

VARIABLES
  duel,      \* on chain: revealed, the cards the player swiped, complete
  row,       \* the indexer's mirror of it
  online,    \* tabs whose socket is open
  mount,     \* how often each tab has mounted ActiveDuel
  view,      \* phase of each tab
  viewRef,   \* phaseRef.current, synced when the tab renders
  shown,     \* roomState of each tab: a set with the row, or empty
  busy,      \* tabs whose SwipeScreen waits for a swipe by hand
  auto,      \* autoSwipeRef: the last card of each tab swiped by the fallback
  replies,   \* rows read for a tab and not yet delivered
  swipeCalls \* relay calls that have not been answered

clientVars == <<duel, row, online, mount, view, viewRef, shown, busy, auto, replies, swipeCalls>>
screenVars == <<view, viewRef, shown, busy, auto>>

NoCard == DeckSize

ClientTypeOK ==
  /\ duel \in DuelState /\ row \in DuelState
  /\ online \subseteq Tabs /\ busy \subseteq Tabs
  /\ mount \in [Tabs -> 0 .. MaxMounts]
  /\ view \in [Tabs -> Phases] /\ viewRef \in [Tabs -> Phases]
  /\ shown \in [Tabs -> SUBSET DuelState]
  /\ \A t \in Tabs : Cardinality(shown[t]) <= 1
  /\ auto \in [Tabs -> DuelCards \cup {NoCard}]
  /\ replies \in [Tabs -> SUBSET DuelState]
  /\ swipeCalls \subseteq [tab : Tabs, mount : 1 .. MaxMounts, card : DuelCards,
                           by : {"hand", "fallback"}, result : {"pending", "ok", "failed"}]

ClientInit ==
  /\ duel = [revealed |-> FALSE, mine |-> {}, complete |-> FALSE]
  /\ row = duel
  /\ online = Tabs
  /\ mount = [t \in Tabs |-> 0]
  /\ view = [t \in Tabs |-> At("LOADING")] /\ viewRef = view
  /\ shown = [t \in Tabs |-> {}]
  /\ busy = {}
  /\ auto = [t \in Tabs |-> NoCard]
  /\ replies = [t \in Tabs |-> {}]
  /\ swipeCalls = {}

Mounted(t) == t \in online /\ view[t].kind \notin {"LOADING", "RESULT"}

(* The chain, and the indexer that follows it and pushes what it upserted   *)
(* to the room (refreshRoom).                                               *)
RevealOnChain ==
  /\ ~duel.revealed
  /\ duel' = [duel EXCEPT !.revealed = TRUE]
  /\ UNCHANGED <<row, online, mount, screenVars, replies, swipeCalls>>

CompleteOnChain ==
  /\ duel.revealed /\ ~duel.complete
  /\ duel' = [duel EXCEPT !.complete = TRUE]
  /\ UNCHANGED <<row, online, mount, screenVars, replies, swipeCalls>>

RefreshRow ==
  /\ row # duel
  /\ row' = duel
  /\ replies' = [t \in Tabs |-> replies[t] \cup (IF Mounted(t) THEN {duel} ELSE {})]
  /\ UNCHANGED <<duel, online, mount, screenVars, swipeCalls>>

(* ActiveDuel mounts on an open socket: AWAIT_REVEAL, and a subscription    *)
(* that is answered with a snapshot of the row.                             *)
Mount(t) ==
  /\ mount[t] < MaxMounts
  /\ mount' = [mount EXCEPT ![t] = @ + 1]
  /\ view' = [view EXCEPT ![t] = At("AWAIT_REVEAL")]
  /\ viewRef' = [viewRef EXCEPT ![t] = At("AWAIT_REVEAL")]
  /\ shown' = [shown EXCEPT ![t] = {}]
  /\ busy' = busy \ {t}
  /\ auto' = [auto EXCEPT ![t] = NoCard]
  /\ replies' = [replies EXCEPT ![t] = {row}]

(* The play route: a finished duel goes to the result screen.               *)
LoadDuel(t) ==
  /\ t \in online
  /\ view[t].kind = "LOADING"
  /\ \/ /\ duel.complete
        /\ view' = [view EXCEPT ![t] = At("RESULT")]
        /\ UNCHANGED <<mount, viewRef, shown, busy, auto, replies>>
     \/ ~duel.complete /\ Mount(t)
  /\ UNCHANGED <<duel, row, online, swipeCalls>>

(* room_state.                                                              *)
NextCard(r) ==
  CHOOSE n \in 0 .. DeckSize : /\ \A i \in r.mine : i < n
                               /\ n = 0 \/ n - 1 \in r.mine

ReceiveRoomState(t, r) ==
  /\ Mounted(t)
  /\ r \in replies[t]
  /\ replies' = [replies EXCEPT ![t] = @ \ {r}]
  /\ shown' = [shown EXCEPT ![t] = {r}]
  /\ view' = [view EXCEPT ![t] =
                CASE r.complete /\ viewRef[t].kind # "COMPLETE" -> At("COMPLETE")
                  [] ~r.complete /\ viewRef[t].kind = "SWIPING" /\ r.mine = DuelCards ->
                       At("AWAIT_SETTLEMENT")
                  [] ~r.complete /\ viewRef[t].kind = "AWAIT_REVEAL" /\ r.revealed ->
                       [kind |-> "SWIPING", card |-> NextCard(r)]
                  [] OTHER -> @]
  /\ UNCHANGED <<duel, row, online, mount, viewRef, busy, auto, swipeCalls>>

Render(t) ==
  /\ viewRef[t] # view[t]
  /\ viewRef' = [viewRef EXCEPT ![t] = view[t]]
  /\ UNCHANGED <<duel, row, online, mount, view, shown, busy, auto, replies, swipeCalls>>

(* pvpSwipe, on the card on the screen: by hand, one at a time, or by the   *)
(* fallback, which waits for nothing.                                       *)
Swipeable(t) ==
  /\ Mounted(t)
  /\ viewRef[t].kind = "SWIPING"
  /\ viewRef[t].card < DeckSize
  /\ \E r \in shown[t] : r.revealed

Call(t, by) ==
  swipeCalls' = swipeCalls \cup
    {[tab |-> t, mount |-> mount[t], card |-> viewRef[t].card, by |-> by, result |-> "pending"]}

SwipeByHand(t) ==
  /\ Swipeable(t)
  /\ t \notin busy
  /\ busy' = busy \cup {t}
  /\ Call(t, "hand")
  /\ UNCHANGED <<duel, row, online, mount, view, viewRef, shown, auto, replies>>

SwipeByFallback(t) ==
  /\ Swipeable(t)
  /\ auto[t] # viewRef[t].card
  /\ auto' = [auto EXCEPT ![t] = viewRef[t].card]
  /\ Call(t, "fallback")
  /\ UNCHANGED <<duel, row, online, mount, view, viewRef, shown, busy, replies>>

(* The relay records a swipe that is the card's first; whatever it did, its *)
(* answer may be a failure (a receipt that times out, a lost response).     *)
Answers(c, result) ==
  swipeCalls' = (swipeCalls \ {c}) \cup {[c EXCEPT !.result = result]}

RelaySwipe(c) ==
  /\ c \in swipeCalls /\ c.result = "pending"
  /\ \/ /\ duel.revealed /\ ~duel.complete /\ c.card \notin duel.mine
        /\ duel' = [duel EXCEPT !.mine = @ \cup {c.card}]
        /\ Answers(c, "ok") \/ Answers(c, "failed")
     \/ Answers(c, "failed") /\ UNCHANGED duel
  /\ UNCHANGED <<row, online, mount, screenVars, replies>>

(* The rest of pvpSwipe, on the screen that called it if it is still there. *)
Advances_Always(c) == TRUE
Advances(c) == c.result = "ok"

SwipeAnswered(c) ==
  /\ c \in swipeCalls /\ c.result # "pending"
  /\ swipeCalls' = swipeCalls \ {c}
  /\ \/ /\ Mounted(c.tab) /\ mount[c.tab] = c.mount
        /\ view' = [view EXCEPT ![c.tab] =
                      IF Advances(c) /\ @.kind = "SWIPING"
                      THEN [kind |-> "SWIPING", card |-> @.card + 1] ELSE @]
        /\ busy' = IF c.by = "hand" THEN busy \ {c.tab} ELSE busy
     \/ /\ ~Mounted(c.tab) \/ mount[c.tab] # c.mount
        /\ UNCHANGED <<view, busy>>
  /\ UNCHANGED <<duel, row, online, mount, viewRef, shown, auto, replies>>

(* The socket drops, which unmounts the screen, and comes back, which       *)
(* mounts it again without another look at the chain; or the page reloads.  *)
SocketDrops(t) ==
  /\ t \in online
  /\ online' = online \ {t}
  /\ replies' = [replies EXCEPT ![t] = {}]
  /\ UNCHANGED <<duel, row, mount, screenVars, swipeCalls>>

SocketReopens(t) ==
  /\ t \notin online
  /\ online' = online \cup {t}
  /\ \/ /\ view[t].kind \notin {"LOADING", "RESULT"}
        /\ Mount(t)
     \/ /\ view[t].kind \in {"LOADING", "RESULT"}
        /\ UNCHANGED <<mount, screenVars, replies>>
  /\ UNCHANGED <<duel, row, swipeCalls>>

Reload(t) ==
  /\ Mounted(t)
  /\ mount[t] < MaxMounts
  /\ view' = [view EXCEPT ![t] = At("LOADING")]
  /\ viewRef' = [viewRef EXCEPT ![t] = At("LOADING")]
  /\ replies' = [replies EXCEPT ![t] = {}]
  /\ UNCHANGED <<duel, row, online, mount, shown, busy, auto, swipeCalls>>

ClientNext ==
  \/ RevealOnChain \/ CompleteOnChain \/ RefreshRow
  \/ \E t \in Tabs :
       \/ LoadDuel(t)
       \/ \E r \in DuelState : ReceiveRoomState(t, r)
       \/ Render(t)
       \/ SwipeByHand(t) \/ SwipeByFallback(t)
       \/ SocketDrops(t) \/ SocketReopens(t) \/ Reload(t)
  \/ \E c \in swipeCalls : RelaySwipe(c) \/ SwipeAnswered(c)

ClientSpec == ClientInit /\ [][ClientNext]_clientVars

-----------------------------------------------------------------------------
(* Safety: a screen never runs ahead of the chain.  Every card it moved     *)
(* past, by hand, by the fallback or by resuming, has the player's swipe on *)
(* chain; it says the picks are locked in only when all are, and shows a    *)
(* result only of a duel that is complete: with stale and reordered rows,   *)
(* failed and late answers, reloads and a second tab.                       *)
NothingSkipped ==
  \A t \in Tabs :
    /\ view[t].kind = "SWIPING" => \A i \in 0 .. view[t].card - 1 : i \in duel.mine
    /\ view[t].kind = "AWAIT_SETTLEMENT" => duel.mine = DuelCards
    /\ view[t].kind = "COMPLETE" => duel.complete
=============================================================================
