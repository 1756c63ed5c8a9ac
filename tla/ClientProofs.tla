---------------------------- MODULE ClientProofs ----------------------------
(***************************************************************************)
(* Proofs about the web client: the live duel (ActiveDuel), the bot arena  *)
(* (BotArena), the avatars (AvatarStore), the lobby (PvpLobby) and the     *)
(* practice match (PracticeSession), each by its inductive invariant; and, *)
(* with ServerProofs, about the parts of Components together.              *)
(***************************************************************************)
EXTENDS Components, PracticeSession, ServerProofs, SumProofs

(* What the chain holds of the player is always the first cards of the     *)
(* deck; every copy of it that is on its way is an older one.              *)
FirstCards(cards) == \E n \in 0 .. DeckSize : cards = 0 .. n - 1

Behind(r, d) ==
  /\ r \in DuelState /\ FirstCards(r.mine)
  /\ r.mine \subseteq d.mine
  /\ r.complete => d.complete

RowsOK ==
  /\ FirstCards(duel.mine)
  /\ Behind(row, duel)
  /\ \A t \in Tabs : \A r \in replies[t] : Behind(r, duel)

(* A tab: v is its phase, ref what its handlers read of it, m its mount.   *)
Before(p) == 0 .. p.card - 1

ViewOK(v, ref, m, d) ==
  /\ v.kind = "SWIPING" => Before(v) \subseteq d.mine
  /\ ref.kind = "SWIPING" => Before(ref) \subseteq d.mine
  /\ v.kind = "SWIPING" /\ ref.kind = "SWIPING" => ref.card <= v.card
  /\ v.kind = "AWAIT_SETTLEMENT" => d.mine = DuelCards
  /\ v.kind = "COMPLETE" => d.complete
  /\ v.kind = "AWAIT_REVEAL" => ref.kind = "AWAIT_REVEAL"
  /\ v.kind \notin {"LOADING", "RESULT"} => m >= 1

ViewsOK == \A t \in Tabs : ViewOK(view[t], viewRef[t], mount[t], duel)

(* A call: it was made of a card that the cards before had been swiped for. *)
(* One that was recorded and has not been answered is of the card on the    *)
(* screen: the screen waits for it, and no other call of the card can be    *)
(* recorded.                                                                *)
CallOK(c, v, ref, m, d) ==
  /\ c.mount <= m
  /\ Before(c) \subseteq d.mine
  /\ c.result = "ok" => c.card \in d.mine
  /\ c.mount = m => ref.kind # "AWAIT_REVEAL"
  /\ c.mount = m /\ v.kind = "SWIPING" =>
       c.card <= v.card /\ (c.result = "ok" => c.card = v.card)

CallsOK ==
  \A c \in swipeCalls : CallOK(c, view[c.tab], viewRef[c.tab], mount[c.tab], duel)

RecordedOnce ==
  \A c, e \in swipeCalls : c.result = "ok" /\ e.result = "ok" /\ c.card = e.card => c = e

ClientInv == ClientTypeOK /\ RowsOK /\ ViewsOK /\ CallsOK /\ RecordedOnce

CallRecord ==
  [tab : Tabs, mount : 1 .. MaxMounts, card : DuelCards,
   by : {"hand", "fallback"}, result : {"pending", "ok", "failed"}]

LEMMA InitIsOK == ClientInit => ClientInv
<1> SUFFICES ASSUME ClientInit PROVE ClientInv
  OBVIOUS
<1>1. /\ duel \in DuelState /\ duel.mine = {} /\ row = duel /\ swipeCalls = {}
      /\ At("LOADING") \in Phases /\ At("LOADING").kind = "LOADING"
  BY DEF ClientInit, DuelState, Phases, At
<1>2. ClientTypeOK
  <2>1. \A t \in Tabs : shown[t] = {} /\ Cardinality(shown[t]) <= 1
    BY FS_EmptySet DEF ClientInit
  <2>2. NoCard \in DuelCards \cup {NoCard} /\ 0 \in 0 .. MaxMounts
    BY ActiveDuelAssumption
  <2> HIDE DEF DuelState, Phases, At, NoCard
  <2> QED BY <1>1, <2>1, <2>2 DEF ClientInit, ClientTypeOK
<1>3. RowsOK
  <2>1. FirstCards({})
    <3>1. {} = 0 .. 0 - 1 /\ 0 \in 0 .. DeckSize
      BY ActiveDuelAssumption
    <3> QED BY <3>1 DEF FirstCards
  <2> QED BY <1>1, <2>1 DEF ClientInit, RowsOK, Behind
<1>4. ViewsOK
  BY <1>1 DEF ClientInit, ViewsOK, ViewOK, At
<1> QED BY <1>1, <1>2, <1>3, <1>4 DEF ClientInv, CallsOK, RecordedOnce

-----------------------------------------------------------------------------
(* What a longer list of swipes on chain leaves true.                      *)
Grows(d, e) ==
  /\ e \in DuelState /\ FirstCards(e.mine)
  /\ d.mine \subseteq e.mine
  /\ d.complete => e.complete

LEMMA RowsStayBehind ==
  ASSUME RowsOK, NEW e, Grows(duel, e), NEW r, Behind(r, duel)
  PROVE  Behind(r, e)
BY DEF Grows, Behind

LEMMA ViewsStayOK ==
  ASSUME NEW d \in DuelState, NEW e, Grows(d, e), NEW v, NEW ref, NEW m, ViewOK(v, ref, m, d)
  PROVE  ViewOK(v, ref, m, e)
<1>1. d.mine \subseteq e.mine /\ e.mine \subseteq DuelCards /\ (d.complete => e.complete)
  BY DEF Grows, DuelState
<1> QED BY <1>1 DEF ViewOK

LEMMA CallsStayOK ==
  ASSUME NEW d, NEW e, Grows(d, e), NEW c, NEW v, NEW ref, NEW m, CallOK(c, v, ref, m, d)
  PROVE  CallOK(c, v, ref, m, e)
BY DEF Grows, CallOK

LEMMA ChainKeeps ==
  ASSUME ClientInv, RevealOnChain \/ CompleteOnChain
  PROVE  ClientInv'
<1>1. Grows(duel, duel') /\ UNCHANGED <<row, online, mount, screenVars, replies, swipeCalls>>
  BY DEF ClientInv, ClientTypeOK, RowsOK, Grows, DuelState, RevealOnChain, CompleteOnChain
<1>2. ClientTypeOK'
  BY <1>1 DEF ClientInv, ClientTypeOK, Grows, screenVars
<1>3. RowsOK'
  BY <1>1, RowsStayBehind DEF ClientInv, RowsOK, Grows
<1>4. ViewsOK'
  BY <1>1, ViewsStayOK DEF ClientInv, ClientTypeOK, ViewsOK, screenVars
<1>5. CallsOK'
  BY <1>1, CallsStayOK DEF ClientInv, CallsOK, screenVars
<1> QED BY <1>1, <1>2, <1>3, <1>4, <1>5 DEF ClientInv, RecordedOnce

LEMMA RefreshKeeps == ASSUME ClientInv, RefreshRow PROVE ClientInv'
<1>1. /\ UNCHANGED <<duel, online, mount, screenVars, swipeCalls>> /\ row' = duel
      /\ replies' = [t \in Tabs |-> replies[t] \cup (IF Mounted(t) THEN {duel} ELSE {})]
  BY DEF RefreshRow
<1>2. Behind(duel, duel)
  BY DEF ClientInv, ClientTypeOK, RowsOK, Behind
<1>3. ClientTypeOK'
  BY <1>1 DEF ClientInv, ClientTypeOK, screenVars
<1>4. RowsOK'
  BY <1>1, <1>2 DEF ClientInv, RowsOK
<1> QED BY <1>1, <1>3, <1>4 DEF ClientInv, ViewsOK, CallsOK, RecordedOnce, screenVars

-----------------------------------------------------------------------------
(* The screen.                                                             *)

LEMMA MountKeeps ==
  ASSUME ClientInv, NEW t \in Tabs, Mount(t), online' \subseteq Tabs,
         UNCHANGED <<duel, row, swipeCalls>>
  PROVE  ClientInv'
<1>1. /\ At("AWAIT_REVEAL") \in Phases /\ At("AWAIT_REVEAL").kind = "AWAIT_REVEAL"
      /\ Cardinality({}) <= 1 /\ NoCard \in DuelCards \cup {NoCard}
      /\ mount[t] \in 0 .. MaxMounts /\ mount[t] + 1 \in 0 .. MaxMounts /\ mount[t] + 1 >= 1
  BY FS_EmptySet, ActiveDuelAssumption DEF ClientInv, ClientTypeOK, Phases, At, Mount
<1> HIDE DEF At, Phases, NoCard, DuelState
<1>2. ClientTypeOK'
  BY <1>1 DEF ClientInv, ClientTypeOK, Mount
<1>3. RowsOK'
  BY DEF ClientInv, ClientTypeOK, RowsOK, Mount
<1>4. ViewsOK'
  BY <1>1 DEF ClientInv, ClientTypeOK, ViewsOK, ViewOK, Mount
<1>5. CallsOK'
  <2> SUFFICES ASSUME NEW c \in swipeCalls
               PROVE  CallOK(c, view'[c.tab], viewRef'[c.tab], mount'[c.tab], duel)
    BY DEF CallsOK
  <2>1. CallOK(c, view[c.tab], viewRef[c.tab], mount[c.tab], duel) /\ c.tab \in Tabs
        /\ c.mount \in Nat /\ mount[c.tab] \in Nat
    BY ActiveDuelAssumption DEF ClientInv, ClientTypeOK, CallsOK
  <2>2. CASE c.tab # t
    BY <2>1, <2>2 DEF Mount, ClientInv, ClientTypeOK
  <2>3. CASE c.tab = t
    <3>1. mount'[c.tab] = mount[c.tab] + 1
      BY <2>3 DEF Mount, ClientInv, ClientTypeOK
    <3> QED BY <2>1, <3>1 DEF CallOK
  <2> QED BY <2>2, <2>3
<1> QED BY <1>2, <1>3, <1>4, <1>5 DEF ClientInv, RecordedOnce

LEMMA LoadKeeps == ASSUME ClientInv, NEW t \in Tabs, LoadDuel(t) PROVE ClientInv'
<1>1. CASE Mount(t)
  BY <1>1, MountKeeps DEF LoadDuel, ClientInv, ClientTypeOK
<1>2. CASE /\ view' = [view EXCEPT ![t] = At("RESULT")]
           /\ UNCHANGED <<mount, viewRef, shown, busy, auto, replies>>
  <2>1. At("RESULT") \in Phases /\ At("RESULT").kind = "RESULT"
    BY DEF At, Phases
  <2>2. UNCHANGED <<duel, row, online, swipeCalls>>
    BY DEF LoadDuel
  <2>3. \A u \in Tabs : view'[u] = IF u = t THEN At("RESULT") ELSE view[u]
    BY <1>2 DEF ClientInv, ClientTypeOK
  <2> HIDE DEF At, Phases
  <2>4. ClientTypeOK'
    BY <1>2, <2>1, <2>2 DEF ClientInv, ClientTypeOK
  <2>5. ViewsOK'
    BY <1>2, <2>1, <2>2, <2>3 DEF ClientInv, ViewsOK, ViewOK
  <2>6. CallsOK'
    BY <1>2, <2>1, <2>2, <2>3 DEF ClientInv, ClientTypeOK, CallsOK, CallOK
  <2> QED BY <1>2, <2>2, <2>4, <2>5, <2>6 DEF ClientInv, RowsOK, RecordedOnce
<1> QED BY <1>1, <1>2 DEF LoadDuel

\* The card a row says is next comes after swiped cards only.
LEMMA NextCardFollows ==
  ASSUME NEW r, Behind(r, duel)
  PROVE  NextCard(r) \in 0 .. DeckSize /\ 0 .. NextCard(r) - 1 \subseteq duel.mine
<1>1. PICK n \in 0 .. DeckSize : r.mine = 0 .. n - 1
  BY DEF Behind, FirstCards
<1> DEFINE Follows(k) == (\A i \in r.mine : i < k) /\ (k = 0 \/ k - 1 \in r.mine)
<1>2. Follows(n)
  BY <1>1
<1>3. NextCard(r) \in 0 .. DeckSize /\ Follows(NextCard(r))
  <2>1. NextCard(r) = CHOOSE k \in 0 .. DeckSize : Follows(k)
    BY DEF NextCard
  <2> HIDE DEF Follows
  <2> QED BY <1>2, <2>1
<1>4. 0 .. NextCard(r) - 1 \subseteq r.mine
  <2> HIDE DEF NextCard
  <2> QED BY <1>1, <1>3
<1> QED BY <1>3, <1>4 DEF Behind

LEMMA RoomStateKeeps ==
  ASSUME ClientInv, NEW t \in Tabs, NEW r \in DuelState, ReceiveRoomState(t, r)
  PROVE  ClientInv'
<1>1. /\ r \in replies[t] /\ Behind(r, duel) /\ Mounted(t)
      /\ UNCHANGED <<duel, row, online, mount, viewRef, busy, auto, swipeCalls>>
      /\ replies' = [replies EXCEPT ![t] = @ \ {r}]
      /\ shown' = [shown EXCEPT ![t] = {r}]
  BY DEF ReceiveRoomState, ClientInv, RowsOK
<1> DEFINE v == view'[t]
           swiping == [kind |-> "SWIPING", card |-> NextCard(r)]
<1>2. \/ v = view[t]
      \/ r.complete /\ v = At("COMPLETE")
      \/ r.mine = DuelCards /\ v = At("AWAIT_SETTLEMENT")
      \/ viewRef[t].kind = "AWAIT_REVEAL" /\ v = swiping
  BY DEF ReceiveRoomState, ClientInv, ClientTypeOK
<1>3. \A u \in Tabs \ {t} : view'[u] = view[u]
  BY DEF ReceiveRoomState, ClientInv, ClientTypeOK
<1>4. view' = [u \in Tabs |-> view'[u]]
  BY DEF ReceiveRoomState, ClientInv, ClientTypeOK
<1>5. swiping \in Phases /\ Before(swiping) \subseteq duel.mine
  BY <1>1, NextCardFollows DEF Phases, Before
<1>6. At("COMPLETE") \in Phases /\ At("AWAIT_SETTLEMENT") \in Phases
      /\ At("COMPLETE").kind = "COMPLETE" /\ At("AWAIT_SETTLEMENT").kind = "AWAIT_SETTLEMENT"
      /\ swiping.kind = "SWIPING"
  BY DEF At, Phases
<1>7. ViewOK(view[t], viewRef[t], mount[t], duel) /\ mount[t] >= 1
      /\ duel \in DuelState /\ r.mine \subseteq duel.mine /\ (r.complete => duel.complete)
  BY <1>1 DEF ClientInv, ClientTypeOK, ViewsOK, ViewOK, Mounted, Behind
<1> HIDE DEF v, swiping, At, Phases, DuelState
<1>8. v \in Phases
  BY <1>2, <1>5, <1>6 DEF ClientInv, ClientTypeOK
<1>9. ViewOK(v, viewRef[t], mount[t], duel)
  <2>1. CASE r.mine = DuelCards /\ v = At("AWAIT_SETTLEMENT")
    <3>1. duel.mine = DuelCards
      BY <1>7, <2>1 DEF DuelState
    <3> QED BY <1>6, <1>7, <2>1, <3>1 DEF ViewOK
  <2>2. CASE r.complete /\ v = At("COMPLETE")
    BY <1>6, <1>7, <2>2 DEF ViewOK
  <2>3. CASE viewRef[t].kind = "AWAIT_REVEAL" /\ v = swiping
    BY <1>5, <1>6, <1>7, <2>3 DEF ViewOK
  <2> QED BY <1>2, <1>7, <2>1, <2>2, <2>3
<1>10. ClientTypeOK'
  <2>1. view' \in [Tabs -> Phases]
    BY <1>3, <1>4, <1>8 DEF ClientInv, ClientTypeOK, v
  <2>2. /\ shown' \in [Tabs -> SUBSET DuelState]
        /\ \A u \in Tabs : Cardinality(shown'[u]) <= 1
    <3>1. shown \in [Tabs -> SUBSET DuelState] /\ {r} \in SUBSET DuelState
      BY DEF ClientInv, ClientTypeOK
    <3>2. \A u \in Tabs : shown'[u] = IF u = t THEN {r} ELSE shown[u]
      BY <1>1, <3>1
    <3>3. Cardinality({r}) = 1
      BY FS_Singleton
    <3>4. \A u \in Tabs : Cardinality(shown[u]) <= 1
      BY DEF ClientInv, ClientTypeOK
    <3>5. shown' \in [Tabs -> SUBSET DuelState]
      BY <1>1, <3>1
    <3> QED BY <3>2, <3>3, <3>4, <3>5
  <2>3. replies' \in [Tabs -> SUBSET DuelState]
    BY <1>1 DEF ClientInv, ClientTypeOK
  <2> QED BY <1>1, <2>1, <2>2, <2>3 DEF ClientInv, ClientTypeOK
<1>11. RowsOK'
  BY <1>1 DEF ClientInv, ClientTypeOK, RowsOK
<1>12. ViewsOK'
  BY <1>1, <1>3, <1>9 DEF ClientInv, ViewsOK, v
<1>13. CallsOK'
  <2> SUFFICES ASSUME NEW c \in swipeCalls
               PROVE  CallOK(c, view'[c.tab], viewRef[c.tab], mount[c.tab], duel)
    BY <1>1 DEF CallsOK
  <2>1. CallOK(c, view[c.tab], viewRef[c.tab], mount[c.tab], duel) /\ c.tab \in Tabs
    BY DEF ClientInv, ClientTypeOK, CallsOK
  <2>2. CASE c.tab # t \/ v = view[t]
    BY <1>3, <2>1, <2>2 DEF v
  <2>3. CASE c.tab = t /\ v # view[t]
    <3>1. v.kind = "SWIPING" => viewRef[t].kind = "AWAIT_REVEAL"
      BY <1>2, <1>6, <2>3
    <3> QED BY <2>1, <2>3, <3>1 DEF CallOK, v
  <2> QED BY <2>2, <2>3
<1> QED BY <1>1, <1>10, <1>11, <1>12, <1>13 DEF ClientInv, RecordedOnce

LEMMA RenderKeeps == ASSUME ClientInv, NEW t \in Tabs, Render(t) PROVE ClientInv'
<1>1. /\ UNCHANGED <<duel, row, online, mount, view, shown, busy, auto, replies, swipeCalls>>
      /\ viewRef' \in [Tabs -> Phases]
      /\ \A u \in Tabs : viewRef'[u] = IF u = t THEN view[t] ELSE viewRef[u]
  BY DEF Render, ClientInv, ClientTypeOK
<1>2. ClientTypeOK'
  BY <1>1 DEF ClientInv, ClientTypeOK
<1>3. view[t].card \in Int
  BY ActiveDuelAssumption DEF ClientInv, ClientTypeOK, Phases
<1>4. ViewsOK'
  BY <1>1, <1>3 DEF ClientInv, ViewsOK, ViewOK
<1>5. CallsOK'
  <2> SUFFICES ASSUME NEW c \in swipeCalls
               PROVE  CallOK(c, view[c.tab], viewRef'[c.tab], mount[c.tab], duel)
    BY <1>1 DEF CallsOK
  <2>1. CallOK(c, view[c.tab], viewRef[c.tab], mount[c.tab], duel) /\ c.tab \in Tabs
    BY DEF ClientInv, ClientTypeOK, CallsOK
  <2>2. view[t].kind = "AWAIT_REVEAL" => viewRef[t].kind = "AWAIT_REVEAL"
    BY DEF ClientInv, ViewsOK, ViewOK
  <2> QED BY <1>1, <2>1, <2>2 DEF CallOK
<1> QED BY <1>1, <1>2, <1>4, <1>5 DEF ClientInv, RowsOK, RecordedOnce

-----------------------------------------------------------------------------
(* Swipes and their calls.                                                 *)

LEMMA CallKeeps ==
  ASSUME ClientInv, NEW t \in Tabs, NEW by \in {"hand", "fallback"}, Swipeable(t), Call(t, by),
         busy' \subseteq Tabs, auto' \in [Tabs -> DuelCards \cup {NoCard}],
         UNCHANGED <<duel, row, online, mount, view, viewRef, shown, replies>>
  PROVE  ClientInv'
<1> DEFINE c == [tab |-> t, mount |-> mount[t], card |-> viewRef[t].card, by |-> by,
                 result |-> "pending"]
<1>1. /\ viewRef[t].kind = "SWIPING" /\ viewRef[t].card < DeckSize
      /\ viewRef[t] \in Phases /\ mount[t] >= 1 /\ mount[t] \in 0 .. MaxMounts
      /\ ViewOK(view[t], viewRef[t], mount[t], duel)
  BY DEF Swipeable, Mounted, ClientInv, ClientTypeOK, ViewsOK, ViewOK
<1>2. viewRef[t].card \in DuelCards
  BY <1>1, ActiveDuelAssumption DEF Phases, DuelCards
<1>3. c \in CallRecord
  BY <1>1, <1>2, ActiveDuelAssumption DEF CallRecord
<1>4. swipeCalls' = swipeCalls \cup {c}
  BY DEF Call
<1>5. CallOK(c, view[t], viewRef[t], mount[t], duel)
  BY <1>1, ActiveDuelAssumption DEF CallOK, ViewOK, Before
<1>6. c.tab = t /\ c.result = "pending"
  OBVIOUS
<1> HIDE DEF c
<1>7. ClientTypeOK'
  BY <1>3, <1>4 DEF ClientInv, ClientTypeOK, CallRecord
<1>8. CallsOK'
  BY <1>4, <1>5, <1>6 DEF ClientInv, CallsOK
<1>9. RecordedOnce'
  BY <1>4, <1>6 DEF ClientInv, RecordedOnce
<1> QED BY <1>7, <1>8, <1>9 DEF ClientInv, RowsOK, ViewsOK

LEMMA SwipeKeeps ==
  ASSUME ClientInv, NEW t \in Tabs, SwipeByHand(t) \/ SwipeByFallback(t)
  PROVE  ClientInv'
<1>1. CASE SwipeByHand(t)
  BY <1>1, CallKeeps DEF SwipeByHand, ClientInv, ClientTypeOK
<1>2. CASE SwipeByFallback(t)
  <2>1. viewRef[t].card \in DuelCards
    BY <1>2, ActiveDuelAssumption
       DEF SwipeByFallback, Swipeable, ClientInv, ClientTypeOK, Phases, DuelCards
  <2>2. auto' \in [Tabs -> DuelCards \cup {NoCard}] /\ busy' \subseteq Tabs
    BY <1>2, <2>1 DEF SwipeByFallback, ClientInv, ClientTypeOK
  <2> QED BY <1>2, <2>2, CallKeeps DEF SwipeByFallback
<1> QED BY <1>1, <1>2

\* The swipe that the relay records is the next of the deck.
LEMMA RecordedIsNext ==
  ASSUME ClientInv, NEW c \in swipeCalls, c.card \notin duel.mine,
         duel' = [duel EXCEPT !.mine = @ \cup {c.card}]
  PROVE  Grows(duel, duel') /\ duel'.mine = duel.mine \cup {c.card}
<1>1. duel \in DuelState /\ c.card \in DuelCards /\ Before(c) \subseteq duel.mine
  BY DEF ClientInv, ClientTypeOK, CallsOK, CallOK
<1>2. duel' \in DuelState /\ duel'.mine = duel.mine \cup {c.card} /\ duel'.complete = duel.complete
  BY <1>1 DEF DuelState
<1>3. PICK n \in 0 .. DeckSize : duel.mine = 0 .. n - 1
  BY DEF ClientInv, RowsOK, FirstCards
<1>4. c.card = n /\ n + 1 \in 0 .. DeckSize
  BY <1>1, <1>3, ActiveDuelAssumption DEF DuelCards, Before
<1>5. duel'.mine = 0 .. (n + 1) - 1
  BY <1>2, <1>3, <1>4
<1> QED BY <1>2, <1>4, <1>5 DEF Grows, FirstCards

LEMMA RelayKeeps == ASSUME ClientInv, NEW c \in swipeCalls, RelaySwipe(c) PROVE ClientInv'
<1>1. PICK result \in {"ok", "failed"} :
        /\ swipeCalls' = (swipeCalls \ {c}) \cup {[c EXCEPT !.result = result]}
        /\ \/ /\ c.card \notin duel.mine
              /\ duel' = [duel EXCEPT !.mine = @ \cup {c.card}]
           \/ result = "failed" /\ UNCHANGED duel
  BY DEF RelaySwipe, Answers
<1>2. UNCHANGED <<row, online, mount, screenVars, replies>> /\ c.result = "pending"
  BY DEF RelaySwipe
<1> DEFINE a == [c EXCEPT !.result = result]
<1>3. c \in CallRecord /\ CallOK(c, view[c.tab], viewRef[c.tab], mount[c.tab], duel)
  BY DEF ClientInv, ClientTypeOK, CallsOK, CallRecord
<1>4. /\ a \in CallRecord /\ a.tab = c.tab /\ a.mount = c.mount /\ a.card = c.card
      /\ a.result = result
  BY <1>3 DEF CallRecord
<1>5. Grows(duel, duel') /\ (result = "ok" => c.card \notin duel.mine /\ c.card \in duel'.mine)
  <2>1. CASE UNCHANGED duel /\ result = "failed"
    BY <2>1 DEF Grows, ClientInv, ClientTypeOK, RowsOK
  <2>2. CASE c.card \notin duel.mine /\ duel' = [duel EXCEPT !.mine = @ \cup {c.card}]
    BY <2>2, RecordedIsNext
  <2> QED BY <1>1, <2>1, <2>2
<1> HIDE DEF a
<1>6. swipeCalls' = (swipeCalls \ {c}) \cup {a}
  BY <1>1 DEF a
<1>7. ClientTypeOK'
  BY <1>2, <1>4, <1>5, <1>6 DEF ClientInv, ClientTypeOK, CallRecord, Grows, screenVars
<1>8. RowsOK'
  BY <1>2, <1>5, RowsStayBehind DEF ClientInv, RowsOK, Grows
<1>9. ViewsOK'
  BY <1>2, <1>5, ViewsStayOK DEF ClientInv, ClientTypeOK, ViewsOK, screenVars
<1>10. CallOK(a, view[c.tab], viewRef[c.tab], mount[c.tab], duel')
  <2>1. CallOK(c, view[c.tab], viewRef[c.tab], mount[c.tab], duel')
    BY <1>3, <1>5, CallsStayOK
  <2>2. ASSUME result = "ok", c.mount = mount[c.tab], view[c.tab].kind = "SWIPING"
        PROVE  c.card = view[c.tab].card
    <3>1. c.card <= view[c.tab].card /\ c.card \in Nat /\ view[c.tab].card \in Nat
      BY <1>3, <2>2, ActiveDuelAssumption
         DEF CallOK, CallRecord, DuelCards, ClientInv, ClientTypeOK, Phases
    <3>2. Before(view[c.tab]) \subseteq duel.mine
      BY <1>3, <2>2 DEF CallRecord, ClientInv, ViewsOK, ViewOK
    <3> QED BY <1>5, <2>2, <3>1, <3>2 DEF Before
  <2> QED BY <1>4, <1>5, <2>1, <2>2 DEF CallOK, Before
<1>11. CallsOK'
  BY <1>2, <1>4, <1>5, <1>6, <1>10, CallsStayOK DEF ClientInv, CallsOK, screenVars
<1>12. RecordedOnce'
  <2>1. \A e \in swipeCalls : e.result = "ok" => e.card \in duel.mine
    BY DEF ClientInv, CallsOK, CallOK
  <2> QED BY <1>4, <1>5, <1>6, <2>1 DEF ClientInv, RecordedOnce
<1> QED BY <1>7, <1>8, <1>9, <1>11, <1>12 DEF ClientInv

LEMMA AnsweredKeeps == ASSUME ClientInv, NEW c \in swipeCalls, SwipeAnswered(c) PROVE ClientInv'
<1>1. /\ UNCHANGED <<duel, row, online, mount, viewRef, shown, auto, replies>>
      /\ swipeCalls' = swipeCalls \ {c} /\ busy' \subseteq Tabs
  BY DEF SwipeAnswered, ClientInv, ClientTypeOK
<1>2. c \in CallRecord /\ CallOK(c, view[c.tab], viewRef[c.tab], mount[c.tab], duel)
  BY DEF ClientInv, ClientTypeOK, CallsOK, CallRecord
<1>3. CASE view' = view
  BY <1>1, <1>3 DEF ClientInv, ClientTypeOK, RowsOK, ViewsOK, CallsOK, RecordedOnce
<1>4. CASE view' # view
  <2> DEFINE t == c.tab
             next == [kind |-> "SWIPING", card |-> view[t].card + 1]
  <2>1. /\ t \in Tabs /\ view' = [view EXCEPT ![t] = next]
        /\ mount[t] = c.mount /\ c.result = "ok" /\ view[t].kind = "SWIPING"
    <3>1. t \in Tabs /\ view \in [Tabs -> Phases]
      BY <1>2 DEF ClientInv, ClientTypeOK, CallRecord
    <3>2. /\ mount[t] = c.mount
          /\ view' = [view EXCEPT ![t] = IF Advances(c) /\ view[t].kind = "SWIPING"
                                         THEN next ELSE view[t]]
      BY <1>4 DEF SwipeAnswered
    <3>3. [view EXCEPT ![t] = view[t]] = view
      BY <3>1
    <3>4. Advances(c) /\ view[t].kind = "SWIPING"
      BY <1>4, <3>2, <3>3
    <3> QED BY <3>1, <3>2, <3>4 DEF Advances
  <2>2. c.card = view[t].card /\ c.card \in duel.mine /\ c.card \in DuelCards
    BY <1>2, <2>1 DEF CallOK, CallRecord
  <2>3. next.kind = "SWIPING" /\ next.card = c.card + 1 /\ next \in Phases
    BY <2>1, <2>2, ActiveDuelAssumption DEF ClientInv, ClientTypeOK, Phases, DuelCards
  <2>4. \A u \in Tabs : view'[u] = IF u = t THEN next ELSE view[u]
    BY <2>1 DEF ClientInv, ClientTypeOK
  <2> HIDE DEF next
  <2>5. Before(next) \subseteq duel.mine
    <3>1. Before(c) \subseteq duel.mine
      BY <1>2 DEF CallOK
    <3> QED BY <2>2, <2>3, <3>1, ActiveDuelAssumption DEF Before, DuelCards
  <2>6. ClientTypeOK'
    BY <1>1, <2>1, <2>3 DEF ClientInv, ClientTypeOK
  <2>7. ViewsOK'
    <3>1. ViewOK(view[t], viewRef[t], mount[t], duel) /\ c.card \in Nat
          /\ (viewRef[t].kind = "SWIPING" => viewRef[t].card \in Nat)
      BY <2>1, <2>2, ActiveDuelAssumption
         DEF ClientInv, ClientTypeOK, ViewsOK, DuelCards, Phases
    <3>2. ViewOK(next, viewRef[t], mount[t], duel)
      BY <2>1, <2>2, <2>3, <2>5, <3>1 DEF ViewOK
    <3> QED BY <1>1, <2>4, <3>2 DEF ClientInv, ViewsOK
  <2>8. CallsOK'
    <3> SUFFICES ASSUME NEW e \in swipeCalls \ {c}
                 PROVE  CallOK(e, view'[e.tab], viewRef[e.tab], mount[e.tab], duel)
      BY <1>1 DEF CallsOK
    <3>1. CallOK(e, view[e.tab], viewRef[e.tab], mount[e.tab], duel) /\ e \in CallRecord
      BY DEF ClientInv, ClientTypeOK, CallsOK, CallRecord
    <3>2. CASE e.tab # t
      BY <2>4, <3>1, <3>2 DEF CallRecord
    <3>3. CASE e.tab = t
      <4>1. e.mount = mount[t] => e.card <= c.card /\ e.result # "ok"
        BY <2>1, <2>2, <3>1, <3>3 DEF CallOK, ClientInv, RecordedOnce
      <4>2. view'[t] = next /\ e.card \in Nat /\ c.card \in Nat
        BY <2>1, <2>2, <2>4, <3>1, ActiveDuelAssumption DEF CallRecord, DuelCards
      <4> QED BY <2>3, <3>1, <3>3, <4>1, <4>2 DEF CallOK
    <3> QED BY <3>2, <3>3
  <2> QED BY <1>1, <2>6, <2>7, <2>8 DEF ClientInv, RowsOK, RecordedOnce
<1> QED BY <1>3, <1>4

-----------------------------------------------------------------------------
(* The socket and the page.                                                *)

LEMMA DropKeeps == ASSUME ClientInv, NEW t \in Tabs, SocketDrops(t) PROVE ClientInv'
<1>1. ClientTypeOK'
  BY DEF SocketDrops, ClientInv, ClientTypeOK, screenVars
<1> QED BY <1>1 DEF SocketDrops, ClientInv, ClientTypeOK, RowsOK, ViewsOK, CallsOK,
                    RecordedOnce, screenVars

LEMMA ReopenKeeps == ASSUME ClientInv, NEW t \in Tabs, SocketReopens(t) PROVE ClientInv'
<1>1. online' \subseteq Tabs /\ UNCHANGED <<duel, row, swipeCalls>>
  BY DEF SocketReopens, ClientInv, ClientTypeOK
<1>2. CASE Mount(t)
  BY <1>1, <1>2, MountKeeps
<1>3. CASE UNCHANGED <<mount, screenVars, replies>>
  BY <1>1, <1>3 DEF ClientInv, ClientTypeOK, RowsOK, ViewsOK, CallsOK, RecordedOnce, screenVars
<1> QED BY <1>2, <1>3 DEF SocketReopens

LEMMA ReloadKeeps == ASSUME ClientInv, NEW t \in Tabs, Reload(t) PROVE ClientInv'
<1>1. At("LOADING") \in Phases /\ At("LOADING").kind = "LOADING"
  BY DEF At, Phases
<1>2. /\ UNCHANGED <<duel, row, online, mount, shown, busy, auto, swipeCalls>>
      /\ \A u \in Tabs : view'[u] = IF u = t THEN At("LOADING") ELSE view[u]
      /\ \A u \in Tabs : viewRef'[u] = IF u = t THEN At("LOADING") ELSE viewRef[u]
  BY DEF Reload, ClientInv, ClientTypeOK
<1> HIDE DEF At, Phases
<1>3. ClientTypeOK'
  BY <1>1, <1>2 DEF Reload, ClientInv, ClientTypeOK
<1>4. RowsOK'
  BY DEF Reload, ClientInv, ClientTypeOK, RowsOK
<1>5. ViewsOK'
  BY <1>1, <1>2 DEF ClientInv, ViewsOK, ViewOK
<1>6. CallsOK'
  BY <1>1, <1>2 DEF ClientInv, ClientTypeOK, CallsOK, CallOK
<1> QED BY <1>2, <1>3, <1>4, <1>5, <1>6 DEF ClientInv, RecordedOnce

LEMMA ClientStep == ClientInv /\ [ClientNext]_clientVars => ClientInv'
<1> SUFFICES ASSUME ClientInv, [ClientNext]_clientVars PROVE ClientInv'
  OBVIOUS
<1>1. CASE RevealOnChain \/ CompleteOnChain
  BY <1>1, ChainKeeps
<1>2. CASE RefreshRow
  BY <1>2, RefreshKeeps
<1>3. ASSUME NEW t \in Tabs, LoadDuel(t) PROVE ClientInv'
  BY <1>3, LoadKeeps
<1>4. ASSUME NEW t \in Tabs, NEW r \in DuelState, ReceiveRoomState(t, r) PROVE ClientInv'
  BY <1>4, RoomStateKeeps
<1>5. ASSUME NEW t \in Tabs, Render(t) PROVE ClientInv'
  BY <1>5, RenderKeeps
<1>6. ASSUME NEW t \in Tabs, SwipeByHand(t) \/ SwipeByFallback(t) PROVE ClientInv'
  BY <1>6, SwipeKeeps
<1>7. ASSUME NEW t \in Tabs, SocketDrops(t) PROVE ClientInv'
  BY <1>7, DropKeeps
<1>8. ASSUME NEW t \in Tabs, SocketReopens(t) PROVE ClientInv'
  BY <1>8, ReopenKeeps
<1>9. ASSUME NEW t \in Tabs, Reload(t) PROVE ClientInv'
  BY <1>9, ReloadKeeps
<1>10. ASSUME NEW c \in swipeCalls, RelaySwipe(c) PROVE ClientInv'
  BY <1>10, RelayKeeps
<1>11. ASSUME NEW c \in swipeCalls, SwipeAnswered(c) PROVE ClientInv'
  BY <1>11, AnsweredKeeps
<1>12. CASE UNCHANGED clientVars
  BY <1>12 DEF clientVars, ClientInv, ClientTypeOK, RowsOK, ViewsOK, CallsOK, RecordedOnce
<1> QED BY <1>1, <1>2, <1>3, <1>4, <1>5, <1>6, <1>7, <1>8, <1>9, <1>10, <1>11, <1>12
        DEF ClientNext

(* For any deck, any number of tabs and any number of mounts: no screen is  *)
(* ever ahead of the chain (active-duel.tsx, its room_state handler,        *)
(* pvpSwipe and the fallback).                                              *)
THEOREM NoCardSkipped == ClientSpec => []NothingSkipped
<1>1. ClientInv => NothingSkipped
  BY DEF ClientInv, ViewsOK, ViewOK, NothingSkipped, Before
<1> QED BY <1>1, InitIsOK, ClientStep, PTL DEF ClientSpec

(* For any tabs and cards: a tab shows at most one row of the duel, and its *)
(* phase is one of active-duel.tsx, of a card of the deck.                  *)
THEOREM ClientTyped == ClientSpec => []ClientTypeOK
<1>1. ClientInv => ClientTypeOK
  BY DEF ClientInv
<1> QED BY <1>1, InitIsOK, ClientStep, PTL DEF ClientSpec

-----------------------------------------------------------------------------
(* The bot arena.  No deck is dealt while one is on its way, and a poll in  *)
(* flight that was not there when the deck was asked for is of this deck,   *)
(* swiped to its end.                                                       *)
PollsOK == \A d \in polls : d \in crossing \/ (d = dealt /\ AllSwiped)

ArenaInv ==
  /\ ArenaTypeOK
  /\ loading # {} => dealt = NoDeck
  /\ PollsOK
  /\ ArenaScoredHonestly

ArenaPlays == {Unplayed} \cup {{[you |-> side, result |-> r]} :
                                 side \in ArenaSides, r \in Results \cup {Unresolved}}

LEMMA DeckPlaces ==
  /\ \A d \in ArenaDecks : DOMAIN d = 1 .. ArenaDeckSize
                             /\ \A i \in DOMAIN d : d[i] \in ArenaMarkets
  /\ DOMAIN NoDeck = {} /\ Unplayed \in ArenaPlays
<1>1. DOMAIN NoDeck = {}
  BY DEF NoDeck
<1>2. \A d \in ArenaDecks : DOMAIN d = 1 .. ArenaDeckSize
                             /\ \A i \in DOMAIN d : d[i] \in ArenaMarkets
  BY DEF ArenaDecks
<1> QED BY <1>1, <1>2 DEF ArenaPlays

LEMMA PlaysTyped ==
  ASSUME ArenaInv
  PROVE  /\ plays \in [DOMAIN dealt -> ArenaPlays] /\ DOMAIN plays = DOMAIN dealt
         /\ \A i \in DOMAIN plays :
              \/ plays[i] = Unplayed
              \/ \E side \in ArenaSides, r \in Results \cup {Unresolved} :
                   plays[i] = {[you |-> side, result |-> r]}
BY DEF ArenaInv, ArenaTypeOK, ArenaPlays

LEMMA ArenaStarts == ArenaInit => ArenaInv
<1> SUFFICES ASSUME ArenaInit PROVE ArenaInv
  OBVIOUS
<1>1. ArenaTypeOK
  <2>1. 0 \in 0 .. MaxDeals /\ Unresolved \in Results \cup {Unresolved}
    BY ArenaAssumption
  <2>2. plays \in [DOMAIN dealt -> ArenaPlays]
    BY DeckPlaces DEF ArenaInit, NoDeck
  <2> QED BY <2>1, <2>2 DEF ArenaInit, ArenaTypeOK, ArenaPlays
<1> QED BY <1>1 DEF ArenaInit, ArenaInv, PollsOK, ArenaScoredHonestly

LEMMA VenueKeepsArena ==
  ASSUME ArenaInv, NEW m \in ArenaMarkets, VenueResolves(m)
  PROVE  ArenaInv'
<1>1. /\ UNCHANGED <<loading, dealt, plays, polls, crossing, deals>>
      /\ venue' \in [ArenaMarkets -> Results \cup {Unresolved}]
      /\ \A n \in ArenaMarkets : venue[n] # Unresolved => venue'[n] = venue[n]
  BY DEF ArenaInv, ArenaTypeOK, VenueResolves
<1>2. ArenaTypeOK'
  BY <1>1 DEF ArenaInv, ArenaTypeOK
<1>3. ArenaScoredHonestly'
  <2> SUFFICES ASSUME NEW i \in DOMAIN plays, NEW p \in plays[i], p.result # Unresolved
               PROVE  \/ p.result = venue'[dealt[i]] /\ \A j \in DOMAIN plays : plays[j] # Unplayed
                      \/ \E d \in crossing : p.result = venue'[d[i]]
    BY <1>1 DEF ArenaScoredHonestly
  <2>1. DOMAIN plays = DOMAIN dealt /\ dealt \in ArenaDecks
    BY PlaysTyped, DeckPlaces DEF ArenaInv, ArenaTypeOK
  <2>2. dealt[i] \in ArenaMarkets /\ \A d \in crossing : d[i] \in ArenaMarkets
    BY <2>1, DeckPlaces DEF ArenaInv, ArenaTypeOK
  <2> QED BY <1>1, <2>2 DEF ArenaInv, ArenaScoredHonestly
<1> QED BY <1>1, <1>2, <1>3 DEF ArenaInv, PollsOK, AllSwiped

LEMMA StartKeepsArena == ASSUME ArenaInv, StartArena PROVE ArenaInv'
<1>1. PICK d \in ArenaDecks : loading' = {d}
  BY DEF StartArena
<1>2. /\ dealt' = NoDeck /\ plays' = <<>> /\ crossing' = polls /\ polls' = polls
      /\ venue' = venue /\ deals' \in 0 .. MaxDeals
  BY ArenaAssumption DEF ArenaInv, ArenaTypeOK, StartArena
<1>3. ArenaTypeOK'
  <2>1. plays' \in [DOMAIN dealt' -> ArenaPlays]
    BY <1>2, DeckPlaces DEF NoDeck
  <2> QED BY <1>1, <1>2, <2>1 DEF ArenaInv, ArenaTypeOK, ArenaPlays
<1> QED BY <1>2, <1>3 DEF ArenaInv, PollsOK, ArenaScoredHonestly

LEMMA DeckKeepsArena == ASSUME ArenaInv, DeckArrives \/ DeckFails PROVE ArenaInv'
<1>1. CASE DeckArrives
  <2>1. PICK d \in loading : dealt' = d /\ plays' = [i \in DOMAIN d |-> Unplayed]
    BY <1>1 DEF DeckArrives
  <2>2. /\ loading' = {} /\ UNCHANGED <<venue, polls, crossing, deals>> /\ d \in ArenaDecks
    BY <1>1 DEF ArenaInv, ArenaTypeOK, DeckArrives
  <2>3. ArenaTypeOK'
    <3>1. plays' \in [DOMAIN dealt' -> ArenaPlays]
      BY <2>1, DeckPlaces
    <3> QED BY <2>1, <2>2, <3>1 DEF ArenaInv, ArenaTypeOK, ArenaPlays
  <2>4. \A i \in DOMAIN plays' : plays'[i] = {}
    BY <2>1 DEF Unplayed
  <2>5. PollsOK'
    BY <2>2 DEF ArenaInv, PollsOK, AllSwiped
  <2> QED BY <2>2, <2>3, <2>4, <2>5 DEF ArenaInv, ArenaScoredHonestly
<1>2. CASE DeckFails
  <2>1. loading' = {} /\ UNCHANGED <<venue, dealt, plays, polls, crossing, deals>>
    BY <1>2 DEF DeckFails
  <2> QED BY <2>1 DEF ArenaInv, ArenaTypeOK, PollsOK, AllSwiped, ArenaScoredHonestly
<1> QED BY <1>1, <1>2

LEMMA PickKeepsArena ==
  ASSUME ArenaInv, NEW i \in DOMAIN plays, Pick(i)
  PROVE  ArenaInv'
<1>1. PICK side \in ArenaSides : plays' = [plays EXCEPT ![i] = Play(side)]
  BY DEF Pick
<1>2. UNCHANGED <<venue, loading, dealt, polls, crossing, deals>> /\ plays[i] = Unplayed
  BY DEF Pick
<1>3. Play(side) \in ArenaPlays /\ \A p \in Play(side) : p.result = Unresolved
  BY DEF ArenaPlays, Play
<1>4. /\ plays \in [DOMAIN dealt -> ArenaPlays] /\ DOMAIN plays' = DOMAIN plays
      /\ plays'[i] = Play(side) /\ \A j \in DOMAIN plays \ {i} : plays'[j] = plays[j]
  BY <1>1, PlaysTyped
<1>5. ArenaTypeOK'
  <2>1. plays' \in [DOMAIN dealt' -> ArenaPlays]
    BY <1>1, <1>2, <1>3, <1>4
  <2> QED BY <1>2, <2>1 DEF ArenaInv, ArenaTypeOK, ArenaPlays
<1>6. ~AllSwiped
  BY <1>2 DEF AllSwiped
<1>7. PollsOK'
  BY <1>2, <1>6 DEF ArenaInv, PollsOK
<1>8. ArenaScoredHonestly'
  BY <1>2, <1>3, <1>4 DEF ArenaInv, ArenaScoredHonestly
<1> QED BY <1>2, <1>5, <1>7, <1>8 DEF ArenaInv

LEMMA PollKeepsArena == ASSUME ArenaInv, Poll PROVE ArenaInv'
<1>1. /\ polls' = polls \cup {dealt} /\ AllSwiped /\ dealt \in ArenaDecks
      /\ UNCHANGED <<venue, loading, dealt, plays, crossing, deals>>
  BY DEF ArenaInv, ArenaTypeOK, Poll, AllSwiped
<1> QED BY <1>1 DEF ArenaInv, ArenaTypeOK, PollsOK, AllSwiped, ArenaScoredHonestly

(* An answer fills in results of plays that have none; it takes no play     *)
(* away.                                                                    *)
LEMMA AnswerFills ==
  ASSUME ArenaInv, NEW d \in polls, NEW told, PollAnswered(d, told), NEW i \in DOMAIN plays
  PROVE  /\ DOMAIN plays' = DOMAIN plays /\ plays'[i] \in ArenaPlays
         /\ plays[i] # Unplayed => plays'[i] # Unplayed
         /\ plays'[i] = plays[i] \/ (\A p \in plays'[i] : p.result = venue[d[i]])
<1> DEFINE Filled(k) == {[p EXCEPT !.result = venue[d[k]]] : p \in plays[k]}
<1>1. /\ told \subseteq {m \in AskedMarkets(d) : venue[m] # Unresolved} /\ d \in ArenaDecks
      /\ plays' = [k \in DOMAIN plays |->
                     IF SettledPlay(k) \/ d[k] \notin told THEN plays[k] ELSE Filled(k)]
  BY DEF PollAnswered, ArenaInv, ArenaTypeOK
<1>0. Filled(i) = {[p EXCEPT !.result = venue[d[i]]] : p \in plays[i]}
  OBVIOUS
<1> HIDE DEF Filled
<1>2. CASE SettledPlay(i) \/ d[i] \notin told
  <2>1. plays'[i] = plays[i] /\ DOMAIN plays' = DOMAIN plays
    BY <1>1, <1>2
  <2>2. plays[i] \in ArenaPlays
    BY PlaysTyped
  <2> QED BY <2>1, <2>2
<1>3. CASE ~(SettledPlay(i) \/ d[i] \notin told)
  <2>1. d[i] \in ArenaMarkets
    BY <1>1, <1>3, DeckPlaces DEF AskedMarkets
  <2>2. venue[d[i]] \in Results \cup {Unresolved}
    BY <2>1 DEF ArenaInv, ArenaTypeOK
  <2>3. plays'[i] = Filled(i)
    BY <1>1, <1>3
  <2>4. CASE plays[i] = Unplayed
    BY <1>0, <1>1, <2>3, <2>4, DeckPlaces DEF Unplayed
  <2>5. ASSUME NEW side \in ArenaSides, NEW r \in Results \cup {Unresolved},
               plays[i] = {[you |-> side, result |-> r]}
        PROVE  /\ plays'[i] = {[you |-> side, result |-> venue[d[i]]]}
               /\ plays'[i] \in ArenaPlays /\ plays'[i] # Unplayed
    <3> DEFINE new == [you |-> side, result |-> venue[d[i]]]
    <3>1. \A p \in plays[i] : [p EXCEPT !.result = venue[d[i]]] = new
      BY <2>5
    <3>2. Filled(i) = {[p EXCEPT !.result = venue[d[i]]] : p \in plays[i]}
      BY <1>0
    <3>3. plays'[i] = {new}
      BY <2>3, <2>5, <3>1, <3>2
    <3>4. {new} \in ArenaPlays
      BY <2>2 DEF ArenaPlays
    <3> HIDE DEF new
    <3>5. {new} # Unplayed
      BY DEF Unplayed
    <3> QED BY <3>3, <3>4, <3>5 DEF new
  <2> QED BY <1>1, <2>4, <2>5, PlaysTyped
<1> QED BY <1>2, <1>3

LEMMA AnswerKeepsArena ==
  ASSUME ArenaInv, NEW d \in polls, NEW told, PollAnswered(d, told)
  PROVE  ArenaInv'
<1>1. polls' = polls \ {d} /\ UNCHANGED <<venue, loading, dealt, crossing, deals>>
  BY DEF PollAnswered
<1>2. DOMAIN plays' = DOMAIN plays /\ DOMAIN plays = DOMAIN dealt
  BY PlaysTyped DEF PollAnswered
<1>3. ArenaTypeOK'
  <2>1. plays' = [k \in DOMAIN plays |-> plays'[k]]
    BY DEF PollAnswered
  <2>2. plays' \in [DOMAIN dealt -> ArenaPlays]
    BY <1>2, <2>1, AnswerFills
  <2> QED BY <1>1, <2>2 DEF ArenaInv, ArenaTypeOK, ArenaPlays
<1>4. \A j \in DOMAIN plays : plays[j] # Unplayed => plays'[j] # Unplayed
  BY AnswerFills
<1>5. PollsOK'
  BY <1>1, <1>2, <1>4 DEF ArenaInv, PollsOK, AllSwiped
<1>6. ArenaScoredHonestly'
  <2> SUFFICES ASSUME NEW i \in DOMAIN plays, NEW p \in plays'[i], p.result # Unresolved
               PROVE  \/ p.result = venue[dealt[i]] /\ \A j \in DOMAIN plays : plays'[j] # Unplayed
                      \/ \E e \in crossing : p.result = venue[e[i]]
    BY <1>1, <1>2 DEF ArenaScoredHonestly
  <2>1. CASE plays'[i] = plays[i]
    BY <1>4, <2>1 DEF ArenaInv, ArenaScoredHonestly
  <2>2. CASE \A q \in plays'[i] : q.result = venue[d[i]]
    <3>1. p.result = venue[d[i]] /\ (d \in crossing \/ (d = dealt /\ AllSwiped))
      BY <2>2 DEF ArenaInv, PollsOK
    <3> QED BY <1>4, <3>1 DEF AllSwiped
  <2> QED BY <2>1, <2>2, AnswerFills
<1> QED BY <1>1, <1>3, <1>5, <1>6 DEF ArenaInv

LEMMA ArenaKept == ArenaInv /\ [ArenaNext]_arenaVars => ArenaInv'
<1> SUFFICES ASSUME ArenaInv, [ArenaNext]_arenaVars PROVE ArenaInv'
  OBVIOUS
<1>1. CASE UNCHANGED arenaVars
  BY <1>1 DEF arenaVars, ArenaInv, ArenaTypeOK, PollsOK, AllSwiped, ArenaScoredHonestly
<1> QED BY <1>1, VenueKeepsArena, StartKeepsArena, DeckKeepsArena, PickKeepsArena,
           PollKeepsArena, AnswerKeepsArena DEF ArenaNext

(* A card of the arena shows the result of its own market, and not before   *)
(* every card is swiped, whatever order polls, decks and resolutions come   *)
(* in; the exception is a poll that was in flight when the deck was asked   *)
(* for, which bot-arena.tsx does not cancel.                                *)
THEOREM ArenaIsHonest ==
  ArenaInit /\ [][ArenaNext]_arenaVars => []ArenaScoredHonestly
BY ArenaStarts, ArenaKept, PTL DEF ArenaInv

(* For any markets and deck size: the arena plays the cards of the deck it  *)
(* was dealt, each with one result or none (bot-arena.tsx).                 *)
THEOREM ArenaTyped ==
  ArenaInit /\ [][ArenaNext]_arenaVars => []ArenaTypeOK
BY ArenaStarts, ArenaKept, PTL DEF ArenaInv

-----------------------------------------------------------------------------
(* The avatar store.  Once a session is known to have no row of its own, or *)
(* has sent a starter, its own address is cached; a starter is only awaited *)
(* while it is not.  What is cached stays so until the next page load.      *)
AvatarRows == [Addresses -> [icon : Values, writes : Nat]]
AvatarReads == [rows : AvatarRows, blind : BOOLEAN]
AvatarFetches == [id : Nat, addresses : SUBSET Addresses, served : BOOLEAN, read : AvatarReads]
AvatarPosts == [address : Addresses, icon : Values, starter : BOOLEAN, seen : Nat,
                blind : BOOLEAN, load : Nat]

AvatarTypes ==
  /\ profile \in AvatarRows
  /\ cache \in [Addresses -> SUBSET Values]
  /\ fetches \subseteq AvatarFetches
  /\ posts \subseteq AvatarPosts
  /\ seed \in SUBSET Values
  /\ reads \in Nat /\ loads \in Nat

Starters == {p \in posts : p.starter}

AvatarInv ==
  /\ AvatarTypes
  /\ assigning => cache[Self] = {}
  /\ Self \in absent => cache[Self] # {}
  /\ \A p \in Starters : p.load <= loads /\ (p.load = loads => cache[Self] # {})
  /\ StarterSparesChoices

LEMMA SelfAddress == Self \in Addresses
BY DEF Addresses

LEMMA NothingRead == NoRow \in [icon : Values, writes : Nat] /\ NoRead \in AvatarReads
BY DEF NoRow, NoRead, AvatarReads, AvatarRows, Values

LEMMA AvatarsStart == AvatarInit => AvatarInv
<1> SUFFICES ASSUME AvatarInit PROVE AvatarInv
  OBVIOUS
<1>1. profile \in AvatarRows
  <2>1. \A v \in Values : [icon |-> v, writes |-> 1] \in [icon : Values, writes : Nat]
    OBVIOUS
  <2> QED BY <2>1, NothingRead DEF AvatarInit, AvatarRows
<1>2. /\ cache = [a \in Addresses |-> {}] /\ fetches = {} /\ absent = {} /\ posts = {}
      /\ assigning = FALSE /\ seed = {} /\ reads = 0 /\ loads = 0
  BY DEF AvatarInit
<1> QED BY <1>1, <1>2 DEF AvatarInv, AvatarTypes, Starters, StarterSparesChoices

(* What every step but a page load and a starter leaves true: the own       *)
(* address stays cached, and no starter is added.                           *)
LEMMA StartersKeep ==
  ASSUME AvatarInv, posts' \subseteq AvatarPosts, loads' = loads,
         \A p \in posts' : p.starter => p \in posts,
         cache[Self] # {} => cache'[Self] # {}
  PROVE  /\ \A p \in Starters' : p.load <= loads' /\ (p.load = loads' => cache'[Self] # {})
         /\ StarterSparesChoices'
BY DEF AvatarInv, Starters, StarterSparesChoices

LEMMA FetchTyped ==
  ASSUME AvatarTypes, NEW addresses \in SUBSET Addresses, Fetch(addresses)
  PROVE  fetches' \subseteq AvatarFetches /\ reads' \in Nat
<1>1. CASE Wanted(addresses) = {}
  BY <1>1 DEF Fetch, AvatarTypes
<1>2. CASE Wanted(addresses) # {}
  <2>1. Wanted(addresses) \in SUBSET Addresses
    BY DEF Wanted
  <2>2. reads' \in Nat
    BY <1>2 DEF Fetch, AvatarTypes
  <2>3. [id |-> reads', addresses |-> Wanted(addresses), served |-> FALSE, read |-> NoRead]
          \in AvatarFetches
    BY <2>1, <2>2, NothingRead DEF AvatarFetches
  <2> QED BY <1>2, <2>2, <2>3 DEF Fetch, AvatarTypes
<1> QED BY <1>1, <1>2

LEMMA AskingKeeps ==
  ASSUME AvatarInv,
         \/ EnsureStarterAvatar
         \/ \E addresses \in SUBSET Addresses : ShowAvatars(addresses)
  PROVE  AvatarInv'
<1>1. /\ UNCHANGED <<profile, cache, absent, seed, posts, loads>>
      /\ \E addresses \in SUBSET Addresses : Fetch(addresses)
      /\ assigning' => cache[Self] = {}
  BY SelfAddress DEF AvatarInv, EnsureStarterAvatar, ShowAvatars
<1>2. AvatarTypes'
  BY <1>1, FetchTyped DEF AvatarInv, AvatarTypes
<1> QED BY <1>1, <1>2 DEF AvatarInv, Starters, StarterSparesChoices

LEMMA ServingKeeps ==
  ASSUME AvatarInv, NEW f \in fetches, ServeAvatars(f)
  PROVE  AvatarInv'
<1>1. UNCHANGED <<profile, cache, absent, assigning, seed, posts, reads, loads>>
  BY DEF ServeAvatars
<1>2. PICK blind \in BOOLEAN :
        fetches' = (fetches \ {f}) \cup
          {[f EXCEPT !.served = TRUE,
              !.read = [rows |-> IF blind THEN NoRead.rows ELSE profile, blind |-> blind]]}
  BY DEF ServeAvatars
<1>3. (IF blind THEN NoRead.rows ELSE profile) \in AvatarRows
  BY NothingRead DEF AvatarReads, AvatarInv, AvatarTypes
<1> DEFINE read == [rows |-> IF blind THEN NoRead.rows ELSE profile, blind |-> blind]
           g == [f EXCEPT !.served = TRUE]
<1>4. read \in AvatarReads
  BY <1>3 DEF AvatarReads
<1>5. fetches' = (fetches \ {f}) \cup {[g EXCEPT !.read = read]}
  BY <1>2
<1>6. f \in AvatarFetches
  BY DEF AvatarInv, AvatarTypes
<1> HIDE DEF read
<1>7. g \in AvatarFetches
  BY <1>6 DEF AvatarFetches
<1> HIDE DEF g
<1>8. [g EXCEPT !.read = read] \in AvatarFetches
  BY <1>4, <1>7 DEF AvatarFetches
<1>9. AvatarTypes'
  BY <1>1, <1>5, <1>8 DEF AvatarInv, AvatarTypes
<1> QED BY <1>1, <1>9 DEF AvatarInv, Starters, StarterSparesChoices

(* A starter that is sent: the session had read, at the last, that there is *)
(* no own row.                                                              *)
LEMMA ArrivalKeeps ==
  ASSUME AvatarInv, NEW f \in fetches, FetchArrives(f)
  PROVE  AvatarInv'
<1> DEFINE newAbsent == absent \cup {a \in f.addresses : ~RowSeen(f, a)}
           settled == Self \in f.addresses \/ cache[Self] # {} \/ Self \notin Inflight
           known == [a \in Addresses |->
                       IF a \in f.addresses THEN {f.read.rows[a].icon} ELSE cache[a]]
<1>1. /\ fetches' = fetches \ {f} /\ UNCHANGED <<profile, reads, loads>>
      /\ absent' = newAbsent /\ assigning' = (assigning /\ ~settled)
  BY DEF FetchArrives
<1>2. f \in AvatarFetches
  BY DEF AvatarInv, AvatarTypes
<1>3. /\ f.read \in AvatarReads /\ f.addresses \subseteq Addresses
      /\ \A a \in Addresses : f.read.rows[a] \in [icon : Values, writes : Nat]
  BY <1>2 DEF AvatarFetches, AvatarReads, AvatarRows
<1>4. CASE assigning /\ settled /\ ConfirmedAbsent(newAbsent)
  <2>1. PICK id \in Icons :
          /\ cache' = [a \in Addresses |->
                         IF a = Self THEN {id}
                         ELSE IF a \in f.addresses THEN {f.read.rows[a].icon} ELSE cache[a]]
          /\ seed' = {id}
          /\ posts' = posts \cup {Post(Self, id, TRUE, f.read)}
    BY <1>4 DEF FetchArrives
  <2> DEFINE new == Post(Self, id, TRUE, f.read)
  <2>2. /\ new \in AvatarPosts /\ new.starter /\ new.load = loads
        /\ new.seen = f.read.rows[Self].writes /\ new.blind = f.read.blind
    BY <1>3, SelfAddress DEF Post, AvatarPosts, AvatarInv, AvatarTypes, AvatarReads, Values
  <2>2a. posts' = posts \cup {new}
    BY <2>1
  <2> HIDE DEF new
  <2>3. cache[Self] = {} /\ Self \notin absent
    BY <1>4 DEF AvatarInv
  <2>4. new.blind \/ new.seen = 0
    <3>1. ~RowSeen(f, Self)
      BY <1>4, <2>3 DEF ConfirmedAbsent
    <3> QED BY <1>3, <2>2, <3>1, SelfAddress DEF RowSeen
  <2>5. AvatarTypes'
    <3>1. cache' \in [Addresses -> SUBSET Values]
      BY <1>3, <2>1 DEF AvatarInv, AvatarTypes, Values
    <3>2. posts' \subseteq AvatarPosts
      BY <2>2, <2>2a DEF AvatarInv, AvatarTypes
    <3> QED BY <1>1, <2>1, <3>1, <3>2 DEF Values, AvatarInv, AvatarTypes
  <2>6. cache'[Self] # {}
    BY <2>1, SelfAddress
  <2>7. Starters' = Starters \cup {new}
    BY <2>2, <2>2a DEF Starters
  <2>8. \A p \in Starters' : p.load <= loads'
    BY <1>1, <2>2, <2>7 DEF AvatarInv, AvatarTypes
  <2>9. \A p \in Starters : p.load # new.load
    BY <2>2, <2>3 DEF AvatarInv
  <2>10. StarterSparesChoices'
    <3>1. \A p \in Starters' : p.blind \/ p.seen = 0
      BY <2>4, <2>7 DEF AvatarInv, StarterSparesChoices, Starters
    <3>2. \A p, q \in Starters' : q.load = p.load => q = p
      BY <2>7, <2>9 DEF AvatarInv, StarterSparesChoices, Starters
    <3> QED BY <3>1, <3>2 DEF StarterSparesChoices, Starters
  <2> QED BY <1>1, <1>4, <2>5, <2>6, <2>8, <2>10 DEF AvatarInv
<1>5. CASE ~(assigning /\ settled /\ ConfirmedAbsent(newAbsent))
  <2>1. cache' = known /\ posts' = posts /\ seed' = seed
    BY <1>5 DEF FetchArrives
  <2>2. AvatarTypes'
    <3>1. cache' \in [Addresses -> SUBSET Values]
      BY <1>3, <2>1 DEF AvatarInv, AvatarTypes
    <3> QED BY <1>1, <2>1, <3>1 DEF AvatarInv, AvatarTypes
  <2>3. cache'[Self] = IF Self \in f.addresses THEN {f.read.rows[Self].icon} ELSE cache[Self]
    BY <2>1, SelfAddress
  <2>4. assigning' => cache'[Self] = {}
    BY <1>1, <2>3
  <2>5. Self \in absent' => cache'[Self] # {}
    BY <1>1, <2>3 DEF AvatarInv
  <2>6. cache[Self] # {} => cache'[Self] # {}
    BY <2>3
  <2>7. posts' \subseteq AvatarPosts /\ \A p \in posts' : p.starter => p \in posts
    BY <2>1 DEF AvatarInv, AvatarTypes
  <2> QED BY <1>1, <2>2, <2>4, <2>5, <2>6, <2>7, StartersKeep DEF AvatarInv
<1> QED BY <1>4, <1>5

LEMMA BreakingKeeps ==
  ASSUME AvatarInv, NEW f \in fetches, FetchBreaks(f)
  PROVE  AvatarInv'
<1>1. /\ UNCHANGED <<profile, cache, absent, seed, posts, reads, loads>>
      /\ fetches' = fetches \ {f} /\ (assigning' => cache[Self] = {})
  BY DEF FetchBreaks
<1>2. AvatarTypes'
  BY <1>1 DEF AvatarInv, AvatarTypes
<1> QED BY <1>1, <1>2 DEF AvatarInv, Starters, StarterSparesChoices

LEMMA PickingKeeps ==
  ASSUME AvatarInv, NEW icon \in Values, PickAvatar(icon)
  PROVE  AvatarInv'
<1> DEFINE new == Post(Self, icon, FALSE, NoRead)
<1>1. /\ cache' = [cache EXCEPT ![Self] = {icon}] /\ posts' = posts \cup {new}
      /\ assigning' = FALSE /\ seed' = {icon} /\ UNCHANGED <<profile, fetches, absent, reads, loads>>
  BY DEF PickAvatar
<1>2. new \in AvatarPosts /\ ~new.starter
  <2>1. NoRead.rows[Self].writes \in Nat /\ NoRead.blind \in BOOLEAN
    BY SelfAddress, NothingRead DEF AvatarReads, AvatarRows
  <2>2. new = [address |-> Self, icon |-> icon, starter |-> FALSE,
               seen |-> NoRead.rows[Self].writes, blind |-> NoRead.blind, load |-> loads]
    BY DEF Post
  <2> HIDE DEF new
  <2> QED BY <2>1, <2>2, SelfAddress DEF AvatarPosts, AvatarInv, AvatarTypes
<1> HIDE DEF new
<1>3. cache' \in [Addresses -> SUBSET Values] /\ cache'[Self] # {}
  BY <1>1, SelfAddress DEF AvatarInv, AvatarTypes
<1>4. AvatarTypes'
  BY <1>1, <1>2, <1>3 DEF AvatarInv, AvatarTypes
<1>5. posts' \subseteq AvatarPosts /\ \A p \in posts' : p.starter => p \in posts
  BY <1>1, <1>2 DEF AvatarInv, AvatarTypes
<1> QED BY <1>1, <1>3, <1>4, <1>5, StartersKeep DEF AvatarInv

LEMMA WritingKeeps ==
  ASSUME AvatarInv,
         \/ \E p \in posts : SaveAvatar(p) \/ LosePost(p)
         \/ \E icon \in Values : PickElsewhere(icon)
  PROVE  AvatarInv'
<1>1. UNCHANGED <<cache, fetches, absent, assigning, seed, reads, loads>> /\ posts' \subseteq posts
  BY DEF SaveAvatar, LosePost, PickElsewhere
<1>2. profile' \in AvatarRows
  <2>1. ASSUME NEW a \in Addresses, NEW icon \in Values, Written(a, icon)
        PROVE  profile' \in AvatarRows
    <3>1. profile[a].writes \in Nat
      BY DEF AvatarInv, AvatarTypes, AvatarRows
    <3>2. [icon |-> icon, writes |-> profile[a].writes + 1] \in [icon : Values, writes : Nat]
      BY <3>1
    <3>3. profile' = [profile EXCEPT ![a] = [icon |-> icon, writes |-> profile[a].writes + 1]]
      BY <2>1 DEF Written
    <3> QED BY <3>2, <3>3 DEF AvatarInv, AvatarTypes, AvatarRows
  <2>2. ASSUME NEW p \in posts, SaveAvatar(p) PROVE profile' \in AvatarRows
    <3>1. p.address \in Addresses /\ p.icon \in Values /\ Written(p.address, p.icon)
      BY <2>2 DEF SaveAvatar, AvatarInv, AvatarTypes, AvatarPosts
    <3> QED BY <2>1, <3>1
  <2>3. ASSUME NEW icon \in Values, PickElsewhere(icon) PROVE profile' \in AvatarRows
    BY <2>1, <2>3, SelfAddress DEF PickElsewhere
  <2>4. ASSUME NEW p \in posts, LosePost(p) PROVE profile' \in AvatarRows
    BY <2>4 DEF LosePost, AvatarInv, AvatarTypes
  <2> QED BY <2>2, <2>3, <2>4
<1>3. AvatarTypes'
  BY <1>1, <1>2 DEF AvatarInv, AvatarTypes
<1>4. posts' \subseteq AvatarPosts
  BY <1>1 DEF AvatarInv, AvatarTypes
<1> QED BY <1>1, <1>3, <1>4, StartersKeep DEF AvatarInv

LEMMA LoadingKeeps == ASSUME AvatarInv, ReloadPage PROVE AvatarInv'
<1>1. /\ loads' = loads + 1 /\ UNCHANGED <<profile, posts, reads>>
      /\ fetches' = {} /\ absent' = {} /\ assigning' = FALSE
      /\ cache' = [a \in Addresses |-> IF a = Self THEN seed' ELSE {}]
      /\ seed' = seed \/ seed' = {}
  BY DEF ReloadPage
<1>2. AvatarTypes'
  <2>1. cache' \in [Addresses -> SUBSET Values]
    BY <1>1 DEF AvatarInv, AvatarTypes
  <2> QED BY <1>1, <2>1 DEF AvatarInv, AvatarTypes
<1>3. \A p \in posts : p.starter => p.load < loads'
  BY <1>1 DEF AvatarInv, AvatarTypes, AvatarPosts, Starters
<1>4. \A p \in Starters' : p.load <= loads' /\ p.load # loads'
  BY <1>1, <1>3 DEF AvatarInv, AvatarTypes, AvatarPosts, Starters
<1> QED BY <1>1, <1>2, <1>4 DEF AvatarInv, StarterSparesChoices

LEMMA AvatarsKept == AvatarInv /\ [AvatarNext]_avatarVars => AvatarInv'
<1> SUFFICES ASSUME AvatarInv, [AvatarNext]_avatarVars PROVE AvatarInv'
  OBVIOUS
<1>1. CASE UNCHANGED avatarVars
  BY <1>1 DEF avatarVars, AvatarInv, AvatarTypes, Starters, StarterSparesChoices
<1> QED BY <1>1, AskingKeeps, ServingKeeps, ArrivalKeeps, BreakingKeeps, PickingKeeps,
           WritingKeeps, LoadingKeeps DEF AvatarNext

(* A starter avatar never replaces what its session was told of, and one    *)
(* page load of avatar-store.ts sends no two of them, whatever fetches fail *)
(* or are late, and whatever is picked meanwhile, here or elsewhere.        *)
THEOREM StartersSpareChoices ==
  AvatarInit /\ [][AvatarNext]_avatarVars => []StarterSparesChoices
BY AvatarsStart, AvatarsKept, PTL DEF AvatarInv

(* What the type says beyond AvatarTypes: of an address at most one icon is *)
(* known, and the counts of the model stay within their bounds.             *)
BoundRows == [Addresses -> [icon : Values, writes : 0 .. MaxWrites]]
AtMostOne == {{}} \cup {{v} : v \in Values}
FetchBound(f) == f.addresses # {} /\ f.read.rows \in BoundRows

AvatarBounds ==
  /\ profile \in BoundRows /\ cache \in [Addresses -> AtMostOne]
  /\ \A f \in fetches : FetchBound(f)
  /\ absent \subseteq Addresses /\ assigning \in BOOLEAN /\ seed \in AtMostOne
  /\ reads \in 0 .. MaxReads /\ loads \in 0 .. MaxLoads

LEMMA NothingBound ==
  NoRow \in [icon : Values, writes : 0 .. MaxWrites] /\ NoRead.rows \in BoundRows
BY AvatarAssumption DEF NoRow, NoRead, BoundRows, Values

LEMMA AvatarBoundsStart == AvatarInit => AvatarBounds
<1> SUFFICES ASSUME AvatarInit PROVE AvatarBounds
  OBVIOUS
<1>1. \A v \in Values : [icon |-> v, writes |-> 1] \in [icon : Values, writes : 0 .. MaxWrites]
  BY AvatarAssumption
<1>2. profile \in BoundRows
  BY <1>1, NothingBound DEF AvatarInit, BoundRows
<1>3. {} \in AtMostOne /\ 0 \in 0 .. MaxReads /\ 0 \in 0 .. MaxLoads
  BY AvatarAssumption DEF AtMostOne
<1>4. cache \in [Addresses -> AtMostOne]
  BY <1>3 DEF AvatarInit
<1> QED BY <1>2, <1>3, <1>4 DEF AvatarInit, AvatarBounds

LEMMA FetchBounded ==
  ASSUME AvatarInv, AvatarBounds, NEW addresses \in SUBSET Addresses, Fetch(addresses)
  PROVE  (\A f \in fetches' : FetchBound(f)) /\ reads' \in 0 .. MaxReads
<1>1. CASE Wanted(addresses) = {}
  BY <1>1 DEF Fetch, AvatarBounds
<1>2. CASE Wanted(addresses) # {}
  <2> PICK new : new = [id |-> reads', addresses |-> Wanted(addresses), served |-> FALSE,
                        read |-> NoRead]
    OBVIOUS
  <2>1. FetchBound(new)
    BY <1>2, NothingBound DEF FetchBound
  <2>2. fetches' = fetches \cup {new} /\ reads < MaxReads /\ reads' = reads + 1
    BY <1>2 DEF Fetch
  <2>3. reads' \in 0 .. MaxReads
    BY <2>2, AvatarAssumption DEF AvatarBounds
  <2> QED BY <2>1, <2>2, <2>3 DEF AvatarBounds
<1> QED BY <1>1, <1>2

LEMMA AvatarBoundsKept ==
  ASSUME AvatarInv, AvatarBounds, [AvatarNext]_avatarVars
  PROVE  AvatarBounds'
<1>1. CASE UNCHANGED avatarVars
  BY <1>1 DEF avatarVars, AvatarBounds
<1>2. CASE EnsureStarterAvatar \/ \E addresses \in SUBSET Addresses : ShowAvatars(addresses)
  <2>1. /\ UNCHANGED <<profile, cache, absent, seed, loads>>
        /\ \E addresses \in SUBSET Addresses : Fetch(addresses)
        /\ assigning' \in BOOLEAN
    BY <1>2, SelfAddress DEF AvatarBounds, EnsureStarterAvatar, ShowAvatars
  <2>2. (\A f \in fetches' : FetchBound(f)) /\ reads' \in 0 .. MaxReads
    BY <2>1, FetchBounded
  <2> QED BY <2>1, <2>2 DEF AvatarBounds
<1>3. ASSUME NEW f \in fetches, ServeAvatars(f) PROVE AvatarBounds'
  <2>1. PICK blind \in BOOLEAN :
          fetches' = (fetches \ {f}) \cup
            {[f EXCEPT !.served = TRUE,
                !.read = [rows |-> IF blind THEN NoRead.rows ELSE profile, blind |-> blind]]}
    BY <1>3 DEF ServeAvatars
  <2> PICK rows : rows = IF blind THEN NoRead.rows ELSE profile
    OBVIOUS
  <2>2. rows \in BoundRows
    BY NothingBound DEF AvatarBounds
  <2> PICK g : g = [f EXCEPT !.served = TRUE, !.read = [rows |-> rows, blind |-> blind]]
    OBVIOUS
  <2>3. f \in AvatarFetches /\ FetchBound(f)
    BY DEF AvatarInv, AvatarTypes, AvatarBounds
  <2>4. g.addresses = f.addresses /\ g.read.rows = rows
    BY <2>3 DEF AvatarFetches
  <2>5. FetchBound(g)
    BY <2>2, <2>3, <2>4 DEF FetchBound
  <2>6. fetches' = (fetches \ {f}) \cup {g}
    BY <2>1
  <2> QED BY <1>3, <2>5, <2>6 DEF AvatarBounds, ServeAvatars
<1>4. ASSUME NEW f \in fetches, FetchArrives(f) PROVE AvatarBounds'
  <2>1. f \in AvatarFetches /\ FetchBound(f)
    BY DEF AvatarInv, AvatarTypes, AvatarBounds
  <2>2. f.addresses \subseteq Addresses /\ \A a \in Addresses : {f.read.rows[a].icon} \in AtMostOne
    BY <2>1 DEF AvatarFetches, FetchBound, BoundRows, AtMostOne
  <2>3. \A id \in Icons : {id} \in AtMostOne
    BY DEF AtMostOne, Values
  <2>4. cache' \in [Addresses -> AtMostOne] /\ seed' \in AtMostOne
    BY <1>4, <2>2, <2>3 DEF FetchArrives, AvatarBounds
  <2>5. /\ fetches' \subseteq fetches /\ UNCHANGED <<profile, reads, loads>>
        /\ absent' \subseteq Addresses /\ assigning' \in BOOLEAN
    BY <1>4, <2>2 DEF FetchArrives, AvatarBounds
  <2> QED BY <2>4, <2>5 DEF AvatarBounds
<1>5. ASSUME NEW f \in fetches, FetchBreaks(f) PROVE AvatarBounds'
  <2>1. /\ UNCHANGED <<profile, cache, absent, seed, reads, loads>>
        /\ fetches' \subseteq fetches /\ assigning' \in BOOLEAN
    BY <1>5 DEF FetchBreaks
  <2> QED BY <2>1 DEF AvatarBounds
<1>6. ASSUME NEW icon \in Values, PickAvatar(icon) PROVE AvatarBounds'
  <2>1. {icon} \in AtMostOne
    BY DEF AtMostOne
  <2>2. /\ cache' = [cache EXCEPT ![Self] = {icon}] /\ seed' = {icon} /\ assigning' = FALSE
        /\ UNCHANGED <<profile, fetches, absent, reads, loads>>
    BY <1>6 DEF PickAvatar
  <2> QED BY <2>1, <2>2 DEF AvatarBounds
<1>7. ASSUME NEW a \in Addresses, NEW icon \in Values, Written(a, icon)
      PROVE  profile' \in BoundRows
  <2>1. profile[a].writes \in 0 .. MaxWrites
    BY DEF AvatarBounds, BoundRows
  <2>2. [icon |-> icon, writes |-> profile[a].writes + 1] \in [icon : Values, writes : 0 .. MaxWrites]
    BY <1>7, <2>1, AvatarAssumption DEF Written
  <2>3. profile' = [profile EXCEPT ![a] = [icon |-> icon, writes |-> profile[a].writes + 1]]
    BY <1>7 DEF Written
  <2> QED BY <2>2, <2>3 DEF AvatarBounds, BoundRows
<1>8. ASSUME NEW p \in posts, SaveAvatar(p) \/ LosePost(p) PROVE AvatarBounds'
  <2>1. p.address \in Addresses /\ p.icon \in Values
    BY DEF AvatarInv, AvatarTypes, AvatarPosts
  <2>2. profile' \in BoundRows
    BY <1>7, <1>8, <2>1 DEF SaveAvatar, LosePost, AvatarBounds
  <2> QED BY <1>8, <2>2 DEF SaveAvatar, LosePost, AvatarBounds
<1>9. ASSUME NEW icon \in Values, PickElsewhere(icon) PROVE AvatarBounds'
  BY <1>7, <1>9, SelfAddress DEF PickElsewhere, AvatarBounds
<1>10. CASE ReloadPage
  <2>1. seed' \in AtMostOne /\ {} \in AtMostOne
    BY <1>10 DEF ReloadPage, AvatarBounds, AtMostOne
  <2>2. loads' \in 0 .. MaxLoads
    BY <1>10, AvatarAssumption DEF ReloadPage, AvatarBounds
  <2>3. cache' \in [Addresses -> AtMostOne]
    BY <1>10, <2>1 DEF ReloadPage
  <2>4. UNCHANGED <<profile, reads>> /\ fetches' = {} /\ absent' = {} /\ assigning' = FALSE
    BY <1>10 DEF ReloadPage
  <2> QED BY <2>1, <2>2, <2>3, <2>4 DEF AvatarBounds
<1> QED BY <1>1, <1>2, <1>3, <1>4, <1>5, <1>6, <1>8, <1>9, <1>10 DEF AvatarNext

(* For any addresses and icons: of an address avatar-store.ts knows one icon*)
(* or none, a request asks for some address, and a fetch that breaks or is  *)
(* late leaves it so.                                                       *)
THEOREM AvatarsTyped ==
  AvatarInit /\ [][AvatarNext]_avatarVars => []AvatarTypeOK
<1>1. AvatarInv /\ AvatarBounds => AvatarTypeOK
  <2> SUFFICES ASSUME AvatarInv, AvatarBounds PROVE AvatarTypeOK
    OBVIOUS
  <2>1. ASSUME NEW f \in fetches
        PROVE  /\ f.addresses \in (SUBSET Addresses) \ {{}} /\ f.served \in BOOLEAN
               /\ f.read.rows \in BoundRows
    <3>1. f \in AvatarFetches /\ FetchBound(f)
      BY DEF AvatarInv, AvatarTypes, AvatarBounds
    <3>2. f.addresses \in SUBSET Addresses /\ f.served \in BOOLEAN
      BY <3>1 DEF AvatarFetches
    <3>3. f.addresses # {} /\ f.read.rows \in BoundRows
      BY <3>1, Zenon DEF FetchBound
    <3>4. f.addresses \in (SUBSET Addresses) \ {{}}
      BY <3>2, <3>3
    <3> QED BY <3>2, <3>3, <3>4
  <2>2. ASSUME NEW p \in posts PROVE p.address \in Addresses /\ p.icon \in Values
    BY DEF AvatarInv, AvatarTypes, AvatarPosts
  <2>3. profile \in BoundRows /\ cache \in [Addresses -> AtMostOne] /\ seed \in AtMostOne
    BY DEF AvatarBounds
  <2>4. /\ absent \subseteq Addresses /\ assigning \in BOOLEAN
        /\ reads \in 0 .. MaxReads /\ loads \in 0 .. MaxLoads
    BY DEF AvatarBounds
  <2> QED BY <2>1, <2>2, <2>3, <2>4, Zenon DEF AvatarTypeOK, BoundRows, AtMostOne
<1> QED BY <1>1, AvatarsStart, AvatarsKept, AvatarBoundsStart, AvatarBoundsKept, PTL

-----------------------------------------------------------------------------
(* The lobby.  A match is announced once: its number is at most once in a   *)
(* pairing or on the wire, and there no more once it is matched, mounted or *)
(* called for.                                                              *)
LobbyMatches == [id : Nat, role : Roles \cup {"none"}]
LobbyMessages == [type : {"queue_status", "queue_left", "match_found"}, match : LobbyMatches]
LobbyRequests == {"queue_join", "queue_leave"}
LobbyCalls == [id : Nat, match : Nat, mount : Nat, at : {"wallet", "landed"}]

LobbyTypes ==
  /\ lobby \in [queued : BOOLEAN, matched : LobbyMatches, ready : BOOLEAN, modal : BOOLEAN,
                route : {"pvp", "play"}]
  /\ screen \in [mount : Nat, sentCreate : BOOLEAN, error : BOOLEAN]
  /\ link \in [open : BOOLEAN, up : Seq(LobbyRequests), down : Seq(LobbyMessages)]
  /\ seat \in [gates : Int, tier : BOOLEAN, lookups : Int, inQueue : BOOLEAN,
               pairing : SUBSET LobbyMatches]
  /\ calls \subseteq LobbyCalls
  /\ created \in [1 .. MaxMatches -> Nat] /\ unheard \in [1 .. MaxMatches -> Nat]
  /\ counts \in [matches : Nat, joins : Nat, calls : Nat, drops : Nat]

FoundAt(s) == {i \in 1 .. Len(s) : s[i].type = "match_found"}
Announced(s) == {s[i].match.id : i \in FoundAt(s)}
AnnouncedOnce(s) == \A i, j \in FoundAt(s) : s[i].match.id = s[j].match.id => i = j

(* The numbers that are spoken of: on the wire, in pairings, and by what    *)
(* has been made of them.                                                   *)
Pending(down, pairing) == Announced(down) \cup {p.id : p \in pairing}

PendingOnce(down, pairing) ==
  /\ AnnouncedOnce(down)
  /\ \A p, q \in pairing : p.id = q.id => p = q
  /\ \A p \in pairing : p.id \notin Announced(down)

TakenUp(matched, mounted, held) ==
  {matched.id, mounted} \cup {c.match : c \in held} \cup {c.mount : c \in held}

FreshNumbers(down, pairing, matched, mounted, held, matches) ==
  /\ PendingOnce(down, pairing)
  /\ \A k \in Pending(down, pairing) : k \in 1 .. matches
  /\ \A k \in TakenUp(matched, mounted, held) : k \in 0 .. matches
  /\ Pending(down, pairing) \cap TakenUp(matched, mounted, held) = {}

FreshOK == FreshNumbers(link.down, seat.pairing, lobby.matched, screen.mount, calls, counts.matches)

(* The calls of the screen's mount are held back by sentCreate, and those   *)
(* of the match on screen are of its mount.                                 *)
CallsGuarded ==
  /\ \A c \in calls :
       /\ c.match >= 1
       /\ c.mount = screen.mount => screen.sentCreate
       /\ c.match = lobby.matched.id => c.mount = screen.mount
  /\ \A c, e \in calls : c.match = e.match \/ c.mount = e.mount => c = e

(* Nobody is matched before the first join, which sets "ready" for good.    *)
Unready ==
  /\ ~lobby.ready => /\ lobby.matched = NoMatch /\ ~lobby.queued
                     /\ link.up = <<>> /\ link.down = <<>> /\ seat = NoSeat
  /\ lobby.matched = NoMatch \/ lobby.matched.id >= 1

(* The stakes: one more than the client was not told of, and that one only  *)
(* by a call which has landed or after which the lobby is left.             *)
Paid(k) ==
  /\ created[k] <= 1 + unheard[k]
  /\ \A c \in calls : c.match = k /\ c.at = "wallet" => created[k] <= unheard[k]
  /\ lobby.route = "pvp" /\ (\A c \in calls : c.match # k) => created[k] <= unheard[k]

LobbyInv ==
  /\ LobbyTypes /\ FreshOK /\ CallsGuarded /\ Unready
  /\ \A k \in 1 .. MaxMatches : Paid(k)

LEMMA LobbyHolds == LobbyInv => StakedOnce
<1> SUFFICES ASSUME LobbyInv, NEW k \in 1 .. MaxMatches
             PROVE  /\ created[k] <= 1 + unheard[k]
                    /\ Cardinality({c \in calls : c.match = k}) <= 1
  BY DEF StakedOnce
<1> DEFINE own == {c \in calls : c.match = k}
<1>1. own = {} \/ \E c \in calls : own = {c}
  BY DEF LobbyInv, CallsGuarded
<1> HIDE DEF own
<1>2. Cardinality(own) = 0 \/ Cardinality(own) = 1
  BY <1>1, FS_EmptySet, FS_Singleton
<1> QED BY <1>2 DEF LobbyInv, Paid, own

LEMMA LobbyStarts == LobbyInit => LobbyInv
<1> SUFFICES ASSUME LobbyInit PROVE LobbyInv
  OBVIOUS
<1>1. LobbyTypes
  <2>1. NoMatch \in LobbyMatches
    BY DEF NoMatch, LobbyMatches
  <2>2. /\ lobby \in [queued : BOOLEAN, matched : LobbyMatches, ready : BOOLEAN,
                      modal : BOOLEAN, route : {"pvp", "play"}]
        /\ screen \in [mount : Nat, sentCreate : BOOLEAN, error : BOOLEAN]
        /\ seat \in [gates : Int, tier : BOOLEAN, lookups : Int, inQueue : BOOLEAN,
                     pairing : SUBSET LobbyMatches]
        /\ counts \in [matches : Nat, joins : Nat, calls : Nat, drops : Nat]
    BY <2>1 DEF LobbyInit, NoSeat
  <2>3. link \in [open : BOOLEAN, up : Seq(LobbyRequests), down : Seq(LobbyMessages)]
    <3>1. Closed \in [open : BOOLEAN, up : Seq(LobbyRequests), down : Seq(LobbyMessages)]
      BY DEF Closed
    <3> QED BY <3>1 DEF LobbyInit
  <2> QED BY <2>2, <2>3 DEF LobbyInit, LobbyTypes
<1>2. link.down = <<>> /\ seat.pairing = {} /\ calls = {} /\ lobby.matched = NoMatch
      /\ lobby.matched.id = 0 /\ screen.mount = 0 /\ counts.matches = 0
  BY DEF LobbyInit, Closed, NoSeat, NoMatch
<1>3. Announced(<<>>) = {} /\ AnnouncedOnce(<<>>)
  BY DEF Announced, AnnouncedOnce, FoundAt
<1>4. FreshOK
  BY <1>2, <1>3 DEF FreshOK, FreshNumbers, PendingOnce, Pending, TakenUp
<1>5. Unready
  BY DEF LobbyInit, Unready, Closed, NoSeat
<1> QED BY <1>1, <1>2, <1>4, <1>5 DEF LobbyInit, LobbyInv, CallsGuarded, Paid

-----------------------------------------------------------------------------
(* The wire.                                                               *)

LEMMA TailAnnounces ==
  ASSUME NEW s \in Seq(LobbyMessages), s # <<>>
  PROVE  /\ Tail(s) \in Seq(LobbyMessages) /\ Head(s) \in LobbyMessages
         /\ Announced(Tail(s)) \subseteq Announced(s)
         /\ AnnouncedOnce(s) => AnnouncedOnce(Tail(s))
         /\ Head(s).type = "match_found" => Head(s).match.id \in Announced(s)
         /\ Head(s).type = "match_found" /\ AnnouncedOnce(s) =>
              Head(s).match.id \notin Announced(Tail(s))
<1> DEFINE t == Tail(s)
<1>1. /\ t \in Seq(LobbyMessages) /\ Head(s) = s[1] /\ s[1] \in LobbyMessages
      /\ 1 \in 1 .. Len(s) /\ Len(t) = Len(s) - 1 /\ Len(s) \in Nat
      /\ \A i \in 1 .. Len(t) : i + 1 \in 1 .. Len(s) /\ t[i] = s[i + 1]
  OBVIOUS
<1> HIDE DEF t
<1>2. \A i \in FoundAt(t) : i + 1 \in FoundAt(s) /\ t[i] = s[i + 1] /\ i \in Nat /\ i >= 1
  BY <1>1 DEF FoundAt
<1>3. Announced(t) \subseteq Announced(s)
  BY <1>2 DEF Announced
<1>4. AnnouncedOnce(s) => AnnouncedOnce(t)
  BY <1>2 DEF AnnouncedOnce
<1>5. ASSUME s[1].type = "match_found"
      PROVE  /\ s[1].match.id \in Announced(s)
             /\ AnnouncedOnce(s) => s[1].match.id \notin Announced(t)
  <2>1. 1 \in FoundAt(s)
    BY <1>1, <1>5 DEF FoundAt
  <2>2. \A i \in FoundAt(t) : i + 1 # 1
    BY <1>2
  <2> QED BY <1>2, <2>1, <2>2 DEF Announced, AnnouncedOnce
<1> QED BY <1>1, <1>3, <1>4, <1>5 DEF t

LEMMA SendAnnounces ==
  ASSUME NEW s \in Seq(LobbyMessages), NEW m \in LobbyMessages
  PROVE  /\ s \o <<m>> \in Seq(LobbyMessages)
         /\ m.type # "match_found" =>
              Announced(s \o <<m>>) = Announced(s) /\ (AnnouncedOnce(s) => AnnouncedOnce(s \o <<m>>))
         /\ m.type = "match_found" =>
              /\ Announced(s \o <<m>>) = Announced(s) \cup {m.match.id}
              /\ AnnouncedOnce(s) /\ m.match.id \notin Announced(s) => AnnouncedOnce(s \o <<m>>)
<1> DEFINE t == s \o <<m>>
           n == Len(s) + 1
<1>1. /\ t \in Seq(LobbyMessages) /\ Len(s) \in Nat /\ Len(t) = n /\ t[n] = m
      /\ \A i \in 1 .. Len(s) : t[i] = s[i]
  OBVIOUS
<1>2. 1 .. Len(t) = (1 .. Len(s)) \cup {n} /\ n \notin 1 .. Len(s)
  BY <1>1
<1> HIDE DEF t, n
<1>3. CASE m.type # "match_found"
  <2>1. FoundAt(t) = FoundAt(s) /\ \A i \in FoundAt(s) : t[i] = s[i]
    BY <1>1, <1>2, <1>3 DEF FoundAt
  <2> QED BY <1>1, <1>3, <2>1 DEF t, Announced, AnnouncedOnce
<1>4. CASE m.type = "match_found"
  <2>1. FoundAt(t) = FoundAt(s) \cup {n} /\ n \notin FoundAt(s) /\ \A i \in FoundAt(s) : t[i] = s[i]
    BY <1>1, <1>2, <1>4 DEF FoundAt
  <2>2. Announced(t) = Announced(s) \cup {m.match.id}
    BY <1>1, <2>1 DEF Announced
  <2>3. AnnouncedOnce(s) /\ m.match.id \notin Announced(s) => AnnouncedOnce(t)
    BY <1>1, <2>1 DEF Announced, AnnouncedOnce
  <2> QED BY <1>1, <1>4, <2>2, <2>3 DEF t
<1> QED BY <1>3, <1>4

(* Fewer announcements and pairings leave the rest fresh; so do fewer calls. *)
LEMMA FewerFresh ==
  ASSUME NEW s, NEW P, NEW matched, NEW mounted, NEW C, NEW n, FreshNumbers(s, P, matched, mounted, C, n),
         NEW s2, NEW P2, NEW C2, AnnouncedOnce(s2), Announced(s2) \subseteq Announced(s),
         P2 \subseteq P, C2 \subseteq C
  PROVE  FreshNumbers(s2, P2, matched, mounted, C2, n)
BY DEF FreshNumbers, PendingOnce, Pending, TakenUp
(* The steps that leave the screen's match, its calls and the stakes alone. *)
LEMMA LobbyQuiet ==
  ASSUME LobbyInv, LobbyTypes', Unready',
         lobby'.matched = lobby.matched, lobby'.route = lobby.route,
         screen'.mount = screen.mount, screen'.sentCreate = screen.sentCreate,
         AnnouncedOnce(link'.down), Announced(link'.down) \subseteq Announced(link.down),
         seat'.pairing \subseteq seat.pairing, counts'.matches = counts.matches,
         UNCHANGED <<calls, created, unheard>>
  PROVE  LobbyInv'
<1>1. FreshOK'
  BY FewerFresh DEF LobbyInv, FreshOK
<1>2. CallsGuarded'
  BY DEF LobbyInv, CallsGuarded
<1>3. \A k \in 1 .. MaxMatches : Paid(k)'
  BY DEF LobbyInv, Paid
<1> QED BY <1>1, <1>2, <1>3 DEF LobbyInv

LEMMA MessagesTyped ==
  /\ QueueStatus \in LobbyMessages /\ QueueStatus.type # "match_found"
  /\ QueueLeft \in LobbyMessages /\ QueueLeft.type # "match_found"
  /\ \A p \in LobbyMatches : /\ MatchFound(p) \in LobbyMessages
                              /\ MatchFound(p).type = "match_found" /\ MatchFound(p).match = p
<1>1. NoMatch \in LobbyMatches
  BY DEF NoMatch, LobbyMatches
<1>2. QueueStatus \in LobbyMessages /\ QueueStatus.type # "match_found"
  BY <1>1 DEF QueueStatus, LobbyMessages
<1>3. QueueLeft \in LobbyMessages /\ QueueLeft.type # "match_found"
  BY <1>1 DEF QueueLeft, LobbyMessages
<1>4. \A p \in LobbyMatches : /\ MatchFound(p) \in LobbyMessages
                              /\ MatchFound(p).type = "match_found" /\ MatchFound(p).match = p
  BY DEF MatchFound, LobbyMessages
<1> QED BY <1>2, <1>3, <1>4

LEMMA LinkTyped ==
  ASSUME LobbyTypes, FreshOK
  PROVE  /\ link.up \in Seq(LobbyRequests) /\ link.down \in Seq(LobbyMessages)
         /\ AnnouncedOnce(link.down)
BY DEF LobbyTypes, FreshOK, FreshNumbers, PendingOnce

LEMMA ButtonsKeep ==
  ASSUME LobbyInv,
         CancelQueue \/ OpenModal \/ CloseModal \/ EnterQueue \/ AssignTimesOut
  PROVE  LobbyInv'
<1>1. /\ lobby' \in [queued : BOOLEAN, matched : LobbyMatches, ready : BOOLEAN,
                     modal : BOOLEAN, route : {"pvp", "play"}]
      /\ lobby'.matched = lobby.matched /\ lobby'.route = lobby.route
      /\ lobby.ready => lobby'.ready
  BY DEF LobbyInv, LobbyTypes, CancelQueue, OpenModal, CloseModal, EnterQueue, AssignTimesOut
<1>2. /\ link' \in [open : BOOLEAN, up : Seq(LobbyRequests), down : Seq(LobbyMessages)]
      /\ link'.down = link.down
  <2>1. \A m \in LobbyRequests : Sends(m) \in Seq(LobbyRequests)
    BY DEF LobbyInv, LobbyTypes, Sends
  <2>2. CASE CancelQueue \/ EnterQueue
    <3>1. PICK m \in LobbyRequests : link' = [link EXCEPT !.up = Sends(m)]
      BY <2>2 DEF CancelQueue, EnterQueue, LobbyRequests
    <3>2. Sends(m) \in Seq(LobbyRequests)
      BY <2>1
    <3> QED BY <3>1, <3>2 DEF LobbyInv, LobbyTypes
  <2>3. CASE OpenModal \/ CloseModal \/ AssignTimesOut
    BY <2>3 DEF LobbyInv, LobbyTypes, OpenModal, CloseModal, AssignTimesOut
  <2> QED BY <2>2, <2>3
<1>3. /\ screen' \in [mount : Nat, sentCreate : BOOLEAN, error : BOOLEAN]
      /\ screen'.mount = screen.mount /\ screen'.sentCreate = screen.sentCreate
  BY DEF LobbyInv, LobbyTypes, CancelQueue, OpenModal, CloseModal, EnterQueue, AssignTimesOut
<1>4. /\ counts' \in [matches : Nat, joins : Nat, calls : Nat, drops : Nat]
      /\ counts'.matches = counts.matches
      /\ UNCHANGED <<seat, calls, created, unheard>>
  <2>1. CASE EnterQueue
    <3>1. counts' = [counts EXCEPT !.joins = @ + 1] /\ counts.joins \in Nat
      BY <2>1 DEF LobbyInv, LobbyTypes, EnterQueue
    <3> QED BY <2>1, <3>1 DEF LobbyInv, LobbyTypes, EnterQueue
  <2>2. CASE CancelQueue \/ OpenModal \/ CloseModal \/ AssignTimesOut
    BY <2>2 DEF LobbyInv, LobbyTypes, CancelQueue, OpenModal, CloseModal, AssignTimesOut
  <2> QED BY <2>1, <2>2
<1>5. LobbyTypes'
  BY <1>1, <1>2, <1>3, <1>4 DEF LobbyInv, LobbyTypes
<1>6. Unready'
  <2>1. CASE lobby'.ready
    BY <1>1, <2>1 DEF LobbyInv, Unready
  <2>2. CASE ~lobby'.ready
    <3>1. ~lobby.ready
      BY <1>1, <2>2
    <3>2. OpenModal \/ CloseModal
      BY <2>2, <3>1 DEF LobbyInv, LobbyTypes, Unready, CancelQueue, EnterQueue, AssignTimesOut,
                        InDuel
    <3> QED BY <3>1, <3>2 DEF LobbyInv, LobbyTypes, Unready, OpenModal, CloseModal
  <2> QED BY <2>1, <2>2
<1> QED BY <1>1, <1>2, <1>3, <1>4, <1>5, <1>6, LinkTyped, LobbyQuiet DEF LobbyInv

LEMMA SocketKeeps == ASSUME LobbyInv, LobbyDrops \/ LobbyReopens PROVE LobbyInv'
<1>1. CASE LobbyDrops
  <2>1. /\ link' = Closed /\ seat' = NoSeat /\ counts' = [counts EXCEPT !.drops = @ + 1]
        /\ UNCHANGED <<lobby, screen, calls, created, unheard>>
    BY <1>1 DEF LobbyDrops
  <2>2. /\ Closed \in [open : BOOLEAN, up : Seq(LobbyRequests), down : Seq(LobbyMessages)]
        /\ Closed.up = <<>> /\ Closed.down = <<>>
    BY DEF Closed
  <2>3. /\ NoSeat \in [gates : Int, tier : BOOLEAN, lookups : Int, inQueue : BOOLEAN,
                       pairing : SUBSET LobbyMatches]
        /\ NoSeat.pairing = {}
    BY DEF NoSeat
  <2>4. /\ counts' \in [matches : Nat, joins : Nat, calls : Nat, drops : Nat]
        /\ counts'.matches = counts.matches
    <3>1. counts.drops + 1 \in Nat
      BY DEF LobbyInv, LobbyTypes
    <3> QED BY <2>1, <3>1 DEF LobbyInv, LobbyTypes
  <2>5. LobbyTypes'
    BY <2>1, <2>2, <2>3, <2>4 DEF LobbyInv, LobbyTypes
  <2>6. Unready'
    BY <2>1, <2>2 DEF LobbyInv, Unready
  <2>7. Announced(<<>>) = {} /\ AnnouncedOnce(<<>>)
    BY DEF Announced, AnnouncedOnce, FoundAt
  <2> QED BY <2>1, <2>2, <2>3, <2>4, <2>5, <2>6, <2>7, LobbyQuiet
<1>2. CASE LobbyReopens
  <2>1. /\ link' = [link EXCEPT !.open = TRUE]
        /\ UNCHANGED <<lobby, screen, seat, calls, created, unheard, counts>>
    BY <1>2 DEF LobbyReopens
  <2>2. /\ link' \in [open : BOOLEAN, up : Seq(LobbyRequests), down : Seq(LobbyMessages)]
        /\ link'.down = link.down /\ link'.up = link.up
    BY <2>1 DEF LobbyInv, LobbyTypes
  <2>3. LobbyTypes' /\ Unready'
    BY <2>1, <2>2 DEF LobbyInv, LobbyTypes, Unready
  <2> QED BY <2>1, <2>2, <2>3, LinkTyped, LobbyQuiet DEF LobbyInv
<1> QED BY <1>1, <1>2

-----------------------------------------------------------------------------
(* The server.  Whatever it does, somebody has joined.                      *)
LEMMA ServerQuiet ==
  ASSUME LobbyInv, ServerStep, lobby.ready,
         link' \in [open : BOOLEAN, up : Seq(LobbyRequests), down : Seq(LobbyMessages)],
         seat' \in [gates : Int, tier : BOOLEAN, lookups : Int, inQueue : BOOLEAN,
                    pairing : SUBSET LobbyMatches],
         AnnouncedOnce(link'.down), Announced(link'.down) \subseteq Announced(link.down),
         seat'.pairing \subseteq seat.pairing, counts' = counts
  PROVE  LobbyInv'
<1>1. LobbyTypes' /\ Unready'
  BY DEF LobbyInv, LobbyTypes, Unready, ServerStep
<1> QED BY <1>1, LobbyQuiet DEF ServerStep
LEMMA ReplyTyped ==
  ASSUME LobbyTypes, FreshOK, NEW m \in LobbyMessages, m.type # "match_found",
         NEW told \in {<<>>, <<m>>}, link'.down = link.down \o told
  PROVE  /\ link'.down \in Seq(LobbyMessages)
         /\ AnnouncedOnce(link'.down) /\ Announced(link'.down) = Announced(link.down)
<1>1. CASE told = <<>>
  <2>1. link.down \o <<>> = link.down
    BY LinkTyped
  <2> QED BY <1>1, <2>1, LinkTyped
<1>2. CASE told = <<m>>
  BY <1>2, LinkTyped, SendAnnounces
<1> QED BY <1>1, <1>2

(* A seat: what the gates, the lookups and a pairing leave of its type.     *)
Seats == [gates : Int, tier : BOOLEAN, lookups : Int, inQueue : BOOLEAN,
          pairing : SUBSET LobbyMatches]
Links == [open : BOOLEAN, up : Seq(LobbyRequests), down : Seq(LobbyMessages)]

LEMMA SeatTyped == LobbyTypes => seat \in Seats /\ link \in Links
BY DEF LobbyTypes, Seats, Links

LEMMA NoJoinNoSeat ==
  ASSUME LobbyInv, link.up # <<>> \/ seat.gates > 0 \/ seat.lookups > 0 \/ seat.inQueue
                     \/ seat.pairing # {}
  PROVE  lobby.ready
BY DEF LobbyInv, Unready, NoSeat

LEMMA JoinKeeps ==
  ASSUME LobbyInv, ReceiveJoin \/ GateRefuses \/ JoinQueue \/ LeaveQueue
  PROVE  LobbyInv'
<1>1. lobby.ready /\ ServerStep /\ counts' = counts
  BY NoJoinNoSeat DEF ReceiveJoin, GateRefuses, JoinQueue, LeaveQueue
<1>2. /\ seat \in Seats /\ link \in Links
      /\ link.up \in Seq(LobbyRequests) /\ link.down \in Seq(LobbyMessages)
      /\ AnnouncedOnce(link.down)
  BY SeatTyped, LinkTyped DEF LobbyInv
<1>3. seat' \in Seats /\ seat'.pairing = seat.pairing
  <2>1. CASE ReceiveJoin
    BY <1>2, <2>1 DEF ReceiveJoin, Seats
  <2>2. CASE GateRefuses
    BY <1>2, <2>2 DEF GateRefuses, Seats
  <2>3. CASE JoinQueue
    <3>1. seat' = [gates |-> seat.gates - 1, tier |-> TRUE, lookups |-> seat.lookups + 1,
                   inQueue |-> seat.inQueue /\ ~seat.tier, pairing |-> seat.pairing]
      BY <1>2, <2>3 DEF JoinQueue, Seats
    <3> QED BY <1>2, <3>1 DEF Seats
  <2>4. CASE LeaveQueue
    <3>1. seat' = [gates |-> seat.gates, tier |-> FALSE, lookups |-> seat.lookups,
                   inQueue |-> seat.inQueue /\ ~seat.tier, pairing |-> seat.pairing]
      BY <1>2, <2>4 DEF LeaveQueue, Seats
    <3> QED BY <1>2, <3>1 DEF Seats
  <2> QED BY <2>1, <2>2, <2>3, <2>4
<1>4. CASE ReceiveJoin \/ GateRefuses
  <2>1. link' \in Links /\ link'.down = link.down
    <3>1. link.up # <<>> => Tail(link.up) \in Seq(LobbyRequests)
      BY <1>2
    <3> QED BY <1>2, <1>4, <3>1 DEF ReceiveJoin, GateRefuses, Links
  <2> QED BY <1>1, <1>2, <1>3, <2>1, ServerQuiet DEF Seats, Links
<1>5. CASE JoinQueue \/ LeaveQueue
  <2>1. PICK sent \in {<<>>, <<QueueLeft>>} :
          \/ link' = [link EXCEPT !.down = @ \o sent]
          \/ link.up # <<>> /\ link' = [link EXCEPT !.up = Tail(@), !.down = @ \o sent]
    BY <1>5 DEF JoinQueue, LeaveQueue, Replies
  <2>2. link'.down = link.down \o sent
    BY <1>2, <2>1 DEF Links
  <2>3. /\ link'.down \in Seq(LobbyMessages) /\ AnnouncedOnce(link'.down)
        /\ Announced(link'.down) = Announced(link.down)
    BY <2>2, MessagesTyped, ReplyTyped DEF LobbyInv
  <2>4. link.down \o sent \in Seq(LobbyMessages)
    BY <2>2, <2>3
  <2>5. link' \in Links
    <3>1. link.up # <<>> => Tail(link.up) \in Seq(LobbyRequests)
      BY <1>2
    <3> DEFINE down == link.down \o sent
    <3>2. /\ down \in Seq(LobbyMessages)
          /\ \/ link' = [link EXCEPT !.down = down]
             \/ link.up # <<>> /\ link' = [link EXCEPT !.up = Tail(link.up), !.down = down]
      BY <2>1, <2>4
    <3> HIDE DEF down
    <3> QED BY <1>2, <3>1, <3>2 DEF Links
  <2> QED BY <1>1, <1>3, <2>3, <2>5, ServerQuiet DEF Seats, Links
<1> QED BY <1>4, <1>5
(* A pairing gets a number that nobody has spoken of.                       *)
LEMMA PairsKeep ==
  ASSUME LobbyInv, lobby.ready, ServerStep, NEW role \in Roles, NEW next \in Seats,
         next.pairing = seat.pairing, Pairs(role, next)
  PROVE  LobbyInv'
<1> DEFINE n == counts.matches + 1
           p == [id |-> n, role |-> role]
<1>1. counts.matches \in Nat /\ n \in Nat /\ p \in LobbyMatches /\ p.id = n
  BY DEF LobbyInv, LobbyTypes, LobbyMatches
<1>2. /\ counts' = [counts EXCEPT !.matches = n] /\ counts'.matches = n
      /\ counts' \in [matches : Nat, joins : Nat, calls : Nat, drops : Nat]
  BY <1>1 DEF Pairs, LobbyInv, LobbyTypes
<1> HIDE DEF p
<1>3. seat' = [next EXCEPT !.tier = FALSE, !.pairing = seat.pairing \cup {p}]
  BY <1>2 DEF Pairs, p
<1>4. seat' \in Seats /\ seat'.pairing = seat.pairing \cup {p}
  <2> DEFINE P == seat.pairing \cup {p}
  <2>1. P \subseteq LobbyMatches
    BY <1>1, SeatTyped DEF LobbyInv, Seats
  <2>2. seat' = [next EXCEPT !.tier = FALSE, !.pairing = P]
    BY <1>3
  <2> HIDE DEF P
  <2>3. seat' \in Seats /\ seat'.pairing = P
    BY <2>1, <2>2 DEF Seats
  <2> QED BY <2>3 DEF P
<1> HIDE DEF n
<1>5. UNCHANGED <<lobby, screen, link, calls, created, unheard>>
  BY DEF Pairs, ServerStep
<1>6. LobbyTypes'
  BY <1>2, <1>4, <1>5 DEF LobbyInv, LobbyTypes, Seats
<1>7. Unready'
  BY <1>5 DEF LobbyInv, Unready
<1>8. FreshOK'
  <2>1. \A k \in Pending(link.down, seat.pairing)
                  \cup TakenUp(lobby.matched, screen.mount, calls) : k # n /\ k \in 0 .. n
    BY <1>1 DEF LobbyInv, FreshOK, FreshNumbers, n
  <2>2. Pending(link.down, seat'.pairing) = Pending(link.down, seat.pairing) \cup {n}
    BY <1>1, <1>4 DEF Pending
  <2>3. PendingOnce(link.down, seat'.pairing)
    <3>1. n \notin Announced(link.down) /\ \A q \in seat.pairing : q.id # n
      BY <2>1 DEF Pending
    <3> QED BY <1>1, <1>4, <3>1 DEF LobbyInv, FreshOK, FreshNumbers, PendingOnce
  <2>4. \A k \in Pending(link.down, seat'.pairing) : k \in 1 .. n
    BY <1>1, <2>2 DEF LobbyInv, FreshOK, FreshNumbers, n
  <2>5. \A k \in TakenUp(lobby.matched, screen.mount, calls) : k \in 0 .. n /\ k # n
    BY <2>1
  <2>6. Pending(link.down, seat'.pairing) \cap TakenUp(lobby.matched, screen.mount, calls) = {}
    BY <2>2, <2>5 DEF LobbyInv, FreshOK, FreshNumbers
  <2>7. FreshNumbers(link.down, seat'.pairing, lobby.matched, screen.mount, calls, n)
    BY <2>3, <2>4, <2>5, <2>6 DEF FreshNumbers
  <2> QED BY <1>2, <1>5, <2>7 DEF FreshOK
<1>9. CallsGuarded' /\ \A k \in 1 .. MaxMatches : Paid(k)'
  BY <1>5 DEF LobbyInv, CallsGuarded, Paid
<1> QED BY <1>6, <1>7, <1>8, <1>9 DEF LobbyInv

LEMMA LookupKeeps == ASSUME LobbyInv, LookupEnds \/ Paired PROVE LobbyInv'
<1> DEFINE ended == [seat EXCEPT !.lookups = @ - 1]
<1>1. lobby.ready /\ ServerStep /\ seat \in Seats
  BY NoJoinNoSeat, SeatTyped DEF LobbyInv, LookupEnds, Paired
<1>2. ended \in Seats /\ ended.pairing = seat.pairing /\ ended.inQueue = seat.inQueue
  BY <1>1 DEF Seats
<1>3. /\ [seat EXCEPT !.inQueue = FALSE] \in Seats
      /\ [seat EXCEPT !.inQueue = FALSE].pairing = seat.pairing
  BY <1>1 DEF Seats
<1>4. CASE Paired
  <2>1. PICK role \in Roles : Pairs(role, [seat EXCEPT !.inQueue = FALSE])
    BY <1>4 DEF Paired
  <2> QED BY <1>1, <1>3, <2>1, PairsKeep
<1>5. CASE LookupEnds
  <2>1. CASE Pairs("challenger", ended)
    BY <1>1, <1>2, <2>1, PairsKeep DEF Roles
  <2>2. ASSUME seat' = [ended EXCEPT !.inQueue = @ \/ seat.tier],
               Replies(IF seat.tier THEN <<QueueStatus>> ELSE <<>>), counts' = counts
        PROVE  LobbyInv'
    <3>1. seat' \in Seats /\ seat'.pairing = seat.pairing
      BY <1>1, <1>2, <2>2 DEF Seats
    <3>2. PICK sent \in {<<>>, <<QueueStatus>>} : link' = [link EXCEPT !.down = @ \o sent]
      BY <2>2 DEF Replies
    <3>3. link'.down = link.down \o sent
      BY <3>2, SeatTyped DEF LobbyInv, Links
    <3>4. /\ link'.down \in Seq(LobbyMessages) /\ AnnouncedOnce(link'.down)
          /\ Announced(link'.down) = Announced(link.down)
      BY <3>3, MessagesTyped, ReplyTyped DEF LobbyInv
    <3>5. link' \in Links
      BY <3>2, <3>3, <3>4, SeatTyped DEF LobbyInv, Links
    <3> QED BY <1>1, <2>2, <3>1, <3>4, <3>5, ServerQuiet DEF Seats, Links
  <2> QED BY <1>5, <2>1, <2>2 DEF LookupEnds
<1> QED BY <1>4, <1>5

LEMMA DeckKeeps ==
  ASSUME LobbyInv, NEW p \in seat.pairing, PairDeckReady(p) \/ PairDeckFails(p)
  PROVE  LobbyInv'
<1>1. /\ lobby.ready /\ ServerStep /\ counts' = counts
      /\ seat \in Seats /\ link \in Links /\ p \in LobbyMatches
  <2>1. seat.pairing # {}
    OBVIOUS
  <2>2. lobby.ready
    BY <2>1, NoJoinNoSeat
  <2> QED BY <2>2, SeatTyped DEF LobbyInv, PairDeckReady, PairDeckFails, Seats
<1> DEFINE P == seat.pairing \ {p}
<1>2. CASE PairDeckFails(p)
  <2>1. seat' = [gates |-> seat.gates, tier |-> TRUE, lookups |-> seat.lookups,
                 inQueue |-> seat.inQueue \/ ~seat.tier, pairing |-> P]
    BY <1>1, <1>2 DEF PairDeckFails, Seats
  <2>2. seat' \in Seats /\ seat'.pairing \subseteq seat.pairing
    BY <1>1, <2>1 DEF Seats
  <2>3. PICK sent \in {<<>>, <<QueueStatus>>} : link' = [link EXCEPT !.down = @ \o sent]
    BY <1>2 DEF PairDeckFails, Replies
  <2>4. link'.down = link.down \o sent
    BY <1>1, <2>3 DEF Links
  <2>5. /\ link'.down \in Seq(LobbyMessages) /\ AnnouncedOnce(link'.down)
        /\ Announced(link'.down) = Announced(link.down)
    BY <2>4, MessagesTyped, ReplyTyped DEF LobbyInv
  <2>6. link' \in Links
    BY <1>1, <2>3, <2>4, <2>5 DEF Links
  <2> QED BY <1>1, <2>2, <2>5, <2>6, ServerQuiet DEF Seats, Links
<1>3. CASE PairDeckReady(p)
  <2> DEFINE down == link.down \o <<MatchFound(p)>>
  <2>1. /\ link' = [link EXCEPT !.down = down] /\ seat' = [seat EXCEPT !.pairing = P]
        /\ UNCHANGED <<lobby, screen, calls, created, unheard, counts>>
    BY <1>3 DEF PairDeckReady, Replies, ServerStep
  <2>2. p.id \notin Announced(link.down) /\ \A q \in P : q.id # p.id
    BY DEF LobbyInv, FreshOK, FreshNumbers, PendingOnce
  <2>3. /\ down \in Seq(LobbyMessages) /\ AnnouncedOnce(down)
        /\ Announced(down) = Announced(link.down) \cup {p.id}
    BY <1>1, <2>2, LinkTyped, MessagesTyped, SendAnnounces DEF LobbyInv
  <2> HIDE DEF down
  <2>4. link' \in Links /\ link'.down = down /\ link'.up = link.up
    BY <1>1, <2>1, <2>3 DEF Links
  <2>5. seat' \in Seats /\ seat'.pairing = P
    BY <1>1, <2>1 DEF Seats
  <2>6. LobbyTypes' /\ Unready'
    BY <1>1, <2>1, <2>4, <2>5 DEF LobbyInv, LobbyTypes, Unready, Seats, Links
  <2>7. Pending(down, P) = Pending(link.down, seat.pairing)
    BY <2>3 DEF Pending
  <2>8. PendingOnce(down, P)
    BY <2>2, <2>3 DEF LobbyInv, FreshOK, FreshNumbers, PendingOnce
  <2>9. FreshNumbers(down, P, lobby.matched, screen.mount, calls, counts.matches)
    BY <2>7, <2>8 DEF LobbyInv, FreshOK, FreshNumbers
  <2>10. FreshOK'
    BY <2>1, <2>4, <2>5, <2>9 DEF FreshOK
  <2>11. CallsGuarded' /\ \A k \in 1 .. MaxMatches : Paid(k)'
    BY <2>1 DEF LobbyInv, CallsGuarded, Paid
  <2> QED BY <2>6, <2>10, <2>11 DEF LobbyInv
<1> QED BY <1>2, <1>3

-----------------------------------------------------------------------------
(* The screen.                                                             *)

(* A match that is announced is not on screen and nothing was called for it. *)
LEMMA ReceiveKeeps == ASSUME LobbyInv, ReceiveLobby PROVE LobbyInv'
<1> DEFINE msg == Head(link.down)
           k == msg.match.id
<1>1. /\ msg \in LobbyMessages /\ Tail(link.down) \in Seq(LobbyMessages)
      /\ Announced(Tail(link.down)) \subseteq Announced(link.down)
      /\ AnnouncedOnce(Tail(link.down))
      /\ msg.type = "match_found" => k \in Announced(link.down) \ Announced(Tail(link.down))
  BY LinkTyped, TailAnnounces DEF LobbyInv, ReceiveLobby
<1>2. /\ link' \in Links /\ link'.down = Tail(link.down) /\ link'.up = link.up
  BY <1>1, SeatTyped DEF LobbyInv, ReceiveLobby, Links
<1>3. lobby.ready
  BY DEF LobbyInv, Unready, ReceiveLobby
<1>4. UNCHANGED <<seat, calls, created, unheard, counts>>
  BY DEF ReceiveLobby
<1>5. msg.match \in LobbyMatches
  BY <1>1 DEF LobbyMessages
<1> HIDE DEF msg
<1>6. ASSUME lobby'.matched = lobby.matched, lobby'.route = lobby.route, lobby'.ready,
             lobby' \in [queued : BOOLEAN, matched : LobbyMatches, ready : BOOLEAN,
                         modal : BOOLEAN, route : {"pvp", "play"}]
      PROVE  LobbyInv'
  <2>1. screen' = screen
    BY <1>3, <1>6 DEF ReceiveLobby, Mounts, InDuel, OnScreen
  <2>2. LobbyTypes'
    BY <1>2, <1>4, <1>6, <2>1 DEF LobbyInv, LobbyTypes, Links
  <2>3. Unready'
    BY <1>6 DEF LobbyInv, Unready
  <2> QED BY <1>1, <1>2, <1>4, <1>6, <2>1, <2>2, <2>3, LobbyQuiet
<1>7. CASE ~OnScreen
  <2>1. lobby' = lobby
    BY <1>7 DEF ReceiveLobby
  <2> QED BY <1>3, <1>6, <2>1 DEF LobbyInv, LobbyTypes
<1>8. CASE OnScreen /\ msg.type = "queue_status"
  <2>1. lobby' = [lobby EXCEPT !.queued = TRUE]
    BY <1>8 DEF ReceiveLobby, msg
  <2> QED BY <1>3, <1>6, <2>1 DEF LobbyInv, LobbyTypes
<1>9. CASE OnScreen /\ msg.type = "queue_left"
  <2>1. lobby' = [lobby EXCEPT !.queued = FALSE]
    BY <1>9 DEF ReceiveLobby, msg
  <2> QED BY <1>3, <1>6, <2>1 DEF LobbyInv, LobbyTypes
<1>10. CASE OnScreen /\ msg.type = "match_found"
  <2>1. lobby' = [lobby EXCEPT !.matched = msg.match]
    BY <1>10 DEF ReceiveLobby, msg
  <2>2. /\ lobby' \in [queued : BOOLEAN, matched : LobbyMatches, ready : BOOLEAN,
                       modal : BOOLEAN, route : {"pvp", "play"}]
        /\ lobby'.matched = msg.match /\ lobby'.ready /\ lobby'.route = lobby.route
    BY <1>3, <1>5, <2>1 DEF LobbyInv, LobbyTypes
  <2>3. /\ k \in Nat /\ k >= 1 /\ k \in Pending(link.down, seat.pairing)
        /\ k \notin Pending(Tail(link.down), seat.pairing)
    <3>1. k \in Announced(link.down) /\ k \notin Announced(Tail(link.down))
      BY <1>1, <1>10
    <3>2. \A p \in seat.pairing : p.id # k
      BY <3>1 DEF LobbyInv, FreshOK, FreshNumbers, PendingOnce
    <3>3. k \in Pending(link.down, seat.pairing) /\ k \notin Pending(Tail(link.down), seat.pairing)
      BY <3>1, <3>2 DEF Pending
    <3> QED BY <3>3 DEF LobbyInv, LobbyTypes, FreshOK, FreshNumbers
  <2>4. /\ k # screen.mount /\ k # lobby.matched.id
        /\ \A c \in calls : c.match # k /\ c.mount # k
    BY <2>3 DEF LobbyInv, FreshOK, FreshNumbers, TakenUp
  <2>5. screen' \in {screen, [mount |-> k, sentCreate |-> FALSE, error |-> FALSE]}
    BY <2>2 DEF ReceiveLobby, Mounts
  <2> HIDE DEF k
  <2>6. /\ screen' \in [mount : Nat, sentCreate : BOOLEAN, error : BOOLEAN]
        /\ screen' = screen \/ screen'.mount = k
    <3>1. CASE screen' = screen
      BY <3>1 DEF LobbyInv, LobbyTypes
    <3>2. CASE screen' = [mount |-> k, sentCreate |-> FALSE, error |-> FALSE]
      BY <2>3, <3>2
    <3> QED BY <2>5, <3>1, <3>2
  <2>7. lobby'.matched.id = k
    BY <2>2 DEF k
  <2>8. LobbyTypes' /\ Unready'
    BY <1>2, <1>4, <2>2, <2>3, <2>6, <2>7 DEF LobbyInv, LobbyTypes, Unready, Links
  <2>9. FreshOK'
    <3>1. TakenUp(lobby'.matched, screen'.mount, calls)
            \subseteq TakenUp(lobby.matched, screen.mount, calls) \cup {k}
      BY <2>6, <2>7 DEF TakenUp
    <3>2. Pending(Tail(link.down), seat.pairing) \subseteq Pending(link.down, seat.pairing) \ {k}
      BY <1>1, <2>3 DEF Pending
    <3>3. PendingOnce(Tail(link.down), seat.pairing)
      BY <1>1 DEF LobbyInv, FreshOK, FreshNumbers, PendingOnce
    <3>4. k \in 0 .. counts.matches
      BY <2>3 DEF LobbyInv, FreshOK, FreshNumbers
    <3>5. FreshNumbers(Tail(link.down), seat.pairing, lobby'.matched, screen'.mount, calls, counts.matches)
      BY <3>1, <3>2, <3>3, <3>4 DEF LobbyInv, FreshOK, FreshNumbers
    <3> QED BY <1>2, <1>4, <3>5 DEF FreshOK
  <2>10. CallsGuarded'
    BY <1>4, <2>4, <2>6, <2>7 DEF LobbyInv, CallsGuarded
  <2>11. \A n \in 1 .. MaxMatches : Paid(n)'
    BY <1>4, <2>2 DEF LobbyInv, Paid
  <2> QED BY <2>8, <2>9, <2>10, <2>11 DEF LobbyInv
<1> QED BY <1>1, <1>7, <1>8, <1>9, <1>10 DEF LobbyMessages

LEMMA ExitKeeps == ASSUME LobbyInv, Exit PROVE LobbyInv'
<1>1. /\ lobby' = [lobby EXCEPT !.matched = NoMatch, !.queued = FALSE] /\ lobby.ready
      /\ UNCHANGED <<screen, link, seat, calls, created, unheard, counts>>
  BY DEF Exit, InDuel
<1>2. NoMatch \in LobbyMatches /\ NoMatch.id = 0
  BY DEF NoMatch, LobbyMatches
<1> HIDE DEF NoMatch
<1>3. /\ lobby' \in [queued : BOOLEAN, matched : LobbyMatches, ready : BOOLEAN,
                     modal : BOOLEAN, route : {"pvp", "play"}]
      /\ lobby'.matched = NoMatch /\ lobby'.route = lobby.route /\ lobby'.ready
  BY <1>1, <1>2 DEF LobbyInv, LobbyTypes
<1>4. LobbyTypes' /\ Unready'
  BY <1>1, <1>3 DEF LobbyInv, LobbyTypes, Unready
<1>5. FreshOK'
  <2>1. TakenUp(NoMatch, screen.mount, calls) \subseteq TakenUp(lobby.matched, screen.mount, calls)
                                                      \cup {0}
    BY <1>2 DEF TakenUp
  <2>2. 0 \in 0 .. counts.matches /\ 0 \notin Pending(link.down, seat.pairing)
    BY DEF LobbyInv, LobbyTypes, FreshOK, FreshNumbers
  <2> QED BY <1>1, <1>3, <2>1, <2>2 DEF LobbyInv, FreshOK, FreshNumbers
<1>6. CallsGuarded'
  BY <1>1, <1>2, <1>3 DEF LobbyInv, LobbyTypes, LobbyCalls, CallsGuarded
<1>7. \A k \in 1 .. MaxMatches : Paid(k)'
  BY <1>1, <1>3 DEF LobbyInv, Paid
<1> QED BY <1>4, <1>5, <1>6, <1>7 DEF LobbyInv
-----------------------------------------------------------------------------
(* The calls.                                                              *)
LEMMA AskKeeps == ASSUME LobbyInv, AskCreate PROVE LobbyInv'
<1> DEFINE k == lobby.matched.id
           n == counts.calls + 1
           call == [id |-> n, match |-> k, mount |-> screen.mount, at |-> "wallet"]
<1>1. /\ lobby.route = "pvp" /\ lobby.matched # NoMatch /\ ~screen.sentCreate
      /\ k \in Nat /\ k >= 1 /\ n \in Nat
  BY DEF AskCreate, InDuel, OnScreen, MayCreate, LobbyInv, LobbyTypes, LobbyMatches, Unready
<1>2. /\ counts' = [counts EXCEPT !.calls = n] /\ calls' = calls \cup {call}
      /\ screen' = [screen EXCEPT !.sentCreate = TRUE]
      /\ UNCHANGED <<lobby, link, seat, created, unheard>>
  <2>1. counts' = [counts EXCEPT !.calls = n]
    BY DEF AskCreate
  <2>2. counts'.calls = n
    BY <2>1 DEF LobbyInv, LobbyTypes
  <2> QED BY <2>1, <2>2 DEF AskCreate
<1> HIDE DEF n
<1>3. call \in LobbyCalls /\ call.match = k /\ call.mount = screen.mount /\ call.at = "wallet"
  BY <1>1 DEF LobbyCalls, LobbyInv, LobbyTypes
<1> HIDE DEF call
<1>4. /\ counts' \in [matches : Nat, joins : Nat, calls : Nat, drops : Nat]
      /\ counts'.matches = counts.matches
      /\ screen' \in [mount : Nat, sentCreate : BOOLEAN, error : BOOLEAN]
      /\ screen'.mount = screen.mount /\ screen'.sentCreate = TRUE
  BY <1>1, <1>2 DEF LobbyInv, LobbyTypes
<1>5. \A c \in calls : c.match # k /\ c.mount # screen.mount
  BY <1>1 DEF LobbyInv, CallsGuarded
<1>6. LobbyTypes' /\ Unready'
  BY <1>2, <1>3, <1>4 DEF LobbyInv, LobbyTypes, Unready
<1>7. FreshOK'
  <2>1. TakenUp(lobby.matched, screen.mount, calls') = TakenUp(lobby.matched, screen.mount, calls)
    BY <1>2, <1>3 DEF TakenUp
  <2> QED BY <1>2, <1>4, <2>1 DEF LobbyInv, FreshOK, FreshNumbers
<1>8. CallsGuarded'
  BY <1>1, <1>2, <1>3, <1>4, <1>5 DEF LobbyInv, CallsGuarded
<1>9. \A m \in 1 .. MaxMatches : Paid(m)'
  BY <1>1, <1>2, <1>3, <1>5 DEF LobbyInv, Paid
<1> QED BY <1>6, <1>7, <1>8, <1>9 DEF LobbyInv

LEMMA FailKeeps ==
  ASSUME LobbyInv, NEW call \in calls, CreateFails(call)
  PROVE  LobbyInv'
<1> DEFINE k == call.match
<1>1. /\ calls' = calls \ {call}
      /\ UNCHANGED <<lobby, link, seat, created, counts>>
      /\ unheard' = [unheard EXCEPT ![k] = unheard[k] + (IF call.at = "landed" THEN 1 ELSE 0)]
  BY DEF CreateFails
<1>2. /\ screen' \in [mount : Nat, sentCreate : BOOLEAN, error : BOOLEAN]
      /\ screen'.mount = screen.mount
      /\ screen.mount # call.mount => screen'.sentCreate = screen.sentCreate
  <2>1. screen \in [mount : Nat, sentCreate : BOOLEAN, error : BOOLEAN]
    BY DEF LobbyInv, LobbyTypes
  <2>2. CASE screen.mount = call.mount
    <3>1. screen' = [screen EXCEPT !.sentCreate = FALSE, !.error = TRUE]
      BY <2>2 DEF CreateFails, Fails
    <3> QED BY <2>1, <2>2, <3>1
  <2>3. CASE screen.mount # call.mount
    BY <2>1, <2>3 DEF CreateFails, Fails
  <2> QED BY <2>2, <2>3
<1>3. \A m \in 1 .. MaxMatches :
        /\ created[m] \in Nat /\ unheard[m] \in Nat /\ unheard'[m] \in Nat
        /\ m # k => unheard'[m] = unheard[m]
        /\ m = k => unheard'[m] = unheard[m] + (IF call.at = "landed" THEN 1 ELSE 0)
  BY <1>1 DEF LobbyInv, LobbyTypes
<1>4. unheard' \in [1 .. MaxMatches -> Nat]
  BY <1>1, <1>3 DEF LobbyInv, LobbyTypes
<1>5. LobbyTypes' /\ Unready'
  BY <1>1, <1>2, <1>4 DEF LobbyInv, LobbyTypes, Unready
<1>6. FreshOK'
  <2>1. FreshNumbers(link.down, seat.pairing, lobby.matched, screen.mount, calls', counts.matches)
    BY <1>1, FewerFresh, LinkTyped DEF LobbyInv, FreshOK
  <2> QED BY <1>1, <1>2, <2>1 DEF FreshOK
<1>7. CallsGuarded'
  BY <1>1, <1>2 DEF LobbyInv, CallsGuarded
<1>8. \A m \in 1 .. MaxMatches : Paid(m)'
  <2> SUFFICES ASSUME NEW m \in 1 .. MaxMatches PROVE Paid(m)'
    OBVIOUS
  <2>1. Paid(m) /\ call \in LobbyCalls
    BY DEF LobbyInv, LobbyTypes
  <2>2. CASE m = k
    <3>1. \A c \in calls' : c.match # k
      BY <1>1 DEF LobbyInv, CallsGuarded
    <3>2. created[m] <= unheard'[m]
      BY <1>3, <2>1, <2>2 DEF Paid, LobbyCalls
    <3> QED BY <1>1, <1>3, <2>2, <3>1, <3>2 DEF Paid
  <2>3. CASE m # k
    BY <1>1, <1>3, <2>1, <2>3 DEF Paid
  <2> QED BY <2>2, <2>3
<1> QED BY <1>5, <1>6, <1>7, <1>8 DEF LobbyInv

LEMMA LandKeeps ==
  ASSUME LobbyInv, NEW call \in calls, CreateLands(call)
  PROVE  LobbyInv'
<1> DEFINE k == call.match
           landed == [call EXCEPT !.at = "landed"]
<1>1. /\ calls' = (calls \ {call}) \cup {landed} /\ call.at = "wallet"
      /\ UNCHANGED <<lobby, screen, link, seat, unheard, counts>>
      /\ created' = [created EXCEPT ![k] = created[k] + 1]
  BY DEF CreateLands
<1>2. call \in LobbyCalls
  BY DEF LobbyInv, LobbyTypes
<1>3. /\ landed \in LobbyCalls /\ landed.match = k /\ landed.mount = call.mount
      /\ landed.at = "landed"
  BY <1>2 DEF LobbyCalls
<1> HIDE DEF landed
<1>4. \A m \in 1 .. MaxMatches :
        /\ created[m] \in Nat /\ unheard[m] \in Nat /\ created'[m] \in Nat
        /\ created'[m] = IF m = k THEN created[m] + 1 ELSE created[m]
  BY <1>1 DEF LobbyInv, LobbyTypes
<1>5. created' \in [1 .. MaxMatches -> Nat]
  BY <1>1, <1>4 DEF LobbyInv, LobbyTypes
<1>6. LobbyTypes' /\ Unready'
  BY <1>1, <1>3, <1>5 DEF LobbyInv, LobbyTypes, Unready
<1>7. FreshOK'
  <2>1. TakenUp(lobby.matched, screen.mount, calls') = TakenUp(lobby.matched, screen.mount, calls)
    BY <1>1, <1>3 DEF TakenUp
  <2> QED BY <1>1, <2>1 DEF LobbyInv, FreshOK, FreshNumbers
<1>8. CallsGuarded'
  BY <1>1, <1>3 DEF LobbyInv, CallsGuarded
<1>9. \A m \in 1 .. MaxMatches : Paid(m)'
  <2> SUFFICES ASSUME NEW m \in 1 .. MaxMatches PROVE Paid(m)'
    OBVIOUS
  <2>1. Paid(m)
    BY DEF LobbyInv
  <2>2. CASE m = k
    <3>1. \A c \in calls' : c.match = k => c = landed
      BY <1>1 DEF LobbyInv, CallsGuarded
    <3>2. landed \in calls' /\ created[m] <= unheard[m]
      BY <1>1, <2>1, <2>2 DEF Paid
    <3> QED BY <1>1, <1>3, <1>4, <2>2, <3>1, <3>2 DEF Paid
  <2>3. CASE m # k
    <3>1. \A c \in calls' : c.match = m => c \in calls
      BY <1>1, <1>3, <2>3
    <3>2. (\A c \in calls' : c.match # m) => \A c \in calls : c.match # m
      BY <1>1, <2>3
    <3> QED BY <1>1, <1>4, <2>1, <2>3, <3>1, <3>2 DEF Paid
  <2> QED BY <2>2, <2>3
<1> QED BY <1>6, <1>7, <1>8, <1>9 DEF LobbyInv

LEMMA SucceedKeeps ==
  ASSUME LobbyInv, NEW call \in calls, CreateSucceeds(call)
  PROVE  LobbyInv'
<1>1. /\ calls' = calls \ {call} /\ lobby' = [lobby EXCEPT !.route = "play"]
      /\ UNCHANGED <<screen, link, seat, created, unheard, counts>>
  BY DEF CreateSucceeds
<1>2. /\ lobby' \in [queued : BOOLEAN, matched : LobbyMatches, ready : BOOLEAN,
                     modal : BOOLEAN, route : {"pvp", "play"}]
      /\ lobby'.matched = lobby.matched /\ lobby'.ready = lobby.ready
      /\ lobby'.queued = lobby.queued /\ lobby'.route = "play"
  BY <1>1 DEF LobbyInv, LobbyTypes
<1>3. LobbyTypes' /\ Unready'
  BY <1>1, <1>2 DEF LobbyInv, LobbyTypes, Unready
<1>4. FreshOK'
  <2>1. FreshNumbers(link.down, seat.pairing, lobby.matched, screen.mount, calls', counts.matches)
    BY <1>1, FewerFresh, LinkTyped DEF LobbyInv, FreshOK
  <2> QED BY <1>1, <1>2, <2>1 DEF FreshOK
<1>5. CallsGuarded' /\ \A m \in 1 .. MaxMatches : Paid(m)'
  BY <1>1, <1>2 DEF LobbyInv, CallsGuarded, Paid
<1> QED BY <1>3, <1>4, <1>5 DEF LobbyInv

LEMMA LobbyKept == LobbyInv /\ [LobbyNext]_lobbyVars => LobbyInv'
<1> SUFFICES ASSUME LobbyInv, [LobbyNext]_lobbyVars PROVE LobbyInv'
  OBVIOUS
<1>1. CASE UNCHANGED lobbyVars
  BY <1>1 DEF lobbyVars, LobbyInv, LobbyTypes, FreshOK, CallsGuarded, Unready, Paid
<1> QED BY <1>1, ButtonsKeep, SocketKeeps, JoinKeeps, LookupKeeps, DeckKeeps, ReceiveKeeps,
           ExitKeeps, AskKeeps, FailKeeps, LandKeeps, SucceedKeeps DEF LobbyNext

(* A creator escrows once per match: the create_duel effect of ActiveDuel,  *)
(* which runs on every render, never has two calls open for one match, and  *)
(* what it creates beyond one duel is what landed without its hearing of it. *)
THEOREM OneStakePerMatch == LobbySpec => []StakedOnce
BY LobbyStarts, LobbyKept, LobbyHolds, PTL DEF LobbySpec

(* What the type says beyond LobbyTypes: each queue_join is on the wire, at *)
(* a gate or at its rating lookup, at one of them at most, so that these    *)
(* are no more than were sent; and what was announced is of a pairing.      *)
Asked(up) == {i \in DOMAIN up : up[i] = "queue_join"}
Asking(up) == Cardinality(Asked(up))
SeatBound(s, up, joins) ==
  s.gates \in Nat /\ s.lookups \in Nat /\ s.gates + s.lookups + Asking(up) <= joins
LobbyPackets == {QueueStatus, QueueLeft} \cup {MatchFound(p) : p \in Pairings}

LobbyBounds ==
  /\ counts.matches <= MaxMatches /\ counts.joins <= MaxJoins
  /\ SeatBound(seat, link.up, counts.joins) /\ seat.pairing \subseteq Pairings
  /\ link.down \in Seq(LobbyPackets)
  /\ lobby.matched \in Pairings \cup {NoMatch}
  /\ wallet.balance \in Nat /\ wallet.allowance \in Nat

LEMMA AskedFinite ==
  ASSUME NEW up \in Seq(LobbyRequests)
  PROVE  IsFiniteSet(Asked(up)) /\ Asking(up) \in Nat
<1>1. IsFiniteSet(1 .. Len(up)) /\ Asked(up) \subseteq 1 .. Len(up)
  BY FS_Interval DEF Asked
<1>2. IsFiniteSet(Asked(up))
  BY <1>1, FS_Subset
<1> QED BY <1>2, FS_CardinalityType DEF Asking

LEMMA NothingAsked == Asking(<<>>) = 0
<1>1. Asked(<<>>) = {}
  BY DEF Asked
<1> QED BY <1>1, FS_EmptySet DEF Asking

LEMMA SentAsks ==
  ASSUME NEW up \in Seq(LobbyRequests), NEW m \in LobbyRequests
  PROVE  /\ Asking(Append(up, m)) <= Asking(up) + 1
         /\ m # "queue_join" => Asking(Append(up, m)) = Asking(up)
<1> PICK longer : longer = Append(up, m)
  OBVIOUS
<1>1. /\ Len(up) \in Nat /\ DOMAIN longer = 1 .. Len(up) + 1 /\ DOMAIN up = 1 .. Len(up)
      /\ longer[Len(up) + 1] = m /\ \A i \in 1 .. Len(up) : longer[i] = up[i]
      /\ longer = Append(up, m)
  OBVIOUS
<1>2. IsFiniteSet(Asked(up)) /\ Asking(up) \in Nat /\ Len(up) + 1 \notin Asked(up)
  <2>1. Len(up) + 1 \notin Asked(up)
    BY <1>1 DEF Asked
  <2> QED BY <2>1, AskedFinite
<1>3. CASE m = "queue_join"
  <2>1. Asked(longer) = Asked(up) \cup {Len(up) + 1}
    BY <1>1, <1>3 DEF Asked
  <2>2. Cardinality(Asked(up) \cup {Len(up) + 1}) = Cardinality(Asked(up)) + 1
    BY <1>2, FS_AddElement
  <2>3. Asking(longer) = Asking(up) + 1
    BY <2>1, <2>2 DEF Asking
  <2> QED BY <1>1, <1>2, <1>3, <2>3
<1>4. CASE m # "queue_join"
  <2>1. Asked(longer) = Asked(up)
    BY <1>1, <1>4 DEF Asked
  <2> QED BY <1>1, <1>2, <1>4, <2>1 DEF Asking
<1> QED BY <1>3, <1>4

LEMMA ReceivedAsks ==
  ASSUME NEW up \in Seq(LobbyRequests), up # <<>>
  PROVE  /\ Asking(Tail(up)) <= Asking(up)
         /\ Head(up) = "queue_join" => Asking(Tail(up)) + 1 <= Asking(up)
<1> PICK rest : rest = Tail(up)
  OBVIOUS
<1>1. /\ Len(up) \in Nat /\ Len(up) >= 1 /\ DOMAIN rest = 1 .. Len(up) - 1
      /\ DOMAIN up = 1 .. Len(up) /\ Head(up) = up[1]
      /\ \A i \in 1 .. Len(up) - 1 : rest[i] = up[i + 1]
      /\ rest \in Seq(LobbyRequests) /\ rest = Tail(up)
  OBVIOUS
<1>2. IsFiniteSet(Asked(up)) /\ Asking(up) \in Nat /\ Asking(rest) \in Nat
  BY <1>1, AskedFinite
<1> PICK later : later = Asked(up) \ {1}
  OBVIOUS
<1> PICK f : f = [i \in Asked(rest) |-> i + 1]
  OBVIOUS
<1>3. \A i \in Asked(rest) : i \in Int /\ i + 1 \in later
  BY <1>1 DEF Asked
<1>4. f \in Injection(Asked(rest), later)
  <2>1. f \in [Asked(rest) -> later]
    BY <1>3
  <2>2. \A i, j \in Asked(rest) : f[i] = f[j] => i = j
    BY <1>3
  <2> QED BY <2>1, <2>2 DEF Injection, IsInjective
<1>5. IsFiniteSet(later) /\ Cardinality(later) \in Nat
      /\ Cardinality(later) <= Asking(up)
      /\ (1 \in Asked(up) => Cardinality(later) + 1 = Asking(up))
  <2>1. CASE 1 \in Asked(up)
    <3>1. /\ IsFiniteSet(Asked(up) \ {1})
          /\ Cardinality(Asked(up) \ {1}) = Cardinality(Asked(up)) - 1
      BY <1>2, <2>1, FS_RemoveElement
    <3>2. Cardinality(later) = Asking(up) - 1 /\ IsFiniteSet(later)
      BY <3>1 DEF Asking
    <3>3. Cardinality(later) \in Nat
      BY <3>2, FS_CardinalityType
    <3> QED BY <1>2, <3>2, <3>3
  <2>2. CASE 1 \notin Asked(up)
    <3>1. later = Asked(up)
      BY <2>2
    <3>2. Cardinality(later) = Asking(up) /\ IsFiniteSet(later)
      BY <1>2, <3>1 DEF Asking
    <3> QED BY <1>2, <2>2, <3>2
  <2> QED BY <2>1, <2>2
<1>6. Asking(rest) <= Cardinality(later)
  BY <1>4, <1>5, FS_Injection DEF Asking
<1>7. Head(up) = "queue_join" => 1 \in Asked(up)
  BY <1>1 DEF Asked
<1> QED BY <1>1, <1>2, <1>5, <1>6, <1>7

LEMMA LobbyBoundsStart == LobbyInit => LobbyBounds
<1> SUFFICES ASSUME LobbyInit PROVE LobbyBounds
  OBVIOUS
<1>1. /\ seat.gates = 0 /\ seat.lookups = 0 /\ seat.pairing = {}
      /\ link.up = <<>> /\ link.down = <<>> /\ counts.matches = 0 /\ counts.joins = 0
      /\ lobby.matched = NoMatch
  BY DEF LobbyInit, NoSeat, Closed
<1>2. wallet.balance \in Nat /\ wallet.allowance \in Nat
  BY LobbyAssumption DEF LobbyInit
<1>3. SeatBound(seat, link.up, counts.joins)
  BY <1>1, NothingAsked DEF SeatBound
<1> QED BY <1>1, <1>2, <1>3, LobbyAssumption DEF LobbyBounds

\* The steps that reach neither the server nor what it sent.
LEMMA LobbyBoundsQuiet ==
  ASSUME LobbyBounds, seat' = seat, link'.up = link.up, link'.down = link.down,
         counts'.matches = counts.matches, counts'.joins = counts.joins,
         lobby'.matched \in {lobby.matched, NoMatch},
         wallet'.balance \in Nat, wallet'.allowance \in Nat
  PROVE  LobbyBounds'
<1>1. SeatBound(seat', link'.up, counts'.joins) /\ link'.down \in Seq(LobbyPackets)
  BY DEF LobbyBounds
<1> QED BY <1>1 DEF LobbyBounds

LEMMA ScreenKeepsBounds ==
  ASSUME LobbyInv, LobbyBounds,
         \/ OpenModal \/ CloseModal \/ Exit \/ AskCreate \/ AssignTimesOut \/ LobbyReopens
         \/ UNCHANGED lobbyVars
         \/ \E call \in calls : CreateFails(call) \/ CreateLands(call) \/ CreateSucceeds(call)
  PROVE  LobbyBounds'
<1>1. /\ lobby \in [queued : BOOLEAN, matched : LobbyMatches, ready : BOOLEAN, modal : BOOLEAN,
                    route : {"pvp", "play"}]
      /\ link \in Links /\ counts \in [matches : Nat, joins : Nat, calls : Nat, drops : Nat]
      /\ wallet.balance \in Nat /\ wallet.allowance \in Nat
  BY SeatTyped DEF LobbyInv, LobbyTypes, LobbyBounds
<1>2. CASE OpenModal \/ CloseModal \/ Exit \/ AssignTimesOut
  <2>1. /\ UNCHANGED <<link, seat, wallet, counts>>
        /\ \/ lobby' = lobby
           \/ lobby' = [lobby EXCEPT !.modal = TRUE] \/ lobby' = [lobby EXCEPT !.modal = FALSE]
           \/ lobby' = [lobby EXCEPT !.matched = NoMatch, !.queued = FALSE]
    BY <1>2 DEF OpenModal, CloseModal, Exit, AssignTimesOut
  <2>2. lobby'.matched \in {lobby.matched, NoMatch}
    BY <1>1, <2>1
  <2> QED BY <1>1, <2>1, <2>2, LobbyBoundsQuiet
<1>3. CASE AskCreate
  <2>1. UNCHANGED <<lobby, link, seat, wallet>> /\ counts' = [counts EXCEPT !.calls = @ + 1]
    BY <1>3 DEF AskCreate
  <2>2. counts'.matches = counts.matches /\ counts'.joins = counts.joins
    BY <1>1, <2>1
  <2> QED BY <1>1, <2>1, <2>2, LobbyBoundsQuiet
<1>4. CASE LobbyReopens
  <2>1. UNCHANGED <<lobby, seat, wallet, counts>> /\ link' = [link EXCEPT !.open = TRUE]
    BY <1>4 DEF LobbyReopens
  <2>2. link'.up = link.up /\ link'.down = link.down
    BY <1>1, <2>1 DEF Links
  <2> QED BY <1>1, <2>1, <2>2, LobbyBoundsQuiet
<1>5. CASE UNCHANGED lobbyVars
  BY <1>1, <1>5, LobbyBoundsQuiet DEF lobbyVars
<1>6. ASSUME NEW call \in calls, CreateFails(call) PROVE LobbyBounds'
  <2>1. UNCHANGED <<lobby, link, seat, wallet, counts>>
    BY <1>6 DEF CreateFails
  <2> QED BY <1>1, <2>1, LobbyBoundsQuiet
<1>7. ASSUME NEW call \in calls, CreateLands(call) PROVE LobbyBounds'
  <2>1. /\ UNCHANGED <<lobby, link, seat, counts>> /\ CanEscrow
        /\ wallet' = [balance |-> wallet.balance - Stake, allowance |-> wallet.allowance - Stake]
    BY <1>7 DEF CreateLands
  <2>2. wallet'.balance \in Nat /\ wallet'.allowance \in Nat
    BY <1>1, <2>1, LobbyAssumption DEF CanEscrow
  <2> QED BY <2>1, <2>2, LobbyBoundsQuiet
<1>8. ASSUME NEW call \in calls, CreateSucceeds(call) PROVE LobbyBounds'
  <2>1. UNCHANGED <<link, seat, wallet, counts>> /\ lobby' = [lobby EXCEPT !.route = "play"]
    BY <1>8 DEF CreateSucceeds
  <2>2. lobby'.matched = lobby.matched
    BY <1>1, <2>1
  <2> QED BY <1>1, <2>1, <2>2, LobbyBoundsQuiet
<1> QED BY <1>2, <1>3, <1>4, <1>5, <1>6, <1>7, <1>8

LEMMA QueueKeepsBounds ==
  ASSUME LobbyInv, LobbyBounds, CancelQueue \/ EnterQueue \/ LobbyDrops
  PROVE  LobbyBounds'
<1>1. /\ lobby \in [queued : BOOLEAN, matched : LobbyMatches, ready : BOOLEAN, modal : BOOLEAN,
                    route : {"pvp", "play"}]
      /\ link \in Links /\ counts \in [matches : Nat, joins : Nat, calls : Nat, drops : Nat]
      /\ link.up \in Seq(LobbyRequests) /\ seat.gates \in Nat /\ seat.lookups \in Nat
      /\ Asking(link.up) \in Nat /\ seat.gates + seat.lookups + Asking(link.up) <= counts.joins
  BY SeatTyped, LinkTyped, AskedFinite DEF LobbyInv, LobbyTypes, LobbyBounds, SeatBound
<1>2. CASE CancelQueue
  <2>1. /\ UNCHANGED <<seat, wallet, counts>>
        /\ lobby' = [lobby EXCEPT !.queued = FALSE]
        /\ link' = [link EXCEPT !.up = Append(link.up, "queue_leave")]
    BY <1>2 DEF CancelQueue, Sends
  <2>2. /\ lobby'.matched = lobby.matched /\ link'.down = link.down
        /\ link'.up = Append(link.up, "queue_leave")
    BY <1>1, <2>1 DEF Links
  <2>3. Asking(link'.up) = Asking(link.up)
    BY <1>1, <2>2, SentAsks DEF LobbyRequests
  <2>4. SeatBound(seat', link'.up, counts'.joins)
    BY <1>1, <2>1, <2>3 DEF SeatBound
  <2> QED BY <2>1, <2>2, <2>4 DEF LobbyBounds
<1>3. CASE EnterQueue
  <2>1. /\ UNCHANGED <<seat, wallet>> /\ counts.joins < MaxJoins
        /\ counts' = [counts EXCEPT !.joins = @ + 1]
        /\ lobby' = [lobby EXCEPT !.modal = FALSE, !.ready = TRUE]
        /\ link' = [link EXCEPT !.up = Sends("queue_join")]
    BY <1>3 DEF EnterQueue
  <2>2. /\ lobby'.matched = lobby.matched /\ link'.down = link.down
        /\ link'.up = Sends("queue_join")
        /\ counts'.matches = counts.matches /\ counts'.joins = counts.joins + 1
    BY <1>1, <2>1 DEF Links
  <2>3. Sends("queue_join") \in {link.up, Append(link.up, "queue_join")}
    BY DEF Sends
  <2>4. /\ Append(link.up, "queue_join") \in Seq(LobbyRequests)
        /\ Asking(Append(link.up, "queue_join")) <= Asking(link.up) + 1
    BY <1>1, SentAsks DEF LobbyRequests
  <2>5. Asking(link'.up) <= Asking(link.up) + 1 /\ Asking(link'.up) \in Nat
    <3>1. CASE link'.up = link.up
      BY <1>1, <3>1
    <3>2. CASE link'.up = Append(link.up, "queue_join")
      <4>1. Asking(link'.up) <= Asking(link.up) + 1 /\ link'.up \in Seq(LobbyRequests)
        BY <2>4, <3>2
      <4> QED BY <4>1, AskedFinite
    <3> QED BY <2>2, <2>3, <3>1, <3>2
  <2>6. SeatBound(seat', link'.up, counts'.joins)
    BY <1>1, <2>1, <2>2, <2>5 DEF SeatBound
  <2>7. counts'.joins <= MaxJoins
    BY <1>1, <2>1, <2>2, LobbyAssumption
  <2> QED BY <2>1, <2>2, <2>6, <2>7 DEF LobbyBounds
<1>4. CASE LobbyDrops
  <2>1. /\ UNCHANGED <<lobby, wallet>> /\ link' = Closed /\ seat' = NoSeat
        /\ counts' = [counts EXCEPT !.drops = @ + 1]
    BY <1>4 DEF LobbyDrops
  <2>2. /\ counts'.matches = counts.matches /\ counts'.joins = counts.joins
        /\ link'.up = <<>> /\ link'.down = <<>>
        /\ seat'.gates = 0 /\ seat'.lookups = 0 /\ seat'.pairing = {}
    BY <1>1, <2>1 DEF Closed, NoSeat
  <2>3. SeatBound(seat', link'.up, counts'.joins)
    BY <1>1, <2>2, NothingAsked DEF SeatBound
  <2> QED BY <2>1, <2>2, <2>3 DEF LobbyBounds
<1> QED BY <1>2, <1>3, <1>4

\* What the server tells is a packet.
LEMMA ReplyBound ==
  ASSUME LobbyInv, LobbyBounds, NEW m \in LobbyPackets, NEW told \in {<<>>, <<m>>},
         Replies(told)
  PROVE  link'.down \in Seq(LobbyPackets) /\ link'.up = link.up
<1>1. link \in Links /\ link.down \in Seq(LobbyPackets)
  BY SeatTyped DEF LobbyInv, LobbyBounds
<1> PICK down : down = link.down \o told
  OBVIOUS
<1>2. down \in Seq(LobbyPackets)
  <2>1. told \in Seq(LobbyPackets)
    <3>1. CASE told = <<>>
      BY <3>1
    <3>2. CASE told = <<m>>
      BY <3>2
    <3> QED BY <3>1, <3>2
  <2> QED BY <1>1, <2>1
<1>3. link' = [link EXCEPT !.down = down]
  BY DEF Replies
<1> QED BY <1>1, <1>2, <1>3 DEF Links

LEMMA ServerKeepsBounds ==
  ASSUME LobbyInv, LobbyBounds,
         \/ ReceiveJoin \/ GateRefuses \/ JoinQueue \/ LeaveQueue
         \/ \E p \in seat.pairing : PairDeckReady(p) \/ PairDeckFails(p)
  PROVE  LobbyBounds'
<1>1. /\ seat \in Seats /\ link \in Links /\ counts.joins \in Nat
      /\ link.up \in Seq(LobbyRequests) /\ seat.gates \in Nat /\ seat.lookups \in Nat
      /\ Asking(link.up) \in Nat /\ seat.gates + seat.lookups + Asking(link.up) <= counts.joins
  BY SeatTyped, LinkTyped, AskedFinite DEF LobbyInv, LobbyTypes, LobbyBounds, SeatBound
<1>2. QueueLeft \in LobbyPackets /\ QueueStatus \in LobbyPackets
  BY DEF LobbyPackets
<1>3. ASSUME counts' = counts, UNCHANGED <<lobby, wallet>>, link'.down \in Seq(LobbyPackets),
             SeatBound(seat', link'.up, counts.joins), seat'.pairing \subseteq seat.pairing
      PROVE  LobbyBounds'
  BY <1>3 DEF LobbyBounds
<1>4. CASE ReceiveJoin
  <2>1. /\ link.up # <<>> /\ Head(link.up) = "queue_join" /\ counts' = counts
        /\ UNCHANGED <<lobby, wallet>> /\ link' = [link EXCEPT !.up = Tail(@)]
    BY <1>4 DEF ReceiveJoin, ServerStep
  <2>2. PICK gates \in {seat.gates, seat.gates + 1} : seat' = [seat EXCEPT !.gates = gates]
    BY <1>4 DEF ReceiveJoin
  <2>3. seat'.gates = gates /\ seat'.lookups = seat.lookups /\ seat'.pairing = seat.pairing
    BY <1>1, <2>2 DEF Seats
  <2>4. link'.up = Tail(link.up) /\ link'.down = link.down
    BY <1>1, <2>1 DEF Links
  <2>5. Asking(Tail(link.up)) + 1 <= Asking(link.up) /\ Asking(Tail(link.up)) \in Nat
    <3>1. Tail(link.up) \in Seq(LobbyRequests)
      BY <1>1, <2>1
    <3> QED BY <1>1, <2>1, <3>1, AskedFinite, ReceivedAsks
  <2>6. SeatBound(seat', link'.up, counts.joins)
    <3>1. gates \in Nat /\ gates <= seat.gates + 1
      BY <1>1, <2>2
    <3>2. Asking(link'.up) \in Nat /\ Asking(link'.up) + 1 <= Asking(link.up)
      BY <2>4, <2>5
    <3>3. gates + seat.lookups + Asking(link'.up) <= counts.joins
      BY <1>1, <3>1, <3>2
    <3> QED BY <1>1, <2>3, <3>1, <3>3 DEF SeatBound
  <2>7. link'.down \in Seq(LobbyPackets)
    BY <2>4 DEF LobbyBounds
  <2> QED BY <1>3, <2>1, <2>3, <2>6, <2>7
<1>5. CASE GateRefuses
  <2>1. /\ seat.gates > 0 /\ seat' = [seat EXCEPT !.gates = @ - 1] /\ counts' = counts
        /\ UNCHANGED <<lobby, wallet, link>>
    BY <1>5 DEF GateRefuses, ServerStep
  <2>2. /\ seat'.gates = seat.gates - 1 /\ seat'.lookups = seat.lookups
        /\ seat'.pairing = seat.pairing
    BY <1>1, <2>1 DEF Seats
  <2>3. SeatBound(seat', link'.up, counts.joins)
    BY <1>1, <2>1, <2>2 DEF SeatBound
  <2> QED BY <1>3, <2>1, <2>2, <2>3 DEF LobbyBounds
<1>6. CASE JoinQueue
  <2>1. /\ seat' = [gates |-> seat.gates - 1, tier |-> TRUE, lookups |-> seat.lookups + 1,
                    inQueue |-> seat.inQueue /\ ~seat.tier, pairing |-> seat.pairing]
        /\ seat.gates > 0 /\ counts' = counts /\ UNCHANGED <<lobby, wallet>>
    BY <1>1, <1>6 DEF JoinQueue, Seats, ServerStep
  <2>2. PICK told \in {<<>>, <<QueueLeft>>} : Replies(told)
    BY <1>6 DEF JoinQueue
  <2>3. link'.down \in Seq(LobbyPackets) /\ link'.up = link.up
    BY <1>2, <2>2, ReplyBound
  <2>4. /\ seat'.gates = seat.gates - 1 /\ seat'.lookups = seat.lookups + 1
        /\ seat'.pairing = seat.pairing
    BY <2>1
  <2>5. SeatBound(seat', link'.up, counts.joins)
    BY <1>1, <2>1, <2>3, <2>4 DEF SeatBound
  <2> QED BY <1>3, <2>1, <2>3, <2>4, <2>5
<1>7. CASE LeaveQueue
  <2> PICK told : told = IF seat.tier THEN <<QueueLeft>> ELSE <<>>
    OBVIOUS
  <2> PICK down : down = link.down \o told
    OBVIOUS
  <2>1. down \in Seq(LobbyPackets)
    <3>1. told \in Seq(LobbyPackets)
      BY <1>2
    <3> QED BY <3>1 DEF LobbyBounds
  <2>2. /\ seat' = [gates |-> seat.gates, tier |-> FALSE, lookups |-> seat.lookups,
                    inQueue |-> seat.inQueue /\ ~seat.tier, pairing |-> seat.pairing]
        /\ counts' = counts /\ UNCHANGED <<lobby, wallet>> /\ link.up # <<>>
    BY <1>1, <1>7 DEF LeaveQueue, Seats, ServerStep
  <2>3. link' = [link EXCEPT !.up = Tail(link.up), !.down = down]
    BY <1>7 DEF LeaveQueue
  <2>4. link'.up = Tail(link.up) /\ link'.down = down
    BY <1>1, <2>3 DEF Links
  <2>5. Asking(Tail(link.up)) <= Asking(link.up) /\ Asking(Tail(link.up)) \in Nat
    <3>1. Tail(link.up) \in Seq(LobbyRequests)
      BY <1>1, <2>2
    <3> QED BY <1>1, <2>2, <3>1, AskedFinite, ReceivedAsks
  <2>6. SeatBound(seat', link'.up, counts.joins) /\ seat'.pairing = seat.pairing
    BY <1>1, <2>2, <2>4, <2>5 DEF SeatBound
  <2> QED BY <1>3, <2>1, <2>2, <2>4, <2>6
<1>8. ASSUME NEW p \in seat.pairing, PairDeckReady(p) PROVE LobbyBounds'
  <2>1. /\ seat' = [seat EXCEPT !.pairing = @ \ {p}] /\ Replies(<<MatchFound(p)>>)
        /\ counts' = counts /\ UNCHANGED <<lobby, wallet>>
    BY <1>8 DEF PairDeckReady, ServerStep
  <2>2. /\ seat'.gates = seat.gates /\ seat'.lookups = seat.lookups
        /\ seat'.pairing \subseteq seat.pairing
    BY <1>1, <2>1 DEF Seats
  <2>3. MatchFound(p) \in LobbyPackets
    BY DEF LobbyBounds, LobbyPackets
  <2>4. link'.down \in Seq(LobbyPackets) /\ link'.up = link.up
    BY <2>1, <2>3, ReplyBound
  <2>5. SeatBound(seat', link'.up, counts.joins)
    BY <1>1, <2>2, <2>4 DEF SeatBound
  <2> QED BY <1>3, <2>1, <2>2, <2>4, <2>5
<1>9. ASSUME NEW p \in seat.pairing, PairDeckFails(p) PROVE LobbyBounds'
  <2>1. /\ seat' = [gates |-> seat.gates, tier |-> TRUE, lookups |-> seat.lookups,
                    inQueue |-> seat.inQueue \/ ~seat.tier, pairing |-> seat.pairing \ {p}]
        /\ counts' = counts /\ UNCHANGED <<lobby, wallet>>
    BY <1>1, <1>9 DEF PairDeckFails, Seats, ServerStep
  <2>2. PICK told \in {<<>>, <<QueueStatus>>} : Replies(told)
    BY <1>9 DEF PairDeckFails
  <2>3. link'.down \in Seq(LobbyPackets) /\ link'.up = link.up
    BY <1>2, <2>2, ReplyBound
  <2>4. /\ seat'.gates = seat.gates /\ seat'.lookups = seat.lookups
        /\ seat'.pairing \subseteq seat.pairing
    BY <2>1
  <2>5. SeatBound(seat', link'.up, counts.joins)
    BY <1>1, <2>3, <2>4 DEF SeatBound
  <2> QED BY <1>3, <2>1, <2>3, <2>4, <2>5
<1> QED BY <1>4, <1>5, <1>6, <1>7, <1>8, <1>9

LEMMA PairsBounded ==
  ASSUME LobbyInv, LobbyBounds, NEW role \in Roles, NEW next \in Seats, Pairs(role, next),
         SeatBound(next, link.up, counts.joins), next.pairing = seat.pairing,
         UNCHANGED <<lobby, wallet>>
  PROVE  LobbyBounds'
<1> PICK n : n = counts.matches + 1
  OBVIOUS
<1> PICK p : p = [id |-> n, role |-> role]
  OBVIOUS
<1>1. /\ counts \in [matches : Nat, joins : Nat, calls : Nat, drops : Nat]
      /\ counts.matches < MaxMatches /\ link' = link
      /\ counts' = [counts EXCEPT !.matches = n]
  BY DEF LobbyInv, LobbyTypes, Pairs
<1>2. counts'.matches = n /\ counts'.joins = counts.joins /\ n \in 1 .. MaxMatches
  BY <1>1, LobbyAssumption
<1>3. p \in Pairings
  BY <1>2 DEF Pairings
<1> PICK both : both = next.pairing \cup {p}
  OBVIOUS
<1>4. seat' = [next EXCEPT !.tier = FALSE, !.pairing = both]
  BY <1>2 DEF Pairs
<1>5. seat'.gates = next.gates /\ seat'.lookups = next.lookups /\ seat'.pairing = both
  BY <1>4 DEF Seats
<1>6. SeatBound(seat', link'.up, counts'.joins)
  BY <1>1, <1>2, <1>5 DEF SeatBound
<1>7. seat'.pairing \subseteq Pairings
  BY <1>3, <1>5 DEF LobbyBounds
<1>8. counts'.matches <= MaxMatches
  BY <1>2, LobbyAssumption
<1> QED BY <1>1, <1>2, <1>6, <1>7, <1>8 DEF LobbyBounds

LEMMA PairingKeepsBounds ==
  ASSUME LobbyInv, LobbyBounds, LookupEnds \/ Paired
  PROVE  LobbyBounds'
<1>1. /\ seat \in Seats /\ counts.joins \in Nat /\ UNCHANGED <<lobby, wallet>>
      /\ seat.gates \in Nat /\ seat.lookups \in Nat
      /\ Asking(link.up) \in Nat /\ seat.gates + seat.lookups + Asking(link.up) <= counts.joins
  BY SeatTyped, LinkTyped, AskedFinite
  DEF LobbyInv, LobbyTypes, LobbyBounds, SeatBound, LookupEnds, Paired, ServerStep
<1>2. CASE Paired
  <2> PICK next : next = [seat EXCEPT !.inQueue = FALSE]
    OBVIOUS
  <2>1. PICK role \in Roles : Pairs(role, next)
    BY <1>2 DEF Paired
  <2>2. /\ next \in Seats /\ next.pairing = seat.pairing
        /\ next.gates = seat.gates /\ next.lookups = seat.lookups
    BY <1>1 DEF Seats
  <2>3. SeatBound(next, link.up, counts.joins)
    BY <1>1, <2>2 DEF SeatBound
  <2> QED BY <1>1, <2>1, <2>2, <2>3, PairsBounded
<1>3. CASE LookupEnds
  <2> PICK ended : ended = [seat EXCEPT !.lookups = @ - 1]
    OBVIOUS
  <2>1. seat.lookups > 0
    BY <1>3 DEF LookupEnds
  <2>2. /\ ended \in Seats /\ ended.pairing = seat.pairing
        /\ ended.gates = seat.gates /\ ended.lookups = seat.lookups - 1
    BY <1>1 DEF Seats
  <2>3. SeatBound(ended, link.up, counts.joins)
    BY <1>1, <2>1, <2>2 DEF SeatBound
  <2>4. CASE Pairs("challenger", ended)
    BY <1>1, <2>2, <2>3, <2>4, PairsBounded DEF Roles
  <2>5. CASE ~Pairs("challenger", ended)
    <3>1. /\ seat' = [ended EXCEPT !.inQueue = @ \/ seat.tier] /\ counts' = counts
          /\ \E told \in {<<>>, <<QueueStatus>>} : Replies(told)
      BY <1>3, <2>5 DEF LookupEnds
    <3>2. QueueStatus \in LobbyPackets
      BY DEF LobbyPackets
    <3>3. link'.down \in Seq(LobbyPackets) /\ link'.up = link.up
      BY <3>1, <3>2, ReplyBound
    <3>4. /\ seat'.gates = ended.gates /\ seat'.lookups = ended.lookups
          /\ seat'.pairing = seat.pairing
      BY <2>2, <3>1 DEF Seats
    <3>5. SeatBound(seat', link'.up, counts'.joins)
      BY <2>3, <3>1, <3>3, <3>4 DEF SeatBound
    <3> QED BY <1>1, <3>1, <3>3, <3>4, <3>5 DEF LobbyBounds
  <2> QED BY <2>4, <2>5
<1> QED BY <1>2, <1>3

LEMMA ReceiptKeepsBounds == ASSUME LobbyInv, LobbyBounds, ReceiveLobby PROVE LobbyBounds'
<1> PICK msg : msg = Head(link.down)
  OBVIOUS
<1>1. /\ link \in Links /\ link.down \in Seq(LobbyPackets) /\ link.down # <<>>
      /\ lobby \in [queued : BOOLEAN, matched : LobbyMatches, ready : BOOLEAN, modal : BOOLEAN,
                    route : {"pvp", "play"}]
      /\ lobby.matched \in Pairings \cup {NoMatch}
  BY SeatTyped DEF LobbyInv, LobbyTypes, LobbyBounds, ReceiveLobby
<1>2. msg \in LobbyPackets /\ Tail(link.down) \in Seq(LobbyPackets)
  BY <1>1
<1>3. link' = [link EXCEPT !.down = Tail(link.down)]
  BY DEF ReceiveLobby
<1>4. link'.up = link.up /\ link'.down = Tail(link.down)
  BY <1>1, <1>3 DEF Links
<1>5. msg.match \in Pairings \cup {NoMatch}
      /\ msg.type \in {"queue_status", "queue_left", "match_found"}
  BY <1>2 DEF LobbyPackets, QueueStatus, QueueLeft, MatchFound
<1>6. \/ lobby' = lobby \/ lobby' = [lobby EXCEPT !.queued = TRUE]
      \/ lobby' = [lobby EXCEPT !.queued = FALSE] \/ lobby' = [lobby EXCEPT !.matched = msg.match]
  <2>1. CASE ~OnScreen
    BY <2>1 DEF ReceiveLobby
  <2>2. CASE OnScreen /\ msg.type = "queue_status"
    BY <2>2 DEF ReceiveLobby
  <2>3. CASE OnScreen /\ msg.type = "queue_left"
    BY <2>3 DEF ReceiveLobby
  <2>4. CASE OnScreen /\ msg.type = "match_found"
    BY <2>4 DEF ReceiveLobby
  <2> QED BY <1>5, <2>1, <2>2, <2>3, <2>4
<1>7. lobby'.matched \in Pairings \cup {NoMatch}
  BY <1>1, <1>5, <1>6
<1>8. UNCHANGED <<seat, wallet, counts>>
  BY DEF ReceiveLobby
<1>9. SeatBound(seat', link'.up, counts'.joins)
  BY <1>4, <1>8 DEF LobbyBounds
<1> QED BY <1>2, <1>4, <1>7, <1>8, <1>9 DEF LobbyBounds

(* For any stakes, wallets and bounds: the lobby shows a match that was     *)
(* paired, every transaction is of one, no wallet is overdrawn, and no more *)
(* joins wait at the gates than were sent (pvp.tsx, ws/handlers.ts).        *)
THEOREM LobbyTyped == LobbySpec => []LobbyTypeOK
<1>1. LobbyInv /\ LobbyBounds /\ [LobbyNext]_lobbyVars => LobbyBounds'
  BY ScreenKeepsBounds, QueueKeepsBounds, ServerKeepsBounds, PairingKeepsBounds,
     ReceiptKeepsBounds DEF LobbyNext
<1>2. LobbyInv /\ LobbyBounds => LobbyTypeOK
  <2> SUFFICES ASSUME LobbyInv, LobbyBounds PROVE LobbyTypeOK
    OBVIOUS
  <2>1. /\ seat \in Seats /\ link \in Links /\ counts.joins \in Nat /\ counts.matches \in Nat
        /\ link.up \in Seq(LobbyRequests) /\ Asking(link.up) \in Nat
        /\ screen \in [mount : Nat, sentCreate : BOOLEAN, error : BOOLEAN]
        /\ MaxMatches \in Nat /\ MaxJoins \in Nat
    BY SeatTyped, LinkTyped, AskedFinite, LobbyAssumption DEF LobbyInv, LobbyTypes
  <2>2. /\ screen.mount <= counts.matches
        /\ \A c \in calls : c.match \in Nat /\ c.match >= 1 /\ c.match <= counts.matches
    BY DEF LobbyInv, FreshOK, FreshNumbers, TakenUp, CallsGuarded, LobbyTypes, LobbyCalls
  <2>3. /\ screen.mount \in 0 .. MaxMatches /\ screen.sentCreate \in BOOLEAN
        /\ screen.error \in BOOLEAN
    BY <2>1, <2>2 DEF LobbyBounds
  <2>4. \A c \in calls : c.match \in 1 .. MaxMatches /\ c.at \in {"wallet", "landed"}
    <3>1. counts.matches <= MaxMatches
      BY DEF LobbyBounds
    <3>2. \A c \in calls : c.at \in {"wallet", "landed"}
      BY DEF LobbyInv, LobbyTypes, LobbyCalls
    <3> QED BY <2>1, <2>2, <3>1, <3>2
  <2>5. /\ seat.gates \in 0 .. MaxJoins /\ seat.lookups \in 0 .. MaxJoins
        /\ seat.tier \in BOOLEAN /\ seat.inQueue \in BOOLEAN /\ seat.pairing \subseteq Pairings
    BY <2>1 DEF LobbyBounds, SeatBound, Seats
  <2>6. lobby \in [queued : BOOLEAN, matched : Pairings \cup {NoMatch}, ready : BOOLEAN,
                  modal : BOOLEAN, route : {"pvp", "play"}]
    BY DEF LobbyInv, LobbyTypes, LobbyBounds
  <2>7. /\ link.open \in BOOLEAN
        /\ \A i \in DOMAIN link.up : link.up[i] \in {"queue_join", "queue_leave"}
    BY <2>1 DEF Links, LobbyRequests
  <2>8. \A i \in DOMAIN link.down : link.down[i] \in LobbyPackets
    BY DEF LobbyBounds
  <2>9. /\ wallet.balance \in Nat /\ wallet.allowance \in Nat
        /\ created \in [1 .. MaxMatches -> Nat] /\ unheard \in [1 .. MaxMatches -> Nat]
    BY DEF LobbyInv, LobbyTypes, LobbyBounds
  <2> QED BY <2>3, <2>4, <2>5, <2>6, <2>7, <2>8, <2>9, Zenon DEF LobbyTypeOK, LobbyPackets
<1> QED BY <1>1, <1>2, LobbyStarts, LobbyKept, LobbyBoundsStart, PTL DEF LobbySpec

-----------------------------------------------------------------------------
(* The practice match.  A deck is in play exactly while it is latched; a    *)
(* handler that reads an older phase reads the same card, or the one at     *)
(* which the match broke off.                                               *)
PracticeMessages == [type : {"practice_session", "practice_failed"}, start : 1 .. MaxStarts]
PracticeOutcomes == [card : PracticeCards, at : Nat, tick : Int]

PracticeTypes ==
  /\ phase \in Phase /\ phaseRef \in Phase
  /\ latch \in BOOLEAN /\ deck \in Nat
  /\ swiped \subseteq PracticeCards
  /\ botTimers \subseteq PracticeCards
  /\ outcomes \subseteq PracticeOutcomes
  /\ lastTick \in Int /\ age \in Nat
  /\ starts \in Nat /\ unanswered \subseteq 1 .. MaxStarts
  /\ inbox \in Seq(PracticeMessages)

DeckLatched ==
  /\ deck # 0 <=> latch
  /\ phase.kind \in {"SWIPING", "LOCKUP"} => latch
  /\ botTimers # {} => latch

CardsSwiped(p) == p.kind = "SWIPING" => 0 .. p.card - 1 \subseteq swiped

PhasesAgree ==
  /\ CardsSwiped(phase) /\ CardsSwiped(phaseRef)
  /\ phaseRef.kind = "SWIPING" => phase = phaseRef \/ phase.kind = "ERROR"
  /\ phase.kind \in {"LOCKUP", "RESULT"} => swiped = PracticeCards
  /\ botTimers \subseteq swiped

PracticeInv == PracticeTypes /\ DeckLatched /\ PhasesAgree /\ PracticeShowsTruth

LEMMA TickTypes == NoTick \in Int /\ EarlyTick \in Int
BY DEF NoTick, EarlyTick

LEMMA NothingSent == <<>> \in Seq(PracticeMessages)
OBVIOUS

LEMMA PracticeStarts == PracticeInit => PracticeInv
<1> SUFFICES ASSUME PracticeInit PROVE PracticeInv
  OBVIOUS
<1>1. PhaseOf("INTRO") \in Phase /\ PhaseOf("INTRO").kind = "INTRO"
  BY DEF PhaseOf, Phase
<1> HIDE DEF Phase, PhaseOf
<1>2. PracticeTypes
  BY <1>1, TickTypes, NothingSent DEF PracticeInit, PracticeTypes
<1> QED BY <1>1, <1>2 DEF PracticeInit, PracticeInv, DeckLatched, PhasesAgree, CardsSwiped,
                         PracticeShowsTruth

LEMMA PhaseKinds ==
  /\ \A k \in {"INTRO", "STARTING", "LOCKUP", "RESULT", "ERROR"} :
       PhaseOf(k) \in Phase /\ PhaseOf(k).kind = k
  /\ \A c \in PracticeCards : [kind |-> "SWIPING", card |-> c] \in Phase
  /\ \A p \in Phase : p.kind = "SWIPING" => p.card \in PracticeCards
  /\ 0 \in PracticeCards
BY PracticeAssumption DEF PhaseOf, Phase, PracticeCards

LEMMA MatchKeeps == ASSUME PracticeInv, Start \/ Reset PROVE PracticeInv'
<1>1. /\ deck' = 0 /\ latch' = FALSE /\ swiped' = {} /\ botShown' = {} /\ outcomes' = {}
      /\ lastTick' = NoTick /\ botTimers' = {} /\ age' = 0
      /\ phaseRef' = phase' /\ phase' \in Phase /\ phase'.kind \in {"STARTING", "INTRO"}
  BY PhaseKinds DEF Start, Reset, ClearMatch, ClearTimers
<1>2. PracticeTypes'
  <2>1. starts' \in Nat /\ unanswered' \subseteq 1 .. MaxStarts /\ inbox' = inbox
    <3>1. CASE Start
      BY <3>1, PracticeAssumption DEF PracticeInv, PracticeTypes, Start
    <3>2. CASE Reset
      BY <3>2 DEF PracticeInv, PracticeTypes, Reset, serverVars
    <3> QED BY <3>1, <3>2
  <2> QED BY <1>1, <2>1, TickTypes DEF PracticeInv, PracticeTypes
<1> QED BY <1>1, <1>2 DEF PracticeInv, DeckLatched, PhasesAgree, CardsSwiped, PracticeShowsTruth

(* What leaves the match as it is.                                          *)
LEMMA SameMatch ==
  ASSUME PracticeInv,
         UNCHANGED <<phase, phaseRef, latch, deck, swiped, botShown, botTimers, outcomes>>,
         PracticeTypes'
  PROVE  PracticeInv'
BY DEF PracticeInv, DeckLatched, PhasesAgree, CardsSwiped, PracticeShowsTruth, Settled

LEMMA WireKeeps ==
  ASSUME PracticeInv,
         (\E k \in 1 .. MaxStarts : Answer(k)) \/ SpotTick \/ PassTime \/ DropSocket \/ Reconnect
  PROVE  PracticeInv'
<1>1. CASE \E k \in 1 .. MaxStarts : Answer(k)
  <2>1. \A k \in 1 .. MaxStarts, type \in {"practice_session", "practice_failed"} :
          Append(inbox, [type |-> type, start |-> k]) \in Seq(PracticeMessages)
    BY DEF PracticeInv, PracticeTypes, PracticeMessages
  <2>2. inbox' \in Seq(PracticeMessages) /\ unanswered' \subseteq 1 .. MaxStarts
    BY <1>1, <2>1 DEF Answer, PracticeInv, PracticeTypes
  <2> QED BY <1>1, <2>2, SameMatch DEF Answer, PracticeInv, PracticeTypes
<1>2. CASE SpotTick
  <2>1. lastTick' \in Int
    BY <1>2, TickTypes DEF SpotTick, PracticeInv, PracticeTypes
  <2> QED BY <1>2, <2>1, SameMatch DEF SpotTick, PracticeInv, PracticeTypes, serverVars
<1>3. CASE PassTime
  BY <1>3, SameMatch DEF PassTime, PracticeInv, PracticeTypes, serverVars
<1>4. CASE DropSocket
  BY <1>4, NothingSent, SameMatch DEF DropSocket, PracticeInv, PracticeTypes
<1>5. CASE Reconnect
  BY <1>5, SameMatch DEF Reconnect, PracticeInv, PracticeTypes, serverVars
<1> QED BY <1>1, <1>2, <1>3, <1>4, <1>5

LEMMA ReceivingKeeps == ASSUME PracticeInv, Receive PROVE PracticeInv'
<1>1. Head(inbox) \in PracticeMessages /\ inbox' \in Seq(PracticeMessages)
  BY DEF Receive, PracticeInv, PracticeTypes
<1>2. UNCHANGED <<phaseRef, botTimers, outcomes, lastTick, starts, unanswered>>
  BY DEF Receive
<1>3. CASE /\ Accepts /\ Head(inbox).type = "practice_session" /\ latch' = TRUE
           /\ deck' = Head(inbox).start /\ swiped' = {} /\ botShown' = {}
           /\ phase' = [kind |-> "SWIPING", card |-> 0] /\ age' = 0
  <2>1. /\ phase' \in Phase /\ phase'.kind = "SWIPING" /\ phase'.card = 0
        /\ deck' \in Nat /\ deck' # 0
    BY <1>1, <1>3, PhaseKinds DEF PracticeMessages
  <2>2. botTimers = {} /\ phaseRef.kind = "STARTING"
    BY <1>3 DEF Accepts, PracticeInv, DeckLatched
  <2>3. PracticeTypes'
    BY <1>1, <1>2, <1>3, <2>1 DEF PracticeInv, PracticeTypes
  <2>4. DeckLatched' /\ PhasesAgree'
    BY <1>2, <1>3, <2>1, <2>2 DEF DeckLatched, PhasesAgree, CardsSwiped
  <2>5. PracticeShowsTruth'
    BY <1>2, <1>3, <2>1 DEF PracticeInv, PracticeShowsTruth
  <2> QED BY <2>3, <2>4, <2>5 DEF PracticeInv
<1>4. CASE /\ Accepts /\ phase' = PhaseOf("ERROR") /\ age' = 0
           /\ UNCHANGED <<latch, deck, swiped, botShown>>
  <2>1. phase' \in Phase /\ phase'.kind = "ERROR"
    BY <1>4, PhaseKinds
  <2>2. PracticeTypes'
    BY <1>1, <1>2, <1>4, <2>1 DEF PracticeInv, PracticeTypes
  <2>3. DeckLatched' /\ PhasesAgree'
    BY <1>2, <1>4, <2>1 DEF PracticeInv, DeckLatched, PhasesAgree, CardsSwiped, Accepts
  <2>4. PracticeShowsTruth'
    BY <1>2, <1>4, <2>1 DEF PracticeInv, PracticeShowsTruth
  <2> QED BY <2>2, <2>3, <2>4 DEF PracticeInv
<1>5. CASE UNCHANGED <<phase, latch, deck, swiped, botShown, age>>
  <2>1. PracticeTypes'
    BY <1>1, <1>2, <1>5 DEF PracticeInv, PracticeTypes
  <2> QED BY <1>2, <1>5, <2>1, SameMatch
<1> QED BY <1>3, <1>4, <1>5 DEF Receive

LEMMA SwipeKeepsPractice == ASSUME PracticeInv, Swipe PROVE PracticeInv'
<1> DEFINE c == phaseRef.card
<1>1. /\ c \in PracticeCards /\ 0 .. c - 1 \subseteq swiped /\ phaseRef.kind = "SWIPING"
      /\ swiped' = swiped \cup {c} /\ botTimers' = botTimers \cup {c}
      /\ phaseRef' = phase' /\ age' = 0 /\ latch
      /\ UNCHANGED <<latch, deck, botShown, outcomes, starts, unanswered, inbox>>
  BY PhaseKinds DEF Swipe, PracticeInv, PracticeTypes, PhasesAgree, CardsSwiped, DeckLatched,
                    serverVars
<1>2. c \in Nat /\ CardCount \in Nat /\ c + 1 <= CardCount /\ 0 .. c \subseteq swiped'
  BY <1>1, PracticeAssumption DEF PracticeCards
<1>3. /\ phase' \in Phase
      /\ \/ phase'.kind = "SWIPING" /\ phase'.card = c + 1
         \/ phase'.kind = "LOCKUP" /\ swiped' = PracticeCards
  <2>1. CASE c + 1 < CardCount
    <3>1. c + 1 \in PracticeCards
      BY <1>2, <2>1 DEF PracticeCards
    <3>2. phase' = [kind |-> "SWIPING", card |-> c + 1]
      BY <2>1 DEF Swipe
    <3>3. phase'.kind = "SWIPING" /\ phase'.card = c + 1
      BY <3>2
    <3>4. phase' \in Phase
      BY <3>1, <3>2 DEF Phase
    <3> QED BY <3>3, <3>4
  <2>2. CASE ~(c + 1 < CardCount)
    <3>1. swiped' \subseteq PracticeCards
      BY <1>1 DEF PracticeInv, PracticeTypes
    <3>2. PracticeCards \subseteq 0 .. c
      BY <1>2, <2>2 DEF PracticeCards
    <3>3. swiped' = PracticeCards
      BY <1>2, <3>1, <3>2
    <3>4. phase' = PhaseOf("LOCKUP")
      BY <2>2 DEF Swipe
    <3> QED BY <3>3, <3>4, PhaseKinds
  <2> QED BY <2>1, <2>2
<1>4. lastTick' \in Int
  BY TickTypes DEF Swipe, PracticeInv, PracticeTypes
<1> HIDE DEF c
<1>5. PracticeTypes'
  BY <1>1, <1>3, <1>4 DEF PracticeInv, PracticeTypes
<1>6. DeckLatched' /\ PhasesAgree'
  <2>1. CardsSwiped(phase)'
    BY <1>2, <1>3 DEF CardsSwiped
  <2> QED BY <1>1, <1>3, <2>1 DEF PracticeInv, DeckLatched, PhasesAgree, CardsSwiped
<1>7. PracticeShowsTruth'
  BY <1>1, <1>3 DEF PracticeInv, PracticeShowsTruth
<1> QED BY <1>5, <1>6, <1>7 DEF PracticeInv

LEMMA RevealKeepsPractice ==
  ASSUME PracticeInv, NEW i \in PracticeCards, RevealBot(i)
  PROVE  PracticeInv'
<1>1. /\ i \in swiped /\ botTimers' \subseteq botTimers /\ botShown' = botShown \cup {i}
      /\ UNCHANGED <<phase, phaseRef, latch, deck, swiped, outcomes, lastTick, age, starts,
                     unanswered, inbox>>
  BY DEF RevealBot, PracticeInv, PhasesAgree, serverVars
<1>2. PracticeTypes'
  BY <1>1 DEF PracticeInv, PracticeTypes
<1>3. DeckLatched' /\ PhasesAgree'
  BY <1>1 DEF PracticeInv, DeckLatched, PhasesAgree, CardsSwiped
<1>4. PracticeShowsTruth'
  BY <1>1 DEF PracticeInv, PracticeShowsTruth, Settled
<1> QED BY <1>2, <1>3, <1>4 DEF PracticeInv

LEMMA SyncKeepsPractice == ASSUME PracticeInv, SyncRef PROVE PracticeInv'
<1>1. /\ phaseRef' = phase
      /\ UNCHANGED <<phase, latch, deck, swiped, botShown, botTimers, outcomes, lastTick, age,
                     starts, unanswered, inbox>>
  BY DEF SyncRef, serverVars
<1>2. PracticeTypes' /\ DeckLatched' /\ PhasesAgree'
  BY <1>1 DEF PracticeInv, PracticeTypes, DeckLatched, PhasesAgree, CardsSwiped
<1>3. PracticeShowsTruth'
  BY <1>1 DEF PracticeInv, PracticeShowsTruth, Settled
<1> QED BY <1>2, <1>3 DEF PracticeInv

(* A match breaks off, by a timer or by the loss of the socket.             *)
LEMMA ErrorKeepsPractice ==
  ASSUME PracticeInv, StartTimesOut \/ SocketLost \/ LockupStalls
  PROVE  PracticeInv'
<1>1. /\ phase' = PhaseOf("ERROR") /\ age' = 0 /\ botTimers' \subseteq botTimers
      /\ UNCHANGED <<phaseRef, latch, deck, swiped, botShown, outcomes, lastTick, starts,
                     unanswered, inbox>>
  BY DEF StartTimesOut, SocketLost, LockupStalls, Enter, ClearTimers, serverVars
<1>2. phase' \in Phase /\ phase'.kind = "ERROR"
  BY <1>1, PhaseKinds
<1>3. PracticeTypes'
  BY <1>1, <1>2 DEF PracticeInv, PracticeTypes
<1>4. DeckLatched' /\ PhasesAgree'
  BY <1>1, <1>2 DEF PracticeInv, DeckLatched, PhasesAgree, CardsSwiped
<1>5. PracticeShowsTruth'
  BY <1>1, <1>2 DEF PracticeInv, PracticeShowsTruth
<1> QED BY <1>3, <1>4, <1>5 DEF PracticeInv

LEMMA SettleKeepsPractice == ASSUME PracticeInv, Settle PROVE PracticeInv'
<1> DEFINE new(i) == [card |-> i, at |-> age, tick |-> lastTick]
           due == {i \in PracticeCards : Due(i) /\ ~Settled(i)}
<1>1. /\ outcomes' = outcomes \cup {new(i) : i \in due}
      /\ phase.kind = "LOCKUP"
      /\ UNCHANGED <<phase, phaseRef, latch, deck, swiped, botShown, botTimers, lastTick, age,
                     starts, unanswered, inbox>>
  BY DEF Settle, serverVars
<1>2. \A i \in due : /\ i \in PracticeCards /\ Due(i) /\ new(i) \in PracticeOutcomes
                     /\ new(i).card = i /\ new(i).at = age /\ new(i).tick = lastTick
                     /\ \A o \in outcomes : o.card # i
  BY DEF PracticeOutcomes, PracticeInv, PracticeTypes, Settled
<1> HIDE DEF due, new
<1>3. PracticeTypes'
  BY <1>1, <1>2 DEF PracticeInv, PracticeTypes
<1>4. DeckLatched' /\ PhasesAgree'
  BY <1>1 DEF PracticeInv, DeckLatched, PhasesAgree, CardsSwiped
<1>5. \A i \in due : /\ age >= ExpiryOffset[i]
                     /\ lastTick >= ExpiryOffset[i] \/ age >= ExpiryOffset[i] + SETTLE_GRACE
  BY <1>2, PracticeAssumption DEF Due, PracticeInv, PracticeTypes
<1>6. \A o \in outcomes' :
        /\ \A other \in outcomes' : other.card = o.card => other = o
        /\ o.at >= ExpiryOffset[o.card]
        /\ o.tick >= ExpiryOffset[o.card] \/ o.at >= ExpiryOffset[o.card] + SETTLE_GRACE
  BY <1>1, <1>2, <1>5 DEF PracticeInv, PracticeShowsTruth
<1>7. PracticeShowsTruth'
  BY <1>1, <1>6 DEF PracticeInv, PracticeShowsTruth
<1> QED BY <1>3, <1>4, <1>7 DEF PracticeInv

LEMMA EverySettled ==
  ASSUME PracticeInv, Cardinality(outcomes) = CardCount
  PROVE  \A i \in PracticeCards : Settled(i)
<1> DEFINE f == [o \in outcomes |-> o.card]
<1>1. /\ CardCount \in Nat /\ IsFiniteSet(PracticeCards)
      /\ Cardinality(PracticeCards) = CardCount
  BY PracticeAssumption, FS_Interval DEF PracticeCards
<1>2. /\ f \in [outcomes -> PracticeCards]
      /\ \A o, other \in outcomes : f[o] = f[other] => o = other
  BY DEF PracticeInv, PracticeTypes, PracticeOutcomes, PracticeShowsTruth
<1>3. \A o \in outcomes : f[o] = o.card
  OBVIOUS
<1> HIDE DEF f
<1>4. f \in Injection(outcomes, PracticeCards)
  BY <1>2 DEF Injection, IsInjective
<1>5. f \in Surjection(outcomes, PracticeCards)
  BY <1>1, <1>4, FS_Injection
<1> QED BY <1>3, <1>5 DEF Surjection, Settled

LEMMA ResultKeepsPractice == ASSUME PracticeInv, ShowResult PROVE PracticeInv'
<1>1. /\ phase' = PhaseOf("RESULT") /\ age' = 0 /\ phase.kind = "LOCKUP"
      /\ UNCHANGED <<phaseRef, latch, deck, swiped, botShown, botTimers, outcomes, lastTick,
                     starts, unanswered, inbox>>
  BY DEF ShowResult, Enter, serverVars
<1>2. phase' \in Phase /\ phase'.kind = "RESULT"
  BY <1>1, PhaseKinds
<1>3. (\A i \in PracticeCards : Settled(i)) /\ swiped = PracticeCards
  BY <1>1, EverySettled DEF ShowResult, PracticeInv, PhasesAgree
<1>4. phaseRef.kind # "SWIPING"
  BY <1>1 DEF PracticeInv, PhasesAgree
<1>5. PracticeTypes'
  BY <1>1, <1>2 DEF PracticeInv, PracticeTypes
<1>6. DeckLatched' /\ PhasesAgree'
  BY <1>1, <1>2, <1>3, <1>4 DEF PracticeInv, DeckLatched, PhasesAgree, CardsSwiped
<1>7. PracticeShowsTruth'
  BY <1>1, <1>3 DEF PracticeInv, PracticeShowsTruth, Settled
<1> QED BY <1>5, <1>6, <1>7 DEF PracticeInv

LEMMA PracticeKept == PracticeInv /\ [PracticeNext]_practiceVars => PracticeInv'
<1> SUFFICES ASSUME PracticeInv, [PracticeNext]_practiceVars PROVE PracticeInv'
  OBVIOUS
<1>1. CASE UNCHANGED practiceVars
  <2>1. PracticeTypes'
    BY <1>1 DEF practiceVars, PracticeInv, PracticeTypes
  <2> QED BY <1>1, <2>1, SameMatch DEF practiceVars
<1> QED BY <1>1, MatchKeeps, WireKeeps, ReceivingKeeps, SwipeKeepsPractice, RevealKeepsPractice,
           SyncKeepsPractice, ErrorKeepsPractice, SettleKeepsPractice, ResultKeepsPractice
        DEF PracticeNext, Effects

LEMMA DeckStays ==
  ASSUME PracticeInv, [PracticeNext]_practiceVars, phase.kind \in {"SWIPING", "LOCKUP"}
  PROVE  deck' = deck
<1>1. latch
  BY DEF PracticeInv, DeckLatched
<1>2. ~Start /\ ~Reset
  BY DEF Start, Reset
<1>3. ~Accepts
  BY <1>1 DEF Accepts
<1>4. CASE Receive
  BY <1>3, <1>4 DEF Receive
<1>5. CASE \E k \in 1 .. MaxStarts : Answer(k)
  BY <1>5 DEF Answer
<1>6. CASE Swipe \/ SpotTick \/ PassTime \/ DropSocket \/ Reconnect
             \/ \E i \in PracticeCards : RevealBot(i)
  BY <1>6 DEF Swipe, SpotTick, PassTime, DropSocket, Reconnect, RevealBot
<1>7. CASE Effects
  BY <1>7 DEF Effects, SyncRef, StartTimesOut, SocketLost, Settle, LockupStalls, ShowResult, Enter
<1>8. CASE UNCHANGED practiceVars
  BY <1>8 DEF practiceVars
<1> QED BY <1>2, <1>4, <1>5, <1>6, <1>7, <1>8 DEF PracticeNext

(* A practice match shows what happened: no bot pick before the player's,   *)
(* each card settled once and in time, no result before everything is in,   *)
(* however far the phaseRef of use-practice-session.ts lags.                *)
THEOREM PracticeIsTruthful ==
  PracticeInit /\ [][PracticeNext]_practiceVars => []PracticeShowsTruth
<1>1. PracticeInit /\ [][PracticeNext]_practiceVars => []PracticeInv
  BY PracticeStarts, PracticeKept, PTL
<1> QED BY <1>1, PTL DEF PracticeInv

(* No late or second deck replaces the one that is played.                  *)
THEOREM DeckStaysInPlay ==
  PracticeInit /\ [][PracticeNext]_practiceVars => DeckNeverRestarts
<1>1. PracticeInit /\ [][PracticeNext]_practiceVars => []PracticeInv
  BY PracticeStarts, PracticeKept, PTL
<1>2. PracticeInv /\ [PracticeNext]_practiceVars =>
        [phase.kind \in {"SWIPING", "LOCKUP"} => deck' = deck]_practiceVars
  BY DeckStays
<1> QED BY <1>1, <1>2, PTL DEF DeckNeverRestarts

(* A lockup has an end, the latest settle time of a card, so that the time  *)
(* in a phase is bounded.                                                   *)
LEMMA LockupHasEnd == LockupEnd \in Nat
<1> DEFINE Latest(n) == \E j \in 0 .. n : \A i \in 0 .. n : ExpiryOffset[i] <= ExpiryOffset[j]
           none == {n \in 0 .. CardCount - 1 : ~Latest(n)}
<1>1. CardCount - 1 \in Nat /\ \A i \in 0 .. CardCount - 1 : ExpiryOffset[i] \in Nat
  BY PracticeAssumption DEF PracticeCards
<1>2. ASSUME none # {} PROVE FALSE
  <2>1. none \in SUBSET (0 .. CardCount - 1)
    OBVIOUS
  <2> HIDE DEF none
  <2>2. PICK n \in none : \A k \in none : n <= k
    BY <1>1, <1>2, <2>1, LeastNumber
  <2>3. n \in 0 .. CardCount - 1 /\ ~Latest(n)
    BY <2>2 DEF none
  <2>4. n # 0
    BY <1>1, <2>3
  <2>5. n - 1 \in 0 .. CardCount - 1 /\ n - 1 \notin none
    BY <1>1, <2>2, <2>3, <2>4
  <2>6. PICK j \in 0 .. n - 1 : \A i \in 0 .. n - 1 : ExpiryOffset[i] <= ExpiryOffset[j]
    BY <2>5 DEF none
  <2>7. CASE ExpiryOffset[n] <= ExpiryOffset[j]
    <3>1. \A i \in 0 .. n : ExpiryOffset[i] <= ExpiryOffset[j]
      BY <2>3, <2>6, <2>7
    <3> QED BY <2>3, <2>6, <3>1
  <2>8. CASE ~(ExpiryOffset[n] <= ExpiryOffset[j])
    <3>1. \A i \in 0 .. n : ExpiryOffset[i] <= ExpiryOffset[n]
      BY <1>1, <2>3, <2>6, <2>8
    <3> QED BY <2>3, <3>1
  <2> QED BY <2>7, <2>8
<1>3. Latest(CardCount - 1)
  BY <1>1, <1>2
<1>4. PICK j \in PracticeCards : \A i \in PracticeCards : ExpiryOffset[i] <= ExpiryOffset[j]
  BY <1>3 DEF PracticeCards
<1> DEFINE ends == {ExpiryOffset[i] : i \in PracticeCards}
<1>5. \E end \in ends : \A i \in PracticeCards : ExpiryOffset[i] <= end
  BY <1>4
<1>6. LockupEnd \in ends
  BY <1>5 DEF LockupEnd
<1> QED BY <1>1, <1>6 DEF PracticeCards

PracticeBounds ==
  /\ wsOpen \in BOOLEAN /\ deck <= MaxStarts /\ starts <= MaxStarts /\ drops \in 0 .. MaxDrops
  /\ age <= StallDeadline + START_TIMEOUT

LEMMA PracticeBoundsKept ==
  /\ PracticeInit => PracticeBounds
  /\ PracticeInv /\ PracticeBounds /\ [PracticeNext]_practiceVars => PracticeBounds'
<1>1. /\ StallDeadline \in Nat /\ START_TIMEOUT \in Nat
      /\ MaxStarts \in Nat /\ MaxDrops \in Nat
  BY LockupHasEnd, PracticeAssumption DEF StallDeadline
<1>2. PracticeInit => PracticeBounds
  BY <1>1 DEF PracticeInit, PracticeBounds
<1> SUFFICES ASSUME PracticeInv, PracticeBounds, [PracticeNext]_practiceVars
             PROVE  PracticeBounds'
  BY <1>2
<1>3. /\ deck \in Nat /\ starts \in Nat /\ age \in Nat /\ inbox \in Seq(PracticeMessages)
      /\ deck <= MaxStarts /\ starts <= MaxStarts /\ drops \in 0 .. MaxDrops
      /\ wsOpen \in BOOLEAN /\ age <= StallDeadline + START_TIMEOUT
  BY DEF PracticeInv, PracticeTypes, PracticeBounds
<1>4. CASE Start \/ Reset
  <2>1. deck' = 0 /\ age' = 0 /\ UNCHANGED socketVars /\ (starts' = starts \/ starts' = starts + 1)
        /\ (starts' # starts => starts < MaxStarts)
    BY <1>4 DEF Start, Reset, ClearMatch, serverVars
  <2> QED BY <1>1, <1>3, <2>1 DEF PracticeBounds, socketVars
<1>5. CASE Receive
  <2>1. Head(inbox).start \in 1 .. MaxStarts
    <3>1. Head(inbox) \in PracticeMessages
      BY <1>3, <1>5 DEF Receive
    <3> QED BY <3>1 DEF PracticeMessages
  <2>2. (deck' = deck \/ deck' = Head(inbox).start) /\ (age' = age \/ age' = 0)
    BY <1>5 DEF Receive
  <2> QED BY <1>1, <1>3, <1>5, <2>1, <2>2 DEF Receive, PracticeBounds, socketVars
<1>6. CASE Swipe
  BY <1>1, <1>3, <1>6 DEF Swipe, PracticeBounds, serverVars, socketVars
<1>7. CASE PassTime
  <2>1. age' = age + 1 /\ (age < START_TIMEOUT \/ age < StallDeadline)
    BY <1>7 DEF PassTime
  <2> QED BY <1>1, <1>3, <1>7, <2>1 DEF PassTime, PracticeBounds, serverVars, socketVars
<1>8. CASE DropSocket \/ Reconnect
  <2>1. /\ UNCHANGED <<deck, age, starts>> /\ wsOpen' \in BOOLEAN
        /\ drops' = drops \/ (drops < MaxDrops /\ drops' = drops + 1)
    BY <1>8 DEF DropSocket, Reconnect, serverVars
  <2> QED BY <1>1, <1>3, <2>1 DEF PracticeBounds
<1>9. CASE \/ (\E k \in 1 .. MaxStarts : Answer(k)) \/ SpotTick
           \/ (\E i \in PracticeCards : RevealBot(i)) \/ UNCHANGED practiceVars
  BY <1>3, <1>9
  DEF Answer, SpotTick, RevealBot, PracticeBounds, serverVars, socketVars, practiceVars
<1>10. CASE Effects
  <2>1. UNCHANGED <<deck, starts, wsOpen, drops>> /\ (age' = age \/ age' = 0)
    BY <1>10 DEF Effects, SyncRef, StartTimesOut, SocketLost, Settle, LockupStalls, ShowResult,
                 Enter, serverVars, socketVars
  <2> QED BY <1>1, <1>3, <2>1 DEF PracticeBounds
<1> QED BY <1>4, <1>5, <1>6, <1>7, <1>8, <1>9, <1>10 DEF PracticeNext

(* For any cards, timeouts and bounds: the match is in a phase of           *)
(* use-practice-session.ts, of a card of the deck, which answers a start    *)
(* that was sent, and no phase outlasts the two timeouts together.          *)
THEOREM PracticeTyped ==
  PracticeInit /\ [][PracticeNext]_practiceVars => []PracticeTypeOK
<1>1. PracticeInv /\ PracticeBounds => PracticeTypeOK
  <2> SUFFICES ASSUME PracticeInv, PracticeBounds PROVE PracticeTypeOK
    OBVIOUS
  <2>1. StallDeadline + START_TIMEOUT \in Nat /\ MaxStarts \in Nat /\ MaxDrops \in Nat
    BY LockupHasEnd, PracticeAssumption DEF StallDeadline
  <2>2. deck \in 0 .. MaxStarts /\ starts \in 0 .. MaxStarts
        /\ age \in 0 .. StallDeadline + START_TIMEOUT
    BY <2>1 DEF PracticeInv, PracticeTypes, PracticeBounds
  <2>3. botShown \subseteq PracticeCards
    BY DEF PracticeInv, PracticeTypes, PracticeShowsTruth
  <2>4. \A k \in 1 .. Len(inbox) : inbox[k] \in PracticeMessages
    BY DEF PracticeInv, PracticeTypes
  <2> QED BY <2>2, <2>3, <2>4
          DEF PracticeInv, PracticeTypes, PracticeBounds, PracticeTypeOK, PracticeMessages,
              PracticeOutcomes
<1> QED BY <1>1, PracticeStarts, PracticeKept, PracticeBoundsKept, PTL

-----------------------------------------------------------------------------
(* The parts together.  Whichever part runs, each takes its own steps or    *)
(* none, so that what is proved of a part holds of it in Components.        *)
LEMMA PartsStep ==
  [Next]_vars => /\ [RoomsNext]_roomVars /\ [RateNext]_rateVars
                 /\ [DiscoveryNext]_discoveryVars /\ [ClientNext]_clientVars
                 /\ [ArenaNext]_arenaVars /\ [AvatarNext]_avatarVars
                 /\ [LobbyNext]_lobbyVars /\ [ChatNext]_chatVars
<1> SUFFICES ASSUME [Next]_vars
             PROVE  /\ [RoomsNext]_roomVars /\ [RateNext]_rateVars
                    /\ [DiscoveryNext]_discoveryVars /\ [ClientNext]_clientVars
                    /\ [ArenaNext]_arenaVars /\ [AvatarNext]_avatarVars
                    /\ [LobbyNext]_lobbyVars /\ [ChatNext]_chatVars
  OBVIOUS
<1>1. CASE UNCHANGED vars
  BY <1>1 DEF vars
<1>2. CASE Runs("rooms") /\ RoomsNext
  BY <1>2 DEF Runs
<1>3. CASE Runs("rates") /\ RateNext
  BY <1>3 DEF Runs
<1>4. CASE Runs("discovery") /\ DiscoveryNext
  BY <1>4 DEF Runs
<1>5. CASE Runs("client") /\ ClientNext
  BY <1>5 DEF Runs
<1>6. CASE Runs("arena") /\ ArenaNext
  BY <1>6 DEF Runs
<1>7. CASE Runs("avatar") /\ AvatarNext
  BY <1>7 DEF Runs
<1>8. CASE Runs("lobby") /\ LobbyNext
  BY <1>8 DEF Runs
<1>9. CASE Runs("chat") /\ ChatNext
  BY <1>9 DEF Runs
<1> QED BY <1>1, <1>2, <1>3, <1>4, <1>5, <1>6, <1>7, <1>8, <1>9 DEF Next

(* The parts do not disturb each other: each behaves as it does alone, by   *)
(* its own specification.                                                   *)
THEOREM PartsAsAlone ==
  Spec => /\ RoomsSpec /\ RateSpec /\ DiscoverySpec /\ ClientSpec
          /\ (ArenaInit /\ [][ArenaNext]_arenaVars)
          /\ (AvatarInit /\ [][AvatarNext]_avatarVars)
          /\ LobbySpec /\ ChatSpec
<1>1. Init => /\ RoomsInit /\ RateInit /\ DiscoveryInit /\ ClientInit
              /\ ArenaInit /\ AvatarInit /\ LobbyInit /\ ChatInit
  BY DEF Init
<1> QED BY <1>1, PartsStep, PTL
        DEF Spec, RoomsSpec, RateSpec, DiscoverySpec, ClientSpec, LobbySpec, ChatSpec

(* For any values of their constants, all the parts keep their types at     *)
(* once: what the run of Components checks for its own.                     *)
THEOREM PartsTyped ==
  ASSUME HISTORY_LIMIT > 0, RETAIN_COUNT > 0
  PROVE  Spec => []TypeOK
<1>1. ChatSpec => []ChatTypeOK
  BY ChatTyped
<1>2. /\ RoomsTypeOK /\ RateTypeOK /\ DiscoveryTypeOK /\ ClientTypeOK
      /\ ArenaTypeOK /\ AvatarTypeOK /\ LobbyTypeOK /\ ChatTypeOK
      => TypeOK
  BY DEF TypeOK
<1> QED BY <1>1, <1>2, PartsAsAlone, RoomsTyped, RatesTyped, DiscoveryTyped, ClientTyped,
           ArenaTyped, AvatarsTyped, LobbyTyped, PTL
=============================================================================
