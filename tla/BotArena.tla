------------------------------ MODULE BotArena ------------------------------
(***************************************************************************)
(* The Bot Arena screen, apps/web/src/routes/game/bot-arena.tsx, and the   *)
(* settlement endpoint that it polls, handleBotArenaSettlement in          *)
(* apps/server/src/bot-arena-api.ts.                                       *)
(*                                                                         *)
(* A deck is a sequence of markets, a play the player's direction and, once*)
(* it is settled, what the venue was said to have resolved.  What the bot  *)
(* answers and what a result pays are BookMath.  The venue                 *)
(* never changes a result, so a poll is answered with what is resolved when*)
(* it comes back; one market or another may have been unreadable.          *)
(***************************************************************************)
EXTENDS Naturals, Sequences, FiniteSets

CONSTANTS
  ArenaMarkets,
  ArenaDeckSize,   \* the cards of a deck
  MaxAsked,        \* handleBotArenaSettlement: the markets of one poll
  MaxDeals         \* bound: decks dealt

ASSUME ArenaAssumption ==
  /\ ArenaDeckSize \in 1 .. Cardinality(ArenaMarkets)
  /\ MaxAsked \in Nat /\ MaxDeals \in Nat

ArenaSides == {"UP", "DOWN"}
Unresolved == "open"
Voided == "voided"
Results == ArenaSides \cup {Voided}
NoDeck == <<>>
ArenaDecks == {d \in [1 .. ArenaDeckSize -> ArenaMarkets] :
                 \A i, j \in DOMAIN d : d[i] = d[j] => i = j}

VARIABLES
  venue,     \* what each market resolved to
  loading,   \* start: the deck on its way, if one is
  dealt,     \* cards; none before the first deck and while one loads
  plays,     \* the play of each card, none before its swipe
  polls,     \* the decks that a poll in flight asks about
  crossing,  \* those of them in flight when the deck was asked for
  deals      \* decks dealt

arenaVars == <<venue, loading, dealt, plays, polls, crossing, deals>>

Unplayed == {}
Play(side) == {[you |-> side, result |-> Unresolved]}

ArenaTypeOK ==
  /\ venue \in [ArenaMarkets -> Results \cup {Unresolved}]
  /\ loading \in {{}} \cup {{d} : d \in ArenaDecks}
  /\ dealt \in ArenaDecks \cup {NoDeck}
  /\ plays \in [DOMAIN dealt ->
                  {Unplayed} \cup {{[you |-> side, result |-> r]} :
                                     side \in ArenaSides, r \in Results \cup {Unresolved}}]
  /\ polls \subseteq ArenaDecks /\ crossing \subseteq ArenaDecks
  /\ deals \in 0 .. MaxDeals

ArenaInit ==
  /\ venue = [m \in ArenaMarkets |-> Unresolved]
  /\ loading = {} /\ dealt = NoDeck /\ plays = <<>>
  /\ polls = {} /\ crossing = {} /\ deals = 0

VenueResolves(m) ==
  /\ venue[m] = Unresolved
  /\ \E result \in Results : venue' = [venue EXCEPT ![m] = result]
  /\ UNCHANGED <<loading, dealt, plays, polls, crossing, deals>>

(* start, from the menu or under a deck; its button is gone while it runs.  *)
(* The server deals what trades at the time.                                *)
StartArena ==
  /\ loading = {}
  /\ deals < MaxDeals
  /\ deals' = deals + 1
  /\ \E d \in ArenaDecks :
       /\ \A i \in DOMAIN d : venue[d[i]] = Unresolved
       /\ loading' = {d}
  /\ dealt' = NoDeck /\ plays' = <<>>
  /\ crossing' = polls
  /\ UNCHANGED <<venue, polls>>

DeckArrives ==
  /\ \E d \in loading : dealt' = d /\ plays' = [i \in DOMAIN d |-> Unplayed]
  /\ loading' = {}
  /\ UNCHANGED <<venue, polls, crossing, deals>>

DeckFails ==
  /\ loading # {}
  /\ loading' = {}
  /\ UNCHANGED <<venue, dealt, plays, polls, crossing, deals>>

(* pick: the first swipe of a card counts.                                  *)
Pick(i) ==
  /\ plays[i] = Unplayed
  /\ \E side \in ArenaSides : plays' = [plays EXCEPT ![i] = Play(side)]
  /\ UNCHANGED <<venue, loading, dealt, polls, crossing, deals>>

SettledPlay(i) == \E p \in plays[i] : p.result # Unresolved
AllSwiped_Any == \E i \in DOMAIN plays : plays[i] # Unplayed
AllSwiped == dealt # NoDeck /\ \A i \in DOMAIN plays : plays[i] # Unplayed
AnyUnsettled == \E i \in DOMAIN plays : plays[i] # Unplayed /\ ~SettledPlay(i)

(* The effect polls at once and then at every interval, until its inputs    *)
(* change; a poll that is on its way stays so.                              *)
Poll ==
  /\ AllSwiped /\ AnyUnsettled
  /\ polls' = polls \cup {dealt}
  /\ UNCHANGED <<venue, loading, dealt, plays, crossing, deals>>

(* check: the card at each place of the deck that was asked about settles   *)
(* the play at that place.                                                  *)
AskedMarkets(d) == {d[i] : i \in {j \in DOMAIN d : j <= MaxAsked}}

PollAnswered(d, told) ==
  /\ d \in polls
  /\ told \subseteq {m \in AskedMarkets(d) : venue[m] # Unresolved}
  /\ polls' = polls \ {d}
  /\ plays' = [i \in DOMAIN plays |->
                 IF SettledPlay(i) \/ d[i] \notin told THEN plays[i]
                 ELSE {[p EXCEPT !.result = venue[d[i]]] : p \in plays[i]}]
  /\ UNCHANGED <<venue, loading, dealt, crossing, deals>>

ArenaNext ==
  \/ \E m \in ArenaMarkets : VenueResolves(m)
  \/ StartArena \/ DeckArrives \/ DeckFails
  \/ \E i \in DOMAIN plays : Pick(i)
  \/ Poll
  \/ \E d \in polls, told \in SUBSET ArenaMarkets : PollAnswered(d, told)

-----------------------------------------------------------------------------
(* Safety: a card shows the result of its own market, and none before every *)
(* card is swiped, so that neither a void nor a market that resolves early  *)
(* can steer a pick, however polls and resolutions interleave.  The one way *)
(* around it is a poll that was in flight when the deck was dealt: its      *)
(* answer settles the cards of this deck by their places in the last one.   *)
ArenaScoredHonestly ==
  \A i \in DOMAIN plays : \A p \in plays[i] : p.result # Unresolved =>
    \/ p.result = venue[dealt[i]] /\ \A j \in DOMAIN plays : plays[j] # Unplayed
    \/ \E d \in crossing : p.result = venue[d[i]]
=============================================================================
