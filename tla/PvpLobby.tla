------------------------------ MODULE PvpLobby ------------------------------
(***************************************************************************)
(* From the lobby to a duel on chain, for one player:                      *)
(* apps/web/src/routes/game/pvp.tsx and the readiness gate of              *)
(* components/onboarding-modal.tsx, the queue messages of                  *)
(* apps/server/src/ws/handlers.ts with the gates before joinQueue, and the *)
(* create_duel and join_duel effects of routes/game/active-duel.tsx with   *)
(* the wallet call they wait for in lib/use-flicky-sign.ts.                *)
(*                                                                         *)
(* Matchmaking has the queue itself; here a seat is what one socket sees of*)
(* it.  Errors only reach a banner and are left out, and so is the choice  *)
(* of a tier.  The wallet may have approved the duel contract before, as   *)
(* nothing in the app does.                                                *)
(***************************************************************************)
EXTENDS Naturals, Sequences, FiniteSets

CONSTANTS
  Stake,
  Balances,      \* what the wallet may hold
  Allowances,    \* what it may have approved
  MaxMatches,    \* bound: pairings
  MaxJoins,      \* bound: queue_join sent
  MaxCalls,      \* bound: transactions asked for
  MaxLobbyDrops  \* bound: losses of the socket

ASSUME LobbyAssumption ==
  /\ Stake \in Nat /\ Balances \subseteq Nat /\ Allowances \subseteq Nat
  /\ MaxMatches \in Nat /\ MaxJoins \in Nat

NoMatch == [id |-> 0, role |-> "none"]
Roles == {"creator", "challenger"}
Pairings == [id : 1 .. MaxMatches, role : Roles]
QueueStatus == [type |-> "queue_status", match |-> NoMatch]
QueueLeft == [type |-> "queue_left", match |-> NoMatch]
MatchFound(p) == [type |-> "match_found", match |-> p]

VARIABLES
  lobby,    \* GamePvpInner: queueSize, matched, managerId, the modal, the route
  screen,     \* ActiveDuel: its mounts, sentCreateRef, whether its phase is ERROR
  link,     \* useFlickySocket: open, and what is on its way to the server and back
  seat,     \* the socket at the server
  calls,    \* transactions that an effect waits for
  wallet,   \* the collateral and its allowance
  created,  \* duels on chain for each match
  unheard,  \* of which the client was told nothing
  counts    \* matches, joins, transactions and drops so far

lobbyVars == <<lobby, screen, link, seat, calls, wallet, created, unheard, counts>>

NoSeat == [gates |-> 0, tier |-> FALSE, lookups |-> 0, inQueue |-> FALSE, pairing |-> {}]
Closed == [open |-> FALSE, up |-> <<>>, down |-> <<>>]

LobbyTypeOK ==
  /\ lobby \in [queued : BOOLEAN, matched : Pairings \cup {NoMatch}, ready : BOOLEAN,
                modal : BOOLEAN, route : {"pvp", "play"}]
  /\ screen.mount \in 0 .. MaxMatches /\ screen.sentCreate \in BOOLEAN /\ screen.error \in BOOLEAN
  /\ link.open \in BOOLEAN
  /\ \A i \in DOMAIN link.up : link.up[i] \in {"queue_join", "queue_leave"}
  /\ \A i \in DOMAIN link.down :
       link.down[i] \in {QueueStatus, QueueLeft} \cup {MatchFound(p) : p \in Pairings}
  /\ seat.gates \in 0 .. MaxJoins /\ seat.lookups \in 0 .. MaxJoins
  /\ seat.tier \in BOOLEAN /\ seat.inQueue \in BOOLEAN /\ seat.pairing \subseteq Pairings
  /\ \A call \in calls : call.match \in 1 .. MaxMatches /\ call.at \in {"wallet", "landed"}
  /\ wallet.balance \in Nat /\ wallet.allowance \in Nat
  /\ created \in [1 .. MaxMatches -> Nat] /\ unheard \in [1 .. MaxMatches -> Nat]

LobbyInit ==
  /\ lobby = [queued |-> FALSE, matched |-> NoMatch, ready |-> FALSE, modal |-> FALSE,
              route |-> "pvp"]
  /\ screen = [mount |-> 0, sentCreate |-> FALSE, error |-> FALSE]
  /\ link = [Closed EXCEPT !.open = TRUE]
  /\ seat = NoSeat /\ calls = {}
  /\ wallet \in [balance : Balances, allowance : Allowances]
  /\ created = [k \in 1 .. MaxMatches |-> 0] /\ unheard = created
  /\ counts = [matches |-> 0, joins |-> 0, calls |-> 0, drops |-> 0]

OnScreen == lobby.route = "pvp"
InDuel == OnScreen /\ lobby.matched # NoMatch /\ lobby.ready

-----------------------------------------------------------------------------
(* The lobby.                                                              *)

(* send: nothing while the socket is not open.                             *)
Sends(msg) == IF link.open THEN Append(link.up, msg) ELSE link.up

(* onQueueMatch: cancel where the queue screen shows, else the gate.       *)
CancelQueue ==
  /\ OnScreen /\ ~InDuel /\ lobby.queued /\ link.open
  /\ link' = [link EXCEPT !.up = Sends("queue_leave")]
  /\ lobby' = [lobby EXCEPT !.queued = FALSE]
  /\ UNCHANGED <<screen, seat, calls, wallet, created, unheard, counts>>

OpenModal ==
  /\ OnScreen /\ ~InDuel /\ ~lobby.queued /\ link.open /\ ~lobby.modal
  /\ lobby' = [lobby EXCEPT !.modal = TRUE]
  /\ UNCHANGED <<screen, link, seat, calls, wallet, created, unheard, counts>>

CloseModal ==
  /\ OnScreen /\ lobby.modal
  /\ lobby' = [lobby EXCEPT !.modal = FALSE]
  /\ UNCHANGED <<screen, link, seat, calls, wallet, created, unheard, counts>>

(* OnboardingModal: ready with the stake in the wallet (and gas for it).    *)
Ready == wallet.balance >= Stake
CanEscrow == wallet.balance >= Stake /\ wallet.allowance >= Stake

EnterQueue ==
  /\ OnScreen /\ lobby.modal /\ Ready
  /\ counts.joins < MaxJoins
  /\ counts' = [counts EXCEPT !.joins = @ + 1]
  /\ lobby' = [lobby EXCEPT !.modal = FALSE, !.ready = TRUE]
  /\ link' = [link EXCEPT !.up = Sends("queue_join")]
  /\ UNCHANGED <<screen, seat, calls, wallet, created, unheard>>

(* ActiveDuel mounts with the match unless it is mounted already, and goes *)
(* with it.                                                                *)
Mounts(next) ==
  LET shows == next.route = "pvp" /\ next.matched # NoMatch /\ next.ready
  IN  screen' = IF shows /\ ~InDuel
              THEN [mount |-> next.matched.id, sentCreate |-> FALSE, error |-> FALSE]
              ELSE screen

(* Another component's handler, or none, after the screen has changed.     *)
ReceiveLobby ==
  /\ link.down # <<>>
  /\ link' = [link EXCEPT !.down = Tail(@)]
  /\ LET msg == Head(link.down)
     IN  lobby' = CASE ~OnScreen -> lobby
                    [] OnScreen /\ msg.type = "queue_status" -> [lobby EXCEPT !.queued = TRUE]
                    [] OnScreen /\ msg.type = "queue_left" -> [lobby EXCEPT !.queued = FALSE]
                    [] OnScreen /\ msg.type = "match_found" -> [lobby EXCEPT !.matched = msg.match]
  /\ Mounts(lobby')
  /\ UNCHANGED <<seat, calls, wallet, created, unheard, counts>>

Exit ==
  /\ InDuel
  /\ lobby' = [lobby EXCEPT !.matched = NoMatch, !.queued = FALSE]
  /\ UNCHANGED <<screen, link, seat, calls, wallet, created, unheard, counts>>

LobbyDrops ==
  /\ link.open
  /\ counts.drops < MaxLobbyDrops
  /\ counts' = [counts EXCEPT !.drops = @ + 1]
  /\ link' = Closed /\ seat' = NoSeat
  /\ UNCHANGED <<lobby, screen, calls, wallet, created, unheard>>

LobbyReopens ==
  /\ ~link.open
  /\ link' = [link EXCEPT !.open = TRUE]
  /\ UNCHANGED <<lobby, screen, seat, calls, wallet, created, unheard, counts>>

-----------------------------------------------------------------------------
(* The socket at the server.                                               *)

Replies(msgs) == link' = [link EXCEPT !.down = @ \o msgs]
ServerStep == UNCHANGED <<lobby, screen, calls, wallet, created, unheard>>

(* The gates of queue_join take their time; any of them may refuse.        *)
ReceiveJoin ==
  /\ link.up # <<>> /\ Head(link.up) = "queue_join"
  /\ link' = [link EXCEPT !.up = Tail(@)]
  /\ \E gates \in {seat.gates, seat.gates + 1} : seat' = [seat EXCEPT !.gates = gates]
  /\ ServerStep /\ UNCHANGED counts

GateRefuses ==
  /\ seat.gates > 0
  /\ seat' = [seat EXCEPT !.gates = @ - 1]
  /\ ServerStep /\ UNCHANGED <<link, counts>>

(* checkQueueBalanceGate: an unreadable balance is let through.            *)
JoinQueue ==
  /\ seat.gates > 0
  /\ seat' = [seat EXCEPT !.gates = @ - 1, !.tier = TRUE, !.lookups = @ + 1,
                          !.inQueue = @ /\ ~seat.tier]
  /\ Replies(IF seat.tier THEN <<QueueLeft>> ELSE <<>>)
  /\ ServerStep /\ UNCHANGED counts

Pairs(role, next) ==
  /\ counts.matches < MaxMatches
  /\ counts' = [counts EXCEPT !.matches = @ + 1]
  /\ seat' = [next EXCEPT !.tier = FALSE,
                          !.pairing = @ \cup {[id |-> counts'.matches, role |-> role]}]
  /\ UNCHANGED link

(* The rating lookup ends: paired with a waiting player, or waiting.       *)
LookupEnds ==
  /\ seat.lookups > 0
  /\ LET ended == [seat EXCEPT !.lookups = @ - 1]
     IN  \/ Pairs("challenger", ended)
         \/ /\ seat' = [ended EXCEPT !.inQueue = @ \/ seat.tier]
            /\ Replies(IF seat.tier THEN <<QueueStatus>> ELSE <<>>)
            /\ UNCHANGED counts
  /\ ServerStep

(* Another player's join, or the retry of a pairing.                       *)
Paired ==
  /\ seat.inQueue
  /\ \E role \in Roles : Pairs(role, [seat EXCEPT !.inQueue = FALSE])
  /\ ServerStep

PairDeckReady(p) ==
  /\ seat' = [seat EXCEPT !.pairing = @ \ {p}]
  /\ Replies(<<MatchFound(p)>>)
  /\ ServerStep /\ UNCHANGED counts

PairDeckFails(p) ==
  /\ seat' = [seat EXCEPT !.pairing = @ \ {p}, !.tier = TRUE, !.inQueue = @ \/ ~seat.tier]
  /\ Replies(IF seat.tier THEN <<>> ELSE <<QueueStatus>>)
  /\ ServerStep /\ UNCHANGED counts

LeaveQueue ==
  /\ link.up # <<>> /\ Head(link.up) = "queue_leave"
  /\ link' = [link EXCEPT !.up = Tail(@),
                          !.down = @ \o (IF seat.tier THEN <<QueueLeft>> ELSE <<>>)]
  /\ seat' = [seat EXCEPT !.tier = FALSE, !.inQueue = @ /\ ~seat.tier]
  /\ ServerStep /\ UNCHANGED counts

-----------------------------------------------------------------------------
(* The duel.                                                               *)

(* The creator's effect, after every render of ActiveDuel: its "sign" is   *)
(* never the same object twice, so only sentCreateRef holds it back.       *)
MayCreate_Unguarded == lobby.matched.role = "creator"
MayCreate == lobby.matched.role = "creator" /\ ~screen.sentCreate

AskCreate ==
  /\ InDuel /\ MayCreate
  /\ counts.calls < MaxCalls
  /\ counts' = [counts EXCEPT !.calls = @ + 1]
  /\ calls' = calls \cup {[id |-> counts'.calls, match |-> lobby.matched.id,
                           mount |-> screen.mount, at |-> "wallet"]}
  /\ screen' = [screen EXCEPT !.sentCreate = TRUE]
  /\ UNCHANGED <<lobby, link, seat, wallet, created, unheard>>

(* The catch of the effect: the refs and the phase of its own mount.       *)
Fails(call) ==
  screen' = IF screen.mount = call.mount
          THEN [screen EXCEPT !.sentCreate = FALSE, !.error = TRUE] ELSE screen

(* The player rejects, the call reverts, or its outcome is not known.      *)
CreateFails(call) ==
  /\ calls' = calls \ {call}
  /\ unheard' = [unheard EXCEPT ![call.match] = @ + (IF call.at = "landed" THEN 1 ELSE 0)]
  /\ Fails(call)
  /\ UNCHANGED <<lobby, link, seat, wallet, created, counts>>

CreateLands(call) ==
  /\ call.at = "wallet"
  /\ CanEscrow
  /\ wallet' = [balance |-> wallet.balance - Stake, allowance |-> wallet.allowance - Stake]
  /\ created' = [created EXCEPT ![call.match] = @ + 1]
  /\ calls' = (calls \ {call}) \cup {[call EXCEPT !.at = "landed"]}
  /\ UNCHANGED <<lobby, screen, link, seat, unheard, counts>>

(* onDuelReady: on to the play route, whatever is on screen meanwhile.     *)
CreateSucceeds(call) ==
  /\ call.at = "landed"
  /\ calls' = calls \ {call}
  /\ lobby' = [lobby EXCEPT !.route = "play"]
  /\ UNCHANGED <<screen, link, seat, wallet, created, unheard, counts>>

(* The challenger waits for a duel_assigned that no code sends, then gives *)
(* up.                                                                     *)
AssignTimesOut ==
  /\ InDuel /\ lobby.matched.role = "challenger" /\ ~screen.error
  /\ screen' = [screen EXCEPT !.error = TRUE]
  /\ UNCHANGED <<lobby, link, seat, calls, wallet, created, unheard, counts>>

LobbyNext ==
  \/ CancelQueue \/ OpenModal \/ CloseModal \/ EnterQueue \/ ReceiveLobby \/ Exit
  \/ LobbyDrops \/ LobbyReopens
  \/ ReceiveJoin \/ GateRefuses \/ JoinQueue \/ LookupEnds \/ Paired \/ LeaveQueue
  \/ \E p \in seat.pairing : PairDeckReady(p) \/ PairDeckFails(p)
  \/ AskCreate \/ AssignTimesOut
  \/ \E call \in calls : CreateFails(call) \/ CreateLands(call) \/ CreateSucceeds(call)

LobbySpec == LobbyInit /\ [][LobbyNext]_lobbyVars
-----------------------------------------------------------------------------
(* Safety: a match escrows a creator's stake once.  There is another duel  *)
(* only for one that landed without the client hearing of it, and no two   *)
(* transactions of one match are open at a time, however often the effect  *)
(* runs, the screen is left or the same match is announced.                *)
StakedOnce ==
  \A k \in 1 .. MaxMatches :
    /\ created[k] <= 1 + unheard[k]
    /\ Cardinality({call \in calls : call.match = k}) <= 1

(* A player that the gate lets into the queue can escrow the stake, which  *)
(* is what the modal calls being able to enter.                            *)
ReadyMeansAble == [][EnterQueue => CanEscrow]_lobbyVars
=============================================================================
