----------------------------- MODULE DuelRooms -----------------------------
(***************************************************************************)
(* Duel rooms and forfeit timers: subscribeRoom, unsubscribeRoom,          *)
(* onSocketClose and armForfeitTimer in apps/server/src/ws/matchmaking.ts, *)
(* and hello as far as a socket's address matters to them.                 *)
(*                                                                         *)
(* A connection that closed may be opened again as a new one.  Queues and  *)
(* the address table are in Matchmaking; the snapshots and the clock that  *)
(* a room sends change nothing here.                                       *)
(***************************************************************************)
EXTENDS FiniteSets

CONSTANTS
  Rooms,                 \* duels with a room
  Conns,                 \* WebSocket connections
  Wallet,                \* the addresses a connection may say hello with
  Nobody,                \* a connection that said no hello
  HelloWhileSubscribed   \* may a client say hello after it entered a room?

People == UNION {Wallet[w] : w \in Conns}

ASSUME RoomsAssumption ==
  /\ Nobody \notin People
  /\ HelloWhileSubscribed \in BOOLEAN

VARIABLES
  open,         \* open connections
  who,          \* ws.data.address
  subscribers,  \* roomSubscribers, and ws.data.subscribedDuels
  timers,       \* forfeitTimers: the rooms and addresses with one pending
  forfeits      \* the peer_forfeit broadcasts so far

roomVars == <<open, who, subscribers, timers, forfeits>>

RoomsTypeOK ==
  /\ open \subseteq Conns
  /\ who \in [Conns -> People \cup {Nobody}]
  /\ subscribers \in [Rooms -> SUBSET open]
  /\ timers \subseteq Rooms \X People
  /\ forfeits \subseteq Rooms \X People

RoomsInit ==
  /\ open = {}
  /\ who = [w \in Conns |-> Nobody]
  /\ subscribers = [d \in Rooms |-> {}]
  /\ timers = {}
  /\ forfeits = {}

OpenSocket(w) ==
  /\ w \notin open
  /\ open' = open \cup {w}
  /\ UNCHANGED <<who, subscribers, timers, forfeits>>

InRoom(w) == \E d \in Rooms : w \in subscribers[d]

(* hello sets the address of the connection, and touches no timer.          *)
SayHello(w, a) ==
  /\ w \in open
  /\ a \in Wallet[w]
  /\ HelloWhileSubscribed \/ ~InRoom(w)
  /\ who' = [who EXCEPT ![w] = a]
  /\ UNCHANGED <<open, subscribers, timers, forfeits>>

(* subscribeRoom: whoever is back in the room has no timer there.           *)
Cancelled_Forgotten(w, d) == timers
Cancelled(w, d) == timers \ {<<d, who[w]>>}

SubscribeRoom(w, d) ==
  /\ w \in open
  /\ subscribers' = [subscribers EXCEPT ![d] = @ \cup {w}]
  /\ timers' = Cancelled(w, d)
  /\ UNCHANGED <<open, who, forfeits>>

UnsubscribeRoom(w, d) ==
  /\ w \in subscribers[d]
  /\ subscribers' = [subscribers EXCEPT ![d] = @ \ {w}]
  /\ UNCHANGED <<open, who, timers, forfeits>>

(* onSocketClose: a timer for each room it leaves that no other connection  *)
(* of its address is in.                                                    *)
StillInRoom(d, a, exclude) == \E w \in subscribers[d] \ {exclude} : who[w] = a
Left(w) == {d \in Rooms : w \in subscribers[d] /\ ~StillInRoom(d, who[w], w)}

CloseSocket(w) ==
  /\ w \in open
  /\ open' = open \ {w}
  /\ subscribers' = [d \in Rooms |-> subscribers[d] \ {w}]
  /\ who' = [who EXCEPT ![w] = Nobody]
  /\ timers' = timers \cup (Left(w) \X ({who[w]} \ {Nobody}))
  /\ UNCHANGED forfeits

(* The grace period is over: the peers are told.                            *)
Forfeit(d, a) ==
  /\ <<d, a>> \in timers
  /\ timers' = timers \ {<<d, a>>}
  /\ forfeits' = forfeits \cup {<<d, a>>}
  /\ UNCHANGED <<open, who, subscribers>>

RoomsNext ==
  \/ \E w \in Conns :
       \/ OpenSocket(w)
       \/ \E a \in People : SayHello(w, a)
       \/ \E d \in Rooms : SubscribeRoom(w, d) \/ UnsubscribeRoom(w, d)
       \/ CloseSocket(w)
  \/ \E d \in Rooms, a \in People : Forfeit(d, a)

RoomsSpec == RoomsInit /\ [][RoomsNext]_roomVars

-----------------------------------------------------------------------------
(* Safety: a forfeit timer runs only for an address with no connection in   *)
(* the room, so that no peer_forfeit is sent for a player who is there, in  *)
(* whatever tab.  It holds for clients that say hello before they enter a   *)
(* room and keep their address in it, as use-flicky-socket's onopen does:   *)
(* hello itself cancels nothing, and the timer does not look again.         *)
TimersAreForTheAbsent ==
  \A d \in Rooms : \A w \in subscribers[d] : <<d, who[w]>> \notin timers
=============================================================================
