----------------------------- MODULE Components -----------------------------
(***************************************************************************)
(* Eight parts that share no state, together: each behaviour is one of the *)
(* part that it chose at the start, with the others left at their          *)
(* beginning.                                                              *)
(***************************************************************************)
EXTENDS DuelRooms, RateLimit, MarketDiscovery, ActiveDuel, BotArena,
        AvatarStore, PvpLobby, ChatRoom

VARIABLE part
vars == <<part, roomVars, rateVars, discoveryVars, clientVars, arenaVars,
              avatarVars, lobbyVars, chatVars>>

Init ==
  /\ part \in {"rooms", "rates", "discovery", "client", "arena", "avatar",
               "lobby", "chat"}
  /\ RoomsInit /\ RateInit /\ DiscoveryInit /\ ClientInit
  /\ ArenaInit /\ AvatarInit /\ LobbyInit /\ ChatInit
  \* A part at rest has one beginning.
  /\ part = "avatar" \/ profile = [a \in Addresses |-> NoRow]
  /\ part = "lobby" \/ wallet = [balance |-> 0, allowance |-> 0]

(* The part that runs, and the others at rest.                              *)
Runs(p) ==
  /\ part = p /\ UNCHANGED part
  /\ IF p = "rooms" THEN TRUE ELSE UNCHANGED roomVars
  /\ IF p = "rates" THEN TRUE ELSE UNCHANGED rateVars
  /\ IF p = "discovery" THEN TRUE ELSE UNCHANGED discoveryVars
  /\ IF p = "client" THEN TRUE ELSE UNCHANGED clientVars
  /\ IF p = "arena" THEN TRUE ELSE UNCHANGED arenaVars
  /\ IF p = "avatar" THEN TRUE ELSE UNCHANGED avatarVars
  /\ IF p = "lobby" THEN TRUE ELSE UNCHANGED lobbyVars
  /\ IF p = "chat" THEN TRUE ELSE UNCHANGED chatVars

Next ==
  \/ Runs("rooms") /\ RoomsNext
  \/ Runs("rates") /\ RateNext
  \/ Runs("discovery") /\ DiscoveryNext
  \/ Runs("client") /\ ClientNext
  \/ Runs("arena") /\ ArenaNext
  \/ Runs("avatar") /\ AvatarNext
  \/ Runs("lobby") /\ LobbyNext
  \/ Runs("chat") /\ ChatNext

Spec == Init /\ [][Next]_vars

(* Safety: each variable keeps its type.                                    *)
TypeOK ==
  /\ RoomsTypeOK /\ RateTypeOK /\ DiscoveryTypeOK /\ ClientTypeOK
  /\ ArenaTypeOK /\ AvatarTypeOK /\ LobbyTypeOK /\ ChatTypeOK
=============================================================================
