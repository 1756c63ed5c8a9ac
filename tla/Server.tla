------------------------------- MODULE Server -------------------------------
(***************************************************************************)
(* The entry of apps/server: which services boot and what /health says of  *)
(* them (index.ts, with the factories of the relayer, the keeper and the   *)
(* indexer), which handler answers a request, what a WebSocket message is  *)
(* answered with (ws/handlers.ts), whom a broadcast reaches                *)
(* (ws/matchmaking.ts), the price of a relayed swipe (relay-api.ts), the   *)
(* price streams (ws/market-stream.ts: who watches which market, what a    *)
(* tick says of one, and the one number that practice plays on), and the   *)
(* end of the process.                                                     *)
(*                                                                         *)
(* What may be missing is a set of at most one; so is what a read of the   *)
(* venue came to, empty where the read failed.                             *)
(***************************************************************************)
EXTENDS Integers, Sequences, FiniteSets
LOCAL INSTANCE FiniteSetsExt
LOCAL INSTANCE SequencesExt
LOCAL INSTANCE Functions

CONSTANTS RELAY_QUANTITY,  \* contracts of one swipe
          LEAST_DECK,      \* markets without which no deck is dealt
          SPOT_FLOOR, SPOT_CEILING,        \* 50_000 and 950_000 millionths
          SEED_STEP, SEED_RANGE, SEED_UNIT \* 7919, 2001 and 8

ASSUME ServerAssumption == RELAY_QUANTITY \in Nat /\ LEAST_DECK \in Nat

The(S) == CHOOSE x \in S : TRUE

-----------------------------------------------------------------------------
(* The environment: the contract's address and two private keys, each       *)
(* missing, malformed, or well formed.                                      *)
FirstGiven(a, b) == IF a # {} THEN a ELSE b
GoodKey(v) == \E x \in v : x # "malformed"
KeyOf(v) == IF GoodKey(v) THEN v ELSE {}

RelayerKey(env) == KeyOf(FirstGiven(env.relayerKey, env.keeperKey))
KeeperKey(env) == KeyOf(FirstGiven(env.keeperKey, env.relayerKey))

KeeperBoots(env) == GoodKey(env.duelAddress) /\ KeeperKey(env) # {}
IndexerBoots(env) == GoodKey(env.duelAddress)

HealthServices(env) ==
  [keeper |-> KeeperBoots(env), relayer |-> env.relayerKey # {}]

\* What relaySwipe says before any work: none when it is configured.
RelayRefusal(env) ==
  CASE ~GoodKey(env.duelAddress) -> {"DREAMSWIPE_DUEL_ADDRESS is unset"}
    [] GoodKey(env.duelAddress) /\ RelayerKey(env) = {} -> {"RELAYER_PRIVATE_KEY is unset"}
    [] OTHER -> {}

-----------------------------------------------------------------------------
(* The life of the process.                                                 *)
Loops(env) ==
  {"matchClock", "marketStream", "spotStream", "chatPrune"}
    \cup (IF IndexerBoots(env) THEN {"indexer"} ELSE {})
    \cup (IF KeeperBoots(env) THEN {"keeper"} ELSE {})

\* What still runs when shutdown closes the database.
AfterShutdown(env) == Loops(env) \ {"matchClock", "marketStream", "spotStream"}

\* An unhandled rejection: alive, and whether the database was reported.
UnhandledRejection(p, reason) ==
  IF reason \in {"DATABASE_URL", "postgres", "ECONNREFUSED"}
  THEN [p EXCEPT !.reported = TRUE] ELSE [p EXCEPT !.alive = FALSE]

-----------------------------------------------------------------------------
(* HTTP: each handler in its turn answers a request, or lets it pass.  A    *)
(* path is the sequence of its segments; the network is one that is served, *)
(* with the markets deployed.                                               *)
Handlers ==
  <<"botArena", "settlement", "relay", "health", "ws", "deckmaster", "docs", "duels",
    "leaderboard", "myRank", "season", "avatar">>

Claims(handler, method, path) ==
  CASE handler = "botArena" -> path = <<"bot-arena", "deck">>
    [] handler = "settlement" -> path = <<"bot-arena", "settlement">>
    [] handler = "relay" -> path = <<"relay", "swipe">>
    [] handler = "health" -> path = <<"health">>
    [] handler = "ws" -> path = <<"ws">>
    [] handler = "deckmaster" ->
         \/ path = <<"deckmaster", "generate">> /\ method = "POST"
         \/ path = <<"deckmaster", "reveal">> /\ method = "GET"
    [] handler = "docs" -> path \in {<<"openapi.json">>, <<"docs">>} /\ method = "GET"
    [] handler = "duels" -> path[1] = "duels" /\ Len(path) > 1 /\ method = "GET"
    [] handler = "leaderboard" -> path = <<"leaderboard">> /\ method = "GET"
    [] handler = "myRank" -> path = <<"leaderboard", "me">> /\ method = "GET"
    [] handler = "season" -> path = <<"season">> /\ method = "GET"
    [] handler = "avatar" ->
         \/ path = <<"avatars">> /\ method = "GET"
         \/ path = <<"avatar">> /\ method = "POST"

ClaimedBy(method, path) == {h \in ToSet(Handlers) : Claims(h, method, path)}

\* A preflight is answered before any handler, and what nobody claims is
\* sent to the documentation with a 200.
Served(method, path) ==
  CASE method = "OPTIONS" -> <<"preflight", 204>>
    [] method # "OPTIONS" /\ ClaimedBy(method, path) = {} -> <<"documentation", 200>>
    [] OTHER ->
         LET h == Handlers[Min({k \in DOMAIN Handlers : Claims(Handlers[k], method, path)})]
         IN  IF \/ h \in {"botArena", "settlement"} /\ method # "GET"
                \/ h = "relay" /\ method # "POST"
             THEN <<h, 405>> ELSE <<h, 200>>

\* The addresses that the boot log announces.
Announced ==
  {<<"GET", <<"health">>>>, <<"POST", <<"deckmaster", "generate">>>>,
   <<"GET", <<"deckmaster", "reveal">>>>, <<"GET", <<"sponsor">>>>, <<"POST", <<"sponsor">>>>,
   <<"GET", <<"duels", "recent">>>>, <<"GET", <<"duels", "id">>>>, <<"GET", <<"leaderboard">>>>,
   <<"GET", <<"leaderboard", "me">>>>, <<"GET", <<"season">>>>, <<"GET", <<"avatars">>>>,
   <<"POST", <<"avatar">>>>, <<"GET", <<"manager">>>>, <<"GET", <<"openapi.json">>>>,
   <<"GET", <<"docs">>>>, <<"GET", <<"ws">>>>}

-----------------------------------------------------------------------------
(* WebSocket messages.  parsed: it is JSON with a type; valid: its address  *)
(* or duelId starts with 0x, its tier is known.  tokens is what each bucket *)
(* holds; world has the wallet's balance and the number of live markets,    *)
(* none where the read fails.                                               *)
Limited == {"queue_join", "practice_start", "chat_send", "chat_react", "spot_subscribe"}
Unlimited == {"hello", "queue_leave", "room_subscribe", "room_unsubscribe",
              "oracle_subscribe", "oracle_unsubscribe", "spot_unsubscribe", "ping"}

BucketOf(type, address) == <<type, IF address = {} THEN "anon" ELSE The(address)>>

Malformation(m) ==
  CASE ~m.parsed -> {"bad_message"}
    [] m.parsed /\ m.type \notin Limited \cup Unlimited -> {"unknown_type"}
    [] m.parsed /\ m.type = "hello" /\ ~m.valid -> {"bad_address"}
    [] m.parsed /\ m.type = "queue_join" /\ ~m.valid -> {"bad_tier"}
    [] m.parsed /\ m.type = "room_subscribe" /\ ~m.valid -> {"bad_duel_id"}
    [] OTHER -> {}

(* The gate of handlers.ts; practice passes it, and joinQueue refuses it.   *)
JoinRefusal(m, address, world) ==
  CASE address = {} -> {"no_address"}
    [] address # {} /\ m.tier = "practice" -> {"practice_no_queue"}
    [] address # {} /\ m.tier # "practice" /\ m.stake > 0 /\ world.balance = {} -> {"balance_check_failed"}
    [] address # {} /\ m.tier # "practice" /\ m.stake > 0 /\ (\E b \in world.balance : b < m.stake) ->
         {"insufficient_balance"}
    [] OTHER -> IF \E n \in world.markets : n >= LEAST_DECK THEN {} ELSE {"oracles_unavailable"}

\* The error that m is answered with, the handler that is called, and the
\* tokens that are left.
Dispatch(m, address, tokens, world) ==
  LET bucket == BucketOf(m.type, address)
      limited == Malformation(m) = {} /\ m.type \in Limited
      empty == limited /\ tokens[bucket] = 0
      error == CASE Malformation(m) # {} -> Malformation(m)
                 [] Malformation(m) = {} /\ empty -> {"rate_limited"}
                 [] OTHER -> IF m.type = "queue_join" THEN JoinRefusal(m, address, world) ELSE {}
  IN  [error |-> error,
       call |-> IF error # {} \/ (m.type = "room_unsubscribe" /\ ~m.valid) THEN {} ELSE {m.type},
       tokens |-> IF limited /\ ~empty THEN [tokens EXCEPT ![bucket] = @ - 1] ELSE tokens]

-----------------------------------------------------------------------------
(* Whom a message reaches.  A connection has an address once it said hello; *)
(* only then is it in socketsByAddress.                                     *)
ConnectedAddressCount(conns) == Cardinality(UNION Range(conns))
BroadcastAll(conns) == {c \in DOMAIN conns : conns[c] # {}}
SocketsForAddress(conns, a) == {c \in DOMAIN conns : a \in conns[c]}

\* sendToAddresses: how many sends there are to each connection.
SendToAddresses(conns, addresses) ==
  [c \in DOMAIN conns |-> Cardinality({k \in DOMAIN addresses : addresses[k] \in conns[c]})]

(* handleChatReact: an error, or the connections that the reaction is sent  *)
(* to: both players' of a mirrored duel with two, or else the whole room.   *)
ChatReact(conns, c, validDuel, validEmoji, duel, room) ==
  LET two == {d \in duel : d.creator # {} /\ d.challenger # {}}
      error == CASE conns[c] = {} -> {"no_address"}
                 [] conns[c] # {} /\ ~validDuel -> {"bad_duel_id"}
                 [] conns[c] # {} /\ validDuel /\ ~validEmoji -> {"bad_emoji"}
                 [] OTHER -> {}
  IN  [error |-> error,
       audience |-> IF error # {} THEN {}
                    ELSE IF two = {} THEN room
                    ELSE UNION {SocketsForAddress(conns, The(d.creator))
                                  \cup SocketsForAddress(conns, The(d.challenger)) : d \in two}]

-----------------------------------------------------------------------------
(* The price of a relayed swipe: the venue's quote, or even odds where it   *)
(* has none.                                                                *)
EvenOdds(probability) ==
  [premium |-> (RELAY_QUANTITY * (probability \div 2)) \div probability, filled |-> RELAY_QUANTITY]

\* quote is none where the read failed.
PriceSwipe(quote, probability) ==
  IF \E q \in quote : q.avgPrice # {} /\ q.fillableQuantity > 0
  THEN [premium |-> The(quote).cost, filled |-> The(quote).fillableQuantity]
  ELSE EvenOdds(probability)

Execution(marketId, quote, probability) ==
  IF marketId = {} THEN EvenOdds(probability) ELSE PriceSwipe(quote, probability)
-----------------------------------------------------------------------------
(* The market subscriptions: a set of <<market, socket>>.                   *)
SubscribeMarkets(subs, ws, marketIds) == subs \cup {<<id, ws>> : id \in marketIds}
UnsubscribeMarkets(subs, ws, marketIds) == subs \ {<<id, ws>> : id \in marketIds}
OnSocketCloseMarketStream(subs, ws) == {s \in subs : s[2] # ws}

MarketStreamStats(subs) ==
  [markets |-> Cardinality({s[1] : s \in subs}), subscribers |-> Cardinality(subs)]

\* One of the two reads throws for both; getMarket has a catch of its own.
OracleTick(id, book, market) ==
  [type |-> "oracle_tick", market |-> id,
   spot |-> UNION {b.mid : b \in book}, bestBid |-> UNION {b.bestBid : b \in book},
   bestAsk |-> UNION {b.bestAsk : b \in book},
   expiry |-> IF book = {} THEN {} ELSE {m.expirySec : m \in market},
   settlementPrice |-> {}]

\* Every watched market is read, and its tick goes to who watches it by then.
MarketTick(subs, book, market) ==
  {<<s[2], OracleTick(s[1], book[s[1]], market[s[1]])>> : s \in subs}

-----------------------------------------------------------------------------
(* The spot of practice.  feed is its last value and the seed of the walk.  *)
FirstFeed == [lastSpot |-> (SPOT_FLOOR + SPOT_CEILING) \div 2, spotSeed |-> 0]

Drift(seed) == (((seed * SEED_STEP) % SEED_RANGE) - ((SEED_RANGE - 1) \div 2)) * SEED_UNIT
NextSyntheticSpot(feed) ==
  LET next == feed.lastSpot + Drift(feed.spotSeed + 1)
  IN  [spotSeed |-> feed.spotSeed + 1, lastSpot |-> Min({SPOT_CEILING, Max({SPOT_FLOOR, next})})]

\* The first market of bitcoin, or else the first: a sequence, none if the read failed.
SpotMarket(markets) ==
  LET bitcoin == {i \in DOMAIN markets : markets[i].asset = "BTC"}
  IN  IF bitcoin # {} THEN {markets[Min(bitcoin)]}
      ELSE IF markets = <<>> THEN {} ELSE {markets[1]}

\* The mid of that market, where it has one above zero; or else one step of the walk.
CurrentPracticeSpot(feed, markets) ==
  LET quoted == {p \in UNION {m.mid : m \in SpotMarket(markets)} : p > 0}
  IN  IF quoted # {} THEN [feed EXCEPT !.lastSpot = Max(quoted)] ELSE NextSyntheticSpot(feed)

\* The tick says whether it was walked; with nobody subscribed it reads nothing.
SpotTick(feed, spotSubscribers, markets) ==
  IF spotSubscribers = {} THEN [feed |-> feed, sent |-> {}]
  ELSE LET next == CurrentPracticeSpot(feed, markets)
       IN  [feed |-> next,
            sent |-> {<<ws, [type |-> "spot_tick", spot |-> next.lastSpot,
                             synthetic |-> next.spotSeed # feed.spotSeed]>> : ws \in spotSubscribers}]
=============================================================================
