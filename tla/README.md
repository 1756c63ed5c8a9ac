# DreamSwipe: a TLA+ verification project

DreamSwipe is a two-player game over short-dated prediction markets. Two players
stake equal collateral in a contract, swipe UP or DOWN on the same committed deck
of market cards, and the one with the higher realized profit takes the pot. A
TypeScript server pairs players over WebSockets, builds and reveals decks, relays
signed swipes, settles cards from the venue and mirrors the chain for the web
client. Paths below are relative to the repository root, `src/`.

Contents: 1 the system, 2 the modules, 3 the runs, 4 the laws of the pure functions,
5 findings and observations, 6 proofs, 7 what is not modelled and what is next.

## 1. The system

| Component | State | Right when |
|---|---|---|
| Duel contract, `apps/contracts-evm/src/DreamSwipeDuel.sol` | duels, decks, swipes, settled cards, nonces, keeper, token balances | escrow is exact; each duel is paid once, to its two players; scores count every settled card once; a swipe is what its player signed; stakes always come back |
| Season prize pool, `SeasonPrizePool.sol` | seasons, allocations, claims, balances | totals are exact; every winner of a finalized season is covered and paid once |
| Matchmaking, `apps/server/src/ws/matchmaking.ts` | a bucket of sockets per tier, pending pairs and their timers | only two waiting, different players are matched; no pairing hangs |
| Duel rooms (same file), `ws/match-clock.ts` | subscriptions, forfeit timers, clocks | no forfeit for a player who is there; a stale snapshot never skips a card |
| Keeper, `somnia-keeper.ts` | tracked duels, overlapping sweeps | a card settles as the venue resolved it; every tracked, resolved duel gets finalized |
| Indexer, `somnia-indexer.ts` | tracked duels, overlapping polls, mirror rows | the mirror is never ahead of the chain and catches up with it |
| Relayer, `relayer.ts`, `relay-api.ts` | requests in flight | a reply of ok is a swipe on chain; a nonce is relayed once |
| Decks, `deckmaster.ts`, `card-source.ts`, `dreamdex-card-source.ts`, `packages/dreamdex` | caches, deck store | the deck revealed is the deck committed; its cards can be traded |
| Database, ratings, boards, `db.ts`, `mmr.ts`, `*-api.ts`, `season.ts` | tables | each duel counts once for both players; boards and prizes agree |
| Rate limiter, `ratelimit.ts` | token buckets | a key is never granted more than burst and refill |
| Chat, avatars, practice, bot arena (server and client halves) | rows, caches, sessions | no message is lost or doubled; a stored choice is not overwritten; a match ends, and is scored on the truth |
| Web client, `apps/web/src` | lobby, live duel, screens, charts | a player is let in who can play; no card is skipped; screens agree with each other and with the chain |

Interactions. The web client talks to the server over one WebSocket (queue, rooms,
prices, practice, chat) and HTTP (relay, boards, avatars, arena), and sends createDuel
and joinDuel from the player's wallet. The relayer and the keeper are transactions of
server accounts on the contract; the indexer polls the contract into the database and
pushes rows into rooms; `matchPair` asks the deckmaster for a deck between two awaits.
The chain runs one transaction at a time. The server runs one callback at a time, and
anything may run between a callback's awaits. Signatures, transactions, replies and
messages may arrive late, in any order, or never. The server keeps its queues, timers
and tracked sets in memory only; a restart starts them from nothing.

What is hard to test here: interleavings at the awaits of the server; intervals that
start a run whether or not the last one ended; timers that race late answers; a
reconnect in the middle of anything; a pooled balance shared by all duels (and all
seasons of a token); settlement spread over many transactions while swipes still
arrive; several ways to end a duel, racing; units that change between two programs.
`PROJECT.json` lists each hazard at its line, with the properties that would catch it.

## 2. The modules

### The contracts

**`DreamSwipeDuel`** has one action per external function. A revert changes nothing,
so a `require` is a guard. A duel id is the `_duelSeq` it is derived from, and a
commit is the deck it commits to: both take the hash as injective. `bal` is the ERC-20
ledger; a transfer that cannot be covered reverts the call. `SignSwipe` is the web
client: it signs with the nonce read from the chain, and the signature stays in
`signed`, from which the keeper may submit it at any time or never. The reported
premium and fill are any of `Fills`, which is the trust the contract documents.
`cardEvents` is the CardSettled log with the evidence each card was settled on.
Integers are unbounded: stakes and scores are far below 2^127, and the settled count
never passes the deck's size, below 2^8.

**`DuelEscrow`** is what the duel contract promises about money and nothing else:
pots opened with one stake, matched with an equal one by another player, paid out
once, whole, to those players. `ImplementsEscrow` maps each duel to its pot
(`PotOf`) and each account to a wallet or the vault.

**`DuelViews`** is the contract as others see it. The client (`DuelClient`, below) reads a
duel and decides which refund to offer; `Granted` is what the contract would grant, from
the very guards of its actions. The services read only a part of a duel; `View` maps the
contract to the chain of `DuelChain`, over which the pipeline runs.

**`SeasonPrizePool`** has one action per external function; several seasons may share
a token, hence a balance. `setAllocations`' loop is `AllocateAll`, a recursive function
of the number of turns taken. **`SeasonClaim`** adds the claim panel of the client: what
`load` makes of its four reads, the call, and what is shown.

### The server's processes

**`Matchmaking`** models each call of `joinQueue` as a task whose `pc` is the await it
is suspended at, so every other handler can run between two awaits. `picking` covers
`findClosestOpponent`: ratings and waiting times are abstracted to "any candidate, or
(with `MayMiss`) none". `SpliceIndexOf` keeps what `q.splice(q.indexOf(w), 1)` does
when `w` is gone: it drops the last element. `found` is what a client was last told of
its match. Three constants choose the question asked: `MayMiss`; `LookupAtomic`, under
which nothing touches the queues while a lookup is in flight; and `DuelCreatedHandled`,
whether anything calls `takeMatchedPair`. The code as it stands is
`LookupAtomic = FALSE` and `DuelCreatedHandled = FALSE`.

**`DuelRooms`** is the rest of `matchmaking.ts`: subscriptions by connection, the
addresses that a hello gives them, and the forfeit timer that a close arms when its
address has no other connection in the room. `HelloWhileSubscribed` says whether a
client may say hello after it entered a room; the web client does not.

**`DuelChain`** is the small chain the services see: per duel its status, the cards
recorded and settled, per market what the venue says, and a mempool from which a
transaction is mined later, or reverted when the contract's guards fail by then.
**`SomniaKeeper`** has a record per sweep with the await it is at, **`SomniaIndexer`**
one per `refreshAll` run, which reads `getDuel` and `getDeck` from possibly different
blocks, and **`SwipeRelayer`** one per request. **`Pipeline`** composes the four in one
process: a relayed request makes the keeper track the duel, the boot backfill fills
both tracked sets as far as its log windows answer, and `Restart` clears what is in
memory while mined and waiting transactions stay. A failing call is a choice, counted
by `MaxFaults`.

**`RateLimit`** counts a token in units so that no refill is rounded away, and keeps
what the sweep does: it looks a limit up by the text before the first colon.
**`MarketDiscovery`** is the single-flight cache around the market scan, the live reads
that follow it, and the choice of cards. **`ChatRoom`** is chat end to end: rows with
ids in insertion order, broadcasts, the history that replaces a client's list, pruning
and reconnects; `overtook` is a history variable that names the messages sent between a
history's read and its sending. **`AvatarStore`** is the client's session cache against
the endpoints and rows, with other devices writing and reads that fail.

### The client's processes

**`PracticeSession`** is the practice hook over a socket that duplicates, delays and
drops; `phaseRef` lags behind the phase as React's passive effects let it.
**`ActiveDuel`** is the live duel in any number of tabs over a mirror that lags: rows
are read at one time and delivered at another. **`SwipeDeadline`** is its clock, with
times in milliseconds and the venue's expiry in seconds. **`PvpLobby`** is the way from
the gate to createDuel, with the queue messages, the effect's guard and remounts.
**`BotArena`** is the arena screen with the settlement endpoint; its history variable
`crossing` names the polls that were in flight when a deck was dealt.

### The pure functions

**`BookMath`** (order-book arithmetic, the adapter's reading of the venue and the arena's
strategies), **`Deckmaster`** (deck selection, strikes, hints, commitments, the deck's HTTP
routes), **`Mirror`** (the boot, schema, tables and cursors of `db.ts`, the ratings, the
boards, the duel routes), **`NetworkConfig`** (which network a value belongs to),
**`ResultMath`** (profit, verdicts, replay, ranks, prizes and practice scores in the
client), **`DuelClient`** (what the client reads of a duel, calls and offers),
**`DuelScreen`** and **`SwipeSurface`** (what the screens show) and **`Server`** (boot,
routing, the dispatcher, health, shutdown, the price streams and the practice spot). They
keep no state of their own: their operators take the state as a parameter and return the
next one. A nullable value is a set of at most one element. `ServerChecks` and
`ScreenChecks` state their laws (section 4).

**`Components`** puts eight of the processes side by side (section 3).

`MC*` modules hold the instances and `*Proofs` modules the theorems (section 6). Operators
named `X_Something` next to a definition `X` are deliberate faults, used by the mutants
that show each property can fail.

## 3. The runs

| Run | Instance | Shows |
|---|---|---|
| `DuelEscrow` | 3 players, 2 duels in one token, 1-card decks, 2 signatures | the balance is exactly the open stakes; the contract implements `DuelEscrow`; the shared nonce spends a signature once, for the swipe that was signed |
| `DuelScoring` | 2 players, 1 duel of 2 cards (free or staked), 2 orders of the deck, 2 keepers, clock past both timeouts | the deck in play is the committed one; counter and scores are exact under any order of settlement and late swipes; a Complete duel is frozen, whichever of finalize and the timeouts came first; only a strictly higher score over every card takes the pot; the client offers a player a refund exactly when the contract would grant it |
| `Endings` | 2 seasons in one token with 2 players; 2 duels in 2 tokens with a clock past both timeouts; a practice deck of 2 cards, 2 starts, 1 drop | season totals, balance and cover are exact, nobody is paid twice, a winner who keeps claiming is paid; the claim panel offers a prize exactly when the pool would pay it; every Active duel ends; a practice deck is played once, scored truthfully, and ends |
| `MatchQueue` | 3 players, 2 tiers, 4 joins, `LookupAtomic` | queues and sockets agree; only waiting players are matched |
| `MatchTabs` | 3 tabs of 2 players, 3 overlapping joins | nobody is matched with themselves; every pending pair ends |
| `Pipeline` | 1 duel of 2 cards, 2 sweeps, 2 polls, 2 requests, 1 fault, 1 restart | outcomes are the venue's; an ok reply is a swipe on chain, once per nonce; the mirror is never ahead; settlement and mirror get finished |
| `Components` | 8 parts, one at a time (below) | rooms, limiter, discovery, live duel, arena, avatars, lobby and chat each keep their main promise; TLC evaluates all laws of section 4 first |
| `DuelLateSwipe` | 1 duel, 1 card | **violation**: a swipe can be recorded after its card was settled |
| `MatchStale` | 3 players, overlapping joins | **violation**: a player who left or was matched is matched |
| `MatchAbandoned` | 2 joins, no caller of `takeMatchedPair` | **violation**: a created match is abandoned |
| `LobbyReady` | wallets with and without the stake and an allowance | **violation**: a player the gate lets in cannot escrow the stake |
| `CardDeadline` | 2 cards with expiries within the window | **violation**: the first price tick locks the deck |

`MatchQueue` against `MatchStale` locates that fault: the queue discipline is right
whenever a lookup is not overtaken, with every other handler, failed decks and retries
included, and breaks only through the two awaits.

**Parts.** `Components` and `MCEndings` hold components that share no variable. A
variable `part`, fixed at the start, names the one that runs while the others stay at
their beginning. Since no action of one reads or writes a variable of another, each
behaviour of a component alone is a behaviour of the run, and every property there but
`TypeOK` speaks of one component only.

**Focus.** `MCPipeline` is not a product: all the services at once are beyond TLC. A
variable `focus` gives each behaviour to one question, and names what is held still.
`settle`: two sweeps with failures, late mining and restarts, polls off, and relay
requests that only make the keeper track the duel, with markets resolving in deck order.
`mirror`: two polls with failures over one sweep that does not fail, which starts once the
markets are resolved. `relay`: two requests with late mining and restarts, no sweeps or
polls. What is held still is one-way: the relayer adds to the keeper's tracked set and to
the chain's swipes, the indexer reads the chain and nobody reads it back, so a service
that is held still takes nothing away from the others but interleavings with its own
failures. The run does not cover those products (a failing sweep under a
failing poll); for the safety properties the proofs of section 6 do.

**Bounds.** Two duels are the fewest that can spend each other's escrow, and three
players the fewest for an outsider. Two cards are the fewest with an order of
settlement; the two decks of `DuelScoring` hold the same cards in another order, so
only the commit tells them apart, and `Endings` has a deck longer than its declared
size. Premium 1 and fill 3 tell a win (2), a loss (-1), a void (0) and a missing swipe
apart by sign or by whether the void's rounding matters. Two signatures are the fewest
that compete for one nonce. The clock needs to reach only the timeouts, whose lengths
are relative; in `DuelEscrow`, where time is not the question, `MaxTime` and both
timeouts are 0, so refunds are possible at any moment; in `DuelScoring` they are 0 and 1,
and the client counts two units in a second, so that it looks between two blocks. Three sockets are the fewest for
a stale choice; three joins let two overlap with a third, and four allow a second match
of a creator. Two sweeps and two polls are the fewest that overlap; one fault can hit
any of their calls, and one restart falls at any step. In `Components`: two rooms with
three connections of two players; two keys, one found and one not found by the sweep,
and a clock twice past a sweep; three markets with staggered lives, two callers, two
scans; one tab with two mounts (so a screen leaves and resumes); two decks of two cards
out of three markets, in flight across a deal; two matches, two joins, three
transactions and a drop; three messages with a history and a retention of two, so that
pruning cuts. Names of bounds: `MaxDuels`, `MaxTime`, `MaxSignatures`, `MaxBatch`,
`MaxJoins`, `MaxFaults`, `MaxRestarts`, `MaxClock`, `MaxScans`, `MaxVoids`,
`MaxMounts`, `MaxAsked`, `MaxDeals`, `MaxWrites`, `MaxReads`, `MaxLoads`, `MaxPosts`,
`MaxMatches`, `MaxCalls`, `MaxLobbyDrops`, `MaxMessages`, `MaxReaderDrops`,
`MaxStarts`, `MaxDrops`, `MaxMs`. `CHECK_DEADLOCK FALSE` stands where a bound or the
end of play stops the system.

**Fairness.** Duels: blocks keep coming, and a timed-out duel is claimed, which anyone
may do and a staked player wants; nothing is asked of keeper or opponent. Seasons: a
winner who may claim does. Practice: the hook's effects run after a render and time
passes; nothing is asked of the server or the socket. Matchmaking: awaited lookups
answer, decks are built or fail, armed timers fire; nothing is asked of the players.
Pipeline: the two intervals fire, an await that does not fail returns, and a receipt
comes once the transaction is mined.

Two liveness properties name the case in which the code gives no such promise.
`SettleFinishes` excludes a sweep that still holds a reply from before the duel was
Active: it makes the keeper forget the duel (`somnia-keeper.ts:221`).
`MirrorFinishes` excludes a run that is already on the duel when it completes: it may
write its older read last, after the run that read COMPLETE stopped the polling
(`somnia-indexer.ts:225`), and leave the row behind for ever.

## 4. The laws of the pure functions

The two `*Checks` modules are assumptions over small bounded inputs, which TLC
evaluates before `Components` (every module of laws is extended by `MCComponents`).
Each is commented with the behaviour it is about; they are of three kinds.

*Against a reference definition.* Books, quotes, payouts and refunds
(`BooksAreOrdered`, `QuotesTakeTheCheapest`, `PairsAreNotFree`, `PayoutIsShared`,
`OppositePicksAreZeroSum`); the strategies (`ContrarianIsCheaper`,
`HarderIsOnlyBolder`, `FadersAgree`, `MomentumFollows`); the deck
(`MarketsAreTheSoonest`, `TiersKeepTheirShare`, `DeckFitsTheContract`,
`CardsAreDistinct`, `QuotedCardsAreDistinct`, `ShuffleIsFair`, `HintsPointTheSameWay`);
the opponent (`OpponentIsTheClosest`, `OutcomeIsSymmetric`).

*Two parts of the code that must say the same.* The result card, the history and the
ratings (`ResultsAgree`), the prize pool and its positions (`PoolIsWhatIsPaid`), board
and card (`BoardAndCardAgree`, `SpellingsAreOnePlayer`), board and rank screen
(`RankScreenAgrees`, `TiersRise`), what the prize panel shows and what is there
(`ShownIsNoMore`), a list and its filters and details (`PlayersFilter`,
`ListedCanBeOpened`), boots that share a database (`RoundsAreShared`, `SchemaGrows`,
`CursorsAreApart`), replayed ratings
(`ReplayIsFair`, `StakedCountsAddUp`), commitment and reveal
(`RevealOpensTheCommitment`), networks (`AnswersOfTheNetworkAsked`,
`MainnetBorrowsNothing`, `MarketsAreOfOneNetwork`), sound and badge, chart and tiles
(`SoundAndBadgeAgree`, `ChartIsSumOfTiles`, `HiddenTilesTellNothing`), the replay and
the surface as sequences of steps (`ReplayEnds`, `OneSwipeOfACard`, `CountdownIsExact`,
`CardsMarkedOnce`), practice (`PointsFollowTheOdds`, `ScoreIsWhatWasShown`,
`EstimateIsNeverLate`, `BarEndsWithTheLastCard`), the stream (`TicksAreForWatchers`,
`WalkStaysInside`, `SyntheticIsLabelled`), the server (`RelayedDuelsAreSettled`,
`HandlersAreDisjoint`, `AnsweredOrHandled`, `OnlyTheAbleQueue`, `SwipesArePlayable`).

*Surprises.* A law that says something CAN happen records a behaviour that a reader of
the code's comments would not expect; section 5 lists them.

The laws are not state properties: no run names them in its cfg. Bounds are chosen so
that ties, empty inputs, one-sided books, equal times and both ends of an interval
occur; divisions are the bigint divisions of the code, and a floating-point value is a
whole number of small units or any member of a set.

## 5. Findings and observations

The five violations of section 3 are findings, quoted with their lines in
`PROJECT.json`: late swipes that are stored and never scored
(`DreamSwipeDuel.sol:408`), stale opponents (`matchmaking.ts:222`), a created match
abandoned because nothing calls `takeMatchedPair` (`:421`), a gate that does not ask for
the allowance that nothing grants (`onboarding-modal.tsx:47`), and an expiry sent in
seconds and read as milliseconds (`market-stream.ts:140`).

Met while modelling and given no run; the name of a law is in brackets where one shows it.

*Matchmaking and lobby.* Overlapping joins of one socket leave it queued after it closed
(`matchmaking.ts:235`); a creator's second match overwrites the pair and stands down its
first challenger's timer (`:345`); two simultaneous joiners both wait until a third
comes (`:209`). After a socket drop the queue screen stays for ever; a cancel that
races `match_found` still mounts the duel and sends createDuel. A wallet that
is switched in one tab, while its lookup is in flight, to the one that waits in another
says hello again on the same socket (`use-flicky-socket.ts:188-195`) and is then matched
with itself. createDuel is asked for
again on every render after a failure (`active-duel.tsx:284`), where `:243-244` calls
the effect idempotent. Nobody sends `duel_assigned` and only scripts call
`revealDeck`, so a created duel does not progress by itself. `funding.ts` counts stake
and premium, the gate only the stake.

*Settlement and mirror.* Overlapping `refreshAll` runs can leave a row behind for ever
(against `somnia-indexer.ts:224`); a Pending duel leaves the keeper's tracked set
(`somnia-keeper.ts:221`). `applyDuelOutcome` runs only in the replay: no rating is
written live. The indexer upserts empty outcomes and swipes (`somnia-indexer.ts:214`),
so every ACTIVE duel with a settled market is shown as dead (`EveryDuelLooksDead`) and
the result counts no hits. `stakedDuelCounts` compares with the Sui coin type
(`network-env.ts:157`) what the indexer stores as a token address, so it is 0.
`/leaderboard/me` lower-cases the address, the rows keep its case (`MixedCaseHasNoCard`).
Equal timestamps are replayed in any order (`ReplayOrderMatters`). Ranks that tie
promise one prize twice (`TiesPromiseTwice`). `setDuelWinner`, `mergeCardOutcome`,
`saveCursor`, `loadCursor`, `savePredictMarket`, `saveMarketSettlement`,
`saveOrderPremium` and the cache's `clear` have no caller outside the tests.
A pool closed at shutdown is opened again by a loop that still runs (`ClosedIsReopened`).

*Decks and venue.* `readBtcSpot` always throws, so `/deckmaster/generate` always fails
(`GenerateNeedsSpot`). Practice cards can coincide (`DuplicatesArise`). The pool of
markets is shuffled although its comment prefers the soonest
(`dreamdex-card-source.ts:67-70`). A market void by its code alone still has a winner
(`VoidCanHaveAWinner`). A deployment file without a network is taken for mainnet's
(`UnlabelledIsAnyones`); the build's own network is not checked
(`BuildNetworkIsNotChecked`).

*Screens.* The tick's price is a probability, which the swipe screen compares with the
strike: YES is locked (`YesIsLockedOnRealTicks`). A null mid makes the screen throw
(`EmptyBookBreaksTheScreen`). A card dragged when the window expires flies off with
nothing sent (`CardLostInTheAir`). The countdown to a refund ends 115 minutes before that
of a revealed deck (`CountdownEndsTooSoon`). A skip of the replay clears no timers
(`SkipIsUndone`); a poll cuts a replay longer than five seconds (`PollCutsReplay`,
`LongReplaysAreCut`). The home chart loses the marks of the next duel
(`NextDuelLosesMarks`). The practice ledger ignores the settlement price
(`LedgerFollowsTheSpot`), practice points may contradict the winner
(`PointsCanContradict`), and the synthetic walk is a predictable sawtooth that each dealt
deck moves (`WalkIsASawtooth`, `DealingMovesTheSpot`). The hero card asks for 500 ranks
and gets at most 100, so a player beyond them looks unranked; so does one whose rank could
not be read (`FailureLooksUnranked`). The claim panel says "claimed" when the wallet
returns a hash, without a receipt, and a load that was started for one account is shown
for the next. An arena poll in flight when the next deck is dealt settles its cards by
place (`bot-arena.tsx:231`).

*Server.* `/health` reports the relayer by its own key alone
(`HealthMisreportsTheRelayer`), although it falls back to the keeper's; with one key
both send from one account (`OneKeyServesBoth`). `/sponsor` and `/manager` are
announced and served by nobody (`AnnouncedButAbsent`), unknown paths and most wrong
methods answer 200 (`WrongMethodSucceeds`). A refused RPC connection passes for the
database's (`DatabaseFailureIsSurvived`). Shutdown stops no writer before the database
closes (`WritersOutliveTheDatabase`). A join refused at the gate spends its token
(`RefusalsAreCharged`); sockets without an address share a bucket
(`AnonymousShareABucket`); a reaction returns to its sender (`ReactionsEcho`). The
limiter's sweep drops buckets of routes with a colon however empty, and keeps the
others for ever. A thin book fills less than no book (`ThinBooksFillLess`). A failed
database read is served as an empty table, and the client overwrites the stored icon
with a starter (`avatar-api.ts:93`).

*Contracts.* The prize pool's header says the operator withdraws surplus, where the code
lets only the owner. `env.ts` and `rank.tsx` still call payouts manual.

## 6. Proofs

Eight modules hold them. Every theorem is about all values of the constants that satisfy
the named assumptions of the modules (natural bounds, finite nonempty sets, distinct
special addresses, decks that are not empty), which TLC evaluates in the runs. Each
follows the same argument: an inductive invariant, shown to hold at the start
(`...Start`, `Init...`), to be kept by every action (one lemma per action or kind of
action, put together in `...Step` or `...Kept`), and to imply the property. The theorems of
`BookMath` are about operators and need no invariant.

| Module | Theorems | Invariant |
|---|---|---|
| `SumProofs` | lemmas on `SumFunctionOnSet` | |
| `DreamSwipeDuelProofs` | `TypeCorrect`, `EscrowIsExact`, `ScoresAddUp`, `OnlySignedSwipes`, `OnlyCommittedDecks`, `FinalMeansFinal`, `PotsAreEarned` | `DuelInv` |
| the same | `Refinement`: the contract implements `DuelEscrow`; `ServicesSeeTheContract`: it implements `DuelChain`; `EveryRefundGranted` | `RefInv`, `DuelInv`, `HiddenDecks` |
| `PoolProofs` | `PoolTyped`, `TotalsAddUp`, `PoolIsExact`, `EveryPrizeCovered`, `NoPrizeTwice`, `PoolCanPay`, `EveryPrizeGranted`, `PanelStaysRight` | `PoolInv` |
| `MatchmakingProofs` | `QueueTypes`, `NobodyPlaysThemselves`, `QueuesAgree`, `OnlyTheWaitingMatched` | `TypeOK`, `SelfInv`, `QueueInv` |
| `PipelineProofs` | `PipelineTyped`, `OutcomesAreRight`, `RepliesAreTrue`, `MirrorIsBehind` | `PipelineTypes`, `VerdictsInv`, `RelayInv`, `MirrorInv` |
| `ServerProofs` | `NoTimerForThePresent`, `NoTokenTwice`, `ScansShared`, `DecksArePlayable`, `ChatLosesNothing`; `RoomsTyped`, `RatesTyped`, `DiscoveryTyped`, `ChatTyped` | `RoomsInv`, `RateInv`, `DiscoveryInv`, `ChatInv`, `ChatBounds` |
| `ClientProofs` | `NoCardSkipped`, `ArenaIsHonest`, `StartersSpareChoices`, `OneStakePerMatch`, `PracticeIsTruthful`, `DeckStaysInPlay`; `ClientTyped`, `ArenaTyped`, `AvatarsTyped`, `LobbyTyped`, `PracticeTyped`; `PartsAsAlone`, `PartsTyped` | `ClientInv`, `ArenaInv`, `AvatarInv`, `AvatarBounds`, `LobbyInv`, `LobbyBounds`, `PracticeInv` |
| `BookMath` | `SidesShareThePayout`, `OppositePicksSumToNothing`, `AgainstTheCrowdIsCheaper`, `ImbalanceIsAFraction`, `HarderMakesTheSameCalls` | |

**Sums.** The escrow, the scores and the season totals are folds over sets, whose library
definition recurses over a CHOOSE. An induction theorem with an operator parameter cannot
be used, so `SumProofs` reasons by a smallest counterexample: inclusion is well-founded on
the subsets of a finite set (`SmallestSet`). From it come that the recursion has a value
(`SumsExist`), that the value does not depend on the order (`OneAddsUp`), and the lemmas
the other modules cite: what one more element adds, what an update at one element
changes (`SumUpdate`), a split in two (`SumSplit`), a sum of naturals.

**The duel.** `TypeOK` is not inductive: a payout keeps the balances typed only if
creator and challenger are players and differ, and a card's scores are typed only if both
have swipes; `TypeInv` adds `DuelsWellFormed`, which ties a duel's fields to its status.
`RefInv` adds `FreshIds`: a creation overwrites an id that held nothing. `DuelInv` adds
the four safety properties themselves, which need each other: a settled card counts only
if the deck is the committed one and the event log has that card once, and a payout keeps
the escrow exact only because what leaves is what the duel held (`EscrowFollows`,
`EscrowStands`). `FinalMeansFinal` and `PotsAreEarned` are action properties over it: only
the three ends complete a duel (`OnlyEndsComplete`), and an end that pays a player
anything but their own stake compared two scores over every card. `PotIsEarned` sees the
balances only, so its proof has to show what every other way to close a duel moves.

**The refinement.** `PaysIn` and `PaysOut` derive from `Transfer` what a call does to the
escrow's view of the balances. Creating is `Open`, joining is `Match`, and each way to
close a duel is a `Pay` whose split `ClosePays` checks; every other call is a stutter.

**The contract and the services.** Keeper, indexer and relayer are modelled over
`DuelChain`, a smaller contract; that it is the same one is `ServicesSeeTheContract`.
Through `View` every call of the contract is a call of the chain, a transaction with its
effect (`Execute`, what `Mine` does once it takes a transaction from the mempool), or
changes nothing that is seen. The hypothesis is that decks have one size, as `DuelChain`
has it. That a call of the contract cannot do what the chain does not know rests on
`DuelInv`: a settlement carries the verdict of its event, a recorded swipe uses its
player's nonce, and finalize finds every card settled.

**The contract and the client.** `EveryRefundGranted` has two directions. What is offered
is granted: the client's clock may be behind, never ahead, its timeouts are the
contract's, and the transfers cannot fail, because the escrow is exact and a pot is part
of it (`EscrowExact` with `Held`). What is granted is offered: the client reads a missing
deck as one that was not revealed, which is `HiddenDecks`. A duel joined at time 0, which
no block has, is excepted.

**The season pool.** `PoolInv` is typing, `SeasonsWellFormed` (a finalized season is
funded for what is allocated; nobody claims before), `TotalsExact` and `PoolExact`. The
loop of `setAllocations` has its own invariant: after every number of turns the running
total is the sum of the shares (`AllTurns`), whatever the order and the repetitions in
the batch. `Covered` is the step from books to money: the other seasons of a token hold
no less than nothing, so a season's own part is in the common balance. `PoolCanPay` takes
it to the two transfers out of the pool, one winner at a time, and `EveryPrizeGranted` to
the panel. Its four reads are two batches with an await between: `PanelStaysRight` takes
the second from after any call and compares with the panel of that state.

**Matchmaking.** Types hold of the code as it is, for any overlap of joins. The two
other results carry the condition under which the code earns them, and section 3 or 5
has the counterexample without it. `NobodyPlaysThemselves` assumes `OneWallet`: a
connection says hello with one wallet. `SelfInv` follows what a task holds across its
awaits: the filter compares addresses once, and the invariant keeps two connections apart
although either may close in between and leave `NoAddr`. `QueuesAgree` and
`OnlyTheWaitingMatched` assume `LookupAtomic`, that no lookup is overtaken: `QueueInv`
says that a queue holds those who wait in it, once, and that a candidate still stands in
the bucket searched. `MatchStale` violates the second without it, which is the finding.

**The pipeline.** The services touch the chain in four ways (`ServiceMove`: send, take a
receipt, give up, leave alone), so each invariant is shown for those, for the players'
and admin's calls, and for the block that mines. `VerdictsInv` extends the property to
verdicts that wait in the mempool, `RelayInv` ties a waiting transaction to its request
and a landed one to a used nonce, through restarts that orphan it. `MirrorInv` compares
what was read and what was written of a duel with the chain (`Behind`), where a run may
have read its two halves from different blocks; that the run's own reads stay behind
follows from what a call can do to a duel at all (`Grows`). These proofs do not know the
`focus` of the run: they cover all services at once, failing sweeps under failing polls
included.

**The server's other processes.** `NoTimerForThePresent` assumes `~HelloWhileSubscribed`:
a hello after entering a room gives an address to a connection whose timers
`subscribeRoom` did not know to cancel. `RateInv` adds that no bucket was refilled in the
future, and `RefillsAdd` splits a bucket's time at its last refill. `DiscoveryInv` ties a
waiting caller to the scan in flight and what a request holds to a time since it was
asked for: a market read as live is remembered by the request, not by the clock.
`ChatInv` follows a message from its row to the screens: the table and every history
read from it are the newest ids without a gap (`NewestRows`, `InOrder`), and whatever was
sent and is not in a history overtook it or comes after it on the wire (`Complete`).
`ChatLosesNothing` assumes that neither limit is 0 (`env.ts:290-291` sets 50 and 1000 by
default): an empty history of a table with rows leaves a gap for a message whose
broadcast comes late.

**The client.** Each over its own specification, whose steps are those the runs
`Components` and `Endings` take.

- `ClientInv` must say which late answers may be under way, since an answer moves the
  phase on: a call is of a card whose predecessors are on chain (`CallsOK`), at most one
  call of a card was recorded (`RecordedOnce`), and rows under way are old (`RowsOK`).
- `ArenaInv`: a poll in flight is one that crossed a deal, or of this deck swiped to its
  end; no deck is dealt while one is on its way.
- `AvatarInv`: once a session is told that it has no row, or sent a starter, its own
  address is cached until the next page load, and a starter is awaited only before that.
- `LobbyInv`: a match is announced once. Its number is at most once in a pairing or on
  the wire, and no more once it is matched, mounted or called for (`FreshNumbers`); a call of
  the screen's mount is held back by `sentCreate` (`CallsGuarded`); and a match has one
  more duel than failures the client heard of only by a call that landed (`Paid`).
- `PracticeInv`: a deck is in play exactly while it is latched, and a handler that reads
  an older phase reads the same card, or the one at which the match broke off.

**Types and bounds.** For rooms, buckets, scans, live duels and the arena the inductive
invariant holds the types. Three need more, since their types also bound what is
remembered or awaited. `ChatBounds`: whatever is stored, on the wire, in a history or
shown was posted. `AvatarBounds`: of an address at most one icon is
known, and the reads, writes and picks under way are of those begun. `LobbyBounds`: each
queue_join that was sent is on the wire, at a gate or at its rating lookup, at one of them
at most (`SeatBound`), a match is of a pairing, and no wallet is overdrawn because a call
lands only where it is covered. `PracticeTyped` has to find the latest end of a lock-up
over the cards, a minimum of bounds (`LockupHasEnd`). `PartsAsAlone` takes all these, and
every theorem on one of its parts, to the composition: a step of it is a step of each
part's own specification or leaves that part alone. `PartsTyped` is then the `TypeOK` that
the run `Components` checks.

**The arithmetic.** Bigint division rounds towards zero; `OverOf` bounds what it leaves and
`UpCostOf` keeps the cost of a pick between nothing and the stake. The arena is zero-sum
because the second cost is the stake less the first, rounding included, and a void card
refunds two whole halves: the stake is even, as `BookAssumption` says of
`STAKE_PER_CARD` (`bot-arena.tsx:59`). Section 4 checks the same laws on small books;
the theorems hold for every price, depth, quantity and scale.

**Assumptions.** Those of the modules are bounds and sets the code's constants satisfy;
they are named `...Assumption` in the module that declares the constant, and evaluated by
TLC. Hypotheses of single theorems are named above with what fails without them:
`~HelloWhileSubscribed`, `OneWallet`, `LookupAtomic`, chat limits above 0, decks of one
size.

**Only model-checked, and why.** Liveness (`PairsSettle`, `SettleFinishes`,
`MirrorFinishes`, `PracticeEnds`, `WinnersPaid`, `StakesComeBack`) is beyond the proof
system. Every invariant and every other action property of a passing run is a theorem. Of
the laws of section 4 those that recurse over a sequence need an induction over data, which
the provers cannot do; they stay bounded. The five violations are counterexamples and need
no proof.

## 7. Not modelled, and the plan

Modelled in part (`PROJECT.json` says of each component what is left out): floating
point (Elo's expected score, Black-Scholes, the SVI quote) is any value or a constant
function; the PRG and Keccak are a choice and an injection; the indexer's and adapter's
RPC transport is a call that may fail; order placement on the venue, which only agent
scripts call, has its price arithmetic in `BookMath` and no process; a schema is which
tables and columns exist, and SQL is set operations on rows.

Not modelled: layout, styling, sounds, banners, the onboarding tour and the UI package,
which keep no protocol state; SQL clients; deployment scripts; ABI files, which are
generated; the Move-era Sui code that `src/` still refers to in comments; tests.

Next:

1. Proofs: every safety property that a passing run checks is proved. Left are the
   pure functions other than `BookMath` that need no induction over data (symmetry of
   outcomes, ranks), which section 4 checks on bounded inputs.
2. A failing sweep under a failing poll in one behaviour of a `Pipeline` run, for the
   liveness properties (the safety ones are proved), with a chain of one card.
3. The leaderboard's polling and the claim panel's overlapping loads as a process.
