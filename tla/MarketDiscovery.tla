--------------------------- MODULE MarketDiscovery ---------------------------
(***************************************************************************)
(* From a request for a deck to its cards: SingleFlightCache in            *)
(* packages/dreamdex/src/market-cache.ts around scanMarketCreated, the     *)
(* live reads of listMarkets in somnia-adapter.ts, and the choice of cards *)
(* in apps/server/src/dreamdex-card-source.ts.                             *)
(*                                                                         *)
(* A market is listed when it is created, trades from Opens to Expiry and  *)
(* may be voided at any time; the other statuses are not told apart, nor   *)
(* are assets, themes and collaterals.  The seed's shuffle may choose any  *)
(* cards of the eligible ones.                                             *)
(***************************************************************************)
EXTENDS Naturals, FiniteSets

CONSTANTS
  Markets,
  Created, Opens, Expiry,   \* the time of each, for every market
  Callers,                  \* concurrent requests for a deck
  SWEEP_TTL,
  MIN_HEADROOM, MAX_HORIZON,
  MIN_DECK_SIZE, MAX_DECK_SIZE,
  MaxTime,                  \* bound: the last time
  MaxScans,                 \* bound: scans of the logs
  MaxVoids                  \* bound: markets voided

ASSUME DiscoveryAssumption ==
  /\ Created \in [Markets -> Nat] /\ Opens \in [Markets -> Nat] /\ Expiry \in [Markets -> Nat]
  /\ \A m \in Markets : Created[m] <= Opens[m] /\ Opens[m] < Expiry[m]
  /\ SWEEP_TTL \in Nat /\ MIN_HEADROOM \in Nat /\ MAX_HORIZON \in Nat
  /\ MIN_DECK_SIZE \in Nat /\ MAX_DECK_SIZE \in Nat /\ MIN_DECK_SIZE <= MAX_DECK_SIZE
  /\ MaxTime \in Nat /\ MaxScans \in Nat /\ MaxVoids \in Nat

ASSUME MarketsAssumption == IsFiniteSet(Markets)

NoScan == 0
Scans == 1 .. MaxScans
Never == MaxTime + 1

VARIABLES
  now,
  voidedAt,  \* when each market was voided
  cached,    \* SingleFlightCache.cached: market ids, none for null, and when
  inFlight,  \* SingleFlightCache.inFlight
  scans,     \* the scans that run, and what their head can see
  scanned,   \* scans so far
  requests   \* each caller's request

discoveryVars == <<now, voidedAt, cached, inFlight, scans, scanned, requests>>

NoRequest ==
  [at |-> "idle", asked |-> 0, scan |-> NoScan, unread |-> {}, live |-> {}, deck |-> {}]

DiscoveryTypeOK ==
  /\ now \in 0 .. MaxTime
  /\ voidedAt \in [Markets -> 0 .. Never]
  /\ cached \in [ids : SUBSET Markets, at : 0 .. MaxTime]
  /\ inFlight \in Scans \cup {NoScan} /\ scanned \in Scans \cup {NoScan}
  /\ scans \subseteq [id : Scans, sees : SUBSET Markets]
  /\ requests \in [Callers -> [at : {"idle", "waiting", "reading", "dealt", "unavailable"},
                               asked : 0 .. MaxTime, scan : Scans \cup {NoScan},
                               unread : SUBSET Markets, live : SUBSET Markets,
                               deck : SUBSET Markets]]

DiscoveryInit ==
  /\ now = 0
  /\ voidedAt = [m \in Markets |-> Never]
  /\ cached = [ids |-> {}, at |-> 0]
  /\ inFlight = NoScan /\ scans = {} /\ scanned = NoScan
  /\ requests = [c \in Callers |-> NoRequest]

Trading(m) == Opens[m] <= now /\ now < Expiry[m] /\ voidedAt[m] = Never

(* listMarkets: the request with the ids that the cache answered it with;   *)
(* what has expired is not read.                                            *)
Answered(r, ids) ==
  [r EXCEPT !.at = "reading", !.scan = NoScan, !.unread = {m \in ids : Expiry[m] > now}]
Unavailable(r) == [r EXCEPT !.at = "unavailable", !.scan = NoScan, !.live = {}]

Fresh == cached.ids # {} /\ now - cached.at < SWEEP_TTL

(* SingleFlightCache.get: a fresh value, the scan that runs, or a new one;  *)
(* who found nothing may ask again.                                         *)
Joins_Never == FALSE
Joins == inFlight # NoScan

Request(c) ==
  /\ requests[c].at \in {"idle", "unavailable"}
  /\ LET asked == [NoRequest EXCEPT !.asked = now]
         waiting(id) == [asked EXCEPT !.at = "waiting", !.scan = id]
     IN  \/ /\ Fresh
            /\ requests' = [requests EXCEPT ![c] = Answered(asked, cached.ids)]
            /\ UNCHANGED <<inFlight, scans, scanned>>
         \/ /\ ~Fresh /\ Joins
            /\ requests' = [requests EXCEPT ![c] = waiting(inFlight)]
            /\ UNCHANGED <<inFlight, scans, scanned>>
         \/ /\ ~Fresh /\ ~Joins
            /\ scanned < MaxScans
            /\ scanned' = scanned + 1
            /\ inFlight' = scanned'
            /\ scans' = scans \cup {[id |-> scanned', sees |-> {m \in Markets : Created[m] <= now}]}
            /\ requests' = [requests EXCEPT ![c] = waiting(scanned')]
  /\ UNCHANGED <<now, voidedAt, cached>>

(* A scan ends with what its windows found, any of which may have failed;   *)
(* with nothing found it fails, and the value before it is kept.            *)
ToWaiting(s, answer(_)) ==
  requests' = [c \in Callers |->
                IF requests[c].at = "waiting" /\ requests[c].scan = s.id
                THEN answer(requests[c]) ELSE requests[c]]

Landed_Kept == inFlight' = inFlight
Landed == inFlight' = NoScan

ScanSucceeds(s, found) ==
  /\ s \in scans
  /\ found # {} /\ found \subseteq s.sees
  /\ cached' = [ids |-> found, at |-> now]
  /\ ToWaiting(s, LAMBDA r : Answered(r, found))
  /\ scans' = scans \ {s}
  /\ inFlight' = NoScan
  /\ UNCHANGED <<now, voidedAt, scanned>>

ScanFails(s) ==
  /\ s \in scans
  /\ ToWaiting(s, LAMBDA r : IF cached.ids # {} THEN Answered(r, cached.ids)
                             ELSE Unavailable(r))
  /\ scans' = scans \ {s}
  /\ Landed
  /\ UNCHANGED <<now, voidedAt, cached, scanned>>

(* hydrate: each market's status, read when its call is served, or not.     *)
Live_AtSweep(m) == Opens[m] <= cached.at /\ voidedAt[m] >= cached.at
Live(m) == Trading(m)

Hydrate(c, m) ==
  /\ m \in requests[c].unread
  /\ \/ /\ Live(m)
        /\ requests' = [requests EXCEPT ![c].unread = @ \ {m}, ![c].live = @ \cup {m}]
     \/ requests' = [requests EXCEPT ![c].unread = @ \ {m}]
  /\ UNCHANGED <<now, voidedAt, cached, inFlight, scans, scanned>>

(* buildDreamDexDeck: as many of the eligible markets as a deck holds.      *)
Eligible(r) ==
  {m \in r.live : r.asked + MIN_HEADROOM <= Expiry[m] /\ Expiry[m] <= r.asked + MAX_HORIZON}

Deal(c) ==
  LET r == requests[c]
      decks == {deck \in SUBSET Eligible(r) :
                  \/ deck = Eligible(r) /\ Cardinality(deck) <= MAX_DECK_SIZE
                  \/ Cardinality(deck) = MAX_DECK_SIZE}
  IN  /\ r.at = "reading"
      /\ r.unread = {}
      /\ \/ /\ Cardinality(Eligible(r)) < MIN_DECK_SIZE
            /\ requests' = [requests EXCEPT ![c] = Unavailable(r)]
         \/ /\ Cardinality(Eligible(r)) >= MIN_DECK_SIZE
            /\ \E deck \in decks :
                 requests' = [requests EXCEPT ![c] = [r EXCEPT !.at = "dealt", !.live = {}, !.deck = deck]]
      /\ UNCHANGED <<now, voidedAt, cached, inFlight, scans, scanned>>

VoidMarket(m) ==
  /\ voidedAt[m] = Never
  /\ Created[m] <= now
  /\ Cardinality({other \in Markets : voidedAt[other] # Never}) < MaxVoids
  /\ voidedAt' = [voidedAt EXCEPT ![m] = now]
  /\ UNCHANGED <<now, cached, inFlight, scans, scanned, requests>>

Elapse ==
  /\ now < MaxTime
  /\ now' = now + 1
  /\ UNCHANGED <<voidedAt, cached, inFlight, scans, scanned, requests>>

DiscoveryNext ==
  \/ \E c \in Callers : Request(c) \/ Deal(c) \/ \E m \in Markets : Hydrate(c, m)
  \/ \E s \in scans : ScanFails(s) \/ \E found \in SUBSET Markets : ScanSucceeds(s, found)
  \/ \E m \in Markets : VoidMarket(m)
  \/ Elapse

DiscoverySpec == DiscoveryInit /\ [][DiscoveryNext]_discoveryVars

-----------------------------------------------------------------------------
(* Safety: at most one scan runs, the one callers join, and nobody waits    *)
(* for a scan that is over: not after a failure, nor when many ask at once. *)
OneScan ==
  /\ {s.id : s \in scans} = {inFlight} \ {NoScan}
  /\ Cardinality(scans) <= 1
  /\ \A c \in Callers : requests[c].at = "waiting" => requests[c].scan = inFlight

(* Safety: a dealt deck has its size, and its cards accepted orders at some *)
(* time since they were asked for, with the headroom and the horizon a duel *)
(* needs counted from then: however old the sweep they were discovered by.  *)
DeckPlayable ==
  \A c \in Callers :
    LET r == requests[c]
    IN  r.at = "dealt" =>
          /\ Cardinality(r.deck) \in MIN_DECK_SIZE .. MAX_DECK_SIZE
          /\ \A m \in r.deck :
               /\ Opens[m] <= now
               /\ voidedAt[m] >= r.asked
               /\ Expiry[m] - r.asked \in MIN_HEADROOM .. MAX_HORIZON
=============================================================================
