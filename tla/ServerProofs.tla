---------------------------- MODULE ServerProofs ----------------------------
(***************************************************************************)
(* Proofs about components of the server that share no state: the forfeit  *)
(* timers of DuelRooms, the token buckets of RateLimit, the scans and      *)
(* decks of MarketDiscovery, and the messages of ChatRoom.                 *)
(***************************************************************************)
EXTENDS DuelRooms, RateLimit, MarketDiscovery, ChatRoom, Integers, FiniteSetTheorems,
        SequenceTheorems, TLAPS

-----------------------------------------------------------------------------
(* Duel rooms.  The timers are right as long as no connection of a room     *)
(* changes its address, which is what ~HelloWhileSubscribed says; the type  *)
(* gives each connection one address.                                       *)

RoomsInv == RoomsTypeOK /\ TimersAreForTheAbsent

LEMMA RoomsStart == RoomsInit => RoomsInv
BY DEF RoomsInit, RoomsInv, RoomsTypeOK, TimersAreForTheAbsent

LEMMA RoomsStepType == RoomsTypeOK /\ [RoomsNext]_roomVars => RoomsTypeOK'
<1> SUFFICES ASSUME RoomsTypeOK, [RoomsNext]_roomVars PROVE RoomsTypeOK'
  OBVIOUS
<1> USE DEF RoomsTypeOK
<1>1. ASSUME NEW w \in Conns, OpenSocket(w) PROVE RoomsTypeOK'
  BY <1>1 DEF OpenSocket
<1>2. ASSUME NEW w \in Conns, NEW a \in People, SayHello(w, a) PROVE RoomsTypeOK'
  BY <1>2 DEF SayHello
<1>3. ASSUME NEW w \in Conns, NEW d \in Rooms, SubscribeRoom(w, d) PROVE RoomsTypeOK'
  BY <1>3 DEF SubscribeRoom, Cancelled
<1>4. ASSUME NEW w \in Conns, NEW d \in Rooms, UnsubscribeRoom(w, d) PROVE RoomsTypeOK'
  BY <1>4 DEF UnsubscribeRoom
<1>5. ASSUME NEW w \in Conns, CloseSocket(w) PROVE RoomsTypeOK'
  BY <1>5 DEF CloseSocket, Left
<1>6. ASSUME NEW d \in Rooms, NEW a \in People, Forfeit(d, a) PROVE RoomsTypeOK'
  BY <1>6 DEF Forfeit
<1>7. CASE UNCHANGED roomVars
  BY <1>7 DEF roomVars
<1> QED BY <1>1, <1>2, <1>3, <1>4, <1>5, <1>6, <1>7 DEF RoomsNext

LEMMA RoomsStepTimers ==
  ASSUME RoomsInv, [RoomsNext]_roomVars, ~HelloWhileSubscribed
  PROVE  TimersAreForTheAbsent'
<1> USE DEF RoomsInv, RoomsTypeOK, TimersAreForTheAbsent
<1>1. ASSUME NEW w \in Conns, OpenSocket(w) PROVE TimersAreForTheAbsent'
  BY <1>1 DEF OpenSocket
<1>2. ASSUME NEW w \in Conns, NEW a \in People, SayHello(w, a) PROVE TimersAreForTheAbsent'
  BY <1>2 DEF SayHello, InRoom
<1>3. ASSUME NEW w \in Conns, NEW d \in Rooms, SubscribeRoom(w, d)
      PROVE  TimersAreForTheAbsent'
  BY <1>3 DEF SubscribeRoom, Cancelled
<1>4. ASSUME NEW w \in Conns, NEW d \in Rooms, UnsubscribeRoom(w, d)
      PROVE  TimersAreForTheAbsent'
  BY <1>4 DEF UnsubscribeRoom
<1>5. ASSUME NEW w \in Conns, CloseSocket(w) PROVE TimersAreForTheAbsent'
  <2> SUFFICES ASSUME NEW d \in Rooms, NEW x \in subscribers'[d]
               PROVE  <<d, who'[x]>> \notin timers'
    OBVIOUS
  <2>1. x \in subscribers[d] \ {w} /\ x \in Conns /\ who'[x] = who[x]
    BY <1>5 DEF CloseSocket
  <2>2. StillInRoom(d, who[x], w)
    BY <2>1 DEF StillInRoom
  <2> QED BY <1>5, <2>1, <2>2 DEF CloseSocket, Left
<1>6. ASSUME NEW d \in Rooms, NEW a \in People, Forfeit(d, a) PROVE TimersAreForTheAbsent'
  BY <1>6 DEF Forfeit
<1>7. CASE UNCHANGED roomVars
  BY <1>7 DEF roomVars
<1> QED BY <1>1, <1>2, <1>3, <1>4, <1>5, <1>6, <1>7 DEF RoomsNext

(* For any rooms, connections and wallets: where clients say hello before   *)
(* they enter a room, no forfeit timer runs for an address with a           *)
(* connection in the room (onSocketClose, subscribeRoom).                   *)
THEOREM NoTimerForThePresent ==
  ASSUME ~HelloWhileSubscribed
  PROVE  RoomsSpec => []TimersAreForTheAbsent
<1>1. RoomsInv /\ [RoomsNext]_roomVars => RoomsInv'
  BY RoomsStepType, RoomsStepTimers DEF RoomsInv
<1>2. RoomsInv => TimersAreForTheAbsent
  BY DEF RoomsInv
<1> QED BY <1>1, <1>2, RoomsStart, PTL DEF RoomsSpec

(* For any rooms, connections and wallets, hello while subscribed or not:   *)
(* the records of index.ts and matchmaking.ts keep their types.             *)
THEOREM RoomsTyped == RoomsSpec => []RoomsTypeOK
<1>1. RoomsInit => RoomsTypeOK
  BY RoomsStart DEF RoomsInv
<1> QED BY <1>1, RoomsStepType, PTL DEF RoomsSpec

-----------------------------------------------------------------------------
(* The token buckets.  A refill may only be counted from a time that has    *)
(* passed, or it would take units away.                                     *)

RateInv ==
  /\ RateTypeOK
  /\ \A k \in Keys : buckets[k].refilled <= clock
  /\ GrantsBounded

\* What a refill may reach, in units.
LEMMA FullIsNat == Full \in Nat /\ Full >= UNITS
<1>1. PICK c \in Nat : CAPACITY = c + 1
  <2>1. CAPACITY - 1 \in Nat /\ CAPACITY = (CAPACITY - 1) + 1
    BY RateAssumption
  <2> QED BY <2>1
<1>2. UNITS \in Nat /\ c * UNITS \in Nat
  BY RateAssumption
<1>3. CAPACITY * UNITS = c * UNITS + UNITS
  BY <1>1, <1>2
<1> QED BY <1>2, <1>3 DEF Full

LEMMA RateStart == RateInit => RateInv
BY FullIsNat, RateAssumption DEF RateInit, RateInv, RateTypeOK, GrantsBounded, NoBucket

\* Two stretches of time refill what the whole of it does.
LEMMA RefillsAdd ==
  ASSUME NEW a \in Int, NEW b \in Int, NEW c \in Int
  PROVE  (b - a) * REFILL + (c - b) * REFILL = (c - a) * REFILL
BY RateAssumption

LEMMA ProductsAreNat == ASSUME NEW a \in Nat, NEW b \in Nat PROVE a * b \in Nat
OBVIOUS

LEMMA ProductsAreInt == ASSUME NEW a \in Int, NEW b \in Int PROVE a * b \in Int
OBVIOUS

LEMMA ConsumeKeeps ==
  ASSUME RateInv, NEW k \in Keys, Consume(k)
  PROVE  RateInv'
<1> DEFINE b == buckets[k]
<1>1. /\ b \in [stored : BOOLEAN, units : 0 .. Full, refilled : 0 .. MaxClock]
      /\ granted[k] \in Nat /\ since[k] \in 0 .. MaxClock /\ clock \in 0 .. MaxClock
      /\ b.refilled <= clock /\ UNITS \in Nat \ {0} /\ REFILL \in Nat \ {0} /\ MaxClock \in Nat
      /\ clock' = clock
  BY RateAssumption DEF RateInv, RateTypeOK, Consume
<1> DEFINE o == Opened(k)
<1>2. /\ o \in [stored : BOOLEAN, units : 0 .. Full, refilled : 0 .. MaxClock]
      /\ o.stored /\ o.refilled = clock
      /\ b.stored => o.units <= b.units + (clock - b.refilled) * REFILL
      /\ ~b.stored => o.units = Full
  <2>1. CASE ~b.stored
    BY <1>1, <2>1, FullIsNat DEF Opened
  <2>2. CASE b.stored
    <3> DEFINE flow == (clock - b.refilled) * REFILL
    <3>1. clock - b.refilled \in Nat
      BY <1>1
    <3>2. flow \in Nat
      BY <1>1, <3>1
    <3>3. o = [b EXCEPT !.units = AtMost(Full, b.units + flow), !.refilled = clock]
      BY <2>2 DEF Opened, Refilled
    <3>4. AtMost(Full, b.units + flow) \in 0 .. Full /\ AtMost(Full, b.units + flow) <= b.units + flow
      <4> HIDE DEF flow
      <4> QED BY <1>1, <3>2, FullIsNat DEF AtMost
    <3> QED BY <1>1, <2>2, <3>3, <3>4
  <2> QED BY <2>1, <2>2
<1> DEFINE spent == IF Allowed(k) THEN o.units - UNITS ELSE o.units
           one == IF Allowed(k) THEN 1 ELSE 0
<1>3. /\ spent \in 0 .. Full
      /\ one * UNITS + spent = o.units /\ one \in Nat
  BY <1>1, <1>2, FullIsNat DEF Allowed
<1>4. buckets' = [buckets EXCEPT ![k] = [o EXCEPT !.units = spent]]
  BY DEF Consume
<1>5. /\ granted' = [granted EXCEPT ![k] = (IF b.stored THEN granted[k] ELSE 0) + one]
      /\ since' = [since EXCEPT ![k] = IF b.stored THEN since[k] ELSE clock]
  BY DEF Consume
<1> HIDE DEF o, spent, one
<1>6. /\ buckets'[k].stored /\ buckets'[k].units = spent /\ buckets'[k].refilled = clock
      /\ buckets'[k] \in [stored : BOOLEAN, units : 0 .. Full, refilled : 0 .. MaxClock]
      /\ granted'[k] = (IF b.stored THEN granted[k] ELSE 0) + one
      /\ since'[k] = IF b.stored THEN since[k] ELSE clock
  BY <1>1, <1>2, <1>3, <1>4, <1>5 DEF RateInv, RateTypeOK
<1>7. RateTypeOK'
  BY <1>1, <1>3, <1>4, <1>5, <1>6 DEF RateInv, RateTypeOK
<1>8. \A j \in Keys : buckets'[j].refilled <= clock'
  BY <1>1, <1>4, <1>6 DEF RateInv, RateTypeOK
<1>9. granted'[k] * UNITS + spent <= Full + (clock - since'[k]) * REFILL
  <2>1. CASE ~b.stored
    <3>1. granted'[k] * UNITS + spent = Full
      BY <1>2, <1>3, <1>6, <2>1
    <3>2. clock - since'[k] = 0
      BY <1>1, <1>6, <2>1
    <3>3. (clock - since'[k]) * REFILL = 0
      BY <1>1, <3>2
    <3> QED BY <3>1, <3>3, FullIsNat
  <2>2. CASE b.stored
    <3> DEFINE g == granted[k] * UNITS
               flow == (clock - b.refilled) * REFILL
               gone == (b.refilled - since[k]) * REFILL
    <3>1. /\ g \in Nat /\ flow \in Int /\ gone \in Int
          /\ gone + flow = (clock - since[k]) * REFILL
      <4>1. /\ granted[k] \in Nat /\ UNITS \in Nat /\ REFILL \in Int
            /\ clock \in Int /\ b.refilled \in Int /\ since[k] \in Int
        BY <1>1
      <4>2. clock - b.refilled \in Int /\ b.refilled - since[k] \in Int
        BY <4>1
      <4>3. g \in Nat
        BY <4>1, ProductsAreNat
      <4>4. flow \in Int
        BY <4>1, <4>2, ProductsAreInt
      <4>5. gone \in Int
        BY <4>1, <4>2, ProductsAreInt
      <4>6. gone + flow = (clock - since[k]) * REFILL
        <5> HIDE DEF b
        <5> QED BY <4>1, RefillsAdd
      <4> QED BY <4>3, <4>4, <4>5, <4>6
    <3>2. g + b.units <= Full + gone
      BY <2>2 DEF RateInv, GrantsBounded
    <3>3. granted'[k] * UNITS = g + one * UNITS
      BY <1>1, <1>3, <1>6, <2>2
    <3>4. since'[k] = since[k]
      BY <1>6, <2>2
    <3>5. one * UNITS \in Nat
      BY <1>1, <1>3
    <3> HIDE DEF g, flow, gone
    <3> QED BY <1>1, <1>2, <1>3, <2>2, <3>1, <3>2, <3>3, <3>4, <3>5, FullIsNat DEF flow
  <2> QED BY <2>1, <2>2
<1>10. GrantsBounded'
  <2> SUFFICES ASSUME NEW j \in Keys, buckets'[j].stored
               PROVE  granted'[j] * UNITS + buckets'[j].units
                        <= Full + (buckets'[j].refilled - since'[j]) * REFILL
    BY DEF GrantsBounded
  <2>1. CASE j = k
    BY <1>6, <1>9, <2>1
  <2>2. CASE j # k
    <3>1. buckets'[j] = buckets[j] /\ granted'[j] = granted[j] /\ since'[j] = since[j]
      BY <1>4, <1>5, <2>2 DEF RateInv, RateTypeOK
    <3> QED BY <3>1 DEF RateInv, GrantsBounded
  <2> QED BY <2>1, <2>2
<1> QED BY <1>7, <1>8, <1>10 DEF RateInv

LEMMA AdvanceKeeps == RateInv /\ Advance => RateInv'
<1> SUFFICES ASSUME RateInv, Advance PROVE RateInv'
  OBVIOUS
<1>1. /\ clock' = clock + 1 /\ clock' \in 0 .. MaxClock
      /\ granted' = granted /\ since' = since
  BY RateAssumption DEF RateInv, RateTypeOK, Advance
<1>2. \A k \in Keys : buckets'[k] = buckets[k] \/ buckets'[k] = NoBucket
  BY DEF Advance, Swept
<1>3. DOMAIN buckets' = Keys /\ buckets' = [k \in Keys |-> buckets'[k]]
  BY DEF Advance, Swept, RateInv, RateTypeOK
<1>4. NoBucket \in [stored : BOOLEAN, units : 0 .. Full, refilled : 0 .. MaxClock]
      /\ ~NoBucket.stored /\ NoBucket.refilled = 0
  BY FullIsNat, RateAssumption DEF NoBucket
<1>5. \A k \in Keys :
        buckets'[k] \in [stored : BOOLEAN, units : 0 .. Full, refilled : 0 .. MaxClock]
  BY <1>2, <1>4 DEF RateInv, RateTypeOK
<1>6. RateTypeOK'
  BY <1>1, <1>3, <1>5 DEF RateInv, RateTypeOK
<1>7. \A k \in Keys : buckets'[k].refilled <= clock'
  BY <1>1, <1>2, <1>4, RateAssumption DEF RateInv, RateTypeOK
<1>8. GrantsBounded'
  BY <1>1, <1>2, <1>4 DEF RateInv, GrantsBounded
<1> QED BY <1>6, <1>7, <1>8 DEF RateInv

LEMMA RateKept == RateInv /\ [RateNext]_rateVars => RateInv'
<1> SUFFICES ASSUME RateInv, [RateNext]_rateVars PROVE RateInv'
  OBVIOUS
<1>1. CASE Advance
  BY <1>1, AdvanceKeeps
<1>2. ASSUME NEW k \in Keys, Consume(k) PROVE RateInv'
  BY <1>2, ConsumeKeeps
<1>3. CASE UNCHANGED rateVars
  BY <1>3 DEF rateVars, RateInv, RateTypeOK, GrantsBounded
<1> QED BY <1>1, <1>2, <1>3 DEF RateNext

(* For any keys, limits, refill rates and sweep intervals: a bucket grants  *)
(* no more than its burst and what has flowed in since it was created       *)
(* (consume and the sweep in ratelimit.ts).                                 *)
THEOREM NoTokenTwice == RateSpec => []GrantsBounded
<1>1. RateInv => GrantsBounded
  BY DEF RateInv
<1> QED BY <1>1, RateStart, RateKept, PTL DEF RateSpec

(* For any keys, limits, refill rates and sweep intervals: a bucket holds   *)
(* between nothing and its burst (consume in ratelimit.ts).                 *)
THEOREM RatesTyped == RateSpec => []RateTypeOK
<1>1. RateInv => RateTypeOK
  BY DEF RateInv
<1> QED BY <1>1, RateStart, RateKept, PTL DEF RateSpec
-----------------------------------------------------------------------------
(* Market discovery.  The running scan is the one in flight, and whoever    *)
(* waits, waits for it.  Of a request: what it holds as live, or was dealt, *)
(* was live at some time since it was asked for.                            *)

ScansOK ==
  /\ inFlight = NoScan => scans = {}
  /\ inFlight # NoScan => \E s \in scans : scans = {s} /\ s.id = inFlight
  /\ \A c \in Callers :
       requests[c].at = "waiting" => requests[c].scan = inFlight /\ inFlight # NoScan

RequestRecord ==
  [at : {"idle", "waiting", "reading", "dealt", "unavailable"},
   asked : 0 .. MaxTime, scan : Scans \cup {NoScan},
   unread : SUBSET Markets, live : SUBSET Markets, deck : SUBSET Markets]

RequestOK(r, time, voided) ==
  /\ r \in RequestRecord
  /\ r.asked <= time
  /\ \A m \in r.live \cup r.deck : Opens[m] <= time /\ voided[m] >= r.asked
  /\ r.at = "dealt" =>
       /\ Cardinality(r.deck) \in MIN_DECK_SIZE .. MAX_DECK_SIZE
       /\ \A m \in r.deck : Expiry[m] - r.asked \in MIN_HEADROOM .. MAX_HORIZON

RequestsOK == \A c \in Callers : RequestOK(requests[c], now, voidedAt)

DiscoveryInv == DiscoveryTypeOK /\ ScansOK /\ RequestsOK

LEMMA DiscoveryStart == DiscoveryInit => DiscoveryInv
<1> SUFFICES ASSUME DiscoveryInit PROVE DiscoveryInv
  OBVIOUS
<1>1. NoRequest \in RequestRecord
  BY DiscoveryAssumption DEF NoRequest, RequestRecord
<1>2. DiscoveryTypeOK
  BY <1>1, DiscoveryAssumption DEF DiscoveryInit, DiscoveryTypeOK, RequestRecord, Never
<1>3. ScansOK
  BY DEF DiscoveryInit, ScansOK, NoRequest
<1>4. RequestOK(NoRequest, 0, voidedAt)
  <2>1. NoRequest.asked = 0 /\ NoRequest.at = "idle" /\ NoRequest.live \cup NoRequest.deck = {}
    BY DEF NoRequest
  <2> QED BY <1>1, <2>1 DEF RequestOK
<1>5. RequestsOK
  BY <1>4 DEF DiscoveryInit, RequestsOK
<1> QED BY <1>2, <1>3, <1>5 DEF DiscoveryInv

LEMMA AnsweredIsOK ==
  ASSUME NEW r, RequestOK(r, now, voidedAt), r.at # "dealt", NEW ids \in SUBSET Markets
  PROVE  RequestOK(Answered(r, ids), now, voidedAt) /\ Answered(r, ids).at = "reading"
<1>1. Answered(r, ids) \in RequestRecord
  BY DEF RequestOK, RequestRecord, Answered
<1> QED BY <1>1 DEF RequestOK, RequestRecord, Answered

LEMMA UnavailableIsOK ==
  ASSUME NEW r, RequestOK(r, now, voidedAt)
  PROVE  RequestOK(Unavailable(r), now, voidedAt) /\ Unavailable(r).at = "unavailable"
<1>1. Unavailable(r) \in RequestRecord
  BY DEF RequestOK, RequestRecord, Unavailable
<1> QED BY <1>1 DEF RequestOK, RequestRecord, Unavailable

\* A caller's own step, which starts no scan.
LEMMA OneRequest ==
  ASSUME DiscoveryInv, NEW c \in Callers, NEW r, RequestOK(r, now, voidedAt),
         r.at = "waiting" => r.scan = inFlight /\ inFlight # NoScan,
         requests' = [requests EXCEPT ![c] = r],
         UNCHANGED <<now, voidedAt, cached, inFlight, scans, scanned>>
  PROVE  DiscoveryInv'
<1>1. requests' \in [Callers -> RequestRecord]
  BY DEF DiscoveryInv, DiscoveryTypeOK, RequestOK, RequestRecord
<1>2. DiscoveryTypeOK'
  BY <1>1 DEF DiscoveryInv, DiscoveryTypeOK, RequestRecord
<1>3. \A d \in Callers : requests'[d] = IF d = c THEN r ELSE requests[d]
  BY DEF DiscoveryInv, DiscoveryTypeOK
<1>4. ScansOK'
  BY <1>3 DEF DiscoveryInv, ScansOK
<1>5. RequestsOK'
  BY <1>3 DEF DiscoveryInv, RequestsOK
<1> QED BY <1>2, <1>4, <1>5 DEF DiscoveryInv

LEMMA RequestKeeps ==
  ASSUME DiscoveryInv, NEW c \in Callers, Request(c)
  PROVE  DiscoveryInv'
<1> DEFINE asked == [NoRequest EXCEPT !.asked = now]
           waiting(id) == [asked EXCEPT !.at = "waiting", !.scan = id]
<1>1. RequestOK(asked, now, voidedAt) /\ asked.at = "idle"
  BY DiscoveryAssumption
     DEF DiscoveryInv, DiscoveryTypeOK, NoRequest, RequestOK, RequestRecord
<1>0. /\ asked \in RequestRecord /\ asked.asked = now
      /\ asked.live = {} /\ asked.deck = {}
  BY <1>1 DEF RequestOK, NoRequest
<1> HIDE DEF asked
<1>2. ASSUME NEW id \in Scans
      PROVE  RequestOK(waiting(id), now, voidedAt) /\ waiting(id).at = "waiting"
             /\ waiting(id).scan = id
  <2>1. waiting(id) \in RequestRecord
    BY <1>0 DEF RequestRecord
  <2>2. /\ waiting(id).at = "waiting" /\ waiting(id).scan = id /\ waiting(id).asked = now
        /\ waiting(id).live = {} /\ waiting(id).deck = {}
    BY <1>0 DEF RequestRecord
  <2>3. now \in 0 .. MaxTime
    BY DEF DiscoveryInv, DiscoveryTypeOK
  <2> HIDE DEF waiting
  <2> QED BY <2>1, <2>2, <2>3, DiscoveryAssumption DEF RequestOK
<1> HIDE DEF waiting
<1>3. CASE requests' = [requests EXCEPT ![c] = Answered(asked, cached.ids)]
           /\ UNCHANGED <<inFlight, scans, scanned>>
  <2>1. cached.ids \in SUBSET Markets
    BY DEF DiscoveryInv, DiscoveryTypeOK
  <2>2. RequestOK(Answered(asked, cached.ids), now, voidedAt)
        /\ Answered(asked, cached.ids).at = "reading"
    BY <1>1, <2>1, AnsweredIsOK
  <2>3. UNCHANGED <<now, voidedAt, cached, inFlight, scans, scanned>>
    BY <1>3 DEF Request
  <2> QED BY <1>3, <2>2, <2>3, OneRequest
<1>4. CASE Joins /\ requests' = [requests EXCEPT ![c] = waiting(inFlight)]
           /\ UNCHANGED <<inFlight, scans, scanned>>
  <2>1. inFlight \in Scans /\ inFlight # NoScan
    BY <1>4 DEF Joins, DiscoveryInv, DiscoveryTypeOK
  <2>2. UNCHANGED <<now, voidedAt, cached, inFlight, scans, scanned>>
    BY <1>4 DEF Request
  <2> QED BY <1>2, <1>4, <2>1, <2>2, OneRequest
<1>5. CASE /\ ~Joins /\ scanned < MaxScans
           /\ scanned' = scanned + 1 /\ inFlight' = scanned'
           /\ scans' = scans \cup {[id |-> scanned', sees |-> {m \in Markets : Created[m] <= now}]}
           /\ requests' = [requests EXCEPT ![c] = waiting(scanned')]
           /\ UNCHANGED <<now, voidedAt, cached>>
  <2> DEFINE s == [id |-> scanned', sees |-> {m \in Markets : Created[m] <= now}]
  <2>1. scanned' \in Scans /\ scanned' # NoScan /\ inFlight = NoScan
    BY <1>5, DiscoveryAssumption DEF Joins, DiscoveryInv, DiscoveryTypeOK, Scans, NoScan
  <2>2. scans' = {s} /\ s.id = inFlight' /\ s \in [id : Scans, sees : SUBSET Markets]
    BY <1>5, <2>1 DEF DiscoveryInv, ScansOK
  <2>3. RequestOK(waiting(scanned'), now, voidedAt) /\ waiting(scanned').at = "waiting"
        /\ waiting(scanned').scan = scanned'
    BY <1>2, <2>1
  <2>4. \A d \in Callers : requests'[d] = IF d = c THEN waiting(scanned') ELSE requests[d]
    BY <1>5 DEF DiscoveryInv, DiscoveryTypeOK
  <2>5. requests' \in [Callers -> RequestRecord]
    BY <1>5, <2>3 DEF DiscoveryInv, DiscoveryTypeOK, RequestOK, RequestRecord
  <2>6. DiscoveryTypeOK'
    <3> HIDE DEF s
    <3> QED BY <1>5, <2>1, <2>2, <2>5 DEF DiscoveryInv, DiscoveryTypeOK, RequestRecord
  <2>7. ScansOK'
    <3>1. \A d \in Callers : requests[d].at # "waiting"
      BY <2>1 DEF DiscoveryInv, ScansOK
    <3> HIDE DEF s
    <3> QED BY <1>5, <2>1, <2>2, <2>3, <2>4, <3>1 DEF ScansOK
  <2>8. RequestsOK'
    BY <1>5, <2>3, <2>4 DEF DiscoveryInv, RequestsOK
  <2> QED BY <2>6, <2>7, <2>8 DEF DiscoveryInv
<1> QED BY <1>3, <1>4, <1>5 DEF Request, asked, waiting

\* A scan that ends: there was no other, and those who waited for it are answered.
LEMMA ScanEnds ==
  ASSUME DiscoveryInv, NEW s \in scans,
         DOMAIN requests' = Callers, requests' = [c \in Callers |-> requests'[c]],
         \A c \in Callers : RequestOK(requests'[c], now, voidedAt) /\ requests'[c].at # "waiting",
         scans' = scans \ {s}, inFlight' = NoScan,
         cached' \in [ids : SUBSET Markets, at : 0 .. MaxTime],
         UNCHANGED <<now, voidedAt, scanned>>
  PROVE  DiscoveryInv'
<1>1. scans = {s}
  BY DEF DiscoveryInv, ScansOK
<1>2. \A c \in Callers : requests'[c] \in RequestRecord
  BY DEF RequestOK
<1>3. DiscoveryTypeOK'
  BY <1>2 DEF DiscoveryInv, DiscoveryTypeOK, RequestRecord
<1>4. ScansOK'
  BY <1>1 DEF ScansOK
<1>5. RequestsOK'
  BY DEF RequestsOK
<1> QED BY <1>3, <1>4, <1>5 DEF DiscoveryInv

LEMMA ScanSucceedsKeeps ==
  ASSUME DiscoveryInv, NEW s \in scans, NEW found \in SUBSET Markets, ScanSucceeds(s, found)
  PROVE  DiscoveryInv'
<1>1. inFlight = s.id
  BY DEF DiscoveryInv, ScansOK
<1>2. \A c \in Callers :
        requests'[c] = IF requests[c].at = "waiting" THEN Answered(requests[c], found)
                       ELSE requests[c]
  BY <1>1 DEF ScanSucceeds, ToWaiting, DiscoveryInv, ScansOK
<1>3. DOMAIN requests' = Callers /\ requests' = [c \in Callers |-> requests'[c]]
  BY DEF ScanSucceeds, ToWaiting
<1>4. \A c \in Callers : RequestOK(requests'[c], now, voidedAt) /\ requests'[c].at # "waiting"
  BY <1>2, AnsweredIsOK DEF DiscoveryInv, RequestsOK
<1>5. cached' \in [ids : SUBSET Markets, at : 0 .. MaxTime]
  BY DEF ScanSucceeds, DiscoveryInv, DiscoveryTypeOK
<1>6. scans' = scans \ {s} /\ inFlight' = NoScan /\ UNCHANGED <<now, voidedAt, scanned>>
  BY DEF ScanSucceeds
<1> QED BY <1>3, <1>4, <1>5, <1>6, ScanEnds

LEMMA ScanFailsKeeps ==
  ASSUME DiscoveryInv, NEW s \in scans, ScanFails(s)
  PROVE  DiscoveryInv'
<1>1. inFlight = s.id
  BY DEF DiscoveryInv, ScansOK
<1>2. \A c \in Callers :
        requests'[c] = IF requests[c].at = "waiting"
                       THEN IF cached.ids # {} THEN Answered(requests[c], cached.ids)
                            ELSE Unavailable(requests[c])
                       ELSE requests[c]
  BY <1>1 DEF ScanFails, ToWaiting, DiscoveryInv, ScansOK
<1>3. DOMAIN requests' = Callers /\ requests' = [c \in Callers |-> requests'[c]]
  BY DEF ScanFails, ToWaiting
<1>4. \A c \in Callers : RequestOK(requests'[c], now, voidedAt) /\ requests'[c].at # "waiting"
  <2>1. cached.ids \in SUBSET Markets
    BY DEF DiscoveryInv, DiscoveryTypeOK
  <2> QED BY <1>2, <2>1, AnsweredIsOK, UnavailableIsOK DEF DiscoveryInv, RequestsOK
<1>5. cached' \in [ids : SUBSET Markets, at : 0 .. MaxTime]
  BY DEF ScanFails, DiscoveryInv, DiscoveryTypeOK
<1>6. scans' = scans \ {s} /\ inFlight' = NoScan /\ UNCHANGED <<now, voidedAt, scanned>>
  BY DEF ScanFails, Landed
<1> QED BY <1>3, <1>4, <1>5, <1>6, ScanEnds

LEMMA HydrateKeeps ==
  ASSUME DiscoveryInv, NEW c \in Callers, NEW m \in Markets, Hydrate(c, m)
  PROVE  DiscoveryInv'
<1> DEFINE r == requests[c]
           read == [r EXCEPT !.unread = @ \ {m}, !.live = @ \cup {m}]
           failed == [r EXCEPT !.unread = @ \ {m}]
<1>1. RequestOK(r, now, voidedAt) /\ r \in RequestRecord
      /\ (r.at = "waiting" => r.scan = inFlight /\ inFlight # NoScan)
  BY DEF DiscoveryInv, RequestsOK, RequestOK, ScansOK
<1>2. RequestOK(failed, now, voidedAt) /\ failed.at = r.at /\ failed.scan = r.scan
  BY <1>1 DEF RequestOK, RequestRecord
<1>3. Live(m) => RequestOK(read, now, voidedAt) /\ read.at = r.at /\ read.scan = r.scan
  <2> SUFFICES ASSUME Live(m)
               PROVE  RequestOK(read, now, voidedAt) /\ read.at = r.at /\ read.scan = r.scan
    OBVIOUS
  <2>1. Opens[m] <= now /\ voidedAt[m] >= r.asked
    BY <1>1, DiscoveryAssumption
       DEF Live, Trading, Never, RequestRecord, DiscoveryInv, DiscoveryTypeOK
  <2>2. read \in RequestRecord /\ read.live = r.live \cup {m} /\ read.deck = r.deck
        /\ read.asked = r.asked /\ read.at = r.at /\ read.scan = r.scan
    BY <1>1 DEF RequestRecord
  <2> HIDE DEF read
  <2> QED BY <1>1, <2>1, <2>2 DEF RequestOK
<1>4. \/ Live(m) /\ requests' = [requests EXCEPT ![c] = read]
      \/ requests' = [requests EXCEPT ![c] = failed]
  BY DEF Hydrate, DiscoveryInv, DiscoveryTypeOK
<1>5. UNCHANGED <<now, voidedAt, cached, inFlight, scans, scanned>>
  BY DEF Hydrate
<1> HIDE DEF read, failed
<1> QED BY <1>1, <1>2, <1>3, <1>4, <1>5, OneRequest

LEMMA DealKeeps ==
  ASSUME DiscoveryInv, NEW c \in Callers, Deal(c)
  PROVE  DiscoveryInv'
<1> DEFINE r == requests[c]
           dealt(deck) == [r EXCEPT !.at = "dealt", !.live = {}, !.deck = deck]
<1>1. RequestOK(r, now, voidedAt) /\ r \in RequestRecord /\ r.at = "reading"
  BY DEF DiscoveryInv, RequestsOK, RequestOK, Deal
<1>2. RequestOK(Unavailable(r), now, voidedAt) /\ Unavailable(r).at = "unavailable"
  BY <1>1, UnavailableIsOK
<1>3. ASSUME NEW deck \in SUBSET Eligible(r), Cardinality(Eligible(r)) >= MIN_DECK_SIZE,
             \/ deck = Eligible(r) /\ Cardinality(deck) <= MAX_DECK_SIZE
             \/ Cardinality(deck) = MAX_DECK_SIZE
      PROVE  RequestOK(dealt(deck), now, voidedAt) /\ dealt(deck).at = "dealt"
  <2>1. Cardinality(deck) \in MIN_DECK_SIZE .. MAX_DECK_SIZE
    <3>1. IsFiniteSet(Eligible(r))
      BY <1>1, FS_Subset, MarketsAssumption DEF Eligible, RequestRecord
    <3>2. Cardinality(Eligible(r)) \in Nat
      BY <3>1, FS_CardinalityType
    <3> QED BY <1>3, <3>2, DiscoveryAssumption
  <2>2. \A m \in deck : /\ m \in r.live /\ m \in Markets
                        /\ r.asked + MIN_HEADROOM <= Expiry[m]
                        /\ Expiry[m] <= r.asked + MAX_HORIZON
    BY <1>1 DEF Eligible, RequestRecord
  <2>3. \A m \in deck : Expiry[m] - r.asked \in MIN_HEADROOM .. MAX_HORIZON
    BY <1>1, <2>2, DiscoveryAssumption DEF RequestRecord
  <2>4. dealt(deck) \in RequestRecord /\ dealt(deck).at = "dealt" /\ dealt(deck).live = {}
        /\ dealt(deck).deck = deck /\ dealt(deck).asked = r.asked
    BY <1>1, <2>2 DEF RequestRecord
  <2> HIDE DEF dealt
  <2> QED BY <1>1, <2>1, <2>2, <2>3, <2>4 DEF RequestOK
<1>4. \/ requests' = [requests EXCEPT ![c] = Unavailable(r)]
      \/ \E deck \in SUBSET Eligible(r) :
           /\ Cardinality(Eligible(r)) >= MIN_DECK_SIZE
           /\ \/ deck = Eligible(r) /\ Cardinality(deck) <= MAX_DECK_SIZE
              \/ Cardinality(deck) = MAX_DECK_SIZE
           /\ requests' = [requests EXCEPT ![c] = dealt(deck)]
  BY DEF Deal
<1>5. UNCHANGED <<now, voidedAt, cached, inFlight, scans, scanned>>
  BY DEF Deal
<1> HIDE DEF dealt
<1>6. CASE requests' = [requests EXCEPT ![c] = Unavailable(r)]
  BY <1>2, <1>5, <1>6, OneRequest
<1>7. ASSUME NEW deck \in SUBSET Eligible(r), Cardinality(Eligible(r)) >= MIN_DECK_SIZE,
             \/ deck = Eligible(r) /\ Cardinality(deck) <= MAX_DECK_SIZE
             \/ Cardinality(deck) = MAX_DECK_SIZE,
             requests' = [requests EXCEPT ![c] = dealt(deck)]
      PROVE  DiscoveryInv'
  BY <1>3, <1>5, <1>7, OneRequest
<1> QED BY <1>4, <1>6, <1>7

\* Time and the venue take nothing back of what was read.
LEMMA VenueKeeps ==
  ASSUME DiscoveryInv, Elapse \/ \E m \in Markets : VoidMarket(m)
  PROVE  DiscoveryInv'
<1>1. /\ UNCHANGED <<cached, inFlight, scans, scanned, requests>>
      /\ now' \in 0 .. MaxTime /\ now <= now'
      /\ voidedAt' \in [Markets -> 0 .. Never]
      /\ \A m \in Markets : voidedAt'[m] = voidedAt[m] \/ voidedAt'[m] = now
  <2>1. now \in 0 .. MaxTime /\ voidedAt \in [Markets -> 0 .. Never] /\ now \in 0 .. Never
    BY DiscoveryAssumption DEF DiscoveryInv, DiscoveryTypeOK, Never
  <2>2. CASE Elapse
    BY <2>1, <2>2, DiscoveryAssumption DEF Elapse
  <2>3. ASSUME NEW m \in Markets, VoidMarket(m)
        PROVE  /\ UNCHANGED <<now, cached, inFlight, scans, scanned, requests>>
               /\ voidedAt' \in [Markets -> 0 .. Never]
               /\ \A o \in Markets : voidedAt'[o] = voidedAt[o] \/ voidedAt'[o] = now
    BY <2>1, <2>3 DEF VoidMarket
  <2> QED BY <2>1, <2>2, <2>3, DiscoveryAssumption
<1>2. DiscoveryTypeOK'
  BY <1>1 DEF DiscoveryInv, DiscoveryTypeOK
<1>3. ScansOK'
  BY <1>1 DEF DiscoveryInv, ScansOK
<1>4. ASSUME NEW c \in Callers PROVE RequestOK(requests[c], now', voidedAt')
  BY <1>1, DiscoveryAssumption
     DEF DiscoveryInv, DiscoveryTypeOK, RequestsOK, RequestOK, RequestRecord, Never
<1> QED BY <1>1, <1>2, <1>3, <1>4 DEF DiscoveryInv, RequestsOK

LEMMA DiscoveryStep == DiscoveryInv /\ [DiscoveryNext]_discoveryVars => DiscoveryInv'
<1> SUFFICES ASSUME DiscoveryInv, [DiscoveryNext]_discoveryVars PROVE DiscoveryInv'
  OBVIOUS
<1>1. ASSUME NEW c \in Callers, Request(c) PROVE DiscoveryInv'
  BY <1>1, RequestKeeps
<1>2. ASSUME NEW c \in Callers, Deal(c) PROVE DiscoveryInv'
  BY <1>2, DealKeeps
<1>3. ASSUME NEW c \in Callers, NEW m \in Markets, Hydrate(c, m) PROVE DiscoveryInv'
  BY <1>3, HydrateKeeps
<1>4. ASSUME NEW s \in scans, ScanFails(s) PROVE DiscoveryInv'
  BY <1>4, ScanFailsKeeps
<1>5. ASSUME NEW s \in scans, NEW found \in SUBSET Markets, ScanSucceeds(s, found)
      PROVE  DiscoveryInv'
  BY <1>5, ScanSucceedsKeeps
<1>6. CASE Elapse \/ \E m \in Markets : VoidMarket(m)
  BY <1>6, VenueKeeps
<1>7. CASE UNCHANGED discoveryVars
  BY <1>7 DEF discoveryVars, DiscoveryInv, DiscoveryTypeOK, ScansOK, RequestsOK
<1> QED BY <1>1, <1>2, <1>3, <1>4, <1>5, <1>6, <1>7 DEF DiscoveryNext

(* For any markets and callers: never two scans of the venue at once, and   *)
(* nobody is left waiting for a scan that is over (SingleFlightCache.get).  *)
THEOREM ScansShared == DiscoverySpec => []OneScan
<1>1. ASSUME DiscoveryInv PROVE OneScan
  <2>1. CASE inFlight = NoScan
    <3>1. scans = {} /\ Cardinality(scans) = 0
      BY <1>1, <2>1, FS_EmptySet DEF DiscoveryInv, ScansOK
    <3> QED BY <1>1, <2>1, <3>1 DEF DiscoveryInv, ScansOK, OneScan
  <2>2. CASE inFlight # NoScan
    <3>1. PICK s \in scans : scans = {s} /\ s.id = inFlight
      BY <1>1, <2>2 DEF DiscoveryInv, ScansOK
    <3>2. Cardinality(scans) = 1
      BY <3>1, FS_Singleton
    <3> QED BY <1>1, <2>2, <3>1, <3>2 DEF DiscoveryInv, ScansOK, OneScan
  <2> QED BY <2>1, <2>2
<1> QED BY <1>1, DiscoveryStart, DiscoveryStep, PTL DEF DiscoverySpec

(* For any markets, however old the sweep: a deck has its size, and each of *)
(* its cards traded since it was asked for, with the headroom and within    *)
(* the horizon (listMarkets, buildDreamDexDeck).                            *)
THEOREM DecksArePlayable == DiscoverySpec => []DeckPlayable
<1>1. DiscoveryInv => DeckPlayable
  BY DEF DiscoveryInv, RequestsOK, RequestOK, DeckPlayable
<1> QED BY <1>1, DiscoveryStart, DiscoveryStep, PTL DEF DiscoverySpec

(* For any markets and callers: a request only holds markets of the venue,  *)
(* and waits for a scan that was started (getDreamDexMarkets).              *)
THEOREM DiscoveryTyped == DiscoverySpec => []DiscoveryTypeOK
<1>1. DiscoveryInv => DiscoveryTypeOK
  BY DEF DiscoveryInv
<1> QED BY <1>1, DiscoveryStart, DiscoveryStep, PTL DEF DiscoverySpec

-----------------------------------------------------------------------------
(* The chat.  The rows of the table are the newest ids without a gap, and   *)
(* so is each history that was read; what was sent and is not in a history  *)
(* overtook it or comes after it on the wire.                               *)
ChatHistories == [type : {"chat_history"}, overtaken : SUBSET Nat, messages : Seq(Nat \ {0})]
ChatMessages == {Message(id) : id \in Nat \ {0}}
ChatPackets == ChatHistories \cup ChatMessages

HistoryReads == [reader : Readers, rows : SUBSET (SUBSET Nat), overtaken : SUBSET Nat]

ChatTypes ==
  /\ stored \in Nat /\ unsent \subseteq 1 .. stored
  /\ greeted \subseteq Readers /\ caughtUp \subseteq greeted
  /\ histories \subseteq HistoryReads
  /\ chatWire \in [Readers -> Seq(ChatPackets)]
  /\ chatList \in [Readers -> Seq(Nat \ {0})]
  /\ overtook \in [Readers -> SUBSET Nat]

NewestRows(rows) ==
  \E low \in 1 .. stored + 1 : rows = low .. stored /\ (rows = {} => stored = 0)

Sent == (1 .. stored) \ unsent

\* What is shown from the first message on; a list without one begins with the first
\* message there is.
Within(list) == {list[i] : i \in DOMAIN list}
First(list) == IF list = <<>> THEN 1 ELSE Head(list)
Complete(sent, list, missing, later) ==
  \A id \in sent : id >= First(list) => id \in Within(list) \cup missing \cup later

After(wire, i) == {wire[j].messages[1] : j \in i + 1 .. Len(wire)}
HistoriesIn(wire) == {i \in DOMAIN wire : wire[i].type = "chat_history"}
ShownOnce(list) == \A i, j \in DOMAIN list : list[i] = list[j] => i = j

HistoryOK(h) ==
  /\ h.reader \in greeted \ caughtUp /\ HistoriesIn(chatWire[h.reader]) = {}
  /\ h.rows # {} =>
       \E low \in Nat \ {0}, high \in Nat :
         /\ h.rows = {low .. high}
         /\ Complete(Sent, Ascending(low .. high), h.overtaken, {})

ReaderOK(c) ==
  /\ ShownOnce(chatList[c])
  /\ c \notin greeted => chatWire[c] = <<>>
  /\ c \in caughtUp => /\ HistoriesIn(chatWire[c]) = {}
                       /\ Complete(Sent, chatList[c], overtook[c], After(chatWire[c], 0))
  /\ \A i \in HistoriesIn(chatWire[c]) :
       /\ HistoriesIn(chatWire[c]) = {i}
       /\ ShownOnce(chatWire[c][i].messages)
       /\ Complete(Sent, chatWire[c][i].messages, chatWire[c][i].overtaken, After(chatWire[c], i))

ChatInv ==
  /\ ChatTypes /\ NewestRows(chatTable)
  /\ \A h, g \in histories : h.reader = g.reader => h = g
  /\ \A h \in histories : HistoryOK(h)
  /\ \A c \in Readers : ReaderOK(c)

-----------------------------------------------------------------------------
(* What the queries return of rows without a gap.                           *)
LEMMA RowsBelow ==
  ASSUME NEW low \in Int, NEW high \in Int, NEW id \in low .. high
  PROVE  Older(low .. high, id) = id - low /\ Newer(low .. high, id) = high - id
<1>1. {other \in low .. high : other < id} = low .. id - 1
  OBVIOUS
<1>2. {other \in low .. high : other > id} = id + 1 .. high
  OBVIOUS
<1>3. Cardinality(low .. id - 1) = id - low /\ Cardinality(id + 1 .. high) = high - id
  <2>1. id \in Int /\ id - 1 \in Int /\ id + 1 \in Int /\ low <= id /\ id <= high
    OBVIOUS
  <2>2. Cardinality(low .. id - 1) = IF low > id - 1 THEN 0 ELSE id - 1 - low + 1
    BY <2>1, FS_Interval, Zenon
  <2>3. Cardinality(id + 1 .. high) = IF id + 1 > high THEN 0 ELSE high - (id + 1) + 1
    BY <2>1, FS_Interval, Zenon
  <2> QED BY <2>1, <2>2, <2>3
<1>4. Older(low .. high, id) = Cardinality(low .. id - 1)
  BY <1>1, Zenon DEF Older
<1>5. Newer(low .. high, id) = Cardinality(id + 1 .. high)
  BY <1>2, Zenon DEF Newer
<1> QED BY <1>3, <1>4, <1>5

LEMMA NewestOf ==
  ASSUME NEW low \in Int, NEW high \in Int, NEW n \in Int
  PROVE  Newest(low .. high, n) = (IF high - n + 1 > low THEN high - n + 1 ELSE low) .. high
<1>1. \A id \in low .. high : Newer(low .. high, id) < n <=> high - n + 1 <= id
  BY RowsBelow
<1> QED BY <1>1 DEF Newest

LEMMA NewestStay ==
  ASSUME stored \in Nat, NewestRows(chatTable), NEW n \in Nat \ {0}
  PROVE  NewestRows(Newest(chatTable, n))
<1>1. PICK low \in 1 .. stored + 1 : chatTable = low .. stored /\ (chatTable = {} => stored = 0)
  BY DEF NewestRows
<1> DEFINE from == IF stored - n + 1 > low THEN stored - n + 1 ELSE low
<1>2. Newest(chatTable, n) = from .. stored
  BY <1>1, NewestOf
<1>3. from \in 1 .. stored + 1 /\ (from .. stored = {} => chatTable = {})
  BY <1>1
<1> QED BY <1>1, <1>2, <1>3 DEF NewestRows

\* Rows without a gap, in the order of their ids.
LEMMA InOrder ==
  ASSUME NEW low \in Nat \ {0}, NEW high \in Nat
  PROVE  LET list == Ascending(low .. high) IN
         /\ list \in Seq(Nat \ {0})
         /\ ShownOnce(list)
         /\ Within(list) = low .. high
         /\ list # <<>> => Head(list) = low
<1> DEFINE n == IF low > high THEN 0 ELSE high - low + 1
           list == Ascending(low .. high)
           At(i) == CHOOSE id \in low .. high : Older(low .. high, id) = i - 1
<1>1. Cardinality(low .. high) = n /\ n \in Nat
  BY FS_Interval
<1>2. ASSUME NEW i \in 1 .. n PROVE At(i) = low + i - 1
  <2>1. low + i - 1 \in low .. high
    OBVIOUS
  <2>2. \A id \in low .. high : Older(low .. high, id) = i - 1 <=> id = low + i - 1
    BY RowsBelow
  <2> QED BY <2>1, <2>2
<1>3. list = [i \in 1 .. n |-> low + i - 1]
  BY <1>1, <1>2 DEF Ascending
<1> HIDE DEF list
<1>4. list \in Seq(Nat \ {0}) /\ DOMAIN list = 1 .. n
  BY <1>1, <1>3
<1>5. \A id \in low .. high : id - low + 1 \in 1 .. n /\ list[id - low + 1] = id
  BY <1>3
<1>6. Within(list) = low .. high
  <2>1. \A i \in 1 .. n : list[i] \in low .. high
    BY <1>3
  <2> QED BY <1>4, <1>5, <2>1 DEF Within
<1>7. ShownOnce(list)
  BY <1>3, <1>4 DEF ShownOnce
<1>8. list # <<>> => Head(list) = low
  BY <1>3, <1>4
<1> QED BY <1>4, <1>6, <1>7, <1>8 DEF list

LEMMA ChatStarts == ChatInit => ChatInv
BY DEF ChatInit, ChatInv, ChatTypes, NewestRows, ReaderOK, HistoriesIn, ShownOnce

\* What is shown stays complete when what is sent comes later.
LEMMA StaysComplete ==
  ASSUME NEW sent, NEW list, NEW missing, NEW later, NEW more,
         Complete(sent, list, missing, later)
  PROVE  Complete(sent \cup more, list, missing, later \cup more)
BY DEF Complete

\* A packet is a history, or one message.
LEMMA Packets ==
  ASSUME NEW m \in ChatPackets
  PROVE  \/ m.type = "chat_history" /\ m \in ChatHistories
         \/ m.type = "chat_message" /\ m.messages[1] \in Nat \ {0}
BY DEF ChatPackets, ChatHistories, ChatMessages, Message

LEMMA Appended ==
  ASSUME NEW w \in Seq(ChatPackets), NEW m \in ChatPackets
  PROVE  LET v == Append(w, m) IN
         /\ v \in Seq(ChatPackets)
         /\ HistoriesIn(v) = HistoriesIn(w) \cup {i \in {Len(w) + 1} : m.type = "chat_history"}
         /\ \A i \in DOMAIN w : v[i] = w[i]
         /\ v[Len(w) + 1] = m
         /\ \A i \in 0 .. Len(w) : After(v, i) = After(w, i) \cup {m.messages[1]}
         /\ After(v, Len(w) + 1) = {}
<1> DEFINE v == Append(w, m)
<1>1. /\ v \in Seq(ChatPackets) /\ Len(v) = Len(w) + 1 /\ Len(w) \in Nat
      /\ DOMAIN v = 1 .. Len(w) + 1 /\ DOMAIN w = 1 .. Len(w)
      /\ \A i \in 1 .. Len(w) : v[i] = w[i]
      /\ v[Len(w) + 1] = m
  OBVIOUS
<1> HIDE DEF v
<1>2. HistoriesIn(v) = HistoriesIn(w) \cup {i \in {Len(w) + 1} : m.type = "chat_history"}
  BY <1>1 DEF HistoriesIn
<1>3. ASSUME NEW i \in 0 .. Len(w) PROVE After(v, i) = After(w, i) \cup {m.messages[1]}
  <2>1. \A j \in i + 1 .. Len(w) + 1 : j = Len(w) + 1 \/ j \in i + 1 .. Len(w)
    OBVIOUS
  <2>2. \A j \in i + 1 .. Len(w) : v[j] = w[j] /\ j \in i + 1 .. Len(w) + 1
    BY <1>1
  <2>3. Len(w) + 1 \in i + 1 .. Len(w) + 1
    BY <1>1
  <2> QED BY <1>1, <2>1, <2>2, <2>3 DEF After
<1>4. After(v, Len(w) + 1) = {}
  BY <1>1 DEF After
<1> QED BY <1>1, <1>2, <1>3, <1>4 DEF v

LEMMA Taken ==
  ASSUME NEW w \in Seq(ChatPackets), w # <<>>
  PROVE  /\ Tail(w) \in Seq(ChatPackets) /\ Head(w) \in ChatPackets /\ Head(w) = w[1]
         /\ HistoriesIn(Tail(w)) = {i \in DOMAIN Tail(w) : i + 1 \in HistoriesIn(w)}
         /\ 1 \in HistoriesIn(w) <=> Head(w).type = "chat_history"
         /\ \A i \in DOMAIN Tail(w) : i \in Nat \ {0} /\ Tail(w)[i] = w[i + 1]
         /\ \A i \in Nat : After(Tail(w), i) = After(w, i + 1)
         /\ After(w, 0) = {Head(w).messages[1]} \cup After(w, 1)
<1> DEFINE v == Tail(w)
<1>1. /\ v \in Seq(ChatPackets) /\ Head(w) \in ChatPackets /\ Head(w) = w[1]
      /\ Len(v) = Len(w) - 1 /\ Len(w) \in Nat \ {0}
      /\ DOMAIN v = 1 .. Len(w) - 1 /\ DOMAIN w = 1 .. Len(w)
      /\ \A i \in 1 .. Len(w) - 1 : v[i] = w[i + 1]
  BY HeadTailProperties
<1> HIDE DEF v
<1>2. /\ HistoriesIn(v) = {i \in DOMAIN v : i + 1 \in HistoriesIn(w)}
      /\ 1 \in HistoriesIn(w) <=> Head(w).type = "chat_history"
  BY <1>1 DEF HistoriesIn
<1>3. ASSUME NEW i \in Nat PROVE After(v, i) = After(w, i + 1)
  <2>1. \A j \in i + 1 .. Len(w) - 1 : v[j] = w[j + 1] /\ j + 1 \in i + 2 .. Len(w)
    BY <1>1
  <2>2. \A j \in i + 2 .. Len(w) : j - 1 \in i + 1 .. Len(w) - 1 /\ v[j - 1] = w[j]
    BY <1>1
  <2>3. After(v, i) \subseteq After(w, i + 1)
    BY <1>1, <2>1 DEF After
  <2>4. After(w, i + 1) \subseteq After(v, i)
    BY <1>1, <2>2 DEF After
  <2> QED BY <2>3, <2>4
<1>4. After(w, 0) = {Head(w).messages[1]} \cup After(w, 1)
  <2>1. \A j \in 1 .. Len(w) : j = 1 \/ j \in 2 .. Len(w)
    BY <1>1
  <2>2. 1 \in 1 .. Len(w) /\ \A j \in 2 .. Len(w) : j \in 1 .. Len(w)
    BY <1>1
  <2>3. After(w, 0) = {w[j].messages[1] : j \in 1 .. Len(w)}
    BY DEF After
  <2>4. After(w, 1) = {w[j].messages[1] : j \in 2 .. Len(w)}
    BY DEF After
  <2> QED BY <1>1, <2>1, <2>2, <2>3, <2>4
<1>5. \A i \in DOMAIN v : i \in Nat \ {0} /\ v[i] = w[i + 1]
  BY <1>1
<1> QED BY <1>1, <1>2, <1>3, <1>4, <1>5 DEF v
-----------------------------------------------------------------------------
(* The steps.                                                               *)
LEMMA MessageIsOne ==
  ASSUME NEW id \in Nat \ {0}
  PROVE  /\ Message(id) \in ChatPackets /\ Message(id).type = "chat_message"
         /\ Message(id).messages[1] = id
BY DEF Message, ChatMessages, ChatPackets

\* A step that touches the histories, and nothing that was sent or is shown.
LEMMA SameReaders ==
  ASSUME ChatInv, Sent' = Sent, UNCHANGED <<greeted, chatWire, chatList, caughtUp, overtook>>
  PROVE  /\ \A c \in Readers : ReaderOK(c)'
         /\ \A h \in histories : HistoryOK(h)'
<1>1. ASSUME NEW c \in Readers PROVE ReaderOK(c)'
  BY DEF ChatInv, ReaderOK
<1>2. ASSUME NEW h \in histories PROVE HistoryOK(h)'
  BY DEF ChatInv, HistoryOK
<1> QED BY <1>1, <1>2

LEMMA StoreKeepsChat == ASSUME ChatInv, StoreMessage PROVE ChatInv'
<1>1. Sent' = Sent /\ ChatTypes'
  BY DEF ChatInv, ChatTypes, StoreMessage, Sent
<1>2. NewestRows(chatTable)'
  <2>1. PICK low \in 1 .. stored + 1 : chatTable = low .. stored
    BY DEF ChatInv, NewestRows
  <2>2. chatTable' = low .. stored' /\ low \in 1 .. stored' + 1 /\ chatTable' # {}
    BY <2>1 DEF ChatInv, ChatTypes, StoreMessage
  <2> QED BY <2>2 DEF NewestRows
<1>3. \A c \in Readers : ReaderOK(c)'
  BY <1>1, SameReaders DEF StoreMessage
<1>4. \A h \in histories : HistoryOK(h)'
  BY <1>1, SameReaders DEF StoreMessage
<1> QED BY <1>1, <1>2, <1>3, <1>4 DEF ChatInv, StoreMessage

LEMMA PruneKeepsChat ==
  ASSUME ChatInv, RETAIN_COUNT > 0, Prune
  PROVE  ChatInv'
<1>1. Sent' = Sent /\ ChatTypes' /\ stored' = stored
  BY DEF ChatInv, ChatTypes, Prune, Sent
<1>2. NewestRows(chatTable)'
  <2>1. NewestRows(chatTable') /\ stored' = stored
    BY <1>1, ChatAssumption, NewestStay DEF ChatInv, ChatTypes, Prune
  <2> QED BY <2>1 DEF NewestRows
<1>3. (\A c \in Readers : ReaderOK(c)') /\ (\A h \in histories : HistoryOK(h)')
  BY <1>1, SameReaders DEF Prune
<1> QED BY <1>1, <1>2, <1>3 DEF ChatInv, Prune

\* Fewer histories.
LEMMA FailKeepsChat ==
  ASSUME ChatInv, NEW h \in histories, HistoryFails(h)
  PROVE  ChatInv'
<1>1. Sent' = Sent /\ ChatTypes' /\ NewestRows(chatTable)' /\ histories' \subseteq histories
  BY DEF ChatInv, ChatTypes, HistoryFails, Sent, NewestRows
<1>2. (\A c \in Readers : ReaderOK(c)') /\ (\A k \in histories : HistoryOK(k)')
  BY <1>1, SameReaders DEF HistoryFails
<1> QED BY <1>1, <1>2 DEF ChatInv

LEMMA GreetKeepsChat ==
  ASSUME ChatInv, NEW c \in Readers, Greet(c)
  PROVE  ChatInv'
<1> DEFINE h == [reader |-> c, rows |-> {}, overtaken |-> {}]
<1>1. Sent' = Sent /\ NewestRows(chatTable)'
  BY DEF ChatInv, Greet, Sent, NewestRows
<1>2. ChatTypes'
  BY DEF ChatInv, ChatTypes, Greet, HistoryReads
<1>3. \A k \in histories : k.reader # c
  BY DEF ChatInv, HistoryOK, Greet
<1>4. ASSUME NEW d \in Readers PROVE ReaderOK(d)'
  BY <1>1 DEF ChatInv, ReaderOK, Greet
<1>5. ASSUME NEW k \in histories PROVE HistoryOK(k)'
  BY <1>1 DEF ChatInv, HistoryOK, Greet
<1>6. HistoryOK(h)'
  <2>1. chatWire'[c] = <<>> /\ c \in greeted' /\ c \notin caughtUp'
    BY DEF ChatInv, ChatTypes, ReaderOK, Greet
  <2> QED BY <2>1 DEF HistoryOK, HistoriesIn
<1>7. histories' = histories \cup {h}
  BY DEF Greet
<1> QED BY <1>1, <1>2, <1>3, <1>4, <1>5, <1>6, <1>7 DEF ChatInv

LEMMA ReadKeepsChat ==
  ASSUME ChatInv, HISTORY_LIMIT > 0, NEW h \in histories, ReadHistory(h)
  PROVE  ChatInv'
<1>1. PICK k : k = [h EXCEPT !.rows = {Recent}]
  OBVIOUS
<1>2. Sent' = Sent /\ NewestRows(chatTable)' /\ histories' = (histories \ {h}) \cup {k}
  BY <1>1 DEF ChatInv, ReadHistory, Sent, NewestRows
<1>3. NewestRows(Recent)
  BY ChatAssumption, NewestStay DEF ChatInv, ChatTypes, Recent
<1>4. PICK low \in 1 .. stored + 1 : Recent = low .. stored /\ (Recent = {} => stored = 0)
  BY <1>3 DEF NewestRows
<1>5. stored \in Nat /\ low \in Nat \ {0} /\ unsent \subseteq 1 .. stored
  BY <1>4 DEF ChatInv, ChatTypes
<1>6. k.reader = h.reader /\ k.rows = {low .. stored} /\ k.overtaken = h.overtaken
      /\ k \in HistoryReads
  <2>1. h \in HistoryReads
    BY DEF ChatInv, ChatTypes
  <2>2. low .. stored \in SUBSET Nat
    BY <1>5
  <2> QED BY <1>1, <1>4, <2>1, <2>2 DEF HistoryReads
<1>7. Complete(Sent, Ascending(low .. stored), k.overtaken, {})
  <2> DEFINE list == Ascending(low .. stored)
  <2>1. Within(list) = low .. stored /\ (list # <<>> => Head(list) = low)
    BY <1>5, InOrder
  <2> HIDE DEF list
  <2>2. list # <<>> => First(list) = low
    BY <2>1 DEF First
  <2>3. list = <<>> => Sent = {}
    <3>1. list = <<>> => Within(list) = {}
      BY DEF Within
    <3> QED BY <1>4, <1>5, <2>1, <3>1 DEF Sent
  <2>4. \A id \in Sent : id >= low => id \in low .. stored
    BY <1>5 DEF Sent
  <2> QED BY <2>1, <2>2, <2>3, <2>4 DEF Complete, list
<1>8. HistoryOK(k)'
  <2>1. /\ h.reader \in greeted' \ caughtUp' /\ HistoriesIn(chatWire'[h.reader]) = {}
    BY DEF ChatInv, HistoryOK, ReadHistory
  <2>2. Complete(Sent', Ascending(low .. stored), k.overtaken, {})
    BY <1>2, <1>7
  <2>3. \E from \in Nat \ {0}, to \in Nat :
          k.rows = {from .. to} /\ Complete(Sent', Ascending(from .. to), k.overtaken, {})
    BY <1>5, <1>6, <2>2
  <2> QED BY <1>6, <2>1, <2>3 DEF HistoryOK
<1>9. (\A c \in Readers : ReaderOK(c)') /\ (\A g \in histories : HistoryOK(g)')
  BY <1>2, SameReaders DEF ReadHistory
<1>10. ChatTypes'
  BY <1>2, <1>6 DEF ChatInv, ChatTypes, ReadHistory
<1>11. \A f, g \in histories' : f.reader = g.reader => f = g
  BY <1>2, <1>6 DEF ChatInv
<1> QED BY <1>2, <1>8, <1>9, <1>10, <1>11 DEF ChatInv

\* A message on its way to those who said hello.
LEMMA BroadcastKeepsChat ==
  ASSUME ChatInv, NEW id \in unsent, BroadcastMessage(id)
  PROVE  ChatInv'
<1> DEFINE Told(h) == IF h.rows = {} THEN h ELSE [h EXCEPT !.overtaken = @ \cup {id}]
<1>1. id \in Nat \ {0} /\ Message(id) \in ChatPackets /\ Message(id).type = "chat_message"
      /\ Message(id).messages[1] = id
  <2>1. id \in Nat \ {0}
    BY DEF ChatInv, ChatTypes
  <2> QED BY <2>1, MessageIsOne
<1>2. Sent' = Sent \cup {id} /\ NewestRows(chatTable)'
  BY DEF ChatInv, ChatTypes, BroadcastMessage, Sent, NewestRows
<1>3. histories' = {Told(h) : h \in histories}
  BY DEF BroadcastMessage
<1>4. ASSUME NEW h \in histories
      PROVE  /\ Told(h) \in HistoryReads
             /\ Told(h).reader = h.reader /\ Told(h).rows = h.rows
             /\ h.rows # {} => Told(h).overtaken = h.overtaken \cup {id}
  BY <1>1 DEF ChatInv, ChatTypes, HistoryReads
<1> HIDE DEF Told
<1>5. ASSUME NEW c \in Readers
      PROVE  /\ c \in greeted => chatWire'[c] = Append(chatWire[c], Message(id))
             /\ c \notin greeted => chatWire'[c] = chatWire[c] /\ chatWire[c] = <<>>
             /\ chatWire'[c] \in Seq(ChatPackets) /\ chatWire[c] \in Seq(ChatPackets)
             /\ HistoriesIn(chatWire'[c]) = HistoriesIn(chatWire[c])
  <2>1. chatWire[c] \in Seq(ChatPackets)
    BY DEF ChatInv, ChatTypes
  <2>2. chatWire'[c] = IF c \in greeted THEN Append(chatWire[c], Message(id)) ELSE chatWire[c]
    BY DEF BroadcastMessage
  <2>3. c \notin greeted => chatWire[c] = <<>>
    BY DEF ChatInv, ReaderOK
  <2>4. /\ Append(chatWire[c], Message(id)) \in Seq(ChatPackets)
        /\ HistoriesIn(Append(chatWire[c], Message(id))) =
             HistoriesIn(chatWire[c])
               \cup {i \in {Len(chatWire[c]) + 1} : Message(id).type = "chat_history"}
    BY <1>1, <2>1, Appended
  <2>5. {i \in {Len(chatWire[c]) + 1} : Message(id).type = "chat_history"} = {}
    BY <1>1
  <2> QED BY <2>1, <2>2, <2>3, <2>4, <2>5
<1>6. ASSUME NEW c \in Readers PROVE ReaderOK(c)'
  <2>1. CASE c \in greeted
    <3> DEFINE w == chatWire[c]
               v == chatWire'[c]
    <3>1. /\ \A i \in DOMAIN w : v[i] = w[i]
          /\ \A i \in 0 .. Len(w) : After(v, i) = After(w, i) \cup {id}
          /\ DOMAIN w = 1 .. Len(w) /\ Len(w) \in Nat
      <4> DEFINE u == Append(w, Message(id))
      <4>1. /\ \A i \in DOMAIN w : u[i] = w[i]
            /\ \A i \in 0 .. Len(w) : After(u, i) = After(w, i) \cup {Message(id).messages[1]}
        BY <1>1, <1>5, Appended
      <4>2. v = u
        BY <1>5, <2>1
      <4>3. DOMAIN w = 1 .. Len(w) /\ Len(w) \in Nat
        BY <1>5
      <4> HIDE DEF u
      <4> QED BY <1>1, <4>1, <4>2, <4>3
    <3>2. ASSUME c \in caughtUp'
          PROVE HistoriesIn(v) = {} /\ Complete(Sent', chatList'[c], overtook'[c], After(v, 0))
      <4>1. HistoriesIn(w) = {} /\ Complete(Sent, chatList[c], overtook[c], After(w, 0))
        BY <3>2 DEF ChatInv, ReaderOK, BroadcastMessage
      <4>2. After(v, 0) = After(w, 0) \cup {id}
        BY <3>1
      <4>3. Complete(Sent \cup {id}, chatList[c], overtook[c], After(w, 0) \cup {id})
        BY <4>1, StaysComplete
      <4>4. chatList' = chatList /\ overtook' = overtook
        BY DEF BroadcastMessage
      <4> QED BY <1>2, <1>5, <4>1, <4>2, <4>3, <4>4
    <3>3. ASSUME NEW i \in HistoriesIn(v)
          PROVE  /\ HistoriesIn(v) = {i} /\ ShownOnce(v[i].messages)
                 /\ Complete(Sent', v[i].messages, v[i].overtaken, After(v, i))
      <4>1. /\ i \in HistoriesIn(w) /\ i \in DOMAIN w
            /\ HistoriesIn(w) = {i} /\ ShownOnce(w[i].messages)
            /\ Complete(Sent, w[i].messages, w[i].overtaken, After(w, i))
        BY <1>5, <3>3 DEF ChatInv, ReaderOK, HistoriesIn
      <4>2. v[i] = w[i] /\ After(v, i) = After(w, i) \cup {id}
        BY <3>1, <4>1
      <4>3. Complete(Sent \cup {id}, w[i].messages, w[i].overtaken, After(w, i) \cup {id})
        BY <4>1, StaysComplete
      <4> QED BY <1>2, <1>5, <4>1, <4>2, <4>3
    <3> QED BY <2>1, <3>2, <3>3 DEF ChatInv, ReaderOK, BroadcastMessage
  <2>2. CASE c \notin greeted
    <3>1. c \notin caughtUp' /\ chatWire'[c] = <<>> /\ chatList' = chatList
      BY <1>5, <2>2 DEF ChatInv, ChatTypes, BroadcastMessage
    <3>2. HistoriesIn(chatWire'[c]) = {}
      BY <3>1 DEF HistoriesIn
    <3> QED BY <3>1, <3>2 DEF ChatInv, ReaderOK
  <2> QED BY <2>1, <2>2
<1>7. ASSUME NEW h \in histories PROVE HistoryOK(Told(h))'
  <2>1. HistoryOK(h)
    BY DEF ChatInv
  <2>2. /\ Told(h).reader \in greeted' \ caughtUp'
        /\ HistoriesIn(chatWire'[Told(h).reader]) = {}
    <3>1. h.reader \in Readers
      BY DEF ChatInv, ChatTypes, HistoryReads
    <3> QED BY <1>4, <1>5, <2>1, <3>1 DEF HistoryOK, BroadcastMessage
  <2>3. ASSUME Told(h).rows # {}
        PROVE  \E low \in Nat \ {0}, high \in Nat :
                 /\ Told(h).rows = {low .. high}
                 /\ Complete(Sent', Ascending(low .. high), Told(h).overtaken, {})
    <3>1. PICK low \in Nat \ {0}, high \in Nat :
            h.rows = {low .. high} /\ Complete(Sent, Ascending(low .. high), h.overtaken, {})
      BY <1>4, <2>1, <2>3 DEF HistoryOK
    <3>2. Complete(Sent', Ascending(low .. high), Told(h).overtaken, {})
      BY <1>2, <1>4, <2>3, <3>1 DEF Complete
    <3> QED BY <1>4, <3>1, <3>2
  <2> QED BY <2>2, <2>3 DEF HistoryOK
<1>8. ChatTypes'
  <2>1. chatWire' \in [Readers -> Seq(ChatPackets)]
    BY <1>5 DEF BroadcastMessage
  <2>2. histories' \subseteq HistoryReads
    BY <1>3, <1>4
  <2> QED BY <2>1, <2>2 DEF ChatInv, ChatTypes, BroadcastMessage
<1>9. \A f, g \in histories' : f.reader = g.reader => f = g
  BY <1>3, <1>4 DEF ChatInv
<1>10. \A g \in histories' : HistoryOK(g)'
  BY <1>3, <1>7
<1> QED BY <1>2, <1>6, <1>8, <1>9, <1>10 DEF ChatInv

LEMMA SendKeepsChat ==
  ASSUME ChatInv, NEW h \in histories, SendHistory(h)
  PROVE  ChatInv'
<1> DEFINE r == h.reader
           w == chatWire[r]
           v == chatWire'[r]
           n == Len(w) + 1
<1>1. /\ r \in Readers /\ r \in greeted \ caughtUp /\ HistoriesIn(w) = {}
      /\ w \in Seq(ChatPackets) /\ h.overtaken \in SUBSET Nat /\ Len(w) \in Nat
  <2>1. h \in HistoryReads
    BY DEF ChatInv, ChatTypes
  <2>2. r \in Readers /\ h.overtaken \in SUBSET Nat
    BY <2>1 DEF HistoryReads
  <2>3. w \in Seq(ChatPackets) /\ Len(w) \in Nat
    BY <2>2 DEF ChatInv, ChatTypes
  <2>4. r \in greeted \ caughtUp /\ HistoriesIn(w) = {}
    BY DEF ChatInv, HistoryOK
  <2> QED BY <2>2, <2>3, <2>4
<1>2. PICK low \in Nat \ {0}, high \in Nat :
        h.rows = {low .. high} /\ Complete(Sent, Ascending(low .. high), h.overtaken, {})
  BY DEF ChatInv, HistoryOK, SendHistory
<1> DEFINE m == History(h)
<1>3. /\ m \in ChatPackets /\ m.type = "chat_history"
      /\ m.messages = Ascending(low .. high) /\ m.overtaken = h.overtaken
      /\ ShownOnce(m.messages)
  <2>1. UNION h.rows = low .. high
    BY <1>2
  <2>2. Ascending(low .. high) \in Seq(Nat \ {0}) /\ ShownOnce(Ascending(low .. high))
    BY InOrder
  <2> QED BY <1>1, <2>1, <2>2 DEF History, ChatPackets, ChatHistories
<1>4. /\ v = Append(w, m)
      /\ \A c \in Readers : c # r => chatWire'[c] = chatWire[c]
      /\ DOMAIN chatWire' = Readers
  BY <1>1 DEF SendHistory, ChatInv, ChatTypes
<1> HIDE DEF m, v
<1>5. v \in Seq(ChatPackets) /\ HistoriesIn(v) = {n} /\ v[n] = m /\ After(v, n) = {}
  BY <1>1, <1>3, <1>4, Appended
<1>6. Sent' = Sent /\ NewestRows(chatTable)' /\ histories' = histories \ {h}
  BY DEF ChatInv, SendHistory, Sent, NewestRows
<1>7. ASSUME NEW c \in Readers PROVE ReaderOK(c)'
  <2>1. CASE c = r
    <3>1. c \notin caughtUp' /\ c \in greeted' /\ chatList' = chatList
      BY <1>1, <2>1 DEF SendHistory
    <3>2. HistoriesIn(v) = {n} /\ ShownOnce(v[n].messages)
          /\ Complete(Sent', v[n].messages, v[n].overtaken, After(v, n))
      BY <1>2, <1>3, <1>5, <1>6
    <3> QED BY <2>1, <3>1, <3>2 DEF ChatInv, ReaderOK, v
  <2>2. CASE c # r
    BY <1>4, <1>6, <2>2 DEF ChatInv, ReaderOK, SendHistory
  <2> QED BY <2>1, <2>2
<1>8. ASSUME NEW k \in histories' PROVE HistoryOK(k)'
  <2>1. k \in histories /\ k.reader # r /\ k.reader \in Readers /\ HistoryOK(k)
    BY <1>6 DEF ChatInv, ChatTypes, HistoryReads
  <2> QED BY <1>4, <1>6, <2>1 DEF HistoryOK, SendHistory
<1>9. ChatTypes'
  <2>1. chatWire' \in [Readers -> Seq(ChatPackets)]
    BY <1>1, <1>4, <1>5 DEF ChatInv, ChatTypes, SendHistory, v
  <2> QED BY <1>6, <2>1 DEF ChatInv, ChatTypes, SendHistory
<1> QED BY <1>6, <1>7, <1>8, <1>9 DEF ChatInv

LEMMA DropKeepsChat ==
  ASSUME ChatInv, NEW c \in Readers, ReaderDrops(c)
  PROVE  ChatInv'
<1>1. /\ Sent' = Sent /\ NewestRows(chatTable)' /\ chatList' = chatList /\ overtook' = overtook
      /\ histories' = {h \in histories : h.reader # c}
      /\ greeted' = greeted \ {c} /\ caughtUp' = caughtUp \ {c}
  BY DEF ChatInv, ReaderDrops, Sent, NewestRows
<1>2. /\ chatWire'[c] = <<>> /\ DOMAIN chatWire' = Readers
      /\ \A d \in Readers : d # c => chatWire'[d] = chatWire[d]
  BY DEF ReaderDrops, ChatInv, ChatTypes
<1>3. ChatTypes'
  <2>1. chatWire' \in [Readers -> Seq(ChatPackets)]
    BY DEF ChatInv, ChatTypes, ReaderDrops
  <2> QED BY <1>1, <2>1 DEF ChatInv, ChatTypes, ReaderDrops
<1>4. ASSUME NEW d \in Readers PROVE ReaderOK(d)'
  <2>1. CASE d = c
    <3>1. HistoriesIn(chatWire'[c]) = {}
      BY <1>2 DEF HistoriesIn
    <3> QED BY <1>1, <1>2, <2>1, <3>1 DEF ChatInv, ReaderOK
  <2>2. CASE d # c
    BY <1>1, <1>2, <2>2 DEF ChatInv, ReaderOK
  <2> QED BY <2>1, <2>2
<1>5. ASSUME NEW h \in histories' PROVE HistoryOK(h)'
  <2>1. h \in histories /\ h.reader # c /\ h.reader \in Readers /\ HistoryOK(h)
    BY <1>1 DEF ChatInv, ChatTypes, HistoryReads
  <2> QED BY <1>1, <1>2, <2>1 DEF HistoryOK
<1> QED BY <1>1, <1>3, <1>4, <1>5 DEF ChatInv

\* A message joins a list at its end, unless it is there.
LEMMA Upserted ==
  ASSUME NEW list \in Seq(Nat \ {0}), NEW id \in Nat \ {0}, ShownOnce(list)
  PROVE  LET new == Upsert(list, id) IN
         /\ new \in Seq(Nat \ {0}) /\ ShownOnce(new)
         /\ Within(new) = Within(list) \cup {id}
         /\ First(list) <= First(new)
<1>1. CASE id \in Within(list)
  BY <1>1 DEF Upsert, Within, First
<1>2. CASE id \notin Within(list)
  <2> DEFINE new == Append(list, id)
  <2>1. Upsert(list, id) = new
    BY <1>2 DEF Upsert, Within
  <2>2. /\ new \in Seq(Nat \ {0}) /\ Len(new) = Len(list) + 1 /\ Len(list) \in Nat
        /\ DOMAIN new = 1 .. Len(list) + 1 /\ DOMAIN list = 1 .. Len(list)
        /\ \A i \in 1 .. Len(list) : new[i] = list[i]
        /\ new[Len(list) + 1] = id
        /\ Head(new) = IF list = <<>> THEN id ELSE Head(list)
        /\ new # <<>>
    BY HeadTailAppend
  <2> HIDE DEF new
  <2>3. \A i \in 1 .. Len(list) : list[i] # id
    BY <1>2, <2>2 DEF Within
  <2>4. ShownOnce(new)
    <3>1. \A i \in 1 .. Len(list) + 1 : i = Len(list) + 1 \/ i \in 1 .. Len(list)
      BY <2>2
    <3> QED BY <2>2, <2>3, <3>1 DEF ShownOnce
  <2>5. Within(new) = Within(list) \cup {id}
    BY <2>2 DEF Within
  <2>6. First(list) <= First(new)
    <3>1. list # <<>> => Head(list) \in Nat
      OBVIOUS
    <3> QED BY <2>2, <3>1 DEF First
  <2> QED BY <2>1, <2>2, <2>4, <2>5, <2>6
<1> QED BY <1>1, <1>2

LEMMA ReceiptKeepsChat ==
  ASSUME ChatInv, NEW c \in Readers, ReadChat(c)
  PROVE  ChatInv'
<1> DEFINE w == chatWire[c]
           v == chatWire'[c]
           m == Head(w)
           list == chatList'[c]
<1>1. /\ w \in Seq(ChatPackets) /\ w # <<>> /\ chatList[c] \in Seq(Nat \ {0})
      /\ ReaderOK(c) /\ c \in greeted
  BY DEF ChatInv, ChatTypes, ReadChat, ReaderOK
<1>2. /\ v = Tail(w)
      /\ \A d \in Readers : d # c => /\ chatWire'[d] = chatWire[d]
                                     /\ chatList'[d] = chatList[d]
                                     /\ overtook'[d] = overtook[d]
      /\ DOMAIN chatWire' = Readers /\ DOMAIN chatList' = Readers /\ DOMAIN overtook' = Readers
  BY DEF ReadChat, ChatInv, ChatTypes
<1>3. /\ Sent' = Sent /\ NewestRows(chatTable)'
      /\ histories' = histories /\ greeted' = greeted
  BY DEF ChatInv, ReadChat, Sent, NewestRows
<1> HIDE DEF w
<1>4. /\ v \in Seq(ChatPackets) /\ m \in ChatPackets /\ m = w[1]
      /\ HistoriesIn(v) = {i \in DOMAIN v : i + 1 \in HistoriesIn(w)}
      /\ 1 \in HistoriesIn(w) <=> m.type = "chat_history"
      /\ \A i \in DOMAIN v : i \in Nat \ {0} /\ v[i] = w[i + 1]
      /\ \A i \in Nat : After(v, i) = After(w, i + 1)
      /\ After(w, 0) = {m.messages[1]} \cup After(w, 1)
  <2>1. /\ Tail(w) \in Seq(ChatPackets) /\ m \in ChatPackets /\ m = w[1]
        /\ HistoriesIn(Tail(w)) = {i \in DOMAIN Tail(w) : i + 1 \in HistoriesIn(w)}
        /\ 1 \in HistoriesIn(w) <=> m.type = "chat_history"
        /\ \A i \in DOMAIN Tail(w) : i \in Nat \ {0} /\ Tail(w)[i] = w[i + 1]
        /\ \A i \in Nat : After(Tail(w), i) = After(w, i + 1)
        /\ After(w, 0) = {m.messages[1]} \cup After(w, 1)
    BY <1>1, Taken
  <2> QED BY <1>2, <2>1
<1> HIDE DEF v, m
<1>5. ASSUME NEW i \in HistoriesIn(v)
      PROVE  /\ HistoriesIn(v) = {i} /\ ShownOnce(v[i].messages)
             /\ Complete(Sent', v[i].messages, v[i].overtaken, After(v, i))
  <2>1. i \in DOMAIN v /\ i + 1 \in HistoriesIn(w) /\ i \in Nat
    BY <1>4
  <2>2. /\ HistoriesIn(w) = {i + 1} /\ ShownOnce(w[i + 1].messages)
        /\ Complete(Sent, w[i + 1].messages, w[i + 1].overtaken, After(w, i + 1))
    BY <1>1, <2>1 DEF ReaderOK, w
  <2>3. \A j \in HistoriesIn(v) : j = i
    BY <1>4, <2>1, <2>2
  <2> QED BY <1>3, <1>4, <2>1, <2>2, <2>3
<1> DEFINE Kept == /\ caughtUp \subseteq caughtUp' /\ caughtUp' \subseteq caughtUp \cup {c}
                   /\ c \in caughtUp' => \A h \in histories : h.reader # c
                   /\ list \in Seq(Nat \ {0}) /\ overtook'[c] \in SUBSET Nat
                   /\ ReaderOK(c)'
<1>6. ASSUME m.type = "chat_history" PROVE Kept
  <2>1. m \in ChatHistories
    BY <1>4, <1>6, Packets
  <2>2. /\ list = m.messages /\ caughtUp' = caughtUp \cup {c}
        /\ overtook'[c] = m.overtaken
    BY <1>6 DEF ReadChat, ChatInv, ChatTypes, m, w
  <2>3. /\ HistoriesIn(w) = {1} /\ ShownOnce(w[1].messages)
        /\ Complete(Sent, w[1].messages, w[1].overtaken, After(w, 1))
    BY <1>1, <1>4, <1>6 DEF ReaderOK, w
  <2>4. HistoriesIn(v) = {}
    BY <1>4, <2>3
  <2>5. After(v, 0) = After(w, 1)
    BY <1>4
  <2>6. ReaderOK(c)'
    BY <1>1, <1>3, <1>4, <2>2, <2>3, <2>4, <2>5 DEF ReaderOK, v
  <2>7. list \in Seq(Nat \ {0}) /\ overtook'[c] \in SUBSET Nat
    BY <2>1, <2>2 DEF ChatHistories
  <2>8. \A h \in histories : h.reader # c
    BY <2>3 DEF ChatInv, HistoryOK, w
  <2> QED BY <2>2, <2>6, <2>7, <2>8
<1>7. ASSUME m.type = "chat_message" PROVE Kept
  <2> DEFINE id == m.messages[1]
  <2>1. id \in Nat \ {0}
    BY <1>4, <1>7, Packets
  <2>2. list = Upsert(chatList[c], id) /\ caughtUp' = caughtUp /\ overtook' = overtook
    BY <1>7 DEF ReadChat, ChatInv, ChatTypes, m, w
  <2> HIDE DEF id
  <2>3. /\ list \in Seq(Nat \ {0}) /\ ShownOnce(list)
        /\ Within(list) = Within(chatList[c]) \cup {id}
        /\ First(chatList[c]) <= First(list)
    BY <1>1, <2>1, <2>2, Upserted DEF ReaderOK
  <2>4. ASSUME c \in caughtUp'
        PROVE HistoriesIn(v) = {} /\ Complete(Sent', list, overtook'[c], After(v, 0))
    <3>1. HistoriesIn(w) = {} /\ Complete(Sent, chatList[c], overtook[c], After(w, 0))
      BY <1>1, <2>2, <2>4 DEF ReaderOK, w
    <3>2. After(w, 0) = {id} \cup After(v, 0)
      BY <1>4 DEF id
    <3>3. \A k \in Sent : k >= First(list) => k >= First(chatList[c])
      <4>1. First(list) \in Nat /\ First(chatList[c]) \in Nat /\ Sent \subseteq Nat
        BY <1>1, <2>3 DEF First, Sent, ChatInv, ChatTypes
      <4>2. First(chatList[c]) <= First(list)
        BY <2>3
      <4>3. \A x, y, k \in Nat : x <= y /\ k >= y => k >= x
        OBVIOUS
      <4> QED BY <4>1, <4>2, <4>3
    <3> QED BY <1>3, <1>4, <2>2, <2>3, <3>1, <3>2, <3>3 DEF Complete
  <2>5. ReaderOK(c)'
    BY <1>1, <1>3, <1>5, <2>3, <2>4 DEF ReaderOK, v
  <2>6. overtook'[c] \in SUBSET Nat
    BY <2>2 DEF ChatInv, ChatTypes
  <2> QED BY <2>2, <2>3, <2>5, <2>6 DEF ChatInv, HistoryOK
<1>8. Kept
  BY <1>4, <1>6, <1>7, Packets
<1>9. ASSUME NEW d \in Readers PROVE ReaderOK(d)'
  <2>1. CASE d = c
    BY <1>8, <2>1
  <2>2. CASE d # c
    BY <1>2, <1>3, <1>8, <2>2 DEF ChatInv, ReaderOK
  <2> QED BY <2>1, <2>2
<1>10. ASSUME NEW h \in histories PROVE HistoryOK(h)'
  <2>1. HistoryOK(h) /\ h.reader \in Readers
    BY DEF ChatInv, ChatTypes, HistoryReads
  <2>2. CASE h.reader = c
    <3>1. HistoriesIn(w) = {}
      BY <2>1, <2>2 DEF HistoryOK, w
    <3>2. HistoriesIn(v) = {} /\ c \notin caughtUp'
      BY <1>4, <1>8, <2>2, <3>1
    <3> QED BY <1>3, <2>1, <2>2, <3>2 DEF HistoryOK, v
  <2>3. CASE h.reader # c
    BY <1>2, <1>3, <1>8, <2>1, <2>3 DEF HistoryOK
  <2> QED BY <2>2, <2>3
<1>11. ChatTypes'
  <2>1. chatWire' \in [Readers -> Seq(ChatPackets)]
    BY <1>2, <1>4 DEF ReadChat, ChatInv, ChatTypes, v
  <2>2. chatList' \in [Readers -> Seq(Nat \ {0})]
    BY <1>2, <1>8 DEF ReadChat, ChatInv, ChatTypes
  <2>3. overtook' \in [Readers -> SUBSET Nat]
    BY <1>2, <1>8 DEF ReadChat, ChatInv, ChatTypes
  <2> QED BY <1>1, <1>3, <1>8, <2>1, <2>2, <2>3 DEF ChatInv, ChatTypes, ReadChat
<1> QED BY <1>3, <1>9, <1>10, <1>11 DEF ChatInv

LEMMA ChatKept ==
  ASSUME HISTORY_LIMIT > 0, RETAIN_COUNT > 0, ChatInv, [ChatNext]_chatVars
  PROVE  ChatInv'
<1>1. CASE StoreMessage \/ Prune
  BY <1>1, StoreKeepsChat, PruneKeepsChat
<1>2. ASSUME NEW id \in unsent, BroadcastMessage(id) PROVE ChatInv'
  BY <1>2, BroadcastKeepsChat
<1>3. ASSUME NEW h \in histories, ReadHistory(h) \/ SendHistory(h) \/ HistoryFails(h)
      PROVE  ChatInv'
  BY <1>3, ReadKeepsChat, SendKeepsChat, FailKeepsChat
<1>4. ASSUME NEW c \in Readers, Greet(c) \/ ReadChat(c) \/ ReaderDrops(c) PROVE ChatInv'
  BY <1>4, GreetKeepsChat, ReceiptKeepsChat, DropKeepsChat
<1>5. CASE UNCHANGED chatVars
  <2>1. Sent' = Sent /\ ChatTypes' /\ NewestRows(chatTable)' /\ histories' = histories
    BY <1>5 DEF chatVars, ChatInv, ChatTypes, Sent, NewestRows
  <2>2. (\A c \in Readers : ReaderOK(c)') /\ (\A h \in histories : HistoryOK(h)')
    BY <1>5, <2>1, SameReaders DEF chatVars
  <2> QED BY <2>1, <2>2 DEF ChatInv
<1> QED BY <1>1, <1>2, <1>3, <1>4, <1>5 DEF ChatNext

\* A list that shows each message once shows it at one place or none.
LEMMA TimesShown ==
  ASSUME NEW list \in Seq(Nat \ {0}), ShownOnce(list), NEW id
  PROVE  LET times == Cardinality({i \in DOMAIN list : list[i] = id}) IN
         IF id \in Within(list) THEN times = 1 ELSE times = 0
<1> DEFINE places == {i \in DOMAIN list : list[i] = id}
<1>1. CASE id \in Within(list)
  <2>1. PICK i \in DOMAIN list : list[i] = id
    BY <1>1 DEF Within
  <2>2. places = {i}
    BY <2>1 DEF ShownOnce
  <2>3. Cardinality(places) = 1
    BY <2>2, FS_Singleton
  <2> QED BY <1>1, <2>3
<1>2. CASE id \notin Within(list)
  <2>1. places = {}
    BY <1>2 DEF Within
  <2>2. Cardinality(places) = 0
    BY <2>1, FS_EmptySet
  <2> QED BY <1>2, <2>2
<1> QED BY <1>1, <1>2

\* A screen that has its history shows every message sent since the oldest it shows,
\* once: no order of inserts, broadcasts and histories (ws/chat.ts) loses or doubles
\* one, except what was sent between the read of the history and its sending.  A limit
\* of 0 for the history or the table would lose more.
THEOREM ChatLosesNothing ==
  ASSUME HISTORY_LIMIT > 0, RETAIN_COUNT > 0
  PROVE  ChatSpec => []ChatHasNoGaps
<1>1. ChatInit => ChatInv
  BY ChatStarts
<1>2. ChatInv /\ [ChatNext]_chatVars => ChatInv'
  BY ChatKept
<1>3. ChatInv => ChatHasNoGaps
  <2> SUFFICES ASSUME ChatInv, NEW c \in caughtUp, chatWire[c] = <<>>, chatList[c] # <<>>,
                      NEW id \in (Head(chatList[c]) .. stored) \ unsent
               PROVE  LET times == Cardinality({i \in DOMAIN chatList[c] : chatList[c][i] = id})
                      IN  times = 1 \/ (times = 0 /\ id \in overtook[c])
    BY DEF ChatHasNoGaps
  <2>1. c \in Readers /\ chatList[c] \in Seq(Nat \ {0}) /\ ReaderOK(c)
    BY DEF ChatInv, ChatTypes
  <2>2. After(chatWire[c], 0) = {}
    BY DEF After
  <2>3. First(chatList[c]) = Head(chatList[c]) /\ Head(chatList[c]) \in Nat \ {0}
    BY <2>1 DEF First
  <2>4. id \in Sent /\ id >= First(chatList[c])
    BY <2>3 DEF Sent, ChatInv, ChatTypes
  <2>5. id \in Within(chatList[c]) \cup overtook[c]
    BY <2>1, <2>2, <2>4 DEF ReaderOK, Complete
  <2> QED BY <2>1, <2>5, TimesShown DEF ReaderOK
<1> QED BY <1>1, <1>2, <1>3, PTL DEF ChatSpec

-----------------------------------------------------------------------------
(* What the chat holds is a message that was stored: of the table, of each  *)
(* history, on each wire and on each screen.  That a screen shows each once *)
(* bounds the length of what it shows.                                      *)
PacketBound(p, last) == Within(p.messages) \subseteq 1 .. last /\ p.overtaken \subseteq 1 .. last
WireBound(wire, last) == \A i \in DOMAIN wire : PacketBound(wire[i], last)
ReadBound(h, last) == h.overtaken \subseteq 1 .. last /\ \A rows \in h.rows : rows \subseteq 1 .. last

ChatBounds ==
  /\ stored <= MaxMessages /\ readerDrops \in 0 .. MaxReaderDrops
  /\ \A h \in histories : ReadBound(h, stored)
  /\ \A c \in Readers : /\ Within(chatList[c]) \subseteq 1 .. stored
                        /\ overtook[c] \subseteq 1 .. stored
                        /\ WireBound(chatWire[c], stored)

LEMMA BoundsStart == ChatInit => ChatBounds
BY ChatAssumption DEF ChatInit, ChatBounds, WireBound, Within

LEMMA AppendedBound ==
  ASSUME NEW wire \in Seq(ChatPackets), NEW p \in ChatPackets, NEW last,
         WireBound(wire, last), PacketBound(p, last)
  PROVE  WireBound(Append(wire, p), last)
<1> PICK longer : longer = Append(wire, p)
  OBVIOUS
<1>1. /\ DOMAIN longer = 1 .. Len(wire) + 1 /\ DOMAIN wire = 1 .. Len(wire)
      /\ longer[Len(wire) + 1] = p /\ \A i \in 1 .. Len(wire) : longer[i] = wire[i]
      /\ Len(wire) \in Nat
  OBVIOUS
<1>2. \A i \in 1 .. Len(wire) + 1 : i = Len(wire) + 1 \/ i \in 1 .. Len(wire)
  BY <1>1
<1>3. longer = Append(wire, p)
  OBVIOUS
<1>4. WireBound(longer, last)
  BY <1>1, <1>2, Zenon DEF WireBound
<1> QED BY <1>3, <1>4

LEMMA TailBound ==
  ASSUME NEW wire \in Seq(ChatPackets), wire # <<>>, NEW last, WireBound(wire, last)
  PROVE  PacketBound(Head(wire), last) /\ WireBound(Tail(wire), last)
<1>1. /\ DOMAIN wire = 1 .. Len(wire) /\ Len(wire) \in Nat \ {0} /\ Head(wire) = wire[1]
      /\ DOMAIN Tail(wire) = 1 .. Len(wire) - 1
      /\ \A i \in 1 .. Len(wire) - 1 : Tail(wire)[i] = wire[i + 1] /\ i + 1 \in 1 .. Len(wire)
      /\ 1 \in 1 .. Len(wire)
  OBVIOUS
<1> QED BY <1>1, Zenon DEF WireBound

\* What is stored later leaves a bound standing.
LEMMA BoundGrows ==
  ASSUME stored \in Nat, stored' \in Nat, stored <= stored'
  PROVE  /\ \A set : set \subseteq 1 .. stored => set \subseteq 1 .. stored'
         /\ \A h : ReadBound(h, stored) => ReadBound(h, stored')
         /\ \A wire : WireBound(wire, stored) => WireBound(wire, stored')
<1>1. 1 .. stored \subseteq 1 .. stored'
  OBVIOUS
<1>2. \A p : PacketBound(p, stored) => PacketBound(p, stored')
  BY <1>1, Zenon DEF PacketBound
<1> QED BY <1>1, <1>2, Zenon DEF ReadBound, WireBound

LEMMA BoundsKept ==
  ASSUME ChatInv, ChatBounds, [ChatNext]_chatVars
  PROVE  ChatBounds'
<1>1. stored \in Nat /\ stored' \in Nat /\ stored <= stored' /\ stored' <= MaxMessages
  <2>1. stored' = stored \/ (stored < MaxMessages /\ stored' = stored + 1)
    BY Zenon
    DEF ChatNext, chatVars, StoreMessage, Prune, BroadcastMessage,
        Greet, ReadHistory, SendHistory, HistoryFails, ReadChat, ReaderDrops
  <2> QED BY <2>1, ChatAssumption DEF ChatInv, ChatTypes, ChatBounds
<1>2. readerDrops' \in 0 .. MaxReaderDrops
  BY ChatAssumption
  DEF ChatBounds, ChatNext, chatVars, StoreMessage, Prune, BroadcastMessage,
      Greet, ReadHistory, SendHistory, HistoryFails, ReadChat, ReaderDrops
<1>3. CASE stored' = stored + 1 /\ StoreMessage
  BY <1>1, <1>2, <1>3, BoundGrows DEF ChatBounds, StoreMessage
<1>4. CASE Prune \/ UNCHANGED chatVars
  BY <1>1, <1>2, <1>4 DEF ChatBounds, Prune, chatVars
<1>5. ASSUME NEW id \in unsent, BroadcastMessage(id) PROVE ChatBounds'
  <2>1. id \in 1 .. stored /\ stored' = stored
    BY <1>5 DEF ChatInv, ChatTypes, BroadcastMessage
  <2>2. \A k \in histories' : ReadBound(k, stored)
    <3> SUFFICES ASSUME NEW h \in histories,
                        NEW k, k = IF h.rows = {} THEN h ELSE [h EXCEPT !.overtaken = @ \cup {id}]
                 PROVE  ReadBound(k, stored)
      BY <1>5 DEF BroadcastMessage
    <3>1. h \in HistoryReads /\ ReadBound(h, stored)
      BY DEF ChatInv, ChatTypes, ChatBounds
    <3>2. k.rows = h.rows /\ k.overtaken \subseteq h.overtaken \cup {id}
      BY <3>1 DEF HistoryReads
    <3> QED BY <2>1, <3>1, <3>2, Zenon DEF ReadBound
  <2>3. Message(id) \in ChatPackets /\ PacketBound(Message(id), stored)
    <3>1. id \in Nat \ {0}
      BY <1>1, <2>1
    <3>2. Message(id) \in ChatPackets
      BY <3>1 DEF ChatPackets, ChatMessages
    <3>3. Message(id).messages = <<id>> /\ Message(id).overtaken = {}
      BY DEF Message
    <3>4. Within(<<id>>) = {id}
      BY DEF Within
    <3> QED BY <2>1, <3>2, <3>3, <3>4 DEF PacketBound
  <2>4. \A c \in Readers : WireBound(chatWire'[c], stored)
    <3> SUFFICES ASSUME NEW c \in Readers PROVE WireBound(chatWire'[c], stored)
      OBVIOUS
    <3>1. chatWire[c] \in Seq(ChatPackets) /\ WireBound(chatWire[c], stored)
      BY DEF ChatInv, ChatTypes, ChatBounds
    <3>2. chatWire'[c] = Append(chatWire[c], Message(id)) \/ chatWire'[c] = chatWire[c]
      BY <1>5 DEF BroadcastMessage
    <3> QED BY <2>3, <3>1, <3>2, AppendedBound
  <2>5. chatList' = chatList /\ overtook' = overtook
    BY <1>5 DEF BroadcastMessage
  <2> QED BY <1>1, <1>2, <2>1, <2>2, <2>4, <2>5 DEF ChatBounds
<1>6. ASSUME NEW h \in histories, ReadHistory(h) PROVE ChatBounds'
  <2> PICK k : k = [h EXCEPT !.rows = {Recent}]
    OBVIOUS
  <2>1. Recent \subseteq 1 .. stored
    <3>1. chatTable \subseteq 1 .. stored
      BY <1>1 DEF ChatInv, NewestRows
    <3> QED BY <3>1 DEF Recent, Newest
  <2>2. h \in HistoryReads /\ ReadBound(h, stored)
    BY DEF ChatInv, ChatTypes, ChatBounds
  <2>3. k.rows = {Recent} /\ k.overtaken = h.overtaken
    BY <2>2 DEF HistoryReads
  <2>4. ReadBound(k, stored)
    BY <2>1, <2>2, <2>3 DEF ReadBound
  <2>5. histories' = (histories \ {h}) \cup {k}
    BY <1>6 DEF ReadHistory
  <2>6. stored' = stored /\ UNCHANGED <<chatWire, chatList, overtook>>
    BY <1>6 DEF ReadHistory
  <2> QED BY <1>1, <1>2, <2>4, <2>5, <2>6 DEF ChatBounds
<1>7. ASSUME NEW h \in histories, SendHistory(h) PROVE ChatBounds'
  <2>1. h \in HistoryReads /\ ReadBound(h, stored) /\ HistoryOK(h)
    BY DEF ChatInv, ChatTypes, ChatBounds
  <2>2. h.reader \in Readers /\ h.overtaken \subseteq 1 .. stored
    BY <2>1 DEF HistoryReads, ReadBound
  <2>3. PICK low \in Nat \ {0}, high \in Nat : h.rows = {low .. high}
    BY <1>7, <2>1 DEF HistoryOK, SendHistory
  <2>4. UNION h.rows = low .. high /\ low .. high \subseteq 1 .. stored
    BY <2>1, <2>3 DEF ReadBound
  <2> PICK m : m = History(h)
    OBVIOUS
  <2>5. /\ m.type = "chat_history" /\ m.overtaken = h.overtaken
        /\ m.messages = Ascending(low .. high) /\ m = History(h)
    BY <2>4 DEF History
  <2>6. m.messages \in Seq(Nat \ {0}) /\ Within(m.messages) = low .. high
    BY <2>5, InOrder
  <2>7. PacketBound(m, stored)
    BY <2>2, <2>4, <2>5, <2>6 DEF PacketBound
  <2>8. m \in ChatPackets
    <3>1. h.overtaken \in SUBSET Nat
      BY <2>1 DEF HistoryReads
    <3> QED BY <2>5, <2>6, <3>1 DEF ChatPackets, ChatHistories, History
  <2>9. /\ stored' = stored /\ histories' \subseteq histories
        /\ chatList' = chatList /\ overtook' = overtook
        /\ chatWire' = [chatWire EXCEPT ![h.reader] = Append(@, m)]
    BY <1>7, <2>5 DEF SendHistory
  <2>10. \A c \in Readers : WireBound(chatWire'[c], stored)
    <3> SUFFICES ASSUME NEW c \in Readers PROVE WireBound(chatWire'[c], stored)
      OBVIOUS
    <3>1. chatWire[c] \in Seq(ChatPackets) /\ WireBound(chatWire[c], stored)
      BY DEF ChatInv, ChatTypes, ChatBounds
    <3>2. chatWire'[c] = Append(chatWire[c], m) \/ chatWire'[c] = chatWire[c]
      BY <2>9 DEF ChatInv, ChatTypes
    <3> QED BY <2>7, <2>8, <3>1, <3>2, AppendedBound
  <2> QED BY <1>1, <1>2, <2>9, <2>10 DEF ChatBounds
<1>8. ASSUME NEW h \in histories, HistoryFails(h) PROVE ChatBounds'
  BY <1>1, <1>2, <1>8 DEF ChatBounds, HistoryFails
<1>9. ASSUME NEW c \in Readers, Greet(c) PROVE ChatBounds'
  <2> PICK k : k = [reader |-> c, rows |-> {}, overtaken |-> {}]
    OBVIOUS
  <2>1. ReadBound(k, stored)
    BY DEF ReadBound
  <2>2. histories' = histories \cup {k} /\ UNCHANGED <<stored, chatWire, chatList, overtook>>
    BY <1>9 DEF Greet
  <2> QED BY <1>1, <1>2, <2>1, <2>2 DEF ChatBounds
<1>10. ASSUME NEW c \in Readers, ReadChat(c) PROVE ChatBounds'
  <2> PICK msg : msg = Head(chatWire[c])
    OBVIOUS
  <2>1. /\ chatWire[c] \in Seq(ChatPackets) /\ chatWire[c] # <<>> /\ WireBound(chatWire[c], stored)
        /\ chatList[c] \in Seq(Nat \ {0}) /\ ShownOnce(chatList[c])
        /\ Within(chatList[c]) \subseteq 1 .. stored /\ overtook[c] \subseteq 1 .. stored
    BY <1>10 DEF ChatInv, ChatTypes, ChatBounds, ReaderOK, ReadChat
  <2>2. msg \in ChatPackets /\ PacketBound(msg, stored) /\ WireBound(Tail(chatWire[c]), stored)
    BY <2>1, TailBound
  <2>3. CASE msg.type = "chat_history"
    <3>1. /\ chatList' = [chatList EXCEPT ![c] = msg.messages]
          /\ overtook' = [overtook EXCEPT ![c] = msg.overtaken]
      BY <1>10, <2>3 DEF ReadChat
    <3>2. /\ chatWire' = [chatWire EXCEPT ![c] = Tail(@)]
          /\ stored' = stored /\ histories' = histories
      BY <1>10 DEF ReadChat
    <3>3. \A d \in Readers : /\ Within(chatList'[d]) \subseteq 1 .. stored
                            /\ overtook'[d] \subseteq 1 .. stored
                            /\ WireBound(chatWire'[d], stored)
      BY <2>2, <3>1, <3>2 DEF ChatInv, ChatTypes, ChatBounds, PacketBound
    <3> QED BY <1>1, <1>2, <3>2, <3>3 DEF ChatBounds
  <2>4. CASE msg.type # "chat_history"
    <3>1. PICK id \in Nat \ {0} : msg = Message(id)
      BY <2>2, <2>4 DEF ChatPackets, ChatHistories, ChatMessages
    <3>2. msg.messages = <<id>> /\ msg.messages[1] = id
      BY <3>1 DEF Message
    <3>3. id \in 1 .. stored
      <4>1. Within(<<id>>) = {id}
        BY DEF Within
      <4> QED BY <2>2, <3>2, <4>1 DEF PacketBound
    <3> PICK new : new = Upsert(chatList[c], id)
      OBVIOUS
    <3>4. Within(new) = Within(chatList[c]) \cup {id}
      BY <2>1, Upserted
    <3>5. /\ chatList' = [chatList EXCEPT ![c] = new]
          /\ overtook' = [overtook EXCEPT ![c] = @]
      BY <1>10, <2>4, <3>2 DEF ReadChat
    <3>6. /\ chatWire' = [chatWire EXCEPT ![c] = Tail(@)]
          /\ stored' = stored /\ histories' = histories
      BY <1>10 DEF ReadChat
    <3>7. \A d \in Readers : /\ Within(chatList'[d]) \subseteq 1 .. stored
                            /\ overtook'[d] \subseteq 1 .. stored
                            /\ WireBound(chatWire'[d], stored)
      BY <2>1, <2>2, <3>3, <3>4, <3>5, <3>6 DEF ChatInv, ChatTypes, ChatBounds
    <3> QED BY <1>1, <1>2, <3>6, <3>7 DEF ChatBounds
  <2> QED BY <2>3, <2>4
<1>11. ASSUME NEW c \in Readers, ReaderDrops(c) PROVE ChatBounds'
  <2>1. /\ chatWire' = [chatWire EXCEPT ![c] = <<>>] /\ histories' \subseteq histories
        /\ UNCHANGED <<stored, chatList, overtook>>
    BY <1>11 DEF ReaderDrops
  <2>2. WireBound(<<>>, stored)
    BY DEF WireBound
  <2>3. \A d \in Readers : WireBound(chatWire'[d], stored)
    BY <2>1, <2>2 DEF ChatBounds, ChatInv, ChatTypes
  <2> QED BY <1>1, <1>2, <2>1, <2>3 DEF ChatBounds
<1> QED BY <1>1, <1>3, <1>4, <1>5, <1>6, <1>7, <1>8, <1>9, <1>10, <1>11
        DEF ChatNext, StoreMessage

\* A list that shows messages of some number of ids once each is no longer than that.
LEMMA ShortLists ==
  ASSUME NEW list \in Seq(Nat \ {0}), ShownOnce(list), Within(list) \subseteq 1 .. MaxMessages
  PROVE  list \in ChatLists
<1>1. /\ Len(list) \in Nat /\ DOMAIN list = 1 .. Len(list) /\ MaxMessages \in Nat
      /\ IsFiniteSet(1 .. MaxMessages) /\ Cardinality(1 .. MaxMessages) = MaxMessages
      /\ Cardinality(1 .. Len(list)) = Len(list)
  <2>1. ASSUME NEW n \in Nat PROVE IsFiniteSet(1 .. n) /\ Cardinality(1 .. n) = n
    <3>1. IsFiniteSet(1 .. n) /\ Cardinality(1 .. n) = IF 1 > n THEN 0 ELSE n - 1 + 1
      BY FS_Interval
    <3> QED BY <3>1
  <2> QED BY <2>1, ChatAssumption
<1>2. list \in [1 .. Len(list) -> 1 .. MaxMessages]
  BY <1>1 DEF Within
<1>3. list \in Injection(1 .. Len(list), 1 .. MaxMessages)
  BY <1>1, <1>2 DEF ShownOnce, Injection, IsInjective
<1>4. Len(list) <= MaxMessages
  BY <1>1, <1>3, FS_Injection
<1>5. Len(list) \in 0 .. MaxMessages
  BY <1>1, <1>4
<1> QED BY <1>2, <1>5 DEF ChatLists, MessageIds

\* For any readers, and limits of at least one message: what is shown or on its way was
\* stored, no list is longer than what was stored (ws/chat.ts), and only a socket that
\* said hello waits for a history.
THEOREM ChatTyped ==
  ASSUME HISTORY_LIMIT > 0, RETAIN_COUNT > 0
  PROVE  ChatSpec => []ChatTypeOK
<1>1. ChatInit => ChatInv /\ ChatBounds
  BY ChatStarts, BoundsStart
<1>2. ChatInv /\ ChatBounds /\ [ChatNext]_chatVars => ChatInv' /\ ChatBounds'
  BY ChatKept, BoundsKept
<1>3. ChatInv /\ ChatBounds => ChatTypeOK
  <2> SUFFICES ASSUME ChatInv, ChatBounds PROVE ChatTypeOK
    OBVIOUS
  <2>1. stored \in 0 .. MaxMessages /\ MaxMessages \in Nat
    BY ChatAssumption DEF ChatInv, ChatTypes, ChatBounds
  <2>2. 1 .. stored \subseteq MessageIds
    BY <2>1 DEF MessageIds
  <2>3. chatTable \subseteq 1 .. stored /\ unsent \subseteq 1 .. stored
    BY <2>1 DEF ChatInv, ChatTypes, NewestRows
  <2>4. ASSUME NEW h \in histories
        PROVE  h.reader \in greeted /\ h.rows \in SUBSET (SUBSET MessageIds)
    BY <2>2 DEF ChatInv, ChatBounds, HistoryOK, ReadBound
  <2>5. ASSUME NEW c \in Readers PROVE chatList[c] \in ChatLists /\ overtook[c] \subseteq MessageIds
    <3>1. /\ chatList[c] \in Seq(Nat \ {0}) /\ ShownOnce(chatList[c])
          /\ Within(chatList[c]) \subseteq 1 .. stored /\ overtook[c] \subseteq 1 .. stored
      BY DEF ChatInv, ChatTypes, ChatBounds, ReaderOK
    <3> QED BY <2>2, <3>1, ShortLists DEF MessageIds
  <2>6. ASSUME NEW c \in Readers, NEW i \in DOMAIN chatWire[c]
        PROVE  chatWire[c][i].messages \in ChatLists
    <3> PICK p : p = chatWire[c][i]
      OBVIOUS
    <3>1. p \in ChatPackets
      BY DEF ChatInv, ChatTypes
    <3>2. Within(p.messages) \subseteq MessageIds
      BY <2>2 DEF ChatBounds, WireBound, PacketBound
    <3>3. CASE p.type = "chat_history"
      <4>1. i \in HistoriesIn(chatWire[c])
        BY <3>3 DEF HistoriesIn
      <4>2. ShownOnce(p.messages)
        BY <4>1 DEF ChatInv, ReaderOK
      <4>3. p.messages \in Seq(Nat \ {0})
        BY <3>1, <3>3 DEF ChatPackets, ChatHistories, ChatMessages, Message
      <4> QED BY <3>2, <4>2, <4>3, ShortLists DEF MessageIds
    <3>4. CASE p.type # "chat_history"
      <4>1. PICK id \in Nat \ {0} : p = Message(id)
        BY <3>1, <3>4 DEF ChatPackets, ChatHistories, ChatMessages
      <4>2. p.messages = <<id>>
        BY <4>1 DEF Message
      <4>3. <<id>> \in Seq(Nat \ {0}) /\ ShownOnce(<<id>>)
        BY DEF ShownOnce
      <4> QED BY <3>2, <4>2, <4>3, ShortLists DEF MessageIds
    <3> QED BY <3>3, <3>4
  <2>7. greeted \subseteq Readers /\ caughtUp \subseteq greeted
    BY DEF ChatInv, ChatTypes
  <2>8. readerDrops \in 0 .. MaxReaderDrops
    BY DEF ChatBounds
  <2> QED BY <2>1, <2>3, <2>4, <2>5, <2>6, <2>7, <2>8 DEF ChatTypeOK
<1> QED BY <1>1, <1>2, <1>3, PTL DEF ChatSpec
=============================================================================
