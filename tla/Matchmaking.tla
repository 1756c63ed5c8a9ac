----------------------------- MODULE Matchmaking -----------------------------
(***************************************************************************)
(* The PvP queue and the match handshake, the first half of                *)
(* apps/server/src/ws/matchmaking.ts.                                      *)
(*                                                                         *)
(* The server runs one callback at a time, but joinQueue and matchPair     *)
(* are async: each await ends a callback, and other messages, closes and   *)
(* timers run before the next.  A call of joinQueue is a task, whose pc    *)
(* names the await it is suspended at:                                     *)
(*   rating    getPlayerRating of the joiner                               *)
(*   picking   findClosestOpponent over the candidates it was given        *)
(*   deck      matchPair, waiting for the deck                             *)
(*   retry     not suspended: the timer of scheduleRetryPair is armed      *)
(*                                                                         *)
(* Abstractions: ratings and waiting times only decide whether a candidate *)
(* is acceptable, so any candidate may be picked, and none if MayMiss;     *)
(* messages that change nothing but a display are left out; found is what  *)
(* the client of a socket has been told of its current match, and created  *)
(* the creators whose create_duel has landed on chain.                     *)
(***************************************************************************)
EXTENDS Integers, Sequences, FiniteSets, SequencesExt

CONSTANTS
  Sockets,       \* WebSocket connections; a reconnect is another socket
  Addresses,     \* wallet addresses
  NoAddr,        \* no hello yet, or closed
  Wallets,       \* the addresses each socket's client may say hello with
  Tiers,         \* the paid tiers, one queue each
  NoTier,        \* queuedTier = null
  MaxJoins,      \* bound: calls of joinQueue
  MayMiss,       \* may every candidate be outside the rating window?
  LookupAtomic,  \* do joinQueue's two lookups finish before anything else runs?
  DuelCreatedHandled \* does anything call takeMatchedPair on DuelCreated?

Tasks == 1 .. MaxJoins

ASSUME MatchmakingAssumption ==
  /\ NoAddr \notin Addresses
  /\ NoTier \notin Tiers
  /\ Wallets \in [Sockets -> SUBSET Addresses]
  /\ MaxJoins \in Nat
  /\ {MayMiss, LookupAtomic, DuelCreatedHandled} \subseteq BOOLEAN

VARIABLES
  open,         \* is the connection open?
  address,      \* ws.data.address
  queuedTier,   \* ws.data.queuedTier
  queues,       \* queues: a sequence of sockets for each tier
  tasks,        \* the calls of joinQueue
  pendingPairs, \* creator address -> challenger address
  handshake,    \* pendingPairTimers: the armed timers, with the sockets they tell
  found,        \* per socket: what its client knows of its match
  created       \* creator addresses whose create_duel landed since match_found

vars == <<open, address, queuedTier, queues, tasks, pendingPairs, handshake, found,
          created>>

\* The candidates of a lookup, by their place in the queue.
Candidate == [ws : Sockets, address : Addresses]
Candidates(c) == DOMAIN c \subseteq Nat /\ \A i \in DOMAIN c : c[i] \in Candidate
Match == [creator : Sockets, challenger : Sockets,
          creatorAddr : Addresses \cup {NoAddr}, challengerAddr : Addresses \cup {NoAddr}]
Idle == [pc |-> "unused"]
NotFound == [role |-> "none"]

TaskOK(task) ==
  \/ task = Idle
  \/ /\ task.pc \in {"rating", "picking", "deck", "retry", "done"}
     /\ task.ws \in Sockets /\ task.tier \in Tiers
     /\ task.pc = "picking" => Candidates(task.candidates)
     /\ task.pc \in {"deck", "retry"} => task.match \in Match

TypeOK ==
  /\ open \in [Sockets -> BOOLEAN]
  /\ address \in [Sockets -> Addresses \cup {NoAddr}]
  /\ queuedTier \in [Sockets -> Tiers \cup {NoTier}]
  /\ queues \in [Tiers -> Seq(Sockets)]
  /\ DOMAIN tasks = Tasks
  /\ \A j \in Tasks : TaskOK(tasks[j])
  /\ DOMAIN pendingPairs \subseteq Addresses
  /\ DOMAIN handshake \subseteq Addresses
  /\ \A a \in DOMAIN pendingPairs : pendingPairs[a] \in Addresses
  /\ DOMAIN found = Sockets
  /\ \A ws \in Sockets :
       /\ found[ws].role \in {"none", "creator", "challenger"}
       /\ found[ws].role # "none" => found[ws].creatorAddr \in Addresses \cup {NoAddr}
  /\ created \subseteq Addresses

Init ==
  /\ open = [ws \in Sockets |-> TRUE]
  /\ address = [ws \in Sockets |-> NoAddr]
  /\ queuedTier = [ws \in Sockets |-> NoTier]
  /\ queues = [t \in Tiers |-> <<>>]
  /\ tasks = [j \in Tasks |-> Idle]
  /\ pendingPairs = <<>>
  /\ handshake = <<>>
  /\ found = [ws \in Sockets |-> NotFound]
  /\ created = {}

-----------------------------------------------------------------------------
(***************************************************************************)
(* Helpers on queues and maps.                                             *)
(***************************************************************************)

\* q.splice(q.indexOf(ws), 1): when ws is not there the index is -1, and
\* splice(-1, 1) removes the last element instead.
SpliceIndexOf(q, ws) ==
  CASE ws \in ToSet(q) -> RemoveFirst(q, ws)
    [] ws \notin ToSet(q) /\ q # <<>> -> Front(q)
    [] OTHER -> q

Without(map, key) == [k \in DOMAIN map \ {key} |-> map[k]]
With(map, key, value) ==
  [k \in DOMAIN map \cup {key} |-> IF k = key THEN value ELSE map[k]]

Looking(j) == tasks[j].pc \in {"rating", "picking"}

\* With LookupAtomic, nothing that touches a queue runs while a lookup is under way.
Quiet == LookupAtomic => \A j \in Tasks : ~Looking(j)

\* leaveQueue: the first entry goes; later duplicates of the socket stay.
AfterLeave_Keep(ws) == queues
AfterLeave(ws) ==
  IF queuedTier[ws] = NoTier THEN queues
  ELSE [queues EXCEPT ![queuedTier[ws]] = RemoveFirst(@, ws)]

-----------------------------------------------------------------------------
(***************************************************************************)
(* Messages from a client.                                                 *)
(***************************************************************************)

\* registerAddress: a second hello on the same socket rebinds it.
Hello(ws, a) ==
  /\ Quiet
  /\ open[ws] /\ a \in Wallets[ws] /\ address[ws] # a
  /\ address' = [address EXCEPT ![ws] = a]
  /\ UNCHANGED <<open, queuedTier, queues, tasks, pendingPairs, handshake, found, created>>

\* joinQueue up to its first await.
JoinQueue(j, ws, tier) ==
  /\ Quiet
  /\ tasks[j] = Idle /\ \A i \in 1 .. j - 1 : tasks[i] # Idle
  /\ open[ws] /\ address[ws] # NoAddr
  /\ queues' = AfterLeave(ws)
  /\ queuedTier' = [queuedTier EXCEPT ![ws] = tier]
  /\ tasks' = [tasks EXCEPT ![j] = [pc |-> "rating", ws |-> ws, tier |-> tier]]
  /\ found' = [found EXCEPT ![ws] = NotFound]
  /\ UNCHANGED <<open, address, pendingPairs, handshake, created>>

LeaveQueue(ws) ==
  /\ Quiet
  /\ open[ws] /\ queuedTier[ws] # NoTier
  /\ queues' = AfterLeave(ws)
  /\ queuedTier' = [queuedTier EXCEPT ![ws] = NoTier]
  /\ UNCHANGED <<open, address, tasks, pendingPairs, handshake, found, created>>

\* onSocketClose: leaveQueue, then unregisterAddress.
CloseSocket(ws) ==
  /\ Quiet
  /\ open[ws]
  /\ open' = [open EXCEPT ![ws] = FALSE]
  /\ queues' = AfterLeave(ws)
  /\ queuedTier' = [queuedTier EXCEPT ![ws] = NoTier]
  /\ address' = [address EXCEPT ![ws] = NoAddr]
  /\ found' = [found EXCEPT ![ws] = NotFound]
  /\ UNCHANGED <<tasks, pendingPairs, handshake, created>>

-----------------------------------------------------------------------------
(***************************************************************************)
(* joinQueue after its awaits, and matchPair.                              *)
(***************************************************************************)
IsCandidate_Self(w, ws) == address[w] # NoAddr /\ w # ws
IsCandidate_Closed(w, ws) == address[w] # address[ws]
IsCandidate(w, ws) == address[w] # NoAddr /\ address[w] # address[ws]

\* The rating is there: the candidates are those waiting now.
RatingKnown(j) ==
  LET ws == tasks[j].ws
      q == queues[tasks[j].tier]
  IN
  /\ tasks[j].pc = "rating"
  /\ tasks' = [tasks EXCEPT ![j] =
       [pc |-> "picking", ws |-> ws, tier |-> tasks[j].tier,
        candidates |-> [i \in {i \in DOMAIN q : IsCandidate(q[i], ws)} |->
                          [ws |-> q[i], address |-> address[q[i]]]]]]
  /\ UNCHANGED <<open, address, queuedTier, queues, pendingPairs, handshake, found, created>>

\* matchPair up to its await: the pair leaves the search, and the deck is asked for.
StartMatch(j, creator, challenger) ==
  /\ queuedTier' = [queuedTier EXCEPT ![creator] = NoTier, ![challenger] = NoTier]
  /\ tasks' = [tasks EXCEPT ![j] =
       [pc |-> "deck", ws |-> tasks[j].ws, tier |-> tasks[j].tier,
        match |-> [creator |-> creator, challenger |-> challenger,
                   creatorAddr |-> address[creator],
                   challengerAddr |-> address[challenger]]]]
  /\ UNCHANGED <<open, address, pendingPairs, handshake, found, created>>

\* findClosestOpponent answers with one candidate's address: the first candidate
\* with that address is taken, though the queue may have moved on since.
OpponentPicked(j) ==
  /\ tasks[j].pc = "picking"
  /\ \E i \in DOMAIN tasks[j].candidates :
       LET c == tasks[j].candidates IN
       /\ \A k \in DOMAIN c : k < i => c[k].address # c[i].address
       /\ queues' = [queues EXCEPT ![tasks[j].tier] = SpliceIndexOf(@, c[i].ws)]
       /\ StartMatch(j, c[i].ws, tasks[j].ws)

\* Nobody fits: the socket waits, if it is still there and still wants to.
StillSearching(ws, tier) == address[ws] # NoAddr /\ queuedTier[ws] = tier

NobodyPicked(j) ==
  LET ws == tasks[j].ws
      tier == tasks[j].tier
  IN
  /\ tasks[j].pc = "picking"
  /\ DOMAIN tasks[j].candidates = {} \/ MayMiss
  /\ queues' = IF StillSearching(ws, tier)
               THEN [queues EXCEPT ![tier] = Append(@, ws)] ELSE queues
  /\ tasks' = [tasks EXCEPT ![j] = [pc |-> "done", ws |-> ws, tier |-> tier]]
  /\ UNCHANGED <<open, address, queuedTier, pendingPairs, handshake, found, created>>

Finish(j) == [tasks EXCEPT ![j] = [pc |-> "done", ws |-> tasks[j].ws, tier |-> tasks[j].tier]]

\* match_found to both sockets, as far as they still listen.
Announce(m) ==
  [ws \in Sockets |->
     CASE ws = m.creator /\ open[ws] ->
            [role |-> "creator", creatorAddr |-> m.creatorAddr]
       [] ws = m.challenger /\ open[ws] ->
            [role |-> "challenger", creatorAddr |-> m.creatorAddr]
       [] OTHER -> found[ws]]

\* The deck is there: remember the pair, announce it, arm the handshake timer.
\* Both maps are keyed by the creator's address, so an earlier pair of the same
\* creator is forgotten and its timer cleared.
ArmHandshake_Never(m) == handshake
ArmHandshake(m) ==
  With(handshake, m.creatorAddr, [creator |-> m.creator, challenger |-> m.challenger])

DeckReady(j) ==
  LET m == tasks[j].match IN
  /\ Quiet
  /\ tasks[j].pc = "deck"
  /\ found' = Announce(m)
  /\ IF m.creatorAddr # NoAddr /\ m.challengerAddr # NoAddr
     THEN /\ pendingPairs' = With(pendingPairs, m.creatorAddr, m.challengerAddr)
          /\ handshake' = ArmHandshake(m)
          /\ created' = created \ {m.creatorAddr}
     ELSE UNCHANGED <<pendingPairs, handshake, created>>
  /\ tasks' = Finish(j)
  /\ UNCHANGED <<open, address, queuedTier, queues>>

\* requeue: back into the queue, unless closed or searching again already.
CanRequeue(ws) == address[ws] # NoAddr /\ queuedTier[ws] = NoTier
Pushed(ws, t) ==
  IF CanRequeue(ws) /\ ws \notin ToSet(queues[t]) THEN <<ws>> ELSE <<>>

\* The deck cannot be built: both go back to the queue and a retry is scheduled.
DeckFailed(j) ==
  LET m == tasks[j].match
      t == tasks[j].tier
  IN
  /\ Quiet
  /\ tasks[j].pc = "deck"
  /\ queuedTier' = [ws \in Sockets |->
       IF ws \in {m.creator, m.challenger} /\ CanRequeue(ws) THEN t ELSE queuedTier[ws]]
  /\ queues' = [queues EXCEPT ![t] = @ \o Pushed(m.creator, t) \o Pushed(m.challenger, t)]
  /\ tasks' = [tasks EXCEPT ![j].pc = "retry"]
  /\ UNCHANGED <<open, address, pendingPairs, handshake, found, created>>

\* The retry timer: the same pair again, if both are still waiting.
CanRetry_Blindly(m, t) == TRUE
CanRetry(m, t) ==
  /\ queuedTier[m.creator] = t /\ queuedTier[m.challenger] = t
  /\ {m.creator, m.challenger} \subseteq ToSet(queues[t])

Retry(j) ==
  LET m == tasks[j].match
      t == tasks[j].tier
  IN
  /\ Quiet
  /\ tasks[j].pc = "retry"
  /\ IF CanRetry(m, t)
     THEN /\ queues' = [queues EXCEPT ![t] =
                          SpliceIndexOf(SpliceIndexOf(@, m.creator), m.challenger)]
          /\ StartMatch(j, m.creator, m.challenger)
     ELSE /\ tasks' = Finish(j)
          /\ UNCHANGED <<open, address, queuedTier, queues, pendingPairs, handshake,
                         found, created>>

-----------------------------------------------------------------------------
(***************************************************************************)
(* The handshake after match_found.                                        *)
(***************************************************************************)

\* The creator's client lands create_duel on chain.
CreateDuel(ws) ==
  /\ found[ws].role = "creator"
  /\ found[ws].creatorAddr # NoAddr
  /\ created' = created \cup {found[ws].creatorAddr}
  /\ UNCHANGED <<open, address, queuedTier, queues, tasks, pendingPairs, handshake, found>>

\* takeMatchedPair, on DuelCreated: the pair is consumed, the teardown stood down,
\* and the challenger's sockets learn their duel.
TakeMatchedPair(a) ==
  /\ DuelCreatedHandled
  /\ a \in created /\ a \in DOMAIN pendingPairs
  /\ found' = [ws \in Sockets |->
       IF found[ws].role = "challenger" /\ address[ws] = pendingPairs[a]
       THEN NotFound ELSE found[ws]]
  /\ pendingPairs' = Without(pendingPairs, a)
  /\ handshake' = Without(handshake, a)
  /\ UNCHANGED <<open, address, queuedTier, queues, tasks, created>>

\* The handshake timer: match_abandoned to both, if the pair is still pending.
HandshakeTimeout(a) ==
  /\ a \in DOMAIN handshake
  /\ handshake' = Without(handshake, a)
  /\ IF a \in DOMAIN pendingPairs
     THEN found' = [ws \in Sockets |->
                      IF ws \in {handshake[a].creator, handshake[a].challenger}
                      THEN NotFound ELSE found[ws]]
     ELSE UNCHANGED found
  /\ pendingPairs' = Without(pendingPairs, a)
  /\ UNCHANGED <<open, address, queuedTier, queues, tasks, created>>

Next ==
  \/ \E ws \in Sockets, a \in Addresses : Hello(ws, a)
  \/ \E j \in Tasks, ws \in Sockets, t \in Tiers : JoinQueue(j, ws, t)
  \/ \E ws \in Sockets : LeaveQueue(ws)
  \/ \E ws \in Sockets : CloseSocket(ws)
  \/ \E j \in Tasks : RatingKnown(j)
  \/ \E j \in Tasks : OpponentPicked(j)
  \/ \E j \in Tasks : NobodyPicked(j)
  \/ \E j \in Tasks : DeckReady(j)
  \/ \E j \in Tasks : DeckFailed(j)
  \/ \E j \in Tasks : Retry(j)
  \/ \E ws \in Sockets : CreateDuel(ws)
  \/ \E a \in Addresses : TakeMatchedPair(a)
  \/ \E a \in Addresses : HandshakeTimeout(a)

Spec == Init /\ [][Next]_vars

\* Lookups answer, decks are built or fail, and armed timers fire.  Nothing is
\* assumed of the players.
Fairness ==
  /\ \A j \in Tasks : /\ WF_vars(RatingKnown(j))
                      /\ WF_vars(OpponentPicked(j) \/ NobodyPicked(j))
                      /\ WF_vars(DeckReady(j) \/ DeckFailed(j))
                      /\ WF_vars(Retry(j))
  /\ \A a \in Addresses : WF_vars(HandshakeTimeout(a))
FairSpec == Spec /\ Fairness

-----------------------------------------------------------------------------
(***************************************************************************)
(* Properties.                                                             *)
(***************************************************************************)

Entries(ws, t) == Cardinality({i \in DOMAIN queues[t] : queues[t][i] = ws})
InLookup(ws) == \E j \in Tasks : Looking(j) /\ tasks[j].ws = ws

\* A socket's own idea of where it waits and the queues agree, through leaves,
\* closes, failed decks and retries: it stands exactly once in the queue of
\* queuedTier once its lookups are over, nowhere else, and never when closed.
QueueConsistent ==
  \A ws \in Sockets, t \in Tiers :
    /\ Entries(ws, t) = IF queuedTier[ws] = t /\ ~InLookup(ws) THEN 1 ELSE 0
    /\ Entries(ws, t) > 0 => address[ws] # NoAddr

\* "When two players sit in the same bucket they're popped as a pair": a match
\* takes a creator out of the bucket it was waiting in, and a challenger that
\* is searching there; neither has left, gone, or been matched already.
MatchesOnlyTheWaiting ==
  [][\A j \in Tasks :
       tasks[j].pc # "deck" /\ tasks'[j].pc = "deck" =>
         LET m == tasks'[j].match
             t == tasks[j].tier IN
         /\ m.creator \in ToSet(queues[t])
         /\ \A ws \in {m.creator, m.challenger} : address[ws] # NoAddr /\ queuedTier[ws] = t
    ]_vars

\* Nobody plays themselves, with however many tabs: joinQueue filters the waiting
\* by address, and what it picked stays another player up to the announcement.
NoSelfMatch ==
  /\ \A j \in Tasks : tasks[j].pc \in {"deck", "retry"} =>
       LET m == tasks[j].match IN
       /\ m.creator # m.challenger
       /\ m.creatorAddr = m.challengerAddr => m.creatorAddr = NoAddr
  /\ \A a \in DOMAIN pendingPairs : pendingPairs[a] # a

\* No pairing outlives its handshake: it is taken on chain or torn down.
PairsSettle ==
  \A a \in Addresses : a \in DOMAIN pendingPairs ~> a \notin DOMAIN pendingPairs

\* The comment in the handshake timer: still being pending means that the
\* creator's DuelCreated never surfaced.
NeverAbandonsCreated ==
  [][\A a \in Addresses : HandshakeTimeout(a) /\ a \in DOMAIN pendingPairs =>
       a \notin created]_vars
=============================================================================
