-------------------------- MODULE MatchmakingProofs --------------------------
(***************************************************************************)
(* The types of Matchmaking, nobody matched with themselves, and the queue *)
(* discipline where no lookup is overtaken.                                *)
(***************************************************************************)
EXTENDS Matchmaking, SumProofs, SequenceTheorems

-----------------------------------------------------------------------------
(***************************************************************************)
(* Sequences.                                                              *)
(***************************************************************************)
NoDuplicates(s) == \A i, k \in DOMAIN s : s[i] = s[k] => i = k

LEMMA MemberOf ==
  ASSUME NEW S, NEW s \in Seq(S)
  PROVE  /\ ToSet(s) \subseteq S
         /\ \A e : e \in ToSet(s) <=> \E i \in 1 .. Len(s) : s[i] = e
BY DEF ToSet

LEMMA RemovedAt ==
  ASSUME NEW S, NEW s \in Seq(S), NEW i \in 1 .. Len(s)
  PROVE  /\ RemoveAt(s, i) \in Seq(S)
         /\ Len(RemoveAt(s, i)) = Len(s) - 1
         /\ \A k \in 1 .. Len(s) - 1 :
              RemoveAt(s, i)[k] = IF k < i THEN s[k] ELSE s[k + 1]
<1> DEFINE a == SubSeq(s, 1, i - 1)
           b == SubSeq(s, i + 1, Len(s))
<1>1. a \in Seq(S) /\ Len(a) = i - 1 /\ \A k \in 1 .. i - 1 : a[k] = s[k]
  BY SubSeqProperties
<1>2. b \in Seq(S) /\ Len(b) = Len(s) - i /\ \A k \in 1 .. Len(s) - i : b[k] = s[i + k]
  <2>1. Len(s) \in Int /\ i + 1 \in Int /\ \A k \in i + 1 .. Len(s) : s[k] \in S
    OBVIOUS
  <2>2. /\ b \in Seq(S)
        /\ Len(b) = IF i + 1 <= Len(s) THEN Len(s) - (i + 1) + 1 ELSE 0
        /\ \A k \in 1 .. Len(s) - (i + 1) + 1 : b[k] = s[(i + 1) + k - 1]
    BY <2>1, SubSeqProperties
  <2> HIDE DEF b
  <2> QED BY <2>1, <2>2
<1>3. RemoveAt(s, i) = a \o b
  BY DEF RemoveAt
<1> HIDE DEF a, b
<1>4. /\ a \o b \in Seq(S)
      /\ Len(a \o b) = Len(a) + Len(b)
      /\ \A k \in 1 .. Len(a) + Len(b) :
           (a \o b)[k] = IF k <= Len(a) THEN a[k] ELSE b[k - Len(a)]
  BY <1>1, <1>2, ConcatProperties
<1>5. ASSUME NEW k \in 1 .. Len(s) - 1
      PROVE  (a \o b)[k] = IF k < i THEN s[k] ELSE s[k + 1]
  <2>1. CASE k < i
    BY <1>1, <1>2, <1>4, <2>1
  <2>2. CASE ~(k < i)
    <3>1. /\ k - (i - 1) \in 1 .. Len(s) - i /\ i + (k - (i - 1)) = k + 1
          /\ k \in 1 .. (i - 1) + (Len(s) - i) /\ ~(k <= i - 1)
      BY <2>2
    <3>2. (a \o b)[k] = b[k - (i - 1)]
      BY <1>1, <1>2, <1>4, <3>1
    <3>3. b[k - (i - 1)] = s[k + 1]
      BY <1>2, <3>1
    <3> QED BY <2>2, <3>2, <3>3
  <2> QED BY <2>1, <2>2
<1> QED BY <1>1, <1>2, <1>3, <1>4, <1>5

\* The first of an element's places.
LEMMA FirstPlace ==
  ASSUME NEW S, NEW s \in Seq(S), NEW e \in ToSet(s)
  PROVE  \E i \in 1 .. Len(s) : s[i] = e /\ RemoveFirst(s, e) = RemoveAt(s, i)
<1> DEFINE I == {i \in 1 .. Len(s) : s[i] = e}
<1>1. I # {} /\ I \in SUBSET (0 .. Len(s)) /\ Len(s) \in Nat
  BY DEF ToSet
<1>2. \E n \in I : \A k \in I : n <= k
  BY <1>1, LeastNumber
<1>3. Min(I) \in I
  BY <1>2 DEF Min
<1>4. SelectInSeq(s, LAMBDA v : v = e) = Min(I)
  BY <1>1 DEF SelectInSeq
<1>5. RemoveFirst(s, e) = RemoveAt(s, Min(I))
  BY <1>1, <1>4 DEF RemoveFirst
<1> QED BY <1>3, <1>5

\* Leaving a queue in which nobody stands twice.
LEMMA Removed ==
  ASSUME NEW S, NEW s \in Seq(S), NEW e
  PROVE  /\ RemoveFirst(s, e) \in Seq(S)
         /\ e \notin ToSet(s) => RemoveFirst(s, e) = s
         /\ NoDuplicates(s) => /\ NoDuplicates(RemoveFirst(s, e))
                               /\ ToSet(RemoveFirst(s, e)) = ToSet(s) \ {e}
<1>1. CASE e \notin ToSet(s)
  <2>1. RemoveFirst(s, e) = s
    BY <1>1 DEF RemoveFirst, ToSet
  <2> QED BY <1>1, <2>1
<1>2. CASE e \in ToSet(s)
  <2>1. PICK i \in 1 .. Len(s) : s[i] = e /\ RemoveFirst(s, e) = RemoveAt(s, i)
    BY <1>2, FirstPlace
  <2> DEFINE r == RemoveFirst(s, e)
  <2>2. /\ r \in Seq(S)
        /\ Len(r) = Len(s) - 1
        /\ \A k \in 1 .. Len(s) - 1 : r[k] = IF k < i THEN s[k] ELSE s[k + 1]
    BY <2>1, RemovedAt
  <2> HIDE DEF r
  <2>3. ASSUME NoDuplicates(s) PROVE NoDuplicates(r) /\ ToSet(r) = ToSet(s) \ {e}
    <3>1. DOMAIN s = 1 .. Len(s) /\ DOMAIN r = 1 .. Len(s) - 1 /\ Len(s) \in Nat
      BY <2>2
    <3>2. \A k \in DOMAIN s, l \in DOMAIN s : s[k] = s[l] => k = l
      BY <2>3 DEF NoDuplicates
    <3>3. NoDuplicates(r)
      BY <2>2, <3>1, <3>2 DEF NoDuplicates
    <3>4. ASSUME NEW k \in DOMAIN r PROVE r[k] \in ToSet(s) \ {e}
      BY <2>1, <2>2, <3>1, <3>2 DEF ToSet
    <3>5. ASSUME NEW k \in DOMAIN s, s[k] # e PROVE \E l \in DOMAIN r : r[l] = s[k]
      <4>1. CASE k < i
        BY <2>2, <3>1, <4>1
      <4>2. CASE k > i
        <5>1. k - 1 \in DOMAIN r /\ ~(k - 1 < i) /\ (k - 1) + 1 = k
          BY <3>1, <4>2
        <5> QED BY <2>2, <3>1, <5>1
      <4> QED BY <2>1, <3>1, <3>5, <4>1, <4>2
    <3>6. ToSet(r) \subseteq ToSet(s) \ {e}
      BY <3>4 DEF ToSet
    <3>7. ToSet(s) \ {e} \subseteq ToSet(r)
      BY <3>5 DEF ToSet
    <3> QED BY <3>3, <3>6, <3>7
  <2> QED BY <1>2, <2>2, <2>3 DEF r
<1> QED BY <1>1, <1>2

LEMMA Joined ==
  ASSUME NEW S, NEW s \in Seq(S), NEW e \in S
  PROVE  /\ Append(s, e) \in Seq(S)
         /\ ToSet(Append(s, e)) = ToSet(s) \cup {e}
         /\ NoDuplicates(s) /\ e \notin ToSet(s) => NoDuplicates(Append(s, e))
<1> DEFINE r == Append(s, e)
<1>1. /\ r \in Seq(S)
      /\ Len(r) = Len(s) + 1
      /\ \A k \in 1 .. Len(s) : r[k] = s[k]
      /\ r[Len(s) + 1] = e
  BY AppendProperties
<1> HIDE DEF r
<1>2. DOMAIN s = 1 .. Len(s) /\ DOMAIN r = 1 .. Len(s) + 1 /\ Len(s) \in Nat
  BY <1>1
<1>3. ToSet(r) = ToSet(s) \cup {e}
  <2>1. \A k \in DOMAIN r : k \in DOMAIN s \/ k = Len(s) + 1
    BY <1>2
  <2>2. ToSet(r) \subseteq ToSet(s) \cup {e}
    BY <1>1, <1>2, <2>1 DEF ToSet
  <2>3. \A k \in DOMAIN s : k \in DOMAIN r /\ r[k] = s[k]
    BY <1>1, <1>2
  <2>4. Len(s) + 1 \in DOMAIN r
    BY <1>2
  <2>5. ToSet(s) \cup {e} \subseteq ToSet(r)
    BY <1>1, <2>3, <2>4 DEF ToSet
  <2> QED BY <2>2, <2>5
<1>4. ASSUME NoDuplicates(s), e \notin ToSet(s) PROVE NoDuplicates(r)
  <2>1. \A k \in DOMAIN s : s[k] # e
    BY <1>4 DEF ToSet
  <2>2. \A k \in DOMAIN s, l \in DOMAIN s : s[k] = s[l] => k = l
    BY <1>4 DEF NoDuplicates
  <2> QED BY <1>1, <1>2, <2>1, <2>2 DEF NoDuplicates
<1> QED BY <1>1, <1>3, <1>4 DEF r

-----------------------------------------------------------------------------
(***************************************************************************)
(* The queues and tasks that a step leaves.                                *)
(***************************************************************************)
LEMMA Spliced ==
  ASSUME NEW q \in Seq(Sockets), NEW ws
  PROVE  /\ SpliceIndexOf(q, ws) \in Seq(Sockets)
         /\ ws \in ToSet(q) => SpliceIndexOf(q, ws) = RemoveFirst(q, ws)
<1>1. CASE ws \in ToSet(q)
  BY <1>1, Removed DEF SpliceIndexOf
<1>2. CASE ws \notin ToSet(q) /\ q # <<>>
  <2>1. Len(q) \in Nat /\ \A i \in 1 .. Len(q) - 1 : q[i] \in Sockets
    OBVIOUS
  <2>2. Front(q) \in Seq(Sockets)
    BY <2>1, SubSeqProperties DEF Front
  <2> QED BY <1>2, <2>2 DEF SpliceIndexOf
<1>3. CASE ws \notin ToSet(q) /\ q = <<>>
  BY <1>3 DEF SpliceIndexOf
<1> QED BY <1>1, <1>2, <1>3

LEMMA AfterLeaveType ==
  ASSUME TypeOK, NEW ws \in Sockets
  PROVE  AfterLeave(ws) \in [Tiers -> Seq(Sockets)]
BY Removed DEF AfterLeave, TypeOK

LEMMA PushedOn ==
  ASSUME NEW q \in Seq(Sockets), NEW ws \in Sockets, NEW t \in Tiers
  PROVE  q \o Pushed(ws, t)
           = IF CanRequeue(ws) /\ ws \notin ToSet(queues[t]) THEN Append(q, ws) ELSE q
<1>1. q \o <<>> = q
  BY ConcatEmptySeq
<1>2. q \o <<ws>> = Append(q, ws)
  BY AppendIsConcat
<1> QED BY <1>1, <1>2 DEF Pushed

LEMMA PushedType ==
  ASSUME NEW q \in Seq(Sockets), NEW ws \in Sockets, NEW t \in Tiers
  PROVE  q \o Pushed(ws, t) \in Seq(Sockets)
<1>1. Append(q, ws) \in Seq(Sockets)
  OBVIOUS
<1> QED BY <1>1, PushedOn

\* A task that is under way is not Idle.
LEMMA UnderWay ==
  ASSUME TypeOK, NEW j \in Tasks, tasks[j].pc # "unused"
  PROVE  /\ tasks[j].ws \in Sockets /\ tasks[j].tier \in Tiers
         /\ tasks[j].pc = "picking" => Candidates(tasks[j].candidates)
         /\ tasks[j].pc \in {"deck", "retry"} => tasks[j].match \in Match
BY DEF TypeOK, TaskOK, Idle

-----------------------------------------------------------------------------
(***************************************************************************)
(* Types, one lemma for each group of actions.                             *)
(***************************************************************************)
LEMMA TypeInit == Init => TypeOK
<1> SUFFICES ASSUME Init PROVE TypeOK
  OBVIOUS
<1>1. <<>> \in Seq(Sockets) /\ DOMAIN <<>> = {}
  OBVIOUS
<1>2. queues \in [Tiers -> Seq(Sockets)]
  BY <1>1 DEF Init
<1>3. DOMAIN tasks = Tasks /\ \A j \in Tasks : TaskOK(tasks[j])
  BY DEF Init, TaskOK
<1>4. DOMAIN found = Sockets /\ \A ws \in Sockets : found[ws].role = "none"
  BY DEF Init, NotFound
<1> QED BY <1>1, <1>2, <1>3, <1>4 DEF Init, TypeOK

LEMMA TypeMessages ==
  ASSUME TypeOK, NEW ws \in Sockets,
         \/ \E a \in Addresses : Hello(ws, a)
         \/ \E j \in Tasks, t \in Tiers : JoinQueue(j, ws, t)
         \/ LeaveQueue(ws)
         \/ CloseSocket(ws)
         \/ CreateDuel(ws)
  PROVE  TypeOK'
<1>1. AfterLeave(ws) \in [Tiers -> Seq(Sockets)]
  BY AfterLeaveType
<1>2. CASE \E a \in Addresses : Hello(ws, a)
  BY <1>2 DEF Hello, TypeOK
<1>3. ASSUME NEW j \in Tasks, NEW t \in Tiers, JoinQueue(j, ws, t) PROVE TypeOK'
  <2>1. TaskOK([pc |-> "rating", ws |-> ws, tier |-> t])
    BY DEF TaskOK
  <2>2. DOMAIN tasks' = Tasks /\ \A k \in Tasks : TaskOK(tasks'[k])
    BY <1>3, <2>1 DEF JoinQueue, TypeOK
  <2>3. /\ DOMAIN found' = Sockets
        /\ \A w \in Sockets : found'[w] = IF w = ws THEN NotFound ELSE found[w]
    BY <1>3 DEF JoinQueue, TypeOK
  <2> QED BY <1>1, <1>3, <2>2, <2>3 DEF JoinQueue, TypeOK, NotFound
<1>4. CASE LeaveQueue(ws)
  BY <1>1, <1>4 DEF LeaveQueue, TypeOK
<1>5. CASE CloseSocket(ws)
  <2>1. /\ DOMAIN found' = Sockets
        /\ \A w \in Sockets : found'[w] = IF w = ws THEN NotFound ELSE found[w]
    BY <1>5 DEF CloseSocket, TypeOK
  <2> QED BY <1>1, <1>5, <2>1 DEF CloseSocket, TypeOK, NotFound
<1>6. CASE CreateDuel(ws)
  BY <1>6 DEF CreateDuel, TypeOK
<1> QED BY <1>2, <1>3, <1>4, <1>5, <1>6

LEMMA StartMatchType ==
  ASSUME TypeOK, NEW j \in Tasks, tasks[j].pc # "unused",
         NEW u \in Sockets, NEW v \in Sockets, StartMatch(j, u, v),
         queues' \in [Tiers -> Seq(Sockets)]
  PROVE  TypeOK'
<1> DEFINE m == [creator |-> u, challenger |-> v,
                 creatorAddr |-> address[u], challengerAddr |-> address[v]]
<1>1. m \in Match
  BY DEF Match, TypeOK
<1>2. TaskOK([pc |-> "deck", ws |-> tasks[j].ws, tier |-> tasks[j].tier, match |-> m])
  BY <1>1, UnderWay DEF TaskOK
<1>3. DOMAIN tasks' = Tasks /\ \A k \in Tasks : TaskOK(tasks'[k])
  BY <1>2 DEF StartMatch, TypeOK
<1> QED BY <1>3 DEF StartMatch, TypeOK

LEMMA TypeLookup ==
  ASSUME TypeOK, NEW j \in Tasks,
         RatingKnown(j) \/ OpponentPicked(j) \/ NobodyPicked(j)
  PROVE  TypeOK'
<1> DEFINE ws == tasks[j].ws
           tier == tasks[j].tier
<1>0. ws \in Sockets /\ tier \in Tiers /\ queues[tier] \in Seq(Sockets)
  BY UnderWay DEF RatingKnown, OpponentPicked, NobodyPicked, TypeOK
<1>1. CASE RatingKnown(j)
  <2> DEFINE q == queues[tier]
             c == [i \in {i \in DOMAIN q : IsCandidate(q[i], ws)} |->
                     [ws |-> q[i], address |-> address[q[i]]]]
  <2>1. ASSUME NEW i \in DOMAIN q, IsCandidate(q[i], ws)
        PROVE  i \in Nat /\ [ws |-> q[i], address |-> address[q[i]]] \in Candidate
    <3>1. q[i] \in Sockets /\ i \in Nat
      BY <1>0
    <3>2. address[q[i]] \in Addresses
      BY <2>1, <3>1 DEF IsCandidate, TypeOK
    <3> QED BY <3>1, <3>2 DEF Candidate
  <2>2. Candidates(c)
    BY <2>1 DEF Candidates
  <2>3. tasks' = [tasks EXCEPT ![j] = [pc |-> "picking", ws |-> ws, tier |-> tier,
                                       candidates |-> c]]
    BY <1>1 DEF RatingKnown
  <2> HIDE DEF c
  <2>4. TaskOK([pc |-> "picking", ws |-> ws, tier |-> tier, candidates |-> c])
    BY <1>0, <2>2 DEF TaskOK
  <2>5. DOMAIN tasks' = Tasks /\ \A k \in Tasks : TaskOK(tasks'[k])
    BY <2>3, <2>4 DEF TypeOK
  <2> QED BY <1>1, <2>5 DEF RatingKnown, TypeOK
<1>2. CASE OpponentPicked(j)
  <2>1. Candidates(tasks[j].candidates)
    BY <1>2, UnderWay DEF OpponentPicked
  <2>2. PICK i \in DOMAIN tasks[j].candidates :
          /\ queues' = [queues EXCEPT ![tier] = SpliceIndexOf(@, tasks[j].candidates[i].ws)]
          /\ StartMatch(j, tasks[j].candidates[i].ws, ws)
    BY <1>2 DEF OpponentPicked
  <2>3. tasks[j].candidates[i].ws \in Sockets
    BY <2>1 DEF Candidates, Candidate
  <2>4. queues' \in [Tiers -> Seq(Sockets)]
    BY <1>0, <2>2, Spliced DEF TypeOK
  <2> QED BY <1>0, <1>2, <2>2, <2>3, <2>4, StartMatchType DEF OpponentPicked
<1>3. CASE NobodyPicked(j)
  <2>1. Append(queues[tier], ws) \in Seq(Sockets)
    BY <1>0
  <2>2. queues' \in [Tiers -> Seq(Sockets)]
    BY <1>3, <2>1 DEF NobodyPicked, TypeOK
  <2>3. TaskOK([pc |-> "done", ws |-> ws, tier |-> tier])
    BY <1>0 DEF TaskOK
  <2>4. DOMAIN tasks' = Tasks /\ \A k \in Tasks : TaskOK(tasks'[k])
    BY <1>3, <2>3 DEF NobodyPicked, TypeOK
  <2> QED BY <1>3, <2>2, <2>4 DEF NobodyPicked, TypeOK
<1> QED BY <1>1, <1>2, <1>3

LEMMA FinishType ==
  ASSUME TypeOK, NEW j \in Tasks, tasks[j].pc # "unused", tasks' = Finish(j)
  PROVE  DOMAIN tasks' = Tasks /\ \A k \in Tasks : TaskOK(tasks'[k])
<1>1. TaskOK([pc |-> "done", ws |-> tasks[j].ws, tier |-> tasks[j].tier])
  BY UnderWay DEF TaskOK
<1> QED BY <1>1 DEF Finish, TypeOK

LEMMA DeckFailedTask ==
  ASSUME TypeOK, NEW j \in Tasks, DeckFailed(j)
  PROVE  /\ tasks'[j].pc = "retry" /\ tasks'[j].ws = tasks[j].ws
         /\ tasks'[j].tier = tasks[j].tier /\ tasks'[j].match = tasks[j].match
<1>1. tasks' = [tasks EXCEPT ![j].pc = "retry"] /\ DOMAIN tasks = Tasks
  BY DEF DeckFailed, TypeOK
<1>2. tasks'[j] = [tasks[j] EXCEPT !.pc = "retry"]
  BY <1>1
<1> QED BY <1>2

LEMMA TypeMatching ==
  ASSUME TypeOK, NEW j \in Tasks, DeckReady(j) \/ DeckFailed(j) \/ Retry(j)
  PROVE  TypeOK'
<1> DEFINE m == tasks[j].match
           t == tasks[j].tier
<1>0. /\ tasks[j].pc \in {"deck", "retry"}
      /\ m \in Match /\ t \in Tiers /\ tasks[j].ws \in Sockets
      /\ m.creator \in Sockets /\ m.challenger \in Sockets
      /\ queues[t] \in Seq(Sockets)
  BY UnderWay DEF DeckReady, DeckFailed, Retry, TypeOK, Match
<1>1. CASE DeckReady(j)
  <2>1. DOMAIN tasks' = Tasks /\ \A k \in Tasks : TaskOK(tasks'[k])
    BY <1>1, FinishType DEF DeckReady
  <2>2. /\ DOMAIN found' = Sockets
        /\ \A ws \in Sockets :
             /\ found'[ws].role \in {"none", "creator", "challenger"}
             /\ found'[ws].role # "none" => found'[ws].creatorAddr \in Addresses \cup {NoAddr}
    <3>1. found' = Announce(m) /\ m.creatorAddr \in Addresses \cup {NoAddr}
      BY <1>0, <1>1 DEF DeckReady, Match
    <3>2. DOMAIN found' = Sockets
      BY <3>1 DEF Announce
    <3>3. ASSUME NEW ws \in Sockets
          PROVE  \/ found'[ws] = [role |-> "creator", creatorAddr |-> m.creatorAddr]
                 \/ found'[ws] = [role |-> "challenger", creatorAddr |-> m.creatorAddr]
                 \/ found'[ws] = found[ws]
      BY <3>1 DEF Announce
    <3> HIDE DEF m
    <3> QED BY <3>1, <3>2, <3>3 DEF TypeOK
  <2>3. /\ DOMAIN pendingPairs' \subseteq Addresses
        /\ DOMAIN handshake' \subseteq Addresses
        /\ \A a \in DOMAIN pendingPairs' : pendingPairs'[a] \in Addresses
        /\ created' \subseteq Addresses
    <3>1. CASE m.creatorAddr # NoAddr /\ m.challengerAddr # NoAddr
      <4>1. m.creatorAddr \in Addresses /\ m.challengerAddr \in Addresses
        BY <1>0, <3>1 DEF Match
      <4>2. /\ pendingPairs' = With(pendingPairs, m.creatorAddr, m.challengerAddr)
            /\ handshake' = ArmHandshake(m)
            /\ created' = created \ {m.creatorAddr}
        BY <1>1, <3>1 DEF DeckReady
      <4> HIDE DEF m
      <4> QED BY <4>1, <4>2 DEF With, ArmHandshake, TypeOK
    <3>2. CASE ~(m.creatorAddr # NoAddr /\ m.challengerAddr # NoAddr)
      <4>1. UNCHANGED <<pendingPairs, handshake, created>>
        BY <1>1, <3>2 DEF DeckReady
      <4> QED BY <4>1 DEF TypeOK
    <3> QED BY <3>1, <3>2
  <2>4. UNCHANGED <<open, address, queuedTier, queues>>
    BY <1>1 DEF DeckReady
  <2> QED BY <2>1, <2>2, <2>3, <2>4 DEF TypeOK
<1>2. CASE DeckFailed(j)
  <2> DEFINE q1 == queues[t] \o Pushed(m.creator, t)
             q2 == q1 \o Pushed(m.challenger, t)
  <2>1. q1 \in Seq(Sockets)
    BY <1>0, PushedType
  <2> HIDE DEF q1
  <2>2. q2 \in Seq(Sockets)
    BY <1>0, <2>1, PushedType
  <2> HIDE DEF q2
  <2>3. queues' = [queues EXCEPT ![t] = q2]
    BY <1>2 DEF DeckFailed, q1, q2
  <2>4. queues' \in [Tiers -> Seq(Sockets)]
    BY <1>0, <2>2, <2>3 DEF TypeOK
  <2>5. queuedTier' \in [Sockets -> Tiers \cup {NoTier}]
    BY <1>0, <1>2 DEF DeckFailed, TypeOK
  <2>6. DOMAIN tasks' = Tasks /\ \A k \in Tasks : k # j => tasks'[k] = tasks[k]
    BY <1>2 DEF DeckFailed, TypeOK
  <2>7. /\ tasks'[j].pc = "retry" /\ tasks'[j].ws = tasks[j].ws
        /\ tasks'[j].tier = t /\ tasks'[j].match = m
    BY <1>2, DeckFailedTask
  <2>8. \A k \in Tasks : TaskOK(tasks'[k])
    <3>1. TaskOK(tasks'[j])
      BY <1>0, <2>7 DEF TaskOK
    <3> QED BY <2>6, <3>1 DEF TypeOK
  <2> QED BY <1>2, <2>4, <2>5, <2>6, <2>8 DEF DeckFailed, TypeOK
<1>3. CASE Retry(j) /\ CanRetry(m, t)
  <2>1. SpliceIndexOf(SpliceIndexOf(queues[t], m.creator), m.challenger) \in Seq(Sockets)
    BY <1>0, Spliced
  <2>2. queues' \in [Tiers -> Seq(Sockets)]
    BY <1>0, <1>3, <2>1 DEF Retry, TypeOK
  <2> QED BY <1>0, <1>3, <2>2, StartMatchType DEF Retry
<1>4. CASE Retry(j) /\ ~CanRetry(m, t)
  <2>1. DOMAIN tasks' = Tasks /\ \A k \in Tasks : TaskOK(tasks'[k])
    BY <1>0, <1>4, FinishType DEF Retry
  <2> QED BY <1>4, <2>1 DEF Retry, TypeOK
<1> QED BY <1>1, <1>2, <1>3, <1>4

LEMMA TypeHandshake ==
  ASSUME TypeOK, NEW a \in Addresses, TakeMatchedPair(a) \/ HandshakeTimeout(a)
  PROVE  TypeOK'
<1>1. /\ DOMAIN pendingPairs' \subseteq Addresses
      /\ DOMAIN handshake' \subseteq Addresses
      /\ \A b \in DOMAIN pendingPairs' : pendingPairs'[b] \in Addresses
  BY DEF TakeMatchedPair, HandshakeTimeout, Without, TypeOK
<1>2. /\ DOMAIN found' = Sockets
      /\ \A ws \in Sockets : found'[ws] = NotFound \/ found'[ws] = found[ws]
  BY DEF TakeMatchedPair, HandshakeTimeout, TypeOK
<1>3. UNCHANGED <<open, address, queuedTier, queues, tasks, created>>
  BY DEF TakeMatchedPair, HandshakeTimeout
<1> QED BY <1>1, <1>2, <1>3 DEF TypeOK, NotFound

LEMMA TypeStep == TypeOK /\ [Next]_vars => TypeOK'
<1> SUFFICES ASSUME TypeOK, [Next]_vars PROVE TypeOK'
  OBVIOUS
<1>1. CASE UNCHANGED vars
  BY <1>1 DEF vars, TypeOK
<1>2. CASE Next
  BY <1>2, TypeMessages, TypeLookup, TypeMatching, TypeHandshake DEF Next
<1> QED BY <1>1, <1>2

(* Every variable keeps its type, whatever overlaps: the queues hold sockets, *)
(* a candidate has an address, and the pending pairs are of players who have  *)
(* said hello (matchmaking.ts:90-134).                                        *)
THEOREM QueueTypes == Spec => []TypeOK
<1> QED BY TypeInit, TypeStep, PTL DEF Spec

-----------------------------------------------------------------------------
(***************************************************************************)
(* Nobody is matched with themselves.                                      *)
(***************************************************************************)

\* A client that says hello with one wallet only.  The web client says hello
\* again when its wallet changes (use-flicky-socket.ts:188-195).
OneWallet == \A ws \in Sockets : \A a, b \in Wallets[ws] : a = b

\* A connection that has said hello has its address until it closes.
Bound(ws) == open[ws] => address[ws] # NoAddr

\* Two connections that are not, and will not be, of one player.
Apart(u, v) ==
  /\ u # v /\ Bound(u) /\ Bound(v)
  /\ address[u] = address[v] => address[u] = NoAddr

AddressesOK ==
  \A ws \in Sockets :
    /\ address[ws] \in Wallets[ws] \cup {NoAddr}
    /\ ~open[ws] => address[ws] = NoAddr

\* What a task holds across its awaits.
TaskApart(task) ==
  /\ task.pc # "unused" => Bound(task.ws)
  /\ task.pc = "picking" =>
       \A i \in DOMAIN task.candidates : Apart(task.candidates[i].ws, task.ws)
  /\ task.pc \in {"deck", "retry"} =>
       /\ Apart(task.match.creator, task.match.challenger)
       /\ task.match.creatorAddr = task.match.challengerAddr => task.match.creatorAddr = NoAddr

PairsApart == \A a \in DOMAIN pendingPairs : pendingPairs[a] # a

SelfInv ==
  /\ TypeOK /\ AddressesOK /\ PairsApart
  /\ \A j \in Tasks : TaskApart(tasks[j])

\* What a step may do to a connection.
AddressStep ==
  \A ws \in Sockets :
    \/ address'[ws] = address[ws] /\ open'[ws] = open[ws]
    \/ address'[ws] = NoAddr /\ ~open'[ws]
    \/ address[ws] = NoAddr /\ open[ws]

LEMMA AddressSteps ==
  ASSUME OneWallet, TypeOK, AddressesOK, [Next]_vars
  PROVE  AddressStep /\ AddressesOK'
<1>1. CASE UNCHANGED <<open, address>>
  BY <1>1 DEF AddressStep, AddressesOK
<1>2. ASSUME NEW ws \in Sockets, NEW a \in Addresses, Hello(ws, a)
      PROVE  AddressStep /\ AddressesOK'
  <2>1. open[ws] /\ a \in Wallets[ws] /\ address[ws] # a
    BY <1>2 DEF Hello
  <2>2. address[ws] = NoAddr
    BY <2>1 DEF AddressesOK, OneWallet
  <2>3. open' = open /\ \A w \in Sockets : address'[w] = IF w = ws THEN a ELSE address[w]
    BY <1>2 DEF Hello, TypeOK
  <2> QED BY <2>1, <2>2, <2>3 DEF AddressStep, AddressesOK
<1>3. ASSUME NEW ws \in Sockets, CloseSocket(ws)
      PROVE  AddressStep /\ AddressesOK'
  <2>1. /\ \A w \in Sockets : address'[w] = IF w = ws THEN NoAddr ELSE address[w]
        /\ \A w \in Sockets : open'[w] = IF w = ws THEN FALSE ELSE open[w]
    BY <1>3 DEF CloseSocket, TypeOK
  <2> QED BY <2>1 DEF AddressStep, AddressesOK
<1> QED
  BY <1>1, <1>2, <1>3
  DEF Next, vars, JoinQueue, LeaveQueue, RatingKnown, OpponentPicked, NobodyPicked, StartMatch,
      DeckReady, DeckFailed, Retry, CreateDuel, TakeMatchedPair, HandshakeTimeout

LEMMA ApartKept ==
  ASSUME AddressStep, NEW u \in Sockets, NEW v \in Sockets
  PROVE  (Bound(u) => Bound(u)') /\ (Apart(u, v) => Apart(u, v)')
BY DEF AddressStep, Bound, Apart

\* A task that does not move keeps what it holds apart.
LEMMA TaskKept ==
  ASSUME TypeOK, AddressStep, NEW k \in Tasks, tasks'[k] = tasks[k], TaskApart(tasks[k])
  PROVE  TaskApart(tasks[k])'
<1>1. CASE tasks[k].pc = "unused"
  BY <1>1 DEF TaskApart
<1>2. CASE tasks[k].pc # "unused"
  <2>1. tasks[k].ws \in Sockets
    BY <1>2, UnderWay
  <2>2. tasks[k].pc = "picking" =>
          \A i \in DOMAIN tasks[k].candidates : tasks[k].candidates[i].ws \in Sockets
    BY <1>2, UnderWay DEF Candidates, Candidate
  <2>3. tasks[k].pc \in {"deck", "retry"} =>
          tasks[k].match.creator \in Sockets /\ tasks[k].match.challenger \in Sockets
    BY <1>2, UnderWay DEF Match
  <2> QED BY <2>1, <2>2, <2>3, ApartKept DEF TaskApart
<1> QED BY <1>1, <1>2

\* A match that starts between two who are apart.
LEMMA MatchApart ==
  ASSUME TypeOK, AddressStep, NEW j \in Tasks, NEW u \in Sockets, NEW v \in Sockets,
         StartMatch(j, u, v), Apart(u, v), Bound(tasks[j].ws), tasks[j].ws \in Sockets
  PROVE  /\ TaskApart(tasks[j])'
         /\ \A k \in Tasks : k # j => tasks'[k] = tasks[k]
<1>1. /\ \A k \in Tasks : k # j => tasks'[k] = tasks[k]
      /\ tasks'[j] = [pc |-> "deck", ws |-> tasks[j].ws, tier |-> tasks[j].tier,
                      match |-> [creator |-> u, challenger |-> v,
                                 creatorAddr |-> address[u], challengerAddr |-> address[v]]]
  BY DEF StartMatch, TypeOK
<1>2. Bound(tasks[j].ws)' /\ Apart(u, v)'
  <2>1. UNCHANGED <<open, address>>
    BY DEF StartMatch
  <2>2. tasks'[j].ws = tasks[j].ws
    BY <1>1
  <2> QED BY <2>1, <2>2 DEF Bound, Apart
<1> QED BY <1>1, <1>2 DEF TaskApart, Apart

\* A task that moved and is in no match any more, or still in the same one.
LEMMA TaskMoved ==
  ASSUME TypeOK, AddressStep, NEW j \in Tasks, tasks[j].pc # "unused", TaskApart(tasks[j]),
         tasks'[j].ws = tasks[j].ws,
         \/ tasks'[j].pc = "done"
         \/ /\ tasks[j].pc = "deck" /\ tasks'[j].pc = "retry"
            /\ tasks'[j].match = tasks[j].match
  PROVE  TaskApart(tasks[j])'
<1>1. tasks[j].ws \in Sockets
  BY UnderWay
<1>2. Bound(tasks[j].ws)'
  BY <1>1, ApartKept DEF TaskApart, Bound
<1>3. CASE tasks'[j].pc = "done"
  BY <1>2, <1>3 DEF TaskApart
<1>4. CASE tasks[j].pc = "deck" /\ tasks'[j].pc = "retry" /\ tasks'[j].match = tasks[j].match
  <2>1. tasks[j].match.creator \in Sockets /\ tasks[j].match.challenger \in Sockets
    BY <1>4, UnderWay DEF Match
  <2>2. Apart(tasks[j].match.creator, tasks[j].match.challenger)'
    BY <1>4, <2>1, ApartKept DEF TaskApart, Apart, Bound
  <2> QED BY <1>2, <1>4, <2>2 DEF TaskApart
<1> QED BY <1>3, <1>4

LEMMA TasksStayApart ==
  ASSUME SelfInv, AddressStep, [Next]_vars, NEW k \in Tasks
  PROVE  TaskApart(tasks[k])'
<1>0. TypeOK /\ AddressesOK /\ \A i \in Tasks : TaskApart(tasks[i])
  BY DEF SelfInv
<1>1. CASE tasks'[k] = tasks[k]
  BY <1>0, <1>1, TaskKept
<1>2. ASSUME NEW j \in Tasks, NEW ws \in Sockets, NEW t \in Tiers, JoinQueue(j, ws, t)
      PROVE  TaskApart(tasks[k])'
  <2>1. CASE j = k
    <3>1. tasks'[k] = [pc |-> "rating", ws |-> ws, tier |-> t]
      BY <1>0, <1>2, <2>1 DEF JoinQueue, TypeOK
    <3>2. address'[ws] # NoAddr
      BY <1>2 DEF JoinQueue
    <3> QED BY <3>1, <3>2 DEF TaskApart, Bound
  <2>2. CASE j # k
    BY <1>0, <1>1, <1>2, <2>2 DEF JoinQueue, TypeOK
  <2> QED BY <2>1, <2>2
<1>3. ASSUME NEW j \in Tasks, RatingKnown(j)
      PROVE  TaskApart(tasks[k])'
  <2>1. CASE j = k
    <3> DEFINE ws == tasks[j].ws
               q == queues[tasks[j].tier]
    <3>1. ws \in Sockets /\ q \in Seq(Sockets) /\ Bound(ws)
      BY <1>0, <1>3, UnderWay DEF RatingKnown, TypeOK, TaskApart
    <3>2. /\ tasks'[j].pc = "picking" /\ tasks'[j].ws = ws
          /\ tasks'[j].candidates = [i \in {i \in DOMAIN q : IsCandidate(q[i], ws)} |->
                                       [ws |-> q[i], address |-> address[q[i]]]]
      BY <1>0, <1>3 DEF RatingKnown, TypeOK
    <3>3. UNCHANGED <<open, address>>
      BY <1>3 DEF RatingKnown
    <3>4. ASSUME NEW i \in DOMAIN q, IsCandidate(q[i], ws)
          PROVE  Apart(q[i], ws)
      <4>1. q[i] \in Sockets
        BY <3>1
      <4> QED BY <3>1, <3>4, <4>1 DEF IsCandidate, Apart, Bound
    <3> HIDE DEF ws, q
    <3>5. ASSUME NEW i \in DOMAIN tasks'[j].candidates
          PROVE  Apart(tasks'[j].candidates[i].ws, ws)
      BY <3>2, <3>4
    <3>6. \A i \in DOMAIN tasks'[j].candidates : Apart(tasks[j].candidates[i].ws, tasks[j].ws)'
      BY <3>2, <3>3, <3>5 DEF Apart, Bound
    <3>7. Bound(tasks[j].ws)'
      BY <3>1, <3>2, <3>3 DEF Bound
    <3> QED BY <2>1, <3>2, <3>6, <3>7 DEF TaskApart
  <2>2. CASE j # k
    BY <1>0, <1>1, <1>3, <2>2 DEF RatingKnown, TypeOK
  <2> QED BY <2>1, <2>2
<1>4. ASSUME NEW j \in Tasks, OpponentPicked(j)
      PROVE  TaskApart(tasks[k])'
  <2>1. PICK i \in DOMAIN tasks[j].candidates : StartMatch(j, tasks[j].candidates[i].ws, tasks[j].ws)
    BY <1>4 DEF OpponentPicked
  <2>2. tasks[j].candidates[i].ws \in Sockets /\ tasks[j].ws \in Sockets
    BY <1>0, <1>4, UnderWay DEF OpponentPicked, Candidates, Candidate
  <2>3. Bound(tasks[j].ws) /\ Apart(tasks[j].candidates[i].ws, tasks[j].ws)
    BY <1>0, <1>4 DEF OpponentPicked, TaskApart
  <2> QED BY <1>0, <1>1, <2>1, <2>2, <2>3, MatchApart
<1>5. ASSUME NEW j \in Tasks, NobodyPicked(j) \/ DeckReady(j) \/ DeckFailed(j)
      PROVE  TaskApart(tasks[k])'
  <2>1. CASE j = k
    <3>1. tasks[j].pc # "unused"
      BY <1>5 DEF NobodyPicked, DeckReady, DeckFailed
    <3>2. CASE NobodyPicked(j) \/ DeckReady(j)
      <4>1. tasks'[j].pc = "done" /\ tasks'[j].ws = tasks[j].ws
        BY <1>0, <3>2 DEF NobodyPicked, DeckReady, Finish, TypeOK
      <4> QED BY <1>0, <2>1, <3>1, <4>1, TaskMoved
    <3>3. CASE DeckFailed(j)
      <4>1. tasks[j].pc = "deck" /\ tasks'[j] = [tasks[j] EXCEPT !.pc = "retry"]
        BY <1>0, <3>3 DEF DeckFailed, TypeOK
      <4>2. tasks'[j].pc = "retry" /\ tasks'[j].ws = tasks[j].ws /\ tasks'[j].match = tasks[j].match
        BY <1>0, <3>3, DeckFailedTask
      <4> QED BY <1>0, <2>1, <3>1, <4>1, <4>2, TaskMoved
    <3> QED BY <1>5, <3>2, <3>3
  <2>2. CASE j # k
    BY <1>0, <1>1, <1>5, <2>2 DEF NobodyPicked, DeckReady, DeckFailed, Finish, TypeOK
  <2> QED BY <2>1, <2>2
<1>6. ASSUME NEW j \in Tasks, Retry(j)
      PROVE  TaskApart(tasks[k])'
  <2>1. tasks[j].pc = "retry" /\ tasks[j].ws \in Sockets /\ tasks[j].match \in Match
    BY <1>0, <1>6, UnderWay DEF Retry
  <2>2. CASE StartMatch(j, tasks[j].match.creator, tasks[j].match.challenger)
    <3>1. tasks[j].match.creator \in Sockets /\ tasks[j].match.challenger \in Sockets
      BY <2>1 DEF Match
    <3>2. Bound(tasks[j].ws) /\ Apart(tasks[j].match.creator, tasks[j].match.challenger)
      BY <1>0, <2>1 DEF TaskApart
    <3> QED BY <1>0, <1>1, <2>1, <2>2, <3>1, <3>2, MatchApart
  <2>3. CASE tasks' = Finish(j)
    <3>1. tasks'[j].pc = "done" /\ tasks'[j].ws = tasks[j].ws
      BY <1>0, <2>3 DEF Finish, TypeOK
    <3>2. j # k => tasks'[k] = tasks[k]
      BY <1>0, <2>3 DEF Finish, TypeOK
    <3> QED BY <1>0, <1>1, <2>1, <3>1, <3>2, TaskMoved
  <2> QED BY <1>6, <2>2, <2>3 DEF Retry
<1> QED
  BY <1>1, <1>2, <1>3, <1>4, <1>5, <1>6
  DEF Next, vars, Hello, LeaveQueue, CloseSocket, CreateDuel, TakeMatchedPair, HandshakeTimeout

LEMMA SelfStep ==
  ASSUME OneWallet
  PROVE  SelfInv /\ [Next]_vars => SelfInv'
<1> SUFFICES ASSUME SelfInv, [Next]_vars PROVE SelfInv'
  OBVIOUS
<1>1. TypeOK' /\ AddressStep /\ AddressesOK'
  BY TypeStep, AddressSteps DEF SelfInv
<1>2. \A k \in Tasks : TaskApart(tasks[k])'
  BY <1>1, TasksStayApart
<1>3. PairsApart'
  <2>1. ASSUME NEW j \in Tasks, DeckReady(j)
        PROVE  PairsApart'
    <3> DEFINE m == tasks[j].match
    <3>1. m.creatorAddr = m.challengerAddr => m.creatorAddr = NoAddr
      BY <2>1 DEF SelfInv, DeckReady, TaskApart
    <3>2. \/ UNCHANGED pendingPairs
          \/ /\ m.creatorAddr # NoAddr
             /\ pendingPairs' = With(pendingPairs, m.creatorAddr, m.challengerAddr)
      BY <2>1 DEF DeckReady
    <3> HIDE DEF m
    <3> QED BY <3>1, <3>2 DEF SelfInv, PairsApart, With
  <2>2. ASSUME NEW a \in Addresses, TakeMatchedPair(a) \/ HandshakeTimeout(a)
        PROVE  PairsApart'
    BY <2>2 DEF TakeMatchedPair, HandshakeTimeout, Without, SelfInv, PairsApart
  <2>3. CASE UNCHANGED pendingPairs
    BY <2>3 DEF SelfInv, PairsApart
  <2> QED
    BY <2>1, <2>2, <2>3
    DEF Next, vars, Hello, JoinQueue, LeaveQueue, CloseSocket, RatingKnown, OpponentPicked,
        NobodyPicked, StartMatch, DeckFailed, Retry, CreateDuel
<1> QED BY <1>1, <1>2, <1>3 DEF SelfInv

(* Nobody is matched with themselves, with however many tabs and overlapping *)
(* joins (matchmaking.ts:210), so long as a connection is of one wallet: a   *)
(* lookup compares the addresses of then, and matchPair reads them again.    *)
THEOREM NobodyPlaysThemselves ==
  ASSUME OneWallet
  PROVE  Spec => []NoSelfMatch
<1>1. Init => SelfInv
  <2> SUFFICES ASSUME Init PROVE SelfInv
    OBVIOUS
  <2>1. AddressesOK /\ PairsApart
    BY DEF Init, AddressesOK, PairsApart
  <2>2. \A j \in Tasks : tasks[j].pc = "unused"
    BY DEF Init, Idle
  <2>3. \A j \in Tasks : TaskApart(tasks[j])
    BY <2>2 DEF TaskApart
  <2> QED BY <2>1, <2>3, TypeInit DEF SelfInv
<1>2. SelfInv /\ [Next]_vars => SelfInv'
  BY SelfStep
<1>3. SelfInv => NoSelfMatch
  BY DEF SelfInv, PairsApart, TaskApart, Apart, NoSelfMatch
<1> QED BY <1>1, <1>2, <1>3, PTL DEF Spec

-----------------------------------------------------------------------------
(***************************************************************************)
(* The queue discipline, where no lookup is overtaken.                     *)
(***************************************************************************)
Waits(ws, t) == queuedTier[ws] = t /\ ~InLookup(ws)

\* Each queue holds those who wait in it, once.
QueuesOK ==
  \A t \in Tiers :
    /\ NoDuplicates(queues[t])
    /\ \A ws \in Sockets : ws \in ToSet(queues[t]) <=> Waits(ws, t)

SearchersOK == \A ws \in Sockets : queuedTier[ws] # NoTier => address[ws] # NoAddr

OneLookup == \A j, k \in Tasks : Looking(j) /\ Looking(k) => j = k

\* A lookup is of a socket that searches, among those that wait.
LookupOK(task) ==
  /\ task.pc \in {"rating", "picking"} => queuedTier[task.ws] = task.tier
  /\ task.pc = "picking" =>
       \A i \in DOMAIN task.candidates : task.candidates[i].ws \in ToSet(queues[task.tier])
  /\ task.pc \in {"deck", "retry"} => task.match.creator # task.match.challenger

QueueInv ==
  /\ TypeOK /\ QueuesOK /\ SearchersOK /\ OneLookup
  /\ \A j \in Tasks : LookupOK(tasks[j])

\* leaveQueue takes a socket out of every queue: it stands in one at most.
LEMMA LeftEverywhere ==
  ASSUME TypeOK, QueuesOK, NEW ws \in Sockets, NEW t \in Tiers
  PROVE  /\ NoDuplicates(AfterLeave(ws)[t])
         /\ ToSet(AfterLeave(ws)[t]) = ToSet(queues[t]) \ {ws}
<1>1. queues \in [Tiers -> Seq(Sockets)] /\ queues[t] \in Seq(Sockets)
  BY DEF TypeOK
<1>2. NoDuplicates(queues[t]) /\ (ws \in ToSet(queues[t]) => queuedTier[ws] = t)
  BY DEF QueuesOK, Waits
<1>3. CASE queuedTier[ws] = t
  <2>1. AfterLeave(ws)[t] = RemoveFirst(queues[t], ws)
    BY <1>1, <1>3, MatchmakingAssumption DEF AfterLeave
  <2> QED BY <1>1, <1>2, <2>1, Removed
<1>4. CASE queuedTier[ws] # t
  <2>1. AfterLeave(ws)[t] = queues[t]
    BY <1>1, <1>4 DEF AfterLeave
  <2> QED BY <1>2, <1>4, <2>1
<1> QED BY <1>3, <1>4

\* While no lookup is under way, those who wait are those with a tier.
LEMMA Calm ==
  ASSUME LookupAtomic, QueueInv, Quiet
  PROVE  /\ \A j \in Tasks : ~Looking(j)
         /\ \A ws \in Sockets : ~InLookup(ws)
         /\ \A ws \in Sockets, t \in Tiers : ws \in ToSet(queues[t]) <=> queuedTier[ws] = t
BY DEF Quiet, InLookup, QueueInv, QueuesOK, Waits

\* The lookup of j is the only one.
LEMMA Alone ==
  ASSUME QueueInv, NEW j \in Tasks, Looking(j)
  PROVE  /\ tasks[j].ws \in Sockets /\ tasks[j].tier \in Tiers
         /\ queuedTier[tasks[j].ws] = tasks[j].tier
         /\ \A k \in Tasks : k # j => ~Looking(k)
         /\ \A ws \in Sockets : InLookup(ws) <=> ws = tasks[j].ws
<1>1. tasks[j].ws \in Sockets /\ tasks[j].tier \in Tiers
  BY UnderWay DEF QueueInv, Looking
<1>2. \A k \in Tasks : Looking(k) => k = j
  BY DEF QueueInv, OneLookup
<1>3. queuedTier[tasks[j].ws] = tasks[j].tier
  BY DEF QueueInv, LookupOK, Looking
<1> QED BY <1>1, <1>2, <1>3 DEF InLookup

\* A step after which no lookup is under way, and what it must then show.
LEMMA CalmAfter ==
  ASSUME TypeOK', SearchersOK',
         \A j \in Tasks : ~Looking(j)',
         \A t \in Tiers : /\ NoDuplicates(queues'[t])
                          /\ \A ws \in Sockets : ws \in ToSet(queues'[t]) <=> queuedTier'[ws] = t,
         \A j \in Tasks : tasks'[j].pc \in {"deck", "retry"} =>
                             tasks'[j].match.creator # tasks'[j].match.challenger
  PROVE  QueueInv'
<1>1. \A ws \in Sockets : ~InLookup(ws)'
  BY DEF InLookup
<1>2. QueuesOK'
  BY <1>1 DEF QueuesOK, Waits
<1>3. OneLookup'
  BY DEF OneLookup
<1>4. \A j \in Tasks : LookupOK(tasks[j])'
  BY DEF LookupOK, Looking
<1> QED BY <1>2, <1>3, <1>4 DEF QueueInv

LEMMA QueueMessages ==
  ASSUME LookupAtomic, QueueInv, TypeOK', NEW ws \in Sockets,
         \/ \E a \in Addresses : Hello(ws, a)
         \/ LeaveQueue(ws)
         \/ CloseSocket(ws)
  PROVE  QueueInv'
<1>1. Quiet /\ UNCHANGED tasks
  BY DEF Hello, LeaveQueue, CloseSocket
<1>2. /\ \A j \in Tasks : ~Looking(j)
      /\ \A w \in Sockets, t \in Tiers : w \in ToSet(queues[t]) <=> queuedTier[w] = t
  BY <1>1, Calm
<1>3. \A j \in Tasks : ~Looking(j)'
  BY <1>1, <1>2 DEF Looking
<1>4. \A j \in Tasks : tasks'[j].pc \in {"deck", "retry"} =>
                           tasks'[j].match.creator # tasks'[j].match.challenger
  BY <1>1 DEF QueueInv, LookupOK
<1>5. TypeOK /\ QueuesOK /\ SearchersOK
  BY DEF QueueInv
<1>6. ASSUME NEW a \in Addresses, Hello(ws, a) PROVE QueueInv'
  <2>1. queues' = queues /\ queuedTier' = queuedTier
    BY <1>6 DEF Hello
  <2>2. SearchersOK'
    <3>1. \A w \in Sockets : address'[w] = IF w = ws THEN a ELSE address[w]
      BY <1>5, <1>6 DEF Hello, TypeOK
    <3> QED BY <1>5, <2>1, <3>1, MatchmakingAssumption DEF SearchersOK
  <2>3. \A t \in Tiers : /\ NoDuplicates(queues'[t])
                         /\ \A w \in Sockets : w \in ToSet(queues'[t]) <=> queuedTier'[w] = t
    BY <1>2, <1>5, <2>1 DEF QueuesOK
  <2> QED BY <1>3, <1>4, <2>2, <2>3, CalmAfter
<1>7. CASE LeaveQueue(ws) \/ CloseSocket(ws)
  <2>1. /\ queues' = AfterLeave(ws)
        /\ \A w \in Sockets : queuedTier'[w] = IF w = ws THEN NoTier ELSE queuedTier[w]
    BY <1>5, <1>7 DEF LeaveQueue, CloseSocket, TypeOK
  <2>2. \A w \in Sockets : w # ws => address'[w] = address[w]
    BY <1>5, <1>7 DEF LeaveQueue, CloseSocket, TypeOK
  <2>3. SearchersOK'
    BY <1>5, <2>1, <2>2 DEF SearchersOK
  <2>4. ASSUME NEW t \in Tiers
        PROVE  /\ NoDuplicates(queues'[t])
               /\ \A w \in Sockets : w \in ToSet(queues'[t]) <=> queuedTier'[w] = t
    <3>1. NoDuplicates(queues'[t]) /\ ToSet(queues'[t]) = ToSet(queues[t]) \ {ws}
      BY <1>5, <2>1, LeftEverywhere
    <3>2. NoTier # t
      BY MatchmakingAssumption
    <3> QED BY <1>2, <2>1, <3>1, <3>2
  <2> QED BY <1>3, <1>4, <2>3, <2>4, CalmAfter
<1> QED BY <1>6, <1>7

LEMMA QueueJoin ==
  ASSUME LookupAtomic, QueueInv, TypeOK',
         NEW j \in Tasks, NEW ws \in Sockets, NEW t \in Tiers, JoinQueue(j, ws, t)
  PROVE  QueueInv'
<1>1. TypeOK /\ QueuesOK /\ SearchersOK
  BY DEF QueueInv
<1>2. /\ \A k \in Tasks : ~Looking(k)
      /\ \A w \in Sockets, u \in Tiers : w \in ToSet(queues[u]) <=> queuedTier[w] = u
  BY Calm DEF JoinQueue
<1>3. /\ tasks'[j] = [pc |-> "rating", ws |-> ws, tier |-> t]
      /\ \A k \in Tasks : k # j => tasks'[k] = tasks[k]
      /\ \A w \in Sockets : queuedTier'[w] = IF w = ws THEN t ELSE queuedTier[w]
      /\ queues' = AfterLeave(ws) /\ address' = address /\ address[ws] # NoAddr
  BY <1>1 DEF JoinQueue, TypeOK
<1>4. \A k \in Tasks : Looking(k)' <=> k = j
  BY <1>2, <1>3 DEF Looking
<1>5. \A w \in Sockets : InLookup(w)' <=> w = ws
  BY <1>3, <1>4 DEF InLookup
<1>6. ASSUME NEW u \in Tiers
      PROVE  /\ NoDuplicates(queues'[u])
             /\ \A w \in Sockets : w \in ToSet(queues'[u]) <=> Waits(w, u)'
  <2>1. NoDuplicates(queues'[u]) /\ ToSet(queues'[u]) = ToSet(queues[u]) \ {ws}
    BY <1>1, <1>3, LeftEverywhere
  <2> QED BY <1>2, <1>3, <1>5, <2>1 DEF Waits
<1>7. QueuesOK'
  BY <1>6 DEF QueuesOK
<1>8. SearchersOK'
  BY <1>1, <1>3 DEF SearchersOK
<1>9. OneLookup'
  BY <1>4 DEF OneLookup
<1>10. ASSUME NEW k \in Tasks PROVE LookupOK(tasks[k])'
  <2>1. CASE k = j
    BY <1>3, <2>1 DEF LookupOK
  <2>2. CASE k # j
    BY <1>2, <1>3, <2>2 DEF LookupOK, Looking, QueueInv
  <2> QED BY <2>1, <2>2
<1> QED BY <1>7, <1>8, <1>9, <1>10 DEF QueueInv

LEMMA QueueLookup ==
  ASSUME LookupAtomic, QueueInv, TypeOK', NEW j \in Tasks, RatingKnown(j)
  PROVE  QueueInv'
<1> DEFINE ws == tasks[j].ws
           tier == tasks[j].tier
           q == queues[tier]
<1>1. TypeOK /\ QueuesOK /\ SearchersOK /\ Looking(j)
  BY DEF QueueInv, RatingKnown, Looking
<1>2. /\ ws \in Sockets /\ tier \in Tiers /\ queuedTier[ws] = tier
      /\ \A k \in Tasks : k # j => ~Looking(k)
      /\ \A w \in Sockets : InLookup(w) <=> w = ws
  BY <1>1, Alone
<1>3. /\ tasks'[j].pc = "picking" /\ tasks'[j].ws = ws /\ tasks'[j].tier = tier
      /\ tasks'[j].candidates = [i \in {i \in DOMAIN q : IsCandidate(q[i], ws)} |->
                                   [ws |-> q[i], address |-> address[q[i]]]]
      /\ \A k \in Tasks : k # j => tasks'[k] = tasks[k]
      /\ UNCHANGED <<address, queuedTier, queues>>
  BY <1>1 DEF RatingKnown, TypeOK
<1>4. \A i \in DOMAIN tasks'[j].candidates : tasks'[j].candidates[i].ws \in ToSet(q)
  BY <1>3 DEF ToSet
<1> HIDE DEF ws, tier, q
<1>5. \A k \in Tasks : Looking(k)' <=> k = j
  BY <1>2, <1>3 DEF Looking
<1>6. \A w \in Sockets : InLookup(w)' <=> w = ws
  BY <1>3, <1>5 DEF InLookup
<1>7. QueuesOK'
  BY <1>1, <1>2, <1>3, <1>6 DEF QueuesOK, Waits
<1>8. SearchersOK' /\ OneLookup'
  BY <1>1, <1>3, <1>5 DEF SearchersOK, OneLookup
<1>9. ASSUME NEW k \in Tasks PROVE LookupOK(tasks[k])'
  <2>1. CASE k = j
    BY <1>2, <1>3, <1>4, <2>1 DEF LookupOK, q
  <2>2. CASE k # j
    BY <1>2, <1>3, <2>2 DEF LookupOK, Looking, QueueInv
  <2> QED BY <2>1, <2>2
<1> QED BY <1>7, <1>8, <1>9 DEF QueueInv

LEMMA QueuePicked ==
  ASSUME LookupAtomic, QueueInv, TypeOK', NEW j \in Tasks, OpponentPicked(j)
  PROVE  QueueInv'
<1> DEFINE ws == tasks[j].ws
           tier == tasks[j].tier
<1>1. TypeOK /\ QueuesOK /\ SearchersOK /\ Looking(j)
  BY DEF QueueInv, OpponentPicked, Looking
<1>2. /\ ws \in Sockets /\ tier \in Tiers /\ queuedTier[ws] = tier
      /\ \A k \in Tasks : k # j => ~Looking(k)
      /\ \A w \in Sockets : InLookup(w) <=> w = ws
  BY <1>1, Alone
<1>3. PICK i \in DOMAIN tasks[j].candidates :
        /\ queues' = [queues EXCEPT ![tier] = SpliceIndexOf(@, tasks[j].candidates[i].ws)]
        /\ StartMatch(j, tasks[j].candidates[i].ws, ws)
  BY DEF OpponentPicked
<1> DEFINE u == tasks[j].candidates[i].ws
<1>4. u \in Sockets /\ u \in ToSet(queues[tier])
  <2>1. u \in Sockets
    BY <1>1, <1>3, UnderWay DEF OpponentPicked, Candidates, Candidate
  <2>2. u \in ToSet(queues[tier])
    BY <1>3 DEF QueueInv, LookupOK, OpponentPicked
  <2> QED BY <2>1, <2>2
<1>5. queuedTier[u] = tier /\ u # ws
  BY <1>1, <1>2, <1>4 DEF QueuesOK, Waits
<1>6. /\ tasks'[j].pc = "deck" /\ tasks'[j].match.creator = u /\ tasks'[j].match.challenger = ws
      /\ \A k \in Tasks : k # j => tasks'[k] = tasks[k]
      /\ \A w \in Sockets : queuedTier'[w] = IF w \in {u, ws} THEN NoTier ELSE queuedTier[w]
      /\ address' = address
  BY <1>1, <1>2, <1>3, <1>4 DEF StartMatch, TypeOK
<1>7. queues' = [queues EXCEPT ![tier] = RemoveFirst(@, u)]
  BY <1>1, <1>2, <1>3, <1>4, Spliced DEF TypeOK
<1> HIDE DEF ws, tier, u
<1>8. \A k \in Tasks : ~Looking(k)'
  BY <1>2, <1>6 DEF Looking
<1>9. SearchersOK'
  BY <1>1, <1>6 DEF SearchersOK
<1>10. ASSUME NEW t \in Tiers
       PROVE  /\ NoDuplicates(queues'[t])
              /\ \A w \in Sockets : w \in ToSet(queues'[t]) <=> queuedTier'[w] = t
  <2>1. NoDuplicates(queues[t]) /\ queues[t] \in Seq(Sockets) /\ NoTier # t
    BY <1>1, MatchmakingAssumption DEF QueuesOK, TypeOK
  <2>2. \A w \in Sockets : w \in ToSet(queues[t]) <=> queuedTier[w] = t /\ w # ws
    BY <1>1, <1>2 DEF QueuesOK, Waits
  <2>3. CASE t = tier
    <3>1. queues'[t] = RemoveFirst(queues[t], u)
      BY <1>1, <1>7, <2>3 DEF TypeOK
    <3>2. NoDuplicates(queues'[t]) /\ ToSet(queues'[t]) = ToSet(queues[t]) \ {u}
      BY <2>1, <3>1, Removed
    <3> QED BY <1>6, <2>1, <2>2, <3>2
  <2>4. CASE t # tier
    <3>1. queues'[t] = queues[t]
      BY <1>1, <1>7, <2>4 DEF TypeOK
    <3> QED BY <1>2, <1>5, <1>6, <2>1, <2>2, <2>4, <3>1
  <2> QED BY <2>3, <2>4
<1>11. ASSUME NEW k \in Tasks, tasks'[k].pc \in {"deck", "retry"}
       PROVE  tasks'[k].match.creator # tasks'[k].match.challenger
  BY <1>5, <1>6, <1>11 DEF QueueInv, LookupOK
<1> QED BY <1>8, <1>9, <1>10, <1>11, CalmAfter

LEMMA QueueNobody ==
  ASSUME LookupAtomic, QueueInv, TypeOK', NEW j \in Tasks, NobodyPicked(j)
  PROVE  QueueInv'
<1> DEFINE ws == tasks[j].ws
           tier == tasks[j].tier
<1>1. TypeOK /\ QueuesOK /\ SearchersOK /\ Looking(j)
  BY DEF QueueInv, NobodyPicked, Looking
<1>2. /\ ws \in Sockets /\ tier \in Tiers /\ queuedTier[ws] = tier
      /\ \A k \in Tasks : k # j => ~Looking(k)
      /\ \A w \in Sockets : InLookup(w) <=> w = ws
  BY <1>1, Alone
<1>3. StillSearching(ws, tier)
  BY <1>1, <1>2, MatchmakingAssumption DEF StillSearching, SearchersOK
<1>4. queues' = [queues EXCEPT ![tier] = Append(@, ws)]
  BY <1>3 DEF NobodyPicked
<1>5. /\ tasks'[j].pc = "done" /\ \A k \in Tasks : k # j => tasks'[k] = tasks[k]
      /\ UNCHANGED <<address, queuedTier>>
  BY <1>1 DEF NobodyPicked, TypeOK
<1> HIDE DEF ws, tier
<1>6. \A k \in Tasks : ~Looking(k)'
  BY <1>2, <1>5 DEF Looking
<1>7. SearchersOK'
  BY <1>1, <1>5 DEF SearchersOK
<1>8. ASSUME NEW t \in Tiers
      PROVE  /\ NoDuplicates(queues'[t])
             /\ \A w \in Sockets : w \in ToSet(queues'[t]) <=> queuedTier'[w] = t
  <2>1. NoDuplicates(queues[t]) /\ queues[t] \in Seq(Sockets)
    BY <1>1 DEF QueuesOK, TypeOK
  <2>2. \A w \in Sockets : w \in ToSet(queues[t]) <=> queuedTier[w] = t /\ w # ws
    BY <1>1, <1>2 DEF QueuesOK, Waits
  <2>3. CASE t = tier
    <3>1. queues'[t] = Append(queues[t], ws)
      BY <1>1, <1>4, <2>3 DEF TypeOK
    <3>2. NoDuplicates(queues'[t]) /\ ToSet(queues'[t]) = ToSet(queues[t]) \cup {ws}
      BY <1>2, <2>1, <2>2, <3>1, Joined
    <3> QED BY <1>2, <1>5, <2>2, <2>3, <3>2
  <2>4. CASE t # tier
    <3>1. queues'[t] = queues[t]
      BY <1>1, <1>4, <2>4 DEF TypeOK
    <3> QED BY <1>2, <1>5, <2>1, <2>2, <2>4, <3>1
  <2> QED BY <2>3, <2>4
<1>9. ASSUME NEW k \in Tasks, tasks'[k].pc \in {"deck", "retry"}
      PROVE  tasks'[k].match.creator # tasks'[k].match.challenger
  BY <1>5, <1>9 DEF QueueInv, LookupOK
<1> QED BY <1>6, <1>7, <1>8, <1>9, CalmAfter

\* What a pair holds while no lookup is under way.
LEMMA InMatch ==
  ASSUME LookupAtomic, QueueInv, Quiet, NEW j \in Tasks, tasks[j].pc \in {"deck", "retry"}
  PROVE  /\ tasks[j].match.creator \in Sockets /\ tasks[j].match.challenger \in Sockets
         /\ tasks[j].match.creator # tasks[j].match.challenger
         /\ tasks[j].tier \in Tiers /\ TypeOK /\ QueuesOK /\ SearchersOK
         /\ \A ws \in Sockets, t \in Tiers : ws \in ToSet(queues[t]) <=> queuedTier[ws] = t
         /\ \A k \in Tasks : ~Looking(k)
<1>1. TypeOK /\ QueuesOK /\ SearchersOK /\ LookupOK(tasks[j])
  BY DEF QueueInv
<1>2. tasks[j].match \in Match /\ tasks[j].tier \in Tiers
  BY <1>1, UnderWay
<1> QED BY <1>1, <1>2, Calm DEF LookupOK, Match

LEMMA QueueFailed ==
  ASSUME LookupAtomic, QueueInv, TypeOK', NEW j \in Tasks, DeckFailed(j)
  PROVE  QueueInv'
<1> DEFINE u == tasks[j].match.creator
           v == tasks[j].match.challenger
           tier == tasks[j].tier
<1>1. tasks[j].pc = "deck" /\ Quiet
  BY DEF DeckFailed
<1>2. /\ u \in Sockets /\ v \in Sockets /\ u # v /\ tier \in Tiers
      /\ TypeOK /\ QueuesOK /\ SearchersOK
      /\ \A ws \in Sockets, t \in Tiers : ws \in ToSet(queues[t]) <=> queuedTier[ws] = t
      /\ \A k \in Tasks : ~Looking(k)
  BY <1>1, InMatch
<1>3. /\ tasks'[j].pc = "retry" /\ tasks'[j].match = tasks[j].match
      /\ \A k \in Tasks : k # j => tasks'[k] = tasks[k]
  <2>1. \A k \in Tasks : k # j => tasks'[k] = tasks[k]
    BY <1>2 DEF DeckFailed, TypeOK
  <2> QED BY <1>2, <2>1, DeckFailedTask
<1>4. /\ \A w \in Sockets :
           queuedTier'[w] = IF w \in {u, v} /\ CanRequeue(w) THEN tier ELSE queuedTier[w]
      /\ address' = address
  BY DEF DeckFailed
<1> DEFINE q1 == queues[tier] \o Pushed(u, tier)
           q2 == q1 \o Pushed(v, tier)
<1>5. queues' = [queues EXCEPT ![tier] = q2]
  BY DEF DeckFailed
<1>6. queues[tier] \in Seq(Sockets) /\ NoDuplicates(queues[tier])
  BY <1>2 DEF TypeOK, QueuesOK
<1> HIDE DEF u, v, tier
<1>7. \A w \in Sockets : CanRequeue(w) => w \notin ToSet(queues[tier])
  BY <1>2, MatchmakingAssumption DEF CanRequeue
<1>8. /\ q1 \in Seq(Sockets) /\ NoDuplicates(q1)
      /\ \A w \in Sockets : w \in ToSet(q1) <=>
                             w \in ToSet(queues[tier]) \/ (w = u /\ CanRequeue(u))
  <2>1. CASE CanRequeue(u)
    <3>1. q1 = Append(queues[tier], u)
      BY <1>2, <1>6, <1>7, <2>1, PushedOn
    <3> QED BY <1>2, <1>6, <1>7, <2>1, <3>1, Joined
  <2>2. CASE ~CanRequeue(u)
    <3>1. q1 = queues[tier]
      BY <1>2, <1>6, <2>2, PushedOn
    <3> QED BY <1>6, <2>2, <3>1
  <2> QED BY <2>1, <2>2
<1> HIDE DEF q1
<1>9. /\ q2 \in Seq(Sockets) /\ NoDuplicates(q2)
      /\ \A w \in Sockets : w \in ToSet(q2) <=>
                             w \in ToSet(q1) \/ (w = v /\ CanRequeue(v))
  <2>1. CASE CanRequeue(v)
    <3>1. q2 = Append(q1, v)
      BY <1>2, <1>7, <1>8, <2>1, PushedOn
    <3>2. v \notin ToSet(q1)
      BY <1>2, <1>7, <1>8, <2>1
    <3> QED BY <1>2, <1>8, <2>1, <3>1, <3>2, Joined
  <2>2. CASE ~CanRequeue(v)
    <3>1. q2 = q1
      BY <1>2, <1>8, <2>2, PushedOn
    <3> QED BY <1>8, <2>2, <3>1
  <2> QED BY <2>1, <2>2
<1> HIDE DEF q2
<1>10. \A k \in Tasks : ~Looking(k)'
  BY <1>2, <1>3 DEF Looking
<1>11. SearchersOK'
  BY <1>2, <1>4 DEF SearchersOK, CanRequeue
<1>12. ASSUME NEW t \in Tiers
       PROVE  /\ NoDuplicates(queues'[t])
              /\ \A w \in Sockets : w \in ToSet(queues'[t]) <=> queuedTier'[w] = t
  <2>1. CASE t = tier
    <3>1. queues'[t] = q2
      BY <1>2, <1>5, <2>1 DEF TypeOK
    <3>2. \A w \in Sockets : w \in ToSet(q2) <=> queuedTier'[w] = tier
      BY <1>2, <1>4, <1>8, <1>9
    <3> QED BY <1>9, <2>1, <3>1, <3>2
  <2>2. CASE t # tier
    <3>1. queues'[t] = queues[t]
      BY <1>2, <1>5, <2>2 DEF TypeOK
    <3>2. \A w \in Sockets : queuedTier'[w] = t <=> queuedTier[w] = t
      BY <1>4, <2>2, MatchmakingAssumption DEF CanRequeue
    <3> QED BY <1>2, <3>1, <3>2 DEF QueuesOK
  <2> QED BY <2>1, <2>2
<1>13. ASSUME NEW k \in Tasks, tasks'[k].pc \in {"deck", "retry"}
       PROVE  tasks'[k].match.creator # tasks'[k].match.challenger
  BY <1>2, <1>3, <1>13 DEF QueueInv, LookupOK, u, v
<1> QED BY <1>10, <1>11, <1>12, <1>13, CalmAfter

LEMMA QueueFinish ==
  ASSUME LookupAtomic, QueueInv, TypeOK', NEW j \in Tasks, tasks[j].pc # "unused", Quiet,
         tasks' = Finish(j), UNCHANGED <<address, queuedTier, queues>>
  PROVE  QueueInv'
<1>1. /\ TypeOK /\ QueuesOK /\ SearchersOK
      /\ \A k \in Tasks : ~Looking(k)
      /\ \A ws \in Sockets, t \in Tiers : ws \in ToSet(queues[t]) <=> queuedTier[ws] = t
  BY Calm DEF QueueInv
<1>2. tasks'[j].pc = "done" /\ \A k \in Tasks : k # j => tasks'[k] = tasks[k]
  BY <1>1 DEF Finish, TypeOK
<1>3. \A k \in Tasks : ~Looking(k)'
  BY <1>1, <1>2 DEF Looking
<1>4. ASSUME NEW k \in Tasks, tasks'[k].pc \in {"deck", "retry"}
      PROVE  tasks'[k].match.creator # tasks'[k].match.challenger
  BY <1>2, <1>4 DEF QueueInv, LookupOK
<1>5. SearchersOK'
  BY <1>1 DEF SearchersOK
<1>6. \A t \in Tiers : /\ NoDuplicates(queues'[t])
                       /\ \A ws \in Sockets : ws \in ToSet(queues'[t]) <=> queuedTier'[ws] = t
  BY <1>1 DEF QueuesOK
<1> QED BY <1>3, <1>4, <1>5, <1>6, CalmAfter

LEMMA QueueRetry ==
  ASSUME LookupAtomic, QueueInv, TypeOK', NEW j \in Tasks, Retry(j),
         CanRetry(tasks[j].match, tasks[j].tier)
  PROVE  QueueInv'
<1> DEFINE u == tasks[j].match.creator
           v == tasks[j].match.challenger
           tier == tasks[j].tier
<1>1. tasks[j].pc = "retry" /\ Quiet
  BY DEF Retry
<1>2. /\ u \in Sockets /\ v \in Sockets /\ u # v /\ tier \in Tiers
      /\ TypeOK /\ QueuesOK /\ SearchersOK
      /\ \A ws \in Sockets, t \in Tiers : ws \in ToSet(queues[t]) <=> queuedTier[ws] = t
      /\ \A k \in Tasks : ~Looking(k)
  BY <1>1, InMatch
<1>3. /\ u \in ToSet(queues[tier]) /\ v \in ToSet(queues[tier])
      /\ queuedTier[u] = tier /\ queuedTier[v] = tier
      /\ queues' = [queues EXCEPT ![tier] = SpliceIndexOf(SpliceIndexOf(@, u), v)]
      /\ StartMatch(j, u, v)
  BY DEF Retry, CanRetry
<1>4. /\ tasks'[j].pc = "deck" /\ tasks'[j].match.creator = u /\ tasks'[j].match.challenger = v
      /\ \A k \in Tasks : k # j => tasks'[k] = tasks[k]
      /\ \A w \in Sockets : queuedTier'[w] = IF w \in {u, v} THEN NoTier ELSE queuedTier[w]
      /\ address' = address
  BY <1>2, <1>3 DEF StartMatch, TypeOK
<1> HIDE DEF u, v, tier
<1> DEFINE q1 == RemoveFirst(queues[tier], u)
           q2 == RemoveFirst(q1, v)
<1>5. queues[tier] \in Seq(Sockets) /\ NoDuplicates(queues[tier])
  BY <1>2 DEF TypeOK, QueuesOK
<1>6. /\ SpliceIndexOf(queues[tier], u) = q1
      /\ q1 \in Seq(Sockets) /\ NoDuplicates(q1) /\ ToSet(q1) = ToSet(queues[tier]) \ {u}
  BY <1>3, <1>5, Spliced, Removed
<1> HIDE DEF q1
<1>7. v \in ToSet(q1)
  BY <1>2, <1>3, <1>6
<1>8. /\ SpliceIndexOf(q1, v) = q2
      /\ q2 \in Seq(Sockets) /\ NoDuplicates(q2) /\ ToSet(q2) = ToSet(q1) \ {v}
  BY <1>6, <1>7, Spliced, Removed
<1> HIDE DEF q2
<1>9. \A k \in Tasks : ~Looking(k)'
  BY <1>2, <1>4 DEF Looking
<1>10. SearchersOK'
  BY <1>2, <1>4 DEF SearchersOK
<1>11. ASSUME NEW t \in Tiers
       PROVE  /\ NoDuplicates(queues'[t])
              /\ \A w \in Sockets : w \in ToSet(queues'[t]) <=> queuedTier'[w] = t
  <2>1. NoTier # t
    BY MatchmakingAssumption
  <2>2. CASE t = tier
    <3>1. queues'[t] = q2
      BY <1>2, <1>3, <1>6, <1>8, <2>2 DEF TypeOK
    <3>2. ToSet(q2) = ToSet(queues[tier]) \ {u, v}
      BY <1>6, <1>8
    <3> QED BY <1>2, <1>4, <1>8, <2>1, <2>2, <3>1, <3>2
  <2>3. CASE t # tier
    <3>1. queues'[t] = queues[t]
      BY <1>2, <1>3, <2>3 DEF TypeOK
    <3> QED BY <1>2, <1>3, <1>4, <2>1, <2>3, <3>1 DEF QueuesOK
  <2> QED BY <2>2, <2>3
<1>12. ASSUME NEW k \in Tasks, tasks'[k].pc \in {"deck", "retry"}
       PROVE  tasks'[k].match.creator # tasks'[k].match.challenger
  BY <1>2, <1>4, <1>12 DEF QueueInv, LookupOK
<1> QED BY <1>9, <1>10, <1>11, <1>12, CalmAfter

LEMMA QueueRest ==
  ASSUME QueueInv, TypeOK', UNCHANGED <<address, queuedTier, queues, tasks>>
  PROVE  QueueInv'
BY DEF QueueInv, QueuesOK, SearchersOK, OneLookup, LookupOK, Looking, Waits, InLookup

LEMMA QueueStep ==
  ASSUME LookupAtomic
  PROVE  QueueInv /\ [Next]_vars => QueueInv'
<1> SUFFICES ASSUME QueueInv, [Next]_vars PROVE QueueInv'
  OBVIOUS
<1>1. TypeOK'
  BY TypeStep DEF QueueInv
<1>2. ASSUME NEW ws \in Sockets,
             (\E a \in Addresses : Hello(ws, a)) \/ LeaveQueue(ws) \/ CloseSocket(ws)
      PROVE  QueueInv'
  BY <1>1, <1>2, QueueMessages
<1>3. ASSUME NEW j \in Tasks, NEW ws \in Sockets, NEW t \in Tiers, JoinQueue(j, ws, t)
      PROVE  QueueInv'
  BY <1>1, <1>3, QueueJoin
<1>4. ASSUME NEW j \in Tasks, RatingKnown(j) \/ OpponentPicked(j) \/ NobodyPicked(j)
      PROVE  QueueInv'
  BY <1>1, <1>4, QueueLookup, QueuePicked, QueueNobody
<1>5. ASSUME NEW j \in Tasks, DeckReady(j) PROVE QueueInv'
  BY <1>1, <1>5, QueueFinish DEF DeckReady
<1>6. ASSUME NEW j \in Tasks, DeckFailed(j) PROVE QueueInv'
  BY <1>1, <1>6, QueueFailed
<1>7. ASSUME NEW j \in Tasks, Retry(j) PROVE QueueInv'
  <2>1. CASE CanRetry(tasks[j].match, tasks[j].tier)
    BY <1>1, <1>7, <2>1, QueueRetry
  <2>2. CASE ~CanRetry(tasks[j].match, tasks[j].tier)
    BY <1>1, <1>7, <2>2, QueueFinish DEF Retry
  <2> QED BY <2>1, <2>2
<1>8. CASE \/ \E ws \in Sockets : CreateDuel(ws)
           \/ \E a \in Addresses : TakeMatchedPair(a) \/ HandshakeTimeout(a)
           \/ UNCHANGED vars
  <2>1. UNCHANGED <<address, queuedTier, queues, tasks>>
    BY <1>8 DEF CreateDuel, TakeMatchedPair, HandshakeTimeout, vars
  <2> QED BY <1>1, <2>1, QueueRest
<1> QED BY <1>2, <1>3, <1>4, <1>5, <1>6, <1>7, <1>8 DEF Next

LEMMA QueueInit == Init => QueueInv
<1> SUFFICES ASSUME Init PROVE QueueInv
  OBVIOUS
<1>1. \A j \in Tasks : tasks[j].pc = "unused"
  BY DEF Init, Idle
<1>2. \A t \in Tiers : queues[t] = <<>>
  BY DEF Init
<1>3. NoDuplicates(<<>>) /\ ToSet(<<>>) = {}
  BY DEF NoDuplicates, ToSet
<1>4. \A ws \in Sockets : queuedTier[ws] = NoTier /\ \A t \in Tiers : ~Waits(ws, t)
  BY MatchmakingAssumption DEF Init, Waits
<1>5. QueuesOK
  BY <1>2, <1>3, <1>4 DEF QueuesOK
<1>6. SearchersOK /\ OneLookup /\ \A j \in Tasks : LookupOK(tasks[j])
  BY <1>1, <1>4 DEF SearchersOK, OneLookup, LookupOK, Looking
<1> QED BY <1>5, <1>6, TypeInit DEF QueueInv

LEMMA QueueInvariant ==
  ASSUME LookupAtomic
  PROVE  Spec => []QueueInv
<1>1. QueueInv /\ [Next]_vars => QueueInv'
  BY QueueStep
<1> QED BY <1>1, QueueInit, PTL DEF Spec

(* Where nothing overtakes a lookup, the queues and the sockets agree for any *)
(* number of players, tiers and joins, through leaves, closes, failed decks   *)
(* and retries: who searches stands once in the queue of their tier, and      *)
(* nowhere else (matchmaking.ts:235, 246, 390).                               *)
THEOREM QueuesAgree ==
  ASSUME LookupAtomic
  PROVE  Spec => []QueueConsistent
<1>1. ASSUME QueueInv PROVE QueueConsistent
  <2>1. TypeOK /\ QueuesOK /\ SearchersOK
    BY <1>1 DEF QueueInv
  <2> SUFFICES ASSUME NEW ws \in Sockets, NEW t \in Tiers
               PROVE  /\ Entries(ws, t) = IF Waits(ws, t) THEN 1 ELSE 0
                      /\ Waits(ws, t) => address[ws] # NoAddr
    BY DEF QueueConsistent, Waits
  <2> DEFINE places == {i \in DOMAIN queues[t] : queues[t][i] = ws}
  <2>2. ws \in ToSet(queues[t]) <=> Waits(ws, t)
    BY <2>1 DEF QueuesOK
  <2>3. \A i, k \in DOMAIN queues[t] : queues[t][i] = queues[t][k] => i = k
    BY <2>1 DEF QueuesOK, NoDuplicates
  <2>4. CASE Waits(ws, t)
    <3>1. PICK i \in DOMAIN queues[t] : queues[t][i] = ws
      BY <2>2, <2>4 DEF ToSet
    <3>2. places = {i}
      BY <2>3, <3>1
    <3>3. Cardinality({i}) = 1
      BY FS_Singleton
    <3>4. address[ws] # NoAddr
      BY <2>1, <2>4, MatchmakingAssumption DEF SearchersOK, Waits
    <3> QED BY <2>4, <3>2, <3>3, <3>4 DEF Entries
  <2>5. CASE ~Waits(ws, t)
    <3>1. places = {}
      BY <2>2, <2>5 DEF ToSet
    <3>2. Cardinality({}) = 0
      BY FS_EmptySet
    <3> QED BY <2>5, <3>1, <3>2 DEF Entries
  <2> QED BY <2>4, <2>5
<1> QED BY <1>1, QueueInvariant, PTL

(* There too, every match is of two who wait: the creator stands in the       *)
(* bucket that it is taken from, and both still search in it                  *)
(* (matchmaking.ts:222, 404-408).                                             *)
THEOREM OnlyTheWaitingMatched ==
  ASSUME LookupAtomic
  PROVE  Spec => MatchesOnlyTheWaiting
<1> DEFINE Matched ==
      \A j \in Tasks :
        tasks[j].pc # "deck" /\ tasks'[j].pc = "deck" =>
          LET m == tasks'[j].match
              t == tasks[j].tier IN
          /\ m.creator \in ToSet(queues[t])
          /\ \A ws \in {m.creator, m.challenger} : address[ws] # NoAddr /\ queuedTier[ws] = t
<1>1. ASSUME QueueInv, [Next]_vars, NEW k \in Tasks, tasks[k].pc # "deck", tasks'[k].pc = "deck"
      PROVE  /\ tasks'[k].match.creator \in ToSet(queues[tasks[k].tier])
             /\ \A ws \in {tasks'[k].match.creator, tasks'[k].match.challenger} :
                  address[ws] # NoAddr /\ queuedTier[ws] = tasks[k].tier
  <2>1. TypeOK /\ QueuesOK /\ SearchersOK
    BY <1>1 DEF QueueInv
  <2>2. ASSUME NEW j \in Tasks, NEW u \in Sockets, NEW v \in Sockets, StartMatch(j, u, v),
               tasks[j].tier \in Tiers, u \in ToSet(queues[tasks[j].tier]),
               queuedTier[u] = tasks[j].tier, queuedTier[v] = tasks[j].tier
        PROVE  /\ tasks'[k].match.creator \in ToSet(queues[tasks[k].tier])
               /\ \A ws \in {tasks'[k].match.creator, tasks'[k].match.challenger} :
                    address[ws] # NoAddr /\ queuedTier[ws] = tasks[k].tier
    <3>1. /\ \A i \in Tasks : i # j => tasks'[i] = tasks[i]
          /\ tasks'[j].match.creator = u /\ tasks'[j].match.challenger = v
      BY <2>1, <2>2 DEF StartMatch, TypeOK
    <3>2. k = j
      BY <1>1, <3>1
    <3>3. address[u] # NoAddr /\ address[v] # NoAddr
      BY <2>1, <2>2, MatchmakingAssumption DEF SearchersOK
    <3> QED BY <2>2, <3>1, <3>2, <3>3
  <2>3. ASSUME NEW j \in Tasks, OpponentPicked(j)
        PROVE  /\ tasks'[k].match.creator \in ToSet(queues[tasks[k].tier])
               /\ \A ws \in {tasks'[k].match.creator, tasks'[k].match.challenger} :
                    address[ws] # NoAddr /\ queuedTier[ws] = tasks[k].tier
    <3>1. PICK i \in DOMAIN tasks[j].candidates : StartMatch(j, tasks[j].candidates[i].ws, tasks[j].ws)
      BY <2>3 DEF OpponentPicked
    <3>2. /\ tasks[j].ws \in Sockets /\ tasks[j].tier \in Tiers
          /\ queuedTier[tasks[j].ws] = tasks[j].tier
      BY <1>1, <2>3, Alone DEF OpponentPicked, Looking
    <3>3. tasks[j].candidates[i].ws \in Sockets
      BY <2>1, <2>3, UnderWay DEF OpponentPicked, Candidates, Candidate
    <3>4. tasks[j].candidates[i].ws \in ToSet(queues[tasks[j].tier])
      BY <1>1, <2>3 DEF QueueInv, LookupOK, OpponentPicked
    <3>5. queuedTier[tasks[j].candidates[i].ws] = tasks[j].tier
      BY <2>1, <3>2, <3>3, <3>4 DEF QueuesOK, Waits
    <3> QED BY <2>2, <3>1, <3>2, <3>3, <3>4, <3>5
  <2>4. ASSUME NEW j \in Tasks, Retry(j)
        PROVE  /\ tasks'[k].match.creator \in ToSet(queues[tasks[k].tier])
               /\ \A ws \in {tasks'[k].match.creator, tasks'[k].match.challenger} :
                    address[ws] # NoAddr /\ queuedTier[ws] = tasks[k].tier
    <3>1. CASE CanRetry(tasks[j].match, tasks[j].tier)
      <4>1. StartMatch(j, tasks[j].match.creator, tasks[j].match.challenger)
        BY <2>4, <3>1 DEF Retry
      <4>2. /\ tasks[j].match.creator \in Sockets /\ tasks[j].match.challenger \in Sockets
            /\ tasks[j].tier \in Tiers
        BY <2>1, <2>4, UnderWay DEF Retry, Match
      <4> QED BY <2>2, <3>1, <4>1, <4>2 DEF CanRetry
    <3>2. CASE ~CanRetry(tasks[j].match, tasks[j].tier)
      <4>1. tasks' = Finish(j)
        BY <2>4, <3>2 DEF Retry
      <4> QED BY <1>1, <2>1, <4>1 DEF Finish, TypeOK
    <3> QED BY <3>1, <3>2
  <2>5. ASSUME NEW j \in Tasks,
               \/ \E ws \in Sockets, t \in Tiers : JoinQueue(j, ws, t)
               \/ RatingKnown(j) \/ NobodyPicked(j) \/ DeckReady(j) \/ DeckFailed(j)
        PROVE  FALSE
    <3>1. CASE DeckFailed(j)
      <4>1. \A i \in Tasks : i # j => tasks'[i] = tasks[i]
        BY <2>1, <3>1 DEF DeckFailed, TypeOK
      <4> QED BY <1>1, <2>1, <3>1, <4>1, DeckFailedTask
    <3>2. CASE ~DeckFailed(j)
      BY <1>1, <2>1, <2>5, <3>2
      DEF JoinQueue, RatingKnown, NobodyPicked, DeckReady, Finish, TypeOK
    <3> QED BY <3>1, <3>2
  <2>6. CASE UNCHANGED tasks
    BY <1>1, <2>6
  <2> QED
    BY <1>1, <2>3, <2>4, <2>5, <2>6
    DEF Next, vars, Hello, LeaveQueue, CloseSocket, CreateDuel, TakeMatchedPair, HandshakeTimeout
<1>2. QueueInv /\ [Next]_vars => Matched
  BY <1>1
<1> HIDE DEF Matched
<1>3. Spec => [][Matched]_vars
  BY <1>2, QueueInvariant, PTL DEF Spec
<1> QED BY <1>3 DEF MatchesOnlyTheWaiting, Matched
=============================================================================
