------------------------------ MODULE Pipeline ------------------------------
(***************************************************************************)
(* The relayer, the keeper and the indexer in one server process, over the *)
(* chain: how a swipe, its settlement and its mirror row follow from each  *)
(* other, through overlapping runs, failing RPC calls and restarts.        *)
(***************************************************************************)
EXTENDS SwipeRelayer

CONSTANTS MaxRestarts   \* bound: restarts of the server

ASSUME RestartsAssumption == MaxRestarts \in Nat

VARIABLES restarts

vars == <<chainVars, keeperVars, faults, indexerVars, request, restarts>>

TypeOK ==
  /\ ChainTypeOK
  /\ KeeperTypeOK
  /\ IndexerTypeOK
  /\ RelayTypeOK
  /\ restarts \in 0 .. MaxRestarts

Init == ChainInit /\ KeeperInit /\ IndexerInit /\ RelayInit /\ restarts = 0

(* The process dies and comes back: all that it remembers is gone, what it  *)
(* had sent stays in the mempool, and the backfill starts over the duels    *)
(* created so far.                                                          *)
Interrupted(r) == request[r].pc \in {"checking", "relaying"}

Restart ==
  /\ restarts < MaxRestarts
  /\ restarts' = restarts + 1
  /\ tracked' = {}
  /\ mirrored' = {}
  /\ sweep' = [s \in Sweeps |-> Idle]
  /\ poll' = [q \in Polls |-> IdlePoll]
  /\ request' = [r \in Requests |-> IF Interrupted(r) THEN [request[r] EXCEPT !.pc = "failed"]
                                    ELSE request[r]]
  /\ GiveUp(Senders)
  /\ logs' = {d \in Duels : chain[d].status # "None"}
  /\ UNCHANGED <<row, faults>>

(* What the chain, each sweep and each refreshAll do by themselves.         *)
Mining(f) ==
  /\ \E tx \in mempool : tx.from = f /\ Mine(tx)
  /\ UNCHANGED <<keeperVars, faults, indexerVars, request, restarts>>

Sweeping(s) ==
  /\ StartSweep(s) \/ SweepStep(s)
  /\ UNCHANGED <<indexerVars, request, restarts>>

Polling(q) == (StartPoll(q) \/ PollStep(q)) /\ UNCHANGED <<request, restarts>>

Backfilling(d) == BackfillLog(d) /\ UNCHANGED <<request, restarts>>

Next ==
  \/ ChainNext /\ UNCHANGED <<keeperVars, faults, indexerVars, request, restarts>>
  \/ \E f \in Senders \cup {Null} : Mining(f)
  \/ \E s \in Sweeps : Sweeping(s)
  \/ \E s \in Sweeps : RpcFails(s) /\ UNCHANGED <<indexerVars, request, restarts>>
  \/ \E d \in Duels : Backfilling(d)
  \/ \E q \in Polls : Polling(q)
  \/ \E q \in Polls : PollFails(q) /\ UNCHANGED <<request, restarts>>
  \/ RelayNext /\ UNCHANGED restarts
  \/ Restart

Spec == Init /\ [][Next]_vars

(* The two intervals keep firing, and an await that does not fail returns:  *)
(* for a receipt, once the transaction is mined.  A sweep that waits has no *)
(* step of its own, so one fairness covers both.  Nobody else owes anything. *)
FairSpec ==
  /\ Spec
  /\ \A s \in Sweeps : WF_vars(Mining(s) \/ Sweeping(s))
  /\ \A d \in Duels : WF_vars(Backfilling(d))
  /\ \A q \in Polls : WF_vars(Polling(q))

-----------------------------------------------------------------------------
(* Safety: however sweeps overlap, and however late a transaction is mined, *)
(* a card is settled on chain as the venue resolved its market and not      *)
(* before.                                                                  *)
OutcomesAreTheVenues ==
  \A d \in Duels, c \in Cards :
    chain[d].outcome[c] # "open" => chain[d].outcome[c] = venue[d][c]

(* Safety: a reply of ok stands for a swipe on chain, and two requests that *)
(* were signed for one nonce (a double submit, a second tab) are never both *)
(* answered ok.                                                             *)
Relayed == {r \in Requests : request[r].pc = "ok"}

RelayedOnce ==
  \A r \in Relayed :
    /\ <<request[r].player, request[r].card>> \in chain[request[r].duel].swiped
    /\ \A other \in Relayed \ {r} :
         <<request[other].player, request[other].nonce>>
           # <<request[r].player, request[r].nonce>>

(* Safety: whatever order overlapping reads and writes come in, a mirror    *)
(* row never runs ahead of the chain, and a COMPLETE row holds the final    *)
(* state of its duel.                                                       *)
Rank(status) == CASE status = "None" -> 0 [] status = "Pending" -> 1
                  [] status = "Active" -> 2 [] status = "Complete" -> 3

MirrorNeverAhead ==
  \A d \in Duels :
    row[d] # Null =>
      /\ row[d].status # "None"
      /\ Rank(row[d].status) <= Rank(chain[d].status)
      /\ row[d].settledCount <= View(d).settledCount
      /\ row[d].status = "Complete" =>
           row[d].settledCount = View(d).settledCount /\ row[d].revealed = chain[d].revealed

(* Liveness: once the server stays up, the keeper completes every revealed  *)
(* duel it tracks whose markets are all resolved, despite failing calls and *)
(* overlapping sweeps.  A sweep that still holds an older reply, from       *)
(* before the duel was Active, can yet make the keeper forget it (line      *)
(* 221): that case is excluded.                                             *)
Settleable(d) ==
  /\ d \in tracked
  /\ Playing(d)
  /\ \A c \in Cards : venue[d][c] # "open"
  /\ restarts = MaxRestarts

HeldOldReply(d) ==
  \E s \in Sweeps : sweep[s].pc = "reply" /\ sweep[s].duel = d /\ sweep[s].status # "Active"

KeeperFinishes ==
  \A d \in Duels :
    (Settleable(d) /\ ~HeldOldReply(d)) ~> (chain[d].status = "Complete")

(* Liveness: a completed duel that the indexer still polls gets a COMPLETE  *)
(* row for good, despite failing reads.  A run that is on the duel by then  *)
(* may hold an older read, write it last and leave the row behind, when the *)
(* run that read COMPLETE stops the polling (line 225): excluded.           *)
MirrorCatchesUp ==
  \A d \in Duels :
    ( /\ d \in mirrored
      /\ chain[d].status = "Complete"
      /\ \A q \in Polls : poll[q].duel # d
      /\ restarts = MaxRestarts )
      ~> [](row[d] # Null /\ row[d].status = "Complete")
=============================================================================
