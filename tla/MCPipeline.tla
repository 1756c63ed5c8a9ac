----------------------------- MODULE MCPipeline -----------------------------
(***************************************************************************)
(* Pipeline for TLC.  What the services do to each other is one-way: the   *)
(* relayer only adds duels for the keeper, the indexer only reads what     *)
(* the keeper wrote.  Each behaviour gives the processes to one of three   *)
(* parts, in place of the product of all of them.                          *)
(***************************************************************************)
EXTENDS Pipeline

CONSTANTS s1, s2, q1, q2, r1, r2

VARIABLES focus

\* Two sweeps, of which one may fail; the relay request that makes the keeper track
\* the duel is refused.  Markets resolve in the order of the deck.
SettleFocus ==
  /\ poll' = poll
  /\ request'[r1] # NotPosted =>
       /\ request'[r1].player = Outside
       /\ request'[r1].card = 0
       /\ request'[r1].pc \in {"checking", "failed"}
  /\ request'[r2] = NotPosted
  /\ \A d \in Duels : venue'[d][0] # "open" \/ venue'[d][1] = "open"
  /\ faults' # faults => sweep'[s1] # sweep[s1]

\* Two refreshAll runs of which one may fail and the other reads in one order, beside
\* one sweep that does not fail, starts when every market is resolved, for one verdict,
\* and is not held up by the mempool.
MirrorFocus ==
  /\ request' = request
  /\ sweep'[s2] = Idle
  /\ sweep'[s1] # sweep[s1] => \A d \in Duels, c \in Cards : venue[d][c] # "open"
  /\ faults' # faults => sweep' = sweep /\ poll'[q2] = poll[q2]
  /\ \A d \in Duels, c \in Cards : venue'[d][c] \in {"open", "UP"}
  /\ mempool # {} => mempool' = {}
  /\ receipt[s1] # "none" => receipt'[s1] = "none"
  /\ poll'[q2].deck # Null => poll'[q2].raw # Null

\* Two requests; what the venue and the intervals do makes no difference to them.
RelayFocus == sweep' = sweep /\ poll' = poll /\ venue' = venue

InFocus ==
  /\ focus = "settle" => SettleFocus
  /\ focus = "mirror" => MirrorFocus
  /\ focus = "relay" => RelayFocus
  /\ UNCHANGED focus

mcVars == <<vars, focus>>

\* The fairness of FairSpec for the processes that the focus lets run.
MCInit == Init /\ focus \in {"settle", "mirror", "relay"}

MCSpec ==
  /\ MCInit
  /\ [][Next /\ InFocus]_mcVars
  /\ \A s \in Sweeps : WF_mcVars((Mining(s) \/ Sweeping(s)) /\ InFocus)
  /\ \A d \in Duels : WF_mcVars(Backfilling(d) /\ InFocus)
  /\ \A q \in Polls : WF_mcVars(Polling(q) /\ InFocus)

(* KeeperFinishes and MirrorCatchesUp where their processes run: the keeper *)
(* finishes what it tracks, the mirror catches up with what is finished.    *)
SettleFinishes == focus = "settle" => KeeperFinishes
MirrorFinishes == focus = "mirror" => MirrorCatchesUp
=============================================================================
