---------------------------- MODULE SomniaKeeper ----------------------------
(***************************************************************************)
(* The settlement keeper, apps/server/src/somnia-keeper.ts.                *)
(*                                                                         *)
(* A sweep walks a snapshot of the tracked set and settles one duel after  *)
(* the other.  setInterval starts a sweep whether or not the last one      *)
(* ended, so several run at once; each await is a point where the chain,   *)
(* the tracked set and the other sweeps may move.  The getDuel reply that  *)
(* decides whether a duel stays tracked is a step of its own.  Reads whose *)
(* answer can only be overtaken by one that the contract's guards treat    *)
(* alike (isCardSettled and a final settlement, then the simulation) are   *)
(* one step with the sending they lead to.                                 *)
(*                                                                         *)
(* An RPC call may fail: MaxFaults bounds how often, over all services.    *)
(***************************************************************************)
EXTENDS DuelChain

CONSTANTS MaxFaults   \* bound: RPC calls that fail

ASSUME FaultsAssumption == MaxFaults \in Nat

VARIABLES
  tracked,  \* duels this process settles
  sweep,    \* each sweep: where it is, and the locals it keeps over an await
  faults    \* RPC failures so far

keeperVars == <<tracked, sweep>>

Idle == [pc |-> "idle", todo |-> {}, duel |-> Null, status |-> "None",
         revealed |-> FALSE, card |-> 0]

KeeperTypeOK ==
  /\ tracked \subseteq Duels
  /\ sweep \in [Sweeps -> [pc : {"idle", "loop", "reply", "card", "settling", "closing"},
                           todo : SUBSET Duels, duel : Duels \cup {Null},
                           status : ChainStatus, revealed : BOOLEAN, card : 0 .. DeckSize]]
  /\ faults \in 0 .. MaxFaults

KeeperInit == tracked = {} /\ sweep = [s \in Sweeps |-> Idle] /\ faults = 0

Fault == faults < MaxFaults /\ faults' = faults + 1

(* The sweep leaves its duel for the next of its snapshot.                  *)
NextDuel(s) == [sweep[s] EXCEPT !.pc = "loop", !.duel = Null, !.status = "None",
                                !.revealed = FALSE, !.card = 0]
NextCard(s) == [sweep[s] EXCEPT !.pc = "card", !.card = @ + 1]
Goto(s, to) == sweep' = [sweep EXCEPT ![s] = to]

(* The interval fires.                                                      *)
StartSweep(s) ==
  /\ sweep[s].pc = "idle"
  /\ tracked # {}
  /\ Goto(s, [Idle EXCEPT !.pc = "loop", !.todo = tracked])
  /\ UNCHANGED <<tracked, faults, chainVars>>

(* for (const duelId of [...tracked]): the sweep ends, or reads a duel.     *)
SweepEnds(s) ==
  /\ sweep[s].pc = "loop"
  /\ sweep[s].todo = {}
  /\ Goto(s, Idle)
  /\ UNCHANGED <<tracked, faults, chainVars>>

ReadDuel(s) ==
  /\ sweep[s].pc = "loop"
  /\ \E d \in sweep[s].todo :
       Goto(s, [sweep[s] EXCEPT !.pc = "reply", !.todo = @ \ {d}, !.duel = d,
                                !.status = chain[d].status, !.revealed = chain[d].revealed])
  /\ UNCHANGED <<tracked, faults, chainVars>>

(* The reply decides: forget the duel, leave it for later, or settle it.    *)
Forget(s) == tracked' = tracked \ {sweep[s].duel}

ActOnReply(s) ==
  /\ sweep[s].pc = "reply"
  /\ \/ /\ sweep[s].status # "Active"
        /\ Forget(s)
        /\ Goto(s, NextDuel(s))
     \/ /\ sweep[s].status = "Active"
        /\ ~sweep[s].revealed
        /\ Goto(s, NextDuel(s))
        /\ UNCHANGED tracked
     \/ /\ sweep[s].status = "Active"
        /\ sweep[s].revealed
        /\ Goto(s, [sweep[s] EXCEPT !.pc = "card"])
        /\ UNCHANGED tracked
  /\ UNCHANGED <<faults, chainVars>>

(* One card: nothing to write, or a settleCard that the simulation lets     *)
(* through with the verdict that the venue reports.                         *)
Settlement(s) == venue[sweep[s].duel][sweep[s].card]
Settling_IgnoresVoid(s) ==
  SettleTx(s, sweep[s].duel, sweep[s].card,
           IF Settlement(s) = "VOID" THEN "UP" ELSE Settlement(s))
Settling(s) == SettleTx(s, sweep[s].duel, sweep[s].card, Settlement(s))
HasVerdict(s) == Settlement(s) # "open"

SkipCard(s) ==
  /\ sweep[s].pc = "card"
  /\ sweep[s].card < DeckSize
  /\ ~(HasVerdict(s) /\ Executable(Settling(s)))
  /\ Goto(s, NextCard(s))
  /\ UNCHANGED <<tracked, faults, chainVars>>

SettleCard(s) ==
  /\ sweep[s].pc = "card"
  /\ sweep[s].card < DeckSize
  /\ HasVerdict(s)
  /\ Executable(Settling(s))
  /\ Send(Settling(s))
  /\ Goto(s, [sweep[s] EXCEPT !.pc = "settling"])
  /\ UNCHANGED <<tracked, faults>>

CardMined(s) ==
  /\ sweep[s].pc = "settling"
  /\ TakeReceipt(s)
  /\ Goto(s, NextCard(s))
  /\ UNCHANGED <<tracked, faults>>

(* Every card was visited: finalize when the re-read duel allows it.        *)
ReadyToFinalize_OffByOne(s) ==
  Cardinality({c \in Cards : chain[sweep[s].duel].outcome[c] # "open"}) > DeckSize
ReadyToFinalize(s) == Executable(FinalizeTx(s, sweep[s].duel))

FinalizeDuel(s) ==
  /\ sweep[s].pc = "card"
  /\ sweep[s].card = DeckSize
  /\ IF ReadyToFinalize(s)
     THEN /\ Send(FinalizeTx(s, sweep[s].duel))
          /\ Goto(s, [sweep[s] EXCEPT !.pc = "closing"])
     ELSE Goto(s, NextDuel(s)) /\ UNCHANGED chainVars
  /\ UNCHANGED <<tracked, faults>>

(* The receipt arrived; whether it succeeded is not looked at.              *)
DuelFinalized(s) ==
  /\ sweep[s].pc = "closing"
  /\ TakeReceipt(s)
  /\ Forget(s)
  /\ Goto(s, NextDuel(s))
  /\ UNCHANGED faults

(* A read that throws leaves the duel, one around settleCard only the card; *)
(* a wait that throws leaves its transaction in the mempool.                *)
RpcFails(s) ==
  /\ Fault
  /\ \/ /\ \/ sweep[s].pc = "reply"
           \/ sweep[s].pc = "card"
        /\ Goto(s, NextDuel(s))
        /\ UNCHANGED chainVars
     \/ /\ sweep[s].pc = "card"
        /\ sweep[s].card < DeckSize
        /\ Goto(s, NextCard(s))
        /\ UNCHANGED chainVars
     \/ /\ sweep[s].pc = "settling"
        /\ GiveUp({s})
        /\ Goto(s, NextCard(s))
     \/ /\ sweep[s].pc = "closing"
        /\ GiveUp({s})
        /\ Goto(s, NextDuel(s))
  /\ UNCHANGED tracked

SweepStep(s) ==
  \/ SweepEnds(s)
  \/ ReadDuel(s)
  \/ ActOnReply(s)
  \/ SkipCard(s)
  \/ SettleCard(s)
  \/ CardMined(s)
  \/ FinalizeDuel(s)
  \/ DuelFinalized(s)

KeeperNext == \E s \in Sweeps : StartSweep(s) \/ SweepStep(s) \/ RpcFails(s)
=============================================================================
