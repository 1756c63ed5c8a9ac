--------------------------- MODULE SomniaIndexer ---------------------------
(***************************************************************************)
(* The indexer, apps/server/src/somnia-indexer.ts, and the duel rows of    *)
(* the mirror that it writes (upsertDuel in db.ts).                        *)
(*                                                                         *)
(* On boot a best-effort backfill of the recent DuelCreated logs fills its *)
(* tracked set, and the keeper's; then an interval starts refreshAll, one  *)
(* run over a snapshot of the tracked duels, whether or not the last run   *)
(* ended.  A run reads getDuel and getDeck in parallel, so the two answers *)
(* may come from different blocks, writes the row, refreshes the room, and *)
(* forgets a duel that it read as COMPLETE.                                *)
(***************************************************************************)
EXTENDS SomniaKeeper

CONSTANTS Polls   \* refreshAll runs that may overlap

VARIABLES
  logs,      \* DuelCreated logs that the backfill has still to look at
  mirrored,  \* the indexer's own tracked set
  poll,      \* each refreshAll: where it is, and what it has read
  row        \* the mirror's duel table

indexerVars == <<logs, mirrored, poll, row>>


IdlePoll == [pc |-> "idle", todo |-> {}, duel |-> Null, raw |-> Null, deck |-> Null]

\* The part of getDuel that the row keeps, and whether getDeck had cards.
View(d) == [status |-> chain[d].status, revealed |-> chain[d].revealed,
            settledCount |-> Cardinality({c \in Cards : chain[d].outcome[c] # "open"})]
DeckView(d) == IF chain[d].revealed THEN "cards" ELSE "empty"

RawRead == [status : ChainStatus, revealed : BOOLEAN, settledCount : 0 .. DeckSize]
Row == [status : ChainStatus, revealed : BOOLEAN, settledCount : 0 .. DeckSize,
        cards : {"cards", "empty"}]

IndexerTypeOK ==
  /\ logs \subseteq Duels
  /\ mirrored \subseteq Duels
  /\ poll \in [Polls -> [pc : {"idle", "loop", "reading", "publishing"},
                         todo : SUBSET Duels, duel : Duels \cup {Null},
                         raw : RawRead \cup {Null},
                         deck : {"cards", "empty", Null}]]
  /\ row \in [Duels -> Row \cup {Null}]

IndexerInit ==
  /\ logs = {}
  /\ mirrored = {}
  /\ poll = [q \in Polls |-> IdlePoll]
  /\ row = [d \in Duels |-> Null]

Move(q, to) == poll' = [poll EXCEPT ![q] = to]
NextOf(q) == [IdlePoll EXCEPT !.pc = "loop", !.todo = poll[q].todo]

(* One log of the backfill: track the duel here and in the keeper, or miss  *)
(* it because its window failed or lies before the ones looked at.          *)
Track(d) == mirrored' = mirrored \cup {d} /\ tracked' = tracked \cup {d}

BackfillLog(d) ==
  /\ d \in logs
  /\ logs' = logs \ {d}
  /\ \/ Track(d)
     \/ UNCHANGED <<mirrored, tracked>>
  /\ UNCHANGED <<poll, row, sweep, faults, chainVars>>

StartPoll(q) ==
  /\ logs = {}
  /\ mirrored # {}
  /\ poll[q].pc = "idle"
  /\ Move(q, [IdlePoll EXCEPT !.pc = "loop", !.todo = mirrored])
  /\ UNCHANGED <<logs, mirrored, row, keeperVars, faults, chainVars>>

PollNext(q) ==
  /\ poll[q].pc = "loop"
  /\ \/ poll[q].todo = {} /\ Move(q, IdlePoll)
     \/ \E d \in poll[q].todo :
          Move(q, [poll[q] EXCEPT !.pc = "reading", !.todo = @ \ {d}, !.duel = d])
  /\ UNCHANGED <<logs, mirrored, row, keeperVars, faults, chainVars>>

(* The two reads of Promise.all, in either order.                           *)
ReadRaw(q) ==
  /\ poll[q].pc = "reading"
  /\ poll[q].raw = Null
  /\ Move(q, [poll[q] EXCEPT !.raw = View(poll[q].duel)])
  /\ UNCHANGED <<logs, mirrored, row, keeperVars, faults, chainVars>>

ReadDeck(q) ==
  /\ poll[q].pc = "reading"
  /\ poll[q].deck = Null
  /\ Move(q, [poll[q] EXCEPT !.deck = DeckView(poll[q].duel)])
  /\ UNCHANGED <<logs, mirrored, row, keeperVars, faults, chainVars>>

(* Both answers are there: a duel never created is skipped, any other one   *)
(* is upserted, the last writer winning.                                    *)
HasRead(q) == poll[q].pc = "reading" /\ poll[q].raw # Null /\ poll[q].deck # Null

Exists_Open(q) == poll[q].raw.status \in {"Pending", "Active"}
Exists(q) == poll[q].raw.status # "None"

RowOf_Fresh(q) == [status |-> chain[poll[q].duel].status, revealed |-> poll[q].raw.revealed,
                   settledCount |-> poll[q].raw.settledCount, cards |-> poll[q].deck]
RowOf(q) == [status |-> poll[q].raw.status, revealed |-> poll[q].raw.revealed,
             settledCount |-> poll[q].raw.settledCount, cards |-> poll[q].deck]

UpsertDuel(q) ==
  /\ HasRead(q)
  /\ IF Exists(q)
     THEN /\ row' = [row EXCEPT ![poll[q].duel] = RowOf(q)]
          /\ Move(q, [poll[q] EXCEPT !.pc = "publishing"])
     ELSE Move(q, NextOf(q)) /\ UNCHANGED row
  /\ UNCHANGED <<logs, mirrored, keeperVars, faults, chainVars>>

(* refreshRoom came back; a finished duel needs no further polling.         *)
PublishDuel(q) ==
  /\ poll[q].pc = "publishing"
  /\ mirrored' = IF poll[q].raw.status = "Complete" THEN mirrored \ {poll[q].duel}
                 ELSE mirrored
  /\ Move(q, NextOf(q))
  /\ UNCHANGED <<logs, row, keeperVars, faults, chainVars>>

(* A read or the write throws: refreshAll goes on with its next duel.       *)
PollFails(q) ==
  /\ poll[q].pc = "reading"
  /\ Fault
  /\ Move(q, NextOf(q))
  /\ UNCHANGED <<logs, mirrored, row, keeperVars, chainVars>>

PollStep(q) ==
  \/ PollNext(q)
  \/ ReadRaw(q)
  \/ ReadDeck(q)
  \/ UpsertDuel(q)
  \/ PublishDuel(q)

IndexerNext ==
  \/ \E d \in Duels : BackfillLog(d)
  \/ \E q \in Polls : StartPoll(q) \/ PollStep(q) \/ PollFails(q)
=============================================================================
