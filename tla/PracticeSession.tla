-------------------------- MODULE PracticeSession --------------------------
(***************************************************************************)
(* A practice match: the client's state machine in                         *)
(* apps/web/src/hooks/use-practice-session.ts, the server's answer to      *)
(* practice_start (apps/server/src/ws/practice.ts), and the socket between *)
(* them, which may drop and come back.                                     *)
(*                                                                         *)
(* The hook reads its phase from phaseRef, which a passive effect syncs:   *)
(* after a change made by a message, a timer or an effect it may lag; a    *)
(* change made by a click is flushed before the next event.                *)
(*                                                                         *)
(* A deck is the number of the practice_start it answers.  Prices and      *)
(* directions are left out; time counts units since the phase was entered, *)
(* and matters in STARTING and LOCKUP.                                     *)
(***************************************************************************)
EXTENDS Integers, Sequences, FiniteSets

CONSTANTS
  CardCount,            \* cards of a practice deck
  ExpiryOffset,         \* settle time of each card after the lockup starts
  START_TIMEOUT,
  SETTLE_GRACE,
  LOCKUP_STALL_BUFFER,
  MaxStarts,            \* bound: practice_start requests
  MaxDrops              \* bound: times the socket drops

PracticeCards == 0 .. CardCount - 1

ASSUME PracticeAssumption ==
  /\ CardCount \in Nat \ {0}
  /\ ExpiryOffset \in [PracticeCards -> Nat]
  /\ START_TIMEOUT \in Nat /\ SETTLE_GRACE \in Nat /\ LOCKUP_STALL_BUFFER \in Nat
  /\ MaxStarts \in Nat /\ MaxDrops \in Nat

LockupEnd ==
  CHOOSE end \in {ExpiryOffset[i] : i \in PracticeCards} :
    \A i \in PracticeCards : ExpiryOffset[i] <= end
StallDeadline == LockupEnd + SETTLE_GRACE + LOCKUP_STALL_BUFFER

\* lastTick: none yet, received before the lockup, or at that time in it.
NoTick == -2
EarlyTick == -1

VARIABLES
  phase,      \* phase: its kind, and the card of SWIPING
  phaseRef,   \* phaseRef.current
  latch,      \* sessionAcceptedRef.current
  deck,       \* the session: which start its deck answers, 0 for none
  swiped,     \* cards with a player swipe
  botShown,   \* cards whose bot pick is face-up
  botTimers,  \* cards with a bot reveal pending in timersRef
  outcomes,   \* settlements: the card, when, and the tick it settled on
  lastTick,
  age,        \* time since STARTING or LOCKUP was entered
  wsOpen,
  starts,     \* practice_start requests so far
  unanswered, \* the ones that the server works on
  inbox,      \* messages on their way to the client
  drops

practiceVars == <<phase, phaseRef, latch, deck, swiped, botShown, botTimers, outcomes,
                  lastTick, age, wsOpen, starts, unanswered, inbox, drops>>
serverVars == <<starts, unanswered, inbox>>
socketVars == <<wsOpen, drops>>

Phase == [kind : {"INTRO", "STARTING", "LOCKUP", "RESULT", "ERROR"}, card : {0}]
           \cup [kind : {"SWIPING"}, card : PracticeCards]
PhaseOf(kind) == [kind |-> kind, card |-> 0]

PracticeTypeOK ==
  /\ phase \in Phase /\ phaseRef \in Phase
  /\ latch \in BOOLEAN /\ wsOpen \in BOOLEAN
  /\ deck \in 0 .. MaxStarts /\ starts \in 0 .. MaxStarts /\ drops \in 0 .. MaxDrops
  /\ swiped \subseteq PracticeCards
  /\ botShown \subseteq PracticeCards
  /\ botTimers \subseteq PracticeCards
  /\ outcomes \subseteq [card : PracticeCards, at : Nat, tick : Int]
  /\ lastTick \in Int /\ age \in 0 .. StallDeadline + START_TIMEOUT
  /\ unanswered \subseteq 1 .. MaxStarts
  /\ \A k \in 1 .. Len(inbox) :
       inbox[k] \in [type : {"practice_session", "practice_failed"}, start : 1 .. MaxStarts]

PracticeInit ==
  /\ phase = PhaseOf("INTRO") /\ phaseRef = PhaseOf("INTRO")
  /\ latch = FALSE /\ deck = 0
  /\ swiped = {} /\ botShown = {} /\ botTimers = {} /\ outcomes = {}
  /\ lastTick = NoTick /\ age = 0
  /\ wsOpen = TRUE /\ drops = 0
  /\ starts = 0 /\ unanswered = {} /\ inbox = <<>>

Playing == {"STARTING", "SWIPING", "LOCKUP"}

(* clearTimers.                                                             *)
ClearTimers == botTimers' = {}

ClearMatch ==
  /\ deck' = 0 /\ latch' = FALSE
  /\ swiped' = {} /\ botShown' = {} /\ outcomes' = {} /\ lastTick' = NoTick
  /\ ClearTimers

(* start: the buttons of the intro and of the error view, and play again    *)
(* after its reset.  A message sent on a closed socket goes nowhere.        *)
Start ==
  /\ phase.kind \in {"INTRO", "ERROR"}
  /\ phase.kind = "INTRO" => wsOpen
  /\ starts < MaxStarts
  /\ ClearMatch
  /\ phase' = PhaseOf("STARTING") /\ phaseRef' = PhaseOf("STARTING") /\ age' = 0
  /\ starts' = starts + 1
  /\ unanswered' = IF wsOpen THEN unanswered \cup {starts + 1} ELSE unanswered
  /\ UNCHANGED <<inbox, socketVars>>

Reset ==
  /\ phase.kind = "RESULT"
  /\ ClearMatch
  /\ phase' = PhaseOf("INTRO") /\ phaseRef' = PhaseOf("INTRO") /\ age' = 0
  /\ UNCHANGED <<serverVars, socketVars>>

(* handlePracticeStart: a deck or practice_failed; a rate-limited start is  *)
(* answered with an error that the hook does not handle.                    *)
Answer(k) ==
  /\ k \in unanswered
  /\ unanswered' = unanswered \ {k}
  /\ \/ \E type \in {"practice_session", "practice_failed"} :
          inbox' = Append(inbox, [type |-> type, start |-> k])
     \/ UNCHANGED inbox
  /\ UNCHANGED <<phase, phaseRef, latch, deck, swiped, botShown, botTimers, outcomes,
                 lastTick, age, starts, socketVars>>

(* The message handler: a deck is accepted once, while phaseRef says        *)
(* STARTING.                                                                *)
Accepts_Unlatched == phaseRef.kind = "STARTING"
Accepts == phaseRef.kind = "STARTING" /\ ~latch

Receive ==
  /\ inbox # <<>>
  /\ inbox' = Tail(inbox)
  /\ \/ /\ Accepts
        /\ Head(inbox).type = "practice_session"
        /\ latch' = TRUE
        /\ deck' = Head(inbox).start
        /\ swiped' = {} /\ botShown' = {}
        /\ phase' = [kind |-> "SWIPING", card |-> 0] /\ age' = 0
     \/ /\ Accepts
        /\ Head(inbox).type = "practice_failed"
        /\ phase' = PhaseOf("ERROR") /\ age' = 0
        /\ UNCHANGED <<latch, deck, swiped, botShown>>
     \/ /\ ~Accepts
        /\ UNCHANGED <<phase, latch, deck, swiped, botShown, age>>
  /\ UNCHANGED <<phaseRef, botTimers, outcomes, lastTick, starts, unanswered, socketVars>>

SpotTick ==
  /\ wsOpen
  /\ starts > 0
  /\ lastTick' = IF phase.kind = "LOCKUP" THEN age ELSE EarlyTick
  /\ UNCHANGED <<phase, phaseRef, latch, deck, swiped, botShown, botTimers, outcomes, age,
                 serverVars, socketVars>>

(* swipe: decided by phaseRef, while the session is there.                  *)
Swipe ==
  /\ phaseRef.kind = "SWIPING"
  /\ deck # 0
  /\ swiped' = swiped \cup {phaseRef.card}
  /\ botTimers' = botTimers \cup {phaseRef.card}
  /\ phase' = IF phaseRef.card + 1 < CardCount
              THEN [kind |-> "SWIPING", card |-> phaseRef.card + 1] ELSE PhaseOf("LOCKUP")
  /\ phaseRef' = phase'
  /\ age' = 0
  /\ lastTick' = IF lastTick = NoTick THEN NoTick ELSE EarlyTick
  /\ UNCHANGED <<latch, deck, botShown, outcomes, serverVars, socketVars>>

RevealBot(i) ==
  /\ i \in botTimers
  /\ botTimers' = botTimers \ {i}
  /\ botShown' = botShown \cup {i}
  /\ UNCHANGED <<phase, phaseRef, latch, deck, swiped, outcomes, lastTick, age, serverVars,
                 socketVars>>

SyncRef ==
  /\ phaseRef # phase
  /\ phaseRef' = phase
  /\ UNCHANGED <<phase, latch, deck, swiped, botShown, botTimers, outcomes, lastTick, age,
                 serverVars, socketVars>>

(* A change of phase by a timer or an effect.                               *)
Enter(kind) ==
  /\ phase' = PhaseOf(kind) /\ age' = 0
  /\ UNCHANGED <<phaseRef, latch, deck, swiped, botShown, lastTick, serverVars, socketVars>>

StartTimesOut ==
  /\ phase.kind = "STARTING"
  /\ age >= START_TIMEOUT
  /\ Enter("ERROR")
  /\ UNCHANGED <<botTimers, outcomes>>

SocketLost ==
  /\ ~wsOpen
  /\ phase.kind \in Playing
  /\ Enter("ERROR")
  /\ ClearTimers
  /\ UNCHANGED outcomes

(* The settlement loop: what is due, on a tick of its time or after a grace. *)
Due_Early(i) == age + 1 >= ExpiryOffset[i]
Due(i) ==
  /\ age >= ExpiryOffset[i]
  /\ lastTick >= ExpiryOffset[i] \/ age - ExpiryOffset[i] >= SETTLE_GRACE
Settled(i) == \E o \in outcomes : o.card = i

Settle ==
  /\ phase.kind = "LOCKUP"
  /\ deck # 0
  /\ lastTick # NoTick
  /\ LET due == {i \in PracticeCards : Due(i) /\ ~Settled(i)}
     IN  /\ due # {}
         /\ outcomes' = outcomes \cup {[card |-> i, at |-> age, tick |-> lastTick] : i \in due}
  /\ UNCHANGED <<phase, phaseRef, latch, deck, swiped, botShown, botTimers, lastTick, age,
                 serverVars, socketVars>>

(* The hard timeout of the lockup, and the beat before the result.          *)
Stalled_WaitsForTick == lastTick # NoTick /\ age >= StallDeadline
Stalled == age >= StallDeadline

LockupStalls ==
  /\ phase.kind = "LOCKUP"
  /\ Stalled
  /\ Cardinality(outcomes) < CardCount
  /\ Enter("ERROR")
  /\ ClearTimers
  /\ UNCHANGED outcomes

ShowResult ==
  /\ phase.kind = "LOCKUP"
  /\ Cardinality(outcomes) = CardCount
  /\ Enter("RESULT")
  /\ UNCHANGED <<botTimers, outcomes>>

(* Time passes; a timer of the phase fires before its next unit.            *)
PassTime ==
  /\ \/ phase.kind = "STARTING" /\ age < START_TIMEOUT
     \/ phase.kind = "LOCKUP" /\ age < StallDeadline
  /\ age' = age + 1
  /\ UNCHANGED <<phase, phaseRef, latch, deck, swiped, botShown, botTimers, outcomes,
                 lastTick, serverVars, socketVars>>

(* The socket drops with what was on its way; the back-off outlasts the     *)
(* client's reaction to the loss.                                           *)
DropSocket ==
  /\ wsOpen
  /\ drops < MaxDrops
  /\ wsOpen' = FALSE
  /\ drops' = drops + 1
  /\ inbox' = <<>> /\ unanswered' = {}
  /\ UNCHANGED <<phase, phaseRef, latch, deck, swiped, botShown, botTimers, outcomes,
                 lastTick, age, starts>>

Reconnect ==
  /\ ~wsOpen
  /\ phase.kind \notin Playing
  /\ phaseRef = phase
  /\ wsOpen' = TRUE
  /\ UNCHANGED <<phase, phaseRef, latch, deck, swiped, botShown, botTimers, outcomes,
                 lastTick, age, serverVars, drops>>

Effects == SyncRef \/ StartTimesOut \/ SocketLost \/ Settle \/ LockupStalls \/ ShowResult

PracticeNext ==
  \/ Start
  \/ Reset
  \/ \E k \in 1 .. MaxStarts : Answer(k)
  \/ Receive
  \/ SpotTick
  \/ Swipe
  \/ \E i \in PracticeCards : RevealBot(i)
  \/ Effects
  \/ PassTime
  \/ DropSocket
  \/ Reconnect

-----------------------------------------------------------------------------
(* Action: the deck of a match in play never changes under the player,      *)
(* whatever late or second practice_session arrives, and however phaseRef   *)
(* lags.                                                                    *)
DeckNeverRestarts ==
  [][phase.kind \in {"SWIPING", "LOCKUP"} => deck' = deck]_practiceVars

(* Safety: a bot pick is face-up only for a card that the player swiped in  *)
(* this match (no reveal timer of an earlier match gets through); a card is *)
(* settled once, not before its time, and on an older price only after the  *)
(* grace; and a result shows every card swiped and settled.                 *)
PracticeShowsTruth ==
  /\ botShown \subseteq swiped
  /\ \A o \in outcomes :
       /\ \A other \in outcomes : other.card = o.card => other = o
       /\ o.at >= ExpiryOffset[o.card]
       /\ o.tick >= ExpiryOffset[o.card] \/ o.at >= ExpiryOffset[o.card] + SETTLE_GRACE
  /\ phase.kind = "RESULT" =>
       swiped = PracticeCards /\ \A i \in PracticeCards : Settled(i)

(* Liveness: neither a server that does not answer nor a price feed that    *)
(* stalls holds a match: STARTING and LOCKUP are left.                      *)
PracticeEnds ==
  /\ phase.kind = "STARTING" ~> phase.kind # "STARTING"
  /\ phase.kind = "LOCKUP" ~> phase.kind \in {"RESULT", "ERROR"}
=============================================================================
