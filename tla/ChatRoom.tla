------------------------------ MODULE ChatRoom ------------------------------
(***************************************************************************)
(* The global chat: apps/server/src/ws/chat.ts over the table chat_message *)
(* of db.ts, and the list that apps/web/src/routes/game/chat.tsx shows.    *)
(*                                                                         *)
(* A message is its id, which the table hands out in order; who sends it,  *)
(* its text and what refuses it are left out.  A client that lost its      *)
(* socket comes back on a new one and keeps its list until the history of  *)
(* the new one replaces it.                                                *)
(***************************************************************************)
EXTENDS Naturals, Sequences, FiniteSets

CONSTANTS
  Readers,           \* clients with the chat on screen
  HISTORY_LIMIT,     \* chatHistoryLimit
  RETAIN_COUNT,      \* chatRetainCount
  MaxMessages,       \* bound: messages stored
  MaxReaderDrops     \* bound: connections lost

ASSUME ChatAssumption ==
  /\ HISTORY_LIMIT \in Nat /\ RETAIN_COUNT \in Nat
  /\ MaxMessages \in Nat /\ MaxReaderDrops \in Nat

MessageIds == 1 .. MaxMessages
ChatLists == UNION {[1 .. n -> MessageIds] : n \in 0 .. MaxMessages}

VARIABLES
  chatTable,   \* chat_message
  stored,      \* the last id that the table handed out
  unsent,      \* stored by an insert that handleChatSend still waits for
  greeted,     \* clients whose socket said hello
  histories,   \* histories being read; once they are, the rows and what was sent since
  chatWire,    \* on its way to each client: a history, or one message
  chatList,    \* messages, on each screen
  caughtUp,    \* clients that got the history of their socket
  overtook,    \* the messages sent between the read of that history and its sending
  readerDrops

chatVars == <<chatTable, stored, unsent, greeted, histories, chatWire, chatList,
              caughtUp, overtook, readerDrops>>

Older(rows, id) == Cardinality({other \in rows : other < id})
Newer(rows, id) == Cardinality({other \in rows : other > id})

(* The rows in the order of their ids.                                      *)
Ascending(rows) ==
  [i \in 1 .. Cardinality(rows) |-> CHOOSE id \in rows : Older(rows, id) = i - 1]

History(h) == [type |-> "chat_history", overtaken |-> h.overtaken,
               messages |-> Ascending(UNION h.rows)]
Message(id) == [type |-> "chat_message", overtaken |-> {}, messages |-> <<id>>]

ChatTypeOK ==
  /\ chatTable \subseteq 1 .. stored /\ stored \in 0 .. MaxMessages
  /\ unsent \subseteq 1 .. stored
  /\ greeted \subseteq Readers /\ caughtUp \subseteq greeted
  /\ \A h \in histories : h.reader \in greeted /\ h.rows \in SUBSET (SUBSET MessageIds)
  /\ \A c \in Readers :
       /\ chatList[c] \in ChatLists /\ overtook[c] \subseteq MessageIds
       /\ \A i \in DOMAIN chatWire[c] : chatWire[c][i].messages \in ChatLists
  /\ readerDrops \in 0 .. MaxReaderDrops

ChatInit ==
  /\ chatTable = {} /\ stored = 0 /\ unsent = {}
  /\ greeted = {} /\ histories = {} /\ caughtUp = {}
  /\ chatWire = [c \in Readers |-> <<>>] /\ chatList = chatWire
  /\ overtook = [c \in Readers |-> {}]
  /\ readerDrops = 0

Newest(rows, n) == {id \in rows : Newer(rows, id) < n}

(* handleChatSend: insertChatMessage, and when it returns the broadcast to  *)
(* every socket with an address.                                            *)
StoreMessage ==
  /\ stored < MaxMessages
  /\ stored' = stored + 1
  /\ chatTable' = chatTable \cup {stored'}
  /\ unsent' = unsent \cup {stored'}
  /\ UNCHANGED <<greeted, histories, chatWire, chatList, caughtUp, overtook, readerDrops>>

BroadcastMessage(id) ==
  /\ id \in unsent
  /\ unsent' = unsent \ {id}
  /\ chatWire' = [c \in Readers |->
                    IF c \in greeted THEN Append(chatWire[c], Message(id)) ELSE chatWire[c]]
  /\ histories' = {IF h.rows = {} THEN h ELSE [h EXCEPT !.overtaken = @ \cup {id}] :
                     h \in histories}
  /\ UNCHANGED <<chatTable, stored, greeted, chatList, caughtUp, overtook, readerDrops>>

(* startChatPruneLoop.                                                      *)
Prune ==
  /\ chatTable' = Newest(chatTable, RETAIN_COUNT)
  /\ UNCHANGED <<stored, unsent, greeted, histories, chatWire, chatList, caughtUp,
                 overtook, readerDrops>>

(* hello: the address first, then sendChatHistory.                          *)
Greet(c) ==
  /\ c \notin greeted
  /\ greeted' = greeted \cup {c}
  /\ histories' = histories \cup {[reader |-> c, rows |-> {}, overtaken |-> {}]}
  /\ UNCHANGED <<chatTable, stored, unsent, chatWire, chatList, caughtUp, overtook, readerDrops>>

Recent == Newest(chatTable, HISTORY_LIMIT)

ReadHistory(h) ==
  /\ h.rows = {}
  /\ histories' = (histories \ {h}) \cup {[h EXCEPT !.rows = {Recent}]}
  /\ UNCHANGED <<chatTable, stored, unsent, greeted, chatWire, chatList, caughtUp,
                 overtook, readerDrops>>

SendHistory(h) ==
  /\ h.rows # {}
  /\ histories' = histories \ {h}
  /\ chatWire' = [chatWire EXCEPT ![h.reader] = Append(@, History(h))]
  /\ UNCHANGED <<chatTable, stored, unsent, greeted, chatList, caughtUp, overtook, readerDrops>>

HistoryFails(h) ==
  /\ histories' = histories \ {h}
  /\ UNCHANGED <<chatTable, stored, unsent, greeted, chatWire, chatList, caughtUp,
                 overtook, readerDrops>>

(* onMessage: a history replaces the list, a message that is not in it goes *)
(* to its end.                                                              *)
Upsert_Blindly(list, id) == Append(list, id)
Upsert(list, id) == IF id \in {list[i] : i \in DOMAIN list} THEN list ELSE Append(list, id)

ReadChat(c) ==
  /\ chatWire[c] # <<>>
  /\ LET msg == Head(chatWire[c])
         replaces == msg.type = "chat_history"
     IN  /\ chatList' = [chatList EXCEPT ![c] = IF replaces THEN msg.messages
                                          ELSE Upsert(@, msg.messages[1])]
         /\ caughtUp' = caughtUp \cup {d \in {c} : replaces}
         /\ overtook' = [overtook EXCEPT ![c] = IF replaces THEN msg.overtaken ELSE @]
  /\ chatWire' = [chatWire EXCEPT ![c] = Tail(@)]
  /\ UNCHANGED <<chatTable, stored, unsent, greeted, histories, readerDrops>>

ReaderDrops(c) ==
  /\ c \in greeted
  /\ readerDrops < MaxReaderDrops
  /\ readerDrops' = readerDrops + 1
  /\ greeted' = greeted \ {c} /\ caughtUp' = caughtUp \ {c}
  /\ histories' = {h \in histories : h.reader # c}
  /\ chatWire' = [chatWire EXCEPT ![c] = <<>>]
  /\ UNCHANGED <<chatTable, stored, unsent, chatList, overtook>>

ChatNext ==
  \/ StoreMessage \/ Prune
  \/ \E id \in unsent : BroadcastMessage(id)
  \/ \E h \in histories : ReadHistory(h) \/ SendHistory(h) \/ HistoryFails(h)
  \/ \E c \in Readers : Greet(c) \/ ReadChat(c) \/ ReaderDrops(c)

ChatSpec == ChatInit /\ [][ChatNext]_chatVars

-----------------------------------------------------------------------------
(* Safety: a screen that has its history shows each message that was sent   *)
(* since the oldest it shows, once, whatever the order of the inserts, the  *)
(* broadcasts and the histories and across reconnects.  Only a message that *)
(* was sent between the read of the history and its sending may be missing: *)
(* it arrives first, and the history without it replaces it.                *)
ChatHasNoGaps ==
  \A c \in caughtUp : chatWire[c] = <<>> /\ chatList[c] # <<>> =>
    \A id \in (Head(chatList[c]) .. stored) \ unsent :
      LET times == Cardinality({i \in DOMAIN chatList[c] : chatList[c][i] = id})
      IN  times = 1 \/ (times = 0 /\ id \in overtook[c])
=============================================================================
