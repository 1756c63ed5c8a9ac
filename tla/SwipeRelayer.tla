---------------------------- MODULE SwipeRelayer ----------------------------
(***************************************************************************)
(* POST /relay/swipe: handleRelayRequest in apps/server/src/relay-api.ts   *)
(* and relaySwipe in apps/server/src/relayer.ts.                           *)
(*                                                                         *)
(* A request carries a swipe that its player signed for a nonce; two tabs  *)
(* or a double submit give two requests for one nonce.  The handler tracks *)
(* the duel before anything is known of it, checks the signed nonce and    *)
(* the duel against the chain, simulates, sends and waits for the receipt. *)
(* The price it attaches (priceSwipe) and the signature and deadline,      *)
(* which the contract checks again, are in DreamSwipeDuel.                 *)
(***************************************************************************)
EXTENDS SomniaIndexer

VARIABLES request   \* each relay request, from the signature to the reply

NotPosted == [pc |-> "unposted"]
Outside == "not a player"   \* an address that does not play in the duel

RequestRecord ==
  [pc : {"checking", "relaying", "ok", "expired", "conflict", "forbidden", "failed"},
   duel : Duels, player : Players \cup {Outside}, card : 0 .. DeckSize, nonce : Nat]

RelayTypeOK == request \in [Requests -> {NotPosted} \cup RequestRecord]

RelayInit == request = [r \in Requests |-> NotPosted]

SwipeOf(r) == SwipeTx(r, request[r].duel, request[r].player, request[r].card,
                      request[r].nonce)
Reply(r, to) == request' = [request EXCEPT ![r].pc = to]

(* The nonce a client signs: what the chain said at some time before.       *)
SignedNonces(p) == IF p = Outside THEN {0} ELSE 0 .. nonces[p]

PostSwipe(r) ==
  /\ request[r] = NotPosted
  /\ \E d \in Duels, p \in Players \cup {Outside}, c \in 0 .. DeckSize :
       /\ \E n \in SignedNonces(p) :
            request' = [request EXCEPT ![r] = [pc |-> "checking", duel |-> d, player |-> p,
                                               card |-> c, nonce |-> n]]
       /\ tracked' = tracked \cup {d}
  /\ UNCHANGED <<sweep, faults, indexerVars, chainVars>>

(* An out-of-date deadline is refused before the chain is read.             *)
RefuseExpired(r) ==
  /\ request[r].pc = "checking"
  /\ Reply(r, "expired")
  /\ UNCHANGED <<keeperVars, faults, indexerVars, chainVars>>

NonceMatches(r) == request[r].player \in Players => request[r].nonce = nonces[request[r].player]

(* The pre-flight checks, in their order, then the simulation.              *)
Preflight(r) ==
  /\ request[r].pc = "checking"
  /\ UNCHANGED <<keeperVars, faults, indexerVars>>
  /\ \/ /\ ~NonceMatches(r) \/ ~Playing(request[r].duel)
        /\ Reply(r, "conflict")
        /\ UNCHANGED chainVars
     \/ /\ NonceMatches(r) /\ Playing(request[r].duel)
        /\ request[r].card = DeckSize \/ request[r].player = Outside
        /\ Reply(r, "forbidden")
        /\ UNCHANGED chainVars
     \/ /\ NonceMatches(r) /\ Playing(request[r].duel)
        /\ request[r].card < DeckSize /\ request[r].player # Outside
        /\ IF Executable(SwipeOf(r)) THEN Reply(r, "relaying") /\ Send(SwipeOf(r))
           ELSE Reply(r, "failed") /\ UNCHANGED chainVars

(* The receipt decides the reply.                                           *)
Answer_Raw(r) == receipt[r]
Answer_AnyReceipt(r) == "ok"
Answer(r) == IF receipt[r] = "success" THEN "ok" ELSE "failed"

SwipeMined(r) ==
  /\ request[r].pc = "relaying"
  /\ TakeReceipt(r)
  /\ Reply(r, Answer(r))
  /\ UNCHANGED <<keeperVars, faults, indexerVars>>

(* A call throws: 502, while a sent transaction may still be mined.         *)
RelayFails(r) ==
  /\ request[r].pc \in {"checking", "relaying"}
  /\ Fault
  /\ Reply(r, "failed")
  /\ GiveUp({r})
  /\ UNCHANGED <<keeperVars, indexerVars>>

RelayNext ==
  \E r \in Requests :
    PostSwipe(r) \/ RefuseExpired(r) \/ Preflight(r) \/ SwipeMined(r) \/ RelayFails(r)
=============================================================================
