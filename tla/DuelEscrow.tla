----------------------------- MODULE DuelEscrow -----------------------------
(***************************************************************************)
(* What the duel contract promises about money, and nothing else.          *)
(*                                                                         *)
(* A pot holds the equal stakes of at most two distinct players.  It opens *)
(* with one stake, may be matched by a second, and is paid out once, whole *)
(* and only to the players who funded it: one stake back to a lone player, *)
(* or, of two stakes, both to one player or one to each.  Nobody else's    *)
(* wallet ever changes.  Who deserves which payout, and when, is left open *)
(* here; DreamSwipeDuel implements this specification.                     *)
(***************************************************************************)
EXTENDS Integers

CONSTANTS Players, NoPlayer, DuelIds, Tokens, NoToken, Stakes

VARIABLES
  wallet,   \* what each player holds of each token
  vault,    \* what the contract holds of each token
  pots      \* the pot of each duel

vars == <<wallet, vault, pots>>

Unopened == [phase |-> "unopened", token |-> NoToken, stake |-> 0,
             first |-> NoPlayer, second |-> NoPlayer]

Init ==
  /\ wallet \in [Tokens -> [Players -> Nat]]
  /\ vault = [t \in Tokens |-> 0]
  /\ pots = [id \in DuelIds |-> Unopened]

\* p pays the stake of a pot into the vault: in full or not at all.
PayIn(p, pot) ==
  IF pot.token = NoToken
  THEN pot.stake = 0 /\ UNCHANGED <<wallet, vault>>
  ELSE /\ wallet[pot.token][p] >= pot.stake
       /\ wallet' = [wallet EXCEPT ![pot.token][p] = @ - pot.stake]
       /\ vault' = [vault EXCEPT ![pot.token] = @ + pot.stake]

\* The two players of a pot (distinct) receive their shares from the vault.
PayOut(pot, share) ==
  IF pot.token = NoToken
  THEN UNCHANGED <<wallet, vault>>
  ELSE /\ vault[pot.token] >= share[1] + share[2]
       /\ wallet' = [wallet EXCEPT ![pot.token] =
            [r \in Players |-> @[r] + (IF r = pot.first THEN share[1] ELSE 0)
                                    + (IF r = pot.second THEN share[2] ELSE 0)]]
       /\ vault' = [vault EXCEPT ![pot.token] = @ - (share[1] + share[2])]

Opened(p, t, stake) ==
  [phase |-> "open", token |-> t, stake |-> stake, first |-> p, second |-> NoPlayer]

Open(id, p, t, stake) ==
  /\ pots[id].phase = "unopened"
  /\ (stake = 0) <=> (t = NoToken)
  /\ PayIn(p, Opened(p, t, stake))
  /\ pots' = [pots EXCEPT ![id] = Opened(p, t, stake)]

Match(id, q) ==
  /\ pots[id].phase = "open"
  /\ q # pots[id].first
  /\ PayIn(q, pots[id])
  /\ pots' = [pots EXCEPT ![id].phase = "matched", ![id].second = q]

\* The splits of a pot: a lone stake returns; two go to one player or are shared.
Splits(pot) ==
  LET s == pot.stake IN
  IF pot.phase = "open" THEN {<<s, 0>>} ELSE {<<2 * s, 0>>, <<0, 2 * s>>, <<s, s>>}

Pay(id, share) ==
  /\ pots[id].phase \in {"open", "matched"}
  /\ share \in Splits(pots[id])
  /\ PayOut(pots[id], share)
  /\ pots' = [pots EXCEPT ![id].phase = "paid"]

Next ==
  \E id \in DuelIds :
    \/ \E p \in Players, t \in Tokens \cup {NoToken}, stake \in Stakes \cup {0} : Open(id, p, t, stake)
    \/ \E q \in Players : Match(id, q)
    \/ \E share \in Splits(pots[id]) : Pay(id, share)

Spec == Init /\ [][Next]_vars
=============================================================================
