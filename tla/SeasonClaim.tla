----------------------------- MODULE SeasonClaim ----------------------------
(***************************************************************************)
(* The panel by which the winner of a season claims the prize              *)
(* (components/season-claim.tsx, with the reads of lib/season-pool.ts): it *)
(* shows what the contract would pay, not what the server's board says.    *)
(* What may be null is a set of at most one.                               *)
(***************************************************************************)
EXTENDS SeasonPrizePool

\* What the three reads at first, and the one after them, answer of a player.
SeasonReads(p, id) ==
  [state |-> seasons[id].state, allocation |-> allocation[id][p],
   claimed |-> p \in claimed[id], claimable |-> Claimable(p, id)]

ClaimPhase(kind) == [kind |-> kind, amount |-> 0, txHash |-> {}]

\* load: no account, or the reads; none where one of them threw.
LoadClaim_Early(account, reads) ==
  IF account = {} THEN ClaimPhase("none")
  ELSE IF reads = {} THEN ClaimPhase("error")
  ELSE LET r == CHOOSE r \in reads : TRUE
       IN  IF r.state = "None" \/ r.allocation = 0 THEN ClaimPhase("none")
           ELSE IF r.claimed THEN ClaimPhase("claimed")
           ELSE [ClaimPhase("claimable") EXCEPT !.amount = r.allocation]
LoadClaim(account, reads) ==
  IF account = {} THEN ClaimPhase("none")
  ELSE IF reads = {} THEN ClaimPhase("error")
  ELSE LET r == CHOOSE r \in reads : TRUE
       IN  IF r.state = "None" \/ r.allocation = 0 THEN ClaimPhase("none")
           ELSE IF r.claimed THEN ClaimPhase("claimed")
           ELSE IF r.state # "Finalized" THEN ClaimPhase("pending")
           ELSE IF r.claimable > 0 THEN [ClaimPhase("claimable") EXCEPT !.amount = r.claimable]
           ELSE ClaimPhase("claimed")

\* onClaim: the hash of the call, which nobody waits to see mined, or a refusal.
ClaimCall(id) == [call |-> "claim", id |-> id]
OnClaim(sent) ==
  IF sent = {} THEN ClaimPhase("error") ELSE [ClaimPhase("claimed") EXCEPT !.txHash = sent]

\* The panel, where it is shown at all, and its button.
ClaimPanel(phase) ==
  IF phase.kind \in {"none", "loading"} THEN {}
  ELSE {[text |-> phase.kind, amount |-> phase.amount,
         button |-> CASE phase.kind = "claimable" -> {"claim prize"}
                      [] phase.kind = "error" -> {"retry"}
                      [] OTHER -> {}]}

\* What is shown to a player whose reads all answer.
PanelOf(p, id) == ClaimPanel(LoadClaim({p}, {SeasonReads(p, id)}))

-----------------------------------------------------------------------------
\* A player is offered a prize of a season (season-claim.tsx) exactly when the
\* pool would pay it, then the amount that it would pay, and is told that it was
\* claimed exactly when it was.
PrizesAreGranted ==
  \A id \in SeasonIds, p \in Players :
    LET panel == PanelOf(p, id)
        prize == allocation[id][p]
    IN  /\ (\E shown \in panel : "claim prize" \in shown.button) <=>
             CanClaim(p, id) /\ bal[seasons[id].token][Pool] >= prize
        /\ \A shown \in panel :
             /\ "claim prize" \in shown.button => shown.amount = prize
             /\ shown.text = "claimed" <=> p \in claimed[id]

\* load awaits claimable after the other three reads, and the pool may have been
\* called in between: once a season is final, the panel of a winner is still right
\* after the call.
PanelOutlivesAwait ==
  [][\A id \in SeasonIds, p \in Players :
       seasons[id].state = "Finalized" /\ allocation[id][p] # 0 =>
         LET reads == [SeasonReads(p, id) EXCEPT !.claimable = Claimable(p, id)']
         IN  ClaimPanel(LoadClaim({p}, {reads})) = PanelOf(p, id)']_vars
=============================================================================
