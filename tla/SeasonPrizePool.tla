--------------------------- MODULE SeasonPrizePool ---------------------------
(***************************************************************************)
(* The season prize pool, apps/contracts-evm/src/SeasonPrizePool.sol.      *)
(*                                                                         *)
(* One action per external function; a reverting call is a disabled        *)
(* action.  Several seasons may share a token, and then they share the     *)
(* contract's one balance of it.  Timestamps, which only events and views  *)
(* show, are left out.                                                     *)
(***************************************************************************)
EXTENDS Integers, Sequences, FiniteSets, FiniteSetsExt

CONSTANTS
  Players,     \* addresses that sponsor, win, and receive surplus
  Pool,        \* the contract's own account in the tokens
  Operators,   \* addresses the owner may appoint as operator
  Tokens,      \* ERC-20 tokens a season may be denominated in
  NoToken,     \* address(0)
  SeasonIds,   \* season ids the owner may use
  Amounts,     \* amounts that callers pass
  Funds,       \* what each player holds of each token at first
  MaxBatch     \* bound: entries in one setAllocations call

Accounts == Players \cup {Pool}
SeasonState == {"None", "Open", "Finalized"}
Season == [state : SeasonState, token : Tokens \cup {NoToken},
           funded : Nat, allocated : Nat, claimed : Nat]
NoSeason == [state |-> "None", token |-> NoToken,
             funded |-> 0, allocated |-> 0, claimed |-> 0]

\* The (player, amount) lists of setAllocations: a player may occur twice.
Batches == UNION {[1 .. n -> [player : Players, amount : Amounts]] : n \in 0 .. MaxBatch}

ASSUME PoolAssumption ==
  /\ Pool \notin Players
  /\ NoToken \notin Tokens
  /\ IsFiniteSet(Players) /\ IsFiniteSet(SeasonIds)
  /\ Amounts \subseteq Nat
  /\ Funds \in Nat
  /\ MaxBatch \in Nat

VARIABLES
  seasons,      \* _seasons
  allocation,   \* _allocation: season, player
  claimed,      \* _claimed: the players who claimed, per season
  operator,     \* the current operator; the owner never changes
  bal           \* token balances (external)

vars == <<seasons, allocation, claimed, operator, bal>>

TypeOK ==
  /\ seasons \in [SeasonIds -> Season]
  /\ allocation \in [SeasonIds -> [Players -> Nat]]
  /\ claimed \in [SeasonIds -> SUBSET Players]
  /\ operator \in Operators
  /\ bal \in [Tokens -> [Accounts -> Nat]]

Init ==
  /\ seasons = [id \in SeasonIds |-> NoSeason]
  /\ allocation = [id \in SeasonIds |-> [p \in Players |-> 0]]
  /\ claimed = [id \in SeasonIds |-> {}]
  /\ operator \in Operators
  /\ bal = [t \in Tokens |-> [a \in Accounts |-> IF a = Pool THEN 0 ELSE Funds]]

-----------------------------------------------------------------------------
\* An ERC-20 transfer: it reverts when the payer cannot cover it.
Move_Unchecked(t, from, to, amount) ==
  bal' = [bal EXCEPT ![t][from] = @ - amount, ![t][to] = @ + amount]
Move(t, from, to, amount) ==
  /\ bal[t][from] >= amount
  /\ bal' = [bal EXCEPT ![t][from] = @ - amount, ![t][to] = @ + amount]

\* setOperator, by the owner.
SetOperator(next) ==
  /\ operator' = next
  /\ UNCHANGED <<seasons, allocation, claimed, bal>>

\* createSeason, by the owner.
CreateSeason(id, t) ==
  /\ seasons[id].state = "None"
  /\ seasons' = [seasons EXCEPT ![id] = [NoSeason EXCEPT !.state = "Open", !.token = t]]
  /\ UNCHANGED <<allocation, claimed, operator, bal>>

\* fund: anyone, while the season is open.
Fund(p, id, amount) ==
  /\ seasons[id].state = "Open"
  /\ amount # 0
  /\ seasons' = [seasons EXCEPT ![id].funded = @ + amount]
  /\ Move(seasons[id].token, p, Pool, amount)
  /\ UNCHANGED <<allocation, claimed, operator>>

\* One turn of setAllocations' loop: overwrite, and adjust the total by the delta.
Allocate_Readd(acc, entry) ==
  [shares |-> [acc.shares EXCEPT ![entry.player] = entry.amount],
   total |-> acc.total + entry.amount]
Allocate(acc, entry) ==
  [shares |-> [acc.shares EXCEPT ![entry.player] = entry.amount],
   total |-> acc.total + entry.amount - acc.shares[entry.player]]

\* The whole loop: acc after the first n entries.
AllocateAll(acc, batch) ==
  LET after[n \in 0 .. Len(batch)] ==
        IF n = 0 THEN acc ELSE Allocate(after[n - 1], batch[n])
  IN after[Len(batch)]

CanAllocate(id) == seasons[id].state = "Open"

SetAllocations(caller, id, batch) ==
  LET result == AllocateAll([shares |-> allocation[id], total |-> seasons[id].allocated], batch) IN
  /\ caller = operator
  /\ CanAllocate(id)
  /\ allocation' = [allocation EXCEPT ![id] = result.shares]
  /\ seasons' = [seasons EXCEPT ![id].allocated = result.total]
  /\ UNCHANGED <<claimed, operator, bal>>

\* finalize refuses to promise more than the season holds.
CanFinalize_Unfunded(s) == s.state = "Open" /\ s.allocated # 0
CanFinalize(s) == s.state = "Open" /\ s.allocated # 0 /\ s.allocated <= s.funded

Finalize(caller, id) ==
  /\ caller = operator
  /\ CanFinalize(seasons[id])
  /\ seasons' = [seasons EXCEPT ![id].state = "Finalized"]
  /\ UNCHANGED <<allocation, claimed, operator, bal>>

\* claim: a winner, once.
CanClaim_Again(p, id) == seasons[id].state = "Finalized" /\ allocation[id][p] # 0
CanClaim(p, id) ==
  /\ seasons[id].state = "Finalized"
  /\ p \notin claimed[id]
  /\ allocation[id][p] # 0

Claim(p, id) ==
  /\ CanClaim(p, id)
  /\ claimed' = [claimed EXCEPT ![id] = @ \cup {p}]
  /\ seasons' = [seasons EXCEPT ![id].claimed = @ + allocation[id][p]]
  /\ Move(seasons[id].token, Pool, p, allocation[id][p])
  /\ UNCHANGED <<allocation, operator>>

\* claimable, a view: what claim would pay.
Claimable(p, id) ==
  IF seasons[id].state = "Finalized" /\ p \notin claimed[id] THEN allocation[id][p] ELSE 0

\* withdrawSurplus, by the owner: what is recorded beyond the allocations.
Surplus_Unclaimed(s) == s.funded - s.claimed
Surplus(s) == s.funded - s.allocated

Withdrawn_Forgets(s, amount) == s
Withdrawn(s, amount) == [s EXCEPT !.funded = @ - amount]

WithdrawSurplus(to, id, amount) ==
  /\ seasons[id].state = "Finalized"
  /\ amount # 0 /\ amount <= Surplus(seasons[id])
  /\ seasons' = [seasons EXCEPT ![id] = Withdrawn(seasons[id], amount)]
  /\ Move(seasons[id].token, Pool, to, amount)
  /\ UNCHANGED <<allocation, claimed, operator>>

Next ==
  \/ \E next \in Operators : SetOperator(next)
  \/ \E id \in SeasonIds, t \in Tokens : CreateSeason(id, t)
  \/ \E p \in Players, id \in SeasonIds, amount \in Amounts : Fund(p, id, amount)
  \/ \E o \in Operators, id \in SeasonIds, batch \in Batches : SetAllocations(o, id, batch)
  \/ \E o \in Operators, id \in SeasonIds : Finalize(o, id)
  \/ \E p \in Players, id \in SeasonIds : Claim(p, id)
  \/ \E p \in Players, id \in SeasonIds, amount \in Amounts : WithdrawSurplus(p, id, amount)

\* A winner who can claim does, in the end; nothing is assumed of anyone else.
Spec == Init /\ [][Next]_vars
FairSpec == Spec /\ \A p \in Players, id \in SeasonIds : WF_vars(Claim(p, id))

-----------------------------------------------------------------------------
(***************************************************************************)
(* Properties.                                                             *)
(***************************************************************************)

\* The running totals mean what they say, however often allocations were
\* overwritten and however often a player occurs in one batch.
TotalsExact ==
  \A id \in SeasonIds :
    /\ seasons[id].allocated = SumFunctionOnSet(allocation[id], Players)
    /\ seasons[id].claimed = SumFunctionOnSet(allocation[id], claimed[id])

\* What the contract holds of a token for one season.
HeldIn(t, s) == IF s.token = t THEN s.funded - s.claimed ELSE 0

\* One season never spends another's money: the pooled balance of a token is what
\* its seasons together were funded with and have not paid.
PoolExact ==
  \A t \in Tokens :
    bal[t][Pool] = SumFunctionOnSet([id \in SeasonIds |-> HeldIn(t, seasons[id])], SeasonIds)

\* A finalized season can pay every winner still to come in full, in any order
\* and whatever surplus was taken out: early claims never empty the pool.
PrizesCovered ==
  \A id \in SeasonIds :
    LET s == seasons[id] IN
    s.state = "Finalized" =>
      /\ SumFunctionOnSet(allocation[id], Players \ claimed[id]) <= s.funded - s.claimed
      /\ s.funded - s.claimed <= bal[s.token][Pool]

\* Nobody is paid a prize twice: whatever a season books as claimed is one
\* player's first claim, and that player's wallet grows by their allocation.
PaidOnce ==
  [][\A id \in SeasonIds :
       LET s == seasons[id] IN
       seasons'[id].claimed # s.claimed =>
         \E p \in Players \ claimed[id] :
           /\ claimed'[id] = claimed[id] \cup {p}
           /\ bal'[s.token][p] = bal[s.token][p] + allocation[id][p]]_vars

\* Every winner who keeps trying is paid.
WinnersPaid ==
  \A p \in Players, id \in SeasonIds :
    (seasons[id].state = "Finalized" /\ allocation[id][p] # 0) ~> p \in claimed[id]
=============================================================================
