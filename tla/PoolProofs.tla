----------------------------- MODULE PoolProofs -----------------------------
(***************************************************************************)
(* The money of the season prize pool, for any finite sets of players and  *)
(* seasons, any tokens, amounts and batches; and what the claim panel says *)
(* of it.                                                                  *)
(***************************************************************************)
EXTENDS SeasonClaim, SumProofs

-----------------------------------------------------------------------------
(* The loop of setAllocations.  A batch is a finite list, so the recursion  *)
(* has a value after every number of turns, and the invariant of the loop   *)
(* (the total is the sum of the shares) holds after each.                   *)
Acc == [shares : [Players -> Nat], total : Nat]
AddsToTotal(acc) == acc.total = SumFunctionOnSet(acc.shares, Players)

LEMMA OneTurn ==
  ASSUME NEW acc \in Acc, AddsToTotal(acc), NEW entry \in [player : Players, amount : Amounts]
  PROVE  Allocate(acc, entry) \in Acc /\ AddsToTotal(Allocate(acc, entry))
<1> DEFINE p == entry.player
           n == entry.amount
           f == acc.shares
           h == [acc.shares EXCEPT ![p] = n]
           new == Allocate(acc, entry)
<1>1. p \in Players /\ n \in Nat /\ f \in [Players -> Nat] /\ acc.total \in Nat
  BY PoolAssumption DEF Acc
<1>2. h \in [Players -> Nat] /\ h[p] = n /\ \A q \in Players : q # p => h[q] = f[q]
  BY <1>1
<1>3. new.shares = h /\ new.total = acc.total + n - f[p]
  BY DEF Allocate
<1>4. new = [shares |-> h, total |-> acc.total + n - f[p]]
  BY DEF Allocate
<1> HIDE DEF new, h, f
<1>5. SumFunctionOnSet(h, Players) = SumFunctionOnSet(f, Players) - f[p] + h[p]
  <2>1. f \in [Players -> Int] /\ h \in [Players -> Int]
    BY <1>1, <1>2
  <2> QED BY <1>1, <1>2, <2>1, SumUpdate, PoolAssumption
<1>6. SumFunctionOnSet(h, Players) \in Nat
  BY <1>2, PoolAssumption, SumOfNaturals
<1>7. acc.total = SumFunctionOnSet(f, Players) /\ f[p] \in Nat
  BY <1>1 DEF AddsToTotal, f
<1>8. new.total = SumFunctionOnSet(h, Players)
  BY <1>1, <1>2, <1>3, <1>5, <1>7
<1> QED BY <1>2, <1>3, <1>4, <1>6, <1>8 DEF Acc, AddsToTotal, new

\* The accumulator after each of the first m turns.
Turns(g, acc, batch, m) ==
  g = [n \in 0 .. m |-> IF n = 0 THEN acc ELSE Allocate(g[n - 1], batch[n])]

LEMMA TurnsExist ==
  ASSUME NEW acc, NEW batch, NEW m \in Nat
  PROVE  \E g : Turns(g, acc, batch, m)
<1> DEFINE N == {n \in 0 .. m : ~ \E g : Turns(g, acc, batch, n)}
<1>1. SUFFICES ASSUME N # {} PROVE FALSE
  <2>1. m \in 0 .. m
    OBVIOUS
  <2> QED BY <2>1
<1>2. PICK n \in N : \A k \in N : n <= k
  <2>1. N \in SUBSET (0 .. m)
    OBVIOUS
  <2> HIDE DEF N
  <2> QED BY <1>1, <2>1, LeastNumber
<1>3. n \in 0 .. m /\ ~ \E g : Turns(g, acc, batch, n)
  BY <1>2
<1>4. n # 0
  <2>1. Turns([k \in 0 .. 0 |-> acc], acc, batch, 0)
    BY DEF Turns
  <2> QED BY <1>3, <2>1
<1>5. n - 1 \in 0 .. m /\ ~(n <= n - 1)
  BY <1>3, <1>4
<1>6. \E g : Turns(g, acc, batch, n - 1)
  BY <1>2, <1>5
<1>7. PICK g : Turns(g, acc, batch, n - 1)
  BY <1>6
<1> DEFINE h == [k \in 0 .. n |-> IF k = n THEN Allocate(g[n - 1], batch[n]) ELSE g[k]]
<1>8. \A k \in 0 .. n - 1 : h[k] = g[k]
  BY <1>3
<1>9. \A k \in 0 .. n - 1 : g[k] = IF k = 0 THEN acc ELSE Allocate(g[k - 1], batch[k])
  BY <1>7 DEF Turns
<1>10. \A k \in 0 .. n : h[k] = IF k = 0 THEN acc ELSE Allocate(h[k - 1], batch[k])
  <2> SUFFICES ASSUME NEW k \in 0 .. n
               PROVE  h[k] = IF k = 0 THEN acc ELSE Allocate(h[k - 1], batch[k])
    OBVIOUS
  <2>1. CASE k = n
    <3>1. h[k] = Allocate(g[n - 1], batch[n])
      BY <2>1
    <3>2. h[n - 1] = g[n - 1]
      BY <1>4, <1>8
    <3> HIDE DEF h
    <3> QED BY <1>4, <2>1, <3>1, <3>2
  <2>2. CASE k # n
    <3>1. k \in 0 .. n - 1 /\ (k # 0 => k - 1 \in 0 .. n - 1)
      BY <2>2
    <3>2. h[k] = g[k] /\ (k # 0 => h[k - 1] = g[k - 1])
      BY <1>8, <3>1
    <3> HIDE DEF h
    <3> QED BY <1>9, <3>1, <3>2
  <2> QED BY <2>1, <2>2
<1>11. Turns(h, acc, batch, n)
  <2>1. h = [k \in 0 .. n |-> h[k]]
    OBVIOUS
  <2> HIDE DEF h
  <2> QED BY <1>10, <2>1 DEF Turns
<1> QED BY <1>3, <1>11

\* setAllocations keeps the total the sum of the shares, however often a player
\* occurs in the batch.
LEMMA AllTurns ==
  ASSUME NEW acc \in Acc, AddsToTotal(acc), NEW batch \in Batches
  PROVE  AllocateAll(acc, batch) \in Acc /\ AddsToTotal(AllocateAll(acc, batch))
<1> DEFINE m == Len(batch)
           g == CHOOSE g : Turns(g, acc, batch, m)
<1>1. m \in Nat /\ \A n \in 1 .. m : batch[n] \in [player : Players, amount : Amounts]
  BY PoolAssumption DEF Batches
<1>2. AllocateAll(acc, batch) = g[m]
  BY DEF AllocateAll, Turns
<1>3. Turns(g, acc, batch, m)
  BY <1>1, TurnsExist
<1> HIDE DEF g, m
<1>4. \A n \in 0 .. m : g[n] = IF n = 0 THEN acc ELSE Allocate(g[n - 1], batch[n])
  BY <1>3 DEF Turns
<1> DEFINE N == {n \in 0 .. m : ~(g[n] \in Acc /\ AddsToTotal(g[n]))}
<1>5. N = {}
  <2>1. SUFFICES ASSUME N # {} PROVE FALSE
    OBVIOUS
  <2>2. PICK n \in N : \A k \in N : n <= k
    <3>1. N \in SUBSET (0 .. m)
      OBVIOUS
    <3> HIDE DEF N
    <3> QED BY <1>1, <2>1, <3>1, LeastNumber
  <2>3. n \in 0 .. m /\ ~(g[n] \in Acc /\ AddsToTotal(g[n]))
    BY <2>2
  <2>4. n # 0
    <3>1. n = 0 => g[n] = acc
      BY <1>4, <2>3
    <3> QED BY <2>3, <3>1
  <2>5. n - 1 \in 0 .. m /\ ~(n <= n - 1)
    BY <1>1, <2>3, <2>4
  <2>6. g[n - 1] \in Acc /\ AddsToTotal(g[n - 1])
    BY <2>2, <2>5
  <2>7. n \in 1 .. m /\ g[n] = Allocate(g[n - 1], batch[n])
    BY <1>1, <1>4, <2>3, <2>4
  <2>8. batch[n] \in [player : Players, amount : Amounts]
    BY <1>1, <2>7
  <2>9. Allocate(g[n - 1], batch[n]) \in Acc /\ AddsToTotal(Allocate(g[n - 1], batch[n]))
    BY <2>6, <2>8, OneTurn
  <2> QED BY <2>3, <2>7, <2>9
<1>6. m \in 0 .. m
  BY <1>1
<1> QED BY <1>2, <1>5, <1>6

-----------------------------------------------------------------------------
(* The inductive invariant: types, the meaning of each season's state, and  *)
(* the two accounts of its money, its own and the token's.                  *)
WellFormed(id) ==
  LET s == seasons[id] IN
  /\ s.state = "None" => s = NoSeason
  /\ s.state # "None" => s.token \in Tokens
  /\ s.state # "Finalized" => claimed[id] = {}
  /\ s.state = "Finalized" => s.allocated <= s.funded

SeasonsWellFormed == \A id \in SeasonIds : WellFormed(id)

PoolInv == TypeOK /\ SeasonsWellFormed /\ TotalsExact /\ PoolExact

\* A transfer of a token, account by account.
LEMMA Moved ==
  ASSUME bal \in [Tokens -> [Accounts -> Nat]], NEW t \in Tokens, NEW x \in Accounts,
         NEW y \in Accounts, x # y, NEW n \in Nat, Move(t, x, y, n)
  PROVE  /\ bal' \in [Tokens -> [Accounts -> Nat]]
         /\ \A u \in Tokens, a \in Accounts : bal'[u][a] =
              bal[u][a] + (IF u = t /\ a = y THEN n ELSE 0) - (IF u = t /\ a = x THEN n ELSE 0)
BY DEF Move

\* What a season's allocations, and its claims, add up to.
LEMMA Totals ==
  ASSUME TypeOK, TotalsExact, NEW id \in SeasonIds
  PROVE  LET s == seasons[id]
             rest == SumFunctionOnSet(allocation[id], Players \ claimed[id]) IN
         /\ s.allocated = s.claimed + rest /\ s.claimed <= s.allocated
         /\ rest \in Nat /\ s.claimed \in Nat /\ s.allocated \in Nat /\ s.funded \in Nat
<1> DEFINE f == allocation[id]
           C == claimed[id]
<1>1. f \in [Players -> Nat] /\ C \in SUBSET Players /\ seasons[id] \in Season
  BY DEF TypeOK
<1>2. Numbers(f, Players)
  BY <1>1, PoolAssumption DEF Numbers
<1>3. seasons[id].allocated = SumFunctionOnSet(f, Players) /\ seasons[id].claimed = SumFunctionOnSet(f, C)
  BY DEF TotalsExact
<1> HIDE DEF f, C
<1>4. /\ Numbers(f, Players \ C)
      /\ SumFunctionOnSet(f, Players) = SumFunctionOnSet(f, C) + SumFunctionOnSet(f, Players \ C)
  BY <1>1, <1>2, SumSplit
<1>5. SumFunctionOnSet(f, Players \ C) \in Nat
  BY <1>1, <1>4, SumOfNaturals DEF Numbers
<1> QED BY <1>1, <1>3, <1>4, <1>5 DEF f, C, Season

\* Each season's money is in the pool's account: the others hold no less than
\* nothing.
LEMMA Covered ==
  ASSUME PoolInv, NEW id \in SeasonIds
  PROVE  LET s == seasons[id] IN
         /\ s.funded - s.claimed \in Nat
         /\ s.state # "None" => s.funded - s.claimed <= bal[s.token][Pool]
<1>1. \A i \in SeasonIds : seasons[i] \in Season /\ WellFormed(i)
  BY DEF PoolInv, TypeOK, SeasonsWellFormed
<1>2. ASSUME NEW i \in SeasonIds PROVE seasons[i].funded - seasons[i].claimed \in Nat
  <2>1. /\ seasons[i].funded \in Nat /\ seasons[i].claimed \in Nat /\ seasons[i].allocated \in Nat
        /\ seasons[i].claimed <= seasons[i].allocated
    BY Totals DEF PoolInv
  <2>2. CASE seasons[i].state = "Finalized"
    BY <1>1, <2>1, <2>2 DEF WellFormed
  <2>3. CASE seasons[i].state # "Finalized"
    <3>1. claimed[i] = {}
      BY <1>1, <2>3 DEF WellFormed
    <3>2. seasons[i].claimed = 0
      BY <3>1, SumEmpty DEF PoolInv, TotalsExact
    <3> QED BY <2>1, <3>2
  <2> QED BY <2>2, <2>3
<1> DEFINE t == seasons[id].token
           f == [i \in SeasonIds |-> HeldIn(t, seasons[i])]
<1>3. CASE seasons[id].state # "None"
  <2>1. t \in Tokens
    BY <1>1, <1>3 DEF WellFormed
  <2>2. \A i \in SeasonIds : f[i] \in Nat
    <3> SUFFICES ASSUME NEW i \in SeasonIds PROVE HeldIn(t, seasons[i]) \in Nat
      OBVIOUS
    <3>1. seasons[i].funded - seasons[i].claimed \in Nat
      BY <1>2
    <3> QED BY <3>1 DEF HeldIn
  <2>3. f[id] = seasons[id].funded - seasons[id].claimed
    BY DEF HeldIn
  <2>4. bal[t][Pool] = SumFunctionOnSet(f, SeasonIds)
    BY <2>1 DEF PoolInv, PoolExact
  <2> HIDE DEF f, t
  <2>5. Numbers(f, SeasonIds)
    BY <2>2, PoolAssumption DEF Numbers
  <2>6. /\ Numbers(f, SeasonIds \ {id})
        /\ SumFunctionOnSet(f, SeasonIds) = f[id] + SumFunctionOnSet(f, SeasonIds \ {id})
    BY <2>5, SumPick
  <2>7. SumFunctionOnSet(f, SeasonIds \ {id}) \in Nat
    BY <2>2, <2>6, SumOfNaturals DEF Numbers
  <2> QED BY <1>2, <2>2, <2>3, <2>4, <2>6, <2>7 DEF t
<1> QED BY <1>2, <1>3

\* One season's books change, and the pool's accounts with what it holds.
LEMMA PoolFollows ==
  ASSUME PoolInv, seasons' \in [SeasonIds -> Season], NEW id \in SeasonIds,
         \A i \in SeasonIds : i # id => seasons'[i] = seasons[i],
         \A t \in Tokens :
           bal'[t][Pool] = bal[t][Pool] - HeldIn(t, seasons[id]) + HeldIn(t, seasons'[id])
  PROVE  PoolExact'
<1> SUFFICES ASSUME NEW t \in Tokens
             PROVE  bal'[t][Pool] = SumFunctionOnSet([i \in SeasonIds |-> HeldIn(t, seasons'[i])], SeasonIds)
  BY DEF PoolExact
<1> DEFINE f == [i \in SeasonIds |-> HeldIn(t, seasons[i])]
           h == [i \in SeasonIds |-> HeldIn(t, seasons'[i])]
<1>1. f \in [SeasonIds -> Int] /\ h \in [SeasonIds -> Int]
  BY DEF HeldIn, Season, PoolInv, TypeOK
<1>2. \A i \in SeasonIds : i # id => h[i] = f[i]
  OBVIOUS
<1>3. bal[t][Pool] = SumFunctionOnSet(f, SeasonIds)
  BY DEF PoolInv, PoolExact
<1>4. bal'[t][Pool] = bal[t][Pool] - f[id] + h[id]
  OBVIOUS
<1> HIDE DEF f, h
<1>5. SumFunctionOnSet(h, SeasonIds) = SumFunctionOnSet(f, SeasonIds) - f[id] + h[id]
  BY <1>1, <1>2, PoolAssumption, SumUpdate
<1> QED BY <1>3, <1>4, <1>5 DEF h

LEMMA InitPool == Init => PoolInv
<1> SUFFICES ASSUME Init PROVE PoolInv
  OBVIOUS
<1>1. TypeOK /\ SeasonsWellFormed
  BY PoolAssumption DEF Init, TypeOK, SeasonsWellFormed, WellFormed, NoSeason, Season, SeasonState, Accounts
<1>2. TotalsExact
  <2> SUFFICES ASSUME NEW id \in SeasonIds
               PROVE  /\ seasons[id].allocated = SumFunctionOnSet(allocation[id], Players)
                      /\ seasons[id].claimed = SumFunctionOnSet(allocation[id], claimed[id])
    BY DEF TotalsExact
  <2>1. /\ seasons[id].allocated = 0 /\ seasons[id].claimed = 0 /\ claimed[id] = {}
        /\ \A p \in Players : allocation[id][p] = 0
    BY DEF Init, NoSeason
  <2>2. SumFunctionOnSet(allocation[id], Players) = 0
    BY <2>1, PoolAssumption, SumOfZeros
  <2> QED BY <2>1, <2>2, SumEmpty
<1>3. PoolExact
  <2> SUFFICES ASSUME NEW t \in Tokens
               PROVE  bal[t][Pool] = SumFunctionOnSet([i \in SeasonIds |-> HeldIn(t, seasons[i])], SeasonIds)
    BY DEF PoolExact
  <2> DEFINE f == [i \in SeasonIds |-> HeldIn(t, seasons[i])]
  <2>1. bal[t][Pool] = 0
    BY DEF Init, Accounts
  <2>2. \A i \in SeasonIds : f[i] = 0
    BY DEF Init, HeldIn, NoSeason
  <2> HIDE DEF f
  <2>3. SumFunctionOnSet(f, SeasonIds) = 0
    BY <2>2, PoolAssumption, SumOfZeros
  <2> QED BY <2>1, <2>3 DEF f
<1> QED BY <1>1, <1>2, <1>3 DEF PoolInv

LEMMA CreatePool ==
  ASSUME PoolInv, NEW id \in SeasonIds, NEW k \in Tokens, CreateSeason(id, k)
  PROVE  PoolInv'
<1> DEFINE new == [NoSeason EXCEPT !.state = "Open", !.token = k]
<1>1. /\ seasons[id] = NoSeason /\ seasons' = [seasons EXCEPT ![id] = new]
      /\ UNCHANGED <<allocation, claimed, operator, bal>> /\ claimed[id] = {}
      /\ TypeOK
  BY DEF PoolInv, SeasonsWellFormed, WellFormed, CreateSeason
<1>2. /\ new.state = "Open" /\ new.token = k /\ new.funded = 0 /\ new.allocated = 0 /\ new.claimed = 0
      /\ NoSeason.token = NoToken /\ NoSeason.funded = 0 /\ NoSeason.allocated = 0 /\ NoSeason.claimed = 0
      /\ new \in Season
  BY DEF NoSeason, Season, SeasonState
<1> HIDE DEF new
<1>3. seasons'[id] = new /\ \A i \in SeasonIds : i # id => seasons'[i] = seasons[i]
  BY <1>1 DEF TypeOK
<1>4. TypeOK'
  BY <1>1, <1>2 DEF TypeOK
<1>5. SeasonsWellFormed'
  BY <1>1, <1>2, <1>3 DEF PoolInv, SeasonsWellFormed, WellFormed
<1>6. TotalsExact'
  BY <1>1, <1>2, <1>3 DEF PoolInv, TotalsExact
<1>7. \A t \in Tokens : bal[t][Pool] \in Nat
  BY DEF PoolInv, TypeOK, Accounts
<1>8. \A t \in Tokens : bal'[t][Pool] = bal[t][Pool] - HeldIn(t, seasons[id]) + HeldIn(t, seasons'[id])
  BY <1>1, <1>2, <1>3, <1>7 DEF HeldIn
<1>9. PoolExact'
  BY <1>3, <1>4, <1>8, PoolFollows DEF TypeOK
<1> QED BY <1>4, <1>5, <1>6, <1>9 DEF PoolInv

LEMMA FundPool ==
  ASSUME PoolInv, NEW p \in Players, NEW id \in SeasonIds, NEW amount \in Amounts, Fund(p, id, amount)
  PROVE  PoolInv'
<1> DEFINE s == seasons[id]
           new == [s EXCEPT !.funded = @ + amount]
           k == s.token
<1>1. /\ s \in Season /\ s.state = "Open" /\ k \in Tokens /\ amount \in Nat
      /\ p \in Accounts /\ Pool \in Accounts /\ p # Pool
      /\ Move(k, p, Pool, amount) /\ TypeOK /\ WellFormed(id)
      /\ seasons' = [seasons EXCEPT ![id] = new]
      /\ UNCHANGED <<allocation, claimed, operator>>
  BY PoolAssumption DEF PoolInv, TypeOK, SeasonsWellFormed, WellFormed, Fund, Accounts
<1>2. /\ new \in Season /\ new.state = s.state /\ new.token = k /\ new.funded = s.funded + amount
      /\ new.allocated = s.allocated /\ new.claimed = s.claimed
  BY <1>1 DEF Season
<1>3. s.funded \in Nat /\ s.claimed \in Nat
  BY <1>1 DEF Season
<1> HIDE DEF new
<1>4. seasons'[id] = new /\ \A i \in SeasonIds : i # id => seasons'[i] = seasons[i]
  BY <1>1 DEF TypeOK
<1>5. /\ bal' \in [Tokens -> [Accounts -> Nat]]
      /\ \A u \in Tokens, a \in Accounts : bal'[u][a] =
              bal[u][a] + (IF u = k /\ a = Pool THEN amount ELSE 0) - (IF u = k /\ a = p THEN amount ELSE 0)
  BY <1>1, Moved DEF TypeOK
<1>6. TypeOK'
  BY <1>1, <1>2, <1>5 DEF TypeOK
<1>7. SeasonsWellFormed'
  BY <1>1, <1>2, <1>4 DEF PoolInv, SeasonsWellFormed, WellFormed
<1>8. TotalsExact'
  BY <1>1, <1>2, <1>4 DEF PoolInv, TotalsExact
<1>9. \A t \in Tokens : bal[t][Pool] \in Nat
  BY <1>1 DEF TypeOK
<1>10. \A t \in Tokens : HeldIn(t, seasons'[id]) = HeldIn(t, s) + (IF t = k THEN amount ELSE 0) /\ HeldIn(t, s) \in Int
  BY <1>1, <1>2, <1>3, <1>4 DEF HeldIn
<1>11. \A t \in Tokens : bal'[t][Pool] = bal[t][Pool] + (IF t = k THEN amount ELSE 0)
  BY <1>1, <1>5, <1>9
<1>12. \A t \in Tokens : bal'[t][Pool] = bal[t][Pool] - HeldIn(t, seasons[id]) + HeldIn(t, seasons'[id])
  BY <1>1, <1>9, <1>10, <1>11
<1>13. PoolExact'
  BY <1>4, <1>6, <1>12, PoolFollows DEF TypeOK
<1> QED BY <1>6, <1>7, <1>8, <1>13 DEF PoolInv

LEMMA AllocatePool ==
  ASSUME PoolInv, NEW o \in Operators, NEW id \in SeasonIds, NEW batch \in Batches,
         SetAllocations(o, id, batch)
  PROVE  PoolInv'
<1> DEFINE s == seasons[id]
           before == [shares |-> allocation[id], total |-> s.allocated]
           result == AllocateAll(before, batch)
           new == [s EXCEPT !.allocated = result.total]
<1>1. /\ s \in Season /\ s.state = "Open" /\ TypeOK /\ WellFormed(id)
      /\ seasons' = [seasons EXCEPT ![id] = new]
      /\ allocation' = [allocation EXCEPT ![id] = result.shares]
      /\ UNCHANGED <<claimed, operator, bal>>
  BY DEF PoolInv, TypeOK, SeasonsWellFormed, SetAllocations, CanAllocate
<1>2. before \in Acc /\ AddsToTotal(before)
  BY <1>1 DEF Acc, AddsToTotal, PoolInv, TotalsExact, TypeOK, Season
<1>3. result \in Acc /\ AddsToTotal(result)
  BY <1>2, AllTurns
<1> HIDE DEF result
<1>4. /\ new \in Season /\ new.state = s.state /\ new.token = s.token /\ new.funded = s.funded
      /\ new.allocated = result.total /\ new.claimed = s.claimed
  BY <1>1, <1>3 DEF Season, Acc
<1> HIDE DEF new
<1>5. /\ seasons'[id] = new /\ \A i \in SeasonIds : i # id => seasons'[i] = seasons[i]
      /\ allocation'[id] = result.shares /\ \A i \in SeasonIds : i # id => allocation'[i] = allocation[i]
  BY <1>1 DEF TypeOK
<1>6. TypeOK'
  BY <1>1, <1>3, <1>4 DEF TypeOK, Acc
<1>7. SeasonsWellFormed'
  BY <1>1, <1>4, <1>5 DEF PoolInv, SeasonsWellFormed, WellFormed
<1>8. TotalsExact'
  <2>1. claimed[id] = {} /\ s.claimed = 0
    BY <1>1, SumEmpty DEF WellFormed, PoolInv, TotalsExact
  <2>2. new.allocated = SumFunctionOnSet(result.shares, Players)
    BY <1>3, <1>4 DEF AddsToTotal
  <2>3. new.claimed = SumFunctionOnSet(result.shares, claimed[id])
    BY <1>4, <2>1, SumEmpty
  <2> QED BY <1>1, <1>5, <2>2, <2>3 DEF PoolInv, TotalsExact
<1>9. \A t \in Tokens : bal[t][Pool] \in Nat
  BY <1>1 DEF TypeOK, Accounts
<1>10. \A t \in Tokens : HeldIn(t, seasons'[id]) = HeldIn(t, s) /\ HeldIn(t, s) \in Int
  BY <1>1, <1>4, <1>5 DEF HeldIn, Season
<1>11. \A t \in Tokens : bal'[t][Pool] = bal[t][Pool] - HeldIn(t, seasons[id]) + HeldIn(t, seasons'[id])
  BY <1>1, <1>9, <1>10
<1>12. PoolExact'
  BY <1>5, <1>6, <1>11, PoolFollows DEF TypeOK
<1> QED BY <1>6, <1>7, <1>8, <1>12 DEF PoolInv

LEMMA FinalizePool ==
  ASSUME PoolInv, NEW o \in Operators, NEW id \in SeasonIds, Finalize(o, id)
  PROVE  PoolInv'
<1> DEFINE s == seasons[id]
           new == [s EXCEPT !.state = "Finalized"]
<1>1. /\ s \in Season /\ s.state = "Open" /\ s.allocated <= s.funded /\ TypeOK /\ WellFormed(id)
      /\ seasons' = [seasons EXCEPT ![id] = new]
      /\ UNCHANGED <<allocation, claimed, operator, bal>>
  BY DEF PoolInv, TypeOK, SeasonsWellFormed, Finalize, CanFinalize
<1>2. /\ new \in Season /\ new.state = "Finalized" /\ new.token = s.token /\ new.funded = s.funded
      /\ new.allocated = s.allocated /\ new.claimed = s.claimed
  BY <1>1 DEF Season, SeasonState
<1> HIDE DEF new
<1>3. seasons'[id] = new /\ \A i \in SeasonIds : i # id => seasons'[i] = seasons[i]
  BY <1>1 DEF TypeOK
<1>4. TypeOK'
  BY <1>1, <1>2 DEF TypeOK
<1>5. SeasonsWellFormed'
  BY <1>1, <1>2, <1>3 DEF PoolInv, SeasonsWellFormed, WellFormed
<1>6. TotalsExact'
  BY <1>1, <1>2, <1>3 DEF PoolInv, TotalsExact
<1>7. \A t \in Tokens : bal[t][Pool] \in Nat
  BY <1>1 DEF TypeOK, Accounts
<1>8. \A t \in Tokens : HeldIn(t, seasons'[id]) = HeldIn(t, s) /\ HeldIn(t, s) \in Int
  BY <1>1, <1>2, <1>3 DEF HeldIn, Season
<1>9. \A t \in Tokens : bal'[t][Pool] = bal[t][Pool] - HeldIn(t, seasons[id]) + HeldIn(t, seasons'[id])
  BY <1>1, <1>7, <1>8
<1>10. PoolExact'
  BY <1>3, <1>4, <1>9, PoolFollows DEF TypeOK
<1> QED BY <1>4, <1>5, <1>6, <1>10 DEF PoolInv

\* What leaves the pool's account for one season leaves that season's books.
LEMMA PaidFromPool ==
  ASSUME PoolInv, NEW id \in SeasonIds, NEW p \in Players, NEW n \in Nat, NEW new \in Season,
         seasons[id].state = "Finalized", Move(seasons[id].token, Pool, p, n),
         seasons' = [seasons EXCEPT ![id] = new], new.token = seasons[id].token,
         new.funded - new.claimed = seasons[id].funded - seasons[id].claimed - n
  PROVE  /\ PoolExact'
         /\ bal' \in [Tokens -> [Accounts -> Nat]]
         /\ bal'[seasons[id].token][p] = bal[seasons[id].token][p] + n
<1> DEFINE s == seasons[id]
           k == s.token
<1>1. /\ s \in Season /\ k \in Tokens /\ TypeOK
      /\ p \in Accounts /\ Pool \in Accounts /\ p # Pool
  BY PoolAssumption DEF PoolInv, TypeOK, SeasonsWellFormed, WellFormed, Accounts
<1>2. s.funded - s.claimed \in Int
  BY <1>1 DEF Season
<1>3. seasons'[id] = new /\ \A i \in SeasonIds : i # id => seasons'[i] = seasons[i]
  BY <1>1 DEF TypeOK
<1>4. /\ bal' \in [Tokens -> [Accounts -> Nat]]
      /\ \A u \in Tokens, a \in Accounts : bal'[u][a] =
              bal[u][a] + (IF u = k /\ a = p THEN n ELSE 0) - (IF u = k /\ a = Pool THEN n ELSE 0)
  BY <1>1, Moved DEF TypeOK
<1>5. \A t \in Tokens : bal[t][Pool] \in Nat /\ bal[t][p] \in Nat
  BY <1>1 DEF TypeOK
<1>6. \A t \in Tokens : HeldIn(t, seasons'[id]) = HeldIn(t, s) - (IF t = k THEN n ELSE 0) /\ HeldIn(t, s) \in Int
  BY <1>2, <1>3 DEF HeldIn
<1>7. \A t \in Tokens : bal'[t][Pool] = bal[t][Pool] - (IF t = k THEN n ELSE 0)
  BY <1>1, <1>4, <1>5
<1>8. \A t \in Tokens : bal'[t][Pool] = bal[t][Pool] - HeldIn(t, seasons[id]) + HeldIn(t, seasons'[id])
  BY <1>5, <1>6, <1>7
<1>9. seasons' \in [SeasonIds -> Season]
  BY <1>1 DEF TypeOK
<1>10. PoolExact'
  BY <1>3, <1>8, <1>9, PoolFollows
<1> QED BY <1>1, <1>4, <1>5, <1>10

LEMMA ClaimPool ==
  ASSUME PoolInv, NEW p \in Players, NEW id \in SeasonIds, Claim(p, id)
  PROVE  PoolInv'
<1> DEFINE s == seasons[id]
           f == allocation[id]
           n == f[p]
           new == [s EXCEPT !.claimed = @ + n]
           C == claimed[id]
<1>1. /\ s \in Season /\ s.state = "Finalized" /\ TypeOK /\ WellFormed(id) /\ p \notin C
      /\ f \in [Players -> Nat] /\ C \in SUBSET Players
      /\ seasons' = [seasons EXCEPT ![id] = new]
      /\ claimed' = [claimed EXCEPT ![id] = C \cup {p}]
      /\ Move(s.token, Pool, p, n)
      /\ UNCHANGED <<allocation, operator>>
  BY DEF PoolInv, TypeOK, SeasonsWellFormed, Claim, CanClaim
<1>2. n \in Nat /\ s.claimed \in Nat /\ s.funded \in Nat
  BY <1>1 DEF Season
<1>3. /\ new \in Season /\ new.state = s.state /\ new.token = s.token /\ new.funded = s.funded
      /\ new.allocated = s.allocated /\ new.claimed = s.claimed + n
  BY <1>1, <1>2 DEF Season
<1> HIDE DEF new
<1>4. /\ seasons'[id] = new /\ \A i \in SeasonIds : i # id => seasons'[i] = seasons[i]
      /\ claimed'[id] = C \cup {p} /\ \A i \in SeasonIds : i # id => claimed'[i] = claimed[i]
  BY <1>1 DEF TypeOK
<1>5. new.funded - new.claimed = s.funded - s.claimed - n
  BY <1>2, <1>3
<1>6. PoolExact' /\ bal' \in [Tokens -> [Accounts -> Nat]]
  BY <1>1, <1>2, <1>3, <1>5, PaidFromPool
<1>7. TypeOK'
  BY <1>1, <1>3, <1>6 DEF TypeOK
<1>8. SeasonsWellFormed'
  BY <1>1, <1>3, <1>4 DEF PoolInv, SeasonsWellFormed, WellFormed
<1>9. TotalsExact'
  <2> HIDE DEF f, n, C
  <2>1. IsFiniteSet(C) /\ Numbers(f, C) /\ f[p] \in Int
    <3>1. IsFiniteSet(C)
      BY <1>1, PoolAssumption, FS_Subset
    <3> QED BY <1>1, <3>1 DEF Numbers
  <2>2. SumFunctionOnSet(f, C \cup {p}) = f[p] + SumFunctionOnSet(f, C)
    BY <1>1, <2>1, SumAdd
  <2>3. s.claimed = SumFunctionOnSet(f, C) /\ s.allocated = SumFunctionOnSet(f, Players)
    BY DEF PoolInv, TotalsExact, f, C
  <2>4. new.claimed = SumFunctionOnSet(f, C \cup {p})
    BY <1>2, <1>3, <2>2, <2>3 DEF n
  <2>5. new.allocated = SumFunctionOnSet(f, Players)
    BY <1>3, <2>3
  <2> QED BY <1>1, <1>4, <2>4, <2>5 DEF PoolInv, TotalsExact, f
<1> QED BY <1>6, <1>7, <1>8, <1>9 DEF PoolInv

LEMMA WithdrawPool ==
  ASSUME PoolInv, NEW p \in Players, NEW id \in SeasonIds, NEW amount \in Amounts,
         WithdrawSurplus(p, id, amount)
  PROVE  PoolInv'
<1> DEFINE s == seasons[id]
           new == [s EXCEPT !.funded = @ - amount]
<1>1. /\ s \in Season /\ s.state = "Finalized" /\ TypeOK /\ WellFormed(id)
      /\ amount \in Nat /\ amount <= s.funded - s.allocated
      /\ seasons' = [seasons EXCEPT ![id] = new]
      /\ Move(s.token, Pool, p, amount)
      /\ UNCHANGED <<allocation, claimed, operator>>
  BY PoolAssumption DEF PoolInv, TypeOK, SeasonsWellFormed, WithdrawSurplus, Surplus, Withdrawn
<1>2. s.claimed \in Nat /\ s.funded \in Nat /\ s.allocated \in Nat /\ s.funded - amount \in Nat
  BY <1>1 DEF Season
<1>3. /\ new \in Season /\ new.state = s.state /\ new.token = s.token /\ new.funded = s.funded - amount
      /\ new.allocated = s.allocated /\ new.claimed = s.claimed
  BY <1>1, <1>2 DEF Season
<1> HIDE DEF new
<1>4. seasons'[id] = new /\ \A i \in SeasonIds : i # id => seasons'[i] = seasons[i]
  BY <1>1 DEF TypeOK
<1>5. new.funded - new.claimed = s.funded - s.claimed - amount
  BY <1>1, <1>2, <1>3
<1>6. PoolExact' /\ bal' \in [Tokens -> [Accounts -> Nat]]
  BY <1>1, <1>3, <1>5, PaidFromPool
<1>7. TypeOK'
  BY <1>1, <1>3, <1>6 DEF TypeOK
<1>8. SeasonsWellFormed'
  <2>1. new.allocated <= new.funded
    BY <1>1, <1>2, <1>3
  <2> QED BY <1>1, <1>3, <1>4, <2>1 DEF PoolInv, SeasonsWellFormed, WellFormed
<1>9. TotalsExact'
  BY <1>1, <1>3, <1>4 DEF PoolInv, TotalsExact
<1> QED BY <1>6, <1>7, <1>8, <1>9 DEF PoolInv

LEMMA PoolStep == PoolInv /\ [Next]_vars => PoolInv'
<1> SUFFICES ASSUME PoolInv, [Next]_vars PROVE PoolInv'
  OBVIOUS
<1>1. CASE \E next \in Operators : SetOperator(next)
  BY <1>1 DEF SetOperator, PoolInv, TypeOK, SeasonsWellFormed, WellFormed, TotalsExact, PoolExact
<1>2. CASE \E id \in SeasonIds, t \in Tokens : CreateSeason(id, t)
  BY <1>2, CreatePool
<1>3. CASE \E p \in Players, id \in SeasonIds, amount \in Amounts : Fund(p, id, amount)
  BY <1>3, FundPool
<1>4. CASE \E o \in Operators, id \in SeasonIds, batch \in Batches : SetAllocations(o, id, batch)
  BY <1>4, AllocatePool
<1>5. CASE \E o \in Operators, id \in SeasonIds : Finalize(o, id)
  BY <1>5, FinalizePool
<1>6. CASE \E p \in Players, id \in SeasonIds : Claim(p, id)
  BY <1>6, ClaimPool
<1>7. CASE \E p \in Players, id \in SeasonIds, amount \in Amounts : WithdrawSurplus(p, id, amount)
  BY <1>7, WithdrawPool
<1>8. CASE UNCHANGED vars
  BY <1>8 DEF vars, PoolInv, TypeOK, SeasonsWellFormed, WellFormed, TotalsExact, PoolExact
<1> QED BY <1>1, <1>2, <1>3, <1>4, <1>5, <1>6, <1>7, <1>8 DEF Next

LEMMA PoolInvariant == Spec => []PoolInv
BY InitPool, PoolStep, PTL DEF Spec

\* Every variable of the pool keeps its type: no account is overdrawn, and no
\* total of a season falls below nothing.
THEOREM PoolTyped == Spec => []TypeOK
<1>1. PoolInv => TypeOK
  BY DEF PoolInv
<1> QED BY <1>1, PoolInvariant, PTL

\* However often allocations were overwritten, and however often a player occurs
\* in one batch, a season's running totals are the sums they stand for.
THEOREM TotalsAddUp == Spec => []TotalsExact
<1>1. PoolInv => TotalsExact
  BY DEF PoolInv
<1> QED BY <1>1, PoolInvariant, PTL

\* One season never spends another's money.
THEOREM PoolIsExact == Spec => []PoolExact
<1>1. PoolInv => PoolExact
  BY DEF PoolInv
<1> QED BY <1>1, PoolInvariant, PTL

\* A finalized season can pay every winner still to come, in any order, whatever
\* surplus was taken out and whatever other seasons share its token.
THEOREM EveryPrizeCovered == Spec => []PrizesCovered
<1>1. PoolInv => PrizesCovered
  <2> SUFFICES ASSUME PoolInv, NEW id \in SeasonIds, seasons[id].state = "Finalized"
               PROVE  LET s == seasons[id] IN
                      /\ SumFunctionOnSet(allocation[id], Players \ claimed[id]) <= s.funded - s.claimed
                      /\ s.funded - s.claimed <= bal[s.token][Pool]
    BY DEF PrizesCovered
  <2> DEFINE s == seasons[id]
             rest == SumFunctionOnSet(allocation[id], Players \ claimed[id])
  <2>1. /\ s.allocated = s.claimed + rest
        /\ rest \in Nat /\ s.claimed \in Nat /\ s.allocated \in Nat /\ s.funded \in Nat
    BY Totals DEF PoolInv
  <2>2. s.allocated <= s.funded
    BY DEF PoolInv, SeasonsWellFormed, WellFormed
  <2>3. s.funded - s.claimed <= bal[s.token][Pool]
    BY Covered
  <2> HIDE DEF rest
  <2>4. rest <= s.funded - s.claimed
    BY <2>1, <2>2
  <2> QED BY <2>3, <2>4 DEF rest
<1> QED BY <1>1, PoolInvariant, PTL

\* Nobody is paid a prize twice.
THEOREM NoPrizeTwice == Spec => PaidOnce
<1> DEFINE Paid == \A id \in SeasonIds :
       LET s == seasons[id] IN
       seasons'[id].claimed # s.claimed =>
         \E p \in Players \ claimed[id] :
           /\ claimed'[id] = claimed[id] \cup {p}
           /\ bal'[s.token][p] = bal[s.token][p] + allocation[id][p]
<1>1. PoolInv /\ [Next]_vars => [Paid]_vars
  <2> SUFFICES ASSUME PoolInv, [Next]_vars, NEW i \in SeasonIds,
                      seasons'[i].claimed # seasons[i].claimed
               PROVE  \E p \in Players \ claimed[i] :
                        /\ claimed'[i] = claimed[i] \cup {p}
                        /\ bal'[seasons[i].token][p] = bal[seasons[i].token][p] + allocation[i][p]
    OBVIOUS
  <2>1. seasons \in [SeasonIds -> Season] /\ TypeOK
    BY DEF PoolInv, TypeOK
  <2>2. CASE \E id \in SeasonIds, t \in Tokens : CreateSeason(id, t)
    <3>1. PICK id \in SeasonIds, t \in Tokens : CreateSeason(id, t)
      BY <2>2
    <3>2. seasons[id] = NoSeason
      BY <3>1 DEF CreateSeason, PoolInv, SeasonsWellFormed, WellFormed
    <3> QED BY <2>1, <3>1, <3>2 DEF CreateSeason, NoSeason
  <2>3. CASE \E p \in Players, id \in SeasonIds, amount \in Amounts : Fund(p, id, amount)
    BY <2>1, <2>3 DEF Fund, Season
  <2>4. CASE \E o \in Operators, id \in SeasonIds, batch \in Batches : SetAllocations(o, id, batch)
    BY <2>1, <2>4 DEF SetAllocations, Season
  <2>5. CASE \E o \in Operators, id \in SeasonIds : Finalize(o, id)
    BY <2>1, <2>5 DEF Finalize, Season
  <2>6. CASE \E p \in Players, id \in SeasonIds, amount \in Amounts : WithdrawSurplus(p, id, amount)
    BY <2>1, <2>6 DEF WithdrawSurplus, Withdrawn, Season
  <2>7. CASE (\E next \in Operators : SetOperator(next)) \/ UNCHANGED vars
    BY <2>7 DEF SetOperator, vars
  <2>8. CASE \E p \in Players, id \in SeasonIds : Claim(p, id)
    <3>1. PICK p \in Players, id \in SeasonIds : Claim(p, id)
      BY <2>8
    <3>2. i = id
      BY <2>1, <3>1 DEF Claim
    <3>3. /\ p \notin claimed[i] /\ seasons[i].state = "Finalized"
          /\ claimed' = [claimed EXCEPT ![i] = @ \cup {p}]
          /\ Move(seasons[i].token, Pool, p, allocation[i][p])
      BY <3>1, <3>2 DEF Claim, CanClaim
    <3>4. claimed'[i] = claimed[i] \cup {p}
      BY <2>1, <3>3 DEF TypeOK
    <3>5. /\ seasons[i].token \in Tokens /\ allocation[i][p] \in Nat
          /\ Pool \in Accounts /\ p \in Accounts /\ p # Pool /\ bal \in [Tokens -> [Accounts -> Nat]]
      BY <2>1, <3>3, PoolAssumption DEF PoolInv, SeasonsWellFormed, WellFormed, TypeOK, Accounts
    <3>6. bal'[seasons[i].token][p] = bal[seasons[i].token][p] + allocation[i][p]
      <4> DEFINE k == seasons[i].token
                 n == allocation[i][p]
      <4>1. bal[k][p] \in Nat
        BY <3>5
      <4>2. Move(k, Pool, p, n)
        BY <3>3
      <4>3. k \in Tokens /\ n \in Nat
        BY <3>5
      <4>4. Pool \in Accounts /\ p \in Accounts /\ Pool # p
        BY <3>5
      <4>5. bal \in [Tokens -> [Accounts -> Nat]]
        BY <3>5
      <4> HIDE DEF k, n
      <4>6. \A u \in Tokens, a \in Accounts : bal'[u][a] =
              bal[u][a] + (IF u = k /\ a = p THEN n ELSE 0) - (IF u = k /\ a = Pool THEN n ELSE 0)
        BY <4>2, <4>3, <4>4, <4>5, Moved
      <4>7. bal'[k][p] = bal[k][p] + n
        BY <4>1, <4>3, <4>4, <4>6
      <4> QED BY <4>7 DEF k, n
    <3> QED BY <3>3, <3>4, <3>6
  <2> QED BY <2>2, <2>3, <2>4, <2>5, <2>6, <2>7, <2>8 DEF Next
<1> HIDE DEF Paid
<1>2. Spec => [][Paid]_vars
  BY <1>1, PoolInvariant, PTL DEF Spec
<1> QED BY <1>2 DEF PaidOnce, Paid

-----------------------------------------------------------------------------
(* The claim panel.                                                         *)

\* What the pool owes a winner, and the owner of a surplus, it holds.
LEMMA OwedIsHeld ==
  ASSUME PoolInv, NEW id \in SeasonIds, seasons[id].state = "Finalized"
  PROVE  /\ \A p \in Players \ claimed[id] : allocation[id][p] <= bal[seasons[id].token][Pool]
         /\ Surplus(seasons[id]) <= bal[seasons[id].token][Pool]
<1> DEFINE s == seasons[id]
           f == allocation[id]
           S == Players \ claimed[id]
           rest == SumFunctionOnSet(f, S)
           held == bal[s.token][Pool]
<1>1. /\ s.allocated = s.claimed + rest
      /\ rest \in Nat /\ s.claimed \in Nat /\ s.allocated \in Nat /\ s.funded \in Nat
  BY Totals DEF PoolInv
<1>2. s.allocated <= s.funded /\ s.token \in Tokens
  BY DEF PoolInv, SeasonsWellFormed, WellFormed
<1>3. s.funded - s.claimed <= held /\ held \in Nat
  BY <1>2, Covered DEF PoolInv, TypeOK, Accounts
<1>4. f \in [Players -> Nat]
  BY DEF PoolInv, TypeOK
<1>5. Numbers(f, S)
  <2>1. IsFiniteSet(S)
    BY PoolAssumption, FS_Difference
  <2> QED BY <1>4, <2>1 DEF Numbers
<1> HIDE DEF f, rest, s, held
<1>6. rest <= held /\ s.funded - s.allocated <= held
  BY <1>1, <1>2, <1>3
<1>7. ASSUME NEW p \in S PROVE f[p] <= held
  <2>1. Numbers(f, S \ {p}) /\ rest = f[p] + SumFunctionOnSet(f, S \ {p})
    BY <1>5, SumPick DEF rest
  <2>2. SumFunctionOnSet(f, S \ {p}) \in Nat /\ f[p] \in Nat
    BY <1>4, <2>1, SumOfNaturals DEF Numbers
  <2> QED BY <1>3, <1>6, <2>1, <2>2
<1> QED BY <1>6, <1>7 DEF f, s, held, Surplus

\* No claim and no withdrawal that the guards of the pool let through is refused
\* for want of money: the transfers of claim and withdrawSurplus never revert.
THEOREM PoolCanPay ==
  Spec => [](\A id \in SeasonIds :
               LET s == seasons[id] IN
               /\ \A p \in Players : CanClaim(p, id) => allocation[id][p] <= bal[s.token][Pool]
               /\ s.state = "Finalized" => Surplus(s) <= bal[s.token][Pool])
<1>1. PoolInv => \A id \in SeasonIds :
               LET s == seasons[id] IN
               /\ \A p \in Players : CanClaim(p, id) => allocation[id][p] <= bal[s.token][Pool]
               /\ s.state = "Finalized" => Surplus(s) <= bal[s.token][Pool]
  BY OwedIsHeld DEF CanClaim
<1> QED BY <1>1, PoolInvariant, PTL

\* A prize of n on offer.
Offer(n) == [ClaimPhase("claimable") EXCEPT !.amount = n]

\* What load makes of reads that all answered.
LEMMA Loaded ==
  ASSUME NEW p, NEW r
  PROVE  LET none == r.state = "None" \/ r.allocation = 0
             loaded == LoadClaim({p}, {r}) IN
         /\ none => loaded = ClaimPhase("none")
         /\ ~none /\ r.claimed => loaded = ClaimPhase("claimed")
         /\ ~none /\ ~r.claimed /\ r.state # "Finalized" => loaded = ClaimPhase("pending")
         /\ ~none /\ ~r.claimed /\ r.state = "Finalized" /\ r.claimable > 0
              => loaded = Offer(r.claimable)
         /\ ~none /\ ~r.claimed /\ r.state = "Finalized" /\ ~(r.claimable > 0)
              => loaded = ClaimPhase("claimed")
BY DEF LoadClaim, Offer

LEMMA PanelTexts ==
  /\ ClaimPanel(ClaimPhase("none")) = {}
  /\ ClaimPanel(ClaimPhase("claimed")) = {[text |-> "claimed", amount |-> 0, button |-> {}]}
  /\ ClaimPanel(ClaimPhase("pending")) = {[text |-> "pending", amount |-> 0, button |-> {}]}
  /\ \A n \in Nat : ClaimPanel(Offer(n))
                      = {[text |-> "claimable", amount |-> n, button |-> {"claim prize"}]}
BY DEF ClaimPanel, ClaimPhase, Offer

\* The panel of a season that has no winners yet, and of one that has.
LEMMA PanelShows ==
  ASSUME TypeOK, SeasonsWellFormed, NEW id \in SeasonIds, NEW p \in Players
  PROVE  PanelOf(p, id) =
           IF seasons[id].state = "None" \/ allocation[id][p] = 0 THEN {}
           ELSE IF p \in claimed[id] THEN {[text |-> "claimed", amount |-> 0, button |-> {}]}
           ELSE IF seasons[id].state # "Finalized"
             THEN {[text |-> "pending", amount |-> 0, button |-> {}]}
           ELSE {[text |-> "claimable", amount |-> allocation[id][p], button |-> {"claim prize"}]}
<1> DEFINE r == SeasonReads(p, id)
           none == seasons[id].state = "None" \/ allocation[id][p] = 0
<1>1. /\ r.state = seasons[id].state /\ r.allocation = allocation[id][p]
      /\ r.claimed <=> p \in claimed[id]
      /\ r.claimable = Claimable(p, id)
  BY DEF SeasonReads
<1>2. allocation[id][p] \in Nat
  BY DEF TypeOK
<1>3. PanelOf(p, id) = ClaimPanel(LoadClaim({p}, {r}))
  BY DEF PanelOf
<1> HIDE DEF r
<1>4. CASE none
  BY <1>1, <1>3, <1>4, Loaded, PanelTexts
<1>5. CASE ~none /\ p \in claimed[id]
  BY <1>1, <1>3, <1>5, Loaded, PanelTexts
<1>6. CASE ~none /\ p \notin claimed[id] /\ seasons[id].state # "Finalized"
  BY <1>1, <1>3, <1>6, Loaded, PanelTexts
<1>7. CASE ~none /\ p \notin claimed[id] /\ seasons[id].state = "Finalized"
  <2>1. r.claimable = allocation[id][p] /\ r.claimable > 0
    BY <1>1, <1>2, <1>7 DEF Claimable
  <2>2. LoadClaim({p}, {r}) = Offer(allocation[id][p])
    BY <1>1, <1>7, <2>1, Loaded
  <2> QED BY <1>2, <1>3, <1>7, <2>2, PanelTexts
<1> QED BY <1>4, <1>5, <1>6, <1>7

\* What the panel offers, the pool pays, and the other way.
THEOREM EveryPrizeGranted == Spec => []PrizesAreGranted
<1>1. ASSUME PoolInv, NEW id \in SeasonIds, NEW p \in Players
      PROVE  /\ (\E shown \in PanelOf(p, id) : "claim prize" \in shown.button) <=>
                   CanClaim(p, id) /\ bal[seasons[id].token][Pool] >= allocation[id][p]
             /\ \A shown \in PanelOf(p, id) :
                  /\ "claim prize" \in shown.button => shown.amount = allocation[id][p]
                  /\ shown.text = "claimed" <=> p \in claimed[id]
  <2>1. TypeOK /\ SeasonsWellFormed /\ WellFormed(id) /\ allocation[id][p] \in Nat
    BY <1>1 DEF PoolInv, SeasonsWellFormed, TypeOK
  <2>2. CASE seasons[id].state = "None" \/ allocation[id][p] = 0
    <3>1. PanelOf(p, id) = {} /\ ~CanClaim(p, id)
      BY <2>1, <2>2, PanelShows DEF CanClaim
    <3> QED BY <3>1
  <2>3. CASE seasons[id].state = "Open" /\ allocation[id][p] # 0
    <3>1. p \notin claimed[id]
      BY <2>1, <2>3 DEF WellFormed
    <3>2. PanelOf(p, id) = {[text |-> "pending", amount |-> 0, button |-> {}]} /\ ~CanClaim(p, id)
      BY <2>1, <2>3, <3>1, PanelShows DEF CanClaim
    <3> QED BY <3>1, <3>2
  <2>4. CASE seasons[id].state = "Finalized" /\ allocation[id][p] # 0
    <3>1. CASE p \in claimed[id]
      <4>1. PanelOf(p, id) = {[text |-> "claimed", amount |-> 0, button |-> {}]} /\ ~CanClaim(p, id)
        BY <2>1, <2>4, <3>1, PanelShows DEF CanClaim
      <4> QED BY <3>1, <4>1
    <3>2. CASE p \notin claimed[id]
      <4>1. PanelOf(p, id) = {[text |-> "claimable", amount |-> allocation[id][p],
                               button |-> {"claim prize"}]}
        BY <2>1, <2>4, <3>2, PanelShows
      <4>2. allocation[id][p] <= bal[seasons[id].token][Pool] /\ bal[seasons[id].token][Pool] \in Nat
        BY <1>1, <2>1, <2>4, <3>2, OwedIsHeld DEF WellFormed, TypeOK, Accounts
      <4>3. CanClaim(p, id) /\ bal[seasons[id].token][Pool] >= allocation[id][p]
        BY <2>1, <2>4, <3>2, <4>2 DEF CanClaim
      <4>4. /\ \A shown \in PanelOf(p, id) : shown.text # "claimed" /\ shown.amount = allocation[id][p]
            /\ \E shown \in PanelOf(p, id) : "claim prize" \in shown.button
        <5> DEFINE x == [text |-> "claimable", amount |-> allocation[id][p], button |-> {"claim prize"}]
        <5>1. x.text # "claimed" /\ x.amount = allocation[id][p] /\ "claim prize" \in x.button
          OBVIOUS
        <5>2. PanelOf(p, id) = {x}
          BY <4>1
        <5> HIDE DEF x
        <5> QED BY <5>1, <5>2
      <4> QED BY <3>2, <4>3, <4>4
    <3> QED BY <3>1, <3>2
  <2>5. seasons[id].state \in SeasonState
    BY <2>1 DEF TypeOK, Season
  <2> QED BY <2>2, <2>3, <2>4, <2>5 DEF SeasonState
<1>2. PoolInv => PrizesAreGranted
  BY <1>1 DEF PrizesAreGranted
<1> QED BY <1>2, PoolInvariant, PTL

\* A final season stays so, with its allocations; claims are only added.
LEMMA FinalStays ==
  ASSUME PoolInv, [Next]_vars, NEW id \in SeasonIds, seasons[id].state = "Finalized"
  PROVE  /\ seasons'[id].state = "Finalized" /\ allocation'[id] = allocation[id]
         /\ claimed[id] \subseteq claimed'[id]
<1>1. seasons \in [SeasonIds -> Season] /\ TypeOK
  BY DEF PoolInv, TypeOK
<1>2. CASE \E i \in SeasonIds, t \in Tokens : CreateSeason(i, t)
  BY <1>1, <1>2 DEF CreateSeason
<1>3. CASE \E p \in Players, i \in SeasonIds, amount \in Amounts : Fund(p, i, amount)
  BY <1>1, <1>3 DEF Fund
<1>4. CASE \E o \in Operators, i \in SeasonIds, batch \in Batches : SetAllocations(o, i, batch)
  BY <1>1, <1>4 DEF SetAllocations, CanAllocate, TypeOK
<1>5. CASE \E o \in Operators, i \in SeasonIds : Finalize(o, i)
  BY <1>1, <1>5 DEF Finalize, CanFinalize
<1>6. CASE \E p \in Players, i \in SeasonIds : Claim(p, i)
  BY <1>1, <1>6 DEF Claim, TypeOK, Season
<1>7. CASE \E p \in Players, i \in SeasonIds, amount \in Amounts : WithdrawSurplus(p, i, amount)
  BY <1>1, <1>7 DEF WithdrawSurplus, Withdrawn, Season
<1>8. CASE (\E next \in Operators : SetOperator(next)) \/ UNCHANGED vars
  BY <1>8 DEF SetOperator, vars
<1> QED BY <1>2, <1>3, <1>4, <1>5, <1>6, <1>7, <1>8 DEF Next

\* The panel is right though its last read is of a later state than the others.
THEOREM PanelStaysRight == Spec => PanelOutlivesAwait
<1> DEFINE Right == \A id \in SeasonIds, p \in Players :
       seasons[id].state = "Finalized" /\ allocation[id][p] # 0 =>
         LET reads == [SeasonReads(p, id) EXCEPT !.claimable = Claimable(p, id)']
         IN  ClaimPanel(LoadClaim({p}, {reads})) = PanelOf(p, id)'
<1>1. PoolInv /\ PoolInv' /\ [Next]_vars => [Right]_vars
  <2> SUFFICES ASSUME PoolInv, PoolInv', [Next]_vars, NEW id \in SeasonIds, NEW p \in Players,
                      seasons[id].state = "Finalized", allocation[id][p] # 0
               PROVE  ClaimPanel(LoadClaim({p}, {[SeasonReads(p, id) EXCEPT
                                                    !.claimable = Claimable(p, id)']}))
                        = PanelOf(p, id)'
    OBVIOUS
  <2>1. /\ seasons'[id].state = "Finalized" /\ allocation'[id] = allocation[id]
        /\ claimed[id] \subseteq claimed'[id]
    BY FinalStays
  <2>2. allocation[id][p] \in Nat \ {0}
    BY DEF PoolInv, TypeOK
  <2> DEFINE now == [SeasonReads(p, id) EXCEPT !.claimable = Claimable(p, id)']
             fresh == SeasonReads(p, id)'
  <2>3. Claimable(p, id)' = IF p \in claimed'[id] THEN 0 ELSE allocation[id][p]
    BY <2>1 DEF Claimable
  <2>4. /\ now.state = "Finalized" /\ now.allocation = allocation[id][p]
        /\ now.claimed <=> p \in claimed[id]
        /\ now.claimable = Claimable(p, id)'
    BY DEF SeasonReads
  <2>5. /\ fresh.state = "Finalized" /\ fresh.allocation = allocation[id][p]
        /\ fresh.claimed <=> p \in claimed'[id]
        /\ fresh.claimable = Claimable(p, id)'
    BY <2>1 DEF SeasonReads
  <2>6. PanelOf(p, id)' = ClaimPanel(LoadClaim({p}, {fresh}))
    BY DEF PanelOf, ClaimPanel, LoadClaim, ClaimPhase
  <2> HIDE DEF now, fresh
  <2>7. CASE p \in claimed[id]
    <3>1. p \in claimed'[id]
      BY <2>1, <2>7
    <3>2. /\ LoadClaim({p}, {now}) = ClaimPhase("claimed")
          /\ LoadClaim({p}, {fresh}) = ClaimPhase("claimed")
      BY <2>2, <2>4, <2>5, <2>7, <3>1, Loaded
    <3> QED BY <2>6, <3>2 DEF now
  <2>8. CASE p \notin claimed[id] /\ p \in claimed'[id]
    <3>1. LoadClaim({p}, {fresh}) = ClaimPhase("claimed")
      BY <2>2, <2>5, <2>8, Loaded
    <3>2. /\ now.state = "Finalized" /\ now.allocation # 0 /\ ~now.claimed
          /\ ~(now.claimable > 0)
      BY <2>2, <2>3, <2>4, <2>8
    <3>3. LoadClaim({p}, {now}) = ClaimPhase("claimed")
      BY <3>2, Loaded
    <3> QED BY <2>6, <3>1, <3>3 DEF now
  <2>9. CASE p \notin claimed[id] /\ p \notin claimed'[id]
    <3>1. /\ now.state = "Finalized" /\ now.allocation # 0 /\ ~now.claimed /\ now.claimable > 0
          /\ fresh.state = "Finalized" /\ fresh.allocation # 0 /\ ~fresh.claimed
          /\ fresh.claimable > 0 /\ now.claimable = fresh.claimable
      BY <2>2, <2>3, <2>4, <2>5, <2>9
    <3>2. /\ LoadClaim({p}, {now}) = Offer(now.claimable)
          /\ LoadClaim({p}, {fresh}) = Offer(fresh.claimable)
      BY <3>1, Loaded
    <3> QED BY <2>6, <3>1, <3>2 DEF now
  <2> QED BY <2>7, <2>8, <2>9
<1> HIDE DEF Right
<1>2. Spec => [][Right]_vars
  BY <1>1, PoolInvariant, PTL DEF Spec
<1> QED BY <1>2 DEF Right, PanelOutlivesAwait
=============================================================================
