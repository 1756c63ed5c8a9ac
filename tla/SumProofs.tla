----------------------------- MODULE SumProofs -----------------------------
(***************************************************************************)
(* Sums over finite sets: what SumFunctionOnSet returns.                   *)
(*                                                                         *)
(* Induction is by a smallest counterexample: inclusion is well-founded on *)
(* the subsets of a finite set, so a set of subsets with a member has a    *)
(* member that includes no other (SmallestSet).                            *)
(***************************************************************************)
EXTENDS Integers, FiniteSets, FiniteSetsExt, FiniteSetTheorems, WellFoundedInduction, TLAPS

LEMMA SmallestSet ==
  ASSUME NEW S, IsFiniteSet(S), NEW T, T \subseteq SUBSET S, T # {}
  PROVE  \E s \in T : \A u \in T : u \subseteq s => u = s
<1>1. IsWellFoundedOn(StrictSubsetOrdering(S), SUBSET S)
  BY FS_StrictSubsetOrderingWellFounded, FS_FiniteSubsetsOfFinite
<1>2. \E x \in T : \A y \in T : <<y, x>> \notin StrictSubsetOrdering(S)
  BY <1>1, WFMin
<1> QED BY <1>2 DEF StrictSubsetOrdering

\* Of the numbers that fail, a least one.
LEMMA LeastNumber ==
  ASSUME NEW m \in Nat, NEW N \in SUBSET (0 .. m), N # {}
  PROVE  \E n \in N : \A k \in N : n <= k
<1> DEFINE S == 0 .. m
           T == {0 .. n : n \in N}
<1>1. \A n \in N : n \in Nat /\ 0 .. n \in SUBSET S
  OBVIOUS
<1>2. T \subseteq SUBSET S /\ T # {}
  BY <1>1
<1>3. IsFiniteSet(S)
  BY FS_Interval
<1> HIDE DEF T, S
<1>4. PICK s \in T : \A u \in T : u \subseteq s => u = s
  BY <1>2, <1>3, SmallestSet
<1>5. PICK n \in N : s = 0 .. n
  BY <1>4 DEF T
<1>6. ASSUME NEW k \in N, ~(n <= k) PROVE FALSE
  <2>1. k \in Nat /\ n \in Nat /\ k < n
    BY <1>1, <1>6
  <2>2. 0 .. k \in T /\ 0 .. k \subseteq 0 .. n /\ n \in 0 .. n /\ n \notin 0 .. k
    BY <2>1 DEF T
  <2>3. 0 .. k = 0 .. n
    BY <1>4, <1>5, <2>2
  <2> QED BY <2>2, <2>3
<1> QED BY <1>6

-----------------------------------------------------------------------------
(* The recursion that SumFunctionOnSet stands for, which takes the elements *)
(* in the order of CHOOSE, and what it does in any order.                   *)
AddsUp(g, f, S) ==
  g = [s \in SUBSET S |-> IF s = {} THEN 0
                          ELSE LET x == CHOOSE x \in s : TRUE IN f[x] + g[s \ {x}]]

Sums(g, f, S) ==
  /\ g \in [SUBSET S -> Int]
  /\ g[{}] = 0
  /\ \A s \in SUBSET S : \A x \in s : g[s] = f[x] + g[s \ {x}]

Numbers(f, S) == IsFiniteSet(S) /\ \A x \in S : f[x] \in Int

LEMMA SumIsChosen ==
  ASSUME NEW f, NEW S
  PROVE  SumFunctionOnSet(f, S) = (CHOOSE g : AddsUp(g, f, S))[S]
BY DEF SumFunctionOnSet, FoldFunctionOnSet, MapThenFoldSet, AddsUp

LEMMA SumsAddUp ==
  ASSUME NEW g, NEW f, NEW S, Sums(g, f, S)
  PROVE  AddsUp(g, f, S)
<1> DEFINE h == [s \in SUBSET S |-> IF s = {} THEN 0
                          ELSE LET x == CHOOSE x \in s : TRUE IN f[x] + g[s \ {x}]]
<1>1. ASSUME NEW s \in SUBSET S PROVE g[s] = h[s]
  <2>1. CASE s = {}
    BY <2>1 DEF Sums
  <2>2. CASE s # {}
    <3>1. (CHOOSE x \in s : TRUE) \in s
      BY <2>2
    <3> QED BY <2>2, <3>1 DEF Sums
  <2> QED BY <2>1, <2>2
<1>2. g = [s \in SUBSET S |-> g[s]]
  BY DEF Sums
<1>3. g = h
  BY <1>1, <1>2
<1> QED BY <1>3 DEF AddsUp

\* There is only one.
LEMMA OneAddsUp ==
  ASSUME NEW g, NEW h, NEW f, NEW S, IsFiniteSet(S), AddsUp(g, f, S), AddsUp(h, f, S)
  PROVE  g = h
<1> DEFINE T == {s \in SUBSET S : g[s] # h[s]}
<1>1. CASE T # {}
  <2>1. PICK s \in T : \A u \in T : u \subseteq s => u = s
    <3> HIDE DEF T
    <3>1. T \subseteq SUBSET S
      BY DEF T
    <3> QED BY <1>1, <3>1, SmallestSet
  <2> DEFINE x == CHOOSE x \in s : TRUE
  <2>2. CASE s = {}
    BY <2>1, <2>2 DEF AddsUp
  <2>3. CASE s # {}
    <3>1. x \in s /\ s \ {x} \in SUBSET S /\ s \ {x} # s /\ s \ {x} \subseteq s
      BY <2>3
    <3>2. g[s \ {x}] = h[s \ {x}]
      BY <2>1, <3>1
    <3>3. g[s] = f[x] + g[s \ {x}] /\ h[s] = f[x] + h[s \ {x}]
      BY <2>3 DEF AddsUp
    <3> QED BY <2>1, <3>2, <3>3
  <2> QED BY <2>2, <2>3
<1>2. CASE T = {}
  <2>1. \A s \in SUBSET S : g[s] = h[s]
    BY <1>2
  <2>2. /\ g = [s \in SUBSET S |-> g[s]]
        /\ h = [s \in SUBSET S |-> h[s]]
    BY DEF AddsUp
  <2> QED BY <2>1, <2>2
<1> QED BY <1>1, <1>2

LEMMA SumsExist ==
  ASSUME NEW f, NEW S, Numbers(f, S)
  PROVE  \E g : Sums(g, f, S)
<1> DEFINE T == {s \in SUBSET S : ~ \E g : Sums(g, f, s)}
<1>1. SUFFICES ASSUME T # {} PROVE FALSE
  OBVIOUS
<1>2. PICK s \in T : \A u \in T : u \subseteq s => u = s
  <2>1. T \subseteq SUBSET S
    OBVIOUS
  <2> HIDE DEF T
  <2> QED BY <1>1, <2>1, SmallestSet DEF Numbers
<1>3. s \in SUBSET S /\ ~ \E g : Sums(g, f, s)
  BY <1>2
<1>4. CASE s = {}
  <2> DEFINE e == [u \in SUBSET s |-> 0]
  <2>1. Sums(e, f, s)
    BY <1>4 DEF Sums
  <2> QED BY <1>3, <2>1
<1>5. CASE s # {}
  <2>1. PICK y \in s : TRUE
    BY <1>5
  <2>2. PICK h : Sums(h, f, s \ {y})
    <3>1. s \ {y} \in SUBSET S /\ s \ {y} # s /\ s \ {y} \subseteq s
      BY <1>3, <2>1
    <3> QED BY <1>2, <3>1
  <2>3. /\ f[y] \in Int
        /\ h \in [SUBSET (s \ {y}) -> Int] /\ h[{}] = 0
        /\ \A u \in SUBSET (s \ {y}) : \A x \in u : h[u] = f[x] + h[u \ {x}]
    BY <1>3, <2>1, <2>2 DEF Numbers, Sums
  <2> DEFINE g == [u \in SUBSET s |-> IF y \in u THEN f[y] + h[u \ {y}] ELSE h[u]]
  <2>4. g \in [SUBSET s -> Int] /\ g[{}] = 0
    <3>1. ASSUME NEW u \in SUBSET s
          PROVE  (y \in u => u \ {y} \in SUBSET (s \ {y})) /\ (y \notin u => u \in SUBSET (s \ {y}))
      OBVIOUS
    <3> QED BY <2>3, <3>1
  <2>5. ASSUME NEW u \in SUBSET s, NEW x \in u PROVE g[u] = f[x] + g[u \ {x}]
    <3>1. u \ {x} \in SUBSET s
      OBVIOUS
    <3>2. CASE y \notin u
      <4>1. u \in SUBSET (s \ {y}) /\ u \ {x} \in SUBSET (s \ {y}) /\ y \notin u \ {x}
        BY <3>2
      <4>2. g[u] = h[u] /\ g[u \ {x}] = h[u \ {x}]
        BY <3>1, <3>2, <4>1
      <4> QED BY <2>3, <4>1, <4>2
    <3>3. CASE y = x
      <4>1. g[u] = f[y] + h[u \ {y}] /\ g[u \ {x}] = h[u \ {x}]
        BY <3>1, <3>3
      <4> QED BY <3>3, <4>1
    <3>4. CASE y \in u /\ y # x
      <4>1. /\ u \ {y} \in SUBSET (s \ {y}) /\ x \in u \ {y}
            /\ (u \ {y}) \ {x} = (u \ {x}) \ {y}
            /\ y \in u \ {x} /\ (u \ {x}) \ {y} \in SUBSET (s \ {y})
        BY <3>4
      <4>2. g[u] = f[y] + h[u \ {y}] /\ g[u \ {x}] = f[y] + h[(u \ {x}) \ {y}]
        BY <3>1, <3>4, <4>1
      <4>3. h[u \ {y}] = f[x] + h[(u \ {x}) \ {y}]
        BY <2>3, <4>1
      <4>4. f[x] \in Int /\ h[(u \ {x}) \ {y}] \in Int
        BY <1>3, <2>3, <4>1 DEF Numbers
      <4> HIDE DEF g
      <4> QED BY <2>3, <4>2, <4>3, <4>4
    <3> QED BY <3>2, <3>3, <3>4
  <2>6. Sums(g, f, s)
    <3> HIDE DEF g
    <3> QED BY <2>4, <2>5 DEF Sums
  <2> QED BY <1>3, <2>6
<1> QED BY <1>4, <1>5

\* Hence the sum is the value of any such function.
LEMMA SumIs ==
  ASSUME NEW f, NEW S, Numbers(f, S), NEW g, Sums(g, f, S)
  PROVE  SumFunctionOnSet(f, S) = g[S]
<1>1. AddsUp(g, f, S)
  BY SumsAddUp
<1>2. AddsUp(CHOOSE h : AddsUp(h, f, S), f, S)
  BY <1>1
<1>3. (CHOOSE h : AddsUp(h, f, S)) = g
  BY <1>1, <1>2, OneAddsUp DEF Numbers
<1> QED BY <1>3, SumIsChosen

-----------------------------------------------------------------------------
(* What the invariants about money use.                                    *)
LEMMA SumEmpty == ASSUME NEW f PROVE SumFunctionOnSet(f, {}) = 0
<1>1. Numbers(f, {})
  BY FS_EmptySet DEF Numbers
<1>2. PICK g : Sums(g, f, {})
  BY <1>1, SumsExist
<1>3. SumFunctionOnSet(f, {}) = g[{}]
  BY <1>1, <1>2, SumIs
<1> QED BY <1>2, <1>3 DEF Sums

LEMMA SumType ==
  ASSUME NEW f, NEW S, Numbers(f, S)
  PROVE  SumFunctionOnSet(f, S) \in Int
<1>1. PICK g : Sums(g, f, S)
  BY SumsExist
<1>2. SumFunctionOnSet(f, S) = g[S]
  BY <1>1, SumIs
<1> QED BY <1>1, <1>2 DEF Sums

\* The sum over a subset is a value of the same function.
LEMMA SumOfSubset ==
  ASSUME NEW f, NEW S, Numbers(f, S), NEW g, Sums(g, f, S), NEW T \in SUBSET S
  PROVE  Numbers(f, T) /\ SumFunctionOnSet(f, T) = g[T]
<1>1. Numbers(f, T)
  BY FS_Subset DEF Numbers
<1> DEFINE h == [u \in SUBSET T |-> g[u]]
<1>2. Sums(h, f, T)
  <2>1. h \in [SUBSET T -> Int] /\ h[{}] = 0
    BY DEF Sums
  <2>2. ASSUME NEW u \in SUBSET T, NEW x \in u PROVE h[u] = f[x] + h[u \ {x}]
    <3>1. u \in SUBSET S /\ u \ {x} \in SUBSET T
      OBVIOUS
    <3>2. h[u] = g[u] /\ h[u \ {x}] = g[u \ {x}]
      BY <3>1
    <3> QED BY <3>1, <3>2 DEF Sums
  <2> HIDE DEF h
  <2> QED BY <2>1, <2>2 DEF Sums
<1>3. SumFunctionOnSet(f, T) = h[T]
  BY <1>1, <1>2, SumIs
<1> QED BY <1>1, <1>3

LEMMA SumPick ==
  ASSUME NEW f, NEW S, Numbers(f, S), NEW x \in S
  PROVE  /\ Numbers(f, S \ {x})
         /\ SumFunctionOnSet(f, S) = f[x] + SumFunctionOnSet(f, S \ {x})
<1>1. PICK g : Sums(g, f, S)
  BY SumsExist
<1>2. S \in SUBSET S /\ S \ {x} \in SUBSET S
  OBVIOUS
<1>3. /\ Numbers(f, S \ {x})
      /\ SumFunctionOnSet(f, S) = g[S] /\ SumFunctionOnSet(f, S \ {x}) = g[S \ {x}]
  BY <1>1, <1>2, SumOfSubset
<1> QED BY <1>1, <1>2, <1>3 DEF Sums

LEMMA SumAdd ==
  ASSUME NEW f, NEW S, Numbers(f, S), NEW x, x \notin S, f[x] \in Int
  PROVE  /\ Numbers(f, S \cup {x})
         /\ SumFunctionOnSet(f, S \cup {x}) = f[x] + SumFunctionOnSet(f, S)
<1>1. Numbers(f, S \cup {x}) /\ x \in S \cup {x} /\ (S \cup {x}) \ {x} = S
  BY FS_AddElement DEF Numbers
<1> QED BY <1>1, SumPick

\* Only the summands count.
LEMMA SumSame ==
  ASSUME NEW f, NEW h, NEW S, Numbers(f, S), \A x \in S : h[x] = f[x]
  PROVE  Numbers(h, S) /\ SumFunctionOnSet(h, S) = SumFunctionOnSet(f, S)
<1>1. Numbers(h, S)
  BY DEF Numbers
<1>2. PICK g : Sums(g, f, S)
  BY SumsExist
<1>3. Sums(g, h, S)
  <2>1. ASSUME NEW s \in SUBSET S, NEW x \in s PROVE g[s] = h[x] + g[s \ {x}]
    BY <1>2 DEF Sums
  <2> QED BY <1>2, <2>1 DEF Sums
<1>4. SumFunctionOnSet(f, S) = g[S]
  BY <1>2, SumIs
<1>5. SumFunctionOnSet(h, S) = g[S]
  BY <1>1, <1>3, SumIs
<1> QED BY <1>1, <1>4, <1>5

\* One summand changes.
LEMMA SumUpdate ==
  ASSUME NEW S, IsFiniteSet(S), NEW f \in [S -> Int], NEW h \in [S -> Int], NEW x \in S,
         \A y \in S : y # x => h[y] = f[y]
  PROVE  SumFunctionOnSet(h, S) = SumFunctionOnSet(f, S) - f[x] + h[x]
<1>1. Numbers(f, S) /\ Numbers(h, S) /\ f[x] \in Int /\ h[x] \in Int
  BY DEF Numbers
<1>2. Numbers(f, S \ {x}) /\ SumFunctionOnSet(f, S) = f[x] + SumFunctionOnSet(f, S \ {x})
  BY <1>1, SumPick
<1>3. SumFunctionOnSet(h, S) = h[x] + SumFunctionOnSet(h, S \ {x})
  BY <1>1, SumPick
<1>4. \A y \in S \ {x} : h[y] = f[y]
  OBVIOUS
<1>5. SumFunctionOnSet(h, S \ {x}) = SumFunctionOnSet(f, S \ {x})
  BY <1>2, <1>4, SumSame
<1>6. SumFunctionOnSet(f, S \ {x}) \in Int
  BY <1>2, SumType
<1> QED BY <1>1, <1>2, <1>3, <1>5, <1>6

LEMMA SumOfNaturals ==
  ASSUME NEW f, NEW S, IsFiniteSet(S), \A x \in S : f[x] \in Nat
  PROVE  Numbers(f, S) /\ SumFunctionOnSet(f, S) \in Nat
<1>1. Numbers(f, S)
  BY DEF Numbers
<1>2. PICK g : Sums(g, f, S)
  BY <1>1, SumsExist
<1> DEFINE T == {s \in SUBSET S : g[s] \notin Nat}
<1>3. CASE T # {}
  <2>1. PICK s \in T : \A u \in T : u \subseteq s => u = s
    <3>1. T \subseteq SUBSET S
      OBVIOUS
    <3> HIDE DEF T
    <3> QED BY <1>3, <3>1, SmallestSet
  <2>2. s # {}
    <3>1. g[s] \notin Nat /\ g[{}] \in Nat
      BY <1>2, <2>1 DEF Sums
    <3> QED BY <3>1
  <2>3. PICK x \in s : TRUE
    BY <2>2
  <2>4. s \ {x} \in SUBSET S /\ s \ {x} # s /\ s \ {x} \subseteq s /\ x \in S
    BY <2>1, <2>3
  <2>5. g[s \ {x}] \in Nat
    BY <2>1, <2>4
  <2>6. g[s] = f[x] + g[s \ {x}]
    BY <1>2, <2>1, <2>3 DEF Sums
  <2>7. f[x] \in Nat
    BY <2>4
  <2> QED BY <2>1, <2>5, <2>6, <2>7
<1>4. CASE T = {}
  BY <1>1, <1>2, <1>4, SumIs
<1> QED BY <1>1, <1>3, <1>4

\* A sum of naturals is at least each of them, and at least each partial sum.
LEMMA SumSplit ==
  ASSUME NEW f, NEW S, Numbers(f, S), NEW T \in SUBSET S
  PROVE  /\ Numbers(f, T) /\ Numbers(f, S \ T)
         /\ SumFunctionOnSet(f, S) = SumFunctionOnSet(f, T) + SumFunctionOnSet(f, S \ T)
<1>1. PICK g : Sums(g, f, S)
  BY SumsExist
<1>2. S \in SUBSET S /\ S \ T \in SUBSET S
  OBVIOUS
<1>3. /\ Numbers(f, T) /\ Numbers(f, S \ T)
      /\ SumFunctionOnSet(f, S) = g[S] /\ SumFunctionOnSet(f, T) = g[T]
      /\ SumFunctionOnSet(f, S \ T) = g[S \ T]
  BY <1>1, <1>2, SumOfSubset
<1>4. SUFFICES ASSUME g[S] # g[T] + g[S \ T] PROVE FALSE
  BY <1>3
\* Of the subsets of T that may move over, a smallest one that spoils the sum.
<1>5. IsFiniteSet(T)
  BY <1>3 DEF Numbers
<1> DEFINE C == {u \in SUBSET T : g[S] # g[u] + g[S \ u]}
<1>6. T \in C /\ C \subseteq SUBSET T
  BY <1>4
<1>7. PICK u \in C : \A v \in C : v \subseteq u => v = u
  <2> HIDE DEF C
  <2> QED BY <1>5, <1>6, SmallestSet
<1>8. g[S] \in Int /\ g[{}] = 0 /\ S \ {} = S
  BY <1>1 DEF Sums
<1>9. u # {}
  <2>1. ASSUME u = {} PROVE FALSE
    <3>1. S \ u = S /\ g[u] = 0
      BY <1>8, <2>1
    <3>2. g[S] # g[u] + g[S \ u]
      BY <1>7
    <3> QED BY <1>8, <3>1, <3>2
  <2> QED BY <2>1
<1>10. PICK x \in u : TRUE
  BY <1>9
<1>11. /\ u \in SUBSET S /\ S \ (u \ {x}) \in SUBSET S /\ x \in S \ (u \ {x})
       /\ (S \ (u \ {x})) \ {x} = S \ u /\ u \ {x} \in SUBSET T /\ u \ {x} \in SUBSET S
       /\ u \ {x} \subseteq u /\ u \ {x} # u /\ S \ u \in SUBSET S
  BY <1>7, <1>10
<1>12. g[S] = g[u \ {x}] + g[S \ (u \ {x})]
  BY <1>7, <1>11
<1>13. g[u] = f[x] + g[u \ {x}]
  BY <1>1, <1>10, <1>11 DEF Sums
<1>14. g[S \ (u \ {x})] = f[x] + g[S \ u]
  <2> DEFINE w == S \ (u \ {x})
  <2>1. w \in SUBSET S /\ x \in w /\ w \ {x} = S \ u
    BY <1>11
  <2> HIDE DEF w
  <2>2. g[w] = f[x] + g[w \ {x}]
    BY <1>1, <2>1 DEF Sums
  <2>3. g[w] = f[x] + g[S \ u]
    BY <2>1, <2>2
  <2> QED BY <2>3 DEF w
<1>15. f[x] \in Int /\ g[u \ {x}] \in Int /\ g[S \ u] \in Int
  BY <1>1, <1>11 DEF Sums, Numbers
<1>16. g[S] # g[u] + g[S \ u]
  BY <1>7
<1> QED BY <1>12, <1>13, <1>14, <1>15, <1>16


LEMMA SumOfZeros ==
  ASSUME NEW f, NEW S, IsFiniteSet(S), \A x \in S : f[x] = 0
  PROVE  SumFunctionOnSet(f, S) = 0
<1>1. Numbers(f, S)
  BY DEF Numbers
<1> DEFINE g == [s \in SUBSET S |-> 0]
<1>2. Sums(g, f, S)
  BY DEF Sums
<1>3. g[S] = 0
  OBVIOUS
<1> HIDE DEF g
<1> QED BY <1>1, <1>2, <1>3, SumIs
=============================================================================
