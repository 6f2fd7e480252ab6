----------------------------- MODULE SumLemmas -----------------------------
(***************************************************************************)
(* How the totals of module Sums behave, for any finite set and any ledger *)
(* over it, and how products and floored quotients do: the facts that the  *)
(* proofs about ledgers and vaults rest on.  A fold is a recursive table    *)
(* over the subsets of its set; since no induction rule can be applied to  *)
(* it, each fact is proved on a smallest subset that would break it.       *)
(***************************************************************************)
EXTENDS Sums, FiniteSetTheorems, TLAPS

\* The element a fold takes out of a set.
Pick1(s) == CHOOSE x \in s : TRUE

\* g is the table of the partial sums of f over the subsets of S.
Conforms(g, f, S) ==
    g = [s \in SUBSET S |-> IF s = {} THEN 0 ELSE f[Pick1(s)] + g[s \ {Pick1(s)}]]

\* The table that MapThenSumSet looks its result up in.
Table(f, S) == CHOOSE g : Conforms(g, f, S)

\* A sum is the last entry of its table.
LEMMA SumIsTable == \A f, S : SumOn(f, S) = Table(f, S)[S]
  BY DEF SumOn, MapThenSumSet, MapThenFoldSet, Table, Conforms, Pick1

\* A nonempty collection of subsets of a finite set has a smallest member.
LEMMA LeastSubset ==
  ASSUME NEW S, IsFiniteSet(S), NEW T \in SUBSET (SUBSET S), T # {}
  PROVE  \E U \in T : IsFiniteSet(U) /\ \A V \in T : ~(V \subseteq U /\ V # U)
  <1>1. IsWellFoundedOn(StrictSubsetOrdering(S), FiniteSubsetsOf(S))
    BY FS_StrictSubsetOrderingWellFounded
  <1>2. FiniteSubsetsOf(S) = SUBSET S
    BY FS_FiniteSubsetsOfFinite
  <1>3. PICK U \in T : \A V \in T : <<V, U>> \notin StrictSubsetOrdering(S)
    BY <1>1, <1>2, WFMin
  <1>4. ASSUME NEW V \in T, V \subseteq U, V # U PROVE FALSE
    <2>1. <<V, U>> \in StrictSubsetOrdering(S)
      BY <1>4 DEF StrictSubsetOrdering
    <2> QED BY <2>1, <1>3
  <1> QED BY <1>3, <1>4, FS_Subset

\* The tables of two sets agree on the subsets they share.
LEMMA TablesAgree ==
  ASSUME NEW f, NEW V, NEW W, IsFiniteSet(V),
         NEW g, Conforms(g, f, V), NEW h, Conforms(h, f, W),
         NEW s \in (SUBSET V) \cap (SUBSET W)
  PROVE  g[s] = h[s]
  <1> DEFINE Differ == {u \in (SUBSET V) \cap (SUBSET W) : g[u] # h[u]}
  <1>1. SUFFICES ASSUME Differ # {} PROVE FALSE
    OBVIOUS
  <1>2. Differ \in SUBSET (SUBSET V)
    OBVIOUS
  <1> HIDE DEF Differ
  <1>3. PICK u \in Differ : \A v \in Differ : ~(v \subseteq u /\ v # u)
    BY <1>1, <1>2, LeastSubset
  <1>9. /\ u \in (SUBSET V) \cap (SUBSET W)
        /\ g[u] # h[u]
    BY <1>3 DEF Differ
  <1>4. /\ g[u] = IF u = {} THEN 0 ELSE f[Pick1(u)] + g[u \ {Pick1(u)}]
        /\ h[u] = IF u = {} THEN 0 ELSE f[Pick1(u)] + h[u \ {Pick1(u)}]
    BY <1>9 DEF Conforms
  <1>5. u # {}
    BY <1>9, <1>4
  <1>6. Pick1(u) \in u
    BY <1>5 DEF Pick1
  <1>7. u \ {Pick1(u)} \notin Differ
    BY <1>3, <1>6
  <1>8. g[u \ {Pick1(u)}] = h[u \ {Pick1(u)}]
    BY <1>9, <1>7 DEF Differ
  <1>10. QED
    BY <1>9, <1>4, <1>5, <1>8

\* A finite set has a table: the recursion of the fold is well founded.
LEMMA TableConforms ==
  ASSUME NEW f, NEW S, IsFiniteSet(S)
  PROVE  Conforms(Table(f, S), f, S)
  <1> DEFINE Lacking == {U \in SUBSET S : ~Conforms(Table(f, U), f, U)}
  <1>1. SUFFICES ASSUME Lacking # {} PROVE FALSE
    OBVIOUS
  <1>0. Lacking \in SUBSET (SUBSET S)
    OBVIOUS
  <1> HIDE DEF Lacking
  <1>2. PICK U \in Lacking : IsFiniteSet(U) /\ \A V \in Lacking : ~(V \subseteq U /\ V # U)
    BY <1>0, <1>1, LeastSubset
  <1>3. \A V \in SUBSET U : V # U => Conforms(Table(f, V), f, V)
    BY <1>0, <1>2 DEF Lacking
  <1> DEFINE Below(s) == f[Pick1(s)] + Table(f, s \ {Pick1(s)})[s \ {Pick1(s)}]
             G == [s \in SUBSET U |-> IF s = {} THEN 0 ELSE Below(s)]
  <1>4. \A V \in SUBSET U : V # U => G[V] = Table(f, V)[V]
    <2> SUFFICES ASSUME NEW V \in SUBSET U, V # U
                 PROVE  G[V] = Table(f, V)[V]
      OBVIOUS
    <2>1. Conforms(Table(f, V), f, V)
      BY <1>3
    <2>2. Table(f, V)[V] = IF V = {} THEN 0
                           ELSE f[Pick1(V)] + Table(f, V)[V \ {Pick1(V)}]
      BY <2>1, V \in SUBSET V DEF Conforms
    <2>3. CASE V = {}
      BY <2>2, <2>3
    <2>4. CASE V # {}
      <3> DEFINE W == V \ {Pick1(V)}
      <3>1. Pick1(V) \in V
        BY <2>4 DEF Pick1
      <3>2. W \in SUBSET U /\ W # U /\ W \in SUBSET V
        BY <3>1
      <3>3. Conforms(Table(f, W), f, W)
        BY <3>2, <1>3
      <3>4. IsFiniteSet(V)
        BY <1>2, FS_Subset
      <3>5. Table(f, V)[W] = Table(f, W)[W]
        BY <2>1, <3>2, <3>3, <3>4, TablesAgree
      <3>6. G[V] = Below(V)
        BY <2>4
      <3> QED
        BY <2>2, <2>4, <3>5, <3>6
    <2> QED BY <2>3, <2>4
  <1>5. Conforms(G, f, U)
    <2>1. ASSUME NEW s \in SUBSET U
          PROVE  (IF s = {} THEN 0 ELSE Below(s))
                 = IF s = {} THEN 0 ELSE f[Pick1(s)] + G[s \ {Pick1(s)}]
      <3>1. CASE s = {}
        BY <3>1
      <3>2. CASE s # {}
        <4>1. Pick1(s) \in s
          BY <3>2 DEF Pick1
        <4>2. s \ {Pick1(s)} \in SUBSET U /\ s \ {Pick1(s)} # U
          BY <4>1
        <4>3. G[s \ {Pick1(s)}] = Table(f, s \ {Pick1(s)})[s \ {Pick1(s)}]
          BY <4>2, <1>4
        <4> HIDE DEF G
        <4> QED
          BY <3>2, <4>3
      <3> QED BY <3>1, <3>2
    <2> QED
      BY <2>1 DEF Conforms
  <1>6. Conforms(Table(f, U), f, U)
    BY <1>5 DEF Table
  <1>7. QED
    BY <1>2, <1>6 DEF Lacking

\* An empty ledger totals nothing.
LEMMA SumEmpty == ASSUME NEW f PROVE SumOn(f, {}) = 0
  <1>1. Conforms(Table(f, {}), f, {})
    BY TableConforms, FS_EmptySet
  <1> QED
    BY <1>1, SumIsTable, {} \in SUBSET {} DEF Conforms

\* A total is the element the fold picks plus the total of the others.
LEMMA SumOfPicked ==
  ASSUME NEW f, NEW S, IsFiniteSet(S), S # {}
  PROVE  SumOn(f, S) = f[Pick1(S)] + SumOn(f, S \ {Pick1(S)})
  <1> DEFINE W == S \ {Pick1(S)}
  <1>1. Pick1(S) \in S
    BY DEF Pick1
  <1>2. W \in SUBSET S /\ IsFiniteSet(W) /\ W \in SUBSET W
    BY FS_Subset
  <1>3. Conforms(Table(f, S), f, S) /\ Conforms(Table(f, W), f, W)
    BY <1>2, TableConforms
  <1>4. Table(f, S)[W] = Table(f, W)[W]
    BY <1>2, <1>3, TablesAgree
  <1>5. Table(f, S)[S] = f[Pick1(S)] + Table(f, S)[W]
    BY <1>3, S \in SUBSET S DEF Conforms
  <1> QED
    BY <1>4, <1>5, SumIsTable

\* A total of integers is an integer.
LEMMA SumInt ==
  ASSUME NEW f, NEW S, IsFiniteSet(S), \A x \in S : f[x] \in Int
  PROVE  SumOn(f, S) \in Int
  <1> DEFINE Odd == {U \in SUBSET S : SumOn(f, U) \notin Int}
  <1>1. SUFFICES ASSUME Odd # {} PROVE FALSE
    BY S \in SUBSET S
  <1>2. Odd \in SUBSET (SUBSET S)
    OBVIOUS
  <1> HIDE DEF Odd
  <1>3. PICK U \in Odd : IsFiniteSet(U) /\ \A V \in Odd : ~(V \subseteq U /\ V # U)
    BY <1>1, <1>2, LeastSubset
  <1>4. U \in SUBSET S /\ SumOn(f, U) \notin Int
    BY <1>3 DEF Odd
  <1>5. U # {}
    BY <1>4, SumEmpty
  <1>6. Pick1(U) \in U
    BY <1>5 DEF Pick1
  <1>7. SumOn(f, U \ {Pick1(U)}) \in Int
    <2>1. U \ {Pick1(U)} \notin Odd
      BY <1>3, <1>6
    <2> QED BY <2>1, <1>4 DEF Odd
  <1>8. SumOn(f, U) = f[Pick1(U)] + SumOn(f, U \ {Pick1(U)})
    BY <1>3, <1>5, SumOfPicked
  <1> QED
    BY <1>4, <1>6, <1>7, <1>8

\* Any element, not only the picked one, can be split off a total.
LEMMA SumRemove ==
  ASSUME NEW f, NEW S, IsFiniteSet(S), \A x \in S : f[x] \in Int, NEW x \in S
  PROVE  SumOn(f, S) = f[x] + SumOn(f, S \ {x})
  <1> DEFINE Odd == {U \in SUBSET S : \E y \in U : SumOn(f, U) # f[y] + SumOn(f, U \ {y})}
  <1>1. SUFFICES ASSUME Odd # {} PROVE FALSE
    BY S \in SUBSET S
  <1>2. Odd \in SUBSET (SUBSET S)
    OBVIOUS
  <1> HIDE DEF Odd
  <1>3. PICK U \in Odd : IsFiniteSet(U) /\ \A V \in Odd : ~(V \subseteq U /\ V # U)
    BY <1>1, <1>2, LeastSubset
  <1>4. U \in SUBSET S
    BY <1>2, <1>3
  <1>5. PICK y \in U : SumOn(f, U) # f[y] + SumOn(f, U \ {y})
    BY <1>3 DEF Odd
  <1> DEFINE c == Pick1(U)
  <1>6. c \in U
    BY <1>5 DEF Pick1
  <1>7. SumOn(f, U) = f[c] + SumOn(f, U \ {c})
    BY <1>3, <1>5, SumOfPicked
  <1>8. c # y
    BY <1>5, <1>7
  <1>9. \A V \in SUBSET U : V # U => \A z \in V : SumOn(f, V) = f[z] + SumOn(f, V \ {z})
    BY <1>3, <1>4 DEF Odd
  <1> HIDE DEF c
  <1> DEFINE W == U \ {c, y}
  <1>10. /\ SumOn(f, U \ {c}) = f[y] + SumOn(f, W)
         /\ SumOn(f, U \ {y}) = f[c] + SumOn(f, W)
    <2>1. (U \ {c}) \ {y} = W /\ (U \ {y}) \ {c} = W
      OBVIOUS
    <2> HIDE DEF W
    <2>2. SumOn(f, U \ {c}) = f[y] + SumOn(f, (U \ {c}) \ {y})
      BY <1>6, <1>8, <1>9
    <2>3. SumOn(f, U \ {y}) = f[c] + SumOn(f, (U \ {y}) \ {c})
      BY <1>6, <1>8, <1>9
    <2> QED BY <2>1, <2>2, <2>3
  <1>11. SumOn(f, W) \in Int
    <2>1. W \in SUBSET S
      BY <1>4
    <2>2. IsFiniteSet(W)
      BY <2>1, FS_Subset
    <2> HIDE DEF W
    <2> QED BY <2>1, <2>2, SumInt
  <1>12. f[c] \in Int /\ f[y] \in Int
    BY <1>4, <1>5, <1>6
  <1> HIDE DEF W
  <1> QED
    BY <1>5, <1>7, <1>10, <1>11, <1>12

\* A new account adds what it holds.
LEMMA SumAdd ==
  ASSUME NEW f, NEW S, IsFiniteSet(S), NEW x, x \notin S, \A y \in S \union {x} : f[y] \in Int
  PROVE  SumOn(f, S \union {x}) = f[x] + SumOn(f, S)
  <1>1. IsFiniteSet(S \union {x})
    BY FS_AddElement
  <1>2. (S \union {x}) \ {x} = S
    OBVIOUS
  <1>3. SumOn(f, S \union {x}) = f[x] + SumOn(f, (S \union {x}) \ {x})
    BY <1>1, SumRemove, x \in S \union {x}
  <1> QED
    BY <1>2, <1>3

\* Ledgers that agree account by account have the same total.
LEMMA SumEqual ==
  ASSUME NEW f, NEW g, NEW S, IsFiniteSet(S), \A x \in S : f[x] = g[x]
  PROVE  SumOn(f, S) = SumOn(g, S)
  <1> DEFINE Odd == {U \in SUBSET S : SumOn(f, U) # SumOn(g, U)}
  <1>1. SUFFICES ASSUME Odd # {} PROVE FALSE
    BY S \in SUBSET S
  <1>2. Odd \in SUBSET (SUBSET S)
    OBVIOUS
  <1> HIDE DEF Odd
  <1>3. PICK U \in Odd : IsFiniteSet(U) /\ \A V \in Odd : ~(V \subseteq U /\ V # U)
    BY <1>1, <1>2, LeastSubset
  <1>4. U \in SUBSET S /\ SumOn(f, U) # SumOn(g, U)
    BY <1>3 DEF Odd
  <1>5. U # {}
    BY <1>4, SumEmpty
  <1>6. Pick1(U) \in U
    BY <1>5 DEF Pick1
  <1>7. SumOn(f, U \ {Pick1(U)}) = SumOn(g, U \ {Pick1(U)})
    <2>1. U \ {Pick1(U)} \notin Odd
      BY <1>3, <1>6
    <2> QED BY <2>1, <1>4 DEF Odd
  <1>8. /\ SumOn(f, U) = f[Pick1(U)] + SumOn(f, U \ {Pick1(U)})
        /\ SumOn(g, U) = g[Pick1(U)] + SumOn(g, U \ {Pick1(U)})
    BY <1>3, <1>5, SumOfPicked
  <1>9. f[Pick1(U)] = g[Pick1(U)]
    BY <1>4, <1>6
  <1> QED
    BY <1>4, <1>7, <1>8, <1>9

\* The total of two ledgers added up is the sum of their totals.
LEMMA SumTotal ==
  ASSUME NEW f, NEW g, NEW h, NEW S, IsFiniteSet(S),
         \A x \in S : f[x] \in Int /\ g[x] \in Int /\ h[x] = f[x] + g[x]
  PROVE  SumOn(h, S) = SumOn(f, S) + SumOn(g, S)
  <1> DEFINE Odd == {U \in SUBSET S : SumOn(h, U) # SumOn(f, U) + SumOn(g, U)}
  <1>1. SUFFICES ASSUME Odd # {} PROVE FALSE
    BY S \in SUBSET S
  <1>2. Odd \in SUBSET (SUBSET S)
    OBVIOUS
  <1> HIDE DEF Odd
  <1>3. PICK U \in Odd : IsFiniteSet(U) /\ \A V \in Odd : ~(V \subseteq U /\ V # U)
    BY <1>1, <1>2, LeastSubset
  <1>4. U \in SUBSET S /\ SumOn(h, U) # SumOn(f, U) + SumOn(g, U)
    BY <1>3 DEF Odd
  <1>5. U # {}
    BY <1>4, SumEmpty
  <1> DEFINE c == Pick1(U)
             W == U \ {c}
  <1>6. c \in U
    BY <1>5 DEF Pick1
  <1>7. SumOn(h, W) = SumOn(f, W) + SumOn(g, W)
    <2>1. W \notin Odd
      BY <1>3, <1>6
    <2> QED BY <2>1, <1>4 DEF Odd
  <1>8. /\ SumOn(f, U) = f[c] + SumOn(f, W)
        /\ SumOn(g, U) = g[c] + SumOn(g, W)
        /\ SumOn(h, U) = h[c] + SumOn(h, W)
    BY <1>3, <1>5, SumOfPicked
  <1>9. SumOn(f, W) \in Int /\ SumOn(g, W) \in Int
    <2>1. W \in SUBSET S
      BY <1>4
    <2>2. IsFiniteSet(W)
      BY <2>1, FS_Subset
    <2> HIDE DEF W
    <2> QED BY <2>1, <2>2, SumInt
  <1>10. f[c] \in Int /\ g[c] \in Int /\ h[c] = f[c] + g[c]
    BY <1>4, <1>6
  <1> HIDE DEF c, W
  <1> QED
    BY <1>4, <1>7, <1>8, <1>9, <1>10

\* A factor common to all accounts can be taken out of the total.
LEMMA SumScaled ==
  ASSUME NEW f, NEW g, NEW k \in Int, NEW S, IsFiniteSet(S),
         \A x \in S : f[x] \in Int /\ g[x] = k * f[x]
  PROVE  SumOn(g, S) = k * SumOn(f, S)
  <1> DEFINE Odd == {U \in SUBSET S : SumOn(g, U) # k * SumOn(f, U)}
  <1>1. SUFFICES ASSUME Odd # {} PROVE FALSE
    BY S \in SUBSET S
  <1>2. Odd \in SUBSET (SUBSET S)
    OBVIOUS
  <1> HIDE DEF Odd
  <1>3. PICK U \in Odd : IsFiniteSet(U) /\ \A V \in Odd : ~(V \subseteq U /\ V # U)
    BY <1>1, <1>2, LeastSubset
  <1>4. U \in SUBSET S /\ SumOn(g, U) # k * SumOn(f, U)
    BY <1>3 DEF Odd
  <1>5. U # {}
    <2>1. k * 0 = 0
      OBVIOUS
    <2> QED BY <1>4, <2>1, SumEmpty
  <1> DEFINE c == Pick1(U)
             W == U \ {c}
  <1>6. c \in U
    BY <1>5 DEF Pick1
  <1>7. SumOn(g, W) = k * SumOn(f, W)
    <2>1. W \notin Odd
      BY <1>3, <1>6
    <2> QED BY <2>1, <1>4 DEF Odd
  <1>8. SumOn(f, U) = f[c] + SumOn(f, W) /\ SumOn(g, U) = g[c] + SumOn(g, W)
    BY <1>3, <1>5, SumOfPicked
  <1>9. SumOn(f, W) \in Int
    <2>1. W \in SUBSET S
      BY <1>4
    <2>2. IsFiniteSet(W)
      BY <2>1, FS_Subset
    <2> HIDE DEF W
    <2> QED BY <2>1, <2>2, SumInt
  <1>10. f[c] \in Int /\ g[c] = k * f[c]
    BY <1>4, <1>6
  <1> HIDE DEF c, W
  <1>11. k * (f[c] + SumOn(f, W)) = k * f[c] + k * SumOn(f, W)
    BY <1>9, <1>10
  <1> QED
    BY <1>4, <1>7, <1>8, <1>10, <1>11

\* A total of naturals is a natural.
LEMMA SumNat ==
  ASSUME NEW f, NEW S, IsFiniteSet(S), \A x \in S : f[x] \in Nat
  PROVE  SumOn(f, S) \in Nat
  <1> DEFINE Odd == {U \in SUBSET S : SumOn(f, U) \notin Nat}
  <1>1. SUFFICES ASSUME Odd # {} PROVE FALSE
    BY S \in SUBSET S
  <1>2. Odd \in SUBSET (SUBSET S)
    OBVIOUS
  <1> HIDE DEF Odd
  <1>3. PICK U \in Odd : IsFiniteSet(U) /\ \A V \in Odd : ~(V \subseteq U /\ V # U)
    BY <1>1, <1>2, LeastSubset
  <1>4. U \in SUBSET S /\ SumOn(f, U) \notin Nat
    BY <1>3 DEF Odd
  <1>5. U # {}
    BY <1>4, SumEmpty
  <1>6. Pick1(U) \in U
    BY <1>5 DEF Pick1
  <1>7. SumOn(f, U \ {Pick1(U)}) \in Nat
    <2>1. U \ {Pick1(U)} \notin Odd
      BY <1>3, <1>6
    <2> QED BY <2>1, <1>4 DEF Odd
  <1>8. SumOn(f, U) = f[Pick1(U)] + SumOn(f, U \ {Pick1(U)})
    BY <1>3, <1>5, SumOfPicked
  <1> QED
    BY <1>4, <1>6, <1>7, <1>8

\* No account holds more than the total.
LEMMA SumMember ==
  ASSUME NEW f, NEW S, IsFiniteSet(S), \A x \in S : f[x] \in Nat, NEW x \in S
  PROVE  f[x] <= SumOn(f, S)
  <1>1. SumOn(f, S) = f[x] + SumOn(f, S \ {x})
    BY SumRemove
  <1>2. SumOn(f, S \ {x}) \in Nat
    BY SumNat, FS_RemoveElement
  <1> QED
    BY <1>1, <1>2

\* Totals keep the order of their ledgers.
LEMMA SumMonotone ==
  ASSUME NEW f, NEW g, NEW S, IsFiniteSet(S),
         \A x \in S : f[x] \in Int /\ g[x] \in Int /\ f[x] <= g[x]
  PROVE  SumOn(f, S) <= SumOn(g, S)
  <1> DEFINE d == [x \in S |-> g[x] - f[x]]
  <1>1. \A x \in S : d[x] \in Nat /\ g[x] = f[x] + d[x]
    OBVIOUS
  <1> HIDE DEF d
  <1>2. SumOn(g, S) = SumOn(f, S) + SumOn(d, S)
    BY <1>1, SumTotal
  <1>3. SumOn(d, S) \in Nat /\ SumOn(f, S) \in Int
    BY <1>1, SumNat, SumInt
  <1> QED
    BY <1>2, <1>3

\* Accounts that are all zero total zero.
LEMMA SumZero ==
  ASSUME NEW f, NEW S, IsFiniteSet(S), \A x \in S : f[x] = 0
  PROVE  SumOn(f, S) = 0
  <1>1. \A x \in S : f[x] \in Int /\ f[x] = f[x] + f[x]
    OBVIOUS
  <1>2. SumOn(f, S) = SumOn(f, S) + SumOn(f, S)
    BY <1>1, SumTotal
  <1>3. SumOn(f, S) \in Int
    BY <1>1, SumInt
  <1>4. \A n \in Int : n = n + n => n = 0
    OBVIOUS
  <1>5. PICK n : n = SumOn(f, S)
    OBVIOUS
  <1>6. n \in Int /\ n = n + n
    BY <1>2, <1>3, <1>5
  <1>7. n = 0
    BY <1>4, <1>6
  <1> QED
    BY <1>5, <1>7

\* Changing one account changes the total by as much.
LEMMA SumExcept ==
  ASSUME NEW f, NEW g, NEW S, IsFiniteSet(S), NEW x \in S,
         \A y \in S : f[y] \in Int /\ g[y] \in Int,
         \A y \in S \ {x} : g[y] = f[y]
  PROVE  SumOn(g, S) = SumOn(f, S) + (g[x] - f[x])
  <1>1. IsFiniteSet(S \ {x})
    BY FS_RemoveElement
  <1>2. SumOn(g, S \ {x}) = SumOn(f, S \ {x}) /\ SumOn(f, S \ {x}) \in Int
    BY <1>1, SumEqual, SumInt
  <1>3. SumOn(f, S) = f[x] + SumOn(f, S \ {x}) /\ SumOn(g, S) = g[x] + SumOn(g, S \ {x})
    BY SumRemove
  <1> QED
    BY <1>2, <1>3

-----------------------------------------------------------------------------
\* The total of a ledger of naturals is a natural.
LEMMA SumOverNat ==
  ASSUME NEW S, IsFiniteSet(S), NEW f \in [S -> Nat]
  PROVE  SumOver(f) \in Nat
  BY SumNat DEF SumOver

\* The total of a ledger of integers is an integer.
LEMMA SumOverInt ==
  ASSUME NEW S, IsFiniteSet(S), NEW f \in [S -> Int]
  PROVE  SumOver(f) \in Int
  BY SumInt DEF SumOver

\* A ledger of zeros totals zero.
LEMMA SumOverZero ==
  ASSUME NEW S, IsFiniteSet(S)
  PROVE  SumOver([x \in S |-> 0]) = 0
  BY SumZero DEF SumOver

\* One account set to v: the total moves by the difference.
LEMMA SumOverExcept ==
  ASSUME NEW S, IsFiniteSet(S), NEW f \in [S -> Int], NEW x \in S, NEW v \in Int
  PROVE  SumOver([f EXCEPT ![x] = v]) = SumOver(f) + (v - f[x])
  <1> DEFINE g == [f EXCEPT ![x] = v]
  <1>1. g \in [S -> Int] /\ g[x] = v /\ \A y \in S \ {x} : g[y] = f[y]
    OBVIOUS
  <1>2. SumOver(f) = SumOn(f, S) /\ SumOver(g) = SumOn(g, S)
    BY <1>1 DEF SumOver
  <1> HIDE DEF g
  <1>3. SumOn(g, S) = SumOn(f, S) + (g[x] - f[x])
    BY <1>1, SumExcept
  <1> QED
    BY <1>1, <1>2, <1>3

\* Ledger g is ledger f with n more, or n less, in the account x of S.
Moved(f, g, S, x, n) ==
    /\ IsFiniteSet(S) /\ f \in [S -> Int] /\ x \in S /\ n \in Int
    /\ g = [f EXCEPT ![x] = f[x] + n]
Taken(f, g, S, x, n) ==
    /\ IsFiniteSet(S) /\ f \in [S -> Int] /\ x \in S /\ n \in Int
    /\ g = [f EXCEPT ![x] = f[x] - n]

\* One account changed by n: the total moves by n.
LEMMA SumOverMoved ==
  ASSUME NEW f, NEW g, NEW S, NEW x, NEW n, Moved(f, g, S, x, n)
  PROVE  SumOver(g) = SumOver(f) + n
  <1> USE DEF Moved
  <1> DEFINE v == f[x] + n
  <1>1. v \in Int /\ f[x] \in Int /\ v - f[x] = n
    OBVIOUS
  <1>2. g = [f EXCEPT ![x] = v]
    OBVIOUS
  <1> HIDE DEF v
  <1>3. SumOver([f EXCEPT ![x] = v]) = SumOver(f) + (v - f[x])
    BY <1>1, SumOverExcept
  <1> QED
    BY <1>1, <1>2, <1>3

\* A ledger that was moved in has an integer total.
LEMMA MovedFromInt ==
  ASSUME NEW f, NEW g, NEW S, NEW x, NEW n, Moved(f, g, S, x, n)
  PROVE  SumOver(f) \in Int
  BY SumOverInt DEF Moved

\* n taken from one account: the total falls by n.
LEMMA SumOverTaken ==
  ASSUME NEW f, NEW g, NEW S, NEW x, NEW n, Taken(f, g, S, x, n)
  PROVE  SumOver(g) = SumOver(f) - n
  <1> USE DEF Taken
  <1> DEFINE v == f[x] - n
  <1>1. v \in Int /\ f[x] \in Int /\ v - f[x] = -n
    OBVIOUS
  <1>2. g = [f EXCEPT ![x] = v]
    OBVIOUS
  <1> HIDE DEF v
  <1>3. SumOver([f EXCEPT ![x] = v]) = SumOver(f) + (v - f[x])
    BY <1>1, SumOverExcept
  <1>4. SumOver(f) \in Int
    BY SumOverInt
  <1> QED
    BY <1>1, <1>2, <1>3, <1>4

\* A ledger that grew by one account: the total grew by what it holds.
LEMMA SumOverGrown ==
  ASSUME NEW S, IsFiniteSet(S), NEW x, x \notin S, NEW f \in [S -> Int],
         NEW g \in [S \union {x} -> Int], \A y \in S : g[y] = f[y]
  PROVE  SumOver(g) = SumOver(f) + g[x]
  <1>1. SumOver(f) = SumOn(f, S) /\ SumOver(g) = SumOn(g, S \union {x})
    BY DEF SumOver
  <1>2. SumOn(g, S \union {x}) = g[x] + SumOn(g, S)
    BY SumAdd
  <1>3. SumOn(g, S) = SumOn(f, S)
    BY SumEqual
  <1>4. SumOn(f, S) \in Int /\ g[x] \in Int
    BY SumInt
  <1> QED
    BY <1>1, <1>2, <1>3, <1>4

\* The totals of two ledgers over the same accounts add up.
LEMMA SumOverTotal ==
  ASSUME NEW S, IsFiniteSet(S), NEW f \in [S -> Int], NEW g \in [S -> Int]
  PROVE  SumOver([x \in S |-> f[x] + g[x]]) = SumOver(f) + SumOver(g)
  <1> DEFINE h == [x \in S |-> f[x] + g[x]]
  <1>1. SumOver(f) = SumOn(f, S) /\ SumOver(g) = SumOn(g, S) /\ SumOver(h) = SumOn(h, S)
    BY DEF SumOver
  <1>2. \A x \in S : f[x] \in Int /\ g[x] \in Int /\ h[x] = f[x] + g[x]
    OBVIOUS
  <1> HIDE DEF h
  <1>3. SumOn(h, S) = SumOn(f, S) + SumOn(g, S)
    BY <1>2, SumTotal
  <1> QED
    BY <1>1, <1>3 DEF h

\* A ledger scaled by k has its total scaled by k.
LEMMA SumOverScaled ==
  ASSUME NEW S, IsFiniteSet(S), NEW f \in [S -> Int], NEW k \in Int
  PROVE  SumOver([x \in S |-> k * f[x]]) = k * SumOver(f)
  <1> DEFINE g == [x \in S |-> k * f[x]]
  <1>1. \A x \in S : f[x] \in Int /\ g[x] = k * f[x]
    OBVIOUS
  <1>2. SumOver(f) = SumOn(f, S) /\ SumOver(g) = SumOn(g, S)
    BY DEF SumOver
  <1> HIDE DEF g
  <1>3. SumOn(g, S) = k * SumOn(f, S)
    BY <1>1, SumScaled
  <1> QED
    BY <1>2, <1>3 DEF g

\* A ledger that holds no more anywhere totals no more.
LEMMA SumOverMonotone ==
  ASSUME NEW S, IsFiniteSet(S), NEW f \in [S -> Int], NEW g \in [S -> Int],
         \A x \in S : f[x] <= g[x]
  PROVE  SumOver(f) <= SumOver(g)
  BY SumMonotone DEF SumOver

\* An account of naturals holds at most the total.
LEMMA SumOverMember ==
  ASSUME NEW S, IsFiniteSet(S), NEW f \in [S -> Nat], NEW x \in S
  PROVE  f[x] <= SumOver(f)
  BY SumMember DEF SumOver

\* Counting is adding up ones: how many accounts of S are in T.
LEMMA SumOverCount ==
  ASSUME NEW S, IsFiniteSet(S), NEW T \in SUBSET S
  PROVE  SumOver([x \in S |-> IF x \in T THEN 1 ELSE 0]) = Cardinality(T)
  <1> DEFINE ones(U) == [x \in S |-> IF x \in U THEN 1 ELSE 0]
             Odd == {U \in SUBSET S : SumOver(ones(U)) # Cardinality(U)}
  <1>1. SUFFICES ASSUME Odd # {} PROVE FALSE
    OBVIOUS
  <1>2. Odd \in SUBSET (SUBSET S)
    OBVIOUS
  <1> HIDE DEF Odd
  <1>3. PICK U \in Odd : IsFiniteSet(U) /\ \A V \in Odd : ~(V \subseteq U /\ V # U)
    BY <1>1, <1>2, LeastSubset
  <1>4. U \in SUBSET S /\ SumOver(ones(U)) # Cardinality(U)
    BY <1>3 DEF Odd
  <1>5. CASE U = {}
    <2>1. ones(U) = [x \in S |-> 0]
      BY <1>5
    <2>2. SumOver(ones(U)) = 0 /\ Cardinality(U) = 0
      BY <1>5, <2>1, SumOverZero, FS_EmptySet
    <2> QED BY <1>4, <2>2
  <1>6. CASE U # {}
    <2>1. PICK c \in U : TRUE
      BY <1>6
    <2> DEFINE V == U \ {c}
    <2>2. V \in SUBSET S /\ c \in S /\ V \subseteq U /\ V # U
      BY <1>4, <2>1
    <2>3. SumOver(ones(V)) = Cardinality(V)
      <3>1. V \notin Odd
        BY <1>3, <2>2
      <3> QED BY <2>2, <3>1 DEF Odd
    <2>4. PICK f : f = ones(V)
      OBVIOUS
    <2>5. PICK g : g = ones(U)
      OBVIOUS
    <2>6. f \in [S -> Int] /\ c \in S /\ 1 \in Int
          /\ g = [f EXCEPT ![c] = 1] /\ f[c] = 0
      BY <2>1, <2>2, <2>4, <2>5
    <2>7. SumOver(g) = SumOver(f) + 1
      <3>1. SumOver([f EXCEPT ![c] = 1]) = SumOver(f) + (1 - f[c])
        BY <2>6, SumOverExcept
      <3> QED BY <2>6, <3>1
    <2>8. Cardinality(V) = Cardinality(U) - 1 /\ Cardinality(U) \in Nat
      BY <1>3, <2>1, FS_RemoveElement, FS_CardinalityType
    <2> QED
      BY <1>4, <2>3, <2>4, <2>5, <2>7, <2>8
  <1> QED BY <1>5, <1>6

-----------------------------------------------------------------------------
\* Multiplying and flooring keep the order.

\* A floored quotient of naturals is a natural.
LEMMA DivNat ==
  ASSUME NEW x \in Nat, NEW d \in Nat \ {0}
  PROVE  x \div d \in Nat
  BY SMT

\* Flooring by the same divisor is monotone.
LEMMA DivGrows ==
  ASSUME NEW x \in Nat, NEW y \in Nat, NEW d \in Nat \ {0}, x <= y
  PROVE  x \div d <= y \div d
  BY SMT

\* Multiplying by the same factor is monotone.
LEMMA TimesGrows ==
  ASSUME NEW k \in Nat, NEW x \in Nat, NEW y \in Nat, x <= y
  PROVE  k * x <= k * y
  BY SMT

\* A floored quotient falls short of the exact one by less than one.
LEMMA DivBounds ==
  ASSUME NEW x \in Nat, NEW d \in Nat \ {0}
  PROVE  d * (x \div d) <= x /\ x < d * (x \div d) + d
  BY SMT

\* A product distributes over sums and differences.
LEMMA Distributes ==
  ASSUME NEW k \in Int, NEW x \in Int, NEW y \in Int
  PROVE  k * (x + y) = k * x + k * y /\ k * (x - y) = k * x - k * y
         /\ k * x \in Int /\ x * k = k * x
  BY SMT

\* A positive factor cancels in an inequality.
LEMMA Cancels ==
  ASSUME NEW k \in Nat \ {0}, NEW x \in Int, NEW y \in Int, k * x <= k * y
  PROVE  x <= y
  BY SMT
=============================================================================
