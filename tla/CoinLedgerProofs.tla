-------------------------- MODULE CoinLedgerProofs --------------------------
(***************************************************************************)
(* The wallet's books, for every value of the constants: every coin a      *)
(* reversal asked for is debited, owed or forgiven (DebtAccounted), the    *)
(* balance is what the ledger explains (WalletExplained), and the          *)
(* reversals of a settled payment have taken back what they owe, but for   *)
(* those that slip by (ReversalComplete).                                  *)
(*                                                                         *)
(* The first part is about sums over a finite set.  MapThenSumSet picks    *)
(* the elements in the order of CHOOSE; the lemmas free the later parts    *)
(* from that order.  An induction is an argument about a smallest          *)
(* counterexample (SmallestSet).                                           *)
(***************************************************************************)
EXTENDS CoinPurchasesProofs, FiniteSetTheorems, WellFoundedInduction

\* The sum of f over S, as the model's MapThenSumSet computes it.
Total(f, S) == MapThenSumSet(LAMBDA x : f[x], S)

PickOf(S) == CHOOSE x \in S : TRUE

\* g holds the sums of f over the subsets of S.
Tabulates(g, f, S) ==
    g = [s \in SUBSET S |->
           IF s = {} THEN 0 ELSE f[PickOf(s)] + g[s \ {PickOf(s)}]]

\* What MapThenSumSet expands to.
LEMMA TotalIsTabulated ==
  ASSUME NEW f, NEW S
  PROVE  Total(f, S) = (CHOOSE g : Tabulates(g, f, S))[S]
BY Zenon DEF Total, MapThenSumSet, MapThenFoldSet, Tabulates, PickOf

\* A set of finite sets has a member none of whose strict subsets is in it.
LEMMA SmallestSet ==
  ASSUME NEW S, IsFiniteSet(S), NEW T \in SUBSET SUBSET S, T # {}
  PROVE  \E s \in T : \A t \in T : t \subseteq s => t = s
<1>1. IsWellFoundedOn(StrictSubsetOrdering(S), FiniteSubsetsOf(S))
  BY FS_StrictSubsetOrderingWellFounded
<1>2. T \subseteq FiniteSubsetsOf(S)
  BY FS_Subset DEF FiniteSubsetsOf
<1>3. PICK s \in T : \A t \in T : <<t, s>> \notin StrictSubsetOrdering(S)
  BY <1>1, <1>2, WFMin
<1> QED
  BY <1>3 DEF StrictSubsetOrdering

\* One step of a tabulation.
LEMMA TabulatedStep ==
  ASSUME NEW g, NEW f, NEW S, Tabulates(g, f, S), NEW s \in SUBSET S
  PROVE  g[s] = IF s = {} THEN 0 ELSE f[PickOf(s)] + g[s \ {PickOf(s)}]
<1> DEFINE h == [t \in SUBSET S |->
                   IF t = {} THEN 0 ELSE f[PickOf(t)] + g[t \ {PickOf(t)}]]
<1>1. g = h
  BY DEF Tabulates
<1>2. h[s] = IF s = {} THEN 0 ELSE f[PickOf(s)] + g[s \ {PickOf(s)}]
  OBVIOUS
<1> HIDE DEF h
<1> QED
  BY <1>1, <1>2

\* A non-empty set is larger than the set without the element it picks.
LEMMA PickLeaves ==
  ASSUME NEW S, S # {}
  PROVE  /\ PickOf(S) \in S
         /\ S \ {PickOf(S)} \subseteq S
         /\ S \ {PickOf(S)} # S
BY DEF PickOf

\* Two tabulations agree on the sets both have.
LEMMA TabulationsAgree ==
  ASSUME NEW f, NEW S, NEW T, NEW g, NEW h, IsFiniteSet(S),
         Tabulates(g, f, S), Tabulates(h, f, T),
         NEW U, U \subseteq S, U \subseteq T
  PROVE  g[U] = h[U]
<1> DEFINE Bad == {s \in SUBSET U : g[s] # h[s]}
<1> SUFFICES ASSUME Bad # {} PROVE FALSE
  OBVIOUS
<1>1. Bad \in SUBSET SUBSET S
  OBVIOUS
<1>2. PICK s \in Bad : \A t \in Bad : t \subseteq s => t = s
  <2> HIDE DEF Bad
  <2> QED
    BY <1>1, SmallestSet
<1>3. /\ g[s] = IF s = {} THEN 0 ELSE f[PickOf(s)] + g[s \ {PickOf(s)}]
      /\ h[s] = IF s = {} THEN 0 ELSE f[PickOf(s)] + h[s \ {PickOf(s)}]
  BY <1>2, TabulatedStep
<1>4. s # {}
  BY <1>2, <1>3
<1>5. s \ {PickOf(s)} \notin Bad /\ s \ {PickOf(s)} \in SUBSET U
  BY <1>2, <1>4, PickLeaves
<1> QED
  BY <1>2, <1>3, <1>4, <1>5

\* Every finite set has a tabulation.
LEMMA TabulationExists ==
  ASSUME NEW f, NEW S, IsFiniteSet(S)
  PROVE  \E g : Tabulates(g, f, S)
<1> DEFINE Bad == {s \in SUBSET S : ~ \E g : Tabulates(g, f, s)}
<1> SUFFICES ASSUME Bad # {} PROVE FALSE
  OBVIOUS
<1>0. Bad \in SUBSET SUBSET S
  OBVIOUS
<1>1. PICK s \in Bad : \A t \in Bad : t \subseteq s => t = s
  <2> HIDE DEF Bad
  <2> QED
    BY <1>0, SmallestSet
<1> DEFINE Of(t) == CHOOSE g : Tabulates(g, f, t)
           G == [t \in SUBSET s |->
                   IF t = {} THEN 0
                   ELSE f[PickOf(t)] + Of(t \ {PickOf(t)})[t \ {PickOf(t)}]]
<1>2. ASSUME NEW t, t \subseteq s, t # s
      PROVE  Tabulates(Of(t), f, t)
  BY <1>1, <1>2
<1>3. ASSUME NEW t, t \subseteq s, t # s
      PROVE  G[t] = Of(t)[t]
  <2> DEFINE u == t \ {PickOf(t)}
  <2>1. Of(t)[t] = IF t = {} THEN 0 ELSE f[PickOf(t)] + Of(t)[u]
    BY <1>2, <1>3, TabulatedStep
  <2>2. G[t] = IF t = {} THEN 0 ELSE f[PickOf(t)] + Of(u)[u]
    BY <1>3
  <2>3. ASSUME t # {} PROVE Of(t)[u] = Of(u)[u]
    <3>1. u \subseteq s /\ u # s /\ u \subseteq t
      BY <1>3
    <3>2. Tabulates(Of(u), f, u) /\ Tabulates(Of(t), f, t)
      BY <1>2, <1>3, <3>1
    <3>3. IsFiniteSet(t)
      BY <1>1, <1>3, FS_Subset
    <3> HIDE DEF Of, u
    <3> QED
      BY <3>1, <3>2, <3>3, TabulationsAgree
  <2> HIDE DEF Of, G, u
  <2> QED
    BY <2>1, <2>2, <2>3
<1>4. ASSUME NEW t \in SUBSET s
      PROVE  G[t] = IF t = {} THEN 0 ELSE f[PickOf(t)] + G[t \ {PickOf(t)}]
  <2>1. CASE t = {}
    BY <2>1
  <2>2. CASE t # {}
    <3>1. t \ {PickOf(t)} \subseteq s /\ t \ {PickOf(t)} # s
      BY <2>2, PickLeaves
    <3>2. G[t] = f[PickOf(t)] + Of(t \ {PickOf(t)})[t \ {PickOf(t)}]
      BY <2>2
    <3> HIDE DEF Of, G
    <3> QED
      BY <1>3, <2>2, <3>1, <3>2
  <2> QED
    BY <2>1, <2>2
<1>5. Tabulates(G, f, s)
  <2>1. G = [t \in SUBSET s |-> G[t]]
    OBVIOUS
  <2> HIDE DEF G
  <2> QED
    BY <1>4, <2>1, Zenon DEF Tabulates
<1> QED
  BY <1>1, <1>5

\* The sum of a set: the element it picks, and the sum of the rest.
LEMMA TotalUnfold ==
  ASSUME NEW f, NEW S, IsFiniteSet(S)
  PROVE  Total(f, S) = IF S = {} THEN 0
                       ELSE f[PickOf(S)] + Total(f, S \ {PickOf(S)})
<1> DEFINE Of(t) == CHOOSE g : Tabulates(g, f, t)
           rest  == S \ {PickOf(S)}
<1>1. IsFiniteSet(rest)
  BY FS_Subset
<1>2. Tabulates(Of(S), f, S) /\ Tabulates(Of(rest), f, rest)
  <2>1. ASSUME NEW t, IsFiniteSet(t) PROVE Tabulates(Of(t), f, t)
    BY <2>1, TabulationExists
  <2> QED
    BY <1>1, <2>1
<1>3. Total(f, S) = Of(S)[S] /\ Total(f, rest) = Of(rest)[rest]
  BY TotalIsTabulated
<1>4. rest \subseteq S
  OBVIOUS
<1>5. Of(S)[rest] = Of(rest)[rest]
  <2> HIDE DEF Of, rest
  <2> QED
    BY <1>2, <1>4, TabulationsAgree
<1>6. Of(S)[S] = IF S = {} THEN 0 ELSE f[PickOf(S)] + Of(S)[rest]
  <2> HIDE DEF Of
  <2> QED
    BY <1>2, TabulatedStep
<1> HIDE DEF Of
<1> QED
  BY <1>3, <1>5, <1>6

LEMMA TotalEmpty ==
  ASSUME NEW f
  PROVE  Total(f, {}) = 0
BY TotalUnfold, FS_EmptySet

\* A sum of integers is an integer.
LEMMA TotalInt ==
  ASSUME NEW S, IsFiniteSet(S), NEW f, \A x \in S : f[x] \in Int
  PROVE  Total(f, S) \in Int
<1> DEFINE Bad == {s \in SUBSET S : Total(f, s) \notin Int}
<1> SUFFICES ASSUME Bad # {} PROVE FALSE
  OBVIOUS
<1>1. Bad \in SUBSET SUBSET S
  OBVIOUS
<1>2. PICK s \in Bad : \A t \in Bad : t \subseteq s => t = s
  <2> HIDE DEF Bad
  <2> QED
    BY <1>1, SmallestSet
<1>3. IsFiniteSet(s)
  BY <1>2, FS_Subset
<1>4. s # {}
  <2>1. Total(f, {}) \in Int
    BY TotalEmpty
  <2> QED
    BY <1>2, <2>1
<1>5. PickOf(s) \in S /\ s \ {PickOf(s)} \in SUBSET S /\ s \ {PickOf(s)} \notin Bad
  BY <1>2, <1>4, PickLeaves
<1>6. f[PickOf(s)] \in Int /\ Total(f, s \ {PickOf(s)}) \in Int
  BY <1>5
<1>7. Total(f, s) = f[PickOf(s)] + Total(f, s \ {PickOf(s)})
  BY <1>3, <1>4, TotalUnfold
<1> QED
  BY <1>2, <1>6, <1>7

\* Any element can be split off, not only the one CHOOSE picks.
LEMMA TotalSplit ==
  ASSUME NEW S, IsFiniteSet(S), NEW f, \A x \in S : f[x] \in Int,
         NEW e \in S
  PROVE  Total(f, S) = f[e] + Total(f, S \ {e})
<1> DEFINE Bad == {s \in SUBSET S :
                     \E x \in s : Total(f, s) # f[x] + Total(f, s \ {x})}
<1> SUFFICES ASSUME Bad # {} PROVE FALSE
  <2>1. S \in SUBSET S
    OBVIOUS
  <2> QED
    BY <2>1
<1>1. Bad \in SUBSET SUBSET S
  OBVIOUS
<1>2. PICK s \in Bad : \A t \in Bad : t \subseteq s => t = s
  <2> HIDE DEF Bad
  <2> QED
    BY <1>1, SmallestSet
<1>3. PICK x \in s : Total(f, s) # f[x] + Total(f, s \ {x})
  BY <1>2
<1> DEFINE y == PickOf(s)
<1>4. s \in SUBSET S /\ IsFiniteSet(s) /\ y \in s
  BY <1>2, FS_Subset, PickLeaves
<1>5. Total(f, s) = f[y] + Total(f, s \ {y})
  BY <1>3, <1>4, TotalUnfold
<1>6. x # y
  BY <1>3, <1>5
<1>7. s \ {y} \notin Bad /\ s \ {x} \notin Bad
  BY <1>2, <1>4
<1>8. /\ Total(f, s \ {y}) = f[x] + Total(f, (s \ {y}) \ {x})
      /\ Total(f, s \ {x}) = f[y] + Total(f, (s \ {x}) \ {y})
  BY <1>4, <1>6, <1>7
<1>9. (s \ {y}) \ {x} = (s \ {x}) \ {y}
  OBVIOUS
<1>10. Total(f, (s \ {x}) \ {y}) \in Int
  <2>1. IsFiniteSet((s \ {x}) \ {y})
    BY <1>4, FS_Subset
  <2> QED
    BY <1>4, <2>1, TotalInt
<1>11. f[x] \in Int /\ f[y] \in Int
  BY <1>4
<1>12. Total(f, s \ {y}) = f[x] + Total(f, (s \ {x}) \ {y})
  BY <1>8, <1>9
<1>13. Total(f, s) = f[x] + Total(f, s \ {x})
  <2> HIDE DEF y
  <2> DEFINE r == Total(f, (s \ {x}) \ {y})
  <2>1. r \in Int /\ Total(f, s) = f[y] + (f[x] + r)
    BY <1>5, <1>10, <1>12
  <2>2. Total(f, s \ {x}) = f[y] + r
    BY <1>8
  <2> HIDE DEF r
  <2> QED
    BY <1>11, <2>1, <2>2
<1> QED
  BY <1>3, <1>13

\* Functions that agree on a set have the same sum over it.
LEMMA TotalSame ==
  ASSUME NEW S, IsFiniteSet(S), NEW f, NEW g, \A x \in S : f[x] = g[x]
  PROVE  Total(f, S) = Total(g, S)
<1> DEFINE Bad == {s \in SUBSET S : Total(f, s) # Total(g, s)}
<1> SUFFICES ASSUME Bad # {} PROVE FALSE
  OBVIOUS
<1>1. Bad \in SUBSET SUBSET S
  OBVIOUS
<1>2. PICK s \in Bad : \A t \in Bad : t \subseteq s => t = s
  <2> HIDE DEF Bad
  <2> QED
    BY <1>1, SmallestSet
<1>3. IsFiniteSet(s)
  BY <1>2, FS_Subset
<1>4. s # {}
  BY <1>2, TotalEmpty
<1>5. PickOf(s) \in S /\ s \ {PickOf(s)} \in SUBSET S /\ s \ {PickOf(s)} \notin Bad
  BY <1>2, <1>4, PickLeaves
<1>6. /\ f[PickOf(s)] = g[PickOf(s)]
      /\ Total(f, s \ {PickOf(s)}) = Total(g, s \ {PickOf(s)})
  BY <1>5
<1>7. /\ Total(f, s) = f[PickOf(s)] + Total(f, s \ {PickOf(s)})
      /\ Total(g, s) = g[PickOf(s)] + Total(g, s \ {PickOf(s)})
  BY <1>3, <1>4, TotalUnfold
<1> QED
  BY <1>2, <1>6, <1>7

\* Changing the function at one element changes the sum by as much.
LEMMA TotalChange ==
  ASSUME NEW S, IsFiniteSet(S), NEW f \in [S -> Int], NEW e \in S, NEW v \in Int
  PROVE  Total([f EXCEPT ![e] = v], S) = Total(f, S) + v - f[e]
<1> DEFINE g == [f EXCEPT ![e] = v]
<1>1. g \in [S -> Int] /\ g[e] = v /\ \A x \in S \ {e} : g[x] = f[x]
  OBVIOUS
<1>2. IsFiniteSet(S \ {e})
  BY FS_Subset
<1> HIDE DEF g
<1>3. Total(g, S \ {e}) = Total(f, S \ {e})
  BY <1>1, <1>2, TotalSame
<1>4. Total(g, S) = g[e] + Total(g, S \ {e})
  BY <1>1, TotalSplit
<1>5. Total(f, S) = f[e] + Total(f, S \ {e})
  BY TotalSplit
<1>6. Total(f, S \ {e}) \in Int /\ f[e] \in Int
  BY <1>2, TotalInt
<1>7. Total(g, S) = Total(f, S) + v - f[e]
  BY <1>1, <1>3, <1>4, <1>5, <1>6
<1> QED
  BY <1>7 DEF g

\* A sum of zeros is zero.
LEMMA TotalZero ==
  ASSUME NEW S, IsFiniteSet(S), NEW f, \A x \in S : f[x] = 0
  PROVE  Total(f, S) = 0
<1> DEFINE Bad == {s \in SUBSET S : Total(f, s) # 0}
<1> SUFFICES ASSUME Bad # {} PROVE FALSE
  OBVIOUS
<1>1. Bad \in SUBSET SUBSET S
  OBVIOUS
<1>2. PICK s \in Bad : \A t \in Bad : t \subseteq s => t = s
  <2> HIDE DEF Bad
  <2> QED
    BY <1>1, SmallestSet
<1>3. IsFiniteSet(s) /\ s # {}
  BY <1>2, FS_Subset, TotalEmpty
<1>4. PickOf(s) \in S /\ s \ {PickOf(s)} \in SUBSET S /\ s \ {PickOf(s)} \notin Bad
  BY <1>2, <1>3, PickLeaves
<1>5. Total(f, s) = f[PickOf(s)] + Total(f, s \ {PickOf(s)})
  BY <1>3, TotalUnfold
<1> QED
  BY <1>2, <1>4, <1>5

\* The sum over two disjoint sets.
LEMMA TotalDisjoint ==
  ASSUME NEW S, NEW T, IsFiniteSet(S), IsFiniteSet(T), S \cap T = {},
         NEW f, \A x \in S \cup T : f[x] \in Int
  PROVE  Total(f, S \cup T) = Total(f, S) + Total(f, T)
<1> DEFINE Bad == {s \in SUBSET S : Total(f, s \cup T) # Total(f, s) + Total(f, T)}
<1> SUFFICES ASSUME Bad # {} PROVE FALSE
  <2>1. S \in SUBSET S
    OBVIOUS
  <2> QED
    BY <2>1
<1>1. Bad \in SUBSET SUBSET S
  OBVIOUS
<1>2. PICK s \in Bad : \A t \in Bad : t \subseteq s => t = s
  <2> HIDE DEF Bad
  <2> QED
    BY <1>1, SmallestSet
<1>3. IsFiniteSet(s) /\ IsFiniteSet(s \cup T) /\ s \in SUBSET S
  BY <1>2, FS_Subset, FS_Union
<1>4. Total(f, T) \in Int /\ Total(f, s) \in Int
  BY <1>3, TotalInt
<1>5. s # {}
  <2> SUFFICES ASSUME s = {} PROVE FALSE
    OBVIOUS
  <2>1. s \cup T = T
    OBVIOUS
  <2> QED
    BY <1>2, <1>4, <2>1, TotalEmpty
<1> DEFINE y == PickOf(s)
<1>6. y \in s /\ s \ {y} \in SUBSET S /\ s \ {y} \notin Bad
  BY <1>2, <1>3, <1>5, PickLeaves
<1>7. Total(f, (s \ {y}) \cup T) = Total(f, s \ {y}) + Total(f, T)
  BY <1>6
<1>8. Total(f, s) = f[y] + Total(f, s \ {y})
  BY <1>3, <1>6, TotalSplit
<1>9. Total(f, s \cup T) = f[y] + Total(f, (s \cup T) \ {y})
  BY <1>3, <1>6, TotalSplit
<1>10. (s \cup T) \ {y} = (s \ {y}) \cup T
  BY <1>3, <1>6
<1>11. f[y] \in Int /\ Total(f, s \ {y}) \in Int
  <2>1. IsFiniteSet(s \ {y})
    BY <1>3, FS_Subset
  <2> QED
    BY <1>3, <1>6, <2>1, TotalInt
<1>12. Total(f, s \cup T) = f[y] + (Total(f, s \ {y}) + Total(f, T))
  BY <1>7, <1>9, <1>10
<1>13. Total(f, s \cup T) = Total(f, s) + Total(f, T)
  <2> DEFINE r == Total(f, s \ {y})
             q == Total(f, T)
  <2>1. Total(f, s \cup T) = f[y] + (r + q) /\ Total(f, s) = f[y] + r
    BY <1>8, <1>12
  <2>2. f[y] \in Int /\ r \in Int /\ q \in Int
    BY <1>4, <1>11
  <2> HIDE DEF y, r
  <2>3. (f[y] + r) + q = f[y] + (r + q)
    BY <2>2
  <2> QED
    BY <2>1, <2>3
<1> QED
  BY <1>2, <1>13

\* The sum of two functions is the sum of their sums.
LEMMA TotalPlus ==
  ASSUME NEW S, IsFiniteSet(S), NEW f, NEW g, NEW h,
         \A x \in S : f[x] \in Int /\ g[x] \in Int /\ h[x] = f[x] + g[x]
  PROVE  Total(h, S) = Total(f, S) + Total(g, S)
<1> DEFINE Bad == {s \in SUBSET S : Total(h, s) # Total(f, s) + Total(g, s)}
<1> SUFFICES ASSUME Bad # {} PROVE FALSE
  <2>1. S \in SUBSET S
    OBVIOUS
  <2> QED
    BY <2>1
<1>1. Bad \in SUBSET SUBSET S
  OBVIOUS
<1>2. PICK s \in Bad : \A t \in Bad : t \subseteq s => t = s
  <2> HIDE DEF Bad
  <2> QED
    BY <1>1, SmallestSet
<1>3. IsFiniteSet(s) /\ s \in SUBSET S
  BY <1>2, FS_Subset
<1>4. s # {}
  <2> SUFFICES ASSUME s = {} PROVE FALSE
    OBVIOUS
  <2>1. Total(f, s) = 0 /\ Total(g, s) = 0 /\ Total(h, s) = 0
    BY TotalEmpty
  <2>2. Total(h, s) # Total(f, s) + Total(g, s)
    BY <1>2
  <2> QED
    BY <2>1, <2>2
<1> DEFINE y == PickOf(s)
           r == s \ {y}
<1>5. y \in S /\ r \in SUBSET S /\ r \notin Bad /\ IsFiniteSet(r)
  BY <1>2, <1>3, <1>4, PickLeaves, FS_Subset
<1>6. /\ Total(f, s) = f[y] + Total(f, r)
      /\ Total(g, s) = g[y] + Total(g, r)
      /\ Total(h, s) = h[y] + Total(h, r)
  BY <1>3, <1>4, TotalUnfold
<1>7. Total(f, r) \in Int /\ Total(g, r) \in Int
  BY <1>5, TotalInt
<1>8. Total(h, r) = Total(f, r) + Total(g, r)
  BY <1>5
<1>9. f[y] \in Int /\ g[y] \in Int /\ h[y] = f[y] + g[y]
  BY <1>5
<1> HIDE DEF y, r
<1>10. Total(h, s) = Total(f, s) + Total(g, s)
  BY <1>6, <1>7, <1>8, <1>9
<1> QED
  BY <1>2, <1>10

\* Only the elements with a value count.
LEMMA TotalSupport ==
  ASSUME NEW S, NEW T, IsFiniteSet(S), T \subseteq S,
         NEW f, \A x \in S : f[x] \in Int, \A x \in S \ T : f[x] = 0
  PROVE  Total(f, S) = Total(f, T)
<1>1. IsFiniteSet(T) /\ IsFiniteSet(S \ T)
  BY FS_Subset
<1>2. Total(f, S \ T) = 0 /\ Total(f, T) \in Int
  BY <1>1, TotalZero, TotalInt
<1>3. T \cup (S \ T) = S
  OBVIOUS
<1>4. Total(f, T \cup (S \ T)) = Total(f, T) + Total(f, S \ T)
  <2>1. T \cap (S \ T) = {} /\ \A x \in T \cup (S \ T) : f[x] \in Int
    OBVIOUS
  <2> QED
    BY <1>1, <2>1, TotalDisjoint
<1>5. Total(f, S) = Total(f, T) + 0
  BY <1>2, <1>3, <1>4
<1> QED
  BY <1>2, <1>5

-----------------------------------------------------------------------------
(* Every coin a reversal asked for is accounted for.                       *)

\* The event was applied and no handler will apply it again: its row is not
\* "failed", and a handler that still has it only has to mark it.
Applied(e) ==
    /\ evStatus[e] \in {"received", "processed"}
    /\ \A w \in Worker : task[w] = e => pc[w] = "finish"

\* A debit row of a reversal was written by an event that owes nothing any
\* more, so the ON CONFLICT DO NOTHING on its key never drops a debit: a
\* refund and a reconciliation are applied once, and what a lost dispute takes
\* is all there is (its handler may fail in stopRenewal and apply it again).
DebitKeysOK ==
    /\ \A e \in Event : e \in debitKeys =>
         \/ e.kind = "refund" /\ Applied(e)
         \/ e.kind = "disputeLost" /\ reversed[e.checkout] >= Coins[e.checkout]
    /\ \A c \in Checkout : [late |-> c] \in debitKeys =>
         \E e \in Event : e.kind = "paid" /\ e.checkout = c /\ Applied(e)

\* The snapshot of an open reversal shows the checkout's credit whole or not.
SnapshotWhole ==
    \A w \in Worker : pc[w] = "commit" => snap[w] \in {0, Coins[Chk(w)]}

DebtBooks   == Total(reversed, Checkout) = debits + debt + writtenOff
WalletBooks ==
    balance = Total(added, Checkout)
              - Price * Cardinality({g \in Gift : gifts[g] = "sent"})
              - debits

\* The inductive invariant of the books.
BooksInv == ReversalInv /\ SnapshotWhole /\ DebitKeysOK /\ DebtBooks /\ WalletBooks

\* An event's key is not a late credit's key.
LEMMA KeysDiffer ==
  ASSUME NEW e \in Event, NEW c
  PROVE  e # [late |-> c]
<1>1. DOMAIN e = {"kind", "checkout", "minor"}
  BY EventAssumption
<1>2. DOMAIN [late |-> c] = {"late"}
  OBVIOUS
<1> QED
  BY <1>1, <1>2

\* The key of a late credit names its checkout.
LEMMA LateKeysDiffer ==
  ASSUME NEW c, NEW d, [late |-> c] = [late |-> d]
  PROVE  c = d
<1>1. [late |-> c].late = [late |-> d].late
  OBVIOUS
<1> QED
  BY <1>1

\* An applied event stays applied: the ledger gives no handler its row again.
LEMMA AppliedKept ==
  ASSUME Inv, [Next]_vars, NEW e \in Event, Applied(e)
  PROVE  Applied(e)'
<1> USE DEF provider, wallet, ledger, local, history
<1>0. /\ task \in [Worker -> Event \cup {NoEvent}] /\ pc \in [Worker -> Phase]
      /\ e # NoEvent
      /\ evStatus \in [Event -> {"none", "received", "processed", "failed"}]
  BY EventAssumption DEF Inv, TypeOK
<1>1. CASE UNCHANGED <<evStatus, task, pc>>
  BY <1>1 DEF Applied
<1>2. ASSUME NEW w \in Worker, pc[w] # "finish", UNCHANGED <<evStatus, task>>,
             NEW p, Goto(w, p)
      PROVE  Applied(e)'
  BY <1>0, <1>2 DEF Applied, Goto
<1>3. ASSUME NEW w \in Worker, NEW f \in Event, Begin(w, f) PROVE Applied(e)'
  <2>1. /\ evStatus[f] \in {"none", "failed"}
        /\ evStatus' = [evStatus EXCEPT ![f] = "received"]
        /\ task' = [task EXCEPT ![w] = f] /\ pc' = [pc EXCEPT ![w] = "apply"]
    BY <1>3 DEF Begin, Opens, Goto
  <2> QED
    BY <1>0, <2>1 DEF Applied
<1>4. ASSUME NEW w \in Worker, FinishProcessed(w) \/ FinishFailed(w) \/ Crash(w)
      PROVE  Applied(e)'
  <2>1. task' = [task EXCEPT ![w] = NoEvent] /\ pc' = [pc EXCEPT ![w] = "idle"]
    BY <1>4 DEF FinishProcessed, FinishFailed, Crash, Release, Goto
  <2>2. \/ evStatus' = evStatus
        \/ evStatus' = [evStatus EXCEPT ![task[w]] = "processed"]
        \/ /\ pc[w] = "fail"
           /\ evStatus' = [evStatus EXCEPT ![task[w]] = "failed"]
    BY <1>4 DEF FinishProcessed, FinishFailed, Crash
  <2>3. evStatus'[e] \in {"received", "processed"}
    BY <1>0, <2>2 DEF Applied
  <2> QED
    BY <1>0, <2>1, <2>3 DEF Applied
<1>5. ASSUME NEW w \in Worker, Handle(w) PROVE Applied(e)'
  <2>1. \/ FinishProcessed(w) \/ FinishFailed(w)
        \/ /\ pc[w] # "finish" /\ UNCHANGED <<evStatus, task>>
           /\ \E p \in Phase : Goto(w, p)
    BY <1>5 DEF Handle, ApplyCheckoutCompleted, BeginReversal, RefuseEvent,
       CommitReversal, StopRenewal, CreditRead, CreditUpdateWallet,
       CreditInsertPurchase, RollbackWalletCredit, ReconcileCoinReversal, Phase
  <2> QED
    BY <1>2, <1>4, <2>1
<1>6. ASSUME NEW w \in Worker, StatementFails(w) PROVE Applied(e)'
  BY <1>2, <1>6 DEF StatementFails
<1>7. CASE UNCHANGED vars
  BY <1>1, <1>7 DEF vars
<1>8. ASSUME NEW f \in Event, Emit(f) \/ AcknowledgeDuplicate(f)
      PROVE  Applied(e)'
  BY <1>1, <1>8 DEF Emit, AcknowledgeDuplicate
<1>9. ASSUME NEW g \in Gift, SendGift(g) \/ ReverseGift(g) PROVE Applied(e)'
  BY <1>1, <1>9 DEF SendGift, ReverseGift
<1>10. ASSUME NEW writeOff \in BOOLEAN, ReviewFrozenWallet(writeOff)
       PROVE  Applied(e)'
  BY <1>1, <1>10 DEF ReviewFrozenWallet
<1> QED
  BY <1>3, <1>4, <1>5, <1>6, <1>7, <1>8, <1>9, <1>10 DEF Next

\* Handlers that write to the ledger have an event of a checkout.
LEMMA TaskOfHandler ==
  ASSUME Inv, NEW w \in Worker, pc[w] # "idle"
  PROVE  /\ task[w] \in Event /\ task[w] # NoEvent
         /\ Chk(w) = task[w].checkout /\ Chk(w) \in Checkout
BY EventAssumption DEF Inv, TypeOK, HandlerOK, Chk

\* The debit a refund or lost dispute writes has a new key, and a lost
\* dispute's debit completes the checkout's reversal.
LEMMA ReversalKeyIsNew ==
  ASSUME ReversalInv, SnapshotWhole, DebitKeysOK, NEW w \in Worker,
         pc[w] = "commit", Delta(task[w], snap[w]) > 0
  PROVE  /\ task[w] \notin debitKeys
         /\ task[w].kind \in {"refund", "disputeLost"}
         /\ task[w].kind = "disputeLost" =>
              reversed[Chk(w)] + Delta(task[w], snap[w]) = Coins[Chk(w)]
<1> DEFINE e == task[w]
           c == Chk(w)
<1>1. e \in Event /\ e # NoEvent /\ c = e.checkout /\ c \in Checkout
  BY TaskOfHandler DEF ReversalInv
<1>2. e.kind \in {"refund", "disputeLost"}
  BY DEF Delta
<1>3. /\ reversed[c] \in Nat /\ Coins[c] \in Nat /\ snap[w] \in Nat
      /\ snap[w] \in {0, Coins[c]}
  BY <1>1, CoinsAssumption DEF ReversalInv, Inv, TypeOK, SnapshotWhole
<1>4. /\ Delta(e, snap[w]) \in Int
      /\ Delta(e, snap[w]) <= snap[w] - reversed[c]
  BY <1>1, <1>2, <1>3, OwedInt, PaymentAfterType DEF Delta, ReversalInv, Inv, TypeOK
<1>5. ASSUME e.kind = "disputeLost"
      PROVE  reversed[c] + Delta(e, snap[w]) = Coins[c] /\ reversed[c] < Coins[c]
  <2>1. PaymentAfter(e).status = "chargeback"
    <3>1. payment[e.checkout] \in [status : PayStatus, refunded : Nat]
      BY <1>1 DEF ReversalInv, Inv, TypeOK
    <3> QED
      BY <1>5, <3>1 DEF PaymentAfter
  <2>2. Delta(e, snap[w]) = snap[w] - reversed[c]
    BY <1>1, <1>5, <2>1 DEF Delta, Owed, Target
  <2> QED
    BY <1>3, <2>2
<1>6. e \notin debitKeys
  BY <1>1, <1>3, <1>5 DEF DebitKeysOK, Applied
<1> QED
  BY <1>2, <1>5, <1>6

\* So has the debit of a reconciliation.
LEMMA LateKeyIsNew ==
  ASSUME Inv, DebitKeysOK, NEW w \in Worker, pc[w] = "reconcile"
  PROVE  [late |-> Chk(w)] \notin debitKeys
<1>1. /\ task[w] \in Event /\ task[w].kind = "paid"
      /\ task[w].checkout = Chk(w) /\ Chk(w) \in Checkout
  BY TaskOfHandler DEF Inv, HandlerOK
<1>2. \A e \in Event : e.kind = "paid" /\ e.checkout = Chk(w) => e = task[w]
  BY <1>1, EventAssumption
<1> QED
  BY <1>1, <1>2 DEF DebitKeysOK, Applied

\* A clawback that has coins to take, by a refund, a lost dispute or a
\* reconciliation, and what its debit row's key says.
Clawback(w, delta, key) ==
    /\ Chk(w) \in Checkout /\ task[w] \in Event /\ task[w].checkout = Chk(w)
    /\ key \notin debitKeys
    /\ TakeBack(Chk(w), delta, key)
    /\ UNCHANGED <<added, writtenOff, gifts, purchased, task, evStatus>>
    /\ \/ key = task[w] /\ task[w].kind = "refund" /\ Goto(w, "finish")
       \/ /\ key = task[w] /\ task[w].kind = "disputeLost"
          /\ reversed[Chk(w)] + delta = Coins[Chk(w)]
       \/ key = [late |-> Chk(w)] /\ task[w].kind = "paid" /\ Goto(w, "finish")

\* What a commit of a refund or dispute does to the books.
LEMMA CommitClawsBack ==
  ASSUME BooksInv, NEW w \in Worker, CommitReversal(w)
  PROVE  \/ /\ UNCHANGED <<reversed, debits, debt, balance, debitKeys>>
            /\ UNCHANGED <<added, writtenOff, gifts>>
         \/ \E delta \in Nat \ {0}, key \in Event \cup LateKey : Clawback(w, delta, key)
<1> USE DEF provider, wallet, ledger, local, history
<1> DEFINE e     == task[w]
           delta == Delta(e, snap[w])
<1>1. e \in Event /\ e.checkout = Chk(w) /\ Chk(w) \in Checkout /\ pc[w] = "commit"
  BY TaskOfHandler DEF CommitReversal, BooksInv, ReversalInv
<1>2. delta \in Int
  <2>1. PaymentAfter(e) \in [status : PayStatus, refunded : Nat]
    BY <1>1, PaymentAfterType DEF BooksInv, ReversalInv, Inv
  <2>2. snap[w] \in Nat /\ reversed \in [Checkout -> Nat]
    BY DEF BooksInv, ReversalInv, Inv, TypeOK
  <2> QED
    BY <1>1, <2>1, <2>2, OwedInt DEF Delta
<1>3. UNCHANGED <<added, writtenOff, task, evStatus>>
  BY DEF CommitReversal
<1>4. CASE UNCHANGED ledger /\ UNCHANGED wallet
  BY <1>3, <1>4
<1>5. CASE /\ TakeBack(Chk(w), delta, e)
           /\ Goto(w, IF e.kind = "disputeLost" THEN "renew" ELSE "finish")
           /\ UNCHANGED <<purchased, gifts>>
  <2>1. CASE delta <= 0
    BY <1>3, <1>5, <2>1 DEF TakeBack
  <2>2. CASE delta > 0
    <3>1. /\ e \notin debitKeys /\ e.kind \in {"refund", "disputeLost"}
          /\ e.kind = "disputeLost" =>
               reversed[Chk(w)] + delta = Coins[Chk(w)]
      BY <1>1, <2>2, ReversalKeyIsNew DEF BooksInv
    <3>2. Clawback(w, delta, e)
      BY <1>1, <1>3, <1>5, <3>1 DEF Clawback
    <3> HIDE DEF delta, e
    <3> QED
      BY <1>1, <1>2, <2>2, <3>2
  <2> QED
    BY <1>2, <2>1, <2>2
<1> QED
  BY <1>1, <1>4, <1>5 DEF CommitReversal

\* What a reconciliation does to the books.
LEMMA ReconcileClawsBack ==
  ASSUME BooksInv, NEW w \in Worker, ReconcileCoinReversal(w)
  PROVE  \/ /\ UNCHANGED <<reversed, debits, debt, balance, debitKeys>>
            /\ UNCHANGED <<added, writtenOff, gifts>>
         \/ \E delta \in Nat \ {0}, key \in Event \cup LateKey : Clawback(w, delta, key)
<1> USE DEF provider, wallet, ledger, local, history
<1> DEFINE c     == Chk(w)
           delta == Owed(c, payment[c], Credited(c))
           key   == [late |-> c]
<1>1. /\ task[w] \in Event /\ task[w].checkout = c /\ c \in Checkout
      /\ pc[w] = "reconcile"
  BY TaskOfHandler DEF ReconcileCoinReversal, BooksInv, ReversalInv
<1>2. delta \in Int
  <2>1. Credited(c) \in Nat
    BY <1>1, CoinsAssumption DEF Credited
  <2> QED
    BY <1>1, <2>1, OwedInt DEF BooksInv, ReversalInv, Inv, TypeOK
<1>3. UNCHANGED <<added, writtenOff, task, evStatus, purchased, gifts>> /\ Goto(w, "finish")
  BY DEF ReconcileCoinReversal
<1>4. CASE UNCHANGED <<balance, debt, frozen, reversed, debits, debitKeys>>
  BY <1>3, <1>4
<1>5. CASE TakeBack(c, delta, key)
  <2>1. CASE delta <= 0
    BY <1>3, <1>5, <2>1 DEF TakeBack
  <2>2. CASE delta > 0
    <3>1. key \notin debitKeys /\ task[w].kind = "paid"
      BY <1>1, LateKeyIsNew DEF BooksInv, ReversalInv, Inv, HandlerOK
    <3>2. Clawback(w, delta, key)
      BY <1>1, <1>3, <1>5, <3>1 DEF Clawback
    <3>3. key \in LateKey
      BY <1>1 DEF LateKey
    <3> HIDE DEF delta, key
    <3> QED
      BY <1>2, <2>2, <3>2, <3>3
  <2> QED
    BY <1>2, <2>1, <2>2
<1> QED
  BY <1>4, <1>5 DEF ReconcileCoinReversal

\* The writers of the books.
LEMMA BooksSteps ==
  ASSUME BooksInv, [Next]_vars
  PROVE  \/ /\ UNCHANGED <<reversed, debits, debt, balance, debitKeys>>
            /\ UNCHANGED <<added, writtenOff, gifts>>
         \/ \E w \in Worker, delta \in Nat \ {0}, key \in Event \cup LateKey :
              Clawback(w, delta, key)
         \/ \E w \in Worker : CreditUpdateWallet(w) \/ RollbackWalletCredit(w)
         \/ \E g \in Gift : SendGift(g) \/ ReverseGift(g)
         \/ \E writeOff \in BOOLEAN : ReviewFrozenWallet(writeOff)
<1> USE DEF provider, wallet, ledger, local, history
<1> DEFINE Quiet == /\ UNCHANGED <<reversed, debits, debt, balance, debitKeys>>
                    /\ UNCHANGED <<added, writtenOff, gifts>>
           Claws(w) == \E delta \in Nat \ {0}, key \in Event \cup LateKey :
                         Clawback(w, delta, key)
<1>1. ASSUME NEW w \in Worker, CommitReversal(w) \/ ReconcileCoinReversal(w)
      PROVE  Quiet \/ Claws(w)
  BY <1>1, CommitClawsBack, ReconcileClawsBack
<1>2. ASSUME NEW w \in Worker, Handle(w)
      PROVE  \/ Quiet
             \/ CommitReversal(w) \/ ReconcileCoinReversal(w)
             \/ CreditUpdateWallet(w) \/ RollbackWalletCredit(w)
  BY <1>2 DEF Handle, ApplyCheckoutCompleted, BeginReversal, RefuseEvent,
     StopRenewal, CreditRead, CreditInsertPurchase, FinishProcessed, FinishFailed
<1>3. ASSUME UNCHANGED vars PROVE Quiet
  BY <1>3 DEF vars
<1>4. ASSUME NEW w \in Worker, StatementFails(w) \/ Crash(w) PROVE Quiet
  BY <1>4 DEF StatementFails, Crash
<1>5. ASSUME NEW w \in Worker, NEW e \in Event, Begin(w, e) PROVE Quiet
  BY <1>5 DEF Begin
<1>6. ASSUME NEW e \in Event, Emit(e) \/ AcknowledgeDuplicate(e) PROVE Quiet
  BY <1>6 DEF Emit, AcknowledgeDuplicate
<1> HIDE DEF Quiet, Claws
<1>7. \/ Quiet
      \/ \E w \in Worker : Claws(w)
      \/ \E w \in Worker : CreditUpdateWallet(w) \/ RollbackWalletCredit(w)
      \/ \E g \in Gift : SendGift(g) \/ ReverseGift(g)
      \/ \E writeOff \in BOOLEAN : ReviewFrozenWallet(writeOff)
  <2>1. CASE UNCHANGED vars
    BY <1>3, <2>1
  <2>2. CASE Next
    BY <1>1, <1>2, <1>4, <1>5, <1>6, <2>2 DEF Next
  <2> QED
    BY <2>1, <2>2
<1> QED
  BY <1>7 DEF Quiet, Claws

\* A clawback keeps both books.
LEMMA ClawbackKeepsBooks ==
  ASSUME BooksInv, NEW w \in Worker, NEW delta \in Nat \ {0},
         NEW key \in Event \cup LateKey, Clawback(w, delta, key)
  PROVE  DebtBooks' /\ WalletBooks'
<1> DEFINE c == Chk(w)
<1>1. /\ c \in Checkout /\ key \notin debitKeys /\ TakeBack(c, delta, key)
      /\ UNCHANGED <<added, writtenOff, gifts>>
  BY DEF Clawback
<1>2. /\ balance \in Nat /\ debt \in Nat /\ debits \in Nat /\ writtenOff \in Nat
      /\ reversed \in [Checkout -> Nat] /\ reversed \in [Checkout -> Int]
      /\ added \in [Checkout -> Int]
  BY DEF BooksInv, ReversalInv, Inv, TypeOK
<1>3. Debit(delta) \in Nat
  BY <1>2 DEF Debit, MinOf
<1>4. /\ balance' = balance - Debit(delta)
      /\ debt' = debt + (delta - Debit(delta))
      /\ debits' = debits + Debit(delta)
      /\ reversed' = [reversed EXCEPT ![c] = reversed[c] + delta]
  BY <1>1, <1>2 DEF TakeBack, Shortfall
<1>5. Total(reversed', Checkout) = Total(reversed, Checkout) + (reversed[c] + delta) - reversed[c]
  <2>1. reversed[c] + delta \in Int /\ reversed \in [Checkout -> Int] /\ c \in Checkout
    BY <1>1, <1>2
  <2> HIDE DEF c
  <2>2. Total([reversed EXCEPT ![c] = reversed[c] + delta], Checkout)
          = Total(reversed, Checkout) + (reversed[c] + delta) - reversed[c]
    BY <2>1, TotalChange, FiniteAssumption
  <2> QED
    BY <1>4, <2>2
<1>6. Total(reversed, Checkout) \in Int /\ Total(added, Checkout) \in Int
  BY <1>2, TotalInt, FiniteAssumption
<1>7. DebtBooks'
  <2>1. reversed[c] \in Int
    BY <1>1, <1>2
  <2>2. Total(reversed, Checkout) = debits + debt + writtenOff
    BY DEF BooksInv, DebtBooks
  <2>3. Total(reversed', Checkout) = debits' + debt' + writtenOff'
    BY <1>1, <1>2, <1>3, <1>4, <1>5, <1>6, <2>1, <2>2
  <2> QED
    BY <2>3 DEF DebtBooks
<1>8. WalletBooks'
  <2> DEFINE sent == Price * Cardinality({g \in Gift : gifts[g] = "sent"})
  <2>1. sent \in Int
    <3>1. IsFiniteSet({g \in Gift : gifts[g] = "sent"})
      BY FiniteAssumption, FS_Subset
    <3> QED
      BY <3>1, PriceAssumption, FS_CardinalityType
  <2>2. balance = Total(added, Checkout) - sent - debits
    BY DEF BooksInv, WalletBooks
  <2>3. sent' = sent /\ Total(added, Checkout)' = Total(added, Checkout)
    BY <1>1
  <2>4. balance' = Total(added, Checkout) - sent - debits'
    <3> HIDE DEF sent
    <3> QED
      BY <1>2, <1>3, <1>4, <1>6, <2>1, <2>2
  <2>5. balance' = Total(added, Checkout)' - sent' - debits'
    BY <2>3, <2>4
  <2> QED
    BY <2>5 DEF WalletBooks
<1> QED
  BY <1>7, <1>8

\* The credit of a checkout, and its compensation, keep the wallet's books.
LEMMA CreditKeepsBooks ==
  ASSUME BooksInv, NEW w \in Worker, CreditUpdateWallet(w) \/ RollbackWalletCredit(w)
  PROVE  DebtBooks' /\ WalletBooks'
<1> USE DEF provider, wallet, ledger, local, history
<1> DEFINE c == Chk(w)
<1>1. /\ UNCHANGED <<reversed, debits, debt, writtenOff, gifts>>
      /\ c \in Checkout
  BY TaskOfHandler DEF CreditUpdateWallet, RollbackWalletCredit, BooksInv, ReversalInv
<1>2. /\ balance \in Nat /\ debits \in Nat /\ added \in [Checkout -> Int]
      /\ seen[w] \in Nat /\ Coins[c] \in Int
  BY <1>1, CoinsAssumption DEF BooksInv, ReversalInv, Inv, TypeOK
<1>3. DebtBooks'
  BY <1>1 DEF DebtBooks, BooksInv
<1>4. \/ UNCHANGED <<balance, added>>
      \/ \E n \in {Coins[c], 0 - Coins[c]} :
           /\ balance' = balance + n
           /\ added' = [added EXCEPT ![c] = added[c] + n]
  <2>1. CASE CreditUpdateWallet(w)
    BY <1>2, <2>1 DEF CreditUpdateWallet, Matches
  <2>2. CASE RollbackWalletCredit(w) /\ ~UNCHANGED <<balance, added>>
    <3>1. /\ balance = seen[w] + Coins[c]
          /\ balance' = seen[w]
          /\ added' = [added EXCEPT ![c] = added[c] - Coins[c]]
      BY <2>2 DEF RollbackWalletCredit, Matches
    <3>2. balance' = balance + (0 - Coins[c])
      BY <1>2, <3>1
    <3>3. added[c] - Coins[c] = added[c] + (0 - Coins[c])
      BY <1>1, <1>2
    <3> QED
      BY <3>1, <3>2, <3>3
  <2> QED
    BY <2>1, <2>2
<1>5. WalletBooks'
  <2> DEFINE sent == Price * Cardinality({g \in Gift : gifts[g] = "sent"})
  <2>1. sent \in Int /\ Total(added, Checkout) \in Int
    <3>1. IsFiniteSet({g \in Gift : gifts[g] = "sent"})
      BY FiniteAssumption, FS_Subset
    <3> QED
      BY <1>2, <3>1, PriceAssumption, FS_CardinalityType, FiniteAssumption, TotalInt
  <2>2. balance = Total(added, Checkout) - sent - debits
    BY DEF BooksInv, WalletBooks
  <2>3. sent' = sent /\ debits' = debits
    BY <1>1
  <2>4. CASE UNCHANGED <<balance, added>>
    BY <2>2, <2>3, <2>4 DEF WalletBooks
  <2>5. ASSUME NEW n \in Int, balance' = balance + n,
               added' = [added EXCEPT ![c] = added[c] + n]
        PROVE  WalletBooks'
    <3>1. Total(added', Checkout) = Total(added, Checkout) + (added[c] + n) - added[c]
      <4>1. added[c] + n \in Int
        BY <1>1, <1>2
      <4> QED
        BY <1>1, <1>2, <2>5, <4>1, TotalChange, FiniteAssumption
    <3>2. balance' = Total(added', Checkout) - sent - debits
      <4>1. added[c] \in Int
        BY <1>1, <1>2
      <4> HIDE DEF sent
      <4> QED
        BY <1>2, <2>1, <2>2, <2>5, <3>1, <4>1
    <3>3. balance' = Total(added', Checkout) - sent' - debits'
      BY <2>3, <3>2
    <3> QED
      BY <3>3 DEF WalletBooks
  <2> QED
    BY <1>2, <1>4, <2>4, <2>5
<1> QED
  BY <1>3, <1>5

\* Sending a gift and reversing one keep the wallet's books.
LEMMA GiftKeepsBooks ==
  ASSUME BooksInv, NEW g \in Gift, SendGift(g) \/ ReverseGift(g)
  PROVE  DebtBooks' /\ WalletBooks'
<1> USE DEF provider, wallet, ledger, local, history
<1> DEFINE Sent == {h \in Gift : gifts[h] = "sent"}
<1>1. UNCHANGED <<reversed, debits, debt, writtenOff, added>>
  BY DEF SendGift, ReverseGift
<1>2. /\ balance \in Nat /\ debits \in Nat /\ added \in [Checkout -> Int]
      /\ gifts \in [Gift -> {"none", "sent", "refunded"}]
  BY DEF BooksInv, ReversalInv, Inv, TypeOK
<1>3. DebtBooks'
  BY <1>1 DEF DebtBooks, BooksInv
<1>4. IsFiniteSet(Sent) /\ Cardinality(Sent) \in Nat
  BY FiniteAssumption, FS_Subset, FS_CardinalityType
<1>5. Total(added, Checkout) \in Int
  BY <1>2, TotalInt, FiniteAssumption
<1>6. balance = Total(added, Checkout) - Price * Cardinality(Sent) - debits
  BY DEF BooksInv, WalletBooks
<1>7. balance' = Total(added, Checkout) - Price * Cardinality(Sent') - debits
  <2>1. CASE SendGift(g)
    <3>1. balance' = balance - Price /\ gifts' = [gifts EXCEPT ![g] = "sent"] /\ g \notin Sent
      BY <2>1 DEF SendGift
    <3>2. Sent' = Sent \cup {g}
      BY <1>2, <3>1
    <3>3. Cardinality(Sent') = Cardinality(Sent) + 1
      BY <1>4, <3>1, <3>2, FS_AddElement
    <3>4. Price * (Cardinality(Sent) + 1) = Price * Cardinality(Sent) + Price
      BY <1>4, PriceAssumption
    <3>5. Price * Cardinality(Sent) \in Int
      BY <1>4, PriceAssumption
    <3> HIDE DEF Sent
    <3>6. Price * Cardinality(Sent') = Price * Cardinality(Sent) + Price
      BY <3>3, <3>4
    <3> QED
      BY <1>2, <1>5, <1>6, <3>1, <3>5, <3>6, PriceAssumption
  <2>2. CASE ReverseGift(g)
    <3>1. balance' = balance + Price /\ gifts' = [gifts EXCEPT ![g] = "refunded"] /\ g \in Sent
      BY <2>2 DEF ReverseGift
    <3>2. Sent' = Sent \ {g}
      BY <1>2, <3>1
    <3>3. Cardinality(Sent') = Cardinality(Sent) - 1
      BY <1>4, <3>1, <3>2, FS_RemoveElement
    <3>4. Price * (Cardinality(Sent) - 1) = Price * Cardinality(Sent) - Price
      BY <1>4, PriceAssumption
    <3>5. Price * Cardinality(Sent) \in Int
      BY <1>4, PriceAssumption
    <3> HIDE DEF Sent
    <3>6. Price * Cardinality(Sent') = Price * Cardinality(Sent) - Price
      BY <3>3, <3>4
    <3> QED
      BY <1>2, <1>5, <1>6, <3>1, <3>5, <3>6, PriceAssumption
  <2> QED
    BY <2>1, <2>2
<1>8. WalletBooks'
  BY <1>1, <1>7 DEF WalletBooks
<1> QED
  BY <1>3, <1>8

\* An operator's review moves debt to the debits or writes it off.
LEMMA ReviewKeepsBooks ==
  ASSUME BooksInv, NEW writeOff \in BOOLEAN, ReviewFrozenWallet(writeOff)
  PROVE  DebtBooks' /\ WalletBooks'
<1> USE DEF provider, wallet, ledger, local, history
<1> DEFINE collect == MinOf(debt, balance)
           sent    == Price * Cardinality({g \in Gift : gifts[g] = "sent"})
<1>1. /\ UNCHANGED <<reversed, added, gifts>>
      /\ balance' = balance - collect /\ debits' = debits + collect
      /\ writtenOff' = writtenOff + (debt - collect) /\ debt' = 0
  BY DEF ReviewFrozenWallet
<1>2. /\ balance \in Nat /\ debits \in Nat /\ debt \in Nat /\ writtenOff \in Nat
      /\ collect \in Nat /\ added \in [Checkout -> Int]
  BY DEF BooksInv, ReversalInv, Inv, TypeOK, MinOf
<1>3. sent \in Int /\ Total(added, Checkout) \in Int
  <2>1. IsFiniteSet({g \in Gift : gifts[g] = "sent"})
    BY FiniteAssumption, FS_Subset
  <2> QED
    BY <1>2, <2>1, PriceAssumption, FS_CardinalityType, FiniteAssumption, TotalInt
<1>4. /\ Total(reversed, Checkout) = debits + debt + writtenOff
      /\ balance = Total(added, Checkout) - sent - debits
  BY DEF BooksInv, DebtBooks, WalletBooks
<1> HIDE DEF collect, sent
<1>5. DebtBooks'
  <2>1. Total(reversed, Checkout) = debits' + debt' + writtenOff'
    BY <1>1, <1>2, <1>4
  <2> QED
    BY <1>1, <2>1 DEF DebtBooks
<1>6. WalletBooks'
  <2>1. balance' = Total(added, Checkout) - sent - debits'
    BY <1>1, <1>2, <1>3, <1>4
  <2> QED
    BY <1>1, <2>1 DEF WalletBooks, sent
<1> QED
  BY <1>5, <1>6

\* A clawback keeps DebitKeysOK.
LEMMA ClawbackKeepsKeys ==
  ASSUME BooksInv, [Next]_vars, NEW w \in Worker, NEW delta \in Nat \ {0},
         NEW key \in Event \cup LateKey, Clawback(w, delta, key)
  PROVE  DebitKeysOK'
<1> DEFINE c == Chk(w)
<1>1. /\ c \in Checkout /\ task[w] \in Event /\ task[w].checkout = c
      /\ UNCHANGED <<task, evStatus>>
  BY DEF Clawback
<1>2. /\ reversed' = [reversed EXCEPT ![c] = reversed[c] + delta]
      /\ debitKeys' = debitKeys \cup {key}
  BY DEF Clawback, TakeBack, BooksInv, ReversalInv, Inv, TypeOK
<1>3. /\ reversed \in [Checkout -> Nat] /\ Coins \in [Checkout -> Nat]
      /\ pc \in [Worker -> Phase] /\ Inv
  BY CoinsAssumption DEF BooksInv, ReversalInv, Inv, TypeOK
<1>4. \A d \in Checkout : reversed'[d] >= reversed[d] /\ reversed'[d] \in Nat
  BY <1>1, <1>2, <1>3
<1>5. ASSUME Goto(w, "finish"), NEW e \in Event, e = task[w]
      PROVE  Applied(e)'
  <2>1. evStatus[task[w]] = "received"
    BY <1>1, EventAssumption DEF BooksInv, ReversalInv, Inv, OneHandlerPerEvent
  <2>2. \A v \in Worker : task[v] = task[w] => v = w
    BY <1>1, EventAssumption DEF BooksInv, ReversalInv, Inv, OneHandlerPerEvent
  <2> QED
    BY <1>1, <1>3, <1>5, <2>1, <2>2 DEF Goto, Applied
<1>6. ASSUME NEW e \in Event, e \in debitKeys'
      PROVE  \/ e.kind = "refund" /\ Applied(e)'
             \/ e.kind = "disputeLost" /\ reversed'[e.checkout] >= Coins[e.checkout]
  <2>1. e.checkout \in Checkout
    BY EventAssumption
  <2>2. CASE e \in debitKeys
    <3>1. CASE e.kind = "refund" /\ Applied(e)
      BY <1>3, <3>1, AppliedKept
    <3>2. CASE e.kind = "disputeLost" /\ reversed[e.checkout] >= Coins[e.checkout]
      BY <1>3, <1>4, <2>1, <3>2
    <3> QED
      BY <2>2, <3>1, <3>2 DEF BooksInv, DebitKeysOK
  <2>3. CASE e = key
    <3>1. key = task[w]
      BY <1>1, <2>3, KeysDiffer DEF Clawback
    <3>2. CASE task[w].kind = "refund" /\ Goto(w, "finish")
      BY <1>5, <2>3, <3>1, <3>2
    <3>3. CASE task[w].kind = "disputeLost" /\ reversed[c] + delta = Coins[c]
      BY <1>1, <1>2, <1>3, <2>3, <3>1, <3>3
    <3> QED
      BY <2>3, <3>2, <3>3, KeysDiffer DEF Clawback
  <2> QED
    BY <1>2, <1>6, <2>2, <2>3
<1>7. ASSUME NEW d \in Checkout, [late |-> d] \in debitKeys'
      PROVE  \E e \in Event : e.kind = "paid" /\ e.checkout = d /\ Applied(e)'
  <2>1. CASE [late |-> d] \in debitKeys
    <3>1. PICK e \in Event : e.kind = "paid" /\ e.checkout = d /\ Applied(e)
      BY <2>1 DEF BooksInv, DebitKeysOK
    <3> QED
      BY <1>3, <3>1, AppliedKept
  <2>2. CASE [late |-> d] = key
    <3>1. /\ key = [late |-> c] /\ task[w].kind = "paid" /\ Goto(w, "finish")
      BY <1>1, <2>2, KeysDiffer DEF Clawback
    <3>2. d = c
      BY <2>2, <3>1, LateKeysDiffer
    <3> QED
      BY <1>1, <1>5, <3>1, <3>2
  <2> QED
    BY <1>2, <1>7, <2>1, <2>2
<1> QED
  BY <1>6, <1>7 DEF DebitKeysOK

\* Every step keeps DebitKeysOK.
LEMMA KeysStep ==
  ASSUME BooksInv, [Next]_vars
  PROVE  DebitKeysOK'
<1> USE DEF provider, wallet, ledger, local, history
<1>1. CASE UNCHANGED <<reversed, debitKeys>>
  <2>1. ASSUME NEW e \in Event, Applied(e) PROVE Applied(e)'
    BY <2>1, AppliedKept DEF BooksInv, ReversalInv
  <2> QED
    BY <1>1, <2>1 DEF BooksInv, DebitKeysOK
<1>2. ASSUME NEW w \in Worker, NEW delta \in Nat \ {0},
             NEW key \in Event \cup LateKey, Clawback(w, delta, key)
      PROVE  DebitKeysOK'
  BY <1>2, ClawbackKeepsKeys
<1>3. ASSUME NEW w \in Worker, CreditUpdateWallet(w) \/ RollbackWalletCredit(w)
      PROVE  DebitKeysOK'
  BY <1>1, <1>3 DEF CreditUpdateWallet, RollbackWalletCredit
<1>4. ASSUME NEW g \in Gift, SendGift(g) \/ ReverseGift(g) PROVE DebitKeysOK'
  BY <1>1, <1>4 DEF SendGift, ReverseGift
<1>5. ASSUME NEW writeOff \in BOOLEAN, ReviewFrozenWallet(writeOff)
      PROVE  DebitKeysOK'
  BY <1>1, <1>5 DEF ReviewFrozenWallet
<1> QED
  BY <1>1, <1>2, <1>3, <1>4, <1>5, BooksSteps

\* Every step keeps SnapshotWhole.
LEMMA SnapshotStep ==
  ASSUME Inv, SnapshotWhole, [Next]_vars
  PROVE  SnapshotWhole'
<1> SUFFICES ASSUME NEW w \in Worker, pc'[w] = "commit"
             PROVE  snap'[w] \in {0, Coins[Chk(w)']}
  BY DEF SnapshotWhole
<1>1. Chk(w)' = Chk(w)
  BY OpenReversalSteps DEF Chk
<1>2. CASE pc[w] = "commit" /\ snap'[w] = snap[w]
  BY <1>1, <1>2 DEF SnapshotWhole
<1>3. CASE snap'[w] = Credited(Chk(w))
  BY <1>1, <1>3 DEF Credited
<1> QED
  BY <1>2, <1>3, OpenReversalSteps

\* Every step keeps both books.
LEMMA BooksStep ==
  ASSUME BooksInv, [Next]_vars
  PROVE  DebtBooks' /\ WalletBooks'
<1>1. CASE /\ UNCHANGED <<reversed, debits, debt, balance, debitKeys>>
           /\ UNCHANGED <<added, writtenOff, gifts>>
  BY <1>1 DEF BooksInv, DebtBooks, WalletBooks
<1> QED
  BY <1>1, BooksSteps, ClawbackKeepsBooks, CreditKeepsBooks, GiftKeepsBooks,
     ReviewKeepsBooks

\* The initial state's books are empty.
LEMMA InitBooks == Init => SnapshotWhole /\ DebitKeysOK /\ DebtBooks /\ WalletBooks
<1> SUFFICES ASSUME Init PROVE SnapshotWhole /\ DebitKeysOK /\ DebtBooks /\ WalletBooks
  OBVIOUS
<1>1. SnapshotWhole /\ DebitKeysOK
  BY DEF Init, SnapshotWhole, DebitKeysOK
<1>2. Total(reversed, Checkout) = 0 /\ Total(added, Checkout) = 0
  BY TotalZero, FiniteAssumption DEF Init
<1>3. {g \in Gift : gifts[g] = "sent"} = {}
  BY DEF Init
<1>4. Cardinality({g \in Gift : gifts[g] = "sent"}) = 0
  BY <1>3, FS_EmptySet
<1>5. balance = 0 /\ debits = 0 /\ debt = 0 /\ writtenOff = 0
  BY DEF Init
<1> QED
  BY <1>1, <1>2, <1>4, <1>5, PriceAssumption DEF DebtBooks, WalletBooks

\* The books' inductive invariant holds in every behaviour, whatever fails.
THEOREM BooksInvHolds == Spec => []BooksInv
<1>1. Init => ReversalInv
  BY InitInv, CoinsAssumption
     DEF Init, ReversalInv, SnapshotWithinCredited, ReversedWithinCredited, Credited
<1>2. Init => BooksInv
  BY <1>1, InitBooks DEF BooksInv
<1>3. ReversalInv /\ [Next]_vars => ReversalInv'
  BY ReversalStep, TypeStep, HandlerStep, MutexStep DEF ReversalInv, Inv
<1>4. BooksInv /\ [Next]_vars => BooksInv'
  <2> SUFFICES ASSUME BooksInv, [Next]_vars PROVE BooksInv'
    OBVIOUS
  <2>1. ReversalInv'
    BY <1>3 DEF BooksInv
  <2>2. SnapshotWhole'
    BY SnapshotStep DEF BooksInv, ReversalInv
  <2> QED
    BY <2>1, <2>2, KeysStep, BooksStep DEF BooksInv
<1> QED
  BY <1>2, <1>4, PTL DEF Spec

\* Whatever interleaves or fails, a reversal's coins are never dropped: each
\* one was debited, is owed, or was written off by an operator.
THEOREM ReversalsAccounted == Spec => []DebtAccounted
<1>1. BooksInv => DebtAccounted
  <2>1. Total(reversed, Checkout) = MapThenSumSet(LAMBDA c : reversed[c], Checkout)
    BY DEF Total
  <2> QED
    BY <2>1 DEF BooksInv, DebtBooks, DebtAccounted
<1> QED
  BY <1>1, BooksInvHolds, PTL

-----------------------------------------------------------------------------
(* The balance is what the ledger explains.                                *)

\* The coins of a checkout that count are in the wallet whole or not at all, so
\* they are the coins of its purchase row, or of a row still missing; the rest
\* is stray.
LEMMA AddedIsExplained ==
  ASSUME TypeOK, CreditOK
  PROVE  Total(added, Checkout) = Total(Coins, purchased) + Total(Coins, Unrecorded)
                                    + Total(stray, Checkout)
<1> DEFINE Placed == purchased \cup Unrecorded
           net    == [c \in Checkout |-> Net(c)]
<1>1. /\ purchased \subseteq Checkout /\ Unrecorded \subseteq Checkout
      /\ purchased \cap Unrecorded = {}
  BY DEF TypeOK, Unrecorded
<1>2. IsFiniteSet(purchased) /\ IsFiniteSet(Unrecorded) /\ IsFiniteSet(Placed)
  BY <1>1, FiniteAssumption, FS_Subset, FS_Union
<1>3. \A c \in Checkout : /\ Coins[c] \in Int /\ net[c] \in Int /\ stray[c] \in Int
                          /\ added[c] = net[c] + stray[c]
  BY CoinsAssumption DEF TypeOK, Net
<1>4. \A c \in Placed : net[c] = Coins[c]
  BY <1>1 DEF CreditOK, Unrecorded
<1>5. \A c \in Checkout \ Placed : net[c] = 0
  BY DEF Unrecorded
<1> HIDE DEF net
<1>6. Total(net, Checkout) = Total(net, Placed)
  BY <1>1, <1>3, <1>5, FiniteAssumption, TotalSupport
<1>7. Total(net, Placed) = Total(Coins, Placed)
  BY <1>2, <1>4, TotalSame
<1>8. Total(Coins, purchased \cup Unrecorded)
        = Total(Coins, purchased) + Total(Coins, Unrecorded)
  <2>1. \A c \in purchased \cup Unrecorded : Coins[c] \in Int
    BY <1>1, <1>3
  <2> QED
    BY <1>1, <1>2, <2>1, TotalDisjoint
<1>9. Total(added, Checkout) = Total(net, Checkout) + Total(stray, Checkout)
  BY <1>3, FiniteAssumption, TotalPlus
<1> QED
  BY <1>6, <1>7, <1>8, <1>9

\* The event of a checkout whose row is missing is recorded as received: its
\* handler is about to insert the row, or died before.
LooseReceived ==
    \A c \in Checkout : Loose(c) =>
      \E e \in Event : /\ e.kind = "paid" /\ e.checkout = c
                       /\ evStatus[e] = "received"

\* A step changes the row of an event only from a handler that has inserted
\* the purchase row, or has not updated the wallet.
LEMMA ReceivedKept ==
  ASSUME Inv, CreditOK, [Next]_vars, NEW e \in Event, e.kind = "paid",
         evStatus[e] = "received", Loose(e.checkout)
  PROVE  evStatus'[e] = "received"
<1>1. CASE UNCHANGED <<task, evStatus>>
  BY <1>1
<1>2. ASSUME NEW w \in Worker, NEW f \in Event, Begin(w, f)
      PROVE  evStatus'[e] = "received"
  BY <1>2 DEF Begin, Inv, TypeOK
<1>3. ASSUME NEW w \in Worker, FinishProcessed(w) \/ FinishFailed(w) \/ Crash(w)
      PROVE  evStatus'[e] = "received"
  <2>1. \/ evStatus' = evStatus
        \/ /\ pc[w] \in {"finish", "fail"}
           /\ \E s : evStatus' = [evStatus EXCEPT ![task[w]] = s]
    BY <1>3 DEF FinishProcessed, FinishFailed, Crash
  <2>2. CASE pc[w] \in {"finish", "fail"} /\ task[w] = e
    <3>1. task[w] # NoEvent /\ Chk(w) = e.checkout
      BY <2>2, EventAssumption DEF Chk
    <3> QED
      BY <2>2, <3>1 DEF CreditOK
  <2> QED
    BY <2>1, <2>2 DEF Inv, TypeOK
<1> QED
  BY <1>1, <1>2, <1>3, TaskSteps

\* Coins become loose only in the hands of a handler of the checkout.
LEMMA LooseSteps ==
  ASSUME Inv, CreditOK, [Next]_vars, NEW c \in Checkout, Loose(c)'
  PROVE  \/ Loose(c)
         \/ \E w \in Worker : /\ task[w] \in Event /\ task[w].kind = "paid"
                              /\ task[w].checkout = c /\ UNCHANGED evStatus
<1>1. purchased \subseteq purchased'
  BY PurchasedSteps
<1>2. CASE UNCHANGED <<added, stray>>
  BY <1>1, <1>2 DEF Loose, Net
<1>3. ASSUME NEW w \in Worker, CreditUpdateWallet(w) \/ RollbackWalletCredit(w)
      PROVE  \/ Loose(c)
             \/ \E v \in Worker : /\ task[v] \in Event /\ task[v].kind = "paid"
                                  /\ task[v].checkout = c /\ UNCHANGED evStatus
  <2>1. /\ task[w] \in Event /\ task[w].kind = "paid" /\ Chk(w) = task[w].checkout
        /\ UNCHANGED evStatus
    BY <1>3, TaskOfHandler DEF CreditUpdateWallet, RollbackWalletCredit, Inv, HandlerOK
  <2>2. CASE Chk(w) = c
    BY <2>1, <2>2
  <2>3. CASE Chk(w) # c
    <3>1. added'[c] = added[c] /\ stray'[c] = stray[c] /\ UNCHANGED purchased
      BY <1>3, <2>3 DEF CreditUpdateWallet, RollbackWalletCredit, LeavesBehind,
         Inv, TypeOK, ledger
    <3> QED
      BY <3>1 DEF Loose, Net
  <2> QED
    BY <2>2, <2>3
<1> QED
  BY <1>2, <1>3, AddedSteps

\* Every step keeps LooseReceived.
LEMMA LooseStep ==
  ASSUME Inv, CreditOK, LooseReceived, [Next]_vars
  PROVE  LooseReceived'
<1> SUFFICES ASSUME NEW c \in Checkout, Loose(c)'
             PROVE  \E e \in Event : /\ e.kind = "paid" /\ e.checkout = c
                                     /\ evStatus'[e] = "received"
  BY DEF LooseReceived, Loose, Net
<1>1. CASE Loose(c)
  BY <1>1, ReceivedKept DEF LooseReceived
<1>2. ASSUME NEW w \in Worker, task[w] \in Event, task[w].kind = "paid",
             task[w].checkout = c, UNCHANGED evStatus
      PROVE  \E e \in Event : /\ e.kind = "paid" /\ e.checkout = c
                              /\ evStatus'[e] = "received"
  BY <1>2, EventAssumption DEF Inv, OneHandlerPerEvent
<1> QED
  BY <1>1, <1>2, LooseSteps

\* coinLiability's equation, whatever fails: the balance is what purchases,
\* gifts and debits say, but for the coins of failed credits and of checkouts
\* whose row a handler has still to insert.
THEOREM BalanceExplained == Spec => []WalletExplained
<1>1. Init => LooseReceived
  BY DEF Init, LooseReceived, Loose, Net
<1>2. Inv /\ CreditOK /\ LooseReceived /\ [Next]_vars => LooseReceived'
  BY LooseStep
<1>3. Inv /\ CreditOK /\ LooseReceived /\ WalletBooks => WalletExplained
  <2> SUFFICES ASSUME Inv, CreditOK, LooseReceived, WalletBooks
               PROVE  WalletExplained
    OBVIOUS
  <2> DEFINE sent == Price * Cardinality({g \in Gift : gifts[g] = "sent"})
  <2>1. /\ Total(Coins, purchased) \in Int /\ Total(Coins, Unrecorded) \in Int
        /\ Total(stray, Checkout) \in Int
        /\ sent \in Int /\ debits \in Int
    <3>1. /\ purchased \subseteq Checkout /\ Unrecorded \subseteq Checkout
          /\ {g \in Gift : gifts[g] = "sent"} \subseteq Gift
      BY DEF Inv, TypeOK, Unrecorded
    <3>2. /\ IsFiniteSet(purchased) /\ IsFiniteSet(Unrecorded)
          /\ IsFiniteSet({g \in Gift : gifts[g] = "sent"})
      BY <3>1, FiniteAssumption, FS_Subset
    <3>3. \A c \in Checkout : Coins[c] \in Int /\ stray[c] \in Int
      BY CoinsAssumption DEF Inv, TypeOK
    <3>4. /\ Total(Coins, purchased) \in Int /\ Total(Coins, Unrecorded) \in Int
          /\ Total(stray, Checkout) \in Int
      BY <3>1, <3>2, <3>3, FiniteAssumption, TotalInt
    <3> QED
      BY <3>2, <3>4, PriceAssumption, FS_CardinalityType DEF Inv, TypeOK
  <2>2. /\ Total(Coins, purchased) = MapThenSumSet(LAMBDA c : Coins[c], purchased)
        /\ Total(Coins, Unrecorded) = MapThenSumSet(LAMBDA c : Coins[c], Unrecorded)
        /\ Total(stray, Checkout) = MapThenSumSet(LAMBDA c : stray[c], Checkout)
    BY DEF Total
  <2>3. /\ balance = Total(added, Checkout) - sent - debits
        /\ Total(added, Checkout) = Total(Coins, purchased) + Total(Coins, Unrecorded)
                                      + Total(stray, Checkout)
    BY AddedIsExplained DEF WalletBooks, Inv
  <2>4. balance = (Total(Coins, purchased) - sent - debits) + Total(Coins, Unrecorded)
                    + Total(stray, Checkout)
    <3> HIDE DEF sent
    <3> QED
      BY <2>1, <2>3
  <2>5. LedgerBalance = Total(Coins, purchased) - sent - debits
    BY <2>2 DEF LedgerBalance
  <2>6. \A c \in Unrecorded :
          \E e \in Event : e.checkout = c /\ evStatus[e] = "received"
    BY DEF Unrecorded, LooseReceived, Loose
  <2>7. balance = LedgerBalance + Total(Coins, Unrecorded) + Total(stray, Checkout)
    BY <2>4, <2>5
  <2>8. balance = LedgerBalance + MapThenSumSet(LAMBDA c : Coins[c], Unrecorded)
                    + MapThenSumSet(LAMBDA c : stray[c], Checkout)
    BY Zenon, <2>2, <2>7
  <2> QED
    BY <2>6, <2>8, Zenon DEF WalletExplained
<1>4. BooksInv => WalletBooks
  BY DEF BooksInv
<1> QED
  BY <1>1, <1>2, <1>3, <1>4, CreditHolds, BooksInvHolds, PTL DEF Spec

-----------------------------------------------------------------------------
(* What a payment's state owes back is taken back.                         *)

\* A payment owes nothing that was not taken, or its checkout has still to be
\* reconciled, or one of its reversals slipped by.
CaughtUp ==
    \A c \in Checkout :
      \/ reversed[c] >= Target(c, payment[c], Credited(c))
      \/ CreditPending(c)
      \/ c \in lapsed

\* A pending credit stays pending until its handler reconciles the checkout.
LEMMA PendingKept ==
  ASSUME Inv, [Next]_vars, NEW c \in Checkout, CreditPending(c)
  PROVE  \/ CreditPending(c)'
         \/ \E w \in Worker : ReconcileCoinReversal(w) /\ Chk(w) = c
<1> USE DEF provider, wallet, ledger, local, history
<1>0. PICK e \in Event : /\ e.kind = "paid" /\ e.checkout = c
                         /\ \/ evStatus[e] = "failed"
                            \/ /\ evStatus[e] = "received"
                               /\ \A w \in Worker : task[w] = e => pc[w] # "finish"
  BY DEF CreditPending
<1> DEFINE Kept == \/ evStatus'[e] = "failed"
                   \/ /\ evStatus'[e] = "received"
                      /\ \A w \in Worker : task'[w] = e => pc'[w] # "finish"
<1>1. SUFFICES ASSUME \A w \in Worker : ~(ReconcileCoinReversal(w) /\ Chk(w) = c)
               PROVE  Kept
  BY <1>0 DEF CreditPending
<1>2. /\ task \in [Worker -> Event \cup {NoEvent}] /\ pc \in [Worker -> Phase]
      /\ e # NoEvent
      /\ evStatus \in [Event -> {"none", "received", "processed", "failed"}]
  BY EventAssumption DEF Inv, TypeOK
<1>3. CASE UNCHANGED <<evStatus, task, pc>>
  BY <1>0, <1>3
<1>4. ASSUME NEW w \in Worker, UNCHANGED <<evStatus, task>>, NEW p \in Phase,
             Goto(w, p), p = "finish" => task[w] # e
      PROVE  Kept
  BY <1>0, <1>2, <1>4 DEF Goto
<1>5. ASSUME NEW w \in Worker, NEW f \in Event, Begin(w, f)
      PROVE  Kept
  <2>1. /\ pc[w] = "idle" /\ task[w] = NoEvent
        /\ evStatus[f] \in {"none", "failed"}
        /\ evStatus' = [evStatus EXCEPT ![f] = "received"]
        /\ task' = [task EXCEPT ![w] = f] /\ pc' = [pc EXCEPT ![w] = "apply"]
    BY <1>5 DEF Begin, Opens, Goto, Inv, HandlerOK
  <2>2. CASE f = e
    <3>1. \A v \in Worker : task[v] # e
      BY <1>2, <2>1, <2>2 DEF Inv, OneHandlerPerEvent
    <3> QED
      BY <1>2, <2>1, <2>2, <3>1
  <2>3. CASE f # e
    BY <1>0, <1>2, <2>1, <2>3
  <2> QED
    BY <2>2, <2>3
<1>6. ASSUME NEW w \in Worker, FinishProcessed(w) \/ FinishFailed(w) \/ Crash(w)
      PROVE  Kept
  <2>1. /\ task' = [task EXCEPT ![w] = NoEvent] /\ pc' = [pc EXCEPT ![w] = "idle"]
        /\ task[w] # NoEvent /\ task[w] \in Event
    BY <1>2, <1>6 DEF FinishProcessed, FinishFailed, Crash, Release, Goto, Inv, HandlerOK
  <2>2. \/ UNCHANGED evStatus
        \/ /\ pc[w] = "finish"
           /\ evStatus' = [evStatus EXCEPT ![task[w]] = "processed"]
        \/ /\ pc[w] = "fail"
           /\ evStatus' = [evStatus EXCEPT ![task[w]] = "failed"]
    BY <1>6 DEF FinishProcessed, FinishFailed, Crash
  <2>3. CASE task[w] = e
    <3>1. evStatus[e] = "received" /\ \A v \in Worker : task[v] = e => v = w
      BY <1>2, <2>1, <2>3 DEF Inv, OneHandlerPerEvent
    <3>2. pc[w] # "finish"
      BY <1>0, <2>3, <3>1
    <3> QED
      BY <1>2, <2>1, <2>2, <2>3, <3>1, <3>2
  <2>4. CASE task[w] # e
    BY <1>0, <1>2, <2>1, <2>2, <2>4
  <2> QED
    BY <2>3, <2>4
<1>7. ASSUME NEW w \in Worker, CommitReversal(w) \/ StopRenewal(w)
      PROVE  Kept
  <2>1. task[w] # e
    BY <1>0, <1>7 DEF CommitReversal, StopRenewal, Inv, HandlerOK
  <2>2. UNCHANGED <<evStatus, task>> /\ \E p \in Phase : Goto(w, p)
    BY <1>7 DEF CommitReversal, StopRenewal, Phase
  <2> QED
    BY <1>4, <2>1, <2>2
<1>8. ASSUME NEW w \in Worker, ReconcileCoinReversal(w)
      PROVE  Kept
  <2>1. task[w] # e
    BY <1>0, <1>1, <1>8 DEF Chk
  <2>2. UNCHANGED <<evStatus, task>> /\ \E p \in Phase : Goto(w, p)
    BY <1>8 DEF ReconcileCoinReversal, Phase
  <2> QED
    BY <1>4, <2>1, <2>2
<1>9. ASSUME NEW w \in Worker,
             \/ ApplyCheckoutCompleted(w) \/ BeginReversal(w) \/ RefuseEvent(w)
             \/ CreditRead(w) \/ CreditUpdateWallet(w) \/ CreditInsertPurchase(w)
             \/ RollbackWalletCredit(w) \/ StatementFails(w)
      PROVE  Kept
  <2>1. /\ UNCHANGED <<evStatus, task>>
        /\ \E p \in Phase \ {"finish"} : Goto(w, p)
    BY <1>9 DEF ApplyCheckoutCompleted, BeginReversal, RefuseEvent, CreditRead,
       CreditUpdateWallet, CreditInsertPurchase, RollbackWalletCredit,
       StatementFails, Phase
  <2> QED
    BY <1>4, <2>1
<1> HIDE DEF Kept
<1>11. ASSUME NEW w \in Worker, Handle(w)
       PROVE  Kept
  BY <1>6, <1>7, <1>8, <1>9, <1>11 DEF Handle
<1>12. CASE UNCHANGED vars
  BY <1>3, <1>12 DEF vars
<1>13. ASSUME NEW f \in Event, Emit(f) \/ AcknowledgeDuplicate(f)
       PROVE  UNCHANGED <<evStatus, task, pc>>
  BY <1>13 DEF Emit, AcknowledgeDuplicate
<1>14. ASSUME NEW g \in Gift, SendGift(g) \/ ReverseGift(g)
       PROVE  UNCHANGED <<evStatus, task, pc>>
  BY <1>14 DEF SendGift, ReverseGift
<1>15. ASSUME NEW writeOff \in BOOLEAN, ReviewFrozenWallet(writeOff)
       PROVE  UNCHANGED <<evStatus, task, pc>>
  BY <1>15 DEF ReviewFrozenWallet
<1> QED
  BY <1>3, <1>5, <1>6, <1>9, <1>11, <1>12, <1>13, <1>14, <1>15 DEF Next

\* A clawback whose key is new leaves nothing owed.
LEMMA TakeBackCatchesUp ==
  ASSUME TypeOK, NEW c \in Checkout, NEW credited \in Nat, NEW key,
         NEW p \in [status : PayStatus, refunded : Nat],
         Owed(c, p, credited) > 0 => key \notin debitKeys,
         TakeBack(c, Owed(c, p, credited), key)
  PROVE  /\ reversed'[c] >= Target(c, p, credited)
         /\ \A d \in Checkout \ {c} : reversed'[d] = reversed[d]
<1> DEFINE t     == Target(c, p, credited)
           delta == Owed(c, p, credited)
<1>1. t \in Nat /\ reversed \in [Checkout -> Nat] /\ delta = t - reversed[c]
  BY TargetNat DEF TypeOK, Owed
<1>2. CASE delta <= 0
  <2>1. reversed' = reversed
    BY <1>2 DEF TakeBack
  <2> HIDE DEF delta, t
  <2>2. reversed[c] >= t
    BY <1>1, <1>2
  <2> QED
    BY <2>1, <2>2 DEF t
<1>3. CASE delta > 0
  <2>1. reversed' = [reversed EXCEPT ![c] = reversed[c] + delta]
    BY <1>1, <1>3 DEF TakeBack
  <2> HIDE DEF delta, t
  <2>2. reversed'[c] = t
    BY <1>1, <2>1
  <2>3. reversed'[c] >= t
    BY <1>1, <2>2
  <2> QED
    BY <1>1, <2>1, <2>3 DEF t
<1> HIDE DEF delta, t
<1>4. delta \in Int
  BY <1>1
<1> QED
  BY <1>2, <1>3, <1>4

\* The reconciliation of a checkout leaves nothing owed for it.
LEMMA ReconcileCatchesUp ==
  ASSUME BooksInv, NEW w \in Worker, ReconcileCoinReversal(w)
  PROVE  /\ reversed'[Chk(w)] >= Target(Chk(w), payment[Chk(w)], Credited(Chk(w)))
         /\ \A d \in Checkout \ {Chk(w)} : reversed'[d] = reversed[d]
         /\ UNCHANGED <<payment, purchased, lapsed>>
<1> DEFINE c == Chk(w)
           p == payment[c]
<1>1. /\ c \in Checkout /\ p \in [status : PayStatus, refunded : Nat]
      /\ pc[w] = "reconcile" /\ reversed[c] \in Nat
      /\ UNCHANGED <<payment, purchased, lapsed>>
  BY TaskOfHandler DEF ReconcileCoinReversal, BooksInv, ReversalInv, Inv, TypeOK, history
<1>2. CASE p.status \notin Reversals /\ UNCHANGED reversed
  <2>1. Target(c, p, Credited(c)) = 0
    BY <1>2 DEF Target, Reversals
  <2> QED
    BY <1>1, <1>2, <2>1
<1>3. CASE TakeBack(c, Owed(c, p, Credited(c)), [late |-> c])
  <2>1. Credited(c) \in Nat
    BY <1>1, CoinsAssumption DEF Credited
  <2>2. [late |-> c] \notin debitKeys
    BY <1>1, LateKeyIsNew DEF BooksInv, ReversalInv
  <2> QED
    BY <1>1, <1>3, <2>1, <2>2, TakeBackCatchesUp DEF BooksInv, ReversalInv, Inv
<1> QED
  BY <1>2, <1>3 DEF ReconcileCoinReversal

\* The commit of a refund or dispute leaves nothing owed for its checkout, or
\* the checkout is to be reconciled, or it slips by; a dispute opened or won
\* only hides a debt.
LEMMA CommitCatchesUp ==
  ASSUME BooksInv, NEW w \in Worker, CommitReversal(w)
  PROVE  LET c == Chk(w) IN
         /\ \/ reversed'[c] >= Target(c, payment'[c], Credited(c))
            \/ /\ reversed'[c] = reversed[c]
               /\ Target(c, payment'[c], Credited(c)) = Target(c, payment[c], Credited(c))
            \/ CreditPending(c)
            \/ c \in lapsed'
         /\ \A d \in Checkout \ {c} : /\ reversed'[d] = reversed[d]
                                      /\ payment'[d] = payment[d]
         /\ UNCHANGED purchased
         /\ lapsed \subseteq lapsed'
<1> USE DEF ledger, wallet
<1> DEFINE c == Chk(w)
           e == task[w]
           q == PaymentAfter(e)
           delta == Delta(e, snap[w])
<1>1. /\ e \in Event /\ e.checkout = c /\ c \in Checkout /\ pc[w] = "commit"
      /\ e.kind # "paid" /\ e.kind \in Kind
  BY TaskOfHandler, EventAssumption
     DEF CommitReversal, BooksInv, ReversalInv, Inv, HandlerOK
<1>2. /\ payment \in [Checkout -> [status : PayStatus, refunded : Nat]]
      /\ reversed \in [Checkout -> Nat] /\ Credited(c) \in Nat /\ snap[w] \in Nat
      /\ q \in [status : PayStatus, refunded : Nat]
  BY <1>1, CoinsAssumption, PaymentAfterType
     DEF BooksInv, ReversalInv, Inv, TypeOK, Credited
<1>3. UNCHANGED purchased /\ lapsed \subseteq lapsed'
  BY DEF CommitReversal
<1>4. CASE UNCHANGED <<payment, reversed>>
  BY <1>3, <1>4
<1>5. CASE /\ payment' = [payment EXCEPT ![e.checkout] = q] /\ TakeBack(c, delta, e)
           /\ lapsed' = IF SlipsBy(w) THEN lapsed \cup {e.checkout} ELSE lapsed
  <2>1. payment'[c] = q /\ \A d \in Checkout \ {c} : payment'[d] = payment[d]
    BY <1>1, <1>2, <1>5
  <2>2. CASE e.kind \in {"refund", "disputeLost"}
    <3>1. delta = Owed(c, q, snap[w])
      BY <1>1, <2>2 DEF Delta
    <3>2. delta > 0 => e \notin debitKeys
      BY <1>1, ReversalKeyIsNew DEF BooksInv
    <3>3. snap[w] # Credited(c) => CreditPending(c) \/ c \in lapsed'
      BY <1>1, <1>5, <2>2 DEF SlipsBy
    <3> HIDE DEF delta, q
    <3>4. /\ reversed'[c] >= Target(c, q, snap[w])
          /\ \A d \in Checkout \ {c} : reversed'[d] = reversed[d]
      BY <1>1, <1>2, <1>5, <3>1, <3>2, TakeBackCatchesUp DEF BooksInv, ReversalInv, Inv
    <3> QED
      BY <1>3, <2>1, <3>3, <3>4
  <2>3. CASE e.kind \notin {"refund", "disputeLost"}
    <3>1. delta = 0
      BY <2>3 DEF Delta
    <3>2. reversed' = reversed
      BY <1>5, <3>1 DEF TakeBack
    <3>3. \/ q = payment[c]
          \/ q.status \in {"disputed", "success"}
      <4>1. \A s : [payment[c] EXCEPT !.status = s].status = s
        BY <1>1, <1>2
      <4>2. [payment[c] EXCEPT !.status = payment[c].status] = payment[c]
        BY <1>1, <1>2
      <4> QED
        BY <1>1, <2>3, <4>1, <4>2 DEF PaymentAfter, Kind
    <3>4. \/ Target(c, q, Credited(c)) = Target(c, payment[c], Credited(c))
          \/ Target(c, q, Credited(c)) = 0
      <4>1. CASE q = payment[c]
        <5> HIDE DEF q
        <5> QED
          BY <4>1
      <4>2. CASE q.status \in {"disputed", "success"}
        <5> HIDE DEF q
        <5> QED
          BY <4>2 DEF Target
      <4> QED
        BY <3>3, <4>1, <4>2
    <3>5. reversed[c] \in Nat
      BY <1>1, <1>2
    <3> HIDE DEF q
    <3> QED
      BY <1>3, <2>1, <3>2, <3>4, <3>5
  <2> QED
    BY <2>2, <2>3
<1> QED
  BY <1>1, <1>4, <1>5 DEF CommitReversal

\* One checkout stays caught up, pending or lapsed when its payment, its
\* purchase row and its reversals keep what they say.
LEMMA CaughtUpKept ==
  ASSUME CaughtUp, NEW d \in Checkout, CreditPending(d) => CreditPending(d)',
         payment'[d] = payment[d], reversed'[d] = reversed[d],
         d \in purchased' <=> d \in purchased, d \in lapsed => d \in lapsed'
  PROVE  \/ reversed'[d] >= Target(d, payment'[d], Credited(d)')
         \/ CreditPending(d)'
         \/ d \in lapsed'
<1>1. Credited(d)' = Credited(d)
  BY DEF Credited
<1> QED
  BY <1>1 DEF CaughtUp

\* Every step keeps CaughtUp.
LEMMA CaughtUpStep ==
  ASSUME BooksInv, CaughtUp, [Next]_vars
  PROVE  CaughtUp'
<1> USE DEF provider, wallet, ledger, local, history
<1> SUFFICES ASSUME NEW d \in Checkout
             PROVE  \/ reversed'[d] >= Target(d, payment'[d], Credited(d)')
                    \/ CreditPending(d)'
                    \/ d \in lapsed'
  BY DEF CaughtUp
<1> DEFINE Done == \/ reversed'[d] >= Target(d, payment'[d], Credited(d)')
                   \/ CreditPending(d)'
                   \/ d \in lapsed'
<1>0. ASSUME UNCHANGED purchased PROVE Credited(d)' = Credited(d)
  BY <1>0 DEF Credited
<1>1. ASSUME NEW w \in Worker, ReconcileCoinReversal(w), Chk(w) = d PROVE Done
  <2>1. /\ reversed'[d] >= Target(d, payment[d], Credited(d))
        /\ UNCHANGED <<payment, purchased>>
    BY <1>1, ReconcileCatchesUp
  <2> QED
    BY <1>0, <2>1
<1>2. SUFFICES ASSUME \A w \in Worker : ~(ReconcileCoinReversal(w) /\ Chk(w) = d)
               PROVE  Done
  BY <1>1
<1>3. CreditPending(d) => CreditPending(d)'
  BY <1>2, PendingKept DEF BooksInv, ReversalInv
<1> HIDE DEF Done
<1>4. ASSUME UNCHANGED <<payment, reversed, purchased, lapsed>> PROVE Done
  BY <1>3, <1>4, CaughtUpKept DEF Done
<1>5. ASSUME NEW w \in Worker, ReconcileCoinReversal(w) PROVE Done
  <2>1. Chk(w) # d
    BY <1>2, <1>5
  <2> QED
    BY <1>3, <1>5, <2>1, ReconcileCatchesUp, CaughtUpKept DEF Done
<1>6. ASSUME NEW w \in Worker, CommitReversal(w) PROVE Done
  <2>1. UNCHANGED purchased
    BY <1>6 DEF CommitReversal
  <2>2. CASE d # Chk(w)
    BY <1>3, <1>6, <2>1, <2>2, CommitCatchesUp, CaughtUpKept DEF Done
  <2>3. CASE d = Chk(w)
    <3>1. /\ \/ reversed'[d] >= Target(d, payment'[d], Credited(d))
             \/ /\ reversed'[d] = reversed[d]
                /\ Target(d, payment'[d], Credited(d)) = Target(d, payment[d], Credited(d))
             \/ CreditPending(d)
             \/ d \in lapsed'
          /\ lapsed \subseteq lapsed'
      BY <1>6, <2>3, CommitCatchesUp
    <3> QED
      BY <1>0, <1>3, <2>1, <3>1 DEF Done, CaughtUp
  <2> QED
    BY <2>2, <2>3
<1>7. ASSUME NEW w \in Worker, ApplyCheckoutCompleted(w) PROVE Done
  <2>1. /\ pc[w] = "apply" /\ UNCHANGED <<reversed, purchased, lapsed>>
        /\ Chk(w) \in Checkout
    BY <1>7, TaskOfHandler DEF ApplyCheckoutCompleted, BooksInv, ReversalInv
  <2>2. payment \in [Checkout -> [status : PayStatus, refunded : Nat]]
    BY DEF BooksInv, ReversalInv, Inv, TypeOK
  <2>3. CASE payment'[d] = payment[d]
    BY <1>3, <2>1, <2>3, CaughtUpKept DEF Done
  <2>4. CASE payment'[d] # payment[d]
    <3>1. payment'[d].status = "success"
      BY <1>7, <2>1, <2>2, <2>4 DEF ApplyCheckoutCompleted
    <3>2. Target(d, payment'[d], Credited(d)') = 0
      BY <3>1 DEF Target
    <3>3. reversed'[d] \in Nat
      BY <2>1 DEF BooksInv, ReversalInv, Inv, TypeOK
    <3> QED
      BY <3>2, <3>3 DEF Done
  <2> QED
    BY <2>3, <2>4
<1>8. ASSUME NEW w \in Worker, CreditInsertPurchase(w) PROVE Done
  <2>1. /\ pc[w] = "insert" /\ task[w] \in Event /\ task[w].kind = "paid"
        /\ task[w].checkout = Chk(w)
        /\ UNCHANGED <<payment, reversed, task, evStatus, lapsed>>
        /\ Goto(w, "reconcile") \/ Goto(w, "rollback")
        /\ purchased' \in {purchased, purchased \cup {Chk(w)}}
    BY <1>8, TaskOfHandler
       DEF CreditInsertPurchase, BooksInv, ReversalInv, Inv, HandlerOK
  <2>2. CASE d = Chk(w)
    <3>1. pc'[w] # "finish"
      BY <2>1 DEF Goto, BooksInv, ReversalInv, Inv, TypeOK
    <3>2. /\ evStatus[task[w]] = "received"
          /\ \A v \in Worker : task[v] = task[w] => v = w
      BY <2>1, EventAssumption DEF BooksInv, ReversalInv, Inv, OneHandlerPerEvent
    <3>3. CreditPending(d)'
      BY <2>1, <2>2, <3>1, <3>2 DEF CreditPending
    <3> QED
      BY <3>3 DEF Done
  <2>3. CASE d # Chk(w)
    BY <1>3, <2>1, <2>3, CaughtUpKept DEF Done
  <2> QED
    BY <2>2, <2>3
<1>9. ASSUME NEW w \in Worker, Handle(w) PROVE Done
  <2>1. \/ UNCHANGED <<payment, reversed, purchased, lapsed>>
        \/ ReconcileCoinReversal(w) \/ CommitReversal(w)
        \/ ApplyCheckoutCompleted(w) \/ CreditInsertPurchase(w)
    BY <1>9 DEF Handle, BeginReversal, RefuseEvent, StopRenewal, CreditRead,
       CreditUpdateWallet, RollbackWalletCredit, FinishProcessed, FinishFailed
  <2> QED
    BY <1>4, <1>5, <1>6, <1>7, <1>8, <2>1
<1>10. CASE UNCHANGED vars
  <2>1. UNCHANGED <<payment, reversed, purchased, lapsed>>
    BY <1>10 DEF vars
  <2> QED
    BY <1>4, <2>1
<1>11. CASE \E w \in Worker : Handle(w)
  BY <1>9, <1>11
<1>12. CASE Next /\ ~ \E w \in Worker : Handle(w)
  <2>1. UNCHANGED <<payment, reversed, purchased, lapsed>>
    BY <1>12 DEF Next, Emit, AcknowledgeDuplicate, Begin, StatementFails, Crash,
       SendGift, ReverseGift, ReviewFrozenWallet
  <2> QED
    BY <1>4, <2>1
<1> QED
  BY <1>10, <1>11, <1>12

-----------------------------------------------------------------------------
(* What the payment row remembers of the reversals that were processed.    *)

\* The provider emitted what was delivered, closes a dispute once, and only a
\* lost dispute makes a payment a chargeback.
EmittedOK ==
    /\ \A e \in Event : evStatus[e] # "none" => e \in emitted
    /\ \A e, f \in emitted :
         e.kind = "disputeLost" /\ f.kind = "disputeWon" => e.checkout # f.checkout
    /\ \A c \in Checkout : payment[c].status = "chargeback" =>
         \E e \in emitted : e.kind = "disputeLost" /\ e.checkout = c

\* The transaction that has locked a payment row found it as it still is, and
\* is the only one.
LockedOK ==
    \A w \in Worker : pc[w] = "commit" =>
      /\ Applies(task[w])
      /\ \A v \in Worker : pc[v] = "commit" /\ Chk(v) = Chk(w) => v = w

\* The transaction of the event has committed.
Committed(e) ==
    \/ evStatus[e] = "processed"
    \/ \E w \in Worker : task[w] = e /\ pc[w] \in {"renew", "finish"}

\* The payment row still says what the event told it.
InEffect(e) ==
    LET p == payment[e.checkout]
    IN  /\ e.kind = "refund" =>
             /\ p.status \in Reversals
             /\ p.refunded >= MinOf(e.minor, Amount[e.checkout])
        /\ e.kind = "disputeLost" => p.status = "chargeback"

Remembered ==
    \A e \in Event : Committed(e) /\ e.checkout \notin lapsed => InEffect(e)

\* The statements that write payment rows.
LEMMA PaymentSteps ==
  ASSUME [Next]_vars
  PROVE  \/ UNCHANGED <<payment, lapsed>>
         \/ \E w \in Worker : ApplyCheckoutCompleted(w) \/ CommitReversal(w)
<1> USE DEF provider, wallet, ledger, local, history
<1>1. ASSUME NEW w \in Worker, Handle(w)
      PROVE  \/ UNCHANGED <<payment, lapsed>>
             \/ ApplyCheckoutCompleted(w) \/ CommitReversal(w)
  BY <1>1 DEF Handle, BeginReversal, RefuseEvent, StopRenewal, CreditRead,
     CreditUpdateWallet, CreditInsertPurchase, RollbackWalletCredit,
     ReconcileCoinReversal, FinishProcessed, FinishFailed
<1>2. CASE UNCHANGED vars
  BY <1>2 DEF vars
<1> QED
  BY <1>1, <1>2 DEF Next, Emit, AcknowledgeDuplicate, Begin, StatementFails,
     Crash, SendGift, ReverseGift, ReviewFrozenWallet

\* A payment row only becomes a success when a checkout completes.
LEMMA CompletionKeeps ==
  ASSUME Inv, NEW w \in Worker, ApplyCheckoutCompleted(w), NEW c \in Checkout
  PROVE  \/ payment'[c] = payment[c]
         \/ /\ c = Chk(w) /\ payment[c].status = "none"
            /\ payment'[c].status = "success"
<1>1. /\ payment \in [Checkout -> [status : PayStatus, refunded : Nat]]
      /\ Chk(w) \in Checkout
  BY TaskOfHandler DEF ApplyCheckoutCompleted, Inv, TypeOK
<1> QED
  BY <1>1 DEF ApplyCheckoutCompleted

\* A commit writes its checkout's payment row, or leaves all rows alone.
LEMMA CommitWrites ==
  ASSUME Inv, NEW w \in Worker, CommitReversal(w)
  PROVE  /\ task[w] \in Event /\ task[w].kind \in Kind \ {"paid"}
         /\ Chk(w) = task[w].checkout /\ Chk(w) \in Checkout
         /\ evStatus[task[w]] = "received"
         /\ UNCHANGED <<task, evStatus, emitted>>
         /\ \A c \in Checkout : c # Chk(w) => payment'[c] = payment[c]
         /\ \/ UNCHANGED <<payment, lapsed>> /\ Goto(w, "fail")
            \/ /\ payment'[Chk(w)] = PaymentAfter(task[w])
               /\ lapsed' = IF SlipsBy(w) THEN lapsed \cup {Chk(w)} ELSE lapsed
               /\ Goto(w, "renew") \/ Goto(w, "finish")
<1>1. /\ pc[w] = "commit" /\ UNCHANGED <<task, evStatus, emitted>>
      /\ \/ UNCHANGED <<payment, lapsed>> /\ Goto(w, "fail")
         \/ /\ payment' = [payment EXCEPT ![task[w].checkout] = PaymentAfter(task[w])]
            /\ lapsed' = IF SlipsBy(w) THEN lapsed \cup {task[w].checkout} ELSE lapsed
            /\ Goto(w, "renew") \/ Goto(w, "finish")
  BY DEF CommitReversal, provider
<1>2. /\ task[w] \in Event /\ task[w] # NoEvent
      /\ Chk(w) = task[w].checkout /\ Chk(w) \in Checkout
      /\ task[w].kind \in Kind \ {"paid"}
  BY <1>1, TaskOfHandler, EventAssumption DEF Inv, HandlerOK
<1>3. evStatus[task[w]] = "received"
  BY <1>2 DEF Inv, OneHandlerPerEvent
<1>4. payment \in [Checkout -> [status : PayStatus, refunded : Nat]]
  BY DEF Inv, TypeOK
<1> QED
  BY <1>1, <1>2, <1>3, <1>4

\* What an UPDATE of a payment row does to its status.
LEMMA PaymentAfterStatus ==
  ASSUME TypeOK, NEW e \in Event, e.kind # "paid"
  PROVE  LET p == payment[e.checkout]
             q == PaymentAfter(e)
         IN  /\ e.kind = "refund" =>
                  /\ q.status \in {"refunded", "partially_refunded"}
                  /\ q.refunded = MinOf(Amount[e.checkout],
                                        IF e.minor > p.refunded THEN e.minor
                                                                ELSE p.refunded)
             /\ e.kind = "disputeLost" =>
                  q.status = "chargeback" /\ q.refunded = p.refunded
             /\ e.kind \in {"disputeOpened", "disputeWon"} =>
                  /\ q.refunded = p.refunded
                  /\ q.status = IF p.status \in {"refunded", "partially_refunded"}
                                THEN p.status
                                ELSE IF e.kind = "disputeOpened" THEN "disputed"
                                ELSE "success"
<1> DEFINE p == payment[e.checkout]
<1>1. p \in [status : PayStatus, refunded : Nat]
  BY EventAssumption DEF TypeOK
<1>2. \A s : /\ [p EXCEPT !.status = s].status = s
             /\ [p EXCEPT !.status = s].refunded = p.refunded
  BY <1>1
<1> HIDE DEF p
<1> QED
  BY <1>2 DEF PaymentAfter, p

\* Every step keeps EmittedOK.
LEMMA EmittedStep ==
  ASSUME Inv, EmittedOK, [Next]_vars
  PROVE  EmittedOK'
<1> USE DEF provider, wallet, ledger, local, history
<1>1. /\ evStatus \in [Event -> {"none", "received", "processed", "failed"}]
      /\ emitted \subseteq Event
      /\ payment \in [Checkout -> [status : PayStatus, refunded : Nat]]
  BY DEF Inv, TypeOK
<1>2. \/ UNCHANGED emitted
      \/ \E e \in Event : Emit(e)
  <2>1. ASSUME NEW w \in Worker, Handle(w) PROVE UNCHANGED emitted
    BY <2>1 DEF Handle, ApplyCheckoutCompleted, BeginReversal, RefuseEvent,
       CommitReversal, StopRenewal, CreditRead, CreditUpdateWallet,
       CreditInsertPurchase, RollbackWalletCredit, ReconcileCoinReversal,
       FinishProcessed, FinishFailed
  <2>2. CASE UNCHANGED vars
    BY <2>2 DEF vars
  <2> QED
    BY <2>1, <2>2 DEF Next, AcknowledgeDuplicate, Begin, StatementFails, Crash,
       SendGift, ReverseGift, ReviewFrozenWallet
<1>3. emitted \subseteq emitted'
  BY <1>2 DEF Emit
<1>4. ASSUME NEW e \in Event, evStatus'[e] # "none" PROVE e \in emitted'
  <2>1. CASE UNCHANGED evStatus
    BY <1>3, <1>4, <2>1 DEF EmittedOK
  <2>2. ASSUME NEW w \in Worker, NEW f \in Event, Begin(w, f) PROVE e \in emitted'
    BY <1>1, <1>3, <1>4, <2>2 DEF Begin, EmittedOK
  <2>3. ASSUME NEW w \in Worker, FinishProcessed(w) \/ FinishFailed(w) \/ Crash(w)
        PROVE  e \in emitted'
    <3>1. task[w] # NoEvent /\ task[w] \in Event
      BY <2>3 DEF FinishProcessed, FinishFailed, Crash, Inv, TypeOK, HandlerOK
    <3>2. evStatus[task[w]] = "received"
      BY <3>1 DEF Inv, OneHandlerPerEvent
    <3>3. \/ UNCHANGED evStatus
          \/ \E s : evStatus' = [evStatus EXCEPT ![task[w]] = s]
      BY <2>3 DEF FinishProcessed, FinishFailed, Crash
    <3> QED
      BY <1>1, <1>3, <1>4, <3>1, <3>2, <3>3 DEF EmittedOK
  <2> QED
    BY <2>1, <2>2, <2>3, TaskSteps
<1>5. ASSUME NEW e \in emitted', NEW f \in emitted',
             e.kind = "disputeLost", f.kind = "disputeWon", e.checkout = f.checkout
      PROVE  FALSE
  <2>1. CASE UNCHANGED emitted
    BY <1>5, <2>1 DEF EmittedOK
  <2>2. ASSUME NEW g \in Event, Emit(g) PROVE FALSE
    <3>1. emitted' = emitted \cup {g} /\ Emittable(g)
      BY <2>2 DEF Emit
    <3>2. g.kind \in {"disputeLost", "disputeWon"} =>
            \A h \in emitted : h.checkout = g.checkout =>
              h.kind \notin {"disputeLost", "disputeWon"}
      BY <3>1 DEF Emittable, EmittedFor
    <3> QED
      BY <1>5, <3>1, <3>2 DEF EmittedOK
  <2> QED
    BY <1>2, <2>1, <2>2
<1>6. ASSUME NEW c \in Checkout, payment'[c].status = "chargeback"
      PROVE  \E e \in emitted' : e.kind = "disputeLost" /\ e.checkout = c
  <2>1. CASE payment'[c] = payment[c]
    BY <1>3, <1>6, <2>1 DEF EmittedOK
  <2>2. ASSUME NEW w \in Worker, CommitReversal(w), payment'[c] # payment[c]
        PROVE  \E e \in emitted' : e.kind = "disputeLost" /\ e.checkout = c
    <3>1. /\ c = Chk(w) /\ payment'[c] = PaymentAfter(task[w])
          /\ task[w] \in Event /\ task[w].kind \in Kind \ {"paid"}
          /\ Chk(w) = task[w].checkout /\ evStatus[task[w]] = "received"
      BY <2>2, CommitWrites
    <3>2. task[w].kind = "disputeLost"
      BY <1>6, <3>1, PaymentAfterStatus DEF Inv, Kind
    <3>3. task[w] \in emitted
      BY <3>1 DEF EmittedOK
    <3> QED
      BY <1>3, <3>1, <3>2, <3>3
  <2> QED
    BY <1>6, <2>1, <2>2, PaymentSteps, CompletionKeeps
<1> QED
  BY <1>4, <1>5, <1>6 DEF EmittedOK

\* Every step keeps LockedOK.
LEMMA LockedStep ==
  ASSUME Inv, LockedOK, [Next]_vars
  PROVE  LockedOK'
<1>0. /\ pc \in [Worker -> Phase] /\ Inv'
      /\ payment \in [Checkout -> [status : PayStatus, refunded : Nat]]
  BY TypeStep, HandlerStep, MutexStep DEF Inv, TypeOK
<1>1. ASSUME NEW w \in Worker, pc'[w] = "commit"
      PROVE  /\ task'[w] = task[w] /\ Chk(w)' = Chk(w)
             /\ Chk(w) \in Checkout /\ Chk(w) = task[w].checkout
             /\ task[w] \in Event
  <2>1. task'[w] = task[w] /\ Chk(w)' = Chk(w)
    BY <1>1, OpenReversalSteps DEF Chk
  <2>2. task'[w] \in Event /\ task'[w] # NoEvent
    BY <1>0, <1>1, EventAssumption DEF Inv, TypeOK, HandlerOK
  <2> QED
    BY <2>1, <2>2, EventAssumption DEF Chk
<1>2. ASSUME NEW w \in Worker, pc[w] # "commit", pc'[w] = "commit"
      PROVE  /\ BeginReversal(w) /\ UNCHANGED payment
             /\ \A v \in Worker \ {w} : pc'[v] = pc[v]
  <2>1. ASSUME NEW v \in Worker, BeginReversal(v)
        PROVE  v = w
    BY <1>0, <1>2, <2>1 DEF BeginReversal, Goto
  <2>2. ASSUME NEW v \in Worker, NEW p \in Phase \ {"commit"}, Goto(v, p) PROVE FALSE
    BY <1>0, <1>2, <2>2 DEF Goto
  <2>3. ASSUME NEW v \in Worker, Handle(v) PROVE BeginReversal(v)
    <3>1. \/ BeginReversal(v)
          \/ \E p \in Phase \ {"commit"} : Goto(v, p)
      BY <2>3 DEF Handle, ApplyCheckoutCompleted, RefuseEvent, CommitReversal,
         StopRenewal, CreditRead, CreditUpdateWallet, CreditInsertPurchase,
         RollbackWalletCredit, ReconcileCoinReversal, FinishProcessed,
         FinishFailed, Release, Phase
    <3> QED
      BY <2>2, <3>1
  <2>4. ~ UNCHANGED pc
    BY <1>2
  <2>5. ASSUME NEW v \in Worker, StatementFails(v) \/ Crash(v) PROVE FALSE
    BY <2>2, <2>5 DEF StatementFails, Crash, Release, Phase
  <2>6. ASSUME NEW v \in Worker, NEW e \in Event, Begin(v, e) PROVE FALSE
    BY <2>2, <2>6 DEF Begin, Phase
  <2>7. \E v \in Worker : BeginReversal(v)
    BY <2>3, <2>4, <2>5, <2>6 DEF Next, Emit, AcknowledgeDuplicate, SendGift,
       ReverseGift, ReviewFrozenWallet, vars
  <2>8. BeginReversal(w)
    BY <2>1, <2>7
  <2> QED
    BY <1>0, <2>8 DEF BeginReversal, Goto
<1>3. ASSUME NEW w \in Worker, pc'[w] = "commit"
      PROVE  Applies(task[w])' /\ payment'[Chk(w)] = payment[Chk(w)]
  <2>1. CASE pc[w] # "commit"
    <3>1. Applies(task[w]) /\ UNCHANGED payment
      BY <1>2, <1>3, <2>1 DEF BeginReversal
    <3> QED
      BY <1>1, <1>3, <3>1 DEF Applies
  <2>2. CASE pc[w] = "commit"
    <3>1. payment'[Chk(w)] = payment[Chk(w)]
      <4>1. ASSUME NEW v \in Worker, CommitReversal(v)
            PROVE  payment'[Chk(w)] = payment[Chk(w)]
        <5>1. pc[v] = "commit"
          BY <4>1 DEF CommitReversal
        <5>2. CASE v = w
          <6>1. Goto(w, "fail") \/ Goto(w, "renew") \/ Goto(w, "finish")
            BY <4>1, <5>2, CommitWrites
          <6> QED
            BY <1>0, <1>3, <6>1 DEF Goto
        <5>3. CASE v # w
          <6>1. Chk(v) # Chk(w)
            BY <2>2, <5>1, <5>3 DEF LockedOK
          <6> QED
            BY <1>1, <1>3, <4>1, <6>1, CommitWrites
        <5> QED
          BY <5>2, <5>3
      <4>2. ASSUME NEW v \in Worker, ApplyCheckoutCompleted(v)
            PROVE  payment'[Chk(w)] = payment[Chk(w)]
        <5>1. ~PaymentLocked(Chk(v), v) /\ pc[v] = "apply"
          BY <4>2 DEF ApplyCheckoutCompleted
        <5>2. Chk(v) # Chk(w)
          BY <2>2, <5>1 DEF PaymentLocked
        <5> QED
          BY <1>1, <1>3, <4>2, <5>2, CompletionKeeps
      <4> QED
        BY <4>1, <4>2, PaymentSteps
    <3>2. Applies(task[w])
      BY <2>2 DEF LockedOK
    <3> QED
      BY <1>1, <1>3, <3>1, <3>2 DEF Applies
  <2> QED
    BY <2>1, <2>2
<1>4. ASSUME NEW w \in Worker, NEW v \in Worker, pc'[w] = "commit", pc'[v] = "commit",
             Chk(v)' = Chk(w)'
      PROVE  v = w
  <2>1. Chk(v) = Chk(w)
    BY <1>1, <1>4
  <2>2. CASE pc[v] = "commit" /\ pc[w] = "commit"
    BY <2>1, <2>2 DEF LockedOK
  <2>3. ASSUME NEW x \in Worker, NEW y \in Worker, x # y, Chk(x) = Chk(y),
               pc[x] # "commit", pc'[x] = "commit", pc'[y] = "commit"
        PROVE  FALSE
    <3>1. pc[y] = "commit" /\ ~PaymentLocked(Chk(x), x)
      BY <1>2, <2>3 DEF BeginReversal
    <3> QED
      BY <2>3, <3>1 DEF PaymentLocked
  <2> QED
    BY <1>4, <2>1, <2>2, <2>3
<1> QED
  BY <1>3, <1>4 DEF LockedOK

\* A payment row keeps telling of a reversal whatever is applied after it, but
\* for a dispute opened that overwrites a chargeback.
LEMMA EffectKept ==
  ASSUME Inv, EmittedOK, LockedOK, [Next]_vars, NEW e \in Event,
         InEffect(e), e.checkout \notin lapsed'
  PROVE  InEffect(e)'
<1> DEFINE c == e.checkout
           p == payment[c]
<1>1. /\ c \in Checkout /\ e.minor \in Nat /\ Amount[c] \in Nat
      /\ p \in [status : PayStatus, refunded : Nat]
  BY EventAssumption, AmountAssumption DEF Inv, TypeOK
<1>2. CASE payment'[c] = p
  BY <1>2 DEF InEffect
<1>3. ASSUME NEW w \in Worker, ApplyCheckoutCompleted(w), payment'[c] # p
      PROVE  InEffect(e)'
  <2>1. p.status = "none"
    BY <1>1, <1>3, CompletionKeeps
  <2>2. e.kind \notin {"refund", "disputeLost"}
    BY <2>1 DEF InEffect, Reversals
  <2> QED
    BY <2>2 DEF InEffect
<1>4. ASSUME NEW w \in Worker, CommitReversal(w), payment'[c] # p
      PROVE  InEffect(e)'
  <2> DEFINE f == task[w]
             q == PaymentAfter(f)
  <2>1. /\ c = Chk(w) /\ payment'[c] = q /\ f \in Event
        /\ f.kind \in Kind \ {"paid"} /\ f.checkout = c
        /\ evStatus[f] = "received"
        /\ lapsed' = IF SlipsBy(w) THEN lapsed \cup {c} ELSE lapsed
        /\ pc[w] = "commit"
    BY <1>1, <1>4, CommitWrites DEF CommitReversal
  <2>2. /\ f.kind = "disputeOpened" => p.status # "chargeback"
        /\ f.kind = "refund" => p.status # "chargeback"
    <3>1. ~SlipsBy(w)
      BY <2>1
    <3>2. Applies(f)
      BY <2>1 DEF LockedOK
    <3> QED
      BY <2>1, <3>1, <3>2 DEF SlipsBy, Applies
  <2>3. f.kind = "disputeWon" => p.status # "chargeback"
    <3> SUFFICES ASSUME f.kind = "disputeWon", p.status = "chargeback" PROVE FALSE
      OBVIOUS
    <3>1. f \in emitted
      BY <2>1 DEF EmittedOK
    <3>2. PICK g \in emitted : g.kind = "disputeLost" /\ g.checkout = c
      BY <1>1 DEF EmittedOK
    <3> QED
      BY <2>1, <3>1, <3>2 DEF EmittedOK
  <2>4. /\ f.kind = "refund" =>
             /\ q.status \in {"refunded", "partially_refunded"}
             /\ q.refunded = MinOf(Amount[c], IF f.minor > p.refunded
                                              THEN f.minor ELSE p.refunded)
        /\ f.kind = "disputeLost" => q.status = "chargeback" /\ q.refunded = p.refunded
        /\ f.kind \in {"disputeOpened", "disputeWon"} =>
             /\ q.refunded = p.refunded
             /\ q.status = IF p.status \in {"refunded", "partially_refunded"}
                           THEN p.status
                           ELSE IF f.kind = "disputeOpened" THEN "disputed"
                           ELSE "success"
    BY <2>1, PaymentAfterStatus DEF Inv
  <2>5. f.kind \in {"refund", "disputeOpened", "disputeLost", "disputeWon"} /\ f.minor \in Nat
    BY <2>1, EventAssumption DEF Kind
  <2> HIDE DEF q, f
  <2>6. CASE e.kind = "disputeLost"
    <3>1. p.status = "chargeback"
      BY <2>6 DEF InEffect
    <3>2. f.kind = "disputeLost"
      BY <2>2, <2>3, <2>5, <3>1
    <3> QED
      BY <2>1, <2>4, <2>6, <3>2 DEF InEffect
  <2>7. CASE e.kind = "refund"
    <3>1. p.status \in Reversals /\ p.refunded >= MinOf(e.minor, Amount[c])
      BY <2>7 DEF InEffect
    <3>2. q.status \in Reversals
      BY <2>2, <2>3, <2>4, <2>5, <3>1 DEF Reversals
    <3>3. q.refunded >= MinOf(e.minor, Amount[c])
      BY <1>1, <2>4, <2>5, <3>1 DEF MinOf
    <3> QED
      BY <2>1, <2>7, <3>2, <3>3 DEF InEffect
  <2> QED
    BY <2>6, <2>7 DEF InEffect
<1> QED
  BY <1>2, <1>3, <1>4, PaymentSteps

\* An event becomes committed by the commit of its transaction.
LEMMA CommittedSteps ==
  ASSUME Inv, [Next]_vars, NEW e \in Event, e.kind # "paid", Committed(e)'
  PROVE  \/ Committed(e)
         \/ \E w \in Worker : /\ CommitReversal(w) /\ task[w] = e
                              /\ payment'[e.checkout] = PaymentAfter(e)
<1> USE DEF provider, wallet, ledger, local, history
<1> DEFINE Commits == \E w \in Worker : /\ CommitReversal(w) /\ task[w] = e
                                        /\ payment'[e.checkout] = PaymentAfter(e)
<1>0. /\ task \in [Worker -> Event \cup {NoEvent}] /\ pc \in [Worker -> Phase]
      /\ e # NoEvent
      /\ evStatus \in [Event -> {"none", "received", "processed", "failed"}]
  BY EventAssumption DEF Inv, TypeOK
<1>1. ASSUME UNCHANGED <<evStatus, task, pc>> PROVE Committed(e)
  BY <1>1 DEF Committed
<1>2. ASSUME NEW w \in Worker, NEW p \in Phase \ {"renew", "finish"}, Goto(w, p),
             UNCHANGED <<evStatus, task>>
      PROVE  Committed(e)
  BY <1>0, <1>2 DEF Committed, Goto
<1>3. ASSUME NEW w \in Worker, NEW f \in Event, Begin(w, f) PROVE Committed(e)
  <2>1. /\ evStatus' = [evStatus EXCEPT ![f] = "received"]
        /\ task' = [task EXCEPT ![w] = f] /\ pc' = [pc EXCEPT ![w] = "apply"]
    BY <1>3 DEF Begin, Goto
  <2> QED
    BY <1>0, <2>1 DEF Committed
<1>4. ASSUME NEW w \in Worker, FinishProcessed(w) \/ FinishFailed(w) \/ Crash(w)
      PROVE  Committed(e)
  <2>1. task' = [task EXCEPT ![w] = NoEvent] /\ pc' = [pc EXCEPT ![w] = "idle"]
    BY <1>4 DEF FinishProcessed, FinishFailed, Crash, Release, Goto
  <2>2. \/ evStatus' = evStatus
        \/ /\ pc[w] = "finish"
           /\ evStatus' = [evStatus EXCEPT ![task[w]] = "processed"]
        \/ evStatus' = [evStatus EXCEPT ![task[w]] = "failed"]
    BY <1>4 DEF FinishProcessed, FinishFailed, Crash
  <2> QED
    BY <1>0, <2>1, <2>2 DEF Committed
<1>5. ASSUME NEW w \in Worker, StopRenewal(w) PROVE Committed(e)
  <2>1. /\ pc[w] = "renew" /\ UNCHANGED <<evStatus, task>>
        /\ (Goto(w, "finish") \/ Goto(w, "fail"))
    BY <1>5 DEF StopRenewal
  <2> QED
    BY <1>0, <2>1 DEF Committed, Goto
<1>6. ASSUME NEW w \in Worker, ReconcileCoinReversal(w) PROVE Committed(e)
  <2>1. pc[w] = "reconcile" /\ UNCHANGED <<evStatus, task>> /\ Goto(w, "finish")
    BY <1>6 DEF ReconcileCoinReversal
  <2>2. task[w] # e
    BY <2>1 DEF Inv, HandlerOK
  <2> QED
    BY <1>0, <2>1, <2>2 DEF Committed, Goto
<1>7. ASSUME NEW w \in Worker, CommitReversal(w) PROVE Committed(e) \/ Commits
  <2>1. UNCHANGED <<evStatus, task>> /\ task[w] \in Event /\ Chk(w) = task[w].checkout
    BY <1>7, CommitWrites
  <2>2. CASE task[w] = e
    <3>1. CASE Goto(w, "fail")
      BY <1>2, <2>1, <3>1 DEF Phase
    <3>2. CASE payment'[Chk(w)] = PaymentAfter(task[w])
      BY <1>7, <2>1, <2>2, <3>2
    <3> QED
      BY <1>7, <3>1, <3>2, CommitWrites
  <2>3. CASE task[w] # e
    <3>1. \E p \in Phase : Goto(w, p)
      BY <1>7, CommitWrites DEF Phase
    <3> QED
      BY <1>0, <2>1, <2>3, <3>1 DEF Committed, Goto
  <2> QED
    BY <2>2, <2>3
<1> HIDE DEF Commits
<1>8. ASSUME NEW w \in Worker,
             \/ ApplyCheckoutCompleted(w) \/ BeginReversal(w) \/ RefuseEvent(w)
             \/ CreditRead(w) \/ CreditUpdateWallet(w) \/ CreditInsertPurchase(w)
             \/ RollbackWalletCredit(w) \/ StatementFails(w)
      PROVE  Committed(e)
  <2>1. /\ UNCHANGED <<evStatus, task>>
        /\ \E p \in Phase \ {"renew", "finish"} : Goto(w, p)
    BY <1>8 DEF ApplyCheckoutCompleted, BeginReversal, RefuseEvent, CreditRead,
       CreditUpdateWallet, CreditInsertPurchase, RollbackWalletCredit,
       StatementFails, Phase
  <2> QED
    BY <1>2, <2>1
<1>9. ASSUME NEW w \in Worker, Handle(w) PROVE Committed(e) \/ Commits
  BY <1>4, <1>5, <1>6, <1>7, <1>8, <1>9 DEF Handle
<1>10. ASSUME UNCHANGED vars PROVE Committed(e)
  BY <1>1, <1>10 DEF vars
<1>11. ASSUME NEW f \in Event, Emit(f) \/ AcknowledgeDuplicate(f)
       PROVE  UNCHANGED <<evStatus, task, pc>>
  BY <1>11 DEF Emit, AcknowledgeDuplicate
<1>12. ASSUME NEW g \in Gift, SendGift(g) \/ ReverseGift(g)
       PROVE  UNCHANGED <<evStatus, task, pc>>
  BY <1>12 DEF SendGift, ReverseGift
<1>13. ASSUME NEW writeOff \in BOOLEAN, ReviewFrozenWallet(writeOff)
       PROVE  UNCHANGED <<evStatus, task, pc>>
  BY <1>13 DEF ReviewFrozenWallet
<1>14. Committed(e) \/ Commits
  <2>1. CASE \E f \in Event : Emit(f) \/ AcknowledgeDuplicate(f)
    BY <1>1, <1>11, <2>1
  <2>2. CASE \E w \in Worker, f \in Event : Begin(w, f)
    BY <1>3, <2>2
  <2>3. CASE \E w \in Worker : Handle(w)
    BY <1>9, <2>3
  <2>4. CASE \E w \in Worker : StatementFails(w) \/ Crash(w)
    BY <1>4, <1>8, <2>4
  <2>5. CASE \E g \in Gift : SendGift(g) \/ ReverseGift(g)
    BY <1>1, <1>12, <2>5
  <2>6. CASE \E writeOff \in BOOLEAN : ReviewFrozenWallet(writeOff)
    BY <1>1, <1>13, <2>6
  <2> QED
    BY <1>10, <2>1, <2>2, <2>3, <2>4, <2>5, <2>6 DEF Next
<1> QED
  BY <1>14 DEF Commits

\* Every step keeps Remembered.
LEMMA RememberedStep ==
  ASSUME Inv, EmittedOK, LockedOK, Remembered, [Next]_vars
  PROVE  Remembered'
<1> SUFFICES ASSUME NEW e \in Event, Committed(e)', e.checkout \notin lapsed'
             PROVE  InEffect(e)'
  BY DEF Remembered
<1>1. lapsed \subseteq lapsed'
  BY PaymentSteps DEF CommitReversal, ApplyCheckoutCompleted, history
<1>2. CASE Committed(e)
  BY <1>1, <1>2, EffectKept DEF Remembered
<1>3. CASE e.kind = "paid"
  BY <1>3 DEF InEffect
<1>4. ASSUME NEW w \in Worker, CommitReversal(w), task[w] = e, e.kind # "paid",
             payment'[e.checkout] = PaymentAfter(e)
      PROVE  InEffect(e)'
  <2> DEFINE p == payment[e.checkout]
             q == PaymentAfter(e)
  <2>1. /\ e.minor \in Nat /\ Amount[e.checkout] \in Nat /\ p.refunded \in Nat
    BY EventAssumption, AmountAssumption DEF Inv, TypeOK
  <2>2. /\ e.kind = "refund" =>
             /\ q.status \in {"refunded", "partially_refunded"}
             /\ q.refunded = MinOf(Amount[e.checkout], IF e.minor > p.refunded
                                                       THEN e.minor ELSE p.refunded)
        /\ e.kind = "disputeLost" => q.status = "chargeback"
    BY <1>4, PaymentAfterStatus DEF Inv
  <2> HIDE DEF p, q
  <2>3. e.kind = "refund" => q.refunded >= MinOf(e.minor, Amount[e.checkout])
    BY <2>1, <2>2 DEF MinOf
  <2>4. payment'[e.checkout] = q
    BY <1>4 DEF q
  <2> QED
    BY <2>2, <2>3, <2>4 DEF InEffect, Reversals
<1> QED
  BY <1>2, <1>3, <1>4, CommittedSteps

\* More minor units never owe fewer coins.
LEMMA ProRataGrows ==
  ASSUME NEW c \in Checkout, NEW credited \in Nat, NEW m \in Nat, NEW n \in Nat, m <= n
  PROVE  /\ ProRata(c, credited, m) \in Nat /\ ProRata(c, credited, n) \in Nat
         /\ ProRata(c, credited, m) <= ProRata(c, credited, n)
<1>1. Amount[c] \in Nat \ {0}
  BY AmountAssumption
<1> DEFINE X == 2 * credited * m + Amount[c]
           Y == 2 * credited * n + Amount[c]
           D == 2 * Amount[c]
<1>2. X \in Nat /\ Y \in Nat /\ D \in Nat \ {0} /\ X <= Y
  <2>1. credited * m \in Nat /\ credited * n \in Nat /\ credited * m <= credited * n
    OBVIOUS
  <2>2. 2 * credited * m = 2 * (credited * m) /\ 2 * credited * n = 2 * (credited * n)
    OBVIOUS
  <2> QED
    BY <1>1, <2>1, <2>2
<1> HIDE DEF X, Y, D
<1>3. X \div D \in Nat /\ Y \div D \in Nat /\ X \div D <= Y \div D
  <2> DEFINE x == X \div D
             y == Y \div D
  <2>1. /\ x \in Nat /\ y \in Nat
        /\ D * x <= X /\ Y < D * (y + 1)
    BY <1>2
  <2> HIDE DEF x, y
  <2>2. D * x < D * (y + 1)
    BY <1>2, <2>1
  <2>3. x < y + 1
    BY <1>2, <2>1, <2>2
  <2>4. x \in Nat /\ y \in Nat /\ x <= y
    BY <2>1, <2>3
  <2> QED
    BY <2>4 DEF x, y
<1> QED
  BY <1>3 DEF ProRata, X, Y, D

\* Once caught up, a checkout has given back what each of its reversals owes.
LEMMA CaughtUpIsComplete ==
  ASSUME Inv, CaughtUp, Remembered, NEW e \in Event, evStatus[e] = "processed",
         ~Unsettled(e.checkout), e.checkout \notin lapsed
  PROVE  reversed[e.checkout] >= OwesBy(e)
<1> DEFINE c == e.checkout
           k == Credited(c)
           p == payment[c]
           m == MinOf(e.minor, Amount[c])
<1>1. /\ c \in Checkout /\ e.minor \in Nat /\ Amount[c] \in Nat /\ m \in Nat
      /\ p \in [status : PayStatus, refunded : Nat]
      /\ reversed[c] \in Nat /\ k \in Nat
  BY EventAssumption, AmountAssumption, CoinsAssumption
     DEF Inv, TypeOK, MinOf, Credited
<1>2. ~CreditPending(c)
  BY DEF CreditPending, Unsettled
<1>3. reversed[c] >= Target(c, p, k)
  BY <1>1, <1>2 DEF CaughtUp
<1>4. InEffect(e)
  BY DEF Remembered, Committed
<1>5. Target(c, p, k) >= OwesBy(e) /\ Target(c, p, k) \in Nat /\ OwesBy(e) \in Int
  <2>0. Target(c, p, k) \in Nat
    BY <1>1, TargetNat
  <2>1. CASE e.kind = "disputeLost"
    <3>1. p.status = "chargeback"
      BY <1>4, <2>1 DEF InEffect
    <3>2. Target(c, p, k) = k /\ OwesBy(e) = k
      BY <2>1, <3>1 DEF Target, OwesBy
    <3> QED
      BY <1>1, <3>2
  <2>2. CASE e.kind = "refund"
    <3>1. p.status \in Reversals /\ p.refunded >= m
      BY <1>4, <2>2 DEF InEffect
    <3>2. OwesBy(e) = MinOf(k, ProRata(c, k, m))
      BY <2>2 DEF OwesBy
    <3> HIDE DEF k, m, p, c
    <3>3. /\ ProRata(c, k, m) \in Nat /\ ProRata(c, k, p.refunded) \in Nat
          /\ ProRata(c, k, m) <= ProRata(c, k, p.refunded)
      <4>1. p.refunded \in Nat /\ m <= p.refunded
        BY <1>1, <3>1
      <4> QED
        BY <1>1, <4>1, ProRataGrows
    <3>4. OwesBy(e) \in Nat /\ OwesBy(e) <= k /\ OwesBy(e) <= ProRata(c, k, p.refunded)
      BY <1>1, <3>2, <3>3 DEF MinOf
    <3>5. \/ Target(c, p, k) = k
          \/ Target(c, p, k) = MinOf(k, ProRata(c, k, p.refunded))
      BY <3>1 DEF Target, Reversals
    <3> QED
      BY <1>1, <3>3, <3>4, <3>5 DEF MinOf
  <2>3. CASE e.kind \notin {"refund", "disputeLost"}
    <3>1. OwesBy(e) = 0
      BY <2>3 DEF OwesBy
    <3> HIDE DEF k, m, p, c
    <3> QED
      BY <2>0, <3>1
  <2> QED
    BY <2>1, <2>2, <2>3, <2>0
<1> HIDE DEF k, m, p
<1> QED
  BY <1>1, <1>3, <1>5

\* What is true of "the order in which the provider's events arrive cannot
\* leave coins behind", whatever overlaps, dies or fails: once a checkout's
\* payment is settled, every processed refund and lost dispute has its coins
\* back, but for a reversal that commits an older snapshot after the
\* reconciliation has looked, and a dispute opened that arrives after it was
\* lost.
THEOREM ReversalsCaughtUp == Spec => []ReversalComplete
<1>1. Init => CaughtUp /\ EmittedOK /\ LockedOK /\ Remembered
  <2> SUFFICES ASSUME Init PROVE CaughtUp /\ EmittedOK /\ LockedOK /\ Remembered
    OBVIOUS
  <2>1. \A c \in Checkout : Target(c, payment[c], Credited(c)) = 0 /\ reversed[c] = 0
    BY DEF Init, Target
  <2>2. CaughtUp
    BY <2>1 DEF CaughtUp
  <2>3. EmittedOK /\ LockedOK
    BY DEF Init, EmittedOK, LockedOK
  <2>4. Remembered
    BY DEF Init, Remembered, Committed
  <2> QED
    BY <2>2, <2>3, <2>4
<1>2. BooksInv => Inv
  BY DEF BooksInv, ReversalInv
<1>3. BooksInv /\ CaughtUp /\ [Next]_vars => CaughtUp'
  BY CaughtUpStep
<1>4. Inv /\ EmittedOK /\ [Next]_vars => EmittedOK'
  BY EmittedStep
<1>5. Inv /\ LockedOK /\ [Next]_vars => LockedOK'
  BY LockedStep
<1>6. Inv /\ EmittedOK /\ LockedOK /\ Remembered /\ [Next]_vars => Remembered'
  BY RememberedStep
<1>7. Inv /\ CaughtUp /\ Remembered => ReversalComplete
  BY CaughtUpIsComplete DEF ReversalComplete
<1> QED
  BY <1>1, <1>2, <1>3, <1>4, <1>5, <1>6, <1>7, BooksInvHolds, PTL DEF Spec
=============================================================================
