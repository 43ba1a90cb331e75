-------------------------- MODULE TxInputsProofs ---------------------------
(***************************************************************************)
(* The inputs of a transaction, for ledgers of every size: which coins the *)
(* query, divideCoins and the selection hand to the transaction layer, and *)
(* what follows for the transactions built from them.                      *)
(***************************************************************************)
EXTENDS TxBuildProofs, ChooseCoinsProofs, SequenceTheorems

-----------------------------------------------------------------------------
(* Kept, the list of the elements at some positions                        *)

Rank(K, k) == Cardinality({m \in K : m <= k})

\* The positions kept are finitely many.
LEMMA RankIsNat ==
    ASSUME NEW n \in Nat, NEW K, K \subseteq 1..n
    PROVE  /\ IsFiniteSet(K) /\ Cardinality(K) \in Nat
           /\ \A k \in Nat : IsFiniteSet({m \in K : m <= k}) /\ Rank(K, k) \in Nat
<1>0. IsFiniteSet(1..n)
      BY FS_Interval
<1>1. IsFiniteSet(K)
      BY <1>0, FS_Subset
<1>2. \A k \in Nat : {m \in K : m <= k} \subseteq K
      OBVIOUS
<1> QED
    BY <1>1, <1>2, FS_Subset, FS_CardinalityType DEF Rank

\* The rank of a position is one more than that of the position before it.
LEMMA NextRank ==
    ASSUME NEW n \in Nat, NEW K, K \subseteq 1..n, NEW k \in Nat, NEW l \in K,
           k < l, \A m \in K : m < l => m <= k
    PROVE  Rank(K, l) = Rank(K, k) + 1
<1> DEFINE S == {m \in K : m <= k}
<1>0. \A m \in K : m \in Nat
      OBVIOUS
<1>1. IsFiniteSet(S)
      BY RankIsNat
<1>2. l \notin S /\ {m \in K : m <= l} = S \cup {l}
  <2>1. \A m \in K : m <= l <=> m <= k \/ m = l
        BY <1>0
  <2>2. ~(l <= k)
        BY <1>0
  <2> QED
      BY <2>1, <2>2, Zenon
<1>3. Cardinality(S \cup {l}) = Cardinality(S) + 1
      BY <1>1, <1>2, FS_AddElement
<1> QED
    BY <1>2, <1>3 DEF Rank

\* Every rank is that of a position.
LEMMA RankExists ==
    ASSUME NEW n \in Nat, NEW K, K \subseteq 1..n
    PROVE  \A j \in 1..Cardinality(K) : \E k \in K : Rank(K, k) = j
<1> DEFINE P == {j \in Nat : j \in 1..Cardinality(K) => \E k \in K : Rank(K, k) = j}
<1>1. 0 \in P
      OBVIOUS
<1>2. ASSUME NEW j \in Nat, j \in P, j + 1 \in 1..Cardinality(K)
      PROVE  \E k \in K : Rank(K, k) = j + 1
  <2>1. Cardinality(K) \in Nat /\ IsFiniteSet(K)
        BY RankIsNat
  <2>2. PICK k \in Nat : Rank(K, k) = j
    <3>1. CASE j = 0
      <4>1. {m \in K : m <= 0} = {}
        <5>1. \A m \in K : m \in 1..n /\ ~(m <= 0)
              OBVIOUS
        <5> QED
            BY <5>1
      <4>2. Rank(K, 0) = 0
            BY <4>1, FS_EmptySet DEF Rank
      <4> QED
          BY <3>1, <4>2
    <3>2. CASE j # 0
      <4>1. j \in 1..Cardinality(K)
            BY <1>2, <2>1, <3>2
      <4> QED
          BY <1>2, <4>1
    <3> QED
        BY <3>1, <3>2
  <2> DEFINE T == {m \in K : k < m}
  <2>3. T # {}
    <3> SUFFICES ASSUME T = {} PROVE FALSE
        OBVIOUS
    <3>1. {m \in K : m <= k} = K
      <4>1. \A m \in K : m \in 1..n /\ ~(k < m)
            OBVIOUS
      <4>2. \A m \in K : m <= k
            BY <4>1
      <4> QED
          BY <4>2
    <3>2. Cardinality(K) = j
          BY <2>2, <3>1 DEF Rank
    <3> QED
        BY <1>2, <2>1, <3>2
  <2>4. PICK l \in T : \A m \in T : l <= m
    <3>1. T \subseteq Nat
      <4>1. \A m \in K : m \in Nat
            OBVIOUS
      <4> QED
          BY <4>1
    <3> HIDE DEF T
    <3> QED
        BY <2>3, <3>1, Smallest, Zenon
  <2>5. l \in K /\ k < l /\ \A m \in K : m < l => m <= k
    <3>1. l \in K /\ l \in Nat /\ k < l /\ \A m \in K : m \in Nat
          BY <2>4
    <3>2. \A m \in K : k < m => l <= m
          BY <2>4
    <3> QED
        BY <3>1, <3>2
  <2>6. Rank(K, l) = j + 1
        BY <2>2, <2>5, NextRank
  <2> QED
      BY <2>5, <2>6
<1>3. \A j \in Nat : j \in P => j + 1 \in P
      BY <1>2
<1>4. Nat \subseteq P
  <2> HIDE DEF P
  <2> QED
      BY <1>1, <1>3, SetInduction
<1> QED
    BY <1>4, RankIsNat

\* A larger position has a larger rank.
LEMMA RankGrows ==
    ASSUME NEW n \in Nat, NEW K, K \subseteq 1..n, NEW k \in K, NEW l \in K, k < l
    PROVE  Rank(K, k) < Rank(K, l)
<1> DEFINE S == {m \in K : m <= k}
           T == {m \in K : m <= l}
<1>1. IsFiniteSet(T) /\ IsFiniteSet(S)
      BY RankIsNat
<1>2. S \subseteq T /\ l \in T /\ l \notin S
  <2>1. k \in Nat /\ l \in Nat /\ \A m \in K : m \in Nat
        OBVIOUS
  <2>2. \A m \in K : m <= k => m <= l
        BY <2>1
  <2>3. ~(l <= k) /\ l <= l
        BY <2>1
  <2> QED
      BY <2>2, <2>3, Zenon
<1>3. S # T
      BY <1>2
<1>4. Cardinality(S) < Cardinality(T)
  <2> HIDE DEF S, T
  <2> QED
    <3>1. Cardinality(S) \in Nat /\ Cardinality(T) \in Nat
          BY <1>1, FS_CardinalityType
    <3>2. Cardinality(S) <= Cardinality(T) /\ Cardinality(S) # Cardinality(T)
          BY <1>1, <1>2, <1>3, FS_Subset
    <3> QED
        BY <3>1, <3>2
<1> QED
    BY <1>4 DEF Rank

\* The positions kept, in order: each is one of K, each of K is one, and they
\* increase.
LEMMA NthKept ==
    ASSUME NEW n \in Nat, NEW K, K \subseteq 1..n
    PROVE  /\ \A j \in 1..Cardinality(K) : Nth(K, j) \in K /\ Rank(K, Nth(K, j)) = j
           /\ \A k \in K : Rank(K, k) \in 1..Cardinality(K) /\ Nth(K, Rank(K, k)) = k
           /\ \A j, m \in 1..Cardinality(K) : j < m => Nth(K, j) < Nth(K, m)
<1>1. \A j \in 1..Cardinality(K) : Nth(K, j) \in K /\ Rank(K, Nth(K, j)) = j
  <2> SUFFICES ASSUME NEW j \in 1..Cardinality(K)
               PROVE  Nth(K, j) \in K /\ Rank(K, Nth(K, j)) = j
      OBVIOUS
  <2>1. \E k \in K : Rank(K, k) = j
        BY RankExists
  <2>2. Nth(K, j) = CHOOSE k \in K : Rank(K, k) = j
        BY DEF Nth, Rank
  <2> QED
      BY <2>1, <2>2
<1>2. \A k \in K : Rank(K, k) \in 1..Cardinality(K)
  <2> SUFFICES ASSUME NEW k \in K PROVE Rank(K, k) \in 1..Cardinality(K)
      OBVIOUS
  <2> DEFINE S == {m \in K : m <= k}
  <2>1. k \in Nat /\ k <= k
        OBVIOUS
  <2>2. S \subseteq K /\ k \in S
        BY <2>1
  <2>3. IsFiniteSet(S) /\ IsFiniteSet(K)
        BY <2>1, RankIsNat
  <2>4. Cardinality(S) \in Nat /\ Cardinality(K) \in Nat /\ Cardinality(S) # 0
        BY <2>2, <2>3, FS_CardinalityType, FS_EmptySet
  <2>5. Cardinality(S) <= Cardinality(K)
        BY <2>2, <2>3, FS_Subset
  <2> QED
      BY <2>4, <2>5 DEF Rank
<1>3. \A k, l \in K : Rank(K, k) = Rank(K, l) => k = l
  <2> SUFFICES ASSUME NEW k \in K, NEW l \in K, k # l
               PROVE  Rank(K, k) # Rank(K, l)
      OBVIOUS
  <2>1. k \in Nat /\ l \in Nat
        OBVIOUS
  <2>2. Rank(K, k) \in Nat /\ Rank(K, l) \in Nat
        BY <2>1, RankIsNat
  <2>3. k < l \/ l < k
        BY <2>1
  <2>4. k < l => Rank(K, k) < Rank(K, l)
        BY RankGrows
  <2>5. l < k => Rank(K, l) < Rank(K, k)
        BY RankGrows
  <2> QED
      BY <2>2, <2>3, <2>4, <2>5
<1>4. \A k \in K : Nth(K, Rank(K, k)) = k
      BY <1>1, <1>2, <1>3
<1>5. ASSUME NEW j \in 1..Cardinality(K), NEW m \in 1..Cardinality(K), j < m
      PROVE  Nth(K, j) < Nth(K, m)
  <2>1. PICK k \in K : k = Nth(K, j) /\ Rank(K, k) = j
        BY <1>1
  <2>2. PICK l \in K : l = Nth(K, m) /\ Rank(K, l) = m
        BY <1>1
  <2>3. k \in Nat /\ l \in Nat /\ j \in Nat /\ m \in Nat
        BY RankIsNat
  <2>4. l < k => m < j
        BY <2>1, <2>2, RankGrows
  <2>5. l # k
        BY <1>5, <2>1, <2>2, <2>3
  <2>6. k < l
        BY <1>5, <2>3, <2>4, <2>5
  <2> QED
      BY <2>1, <2>2, <2>6
<1> QED
    BY <1>1, <1>2, <1>4, <1>5

\* A list kept whole is the list.
LEMMA KeptWhole ==
    ASSUME NEW n \in Nat, NEW s, s = [k \in 1..n |-> s[k]]
    PROVE  Kept(s, 1..n) = s
<1>1. Cardinality(1..n) = n
      BY FS_Interval
<1>2. \A j \in 1..n : Nth(1..n, j) = j
  <2> SUFFICES ASSUME NEW j \in 1..n PROVE Nth(1..n, j) = j
      OBVIOUS
  <2>1. {m \in 1..n : m <= j} = 1..j
        OBVIOUS
  <2>2. Cardinality(1..j) = j
        BY FS_Interval
  <2>3. Rank(1..n, j) = j
        BY <2>1, <2>2 DEF Rank
  <2> QED
      BY ZenonT(60), <2>3, NthKept
<1>3. Kept(s, 1..n) = [j \in 1..n |-> s[Nth(1..n, j)]]
      BY <1>1 DEF Kept
<1> QED
    BY <1>2, <1>3

\* The elements kept come from different positions.
LEMMA KeptList ==
    ASSUME NEW n \in Nat, NEW s, NEW K, K \subseteq 1..n
    PROVE  /\ Cardinality(K) \in Nat
           /\ Kept(s, K) = [j \in 1..Cardinality(K) |-> Kept(s, K)[j]]
           /\ \E f \in [1..Cardinality(K) -> K] :
                 /\ \A j \in 1..Cardinality(K) : Kept(s, K)[j] = s[f[j]]
                 /\ \A j, m \in 1..Cardinality(K) : j # m => f[j] # f[m]
<1>1. Cardinality(K) \in Nat
      BY RankIsNat
<1> DEFINE f == [j \in 1..Cardinality(K) |-> Nth(K, j)]
<1>2. f \in [1..Cardinality(K) -> K]
      BY NthKept
<1>3. \A j \in 1..Cardinality(K) : Kept(s, K)[j] = s[f[j]]
      BY DEF Kept
<1>4. ASSUME NEW j \in 1..Cardinality(K), NEW m \in 1..Cardinality(K), j # m
      PROVE  f[j] # f[m]
  <2>1. Rank(K, Nth(K, j)) = j /\ Rank(K, Nth(K, m)) = m
        BY NthKept
  <2> QED
      BY <1>4, <2>1
<1>5. Kept(s, K) = [j \in 1..Cardinality(K) |-> Kept(s, K)[j]]
      BY DEF Kept
<1> HIDE DEF f
<1> QED
    BY <1>1, <1>2, <1>3, <1>4, <1>5

-----------------------------------------------------------------------------
(* The queries                                                             *)

\* A list of coins of an asset, each with an index: no coin twice, none that
\* is worth nothing.
IsPairs(u, out) ==
    /\ Len(u) \in Nat /\ u = [j \in 1..Len(u) |-> u[j]]
    /\ \A j \in 1..Len(u) :
          /\ u[j] = [coin |-> u[j].coin, idx |-> u[j].idx]
          /\ u[j].coin \in ToSet(out) /\ u[j].coin.val # 0
    /\ \A j, m \in 1..Len(u) : j # m => u[j].coin # u[m].coin

\* Each coin is paired with its index.
IndexesNamed(u) == \A j \in 1..Len(u) : u[j].idx = u[j].coin.idx

\* Coins at different positions of such a list are different coins.
LEMMA CoinsDiffer ==
    ASSUME NEW out, OwnCoins(out),
           NEW k \in DOMAIN out, NEW m \in DOMAIN out, k # m
    PROVE  out[k] # out[m]
BY DEF OwnCoins

\* A part of such a list is such a list.
LEMMA KeptPairs ==
    ASSUME NEW out, NEW u, IsPairs(u, out), NEW K, K \subseteq 1..Len(u)
    PROVE  /\ IsPairs(Kept(u, K), out) /\ Len(Kept(u, K)) = Cardinality(K)
           /\ IndexesNamed(u) => IndexesNamed(Kept(u, K))
<1>1. PICK n \in Nat : n = Len(u)
      BY DEF IsPairs
<1>2. PICK c : c = Cardinality(K)
      OBVIOUS
<1>3. PICK t : t = Kept(u, K)
      OBVIOUS
<1>4. c \in Nat /\ t = [j \in 1..c |-> t[j]]
      BY <1>1, <1>2, <1>3, KeptList
<1>5. PICK f \in [1..c -> K] :
         /\ \A j \in 1..c : t[j] = u[f[j]]
         /\ \A j, m \in 1..c : j # m => f[j] # f[m]
      BY <1>1, <1>2, <1>3, KeptList
<1>6. Len(t) = c
      BY <1>4
<1>7. \A j \in 1..c : f[j] \in 1..Len(u) /\ f[j] \in K
      BY <1>5
<1>8. IsPairs(t, out)
  <2>1. \A j \in 1..c :
          /\ t[j] = [coin |-> t[j].coin, idx |-> t[j].idx]
          /\ t[j].coin \in ToSet(out) /\ t[j].coin.val # 0
        BY <1>5, <1>7 DEF IsPairs
  <2>2. \A j, m \in 1..c : j # m => t[j].coin # t[m].coin
        BY <1>5, <1>7 DEF IsPairs
  <2> QED
      BY <1>4, <1>6, <2>1, <2>2 DEF IsPairs
<1>9. IndexesNamed(u) => IndexesNamed(t)
      BY <1>5, <1>6, <1>7 DEF IndexesNamed
<1> QED
    BY <1>2, <1>3, <1>6, <1>8, <1>9

\* The end of every query: the coins returned are coins of the account, and
\* where every coin decrypts each comes with its index.
LEMMA QueryPairs ==
    ASSUME NEW out, OwnCoins(out), NEW flags, NEW want
    PROVE  /\ IsPairs(PairUp(out, flags, want), out)
           /\ (\A c \in ToSet(out) : c.ok) => IndexesNamed(PairUp(out, flags, want))
<1>1. PICK n \in Nat : n = Len(out) /\ DOMAIN out = 1..n
      BY DEF OwnCoins
<1> DEFINE D == {k \in DOMAIN out : out[k].ver = 1 \/ out[k].ok}
<1>2. D \subseteq 1..n
      BY <1>1
<1>3. PICK c \in Nat : c = Cardinality(D)
      BY <1>2, RankIsNat
<1>4. PICK dec : dec = GetListDecryptedCoins(out)
      OBVIOUS
<1>5. dec = Kept(out, D)
      BY <1>4 DEF GetListDecryptedCoins
<1>6. PICK f \in [1..c -> D] :
         /\ \A j \in 1..c : dec[j] = out[f[j]]
         /\ \A j, m \in 1..c : j # m => f[j] # f[m]
  <2> HIDE DEF D
  <2> QED
      BY <1>2, <1>3, <1>5, KeptList
<1>7. DOMAIN dec = 1..c
  <2> HIDE DEF D
  <2>1. dec = [j \in 1..c |-> dec[j]]
        BY <1>2, <1>3, <1>5, KeptList
  <2> QED
      BY <2>1
<1>8. PICK all : all = [k \in 1..c |-> [coin |-> dec[k], idx |-> out[k].idx]]
      OBVIOUS
<1> DEFINE H == {k \in 1..c : flags[k] = want /\ dec[k].val # 0}
<1>9. PairUp(out, flags, want) = Kept(all, H)
      BY <1>4, <1>7, <1>8 DEF PairUp
<1>10. PICK u : u = Kept(all, H)
      OBVIOUS
<1>11. PICK h \in Nat : h = Cardinality(H)
      BY RankIsNat
<1>12. PICK g \in [1..h -> H] :
         /\ \A j \in 1..h : u[j] = all[g[j]]
         /\ \A j, m \in 1..h : j # m => g[j] # g[m]
  <2>1. H \subseteq 1..c
        OBVIOUS
  <2> HIDE DEF H
  <2> QED
      BY SMTT(40), <1>10, <1>11, <2>1, KeptList
<1>13. u = [j \in 1..h |-> u[j]] /\ Len(u) = h
  <2>1. H \subseteq 1..c
        OBVIOUS
  <2> HIDE DEF H
  <2>2. u = [j \in 1..h |-> u[j]]
        BY <1>10, <1>11, <2>1, KeptList
  <2> QED
      BY <2>2
<1>14. \A j \in 1..h : g[j] \in 1..c /\ dec[g[j]].val # 0
      BY <1>12
<1>15. \A j \in 1..c : f[j] \in DOMAIN out /\ dec[j] = out[f[j]]
      BY <1>6
<1>16. \A j, m \in 1..c : j # m => dec[j] # dec[m]
      BY <1>6, <1>15, CoinsDiffer
<1>17. \A j \in 1..h : u[j] = [coin |-> dec[g[j]], idx |-> out[g[j]].idx]
      BY <1>8, <1>12, <1>14
<1>18. IsPairs(u, out)
  <2> HIDE DEF D, H
  <2>1. ASSUME NEW j \in 1..h
        PROVE  u[j].coin = dec[g[j]] /\ u[j].idx = out[g[j]].idx
    <3>1. PICK x, y : x = dec[g[j]] /\ y = out[g[j]].idx
          OBVIOUS
    <3>2. u[j] = [coin |-> x, idx |-> y]
          BY <1>17, <3>1
    <3> QED
        BY <3>1, <3>2
  <2>2. ASSUME NEW j \in 1..h
        PROVE  /\ u[j] = [coin |-> u[j].coin, idx |-> u[j].idx]
               /\ u[j].coin \in ToSet(out) /\ u[j].coin.val # 0
    <3>1. u[j] = [coin |-> u[j].coin, idx |-> u[j].idx]
          BY <1>17, <2>1
    <3>2. dec[g[j]] \in ToSet(out)
          BY <1>14, <1>15 DEF ToSet
    <3> QED
        BY <1>14, <2>1, <3>1, <3>2
  <2>3. ASSUME NEW j \in 1..h, NEW m \in 1..h, j # m
        PROVE  u[j].coin # u[m].coin
    <3>1. g[j] \in 1..c /\ g[m] \in 1..c /\ g[j] # g[m]
          BY <1>12, <1>14, <2>3
    <3>2. dec[g[j]] # dec[g[m]]
          BY <1>16, <3>1
    <3> QED
        BY <2>1, <3>2
  <2> QED
      BY <1>13, <2>2, <2>3 DEF IsPairs
<1>19. ASSUME \A x \in ToSet(out) : x.ok PROVE IndexesNamed(u)
  <2>1. D = 1..n
        BY <1>1, <1>19 DEF ToSet
  <2>2. out = [k \in 1..n |-> out[k]]
        BY <1>1 DEF OwnCoins
  <2>3. dec = out
    <3> HIDE DEF D
    <3> QED
        BY <1>5, <2>1, <2>2, KeptWhole
  <2> QED
      BY <1>13, <1>17, <2>3 DEF IndexesNamed
<1> QED
    BY <1>9, <1>10, <1>18, <1>19

\* The least of some naturals.
LEMMA MinIs ==
    ASSUME NEW S, S \subseteq Nat, S # {}
    PROVE  Min(S) \in S
<1>1. \E x \in S : \A y \in S : x <= y
      BY Smallest
<1> QED
    BY <1>1 DEF Min

\* Coins of an account with the same public key are the same.
LEMMA SameKey ==
    ASSUME NEW out, OwnCoins(out), NEW c \in ToSet(out), NEW d \in ToSet(out)
    PROVE  /\ c \in CoinType
           /\ c.id = d.id => c = d
           /\ c.idx = d.idx => c = d
<1>1. PICK k \in DOMAIN out : c = out[k]
      BY DEF ToSet
<1>2. PICK m \in DOMAIN out : d = out[m]
      BY DEF ToSet
<1>3. c \in CoinType
  <2>1. out \in Seq(CoinType) /\ k \in 1..Len(out)
        BY DEF OwnCoins
  <2> QED
      BY <1>1, <2>1, ElementOfSeq, Zenon
<1> QED
    BY <1>1, <1>2, <1>3 DEF OwnCoins

\* getListIdx finds the index of a coin in the list it was taken from.
LEMMA IdxIsFound ==
    ASSUME NEW out, OwnCoins(out), NEW u, IsPairs(u, out), IndexesNamed(u),
           NEW j \in 1..Len(u), u[j].coin.ver = 2
    PROVE  GetListIdx(u[j].coin, u) = u[j].coin.idx
<1> DEFINE I == {m \in 1..Len(u) : u[m].coin.ver = 2 /\ u[m].coin.id = u[j].coin.id}
<1>1. j \in I
      OBVIOUS
<1>2. I \subseteq Nat
  <2>1. Len(u) \in Nat
        BY DEF IsPairs
  <2> QED
      BY <2>1
<1>3. GetListIdx(u[j].coin, u) = u[Min(I)].idx
      BY <1>1 DEF GetListIdx, SelectInSeq
<1>4. PICK m : m = Min(I) /\ m \in I
      BY <1>1, <1>2, MinIs
<1>5. m \in 1..Len(u) /\ u[m].coin.id = u[j].coin.id
      BY <1>4
<1>6. u[m].coin \in ToSet(out) /\ u[j].coin \in ToSet(out)
      BY <1>5 DEF IsPairs
<1>7. u[m].coin = u[j].coin
      BY <1>5, <1>6, SameKey
<1>8. u[m].idx = u[m].coin.idx
      BY <1>5 DEF IndexesNamed
<1> QED
    BY <1>3, <1>4, <1>7, <1>8

\* The list coins are chosen from: coins of the account and of one version, in
\* descending order.
IsCandidates(list, out, v) ==
    /\ IsPairs(list, out)
    /\ \A k \in 1..Len(list) : list[k].coin.ver = v
    /\ \A k \in 1..(Len(list) - 1) : list[k].coin.val >= list[k + 1].coin.val

\* The coins of one version.
LEMMA VersionPairs ==
    ASSUME NEW out, NEW u, IsPairs(u, out), NEW v
    PROVE  /\ IsPairs(OfVersion(u, v), out)
           /\ \A j \in 1..Len(OfVersion(u, v)) :
                 /\ OfVersion(u, v)[j].coin.ver = v
                 /\ \E k \in 1..Len(u) : OfVersion(u, v)[j] = u[k]
<1>1. PICK n \in Nat : n = Len(u) /\ DOMAIN u = 1..n
      BY DEF IsPairs
<1>2. PICK V : V = {k \in DOMAIN u : u[k].coin.ver = v}
      OBVIOUS
<1>3. V \subseteq 1..n /\ \A k \in V : u[k].coin.ver = v
      BY <1>1, <1>2
<1>4. PICK w : w = Kept(u, V)
      OBVIOUS
<1>5. OfVersion(u, v) = w
      BY <1>2, <1>4 DEF OfVersion
<1>6. IsPairs(w, out) /\ Len(w) = Cardinality(V)
      BY <1>1, <1>3, <1>4, KeptPairs
<1>7. ASSUME NEW j \in 1..Len(w)
      PROVE  w[j].coin.ver = v /\ \E k \in 1..Len(u) : w[j] = u[k]
  <2>0. j \in 1..Cardinality(V) /\ V \subseteq 1..n
        BY <1>3, <1>6
  <2>1. PICK k \in V : k = Nth(V, j)
        BY <2>0, NthKept
  <2>2. w[j] = u[k]
        BY <1>4, <2>0, <2>1 DEF Kept
  <2> QED
      BY <1>1, <1>3, <2>1, <2>2
<1> QED
    BY <1>5, <1>6, <1>7

\* What divideCoins makes of a query's result.
LEMMA DividedCoins ==
    ASSUME NEW out, OwnCoins(out), NEW u, IsPairs(u, out), NEW v,
           NEW list \in DivideCoins(u, v)
    PROVE  /\ IsCandidates(list, out, v)
           /\ v = 2 /\ IndexesNamed(u) => IndexesNamed(list)
<1>1. PICK w : w = OfVersion(u, v)
      OBVIOUS
<1>2. /\ IsPairs(w, out)
      /\ \A j \in 1..Len(w) : /\ w[j].coin.ver = v
                              /\ \E k \in 1..Len(u) : w[j] = u[k]
      BY <1>1, VersionPairs
<1>3. PICK n \in Nat : n = Len(w) /\ DOMAIN w = 1..n
      BY <1>2 DEF IsPairs
<1>4. PICK p \in DescendingOrders(w) :
         list = [k \in DOMAIN p |->
                    [coin |-> p[k].coin,
                     idx |-> IF v = 2 THEN GetListIdx(p[k].coin, u) ELSE 0]]
      BY <1>1 DEF DivideCoins
<1>5. PICK f \in Bijection(1..n, 1..n) : p = [k \in 1..n |-> w[f[k]]]
      BY <1>3, <1>4 DEF DescendingOrders
<1>6. /\ f \in [1..n -> 1..n]
      /\ \A j, m \in 1..n : j # m => f[j] # f[m]
      BY <1>5 DEF Bijection, Injection, IsInjective
<1>7. DOMAIN p = 1..n /\ Len(p) = n
      BY <1>5
<1>8. \A k \in 1..(n - 1) : p[k].coin.val >= p[k + 1].coin.val
      BY <1>4, <1>7 DEF DescendingOrders
<1>9. \A k \in 1..n : p[k] = w[f[k]] /\ f[k] \in 1..n
      BY <1>5, <1>6
<1>10. Len(list) = n /\ list = [k \in 1..n |-> list[k]]
      BY <1>4, <1>7
<1>11. ASSUME NEW k \in 1..n
       PROVE  /\ list[k] = [coin |-> list[k].coin, idx |-> list[k].idx]
              /\ list[k].coin = w[f[k]].coin /\ list[k].coin = p[k].coin
              /\ v = 2 => list[k].idx = GetListIdx(list[k].coin, u)
  <2>1. PICK x, y : x = p[k].coin /\ y = IF v = 2 THEN GetListIdx(p[k].coin, u) ELSE 0
        OBVIOUS
  <2>2. list[k] = [coin |-> x, idx |-> y]
        BY <1>4, <1>7, <2>1
  <2> QED
      BY <1>9, <2>1, <2>2
<1>0. \A k \in 1..n : list[k].coin = w[f[k]].coin /\ f[k] \in 1..n
      BY <1>9, <1>11
<1>12. IsPairs(list, out)
  <2>1. ASSUME NEW k \in 1..n
        PROVE  list[k].coin \in ToSet(out) /\ list[k].coin.val # 0
    <3>1. \A j \in 1..n : w[j].coin \in ToSet(out) /\ w[j].coin.val # 0
          BY <1>2, <1>3 DEF IsPairs
    <3> QED
        BY <1>0, <3>1
  <2>2. ASSUME NEW k \in 1..n, NEW m \in 1..n, k # m
        PROVE  list[k].coin # list[m].coin
    <3>1. f[k] \in 1..n /\ f[m] \in 1..n /\ f[k] # f[m]
          BY <1>6, <2>2
    <3>2. w[f[k]].coin # w[f[m]].coin
          BY <1>2, <1>3, <3>1 DEF IsPairs
    <3> QED
        BY <1>0, <3>2
  <2> QED
      BY <1>10, <1>11, <2>1, <2>2 DEF IsPairs
<1>13. ASSUME NEW k \in 1..n
       PROVE  list[k].coin.ver = v
  <2>1. \A j \in 1..n : w[j].coin.ver = v
        BY <1>2, <1>3
  <2>2. f[k] \in 1..n /\ list[k].coin = w[f[k]].coin
        BY <1>0
  <2> QED
      BY <2>1, <2>2
<1>14. \A k \in 1..(n - 1) : list[k].coin.val >= list[k + 1].coin.val
  <2> SUFFICES ASSUME NEW k \in 1..(n - 1)
               PROVE  list[k].coin.val >= list[k + 1].coin.val
      OBVIOUS
  <2>1. k \in 1..n /\ k + 1 \in 1..n
        OBVIOUS
  <2> QED
      BY <1>8, <1>11, <2>1
<1>15. ASSUME v = 2, IndexesNamed(u) PROVE IndexesNamed(list)
  <2> SUFFICES ASSUME NEW k \in 1..n PROVE list[k].idx = list[k].coin.idx
      BY <1>10 DEF IndexesNamed
  <2>1. PICK m \in 1..Len(u) : w[f[k]] = u[m]
        BY <1>2, <1>3, <1>9
  <2>2. u[m].coin.ver = 2 /\ list[k].coin = u[m].coin
        BY <1>0, <1>2, <1>3, <1>15, <2>1
  <2>3. GetListIdx(u[m].coin, u) = u[m].coin.idx
        BY <1>15, <2>2, IdxIsFound
  <2> QED
      BY <1>11, <1>15, <2>2, <2>3
<1> QED
    BY <1>10, <1>12, <1>13, <1>14, <1>15 DEF IsCandidates

-----------------------------------------------------------------------------
(* The attempt                                                             *)

\* An attempt is of the version of the call, or of one of both; the fee is a
\* uint64, the default one in a conversion.
AttemptInv ==
    /\ LedgerOK(ledger, call) /\ fee \in Nat
    /\ Preparing \/ stage = "init" =>
          /\ version = CallVersion \/ (CallVersion = -1 /\ version \in {1, 2})
          /\ ~Transfers => version = 2 /\ fee = DefaultPRVFee

\* No step touches the request or the ledger.
LEMMA RequestKept ==
    ASSUME [TxNext]_txVars PROVE call' = call /\ ledger' = ledger
<1>1. CASE FallBackOrFail
      BY <1>1 DEF FallBackOrFail
<1>2. CASE StartCall \/ RefuseCall \/ UseGivenCoins \/ QueryCoins
      BY <1>2 DEF StartCall, RefuseCall, UseGivenCoins, QueryCoins
<1>3. CASE Choose \/ CoinsChosen \/ GetDecoys \/ CallReturned \/ UNCHANGED txVars
      BY <1>3 DEF Choose, CoinsChosen, GetDecoys, CallReturned, txVars, callVars
<1>4. CASE Send \/ SendFails \/ AnswerUnreadable \/ CallAgain
      BY <1>4 DEF Send, SendFails, AnswerUnreadable, CallAgain
<1>5. CASE QueryFails \/ QueryForConversion \/ NotEnoughCoins \/ GetDecoysFails
      BY <1>1, <1>5 DEF QueryFails, QueryForConversion, NotEnoughCoins, GetDecoysFails
<1>6. CASE InitTx
      BY <1>1, <1>6 DEF InitTx
<1> QED
    BY <1>2, <1>3, <1>4, <1>5, <1>6 DEF TxNext

\* The fee an attempt starts with.
LEMMA StartFeeIsNat ==
    ASSUME CallOK(call), NEW v
    PROVE  StartFee(v) \in Nat /\ (~Transfers => StartFee(v) = DefaultPRVFee)
BY CallsAssumption DEF StartFee, CallOK, Transfers

\* The product of naturals.
LEMMA ProductIsNat == \A m, n \in Nat : m * n \in Nat
OBVIOUS

\* An estimated size is a number of bytes.
LEMMA SizeIsNat ==
    ASSUME NEW m \in Nat, NEW n \in Nat PROVE EstimateTxSizeV2(m, n, 0) \in Nat
<1>1. \A k \in Nat : ToB64Len(k) \in Nat
      BY DEF ToB64Len
<1>2. Log2(n) \in Nat
  <2>1. IsFiniteSet({k \in 1..10 : 2^k <= n})
    <3>0. 1 \in Int /\ 10 \in Int
          OBVIOUS
    <3>1. IsFiniteSet(1..10)
          BY <3>0, FS_Interval, Zenon
    <3>2. {k \in 1..10 : 2^k <= n} \subseteq 1..10
          BY Zenon
    <3> QED
        BY <3>1, <3>2, FS_Subset, Zenon
  <2> QED
      BY <2>1, FS_CardinalityType DEF Log2
<1>3. EstimateProofSizeV2(m, n) \in Nat
  <2>1. PICK l \in Nat : l = Log2(n)
        BY <1>2
  <2>2. PICK a : a = 5 + 32 * (7 + n) + 1 + (2 * (l + 1) + 3) * 32
        OBVIOUS
  <2>3. PICK b : b = 1 + ((257 + 33 * 7 + 68 + 1) + 1) * (m + n) + 2 + a + 10
        OBVIOUS
  <2>4. a \in Nat
        BY <2>2
  <2>5. b \in Nat
        BY <2>3, <2>4
  <2>6. EstimateProofSizeV2(m, n) = ToB64Len(b)
        BY <2>1, <2>2, <2>3 DEF EstimateProofSizeV2
  <2> QED
      BY <1>1, <2>5, <2>6
<1>4. RingSize \in Nat
      BY CallsAssumption
<1>5. m * RingSize \in Nat /\ (m + 2) * RingSize \in Nat
      BY <1>4, ProductIsNat
<1>6. ToB64Len(m * RingSize * 9 + 2) \in Nat /\ ToB64Len(512) \in Nat
      BY <1>1, <1>5
<1>7. (1 + m + (m + 2) * RingSize) * 33 + 3 \in Nat
      BY <1>5
<1> QED
    BY <1>3, <1>6, <1>7 DEF EstimateTxSizeV2

\* The estimated fee.
LEMMA EstimateIsNat == EstimatedFee \in Nat
<1>0. PICK m, n : m = Len(sel[PRV].coins) /\ n = Len(call.pays)
      OBVIOUS
<1>1. PICK size \in Nat : size = EstimateTxSizeV2(m, n, 0)
  <2>1. m \in Nat /\ n \in Nat
        BY <1>0
  <2> QED
      BY <2>1, SizeIsNat, Zenon
<1>2. size \div 1024 \in Nat
      OBVIOUS
<1>3. (size \div 1024) * InscMinFeePerKB \in Nat
      BY <1>2, CallsAssumption, ProductIsNat
<1> QED
    BY <1>0, <1>1, <1>3, CallsAssumption DEF EstimatedFee

\* Every step preserves AttemptInv.
LEMMA AttemptStep ==
    BuildInv /\ AttemptInv /\ [TxNext]_txVars => AttemptInv'
<1> SUFFICES ASSUME BuildInv, AttemptInv, [TxNext]_txVars PROVE AttemptInv'
    OBVIOUS
<1>1. call' = call /\ ledger' = ledger
      BY RequestKept
<1>2. LedgerOK(ledger, call)'
      BY <1>1 DEF AttemptInv, LedgerOK, OwnCoins
<1>3. CallOK(call)
      BY DEF BuildInv, CallInv
<1>4. CallVersion' = CallVersion /\ Transfers' = Transfers
      BY <1>1, CallKept
<1>5. CallVersion = -1 => Transfers
  <2>1. \A coins : GetVersionFromInputCoins(coins) # -1 \/ coins[1].ver = -1
        BY DEF GetVersionFromInputCoins
  <2> QED
      BY <1>3 DEF CallOK, CallVersion, Transfers
<1>6. ~Transfers => CallVersion = 2
      BY <1>3 DEF CallOK, CallVersion, Transfers
<1>7. ASSUME FallBackOrFail, Preparing \/ stage = "init" PROVE AttemptInv'
      BY <1>2, <1>4, <1>5, <1>7 DEF FallBackOrFail, AttemptInv, Preparing
<1>8. ASSUME UNCHANGED <<version, fee>>,
             stage' = stage \/ Preparing \/ ~(Preparing' \/ stage' = "init")
      PROVE  AttemptInv'
      BY <1>2, <1>4, <1>8 DEF AttemptInv, Preparing
<1>11. CASE StartCall
  <2>1. PICK v : v = IF CallVersion = -1 THEN 1 ELSE CallVersion
        OBVIOUS
  <2>2. version' = v /\ fee' = StartFee(v)
        BY <1>11, <2>1 DEF StartCall
  <2>3. fee' \in Nat /\ (~Transfers => fee' = DefaultPRVFee)
        BY <1>3, <2>2, StartFeeIsNat
  <2> QED
      BY <1>2, <1>4, <1>5, <1>6, <2>1, <2>2, <2>3 DEF AttemptInv
<1>12. CASE RefuseCall
      BY <1>8, <1>12 DEF RefuseCall, Preparing
<1>13. CASE UseGivenCoins
      BY <1>8, <1>13 DEF UseGivenCoins, Preparing
<1>14. CASE QueryCoins
      BY <1>8, <1>14 DEF QueryCoins, Preparing
<1>15. CASE QueryFails
      BY <1>7, <1>15 DEF QueryFails, Preparing
<1>16. CASE QueryForConversion
      BY <1>7, <1>8, <1>16 DEF QueryForConversion, Preparing
<1>17. CASE Choose
      BY <1>8, <1>17 DEF Choose, callVars
<1>18. CASE CoinsChosen
      BY <1>8, <1>18 DEF CoinsChosen, Preparing
<1>19. CASE NotEnoughCoins
      BY <1>7, <1>19 DEF NotEnoughCoins, Preparing
<1>20. CASE GetDecoys
  <2>1. stage = "decoys" /\ version' = version /\ fee' \in {fee, EstimatedFee}
        BY <1>20 DEF GetDecoys
  <2>2. fee' # fee => Transfers
        BY <1>3, <1>20 DEF GetDecoys, CallOK, Transfers
  <2>3. fee' \in Nat
        BY <2>1, EstimateIsNat DEF AttemptInv
  <2> QED
      BY <1>2, <1>4, <2>1, <2>2, <2>3 DEF AttemptInv, Preparing
<1>21. CASE GetDecoysFails
      BY <1>7, <1>21 DEF GetDecoysFails, Preparing
<1>22. CASE InitTx
  <2>1. FallBackOrFail \/ (UNCHANGED <<version, fee>> /\ stage' = "send")
        BY <1>22 DEF InitTx
  <2> QED
      BY <1>7, <1>8, <1>22, <2>1 DEF InitTx, Preparing
<1>23. CASE Send
      BY <1>8, <1>23 DEF Send, Preparing
<1>24. CASE SendFails \/ AnswerUnreadable
      BY <1>8, <1>24 DEF SendFails, AnswerUnreadable, Preparing, SendError
<1>25. CASE CallAgain
      BY <1>8, <1>25 DEF CallAgain, Preparing
<1>26. CASE CallReturned
      BY <1>8, <1>26 DEF CallReturned, txVars, callVars
<1>27. CASE UNCHANGED txVars
      BY <1>8, <1>27 DEF txVars, callVars
<1> QED
    BY <1>11, <1>12, <1>13, <1>14, <1>15, <1>16, <1>17, <1>18, <1>19, <1>20,
       <1>21, <1>22, <1>23, <1>24, <1>25, <1>26, <1>27 DEF TxNext

-----------------------------------------------------------------------------
(* The choice of coins                                                     *)

\* The candidates are coins of the asset, of the version that is built, in
\* descending order; the choice is made on their values.
CandsInv ==
    stage = "choose" =>
        /\ IsCandidates(cands, ledger[asset], version)
        /\ coinList = [k \in DOMAIN cands |-> cands[k].coin.val]
        /\ version = 2 /\ Decrypts(asset) => IndexesNamed(cands)

\* Where neighbours are in order all are.
LEMMA InOrder ==
    ASSUME NEW n \in Nat, NEW c \in [1..n -> Nat],
           \A k \in 1..(n - 1) : c[k] >= c[k + 1]
    PROVE  \A a, b \in 1..n : a < b => c[a] >= c[b]
<1> DEFINE P == {b \in Nat : b \in 1..n => \A a \in 1..n : a < b => c[a] >= c[b]}
<1>1. 0 \in P
      OBVIOUS
<1>2. ASSUME NEW b \in Nat, b \in P PROVE b + 1 \in P
  <2> SUFFICES ASSUME b + 1 \in 1..n, NEW a \in 1..n, a < b + 1
               PROVE  c[a] >= c[b + 1]
      OBVIOUS
  <2>1. b \in 1..n /\ b \in 1..(n - 1)
        OBVIOUS
  <2>2. c[b] >= c[b + 1]
        BY <2>1
  <2>3. a = b \/ c[a] >= c[b]
        BY <1>2, <2>1
  <2>4. c[a] \in Nat /\ c[b] \in Nat /\ c[b + 1] \in Nat
        BY <2>1
  <2> QED
      BY <2>2, <2>3, <2>4
<1>3. Nat \subseteq P
  <2> HIDE DEF P
  <2> QED
      BY <1>1, <1>2, SetInduction, Zenon
<1> QED
    BY <1>3

\* The values of candidates are a list as chooseBestCoinsByAmount takes it.
LEMMA CandidateValues ==
    ASSUME NEW out, OwnCoins(out), NEW list, NEW v, IsCandidates(list, out, v),
           NEW c, c = [k \in DOMAIN list |-> list[k].coin.val]
    PROVE  c \in Seq(Nat \ {0}) /\ Descending(c)
<1>1. PICK n \in Nat : n = Len(list) /\ DOMAIN list = 1..n
      BY DEF IsCandidates, IsPairs
<1>2. ASSUME NEW k \in 1..n PROVE list[k].coin.val \in Nat \ {0}
  <2>1. list[k].coin \in ToSet(out) /\ list[k].coin.val # 0
        BY <1>1 DEF IsCandidates, IsPairs
  <2>2. list[k].coin \in CoinType
        BY <2>1, SameKey
  <2> QED
      BY <2>1, <2>2 DEF CoinType
<1>3. c \in [1..n -> Nat \ {0}]
      BY <1>1, <1>2
<1>4. \A k \in 1..(n - 1) : c[k] >= c[k + 1]
  <2>1. \A k \in 1..(n - 1) : list[k].coin.val >= list[k + 1].coin.val
        BY <1>1 DEF IsCandidates
  <2> QED
      BY <1>1, <2>1
<1>5. \A a, b \in 1..n : a < b => c[a] >= c[b]
  <2>1. c \in [1..n -> Nat]
        BY <1>3
  <2> QED
      BY <1>4, <2>1, InOrder
<1> QED
    BY <1>3, <1>5 DEF Descending

\* The amounts of payments.
LEMMA PaymentVal ==
    ASSUME NEW p \in Payments, NEW k \in 1..Len(p) PROVE p[k].val \in Nat
<1>1. p \in Seq([to : STRING, val : Nat])
      BY DEF Payments
<1>2. p[k] \in [to : STRING, val : Nat]
      BY <1>1, ElementOfSeq, Zenon
<1> QED
    BY <1>2

\* Sums of payments and of coins.
LEMMA SumsAreNat ==
    /\ \A p \in Payments : Values(p) \in Nat
    /\ \A s \in Seq(CoinType) : Values(s) \in Nat
<1>1. ASSUME NEW p \in Payments PROVE Values(p) \in Nat
  <2>0. PICK n \in Nat : n = Len(p) /\ DOMAIN p = 1..n
        BY DEF Payments
  <2>1. \A k \in 1..n : p[k].val \in Nat
        BY <2>0, PaymentVal
  <2> QED
      BY <2>0, <2>1, ValuesExtended
<1>2. ASSUME NEW s \in Seq(CoinType) PROVE Values(s) \in Nat
  <2>1. PICK n \in Nat : DOMAIN s = 1..n /\ \A k \in 1..n : s[k] \in CoinType
        OBVIOUS
  <2>2. \A k \in 1..n : s[k].val \in Nat
        BY <2>1 DEF CoinType
  <2> QED
      BY <2>1, <2>2, ValuesExtended
<1> QED
    BY <1>1, <1>2

\* What inputs are asked to cover.
LEMMA RequiredIsNat ==
    ASSUME CallOK(call), fee \in Nat, asset = PRV \/ call.route \in {"token", "tokenConvert"}
    PROVE  Required \in Nat
<1>1. \A n \in Nat : Wrap(n) \in Nat
      BY CallsAssumption DEF Wrap
<1>2. CASE asset = PRV
  <2>1. Values(call.pays) \in Nat
        BY SumsAreNat DEF CallOK
  <2> QED
      BY <1>1, <1>2, <2>1 DEF Required
<1>3. CASE asset # PRV
  <2>1. Values(call.tok.pays) \in Nat
        BY <1>3, SumsAreNat DEF CallOK
  <2>2. TokenFee \in Nat
        BY <1>3, CallsAssumption DEF CallOK, TokenFee
  <2>3. PICK f \in Nat : f = IF version = 1 /\ HasTokenFee THEN TokenFee ELSE 0
        BY <2>2
  <2> QED
      BY <1>1, <1>3, <2>1, <2>3 DEF Required
<1> QED
    BY <1>2, <1>3

\* The asset whose inputs are prepared is known.
LEMMA AssetKnown ==
    ASSUME BuildInv, AttemptInv, Preparing
    PROVE  /\ asset \in DOMAIN ledger /\ OwnCoins(ledger[asset])
           /\ asset # PRV => /\ asset = call.tok.asset
                             /\ call.route \in {"token", "tokenConvert"}
<1>1. \/ todo = Todo(version) /\ todo \in {<<PRV>>, <<call.tok.asset>>}
      \/ todo = Todo(version) /\ todo = <<PRV, call.tok.asset>>
      \/ Todo(version) = <<PRV, call.tok.asset>> /\ todo = <<call.tok.asset>>
      BY TodoLeft DEF BuildInv
<1>2. asset = PRV \/ asset = call.tok.asset
      BY <1>1 DEF asset
<1>3. ASSUME asset # PRV
      PROVE  call.tok.asset \in DOMAIN ledger /\ call.route \in {"token", "tokenConvert"}
  <2>1. Todo(version) # <<PRV>>
        BY <1>1, <1>3 DEF asset
  <2>2. call.route \in {"token", "tokenConvert"}
        BY <2>1 DEF Todo, BuildInv, CallInv, CallOK
  <2>3. call.route = "token" /\ call.tok.kind = "init" => version = 1
        BY DEF AttemptInv, BuildInv, CallInv, CallOK, CallVersion
  <2>4. ~(call.route = "token" /\ call.tok.kind = "init")
        BY <2>1, <2>3 DEF Todo
  <2> QED
      BY <2>2, <2>4 DEF AttemptInv, LedgerOK
<1>4. asset \in DOMAIN ledger
      BY <1>2, <1>3 DEF AttemptInv, LedgerOK
<1> QED
    BY <1>2, <1>3, <1>4 DEF AttemptInv, LedgerOK

\* A call to chooseBestCoinsByAmount that starts.
Called ==
    /\ coinList \in Seq(Nat \ {0}) /\ Descending(coinList)
    /\ requiredAmount \in Nat /\ pc = "sum" /\ i = 0
    /\ totalInputAmount = 0 /\ remainAmount = 0 /\ totalChosenAmount = 0
    /\ chosen = <<>> /\ prefix = <<0>>

\* The invariant of the selection holds as it starts.
LEMMA CalledIInv == Called => IInv
<1> SUFFICES ASSUME Called PROVE IInv
    OBVIOUS
<1>1. TypeOK
      BY DEF Called, TypeOK
<1>2. Len(prefix) = 1 /\ prefix[1] = 0 /\ Len(coinList) \in Nat /\ Len(chosen) = 0
      BY DEF Called
<1>3. PrefixInv
      BY <1>2 DEF PrefixInv
<1>4. SumInv /\ EnoughInv /\ LoopInv /\ CheckInv
      BY <1>2 DEF Called, SumInv, EnoughInv, LoopInv, CheckInv
<1>5. PositionInv /\ MinimalInv /\ NoCoinChosenTwice
      BY DEF Called, PositionInv, MinimalInv, NoCoinChosenTwice
<1>6. ChosenCoinsSuffice /\ NeverNotEnough /\ Descending(coinList)
      BY DEF Called, ChosenCoinsSuffice, NeverNotEnough
<1> QED
    BY <1>1, <1>3, <1>4, <1>5, <1>6 DEF IInv

\* The query of the coins: candidates, and the call.
LEMMA QueryStep ==
    ASSUME BuildInv, AttemptInv, QueryCoins PROVE Called' /\ CandsInv'
<1>1. /\ stage = "query" /\ stage' = "choose"
      /\ UNCHANGED <<call, ledger, version, todo>>
      BY DEF QueryCoins
<1>2. /\ OwnCoins(ledger[asset])
      /\ asset # PRV => call.route \in {"token", "tokenConvert"}
      BY <1>1, AssetKnown DEF Preparing
<1>3. PICK out : out = ledger[asset]
      OBVIOUS
<1>4. PICK u : u = GetUnspentOutputCoins(out, spent)
      OBVIOUS
<1>5. PICK list \in DivideCoins(u, version) :
         cands' = list /\ coinList' = [k \in DOMAIN list |-> list[k].coin.val]
      BY <1>3, <1>4 DEF QueryCoins
<1>6. /\ IsPairs(u, out)
      /\ (\A c \in ToSet(out) : c.ok) => IndexesNamed(u)
      BY <1>2, <1>3, <1>4, QueryPairs DEF GetUnspentOutputCoins
<1>7. /\ IsCandidates(list, out, version)
      /\ version = 2 /\ IndexesNamed(u) => IndexesNamed(list)
      BY <1>2, <1>3, <1>6, DividedCoins
<1>8. coinList' \in Seq(Nat \ {0}) /\ Descending(coinList')
      BY <1>2, <1>3, <1>5, <1>7, CandidateValues
<1>9. Called'
  <2>1. Required \in Nat
        BY <1>2, RequiredIsNat DEF BuildInv, CallInv, AttemptInv
  <2> QED
      BY <1>8, <2>1 DEF Called, QueryCoins, Descending
<1>10. CandsInv'
  <2>1. asset' = asset /\ ledger[asset]' = out
        BY <1>1, <1>3 DEF asset
  <2>2. Decrypts(asset)' => IndexesNamed(u)
        BY <1>6, <2>1 DEF Decrypts
  <2>3. IsCandidates(cands, ledger[asset], version)'
        BY <1>1, <1>5, <1>7, <2>1
  <2>4. (version = 2 /\ Decrypts(asset) => IndexesNamed(cands))'
        BY <1>1, <1>5, <1>7, <2>2
  <2> QED
      BY <1>5, <2>3, <2>4 DEF CandsInv
<1> QED
    BY <1>9, <1>10

\* Only the query and the selection itself touch the selection.
LEMMA NotChoosing ==
    ASSUME [TxNext]_txVars, ~QueryCoins, ~Choose
    PROVE  UNCHANGED vars /\ (stage' # "choose" \/ UNCHANGED txVars)
<1>1. CASE FallBackOrFail /\ UNCHANGED vars
      BY <1>1 DEF FallBackOrFail
<1>2. CASE StartCall \/ RefuseCall \/ UseGivenCoins
      BY <1>2 DEF StartCall, RefuseCall, UseGivenCoins, vars
<1>3. CASE CoinsChosen \/ GetDecoys
      BY <1>3 DEF CoinsChosen, GetDecoys, vars
<1>4. CASE CallReturned \/ UNCHANGED txVars
      BY <1>4 DEF CallReturned, txVars, vars
<1>5. CASE Send \/ SendFails \/ AnswerUnreadable \/ CallAgain
      BY <1>5 DEF Send, SendFails, AnswerUnreadable, CallAgain, SendError, vars
<1>6. CASE QueryFails
      BY <1>1, <1>6 DEF QueryFails
<1>7. CASE QueryForConversion
  <2>1. UNCHANGED vars /\ (FallBackOrFail \/ stage' = "init")
        BY <1>7 DEF QueryForConversion, vars
  <2> QED
      BY <1>1, <2>1
<1>8. CASE NotEnoughCoins
  <2>1. UNCHANGED vars /\ FallBackOrFail
        BY <1>8 DEF NotEnoughCoins, vars
  <2> QED
      BY <1>1, <2>1
<1>9. CASE GetDecoysFails
      BY <1>1, <1>9 DEF GetDecoysFails
<1>10. CASE InitTx
  <2>1. UNCHANGED vars /\ (FallBackOrFail \/ stage' = "send")
        BY <1>10 DEF InitTx, vars
  <2> QED
      BY <1>1, <2>1
<1> QED
    BY <1>2, <1>3, <1>4, <1>5, <1>6, <1>7, <1>8, <1>9, <1>10 DEF TxNext

\* The selection works on one list.
LEMMA ListKept ==
    ASSUME Next PROVE coinList' = coinList /\ requiredAmount' = requiredAmount
BY DEF Next, SumCoin, TotalTooSmall, TotalExact, StartChoosing, SkipCoin,
   TakeAndBreak, TakeCoin, Take, LoopEnds, Covered, AddLastCoin, Returned, vars

\* Every step of the builder preserves the invariant of the selection.
LEMMA SelectionStep ==
    /\ BuildInv /\ AttemptInv /\ IInv /\ CandsInv /\ [TxNext]_txVars
    => IInv' /\ CandsInv'
<1> SUFFICES ASSUME BuildInv, AttemptInv, IInv, CandsInv, [TxNext]_txVars
             PROVE  IInv' /\ CandsInv'
    OBVIOUS
<1>1. CASE QueryCoins
  <2>1. Called' /\ CandsInv'
        BY <1>1, QueryStep
  <2>2. IInv'
        BY <2>1, CalledIInv, PTL
  <2> QED
      BY <2>1, <2>2
<1>2. CASE Choose
  <2>1. Next /\ UNCHANGED callVars
        BY <1>2 DEF Choose
  <2>2. IInv'
        BY <2>1, NextIInv
  <2>3. coinList' = coinList /\ UNCHANGED <<stage, cands, ledger, version, todo>>
        BY <2>1, ListKept DEF callVars
  <2>4. CandsInv'
        BY <2>3 DEF CandsInv, IsCandidates, IsPairs, IndexesNamed, asset, Decrypts
  <2> QED
      BY <2>2, <2>4
<1>3. CASE ~QueryCoins /\ ~Choose
  <2>1. UNCHANGED vars /\ (stage' # "choose" \/ UNCHANGED txVars)
        BY <1>3, NotChoosing
  <2>2. IInv'
        BY <2>1, NextIInv
  <2>3. CASE UNCHANGED txVars
    <3>1. UNCHANGED <<stage, cands, ledger, version, todo, coinList>>
          BY <2>1, <2>3 DEF txVars, callVars, vars
    <3>2. CandsInv'
          BY <3>1 DEF CandsInv, IsCandidates, IsPairs, IndexesNamed, asset, Decrypts
    <3> QED
        BY <2>2, <3>2
  <2> QED
      BY <2>1, <2>2, <2>3 DEF CandsInv
<1> QED
    BY <1>1, <1>2, <1>3

\* They hold initially.
LEMMA SelectionInit == TxInit => AttemptInv /\ IInv /\ CandsInv
<1> SUFFICES ASSUME TxInit PROVE AttemptInv /\ IInv /\ CandsInv
    OBVIOUS
<1>1. PICK case \in Cases : call = case.call /\ ledger = case.ledger
      BY DEF TxInit
<1>2. LedgerOK(ledger, call)
      BY <1>1, CallsAssumption
<1>3. AttemptInv
      BY <1>2 DEF AttemptInv, TxInit, Preparing
<1>4. Called
      BY DEF Called, TxInit, Descending
<1> QED
    BY <1>3, <1>4, CalledIInv DEF CandsInv, TxInit

\* The coins that the builder spends are worth what it spends, none of them is
\* superfluous and none is taken twice, for every account and request: whatever
\* the query returns, divideCoins makes of it the list of positive values in
\* descending order that chooseBestCoinsByAmount relies on.
THEOREM BuilderChoosesWell ==
    TxSpec => [](ChosenCoinsSuffice /\ NoSuperfluousCoin /\ NoCoinChosenTwice)
<1>1. IInv => ChosenCoinsSuffice /\ NoSuperfluousCoin /\ NoCoinChosenTwice
      BY DEF IInv, MinimalInv, ChosenCoinsSuffice, NoSuperfluousCoin
<1> QED
    BY <1>1, SelectionInit, SelectionStep, AttemptStep, BuildInvInit, BuildInvStep,
       PTL DEF TxSpec

-----------------------------------------------------------------------------
(* The inputs                                                              *)

\* The inputs of an asset are coins of the account, no coin twice, of the
\* version that is built; with their indices, unless some coin of the asset
\* does not decrypt; with a decoy for every other cell of their ring.
GoodInputs(a, r) ==
    /\ OwnCoins(r.coins)
    /\ Transfers => \A k \in DOMAIN r.coins : r.coins[k].ver = version
    /\ version = 2 /\ Decrypts(a) => r.mine \in {<<>>, IndexesOf(r.coins)}
    /\ r.decoys \in {<<>>, Decoys(Len(r.coins))}

InputsInv == \A a \in DOMAIN sel : GoodInputs(a, sel[a])

\* The coins at some positions of a list of coins.
LEMMA PickedCoins ==
    ASSUME NEW out, OwnCoins(out), NEW u, IsPairs(u, out), NEW n \in Nat,
           NEW f \in [1..n -> 1..Len(u)],
           \A k, m \in 1..n : k < m => f[k] < f[m],
           NEW c, c = [k \in 1..n |-> u[f[k]].coin]
    PROVE  OwnCoins(c)
<1>1. ASSUME NEW k \in 1..n PROVE c[k] \in ToSet(out) /\ c[k] = u[f[k]].coin
  <2>1. f[k] \in 1..Len(u)
        OBVIOUS
  <2> QED
      BY <2>1 DEF IsPairs
<1>2. ASSUME NEW k \in 1..n PROVE c[k] \in CoinType /\ c[k].idx <= MaxOwnIndex
  <2>1. PICK m \in DOMAIN out : c[k] = out[m]
        BY <1>1 DEF ToSet
  <2> QED
      BY <1>1, <2>1, SameKey DEF OwnCoins
<1>3. ASSUME NEW k \in 1..n, NEW m \in 1..n, k # m
      PROVE  c[k].id # c[m].id /\ c[k].idx # c[m].idx
  <2>1. f[k] \in 1..Len(u) /\ f[m] \in 1..Len(u) /\ f[k] # f[m]
    <3>1. f[k] \in 1..Len(u) /\ f[m] \in 1..Len(u) /\ Len(u) \in Nat
          OBVIOUS
    <3>2. k < m \/ m < k
          BY <1>3
    <3>3. f[k] < f[m] \/ f[m] < f[k]
          BY <3>2
    <3> QED
        BY <3>1, <3>3
  <2>2. c[k] # c[m]
        BY <1>1, <2>1 DEF IsPairs
  <2> QED
      BY <1>1, <2>2, SameKey
<1>4. c \in Seq(CoinType)
  <2>1. c \in [1..n -> CoinType]
        BY <1>2
  <2> QED
      BY <2>1
<1>5. DOMAIN c = 1..n
      OBVIOUS
<1> QED
    BY <1>2, <1>3, <1>4, <1>5 DEF OwnCoins

\* What the inputs depend on.
LEMMA InputsKept ==
    ASSUME UNCHANGED <<call, ledger, version>>
    PROVE  \A a, r : GoodInputs(a, r)' = GoodInputs(a, r)
BY DEF GoodInputs, Transfers, OwnCoins, Decrypts, IndexesOf, Decoys

\* Inputs added to those prepared.
LEMMA InputsAdded ==
    ASSUME InputsInv, UNCHANGED <<call, ledger, version>>, NEW ins,
           GoodInputs(asset, ins), sel' = WithInputs(ins)
    PROVE  InputsInv'
<1> SUFFICES ASSUME NEW a \in DOMAIN sel' PROVE GoodInputs(a, sel[a])'
    BY DEF InputsInv
<1>1. PICK r : r = sel'[a]
      OBVIOUS
<1>2. r = (IF a = asset THEN ins ELSE sel[a]) /\ (a # asset => a \in DOMAIN sel)
      BY <1>1 DEF WithInputs
<1>3. GoodInputs(a, r)
      BY <1>2 DEF InputsInv
<1>4. GoodInputs(a, r)'
      BY <1>3, InputsKept
<1> QED
    BY <1>1, <1>4

\* Nothing prepared.
LEMMA InputsNone == ASSUME sel' = NoSel PROVE InputsInv'
BY DEF InputsInv, NoSel

\* Nothing changed.
LEMMA InputsSame ==
    ASSUME InputsInv, UNCHANGED <<call, ledger, version, sel>> PROVE InputsInv'
<1> SUFFICES ASSUME NEW a \in DOMAIN sel PROVE GoodInputs(a, sel[a])'
    BY DEF InputsInv
<1>1. PICK r : r = sel[a]
      OBVIOUS
<1>2. GoodInputs(a, r)'
      BY <1>1, InputsKept DEF InputsInv
<1> QED
    BY <1>1, <1>2

\* The decoys of an asset.
LEMMA InputsDecoys ==
    ASSUME BuildInv, InputsInv, GetDecoys PROVE InputsInv'
<1>1. UNCHANGED <<call, ledger, version>>
      BY DEF GetDecoys
<1>2. CASE sel' = NoSel
      BY <1>2, InputsNone
<1>3. CASE sel' # NoSel
  <2>1. PICK d : /\ sel' = [sel EXCEPT ![asset].decoys = d]
                 /\ d = IF NeedsDecoys THEN Decoys(Len(sel[asset].coins)) ELSE <<>>
        BY <1>3 DEF GetDecoys
  <2>2. asset \in DOMAIN sel /\ IsInputs(sel[asset])
        BY DEF GetDecoys, BuildInv, ReadyInv, SelInv
  <2>3. PICK r, s : r = sel[asset] /\ s = [r EXCEPT !.decoys = d]
        OBVIOUS
  <2>4. sel' = WithInputs(s)
        BY <2>1, <2>2, <2>3 DEF WithInputs
  <2>5. s.coins = r.coins /\ s.mine = r.mine /\ s.decoys = d
        BY <2>2, <2>3 DEF IsInputs
  <2>6. GoodInputs(asset, r)
        BY <2>2, <2>3 DEF InputsInv
  <2>7. d \in {<<>>, Decoys(Len(s.coins))}
        BY <2>1, <2>3, <2>5
  <2>8. GoodInputs(asset, s)
        BY <2>5, <2>6, <2>7 DEF GoodInputs
  <2> QED
      BY <1>1, <2>4, <2>8, InputsAdded
<1> QED
    BY <1>2, <1>3

\* Provided coins, which are used if they are of the version that is built.
LEMMA InputsGiven ==
    ASSUME BuildInv, InputsInv, UseGivenCoins PROVE InputsInv'
<1>1. PICK ins : /\ ins = [coins |-> Given.coins, mine |-> Given.idx, decoys |-> <<>>]
                 /\ sel' = WithInputs(ins)
      BY DEF UseGivenCoins
<1>2. ins.coins = Given.coins /\ ins.mine = Given.idx /\ ins.decoys = <<>>
      BY <1>1
<1>3. /\ OwnCoins(Given.coins) /\ Given.idx \in {<<>>, IndexesOf(Given.coins)}
      /\ Given.coins \in Seq(CoinType)
      BY DEF Given, BuildInv, CallInv, CallOK, OwnCoins
<1>4. ASSUME Transfers, NEW k \in DOMAIN Given.coins
      PROVE  Given.coins[k].ver = version
  <2>1. version \in {1, 2} /\ GetVersionFromInputCoins(Given.coins) = version
        BY <1>4 DEF UseGivenCoins, UsesGiven, BuildInv, VersionInv, Preparing
  <2> QED
      BY <2>1 DEF GetVersionFromInputCoins
<1>5. GoodInputs(asset, ins)
      BY <1>2, <1>3, <1>4 DEF GoodInputs
<1> QED
    BY <1>1, <1>5, InputsAdded DEF UseGivenCoins

\* The coins chosen among the candidates.
LEMMA InputsChosen ==
    ASSUME BuildInv, AttemptInv, IInv, CandsInv, InputsInv, CoinsChosen
    PROVE  InputsInv'
<1>1. PICK ins : /\ ins = [coins |-> [k \in DOMAIN chosen |-> cands[chosen[k]].coin],
                           mine  |-> [k \in DOMAIN chosen |-> cands[chosen[k]].idx],
                           decoys |-> <<>>]
                 /\ sel' = WithInputs(ins)
      BY DEF CoinsChosen
<1>2. PICK n \in Nat : n = Len(chosen) /\ DOMAIN chosen = 1..n
      BY DEF IInv, TypeOK
<1>3. PICK out : out = ledger[asset] /\ OwnCoins(out)
      BY AssetKnown DEF CoinsChosen, Preparing
<1>4. /\ IsCandidates(cands, out, version)
      /\ coinList = [k \in DOMAIN cands |-> cands[k].coin.val]
      /\ version = 2 /\ Decrypts(asset) => IndexesNamed(cands)
      BY <1>3 DEF CoinsChosen, CandsInv
<1>5. PICK l \in Nat : l = Len(cands) /\ DOMAIN cands = 1..l
      BY <1>4 DEF IsCandidates, IsPairs
<1>6. Len(coinList) = l
      BY <1>4, <1>5
<1>7. /\ chosen = [k \in 1..n |-> chosen[k]]
      /\ \A k \in 1..n : chosen[k] \in 1..l
      /\ \A k, m \in 1..n : k < m => chosen[k] < chosen[m]
      BY <1>2, <1>6 DEF IInv, TypeOK, PositionInv, NoCoinChosenTwice
<1>8. chosen \in [1..n -> 1..l]
      BY <1>7, Zenon
<1>9. PICK c, d : /\ c = [k \in 1..n |-> cands[chosen[k]].coin]
                  /\ d = [k \in 1..n |-> cands[chosen[k]].idx]
      OBVIOUS
<1>10. ins.coins = c /\ ins.mine = d /\ ins.decoys = <<>>
      BY <1>1, <1>2, <1>9
<1>11. OwnCoins(c)
  <2>1. IsPairs(cands, out)
        BY <1>4 DEF IsCandidates
  <2> QED
      BY <1>3, <1>5, <1>7, <1>8, <1>9, <2>1, PickedCoins
<1>12. \A k \in 1..n : c[k].ver = version
  <2>1. \A m \in 1..l : cands[m].coin.ver = version
        BY <1>4, <1>5 DEF IsCandidates
  <2> QED
      BY <1>7, <1>9, <2>1
<1>13. ASSUME version = 2, Decrypts(asset) PROVE d = IndexesOf(c)
  <2>1. \A m \in 1..l : cands[m].idx = cands[m].coin.idx
        BY <1>4, <1>5, <1>13 DEF IndexesNamed
  <2>2. \A k \in 1..n : cands[chosen[k]].idx = c[k].idx
        BY <1>7, <1>9, <2>1
  <2>3. IndexesOf(c) = [k \in 1..n |-> c[k].idx]
        BY <1>9 DEF IndexesOf
  <2> QED
      BY <1>9, <2>2, <2>3
<1>14. GoodInputs(asset, ins)
  <2>1. DOMAIN c = 1..n
        BY <1>9
  <2> QED
      BY <1>10, <1>11, <1>12, <1>13, <2>1 DEF GoodInputs
<1> QED
    BY <1>1, <1>14, InputsAdded DEF CoinsChosen

\* The coins of a conversion.
LEMMA InputsConverted ==
    ASSUME BuildInv, AttemptInv, InputsInv, QueryForConversion
    PROVE  InputsInv'
<1>1. PICK out : out = ledger[asset] /\ OwnCoins(out)
      BY AssetKnown DEF QueryForConversion, Preparing
<1>2. PICK v1 : v1 = OfVersion(GetUnspentOutputCoins(out, spent), 1)
      OBVIOUS
<1>3. PICK coins : coins = ConvertedCoins([k \in DOMAIN v1 |-> v1[k].coin])
      OBVIOUS
<1>4. OwnCoins(coins)
  <2>1. IsPairs(v1, out)
        BY <1>1, <1>2, QueryPairs, VersionPairs DEF GetUnspentOutputCoins
  <2>2. PICK n \in Nat : n = Len(v1) /\ DOMAIN v1 = 1..n
        BY <2>1 DEF IsPairs
  <2>3. PICK f : f = [k \in 1..n |-> k]
        OBVIOUS
  <2>4. PICK c : c = [k \in 1..n |-> v1[f[k]].coin]
        OBVIOUS
  <2>5. OwnCoins(c)
        BY SMTT(40), <1>1, <2>1, <2>2, <2>3, <2>4, PickedCoins
  <2>6. c = [k \in DOMAIN v1 |-> v1[k].coin]
        BY <2>2, <2>3, <2>4
  <2>7. OwnCoins(call.tokIn.coins)
        BY DEF BuildInv, CallInv, CallOK
  <2> QED
      BY <1>3, <2>5, <2>6, <2>7 DEF ConvertedCoins
<1>5. CASE Convertible(coins)
  <2>1. PICK ins : ins = [coins |-> coins, mine |-> <<>>, decoys |-> <<>>]
        OBVIOUS
  <2>2. sel' = WithInputs(ins) /\ UNCHANGED <<call, ledger, version>>
        BY <1>1, <1>2, <1>3, <1>5, <2>1 DEF QueryForConversion
  <2>3. ~Transfers
        BY DEF QueryForConversion, converting, Transfers
  <2>4. GoodInputs(asset, ins)
        BY <1>4, <2>1, <2>3 DEF GoodInputs
  <2> QED
      BY <2>2, <2>4, InputsAdded
<1>6. CASE ~Convertible(coins)
  <2>1. FallBackOrFail
        BY <1>1, <1>2, <1>3, <1>6 DEF QueryForConversion
  <2> QED
      BY <2>1, InputsNone DEF FallBackOrFail
<1> QED
    BY <1>5, <1>6

\* Every step preserves InputsInv.
LEMMA InputsStep ==
    BuildInv /\ AttemptInv /\ IInv /\ CandsInv /\ InputsInv /\ [TxNext]_txVars
    => InputsInv'
<1> SUFFICES ASSUME BuildInv, AttemptInv, IInv, CandsInv, InputsInv,
                    [TxNext]_txVars
             PROVE  InputsInv'
    OBVIOUS
<1>1. CASE StartCall
      BY <1>1, InputsNone DEF StartCall
<1>2. CASE RefuseCall \/ QueryCoins \/ Choose \/ CallAgain
      BY <1>2, InputsSame DEF RefuseCall, QueryCoins, Choose, CallAgain, callVars
<1>3. CASE UseGivenCoins
      BY <1>3, InputsGiven
<1>4. CASE QueryFails \/ NotEnoughCoins \/ GetDecoysFails
      BY <1>4, InputsNone DEF QueryFails, NotEnoughCoins, GetDecoysFails,
         FallBackOrFail
<1>5. CASE QueryForConversion
      BY <1>5, InputsConverted
<1>6. CASE CoinsChosen
      BY <1>6, InputsChosen
<1>7. CASE GetDecoys
      BY <1>7, InputsDecoys
<1>8. CASE InitTx
  <2>1. FallBackOrFail \/ UNCHANGED <<call, ledger, version, sel>>
        BY <1>8 DEF InitTx
  <2> QED
      BY <2>1, InputsNone, InputsSame DEF FallBackOrFail
<1>9. CASE Send \/ SendFails \/ AnswerUnreadable
      BY <1>9, InputsSame DEF Send, SendFails, AnswerUnreadable
<1>10. CASE CallReturned \/ UNCHANGED txVars
      BY <1>10, InputsSame DEF CallReturned, txVars, callVars
<1> QED
    BY <1>1, <1>2, <1>3, <1>4, <1>5, <1>6, <1>7, <1>8, <1>9, <1>10 DEF TxNext

-----------------------------------------------------------------------------
(* Value is conserved                                                      *)

\* A PRV conversion goes straight from the query to the initialization, with
\* coins that pay for its fee.
ConvertInv ==
    call.route = "convert" =>
        /\ stage \notin {"choose", "decoys"}
        /\ stage = "init" =>
              PRV \in DOMAIN sel /\ Wrap(Values(sel[PRV].coins)) >= fee

\* Every step preserves ConvertInv.
LEMMA ConvertStep ==
    BuildInv /\ AttemptInv /\ ConvertInv /\ [TxNext]_txVars => ConvertInv'
<1> SUFFICES ASSUME BuildInv, AttemptInv, ConvertInv, [TxNext]_txVars,
                    call.route = "convert"
             PROVE  /\ stage' \notin {"choose", "decoys"}
                    /\ stage' = "init" => /\ PRV \in DOMAIN sel'
                                          /\ Wrap(Values(sel'[PRV].coins)) >= fee'
    BY RequestKept DEF ConvertInv
<1>1. converting /\ stage \notin {"choose", "decoys"}
      BY DEF converting, ConvertInv
<1>2. CASE QueryForConversion
  <2>1. PICK coins :
           /\ Convertible(coins) =>
                 /\ stage' = "init" /\ fee' = fee
                 /\ sel' = WithInputs([coins |-> coins, mine |-> <<>>, decoys |-> <<>>])
           /\ ~Convertible(coins) => FallBackOrFail
    <3>1. PICK coins : coins = ConvertedCoins(
              [k \in DOMAIN OfVersion(GetUnspentOutputCoins(ledger[asset], spent), 1) |->
                  OfVersion(GetUnspentOutputCoins(ledger[asset], spent), 1)[k].coin])
          OBVIOUS
    <3>2. Convertible(coins) =>
             /\ stage' = "init" /\ fee' = fee
             /\ sel' = WithInputs([coins |-> coins, mine |-> <<>>, decoys |-> <<>>])
          BY <1>2, <3>1 DEF QueryForConversion
    <3>3. ~Convertible(coins) => FallBackOrFail
          BY <1>2, <3>1 DEF QueryForConversion
    <3> QED
        BY <3>2, <3>3
  <2>2. asset = PRV /\ fee = DefaultPRVFee
    <3>1. Preparing /\ ~Transfers
          BY <1>2 DEF QueryForConversion, Preparing, Transfers
    <3>2. asset = PRV
          BY <3>1, AssetKnown
    <3> QED
        BY <3>1, <3>2 DEF AttemptInv
  <2>3. CASE Convertible(coins)
    <3>1. sel' = WithInputs([coins |-> coins, mine |-> <<>>, decoys |-> <<>>])
          BY <2>1, <2>3
    <3>2. PRV \in DOMAIN sel' /\ sel'[PRV].coins = coins
          BY <2>2, <3>1 DEF WithInputs
    <3> QED
        BY <2>1, <2>2, <2>3, <3>2 DEF Convertible
  <2> QED
      BY <2>1, <2>3 DEF FallBackOrFail
<1>3. CASE StartCall \/ RefuseCall \/ CallAgain \/ SendFails \/ AnswerUnreadable \/ Send
      BY <1>3 DEF StartCall, RefuseCall, CallAgain, SendFails, AnswerUnreadable, Send, SendError
<1>4. CASE UseGivenCoins \/ QueryCoins \/ Choose \/ CoinsChosen \/ NotEnoughCoins
           \/ GetDecoys \/ GetDecoysFails
      BY <1>1, <1>4 DEF UseGivenCoins, QueryCoins, Choose, CoinsChosen,
         NotEnoughCoins, GetDecoys, GetDecoysFails
<1>5. CASE QueryFails
      BY <1>5 DEF QueryFails, FallBackOrFail
<1>6. CASE InitTx
  <2>1. FallBackOrFail \/ stage' = "send"
        BY <1>6 DEF InitTx
  <2> QED
      BY <2>1 DEF FallBackOrFail
<1>7. CASE CallReturned \/ UNCHANGED txVars
      BY <1>7 DEF CallReturned, txVars, callVars, ConvertInv
<1> QED
    BY <1>2, <1>3, <1>4, <1>5, <1>6, <1>7 DEF TxNext

\* The remainder of a number that is already small, or not too negative.
LEMMA WrapSmall ==
    /\ \A n \in Nat : n < Modulus => Wrap(n) = n
    /\ \A n \in Int : n < 0 /\ -Modulus <= n => Wrap(n) = n + Modulus
    /\ Modulus \div 2 \in Nat /\ 2 * (Modulus \div 2) <= Modulus
BY CallsAssumption DEF Wrap

\* The change, where there is one.
LEMMA ChangeAmount ==
    ASSUME NEW p, IsParams(p), p.pays \in Payments
    PROVE  LET outs == OutputCoins(CalculateSentBackInfo(p))
           IN  /\ OverBalance(p) > 0 =>
                     /\ DOMAIN outs = 1..(Len(p.pays) + 1)
                     /\ outs[Len(p.pays) + 1].val = OverBalance(p)
               /\ ~(OverBalance(p) > 0) => DOMAIN outs = 1..Len(p.pays)
               /\ \A k \in 1..Len(p.pays) : outs[k].val = p.pays[k].val
<1>1. DOMAIN p.pays = 1..Len(p.pays) /\ Len(p.pays) \in Nat
      BY DEF Payments
<1>2. CASE OverBalance(p) > 0
  <2>1. PICK change : change = [to |-> Sender, val |-> OverBalance(p)]
        OBVIOUS
  <2>2. PICK pays : pays = Append(p.pays, change)
        OBVIOUS
  <2>3. PICK r : r = [p EXCEPT !.pays = pays]
        OBVIOUS
  <2>4. CalculateSentBackInfo(p) = r
        BY <1>2, <2>1, <2>2, <2>3 DEF CalculateSentBackInfo
  <2>5. r.pays = pays
        BY <2>3 DEF IsParams
  <2>6. /\ DOMAIN pays = 1..(Len(p.pays) + 1)
        /\ \A k \in 1..Len(p.pays) : pays[k] = p.pays[k]
        /\ pays[Len(p.pays) + 1] = change
        BY <1>1, <2>2 DEF Payments
  <2>7. PICK outs : outs = OutputCoins(r)
        OBVIOUS
  <2>8. outs = [k \in 1..(Len(p.pays) + 1) |->
                   [to |-> pays[k].to, val |-> pays[k].val, asset |-> r.asset]]
        BY <2>5, <2>6, <2>7 DEF OutputCoins
  <2>9. /\ DOMAIN outs = 1..(Len(p.pays) + 1)
        /\ \A k \in 1..(Len(p.pays) + 1) : outs[k].val = pays[k].val
        BY <2>8
  <2>10. \A k \in 1..Len(p.pays) : outs[k].val = p.pays[k].val
        BY <1>1, <2>6, <2>9
  <2>11. outs[Len(p.pays) + 1].val = OverBalance(p)
        BY <1>1, <2>1, <2>6, <2>9
  <2> QED
      BY <1>2, <2>4, <2>7, <2>9, <2>10, <2>11
<1>3. CASE ~(OverBalance(p) > 0)
  <2>1. CalculateSentBackInfo(p) = p
        BY <1>3 DEF CalculateSentBackInfo
  <2>2. PICK outs : outs = OutputCoins(p)
        OBVIOUS
  <2>3. /\ DOMAIN outs = 1..Len(p.pays)
        /\ \A k \in 1..Len(p.pays) : outs[k].val = p.pays[k].val
        BY <1>1, <2>2 DEF OutputCoins
  <2> QED
      BY <1>3, <2>1, <2>2, <2>3
<1> QED
    BY <1>2, <1>3

\* With sums that fit, the change is what is left: overBalance neither wraps
\* nor changes its sign when it is read as an int64.
LEMMA ChangeIsExact ==
    ASSUME NEW p, IsParams(p), p.pays \in Payments, p.fee \in Nat,
           p.ins \in Seq(CoinType), Fits(p.ins, p.pays, p.fee), OverBalance(p) >= 0
    PROVE  Values(p.ins) = Values(OutputCoins(CalculateSentBackInfo(p))) + p.fee
<1>1. PICK x \in Nat, y \in Nat : x = Values(p.ins) /\ y = Values(p.pays)
      BY SumsAreNat
<1>2. PICK h \in Nat : h = Modulus \div 2 /\ 2 * h <= Modulus
      BY WrapSmall
<1>3. x < h /\ y + p.fee < h /\ Modulus \in Nat \ {0}
      BY <1>1, <1>2, CallsAssumption DEF Fits
<1>4. PICK d \in Int : d = x - y - p.fee
      BY <1>1
<1>5. Wrap(d) = (IF d < 0 THEN d + Modulus ELSE d)
      BY SMTT(40), <1>2, <1>3, <1>4, WrapSmall
<1>6. OverBalance(p) = AsInt64(Wrap(d))
      BY <1>1, <1>4 DEF OverBalance
<1>7. d >= 0 /\ OverBalance(p) = d
      BY <1>2, <1>3, <1>4, <1>5, <1>6 DEF AsInt64
<1>8. PICK outs : outs = OutputCoins(CalculateSentBackInfo(p))
      OBVIOUS
<1>9. PICK n \in Nat : n = Len(p.pays) /\ DOMAIN p.pays = 1..n
      BY DEF Payments
<1>10. \A k \in 1..n : p.pays[k].val \in Nat
      BY <1>9, PaymentVal
<1>11. /\ d > 0 => DOMAIN outs = 1..(n + 1) /\ outs[n + 1].val = d
       /\ d = 0 => DOMAIN outs = 1..n
       /\ \A k \in 1..n : outs[k].val = p.pays[k].val
      BY <1>7, <1>8, <1>9, ChangeAmount
<1>12. Values(outs) = y + d
  <2>0. PICK v : v = p.pays
        OBVIOUS
  <2>00. /\ \A w : /\ DOMAIN w = 1..n
                   /\ \A k \in 1..n : w[k].val = v[k].val
                   => Values(w) = Values(v)
         /\ \A w : /\ DOMAIN w = 1..(n + 1) /\ w[n + 1].val \in Nat
                   /\ \A k \in 1..n : w[k].val = v[k].val
                   => Values(w) = Values(v) + w[n + 1].val
    <3>1. DOMAIN v = 1..n /\ \A k \in 1..n : v[k].val \in Nat
          BY <1>9, <1>10, <2>0
    <3> QED
        BY <3>1, ValuesExtended, Zenon
  <2>1. CASE d > 0
    <3>1. d \in Nat
          BY <1>7
    <3>2. Values(outs) = Values(v) + outs[n + 1].val
          BY <1>11, <2>0, <2>00, <2>1, <3>1
    <3> QED
        BY <1>1, <1>11, <2>0, <2>1, <3>2
  <2>2. CASE d = 0
    <3>1. Values(outs) = Values(v)
          BY <1>11, <2>0, <2>00, <2>2
    <3> QED
        BY <1>1, <2>0, <2>2, <3>1
  <2> QED
      BY <1>7, <2>1, <2>2
<1>13. x = (y + d) + p.fee
      BY <1>4
<1> QED
    BY <1>1, <1>8, <1>12, <1>13

\* A sum of naturals is at least each of them, and 0 if all are.
LEMMA SumBounds ==
    ASSUME NEW n \in Nat, NEW v, DOMAIN v = 1..n, \A k \in 1..n : v[k].val \in Nat
    PROVE  /\ Values(v) = 0 => \A k \in 1..n : v[k].val = 0
           /\ (\A k \in 1..n : v[k].val = 0) => Values(v) = 0
<1>1. PICK h \in [0..n -> Nat] : IsPartial(v, h, n)
      BY PartialExists
<1>2. Values(v) = h[n]
      BY <1>1, ValuesArePartial
<1>3. /\ h[0] = 0
      /\ \A k \in 1..n : /\ h[k] = h[k - 1] + v[k].val
                         /\ h[k] \in Nat /\ h[k - 1] \in Nat
      BY <1>1 DEF IsPartial
<1>4. ASSUME Values(v) = 0 PROVE \A k \in 1..n : v[k].val = 0
  <2> DEFINE P == {j \in Nat : j <= n => h[n - j] = 0}
  <2>1. 0 \in P
    <3>1. h[n] = 0 /\ n - 0 = n
          BY <1>2, <1>4
    <3> QED
        BY <3>1
  <2>2. ASSUME NEW j \in Nat, j \in P PROVE j + 1 \in P
    <3> SUFFICES ASSUME j + 1 <= n PROVE h[n - (j + 1)] = 0
        OBVIOUS
    <3>1. PICK k \in 1..n : k = n - j
          OBVIOUS
    <3>2. h[k] = 0 /\ k - 1 = n - (j + 1)
          BY <2>2, <3>1
    <3>3. h[k] = h[k - 1] + v[k].val /\ h[k - 1] \in Nat /\ v[k].val \in Nat
          BY <1>3
    <3> QED
        BY <3>2, <3>3
  <2>3. Nat \subseteq P
    <3> HIDE DEF P
    <3> QED
        BY <2>1, <2>2, SetInduction, Zenon
  <2> SUFFICES ASSUME NEW k \in 1..n PROVE v[k].val = 0
      OBVIOUS
  <2>4. PICK j \in Nat : j = n - k /\ j <= n
        OBVIOUS
  <2>5. h[n - j] = 0 /\ n - j = k
    <3>1. j \in P
          BY <2>3
    <3>2. h[n - j] = 0
          BY <2>4, <3>1
    <3>3. n - j = k
          BY <2>4
    <3> QED
        BY <3>2, <3>3
  <2> QED
      BY <1>3, <2>5
<1>5. ASSUME \A k \in 1..n : v[k].val = 0 PROVE Values(v) = 0
  <2>1. PICK g : g = [k \in 0..n |-> 0]
        OBVIOUS
  <2>2. IsPartial(v, g, n)
        BY <1>5, <2>1 DEF IsPartial
  <2> QED
      BY <2>1, <2>2, ValuesArePartial
<1> QED
    BY <1>4, <1>5

\* Commitments that cancel without any output: the inputs are worth nothing.
LEMMA NothingOut ==
    ASSUME NEW ins \in Seq(CoinType), NEW outs, DOMAIN outs = 1..Len(outs),
           Len(outs) = 0, CommitmentsSumToZeroCA(ins, outs)
    PROVE  Values(ins) = 0 /\ Values(outs) = 0
<1>1. PICK n \in Nat : n = Len(ins) /\ DOMAIN ins = 1..n
      OBVIOUS
<1>2. \A k \in 1..n : ins[k].val \in Nat
  <2>1. \A k \in 1..n : ins[k] \in CoinType
        BY <1>1
  <2> QED
      BY <2>1 DEF CoinType
<1>3. DOMAIN outs = 1..0
      OBVIOUS
<1>4. ASSUME NEW s, DOMAIN s = 1..0 PROVE Values(s) = 0
  <2>1. \A k \in 1..0 : s[k].val \in Nat /\ s[k].val = 0
        OBVIOUS
  <2> QED
      BY <1>4, <2>1, SumBounds
<1>5. ASSUME NEW k \in 1..n PROVE ins[k].val = 0
  <2>1. PICK a : a = ins[k].asset
        OBVIOUS
  <2>2. a \in Assets(ins)
        BY <1>1, <2>1 DEF Assets, ToSet
  <2>3. ValuesOf(ins, a) = ValuesOf(outs, a)
        BY <2>2 DEF CommitmentsSumToZeroCA
  <2>4. ValuesOf(outs, a) = 0
    <3>1. PICK s : s = [m \in DOMAIN outs |->
                           IF outs[m].asset = a THEN outs[m] ELSE [val |-> 0]]
          OBVIOUS
    <3>2. DOMAIN s = 1..0
          BY <1>3, <3>1
    <3> QED
        BY <1>4, <3>1, <3>2 DEF ValuesOf
  <2>5. PICK w : w = [m \in DOMAIN ins |->
                         IF ins[m].asset = a THEN ins[m] ELSE [val |-> 0]]
        OBVIOUS
  <2>6. Values(w) = 0
        BY <2>3, <2>4, <2>5 DEF ValuesOf
  <2>7. DOMAIN w = 1..n /\ w[k] = ins[k]
        BY <1>1, <2>1, <2>5
  <2>8. \A m \in 1..n : w[m].val \in Nat
    <3>1. \A m \in 1..n : w[m].val = IF ins[m].asset = a THEN ins[m].val ELSE 0
          BY <1>1, <2>5
    <3> QED
        BY <1>2, <3>1
  <2>9. w[k].val = 0
        BY <2>6, <2>7, <2>8, SumBounds
  <2> QED
      BY <2>7, <2>9
<1> QED
    BY <1>1, <1>2, <1>3, <1>4, <1>5, SumBounds

\* A version 1 transaction.
LEMMA Version1Conserves ==
    ASSUME NEW p, IsParams(p), p.pays \in Payments, p.fee \in Nat,
           p.ins \in Seq(CoinType), ~Failed(InitVer1(p)),
           NEW t, t = InitVer1(p), Fits(t.ins, p.pays, p.fee)
    PROVE  Values(t.ins) = Values(t.outs) + t.fee
<1>1. PICK outs : outs = OutputCoins(CalculateSentBackInfo(p))
      OBVIOUS
<1>2. /\ t.fee = p.fee /\ OverBalance(p) >= 0
      /\ \/ t.ins = p.ins /\ t.outs = outs
         \/ IsNonPrivacyNonInput(p) /\ t.ins = <<>> /\ t.outs = <<>>
      BY <1>1, Version1Coins
<1>3. CASE t.ins = p.ins /\ t.outs = outs
  <2>1. Values(p.ins) = Values(outs) + p.fee
        BY <1>1, <1>2, <1>3, ChangeIsExact
  <2> QED
      BY <1>2, <1>3, <2>1
<1>4. CASE IsNonPrivacyNonInput(p) /\ t.ins = <<>> /\ t.outs = <<>>
  <2>1. t.fee = 0 /\ Values(<<>>) = 0
        BY <1>2, <1>4, ValuesOfFew DEF IsNonPrivacyNonInput
  <2> QED
      BY <1>4, <2>1
<1> QED
    BY <1>2, <1>3, <1>4

Conserved(t) ==
    /\ Values(t.base.ins) = Values(t.base.outs) + t.base.fee
    /\ HasData(t) /\ t.data.kind # "init" =>
          Values(t.data.sub.ins) = Values(t.data.sub.outs) + t.data.sub.fee

\* The sums of each part fit into an int64.
PartsFit(t) ==
    /\ Fits(t.base.ins, call.pays, fee)
    /\ isToken => Fits(t.data.sub.ins, call.tok.pays, TokenFee)

\* A smaller fee fits too.
LEMMA FitsLess ==
    ASSUME NEW ins, NEW pays \in Payments, NEW f \in Nat, NEW g \in Nat, f <= g,
           Fits(ins, pays, g)
    PROVE  Fits(ins, pays, f)
<1>1. PICK y \in Nat : y = Values(pays)
      BY SumsAreNat
<1>2. Modulus \div 2 \in Nat
      BY WrapSmall
<1> QED
    BY <1>1, <1>2 DEF Fits

\* The parameters of both parts.
LEMMA ParamsTyped ==
    ASSUME BuildInv, AttemptInv, InputsInv
    PROVE  /\ IsParams(PRVParams) /\ PRVParams.pays = call.pays
           /\ call.pays \in Payments
           /\ PRVParams.fee \in Nat /\ PRVParams.fee <= fee
           /\ PRVParams.ins \in Seq(CoinType)
           /\ IsParams(TokenParams) /\ TokenParams.pays = call.tok.pays
           /\ TokenParams.md = NoMetadata
           /\ version # 1 => TokenParams.fee = 0
           /\ TokenParams.ins \in Seq(CoinType)
           /\ call.route \in {"token", "tokenConvert"} =>
                 /\ isToken /\ call.tok.pays \in Payments
                 /\ TokenFee \in Nat
                 /\ TokenParams.fee \in Nat /\ TokenParams.fee <= TokenFee
<1>1. CallOK(call) /\ fee \in Nat
      BY DEF BuildInv, CallInv, AttemptInv
<1>2. \A a : Inputs(a).coins \in Seq(CoinType)
  <2> SUFFICES ASSUME NEW a PROVE Inputs(a).coins \in Seq(CoinType)
      OBVIOUS
  <2>1. CASE a \in DOMAIN sel
    <3>1. GoodInputs(a, sel[a])
          BY <2>1 DEF InputsInv
    <3> QED
        BY <2>1, <3>1 DEF GoodInputs, OwnCoins, Inputs
  <2>2. CASE a \notin DOMAIN sel
        BY <2>2 DEF Inputs
  <2> QED
      BY <2>1, <2>2
<1>3. /\ IsParams(PRVParams) /\ PRVParams.pays = call.pays
      /\ PRVParams.fee = (IF version = 1 /\ HasTokenFee THEN 0 ELSE fee)
      /\ PRVParams.ins = Inputs(PRV).coins
      /\ IsParams(TokenParams) /\ TokenParams.pays = call.tok.pays
      /\ TokenParams.fee = (IF version = 1 /\ HasTokenFee THEN TokenFee ELSE 0)
      /\ TokenParams.ins = Inputs(call.tok.asset).coins
      /\ TokenParams.md = NoMetadata
      BY <1>1, ParamsShape
<1>4. PRVParams.ins \in Seq(CoinType) /\ TokenParams.ins \in Seq(CoinType)
      BY <1>2, <1>3, Zenon
<1>5. call.pays \in Payments
      BY <1>1 DEF CallOK
<1>6. ASSUME call.route \in {"token", "tokenConvert"}
      PROVE  isToken /\ call.tok.pays \in Payments /\ TokenFee \in Nat
      BY <1>1, <1>6, CallsAssumption DEF CallOK, TokenFee, isToken
<1> QED
    BY <1>1, <1>3, <1>4, <1>5, <1>6

\* A version 2 PRV transaction is never initialized without inputs.
LEMMA PRVHasInputs ==
    ASSUME BuildInv, stage = "init", call.route = "prv", version = 2
    PROVE  PRVParams.ins # <<>>
<1>1. PRVParams.ins = Inputs(PRV).coins
      BY ParamsShape DEF BuildInv, CallInv
<1>2. Todo(version) = <<PRV>>
      BY DEF Todo
<1>3. PRV \in ToSet(Todo(version)) /\ ToSet(todo) = {}
      BY <1>2 DEF ToSet, BuildInv, TodoInv
<1>4. Ready(PRV)
      BY <1>3 DEF BuildInv, ReadyInv, Transfers
<1> QED
    BY <1>1, <1>4 DEF Ready, Inputs

\* A PRV transaction.
LEMMA PRVConserves ==
    ASSUME BuildInv, AttemptInv, InputsInv, stage = "init", call.route = "prv",
           NEW pi, NEW t, t = BuildTx(pi), ~Failed(t),
           PartsFit(t) \/ t.base.ver # 1
    PROVE  Conserved(t)
<1>1. version \in {1, 2}
      BY DEF BuildInv, VersionInv, Transfers
<1>2. /\ IsParams(PRVParams) /\ PRVParams.pays = call.pays
      /\ call.pays \in Payments
      /\ PRVParams.fee \in Nat /\ PRVParams.fee <= fee
      /\ PRVParams.ins \in Seq(CoinType) /\ fee \in Nat
      BY ParamsTyped DEF AttemptInv
<1>3. Failed(NoTx) /\ ~HasData(Whole(NoTx, NoData))
      BY DEF Failed, NoTx, HasData, Whole, NoData
<1>4. PICK s : s = IF version = 1 THEN InitVer1(PRVParams) ELSE InitVer2(PRVParams, pi)
      OBVIOUS
<1>5. t = Plain(s)
      BY <1>1, <1>4 DEF BuildTx, CreateVer1, CreateVer2
<1>6. ~Failed(s) /\ t.base = s /\ ~HasData(t)
      BY <1>3, <1>5 DEF Plain, Whole, HasData, NoData
<1>7. Values(s.ins) = Values(s.outs) + s.fee
  <2>1. CASE version = 1
    <3>0. s.ver = 1
          BY <1>2, <1>4, <1>6, <2>1, Version1Coins
    <3>1. Fits(s.ins, PRVParams.pays, PRVParams.fee)
          BY <1>2, <1>6, <3>0, FitsLess DEF PartsFit
    <3> QED
        BY <1>2, <1>4, <1>6, <2>1, <3>1, Version1Conserves
  <2>2. CASE version = 2
    <3>1. PRVParams.ins # <<>>
          BY <2>2, PRVHasInputs
    <3>2. CommitmentsSumToZero(s.ins, s.outs, s.fee)
          BY <1>2, <1>4, <1>6, <2>2, <3>1, Version2Coins
    <3> QED
        BY <3>2 DEF CommitmentsSumToZero
  <2> QED
      BY <1>1, <2>1, <2>2
<1> QED
    BY <1>6, <1>7 DEF Conserved

\* A token transaction.
LEMMA TokenConserves ==
    ASSUME BuildInv, ShapeInv, AttemptInv, InputsInv, stage = "init",
           call.route = "token",
           NEW pi, NEW t, t = BuildTx(pi), ~Failed(t),
           PartsFit(t) \/ t.base.ver # 1
    PROVE  Conserved(t)
<1>1. version \in {1, 2}
      BY DEF BuildInv, VersionInv, Transfers
<1>2. /\ IsParams(PRVParams) /\ PRVParams.pays = call.pays
      /\ call.pays \in Payments
      /\ PRVParams.fee \in Nat /\ PRVParams.fee <= fee
      /\ PRVParams.ins \in Seq(CoinType) /\ fee \in Nat
      BY ParamsTyped DEF AttemptInv
<1>3. /\ IsParams(TokenParams) /\ TokenParams.pays = call.tok.pays
      /\ TokenParams.md = NoMetadata
      /\ version # 1 => TokenParams.fee = 0
      /\ TokenParams.ins \in Seq(CoinType)
      /\ isToken /\ call.tok.pays \in Payments /\ TokenFee \in Nat
      /\ TokenParams.fee \in Nat /\ TokenParams.fee <= TokenFee
      BY ParamsTyped
<1>5. CASE version = 1
  <2>1. t = InitTokenVer1(PRVParams, TokenParams)
        BY <1>5 DEF BuildTx, CreateTokenVer1
  <2>2. /\ ~Failed(InitVer1(PRVParams)) /\ SameCoins(t.base, InitVer1(PRVParams))
        /\ t.data.kind = TokenParams.kind /\ t.base.ver = 1
        /\ TokenParams.kind # "init" => /\ ~Failed(InitVer1(TokenParams))
                                        /\ t.data.sub = InitVer1(TokenParams)
    <3>1. PICK p, tp : p = PRVParams /\ tp = TokenParams
          OBVIOUS
    <3>2. /\ IsParams(p) /\ p.pays \in Payments
          /\ IsParams(tp) /\ tp.pays \in Payments /\ tp.md = NoMetadata
          BY <1>2, <1>3, <3>1
    <3>3. PICK r : r = InitTokenVer1(p, tp)
          OBVIOUS
    <3>4. t = r /\ ~Failed(InitTokenVer1(p, tp))
          BY <2>1, <3>1, <3>3
    <3>5. /\ ~Failed(InitVer1(p)) /\ SameCoins(r.base, InitVer1(p))
          /\ r.data.kind = tp.kind /\ r.base.ver = 1
          /\ tp.kind # "init" => ~Failed(InitVer1(tp)) /\ r.data.sub = InitVer1(tp)
          BY ZenonT(60), <3>2, <3>3, <3>4, TokenVersion1Coins
    <3> QED
        BY <3>1, <3>4, <3>5
  <2>0. /\ Fits(t.base.ins, PRVParams.pays, PRVParams.fee)
        /\ Fits(t.data.sub.ins, TokenParams.pays, TokenParams.fee)
        BY <1>2, <1>3, <2>2, FitsLess DEF PartsFit
  <2>3. PICK s : s = InitVer1(PRVParams)
        OBVIOUS
  <2>4. t.base.ins = s.ins /\ t.base.outs = s.outs /\ t.base.fee = s.fee
        BY <2>2, <2>3 DEF SameCoins
  <2>5. Values(s.ins) = Values(s.outs) + s.fee
        BY <1>2, <2>0, <2>2, <2>3, <2>4, Version1Conserves
  <2>6. ASSUME t.data.kind # "init"
        PROVE  Values(t.data.sub.ins) = Values(t.data.sub.outs) + t.data.sub.fee
    <3>1. PICK sub : sub = InitVer1(TokenParams)
          OBVIOUS
    <3>2. t.data.sub = sub /\ ~Failed(InitVer1(TokenParams))
          BY <2>2, <2>6, <3>1
    <3>3. Values(sub.ins) = Values(sub.outs) + sub.fee
          BY <1>3, <2>0, <3>1, <3>2, Version1Conserves
    <3> QED
        BY <3>2, <3>3
  <2> QED
      BY <2>4, <2>5, <2>6 DEF Conserved
<1>6. CASE version = 2
  <2>1. t = InitTokenVer2(PRVParams, TokenParams, pi)
        BY <1>6 DEF BuildTx, CreateTokenVer2
  <2>2. TokenParams.fee = 0
        BY <1>3, <1>6
  <2>3. PICK sub : sub = t.data.sub
        OBVIOUS
  <2>4. /\ CommitmentsSumToZero(t.base.ins, t.base.outs, t.base.fee)
        /\ HoldsPayments(sub, TokenParams)
        /\ AssetTagsSumToZero(sub.ins, sub.outs)
        /\ CommitmentsSumToZeroCA(sub.ins, sub.outs)
        BY <1>2, <1>3, <2>1, <2>2, <2>3, TokenVersion2Coins
  <2>5. Values(sub.ins) = Values(sub.outs) + sub.fee
    <3>1. CASE Len(sub.outs) # 0
      <4>1. Values(sub.ins) = Values(sub.outs) /\ sub.fee = 0
            BY <1>3, <2>2, <2>4, <3>1, TokenPartBalances
      <4>2. Values(sub.ins) \in Nat
            BY <1>3, <2>4, SumsAreNat DEF HoldsPayments
      <4> QED
          BY <4>1, <4>2
    <3>2. CASE Len(sub.outs) = 0
      <4>1. /\ sub.ins = TokenParams.ins /\ sub.fee = 0
            /\ DOMAIN sub.outs = 1..Len(sub.outs)
            BY <1>3, <2>2, <2>4, ChangeIsLast DEF HoldsPayments
      <4>2. Values(sub.ins) = 0 /\ Values(sub.outs) = 0
            BY <1>3, <2>4, <3>2, <4>1, NothingOut
      <4> QED
          BY <4>1, <4>2
    <3> QED
        BY <3>1, <3>2
  <2> QED
      BY <2>3, <2>4, <2>5 DEF Conserved, CommitmentsSumToZero
<1> QED
    BY <1>1, <1>5, <1>6

\* A conversion.
LEMMA ConversionConserves ==
    ASSUME BuildInv, AttemptInv, InputsInv, ConvertInv, stage = "init",
           call.route \in {"convert", "tokenConvert"},
           NEW pi, NEW t, t = BuildTx(pi), ~Failed(t), PartsFit(t)
    PROVE  Conserved(t)
<1>1. version = 2 /\ fee \in Nat
      BY DEF AttemptInv, Transfers
<1>2. /\ IsParams(PRVParams) /\ PRVParams.pays = call.pays
      /\ call.pays \in Payments
      /\ PRVParams.ins \in Seq(CoinType)
      BY ParamsTyped
<1>3. /\ PRVParams.fee = fee /\ PRVParams.ins = Inputs(PRV).coins
      BY <1>1, ParamsShape DEF BuildInv, CallInv
<1>4. PICK h \in Nat : h = Modulus \div 2 /\ 2 * h <= Modulus /\ Modulus \in Nat \ {0}
      BY WrapSmall, CallsAssumption
<1>5. \A x \in Nat : Values(ToSelf(x)) = x /\ \A a :
         Values([k \in DOMAIN ToSelf(x) |-> [to |-> ToSelf(x)[k].to,
                   val |-> ToSelf(x)[k].val, asset |-> a]]) = x
  <2> SUFFICES ASSUME NEW x \in Nat, NEW a
               PROVE  /\ Values(ToSelf(x)) = x
                      /\ Values([k \in DOMAIN ToSelf(x) |-> [to |-> ToSelf(x)[k].to,
                                   val |-> ToSelf(x)[k].val, asset |-> a]]) = x
      OBVIOUS
  <2>1. PICK e : e = [to |-> Sender, val |-> x, asset |-> a]
        OBVIOUS
  <2>2. [k \in DOMAIN ToSelf(x) |-> [to |-> ToSelf(x)[k].to,
             val |-> ToSelf(x)[k].val, asset |-> a]] = <<e>>
        BY <2>1 DEF ToSelf
  <2>3. PICK g : g = [to |-> Sender, val |-> x]
        OBVIOUS
  <2>4. ToSelf(x) = <<g>> /\ g.val = x /\ e.val = x
        BY <2>1, <2>3 DEF ToSelf
  <2> QED
      BY <2>2, <2>4, ValuesOfFew
<1>6. Failed(NoTx)
      BY DEF Failed, NoTx
<1>7. CASE call.route = "convert"
  <2>1. PICK v \in Nat : v = Values(PRVParams.ins)
        BY <1>2, SumsAreNat
  <2>2. PICK pays : pays = ToSelf(Wrap(v - fee))
        OBVIOUS
  <2>3. PICK p : p = [PRVParams EXCEPT !.pays = pays]
        OBVIOUS
  <2>4. /\ p.pays = pays /\ p.ins = PRVParams.ins /\ p.fee = fee
        BY <1>2, <1>3, <2>3 DEF IsParams
  <2>5. PICK s : s = InitConversion(p)
        OBVIOUS
  <2>6. t = Plain(s)
        BY <1>7, <2>1, <2>2, <2>3, <2>5 DEF BuildTx, CreateConversion
  <2>7. ~Failed(s) /\ t.base = s /\ ~HasData(t)
        BY <1>6, <2>6 DEF Plain, Whole, HasData, NoData
  <2>8. s.fee = fee /\ s.ins = PRVParams.ins /\ s.outs = OutputCoins(p)
        BY <2>4, <2>5, <2>7, ConversionCoins
  <2>9. v < h
        BY <1>4, <2>1, <2>7, <2>8 DEF PartsFit, Fits
  <2>10. v >= fee
    <3>1. Wrap(v) >= fee
          BY <1>3, <1>7, <2>1 DEF ConvertInv, Inputs
    <3>2. Wrap(v) = v
          BY <1>4, <2>9, WrapSmall
    <3> QED
        BY <3>1, <3>2
  <2>11. v - fee \in Nat /\ v - fee < Modulus
        BY <1>1, <1>4, <2>9, <2>10
  <2>12. Wrap(v - fee) = v - fee
        BY <2>11, WrapSmall
  <2>13. Values(s.outs) = v - fee
        BY <1>5, <2>2, <2>4, <2>8, <2>11, <2>12 DEF OutputCoins
  <2>14. Values(s.ins) = Values(s.outs) + s.fee
        BY <1>1, <2>1, <2>8, <2>13
  <2> QED
      BY <2>7, <2>14 DEF Conserved
<1>8. CASE call.route = "tokenConvert"
  <2>0. /\ IsParams(TokenParams) /\ TokenParams.fee = 0 /\ isToken
        /\ TokenParams.ins \in Seq(CoinType)
        BY <1>1, <1>8, ParamsTyped
  <2>1. PICK v \in Nat : v = Values(TokenParams.ins)
        BY <2>0, SumsAreNat
  <2>2. PICK pays : pays = ToSelf(Wrap(v))
        OBVIOUS
  <2>3. PICK p : p = [TokenParams EXCEPT !.pays = pays]
        OBVIOUS
  <2>4. /\ p.pays = pays /\ p.ins = TokenParams.ins /\ p.fee = 0
        BY <2>0, <2>3 DEF IsParams
  <2>5. t = InitTokenConversion(PRVParams, p, pi)
        BY <1>8, <2>1, <2>2, <2>3 DEF BuildTx, CreateTokenConversion
  <2>6. PICK sub : sub = t.data.sub
        OBVIOUS
  <2>7. /\ CommitmentsSumToZero(t.base.ins, t.base.outs, t.base.fee)
        /\ sub.ins = p.ins /\ sub.outs = OutputCoins(p) /\ sub.fee = p.fee
        BY <1>2, <2>5, <2>6, TokenConversionCoins
  <2>8. v < Modulus
    <3>1. v < h
          BY <1>4, <2>0, <2>1, <2>4, <2>6, <2>7 DEF PartsFit, Fits
    <3> QED
        BY <1>4, <3>1
  <2>9. Wrap(v) = v
        BY <2>8, WrapSmall
  <2>10. Values(sub.outs) = v
        BY SMTT(40), <1>5, <2>2, <2>4, <2>7, <2>9 DEF OutputCoins
  <2>11. Values(sub.ins) = Values(sub.outs) + sub.fee
        BY <2>1, <2>4, <2>7, <2>10
  <2> QED
      BY <2>6, <2>7, <2>11 DEF Conserved, CommitmentsSumToZero
<1> QED
    BY <1>7, <1>8

\* From a built transaction on, the request, the fee and the transaction stay.
LEMMA BuiltStays ==
    ASSUME [TxNext]_txVars, ~InitTx
    PROVE  /\ call' = call
           /\ \/ stage' \notin {"send", "ok"}
              \/ stage \in {"send", "ok"} /\ UNCHANGED <<tx, fee, ledger>>
<1>1. /\ call' = call /\ ledger' = ledger
      /\ \/ stage' \notin {"send", "ok"}
         \/ stage \in {"send", "ok"} /\ tx' = tx
      BY OtherSteps, RequestKept
<1>2. ASSUME stage \in {"send", "ok"} PROVE fee' = fee
  <2>1. Send \/ SendFails \/ AnswerUnreadable \/ CallReturned \/ UNCHANGED txVars
        BY <1>2 DEF TxNext, StartCall, RefuseCall, UseGivenCoins, QueryCoins,
           QueryFails, QueryForConversion, Choose, CoinsChosen, NotEnoughCoins,
           GetDecoys, GetDecoysFails, InitTx, CallAgain
  <2> QED
      BY <2>1 DEF Send, SendFails, AnswerUnreadable, CallReturned, txVars, callVars
<1> QED
    BY <1>1, <1>2

\* Every step preserves ValueConserved.
LEMMA ConservedStep ==
    /\ BuildInv /\ ShapeInv /\ AttemptInv /\ InputsInv /\ ConvertInv
    /\ ValueConserved /\ [TxNext]_txVars
    => ValueConserved'
<1> SUFFICES ASSUME BuildInv, ShapeInv, AttemptInv, InputsInv, ConvertInv,
                    ValueConserved, [TxNext]_txVars
             PROVE  ValueConserved'
    OBVIOUS
<1>1. CASE InitTx
  <2>1. PICK pi : IF Failed(BuildTx(pi)) THEN FallBackOrFail
                  ELSE tx' = BuildTx(pi) /\ UNCHANGED <<call, fee>>
        BY <1>1 DEF InitTx
  <2>2. CASE FallBackOrFail
        BY <2>2 DEF FallBackOrFail, ValueConserved, Built
  <2>3. CASE ~Failed(BuildTx(pi)) /\ tx' = BuildTx(pi) /\ UNCHANGED <<call, fee>>
    <3>1. PICK t : t = BuildTx(pi)
          OBVIOUS
    <3>2. tx' = t /\ ~Failed(t) /\ stage = "init"
          BY <1>1, <2>3, <3>1 DEF InitTx
    <3>3. PartsFit(t)' = PartsFit(t)
          BY <2>3 DEF PartsFit, Fits, isToken, TokenFee
    <3>4. PartsFit(t) \/ (t.base.ver # 1 /\ Transfers) => Conserved(t)
          BY <3>1, <3>2, PRVConserves, TokenConserves, ConversionConserves
             DEF BuildInv, CallInv, CallOK, Transfers
    <3>5. /\ AmountsFit' => PartsFit(t)'
          /\ (tx.base.ver # 1 /\ call.route \in {"prv", "token"})'
                => t.base.ver # 1 /\ Transfers
          BY <2>3, <3>2 DEF AmountsFit, PartsFit, Transfers
    <3>6. Conserved(t) => ValueConserved'
          BY <3>2 DEF ValueConserved, Conserved
    <3>7. ~ValueConserved' => (AmountsFit \/
                 (tx.base.ver # 1 /\ call.route \in {"prv", "token"}))'
          BY DEF ValueConserved
    <3> QED
        BY <3>3, <3>4, <3>5, <3>6, <3>7
  <2> QED
      BY <2>1, <2>2, <2>3
<1>2. CASE ~InitTx
  <2>1. /\ call' = call
        /\ \/ stage' \notin {"send", "ok"}
           \/ stage \in {"send", "ok"} /\ UNCHANGED <<tx, fee, ledger>>
        BY <1>2, BuiltStays
  <2>2. CASE stage' \notin {"send", "ok"}
        BY <2>2 DEF ValueConserved, Built
  <2>3. CASE stage \in {"send", "ok"} /\ UNCHANGED <<tx, fee, ledger>>
    <3>1. AmountsFit' = AmountsFit
          BY <2>1, <2>3 DEF AmountsFit, Fits, isToken, TokenFee
    <3> QED
        BY <2>1, <2>3, <3>1 DEF ValueConserved, Built, HasData, Failed
  <2> QED
      BY <2>1, <2>2, <2>3
<1> QED
    BY <1>1, <1>2

\* No transaction creates or destroys value, in PRV or in the token: its inputs
\* are worth its outputs and its fee.  For version 2 transfers whatever the
\* amounts and whichever coins the caller provides; for version 1 and for
\* conversions as long as the sums of a part's inputs, and of its payments and
\* fee, fit into an int64.
THEOREM ValueIsConserved == TxSpec => []ValueConserved
<1>1. TxInit => ShapeInv /\ InputsInv /\ ConvertInv /\ ValueConserved
      BY DEF TxInit, ShapeInv, InputsInv, ConvertInv, ValueConserved, Built, NoSel
<1> QED
    BY <1>1, BuildInvInit, BuildInvStep, ShapeStep, SelectionInit,
       SelectionStep, AttemptStep, InputsStep, ConvertStep, ConservedStep, PTL
       DEF TxSpec

-----------------------------------------------------------------------------
(* A transaction is read back as it was sent                               *)

\* What SignaturesReadBack says of a transaction t that is read back as r.
ReadsAs(t, r) ==
    /\ ~Failed(r) /\ r.base = t.base
    /\ HasData(t) <=> HasData(r)
    /\ HasData(t) => r.data.id = t.data.id
    /\ IF r.base.ver = 1
       THEN \A n \in DOMAIN Parts(r) : Parts(r)[n].sig = HashVer1(Parts(r)[n])
       ELSE /\ r.base.sig = IF HasData(r)
                            THEN <<HashVer2(r.base), TokenDataHash(r.data)>>
                            ELSE HashVer2(r.base)
            /\ HasData(r) => r.data.sub.sig = HashVer2(r.data.sub)
            /\ r.base.mdSig # <<>> => r.base.mdSig = HashWithoutMetadataSig(r.base)

ReadsBack(t) == ReadsAs(t, DeserializeTransactionJSON(MarshalJSON(t)))

\* A part whose proof its reader understands is read as it was written.
LEMMA PartReads ==
    ASSUME NEW b, IsTx(b),
           \/ /\ b.ver = 1 /\ b.type \in {"n", "tp"}
              /\ b.proof \in {"nil", "ProofV1"}
           \/ b.ver = 2 /\ b.type \in {"n", "tp", "tcv"} /\ b.proof = "ProofV2"
           \/ b.ver = 2 /\ b.type = "cv" /\ b.proof = "ProofForConversion"
    PROVE  UnmarshalTxBase(b) = b
<1>1. PICK type : type = IF b.type = "tcv" THEN "n" ELSE b.type
      OBVIOUS
<1>2. ParseProof(b.proof, b.ver, type) = b.proof
      BY <1>1 DEF ParseProof, ConversionVersion
<1>3. b.proof # Unreadable
      BY DEF Unreadable
<1>4. PICK s : s = [b EXCEPT !.proof = b.proof]
      OBVIOUS
<1>5. SetTo(b, s, "proof", b.proof)
      BY <1>4, FieldSet
<1>6. s = b
      BY <1>5 DEF SetTo, IsTx
<1>7. UnmarshalTxBase(b) = s
      BY <1>1, <1>2, <1>3, <1>4 DEF UnmarshalTxBase
<1> QED
    BY <1>6, <1>7

\* A transaction without token part.
LEMMA PlainReads ==
    ASSUME NEW b, IsTx(b), b.ver \in {1, 2}, UnmarshalTxBase(b) = b,
           b.ver = 1 => b.sig = HashVer1(b),
           b.ver = 2 => b.sig = HashVer2(b) /\ MetadataSigned(b),
           NEW t, t = Whole(b, NoData)
    PROVE  ReadsBack(t)
<1>1. t.base = b /\ t.data = NoData /\ t.ver = b.ver /\ ~HasData(t)
      BY DEF Whole, HasData, NoData
<1>2. PICK j : j = MarshalJSON(t)
      OBVIOUS
<1>3. j.version = {b.ver} /\ j.token = FALSE /\ j.base = b
      BY <1>1, <1>2 DEF MarshalJSON
<1>4. ~Failed(b)
      BY DEF Failed
<1>5. j.version = {1} \/ j.version = {2}
      BY <1>3
<1>6. DeserializeTransactionJSON(j) = t
      BY <1>3, <1>4, <1>5 DEF DeserializeTransactionJSON
<1>7. ~Failed(t)
      BY <1>1 DEF Failed
<1>8. Parts(t) = <<b>>
      BY <1>1 DEF Parts
<1>9. \A n \in DOMAIN Parts(t) : Parts(t)[n] = b
      BY <1>8
<1>10. ReadsAs(t, t)
      BY <1>1, <1>7, <1>9 DEF ReadsAs, MetadataSigned
<1> QED
    BY <1>2, <1>6, <1>10 DEF ReadsBack

\* A version 1 token transaction.
LEMMA TokenVersion1Reads ==
    ASSUME NEW t, TokenSigned1(t) PROVE ReadsBack(t)
<1>1. PICK b, d, sub : b = t.base /\ d = t.data /\ sub = t.data.sub
      OBVIOUS
<1>2. /\ IsTx(b) /\ b.ver = 1 /\ b.type = "tp" /\ b.proof \in {"nil", "ProofV1"}
      /\ b.sig = HashVer1(b)
      /\ IsTx(sub) /\ sub.ver = 1 /\ sub.type = "n"
      /\ sub.proof \in {"nil", "ProofV1"} /\ sub.sig = HashVer1(sub)
      BY <1>1 DEF TokenSigned1, Signed1
<1>3. UnmarshalTxBase(b) = b /\ UnmarshalTxBase(sub) = sub
      BY <1>2, PartReads
<1>4. ~Failed(b) /\ ~Failed(sub)
      BY <1>2 DEF Failed
<1>5. PICK j : j = MarshalJSON(t)
      OBVIOUS
<1>6. j.version = {1} /\ j.token = HasData(t) /\ j.base = b /\ j.data = d
      BY <1>1, <1>2, <1>5 DEF MarshalJSON
<1>7. CASE HasData(t)
  <2>1. j.version = {1} /\ j.token = TRUE
        BY <1>6, <1>7
  <2>2. DeserializeTransactionJSON(j) = UnmarshalTokenVer1(j)
        BY <2>1 DEF DeserializeTransactionJSON
  <2>3. PICK r : r = [d EXCEPT !.sub = sub]
        OBVIOUS
  <2>4. r = d
        BY <1>1, <2>3 DEF TokenSigned1, IsData
  <2>5. d.sub = sub
        BY <1>1
  <2>6. UnmarshalTokenVer1(j) = Whole(b, r)
        BY <1>3, <1>4, <1>6, <2>3, <2>5 DEF UnmarshalTokenVer1
  <2>7. t = Whole(b, d)
        BY <1>1 DEF TokenSigned1, IsWhole
  <2>8. DeserializeTransactionJSON(j) = t
        BY <2>2, <2>4, <2>6, <2>7
  <2>9. t.ver = b.ver
        BY <2>7 DEF Whole
  <2>10. Parts(t) = <<b, sub>>
        BY <1>1, <1>7 DEF Parts
  <2>11. \A n \in DOMAIN Parts(t) : Parts(t)[n].sig = HashVer1(Parts(t)[n])
        BY <1>2, <2>10
  <2>12. ReadsAs(t, t)
        BY <1>1, <1>2, <2>9, <2>11 DEF ReadsAs, Failed
  <2> QED
      BY <1>5, <2>8, <2>12 DEF ReadsBack
<1>8. CASE ~HasData(t)
  <2>1. j.version = {1} /\ j.token = FALSE
        BY <1>6, <1>8
  <2>2. PICK r : r = Whole(b, NoData)
        OBVIOUS
  <2>3. DeserializeTransactionJSON(j) = r
        BY <1>3, <1>4, <1>6, <2>1, <2>2 DEF DeserializeTransactionJSON
  <2>4. r.base = b /\ r.ver = 1 /\ ~HasData(r)
        BY <1>2, <2>2 DEF Whole, HasData, NoData
  <2>5. Parts(r) = <<b>>
        BY <2>4 DEF Parts
  <2>6. \A n \in DOMAIN Parts(r) : Parts(r)[n].sig = HashVer1(Parts(r)[n])
        BY <1>2, <2>5
  <2>7. ReadsAs(t, r)
        BY <1>1, <1>2, <1>8, <2>4, <2>6 DEF ReadsAs, Failed
  <2> QED
      BY <1>5, <2>3, <2>7 DEF ReadsBack
<1> QED
    BY <1>7, <1>8

\* What a reader makes of the token part.
LEMMA TokenPartReads ==
    ASSUME NEW x, NEW n, n = GetTxNormal(x)
    PROVE  /\ n.ins = x.data.sub.ins /\ n.outs = x.data.sub.outs
           /\ n.sig = x.data.sub.sig
           /\ HashVer2(n) = <<x.base.ver, x.base.type, x.base.lock, 0,
                              x.data.sub.ins, x.data.sub.outs, NoMetadata, <<>>>>
<1>1. PICK sub : sub = x.data.sub
      OBVIOUS
<1>2. PICK t : t = MakeTxToken(x.base)
      OBVIOUS
<1>3. /\ IsTx(t) /\ t.ver = x.base.ver /\ t.type = x.base.type
      /\ t.lock = x.base.lock /\ t.fee = 0 /\ t.md = NoMetadata /\ t.mdSig = <<>>
      BY <1>2, TokenPartIsTx
<1>4. PICK t1 : t1 = [t EXCEPT !.proof = sub.proof]
      OBVIOUS
<1>5. PICK t2 : t2 = [t1 EXCEPT !.ins = sub.ins]
      OBVIOUS
<1>6. PICK t3 : t3 = [t2 EXCEPT !.outs = sub.outs]
      OBVIOUS
<1>7. PICK t4 : t4 = [t3 EXCEPT !.sig = sub.sig]
      OBVIOUS
<1>8. n = t4
      BY <1>1, <1>2, <1>4, <1>5, <1>6, <1>7 DEF GetTxNormal
<1>9. SetTo(t, t1, "proof", sub.proof)
      BY <1>3, <1>4, FieldSet
<1>10. SetTo(t1, t2, "ins", sub.ins)
      BY <1>5, <1>9, FieldSet, SetIsTx
<1>11. SetTo(t2, t3, "outs", sub.outs)
      BY <1>6, <1>10, FieldSet, SetIsTx
<1>12. SetTo(t3, t4, "sig", sub.sig)
      BY <1>7, <1>11, FieldSet, SetIsTx
<1>13. /\ t4.ver = x.base.ver /\ t4.type = x.base.type /\ t4.lock = x.base.lock
       /\ t4.fee = 0 /\ t4.md = NoMetadata /\ t4.mdSig = <<>>
       /\ t4.ins = sub.ins /\ t4.outs = sub.outs /\ t4.sig = sub.sig
      BY <1>3, <1>9, <1>10, <1>11, <1>12 DEF SetTo
<1> QED
    BY <1>1, <1>8, <1>13 DEF HashVer2

\* A version 2 token transaction, or a token conversion.
LEMMA TokenVersion2Reads ==
    ASSUME NEW t, SignedWithToken(t), t.base.ver = 2, t.data.kind = "transfer",
           PartSigned(t.data.sub, t.base),
           \/ t.base.type = "tp" /\ t.data.sub.proof = "ProofV2"
           \/ t.base.type = "tcv" /\ t.data.sub.proof = "ProofForConversion"
    PROVE  ReadsBack(t)
<1>1. PICK b, d, sub : b = t.base /\ d = t.data /\ sub = t.data.sub
      OBVIOUS
<1>2. /\ IsTx(b) /\ b.proof = "ProofV2" /\ MetadataSigned(b)
      /\ b.sig = <<HashVer2(b), TokenDataHash(d)>>
      BY <1>1 DEF SignedWithToken
<1>3. UnmarshalTxBase(b) = b /\ ~Failed(b)
      BY <1>1, <1>2, PartReads DEF Failed
<1>4. PICK j : j = MarshalJSON(t)
      OBVIOUS
<1>5. j.version = {} /\ j.token = TRUE /\ j.base = b /\ j.data = d
  <2>1. HasData(t) = TRUE
        BY DEF HasData
  <2>2. j = [version |-> {}, token |-> TRUE, base |-> b, data |-> d]
        BY <1>1, <1>4, <2>1 DEF MarshalJSON
  <2> QED
      BY <2>2
<1>6. DeserializeTransactionJSON(j) = UnmarshalTokenVer2(j)
  <2>1. {} # {1} /\ {} # {2}
        OBVIOUS
  <2> QED
      BY <1>5, <2>1 DEF DeserializeTransactionJSON
<1>7. PICK x : x = [base |-> b, data |-> d]
      OBVIOUS
<1>8. PICK n : n = GetTxNormal(x)
      OBVIOUS
<1>9. PICK e : e = [d EXCEPT !.sub = n]
      OBVIOUS
<1>10. sub.proof = TokenProofType(b)
      BY <1>1 DEF TokenProofType, ConversionVersion
<1>11. UnmarshalTokenVer2(j) = Whole(b, e)
      BY <1>1, <1>3, <1>5, <1>7, <1>8, <1>9, <1>10 DEF UnmarshalTokenVer2
<1>12. e.id = d.id /\ e.kind = d.kind /\ e.sub = n
      BY <1>1, <1>9 DEF SignedWithToken, IsData
<1>13. PICK r : r = Whole(b, e)
      OBVIOUS
<1>14. r.base = b /\ r.data = e /\ r.ver = 2
      BY <1>1, <1>13 DEF Whole
<1>15. x.base = b /\ x.data = d
      BY <1>7
<1>16. /\ n.ins = sub.ins /\ n.outs = sub.outs /\ n.sig = sub.sig
       /\ HashVer2(n) = <<b.ver, b.type, b.lock, 0, sub.ins, sub.outs,
                          NoMetadata, <<>>>>
  <2>1. /\ n.ins = x.data.sub.ins /\ n.outs = x.data.sub.outs
        /\ n.sig = x.data.sub.sig
        /\ HashVer2(n) = <<x.base.ver, x.base.type, x.base.lock, 0,
                           x.data.sub.ins, x.data.sub.outs, NoMetadata, <<>>>>
        BY <1>8, TokenPartReads, Zenon
  <2>2. x.base = b /\ x.data.sub = sub
        BY <1>1, <1>15
  <2> QED
      BY <2>1, <2>2
<1>17. n.sig = HashVer2(n)
      BY <1>1, <1>16 DEF PartSigned
<1>18. TokenDataHash(e) = TokenDataHash(d)
  <2>1. e.sub.ins = d.sub.ins /\ e.sub.outs = d.sub.outs
        BY <1>1, <1>12, <1>16
  <2> QED
      BY <1>12, <2>1 DEF TokenDataHash
<1>19. HasData(t) /\ HasData(r)
      BY <1>1, <1>12, <1>14 DEF HasData
<1>20. ReadsAs(t, r)
      BY <1>1, <1>2, <1>12, <1>14, <1>17, <1>18, <1>19
         DEF ReadsAs, Failed, MetadataSigned
<1> QED
    BY <1>4, <1>6, <1>11, <1>13, <1>20 DEF ReadsBack

\* The inputs of a version 2 transfer make a version 2 transaction.
LEMMA InputsOfVersion2 ==
    ASSUME InputsInv, Transfers, version = 2, NEW a
    PROVE  GetTxVersionFromCoins(Inputs(a).coins) = 2
<1>1. PICK coins : coins = Inputs(a).coins
      OBVIOUS
<1>2. PICK versions : versions = {c.ver : c \in ToSet(coins)}
      OBVIOUS
<1>3. \A k \in DOMAIN coins : coins[k].ver = 2
  <2>1. CASE a \in DOMAIN sel
    <3>1. GoodInputs(a, sel[a])
          BY <2>1 DEF InputsInv
    <3> QED
        BY <1>1, <2>1, <3>1 DEF GoodInputs, Inputs
  <2>2. CASE a \notin DOMAIN sel
        BY <1>1, <2>2 DEF Inputs
  <2> QED
      BY <2>1, <2>2
<1>4. \A v \in versions : v = 2
      BY <1>2, <1>3 DEF ToSet
<1>5. versions = {} \/ versions = {2}
      BY <1>4
<1>6. {} # {1} /\ {} # {2} /\ {1} # {2}
      OBVIOUS
<1> QED
    BY <1>1, <1>2, <1>5, <1>6 DEF GetTxVersionFromCoins

\* Every transaction that is made can be read back.
LEMMA BuiltReads ==
    ASSUME BuildInv, AttemptInv, InputsInv, stage = "init", NEW pi,
           NEW t, t = BuildTx(pi), ~Failed(t)
    PROVE  ReadsBack(t)
<1>1. /\ IsParams(PRVParams) /\ PRVParams.pays \in Payments
      /\ PRVParams.ins = Inputs(PRV).coins
      /\ IsParams(TokenParams) /\ TokenParams.md = NoMetadata
      /\ version # 1 => TokenParams.fee = 0
      /\ TokenParams.ins = Inputs(call.tok.asset).coins
      BY ParamsShape DEF BuildInv, CallInv
<1>2. call.route \in {"token", "tokenConvert"} => TokenParams.pays \in Payments
      BY ParamsTyped
<1>3. Transfers => version \in {1, 2}
      BY DEF BuildInv, VersionInv
<1>4. ~Transfers => version = 2
      BY DEF AttemptInv
<1>5. Failed(NoTx)
      BY DEF Failed, NoTx
<1>6. CASE call.route = "prv" /\ version = 1
  <2>1. PICK s : s = InitVer1(PRVParams)
        OBVIOUS
  <2>2. t = Plain(s)
        BY <1>6, <2>1 DEF BuildTx, CreateVer1
  <2>3. ~Failed(s) /\ t = Whole(s, NoData)
        BY <1>5, <2>2 DEF Plain
  <2>4. Signed1(s) /\ s.type = "n"
        BY <1>1, <2>1, <2>3, Version1Coins
  <2>5. /\ IsTx(s) /\ s.ver = 1 /\ s.proof \in {"nil", "ProofV1"}
        /\ s.sig = HashVer1(s)
        BY <2>4 DEF Signed1
  <2>6. UnmarshalTxBase(s) = s
        BY <2>4, <2>5, PartReads
  <2> QED
      BY <2>3, <2>5, <2>6, PlainReads
<1>7. CASE call.route = "prv" /\ version = 2
  <2>1. PICK s : s = InitVer2(PRVParams, pi)
        OBVIOUS
  <2>2. t = Plain(s)
        BY <1>7, <2>1 DEF BuildTx, CreateVer2
  <2>3. ~Failed(s) /\ t = Whole(s, NoData)
        BY <1>5, <2>2 DEF Plain
  <2>4. PRVParams.ins # <<>> /\ GetTxVersionFromCoins(PRVParams.ins) = 2
        BY <1>1, <1>7, PRVHasInputs, InputsOfVersion2 DEF Transfers
  <2>5. /\ IsTx(s) /\ s.ver = 2 /\ s.type = "n" /\ s.proof = "ProofV2"
        /\ MetadataSigned(s) /\ s.sig = HashVer2(s)
        BY <1>1, <2>1, <2>3, <2>4, Version2Coins
  <2>6. UnmarshalTxBase(s) = s
        BY <2>5, PartReads
  <2> QED
      BY <2>3, <2>5, <2>6, PlainReads
<1>8. CASE call.route = "token" /\ version = 1
  <2>1. t = InitTokenVer1(PRVParams, TokenParams)
        BY <1>8 DEF BuildTx, CreateTokenVer1
  <2>2. TokenSigned1(InitTokenVer1(PRVParams, TokenParams))
        BY <1>1, <1>2, <1>8, <2>1, TokenVersion1Coins
  <2> QED
      BY <2>1, <2>2, TokenVersion1Reads
<1>9. CASE call.route = "token" /\ version = 2
  <2>1. t = InitTokenVer2(PRVParams, TokenParams, pi)
        BY <1>9 DEF BuildTx, CreateTokenVer2
  <2>2. /\ GetTxVersionFromCoins(PRVParams.ins) = 2
        /\ GetTxVersionFromCoins(TokenParams.ins) = 2
        /\ TokenParams.pays \in Payments /\ TokenParams.fee = 0
        BY <1>1, <1>2, <1>9, InputsOfVersion2 DEF Transfers
  <2>3. /\ t.data.kind = "transfer" /\ t.base.ver = 2
        /\ t.base.type = "tp" /\ SignedWithToken(t)
        /\ t.data.sub.proof = "ProofV2" /\ PartSigned(t.data.sub, t.base)
        BY <1>1, <2>1, <2>2, TokenVersion2Coins
  <2> QED
      BY <2>3, TokenVersion2Reads
<1>10. CASE call.route = "convert"
  <2>1. PICK p : p = [PRVParams EXCEPT
                         !.pays = ToSelf(Wrap(Values(PRVParams.ins) - fee))]
        OBVIOUS
  <2>2. PICK s : s = InitConversion(p)
        OBVIOUS
  <2>3. t = Plain(s)
        BY <1>10, <2>1, <2>2 DEF BuildTx, CreateConversion
  <2>4. ~Failed(s) /\ t = Whole(s, NoData)
        BY <1>5, <2>3 DEF Plain
  <2>5. /\ IsTx(s) /\ s.ver = 2 /\ s.type = "cv"
        /\ s.proof = "ProofForConversion" /\ s.mdSig = <<>>
        /\ s.sig = HashVer2(s)
        BY <2>2, <2>4, ConversionCoins
  <2>6. UnmarshalTxBase(s) = s /\ MetadataSigned(s)
        BY <2>5, PartReads DEF MetadataSigned
  <2> QED
      BY <2>4, <2>5, <2>6, PlainReads
<1>11. CASE call.route = "tokenConvert"
  <2>1. PICK p : p = [TokenParams EXCEPT
                         !.pays = ToSelf(Wrap(Values(TokenParams.ins)))]
        OBVIOUS
  <2>2. t = InitTokenConversion(PRVParams, p, pi)
        BY <1>11, <2>1 DEF BuildTx, CreateTokenConversion
  <2>3. p.fee = 0 /\ p.md = NoMetadata
        BY <1>1, <1>4, <1>11, <2>1 DEF IsParams, Transfers
  <2>4. /\ t.data.kind = "transfer" /\ t.base.ver = 2
        /\ t.base.type = "tcv" /\ SignedWithToken(t)
        /\ t.data.sub.proof = "ProofForConversion"
        /\ PartSigned(t.data.sub, t.base)
        BY <1>1, <2>2, <2>3, TokenConversionCoins
  <2> QED
      BY <2>4, TokenVersion2Reads
<1> QED
    BY <1>3, <1>6, <1>7, <1>8, <1>9, <1>10, <1>11
       DEF BuildInv, CallInv, CallOK, Transfers

\* Every step preserves SignaturesReadBack.
LEMMA ReadBackStep ==
    /\ BuildInv /\ AttemptInv /\ InputsInv /\ SignaturesReadBack
    /\ [TxNext]_txVars
    => SignaturesReadBack'
<1> SUFFICES ASSUME BuildInv, AttemptInv, InputsInv, SignaturesReadBack,
                    [TxNext]_txVars
             PROVE  SignaturesReadBack'
    OBVIOUS
<1>1. SignaturesReadBack <=> (Built => ReadsBack(tx))
      BY DEF SignaturesReadBack, ReadsBack, ReadsAs
<1>2. SignaturesReadBack' <=> (Built' => ReadsBack(tx'))
      BY DEF SignaturesReadBack, ReadsBack, ReadsAs
<1>3. CASE InitTx
  <2>1. PICK pi : IF Failed(BuildTx(pi)) THEN FallBackOrFail
                  ELSE tx' = BuildTx(pi)
        BY <1>3 DEF InitTx
  <2>2. CASE FallBackOrFail
        BY <1>2, <2>2 DEF FallBackOrFail, Built
  <2>3. CASE ~Failed(BuildTx(pi)) /\ tx' = BuildTx(pi)
        BY <1>2, <1>3, <2>3, BuiltReads DEF InitTx
  <2> QED
      BY <2>1, <2>2, <2>3
<1>4. CASE ~InitTx
  <2>1. \/ stage' \notin {"send", "ok"}
        \/ stage \in {"send", "ok"} /\ tx' = tx
        BY <1>4, BuiltStays
  <2> QED
      BY <1>1, <1>2, <2>1 DEF Built, Failed
<1> QED
    BY <1>3, <1>4

\* Every transaction the builder makes, for every request, account and choice
\* of coins, is read back from its JSON as it was sent, and every signature
\* verifies on what is read: no field that a hash covers is assigned after the
\* hash was signed, and the token part is signed as a reader rebuilds it.
THEOREM SentIsReadBack == TxSpec => []SignaturesReadBack
<1>1. TxInit => InputsInv /\ SignaturesReadBack
      BY DEF TxInit, InputsInv, SignaturesReadBack, Built, NoSel
<1> QED
    BY <1>1, BuildInvInit, BuildInvStep, SelectionInit, SelectionStep,
       AttemptStep, InputsStep, ReadBackStep, PTL DEF TxSpec

-----------------------------------------------------------------------------
(* Rings                                                                   *)

\* Products grow with their factor.
LEMMA ProductGrows ==
    ASSUME NEW m \in Nat, NEW x \in Nat, NEW y \in Nat, x < y
    PROVE  /\ x * m \in Nat /\ y * m \in Nat /\ x * m + m <= y * m
           /\ (x + 1) * m = x * m + m
<1>1. PICK d \in Nat : y = x + 1 + d
  <2>1. y - x - 1 \in Nat /\ y = x + 1 + (y - x - 1)
        OBVIOUS
  <2> QED
      BY <2>1
<1>2. d * m \in Nat /\ x * m \in Nat /\ y * m \in Nat
      BY ProductIsNat
<1>3. y * m = x * m + m + d * m
      BY <1>1
<1>4. (x + 1) * m = x * m + m
      OBVIOUS
<1> QED
    BY <1>2, <1>3, <1>4

\* The row of n decoys after b others, and what it holds.
RowOf(d, b, n) == SubSeq(d, b * n + 1, (b + 1) * n)
HoldsDecoys(row, b, n) ==
    DOMAIN row = 1..n /\ \A k \in 1..n : row[k] = MaxOwnIndex + (b * n + k)

\* A row of decoys: n consecutive ones.
LEMMA DecoyRow ==
    ASSUME NEW n \in Nat, NEW b \in Nat, b < RingSize - 1,
           NEW d, d \in {<<>>, Decoys(n)}, Len(d) >= n * (RingSize - 1),
           NEW row, row = RowOf(d, b, n)
    PROVE  HoldsDecoys(row, b, n)
<1>1. PICK m \in Nat : m = RingSize - 1
      BY CallsAssumption
<1>2. PICK x \in Nat : x = b * n /\ (b + 1) * n = x + n /\ x + n <= m * n /\ m * n \in Nat
      BY <1>1, ProductGrows
<1>3. n * (RingSize - 1) = m * n
      BY <1>1
<1>4. CASE d = <<>>
  <2>1. Len(d) = 0
        BY <1>4
  <2>2. n = 0 /\ x = 0
        BY <1>2, <1>3, <2>1
  <2>3. row = SubSeq(<<>>, 1, 0)
        BY <1>2, <1>4, <2>2 DEF RowOf
  <2>4. DOMAIN row = 1..0
        BY <2>3
  <2> QED
      BY <2>2, <2>4 DEF HoldsDecoys
<1>5. CASE d = Decoys(n)
  <2>1. d = [k \in 1..(m * n) |-> MaxOwnIndex + k]
        BY <1>3, <1>5 DEF Decoys
  <2>2. d \in Seq(Nat) /\ Len(d) = m * n
        BY <1>2, <2>1 DEF MaxOwnIndex
  <2>3. row = SubSeq(d, x + 1, x + n)
        BY <1>2 DEF RowOf
  <2>4. DOMAIN row = 1..n /\ \A k \in 1..n : row[k] = d[x + k]
        BY <1>2, <2>2, <2>3
  <2>5. \A k \in 1..n : x + k \in 1..(m * n)
        BY <1>2
  <2> QED
      BY <1>2, <2>1, <2>4, <2>5 DEF HoldsDecoys
<1> QED
    BY <1>4, <1>5

\* A ring made with an account's own coins and their indices holds them in its
\* secret row, and no coin twice.
LEMMA MadeRingIsSound ==
    ASSUME NEW p, OwnCoins(p.ins), p.mine \in {<<>>, IndexesOf(p.ins)},
           p.decoys \in {<<>>, Decoys(Len(p.ins))},
           NEW pi \in 1..RingSize, NEW t, t.ins = p.ins, RingMade(t, p, pi)
    PROVE  RingNames(t) /\ CellsDiffer(t.ring.rows)
<1>1. PICK n \in Nat : n = Len(p.ins) /\ DOMAIN p.ins = 1..n
      BY DEF OwnCoins
<1>2. Len(p.mine) = n /\ Len(p.decoys) >= n * (RingSize - 1)
      BY <1>1 DEF RingMade, RingParamsOK
<1>3. p.mine = IndexesOf(p.ins)
  <2>1. CASE p.mine = <<>>
    <3>1. n = 0
          BY <1>2, <2>1
    <3>2. IndexesOf(p.ins) = [k \in 1..0 |-> p.ins[k].idx]
          BY <1>1, <3>1 DEF IndexesOf
    <3>3. [k \in 1..0 |-> p.ins[k].idx] = <<>>
          OBVIOUS
    <3> QED
        BY <2>1, <3>2, <3>3
  <2> QED
      BY <2>1
<1>4. PICK mine : /\ mine = p.mine /\ DOMAIN mine = 1..n
                  /\ \A k \in 1..n : mine[k] = p.ins[k].idx
      BY <1>1, <1>3 DEF IndexesOf
<1>5. /\ \A k \in 1..n : mine[k] \in Nat /\ mine[k] <= MaxOwnIndex
      /\ \A k, m \in 1..n : k # m => mine[k] # mine[m]
  <2>1. \A k \in 1..n : p.ins[k] \in CoinType
        BY <1>1 DEF OwnCoins
  <2>2. \A k \in 1..n : p.ins[k].idx \in Nat
        BY <2>1 DEF CoinType
  <2> QED
      BY SMTT(40), <1>1, <1>4, <2>2 DEF OwnCoins
<1>6. PICK rows : rows = t.ring.rows
      OBVIOUS
<1>7. PICK before : before = [r \in 1..RingSize |-> (r - 1) - (IF r > pi THEN 1 ELSE 0)]
      OBVIOUS
<1>8. /\ t.ring.pi = pi /\ DOMAIN rows = 1..RingSize /\ rows[pi] = mine
      /\ \A r \in 1..RingSize : r # pi =>
            rows[r] = RowOf(p.decoys, before[r], n)
  <2>1. PICK f : f = [r \in 1..RingSize |->
                         IF r = pi THEN mine ELSE RowOf(p.decoys, before[r], n)]
        OBVIOUS
  <2>2. t.ring = [pi |-> pi, rows |-> f]
    <3>1. t.ring = GenerateRing(p, pi)
          BY DEF RingMade
    <3> QED
        BY <1>1, <1>4, <1>7, <2>1, <3>1 DEF GenerateRing, RowOf
  <2>3. t.ring.pi = pi /\ rows = f
        BY <1>6, <2>2
  <2> QED
      BY <2>1, <2>3
<1>9. /\ \A r \in 1..RingSize : r # pi =>
            before[r] \in Nat /\ before[r] < RingSize - 1
      /\ \A r, s \in 1..RingSize : r # pi /\ s # pi /\ before[r] = before[s] => r = s
  <2>1. RingSize \in Nat \ {0}
        BY CallsAssumption
  <2> QED
      BY <1>7, <2>1
<1>10. ASSUME NEW r \in 1..RingSize, r # pi
       PROVE  /\ DOMAIN rows[r] = 1..n
              /\ \A k \in 1..n : rows[r][k] = MaxOwnIndex + (before[r] * n + k)
  <2>1. PICK b \in Nat : b = before[r] /\ b < RingSize - 1
        BY <1>9, <1>10
  <2>2. PICK row : row = rows[r]
        OBVIOUS
  <2>3. PICK d : d = p.decoys /\ d \in {<<>>, Decoys(n)} /\ Len(d) >= n * (RingSize - 1)
        BY <1>1, <1>2
  <2>4. row = RowOf(d, b, n)
        BY <1>8, <1>10, <2>1, <2>2, <2>3
  <2>5. HoldsDecoys(row, b, n)
        BY <2>1, <2>3, <2>4, DecoyRow
  <2> QED
      BY <2>1, <2>2, <2>5 DEF HoldsDecoys
<1>11. \A r \in 1..RingSize : DOMAIN rows[r] = 1..n
      BY <1>4, <1>8, <1>10
<1>12. ASSUME NEW r \in 1..RingSize, r # pi, NEW k \in 1..n
       PROVE  rows[r][k] \in Nat /\ rows[r][k] > MaxOwnIndex
  <2>1. PICK x \in Nat : x = before[r] * n
        BY <1>9, <1>12, ProductIsNat
  <2>2. rows[r][k] = MaxOwnIndex + (x + k)
        BY <1>10, <1>12, <2>1
  <2> QED
      BY <2>1, <2>2 DEF MaxOwnIndex
<1>13. ASSUME NEW r1 \in 1..RingSize, NEW r2 \in 1..RingSize, r1 # pi, r2 # pi,
              NEW k1 \in 1..n, NEW k2 \in 1..n, rows[r1][k1] = rows[r2][k2]
       PROVE  r1 = r2 /\ k1 = k2
  <2>1. PICK b1 \in Nat, b2 \in Nat : b1 = before[r1] /\ b2 = before[r2]
        BY <1>9, <1>13
  <2>2. PICK x1 \in Nat, x2 \in Nat : x1 = b1 * n /\ x2 = b2 * n
        BY <2>1, ProductIsNat
  <2>3. x1 + k1 = x2 + k2
    <3>1. /\ rows[r1][k1] = MaxOwnIndex + (before[r1] * n + k1)
          /\ rows[r2][k2] = MaxOwnIndex + (before[r2] * n + k2)
          BY <1>10, <1>13
    <3>2. /\ rows[r1][k1] = MaxOwnIndex + (x1 + k1)
          /\ rows[r2][k2] = MaxOwnIndex + (x2 + k2)
          BY <2>1, <2>2, <3>1
    <3>3. MaxOwnIndex + (x1 + k1) = MaxOwnIndex + (x2 + k2)
          BY <1>13, <3>2
    <3> QED
        BY <3>3 DEF MaxOwnIndex
  <2>4. ~(b1 < b2) /\ ~(b2 < b1)
    <3>1. b1 < b2 => x1 + n <= x2
          BY <2>2, ProductGrows
    <3>2. b2 < b1 => x2 + n <= x1
          BY <2>2, ProductGrows
    <3> QED
        BY <2>2, <2>3, <3>1, <3>2
  <2>5. b1 = b2
        BY <2>4
  <2>6. x1 = x2
        BY <2>2, <2>5
  <2>7. k1 = k2
        BY <2>3, <2>6
  <2> QED
      BY <1>9, <1>13, <2>1, <2>5, <2>7
<1>14. RingNames(t)
      BY <1>3, <1>4, <1>6, <1>8 DEF RingNames
<1>15. CellsDiffer(rows)
  <2> SUFFICES ASSUME NEW r1 \in 1..RingSize, NEW r2 \in 1..RingSize,
                      NEW k1 \in 1..n, NEW k2 \in 1..n, rows[r1][k1] = rows[r2][k2]
               PROVE  r1 = r2 /\ k1 = k2
      BY <1>8, <1>11 DEF CellsDiffer
  <2>1. CASE r1 # pi /\ r2 # pi
        BY <1>13, <2>1
  <2>2. CASE r1 = pi /\ r2 = pi
        BY <1>5, <1>8, <2>2
  <2>3. CASE r1 = pi /\ r2 # pi
    <3>1. rows[r2][k2] \in Nat /\ rows[r2][k2] > MaxOwnIndex
          BY <1>12, <2>3
    <3>2. rows[r1][k1] \in Nat /\ rows[r1][k1] <= MaxOwnIndex
          BY <1>5, <1>8, <2>3
    <3> QED
        BY <3>1, <3>2 DEF MaxOwnIndex
  <2>4. CASE r1 # pi /\ r2 = pi
    <3>1. rows[r1][k1] \in Nat /\ rows[r1][k1] > MaxOwnIndex
          BY <1>12, <2>4
    <3>2. rows[r2][k2] \in Nat /\ rows[r2][k2] <= MaxOwnIndex
          BY <1>5, <1>8, <2>4
    <3> QED
        BY <3>1, <3>2 DEF MaxOwnIndex
  <2> QED
      BY <2>1, <2>2, <2>3, <2>4
<1> QED
    BY <1>6, <1>14, <1>15

\* The ring of a part that spends coins of the asset a.
RingSound(t, a) ==
    t.ring.pi > 0 /\ Decrypts(a) => RingNames(t) /\ CellsDiffer(t.ring.rows)

\* A part without a ring.
LEMMA NoRingIsSound ==
    ASSUME NEW t, t.ring = NoRing, NEW a PROVE RingSound(t, a)
BY DEF RingSound, NoRing

\* A part whose ring was made with the inputs prepared for its asset.
LEMMA PreparedRingIsSound ==
    ASSUME InputsInv, version = 2, NEW a, NEW p,
           p.ins = Inputs(a).coins, p.mine = Inputs(a).mine,
           p.decoys = Inputs(a).decoys,
           NEW pi \in 1..RingSize, NEW t, t.ins = p.ins, RingMade(t, p, pi)
    PROVE  RingSound(t, a)
<1> SUFFICES ASSUME Decrypts(a) PROVE RingNames(t) /\ CellsDiffer(t.ring.rows)
    BY DEF RingSound
<1>1. /\ OwnCoins(Inputs(a).coins)
      /\ Inputs(a).mine \in {<<>>, IndexesOf(Inputs(a).coins)}
      /\ Inputs(a).decoys \in {<<>>, Decoys(Len(Inputs(a).coins))}
  <2>1. CASE a \in DOMAIN sel
    <3>1. GoodInputs(a, sel[a])
          BY <2>1 DEF InputsInv
    <3>2. Inputs(a) = sel[a]
          BY <2>1 DEF Inputs
    <3> QED
        BY <3>1, <3>2 DEF GoodInputs
  <2>2. CASE a \notin DOMAIN sel
    <3>1. /\ Inputs(a).coins = <<>> /\ Inputs(a).mine = <<>>
          /\ Inputs(a).decoys = <<>>
          BY <2>2 DEF Inputs
    <3>2. OwnCoins(<<>>)
          BY DEF OwnCoins
    <3> QED
        BY <3>1, <3>2
  <2> QED
      BY <2>1, <2>2
<1>2. /\ OwnCoins(p.ins) /\ p.mine \in {<<>>, IndexesOf(p.ins)}
      /\ p.decoys \in {<<>>, Decoys(Len(p.ins))}
      BY <1>1
<1> QED
    BY <1>2, MadeRingIsSound

\* Both parts of every transaction that is made.
LEMMA BuiltRings ==
    ASSUME BuildInv, AttemptInv, InputsInv, stage = "init", NEW pi \in 1..RingSize,
           NEW t, t = BuildTx(pi), ~Failed(t)
    PROVE  /\ RingSound(t.base, PRV)
           /\ HasData(t) => RingSound(t.data.sub, call.tok.asset)
<1>1. /\ IsParams(PRVParams) /\ PRVParams.pays \in Payments
      /\ PRVParams.ins = Inputs(PRV).coins
      /\ IsParams(TokenParams) /\ TokenParams.md = NoMetadata
      /\ version # 1 => TokenParams.fee = 0
      /\ TokenParams.ins = Inputs(call.tok.asset).coins
      BY ParamsShape DEF BuildInv, CallInv
<1>2. /\ PRVParams.mine = Inputs(PRV).mine
      /\ PRVParams.decoys = Inputs(PRV).decoys
      /\ TokenParams.mine = Inputs(call.tok.asset).mine
      /\ TokenParams.decoys = Inputs(call.tok.asset).decoys
      BY DEF PRVParams, TokenParams, Params
<1>3. call.route \in {"token", "tokenConvert"} => TokenParams.pays \in Payments
      BY ParamsTyped
<1>4. /\ Transfers => version \in {1, 2}
      /\ ~Transfers => version = 2
      BY DEF BuildInv, VersionInv, AttemptInv
<1>5. Failed(NoTx) /\ ~HasData(Whole(NoTx, NoData))
      BY DEF Failed, NoTx, HasData, Whole, NoData
<1>6. \A s : t = Plain(s) => ~Failed(s) /\ t.base = s /\ ~HasData(t)
      BY <1>5 DEF Plain, Whole, HasData, NoData
<1>7. CASE call.route = "prv" /\ version = 1
  <2>1. PICK s : s = InitVer1(PRVParams)
        OBVIOUS
  <2>2. ~Failed(s) /\ t.base = s /\ ~HasData(t)
        BY <1>6, <1>7, <2>1 DEF BuildTx, CreateVer1
  <2>3. s.ring = NoRing
        BY <1>1, <2>1, <2>2, Version1Coins DEF Signed1
  <2> QED
      BY <2>2, <2>3, NoRingIsSound
<1>8. CASE call.route = "prv" /\ version = 2
  <2>1. PICK s : s = InitVer2(PRVParams, pi)
        OBVIOUS
  <2>2. ~Failed(s) /\ t.base = s /\ ~HasData(t)
        BY <1>6, <1>8, <2>1 DEF BuildTx, CreateVer2
  <2>3. PRVParams.ins # <<>>
        BY <1>8, PRVHasInputs
  <2>4. s.ins = PRVParams.ins /\ RingMade(s, PRVParams, pi)
        BY <1>1, <2>1, <2>2, <2>3, Version2Coins
  <2>5. RingSound(s, PRV)
        BY <1>1, <1>2, <1>8, <2>4, PreparedRingIsSound
  <2> QED
      BY <2>2, <2>5
<1>9. CASE call.route = "token" /\ version = 1
  <2>1. t = InitTokenVer1(PRVParams, TokenParams)
        BY <1>9 DEF BuildTx, CreateTokenVer1
  <2>2. TokenSigned1(InitTokenVer1(PRVParams, TokenParams))
        BY <1>1, <1>3, <1>9, <2>1, TokenVersion1Coins
  <2>3. t.base.ring = NoRing /\ t.data.sub.ring = NoRing
        BY <2>1, <2>2 DEF TokenSigned1, Signed1
  <2> QED
      BY <2>3, NoRingIsSound
<1>10. CASE call.route = "token" /\ version = 2
  <2>1. t = InitTokenVer2(PRVParams, TokenParams, pi)
        BY <1>10 DEF BuildTx, CreateTokenVer2
  <2>2. TokenParams.pays \in Payments /\ TokenParams.fee = 0
        BY <1>1, <1>3, <1>10
  <2>3. PICK base, sub : base = t.base /\ sub = t.data.sub
        OBVIOUS
  <2>4. /\ HoldsPayments(base, PRVParams) /\ RingMade(base, PRVParams, pi)
        /\ HoldsPayments(sub, TokenParams) /\ RingMade(sub, TokenParams, pi)
        BY <1>1, <2>1, <2>2, <2>3, TokenVersion2Coins
  <2>5. base.ins = PRVParams.ins /\ sub.ins = TokenParams.ins
        BY <2>4 DEF HoldsPayments
  <2>6. RingSound(base, PRV)
        BY <1>1, <1>2, <1>10, <2>4, <2>5, PreparedRingIsSound
  <2>7. RingSound(sub, call.tok.asset)
        BY <1>1, <1>2, <1>10, <2>4, <2>5, PreparedRingIsSound
  <2> QED
      BY <2>3, <2>6, <2>7
<1>11. CASE call.route = "convert"
  <2>1. PICK p : p = [PRVParams EXCEPT
                         !.pays = ToSelf(Wrap(Values(PRVParams.ins) - fee))]
        OBVIOUS
  <2>2. PICK s : s = InitConversion(p)
        OBVIOUS
  <2>3. ~Failed(s) /\ t.base = s /\ ~HasData(t)
        BY <1>6, <1>11, <2>1, <2>2 DEF BuildTx, CreateConversion
  <2>4. s.ring = NoRing
        BY <2>2, <2>3, ConversionCoins
  <2> QED
      BY <2>3, <2>4, NoRingIsSound
<1>12. CASE call.route = "tokenConvert"
  <2>1. PICK p : p = [TokenParams EXCEPT
                         !.pays = ToSelf(Wrap(Values(TokenParams.ins)))]
        OBVIOUS
  <2>2. t = InitTokenConversion(PRVParams, p, pi)
        BY <1>12, <2>1 DEF BuildTx, CreateTokenConversion
  <2>3. PICK base, sub : base = t.base /\ sub = t.data.sub
        OBVIOUS
  <2>4. /\ HoldsPayments(base, PRVParams) /\ RingMade(base, PRVParams, pi)
        /\ sub.ring = NoRing
        BY <1>1, <2>2, <2>3, TokenConversionCoins
  <2>5. version = 2 /\ base.ins = PRVParams.ins
        BY <1>4, <1>12, <2>4 DEF HoldsPayments, Transfers
  <2>6. RingSound(base, PRV)
        BY <1>1, <1>2, <2>4, <2>5, PreparedRingIsSound
  <2>7. RingSound(sub, call.tok.asset)
        BY <2>4, NoRingIsSound
  <2> QED
      BY <2>3, <2>6, <2>7
<1> QED
    BY <1>4, <1>7, <1>8, <1>9, <1>10, <1>11, <1>12
       DEF BuildInv, CallInv, CallOK, Transfers

\* RingsAreSound, part by part.
BuiltSound ==
    Built => /\ RingSound(tx.base, PRV)
             /\ HasData(tx) => RingSound(tx.data.sub, call.tok.asset)

\* It says the same.
LEMMA RingsByPart == BuiltSound => RingsAreSound
<1> SUFFICES ASSUME BuiltSound, Built, NEW n \in DOMAIN Parts(tx)
             PROVE  LET t == Parts(tx)[n]
                        a == IF n = 1 THEN PRV ELSE call.tok.asset
                    IN  (t.ring.pi > 0 /\ Decrypts(a)) =>
                            RingNames(t) /\ CellsDiffer(t.ring.rows)
    BY DEF RingsAreSound
<1>1. CASE HasData(tx)
  <2>1. Parts(tx) = <<tx.base, tx.data.sub>>
        BY <1>1 DEF Parts
  <2>2. \/ n = 1 /\ Parts(tx)[n] = tx.base
        \/ n = 2 /\ Parts(tx)[n] = tx.data.sub
        BY <2>1
  <2> QED
      BY <1>1, <2>2 DEF BuiltSound, RingSound
<1>2. CASE ~HasData(tx)
  <2>1. Parts(tx) = <<tx.base>>
        BY <1>2 DEF Parts
  <2>2. n = 1 /\ Parts(tx)[n] = tx.base
        BY <2>1
  <2> QED
      BY <2>2 DEF BuiltSound, RingSound
<1> QED
    BY <1>1, <1>2

\* Every step preserves BuiltSound.
LEMMA RingsStep ==
    BuildInv /\ AttemptInv /\ InputsInv /\ BuiltSound /\ [TxNext]_txVars
    => BuiltSound'
<1> SUFFICES ASSUME BuildInv, AttemptInv, InputsInv, BuiltSound, [TxNext]_txVars
             PROVE  BuiltSound'
    OBVIOUS
<1>1. \A t, a : RingSound(t, a)' <=> RingSound(t, a)
  <2>1. ledger' = ledger
        BY RequestKept
  <2> QED
      BY <2>1 DEF RingSound, Decrypts, RingNames, CellsDiffer, IndexesOf
<1>2. CASE InitTx
  <2>1. PICK pi \in 1..RingSize :
           IF Failed(BuildTx(pi)) THEN FallBackOrFail
           ELSE tx' = BuildTx(pi) /\ call' = call
        BY <1>2 DEF InitTx
  <2>2. CASE FallBackOrFail
        BY <2>2 DEF FallBackOrFail, BuiltSound, Built
  <2>3. CASE ~Failed(BuildTx(pi)) /\ tx' = BuildTx(pi) /\ call' = call
    <3>1. PICK t : t = BuildTx(pi)
          OBVIOUS
    <3>2. tx' = t /\ ~Failed(t) /\ stage = "init"
          BY <1>2, <2>3, <3>1 DEF InitTx
    <3>3. PICK base, sub, a : base = t.base /\ sub = t.data.sub /\ a = call.tok.asset
          OBVIOUS
    <3>4. RingSound(base, PRV) /\ (HasData(t) => RingSound(sub, a))
          BY <3>1, <3>2, <3>3, BuiltRings
    <3>5. RingSound(base, PRV)' /\ (HasData(t) => RingSound(sub, a)')
          BY <1>1, <3>4
    <3> QED
        BY <2>3, <3>2, <3>3, <3>5 DEF BuiltSound
  <2> QED
      BY <2>1, <2>2, <2>3
<1>3. CASE ~InitTx
  <2>1. /\ call' = call
        /\ \/ stage' \notin {"send", "ok"}
           \/ stage \in {"send", "ok"} /\ tx' = tx
        BY <1>3, BuiltStays
  <2>2. CASE stage' \notin {"send", "ok"}
        BY <2>2 DEF BuiltSound, Built
  <2>3. CASE stage \in {"send", "ok"} /\ tx' = tx
    <3>1. PICK t, a : t = tx /\ a = call.tok.asset
          OBVIOUS
    <3>2. tx' = t /\ call'.tok.asset = a
          BY <2>1, <2>3, <3>1
    <3>3. ~Failed(t) => RingSound(t.base, PRV) /\ (HasData(t) => RingSound(t.data.sub, a))
          BY <2>3, <3>1 DEF BuiltSound, Built
    <3>4. PICK base, sub : base = t.base /\ sub = t.data.sub
          OBVIOUS
    <3>5. ~Failed(t) => RingSound(base, PRV)' /\ (HasData(t) => RingSound(sub, a)')
          BY <1>1, <3>3, <3>4
    <3> QED
        BY <3>2, <3>4, <3>5 DEF BuiltSound, Built
  <2> QED
      BY <2>1, <2>2, <2>3
<1> QED
    BY <1>2, <1>3

\* Every ring names the coins that are spent, coin by coin, in its secret row
\* and holds no coin twice, for every account whose coins decrypt, every ring
\* size and every position: the indices stay with their coins through the
\* query, the sort and the selection, and no decoy is used twice.
THEOREM RingsOfBuiltAreSound == TxSpec => []RingsAreSound
<1>1. TxInit => InputsInv /\ BuiltSound
      BY DEF TxInit, InputsInv, BuiltSound, Built, NoSel
<1> QED
    BY <1>1, BuildInvInit, BuildInvStep, SelectionInit, SelectionStep,
       AttemptStep, InputsStep, RingsStep, RingsByPart, PTL DEF TxSpec

-----------------------------------------------------------------------------
(* Burned coins                                                            *)

\* Outputs burn what payments burn: the same positions, the same amounts.
SameBurns(outs, pays) ==
    /\ Burned(outs) = Burned(pays) /\ DOMAIN outs = 1..Len(outs)
    /\ Len(outs) \in Nat
    /\ \A k \in Burned(pays) : outs[k].val = pays[k].val

\* The change goes to the sender, so it burns nothing.
LEMMA PaidBurns ==
    ASSUME NEW pays \in Payments, NEW outs, PaidInOrder(outs, pays)
    PROVE  SameBurns(outs, pays)
<1>1. PICK n \in Nat : n = Len(pays) /\ DOMAIN pays = 1..n
      BY DEF Payments
<1>2. Len(outs) >= Len(pays) /\ Len(outs) <= Len(pays) + 1
      BY DEF PaidInOrder, Pays
<1>3. PICK m \in Nat : m = Len(outs) /\ DOMAIN outs = 1..m
      BY DEF PaidInOrder
<1>4. m = n \/ m = n + 1
  <2>1. m >= n /\ m <= n + 1
        BY <1>1, <1>2, <1>3, Zenon
  <2> QED
      BY <2>1
<1>5. \A k \in 1..n : outs[k].to = pays[k].to /\ outs[k].val = pays[k].val
      BY <1>1 DEF PaidInOrder, Pays
<1>6. ASSUME NEW k \in 1..m, k \notin 1..n PROVE outs[k].to # Burning
  <2>1. k = m /\ m > n
        BY <1>4, <1>6
  <2>2. Len(outs) > Len(pays)
        BY <1>1, <1>3, <2>1
  <2>3. Last(outs).to = Sender
        BY <2>2 DEF PaidInOrder, Pays
  <2>4. outs[k].to = Sender
        BY <1>3, <2>1, <2>3 DEF Last
  <2> QED
      BY <2>4 DEF Sender, Burning
<1>7. 1..n \subseteq 1..m
      BY <1>4
<1>8. Burned(outs) = Burned(pays)
      BY <1>1, <1>3, <1>5, <1>6, <1>7 DEF Burned
<1>9. \A k \in Burned(pays) : outs[k].val = pays[k].val
      BY <1>1, <1>5 DEF Burned
<1> QED
    BY <1>3, <1>8, <1>9 DEF SameBurns

\* What a list of payments burns: the first payment to the burning address.
FirstBurn(pays) == IF Burned(pays) = {} THEN 0 ELSE pays[Min(Burned(pays))].val
OneBurn(pays) == \A j, k \in Burned(pays) : j = k

\* The sum of a list with one value that may not be 0.
LEMMA OneValue ==
    ASSUME NEW n \in Nat, NEW v, DOMAIN v = 1..n, NEW k \in 1..n,
           v[k].val \in Nat, \A m \in 1..n : m # k => v[m].val = 0
    PROVE  Values(v) = v[k].val
<1>1. PICK x \in Nat : x = v[k].val
      OBVIOUS
<1>2. PICK h : h = [m \in 0..n |-> IF m < k THEN 0 ELSE x]
      OBVIOUS
<1>3. h[0] = 0 /\ h[n] = x
      BY <1>2
<1>4. ASSUME NEW m \in 1..n PROVE h[m] = h[m - 1] + v[m].val
  <2>1. m \in 0..n /\ m - 1 \in 0..n
        OBVIOUS
  <2>2. CASE m < k
        BY <1>2, <2>1, <2>2
  <2>3. CASE m = k
        BY <1>1, <1>2, <2>1, <2>3
  <2>4. CASE m > k
        BY <1>1, <1>2, <2>1, <2>4
  <2> QED
      BY <2>2, <2>3, <2>4
<1>5. IsPartial(v, h, n)
      BY <1>3, <1>4 DEF IsPartial
<1> QED
    BY <1>1, <1>3, <1>5, ValuesArePartial

\* A node finds what one payment of a part burns, whether it takes the first
\* output to the burning address (version 2) or sums them up (version 1).
LEMMA BurnIsRead ==
    ASSUME NEW pays \in Payments, NEW t, SameBurns(t.outs, pays),
           OneBurn(pays), FirstBurn(pays) < Modulus
    PROVE  GetTxBurnData(t) = FirstBurn(pays)
<1>1. CASE Burned(pays) = {}
      BY <1>1 DEF SameBurns, GetTxBurnData, FirstBurn
<1>2. CASE Burned(pays) # {}
  <2>1. PICK k : k \in Burned(pays)
        BY <1>2
  <2>2. PICK n \in Nat : n = Len(t.outs) /\ DOMAIN t.outs = 1..n
        BY DEF SameBurns
  <2>3. Burned(pays) = {k} /\ Burned(t.outs) = {k} /\ k \in 1..n
        BY <2>1, <2>2 DEF SameBurns, OneBurn, Burned
  <2>4. Min(Burned(pays)) = k /\ Min(Burned(t.outs)) = k
        BY <2>3, MinIs
  <2>5. t.outs[k].val = FirstBurn(pays) /\ t.outs[k].to = Burning
        BY <1>2, <2>1, <2>3, <2>4 DEF SameBurns, FirstBurn, Burned
  <2>6. FirstBurn(pays) \in Nat
    <3>1. k \in DOMAIN pays
          BY <2>1 DEF Burned
    <3>2. pays[k].val \in Nat
          BY <3>1, PaymentVal
    <3> QED
        BY <1>2, <2>4, <3>2 DEF FirstBurn
  <2>7. CASE t.ver = 1
    <3>1. PICK v : v = [m \in DOMAIN t.outs |->
                           IF t.outs[m].to = Burning THEN t.outs[m] ELSE [val |-> 0]]
          OBVIOUS
    <3>2. DOMAIN v = 1..n /\ v[k] = t.outs[k]
          BY <2>2, <2>3, <2>5, <3>1
    <3>3. \A m \in 1..n : m # k => v[m].val = 0
      <4>1. \A m \in 1..n : m # k => t.outs[m].to # Burning
            BY <2>2, <2>3 DEF Burned
      <4> QED
          BY <2>2, <3>1, <4>1
    <3>4. Values(v) = FirstBurn(pays)
          BY <2>3, <2>5, <2>6, <3>2, <3>3, OneValue
    <3>5. ValuesTo(t.outs, Burning) = FirstBurn(pays)
          BY <3>1, <3>4 DEF ValuesTo
    <3>6. Wrap(ValuesTo(t.outs, Burning)) = FirstBurn(pays)
          BY <2>6, <3>5, CallsAssumption DEF Wrap
    <3>7. PICK r : r = CHOOSE x \in GetReceiverDataVer1(t) : x.to = Burning
          OBVIOUS
    <3>8. \E x \in GetReceiverDataVer1(t) : x.to = Burning
      <4>1. Burning \in {t.outs[m].to : m \in DOMAIN t.outs}
            BY <2>2, <2>3, <2>5
      <4>2. PICK x : x = [to |-> Burning, val |-> Wrap(ValuesTo(t.outs, Burning))]
            OBVIOUS
      <4>3. x \in GetReceiverDataVer1(t)
            BY <4>1, <4>2, Zenon DEF GetReceiverDataVer1
      <4> QED
          BY <4>2, <4>3
    <3>9. r \in GetReceiverDataVer1(t) /\ r.to = Burning
          BY <3>7, <3>8
    <3>10. r.val = Wrap(ValuesTo(t.outs, Burning))
          BY <3>9 DEF GetReceiverDataVer1
    <3> QED
        BY <2>3, <2>7, <3>6, <3>7, <3>10 DEF GetTxBurnData
  <2>8. CASE t.ver # 1
        BY <2>3, <2>4, <2>5, <2>8 DEF GetTxBurnData
  <2> QED
      BY <2>7, <2>8
<1> QED
    BY <1>1, <1>2

\* What a request asks to burn of an asset.
BurnAsked(c, a) ==
    CASE a = PRV -> FirstBurn(c.pays)
      [] a # PRV /\ a # "none" /\ a = c.tok.asset -> FirstBurn(c.tok.pays)
      [] OTHER -> 0

DeclaredBy(c, a) == IF a \in DOMAIN c.md.burns THEN c.md.burns[a] ELSE 0

\* A request that carries metadata is a transfer, burns with one payment per
\* asset, declares in the metadata what it burns, and names a receiver for it.
DeclaresItsBurns(c) ==
    (/\ c.md.type # "none"
     /\ \A a \in DOMAIN c.md.burns : c.md.burns[a] < Modulus) =>
        /\ c.route \in {"prv", "token"}
        /\ c.route = "token" => c.tok.kind = "transfer" /\ OneBurn(c.tok.pays)
        /\ OneBurn(c.pays)
        /\ \A a : /\ BurnAsked(c, a) = DeclaredBy(c, a)
                  /\ BurnAsked(c, a) > 0 => a \in c.md.receivers

\* What is burned in a transaction is what the request asked to burn, and a
\* token that is burned is shown under its ID.
BurnsAsAsked(t) ==
    /\ call.route = "prv" =>
          /\ call.tok.asset = "none" /\ ~HasData(t)
          /\ SameBurns(t.base.outs, call.pays)
    /\ call.route = "token" =>
          /\ SameBurns(t.base.outs, call.pays)
          /\ SameBurns(t.data.sub.outs, call.tok.pays)
          /\ call.tok.kind = "transfer" =>
                /\ HasData(t)
                /\ Burned(t.data.sub.outs) # {} => t.data.id = call.tok.asset

\* Every transfer that is built burns what was asked.
LEMMA BuiltBurns ==
    ASSUME BuildInv, stage = "init", NEW pi, NEW t, t = BuildTx(pi), ~Failed(t)
    PROVE  BurnsAsAsked(t)
<1>1. CallOK(call) /\ (Transfers => version \in {1, 2})
      BY DEF BuildInv, CallInv, VersionInv
<1>2. call.pays \in Payments /\ (call.route = "token" => call.tok.pays \in Payments)
      BY <1>1 DEF CallOK
<1>3. ASSUME call.route = "prv"
      PROVE  /\ call.tok.asset = "none" /\ ~HasData(t)
             /\ SameBurns(t.base.outs, call.pays)
  <2>1. PaidInOrder(t.base.outs, call.pays)
        BY <1>3, PRVIsPaid
  <2>2. PICK s : t = Plain(s)
        BY <1>1, <1>3 DEF BuildTx, CreateVer1, CreateVer2, Transfers
  <2>3. t.data = NoData
        BY <2>2 DEF Plain, Whole, Failed, NoTx
  <2>4. call.tok.asset = "none"
        BY <1>3 DEF BuildInv, CallInv, Accepts, isToken
  <2> QED
      BY <1>2, <2>1, <2>3, <2>4, PaidBurns DEF HasData, NoData
<1>4. ASSUME call.route = "token"
      PROVE  /\ SameBurns(t.base.outs, call.pays)
             /\ SameBurns(t.data.sub.outs, call.tok.pays)
  <2>1. /\ PaidInOrder(t.base.outs, call.pays)
        /\ PaidInOrder(t.data.sub.outs, call.tok.pays)
        BY <1>4, TokenIsPaid
  <2> QED
      BY <1>2, <1>4, <2>1, PaidBurns
<1>5. ASSUME call.route = "token", call.tok.kind = "transfer"
      PROVE  /\ HasData(t)
             /\ Burned(t.data.sub.outs) # {} => t.data.id = call.tok.asset
  <2>1. PICK p, tp : p = PRVParams /\ tp = TokenParams
        OBVIOUS
  <2>2. /\ IsParams(p) /\ p.pays \in Payments
        /\ IsParams(tp) /\ tp.pays \in Payments /\ tp.md = NoMetadata
        /\ tp.kind = "transfer" /\ tp.asset = call.tok.asset
        /\ version # 1 => tp.fee = 0
        BY <1>1, <1>2, <1>5, <2>1, ParamsShape
  <2>3. CASE version = 1
    <3>1. t = InitTokenVer1(p, tp)
          BY <1>5, <2>1, <2>3 DEF BuildTx, CreateTokenVer1
    <3>2. PICK r : r = InitTokenVer1(p, tp)
          OBVIOUS
    <3>3. tp.kind # "init" /\ ~Failed(InitTokenVer1(p, tp)) /\ t = r
          BY <2>2, <3>1, <3>2
    <3>4. /\ r.data.kind = tp.kind
          /\ tp.kind # "init" =>
                /\ ~Failed(InitVer1(tp)) /\ r.data.sub = InitVer1(tp)
                /\ r.data.id = tp.asset
      <4>1. /\ IsParams(p) /\ p.pays \in Payments
            /\ IsParams(tp) /\ tp.pays \in Payments /\ tp.md = NoMetadata
            BY <2>2
      <4> QED
          BY ZenonT(60), <3>2, <3>3, <4>1, TokenVersion1Coins
    <3> QED
        BY <2>2, <3>3, <3>4 DEF HasData
  <2>4. CASE version = 2
    <3>1. t = InitTokenVer2(p, tp, pi)
          BY <1>5, <2>1, <2>4 DEF BuildTx, CreateTokenVer2
    <3>2. /\ t.data.kind = "transfer"
          /\ Burned(t.data.sub.outs) # {} => t.data.id = tp.asset
          BY <2>2, <2>4, <3>1, TokenVersion2Coins
    <3> QED
        BY <2>2, <3>2 DEF HasData
  <2> QED
      BY <1>1, <1>5, <2>3, <2>4 DEF Transfers
<1> QED
    BY <1>3, <1>4, <1>5 DEF BurnsAsAsked

BurnInv == DeclaresItsBurns(call) /\ (Built => BurnsAsAsked(tx))

\* Every step preserves BurnInv.
LEMMA BurnStep == BuildInv /\ BurnInv /\ [TxNext]_txVars => BurnInv'
<1> SUFFICES ASSUME BuildInv, BurnInv, [TxNext]_txVars PROVE BurnInv'
    OBVIOUS
<1>1. call' = call
      BY RequestKept
<1>2. DeclaresItsBurns(call')
      BY <1>1 DEF BurnInv
<1>3. \A t : BurnsAsAsked(t)' <=> BurnsAsAsked(t)
      BY <1>1 DEF BurnsAsAsked
<1>4. CASE InitTx
  <2>1. PICK pi : IF Failed(BuildTx(pi)) THEN FallBackOrFail
                  ELSE tx' = BuildTx(pi)
        BY <1>4 DEF InitTx
  <2>2. CASE FallBackOrFail
        BY <1>2, <2>2 DEF FallBackOrFail, Built, BurnInv
  <2>3. CASE ~Failed(BuildTx(pi)) /\ tx' = BuildTx(pi)
    <3>1. BurnsAsAsked(BuildTx(pi))
          BY <1>4, <2>3, BuiltBurns DEF InitTx
    <3>2. PICK t : t = BuildTx(pi)
          OBVIOUS
    <3>3. BurnsAsAsked(tx)'
          BY <1>1, <2>3, <3>1, <3>2 DEF BurnsAsAsked
    <3> QED
        BY <1>2, <3>3 DEF BurnInv
  <2> QED
      BY <2>1, <2>2, <2>3
<1>5. CASE ~InitTx
  <2>1. \/ stage' \notin {"send", "ok"}
        \/ stage \in {"send", "ok"} /\ tx' = tx
        BY <1>5, BuiltStays
  <2>2. CASE stage' \notin {"send", "ok"}
        BY <1>2, <2>2 DEF Built, BurnInv
  <2>3. CASE stage \in {"send", "ok"} /\ tx' = tx
    <3>1. Built' => BurnsAsAsked(tx)
          BY <2>3 DEF Built, BurnInv, Failed
    <3>2. BurnsAsAsked(tx) => BurnsAsAsked(tx)'
          BY <1>1, <2>3 DEF BurnsAsAsked
    <3> QED
        BY <1>2, <3>1, <3>2 DEF BurnInv
  <2> QED
      BY <2>1, <2>2, <2>3
<1> QED
    BY <1>4, <1>5

\* What a node finds in a transaction that burns as asked.
LEMMA BurnsAreFound == BuildInv /\ BurnInv => BurnsAsDeclared
<1> SUFFICES ASSUME BuildInv, BurnInv, Built, hasMetadata,
                    \A a \in DOMAIN call.md.burns : call.md.burns[a] < Modulus,
                    NEW a
             PROVE  /\ BurnFound(a) = Declared(a)
                    /\ BurnFound(a) > 0 => a \in call.md.receivers
    BY DEF BurnsAsDeclared
<1>1. /\ Transfers
      /\ call.route = "token" => /\ call.tok.kind = "transfer"
                                 /\ OneBurn(call.tok.pays)
      /\ OneBurn(call.pays)
      /\ \A b : /\ BurnAsked(call, b) = DeclaredBy(call, b)
                /\ BurnAsked(call, b) > 0 => b \in call.md.receivers
      BY DEF BurnInv, DeclaresItsBurns, hasMetadata, Transfers
<1>2. CallOK(call) /\ BurnsAsAsked(tx)
      BY DEF BuildInv, CallInv, BurnInv
<1>3. /\ call.pays \in Payments
      /\ call.route = "token" => /\ call.tok.pays \in Payments
                                 /\ call.tok.asset \notin {"none", PRV}
      BY <1>2 DEF CallOK
<1>4. \A b : DeclaredBy(call, b) < Modulus
      BY CallsAssumption DEF DeclaredBy
<1>5. FirstBurn(call.pays) < Modulus
  <2>1. BurnAsked(call, PRV) = FirstBurn(call.pays)
        BY DEF BurnAsked
  <2> QED
      BY <1>1, <1>4, <2>1
<1>6. GetTxBurnData(tx.base) = FirstBurn(call.pays)
      BY <1>1, <1>2, <1>3, <1>5, BurnIsRead DEF BurnsAsAsked, Transfers
<1>7. BurnFound(a) = BurnAsked(call, a)
  <2>1. PICK prv, token, id :
            /\ GetTxFullBurnData(tx) = [prv |-> prv, token |-> token, id |-> id]
            /\ prv = FirstBurn(call.pays)
            /\ token = (IF HasData(tx) THEN GetTxBurnData(tx.data.sub) ELSE 0)
            /\ id = GetTokenID(tx)
        BY <1>6 DEF GetTxFullBurnData
  <2>2. BurnFound(a) = CASE a = PRV -> prv
                         [] a # PRV /\ a = id -> token
                         [] OTHER -> 0
        BY <2>1 DEF BurnFound
  <2>3. CASE a = PRV
        BY <2>1, <2>2, <2>3 DEF BurnAsked
  <2>4. CASE a # PRV /\ call.route = "prv"
    <3>1. token = 0
          BY <1>2, <2>1, <2>4 DEF BurnsAsAsked
    <3>2. BurnFound(a) = 0
          BY <2>2, <2>4, <3>1
    <3>3. a # "none" => a # call.tok.asset
          BY <1>2, <2>4 DEF BurnsAsAsked
    <3>4. BurnAsked(call, a) = 0
          BY <2>4, <3>3 DEF BurnAsked
    <3> QED
        BY <3>2, <3>4
  <2>5. CASE a # PRV /\ call.route = "token"
    <3>1. PICK T : T = call.tok.asset
          OBVIOUS
    <3>2. T # "none" /\ T # PRV
          BY <1>3, <2>5, <3>1
    <3>3. FirstBurn(call.tok.pays) < Modulus
      <4>1. BurnAsked(call, T) = FirstBurn(call.tok.pays)
            BY <3>1, <3>2 DEF BurnAsked
      <4> QED
          BY <1>1, <1>4, <4>1
    <3>4. HasData(tx) /\ SameBurns(tx.data.sub.outs, call.tok.pays)
          BY <1>1, <1>2, <2>5 DEF BurnsAsAsked
    <3>5. token = FirstBurn(call.tok.pays) /\ id = tx.data.id
          BY <1>1, <1>3, <2>1, <2>5, <3>3, <3>4, BurnIsRead DEF GetTokenID
    <3>6. CASE Burned(call.tok.pays) = {}
      <4>1. token = 0
            BY <3>5, <3>6 DEF FirstBurn
      <4>2. BurnAsked(call, a) = 0
            BY <2>5, <3>5, <4>1 DEF BurnAsked
      <4> QED
          BY <2>2, <2>5, <4>1, <4>2
    <3>7. CASE Burned(call.tok.pays) # {}
      <4>1. id = T
            BY <1>1, <1>2, <2>5, <3>1, <3>4, <3>5, <3>7 DEF BurnsAsAsked, SameBurns
      <4> QED
          BY <2>2, <2>5, <3>1, <3>2, <3>5, <4>1 DEF BurnAsked
    <3> QED
        BY <3>6, <3>7
  <2> QED
      BY <1>1, <2>3, <2>4, <2>5 DEF Transfers
<1>8. Declared(a) = DeclaredBy(call, a)
      BY DEF Declared, DeclaredBy
<1> QED
    BY <1>1, <1>7, <1>8

\* A node finds burned in every transaction with metadata what the metadata
\* declares, asset by asset, and a receiver for each asset burned; as long as
\* the requests declare what they ask to burn, in amounts that fit.
THEOREM BurnsMatchMetadata ==
    ASSUME \A case \in Cases : DeclaresItsBurns(case.call)
    PROVE  TxSpec => []BurnsAsDeclared
<1>1. TxInit => BurnInv
      BY DEF TxInit, BurnInv, Built
<1> QED
    BY <1>1, BuildInvInit, BuildInvStep, BurnStep, BurnsAreFound, PTL DEF TxSpec

\* Payments that burn what the metadata declares for an asset, or nothing.
Matches(pays, burns, a) ==
    \/ pays = <<>> /\ a \notin DOMAIN burns
    \/ /\ a \in DOMAIN burns /\ burns[a] \in Nat
       /\ \E x : pays = BurnPayment(x) /\ (burns[a] < Modulus => x = burns[a])

\* What such payments burn.
LEMMA MatchingBurn ==
    ASSUME NEW pays, NEW burns, NEW a, Matches(pays, burns, a),
           \A b \in DOMAIN burns : burns[b] < Modulus
    PROVE  /\ OneBurn(pays)
           /\ FirstBurn(pays) = IF a \in DOMAIN burns THEN burns[a] ELSE 0
<1>1. CASE pays = <<>> /\ a \notin DOMAIN burns
  <2>1. Burned(pays) = {}
        BY <1>1 DEF Burned
  <2> QED
      BY <1>1, <2>1 DEF OneBurn, FirstBurn
<1>2. CASE ~(pays = <<>> /\ a \notin DOMAIN burns)
  <2>1. a \in DOMAIN burns /\ pays = BurnPayment(burns[a])
        BY <1>2 DEF Matches
  <2>2. PICK x : x = burns[a]
        OBVIOUS
  <2>3. PICK y : y = [to |-> Burning, val |-> x]
        OBVIOUS
  <2>4. pays = <<y>> /\ y.to = Burning /\ y.val = x
        BY <2>1, <2>2, <2>3 DEF BurnPayment
  <2>5. DOMAIN pays = {1} /\ pays[1] = y
        BY <2>4
  <2>6. Burned(pays) = {1}
        BY <2>4, <2>5 DEF Burned
  <2>7. Min({1}) = 1
        BY MinIs
  <2> QED
      BY <2>1, <2>2, <2>4, <2>5, <2>6, <2>7 DEF OneBurn, FirstBurn
<1> QED
    BY <1>1, <1>2

\* A request whose payments match its metadata.
RequestMatches(c) ==
    /\ c.route \in {"prv", "token"}
    /\ c.route = "token" => c.tok.asset # "none" /\ c.tok.kind = "transfer"
    /\ Matches(c.pays, c.md.burns, PRV)
    /\ c.tok.asset # "none" =>
          c.tok.asset # PRV /\ Matches(c.tok.pays, c.md.burns, c.tok.asset)
    /\ DOMAIN c.md.burns \subseteq {PRV, c.tok.asset} \ {"none"}
    /\ \A a \in DOMAIN c.md.burns : a \in c.md.receivers \/ c.md.burns[a] = 0

\* Such a request declares its burns.
LEMMA MatchingDeclares ==
    ASSUME NEW c, RequestMatches(c) PROVE DeclaresItsBurns(c)
<1> SUFFICES ASSUME \A a \in DOMAIN c.md.burns : c.md.burns[a] < Modulus
             PROVE  /\ c.route \in {"prv", "token"}
                    /\ c.route = "token" =>
                          c.tok.kind = "transfer" /\ OneBurn(c.tok.pays)
                    /\ OneBurn(c.pays)
                    /\ \A a : /\ BurnAsked(c, a) = DeclaredBy(c, a)
                              /\ BurnAsked(c, a) > 0 => a \in c.md.receivers
    BY DEF DeclaresItsBurns
<1>1. OneBurn(c.pays) /\ FirstBurn(c.pays) = DeclaredBy(c, PRV)
      BY MatchingBurn DEF RequestMatches, DeclaredBy
<1>2. c.tok.asset # "none" => /\ OneBurn(c.tok.pays) /\ c.tok.asset # PRV
                              /\ FirstBurn(c.tok.pays) = DeclaredBy(c, c.tok.asset)
      BY MatchingBurn DEF RequestMatches, DeclaredBy
<1>3. ASSUME NEW a PROVE BurnAsked(c, a) = DeclaredBy(c, a)
  <2>1. CASE a = PRV
        BY <1>1, <2>1 DEF BurnAsked
  <2>2. CASE a # PRV /\ a # "none" /\ a = c.tok.asset
        BY <1>2, <2>2 DEF BurnAsked
  <2>3. CASE a # PRV /\ ~(a # "none" /\ a = c.tok.asset)
    <3>1. a \notin DOMAIN c.md.burns
          BY <2>3 DEF RequestMatches
    <3> QED
        BY <2>3, <3>1 DEF BurnAsked, DeclaredBy
  <2> QED
      BY <2>1, <2>2, <2>3
<1>4. ASSUME NEW a, DeclaredBy(c, a) > 0 PROVE a \in c.md.receivers
      BY <1>4 DEF DeclaredBy, RequestMatches
<1> QED
    BY <1>1, <1>2, <1>3, <1>4 DEF RequestMatches

\* The fields of the two kinds of request.
LEMMA RequestFields ==
    ASSUME NEW api, NEW v, NEW pays, NEW paid, NEW md, NEW tok
    PROVE  /\ LET r == PRVRequest(api, v, pays, paid, md)
              IN  r.route = "prv" /\ r.pays = pays /\ r.tok.asset = "none"
                  /\ r.md = md
           /\ LET r == TokenRequest(api, v, tok, pays, paid, md)
              IN  r.route = "token" /\ r.pays = pays /\ r.tok = tok /\ r.md = md
BY DEF PRVRequest, TokenRequest, NoToken

\* A PRV request that burns nothing.
LEMMA NothingMatches ==
    ASSUME NEW api, NEW v, NEW paid, NEW md, md.burns = NoBurn
    PROVE  RequestMatches(PRVRequest(api, v, <<>>, paid, md))
<1>1. PICK r : r = PRVRequest(api, v, <<>>, paid, md)
      OBVIOUS
<1>2. r.route = "prv" /\ r.pays = <<>> /\ r.tok.asset = "none" /\ r.md = md
      BY <1>1, RequestFields
<1>3. DOMAIN r.md.burns = {}
      BY <1>2 DEF NoBurn
<1>4. RequestMatches(r)
      BY <1>2, <1>3 DEF RequestMatches, Matches
<1> QED
    BY <1>1, <1>4

\* A PRV request that burns y, which is the amount declared unless that is too
\* large.
LEMMA PRVMatches ==
    ASSUME NEW api, NEW v, NEW paid, NEW md, NEW x \in Nat,
           NEW y, x < Modulus => y = x,
           md.burns = Burns(PRV, x), PRV \in md.receivers \/ x = 0
    PROVE  RequestMatches(PRVRequest(api, v, BurnPayment(y), paid, md))
<1>1. PICK r : r = PRVRequest(api, v, BurnPayment(y), paid, md)
      OBVIOUS
<1>2. /\ r.route = "prv" /\ r.pays = BurnPayment(y) /\ r.tok.asset = "none"
      /\ r.md = md
      BY <1>1, RequestFields
<1>3. DOMAIN r.md.burns = {PRV} /\ r.md.burns[PRV] = x
      BY <1>2 DEF Burns
<1>4. Matches(r.pays, r.md.burns, PRV)
      BY <1>2, <1>3 DEF Matches
<1>5. PRV # "none"
      BY DEF PRV
<1>6. RequestMatches(r)
      BY <1>2, <1>3, <1>4, <1>5 DEF RequestMatches
<1> QED
    BY <1>1, <1>6

\* A request to burn an amount of a token.
LEMMA TokenMatches ==
    ASSUME NEW api, NEW v, NEW paid, NEW md, NEW x \in Nat,
           NEW y, x < Modulus => y = x,
           NEW a, a \notin {"none", PRV}, a \in md.receivers, md.burns = Burns(a, x)
    PROVE  RequestMatches(TokenRequest(api, v, TokenTransfer(a, BurnPayment(y)),
                                       <<>>, paid, md))
<1>1. PICK tok : tok = TokenTransfer(a, BurnPayment(y))
      OBVIOUS
<1>2. PICK r : r = TokenRequest(api, v, tok, <<>>, paid, md)
      OBVIOUS
<1>3. r.route = "token" /\ r.pays = <<>> /\ r.tok = tok /\ r.md = md
      BY <1>2, RequestFields
<1>4. tok.asset = a /\ tok.kind = "transfer" /\ tok.pays = BurnPayment(y)
      BY <1>1 DEF TokenTransfer
<1>5. DOMAIN r.md.burns = {a} /\ r.md.burns[a] = x
      BY <1>3 DEF Burns
<1>6. Matches(r.pays, r.md.burns, PRV) /\ Matches(tok.pays, r.md.burns, a)
      BY <1>3, <1>4, <1>5 DEF Matches
<1>7. RequestMatches(r)
      BY <1>3, <1>4, <1>5, <1>6 DEF RequestMatches
<1> QED
    BY <1>1, <1>2, <1>7

\* What metadata keeps of its arguments, signed or not.
LEMMA MetadataFields ==
    ASSUME NEW type, NEW burns, NEW receivers
    PROVE  LET md == Metadata(type, burns, receivers)
           IN  /\ md.burns = burns /\ md.receivers = receivers
               /\ Signs(md).burns = burns /\ Signs(md).receivers = receivers
BY DEF Metadata, Signs

\* A request to burn an amount of an asset that the metadata declares and
\* names a receiver for.
LEMMA BurnRequestMatches ==
    ASSUME NEW api, NEW v, NEW paid, NEW a, a # "none", NEW x \in Nat,
           NEW md, md.burns = Burns(a, x), a \in md.receivers
    PROVE  RequestMatches(BurnRequest(api, v, a, x, paid, md))
<1>1. CASE a = PRV
      BY <1>1, PRVMatches DEF BurnRequest
<1>2. CASE a # PRV
      BY <1>2, TokenMatches DEF BurnRequest
<1> QED
    BY <1>1, <1>2

\* A trade: the fee is burned with the amount sold, or in PRV with a payment
\* of its own.
LEMMA TradeMatches ==
    ASSUME NEW sell, sell # "none", NEW buy, NEW amount \in Nat,
           NEW tfee \in Nat, NEW feeInPRV \in BOOLEAN
    PROVE  RequestMatches(Trade(sell, buy, amount, tfee, feeInPRV))
<1>1. PICK burns, receivers :
          /\ burns = TradeBurns(sell, amount, tfee, feeInPRV)
          /\ receivers = TradeReceivers(sell, buy, feeInPRV)
      OBVIOUS
<1>2. PICK md : md = Metadata("trade", burns, receivers)
      OBVIOUS
<1>3. md.burns = burns /\ md.receivers = receivers
      BY <1>2, MetadataFields
<1>4. PICK x \in Nat : x = amount + tfee
      OBVIOUS
<1>5. PICK y : y = Wrap(x)
      OBVIOUS
<1>6. x < Modulus => y = x
      BY <1>5, WrapSmall
<1>7. sell \in receivers
      BY <1>1 DEF TradeReceivers
<1>8. CASE sell = PRV
  <2>1. Trade(sell, buy, amount, tfee, feeInPRV)
          = PRVRequest("trade", 2, BurnPayment(y), 0, md)
        BY <1>1, <1>2, <1>4, <1>5, <1>8 DEF Trade, TradePayment
  <2>2. md.burns = Burns(PRV, x)
        BY <1>1, <1>3, <1>4, <1>8 DEF TradeBurns
  <2> QED
      BY <1>3, <1>6, <1>7, <1>8, <2>1, <2>2, PRVMatches
<1>9. CASE sell # PRV /\ ~feeInPRV
  <2>1. Trade(sell, buy, amount, tfee, feeInPRV)
          = TokenRequest("trade", 2, TokenTransfer(sell, BurnPayment(y)), <<>>, 0, md)
        BY <1>1, <1>2, <1>4, <1>5, <1>9 DEF Trade, TradePayment
  <2>2. md.burns = Burns(sell, x)
        BY <1>1, <1>3, <1>4, <1>9 DEF TradeBurns
  <2> QED
      BY <1>3, <1>6, <1>7, <1>9, <2>1, <2>2, TokenMatches
<1>10. CASE sell # PRV /\ feeInPRV
  <2>1. PICK tok : tok = TokenTransfer(sell, BurnPayment(amount))
        OBVIOUS
  <2>2. PICK r : r = TokenRequest("trade", 2, tok, BurnPayment(tfee), 0, md)
        OBVIOUS
  <2>3. Trade(sell, buy, amount, tfee, feeInPRV) = r
        BY <1>1, <1>2, <1>10, <2>1, <2>2 DEF Trade, TradePayment
  <2>4. r.route = "token" /\ r.pays = BurnPayment(tfee) /\ r.tok = tok /\ r.md = md
        BY <2>2, RequestFields
  <2>5. tok.asset = sell /\ tok.kind = "transfer" /\ tok.pays = BurnPayment(amount)
        BY <2>1 DEF TokenTransfer
  <2>6. burns = [a \in {sell, PRV} |-> IF a = PRV THEN tfee ELSE amount]
        BY <1>1, <1>10 DEF TradeBurns
  <2>7. DOMAIN burns = {sell, PRV} /\ burns[sell] = amount /\ burns[PRV] = tfee
        BY <1>10, <2>6
  <2>8. Matches(r.pays, burns, PRV) /\ Matches(tok.pays, burns, sell)
        BY <2>4, <2>5, <2>7 DEF Matches
  <2>9. PRV \in receivers /\ PRV # "none"
        BY <1>1, <1>10 DEF TradeReceivers, PRV
  <2>10. RequestMatches(r)
        BY <1>3, <1>7, <1>10, <2>4, <2>5, <2>7, <2>8, <2>9 DEF RequestMatches
  <2> QED
      BY <2>3, <2>10
<1> QED
    BY <1>8, <1>9, <1>10

\* Coins that the caller provides change neither payments nor metadata.
LEMMA GivenCoinsMatch ==
    ASSUME NEW api, NEW v, NEW pays, NEW paid, NEW md, NEW tok, NEW in
    PROVE  /\ LET r == PRVRequest(api, v, pays, paid, md)
              IN  RequestMatches(r) => RequestMatches(WithCoins(r, in))
           /\ LET r == TokenRequest(api, v, tok, pays, paid, md)
              IN  RequestMatches(r) => RequestMatches(WithCoins(r, in))
<1>1. ASSUME NEW r, RequestMatches(r),
             {"prvIn", "withCoins", "route", "pays", "tok", "md"} \subseteq DOMAIN r
      PROVE  RequestMatches(WithCoins(r, in))
  <2>1. CASE in.coins = <<>>
        BY <1>1, <2>1 DEF WithCoins
  <2>2. CASE in.coins # <<>>
    <3>1. PICK w : w = WithCoins(r, in)
          OBVIOUS
    <3>2. w.route = "prv" /\ w.pays = r.pays /\ w.tok = r.tok /\ w.md = r.md
          BY <1>1, <2>2, <3>1 DEF WithCoins
    <3>3. RequestMatches(w)
          BY <1>1, <3>2 DEF RequestMatches
    <3> QED
        BY <3>1, <3>3
  <2> QED
      BY <2>1, <2>2
<1>2. /\ {"prvIn", "withCoins", "route", "pays", "tok", "md"}
            \subseteq DOMAIN PRVRequest(api, v, pays, paid, md)
      /\ {"prvIn", "withCoins", "route", "pays", "tok", "md"}
            \subseteq DOMAIN TokenRequest(api, v, tok, pays, paid, md)
      BY DEF PRVRequest, TokenRequest
<1> QED
    BY <1>1, <1>2

\* The requests to burn an amount of an asset.
LEMMA BurningDeclared ==
    ASSUME NEW a, a # "none", NEW b, NEW x \in Nat,
           NEW network \in Networks, NEW pegged, pegged # "PLG",
           StakingAmount \in Nat
    PROVE  /\ RequestMatches(MintNFT(x)) /\ RequestMatches(AddOrder(a, b, x))
           /\ RequestMatches(Contribute(a, x)) /\ RequestMatches(Stake(a, x))
           /\ a # PRV => RequestMatches(BurnToEVM(a, x, network))
           /\ RequestMatches(BurningPRVPegging(x, pegged))
           /\ RequestMatches(ShardStaking) /\ RequestMatches(UnStaking)
<1>1. ASSUME NEW api, NEW v, NEW paid, NEW type, NEW receivers, a \in receivers
      PROVE  RequestMatches(BurnRequest(api, v, a, x, paid,
                                Metadata(type, Burns(a, x), receivers)))
      BY <1>1, BurnRequestMatches, MetadataFields
<1>2. RequestMatches(AddOrder(a, b, x))
      BY <1>1 DEF AddOrder
<1>3. RequestMatches(Contribute(a, x)) /\ RequestMatches(Stake(a, x))
      BY <1>1 DEF Contribute, Stake
<1>4. ASSUME NEW api, NEW v, NEW paid, NEW type, NEW n \in Nat
      PROVE  RequestMatches(PRVRequest(api, v, BurnPayment(n), paid,
                                Metadata(type, Burns(PRV, n), {PRV})))
  <2>1. PICK md : md = Metadata(type, Burns(PRV, n), {PRV})
        OBVIOUS
  <2>2. md.burns = Burns(PRV, n) /\ md.receivers = {PRV}
        BY <2>1, MetadataFields
  <2>3. RequestMatches(PRVRequest(api, v, BurnPayment(n), paid, md))
        BY <2>2, PRVMatches
  <2> QED
      BY <2>1, <2>3
<1>5. RequestMatches(MintNFT(x)) /\ RequestMatches(ShardStaking)
      BY <1>4 DEF MintNFT, ShardStaking
<1>6. RequestMatches(BurningPRVPegging(x, pegged))
      BY <1>4 DEF BurningPRVPegging
<1>7. RequestMatches(UnStaking)
  <2>1. PICK md : md = Signs(Metadata("unStaking", Burns(PRV, 0), {}))
        OBVIOUS
  <2>2. md.burns = Burns(PRV, 0)
        BY <2>1, MetadataFields
  <2> QED
      BY <2>1, <2>2, PRVMatches DEF UnStaking
<1>8. ASSUME a # PRV PROVE RequestMatches(BurnToEVM(a, x, network))
  <2>1. PICK md : md = Metadata(BurningType[network], Burns(a, x), {a})
        OBVIOUS
  <2>2. md.burns = Burns(a, x) /\ md.receivers = {a}
        BY <2>1, MetadataFields
  <2>3. RequestMatches(TokenRequest("burnToEVM", -1,
            TokenTransfer(a, BurnPayment(x)), <<>>, DefaultPRVFee, md))
        BY <1>8, <2>2, TokenMatches
  <2> QED
      BY <1>8, <2>1, <2>3 DEF BurnToEVM
<1> QED
    BY <1>2, <1>3, <1>5, <1>6, <1>7, <1>8

\* The requests that burn an NFT to show its ownership.
LEMMA NFTDeclared ==
    ASSUME NEW nft, nft \notin {"none", PRV}, NEW a, NEW b, NEW tokens, NEW pair
    PROVE  /\ RequestMatches(WithdrawOrder(nft, tokens, pair))
           /\ RequestMatches(WithdrawLiquidity(nft, a, b))
           /\ RequestMatches(WithdrawLPFee(nft, tokens, pair))
           /\ RequestMatches(Unstake(nft, a))
           /\ RequestMatches(WithdrawStakeReward(nft, a, tokens, pair))
<1>1. ASSUME NEW api, NEW receivers, nft \in receivers
      PROVE  RequestMatches(NFTRequest(api, nft, receivers))
  <2>1. PICK md : md = Metadata(api, Burns(nft, 1), receivers)
        OBVIOUS
  <2>2. md.burns = Burns(nft, 1) /\ md.receivers = receivers
        BY <2>1, MetadataFields
  <2> QED
      BY <1>1, <2>1, <2>2, TokenMatches DEF NFTRequest
<1> QED
    BY <1>1 DEF WithdrawOrder, WithdrawLiquidity, WithdrawLPFee, Unstake,
       WithdrawStakeReward

\* The requests that burn nothing.
LEMMA NothingBurned ==
    ASSUME NEW x, NEW network \in Networks, NEW pegged, pegged # "PLG",
           NEW v \in {1, 2}
    PROVE  /\ RequestMatches(TokenInitV2(x)) /\ RequestMatches(WithdrawProtocolFee)
           /\ RequestMatches(Issuing) /\ RequestMatches(IssuingEVM(network))
           /\ RequestMatches(IssuingPRVPegging(pegged))
           /\ RequestMatches(WithdrawReward(v))
<1>1. ASSUME NEW api, NEW w, NEW paid, NEW type
      PROVE  LET md == Metadata(type, NoBurn, {})
             IN  /\ RequestMatches(PRVRequest(api, w, <<>>, paid, md))
                 /\ RequestMatches(PRVRequest(api, w, <<>>, paid, Signs(md)))
      BY NothingMatches, MetadataFields
<1> QED
    BY <1>1 DEF TokenInitV2, WithdrawProtocolFee, Issuing, IssuingEVM,
       IssuingPRVPegging, WithdrawReward

\* The inscription and portal requests, with coins of the caller's or without.
LEMMA PortalDeclared ==
    ASSUME NEW in, NEW a, a \notin {"none", PRV}, NEW x \in Nat,
           InscribeAmount \in Nat
    PROVE  /\ RequestMatches(Inscribe(in)) /\ RequestMatches(PortalShield(in))
           /\ RequestMatches(PortalReplaceByFee(in))
           /\ RequestMatches(PortalSubmitConfirmation(in))
           /\ RequestMatches(PortalConvertVault(in))
           /\ RequestMatches(PortalRelayHeader(in))
           /\ RequestMatches(PortalUnShield(a, x, in))
<1>1. ASSUME NEW api, NEW w, NEW paid, NEW type
      PROVE  LET md == Metadata(type, NoBurn, {})
             IN  /\ RequestMatches(WithCoins(PRVRequest(api, w, <<>>, paid, md), in))
                 /\ RequestMatches(WithCoins(
                        PRVRequest(api, w, <<>>, paid, Signs(md)), in))
  <2>1. ASSUME NEW md, md.burns = NoBurn
        PROVE  RequestMatches(WithCoins(PRVRequest(api, w, <<>>, paid, md), in))
    <3>1. RequestMatches(PRVRequest(api, w, <<>>, paid, md))
          BY <2>1, NothingMatches
    <3> QED
        BY <3>1, GivenCoinsMatch
  <2> QED
      BY <2>1, MetadataFields
<1>2. RequestMatches(Inscribe(in))
  <2>1. PICK md : md = Metadata("inscribe", Burns(PRV, InscribeAmount), {PRV})
        OBVIOUS
  <2>2. md.burns = Burns(PRV, InscribeAmount) /\ md.receivers = {PRV}
        BY <2>1, MetadataFields
  <2>3. RequestMatches(PRVRequest("inscribe", 2, BurnPayment(InscribeAmount), 0, md))
        BY <2>2, PRVMatches
  <2> QED
      BY <2>1, <2>3, GivenCoinsMatch DEF Inscribe
<1>3. RequestMatches(PortalUnShield(a, x, in))
  <2>1. PICK md : md = Metadata("portalUnShield", Burns(a, x), {a})
        OBVIOUS
  <2>2. md.burns = Burns(a, x) /\ md.receivers = {a}
        BY <2>1, MetadataFields
  <2>3. RequestMatches(TokenRequest("portalUnShield", 2,
            TokenTransfer(a, BurnPayment(x)), <<>>, 0, md))
        BY <2>2, TokenMatches
  <2> QED
      BY <2>1, <2>3, GivenCoinsMatch DEF PortalUnShield
<1> QED
    BY <1>1, <1>2, <1>3 DEF PortalShield, PortalReplaceByFee,
       PortalSubmitConfirmation, PortalConvertVault, PortalRelayHeader

\* The hypothesis of BurnsMatchMetadata holds of every request function that
\* sets metadata of its own, whatever its arguments: what the payments burn is
\* what the metadata declares, and a receiver is named for it.  (For a trade
\* this needs the sum of amount and fee not to wrap.)
THEOREM RequestsDeclareTheirBurns ==
    ASSUME StakingAmount \in Nat, InscribeAmount \in Nat,
           NEW a, a # "none", NEW b, NEW t, t \notin {"none", PRV},
           NEW x \in Nat, NEW f \in Nat, NEW feeInPRV \in BOOLEAN,
           NEW tokens, NEW pair, NEW in, NEW network \in Networks,
           NEW pegged, pegged # "PLG", NEW v \in {1, 2}
    PROVE  \A c \in {MintNFT(x), Trade(a, b, x, f, feeInPRV), AddOrder(a, b, x),
                     WithdrawOrder(t, tokens, pair), Contribute(a, x),
                     WithdrawLiquidity(t, a, b), WithdrawLPFee(t, tokens, pair),
                     WithdrawProtocolFee, Stake(a, x), Unstake(t, a),
                     WithdrawStakeReward(t, a, tokens, pair), TokenInitV2(x),
                     Issuing, IssuingEVM(network), BurnToEVM(t, x, network),
                     IssuingPRVPegging(pegged), BurningPRVPegging(x, pegged),
                     ShardStaking, UnStaking, WithdrawReward(v), Inscribe(in),
                     PortalShield(in), PortalReplaceByFee(in),
                     PortalSubmitConfirmation(in), PortalConvertVault(in),
                     PortalRelayHeader(in), PortalUnShield(t, x, in)} :
               DeclaresItsBurns(c)
<1>1. /\ RequestMatches(MintNFT(x)) /\ RequestMatches(AddOrder(a, b, x))
      /\ RequestMatches(Contribute(a, x)) /\ RequestMatches(Stake(a, x))
      /\ RequestMatches(BurnToEVM(t, x, network))
      /\ RequestMatches(BurningPRVPegging(x, pegged))
      /\ RequestMatches(ShardStaking) /\ RequestMatches(UnStaking)
      BY BurningDeclared
<1>2. RequestMatches(Trade(a, b, x, f, feeInPRV))
      BY TradeMatches
<1> QED
    BY <1>1, <1>2, NFTDeclared, NothingBurned, PortalDeclared, MatchingDeclares

-----------------------------------------------------------------------------
(* The batches of a query                                                  *)

\* The quotient, and whether anything remains.
LEMMA DivMod ==
    ASSUME NEW n \in Nat, NEW b \in Nat \ {0}
    PROVE  /\ n \div b \in Nat
           /\ b * (n \div b) <= n /\ n < b * (n \div b) + b
           /\ n % b # 0 => b * (n \div b) < n
           /\ n % b = 0 => b * (n \div b) = n
<1>1. n \div b \in Nat /\ b * (n \div b) <= n
      OBVIOUS
<1>2. n < b * (n \div b) + b
      OBVIOUS
<1>3. n % b # 0 => b * (n \div b) < n
      OBVIOUS
<1>4. n % b = 0 => b * (n \div b) = n
      OBVIOUS
<1> QED
    BY <1>1, <1>2, <1>3, <1>4

\* Products of naturals, as far as batches need them.
LEMMA BatchProducts ==
    ASSUME NEW b \in Nat \ {0}, NEW j \in Nat
    PROVE  /\ j * b \in Nat /\ (j + 1) * b = j * b + b /\ b * j = j * b
           /\ 0 * b = 0 /\ 1 * b = b
           /\ \A h \in Nat : h <= j => h * b <= j * b
<1>1. /\ j * b \in Nat /\ (j + 1) * b = j * b + b /\ b * j = j * b
      /\ 0 * b = 0 /\ 1 * b = b
      BY ProductIsNat
<1>2. ASSUME NEW h \in Nat, h <= j PROVE h * b <= j * b
      BY <1>2, ProductGrows
<1> QED
    BY <1>1, <1>2

\* The batches cover the list, and none is empty.
LEMMA NumBatchesIs ==
    ASSUME BatchSize \in Nat \ {0}, NEW n \in Nat
    PROVE  LET N == NumBatches(n)
           IN  /\ N \in Nat /\ n <= N * BatchSize /\ (N = 0 <=> n = 0)
               /\ \A h \in Nat : h < N => h * BatchSize < n
<1>1. PICK b \in Nat \ {0} : b = BatchSize
      OBVIOUS
<1>2. PICK q \in Nat : q = n \div b
      BY DivMod
<1>3. /\ b * q <= n /\ n < b * q + b
      /\ n % b # 0 => b * q < n
      /\ n % b = 0 => b * q = n
      BY <1>2, DivMod
<1>4. /\ q * b \in Nat /\ (q + 1) * b = q * b + b /\ b * q = q * b
      /\ 0 * b = 0
      BY BatchProducts
<1>5. \A h \in Nat : h <= q => h * b <= q * b
      BY BatchProducts
<1>6. \A h \in Nat : h < q => h * b + b <= q * b
      BY ProductGrows
<1>7. \A h \in Nat : h * b \in Nat
      BY ProductIsNat
<1>8. CASE n % b = 0
  <2>1. NumBatches(n) = q
        BY <1>1, <1>2, <1>8 DEF NumBatches
  <2>2. n = q * b
        BY <1>3, <1>4, <1>8
  <2>3. \A h \in Nat : h < q => h * b < n
        BY <1>6, <1>7, <2>2
  <2>4. q = 0 => n = 0
        BY <1>4, <2>2
  <2>5. n = 0 => q = 0
        BY <1>7, <2>3
  <2> QED
      BY <1>1, <2>1, <2>2, <2>3, <2>4, <2>5
<1>9. CASE n % b # 0
  <2>1. NumBatches(n) = q + 1
        BY <1>1, <1>2, <1>9 DEF NumBatches
  <2>2. q * b < n /\ n <= (q + 1) * b
        BY <1>3, <1>4, <1>9
  <2>3. \A h \in Nat : h < q + 1 => h * b < n
    <3> SUFFICES ASSUME NEW h \in Nat, h < q + 1 PROVE h * b < n
        OBVIOUS
    <3>1. h * b <= q * b /\ h * b \in Nat
          BY <1>5, <1>7
    <3> QED
        BY <1>4, <2>2, <3>1
  <2>4. n # 0 /\ q + 1 # 0 /\ q + 1 \in Nat
        BY <1>4, <2>2
  <2> QED
      BY <1>1, <2>1, <2>2, <2>3, <2>4
<1> QED
    BY <1>8, <1>9

IsFlat(s, g, N) ==
    g = [j \in 1..N |-> IF j = 1 THEN s[j] ELSE g[j - 1] \o s[j]]

\* The function that FlattenSeq stands for.
LEMMA FlattenIs ==
    ASSUME NEW s, NEW N \in Nat \ {0}, Len(s) = N
    PROVE  FlattenSeq(s) = (CHOOSE g : IsFlat(s, g, N))[N]
BY DEF FlattenSeq, IsFlat

\* A list that grows by one list of s at a time: h[j] holds the first j.
Grows(h, s, N) ==
    DOMAIN h = 1..N /\ h[1] = s[1] /\ \A j \in 2..N : h[j] = h[j - 1] \o s[j]

\* Such a list is FlattenSeq at the end.
LEMMA FlattenGrows ==
    ASSUME NEW s, NEW N \in Nat \ {0}, Len(s) = N, NEW h, Grows(h, s, N)
    PROVE  FlattenSeq(s) = h[N]
<1>0. /\ DOMAIN h = 1..N /\ h[1] = s[1]
      /\ \A j \in 2..N : h[j] = h[j - 1] \o s[j]
      BY DEF Grows
<1>1. PICK f : f = [j \in 1..N |-> h[j]]
      OBVIOUS
<1>2. IsFlat(s, f, N)
  <2>1. \A j \in 1..N : h[j] = IF j = 1 THEN s[j] ELSE f[j - 1] \o s[j]
    <3> SUFFICES ASSUME NEW j \in 1..N
                 PROVE  h[j] = IF j = 1 THEN s[j] ELSE f[j - 1] \o s[j]
        OBVIOUS
    <3>1. CASE j = 1
          BY <1>0, <3>1
    <3>2. CASE j # 1
      <4>1. j \in 2..N /\ j - 1 \in 1..N
            BY <3>2
      <4>2. f[j - 1] = h[j - 1]
            BY <1>1, <4>1
      <4> QED
          BY <1>0, <3>2, <4>1, <4>2
    <3> QED
        BY <3>1, <3>2
  <2> QED
      BY <1>1, <2>1 DEF IsFlat
<1>3. PICK g : g = CHOOSE x : IsFlat(s, x, N)
      OBVIOUS
<1>4. IsFlat(s, g, N) /\ FlattenSeq(s) = g[N]
      BY <1>2, <1>3, FlattenIs
<1> DEFINE P == {j \in Nat : j + 1 <= N => g[j + 1] = h[j + 1]}
<1>5. 0 \in P
  <2>1. 1 \in 1..N
        OBVIOUS
  <2>2. g[1] = s[1]
        BY <1>4, <2>1 DEF IsFlat
  <2> QED
      BY <1>0, <2>2
<1>6. ASSUME NEW j \in Nat, j \in P PROVE j + 1 \in P
  <2> SUFFICES ASSUME (j + 1) + 1 <= N PROVE g[(j + 1) + 1] = h[(j + 1) + 1]
      OBVIOUS
  <2>1. PICK k \in 2..N : k = (j + 1) + 1 /\ k - 1 = j + 1
        OBVIOUS
  <2>2. g[k - 1] = h[k - 1]
        BY <1>6, <2>1
  <2>3. g[k] = g[k - 1] \o s[k]
    <3>1. k \in 1..N /\ k # 1
          OBVIOUS
    <3> QED
        BY <1>4, <3>1 DEF IsFlat
  <2>4. h[k] = h[k - 1] \o s[k]
        BY <1>0
  <2>5. g[k] = h[k]
        BY <2>2, <2>3, <2>4
  <2> QED
      BY <2>1, <2>5
<1>7. Nat \subseteq P
  <2> HIDE DEF P
  <2> QED
      BY <1>5, <1>6, SetInduction, Zenon
<1>8. N - 1 \in P /\ (N - 1) + 1 = N
      BY <1>7
<1> QED
    BY <1>4, <1>8

\* A list of n elements, and its d elements after the first p.
IsList(c, n) == c = [k \in 1..n |-> c[k]]
Run(c, p, d) == [k \in 1..d |-> c[p + k]]
Slice(c, p, q) == SubSeq(c, p + 1, q)

\* The first p elements of a list and the d after them are its first p + d.
LEMMA FrontAndBatch ==
    ASSUME NEW F, NEW p \in Nat, NEW d \in Nat
    PROVE  Run(F, 0, p) \o Run(F, p, d) = Run(F, 0, p + d)
<1> DEFINE S == {F[k] : k \in Nat}
           s == [k \in 1..p |-> F[k]]
           t == [k \in 1..d |-> F[p + k]]
<1>1. s \in Seq(S) /\ t \in Seq(S)
      OBVIOUS
<1>2. Len(s) = p /\ Len(t) = d
      OBVIOUS
<1>3. \A k \in 1..p : s[k] = F[k]
      OBVIOUS
<1>4. \A k \in 1..d : t[k] = F[p + k]
      OBVIOUS
<1>5. PICK u : u = s \o t
      OBVIOUS
<1>6. /\ u \in Seq(S) /\ Len(u) = p + d
      /\ \A k \in 1..(p + d) : u[k] = IF k <= p THEN s[k] ELSE t[k - p]
  <2> HIDE DEF S, s, t
  <2> QED
      BY <1>1, <1>2, <1>5, ConcatProperties
<1>7. \A k \in 1..(p + d) : u[k] = F[k]
  <2> HIDE DEF S, s, t
  <2> SUFFICES ASSUME NEW k \in 1..(p + d) PROVE u[k] = F[k]
      OBVIOUS
  <2>1. CASE k <= p
        BY <1>3, <1>6, <2>1
  <2>2. CASE ~(k <= p)
    <3>1. k - p \in 1..d /\ p + (k - p) = k
          BY <2>2
    <3> QED
        BY <1>4, <1>6, <2>2, <3>1
  <2> QED
      BY <2>1, <2>2
<1>8. u = [k \in 1..(p + d) |-> F[k]]
  <2> HIDE DEF S
  <2>1. DOMAIN u = 1..(p + d) /\ u = [k \in DOMAIN u |-> u[k]]
        BY <1>6
  <2> QED
      BY <1>7, <2>1
<1>9. Run(F, 0, p) = s /\ Run(F, p, d) = t /\ Run(F, 0, p + d) = u
  <2>1. [k \in 1..p |-> F[0 + k]] = s
        OBVIOUS
  <2>2. [k \in 1..(p + d) |-> F[0 + k]] = [k \in 1..(p + d) |-> F[k]]
        OBVIOUS
  <2> QED
      BY <1>8, <2>1, <2>2 DEF Run
<1> HIDE DEF s, t
<1> QED
    BY <1>5, <1>9

\* A batch is a run of the list.
LEMMA BatchIs ==
    ASSUME NEW c, NEW n \in Nat, IsList(c, n),
           NEW p \in Nat, NEW q \in Nat, p <= q, q <= n
    PROVE  Slice(c, p, q) = Run(c, p, q - p)
<1> DEFINE S == {c[k] : k \in 1..n}
<1>1. c \in Seq(S) /\ Len(c) = n
      BY DEF IsList
<1>2. PICK d \in Nat : d = q - p /\ q = p + d
      OBVIOUS
<1>3. PICK u : u = SubSeq(c, p + 1, p + d)
      OBVIOUS
<1>4. DOMAIN u = 1..d /\ \A k \in 1..d : u[k] = c[p + k]
  <2> HIDE DEF S
  <2> QED
      BY <1>1, <1>2, <1>3
<1>5. u = [k \in DOMAIN u |-> u[k]]
  <2> HIDE DEF S
  <2>1. PICK m \in Int, r \in Int : m = p + 1 /\ r = p + d
        OBVIOUS
  <2>2. \A k \in m..r : c[k] \in S
    <3>1. \A k \in m..r : k \in 1..Len(c)
          BY <1>1, <1>2, <2>1
    <3> QED
        BY <1>1, <3>1, ElementOfSeq, Zenon
  <2>3. u = SubSeq(c, m, r)
        BY <1>3, <2>1
  <2>4. SubSeq(c, m, r) \in Seq(S)
        BY <2>2, SubSeqProperties, Zenon
  <2>5. u \in Seq(S)
        BY <2>3, <2>4
  <2> QED
      BY <2>5
<1>6. u = [k \in 1..d |-> c[p + k]]
      BY <1>4, <1>5
<1> QED
    BY <1>2, <1>3, <1>6 DEF Run, Slice

\* The end of batch j of a list of n.
EndOf(j, n) == IF j * BatchSize <= n THEN j * BatchSize ELSE n

\* Batch b of the list and where it ends.
BatchOf(coins, b) ==
    SubSeq(coins, (b - 1) * BatchSize + 1, Min({b * BatchSize, Len(coins)}))

\* The smaller of two numbers.
LEMMA MinOfTwo ==
    ASSUME NEW x \in Nat, NEW y \in Nat
    PROVE  Min({x, y}) = IF x <= y THEN x ELSE y
<1>1. PICK m : m = Min({x, y})
      OBVIOUS
<1>2. \E z \in {x, y} : \A y1 \in {x, y} : z <= y1
      OBVIOUS
<1>3. m \in {x, y} /\ \A z \in {x, y} : m <= z
      BY <1>1, <1>2 DEF Min
<1> QED
    BY <1>1, <1>3

\* The flags of a run of the list are a run of the list's flags.
LEMMA FlagsOfRun ==
    ASSUME NEW c, NEW n \in Nat, IsList(c, n),
           NEW p \in Nat, NEW d \in Nat, p + d <= n, NEW sp, NEW F,
           F = CheckCoinsSpent(c, sp)
    PROVE  CheckCoinsSpent(Run(c, p, d), sp) = Run(F, p, d)
<1>1. DOMAIN c = 1..n
      BY DEF IsList
<1>2. \A k \in 1..d : p + k \in 1..n
      OBVIOUS
<1>3. F = [k \in 1..n |-> c[k].id \in sp]
      BY <1>1 DEF CheckCoinsSpent
<1>4. \A k \in 1..d : F[p + k] = (c[p + k].id \in sp)
      BY <1>2, <1>3
<1>5. PICK r : r = [k \in 1..d |-> c[p + k]]
      OBVIOUS
<1>6. DOMAIN r = 1..d /\ \A k \in 1..d : r[k] = c[p + k]
      BY <1>5
<1>7. CheckCoinsSpent(r, sp) = [k \in 1..d |-> r[k].id \in sp]
      BY <1>6 DEF CheckCoinsSpent
<1>8. [k \in 1..d |-> r[k].id \in sp] = [k \in 1..d |-> F[p + k]]
      BY <1>4, <1>6
<1> QED
    BY <1>5, <1>7, <1>8 DEF Run

\* The flags of batch j are those after the batches before it.
LEMMA FlagsOfBatch ==
    ASSUME BatchSize \in Nat \ {0}, NEW n \in Nat,
           NEW c, IsList(c, n), NEW sp, NEW F,
           F = CheckCoinsSpent(c, sp),
           NEW j \in 1..NumBatches(n)
    PROVE  /\ EndOf(j - 1, n) \in Nat /\ EndOf(j, n) \in Nat
           /\ EndOf(j - 1, n) <= EndOf(j, n)
           /\ CheckCoinsSpent(BatchOf(c, j), sp)
                 = Run(F, EndOf(j - 1, n), EndOf(j, n) - EndOf(j - 1, n))
<1>1. PICK b \in Nat \ {0} : b = BatchSize
      OBVIOUS
<1>2. PICK N \in Nat : N = NumBatches(n) /\ \A m \in Nat : m < N => m * BatchSize < n
      BY NumBatchesIs
<1>3. PICK i0 \in Nat : i0 = j - 1 /\ j = i0 + 1 /\ i0 < N
      BY <1>2
<1>4. i0 * b \in Nat /\ j * b = i0 * b + b /\ j * b \in Nat
  <2>1. i0 * b \in Nat /\ (i0 + 1) * b = i0 * b + b
        BY BatchProducts
  <2> QED
      BY <1>3, <2>1
<1>5. PICK p \in Nat : p = i0 * b /\ p < n
      BY <1>1, <1>2, <1>3, <1>4
<1>6. PICK e \in Nat : e = j * b /\ e = p + b
      BY <1>4, <1>5
<1>7. PICK q \in Nat : q = (IF e <= n THEN e ELSE n) /\ p <= q /\ q <= n
      BY <1>5, <1>6
<1>8. EndOf(j - 1, n) = p /\ EndOf(j, n) = q
  <2>1. EndOf(i0, n) = p
        BY <1>1, <1>5 DEF EndOf
  <2>2. EndOf(j, n) = q
        BY <1>1, <1>6, <1>7 DEF EndOf
  <2> QED
      BY <1>3, <2>1, <2>2
<1>9. Len(c) = n
      BY DEF IsList
<1>10. Min({e, n}) = q
      BY <1>7, MinOfTwo
<1>11. BatchOf(c, j) = Slice(c, p, q)
      BY <1>1, <1>3, <1>5, <1>6, <1>9, <1>10 DEF BatchOf, Slice
<1>12. PICK d \in Nat : d = q - p /\ p + d <= n
      BY <1>7
<1>13. BatchOf(c, j) = Run(c, p, d)
  <2>1. Slice(c, p, q) = Run(c, p, q - p)
        BY <1>7, BatchIs
  <2> QED
      BY <1>11, <1>12, <2>1
<1>14. CheckCoinsSpent(BatchOf(c, j), sp) = Run(F, p, d)
      BY <1>12, <1>13, FlagsOfRun
<1> QED
    BY <1>7, <1>8, <1>12, <1>14

\* The key images asked for in batches of BatchSize get the answers they get
\* asked for at once.
LEMMA BatchesAgree ==
    ASSUME BatchSize \in Nat \ {0}, NEW n \in Nat,
           NEW c, IsList(c, n), NEW sp
    PROVE  CheckSpentInBatches(c, sp) = CheckCoinsSpent(c, sp)
<1>1. PICK F : F = CheckCoinsSpent(c, sp)
      OBVIOUS
<1>2. PICK N \in Nat :
         /\ N = NumBatches(n) /\ n <= N * BatchSize /\ (N = 0 <=> n = 0)
      BY NumBatchesIs
<1>3. Len(c) = n /\ DOMAIN c = 1..n
      BY DEF IsList
<1>4. PICK s : s = [b \in 1..N |-> CheckCoinsSpent(BatchOf(c, b), sp)]
      OBVIOUS
<1>5. CheckSpentInBatches(c, sp) = FlattenSeq(s)
      BY <1>2, <1>3, <1>4 DEF CheckSpentInBatches, BatchOf
<1>6. Len(s) = N
      BY <1>4
<1>7. IsList(F, n)
      BY <1>1, <1>3 DEF CheckCoinsSpent, IsList
<1>8. CASE N = 0
  <2>1. n = 0
        BY <1>2, <1>8
  <2>2. FlattenSeq(s) = s
        BY <1>6, <1>8 DEF FlattenSeq
  <2>3. s = F
        BY <1>4, <1>7, <1>8, <2>1 DEF IsList
  <2> QED
      BY <1>1, <1>5, <2>2, <2>3
<1>9. CASE N # 0
  <2> DEFINE h == [j \in 1..N |-> Run(F, 0, EndOf(j, n))]
  <2>1. \A j \in 1..N :
           /\ EndOf(j - 1, n) \in Nat /\ EndOf(j, n) \in Nat
           /\ EndOf(j - 1, n) <= EndOf(j, n)
           /\ s[j] = Run(F, EndOf(j - 1, n), EndOf(j, n) - EndOf(j - 1, n))
    <3> SUFFICES ASSUME NEW j \in 1..N
                 PROVE  /\ EndOf(j - 1, n) \in Nat /\ EndOf(j, n) \in Nat
                        /\ EndOf(j - 1, n) <= EndOf(j, n)
                        /\ s[j] = Run(F, EndOf(j - 1, n),
                                          EndOf(j, n) - EndOf(j - 1, n))
        OBVIOUS
    <3>1. j \in 1..NumBatches(n)
          BY <1>2
    <3>2. s[j] = CheckCoinsSpent(BatchOf(c, j), sp)
          BY <1>4
    <3>3. /\ EndOf(j - 1, n) \in Nat /\ EndOf(j, n) \in Nat
          /\ EndOf(j - 1, n) <= EndOf(j, n)
          /\ CheckCoinsSpent(BatchOf(c, j), sp)
                = Run(F, EndOf(j - 1, n), EndOf(j, n) - EndOf(j - 1, n))
          BY <1>1, <3>1, FlagsOfBatch
    <3> QED
        BY <3>2, <3>3
  <2>2. DOMAIN h = 1..N
        OBVIOUS
  <2>3. h[1] = s[1]
    <3>1. 1 \in 1..N /\ 1 - 1 = 0
          BY <1>9
    <3>2. EndOf(0, n) = 0
      <4>1. 0 * BatchSize = 0
            OBVIOUS
      <4> QED
          BY <4>1 DEF EndOf
    <3>3. PICK e \in Nat : e = EndOf(1, n)
          BY <2>1, <3>1
    <3>4. s[1] = Run(F, 0, e - 0)
          BY <2>1, <3>1, <3>2, <3>3
    <3>5. h[1] = Run(F, 0, e)
          BY <3>1, <3>3
    <3> HIDE DEF h
    <3> QED
        BY <3>4, <3>5
  <2>4. ASSUME NEW j \in 2..N PROVE h[j] = h[j - 1] \o s[j]
    <3>1. j \in 1..N /\ j - 1 \in 1..N
          OBVIOUS
    <3>2. PICK p \in Nat : p = EndOf(j - 1, n)
          BY <2>1, <3>1
    <3>3. PICK q \in Nat : q = EndOf(j, n) /\ p <= q
          BY <2>1, <3>1, <3>2
    <3>4. PICK d \in Nat : d = q - p /\ p + d = q
          BY <3>3
    <3>5. s[j] = Run(F, p, d)
          BY <2>1, <3>1, <3>2, <3>3, <3>4
    <3>6. h[j - 1] = Run(F, 0, p) /\ h[j] = Run(F, 0, q)
          BY <3>1, <3>2, <3>3
    <3>7. Run(F, 0, p) \o Run(F, p, d) = Run(F, 0, p + d)
          BY FrontAndBatch
    <3> HIDE DEF h
    <3> QED
        BY <3>4, <3>5, <3>6, <3>7
  <2>5. h[N] = F
    <3>1. N \in 1..N
          BY <1>9
    <3>2. EndOf(N, n) = n
      <4>1. PICK x \in Nat : x = N * BatchSize
            BY ProductIsNat
      <4>2. n <= x
            BY <1>2, <4>1
      <4> QED
          BY <4>1, <4>2 DEF EndOf
    <3>3. h[N] = Run(F, 0, n)
          BY <3>1, <3>2
    <3>4. Run(F, 0, n) = [k \in 1..n |-> F[k]]
      <4>1. [k \in 1..n |-> F[0 + k]] = [k \in 1..n |-> F[k]]
            OBVIOUS
      <4> QED
          BY <4>1 DEF Run
    <3> HIDE DEF h
    <3> QED
        BY <1>7, <3>3, <3>4 DEF IsList
  <2>6. FlattenSeq(s) = h[N]
    <3> HIDE DEF h
    <3>1. N \in Nat \ {0}
          BY <1>9
    <3>2. Grows(h, s, N)
          BY <2>2, <2>3, <2>4 DEF Grows
    <3> QED
        BY <1>6, <3>1, <3>2, FlattenGrows
  <2> QED
      BY <1>1, <1>5, <2>5, <2>6
<1> QED
    BY <1>8, <1>9

-----------------------------------------------------------------------------
(* The coins a query gives                                                 *)

\* The elements of a list at some positions.
At(s, K) == {s[k] : k \in K}

\* The elements kept.
LEMMA KeptSet ==
    ASSUME NEW n \in Nat, NEW s, NEW K, K \subseteq 1..n
    PROVE  ToSet(Kept(s, K)) = At(s, K)
<1>1. PICK c \in Nat : c = Cardinality(K)
      BY RankIsNat
<1>2. PICK t : t = Kept(s, K)
      OBVIOUS
<1>3. DOMAIN t = 1..c /\ \A j \in 1..c : t[j] = s[Nth(K, j)]
      BY <1>1, <1>2 DEF Kept
<1>4. /\ \A j \in 1..c : Nth(K, j) \in K
      /\ \A k \in K : Rank(K, k) \in 1..c /\ Nth(K, Rank(K, k)) = k
      BY <1>1, NthKept
<1>5. ToSet(t) \subseteq {s[k] : k \in K}
  <2> SUFFICES ASSUME NEW j \in 1..c PROVE t[j] \in {s[k] : k \in K}
      BY <1>3 DEF ToSet
  <2>1. t[j] = s[Nth(K, j)] /\ Nth(K, j) \in K
        BY <1>3, <1>4
  <2> QED
      BY <2>1
<1>6. ASSUME NEW k \in K PROVE s[k] \in ToSet(t)
  <2>1. t[Rank(K, k)] = s[k] /\ Rank(K, k) \in DOMAIN t
        BY <1>3, <1>4
  <2> QED
      BY <2>1 DEF ToSet
<1> QED
    BY <1>2, <1>5, <1>6 DEF At

\* The elements kept are a list.
LEMMA KeptIsList ==
    ASSUME NEW n \in Nat, NEW s, NEW K, K \subseteq 1..n
    PROVE  \E c \in Nat : IsList(Kept(s, K), c)
BY KeptList DEF IsList

\* The coins that decrypt.
LEMMA DecryptedCoins ==
    ASSUME NEW n \in Nat, NEW x, IsList(x, n)
    PROVE  /\ ToSet(GetListDecryptedCoins(x))
                 = {c \in ToSet(x) : c.ver = 1 \/ c.ok}
           /\ \E d \in Nat : IsList(GetListDecryptedCoins(x), d)
<1> DEFINE K == {k \in DOMAIN x : x[k].ver = 1 \/ x[k].ok}
<1>1. DOMAIN x = 1..n
      BY DEF IsList
<1>2. K \subseteq 1..n
      BY <1>1
<1>3. GetListDecryptedCoins(x) = Kept(x, K)
      BY DEF GetListDecryptedCoins
<1>4. /\ ToSet(Kept(x, K)) = At(x, K)
      /\ \E d \in Nat : IsList(Kept(x, K), d)
  <2> HIDE DEF K
  <2> QED
      BY <1>2, KeptSet, KeptIsList
<1>5. At(x, K) = {c \in ToSet(x) : c.ver = 1 \/ c.ok}
      BY DEF ToSet, At
<1> HIDE DEF K
<1> QED
    BY <1>3, <1>4, <1>5

\* The positions of the coins a query wants.
Wanted(dec, F, want) == {m \in DOMAIN dec : F[m] = want /\ dec[m].val # 0}

\* The coins of a query: those wanted of the coins that decrypt, and are worth
\* anything.
LEMMA CoinsQueried ==
    ASSUME NEW n \in Nat, NEW x, IsList(x, n), NEW F, NEW want,
           NEW dec, dec = GetListDecryptedCoins(x)
    PROVE  CoinsOf(PairUp(x, F, want)) = {dec[k] : k \in Wanted(dec, F, want)}
<1>2. PICK d \in Nat : DOMAIN dec = 1..d
      BY DecryptedCoins DEF IsList
<1>3. PICK H : H = Wanted(dec, F, want)
      OBVIOUS
<1>4. PICK all : all = [k \in DOMAIN dec |-> [coin |-> dec[k], idx |-> x[k].idx]]
      OBVIOUS
<1>5. PairUp(x, F, want) = Kept(all, H)
      BY <1>3, <1>4 DEF PairUp, Wanted
<1>6. H \subseteq 1..d
      BY <1>2, <1>3 DEF Wanted
<1>7. ToSet(Kept(all, H)) = At(all, H)
      BY <1>6, KeptSet
<1>8. \A k \in H : all[k].coin = dec[k]
      BY <1>2, <1>4, <1>6
<1>9. CoinsOf(Kept(all, H)) = {dec[k] : k \in H}
  <2>1. CoinsOf(Kept(all, H)) = {e.coin : e \in {all[k] : k \in H}}
        BY <1>7 DEF CoinsOf, At
  <2>2. {e.coin : e \in {all[k] : k \in H}} = {all[k].coin : k \in H}
        OBVIOUS
  <2>3. {all[k].coin : k \in H} = {dec[k] : k \in H}
        BY <1>8
  <2> QED
      BY <2>1, <2>2, <2>3
<1> QED
    BY <1>3, <1>5, <1>9

\* The query of the unspent coins, with one call for all key images, and what
\* it and the query of the spent coins choose from.
AskedAtOnce(x, sp) ==
    PairUp(x, CheckCoinsSpent(GetListDecryptedCoins(x), sp), FALSE)
UnspentOf(S, sp) == {c \in S : c.val # 0 /\ c.id \notin sp}
SpentOf(S, sp) == {c \in S : c.val # 0 /\ c.id \in sp}

\* Asking the node which of the coins are spent splits them.
LEMMA SpentAndUnspent ==
    ASSUME NEW n \in Nat, NEW x, IsList(x, n), NEW sp
    PROVE  LET dec == GetListDecryptedCoins(x)
           IN  /\ CoinsOf(AskedAtOnce(x, sp)) = UnspentOf(ToSet(dec), sp)
               /\ CoinsOf(GetSpentOutputCoins(x, sp)) = SpentOf(ToSet(dec), sp)
<1>0. PICK dec : dec = GetListDecryptedCoins(x)
      OBVIOUS
<1>1. PICK F : F = CheckCoinsSpent(dec, sp)
      OBVIOUS
<1>2. PICK yes, no : yes = TRUE /\ no = FALSE
      OBVIOUS
<1>3. \A k \in DOMAIN dec : /\ F[k] = no <=> dec[k].id \notin sp
                            /\ F[k] = yes <=> dec[k].id \in sp
  <2> SUFFICES ASSUME NEW k \in DOMAIN dec
               PROVE  /\ F[k] = no <=> dec[k].id \notin sp
                      /\ F[k] = yes <=> dec[k].id \in sp
      OBVIOUS
  <2>1. F[k] = (dec[k].id \in sp)
        BY <1>1 DEF CheckCoinsSpent
  <2>2. CASE dec[k].id \in sp
    <3>1. (dec[k].id \in sp) = TRUE
          BY <2>2
    <3> QED
        BY <1>2, <2>1, <2>2, <3>1
  <2>3. CASE dec[k].id \notin sp
    <3>1. (dec[k].id \in sp) = FALSE
          BY <2>3
    <3> QED
        BY <1>2, <2>1, <2>3, <3>1
  <2> QED
      BY <2>2, <2>3
<1>4. CoinsOf(PairUp(x, F, no)) = {dec[k] : k \in Wanted(dec, F, no)}
      BY <1>0, CoinsQueried
<1>5. CoinsOf(PairUp(x, F, yes)) = {dec[k] : k \in Wanted(dec, F, yes)}
      BY <1>0, CoinsQueried
<1>6. {dec[k] : k \in Wanted(dec, F, no)}
         = UnspentOf(ToSet(dec), sp)
      BY <1>3 DEF ToSet, Wanted, UnspentOf
<1>7. {dec[k] : k \in Wanted(dec, F, yes)}
         = SpentOf(ToSet(dec), sp)
      BY <1>3 DEF ToSet, Wanted, SpentOf
<1> QED
    BY <1>0, <1>1, <1>2, <1>4, <1>5, <1>6, <1>7 DEF AskedAtOnce, GetSpentOutputCoins

\* Two lists, one after the other.
Join(s, t) == s \o t

\* The elements of two lists, one after the other.
LEMMA Joined ==
    ASSUME NEW p \in Nat, NEW d \in Nat, NEW s, NEW t, IsList(s, p), IsList(t, d)
    PROVE  /\ IsList(Join(s, t), p + d)
           /\ \A k \in 1..p : Join(s, t)[k] = s[k]
           /\ \A k \in 1..d : Join(s, t)[p + k] = t[k]
           /\ ToSet(Join(s, t)) = ToSet(s) \cup ToSet(t)
<1> DEFINE S == ToSet(s) \cup ToSet(t)
<1>1. DOMAIN s = 1..p /\ DOMAIN t = 1..d
      BY DEF IsList
<1>2. s \in Seq(S) /\ Len(s) = p
  <2>1. s = [k \in 1..p |-> s[k]] /\ \A k \in 1..p : s[k] \in S
        BY <1>1 DEF IsList, ToSet
  <2> HIDE DEF S
  <2> QED
      BY <2>1
<1>3. t \in Seq(S) /\ Len(t) = d
  <2>1. t = [k \in 1..d |-> t[k]] /\ \A k \in 1..d : t[k] \in S
        BY <1>1 DEF IsList, ToSet
  <2> HIDE DEF S
  <2> QED
      BY <2>1
<1>4. PICK u : u = s \o t
      OBVIOUS
<1>5. /\ u \in Seq(S) /\ Len(u) = p + d
      /\ \A k \in 1..(p + d) : u[k] = IF k <= p THEN s[k] ELSE t[k - p]
  <2> HIDE DEF S
  <2> QED
      BY <1>2, <1>3, <1>4, ConcatProperties
<1>6. IsList(u, p + d) /\ DOMAIN u = 1..(p + d)
  <2> HIDE DEF S
  <2> QED
      BY <1>5 DEF IsList
<1>7. \A k \in 1..p : k \in 1..(p + d) /\ u[k] = s[k]
      BY <1>5
<1>8. \A k \in 1..d : p + k \in 1..(p + d) /\ u[p + k] = t[k]
  <2> SUFFICES ASSUME NEW k \in 1..d
               PROVE  p + k \in 1..(p + d) /\ u[p + k] = t[k]
      OBVIOUS
  <2>1. p + k \in 1..(p + d) /\ ~(p + k <= p) /\ (p + k) - p = k
        OBVIOUS
  <2>2. u[p + k] = t[(p + k) - p]
        BY <1>5, <2>1
  <2> QED
      BY <2>1, <2>2
<1>9. ToSet(u) = S
  <2>1. ASSUME NEW k \in 1..(p + d) PROVE u[k] \in S
    <3>1. CASE k <= p
          BY <1>1, <1>7, <3>1 DEF ToSet
    <3>2. CASE ~(k <= p)
      <4>1. PICK m \in 1..d : k = p + m
        <5>1. k - p \in 1..d /\ k = p + (k - p)
              BY <3>2
        <5> QED
            BY <5>1
      <4> QED
          BY <1>1, <1>8, <4>1 DEF ToSet
    <3> QED
        BY <3>1, <3>2
  <2>2. ASSUME NEW k \in 1..p PROVE s[k] \in ToSet(u)
        BY <1>6, <1>7 DEF ToSet
  <2>3. ASSUME NEW k \in 1..d PROVE t[k] \in ToSet(u)
        BY <1>6, <1>8 DEF ToSet
  <2> QED
      BY <1>1, <1>6, <2>1, <2>2, <2>3 DEF ToSet
<1> QED
    BY <1>4, <1>6, <1>7, <1>8, <1>9 DEF Join

\* What the cache is asked for: version 2 coins as they were cached, version 1
\* coins as the node gives them, without their indices.
CacheList(out) ==
    LET v1 == Kept(out, {k \in DOMAIN out : out[k].ver = 1})
    IN  V2(out) \o [k \in DOMAIN v1 |-> [v1[k] EXCEPT !.idx = -1]]

\* The same coin, but for its index.
SameCoin(c, e) == e.id = c.id /\ e.val = c.val /\ e.ver = c.ver /\ e.ok = c.ok

\* The cache list holds the coins of the account.
LEMMA CacheAndNode ==
    ASSUME NEW out, OwnCoins(out)
    PROVE  /\ \E n \in Nat : IsList(CacheList(out), n)
           /\ \A c \in ToSet(out) : \E e \in ToSet(CacheList(out)) : SameCoin(c, e)
           /\ \A e \in ToSet(CacheList(out)) : \E c \in ToSet(out) : SameCoin(c, e)
           /\ \A e \in ToSet(CacheList(out)) : e.ver = 1 => e.idx = -1
<1>0. PICK all : all = CacheList(out)
      OBVIOUS
<1>1. PICK n \in Nat : DOMAIN out = 1..n /\ IsList(out, n)
      BY DEF OwnCoins, IsList
<1>2. PICK K1, K2 : /\ K1 = {k \in DOMAIN out : out[k].ver = 1}
                    /\ K2 = {k \in DOMAIN out : out[k].ver = 2}
      OBVIOUS
<1>3. K1 \subseteq 1..n /\ K2 \subseteq 1..n
      BY <1>1, <1>2
<1>4. PICK v2 : v2 = V2(out) /\ v2 = Kept(out, K2)
      BY <1>2 DEF V2
<1>5. PICK v1 : v1 = Kept(out, K1)
      OBVIOUS
<1>6. PICK p \in Nat : IsList(v2, p) /\ ToSet(v2) = At(out, K2)
      BY <1>3, <1>4, KeptSet, KeptIsList
<1>7. PICK d \in Nat : IsList(v1, d) /\ ToSet(v1) = At(out, K1)
      BY <1>3, <1>5, KeptSet, KeptIsList
<1>8. PICK w : w = [k \in DOMAIN v1 |-> [v1[k] EXCEPT !.idx = -1]]
      OBVIOUS
<1>9. DOMAIN v1 = 1..d /\ all = v2 \o w
  <2>1. all = v2 \o w
        BY <1>0, <1>2, <1>4, <1>5, <1>8 DEF CacheList
  <2> QED
      BY <1>7, <2>1 DEF IsList
<1>10. IsList(w, d) /\ \A k \in 1..d : w[k] = [v1[k] EXCEPT !.idx = -1]
      BY <1>8, <1>9 DEF IsList
<1>11. IsList(all, p + d) /\ ToSet(all) = ToSet(v2) \cup ToSet(w)
  <2>1. /\ IsList(Join(v2, w), p + d)
        /\ ToSet(Join(v2, w)) = ToSet(v2) \cup ToSet(w)
        BY <1>6, <1>10, Joined
  <2> QED
      BY <1>9, <2>1 DEF Join
<1>12. \A k \in 1..d :
          /\ w[k].id = v1[k].id /\ w[k].val = v1[k].val
          /\ w[k].ver = v1[k].ver /\ w[k].ok = v1[k].ok
  <2> SUFFICES ASSUME NEW k \in 1..d
               PROVE  /\ w[k].id = v1[k].id /\ w[k].val = v1[k].val
                      /\ w[k].ver = v1[k].ver /\ w[k].ok = v1[k].ok
      OBVIOUS
  <2>1. v1[k] \in ToSet(v1)
        BY <1>7 DEF IsList, ToSet
  <2>2. PICK m \in K1 : v1[k] = out[m]
        BY <1>7, <2>1 DEF At
  <2>3. v1[k] \in ToSet(out)
        BY <1>1, <1>3, <2>2 DEF ToSet
  <2>4. v1[k] \in CoinType
        BY <2>3, SameKey
  <2>5. w[k] = [v1[k] EXCEPT !.idx = -1]
        BY <1>10
  <2> QED
      BY <2>4, <2>5 DEF CoinType
<1>13. ASSUME NEW c \in ToSet(out)
       PROVE  \E e \in ToSet(all) : SameCoin(c, e)
  <2>1. PICK k \in DOMAIN out : c = out[k]
        BY DEF ToSet
  <2>2. c \in CoinType
        BY SameKey
  <2>3. k \in K1 \/ k \in K2
        BY <1>2, <2>1, <2>2 DEF CoinType
  <2>4. CASE k \in K2
    <3>1. c \in ToSet(all)
          BY <1>6, <1>11, <2>1, <2>4 DEF At
    <3> QED
        BY <3>1 DEF SameCoin
  <2>5. CASE k \in K1
    <3>1. c \in ToSet(v1)
          BY <1>7, <2>1, <2>5 DEF At
    <3>2. PICK m \in 1..d : c = v1[m]
          BY <1>7, <3>1 DEF ToSet, IsList
    <3>3. w[m] \in ToSet(all)
          BY <1>10, <1>11 DEF ToSet, IsList
    <3> QED
        BY <1>12, <3>2, <3>3 DEF SameCoin
  <2> QED
      BY <2>3, <2>4, <2>5
<1>14. ASSUME NEW e \in ToSet(all)
       PROVE  \E c \in ToSet(out) : SameCoin(c, e)
  <2>1. e \in ToSet(v2) \/ e \in ToSet(w)
        BY <1>11
  <2>2. CASE e \in ToSet(v2)
    <3>1. PICK k \in K2 : e = out[k]
          BY <1>6, <2>2 DEF At
    <3>2. e \in ToSet(out)
          BY <1>1, <1>3, <3>1 DEF ToSet
    <3> QED
        BY <3>2 DEF SameCoin
  <2>3. CASE e \in ToSet(w)
    <3>1. PICK m \in 1..d : e = w[m]
          BY <1>10, <2>3 DEF ToSet, IsList
    <3>2. v1[m] \in ToSet(v1)
          BY <1>7 DEF ToSet, IsList
    <3>3. PICK k \in K1 : v1[m] = out[k]
          BY <1>7, <3>2 DEF At
    <3>4. v1[m] \in ToSet(out)
          BY <1>1, <1>3, <3>3 DEF ToSet
    <3> QED
        BY <1>12, <3>1, <3>4 DEF SameCoin
  <2> QED
      BY <2>1, <2>2, <2>3
<1>15. \E m \in Nat : IsList(all, m)
  <2>1. p + d \in Nat
        OBVIOUS
  <2> QED
      BY <1>11, <2>1
<1>16. ASSUME NEW e \in ToSet(all), e.ver = 1
       PROVE  e.idx = -1
  <2>1. e \notin ToSet(v2)
    <3> SUFFICES ASSUME e \in ToSet(v2) PROVE FALSE
        OBVIOUS
    <3>1. PICK k \in K2 : e = out[k]
          BY <1>6 DEF At
    <3> QED
        BY <1>2, <1>16, <3>1
  <2>2. PICK m \in 1..d : e = w[m]
        BY <1>10, <1>11, <2>1 DEF ToSet, IsList
  <2>3. v1[m] \in ToSet(v1)
        BY <1>7 DEF ToSet, IsList
  <2>4. PICK k \in K1 : v1[m] = out[k]
        BY <1>7, <2>3 DEF At
  <2>5. v1[m] \in CoinType
        BY <1>1, <1>3, <2>4, SameKey DEF ToSet
  <2> QED
      BY <1>10, <2>2, <2>5 DEF CoinType
<1> QED
    BY <1>0, <1>13, <1>14, <1>15, <1>16

\* Where every coin decrypts, a query pairs each coin with its index.
LEMMA QueriedIndexes ==
    ASSUME NEW n \in Nat, NEW x, IsList(x, n), \A c \in ToSet(x) : c.ok, NEW sp
    PROVE  \A e \in ToSet(AskedAtOnce(x, sp)) : e.idx = e.coin.idx
<1>1. DOMAIN x = 1..n
      BY DEF IsList
<1>2. {k \in DOMAIN x : x[k].ver = 1 \/ x[k].ok} = 1..n
      BY <1>1 DEF ToSet
<1>3. GetListDecryptedCoins(x) = x
      BY <1>2, KeptWhole DEF GetListDecryptedCoins, IsList
<1>4. PICK F : F = CheckCoinsSpent(x, sp)
      OBVIOUS
<1>5. PICK H : H = Wanted(x, F, FALSE)
      OBVIOUS
<1>6. PICK all : all = [k \in DOMAIN x |-> [coin |-> x[k], idx |-> x[k].idx]]
      OBVIOUS
<1>7. AskedAtOnce(x, sp) = Kept(all, H)
      BY <1>3, <1>4, <1>5, <1>6 DEF AskedAtOnce, PairUp, Wanted
<1>8. H \subseteq 1..n
      BY <1>1, <1>5 DEF Wanted
<1>9. ToSet(Kept(all, H)) = At(all, H)
      BY <1>8, KeptSet
<1>10. \A k \in H : all[k].idx = all[k].coin.idx
      BY <1>1, <1>6, <1>8
<1> QED
    BY <1>7, <1>9, <1>10 DEF At

\* One asset's queries agree.
LEMMA AssetAgrees ==
    ASSUME BatchSize \in Nat \ {0}, NEW a, OwnCoins(ledger[a])
    PROVE  AssetQueriesAgree(a)
<1>1. PICK out : out = ledger[a]
      OBVIOUS
<1>2. OwnCoins(out)
      BY <1>1
<1>3. PICK n \in Nat : IsList(out, n)
      BY <1>2 DEF OwnCoins, IsList
<1>4. PICK dec : dec = GetListDecryptedCoins(out)
      OBVIOUS
<1>5. /\ ToSet(dec) = {c \in ToSet(out) : c.ver = 1 \/ c.ok}
      /\ \E d \in Nat : IsList(dec, d)
      BY <1>3, <1>4, DecryptedCoins
<1>6. CheckSpentInBatches(dec, spent) = CheckCoinsSpent(dec, spent)
      BY <1>5, BatchesAgree
<1>7. PICK u : u = GetUnspentOutputCoins(out, spent)
      OBVIOUS
<1>8. u = AskedAtOnce(out, spent)
      BY <1>4, <1>6, <1>7 DEF GetUnspentOutputCoins, AskedAtOnce
<1>9. PICK U : U = UnspentOf(ToSet(dec), spent)
      OBVIOUS
<1>10. PICK T : T = SpentOf(ToSet(dec), spent)
      OBVIOUS
<1>11. CoinsOf(u) = U
      BY <1>3, <1>4, <1>8, <1>9, SpentAndUnspent
<1>12. CoinsOf(GetSpentOutputCoins(out, spent)) = T
      BY <1>3, <1>4, <1>10, SpentAndUnspent
<1>13. PICK known : known = {c \in ToSet(dec) : c.val # 0}
      OBVIOUS
<1>14. U = {c \in known : c.id \notin spent} /\ T = known \ U
      BY <1>9, <1>10, <1>13 DEF UnspentOf, SpentOf
<1>15. {c.id : c \in CoinsOf(GetUnspentOutputCoinsFromCache(V2(out), out, spent))}
          = {c.id : c \in U}
  <2>1. PICK all : all = CacheList(out)
        OBVIOUS
  <2>2. GetUnspentOutputCoinsFromCache(V2(out), out, spent) = AskedAtOnce(all, spent)
        BY <2>1 DEF GetUnspentOutputCoinsFromCache, CacheList, AskedAtOnce
  <2>3. PICK m \in Nat : IsList(all, m)
        BY <1>2, <2>1, CacheAndNode
  <2>4. /\ \A c \in ToSet(out) : \E e \in ToSet(all) : SameCoin(c, e)
        /\ \A e \in ToSet(all) : \E c \in ToSet(out) : SameCoin(c, e)
        BY <1>2, <2>1, CacheAndNode
  <2>5. PICK d2 : d2 = GetListDecryptedCoins(all)
        OBVIOUS
  <2>6. ToSet(d2) = {c \in ToSet(all) : c.ver = 1 \/ c.ok}
        BY <2>3, <2>5, DecryptedCoins
  <2>7. PICK W : W = UnspentOf(ToSet(d2), spent)
        OBVIOUS
  <2>8. CoinsOf(AskedAtOnce(all, spent)) = W
        BY <2>3, <2>5, <2>7, SpentAndUnspent
  <2>9. CoinsOf(GetUnspentOutputCoinsFromCache(V2(out), out, spent)) = W
        BY <2>2, <2>8
  <2>10. \A c \in U : \E e \in W : e.id = c.id
        BY <1>5, <1>9, <2>4, <2>6, <2>7 DEF UnspentOf, SameCoin
  <2>11. \A e \in W : \E c \in U : e.id = c.id
        BY <1>5, <1>9, <2>4, <2>6, <2>7 DEF UnspentOf, SameCoin
  <2>12. {c.id : c \in W} = {c.id : c \in U}
        BY <2>10, <2>11
  <2> QED
      BY <2>9, <2>12
<1>16. Decrypts(a) => \A e \in ToSet(u) : e.idx = e.coin.idx
  <2> SUFFICES ASSUME Decrypts(a) PROVE \A e \in ToSet(u) : e.idx = e.coin.idx
      OBVIOUS
  <2>1. \A c \in ToSet(out) : c.ok
        BY <1>1 DEF Decrypts
  <2>2. IsPairs(u, out) /\ IndexesNamed(u)
        BY <1>2, <1>8, <2>1, QueryPairs DEF AskedAtOnce
  <2>3. DOMAIN u = 1..Len(u)
        BY <2>2 DEF IsPairs
  <2> QED
      BY <2>2, <2>3 DEF IndexesNamed, ToSet
<1>18. PICK q : q = GetUnspentOutputCoinsFromCache(V2(out), out, spent)
      OBVIOUS
<1>19. Decrypts(a) =>
          \A e \in ToSet(q) : e.idx = IF e.coin.ver = 1 THEN -1 ELSE e.coin.idx
  <2> SUFFICES ASSUME Decrypts(a), NEW e \in ToSet(q)
               PROVE  e.idx = IF e.coin.ver = 1 THEN -1 ELSE e.coin.idx
      OBVIOUS
  <2>1. PICK all : all = CacheList(out)
        OBVIOUS
  <2>2. q = AskedAtOnce(all, spent)
        BY <1>18, <2>1 DEF GetUnspentOutputCoinsFromCache, CacheList, AskedAtOnce
  <2>3. PICK m \in Nat : IsList(all, m)
        BY <1>2, <2>1, CacheAndNode
  <2>4. /\ \A x \in ToSet(all) : \E c \in ToSet(out) : SameCoin(c, x)
        /\ \A x \in ToSet(all) : x.ver = 1 => x.idx = -1
        BY <1>2, <2>1, CacheAndNode
  <2>5. \A c \in ToSet(out) : c.ok
        BY <1>1 DEF Decrypts
  <2>6. \A x \in ToSet(all) : x.ok
        BY <2>4, <2>5 DEF SameCoin
  <2>7. e.idx = e.coin.idx
        BY <2>2, <2>3, <2>6, QueriedIndexes
  <2>8. PICK d2 : d2 = GetListDecryptedCoins(all)
        OBVIOUS
  <2>9. ToSet(d2) \subseteq ToSet(all)
        BY <2>3, <2>8, DecryptedCoins
  <2>10. CoinsOf(q) = UnspentOf(ToSet(d2), spent)
        BY <2>2, <2>3, <2>8, SpentAndUnspent
  <2>11. e.coin \in ToSet(all)
        BY <2>9, <2>10 DEF CoinsOf, UnspentOf
  <2> QED
      BY <2>4, <2>7, <2>11
<1>17. /\ CoinsOf(u) = {c \in known : c.id \notin spent}
       /\ CoinsOf(GetSpentOutputCoins(out, spent)) = known \ CoinsOf(u)
       /\ {c.id : c \in CoinsOf(q)} = {c.id : c \in CoinsOf(u)}
      BY <1>11, <1>12, <1>14, <1>15, <1>18
<1> QED
    BY <1>1, <1>4, <1>7, <1>13, <1>16, <1>17, <1>18, <1>19, Zenon DEF AssetQueriesAgree

-----------------------------------------------------------------------------
(* The order of a query's coins                                            *)

\* The positions f names, in increasing order.
InOrderOf(f, m, n) ==
    /\ f \in [1..m -> 1..n]
    /\ \A j, k \in 1..m : j < k => f[j] < f[k]

\* Positions named in increasing order have the ranks they are named at.
LEMMA RanksInOrder ==
    ASSUME NEW n \in Nat, NEW m \in Nat, NEW f, InOrderOf(f, m, n),
           NEW K, K = At(f, 1..m)
    PROVE  \A j \in 1..m : Rank(K, f[j]) = j
<1>0. K = {f[j] : j \in 1..m}
      BY DEF At
<1>1. K \subseteq 1..n
      BY <1>0 DEF InOrderOf
<1> DEFINE P == {j \in Nat : j + 1 <= m => Rank(K, f[j + 1]) = j + 1}
<1>2. 0 \in P
  <2> SUFFICES ASSUME 1 <= m PROVE Rank(K, f[1]) = 1
      OBVIOUS
  <2>1. 1 \in 1..m /\ f[1] \in 1..n /\ f[1] \in K
        BY <1>0 DEF InOrderOf
  <2>2. \A x \in K : ~(x < f[1])
    <3> SUFFICES ASSUME NEW k \in 1..m PROVE ~(f[k] < f[1])
        BY <1>0
    <3>1. f[k] \in 1..n
          BY DEF InOrderOf
    <3>2. CASE k = 1
          BY <2>1, <3>1, <3>2
    <3>3. CASE k # 1
      <4>1. 1 < k
            BY <3>3
      <4>2. f[1] < f[k]
            BY <2>1, <4>1 DEF InOrderOf
      <4> QED
          BY <2>1, <3>1, <4>2
    <3> QED
        BY <3>2, <3>3
  <2>3. Rank(K, 0) = 0
    <3>1. \A x \in K : x \in 1..n /\ ~(x <= 0)
          BY <1>1
    <3>2. {x \in K : x <= 0} = {}
          BY <3>1
    <3> QED
        BY <3>2, FS_EmptySet DEF Rank
  <2>4. Rank(K, f[1]) = Rank(K, 0) + 1
    <3>1. 0 < f[1] /\ \A x \in K : x < f[1] => x <= 0
          BY <2>1, <2>2
    <3> QED
        BY <1>1, <2>1, <3>1, NextRank
  <2> QED
      BY <2>3, <2>4
<1>3. ASSUME NEW j \in Nat, j \in P PROVE j + 1 \in P
  <2> SUFFICES ASSUME (j + 1) + 1 <= m PROVE Rank(K, f[(j + 1) + 1]) = (j + 1) + 1
      OBVIOUS
  <2>1. PICK h \in 1..m, l \in 1..m : h = j + 1 /\ l = (j + 1) + 1 /\ h < l
        OBVIOUS
  <2>2. Rank(K, f[h]) = h
        BY <1>3, <2>1
  <2>3. PICK x \in 1..n, y \in 1..n : x = f[h] /\ y = f[l] /\ x < y /\ y \in K
    <3>1. f[h] \in 1..n /\ f[l] \in 1..n /\ f[h] < f[l]
          BY <2>1 DEF InOrderOf
    <3>2. f[l] \in K
          BY <1>0
    <3> QED
        BY <3>1, <3>2
  <2>4. \A z \in K : z < y => z <= x
    <3> SUFFICES ASSUME NEW k \in 1..m, f[k] < y PROVE f[k] <= x
        BY <1>0
    <3>1. f[k] \in 1..n
          BY DEF InOrderOf
    <3>2. k <= h
      <4> SUFFICES ASSUME ~(k <= h) PROVE FALSE
          OBVIOUS
      <4>1. k = l \/ l < k
            BY <2>1
      <4>2. l < k => y < f[k]
            BY <2>3 DEF InOrderOf
      <4> QED
          BY <2>3, <3>1, <4>1, <4>2
    <3>3. k < h => f[k] < x
          BY <2>3 DEF InOrderOf
    <3> QED
        BY <2>3, <3>1, <3>2, <3>3
  <2>5. Rank(K, y) = Rank(K, x) + 1
    <3>1. x \in Nat
          OBVIOUS
    <3> QED
        BY <1>1, <2>3, <2>4, <3>1, NextRank
  <2> QED
      BY <2>1, <2>2, <2>3, <2>5
<1>4. Nat \subseteq P
  <2> HIDE DEF P
  <2> QED
      BY <1>2, <1>3, SetInduction, Zenon
<1>5. ASSUME NEW j \in 1..m PROVE Rank(K, f[j]) = j
  <2>1. j - 1 \in Nat /\ (j - 1) + 1 = j /\ j <= m
        OBVIOUS
  <2>2. j - 1 \in P
        BY <1>4, <2>1
  <2> QED
      BY <2>1, <2>2
<1> QED
    BY <1>5

\* The list of the elements at the positions f names.
Along(s, f, m) == [j \in 1..m |-> s[f[j]]]

\* The elements at positions named in increasing order.
LEMMA KeptInOrder ==
    ASSUME NEW n \in Nat, NEW m \in Nat, NEW f, InOrderOf(f, m, n),
           NEW K, K = At(f, 1..m), NEW s
    PROVE  Kept(s, K) = Along(s, f, m)
<1>0. K = {f[j] : j \in 1..m}
      BY DEF At
<1>1. K \subseteq 1..n
      BY <1>0 DEF InOrderOf
<1>2. \A j \in 1..m : f[j] \in K /\ Rank(K, f[j]) = j
  <2>1. \A j \in 1..m : Rank(K, f[j]) = j
        BY RanksInOrder
  <2> QED
      BY <1>0, <2>1
<1>3. Cardinality(K) \in Nat
      BY <1>1, RankIsNat
<1>4. /\ \A k \in K : Rank(K, k) \in 1..Cardinality(K) /\ Nth(K, Rank(K, k)) = k
      /\ \A j \in 1..Cardinality(K) : Nth(K, j) \in K /\ Rank(K, Nth(K, j)) = j
      BY <1>1, NthKept
<1>5. \A j \in 1..m : j \in 1..Cardinality(K) /\ Nth(K, j) = f[j]
      BY <1>2, <1>4
<1>6. \A j \in 1..Cardinality(K) : j \in 1..m
  <2> SUFFICES ASSUME NEW j \in 1..Cardinality(K) PROVE j \in 1..m
      OBVIOUS
  <2>1. PICK k \in 1..m : Nth(K, j) = f[k]
        BY <1>0, <1>4
  <2>2. Rank(K, f[k]) = j
        BY <1>4, <2>1
  <2> QED
      BY <1>2, <2>2
<1>7. 1..Cardinality(K) = 1..m
      BY <1>5, <1>6
<1>8. Kept(s, K) = [j \in 1..m |-> s[Nth(K, j)]]
      BY <1>7 DEF Kept
<1> QED
    BY <1>5, <1>8 DEF Along

\* Nothing kept.
LEMMA KeptNone == \A s : Kept(s, {}) = <<>>
<1>1. Cardinality({}) = 0
      BY FS_EmptySet
<1> QED
    BY <1>1 DEF Kept

\* The positions of K after o others, and those of K whose ranks are in L.
Shifted(K, o) == {o + k : k \in K}
Ranked(K, L) == {k \in K : Rank(K, k) \in L}

\* The n elements of s stand in t, after o others.
Holds(t, o, s, n) == \A k \in 1..n : t[o + k] = s[k]

\* What is kept of a part of a list is kept of the list: o elements come before
\* the part.
LEMMA KeptShift ==
    ASSUME NEW n \in Nat, NEW N \in Nat, NEW o \in Nat, o + n <= N,
           NEW s, NEW t, Holds(t, o, s, n), NEW K \in SUBSET (1..n)
    PROVE  Kept(t, Shifted(K, o)) = Kept(s, K)
<1>0. PICK M : M = Shifted(K, o)
      OBVIOUS
<1>1. PICK c \in Nat : c = Cardinality(K)
      BY RankIsNat
<1> DEFINE f == [j \in 1..c |-> o + Nth(K, j)]
<1>2. /\ \A j \in 1..c : Nth(K, j) \in K
      /\ \A k \in K : Rank(K, k) \in 1..c /\ Nth(K, Rank(K, k)) = k
      /\ \A j, m \in 1..c : j < m => Nth(K, j) < Nth(K, m)
      BY <1>1, NthKept
<1>3. \A j \in 1..c : Nth(K, j) \in 1..n
      BY <1>2
<1>4. InOrderOf(f, c, N)
  <2>1. f \in [1..c -> 1..N]
    <3>1. \A j \in 1..c : o + Nth(K, j) \in 1..N
          BY <1>3
    <3> QED
        BY <3>1
  <2>2. ASSUME NEW j \in 1..c, NEW k \in 1..c, j < k PROVE f[j] < f[k]
    <3>1. Nth(K, j) < Nth(K, k) /\ Nth(K, j) \in 1..n /\ Nth(K, k) \in 1..n
          BY <1>2, <1>3, <2>2
    <3> QED
        BY <3>1
  <2> QED
      BY <2>1, <2>2 DEF InOrderOf
<1>5. M = At(f, 1..c)
  <2>1. \A k \in K : \E j \in 1..c : o + k = f[j]
        BY <1>2
  <2>2. \A j \in 1..c : \E k \in K : f[j] = o + k
        BY <1>2
  <2> QED
      BY <1>0, <2>1, <2>2 DEF At, Shifted
<1>6. Kept(t, M) = Along(t, f, c)
  <2> HIDE DEF f
  <2> QED
      BY <1>4, <1>5, KeptInOrder
<1>7. \A j \in 1..c : t[f[j]] = s[Nth(K, j)]
      BY <1>3 DEF Holds
<1>8. Kept(s, K) = [j \in 1..c |-> s[Nth(K, j)]]
      BY <1>1 DEF Kept
<1> QED
    BY <1>0, <1>6, <1>7, <1>8 DEF Along

\* What is kept of what is kept.
LEMMA KeptTwice ==
    ASSUME NEW n \in Nat, NEW K, K \subseteq 1..n, NEW s,
           NEW L, L \subseteq 1..Cardinality(K)
    PROVE  Kept(Kept(s, K), L) = Kept(s, Ranked(K, L))
<1> DEFINE M == Ranked(K, L)
           t == Kept(s, K)
<1>1. PICK c \in Nat : c = Cardinality(K)
      BY RankIsNat
<1>2. PICK d \in Nat : d = Cardinality(L)
      BY <1>1, RankIsNat
<1>3. /\ \A j \in 1..c : Nth(K, j) \in K /\ Rank(K, Nth(K, j)) = j
      /\ \A k \in K : Rank(K, k) \in 1..c /\ Nth(K, Rank(K, k)) = k
      /\ \A j, m \in 1..c : j < m => Nth(K, j) < Nth(K, m)
      BY <1>1, NthKept
<1>4. /\ \A j \in 1..d : Nth(L, j) \in L
      /\ \A k \in L : Rank(L, k) \in 1..d /\ Nth(L, Rank(L, k)) = k
      /\ \A j, m \in 1..d : j < m => Nth(L, j) < Nth(L, m)
      BY <1>1, <1>2, NthKept
<1>5. \A j \in 1..d : Nth(L, j) \in 1..c
      BY <1>1, <1>4
<1> DEFINE f == [j \in 1..d |-> Nth(K, Nth(L, j))]
<1>6. InOrderOf(f, d, n)
  <2>1. \A j \in 1..d : Nth(K, Nth(L, j)) \in 1..n
        BY <1>3, <1>5
  <2>2. f \in [1..d -> 1..n]
        BY <2>1
  <2>3. ASSUME NEW j \in 1..d, NEW k \in 1..d, j < k PROVE f[j] < f[k]
    <3>1. Nth(L, j) < Nth(L, k) /\ Nth(L, j) \in 1..c /\ Nth(L, k) \in 1..c
          BY <1>4, <1>5, <2>3
    <3> QED
        BY <1>3, <3>1
  <2> QED
      BY <2>2, <2>3 DEF InOrderOf
<1>7. M = At(f, 1..d)
  <2>1. ASSUME NEW k \in M PROVE \E j \in 1..d : k = f[j]
    <3>1. k \in K /\ Rank(K, k) \in L
          BY DEF Ranked
    <3>2. PICK j \in 1..d : Nth(L, j) = Rank(K, k)
          BY <1>4, <3>1
    <3> QED
        BY <1>3, <3>1, <3>2
  <2>2. ASSUME NEW j \in 1..d PROVE f[j] \in M
    <3>1. f[j] \in K /\ Rank(K, f[j]) = Nth(L, j)
          BY <1>3, <1>5
    <3> QED
        BY <1>4, <3>1 DEF Ranked
  <2> QED
      BY <2>1, <2>2 DEF At
<1>8. Kept(s, M) = Along(s, f, d)
  <2> HIDE DEF f, M
  <2> QED
      BY <1>6, <1>7, KeptInOrder
<1>9. \A j \in 1..c : t[j] = s[Nth(K, j)]
      BY <1>1 DEF Kept
<1>10. Kept(t, L) = [j \in 1..d |-> t[Nth(L, j)]]
      BY <1>2 DEF Kept
<1>11. \A j \in 1..d : t[Nth(L, j)] = s[f[j]]
      BY <1>5, <1>9
<1> QED
    BY <1>8, <1>10, <1>11 DEF Along

\* The positions in D of the elements in G.
Where(t, D, G) == {j \in D : t[j] \in G}
Filtered(t, G) == Kept(t, Where(t, DOMAIN t, G))

\* Elements kept of those kept.
LEMMA KeptFilter ==
    ASSUME NEW n \in Nat, NEW K \in SUBSET (1..n), NEW s, NEW G
    PROVE  Filtered(Kept(s, K), G) = Kept(s, Where(s, K, G))
<1>0. PICK t : t = Kept(s, K)
      OBVIOUS
<1>1. PICK c \in Nat : c = Cardinality(K)
      BY RankIsNat
<1>2. DOMAIN t = 1..c /\ \A j \in 1..c : t[j] = s[Nth(K, j)]
      BY <1>0, <1>1 DEF Kept
<1>3. \A k \in K : Rank(K, k) \in 1..c /\ Nth(K, Rank(K, k)) = k
      BY <1>1, NthKept
<1>4. PICK L : L = Where(t, DOMAIN t, G)
      OBVIOUS
<1>5. L \subseteq 1..Cardinality(K)
      BY <1>1, <1>2, <1>4 DEF Where
<1>6. \A k \in K : t[Rank(K, k)] = s[k]
      BY <1>2, <1>3
<1>7. Ranked(K, L) = Where(s, K, G)
      BY <1>2, <1>3, <1>4, <1>6 DEF Ranked, Where
<1>8. Kept(Kept(s, K), L) = Kept(s, Ranked(K, L))
      BY ZenonT(60), <1>5, KeptTwice
<1> QED
    BY <1>0, <1>4, <1>7, <1>8 DEF Filtered

\* Every coin with its index, and the positions of the unspent coins worth
\* anything.
Paired(x) == [k \in DOMAIN x |-> [coin |-> x[k], idx |-> x[k].idx]]
Unspents(x, sp) == {k \in DOMAIN x : x[k].val # 0 /\ x[k].id \notin sp}

\* Where every coin decrypts, the query gives the unspent coins, each with its
\* index, in the order of the list.
LEMMA WholeQuery ==
    ASSUME BatchSize \in Nat \ {0}, NEW n \in Nat, NEW x, IsList(x, n),
           \A k \in 1..n : x[k].ok, NEW sp
    PROVE  GetUnspentOutputCoins(x, sp) = Kept(Paired(x), Unspents(x, sp))
<1>1. DOMAIN x = 1..n
      BY DEF IsList
<1>2. {k \in DOMAIN x : x[k].ver = 1 \/ x[k].ok} = 1..n
      BY <1>1
<1>3. Kept(x, 1..n) = x
      BY KeptWhole DEF IsList
<1>4. GetListDecryptedCoins(x) = x
      BY <1>2, <1>3 DEF GetListDecryptedCoins
<1>5. PICK F : F = CheckCoinsSpent(x, sp)
      OBVIOUS
<1>6. GetUnspentOutputCoins(x, sp) = PairUp(x, F, FALSE)
      BY <1>4, <1>5, BatchesAgree DEF GetUnspentOutputCoins
<1>7. PICK no : no = FALSE
      OBVIOUS
<1>8. \A k \in DOMAIN x : F[k] = no <=> x[k].id \notin sp
  <2> SUFFICES ASSUME NEW k \in DOMAIN x
               PROVE  F[k] = no <=> x[k].id \notin sp
      OBVIOUS
  <2>1. F[k] = (x[k].id \in sp)
        BY <1>5 DEF CheckCoinsSpent
  <2>2. CASE x[k].id \in sp
    <3>1. (x[k].id \in sp) = TRUE
          BY <2>2
    <3> QED
        BY <1>7, <2>1, <2>2, <3>1
  <2>3. CASE x[k].id \notin sp
    <3>1. (x[k].id \in sp) = FALSE
          BY <2>3
    <3> QED
        BY <1>7, <2>1, <2>3, <3>1
  <2> QED
      BY <2>2, <2>3
<1>9. PICK H : H = {k \in DOMAIN x : F[k] = no /\ x[k].val # 0}
      OBVIOUS
<1>10. H = Unspents(x, sp)
      BY <1>8, <1>9 DEF Unspents
<1>11. PairUp(x, F, no) = Kept(Paired(x), H)
      BY <1>4, <1>9 DEF PairUp, Paired
<1> QED
    BY <1>6, <1>7, <1>10, <1>11

\* Asking for the version 2 coins alone gives what the query of all gives of
\* version 2.
LEMMA VersionQuery ==
    ASSUME BatchSize \in Nat \ {0}, NEW n \in Nat, NEW x, IsList(x, n),
           \A k \in 1..n : x[k].ok, NEW sp
    PROVE  Kept(Paired(V2(x)), Unspents(V2(x), sp))
              = OfVersion(GetUnspentOutputCoins(x, sp), 2)
<1>1. DOMAIN x = 1..n
      BY DEF IsList
<1>2. PICK K : K = {k \in DOMAIN x : x[k].ver = 2}
      OBVIOUS
<1>3. K \subseteq 1..n
      BY <1>1, <1>2
<1>4. PICK U : U = Unspents(x, sp)
      OBVIOUS
<1>5. U \subseteq 1..n
      BY <1>1, <1>4 DEF Unspents
<1>6. PICK p : p = Paired(x)
      OBVIOUS
<1>7. DOMAIN p = 1..n /\ \A k \in 1..n : p[k] = [coin |-> x[k], idx |-> x[k].idx]
      BY <1>1, <1>6 DEF Paired
<1>8. PICK u : u = Kept(p, U)
      OBVIOUS
<1>9. OfVersion(GetUnspentOutputCoins(x, sp), 2)
         = Kept(u, {k \in DOMAIN u : u[k].coin.ver = 2})
  <2>1. GetUnspentOutputCoins(x, sp) = u
        BY <1>4, <1>6, <1>8, WholeQuery
  <2> QED
      BY <2>1 DEF OfVersion
<1> DEFINE G == {e \in ToSet(p) : e.coin.ver = 2}
           H == {e \in ToSet(p) : e.coin.val # 0 /\ e.coin.id \notin sp}
<1>10. \A k \in 1..n : p[k] \in ToSet(p)
      BY <1>7 DEF ToSet
<1>11. Kept(u, {k \in DOMAIN u : u[k].coin.ver = 2}) = Kept(p, Where(p, U, G))
  <2>1. ToSet(u) \subseteq ToSet(p)
    <3>1. ToSet(u) = At(p, U)
          BY <1>5, <1>8, KeptSet
    <3> QED
        BY <1>5, <1>10, <3>1 DEF At
  <2>2. {k \in DOMAIN u : u[k].coin.ver = 2} = Where(u, DOMAIN u, G)
        BY <2>1 DEF Where, ToSet
  <2> HIDE DEF G
  <2>3. Filtered(u, G) = Kept(p, Where(p, U, G))
    <3>1. U \in SUBSET (1..n)
          BY <1>5
    <3> QED
        BY <1>8, <3>1, KeptFilter
  <2> QED
      BY <2>2, <2>3 DEF Filtered
<1>12. PICK v : v = V2(x) /\ v = Kept(x, K)
      BY <1>2 DEF V2
<1>13. PICK q : q = Kept(p, K)
      OBVIOUS
<1>14. PICK c \in Nat : c = Cardinality(K)
      BY <1>3, RankIsNat
<1>15. DOMAIN v = 1..c /\ \A j \in 1..c : v[j] = x[Nth(K, j)]
      BY <1>12, <1>14 DEF Kept
<1>16. \A j \in 1..c : Nth(K, j) \in 1..n
      BY <1>3, <1>14, NthKept
<1>17. q = [j \in 1..c |-> p[Nth(K, j)]]
      BY <1>13, <1>14 DEF Kept
<1>18. \A j \in 1..c : p[Nth(K, j)] = [coin |-> v[j], idx |-> v[j].idx]
      BY <1>7, <1>15, <1>16
<1>19. Paired(v) = q
      BY <1>15, <1>17, <1>18 DEF Paired
<1>20. Kept(q, Unspents(v, sp)) = Kept(p, Where(p, K, H))
  <2>1. \A j \in 1..c : q[j] \in ToSet(p) /\ q[j].coin = v[j]
    <3> SUFFICES ASSUME NEW j \in 1..c
                 PROVE  q[j] \in ToSet(p) /\ q[j].coin = v[j]
        OBVIOUS
    <3>1. q[j] = [coin |-> v[j], idx |-> v[j].idx]
          BY <1>17, <1>18
    <3>2. q[j] \in ToSet(p)
          BY <1>10, <1>16, <1>17
    <3> QED
        BY <3>1, <3>2
  <2>2. DOMAIN q = 1..c
        BY <1>17
  <2>3. Unspents(v, sp) = Where(q, DOMAIN q, H)
        BY <1>15, <2>1, <2>2 DEF Unspents, Where
  <2> HIDE DEF H
  <2>4. Filtered(Kept(p, K), H) = Kept(p, Where(p, K, H))
    <3>1. K \in SUBSET (1..n)
          BY <1>3
    <3> QED
        BY ZenonT(60), <3>1, KeptFilter
  <2> QED
      BY <1>13, <2>3, <2>4 DEF Filtered
<1>21. Where(p, K, H) = Where(p, U, G)
  <2>1. \A k \in 1..n : /\ p[k] \in G <=> x[k].ver = 2
                        /\ p[k] \in H <=> x[k].val # 0 /\ x[k].id \notin sp
        BY <1>7, <1>10
  <2> HIDE DEF G, H
  <2> QED
      BY <1>1, <1>2, <1>4, <2>1 DEF Where, Unspents
<1> HIDE DEF G, H
<1> QED
    BY <1>9, <1>11, <1>12, <1>19, <1>20, <1>21

-----------------------------------------------------------------------------
(* The umbrella asset                                                      *)

\* A list of N lists.
IsLists(s, N) ==
    IsList(s, N) /\ \A h \in 1..N : Len(s[h]) \in Nat /\ IsList(s[h], Len(s[h]))

\* List h of s stands in t, after the first o elements.
StandsAt(t, o, L, r) ==
    /\ o \in Nat /\ o + Len(r) <= L
    /\ \A k \in 1..Len(r) : t[o + k] = r[k]

\* The first j lists of s make up t.
Placed(s, t, off, j, L) ==
    /\ L \in Nat /\ IsList(t, L)
    /\ \A h \in 1..j : StandsAt(t, off[h], L, s[h])
    /\ \A k \in 1..L : \E h \in 1..j : \E m \in 1..Len(s[h]) : k = off[h] + m

\* One list more.
LEMMA PlacedNext ==
    ASSUME NEW s, NEW N \in Nat, IsLists(s, N), NEW j \in Nat, j + 1 <= N,
           NEW t, NEW off, NEW L, Placed(s, t, off, j, L)
    PROVE  \E o2, L2 : Placed(s, t \o s[j + 1], o2, j + 1, L2)
<1>1. PICK r : r = s[j + 1]
      OBVIOUS
<1>2. PICK d \in Nat : d = Len(r) /\ IsList(r, d)
      BY <1>1 DEF IsLists
<1>3. PICK u : u = t \o r
      OBVIOUS
<1>4. L \in Nat /\ IsList(t, L)
      BY DEF Placed
<1>5. /\ IsList(u, L + d)
      /\ \A k \in 1..L : u[k] = t[k]
      /\ \A k \in 1..d : u[L + k] = r[k]
  <2>1. PICK l \in Nat : l = L /\ IsList(t, l)
        BY <1>4
  <2>2. IsList(r, d)
        BY <1>2
  <2>3. /\ IsList(Join(t, r), l + d)
        /\ \A k \in 1..l : Join(t, r)[k] = t[k]
        /\ \A k \in 1..d : Join(t, r)[l + k] = r[k]
        BY <2>1, <2>2, Joined
  <2> QED
      BY <1>3, <2>1, <2>3 DEF Join
<1>6. PICK o2 : o2 = [h \in 1..(j + 1) |-> IF h = j + 1 THEN L ELSE off[h]]
      OBVIOUS
<1>7. PICK L2 \in Nat : L2 = L + d
      BY <1>4
<1>8. /\ o2[j + 1] = L
      /\ \A h \in 1..j : o2[h] = off[h]
      BY <1>6
<1>9. ASSUME NEW h \in 1..(j + 1) PROVE StandsAt(u, o2[h], L2, s[h])
  <2>1. CASE h = j + 1
        BY SMTT(40), <1>1, <1>2, <1>4, <1>5, <1>7, <1>8, <2>1 DEF StandsAt
  <2>2. CASE h # j + 1
    <3>1. h \in 1..j /\ h \in 1..N
          BY <2>2
    <3>2. PICK o \in Nat : o = off[h] /\ StandsAt(t, o, L, s[h])
          BY <3>1 DEF Placed, StandsAt
    <3>3. PICK l \in Nat : l = Len(s[h])
          BY <3>1 DEF IsLists
    <3>4. o + l <= L /\ \A k \in 1..l : t[o + k] = s[h][k]
          BY <3>2, <3>3 DEF StandsAt
    <3>5. \A k \in 1..l : o + k \in 1..L
          BY <1>4, <3>4
    <3>6. \A k \in 1..l : u[o + k] = s[h][k]
          BY <1>5, <3>4, <3>5
    <3>7. o2[h] = o /\ o + l <= L2
          BY <1>4, <1>7, <1>8, <3>1, <3>2, <3>4
    <3> QED
        BY <3>3, <3>6, <3>7 DEF StandsAt
  <2> QED
      BY <2>1, <2>2
<1>10. ASSUME NEW k \in 1..L2
       PROVE  \E h \in 1..(j + 1) : \E m \in 1..Len(s[h]) : k = o2[h] + m
  <2>1. CASE k <= L
    <3>1. k \in 1..L
          BY <1>4, <1>7, <2>1
    <3>2. PICK h \in 1..j : \E m \in 1..Len(s[h]) : k = off[h] + m
          BY <3>1 DEF Placed
    <3>3. h \in 1..(j + 1) /\ o2[h] = off[h]
          BY <1>8
    <3> QED
        BY <3>2, <3>3
  <2>2. CASE ~(k <= L)
    <3>1. k - L \in 1..d /\ k = L + (k - L)
          BY <1>4, <1>7, <2>2
    <3>2. k - L \in 1..Len(s[j + 1]) /\ k = o2[j + 1] + (k - L)
          BY <1>1, <1>2, <1>8, <3>1
    <3>3. j + 1 \in 1..(j + 1)
          OBVIOUS
    <3> QED
        BY <3>2, <3>3
  <2> QED
      BY <2>1, <2>2
<1>11. IsList(u, L2)
      BY <1>5, <1>7
<1>12. Placed(s, u, o2, j + 1, L2)
      BY <1>9, <1>10, <1>11 DEF Placed
<1> QED
    BY <1>1, <1>3, <1>12

\* The function FlattenSeq stands for exists.
LEMMA FlatExists ==
    ASSUME NEW s, NEW N \in Nat \ {0}
    PROVE  \E g : IsFlat(s, g, N)
<1> DEFINE P == {j \in Nat : \E g : IsFlat(s, g, j + 1)}
<1>1. 0 \in P
  <2>1. PICK g : g = [j \in 1..1 |-> s[j]]
        OBVIOUS
  <2>2. \A j \in 1..1 : j = 1
        OBVIOUS
  <2>3. g = [j \in 1..1 |-> IF j = 1 THEN s[j] ELSE g[j - 1] \o s[j]]
        BY <2>1, <2>2
  <2>4. IsFlat(s, g, 1) /\ 0 + 1 = 1
        BY <2>3 DEF IsFlat
  <2> QED
      BY <2>4
<1>2. ASSUME NEW j \in Nat, j \in P PROVE j + 1 \in P
  <2>1. PICK n \in Nat \ {0} : n = j + 1
        OBVIOUS
  <2>2. PICK g : IsFlat(s, g, n)
        BY <1>2, <2>1
  <2>3. \A k \in 1..n : g[k] = IF k = 1 THEN s[k] ELSE g[k - 1] \o s[k]
        BY <2>2 DEF IsFlat
  <2>4. PICK e : e = g[n] \o s[n + 1]
        OBVIOUS
  <2>5. PICK f : f = [k \in 1..(n + 1) |-> IF k = n + 1 THEN e ELSE g[k]]
        OBVIOUS
  <2>6. f[n + 1] = e /\ \A k \in 1..n : f[k] = g[k]
        BY <2>5
  <2>7. \A k \in 1..(n + 1) : f[k] = IF k = 1 THEN s[k] ELSE f[k - 1] \o s[k]
    <3> SUFFICES ASSUME NEW k \in 1..(n + 1)
                 PROVE  f[k] = IF k = 1 THEN s[k] ELSE f[k - 1] \o s[k]
        OBVIOUS
    <3>1. CASE k = n + 1
      <4>1. k # 1 /\ k - 1 = n /\ n \in 1..n
            BY <3>1
      <4> QED
          BY <2>4, <2>6, <3>1, <4>1
    <3>2. CASE k # n + 1
      <4>1. k \in 1..n /\ (k # 1 => k - 1 \in 1..n)
            BY <3>2
      <4> QED
          BY <2>3, <2>6, <4>1
    <3> QED
        BY <3>1, <3>2
  <2>8. f = [k \in 1..(n + 1) |-> f[k]]
        BY <2>5
  <2>9. IsFlat(s, f, n + 1)
        BY <2>7, <2>8 DEF IsFlat
  <2> QED
      BY <2>1, <2>9
<1>3. Nat \subseteq P
  <2> HIDE DEF P
  <2> QED
      BY <1>1, <1>2, SetInduction, Zenon
<1>4. N - 1 \in P /\ (N - 1) + 1 = N
      BY <1>3
<1> QED
    BY <1>4

\* FlattenSeq puts the lists one after the other.
LEMMA FlattenPlaces ==
    ASSUME NEW s, NEW N \in Nat, IsLists(s, N)
    PROVE  \E off, L : Placed(s, FlattenSeq(s), off, N, L)
<1>1. Len(s) = N
      BY DEF IsLists, IsList
<1>2. CASE N = 0
  <2>1. FlattenSeq(s) = s
        BY <1>1, <1>2 DEF FlattenSeq
  <2>2. Placed(s, s, <<>>, 0, 0)
        BY <1>2 DEF Placed, IsLists
  <2> QED
      BY <1>2, <2>1, <2>2
<1>3. CASE N # 0
  <2>1. N \in Nat \ {0}
        BY <1>3
  <2>2. PICK g : g = CHOOSE x : IsFlat(s, x, N)
        OBVIOUS
  <2>3. IsFlat(s, g, N)
        BY <2>1, <2>2, FlatExists
  <2>4. FlattenSeq(s) = g[N]
        BY <1>1, <2>1, <2>2, FlattenIs
  <2>5. \A k \in 1..N : g[k] = IF k = 1 THEN s[k] ELSE g[k - 1] \o s[k]
        BY <2>3 DEF IsFlat
  <2> DEFINE P == {j \in Nat : j + 1 <= N => \E off, L : Placed(s, g[j + 1], off, j + 1, L)}
  <2>6. 0 \in P
    <3> SUFFICES \E off, L : Placed(s, g[1], off, 1, L)
        OBVIOUS
    <3>1. 1 \in 1..N
          BY <2>1
    <3>2. PICK r : r = s[1] /\ r = g[1]
          BY <2>5, <3>1
    <3>3. PICK d \in Nat : d = Len(r) /\ IsList(r, d)
          BY <3>1, <3>2 DEF IsLists
    <3>4. PICK o : o = <<0>>
          OBVIOUS
    <3>5. o[1] = 0
          BY <3>4
    <3>6. \A h \in 1..1 : h = 1
          OBVIOUS
    <3>7. StandsAt(r, 0, d, r)
          BY <3>3 DEF StandsAt
    <3>8. \A k \in 1..d : k = 0 + k
          OBVIOUS
    <3>9. \A k \in 1..d : \E h \in 1..1 : \E m \in 1..Len(s[h]) : k = o[h] + m
      <4> SUFFICES ASSUME NEW k \in 1..d
                   PROVE  \E m \in 1..Len(s[1]) : k = o[1] + m
          OBVIOUS
      <4>1. k \in 1..Len(s[1]) /\ k = o[1] + k
            BY <3>2, <3>3, <3>5
      <4> QED
          BY <4>1
    <3>10. \A h \in 1..1 : StandsAt(r, o[h], d, s[h])
          BY <3>2, <3>5, <3>6, <3>7
    <3>11. Placed(s, r, o, 1, d)
          BY <3>3, <3>9, <3>10 DEF Placed
    <3> QED
        BY <3>2, <3>11
  <2>7. ASSUME NEW j \in Nat, j \in P PROVE j + 1 \in P
    <3> SUFFICES ASSUME (j + 1) + 1 <= N
                 PROVE  \E off, L : Placed(s, g[(j + 1) + 1], off, (j + 1) + 1, L)
        OBVIOUS
    <3>1. PICK m \in Nat : m = j + 1 /\ m + 1 <= N /\ m + 1 \in 1..N /\ m + 1 # 1
          OBVIOUS
    <3>2. PICK off, L : Placed(s, g[m], off, m, L)
          BY <2>7, <3>1
    <3>3. g[m + 1] = g[m] \o s[m + 1]
      <4>1. (m + 1) - 1 = m
            OBVIOUS
      <4> QED
          BY <2>5, <3>1, <4>1
    <3>4. \E o2, L2 : Placed(s, g[m] \o s[m + 1], o2, m + 1, L2)
          BY <3>1, <3>2, PlacedNext
    <3> QED
        BY <3>1, <3>3, <3>4
  <2>8. Nat \subseteq P
    <3> HIDE DEF P
    <3> QED
        BY <2>6, <2>7, SetInduction, Zenon
  <2>9. N - 1 \in P /\ (N - 1) + 1 = N
        BY <2>1, <2>8
  <2> QED
      BY <2>4, <2>9
<1> QED
    BY <1>2, <1>3

\* SetToSeq lists each element of a finite set once.
LEMMA SetToSeqLists ==
    ASSUME NEW S, IsFiniteSet(S)
    PROVE  \E n \in Nat :
              /\ IsList(SetToSeq(S), n)
              /\ \A h \in 1..n : SetToSeq(S)[h] \in S
              /\ \A h, m \in 1..n : SetToSeq(S)[h] = SetToSeq(S)[m] => h = m
              /\ \A x \in S : \E h \in 1..n : SetToSeq(S)[h] = x
<1>1. PICK n \in Nat : n = Cardinality(S)
      BY FS_CardinalityType
<1>2. IsFiniteSet(1..n) /\ Cardinality(1..n) = n
      BY FS_Interval
<1>3. ExistsBijection(1..n, S)
      BY <1>1, <1>2, FS_SameCardinalityBij
<1>4. \E f \in [1..n -> S] : IsInjective(f)
      BY <1>3 DEF ExistsBijection, Bijection, Injection
<1>5. PICK f : f = SetToSeq(S)
      OBVIOUS
<1>6. f \in [1..n -> S] /\ IsInjective(f)
      BY <1>1, <1>4, <1>5 DEF SetToSeq
<1>7. f \in Injection(1..n, S)
      BY <1>6 DEF Injection
<1>8. f \in Surjection(1..n, S)
      BY <1>1, <1>2, <1>7, FS_Injection
<1>9. IsList(f, n) /\ \A h \in 1..n : f[h] \in S
      BY <1>6 DEF IsList
<1>10. \A h, m \in 1..n : f[h] = f[m] => h = m
      BY <1>6 DEF IsInjective
<1>11. \A x \in S : \E h \in 1..n : f[h] = x
      BY <1>8 DEF Surjection
<1> QED
    BY <1>5, <1>9, <1>10, <1>11

\* The version 2 coins of an account.
LEMMA V2Is ==
    ASSUME NEW x, OwnCoins(x)
    PROVE  /\ Len(V2(x)) \in Nat /\ IsList(V2(x), Len(V2(x)))
           /\ \A k \in 1..Len(V2(x)) : V2(x)[k] \in ToSet(x)
<1>1. PICK n \in Nat : DOMAIN x = 1..n
      BY DEF OwnCoins
<1>2. PICK K : K = {k \in DOMAIN x : x[k].ver = 2}
      OBVIOUS
<1>3. K \subseteq 1..n
      BY <1>1, <1>2
<1>4. PICK v : v = V2(x) /\ v = Kept(x, K)
      BY <1>2 DEF V2
<1>5. PICK c \in Nat : IsList(v, c)
      BY <1>3, <1>4, KeptIsList
<1>6. Len(v) = c /\ DOMAIN v = 1..c
      BY <1>5 DEF IsList
<1>7. ToSet(v) = At(x, K)
      BY <1>3, <1>4, KeptSet
<1>8. \A k \in 1..c : v[k] \in ToSet(x)
  <2> SUFFICES ASSUME NEW k \in 1..c PROVE v[k] \in ToSet(x)
      OBVIOUS
  <2>1. v[k] \in ToSet(v)
        BY <1>6 DEF ToSet
  <2> QED
      BY <1>1, <1>3, <1>7, <2>1 DEF At, ToSet
<1> QED
    BY <1>4, <1>5, <1>6, <1>8

Tokens == DOMAIN ledger \ {PRV}

\* Asset a has a part of the list t of its own: all its version 2 coins, and
\* no other coin of the list is of asset a.
HasPart(t, N, a) ==
    \E o \in Nat :
        /\ StandsAt(t, o, N, V2(ledger[a]))
        /\ \A k \in 1..N : t[k].asset = a =>
              \E m \in 1..Len(V2(ledger[a])) : k = o + m

\* The umbrella asset lists the version 2 coins of each token in a part of its
\* own.
LEMMA UmbrellaParts ==
    ASSUME LedgerOK(ledger, call)
    PROVE  \E N \in Nat :
              /\ IsList(UmbrellaCoins, N)
              /\ \A k \in 1..N : \E b \in Tokens :
                    UmbrellaCoins[k] \in ToSet(ledger[b]) /\ UmbrellaCoins[k].asset = b
              /\ \A a \in Tokens : HasPart(UmbrellaCoins, N, a)
<1>1. PICK T : T = {V2(ledger[a]) : a \in Tokens}
      OBVIOUS
<1>2. IsFiniteSet(T)
  <2>1. IsFiniteSet(Tokens)
        BY FS_Subset DEF LedgerOK, Tokens
  <2>2. PICK f : f = [a \in Tokens |-> V2(ledger[a])]
        OBVIOUS
  <2>3. f \in Surjection(Tokens, T)
        BY <1>1, <2>2 DEF Surjection
  <2> QED
      BY <2>1, <2>3, FS_Surjection
<1>3. PICK s : s = SetToSeq(T)
      OBVIOUS
<1>4. PICK n \in Nat :
         /\ IsList(s, n)
         /\ \A h \in 1..n : s[h] \in T
         /\ \A h, m \in 1..n : s[h] = s[m] => h = m
         /\ \A x \in T : \E h \in 1..n : s[h] = x
      BY <1>2, <1>3, SetToSeqLists
<1>5. PICK t : t = UmbrellaCoins /\ t = FlattenSeq(s)
      BY <1>1, <1>3 DEF UmbrellaCoins, Tokens
<1>6. \A a \in Tokens : OwnCoins(ledger[a]) /\ \A c \in ToSet(ledger[a]) : c.asset = a
      BY DEF LedgerOK, Tokens, ToSet
<1>7. \A h \in 1..n : \E a \in Tokens : s[h] = V2(ledger[a])
      BY <1>1, <1>4
<1>8. IsLists(s, n)
  <2>1. ASSUME NEW h \in 1..n PROVE Len(s[h]) \in Nat /\ IsList(s[h], Len(s[h]))
        BY <1>6, <1>7, V2Is
  <2> QED
      BY <1>4, <2>1 DEF IsLists
<1>9. PICK off, L : Placed(s, t, off, n, L)
      BY <1>5, <1>8, FlattenPlaces
<1>10. L \in Nat /\ IsList(t, L)
      BY <1>9 DEF Placed
<1>11. ASSUME NEW k \in 1..L
       PROVE  \E h \in 1..n : \E m \in 1..Len(s[h]) : \E b \in Tokens :
                 /\ k = off[h] + m /\ s[h] = V2(ledger[b])
                 /\ t[k] \in ToSet(ledger[b]) /\ t[k].asset = b
  <2>1. PICK h \in 1..n : \E m \in 1..Len(s[h]) : k = off[h] + m
        BY <1>9 DEF Placed
  <2>2. PICK m \in 1..Len(s[h]) : k = off[h] + m
        BY <2>1
  <2>3. StandsAt(t, off[h], L, s[h])
        BY <1>9 DEF Placed
  <2>4. t[k] = s[h][m]
        BY <2>2, <2>3 DEF StandsAt
  <2>5. PICK b \in Tokens : s[h] = V2(ledger[b])
        BY <1>7
  <2>6. t[k] \in ToSet(ledger[b])
        BY <1>6, <2>2, <2>4, <2>5, V2Is
  <2>7. t[k].asset = b
        BY <1>6, <2>6
  <2> QED
      BY <2>2, <2>5, <2>6, <2>7
<1>12. ASSUME NEW a \in Tokens PROVE HasPart(t, L, a)
  <2>1. PICK h \in 1..n : s[h] = V2(ledger[a])
        BY <1>1, <1>4
  <2>2. PICK o : o = off[h] /\ StandsAt(t, o, L, s[h])
        BY <1>9 DEF Placed
  <2>3. ASSUME NEW k \in 1..L, t[k].asset = a
        PROVE  \E m \in 1..Len(s[h]) : k = o + m
    <3>1. PICK j \in 1..n, b \in Tokens :
             /\ \E m \in 1..Len(s[j]) : k = off[j] + m
             /\ s[j] = V2(ledger[b]) /\ t[k].asset = b
          BY <1>11
    <3>2. b = a
          BY <2>3, <3>1
    <3>3. j = h
          BY <1>4, <2>1, <3>1, <3>2
    <3> QED
        BY <2>2, <3>1, <3>3
  <2>4. o \in Nat
        BY <2>2 DEF StandsAt
  <2> QED
      BY <2>1, <2>2, <2>3, <2>4 DEF HasPart
<1>13. \A k \in 1..L : \E b \in Tokens : t[k] \in ToSet(ledger[b]) /\ t[k].asset = b
      BY <1>11
<1> QED
    BY <1>5, <1>10, <1>12, <1>13

\* The coins of one asset in a query's result.
ByAsset(u, a) == Kept(u, {k \in DOMAIN u : u[k].coin.asset = a})

\* The coins of one token in the query of the umbrella asset.
LEMMA TokenPart ==
    ASSUME NEW N \in Nat, NEW t, IsList(t, N), NEW a, HasPart(t, N, a),
           OwnCoins(ledger[a]), \A c \in ToSet(ledger[a]) : c.asset = a, NEW sp
    PROVE  ByAsset(Kept(Paired(t), Unspents(t, sp)), a)
              = Kept(Paired(V2(ledger[a])), Unspents(V2(ledger[a]), sp))
<1>1. DOMAIN t = 1..N
      BY DEF IsList
<1>2. PICK U : U = Unspents(t, sp)
      OBVIOUS
<1>3. U \in SUBSET (1..N)
      BY <1>1, <1>2 DEF Unspents
<1>4. PICK p : p = Paired(t)
      OBVIOUS
<1>5. DOMAIN p = 1..N /\ \A k \in 1..N : p[k] = [coin |-> t[k], idx |-> t[k].idx]
      BY <1>1, <1>4 DEF Paired
<1>6. PICK u : u = Kept(p, U)
      OBVIOUS
<1> DEFINE G == {e \in ToSet(p) : e.coin.asset = a}
<1>7. \A k \in 1..N : p[k] \in ToSet(p)
      BY <1>5 DEF ToSet
<1>8. ByAsset(u, a) = Kept(p, Where(p, U, G))
  <2>1. ToSet(u) \subseteq ToSet(p)
    <3>1. ToSet(u) = At(p, U)
          BY <1>3, <1>6, KeptSet
    <3> QED
        BY <1>3, <1>7, <3>1 DEF At
  <2>2. {k \in DOMAIN u : u[k].coin.asset = a} = Where(u, DOMAIN u, G)
        BY <2>1 DEF Where, ToSet
  <2> HIDE DEF G
  <2>3. Filtered(u, G) = Kept(p, Where(p, U, G))
        BY <1>3, <1>6, KeptFilter
  <2> QED
      BY <2>2, <2>3 DEF Filtered, ByAsset
<1>9. PICK v : v = V2(ledger[a])
      OBVIOUS
<1>10. PICK n \in Nat : n = Len(v) /\ IsList(v, n) /\ \A k \in 1..n : v[k] \in ToSet(ledger[a])
      BY <1>9, V2Is
<1>11. PICK o \in Nat :
         /\ StandsAt(t, o, N, v)
         /\ \A k \in 1..N : t[k].asset = a => \E m \in 1..Len(v) : k = o + m
      BY <1>9 DEF HasPart
<1>12. o + n <= N /\ \A k \in 1..n : t[o + k] = v[k] /\ o + k \in 1..N
      BY <1>10, <1>11 DEF StandsAt
<1>13. DOMAIN v = 1..n
      BY <1>10 DEF IsList
<1>14. PICK q : q = Paired(v)
      OBVIOUS
<1>15. \A k \in 1..n : p[o + k] = q[k]
      BY <1>5, <1>12, <1>13, <1>14 DEF Paired
<1>16. PICK K : K = Unspents(v, sp)
      OBVIOUS
<1>17. K \subseteq 1..n
      BY <1>13, <1>16 DEF Unspents
<1>18. Where(p, U, G) = Shifted(K, o)
  <2>1. \A k \in 1..N : p[k] \in G <=> t[k].asset = a
        BY <1>5, <1>7
  <2>2. \A m \in 1..n : v[m].asset = a
        BY <1>10
  <2> HIDE DEF G
  <2>3. ASSUME NEW k \in Where(p, U, G) PROVE k \in Shifted(K, o)
    <3>1. k \in 1..N /\ k \in U /\ t[k].asset = a
          BY <1>3, <2>1 DEF Where
    <3>2. PICK m \in 1..n : k = o + m
          BY <1>10, <1>11, <3>1
    <3>3. t[k] = v[m]
          BY <1>12, <3>2
    <3>4. t[k].val # 0 /\ t[k].id \notin sp
          BY <1>2, <3>1 DEF Unspents
    <3>5. m \in K
          BY <1>13, <1>16, <3>3, <3>4 DEF Unspents
    <3> QED
        BY <3>2, <3>5 DEF Shifted
  <2>4. ASSUME NEW k \in Shifted(K, o) PROVE k \in Where(p, U, G)
    <3>1. PICK m \in K : k = o + m
          BY DEF Shifted
    <3>2. m \in 1..n /\ v[m].val # 0 /\ v[m].id \notin sp
          BY <1>13, <1>16 DEF Unspents
    <3>3. k \in 1..N /\ t[k] = v[m]
          BY <1>12, <3>1, <3>2
    <3>4. k \in U
          BY <1>1, <1>2, <3>2, <3>3 DEF Unspents
    <3>5. p[k] \in G
          BY <2>1, <2>2, <3>2, <3>3
    <3> QED
        BY <3>4, <3>5 DEF Where
  <2> QED
      BY <2>3, <2>4
<1>19. Kept(p, Shifted(K, o)) = Kept(q, K)
  <2>1. Holds(p, o, q, n) /\ K \in SUBSET (1..n) /\ o + n <= N
        BY <1>12, <1>15, <1>17 DEF Holds
  <2> QED
      BY <2>1, KeptShift
<1> HIDE DEF G
<1> QED
    BY <1>2, <1>4, <1>6, <1>8, <1>9, <1>14, <1>16, <1>18, <1>19

\* The query of one asset's version 2 coins.
LEMMA AssetVersion2 ==
    ASSUME BatchSize \in Nat \ {0}, NEW x, OwnCoins(x), \A c \in ToSet(x) : c.ok,
           NEW sp
    PROVE  Kept(Paired(V2(x)), Unspents(V2(x), sp))
              = OfVersion(GetUnspentOutputCoins(x, sp), 2)
<1>1. PICK n \in Nat : IsList(x, n) /\ DOMAIN x = 1..n
      BY DEF OwnCoins, IsList
<1>2. \A k \in 1..n : x[k].ok
      BY <1>1 DEF ToSet
<1> QED
    BY <1>1, <1>2, VersionQuery

\* The query of all assets agrees with the queries of each.
LEMMA UmbrellaGives ==
    ASSUME BatchSize \in Nat \ {0}, LedgerOK(ledger, call),
           \A a \in DOMAIN ledger : Decrypts(a)
    PROVE  UmbrellaAgrees
<1>1. \A a \in DOMAIN ledger :
         /\ OwnCoins(ledger[a])
         /\ \A c \in ToSet(ledger[a]) : c.asset = a /\ c.ok
      BY DEF LedgerOK, Decrypts, ToSet
<1>2. PICK t : t = UmbrellaCoins
      OBVIOUS
<1>3. PICK N \in Nat :
         /\ IsList(t, N)
         /\ \A k \in 1..N : \E b \in Tokens : t[k] \in ToSet(ledger[b]) /\ t[k].asset = b
         /\ \A a \in Tokens : HasPart(t, N, a)
      BY <1>2, UmbrellaParts
<1>4. \A k \in 1..N : t[k].ok
      BY <1>1, <1>3 DEF Tokens
<1>5. PICK u : u = GetUnspentOutputCoins(t, spent)
      OBVIOUS
<1>6. u = Kept(Paired(t), Unspents(t, spent))
      BY <1>3, <1>4, <1>5, WholeQuery
<1>7. PICK own : own = [a \in DOMAIN ledger |->
                 IF a = PRV THEN GetUnspentOutputCoins(ledger[a], spent)
                 ELSE OfVersion(GetUnspentOutputCoins(ledger[a], spent), 2)]
      OBVIOUS
<1>8. ASSUME NEW a \in Tokens PROVE ByAsset(u, a) = own[a]
  <2>1. a \in DOMAIN ledger /\ a # PRV
        BY DEF Tokens
  <2>2. PICK x : x = ledger[a] /\ OwnCoins(x) /\ \A c \in ToSet(x) : c.asset = a /\ c.ok
        BY <1>1, <2>1
  <2>3. ByAsset(u, a) = Kept(Paired(V2(x)), Unspents(V2(x), spent))
        BY <1>3, <1>6, <2>2, TokenPart
  <2>4. Kept(Paired(V2(x)), Unspents(V2(x), spent))
           = OfVersion(GetUnspentOutputCoins(x, spent), 2)
        BY <2>2, AssetVersion2
  <2> QED
      BY <1>7, <2>1, <2>2, <2>3, <2>4
<1>9. PICK pu : pu = GetUnspentOutputCoins(ledger[PRV], spent)
      OBVIOUS
<1>10. PRV \in DOMAIN ledger /\ pu = own[PRV]
  <2>1. PRV \in DOMAIN ledger
        BY DEF LedgerOK
  <2> QED
      BY <1>7, <1>9, <2>1
<1>11. PICK assets : assets = {e.coin.asset : e \in ToSet(u)} \cap DOMAIN ledger
      OBVIOUS
<1>12. PICK D : D = assets \cup (IF pu = <<>> THEN {} ELSE {"PRV"})
      OBVIOUS
<1>13. PICK all : all = [a \in D |-> IF a = "PRV" THEN pu ELSE ByAsset(u, a)]
      OBVIOUS
<1>14. GetAllUTXOsV2(ledger[PRV], t, spent, DOMAIN ledger) = all
      BY <1>5, <1>9, <1>11, <1>12, <1>13 DEF GetAllUTXOsV2, ByAsset
<1>15. ASSUME NEW a \in DOMAIN ledger
       PROVE  (IF a \in DOMAIN all THEN all[a] ELSE <<>>) = own[a]
  <2>1. CASE a = PRV
    <3>1. a \in D => all[a] = own[a]
          BY <1>10, <1>13, <2>1 DEF PRV
    <3>2. a \notin D => own[a] = <<>>
          BY <1>10, <1>12, <2>1 DEF PRV
    <3> QED
        BY <1>13, <3>1, <3>2
  <2>2. CASE a # PRV
    <3>1. a \in Tokens /\ ByAsset(u, a) = own[a]
          BY <1>8, <2>2 DEF Tokens
    <3>2. a \in D => all[a] = own[a]
          BY <1>13, <2>2, <3>1 DEF PRV
    <3>3. ASSUME a \notin D PROVE own[a] = <<>>
      <4>1. a \notin assets
            BY <1>12, <3>3
      <4>2. \A e \in ToSet(u) : e.coin.asset # a
            BY <1>11, <4>1
      <4>3. {k \in DOMAIN u : u[k].coin.asset = a} = {}
            BY <4>2 DEF ToSet
      <4>4. ByAsset(u, a) = Kept(u, {})
            BY <4>3 DEF ByAsset
      <4> QED
          BY <3>1, <4>4, KeptNone
    <3> QED
        BY <1>13, <3>2, <3>3
  <2> QED
      BY <2>1, <2>2
<1>16. \A a \in DOMAIN ledger :
          own[a] = IF a = PRV THEN GetUnspentOutputCoins(ledger[a], spent)
                   ELSE OfVersion(GetUnspentOutputCoins(ledger[a], spent), 2)
      BY <1>7
<1> QED
    BY <1>2, <1>14, <1>15, <1>16 DEF UmbrellaAgrees

\* QueriesAgree: on every ledger the builder meets, the queries of an asset's
\* spent and unspent coins, of the cache and of all assets at once agree, with
\* batches of any size (GetUnspentOutputCoins, GetSpentOutputCoins,
\* GetUnspentOutputCoinsFromCache, GetAllUTXOsV2).
THEOREM QueriesAlwaysAgree == TxSpec => []QueriesAgree
<1>1. AttemptInv => QueriesAgree
  <2> SUFFICES ASSUME LedgerOK(ledger, call) PROVE QueriesAgree
      BY DEF AttemptInv
  <2>1. \A a \in DOMAIN ledger : OwnCoins(ledger[a])
        BY DEF LedgerOK
  <2>2. \A a \in DOMAIN ledger : AssetQueriesAgree(a)
        BY <2>1, AssetAgrees, CallsAssumption
  <2>3. (\A a \in DOMAIN ledger : Decrypts(a)) => UmbrellaAgrees
        BY UmbrellaGives, CallsAssumption
  <2> QED
      BY <2>2, <2>3 DEF QueriesAgree
<1> QED
    BY <1>1, SelectionInit, AttemptStep, BuildInvInit, BuildInvStep, PTL DEF TxSpec
=============================================================================
