------------------------- MODULE ChooseCoinsProofs -------------------------
(***************************************************************************)
(* What chooseBestCoinsByAmount guarantees, for lists of every length and  *)
(* amounts of every size.                                                  *)
(***************************************************************************)
EXTENDS ChooseCoins, SequenceTheorems, TLAPS

\* prefix holds the partial sums of the coins visited by the first loop.
PrefixInv ==
    /\ Len(prefix) >= 1
    /\ Len(prefix) <= Len(coinList) + 1
    /\ prefix[1] = 0
    /\ \A k \in 1..(Len(prefix) - 1) : prefix[k + 1] = prefix[k] + coinList[k]

SumInv ==
    pc = "sum" => /\ Len(prefix) = i + 1
                  /\ totalInputAmount = prefix[i + 1]
                  /\ totalChosenAmount = 0
                  /\ chosen = <<>>

\* The greedy loop is only entered with more than enough coins.
EnoughInv ==
    pc \in {"choose", "check"} =>
        /\ Len(coinList) >= 1
        /\ Len(prefix) = Len(coinList) + 1
        /\ prefix[Len(coinList) + 1] > requiredAmount

\* Either every coin so far was taken, or the next one alone suffices.
LoopInv ==
    pc = "choose" =>
        /\ i <= Len(coinList) - 1
        /\ remainAmount + totalChosenAmount = requiredAmount
        /\ \/ totalChosenAmount = prefix[i + 1]
           \/ coinList[i + 1] >= remainAmount

CheckInv ==
    pc = "check" => \/ totalChosenAmount >= requiredAmount
                    \/ totalChosenAmount + coinList[Len(coinList)] >= requiredAmount

\* Chosen positions are visited positions; the last coin is still free when
\* it may have to be appended.
PositionInv ==
    /\ \A k \in DOMAIN chosen : chosen[k] \in 1..Len(coinList)
    /\ pc = "choose" => \A k \in DOMAIN chosen : chosen[k] <= i
    /\ pc = "check" /\ totalChosenAmount < requiredAmount =>
           \A k \in DOMAIN chosen : chosen[k] < Len(coinList)

MinimalInv ==
    pc \in {"check", "done"} /\ totalChosenAmount >= requiredAmount =>
        \A k \in DOMAIN chosen :
            totalChosenAmount - coinList[chosen[k]] < requiredAmount

IInv == /\ TypeOK
        /\ Descending(coinList)
        /\ PrefixInv /\ SumInv /\ EnoughInv /\ LoopInv /\ CheckInv
        /\ PositionInv /\ MinimalInv
        /\ ChosenCoinsSuffice /\ NeverNotEnough /\ NoCoinChosenTwice

-----------------------------------------------------------------------------

\* The initial state satisfies the inductive invariant.
LEMMA InitIInv == Init => IInv
<1> SUFFICES ASSUME Init PROVE IInv
    OBVIOUS
<1> USE BoundsAssumption
<1>1. coinList \in Seq(Nat \ {0})
  <2>1. PICK n \in 0..MaxCoins : coinList \in [1..n -> 1..MaxValue]
        BY DEF Init, CoinLists
  <2>2. coinList \in [1..n -> Nat \ {0}]
        BY <2>1
  <2> QED
        BY <2>1, <2>2
<1>2. TypeOK
      BY <1>1 DEF Init, TypeOK
<1> QED
    BY <1>1, <1>2 DEF Init, IInv, PrefixInv, SumInv, EnoughInv, LoopInv,
        CheckInv, PositionInv, MinimalInv, ChosenCoinsSuffice, NeverNotEnough,
        NoCoinChosenTwice

\* A step of the function preserves the inductive invariant.
LEMMA NextIInv == IInv /\ [Next]_vars => IInv'
<1> SUFFICES ASSUME IInv, [Next]_vars PROVE IInv'
    OBVIOUS
<1> USE DEF IInv
<1>a. /\ Len(coinList) \in Nat
      /\ \A k \in 1..Len(coinList) : coinList[k] \in Nat /\ coinList[k] > 0
      BY DEF TypeOK
<1>b. \A p \in Nat \ {0} :
          /\ Append(chosen, p) \in Seq(Nat \ {0})
          /\ DOMAIN chosen = 1..Len(chosen)
          /\ DOMAIN Append(chosen, p) = 1..(Len(chosen) + 1)
          /\ \A k \in 1..Len(chosen) : Append(chosen, p)[k] = chosen[k]
          /\ Append(chosen, p)[Len(chosen) + 1] = p
      BY AppendProperties, LenProperties DEF TypeOK
<1>c. \A k \in DOMAIN chosen : chosen[k] \in 1..Len(coinList) /\ chosen[k] \in Nat
      BY DEF TypeOK, PositionInv
<1>1. CASE SumCoin
  <2>1. coinList[i + 1] \in Nat /\ i \in Nat /\ totalInputAmount' \in Nat
        BY <1>1, <1>a DEF SumCoin, TypeOK
  <2>2. TypeOK'
        BY <1>1, <2>1 DEF SumCoin, TypeOK
  <2>3. /\ Len(prefix) = i + 1
        /\ Len(prefix') = i + 2
        /\ prefix'[i + 2] = prefix[i + 1] + coinList[i + 1]
        /\ \A k \in 1..(i + 1) : prefix'[k] = prefix[k]
        BY <1>1, <2>1, AppendProperties DEF SumCoin, TypeOK, SumInv
  <2>4. PrefixInv' /\ SumInv'
        BY <1>1, <1>a, <2>1, <2>3 DEF SumCoin, PrefixInv, SumInv
  <2> QED
      BY <1>1, <2>2, <2>4 DEF SumCoin, TypeOK, Descending, EnoughInv, LoopInv,
          CheckInv, PositionInv, MinimalInv, ChosenCoinsSuffice,
          NeverNotEnough, NoCoinChosenTwice
<1>2. CASE TotalTooSmall
      BY <1>2 DEF TotalTooSmall, TypeOK, Descending, PrefixInv, SumInv,
          EnoughInv, LoopInv, CheckInv, PositionInv, MinimalInv,
          ChosenCoinsSuffice, NeverNotEnough, NoCoinChosenTwice
<1>3. CASE TotalExact
  <2>1. /\ chosen' \in Seq(Nat \ {0})
        /\ DOMAIN chosen' = 1..Len(coinList)
        /\ \A k \in 1..Len(coinList) : chosen'[k] = k
        BY <1>3 DEF TotalExact, TypeOK
  <2>2. TypeOK'
        BY <1>3, <2>1 DEF TotalExact, TypeOK
  <2>3. MinimalInv' /\ ChosenCoinsSuffice'
        BY <1>3, <2>1 DEF TotalExact, TypeOK, MinimalInv, ChosenCoinsSuffice
  <2> QED
      BY <1>3, <2>1, <2>2, <2>3 DEF TotalExact, TypeOK, Descending, PrefixInv,
          SumInv, EnoughInv, LoopInv, CheckInv, PositionInv, NeverNotEnough,
          NoCoinChosenTwice
<1>4. CASE StartChoosing
  <2>1. Len(coinList) >= 1 /\ Len(prefix) = Len(coinList) + 1
        BY <1>4 DEF StartChoosing, TypeOK, PrefixInv, SumInv
  <2> QED
      BY <1>4, <2>1 DEF StartChoosing, TypeOK, Descending, PrefixInv, SumInv,
          EnoughInv, LoopInv, CheckInv, PositionInv, MinimalInv,
          ChosenCoinsSuffice, NeverNotEnough, NoCoinChosenTwice
<1>5. CASE SkipCoin
  <2>1. TypeOK'
        BY <1>5 DEF SkipCoin, TypeOK
  <2>2. LoopInv'
        BY <1>5 DEF SkipCoin, TypeOK, LoopInv
  <2>3. PositionInv'
        BY <1>5, <1>c DEF SkipCoin, TypeOK, PositionInv
  <2> QED
      BY <1>5, <2>1, <2>2, <2>3 DEF SkipCoin, Descending, PrefixInv, SumInv,
          EnoughInv, CheckInv, MinimalInv, ChosenCoinsSuffice,
          NeverNotEnough, NoCoinChosenTwice
<1>6. CASE TakeAndBreak
  <2>1. /\ i + 1 \in 1..Len(coinList) /\ i + 2 \in 1..Len(coinList)
        /\ i \in Nat /\ i + 1 \in Nat \ {0}
    <3>1. i \in Nat /\ i < Len(coinList) - 1 /\ Len(coinList) \in Nat
          BY <1>6 DEF TakeAndBreak, TypeOK
    <3> QED
        BY <3>1
  <2>2. /\ coinList[i + 1] \in Nat /\ coinList[i + 1] > 0
        /\ coinList[i + 2] \in Nat /\ coinList[i + 2] > 0
        BY <1>a, <2>1
  <2>3. chosen' \in Seq(Nat \ {0})
        BY <1>6, <1>b, <2>1 DEF TakeAndBreak
  <2>4. /\ totalChosenAmount' = totalChosenAmount + coinList[i + 1]
        /\ totalChosenAmount \in Nat /\ requiredAmount \in Nat
        /\ remainAmount \in Nat
        /\ remainAmount + totalChosenAmount = requiredAmount
        BY <1>6 DEF TakeAndBreak, TypeOK, LoopInv
  <2>5. totalChosenAmount' \in Nat
        BY <2>2, <2>4
  <2>6. TypeOK'
        BY <1>6, <2>3, <2>5 DEF TakeAndBreak, TypeOK
  <2>7. totalChosenAmount < requiredAmount /\ totalChosenAmount' >= requiredAmount
        BY <1>6, <2>2, <2>4 DEF TakeAndBreak
  <2>8. \A c \in Nat : c >= coinList[i + 1] =>
             totalChosenAmount' - c < requiredAmount
        BY <2>7, <2>2, <2>4
  <2>9. \A k \in DOMAIN chosen : chosen[k] < i + 1
        BY <1>6, <1>c, <2>1 DEF TakeAndBreak, TypeOK, PositionInv
  <2>10. NoCoinChosenTwice'
        BY SMTT(40), <1>6, <1>b, <1>c, <2>1, <2>9 DEF TakeAndBreak, NoCoinChosenTwice
  <2>11. PositionInv'
    <3>1. \A k \in DOMAIN chosen' : chosen'[k] \in 1..Len(coinList)
          BY <1>6, <1>b, <1>c, <2>1 DEF TakeAndBreak
    <3>2. ~(totalChosenAmount' < requiredAmount)
          BY <2>7, <2>4, <2>5
    <3> QED
        BY <1>6, <3>1, <3>2 DEF TakeAndBreak, PositionInv
  <2>12. MinimalInv'
    <3>1. \A k \in DOMAIN chosen : coinList[chosen[k]] >= coinList[i + 1]
          BY SMTT(40), <1>a, <1>c, <2>1, <2>9 DEF TypeOK, Descending
    <3>2. \A k \in DOMAIN chosen' : /\ coinList[chosen'[k]] \in Nat
                                    /\ coinList[chosen'[k]] >= coinList[i + 1]
          BY SMTT(40), <1>6, <1>a, <1>b, <1>c, <2>1, <3>1 DEF TakeAndBreak
    <3> QED
        BY <1>6, <2>8, <3>2 DEF TakeAndBreak, MinimalInv
  <2> QED
      BY <1>6, <2>6, <2>7, <2>10, <2>11, <2>12 DEF TakeAndBreak, Descending,
          PrefixInv, SumInv, EnoughInv, LoopInv, CheckInv, ChosenCoinsSuffice,
          NeverNotEnough
<1>7. CASE TakeCoin
  <2>1. /\ i + 1 \in 1..Len(coinList) /\ i + 2 \in 1..Len(coinList)
        /\ i \in Nat /\ i + 1 \in Nat \ {0}
        BY <1>7, <1>a DEF TakeCoin, TypeOK
  <2>2. /\ coinList[i + 1] \in Nat /\ coinList[i + 1] > 0
        /\ coinList[i + 2] \in Nat /\ coinList[i + 2] > 0
        BY <1>a, <2>1
  <2>3. chosen' \in Seq(Nat \ {0})
        BY <1>7, <1>b, <2>1 DEF TakeCoin, Take
  <2>4. /\ totalChosenAmount' = totalChosenAmount + coinList[i + 1]
        /\ totalChosenAmount \in Nat /\ requiredAmount \in Nat
        /\ remainAmount \in Nat
        /\ remainAmount + totalChosenAmount = requiredAmount
        BY <1>7 DEF TakeCoin, Take, TypeOK, LoopInv
  <2>5. totalChosenAmount' \in Nat
        BY <2>2, <2>4
  <2>6. /\ i' \in Nat /\ i' <= Len(coinList) - 1 /\ i' = i + 1
         /\ remainAmount' \in Nat /\ remainAmount' = remainAmount - coinList[i + 1]
        BY SMTT(40), <1>7, <1>a, <2>1, <2>2, <2>4 DEF TakeCoin, Take
  <2>7. remainAmount' + totalChosenAmount' = requiredAmount
    <3>1. \A r, t, c \in Nat : (r - c) + (t + c) = r + t
          OBVIOUS
    <3>2. PICK c \in Nat : c = coinList[i + 1]
          BY <2>2
    <3>3. remainAmount' = remainAmount - c /\ totalChosenAmount' = totalChosenAmount + c
          BY <2>4, <2>6, <3>2
    <3>4. /\ remainAmount \in Nat /\ totalChosenAmount \in Nat
          /\ remainAmount + totalChosenAmount = requiredAmount
          BY <2>4
    <3> QED
        BY <3>1, <3>3, <3>4
  <2>8. TypeOK'
        BY <1>7, <1>a, <2>3, <2>5, <2>6 DEF TakeCoin, Take, TypeOK
  <2>9. LoopInv'
    <3>2. prefix[i + 2] = prefix[i + 1] + coinList[i + 1]
          BY <1>7, <1>a, <2>1 DEF TakeCoin, Take, PrefixInv, EnoughInv
    <3>3. totalChosenAmount' = prefix[i + 2] \/ coinList[i + 2] >= remainAmount'
          BY <1>7, <2>2, <2>4, <2>6, <3>2 DEF TakeCoin, Take, LoopInv
    <3>4. totalChosenAmount' = prefix[i' + 1] \/ coinList[i' + 1] >= remainAmount'
          BY <2>1, <2>6, <3>3
    <3> QED
        BY <1>7, <2>6, <2>7, <3>4 DEF TakeCoin, Take, LoopInv
  <2>10. \A k \in DOMAIN chosen : chosen[k] < i + 1
        BY <1>7, <1>c, <2>1 DEF TakeCoin, Take, TypeOK, PositionInv
  <2>11. NoCoinChosenTwice'
        BY SMTT(40), <1>7, <1>b, <1>c, <2>1, <2>10 DEF TakeCoin, Take, NoCoinChosenTwice
  <2>12. PositionInv'
    <3>1. \A k \in DOMAIN chosen' :
              chosen'[k] \in 1..Len(coinList) /\ chosen'[k] <= i'
          BY <1>7, <1>b, <1>c, <2>1, <2>10 DEF TakeCoin, Take
    <3> QED
        BY <1>7, <3>1 DEF TakeCoin, Take, PositionInv
  <2> QED
      BY <1>7, <2>8, <2>9, <2>11, <2>12 DEF TakeCoin, Take, Descending, PrefixInv,
          SumInv, EnoughInv, CheckInv, MinimalInv, ChosenCoinsSuffice,
          NeverNotEnough
<1>8. CASE LoopEnds
  <2>1. i = Len(coinList) - 1
        BY <1>8 DEF LoopEnds, TypeOK, LoopInv
  <2>2. CheckInv'
    <3>1. prefix[Len(coinList) + 1] = prefix[Len(coinList)] + coinList[Len(coinList)]
          BY <1>8, <1>a DEF LoopEnds, PrefixInv, EnoughInv
    <3> QED
        BY SMTT(40), <1>8, <1>a, <2>1, <3>1 DEF LoopEnds, TypeOK, EnoughInv, LoopInv,
            CheckInv
  <2>3. MinimalInv'
    <3>1. /\ totalChosenAmount \in Nat /\ requiredAmount \in Nat /\ remainAmount \in Nat
          /\ remainAmount + totalChosenAmount = requiredAmount
          BY <1>8 DEF LoopEnds, TypeOK, LoopInv
    <3>2. totalChosenAmount <= requiredAmount
          BY <3>1
    <3>3. \A k \in DOMAIN chosen : coinList[chosen[k]] \in Nat /\ coinList[chosen[k]] > 0
          BY <1>a DEF PositionInv
    <3>4. \A k \in DOMAIN chosen : totalChosenAmount - coinList[chosen[k]] < requiredAmount
          BY <3>1, <3>2, <3>3
    <3> QED
        BY <1>8, <3>4 DEF LoopEnds, MinimalInv
  <2> QED
      BY <1>8, <2>1, <2>2, <2>3 DEF LoopEnds, TypeOK, Descending, PrefixInv,
          SumInv, EnoughInv, LoopInv, PositionInv, ChosenCoinsSuffice,
          NeverNotEnough, NoCoinChosenTwice
<1>9. CASE Covered
      BY <1>9 DEF Covered, TypeOK, Descending, PrefixInv, SumInv, EnoughInv,
          LoopInv, CheckInv, PositionInv, MinimalInv, ChosenCoinsSuffice,
          NeverNotEnough, NoCoinChosenTwice
<1>10. CASE AddLastCoin
  <2>1. /\ Len(coinList) \in 1..Len(coinList)
        /\ Len(coinList) \in Nat \ {0}
        /\ chosen' = Append(chosen, Len(coinList))
        BY <1>10, <1>a DEF AddLastCoin, EnoughInv
  <2>2. totalChosenAmount \in Nat /\ requiredAmount \in Nat
        BY DEF TypeOK
  <2>3. totalChosenAmount' >= requiredAmount /\ pc' = "done"
        BY <1>10, <1>a, <2>1 DEF AddLastCoin, TypeOK, CheckInv
  <2>4. TypeOK'
        BY <1>10, <1>a, <1>b, <2>1, <2>3 DEF AddLastCoin, TypeOK
  <2>5. \A k \in DOMAIN chosen : chosen[k] < Len(coinList)
        BY <1>10 DEF AddLastCoin, PositionInv
  <2>6. NoCoinChosenTwice'
        BY <1>b, <1>c, <2>1, <2>5 DEF NoCoinChosenTwice
  <2>7. PositionInv'
        BY <1>10, <1>b, <1>c, <2>1, <2>3 DEF AddLastCoin, PositionInv
  <2>8. MinimalInv'
    <3>1. \A k \in DOMAIN chosen :
              coinList[chosen[k]] >= coinList[Len(coinList)]
          BY <1>a, <1>c, <2>1, <2>5 DEF TypeOK, Descending
    <3>2. \A k \in DOMAIN chosen' :
              /\ coinList[chosen'[k]] \in Nat
              /\ coinList[chosen'[k]] >= coinList[Len(coinList)]
          BY <1>a, <1>b, <1>c, <2>1, <3>1
    <3> QED
        BY SMTT(40), <1>10, <1>a, <2>1, <2>2, <3>2 DEF AddLastCoin, MinimalInv
  <2> QED
      BY <1>10, <2>3, <2>4, <2>6, <2>7, <2>8 DEF AddLastCoin, Descending,
          PrefixInv, SumInv, EnoughInv, LoopInv, CheckInv, ChosenCoinsSuffice,
          NeverNotEnough
<1>11. CASE Returned \/ UNCHANGED vars
  <2>1. UNCHANGED vars
        BY <1>11 DEF Returned
  <2> QED
      BY <2>1 DEF vars, TypeOK, Descending, PrefixInv, SumInv, EnoughInv,
          LoopInv, CheckInv, PositionInv, MinimalInv, ChosenCoinsSuffice,
          NeverNotEnough, NoCoinChosenTwice
<1> QED
    BY <1>1, <1>2, <1>3, <1>4, <1>5, <1>6, <1>7, <1>8, <1>9, <1>10, <1>11
    DEF Next

\* Every reachable state satisfies the inductive invariant.
LEMMA SpecIInv == Spec => []IInv
BY InitIInv, NextIInv, PTL DEF Spec

-----------------------------------------------------------------------------

\* Coin selection keeps its types: in particular remainAmount, a uint64 that
\* is decremented in the loop, never goes below zero.
THEOREM TypeCorrect == Spec => []TypeOK
BY SpecIInv, PTL DEF IInv

\* Whatever the list, a successful call returns coins worth at least what the
\* transaction spends, and the final "not enough coin" return is dead code.
THEOREM SelectionSuffices == Spec => [](ChosenCoinsSuffice /\ NeverNotEnough)
BY SpecIInv, PTL DEF IInv

\* On a list in descending order no returned coin can be left out.
THEOREM SelectionMinimal == Spec => []NoSuperfluousCoin
<1>1. IInv => NoSuperfluousCoin
      BY DEF IInv, MinimalInv, ChosenCoinsSuffice, NoSuperfluousCoin
<1> QED
    BY <1>1, SpecIInv, PTL

\* No coin is returned twice.
THEOREM SelectionDistinct == Spec => []NoCoinChosenTwice
BY SpecIInv, PTL DEF IInv
=============================================================================
