---------------------------- MODULE ChooseCoins ----------------------------
(***************************************************************************)
(* chooseBestCoinsByAmount (incclient/tx_utils.go): which of the sender's  *)
(* unspent coins a transaction spends so as to cover requiredAmount.       *)
(*                                                                         *)
(* One action per iteration of the two loops of the function and one per   *)
(* way out of it.  The list comes from divideCoins, which sorts it in      *)
(* descending order, and from GetUnspentOutputCoins, which drops coins of  *)
(* value zero.  Positions are 1-based here and 0-based in the code.        *)
(* Amounts are natural numbers: the coins of one asset never sum to more   *)
(* than its supply, which is a uint64.                                     *)
(***************************************************************************)
EXTENDS Integers, Sequences

CONSTANTS MaxCoins,     \* bound on the length of the coin list
          MaxValue,     \* bound on the value of a coin
          MaxRequired   \* bound on the amount asked for

ASSUME BoundsAssumption ==
    MaxCoins \in Nat /\ MaxValue \in Nat /\ MaxRequired \in Nat

VARIABLES coinList,           \* the values of the candidate coins
          requiredAmount,
          pc,
          i,                  \* loop counter: coins 1..i have been visited
          totalInputAmount,
          remainAmount,
          totalChosenAmount,
          chosen,             \* positions of the coins chosen so far
          prefix              \* history: prefix[k] is the sum of coins 1..k-1

vars == <<coinList, requiredAmount, pc, i, totalInputAmount, remainAmount,
          totalChosenAmount, chosen, prefix>>

\* sort.Slice(coinV2List, value(i) > value(j)): any order among equal coins.
Descending(list) ==
    \A a, b \in DOMAIN list : a < b => list[a] >= list[b]

\* A coin list as GetUnspentOutputCoins returns it: no coin of value zero.
CoinLists == UNION {[1..n -> 1..MaxValue] : n \in 0..MaxCoins}

Init ==
    /\ coinList \in {list \in CoinLists : Descending(list)}
    /\ requiredAmount \in 0..MaxRequired
    /\ pc = "sum"
    /\ i = 0
    /\ totalInputAmount = 0
    /\ remainAmount = 0
    /\ totalChosenAmount = 0
    /\ chosen = <<>>
    /\ prefix = <<0>>

-----------------------------------------------------------------------------

SumCoin ==
    /\ pc = "sum"
    /\ i < Len(coinList)
    /\ i' = i + 1
    /\ totalInputAmount' = totalInputAmount + coinList[i + 1]
    /\ prefix' = Append(prefix, totalInputAmount')
    /\ UNCHANGED <<coinList, requiredAmount, pc, remainAmount,
                   totalChosenAmount, chosen>>

TotalTooSmall ==
    /\ pc = "sum"
    /\ i = Len(coinList)
    /\ totalInputAmount < requiredAmount
    /\ pc' = "insufficient"
    /\ UNCHANGED <<coinList, requiredAmount, i, totalInputAmount,
                   remainAmount, totalChosenAmount, chosen, prefix>>

\* Every coin is needed.  The code returns the list itself; the amount it
\* amounts to is recorded so that both ways out can be compared.
TotalExact ==
    /\ pc = "sum"
    /\ i = Len(coinList)
    /\ totalInputAmount = requiredAmount
    /\ chosen' = [k \in 1..Len(coinList) |-> k]
    /\ totalChosenAmount' = totalInputAmount
    /\ pc' = "done"
    /\ UNCHANGED <<coinList, requiredAmount, i, totalInputAmount,
                   remainAmount, prefix>>

StartChoosing ==
    /\ pc = "sum"
    /\ i = Len(coinList)
    /\ totalInputAmount > requiredAmount
    /\ pc' = "choose"
    /\ i' = 0
    /\ remainAmount' = requiredAmount
    /\ UNCHANGED <<coinList, requiredAmount, totalInputAmount,
                   totalChosenAmount, chosen, prefix>>

-----------------------------------------------------------------------------

\* The coin is larger than what is missing, and so is a smaller one.
SkipCoin ==
    /\ pc = "choose"
    /\ i < Len(coinList) - 1
    /\ coinList[i + 1] > remainAmount
    /\ coinList[i + 2] >= remainAmount
    /\ i' = i + 1
    /\ UNCHANGED <<coinList, requiredAmount, pc, totalInputAmount,
                   remainAmount, totalChosenAmount, chosen, prefix>>

\* The smallest single coin that covers what is missing: take it and break.
TakeAndBreak ==
    /\ pc = "choose"
    /\ i < Len(coinList) - 1
    /\ coinList[i + 1] > remainAmount
    /\ coinList[i + 2] < remainAmount
    /\ chosen' = Append(chosen, i + 1)
    /\ totalChosenAmount' = totalChosenAmount + coinList[i + 1]
    /\ pc' = "check"
    /\ UNCHANGED <<coinList, requiredAmount, i, totalInputAmount,
                   remainAmount, prefix>>

Take(next) ==
    /\ chosen' = Append(chosen, i + 1)
    /\ remainAmount' = remainAmount - coinList[i + 1]
    /\ totalChosenAmount' = totalChosenAmount + coinList[i + 1]
    /\ i' = next
    /\ UNCHANGED <<coinList, requiredAmount, pc, totalInputAmount, prefix>>

\* Mutant of TakeCoin: the loop counter is not advanced.
TakeCoinAgain == pc = "choose" /\ i < Len(coinList) - 1
                 /\ coinList[i + 1] <= remainAmount /\ Take(i)

TakeCoin ==
    /\ pc = "choose"
    /\ i < Len(coinList) - 1
    /\ coinList[i + 1] <= remainAmount
    /\ Take(i + 1)

LoopEnds ==
    /\ pc = "choose"
    /\ i >= Len(coinList) - 1
    /\ pc' = "check"
    /\ UNCHANGED <<coinList, requiredAmount, i, totalInputAmount,
                   remainAmount, totalChosenAmount, chosen, prefix>>

\* Mutant of Covered: the total is not compared.
CoveredUnchecked ==
    /\ pc = "check"
    /\ pc' = "done"
    /\ UNCHANGED <<coinList, requiredAmount, i, totalInputAmount,
                   remainAmount, totalChosenAmount, chosen, prefix>>

Covered ==
    /\ pc = "check"
    /\ totalChosenAmount >= requiredAmount
    /\ pc' = "done"
    /\ UNCHANGED <<coinList, requiredAmount, i, totalInputAmount,
                   remainAmount, totalChosenAmount, chosen, prefix>>

\* The last coin, which the loop never visits, is added; if that is not
\* enough either the function gives up with "not enough coin to spend".
AddLastCoin ==
    LET last == Len(coinList)
    IN  /\ pc = "check"
        /\ totalChosenAmount < requiredAmount
        /\ totalChosenAmount' = totalChosenAmount + coinList[last]
        /\ chosen' = Append(chosen, last)
        /\ pc' = IF totalChosenAmount' < requiredAmount
                 THEN "notEnough" ELSE "done"
        /\ UNCHANGED <<coinList, requiredAmount, i, totalInputAmount,
                       remainAmount, prefix>>

Returned == pc \in {"done", "insufficient", "notEnough"} /\ UNCHANGED vars

Next == \/ SumCoin \/ TotalTooSmall \/ TotalExact \/ StartChoosing
        \/ SkipCoin \/ TakeAndBreak \/ TakeCoin \/ LoopEnds
        \/ Covered \/ AddLastCoin
        \/ Returned

Spec == Init /\ [][Next]_vars

\* The function is sequential code that runs to its end once called.
FairSpec == Spec /\ WF_vars(Next)

-----------------------------------------------------------------------------

(***************************************************************************)
(* Types: the two sums are naturals, positions are within the list.        *)
(***************************************************************************)
TypeOK ==
    /\ coinList \in Seq(Nat \ {0})
    /\ requiredAmount \in Nat
    /\ pc \in {"sum", "choose", "check", "done", "insufficient", "notEnough"}
    /\ i \in Nat
    /\ i <= Len(coinList)
    /\ totalInputAmount \in Nat
    /\ remainAmount \in Nat
    /\ totalChosenAmount \in Nat
    /\ chosen \in Seq(Nat \ {0})
    /\ prefix \in Seq(Nat)

\* The coins handed to the transaction are worth at least what it spends
\* (amounts and fee), whichever way chooseBestCoinsByAmount succeeds.
ChosenCoinsSuffice == pc = "done" => totalChosenAmount >= requiredAmount

\* The second "not enough coin to spend" return is dead code: once the total
\* exceeds requiredAmount the greedy loop plus the last coin always cover it.
NeverNotEnough == pc # "notEnough"

\* No chosen coin is superfluous: leaving any one of them out would no longer
\* cover requiredAmount.  This is what the descending order is for.
NoSuperfluousCoin ==
    pc = "done" => \A k \in DOMAIN chosen :
                       totalChosenAmount - coinList[chosen[k]] < requiredAmount

\* No coin is chosen twice (a transaction with a repeated key image is
\* invalid): positions are strictly increasing, the appended last one included.
NoCoinChosenTwice ==
    \A a, b \in DOMAIN chosen : a < b => chosen[a] < chosen[b]
=============================================================================
