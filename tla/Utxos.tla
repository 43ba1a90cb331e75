------------------------------- MODULE Utxos -------------------------------
(***************************************************************************)
(* The unspent-coin queries of incclient/coin.go and the lists made of     *)
(* their results (divideCoins, getListIdx in incclient/tx_utils.go).       *)
(*                                                                         *)
(* An output coin is [id, asset, ver, val, idx, ok]: id its public key     *)
(* (and, as there is one per coin, its key image), idx its index in the    *)
(* ledger, ok whether it decrypts.  A query result is a sequence of        *)
(* [coin, idx]: a coin and the index the code pairs it with.               *)
(***************************************************************************)
EXTENDS Integers, Sequences, SequencesExt, FiniteSets

CONSTANTS BatchSize    \* key images per HasSerialNumber call: 100

\* What a loop builds that appends the elements it wants to a new list: the
\* elements at the positions in K, the j-th of which is Nth(K, j).
Nth(K, j) == CHOOSE k \in K : Cardinality({m \in K : m <= k}) = j
Kept(s, K) == [j \in 1..Cardinality(K) |-> s[Nth(K, j)]]

\* GetListDecryptedCoins: a version 2 coin that does not decrypt is dropped.
GetListDecryptedCoins(out) ==
    Kept(out, {k \in DOMAIN out : out[k].ver = 1 \/ out[k].ok})

CheckCoinsSpent(coins, spent) == [k \in DOMAIN coins |-> coins[k].id \in spent]

NumBatches(n) == n \div BatchSize + (IF n % BatchSize # 0 THEN 1 ELSE 0)

CheckSpentInBatches(coins, spent) ==
    LET first(b) == (b - 1) * BatchSize + 1
        last(b)  == Min({b * BatchSize, Len(coins)})
    IN  FlattenSeq([b \in 1..NumBatches(Len(coins)) |->
            CheckCoinsSpent(SubSeq(coins, first(b), last(b)), spent)])

\* The loop at the end of every query: position k of the decrypted list is
\* paired with index k of the list that was decrypted.
PairUp(out, flags, want) ==
    LET dec == GetListDecryptedCoins(out)
        all == [k \in DOMAIN dec |-> [coin |-> dec[k], idx |-> out[k].idx]]
    IN  Kept(all, {k \in DOMAIN dec : flags[k] = want /\ dec[k].val # 0})

\* Mutant of GetUnspentOutputCoins: spent coins are not left out.
ForgetsSpent(out, spent) ==
    PairUp(out, [k \in DOMAIN out |-> FALSE], FALSE)

GetUnspentOutputCoins(out, spent) ==
    PairUp(out, CheckSpentInBatches(GetListDecryptedCoins(out), spent), FALSE)

GetSpentOutputCoins(out, spent) ==
    PairUp(out, CheckCoinsSpent(GetListDecryptedCoins(out), spent), TRUE)

\* The cached coins in map order, then the version 1 coins of the node with
\* index -1, decrypted and checked together.
GetUnspentOutputCoinsFromCache(cached, out, spent) ==
    LET v1  == Kept(out, {k \in DOMAIN out : out[k].ver = 1})
        all == cached \o [k \in DOMAIN v1 |-> [v1[k] EXCEPT !.idx = -1]]
    IN  PairUp(all, CheckCoinsSpent(GetListDecryptedCoins(all), spent), FALSE)

\* By asset: PRV, and the coins of the umbrella asset under the token ID
\* their asset tag opens to; a tag that is not known is skipped.
GetAllUTXOsV2(prv, tokens, spent, known) ==
    LET prvUtxos == GetUnspentOutputCoins(prv, spent)
        utxos    == GetUnspentOutputCoins(tokens, spent)
        assets   == {e.coin.asset : e \in ToSet(utxos)} \cap known
    IN  [a \in assets \cup (IF prvUtxos = <<>> THEN {} ELSE {"PRV"}) |->
            IF a = "PRV" THEN prvUtxos
            ELSE Kept(utxos, {k \in DOMAIN utxos : utxos[k].coin.asset = a})]

-----------------------------------------------------------------------------

\* getListIdx: the index paired with the first coin of that public key.
GetListIdx(coin, pairs) ==
    LET k == SelectInSeq(pairs, LAMBDA e : e.coin.ver = 2
                                           /\ e.coin.id = coin.id)
    IN  pairs[k].idx

OfVersion(pairs, version) ==
    Kept(pairs, {k \in DOMAIN pairs : pairs[k].coin.ver = version})

\* Mutant of DescendingOrders: the coins stay in the order of the query.
Unsorted(pairs) == {pairs}

\* Every descending order of the coins: sort.Slice is not stable.
DescendingOrders(pairs) ==
    {p \in {[k \in DOMAIN pairs |-> pairs[f[k]]] :
               f \in Bijection(DOMAIN pairs, DOMAIN pairs)} :
        \A k \in 1..(Len(p) - 1) : p[k].coin.val >= p[k + 1].coin.val}

\* divideCoins(coinList, idxList, true), the list of one version.
DivideCoins(pairs, version) ==
    {[k \in DOMAIN p |->
        [coin |-> p[k].coin,
         idx  |-> IF version = 2 THEN GetListIdx(p[k].coin, pairs) ELSE 0]] :
        p \in DescendingOrders(OfVersion(pairs, version))}

\* getVersionFromInputCoins; 0 stands for its error.
GetVersionFromInputCoins(coins) ==
    IF coins = <<>> \/ \E k \in DOMAIN coins : coins[k].ver # coins[1].ver
    THEN 0 ELSE coins[1].ver
=============================================================================
