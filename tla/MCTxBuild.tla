----------------------------- MODULE MCTxBuild -----------------------------
EXTENDS TxBuild, TLC, FiniteSetsExt

-----------------------------------------------------------------------------
(* The calls, and the coins at hand                                        *)

AssetsAtHand == {PRV, "T", "U", "NFT", PDEX}
NthIdx(a) == 100 * (CHOOSE n \in 1..5 :
                       <<PRV, "T", "U", "NFT", PDEX>>[n] = a)

\* A ledger from, per asset, a sequence of <<version, value>>.
CoinsAt(a, s) ==
    [k \in DOMAIN s |-> [id |-> NthIdx(a) + k, asset |-> a, ver |-> s[k][1],
                         val |-> s[k][2], idx |-> NthIdx(a) + k, ok |-> TRUE]]
V(ver, values) == [k \in DOMAIN values |-> <<ver, values[k]>>]
Ledger(f) == [a \in AssetsAtHand |->
                 IF a \in DOMAIN f THEN CoinsAt(a, f[a]) ELSE <<>>]
Undecryptable(l, a, k) == [l EXCEPT ![a][k].ok = FALSE]
In(l, a, ks) == [coins |-> [j \in DOMAIN ks |-> l[a][ks[j]]],
                 idx   |-> [j \in DOMAIN ks |-> l[a][ks[j]].idx]]
To(amount) == <<[to |-> "bob", val |-> amount]>>
Case(c, l) == [call |-> c, ledger |-> l]

\* Every sorted list of up to MaxCoins coins of 1 to MaxValue.
Lists == {s \in UNION {[1..n -> 1..MaxValue] : n \in 0..MaxCoins} : Descending(s)}
SortedLists == {Case(SendPRV(2, To(n), NoMetadata), Ledger(PRV :> V(2, s))) :
               s \in Lists, n \in 0..(MaxRequired - 1)}

Rich == Ledger(PRV :> V(1, <<2, 6>>) \o V(2, <<3, 0, 7, 3>>)
               @@ "T" :> V(2, <<2, 5, 4>>) \o V(1, <<4, 3>>)
               @@ "NFT" :> V(2, <<1, 1>>)
               @@ "U" :> V(2, <<9>>))
OnlyV2 == Ledger(PRV :> V(2, <<2, 9, 4>>) @@ "T" :> V(2, <<2, 5>>)
                 @@ "NFT" :> V(2, <<1>>))
Ledgers == {Rich, OnlyV2,
            Ledger(PRV :> V(1, <<5, 5>>) @@ "T" :> V(1, <<5, 2>>)),
            Undecryptable(OnlyV2, PRV, 1)}

Md == Signs(Metadata("burn", NoBurn, {}))
HasFee(c) == [c EXCEPT !.tok.hasFee = TRUE]

Transfers ==
    {SendPRV(v, To(n), md) : v \in {-1, 1, 2}, n \in {4, 9},
                             md \in {NoMetadata, Md}}
    \cup {[SendPRV(2, To(1) \o To(2) \o To(1), NoMetadata) EXCEPT !.fee = f] :
             f \in {0, 2}}
    \cup {SendPRV(v, <<>>, [Md EXCEPT !.big = TRUE]) : v \in {1, 2}}
    \cup {SendToken(v, "T", To(n), md) : v \in {-1, 1, 2}, n \in {4, 6},
                                         md \in {NoMetadata, Md}}
    \cup {HasFee(SendToken(v, "T", To(4), NoMetadata)) : v \in {1, 2}}
    \cup {[SendPRV(2, To(1), NoMetadata) EXCEPT
              !.tok = TokenTransfer("T", To(1))]}
    \* amounts whose sum wraps to 3
    \cup {SendPRV(v, To(50) \o To(16), NoMetadata) : v \in {1, 2}}

Pair == {PRV, "T"}
ApiCalls ==
    {TokenInitV1(3), TokenInitV2(3), MintNFT(2), Trade(PRV, "T", 3, 1, TRUE),
     Trade("T", PRV, 3, 1, FALSE), Trade("T", "U", 3, 2, TRUE),
     Trade("T", "U", 63, 2, FALSE), AddOrder("T", PRV, 3),
     WithdrawOrder("NFT", {}, Pair), Contribute(PRV, 3), Contribute("T", 3),
     WithdrawLiquidity("NFT", PRV, "T"), WithdrawLPFee("NFT", {"U"}, Pair),
     WithdrawProtocolFee, Stake("T", 2), Unstake("NFT", "T"),
     WithdrawStakeReward("NFT", "T", {}, {"U"}), Issuing, IssuingEVM("ETH"),
     BurnToEVM("T", 4, "PLG"), IssuingPRVPegging("BSC"),
     BurningPRVPegging(4, "ETH"), ShardStaking, UnStaking, WithdrawReward(1),
     WithdrawReward(2), Inscribe(NoCoins), PortalShield(NoCoins),
     PortalReplaceByFee(NoCoins), PortalSubmitConfirmation(NoCoins),
     PortalConvertVault(NoCoins), PortalRelayHeader(NoCoins),
     PortalUnShield("T", 3, NoCoins), Convert(PRV), Convert("T")}

V2In == In(Rich, PRV, <<5, 3>>)
Provided ==
    {SendPRVWithCoins(To(4), V2In), SendPRVWithCoins(To(4), NoCoins),
     SendPRVWithCoins(To(4), [V2In EXCEPT !.idx = <<>>]),
     SendPRVWithCoins(To(4), In(Rich, PRV, <<1, 2>>)),
     SendPRVWithCoins(To(4), In(Rich, PRV, <<1, 3>>)),
     SendPRVWithCoins(To(4), In(Rich, PRV, <<3, 5, 6, 4>>)),
     SendTokenWithCoins("T", To(4), In(Rich, "T", <<2>>), V2In),
     SendTokenWithCoins("T", To(4), In(Rich, "T", <<2>>), NoCoins),
     SendTokenWithCoins("T", To(4), In(Rich, "T", <<4>>), NoCoins),
     SendTokenWithCoins("T", To(4), In(Rich, "T", <<4>>), In(Rich, PRV, <<1>>)),
     Inscribe(V2In), PortalShield(V2In), PortalUnShield("T", 3, V2In),
     ConvertWithCoins(PRV, In(Rich, PRV, <<1, 2>>), NoCoins),
     ConvertWithCoins("T", In(Rich, "T", <<4, 5>>), V2In),
     ConvertWithCoins("T", In(Rich, "T", <<4, 1>>), V2In)}

MCCases ==
    SortedLists
    \cup {Case(c, l) : c \in Transfers \cup ApiCalls, l \in Ledgers}
    \cup {Case(c, Rich) : c \in Provided}
=============================================================================
