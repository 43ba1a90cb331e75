----------------------------- MODULE Requests ------------------------------
(***************************************************************************)
(* The request functions of incclient (pdex.go, bridge.go, prv_pegging.go, *)
(* staking.go, portal.go, inscription.go, txtoken.go): which payments,     *)
(* token payments, metadata and version each hands to the transaction      *)
(* builder, or that it refuses its arguments.                              *)
(*                                                                         *)
(* Of the metadata the model keeps the type, what it says is burned (a     *)
(* function from assets to amounts), the assets it names a receiver for,   *)
(* whether it carries a signature and whether it is larger than 100 KB.    *)
(* `send' is the RPC the CreateAndSend variant submits with.               *)
(***************************************************************************)
EXTENDS TxLayer

CONSTANTS DefaultPRVFee, StakingAmount, InscribeAmount

NoToken == [asset |-> "none"]
NoCoins == [coins |-> <<>>, idx |-> <<>>]
Refused == [api |-> "refused"]
PDEX == "PDEX"

NoBurn == [a \in {} |-> 0]
Burns(a, amount) == [b \in {a} |-> amount]

Metadata(type, burns, receivers) ==
    [type |-> type, burns |-> burns, receivers |-> receivers,
     signs |-> FALSE, big |-> FALSE]
Signs(md) == [md EXCEPT !.signs = TRUE]

BurnPayment(amount) == <<[to |-> Burning, val |-> amount]>>

\* NewTxParam, and the PRV transaction of CreateRawTransaction.
PRVRequest(api, version, pays, fee, md) ==
    [api |-> api, route |-> "prv", version |-> version, pays |-> pays,
     tok |-> NoToken, fee |-> fee, md |-> md, prvIn |-> NoCoins,
     tokIn |-> NoCoins, withCoins |-> FALSE, send |-> "prv"]

\* NewTxTokenParam with type 1 (transfer), fee in PRV.
TokenTransfer(asset, pays) ==
    [asset |-> asset, kind |-> "transfer", pays |-> pays, hasFee |-> FALSE,
     fee |-> 0]

TokenRequest(api, version, tok, pays, fee, md) ==
    [PRVRequest(api, version, pays, fee, md) EXCEPT
        !.route = "token", !.tok = tok, !.send = "token"]

\* Burning `amount' of an asset: a PRV or a token transaction.
BurnRequest(api, version, asset, amount, fee, md) ==
    IF asset = PRV
    THEN PRVRequest(api, version, BurnPayment(amount), fee, md)
    ELSE TokenRequest(api, version, TokenTransfer(asset, BurnPayment(amount)),
                      <<>>, fee, md)

\* CreateRawTransactionWithInputCoins in place of CreateRawTransaction.
WithCoins(r, in) ==
    IF in.coins = <<>> THEN r
    ELSE [r EXCEPT !.prvIn = in, !.withCoins = TRUE, !.route = "prv"]

-----------------------------------------------------------------------------
(* Plain transfers                                                         *)

SendPRV(version, pays, md) == PRVRequest("send", version, pays, 0, md)

SendToken(version, asset, pays, md) ==
    TokenRequest("sendToken", version, TokenTransfer(asset, pays), <<>>,
                 DefaultPRVFee, md)

SendPRVWithCoins(pays, in) ==
    [SendPRV(2, pays, NoMetadata) EXCEPT !.prvIn = in, !.withCoins = TRUE]

SendTokenWithCoins(asset, pays, tokIn, prvIn) ==
    [SendToken(2, asset, pays, NoMetadata) EXCEPT
        !.tokIn = tokIn, !.prvIn = prvIn, !.withCoins = TRUE]

\* CreateTokenInitTransactionV1: a type 0 token transaction.
TokenInitV1(amount) ==
    TokenRequest("tokenInit", 1,
        [TokenTransfer("new", <<[to |-> Sender, val |-> amount]>>)
            EXCEPT !.kind = "init"], <<>>, 0, NoMetadata)

\* CreateTokenInitTransactionV2: a PRV transaction with a mint request.
TokenInitV2(amount) ==
    PRVRequest("tokenInit", 2, <<>>, 0, Metadata("initToken", NoBurn, {}))

-----------------------------------------------------------------------------
(* pDEX                                                                    *)

MintNFT(required) ==
    PRVRequest("mintNFT", 2, BurnPayment(required), 0,
               Metadata("mintNFT", Burns(PRV, required), {PRV}))

TradeReceivers(sell, buy, feeInPRV) ==
    {sell, buy} \cup (IF feeInPRV /\ sell # PRV /\ buy # PRV
                      THEN {PRV} ELSE {})

\* Mutant of TradePayment: the trading fee is not burned.
FeeNotPaid(sell, amount, fee, feeInPRV) == amount

\* What is burned of the asset sold: the fee too, unless it is burned in PRV.
TradePayment(sell, amount, fee, feeInPRV) ==
    IF feeInPRV /\ sell # PRV THEN amount ELSE Wrap(amount + fee)

\* SellAmount and TradingFee of the metadata, by the asset they are paid in.
TradeBurns(sell, amount, fee, feeInPRV) ==
    IF feeInPRV /\ sell # PRV
    THEN [a \in {sell, PRV} |-> IF a = PRV THEN fee ELSE amount]
    ELSE Burns(sell, amount + fee)

Trade(sell, buy, amount, fee, feeInPRV) ==
    LET md   == Metadata("trade", TradeBurns(sell, amount, fee, feeInPRV),
                         TradeReceivers(sell, buy, feeInPRV))
        sold == BurnPayment(TradePayment(sell, amount, fee, feeInPRV))
    IN  IF sell = PRV THEN PRVRequest("trade", 2, sold, 0, md)
        ELSE TokenRequest("trade", 2, TokenTransfer(sell, sold),
                 IF feeInPRV THEN BurnPayment(fee) ELSE <<>>, 0, md)

AddOrder(sell, buy, amount) ==
    BurnRequest("addOrder", 2, sell, amount, 0,
                Metadata("addOrder", Burns(sell, amount), {sell, buy}))

\* An NFT is burned to prove its ownership, and is minted back.
NFTRequest(api, nft, receivers) ==
    TokenRequest(api, 2, TokenTransfer(nft, BurnPayment(1)), <<>>, 0,
                 Metadata(api, Burns(nft, 1), receivers))

\* getTokenIDsFromPairID, unless the caller names the tokens.
PairOr(tokens, pair) == IF tokens = {} THEN pair ELSE tokens

WithdrawOrder(nft, tokens, pair) ==
    NFTRequest("withdrawOrder", nft, {nft} \cup PairOr(tokens, pair))

Contribute(asset, amount) ==
    BurnRequest("contribute", 2, asset, amount, 0,
                Metadata("contribute", Burns(asset, amount), {asset}))

WithdrawLiquidity(nft, token0, token1) ==
    NFTRequest("withdrawLiquidity", nft, {token0, token1, nft})

WithdrawLPFee(nft, tokens, pair) ==
    NFTRequest("withdrawLPFee", nft,
               {nft, PRV, PDEX} \cup PairOr(tokens, pair))

WithdrawProtocolFee ==
    PRVRequest("withdrawProtocolFee", 2, <<>>, 0,
               Signs(Metadata("withdrawProtocolFee", NoBurn, {})))

Stake(asset, amount) ==
    BurnRequest("stake", 2, asset, amount, 0,
                Metadata("stake", Burns(asset, amount), {asset}))

Unstake(nft, asset) == NFTRequest("unstake", nft, {nft, asset})

WithdrawStakeReward(nft, pool, tokens, rewards) ==
    NFTRequest("withdrawStakeReward", nft,
               {nft, PRV, pool} \cup PairOr(tokens, rewards))

-----------------------------------------------------------------------------
(* Bridge and PRV pegging                                                  *)

\* The metadata type of each EVM network (EVMIssuingMetadata, EVMBurningMetadata).
IssuingType == [ETH |-> "issuingETH", BSC |-> "issuingBSC",
                PLG |-> "issuingPLG", FTM |-> "issuingFTM"]
BurningType == [ETH |-> "burnToETH", BSC |-> "burnToBSC",
                PLG |-> "burnToPLG", FTM |-> "burnToFTM"]
Networks == DOMAIN IssuingType

Issuing ==
    PRVRequest("issuing", 2, <<>>, DefaultPRVFee,
               Signs(Metadata("issuing", NoBurn, {})))

IssuingEVM(network) ==
    IF network \notin Networks THEN Refused
    ELSE PRVRequest("issuingEVM", -1, <<>>, DefaultPRVFee,
                    Metadata(IssuingType[network], NoBurn, {}))

\* The metadata names the burner's address, to which a refund goes.
BurnToEVM(asset, amount, network) ==
    IF asset = PRV \/ network \notin Networks THEN Refused
    ELSE TokenRequest("burnToEVM", -1,
             TokenTransfer(asset, BurnPayment(amount)), <<>>, DefaultPRVFee,
             Metadata(BurningType[network], Burns(asset, amount), {asset}))

\* Only Polygon is refused: any other network but BSC is taken for Ethereum.
PeggedType(network, bep20, erc20) == IF network = "BSC" THEN bep20 ELSE erc20

IssuingPRVPegging(network) ==
    IF network = "PLG" THEN Refused
    ELSE PRVRequest("issuingPRV", -1, <<>>, DefaultPRVFee,
             Metadata(PeggedType(network, "issuingBEP20", "issuingERC20"),
                      NoBurn, {}))

BurningPRVPegging(amount, network) ==
    IF network = "PLG" THEN Refused
    ELSE PRVRequest("burnPRV", -1, BurnPayment(amount), DefaultPRVFee,
             Metadata(PeggedType(network, "burnBEP20", "burnERC20"),
                      Burns(PRV, amount), {PRV}))

-----------------------------------------------------------------------------
(* Staking                                                                 *)

ShardStaking ==
    PRVRequest("shardStaking", -1, BurnPayment(StakingAmount), 0,
               Metadata("staking", Burns(PRV, StakingAmount), {PRV}))

UnStaking ==
    PRVRequest("unStaking", -1, BurnPayment(0), 0,
               Signs(Metadata("unStaking", Burns(PRV, 0), {})))

WithdrawReward(version) ==
    IF version \notin {1, 2} THEN Refused
    ELSE PRVRequest("withdrawReward", version, <<>>, 0,
                    Signs(Metadata("withdrawReward", NoBurn, {})))

-----------------------------------------------------------------------------
(* Inscription and portal: the caller may provide the coins                *)

Inscribe(in) ==
    WithCoins(PRVRequest("inscribe", 2, BurnPayment(InscribeAmount), 0,
        Metadata("inscribe", Burns(PRV, InscribeAmount), {PRV})), in)

PortalShield(in) ==
    WithCoins(PRVRequest("portalShield", 2, <<>>, 0,
                         Metadata("portalShield", NoBurn, {})), in)

PortalReplaceByFee(in) ==
    WithCoins(PRVRequest("portalReplaceByFee", 2, <<>>, 0,
                         Signs(Metadata("portalRBF", NoBurn, {}))), in)

PortalSubmitConfirmation(in) ==
    WithCoins(PRVRequest("portalConfirm", 2, <<>>, 0,
                         Metadata("portalConfirm", NoBurn, {})), in)

PortalConvertVault(in) ==
    WithCoins(PRVRequest("portalConvertVault", 2, <<>>, 0,
                         Signs(Metadata("portalConvertVault", NoBurn, {}))), in)

PortalRelayHeader(in) ==
    WithCoins(PRVRequest("portalRelayHeader", 2, <<>>, 0,
                         Metadata("relayHeader", NoBurn, {})), in)

\* The coins are handed to the PRV builder, although this is a token request.
PortalUnShield(asset, amount, in) ==
    WithCoins(TokenRequest("portalUnShield", 2,
        TokenTransfer(asset, BurnPayment(amount)), <<>>, 0,
        Metadata("portalUnShield", Burns(asset, amount), {asset})), in)

-----------------------------------------------------------------------------
(* Conversion                                                              *)

Convert(asset) ==
    [PRVRequest("convert", 2, <<>>, DefaultPRVFee, NoMetadata) EXCEPT
        !.route = IF asset = PRV THEN "convert" ELSE "tokenConvert",
        !.tok = IF asset = PRV THEN NoToken ELSE TokenTransfer(asset, <<>>),
        !.send = IF asset = PRV THEN "prv" ELSE "token"]

ConvertWithCoins(asset, v1, prvIn) ==
    [Convert(asset) EXCEPT !.withCoins = TRUE, !.prvIn = prvIn, !.tokIn = v1]
=============================================================================
