------------------------------ MODULE Metadata ------------------------------
(***************************************************************************)
(* The metadata a transaction carries (metadata/*.go, metadata/common,     *)
(* metadata/pdexv3, metadata/inscription): which fields each struct writes *)
(* to JSON, which of them its Hash and its HashWithoutSig concatenate, how *)
(* Sign fills the signature in, and how ParseMetadata reads it all back.   *)
(*                                                                         *)
(* A value is a sequence, the empty one being the empty string, the nil    *)
(* slice or no signature, so that a hash is told by the concatenation that *)
(* is hashed.  A constructor copies its arguments to the fields.           *)
(***************************************************************************)
EXTENDS Integers, Sequences, FiniteSets
LOCAL INSTANCE SequencesExt

\* A struct: its JSON fields besides Type, what is hashed, whether it
\* embeds MetadataBaseWithSignature.  Without a HashWithoutSig of its own a
\* struct has that of MetadataBase: the type alone.
Struct(json, hash) == [json |-> json, hash |-> hash, unsigned |-> <<"Type">>, signs |-> FALSE]
SignedStruct(json, hash, unsigned) ==
    [json |-> json \cup {"Sig"}, hash |-> hash, unsigned |-> unsigned, signs |-> TRUE]
\* Hash of the whole JSON object; its fields are in a fixed order.
HashedAsJSON(json) == Struct(json, <<"Type">> \o SetToSeq(json))

-----------------------------------------------------------------------------
(* metadata                                                                *)

BurningFields == <<"Type", "BurnerAddress", "TokenID", "BurningAmount", "TokenName", "RemoteAddress">>
BurningRequest ==
    [Struct({"BurnerAddress", "BurningAmount", "TokenID", "TokenName", "RemoteAddress"}, BurningFields)
        EXCEPT !.unsigned = BurningFields]
ContractingRequest ==
    Struct({"BurnerAddress", "BurnedAmount", "TokenID"},
           <<"Type", "BurnerAddress", "TokenID", "BurnedAmount">>)
InitTokenRequest ==
    Struct({"OTAStr", "TxRandomStr", "Amount", "TokenName", "TokenSymbol"},
           <<"Type", "OTAStr", "TxRandomStr", "TokenName", "TokenSymbol", "Amount">>)
InitTokenResponse == Struct({"RequestedTxID"}, <<"RequestedTxID", "Type">>)
IssuingEVMRequest ==
    Struct({"BlockHash", "TxIndex", "ProofStrs", "IncTokenID"},
           <<"BlockHash", "TxIndex", "ProofStrs", "Type", "IncTokenID">>)
IssuingEVMResponse ==
    Struct({"RequestedTxID", "UniqETHTx", "ExternalTokenID", "SharedRandom"},
           <<"RequestedTxID", "UniqETHTx", "ExternalTokenID", "Type", "SharedRandom">>)
IssuingRequest ==
    LET unsigned == <<"ReceiverAddress", "TokenID", "DepositedAmount", "TokenName", "Type">>
    IN  SignedStruct({"ReceiverAddress", "DepositedAmount", "TokenID", "TokenName"},
                     Append(unsigned, "Sig"), unsigned)
IssuingResponse == Struct({"RequestedTxID", "SharedRandom"}, <<"RequestedTxID", "Type", "SharedRandom">>)
PDEContribution ==
    Struct({"PDEContributionPairID", "ContributorAddressStr", "ContributedAmount", "TokenIDStr"},
           <<"Type", "PDEContributionPairID", "ContributorAddressStr", "TokenIDStr", "ContributedAmount">>)
PDEContributionResponse ==
    Struct({"ContributionStatus", "RequestedTxID", "TokenIDStr", "SharedRandom"},
           <<"RequestedTxID", "TokenIDStr", "ContributionStatus", "Type", "SharedRandom">>)
PDECrossPoolTradeRequest ==
    Struct({"TokenIDToBuyStr", "TokenIDToSellStr", "SellAmount", "MinAcceptableAmount", "TradingFee",
            "TraderAddressStr", "TxRandomStr", "SubTraderAddressStr", "SubTxRandomStr"},
           <<"Type", "TokenIDToBuyStr", "TokenIDToSellStr", "TraderAddressStr", "TxRandomStr",
             "SubTraderAddressStr", "SubTxRandomStr", "SellAmount", "MinAcceptableAmount", "TradingFee">>)
PDECrossPoolTradeResponse ==
    Struct({"TradeStatus", "RequestedTxID"}, <<"RequestedTxID", "TradeStatus", "Type">>)
PDEFeeWithdrawalRequest ==
    LET unsigned == <<"Type", "WithdrawerAddressStr", "WithdrawalToken1IDStr", "WithdrawalToken2IDStr",
                      "WithdrawalFeeAmt">>
    IN  SignedStruct({"WithdrawerAddressStr", "WithdrawalToken1IDStr", "WithdrawalToken2IDStr",
                      "WithdrawalFeeAmt"}, Append(unsigned, "Sig"), unsigned)
PDEFeeWithdrawalResponse ==
    Struct({"RequestedTxID", "SharedRandom"}, <<"RequestedTxID", "Type", "SharedRandom">>)
PDETradeRequest ==
    Struct({"TokenIDToBuyStr", "TokenIDToSellStr", "SellAmount", "MinAcceptableAmount", "TradingFee",
            "TraderAddressStr", "TxRandomStr"},
           <<"Type", "TokenIDToBuyStr", "TokenIDToSellStr", "TraderAddressStr", "TxRandomStr",
             "SellAmount", "MinAcceptableAmount", "TradingFee">>)
PDETradeResponse == Struct({"TradeStatus", "RequestedTxID"}, <<"RequestedTxID", "TradeStatus", "Type">>)
PDEWithdrawalRequest ==
    LET unsigned == <<"Type", "WithdrawerAddressStr", "WithdrawalToken1IDStr", "WithdrawalToken2IDStr",
                      "WithdrawalShareAmt">>
    IN  SignedStruct({"WithdrawerAddressStr", "WithdrawalToken1IDStr", "WithdrawalToken2IDStr",
                      "WithdrawalShareAmt"}, Append(unsigned, "Sig"), unsigned)
PDEWithdrawalResponse ==
    Struct({"RequestedTxID", "TokenIDStr", "SharedRandom"},
           <<"RequestedTxID", "TokenIDStr", "Type", "SharedRandom">>)

\* IncognitoAddress is not hashed.
PortalConvertVaultRequest ==
    LET unsigned == <<"Type", "TokenID", "ConvertProof">>
    IN  SignedStruct({"TokenID", "ConvertProof", "IncognitoAddress"}, Append(unsigned, "Sig"), unsigned)
PortalReplacementFeeRequest ==
    LET unsigned == <<"Type", "TokenID", "BatchID", "Fee">>
    IN  SignedStruct({"TokenID", "BatchID", "Fee"}, Append(unsigned, "Sig"), unsigned)
PortalShieldingRequest ==
    Struct({"TokenID", "IncogAddressStr", "ShieldingProof"},
           <<"Type", "TokenID", "IncogAddressStr", "ShieldingProof">>)
\* SharedRandom is not hashed.
PortalShieldingResponse ==
    Struct({"RequestStatus", "ReqTxID", "RequesterAddrStr", "MintingAmount", "IncTokenID", "SharedRandom"},
           <<"Type", "RequestStatus", "ReqTxID", "RequesterAddrStr", "MintingAmount", "IncTokenID">>)
PortalSubmitConfirmedTxRequest ==
    Struct({"TokenID", "UnshieldProof", "BatchID"}, <<"Type", "TokenID", "BatchID", "UnshieldProof">>)
PortalUnshieldRequest ==
    Struct({"OTAPubKeyStr", "TxRandomStr", "RemoteAddress", "TokenID", "UnshieldAmount"},
           <<"Type", "OTAPubKeyStr", "TxRandomStr", "RemoteAddress", "UnshieldAmount", "TokenID">>)
PortalUnshieldResponse ==
    Struct({"RequestStatus", "ReqTxID", "OTAPubKeyStr", "TxRandomStr", "UnshieldAmount", "IncTokenID"},
           <<"Type", "RequestStatus", "ReqTxID", "OTAPubKeyStr", "TxRandomStr", "UnshieldAmount", "IncTokenID">>)
RelayingHeader ==
    Struct({"IncogAddressStr", "Header", "BlockHeight"}, <<"Type", "IncogAddressStr", "Header", "BlockHeight">>)
ReturnStakingMetadata ==
    Struct({"TxID", "StakerAddress", "SharedRandom"}, <<"StakerAddress", "TxID", "SharedRandom", "Type">>)
\* The staking requests hash their type (and Sig), no field.
StakingMetadata ==
    Struct({"FunderPaymentAddress", "RewardReceiverPaymentAddress", "StakingAmountShard", "AutoReStaking",
            "CommitteePublicKey"}, <<"Type">>)
StopAutoStakingMetadata == SignedStruct({"CommitteePublicKey"}, <<"Type", "Sig">>, <<"Type">>)
UnStakingMetadata == SignedStruct({"CommitteePublicKey"}, <<"Type">>, <<"Type">>)
\* hash and unsigned are those of version 1; see HashedFields.
WithDrawRewardRequest ==
    SignedStruct({"PaymentAddress", "TokenID", "Version"},
                 <<"PaymentAddress", "TokenID", "Sig">>, <<"PaymentAddress", "TokenID">>)
WithDrawRewardResponse ==
    Struct({"TxRequest", "TokenID", "RewardPublicKey", "SharedRandom", "Version"},
           <<"TxRequest", "TokenID", "SharedRandom", "RewardPublicKey", "Version">>)

-----------------------------------------------------------------------------
(* metadata/pdexv3 and metadata/inscription                                *)

Response == HashedAsJSON({"Status", "TxReqID"})
AddLiquidityRequest ==
    HashedAsJSON({"PoolPairID", "PairHash", "OtaReceiver", "TokenID", "NftID", "TokenAmount", "Amplifier"})
AddLiquidityResponse == Response
AddOrderRequest ==
    HashedAsJSON({"TokenToSell", "PoolPairID", "SellAmount", "MinAcceptableAmount", "Receiver", "NftID"})
AddOrderResponse == HashedAsJSON({"Status", "RequestTxID"})
MintNftResponse == Struct({"NftID", "OtaReceiver"}, <<"Type", "NftID", "OtaReceiver">>)
\* SharedRandom is not hashed.
MintPDEXGenesisResponse ==
    Struct({"MintingPaymentAddress", "MintingAmount", "SharedRandom"},
           <<"Type", "MintingPaymentAddress", "MintingAmount">>)
ParamsModifyingRequest ==
    SignedStruct({"Pdexv3Params"}, <<"Type", "Sig", "Pdexv3Params">>, <<"Type", "Pdexv3Params">>)
StakingRequest == HashedAsJSON({"OtaReceiver", "TokenID", "NftID", "TokenAmount"})
StakingResponse == Response
TradeRequest ==
    HashedAsJSON({"TradePath", "TokenToSell", "SellAmount", "MinAcceptableAmount", "TradingFee", "Receiver"})
TradeResponse == HashedAsJSON({"Status", "RequestTxID"})
UnstakingRequest == HashedAsJSON({"StakingPoolID", "NftID", "OtaReceivers", "UnstakingAmount"})
UnstakingResponse == Response
UserMintNftRequest == HashedAsJSON({"OtaReceiver", "Amount"})
UserMintNftResponse == Response
WithdrawLiquidityRequest == HashedAsJSON({"PoolPairID", "NftID", "OtaReceivers", "ShareAmount"})
WithdrawLiquidityResponse == Response
WithdrawalLPFeeRequest == HashedAsJSON({"PoolPairID", "NftID", "Receivers"})
WithdrawalLPFeeResponse == HashedAsJSON({"ReqTxID"})
WithdrawOrderRequest == HashedAsJSON({"PoolPairID", "OrderID", "Amount", "Receiver", "NftID"})
WithdrawOrderResponse == HashedAsJSON({"Status", "RequestTxID"})
\* The JSON that is hashed has Sig already; it is appended once more.
WithdrawalProtocolFeeRequest ==
    SignedStruct({"PoolPairID"}, <<"Type", "Sig", "PoolPairID", "Sig">>, <<"Type", "PoolPairID">>)
\* SharedRandom is not hashed.
WithdrawalProtocolFeeResponse ==
    Struct({"Address", "TokenID", "Amount", "ReqTxID", "SharedRandom"},
           <<"Type", "Address", "TokenID", "Amount", "ReqTxID">>)
WithdrawalStakingRewardRequest == HashedAsJSON({"StakingPoolID", "NftID", "Receivers"})
WithdrawalStakingRewardResponse == HashedAsJSON({"ReqTxID"})
InscribeRequest == HashedAsJSON({"Data", "Receiver"})
InscribeResponse == Response

-----------------------------------------------------------------------------
(* Hashes, signatures, JSON                                                *)

\* string(n) of a number is the character with that code, and U+FFFD for
\* every number that is none.
RuneFields == {"BurnedAmount", "DepositedAmount", "TxIndex"}
BeyondRunes == {"2^21", "2^22"}
Written(md, f) ==
    IF f \in RuneFields /\ md[f] # <<>> /\ Head(md[f]) \in BeyondRunes THEN <<"U+FFFD">> ELSE md[f]

\* Version 1 of the reward messages hashes the fields; another version the
\* type alone, or the hash of the request.
HashedFields(md, struct, fields) ==
    CASE struct = WithDrawRewardRequest /\ md["Version"] # <<"1">>  -> <<"Type">>
      [] struct = WithDrawRewardResponse /\ md["Version"] # <<"1">> -> <<"TxRequest">>
      [] OTHER                                                     -> fields
Record(md, struct, fields) ==
    FlattenSeq([k \in DOMAIN HashedFields(md, struct, fields) |->
                   Written(md, HashedFields(md, struct, fields)[k])])
Hash(md, struct) == Record(md, struct, struct.hash)
HashWithoutSig(md, struct) == Record(md, struct, struct.unsigned)

\* MetadataBaseWithSignature.Sign; MetadataBase.Sign does nothing.  A
\* signature is never overwritten.
Signature(hash) == <<"signature">> \o hash
SignFails(md, struct) == struct.signs /\ md["Sig"] # <<>>
Sign(md, struct) ==
    IF struct.signs /\ ~SignFails(md, struct) THEN [md EXCEPT !["Sig"] = Signature(HashWithoutSig(md, struct))] ELSE md

\* encoding/json: bytes are in base 64, empty optional fields are left out.
ByteFields == {"Sig", "SharedRandom", "UniqETHTx", "ExternalTokenID", "RewardPublicKey"}
OmitEmpty == {"Sig", "SharedRandom", "TxRandomStr", "SubTraderAddressStr", "SubTxRandomStr", "IncognitoAddress"}
EncodeBase64(v) == IF v = <<>> THEN v ELSE <<"base64">> \o v
DecodeBase64(v) == IF v = <<>> THEN v ELSE Tail(v)
Marshal(md) ==
    [f \in {f \in DOMAIN md : f \in OmitEmpty => md[f] # <<>>} |->
        IF f \in ByteFields THEN EncodeBase64(md[f]) ELSE md[f]]
Field(j, f) ==
    IF f \notin DOMAIN j THEN <<>> ELSE IF f \in ByteFields THEN DecodeBase64(j[f]) ELSE j[f]
Unmarshal(j, struct) == [f \in {"Type"} \cup struct.json |-> Field(j, f)]

\* WithDrawRewardRequest has an UnmarshalJSON of its own, which knows the
\* layout of older clients (the address in line) but not Sig.
UnmarshalWithDrawReward(j) ==
    [f \in {"Type"} \cup WithDrawRewardRequest.json |->
        CASE f = "Sig"                                          -> <<>>
          [] f = "PaymentAddress" /\ f \notin DOMAIN j          -> Field(j, "Pk") \o Field(j, "Tk")
          [] OTHER                                              -> Field(j, f)]

\* The struct that ParseMetadata makes for a type.
StructOf ==
    [InitTokenRequestMeta |-> InitTokenRequest, InitTokenResponseMeta |-> InitTokenResponse,
     IssuingRequestMeta |-> IssuingRequest, IssuingResponseMeta |-> IssuingResponse,
     ContractingRequestMeta |-> ContractingRequest, IssuingETHRequestMeta |-> IssuingEVMRequest,
     IssuingBSCRequestMeta |-> IssuingEVMRequest, IssuingPRVERC20RequestMeta |-> IssuingEVMRequest,
     IssuingPRVBEP20RequestMeta |-> IssuingEVMRequest,
     IssuingETHResponseMeta |-> IssuingEVMResponse, IssuingBSCResponseMeta |-> IssuingEVMResponse,
     IssuingPRVERC20ResponseMeta |-> IssuingEVMResponse,
     IssuingPRVBEP20ResponseMeta |-> IssuingEVMResponse, BurningRequestMeta |-> BurningRequest,
     BurningForDepositToSCRequestMeta |-> BurningRequest, BurningRequestMetaV2 |-> BurningRequest,
     BurningForDepositToSCRequestMetaV2 |-> BurningRequest,
     BurningPBSCRequestMeta |-> BurningRequest,
     BurningPBSCForDepositToSCRequestMeta |-> BurningRequest,
     BurningPRVBEP20RequestMeta |-> BurningRequest, BurningPRVERC20RequestMeta |-> BurningRequest,
     IssuingPLGRequestMeta |-> IssuingEVMRequest, IssuingPLGResponseMeta |-> IssuingEVMResponse,
     BurningPLGRequestMeta |-> BurningRequest,
     BurningPLGForDepositToSCRequestMeta |-> BurningRequest,
     IssuingFantomRequestMeta |-> IssuingEVMRequest,
     IssuingFantomResponseMeta |-> IssuingEVMResponse, BurningFantomRequestMeta |-> BurningRequest,
     BurningFantomForDepositToSCRequestMeta |-> BurningRequest,
     ShardStakingMeta |-> StakingMetadata, BeaconStakingMeta |-> StakingMetadata,
     ReturnStakingMeta |-> ReturnStakingMetadata,
     WithDrawRewardRequestMeta |-> WithDrawRewardRequest,
     WithDrawRewardResponseMeta |-> WithDrawRewardResponse, UnStakingMeta |-> UnStakingMetadata,
     StopAutoStakingMeta |-> StopAutoStakingMetadata, PDEContributionMeta |-> PDEContribution,
     PDEPRVRequiredContributionRequestMeta |-> PDEContribution,
     PDETradeRequestMeta |-> PDETradeRequest, PDETradeResponseMeta |-> PDETradeResponse,
     PDECrossPoolTradeRequestMeta |-> PDECrossPoolTradeRequest,
     PDECrossPoolTradeResponseMeta |-> PDECrossPoolTradeResponse,
     PDEWithdrawalRequestMeta |-> PDEWithdrawalRequest,
     PDEWithdrawalResponseMeta |-> PDEWithdrawalResponse,
     PDEFeeWithdrawalRequestMeta |-> PDEFeeWithdrawalRequest,
     PDEFeeWithdrawalResponseMeta |-> PDEFeeWithdrawalResponse,
     PDEContributionResponseMeta |-> PDEContributionResponse,
     RelayingBNBHeaderMeta |-> RelayingHeader, RelayingBTCHeaderMeta |-> RelayingHeader,
     PortalV4ShieldingRequestMeta |-> PortalShieldingRequest,
     PortalV4ShieldingResponseMeta |-> PortalShieldingResponse,
     PortalV4UnshieldingRequestMeta |-> PortalUnshieldRequest,
     PortalV4UnshieldingResponseMeta |-> PortalUnshieldResponse,
     PortalV4FeeReplacementRequestMeta |-> PortalReplacementFeeRequest,
     PortalV4SubmitConfirmedTxMeta |-> PortalSubmitConfirmedTxRequest,
     PortalV4ConvertVaultRequestMeta |-> PortalConvertVaultRequest,
     Pdexv3ModifyParamsMeta |-> ParamsModifyingRequest,
     Pdexv3AddLiquidityRequestMeta |-> AddLiquidityRequest,
     Pdexv3AddLiquidityResponseMeta |-> AddLiquidityResponse,
     Pdexv3WithdrawLiquidityRequestMeta |-> WithdrawLiquidityRequest,
     Pdexv3WithdrawLiquidityResponseMeta |-> WithdrawLiquidityResponse,
     Pdexv3TradeRequestMeta |-> TradeRequest, Pdexv3TradeResponseMeta |-> TradeResponse,
     Pdexv3AddOrderRequestMeta |-> AddOrderRequest, Pdexv3AddOrderResponseMeta |-> AddOrderResponse,
     Pdexv3UserMintNftRequestMeta |-> UserMintNftRequest,
     Pdexv3UserMintNftResponseMeta |-> UserMintNftResponse,
     Pdexv3MintNftResponseMeta |-> MintNftResponse,
     Pdexv3WithdrawOrderRequestMeta |-> WithdrawOrderRequest,
     Pdexv3WithdrawOrderResponseMeta |-> WithdrawOrderResponse,
     Pdexv3StakingRequestMeta |-> StakingRequest, Pdexv3StakingResponseMeta |-> StakingResponse,
     Pdexv3UnstakingRequestMeta |-> UnstakingRequest,
     Pdexv3UnstakingResponseMeta |-> UnstakingResponse,
     Pdexv3WithdrawLPFeeRequestMeta |-> WithdrawalLPFeeRequest,
     Pdexv3WithdrawLPFeeResponseMeta |-> WithdrawalLPFeeResponse,
     Pdexv3WithdrawProtocolFeeRequestMeta |-> WithdrawalProtocolFeeRequest,
     Pdexv3WithdrawProtocolFeeResponseMeta |-> WithdrawalProtocolFeeResponse,
     Pdexv3MintPDEXGenesisMeta |-> MintPDEXGenesisResponse,
     Pdexv3WithdrawStakingRewardRequestMeta |-> WithdrawalStakingRewardRequest,
     Pdexv3WithdrawStakingRewardResponseMeta |-> WithdrawalStakingRewardResponse,
     InscribeRequestMeta |-> InscribeRequest, InscribeResponseMeta |-> InscribeResponse]

\* Mutant of RestoreSig: the signature is left as UnmarshalJSON left it.
SigNotRestored(md, j) == md
\* The last step of ParseMetadata: Sig of a withdraw-reward request.
RestoreSig(md, j) ==
    IF "Sig" \in DOMAIN j THEN [md EXCEPT !["Sig"] = DecodeBase64(j["Sig"])] ELSE md

Unparsable == [Type |-> <<"error">>]
ParseMetadata(j) ==
    IF "Type" \notin DOMAIN j \/ Head(j["Type"]) \notin DOMAIN StructOf THEN Unparsable
    ELSE LET struct == StructOf[Head(j["Type"])]
         IN  IF struct = WithDrawRewardRequest
             THEN RestoreSig(UnmarshalWithDrawReward(j), j)
             ELSE Unmarshal(j, struct)

\* The struct incclient makes for a type, where it makes one: by network for
\* the bridges (EVMIssuingMetadata, EVMBurningMetadata, prv_pegging.go).
MadeByClient ==
    [IssuingRequestMeta |-> IssuingRequest, InitTokenRequestMeta |-> InitTokenRequest,
     IssuingETHRequestMeta |-> IssuingEVMRequest, IssuingBSCRequestMeta |-> IssuingEVMRequest,
     IssuingPLGRequestMeta |-> IssuingEVMRequest, IssuingFantomRequestMeta |-> IssuingEVMRequest,
     IssuingPRVERC20RequestMeta |-> IssuingEVMRequest, IssuingPRVBEP20RequestMeta |-> IssuingEVMRequest,
     BurningRequestMetaV2 |-> BurningRequest, BurningPBSCRequestMeta |-> BurningRequest,
     BurningPLGRequestMeta |-> BurningRequest, BurningFantomRequestMeta |-> BurningRequest,
     BurningPRVERC20RequestMeta |-> BurningRequest, BurningPRVBEP20RequestMeta |-> BurningRequest,
     ShardStakingMeta |-> StakingMetadata, UnStakingMeta |-> UnStakingMetadata,
     WithDrawRewardRequestMeta |-> WithDrawRewardRequest, InscribeRequestMeta |-> InscribeRequest,
     PortalV4ShieldingRequestMeta |-> PortalShieldingRequest,
     PortalV4FeeReplacementRequestMeta |-> PortalReplacementFeeRequest,
     PortalV4SubmitConfirmedTxMeta |-> PortalSubmitConfirmedTxRequest,
     PortalV4ConvertVaultRequestMeta |-> PortalConvertVaultRequest,
     PortalV4UnshieldingRequestMeta |-> PortalUnshieldRequest, RelayingBTCHeaderMeta |-> RelayingHeader,
     Pdexv3UserMintNftRequestMeta |-> UserMintNftRequest, Pdexv3TradeRequestMeta |-> TradeRequest,
     Pdexv3AddOrderRequestMeta |-> AddOrderRequest, Pdexv3WithdrawOrderRequestMeta |-> WithdrawOrderRequest,
     Pdexv3AddLiquidityRequestMeta |-> AddLiquidityRequest,
     Pdexv3WithdrawLiquidityRequestMeta |-> WithdrawLiquidityRequest,
     Pdexv3WithdrawLPFeeRequestMeta |-> WithdrawalLPFeeRequest,
     Pdexv3WithdrawProtocolFeeRequestMeta |-> WithdrawalProtocolFeeRequest,
     Pdexv3StakingRequestMeta |-> StakingRequest, Pdexv3UnstakingRequestMeta |-> UnstakingRequest,
     Pdexv3WithdrawStakingRewardRequestMeta |-> WithdrawalStakingRewardRequest]
=============================================================================
