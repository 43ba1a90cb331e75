--------------------------- MODULE CoinOwnership ---------------------------
(***************************************************************************)
(* Coins of version 2 and the keys that recognise, open and spend them     *)
(* (coin/coin_v2.go, coin/coin_v2_ca.go, coin/utils.go, coin/receiver.go,  *)
(* key/key.go).                                                            *)
(*                                                                         *)
(* A point is its logarithm to the base G modulo GroupOrder, so k*G is k   *)
(* and k*P is the product; GValue and GRandom are the generators of the    *)
(* Pedersen commitments.  An optional key or point is a set of at most one *)
(* element.  The coin object is changed in place by the calls on it: each  *)
(* operator returns the object it leaves.                                  *)
(***************************************************************************)
EXTENDS Integers, FiniteSets

CONSTANTS GroupOrder,     \* the order of the curve's main subgroup, a prime
          GValue, GRandom,
          MaxShardNumber, \* 8 in the code
          MaxTriesOTA     \* 50000 in the code

ASSUME OwnershipAssumption ==
    /\ GroupOrder \in Nat \ {0, 1}
    /\ {GValue, GRandom} \subseteq 1..(GroupOrder - 1) /\ GValue # GRandom
    /\ MaxShardNumber \in 1..8 /\ MaxTriesOTA \in Nat \ {0}

Mul(a, b) == (a * b) % GroupOrder
The(s) == CHOOSE x \in s : TRUE
None == {}

\* HashToScalar and HashToPoint of a number, told apart by a suffix.
HashOf(suffix, x) ==
    LET y == (x + 7 * suffix + 3) % GroupOrder
    IN  Mul(Mul(y, y), y + 5 * suffix + 1)
NoSuffix == 1000    AssetTagString == 1001    CStringOTA == 1002
TokenHash(token) == HashOf(1003, token)
KeyImageBase(publicKey) == HashOf(1004, publicKey)

-----------------------------------------------------------------------------
(* Keys                                                                    *)

GenerateReceivingKey(sk) == HashOf(NoSuffix, sk)
GeneratePrivateOTAKey(sk) == HashOf(CStringOTA, sk)
GeneratePaymentAddress(sk) ==
    [Pk |-> sk, Tk |-> GenerateReceivingKey(sk), OTAPublic |-> {GeneratePrivateOTAKey(sk)}]
FullKeySet(sk) ==
    [PrivateKey |-> {sk}, Rk |-> {GenerateReceivingKey(sk)},
     OTASecret |-> GeneratePrivateOTAKey(sk), OTAPk |-> sk]

-----------------------------------------------------------------------------
(* One-time addresses                                                      *)

\* The last byte of a point; the code uses 7 of its 8 bits.
LastByte(P) == P % (4 * MaxShardNumber * MaxShardNumber)
GetShardIDFromLastByte(b) == b % MaxShardNumber
DeriveShardInfoFromCoin(P) ==
    LET n == LastByte(P) % (2 * MaxShardNumber * MaxShardNumber)
    IN  [receiver |-> n % MaxShardNumber,
         sender   |-> (n \div MaxShardNumber) % MaxShardNumber,
         type     |-> n \div (MaxShardNumber * MaxShardNumber)]

OneTimeKey(rK, index, spend) == (HashOf(index, rK) + spend) % GroupOrder
\* p: address, amount, sender, type; NewTransferCoinParams, NewMintCoinParams
Indices(p, rK) ==
    {i \in 1..MaxTriesOTA :
        DeriveShardInfoFromCoin(OneTimeKey(rK, i, p.address.Pk))
        = [receiver |-> GetShardIDFromLastByte(LastByte(p.address.Pk)),
           sender |-> p.sender, type |-> p.type]}
FirstIndex(indices) == CHOOSE i \in indices : \A j \in indices : i <= j
\* NewTxRandom; the zero bytes of the OTA point are a point of order 4, here 0.
NoTxRandom == [ota |-> 0, conceal |-> 0, index |-> 0]

\* Without an OTA key in the address, or without an index, no address: None.
\* (NewCoinFromPaymentInfo goes on without a bound; the instances find one.)
FromCoinParams(p, r) ==
    LET rK == Mul(The(p.address.OTAPublic), r.ota)
        i  == FirstIndex(Indices(p, rK))
    IN  IF p.address.OTAPublic = None \/ Indices(p, rK) = None THEN None
        ELSE {[publicKey |-> OneTimeKey(rK, i, p.address.Pk),
               txRandom |-> [ota |-> r.ota, conceal |-> r.conceal, index |-> i]]}

-----------------------------------------------------------------------------
(* New coins                                                               *)

CommitAtIndex(base, amount, mask) == (Mul(base, amount) + Mul(GRandom, mask)) % GroupOrder
\* The asset tag takes the place of the generator when there is one.
CommitmentOf(c) ==
    CommitAtIndex(IF c.assetTag = None THEN GValue ELSE The(c.assetTag), c.amount, c.mask)
ComputeAssetTagBlinder(rK) == HashOf(AssetTagString, rK)
BlindedTag(token, rK) == (TokenHash(token) + Mul(GRandom, ComputeAssetTagBlinder(rK))) % GroupOrder

Committed(c) == [c EXCEPT !.commitment = CommitmentOf(c)]
CoinOf(p, r, ota, tag) ==
    Committed([publicKey |-> ota.publicKey, txRandom |-> ota.txRandom, amount |-> p.amount,
               mask |-> r.mask, commitment |-> 0, assetTag |-> tag, rawAssetTag |-> None,
               keyImage |-> None, sharedConcealRandom |-> {r.conceal}])

\* To a burning address, which is used as it is, the token in the clear.
BurnCoin(p, r, tag) == CoinOf(p, r, [publicKey |-> p.address.Pk, txRandom |-> NoTxRandom], tag)
NewCoinFromPaymentInfo(p, r, isBurn) ==
    IF isBurn THEN {BurnCoin(p, r, None)}
    ELSE {CoinOf(p, r, ota, None) : ota \in FromCoinParams(p, r)}
NewCoinCA(p, r, token, isBurn) ==
    IF isBurn THEN {BurnCoin(p, r, {TokenHash(token)})}
    ELSE {CoinOf(p, r, ota, {BlindedTag(token, Mul(The(p.address.OTAPublic), r.ota))})
             : ota \in FromCoinParams(p, r)}

IsEncrypted(c) == CommitmentOf(c) # c.commitment
GetValue(c) == IF IsEncrypted(c) THEN 0 ELSE c.amount

\* The two hashes that hide the mask and the amount.
MaskPad(rK) == HashOf(NoSuffix, HashOf(NoSuffix, rK))
AmountPad(rK) == HashOf(NoSuffix, MaskPad(rK))
ConcealOutputCoin(c, publicView) ==
    LET rK == Mul(publicView, The(c.sharedConcealRandom))
    IN  IF IsEncrypted(c) \/ c.sharedConcealRandom = None THEN c
        ELSE [c EXCEPT !.mask = (@ + MaskPad(rK)) % GroupOrder,
                       !.amount = (@ + AmountPad(rK)) % GroupOrder,
                       !.sharedConcealRandom = None]
\* What Prove puts into the proof: burnt coins stay in the clear.
ProvedOutput(c, p, isBurn) ==
    IF isBurn THEN c ELSE [ConcealOutputCoin(c, p.address.Tk) EXCEPT !.keyImage = None]

-----------------------------------------------------------------------------
(* The receiver                                                            *)

\* Mutant of DoesCoinBelongToKeySet: the tag is taken for the raw one.
TagNotUnblinded(c, ks) ==
    LET rK == Mul(c.txRandom.ota, ks.OTASecret)
        belongs == (c.publicKey - HashOf(c.txRandom.index, rK)) % GroupOrder = ks.OTAPk
    IN  [ok |-> belongs, coin |-> IF belongs THEN [c EXCEPT !.rawAssetTag = c.assetTag] ELSE c]
DoesCoinBelongToKeySet(c, ks) ==
    LET rK == Mul(c.txRandom.ota, ks.OTASecret)
        belongs == (c.publicKey - HashOf(c.txRandom.index, rK)) % GroupOrder = ks.OTAPk
        raw == {(tag - Mul(GRandom, ComputeAssetTagBlinder(rK))) % GroupOrder : tag \in c.assetTag}
    IN  [ok |-> belongs,
         coin |-> IF belongs /\ c.rawAssetTag = None THEN [c EXCEPT !.rawAssetTag = raw] ELSE c]

\* rawAssetTags: the tokens the client knows, by the hash of their ID.  PRV
\* has no tag.  The token found is a set of at most one, None an error.
GetTokenId(c, ks, rawAssetTags, prv) ==
    LET Known(tag) == {rawAssetTags[t] : t \in tag \cap DOMAIN rawAssetTags}
        belong == DoesCoinBelongToKeySet(c, ks)
    IN  CASE Known(c.rawAssetTag) # None -> [token |-> Known(c.rawAssetTag), coin |-> c]
          [] OTHER ->
             IF c.assetTag = None THEN [token |-> {prv}, coin |-> c]
             ELSE IF Known(c.assetTag) # None THEN [token |-> Known(c.assetTag), coin |-> c]
             ELSE [token |-> IF belong.ok THEN Known(belong.coin.rawAssetTag) ELSE None,
                   coin |-> belong.coin]

ParsePrivateKeyOfCoin(c, sk) ==
    LET rK == Mul(c.txRandom.ota, GeneratePrivateOTAKey(sk))
    IN  (HashOf(c.txRandom.index, rK) + sk) % GroupOrder
ParseKeyImageWithPrivateKey(c, sk) == Mul(KeyImageBase(c.publicKey), ParsePrivateKeyOfCoin(c, sk))

\* The key image first, in any case.  The pads are subtracted in place,
\* before the commitment is compared: after an error the coin stays altered.
Decrypt(c, ks) ==
    LET imaged == [c EXCEPT !.keyImage =
                       IF ks.PrivateKey = None THEN @
                       ELSE {ParseKeyImageWithPrivateKey(c, The(ks.PrivateKey))}]
        \* A view key that is missing counts as zero.
        rK == Mul(c.txRandom.conceal, IF ks.Rk = None THEN 0 ELSE The(ks.Rk))
        opened == [imaged EXCEPT !.mask = (@ - MaskPad(rK)) % GroupOrder,
                                 !.amount = (@ - AmountPad(rK)) % GroupOrder]
    IN  CASE ~IsEncrypted(imaged) -> [ok |-> TRUE, coin |-> imaged]
          [] IsEncrypted(imaged) /\ ks.Rk = None /\ ks.PrivateKey = None
                                  -> [ok |-> FALSE, coin |-> imaged]
          [] OTHER                -> [ok |-> ~IsEncrypted(opened), coin |-> opened]

-----------------------------------------------------------------------------
(* The sender's evidence                                                   *)

CheckCoinValid(c, address, sharedRandom, amount) ==
    /\ GetValue(c) = amount
    /\ address.OTAPublic # None
    /\ sharedRandom = c.txRandom.ota
    /\ OneTimeKey(Mul(The(address.OTAPublic), sharedRandom), c.txRandom.index, address.Pk) = c.publicKey

RecomputeSharedSecret(c, sk) == Mul(c.txRandom.ota, GeneratePrivateOTAKey(sk))
\* PRV has no tag and a token has one, in the clear or blinded.
ValidateAssetTag(c, sharedSecret, token, prv) ==
    IF c.assetTag = None THEN token = prv
    ELSE token # prv /\ The(c.assetTag) \in {TokenHash(token), BlindedTag(token, sharedSecret)}
=============================================================================
