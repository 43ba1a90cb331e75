---------------------------- MODULE MCAlgorithms ----------------------------
(***************************************************************************)
(* The pure functions of the SDK against reference definitions.  A state   *)
(* is one call with its arguments; a key string is made with the cache the *)
(* calls before have left.                                                 *)
(***************************************************************************)
EXTENDS ScalarArith, EdwardsGroup, FieldLimbs, Metadata, KeyStrings, CoinOwnership
LOCAL INSTANCE SequencesExt

VARIABLE call    \* the arguments of the call

Idle == [op |-> "none"]

-----------------------------------------------------------------------------
(* Constants of the small instances                                        *)

SmallDelta == [i \in 0..5 |-> <<1, 1, 1, -2, 0, 0>>[i + 1]]
SmallFffb == <<2, 22, 12, 10>>

-----------------------------------------------------------------------------
(* Scalars                                                                 *)

ScalarPatterns ==
    LET l == ScalarOrder
    IN  {0, 1, l - 1, l, l + 1, 2 * l, 15 * l + 3, 2^KeyBits - 1, 2^(KeyBits - 1),
         89478485, 178956970} \cap 0..(2^KeyBits - 1)
ScalarCall == \E x, y \in ScalarPatterns : call' = [op |-> "scalar", x |-> x, y |-> y]

RECURSIVE TimesModL(_, _)
TimesModL(a, b) ==
    IF a = 0 THEN 0 ELSE (4 * TimesModL(a \div 4, b) + (a % 4) * b) % ScalarOrder
ProductModL(a, b) == TimesModL(a, b % ScalarOrder)

\* Every function of edwards_25519_scalar.go returns the number it is named
\* for, reduced modulo l, whatever keys it is given: reduced, unreduced, at
\* l and at the ends of the range; ScValid tells the keys below l.
ScalarsAreReduced ==
    call.op = "scalar" =>
        LET x == call.x    y == call.y    l == ScalarOrder
        IN  /\ ScAdd(x, y) = (x + y) % l
            /\ ScSub(x, y) = (x - y) % l
            /\ ScMul(x, y) = ProductModL(x, y)
            /\ ScMulAdd(x, y, x) = (ProductModL(x, y) + x) % l
            /\ ScMulSub(x, y, x) = (x - ProductModL(x, y)) % l
            /\ ScReduce32(x) = x % l
            /\ ScReduce(x, y) = (x + ProductModL(2^KeyBits, y)) % l
            /\ ScValid(x) <=> x < l
            /\ ScIsZero(ScSub(x, y)) <=> x % l = y % l

-----------------------------------------------------------------------------
(* Field elements                                                          *)

FieldCall ==
    \E v \in [0..4 -> {0, 15, 16, 47}], w \in {0, 12, 47} :
        /\ v[1] = v[3]
        /\ call' = [op |-> "field", v |-> v, w |-> [i \in 0..4 |-> IF i \in {0, 3} THEN w ELSE 47]]

\* Limbs in the range the callers leave them in are written as the one
\* number below the modulus that they stand for; a difference of limbs is
\* never negative (it is a uint64) and stands for the difference.
FieldElementsCanonical ==
    call.op = "field" =>
        LET v == call.v    w == call.w    diff == FeSub(v, w)
            n == FeValue(v) * 37 % 2^25
        IN  /\ FeToBytes(v) = FeValue(v) % FeModulus
            /\ \A i \in 0..4 : diff[i] >= 0
            /\ FeValue(diff) % FeModulus = (FeValue(v) - FeValue(w)) % FeModulus
            /\ FeToBytes(FeAdd(FeAdd(v, w), FeNegLimbs(w))) = FeToBytes(v)
            /\ FeIsNonZero(diff) <=> FeToBytes(v) # FeToBytes(w)
            /\ FeToBytes64(FeFromBytes64(n)) = (n % 2^(5 * Width)) % FeModulus
            /\ FeToBytes32(FeFromBytes32(n)) = n % (2^25 - Gap)

-----------------------------------------------------------------------------
(* Points                                                                  *)

\* The affine group law of -x^2 + y^2 = 1 + d x^2 y^2.
AffineAdd(p, q) ==
    LET t == FeMul(FeMul(EdwardsD, FeMul(p[1], q[1])), FeMul(p[2], q[2]))
    IN  <<FeMul(p[1] * q[2] + p[2] * q[1], FeInvert((1 + t) % FieldOrder)),
          FeMul(p[2] * q[2] + p[1] * q[1], FeInvert((1 - t) % FieldOrder))>>
OnCurve(p) ==
    (p[2] * p[2] - p[1] * p[1] - 1
        - FeMul(EdwardsD, FeMul(FeSquare(p[1]), FeSquare(p[2])))) % FieldOrder = 0
Curve == {p \in (0..(FieldOrder - 1)) \X (0..(FieldOrder - 1)) : OnCurve(p)}
KeyOf(p) == p[2] + 2^FieldBits * (p[1] % 2)
PointOf == [k \in {KeyOf(p) : p \in Curve} |-> CHOOSE p \in Curve : KeyOf(p) = k]
Times(n, p) ==
    InTurn(LAMBDA r, i : LET t == AffineAdd(r, r)
                         IN  IF (n \div 2^i) % 2 = 1 THEN AffineAdd(t, p) ELSE t,
           <<0, 1>>, DownTo(7, 0))

AllKeys == 0..(2^(FieldBits + 1) - 1)
PointCall ==
    \/ \E k \in AllKeys : call' = [op |-> "key", k |-> k]
    \/ \E P \in {GBASE, 1, 60} \cap DOMAIN PointOf,
          Q \in {SubKeys(GBASE, 33), HashToPoint(5)} \cap DOMAIN PointOf,
          a \in {0, 8, 100, 127} :
          call' = [op |-> "point", P |-> P, Q |-> Q, a |-> a, b |-> (a * 37 + P + 3 * Q) % 128]

\* The sums and multiples that key.go, precompute.go and point.go return,
\* by whichever table and digits, are those of the affine group law; the
\* keys that FromBytes accepts are exactly the encodings of points of the
\* curve; a hash goes to a multiple of eight of a point; and the chains of
\* FeInvert and fePow22523 reach the exponents 2^255 - 21 and 2^252 - 3.
PointsAgree ==
    /\ call.op = "key" =>
        /\ Public_Key_Valid(call.k) <=> call.k \in DOMAIN PointOf
        /\ call.k \in DOMAIN PointOf =>
              LET p == PointOf[call.k]
              IN  ToExtended(call.k) = Extended(p[1], p[2], 1, FeMul(p[1], p[2]))
        /\ PublicKey(call.k) = KeyOf(Times(call.k, PointOf[GBASE]))
        /\ HashToPoint(call.k) \in {KeyOf(Times(8, p)) : p \in Curve}
        /\ InvertChain = (0..254) \ {2, 4}
        /\ Pow22523Chain = (0..251) \ {1}
    /\ call.op = "point" =>
        LET a == call.a    b == call.b    P == call.P    Q == call.Q
            aP == Times(a, PointOf[P])
            both == KeyOf(AffineAdd(aP, Times(b, PointOf[Q])))
        IN  /\ AddKeys(P, Q) = KeyOf(AffineAdd(PointOf[P], PointOf[Q]))
            /\ AddKeys(SubKeys(P, Q), Q) = P
            /\ LET sum == CompletedToExtended(geMixedSub(ToExtended(P), ToPreComputed(ToExtended(Q))))
               IN  ToBytes(sum) = SubKeys(P, Q)
            /\ GenerateKeyImage(a, b) = KeyOf(Times(b, PointOf[HashToPoint(a)]))
            /\ ScalarMultKey(P, a) = KeyOf(aP)
            /\ AddKeys2(b, a, P) = KeyOf(AffineAdd(Times(b, PointOf[GBASE]), aP))
            /\ AddKeys3(a, P, b, Q) = both
            /\ AddKeys3_3(a, P, b, Q) = both
            /\ MultiScalarMultKey(<<P, Q>>, <<a, b>>) = both
            /\ ToBytes(ScalarMultPrecompute(a, GenPrecompute(P))) = KeyOf(aP)
            /\ ToBytes(DoubleScalarDoubleBaseMulPrecomputed(a, b, GenDoublePrecompute(P, Q))) = both
            /\ ToBytes(ScalarMultSuperPrecompute(a, GenSuperPrecompute(GenPrecompute(P)))) = KeyOf(aP)
            /\ ToBytes(DoubleScalarDoubleBaseMulPrecomputed64(<<a, b>>, <<b, a>>,
                         <<GenDoublePrecompute(P, Q), GenDoublePrecompute(Q, P)>>))
                   = KeyOf(Times(2, PointOf[both]))
            /\ KeyDerivation(P, a) = KeyOf(Times(8, aP))

-----------------------------------------------------------------------------
(* Metadata                                                                *)

\* Every field has a value of its own, or the optional ones are empty.
MetadataCall ==
    \E type \in DOMAIN StructOf, full \in BOOLEAN, version \in {"0", "1"} :
        LET struct == IF type \in DOMAIN MadeByClient THEN MadeByClient[type] ELSE StructOf[type]
        IN  call' = [op |-> "metadata", struct |-> struct,
                     md |-> [f \in {"Type"} \cup struct.json |->
                                CASE f = "Type"                    -> <<type>>
                                  [] f = "Sig"                     -> <<>>
                                  [] f = "Version"                 -> <<version>>
                                  [] f \in OmitEmpty /\ ~full      -> <<>>
                                  [] f \in RuneFields /\ full      -> <<"2^21">>
                                  [] OTHER                         -> <<f>>]]

\* What the client signs and sends, ParseMetadata reads back as it was: the
\* type leads to the same struct, no field is lost, and the signature that
\* is read is that of the fields that are read.  The withdraw-reward
\* request of older clients, whose address is in line, is read too.
MetadataReadsBack ==
    call.op = "metadata" =>
        LET struct == call.struct
            signed == Sign(call.md, struct)
            read == ParseMetadata(Marshal(signed))
        IN  /\ read = signed
            /\ struct.signs => read["Sig"] = Signature(HashWithoutSig(read, struct))
            /\ Hash(read, struct) = Hash(signed, struct)
            /\ struct = WithDrawRewardRequest =>
                  LET sent == Marshal(signed)
                      old == [f \in (DOMAIN sent \ {"PaymentAddress"}) \cup {"Pk", "Tk"} |->
                                 IF f \in DOMAIN sent THEN sent[f] ELSE <<f>>]
                  IN  ParseMetadata(old) = [signed EXCEPT !["PaymentAddress"] = <<"Pk", "Tk">>]

-----------------------------------------------------------------------------
(* Coins, proofs, ring indices                                             *)

Info(n) == [i \in 1..n |-> 2]
Key(k) == [i \in 1..KeySize |-> k]
\* A full coin, one as ConcealOutputCoin or ConcealInputCoin leaves it (the
\* key image and the info), and one that a transaction without privacy has.
PlainV1(kind, n) ==
    CASE kind = "full"      -> [publicKey |-> Key(1), commitment |-> Key(2), snDerivator |-> Key(15),
                                serialNumber |-> Key(3), randomness |-> Key(4), value |-> 200,
                                info |-> Info(n)]
      [] kind = "concealed" -> [NoPlainCoinV1 EXCEPT !.serialNumber = Key(3), !.info = Info(n)]
OutputV1(kind, n) ==
    [details |-> [PlainV1("full", n) EXCEPT !.serialNumber = <<>>,
                     !.randomness = IF kind = "concealed" THEN <<>> ELSE @,
                     !.value = IF kind = "concealed" THEN 0 ELSE 3],
     encrypted |-> IF kind = "concealed" THEN {[i \in 1..(elGamalCiphertextSize + 4) |-> i]} ELSE {}]
TxRandom == Key(0) \o <<7>> \o Key(5)
CoinV2(kind, n) ==
    CASE kind = "full"      -> [f \in Range(KeysV2) \cup Range(LateKeysV2) \cup {"assetTag"} |-> Key(2)]
                               @@ [txRandom |-> TxRandom, info |-> Info(n)]
      [] kind = "concealed" -> [NoCoinV2 EXCEPT !.keyImage = Key(2), !.txRandom = Key(0) \o <<0>> \o Key(0),
                                                !.amount = Key(0), !.info = Info(n)]

ProofV1(kind, n, m) ==
    LET private == kind = "concealed"
    IN  [NoProofV1 EXCEPT
            !.oneOfManyProof = IF private THEN <<Info(5)>> ELSE <<>>,
            !.serialNumberProof = IF private THEN <<Info(4)>> ELSE <<>>,
            !.serialNumberNoPrivacyProof = IF private THEN <<>> ELSE <<Info(3)>>,
            !.rangeProof = IF private THEN Info(17) ELSE <<>>,
            !.inputCoins = <<PlainV1(kind, m)>>,
            !.outputCoins = <<OutputV1(kind, n), OutputV1(kind, m)>>,
            !.commitmentOutputValue = <<Key(1), Key(2)>>,
            !.commitmentInputSecretKey = IF private THEN Key(6) ELSE <<>>,
            !.commitmentInputValue = <<Key(1)>>,
            !.commitmentIndices = IF private THEN <<9, 3>> ELSE <<>>]
ProofV2(kind, n, m) ==
    [rangeProof |-> IF kind = "full" THEN Info(3) ELSE <<>>,
     inputCoins |-> <<CoinV2("concealed", m)>>,
     outputCoins |-> <<CoinV2(kind, n), CoinV2("full", m)>>]
Rows == {<<>>, <<<<0, 1>>, <<16, 255>>>>, <<<<7>>>>, <<<<1, 2>>, <<3>>>>}
CoinCall ==
    \/ \E kind \in {"full", "concealed"}, n, m \in 0..MaxSizeInfoCoin :
        /\ n \in {0, m, MaxSizeInfoCoin}
        /\ call' = [op |-> "coin", kind |-> kind, n |-> n, m |-> m]
    \/ \E rows \in Rows : call' = [op |-> "rows", rows |-> rows]

\* Every coin and every proof is read back as it was written, with an info
\* of any length: where the length of a coin takes two bytes, the first try
\* with one byte fails and leaves nothing behind.  The exception is an
\* input coin of a proof of version 1, whose length is cut to one byte.
CoinsReadBack ==
    /\ call.op = "coin" =>
        LET c1 == OutputV1(call.kind, call.n)
            c2 == CoinV2(call.kind, call.n)
            pc == PlainV1(call.kind, call.n)
            p1 == ProofV1(call.kind, call.n, call.m)
            p2 == ProofV2(call.kind, call.n, call.m)
            Reads(st, c) == st.ok /\ st.c = c
        IN  /\ Reads(NewPlainCoinFromByte(PlainCoinV1Bytes(pc)), pc)
            /\ Reads(NewPlainCoinFromByte(CoinV2Bytes(c2)), c2)
            /\ Reads(NewCoinFromByte(CoinV1Bytes(c1)), c1)
            /\ Reads(NewCoinFromByte(CoinV2Bytes(c2)), c2)
            /\ Reads(ProofV2SetBytes(ProofV2Bytes(p2)), p2)
            /\ InputCoinsFit(p1) => Reads(ProofV1SetBytes(ProofV1Bytes(p1)), p1)
            /\ c2.assetTag = <<>> =>
                  Reads(CoinV2SetBytes(NoCoinV2, Front(CoinV2Bytes(c2))), c2)
    /\ call.op = "rows" /\ ~SigPubKeyFails(call.rows) =>
        SigPubKeySetBytes(SigPubKeyBytes(call.rows)).c.rows = call.rows

-----------------------------------------------------------------------------
(* Keys                                                                    *)

Wallets ==
    {[Depth |-> 1, ChildNumber |-> <<3>>, ChainCode |-> Key(9), KeySet |-> InitFromPrivateKey(Key(k))]
        : k \in {5, 14}}
    \cup {[Depth |-> 0, ChildNumber |-> <<0>>, ChainCode |-> Key(0),
           KeySet |-> [NoKeySet EXCEPT !.Pk = BurnPk]]}
Types(w) == IF w.KeySet.PrivateKey = <<>> THEN {PaymentAddressType}
            ELSE {PrivateKeyType, PaymentAddressType, ReadonlyKeyType, OTAKeyType}
KeyCall ==
    \E w \in Wallets, isNew \in BOOLEAN : \E type \in Types(w) :
        LET string == Base58CheckSerialize(base58Cache, w, type, isNew)
        IN  /\ base58Cache' = CacheAfter(base58Cache, Serialize(w, type, isNew), string)
            /\ call' = [op |-> "string", wallet |-> w, type |-> type, new |-> isNew, string |-> string]

\* The key set that deserialize gives for a type.
KeysOf(w, type, isNew) ==
    LET ks == w.KeySet
    IN  CASE type = PrivateKeyType     -> ks
          [] type = PaymentAddressType -> [NoKeySet EXCEPT !.Pk = ks.Pk, !.Tk = ks.Tk,
                                              !.OTAPublic = IF isNew THEN ks.OTAPublic ELSE <<>>]
          [] type = ReadonlyKeyType    -> [NoKeySet EXCEPT !.Pk = ks.Pk, !.Rk = ks.Rk]
          [] type = OTAKeyType         -> [NoKeySet EXCEPT !.Pk = ks.Pk, !.OTASecret = ks.OTASecret]

\* A key or address is read back from its string with the keys that belong
\* to its type, the OTA key in an address of the new kind only, whatever
\* strings base58Cache holds from earlier calls; so are the bytes of a
\* payment address and those of a one-time address of it.
KeysReadBack ==
    call.op = "string" =>
        LET read == Base58CheckDeserialize(call.string)
            keys == KeysOf(call.wallet, call.type, call.new)
            address == PaymentAddressBytes(call.wallet.KeySet)
            receiver == [PublicKey |-> call.wallet.KeySet.Pk, TxRandom |-> TxRandom]
        IN  /\ read.ok /\ read.wallet.KeySet = keys
            /\ call.type = PrivateKeyType => read.wallet = call.wallet
            /\ ~PaymentAddressFails(address) =>
                  KeysOf([KeySet |-> PaymentAddressSetBytes(address)], PaymentAddressType, TRUE)
                  = KeysOf(call.wallet, PaymentAddressType, TRUE)
            /\ OTAReceiverSetBytes(OTAReceiverBytes(receiver)) = [ok |-> TRUE, r |-> receiver]

-----------------------------------------------------------------------------
(* Owners                                                                  *)

PRVCoin == 1
TokenIDs == {PRVCoin, 2, 3}
\* Token 3 is not listed yet.
KnownTags == [tag \in {TokenHash(t) : t \in {1, 2}} |-> CHOOSE t \in {1, 2} : TokenHash(t) = tag]
Alice == 4567
Bob == 1239
BurnKey == 77
MaxCoinCalls == 3
Randoms == {[mask |-> 1711, ota |-> 3301, conceal |-> 523], [mask |-> 0, ota |-> 9021, conceal |-> 3300]}
KeySetsOf(sk) ==
    LET full == FullKeySet(sk)
    IN  {full, [full EXCEPT !.PrivateKey = {}], [full EXCEPT !.PrivateKey = {}, !.Rk = {}]}

\* A coin for Alice or for the burning address, from a proof or (minted for
\* a one-time address of hers) in the clear.
NewCoins(made) ==
    LET isBurn == made.address.Pk = BurnKey
        coins == IF made.token = PRVCoin THEN NewCoinFromPaymentInfo(made, made.random, isBurn)
                 ELSE NewCoinCA(made, made.random, made.token, isBurn)
    IN  IF made.minted THEN coins ELSE {ProvedOutput(c, made, isBurn) : c \in coins}
OwnerCall ==
    \E sk \in {Alice, BurnKey}, sender, type \in {0, 1}, amount \in {0, 5}, token \in TokenIDs,
      random \in Randoms, minted \in BOOLEAN :
        LET made == [address |-> GeneratePaymentAddress(sk), sender |-> sender, type |-> type,
                     amount |-> amount, token |-> token, random |-> random, minted |-> minted]
        IN  \E c \in NewCoins(made) :
                call' = [op |-> "owned", made |-> made, coin |-> c, n |-> 0, foreign |-> FALSE,
                         last |-> "none", ks |-> FullKeySet(sk), out |-> {}]
\* The calls on the object, in any order and with anyone's keys.
Used(last, ks, out, c, foreign) ==
    call' = [call EXCEPT !.n = @ + 1, !.last = last, !.ks = ks, !.out = out, !.coin = c,
                         !.foreign = @ \/ foreign]
OwnerStep ==
    /\ call.op = "owned" /\ call.n < MaxCoinCalls
    /\ \E ks \in KeySetsOf(Alice) \cup KeySetsOf(Bob) :
          \/ LET r == DoesCoinBelongToKeySet(call.coin, ks) IN Used("belongs", ks, {r.ok}, r.coin, FALSE)
          \/ LET r == Decrypt(call.coin, ks)
             IN  Used("decrypt", ks, {r.ok}, r.coin, IsEncrypted(call.coin) /\ ks.Rk # {} /\ ks.OTAPk = Bob)
          \/ LET r == GetTokenId(call.coin, ks, KnownTags, PRVCoin)
             IN  Used("token", ks, r.token, r.coin, FALSE)

\* Whatever calls are made on a coin object before, its owner's keys
\* recognise it, the OTA key alone included, and find its token if that is
\* listed; nobody else's do.  The value that is read is the right one or
\* none, and the owner's view key opens the coin unless Decrypt was called
\* with another's before, which spoils the object.  With the private key,
\* Decrypt leaves the key image of the key that spends the coin.  The coin
\* is in its owner's shard, and the sender can prove for whom it is.
OwnersReadTheirCoins ==
    call.op = "owned" =>
        LET c == call.coin    made == call.made    ks == call.ks
            isBurn == made.address.Pk = BurnKey
            owner == ks.OTAPk = made.address.Pk /\ ~isBurn
            secret == RecomputeSharedSecret(c, Alice)
        IN  /\ GetValue(c) \in {0, made.amount}
            /\ isBurn \/ made.minted => GetValue(c) = made.amount
            /\ call.last = "belongs" => call.out = {owner}
            /\ call.last = "token" =>
                  /\ call.out \subseteq {made.token}
                  /\ owner /\ made.token # 3 => call.out = {made.token}
            /\ call.last = "decrypt" =>
                  /\ call.out = {TRUE} => GetValue(c) = made.amount
                  /\ owner /\ ks.Rk # {} /\ ~call.foreign => call.out = {TRUE}
                  /\ owner /\ ks.PrivateKey # {} =>
                        /\ ParsePrivateKeyOfCoin(c, Alice) = c.publicKey
                        /\ c.keyImage = {Mul(KeyImageBase(c.publicKey), c.publicKey)}
            /\ ~isBurn =>
                  /\ GetShardIDFromLastByte(LastByte(c.publicKey)) = GetShardIDFromLastByte(LastByte(Alice))
                  /\ \A t \in TokenIDs : ValidateAssetTag(c, secret, t, PRVCoin) <=> t = made.token
            /\ \A sk \in {Alice, Bob}, amount \in {0, 5} :
                  CheckCoinValid(c, GeneratePaymentAddress(sk), made.random.ota, amount)
                  <=> ~isBurn /\ sk = Alice /\ amount = GetValue(c)

-----------------------------------------------------------------------------

Init == call = Idle /\ base58Cache = <<>>
\* Of the functions that do not use the cache, once is enough.
Compute ==
    /\ call = Idle /\ base58Cache = <<>>
    /\ ScalarCall \/ FieldCall \/ PointCall \/ MetadataCall \/ CoinCall \/ OwnerCall
    /\ UNCHANGED base58Cache
Format == call = Idle /\ KeyCall
Return == call # Idle /\ call' = Idle /\ UNCHANGED base58Cache
Use == OwnerStep /\ UNCHANGED base58Cache
Next == Compute \/ Format \/ Use \/ Return
Spec == Init /\ [][Next]_<<call, base58Cache>>
=============================================================================
