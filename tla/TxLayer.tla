------------------------------ MODULE TxLayer ------------------------------
(***************************************************************************)
(* The transaction layer (transaction/tx_generic, tx_ver1, tx_ver2): from  *)
(* coins, payments and metadata to a signed transaction.                   *)
(*                                                                         *)
(* A coin is [id, asset, ver, val, idx], a payment [to, val].  What a      *)
(* hash, a Pedersen commitment or a signature stands for is kept, not its  *)
(* bytes: a hash is the tuple of what it covers, a signature the tuple it  *)
(* is made on, a sum of commitments the sum of values per asset (the       *)
(* blinding factors of a sum cancel by construction).  Amounts are uint64: *)
(* sums wrap at Modulus; commitments do not wrap.                          *)
(***************************************************************************)
EXTENDS Integers, Sequences, SequencesExt, FiniteSetsExt

CONSTANTS Modulus,        \* 2^64
          RingSize,       \* privacy.RingSize: rows of a ring signature
          MaxTxInputs,    \* 255
          MaxTxOutputs,   \* 254
          MaxTxCoins      \* stands for common.MaxTxSize (100 KB)

Sender == "sender"
Burning == "burning"      \* common.BurningAddress2
PRV == "PRV"
ConfidentialAsset == "CA" \* the umbrella asset ID of version 2 tokens
NoMetadata == [type |-> "none"]
NoTx == [ver |-> 0]
NoRing == [rows |-> <<>>, pi |-> 0]

Failed(t) == t.ver = 0

NoData == [kind |-> "none"]
Whole(base, data) == [ver |-> base.ver, base |-> base, data |-> data]

-----------------------------------------------------------------------------

Values(s) == FoldLeft(LAMBDA sum, c : sum + c.val, 0, s)

Wrap(n) == n % Modulus
AsInt64(n) == IF n < Modulus \div 2 THEN n ELSE n - Modulus

\* overBalance: the difference of wrapping sums, read as a signed number.
OverBalance(p) == AsInt64(Wrap(Values(p.ins) - Values(p.pays) - p.fee))

\* Mutant of CalculateSentBackInfo: the change is the first output.
ChangeFirst(p) ==
    IF OverBalance(p) > 0
    THEN [p EXCEPT !.pays = <<[to |-> Sender, val |-> OverBalance(p)]>> \o @]
    ELSE p

CalculateSentBackInfo(p) ==
    IF OverBalance(p) > 0
    THEN [p EXCEPT !.pays = Append(@, [to |-> Sender, val |-> OverBalance(p)])]
    ELSE p

GetTxVersionFromCoins(coins) ==
    LET versions == {c.ver : c \in ToSet(coins)}
    IN  CASE versions = {}  -> 2
          [] versions = {1} -> 1
          [] versions = {2} -> 2
          [] OTHER          -> 0

ValidateTxParams(p) ==
    Len(p.ins) <= MaxTxInputs /\ Len(p.pays) <= MaxTxOutputs

\* A fresh transaction: `lock' is set once, by the first initialization;
\* `proof' is the type of the payment proof that holds inputs and outputs.
EmptyTx == [ver |-> 2, type |-> "", lock |-> 0, fee |-> 0, md |-> NoMetadata,
            mdSig |-> <<>>, proof |-> "nil", ins |-> <<>>, outs |-> <<>>,
            ring |-> NoRing, sig |-> <<>>]

Initializes(p) ==
    ValidateTxParams(p) /\ GetTxVersionFromCoins(p.ins) # 0
                        /\ OverBalance(p) >= 0

InitializeTxAndParams(t, p, now) ==
    [t EXCEPT !.ver = GetTxVersionFromCoins(p.ins), !.type = "n",
              !.lock = IF @ = 0 THEN now ELSE @, !.fee = p.fee, !.md = p.md]

\* TxBase.String, hashed: version 1 leaves the type out.
HashVer1(t) == <<t.ver, t.lock, t.fee, t.ins, t.outs, t.md>>

\* Tx.Hash of version 2: the whole JSON object but Sig and SigPubKey.
HashVer2(t) == <<t.ver, t.type, t.lock, t.fee, t.ins, t.outs, t.md, t.mdSig>>

HashWithoutMetadataSig(t) ==
    <<t.md, HashVer2([t EXCEPT !.md = NoMetadata, !.mdSig = <<>>])>>

IsNonPrivacyNonInput(p) == p.ins = <<>> /\ p.fee = 0 /\ ~p.privacy

SizeOK(t) == Len(t.ins) + Len(t.outs) <= MaxTxCoins

OutputCoins(p) ==
    [k \in DOMAIN p.pays |->
        [to |-> p.pays[k].to, val |-> p.pays[k].val, asset |-> p.asset]]

-----------------------------------------------------------------------------
(* The estimated size of a version 2 transaction, in bytes                 *)

ToB64Len(n) == LET l == (n * 4 + 2) \div 3 IN ((l + 3) \div 4) * 4

\* The whole part of the logarithm of n > 0.
Log2(n) == Cardinality({k \in 1..10 : 2^k <= n})

EstimateProofSizeV2(numIn, numOut) ==
    LET coinSizeBound == 257 + 33 * 7 + 68 + 1
        aggProofSize  == 5 + 32 * (7 + numOut) + 1
                           + (2 * (Log2(numOut) + 1) + 3) * 32
    IN  ToB64Len(1 + (coinSizeBound + 1) * (numIn + numOut) + 2
                   + aggProofSize + 10)

\* Keys, version, type, lock time, fee, info, last byte; ring, signature,
\* proof and metadata.
EstimateTxSizeV2(numIn, numOut, sizeMetadata) ==
    LET sizeSigPubKey == ToB64Len(numIn * RingSize * 9 + 2)
        sizeSig       == (1 + numIn + (numIn + 2) * RingSize) * 33 + 3
    IN  202 + 1 + 5 + 24 + 24 + ToB64Len(512) + sizeSigPubKey + sizeSig
          + EstimateProofSizeV2(numIn, numOut) + 3 + sizeMetadata

-----------------------------------------------------------------------------
(* Rings                                                                   *)

\* parseParamsForRing: enough decoys, exactly one own index per input.
RingParamsOK(p) ==
    /\ Len(p.decoys) >= Len(p.ins) * (RingSize - 1)
    /\ Len(p.mine) = Len(p.ins)

\* Mutant of GenerateRing: the position in the decoy list is not advanced.
ReusesDecoys(p, pi) ==
    [pi |-> pi, rows |-> [r \in 1..RingSize |->
        IF r = pi THEN p.mine ELSE SubSeq(p.decoys, 1, Len(p.ins))]]

\* Row pi holds the coins spent; the other rows take the decoys in order.
GenerateRing(p, pi) ==
    LET n == Len(p.ins)
        before(r) == (r - 1) - (IF r > pi THEN 1 ELSE 0)
    IN  [pi |-> pi,
         rows |-> [r \in 1..RingSize |->
                      IF r = pi THEN p.mine
                      ELSE SubSeq(p.decoys, before(r) * n + 1,
                                  (before(r) + 1) * n)]]

\* Mutant of CommitmentsSumToZero: the recomputed point is not compared.
SumUnchecked(ins, outs, fee) == TRUE

\* createPrivateKeyMlsag: the last column of row pi is a commitment to zero.
CommitmentsSumToZero(ins, outs, fee) == Values(ins) = Values(outs) + fee

Assets(s) == {c.asset : c \in ToSet(s)}
OfAsset(s, a) == SelectSeq(s, LAMBDA c : c.asset = a)

\* The coins of one asset: how many, and their sum (the others count as 0).
CountOf(s, a) == Cardinality({k \in DOMAIN s : s[k].asset = a})
ValuesOf(s, a) ==
    Values([k \in DOMAIN s |-> IF s[k].asset = a THEN s[k] ELSE [val |-> 0]])

\* createPrivateKeyMlsagCA: the asset tags weighted with the coin counts,
\* and the commitments, which are to values of the tag's asset, both cancel.
AssetTagsSumToZero(ins, outs) ==
    \A a \in Assets(ins) \cup Assets(outs) :
        Len(outs) * CountOf(ins, a) = Len(ins) * CountOf(outs, a)

CommitmentsSumToZeroCA(ins, outs) ==
    \A a \in Assets(ins) \cup Assets(outs) :
        ValuesOf(ins, a) = ValuesOf(outs, a)

SignOnMessage(t, p, message, pi) ==
    IF RingParamsOK(p) /\ CommitmentsSumToZero(t.ins, t.outs, t.fee)
    THEN [t EXCEPT !.ring = GenerateRing(p, pi), !.sig = message]
    ELSE NoTx

SignCA(t, p, message, pi) ==
    IF /\ RingParamsOK(p)
       /\ AssetTagsSumToZero(t.ins, t.outs)
       /\ CommitmentsSumToZeroCA(t.ins, t.outs)
    THEN [t EXCEPT !.ring = GenerateRing(p, pi), !.sig = message]
    ELSE NoTx

-----------------------------------------------------------------------------
(* Version 1                                                               *)

\* initPaymentWitnessParam: with privacy the commitments must have come.
WitnessParams(p) == p.privacy /\ p.ins # <<>> => p.decoys # <<>>

Proved(t, p, proof) ==
    [t EXCEPT !.proof = proof, !.ins = p.ins, !.outs = OutputCoins(p)]

ProveVer1(t, p) == Proved(t, p, "ProofV1")

SignVer1(t) == [t EXCEPT !.sig = HashVer1(t)]

InitVer1(p) ==
    LET q == CalculateSentBackInfo(p)
        t == [InitializeTxAndParams(EmptyTx, q, 1) EXCEPT !.ver = 1]
    IN  IF ~Initializes(p) THEN NoTx
        ELSE IF IsNonPrivacyNonInput(q) THEN [t EXCEPT !.sig = HashVer1(t)]
        ELSE IF WitnessParams(q) THEN SignVer1(ProveVer1(t, q)) ELSE NoTx

\* The token output of a version 1 token creation: one coin, no input; the
\* new token's ID is the hash of the token data and the shard.
InitTokenCreation(tp) ==
    LET sub == SignVer1([EmptyTx EXCEPT !.ver = 1, !.type = "n",
                   !.proof = "ProofV1",
                   !.outs = <<[to |-> tp.pays[1].to, val |-> tp.amount,
                               asset |-> "new"]>>])
    IN  [id |-> "new", kind |-> "init", sub |-> sub]

InitTokenVer1(p, tp) ==
    LET base == InitVer1(p)
        sub  == InitVer1([tp EXCEPT !.md = NoMetadata])
    IN  IF Failed(base) THEN NoTx
        ELSE IF tp.kind = "init"
             THEN Whole([base EXCEPT !.type = "tp"], InitTokenCreation(tp))
        ELSE IF Failed(sub) THEN NoTx
        ELSE Whole([base EXCEPT !.type = "tp"],
                   [id |-> tp.asset, kind |-> tp.kind, sub |-> sub])

-----------------------------------------------------------------------------
(* Version 2                                                               *)

\* tx.prove / tx.provePRV: output coins, proof, then the metadata signature.
SignMetadata(t) ==
    IF t.md.type = "none" \/ ~t.md.signs THEN t
    ELSE [t EXCEPT !.mdSig = HashWithoutMetadataSig(t)]

ProvePRV(t, p) == SignMetadata(Proved(t, p, "ProofV2"))

InitVer2(p, pi) ==
    LET q      == CalculateSentBackInfo(p)
        t      == InitializeTxAndParams(EmptyTx, q, 1)
        proved == ProvePRV(t, q)
        signed == SignOnMessage(proved, q, HashVer2(proved), pi)
    IN  IF ~Initializes(p) THEN NoTx
        ELSE IF IsNonPrivacyNonInput(q) THEN [t EXCEPT !.sig = HashVer2(t)]
        ELSE IF ~Failed(signed) /\ SizeOK(signed) THEN signed ELSE NoTx

\* The token sub-transaction that belongs to a PRV sub-transaction: same
\* version, type and lock time, no fee, no metadata.
MakeTxToken(base) ==
    [EmptyTx EXCEPT !.ver = base.ver, !.type = base.type, !.lock = base.lock]

\* proveCA: at most one output may go to the burning address.
Burned(outs) == {k \in DOMAIN outs : outs[k].to = Burning}

ProveCA(t, p, pi) ==
    LET proved == Proved(t, p, "ProofV2")
    IN  IF Cardinality(Burned(proved.outs)) > 1 THEN NoTx
        ELSE SignCA(proved, p, HashVer2(proved), pi)

ProveToken(t, p, pi) ==
    LET q  == CalculateSentBackInfo(p)
        t1 == [InitializeTxAndParams(t, q, 2) EXCEPT !.type = "tp"]
    IN  IF Initializes(p) THEN ProveCA(t1, q, pi) ELSE NoTx

\* TxTokenDataVersion2: a burning transaction shows the plain token ID.
TokenData(id, sub) == [id |-> id, kind |-> "transfer", sub |-> sub]
TokenDataHash(data) == <<data.id, data.kind, data.sub.ins, data.sub.outs>>

InitToken(base, tp, pi) ==
    LET sub == ProveToken(MakeTxToken(base), [tp EXCEPT !.fee = 0], pi)
    IN  IF tp.kind = "init" THEN NoTx
        ELSE IF Failed(sub) THEN NoTx
        ELSE [ver |-> 2, data |-> TokenData(IF Burned(sub.outs) # {}
                                            THEN tp.asset
                                            ELSE ConfidentialAsset, sub)]

\* The PRV part is proved first, the token part proved and signed, and the
\* ring signature of the PRV part is made on the hash of both.
SignBoth(base, q, token, pi) ==
    LET signed == SignOnMessage(base, q,
                      <<HashVer2(base), TokenDataHash(token.data)>>, pi)
    IN  IF /\ ~Failed(token) /\ ~Failed(signed)
           /\ SizeOK([ins  |-> signed.ins \o token.data.sub.ins,
                      outs |-> signed.outs \o token.data.sub.outs])
        THEN Whole(signed, token.data) ELSE NoTx

InitTokenVer2(p, tp, pi) ==
    LET q    == CalculateSentBackInfo(p)
        base == ProvePRV([InitializeTxAndParams(EmptyTx, q, 1)
                             EXCEPT !.type = "tp"], q)
    IN  IF tp.fee > 0 \/ p.fee = 0 \/ ~Initializes(p) THEN NoTx
        ELSE SignBoth(base, q, InitToken(base, tp, pi), pi)

\* What a reader of the transaction rebuilds its token part to.
GetTxNormal(tx) ==
    [MakeTxToken(tx.base) EXCEPT !.proof = tx.data.sub.proof,
                                 !.ins = tx.data.sub.ins,
                                 !.outs = tx.data.sub.outs,
                                 !.sig = tx.data.sub.sig]

-----------------------------------------------------------------------------
(* Conversion of version 1 coins                                           *)

ConversionVersion == 2

ValidConversion(p) ==
    /\ Len(p.ins) <= MaxTxInputs
    /\ Len(p.pays) <= MaxTxOutputs
    /\ \A c \in ToSet(p.ins) : c.ver = 1
    /\ Wrap(Values(p.ins)) = Wrap(Values(p.pays) + p.fee)

InitializeTxConversion(t, p, now) ==
    [t EXCEPT !.ver = ConversionVersion, !.type = "cv", !.fee = p.fee,
              !.md = p.md, !.lock = IF @ = 0 THEN now ELSE @]

\* Signed without a ring: the inputs are shown.
ProveConversion(t, p) ==
    LET proved == Proved(t, p, "ProofForConversion")
    IN  [proved EXCEPT !.sig = HashVer2(proved)]

InitConversion(p) ==
    LET t == ProveConversion(InitializeTxConversion(EmptyTx, p, 1), p)
    IN  IF ValidConversion(p) /\ SizeOK(t) THEN t ELSE NoTx

ValidTokenConversion(p, tp) ==
    /\ \A c \in ToSet(p.ins) : c.ver = 2
    /\ Wrap(Values(tp.ins)) = tp.pays[1].val

InitTokenConversionData(base, tp) ==
    LET t == [InitializeTxConversion(MakeTxToken(base), tp, 2)
                 EXCEPT !.type = "tcv"]
    IN  IF ValidConversion(tp)
        THEN [ver |-> 2, data |-> TokenData(tp.asset, ProveConversion(t, tp))]
        ELSE NoTx

InitTokenConversion(p, tp, pi) ==
    LET q    == CalculateSentBackInfo(p)
        base == ProvePRV([InitializeTxAndParams(EmptyTx, q, 1)
                     EXCEPT !.ver = ConversionVersion, !.type = "tcv"], q)
    IN  IF ValidTokenConversion(p, tp) /\ Initializes(p)
        THEN SignBoth(base, q, InitTokenConversionData(base, tp), pi)
        ELSE NoTx
=============================================================================
