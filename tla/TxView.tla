------------------------------- MODULE TxView -------------------------------
(***************************************************************************)
(* Reading a transaction back: the JSON a transaction is sent and stored   *)
(* as (transaction.go, UnmarshalJSON and MarshalJSON of each transaction   *)
(* type), what a node reads off it (key images, one-time addresses, burned *)
(* coins), and what the sequential history of an account makes of it       *)
(* (incclient/tx_history.go, tx_history_utils.go, GetReceivingInfo).       *)
(*                                                                         *)
(* JSON is a record of the fields that decide how it is parsed; a proof is *)
(* written as bytes that only the type of proof that wrote them can read.  *)
(***************************************************************************)
EXTENDS TxLayer

HasData(t) == t.data.kind # "none"
Unreadable == "error"

-----------------------------------------------------------------------------
(* JSON                                                                    *)

ParseProof(written, ver, type) ==
    LET reader == CASE type = "cv" /\ ver = ConversionVersion -> "ProofForConversion"
                    [] type # "cv" /\ ver \in {0, 1}          -> "ProofV1"
                    [] type # "cv" /\ ver = 2                 -> "ProofV2"
                    [] OTHER                                  -> Unreadable
    IN  CASE written = "nil"   -> "nil"
          [] written = reader  -> reader
          [] OTHER             -> Unreadable

\* TxBase.UnmarshalJSON: the PRV part of a token conversion is an ordinary one.
UnmarshalTxBase(j) ==
    LET proof == ParseProof(j.proof, j.ver,
                            IF j.type = "tcv" THEN "n" ELSE j.type)
    IN  IF proof = Unreadable THEN NoTx ELSE [j EXCEPT !.proof = proof]

UnmarshalTokenVer1(j) ==
    LET base == UnmarshalTxBase(j.base)
        sub  == UnmarshalTxBase(j.data.sub)
    IN  IF Failed(base) \/ Failed(sub) THEN NoTx
        ELSE Whole(base, [j.data EXCEPT !.sub = sub])

\* Mutant of TokenProofType: a converted token is read as a transferred one.
AlwaysProofV2(base) == "ProofV2"

TokenProofType(base) ==
    CASE base.type = "tcv" /\ base.ver = ConversionVersion -> "ProofForConversion"
      [] base.type = "tp"  /\ base.ver = 2                 -> "ProofV2"
      [] OTHER                                             -> Unreadable

UnmarshalTokenVer2(j) ==
    LET base == UnmarshalTxBase(j.base)
    IN  IF Failed(base) \/ j.data.sub.proof # TokenProofType(base) THEN NoTx
        ELSE Whole(base, [j.data EXCEPT !.sub =
                             GetTxNormal([base |-> base, data |-> j.data])])

\* A version 1 token transaction is written flat: the fields of its PRV part
\* are its own.
MarshalJSON(tx) ==
    [version |-> IF HasData(tx) /\ tx.base.ver # 1 THEN {} ELSE {tx.base.ver},
     token   |-> HasData(tx), base |-> tx.base, data |-> tx.data]

DeserializeTransactionJSON(j) ==
    LET base == UnmarshalTxBase(j.base)
        normal == IF Failed(base) THEN NoTx ELSE Whole(base, NoData)
    IN  CASE j.version = {1} /\ j.token  -> UnmarshalTokenVer1(j)
          [] j.version = {1} /\ ~j.token -> normal
          [] j.version = {2} /\ ~j.token -> normal
          [] j.version = {} /\ j.token   -> UnmarshalTokenVer2(j)
          [] OTHER                       -> NoTx

-----------------------------------------------------------------------------
(* What a node reads                                                       *)

Parts(tx) == IF HasData(tx) THEN <<tx.base, tx.data.sub>> ELSE <<tx.base>>

\* TxToken.ListSerialNumbersHashH and TxBase's: of both parts, in one list.
ListSerialNumbers(tx) ==
    FlattenSeq([n \in DOMAIN Parts(tx) |->
        [k \in DOMAIN Parts(tx)[n].ins |-> Parts(tx)[n].ins[k].id]])

\* Public keys: a version 1 output has its receiver's, the burning address
\* has one, every other version 2 output has a one-time key of its own.
PublicKey(t, k) ==
    IF t.ver = 1 \/ t.outs[k].to = Burning
    THEN <<t.outs[k].to>> ELSE <<t.outs[k].to, t.outs[k].asset, k>>

ListOTA(t) ==
    LET keys == [k \in DOMAIN t.outs |-> PublicKey(t, k)]
    IN  IF t.ver = 1 THEN <<>> ELSE SelectSeq(keys, LAMBDA pk : pk # <<Burning>>)

\* Version 1: one entry per public key, with the sum of its amounts.
ValuesTo(outs, to) ==
    Values([k \in DOMAIN outs |-> IF outs[k].to = to THEN outs[k] ELSE [val |-> 0]])
GetReceiverDataVer1(t) ==
    {[to |-> to, val |-> Wrap(ValuesTo(t.outs, to))] :
        to \in {t.outs[k].to : k \in DOMAIN t.outs}}

\* GetTxBurnData: the first output to the burning address; 0 if there is none.
GetTxBurnData(t) ==
    LET burned == Burned(t.outs)
    IN  CASE burned = {} -> 0
          [] burned # {} /\ t.ver = 1 -> (CHOOSE r \in GetReceiverDataVer1(t) :
                                r.to = Burning).val
          [] OTHER       -> t.outs[Min(burned)].val

GetTokenID(tx) == IF HasData(tx) THEN tx.data.id ELSE PRV

\* PRV of the one part, the token of the other under the ID the data shows.
GetTxFullBurnData(tx) ==
    [prv   |-> GetTxBurnData(tx.base),
     token |-> IF HasData(tx) THEN GetTxBurnData(tx.data.sub) ELSE 0,
     id    |-> GetTokenID(tx)]

-----------------------------------------------------------------------------
(* The history of an account: `own' is the set of the ids of its coins of  *)
(* the asset in question, `who' its key set                                *)

NoPart == [ins |-> <<>>, outs |-> <<>>]

\* The switch on the type at the head of each reader of a transaction.
ProofOf(tx, asset, matches) ==
    CASE asset = PRV         -> tx.base
      [] asset # PRV /\ HasData(tx) /\ matches -> tx.data.sub
      [] OTHER               -> NoPart

GetListKeyImagesFromTx(tx, asset) ==
    {c.id : c \in ToSet(ProofOf(tx, asset, asset = GetTokenID(tx)).ins)}

\* Any token part of a version 2 transaction is looked through.
GetTxOutputCoinsByKeySet(tx, asset, who) ==
    SelectSeq(ProofOf(tx, asset, asset = GetTokenID(tx) \/ tx.ver = 2).outs,
              LAMBDA c : c.to = who)

GetTxReceivers(tx, asset) ==
    LET outs == ProofOf(tx, asset, asset = GetTokenID(tx)).outs
    IN  [k \in DOMAIN outs |-> outs[k].to]

GetTxFeeToken(tx) ==
    IF HasData(tx) /\ tx.ver = 1 THEN tx.data.sub.fee ELSE 0

GetTxFeeBy(tx) ==
    IF tx.base.fee > 0 THEN [fee |-> tx.base.fee, inPRV |-> TRUE]
    ELSE [fee |-> GetTxFeeToken(tx), inPRV |-> FALSE]

GetTxInputAmount(tx, asset, own) ==
    Wrap(MapThenSumSet(LAMBDA c : c.val,
        {c \in own : c.id \in GetListKeyImagesFromTx(tx, asset)}))

GetTxOutputAmountByKeySet(tx, asset, who) ==
    Wrap(Values(GetTxOutputCoinsByKeySet(tx, asset, who)))

IsTxOut(tx, asset, own) ==
    \E c \in own : c.id \in GetListKeyImagesFromTx(tx, asset)

\* Of the outputs found, those in the list of the account's coins of the
\* asset (mapCmt): this is where other assets drop out.
IncomingCoins(tx, asset, who) ==
    OfAsset(GetTxOutputCoinsByKeySet(tx, asset, who), asset)

TxIn(tx, asset, who) ==
    [version |-> tx.ver, asset |-> GetTokenID(tx),
     val |-> Wrap(Values(IncomingCoins(tx, asset, who)))]

\* The node finds version 1 outputs by address, version 2 by public key.
GetListTxsInV1(txs, asset, who, own) ==
    LET found == SelectSeq(txs, LAMBDA tx :
                     /\ tx.ver = 1
                     /\ ~IsTxOut(tx, asset, own)
                     /\ TxIn(tx, asset, who).val > 0)
    IN  [k \in DOMAIN found |-> TxIn(found[k], asset, who)]

GetListTxsInV2(txs, asset, who, own) ==
    LET found == SelectSeq(txs, LAMBDA tx :
                     /\ tx.ver = 2
                     /\ ~IsTxOut(tx, asset, own)
                     /\ TxIn(tx, asset, who).val > 0)
    IN  [k \in DOMAIN found |-> TxIn(found[k], asset, who)]

GetListTxsIn(txs, asset, who, own) ==
    GetListTxsInV1(txs, asset, who, own) \o GetListTxsInV2(txs, asset, who, own)

\* Mutant of TxOut: the fee is left in the amount.
FeeIncluded(tx, asset, who, own) ==
    [fee |-> GetTxFeeBy(tx).fee, inPRV |-> GetTxFeeBy(tx).inPRV,
     receivers |-> GetTxReceivers(tx, asset),
     val |-> Wrap(GetTxInputAmount(tx, asset, own)
                  - GetTxOutputAmountByKeySet(tx, asset, who))]

\* The amount that left the account; the differences are of uint64.
TxOut(tx, asset, who, own) ==
    LET by == GetTxFeeBy(tx)
    IN  [fee |-> by.fee, inPRV |-> by.inPRV,
         receivers |-> GetTxReceivers(tx, asset),
         val |-> Wrap(GetTxInputAmount(tx, asset, own)
                      - GetTxOutputAmountByKeySet(tx, asset, who)
                      - IF by.inPRV <=> asset = PRV THEN by.fee ELSE 0)]

SpentBy(tx, own) == \E c \in own : c.id \in ToSet(ListSerialNumbers(tx))

\* From the spent coins of one version to the transactions that spent them.
TxsOutOf(txs, asset, who, own) ==
    LET found == SelectSeq(txs, LAMBDA tx :
                     /\ SpentBy(tx, own)
                     /\ asset = PRV \/ TxOut(tx, asset, who, own).val > 0)
    IN  [k \in DOMAIN found |-> TxOut(found[k], asset, who, own)]

GetListTxsOutV1(txs, asset, who, own) ==
    TxsOutOf(txs, asset, who, {c \in own : c.ver # 2})

GetListTxsOutV2(txs, asset, who, own) ==
    TxsOutOf(txs, asset, who, {c \in own : c.ver = 2})

GetListTxsOut(txs, asset, who, own) ==
    GetListTxsOutV1(txs, asset, who, own) \o GetListTxsOutV2(txs, asset, who, own)

\* The amounts a key set received, by asset: token coins of the umbrella
\* asset are all put under the asset the first of them opens to.
GetReceivingInfo(tx, who) ==
    LET prv    == GetTxOutputAmountByKeySet(tx, PRV, who)
        tokens == IF HasData(tx)
                  THEN SelectSeq(tx.data.sub.outs, LAMBDA c : c.to = who)
                  ELSE <<>>
        id     == IF GetTokenID(tx) = ConfidentialAsset THEN tokens[1].asset
                  ELSE GetTokenID(tx)
    IN  [a \in {PRV} \cup (IF tokens = <<>> THEN {} ELSE {id}) |->
            IF a = PRV THEN prv ELSE Wrap(Values(tokens))]
=============================================================================
