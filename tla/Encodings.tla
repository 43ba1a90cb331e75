----------------------------- MODULE Encodings -----------------------------
(***************************************************************************)
(* Coins, proofs and ring indices as bytes (coin/coin_v1.go,               *)
(* coin/coin_v2.go, coin/utils.go, privacy/v1/zkp/proof_v1.go,             *)
(* privacy/v2/proof_v2.go, transaction/tx_ver2/tx_ver2.go).                *)
(*                                                                         *)
(* A byte is a number below ByteBase (256 in the code) and a key KeySize   *)
(* bytes (32), so that a coin with a long info needs two bytes for its     *)
(* length here as it does there.  A coin is a record of byte strings, the  *)
(* empty one being nil.  A reader holds the bytes it has not read yet and  *)
(* the object it fills, which keeps what was written before an error.      *)
(***************************************************************************)
EXTENDS LoopSteps, TLC
LOCAL INSTANCE SequencesExt

CONSTANTS ByteBase,    \* 256 in the code
          KeySize      \* Ed25519KeySize, 32 in the code

ASSUME BytesAssumption ==
    /\ ByteBase \in Nat \ {0, 1}
    /\ KeySize \in 1..(ByteBase - 1)

MaxSizeInfoCoin == ByteBase - 1
IndexSize == 1                                  \* of a uint32, 4 in the code
TxRandomGroupSize == 2 * KeySize + IndexSize
elGamalCiphertextSize == 2 * KeySize

\* byte(n) drops what does not fit in a byte.
Byte(n) == n % ByteBase
IntToBytes(n) == IF n < ByteBase^2 THEN <<n \div ByteBase, Byte(n)>> ELSE <<>>
BytesToInt(b) == IF Len(b) = 2 THEN b[1] * ByteBase + b[2] ELSE 0
\* big.Int.Bytes of a number below ByteBase^2, and its inverse.
BigBytes(n) == IF n = 0 THEN <<>> ELSE IF n < ByteBase THEN <<n>> ELSE <<n \div ByteBase, Byte(n)>>
BigInt(b) == InTurn(LAMBDA n, x : n * ByteBase + x, 0, b)

Prefixed(b) == <<Byte(Len(b))>> \o b
Concat(parts) == FlattenSeq(parts)

\* Not every byte string of that length is a point of the curve; the zero
\* one is.
IsPoint(b) == Len(b) = KeySize /\ b[KeySize] # ByteBase - 1

-----------------------------------------------------------------------------
(* Readers                                                                 *)

Reader(b, c) == [ok |-> TRUE, rest |-> b, c |-> c]
Fail(st) == [st EXCEPT !.ok = FALSE]
Drop(b, n) == SubSeq(b, n + 1, Len(b))

\* A byte with the length, then so many bytes.
HasItem(st) == st.ok /\ st.rest # <<>> /\ Head(st.rest) < Len(st.rest)
Item(st) == SubSeq(st.rest, 2, 1 + Head(st.rest))
PastItem(st) == Drop(st.rest, 1 + Head(st.rest))
Filled(st, f, v) == [st EXCEPT !.rest = PastItem(st), !.c[f] = v]

parsePointForSetBytes(st, f) ==
    IF HasItem(st) /\ (Item(st) = <<>> \/ IsPoint(Item(st))) THEN Filled(st, f, Item(st)) ELSE Fail(st)
\* Scalar.FromBytesS pads or cuts what it is given.
parseScalarForSetBytes(st, f) ==
    IF ~HasItem(st) THEN Fail(st)
    ELSE Filled(st, f, IF Item(st) = <<>> THEN <<>>
                       ELSE [i \in 1..KeySize |-> IF i \in DOMAIN Item(st) THEN Item(st)[i] ELSE 0])
parseInfoForSetBytes(st, f) == IF HasItem(st) THEN Filled(st, f, Item(st)) ELSE Fail(st)

ScalarFields == {"snDerivator", "randomness", "sharedRandom", "sharedConcealRandom", "mask", "amount"}
ParseField(st, f) ==
    IF f \in ScalarFields THEN parseScalarForSetBytes(st, f) ELSE parsePointForSetBytes(st, f)
FieldBytes(c, fields) == Concat([i \in DOMAIN fields |-> Prefixed(c[fields[i]])])

-----------------------------------------------------------------------------
(* Coins                                                                   *)

getMin(a, b) == IF a < b THEN a ELSE b
InfoBytes(c) == Prefixed(SubSeq(c.info, 1, getMin(Len(c.info), MaxSizeInfoCoin)))

KeysV1 == <<"publicKey", "commitment", "snDerivator", "serialNumber", "randomness">>
NoPlainCoinV1 == [f \in Range(KeysV1) \cup {"info"} |-> <<>>] @@ [value |-> 0]
PlainCoinV1Bytes(c) == FieldBytes(c, KeysV1) \o Prefixed(BigBytes(c.value)) \o InfoBytes(c)
PlainCoinV1SetBytes(old, b) ==
    LET keys == InTurn(ParseField, Reader(b, old), KeysV1)
        valued == IF ~HasItem(keys) THEN Fail(keys)
                  ELSE Filled(keys, "value", IF Item(keys) = <<>> THEN keys.c.value
                                             ELSE BigInt(Item(keys)))
    IN  IF b = <<>> THEN Fail(Reader(b, old)) ELSE parseInfoForSetBytes(valued, "info")

\* CoinDetailsEncrypted is nil ({}), or a ciphertext, which may be empty.
NoCoinV1 == [details |-> NoPlainCoinV1, encrypted |-> {}]
CoinV1Bytes(c) ==
    LET details == PlainCoinV1Bytes(c.details)
    IN  (IF c.encrypted = {} THEN <<0>> ELSE Prefixed(CHOOSE e \in c.encrypted : TRUE))
        \o (IF Len(details) < ByteBase THEN <<Len(details)>> ELSE IntToBytes(Len(details)))
        \o details

\* The details: with a length of one byte, then of two on the same object.
DetailsOfTwoByteLength(st) ==
    LET n == BytesToInt(SubSeq(st.rest, 1, 2))
        read == PlainCoinV1SetBytes(st.c.details, SubSeq(st.rest, 3, 2 + n))
    IN  IF Len(st.rest) < 2 + n THEN Fail(st)
        ELSE [ok |-> read.ok, rest |-> <<>>, c |-> [st.c EXCEPT !.details = read.c]]
\* Mutant of Details: a length of two bytes is not tried.
OneByteLength(st) ==
    LET read == PlainCoinV1SetBytes(st.c.details, Item(st))
    IN  IF ~HasItem(st) THEN Fail(st)
        ELSE [ok |-> read.ok, rest |-> <<>>, c |-> [st.c EXCEPT !.details = read.c]]
Details(st) ==
    LET read == PlainCoinV1SetBytes(st.c.details, Item(st))
        filled == [st EXCEPT !.c.details = read.c]
    IN  CASE ~st.ok \/ Len(st.rest) = 0         -> Fail(st)
          [] st.ok /\ Len(st.rest) > 0 /\ Head(st.rest) # 0 ->
                IF ~HasItem(st) THEN Fail(st)
                ELSE IF read.ok THEN filled
                ELSE IF Len(st.rest) < 2 THEN Fail(filled)
                ELSE DetailsOfTwoByteLength(filled)
          [] OTHER -> IF Len(st.rest) < 2 THEN Fail(st) ELSE DetailsOfTwoByteLength(st)

CoinV1SetBytes(old, b) ==
    LET st == Reader(b, old)
        e  == Item(st)
        encrypted == CASE Head(b) = 0               -> [st EXCEPT !.rest = Tail(b)]
                       [] Head(b) # 0 /\ ~HasItem(st) -> Fail(st)
                       [] Head(b) # 0 /\ HasItem(st) /\ Len(e) < elGamalCiphertextSize
                                                    -> Fail([st EXCEPT !.c.encrypted = {<<>>}])
                       [] OTHER                     -> Filled(st, "encrypted", {e})
        \* A new details object.
        fresh == IF encrypted.ok /\ encrypted.rest # <<>>
                 THEN [encrypted EXCEPT !.c.details = NoPlainCoinV1] ELSE encrypted
    IN  IF b = <<>> THEN Fail(st) ELSE Details(fresh)

KeysV2 == <<"publicKey", "commitment", "keyImage", "sharedRandom", "sharedConcealRandom">>
LateKeysV2 == <<"mask", "amount">>
NoCoinV2 == [f \in Range(KeysV2) \cup Range(LateKeysV2) \cup {"assetTag", "txRandom", "info"} |-> <<>>]
CoinV2Bytes(c) ==
    <<2>> \o InfoBytes(c) \o FieldBytes(c, KeysV2) \o Prefixed(c.txRandom)
    \o FieldBytes(c, LateKeysV2) \o Prefixed(c.assetTag)

\* TxRandom.SetBytes: a point, an index, a point.
IsTxRandom(b) ==
    /\ Len(b) = TxRandomGroupSize
    /\ IsPoint(SubSeq(b, 1, KeySize)) /\ IsPoint(Drop(b, KeySize + IndexSize))
\* Never absent, although Bytes writes a nil one.
ParseTxRandom(st) ==
    IF HasItem(st) /\ IsTxRandom(Item(st)) THEN Filled(st, "txRandom", Item(st)) ELSE Fail(st)
CoinV2SetBytes(old, b) ==
    LET info == parseInfoForSetBytes(Reader(Tail(b), old), "info")
        keys == ParseTxRandom(InTurn(ParseField, info, KeysV2))
        late == InTurn(ParseField, keys, LateKeysV2)
    IN  CASE b = <<>>                    -> Fail(Reader(b, old))
          [] b # <<>> /\ Head(b) # 2     -> Fail(Reader(b, old))
          \* The serialization before asset tags ends here.
          [] b # <<>> /\ Head(b) = 2 /\ late.ok /\ late.rest = <<>>
                                         -> [late EXCEPT !.c.assetTag = <<>>]
          [] OTHER                       -> parsePointForSetBytes(late, "assetTag")

\* By the first byte; and, from JSON, by trying one version after the other.
NewPlainCoinFromByte(b) ==
    IF b = <<>> \/ Head(b) = 2 THEN CoinV2SetBytes(NoCoinV2, b) ELSE PlainCoinV1SetBytes(NoPlainCoinV1, b)
NewCoinFromByte(b) ==
    IF CoinV2SetBytes(NoCoinV2, b).ok THEN CoinV2SetBytes(NoCoinV2, b) ELSE CoinV1SetBytes(NoCoinV1, b)

-----------------------------------------------------------------------------
(* Proofs                                                                  *)

\* Output coins, and the inputs of version 2: a length of one byte if the
\* coin fits, of two otherwise.
CoinWithLength(b) == (IF Len(b) < ByteBase THEN <<Len(b)>> ELSE IntToBytes(Len(b))) \o b
Counted(parts) == <<Byte(Len(parts))>> \o Concat(parts)

Listed(st, f, v, past) == [st EXCEPT !.rest = past, !.c[f] = Append(@, v)]
\* One byte first; when the coin does not parse, two, on what the first try
\* left of the object.
NextCoin(st, f, SetBytes(_, _), fresh) ==
    LET one == SetBytes(fresh, Item(st))
        n   == BytesToInt(SubSeq(st.rest, 1, 2))
        two == SetBytes(one.c, SubSeq(st.rest, 3, 2 + n))
    IN  CASE ~HasItem(st)                             -> Fail(st)
          [] HasItem(st) /\ one.ok                    -> Listed(st, f, one.c, PastItem(st))
          [] HasItem(st) /\ ~one.ok /\ Len(st.rest) >= 2 + n /\ two.ok
                                                      -> Listed(st, f, two.c, Drop(st.rest, 2 + n))
          [] OTHER                                    -> Fail(st)
\* A byte with the number of elements, then the elements, into list f.
ReadList(st, Next(_)) ==
    IF ~st.ok \/ st.rest = <<>> THEN Fail(st)
    ELSE InTurn(LAMBDA r, i : IF r.ok THEN Next(r) ELSE r,
                [st EXCEPT !.rest = Tail(@)], UpTo(1, Head(st.rest)))

\* The parts of a proof that are proofs themselves are opaque bytes of a
\* fixed size; the size is written before each, in two bytes or in one.
SubProofs == <<"oneOfManyProof", "serialNumberProof", "serialNumberNoPrivacyProof">>
SizeBytes(kind, n) == IF kind = "serialNumberNoPrivacyProof" THEN <<Byte(n)>> ELSE IntToBytes(n)
SubProofsBytes(p, kind) ==
    Counted([i \in DOMAIN p[kind] |-> SizeBytes(kind, Len(p[kind][i])) \o p[kind][i]])
ReadSubProof(st, kind) ==
    LET w == IF kind = "serialNumberNoPrivacyProof" THEN 1 ELSE 2
        n == BigInt(SubSeq(st.rest, 1, w))
    IN  IF Len(st.rest) < w \/ Len(st.rest) < w + n THEN Fail(st)
        ELSE Listed(st, kind, SubSeq(st.rest, w + 1, w + n), Drop(st.rest, w + n))

OutputLists == <<"commitmentOutputValue", "commitmentOutputSND", "commitmentOutputShardID">>
InputLists == <<"commitmentInputValue", "commitmentInputSND">>
PointListBytes(p, lists) ==
    Concat([k \in DOMAIN lists |-> Counted([i \in DOMAIN p[lists[k]] |-> Prefixed(p[lists[k]][i])])])
ReadPointLists(st, lists) ==
    InTurn(LAMBDA r, f : ReadList(r, LAMBDA q : IF HasItem(q) /\ IsPoint(Item(q))
                                               THEN Listed(q, f, Item(q), PastItem(q)) ELSE Fail(q)),
           st, lists)

CommitmentRingSize == 2                         \* 8 in the code
NoProofV1 ==
    [f \in Range(SubProofs) \cup Range(OutputLists) \cup Range(InputLists)
           \cup {"rangeProof", "inputCoins", "outputCoins", "commitmentInputSecretKey",
                 "commitmentInputShardID", "commitmentIndices"} |-> <<>>]
\* The length of an input coin is one byte, whatever it is.
ProofV1Bytes(p) ==
    LET hasPrivacy == p.oneOfManyProof # <<>>
    IN  Concat([k \in DOMAIN SubProofs |-> SubProofsBytes(p, SubProofs[k])])
        \o (IF hasPrivacy THEN IntToBytes(Len(p.rangeProof)) \o p.rangeProof ELSE <<0, 0>>)
        \o Counted([i \in DOMAIN p.inputCoins |-> Prefixed(PlainCoinV1Bytes(p.inputCoins[i]))])
        \o Counted([i \in DOMAIN p.outputCoins |-> CoinWithLength(CoinV1Bytes(p.outputCoins[i]))])
        \o PointListBytes(p, OutputLists)
        \o Prefixed(p.commitmentInputSecretKey)
        \o PointListBytes(p, InputLists)
        \o Prefixed(p.commitmentInputShardID)
        \o p.commitmentIndices
InputCoinsFit(p) == \A i \in DOMAIN p.inputCoins : Len(PlainCoinV1Bytes(p.inputCoins[i])) < ByteBase

ReadInputV1(st) ==
    LET c == NewPlainCoinFromByte(Item(st))
    IN  IF HasItem(st) /\ c.ok THEN Listed(st, "inputCoins", c.c, PastItem(st)) ELSE Fail(st)
ReadRangeProof(st, w) ==
    LET n == BigInt(SubSeq(st.rest, 1, w))
    IN  IF ~st.ok \/ Len(st.rest) < w \/ Len(st.rest) < w + n THEN Fail(st)
        ELSE [st EXCEPT !.rest = Drop(st.rest, w + n), !.c.rangeProof = SubSeq(st.rest, w + 1, w + n)]
ReadIndices(st) ==
    LET n == Len(st.c.oneOfManyProof) * CommitmentRingSize
    IN  IF ~st.ok \/ Len(st.rest) < n THEN Fail(st)
        ELSE [st EXCEPT !.rest = Drop(st.rest, n), !.c.commitmentIndices = SubSeq(st.rest, 1, n)]
ProofV1SetBytes(b) ==
    LET subs  == InTurn(LAMBDA r, k : ReadList(r, LAMBDA q : ReadSubProof(q, k)),
                        Reader(b, NoProofV1), SubProofs)
        ins   == ReadList(ReadRangeProof(subs, 2), ReadInputV1)
        outs  == ReadList(ins, LAMBDA q : NextCoin(q, "outputCoins", CoinV1SetBytes, NoCoinV1))
        inKey == parsePointForSetBytes(ReadPointLists(outs, OutputLists), "commitmentInputSecretKey")
        inShd == parsePointForSetBytes(ReadPointLists(inKey, InputLists), "commitmentInputShardID")
    IN  ReadIndices(inShd)

NoProofV2 == [rangeProof |-> <<>>, inputCoins |-> <<>>, outputCoins |-> <<>>]
ProofV2Bytes(p) ==
    <<2>> \o <<Byte(Len(p.rangeProof))>> \o p.rangeProof
    \o Counted([i \in DOMAIN p.inputCoins |-> CoinWithLength(CoinV2Bytes(p.inputCoins[i]))])
    \o Counted([i \in DOMAIN p.outputCoins |-> CoinWithLength(CoinV2Bytes(p.outputCoins[i]))])
NewInput(old, b) == NewPlainCoinFromByte(b)
ProofV2SetBytes(b) ==
    LET ranged == ReadRangeProof(Reader(Tail(b), NoProofV2), IndexSize)
        ins == ReadList(ranged, LAMBDA q : NextCoin(q, "inputCoins", NewInput, NoCoinV2))
    IN  IF b = <<>> \/ Head(b) # 2 THEN Fail(Reader(b, NoProofV2))
        ELSE ReadList(ins, LAMBDA q : NextCoin(q, "outputCoins", CoinV2SetBytes, NoCoinV2))

-----------------------------------------------------------------------------
(* SigPubKey: the rows of the ring's indices, all of the same length.      *)

SigPubKeyFails(rows) ==
    \/ rows = <<>> \/ Len(rows) >= ByteBase
    \/ \E i \in DOMAIN rows : Len(rows[i]) # Len(rows[1])
    \/ Len(rows[1]) >= ByteBase
SigPubKeyBytes(rows) ==
    <<Len(rows), Len(rows[1])>>
    \o Concat([i \in DOMAIN rows |-> Concat([j \in DOMAIN rows[i] |-> Prefixed(BigBytes(rows[i][j]))])])
SigPubKeySetBytes(b) ==
    LET n == b[1]    m == b[2]
        ReadIndex(st, i) ==
            IF HasItem(st) THEN Listed(st, "row", BigInt(Item(st)), PastItem(st)) ELSE Fail(st)
        ReadRow(st, i) ==
            LET r == InTurn(ReadIndex, [st EXCEPT !.c.row = <<>>], UpTo(1, m))
            IN  [r EXCEPT !.c.rows = Append(@, r.c.row)]
    IN  IF Len(b) < 2 THEN Fail(Reader(b, <<>>))
        ELSE InTurn(ReadRow, Reader(Drop(b, 2), [rows |-> <<>>, row |-> <<>>]), UpTo(1, n))
=============================================================================
