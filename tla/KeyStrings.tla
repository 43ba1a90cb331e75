----------------------------- MODULE KeyStrings -----------------------------
(***************************************************************************)
(* Keys and addresses as bytes and as base58 strings (key/key.go,          *)
(* key/keyset.go, wallet/hdwallet.go, coin/receiver.go,                    *)
(* common/base58/base58check.go).                                          *)
(*                                                                         *)
(* A checksum is told by the function that made it, the new one (double    *)
(* SHA256) or the old one (SHA3), and by what it was made of.  base58      *)
(* itself loses nothing, so a string is the record of what it encodes.     *)
(***************************************************************************)
EXTENDS Encodings
LOCAL INSTANCE SequencesExt

CONSTANT CacheSize    \* of base58Cache, 10000 in the code

ASSUME CacheAssumption == CacheSize \in Nat \ {0}

VARIABLE base58Cache  \* <<input, string>> pairs, the last used one last

-----------------------------------------------------------------------------
(* base58check                                                             *)

\* The cache is asked for the input alone, not for the version or the
\* checksum, by Encode as by NewEncode.
CachedFor(cache, input) == {k \in DOMAIN cache : cache[k][1] = input}
EncodedAs(cache, input, version, new) ==
    IF CachedFor(cache, input) # {} THEN cache[CHOOSE k \in CachedFor(cache, input) : TRUE][2]
    ELSE [version |-> version, data |-> input, checksum |-> [new |-> new, of |-> input]]
Encode(cache, input, version) == EncodedAs(cache, input, version, version = 1)
NewEncode(cache, input, version) == EncodedAs(cache, input, version, TRUE)

\* golang-lru: a use makes the entry the youngest, a new one drops the
\* oldest when the cache is full.
CacheAfter(cache, input, string) ==
    LET others == SelectSeq(cache, LAMBDA e : e[1] # input)
        room == IF CachedFor(cache, input) = {} /\ Len(cache) = CacheSize THEN Tail(others) ELSE others
    IN  Append(room, <<input, string>>)

\* Both checksums are accepted.
Base58Decode(s) == [ok |-> s.checksum.of = s.data, data |-> s.data]

-----------------------------------------------------------------------------
(* Key sets                                                                *)

\* What a private key determines (keyset.go): hashes and points, here told
\* apart by their distance from it.
DerivedKey(sk, k) == [i \in DOMAIN sk |-> (sk[i] + k) % (ByteBase - 1)]
InitFromPrivateKey(sk) ==
    [PrivateKey |-> sk, Pk |-> DerivedKey(sk, 1), Tk |-> DerivedKey(sk, 2),
     Rk |-> DerivedKey(sk, 3), OTASecret |-> DerivedKey(sk, 4), OTAPublic |-> DerivedKey(sk, 5)]
NoKeySet == [PrivateKey |-> <<>>, Pk |-> <<>>, Tk |-> <<>>, Rk |-> <<>>,
             OTASecret |-> <<>>, OTAPublic |-> <<>>]

PaymentAddressBytes(ks) == ks.Pk \o ks.Tk \o ks.OTAPublic
PaymentAddressSetBytes(b) ==
    [NoKeySet EXCEPT !.Pk = SubSeq(b, 1, KeySize), !.Tk = SubSeq(b, KeySize + 1, 2 * KeySize),
                     !.OTAPublic = Drop(b, 2 * KeySize)]
PaymentAddressFails(b) == Len(b) \notin {2 * KeySize, 3 * KeySize}

-----------------------------------------------------------------------------
(* KeyWallet                                                               *)

PrivateKeyType == 0
PaymentAddressType == 1
ReadonlyKeyType == 2
OTAKeyType == 3
PrivateReceivingAddressType == 4

ChildNumberSize == 1                                 \* 4 in the code
\* Without the four bytes of the checksum.
privateKeySerializedBytesLen == 3 + ChildNumberSize + 2 * KeySize
pairSerializedBytesLen == 3 + 2 * KeySize            \* the three other kinds

\* A burning address of old, whose transmission key is empty.
BurnPk == [i \in 1..KeySize |-> 0]
burnAddress1BytesDecode == <<PaymentAddressType>> \o Prefixed(BurnPk) \o <<0>>

\* isNewCheckSum also decides whether the OTA key goes with an address.
SerializedKey(w, keyType, isNewCheckSum) ==
    <<keyType>> \o
    CASE keyType = PrivateKeyType ->
            <<w.Depth>> \o w.ChildNumber \o w.ChainCode \o Prefixed(w.KeySet.PrivateKey)
      [] keyType = PaymentAddressType ->
            Prefixed(w.KeySet.Pk) \o Prefixed(w.KeySet.Tk)
            \o (IF isNewCheckSum /\ w.KeySet.OTAPublic # <<>> THEN Prefixed(w.KeySet.OTAPublic) ELSE <<>>)
      [] keyType = ReadonlyKeyType -> Prefixed(w.KeySet.Pk) \o Prefixed(w.KeySet.Rk)
      [] keyType = OTAKeyType -> Prefixed(w.KeySet.Pk) \o Prefixed(w.KeySet.OTASecret)
Serialize(w, keyType, isNewCheckSum) ==
    LET key == SerializedKey(w, keyType, isNewCheckSum)
    IN  [key |-> key, checksum |-> [new |-> isNewCheckSum, of |-> key]]

\* Base58CheckSerialize: the same choice again for the string, whose version
\* is 0.
Base58CheckSerialize(cache, w, keyType, isNew) ==
    IF isNew THEN NewEncode(cache, Serialize(w, keyType, isNew), 0)
             ELSE Encode(cache, Serialize(w, keyType, isNew), 0)

Undecodable == [ok |-> FALSE, wallet |-> {}]
Decoded(keySet) == [ok |-> TRUE, wallet |-> [KeySet |-> keySet]]
\* Two keys in a row, each after its length.
First(d) == SubSeq(d, 3, 2 + d[2])
Second(d) == LET n == d[2] IN SubSeq(d, n + 4, n + 3 + d[n + 3])
\* Mutant of OTAPublicOf: the key of a new address is not read.
OTAPublicIgnored(d) == <<>>
OTAPublicOf(d) ==
    LET n == d[2] + d[d[2] + 3]
    IN  IF Len(d) > pairSerializedBytesLen THEN SubSeq(d, n + 5, n + 4 + d[n + 4]) ELSE <<>>

deserializePrivate(d) ==
    IF Len(d) # privateKeySerializedBytesLen THEN Undecodable
    ELSE LET at == 2 + ChildNumberSize + KeySize     \* before the length byte
         IN  [ok |-> TRUE,
              wallet |-> [KeySet |-> InitFromPrivateKey(SubSeq(d, at + 2, at + 1 + d[at + 1])),
                          Depth |-> d[2], ChildNumber |-> SubSeq(d, 3, 2 + ChildNumberSize),
                          ChainCode |-> SubSeq(d, 3 + ChildNumberSize, at)]]
deserializeAddress(d) ==
    IF \/ /\ d # burnAddress1BytesDecode
          /\ Len(d) \notin {pairSerializedBytesLen, pairSerializedBytesLen + 1 + KeySize}
       \/ Len(d) > pairSerializedBytesLen /\ d[d[2] + d[d[2] + 3] + 4] # KeySize
    THEN Undecodable
    ELSE Decoded([NoKeySet EXCEPT !.Pk = First(d), !.Tk = Second(d), !.OTAPublic = OTAPublicOf(d)])
deserializePair(d, second) ==
    IF Len(d) # pairSerializedBytesLen THEN Undecodable
    ELSE Decoded([NoKeySet EXCEPT !.Pk = First(d), ![second] = Second(d)])
deserialize(s) ==
    LET d == s.key
    IN  IF s.checksum.of # d THEN Undecodable
        ELSE CASE d[1] = PrivateKeyType      -> deserializePrivate(d)
          [] d[1] = PaymentAddressType       -> deserializeAddress(d)
          [] d[1] = ReadonlyKeyType          -> deserializePair(d, "Rk")
          [] d[1] = OTAKeyType               -> deserializePair(d, "OTASecret")
          [] OTHER                           -> Undecodable
Base58CheckDeserialize(string) ==
    IF Base58Decode(string).ok THEN deserialize(Base58Decode(string).data) ELSE Undecodable

-----------------------------------------------------------------------------
(* OTAReceiver: a one-time address                                         *)

OTAReceiverBytes(r) == <<PrivateReceivingAddressType>> \o r.PublicKey \o r.TxRandom
OTAReceiverSetBytes(b) ==
    LET pk == SubSeq(b, 2, KeySize + 1)    txr == Drop(b, KeySize + 1)
    IN  IF b # <<>> /\ b[1] = PrivateReceivingAddressType /\ IsPoint(pk) /\ IsTxRandom(txr)
        THEN [ok |-> TRUE, r |-> [PublicKey |-> pk, TxRandom |-> txr]]
        ELSE [ok |-> FALSE, r |-> {}]
=============================================================================
