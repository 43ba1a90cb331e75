---------------------------- MODULE ScalarArith ----------------------------
(***************************************************************************)
(* Arithmetic of scalars modulo l (crypto/curve25519/                      *)
(* edwards_25519_scalar.go), with limbs of LimbBits bits instead of 21: a  *)
(* key is the number its little-endian bytes stand for, 4 bits longer than *)
(* 12 limbs; l = Radix^12 + delta, and -delta is given in six balanced     *)
(* limbs, as in the code (666643, 470296, 654183, -997805, 136657,         *)
(* -683901).                                                               *)
(*                                                                         *)
(* Every function of the file repeats the same phases on its limbs s0..s23;*)
(* each phase is one definition here.  The limbs are int64 in the code and *)
(* stay far below its bounds.                                              *)
(***************************************************************************)
EXTENDS LoopSteps, TLC
LOCAL INSTANCE SequencesExt
LOCAL INSTANCE FiniteSetsExt

CONSTANTS LimbBits,     \* 21 in the code
          MinusDelta    \* Radix^12 modulo l, as six limbs

ASSUME LimbsAssumption ==
    /\ LimbBits \in Nat \ {0}
    /\ MinusDelta \in [0..5 -> Int]

Radix == 2^LimbBits
KeyBits == 12 * LimbBits + 4
ScalarOrder == Radix^12 - MapThenSumSet(LAMBDA i : MinusDelta[i] * Radix^i, 0..5)

Evens(m, n) == SelectSeq(UpTo(m, n), LAMBDA i : i % 2 = 0)
Odds(m, n) == SelectSeq(UpTo(m, n), LAMBDA i : i % 2 = 1)

-----------------------------------------------------------------------------
(* The phases                                                              *)

\* load3, load4 and masks: limb i of a number whose limbs end at limb last,
\* which takes the bits that are left.
Limb(n, i, last) == IF i = last THEN n \div Radix^i ELSE (n \div Radix^i) % Radix

Load(key) == [i \in 0..23 |-> IF i < 12 THEN Limb(key, i, 11) ELSE 0]

\* The product of 12 limbs by 12 limbs; a limb has up to 12 terms.
Product(a, b) ==
    [i \in 0..23 |-> MapThenSumSet(LAMBDA j : a[j] * b[i - j],
                                   {j \in 0..11 : i - j \in 0..11})]

\* carry = (s[i] + Radix/2) >> LimbBits: the limb becomes balanced.
RoundCarry(s, i) ==
    LET carry == (s[i] + Radix \div 2) \div Radix
    IN  i :> (s[i] - carry * Radix) @@ (i + 1) :> (s[i + 1] + carry) @@ s

\* carry = s[i] >> LimbBits: the limb becomes nonnegative.
FloorCarry(s, i) ==
    LET carry == s[i] \div Radix
    IN  i :> (s[i] - carry * Radix) @@ (i + 1) :> (s[i + 1] + carry) @@ s

\* Limb i >= 12 is replaced by its multiple of -delta, twelve limbs lower.
FoldLimb(s, i) ==
    [k \in (i - 12)..(i - 7) |-> s[k] + s[i] * MinusDelta[k - i + 12]] @@ i :> 0 @@ s

RoundAll(s) == InTurn(RoundCarry, s, Evens(0, 22) \o Odds(1, 21))
FoldHigh(s) == InTurn(FoldLimb, s, DownTo(23, 18))
RoundMiddle(s) == InTurn(RoundCarry, s, Evens(6, 16) \o Odds(7, 15))
FoldLow(s) == InTurn(FoldLimb, s, DownTo(17, 12))
RoundLow(s) == InTurn(RoundCarry, s, Evens(0, 10) \o Odds(1, 11))

\* Mutant of LastFolds: what the second pass carries out is dropped.
FoldedOnce(s) == InTurn(FloorCarry, FoldLimb(s, 12), UpTo(0, 11))

\* Twice: fold the top limb, then carry to nonnegative limbs.
LastFolds(s) ==
    LET once == InTurn(FloorCarry, FoldLimb(s, 12), UpTo(0, 11))
    IN  InTurn(FloorCarry, FoldLimb(once, 12), UpTo(0, 10))

\* byte(...): the limbs' bits in order, the last limb's up to the key's end.
Store(s) == MapThenSumSet(LAMBDA i : s[i] * Radix^i, 0..11)

-----------------------------------------------------------------------------
(* The functions                                                           *)

Finish(s) == Store(LastFolds(RoundLow(s)))
Reduce(s) == Finish(FoldLow(RoundMiddle(FoldHigh(s))))

MulAddLimbs(a, b, c) ==
    LET s == Product(Load(a), Load(b)) IN [i \in 0..23 |-> s[i] + Load(c)[i]]
ScMulAdd(a, b, c) == Reduce(RoundAll(MulAddLimbs(a, b, c)))

\* Two keys' bytes in a row; the limbs need no first round of carries.  A
\* key has a whole number of limbs when LimbBits divides 4.
KeyLimbs == KeyBits \div LimbBits
LoadWide(low, high) ==
    [i \in 0..23 |-> IF i < KeyLimbs THEN Limb(low, i, KeyLimbs - 1)
                                     ELSE Limb(high, i - KeyLimbs, 23 - KeyLimbs)]
ScReduceHigh(low, high) == RoundMiddle(FoldHigh(LoadWide(low, high)))
ScReduce(low, high) == Finish(FoldLow(ScReduceHigh(low, high)))

ScReduce32(key) == Finish(Load(key))

AddLimbs(a, b) == [i \in 0..23 |-> Load(a)[i] + Load(b)[i]]
ScAdd(a, b) == Finish(AddLimbs(a, b))

SubLimbs(a, b) == [i \in 0..23 |-> Load(a)[i] - Load(b)[i]]
ScSub(a, b) == Finish(SubLimbs(a, b))

\* c - ab
MulSubLimbs(a, b, c) ==
    LET s == Product(Load(a), Load(b)) IN [i \in 0..23 |-> Load(c)[i] - s[i]]
ScMulSub(a, b, c) == Reduce(RoundAll(MulSubLimbs(a, b, c)))

MulLimbs(a, b) == Product(Load(a), Load(b))
ScMul(a, b) == Reduce(RoundAll(MulLimbs(a, b)))

ScIsZero(key) == key = 0

signum(n) == IF n > 0 THEN 1 ELSE IF n < 0 THEN -1 ELSE 0

\* The comparison with l - 1, word by word, all weighed: the most significant
\* word that differs decides.  A sum of zero (the key is l - 1) is valid.
WordBits == 4                      \* 32 in the code
Words == KeyBits \div WordBits     \* 8 in the code
Word(key, n) == (key \div 2^(n * WordBits)) % 2^WordBits
ScValid(key) ==
    MapThenSumSet(LAMBDA n : signum(Word(ScalarOrder - 1, n) - Word(key, n)) * 2^n,
                  0..(Words - 1)) \div 2^Words = 0
=============================================================================
