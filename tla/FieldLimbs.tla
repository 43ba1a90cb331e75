----------------------------- MODULE FieldLimbs -----------------------------
(***************************************************************************)
(* Field elements as limbs: crypto/curve25519/edwards25519_fe_amd64.go     *)
(* (five limbs of 51 bits, numbers modulo 2^255 - 19) and common_fe.go     *)
(* (the same again, and ten limbs of 26 and 25 bits in turn, which only    *)
(* the generator of the constants and the conversions use).                *)
(*                                                                         *)
(* A number of 5 * Width bits replaces the 255 bits and Gap the 19; the    *)
(* ten limbs have Width32 and Width32 - 1 bits.  Bytes are a number: the   *)
(* code only cuts the same bits elsewhere.  Limbs are bounded by what the  *)
(* callers add up (54 bits in the code) and a difference must not be       *)
(* negative, because it is a uint64.                                       *)
(***************************************************************************)
EXTENDS LoopSteps, TLC
LOCAL INSTANCE FiniteSetsExt

CONSTANTS
    Width,    \* bits of one of five limbs, 51 in the code
    Gap,      \* the modulus is 2^(5 * Width) - Gap, 19 in the code
    Width32   \* bits of an even limb of the ten, 26 in the code

ASSUME WidthAssumption ==
    /\ Width \in Nat \ {0} /\ Gap \in Nat \ {0} /\ Width32 \in Nat \ {0, 1}
    /\ Gap < 2^Width

FeModulus == 2^(5 * Width) - Gap

-----------------------------------------------------------------------------
(* Five limbs                                                              *)

FeValue(v) == MapThenSumSet(LAMBDA i : v[i] * 2^(Width * i), 0..4)

FeFromBytes(x) == [i \in 0..4 |-> (x \div 2^(Width * i)) % 2^Width]

FeAdd(a, b) == [i \in 0..4 |-> a[i] + b[i]]

\* t[i+1] += t[i] >> Width; t[i] &= mask
MaskLimb(t, i) ==
    i :> (t[i] % 2^Width) @@ (i + 1) :> (t[i + 1] + (t[i] \div 2^Width)) @@ t

\* The carries of the limbs 0 to 3, then that of limb 4 into limb 0.
Propagate(v) ==
    LET t == InTurn(MaskLimb, v, <<0, 1, 2, 3>>)
    IN  0 :> (t[0] + Gap * (t[4] \div 2^Width)) @@ 4 :> (t[4] % 2^Width) @@ t

\* Twice the modulus is added first, limb by limb.
FeSub(a, b) ==
    LET t == Propagate(b)
    IN  [i \in 0..4 |-> a[i] + 2 * (2^Width - (IF i = 0 THEN Gap ELSE 1)) - t[i]]

FeNegLimbs(a) == FeSub([i \in 0..4 |-> 0], a)

\* Mutant of feReduce: only the limbs are reduced, not the number.
LimbsOnly(v) == Propagate(v)

\* The number is below 2^(5 * Width) now; c says whether it is still at
\* least the modulus.
feReduce(v) ==
    LET t == Propagate(v)
        c == InTurn(LAMBDA carry, i : (t[i] + carry) \div 2^Width, Gap, <<0, 1, 2, 3, 4>>)
        u == InTurn(MaskLimb, 0 :> (t[0] + Gap * c) @@ t, <<0, 1, 2, 3>>)
    IN  4 :> (u[4] % 2^Width) @@ u

FeToBytes(v) == FeValue(feReduce(v))

FeIsNonZero(v) == FeToBytes(v) # 0

\* common_fe.go has a copy of its own.
feReduce64(v) == feReduce(v)
FeFromBytes64(x) == FeFromBytes(x)
FeToBytes64(v) == FeValue(feReduce64(v))

-----------------------------------------------------------------------------
(* Ten limbs, signed                                                       *)

Width10(i) == IF i % 2 = 0 THEN Width32 ELSE Width32 - 1
Offset10(i) == 5 * (2 * Width32 - 1) * (i \div 10)
               + (2 * Width32 - 1) * ((i % 10) \div 2) + (i % 2) * Width32

\* The bytes are cut on byte boundaries (load3, load4), some bits later
\* than the limbs are; the surplus is a shift.
Surplus == <<0, 1, 1, 0, 0, 0, 1, 1, 0, 0, 0>>
CutAt(i) == Offset10(i) + Surplus[i + 1]

\* (h + half) >> width: the carry is rounded, the limb stays signed.
RoundLimb(h, i) ==
    LET c == (h[i] + 2^(Width10(i) - 1)) \div 2^Width10(i)
    IN  IF i = 9
        THEN 0 :> (h[0] + Gap * c) @@ 9 :> (h[9] - c * 2^Width10(9)) @@ h
        ELSE i :> (h[i] - c * 2^Width10(i)) @@ (i + 1) :> (h[i + 1] + c) @@ h

feCombine(h) == InTurn(RoundLimb, h, <<0, 4, 1, 5, 2, 6, 3, 7, 4, 8, 9, 0>>)

FeFromBytes32(x) ==
    feCombine([i \in 0..9 |->
        2^Surplus[i + 1] * ((x \div 2^CutAt(i)) % 2^(CutAt(i + 1) - CutAt(i)))])

\* q: how many times the modulus fits, estimated from the top limb.
FeToBytes32(h) ==
    LET half == 2^(Width10(9) - 1)
        q0 == (Gap * h[9] + half) \div 2^Width10(9)
        q  == InTurn(LAMBDA carry, i : (h[i] + carry) \div 2^Width10(i), q0, [k \in 1..10 |-> k - 1])
        g  == InTurn(LAMBDA g, i : i :> (g[i] % 2^Width10(i))
                                   @@ (i + 1) :> (g[i + 1] + (g[i] \div 2^Width10(i))) @@ g,
                     0 :> (h[0] + Gap * q) @@ h, [k \in 1..9 |-> k - 1])
    IN  MapThenSumSet(LAMBDA i : (g[i] % 2^Width10(i)) * 2^Offset10(i), 0..9)
=============================================================================
