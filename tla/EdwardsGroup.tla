---------------------------- MODULE EdwardsGroup ----------------------------
(***************************************************************************)
(* The group -x^2 + y^2 = 1 + EdwardsD x^2 y^2 of crypto/curve25519        *)
(* (edwards_25519_group.go, key.go, precompute.go) and its wrapper         *)
(* crypto/point.go, over a field of 2^FieldBits - FieldGap elements        *)
(* instead of 2^255 - 19.  Field elements are numbers below FieldOrder;    *)
(* points are records of coordinates in the representations of the code.   *)
(* A key is the number its bytes stand for: y, and the sign of x in the    *)
(* bit above.                                                              *)
(***************************************************************************)
EXTENDS LoopSteps, TLC
LOCAL INSTANCE SequencesExt
LOCAL INSTANCE FiniteSetsExt

CONSTANTS FieldBits,    \* 255 in the code
          FieldGap,     \* 19 in the code
          EdwardsD,     \* of the curve's equation
          SqrtM1,       \* a square root of -1
          MontgomeryA,  \* A of the Montgomery form of the curve (-FeMa)
          Fffb,         \* FeFffb1 .. FeFffb4
          GBASE,        \* the base point, as a key
          ScalarBits    \* 256 in the code

ASSUME GroupAssumption ==
    /\ FieldBits \in Nat /\ FieldGap \in Nat /\ ScalarBits \in Nat
    /\ Fffb \in [1..4 -> Nat]

FieldOrder == 2^FieldBits - FieldGap
FeNeg(a) == (-a) % FieldOrder
FeSquare(a) == (a * a) % FieldOrder
FeMul(a, b) == (a * b) % FieldOrder
FeIsNegative(a) == a % 2

-----------------------------------------------------------------------------
(* Powers.  The code has chains of squarings and multiplications for the   *)
(* exponents q - 2 and (q - 5)/8; a chain is modelled by the bits of the   *)
(* exponent it reaches, at the code's own size: squaring n times shifts    *)
(* them by n, and a product of powers with no bit in common joins them.    *)

Sq(bits, n) == {b + n : b \in bits}
Joined(s, t) == IF s \cap t = {} THEN s \cup t ELSE {}

InvertChain ==
    LET z   == {0}
        t0  == Sq(z, 1)
        t1a == Joined(z, Sq(t0, 2))
        t0a == Joined(t0, t1a)
        t1b == Joined(t1a, Sq(t0a, 1))
        t1c == Joined(Sq(t1b, 5), t1b)
        t2a == Joined(Sq(t1c, 10), t1c)
        t2b == Joined(Sq(t2a, 20), t2a)
        t1d == Joined(Sq(t2b, 10), t1c)
        t2c == Joined(Sq(t1d, 50), t1d)
        t2d == Joined(Sq(t2c, 100), t2c)
        t1e == Joined(Sq(t2d, 50), t1d)
    IN  Joined(Sq(t1e, 5), t0a)

Pow22523Chain ==
    LET z   == {0}
        t0  == Sq(z, 1)
        t1a == Joined(z, Sq(t0, 2))
        t0a == Sq(Joined(t0, t1a), 1)
        t0b == Joined(t1a, t0a)
        t0c == Joined(Sq(t0b, 5), t0b)
        t1b == Joined(Sq(t0c, 10), t0c)
        t1c == Joined(Sq(t1b, 20), t1b)
        t0d == Joined(Sq(t1c, 10), t0c)
        t1d == Joined(Sq(t0d, 50), t0d)
        t1e == Joined(Sq(t1d, 100), t1d)
        t0e == Joined(Sq(t1e, 50), t0d)
    IN  Joined(Sq(t0e, 2), z)

Power(a, n) ==
    InTurn(LAMBDA r, i : FeMul(FeSquare(r), IF (n \div 2^i) % 2 = 1 THEN a ELSE 1),
            1, DownTo(FieldBits - 1, 0))
FeInvert(a) == Power(a, FieldOrder - 2)
fePow22523(a) == Power(a, (FieldOrder - 5) \div 8)

-----------------------------------------------------------------------------
(* Representations                                                         *)

Projective(X, Y, Z) == [X |-> X, Y |-> Y, Z |-> Z]
Extended(X, Y, Z, T) == [X |-> X, Y |-> Y, Z |-> Z, T |-> T]
Cached(yPlusX, yMinusX, Z, T2d) ==
    [yPlusX |-> yPlusX, yMinusX |-> yMinusX, Z |-> Z, T2d |-> T2d]
PreComputed(yPlusX, yMinusX, xy2d) ==
    [yPlusX |-> yPlusX, yMinusX |-> yMinusX, xy2d |-> xy2d]

CachedZero == Cached(1, 1, 1, 0)
ProjectiveZero == Projective(0, 1, 1)
ExtendedZero == Extended(0, 1, 1, 0)

ToCached(p) == Cached((p.Y + p.X) % FieldOrder, (p.Y - p.X) % FieldOrder, p.Z,
                      FeMul(p.T, 2 * EdwardsD))
ToPreComputed(p) == PreComputed((p.Y + p.X) % FieldOrder, (p.Y - p.X) % FieldOrder,
                                FeMul(FeMul(p.X, p.Y), 2 * EdwardsD))
ToProjective(p) == Projective(p.X, p.Y, p.Z)

\* ((X:Z),(Y:T)) to the others.
CompletedToProjective(p) == Projective(FeMul(p.X, p.T), FeMul(p.Y, p.Z), FeMul(p.Z, p.T))
CompletedToExtended(p) == Extended(FeMul(p.X, p.T), FeMul(p.Y, p.Z), FeMul(p.Z, p.T),
                                   FeMul(p.X, p.Y))

\* Double of a projective element, completed.
Double(p) ==
    LET xx == FeSquare(p.X)   yy == FeSquare(p.Y)   zz2 == 2 * FeSquare(p.Z)
        sum == FeSquare(p.X + p.Y)
    IN  Extended((sum - (yy + xx)) % FieldOrder, (yy + xx) % FieldOrder,
                 (yy - xx) % FieldOrder, (zz2 - (yy - xx)) % FieldOrder)

\* The common part of the four additions: a and b are what (Y + X) and
\* (Y - X) are multiplied by, zz twice the product of the Zs.
Sum(p, a, b, zz, t) ==
    LET z == (p.Y + p.X) * a    y == (p.Y - p.X) * b
    IN  Extended((z - y) % FieldOrder, (z + y) % FieldOrder,
                 (zz + t) % FieldOrder, (zz - t) % FieldOrder)

\* Mutant of geSub: the sign of T is that of the addition.
geSubWrongT(p, q) == Sum(p, q.yMinusX, q.yPlusX, 2 * FeMul(p.Z, q.Z), FeMul(q.T2d, p.T))

geAdd(p, q) == Sum(p, q.yPlusX, q.yMinusX, 2 * FeMul(p.Z, q.Z), FeMul(q.T2d, p.T))
geSub(p, q) == Sum(p, q.yMinusX, q.yPlusX, 2 * FeMul(p.Z, q.Z), -FeMul(q.T2d, p.T))
geMixedAdd(p, q) == Sum(p, q.yPlusX, q.yMinusX, 2 * p.Z, FeMul(q.xy2d, p.T))
geMixedSub(p, q) == Sum(p, q.yMinusX, q.yPlusX, 2 * p.Z, -FeMul(q.xy2d, p.T))

\* y = Y/Z, and the low bit of x = X/Z above it.
ToBytes(p) ==
    LET recip == FeInvert(p.Z)
    IN  FeMul(p.Y, recip) + 2^FieldBits * FeIsNegative(FeMul(p.X, recip))

\* u/v to a power that is its square root, if there is one, up to SqrtM1.
FeDivPowM1(u, v) ==
    LET v3  == FeMul(FeSquare(v), v)
        uv7 == FeMul(FeMul(FeSquare(v3), v), u)
    IN  FeMul(FeMul(fePow22523(uv7), v3), u)

\* FALSE where the code rejects: y is not reduced, y is on no point, or
\* x = 0 has the sign bit.
FromBytes(key) ==
    LET y    == key % 2^FieldBits
        u    == (FeSquare(y) - 1) % FieldOrder
        v    == (FeMul(FeSquare(y), EdwardsD) + 1) % FieldOrder
        x0   == FeDivPowM1(u, v)
        vxx  == FeMul(FeSquare(x0), v)
        x1   == IF vxx = u THEN x0 ELSE FeMul(x0, SqrtM1)
        flip == FeIsNegative(x1) # key \div 2^FieldBits
        x    == IF flip THEN FeNeg(x1) ELSE x1
        ok   == /\ y < FieldOrder
                /\ vxx = u \/ (vxx + u) % FieldOrder = 0
                /\ ~(flip /\ x1 = 0)
    IN  [ok |-> ok, p |-> Extended(x, y, 1, FeMul(x, y))]

Public_Key_Valid(key) == FromBytes(key).ok
ToExtended(key) == FromBytes(key).p

\* ProjectiveGroupElement.FromBytes: any bytes to a point of the curve, by
\* Elligator 2.  The high bit of the bytes counts too.
MapToCurve(bytes) ==
    LET u == bytes % FieldOrder
        v == FeMul(2, FeSquare(u))
        w == (v + 1) % FieldOrder
        x == (FeSquare(w) - FeMul(FeSquare(MontgomeryA), v)) % FieldOrder
        r == FeDivPowM1(w, x)
        rrx == FeMul(FeSquare(r), x)
        rrxi == FeMul(rrx, SqrtM1)
        square == rrx \in {w, FeNeg(w)}
        root == FeMul(r, CASE rrx = w                       -> Fffb[2]
                           [] rrx = FeNeg(w) /\ rrx # w     -> Fffb[1]
                           [] ~square /\ rrxi = w           -> Fffb[4]
                           [] OTHER                         -> Fffb[3])
        X0 == IF square THEN FeMul(root, u) ELSE root
        z  == IF square THEN FeMul(FeNeg(MontgomeryA), v) ELSE FeNeg(MontgomeryA)
        X1 == IF FeIsNegative(X0) # (IF square THEN 0 ELSE 1) THEN FeNeg(X0) ELSE X0
        Z  == (z + w) % FieldOrder
    IN  Projective(FeMul(X1, Z), (z - w) % FieldOrder, Z)

-----------------------------------------------------------------------------
(* Multiplications                                                         *)

\* Digits of a scalar in base 16, recentred; the last one takes the carry.
\* GeScalarMult, GeScalarMultBase and SignedRadix16 have the same loops.
Digits == ScalarBits \div 4
Nybble(key, i) == (key \div 16^i) % 16
SignedRadix16(key) ==
    InTurn(LAMBDA e, i : LET carry == (e[i] + 8) \div 16
                          IN  i :> (e[i] - 16 * carry) @@ (i + 1) :> (e[i + 1] + carry) @@ e,
            [i \in 0..(Digits - 1) |-> Nybble(key, i)], UpTo(0, Digits - 2))

DoubleTo(p) == CompletedToProjective(Double(p))
\* r = 8 * t and r = 16 * t, completed.
GeMul8(t) == Double(DoubleTo(DoubleTo(t)))
GeMul16(t) == Double(DoubleTo(DoubleTo(DoubleTo(t))))

\* A, 2A, .. 8A; and A, 3A, .. 15A.
Multiples(A) ==
    InTurn(LAMBDA t, i : Append(t, ToCached(CompletedToExtended(geAdd(A, t[i])))),
            <<ToCached(A)>>, UpTo(1, 7))
GePrecompute(A) ==
    LET A2 == CompletedToExtended(Double(ToProjective(A)))
    IN  InTurn(LAMBDA t, i : Append(t, ToCached(CompletedToExtended(geAdd(A2, t[i])))),
                <<ToCached(A)>>, UpTo(1, 7))

\* The cached element of digit b: a conditional move, then a negation.
Selected(table, b) ==
    LET cur == IF b = 0 THEN CachedZero ELSE table[IF b < 0 THEN -b ELSE b]
    IN  IF b < 0 THEN Cached(cur.yMinusX, cur.yPlusX, cur.Z, FeNeg(cur.T2d)) ELSE cur

\* Four doublings and an addition per digit, from the top.
GeScalarMult(key, A) ==
    InTurn(LAMBDA r, i : CompletedToProjective(
                geAdd(CompletedToExtended(GeMul16(r)),
                      Selected(Multiples(A), SignedRadix16(key)[i]))),
            ProjectiveZero, DownTo(Digits - 1, 0))

\* The same with the digits' elements of several points added first.
MultiScalarMultKeyCached(tables, keys) ==
    InTurn(LAMBDA r, i :
                LET sum == InTurn(LAMBDA acc, j : CompletedToExtended(
                                       geAdd(acc, Selected(tables[j], SignedRadix16(keys[j])[i]))),
                                   ExtendedZero, UpTo(1, Len(keys)))
                IN  CompletedToProjective(geAdd(CompletedToExtended(GeMul16(r)), ToCached(sum))),
            ProjectiveZero, DownTo(Digits - 1, 0))
PreComputeForMultiScalar(P) == Multiples(ToExtended(P))
MultiScalarMultKey(points, keys) ==
    ToBytes(MultiScalarMultKeyCached([j \in DOMAIN points |-> PreComputeForMultiScalar(points[j])],
                                     keys))

\* slide: digits of a key in base 2, each zero or odd between -15 and 15.
\* Digit i absorbs the next ones while it stays in that range, by addition,
\* or by subtraction and a carry into the first zero digit above.
Carry(r, from) ==
    LET zeros == {k \in from..(ScalarBits - 1) : r[k] = 0}
        first == IF zeros = {} THEN ScalarBits ELSE Min(zeros)
    IN  [k \in from..(first - 1) |-> 0] @@ [k \in {first} \cap DOMAIN r |-> 1] @@ r
AbsorbFrom(r, i, b) ==
    LET term == r[i + b] * 2^b
    IN  CASE term = 0             -> [go |-> TRUE, r |-> r]
          [] term # 0 /\ r[i] + term <= 15
                                  -> [go |-> TRUE,
                                      r |-> i :> (r[i] + term) @@ (i + b) :> 0 @@ r]
          [] r[i] + term > 15 /\ r[i] - term >= -15
                                  -> [go |-> TRUE,
                                      r |-> Carry(i :> (r[i] - term) @@ r, i + b)]
          [] OTHER                -> [go |-> FALSE, r |-> r]
Absorb(r, i) ==
    InTurn(LAMBDA st, b : IF st.go /\ i + b < ScalarBits THEN AbsorbFrom(st.r, i, b)
                                                        ELSE st,
            [go |-> r[i] # 0, r |-> r], UpTo(1, 6)).r
slide(key) ==
    InTurn(Absorb, [i \in 0..(ScalarBits - 1) |-> (key \div 2^i) % 2],
            UpTo(0, ScalarBits - 1))

\* t plus the odd multiple that a sliding digit selects.
AddSlide(t, table, digit) ==
    CASE digit = 0 -> t
      [] digit > 0 -> geAdd(CompletedToExtended(t), table[1 + digit \div 2])
      [] digit < 0 -> geSub(CompletedToExtended(t), table[1 + (-digit) \div 2])

\* aA + bB from the tables of A and B.
GeDoubleScalarMultPrecompVartime2(a, Ai, b, Bi) ==
    LET aSlide == slide(a)    bSlide == slide(b)
        used == {i \in 0..(ScalarBits - 1) : aSlide[i] # 0 \/ bSlide[i] # 0}
    IN  InTurn(LAMBDA r, i : CompletedToProjective(
                    AddSlide(AddSlide(Double(r), Ai, aSlide[i]), Bi, bSlide[i])),
                ProjectiveZero,
                IF used = {} THEN <<>> ELSE DownTo(Max(used), 0))
GeDoubleScalarMultPrecompVartime(a, A, b, Bi) ==
    GeDoubleScalarMultPrecompVartime2(a, GePrecompute(A), b, Bi)
GeDoubleScalarMultVartime(a, A, b) ==
    GeDoubleScalarMultPrecompVartime(a, A, b, GePrecompute(ToExtended(GBASE)))

\* n times A by doubling and adding, of which the generated table base[] is
\* filled: entry i of row pos is i * 256^pos times the base point.
Plain(n, A) ==
    InTurn(LAMBDA r, i :
                LET twice == CompletedToExtended(Double(ToProjective(r)))
                IN  IF (n \div 2^i) % 2 = 0 THEN twice
                    ELSE CompletedToExtended(geAdd(twice, ToCached(A))),
            ExtendedZero, DownTo(ScalarBits + 3, 0))
Normal(p) ==
    LET recip == FeInvert(p.Z)
        x == FeMul(p.X, recip)    y == FeMul(p.Y, recip)
    IN  Extended(x, y, 1, FeMul(x, y))
base == [pos \in 0..(Digits \div 2 - 1) |->
            [i \in 1..8 |-> ToPreComputed(Normal(Plain(i * 256^pos, ToExtended(GBASE))))]]

selectPoint(pos, b) ==
    LET cur == IF b = 0 THEN PreComputed(1, 1, 0) ELSE base[pos][IF b < 0 THEN -b ELSE b]
    IN  IF b < 0 THEN PreComputed(cur.yMinusX, cur.yPlusX, FeNeg(cur.xy2d)) ELSE cur

\* Odd digits first, times 16, then the even ones.
GeScalarMultBase(key) ==
    LET e == SignedRadix16(key)
        AddDigit(h, i) == CompletedToExtended(geMixedAdd(h, selectPoint(i \div 2, e[i])))
        odds  == InTurn(AddDigit, ExtendedZero,
                         SelectSeq(UpTo(0, Digits - 1), LAMBDA i : i % 2 = 1))
    IN  InTurn(AddDigit, CompletedToExtended(GeMul16(ToProjective(odds))),
                SelectSeq(UpTo(0, Digits - 1), LAMBDA i : i % 2 = 0))

-----------------------------------------------------------------------------
(* Multiplication tables                                                   *)

\* A, 2A, 4A, .. ; and the sum of those at the scalar's bits.
GenPrecompute(A) ==
    LET powers == InTurn(LAMBDA t, i : Append(t, CompletedToExtended(Double(ToProjective(t[i])))),
                          <<ToExtended(A)>>, UpTo(1, ScalarBits - 1))
    IN  [i \in DOMAIN powers |-> ToCached(powers[i])]
ScalarMultPrecompute(key, table) ==
    InTurn(LAMBDA p, i : IF (key \div 2^(i - 1)) % 2 = 0 THEN p
                          ELSE CompletedToExtended(geAdd(p, table[i])),
            ExtendedZero, UpTo(1, ScalarBits))

\* One entry per value of every byte of the scalar.
GenSuperPrecompute(table) ==
    [i \in 0..(ScalarBits \div 8 - 1) |-> [j \in 0..255 |->
        ToCached(ScalarMultPrecompute(j * 256^i, table))]]
ScalarMultSuperPrecompute(key, stable) ==
    InTurn(LAMBDA p, i : CompletedToExtended(geAdd(p, stable[i][(key \div 256^i) % 256])),
            ExtendedZero, UpTo(0, ScalarBits \div 8 - 1))

\* 0, A, 2A, ..: entry i + 2 is 2A plus entry i.  Only the first 16 are used.
MulPrecompute(A) ==
    LET A2 == CompletedToExtended(Double(ToProjective(A)))
    IN  InTurn(LAMBDA t, i : Append(t, ToCached(CompletedToExtended(geAdd(A2, t[i])))),
                <<ToCached(ExtendedZero), ToCached(A)>>, UpTo(1, 14))
\* Entry a + 16 b is aA + bB.
GenDoublePrecompute(A, B) ==
    LET atable == MulPrecompute(ToExtended(A))    btable == MulPrecompute(ToExtended(B))
        Entry(t, k) == CompletedToExtended(geAdd(ExtendedZero, t[k + 1]))
    IN  [i \in 0..255 |-> ToCached(CompletedToExtended(
            geAdd(Entry(atable, i % 16), ToCached(Entry(btable, i \div 16)))))]
\* s1 A + s2 B, four bits of both scalars at a time.
DoubleScalarDoubleBaseMulPrecomputed(s1, s2, table) ==
    InTurn(LAMBDA p, i : CompletedToExtended(
                geAdd(CompletedToExtended(GeMul16(ToProjective(p))),
                      table[Nybble(s1, i) + 16 * Nybble(s2, i)])),
            ExtendedZero, DownTo(Digits - 1, 0))
\* Several pairs; an entry of two zero digits is skipped.
DoubleScalarDoubleBaseMulPrecomputed64(s1, s2, tables) ==
    InTurn(LAMBDA p, i :
                InTurn(LAMBDA acc, j :
                            LET point == Nybble(s1[j], i) + 16 * Nybble(s2[j], i)
                            IN  IF point = 0 THEN acc
                                ELSE CompletedToExtended(geAdd(acc, tables[j][point])),
                        CompletedToExtended(GeMul16(ToProjective(p))), UpTo(1, Len(s1))),
            ExtendedZero, DownTo(Digits - 1, 0))

-----------------------------------------------------------------------------
(* Keys                                                                    *)

AddKeys(k1, k2) == ToBytes(CompletedToExtended(geAdd(ToExtended(k1), ToCached(ToExtended(k2)))))
SubKeys(k1, k2) == ToBytes(CompletedToExtended(geSub(ToExtended(k1), ToCached(ToExtended(k2)))))
PublicKey(key) == ToBytes(GeScalarMultBase(key))
ScalarMultKey(P, key) == ToBytes(GeScalarMult(key, ToExtended(P)))
AddKeys2(a, b, B) == ToBytes(GeDoubleScalarMultVartime(b, ToExtended(B), a))
AddKeys3(a, A, b, B) ==
    ToBytes(GeDoubleScalarMultPrecompVartime(a, ToExtended(A), b, GePrecompute(ToExtended(B))))
\* Point.AddPedersen: both tables computed by the caller.
AddKeys3_3(a, A, b, B) ==
    ToBytes(GeDoubleScalarMultPrecompVartime2(a, GePrecompute(ToExtended(A)),
                                              b, GePrecompute(ToExtended(B))))
\* The hash of the bytes is external: any number of FieldBits + 1 bits.
HashToEC(hash) == CompletedToExtended(GeMul8(MapToCurve(hash)))
HashToPoint(hash) == ToBytes(HashToEC(hash))
GenerateKeyImage(hash, private) == ToBytes(GeScalarMult(private, HashToEC(hash)))
KeyDerivation(pub, priv) ==
    ToBytes(CompletedToProjective(GeMul8(GeScalarMult(priv, ToExtended(pub)))))
=============================================================================
