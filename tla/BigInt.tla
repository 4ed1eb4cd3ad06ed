------------------------------- MODULE BigInt -------------------------------
(***************************************************************************)
(* The arbitrary-precision integers of src/src/math/BigInt.h: the limb      *)
(* algorithms themselves, at a limb width small enough for TLC.  A number   *)
(* is a sign and a sequence of limbs, the lowest first, as BigInt::data is. *)
(* The module is pure: it has no variables, and every operator below does   *)
(* what the C++ function of that name does to the limbs.                    *)
(*                                                                         *)
(* The code's own values are LimbBits = 32, KaratsubaMin = 128,             *)
(* ToomMin = 192, NttMin = 3072, KnuthMax = 4096, ChunkDigits = 9.          *)
(***************************************************************************)
EXTENDS Integers, Sequences, SequencesExt

CONSTANTS LimbBits,      \* the width of a limb
          KaratsubaMin,  \* shorter operands are multiplied limb by limb
          ToomMin,       \* both operands this long: Toom-Cook
          NttMin,        \* both operands this long: number-theoretic transform
          KnuthMax,      \* longer divisors are divided by through their inverse
          ChunkDigits,   \* the decimal digits that are sure to fit a limb
          Primes         \* the three <<prime, root>> of the transform

Base == 2 ^ LimbBits
Zero == [neg |-> FALSE, data |-> <<0>>]
Bigger(m, n) == IF m > n THEN m ELSE n
Limb(d, i) == IF i \in DOMAIN d THEN d[i] ELSE 0
\* A rule f over 1..n as a sequence (TLC then evaluates it once).
Limbs(f) == f \o <<>>
Zeros(n) == Limbs([i \in 1..n |-> 0])

\* One pass over the limbs, lowest first: of each of the totals and what was
\* carried to it the low part stays and the rest is carried on (a borrow is
\* a negative carry).
CarriedOn(acc, t) == [data |-> Append(acc.data, t % Base), carry |-> t \div Base]
RECURSIVE PassFrom(_, _)
PassFrom(acc, totals) ==
  IF totals = <<>> THEN acc
  ELSE PassFrom(CarriedOn(acc, Head(totals) + acc.carry), Tail(totals))
Pass(totals) == PassFrom([data |-> <<>>, carry |-> 0], Limbs(totals))

Carried(p) == IF p.carry > 0 THEN Append(p.data, p.carry) ELSE p.data

Trimmed(d) == SubSeq(d, 1, Max({1} \cup {i \in DOMAIN d : d[i] # 0}))
WithSign(neg, d) == [neg |-> neg /\ d # <<0>>, data |-> d]
Number(neg, d) == WithSign(neg, Trimmed(d))
Nat2Big(d) == [neg |-> FALSE, data |-> d]

RECURSIVE LimbsOf(_)
LimbsOf(v) == IF v = 0 THEN <<>> ELSE <<v % Base>> \o LimbsOf(v \div Base)
FromInt64(v) == IF v = 0 THEN Zero ELSE [neg |-> v < 0, data |-> LimbsOf(IF v < 0 THEN -v ELSE v)]

IsZero(a) == a.data = <<0>>
Abs(a) == [a EXCEPT !.neg = FALSE]
Negated(a) == IF IsZero(a) THEN a ELSE [a EXCEPT !.neg = ~@]
Minused(a, neg) == IF neg THEN Negated(a) ELSE a

AbsLess(a, b) ==
  \/ Len(a) < Len(b)
  \/ /\ Len(a) = Len(b)
     /\ \E i \in DOMAIN a : a[i] < b[i] /\ \A j \in i+1..Len(a) : a[j] = b[j]
Less(a, b) == IF a.neg # b.neg THEN a.neg
              ELSE IF a.neg THEN AbsLess(b.data, a.data) ELSE AbsLess(a.data, b.data)

AbsAdd(a, b) ==
  Carried(Pass([i \in 1..Bigger(Len(a), Len(b)) |-> Limb(a, i) + Limb(b, i)]))
AbsSub(a, b) == Trimmed(Pass([i \in DOMAIN a |-> a[i] - Limb(b, i)]).data)

\* The one of the larger magnitude comes first.
Ordered(a, b) == IF AbsLess(a.data, b.data) THEN <<b, a>> ELSE <<a, b>>
Apart(p) == WithSign(p[1].neg, AbsSub(p[1].data, p[2].data))
Plus(a, b) == IF a.neg = b.neg THEN WithSign(a.neg, AbsAdd(a.data, b.data)) ELSE Apart(Ordered(a, b))
Minus(a, b) == Plus(a, Negated(b))

MulSmall(a, v) ==
  IF v = 0 THEN Zero
  ELSE [a EXCEPT !.data = Carried(Pass([i \in DOMAIN @ |-> @[i] * v]))]

\* Schoolbook division by one limb, from the highest limb down.
RECURSIVE DivFrom(_, _, _)
DivFrom(acc, d, v) ==
  LET cur == acc.rem * Base + Last(d)
  IN  IF d = <<>> THEN acc
      ELSE DivFrom([data |-> <<cur \div v>> \o acc.data, rem |-> cur % v], Front(d), v)
DivSmall(d, v) == DivFrom([data |-> <<>>, rem |-> 0], d, v)
Quotient(a, v) == Number(a.neg, DivSmall(a.data, v).data)

ShiftLimbs(a, n) == IF IsZero(a) THEN a ELSE [a EXCEPT !.data = Zeros(n) \o @]
DropLimbs(a, n) == IF n >= Len(a.data) THEN Zero
                   ELSE [a EXCEPT !.data = SubSeq(@, n + 1, Len(@))]
\* Shifts by fewer bits than a limb has, as the division's scaling does.
ShiftBits(a, s) == IF s = 0 THEN a ELSE MulSmall(a, 2 ^ s)
DropBits(a, s) == IF s = 0 THEN a ELSE Quotient(a, 2 ^ s)

(***************************************************************************)
(* Multiplication.                                                          *)
(***************************************************************************)
\* Row i of the schoolbook product takes its place in the result.
Placed(res, i, row) ==
  LET top == i + Len(row.data)
  IN  SubSeq(res, 1, i - 1) \o row.data
        \o <<(res[top] + row.carry) % Base>> \o SubSeq(res, top + 1, Len(res))
RECURSIVE Rows(_, _, _, _)
Rows(res, a, b, i) ==
  IF i > Len(a) THEN res
  ELSE Rows(Placed(res, i, Pass([j \in DOMAIN b |-> a[i] * b[j] + res[i + j - 1]])), a, b, i + 1)
MulBase(a, b) == Trimmed(Rows(Zeros(Len(a) + Len(b)), a, b, 1))

\* The part of a that starts above limb `start`, of at most n limbs.
Slice(d, start, n) == IF start >= Len(d) THEN <<0>>
                      ELSE Trimmed(SubSeq(d, start + 1, IF start + n < Len(d) THEN start + n ELSE Len(d)))

Middle(z0, z1, z2) == AbsSub(AbsSub(z1, z2), z0)
Shifted(d, n) == ShiftLimbs(Nat2Big(d), n).data
Joined(z0, z1, z2, half) ==
  Trimmed(AbsAdd(AbsAdd(z0, Shifted(Middle(z0, z1, z2), half)), Shifted(z2, 2 * half)))
Halves(d, half) == <<Slice(d, 0, half), Slice(d, half, Len(d))>>

RECURSIVE Karatsuba(_, _)
\* Three products of halves instead of four.
ByHalves(a, b, half) ==
  Joined(Karatsuba(a[1], b[1]),
         Karatsuba(AbsAdd(a[1], a[2]), AbsAdd(b[1], b[2])),
         Karatsuba(a[2], b[2]), half)
OfTrimmed(a, b) ==
  LET half == Bigger(Len(a), Len(b)) \div 2
  IN  IF <<0>> \in {a, b} THEN <<0>>
      ELSE IF Len(a) < KaratsubaMin \/ Len(b) < KaratsubaMin THEN MulBase(a, b)
      ELSE ByHalves(Halves(a, half), Halves(b, half), half)
Karatsuba(x, y) == OfTrimmed(Trimmed(x), Trimmed(y))

\* The transform works in the integers modulo a prime: powers of a root,
\* inverses, and the in-place butterflies after the bit-reversal permutation.
RECURSIVE PowMod(_, _, _)
PowMod(g, e, p) == IF e = 0 THEN 1 ELSE (g * PowMod(g, e - 1, p)) % p
InvMod(x, p) == CHOOSE y \in 0..p - 1 : (x * y) % p = 1

RECURSIVE Reversed(_, _)
Reversed(k, n) == IF n = 1 THEN 0 ELSE (k % 2) * (n \div 2) + Reversed(k \div 2, n \div 2)

RECURSIVE Butterflies(_, _, _, _)
Butterflies(f, len, w, p) ==
  IF len > Len(f) THEN f
  ELSE LET half == len \div 2
           wlen == PowMod(w, (p - 1) \div len, p)
           Cross(k) == LET j == (k - 1) % len
                       IN  IF j < half THEN f[k] + f[k + half] * PowMod(wlen, j, p)
                           ELSE f[k - half] - f[k] * PowMod(wlen, j - half, p)
       IN  Butterflies(Limbs([k \in DOMAIN f |-> Cross(k) % p]), 2 * len, w, p)

\* The inverse transform uses the inverse root and divides by the length.
Divided(f, invert, p) ==
  IF invert THEN Limbs([k \in DOMAIN f |-> (f[k] * InvMod(Len(f), p)) % p]) ELSE f
Ntt(f, invert, p, g) ==
  Divided(Butterflies(Limbs([k \in DOMAIN f |-> f[Reversed(k - 1, Len(f)) + 1]]), 2,
                      IF invert THEN InvMod(g, p) ELSE g, p), invert, p)

\* The convolution of the limbs modulo one prime, the limb that belongs to
\* the three remainders r by the Chinese remainder theorem, and the carries.
Convolved(f, p, g) == Ntt(Limbs([k \in DOMAIN f[1] |-> (f[1][k] * f[2][k]) % p]), TRUE, p, g)
Transformed(a, b, n, p, g) ==
  Limbs([i \in 1..2 |-> Ntt(Limbs([k \in 1..n |-> Limb(<<a, b>>[i], k) % p]), FALSE, p, g)])
Twofold(r, p) == r[1] + (((r[2] + p[2] - (r[1] % p[2])) * InvMod(p[1] % p[2], p[2])) % p[2]) * p[1]
Threefold(x12, r, p) ==
  (((r[3] + p[3] - (x12 % p[3])) * InvMod((p[1] * p[2]) % p[3], p[3])) % p[3]) * p[1] * p[2] + x12
Remainders(a, b, n) ==
  Limbs([i \in 1..3 |->
           Convolved(Transformed(a, b, n, Primes[i][1], Primes[i][2]), Primes[i][1], Primes[i][2])])
Recombined(r, p, n) ==
  LET Each(k) == <<r[1][k], r[2][k], r[3][k]>>
  IN  Pass([k \in 1..n |-> Threefold(Twofold(Each(k), p), Each(k), p)])
WithCarry(product) == Trimmed(product.data \o LimbsOf(product.carry))
MulNtt(a, b) ==
  LET n == CHOOSE q \in {2 ^ e : e \in 0..8} :
             q >= Len(a) + Len(b) /\ (q = 1 \/ q \div 2 < Len(a) + Len(b))
  IN  WithCarry(Recombined(Remainders(a, b, n), [i \in 1..3 |-> Primes[i][1]], n))

RECURSIVE Times(_, _)
\* Toom-Cook: three slices, five products (at 0, 1, -1, 2 and infinity), and
\* the exact divisions by two and by three that give the coefficients back.
Thirds(d, k) == Limbs([i \in 1..3 |-> Nat2Big(Slice(d, (i - 1) * k, k))])
Scaled(a, x) == Minused(MulSmall(a, IF x < 0 THEN -x ELSE x), x < 0)
At(d, x) == Plus(d[1], Plus(Scaled(d[2], x), MulSmall(d[3], x * x)))
BothAt(a, b, x) == Limbs([i \in 1..2 |-> At(<<a, b>>[i], x)])
ProductOf(p) == Times(p[1], p[2])
Products(a, b) == Limbs([i \in 1..3 |-> ProductOf(BothAt(a, b, <<1, -1, 2>>[i]))])
RECURSIVE Summed(_, _)
Summed(sum, terms) == IF terms = <<>> THEN sum ELSE Summed(Plus(sum, Head(terms)), Tail(terms))
Square(r0, w, r4) == Summed(Quotient(Plus(w[1], w[2]), 2), <<Negated(r0), Negated(r4)>>)
Odd(w) == Quotient(Minus(w[1], w[2]), 2)
Cube(r0, w, r4, r2, t2) ==
  Quotient(Minus(Quotient(Summed(w[3], <<Negated(r0), Scaled(r2, -4), Scaled(r4, -16)>>), 2), t2), 3)
Laid(r0, r4, r2, t2, r3, k) ==
  Summed(r0, Limbs([i \in 1..4 |-> ShiftLimbs(<<Minus(t2, r3), r2, r3, r4>>[i], i * k)])).data
FromSquare(r0, w, r4, r2, t2, k) == Laid(r0, r4, r2, t2, Cube(r0, w, r4, r2, t2), k)
Interpolated(r0, w, r4, k) == FromSquare(r0, w, r4, Square(r0, w, r4), Odd(w), k)
ByThirds(a, b, k) == Interpolated(Times(a[1], b[1]), Products(a, b), Times(a[3], b[3]), k)
\* Operands that are too short for it have been sorted out by operator*.
Toom3(a, b) ==
  LET k == (Bigger(Len(a), Len(b)) + 2) \div 3
  IN  ByThirds(Thirds(a, k), Thirds(b, k), k)

\* operator*: the algorithm is chosen by the lengths of both operands.
Times(a, b) ==
  LET Both(n) == Len(a.data) >= n /\ Len(b.data) >= n
  IN  Number(a.neg # b.neg,
             CASE Both(NttMin)                     -> MulNtt(a.data, b.data)
               [] ~Both(NttMin) /\ Both(ToomMin)   -> Toom3(a.data, b.data)
               [] OTHER                            -> Karatsuba(a.data, b.data))

(***************************************************************************)
(* Division, truncated towards zero: Knuth's algorithm D, and the division  *)
(* by blocks through Newton's inverse for long divisors.                    *)
(***************************************************************************)
RECURSIVE Corrected(_, _, _, _, _)
Corrected(q, r, v1, v2, u2) ==
  IF q = Base \/ q * v2 > r * Base + u2
  THEN IF r + v1 >= Base THEN q - 1 ELSE Corrected(q - 1, r + v1, v1, v2, u2)
  ELSE q
\* The digit q_hat estimated from two limbs of u and one of v, and corrected
\* by the next ones.
Estimate(u, v, j) ==
  LET m == Len(v)  top == u[j + m + 1] * Base + u[j + m]
  IN  Corrected(top \div v[m], top % v[m], v[m], v[m - 1], u[j + m - 1])

\* The window of u that q times v has been taken from.
Taken(u, v, j, q) == Pass([i \in 1..Len(v) + 1 |-> u[j + i] - q * Limb(v, i)])
Replaced(u, v, j, q, part) ==
  [digit |-> q, u |-> SubSeq(u, 1, j) \o part \o SubSeq(u, j + Len(v) + 2, Len(u))]
\* The divisor is added back when the subtraction borrowed.
AddedBack(u, v, j, q, sub) ==
  IF sub.carry < 0
  THEN Replaced(u, v, j, q - 1, Pass([i \in DOMAIN sub.data |-> sub.data[i] + Limb(v, i)]).data)
  ELSE Replaced(u, v, j, q, sub.data)
\* Mutant of WithDigit: a digit one too large is not taken back.
WithDigitKept(u, v, j, q) == Replaced(u, v, j, q, Taken(u, v, j, q).data)
WithDigit(u, v, j, q) == AddedBack(u, v, j, q, Taken(u, v, j, q))
\* One digit of the quotient: u[j..j+m] minus digit * v.
Digit(u, v, j) == WithDigit(u, v, j, Estimate(u, v, j))

\* The answer of a division whose dividend is the smaller one, and the
\* signs of the others: the quotient's by both, the remainder's by a.
Signed(a, b, q, r) == <<Number(a.neg # b.neg, q), Number(a.neg, r)>>

\* The lower n digits of u by v below the digits q; what is left of u is
\* the remainder, still scaled.
RECURSIVE DigitByDigit(_, _, _, _)
Below(q, s, v, n) == DigitByDigit(<<s.digit>> \o q, s.u, v, n)
DigitByDigit(q, u, v, n) ==
  IF n = 0 THEN [q |-> q, u |-> u] ELSE Below(q, Digit(u, v, n - 1), v, n - 1)
Extended(u, n) == Limbs([i \in 1..n |-> Limb(u, i)])
Unscaled(a, b, end, d) == Signed(a, b, end.q, DivSmall(SubSeq(end.u, 1, Len(b.data)), d).data)
ScaledBy(a, b, d) ==
  Unscaled(a, b, DigitByDigit(<<>>, Extended(MulSmall(a, d).data, Len(a.data) + 1), MulSmall(b, d).data,
                              Len(a.data) - Len(b.data) + 1), d)
OneLimb(a, b, s) == Signed(a, b, s.data, <<s.rem>>)
DivKnuth(a, b) ==
  LET m == Len(b.data)
  IN  IF AbsLess(a.data, b.data) THEN <<Zero, a>>
      ELSE IF m = 1 THEN OneLimb(a, b, DivSmall(a.data, b.data[1]))
      ELSE ScaledBy(a, b, Base \div (b.data[m] + 1))

One == FromInt64(1)
Power(n) == Nat2Big(Zeros(n) \o <<1>>)

\* The estimate z is moved by ones until zb = z * b is the largest multiple
\* of b up to `to`.
RECURSIVE Adjusted(_, _, _, _)
Moved(z, zb, b, to, down) == Adjusted(Plus(z, Minused(One, down)), Plus(zb, Minused(b, down)), b, to)
Adjusted(z, zb, b, to) ==
  IF Less(to, zb) \/ ~Less(to, Plus(zb, b)) THEN Moved(z, zb, b, to, Less(to, zb)) ELSE <<z, zb>>

\* floor(Base^2n / b), from the inverse of the upper half of b.
RECURSIVE Invert(_)
Newton(b, n, k, z1) ==
  Plus(ShiftLimbs(z1, n - k),
       DropLimbs(Times(z1, Minus(Power(n + k), Times(z1, b))), 2 * k))
Finished(z, b, n) == Adjusted(z, Times(z, b), b, Power(2 * n))[1]
Invert(b) ==
  LET n == Len(b.data)  k == (n - 1) \div 2 + 1
  IN  IF n <= KnuthMax THEN DivKnuth(Power(2 * n), b)[1]
      ELSE Finished(Newton(b, n, k, Invert(DropLimbs(b, n - k))), b, n)

\* Barrett reduction by blocks: while the remainder r is not below b, the
\* quotient grows by an estimate made from the inverse z.  An estimate from
\* the top 2n limbs only is lowered by two, to stay below the true digit.
RECURSIVE Reduced(_, _, _, _)
Remaining(r, z) == <<z[1], Minus(r, z[2])>>
Lowered(qc) == IF Less(FromInt64(2), qc) THEN Minus(qc, FromInt64(2)) ELSE One
Grown(q, part, b, z) == Reduced(Plus(q, part[1]), part[2], b, z)
\* The digit qc for the part of the remainder s limbs up, or for all of it.
Block(r, b, s, qc, prod) ==
  IF s > 0 THEN <<ShiftLimbs(qc, s), Minus(r, ShiftLimbs(prod, s))>> ELSE Remaining(r, Adjusted(qc, prod, b, r))
ByDigit(r, b, s, qc) == Block(r, b, s, qc, Times(qc, b))
Guess(r, n, s, z) == DropLimbs(Times(DropLimbs(r, s), z), 2 * n)
Reduced(q, r, b, z) ==
  LET n == Len(b.data)  s == Bigger(Len(r.data) - 2 * n, 0)
      Part(qc) == IF s > 0 THEN Lowered(qc) ELSE qc
  IN  IF Less(r, b) THEN <<q, r>>
      ELSE Grown(q, ByDigit(r, b, s, Part(Guess(r, n, s, z))), b, z)

\* The bits by which the divisor is moved up for its top bit to be set.
Scale(b) == CHOOSE s \in 0..LimbBits - 1 :
              b.data[Len(b.data)] * 2 ^ s \in Base \div 2..Base - 1

\* <<quotient, remainder>> of a by a nonzero b.
Rescaled(a, b, s, qr) == Signed(a, b, qr[1].data, DropBits(qr[2], s).data)
ByInverse(a, b, s, B) == Rescaled(a, b, s, Reduced(Zero, ShiftBits(Abs(a), s), B, Invert(B)))
DivMod(a, b) ==
  IF AbsLess(a.data, b.data) \/ Len(b.data) <= KnuthMax THEN DivKnuth(a, b)
  ELSE ByInverse(a, b, Scale(b), ShiftBits(Abs(b), Scale(b)))
Quo(a, b) == DivMod(a, b)[1]
Rem(a, b) == DivMod(a, b)[2]

(***************************************************************************)
(* Number theory.                                                           *)
(***************************************************************************)
RECURSIVE GcdInt(_, _)
GcdInt(x, y) == IF y = 0 THEN x ELSE GcdInt(y, x % y)

RECURSIVE GcdAbs(_, _)
GcdAbs(a, b) ==
  IF IsZero(b) THEN a
  ELSE IF Len(b.data) = 1
  THEN FromInt64(GcdInt(b.data[1], DivSmall(a.data, b.data[1]).rem))
  ELSE GcdAbs(b, Rem(a, b))
Gcd(a, b) == GcdAbs(Abs(a), Abs(b))
Lcm(a, b) == IF IsZero(a) \/ IsZero(b) THEN Zero ELSE Times(Quo(Abs(a), Gcd(a, b)), Abs(b))

RECURSIVE PowFrom(_, _, _)
PowFrom(result, base, e) ==
  IF e = 0 THEN result
  ELSE PowFrom(IF e % 2 = 1 THEN Times(result, base) ELSE result, Times(base, base), e \div 2)
Pow(a, e) == PowFrom(One, a, e)

RECURSIVE FactorialRange(_, _)
FactorialRange(left, right) ==
  LET mid == left + (right - left) \div 2
  IN  IF left > right THEN One
      ELSE IF left = right THEN FromInt64(left)
      ELSE Times(FactorialRange(left, mid), FactorialRange(mid + 1, right))
Factorial(n) == FactorialRange(2, n)

\* Fast doubling: F(2k) and F(2k+1) from F(k) and F(k+1), by the bits of n.
RECURSIVE FibPair(_)
Advanced(odd, c, d) == IF odd THEN <<d, Plus(c, d)>> ELSE <<c, d>>
Doubled(odd, p) == Advanced(odd, Times(p[1], Minus(Times(p[2], FromInt64(2)), p[1])),
                            Plus(Times(p[1], p[1]), Times(p[2], p[2])))
FibPair(n) == IF n = 0 THEN <<Zero, One>> ELSE Doubled(n % 2 = 1, FibPair(n \div 2))
Fibonacci(n) == FibPair(n)[1]

FromZero(r, m) == IF r.neg THEN Plus(r, Abs(m)) ELSE r
MathMod(a, m) == FromZero(Rem(a, m), m)

\* modPow reads the magnitude of the exponent only.
RECURSIVE ModPowFrom(_, _, _, _)
ModPowFrom(result, base, e, m) ==
  LET rest == Quotient(e, 2)
      next == IF e.data[1] % 2 = 1 THEN MathMod(Times(result, base), m) ELSE result
  IN  IF IsZero(e) THEN result
      ELSE ModPowFrom(next, IF IsZero(rest) THEN base ELSE MathMod(Times(base, base), m), rest, m)
ModPow(b, e, m) == IF m = One THEN Zero ELSE ModPowFrom(One, MathMod(b, m), Abs(e), m)

(***************************************************************************)
(* Decimal output and input.  <<>> stands for the exception that leaves     *)
(* toString when a chunk does not fit its ChunkDigits places.               *)
(***************************************************************************)
RECURSIVE Digits(_)
Digits(n) == IF n < 10 THEN <<n>> ELSE Append(Digits(n \div 10), n % 10)
Padded(n, width) == IF Len(Digits(n)) > width THEN <<>>
                    ELSE Zeros(width - Len(Digits(n))) \o Digits(n)

\* powers[i] = 10^(ChunkDigits * 2^(i-1)), up to the first that is not below a.
RECURSIVE PowersFrom(_, _)
PowersFrom(powers, a) ==
  LET top == powers[Len(powers)]
  IN  IF Less(top, a) THEN PowersFrom(Append(powers, Times(top, top)), a) ELSE powers

RECURSIVE Printed(_, _, _)
Together(high, low) == IF <<>> \in {high, low} THEN <<>> ELSE high \o low
PrintedHalves(qr, powers, i) ==
  LET Half(x) == IF IsZero(x) THEN Zeros(ChunkDigits * 2 ^ (i - 1)) ELSE Printed(x, powers, i - 1)
  IN  Together(Half(qr[1]), Half(qr[2]))
Printed(a, powers, i) ==
  IF i = 0 THEN Padded(a.data[1], ChunkDigits) ELSE PrintedHalves(DivMod(a, powers[i]), powers, i)

Unpadded(digits) == SubSeq(digits, CHOOSE i \in DOMAIN digits :
                             /\ digits[i] # 0 \/ i = Len(digits)
                             /\ \A j \in 1..i - 1 : digits[j] = 0, Len(digits))

\* Up to two limbs are printed chunk by chunk, longer numbers by halves.
RECURSIVE PrintedSmall(_)
PrintedSmall(a) ==
  LET s == DivSmall(a.data, 10 ^ ChunkDigits)  q == Number(FALSE, s.data)
  IN  IF IsZero(q) THEN Digits(s.rem)
      ELSE PrintedSmall(q) \o Padded(s.rem, ChunkDigits)
Whole(digits) == IF digits = <<>> THEN <<>> ELSE Unpadded(digits)
PrintedBy(a, powers) == Whole(Printed(a, powers, Len(powers) - 1))
BigToString(a) ==
  IF Len(a.data) <= 2 THEN PrintedSmall(Abs(a))
  ELSE PrintedBy(Abs(a), PowersFrom(<<FromInt64(10 ^ ChunkDigits)>>, Abs(a)))

RECURSIVE Natural(_)
Natural(digits) == IF digits = <<>> THEN 0 ELSE 10 * Natural(Front(digits)) + Last(digits)
RECURSIVE Parsed(_)
Parsed(digits) ==
  LET mid == Len(digits) \div 2
      Tail2(n) == SubSeq(digits, n + 1, Len(digits))
  IN  IF Len(digits) <= ChunkDigits
      THEN FromInt64(Natural(digits))
      ELSE Plus(Times(Parsed(SubSeq(digits, 1, mid)), Pow(FromInt64(10), Len(digits) - mid)),
                Parsed(Tail2(mid)))

(***************************************************************************)
(* Conversion to a machine integer of two limbs: <<value>>, or <<>> for the *)
(* overflow exception.  The test that lets the minimum through compares     *)
(* after the shift by a limb has lost the third one.                        *)
(***************************************************************************)
Int64Max == Base ^ 2 \div 2 - 1
ToInt64(a) ==
  LET low == Limb(a.data, 2) * Base + a.data[1]  high == Limb(a.data, 3)
  IN  CASE Len(a.data) <= 2 /\ low <= Int64Max -> <<IF a.neg THEN -low ELSE low>>
        [] Len(a.data) <= 3 /\ a.neg /\ low = Int64Max + 1 /\ high < Base \div 2 -> <<-low>>
        [] OTHER -> <<>>
=============================================================================
