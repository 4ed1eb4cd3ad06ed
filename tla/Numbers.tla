------------------------------- MODULE Numbers -------------------------------
(***************************************************************************)
(* The exact numbers of the language: the tower of machine integers, big    *)
(* integers and fractions behind Value, and the operations that move a      *)
(* value between its three representations.  There are two registers: an    *)
(* opcode or builtin of one argument changes `value`, one of two arguments  *)
(* also consumes `operand`.  Each goes first through the machine-integer    *)
(* path of VM.cpp and Value.h and then through BigInt.h and Fraction.h,     *)
(* whose algorithms are the module BigInt.                                  *)
(*                                                                         *)
(* Widths keep their proportions: a machine integer has the width of one    *)
(* limb and an int64_t that of two.  The lengths at which BigInt changes    *)
(* its algorithms are constants of the program; here they are chosen in the *)
(* initial state from Limits, so that one run takes every algorithm.        *)
(* Operations that leave floating point, symbols or matrices are left out.  *)
(***************************************************************************)
EXTENDS Integers, Sequences

CONSTANTS LimbBits, ChunkDigits, Primes, Limits,
          Operands,    \* the numbers that are read: <<numerator, denominator>>, in lowest terms
          Exponents, Shifts, Sizes, Moduli,
          MaxLimbs,    \* no operation that may give more limbs than this
          MaxSteps     \* operations

VARIABLES limits,  \* the lengths that choose the algorithms
          op,      \* the last operation and what it was given
          value,   \* a machine integer, a big integer or a fraction
          operand, \* another one, or None
          answer,  \* what the last operation said
          steps

vars == <<limits, op, value, operand, answer, steps>>

None == [kind |-> "none"]

INSTANCE BigInt WITH KaratsubaMin <- limits.karatsuba, ToomMin <- limits.toom,
                     NttMin <- limits.ntt, KnuthMax <- limits.knuth

IntMin == -(Base \div 2)
IntMax == Base \div 2 - 1
Int32(n) == [kind |-> "int", int |-> n]
IsInt(v) == v.kind = "int"
IsFraction(v) == v.kind = "frac"

\* Value(BigInt): what fits a machine integer becomes one again.
FromBig(a) ==
  LET v == ToInt64(a)
  IN  IF v # <<>> /\ v[1] \in IntMin..IntMax THEN Int32(v[1]) ELSE [kind |-> "big", big |-> a]
FromInt(n) == IF n \in IntMin..IntMax THEN Int32(n) ELSE FromBig(FromInt64(n))
AsBig(v) == IF IsInt(v) THEN FromInt64(v.int) ELSE v.big

(***************************************************************************)
(* Fractions.                                                               *)
(***************************************************************************)
\* The sign is the numerator's.
Positive(n, d) == IF d.neg THEN [num |-> Negated(n), den |-> Negated(d)] ELSE [num |-> n, den |-> d]
\* A pair of integers without the common divisor c.
Without(p, c) == IF Less(One, c) THEN Limbs([i \in 1..2 |-> Quo(p[i], c)]) ELSE p
Cancel(p) == Without(p, Gcd(p[1], p[2]))
OfPair(p) == Positive(p[1], p[2])
Fraction(n, d) == IF IsZero(n) THEN [num |-> n, den |-> One] ELSE OfPair(Cancel(<<n, d>>))
AsFraction(v) == IF IsFraction(v) THEN v.frac ELSE [num |-> AsBig(v), den |-> One]
FromFraction(f) == IF f.den = One THEN FromBig(f.num) ELSE [kind |-> "frac", frac |-> f]

\* The numerators over the least common denominator l, and their sum or
\* difference over it.
Over(f, g, l) == Limbs([i \in 1..2 |-> Times(<<f, g>>[i].num, Quo(l, <<f, g>>[i].den))])
Combined(n, l, less) == Fraction(Plus(n[1], Minused(n[2], less)), l)
OverCommon(f, g, l, less) == Combined(Over(f, g, l), l, less)
FracPlus(f, g) == OverCommon(f, g, Lcm(f.den, g.den), FALSE)
FracMinus(f, g) == OverCommon(f, g, Lcm(f.den, g.den), TRUE)
\* Mutant of FracTimes: the factors are not cancelled crosswise.
FracTimesUncancelled(f, g) == Positive(Times(f.num, g.num), Times(f.den, g.den))
\* Cancelled crosswise first, so that the product needs no reduction.
Crosswise(p) == Positive(Times(p[1][1], p[2][1]), Times(p[2][2], p[1][2]))
FracTimes(f, g) ==
  Crosswise(Limbs([i \in 1..2 |-> Cancel(<<<<f.num, g.den>>, <<g.num, f.den>>>>[i])]))
FracQuo(f, g) == FracTimes(f, [num |-> g.den, den |-> g.num])
FracRem(f, g) == Fraction(Rem(Times(f.num, g.den), Times(f.den, g.num)), Times(f.den, g.den))
FracPow(f, e) == OfPair(Limbs([i \in 1..2 |-> Pow(<<f.num, f.den>>[i], e)]))

(***************************************************************************)
(* The operators of Value: machine integers, big integers, fractions.       *)
(***************************************************************************)
\* The result that belongs to the kinds of both arguments.
Tower(v, w, ofInts, ofBigs, ofFractions) ==
  IF IsInt(v) /\ IsInt(w) THEN ofInts
  ELSE IF IsFraction(v) \/ IsFraction(w) THEN FromFraction(ofFractions) ELSE ofBigs

IsNought(v) == v = Int32(0)
\* Truncated as the machine divides.
MachineQuo(m, n) == LET q == (IF m < 0 THEN -m ELSE m) \div (IF n < 0 THEN -n ELSE n)
                    IN  IF (m < 0) = (n < 0) THEN q ELSE -q
MachineRem(m, n) == m - n * MachineQuo(m, n)
Sum(v, w) == Tower(v, w, FromInt(v.int + w.int), FromBig(Plus(AsBig(v), AsBig(w))),
                   FracPlus(AsFraction(v), AsFraction(w)))
Difference(v, w) == Tower(v, w, FromInt(v.int - w.int), FromBig(Minus(AsBig(v), AsBig(w))),
                          FracMinus(AsFraction(v), AsFraction(w)))
Product(v, w) == Tower(v, w, FromInt(v.int * w.int), FromBig(Times(AsBig(v), AsBig(w))),
                       FracTimes(AsFraction(v), AsFraction(w)))
Lowest(a, b) == [kind |-> "frac", frac |-> Fraction(a, b)]
Exactly(a, b, qr) == IF IsZero(qr[2]) THEN FromBig(qr[1]) ELSE Lowest(a, b)
Division(v, w) ==
  IF IsInt(v) /\ IsInt(w)
  THEN <<FromInt64(MachineQuo(v.int, w.int)), FromInt64(MachineRem(v.int, w.int))>>
  ELSE DivMod(AsBig(v), AsBig(w))
Ratio(v, w) ==
  IF IsFraction(v) \/ IsFraction(w) THEN FromFraction(FracQuo(AsFraction(v), AsFraction(w)))
  ELSE Exactly(AsBig(v), AsBig(w), Division(v, w))
\* Of integers.
IntQuotient(v, w) == IF IsInt(v) /\ IsInt(w) THEN FromInt(MachineQuo(v.int, w.int))
                     ELSE FromBig(Quo(AsBig(v), AsBig(w)))
Modulus(v, w) == Tower(v, w, FromInt(MachineRem(v.int, w.int)), FromBig(Rem(AsBig(v), AsBig(w))),
                       FracRem(AsFraction(v), AsFraction(w)))
Raised(v, e) ==
  LET f == AsFraction(v)
  IN  IF e >= 0 /\ ~IsFraction(v) THEN FromBig(Pow(AsBig(v), e))
      ELSE FromFraction(IF e < 0 THEN FracPow(Fraction(f.den, f.num), -e) ELSE FracPow(f, e))
LessValue(v, w) ==
  LET f == AsFraction(v)  g == AsFraction(w)
  IN  IF IsFraction(v) \/ IsFraction(w) THEN Less(Times(f.num, g.den), Times(g.num, f.den))
      ELSE Less(AsBig(v), AsBig(w))

(***************************************************************************)
(* The operations.                                                          *)
(***************************************************************************)
Parts(v) == IF IsFraction(v) THEN <<v.frac.num, v.frac.den>> ELSE <<AsBig(v), One>>
Length(v) == Len(Parts(v)[1].data)
\* Sums and products stay short, and so do the numerators and denominators
\* of fractions, which are multiplied before they are reduced.
Roomy(v, w) ==
  Length(v) + Length(w)
    + (IF IsFraction(v) \/ IsFraction(w) THEN Len(Parts(v)[2].data) + Len(Parts(w)[2].data) ELSE 0)
      <= MaxLimbs
\* Quotients of integers are no longer than the dividend.
RoomyQuotient(v, w) == IsFraction(v) \/ IsFraction(w) => Roomy(v, w)

\* A literal; the minus before it is an operator.
Literal(n) == FromBig(Minused(Parsed(Digits(IF n < 0 THEN -n ELSE n)), n < 0))
\* The number of a pair: a literal, or the quotient of two.
Quoted(v, d) == IF d = 1 THEN v[1] ELSE Lowest(AsBig(v[1]), AsBig(v[2]))
Read(w) == Quoted(Limbs([i \in 1..2 |-> Literal(w[i])]), w[2])

Steps(name, given) == /\ steps < MaxSteps /\ steps' = steps + 1
                      /\ op' = <<name, given>> /\ UNCHANGED limits
Unary(name, given) == Steps(name, given) /\ operand = None /\ UNCHANGED operand
Binary(name) == Steps(name, 0) /\ operand # None /\ operand' = None
Becomes(v) == value' = v /\ answer' = <<"done">>
Says(a) == value' = value /\ answer' = a

Init == /\ limits \in Limits
        /\ \E w \in Operands : value = Read(w)
        /\ op = <<"read", 0>> /\ answer = <<"done">>
        /\ operand = None /\ steps = 0

\* The other register gets its number.
Load(w) == /\ operand = None /\ operand' = Read(w) /\ steps < MaxSteps
           /\ op' = <<"load", 0>> /\ answer' = <<"done">> /\ UNCHANGED <<limits, value, steps>>

Add == Binary("add") /\ Roomy(value, operand) /\ Becomes(Sum(value, operand))
Subtract == Binary("subtract") /\ Roomy(value, operand) /\ Becomes(Difference(value, operand))
Multiply == Binary("multiply") /\ Roomy(value, operand) /\ Becomes(Product(value, operand))
\* `num % den` is evaluated before the test for the minimum divided by -1:
\* undefined, and a trap of the processor in the builds that divide.
Divide ==
  /\ Binary("divide") /\ RoomyQuotient(value, operand)
  /\ IF IsNought(operand) THEN Says(<<"error">>)
     ELSE \/ Becomes(Ratio(value, operand))
          \/ value = Int32(IntMin) /\ operand = Int32(-1) /\ Says(<<"trap">>)
IntDivide ==
  /\ Binary("int divide") /\ ~IsFraction(value) /\ ~IsFraction(operand)
  /\ IF IsNought(operand) THEN Says(<<"error">>) ELSE Becomes(IntQuotient(value, operand))
Remainder ==
  /\ Binary("remainder") /\ RoomyQuotient(value, operand)
  /\ IF IsNought(operand) THEN Says(<<"error">>) ELSE Becomes(Modulus(value, operand))
Negate ==
  /\ Unary("negate", 0)
  /\ Becomes(CASE IsInt(value)      -> FromInt(-value.int)
               [] IsFraction(value) -> FromFraction(Fraction(Negated(value.frac.num), value.frac.den))
               [] OTHER             -> FromBig(Negated(value.big)))
Raise(e) ==
  /\ Unary("raise", e) /\ LET k == IF e < 0 THEN -e ELSE e IN \A i \in 1..2 : k * Len(Parts(value)[i].data) <= MaxLimbs
  /\ IF e < 0 /\ IsNought(value) THEN Says(<<"error">>) ELSE Becomes(Raised(value, e))
\* The machine shifts what stays within its width; otherwise the shift is a
\* product or a quotient by a power of two, the quotient rounded down.
ShiftLeft(s) ==
  /\ Unary("shift left", s) /\ ~IsFraction(value) /\ Length(value) + s \div LimbBits < MaxLimbs
  /\ Becomes(IF IsInt(value) /\ s < LimbBits - 1 /\ value.int * 2 ^ s \in IntMin..IntMax
             THEN Int32(value.int * 2 ^ s)
             ELSE FromBig(Times(AsBig(value), Pow(FromInt64(2), s))))
Down(a, qr) == IF a.neg /\ ~IsZero(qr[2]) THEN Minus(qr[1], One) ELSE qr[1]
RoundedDown(a, d) == Down(a, DivMod(a, d))
ShiftRight(s) ==
  /\ Unary("shift right", s) /\ ~IsFraction(value)
  /\ Becomes(IF IsInt(value)
             THEN Int32(IF s < LimbBits - 1 THEN value.int \div 2 ^ s
                        ELSE IF value.int < 0 THEN -1 ELSE 0)
             ELSE FromBig(RoundedDown(AsBig(value), Pow(FromInt64(2), s))))
Compare ==
  /\ Binary("compare") /\ RoomyQuotient(value, operand)
  /\ Says(<<"order", IF LessValue(value, operand) THEN -1
                     ELSE IF value = operand THEN 0 ELSE 1>>)
Shown(neg, texts) == IF <<>> \in {texts[1], texts[2]} THEN <<"error">>
                     ELSE <<"text", neg, texts[1], texts[2]>>
Display ==
  LET p == Parts(value)
  IN  /\ Unary("display", 0)
      /\ Says(Shown(p[1].neg, [i \in 1..2 |-> BigToString(p[i])]))

Factorials(n) == Unary("factorial", n) /\ Becomes(FromBig(Factorial(n)))
Fibonaccis(n) == Unary("fibonacci", n) /\ Becomes(FromBig(Fibonacci(n)))
GreatestDivisor ==
  /\ Binary("gcd") /\ ~IsFraction(value) /\ ~IsFraction(operand)
  /\ Becomes(FromBig(Gcd(AsBig(value), AsBig(operand))))
LeastMultiple ==
  /\ Binary("lcm") /\ ~IsFraction(value) /\ ~IsFraction(operand) /\ Roomy(value, operand)
  /\ Becomes(FromBig(Lcm(AsBig(value), AsBig(operand))))
PowerMod(e, m) ==
  Unary("power mod", <<e, m>>) /\ ~IsFraction(value) /\ Becomes(FromBig(ModPow(AsBig(value), FromInt64(e), FromInt64(m))))

\* Miller-Rabin with the first twelve primes as bases (the further bases of
\* numbers above two limbs only add rounds).
RECURSIVE Halved(_), Squares(_, _, _)
Halved(a) == IF a.data[1] % 2 = 1 THEN <<a, 0>>
             ELSE LET h == Halved(Quotient(a, 2)) IN <<h[1], h[2] + 1>>
Squares(x, r, n) == IF r = 0 THEN {} ELSE {x} \cup Squares(Rem(Times(x, x), n), r - 1, n)
Reveals(x, r, n) == x # One /\ Minus(n, One) \notin Squares(x, r, n)
ByOdd(b, d, n) == Reveals(ModPow(b, d[1], n), d[2], n)
Witnessed(b, n) == ByOdd(b, Halved(Minus(n, One)), n)
IsPrime(n) ==
  LET Small(p) == FromInt64(p)
  IN  /\ ~Less(n, Small(2))
      /\ \/ n \in {Small(p) : p \in {2, 3, 5, 7}}
         \/ /\ n.data[1] % 2 = 1
            /\ \A p \in {2, 3, 5, 7, 11, 13, 17, 19, 23, 29, 31, 37} :
                 Less(Small(p), n) => ~Witnessed(Small(p), n)
Primality == /\ Unary("prime", 0) /\ ~IsFraction(value) /\ Length(value) <= 3
             /\ Says(<<"prime", IsPrime(Abs(AsBig(value)))>>)

Next ==
  \/ \E w \in Operands : Load(w)
  \/ Add \/ Subtract \/ Multiply \/ Divide \/ IntDivide \/ Remainder \/ Compare
  \/ GreatestDivisor \/ LeastMultiple \/ Negate \/ Display \/ Primality
  \/ \E e \in Exponents : Raise(e) \/ \E m \in Moduli : PowerMod(e, m)
  \/ \E s \in Shifts : ShiftLeft(s) \/ ShiftRight(s)
  \/ \E n \in Sizes : Factorials(n) \/ Fibonaccis(n)

Spec == Init /\ [][Next]_vars
-----------------------------------------------------------------------------
\* The integer a big integer stands for.
IntOf(a) == LET m == FoldRight(LAMBDA l, v : v * Base + l, a.data, 0) IN IF a.neg THEN -m ELSE m

(***************************************************************************)
(* The detailed machine implements exact arithmetic: read as a rational     *)
(* number, the register changes and answers as Arithmetic says, whatever    *)
(* representation and whatever algorithm the operation went through.        *)
(***************************************************************************)
Rational(v) == <<IntOf(Parts(v)[1]), IntOf(Parts(v)[2])>>
Exact == INSTANCE Arithmetic WITH
           number <- Rational(value),
           other <- IF operand = None THEN <<>> ELSE Rational(operand),
           Unprintable <- {n \in {10 ^ (ChunkDigits * 2 ^ k) : k \in 0..3} :
                             n >= Base ^ 2},
           Trap <- <<<<IntMin, 1>>, <<-1, 1>>>>
ExactArithmetic == Exact!Spec

(***************************************************************************)
(* Every number has one representation, the one that equality and hashing   *)
(* compare: the smallest of the three kinds that can hold it, no leading    *)
(* zero limbs, no negative zero, fractions in lowest terms with a positive  *)
(* denominator other than one.                                              *)
(***************************************************************************)
OneForm(a) == Trimmed(a.data) = a.data /\ (a.neg => ~IsZero(a))
CanonicalValue(v) ==
  CASE IsInt(v)      -> v.int \in IntMin..IntMax
    [] IsFraction(v) -> /\ OneForm(v.frac.num) /\ OneForm(v.frac.den)
                        /\ IntOf(v.frac.den) > 1
                        /\ Exact!GcdOf(IntOf(Abs(v.frac.num)), IntOf(v.frac.den)) = 1
    [] OTHER         -> OneForm(v.big) /\ IntOf(v.big) \notin IntMin..IntMax
Canonical == CanonicalValue(value) /\ (operand # None => CanonicalValue(operand))
=============================================================================
