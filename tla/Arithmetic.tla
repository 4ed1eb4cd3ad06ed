----------------------------- MODULE Arithmetic -----------------------------
(***************************************************************************)
(* What the exact numbers of the language promise: a register holding a     *)
(* rational number and a second one for the other operand, operations that  *)
(* change the first by the rules of arithmetic, and questions whose answers *)
(* are those of arithmetic.  Nothing is said of limbs, of machine integers  *)
(* or of where one representation ends.                                     *)
(*                                                                         *)
(* Two exceptions are part of the promise because the code makes them:      *)
(* printing raises an exception for the numbers of Unprintable, and one     *)
(* division, Trap, may stop the process.                                    *)
(***************************************************************************)
EXTENDS Integers, Sequences

CONSTANTS Operands,     \* the numbers the operations take: <<numerator, denominator>>
          Exponents, Shifts, Sizes, Moduli,
          Unprintable,  \* naturals that toString cannot print
          Trap          \* <<dividend, divisor>> whose division may stop the process

VARIABLES op,      \* the last operation and what it was given
          number,  \* <<numerator, denominator>> in lowest terms
          other,   \* another one, or <<>>
          answer   \* what that operation said: an order, a text, an error

RECURSIVE GcdOf(_, _)
GcdOf(m, n) == IF n = 0 THEN m ELSE GcdOf(n, m % n)
Magnitude(n) == IF n < 0 THEN -n ELSE n
Ratio(n, d) == LET g == GcdOf(Magnitude(n), Magnitude(d))
                   s == IF d < 0 THEN -1 ELSE 1
               IN  <<s * (n \div g), s * (d \div g)>>

N == number[1]
D == number[2]
P == other[1]
Q == other[2]
Integral(x) == x[2] = 1
Truncated(n, d) == IF (n < 0) = (d < 0) THEN Magnitude(n) \div Magnitude(d)
                   ELSE -(Magnitude(n) \div Magnitude(d))

Unary(name, given) == op' = <<name, given>> /\ other = <<>> /\ UNCHANGED other
Binary(name) == op' = <<name, 0>> /\ other # <<>> /\ other' = <<>>
Becomes(x) == number' = x /\ answer' = <<"done">>
Says(a) == number' = number /\ answer' = a

Load(w) == /\ other = <<>> /\ other' = w
           /\ op' = <<"load", 0>> /\ answer' = <<"done">> /\ UNCHANGED number
Add == Binary("add") /\ Becomes(Ratio(N * Q + P * D, D * Q))
Subtract == Binary("subtract") /\ Becomes(Ratio(N * Q - P * D, D * Q))
Multiply == Binary("multiply") /\ Becomes(Ratio(N * P, D * Q))
Divide ==
  /\ Binary("divide")
  /\ IF P = 0 THEN Says(<<"error">>)
     ELSE \/ Becomes(Ratio(N * Q, D * P))
          \/ <<number, other>> = Trap /\ Says(<<"trap">>)
IntDivide ==
  /\ Binary("int divide")
  /\ Integral(number) /\ Integral(other)
  /\ IF P = 0 THEN Says(<<"error">>) ELSE Becomes(<<Truncated(N, P), 1>>)
\* The remainder has the sign of the dividend.
Remainder ==
  /\ Binary("remainder")
  /\ IF P = 0 THEN Says(<<"error">>)
     ELSE LET q == Truncated(N * Q, D * P)
          IN  Becomes(Ratio(N * Q - q * P * D, D * Q))
Negate == Unary("negate", 0) /\ Becomes(<<-N, D>>)
Raise(e) ==
  /\ Unary("raise", e)
  /\ CASE e = 0          -> Becomes(<<1, 1>>)
       [] e > 0          -> Becomes(<<N ^ e, D ^ e>>)
       [] e < 0 /\ N = 0 -> Says(<<"error">>)
       [] e < 0 /\ N # 0 -> Becomes(Ratio(D ^ (-e), N ^ (-e)))
ShiftLeft(s) == Unary("shift left", s) /\ Integral(number) /\ Becomes(<<N * 2 ^ s, 1>>)
\* Towards minus infinity, as the machine's arithmetic shift does.
ShiftRight(s) == Unary("shift right", s) /\ Integral(number) /\ Becomes(<<N \div 2 ^ s, 1>>)
Compare ==
  /\ Binary("compare")
  /\ LET l == N * Q  r == P * D
     IN  Says(<<"order", IF l < r THEN -1 ELSE IF l = r THEN 0 ELSE 1>>)

RECURSIVE Decimal(_)
Decimal(n) == IF n < 10 THEN <<n>> ELSE Append(Decimal(n \div 10), n % 10)
Display ==
  /\ Unary("display", 0)
  /\ Says(IF {Magnitude(N), D} \cap Unprintable # {} THEN <<"error">>
          ELSE <<"text", N < 0, Decimal(Magnitude(N)), Decimal(D)>>)

RECURSIVE Fact(_), Fib(_), ModPower(_, _, _)
Fact(n) == IF n = 0 THEN 1 ELSE n * Fact(n - 1)
Fib(n) == IF n < 2 THEN n ELSE Fib(n - 1) + Fib(n - 2)
ModPower(b, e, m) == IF e = 0 THEN 1 % m ELSE ((b % m) * ModPower(b, e - 1, m)) % m
IsPrimeNumber(n) == n > 1 /\ \A d \in 2..n - 1 : d * d > n \/ n % d # 0

Factorials(n) == Unary("factorial", n) /\ Becomes(<<Fact(n), 1>>)
Fibonaccis(n) == Unary("fibonacci", n) /\ Becomes(<<Fib(n), 1>>)
GreatestDivisor ==
  /\ Binary("gcd") /\ Integral(number) /\ Integral(other)
  /\ Becomes(<<GcdOf(Magnitude(N), Magnitude(P)), 1>>)
LeastMultiple ==
  LET m == Magnitude(N)  n == Magnitude(P)
  IN  /\ Binary("lcm") /\ Integral(number) /\ Integral(other)
      /\ Becomes(<<IF 0 \in {m, n} THEN 0 ELSE (m \div GcdOf(m, n)) * n, 1>>)
\* A negative exponent counts by its magnitude.
PowerMod(e, m) == Unary("power mod", <<e, m>>) /\ Integral(number) /\ Becomes(<<ModPower(N, Magnitude(e), m), 1>>)
Primality == Unary("prime", 0) /\ Integral(number) /\ Says(<<"prime", IsPrimeNumber(Magnitude(N))>>)

Init == /\ number \in Operands /\ other = <<>>
        /\ answer = <<"done">> /\ op = <<"read", 0>>

Next ==
  \/ \E w \in Operands : Load(w)
  \/ Add \/ Subtract \/ Multiply \/ Divide \/ IntDivide \/ Remainder \/ Compare
  \/ GreatestDivisor \/ LeastMultiple \/ Negate \/ Display \/ Primality
  \/ \E e \in Exponents : Raise(e) \/ \E m \in Moduli : PowerMod(e, m)
  \/ \E s \in Shifts : ShiftLeft(s) \/ ShiftRight(s)
  \/ \E n \in Sizes : Factorials(n) \/ Fibonaccis(n)

Spec == Init /\ [][Next]_<<op, number, other, answer>>
=============================================================================
