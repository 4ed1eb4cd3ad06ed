------------------------------ MODULE MCNumbers ------------------------------
(***************************************************************************)
(* Limbs of five bits: machine integers are -16..15, an int64_t -512..511,  *)
(* and six limbs still fit TLC's own integers.  The operands stand at the   *)
(* edges of one, two and three limbs, and among them are pairs whose long   *)
(* division estimates a digit too large by one and by two and has to add    *)
(* the divisor back.  Limits makes each algorithm the one that is used.     *)
(***************************************************************************)
EXTENDS Numbers

MCPrimes == <<<<17, 3>>, <<97, 5>>, <<113, 3>>>>
Never == 99
MCLimits == {[karatsuba |-> 2, toom |-> Never, ntt |-> Never, knuth |-> Never],
             [karatsuba |-> 2, toom |-> 3, ntt |-> Never, knuth |-> 1],
             [karatsuba |-> Never, toom |-> Never, ntt |-> 2, knuth |-> Never]}
MCOperands ==
  {<<n, 1>> : n \in {-16, -1, 0, 2, 15, -32, 90, 512, 1023, 1029, 1071, 1407, -1536, -10000, 32767,
                     27323357, 562529850, -909926076}}
    \cup {<<-31, 33>>, <<16, 3>>, <<-5, 1407>>}
MCExponents == {-2, -1, 0, 2, 3}
MCShifts == {1, 4, 7}
MCSizes == {0, 7, 11}
MCModuli == {1, 33}
=============================================================================
