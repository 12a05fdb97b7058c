------------------------------- MODULE Float64 -------------------------------
(***************************************************************************)
(* The one float64 expression of internal/scaling.go,                      *)
(*     int64(float64(p) / float64(t) * float64(c)).                        *)
(*                                                                         *)
(* The quotient and the product are each rounded to 53 significant bits,   *)
(* so the truncated result is the floor of p*c/t, except that it can be    *)
(* one less when t divides p*c: 29% of 100 is 28.  What decides is the     *)
(* error of the quotient, whose bits a long division yields.               *)
(***************************************************************************)
EXTENDS Integers

CONSTANT IntOfInfinity   \* int64(+Inf): what it yields depends on the processor

ASSUME IntOfInfinityAssumption == IntOfInfinity \in Int

\* The exponent of the highest power of two that is at most n.
Log2(n) == CHOOSE i \in 0..30 : 2^i <= n /\ n \div 2 < 2^i

\* The exponent f of p/t: 2^f <= p/t < 2^(f+1).
Exponent(p, t) ==
  IF p >= t THEN Log2(p \div t)
            ELSE -(CHOOSE j \in 1..30 : p * 2^j >= t /\ p * 2^(j - 1) < t)

\* p * 2^s modulo t: what is left of p after s more bits of the quotient.
Left(p, t, s) ==
  LET rem[i \in 0..s] == IF i = 0 THEN p % t ELSE (2 * rem[i - 1]) % t
  IN  rem[s]

\* p*c/t is the integer k, and the computed product falls short of it: the
\* quotient is rounded down, and the error left is worth more than half the
\* distance from k to the number below it.
FallsShort(p, t, c, k) ==
  LET f == Exponent(p, t)
      r == Left(p, t, 52 - f)
      spread == t * 2^(Log2(k) - f)
  IN  /\ 2 * r < t
      /\ 2 * c * r > (IF k = 2^Log2(k) THEN spread \div 2 ELSE spread)

\* For p, c, t >= 0; when t is 0 the others are not.
TruncatedProduct(p, t, c) ==
  LET k == (p * c) \div t
  IN  CASE t = 0 -> IntOfInfinity
        [] t # 0 /\ k > 0 /\ (p * c) % t = 0 /\ FallsShort(p, t, c, k) -> k - 1
        [] OTHER -> k
=============================================================================
