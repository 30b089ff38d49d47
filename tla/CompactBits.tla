---------------------------- MODULE CompactBits -----------------------------
(***************************************************************************)
(* The compact form of a target (arith_uint256.cpp): a mantissa of at most *)
(* Digits digits in base Base, whose top bit is a sign, and the number of  *)
(* digits of the target.  The code has Base = 256 and Digits = 3.          *)
(***************************************************************************)
EXTENDS Naturals

CONSTANTS Base, Digits, MaxSize   \* MaxSize: the digits of a word, 32

(* The top bit of a digit is Base / 2, and a mantissa that gives up a      *)
(* digit to keep clear of the sign has another.                            *)
ASSUME CompactBitsAssumption ==
  /\ Base \in Nat /\ \E h \in 1 .. Base : Base = 2 * h
  /\ Digits \in Nat \ {0, 1} /\ MaxSize \in Nat \ {0}

(* The powers of Base; a shift by n digits multiplies or divides by one.   *)
Power[n \in 0 .. MaxSize + Digits] == IF n = 0 THEN 1 ELSE Base * Power[n - 1]

(* The number of digits of t: (bits() + 7) / 8.                            *)
Size(t) == CHOOSE n \in 0 .. MaxSize : t < Power[n] /\ (n = 0 \/ t >= Power[n - 1])

GetCompact(t) ==
  LET n == Size(t)
      mant == IF n <= Digits THEN t * Power[Digits - n] ELSE t \div Power[n - Digits]
  IN IF 2 * mant >= Power[Digits] THEN [size |-> n + 1, mant |-> mant \div Base]
     ELSE [size |-> n, mant |-> mant]

SetCompact(c) ==
  (IF c.size <= Digits THEN c.mant \div Power[Digits - c.size]
   ELSE c.mant * Power[c.size - Digits]) % Power[MaxSize]
=============================================================================
