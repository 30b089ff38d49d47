-------------------------- MODULE CompactBitsProofs -------------------------
(***************************************************************************)
(* Proofs about CompactBits, for every even base and every mantissa of two *)
(* digits or more: what a target is worth after GetCompact and SetCompact. *)
(***************************************************************************)
EXTENDS CompactBits, WellFoundedInduction, TLAPS

-----------------------------------------------------------------------------
(* Arithmetic.                                                             *)

(* Products and order.                                                     *)
LEMMA Products ==
  ASSUME NEW x \in Nat, NEW y \in Nat, NEW z \in Nat
  PROVE  /\ x * y \in Nat /\ x * y = y * x /\ (x * y) * z = x * (y * z)
         /\ y <= z => x * y <= x * z
         /\ x # 0 => y <= x * y
         /\ x # 0 /\ y # 0 => x * y # 0
         /\ x # 0 /\ x * y <= x * z => y <= z
  BY SMT

(* The quotient by d is the greatest number that d times is within a.      *)
LEMMA Quotient ==
  ASSUME NEW a \in Nat, NEW d \in Nat \ {0}
  PROVE  /\ a \div d \in Nat /\ d * (a \div d) <= a
         /\ \A k \in Nat : d * k <= a <=> k <= a \div d
<1>1. a \div d \in Nat /\ d * (a \div d) <= a /\ a < d * (a \div d) + d
  BY SMT
<1> DEFINE q == a \div d
<1>2. ASSUME NEW k \in Nat, d * k <= a PROVE k <= q
  <2>1. d * k < d * (q + 1)
    BY <1>1, <1>2
  <2> QED BY <1>1, <2>1, Products
<1>3. ASSUME NEW k \in Nat, k <= q PROVE d * k <= a
  <2>1. d * k <= d * q
    BY <1>1, <1>3, Products
  <2>2. d * k \in Nat /\ d * q \in Nat
    BY <1>1
  <2> QED BY <1>1, <2>1, <2>2
<1> QED
  BY <1>1, <1>2, <1>3

(* Dividing twice, and dividing a multiple.                                *)
LEMMA Quotients ==
  ASSUME NEW a \in Nat, NEW d \in Nat \ {0}, NEW e \in Nat \ {0}
  PROVE  /\ (a \div d) \div e = a \div (d * e)
         /\ (a * d) \div d = a
<1>1. (a * d) \div d = a
  BY SMT
<1> DEFINE p == a \div d
           q == p \div e
           r == a \div (d * e)
<1>2. d * e \in Nat \ {0}
  BY Products
<1>3. p \in Nat /\ q \in Nat /\ r \in Nat
  BY <1>2, Quotient
<1>4. \A k \in Nat : d * k <= a <=> k <= p
  BY Quotient
<1>5. \A k \in Nat : e * k <= p <=> k <= q
  BY <1>3, Quotient
<1>6. \A k \in Nat : (d * e) * k <= a <=> k <= r
  BY <1>2, Quotient
<1>7. \A k \in Nat : (d * e) * k = d * (e * k) /\ e * k \in Nat
  BY Products
<1>8. \A k \in Nat : k <= q <=> k <= r
  BY <1>4, <1>5, <1>6, <1>7, Zenon
<1>9. q <= r /\ r <= q
  BY <1>3, <1>8
<1>10. q = r
  BY <1>3, <1>9
<1> QED
  BY <1>1, <1>10

-----------------------------------------------------------------------------
(* Powers.                                                                 *)

(* A set with 0, and with the successor of each of its members up to n,    *)
(* has all numbers up to n.                                                *)
LEMMA UpTo ==
  ASSUME NEW n \in Nat, NEW S, 0 \in S, \A i \in 0 .. n : i \in S /\ i < n => i + 1 \in S
  PROVE  \A i \in 0 .. n : i \in S
<1> DEFINE T == {i \in 0 .. n : i \notin S}
           R == {ss \in Nat \X Nat : ss[1] < ss[2]}
<1> SUFFICES ASSUME T # {} PROVE FALSE
  BY Zenon
<1>1. IsWellFoundedOn(R, Nat)
  BY NatLessThanWellFounded DEF OpToRel
<1>2. T \subseteq Nat
  OBVIOUS
<1>3. PICK x \in T : \A y \in T : ~(<<y, x>> \in R)
  <2> HIDE DEF R, T
  <2> QED BY <1>1, <1>2, WFMin, Zenon
<1>4. x \in 0 .. n /\ x \notin S /\ x # 0
  BY Zenon
<1>5. x - 1 \in 0 .. n /\ x - 1 < n /\ (x - 1) + 1 = x /\ <<x - 1, x>> \in R
  BY <1>4
<1>6. x - 1 \in S
  BY <1>3, <1>5, Zenon
<1> QED
  BY <1>4, <1>5, <1>6, Zenon

Top == MaxSize + Digits

(* Base is twice its top bit.                                              *)
LEMMA BaseFacts ==
  /\ Base \in Nat \ {0, 1} /\ Digits \in Nat \ {0, 1} /\ MaxSize \in Nat \ {0}
  /\ Top \in Nat /\ MaxSize <= Top /\ Digits <= Top
<1>1. PICK h \in 1 .. Base : Base = 2 * h
  BY CompactBitsAssumption
<1> QED
  BY <1>1, CompactBitsAssumption DEF Top

(* The function that its recursive equation defines.                       *)
LEMMA PowerExists ==
  \E f : f = [n \in 0 .. Top |-> IF n = 0 THEN 1 ELSE Base * f[n - 1]]
<1> DEFINE Runs(k, f) == f[0] = 1 /\ \A i \in 1 .. k : f[i] = Base * f[i - 1]
           S == {k \in 0 .. Top : \E f \in [0 .. k -> Nat] : Runs(k, f)}
<1>0. Base \in Nat /\ Top \in Nat
  BY BaseFacts
<1>1. 0 \in S
  <2> DEFINE f == [i \in 0 .. 0 |-> 1]
  <2>1. f \in [0 .. 0 -> Nat] /\ Runs(0, f)
    OBVIOUS
  <2>2. 0 \in 0 .. Top
    BY <1>0
  <2> QED BY <2>1, <2>2, Zenon
<1>2. ASSUME NEW k \in 0 .. Top, k \in S, k < Top PROVE k + 1 \in S
  <2>1. PICK f \in [0 .. k -> Nat] : Runs(k, f)
    BY <1>2, Zenon
  <2> DEFINE g == [i \in 0 .. (k + 1) |-> IF i <= k THEN f[i] ELSE Base * f[k]]
  <2>2. g \in [0 .. (k + 1) -> Nat]
    BY <1>0
  <2>3. g[0] = 1 /\ \A i \in 1 .. (k + 1) : g[i] = Base * g[i - 1]
    <3>1. g[0] = f[0] /\ f[0] = 1
      BY <2>1
    <3>2. ASSUME NEW i \in 1 .. (k + 1), i <= k PROVE g[i] = Base * g[i - 1]
      <4>1. g[i] = f[i] /\ g[i - 1] = f[i - 1]
        BY <3>2
      <4> QED BY <2>1, <3>2, <4>1
    <3>3. g[k + 1] = Base * f[k] /\ g[k] = f[k] /\ (k + 1) - 1 = k
      OBVIOUS
    <3>4. \A i \in 1 .. (k + 1) : i <= k \/ i = k + 1
      OBVIOUS
    <3> HIDE DEF g
    <3> QED BY <3>1, <3>2, <3>3, <3>4
  <2>4. k + 1 \in 0 .. Top
    BY <1>0, <1>2
  <2> QED BY <2>2, <2>3, <2>4, Zenon
<1>3. Top \in S
  <2> HIDE DEF S
  <2>1. Top \in 0 .. Top
    BY <1>0
  <2> QED BY <1>0, <1>1, <1>2, <2>1, UpTo, Zenon
<1>4. PICK f \in [0 .. Top -> Nat] : Runs(Top, f)
  BY <1>3, Zenon
<1>5. f = [n \in 0 .. Top |-> IF n = 0 THEN 1 ELSE Base * f[n - 1]]
  BY <1>0, <1>4
<1> QED
  BY <1>5, Zenon

(* Powers are positive, and each is Base times the one before.             *)
LEMMA Powers ==
  /\ Power[0] = 1
  /\ \A n \in 0 .. Top : Power[n] \in Nat \ {0}
  /\ \A n \in 0 .. Top : n < Top => Power[n + 1] = Base * Power[n]
<1>0. Base \in Nat \ {0} /\ Top \in Nat
  BY BaseFacts
<1>1. Power = [n \in 0 .. Top |-> IF n = 0 THEN 1 ELSE Base * Power[n - 1]]
  BY PowerExists, Zenon DEF Power, Top
<1>2. Power[0] = 1
  BY <1>0, <1>1
<1>3. \A n \in 0 .. Top : n < Top => Power[n + 1] = Base * Power[n]
  <2> TAKE n \in 0 .. Top
  <2> HAVE n < Top
  <2>1. n + 1 \in 0 .. Top /\ n + 1 # 0 /\ (n + 1) - 1 = n
    BY <1>0
  <2> QED BY <1>1, <2>1
<1> DEFINE S == {n \in 0 .. Top : Power[n] \in Nat \ {0}}
<1>4. \A n \in 0 .. Top : n \in S
  <2>1. 0 \in S
    BY <1>0, <1>2
  <2>2. ASSUME NEW n \in 0 .. Top, n \in S, n < Top PROVE n + 1 \in S
    <3>1. Power[n] \in Nat \ {0} /\ n + 1 \in 0 .. Top /\ Power[n + 1] = Base * Power[n]
      BY <1>0, <1>3, <2>2
    <3>2. Base * Power[n] \in Nat \ {0}
      BY <1>0, <3>1, Products
    <3> QED BY <3>1, <3>2
  <2> HIDE DEF S
  <2> QED BY <1>0, <2>1, <2>2, UpTo, Zenon
<1> QED
  BY <1>2, <1>3, <1>4

(* The exponents of a product of powers add up, and powers grow.           *)
LEMMA PowersAdd ==
  ASSUME NEW m \in Nat, NEW n \in Nat, m + n <= Top
  PROVE  /\ Power[m] \in Nat \ {0} /\ Power[n] \in Nat \ {0}
         /\ Power[m + n] = Power[m] * Power[n] /\ Power[m] <= Power[m + n]
<1>0. Base \in Nat \ {0} /\ Top \in Nat /\ m \in 0 .. Top /\ n \in 0 .. Top
  BY BaseFacts
<1>1. Power[m] \in Nat \ {0} /\ Power[n] \in Nat \ {0}
  BY <1>0, Powers
<1> DEFINE S == {i \in Nat : m + i <= Top => Power[m + i] = Power[m] * Power[i]}
<1>2. 0 \in S
  <2>1. m + 0 = m /\ Power[m] * 1 = Power[m]
    BY <1>1
  <2> QED BY <2>1, Powers
<1>3. ASSUME NEW i \in 0 .. n, i \in S, i < n PROVE i + 1 \in S
  <2>1. /\ i \in Nat /\ i + 1 \in Nat /\ m + i <= Top /\ m + i < Top /\ m + i \in 0 .. Top
        /\ i \in 0 .. Top /\ i < Top /\ m + (i + 1) = (m + i) + 1
    BY <1>0, <1>3
  <2>2. Power[m + (i + 1)] = Base * Power[m + i] /\ Power[i + 1] = Base * Power[i]
    BY <2>1, Powers
  <2>3. Power[m + i] = Power[m] * Power[i] /\ Power[i] \in Nat
    BY <1>3, <2>1, Powers
  <2>4. Base * (Power[m] * Power[i]) = Power[m] * (Base * Power[i])
    BY <1>0, <1>1, <2>3, SMT
  <2> QED BY <2>1, <2>2, <2>3, <2>4
<1>4. n \in S
  <2> HIDE DEF S
  <2>1. n \in 0 .. n
    OBVIOUS
  <2> QED BY <1>2, <1>3, <2>1, UpTo, Zenon
<1>5. Power[m + n] = Power[m] * Power[n]
  BY <1>4
<1>6. Power[m] <= Power[m] * Power[n]
  BY <1>1, Products
<1> QED
  BY <1>1, <1>5, <1>6

-----------------------------------------------------------------------------
(* The number of digits, and the sign bit.                                 *)

IsSize(t, n) == t < Power[n] /\ (n = 0 \/ t >= Power[n - 1])

(* A target below 2^256 has a number of digits, and only one.              *)
LEMMA Sizes ==
  ASSUME NEW t \in Nat, t < Power[MaxSize]
  PROVE  /\ Size(t) \in 0 .. MaxSize /\ IsSize(t, Size(t))
         /\ \A n \in 0 .. MaxSize : IsSize(t, n) => n = Size(t)
<1>0. Top \in Nat /\ MaxSize \in Nat /\ MaxSize <= Top
  BY BaseFacts
<1>1. \E n \in 0 .. MaxSize : IsSize(t, n)
  <2> SUFFICES ASSUME \A n \in 0 .. MaxSize : ~IsSize(t, n) PROVE FALSE
    BY Zenon
  <2> DEFINE S == {n \in 0 .. MaxSize : Power[n] <= t}
  <2>1. 0 \in S
    <3>1. 0 \in 0 .. MaxSize /\ ~IsSize(t, 0)
      BY <1>0
    <3> QED BY <3>1, Powers DEF IsSize
  <2>2. ASSUME NEW n \in 0 .. MaxSize, n \in S, n < MaxSize PROVE n + 1 \in S
    <3>1. n + 1 \in 0 .. MaxSize /\ n + 1 \in 0 .. Top /\ (n + 1) - 1 = n /\ n + 1 # 0
      BY <1>0, <2>2
    <3>2. ~IsSize(t, n + 1) /\ Power[n] <= t /\ Power[n + 1] \in Nat /\ Power[n] \in Nat
      BY <1>0, <2>2, <3>1, Powers
    <3> QED BY <3>1, <3>2 DEF IsSize
  <2>3. MaxSize \in S
    <3> HIDE DEF S
    <3>1. MaxSize \in 0 .. MaxSize
      BY <1>0
    <3> QED BY <1>0, <2>1, <2>2, <3>1, UpTo, Zenon
  <2>4. MaxSize \in 0 .. Top
    BY <1>0
  <2> QED BY <2>3, <2>4, Powers
<1>2. Size(t) \in 0 .. MaxSize /\ IsSize(t, Size(t))
  BY <1>1, Zenon DEF Size, IsSize
<1>3. ASSUME NEW m \in 0 .. MaxSize, NEW n \in 0 .. MaxSize, IsSize(t, m), IsSize(t, n)
      PROVE  ~(m < n)
  <2> SUFFICES ASSUME m < n PROVE FALSE
    OBVIOUS
  <2>1. (n - 1) - m \in Nat /\ m \in Nat /\ m + ((n - 1) - m) = n - 1 /\ n - 1 <= Top
    BY <1>0
  <2>2. Power[m] \in Nat /\ Power[m] <= Power[n - 1]
    BY <2>1, PowersAdd
  <2>3. t < Power[m] /\ Power[n - 1] <= t /\ n - 1 \in 0 .. Top
    BY <1>0, <1>3 DEF IsSize
  <2> QED BY <2>2, <2>3, Powers
<1>4. ASSUME NEW n \in 0 .. MaxSize, IsSize(t, n) PROVE n = Size(t)
  <2>1. ~(n < Size(t)) /\ ~(Size(t) < n)
    BY <1>2, <1>3, <1>4
  <2> QED BY <1>2, <2>1
<1> QED
  BY <1>2, <1>4, Zenon

Half == Base \div 2

(* Base is twice Half.                                                     *)
LEMMA HalfFacts == Half \in Nat \ {0} /\ Base = 2 * Half
<1>1. PICK h \in 1 .. Base : Base = 2 * h
  BY CompactBitsAssumption
<1> QED
  BY <1>1, BaseFacts DEF Half

(* The mantissa of a target of n digits, before a digit is given up.       *)
Mantissa(t, n) == IF n <= Digits THEN t * Power[Digits - n] ELSE t \div Power[n - Digits]

(* The sign bit of the mantissa is the top bit of the target.              *)
LEMMA SignBit ==
  ASSUME NEW t \in Nat, NEW n \in 1 .. MaxSize
  PROVE  /\ Mantissa(t, n) \in Nat /\ Power[Digits] \in Nat
         /\ 2 * Mantissa(t, n) >= Power[Digits] <=> Half * Power[n - 1] <= t
<1>0. /\ Top \in Nat /\ MaxSize \in Nat /\ MaxSize <= Top /\ Digits \in Nat /\ Digits >= 2
      /\ Digits <= Top /\ Half \in Nat \ {0} /\ Base = 2 * Half
  BY BaseFacts, HalfFacts
<1>1. CASE n <= Digits
  <2> DEFINE p == Power[Digits - n]
             w == Power[n - 1]
  <2>1. /\ Digits - n \in Nat /\ n \in Nat /\ n + (Digits - n) = Digits
        /\ n - 1 \in 0 .. Top /\ n - 1 < Top /\ (n - 1) + 1 = n
    BY <1>0, <1>1
  <2>2. p \in Nat \ {0} /\ w \in Nat \ {0} /\ Power[Digits] = Power[n] * p /\ Power[n] = Base * w
    BY <1>0, <2>1, PowersAdd, Powers
  <2>3. Mantissa(t, n) = t * p
    BY <1>1 DEF Mantissa
  <2> HIDE DEF p, w
  <2>4. Power[Digits] = 2 * (p * (Half * w))
    BY <1>0, <2>2, SMT
  <2>5. p * (Half * w) \in Nat /\ Half * w \in Nat /\ t * p = p * t /\ p * t \in Nat
    BY <1>0, <2>2, Products
  <2>6. p * (Half * w) <= p * t <=> Half * w <= t
    BY <2>2, <2>5, Products
  <2>7. 2 * (p * t) >= 2 * (p * (Half * w)) <=> p * (Half * w) <= p * t
    BY <2>5
  <2>8. Mantissa(t, n) \in Nat /\ Power[Digits] \in Nat
    BY <2>3, <2>4, <2>5
  <2> QED BY <2>3, <2>4, <2>5, <2>6, <2>7, <2>8 DEF w
<1>2. CASE ~(n <= Digits)
  <2> DEFINE q == Power[n - Digits]
             w == Power[Digits - 1]
  <2>1. /\ n - Digits \in Nat /\ Digits - 1 \in Nat /\ (n - Digits) + (Digits - 1) = n - 1
        /\ n - 1 <= Top /\ Digits - 1 \in 0 .. Top /\ Digits - 1 < Top /\ (Digits - 1) + 1 = Digits
    BY <1>0, <1>2
  <2>2. q \in Nat \ {0} /\ w \in Nat \ {0} /\ Power[n - 1] = q * w /\ Power[Digits] = Base * w
    BY <1>0, <2>1, PowersAdd, Powers
  <2>3. Mantissa(t, n) = t \div q
    BY <1>2 DEF Mantissa
  <2> HIDE DEF q, w
  <2>4. Power[Digits] = 2 * (Half * w) /\ Half * w \in Nat
    BY <1>0, <2>2, SMT
  <2>5. t \div q \in Nat /\ (q * (Half * w) <= t <=> Half * w <= t \div q)
    BY <2>2, <2>4, Quotient
  <2>6. q * (Half * w) = Half * Power[n - 1]
    BY <1>0, <2>2, SMT
  <2>7. 2 * (t \div q) >= 2 * (Half * w) <=> Half * w <= t \div q
    BY <2>4, <2>5
  <2>8. 2 * (Half * w) \in Nat
    BY <2>4
  <2> QED BY <2>3, <2>4, <2>5, <2>6, <2>7, <2>8
<1> QED
  BY <1>1, <1>2

-----------------------------------------------------------------------------
(* What a target is worth after GetCompact and SetCompact.                 *)

Targets == {t \in Nat : t < Power[MaxSize]}

(* The top bit of the first digit is set, and a digit is given up.         *)
Big(t) == Half * Power[Size(t) - 1] <= t

Length(t) == IF Big(t) THEN Size(t) + 1 ELSE Size(t)

(* The value of the lowest digit that is kept.                             *)
Unit(t) == IF Length(t) <= Digits THEN 1 ELSE Power[Length(t) - Digits]

(* GetCompact of a target that is not 0.                                   *)
LEMMA Compacted ==
  ASSUME NEW t \in Targets, t # 0
  PROVE  /\ t \in Nat \ {0} /\ t < Power[MaxSize] /\ Size(t) \in 1 .. MaxSize
         /\ IsSize(t, Size(t))
         /\ GetCompact(t) = IF Big(t)
                            THEN [size |-> Size(t) + 1, mant |-> Mantissa(t, Size(t)) \div Base]
                            ELSE [size |-> Size(t), mant |-> Mantissa(t, Size(t))]
<1>1. t \in Nat /\ t < Power[MaxSize]
  BY Zenon DEF Targets
<1>2. Size(t) \in 0 .. MaxSize /\ IsSize(t, Size(t))
  BY <1>1, Sizes, Zenon
<1>3. Size(t) # 0
  <2>1. Power[0] = 1
    BY Powers, Zenon
  <2> QED BY <1>1, <1>2, <2>1 DEF IsSize
<1>4. Size(t) \in 1 .. MaxSize
  BY <1>2, <1>3, BaseFacts
<1>5. 2 * Mantissa(t, Size(t)) >= Power[Digits] <=> Big(t)
  BY <1>1, <1>4, SignBit, Zenon DEF Big
<1>6. GetCompact(t) = IF 2 * Mantissa(t, Size(t)) >= Power[Digits]
                      THEN [size |-> Size(t) + 1, mant |-> Mantissa(t, Size(t)) \div Base]
                      ELSE [size |-> Size(t), mant |-> Mantissa(t, Size(t))]
  BY Zenon DEF GetCompact, Mantissa
<1> QED
  BY <1>1, <1>2, <1>4, <1>5, <1>6, Zenon

Rounding(t) == SetCompact(GetCompact(t))

Worth(c) == IF c.size <= Digits THEN c.mant \div Power[Digits - c.size]
            ELSE c.mant * Power[c.size - Digits]

(* The value of the compact form is the target rounded down to a multiple  *)
(* of its unit.                                                            *)
LEMMA WorthIs ==
  ASSUME NEW t \in Targets, t # 0
  PROVE  Unit(t) \in Nat \ {0} /\ Worth(GetCompact(t)) = Unit(t) * (t \div Unit(t))
<1> DEFINE n == Size(t)
           m == Mantissa(t, n)
           c == GetCompact(t)
<1>0. /\ Top = MaxSize + Digits /\ MaxSize \in Nat /\ Digits \in Nat /\ Digits >= 2
      /\ Base \in Nat \ {0}
  BY BaseFacts DEF Top
<1>1. /\ t \in Nat /\ n \in 1 .. MaxSize /\ n \in Nat
      /\ Big(t) => c.size = n + 1 /\ c.mant = m \div Base
      /\ ~Big(t) => c.size = n /\ c.mant = m
  <2>1. t \in Nat /\ n \in 1 .. MaxSize
    BY Compacted
  <2>2. Big(t) => c = [size |-> n + 1, mant |-> m \div Base]
    BY Compacted, Zenon
  <2>3. ~Big(t) => c = [size |-> n, mant |-> m]
    BY Compacted, Zenon
  <2> HIDE DEF n, m, c
  <2> QED BY <2>1, <2>2, <2>3, <1>0
<1>2. /\ Length(t) = IF Big(t) THEN n + 1 ELSE n
      /\ Unit(t) = IF Length(t) <= Digits THEN 1 ELSE Power[Length(t) - Digits]
      /\ m = IF n <= Digits THEN t * Power[Digits - n] ELSE t \div Power[n - Digits]
      /\ Worth(c) = IF c.size <= Digits THEN c.mant \div Power[Digits - c.size]
                    ELSE c.mant * Power[c.size - Digits]
  BY Zenon DEF Length, Unit, Mantissa, Worth
<1>3. \A i \in 0 .. Top : Power[i] \in Nat \ {0}
  BY Powers
<1>4. \A i \in 0 .. Top : i < Top => Power[i + 1] = Base * Power[i]
  BY Powers
<1>5. 1 * (t \div 1) = t
  BY <1>1
<1> HIDE DEF n, m, c
<1>6. CASE ~Big(t) /\ n <= Digits
  <2> DEFINE p == Power[Digits - n]
  <2>1. p \in Nat \ {0}
    BY <1>0, <1>1, <1>3, <1>6
  <2>2. Worth(c) = (t * p) \div p /\ Unit(t) = 1
    BY <1>1, <1>2, <1>6, Zenon
  <2>3. (t * p) \div p = t
    BY <1>1, <2>1, Quotients, Zenon
  <2> HIDE DEF p
  <2> QED BY <1>5, <2>2, <2>3 DEF c
<1>7. CASE ~Big(t) /\ ~(n <= Digits)
  <2> DEFINE q == Power[n - Digits]
  <2>1. q \in Nat \ {0}
    BY <1>0, <1>1, <1>3, <1>7
  <2>2. Worth(c) = (t \div q) * q /\ Unit(t) = q
    BY <1>1, <1>2, <1>7, Zenon
  <2>3. t \div q \in Nat
    BY <1>1, <2>1, Quotient, Zenon
  <2>4. (t \div q) * q = q * (t \div q)
    BY <2>1, <2>3, Products, Zenon
  <2> QED BY <2>1, <2>2, <2>4, Zenon DEF c
<1>8. CASE Big(t) /\ n + 1 <= Digits
  <2> DEFINE p == Power[Digits - (n + 1)]
  <2>1. /\ Digits - (n + 1) \in 0 .. Top /\ Digits - (n + 1) < Top
        /\ (Digits - (n + 1)) + 1 = Digits - n /\ n <= Digits
    BY <1>0, <1>1, <1>8
  <2>2. p \in Nat \ {0} /\ Power[Digits - n] = Base * p
    BY <1>3, <1>4, <2>1, Zenon
  <2>3. Worth(c) = ((t * Power[Digits - n]) \div Base) \div p /\ Unit(t) = 1
    BY <1>1, <1>2, <1>8, <2>1, Zenon
  <2>4. Base * p \in Nat \ {0} /\ t * (Base * p) \in Nat
    BY <1>0, <1>1, <2>2, Products
  <2>5. ((t * (Base * p)) \div Base) \div p = (t * (Base * p)) \div (Base * p)
    <3> HIDE DEF p
    <3> DEFINE x == t * (Base * p)
    <3>1. x \in Nat /\ Base \in Nat \ {0} /\ p \in Nat \ {0}
      BY <1>0, <2>2, <2>4, Zenon
    <3> HIDE DEF x
    <3>2. (x \div Base) \div p = x \div (Base * p)
      BY ONLY <3>1, Quotients, Zenon
    <3> QED BY <3>2, Zenon DEF x
  <2>6. (t * (Base * p)) \div (Base * p) = t
    BY <1>1, <2>4, Quotients, Zenon
  <2> HIDE DEF p
  <2> QED BY <1>5, <2>2, <2>3, <2>5, <2>6 DEF c
<1>9. CASE Big(t) /\ ~(n + 1 <= Digits)
  <2> DEFINE q == Power[(n + 1) - Digits]
  <2>1. q \in Nat \ {0}
    BY <1>0, <1>1, <1>3, <1>9
  <2>2. Worth(c) = (m \div Base) * q /\ Unit(t) = q
    BY <1>1, <1>2, <1>9, Zenon
  <2>3. m \div Base = t \div q
    <3>1. CASE n <= Digits
      <4>1. n = Digits /\ Digits - n = 0 /\ (n + 1) - Digits = 0 + 1 /\ 0 \in 0 .. Top /\ 0 < Top
        BY <1>0, <1>1, <1>9, <3>1
      <4>2. Power[0] = 1 /\ q = Base * Power[0]
        BY <1>4, <4>1, Powers, Zenon
      <4>3. m = t * 1
        BY <1>2, <3>1, <4>1, <4>2, Zenon
      <4> HIDE DEF q
      <4> QED BY <1>0, <1>1, <4>2, <4>3
    <3>2. CASE ~(n <= Digits)
      <4> DEFINE r == Power[n - Digits]
      <4>1. n - Digits \in 0 .. Top /\ n - Digits < Top /\ (n + 1) - Digits = (n - Digits) + 1
        BY <1>0, <1>1, <3>2
      <4>2. r \in Nat \ {0} /\ q = Base * r
        BY <1>3, <1>4, <4>1, Zenon
      <4>3. m = t \div r
        BY <1>2, <3>2, Zenon
      <4> HIDE DEF r, q
      <4>4. (t \div r) \div Base = t \div (r * Base)
        <5>1. t \in Nat /\ Base \in Nat \ {0} /\ r \in Nat \ {0}
          BY <1>0, <1>1, <4>2, Zenon
        <5> QED BY ONLY <5>1, Quotients, Zenon
      <4>5. r * Base = Base * r
        BY <1>0, <4>2
      <4> QED BY <4>2, <4>3, <4>4, <4>5, Zenon
    <3> QED BY <3>1, <3>2
  <2>4. t \div q \in Nat
    BY <1>1, <2>1, Quotient, Zenon
  <2>5. (t \div q) * q = q * (t \div q)
    BY <2>1, <2>4, Products, Zenon
  <2> QED BY <2>1, <2>2, <2>3, <2>5, Zenon DEF c
<1> QED
  BY <1>6, <1>7, <1>8, <1>9, Zenon DEF c

(* The least target with the digits and the top bit of t.                  *)
Level(t) == IF Big(t) THEN Half * Power[Size(t) - 1] ELSE Power[Size(t) - 1]

(* The level of a target is a multiple of its unit, since a mantissa has   *)
(* at least two digits.                                                    *)
LEMMA Levels ==
  ASSUME NEW t \in Targets, t # 0
  PROVE  /\ Level(t) \in Nat \ {0} /\ Level(t) <= t
         /\ \E k \in Nat : Level(t) = Unit(t) * k
<1> DEFINE n == Size(t)
           w == Power[n - 1]
<1>0. /\ Top = MaxSize + Digits /\ MaxSize \in Nat /\ Digits \in Nat /\ Digits >= 2
      /\ Half \in Nat \ {0}
  BY BaseFacts, HalfFacts DEF Top
<1>1. t \in Nat /\ n \in 1 .. MaxSize /\ w <= t
  <2>1. t \in Nat /\ n \in 1 .. MaxSize /\ IsSize(t, n)
    BY Compacted
  <2> QED BY <2>1, <1>0 DEF IsSize
<1>2. /\ Length(t) = IF Big(t) THEN n + 1 ELSE n
      /\ Unit(t) = IF Length(t) <= Digits THEN 1 ELSE Power[Length(t) - Digits]
      /\ Level(t) = IF Big(t) THEN Half * w ELSE w
      /\ Big(t) <=> Half * w <= t
  BY Zenon DEF Length, Unit, Level, Big
<1>3. w \in Nat \ {0}
  <2>1. n - 1 \in 0 .. Top
    BY <1>0, <1>1
  <2> QED BY <2>1, Powers, Zenon
<1>4. Half * w \in Nat \ {0}
  BY <1>0, <1>3, Products
<1>5. Level(t) \in Nat \ {0} /\ Level(t) <= t
  BY <1>1, <1>2, <1>3, <1>4, Zenon
<1>6. CASE Length(t) <= Digits
  <2>1. Unit(t) = 1 /\ Unit(t) * Level(t) = Level(t)
    BY <1>2, <1>5, <1>6
  <2> QED BY <1>5, <2>1, Zenon
<1>7. CASE ~(Length(t) <= Digits) /\ ~Big(t)
  <2>1. /\ n - Digits \in Nat /\ Digits - 1 \in Nat /\ (n - Digits) + (Digits - 1) = n - 1
        /\ n - 1 <= Top
    BY <1>0, <1>1, <1>2, <1>7
  <2>2. w = Power[n - Digits] * Power[Digits - 1] /\ Power[Digits - 1] \in Nat
    BY <2>1, PowersAdd
  <2>3. Level(t) = w /\ Unit(t) = Power[n - Digits]
    BY <1>2, <1>7, Zenon
  <2> QED BY <1>5, <2>2, <2>3, Zenon
<1>8. CASE ~(Length(t) <= Digits) /\ Big(t)
  <2> DEFINE u == Power[(n + 1) - Digits]
             v == Power[Digits - 2]
  <2>1. /\ (n + 1) - Digits \in Nat /\ Digits - 2 \in Nat
        /\ ((n + 1) - Digits) + (Digits - 2) = n - 1 /\ n - 1 <= Top
    BY <1>0, <1>1, <1>2, <1>8
  <2>2. w = u * v /\ u \in Nat /\ v \in Nat
    BY <2>1, PowersAdd
  <2>3. Level(t) = Half * w /\ Unit(t) = u
    BY <1>2, <1>8, Zenon
  <2> HIDE DEF u, v, w
  <2>4. Half * w = u * (Half * v) /\ Half * v \in Nat
    BY <1>0, <2>2
  <2> QED BY <1>5, <2>3, <2>4, Zenon
<1> QED
  BY <1>5, <1>6, <1>7, <1>8, Zenon

(* Two targets have the same level and unit, or the lesser is below the    *)
(* level of the greater.                                                   *)
LEMMA SameLevel ==
  ASSUME NEW s \in Targets, s # 0, NEW t \in Targets, t # 0, s <= t
  PROVE  s < Level(t) \/ (Level(s) = Level(t) /\ Unit(s) = Unit(t))
<1> DEFINE m == Size(s)
           n == Size(t)
           w == Power[n - 1]
<1>0. Top \in Nat /\ MaxSize \in Nat /\ MaxSize <= Top /\ Half \in Nat \ {0}
  BY BaseFacts, HalfFacts
<1>1. /\ s \in Nat /\ m \in 1 .. MaxSize /\ m \in Nat /\ Power[m - 1] <= s /\ s < Power[m]
      /\ t \in Nat /\ n \in 1 .. MaxSize /\ n \in Nat /\ w <= t /\ t < Power[n]
  <2>1. s \in Nat /\ m \in 1 .. MaxSize /\ IsSize(s, m)
    BY Compacted
  <2>2. t \in Nat /\ n \in 1 .. MaxSize /\ IsSize(t, n)
    BY Compacted
  <2> QED BY <2>1, <2>2, <1>0 DEF IsSize
<1>2. \A i, j \in 1 .. MaxSize : i < j => /\ Power[i] \in Nat /\ Power[j - 1] \in Nat
                                         /\ Power[i] <= Power[j - 1]
  <2> SUFFICES ASSUME NEW i \in 1 .. MaxSize, NEW j \in 1 .. MaxSize, i < j
               PROVE  /\ Power[i] \in Nat /\ Power[j - 1] \in Nat
                      /\ Power[i] <= Power[j - 1]
    BY Zenon
  <2>1. i \in Nat /\ (j - 1) - i \in Nat /\ i + ((j - 1) - i) = j - 1 /\ j - 1 <= Top
    BY <1>0
  <2>2. j - 1 \in 0 .. Top
    BY <1>0
  <2> QED BY <2>1, <2>2, PowersAdd, Powers
<1>3. w \in Nat \ {0}
  <2>1. n - 1 \in 0 .. Top
    BY <1>0, <1>1
  <2> QED BY <2>1, Powers, Zenon
<1>4. Half * w \in Nat /\ w <= Half * w
  BY <1>0, <1>3, Products
<1>5. /\ Level(t) = IF Big(t) THEN Half * w ELSE w
      /\ Big(t) <=> Half * w <= t
  BY Zenon DEF Level, Big
<1>6. CASE m < n
  <2>1. Power[m] <= w /\ Power[m] \in Nat
    BY <1>1, <1>2, <1>6
  <2>2. s < w
    BY <1>1, <1>3, <2>1
  <2>3. s < Half * w
    BY <1>1, <1>3, <1>4, <2>2
  <2> QED BY <1>5, <2>2, <2>3, Zenon
<1>7. ~(n < m)
  <2> SUFFICES ASSUME n < m PROVE FALSE
    OBVIOUS
  <2>1. Power[n] <= Power[m - 1] /\ Power[n] \in Nat /\ Power[m - 1] \in Nat
    BY <1>1, <1>2
  <2> QED BY <1>1, <2>1
<1>8. CASE m = n
  <2>1. Big(s) <=> Half * w <= s
    BY <1>8, Zenon DEF Big
  <2>2. Big(s) => Big(t)
    BY <1>1, <1>4, <1>5, <2>1
  <2>3. CASE Big(s) <=> Big(t)
    BY <1>8, <2>3, Zenon DEF Level, Unit, Length
  <2>4. CASE ~Big(s) /\ Big(t)
    BY <1>1, <1>4, <1>5, <2>1, <2>4
  <2> QED BY <2>2, <2>3, <2>4, Zenon
<1>9. m < n \/ m = n
  BY <1>1, <1>7
<1> QED
  BY <1>6, <1>8, <1>9, Zenon

(* What the compact form of 0 is worth.                                    *)
LEMMA Zero ==
  /\ 0 \in Targets /\ GetCompact(0) = [size |-> 0, mant |-> 0]
  /\ Rounding(0) = 0
<1>0. /\ Top \in Nat /\ MaxSize \in 0 .. Top /\ Digits \in 0 .. Top /\ Digits \in Nat
      /\ 0 \in 0 .. MaxSize
  BY BaseFacts
<1>1. Power[MaxSize] \in Nat \ {0} /\ Power[Digits] \in Nat \ {0} /\ Power[0] = 1
  BY <1>0, Powers, Zenon
<1>2. 0 \in Targets /\ 0 < Power[MaxSize] /\ IsSize(0, 0)
  BY <1>1 DEF Targets, IsSize
<1>3. Size(0) = 0
  BY <1>0, <1>2, Sizes, Zenon
<1>4. 0 <= Digits /\ Digits - 0 = Digits /\ 0 * Power[Digits] = 0 /\ ~(2 * 0 >= Power[Digits])
  BY <1>0, <1>1
<1>5. GetCompact(0) = [size |-> 0, mant |-> 0]
  BY <1>3, <1>4, Zenon DEF GetCompact
<1>6. Rounding(0) = (0 \div Power[Digits]) % Power[MaxSize]
  <2>1. GetCompact(0).size = 0 /\ GetCompact(0).mant = 0
    BY <1>5
  <2> QED BY <1>4, <2>1, Zenon DEF Rounding, SetCompact
<1> QED
  BY <1>1, <1>2, <1>5, <1>6

(* SetCompact loses no digit of a compact form that GetCompact made.       *)
LEMMA RoundingIs ==
  ASSUME NEW t \in Targets, t # 0
  PROVE  /\ Unit(t) \in Nat \ {0} /\ t \div Unit(t) \in Nat
         /\ Rounding(t) = Unit(t) * (t \div Unit(t))
         /\ Rounding(t) \in Nat /\ Rounding(t) <= t
<1> DEFINE u == Unit(t)
           r == u * (t \div u)
<1>1. t \in Nat /\ t < Power[MaxSize] /\ u \in Nat \ {0} /\ Worth(GetCompact(t)) = r
  BY WorthIs DEF Targets
<1>2. t \div u \in Nat /\ r \in Nat /\ r <= t
  BY <1>1, Quotient, Products
<1>3. Power[MaxSize] \in Nat \ {0}
  <2>1. MaxSize \in 0 .. Top
    BY BaseFacts
  <2> QED BY <2>1, Powers, Zenon
<1>4. Rounding(t) = r % Power[MaxSize]
  BY <1>1, Zenon DEF Rounding, SetCompact, Worth
<1> HIDE DEF u, r
<1>5. r % Power[MaxSize] = r
  BY <1>1, <1>2, <1>3
<1> QED
  BY <1>1, <1>2, <1>4, <1>5, Zenon DEF u, r

(* A rounded target keeps its level, and so its unit.                      *)
LEMMA RoundingStays ==
  ASSUME NEW t \in Targets, t # 0
  PROVE  /\ Rounding(t) \in Targets /\ Rounding(t) # 0
         /\ Level(t) <= Rounding(t) /\ Unit(Rounding(t)) = Unit(t)
<1> DEFINE u == Unit(t)
           q == t \div u
           r == Rounding(t)
<1>1. t \in Nat /\ t < Power[MaxSize] /\ Power[MaxSize] \in Nat
  <2>1. MaxSize \in 0 .. Top
    BY BaseFacts
  <2> QED BY <2>1, Powers DEF Targets
<1>2. u \in Nat \ {0} /\ q \in Nat /\ r = u * q /\ r \in Nat /\ r <= t
  BY RoundingIs, Zenon
<1>3. PICK k \in Nat : Level(t) = u * k
  BY Levels, Zenon
<1>4. Level(t) \in Nat \ {0} /\ Level(t) <= t
  BY Levels, Zenon
<1>5. k <= q
  BY <1>1, <1>2, <1>3, <1>4, Quotient
<1>6. u * k <= u * q
  <2> HIDE DEF u, q
  <2> QED BY <1>2, <1>5, Products
<1>7. Level(t) <= r
  BY <1>2, <1>3, <1>6, Zenon
<1> HIDE DEF u, q, r
<1>8. r \in Targets /\ r # 0 /\ ~(r < Level(t))
  BY <1>1, <1>2, <1>4, <1>7 DEF Targets
<1>9. Unit(r) = Unit(t)
  BY <1>2, <1>8, SameLevel, Zenon
<1> QED
  BY <1>7, <1>8, <1>9, Zenon DEF r

-----------------------------------------------------------------------------
(* The theorems.                                                           *)

(* Writing a target in the nBits of a header and reading it back           *)
(* (arith_uint256::GetCompact and SetCompact) never raises it, changes     *)
(* nothing the second time, keeps the order of targets, and makes none     *)
(* zero.  Retargeting and PermittedDifficultyTransition compare targets    *)
(* that were rounded so, and DeriveTarget refuses a target of zero.        *)
THEOREM CompactRounds ==
  /\ \A t \in Targets : Rounding(t) \in 0 .. t /\ Rounding(Rounding(t)) = Rounding(t)
  /\ \A s, t \in Targets : s <= t => Rounding(s) <= Rounding(t)
  /\ \A t \in Targets : t # 0 => Rounding(t) # 0
<1>0. \A t \in Targets : t \in Nat
  BY Zenon DEF Targets
<1>1. ASSUME NEW t \in Targets PROVE Rounding(t) \in 0 .. t
  <2>1. CASE t = 0
    BY <2>1, Zero
  <2>2. CASE t # 0
    <3>1. Rounding(t) \in Nat /\ Rounding(t) <= t /\ t \in Nat
      BY <1>0, <2>2, RoundingIs, Zenon
    <3> QED BY <3>1
  <2> QED BY <2>1, <2>2
<1>2. ASSUME NEW t \in Targets PROVE Rounding(Rounding(t)) = Rounding(t)
  <2>1. CASE t = 0
    BY <2>1, Zero, Zenon
  <2>2. CASE t # 0
    <3> DEFINE u == Unit(t)
               q == t \div u
               r == Rounding(t)
    <3>1. u \in Nat \ {0} /\ q \in Nat /\ r = u * q
      BY <2>2, RoundingIs, Zenon
    <3>2. r \in Targets /\ r # 0 /\ Unit(r) = u
      BY <2>2, RoundingStays, Zenon
    <3>3. Rounding(r) = u * (r \div u)
      BY <3>2, RoundingIs, Zenon
    <3> HIDE DEF u, q, r
    <3>4. r = q * u
      BY <3>1
    <3>5. (q * u) \div u = q
      BY <3>1, Quotients, Zenon
    <3> QED BY <3>1, <3>3, <3>4, <3>5, Zenon DEF r
  <2> QED BY <2>1, <2>2
<1>3. ASSUME NEW s \in Targets, NEW t \in Targets, s <= t PROVE Rounding(s) <= Rounding(t)
  <2>0. s \in Nat /\ t \in Nat /\ Rounding(s) \in 0 .. s /\ Rounding(t) \in 0 .. t
    BY <1>0, <1>1, Zenon
  <2>1. CASE s = 0
    BY <2>0, <2>1
  <2>2. CASE s # 0
    <3>0. t # 0
      BY <1>3, <2>0, <2>2
    <3>1. CASE s < Level(t)
      <4>1. Level(t) <= Rounding(t) /\ Level(t) \in Nat
        BY <3>0, RoundingStays, Levels, Zenon
      <4> QED BY <2>0, <3>1, <4>1
    <3>2. CASE Unit(s) = Unit(t)
      <4> DEFINE u == Unit(t)
                 p == s \div u
                 q == t \div u
      <4>1. /\ u \in Nat \ {0} /\ p \in Nat /\ q \in Nat
            /\ Rounding(s) = u * p /\ Rounding(t) = u * q
        BY <2>2, <3>0, <3>2, RoundingIs, Zenon
      <4>2. u * p <= s
        BY <2>0, <4>1
      <4>3. u * p <= t
        BY <1>3, <2>0, <4>1, <4>2
      <4>4. p <= q
        BY <2>0, <4>1, <4>3, Quotient
      <4> HIDE DEF u, p, q
      <4>5. u * p <= u * q
        BY <4>1, <4>4, Products
      <4> QED BY <4>1, <4>5, Zenon
    <3> QED BY <1>3, <2>2, <3>0, <3>1, <3>2, SameLevel, Zenon
  <2> QED BY <2>1, <2>2
<1>4. \A t \in Targets : t # 0 => Rounding(t) # 0
  BY RoundingStays, Zenon
<1> QED
  BY <1>1, <1>2, <1>3, <1>4, Zenon

(* The two assertions of GetCompact, for every target: the mantissa, after *)
(* the digit it may have given up, has its sign bit clear, and the size is *)
(* at most one more than the digits of a word.                             *)
THEOREM CompactFits ==
  \A t \in Targets : /\ GetCompact(t).mant \in Nat /\ 2 * GetCompact(t).mant < Power[Digits]
                    /\ GetCompact(t).size \in 0 .. MaxSize + 1
<1> SUFFICES ASSUME NEW t \in Targets
             PROVE  /\ GetCompact(t).mant \in Nat /\ 2 * GetCompact(t).mant < Power[Digits]
                    /\ GetCompact(t).size \in 0 .. MaxSize + 1
  BY Zenon
<1> DEFINE n == Size(t)
           m == Mantissa(t, n)
           c == GetCompact(t)
<1>0. /\ Top \in Nat /\ MaxSize \in Nat /\ MaxSize <= Top /\ Digits \in Nat /\ Digits \in 0 .. Top
      /\ Base \in Nat \ {0, 1}
  BY BaseFacts
<1>1. Power[Digits] \in Nat \ {0}
  BY <1>0, Powers, Zenon
<1>2. CASE t = 0
  <2>1. c.size = 0 /\ c.mant = 0
    BY <1>2, Zero
  <2> HIDE DEF c
  <2> QED BY <1>0, <1>1, <2>1 DEF c
<1>3. CASE t # 0
  <2>1. t \in Nat /\ n \in 1 .. MaxSize /\ IsSize(t, n)
    BY <1>3, Compacted
  <2>2. t < Power[n] /\ n \in Nat /\ n \in 0 .. Top
    BY <1>0, <2>1 DEF IsSize
  <2>3. Power[n] \in Nat \ {0}
    BY <2>2, Powers, Zenon
  <2>4. m \in Nat /\ (2 * m >= Power[Digits] <=> Big(t))
    BY <2>1, SignBit, Zenon DEF Big
  <2>5. m < Power[Digits]
    <3>1. CASE n <= Digits
      <4> DEFINE p == Power[Digits - n]
      <4>1. Digits - n \in Nat /\ n + (Digits - n) = Digits /\ Digits <= Top
        BY <1>0, <2>2, <3>1
      <4>2. p \in Nat \ {0} /\ Power[Digits] = Power[n] * p
        BY <2>2, <4>1, PowersAdd
      <4>3. m = t * p
        BY <3>1, Zenon DEF Mantissa
      <4> HIDE DEF p, m
      <4>4. t * p < Power[n] * p
        BY <2>1, <2>2, <2>3, <4>2
      <4> QED BY <4>2, <4>3, <4>4, Zenon
    <3>2. CASE ~(n <= Digits)
      <4> DEFINE q == Power[n - Digits]
      <4>1. n - Digits \in Nat /\ (n - Digits) + Digits = n /\ n <= Top
        BY <1>0, <2>2, <3>2
      <4>2. q \in Nat \ {0} /\ Power[n] = q * Power[Digits]
        BY <1>0, <4>1, PowersAdd
      <4>3. m = t \div q
        BY <3>2, Zenon DEF Mantissa
      <4> HIDE DEF q, m
      <4>4. ~(q * Power[Digits] <= t)
        BY <2>1, <2>2, <2>3, <4>2
      <4>5. ~(Power[Digits] <= m)
        BY <1>1, <2>1, <4>2, <4>3, <4>4, Quotient, Zenon
      <4> QED BY <1>1, <2>4, <4>5
    <3> QED BY <3>1, <3>2
  <2>6. CASE ~Big(t)
    <3>1. c = [size |-> n, mant |-> m]
      BY <1>3, <2>6, Compacted, Zenon
    <3>2. c.size = n /\ c.mant = m
      BY <3>1
    <3> HIDE DEF c, n, m
    <3>3. m \in Nat /\ 2 * m < Power[Digits] /\ n \in 0 .. MaxSize + 1
      BY <1>0, <1>1, <2>1, <2>4, <2>6
    <3> QED BY <3>2, <3>3, Zenon DEF c
  <2>7. CASE Big(t)
    <3> DEFINE d == m \div Base
    <3>1. c = [size |-> n + 1, mant |-> d]
      BY <1>3, <2>7, Compacted, Zenon
    <3>2. c.size = n + 1 /\ c.mant = d
      BY <3>1
    <3> HIDE DEF c, n, m
    <3>3. d \in Nat /\ Base * d <= m
      BY <1>0, <2>4, Quotient
    <3> HIDE DEF d
    <3>4. 2 * d <= Base * d
      BY <1>0, <3>3
    <3>5. Base * d \in Nat
      BY <1>0, <3>3
    <3>6. 2 * d < Power[Digits] /\ n + 1 \in 0 .. MaxSize + 1
      BY <1>0, <1>1, <2>1, <2>4, <2>5, <3>3, <3>4, <3>5
    <3> QED BY <3>2, <3>3, <3>6, Zenon DEF c
  <2> QED BY <2>6, <2>7
<1> QED
  BY <1>2, <1>3
=============================================================================
