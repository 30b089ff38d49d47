------------------------- MODULE PowRetargetProofs --------------------------
(***************************************************************************)
(* Proofs about PowRetarget, for every set of networks, every interval and *)
(* every compact form that rounds down monotonically.                      *)
(***************************************************************************)
EXTENDS PowRetarget, FiniteSetTheorems, WellFoundedInduction, TLAPS

(* Multiplication by a natural number is monotone.                         *)
LEMMA TimesMonotone ==
  ASSUME NEW x \in Nat, NEW a \in Nat, NEW b \in Nat, a <= b
  PROVE  x * a \in Nat /\ x * b \in Nat /\ x * a <= x * b
  BY SMT

(* Division by a positive number is monotone.                              *)
LEMMA DivMonotone ==
  ASSUME NEW p \in Nat, NEW q \in Nat, p <= q, NEW d \in Nat \ {0}
  PROVE  p \div d \in Nat /\ q \div d \in Nat /\ p \div d <= q \div d
  BY SMT

(* Multiplying and dividing by the same number changes nothing.            *)
LEMMA TimesDiv ==
  ASSUME NEW x \in Nat, NEW d \in Nat \ {0}
  PROVE  (x * d) \div d = x
  BY SMT

(* A non-empty set of naturals with an upper bound has a maximum.          *)
LEMMA MaxExists ==
  ASSUME NEW S \in SUBSET Nat, S # {}, NEW u \in Nat, \A y \in S : y <= u
  PROVE  Max(S) \in S /\ \A y \in S : y <= Max(S)
<1> DEFINE T == {u - y : y \in S}
           R == {ss \in Nat \X Nat : ss[1] < ss[2]}
<1>1. T \in SUBSET Nat /\ T # {}
  <2>1. \A y \in S : u - y \in Nat
    OBVIOUS
  <2> QED BY <2>1, Zenon
<1>2. IsWellFoundedOn(R, Nat)
  BY Zenon, NatLessThanWellFounded DEF OpToRel
<1>3. PICK x \in T : \A y \in T : ~(<<y, x>> \in R)
  <2> HIDE DEF R, T
  <2> QED BY <1>1, <1>2, WFMin, Zenon
<1>4. PICK m \in S : x = u - m
  BY Zenon, <1>3
<1>5. \A y \in S : m >= y
  <2> TAKE y \in S
  <2>1. u - y \in T /\ u - y \in Nat /\ x \in Nat
    BY Zenon, <1>1, <1>3
  <2>2. ~(u - y < x)
    BY Zenon, <2>1, <1>3
  <2> QED BY <2>1, <2>2, <1>4
<1>6. \E z \in S : \A y \in S : z >= y
  BY Zenon, <1>5
<1>7. Max(S) \in S /\ \A y \in S : Max(S) >= y
  BY <1>6, Zenon DEF Max
<1> QED
  BY Zenon, <1>7

(* A positive multiple of d is at least d.                                 *)
LEMMA MultipleAtLeast ==
  ASSUME NEW l \in Nat \ {0}, NEW d \in Nat \ {0}, l % d = 0
  PROVE  l >= d
  BY SMT

-----------------------------------------------------------------------------
(* The limits on the timespan are in order, and Clamped keeps to them.     *)
LEMMA Spans ==
  /\ Shortest \in Nat /\ Longest \in Nat /\ Shortest <= TargetTimespan
  /\ TargetTimespan <= Longest
  /\ \A a \in Int : Clamped(a) \in Shortest .. Longest
  BY PowAssumption DEF Shortest, Longest, Clamped

(* What CalculateNextWorkRequired computes grows with the timespan, and    *)
(* never exceeds the limit.                                                *)
LEMMA ScaledGrows ==
  ASSUME NEW n \in Nets, NEW bits, Target(bits) \in Nat, Target(bits) * Longest < Width,
         NEW a \in Nat, NEW b \in Nat, a <= b, b <= Longest
  PROVE  /\ Scaled(n, bits, a) \in 0 .. n.powLimit
         /\ Scaled(n, bits, b) \in 0 .. n.powLimit
         /\ Scaled(n, bits, a) <= Scaled(n, bits, b)
<1> DEFINE x == Target(bits)
<1>1. n.powLimit \in Nat /\ Width \in Nat /\ TargetTimespan \in Nat \ {0}
  BY Zenon, PowAssumption
<1>2. x * a \in Nat /\ x * b \in Nat /\ x * a <= x * b /\ x * b <= x * Longest
  BY Zenon, TimesMonotone, Spans
<1>3. (x * a) % Width = x * a /\ (x * b) % Width = x * b
  <2> DEFINE p == x * a  q == x * b  r == x * Longest
  <2>1. p \in Nat /\ q \in Nat /\ p <= q /\ q <= r /\ r < Width /\ r \in Int
    BY <1>2, Spans
  <2> HIDE DEF p, q, r
  <2>2. p % Width = p /\ q % Width = q
    BY <2>1, <1>1
  <2> QED BY Zenon, <2>2 DEF p, q
<1>4. /\ (x * a) \div TargetTimespan \in Nat /\ (x * b) \div TargetTimespan \in Nat
      /\ (x * a) \div TargetTimespan <= (x * b) \div TargetTimespan
  BY Zenon, <1>1, <1>2, DivMonotone
<1>5. /\ Scaled(n, bits, a) = IF (x * a) \div TargetTimespan > n.powLimit
                              THEN n.powLimit ELSE (x * a) \div TargetTimespan
      /\ Scaled(n, bits, b) = IF (x * b) \div TargetTimespan > n.powLimit
                              THEN n.powLimit ELSE (x * b) \div TargetTimespan
  BY <1>3, Zenon DEF Scaled
<1> DEFINE s == (x * a) \div TargetTimespan  t == (x * b) \div TargetTimespan
<1> HIDE DEF s, t
<1> QED
  BY <1>1, <1>4, <1>5 DEF s, t

(* Whatever the product overflows to, the limit holds.                     *)
LEMMA ScaledInRange ==
  ASSUME NEW n \in Nets, NEW bits, Target(bits) \in Nat, NEW a \in Nat
  PROVE  Scaled(n, bits, a) \in 0 .. n.powLimit
<1> DEFINE p == Target(bits) * a
           q == p % Width
           t == q \div TargetTimespan
<1>1. n.powLimit \in Nat /\ Width \in Nat \ {0} /\ TargetTimespan \in Nat \ {0}
  BY Zenon, PowAssumption
<1>2. p \in Nat
  OBVIOUS
<1> HIDE DEF p
<1>3. q \in Nat
  BY <1>1, <1>2
<1> HIDE DEF q
<1>4. t \in Nat
  BY <1>1, <1>3
<1>5. Scaled(n, bits, a) = IF t > n.powLimit THEN n.powLimit ELSE t
  BY Zenon DEF Scaled, p, q
<1> HIDE DEF t
<1> QED
  BY <1>1, <1>4, <1>5

(* From a target that the shortest timespan does not scale to nothing, no  *)
(* timespan does.                                                          *)
LEMMA ScaledNotZero ==
  ASSUME NEW n \in Nets, NEW bits, Target(bits) \in Nat, Target(bits) * Longest < Width,
         Target(bits) * Shortest >= TargetTimespan,
         NEW a \in Nat, Shortest <= a, a <= Longest
  PROVE  Scaled(n, bits, a) \in 1 .. n.powLimit
<1> DEFINE p == Target(bits) * Shortest
           r == Target(bits) * Longest
           t == p \div TargetTimespan
<1>1. /\ n.powLimit \in Nat \ {0} /\ Width \in Nat \ {0} /\ TargetTimespan \in Nat \ {0}
      /\ Shortest \in Nat /\ Longest \in Nat
  BY Zenon, PowAssumption, Spans
<1>2. p \in Nat /\ r \in Nat /\ p <= r
  <2>1. Shortest <= Longest
    BY <1>1
  <2> QED BY Zenon, <1>1, <2>1, TimesMonotone
<1>3. p >= TargetTimespan /\ r < Width
  BY Zenon
<1>4. Scaled(n, bits, Shortest) = LET q == (p % Width) \div TargetTimespan
                                  IN IF q > n.powLimit THEN n.powLimit ELSE q
  BY Zenon DEF Scaled
<1> HIDE DEF p, r
<1>5. p % Width = p
  BY <1>1, <1>2, <1>3
<1>6. t \in Nat /\ t >= 1
  BY <1>1, <1>2, <1>3
<1>7. Scaled(n, bits, Shortest) = IF t > n.powLimit THEN n.powLimit ELSE t
  BY Zenon, <1>4, <1>5
<1> HIDE DEF t
<1>8. Scaled(n, bits, Shortest) >= 1
  BY <1>1, <1>6, <1>7
<1>9. /\ Scaled(n, bits, Shortest) \in 0 .. n.powLimit /\ Scaled(n, bits, a) \in 0 .. n.powLimit
      /\ Scaled(n, bits, Shortest) <= Scaled(n, bits, a)
  BY Zenon, <1>1, ScaledGrows
<1> QED
  BY <1>1, <1>8, <1>9

(* Compact form rounds down, monotonically, and once only.                 *)
LEMMA Rounding ==
  ASSUME NEW n \in Nets, NEW s \in 0 .. n.powLimit, NEW t \in 0 .. n.powLimit, s <= t
  PROVE  /\ Rounded(s) \in 0 .. s /\ Rounded(t) \in 0 .. t
         /\ Rounded(s) <= Rounded(t) /\ Rounded(Rounded(t)) = Rounded(t)
  BY Zenon, PowAssumption

-----------------------------------------------------------------------------
(* A non-empty set of naturals has a minimum.                              *)
LEMMA MinExists ==
  ASSUME NEW S \in SUBSET Nat, S # {}
  PROVE  \E x \in S : \A y \in S : x <= y
<1> DEFINE R == {ss \in Nat \X Nat : ss[1] < ss[2]}
<1>1. IsWellFoundedOn(R, Nat)
  BY Zenon, NatLessThanWellFounded DEF OpToRel
<1>2. PICK x \in S : \A y \in S : ~(<<y, x>> \in R)
  <2> HIDE DEF R
  <2> QED BY <1>1, WFMin, Zenon
<1>3. \A y \in S : x <= y
  <2> TAKE y \in S
  <2>1. ~(y < x)
    BY Zenon, <1>2
  <2> QED BY <2>1
<1> QED
  BY Zenon, <1>3

(* The blocks on the chain: their times and the targets of their bits.     *)
LEMMA ChainFacts ==
  ASSUME TypeOK
  PROVE  /\ net \in Nets /\ net.powLimit \in Nat /\ Len(chain) \in Nat \ {0}
         /\ \A i \in 1 .. Len(chain) :
              /\ chain[i] \in Blocks(net) /\ chain[i].time \in Nat /\ chain[i].bits \in Bits(net)
              /\ Target(chain[i].bits) \in Nat
              /\ i # 1 => Target(chain[i].bits) <= net.powLimit
<1>1. net \in Nets /\ net.powLimit \in Nat /\ Target(net.genesisBits) \in Nat
  BY Zenon, PowAssumption DEF TypeOK
<1>2. Len(chain) \in Nat \ {0}
  BY DEF TypeOK
<1>3. ASSUME NEW i \in 1 .. Len(chain)
      PROVE  /\ chain[i] \in Blocks(net) /\ chain[i].time \in Nat /\ chain[i].bits \in Bits(net)
             /\ Target(chain[i].bits) \in Nat
             /\ i # 1 => Target(chain[i].bits) <= net.powLimit
  <2>1. chain[i] \in Blocks(net) /\ chain[i].time \in Nat /\ chain[i].bits \in Bits(net)
    <3>1. chain[i] \in Blocks(net)
      BY <1>2 DEF TypeOK
    <3> QED BY <3>1, Zenon DEF Blocks
  <2>2. CASE i = 1
    BY Zenon, <1>1, <2>1, <2>2 DEF TypeOK
  <2>3. CASE i # 1
    <3>1. Target(chain[i].bits) \in 1 .. net.powLimit
      BY <1>2, <2>3 DEF TypeOK
    <3> QED
      BY <1>1, <2>1, <3>1
  <2> QED BY Zenon, <2>2, <2>3
<1> QED
  BY Zenon, <1>1, <1>2, <1>3

(* The median time is one of the times of the last blocks.                 *)
LEMMA MedianIsNat ==
  ASSUME TypeOK
  PROVE  MedianTimePast(chain) \in Nat
<1> DEFINE k == IF Len(chain) < MedianTimeSpan THEN Len(chain) ELSE MedianTimeSpan
           I == (Len(chain) - k + 1) .. Len(chain)
           A == {chain[i].time : i \in I}
           S == {t \in A : Cardinality({i \in I : chain[i].time < t}) <= k \div 2}
<1>1. k \in Nat \ {0} /\ k <= Len(chain) /\ Len(chain) \in I /\ I \subseteq 1 .. Len(chain)
  <2>1. Len(chain) \in Nat \ {0} /\ MedianTimeSpan \in Nat \ {0}
    BY Zenon, PowAssumption, ChainFacts
  <2>2. k \in Nat \ {0} /\ k <= Len(chain)
    BY <2>1
  <2> HIDE DEF k
  <2> QED BY <2>1, <2>2
<1>2. k \div 2 \in Nat
  BY <1>1
<1>3. clock + MaxFutureBlockTime \in Nat
      /\ \A i \in I : chain[i].time \in Nat /\ chain[i].time <= clock + MaxFutureBlockTime
  BY <1>1, PowAssumption, ChainFacts DEF TypeOK
<1> HIDE DEF k, I
<1>4. A \in SUBSET Nat /\ A # {} /\ \A t \in A : t <= clock + MaxFutureBlockTime
  BY Zenon, <1>1, <1>3
<1>5. PICK x \in A : \A y \in A : x <= y
  <2> HIDE DEF A
  <2> QED BY <1>4, MinExists, Zenon
<1>6. {i \in I : chain[i].time < x} = {}
  BY <1>3, <1>4, <1>5
<1>7. x \in S
  <2>1. Cardinality({i \in I : chain[i].time < x}) = 0
    BY <1>6, FS_EmptySet, Zenon
  <2>2. Cardinality({i \in I : chain[i].time < x}) <= k \div 2
    BY <1>2, <2>1
  <2> QED BY <1>5, <2>2, Zenon
<1>8. S \in SUBSET Nat /\ S # {} /\ \A t \in S : t <= clock + MaxFutureBlockTime
  BY Zenon, <1>4, <1>7
<1>9. Max(S) \in Nat
  <2> HIDE DEF S
  <2> QED BY Zenon, <1>8, <1>3, MaxExists
<1> QED
  BY Zenon, <1>9 DEF MedianTimePast, k, I

(* The earliest time of a template is a natural number later than the      *)
(* median, and respects the timewarp rule.                                 *)
LEMMA MinimumTime ==
  ASSUME TypeOK
  PROVE  /\ GetMinimumTime(chain) \in Nat /\ GetMinimumTime(chain) > MedianTimePast(chain)
         /\ StartsPeriod(chain) => GetMinimumTime(chain) >= Last(chain).time - MaxTimewarp
         /\ NewTime(chain) \in Nat /\ NewTime(chain) >= GetMinimumTime(chain)
         /\ NewTime(chain) = GetMinimumTime(chain) \/ NewTime(chain) = clock
<1>1. MedianTimePast(chain) \in Nat /\ Last(chain).time \in Nat /\ MaxTimewarp \in Nat /\ clock \in Nat
  BY MedianIsNat, ChainFacts, PowAssumption DEF Last, TypeOK
<1> QED
  BY <1>1 DEF GetMinimumTime, NewTime

-----------------------------------------------------------------------------
(* From a target within the limit no product overflows.                    *)
LEMMA NoOverflow ==
  ASSUME TypeOK, ~net.noRetargeting, NEW x \in Nat, x <= net.powLimit
  PROVE  x * Longest < Width
<1>1. /\ net.powLimit \in Nat /\ Width \in Nat /\ Longest \in Nat
      /\ net.powLimit * Longest < Width
  BY Zenon, PowAssumption, Spans DEF TypeOK
<1>2. Longest * x <= Longest * net.powLimit
  BY Zenon, <1>1, TimesMonotone
<1> QED
  BY <1>1, <1>2

(* A retarget moves the rounded target by at most the factor the limits on *)
(* the timespan stand for.                                                 *)
LEMMA Retarget ==
  ASSUME TypeOK, ~net.noRetargeting, NEW i \in 1 .. Len(chain),
         Target(chain[i].bits) <= net.powLimit, NEW a \in Int
  PROVE  LET s(b) == Scaled(net, chain[i].bits, b)
         IN /\ s(Clamped(a)) \in 0 .. net.powLimit
            /\ Rounded(s(Shortest)) <= Rounded(s(Clamped(a)))
            /\ Rounded(s(Clamped(a))) <= Rounded(s(Longest))
            /\ {Rounded(s(Shortest)), Rounded(s(Clamped(a))), Rounded(s(Longest))} \subseteq Nat
<1> DEFINE s(b) == Scaled(net, chain[i].bits, b)
           c == Clamped(a)
<1>1. /\ net \in Nets /\ net.powLimit \in Nat /\ Target(chain[i].bits) \in Nat
      /\ Target(chain[i].bits) * Longest < Width
  BY Zenon, ChainFacts, NoOverflow
<1>2. Shortest \in Nat /\ Longest \in Nat /\ c \in Nat /\ Shortest <= c /\ c <= Longest
  <2>1. Shortest \in Nat /\ Longest \in Nat /\ c \in Shortest .. Longest
    BY Spans, Zenon
  <2> HIDE DEF c
  <2> QED BY <2>1
<1>3. s(Shortest) \in 0 .. net.powLimit /\ s(c) \in 0 .. net.powLimit /\ s(Shortest) <= s(c)
  <2> HIDE DEF c
  <2> QED BY Zenon, <1>1, <1>2, ScaledGrows
<1>4. s(Longest) \in 0 .. net.powLimit /\ s(c) <= s(Longest)
  <2> HIDE DEF c
  <2>1. Longest <= Longest
    BY <1>2
  <2> QED BY Zenon, <1>1, <1>2, <2>1, ScaledGrows
<1>5. Rounded(s(Shortest)) <= Rounded(s(c)) /\ Rounded(s(Shortest)) \in Nat
  <2> HIDE DEF s, c
  <2> QED BY <1>1, <1>3, Rounding
<1>6. Rounded(s(c)) <= Rounded(s(Longest)) /\ Rounded(s(c)) \in Nat /\ Rounded(s(Longest)) \in Nat
  <2> HIDE DEF s, c
  <2> QED BY <1>1, <1>3, <1>4, Rounding
<1> QED
  BY Zenon, <1>3, <1>5, <1>6

(* Where the blocks are that GetNextWorkRequired looks at.                 *)
LEMMA Places ==
  ASSUME TypeOK
  PROVE  /\ \E i \in 1 .. Len(chain) : LastReal(chain, net) = chain[i]
         /\ Last(chain) = chain[Len(chain)] /\ Len(chain) \in 1 .. Len(chain)
         /\ StartsPeriod(chain) =>
              /\ Len(chain) - (DifficultyAdjustmentInterval - 1) \in 1 .. Len(chain)
              /\ Last(chain).time - FirstOfPeriod(chain).time \in Int
<1> DEFINE D == DifficultyAdjustmentInterval
           S == {h \in 0 .. Len(chain) - 1 : \/ h % D = 0
                                             \/ chain[h + 1].bits # PowLimitBits(net)}
<1>1. Len(chain) \in Nat \ {0} /\ D \in Nat \ {0}
  BY Zenon, ChainFacts, PowAssumption
<1>2. 0 % D = 0
  BY <1>1
<1>3. S \in SUBSET Nat /\ 0 \in S /\ (\A y \in S : y <= Len(chain) - 1) /\ Len(chain) - 1 \in Nat
  <2> HIDE DEF D
  <2> QED BY <1>1, <1>2
<1>4. Max(S) \in S
  <2> HIDE DEF S
  <2> QED BY Zenon, <1>3, MaxExists
<1>5. 1 + Max(S) \in 1 .. Len(chain)
  <2>1. Max(S) \in 0 .. Len(chain) - 1
    BY Zenon, <1>4
  <2> HIDE DEF S
  <2> QED BY <1>1, <2>1
<1>6. LastReal(chain, net) = chain[1 + Max(S)]
  BY Zenon DEF LastReal
<1>7. \E i \in 1 .. Len(chain) : LastReal(chain, net) = chain[i]
  <2> HIDE DEF S
  <2> QED BY <1>5, <1>6, Zenon
<1>8. Last(chain) = chain[Len(chain)] /\ Len(chain) \in 1 .. Len(chain)
  BY <1>1 DEF Last
<1>9. ASSUME StartsPeriod(chain)
      PROVE  /\ Len(chain) - (D - 1) \in 1 .. Len(chain)
             /\ Last(chain).time - FirstOfPeriod(chain).time \in Int
  <2>1. Len(chain) >= D
    BY Zenon, <1>1, <1>9, MultipleAtLeast DEF StartsPeriod
  <2>2. Len(chain) - (D - 1) \in 1 .. Len(chain)
    BY <1>1, <2>1
  <2>3. chain[Len(chain) - (D - 1)].time \in Nat /\ Last(chain).time \in Nat
    BY Zenon, <1>8, <2>2, ChainFacts
  <2> QED
    BY <2>2, <2>3 DEF FirstOfPeriod
<1> QED
  BY Zenon, <1>7, <1>8, <1>9

(* The bits of the next block: the limit's, those of a block on the chain, *)
(* or a retargeted target.                                                 *)
LEMMA NextBits ==
  ASSUME TypeOK, NEW t
  PROVE  LET g == GetNextWorkRequired(chain, t, net)
         IN \/ \E s \in 0 .. net.powLimit : g = Compact(s)
            \/ \E i \in 1 .. Len(chain) : g = chain[i].bits
<1> DEFINE g == GetNextWorkRequired(chain, t, net)
<1>1. net.powLimit \in 0 .. net.powLimit
  BY ChainFacts
<1>2. \/ g = PowLimitBits(net) \/ g = Last(chain).bits \/ g = LastReal(chain, net).bits
      \/ StartsPeriod(chain) /\ g = CalculateNextWorkRequired(chain, net)
  BY Zenon DEF GetNextWorkRequired, StartsPeriod
<1>3. CASE g = PowLimitBits(net)
  BY <1>1, <1>3, Zenon DEF PowLimitBits
<1>4. CASE g = Last(chain).bits \/ g = LastReal(chain, net).bits
  <2> HIDE DEF g
  <2> QED BY <1>4, Places, Zenon DEF g
<1>5. CASE StartsPeriod(chain) /\ g = CalculateNextWorkRequired(chain, net)
  <2> DEFINE a == Last(chain).time - FirstOfPeriod(chain).time
             i == IF net.enforceBIP94 THEN Len(chain) - (DifficultyAdjustmentInterval - 1)
                  ELSE Len(chain)
  <2>1. a \in Int /\ i \in 1 .. Len(chain)
    BY <1>5, Places, Zenon
  <2>2. g = Compact(Scaled(net, chain[i].bits, Clamped(a)))
    BY <1>5, Zenon DEF CalculateNextWorkRequired, FirstOfPeriod, Last
  <2> HIDE DEF a, i, g
  <2>3. Scaled(net, chain[i].bits, Clamped(a)) \in 0 .. net.powLimit
    <3>1. Clamped(a) \in Shortest .. Longest /\ Shortest \in Nat /\ Longest \in Nat
      BY <2>1, Spans, Zenon
    <3> DEFINE c == Clamped(a)
    <3> HIDE DEF c
    <3>2. c \in Nat
      BY <3>1 DEF c
    <3> QED BY Zenon, <2>1, <3>2, ChainFacts, ScaledInRange DEF c
  <2> QED
    BY <2>2, <2>3, Zenon DEF g
<1> QED
  BY <1>2, <1>3, <1>4, <1>5, Zenon

-----------------------------------------------------------------------------
(* During the soft launch every block has the bits of the limit.           *)
SoftLaunchAtLimit ==
  net.softLaunchHeight > 0 =>
    \A h \in 0 .. Len(chain) - 1 :
      h <= net.softLaunchHeight => chain[h + 1].bits = PowLimitBits(net)

PInv == /\ TypeOK /\ SoftLaunchAtLimit
        /\ DemandedIsPermitted /\ RealDifficultyKept /\ TemplateStaysValid

(* The compact form of a target can be mined, and so can the bits of every *)
(* block on the chain after the first.                                     *)
LEMMA Minable ==
  ASSUME TypeOK
  PROVE  /\ \A s \in 1 .. net.powLimit : CanBeMined(net, Compact(s))
         /\ \A i \in 1 .. Len(chain) :
              chain[i].bits = net.genesisBits \/ CanBeMined(net, chain[i].bits)
<1>1. net \in Nets /\ net.powLimit \in Nat /\ Len(chain) \in Nat \ {0}
  BY Zenon, ChainFacts
<1>2. ASSUME NEW s \in 1 .. net.powLimit PROVE CanBeMined(net, Compact(s))
  <2>1. s \in 0 .. net.powLimit /\ s <= net.powLimit
    BY <1>1
  <2>2. Rounded(s) \in 0 .. s /\ Rounded(s) # 0
    BY Zenon, <1>1, <2>1, PowAssumption
  <2>3. Rounded(s) # 0 /\ Rounded(s) <= net.powLimit
    BY <1>1, <2>1, <2>2
  <2> QED BY Zenon, <2>3 DEF Rounded, CanBeMined
<1>3. ASSUME NEW i \in 1 .. Len(chain)
      PROVE  chain[i].bits = net.genesisBits \/ CanBeMined(net, chain[i].bits)
  <2>1. CASE i = 1
    BY Zenon, <2>1 DEF TypeOK
  <2>2. CASE i # 1
    <3>1. i \in 2 .. Len(chain)
      BY <1>1, <2>2
    <3>2. Target(chain[i].bits) \in 1 .. net.powLimit
      BY Zenon, <3>1 DEF TypeOK
    <3>3. Target(chain[i].bits) # 0 /\ Target(chain[i].bits) <= net.powLimit
      BY <1>1, <3>2
    <3> QED BY Zenon, <3>3 DEF CanBeMined
  <2> QED BY Zenon, <2>1, <2>2
<1> QED
  BY Zenon, <1>2, <1>3

(* What GetNextWorkRequired demands, DeriveTarget does not refuse, but for *)
(* the two exceptions.                                                     *)
LEMMA RequiredHolds ==
  ASSUME TypeOK
  PROVE  RequiredCanBeMined
<1> SUFFICES ASSUME NEW t
             PROVE  LET bits == GetNextWorkRequired(chain, t, net)
                    IN \/ CanBeMined(net, bits)
                       \/ bits = net.genesisBits
                       \/ StartsPeriod(chain) /\ ~CanBeRetargeted(chain, net)
  BY Zenon DEF RequiredCanBeMined
<1> DEFINE g == GetNextWorkRequired(chain, t, net)
<1>0. net \in Nets /\ net.powLimit \in Nat \ {0}
  BY Zenon, PowAssumption DEF TypeOK
<1>1. \/ g = PowLimitBits(net) \/ g = Last(chain).bits \/ g = LastReal(chain, net).bits
      \/ StartsPeriod(chain) /\ ~net.noRetargeting /\ g = CalculateNextWorkRequired(chain, net)
  BY Zenon DEF GetNextWorkRequired, StartsPeriod
<1>2. CASE g = PowLimitBits(net)
  <2>1. net.powLimit \in 1 .. net.powLimit
    BY <1>0
  <2> QED BY Zenon, <1>2, <2>1, Minable DEF PowLimitBits
<1>3. CASE g = Last(chain).bits \/ g = LastReal(chain, net).bits
  <2> HIDE DEF g
  <2>1. PICK i \in 1 .. Len(chain) : g = chain[i].bits
    BY Zenon, <1>3, Places
  <2> QED BY Zenon, <2>1, Minable DEF g
<1>4. CASE /\ StartsPeriod(chain) /\ ~net.noRetargeting
           /\ g = CalculateNextWorkRequired(chain, net) /\ CanBeRetargeted(chain, net)
  <2> DEFINE a == Last(chain).time - FirstOfPeriod(chain).time
             i == IF net.enforceBIP94 THEN Len(chain) - (DifficultyAdjustmentInterval - 1)
                  ELSE Len(chain)
             x == Target(chain[i].bits)
  <2>1. a \in Int /\ i \in 1 .. Len(chain)
    BY Zenon, <1>4, Places
  <2>2. g = Compact(Scaled(net, chain[i].bits, Clamped(a)))
    BY Zenon, <1>4 DEF CalculateNextWorkRequired, FirstOfPeriod, Last
  <2>3. x <= net.powLimit /\ x * Shortest >= TargetTimespan
    BY Zenon, <1>4 DEF CanBeRetargeted, FirstOfPeriod, Last
  <2> HIDE DEF a, i, g
  <2>4. x \in Nat
    BY Zenon, <2>1, ChainFacts
  <2>5. x * Longest < Width
    BY Zenon, <1>4, <2>3, <2>4, NoOverflow
  <2> DEFINE c == Clamped(a)
  <2>6. c \in Shortest .. Longest /\ Shortest \in Nat /\ Longest \in Nat
    BY Zenon, <2>1, Spans
  <2> HIDE DEF c
  <2>7. c \in Nat /\ Shortest <= c /\ c <= Longest
    BY <2>6
  <2>8. Scaled(net, chain[i].bits, c) \in 1 .. net.powLimit
    BY Zenon, <1>0, <2>3, <2>4, <2>5, <2>7, ScaledNotZero
  <2> QED
    BY Zenon, <2>2, <2>8, Minable DEF g, c
<1> QED
  BY Zenon, <1>1, <1>2, <1>3, <1>4

(* CreateNewBlock passes its own validity test.                            *)
LEMMA TemplateHolds ==
  ASSUME TypeOK
  PROVE  TemplateCanBeMade
<1>1. SUFFICES ASSUME GetMinimumTime(chain) <= clock + MaxFutureBlockTime
               PROVE  ContextualCheckBlockHeader(NewHeader(chain), chain, net)
  BY Zenon DEF TemplateCanBeMade
<1>2. /\ NewHeader(chain).time = NewTime(chain)
      /\ NewHeader(chain).bits = GetNextWorkRequired(chain, NewTime(chain), net)
  BY Zenon DEF NewHeader
<1>3. /\ MedianTimePast(chain) \in Nat /\ Last(chain).time \in Nat /\ MaxTimewarp \in Nat
      /\ clock \in Nat /\ MaxFutureBlockTime \in Nat
  BY Zenon, MedianIsNat, ChainFacts, Places, PowAssumption DEF TypeOK
<1>4. NewTime(chain) > MedianTimePast(chain)
  BY <1>3, MinimumTime
<1>5. StartsPeriod(chain) => NewTime(chain) >= Last(chain).time - MaxTimewarp
  BY <1>3, MinimumTime
<1>6. NewTime(chain) <= clock + MaxFutureBlockTime
  BY <1>1, <1>3, MinimumTime
<1> QED
  BY <1>2, <1>4, <1>5, <1>6, Zenon DEF ContextualCheckBlockHeader

(* Headers synchronisation permits the bits that validation demands.       *)
LEMMA NextIsPermitted ==
  ASSUME TypeOK, SoftLaunchAtLimit, ~net.noRetargeting, ~net.allowMinDifficulty, NEW t
  PROVE  PermittedDifficultyTransition(net, Len(chain), chain[Len(chain)].bits,
                                       GetNextWorkRequired(chain, t, net))
<1> DEFINE L == Len(chain)
           g == GetNextWorkRequired(chain, t, net)
           old == chain[L].bits
<1>1. /\ L \in Nat \ {0} /\ net \in Nets /\ net.powLimit \in Nat /\ net.softLaunchHeight \in Nat
      /\ ~net.enforceBIP94
  BY Zenon, ChainFacts, PowAssumption
<1>2. CASE L <= net.softLaunchHeight
  <2>1. g = PowLimitBits(net)
    BY <1>2, Zenon DEF GetNextWorkRequired
  <2>2. old = PowLimitBits(net)
    <3>1. L - 1 \in 0 .. L - 1 /\ L - 1 <= net.softLaunchHeight /\ (L - 1) + 1 = L
          /\ net.softLaunchHeight > 0
      BY <1>1, <1>2
    <3>2. chain[(L - 1) + 1].bits = PowLimitBits(net)
      BY <3>1, Zenon DEF SoftLaunchAtLimit
    <3> QED BY <3>1, <3>2, Zenon
  <2>3. CASE StartsPeriod(chain)
    <3> DEFINE x == Target(old)
               s(b) == Scaled(net, old, b)
    <3>1. L \in 1 .. L
      BY <1>1
    <3>2. x = Rounded(net.powLimit)
      BY <2>2, Zenon DEF PowLimitBits, Rounded
    <3>3. /\ Rounded(net.powLimit) \in 0 .. net.powLimit
          /\ Rounded(Rounded(net.powLimit)) = Rounded(net.powLimit)
      BY <1>1, Rounding
    <3>4. x * Longest < Width /\ x \in Nat
      <4>1. x \in Nat /\ x <= net.powLimit
        BY <1>1, <3>2, <3>3
      <4> HIDE DEF x
      <4> QED BY Zenon, <4>1, NoOverflow
    <3>5. /\ Shortest \in Nat /\ Longest \in Nat /\ TargetTimespan \in Nat \ {0}
          /\ Shortest <= TargetTimespan /\ TargetTimespan <= Longest /\ Longest <= Longest
          /\ Width \in Nat
      BY Spans, PowAssumption
    <3>6. s(Shortest) \in 0 .. net.powLimit
      BY Zenon, <1>1, <3>4, <3>5, ScaledGrows
    <3>7. s(TargetTimespan) <= s(Longest) /\ s(Longest) \in 0 .. net.powLimit
      BY Zenon, <1>1, <3>4, <3>5, ScaledGrows
    <3>8. s(TargetTimespan) = x
      <4>1. x * TargetTimespan \in Nat /\ x * TargetTimespan <= x * Longest /\ x * Longest \in Nat
        BY Zenon, <3>4, <3>5, TimesMonotone
      <4> DEFINE p == x * TargetTimespan  r == x * Longest
      <4>2. p % Width = p
        <5>1. p \in Nat /\ r \in Nat /\ p <= r /\ r < Width
          BY Zenon, <3>4, <4>1
        <5> HIDE DEF p, r
        <5> QED BY <5>1, <3>5
      <4>3. p \div TargetTimespan = x
        BY Zenon, <3>4, <3>5, TimesDiv
      <4>4. ~(x > net.powLimit)
        BY <1>1, <3>2, <3>3
      <4> QED BY <4>2, <4>3, <4>4, Zenon DEF Scaled
    <3>9. Rounded(s(Longest)) >= Rounded(net.powLimit)
      <4>1. x <= s(Longest) /\ x \in 0 .. net.powLimit
        BY Zenon, <3>2, <3>3, <3>7, <3>8
      <4> HIDE DEF s, x
      <4>2. Rounded(x) <= Rounded(s(Longest)) /\ Rounded(x) \in Nat /\ Rounded(s(Longest)) \in Nat
        BY <1>1, <3>7, <4>1, Rounding
      <4> QED BY Zenon, <3>2, <3>3, <4>2
    <3>10. Rounded(s(Shortest)) <= Rounded(net.powLimit)
      <4>1. net.powLimit \in 0 .. net.powLimit /\ s(Shortest) <= net.powLimit
        BY <1>1, <3>6
      <4> HIDE DEF s
      <4> QED BY Zenon, <1>1, <3>6, <4>1, Rounding
    <3>11. Target(g) = Rounded(net.powLimit)
      BY <2>1, Zenon DEF PowLimitBits, Rounded
    <3>12. Rounded(s(Longest)) >= Target(g) /\ Rounded(s(Shortest)) <= Target(g)
      BY <3>9, <3>10, <3>11, Zenon
    <3> QED
      BY <2>3, <3>12, Zenon DEF PermittedDifficultyTransition, StartsPeriod
  <2>4. CASE ~StartsPeriod(chain)
    BY <2>1, <2>2, <2>4, Zenon DEF PermittedDifficultyTransition, StartsPeriod
  <2> QED BY Zenon, <2>3, <2>4
<1>3. CASE ~(L <= net.softLaunchHeight) /\ StartsPeriod(chain)
  <2> DEFINE a == Last(chain).time - FirstOfPeriod(chain).time
             s(b) == Scaled(net, old, b)
  <2>1. a \in Int /\ L \in 1 .. L
    BY <1>3, Places, Zenon
  <2>w. Target(chain[L].bits) <= net.powLimit
    <3>1. L >= DifficultyAdjustmentInterval /\ DifficultyAdjustmentInterval \in Nat \ {0, 1}
      BY Zenon, <1>1, <1>3, MultipleAtLeast, PowAssumption DEF StartsPeriod
    <3> QED BY <1>1, <3>1, ChainFacts
  <2>2. g = Compact(s(Clamped(a)))
    BY <1>1, <1>3, Zenon DEF GetNextWorkRequired, CalculateNextWorkRequired, StartsPeriod, Last
  <2>3. Target(g) = Rounded(s(Clamped(a)))
    BY <2>2, Zenon DEF Rounded
  <2> HIDE DEF a
  <2>4. /\ Rounded(s(Shortest)) <= Rounded(s(Clamped(a)))
        /\ Rounded(s(Clamped(a))) <= Rounded(s(Longest))
        /\ {Rounded(s(Shortest)), Rounded(s(Clamped(a))), Rounded(s(Longest))} \subseteq Nat
    BY Zenon, <2>1, <2>w, Retarget
  <2> HIDE DEF s
  <2>5. Rounded(s(Longest)) >= Target(g) /\ Rounded(s(Shortest)) <= Target(g)
    BY Zenon, <2>3, <2>4
  <2> QED
    BY <1>3, <2>5, Zenon DEF PermittedDifficultyTransition, StartsPeriod, s
<1>4. CASE ~(L <= net.softLaunchHeight) /\ ~StartsPeriod(chain)
  BY <1>4, Zenon DEF PermittedDifficultyTransition, GetNextWorkRequired, StartsPeriod, Last
<1> QED
  BY Zenon, <1>2, <1>3, <1>4

(* With BIP94, a retarget starts from the first block of the period.       *)
LEMMA NextKeepsDifficulty ==
  ASSUME TypeOK, net.enforceBIP94, ~net.noRetargeting, StartsPeriod(chain),
         Len(chain) > net.softLaunchHeight, NEW t,
         Target(chain[Len(chain) + 1 - DifficultyAdjustmentInterval].bits) <= net.powLimit
  PROVE  LET old == chain[Len(chain) + 1 - DifficultyAdjustmentInterval].bits
         IN Target(GetNextWorkRequired(chain, t, net)) \in
              Rounded(Scaled(net, old, Shortest)) .. Rounded(Scaled(net, old, Longest))
<1> DEFINE D == DifficultyAdjustmentInterval
           j == Len(chain) - (D - 1)
           a == Last(chain).time - FirstOfPeriod(chain).time
           g == GetNextWorkRequired(chain, t, net)
           s(b) == Scaled(net, chain[j].bits, b)
<1>1. /\ Len(chain) \in Nat /\ D \in Nat /\ net.softLaunchHeight \in Nat
      /\ j = Len(chain) + 1 - D /\ ~(Len(chain) <= net.softLaunchHeight)
  BY ChainFacts, PowAssumption
<1>2. j \in 1 .. Len(chain) /\ a \in Int
  BY Places, Zenon
<1>w. Target(chain[j].bits) <= net.powLimit
  BY <1>1, Zenon
<1>3. g = Compact(s(Clamped(a)))
  BY <1>1, Zenon DEF GetNextWorkRequired, CalculateNextWorkRequired, StartsPeriod, FirstOfPeriod
<1>4. Target(g) = Rounded(s(Clamped(a)))
  BY <1>3, Zenon DEF Rounded
<1> HIDE DEF a, j
<1>5. /\ Rounded(s(Shortest)) <= Rounded(s(Clamped(a)))
      /\ Rounded(s(Clamped(a))) <= Rounded(s(Longest))
      /\ {Rounded(s(Shortest)), Rounded(s(Clamped(a))), Rounded(s(Longest))} \subseteq Nat
  BY Zenon, <1>2, <1>w, Retarget
<1> HIDE DEF s
<1>6. Target(g) \in Rounded(s(Shortest)) .. Rounded(s(Longest))
  BY <1>4, <1>5
<1> QED
  BY <1>1, <1>6, Zenon DEF s

-----------------------------------------------------------------------------
(* A block that is accepted keeps the invariant.                           *)
LEMMA AddBlockKeeps ==
  ASSUME PInv, NEW b \in Blocks(net), AddBlock(b)
  PROVE  PInv'
<1> DEFINE L == Len(chain)
<1>1. L \in Nat \ {0} /\ chain \in Seq(Blocks(net)) /\ net \in Nets /\ net.powLimit \in Nat
      /\ clock \in Nat /\ MaxFutureBlockTime \in Nat
  BY Zenon, ChainFacts, PowAssumption DEF PInv, TypeOK
<1>2. /\ net' = net /\ clock' = clock /\ template' = None /\ chain' = Append(chain, b)
      /\ b.bits = GetNextWorkRequired(chain, b.time, net)
      /\ b.time <= clock + MaxFutureBlockTime
      /\ Target(b.bits) # 0 /\ Target(b.bits) <= net.powLimit
  BY Zenon DEF AddBlock, ContextualCheckBlockHeader, CanBeMined
<1>3. /\ chain' \in Seq(Blocks(net)) /\ Len(chain') = L + 1 /\ chain'[L + 1] = b
      /\ \A i \in 1 .. L : chain'[i] = chain[i]
  BY <1>1, <1>2
<1>4. Target(b.bits) \in Nat
  <2> DEFINE g == GetNextWorkRequired(chain, b.time, net)
  <2> HIDE DEF g
  <2>1. CASE \E s \in 0 .. net.powLimit : g = Compact(s)
    <3>1. PICK s \in 0 .. net.powLimit : g = Compact(s)
      BY Zenon, <2>1
    <3>2. Rounded(s) \in Nat
      BY <1>1, PowAssumption
    <3> QED BY <1>2, <3>1, <3>2, Zenon DEF Rounded, g
  <2>2. CASE \E i \in 1 .. Len(chain) : g = chain[i].bits
    BY <1>2, <2>2, ChainFacts, Zenon DEF g, PInv
  <2> QED BY Zenon, <2>1, <2>2, NextBits DEF g, PInv
<1>5. TypeOK'
  <2>1. chain' # <<>> /\ chain'[1].bits = net.genesisBits
    BY <1>1, <1>3 DEF PInv, TypeOK
  <2>2. \A i \in 1 .. L + 1 : chain'[i].time <= clock + MaxFutureBlockTime
    <3> TAKE i \in 1 .. L + 1
    <3>1. CASE i = L + 1
      BY Zenon, <1>2, <1>3, <3>1
    <3>2. CASE i # L + 1
      <4>1. i \in 1 .. L
        BY <1>1, <3>2
      <4> QED BY <1>3, <4>1, Zenon DEF PInv, TypeOK
    <3> QED BY Zenon, <3>1, <3>2
  <2>3. \A i \in 2 .. L + 1 : Target(chain'[i].bits) \in 1 .. net.powLimit
    <3> TAKE i \in 2 .. L + 1
    <3>1. CASE i = L + 1
      BY <1>1, <1>2, <1>3, <1>4, <3>1
    <3>2. CASE i # L + 1
      <4>1. i \in 1 .. L /\ i \in 2 .. L
        BY <1>1, <3>2
      <4> QED BY <1>3, <4>1, Zenon DEF PInv, TypeOK
    <3> QED BY Zenon, <3>1, <3>2
  <2> QED
    BY <1>1, <1>2, <1>3, <2>1, <2>2, <2>3, ZenonT(60) DEF TypeOK
<1>6. SoftLaunchAtLimit'
  <2>1. SUFFICES ASSUME net.softLaunchHeight > 0, NEW h \in 0 .. L, h <= net.softLaunchHeight
                 PROVE  chain'[h + 1].bits = PowLimitBits(net)
    <3>1. Len(chain') - 1 = L
      BY <1>1, <1>3
    <3> QED BY <1>2, <3>1, <2>1, Zenon DEF SoftLaunchAtLimit, PowLimitBits
  <2>2. CASE h = L
    BY <1>2, <1>3, <2>1, <2>2, Zenon DEF GetNextWorkRequired
  <2>3. CASE h # L
    <3>1. h \in 0 .. L - 1 /\ h + 1 \in 1 .. L
      BY <1>1, <2>3
    <3>2. chain[h + 1].bits = PowLimitBits(net)
      BY Zenon, <2>1, <3>1 DEF PInv, SoftLaunchAtLimit
    <3>3. chain'[h + 1] = chain[h + 1]
      BY <1>3, <3>1, Zenon
    <3> QED BY <3>2, <3>3, Zenon
  <2> QED BY Zenon, <2>2, <2>3
<1>7. DemandedIsPermitted'
  <2>1. SUFFICES ASSUME ~net.noRetargeting, NEW h \in 1 .. L
                 PROVE  PermittedDifficultyTransition(net, h, chain'[h].bits, chain'[h + 1].bits)
    <3>1. Len(chain') - 1 = L
      BY <1>1, <1>3
    <3> QED BY <1>2, <3>1, <2>1, Zenon DEF DemandedIsPermitted, PermittedDifficultyTransition, Scaled
  <2>2. CASE h = L
    <3>1. CASE net.allowMinDifficulty
      BY <3>1, Zenon DEF PermittedDifficultyTransition
    <3>2. CASE ~net.allowMinDifficulty
      <4>1. PermittedDifficultyTransition(net, L, chain[L].bits, b.bits)
        BY <1>2, <2>1, <3>2, NextIsPermitted, Zenon DEF PInv
      <4> QED BY <1>3, <2>2, <4>1, Zenon
    <3> QED BY Zenon, <3>1, <3>2
  <2>3. CASE h # L
    <3>1. h \in 1 .. L - 1 /\ h + 1 \in 1 .. L
      BY <1>1, <2>3
    <3>2. PermittedDifficultyTransition(net, h, chain[h].bits, chain[h + 1].bits)
      BY <2>1, <3>1, Zenon DEF PInv, DemandedIsPermitted
    <3> QED BY <1>3, <3>1, <3>2, Zenon
  <2> QED BY Zenon, <2>2, <2>3
<1>8. RealDifficultyKept'
  <2> DEFINE D == DifficultyAdjustmentInterval
             Kept(c, h) == Target(c[h + 1].bits) \in
                             Rounded(Scaled(net, c[h + 1 - D].bits, Shortest)) ..
                             Rounded(Scaled(net, c[h + 1 - D].bits, Longest))
  <2>1. SUFFICES ASSUME net.enforceBIP94, ~net.noRetargeting, NEW h \in 1 .. L,
                        h % D = 0, h > net.softLaunchHeight,
                        Target(chain'[h + 1 - D].bits) <= net.powLimit
                 PROVE  Kept(chain', h)
    <3>1. Len(chain') - 1 = L
      BY <1>1, <1>3
    <3> QED BY <1>2, <3>1, <2>1, Zenon DEF RealDifficultyKept, Scaled
  <2>2. D \in Nat \ {0} /\ h \in Nat \ {0}
    BY <1>1, PowAssumption
  <2>3. h >= D
    BY Zenon, <2>1, <2>2, MultipleAtLeast
  <2>4. h + 1 - D \in 1 .. L
    BY <1>1, <2>2, <2>3
  <2>5. CASE h = L
    <3>1. StartsPeriod(chain) /\ L > net.softLaunchHeight
      BY Zenon, <2>1, <2>5 DEF StartsPeriod
    <3>2. Target(b.bits) \in Rounded(Scaled(net, chain[L + 1 - D].bits, Shortest)) ..
                             Rounded(Scaled(net, chain[L + 1 - D].bits, Longest))
      BY <1>2, <1>3, <2>1, <2>4, <2>5, <3>1, NextKeepsDifficulty, Zenon DEF PInv
    <3> QED BY <1>3, <2>4, <2>5, <3>2, Zenon
  <2>6. CASE h # L
    <3>1. h \in 1 .. L - 1 /\ h + 1 \in 1 .. L
      BY <1>1, <2>6
    <3>2. Kept(chain, h)
      BY <1>3, <2>1, <2>4, <3>1, Zenon DEF PInv, RealDifficultyKept
    <3> QED BY <1>3, <2>4, <3>1, <3>2, Zenon
  <2> QED BY Zenon, <2>5, <2>6
<1>9. TemplateStaysValid'
  BY Zenon, <1>2 DEF TemplateStaysValid
<1> QED
  BY Zenon, <1>5, <1>6, <1>7, <1>8, <1>9 DEF PInv

(* The initial chain is the genesis block.                                 *)
LEMMA InitHolds ==
  ASSUME Init
  PROVE  PInv
<1> DEFINE b == [time |-> 0, bits |-> net.genesisBits]
<1>1. net \in Nets /\ chain = <<b>> /\ clock = 0 /\ template = None /\ MaxFutureBlockTime \in Nat
  BY Zenon, PowAssumption DEF Init
<1>2. b \in Blocks(net) /\ b.time = 0 /\ b.bits = net.genesisBits
  BY Zenon DEF Blocks, Bits
<1>3. net.softLaunchHeight > 0 => net.genesisBits = PowLimitBits(net)
  BY Zenon, <1>1, PowAssumption DEF PowLimitBits
<1> HIDE DEF b
<1>4. chain \in Seq(Blocks(net)) /\ Len(chain) = 1 /\ chain[1] = b /\ chain # <<>>
  BY <1>1, <1>2
<1>5. TypeOK
  BY <1>1, <1>2, <1>4 DEF TypeOK
<1>6. SoftLaunchAtLimit
  BY <1>2, <1>3, <1>4 DEF SoftLaunchAtLimit
<1>7. DemandedIsPermitted /\ RealDifficultyKept
  <2>1. 1 .. Len(chain) - 1 = {}
    BY <1>4
  <2> QED BY <2>1, Zenon DEF DemandedIsPermitted, RealDifficultyKept
<1> QED
  BY Zenon, <1>1, <1>5, <1>6, <1>7 DEF PInv, TemplateStaysValid

(* The parts of the invariant that speak of the chain only.                *)
LEMMA ChainUnchanged ==
  ASSUME PInv, UNCHANGED <<net, chain>>
  PROVE  SoftLaunchAtLimit' /\ DemandedIsPermitted' /\ RealDifficultyKept'
<1>1. net' = net /\ chain' = chain
  BY Zenon
<1>2. SoftLaunchAtLimit'
  BY <1>1, Zenon DEF PInv, SoftLaunchAtLimit, PowLimitBits
<1>3. DemandedIsPermitted'
  BY <1>1, Zenon DEF PInv, DemandedIsPermitted, PermittedDifficultyTransition, Scaled
<1>4. RealDifficultyKept'
  BY <1>1, Zenon DEF PInv, RealDifficultyKept, Scaled
<1> QED
  BY Zenon, <1>2, <1>3, <1>4

(* GetMinimumTime and GetNextWorkRequired depend on the chain only, and    *)
(* the time of a block counts only where minimum difficulty is allowed.    *)
LEMMA BitsIgnoreTime ==
  ASSUME ~net.allowMinDifficulty, NEW s, NEW t
  PROVE  GetNextWorkRequired(chain, s, net) = GetNextWorkRequired(chain, t, net)
  BY Zenon DEF GetNextWorkRequired

(* The header that CreateNewBlock fills in, and its type.                  *)
LEMMA HeaderType ==
  ASSUME TypeOK, NEW t \in Nat
  PROVE  [time |-> t, bits |-> GetNextWorkRequired(chain, t, net)] \in Blocks(net)
<1>1. GetNextWorkRequired(chain, t, net) \in Bits(net)
  <2> DEFINE g == GetNextWorkRequired(chain, t, net)
  <2> HIDE DEF g
  <2>1. CASE \E s \in 0 .. net.powLimit : g = Compact(s)
    BY <2>1, Zenon DEF Bits, g
  <2>2. CASE \E i \in 1 .. Len(chain) : g = chain[i].bits
    BY <2>2, ChainFacts, Zenon DEF g
  <2> QED BY Zenon, <2>1, <2>2, NextBits DEF g
<1> QED
  BY <1>1, Zenon DEF Blocks

(* The clock, and the templates: a template that is made or updated is     *)
(* valid, and stays valid as the clock goes on.                            *)
LEMMA TickKeeps ==
  ASSUME PInv, Tick
  PROVE  PInv'
<1>1. /\ net' = net /\ chain' = chain /\ template' = template
      /\ clock \in Nat /\ clock' \in Nat /\ clock <= clock' /\ MaxFutureBlockTime \in Nat
  <2>1. PICK d \in ClockSteps : clock' = clock + d
    BY Zenon DEF Tick
  <2>2. d \in Nat /\ clock \in Nat /\ MaxFutureBlockTime \in Nat
    BY Zenon, PowAssumption DEF PInv, TypeOK
  <2> QED BY <2>1, <2>2 DEF Tick
<1>2. TypeOK'
  <2>1. \A i \in 1 .. Len(chain) : chain[i].time <= clock' + MaxFutureBlockTime
    <3> TAKE i \in 1 .. Len(chain)
    <3>1. chain[i].time \in Nat /\ chain[i].time <= clock + MaxFutureBlockTime
      BY Zenon, ChainFacts DEF PInv, TypeOK
    <3> QED BY <1>1, <3>1
  <2>2. (GetMinimumTime(chain))' = GetMinimumTime(chain)
    BY <1>1, Zenon DEF GetMinimumTime, MedianTimePast, Last, StartsPeriod
  <2> QED
    BY <1>1, <2>1, <2>2, Zenon DEF PInv, TypeOK
<1>3. TemplateStaysValid'
  <2>1. SUFFICES ASSUME template # None
                 PROVE  ContextualCheckBlockHeader(template, chain, net)'
    BY <1>1, Zenon DEF TemplateStaysValid
  <2>2. ContextualCheckBlockHeader(template, chain, net) /\ template \in Blocks(net)
    BY Zenon, <2>1 DEF PInv, TemplateStaysValid, TypeOK
  <2>3. template.time \in Nat
    BY <2>2, Zenon DEF Blocks
  <2>4. template.time <= clock + MaxFutureBlockTime
    BY Zenon, <2>2 DEF ContextualCheckBlockHeader
  <2>5. template.time <= clock' + MaxFutureBlockTime
    BY <1>1, <2>3, <2>4
  <2> QED
    BY <1>1, <2>2, <2>5, ZenonT(60) DEF ContextualCheckBlockHeader, GetNextWorkRequired,
       CalculateNextWorkRequired, Scaled, Last, FirstOfPeriod, LastReal, PowLimitBits,
       MedianTimePast, StartsPeriod
<1> QED
  BY Zenon, <1>1, <1>2, <1>3, ChainUnchanged DEF PInv

(* A step that changes nothing but the template: the new one is valid, and *)
(* no earlier than GetMinimumTime.                                         *)
LEMMA TemplateKeeps ==
  ASSUME PInv, UNCHANGED <<net, chain, clock>>, template' \in Blocks(net),
         template'.time >= GetMinimumTime(chain),
         ContextualCheckBlockHeader(template', chain, net)
  PROVE  PInv'
<1>1. net' = net /\ chain' = chain /\ clock' = clock
  BY Zenon
<1>2. (GetMinimumTime(chain))' = GetMinimumTime(chain)
  BY <1>1, Zenon DEF GetMinimumTime, MedianTimePast, Last, StartsPeriod
<1>3. TypeOK'
  BY <1>1, <1>2, Zenon DEF PInv, TypeOK
<1>4. ContextualCheckBlockHeader(template, chain, net)'
  BY <1>1, Zenon DEF ContextualCheckBlockHeader, GetNextWorkRequired,
     CalculateNextWorkRequired, Scaled, Last, FirstOfPeriod, LastReal, PowLimitBits,
     MedianTimePast, StartsPeriod
<1> QED
  BY Zenon, <1>1, <1>3, <1>4, ChainUnchanged DEF PInv, TemplateStaysValid

(* CreateNewBlock makes a valid template.                                  *)
LEMMA CreateKeeps ==
  ASSUME PInv, CreateNewBlock
  PROVE  PInv'
<1>1. /\ UNCHANGED <<net, chain, clock>> /\ template' = NewHeader(chain)
      /\ ContextualCheckBlockHeader(NewHeader(chain), chain, net)
  BY Zenon DEF CreateNewBlock
<1>2. NewTime(chain) \in Nat /\ NewTime(chain) >= GetMinimumTime(chain)
  BY Zenon, MinimumTime DEF PInv
<1>3. NewHeader(chain) \in Blocks(net) /\ NewHeader(chain).time = NewTime(chain)
  BY <1>2, HeaderType, Zenon DEF NewHeader, PInv
<1>4. template' \in Blocks(net) /\ template'.time >= GetMinimumTime(chain)
  BY <1>1, <1>2, <1>3, Zenon
<1>5. ContextualCheckBlockHeader(template', chain, net)
  BY <1>1, Zenon
<1> QED
  BY Zenon, <1>1, <1>4, <1>5, TemplateKeeps

(* UpdateTime takes the time of the clock, and the bits go with it.        *)
LEMMA UpdateKeeps ==
  ASSUME PInv, UpdateTime
  PROVE  PInv'
<1> DEFINE t == NewTime(chain)
           g == GetNextWorkRequired(chain, t, net)
<1>1. /\ UNCHANGED <<net, chain, clock>> /\ template # None /\ t > template.time
      /\ template' = [time |-> t, bits |-> IF net.allowMinDifficulty THEN g ELSE template.bits]
  BY Zenon DEF UpdateTime
<1>2. /\ template \in Blocks(net) /\ template.time >= GetMinimumTime(chain)
      /\ ContextualCheckBlockHeader(template, chain, net)
  BY Zenon, <1>1 DEF PInv, TypeOK, TemplateStaysValid
<1>3. template.time \in Nat
  BY <1>2, Zenon DEF Blocks
<1>4. /\ t \in Nat /\ t >= GetMinimumTime(chain) /\ GetMinimumTime(chain) \in Nat
      /\ t = GetMinimumTime(chain) \/ t = clock
      /\ GetMinimumTime(chain) > MedianTimePast(chain) /\ MedianTimePast(chain) \in Nat
      /\ StartsPeriod(chain) => GetMinimumTime(chain) >= Last(chain).time - MaxTimewarp
  BY Zenon, MinimumTime, MedianIsNat DEF PInv
<1>5. clock \in Nat /\ MaxFutureBlockTime \in Nat /\ MaxTimewarp \in Nat /\ Last(chain).time \in Nat
  BY Zenon, PowAssumption, ChainFacts, Places DEF PInv, TypeOK
<1>6. template' = [time |-> t, bits |-> g]
  <2>1. CASE net.allowMinDifficulty
    BY <1>1, <2>1, Zenon
  <2>2. CASE ~net.allowMinDifficulty
    <3>1. template.bits = g
      BY <1>2, <2>2, BitsIgnoreTime, Zenon DEF ContextualCheckBlockHeader
    <3> QED BY <1>1, <2>2, <3>1, Zenon
  <2> QED BY Zenon, <2>1, <2>2
<1>7. template' \in Blocks(net) /\ template'.time = t /\ template'.bits = g
  BY <1>4, <1>6, HeaderType, Zenon DEF PInv
<1> HIDE DEF t, g
<1>8. /\ t <= clock + MaxFutureBlockTime /\ t > MedianTimePast(chain)
      /\ StartsPeriod(chain) => t >= Last(chain).time - MaxTimewarp
  BY <1>1, <1>2, <1>3, <1>4, <1>5
<1>9. ContextualCheckBlockHeader(template', chain, net)
  BY <1>7, <1>8, Zenon DEF ContextualCheckBlockHeader, g
<1>10. template'.time >= GetMinimumTime(chain)
  BY <1>4, <1>7, Zenon
<1> QED
  BY Zenon, <1>1, <1>7, <1>9, <1>10, TemplateKeeps

(* Every step keeps the invariant.                                         *)
LEMMA NextKeeps ==
  ASSUME PInv, [Next]_vars
  PROVE  PInv'
<1>1. CASE ReceiveBlock
  <2>1. PICK t \in {MedianTimePast(chain) + 1, clock, clock + MaxFutureBlockTime} :
          AddBlock([time |-> t, bits |-> GetNextWorkRequired(chain, t, net)])
    BY Zenon, <1>1 DEF ReceiveBlock
  <2>2. t \in Nat
    <3>1. MedianTimePast(chain) \in Nat /\ clock \in Nat /\ MaxFutureBlockTime \in Nat
      BY Zenon, MedianIsNat, PowAssumption DEF PInv, TypeOK
    <3> QED BY <3>1
  <2>3. [time |-> t, bits |-> GetNextWorkRequired(chain, t, net)] \in Blocks(net)
    BY Zenon, <2>2, HeaderType DEF PInv
  <2> QED BY Zenon, <2>1, <2>3, AddBlockKeeps
<1>2. CASE SubmitBlock
  <2>1. template \in Blocks(net) /\ AddBlock(template)
    BY Zenon, <1>2 DEF SubmitBlock, PInv, TypeOK
  <2> QED BY Zenon, <2>1, AddBlockKeeps
<1>3. CASE UNCHANGED vars
  <2>1. net' = net /\ chain' = chain /\ clock' = clock /\ template' = template
    BY Zenon, <1>3 DEF vars
  <2>2. CASE template # None
    <3>1. /\ template' \in Blocks(net) /\ template'.time >= GetMinimumTime(chain)
          /\ ContextualCheckBlockHeader(template', chain, net)
      BY <2>1, <2>2, Zenon DEF PInv, TypeOK, TemplateStaysValid
    <3> QED BY Zenon, <2>1, <3>1, TemplateKeeps
  <2>3. CASE template = None
    <3>1. TypeOK' /\ TemplateStaysValid'
      BY <2>1, <2>3, Zenon DEF PInv, TypeOK, TemplateStaysValid
    <3> QED BY Zenon, <2>1, <3>1, ChainUnchanged DEF PInv
  <2> QED BY Zenon, <2>2, <2>3
<1> QED
  BY Zenon, <1>1, <1>2, <1>3, TickKeeps, CreateKeeps, UpdateKeeps DEF Next

(* PInv is an invariant.                                                   *)
LEMMA PInvHolds == Spec => []PInv
  BY InitHolds, NextKeeps, PTL DEF Spec

(* On every network, whatever its interval and limit: headers              *)
(* synchronisation never refuses bits that GetNextWorkRequired demands,    *)
(* soft launch included.                                                   *)
THEOREM HeadersSyncPermits == Spec => []DemandedIsPermitted
<1>1. PInv => DemandedIsPermitted
  BY Zenon, RequiredHolds DEF PInv
<1> QED
  BY <1>1, PInvHolds, PTL

(* The bits GetNextWorkRequired demands stand for a target that is not     *)
(* zero and within the limit, so that DeriveTarget does not refuse them,   *)
(* unless they are the genesis block's or the retarget starts from a       *)
(* target above the limit or next to nothing.                              *)
THEOREM DifficultyCanBeMined == Spec => []RequiredCanBeMined
<1>1. PInv => RequiredCanBeMined
  BY Zenon, RequiredHolds DEF PInv
<1> QED
  BY <1>1, PInvHolds, PTL

(* With BIP94 the difficulty of a period is within a factor of four of the *)
(* one before.                                                             *)
THEOREM DifficultySurvivesMinBlocks == Spec => []RealDifficultyKept
<1>1. PInv => RealDifficultyKept
  BY Zenon, RequiredHolds DEF PInv
<1> QED
  BY <1>1, PInvHolds, PTL

(* The chain, the clock and the template have their types.                 *)
THEOREM TemplateTypes == Spec => []TypeOK
<1>1. PInv => TypeOK
  BY Zenon DEF PInv
<1> QED
  BY <1>1, PInvHolds, PTL

(* A block template is a valid header when CreateNewBlock makes it, and    *)
(* stays valid through every UpdateTime.                                   *)
THEOREM TemplateIsValid == Spec => []TemplateStaysValid
<1>1. PInv => TemplateStaysValid
  BY Zenon, TemplateHolds DEF PInv
<1> QED
  BY <1>1, PInvHolds, PTL

(* A template can always be made unless the chain is ahead of the clock.   *)
THEOREM TemplateIsPossible == Spec => []TemplateCanBeMade
<1>1. PInv => TemplateCanBeMade
  BY Zenon, TemplateHolds DEF PInv
<1> QED
  BY <1>1, PInvHolds, PTL
=============================================================================
