------------------------- MODULE WriteSafetyProofs -------------------------
(***************************************************************************)
(* What a value becomes on its way to the device and back, and what an     *)
(* acknowledged write put there, for every definition, model and value.    *)
(***************************************************************************)
EXTENDS WriteSafety, TLAPS

-----------------------------------------------------------------------------
(* Conversions *)

\* Division leaves a rest below its divisor.
LEMMA Division ==
  ASSUME NEW n \in Int, NEW d \in Nat \ {0}
  PROVE  /\ n \div d \in Int /\ n % d \in 0..(d - 1)
         /\ n = d * (n \div d) + (n % d)
  BY SMT

\* Masking keeps what fits and wraps a negative number once.
LEMMA Masking ==
  ASSUME NEW n \in Int, NEW d \in Nat \ {0}
  PROVE  /\ MaskInteger(n, d) \in 0..(d - 1)
         /\ n \in 0..(d - 1) => MaskInteger(n, d) = n
         /\ n \in -d..-1 => MaskInteger(n, d) = n + d
  BY SMT DEF MaskInteger

\* A signed number survives being masked into a byte or a word and read back.
LEMMA SignedByte ==
  ASSUME NEW n \in Int, -128 <= n, n < 128
  PROVE  LET masked == MaskInteger(n, 256)
         IN masked \in Nat /\ masked < 256 /\ Signed(masked, 256) = n
  BY SMT DEF MaskInteger, Signed

LEMMA SignedWord ==
  ASSUME NEW n \in Int, -32768 <= n, n < 32768
  PROVE  LET masked == MaskInteger(n, 65536)
         IN masked \in Nat /\ masked < 65536 /\ Signed(masked, 65536) = n
  BY SMT DEF MaskInteger, Signed

-----------------------------------------------------------------------------
(* Rounding *)

\* Multiplication by a natural number keeps the order.
LEMMA TimesKeepsOrder ==
  ASSUME NEW a \in Int, NEW b \in Int, NEW d \in Nat, a <= b
  PROVE  d * a <= d * b /\ a * d <= b * d
  BY SMT

\* Neighbours of a multiple.
LEMMA NextMultiple ==
  ASSUME NEW k \in Nat, NEW h \in Nat
  PROVE  k * h \in Nat /\ k * h + h = (k + 1) * h
  BY SMT

\* A number between two multiples of h is divided by it as they say.
LEMMA QuotientIs ==
  ASSUME NEW p \in Nat, NEW h \in Nat \ {0}, NEW k \in Nat, k * h <= p, p < k * h + h
  PROVE  p \div h = k
<1> DEFINE q == p \div h
<1>1. q \in Int /\ p = h * q + (p % h) /\ p % h \in 0..(h - 1)
  BY Division
<1>2. q <= k
  <2> SUFFICES ASSUME q >= k + 1 PROVE FALSE
    BY <1>1
  <2>1. h * (k + 1) <= h * q /\ h * (k + 1) = k * h + h
    BY <1>1, TimesKeepsOrder
  <2> QED
    BY <1>1, <2>1
<1>3. q >= k
  <2> SUFFICES ASSUME q + 1 <= k PROVE FALSE
    BY <1>1
  <2>1. h * (q + 1) <= h * k /\ h * (q + 1) = h * q + h /\ h * k = k * h
    BY <1>1, TimesKeepsOrder
  <2> QED
    BY <1>1, <2>1
<1> QED
  BY <1>1, <1>2, <1>3

\* Rounding is off by at most half.
LEMMA Rounding ==
  ASSUME NEW n \in Int, NEW d \in Nat \ {0}
  PROVE  /\ RoundHalfEven(n, d) \in Int
         /\ 2 * (d * RoundHalfEven(n, d) - n) \in -d..d
<1> DEFINE q == n \div d
           r == n % d
<1>1. q \in Int /\ r \in 0..(d - 1) /\ n = d * q + r
  BY Division
<1>2. \/ RoundHalfEven(n, d) = q /\ 2 * r <= d
      \/ RoundHalfEven(n, d) = q + 1 /\ 2 * r >= d
  BY <1>1 DEF RoundHalfEven
<1>3. d * (q + 1) = d * q + d /\ d * q \in Int
  BY <1>1
<1> HIDE DEF q, r
<1> QED
  BY <1>1, <1>2, <1>3

\* Rounding never crosses a multiple of what it rounds to.
LEMMA RoundingKeepsOrder ==
  ASSUME NEW n \in Int, NEW d \in Nat \ {0}, NEW k \in Int
  PROVE  /\ n <= d * k => RoundHalfEven(n, d) <= k
         /\ n >= d * k => RoundHalfEven(n, d) >= k
<1> DEFINE q == n \div d
           r == n % d
<1>1. q \in Int /\ r \in 0..(d - 1) /\ n = d * q + r
  BY Division
<1>2. /\ RoundHalfEven(n, d) \in {q, q + 1}
      /\ r = 0 => RoundHalfEven(n, d) = q
  BY <1>1 DEF RoundHalfEven
<1> HIDE DEF q, r
<1>3. q >= k + 1 => d * q >= d * k + d
  <2> SUFFICES ASSUME k + 1 <= q PROVE d * q >= d * k + d
    BY <1>1
  <2>1. d * (k + 1) <= d * q /\ d * (k + 1) = d * k + d
    BY <1>1, TimesKeepsOrder
  <2> QED
    BY <2>1
<1>4. q + 1 <= k => d * k >= d * q + d
  <2> SUFFICES ASSUME q + 1 <= k PROVE d * k >= d * q + d
    OBVIOUS
  <2>1. d * (q + 1) <= d * k /\ d * (q + 1) = d * q + d
    BY <1>1, TimesKeepsOrder
  <2> QED
    BY <2>1
<1>5. d * k \in Int /\ d * q \in Int
  BY <1>1
<1> QED
  BY <1>1, <1>2, <1>3, <1>4, <1>5

\* Two digits are off by at most half a hundredth, and keep every order with a
\* number of hundredths.
LEMMA TwoDigitsEffect ==
  ASSUME NEW n \in Int, NEW d \in Nat \ {0}
  PROVE  /\ TwoDigits(n, d) \in Int
         /\ 2 * (d * TwoDigits(n, d) - n) \in -(d * Cent) .. d * Cent
         /\ \A limit \in Int : limit % Cent = 0 =>
              /\ n <= d * limit => TwoDigits(n, d) <= limit
              /\ n >= d * limit => TwoDigits(n, d) >= limit
<1> DEFINE R == RoundHalfEven(n, d * Cent)
<1>1. d * Cent \in Nat \ {0}
  BY DEF Cent
<1>2. R \in Int /\ 2 * ((d * Cent) * R - n) \in -(d * Cent)..(d * Cent)
  BY <1>1, Rounding
<1>3. TwoDigits(n, d) = Cent * R /\ Cent * R \in Int /\ (d * Cent) * R = d * (Cent * R)
  BY <1>2 DEF TwoDigits, Cent
<1>4. ASSUME NEW limit \in Int, limit % Cent = 0
      PROVE  /\ n <= d * limit => TwoDigits(n, d) <= limit
             /\ n >= d * limit => TwoDigits(n, d) >= limit
  <2> DEFINE c == limit \div Cent
  <2>1. c \in Int /\ limit = Cent * c
    BY <1>4 DEF Cent
  <2> HIDE DEF c
  <2>2. (d * Cent) * c = d * limit
    BY <2>1 DEF Cent
  <2>3. (n <= d * limit => R <= c) /\ (n >= d * limit => R >= c)
    BY <1>1, <2>1, <2>2, RoundingKeepsOrder
  <2> HIDE DEF R
  <2> QED
    BY <1>2, <1>3, <2>1, <2>3 DEF Cent
<1> HIDE DEF R
<1> QED
  BY <1>2, <1>3, <1>4

-----------------------------------------------------------------------------
(* Floats *)

LEMMA GapsAreNumbers ==
  /\ DOMAIN Gaps = 1..Len(Gaps) /\ Len(Gaps) \in Nat
  /\ \A i \in DOMAIN Gaps : Gaps[i] \in Nat \ {0}
  BY FloatAssumption

\* A later gap is a multiple of twice an earlier one.
LEMMA LaterGap ==
  ASSUME NEW i \in DOMAIN Gaps, NEW j \in DOMAIN Gaps, i < j
  PROVE  \E k \in Nat \ {0} : Gaps[j] = Gaps[i] * (2 * k)
<1>1. Gaps[i] \in Nat \ {0} /\ Gaps[j] \in Nat \ {0}
  BY GapsAreNumbers
<1>2. Gaps[j] % (2 * Gaps[i]) = 0
  BY FloatAssumption, GapsAreNumbers
<1> DEFINE g == 2 * Gaps[i]
           h == Gaps[j]
           k == h \div g
<1>3. g \in Nat \ {0}
  BY <1>1
<1>4. k \in Int /\ h = g * k
  <2>1. h \in Int /\ h % g = 0
    BY <1>1, <1>2
  <2> HIDE DEF g, h
  <2>2. h \div g \in Int /\ h = g * (h \div g) + (h % g)
    BY <1>3, <2>1, Division
  <2>3. g * (h \div g) \in Int
    BY <1>3, <2>2
  <2> QED
    BY <2>1, <2>2, <2>3
<1> HIDE DEF k
<1>5. k >= 1
  <2> SUFFICES ASSUME k <= 0 PROVE FALSE
    BY <1>4
  <2>1. g * k <= g * 0
    BY <1>3, <1>4, TimesKeepsOrder
  <2> QED
    BY <1>1, <1>3, <1>4, <2>1
<1>6. g * k = Gaps[i] * (2 * k)
  BY <1>1, <1>4
<1> QED
  BY <1>4, <1>5, <1>6

\* What the bits of a number's pattern count is the multiple of its gap that the
\* number was rounded to, also after a carry.
LEMMA PatternCounts ==
  ASSUME NEW n \in Nat, NEW d \in Nat \ {0}, FitsFloat32(n, d)
  PROVE  LET i == GapIndex(n, d)
             s == RoundHalfEven(n, d * Gaps[i])
         IN /\ i \in DOMAIN Gaps /\ HasGap(n, d, i)
            /\ s \in Nat /\ (i = 1 \/ s >= Half)
            /\ Pattern(n, d) \in Nat /\ Pattern(n, d) < Infinite
            /\ Magnitude(Pattern(n, d)) = s * Gaps[i]
<1> DEFINE i == GapIndex(n, d)
           g == Gaps[i]
           s == RoundHalfEven(n, d * g)
           p == Pattern(n, d)
<1>1. i \in DOMAIN Gaps /\ HasGap(n, d, i)
  BY DEF FitsFloat32, GapIndex
<1>2. i \in 1..Len(Gaps) /\ Len(Gaps) \in Nat /\ g \in Nat \ {0} /\ Half \in Nat \ {0} /\ d * g \in Nat \ {0}
  BY <1>1, GapsAreNumbers, FloatAssumption
<1>3. s \in Int
  <2> HIDE DEF i, g
  <2> QED
    BY <1>2, Rounding
<1>4. s <= 2 * Half /\ s >= 0 /\ (i = 1 \/ s >= Half)
  <2>1. n <= (d * g) * (2 * Half) /\ n >= (d * g) * 0 /\ (i = 1 \/ n >= (d * g) * Half)
    BY <1>1, <1>2 DEF HasGap
  <2>2. 2 * Half \in Int /\ 0 \in Int /\ Half \in Int
    BY <1>2
  <2> HIDE DEF i, g, s
  <2> QED
    BY <1>2, <2>1, <2>2, RoundingKeepsOrder DEF s
<1>5. p = (i - 1) * Half + s /\ p < Infinite /\ Infinite = (Len(Gaps) + 1) * Half
  BY DEF Pattern, FitsFloat32, Infinite
<1>6. (i - 1) * Half \in Nat /\ (i - 1) * Half + Half = i * Half /\ i * Half + Half = (i + 1) * Half
  <2>1. i \in Nat /\ i - 1 \in Nat /\ Half \in Nat /\ (i - 1) + 1 = i
    BY <1>2
  <2> HIDE DEF i
  <2>2. (i - 1) * Half \in Nat /\ (i - 1) * Half + Half = ((i - 1) + 1) * Half
    BY <2>1, NextMultiple
  <2> QED
    BY <2>1, <2>2, NextMultiple
<1> HIDE DEF i, g, s, p
<1>7. p \in Nat
  BY <1>3, <1>4, <1>5, <1>6
<1>8. Magnitude(p) = s * g
  <2>1. CASE s < 2 * Half /\ i = 1
    <3>1. p = s
      BY <1>3, <1>5, <2>1, <1>2
    <3>2. Magnitude(p) = (p - (1 - 1) * Half) * Gaps[1]
      BY <2>1, <3>1 DEF Magnitude
    <3> QED
      BY <1>2, <1>3, <2>1, <3>1, <3>2 DEF g
  <2>2. CASE s < 2 * Half /\ i # 1
    <3>1. i * Half <= p /\ p < i * Half + Half /\ i \in Nat
      BY <1>2, <1>3, <1>4, <1>5, <1>6, <2>2
    <3>2. p \div Half = i
      BY <1>2, <1>7, <3>1, QuotientIs
    <3>3. 2 * Half <= i * Half
      BY <1>2, <2>2, TimesKeepsOrder
    <3>4. Magnitude(p) = (p - (i - 1) * Half) * Gaps[i]
      BY <1>2, <1>7, <3>1, <3>2, <3>3 DEF Magnitude
    <3>5. p - (i - 1) * Half = s
      BY <1>3, <1>5, <1>6
    <3> QED
      BY <3>4, <3>5 DEF g
  <2>3. CASE s = 2 * Half
    <3>1. p = (i + 1) * Half
      BY <1>2, <1>5, <1>6, <2>3
    <3>2. i + 1 <= Len(Gaps)
      <4> SUFFICES ASSUME Len(Gaps) + 1 <= i + 1 PROVE FALSE
        BY <1>2
      <4>1. (Len(Gaps) + 1) * Half <= (i + 1) * Half
        BY <1>2, TimesKeepsOrder
      <4> QED
        BY <1>2, <1>5, <3>1, <4>1
    <3>3. p \div Half = i + 1
      <4>1. i + 1 \in Nat /\ (i + 1) * Half <= p /\ p < (i + 1) * Half + Half
        BY <1>2, <1>6, <3>1
      <4> QED
        BY <1>2, <1>7, <4>1, QuotientIs
    <3>4. 2 * Half <= (i + 1) * Half
      BY <1>2, TimesKeepsOrder
    <3>5. Magnitude(p) = (p - ((i + 1) - 1) * Half) * Gaps[i + 1]
      BY <1>2, <1>7, <3>1, <3>3, <3>4 DEF Magnitude
    <3>6. (i + 1) - 1 = i /\ p - i * Half = Half
      BY <1>2, <1>6, <3>1
    <3>7. Gaps[i + 1] = 2 * g
      <4>1. i + 1 \in 2..Len(Gaps) /\ (i + 1) - 1 = i
        BY <1>2, <3>2
      <4>2. \A k \in 2..Len(Gaps) : Gaps[k] = 2 * Gaps[k - 1]
        BY FloatAssumption
      <4> QED
        BY <4>1, <4>2 DEF g
    <3>8. Magnitude(p) = Half * (2 * g)
      BY <3>5, <3>6, <3>7
    <3> QED
      BY <1>2, <2>3, <3>8
  <2> QED
    BY <1>2, <1>3, <1>4, <2>1, <2>2, <2>3
<1> QED
  BY <1>1, <1>3, <1>4, <1>5, <1>7, <1>8 DEF i, g, s, p

\* The two words of a float carry its pattern and its sign.
LEMMA FloatWords ==
  ASSUME NEW p \in Nat, p < Infinite, NEW negative \in BOOLEAN
  PROVE  LET words == EncodeFloat32(p, negative)
         IN /\ words \in Seq(WordValues) /\ Len(words) = 2
            /\ (words[2] % 32768) * 65536 + words[1] = p
            /\ words[2] >= 32768 <=> negative
<1> DEFINE low == p % 65536
           high == p \div 65536
           sign == IF negative THEN 32768 ELSE 0
<1>1. Infinite \in Nat /\ (Infinite - 1) \div 65536 < 32768
  BY FloatAssumption, GapsAreNumbers DEF Infinite
<1> HIDE DEF Infinite
<1>2. /\ low \in Nat /\ low < 65536 /\ high \in Nat /\ high < 32768
      /\ p = high * 65536 + low
  BY <1>1
<1>3. EncodeFloat32(p, negative) = <<low, high + sign>>
  BY DEF EncodeFloat32
<1> HIDE DEF low, high
<1>4. high + sign \in Nat /\ high + sign < 65536 /\ (high + sign) % 32768 = high /\ (high + sign >= 32768 <=> negative)
  BY <1>2
<1>5. low \in WordValues /\ high + sign \in WordValues
  BY <1>2, <1>4 DEF WordValues
<1> DEFINE top == high + sign
<1>6. top * 32768 \in Int /\ (top % 32768) * 65536 + low = p
  BY <1>2, <1>4
<1> HIDE DEF sign, top
<1>7. /\ <<low, top>> \in Seq(WordValues) /\ Len(<<low, top>>) = 2
      /\ <<low, top>>[1] = low /\ <<low, top>>[2] = top
  BY <1>5 DEF top
<1>8. EncodeFloat32(p, negative) = <<low, top>> /\ (top >= 32768 <=> negative)
  BY <1>3, <1>4 DEF top
<1> QED
  BY <1>6, <1>7, <1>8

\* What the magnitude of n / m quanta reads back as.
ReadBack(n, m) ==
  LET g == Gaps[GapIndex(n, m)]
  IN TwoDigits((RoundHalfEven(n, m * g) * g) * m, Unit)

LEMMA FloatReadsBack ==
  ASSUME NEW d, d.multiplier \in Nat \ {0}, NEW asked \in Int,
         FitsFloat32(Abs(asked) * Unit, d.multiplier)
  PROVE  LET words == EncodeFloat(d, asked)
             value == ReadBack(Abs(asked) * Unit, d.multiplier)
         IN /\ words \in Seq(WordValues) /\ Len(words) = 2
            /\ DecodeFloat(d, words) = IF asked < 0 THEN -value ELSE value
<1> DEFINE n == Abs(asked) * Unit
           p == Pattern(n, d.multiplier)
           negative == asked < 0
           words == EncodeFloat32(p, negative)
<1>1. n \in Nat
  BY FloatAssumption DEF Abs
<1>2. p \in Nat /\ p < Infinite
      /\ TwoDigits(Magnitude(p) * d.multiplier, Unit) = ReadBack(n, d.multiplier)
  <2> HIDE DEF n
  <2> QED
    BY <1>1, PatternCounts DEF ReadBack, n
<1>3. negative \in BOOLEAN /\ EncodeFloat(d, asked) = words
  BY DEF EncodeFloat
<1> HIDE DEF n, p, negative
<1>4. /\ words \in Seq(WordValues) /\ Len(words) = 2
      /\ (words[2] % 32768) * 65536 + words[1] = p
      /\ words[2] >= 32768 <=> negative
  BY <1>2, <1>3, FloatWords
<1> HIDE DEF words
<1>5. ~ (p >= Infinite)
  <2>1. Infinite \in Int
    BY FloatAssumption, GapsAreNumbers DEF Infinite
  <2> QED
    BY <1>2, <2>1
<1>6. DecodeFloat(d, words) = IF asked < 0 THEN -ReadBack(n, d.multiplier) ELSE ReadBack(n, d.multiplier)
  BY <1>2, <1>4, <1>5 DEF DecodeFloat, negative
<1> QED
  BY <1>3, <1>4, <1>6 DEF n

\* A magnitude is off by half its gap and half a hundredth.
LEMMA MagnitudeError ==
  ASSUME NEW a \in Nat, NEW m \in Nat \ {0}, FitsFloat32(a * Unit, m)
  PROVE  LET value == ReadBack(a * Unit, m)
             twice == Unit * Cent + m * Gaps[GapIndex(a * Unit, m)]
         IN /\ value \in Int /\ twice \in Nat
            /\ 2 * Unit * (value - a) \in -twice .. twice
<1> DEFINE n == a * Unit
           g == Gaps[GapIndex(n, m)]
           s == RoundHalfEven(n, m * g)
           value == ReadBack(n, m)
           x == (s * g) * m
           slack == m * g
           half == Unit * Cent
<1>1. n \in Nat /\ Unit \in Nat \ {0}
  BY FloatAssumption
<1>2. g \in Nat \ {0} /\ s \in Nat
  <2> HIDE DEF n
  <2> QED
    BY <1>1, PatternCounts, GapsAreNumbers DEF n
<1>3. slack \in Nat \ {0} /\ half \in Nat /\ x \in Int
  BY <1>1, <1>2 DEF Cent
<1>4. value = TwoDigits(x, Unit)
  BY DEF ReadBack
<1> HIDE DEF n, g
<1>5. 2 * (slack * s - n) \in -slack..slack
  <2> HIDE DEF slack
  <2>1. s = RoundHalfEven(n, slack)
    BY DEF slack
  <2> HIDE DEF s
  <2> QED
    BY <1>1, <1>3, <2>1, Rounding
<1>6. slack * s = x
  BY <1>2
<1> HIDE DEF x, s, value
<1>7. value \in Int /\ 2 * (Unit * value - x) \in -half..half
  BY <1>1, <1>3, <1>4, TwoDigitsEffect
<1>8. 2 * Unit * (value - a) = 2 * (Unit * value - x) + 2 * (x - n)
  <2>1. 2 * Unit * (value - a) = 2 * (Unit * value - a * Unit)
    BY <1>1, <1>7
  <2>2. Unit * value \in Int
    BY <1>1, <1>7
  <2> QED
    BY <1>1, <1>3, <2>1, <2>2 DEF n
<1> HIDE DEF slack, half
<1>9. 2 * Unit * (value - a) \in -(half + slack) .. half + slack
  <2>1. Unit * value \in Int
    BY <1>1, <1>7
  <2> DEFINE e == 2 * (Unit * value - x)
             f == 2 * (x - n)
  <2>2. e \in -half..half /\ f \in -slack..slack
    BY <1>1, <1>3, <1>5, <1>6, <1>7, <2>1
  <2> HIDE DEF e, f
  <2>3. e + f \in -(half + slack) .. half + slack
    BY <1>3, <2>2
  <2> QED
    BY <1>8, <2>3 DEF e, f
<1> QED
  BY <1>3, <1>7, <1>9 DEF n, g, value, slack, half

\* A magnitude stays on its side of every number of hundredths that is a float.
LEMMA MagnitudeKeepsOrder ==
  ASSUME NEW a \in Nat, NEW m \in Nat \ {0}, FitsFloat32(a * Unit, m),
         NEW b \in Nat, b % Cent = 0, NEW j \in DOMAIN Gaps,
         HasGap(b * Unit, m, j), (b * Unit) % (m * Gaps[j]) = 0
  PROVE  /\ a <= b => ReadBack(a * Unit, m) <= b
         /\ a >= b => ReadBack(a * Unit, m) >= b
<1> DEFINE n == a * Unit
           l == b * Unit
           i == GapIndex(n, m)
           g == Gaps[i]
           h == Gaps[j]
           s == RoundHalfEven(n, m * g)
           t == l \div (m * h)
<1>1. n \in Nat /\ l \in Nat /\ Unit \in Nat \ {0} /\ Half \in Nat \ {0}
  BY FloatAssumption
<1>2. i \in DOMAIN Gaps /\ s \in Nat /\ (i = 1 \/ s >= Half) /\ HasGap(n, m, i)
  <2> HIDE DEF n
  <2> QED
    BY <1>1, PatternCounts DEF n
<1>3. g \in Nat \ {0} /\ h \in Nat \ {0} /\ m * g \in Nat \ {0} /\ m * h \in Nat \ {0} /\ i \in Nat \ {0} /\ j \in Nat \ {0}
  BY <1>2, GapsAreNumbers
<1>4. t \in Int /\ l = (m * h) * t
  <2> DEFINE e == m * h
  <2>1. e \in Nat \ {0} /\ l \in Int /\ t = l \div e /\ l % e = 0
    BY <1>1, <1>3
  <2> HIDE DEF l, e, t
  <2>2. t \in Int /\ l = e * t
    BY <2>1, Division
  <2> QED
    BY <2>2 DEF e
<1>5. l < (m * h) * (2 * Half) /\ (i = 1 \/ (m * g) * Half <= n)
  BY <1>2 DEF HasGap
<1>6. (a <= b => n <= l) /\ (a >= b => n >= l)
  BY <1>1, TimesKeepsOrder
<1> HIDE DEF n, l, g, h, s, t
<1>7. t < 2 * Half
  <2> SUFFICES ASSUME 2 * Half <= t PROVE FALSE
    BY <1>1, <1>4
  <2>1. (m * h) * (2 * Half) <= (m * h) * t
    BY <1>1, <1>3, <1>4, TimesKeepsOrder
  <2> QED
    BY <1>1, <1>3, <1>4, <1>5, <2>1
<1>8. (a <= b => s * g <= t * h) /\ (a >= b => s * g >= t * h)
  <2>1. CASE i = j
    <3>1. g = h
      BY <2>1 DEF g, h
    <3>2. (n <= l => s <= t) /\ (n >= l => s >= t)
      BY <1>1, <1>3, <1>4, <3>1, RoundingKeepsOrder DEF s
    <3> QED
      BY <1>2, <1>3, <1>4, <1>6, <3>1, <3>2, TimesKeepsOrder
  <2>2. CASE i < j
    <3>1. PICK k \in Nat \ {0} : h = g * (2 * k)
      BY <1>2, <2>2, LaterGap DEF g, h
    <3> DEFINE u == (2 * k) * t
    <3>2. u \in Int
      BY <1>4
    <3>3. l = (m * g) * u /\ t * h = u * g
      BY <1>3, <1>4, <3>1
    <3> HIDE DEF u
    <3>4. (n <= l => s <= u) /\ (n >= l => s >= u)
      BY <1>1, <1>3, <3>2, <3>3, RoundingKeepsOrder DEF s
    <3> QED
      BY <1>2, <1>3, <1>6, <3>2, <3>3, <3>4, TimesKeepsOrder
  <2>3. CASE j < i
    <3>1. PICK k \in Nat \ {0} : g = h * (2 * k)
      BY <1>2, <2>3, LaterGap DEF g, h
    <3>2. i # 1
      BY <1>3, <2>3
    <3>3. 2 * h <= g
      <4>1. 2 <= 2 * k
        OBVIOUS
      <4>2. h * 2 <= h * (2 * k)
        BY <1>3, <4>1, TimesKeepsOrder
      <4> QED
        BY <1>3, <3>1, <4>2
    <3>4. t * h <= s * g
      <4>1. t * h <= (2 * Half) * h
        BY <1>1, <1>3, <1>4, <1>7, TimesKeepsOrder
      <4>2. (2 * Half) * h = Half * (2 * h)
        BY <1>1, <1>3
      <4>3. Half * (2 * h) <= Half * g
        BY <1>1, <1>3, <3>3, TimesKeepsOrder
      <4>4. Half * g <= s * g
        BY <1>1, <1>2, <1>3, <3>2, TimesKeepsOrder
      <4>5. t * h \in Int /\ (2 * Half) * h \in Int /\ Half * g \in Int /\ s * g \in Int
        BY <1>1, <1>2, <1>3, <1>4
      <4> QED
        BY <4>1, <4>2, <4>3, <4>4, <4>5
    <3>5. l < n
      <4>1. (m * h) * (2 * Half) = (m * Half) * (2 * h)
        BY <1>1, <1>3
      <4>2. m * Half \in Nat
        BY <1>1
      <4>3. (m * Half) * (2 * h) <= (m * Half) * g
        BY <1>3, <3>3, <4>2, TimesKeepsOrder
      <4>4. (m * Half) * g = (m * g) * Half
        BY <1>1, <1>3
      <4>5. (m * h) * (2 * Half) \in Int /\ (m * g) * Half \in Int
        BY <1>1, <1>3
      <4> QED
        BY <1>1, <1>5, <3>2, <4>1, <4>3, <4>4, <4>5
    <3> QED
      BY <1>1, <1>6, <3>4, <3>5
  <2> QED
    BY <1>3, <2>1, <2>2, <2>3
<1> DEFINE x == (s * g) * m
<1>9. x \in Int /\ ReadBack(n, m) = TwoDigits(x, Unit)
  BY <1>2, <1>3 DEF ReadBack, s, g
<1>10. (a <= b => x <= Unit * b) /\ (a >= b => x >= Unit * b)
  <2>1. (t * h) * m = Unit * b
    BY <1>1, <1>3, <1>4 DEF l
  <2>2. t * h \in Int /\ s * g \in Int
    BY <1>2, <1>3, <1>4
  <2> QED
    BY <1>8, <2>1, <2>2, TimesKeepsOrder
<1> HIDE DEF x
<1>11. /\ x <= Unit * b => TwoDigits(x, Unit) <= b
       /\ x >= Unit * b => TwoDigits(x, Unit) >= b
  <2>1. \A limit \in Int : limit % Cent = 0 =>
          /\ x <= Unit * limit => TwoDigits(x, Unit) <= limit
          /\ x >= Unit * limit => TwoDigits(x, Unit) >= limit
    BY <1>1, <1>9, TwoDigitsEffect
  <2>2. b \in Int
    OBVIOUS
  <2> QED
    BY <2>1, <2>2, Zenon
<1> QED
  BY <1>9, <1>10, <1>11 DEF n

-----------------------------------------------------------------------------
(* What a value becomes on its way to the device and back *)

\* What reading back must give: the low eight bits of flags, and otherwise the
\* value up to the tolerance of its conversions, on the same side as the value
\* of everything that the register can hold.
GivesBack(d, asked, got) ==
  IF d.datatype = "BITFLAG"
  THEN got = One * (Trunc(asked) % 256)
  ELSE /\ got \in Int
       /\ 2 * Unit * (got - asked) \in -TwiceTolerance(d, asked) .. TwiceTolerance(d, asked)
       /\ \A limit \in Int : Exact(d, limit) =>
            /\ asked <= limit => got <= limit
            /\ asked >= limit => got >= limit

\* A float is off by what its magnitude is off, and its sign keeps it in order.
LEMMA FloatGivesBack ==
  ASSUME NEW d, d.datatype = "FLOAT", d.multiplier \in Nat \ {0}, NEW asked \in Int,
         FitsFloat32(Abs(asked) * Unit, d.multiplier)
  PROVE  LET value == ReadBack(Abs(asked) * Unit, d.multiplier)
         IN GivesBack(d, asked, IF asked < 0 THEN -value ELSE value)
<1> DEFINE a == Abs(asked)
           m == d.multiplier
           value == ReadBack(a * Unit, m)
           got == IF asked < 0 THEN -value ELSE value
           twice == Unit * Cent + m * Gaps[GapIndex(a * Unit, m)]
<1>1. a \in Nat /\ asked = (IF asked < 0 THEN -a ELSE a)
  BY DEF Abs
<1>2. FitsFloat32(a * Unit, m) /\ m \in Nat \ {0}
  OBVIOUS
<1>3. TwiceTolerance(d, asked) = twice
  BY DEF TwiceTolerance
<1> HIDE DEF a, m
<1>4. value \in Int /\ twice \in Nat /\ 2 * Unit * (value - a) \in -twice .. twice
  BY <1>1, <1>2, MagnitudeError
<1>5. ASSUME NEW b \in Nat, Exact(d, b) \/ Exact(d, -b)
      PROVE  (a <= b => value <= b) /\ (a >= b => value >= b)
  <2>1. Abs(b) = b /\ Abs(-b) = b /\ (b % Cent = 0 <=> (-b) % Cent = 0)
    BY DEF Abs, Cent
  <2>2. PICK j \in DOMAIN Gaps : HasGap(b * Unit, m, j) /\ (b * Unit) % (m * Gaps[j]) = 0
    BY <1>5, <2>1 DEF Exact, m
  <2>3. b % Cent = 0
    BY <1>5, <2>1 DEF Exact
  <2> QED
    BY <1>1, <1>2, <2>2, <2>3, MagnitudeKeepsOrder
<1> HIDE DEF value, twice
<1>6. value >= 0
  <2>1. 1 \in DOMAIN Gaps /\ Gaps[1] = 1 /\ Half \in Nat \ {0} /\ Unit \in Nat \ {0}
    BY FloatAssumption
  <2>2. Abs(0) * Unit = 0 /\ 0 % Cent = 0
    BY <2>1 DEF Abs, Cent
  <2>3. HasGap(0, m, 1) /\ 0 % (m * Gaps[1]) = 0
    BY <1>2, <2>1 DEF HasGap
  <2>4. Exact(d, 0)
    BY <2>1, <2>2, <2>3 DEF Exact, m
  <2> QED
    BY <1>1, <1>5, <2>4
<1>7. 2 * Unit * (got - asked) \in -twice .. twice
  <2>1. Unit \in Nat
    BY FloatAssumption
  <2>2. CASE asked < 0
    <3>1. 2 * Unit * (got - asked) = -(2 * Unit * (value - a))
      BY <1>1, <1>4, <2>1, <2>2
    <3> QED
      BY <1>4, <3>1
  <2>3. CASE ~ (asked < 0)
    BY <1>1, <1>4, <2>3
  <2> QED
    BY <2>2, <2>3
<1>8. ASSUME NEW limit \in Int, Exact(d, limit)
      PROVE  (asked <= limit => got <= limit) /\ (asked >= limit => got >= limit)
  <2> DEFINE b == Abs(limit)
  <2>1. b \in Nat /\ limit = (IF limit < 0 THEN -b ELSE b) /\ (limit = b \/ limit = -b)
    BY DEF Abs
  <2> HIDE DEF b
  <2>2. (a <= b => value <= b) /\ (a >= b => value >= b)
    BY <1>5, <1>8, <2>1
  <2> QED
    BY <1>1, <1>4, <1>6, <2>1, <2>2
<1>9. got \in Int
  BY <1>4
<1> HIDE DEF got
<1>10. GivesBack(d, asked, got)
  BY <1>3, <1>7, <1>8, <1>9 DEF GivesBack
<1> QED
  BY <1>10 DEF got, value, a, m

\* An integer is off by half a multiplier, and by half a hundredth if the
\* multiplier has more digits.
LEMMA IntegerGivesBack ==
  ASSUME NEW d, d.datatype \in {"UCHAR", "INT8", "INT16", "UINT16"}, d.multiplier \in Nat \ {0},
         NEW asked \in Int
  PROVE  GivesBack(d, asked, Multiplied(d, Scaled(d, asked)))
<1> DEFINE m == d.multiplier
           n == Scaled(d, asked)
           x == n * m
           got == Multiplied(d, n)
           slack == IF m % Cent = 0 THEN 0 ELSE Cent
<1>1. m \in Nat \ {0} /\ n = RoundHalfEven(asked, m)
  BY DEF Scaled
<1> HIDE DEF m, n
<1>2. n \in Int /\ 2 * (m * n - asked) \in -m..m
  BY <1>1, Rounding
<1>3. x \in Int /\ x = m * n
  BY <1>1, <1>2
<1>4. got = IF m = One THEN n * One ELSE TwoDigits(x, 1)
  BY DEF Multiplied, m
<1> HIDE DEF x
<1>5. /\ TwoDigits(x, 1) \in Int
      /\ 2 * (TwoDigits(x, 1) - x) \in -Cent .. Cent
      /\ \A limit \in Int : limit % Cent = 0 =>
           /\ x <= limit => TwoDigits(x, 1) <= limit
           /\ x >= limit => TwoDigits(x, 1) >= limit
  <2> DEFINE v == TwoDigits(x, 1)
  <2>1. /\ v \in Int
        /\ 2 * (1 * v - x) \in -(1 * Cent) .. 1 * Cent
        /\ \A limit \in Int : limit % Cent = 0 =>
             /\ x <= 1 * limit => v <= limit
             /\ x >= 1 * limit => v >= limit
    BY <1>3, TwoDigitsEffect
  <2> HIDE DEF v
  <2>2. 1 * v = v /\ 1 * Cent = Cent /\ \A limit \in Int : 1 * limit = limit
    BY <2>1 DEF Cent
  <2> QED
    BY <2>1, <2>2 DEF v
<1>6. m % Cent = 0 => got = x
  <2> SUFFICES ASSUME m % Cent = 0 PROVE got = x
    OBVIOUS
  <2>1. CASE m = One
    BY <1>2, <1>3, <1>4, <2>1 DEF One
  <2>2. CASE m # One
    <3> DEFINE k == m \div Cent
    <3>1. k \in Int /\ m = Cent * k
      BY <1>1 DEF Cent
    <3> HIDE DEF k
    <3>2. x = Cent * (k * n) /\ k * n \in Int
      BY <1>2, <1>3, <3>1 DEF Cent
    <3>3. x % Cent = 0
      BY <3>2 DEF Cent
    <3>4. TwoDigits(x, 1) = x
      BY <1>3, <1>5, <3>3
    <3> QED
      BY <1>4, <2>2, <3>4
  <2> QED
    BY <2>1, <2>2
<1>7. m = One => m % Cent = 0
  BY DEF One, Cent
<1>8. got \in Int /\ 2 * (got - x) \in -slack .. slack
  BY <1>3, <1>4, <1>5, <1>6, <1>7 DEF Cent
<1> HIDE DEF got
<1>9. 2 * (got - asked) \in -(m + slack) .. m + slack
  BY <1>1, <1>2, <1>3, <1>8 DEF Cent
<1>10. 2 * Unit * (got - asked) \in -(Unit * (m + slack)) .. Unit * (m + slack)
  <2> DEFINE e == 2 * (got - asked)
             f == m + slack
  <2>1. e \in Int /\ f \in Int /\ -f <= e /\ e <= f /\ Unit \in Nat
    BY <1>1, <1>8, <1>9, FloatAssumption DEF Cent
  <2>2. 2 * Unit * (got - asked) = Unit * e
    BY <1>8, <2>1
  <2> HIDE DEF e, f
  <2>3. Unit * (-f) <= Unit * e /\ Unit * e <= Unit * f
    BY <2>1, TimesKeepsOrder
  <2>4. Unit * (-f) = -(Unit * f) /\ Unit * f \in Int /\ Unit * e \in Int
    BY <2>1
  <2>5. Unit * e \in -(Unit * f) .. Unit * f
    BY <2>3, <2>4
  <2> QED
    BY <2>2, <2>5 DEF f
<1>11. TwiceTolerance(d, asked) = Unit * (m + slack)
  BY DEF TwiceTolerance, m
<1>12. ASSUME NEW limit \in Int, Exact(d, limit)
       PROVE  (asked <= limit => got <= limit) /\ (asked >= limit => got >= limit)
  <2> DEFINE k == limit \div m
  <2>1. limit % m = 0 /\ limit % Cent = 0
    BY <1>12 DEF Exact, m
  <2>2. k \in Int /\ limit = m * k
    <3>1. k \in Int /\ limit = m * k + (limit % m)
      BY <1>1, Division
    <3> HIDE DEF k
    <3>2. m * k \in Int
      BY <1>1, <3>1
    <3> QED
      BY <2>1, <3>1, <3>2
  <2> HIDE DEF k
  <2>3. (asked <= limit => n <= k) /\ (asked >= limit => n >= k)
    BY <1>1, <2>2, RoundingKeepsOrder
  <2>4. (asked <= limit => x <= limit) /\ (asked >= limit => x >= limit)
    BY <1>1, <1>2, <1>3, <2>2, <2>3, TimesKeepsOrder
  <2>5. (x <= limit => TwoDigits(x, 1) <= limit) /\ (x >= limit => TwoDigits(x, 1) >= limit)
    BY <1>5, <2>1
  <2> QED
    BY <1>4, <1>6, <1>7, <2>4, <2>5
<1> HIDE DEF slack
<1>13. GivesBack(d, asked, got)
  BY <1>8, <1>10, <1>11, <1>12 DEF GivesBack
<1> QED
  BY <1>13 DEF got, n

\* One word is read back as number n, times the multiplier.
LEMMA WordRoundTrip ==
  ASSUME NEW d, NEW n \in Int, d.datatype \in {"UCHAR", "INT8", "INT16", "UINT16"}, InRange(d.datatype, n)
  PROVE  LET word == MaskInteger(n, IF d.datatype \in {"UCHAR", "INT8"} THEN 256 ELSE 65536)
         IN /\ word \in WordValues
            /\ DecodeValue(d, <<word>>) = Multiplied(d, n)
<1>1. CASE d.datatype = "UCHAR"
  <2>1. DecodeValue(d, <<MaskInteger(n, 256)>>) = Multiplied(d, MaskInteger(MaskInteger(n, 256), 256))
    BY <1>1 DEF DecodeValue
  <2>2. n >= 0 /\ n < 256
    BY <1>1 DEF InRange
  <2>3. MaskInteger(n, 256) = n
    BY <2>2 DEF MaskInteger
  <2> QED
    BY <1>1, <2>1, <2>2, <2>3 DEF WordValues
<1>2. CASE d.datatype = "INT8"
  <2>1. DecodeValue(d, <<MaskInteger(n, 256)>>) = Multiplied(d, Signed(MaskInteger(n, 256), 256))
    BY <1>2 DEF DecodeValue
  <2>2. n >= -128 /\ n < 128
    BY <1>2 DEF InRange
  <2>3. MaskInteger(n, 256) \in Nat /\ MaskInteger(n, 256) < 256 /\ Signed(MaskInteger(n, 256), 256) = n
    BY <2>2, SignedByte
  <2> QED
    BY <1>2, <2>1, <2>3 DEF WordValues
<1>3. CASE d.datatype = "INT16"
  <2>1. DecodeValue(d, <<MaskInteger(n, 65536)>>) = Multiplied(d, Signed(MaskInteger(n, 65536), 65536))
    BY <1>3 DEF DecodeValue
  <2>2. n >= -32768 /\ n < 32768
    BY <1>3 DEF InRange
  <2>3. MaskInteger(n, 65536) \in Nat /\ MaskInteger(n, 65536) < 65536 /\ Signed(MaskInteger(n, 65536), 65536) = n
    BY <2>2, SignedWord
  <2> QED
    BY <1>3, <2>1, <2>3 DEF WordValues
<1>4. CASE d.datatype = "UINT16"
  <2>1. DecodeValue(d, <<MaskInteger(n, 65536)>>) = Multiplied(d, MaskInteger(n, 65536))
    BY <1>4 DEF DecodeValue
  <2>2. n >= 0 /\ n < 65536
    BY <1>4 DEF InRange
  <2>3. MaskInteger(n, 65536) = n
    BY <2>2 DEF MaskInteger
  <2> QED
    BY <1>4, <2>1, <2>2, <2>3 DEF WordValues
<1> QED
  BY <1>1, <1>2, <1>3, <1>4

\* Every data type decodes what it encoded, whatever the multiplier, up to the
\* bits that flags lose and the rounding that the type and the multiplier bring:
\* no encoder accepts a value that its words cannot tell from a farther one.
THEOREM RoundTrip ==
  ASSUME NEW d, d.datatype \in DataTypes, d.multiplier \in Nat \ {0},
         NEW asked \in Int, d.datatype = "BOOL" => asked \in {0, One}, Encodable(d, asked)
  PROVE  /\ EncodeValue(d, asked) \in Seq(WordValues) /\ Len(EncodeValue(d, asked)) = Size(d)
         /\ GivesBack(d, asked, DecodeValue(d, EncodeValue(d, asked)))
<1> DEFINE words == EncodeValue(d, asked)
           n == Scaled(d, asked)
<1>1. n \in Int /\ InRange(d.datatype, n)
  BY Rounding DEF Scaled, Encodable
<1>2. CASE d.datatype = "FLOAT"
  <2>1. words = EncodeFloat(d, asked)
    BY <1>2 DEF EncodeValue
  <2>2. DecodeValue(d, words) = DecodeFloat(d, words)
    BY <1>2 DEF DecodeValue
  <2>3. FitsFloat32(Abs(asked) * Unit, d.multiplier)
    BY <1>2 DEF Encodable
  <2>4. Size(d) = 2
    BY <1>2 DEF Size
  <2>5. GivesBack(d, asked, DecodeFloat(d, EncodeFloat(d, asked)))
    BY <1>2, <2>3, FloatReadsBack, FloatGivesBack
  <2>6. EncodeFloat(d, asked) \in Seq(WordValues) /\ Len(EncodeFloat(d, asked)) = 2
    BY <2>3, FloatReadsBack
  <2> QED
    BY <2>1, <2>2, <2>4, <2>5, <2>6
<1>3. CASE d.datatype = "BOOL"
  <2> DEFINE bit == IF asked = 0 THEN 0 ELSE 1
  <2>1. words = <<bit>>
    BY <1>3 DEF EncodeValue
  <2>2. DecodeValue(d, <<bit>>) = One * (MaskInteger(bit, 256) % 2)
    BY <1>3 DEF DecodeValue
  <2>3. MaskInteger(bit, 256) = bit /\ bit % 2 = bit /\ bit \in WordValues
    BY DEF MaskInteger, WordValues
  <2>4. One * bit = asked
    BY <1>3 DEF One
  <2> HIDE DEF bit
  <2>5. GivesBack(d, asked, asked)
    <3>1. TwiceTolerance(d, asked) = 0
      BY <1>3 DEF TwiceTolerance
    <3>2. 2 * Unit * (asked - asked) \in -0 .. 0
      BY FloatAssumption
    <3> QED
      BY <1>3, <3>1, <3>2 DEF GivesBack
  <2> QED
    BY <1>3, <2>1, <2>2, <2>3, <2>4, <2>5 DEF Size
<1>4. CASE d.datatype = "BITFLAG"
  <2> DEFINE low == Trunc(asked) % 256
  <2>1. words = <<low>>
    BY <1>4 DEF EncodeValue, MaskInteger
  <2>2. DecodeValue(d, <<low>>) = One * MaskInteger(low, 256)
    BY <1>4 DEF DecodeValue
  <2>3. low \in Nat /\ low < 256
    BY DEF One, Trunc
  <2>4. MaskInteger(low, 256) = low /\ low \in WordValues
    BY <2>3 DEF MaskInteger, WordValues
  <2> QED
    BY <1>4, <2>1, <2>2, <2>4 DEF GivesBack, Size
<1>5. CASE d.datatype \in {"UCHAR", "INT8", "INT16", "UINT16"}
  <2> DEFINE word == MaskInteger(n, IF d.datatype \in {"UCHAR", "INT8"} THEN 256 ELSE 65536)
  <2>1. words = <<word>>
    BY <1>5 DEF EncodeValue
  <2>2. word \in WordValues /\ DecodeValue(d, <<word>>) = Multiplied(d, n)
    BY <1>1, <1>5, WordRoundTrip
  <2> HIDE DEF word
  <2>3. GivesBack(d, asked, Multiplied(d, n))
    BY <1>5, IntegerGivesBack
  <2> QED
    BY <1>5, <2>1, <2>2, <2>3 DEF Size
<1> QED
  BY <1>2, <1>3, <1>4, <1>5 DEF DataTypes, IntegerTypes

-----------------------------------------------------------------------------
(* The invariant *)

\* A plan passed the checks that depend on its definition and value alone, and
\* its words are the encoded value.
Planned(p) ==
  LET d == p.definition
      asked == Comparable(p.value)
  IN /\ WriteValue(d, p.value) /\ WriteMetadata(d, asked) /\ Encodable(d, asked)
     /\ p.words = EncodeValue(d, asked)

PlansArePlanned == \A p \in {plan, written} \ {None} : Planned(p)

IInv == TypeOK /\ PlansArePlanned /\ PlanStaysAcceptable

\* What is compared is a number of the type that it is compared for.
LEMMA ComparableRange ==
  ASSUME NEW d \in Definitions, NEW v \in Values, WriteValue(d, v)
  PROVE  /\ Comparable(v) \in Int
         /\ d.datatype = "BOOL" => Comparable(v) \in {0, One}
         /\ d.datatype \in IntegerTypes => Comparable(v) % One = 0
<1>1. v.n \in Int
  BY ValuesAssumption
<1>2. CASE v.kind = "boolean"
  <2>1. Comparable(v) = 0 \/ Comparable(v) = One
    BY <1>2 DEF Comparable
  <2>2. d.datatype = "BOOL"
    BY <1>2 DEF WriteValue
  <2>3. 0 \in Int /\ One \in Int
    BY DEF One
  <2> QED
    BY <2>1, <2>2, <2>3 DEF IntegerTypes
<1>3. CASE v.kind # "boolean"
  <2>1. Comparable(v) = v.n
    BY <1>3 DEF Comparable
  <2> QED
    BY <1>1, <1>3, <2>1 DEF WriteValue, IntegerTypes
<1> QED
  BY <1>2, <1>3

\* A plan's words are the ones that its definition has room for, and give the
\* value back.
LEMMA PlannedRoundTrip ==
  ASSUME NEW d \in Definitions, NEW v \in Values, WriteValue(d, v), Encodable(d, Comparable(v))
  PROVE  LET asked == Comparable(v)
             words == EncodeValue(d, asked)
         IN /\ asked \in Int
            /\ words \in Seq(WordValues) /\ Len(words) = Size(d)
            /\ GivesBack(d, asked, DecodeValue(d, words))
<1>1. d.datatype \in DataTypes /\ d.multiplier \in Nat \ {0}
  BY DefinitionsAssumption
<1>2. Comparable(v) \in Int /\ (d.datatype = "BOOL" => Comparable(v) \in {0, One})
  BY ComparableRange
<1> QED
  BY <1>1, <1>2, RoundTrip

-----------------------------------------------------------------------------
(* Every step keeps it *)

\* Nothing is planned and nothing was written.
LEMMA Initially == Init => IInv
  BY TimeAssumption DEF Init, IInv, TypeOK, PlansArePlanned, PlanStaysAcceptable, NoTime

\* The plan's turn sees the clock go on and a throttle reset, and nothing that
\* would take back the permission.
LEMMA AcceptedLater ==
  ASSUME TypeOK, plan # None, PlanStaysAcceptable,
         UNCHANGED <<plan, registerMap>>, now' \in {now, now + 1},
         \A name \in Names : lastEepromWrites'[name] \in {NoTime, lastEepromWrites[name]}
  PROVE  PlanStaysAcceptable'
<1> DEFINE d == plan.definition
           last == lastEepromWrites[d.name]
<1>1. plan \in Plans
  BY DEF TypeOK
<1>2. d \in Definitions
  BY <1>1 DEF Plans
<1>3. d.name \in Names
  BY <1>2 DEF Names
<1>4. now \in Int /\ last \in Int /\ lastEepromWrites'[d.name] \in {NoTime, last}
  BY <1>3, TimeAssumption DEF TypeOK, NoTime
<1>5. Accepts(d, plan.value, plan.custom)
  BY DEF PlanStaysAcceptable
<1>6. EepromWriteAllowed(d)'
  BY <1>4, <1>5, TimeAssumption DEF Accepts, EepromWriteAllowed
<1>7. Accepts(d, plan.value, plan.custom)'
  BY <1>5, <1>6 DEF Accepts, ModelMember
<1> QED
  BY <1>7 DEF PlanStaysAcceptable

\* A new plan passed every check.
LEMMA WriteKeeps ==
  ASSUME IInv, NEW d \in Definitions, NEW v \in Values, NEW custom \in BOOLEAN, Write(d, v, custom)
  PROVE  IInv'
<1> DEFINE asked == Comparable(v)
           p == [definition |-> d, value |-> v, custom |-> custom, words |-> EncodeValue(d, asked)]
<1>1. plan' = p /\ written' = None /\ UNCHANGED <<now, registerMap, lastEepromWrites, cyclicDeadlines>>
  BY DEF Write
<1>2. Accepts(d, v, custom) /\ WriteValue(d, v) /\ WriteMetadata(d, asked) /\ Encodable(d, asked)
  BY DEF Write, Accepts
<1>3. p \in Plans /\ Len(p.words) = Size(p.definition)
  BY <1>2, PlannedRoundTrip DEF Plans
<1>4. p.definition = d /\ p.value = v /\ p.custom = custom /\ p.words = EncodeValue(d, asked)
  OBVIOUS
<1> HIDE DEF p, asked
<1>5. TypeOK'
  BY <1>1, <1>3 DEF TypeOK, IInv
<1>6. PlansArePlanned'
  BY <1>1, <1>2, <1>4 DEF PlansArePlanned, Planned, asked
<1>7. PlanStaysAcceptable'
  BY <1>1, <1>2, <1>4 DEF PlanStaysAcceptable, Accepts, ModelMember, EepromWriteAllowed
<1> QED
  BY <1>5, <1>6, <1>7 DEF IInv

\* The plan becomes the last write, at a time of the clock.
LEMMA AcknowledgedKeeps ==
  ASSUME IInv, Acknowledged
  PROVE  IInv'
<1> DEFINE d == plan.definition
<1>1. plan \in Plans /\ plan # None
  BY DEF IInv, TypeOK, Acknowledged
<1>2. d \in Definitions /\ now \in 0..MaxTime
  BY <1>1 DEF Plans, IInv, TypeOK
<1>3. lastEepromWrites' \in [Names -> 0..MaxTime \cup {NoTime}]
  BY <1>2 DEF Acknowledged, RecordSuccessfulWrite, IInv, TypeOK, Names
<1>4. /\ DOMAIN cyclicDeadlines' = Names
      /\ \A name \in Names : cyclicDeadlines'[name] \in Int
  <2>1. now + (IF d.ttl # None THEN d.ttl ELSE DefaultTtl) \in Int
    BY <1>2, TimeAssumption, DefinitionsAssumption
  <2> QED
    BY <2>1 DEF Acknowledged, RecordSuccessfulWrite, IInv, TypeOK
<1>5. TypeOK'
  BY <1>1, <1>3, <1>4 DEF Acknowledged, IInv, TypeOK
<1>6. PlansArePlanned' /\ PlanStaysAcceptable'
  BY <1>1 DEF Acknowledged, IInv, PlansArePlanned, Planned, PlanStaysAcceptable
<1> QED
  BY <1>5, <1>6 DEF IInv

\* A failed write leaves no plan.
LEMMA WriteFailsKeeps ==
  ASSUME IInv, WriteFails
  PROVE  IInv'
  BY DEF WriteFails, IInv, TypeOK, PlansArePlanned, Planned, PlanStaysAcceptable

\* A detection waits for its turn, so there is no plan that it could outdate.
LEMMA DetectKeeps ==
  ASSUME IInv, Detect
  PROVE  IInv'
  BY DEF Detect, IInv, TypeOK, PlansArePlanned, Planned, PlanStaysAcceptable

\* The steps that do not wait for a turn.
LEMMA FreeStepKeeps ==
  ASSUME IInv,
         \/ Tick
         \/ \E names \in SUBSET Names : ResetWriteThrottle(names) \/ ResetCyclicWriteState(names)
         \/ UNCHANGED vars
  PROVE  IInv'
<1> DEFINE
      OnlyFrees ==
        /\ UNCHANGED <<plan, written, registerMap>> /\ now' \in {now, now + 1} /\ now' \in 0..MaxTime
        /\ lastEepromWrites' \in [Names -> 0..MaxTime \cup {NoTime}]
        /\ \A name \in Names : lastEepromWrites'[name] \in {NoTime, lastEepromWrites[name]}
        /\ DOMAIN cyclicDeadlines' = Names
        /\ \A name \in Names : cyclicDeadlines'[name] \in Int
<1>1. OnlyFrees
  <2>1. CASE Tick
    BY <2>1, TimeAssumption DEF Tick, IInv, TypeOK
  <2>2. ASSUME NEW names \in SUBSET Names, ResetWriteThrottle(names)
        PROVE  OnlyFrees
    BY <2>2 DEF ResetWriteThrottle, IInv, TypeOK
  <2>3. ASSUME NEW names \in SUBSET Names, ResetCyclicWriteState(names)
        PROVE  OnlyFrees
    BY <2>3 DEF ResetCyclicWriteState, IInv, TypeOK, NoTime
  <2>4. CASE UNCHANGED vars
    BY <2>4 DEF vars, IInv, TypeOK
  <2> HIDE DEF OnlyFrees
  <2> QED
    BY <2>1, <2>2, <2>3, <2>4
<1>2. TypeOK'
  BY <1>1 DEF IInv, TypeOK
<1>3. PlansArePlanned'
  BY <1>1 DEF IInv, PlansArePlanned, Planned
<1>4. PlanStaysAcceptable'
  <2>1. CASE plan = None
    BY <1>1, <2>1 DEF PlanStaysAcceptable
  <2>2. CASE plan # None
    BY <1>1, <2>2, AcceptedLater DEF IInv
  <2> QED
    BY <2>1, <2>2
<1> QED
  BY <1>2, <1>3, <1>4 DEF IInv

\* Every step of the specification is one of these.
LEMMA NextKeeps == IInv /\ [Next]_vars => IInv'
<1> SUFFICES ASSUME IInv, [Next]_vars PROVE IInv'
  OBVIOUS
<1>1. ASSUME NEW names \in {{name} : name \in Names} \cup {Names}
      PROVE  names \in SUBSET Names
  OBVIOUS
<1> QED
  BY <1>1, WriteKeeps, AcknowledgedKeeps, WriteFailsKeeps, DetectKeeps, FreeStepKeeps DEF Next

\* The invariant of the write safety state.
THEOREM SpecIInv == Spec => []IInv
  BY Initially, NextKeeps, PTL DEF Spec

-----------------------------------------------------------------------------
(* What it implies *)

\* The variables of the write safety state keep their types, and a plan has the
\* words that its register has room for.
THEOREM WriteTypes == Spec => []TypeOK
<1>1. IInv => TypeOK
  BY DEF IInv
<1> QED
  BY <1>1, SpecIInv, PTL

\* A write whose plan passed its checks at the start of its turn would pass them
\* until the device answers, for any definitions, register maps and interval.
THEOREM PlansStayAcceptable == Spec => []PlanStaysAcceptable
<1>1. IInv => PlanStaysAcceptable
  BY DEF IInv
<1> QED
  BY <1>1, SpecIInv, PTL

\* The words of an acknowledged write.
LEMMA WrittenGivesBack ==
  ASSUME IInv, written # None
  PROVE  LET d == written.definition
             asked == Comparable(written.value)
         IN /\ d \in Definitions /\ written.value \in Values
            /\ WriteValue(d, written.value) /\ WriteMetadata(d, asked)
            /\ asked \in Int /\ GivesBack(d, asked, Written)
<1>1. written \in Plans /\ Planned(written)
  BY DEF IInv, TypeOK, PlansArePlanned
<1>2. written.definition \in Definitions /\ written.value \in Values
  BY <1>1 DEF Plans
<1> QED
  BY <1>1, <1>2, PlannedRoundTrip DEF Planned, Written

\* An acknowledged write reads back as what was asked for, for any values and
\* definitions, floats included: up to the lower eight bits of flags, and
\* otherwise up to half a multiplier, half the gap between two floats and half a
\* hundredth.
THEOREM WritesReadBack == Spec => []ReadsBackAsRequested
<1>1. ASSUME IInv, written # None
      PROVE  ReadsBackAsRequested
  BY <1>1, WrittenGivesBack DEF ReadsBackAsRequested, GivesBack
<1>2. IInv => ReadsBackAsRequested
  BY <1>1 DEF ReadsBackAsRequested
<1> QED
  BY <1>2, SpecIInv, PTL

\* A byte of flags loses none of them.
LEMMA FlagsOfAByte ==
  ASSUME NEW n \in Int, 0 <= n, n <= 255 * One, n % One = 0
  PROVE  One * (Trunc(n) % 256) = n
<1> DEFINE q == n \div 1000
<1>1. n \in Nat /\ n <= 255000 /\ n % 1000 = 0
  BY DEF One
<1>2. q \in Int /\ n = 1000 * q
  BY <1>1
<1>3. Trunc(n) = q
  BY <1>1 DEF Trunc, One
<1> HIDE DEF q
<1>4. q >= 0 /\ q < 256
  BY <1>1, <1>2
<1>5. q % 256 = q
  BY <1>2, <1>4
<1> QED
  BY <1>2, <1>3, <1>5 DEF One

\* A value that its register can hold is written as it was checked.
LEMMA ExactIsWritten ==
  ASSUME IInv, written # None, Exact(written.definition, Comparable(written.value))
  PROVE  Written = Comparable(written.value)
<1> DEFINE d == written.definition
           asked == Comparable(written.value)
<1>1. /\ d \in Definitions /\ written.value \in Values /\ WriteValue(d, written.value)
      /\ asked \in Int /\ GivesBack(d, asked, Written)
  BY WrittenGivesBack
<1>2. CASE d.datatype = "BITFLAG"
  <2>1. asked % One = 0
    BY <1>1, <1>2, ComparableRange DEF IntegerTypes
  <2>2. 0 <= asked /\ asked <= 255 * One
    <3>1. asked \in 0 .. 255 * One
      BY <1>2 DEF Exact
    <3>2. 255 * One \in Int
      BY DEF One
    <3> HIDE DEF asked
    <3> QED
      BY <1>1, <3>1, <3>2
  <2>3. Written = One * (Trunc(asked) % 256)
    BY <1>1, <1>2 DEF GivesBack
  <2> HIDE DEF asked
  <2>4. One * (Trunc(asked) % 256) = asked
    BY <1>1, <2>1, <2>2, FlagsOfAByte
  <2> QED
    BY <2>3, <2>4 DEF asked
<1>3. CASE d.datatype # "BITFLAG"
  <2>1. /\ Written \in Int
        /\ \A limit \in Int : Exact(d, limit) =>
             /\ asked <= limit => Written <= limit
             /\ asked >= limit => Written >= limit
    BY <1>1, <1>3 DEF GivesBack
  <2>2. Exact(d, asked)
    OBVIOUS
  <2> HIDE DEF d, asked
  <2>3. Written <= asked /\ Written >= asked
    BY <1>1, <2>1, <2>2
  <2>4. Written = asked
    BY <1>1, <2>1, <2>3
  <2> QED
    BY <2>4 DEF asked
<1> QED
  BY <1>2, <1>3

\* The checks are made on the requested value, yet they hold of the written one
\* if the register can hold the requested one, and a limit that the register can
\* hold is never passed by rounding.  Nothing is claimed of flags above 255, of
\* limits in between two values and of the exclusions and enumerations that a
\* rounded value may run into.
THEOREM WritesAreAllowed == Spec => []OnlyAllowedValuesWritten
<1>1. ASSUME IInv, written # None
      PROVE  OnlyAllowedValuesWritten
  <2> DEFINE d == written.definition
             asked == Comparable(written.value)
  <2>1. /\ d \in Definitions /\ WriteMetadata(d, asked)
        /\ asked \in Int /\ GivesBack(d, asked, Written)
    BY <1>1, WrittenGivesBack
  <2>2. Exact(d, asked) => WriteMetadata(d, Written)
    BY <1>1, <2>1, ExactIsWritten
  <2>3. ASSUME d.datatype # "BITFLAG"
        PROVE  /\ d.min # None /\ Exact(d, d.min) => Written >= d.min
               /\ d.max # None /\ Exact(d, d.max) => Written <= d.max
    <3>1. \A limit \in Int : Exact(d, limit) =>
            /\ asked <= limit => Written <= limit
            /\ asked >= limit => Written >= limit
      BY <2>1, <2>3 DEF GivesBack
    <3>2. d.min \in Int \cup {None} /\ d.max \in Int \cup {None}
      BY <2>1, DefinitionsAssumption
    <3>3. (d.min # None => asked >= d.min) /\ (d.max # None => asked <= d.max)
      BY <2>1 DEF WriteMetadata
    <3> QED
      BY <3>1, <3>2, <3>3
  <2> QED
    BY <1>1, <2>2, <2>3 DEF OnlyAllowedValuesWritten
<1>2. IInv => OnlyAllowedValuesWritten
  BY <1>1 DEF OnlyAllowedValuesWritten
<1> QED
  BY <1>2, SpecIInv, PTL

-----------------------------------------------------------------------------
(* Throttles and heartbeats *)

\* A sensitive definition has the write class that is throttled: nothing in
\* createRegisterDef lets it be anything else.
LEMMA SensitiveIsThrottled ==
  ASSUME NEW d \in Definitions, d.eeprom, ~ d.writeOnly
  PROVE  WriteClass(d) = "eeprom"
<1>1. d.writable /\ ~ d.cyclic
  BY DefinitionsAssumption DEF ValidDefinition
<1> QED
  BY <1>1 DEF WriteClass

\* The write that is acknowledged was allowed by the throttle, and renews it, for
\* any definitions, interval and other users of the name.
THEOREM SensitiveSpacing == Spec => SensitiveWritesAreSpaced
<1>1. ASSUME IInv, Acknowledged, plan.definition.eeprom, ~ plan.definition.writeOnly
      PROVE  LET name == plan.definition.name IN
             /\ lastEepromWrites[name] # NoTime => now - lastEepromWrites[name] >= Interval
             /\ lastEepromWrites'[name] = now
  <2> DEFINE d == plan.definition
  <2>1. plan \in Plans /\ plan # None
    BY <1>1 DEF IInv, TypeOK, Acknowledged
  <2>2. d \in Definitions
    BY <2>1 DEF Plans
  <2>3. d.name \in Names /\ WriteClass(d) = "eeprom"
    BY <1>1, <2>2, SensitiveIsThrottled DEF Names
  <2>4. EepromWriteAllowed(d)
    BY <1>1, <2>1 DEF IInv, PlanStaysAcceptable, Accepts
  <2>5. lastEepromWrites' = [lastEepromWrites EXCEPT ![d.name] = now]
    BY <1>1, <2>3 DEF Acknowledged, RecordSuccessfulWrite
  <2> HIDE DEF d
  <2>6. lastEepromWrites'[d.name] = now
    BY <1>1, <2>3, <2>5 DEF IInv, TypeOK
  <2>7. lastEepromWrites[d.name] # NoTime => now - lastEepromWrites[d.name] >= Interval
    BY <2>3, <2>4 DEF EepromWriteAllowed
  <2> QED
    BY <2>6, <2>7 DEF d
<1>2. IInv => [Acknowledged /\ plan.definition.eeprom /\ ~ plan.definition.writeOnly =>
                 LET name == plan.definition.name IN
                 /\ lastEepromWrites[name] # NoTime => now - lastEepromWrites[name] >= Interval
                 /\ lastEepromWrites'[name] = now]_vars
  BY <1>1
<1> QED
  BY <1>2, SpecIInv, PTL DEF SensitiveWritesAreSpaced

\* A heartbeat that was acknowledged is due later than now, because no time to
\* live is zero.
LEMMA AcknowledgedIsActive ==
  ASSUME IInv, Acknowledged, WriteClass(plan.definition) = "cyclic"
  PROVE  plan.definition.name \in GetActiveCyclicWrites' \ GetExpiredCyclicWrites'
<1> DEFINE d == plan.definition
           due == now + (IF d.ttl # None THEN d.ttl ELSE DefaultTtl)
<1>1. plan \in Plans /\ plan # None
  BY DEF IInv, TypeOK, Acknowledged
<1>2. d \in Definitions /\ now \in 0..MaxTime /\ now' = now
  BY <1>1 DEF Plans, IInv, TypeOK, Acknowledged
<1>3. d.name \in Names
  BY <1>2 DEF Names
<1>4. due \in Int /\ due > now /\ now \in Nat
  BY <1>2, TimeAssumption, DefinitionsAssumption DEF ValidDefinition
<1>5. cyclicDeadlines' = [cyclicDeadlines EXCEPT ![d.name] = due]
  BY DEF Acknowledged, RecordSuccessfulWrite
<1> HIDE DEF d, due
<1>6. cyclicDeadlines'[d.name] = due
  BY <1>3, <1>5 DEF IInv, TypeOK
<1>7. d.name \in GetActiveCyclicWrites' \ GetExpiredCyclicWrites'
  BY <1>2, <1>3, <1>4, <1>6 DEF GetActiveCyclicWrites, GetExpiredCyclicWrites, NoTime
<1> QED
  BY <1>7 DEF d

\* A heartbeat is either active or expired as time goes by, and an expired one
\* stays so.
LEMMA TickExpires ==
  ASSUME IInv, Tick, NEW name \in Names
  PROVE  /\ name \in GetActiveCyclicWrites \cup GetExpiredCyclicWrites =>
              (name \in GetExpiredCyclicWrites') # (name \in GetActiveCyclicWrites')
         /\ name \in GetExpiredCyclicWrites => name \in GetExpiredCyclicWrites'
<1> DEFINE due == cyclicDeadlines[name]
<1>1. now \in Int /\ now' = now + 1 /\ cyclicDeadlines' = cyclicDeadlines /\ due \in Int
  BY TimeAssumption DEF IInv, TypeOK, Tick
<1>2. /\ name \in GetActiveCyclicWrites <=> due # NoTime /\ due > now
      /\ name \in GetExpiredCyclicWrites <=> due # NoTime /\ due <= now
  BY DEF GetActiveCyclicWrites, GetExpiredCyclicWrites
<1>3. /\ name \in GetActiveCyclicWrites' <=> due # NoTime /\ due > now'
      /\ name \in GetExpiredCyclicWrites' <=> due # NoTime /\ due <= now'
  BY <1>1 DEF GetActiveCyclicWrites, GetExpiredCyclicWrites
<1> HIDE DEF due
<1>4. due # NoTime => (due <= now' <=> ~ (due > now')) /\ (due <= now => due <= now')
  BY <1>1
<1> QED
  BY <1>2, <1>3, <1>4

\* Heartbeats are active from their acknowledgement until their deadline and
\* expired from then on, for any times to live.
THEOREM HeartbeatExpiry == Spec => HeartbeatsExpire
<1>1. ASSUME IInv, NEW name \in Names
      PROVE  /\ Acknowledged /\ plan.definition.name = name /\ WriteClass(plan.definition) = "cyclic" =>
                  name \in GetActiveCyclicWrites' \ GetExpiredCyclicWrites'
             /\ Tick /\ name \in GetActiveCyclicWrites \cup GetExpiredCyclicWrites =>
                  (name \in GetExpiredCyclicWrites') # (name \in GetActiveCyclicWrites')
             /\ Tick /\ name \in GetExpiredCyclicWrites => name \in GetExpiredCyclicWrites'
  BY <1>1, AcknowledgedIsActive, TickExpires
<1>2. IInv =>
        [\A name \in Names :
           /\ Acknowledged /\ plan.definition.name = name /\ WriteClass(plan.definition) = "cyclic" =>
                name \in GetActiveCyclicWrites' \ GetExpiredCyclicWrites'
           /\ Tick /\ name \in GetActiveCyclicWrites \cup GetExpiredCyclicWrites =>
                (name \in GetExpiredCyclicWrites') # (name \in GetActiveCyclicWrites')
           /\ Tick /\ name \in GetExpiredCyclicWrites => name \in GetExpiredCyclicWrites']_vars
  BY <1>1
<1> QED
  BY <1>2, SpecIInv, PTL DEF HeartbeatsExpire
=============================================================================
