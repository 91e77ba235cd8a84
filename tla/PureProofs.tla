----------------------------- MODULE PureProofs -----------------------------
(***************************************************************************)
(* Theorems about what MCPure computes, for every width of the word, every  *)
(* scale, every framing and every section: the integer arithmetic of         *)
(* common/arith.h and common/rate.c, the averages of latency/tracker.c on it, *)
(* the charge of a packet (cake/accounting.h, cake/cake.c), and what loading *)
(* and checking leave of a configuration (src/config).  The provers do not   *)
(* compute with products, so that a product or a quotient gets a name as     *)
(* soon as what is needed of it is known.                                    *)
(***************************************************************************)
EXTENDS MCPure, FiniteSetTheorems, TLAPS

-----------------------------------------------------------------------------
(* Arith: the integers, and what a word leaves of them.                     *)

\* Natural numbers are closed under multiplication, which keeps their order.
LEMMA Products ==
  ASSUME NEW a \in Nat, NEW b \in Nat
  PROVE  /\ a * b \in Nat /\ a * b = b * a
         /\ \A c \in Nat : a <= c => a * b <= c * b
         /\ \A c \in Int : (a + c) * b = a * b + c * b
  BY SMT

\* A quotient and a remainder are known by the sum they make.
LEMMA Quotient ==
  ASSUME NEW d \in Nat \ {0}, NEW q \in Int, NEW r \in 0 .. d - 1
  PROVE  (d * q + r) \div d = q /\ (d * q + r) % d = r
  <1> DEFINE x == d * q + r
             k == (x \div d) - q
  <1>1. /\ x \in Int /\ x \div d \in Int /\ x % d \in 0 .. d - 1
        /\ x = d * (x \div d) + (x % d)
    OBVIOUS
  <1>2. k \in Int /\ d * k = r - (x % d)
    <2>1. \A a, b \in Int : d * (a - b) = d * a - d * b OBVIOUS
    <2> QED BY <1>1, <2>1
  <1>3. r - (x % d) < d /\ r - (x % d) > -d BY <1>1
  <1>4. ~(k >= 1)
    <2>1. \A a \in Int : a >= 1 => d * a >= d OBVIOUS
    <2> HIDE DEF k
    <2> QED BY <1>1, <1>2, <1>3, <2>1
  <1>5. ~(k <= -1)
    <2>1. \A a \in Int : a <= -1 => d * a <= -d OBVIOUS
    <2> HIDE DEF k
    <2> QED BY <1>1, <1>2, <1>3, <2>1
  <1>6. k = 0 BY <1>2, <1>4, <1>5
  <1>7. d * 0 = 0 OBVIOUS
  <1> QED BY <1>1, <1>2, <1>6, <1>7

\* A division in Euclid's parts.
LEMMA Divided ==
  ASSUME NEW x \in Nat, NEW d \in Nat \ {0}
  PROVE  /\ x \div d \in Nat /\ x % d \in 0 .. d - 1 /\ x % d \in Nat
         /\ x = d * (x \div d) + (x % d)
  OBVIOUS

\* A division keeps the order of what it divides.
LEMMA DividedInOrder ==
  ASSUME NEW a \in Nat, NEW b \in Nat, a <= b, NEW d \in Nat \ {0}
  PROVE  a \div d <= b \div d
  <1> DEFINE qa == a \div d
             ra == a % d
             qb == b \div d
             rb == b % d
  <1>1. /\ qa \in Nat /\ ra \in 0 .. d - 1 /\ a = d * qa + ra
        /\ qb \in Nat /\ rb \in 0 .. d - 1 /\ b = d * qb + rb
    BY Divided
  <1> HIDE DEF qa, ra, qb, rb
  <1>2. SUFFICES ASSUME qb + 1 <= qa PROVE FALSE BY <1>1 DEF qa, qb
  <1>3. d * (qb + 1) <= d * qa BY <1>1, <1>2, SMT
  <1>4. d * (qb + 1) = d * qb + d BY <1>1, SMT
  <1>5. d * qb \in Nat /\ d * qa \in Nat BY <1>1, Products
  <1> QED BY <1>1, <1>3, <1>4, <1>5

\* A product can be divided in the parts of its first factor.
LEMMA SplitQuotient ==
  ASSUME NEW a \in Nat, NEW b \in Nat, NEW c \in Nat, NEW d \in Nat \ {0}
  PROVE  (a * b + c) \div d = (a \div d) * b + (((a % d) * b + c) \div d)
  <1> DEFINE q == a \div d
             m == a % d
             n == m * b + c
             p == n \div d
             r == n % d
  <1>1. q \in Nat /\ m \in Nat /\ a = d * q + m BY Divided
  <1> HIDE DEF q, m
  <1>2. n \in Nat BY <1>1, Products
  <1> HIDE DEF n
  <1>3. p \in Nat /\ r \in 0 .. d - 1 /\ n = d * p + r BY <1>2, Divided
  <1> HIDE DEF p, r
  <1>4. a * b + c = d * (q * b + p) + r
    <2>1. (d * q + m) * b = (d * q) * b + m * b BY <1>1, SMT
    <2>2. (d * q) * b = d * (q * b) BY <1>1, SMT
    <2>3. q * b \in Nat /\ m * b \in Nat BY <1>1, Products
    <2>4. d * (q * b + p) = d * (q * b) + d * p BY <1>3, <2>3, SMT
    <2>5. n = m * b + c BY DEF n
    <2> HIDE DEF n
    <2> DEFINE qb == q * b
               mb == m * b
               dqb == d * qb
               dp == d * p
    <2>6. dqb \in Int /\ dp \in Int /\ mb \in Int BY <1>3, <2>3, SMT
    <2>7. a * b = dqb + mb BY <1>1, <2>1, <2>2
    <2>8. mb + c = dp + r BY <1>3, <2>5
    <2>9. d * (q * b + p) = dqb + dp BY <2>4
    <2> HIDE DEF qb, mb, dqb, dp
    <2> QED BY <1>3, <2>6, <2>7, <2>8, <2>9
  <1>5. q * b + p \in Int BY <1>1, <1>3, Products
  <1> DEFINE sum == q * b + p
  <1>6. (d * sum + r) \div d = sum
    <2> HIDE DEF sum
    <2> QED BY <1>3, <1>5, Quotient DEF sum
  <1> QED BY <1>4, <1>6 DEF q, p, n, m

\* What does not leave the word is not wrapped.
LEMMA Unwrapped == ASSUME NEW x \in 0 .. U64_MAX PROVE Wrap(x) = x
  BY ArithAssumption DEF Wrap

\* A saturating sum of a saturating product is the capped exact one.
LEMMA Saturates ==
  ASSUME NEW q \in Nat, NEW r \in Nat, NEW y \in Nat
  PROVE  saturating_add(saturating_mul(q, r), y) = Capped(q * r + y)
  <1> DEFINE p == q * r
  <1>1. p \in Nat BY Products
  <1>2. saturating_mul(q, r) = IF p > U64_MAX THEN U64_MAX ELSE p
    BY DEF saturating_mul
  <1>3. U64_MAX \in Nat BY ArithAssumption
  <1>4. Capped(q * r + y) = Capped(p + y) OBVIOUS
  <1> HIDE DEF p
  <1> QED BY <1>1, <1>2, <1>3, <1>4 DEF saturating_add, Capped

\* The largest ratio with which the remainder's product stays in the word.
LEMMA RatioFits ==
  /\ RATIO_ONE_E6 \in Nat \ {0} /\ U64_MAX \in Nat
  /\ U64_MAX \div RATIO_ONE_E6 \in Nat /\ RATIO_ONE_E6 <= U64_MAX \div RATIO_ONE_E6
  /\ \A k \in Nat : k <= U64_MAX \div RATIO_ONE_E6 => RATIO_ONE_E6 * k <= U64_MAX
  <1> DEFINE one == RATIO_ONE_E6
             most == U64_MAX \div one
             left == U64_MAX % one
  <1>1. one \in Nat \ {0} /\ U64_MAX \in Nat /\ one * one <= U64_MAX BY ArithAssumption
  <1>2. most \in Nat /\ left \in 0 .. one - 1 /\ U64_MAX = one * most + left
    BY <1>1, Divided
  <1> HIDE DEF most, left
  <1>3. \A k \in Nat : k <= most => one * k <= one * most BY <1>1, <1>2, SMT
  <1>4. one * most \in Nat BY <1>1, <1>2, Products
  <1>5. \A k \in Nat : k <= most => one * k <= U64_MAX
    <2> TAKE k \in Nat
    <2>1. one * k \in Nat BY <1>1, Products
    <2> QED BY <1>2, <1>3, <1>4, <2>1
  <1>6. one <= most
    <2> SUFFICES ASSUME most + 1 <= one PROVE FALSE BY <1>1, <1>2
    <2>1. (most + 1) * one <= one * one BY <1>1, <1>2, SMT
    <2>2. (most + 1) * one = one * most + one BY <1>1, <1>2, SMT
    <2> QED BY <1>1, <1>2, <1>4, <2>1, <2>2
  <1> QED BY <1>1, <1>2, <1>5, <1>6 DEF most

\* The quotient and the remainder of value by one, and the parts of a product
\* with ratio that they make.
Parts(value, ratio, one, q, m) ==
  /\ q = value \div one /\ m = value % one /\ m < one
  /\ \A c \in Nat :
       (value * ratio + c) \div one = q * ratio + ((m * ratio + c) \div one)

\* The parts of a value whose products with a ratio make the ratio's.
LEMMA RatioParts ==
  ASSUME NEW value \in Nat, NEW ratio \in Nat, NEW one \in Nat \ {0}
  PROVE  \E q, m \in Nat : Parts(value, ratio, one, q, m)
  <1> DEFINE q == value \div one
             m == value % one
  <1>1. q \in Nat /\ m \in 0 .. one - 1 /\ m \in Nat BY Divided
  <1>2. m < one
    <2> HIDE DEF m
    <2> QED BY <1>1
  <1>3. \A c \in Nat :
          (value * ratio + c) \div one = q * ratio + ((m * ratio + c) \div one)
    <2> HIDE DEF q, m
    <2>1. \A c \in Nat :
            (value * ratio + c) \div one
              = (value \div one) * ratio + (((value % one) * ratio + c) \div one)
      BY SplitQuotient
    <2> QED BY <2>1 DEF q, m
  <1> HIDE DEF q, m
  <1>4. Parts(value, ratio, one, q, m) BY <1>2, <1>3 DEF Parts, q, m
  <1> QED BY <1>1, <1>4

\* ratio_of and ratio_of_rounded_up are exact within the ratio they promise it for.
LEMMA RatioTrue ==
  ASSUME NEW value \in Nat, NEW ratio \in Nat, ratio <= U64_MAX \div RATIO_ONE_E6
  PROVE  /\ ratio_of(value, ratio) = Capped((value * ratio) \div RATIO_ONE_E6)
         /\ ratio_of_rounded_up(value, ratio)
              = Capped((value * ratio + RATIO_ONE_E6 - 1) \div RATIO_ONE_E6)
  <1> DEFINE one == RATIO_ONE_E6
             up == one - 1
  <1>1. one \in Nat \ {0} /\ U64_MAX \in Nat /\ up \in Nat BY RatioFits
  <1>0. PICK q \in Nat, m \in Nat : Parts(value, ratio, one, q, m)
    <2>1. one \in Nat \ {0} BY <1>1
    <2> HIDE DEF one
    <2> QED BY <2>1, RatioParts, Zenon
  <1>2. q \in Nat /\ m \in Nat /\ m <= up BY <1>0, <1>1 DEF Parts
  <1>3. \A c \in Nat :
          (value * ratio + c) \div one = q * ratio + ((m * ratio + c) \div one)
    BY <1>0 DEF Parts
  <1> DEFINE p == m * ratio
  <1>4. p \in Nat /\ p + up <= U64_MAX
    <2> DEFINE most == U64_MAX \div one
    <2>1. most \in Nat /\ one <= most /\ one * most <= U64_MAX /\ ratio <= most
      BY RatioFits
    <2> HIDE DEF most, up
    <2>2. p \in Nat BY <1>2, Products
    <2>3. m * ratio <= up * ratio /\ up * ratio \in Nat BY <1>1, <1>2, Products
    <2>4. ratio * up <= most * up BY <1>1, <2>1, Products
    <2>5. up * ratio = ratio * up BY <1>1, Products
    <2>6. most * up = one * most - most
      <3>1. \A a, b \in Int : b * (a - 1) = a * b - b BY SMT
      <3> QED BY <1>1, <2>1, <3>1 DEF up
    <2> DEFINE top == one * most
               bottom == most * up
    <2>7. top \in Nat /\ bottom \in Nat BY <1>1, <2>1, Products
    <2>8. p <= bottom
      <3> DEFINE first == up * ratio
                 second == ratio * up
      <3>1. first \in Nat /\ p <= first /\ first = second /\ second <= bottom
        BY <2>3, <2>4, <2>5
      <3> HIDE DEF p, bottom, first, second
      <3> QED BY <2>2, <2>7, <3>1
    <2>9. bottom = top - most /\ top <= U64_MAX /\ up = one - 1
      BY <2>1, <2>6 DEF up
    <2> HIDE DEF p, top, bottom
    <2> QED BY <1>1, <2>1, <2>2, <2>7, <2>8, <2>9
  <1>5. Wrap(p) = p /\ Wrap(p + up) = p + up
    <2> HIDE DEF p, up
    <2> DEFINE n == p + up
    <2>1. n \in 0 .. U64_MAX /\ p \in 0 .. U64_MAX BY <1>1, <1>4
    <2> HIDE DEF n
    <2>2. Wrap(n) = n BY <2>1, Unwrapped
    <2> QED BY <2>1, <2>2, Unwrapped DEF n
  <1>6. \A c \in Nat : (value * ratio + c) \div one = q * ratio + ((p + c) \div one)
    BY <1>3
  <1>7. \A c \in Nat : (p + c) \div one \in Nat
    <2> HIDE DEF p
    <2> QED BY <1>1, <1>4, Divided
  <1>8. saturating_add(saturating_mul(q, ratio), p \div one)
          = Capped((value * ratio) \div one)
    <2>1. p + 0 = p /\ value * ratio + 0 = value * ratio BY <1>4, Products
    <2>2. p \div one \in Nat /\ (value * ratio) \div one = q * ratio + (p \div one)
      BY <1>6, <1>7, <2>1
    <2> DEFINE y == p \div one
    <2> HIDE DEF y
    <2>3. saturating_add(saturating_mul(q, ratio), y) = Capped(q * ratio + y)
      BY <1>2, <2>2, Saturates DEF y
    <2> QED BY <2>2, <2>3 DEF y
  <1>9. saturating_add(saturating_mul(q, ratio), (p + up) \div one)
          = Capped((value * ratio + up) \div one)
    <2>1. (p + up) \div one \in Nat
          /\ (value * ratio + up) \div one = q * ratio + ((p + up) \div one)
      BY <1>1, <1>6, <1>7
    <2> DEFINE y == (p + up) \div one
    <2> HIDE DEF y
    <2>2. saturating_add(saturating_mul(q, ratio), y) = Capped(q * ratio + y)
      BY <1>2, <2>1, Saturates DEF y
    <2> QED BY <2>1, <2>2 DEF y
  <1>10. value * ratio + one - 1 = value * ratio + up
    BY <1>1, Products
  <1>11. p + one - 1 = p + up BY <1>1, <1>4
  <1>12. ratio_of(value, ratio) = saturating_add(saturating_mul(q, ratio), p \div one)
    BY <1>0, <1>5 DEF Parts, ratio_of
  <1>13. ratio_of_rounded_up(value, ratio)
           = saturating_add(saturating_mul(q, ratio), (p + up) \div one)
    <2>1. ratio_of_rounded_up(value, ratio)
            = saturating_add(saturating_mul(q, ratio), Wrap(p + one - 1) \div one)
      BY <1>0 DEF Parts, ratio_of_rounded_up
    <2> QED BY <1>5, <1>11, <2>1
  <1> QED BY <1>8, <1>9, <1>10, <1>12, <1>13

\* What a word holds once, it holds as often as the quotient says.
LEMMA WordHolds ==
  ASSUME NEW n \in Nat, NEW scale \in Nat \ {0}, NEW whole \in Nat
  PROVE  whole <= n \div scale => scale * whole <= n
  <1> DEFINE q == n \div scale
             m == n % scale
  <1>1. q \in Nat /\ m \in 0 .. scale - 1 /\ n = scale * q + m BY Divided
  <1> HIDE DEF q, m
  <1>2. \A k \in Nat : k <= q => scale * k <= scale * q BY <1>1, SMT
  <1> DEFINE a == scale * whole
             b == scale * q
  <1>3. a \in Nat /\ b \in Nat BY <1>1, Products
  <1>4. whole <= q => a <= b BY <1>2
  <1> HIDE DEF a, b
  <1>5. n = b + m BY <1>1 DEF b
  <1>6. whole <= q => a <= n BY <1>1, <1>3, <1>4, <1>5
  <1> QED BY <1>6 DEF a, q

\* The quotient that fraction_to_ratio and bps form, for a whole that leaves room
\* for the remainder's product.
LEMMA ScaledQuotient ==
  ASSUME NEW part \in Nat, NEW whole \in Nat \ {0}, NEW scale \in Nat \ {0},
         scale * whole <= U64_MAX
  PROVE  /\ (part % whole) * scale \in 0 .. U64_MAX
         /\ saturating_add(saturating_mul(part \div whole, scale),
                           ((part % whole) * scale) \div whole)
              = Capped((part * scale) \div whole)
  <1>1. PICK q \in Nat, m \in Nat : Parts(part, scale, whole, q, m)
    <2>1. scale \in Nat OBVIOUS
    <2> QED BY <2>1, RatioParts, Zenon
  <1> DEFINE p == m * scale
             top == scale * whole
  <1>2. U64_MAX \in Nat /\ top \in Nat /\ p \in Nat BY ArithAssumption, Products
  <1>3. p <= top
    <2>1. m <= whole BY <1>1 DEF Parts
    <2>2. m * scale <= whole * scale /\ whole * scale = top BY <2>1, Products
    <2> QED BY <2>2
  <1>4. p \in 0 .. U64_MAX
    <2>1. top <= U64_MAX OBVIOUS
    <2> HIDE DEF p, top
    <2> QED BY <1>2, <1>3, <2>1
  <1>5. (part * scale) \div whole = q * scale + (p \div whole)
    <2>1. (part * scale + 0) \div whole = q * scale + ((p + 0) \div whole)
      BY <1>1 DEF Parts
    <2>2. part * scale + 0 = part * scale /\ p + 0 = p BY <1>2, Products
    <2> QED BY <2>1, <2>2
  <1> DEFINE y == p \div whole
  <1>6. y \in Nat
    <2> HIDE DEF p
    <2> QED BY <1>2, Divided
  <1>7. y = ((part % whole) * scale) \div whole /\ p = (part % whole) * scale
        /\ q = part \div whole
    BY <1>1 DEF Parts
  <1>8. (part * scale) \div whole = q * scale + y BY <1>5
  <1> HIDE DEF y
  <1>9. saturating_add(saturating_mul(q, scale), y) = Capped(q * scale + y)
    BY <1>6, Saturates
  <1> QED BY <1>4, <1>7, <1>8, <1>9

\* The quotient that fraction_to_ratio forms, for a whole whose remainder fits.
LEMMA FractionSplit ==
  ASSUME NEW part \in Nat, NEW whole \in Nat \ {0}, whole <= U64_MAX \div RATIO_ONE_E6
  PROVE  saturating_add(saturating_mul(part \div whole, RATIO_ONE_E6),
                        Wrap((part % whole) * RATIO_ONE_E6) \div whole)
           = Capped((part * RATIO_ONE_E6) \div whole)
  <1> DEFINE one == RATIO_ONE_E6
             p == (part % whole) * one
  <1>1. one \in Nat \ {0} /\ U64_MAX \in Nat /\ one * whole <= U64_MAX BY RatioFits
  <1>2. /\ p \in 0 .. U64_MAX
        /\ saturating_add(saturating_mul(part \div whole, one), p \div whole)
             = Capped((part * one) \div whole)
    <2> HIDE DEF one
    <2> QED BY <1>1, ScaledQuotient
  <1>3. Wrap(p) = p
    <2> HIDE DEF p
    <2> QED BY <1>2, Unwrapped
  <1> QED BY <1>2, <1>3

\* fraction_to_ratio is exact below its guard, and a part never reads as more than all.
LEMMA FractionTrue ==
  ASSUME NEW part \in Nat, NEW whole \in U64
  PROVE  /\ whole \in 1 .. U64_MAX \div RATIO_ONE_E6 =>
              fraction_to_ratio(part, whole)
                = Capped((part * RATIO_ONE_E6) \div whole)
         /\ part <= whole => fraction_to_ratio(part, whole) <= RATIO_ONE_E6
  <1> DEFINE one == RATIO_ONE_E6
             most == U64_MAX \div one
             large == whole > most
             p == IF large THEN part \div one ELSE part
             w == IF large THEN whole \div one ELSE whole
  <1>1. /\ one \in Nat \ {0} /\ U64_MAX \in Nat /\ most \in Nat
        /\ whole \in Nat /\ whole <= U64_MAX
    BY RatioFits DEF U64
  <1>2. fraction_to_ratio(part, whole) =
          IF w = 0 THEN 0 ELSE saturating_add(saturating_mul(p \div w, one),
                                              Wrap((p % w) * one) \div w)
    BY DEF fraction_to_ratio
  <1>3. \A a, b \in Nat : a <= b => a \div one <= b \div one /\ a \div one \in Nat
    <2> SUFFICES ASSUME NEW a \in Nat, NEW b \in Nat, a <= b
                 PROVE  a \div one <= b \div one /\ a \div one \in Nat
      OBVIOUS
    <2> HIDE DEF one
    <2> QED BY <1>1, Divided, DividedInOrder
  <1>4. w \in Nat /\ p \in Nat /\ w <= most /\ (part <= whole => p <= w)
    BY <1>1, <1>3
  <1>5. w # 0 => fraction_to_ratio(part, whole) = Capped((p * one) \div w)
    <2> HIDE DEF p, w
    <2> QED BY <1>2, <1>4, FractionSplit
  <1>6. part <= whole => fraction_to_ratio(part, whole) <= one
    <2> HIDE DEF p, w
    <2>1. CASE w = 0 BY <1>1, <1>2, <2>1
    <2>2. ASSUME w # 0, p <= w PROVE Capped((p * one) \div w) <= one
      <3> DEFINE n == p * one
                 q == n \div w
                 r == n % w
      <3>1. n \in Nat /\ n <= w * one BY <1>1, <1>4, <2>2, Products
      <3> HIDE DEF n
      <3>2. q \in Nat /\ r \in 0 .. w - 1 /\ n = w * q + r BY <1>4, <2>2, <3>1, Divided
      <3> HIDE DEF q, r
      <3>3. q <= one
        <4> SUFFICES ASSUME one + 1 <= q PROVE FALSE BY <1>1, <3>2
        <4>1. w * (one + 1) <= w * q /\ w * (one + 1) = w * one + w
          BY <1>1, <1>4, <2>2, <3>2, SMT
        <4>2. w * one \in Nat /\ w * q \in Nat BY <1>1, <1>4, <3>2, Products
        <4> QED BY <1>4, <2>2, <3>1, <3>2, <4>1, <4>2
      <3> QED BY <1>1, <3>2, <3>3, RatioFits DEF Capped, q, n
    <2> QED BY <1>4, <1>5, <2>1, <2>2
  <1>7. ASSUME whole \in 1 .. most
        PROVE  fraction_to_ratio(part, whole) = Capped((part * one) \div whole)
    <2>1. w = whole /\ p = part /\ w # 0 BY <1>1, <1>7
    <2> HIDE DEF w, p
    <2> QED BY <1>5, <2>1
  <1> QED BY <1>6, <1>7

\* bps is exact as long as the remainder's product fits.
LEMMA BpsTrue ==
  ASSUME NEW value \in Nat, NEW elapsed \in Nat \ {0}, NEW scale,
         scale = BITS_PER_BYTE * SECOND, elapsed <= U64_MAX \div scale
  PROVE  bps(value, elapsed) = Capped((value * scale) \div elapsed)
  <1>1. scale \in Nat \ {0} /\ U64_MAX \in Nat BY ArithAssumption DEF BITS_PER_BYTE
  <1>2. scale * elapsed <= U64_MAX BY <1>1, WordHolds
  <1> DEFINE p == (value % elapsed) * scale
  <1>3. /\ p \in 0 .. U64_MAX
        /\ saturating_add(saturating_mul(value \div elapsed, scale), p \div elapsed)
             = Capped((value * scale) \div elapsed)
    BY <1>1, <1>2, ScaledQuotient
  <1>4. bps(value, elapsed)
          = saturating_add(saturating_mul(value \div elapsed, scale),
                           saturating_mul(value % elapsed, scale) \div elapsed)
    BY DEF bps
  <1>5. saturating_mul(value % elapsed, scale) = IF p > U64_MAX THEN U64_MAX ELSE p
    BY DEF saturating_mul
  <1>6. ~(p > U64_MAX)
    <2> HIDE DEF p
    <2> QED BY <1>1, <1>3
  <1>7. saturating_mul(value % elapsed, scale) = p BY <1>5, <1>6
  <1> QED BY <1>3, <1>4, <1>7

\* A quotient that is rounded up from half a divisor is within half of it.
LEMMA RoundedQuotient ==
  ASSUME NEW value \in Nat, NEW d \in Nat \ {0}, NEW up \in {0, 1}, NEW n,
         up = 1 <=> 2 * (value % d) >= d, n = (value \div d) + up
  PROVE  /\ n \in Nat /\ n * d \in Nat
         /\ -d <= 2 * (value - n * d) /\ 2 * (value - n * d) < d
  <1> DEFINE q == value \div d
             m == value % d
  <1>1. q \in Nat /\ m \in 0 .. d - 1 /\ value = d * q + m BY Divided
  <1>2. up = 1 <=> 2 * m >= d OBVIOUS
  <1>3. n = q + up OBVIOUS
  <1> HIDE DEF q, m
  <1>4. n \in Nat BY <1>1, <1>3
  <1> DEFINE whole == d * q
             all == n * d
             error == value - all
  <1>5. all = whole + (IF up = 1 THEN d ELSE 0)
    <2>1. \A k \in Nat : (k + 1) * d = d * k + d /\ (k + 0) * d = d * k BY SMT
    <2>2. CASE up = 1
      <3>1. n = q + 1 BY <1>3, <2>2
      <3> QED BY <1>1, <2>1, <2>2, <3>1
    <2>3. CASE up = 0
      <3>1. n = q + 0 /\ d * q + 0 = d * q BY <1>1, <1>3, <2>3, Products
      <3> QED BY <1>1, <2>1, <2>3, <3>1
    <2> QED BY <2>2, <2>3
  <1>6. whole \in Nat /\ all \in Nat /\ value = whole + m BY <1>1, <1>4, Products
  <1> HIDE DEF whole, all
  <1>7. error \in Int /\ -d <= 2 * error /\ 2 * error < d BY <1>1, <1>2, <1>5, <1>6
  <1> QED BY <1>4, <1>6, <1>7 DEF all

\* rounded_divide gives a nearest integer.
LEMMA RoundedNearest ==
  ASSUME NEW value \in Nat, NEW d \in Nat \ {0}
  PROVE  rounded_divide(value, d) \in Nat /\ Nearest(rounded_divide(value, d), value, d)
  <1> DEFINE m == value % d
             up == IF m >= (d \div 2) + (d % 2) THEN 1 ELSE 0
             n == (value \div d) + up
  <1>1. m \in Nat
    <2>1. value % d \in Nat BY Divided
    <2> QED BY <2>1
  <1>2. up \in {0, 1} /\ (up = 1 <=> 2 * m >= d)
    <2> HIDE DEF m
    <2> QED BY <1>1
  <1> HIDE DEF up
  <1>3. /\ n \in Nat /\ n * d \in Nat
        /\ -d <= 2 * (value - n * d) /\ 2 * (value - n * d) < d
    BY <1>2, RoundedQuotient
  <1>4. rounded_divide(value, d) = n BY DEF rounded_divide, up
  <1> HIDE DEF n
  <1>5. ~(value < 0) OBVIOUS
  <1> QED BY <1>3, <1>4, <1>5 DEF Nearest

\* signed_rounded_divide gives a nearest integer.
LEMMA SignedNearest ==
  ASSUME NEW value \in Int, NEW d \in Nat \ {0}
  PROVE  /\ signed_rounded_divide(value, d) \in Int
         /\ Nearest(signed_rounded_divide(value, d), value, d)
  <1> DEFINE mag == IF value < 0 THEN -value ELSE value
             m == mag % d
             up == IF m > 0 /\ m >= d - m THEN 1 ELSE 0
             n == (mag \div d) + up
  <1>1. mag \in Nat OBVIOUS
  <1>2. m \in Nat
    <2> HIDE DEF mag
    <2>1. mag % d \in Nat BY <1>1, Divided
    <2> QED BY <2>1
  <1>3. up \in {0, 1} /\ (up = 1 <=> 2 * m >= d)
    <2> HIDE DEF m
    <2> QED BY <1>2
  <1> HIDE DEF up, mag
  <1>4. /\ n \in Nat /\ n * d \in Nat
        /\ -d <= 2 * (mag - n * d) /\ 2 * (mag - n * d) < d
    BY <1>1, <1>3, RoundedQuotient
  <1>5. signed_rounded_divide(value, d) = IF value < 0 THEN -n ELSE n
    BY DEF signed_rounded_divide, up, mag
  <1> HIDE DEF n
  <1>6. CASE value < 0
    <2>1. mag = -value BY <1>6 DEF mag
    <2>2. (-n) * d = -(n * d) BY <1>4, SMT
    <2> DEFINE nd == n * d
    <2>3. nd \in Nat /\ -d <= 2 * (mag - nd) /\ 2 * (mag - nd) < d BY <1>4
    <2>4. signed_rounded_divide(value, d) * d = -nd BY <1>5, <1>6, <2>2
    <2> HIDE DEF nd
    <2> QED BY <1>4, <1>5, <1>6, <2>1, <2>3, <2>4 DEF Nearest
  <1>7. CASE ~(value < 0)
    <2>1. mag = value BY <1>7 DEF mag
    <2> QED BY <1>4, <1>5, <1>7, <2>1 DEF Nearest
  <1> QED BY <1>6, <1>7

\* serialization_us is the whole part and a nearest integer to the rest of it.
LEMMA SerializationNearest ==
  ASSUME NEW value \in Nat, NEW rate \in Nat \ {0}
  PROVE  \/ serialization_us(value, rate) = U64_MAX
         \/ Nearest(serialization_us(value, rate), value * SECOND, rate)
  <1> DEFINE w == value \div rate
             m == value % rate
  <1>1. w \in Nat /\ m \in Nat /\ value = rate * w + m
    <2>1. w \in Nat /\ m \in 0 .. rate - 1 /\ m \in Nat /\ value = rate * w + m BY Divided
    <2> QED BY <2>1
  <1>2. SECOND \in Nat /\ U64_MAX \in Nat /\ rate # 0 BY ArithAssumption
  <1>3. serialization_us(value, rate) =
          IF w > U64_MAX \div SECOND \/ m * SECOND > U64_MAX THEN U64_MAX
          ELSE saturating_add(w * SECOND, rounded_divide(m * SECOND, rate))
    BY <1>2 DEF serialization_us
  <1> HIDE DEF w, m
  <1> DEFINE f == m * SECOND
             r == rounded_divide(f, rate)
             head == w * SECOND
             n == head + r
  <1>4. f \in Nat /\ head \in Nat BY <1>1, <1>2, Products
  <1>5. r \in Nat /\ Nearest(r, f, rate)
    <2> HIDE DEF f
    <2> QED BY <1>4, RoundedNearest
  <1>6. serialization_us(value, rate) = U64_MAX \/ serialization_us(value, rate) = n
    <2> HIDE DEF head, r
    <2> QED BY <1>3 DEF saturating_add, head, r
  <1>7. Nearest(n, value * SECOND, rate)
    <2> DEFINE v == value * SECOND
               rr == r * rate
               hr == head * rate
    <2>1. v = hr + f
      <3>1. \A a, b, c, s \in Nat : (a * b + c) * s = (b * s) * a + c * s BY SMT
      <3> QED BY <1>1, <1>2, <3>1
    <2>2. n * rate = hr + rr
      <3> HIDE DEF head, r
      <3> QED BY <1>4, <1>5, Products
    <2>3. hr \in Nat /\ rr \in Nat
      <3> HIDE DEF head, r
      <3> QED BY <1>4, <1>5, Products
    <2>4. v \in Nat BY <1>2, Products
    <2>5. -rate <= 2 * (f - rr) /\ 2 * (f - rr) < rate
      <3>1. ~(f < 0)
        <4> HIDE DEF f
        <4> QED BY <1>4
      <3> HIDE DEF f, r
      <3> QED BY <1>5, <3>1 DEF Nearest
    <2> HIDE DEF f, v, rr, hr, n
    <2>6. v - n * rate = f - rr /\ ~(v < 0) BY <1>4, <2>1, <2>2, <2>3, <2>4
    <2>7. Nearest(n, v, rate) BY <2>5, <2>6 DEF Nearest
    <2> QED BY <2>7 DEF v
  <1> QED BY <1>6, <1>7

\* mul_div is exact for a numerator up to the denominator.
LEMMA MulDivTrue ==
  ASSUME NEW value \in U64, NEW y \in Nat, NEW x \in Nat \ {0}, y <= x,
         x * y <= U64_MAX
  PROVE  mul_div(value, y, x) = (value * y) \div x
  <1>1. U64_MAX \in Nat /\ value \in Nat /\ value <= U64_MAX BY ArithAssumption DEF U64
  <1>2. PICK q \in Nat, m \in Nat : Parts(value, y, x, q, m) BY <1>1, RatioParts, Zenon
  <1>3. value = x * q + m /\ m <= x
    <2>1. value = x * (value \div x) + (value % x) BY <1>1, Divided
    <2> QED BY <1>2, <2>1 DEF Parts
  <1> DEFINE a == q * y
             b == m * y
             xq == x * q
             xy == x * y
  <1>4. a \in Nat /\ b \in Nat /\ xq \in Nat /\ xy \in Nat BY Products
  <1>5. a <= xq /\ b <= xy
    <2>1. y * q <= x * q /\ y * q = q * y BY Products
    <2>2. m * y <= x * y BY <1>3, Products
    <2> QED BY <2>1, <2>2
  <1>6. xq <= value
    <2>1. value = xq + m BY <1>3
    <2> HIDE DEF xq
    <2> QED BY <1>4, <2>1
  <1>7. a \in 0 .. U64_MAX /\ b \in 0 .. U64_MAX
    <2>1. xy <= U64_MAX OBVIOUS
    <2> HIDE DEF a, b, xq, xy
    <2> QED BY <1>1, <1>4, <1>5, <1>6, <2>1
  <1>8. Wrap(a) = a /\ Wrap(b) = b
    <2> HIDE DEF a, b
    <2> QED BY <1>7, Unwrapped
  <1> DEFINE p == value * y
             z == p \div x
             r == p % x
  <1>9. z = a + (b \div x)
    <2>1. (p + 0) \div x = a + ((b + 0) \div x) BY <1>2 DEF Parts
    <2>2. p \in Nat BY <1>1, Products
    <2>3. p + 0 = p /\ b + 0 = b
      <3> HIDE DEF p, b
      <3> QED BY <1>4, <2>2
    <2> QED BY <2>1, <2>3
  <1>10. p \in Nat BY <1>1, Products
  <1>11. z \in Nat /\ r \in 0 .. x - 1 /\ p = x * z + r
    <2> HIDE DEF p
    <2> QED BY <1>10, Divided
  <1>12. p <= value * x
    <2>1. y * value <= x * value /\ y * value = p /\ x * value = value * x
      BY <1>1, Products
    <2> QED BY <2>1
  <1> HIDE DEF p, z, r
  <1>13. z <= value
    <2> SUFFICES ASSUME value + 1 <= z PROVE FALSE BY <1>1, <1>11
    <2> DEFINE s == value * x
               t == x * z
    <2>1. (value + 1) * x <= z * x /\ z * x = t /\ (value + 1) * x = s + x
      <3>1. value + 1 \in Nat /\ 1 * x = x BY <1>1
      <3>2. (value + 1) * x <= z * x BY <1>11, <3>1, Products
      <3>3. (value + 1) * x = value * x + 1 * x BY <1>1, Products
      <3>4. z * x = x * z BY <1>11, Products
      <3> QED BY <3>1, <3>2, <3>3, <3>4
    <2>2. s \in Nat /\ t \in Nat BY <1>1, <1>11, Products
    <2>3. p <= s /\ p = t + r /\ s + x <= t BY <1>11, <1>12, <2>1
    <2> HIDE DEF s, t
    <2> QED BY <1>11, <2>2, <2>3
  <1>14. Wrap(z) = z BY <1>1, <1>11, <1>13, Unwrapped
  <1>15. mul_div(value, y, x) = Wrap(Wrap(a) + (Wrap(b) \div x))
    BY <1>2 DEF Parts, mul_div
  <1>16. mul_div(value, y, x) = Wrap(z) BY <1>8, <1>9, <1>15
  <1> QED BY <1>14, <1>16 DEF z, p

\* An average follows its sample, never passes it, and stands still only where
\* its share rounds to nothing.
LEMMA AveragedFollows ==
  ASSUME NEW alpha \in 0 .. RATIO_ONE_E6, NEW to \in Int, NEW from \in Int,
         NEW moved, moved = Averaged(alpha, to, from)
  PROVE  /\ moved \in min_u64(from, to) .. max_u64(from, to)
         /\ 2 * alpha * absolute_difference(to, from) > RATIO_ONE_E6 => moved # from
  <1> DEFINE one == RATIO_ONE_E6
             k == to - from
             e == alpha * k
             whole == one * k
             n == alpha * to + (one - alpha) * from
             rounded == signed_rounded_divide(n, one)
  <1>1. one \in Nat \ {0} /\ alpha \in Nat /\ alpha <= one /\ k \in Int
    BY ArithAssumption
  <1>2. e \in Int /\ whole \in Int /\ n \in Int /\ n = one * from + e
    <2>1. \A a, o, t, f \in Int :
            /\ a * t + (o - a) * f = o * f + a * (t - f)
            /\ a * t + (o - a) * f \in Int
      BY SMT
    <2>2. \A a, b \in Int : a * b \in Int BY SMT
    <2>3. one \in Int /\ alpha \in Int BY <1>1
    <2>4. n = one * from + e /\ n \in Int
      <3> HIDE DEF one
      <3> QED BY <2>1, <2>3
    <2>5. e \in Int /\ whole \in Int
      <3> HIDE DEF one, k
      <3> QED BY <1>1, <2>2, <2>3
    <2> HIDE DEF n, e, whole
    <2> QED BY <2>4, <2>5
  <1>3. (k >= 0 => 0 <= e /\ e <= whole) /\ (k <= 0 => whole <= e /\ e <= 0)
    <2>1. \A c \in Nat : 0 <= alpha * c /\ alpha * c <= one * c
      <3> SUFFICES ASSUME NEW c \in Nat PROVE 0 <= alpha * c /\ alpha * c <= one * c
        OBVIOUS
      <3>1. alpha * c \in Nat /\ alpha * c <= one * c BY <1>1, Products
      <3> QED BY <3>1
    <2>2. \A c \in Int : alpha * (-c) = -(alpha * c) /\ one * (-c) = -(one * c)
      BY <1>1, SMT
    <2>3. CASE k >= 0
      <3>1. k \in Nat BY <1>1, <2>3
      <3>2. 0 <= e /\ e <= whole
        <4> HIDE DEF k
        <4> QED BY <2>1, <3>1
      <3>3. k <= 0 => k = 0 BY <1>1, <2>3
      <3>4. k = 0 => e = 0 /\ whole = 0 BY <1>1
      <3> HIDE DEF e, whole, k
      <3> QED BY <1>1, <1>2, <2>3, <3>2, <3>3, <3>4
    <2>4. CASE k < 0
      <3> DEFINE c == -k
      <3>1. c \in Nat /\ k = -c BY <1>1, <2>4
      <3> HIDE DEF c, k
      <3> DEFINE ec == alpha * c
                 wc == one * c
      <3>2. 0 <= ec /\ ec <= wc /\ e = -ec /\ whole = -wc
        <4>1. c \in Int BY <3>1
        <4> QED BY <2>1, <2>2, <3>1, <4>1
      <3>3. ec \in Nat /\ wc \in Nat BY <1>1, <3>1, Products
      <3> HIDE DEF e, whole, ec, wc
      <3> QED BY <1>1, <1>2, <2>4, <3>2, <3>3
    <2> QED BY <1>1, <2>3, <2>4
  <1>4. \/ moved = to
        \/ moved = rounded
    BY DEF Averaged
  <1>5. CASE moved = to
    <2>1. moved = from => absolute_difference(to, from) = 0
      BY <1>5 DEF absolute_difference
    <2>2. (2 * alpha) * 0 = 0 BY <1>1
    <2>3. moved = from => ~(2 * alpha * absolute_difference(to, from) > one)
      BY <1>1, <2>1, <2>2
    <2> QED BY <1>5, <2>3 DEF min_u64, max_u64
  <1>6. CASE moved = rounded
    <2> HIDE DEF e, whole, n
    <2>1. rounded \in Int /\ Nearest(rounded, n, one)
      <3> HIDE DEF one
      <3> QED BY <1>1, <1>2, SignedNearest
    <2> HIDE DEF rounded
    <2> DEFINE b == rounded - from
               bo == b * one
               ro == rounded * one
               fo == one * from
    <2>2. b \in Int /\ rounded = from + b BY <2>1
    <2> HIDE DEF b, k
    <2>3. \A a, c \in Int : a * c \in Int BY SMT
    <2>4. bo \in Int /\ ro \in Int /\ fo \in Int BY <1>1, <2>1, <2>2, <2>3
    <2>5. ro = fo + bo
      <3>1. \A f, c, o \in Int : (f + c) * o = o * f + c * o BY SMT
      <3> QED BY <1>1, <2>2, <3>1
    <2>6. /\ b <= -1 => bo <= -one
          /\ b <= k - 1 => bo <= whole - one
          /\ b >= 1 => bo >= one
          /\ b >= k + 1 => bo >= whole + one
          /\ b = 0 => bo = 0
      <3>1. \A c, f \in Int : c <= f - 1 => c * one <= one * f - one
        <4>1. \A c, f \in Int : c <= f => c * one <= f * one BY <1>1, SMT
        <4>2. \A f \in Int : (f - 1) * one = one * f - one /\ f - 1 \in Int BY <1>1, SMT
        <4> HIDE DEF one
        <4> QED BY <4>1, <4>2
      <3>2. \A c, f \in Int : c >= f + 1 => c * one >= one * f + one
        <4>1. \A c, f \in Int : f <= c => c * one >= f * one BY <1>1, SMT
        <4>2. \A f \in Int : (f + 1) * one = one * f + one /\ f + 1 \in Int BY <1>1, SMT
        <4> HIDE DEF one
        <4> QED BY <4>1, <4>2
      <3>3. one * 0 = 0 /\ 0 * one = 0 BY <1>1
      <3>4. b <= 0 - 1 => b * one <= one * 0 - one BY <2>2, <3>1
      <3>5. b >= 0 + 1 => b * one >= one * 0 + one BY <2>2, <3>2
      <3>6. b <= k - 1 => b * one <= one * k - one BY <1>1, <2>2, <3>1
      <3>7. b >= k + 1 => b * one >= one * k + one BY <1>1, <2>2, <3>2
      <3>8. b = 0 => bo = 0 BY <3>3
      <3>9. b <= -1 => bo <= -one
        <4> DEFINE z == one * 0
        <4>1. b <= -1 => bo <= z - one BY <2>2, <3>4
        <4> HIDE DEF bo, z
        <4> QED BY <1>1, <2>4, <3>3, <4>1 DEF z
      <3>10. b >= 1 => bo >= one
        <4> DEFINE z == one * 0
        <4>1. b >= 1 => bo >= z + one BY <2>2, <3>5
        <4> HIDE DEF bo, z
        <4> QED BY <1>1, <2>4, <3>3, <4>1 DEF z
      <3> QED BY <3>6, <3>7, <3>8, <3>9, <3>10 DEF whole
    <2>7. -one <= 2 * (e - bo) /\ 2 * (e - bo) <= one
      <3>1. n = fo + e BY <1>2
      <3>2. IF n < 0 THEN -one <= 2 * (ro - n) /\ 2 * (ro - n) < one
                     ELSE -one <= 2 * (n - ro) /\ 2 * (n - ro) < one
        BY <2>1 DEF Nearest
      <3> HIDE DEF ro, fo, bo
      <3> QED BY <1>1, <1>2, <2>4, <2>5, <3>1, <3>2
    <2>8. /\ k >= 0 => 0 <= b /\ b <= k
          /\ k <= 0 => k <= b /\ b <= 0
      <3> HIDE DEF bo
      <3> QED BY <1>1, <1>2, <1>3, <2>2, <2>4, <2>6, <2>7
    <2>9. moved \in min_u64(from, to) .. max_u64(from, to)
      BY <1>1, <1>6, <2>2, <2>8 DEF min_u64, max_u64, k
    <2>10. ASSUME moved = from
           PROVE  ~(2 * alpha * absolute_difference(to, from) > one)
      <3>1. b = 0 /\ bo = 0 BY <1>6, <2>2, <2>6, <2>10
      <3>2. -one <= 2 * e /\ 2 * e <= one
        <4> HIDE DEF bo, b
        <4> QED BY <1>1, <1>2, <2>7, <3>1
      <3> DEFINE d == absolute_difference(to, from)
      <3>3. (k >= 0 => d = k) /\ (k <= 0 => d = -k)
        BY DEF absolute_difference, k
      <3>4. 2 * alpha * k = 2 * e /\ 2 * alpha * (-k) = -(2 * e)
        <4>1. \A a, c \in Int : 2 * a * c = 2 * (a * c) /\ 2 * a * (-c) = -(2 * (a * c))
          BY SMT
        <4> QED BY <1>1, <4>1 DEF e
      <3> HIDE DEF d
      <3>5. CASE k >= 0
        <4>1. 2 * alpha * d = 2 * e BY <3>3, <3>4, <3>5
        <4> HIDE DEF one
        <4> QED BY <1>1, <1>2, <3>2, <4>1 DEF d
      <3>6. CASE k <= 0
        <4>1. 2 * alpha * d = -(2 * e) BY <3>3, <3>4, <3>6
        <4> HIDE DEF one
        <4> QED BY <1>1, <1>2, <3>2, <4>1 DEF d
      <3> QED BY <1>1, <3>5, <3>6
    <2> QED BY <2>9, <2>10
  <1> QED BY <1>4, <1>5, <1>6

\* Whatever the width of the word and the scales are, the integer arithmetic
\* is exact wherever the code relies on it, and the averages of the tracker
\* follow their samples (src/common/arith.h, rate.c, latency/tracker.c).
THEOREM ArithmeticIsExact == Spec => []ArithExact
  <1> DEFINE ArgsType == args \in [value : U64, x : U64, y : U64 \ {0}]
             vars == <<args, text, probe, section, packet, syn>>
  <1>1. Init => ArgsType
    <2>1. 0 \in U64 /\ 1 \in U64 \ {0}
      <3> DEFINE square == RATIO_ONE_E6 * RATIO_ONE_E6
      <3>1. /\ RATIO_ONE_E6 \in Nat /\ 1 <= RATIO_ONE_E6 /\ U64_MAX \in Nat
            /\ 1 * RATIO_ONE_E6 = RATIO_ONE_E6 /\ square <= U64_MAX
        BY ArithAssumption
      <3>2. 1 * RATIO_ONE_E6 <= square /\ square \in Nat BY <3>1, Products
      <3>3. RATIO_ONE_E6 <= square BY <3>1, <3>2
      <3> HIDE DEF square
      <3> QED BY <3>1, <3>2, <3>3 DEF U64
    <2>2. NoArgs \in [value : U64, x : U64, y : U64 \ {0}]
      <3> HIDE DEF U64
      <3> QED BY <2>1 DEF NoArgs
    <2> SUFFICES ASSUME Init PROVE ArgsType OBVIOUS
    <2>3. args \in [value : U64, x : U64, y : Thirds] \/ args = NoArgs
      BY DEF Init, Inputs
    <2> QED BY <2>2, <2>3, ThirdsAssumption
  <1>2. ArgsType /\ [Next]_vars => ArgsType' BY DEF Next
  <1>3. ArgsType => ArithExact
    <2> SUFFICES ASSUME ArgsType PROVE ArithExact OBVIOUS
    <2> DEFINE value == args.value
               x == args.x
               y == args.y
    <2>1. /\ value \in U64 /\ x \in U64 /\ y \in U64
          /\ value \in Nat /\ x \in Nat /\ y \in Nat /\ y # 0
      BY ArithAssumption DEF U64
    <2> HIDE DEF value, x, y
    <2>2. RatioExact BY <2>1, RatioTrue DEF RatioExact, value, x
    <2>3. FractionExact BY <2>1, FractionTrue DEF FractionExact, value, x
    <2>4. BpsExact
      <3> DEFINE scale == BITS_PER_BYTE * SECOND
      <3>1. SUFFICES ASSUME x \in 1 .. U64_MAX \div scale
                     PROVE  bps(value, x) = Capped((value * scale) \div x)
        BY DEF BpsExact, value, x
      <3>2. scale \in Nat \ {0} /\ U64_MAX \in Nat BY ArithAssumption DEF BITS_PER_BYTE
      <3> HIDE DEF scale
      <3>3. U64_MAX \div scale \in Nat BY <3>2, Divided
      <3>4. x \in Nat \ {0} /\ x <= U64_MAX \div scale BY <2>1, <3>1, <3>3
      <3> QED BY <2>1, <3>4, BpsTrue DEF scale
    <2>5. DivisionsNearest
      <3>1. SUFFICES
              ASSUME x > 0
              PROVE  /\ Nearest(rounded_divide(value, x), value, x)
                     /\ Nearest(signed_rounded_divide(value, x), value, x)
                     /\ Nearest(signed_rounded_divide(-value, x), -value, x)
                     /\ \/ serialization_us(value, x) = U64_MAX
                        \/ Nearest(serialization_us(value, x), value * SECOND, x)
        BY DEF DivisionsNearest, value, x
      <3>2. x \in Nat \ {0} /\ value \in Int /\ -value \in Int BY <2>1, <3>1
      <3>3. Nearest(rounded_divide(value, x), value, x) BY <2>1, <3>2, RoundedNearest
      <3>4. Nearest(signed_rounded_divide(value, x), value, x) BY <3>2, SignedNearest
      <3>5. Nearest(signed_rounded_divide(-value, x), -value, x)
        <4> DEFINE minus == -value
        <4>1. minus \in Int BY <3>2
        <4> HIDE DEF minus
        <4>2. Nearest(signed_rounded_divide(minus, x), minus, x)
          BY <3>2, <4>1, SignedNearest
        <4> QED BY <4>2 DEF minus
      <3>6. \/ serialization_us(value, x) = U64_MAX
            \/ Nearest(serialization_us(value, x), value * SECOND, x)
        BY <2>1, <3>2, SerializationNearest
      <3> QED BY <3>3, <3>4, <3>5, <3>6
    <2>6. MulDivExactInRange
      <3>1. SUFFICES ASSUME y <= x, x * y <= U64_MAX
                     PROVE  mul_div(value, y, x) = (value * y) \div x
        BY DEF MulDivExactInRange, value, x, y
      <3>2. x \in Nat \ {0} BY <2>1, <3>1
      <3> QED BY <2>1, <3>1, <3>2, MulDivTrue
    <2>7. BaselineFollows
      <3> DEFINE from == value - I64_MAX - 1
                 to == x - I64_MAX - 1
                 alpha == y % (RATIO_ONE_E6 + 1)
                 moved == Averaged(alpha, to, from)
      <3>1. alpha \in 0 .. RATIO_ONE_E6
        <4> DEFINE d == RATIO_ONE_E6 + 1
        <4>1. d \in Nat \ {0} /\ d - 1 = RATIO_ONE_E6 BY ArithAssumption
        <4> HIDE DEF d
        <4>2. y % d \in 0 .. d - 1 BY <2>1, <4>1, Divided
        <4> QED BY <4>1, <4>2 DEF d
      <3>2. I64_MAX \in Int BY ArithAssumption DEF I64_MAX
      <3>3. from \in Int /\ to \in Int BY <2>1, <3>2
      <3> HIDE DEF alpha, from, to
      <3>4. /\ moved \in min_u64(from, to) .. max_u64(from, to)
            /\ 2 * alpha * absolute_difference(to, from) > RATIO_ONE_E6 => moved # from
        BY <3>1, <3>3, AveragedFollows
      <3> QED BY <3>4 DEF BaselineFollows, alpha, from, to, value, x, y
    <2> QED BY <2>2, <2>3, <2>4, <2>5, <2>6, <2>7 DEF ArithExact
  <1> QED BY <1>1, <1>2, <1>3, PTL DEF Spec
-----------------------------------------------------------------------------
(* Accounting: the charge of a packet.                                      *)

\* The least number of cells that hold bytes.
LEMMA CellsHold ==
  ASSUME NEW bytes \in Nat
  PROVE  /\ Cells(bytes) \in Nat /\ Cells(bytes) * CELL_PAYLOAD \in Nat
         /\ bytes <= Cells(bytes) * CELL_PAYLOAD
         /\ Cells(bytes) * CELL_PAYLOAD - CELL_PAYLOAD < bytes
  <1> DEFINE d == CELL_PAYLOAD
             n == bytes + d - 1
             q == n \div d
             r == n % d
  <1>1. d \in Nat \ {0} BY AccountingAssumption
  <1>2. n \in Nat /\ n = bytes + d - 1 BY <1>1
  <1> HIDE DEF d, n
  <1>3. q \in Nat /\ r \in 0 .. d - 1 /\ n = d * q + r BY <1>1, <1>2, Divided
  <1>4. Cells(bytes) = q BY DEF Cells, q, n, d
  <1> HIDE DEF q, r
  <1> DEFINE all == q * d
  <1>5. all \in Nat /\ all = d * q BY <1>1, <1>3, Products
  <1>6. bytes <= all /\ all - d < bytes
    <2>1. n = all + r BY <1>3, <1>5
    <2> HIDE DEF all
    <2> QED BY <1>1, <1>2, <1>3, <1>5, <2>1
  <1> QED BY <1>3, <1>4, <1>5, <1>6 DEF d

\* More bytes never need fewer cells or fewer blocks.
LEMMA MoreNeedsMore ==
  ASSUME NEW a \in Nat, NEW b \in Nat, a <= b
  PROVE  /\ Cells(a) <= Cells(b)
         /\ Blocks(a) <= Blocks(b) /\ Blocks(a) \in Nat /\ Blocks(b) \in Nat
  <1> DEFINE c == CELL_PAYLOAD
             p == PTM_BLOCK
  <1>1. c \in Nat \ {0} /\ p \in Nat \ {0} BY AccountingAssumption
  <1> DEFINE ac == a + c - 1
             bc == b + c - 1
             ap == a + p - 1
             bp == b + p - 1
  <1>2. /\ ac \in Nat /\ bc \in Nat /\ ac <= bc
        /\ ap \in Nat /\ bp \in Nat /\ ap <= bp
    BY <1>1
  <1>3. /\ Cells(a) = ac \div c /\ Cells(b) = bc \div c
        /\ Blocks(a) = ap \div p /\ Blocks(b) = bp \div p
    BY DEF Cells, Blocks
  <1> HIDE DEF ac, bc, ap, bp, c, p
  <1>4. ac \div c <= bc \div c BY <1>1, <1>2, DividedInOrder
  <1>5. ap \div p <= bp \div p BY <1>1, <1>2, DividedInOrder
  <1>6. ap \div p \in Nat /\ bp \div p \in Nat BY <1>1, <1>2, Divided
  <1> QED BY <1>3, <1>4, <1>5, <1>6

\* What a framing makes of the bytes that it carries.
Framed(bytes, framing) ==
  CASE framing = "ATM" -> Cells(bytes) * CELL
    [] framing = "PTM" -> bytes + Blocks(bytes)
    [] OTHER -> bytes

\* A framing sends whole cells when it has cells, never less than it carries, and
\* never less for more.
LEMMA FramedHolds ==
  ASSUME NEW bytes \in Nat, NEW framing \in Framings
  PROVE  /\ Framed(bytes, framing) \in Nat /\ bytes <= Framed(bytes, framing)
         /\ framing = "ATM" =>
              /\ Framed(bytes, framing) \div CELL = Cells(bytes)
              /\ Framed(bytes, framing) % CELL = 0
         /\ \A more \in Nat :
              bytes <= more => Framed(bytes, framing) <= Framed(more, framing)
  <1>1. CELL \in Nat \ {0} /\ CELL_PAYLOAD \in Nat /\ CELL_PAYLOAD <= CELL
    BY AccountingAssumption
  <1>2. CASE framing = "ATM"
    <2> DEFINE cells == Cells(bytes)
               carried == cells * CELL_PAYLOAD
               charge == cells * CELL
    <2>1. cells \in Nat /\ carried \in Nat /\ bytes <= carried BY CellsHold
    <2>2. Framed(bytes, framing) = charge BY <1>2 DEF Framed
    <2> HIDE DEF cells
    <2>3. charge \in Nat /\ carried <= charge /\ charge = CELL * cells + 0
      <3>1. CELL_PAYLOAD * cells <= CELL * cells /\ CELL_PAYLOAD * cells = carried
        BY <1>1, <2>1, Products
      <3>2. charge \in Nat /\ charge = CELL * cells BY <1>1, <2>1, Products
      <3>3. CELL * cells = CELL * cells + 0
        <4> DEFINE k == CELL * cells
        <4>1. k \in Nat BY <3>2
        <4> HIDE DEF k
        <4>2. k = k + 0 BY <4>1
        <4> QED BY <4>2 DEF k
      <3> QED BY <3>1, <3>2, <3>3
    <2>4. (CELL * cells + 0) \div CELL = cells /\ (CELL * cells + 0) % CELL = 0
      <3>1. 0 \in 0 .. CELL - 1 /\ cells \in Int BY <1>1, <2>1
      <3> QED BY <1>1, <3>1, Quotient
    <2>5. ASSUME NEW more \in Nat, bytes <= more
          PROVE  charge <= Framed(more, framing)
      <3>1. cells <= Cells(more) /\ Cells(more) \in Nat
        BY <2>5, MoreNeedsMore, CellsHold DEF cells
      <3>2. Framed(more, framing) = Cells(more) * CELL BY <1>2 DEF Framed
      <3>3. cells * CELL <= Cells(more) * CELL BY <1>1, <2>1, <3>1, Products
      <3> QED BY <3>2, <3>3
    <2>6. bytes <= charge
      <3> HIDE DEF carried, charge
      <3> QED BY <2>1, <2>3
    <2>7. charge \div CELL = cells /\ charge % CELL = 0 BY <2>3, <2>4
    <2> QED BY <2>2, <2>3, <2>5, <2>6, <2>7 DEF cells
  <1>3. CASE framing = "PTM"
    <2>1. Framed(bytes, framing) = bytes + Blocks(bytes) BY <1>3 DEF Framed
    <2>2. Blocks(bytes) \in Nat BY MoreNeedsMore
    <2>3. ASSUME NEW more \in Nat, bytes <= more
          PROVE  bytes + Blocks(bytes) <= Framed(more, framing)
      <3>1. Framed(more, framing) = more + Blocks(more) BY <1>3 DEF Framed
      <3>2. Blocks(bytes) <= Blocks(more) /\ Blocks(more) \in Nat
        BY <2>3, MoreNeedsMore
      <3> QED BY <2>2, <2>3, <3>1, <3>2
    <2> QED BY <1>3, <2>1, <2>2, <2>3
  <1>4. CASE framing = "NONE" BY <1>4 DEF Framed
  <1> QED BY <1>2, <1>3, <1>4 DEF Framings

\* The larger of two, as Max names it.
LEMMA LargerOfTwo ==
  ASSUME NEW a \in Int, NEW b \in Nat
  PROVE  /\ Max({a, b}) \in Nat /\ a <= Max({a, b}) /\ b <= Max({a, b})
         /\ Max({a, b}) \in {a, b}
         /\ \A c \in Int : a <= c => Max({a, b}) <= Max({c, b})
  <1>1. \A c \in Int : Max({c, b}) = IF c >= b THEN c ELSE b BY DEF Max
  <1> QED BY <1>1

\* The options of any packet of a run are framing that the kernel reports.
LEMMA ParsedOptions ==
  ASSUME NEW p \in Packets
  PROVE  /\ p.mtu \in Nat /\ p.offset \in Nat /\ p.spare \in Nat
         /\ parse_options(p.options).raw \in BOOLEAN
         /\ parse_options(p.options).overhead_bytes \in Int
         /\ parse_options(p.options).mpu_bytes \in Nat
         /\ parse_options(p.options).atm_mode \in Framings
  <1>1. p.mtu \in Nat /\ p.offset \in Nat /\ p.spare \in Nat
    <2> DEFINE O == {Link(raw, overhead, mpu, framing) :
                       raw \in BOOLEAN, overhead \in Overheads, mpu \in MpuBytes,
                       framing \in Framings}
                    \cup {<<>>}
    <2>1. p \in [options : O, mtu : Mtus, offset : {0, 14}, spare : {0, 1, 40}]
      BY DEF Packets
    <2> HIDE DEF O
    <2>2. p.mtu \in Mtus /\ p.offset \in {0, 14} /\ p.spare \in {0, 1, 40} BY <2>1
    <2>3. p.mtu \in Nat BY <2>2, PacketsAssumption, Zenon
    <2>4. p.offset \in Nat /\ p.spare \in Nat
      <3> DEFINE o == p.offset
                 s == p.spare
      <3>1. o \in {0, 14} /\ s \in {0, 1, 40} BY <2>2
      <3> HIDE DEF o, s
      <3>2. o \in Nat /\ s \in Nat BY <3>1
      <3> QED BY <3>2 DEF o, s
    <2> QED BY <2>3, <2>4
  <1>2. CASE p.options = <<>>
    <2>1. DOMAIN p.options = {} BY <1>2
    <2> QED BY <1>1, <2>1 DEF parse_options, Framings
  <1>3. ASSUME NEW raw \in BOOLEAN, NEW overhead \in Overheads, NEW mpu \in MpuBytes,
               NEW framing \in Framings, p.options = Link(raw, overhead, mpu, framing)
        PROVE  /\ parse_options(p.options).raw \in BOOLEAN
               /\ parse_options(p.options).overhead_bytes \in Int
               /\ parse_options(p.options).mpu_bytes \in Nat
               /\ parse_options(p.options).atm_mode \in Framings
    <2>1. /\ overhead \in Int /\ mpu \in Nat BY PacketsAssumption
    <2>2. /\ "overhead_bytes" \in DOMAIN p.options /\ p.options["overhead_bytes"] = overhead
          /\ "mpu_bytes" \in DOMAIN p.options /\ p.options["mpu_bytes"] = mpu
          /\ "atm_mode" \in DOMAIN p.options /\ p.options["atm_mode"] = framing
      BY <1>3 DEF Link
    <2> QED BY <2>1, <2>2 DEF parse_options
  <1>4. \/ p.options = <<>>
        \/ \E raw \in BOOLEAN, overhead \in Overheads, mpu \in MpuBytes, framing \in Framings :
             p.options = Link(raw, overhead, mpu, framing)
    BY DEF Packets
  <1> QED BY <1>1, <1>2, <1>3, <1>4

\* Whatever the cell, the block and the qdisc's options are, a packet is charged
\* what its framing sends (cake/accounting.h), and the largest packet never more
\* (cake/cake.c).
THEOREM ChargesAreTrue == Spec => []ChargesTrue
  <1> DEFINE PacketType == packet \in Packets \/ packet = NoPacket
             vars == <<args, text, probe, section, packet, syn>>
  <1>1. Init => PacketType BY DEF Init, Inputs
  <1>2. PacketType /\ [Next]_vars => PacketType' BY DEF Next
  <1>3. PacketType => ChargesTrue
    <2>1. SUFFICES ASSUME packet \in Packets PROVE ChargesTrue BY DEF ChargesTrue
    <2> DEFINE acc == parse_options(packet.options)
               mtu == packet.mtu
               offset == packet.offset
               spare == packet.spare
               length == mtu + offset
               overhead == acc.overhead_bytes
               mpu == acc.mpu_bytes
               Linked(n) == (IF acc.raw THEN n ELSE n - offset) + overhead
               Bytes(n) == Max({Linked(n), mpu})
               Charge(n) == cake_accounted_bytes(acc, n, offset)
               framing == acc.atm_mode
               bytes == Bytes(length)
               charge == Charge(length)
               carried == IF framing = "ATM" THEN (charge \div CELL) * CELL_PAYLOAD ELSE charge
               needed == (IF acc.raw THEN length ELSE mtu) + overhead
               largest == cake_max_wire_packet_bits(acc, mtu)
    <2>2. /\ mtu \in Nat /\ offset \in Nat /\ spare \in Nat /\ acc.raw \in BOOLEAN
          /\ overhead \in Int /\ mpu \in Nat /\ framing \in Framings
      BY <2>1, ParsedOptions
    <2>3. \A n : Charge(n) = Framed(Bytes(n), framing)
      BY DEF cake_accounted_bytes, Framed
    <2> HIDE DEF acc, mtu, offset, spare
    <2>4. /\ length \in Nat /\ length + spare \in Nat /\ length - offset = mtu
          /\ Linked(length) = needed /\ needed \in Int
          /\ Linked(length + spare) \in Int /\ needed <= Linked(length + spare)
      BY <2>2
    <2> HIDE DEF Linked, Charge, length, overhead, mpu, framing, needed
    <2>5. /\ bytes \in Nat /\ needed <= bytes /\ mpu <= bytes /\ bytes \in {needed, mpu}
          /\ bytes <= Bytes(length + spare) /\ Bytes(length + spare) \in Nat
      BY <2>2, <2>4, LargerOfTwo
    <2>6. /\ charge \in Nat /\ bytes <= charge
          /\ framing = "ATM" => charge \div CELL = Cells(bytes) /\ charge % CELL = 0
          /\ charge <= Charge(length + spare)
      BY <2>2, <2>3, <2>5, FramedHolds
    <2>7. carried >= bytes /\ carried \in Int
          /\ (framing = "ATM" => carried - CELL_PAYLOAD < bytes)
      BY <2>5, <2>6, CellsHold
    <2> DEFINE wire == mtu + overhead
               short == acc.raw \/ overhead < 0 \/ framing \notin {"NONE", "ATM"}
               single == IF short THEN mtu ELSE Framed(wire, framing)
    <2>8. largest = 8 * single
      BY DEF cake_max_wire_packet_bits, Framed, overhead, framing
    <2>9. needed = (IF acc.raw THEN length ELSE mtu) + overhead BY DEF needed
    <2>10. overhead >= 0 =>
             /\ single \in Nat /\ single <= charge
             /\ mpu <= needed /\ ~acc.raw /\ framing # "PTM" => single = charge
      <3> SUFFICES ASSUME overhead >= 0
                   PROVE  /\ single \in Nat /\ single <= charge
                          /\ mpu <= needed /\ ~acc.raw /\ framing # "PTM" =>
                               single = charge
        OBVIOUS
      <3>1. wire \in Nat /\ mtu <= needed /\ mtu <= bytes /\ (~acc.raw => wire = needed)
        <4> HIDE DEF bytes
        <4> QED BY <2>2, <2>4, <2>5, <2>9 DEF length
      <3> HIDE DEF bytes, charge, wire
      <3>2. CASE short
        <4> QED BY <2>2, <2>5, <2>6, <3>1, <3>2 DEF Framings
      <3>3. CASE ~short
        <4>1. wire = needed /\ wire <= bytes BY <2>2, <2>5, <3>1, <3>3
        <4>2. /\ Framed(wire, framing) \in Nat
              /\ Framed(wire, framing) <= Framed(bytes, framing)
          BY <2>2, <2>5, <3>1, <4>1, FramedHolds
        <4>3. charge = Framed(bytes, framing) BY <2>3 DEF charge, bytes
        <4>4. mpu <= needed => bytes = needed BY <2>2, <2>4, <2>5
        <4> HIDE DEF short
        <4> QED BY <3>3, <4>1, <4>2, <4>3, <4>4
      <3> QED BY <3>2, <3>3
    <2> HIDE DEF single
    <2>11. /\ overhead >= 0 => largest <= 8 * charge
           /\ overhead >= 0 /\ mpu <= needed /\ ~acc.raw /\ framing # "PTM" =>
                largest = 8 * charge
      <3> HIDE DEF charge, largest
      <3> QED BY <2>6, <2>8, <2>10
    <2>12. carried >= needed /\ carried >= mpu
      <3> HIDE DEF bytes, carried
      <3> QED BY <2>2, <2>4, <2>5, <2>7
    <2>13. bytes = Max({needed, mpu}) BY <2>4
    <2> HIDE DEF bytes, carried, largest, charge
    <2>14. /\ carried >= needed /\ carried >= mpu
           /\ Charge(length + spare) >= charge
           /\ framing = "ATM" =>
                /\ charge % CELL = 0
                /\ carried - CELL_PAYLOAD < Max({needed, mpu})
           /\ overhead >= 0 => largest <= 8 * charge
           /\ overhead >= 0 /\ mpu <= needed /\ ~acc.raw /\ framing # "PTM" =>
                largest = 8 * charge
      <3>1. Charge(length + spare) \in Int
        BY <2>2, <2>3, <2>5, FramedHolds
      <3> QED BY <2>6, <2>7, <2>11, <2>12, <2>13, <3>1
    <2> QED BY <2>14
          DEF ChargesTrue, carried, largest, charge, needed, length, overhead, mpu, framing,
              Charge, acc, mtu, offset, spare
  <1> QED BY <1>1, <1>2, <1>3, PTL DEF Spec

-----------------------------------------------------------------------------
(* Config: what loading makes of a section, and what its checks leave.      *)

\* A configuration, as far as the checks rely on what they find in it.
IsConfig(c) ==
  /\ c = [name \in DOMAIN Defaults |-> c[name]]
  /\ OptionsTyped(c)
  /\ IsList(c.reflectors)

\* What the defaults hold.
LEMMA DefaultNames ==
  /\ {"interface", "ul_if", "dl_if", "no_pingers", "alphas", "dl", "ul",
      "reflector_ping_interval_us", "monitor_achieved_rates_interval_us",
      "reflector_health_check_interval_us", "stall_detection_threshold", "reflectors",
      "ingress_interface", "interface_overridden"} \subseteq DOMAIN Defaults
  /\ "latency_target" \notin DOMAIN Defaults
  BY DefaultsAssumption DEF Counts, Others, Directions, Loaded

\* A section without a list has none of the built-in one either, which is empty.
LEMMA ListIs ==
  ASSUME NEW s, IsSection(s)
  PROVE  IsList(load_reflectors(s)) /\ (~s.listed => load_reflectors(s) = <<>>)
  <1>1. IsList(<<>>) BY DEF IsList, Range
  <1> QED BY <1>1 DEF load_reflectors, IsSection

\* Options and defaults make a configuration.
LEMMA OptionsLoaded ==
  ASSUME NEW s, IsSection(s)
  PROVE  IsConfig(load_options(s))
  <1> DEFINE c == load_options(s)
  <1>1. /\ c = [name \in DOMAIN Defaults |-> c[name]]
        /\ DOMAIN c = DOMAIN Defaults
        /\ c.reflectors = load_reflectors(s)
        /\ \A name \in DOMAIN Defaults \ {"reflectors"} :
             c[name] = IF name \in DOMAIN s.options THEN s.options[name] ELSE Defaults[name]
    BY DefaultNames DEF load_options
  <1> HIDE DEF c
  <1>2. ASSUME NEW name \in DOMAIN c \cap Counts PROVE c[name] \in Nat
    <2>1. name # "reflectors" BY DEF Counts
    <2> QED BY <1>1, <1>2, <2>1, DefaultsAssumption DEF IsSection, OptionsTyped
  <1>3. ASSUME NEW d \in DOMAIN c \cap Directions PROVE c[d] \in RateType
    <2>1. d # "reflectors" BY DEF Directions
    <2>2. d \in DOMAIN s.options => s.options[d] \in RateType
      BY <1>3 DEF IsSection, OptionsTyped
    <2>3. Defaults[d] \in RateType BY <1>1, <1>3, DefaultsAssumption DEF OptionsTyped
    <2> QED BY <1>1, <1>3, <2>1, <2>2, <2>3
  <1>4. c["alphas"] \subseteq Nat
    BY <1>1, DefaultNames, DefaultsAssumption DEF IsSection, OptionsTyped
  <1>5. c["interface"] \in {""} \cup DOMAIN Ifb
    BY <1>1, DefaultNames, DefaultsAssumption DEF IsSection, OptionsTyped
  <1>6. "latency_target" \notin DOMAIN c BY <1>1, DefaultNames
  <1>7. OptionsTyped(c) BY <1>2, <1>3, <1>4, <1>5, <1>6 DEF OptionsTyped
  <1> QED BY <1>1, <1>7, ListIs DEF IsConfig, c

\* The names that resolving the interfaces sets.
Interfaces == {"interface", "ingress_interface", "interface_overridden"}

\* Resolving the interfaces sets nothing else.
LEMMA InterfacesResolved ==
  ASSUME NEW c, c = [name \in DOMAIN Defaults |-> c[name]]
  PROVE  LET r == resolve_interfaces(c)
         IN  /\ r = [name \in DOMAIN Defaults |-> r[name]]
             /\ \A name \in DOMAIN Defaults \ Interfaces : r[name] = c[name]
             /\ r.interface = IF c.ul_if # "" THEN c.ul_if ELSE c.interface
             /\ r.ingress_interface = IF c.ul_if # "" THEN c.dl_if
                                      ELSE IF c.interface = "" THEN "" ELSE Ifb[c.interface]
             /\ c.ul_if = "" => r.interface_overridden = c.interface_overridden
  <1>1. DOMAIN c = DOMAIN Defaults OBVIOUS
  <1>2. CASE c.ul_if # ""
    BY <1>1, <1>2, DefaultNames DEF resolve_interfaces, Interfaces
  <1>3. CASE c.ul_if = ""
    BY <1>1, <1>3, DefaultNames DEF resolve_interfaces, Interfaces
  <1> QED BY <1>2, <1>3
\* A sequence of one.
LEMMA OneLong == ASSUME NEW x PROVE IsList(<<x>>)
  <1>1. x \in Range(<<x>>) BY DEF Range
  <1> QED BY <1>1 DEF IsList

\* A section's configuration.
LEMMA SectionLoaded ==
  ASSUME NEW s, IsSection(s)
  PROVE  LET c == load_section(s)
         IN  /\ c = [name \in DOMAIN Defaults |-> c[name]]
             /\ \A name \in Counts : c[name] \in Nat
             /\ \A d \in Directions : c[d] \in RateType
             /\ c.alphas \subseteq Nat
             /\ IsList(c.reflectors)
  <1> DEFINE o == load_options(s)
             r == resolve_interfaces(o)
             c == load_section(s)
             target == LegacyTarget(s)
             given == "no_pingers" \in DOMAIN s.options
             v == [r EXCEPT !.reflectors = <<target>>, !.no_pingers = IF given THEN @ ELSE 1]
  <1>1. /\ o = [name \in DOMAIN Defaults |-> o[name]] /\ DOMAIN o = DOMAIN Defaults
        /\ OptionsTyped(o) /\ IsList(o.reflectors)
    BY OptionsLoaded DEF IsConfig
  <1>2. c = IF s.listed \/ target = "" THEN r ELSE v BY DEF load_section
  <1> HIDE DEF o, c, target, given
  <1>3. /\ r = [name \in DOMAIN Defaults |-> r[name]] /\ DOMAIN r = DOMAIN Defaults
        /\ \A name \in DOMAIN Defaults \ Interfaces : r[name] = o[name]
    BY <1>1, InterfacesResolved
  <1> HIDE DEF r
  <1>4. /\ \A name \in Counts : r[name] \in Nat
        /\ \A d \in Directions : r[d] \in RateType
        /\ r.alphas \subseteq Nat /\ IsList(r.reflectors)
    <2>1. Counts \cup Directions \cup {"alphas", "reflectors"}
            \subseteq DOMAIN Defaults \ Interfaces
      BY DefaultNames DEF Counts, Directions, Interfaces
    <2>2. /\ \A name \in Counts : o[name] \in Nat
          /\ \A d \in Directions : o[d] \in RateType
          /\ o["alphas"] \subseteq Nat
      BY <1>1, <2>1 DEF OptionsTyped
    <2> QED BY <1>1, <1>3, <2>1, <2>2
  <1>5. /\ v = [name \in DOMAIN Defaults |-> v[name]] /\ v.reflectors = <<target>>
        /\ v.no_pingers = (IF given THEN r.no_pingers ELSE 1)
        /\ \A name \in DOMAIN Defaults \ {"reflectors", "no_pingers"} : v[name] = r[name]
    BY <1>3, DefaultNames
  <1> HIDE DEF v
  <1>6. /\ \A name \in Counts : v[name] \in Nat
        /\ \A d \in Directions : v[d] \in RateType
        /\ v.alphas \subseteq Nat /\ IsList(v.reflectors)
    <2>1. \A name \in Counts : v[name] \in Nat
      <3>1. "no_pingers" \in Counts BY DEF Counts
      <3>2. Counts \ {"no_pingers"} \subseteq DOMAIN Defaults \ {"reflectors", "no_pingers"}
        BY DefaultNames DEF Counts
      <3> QED BY <1>4, <1>5, <3>1, <3>2
    <2>2. \A d \in Directions : v[d] \in RateType
      BY <1>4, <1>5, DefaultNames DEF Directions
    <2>3. IsList(<<target>>) BY OneLong
    <2> QED BY <1>4, <1>5, <2>1, <2>2, <2>3, DefaultNames
  <1> QED BY <1>2, <1>3, <1>4, <1>5, <1>6 DEF c

\* A section that is accepted loads as what the rest of the daemon relies on.
LEMMA AcceptedIsSuited ==
  ASSUME IsSection(section)
  PROVE  AcceptedSuits
  <1> DEFINE config == load_section(section)
             spacing == ping_spacing_us(config)
             method == Methods[config.pinger_method]
             timers == {config.monitor_achieved_rates_interval_us,
                        config.reflector_health_check_interval_us}
  <1> SUFFICES ASSUME Accepted(section), config.enabled \/ config_adjusts(config)
               PROVE  AcceptedSuits
    BY DEF AcceptedSuits
  <1>1. /\ config_validate(config) /\ config_check_shared_file(config, section.shared)
        /\ config_in_use(config)
    BY DEF Accepted, config_in_use
  <1>2. /\ \A name \in Counts : config[name] \in Nat
        /\ \A d \in Directions : config[d] \in RateType
        /\ config.alphas \subseteq Nat /\ IsList(config.reflectors)
    BY SectionLoaded
  <1> HIDE DEF config
  <1>3. /\ config.interface # "" /\ validate_pinger(config) /\ validate_detection(config)
        /\ validate_reflector_policy(config) /\ validate_monitoring(config)
        /\ \A d \in Directions : validate_rate_range(config[d])
    BY <1>1 DEF config_validate
  <1>4. ASSUME NEW d \in Directions, config[d].adjust
        PROVE  /\ 0 < config[d].minimum /\ config[d].minimum <= config[d].base
               /\ config[d].base <= config[d].maximum
               /\ \A rate \in {config[d].minimum, config[d].base, config[d].maximum} :
                    rate % RATE_STEP = 0
    <2>1. config[d] \in RateType /\ validate_rate_range(config[d]) BY <1>2, <1>3
    <2> QED BY <1>4, <2>1 DEF RateType, validate_rate_range
  <1>5. ASSUME NEW d \in Directions, config.enable_sleep_function
        PROVE  config.connection_active_threshold_bps <= config[d].minimum
    BY <1>3, <1>5 DEF validate_monitoring
  <1>6. config.alphas \subseteq 0 .. RATIO_ONE_E6
    <2>1. \A ratio \in config.alphas : ratio <= RATIO_ONE_E6
      BY <1>3 DEF validate_detection
    <2>2. RATIO_ONE_E6 \in Nat BY ArithAssumption
    <2> QED BY <1>2, <2>1, <2>2
  <1>7. Cardinality(Range(config.reflectors)) >= config.no_pingers
    <2> DEFINE reflectors == config.reflectors
               n == Len(reflectors)
    <2>1. reflectors \in Seq(Range(reflectors)) /\ n \in Nat /\ DOMAIN reflectors = 1 .. n
      BY <1>2 DEF IsList
    <2>2. IsInjective(reflectors) /\ config.no_pingers \in 1 .. n
      BY <1>3 DEF validate_pinger, validate_reflectors
    <2> HIDE DEF reflectors, n
    <2>3. IsFiniteSet(1 .. n) /\ Cardinality(1 .. n) = n BY <2>1, FS_Interval
    <2>4. ExistsBijection(1 .. n, Range(reflectors))
      <3>1. reflectors \in [1 .. n -> Range(reflectors)] BY <2>1 DEF Range
      <3>2. reflectors \in Injection(1 .. n, Range(reflectors))
        BY <2>1, <2>2, <3>1 DEF Injection, IsInjective
      <3>3. reflectors \in Surjection(1 .. n, Range(reflectors))
        BY <2>1, <3>1 DEF Surjection, Range
      <3> QED BY <3>2, <3>3 DEF ExistsBijection, Bijection
    <2>5. Cardinality(Range(reflectors)) = n BY <2>3, <2>4, FS_Bijection
    <2> QED BY <2>1, <2>2, <2>5 DEF reflectors
  <1>8. \A us \in timers : us \div MILLISECOND \in 1 .. UINT_MAX
    <2>1. MILLISECOND \in Nat \ {0} /\ UINT_MAX \in Nat \ {0} BY ConfigAssumption
    <2>2. \A us \in timers : us \in Nat /\ timer_interval_valid(us)
      BY <1>2, <1>3 DEF validate_detection, validate_reflector_policy, Counts
    <2>3. ASSUME NEW us \in Nat, timer_interval_valid(us)
          PROVE  us \div MILLISECOND \in 1 .. UINT_MAX
      <3>1. /\ us > 0 /\ us % MILLISECOND = 0 /\ us \div MILLISECOND <= UINT_MAX
        BY <2>3 DEF timer_interval_valid
      <3>2. /\ us \div MILLISECOND \in Nat
            /\ us = MILLISECOND * (us \div MILLISECOND) + (us % MILLISECOND)
        BY <2>1
      <3>3. MILLISECOND * 0 = 0 BY <2>1
      <3>4. us \div MILLISECOND # 0 BY <3>1, <3>2, <3>3
      <3> QED BY <2>1, <3>1, <3>2, <3>4
    <2> QED BY <2>2, <2>3
  <1>9. spacing >= MILLISECOND /\ config.stall_detection_threshold * spacing <= U64_MAX
    <2> DEFINE stall == config.stall_detection_threshold
    <2>1. spacing >= MILLISECOND /\ stall \in 1 .. U64_MAX \div spacing
      BY <1>3 DEF validate_pinger, validate_reflector_policy
    <2>2. config.no_pingers \in Nat \ {0} /\ config.reflector_ping_interval_us \in Nat
      <3>1. config.no_pingers \in 1 .. Len(config.reflectors) /\ Len(config.reflectors) \in Nat
        <4>1. Len(config.reflectors) \in Nat BY <1>2 DEF IsList
        <4> QED BY <1>3, <4>1 DEF validate_pinger, validate_reflectors
      <3> QED BY <1>2, <3>1 DEF Counts
    <2>3. spacing \in Nat
      <3> HIDE DEF spacing
      <3>1. spacing = config.reflector_ping_interval_us \div config.no_pingers
        BY DEF spacing, ping_spacing_us
      <3> QED BY <2>2, <3>1
    <2>4. U64_MAX \in Nat /\ MILLISECOND \in Nat \ {0} BY ArithAssumption, ConfigAssumption
    <2> HIDE DEF spacing, stall
    <2>5. spacing \in Nat \ {0} BY <2>1, <2>3, <2>4
    <2> DEFINE q == U64_MAX \div spacing
    <2>6. q \in Nat /\ U64_MAX = spacing * q + (U64_MAX % spacing) /\ U64_MAX % spacing \in Nat
      BY <2>4, <2>5
    <2>7. stall \in Nat /\ stall <= q BY <2>1, <2>6
    <2> HIDE DEF q
    <2>8. stall * spacing <= q * spacing /\ q * spacing = spacing * q
      BY <2>5, <2>6, <2>7
    <2>9. stall * spacing \in Nat /\ spacing * q \in Nat BY <2>5, <2>6, <2>7
    <2> QED BY <2>1, <2>4, <2>6, <2>8, <2>9 DEF stall
  <1>10. config.tcp_ts_request => config.tcp_delay_attribution /\ method.shared
    BY <1>3 DEF validate_pinger
  <1>11. Range(config.reflectors) \subseteq
           V4 \cup (IF method.timestamps THEN {} ELSE V6)
              \cup (IF method.native THEN {} ELSE Hosts)
    <2>1. Range(config.reflectors) \subseteq V4 \cup V6 \cup Hosts
      BY <1>3 DEF validate_pinger, validate_reflectors, latency_target_valid, Range
    <2>2. /\ method.timestamps => Range(config.reflectors) \cap V6 = {}
          /\ method.native => Range(config.reflectors) \cap Hosts = {}
      BY <1>3 DEF validate_pinger
    <2> HIDE DEF method
    <2> QED BY <2>1, <2>2
  <1>12. section.shared => ~config.ping_arguments /\ ~config.log_file_path_override
    BY <1>1 DEF config_check_shared_file
  <1>13. config.reflector_misbehaving_detection_threshold
           \in 1 .. config.reflector_misbehaving_detection_window
    BY <1>3 DEF validate_reflector_policy
  <1> HIDE DEF spacing, method, timers
  <1> QED
    BY <1>3, <1>4, <1>5, <1>6, <1>7, <1>8, <1>9, <1>10, <1>11, <1>12, <1>13
    DEF AcceptedSuits, config, spacing, method, timers

\* The options that a configuration need not share with another to be checked alike.
Asked == {"ul_if", "dl_if", "interface_overridden"}

\* Configurations that agree on all else are accepted alike.
LEMMA CheckedAlike ==
  ASSUME NEW a, NEW b, \A name \in DOMAIN Defaults \ Asked : a[name] = b[name]
  PROVE  /\ config_validate(a) <=> config_validate(b)
         /\ \A shared : config_check_shared_file(a, shared) <=> config_check_shared_file(b, shared)
  <1>1. (Counts \cup Others \cup Directions \cup Loaded) \ Asked
          \subseteq DOMAIN Defaults \ Asked
    BY DefaultsAssumption
  <1>2. /\ a.enabled = b.enabled /\ a.interface = b.interface /\ a.mqtt = b.mqtt
        /\ \A d \in Directions : a[d] = b[d]
    BY <1>1 DEF Counts, Others, Directions, Loaded, Asked
  <1>3. config_in_use(a) <=> config_in_use(b)
    BY <1>2 DEF config_in_use, config_adjusts
  <1>4. validate_pinger(a) <=> validate_pinger(b)
    <2>1. /\ a.reflectors = b.reflectors /\ a.no_pingers = b.no_pingers
          /\ a.pinger_method = b.pinger_method
          /\ a.irtt_session_duration_us = b.irtt_session_duration_us
          /\ a.tcp_delay_attribution = b.tcp_delay_attribution
          /\ a.ping_arguments = b.ping_arguments /\ a.tcp_ts_request = b.tcp_ts_request
          /\ a.reflector_ping_interval_us = b.reflector_ping_interval_us
      BY <1>1 DEF Counts, Others, Loaded, Asked
    <2>2. validate_reflectors(a) <=> validate_reflectors(b) BY <2>1 DEF validate_reflectors
    <2>3. ping_spacing_us(a) = ping_spacing_us(b) BY <2>1 DEF ping_spacing_us
    <2> QED BY <2>1, <2>2, <2>3, Zenon DEF validate_pinger
  <1>5. validate_detection(a) <=> validate_detection(b)
    <2>1. /\ a.monitor_achieved_rates_interval_us = b.monitor_achieved_rates_interval_us
          /\ a.bufferbloat_detection_window = b.bufferbloat_detection_window
          /\ a.bufferbloat_detection_threshold = b.bufferbloat_detection_threshold
          /\ a.ul_congest_ack_share_ratio_e6 = b.ul_congest_ack_share_ratio_e6
          /\ a.alphas = b.alphas
      BY <1>1 DEF Counts, Others, Asked
    <2> QED BY <2>1, Zenon DEF validate_detection
  <1>6. validate_reflector_policy(a) <=> validate_reflector_policy(b)
    <2>1. /\ a.reflector_response_deadline_us = b.reflector_response_deadline_us
          /\ a.reflector_health_check_interval_us = b.reflector_health_check_interval_us
          /\ a.reflector_misbehaving_detection_threshold
               = b.reflector_misbehaving_detection_threshold
          /\ a.reflector_misbehaving_detection_window
               = b.reflector_misbehaving_detection_window
          /\ a.stall_detection_threshold = b.stall_detection_threshold
          /\ a.global_ping_response_timeout_us = b.global_ping_response_timeout_us
          /\ a.interface_up_check_interval_us = b.interface_up_check_interval_us
          /\ a.no_pingers = b.no_pingers
          /\ a.reflector_ping_interval_us = b.reflector_ping_interval_us
      BY <1>1 DEF Counts, Others, Asked
    <2>2. ping_spacing_us(a) = ping_spacing_us(b) BY <2>1 DEF ping_spacing_us
    <2> QED BY <2>1, <2>2, Zenon DEF validate_reflector_policy
  <1>7. validate_monitoring(a) <=> validate_monitoring(b)
    <2>1. /\ a.output_cpu_stats = b.output_cpu_stats
          /\ a.monitor_cpu_usage_interval_us = b.monitor_cpu_usage_interval_us
          /\ a.log_file_buffer_timeout_us = b.log_file_buffer_timeout_us
          /\ a.reflector_ping_interval_us = b.reflector_ping_interval_us
          /\ a.enable_sleep_function = b.enable_sleep_function
          /\ a.connection_active_threshold_bps = b.connection_active_threshold_bps
      BY <1>1 DEF Counts, Others, Asked
    <2> QED BY <1>2, <2>1, Zenon DEF validate_monitoring
  <1>8. /\ a.ping_arguments = b.ping_arguments
        /\ a.log_file_path_override = b.log_file_path_override
    BY <1>1 DEF Counts, Others, Asked
  <1>9. config_validate(a) <=> config_validate(b)
    BY <1>2, <1>3, <1>4, <1>5, <1>6, <1>7, Zenon DEF config_validate
  <1> QED BY <1>8, <1>9, Zenon DEF config_check_shared_file

\* There is room for no reflector and for one.
LEMMA ShortFits == ReflectorsFit(<<>>) /\ \A target : ReflectorsFit(<<target>>)
  <1>1. MAX_REFLECTORS \in Nat \ {0} BY ConfigAssumption
  <1> QED BY <1>1 DEF ReflectorsFit

\* What is loaded has the names of the defaults.
LEMMA OptionsNamed ==
  ASSUME NEW s
  PROVE  /\ load_options(s) = [name \in DOMAIN Defaults |-> load_options(s)[name]]
         /\ DOMAIN load_options(s) = DOMAIN Defaults
  BY DEF load_options

\* A list leaves the older option nothing to say, whether it is there or not.
LEMMA TargetIgnored ==
  ASSUME NEW s, IsSection(s), s.listed,
         NEW given, given = Without(s.options, {"latency_target"}),
         NEW l, l = [s EXCEPT !.options = given]
  PROVE  load_section(s) = load_section(l) /\ (Accepted(s) <=> Accepted(l))
  <1>1. /\ l.options = given /\ l.listed = s.listed /\ l.reflectors = s.reflectors
        /\ l.malformed = s.malformed /\ l.shared = s.shared
    BY DEF IsSection
  <1>2. load_reflectors(l) = load_reflectors(s) BY <1>1 DEF load_reflectors
  <1>3. ASSUME NEW name \in DOMAIN Defaults
        PROVE  /\ name \in DOMAIN given <=> name \in DOMAIN s.options
               /\ name \in DOMAIN given => given[name] = s.options[name]
    BY DefaultNames DEF Without, Restrict
  <1>4. load_options(l) = load_options(s) BY <1>1, <1>2, <1>3 DEF load_options
  <1>5. load_section(s) = load_section(l) BY <1>1, <1>4 DEF load_section
  <1> QED BY <1>1, <1>2, <1>4, <1>5, Zenon DEF Accepted

\* Without a list the older option stands for one.
LEMMA TargetListed ==
  ASSUME NEW s, IsSection(s), ~s.listed, LegacyTarget(s) # "",
         NEW given, given = Over(Without(s.options, {"latency_target"}), [no_pingers |-> 1]),
         NEW l, l = [s EXCEPT !.options = given, !.listed = TRUE,
                              !.reflectors = <<LegacyTarget(s)>>]
  PROVE  load_section(s) = load_section(l) /\ (Accepted(s) <=> Accepted(l))
  <1> DEFINE target == LegacyTarget(s)
             has == "no_pingers" \in DOMAIN s.options
             o == load_options(s)
             m == load_options(l)
             r == resolve_interfaces(o)
             q == resolve_interfaces(m)
             v == [r EXCEPT !.reflectors = <<target>>, !.no_pingers = IF has THEN @ ELSE 1]
  <1>1. /\ l.options = given /\ l.listed = TRUE /\ l.reflectors = <<target>>
        /\ l.malformed = s.malformed /\ l.shared = s.shared
    <2> HIDE DEF target, o, m, r, q, v, has
    <2>1. l = [s EXCEPT !.options = given, !.listed = TRUE, !.reflectors = <<target>>]
      BY DEF target
    <2> QED BY <2>1 DEF IsSection
  <1>2. load_reflectors(l) = <<target>> BY <1>1 DEF load_reflectors
  <1>3. /\ \A name \in DOMAIN Defaults \ {"no_pingers"} :
             /\ name \in DOMAIN given <=> name \in DOMAIN s.options
             /\ name \in DOMAIN given => given[name] = s.options[name]
        /\ "no_pingers" \in DOMAIN given
        /\ given["no_pingers"] = IF has THEN s.options["no_pingers"] ELSE 1
    BY DefaultNames DEF Without, Restrict, Over
  <1>4. /\ o = [name \in DOMAIN Defaults |-> o[name]]
        /\ m = [name \in DOMAIN Defaults |-> m[name]]
        /\ DOMAIN o = DOMAIN Defaults /\ DOMAIN m = DOMAIN Defaults
    <2> HIDE DEF r, q, v
    <2> QED BY OptionsNamed
  <1>5. /\ \A name \in DOMAIN Defaults \ {"reflectors", "no_pingers"} : m[name] = o[name]
        /\ m.reflectors = <<target>>
        /\ m.no_pingers = IF has THEN o.no_pingers ELSE 1
    BY <1>1, <1>2, <1>3, DefaultNames DEF load_options
  <1> HIDE DEF o, m, target, has
  <1>6. /\ r = [name \in DOMAIN Defaults |-> r[name]]
        /\ \A name \in DOMAIN Defaults \ Interfaces : r[name] = o[name]
        /\ r.interface = IF o.ul_if # "" THEN o.ul_if ELSE o.interface
        /\ r.ingress_interface = IF o.ul_if # "" THEN o.dl_if
                                 ELSE IF o.interface = "" THEN "" ELSE Ifb[o.interface]
    BY <1>4, InterfacesResolved
  <1>7. /\ q = [name \in DOMAIN Defaults |-> q[name]]
        /\ \A name \in DOMAIN Defaults \ Interfaces : q[name] = m[name]
        /\ q.interface = IF m.ul_if # "" THEN m.ul_if ELSE m.interface
        /\ q.ingress_interface = IF m.ul_if # "" THEN m.dl_if
                                 ELSE IF m.interface = "" THEN "" ELSE Ifb[m.interface]
    BY <1>4, InterfacesResolved
  <1>8. o.ul_if = m.ul_if /\ o.dl_if = m.dl_if /\ o.interface = m.interface
    BY <1>5, DefaultNames
  <1>9. r.interface_overridden = q.interface_overridden
    <2>1. o.interface_overridden = m.interface_overridden BY <1>5, DefaultNames
    <2> QED BY <1>4, <1>8, <2>1, DefaultNames DEF resolve_interfaces
  <1> HIDE DEF r, q
  <1>10. /\ v = [name \in DOMAIN Defaults |-> v[name]] /\ v.reflectors = <<target>>
         /\ v.no_pingers = (IF has THEN r.no_pingers ELSE 1)
         /\ \A name \in DOMAIN Defaults \ {"reflectors", "no_pingers"} : v[name] = r[name]
    <2>1. DOMAIN r = DOMAIN Defaults BY <1>6
    <2> QED BY <1>6, <2>1, DefaultNames
  <1> HIDE DEF v
  <1>11. ASSUME NEW name \in DOMAIN Defaults PROVE v[name] = q[name]
    <2>1. CASE name \in Interfaces
      <3>1. v[name] = r[name] BY <1>10, <2>1 DEF Interfaces
      <3> QED BY <1>6, <1>7, <1>8, <1>9, <2>1, <3>1 DEF Interfaces
    <2>2. CASE name = "reflectors" BY <1>5, <1>7, <1>10, <2>2, DefaultNames DEF Interfaces
    <2>3. CASE name = "no_pingers"
      <3>1. name \in DOMAIN Defaults \ Interfaces BY <2>3 DEF Interfaces
      <3> QED BY <1>5, <1>6, <1>7, <1>10, <2>3, <3>1
    <2>4. CASE name \notin Interfaces \cup {"reflectors", "no_pingers"}
      BY <1>5, <1>6, <1>7, <1>10, <2>4
    <2> QED BY <2>1, <2>2, <2>3, <2>4
  <1>12. v = q BY <1>7, <1>10, <1>11
  <1>13. load_section(s) = v
    BY DEF load_section, v, r, o, target, has
  <1>14. load_section(l) = q
    BY <1>1 DEF load_section, q, m
  <1>15. ReflectorsFit(load_reflectors(s)) /\ ReflectorsFit(load_reflectors(l))
    <2>1. load_reflectors(s) = <<>> BY ListIs
    <2> QED BY <1>2, <2>1, ShortFits, Zenon
  <1>16. Resolvable(o) <=> Resolvable(m) BY <1>8 DEF Resolvable
  <1> QED BY <1>1, <1>12, <1>13, <1>14, <1>15, <1>16, Zenon DEF Accepted, o, m

\* A section with the pair that its older option interface stands for.
Paired(s) ==
  LET c == load_section(s)
  IN  [s EXCEPT !.options =
         Over([ul_if |-> c.interface, dl_if |-> c.ingress_interface],
              Without(s.options, {"interface"}))]

\* The older option interface means what the pair does, whose second is the IFB.
LEMMA InterfacePaired ==
  ASSUME NEW s, IsSection(s), Resolvable(load_options(s)), load_section(s).interface # ""
  PROVE  /\ Accepted(s) <=> Accepted(Paired(s))
         /\ Without(load_section(s), Asked) = Without(load_section(Paired(s)), Asked)
  <1> DEFINE c == load_section(s)
             given == Over([ul_if |-> c.interface, dl_if |-> c.ingress_interface],
                           Without(s.options, {"interface"}))
             l == Paired(s)
  <1>0. /\ c = load_section(s) /\ c.interface # ""
        /\ given = Over([ul_if |-> c.interface, dl_if |-> c.ingress_interface],
                        Without(s.options, {"interface"}))
        /\ l = [s EXCEPT !.options = given]
    BY DEF Paired
  <1> HIDE DEF c, given, l
  <1> DEFINE target == LegacyTarget(s)
             has == "no_pingers" \in DOMAIN s.options
             o == load_options(s)
             m == load_options(l)
             r == resolve_interfaces(o)
             q == resolve_interfaces(m)
             With(x) == [x EXCEPT !.reflectors = <<target>>,
                                  !.no_pingers = IF has THEN @ ELSE 1]
             plain == s.listed \/ target = ""
             e == load_section(l)
  <1>1. /\ l.options = given /\ l.listed = s.listed /\ l.reflectors = s.reflectors
        /\ l.malformed = s.malformed /\ l.shared = s.shared
    <2> HIDE DEF target, o, m, r, q, has, e
    <2> QED BY <1>0 DEF IsSection
  <1>2. /\ \A name \in DOMAIN s.options \cup DOMAIN Defaults \cup {"latency_target"} :
             name \notin {"interface", "ul_if", "dl_if"} =>
               /\ name \in DOMAIN given <=> name \in DOMAIN s.options
               /\ name \in DOMAIN given => given[name] = s.options[name]
        /\ {"ul_if", "dl_if"} \subseteq DOMAIN given
        /\ given["ul_if"] = c.interface /\ given["dl_if"] = c.ingress_interface
    <2> HIDE DEF target, o, m, r, q, has, e
    <2> QED BY <1>0 DEF Over, Without, Restrict
  <1>3. load_reflectors(l) = load_reflectors(s) BY <1>1 DEF load_reflectors
  <1>4. /\ \A name \in DOMAIN Defaults \ {"interface", "ul_if", "dl_if"} : m[name] = o[name]
        /\ m.ul_if = c.interface /\ m.dl_if = c.ingress_interface
    <2> HIDE DEF target, r, q, has, e
    <2> QED BY <1>1, <1>2, <1>3, DefaultNames DEF load_options
  <1>5. LegacyTarget(l) = target /\ ("no_pingers" \in DOMAIN given <=> has)
    <2> HIDE DEF o, m, r, q, e
    <2> QED BY <1>1, <1>2, DefaultNames DEF LegacyTarget
  <1>6. /\ c = (IF plain THEN r ELSE With(r))
        /\ e = (IF plain THEN q ELSE With(q))
    <2>1. c = (IF plain THEN r ELSE With(r))
      <3> HIDE DEF e, m, q
      <3> QED BY <1>0 DEF load_section
    <2>2. e = (IF plain THEN q ELSE With(q))
      <3> DEFINE had == "no_pingers" \in DOMAIN l.options
      <3>1. e = IF l.listed \/ LegacyTarget(l) = "" THEN q
                ELSE [q EXCEPT !.reflectors = <<LegacyTarget(l)>>,
                               !.no_pingers = IF had THEN @ ELSE 1]
        <4> HIDE DEF o, r, target, has
        <4> QED BY DEF load_section
      <3>2. had <=> has
        <4> HIDE DEF has, o, m, r, q, e, target
        <4> QED BY <1>1, <1>5
      <3> HIDE DEF o, r, q, m, e, target, has, had
      <3>3. CASE has BY <1>1, <1>5, <3>1, <3>2, <3>3
      <3>4. CASE ~has BY <1>1, <1>5, <3>1, <3>2, <3>4
      <3> QED BY <3>3, <3>4
    <2> QED BY <2>1, <2>2
  <1>7. /\ o = [name \in DOMAIN Defaults |-> o[name]]
        /\ m = [name \in DOMAIN Defaults |-> m[name]]
        /\ OptionsTyped(o) /\ DOMAIN o = DOMAIN Defaults
    <2> HIDE DEF r, q, target, has, e
    <2> QED BY OptionsNamed, OptionsLoaded DEF IsConfig
  <1>8. (o.ul_if = "") = (o.dl_if = "") BY DEF Resolvable
  <1> HIDE DEF o, m, target, has, e
  <1>9. /\ r = [name \in DOMAIN Defaults |-> r[name]] /\ DOMAIN r = DOMAIN Defaults
        /\ \A name \in DOMAIN Defaults \ Interfaces : r[name] = o[name]
        /\ r.interface = IF o.ul_if # "" THEN o.ul_if ELSE o.interface
        /\ r.ingress_interface = IF o.ul_if # "" THEN o.dl_if
                                 ELSE IF o.interface = "" THEN "" ELSE Ifb[o.interface]
    BY <1>7, InterfacesResolved
  <1>10. /\ q = [name \in DOMAIN Defaults |-> q[name]] /\ DOMAIN q = DOMAIN Defaults
         /\ \A name \in DOMAIN Defaults \ Interfaces : q[name] = m[name]
         /\ q.interface = IF m.ul_if # "" THEN m.ul_if ELSE m.interface
         /\ q.ingress_interface = IF m.ul_if # "" THEN m.dl_if
                                  ELSE IF m.interface = "" THEN "" ELSE Ifb[m.interface]
    BY <1>7, InterfacesResolved
  <1> HIDE DEF r, q
  <1>11. ASSUME NEW x, x = [name \in DOMAIN Defaults |-> x[name]]
         PROVE  /\ With(x) = [name \in DOMAIN Defaults |-> With(x)[name]]
                /\ With(x).reflectors = <<target>>
                /\ With(x).no_pingers = (IF has THEN x.no_pingers ELSE 1)
                /\ \A name \in DOMAIN Defaults \ {"reflectors", "no_pingers"} :
                     With(x)[name] = x[name]
    <2>1. DOMAIN x = DOMAIN Defaults BY <1>11
    <2> QED BY <1>11, <2>1, DefaultNames
  <1> HIDE DEF With
  <1>12. c.interface = r.interface /\ c.ingress_interface = r.ingress_interface
    <2>1. \A name \in {"interface", "ingress_interface"} : With(r)[name] = r[name]
      <3>1. \A name \in DOMAIN Defaults \ {"reflectors", "no_pingers"} : With(r)[name] = r[name]
        BY <1>9, <1>11
      <3> QED BY <3>1, DefaultNames
    <2> QED BY <1>6, <2>1
  <1>13. m.ul_if # "" /\ m.dl_if # ""
    <2>0. c.interface # "" BY <1>0
    <2>1. CASE o.ul_if # "" BY <1>4, <1>8, <1>9, <1>12, <2>0, <2>1
    <2>2. CASE o.ul_if = ""
      <3>1. o.interface # "" BY <1>9, <1>12, <2>0, <2>2
      <3>2. o.interface \in DOMAIN Ifb BY <1>7, <3>1, DefaultNames DEF OptionsTyped
      <3> QED BY <1>4, <1>9, <1>12, <2>0, <2>2, <3>1, <3>2, ConfigAssumption
    <2> QED BY <2>1, <2>2
  <1>14. ASSUME NEW name \in DOMAIN Defaults \ Asked PROVE q[name] = r[name]
    <2>1. CASE name \in Interfaces
      BY <1>4, <1>9, <1>10, <1>12, <1>13, <1>14, <2>1 DEF Interfaces, Asked
    <2>2. CASE name \notin Interfaces
      <3>1. name \in DOMAIN Defaults \ Interfaces BY <1>14, <2>2
      <3>2. name \in DOMAIN Defaults \ {"interface", "ul_if", "dl_if"}
        BY <1>14, <2>2 DEF Interfaces, Asked
      <3> QED BY <1>4, <1>9, <1>10, <3>1, <3>2
    <2> QED BY <2>1, <2>2
  <1>15. ASSUME NEW name \in DOMAIN Defaults \ Asked PROVE c[name] = e[name]
    <2>1. With(r)[name] = With(q)[name]
      <3>1. CASE name = "reflectors" BY <1>9, <1>10, <1>11, <3>1
      <3>2. CASE name = "no_pingers" BY <1>9, <1>10, <1>11, <1>14, <1>15, <3>2
      <3>3. CASE name \notin {"reflectors", "no_pingers"}
        <4>1. With(r)[name] = r[name] BY <1>9, <1>11, <1>15, <3>3
        <4>2. With(q)[name] = q[name] BY <1>10, <1>11, <1>15, <3>3
        <4> QED BY <1>14, <1>15, <4>1, <4>2
      <3> QED BY <3>1, <3>2, <3>3
    <2> QED BY <1>6, <1>14, <1>15, <2>1
  <1>16. DOMAIN c = DOMAIN Defaults /\ DOMAIN e = DOMAIN Defaults
    <2>1. DOMAIN With(r) = DOMAIN Defaults BY <1>9, <1>11
    <2>2. DOMAIN With(q) = DOMAIN Defaults BY <1>10, <1>11
    <2> QED BY <1>6, <1>9, <1>10, <2>1, <2>2
  <1>17. Without(c, Asked) = Without(e, Asked)
    BY <1>15, <1>16 DEF Without, Restrict
  <1>18. /\ config_validate(c) <=> config_validate(e)
         /\ config_check_shared_file(c, s.shared) <=> config_check_shared_file(e, s.shared)
    BY <1>15, CheckedAlike, Zenon
  <1>19. Resolvable(m) BY <1>13 DEF Resolvable
  <1>20. Accepted(s) <=> Accepted(l)
    <2> HIDE DEF q
    <2> QED BY <1>0, <1>1, <1>3, <1>18, <1>19, Zenon DEF Accepted, m, e
  <1> QED BY <1>0, <1>17, <1>20, Zenon DEF e, l

\* The older options mean what their successors do.
LEMMA OlderAlike ==
  ASSUME IsSection(section)
  PROVE  LoadsAlike
  <1> DEFINE target == LegacyTarget(section)
             options == Without(section.options, {"latency_target"})
             ignored == [section EXCEPT !.options = options]
             replaced == [section EXCEPT !.options = Over(options, [no_pingers |-> 1]),
                                         !.listed = TRUE, !.reflectors = <<target>>]
             listed == IF section.listed THEN ignored ELSE replaced
             loaded == load_section(section)
             pair == [section EXCEPT !.options =
                        Over([ul_if |-> loaded.interface, dl_if |-> loaded.ingress_interface],
                             Without(section.options, {"interface"}))]
             over == Over(options, [no_pingers |-> 1])
             given == Over([ul_if |-> loaded.interface, dl_if |-> loaded.ingress_interface],
                           Without(section.options, {"interface"}))
  <1>1. section.listed \in BOOLEAN BY DEF IsSection
  <1>2. /\ options = Without(section.options, {"latency_target"})
        /\ ignored = [section EXCEPT !.options = options]
        /\ over = Over(Without(section.options, {"latency_target"}), [no_pingers |-> 1])
        /\ replaced = [section EXCEPT !.options = over, !.listed = TRUE,
                                      !.reflectors = <<LegacyTarget(section)>>]
        /\ given = Over([ul_if |-> loaded.interface, dl_if |-> loaded.ingress_interface],
                        Without(section.options, {"interface"}))
        /\ pair = [section EXCEPT !.options = given]
        /\ loaded = load_section(section)
        /\ listed = IF section.listed THEN ignored ELSE replaced
    OBVIOUS
  <1> HIDE DEF options, ignored, over, replaced, given, pair, loaded, listed
  <1>3. ASSUME target # ""
        PROVE  Accepted(section) = Accepted(listed) /\ loaded = load_section(listed)
    <2>1. CASE section.listed
      <3>1. load_section(section) = load_section(ignored)
            /\ (Accepted(section) <=> Accepted(ignored))
        BY <1>2, <2>1, TargetIgnored
      <3>2. listed = ignored BY <1>2, <2>1
      <3> QED BY <1>2, <3>1, <3>2, Zenon DEF Accepted
    <2>2. CASE ~section.listed
      <3>1. load_section(section) = load_section(replaced)
            /\ (Accepted(section) <=> Accepted(replaced))
        <4>1. \A g, l :
                 /\ g = Over(Without(section.options, {"latency_target"}), [no_pingers |-> 1])
                 /\ l = [section EXCEPT !.options = g, !.listed = TRUE,
                                        !.reflectors = <<LegacyTarget(section)>>]
                 => /\ load_section(section) = load_section(l)
                    /\ Accepted(section) <=> Accepted(l)
          BY <1>3, <2>2, TargetListed, Zenon
        <4> QED BY <1>2, <4>1, Zenon
      <3>2. listed = replaced BY <1>2, <2>2
      <3> QED BY <1>2, <3>1, <3>2, Zenon DEF Accepted
    <2> QED BY <1>1, <2>1, <2>2
  <1>4. ASSUME Resolvable(load_options(section)), loaded.interface # ""
        PROVE  /\ Accepted(section) = Accepted(pair)
               /\ Without(loaded, Asked) = Without(load_section(pair), Asked)
    <2>1. /\ Accepted(section) <=> Accepted(pair)
          /\ Without(loaded, Asked) = Without(load_section(pair), Asked)
      <3>1. pair = Paired(section) BY <1>2 DEF Paired
      <3>2. /\ Accepted(section) <=> Accepted(Paired(section))
            /\ Without(load_section(section), Asked) = Without(load_section(Paired(section)), Asked)
        BY <1>2, <1>4, InterfacePaired
      <3> QED BY <1>2, <3>1, <3>2, Zenon
    <2> QED BY <2>1, Zenon DEF Accepted
  <1> QED
    BY <1>3, <1>4, Zenon DEF LoadsAlike, Asked, listed, loaded, pair, options, ignored, replaced

\* Whatever a section sets, it is turned down or loads as its newer spelling and as
\* what the rest of the daemon relies on (src/config/config.c, validate.c).
THEOREM AnySectionIsSound == IsSection(section) => ConfigSound
  BY AcceptedIsSuited, OlderAlike DEF ConfigSound

\* So that each section of MCPure is one (src/config/config.c, validate.c).
THEOREM ConfigIsSound == Spec => []ConfigSound
  <1> DEFINE Known == section = NoSection \/ IsSection(section)
             vars == <<args, text, probe, section, packet, syn>>
  <1>1. Init => Known BY DEF Init, Inputs
  <1>2. Known /\ [Next]_vars => Known' BY DEF Next, IsSection
  <1>3. Known => ConfigSound
    BY AnySectionIsSound DEF ConfigSound, LoadsAlike, AcceptedSuits
  <1> QED BY <1>1, <1>2, <1>3, PTL DEF Spec
=============================================================================
