------------------------- MODULE HelixShared_proofs -------------------------
(***************************************************************************)
(* Facts about Total, the sum every accounting invariant is written with,  *)
(* and about the truncating division.                                      *)
(***************************************************************************)
EXTENDS HelixShared, FiniteSetTheorems, TLAPS

\* The units of one entry are as many as the entry.
LEMMA UnitsOfOne ==
    ASSUME NEW k, NEW n \in Nat
    PROVE  /\ IsFiniteSet({k} \X (1 .. n))
           /\ Cardinality({k} \X (1 .. n)) = n
<1>1. IsFiniteSet({k}) /\ Cardinality({k}) = 1
  BY FS_Singleton
<1>2. IsFiniteSet(1 .. n) /\ Cardinality(1 .. n) = n
  BY FS_Interval
<1>3. /\ IsFiniteSet({k} \X (1 .. n))
      /\ Cardinality({k} \X (1 .. n)) = Cardinality({k}) * Cardinality(1 .. n)
  BY <1>1, <1>2, FS_Product, Zenon
<1>4. QED
  BY <1>1, <1>2, <1>3

\* A sum over a finite domain is a natural number.
LEMMA TotalType ==
    ASSUME NEW D, IsFiniteSet(D), NEW f \in [D -> Nat]
    PROVE  IsFiniteSet(Units(f)) /\ Total(f) \in Nat
<1> DEFINE B == {{i} \X (1 .. f[i]) : i \in DOMAIN f}
           g == [i \in D |-> {i} \X (1 .. f[i])]
<1>1. g \in Surjection(D, B)
  <2>1. g \in [D -> B]
    OBVIOUS
  <2>2. \A t \in B : \E i \in D : g[i] = t
    OBVIOUS
  <2>3. QED
    BY <2>1, <2>2 DEF Surjection
<1>2. IsFiniteSet(B)
  BY <1>1, FS_Surjection
<1>3. \A T \in B : IsFiniteSet(T)
  <2> TAKE T \in B
  <2>1. PICK i \in D : T = {i} \X (1 .. f[i])
    OBVIOUS
  <2>2. f[i] \in Nat
    OBVIOUS
  <2>3. QED
    BY <2>1, <2>2, UnitsOfOne
<1>4. IsFiniteSet(UNION B)
  BY <1>2, <1>3, FS_UNION
<1>5. QED
  BY <1>4, FS_CardinalityType DEF Units, Total

\* The units of one entry, and those of the others: a disjoint cover.
LEMMA UnitsSplit ==
    ASSUME NEW D, IsFiniteSet(D), NEW f \in [D -> Nat], NEW k \in D
    PROVE  LET rest == {x \in Units(f) : x[1] # k}
           IN  /\ IsFiniteSet(rest)
               /\ Total(f) = Cardinality(rest) + f[k]
<1> DEFINE rest == {x \in Units(f) : x[1] # k}
           own == {k} \X (1 .. f[k])
<1>1. IsFiniteSet(rest)
  BY TotalType, FS_Subset
<1>2. IsFiniteSet(own) /\ Cardinality(own) = f[k]
  BY UnitsOfOne
<1>3. Units(f) = rest \cup own
  BY DEF Units
<1>4. rest \cap own = {}
  OBVIOUS
<1>5. Cardinality(rest \cap own) = 0
  BY <1>4, FS_EmptySet
<1>6. Cardinality(rest) \in Nat
  BY <1>1, FS_CardinalityType
<1>7. Cardinality(rest \cup own) = Cardinality(rest) + Cardinality(own) - 0
  BY <1>1, <1>2, <1>5, FS_Union
<1>8. Total(f) = Cardinality(rest) + f[k]
  <2> HIDE DEF rest, own
  <2> QED
    BY <1>2, <1>3, <1>6, <1>7 DEF Total
<1>9. QED
  BY <1>1, <1>8

\* Changing one entry changes the sum by as much.
LEMMA TotalUpdate ==
    ASSUME NEW D, IsFiniteSet(D), NEW f \in [D -> Nat], NEW k \in D, NEW v \in Nat
    PROVE  Total([f EXCEPT ![k] = v]) = Total(f) - f[k] + v
<1> DEFINE g == [f EXCEPT ![k] = v]
           rest(h) == {x \in Units(h) : x[1] # k}
<1>1. g \in [D -> Nat] /\ g[k] = v
  OBVIOUS
<1>2. Total(f) = Cardinality(rest(f)) + f[k] /\ IsFiniteSet(rest(f))
  BY UnitsSplit
<1>3. Total(g) = Cardinality(rest(g)) + g[k]
  BY <1>1, UnitsSplit
<1>4. rest(f) = rest(g)
  BY DEF Units
<1>5. Cardinality(rest(f)) \in Nat
  BY <1>2, FS_CardinalityType
<1>6. Total(g) = Total(f) - f[k] + v
  <2> HIDE DEF rest, g
  <2> QED
    BY <1>1, <1>2, <1>3, <1>4, <1>5
<1>7. QED
  BY <1>6

\* No entry exceeds the sum.
LEMMA TotalBound ==
    ASSUME NEW D, IsFiniteSet(D), NEW f \in [D -> Nat], NEW k \in D
    PROVE  f[k] <= Total(f)
<1> DEFINE rest == {x \in Units(f) : x[1] # k}
<1>1. Total(f) = Cardinality(rest) + f[k] /\ IsFiniteSet(rest)
  BY UnitsSplit
<1>2. Cardinality(rest) \in Nat
  BY <1>1, FS_CardinalityType
<1>3. QED
  BY <1>1, <1>2

\* The sum of nothing but zeros.
LEMMA TotalZero ==
    ASSUME NEW D, NEW f \in [D -> Nat], \A i \in D : f[i] = 0
    PROVE  Total(f) = 0
<1>1. Units(f) = {}
  BY DEF Units
<1>2. QED
  BY <1>1, FS_EmptySet DEF Total

\* The sum when a single entry is not zero.
LEMMA TotalOne ==
    ASSUME NEW D, NEW f \in [D -> Nat], NEW k \in D, \A i \in D \ {k} : f[i] = 0
    PROVE  Total(f) = f[k]
<1>1. Units(f) = {k} \X (1 .. f[k])
  BY DEF Units
<1>2. QED
  BY <1>1, UnitsOfOne DEF Total

-----------------------------------------------------------------------------
\* What the prover knows of the quotient by a positive number.
LEMMA QuotientBounds ==
    ASSUME NEW a \in Nat, NEW b \in Nat \ {0}
    PROVE  /\ a \div b \in Nat
           /\ b * (a \div b) <= a
           /\ a < b * (a \div b) + b
  OBVIOUS

\* Products keep the order.
LEMMA ProductMonotone ==
    ASSUME NEW x \in Nat, NEW y \in Nat, NEW z \in Nat, x <= y
    PROVE  /\ x * z <= y * z
           /\ z * x <= z * y
<1>1. PICK d \in Nat : y = x + d
  <2>1. y - x \in Nat /\ y = x + (y - x)
    OBVIOUS
  <2>2. QED
    BY <2>1
<1>2. y * z = x * z + d * z /\ z * y = z * x + z * d
  BY <1>1
<1>3. d * z \in Nat /\ z * d \in Nat /\ x * z \in Nat /\ z * x \in Nat
  BY <1>1
<1>4. QED
  BY <1>2, <1>3

\* A share of at most the whole of a pool is at most the pool: redeeming
\* n of b shares.
LEMMA ShareOfPool ==
    ASSUME NEW n \in Nat, NEW b \in Nat \ {0}, n <= b, NEW pool \in Nat
    PROVE  /\ (n * pool) \div b \in Nat
           /\ (n * pool) \div b <= pool
<1> DEFINE q == (n * pool) \div b
<1>1. n * pool \in Nat /\ n * pool <= b * pool
  BY ProductMonotone
<1>2. q \in Nat /\ b * q <= n * pool
  BY <1>1, QuotientBounds
<1>3. b * q <= b * pool
  <2> HIDE DEF q
  <2>1. b * q \in Nat /\ b * pool \in Nat
    BY <1>2
  <2>2. QED
    BY <1>1, <1>2, <2>1
<1>4. ASSUME q > pool PROVE FALSE
  <2> HIDE DEF q
  <2>1. pool + 1 \in Nat /\ pool + 1 <= q
    BY <1>2, <1>4
  <2>2. b * (pool + 1) <= b * q
    BY <1>2, <2>1, ProductMonotone
  <2>3. b * (pool + 1) = b * pool + b
    OBVIOUS
  <2>4. b * pool \in Nat /\ b * q \in Nat
    BY <1>2
  <2>5. QED
    BY <1>3, <2>2, <2>3, <2>4
<1>5. QED
  BY <1>2, <1>4

\* The part of an amount that goes with a part of a whole is natural, and is
\* less than the amount: what a partial close releases.
LEMMA StrictPart ==
    ASSUME NEW c \in Nat, NEW n \in Nat \ {0}, c < n, NEW amount \in Nat \ {0}
    PROVE  /\ (amount * c) \div n \in Nat
           /\ (amount * c) \div n < amount
<1> DEFINE q == (amount * c) \div n
<1>1. amount * c \in Nat
  OBVIOUS
<1>2. q \in Nat /\ n * q <= amount * c
  BY <1>1, QuotientBounds
<1>3. ASSUME q >= amount PROVE FALSE
  <2> HIDE DEF q
  <2>1. n * amount <= n * q
    BY <1>2, <1>3, ProductMonotone
  <2>2. (c + 1) * amount <= n * amount
    BY ProductMonotone
  <2>3. (c + 1) * amount = amount * c + amount
    OBVIOUS
  <2>4. n * amount \in Nat /\ n * q \in Nat /\ (c + 1) * amount \in Nat
    BY <1>2
  <2>5. QED
    BY <1>1, <1>2, <2>1, <2>2, <2>3, <2>4
<1>4. QED
  BY <1>2, <1>3

\* Truncating division yields an integer, a natural one from a natural number.
LEMMA TDivType ==
    ASSUME NEW a \in Int, NEW b \in Nat \ {0}
    PROVE  /\ TDiv(a, b) \in Int
           /\ a \in Nat => TDiv(a, b) \in Nat /\ TDiv(a, b) = a \div b
<1>1. CASE a >= 0
  <2>1. a \in Nat
    BY <1>1
  <2>2. a \div b \in Nat
    BY <2>1, QuotientBounds
  <2>3. QED
    BY <1>1, <2>2 DEF TDiv
<1>2. CASE ~(a >= 0)
  <2>1. -a \in Nat
    BY <1>2
  <2>2. (-a) \div b \in Nat
    BY <2>1, QuotientBounds
  <2>3. TDiv(a, b) = -((-a) \div b)
    BY <1>2 DEF TDiv
  <2>4. QED
    BY <1>2, <2>2, <2>3
<1>3. QED
  BY <1>1, <1>2

\* mul_div is an integer, and plain integer division on naturals.
LEMMA MulDivType ==
    ASSUME NEW a \in Int, NEW b \in Int, NEW d \in Nat \ {0}
    PROVE  /\ MulDiv(a, b, d) \in Int
           /\ a \in Nat /\ b \in Nat =>
                 MulDiv(a, b, d) \in Nat /\ MulDiv(a, b, d) = (a * b) \div d
<1>1. a * b \in Int /\ (a \in Nat /\ b \in Nat => a * b \in Nat)
  OBVIOUS
<1>2. QED
  BY <1>1, TDivType DEF MulDiv

\* apply_bps keeps integers and naturals.
LEMMA ApplyBpsType ==
    ASSUME NEW amount \in Int, NEW bps \in Nat
    PROVE  /\ ApplyBps(amount, bps) \in Int
           /\ amount \in Nat => ApplyBps(amount, bps) \in Nat
  BY ScaleAssumption, MulDivType DEF ApplyBps

\* The profit of a position is an integer when its entry price is positive.
LEMMA PositionPnlType ==
    ASSUME NEW notional \in Int, NEW entry \in Nat \ {0}, NEW mark \in Int, NEW side
    PROVE  PositionPnl(notional, entry, mark, side) \in Int
<1>1. (IF side = Long THEN mark - entry ELSE entry - mark) \in Int
  OBVIOUS
<1>2. QED
  BY <1>1, MulDivType DEF PositionPnl

\* A funding payment is an integer, of either sign.
LEMMA FundingPaymentType ==
    ASSUME NEW notional \in Int, NEW now \in Int, NEW then \in Int, NEW side
    PROVE  FundingPayment(notional, now, then, side) \in Int
<1>1. MulDiv(notional, now - then, FUNDING_SCALE) \in Int
  BY ScaleAssumption, MulDivType
<1>2. QED
  BY <1>1 DEF FundingPayment

RateOfSkew(long, short, cap) == TDiv((long - short) * cap, long + short)

\* The funding rate of a skew: within the cap, and of the sign of the skew.
LEMMA SkewRate ==
    ASSUME NEW long \in Nat, NEW short \in Nat, long + short # 0, NEW cap \in Nat
    PROVE  LET rate == RateOfSkew(long, short, cap)
           IN  /\ rate \in Int /\ -cap <= rate /\ rate <= cap
               /\ rate > 0 => long > short
               /\ rate < 0 => long < short
<1> DEFINE total == long + short
           rate == RateOfSkew(long, short, cap)
<1>0. rate = TDiv((long - short) * cap, long + short)
  BY DEF RateOfSkew
<1> HIDE DEF rate
<1>1. total \in Nat \ {0}
  OBVIOUS
<1>2. CASE long >= short
  <2> DEFINE d == long - short
  <2>1. d \in Nat /\ d <= total
    BY <1>2
  <2>2. d * cap \in Nat /\ rate = TDiv(d * cap, total)
    BY <1>0, <2>1
  <2> HIDE DEF d, total
  <2>3. rate = (d * cap) \div total
    BY <1>1, <2>2, TDivType
  <2>4. rate \in Nat /\ rate <= cap
    BY <1>1, <2>1, <2>3, ShareOfPool
  <2>5. long = short => rate = 0
    <3>1. SUFFICES ASSUME long = short PROVE rate = 0
      OBVIOUS
    <3>2. d * cap = 0
      BY <3>1 DEF d
    <3>3. rate = 0 \div total
      BY <2>3, <3>2
    <3>4. QED
      BY <1>1, <3>3
  <2>6. QED
    BY <1>2, <2>4, <2>5 DEF rate
<1>3. CASE ~(long >= short)
  <2> DEFINE d == short - long
  <2>1. d \in Nat /\ d <= total
    BY <1>3
  <2>2. (long - short) * cap = -(d * cap) /\ d * cap \in Nat
    BY <1>3, <2>1
  <2>3. rate = TDiv(-(d * cap), total)
    BY <1>0, <2>2
  <2> HIDE DEF d, total
  <2>4. (d * cap) \div total \in Nat /\ (d * cap) \div total <= cap
    BY <1>1, <2>1, ShareOfPool
  <2>5. rate = -((d * cap) \div total)
    <3>1. CASE d * cap = 0
      <4>1. 0 \div total = 0
        BY <1>1
      <4>2. QED
        BY <2>3, <3>1, <4>1 DEF TDiv
    <3>2. CASE d * cap # 0
      <4>1. ~(-(d * cap) >= 0) /\ -(-(d * cap)) = d * cap
        BY <2>2, <3>2
      <4>2. QED
        BY <2>3, <4>1 DEF TDiv
    <3>3. QED
      BY <3>1, <3>2
  <2>6. QED
    BY <1>3, <2>4, <2>5 DEF rate
<1>4. QED
  BY <1>2, <1>3

\* Scaling keeps bounds and signs.
LEMMA ScaledStep ==
    ASSUME NEW rate \in Int, NEW cap \in Nat, -cap <= rate, rate <= cap, NEW k \in Nat,
           NEW skew \in Int, rate > 0 => skew > 0, rate < 0 => skew < 0, rate * k # 0
    PROVE  /\ (rate * k) * skew > 0
           /\ rate * k \in -(cap * k) .. cap * k
<1>1. k > 0 /\ rate # 0
  OBVIOUS
<1>2. CASE rate > 0
  <2>1. rate * k <= cap * k /\ rate * k \in Nat /\ cap * k \in Nat
    BY <1>2, ProductMonotone
  <2>2. rate * k > 0
    BY <1>1, <1>2, <2>1
  <2>3. (rate * k) * skew > 0
    <3> DEFINE a == rate * k
    <3>1. a \in Nat \ {0} /\ skew \in Nat \ {0}
      BY <1>2, <2>1, <2>2
    <3> HIDE DEF a
    <3>2. a * skew > 0
      BY <3>1
    <3>3. QED
      BY <3>2 DEF a
  <2>4. QED
    BY <2>1, <2>2, <2>3
<1>3. CASE rate < 0
  <2> DEFINE r == -rate
             a == r * k
             w == -skew
  <2>1. r \in Nat \ {0} /\ r <= cap /\ w \in Nat \ {0}
    BY <1>3
  <2>2. a \in Nat /\ a <= cap * k /\ cap * k \in Nat
    BY <2>1, ProductMonotone
  <2>3. a > 0
    <3> HIDE DEF r
    <3> QED
      BY <1>1, <2>1
  <2>4. rate * k = -a
    OBVIOUS
  <2>5. (rate * k) * skew = a * w
    <3>1. skew = -w
      OBVIOUS
    <3> HIDE DEF a, w
    <3>2. w \in Int /\ a \in Int
      BY <2>1, <2>2
    <3>3. (-a) * (-w) = a * w
      BY <3>2
    <3>4. QED
      BY <2>4, <3>1, <3>3
  <2> HIDE DEF a, w
  <2>6. a * w > 0
    BY <2>1, <2>2, <2>3
  <2>7. rate * k \in -(cap * k) .. cap * k
    BY <2>2, <2>4
  <2>8. QED
    BY <2>5, <2>6, <2>7
<1>4. QED
  BY <1>1, <1>2, <1>3

-----------------------------------------------------------------------------
(* What a partial close divides: the margin in proportion to the size closed, *)
(* the profit on each part by a division of its own, all of them truncating.  *)

\* A positive factor cancels in a comparison of integers.
LEMMA CancelFactor ==
    ASSUME NEW n \in Nat \ {0}, NEW a \in Int, NEW b \in Int, n * a < n * b
    PROVE  a < b
<1> SUFFICES ASSUME a >= b PROVE FALSE
  OBVIOUS
<1>1. PICK d \in Nat : a = b + d
  <2>1. a - b \in Nat /\ a = b + (a - b)
    OBVIOUS
  <2>2. QED
    BY <2>1
<1>2. n * a = n * b + n * d /\ n * d \in Nat /\ n * b \in Int
  BY <1>1
<1>3. QED
  BY <1>2

\* Truncation and proportion: the quotient of r parts of n, scaled up to the whole,
\* and the quotient of the whole, scaled down to r parts, are less than one part apart.
LEMMA QuotientOfPart ==
    ASSUME NEW n \in Nat \ {0}, NEW r \in Nat \ {0}, NEW a \in Nat, NEW e \in Nat \ {0},
           NEW whole, whole = (n * a) \div e, NEW part, part = (r * a) \div e
    PROVE  /\ whole \in Nat /\ part \in Nat
           /\ r * whole < n * (part + 1)
           /\ n * part < r * (whole + 1)
<1>1. ASSUME NEW m \in Nat \ {0}, NEW k \in Nat \ {0}, NEW x, NEW y,
             x = (m * a) \div e, y = (k * a) \div e
      PROVE  k * x < m * (y + 1) /\ x \in Nat
  <2>1. m * a \in Nat /\ k * a \in Nat
    OBVIOUS
  <2>2. x \in Nat /\ e * x <= m * a
    BY <1>1, <2>1, QuotientBounds
  <2>3. y \in Nat /\ k * a < e * y + e
    BY <1>1, <2>1, QuotientBounds
  <2>4. k * (e * x) <= k * (m * a)
    BY <2>1, <2>2, ProductMonotone
  <2>5. m * (k * a) < m * (e * y + e)
    <3>1. k * a + 1 <= e * y + e /\ k * a + 1 \in Nat /\ e * y + e \in Nat
      BY <2>1, <2>3
    <3>2. m * (k * a + 1) <= m * (e * y + e)
      BY <3>1, ProductMonotone
    <3>3. m * (k * a + 1) = m * (k * a) + m
      BY <2>1
    <3>4. m * (k * a) \in Nat /\ m * (e * y + e) \in Nat
      BY <2>1, <3>1
    <3>5. QED
      BY <3>2, <3>3, <3>4
  <2>6. k * (e * x) = e * (k * x) /\ m * (e * y + e) = e * (m * (y + 1))
    BY <2>2, <2>3
  <2>7. k * (m * a) = m * (k * a)
    OBVIOUS
  <2>8. k * x \in Nat /\ m * (y + 1) \in Nat
    BY <2>2, <2>3
  <2>9. e * (k * x) \in Nat /\ e * (m * (y + 1)) \in Nat /\ m * (k * a) \in Nat
    BY <2>8, <2>1
  <2>10. e * (k * x) < e * (m * (y + 1))
    BY <2>4, <2>5, <2>6, <2>7, <2>9
  <2>11. QED
    BY <2>2, <2>8, <2>10, CancelFactor
<1>2. r * whole < n * (part + 1) /\ whole \in Nat
  BY <1>1
<1>3. n * part < r * (whole + 1) /\ part \in Nat
  BY <1>1
<1>4. QED
  BY <1>2, <1>3

\* What is left of an amount when its part for c of n is truncated away is at
\* least in proportion, and less than one unit above.
LEMMA RestOfAmount ==
    ASSUME NEW n \in Nat \ {0}, NEW c \in Nat, c < n, NEW amount \in Nat,
           NEW part, part = (amount * c) \div n
    PROVE  /\ part \in Nat /\ part <= amount
           /\ amount * (n - c) <= n * (amount - part)
           /\ n * (amount - part) < amount * (n - c) + n
<1>1. amount * c \in Nat
  OBVIOUS
<1>2. part \in Nat /\ n * part <= amount * c /\ amount * c < n * part + n
  BY <1>1, QuotientBounds
<1>3. amount * (n - c) = amount * n - amount * c /\ n * (amount - part) = amount * n - n * part
  BY <1>2
<1>4. amount * n \in Nat /\ n * part \in Nat
  BY <1>2
<1>5. /\ amount * (n - c) <= n * (amount - part)
      /\ n * (amount - part) < amount * (n - c) + n
  BY <1>1, <1>2, <1>3, <1>4
<1>6. part <= amount
  <2>1. amount * c <= amount * n
    BY ProductMonotone
  <2>2. n * part < n * (amount + 1)
    BY <1>1, <1>2, <1>4, <2>1
  <2>3. QED
    BY <1>2, <2>2, CancelFactor
<1>7. QED
  BY <1>2, <1>5, <1>6

\* A truncated product keeps its size and carries the sign of its factor.
LEMMA SignedQuotient ==
    ASSUME NEW k \in Nat, NEW d \in Int, NEW e \in Nat \ {0}
    PROVE  /\ d >= 0 => MulDiv(k, d, e) = (k * d) \div e
           /\ d < 0 => MulDiv(k, d, e) = -((k * (-d)) \div e)
<1>1. CASE d >= 0
  <2>1. d \in Nat /\ k * d \in Nat
    BY <1>1
  <2>2. k * d >= 0
    BY <2>1
  <2>3. QED
    BY <1>1, <2>2 DEF MulDiv, TDiv
<1>2. CASE d < 0
  <2>1. -d \in Nat /\ k * (-d) \in Nat /\ k * d = -(k * (-d)) /\ k * d \in Int
    BY <1>2
  <2>2. CASE k * d >= 0
    <3>1. k * d = 0 /\ k * (-d) = 0
      BY <2>1, <2>2
    <3>2. 0 \div e = 0 /\ -(0 \div e) = 0
      OBVIOUS
    <3>3. QED
      BY <1>2, <3>1, <3>2 DEF MulDiv, TDiv
  <2>3. CASE ~(k * d >= 0)
    <3>1. -(k * d) = k * (-d)
      BY <2>1
    <3>2. QED
      BY <1>2, <2>3, <3>1 DEF MulDiv, TDiv
  <2>4. QED
    BY <2>2, <2>3
<1>3. QED
  BY <1>1, <1>2

\* A partial close at a price that stands still costs the health of what is left
\* at most one unit: g is the margin once the funding is realised, d the price
\* change in favour of the position since its entry at e, k the maintenance rate.
LEMMA PartialCloseHealth ==
    ASSUME NEW n \in Nat \ {0}, NEW c \in Nat \ {0}, c < n, NEW g \in Nat,
           NEW e \in Nat \ {0}, NEW d \in Int, NEW k \in Nat, NEW b \in Nat \ {0},
           NEW closed, closed = (g * c) \div n,
           g + MulDiv(n, d, e) >= (n * k) \div b
    PROVE  (g - closed) + MulDiv(n - c, d, e) + 1 >= ((n - c) * k) \div b
<1> DEFINE r == n - c
           rest == g - closed
           y == (n * k) \div b
           z == (r * k) \div b
<1>1. r \in Nat \ {0} /\ r < n
  OBVIOUS
<1>2. rest \in Nat /\ g * r <= n * rest
  BY RestOfAmount
<1>3. y \in Nat /\ z \in Nat /\ n * z < r * (y + 1)
  BY <1>1, QuotientOfPart
<1> HIDE DEF r, rest, y, z
<1>4. g * r \in Nat /\ n * rest \in Nat /\ n * z \in Nat /\ r * y \in Nat
      /\ r * (y + 1) = r * y + r
  BY <1>1, <1>2, <1>3
<1>5. CASE d >= 0
  <2> DEFINE x == (n * d) \div e
             w == (r * d) \div e
  <2>1. d \in Nat
    BY <1>5
  <2>2. MulDiv(n, d, e) = x /\ MulDiv(r, d, e) = w
    <3>1. n \in Nat /\ r \in Nat
      BY <1>1
    <3>2. MulDiv(n, d, e) = x
      BY <1>5, <3>1, SignedQuotient, Zenon
    <3>3. MulDiv(r, d, e) = w
      BY <1>5, <3>1, SignedQuotient, Zenon
    <3>4. QED
      BY <3>2, <3>3, Zenon
  <2>3. x \in Nat /\ w \in Nat /\ r * x < n * (w + 1)
    BY <1>1, <2>1, QuotientOfPart
  <2> HIDE DEF x, w
  <2>4. g + x >= y
    BY <2>2 DEF y
  <2>5. r * y <= r * (g + x)
    BY <1>1, <1>3, <2>3, <2>4, ProductMonotone
  <2>6. /\ r * (g + x) = g * r + r * x
        /\ n * (rest + w + 1 + 1) = n * rest + n * (w + 1) + n
    BY <1>1, <1>2, <2>3
  <2>7. r * x \in Nat /\ n * (w + 1) \in Nat
    BY <1>1, <2>3
  <2>8. n * z < n * (rest + w + 1 + 1)
    BY <1>1, <1>2, <1>3, <1>4, <2>3, <2>5, <2>6, <2>7
  <2>9. z < rest + w + 1 + 1
    BY <1>2, <1>3, <2>3, <2>8, CancelFactor
  <2>10. QED
    BY <1>2, <1>3, <2>2, <2>3, <2>9 DEF r, rest, z
<1>6. CASE d < 0
  <2> DEFINE x == (n * (-d)) \div e
             w == (r * (-d)) \div e
  <2>1. -d \in Nat
    BY <1>6
  <2>2. MulDiv(n, d, e) = -x /\ MulDiv(r, d, e) = -w
    <3>1. n \in Nat /\ r \in Nat
      BY <1>1
    <3>2. MulDiv(n, d, e) = -x
      BY <1>6, <3>1, SignedQuotient, Zenon
    <3>3. MulDiv(r, d, e) = -w
      BY <1>6, <3>1, SignedQuotient, Zenon
    <3>4. QED
      BY <3>2, <3>3, Zenon
  <2>3. x \in Nat /\ w \in Nat /\ n * w < r * (x + 1)
    BY <1>1, <2>1, QuotientOfPart
  <2> HIDE DEF x, w
  <2>4. g >= x + y
    BY <1>3, <2>2, <2>3 DEF y
  <2>5. r * (x + y) <= r * g
    BY <1>1, <1>3, <2>3, <2>4, ProductMonotone
  <2>6. /\ r * (x + y) = r * x + r * y /\ r * (x + 1) = r * x + r /\ r * g = g * r
        /\ n * (z + w) = n * z + n * w
        /\ n * (rest + 2) = n * rest + n + n
    BY <1>1, <1>2, <1>3, <2>3
  <2>7. r * x \in Nat /\ n * w \in Nat
    BY <1>1, <2>3
  <2>8. n * (z + w) < n * (rest + 2)
    BY <1>1, <1>2, <1>3, <1>4, <2>3, <2>5, <2>6, <2>7
  <2>9. z + w < rest + 2
    BY <1>2, <1>3, <2>3, <2>8, CancelFactor
  <2>10. QED
    BY <1>2, <1>3, <2>2, <2>3, <2>9 DEF r, rest, z
<1>7. QED
  BY <1>5, <1>6

\* The quotients of two parts add up to the quotient of the whole, or to one less.
LEMMA QuotientsOfParts ==
    ASSUME NEW c \in Nat, NEW r \in Nat, NEW a \in Nat, NEW e \in Nat \ {0}
    PROVE  /\ (c * a) \div e + (r * a) \div e <= ((c + r) * a) \div e
           /\ ((c + r) * a) \div e <= (c * a) \div e + (r * a) \div e + 1
<1> DEFINE x == ((c + r) * a) \div e
           y == (c * a) \div e
           z == (r * a) \div e
<1>1. /\ c * a \in Nat /\ r * a \in Nat /\ (c + r) * a \in Nat
      /\ (c + r) * a = c * a + r * a
  OBVIOUS
<1>2. /\ x \in Nat /\ e * x <= (c + r) * a /\ (c + r) * a < e * x + e
      /\ y \in Nat /\ e * y <= c * a /\ c * a < e * y + e
      /\ z \in Nat /\ e * z <= r * a /\ r * a < e * z + e
  BY <1>1, QuotientBounds
<1> HIDE DEF x, y, z
<1>3. /\ e * (y + z) = e * y + e * z /\ e * (x + 1) = e * x + e
      /\ e * (y + z + 1 + 1) = e * y + e * z + e + e
      /\ e * x \in Nat /\ e * y \in Nat /\ e * z \in Nat
  BY <1>2
<1>4. e * (y + z) < e * (x + 1) /\ e * x < e * (y + z + 1 + 1)
  BY <1>1, <1>2, <1>3
<1>5. y + z < x + 1 /\ x < y + z + 1 + 1
  BY <1>2, <1>4, CancelFactor
<1>6. QED
  BY <1>2, <1>5 DEF x, y, z

\* The loss of a position (u for e of its size) and its margin are split by a partial
\* close in the same proportion.  When the loss on what is left eats the margin left,
\* the closed part has nothing to pay out either; when the loss on the closed part
\* exceeds its margin, what is left is worth one unit at most.
LEMMA LossOfParts ==
    ASSUME NEW n \in Nat \ {0}, NEW c \in Nat \ {0}, c < n, NEW g \in Nat,
           NEW e \in Nat \ {0}, NEW u \in Nat,
           NEW closed, closed = (g * c) \div n,
           NEW lost, lost = (c * u) \div e, NEW leftLost, leftLost = ((n - c) * u) \div e
    PROVE  /\ closed \in Nat /\ lost \in Nat /\ leftLost \in Nat /\ closed <= g
           /\ g - closed <= leftLost => closed <= lost
           /\ closed < lost => (g - closed) - leftLost <= 1
<1> DEFINE r == n - c
           rest == g - closed
<1>1. r \in Nat \ {0} /\ r < n /\ c * u \in Nat /\ r * u \in Nat
  OBVIOUS
<1>2. /\ closed \in Nat /\ rest \in Nat /\ g * r <= n * rest /\ n * rest < g * r + n
      /\ closed <= g
  <2>1. /\ closed \in Nat /\ closed <= g
        /\ g * (n - c) <= n * (g - closed) /\ n * (g - closed) < g * (n - c) + n
    BY RestOfAmount
  <2>2. g - closed \in Nat
    BY <2>1
  <2>3. QED
    BY <2>1, <2>2
<1>3. g * c \in Nat /\ n * closed <= g * c /\ g * c < n * closed + n
  BY QuotientBounds
<1>4. /\ lost \in Nat /\ e * lost <= c * u /\ c * u < e * lost + e
      /\ leftLost \in Nat /\ e * leftLost <= r * u /\ r * u < e * leftLost + e
  BY <1>1, QuotientBounds
<1> HIDE DEF r, rest
\* More than the margin lost on a part: as much lost on the whole.
<1>5. ASSUME NEW k \in Nat \ {0}, NEW m \in Nat, g * k <= n * m, e * m <= k * u
      PROVE  e * g <= n * u
  <2>1. e * (g * k) <= e * (n * m) /\ n * (e * m) <= n * (k * u)
    BY <1>5, ProductMonotone
  <2>2. e * (g * k) = k * (e * g) /\ e * (n * m) = n * (e * m) /\ n * (k * u) = k * (n * u)
    BY <1>5
  <2>3. k * (e * g) \in Nat /\ k * (n * u) \in Nat /\ n * (e * m) \in Nat
    BY <1>5
  <2>4. k * (e * g) <= k * (n * u)
    BY <2>1, <2>2, <2>3
  <2>5. ASSUME n * u < e * g PROVE FALSE
    <3>1. n * u + 1 <= e * g /\ n * u + 1 \in Nat /\ e * g \in Nat
      BY <2>5
    <3>2. k * (n * u + 1) <= k * (e * g)
      BY <1>5, <3>1, ProductMonotone
    <3>3. k * (n * u + 1) = k * (n * u) + k
      BY <1>5
    <3>4. QED
      BY <1>5, <2>3, <2>4, <3>2, <3>3
  <2>6. QED
    BY <2>5
<1>6. ASSUME rest <= leftLost PROVE closed <= lost
  <2>1. n * rest <= n * leftLost
    BY <1>2, <1>4, <1>6, ProductMonotone
  <2>2. g * r <= n * leftLost
    BY <1>1, <1>2, <1>4, <2>1
  <2>3. e * g <= n * u
    BY <1>1, <1>4, <1>5, <2>2
  <2>4. c * (e * g) <= c * (n * u) /\ e * (n * closed) <= e * (g * c)
    BY <1>2, <1>3, <2>3, ProductMonotone
  <2>5. n * (c * u) < n * (e * lost + e)
    <3>1. c * u + 1 <= e * lost + e /\ c * u + 1 \in Nat /\ e * lost + e \in Nat
      BY <1>1, <1>4
    <3>2. n * (c * u + 1) <= n * (e * lost + e)
      BY <3>1, ProductMonotone
    <3>3. n * (c * u + 1) = n * (c * u) + n /\ n * (c * u) \in Nat
      BY <1>1
    <3>4. QED
      BY <3>1, <3>2, <3>3
  <2>6. /\ c * (e * g) = e * (g * c) /\ c * (n * u) = n * (c * u)
        /\ e * (n * closed) = n * (e * closed)
        /\ n * (e * lost + e) = n * (e * (lost + 1))
    BY <1>2, <1>4
  <2>7. /\ n * (e * closed) \in Nat /\ e * (g * c) \in Nat /\ n * (c * u) \in Nat
        /\ n * (e * (lost + 1)) \in Nat
    BY <1>2, <1>4
  <2>8. n * (e * closed) < n * (e * (lost + 1))
    BY <2>4, <2>5, <2>6, <2>7
  <2>9. e * closed < e * (lost + 1)
    BY <1>2, <1>4, <2>8, CancelFactor
  <2>10. closed < lost + 1
    BY <1>2, <1>4, <2>9, CancelFactor
  <2>11. QED
    BY <1>2, <1>4, <2>10
<1>7. ASSUME closed < lost PROVE rest - leftLost <= 1
  <2>1. n * (closed + 1) <= n * lost
    BY <1>2, <1>4, <1>7, ProductMonotone
  <2>2. n * (closed + 1) = n * closed + n /\ n * closed \in Nat /\ n * lost \in Nat
    BY <1>2, <1>4
  <2>3. g * c <= n * lost
    BY <1>3, <2>1, <2>2
  <2>4. e * g <= n * u
    BY <1>4, <1>5, <2>3
  <2>5. r * (e * g) <= r * (n * u)
    BY <1>1, <2>4, ProductMonotone
  <2>6. e * (n * rest) < e * (g * r + n)
    <3>1. n * rest + 1 <= g * r + n /\ n * rest + 1 \in Nat /\ g * r + n \in Nat
      BY <1>1, <1>2
    <3>2. e * (n * rest + 1) <= e * (g * r + n)
      BY <3>1, ProductMonotone
    <3>3. e * (n * rest + 1) = e * (n * rest) + e /\ e * (n * rest) \in Nat
      BY <1>2
    <3>4. QED
      BY <3>1, <3>2, <3>3
  <2>7. n * (r * u) < n * (e * leftLost + e)
    <3>1. r * u + 1 <= e * leftLost + e /\ r * u + 1 \in Nat /\ e * leftLost + e \in Nat
      BY <1>1, <1>4
    <3>2. n * (r * u + 1) <= n * (e * leftLost + e)
      BY <3>1, ProductMonotone
    <3>3. n * (r * u + 1) = n * (r * u) + n /\ n * (r * u) \in Nat
      BY <1>1
    <3>4. QED
      BY <3>1, <3>2, <3>3
  <2>8. /\ r * (e * g) = e * (g * r) /\ r * (n * u) = n * (r * u)
        /\ e * (g * r + n) = e * (g * r) + n * e
        /\ n * (e * leftLost + e) + n * e = n * (e * (leftLost + 1 + 1))
        /\ e * (n * rest) = n * (e * rest)
    BY <1>1, <1>2, <1>4
  <2>9. /\ e * (g * r) \in Nat /\ n * (r * u) \in Nat /\ n * e \in Nat
        /\ n * (e * rest) \in Nat /\ n * (e * (leftLost + 1 + 1)) \in Nat
        /\ n * (e * leftLost + e) \in Nat
    BY <1>1, <1>2, <1>4
  <2>10. n * (e * rest) < n * (e * (leftLost + 1 + 1))
    BY <2>5, <2>6, <2>7, <2>8, <2>9
  <2>11. e * rest < e * (leftLost + 1 + 1)
    BY <1>2, <1>4, <2>10, CancelFactor
  <2>12. rest < leftLost + 1 + 1
    BY <1>2, <1>4, <2>11, CancelFactor
  <2>13. QED
    BY <1>2, <1>4, <2>12
<1>8. QED
  BY <1>2, <1>4, <1>6, <1>7 DEF r, rest

\* A partial close pays the trader, and leaves in the position, together at most one
\* unit more than the position was worth.
LEMMA PartialCloseWorth ==
    ASSUME NEW n \in Nat \ {0}, NEW c \in Nat \ {0}, c < n, NEW g \in Nat,
           NEW e \in Nat \ {0}, NEW d \in Int, NEW fee \in Nat,
           NEW closed, closed = (g * c) \div n
    PROVE  MaxOf(closed + MulDiv(c, d, e) - fee, 0)
             + MaxOf((g - closed) + MulDiv(n - c, d, e), 0)
           <= MaxOf(g + MulDiv(n, d, e), 0) + 1
<1> DEFINE r == n - c
<1>1. r \in Nat \ {0} /\ c + r = n
  OBVIOUS
<1>2. closed \in Nat /\ closed <= g
  BY RestOfAmount
<1>3. CASE d >= 0
  <2> DEFINE x == (n * d) \div e
             y == (c * d) \div e
             z == (r * d) \div e
  <2>1. MulDiv(n, d, e) = x /\ MulDiv(c, d, e) = y /\ MulDiv(r, d, e) = z
    <3>1. n \in Nat /\ c \in Nat /\ r \in Nat
      BY <1>1
    <3>2. MulDiv(n, d, e) = x
      BY <1>3, <3>1, SignedQuotient, Zenon
    <3>3. MulDiv(c, d, e) = y
      BY <1>3, <3>1, SignedQuotient, Zenon
    <3>4. MulDiv(r, d, e) = z
      BY <1>3, <3>1, SignedQuotient, Zenon
    <3>5. QED
      BY <3>2, <3>3, <3>4, Zenon
  <2>2. x \in Nat /\ y \in Nat /\ z \in Nat
    BY <1>1, <1>3, QuotientOfPart
  <2>3. y + z <= x
    BY <1>1, <1>3, QuotientsOfParts
  <2> HIDE DEF x, y, z
  <2>4. QED
    BY <1>2, <2>1, <2>2, <2>3 DEF r, MaxOf
<1>4. CASE d < 0
  <2> DEFINE x == (n * (-d)) \div e
             y == (c * (-d)) \div e
             z == (r * (-d)) \div e
  <2>1. MulDiv(n, d, e) = -x /\ MulDiv(c, d, e) = -y /\ MulDiv(r, d, e) = -z
    <3>1. n \in Nat /\ c \in Nat /\ r \in Nat
      BY <1>1
    <3>2. MulDiv(n, d, e) = -x
      BY <1>4, <3>1, SignedQuotient, Zenon
    <3>3. MulDiv(c, d, e) = -y
      BY <1>4, <3>1, SignedQuotient, Zenon
    <3>4. MulDiv(r, d, e) = -z
      BY <1>4, <3>1, SignedQuotient, Zenon
    <3>5. QED
      BY <3>2, <3>3, <3>4, Zenon
  <2>2. -d \in Nat
    BY <1>4
  <2>3. x \in Nat /\ x <= y + z + 1
    BY <1>1, <2>2, QuotientOfPart, QuotientsOfParts
  <2>4. /\ y \in Nat /\ z \in Nat
        /\ g - closed <= z => closed <= y
        /\ closed < y => (g - closed) - z <= 1
    BY <2>2, LossOfParts
  <2> HIDE DEF x, y, z
  <2>5. QED
    BY <1>2, <2>1, <2>3, <2>4 DEF r, MaxOf
<1>5. QED
  BY <1>3, <1>4

\* What a truncating division loses is less than the divisor.
LEMMA TDivError ==
    ASSUME NEW x \in Int, NEW d \in Nat \ {0}
    PROVE  /\ TDiv(x, d) \in Int
           /\ x - TDiv(x, d) * d \in Int
           /\ -d < x - TDiv(x, d) * d /\ x - TDiv(x, d) * d < d
<1>1. CASE x >= 0
  <2>1. x \in Nat
    BY <1>1
  <2>2. x \div d \in Nat /\ d * (x \div d) <= x /\ x < d * (x \div d) + d
    BY <2>1, QuotientBounds
  <2>3. TDiv(x, d) = x \div d
    BY <1>1 DEF TDiv
  <2>4. (x \div d) * d = d * (x \div d)
    BY <2>2
  <2>5. QED
    BY <2>2, <2>3, <2>4
<1>2. CASE x < 0
  <2> DEFINE q == (-x) \div d
  <2>1. -x \in Nat
    BY <1>2
  <2>2. q \in Nat /\ d * q <= -x /\ -x < d * q + d
    BY <2>1, QuotientBounds
  <2>3. TDiv(x, d) = -q
    BY <1>2 DEF TDiv
  <2>4. HIDE DEF q
  <2>5. (-q) * d = -(d * q)
    BY <2>2
  <2>6. QED
    BY <2>2, <2>3, <2>5
<1>3. QED
  BY <1>1, <1>2

\* ... also as a distance.
LEMMA TDivClose ==
    ASSUME NEW x \in Int, NEW d \in Nat \ {0}
    PROVE  AbsDiff(x, TDiv(x, d) * d) < d
<1> DEFINE y == TDiv(x, d) * d
<1>1. TDiv(x, d) \in Int /\ -d < x - y /\ x - y < d
  BY TDivError
<1>2. y \in Int
  BY <1>1
<1>3. HIDE DEF y
<1>4. QED
  BY <1>1, <1>2 DEF AbsDiff, y

\* Cutting two numbers off at zero brings them no further apart.
LEMMA CutClose ==
    ASSUME NEW x \in Int, NEW z \in Int, NEW n \in Nat, NEW bound \in Int,
           -bound <= n * (x - z), n * (x - z) <= bound
    PROVE  AbsDiff(MaxOf(x, 0), MaxOf(z, 0)) * n <= bound
<1> DEFINE g == AbsDiff(MaxOf(x, 0), MaxOf(z, 0))
           d == AbsDiff(x, z)
<1>1. g \in Nat /\ d \in Nat /\ g <= d
  BY DEF AbsDiff, MaxOf
<1>2. d * n <= bound
  <2>1. CASE x >= z
    <3>1. d = x - z
      BY <2>1 DEF AbsDiff
    <3>2. d * n = n * (x - z)
      BY <3>1
    <3>3. QED
      BY <3>2
  <2>2. CASE x < z
    <3>1. d = z - x
      BY <2>2 DEF AbsDiff
    <3>2. d * n = -(n * (x - z))
      BY <3>1
    <3>3. QED
      BY <3>2
  <2>3. QED
    BY <2>1, <2>2
<1>3. HIDE DEF g, d
<1>4. g * n <= d * n
  BY <1>1, ProductMonotone
<1>5. g * n \in Int /\ d * n \in Int
  BY <1>1
<1>6. QED
  BY <1>2, <1>4, <1>5 DEF g

\* Cutting off and scaling can be swapped.
LEMMA CutFactor ==
    ASSUME NEW v \in Int, NEW b \in Nat \ {0}
    PROVE  v * b \in Int /\ MaxOf(v, 0) * b = MaxOf(v * b, 0)
<1>1. CASE v >= 0
  <2>1. v \in Nat /\ v * b \in Nat
    BY <1>1
  <2>2. QED
    BY <2>1 DEF MaxOf
<1>2. CASE v < 0
  <2> DEFINE u == -v
  <2>1. u \in Nat /\ u * b \in Nat /\ v = -u
    BY <1>2
  <2>2. v * b = -(u * b)
    BY <2>1
  <2>3. 0 * b = 0
    OBVIOUS
  <2>4. HIDE DEF u
  <2>5. MaxOf(v, 0) = 0 /\ MaxOf(v * b, 0) = 0
    BY <1>2, <2>1, <2>2 DEF MaxOf
  <2>6. QED
    BY <2>1, <2>2, <2>3, <2>5
<1>3. QED
  BY <1>1, <1>2

\* A product with one small factor.
LEMMA SmallProduct ==
    ASSUME NEW x \in Int, NEW b \in Nat, -b <= x, x <= b, NEW y \in Nat
    PROVE  x * y \in Int /\ -(b * y) <= x * y /\ x * y <= b * y
<1>1. CASE x >= 0
  <2>1. x \in Nat /\ x * y \in Nat /\ b * y \in Nat
    BY <1>1
  <2>2. x * y <= b * y
    BY <2>1, ProductMonotone
  <2>3. QED
    BY <2>1, <2>2
<1>2. CASE x < 0
  <2> DEFINE u == -x
  <2>1. u \in Nat /\ u <= b /\ x = -u
    BY <1>2
  <2>2. HIDE DEF u
  <2>3. u * y <= b * y /\ u * y \in Nat /\ b * y \in Nat
    BY <2>1, ProductMonotone
  <2>4. x * y = -(u * y)
    BY <2>1
  <2>5. QED
    BY <2>1, <2>3, <2>4
<1>3. QED
  BY <1>1, <1>2

\* A quotient that is truncated, against an integer: the quotient of at least s
\* divisors is at least s, that of at most s - 1 of them is below s.
LEMMA TDivAgainst ==
    ASSUME NEW x \in Int, NEW d \in Nat \ {0}, NEW s \in Int
    PROVE  /\ TDiv(x, d) \in Int
           /\ x >= d * s => TDiv(x, d) >= s
           /\ x + d <= d * s => TDiv(x, d) < s
<1> DEFINE q == TDiv(x, d)
<1>1. q \in Int /\ q * d \in Int /\ -d < x - q * d /\ x - q * d < d
  BY TDivError
<1> HIDE DEF q
<1>2. q * d = d * q /\ d * s \in Int /\ d * (s - 1) = d * s - d
  BY <1>1
<1>3. ASSUME x >= d * s PROVE q >= s
  <2>1. d * (s - 1) < d * q
    BY <1>1, <1>2, <1>3
  <2>2. s - 1 < q
    BY <1>1, <2>1, CancelFactor
  <2>3. QED
    BY <1>1, <2>2
<1>4. ASSUME x + d <= d * s PROVE q < s
  <2>1. d * q < d * s
    BY <1>1, <1>2, <1>4
  <2>2. QED
    BY <1>1, <2>1, CancelFactor
<1>5. QED
  BY <1>1, <1>3, <1>4 DEF q

\* Where a profit of s is made: once the price has moved by more than the quotient
\* `away` it is, and short of it by a unit and what one unit of profit takes, it is not.
LEMMA BreakEven ==
    ASSUME NEW n \in Nat \ {0}, NEW e \in Nat \ {0}, NEW s \in Int, NEW moved \in Int,
           NEW away, away = MulDiv(e, s, n)
    PROVE  /\ away \in Int /\ MulDiv(n, moved, e) \in Int
           /\ moved > away => MulDiv(n, moved, e) >= s
           /\ (away - moved) * n >= n + e => MulDiv(n, moved, e) < s
<1> DEFINE x == n * moved
<1>1. /\ away \in Int /\ away * n \in Int
      /\ -n < e * s - away * n /\ e * s - away * n < n /\ e * s \in Int
  <2>1. e * s \in Int
    OBVIOUS
  <2>2. QED
    BY <2>1, TDivError DEF MulDiv
<1>2. x \in Int /\ (away - moved) * n = away * n - x /\ n * (away + 1) = away * n + n
  BY <1>1
<1>3. ASSUME moved > away PROVE x >= e * s
  <2>1. PICK k \in Nat : moved = (away + 1) + k
    <3>1. moved - (away + 1) \in Nat /\ moved = (away + 1) + (moved - (away + 1))
      BY <1>1, <1>3
    <3>2. QED
      BY <3>1
  <2>2. x = n * (away + 1) + n * k /\ n * k \in Nat
    BY <1>1, <2>1
  <2>3. QED
    BY <1>1, <1>2, <2>2
<1>4. ASSUME (away - moved) * n >= n + e PROVE x + e <= e * s
  BY <1>1, <1>2, <1>4
<1>5. MulDiv(n, moved, e) = TDiv(x, e)
  BY DEF MulDiv
<1> HIDE DEF x
<1>6. QED
  BY <1>1, <1>2, <1>3, <1>4, <1>5, TDivAgainst

=============================================================================
