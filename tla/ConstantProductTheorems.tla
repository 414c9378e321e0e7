---------------------- MODULE ConstantProductTheorems -----------------------
(***************************************************************************)
(* A constant-product market never pays out a whole reserve and never      *)
(* takes more than it is offered, whatever the amounts, the reserves and   *)
(* the fee; LP tokens are minted for no more than was added; and what is   *)
(* redeemed and swapped back is within the valuation at spot.              *)
(***************************************************************************)
EXTENDS ConstantProduct, ArithmeticTheorems

\* The fee is at most what comes in.
LEMMA FeeBounds ==
  ASSUME NEW x \in Nat
  PROVE  AfterFee(x) \in Nat /\ AfterFee(x) <= x
<1> DEFINE c == MulDivCeil(x, FeeNum, FeeDen)
<1>1. /\ c \in Nat /\ c * FeeDen < x * FeeNum + FeeDen
      /\ FeeNum \in Nat /\ FeeDen \in Nat \ {0} /\ FeeNum <= FeeDen
  BY CeilBounds, ConstantProductAssumption
<1> HIDE DEF c
<1>2. x * FeeNum <= x * FeeDen
  BY <1>1
<1>3. x * FeeNum \in Int /\ x * FeeDen \in Int /\ c * FeeDen \in Int
  BY <1>1
<1>4. c * FeeDen < x * FeeDen + FeeDen
  BY <1>1, <1>2, <1>3
<1>5. c <= x
  BY <1>1, <1>4, CancelFactor
<1> QED
  BY <1>1, <1>5 DEF c, AfterFee

\* A swap leaves at least one unit of what it pays out.
LEMMA SwapBounds ==
  ASSUME NEW x \in Nat, NEW rin \in Nat \ {0}, NEW rout \in Nat \ {0}
  PROVE  SwapOut(x, rin, rout) \in Nat /\ SwapOut(x, rin, rout) < rout
<1> DEFINE y == AfterFee(x)
           z == rin + y
           q == MulDivFloor(y, rout, z)
<1>1. y \in Nat
  BY FeeBounds
<1> HIDE DEF y
<1>2. z \in Nat \ {0} /\ y < z
  BY <1>1
<1> HIDE DEF z
<1>3. q \in Nat /\ q * z <= y * rout
  BY <1>1, <1>2, FloorBounds
<1> HIDE DEF q
<1>4. y * rout < rout * z
  <2>1. y + 1 <= z /\ y + 1 \in Int /\ z \in Int
    BY <1>1, <1>2
  <2>2. (y + 1) * rout <= z * rout
    BY <2>1, ScaleFactor
  <2>3. (y + 1) * rout = y * rout + rout /\ z * rout = rout * z
    BY <1>1, <1>2
  <2>4. y * rout \in Int /\ rout * z \in Int
    BY <1>1, <1>2
  <2> QED
    BY <2>2, <2>3, <2>4
<1>5. q * z \in Int /\ y * rout \in Int /\ rout * z \in Int
  BY <1>1, <1>2, <1>3
<1>6. q * z < rout * z
  BY <1>3, <1>4, <1>5
<1>7. q < rout
  BY <1>2, <1>3, <1>6, CancelFactor
<1> QED
  BY <1>3, <1>7 DEF q, z, y, SwapOut

\* A part of the LP tokens redeems a natural amount, less than the reserve.
LEMMA RedeemBounds ==
  ASSUME NEW lp \in Nat, NEW reserve \in Nat \ {0}, NEW totalLp \in Nat, lp < totalLp
  PROVE  Redeemed(lp, reserve, totalLp) \in Nat /\ Redeemed(lp, reserve, totalLp) < reserve
<1> DEFINE q == MulDivFloor(lp, reserve, totalLp)
<1>1. totalLp \in Nat \ {0} /\ q \in Nat /\ q * totalLp <= lp * reserve
  BY FloorBounds
<1> HIDE DEF q
<1>2. lp * reserve < reserve * totalLp
  <2>1. (lp + 1) * reserve <= totalLp * reserve
    BY ScaleFactor
  <2>2. (lp + 1) * reserve = lp * reserve + reserve /\ totalLp * reserve = reserve * totalLp
    OBVIOUS
  <2>3. lp * reserve \in Int /\ reserve * totalLp \in Int
    OBVIOUS
  <2> QED
    BY <2>1, <2>2, <2>3
<1>3. q * totalLp \in Int /\ lp * reserve \in Int /\ reserve * totalLp \in Int
  BY <1>1
<1>4. q * totalLp < reserve * totalLp
  BY <1>1, <1>2, <1>3
<1>5. q < reserve
  BY <1>1, <1>4, CancelFactor
<1> QED
  BY <1>1, <1>5 DEF q, Redeemed

\* A pool takes of what it is offered, never more.
LEMMA PulledBounds ==
  ASSUME NEW a \in Nat, NEW b \in Nat, NEW ra \in Nat \ {0}, NEW rb \in Nat \ {0}
  PROVE  /\ Pulled(a, b, ra, rb)[1] \in Nat /\ Pulled(a, b, ra, rb)[1] <= a
         /\ Pulled(a, b, ra, rb)[2] \in Nat /\ Pulled(a, b, ra, rb)[2] <= b
<1> DEFINE m == Matching(a, ra, rb)
           n == Matching(b, rb, ra)
<1>1. /\ m \in Nat /\ m * ra <= a * rb
      /\ n \in Nat /\ n * rb <= b * ra
  BY FloorBounds DEF Matching
<1>2. Pulled(a, b, ra, rb) = IF m <= b THEN <<a, m>> ELSE <<n, b>>
  BY DEF Pulled
<1> HIDE DEF m, n
<1>3. b < m => n <= a
  <2> SUFFICES ASSUME b < m
               PROVE  n <= a
    OBVIOUS
  <2>1. b * ra <= m * ra
    BY <1>1, ScaleFactor
  <2>2. b * ra \in Int /\ m * ra \in Int /\ n * rb \in Int /\ a * rb \in Int
    BY <1>1
  <2>3. n * rb <= a * rb
    BY <1>1, <2>1, <2>2
  <2> QED
    BY <1>1, <2>3, CancelFactor
<1>4. CASE m <= b
  BY <1>1, <1>2, <1>4
<1>5. CASE b < m
  BY <1>1, <1>2, <1>3, <1>5
<1> QED
  BY <1>1, <1>4, <1>5

\* A part of nothing is nothing, and a swap of nothing pays nothing.
LEMMA ZeroIsZero ==
  ASSUME NEW y \in Nat, NEW z \in Nat \ {0}
  PROVE  MulDivFloor(0, y, z) = 0
<1>1. MulDivFloor(0, y, z) \in Nat /\ MulDivFloor(0, y, z) * z <= 0 * y
  BY FloorBounds
<1>2. MulDivFloor(0, y, z) <= 0
  BY <1>1, CancelFactor
<1> QED
  BY <1>1, <1>2

LEMMA SwapOfNothing ==
  ASSUME NEW rin \in Nat \ {0}, NEW rout \in Nat \ {0}
  PROVE  SwapOut(0, rin, rout) = 0
<1>1. AfterFee(0) = 0
  BY FeeBounds
<1> QED
  BY <1>1, ZeroIsZero DEF SwapOut

\* Liquidity mints a natural number of LP tokens.
LEMMA LiquidityIsNatural ==
  ASSUME NEW a \in Nat, NEW b \in Nat, NEW ra \in Nat \ {0}, NEW rb \in Nat \ {0}, NEW lp \in Nat
  PROVE  Liquidity(a, b, ra, rb, lp) \in Nat
  BY FloorBounds DEF Liquidity

-----------------------------------------------------------------------------
(* Adding liquidity. *)

\* The part of a grown reserve that the minted LP tokens redeem is within what was added to it.
LEMMA PartWithinAdded ==
  ASSUME NEW m \in Nat, NEW a \in Nat, NEW ra \in Nat \ {0}, NEW lp \in Nat \ {0},
         m * ra <= a * lp
  PROVE  /\ MulDivFloor(m, ra + a, lp + m) \in Nat
         /\ MulDivFloor(m, ra + a, lp + m) <= a
<1> DEFINE q == MulDivFloor(m, ra + a, lp + m)
<1>1. ra + a \in Nat /\ lp + m \in Nat \ {0}
  OBVIOUS
<1>2. q \in Nat /\ q * (lp + m) <= m * (ra + a)
  BY <1>1, FloorBounds
<1> HIDE DEF q
<1>3. m * (ra + a) = m * ra + m * a /\ a * (lp + m) = a * lp + a * m /\ m * a = a * m
  OBVIOUS
<1>4. m * ra \in Int /\ a * lp \in Int /\ a * m \in Int /\ q * (lp + m) \in Int
  BY <1>2
<1>5. q * (lp + m) <= a * (lp + m)
  BY <1>2, <1>3, <1>4
<1>6. q <= a
  BY <1>1, <1>2, <1>5, CancelFactor
<1> QED
  BY <1>2, <1>6 DEF q

\* LP tokens minted for a and b, where b is at most what matches limit, are worth at most
\* twice the limit in the first token, at the reserves that the addition leaves.
LEMMA CreditWithinAdded ==
  ASSUME NEW a \in Nat, NEW b \in Nat, NEW ra \in Nat \ {0}, NEW rb \in Nat \ {0},
         NEW lp \in Nat \ {0}, NEW limit \in Nat, a <= limit, b * ra <= limit * rb
  PROVE  LET m == Liquidity(a, b, ra, rb, lp)
         IN  MulDivFloor(m, ra + a, lp + m)
               + MulDivFloor(MulDivFloor(m, rb + b, lp + m), ra + a, rb + b) <= 2 * limit
<1> DEFINE m   == Liquidity(a, b, ra, rb, lp)
           inA == MulDivFloor(m, ra + a, lp + m)
           inB == MulDivFloor(m, rb + b, lp + m)
           v   == MulDivFloor(inB, ra + a, rb + b)
<1>1. m \in Nat /\ m * ra <= a * lp /\ m * rb <= b * lp
  <2> DEFINE forA == MulDivFloor(a, lp, ra)
             forB == MulDivFloor(b, lp, rb)
  <2>1. /\ forA \in Nat /\ forA * ra <= a * lp
        /\ forB \in Nat /\ forB * rb <= b * lp
    BY FloorBounds
  <2>2. m = IF forA <= forB THEN forA ELSE forB
    BY DEF Liquidity
  <2> HIDE DEF m, forA, forB
  <2>3. m \in Nat /\ m <= forA /\ m <= forB
    BY <2>1, <2>2
  <2>4. m * ra <= forA * ra /\ m * rb <= forB * rb
    BY <2>1, <2>3, ScaleFactor
  <2>5. /\ m * ra \in Int /\ forA * ra \in Int /\ m * rb \in Int /\ forB * rb \in Int
        /\ a * lp \in Int /\ b * lp \in Int
    BY <2>1, <2>3
  <2> QED
    BY <2>1, <2>3, <2>4, <2>5
<1> HIDE DEF m
<1>2. inA \in Nat /\ inA <= a /\ inB \in Nat /\ inB <= b
  BY <1>1, PartWithinAdded
<1> HIDE DEF inA, inB
<1>3. ra + a \in Nat \ {0} /\ rb + b \in Nat \ {0}
  OBVIOUS
<1>4. v \in Nat /\ v * (rb + b) <= inB * (ra + a)
  BY <1>2, <1>3, FloorBounds
<1> HIDE DEF v
<1>5. v <= limit
  <2>1. inB * (ra + a) <= b * (ra + a)
    BY <1>2, <1>3, ScaleFactor
  <2>2. b * (ra + a) = b * ra + b * a /\ limit * (rb + b) = limit * rb + limit * b
    OBVIOUS
  <2>3. a * b <= limit * b /\ a * b = b * a
    BY ScaleFactor
  <2>4. /\ inB * (ra + a) \in Int /\ b * ra \in Int /\ b * a \in Int /\ limit * rb \in Int
        /\ limit * b \in Int /\ v * (rb + b) \in Int
    BY <1>2, <1>4
  <2>5. v * (rb + b) <= limit * (rb + b)
    BY <1>4, <2>1, <2>2, <2>3, <2>4
  <2> QED
    BY <1>3, <1>4, <2>5, CancelFactor
<1>6. inA + v <= 2 * limit
  BY <1>2, <1>4, <1>5
<1> QED
  BY <1>6 DEF m, inA, inB, v

-----------------------------------------------------------------------------
(* Removing liquidity. *)

\* A fee of more than nothing takes at least one unit.
LEMMA FeeIsCharged ==
  ASSUME FeeNum > 0, NEW x \in Nat \ {0}
  PROVE  AfterFee(x) <= x - 1
<1> DEFINE c == MulDivCeil(x, FeeNum, FeeDen)
<1>1. FeeNum \in Nat \ {0} /\ FeeDen \in Nat \ {0}
  BY ConstantProductAssumption
<1>2. c \in Nat /\ x * FeeNum <= c * FeeDen
  BY <1>1, CeilBounds
<1> HIDE DEF c
<1>3. x * FeeNum > 0
  BY <1>1
<1>4. c # 0
  BY <1>1, <1>2, <1>3
<1> QED
  BY <1>2, <1>4 DEF AfterFee, c

\* Burning the part n / value of what a vault has, and redeeming the part of a reserve that the
\* burnt tokens are, pays at most the part n / value of what the reserve was valued at, one
\* unit of rounding added to it.
LEMMA PartOfReserve ==
  ASSUME NEW own \in Nat, NEW n \in Nat, NEW value \in Nat \ {0}, NEW lp \in Nat,
         NEW reserve \in Nat, NEW total \in Nat \ {0}, NEW out \in Nat, NEW part \in Nat,
         lp * value <= own * n, out * total <= lp * reserve, reserve * own < part * total + total
  PROVE  out * value <= n * part + n
<1>1. (out * total) * value <= (lp * reserve) * value
  BY ScaleFactor
<1>2. (lp * value) * reserve <= (own * n) * reserve
  BY ScaleFactor
<1>3. (reserve * own) * n <= (part * total + total) * n
  BY ScaleFactor
<1>4. /\ (out * total) * value = (out * value) * total
      /\ (lp * reserve) * value = (lp * value) * reserve
      /\ (own * n) * reserve = (reserve * own) * n
      /\ (part * total + total) * n = (n * part + n) * total
  OBVIOUS
<1>5. /\ (out * value) * total \in Int /\ (lp * value) * reserve \in Int
      /\ (reserve * own) * n \in Int /\ (n * part + n) * total \in Int
  OBVIOUS
<1>6. (out * value) * total <= (n * part + n) * total
  BY <1>1, <1>2, <1>3, <1>4, <1>5
<1> QED
  BY <1>6, CancelFactor

\* Once redeemed, bo is swapped back for at most what bo - 1 is worth at the reserves that were
\* there before: the fee makes up for the rounding of what was redeemed.
LEMMA SwapBackWithinSpot ==
  ASSUME NEW A \in Nat, NEW B \in Nat, NEW ao \in Nat, NEW bo \in Nat, NEW y \in Nat, NEW w \in Nat,
         ao < A, bo < B, 1 <= bo, 1 <= w, y <= bo - 1, w < A - ao,
         w * (B - bo + y) <= y * (A - ao), bo * A < ao * B + B
  PROVE  w * B <= (bo - 1) * A
<1> DEFINE f == bo - 1
           d == A - ao
           e == B - 1
<1>1. /\ f \in Nat /\ d \in Nat /\ e \in Nat \ {0} /\ f < e /\ y <= f /\ w <= d
      /\ bo = f + 1 /\ ao = A - d /\ B = e + 1
  OBVIOUS
<1>2. w * (e - f + y) <= y * d /\ (f + 1) * A < (A - d) * B + B
  <2>1. B - bo + y = e - f + y
    BY <1>1
  <2> QED
    BY <1>1, <2>1
<1> HIDE DEF f, d, e
<1>3. w * e <= f * d
  <2>1. w * (f - y) <= d * (f - y)
    BY <1>1, ScaleFactor
  <2>2. /\ w * (e - f + y) = w * e - w * f + w * y /\ w * (f - y) = w * f - w * y
        /\ d * (f - y) = f * d - y * d
    BY <1>1
  <2>3. /\ w * e \in Int /\ w * f \in Int /\ w * y \in Int /\ f * d \in Int /\ y * d \in Int
    BY <1>1
  <2> QED
    BY <1>2, <2>1, <2>2, <2>3
<1>4. d * B <= A * e - f * A + B - 1
  <2>1. (f + 1) * A = f * A + A /\ (A - d) * B = A * B - d * B /\ A * B = A * e + A
    BY <1>1
  <2>2. f * A \in Int /\ A * B \in Int /\ d * B \in Int /\ A * e \in Int
    BY <1>1
  <2> QED
    BY <1>2, <2>1, <2>2
<1>5. (w * B) * e <= (f * A) * e + f * (B - f * A) - f
  <2>1. (w * e) * B <= (f * d) * B
    BY <1>1, <1>3, ScaleFactor
  <2>2. (d * B) * f <= (A * e - f * A + B - 1) * f
    <3>1. d * B \in Int /\ A * e - f * A + B - 1 \in Int /\ d * B <= A * e - f * A + B - 1
      BY <1>1, <1>4
    <3> QED
      BY <1>1, <3>1, ScaleFactor
  <2>3. /\ (w * e) * B = (w * B) * e /\ (f * d) * B = (d * B) * f
        /\ (A * e - f * A + B - 1) * f = (f * A) * e + f * (B - f * A) - f
    BY <1>1
  <2>4. (w * B) * e \in Int /\ (d * B) * f \in Int /\ (f * A) * e + f * (B - f * A) - f \in Int
    BY <1>1
  <2> QED
    BY <2>1, <2>2, <2>3, <2>4
<1> DEFINE worth == f * A
           paid  == w * B
<1>6. worth \in Nat /\ paid \in Nat /\ paid * e <= worth * e + f * (B - worth) - f
  BY <1>1, <1>5
<1>7. paid >= B
  <2>1. 1 * B <= w * B
    BY ScaleFactor
  <2> QED
    BY <2>1
<1> HIDE DEF worth, paid
<1>8. CASE worth >= B
  <2>1. f * (B - worth) <= 0
    <3>1. (B - worth) * f <= 0 * f
      BY <1>1, <1>6, <1>8, ScaleFactor
    <3>2. (B - worth) * f = f * (B - worth) /\ 0 * f = 0
      BY <1>1, <1>6
    <3> QED
      BY <3>1, <3>2
  <2>2. paid * e \in Int /\ worth * e \in Int /\ f * (B - worth) \in Int
    BY <1>1, <1>6
  <2>3. paid * e <= worth * e
    BY <1>1, <1>6, <2>1, <2>2
  <2> QED
    BY <1>1, <1>6, <2>3, CancelFactor DEF worth, paid, f
<1>9. ASSUME worth < B
      PROVE  FALSE
  <2>1. f * (B - worth) <= e * (B - worth)
    BY <1>1, <1>6, <1>9, ScaleFactor
  <2>2. e * (B - worth) = B * e - worth * e
    BY <1>1, <1>6
  <2>3. /\ paid * e \in Int /\ worth * e \in Int /\ f * (B - worth) \in Int
        /\ e * (B - worth) \in Int /\ B * e \in Int
    BY <1>1, <1>6
  <2>4. paid * e <= B * e - f
    BY <1>1, <1>6, <2>1, <2>2, <2>3
  <2>5. B * e <= paid * e
    BY <1>1, <1>6, <1>7, ScaleFactor
  <2>6. f = 0
    BY <1>1, <2>3, <2>4, <2>5
  <2>7. w * e <= 0
    BY <1>1, <1>3, <2>6
  <2> QED
    BY <1>1, <2>7
<1> QED
  BY <1>6, <1>8, <1>9

\* A vault owns some of the total LP tokens and values them at spot, each division rounding
\* down; it asks for n, less than that value, and burns the same part of its tokens.  What they
\* redeem, the second token swapped back, is at most one unit more than n.
LEMMA WithdrawalWithinRequest ==
  ASSUME FeeNum > 0,
         NEW A \in Nat \ {0}, NEW B \in Nat \ {0}, NEW total \in Nat, NEW own \in Nat,
         own < total, NEW n \in Nat,
         n < MulDivFloor(A, own, total) + MulDivFloor(MulDivFloor(B, own, total), A, B)
  PROVE  LET value == MulDivFloor(A, own, total) + MulDivFloor(MulDivFloor(B, own, total), A, B)
             lp    == MulDivFloor(own, n, value)
             ao    == Redeemed(lp, A, total)
             bo    == Redeemed(lp, B, total)
         IN  ao + (IF bo = 0 THEN 0 ELSE SwapOut(bo, B - bo, A - ao)) <= n + 1
<1> DEFINE p     == MulDivFloor(A, own, total)
           q     == MulDivFloor(B, own, total)
           s     == MulDivFloor(q, A, B)
           value == p + s
           lp    == MulDivFloor(own, n, value)
           ao    == Redeemed(lp, A, total)
           bo    == Redeemed(lp, B, total)
           w     == IF bo = 0 THEN 0 ELSE SwapOut(bo, B - bo, A - ao)
<1>1. total \in Nat \ {0}
  OBVIOUS
<1>2. /\ p \in Nat /\ A * own < p * total + total
      /\ q \in Nat /\ B * own < q * total + total
  BY <1>1, FloorBounds
<1>3. s \in Nat /\ q * A < s * B + B
  <2> HIDE DEF q
  <2> QED
    BY <1>2, FloorBounds
<1>4. value \in Nat \ {0} /\ value = p + s /\ n < value
  BY <1>2, <1>3
<1> HIDE DEF p, q, s, value
<1>5. lp \in Nat /\ lp * value <= own * n /\ lp < total
  <2>1. lp \in Nat /\ lp * value <= own * n
    BY <1>4, FloorBounds
  <2> HIDE DEF lp
  <2>2. n * own <= value * own
    BY <1>4, ScaleFactor
  <2>3. n * own = own * n /\ value * own = own * value
    BY <1>4
  <2>4. lp * value \in Int /\ own * n \in Int /\ own * value \in Int
    BY <1>4, <2>1
  <2>5. lp * value <= own * value
    BY <2>1, <2>2, <2>3, <2>4
  <2>6. lp <= own
    BY <1>4, <2>1, <2>5, CancelFactor
  <2> QED
    BY <2>1, <2>6
<1> HIDE DEF lp
<1>6. /\ ao \in Nat /\ ao < A /\ ao * total <= lp * A /\ lp * A < ao * total + total
      /\ bo \in Nat /\ bo < B /\ bo * total <= lp * B
  BY <1>1, <1>5, FloorBounds, RedeemBounds DEF Redeemed
<1> HIDE DEF ao, bo
<1>7. ao * value <= n * p + n
  BY <1>1, <1>2, <1>4, <1>5, <1>6, PartOfReserve
<1>8. bo * value <= n * q + n
  BY <1>1, <1>2, <1>4, <1>5, <1>6, PartOfReserve
<1>9. w \in Nat /\ w * value <= n * s + n
  <2>1. CASE bo = 0
    <3>1. w = 0 /\ 0 * value = 0 /\ n * s \in Nat
      BY <1>3, <1>4, <2>1
    <3> QED
      BY <3>1
  <2>2. CASE bo # 0
    <3> DEFINE y == AfterFee(bo)
               z == B - bo + y
    <3>1. w = MulDivFloor(y, A - ao, z)
      BY <2>2 DEF SwapOut
    <3>2. y \in Nat /\ y <= bo - 1
      BY <1>6, <2>2, FeeBounds, FeeIsCharged
    <3>3. w \in Nat /\ w < A - ao
      <4>1. B - bo \in Nat \ {0} /\ A - ao \in Nat \ {0}
        BY <1>6
      <4> QED
        BY <1>6, <2>2, <4>1, SwapBounds
    <3> HIDE DEF y
    <3>4. w * z <= y * (A - ao)
      <4>1. z \in Nat \ {0} /\ A - ao \in Nat
        BY <1>6, <3>2
      <4> HIDE DEF z, w
      <4> QED
        BY <3>1, <3>2, <4>1, FloorBounds
    <3> HIDE DEF w
    <3>5. CASE w = 0
      <4>1. 0 * value = 0 /\ n * s \in Nat
        BY <1>3, <1>4
      <4> QED
        BY <3>5, <4>1
    <3>6. CASE w # 0
      <4>1. bo * A < ao * B + B
        <5>1. (bo * total) * A <= (lp * B) * A
          BY <1>5, <1>6, ScaleFactor
        <5>2. (lp * A + 1) * B <= (ao * total + total) * B
          BY <1>5, <1>6, ScaleFactor
        <5>3. /\ (bo * total) * A = (bo * A) * total /\ (lp * B) * A = (lp * A) * B
              /\ (lp * A + 1) * B = (lp * A) * B + B
              /\ (ao * total + total) * B = (ao * B + B) * total
          BY <1>5, <1>6
        <5>4. /\ (bo * A) * total \in Int /\ (lp * A) * B \in Int
              /\ (ao * B + B) * total \in Int
          BY <1>5, <1>6
        <5>5. (bo * A) * total < (ao * B + B) * total
          BY <5>1, <5>2, <5>3, <5>4
        <5> QED
          BY <1>1, <1>6, <5>5, CancelFactor
      <4>2. w * B <= (bo - 1) * A
        BY <1>6, <2>2, <3>2, <3>3, <3>4, <3>6, <4>1, SwapBackWithinSpot
      <4>3. (bo - 1) * value <= n * q
        <5>1. (bo - 1) * value = bo * value - value
          BY <1>4, <1>6
        <5>2. bo * value \in Int /\ n * q \in Int
          BY <1>2, <1>4, <1>6
        <5> QED
          BY <1>4, <1>8, <5>1, <5>2
      <4>4. (w * B) * value <= ((bo - 1) * A) * value
        BY <1>4, <1>6, <3>3, <4>2, ScaleFactor
      <4>5. ((bo - 1) * value) * A <= (n * q) * A
        BY <1>2, <1>4, <1>6, <4>3, ScaleFactor
      <4>6. (q * A) * n <= (s * B + B) * n
        BY <1>2, <1>3, ScaleFactor
      <4>7. /\ (w * B) * value = (w * value) * B
            /\ ((bo - 1) * A) * value = ((bo - 1) * value) * A
            /\ (n * q) * A = (q * A) * n
            /\ (s * B + B) * n = (n * s + n) * B
        BY <1>2, <1>3, <1>4, <1>6, <3>3
      <4>8. /\ (w * value) * B \in Int /\ ((bo - 1) * value) * A \in Int
            /\ (q * A) * n \in Int /\ (n * s + n) * B \in Int
        BY <1>2, <1>3, <1>4, <1>6, <3>3
      <4>9. (w * value) * B <= (n * s + n) * B
        BY <4>4, <4>5, <4>6, <4>7, <4>8
      <4>10. w * value \in Int /\ n * s + n \in Int
        BY <1>3, <1>4, <3>3
      <4> QED
        BY <3>3, <4>9, <4>10, CancelFactor
    <3> QED
      BY <3>3, <3>5, <3>6
  <2> QED
    BY <2>1, <2>2
<1> HIDE DEF w
<1>10. ao + w <= n + 1
  <2>1. (ao + w) * value = ao * value + w * value /\ n * value = n * p + n * s
    BY <1>2, <1>3, <1>4, <1>6, <1>9
  <2>2. (n + 1) * value + value = n * value + value + value
    BY <1>4
  <2>3. /\ ao * value \in Int /\ w * value \in Int /\ n * p \in Int /\ n * s \in Int
        /\ n * value \in Int /\ (ao + w) * value \in Int /\ (n + 1) * value \in Int
    BY <1>2, <1>3, <1>4, <1>6, <1>9
  <2>4. (ao + w) * value < (n + 1) * value + value
    BY <1>4, <1>7, <1>9, <2>1, <2>2, <2>3
  <2> QED
    BY <1>4, <1>6, <1>9, <2>4, CancelFactor
<1> QED
  BY <1>10 DEF w, bo, ao, lp, value, s, q, p

-----------------------------------------------------------------------------
(* What a withdrawal pays at least. *)

\* What lp of the total LP tokens redeem of the second token.
SecondOf(lp, B, total) == Redeemed(lp, B, total)

\* What they pay in the first token: the part of its reserve, and the second swapped back.
PaidFor(lp, A, B, total) ==
  Redeemed(lp, A, total)
    + (IF SecondOf(lp, B, total) = 0 THEN 0
       ELSE SwapOut(SecondOf(lp, B, total), B - SecondOf(lp, B, total), A - Redeemed(lp, A, total)))

\* What swapping back costs at the price of before: fee and rounding, and the price impact.
CostOf(lp, A, B, total) ==
  MulDivCeil(SecondOf(lp, B, total) - AfterFee(SecondOf(lp, B, total)) + 1, A, B)
    + MulDivCeil(SecondOf(lp, B, total), Redeemed(lp, A, total), B)

\* Swapping bo back, when ao has been taken out of the other reserve, returns all that bo and a
\* unit are worth at the price of before, but for the fee and the impact.
LEMMA SwapBackReturns ==
  ASSUME NEW A \in Nat \ {0}, NEW B \in Nat \ {0}, NEW ao \in Nat, NEW bo \in Nat, ao < A, bo < B
  PROVE  LET back == IF bo = 0 THEN 0 ELSE SwapOut(bo, B - bo, A - ao)
             fee  == MulDivCeil(bo - AfterFee(bo) + 1, A, B)
             impact == MulDivCeil(bo, ao, B)
         IN  /\ back \in Nat /\ fee \in Nat /\ impact \in Nat
             /\ (bo + 1) * A < (back + fee + impact + 1) * B
<1> DEFINE y      == AfterFee(bo)
           z      == B - bo + y
           d      == A - ao
           back   == IF bo = 0 THEN 0 ELSE SwapOut(bo, B - bo, d)
           fee    == MulDivCeil(bo - y + 1, A, B)
           impact == MulDivCeil(bo, ao, B)
<1>1. y \in Nat /\ y <= bo
  BY FeeBounds
<1>2. back = (IF bo = 0 THEN 0 ELSE MulDivFloor(y, d, z))
  BY DEF SwapOut
<1> HIDE DEF y
<1>3. fee \in Nat /\ (bo - y + 1) * A <= fee * B
  <2>1. bo - y + 1 \in Nat
    BY <1>1
  <2> QED
    BY <2>1, CeilBounds
<1>4. impact \in Nat /\ bo * ao <= impact * B
  BY CeilBounds
<1> HIDE DEF fee, impact, back
<1>5. z \in Nat \ {0} /\ d \in Nat /\ z <= B
  BY <1>1
<1> HIDE DEF z
<1>6. back \in Nat /\ y * d < back * B + B
  <2>1. CASE bo = 0
    <3>1. y = 0 /\ back = 0 /\ y * d = 0 /\ back * B = 0
      BY <1>1, <1>2, <1>5, <2>1
    <3> QED
      BY <3>1
  <2>2. CASE bo # 0
    <3> HIDE DEF d
    <3>1. back \in Nat /\ y * d < back * z + z
      BY <1>1, <1>2, <1>5, <2>2, FloorBounds
    <3>2. z * (back + 1) <= B * (back + 1)
      BY <1>5, <3>1, ScaleFactor
    <3>3. z * (back + 1) = back * z + z /\ B * (back + 1) = back * B + B
      BY <1>5, <3>1
    <3>4. y * d \in Int /\ back * z \in Int /\ back * B \in Int
      BY <1>1, <1>5, <3>1
    <3> QED
      BY <1>5, <3>1, <3>2, <3>3, <3>4
  <2> QED
    BY <2>1, <2>2
<1>7. y * ao <= bo * ao
  BY <1>1, ScaleFactor
<1>8. /\ (bo + 1) * A = y * d + y * ao + (bo - y + 1) * A
      /\ (back + fee + impact + 1) * B = back * B + fee * B + impact * B + B
  BY <1>1, <1>3, <1>4, <1>6
<1>9. /\ y * d \in Int /\ y * ao \in Int /\ bo * ao \in Int /\ (bo - y + 1) * A \in Int
      /\ back * B \in Int /\ fee * B \in Int /\ impact * B \in Int
  BY <1>1, <1>3, <1>4, <1>5, <1>6
<1>10. (bo + 1) * A < (back + fee + impact + 1) * B
  BY <1>3, <1>4, <1>6, <1>7, <1>8, <1>9
<1> QED
  BY <1>3, <1>4, <1>6, <1>10 DEF back, fee, impact, y

\* LP tokens redeem and swap back their part of twice the first reserve, but for two units and
\* the cost of the swap.
LEMMA RedemptionReturns ==
  ASSUME NEW A \in Nat \ {0}, NEW B \in Nat \ {0}, NEW total \in Nat, NEW lp \in Nat, lp < total
  PROVE  /\ PaidFor(lp, A, B, total) \in Nat /\ CostOf(lp, A, B, total) \in Nat
         /\ 2 * (lp * A) < (PaidFor(lp, A, B, total) + CostOf(lp, A, B, total) + 2) * total
<1> DEFINE ao   == Redeemed(lp, A, total)
           bo   == SecondOf(lp, B, total)
           back == IF bo = 0 THEN 0 ELSE SwapOut(bo, B - bo, A - ao)
           fee  == MulDivCeil(bo - AfterFee(bo) + 1, A, B)
           impact == MulDivCeil(bo, ao, B)
           w    == back + fee + impact + 1
           all  == PaidFor(lp, A, B, total) + CostOf(lp, A, B, total) + 2
<1>1. total \in Nat \ {0}
  OBVIOUS
<1>2. /\ ao \in Nat /\ ao < A /\ lp * A < ao * total + total
      /\ bo \in Nat /\ bo < B /\ lp * B < bo * total + total
  BY <1>1, FloorBounds, RedeemBounds DEF Redeemed, SecondOf
<1>3. PaidFor(lp, A, B, total) = ao + back /\ CostOf(lp, A, B, total) = fee + impact
  BY DEF PaidFor, CostOf
<1> HIDE DEF ao, bo
<1>4. /\ back \in Nat /\ fee \in Nat /\ impact \in Nat
      /\ (bo + 1) * A < w * B
  BY <1>2, SwapBackReturns
<1> HIDE DEF back, fee, impact
<1>5. w \in Nat /\ all = ao + w + 1
  BY <1>2, <1>3, <1>4
<1> HIDE DEF w, all
<1>6. lp * A < w * total
  <2>1. (lp * B) * A <= (bo * total + total) * A
    BY <1>1, <1>2, ScaleFactor
  <2>2. ((bo + 1) * A + 1) * total <= (w * B) * total
    <3>1. (bo + 1) * A + 1 <= w * B /\ (bo + 1) * A + 1 \in Int /\ w * B \in Int
      BY <1>2, <1>4, <1>5
    <3> QED
      BY <1>1, <3>1, ScaleFactor
  <2>3. /\ (lp * B) * A = (lp * A) * B
        /\ ((bo + 1) * A + 1) * total = (bo * total + total) * A + total
        /\ (w * B) * total = (w * total) * B
    BY <1>1, <1>2, <1>5
  <2>4. (lp * A) * B \in Int /\ (bo * total + total) * A \in Int /\ (w * total) * B \in Int
    BY <1>1, <1>2, <1>5
  <2>5. (lp * A) * B < (w * total) * B
    BY <1>1, <2>1, <2>2, <2>3, <2>4
  <2>6. lp * A \in Int /\ w * total \in Int
    BY <1>1, <1>5
  <2> QED
    BY <2>5, <2>6, CancelFactor
<1>7. all * total = ao * total + w * total + total
  BY <1>1, <1>2, <1>5
<1>8. lp * A \in Int /\ ao * total \in Int /\ w * total \in Int
  BY <1>1, <1>2, <1>5
<1>9. 2 * (lp * A) < all * total
  BY <1>1, <1>2, <1>6, <1>7, <1>8
<1> QED
  BY <1>2, <1>3, <1>4, <1>9 DEF all

\* LP tokens valued at no more than their part of twice the first reserve pay that value, but for
\* a unit and the cost of the swap.
LEMMA WholeIsPaid ==
  ASSUME NEW A \in Nat \ {0}, NEW B \in Nat \ {0}, NEW total \in Nat, NEW own \in Nat, own < total,
         NEW value \in Nat, value * total <= 2 * (own * A)
  PROVE  value <= PaidFor(own, A, B, total) + CostOf(own, A, B, total) + 1
<1> DEFINE paid == PaidFor(own, A, B, total)
           cost == CostOf(own, A, B, total)
           all  == paid + cost + 2
<1>1. paid \in Nat /\ cost \in Nat /\ 2 * (own * A) < (paid + cost + 2) * total
  BY RedemptionReturns
<1> HIDE DEF paid, cost
<1>2. all \in Nat /\ 2 * (own * A) < all * total /\ paid + cost + 1 = all - 1
  BY <1>1
<1> HIDE DEF all
<1>3. value * total \in Int /\ own * A \in Int /\ all * total \in Int /\ total \in Nat \ {0}
  BY <1>2
<1>4. value * total < all * total
  BY <1>2, <1>3
<1>5. value < all
  BY <1>2, <1>3, <1>4, CancelFactor
<1>6. value <= paid + cost + 1
  BY <1>2, <1>5
<1> QED
  BY <1>6 DEF paid, cost

\* The part of them that n is of that value pays n, but for the cost of the swap, the worth of one
\* LP token, and a unit.
LEMMA PartPays ==
  ASSUME NEW A \in Nat \ {0}, NEW B \in Nat \ {0}, NEW total \in Nat, NEW own \in Nat \ {0},
         own < total, NEW value \in Nat \ {0}, value * total <= 2 * (own * A),
         NEW n \in Nat, NEW lp \in Nat, lp < total, own * n < lp * value + value
  PROVE  n <= PaidFor(lp, A, B, total) + CostOf(lp, A, B, total) + MulDivCeil(2, A, total) + 1
<1> DEFINE paid == PaidFor(lp, A, B, total)
           cost == CostOf(lp, A, B, total)
           one  == MulDivCeil(2, A, total)
           all  == paid + cost + 2
<1>1. total \in Nat \ {0}
  OBVIOUS
<1>2. paid \in Nat /\ cost \in Nat /\ 2 * (lp * A) < all * total
  BY RedemptionReturns
<1>3. one \in Nat /\ 2 * A <= one * total
  BY <1>1, CeilBounds
<1> HIDE DEF paid, cost, one
<1> all \in Nat /\ paid + cost + one + 1 = all + one - 1
  BY <1>2, <1>3
<1> HIDE DEF all
<1>4. n * total < 2 * (lp * A) + 2 * A
  <2>1. (own * n + 1) * total <= (lp * value + value) * total
    <3>1. own * n + 1 <= lp * value + value /\ own * n + 1 \in Int /\ lp * value + value \in Int
      OBVIOUS
    <3> QED
      BY <3>1, ScaleFactor
  <2>2. (value * total) * (lp + 1) <= (2 * (own * A)) * (lp + 1)
    <3>1. value * total \in Int /\ 2 * (own * A) \in Int
      OBVIOUS
    <3> QED
      BY <3>1, ScaleFactor
  <2>3. /\ (own * n + 1) * total = (n * total) * own + total
        /\ (lp * value + value) * total = (value * total) * (lp + 1)
        /\ (2 * (own * A)) * (lp + 1) = (2 * (lp * A) + 2 * A) * own
    OBVIOUS
  <2>4. /\ (n * total) * own \in Int /\ (2 * (lp * A) + 2 * A) * own \in Int
        /\ (value * total) * (lp + 1) \in Int
    OBVIOUS
  <2>5. (n * total) * own < (2 * (lp * A) + 2 * A) * own
    BY <1>1, <2>1, <2>2, <2>3, <2>4
  <2>6. n * total \in Int /\ 2 * (lp * A) + 2 * A \in Int
    OBVIOUS
  <2> QED
    BY <2>5, <2>6, CancelFactor
<1>5. (all + one) * total = all * total + one * total
  BY <1>1, <1>2, <1>3
<1>6. n * total \in Int /\ all * total \in Int /\ one * total \in Int /\ lp * A \in Int
  BY <1>1, <1>2, <1>3
<1>7. n * total < (all + one) * total
  BY <1>2, <1>3, <1>4, <1>5, <1>6
<1>8. n < all + one
  BY <1>1, <1>2, <1>3, <1>7, CancelFactor
<1>9. n <= paid + cost + one + 1
  BY <1>3, <1>8
<1> QED
  BY <1>9 DEF paid, cost, one

-----------------------------------------------------------------------------
(* Valuing LP tokens. *)

\* LP tokens are valued at no more than their part of twice the first reserve.
LEMMA ValuationWithinPart ==
  ASSUME NEW A \in Nat \ {0}, NEW B \in Nat \ {0}, NEW total \in Nat \ {0}, NEW own \in Nat,
         NEW value \in Nat,
         value <= MulDivFloor(A, own, total) + MulDivFloor(MulDivFloor(B, own, total), A, B)
  PROVE  value * total <= 2 * (own * A)
<1> DEFINE p == MulDivFloor(A, own, total)
           q == MulDivFloor(B, own, total)
           s == MulDivFloor(q, A, B)
<1>1. p \in Nat /\ p * total <= A * own /\ q \in Nat /\ q * total <= B * own
  BY FloorBounds
<1>2. value <= p + s
  OBVIOUS
<1> HIDE DEF p, q
<1>3. s \in Nat /\ s * B <= q * A
  BY <1>1, FloorBounds
<1> HIDE DEF s
<1>4. s * total <= own * A
  <2>1. (s * B) * total <= (q * A) * total /\ (q * total) * A <= (B * own) * A
    <3>1. /\ s * B \in Int /\ q * A \in Int /\ q * total \in Int /\ B * own \in Int
          /\ total \in Nat /\ A \in Nat
      BY <1>1, <1>3
    <3> QED
      BY <1>1, <1>3, <3>1, ScaleFactor
  <2>2. /\ (s * B) * total = (s * total) * B /\ (q * A) * total = (q * total) * A
        /\ (B * own) * A = (own * A) * B
    BY <1>1, <1>3
  <2>3. (s * total) * B \in Int /\ (q * total) * A \in Int /\ (own * A) * B \in Int
    BY <1>1, <1>3
  <2>4. (s * total) * B <= (own * A) * B
    BY <2>1, <2>2, <2>3
  <2>5. s * total \in Int /\ own * A \in Int
    BY <1>3
  <2> QED
    BY <2>4, <2>5, CancelFactor
<1>5. value * total <= (p + s) * total
  BY <1>1, <1>2, <1>3, ScaleFactor
<1>6. (p + s) * total = p * total + s * total /\ A * own = own * A
  BY <1>1, <1>3
<1>7. value * total \in Int /\ p * total \in Int /\ s * total \in Int /\ own * A \in Int
  BY <1>1, <1>3
<1> QED
  BY <1>1, <1>4, <1>5, <1>6, <1>7

\* The valuations of parts of the LP tokens add up to no more than the valuation of all of them.
LEMMA ValuationsAddUp ==
  ASSUME NEW S, IsFiniteSet(S), NEW own \in [S -> Nat], NEW bal \in [S -> Nat],
         NEW A \in Nat \ {0}, NEW B \in Nat \ {0}, NEW total \in Nat \ {0},
         \A v \in S : bal[v] <= MulDivFloor(A, own[v], total)
                                  + MulDivFloor(MulDivFloor(B, own[v], total), A, B)
  PROVE  SumFunction(bal) <= MulDivFloor(A, SumFunction(own), total)
                               + MulDivFloor(MulDivFloor(B, SumFunction(own), total), A, B)
<1> DEFINE inA == [v \in S |-> MulDivFloor(A, own[v], total)]
           inB == [v \in S |-> MulDivFloor(B, own[v], total)]
           val == [v \in S |-> MulDivFloor(inB[v], A, B)]
           all == SumFunction(own)
           sA  == SumFunction(inA)
           sB  == SumFunction(inB)
           sV  == SumFunction(val)
           p   == MulDivFloor(A, all, total)
           q   == MulDivFloor(B, all, total)
           s   == MulDivFloor(q, A, B)
<1>1. /\ inA \in [S -> Nat] /\ \A v \in S : inA[v] * total <= own[v] * A
      /\ inB \in [S -> Nat] /\ \A v \in S : inB[v] * total <= own[v] * B
  <2>1. ASSUME NEW v \in S
        PROVE  /\ MulDivFloor(A, own[v], total) \in Nat
               /\ MulDivFloor(A, own[v], total) * total <= own[v] * A
               /\ MulDivFloor(B, own[v], total) \in Nat
               /\ MulDivFloor(B, own[v], total) * total <= own[v] * B
    <3>1. own[v] \in Nat /\ A * own[v] = own[v] * A /\ B * own[v] = own[v] * B
      OBVIOUS
    <3> QED
      BY <3>1, FloorBounds
  <2> QED
    BY <2>1
<1>2. \A v \in S : bal[v] <= inA[v] + val[v]
  OBVIOUS
<1>3. val \in [S -> Nat] /\ \A v \in S : val[v] * B <= inB[v] * A
  <2> HIDE DEF inB
  <2>1. ASSUME NEW v \in S
        PROVE  /\ MulDivFloor(inB[v], A, B) \in Nat
               /\ MulDivFloor(inB[v], A, B) * B <= inB[v] * A
    <3>1. inB[v] \in Nat
      BY <1>1
    <3> QED
      BY <3>1, FloorBounds
  <2> QED
    BY <2>1
<1> HIDE DEF inA, inB, val
<1>4. all \in Nat /\ sA \in Nat /\ sB \in Nat /\ sV \in Nat
  BY <1>1, <1>3, NaturalSum
<1>5. sA * total <= all * A /\ sB * total <= all * B /\ sV * B <= sB * A
  BY <1>1, <1>3, SumScales
<1>6. SumFunction(bal) <= sA + sV
  <2> DEFINE both == [v \in S |-> inA[v] + val[v]]
  <2>1. both \in [S -> Nat] /\ \A v \in S : bal[v] * 1 <= both[v] * 1
    BY <1>1, <1>2, <1>3
  <2>2. SumFunction(both) = sA + sV
    BY <1>1, <1>3, SumAdds
  <2> HIDE DEF both
  <2>3. SumFunction(bal) * 1 <= SumFunction(both) * 1
    BY <2>1, SumScales
  <2>4. SumFunction(bal) \in Nat /\ SumFunction(both) \in Nat
    BY <2>1, NaturalSum
  <2> QED
    BY <2>2, <2>3, <2>4
<1> HIDE DEF all, sA, sB, sV
<1>7. sA <= p /\ sB <= q /\ p \in Nat /\ q \in Nat
  <2>1. p \in Nat /\ q \in Nat
    BY <1>4, FloorBounds
  <2>2. sA * total <= A * all /\ sB * total <= B * all
    BY <1>4, <1>5
  <2>3. sA <= p
    BY <1>4, <2>2, FloorIsLargest
  <2>4. sB <= q
    BY <1>4, <2>2, FloorIsLargest
  <2> QED
    BY <2>1, <2>3, <2>4
<1> HIDE DEF p, q
<1>8. sV <= s /\ s \in Nat
  <2>1. sB * A <= q * A
    BY <1>4, <1>7, ScaleFactor
  <2>2. sV * B \in Int /\ sB * A \in Int /\ q * A \in Int
    BY <1>4, <1>7
  <2>3. sV * B <= q * A
    BY <1>5, <2>1, <2>2
  <2>4. s \in Nat
    BY <1>7, FloorBounds
  <2>5. sV <= s
    BY <1>4, <1>7, <2>3, FloorIsLargest
  <2> QED
    BY <2>4, <2>5
<1> HIDE DEF s
<1>9. SumFunction(bal) <= p + s
  <2>1. SumFunction(bal) \in Nat
    BY NaturalSum
  <2> QED
    BY <1>4, <1>6, <1>7, <1>8, <2>1
<1> QED
  BY <1>9 DEF p, s, q, all
=============================================================================
