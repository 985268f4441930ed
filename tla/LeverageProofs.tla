---------------------------- MODULE LeverageProofs ---------------------------
(***************************************************************************)
(* Facts about the operators of LeverageMath, for every width and value,   *)
(* which the proofs about the crank and about its searchers rest on.       *)
(***************************************************************************)
EXTENDS LeverageMath, FiniteSetTheorems, TLAPS

-----------------------------------------------------------------------------
(* Arithmetic. *)

(* a \div d is the largest multiple of d in a. *)
LEMMA DivIsFloor ==
    ASSUME NEW a \in Nat, NEW d \in Nat \ {0}
    PROVE  /\ a \div d \in Nat
           /\ (a \div d) * d <= a
           /\ a < (a \div d) * d + d
  BY SMT

(* Multiplying by a natural number keeps the order. *)
LEMMA MulKeepsOrder ==
    ASSUME NEW a \in Nat, NEW b \in Nat, NEW c \in Nat, a <= b
    PROVE  a * c <= b * c
  BY SMT

(* A common factor cancels from an inequality. *)
LEMMA MulCancels ==
    ASSUME NEW a \in Nat, NEW b \in Nat, NEW c \in Nat
    PROVE  a * c < b * c => a < b
  BY SMT

(* Division is monotone in what is divided. *)
LEMMA DivKeepsOrder ==
    ASSUME NEW a \in Nat, NEW b \in Nat, NEW d \in Nat \ {0}, a <= b
    PROVE  a \div d <= b \div d
  <1>1. /\ a \div d \in Nat /\ (a \div d) * d <= a
        /\ b \div d \in Nat /\ b < (b \div d) * d + d
    BY DivIsFloor
  <1> DEFINE p == a \div d
             q == b \div d
  <1>2. p \in Nat /\ q \in Nat /\ p * d <= a /\ b < q * d + d
    BY <1>1
  <1> HIDE DEF p, q
  <1>3. p * d < (q + 1) * d
    BY <1>2, SMT
  <1>4. p < q + 1
    BY <1>2, <1>3, MulCancels, SMT
  <1>5. p <= q
    BY <1>2, <1>4, SMT
  <1> QED BY <1>5 DEF p, q

(* Division by more gives no more. *)
LEMMA DivByMore ==
    ASSUME NEW a \in Nat, NEW d \in Nat \ {0}, NEW e \in Nat \ {0}, d <= e
    PROVE  a \div e <= a \div d
  <1> DEFINE p == a \div e
             q == a \div d
  <1>1. p \in Nat /\ p * e <= a /\ q \in Nat /\ a < q * d + d
    BY DivIsFloor
  <1> HIDE DEF p, q
  <1>2. p * d <= p * e
    <2>1. d * p <= e * p
      BY <1>1, MulKeepsOrder
    <2> QED BY <1>1, <2>1, SMT
  <1>3. p * d \in Nat /\ p * e \in Nat /\ q * d \in Nat
    BY <1>1, SMT
  <1>4. p * d < (q + 1) * d
    BY <1>1, <1>2, <1>3, SMT
  <1>5. p < q + 1
    BY <1>1, <1>4, MulCancels, SMT
  <1>6. p <= q
    BY <1>1, <1>5, SMT
  <1> QED BY <1>6 DEF p, q

(* Any set of natural numbers that is not empty has a least one.           *)
LEMMA NatHasLeast ==
    ASSUME NEW T \in SUBSET Nat, T # {}
    PROVE  \E x \in T : \A y \in T : x <= y
  <1>1. PICK x \in T : \A y \in T : ~(<<y, x>> \in OpToRel(<, Nat))
    BY NatLessThanWellFounded, WFMin
  <1>2. \A y \in T : ~(y < x)
    BY <1>1 DEF OpToRel
  <1> QED BY <1>2

(* A finite set that is not empty has an element of largest value: one     *)
(* with the fewest elements above it.                                      *)
LEMMA FiniteHasLargest ==
    ASSUME NEW T, IsFiniteSet(T), T # {}, NEW f, \A i \in T : f[i] \in Nat
    PROVE  \E i \in T : \A j \in T : f[j] <= f[i]
  <1> DEFINE Above(i) == {j \in T : f[i] < f[j]}
             Counts == {Cardinality(Above(i)) : i \in T}
  <1>1. \A i \in T : IsFiniteSet(Above(i)) /\ Cardinality(Above(i)) \in Nat
    BY FS_Subset, FS_CardinalityType
  <1>2. PICK c \in Counts : \A d \in Counts : c <= d
    <2>1. Counts \in SUBSET Nat /\ Counts # {}
      BY <1>1
    <2> HIDE DEF Counts
    <2> QED BY <2>1, NatHasLeast
  <1>3. PICK i \in T : c = Cardinality(Above(i))
    BY <1>2
  <1>4. ASSUME NEW j \in T, f[i] < f[j] PROVE FALSE
    <2>1. Above(j) \in SUBSET Above(i) /\ j \in Above(i) /\ j \notin Above(j)
      BY <1>4
    <2>2. Cardinality(Above(j)) <= Cardinality(Above(i)) /\ Cardinality(Above(i)) # Cardinality(Above(j))
      BY <1>1, <2>1, FS_Subset
    <2>3. c <= Cardinality(Above(j))
      BY <1>2
    <2> HIDE DEF Above, Counts
    <2> QED BY <1>1, <1>3, <2>2, <2>3
  <1>5. \A j \in T : ~(f[i] < f[j])
    BY <1>4
  <1> QED BY <1>5

-----------------------------------------------------------------------------
(* The operators of LeverageMath. *)

(* A basis stays between where it was and what it follows, saturation and  *)
(* truncation included.                                                    *)
LEMMA AdvanceIsBetween ==
    ASSUME NEW last \in Nat, NEW now \in Nat
    PROVE  /\ PartialAdvance(last, now, CrankAbsorbBps) \in Nat
           /\ Between(last, PartialAdvance(last, now, CrankAbsorbBps), now)
  <1> DEFINE gap == now - last
             size == Magnitude(gap)
             product == SaturatingMul(gap, CrankAbsorbBps)
             step == Truncated(product, BpsDenom)
             new == last + step
  <1>1. gap \in Int /\ size \in Nat /\ I128Max \in Nat /\ CrankAbsorbBps = 3000 /\ BpsDenom = 10000
    BY WidthAssumption, SMT DEF Magnitude, CrankAbsorbBps, BpsDenom
  <1>2. FitsI128(size, 3000) <=> size <= I128Max \div 3000
    BY DEF FitsI128
  <1>3. /\ gap >= 0 => product \in 0..(gap * 3000)
        /\ gap < 0 => product \in (gap * 3000)..0
    <2>1. CASE FitsI128(size, 3000)
      BY <1>1, <2>1, SMT DEF SaturatingMul
    <2>2. CASE ~FitsI128(size, 3000)
      <3>1. I128Max < size * 3000
        BY <1>1, <1>2, <2>2, SMT
      <3>2. product = IF gap < 0 THEN -I128Max - 1 ELSE I128Max
        BY <1>1, <2>2 DEF SaturatingMul
      <3> HIDE DEF product
      <3> QED BY <1>1, <3>1, <3>2, SMT DEF Magnitude
    <2> QED BY <2>1, <2>2
  <1> HIDE DEF product
  <1>4. /\ gap >= 0 => step \in 0..gap
        /\ gap < 0 => step \in gap..0
    BY <1>1, <1>3, SMT DEF Truncated, BpsDenom
  <1> HIDE DEF step
  <1>5. PartialAdvance(last, now, CrankAbsorbBps) = IF new <= 0 THEN last ELSE new
    BY <1>1 DEF PartialAdvance, step, product
  <1>6. new \in Int /\ Lesser(last, now) <= new /\ new <= Greater(last, now)
    BY <1>4, SMT DEF Lesser, Greater
  <1>7. Lesser(last, now) <= last /\ last <= Greater(last, now)
    BY SMT DEF Lesser, Greater
  <1> QED BY <1>5, <1>6, <1>7, SMT DEF Between

(* A basis that is set stays set. *)
LEMMA AdvanceStaysSet ==
    ASSUME NEW last \in Nat \ {0}, NEW now \in Nat
    PROVE  PartialAdvance(last, now, CrankAbsorbBps) # 0
  <1> DEFINE new == last + Truncated(SaturatingMul(now - last, CrankAbsorbBps), BpsDenom)
  <1>1. PartialAdvance(last, now, CrankAbsorbBps) = IF new <= 0 THEN last ELSE new
    BY DEF PartialAdvance, CrankAbsorbBps, BpsDenom
  <1>2. ~(0 <= 0) => FALSE
    BY SMT
  <1> HIDE DEF new
  <1> QED BY <1>1, <1>2, SMT

(* An advance takes a sixth off the gap at least, if there are four units  *)
(* of it and the product fits, and one unit if it saturates.               *)
LEMMA AdvanceCloses ==
    ASSUME NEW last \in Nat, NEW now \in Nat, I128Max >= BpsDenom,
           Magnitude(now - last) >= 4
    PROVE  /\ Magnitude(now - PartialAdvance(last, now, CrankAbsorbBps)) < Magnitude(now - last)
           /\ FitsI128(Magnitude(now - last), CrankAbsorbBps) =>
                 6 * Magnitude(now - PartialAdvance(last, now, CrankAbsorbBps))
                    <= 5 * Magnitude(now - last)
  <1> DEFINE gap == now - last
             size == Magnitude(gap)
             product == SaturatingMul(gap, CrankAbsorbBps)
             step == Truncated(product, BpsDenom)
             new == last + step
             fits == FitsI128(size, CrankAbsorbBps)
  <1>1. /\ gap \in Int /\ size \in Nat /\ I128Max \in Nat /\ I128Max >= 10000
        /\ CrankAbsorbBps = 3000 /\ BpsDenom = 10000 /\ size >= 4
        /\ size = (IF gap < 0 THEN -gap ELSE gap)
    BY WidthAssumption, SMT DEF Magnitude, CrankAbsorbBps, BpsDenom
  <1>2. fits <=> size <= I128Max \div 3000
    BY <1>1 DEF FitsI128
  <1>3. fits => product = gap * 3000
    BY <1>1 DEF SaturatingMul
  <1>4. ~fits => /\ gap >= 0 => product = I128Max /\ I128Max < size * 3000
                 /\ gap < 0 => product = -I128Max - 1 /\ I128Max + 1 <= size * 3000
    BY <1>1, <1>2, SMT DEF SaturatingMul
  <1> HIDE DEF product, fits
  <1>5. /\ step \in Int
        /\ gap >= 0 => step \in 1..gap /\ (fits => 6 * (gap - step) <= 5 * gap)
        /\ gap < 0 => -step \in 1..(-gap) /\ 10 * (-step) <= 3 * (-gap)
                        /\ (fits => 6 * (step - gap) <= 5 * (-gap))
    <2>1. CASE gap >= 0
      <3>1. product \in Nat /\ product >= 10000 /\ product <= gap * 3000
        BY <1>1, <1>3, <1>4, <2>1, SMT
      <3>2. step = product \div 10000
        BY <1>1, <3>1, SMT DEF Truncated
      <3>3. fits => step = (gap * 3000) \div 10000
        BY <1>3, <3>2
      <3> HIDE DEF step
      <3> QED BY <1>1, <2>1, <3>1, <3>2, <3>3, SMT
    <2>2. CASE gap < 0
      <3> DEFINE back == -product
      <3>1. product \in Int /\ back \in Nat /\ back >= 10000 /\ back <= (-gap) * 3000
        BY <1>1, <1>3, <1>4, <2>2, SMT
      <3>2. step = -(back \div 10000)
        BY <1>1, <3>1, SMT DEF Truncated
      <3>3. fits => back = (-gap) * 3000
        BY <1>1, <1>3, SMT
      <3> HIDE DEF step, back
      <3> QED BY <1>1, <2>2, <3>1, <3>2, <3>3, SMT
    <2> QED BY <1>1, <2>1, <2>2, SMT
  <1> HIDE DEF step
  <1>6. PartialAdvance(last, now, CrankAbsorbBps) = IF new <= 0 THEN last ELSE new
    BY <1>1 DEF PartialAdvance, step, product
  <1>7. new > 0
    BY <1>1, <1>5, SMT
  <1>8. now - new = gap - step
    BY <1>1, <1>5, SMT
  <1>9. Magnitude(now - new) < size /\ (fits => 6 * Magnitude(now - new) <= 5 * size)
    BY <1>1, <1>5, <1>8, SMT DEF Magnitude
  <1>10. PartialAdvance(last, now, CrankAbsorbBps) = new
    BY <1>6, <1>7, <1>1, <1>5, SMT
  <1> QED BY <1>9, <1>10 DEF fits

(* Fractions keep their order when they are rounded down. *)
LEMMA DivByCross ==
    ASSUME NEW a \in Nat, NEW b \in Nat \ {0}, NEW c \in Nat, NEW d \in Nat \ {0},
           a * d <= c * b
    PROVE  a \div b <= c \div d
  <1> DEFINE p == a \div b
             q == c \div d
  <1>1. p \in Nat /\ p * b <= a /\ q \in Nat /\ c < (q + 1) * d
    <2>1. p \in Nat /\ p * b <= a /\ q \in Nat /\ c < q * d + d
      BY DivIsFloor
    <2> HIDE DEF p, q
    <2> QED BY <2>1, SMT
  <1> HIDE DEF p, q
  <1>2. (p * b) * d <= a * d
    BY <1>1, MulKeepsOrder, SMT
  <1>3. c * b < ((q + 1) * d) * b
    BY <1>1, SMT
  <1>4. p * (b * d) < (q + 1) * (b * d)
    BY <1>1, <1>2, <1>3, SMT
  <1>5. b * d \in Nat
    BY SMT
  <1>6. p < q + 1
    BY <1>1, <1>4, <1>5, MulCancels, SMT
  <1>7. p <= q
    BY <1>1, <1>6, SMT
  <1> QED BY <1>7 DEF p, q

(* The size of a move, without its sign. *)
LEMMA MoveIsSize ==
    ASSUME NEW last \in Nat \ {0}, NEW now \in Nat
    PROVE  AbsMove(last, now) = (Magnitude(now - last) * BpsDenom) \div last
  <1> DEFINE n == (now - last) * BpsDenom
             m == Magnitude(now - last) * BpsDenom
  <1>1. n \in Int /\ m \in Nat /\ m = (IF n < 0 THEN -n ELSE n)
    BY SMT DEF BpsDenom, Magnitude
  <1>2. AbsMove(last, now) = Magnitude(IF n >= 0 THEN n \div last ELSE -((-n) \div last))
    BY DEF AbsMove, ReturnBps, Truncated
  <1> HIDE DEF n, m
  <1>3. m \div last \in Nat
    BY <1>1, DivIsFloor
  <1>4. AbsMove(last, now) = m \div last
    <2>1. CASE n >= 0
      <3>1. m = n /\ AbsMove(last, now) = Magnitude(m \div last)
        BY <1>1, <1>2, <2>1, SMT
      <3> QED BY <1>3, <3>1, SMT DEF Magnitude
    <2>2. CASE ~(n >= 0)
      <3>1. m = -n /\ AbsMove(last, now) = Magnitude(-(m \div last))
        BY <1>1, <1>2, <2>2, SMT
      <3> QED BY <1>3, <3>1, SMT DEF Magnitude
    <2> QED BY <2>1, <2>2
  <1> QED BY <1>4 DEF m

LEMMA MoveIsNat ==
    ASSUME NEW last \in Nat \ {0}, NEW now \in Nat
    PROVE  AbsMove(last, now) \in Nat
  <1> DEFINE m == Magnitude(now - last) * BpsDenom
  <1>1. m \in Nat
    BY SMT DEF BpsDenom, Magnitude
  <1> HIDE DEF m
  <1>2. m \div last \in Nat
    BY <1>1, DivIsFloor
  <1> QED BY <1>2, MoveIsSize DEF m

(* A basis that nears its reading sees no larger a move. *)
LEMMA NearerSeesLess ==
    ASSUME NEW last \in Nat, NEW now \in Nat, NEW new \in Nat \ {0},
           Between(last, new, now), HasReturn(last, now)
    PROVE  HasReturn(new, now) /\ AbsMove(new, now) <= AbsMove(last, now)
  <1> DEFINE old == Magnitude(now - last)
             left == Magnitude(now - new)
  <1>1. /\ old \in Nat /\ left \in Nat /\ left <= old /\ BpsDenom = 10000
        /\ last \in Nat \ {0} /\ I128Max \in Nat /\ I64Max \in Nat
    BY WidthAssumption, SMT DEF Magnitude, Between, Lesser, Greater, BpsDenom, HasReturn
  <1>2. left * last <= old * new
    <2>1. CASE last <= now
      <3>1. last <= new
        BY <2>1, SMT DEF Between, Lesser, Greater
      <3>2. left * last <= old * last
        BY <1>1, MulKeepsOrder
      <3>3. last * old <= new * old
        BY <1>1, <3>1, MulKeepsOrder
      <3> HIDE DEF old, left
      <3>4. old * last <= old * new
        BY <1>1, <3>3, SMT
      <3> QED BY <1>1, <3>2, <3>4, SMT
    <2>2. CASE now < last
      <3>1. now <= new /\ new <= last
        BY <2>2, SMT DEF Between, Lesser, Greater
      <3>2. old = last - now /\ left = new - now
        BY <2>2, <3>1, SMT DEF Magnitude
      <3>3. new * now <= last * now
        BY <3>1, MulKeepsOrder
      <3> HIDE DEF old, left
      <3> QED BY <3>2, <3>3, SMT
    <2> QED BY <2>1, <2>2, SMT
  <1> HIDE DEF old, left
  <1>3. /\ left * BpsDenom \in Nat /\ old * BpsDenom \in Nat
        /\ (left * BpsDenom) * last <= (old * BpsDenom) * new
    BY <1>1, <1>2, SMT
  <1>4. (left * BpsDenom) \div new <= (old * BpsDenom) \div last
    <2> DEFINE x == left * BpsDenom
               y == old * BpsDenom
    <2>1. x \in Nat /\ y \in Nat /\ x * last <= y * new
      BY <1>3
    <2> HIDE DEF x, y
    <2>2. x \div new <= y \div last
      BY <1>1, <2>1, DivByCross
    <2> QED BY <2>2 DEF x, y
  <1>5. (left * BpsDenom) \div new \in Nat /\ (old * BpsDenom) \div last \in Nat
    BY <1>1, <1>3, DivIsFloor
  <1>6. FitsI128(old, BpsDenom) => FitsI128(left, BpsDenom)
    <2>1. I128Max \div BpsDenom \in Nat
      BY <1>1, SMT
    <2> QED BY <1>1, <2>1, SMT DEF FitsI128
  <1>7. FitsI128(old, BpsDenom) /\ (old * BpsDenom) \div last <= I64Max
    BY DEF HasReturn, old
  <1>8. (left * BpsDenom) \div new <= I64Max
    <2> DEFINE x == (left * BpsDenom) \div new
               y == (old * BpsDenom) \div last
    <2>1. x \in Nat /\ y \in Nat /\ x <= y /\ y <= I64Max
      BY <1>4, <1>5, <1>7
    <2> HIDE DEF x, y
    <2>2. x <= I64Max
      BY <1>1, <2>1, SMT
    <2> QED BY <2>2 DEF x
  <1>9. HasReturn(new, now)
    BY <1>6, <1>7, <1>8 DEF HasReturn, left
  <1> QED BY <1>1, <1>4, <1>9, MoveIsSize DEF old, left

(* A move is a natural number, and its sign says who lost. *)
LEMMA MoveOfReturn ==
    ASSUME NEW last \in Nat, NEW now \in Nat, HasMove(last, now)
    PROVE  /\ AbsMove(last, now) \in Nat
           /\ Loser(last, now) = "A" => now < last
           /\ Loser(last, now) = "B" => last < now
  <1>1. last # 0 /\ ReturnBps(last, now) # 0
    BY DEF HasMove, HasReturn
  <1> DEFINE n == (now - last) * BpsDenom
  <1>2. n \in Int /\ (n >= 0 <=> now >= last) /\ (n = 0 <=> now = last)
    BY SMT DEF BpsDenom
  <1>3. ReturnBps(last, now) = IF n >= 0 THEN n \div last ELSE -((-n) \div last)
    BY DEF ReturnBps, Truncated
  <1> HIDE DEF n
  <1>4. n >= 0 => n \div last \in Nat
    BY <1>1, <1>2, DivIsFloor, SMT
  <1>5. n < 0 => (-n) \div last \in Nat
    BY <1>1, <1>2, DivIsFloor, SMT
  <1>6. /\ n >= 0 => ReturnBps(last, now) \in Nat
        /\ n < 0 => -ReturnBps(last, now) \in Nat /\ ReturnBps(last, now) \in Int
        /\ n = 0 => ReturnBps(last, now) = 0
    BY <1>1, <1>2, <1>3, <1>4, <1>5, SMT
  <1>7. AbsMove(last, now) \in Nat
    <2> DEFINE r == ReturnBps(last, now)
    <2>1. r \in Int
      BY <1>2, <1>6, SMT
    <2> HIDE DEF r
    <2>2. Magnitude(r) \in Nat
      BY <2>1, SMT DEF Magnitude
    <2> QED BY <2>2 DEF AbsMove, r
  <1>8. Loser(last, now) = "A" => now < last
    <2>1. ReturnBps(last, now) < 0 => n < 0
      BY <1>2, <1>6, SMT
    <2>2. n < 0 => now < last
      BY <1>2, SMT
    <2> QED BY <2>1, <2>2 DEF Loser
  <1>9. Loser(last, now) = "B" => last < now
    <2>1. ~(ReturnBps(last, now) < 0) => n > 0
      BY <1>1, <1>2, <1>6, SMT
    <2>2. n > 0 => last < now
      BY <1>2, SMT
    <2> QED BY <2>1, <2>2 DEF Loser
  <1> QED BY <1>7, <1>8, <1>9

(* A capped fraction of a reserve is capped. *)
LEMMA LoserMintCapped ==
    ASSUME NEW reserve \in Nat, NEW move \in Nat, NEW lev \in Nat, NEW cap \in Nat,
           NEW breaker \in Nat
    PROVE  /\ LoserMint(reserve, move, lev, cap, breaker) \in Nat
           /\ cap # 0 => LoserMint(reserve, move, lev, cap, breaker) * BpsDenom <= cap * reserve
  <1> DEFINE frac == CapFraction((move * lev) \div BpsDenom, cap)
  <1>1. BpsDenom \in Nat \ {0} /\ move * lev \in Nat
    BY SMT DEF BpsDenom
  <1>2. (move * lev) \div BpsDenom \in Nat
    BY <1>1, DivIsFloor
  <1>3. frac \in Nat /\ (cap # 0 => frac <= cap)
    BY <1>2, SMT DEF CapFraction
  <1> HIDE DEF frac
  <1>4. reserve * frac \in Nat /\ cap * reserve \in Nat
    BY <1>3, SMT
  <1>5. /\ (reserve * frac) \div BpsDenom \in Nat
        /\ ((reserve * frac) \div BpsDenom) * BpsDenom <= reserve * frac
    BY <1>1, <1>4, DivIsFloor
  <1>6. cap # 0 => reserve * frac <= cap * reserve
    BY <1>3, SMT
  <1>7. LoserMint(reserve, move, lev, cap, breaker) \in {0, (reserve * frac) \div BpsDenom}
    BY DEF LoserMint, frac
  <1>8. CASE LoserMint(reserve, move, lev, cap, breaker) = 0
    BY <1>4, <1>8, SMT DEF BpsDenom
  <1>9. CASE LoserMint(reserve, move, lev, cap, breaker) = (reserve * frac) \div BpsDenom
    <2> DEFINE m == (reserve * frac) \div BpsDenom
    <2>1. m \in Nat /\ m * BpsDenom <= reserve * frac
      BY <1>5
    <2> HIDE DEF m
    <2>2. m * BpsDenom \in Nat
      BY <2>1, SMT DEF BpsDenom
    <2>3. cap # 0 => m * BpsDenom <= cap * reserve
      BY <1>4, <1>6, <2>1, <2>2, SMT
    <2> QED BY <1>9, <2>1, <2>3 DEF m
  <1> QED BY <1>7, <1>8, <1>9

(* The same of what is planned for one pool, which is nothing when the     *)
(* unclamped move trips the breaker.                                       *)
LEMMA PlannedMintCapped ==
    ASSUME NEW reserve \in Nat, NEW move \in Nat, NEW lev \in Nat, NEW cap \in Nat,
           NEW breaker \in Nat
    PROVE  /\ PlannedMint(reserve, move, lev, cap, breaker) \in Nat
           /\ cap # 0 => PlannedMint(reserve, move, lev, cap, breaker) * BpsDenom <= cap * reserve
           /\ breaker # 0 /\ move >= breaker => PlannedMint(reserve, move, lev, cap, breaker) = 0
  <1> DEFINE sized == ClampCrankMove(move)
             minted == LoserMint(reserve, sized, lev, cap, 0)
  <1>1. sized \in Nat
    BY SMT DEF ClampCrankMove, Clamp, Lesser, Greater, CrankMoveFloorBps, CrankMoveCapBps
  <1> HIDE DEF sized
  <1>2. minted \in Nat /\ (cap # 0 => minted * BpsDenom <= cap * reserve)
    BY <1>1, LoserMintCapped
  <1>3. PlannedMint(reserve, move, lev, cap, breaker) =
            IF Breaks(move, breaker) THEN 0 ELSE minted
    BY DEF PlannedMint, sized
  <1> HIDE DEF minted
  <1>4. 0 * BpsDenom <= cap * reserve
    BY SMT DEF BpsDenom
  <1> QED BY <1>2, <1>3, <1>4 DEF Breaks

(* Two pools whose loser is minted by the same fraction are diluted alike: *)
(* either mint, and one unit, is no less a share of its reserve than the   *)
(* other.                                                                  *)
LEMMA SharesAlike ==
    ASSUME NEW f \in Nat, NEW d \in Nat \ {0}, NEW r \in Nat, NEW s \in Nat
    PROVE  ((r * f) \div d) * s <= ((s * f) \div d + 1) * r
  <1> DEFINE m == (r * f) \div d
             k == (s * f) \div d
  <1>1. r * f \in Nat /\ s * f \in Nat
    BY SMT
  <1>2. m \in Nat /\ m * d <= r * f
    BY <1>1, DivIsFloor
  <1>3. k \in Nat /\ s * f < k * d + d
    BY <1>1, DivIsFloor
  <1> HIDE DEF m, k
  <1>4. (m * d) * s <= (r * f) * s
    BY <1>1, <1>2, MulKeepsOrder, SMT
  <1>5. (s * f) * r <= (k * d + d) * r
    <2>1. k * d + d \in Nat /\ s * f <= k * d + d
      BY <1>1, <1>3, SMT
    <2> QED BY <1>1, <2>1, MulKeepsOrder
  <1>6. /\ (m * d) * s = (m * s) * d /\ (r * f) * s = (s * f) * r
        /\ (k * d + d) * r = ((k + 1) * r) * d
    BY <1>2, <1>3, SMT
  <1> DEFINE x == m * s
             y == (k + 1) * r
  <1>7. x \in Nat /\ y \in Nat
    BY <1>2, <1>3, SMT
  <1>8. x * d <= y * d
    <2>1. (r * f) * s \in Nat /\ x * d \in Nat /\ y * d \in Nat
      BY <1>1, <1>7, SMT
    <2> QED BY <1>4, <1>5, <1>6, <2>1
  <1> HIDE DEF x, y
  <1>9. x * d < (y + 1) * d
    <2>1. (y + 1) * d = y * d + d /\ y * d \in Nat /\ x * d \in Nat
      BY <1>7, SMT
    <2> QED BY <1>8, <2>1
  <1>10. x < y + 1
    BY <1>7, <1>9, MulCancels
  <1>11. x <= y
    BY <1>7, <1>10
  <1> QED BY <1>11 DEF x, y, m, k

(* The leverage a plan uses is a natural number. *)
LEMMA PlanLeverageIsNat ==
    ASSUME NEW user \in Nat, NEW lMin \in Nat, NEW lMax \in Nat,
           NEW reserve \in Nat, NEW total \in Nat
    PROVE  PlanLeverage(user, lMin, lMax, reserve, total) \in Nat
  <1> DEFINE lo == Lesser(lMin, lMax)
             hi == Greater(lMin, lMax)
             share == (reserve * BpsDenom) \div (reserve + total)
  <1>1. lo \in Nat /\ hi \in Nat /\ lo <= hi /\ BpsDenom \in Nat \ {0}
    BY SMT DEF Lesser, Greater, BpsDenom
  <1>2. ClampLeverage(IF user = 0 THEN lMax ELSE user, lMin, lMax) \in Nat
    BY SMT DEF ClampLeverage, Clamp, Lesser, Greater
  <1> HIDE DEF lo, hi
  <1>3. ElasticLeverage(lMin, lMax, reserve, total) \in Nat
    <2>1. CASE reserve + total = 0
      BY <1>1, <2>1 DEF ElasticLeverage, lo
    <2>2. CASE reserve + total # 0
      <3>1. reserve + total \in Nat \ {0} /\ reserve * BpsDenom \in Nat
        BY <1>1, <2>2, SMT
      <3>2. share \in Nat
        BY <3>1, DivIsFloor
      <3> HIDE DEF share
      <3>3. (hi - lo) * share \in Nat
        BY <1>1, <3>2, SMT
      <3>4. ((hi - lo) * share) \div BpsDenom \in Nat
        BY <1>1, <3>3, DivIsFloor
      <3>5. ElasticLeverage(lMin, lMax, reserve, total) =
                Lesser(hi, lo + ((hi - lo) * share) \div BpsDenom)
        BY <2>2 DEF ElasticLeverage, lo, hi, share
      <3> QED BY <1>1, <3>4, <3>5, SMT DEF Lesser
    <2> QED BY <2>1, <2>2
  <1> QED BY <1>2, <1>3, SMT DEF PlanLeverage, Lesser

(* A plan dilutes the loser alike in its two pools, whatever the reserves, *)
(* the band, the cap and the breaker: the relative price of the two pools  *)
(* moves by the rounding of one unit and no more, which is what leaves a   *)
(* crank no gap of its own for the searchers.                              *)
THEOREM PlanDilutesAlike ==
    ASSUME NEW last \in Nat, NEW now \in Nat, HasMove(last, now),
           NEW pairRes \in [Sides -> Nat], NEW poolRes \in [Sides -> Nat],
           NEW supply \in [Sides -> Nat], NEW user \in Nat, NEW lMin \in Nat, NEW lMax \in Nat,
           NEW cap \in Nat, NEW breaker \in Nat
    PROVE  LET plan == Plan(last, now, pairRes, poolRes, supply, user, lMin, lMax, cap, breaker)
               r == pairRes[plan.side]
               s == poolRes[plan.side]
           IN  /\ plan.pair * s <= (plan.pool + 1) * r
               /\ plan.pool * r <= (plan.pair + 1) * s
  <1> DEFINE side == Loser(last, now)
             move == AbsMove(last, now)
             lev == PlanLeverage(user, lMin, lMax, pairRes[side], supply[side])
             sized == ClampCrankMove(move)
             f == CapFraction((sized * lev) \div BpsDenom, cap)
             r == pairRes[side]
             s == poolRes[side]
             plan == Plan(last, now, pairRes, poolRes, supply, user, lMin, lMax, cap, breaker)
             none == Breaks(move, breaker) \/ sized = 0
             share(x) == (x * f) \div BpsDenom
  <1>1. side \in Sides /\ r \in Nat /\ s \in Nat /\ supply[side] \in Nat
    BY DEF Loser, Sides
  <1>2. move \in Nat /\ lev \in Nat /\ BpsDenom \in Nat \ {0}
    <2>1. move \in Nat
      BY MoveOfReturn
    <2>2. pairRes[side] \in Nat
      BY <1>1
    <2> HIDE DEF side
    <2>3. lev \in Nat
      BY <1>1, <2>2, PlanLeverageIsNat
    <2> QED BY <2>1, <2>3 DEF BpsDenom
  <1>3. plan.side = side /\ plan.pair = PlannedMint(r, move, lev, cap, breaker)
        /\ plan.pool = PlannedMint(s, move, lev, cap, breaker)
    BY DEF Plan
  <1>4. \A x : PlannedMint(x, move, lev, cap, breaker) =
                  IF none \/ x = 0 THEN 0 ELSE share(x)
    BY DEF PlannedMint, LoserMint, Breaks
  <1> HIDE DEF side, r, s, move, lev, plan
  <1>5. f \in Nat
    <2>1. sized \in Nat
      BY <1>2, SMT DEF ClampCrankMove, Clamp, Lesser, Greater, CrankMoveFloorBps, CrankMoveCapBps
    <2> HIDE DEF sized
    <2>2. sized * lev \in Nat
      BY <1>2, <2>1, SMT
    <2>3. (sized * lev) \div BpsDenom \in Nat
      BY <1>2, <2>2, DivIsFloor
    <2> QED BY <2>3 DEF CapFraction
  <1> HIDE DEF f, none
  <1>6. share(r) \in Nat /\ share(s) \in Nat
    <2>1. r * f \in Nat /\ s * f \in Nat
      BY <1>1, <1>5, SMT
    <2> QED BY <1>2, <2>1, DivIsFloor
  <1>7. share(r) * s <= (share(s) + 1) * r /\ share(s) * r <= (share(r) + 1) * s
    BY <1>1, <1>2, <1>5, SharesAlike
  <1> HIDE DEF share
  <1>8. CASE none
    <2>1. plan.pair = 0 /\ plan.pool = 0
      BY <1>3, <1>4, <1>8
    <2>2. 0 * s <= (0 + 1) * r /\ 0 * r <= (0 + 1) * s
      BY <1>1
    <2> QED BY <1>3, <2>1, <2>2 DEF plan, r, s
  <1>9. CASE ~none /\ r # 0 /\ s # 0
    <2>1. plan.pair = share(r) /\ plan.pool = share(s)
      BY <1>3, <1>4, <1>9
    <2> QED BY <1>3, <1>7, <2>1 DEF plan, r, s
  <1>10. CASE ~none /\ (r = 0 \/ s = 0)
    <2>1. plan.pair \in Nat /\ plan.pool \in Nat /\ (r = 0 => plan.pair = 0) /\ (s = 0 => plan.pool = 0)
      BY <1>3, <1>4, <1>6
    <2> DEFINE p == plan.pair
               q == plan.pool
    <2>2. p \in Nat /\ q \in Nat /\ (r = 0 => p = 0) /\ (s = 0 => q = 0)
      BY <2>1
    <2> HIDE DEF p, q
    <2>3. p * s <= (q + 1) * r /\ q * r <= (p + 1) * s
      <3>1. CASE r = 0 /\ s = 0
        BY <2>2, <3>1
      <3>2. CASE r = 0 /\ s # 0
        <4>1. p = 0 /\ 0 * s = 0 /\ (q + 1) * 0 = 0 /\ q * 0 = 0 /\ (0 + 1) * s = s
          BY <1>1, <2>2, <3>2
        <4> QED BY <1>1, <3>2, <4>1
      <3>3. CASE r # 0 /\ s = 0
        <4>1. q = 0 /\ 0 * r = 0 /\ (p + 1) * 0 = 0 /\ p * 0 = 0 /\ (0 + 1) * r = r
          BY <1>1, <2>2, <3>3
        <4> QED BY <1>1, <3>3, <4>1
      <3> QED BY <1>10, <3>1, <3>2, <3>3
    <2> QED BY <1>3, <2>3 DEF plan, p, q, r, s
  <1> QED BY <1>8, <1>9, <1>10

(* A price, and the ratio of two of them, is a natural number. *)
LEMMA RatioIsNat ==
    ASSUME NEW res \in [Sides -> Nat], NEW quote \in [Sides -> Nat], HasMarket(res, quote)
    PROVE  /\ Price(res["A"], quote["A"]) \in Nat
           /\ Price(res["B"], quote["B"]) \in Nat \ {0}
           /\ MarketRatio(res, quote) \in Nat
  <1>1. /\ res["A"] \in Nat \ {0} /\ res["B"] \in Nat \ {0}
        /\ quote["A"] \in Nat /\ quote["B"] \in Nat /\ Wad \in Nat
    BY WidthAssumption DEF HasMarket, Sides
  <1>2. quote["A"] * Wad \in Nat /\ quote["B"] * Wad \in Nat
    BY <1>1, SMT
  <1>3. Price(res["A"], quote["A"]) \in Nat /\ Price(res["B"], quote["B"]) \in Nat \ {0}
    BY <1>1, <1>2, DivIsFloor DEF Price, HasMarket
  <1>4. Price(res["A"], quote["A"]) * Wad \in Nat
    BY <1>1, <1>3, SMT
  <1> QED BY <1>3, <1>4, DivIsFloor DEF MarketRatio

-----------------------------------------------------------------------------
(* The median. *)

(* How many of the samples taken lie below a value, above it, and not      *)
(* above it.                                                               *)
Below(samples, x) == Cardinality({j \in Sampled(samples) : samples[j] < x})
Above(samples, x) == Cardinality({j \in Sampled(samples) : x < samples[j]})
UpTo(samples, x) == Cardinality({j \in Sampled(samples) : samples[j] <= x})

LEMMA SampledFinite ==
    ASSUME NEW D, IsFiniteSet(D), NEW f \in [D -> Nat]
    PROVE  /\ IsFiniteSet(Sampled(f)) /\ Cardinality(Sampled(f)) \in Nat
           /\ \A S \in SUBSET Sampled(f) :
                /\ IsFiniteSet(S) /\ Cardinality(S) \in Nat
                /\ Cardinality(S) <= Cardinality(Sampled(f))
           /\ \A i \in Sampled(f) : f[i] \in Nat \ {0}
  <1>1. Sampled(f) \in SUBSET D /\ \A i \in Sampled(f) : f[i] \in Nat \ {0}
    BY DEF Sampled
  <1>2. IsFiniteSet(Sampled(f))
    BY <1>1, FS_Subset
  <1> QED BY <1>1, <1>2, FS_Subset, FS_CardinalityType

(* The counts are numbers, grow with the value, and make up the whole.     *)
LEMMA CountsOK ==
    ASSUME NEW D, IsFiniteSet(D), NEW f \in [D -> Nat], NEW x \in Nat
    PROVE  /\ Below(f, x) \in Nat /\ Above(f, x) \in Nat /\ UpTo(f, x) \in Nat
           /\ UpTo(f, x) + Above(f, x) = Cardinality(Sampled(f))
           /\ \A y \in Nat :
                /\ x <= y => Below(f, x) <= Below(f, y) /\ Above(f, y) <= Above(f, x)
                /\ x < y => UpTo(f, x) <= Below(f, y)
  <1> DEFINE T == Sampled(f)
             B(z) == {j \in T : f[j] < z}
             A(z) == {j \in T : z < f[j]}
             U(z) == {j \in T : f[j] <= z}
  <1>1. IsFiniteSet(T) /\ \A i \in T : f[i] \in Nat
    BY SampledFinite
  <1>2. \A S \in SUBSET T : IsFiniteSet(S) /\ Cardinality(S) \in Nat
    BY SampledFinite
  <1>3. \A z : B(z) \in SUBSET T /\ A(z) \in SUBSET T /\ U(z) \in SUBSET T
    OBVIOUS
  <1>4. A(x) = T \ U(x) /\ T \cap U(x) = U(x)
    BY <1>1
  <1>5. Cardinality(A(x)) = Cardinality(T) - Cardinality(U(x))
    <2>1. IsFiniteSet(T) /\ A(x) = T \ U(x) /\ T \cap U(x) = U(x)
      BY <1>1, <1>4
    <2> HIDE DEF T, A, U
    <2>2. Cardinality(T \ U(x)) = Cardinality(T) - Cardinality(T \cap U(x))
      BY <2>1, FS_Difference
    <2> QED BY <2>1, <2>2
  <1>6. \A S, R \in SUBSET T : S \subseteq R => Cardinality(S) <= Cardinality(R)
    BY <1>2, FS_Subset
  <1>7. ASSUME NEW y \in Nat
        PROVE  /\ x <= y => B(x) \subseteq B(y) /\ A(y) \subseteq A(x)
               /\ x < y => U(x) \subseteq B(y)
    BY <1>1
  <1>8. ASSUME NEW y \in Nat
        PROVE  /\ x <= y => Below(f, x) <= Below(f, y) /\ Above(f, y) <= Above(f, x)
               /\ x < y => UpTo(f, x) <= Below(f, y)
    BY <1>3, <1>6, <1>7 DEF Below, Above, UpTo
  <1>9. /\ Cardinality(T) \in Nat /\ Cardinality(A(x)) \in Nat /\ Cardinality(B(x)) \in Nat
        /\ Cardinality(U(x)) \in Nat
    BY <1>2, <1>3
  <1>10. Cardinality(U(x)) + Cardinality(A(x)) = Cardinality(T)
    <2> HIDE DEF T, A, U
    <2> QED BY <1>5, <1>9
  <1> QED BY <1>8, <1>9, <1>10 DEF Below, Above, UpTo

(* Of any number of samples taken there is one of every rank: the least    *)
(* that has more than k of them up to it has at most k below it.           *)
LEMMA RankExists ==
    ASSUME NEW D, IsFiniteSet(D), NEW f \in [D -> Nat],
           NEW k \in Nat, k < Cardinality(Sampled(f))
    PROVE  \E i \in Sampled(f) : Below(f, f[i]) <= k /\ k < UpTo(f, f[i])
  <1> DEFINE T == Sampled(f)
             V == {x \in Nat : k < UpTo(f, x) /\ \E i \in T : x = f[i]}
  <1>1. IsFiniteSet(T) /\ Cardinality(T) \in Nat /\ \A i \in T : f[i] \in Nat
    BY SampledFinite
  <1>2. T # {}
    BY <1>1, FS_EmptySet
  <1>3. V # {}
    <2>1. PICK i \in T : \A j \in T : f[j] <= f[i]
      BY <1>1, <1>2, FiniteHasLargest
    <2>2. {j \in T : f[j] <= f[i]} = T
      BY <2>1
    <2>3. UpTo(f, f[i]) = Cardinality(T)
      BY <2>2 DEF UpTo
    <2> QED BY <1>1, <2>3
  <1>4. PICK x \in V : \A y \in V : x <= y
    BY <1>3, NatHasLeast
  <1>5. PICK i \in T : x = f[i]
    BY <1>4
  <1>6. x \in Nat /\ k < UpTo(f, x) /\ Below(f, x) \in Nat
    BY <1>4, CountsOK
  <1>7. Below(f, x) <= k
    <2> SUFFICES ASSUME k < Below(f, x) PROVE FALSE
      BY <1>6
    <2> DEFINE S == {j \in T : f[j] < x}
    <2>1. S \in SUBSET T /\ IsFiniteSet(S) /\ Cardinality(S) = Below(f, x)
      BY SampledFinite DEF Below
    <2>2. S # {}
      <3>1. Cardinality(S) # 0
        BY <1>6, <2>1
      <3> QED BY <3>1, FS_EmptySet
    <2>3. PICK j \in S : \A l \in S : f[l] <= f[j]
      BY <1>1, <2>1, <2>2, FiniteHasLargest
    <2>4. j \in T /\ f[j] \in Nat /\ f[j] < x
      BY <1>1, <2>3
    <2>5. {l \in T : f[l] <= f[j]} = S
      BY <1>1, <1>6, <2>3, <2>4
    <2>6. UpTo(f, f[j]) = Below(f, x)
      BY <2>1, <2>5 DEF UpTo
    <2>7. f[j] \in V
      BY <2>4, <2>6
    <2> QED BY <1>4, <1>6, <2>4, <2>7
  <1> QED BY <1>5, <1>6, <1>7

LEMMA RankedOK ==
    ASSUME NEW D, IsFiniteSet(D), NEW f \in [D -> Nat],
           NEW k \in Nat, k < Cardinality(Sampled(f))
    PROVE  /\ Ranked(f, k) \in Nat \ {0}
           /\ Below(f, Ranked(f, k)) <= k /\ k < UpTo(f, Ranked(f, k))
  <1> DEFINE Right(i) == Below(f, f[i]) <= k /\ k < UpTo(f, f[i])
             i == CHOOSE i \in Sampled(f) : Right(i)
  <1>1. Ranked(f, k) = f[i]
    BY DEF Ranked, Below, UpTo
  <1>2. \E j \in Sampled(f) : Right(j)
    BY RankExists
  <1>3. i \in Sampled(f) /\ Right(i)
    <2> HIDE DEF Right
    <2> QED BY <1>2
  <1>4. f[i] \in Nat \ {0}
    BY <1>3, SampledFinite
  <1> QED BY <1>1, <1>3, <1>4

(* The two middle samples are in order, and the code's overflow-free       *)
(* average is the average, which lies between them.                        *)
LEMMA AverageOK ==
    ASSUME NEW a \in Nat, NEW b \in Nat, a <= b
    PROVE  /\ (a \div 2) + (b \div 2) + (((a % 2) + (b % 2)) \div 2) = (a + b) \div 2
           /\ (a + b) \div 2 \in a..b
  BY SMT

(* The median of a number of samples has at most half of them below it and *)
(* at most half above it.                                                  *)
LEMMA MedianHalves ==
    ASSUME NEW D, IsFiniteSet(D), NEW f \in [D -> Nat]
    PROVE  /\ MedianWad(f) \in Nat
           /\ Sampled(f) # {} => MedianWad(f) > 0
           /\ 2 * Below(f, MedianWad(f)) <= Cardinality(Sampled(f))
           /\ 2 * Above(f, MedianWad(f)) <= Cardinality(Sampled(f))
  <1> DEFINE n == Cardinality(Sampled(f))
             a == Ranked(f, n \div 2 - 1)
             b == Ranked(f, n \div 2)
             m == MedianWad(f)
  <1>1. n \in Nat
    BY SampledFinite
  <1>2. m = IF n = 0 THEN 0
            ELSE IF n % 2 = 1 THEN b
            ELSE (a \div 2) + (b \div 2) + (((a % 2) + (b % 2)) \div 2)
    BY DEF MedianWad
  <1>3. CASE n = 0
    <2>1. Sampled(f) = {}
      BY <1>3, SampledFinite, FS_EmptySet
    <2>2. Below(f, 0) \in Nat /\ Above(f, 0) \in Nat
      BY CountsOK
    <2>3. Below(f, 0) = 0 /\ Above(f, 0) = 0
      BY <2>1, FS_EmptySet DEF Below, Above
    <2> QED BY <1>2, <1>3, <2>1, <2>3
  <1>4. CASE n % 2 = 1
    <2>1. n \div 2 \in Nat /\ n \div 2 < n /\ 2 * (n \div 2) + 1 = n /\ n # 0
      <3> HIDE DEF n
      <3> QED BY <1>1, <1>4, SMT
    <2>2. b \in Nat \ {0} /\ Below(f, b) <= n \div 2 /\ n \div 2 < UpTo(f, b)
      BY <2>1, RankedOK
    <2>3. /\ Below(f, b) \in Nat /\ Above(f, b) \in Nat /\ UpTo(f, b) \in Nat
          /\ UpTo(f, b) + Above(f, b) = n
      BY <2>2, CountsOK
    <2>4. m = b
      BY <1>2, <1>4, <2>1
    <2> HIDE DEF n, b, m
    <2>5. m \in Nat /\ m > 0 /\ 2 * Below(f, m) <= n /\ 2 * Above(f, m) <= n
      BY <1>1, <2>1, <2>2, <2>3, <2>4
    <2> QED BY <2>5 DEF n, m
  <1>5. CASE n # 0 /\ n % 2 # 1
    <2>1. n \div 2 \in Nat /\ n \div 2 - 1 \in Nat /\ n \div 2 < n /\ n \div 2 - 1 < n
          /\ 2 * (n \div 2) = n
      <3> HIDE DEF n
      <3> QED BY <1>1, <1>5, SMT
    <2>2. /\ a \in Nat \ {0} /\ Below(f, a) <= n \div 2 - 1 /\ n \div 2 - 1 < UpTo(f, a)
          /\ b \in Nat \ {0} /\ Below(f, b) <= n \div 2 /\ n \div 2 < UpTo(f, b)
      BY <2>1, RankedOK
    <2>3. /\ Below(f, a) \in Nat /\ Above(f, a) \in Nat /\ UpTo(f, a) + Above(f, a) = n
          /\ UpTo(f, a) \in Nat /\ UpTo(f, b) \in Nat /\ Below(f, b) \in Nat
          /\ b < a => UpTo(f, b) <= Below(f, a)
      BY <2>2, CountsOK
    <2>4. a <= b
      <3> HIDE DEF n, a, b
      <3> QED BY <1>1, <2>1, <2>2, <2>3
    <2>5. m = (a + b) \div 2 /\ m \in a..b
      <3>1. m = (a \div 2) + (b \div 2) + (((a % 2) + (b % 2)) \div 2)
        BY <1>2, <1>5
      <3> HIDE DEF a, b, m
      <3> QED BY <2>2, <2>4, <3>1, AverageOK
    <2>6. m \in Nat /\ a <= m /\ m <= b
      <3> HIDE DEF a, b, m
      <3> QED BY <2>2, <2>5
    <2>7. /\ Below(f, m) \in Nat /\ Above(f, m) \in Nat
          /\ Below(f, m) <= Below(f, b) /\ Above(f, m) <= Above(f, a)
      BY <2>2, <2>6, CountsOK
    <2> HIDE DEF n, a, b, m
    <2>8. m \in Nat /\ m > 0 /\ 2 * Below(f, m) <= n /\ 2 * Above(f, m) <= n
      BY <1>1, <2>1, <2>2, <2>3, <2>6, <2>7
    <2> QED BY <2>8 DEF n, m
  <1> QED BY <1>3, <1>4, <1>5

(* Whoever moves fewer than half of the venues does not decide the median: *)
(* it lies where more than half of the samples do.                         *)
LEMMA MedianOfMajority ==
    ASSUME NEW D, IsFiniteSet(D), NEW f \in [D -> Nat], NEW lo \in Nat, NEW hi \in Nat,
           2 * Cardinality({i \in Sampled(f) : f[i] \in lo..hi}) > Cardinality(Sampled(f))
    PROVE  MedianWad(f) \in lo..hi
  <1> DEFINE T == Sampled(f)
             Inside == {i \in T : f[i] \in lo..hi}
             m == MedianWad(f)
             High == {i \in T : m < f[i]}
             Low == {i \in T : f[i] < m}
  <1>1. /\ Cardinality(T) \in Nat /\ Cardinality(Inside) \in Nat
        /\ \A i \in T : f[i] \in Nat
        /\ IsFiniteSet(High) /\ IsFiniteSet(Low)
        /\ Cardinality(High) \in Nat /\ Cardinality(Low) \in Nat
    BY SampledFinite
  <1>2. /\ m \in Nat /\ 2 * Cardinality(Low) <= Cardinality(T)
        /\ 2 * Cardinality(High) <= Cardinality(T)
    BY MedianHalves DEF Below, Above
  <1>3. m < lo => Inside \in SUBSET High
    BY <1>1, <1>2
  <1>4. hi < m => Inside \in SUBSET Low
    BY <1>1, <1>2
  <1>5. m < lo => Cardinality(Inside) <= Cardinality(High)
    BY <1>1, <1>3, FS_Subset
  <1>6. hi < m => Cardinality(Inside) <= Cardinality(Low)
    BY <1>1, <1>4, FS_Subset
  <1>7. 2 * Cardinality(Inside) > Cardinality(T)
    OBVIOUS
  <1> HIDE DEF T, Inside, m, High, Low
  <1>8. ~(m < lo) /\ ~(hi < m)
    BY <1>1, <1>2, <1>5, <1>6, <1>7
  <1> QED BY <1>2, <1>8 DEF m

(* Samples in order: p names them from the least to the largest.           *)
Sorts(p, samples) ==
    /\ p \in Bijection(1..Cardinality(Sampled(samples)), Sampled(samples))
    /\ \A i, j \in 1..Cardinality(Sampled(samples)) :
            i <= j => samples[p[i]] <= samples[p[j]]

(* Of the sorted samples the k-th is the one of rank k - 1.                *)
LEMMA RankedOfSorted ==
    ASSUME NEW D, IsFiniteSet(D), NEW f \in [D -> Nat], NEW p, Sorts(p, f),
           NEW k \in 1..Cardinality(Sampled(f))
    PROVE  Ranked(f, k - 1) = f[p[k]]
  <1> DEFINE T == Sampled(f)
             n == Cardinality(T)
             x == f[p[k]]
             y == Ranked(f, k - 1)
             First(l) == {p[i] : i \in 1..l}
  <1>1. /\ n \in Nat /\ \A i \in T : f[i] \in Nat \ {0}
        /\ \A S \in SUBSET T : IsFiniteSet(S) /\ Cardinality(S) \in Nat
    BY SampledFinite
  <1>2. /\ p \in [1..n -> T] /\ \A t \in T : \E i \in 1..n : p[i] = t
        /\ \A i, j \in 1..n : p[i] = p[j] => i = j
        /\ \A i, j \in 1..n : i <= j => f[p[i]] <= f[p[j]]
    BY DEF Sorts, Bijection, Injection, Surjection, IsInjective
  <1>3. k \in Nat /\ k >= 1 /\ k <= n /\ k \in 1..n /\ k - 1 \in Nat /\ k - 1 < n
    BY <1>1
  <1>4. x \in Nat
    BY <1>1, <1>2, <1>3
  <1>5. ASSUME NEW l \in 0..n
        PROVE  First(l) \in SUBSET T /\ Cardinality(First(l)) = l
    <2>1. First(l) \in SUBSET T /\ \A i \in 1..l : i \in 1..n
      BY <1>1, <1>2
    <2> DEFINE g == [i \in 1..l |-> p[i]]
    <2>2. g \in Bijection(1..l, First(l))
      BY <1>2, <2>1 DEF Bijection, Injection, Surjection, IsInjective
    <2>3. ExistsBijection(1..l, First(l))
      BY <2>2 DEF ExistsBijection
    <2>4. l \in Nat
      OBVIOUS
    <2> QED BY <2>1, <2>3, <2>4, FS_CountingElements
  <1>6. Below(f, x) <= k - 1
    <2> DEFINE S == {j \in T : f[j] < x}
    <2>1. S \in SUBSET First(k - 1)
      <3> SUFFICES ASSUME NEW j \in S PROVE j \in First(k - 1)
        OBVIOUS
      <3>1. PICK i \in 1..n : p[i] = j
        BY <1>2
      <3>2. ~(k <= i)
        BY <1>1, <1>2, <1>3, <1>4, <3>1
      <3>3. i \in 1..(k - 1)
        BY <1>1, <1>3, <3>2
      <3> QED BY <3>1, <3>3
    <2>2. k - 1 \in 0..n
      BY <1>1, <1>3
    <2>3. IsFiniteSet(First(k - 1)) /\ Cardinality(First(k - 1)) = k - 1
      BY <1>1, <1>5, <2>2
    <2>4. Cardinality(S) <= k - 1
      BY <2>1, <2>3, FS_Subset
    <2> QED BY <2>4 DEF Below
  <1>7. k - 1 < UpTo(f, x)
    <2> DEFINE S == {j \in T : f[j] <= x}
    <2>1. First(k) \in SUBSET S
      <3> SUFFICES ASSUME NEW i \in 1..k PROVE p[i] \in S
        OBVIOUS
      <3>1. i \in 1..n /\ i <= k
        BY <1>1, <1>3
      <3> QED BY <1>2, <1>3, <3>1
    <2>2. k \in 0..n
      BY <1>1, <1>3
    <2>3. Cardinality(First(k)) = k
      BY <1>5, <2>2
    <2>4. IsFiniteSet(S) /\ Cardinality(S) \in Nat
      BY <1>1
    <2>5. k <= Cardinality(S)
      BY <2>1, <2>3, <2>4, FS_Subset
    <2> HIDE DEF S
    <2>6. k - 1 < Cardinality(S)
      BY <1>3, <2>4, <2>5
    <2> QED BY <2>6 DEF UpTo, S
  <1>8. y \in Nat /\ Below(f, y) <= k - 1 /\ k - 1 < UpTo(f, y)
    BY <1>3, RankedOK
  <1>9. /\ Below(f, x) \in Nat /\ UpTo(f, x) \in Nat
        /\ Below(f, y) \in Nat /\ UpTo(f, y) \in Nat
        /\ x < y => UpTo(f, x) <= Below(f, y)
        /\ y < x => UpTo(f, y) <= Below(f, x)
    BY <1>4, <1>8, CountsOK
  <1> HIDE DEF x, y
  <1>10. ~(x < y) /\ ~(y < x)
    BY <1>3, <1>6, <1>7, <1>8, <1>9
  <1>11. x = y
    BY <1>4, <1>8, <1>10
  <1> QED BY <1>11 DEF x, y

(* The median is the textbook's: the middle one of the sorted samples, or  *)
(* the average of the two in the middle, rounded down once.                *)
LEMMA MedianOfSorted ==
    ASSUME NEW D, IsFiniteSet(D), NEW f \in [D -> Nat], NEW p, Sorts(p, f)
    PROVE  MedianWad(f) =
             LET n == Cardinality(Sampled(f))
             IN  IF n = 0 THEN 0
                 ELSE IF n % 2 = 1 THEN f[p[(n + 1) \div 2]]
                 ELSE (f[p[n \div 2]] + f[p[n \div 2 + 1]]) \div 2
  <1> DEFINE n == Cardinality(Sampled(f))
             a == Ranked(f, n \div 2 - 1)
             b == Ranked(f, n \div 2)
  <1>1. n \in Nat
    BY SampledFinite
  <1>2. MedianWad(f) = IF n = 0 THEN 0
                       ELSE IF n % 2 = 1 THEN b
                       ELSE (a \div 2) + (b \div 2) + (((a % 2) + (b % 2)) \div 2)
    BY DEF MedianWad
  <1>3. ASSUME n % 2 = 1 PROVE b = f[p[(n + 1) \div 2]]
    <2> DEFINE k == (n + 1) \div 2
    <2>1. k \in 1..n /\ k - 1 = n \div 2
      <3> HIDE DEF n
      <3> QED BY <1>1, <1>3, SMT
    <2> HIDE DEF k
    <2>2. Ranked(f, k - 1) = f[p[k]]
      BY <2>1, RankedOfSorted
    <2> QED BY <2>1, <2>2 DEF k
  <1>4. ASSUME n # 0, n % 2 # 1
        PROVE  (a \div 2) + (b \div 2) + (((a % 2) + (b % 2)) \div 2)
                    = (f[p[n \div 2]] + f[p[n \div 2 + 1]]) \div 2
    <2> DEFINE h == n \div 2
    <2>1. h \in 1..n /\ h + 1 \in 1..n /\ (h + 1) - 1 = h
          /\ h - 1 \in Nat /\ h - 1 < n /\ h \in Nat /\ h < n
      <3> HIDE DEF n
      <3> QED BY <1>1, <1>4, SMT
    <2>2. a = f[p[h]]
      BY <2>1, RankedOfSorted
    <2>3. b = f[p[h + 1]]
      <3> DEFINE k == h + 1
      <3> HIDE DEF k, h
      <3>1. k \in 1..n
        BY <2>1 DEF k
      <3>2. Ranked(f, k - 1) = f[p[k]]
        BY <3>1, RankedOfSorted
      <3>3. k - 1 = h
        BY <2>1 DEF k
      <3> QED BY <3>2, <3>3 DEF k, h
    <2>4. a \in Nat /\ b \in Nat
      BY <2>1, RankedOK
    <2>5. f[p[h]] <= f[p[h + 1]]
      BY <2>1 DEF Sorts
    <2>6. a <= b
      BY <2>2, <2>3, <2>5
    <2> HIDE DEF a, b
    <2>7. (a \div 2) + (b \div 2) + (((a % 2) + (b % 2)) \div 2) = (a + b) \div 2
      BY <2>4, <2>6, AverageOK
    <2> QED BY <2>2, <2>3, <2>7
  <1> QED BY <1>2, <1>3, <1>4

(* Any samples that are numbered can be put in order: each takes its place *)
(* after those that are smaller, and those that are equal and come first.  *)
LEMMA SortingExists ==
    ASSUME NEW D \in SUBSET Nat, IsFiniteSet(D), NEW f \in [D -> Nat]
    PROVE  \E p : Sorts(p, f)
  <1> DEFINE T == Sampled(f)
             n == Cardinality(T)
             Before(i, j) == f[i] < f[j] \/ (f[i] = f[j] /\ i < j)
             Ahead(i) == {j \in T : Before(j, i)}
             place == [i \in T |-> Cardinality(Ahead(i)) + 1]
             p == [k \in 1..n |-> CHOOSE i \in T : place[i] = k]
  <1>1. /\ IsFiniteSet(T) /\ n \in Nat
        /\ \A i \in T : i \in Nat /\ f[i] \in Nat
    BY SampledFinite DEF Sampled
  <1>2. \A i \in T : IsFiniteSet(Ahead(i)) /\ Cardinality(Ahead(i)) \in Nat
    BY SampledFinite
  <1>3. ASSUME NEW i \in T, NEW j \in T, Before(i, j)
        PROVE  place[i] < place[j]
    <2>1. Ahead(i) \in SUBSET Ahead(j) /\ i \in Ahead(j) /\ i \notin Ahead(i)
      BY <1>1, <1>3
    <2>2. Cardinality(Ahead(i)) <= Cardinality(Ahead(j)) /\ Cardinality(Ahead(i)) # Cardinality(Ahead(j))
      BY <1>2, <2>1, FS_Subset
    <2>3. place[i] = Cardinality(Ahead(i)) + 1 /\ place[j] = Cardinality(Ahead(j)) + 1
      OBVIOUS
    <2> HIDE DEF Ahead, T, place
    <2> QED BY <1>2, <2>2, <2>3
  <1>4. \A i, j \in T : i = j \/ Before(i, j) \/ Before(j, i)
    BY <1>1
  <1>5. ASSUME NEW i \in T
        PROVE  place[i] \in 1..n
    <2>1. Ahead(i) \in SUBSET T /\ i \notin Ahead(i)
      BY <1>1
    <2>2. Cardinality(Ahead(i)) <= n /\ Cardinality(Ahead(i)) # n
      BY <1>1, <2>1, FS_Subset
    <2>3. place[i] = Cardinality(Ahead(i)) + 1
      OBVIOUS
    <2> HIDE DEF Ahead, T, place, n
    <2> QED BY <1>1, <1>2, <2>2, <2>3
  <1> HIDE DEF Ahead
  <1>6. \A i, j \in T : place[i] = place[j] => i = j
    <2>1. \A i \in T : place[i] \in Nat
      BY <1>5
    <2> QED BY <1>3, <1>4, <2>1
  <1>7. place \in Injection(T, 1..n)
    BY <1>5, <1>6 DEF Injection, IsInjective
  <1>8. \A k \in 1..n : \E i \in T : place[i] = k
    <2>1. IsFiniteSet(1..n) /\ Cardinality(1..n) = n
      BY <1>1, FS_Interval
    <2>2. place \in Surjection(T, 1..n)
      <3> HIDE DEF place
      <3> QED BY <1>7, <2>1, FS_Injection
    <2> QED BY <2>2 DEF Surjection
  <1> HIDE DEF place
  <1>9. \A k \in 1..n : p[k] \in T /\ place[p[k]] = k
    BY <1>8
  <1>10. p \in Bijection(1..n, T)
    <2>1. p \in [1..n -> T]
      BY <1>9
    <2>2. \A i \in T : place[i] \in 1..n /\ p[place[i]] = i
      BY <1>5, <1>6, <1>9
    <2> HIDE DEF p, T, n
    <2>3. \A k, l \in 1..n : p[k] = p[l] => k = l
      BY <1>9
    <2> QED BY <2>1, <2>2, <2>3 DEF Bijection, Injection, Surjection, IsInjective
  <1>11. ASSUME NEW k \in 1..n, NEW l \in 1..n, k <= l
         PROVE  f[p[k]] <= f[p[l]]
    <2>1. p[k] \in T /\ p[l] \in T /\ place[p[k]] = k /\ place[p[l]] = l
      BY <1>9
    <2>2. f[p[k]] \in Nat /\ f[p[l]] \in Nat
      BY <1>1, <2>1
    <2> HIDE DEF p
    <2>3. ~Before(p[l], p[k])
      BY <1>1, <1>3, <1>11, <2>1
    <2> QED BY <2>2, <2>3
  <1> QED BY <1>10, <1>11 DEF Sorts
=============================================================================
