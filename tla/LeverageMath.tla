---------------------------- MODULE LeverageMath ----------------------------
(***************************************************************************)
(* The economics of crates/leverage-math: which synthetic of a pair lost,  *)
(* how much of it a rebalance mints into the two pools it lives in, how    *)
(* far the stored basis advances, and the median of the venue samples.     *)
(*                                                                         *)
(* The functions of the crate that return Option are split in two: a       *)
(* predicate (HasMarket, HasReturn, HasPlan) for "Some", and an operator   *)
(* for the value.  Integers keep the crate's widths through the constants  *)
(* U64Max, I64Max and I128Max; Wad is the fixed-point scale.  The code     *)
(* has 2^64-1, 2^63-1, 2^127-1 and 10^9; a TLC instance scales them down.  *)
(***************************************************************************)
EXTENDS Integers, FiniteSets

CONSTANTS Wad, U64Max, I64Max, I128Max

ASSUME WidthAssumption ==
    /\ Wad \in Nat \ {0}
    /\ U64Max \in Nat \ {0}
    /\ I64Max \in Nat \ {0}
    /\ I128Max \in Nat \ {0}

BpsDenom == 10000
CrankAbsorbBps == 3000
CrankMoveFloorBps == 75
CrankMoveCapBps == 200

Sides == {"A", "B"}
Other(side) == IF side = "A" THEN "B" ELSE "A"

Lesser(x, y) == IF x <= y THEN x ELSE y
Greater(x, y) == IF x >= y THEN x ELSE y
Magnitude(x) == IF x < 0 THEN -x ELSE x
Between(x, y, z) == Lesser(x, z) <= y /\ y <= Greater(x, z)

(* x.clamp(lo, hi) *)
Clamp(x, lo, hi) == Lesser(Greater(x, lo), hi)

(* Rust's signed division, d > 0: it truncates toward zero. *)
Truncated(n, d) == IF n >= 0 THEN n \div d ELSE -((-n) \div d)

(* A product of non-negative factors fits the signed 128-bit type; no      *)
(* intermediate value of the test exceeds I128Max.                         *)
FitsI128(x, y) == y = 0 \/ x <= I128Max \div y

(* saturating_mul of a signed x by a non-negative y. *)
SaturatingMul(x, y) ==
    IF FitsI128(Magnitude(x), y) THEN x * y
    ELSE IF x < 0 THEN -I128Max - 1 ELSE I128Max

-----------------------------------------------------------------------------
(* Moves of a price or of the A/B ratio, in basis points. *)

HasReturn(last, now) ==
    /\ last # 0
    /\ FitsI128(Magnitude(now - last), BpsDenom)
    /\ (Magnitude(now - last) * BpsDenom) \div last <= I64Max

ReturnBps(last, now) == Truncated((now - last) * BpsDenom, last)

(* There is a loser only when the move does not round to zero. *)
HasMove(last, now) == HasReturn(last, now) /\ ReturnBps(last, now) # 0

(* Mutant: the sides are swapped. *)
LoserSwapped(last, now) == IF ReturnBps(last, now) < 0 THEN "B" ELSE "A"

(* The underlying fell: the long side A lost; it rose: the inverse B lost. *)
Loser(last, now) == IF ReturnBps(last, now) < 0 THEN "A" ELSE "B"

AbsMove(last, now) == Magnitude(ReturnBps(last, now))

-----------------------------------------------------------------------------
(* Leverage and mint size. *)

ClampLeverage(user, lMin, lMax) ==
    Clamp(user, Lesser(lMin, lMax), Greater(lMin, lMax))

ElasticLeverage(lMin, lMax, reserve, supply) ==
    LET lo == Lesser(lMin, lMax)
        hi == Greater(lMin, lMax)
    IN  IF reserve + supply = 0 THEN lo
        ELSE Lesser(hi, lo + ((hi - lo) * ((reserve * BpsDenom) \div (reserve + supply)))
                              \div BpsDenom)

(* 0 stands for "the whole band"; the user's choice is then capped by the  *)
(* elastic leverage of the loser.                                          *)
PlanLeverage(user, lMin, lMax, reserve, supply) ==
    Lesser(ClampLeverage(IF user = 0 THEN lMax ELSE user, lMin, lMax),
           ElasticLeverage(lMin, lMax, reserve, supply))

(* Mutant: the cap is forgotten. *)
CapForgotten(frac, cap) == frac

CapFraction(frac, cap) == IF cap # 0 /\ frac > cap THEN cap ELSE frac

Breaks(move, breaker) == breaker # 0 /\ move >= breaker

LoserMint(reserve, move, leverage, cap, breaker) ==
    IF move = 0 \/ reserve = 0 \/ Breaks(move, breaker) THEN 0
    ELSE (reserve * CapFraction((move * leverage) \div BpsDenom, cap)) \div BpsDenom

ClampCrankMove(move) == Clamp(move, CrankMoveFloorBps, CrankMoveCapBps)

(* Mutant: the breaker looks at the clamped move. *)
PlannedMintClampedFirst(reserve, move, leverage, cap, breaker) ==
    LoserMint(reserve, ClampCrankMove(move), leverage, cap, breaker)

(* The loser minted into a pool of the given reserve: nothing when the     *)
(* actual move trips the breaker, else sized by the clamped move.          *)
PlannedMint(reserve, move, leverage, cap, breaker) ==
    IF Breaks(move, breaker) THEN 0
    ELSE LoserMint(reserve, ClampCrankMove(move), leverage, cap, 0)

-----------------------------------------------------------------------------
(* The two-pool plan.  pairRes, poolRes and supply are functions of the    *)
(* side: its reserve in the A/B pool, in its USDC pool, its mint supply.   *)

(* Mutant: both pools are given the mint of the pair pool. *)
PlanOneReserve(last, now, pairRes, poolRes, supply, user, lMin, lMax, cap, breaker) ==
    LET side == Loser(last, now)
        move == AbsMove(last, now)
        lev  == PlanLeverage(user, lMin, lMax, pairRes[side], supply[side])
        mint == PlannedMint(pairRes[side], move, lev, cap, breaker)
    IN  [side |-> side, pair |-> mint, pool |-> mint]

Plan(last, now, pairRes, poolRes, supply, user, lMin, lMax, cap, breaker) ==
    LET side == Loser(last, now)
        move == AbsMove(last, now)
        lev  == PlanLeverage(user, lMin, lMax, pairRes[side], supply[side])
    IN  [side |-> side,
         pair |-> PlannedMint(pairRes[side], move, lev, cap, breaker),
         pool |-> PlannedMint(poolRes[side], move, lev, cap, breaker)]

HasPlan(last, now, pairRes, poolRes, supply, user, lMin, lMax, cap, breaker) ==
    /\ HasMove(last, now)
    /\ LET plan == Plan(last, now, pairRes, poolRes, supply, user,
                        lMin, lMax, cap, breaker)
       IN  plan.pair <= U64Max /\ plan.pool <= U64Max

-----------------------------------------------------------------------------
(* Prices implied by the two USDC pools, and their ratio. *)

Price(reserve, quote) == (quote * Wad) \div reserve

HasMarket(poolRes, quoteRes) ==
    /\ poolRes["A"] # 0
    /\ poolRes["B"] # 0
    /\ Price(poolRes["B"], quoteRes["B"]) # 0

MarketRatio(poolRes, quoteRes) ==
    (Price(poolRes["A"], quoteRes["A"]) * Wad) \div Price(poolRes["B"], quoteRes["B"])

-----------------------------------------------------------------------------
(* The basis after a crank: absorb/10000 of the gap, never to zero or less. *)

PartialAdvance(last, now, absorb) ==
    IF absorb = 0 THEN last
    ELSE IF absorb >= BpsDenom THEN now
    ELSE LET new == last + Truncated(SaturatingMul(now - last, absorb), BpsDenom)
         IN  IF new <= 0 THEN last ELSE new

-----------------------------------------------------------------------------
(* The median of the samples that are not zero, 0 when there is none: the  *)
(* middle sample in order, or the average of the two middle ones.          *)

Sampled(samples) == {i \in DOMAIN samples : samples[i] > 0}

(* The sample of rank k among those taken, counting from 0. *)
Ranked(samples, k) ==
    LET taken == Sampled(samples)
        below(i) == Cardinality({j \in taken : samples[j] < samples[i]})
        upTo(i)  == Cardinality({j \in taken : samples[j] <= samples[i]})
    IN  samples[CHOOSE i \in taken : below(i) <= k /\ k < upTo(i)]

(* Mutant: the halves are added without their remainders. *)
MedianWadLossy(samples) ==
    LET n == Cardinality(Sampled(samples))
        a == Ranked(samples, n \div 2 - 1)
        b == Ranked(samples, n \div 2)
    IN  IF n = 0 THEN 0
        ELSE IF n % 2 = 1 THEN b
        ELSE (a \div 2) + (b \div 2)

MedianWad(samples) ==
    LET n == Cardinality(Sampled(samples))
        a == Ranked(samples, n \div 2 - 1)
        b == Ranked(samples, n \div 2)
    IN  IF n = 0 THEN 0
        ELSE IF n % 2 = 1 THEN b
        ELSE (a \div 2) + (b \div 2) + (((a % 2) + (b % 2)) \div 2)
=============================================================================
