------------------------------- MODULE SdkMarket ------------------------------
(***************************************************************************)
(* The searcher SDK's view of a market (sdk/searchergap): a hop through a  *)
(* Raydium CP-Swap pool, the cycle through the three pools, what a crank's *)
(* donation does to their reserves, and the SDK's own port of the          *)
(* rebalance economics (leverage-math.ts).                                 *)
(*                                                                         *)
(* The reserves of a market (TriangleReserves) are a record of functions   *)
(* of the side: pair, its reserve in the A/B pool; pool, its reserve in    *)
(* its USDC pool; quote, the USDC of that pool; supply, that of its mint.  *)
(***************************************************************************)
EXTENDS LeverageMath

Triangle == [pair : [Sides -> Nat], pool : [Sides -> Nat],
             quote : [Sides -> Nat], supply : [Sides -> Nat]]

(* Swapping dx in: the fee is taken on the input, a fee of 100% or more    *)
(* counts as 9999 bps.                                                     *)
AmountOut(dx, rIn, rOut, fee) ==
    LET kept == dx * (BpsDenom - Clamp(fee, 0, BpsDenom - 1))
    IN  IF dx <= 0 \/ rIn <= 0 \/ rOut <= 0 THEN 0
        ELSE (rOut * kept) \div (rIn * BpsDenom + kept)

(* The amounts along the cycle that starts by buying side: USDC -> side,   *)
(* side -> the other side, the other side -> USDC.                         *)
CycleHops(r, side, dx, fee) ==
    LET first  == AmountOut(dx, r.quote[side], r.pool[side], fee)
        second == AmountOut(first, r.pair[side], r.pair[Other(side)], fee)
    IN  [first |-> first, second |-> second,
         last |-> AmountOut(second, r.pool[Other(side)], r.quote[Other(side)], fee)]

(* What the SDK expects of a crank: the loser is minted into its two       *)
(* vaults, the quote side is untouched.                                    *)
AfterCrank(r, plan) ==
    [r EXCEPT !.pair[plan.side] = @ + plan.pair,
              !.pool[plan.side] = @ + plan.pool,
              !.supply[plan.side] = @ + plan.pair + plan.pool]

(* A swap of dx USDC for side, in its USDC pool. *)
AfterLegBuy(r, side, dx, fee) ==
    [r EXCEPT !.quote[side] = @ + dx,
              !.pool[side] = @ - AmountOut(dx, r.quote[side], r.pool[side], fee)]

-----------------------------------------------------------------------------
(* leverage-math.ts: null is a record whose some is FALSE. *)

Nothing == [some |-> FALSE]

SdkReturn(last, now) == Truncated((now - last) * BpsDenom, last)

ImpliedMarket(r) ==
    IF r.pool["A"] = 0 \/ r.pool["B"] = 0 THEN Nothing
    ELSE LET price == [s \in Sides |-> (r.quote[s] * Wad) \div r.pool[s]]
         IN  IF price["B"] = 0 THEN Nothing
             ELSE [some |-> TRUE,
                   price |-> price,
                   mcap  |-> [s \in Sides |-> (r.supply[s] * price[s]) \div Wad],
                   ratio |-> (price["A"] * Wad) \div price["B"]]

SdkElastic(r, side, lo, hi) ==
    LET whole == r.pair[side] + r.supply[side]
    IN  IF whole = 0 THEN lo
        ELSE Lesser(lo + ((hi - lo) * ((r.pair[side] * BpsDenom) \div whole)) \div BpsDenom, hi)

SdkLeverage(r, side, user, band) ==
    LET lo == Lesser(band.lMin, band.lMax)
        hi == Greater(band.lMin, band.lMax)
    IN  Lesser(Clamp(IF user = 0 THEN band.lMax ELSE user, lo, hi), SdkElastic(r, side, lo, hi))

SdkSized(move) == Clamp(Magnitude(move), CrankMoveFloorBps, CrankMoveCapBps)

SdkMintAmount(reserve, move, leverage, cap) ==
    LET frac == (move * leverage) \div BpsDenom
    IN  IF move = 0 \/ reserve = 0 THEN 0
        ELSE (reserve * (IF cap # 0 THEN Lesser(frac, cap) ELSE frac)) \div BpsDenom

(* Mutant: the breaker is asked about the sized move. *)
SdkPlanSizedFirst(last, now, r, user, band) ==
    LET move == IF last = 0 THEN 0 ELSE SdkReturn(last, now)
        side == IF move < 0 THEN "A" ELSE "B"
        lev  == SdkLeverage(r, side, user, band)
        sized == SdkSized(move)
        tripped == band.breaker # 0 /\ sized >= band.breaker
        amount(reserve) == IF tripped THEN 0
                           ELSE SdkMintAmount(reserve, sized, lev, band.maxMint)
    IN  IF move = 0 THEN Nothing
        ELSE [some |-> TRUE, side |-> side, tripped |-> tripped, move |-> Magnitude(move),
              pair |-> amount(r.pair[side]), pool |-> amount(r.pool[side])]

(* planFromMarket, with last and now the market's ratio, and               *)
(* planTwoPoolFromOracleWad, with last and now the underlying's price.     *)
SdkPlan(last, now, r, user, band) ==
    LET move == IF last = 0 THEN 0 ELSE SdkReturn(last, now)
        side == IF move < 0 THEN "A" ELSE "B"
        lev  == SdkLeverage(r, side, user, band)
        sized == SdkSized(move)
        tripped == band.breaker # 0 /\ Magnitude(move) >= band.breaker
        amount(reserve) == IF tripped THEN 0
                           ELSE SdkMintAmount(reserve, sized, lev, band.maxMint)
    IN  IF move = 0 THEN Nothing
        ELSE [some |-> TRUE, side |-> side, tripped |-> tripped, move |-> Magnitude(move),
              pair |-> amount(r.pair[side]), pool |-> amount(r.pool[side])]

(* partialRatioAdvance *)
SdkAdvance(last, now, absorb) ==
    LET next == last + Truncated((now - last) * absorb, BpsDenom)
    IN  IF absorb = 0 THEN last
        ELSE IF absorb >= BpsDenom THEN now
        ELSE IF next <= 0 THEN last ELSE next

(* gap.ts: what a crank would do now, or why it would do nothing. *)
SimulateCrank(r, lastRatio, user, band, sameSlot) ==
    LET market == ImpliedMarket(r)
        plan == SdkPlan(lastRatio, market.ratio, r, user, band)
    IN  IF sameSlot THEN [noop |-> "same-slot"]
        ELSE IF ~market.some THEN [noop |-> "no-market"]
        ELSE IF ~plan.some THEN [noop |-> "flat"]
        ELSE IF plan.tripped THEN [noop |-> "breaker"]
        ELSE [noop |-> "none", plan |-> plan]
=============================================================================
