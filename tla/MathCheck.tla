----------------------------- MODULE MathCheck -----------------------------
(***************************************************************************)
(* Drives the calculations of the crate (LeverageMath), the searcher SDK   *)
(* (SdkGaps) and the flux router (FluxQuote) over bounded inputs.  A step  *)
(* picks the arguments of one calculation, the next step clears them; the  *)
(* invariants compare the result with a definition of what it should be.   *)
(***************************************************************************)
EXTENDS SdkGaps, QuoteCheck

LOCAL INSTANCE FiniteSetsExt

CONSTANTS LMin, LMax, MaxMint,
          Depths,       \* reserves of the pools of a triangle
          Moved,        \* a ratio that Wad has moved to
          CycleFee      \* the trade fee of those pools, in bps

Idle == [of |-> "idle"]
TriangleCalcs == [of : {"triangle"}, pair : [Sides -> Depths], pool : [Sides -> Depths],
                  quote : [Sides -> Depths], now : Moved]

Init == calc = Idle

Pick == /\ calc = Idle
        /\ calc' \in MedianCalcs \cup TriangleCalcs \cup FluxCalcs

Clear == /\ calc # Idle
         /\ calc' = Idle

Next == Pick \/ Clear

Spec == Init /\ [][Next]_calc

-----------------------------------------------------------------------------
(* A market whose mints are as large as its pools. *)
Market(c) == [pair |-> c.pair, pool |-> c.pool, quote |-> c.quote,
              supply |-> [s \in Sides |-> c.pair[s] + c.pool[s]]]

Profits(r) ==
    {CycleHops(r, s, dx, CycleFee).last - dx : s \in Sides, dx \in 1..Greater(r.quote["A"], r.quote["B"])}

BestProfit(r) == Max(Profits(r))

ProfitOf(gap) == IF gap.some THEN gap.profit ELSE 0

(* What a leg can be bought or sold for at a fair price of one. *)
LegProfits(r, side) ==
    {AmountOut(dx, r.quote[side], r.pool[side], CycleFee) - dx : dx \in 1..r.quote[side]}
    \cup {AmountOut(x, r.pool[side], r.quote[side], CycleFee) - x : x \in 1..r.pool[side]}

(* Rounding makes the profit of a trade bumpy, and a search by thirds can  *)
(* lose its way on bumps: what it finds is still within three units of the *)
(* best input, in the better direction, of the cycle through the pools and *)
(* of a leg against a fair price; and a leg that has such a trade and is   *)
(* the furthest from its price is the one, and the direction, PegGap says. *)
SearchNearBest ==
    calc.of = "triangle" =>
        LET r == Market(calc)
            par == [num |-> 1, den |-> 1]
            arb(side) == ExternalArb(r.pool[side], r.quote[side], 1, 1, CycleFee)
            peg == PegGap(r, [s \in Sides |-> par])
        IN  /\ BestProfit(r) <= ProfitOf(TriangleGap(r, CycleFee)) + 3
            /\ \A side \in Sides : Max(LegProfits(r, side)) <= ProfitOf(arb(side)) + 3
            /\ \A side \in Sides : arb(side).some => peg.some
            /\ peg.some => (arb(peg.side).some => arb(peg.side).action = peg.action)

(* A crank mints into the pair pool and the USDC pool by the same          *)
(* fraction: whatever gap the triangle had, the crank itself hands         *)
(* searchers no more than two units of rounding.                           *)
CrankOpensNoGap ==
    calc.of = "triangle" =>
        LET r == Market(calc)
            plan == Plan(Wad, calc.now, r.pair, r.pool, r.supply, 0, LMin, LMax, MaxMint, 0)
        IN  BestProfit(AfterCrank(r, plan)) <= Greater(BestProfit(r), 0) + 2
=============================================================================
