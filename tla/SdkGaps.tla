------------------------------ MODULE SdkGaps -------------------------------
(***************************************************************************)
(* What the searcher SDK looks for in a market: the search for the best    *)
(* input of a chain of swaps (cpswap.ts), the gaps it sizes with it and    *)
(* the deviation from a price the caller brings (gap.ts).  A number with a *)
(* fraction (a fair price) is a numerator and a denominator.               *)
(***************************************************************************)
EXTENDS SdkMarket

-----------------------------------------------------------------------------
(* cpswap.ts: the size of a trade. *)

(* Mutant: the bound of the search is not a candidate. *)
BestInExclusive(profit, lo, hi) ==
    CHOOSE x \in lo..(hi - 1) :
        \A y \in lo..(hi - 1) :
            profit[y] < profit[x] \/ (profit[y] = profit[x] /\ x <= y)

(* The first of the most profitable inputs of a window. *)
BestIn(profit, lo, hi) ==
    CHOOSE x \in lo..hi :
        \A y \in lo..hi :
            profit[y] < profit[x] \/ (profit[y] = profit[x] /\ x <= y)

(* `payoff` is a function of the inputs 0..top.  The thirds of the window  *)
(* are compared until two inputs are left; the code's limit of 200 rounds  *)
(* is out of reach, a round drops a third.                                 *)
OptimalInput(payoff, top) ==
    LET profit == [x \in 0..top |-> payoff[x] - x]
        window[w \in Int \X Int] ==
            LET lo == w[1]
                hi == w[2]
                m1 == lo + (hi - lo) \div 3
                m2 == hi - (hi - lo) \div 3
            IN  IF hi - lo <= 1 THEN w
                ELSE IF profit[m1] < profit[m2] THEN window[<<m1 + 1, hi>>]
                ELSE window[<<lo, m2 - 1>>]
        left == window[<<0, top>>]
        best == BestIn(profit, left[1], left[2])
    IN  [input |-> best, output |-> payoff[best], profit |-> profit[best]]

(* gap.ts: the better of the two cycles at its best input. *)
TriangleGap(r, fee) ==
    LET search(side) ==
            LET top == IF r.quote[side] > 0 THEN r.quote[side] ELSE 1
            IN  OptimalInput([dx \in 0..top |-> CycleHops(r, side, dx, fee).last], top)
        side == IF search("A").profit >= search("B").profit THEN "A" ELSE "B"
    IN  IF search(side).profit <= 0 THEN Nothing
        ELSE [some |-> TRUE, side |-> side, input |-> search(side).input,
              output |-> search(side).output, profit |-> search(side).profit]

(* legExternalArb: a fair price of num/den USDC per token against the      *)
(* pool's.  A cheap pool is bought from, the tokens valued at the fair     *)
(* price rounded down; a rich one is sold to, the tokens' cost rounded up. *)
ExternalArb(tokens, usdc, num, den, fee) ==
    LET bought == [dx \in 0..usdc |-> (AmountOut(dx, usdc, tokens, fee) * num) \div den]
        cost(x) == (x * num + den - 1) \div den
        \* what x tokens sell for, less what they cost, plus x: OptimalInput
        \* takes the input off again
        sold == [x \in 0..tokens |-> AmountOut(x, tokens, usdc, fee) - cost(x) + x]
        cheap == usdc * den < tokens * num
        found == IF cheap THEN OptimalInput(bought, usdc) ELSE OptimalInput(sold, tokens)
    IN  IF num <= 0 \/ tokens <= 0 \/ usdc <= 0 \/ found.profit <= 0 THEN Nothing
        ELSE [some |-> TRUE, action |-> IF cheap THEN "buy" ELSE "sell",
              input |-> found.input, profit |-> found.profit]

(* pegGap: the leg furthest from its fair price and the trade that closes  *)
(* the gap; fair[s] is num/den, a deviation is kept as a fraction.         *)
PegDeviation(r, s, fair) ==
    IF fair[s].num <= 0 THEN [num |-> 0, den |-> 1]
    ELSE IF r.pool[s] = 0 THEN [num |-> -1, den |-> 1]
    ELSE [num |-> r.quote[s] * fair[s].den - r.pool[s] * fair[s].num,
          den |-> r.pool[s] * fair[s].num]

PegGap(r, fair) ==
    LET dev(s) == PegDeviation(r, s, fair)
        further(s, t) == Magnitude(dev(s).num) * dev(t).den
                            >= Magnitude(dev(t).num) * dev(s).den
        worst == IF further("A", "B") /\ dev("A").num # 0 THEN "A" ELSE "B"
    IN  IF dev(worst).num = 0 THEN Nothing
        ELSE [some |-> TRUE, side |-> worst,
              action |-> IF dev(worst).num > 0 THEN "sell" ELSE "buy"]
=============================================================================
