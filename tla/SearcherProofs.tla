---------------------------- MODULE SearcherProofs ---------------------------
(***************************************************************************)
(* What module Searcher promises for any fee, band, market, sizes and      *)
(* prices: every bundle that lands pays, the bundles that only pass        *)
(* through a leg take none of the keeper's, every tick comes nearer to its *)
(* end, and the crank the SDK foresees is the one the program would make.  *)
(* The inductive invariant is IInv: a bundle that is simulated or under    *)
(* way has one of four shapes, in which a later leg takes no more than an  *)
(* earlier one gave.                                                       *)
(***************************************************************************)
EXTENDS Searcher, LeverageProofs

-----------------------------------------------------------------------------
(* A swap of the pools. *)

(* A pool gives at most what it has. *)
LEMMA AmountOutIsPart ==
    ASSUME NEW dx \in Int, NEW rIn \in Nat, NEW rOut \in Nat, NEW fee \in Nat
    PROVE  AmountOut(dx, rIn, rOut, fee) \in 0..rOut
  <1>1. CASE dx <= 0 \/ rIn <= 0 \/ rOut <= 0
    BY <1>1, SMT DEF AmountOut
  <1>2. CASE ~(dx <= 0 \/ rIn <= 0 \/ rOut <= 0)
    <2> DEFINE part == BpsDenom - Clamp(fee, 0, BpsDenom - 1)
               kept == dx * part
               whole == rIn * BpsDenom
               q == (rOut * kept) \div (whole + kept)
    <2>1. part \in Nat \ {0} /\ whole \in Nat
      BY <1>2, SMT DEF Clamp, Lesser, Greater, BpsDenom
    <2> HIDE DEF part, whole
    <2>2. kept \in Nat \ {0}
      BY <1>2, <2>1, SMT
    <2> HIDE DEF kept
    <2>3. rOut * kept \in Nat /\ whole + kept \in Nat \ {0}
      BY <2>1, <2>2, SMT
    <2>4. q \in Nat /\ q * (whole + kept) <= rOut * kept
      BY <2>3, DivIsFloor
    <2>5. AmountOut(dx, rIn, rOut, fee) = q
      BY <1>2 DEF AmountOut, q, kept, part, whole
    <2> HIDE DEF q
    <2>6. q * kept <= q * (whole + kept)
      <3>1. kept * q <= (whole + kept) * q
        BY <2>1, <2>2, <2>3, <2>4, MulKeepsOrder, SMT
      <3> QED BY <2>1, <2>2, <2>4, <3>1, SMT
    <2>7. q * kept < (rOut + 1) * kept
      BY <2>1, <2>2, <2>3, <2>4, <2>6, SMT
    <2>8. q < rOut + 1
      BY <2>2, <2>4, <2>7, MulCancels, SMT
    <2> QED BY <2>4, <2>5, <2>8, SMT
  <1> QED BY <1>1, <1>2

LEMMA AmountOutIsNat ==
    ASSUME NEW dx \in Int, NEW rIn \in Nat, NEW rOut \in Nat, NEW fee \in Nat
    PROVE  AmountOut(dx, rIn, rOut, fee) \in Nat
  <1>1. AmountOut(dx, rIn, rOut, fee) \in 0..rOut
    BY AmountOutIsPart
  <1> QED BY <1>1

-----------------------------------------------------------------------------
(* The plans of the SDK and of the program, which a bundle is built on and *)
(* which a crank carries out.                                              *)

LEMMA PlanIsNat ==
    ASSUME NEW last \in Nat \ {0}, NEW now \in Nat, NEW r \in Triangle, HasMove(last, now)
    PROVE  LET plan == Plan(last, now, r.pair, r.pool, r.supply, 0,
                            Band.lMin, Band.lMax, Band.maxMint, Band.breaker)
           IN  plan.side \in Sides /\ plan.pair \in Nat /\ plan.pool \in Nat
  <1> DEFINE side == Loser(last, now)
             move == AbsMove(last, now)
             lev == PlanLeverage(0, Band.lMin, Band.lMax, r.pair[side], r.supply[side])
             plan == Plan(last, now, r.pair, r.pool, r.supply, 0,
                          Band.lMin, Band.lMax, Band.maxMint, Band.breaker)
  <1>1. side \in Sides
    BY DEF Loser, Sides
  <1>2. move \in Nat
    BY MoveOfReturn
  <1>3. /\ Band.lMin \in Nat /\ Band.lMax \in Nat
        /\ Band.maxMint \in Nat /\ Band.breaker \in Nat
    BY SearcherAssumption
  <1>4. r.pair[side] \in Nat /\ r.pool[side] \in Nat /\ r.supply[side] \in Nat
    BY <1>1 DEF Triangle
  <1>5. plan = [side |-> side,
                pair |-> PlannedMint(r.pair[side], move, lev, Band.maxMint, Band.breaker),
                pool |-> PlannedMint(r.pool[side], move, lev, Band.maxMint, Band.breaker)]
    BY DEF Plan
  <1> HIDE DEF side, move, plan
  <1>6. lev \in Nat
    BY <1>3, <1>4, PlanLeverageIsNat
  <1> HIDE DEF lev
  <1>7. /\ PlannedMint(r.pair[side], move, lev, Band.maxMint, Band.breaker) \in Nat
        /\ PlannedMint(r.pool[side], move, lev, Band.maxMint, Band.breaker) \in Nat
    BY <1>2, <1>3, <1>4, <1>6, PlannedMintCapped
  <1>8. plan.side \in Sides /\ plan.pair \in Nat /\ plan.pool \in Nat
    BY <1>1, <1>5, <1>7
  <1> QED BY <1>8 DEF plan

LEMMA SdkMintIsNat ==
    ASSUME NEW reserve \in Nat, NEW move \in Nat, NEW lev \in Nat, NEW cap \in Nat
    PROVE  SdkMintAmount(reserve, move, lev, cap) \in Nat
  <1> DEFINE frac == (move * lev) \div BpsDenom
             used == IF cap # 0 THEN Lesser(frac, cap) ELSE frac
  <1>1. BpsDenom \in Nat \ {0} /\ move * lev \in Nat
    BY SMT DEF BpsDenom
  <1>2. frac \in Nat
    BY <1>1, DivIsFloor
  <1> HIDE DEF frac
  <1>3. used \in Nat
    BY <1>2 DEF Lesser
  <1> HIDE DEF used
  <1>4. reserve * used \in Nat
    BY <1>3, SMT
  <1>5. (reserve * used) \div BpsDenom \in Nat
    BY <1>1, <1>4, DivIsFloor
  <1>6. SdkMintAmount(reserve, move, lev, cap) \in {0, (reserve * used) \div BpsDenom}
    BY DEF SdkMintAmount, used, frac
  <1> QED BY <1>5, <1>6

(* Who is planned to be minted, and how much of it. *)
LEMMA SdkPlanIsNat ==
    ASSUME NEW last \in Nat, NEW now \in Nat, NEW r \in Triangle,
           SdkPlan(last, now, r, 0, Band).some
    PROVE  LET plan == SdkPlan(last, now, r, 0, Band)
           IN  plan.side \in Sides /\ plan.pair \in Nat /\ plan.pool \in Nat
  <1> DEFINE move == IF last = 0 THEN 0 ELSE SdkReturn(last, now)
             side == IF move < 0 THEN "A" ELSE "B"
             lev == SdkLeverage(r, side, 0, Band)
             sized == SdkSized(move)
             tripped == Band.breaker # 0 /\ Magnitude(move) >= Band.breaker
             amount(reserve) == IF tripped THEN 0
                                ELSE SdkMintAmount(reserve, sized, lev, Band.maxMint)
             plan == SdkPlan(last, now, r, 0, Band)
  <1>1. side \in Sides
    BY DEF Sides
  <1>2. r.pair[side] \in Nat /\ r.pool[side] \in Nat /\ r.supply[side] \in Nat
    BY <1>1 DEF Triangle
  <1>3. /\ Band.lMin \in Nat /\ Band.lMax \in Nat
        /\ Band.maxMint \in Nat /\ Band.breaker \in Nat
    BY SearcherAssumption
  <1>4. move \in Int
    <2>1. CASE last = 0
      BY <2>1
    <2>2. CASE last # 0
      <3>1. SdkReturn(last, now) \in Int
        BY <2>2, SMT DEF SdkReturn, Truncated, BpsDenom
      <3> QED BY <2>2, <3>1
    <2> QED BY <2>1, <2>2
  <1>5. plan = IF move = 0 THEN Nothing
               ELSE [some |-> TRUE, side |-> side, tripped |-> tripped, move |-> Magnitude(move),
                     pair |-> amount(r.pair[side]), pool |-> amount(r.pool[side])]
    BY DEF SdkPlan
  <1> HIDE DEF move, side, plan
  <1>6. sized \in Nat
    BY <1>4, SMT DEF SdkSized, Clamp, Lesser, Greater, Magnitude, CrankMoveFloorBps,
                     CrankMoveCapBps
  <1>7. lev \in Nat
    <2> DEFINE lo == Lesser(Band.lMin, Band.lMax)
               hi == Greater(Band.lMin, Band.lMax)
               whole == r.pair[side] + r.supply[side]
               share == (r.pair[side] * BpsDenom) \div whole
               up == ((hi - lo) * share) \div BpsDenom
    <2>1. lo \in Nat /\ hi \in Nat /\ hi - lo \in Nat
      BY <1>3, SMT DEF Lesser, Greater
    <2>2. whole \in Nat /\ r.pair[side] * BpsDenom \in Nat /\ BpsDenom \in Nat \ {0}
      BY <1>2, SMT DEF BpsDenom
    <2>3. Clamp(Band.lMax, lo, hi) \in Nat
      BY <1>3, <2>1 DEF Clamp, Lesser, Greater
    <2>4. SdkElastic(r, side, lo, hi) =
              IF whole = 0 THEN lo ELSE Lesser(lo + up, hi)
      BY DEF SdkElastic
    <2>5. lev = Lesser(Clamp(Band.lMax, lo, hi), SdkElastic(r, side, lo, hi))
      BY DEF SdkLeverage
    <2> HIDE DEF lo, hi, whole, lev
    <2>6. SdkElastic(r, side, lo, hi) \in Nat
      <3>1. CASE whole = 0
        BY <2>1, <2>4, <3>1
      <3>2. CASE whole # 0
        <4>1. share \in Nat
          BY <2>2, <3>2, DivIsFloor
        <4> HIDE DEF share
        <4>2. (hi - lo) * share \in Nat
          BY <2>1, <4>1, SMT
        <4>3. up \in Nat
          BY <2>2, <4>2, DivIsFloor
        <4> HIDE DEF up
        <4>4. SdkElastic(r, side, lo, hi) \in {lo + up, hi}
          BY <2>4, <3>2 DEF Lesser
        <4> QED BY <2>1, <4>3, <4>4, SMT
      <3> QED BY <3>1, <3>2
    <2> QED BY <2>3, <2>5, <2>6 DEF Lesser
  <1> HIDE DEF sized, lev
  <1>8. amount(r.pair[side]) \in Nat /\ amount(r.pool[side]) \in Nat
    BY <1>2, <1>3, <1>6, <1>7, SdkMintIsNat
  <1> HIDE DEF amount, tripped
  <1>9. plan.some => plan.side = side /\ plan.pair = amount(r.pair[side])
                        /\ plan.pool = amount(r.pool[side])
    BY <1>5 DEF Nothing
  <1>10. plan.some => plan.side \in Sides /\ plan.pair \in Nat /\ plan.pool \in Nat
    BY <1>1, <1>8, <1>9
  <1> QED BY <1>10 DEF plan

-----------------------------------------------------------------------------
(* What a transaction does, instruction by instruction. *)

Purses == [Tokens -> Nat]
States == [ok : BOOLEAN, market : Triangle, basis : Nat \ {0}, ratio : Nat \ {0},
           wallet : Purses]

(* Paid for in one token, paid out in another. *)
Exchanged(w, give, get, in, out) == [w EXCEPT ![give] = @ - in, ![get] = @ + out]

LEMMA MintedIsTriangle ==
    ASSUME NEW r \in Triangle, NEW plan,
           plan.side \in Sides, plan.pair \in Nat, plan.pool \in Nat
    PROVE  AfterCrank(r, plan) \in Triangle
  <1> DEFINE pair == [r.pair EXCEPT ![plan.side] = @ + plan.pair]
             pool == [r.pool EXCEPT ![plan.side] = @ + plan.pool]
             supply == [r.supply EXCEPT ![plan.side] = @ + plan.pair + plan.pool]
  <1>1. /\ r.pair \in [Sides -> Nat] /\ r.pool \in [Sides -> Nat] /\ r.supply \in [Sides -> Nat]
    BY DEF Triangle
  <1>2. /\ r.pair[plan.side] + plan.pair \in Nat /\ r.pool[plan.side] + plan.pool \in Nat
        /\ r.supply[plan.side] + plan.pair + plan.pool \in Nat
    BY <1>1
  <1>3. /\ pair \in [Sides -> Nat] /\ pool \in [Sides -> Nat] /\ supply \in [Sides -> Nat]
    BY <1>1, <1>2
  <1>4. AfterCrank(r, plan) = [r EXCEPT !.pair = pair, !.pool = pool, !.supply = supply]
    BY DEF AfterCrank, Triangle
  <1> HIDE DEF pair, pool, supply
  <1> QED BY <1>3, <1>4 DEF Triangle

LEMMA ReservesAreNat ==
    ASSUME NEW r \in Triangle, NEW token \in Tokens, NEW other \in Tokens, token # other
    PROVE  ReserveOf(r, token, other) \in Nat
  BY DEF ReserveOf, Triangle, Tokens, Sides

LEMMA ShiftedIsTriangle ==
    ASSUME NEW r \in Triangle, NEW token \in Tokens, NEW other \in Tokens, token # other,
           NEW by \in Int, ReserveOf(r, token, other) + by \in Nat
    PROVE  Shifted(r, token, other, by) \in Triangle
  <1>1. CASE token = "usdc"
    <2>1. other \in Sides /\ r.quote[other] + by \in Nat
      BY <1>1 DEF Tokens, Sides, ReserveOf
    <2>2. Shifted(r, token, other, by) = [r EXCEPT !.quote[other] = @ + by]
      BY <1>1 DEF Shifted
    <2> QED BY <2>1, <2>2 DEF Triangle
  <1>2. CASE token # "usdc" /\ other = "usdc"
    <2>1. token \in Sides /\ r.pool[token] + by \in Nat
      BY <1>2 DEF Tokens, Sides, ReserveOf
    <2>2. Shifted(r, token, other, by) = [r EXCEPT !.pool[token] = @ + by]
      BY <1>2 DEF Shifted
    <2> QED BY <2>1, <2>2 DEF Triangle
  <1>3. CASE token # "usdc" /\ other # "usdc"
    <2>1. token \in Sides /\ r.pair[token] + by \in Nat
      BY <1>3 DEF Tokens, Sides, ReserveOf
    <2>2. Shifted(r, token, other, by) = [r EXCEPT !.pair[token] = @ + by]
      BY <1>3 DEF Shifted
    <2> QED BY <2>1, <2>2 DEF Triangle
  <1> QED BY <1>1, <1>2, <1>3

(* What is put into one reserve leaves the other one as it is. *)
LEMMA OtherReserveStays ==
    ASSUME NEW r \in Triangle, NEW token \in Tokens, NEW other \in Tokens, token # other,
           NEW by \in Int, ReserveOf(r, token, other) + by \in Nat
    PROVE  ReserveOf(Shifted(r, token, other, by), other, token) = ReserveOf(r, other, token)
  BY DEF ReserveOf, Shifted, Tokens, Triangle, Sides

(* Reserves stay reserves whatever is swapped. *)
LEMMA SwapKeepsTriangle ==
    ASSUME NEW r \in Triangle, NEW give \in Tokens, NEW get \in Tokens, give # get,
           NEW in \in Nat,
           NEW out \in 0..ReserveOf(r, get, give)
    PROVE  Shifted(Shifted(r, give, get, in), get, give, -out) \in Triangle
  <1> DEFINE mid == Shifted(r, give, get, in)
  <1>1. ReserveOf(r, give, get) \in Nat /\ ReserveOf(r, get, give) \in Nat
    BY ReservesAreNat
  <1>2. in \in Int /\ ReserveOf(r, give, get) + in \in Nat
    BY <1>1
  <1>3. mid \in Triangle
    BY <1>2, ShiftedIsTriangle
  <1>4. ReserveOf(mid, get, give) = ReserveOf(r, get, give)
    BY <1>2, OtherReserveStays
  <1> HIDE DEF mid
  <1>5. -out \in Int /\ ReserveOf(mid, get, give) + (-out) \in Nat
    BY <1>1, <1>4
  <1>6. Shifted(mid, get, give, -out) \in Triangle
    BY <1>3, <1>5, ShiftedIsTriangle
  <1> QED BY <1>6 DEF mid

LEMMA ExchangedIsWallet ==
    ASSUME NEW w \in Purses, NEW give \in Tokens, NEW get \in Tokens, give # get,
           NEW in \in Nat, NEW out \in Nat, w[give] >= in
    PROVE  Exchanged(w, give, get, in, out) \in Purses
  <1>1. w[give] - in \in Nat /\ w[get] + out \in Nat
    BY DEF Purses
  <1> QED BY <1>1 DEF Exchanged, Purses

LEMMA ExchangedAt ==
    ASSUME NEW w \in Purses, NEW give \in Tokens, NEW get \in Tokens, give # get,
           NEW in \in Nat, NEW out \in Nat
    PROVE  /\ Exchanged(w, give, get, in, out)[give] = w[give] - in
           /\ Exchanged(w, give, get, in, out)[get] = w[get] + out
           /\ \A t \in Tokens \ {give, get} : Exchanged(w, give, get, in, out)[t] = w[t]
  BY DEF Exchanged, Purses

LEMMA SwapExecutes ==
    ASSUME NEW s \in States, NEW give \in Tokens, NEW get \in Tokens, give # get,
           NEW in \in Nat, NEW min \in Nat
    PROVE  LET after == Execute(Swap(give, get, in, min), s)
           IN  /\ after \in States
               /\ after.ok =>
                    /\ s.ok /\ s.wallet[give] >= in
                    /\ \E out \in Nat :
                          /\ out >= min
                          /\ after.wallet = Exchanged(s.wallet, give, get, in, out)
  <1> DEFINE ix == Swap(give, get, in, min)
             after == Execute(ix, s)
             out == AmountOut(in, ReserveOf(s.market, give, get),
                              ReserveOf(s.market, get, give), Fee)
             goes == in > 0 /\ s.wallet[give] >= in /\ out >= min
  <1>1. /\ s.market \in Triangle /\ s.wallet \in Purses /\ s.ok \in BOOLEAN
    BY DEF States
  <1>2. /\ ix.op = "swap" /\ ix.give = give /\ ix.get = get /\ ix.in = in /\ ix.min = min
    BY DEF Swap
  <1>3. out \in 0..ReserveOf(s.market, get, give)
    <2>1. /\ ReserveOf(s.market, give, get) \in Nat /\ ReserveOf(s.market, get, give) \in Nat
      BY <1>1, ReservesAreNat
    <2>2. in \in Int /\ Fee \in Nat
      BY SearcherAssumption
    <2> QED BY <2>1, <2>2, AmountOutIsPart
  <1>4. out \in Nat
    BY <1>1, <1>3, ReservesAreNat
  <1>5. after = IF ~s.ok THEN s ELSE DoSwap(ix, s)
    BY <1>2 DEF Execute
  <1>6. DoSwap(ix, s) =
          IF goes
          THEN [s EXCEPT !.market = Shifted(Shifted(s.market, give, get, in), get, give, -out),
                         !.wallet = Exchanged(s.wallet, give, get, in, out)]
          ELSE [s EXCEPT !.ok = FALSE]
    BY <1>2 DEF DoSwap, Traded, Exchanged
  <1> HIDE DEF ix, after, out
  <1>7. CASE ~s.ok
    BY <1>5, <1>7 DEF after, ix
  <1>8. CASE s.ok /\ ~goes
    <2>1. after = [s EXCEPT !.ok = FALSE]
      BY <1>5, <1>6, <1>8
    <2>2. after \in States /\ ~after.ok
      BY <2>1 DEF States
    <2> QED BY <2>2 DEF after, ix
  <1>9. CASE s.ok /\ goes
    <2>1. after = [s EXCEPT !.market = Shifted(Shifted(s.market, give, get, in), get, give, -out),
                            !.wallet = Exchanged(s.wallet, give, get, in, out)]
      BY <1>5, <1>6, <1>9
    <2>2. Shifted(Shifted(s.market, give, get, in), get, give, -out) \in Triangle
      BY <1>1, <1>3, SwapKeepsTriangle
    <2>3. Exchanged(s.wallet, give, get, in, out) \in Purses
      BY <1>1, <1>4, <1>9, ExchangedIsWallet
    <2>4. after \in States /\ after.wallet = Exchanged(s.wallet, give, get, in, out)
      BY <2>1, <2>2, <2>3 DEF States
    <2> QED BY <1>4, <1>9, <2>4 DEF after, ix
  <1> QED BY <1>7, <1>8, <1>9

LEMMA JupiterExecutes ==
    ASSUME NEW s \in States, NEW give \in Tokens, NEW get \in Tokens, give # get,
           NEW in \in Nat, NEW min \in Nat, NEW extra \in Nat
    PROVE  LET after == Execute(Jupiter(give, get, in, min, extra), s)
           IN  /\ after \in States
               /\ after.ok =>
                    /\ s.ok /\ s.wallet[give] >= in
                    /\ after.wallet = Exchanged(s.wallet, give, get, in, min + extra)
  <1> DEFINE ix == Jupiter(give, get, in, min, extra)
             after == Execute(ix, s)
             goes == s.wallet[give] >= in
  <1>1. /\ s.wallet \in Purses /\ s.ok \in BOOLEAN
    BY DEF States
  <1>2. /\ ix.op = "jupiter" /\ ix.give = give /\ ix.get = get /\ ix.in = in
        /\ ix.min = min /\ ix.extra = extra
    BY DEF Jupiter
  <1>3. after = IF ~s.ok THEN s ELSE DoJupiter(ix, s)
    BY <1>2 DEF Execute
  <1>4. DoJupiter(ix, s) =
          IF goes THEN [s EXCEPT !.wallet = Exchanged(s.wallet, give, get, in, min + extra)]
          ELSE [s EXCEPT !.ok = FALSE]
    BY <1>2 DEF DoJupiter, Traded, Exchanged
  <1> HIDE DEF ix, after
  <1>5. CASE ~s.ok
    BY <1>3, <1>5 DEF after, ix
  <1>6. CASE s.ok /\ ~goes
    <2>1. after = [s EXCEPT !.ok = FALSE]
      BY <1>3, <1>4, <1>6
    <2>2. after \in States /\ ~after.ok
      BY <2>1 DEF States
    <2> QED BY <2>2 DEF after, ix
  <1>7. CASE s.ok /\ goes
    <2>1. after = [s EXCEPT !.wallet = Exchanged(s.wallet, give, get, in, min + extra)]
      BY <1>3, <1>4, <1>7
    <2>2. Exchanged(s.wallet, give, get, in, min + extra) \in Purses
      BY <1>1, <1>7, ExchangedIsWallet
    <2>3. after \in States /\ after.wallet = Exchanged(s.wallet, give, get, in, min + extra)
      BY <2>1, <2>2 DEF States
    <2> QED BY <1>7, <2>3 DEF after, ix
  <1> QED BY <1>5, <1>6, <1>7

(* A basis that is positive stays so. *)
LEMMA BasisStaysPositive ==
    ASSUME NEW last \in Nat \ {0}, NEW now \in Nat
    PROVE  PartialAdvance(last, now, CrankAbsorbBps) \in Nat \ {0}
  <1> DEFINE new == last + Truncated(SaturatingMul(now - last, CrankAbsorbBps), BpsDenom)
  <1>1. PartialAdvance(last, now, CrankAbsorbBps) = IF new <= 0 THEN last ELSE new
    BY SMT DEF PartialAdvance, CrankAbsorbBps, BpsDenom
  <1>2. PartialAdvance(last, now, CrankAbsorbBps) \in Nat
    BY AdvanceIsBetween
  <1> HIDE DEF new
  <1>3. PartialAdvance(last, now, CrankAbsorbBps) # 0
    BY <1>1, SMT
  <1> QED BY <1>2, <1>3

LEMMA CrankExecutes ==
    ASSUME NEW s \in States, price \in Nat
    PROVE  /\ DoCrank(s) \in States
           /\ DoCrank(s).ok = s.ok /\ DoCrank(s).wallet = s.wallet
           /\ Execute(CrankIx, s) = IF s.ok THEN DoCrank(s) ELSE s
  <1> DEFINE m == s.market
             has == HasPlan(s.basis, price, m.pair, m.pool, m.supply, 0,
                            Band.lMin, Band.lMax, Band.maxMint, Band.breaker)
             plan == Plan(s.basis, price, m.pair, m.pool, m.supply, 0,
                          Band.lMin, Band.lMax, Band.maxMint, Band.breaker)
             minted == IF has THEN AfterCrank(m, plan) ELSE m
             moved == PartialAdvance(s.basis, price, CrankAbsorbBps)
             followed == PartialAdvance(s.ratio, MarketRatio(m.pool, m.quote), CrankAbsorbBps)
  <1>1. /\ m \in Triangle /\ s.basis \in Nat \ {0} /\ s.ratio \in Nat \ {0}
        /\ s.ok \in BOOLEAN
    BY DEF States
  <1>2. DoCrank(s) = IF ~HasMarket(m.pool, m.quote) THEN s
                     ELSE [s EXCEPT !.market = minted, !.basis = moved, !.ratio = followed]
    BY DEF DoCrank
  <1>3. Execute(CrankIx, s) = IF s.ok THEN DoCrank(s) ELSE s
    BY DEF Execute, CrankIx
  <1>4. CASE ~HasMarket(m.pool, m.quote)
    BY <1>2, <1>3, <1>4
  <1>5. CASE HasMarket(m.pool, m.quote)
    <2>1. minted \in Triangle
      <3>1. CASE has
        <4>1. HasMove(s.basis, price)
          BY <3>1 DEF HasPlan
        <4>2. plan.side \in Sides /\ plan.pair \in Nat /\ plan.pool \in Nat
          BY <1>1, <4>1, PlanIsNat
        <4> HIDE DEF plan
        <4>3. AfterCrank(m, plan) \in Triangle
          BY <1>1, <4>2, MintedIsTriangle
        <4> QED BY <3>1, <4>3
      <3>2. CASE ~has
        BY <1>1, <3>2
      <3> QED BY <3>1, <3>2
    <2>2. moved \in Nat \ {0}
      BY <1>1, BasisStaysPositive
    <2>3. followed \in Nat \ {0}
      <3>1. m.pool \in [Sides -> Nat] /\ m.quote \in [Sides -> Nat]
        BY <1>1 DEF Triangle
      <3>2. MarketRatio(m.pool, m.quote) \in Nat
        BY <1>5, <3>1, RatioIsNat
      <3> QED BY <1>1, <3>2, BasisStaysPositive
    <2>4. DoCrank(s) = [s EXCEPT !.market = minted, !.basis = moved, !.ratio = followed]
      BY <1>2, <1>5
    <2> HIDE DEF minted, moved, followed
    <2> QED BY <1>3, <2>1, <2>2, <2>3, <2>4 DEF States
  <1> QED BY <1>4, <1>5

LEMMA NoneExecutes == ASSUME NEW s PROVE Execute(NoIx, s) = s
  BY DEF Execute, NoIx

-----------------------------------------------------------------------------
(* The bundles by shape: what a later leg takes and must give back is tied *)
(* to what an earlier one took.                                            *)

TriangleBundles ==
    {Bundle(Swap("usdc", side, amt, 0),
            Swap(side, Other(side), first, 0),
            Swap(Other(side), "usdc", second, amt + MinProfit)) :
        side \in Sides, amt \in Nat, first \in Nat, second \in Nat}

CaptureBundles ==
    {Bundle(Swap(side, "usdc", sold, budget + MinProfit), CrankIx,
            Swap("usdc", side, budget, sold)) :
        side \in Sides, sold \in Nat, budget \in Nat}

VenueBundles ==
    {Bundle(Jupiter("usdc", leg, amt, least, extra),
            Swap(leg, "usdc", least, amt + MinProfit), NoIx) :
        leg \in Sides, amt \in Nat, least \in Nat, extra \in Nat}

CrankArbBundles ==
    {Bundle(CrankIx, Swap("usdc", side, amt, least),
            Jupiter(side, "usdc", least, amt + MinProfit + more, extra)) :
        side \in Sides, amt \in Nat, least \in Nat, more \in Nat, extra \in Nat}

(* Those that hold a leg only in between, and all of them. *)
PassingBundles == CaptureBundles \cup VenueBundles \cup CrankArbBundles
PayingBundles == TriangleBundles \cup PassingBundles

(* A wallet after a bundle that has paid. *)
Pays(w, v) == v["usdc"] >= w["usdc"] + MinProfit
Keeps(w, v) == \A side \in Sides : v[side] >= w[side]

LEMMA TrianglePays ==
    ASSUME NEW s \in States, NEW b \in TriangleBundles, s.ok
    PROVE  LET after == Execute(b.third, Execute(b.second, Execute(b.first, s)))
           IN  after \in States /\ (after.ok => Pays(s.wallet, after.wallet))
  <1>1. PICK side \in Sides, amt \in Nat, first \in Nat, second \in Nat :
            b = Bundle(Swap("usdc", side, amt, 0), Swap(side, Other(side), first, 0),
                       Swap(Other(side), "usdc", second, amt + MinProfit))
    BY DEF TriangleBundles
  <1> DEFINE other == Other(side)
             least == amt + MinProfit
             one == Execute(Swap("usdc", side, amt, 0), s)
             two == Execute(Swap(side, other, first, 0), one)
             three == Execute(Swap(other, "usdc", second, least), two)
  <1>2. Execute(b.third, Execute(b.second, Execute(b.first, s))) = three
    BY <1>1 DEF Bundle
  <1>3. /\ "usdc" \in Tokens /\ side \in Tokens /\ other \in Tokens
        /\ "usdc" # side /\ side # other /\ other # "usdc"
    BY DEF Tokens, Sides, Other
  <1>4. least \in Nat /\ 0 \in Nat
    BY SearcherAssumption
  <1> HIDE DEF other, least
  <1>5. /\ one \in States
        /\ one.ok => \E out \in Nat : one.wallet = Exchanged(s.wallet, "usdc", side, amt, out)
    BY <1>3, <1>4, SwapExecutes
  <1> HIDE DEF one
  <1>6. /\ two \in States
        /\ two.ok => one.ok /\ \E out \in Nat :
                two.wallet = Exchanged(one.wallet, side, other, first, out)
    BY <1>3, <1>4, <1>5, SwapExecutes
  <1> HIDE DEF two
  <1>7. /\ three \in States
        /\ three.ok => two.ok /\ \E out \in Nat :
                /\ out >= least
                /\ three.wallet = Exchanged(two.wallet, other, "usdc", second, out)
    BY <1>3, <1>4, <1>6, SwapExecutes
  <1> HIDE DEF three
  <1>8. ASSUME three.ok PROVE Pays(s.wallet, three.wallet)
    <2>1. PICK o1 \in Nat : one.wallet = Exchanged(s.wallet, "usdc", side, amt, o1)
      BY <1>5, <1>6, <1>7, <1>8
    <2>2. PICK o2 \in Nat : two.wallet = Exchanged(one.wallet, side, other, first, o2)
      BY <1>6, <1>7, <1>8
    <2>3. PICK o3 \in Nat : /\ o3 >= least
                            /\ three.wallet = Exchanged(two.wallet, other, "usdc", second, o3)
      BY <1>7, <1>8
    <2>4. /\ s.wallet \in Purses /\ one.wallet \in Purses
          /\ two.wallet \in Purses
      BY <1>5, <1>6 DEF States
    <2>5. one.wallet["usdc"] = s.wallet["usdc"] - amt
      <3>1. Exchanged(s.wallet, "usdc", side, amt, o1)["usdc"] = s.wallet["usdc"] - amt
        BY <1>3, <2>4, ExchangedAt
      <3> QED BY <2>1, <3>1
    <2>6. two.wallet["usdc"] = one.wallet["usdc"]
      <3>1. "usdc" \in Tokens \ {side, other}
        BY <1>3
      <3>2. \A t \in Tokens \ {side, other} :
                Exchanged(one.wallet, side, other, first, o2)[t] = one.wallet[t]
        BY <1>3, <2>4, ExchangedAt
      <3> QED BY <2>2, <3>1, <3>2
    <2>7. three.wallet["usdc"] = two.wallet["usdc"] + o3
      <3>1. Exchanged(two.wallet, other, "usdc", second, o3)["usdc"] = two.wallet["usdc"] + o3
        BY <1>3, <2>4, ExchangedAt
      <3> QED BY <2>3, <3>1
    <2>8. s.wallet["usdc"] \in Nat /\ MinProfit \in Nat
      BY <1>3, <2>4, SearcherAssumption DEF Purses
    <2> QED BY <2>3, <2>5, <2>6, <2>7, <2>8 DEF Pays, least
  <1> QED BY <1>2, <1>7, <1>8

LEMMA CapturePays ==
    ASSUME NEW s \in States, NEW b \in CaptureBundles, s.ok, price \in Nat
    PROVE  LET after == Execute(b.third, Execute(b.second, Execute(b.first, s)))
           IN  /\ after \in States
               /\ after.ok => Pays(s.wallet, after.wallet) /\ Keeps(s.wallet, after.wallet)
  <1>1. PICK side \in Sides, sold \in Nat, budget \in Nat :
            b = Bundle(Swap(side, "usdc", sold, budget + MinProfit), CrankIx,
                       Swap("usdc", side, budget, sold))
    BY DEF CaptureBundles
  <1> DEFINE least == budget + MinProfit
             one == Execute(Swap(side, "usdc", sold, least), s)
             two == Execute(CrankIx, one)
             three == Execute(Swap("usdc", side, budget, sold), two)
  <1>2. Execute(b.third, Execute(b.second, Execute(b.first, s))) = three
    BY <1>1 DEF Bundle
  <1>3. "usdc" \in Tokens /\ side \in Tokens /\ "usdc" # side
    BY DEF Tokens, Sides
  <1>4. least \in Nat
    BY SearcherAssumption
  <1> HIDE DEF least
  <1>5. /\ one \in States
        /\ one.ok => \E out \in Nat : /\ out >= least
                                     /\ one.wallet = Exchanged(s.wallet, side, "usdc", sold, out)
    BY <1>3, <1>4, SwapExecutes
  <1> HIDE DEF one
  <1>6. two \in States /\ two.wallet = one.wallet /\ (two.ok => one.ok)
    BY <1>5, CrankExecutes
  <1> HIDE DEF two
  <1>7. /\ three \in States
        /\ three.ok => two.ok /\ \E out \in Nat :
                /\ out >= sold
                /\ three.wallet = Exchanged(two.wallet, "usdc", side, budget, out)
    BY <1>3, <1>6, SwapExecutes
  <1> HIDE DEF three
  <1>8. ASSUME three.ok PROVE Pays(s.wallet, three.wallet) /\ Keeps(s.wallet, three.wallet)
    <2>1. PICK o1 \in Nat : /\ o1 >= least
                            /\ one.wallet = Exchanged(s.wallet, side, "usdc", sold, o1)
      BY <1>5, <1>6, <1>7, <1>8
    <2>2. PICK o2 \in Nat : /\ o2 >= sold
                            /\ three.wallet = Exchanged(one.wallet, "usdc", side, budget, o2)
      BY <1>6, <1>7, <1>8
    <2>3. s.wallet \in Purses /\ one.wallet \in Purses
      BY <1>5 DEF States
    <2>4. /\ one.wallet["usdc"] = s.wallet["usdc"] + o1 /\ one.wallet[side] = s.wallet[side] - sold
          /\ \A t \in Tokens \ {side, "usdc"} : one.wallet[t] = s.wallet[t]
      BY <1>3, <2>1, <2>3, ExchangedAt
    <2>5. /\ three.wallet["usdc"] = one.wallet["usdc"] - budget
          /\ three.wallet[side] = one.wallet[side] + o2
          /\ \A t \in Tokens \ {side, "usdc"} : three.wallet[t] = one.wallet[t]
      BY <1>3, <2>2, <2>3, ExchangedAt
    <2>6. MinProfit \in Nat /\ \A t \in Tokens : s.wallet[t] \in Nat
      BY <2>3, SearcherAssumption DEF Purses
    <2>7. three.wallet["usdc"] >= s.wallet["usdc"] + MinProfit
      BY <1>3, <2>1, <2>4, <2>5, <2>6 DEF least
    <2>8. ASSUME NEW t \in Sides PROVE three.wallet[t] >= s.wallet[t]
      <3>1. CASE t = side
        BY <1>3, <2>2, <2>4, <2>5, <2>6, <3>1
      <3>2. CASE t # side
        <4>1. t \in Tokens \ {side, "usdc"}
          BY <3>2 DEF Tokens, Sides
        <4> QED BY <2>4, <2>5, <2>6, <4>1
      <3> QED BY <3>1, <3>2
    <2> QED BY <2>7, <2>8 DEF Pays, Keeps
  <1> QED BY <1>2, <1>7, <1>8

LEMMA VenuePays ==
    ASSUME NEW s \in States, NEW b \in VenueBundles, s.ok
    PROVE  LET after == Execute(b.third, Execute(b.second, Execute(b.first, s)))
           IN  /\ after \in States
               /\ after.ok => Pays(s.wallet, after.wallet) /\ Keeps(s.wallet, after.wallet)
  <1>1. PICK leg \in Sides, amt \in Nat, least \in Nat, extra \in Nat :
            b = Bundle(Jupiter("usdc", leg, amt, least, extra),
                       Swap(leg, "usdc", least, amt + MinProfit), NoIx)
    BY DEF VenueBundles
  <1> DEFINE back == amt + MinProfit
             one == Execute(Jupiter("usdc", leg, amt, least, extra), s)
             two == Execute(Swap(leg, "usdc", least, back), one)
  <1>2. Execute(b.third, Execute(b.second, Execute(b.first, s))) = two
    BY <1>1, NoneExecutes DEF Bundle
  <1>3. "usdc" \in Tokens /\ leg \in Tokens /\ "usdc" # leg /\ leg # "usdc"
    BY DEF Tokens, Sides
  <1>4. back \in Nat
    BY SearcherAssumption
  <1> HIDE DEF back
  <1>5. /\ one \in States
        /\ one.ok => one.wallet = Exchanged(s.wallet, "usdc", leg, amt, least + extra)
    BY <1>3, JupiterExecutes
  <1> HIDE DEF one
  <1>6. /\ two \in States
        /\ two.ok => one.ok /\ \E out \in Nat :
                /\ out >= back
                /\ two.wallet = Exchanged(one.wallet, leg, "usdc", least, out)
    <2>1. one \in States /\ leg \in Tokens /\ "usdc" \in Tokens /\ leg # "usdc" /\ back \in Nat
      BY <1>3, <1>4, <1>5
    <2> QED BY <2>1, SwapExecutes
  <1> HIDE DEF two
  <1>7. ASSUME two.ok PROVE Pays(s.wallet, two.wallet) /\ Keeps(s.wallet, two.wallet)
    <2> DEFINE got == least + extra
    <2>1. one.wallet = Exchanged(s.wallet, "usdc", leg, amt, got) /\ got \in Nat
      BY <1>5, <1>6, <1>7
    <2>2. PICK o2 \in Nat : /\ o2 >= back
                            /\ two.wallet = Exchanged(one.wallet, leg, "usdc", least, o2)
      BY <1>6, <1>7
    <2>3. s.wallet \in Purses /\ one.wallet \in Purses
      BY <1>5 DEF States
    <2> HIDE DEF got
    <2>4. /\ one.wallet["usdc"] = s.wallet["usdc"] - amt /\ one.wallet[leg] = s.wallet[leg] + got
          /\ \A t \in Tokens \ {leg, "usdc"} : one.wallet[t] = s.wallet[t]
      BY <1>3, <2>1, <2>3, ExchangedAt
    <2>5. /\ two.wallet["usdc"] = one.wallet["usdc"] + o2
          /\ two.wallet[leg] = one.wallet[leg] - least
          /\ \A t \in Tokens \ {leg, "usdc"} : two.wallet[t] = one.wallet[t]
      BY <1>3, <2>2, <2>3, ExchangedAt
    <2>6. MinProfit \in Nat /\ \A t \in Tokens : s.wallet[t] \in Nat
      BY <2>3, SearcherAssumption DEF Purses
    <2>7. two.wallet["usdc"] >= s.wallet["usdc"] + MinProfit
      BY <1>3, <2>2, <2>4, <2>5, <2>6 DEF back
    <2>8. ASSUME NEW t \in Sides PROVE two.wallet[t] >= s.wallet[t]
      <3>1. CASE t = leg
        BY <1>3, <2>4, <2>5, <2>6, <3>1 DEF got
      <3>2. CASE t # leg
        <4>1. t \in Tokens \ {leg, "usdc"}
          BY <3>2 DEF Tokens, Sides
        <4> QED BY <2>4, <2>5, <2>6, <4>1
      <3> QED BY <3>1, <3>2
    <2> QED BY <2>7, <2>8 DEF Pays, Keeps
  <1> QED BY <1>2, <1>6, <1>7

LEMMA CrankArbPays ==
    ASSUME NEW s \in States, NEW b \in CrankArbBundles, s.ok, price \in Nat
    PROVE  LET after == Execute(b.third, Execute(b.second, Execute(b.first, s)))
           IN  /\ after \in States
               /\ after.ok => Pays(s.wallet, after.wallet) /\ Keeps(s.wallet, after.wallet)
  <1>1. PICK side \in Sides, amt \in Nat, least \in Nat, more \in Nat, extra \in Nat :
            b = Bundle(CrankIx, Swap("usdc", side, amt, least),
                       Jupiter(side, "usdc", least, amt + MinProfit + more, extra))
    BY DEF CrankArbBundles
  <1> DEFINE back == amt + MinProfit + more
             one == Execute(CrankIx, s)
             two == Execute(Swap("usdc", side, amt, least), one)
             three == Execute(Jupiter(side, "usdc", least, back, extra), two)
  <1>2. Execute(b.third, Execute(b.second, Execute(b.first, s))) = three
    BY <1>1 DEF Bundle
  <1>3. "usdc" \in Tokens /\ side \in Tokens /\ "usdc" # side
    BY DEF Tokens, Sides
  <1>4. back \in Nat /\ back >= amt + MinProfit
    BY SearcherAssumption
  <1> HIDE DEF back
  <1>5. one \in States /\ one.wallet = s.wallet
    BY CrankExecutes
  <1> HIDE DEF one
  <1>6. /\ two \in States
        /\ two.ok => \E out \in Nat : /\ out >= least
                                     /\ two.wallet = Exchanged(one.wallet, "usdc", side, amt, out)
    BY <1>3, <1>5, SwapExecutes
  <1> HIDE DEF two
  <1>7. /\ three \in States
        /\ three.ok => /\ two.ok
                       /\ three.wallet = Exchanged(two.wallet, side, "usdc", least, back + extra)
    BY <1>3, <1>4, <1>6, JupiterExecutes
  <1> HIDE DEF three
  <1>8. ASSUME three.ok PROVE Pays(s.wallet, three.wallet) /\ Keeps(s.wallet, three.wallet)
    <2> DEFINE got == back + extra
    <2>1. PICK o1 \in Nat : /\ o1 >= least
                            /\ two.wallet = Exchanged(s.wallet, "usdc", side, amt, o1)
      BY <1>5, <1>6, <1>7, <1>8
    <2>2. three.wallet = Exchanged(two.wallet, side, "usdc", least, got) /\ got \in Nat
      BY <1>4, <1>7, <1>8
    <2>3. s.wallet \in Purses /\ two.wallet \in Purses
      BY <1>6 DEF States
    <2> HIDE DEF got
    <2>4. /\ two.wallet["usdc"] = s.wallet["usdc"] - amt /\ two.wallet[side] = s.wallet[side] + o1
          /\ \A t \in Tokens \ {side, "usdc"} : two.wallet[t] = s.wallet[t]
      BY <1>3, <2>1, <2>3, ExchangedAt
    <2>5. /\ three.wallet["usdc"] = two.wallet["usdc"] + got
          /\ three.wallet[side] = two.wallet[side] - least
          /\ \A t \in Tokens \ {side, "usdc"} : three.wallet[t] = two.wallet[t]
      BY <1>3, <2>2, <2>3, ExchangedAt
    <2>6. MinProfit \in Nat /\ \A t \in Tokens : s.wallet[t] \in Nat
      BY <2>3, SearcherAssumption DEF Purses
    <2>7. three.wallet["usdc"] >= s.wallet["usdc"] + MinProfit
      BY <1>3, <1>4, <2>4, <2>5, <2>6 DEF got
    <2>8. ASSUME NEW t \in Sides PROVE three.wallet[t] >= s.wallet[t]
      <3>1. CASE t = side
        BY <1>3, <2>1, <2>4, <2>5, <2>6, <3>1
      <3>2. CASE t # side
        <4>1. t \in Tokens \ {side, "usdc"}
          BY <3>2 DEF Tokens, Sides
        <4> QED BY <2>4, <2>5, <2>6, <4>1
      <3> QED BY <3>1, <3>2
    <2> QED BY <2>7, <2>8 DEF Pays, Keeps
  <1> QED BY <1>2, <1>7, <1>8

-----------------------------------------------------------------------------
(* The bundles that are built have these shapes. *)

LEMMA TriangleBuilt ==
    ASSUME NEW seen \in Triangle, NEW side \in Sides, NEW amt \in Nat
    PROVE  TriangleBundle(seen, side, amt) \in TriangleBundles
  <1> DEFINE first == AmountOut(amt, seen.quote[side], seen.pool[side], Fee)
             second == AmountOut(first, seen.pair[side], seen.pair[Other(side)], Fee)
  <1>1. Other(side) \in Sides
    BY DEF Other, Sides
  <1>2. /\ seen.quote[side] \in Nat /\ seen.pool[side] \in Nat
        /\ seen.pair[side] \in Nat /\ seen.pair[Other(side)] \in Nat
    BY <1>1 DEF Triangle
  <1>3. amt \in Int /\ Fee \in Nat
    BY SearcherAssumption
  <1>4. first \in Nat
    BY <1>2, <1>3, AmountOutIsNat
  <1>5. CycleHops(seen, side, amt, Fee).first = first
        /\ CycleHops(seen, side, amt, Fee).second = second
    BY DEF CycleHops
  <1> HIDE DEF first
  <1>6. second \in Nat
    <2>1. first \in Int
      BY <1>4
    <2> QED BY <1>2, <1>3, <2>1, AmountOutIsNat
  <1> HIDE DEF second
  <1>7. TriangleBundle(seen, side, amt) =
            Bundle(Swap("usdc", side, amt, 0), Swap(side, Other(side), first, 0),
                   Swap(Other(side), "usdc", second, amt + MinProfit))
    BY <1>5 DEF TriangleBundle
  <1> QED BY <1>4, <1>6, <1>7 DEF TriangleBundles

LEMMA CaptureBuilt ==
    ASSUME market \in Triangle, basis \in Nat, price \in Nat, NEW sold \in Nat,
           CaptureBundle(sold).built
    PROVE  CaptureBundle(sold) \in CaptureBundles
  <1> DEFINE plan == OraclePlan(market)
             side == plan.side
             sellMin == AmountOut(sold, market.pool[side], market.quote[side], Fee)
             budget == BuyBudget(sellMin)
             bundle == Bundle(Swap(side, "usdc", sold, SellMin(sellMin)), CrankIx,
                              Swap("usdc", side, budget, LeastBack(sold)))
  <1>1. CaptureBundle(sold) =
            IF ~plan.some THEN NoBundle
            ELSE IF plan.tripped \/ plan.pool <= 0 \/ sellMin <= MinProfit \/ budget <= 0
            THEN NoBundle ELSE bundle
    BY DEF CaptureBundle
  <1>2. ~NoBundle.built
    BY DEF NoBundle
  <1>3. plan.some /\ ~(budget <= 0) /\ CaptureBundle(sold) = bundle
    BY <1>1, <1>2
  <1>4. side \in Sides
    <2>1. plan = SdkPlan(basis, price, market, 0, Band)
      BY DEF OraclePlan, ConfigRead, AggregateRead
    <2> QED BY <1>3, <2>1, SdkPlanIsNat
  <1> HIDE DEF plan, side
  <1>5. sellMin \in Nat
    <2>1. market.pool[side] \in Nat /\ market.quote[side] \in Nat
      BY <1>4 DEF Triangle
    <2>2. sold \in Int /\ Fee \in Nat
      BY SearcherAssumption
    <2> QED BY <2>1, <2>2, AmountOutIsNat
  <1> HIDE DEF sellMin
  <1>6. SellMin(sellMin) \in Int /\ MinProfit \in Nat
    BY <1>5, SearcherAssumption, SMT DEF SellMin
  <1>7. budget \in Nat /\ SellMin(sellMin) = budget + MinProfit
    BY <1>3, <1>6, SMT DEF BuyBudget
  <1> HIDE DEF budget
  <1>8. bundle = Bundle(Swap(side, "usdc", sold, budget + MinProfit), CrankIx,
                        Swap("usdc", side, budget, sold))
    BY <1>7 DEF LeastBack
  <1> HIDE DEF bundle
  <1> QED BY <1>3, <1>4, <1>7, <1>8 DEF CaptureBundles

LEMMA ThresholdIsNat ==
    ASSUME NEW amt \in Nat, NEW q \in Nat
    PROVE  JupiterThreshold(amt, q) \in Nat
  <1>1. amt * q \in Nat /\ 100 \in Nat \ {0}
    BY SMT
  <1>2. (amt * q) \div 100 \in Nat
    BY <1>1, DivIsFloor
  <1> QED BY <1>2 DEF JupiterThreshold

LEMMA VenueBuilt ==
    ASSUME NEW leg \in Sides, NEW amt \in Nat, NEW q \in Nat, NEW extra \in Nat
    PROVE  VenueBundle(leg, amt, q, extra) \in VenueBundles
  <1> DEFINE least == JupiterThreshold(amt, q)
  <1>1. least \in Nat
    BY ThresholdIsNat
  <1>2. VenueBundle(leg, amt, q, extra) =
            Bundle(Jupiter("usdc", leg, amt, least, extra),
                   Swap(leg, "usdc", least, amt + MinProfit), NoIx)
    BY DEF VenueBundle, VenueGuard
  <1> HIDE DEF least
  <1> QED BY <1>1, <1>2 DEF VenueBundles

LEMMA CrankArbBuilt ==
    ASSUME market \in Triangle, ratio \in Nat, NEW amt \in Nat, NEW q \in Nat, NEW extra \in Nat,
           CrankArbBundle(amt, q, extra).built
    PROVE  CrankArbBundle(amt, q, extra) \in CrankArbBundles
  <1> DEFINE sim == RatioCrank
             plan == sim.plan
             side == plan.side
             post == AfterCrank(market, plan)
             expected == AmountOut(amt, post.quote[side], post.pool[side], Fee)
             least == (expected * 995) \div 1000
             back == JupiterThreshold(least, q)
             bundle == Bundle(CrankIx, Swap("usdc", side, amt, least),
                              Jupiter(side, "usdc", least, back, extra))
  <1>1. CrankArbBundle(amt, q, extra) =
            IF sim.noop # "none" THEN NoBundle
            ELSE IF amt <= 0 \/ least <= 0 \/ back < VenueGuard(amt) THEN NoBundle ELSE bundle
    BY DEF CrankArbBundle
  <1>2. ~NoBundle.built
    BY DEF NoBundle
  <1>3. sim.noop = "none" /\ ~(back < VenueGuard(amt))
        /\ CrankArbBundle(amt, q, extra) = bundle
    BY <1>1, <1>2
  <1>4. plan.side \in Sides /\ plan.pair \in Nat /\ plan.pool \in Nat
    <2> DEFINE now == ImpliedMarket(market).ratio
               planned == SdkPlan(ratio, now, market, 0, Band)
    <2>1. sim = IF ~ImpliedMarket(market).some THEN [noop |-> "no-market"]
                ELSE IF ~planned.some THEN [noop |-> "flat"]
                ELSE IF planned.tripped THEN [noop |-> "breaker"]
                ELSE [noop |-> "none", plan |-> planned]
      BY DEF RatioCrank, SimulateCrank, ConfigRead
    <2> HIDE DEF sim, now, planned
    <2>2. ImpliedMarket(market).some /\ planned.some /\ plan = planned
      <3>1. ASSUME ~ImpliedMarket(market).some PROVE FALSE
        <4>1. sim = [noop |-> "no-market"]
          BY <2>1, <3>1
        <4>2. sim.noop = "no-market"
          BY <4>1
        <4> QED BY <1>3, <4>2
      <3>2. ASSUME ~planned.some PROVE FALSE
        <4>1. sim = [noop |-> "flat"]
          BY <2>1, <3>1, <3>2
        <4>2. sim.noop = "flat"
          BY <4>1
        <4> QED BY <1>3, <4>2
      <3>3. ASSUME planned.tripped PROVE FALSE
        <4>1. sim = [noop |-> "breaker"]
          BY <2>1, <3>1, <3>2, <3>3
        <4>2. sim.noop = "breaker"
          BY <4>1
        <4> QED BY <1>3, <4>2
      <3>4. sim = [noop |-> "none", plan |-> planned]
        BY <2>1, <3>1, <3>2, <3>3
      <3> QED BY <3>1, <3>2, <3>4
    <2>3. now \in Nat
      <3> DEFINE cost == [s \in Sides |-> (market.quote[s] * Wad) \div market.pool[s]]
      <3>1. ~(market.pool["A"] = 0 \/ market.pool["B"] = 0)
        BY <2>2 DEF ImpliedMarket, Nothing
      <3>2. cost["B"] # 0
        BY <2>2, <3>1 DEF ImpliedMarket, Nothing
      <3>3. now = (cost["A"] * Wad) \div cost["B"]
        BY <3>1, <3>2 DEF now, ImpliedMarket
      <3>4. \A s \in Sides : market.quote[s] * Wad \in Nat /\ market.pool[s] \in Nat \ {0}
        BY <3>1, WidthAssumption, SMT DEF Triangle, Sides
      <3>5. \A s \in Sides : (market.quote[s] * Wad) \div market.pool[s] \in Nat
        BY <3>4, DivIsFloor
      <3>6. cost["A"] \in Nat /\ cost["B"] \in Nat \ {0}
        BY <3>2, <3>5 DEF Sides
      <3> HIDE DEF cost
      <3>7. cost["A"] * Wad \in Nat
        BY <3>6, WidthAssumption, SMT
      <3> QED BY <3>3, <3>6, <3>7, DivIsFloor
    <2>4. planned.side \in Sides /\ planned.pair \in Nat /\ planned.pool \in Nat
      BY <2>2, <2>3, SdkPlanIsNat DEF planned
    <2> QED BY <2>2, <2>4
  <1> HIDE DEF sim, plan
  <1>5. expected \in Nat
    <2>1. post \in Triangle
      BY <1>4, MintedIsTriangle
    <2> HIDE DEF post
    <2>2. post.quote[side] \in Nat /\ post.pool[side] \in Nat
      BY <1>4, <2>1 DEF Triangle
    <2>3. amt \in Int /\ Fee \in Nat
      BY SearcherAssumption
    <2> QED BY <2>2, <2>3, AmountOutIsNat
  <1> HIDE DEF expected
  <1>6. least \in Nat
    <2>1. expected * 995 \in Nat /\ 1000 \in Nat \ {0}
      BY <1>5, SMT
    <2> QED BY <2>1, DivIsFloor
  <1> HIDE DEF least
  <1>7. back \in Nat
    BY <1>6, ThresholdIsNat
  <1> HIDE DEF back
  <1> DEFINE more == back - (amt + MinProfit)
  <1>8. more \in Nat /\ back = amt + MinProfit + more
    BY <1>3, <1>7, SearcherAssumption, SMT DEF VenueGuard
  <1> HIDE DEF more
  <1>9. bundle = Bundle(CrankIx, Swap("usdc", side, amt, least),
                        Jupiter(side, "usdc", least, amt + MinProfit + more, extra))
    BY <1>8
  <1> HIDE DEF bundle
  <1> QED BY <1>3, <1>4, <1>6, <1>8, <1>9 DEF CrankArbBundles

-----------------------------------------------------------------------------
(* The inductive invariant: types, and that what waits for its simulation  *)
(* or is under way to the cluster has the shape of its surface.            *)

Fits(surface, bundle) ==
    /\ bundle \in PayingBundles
    /\ surface # "triangle" => bundle \in PassingBundles

HuntRecords ==
    [at : {"waiting", "gate", "size", "sim", "done"}, surface : 1..5,
     seen : Triangle \cup {Nothing}, side : Sides, size : Nat, floor : Nat,
     tries : 0..MaxTries, bundle : PayingBundles \cup {NoBundle}]

Hunts == {h \in HuntRecords :
            /\ h.at \in {"gate", "size", "sim"} => h.seen \in Triangle
            /\ h.at = "sim" => h.tries < MaxTries /\ Fits(SurfaceOf(h), h.bundle)}

IInv ==
    /\ market \in Triangle
    /\ basis \in Nat \ {0} /\ ratio \in Nat \ {0} /\ price \in Underlying
    /\ wallet \in Purses
    /\ hunt \in [Ticks -> Hunts]
    /\ \A b \in sent : Fits(b.surface, b.bundle)
    /\ events \in 0..MaxEvents

(* A hunt that is under way. *)
Hunting(h) == h \in Hunts /\ h.at \in {"gate", "size", "sim"}

LEMMA DoneIsHunt == Waiting \in Hunts /\ Done \in Hunts
  <1>1. MaxTries \in Nat /\ "A" \in Sides
    BY SearcherAssumption DEF Sides
  <1>2. Waiting \in HuntRecords
    BY <1>1 DEF Waiting, HuntRecords
  <1>3. Done = [Waiting EXCEPT !.at = "done"]
    BY DEF Done
  <1>4. Waiting.at = "waiting"
    BY DEF Waiting
  <1> HIDE DEF Waiting
  <1>5. Done \in HuntRecords /\ Done.at = "done"
    BY <1>2, <1>3 DEF HuntRecords
  <1> QED BY <1>2, <1>4, <1>5 DEF Hunts

LEMMA SurfaceCount == Len(Surfaces) = 5
  BY DEF Surfaces

(* The gate of a surface, which takes what the tick has read along. *)
AtGate(seen, surface) == [Waiting EXCEPT !.at = "gate", !.surface = surface, !.seen = seen]

LEMMA GateIsHunt ==
    ASSUME NEW seen \in Triangle, NEW surface \in 1..5
    PROVE  AtGate(seen, surface) \in Hunts
  <1> DEFINE next == AtGate(seen, surface)
  <1>1. Waiting \in HuntRecords
    BY DoneIsHunt DEF Hunts
  <1>2. next \in HuntRecords /\ next.at = "gate" /\ next.seen = seen
    BY <1>1 DEF AtGate, HuntRecords
  <1> HIDE DEF next
  <1>3. next \in Hunts
    BY <1>2 DEF Hunts
  <1> QED BY <1>3 DEF next

LEMMA LeavingIsHunt == ASSUME NEW h, Hunting(h) PROVE Leaving(h) \in Hunts
  <1>1. h \in HuntRecords /\ h.seen \in Triangle /\ h.surface \in 1..5
    BY DEF Hunting, Hunts, HuntRecords
  <1>2. CASE h.surface = 5
    BY <1>2, DoneIsHunt, SurfaceCount DEF Leaving
  <1>3. CASE h.surface # 5
    <2>1. h.surface + 1 \in 1..5
      BY <1>1, <1>3
    <2>2. Leaving(h) = AtGate(h.seen, h.surface + 1)
      BY <1>3, SurfaceCount DEF Leaving, AtGate
    <2> QED BY <1>1, <2>1, <2>2, GateIsHunt
  <1> QED BY <1>2, <1>3

LEMMA FailingIsHunt == ASSUME NEW h, Hunting(h) PROVE Failing(h) \in Hunts
  <1>1. CASE SurfaceOf(h) # "venueA"
    BY <1>1, LeavingIsHunt DEF Failing
  <1>2. CASE SurfaceOf(h) = "venueA"
    <2> DEFINE on == [h EXCEPT !.surface = @ + 1]
    <2>1. h \in HuntRecords /\ h.seen \in Triangle /\ h.surface \in 1..5
      BY DEF Hunting, Hunts, HuntRecords
    <2>2. h.surface = 2
      BY <1>2, <2>1 DEF SurfaceOf, Surfaces
    <2>3. on.surface = 3 /\ on.seen = h.seen
      BY <2>1, <2>2 DEF HuntRecords
    <2>4. Failing(h) = Leaving(on)
      BY <1>2 DEF Failing
    <2> HIDE DEF on
    <2>5. Leaving(on) = AtGate(h.seen, 4)
      BY <2>3, SurfaceCount DEF Leaving, AtGate
    <2>6. 4 \in 1..5
      OBVIOUS
    <2>7. AtGate(h.seen, 4) \in Hunts
      BY <2>1, <2>6, GateIsHunt
    <2> QED BY <2>4, <2>5, <2>7
  <1> QED BY <1>1, <1>2

LEMMA SizingIsHunt ==
    ASSUME NEW h, Hunting(h), NEW side \in Sides, NEW start \in Nat, NEW floor \in Nat
    PROVE  Sizing(h, side, start, floor) \in Hunts
  <1> DEFINE next == Sizing(h, side, start, floor)
  <1>1. h \in HuntRecords /\ h.seen \in Triangle
    BY DEF Hunting, Hunts
  <1>2. next \in HuntRecords /\ next.at = "size" /\ next.seen = h.seen
    BY <1>1 DEF Sizing, HuntRecords
  <1> HIDE DEF next
  <1>3. next \in Hunts
    BY <1>1, <1>2 DEF Hunts
  <1> QED BY <1>3 DEF next

LEMMA HalvedIsHunt ==
    ASSUME NEW h, Hunting(h), h.tries < MaxTries
    PROVE  Halved(h) \in Hunts
  <1> DEFINE next == Halved(h)
  <1>1. h \in HuntRecords /\ h.seen \in Triangle /\ h.size \in Nat /\ h.tries \in 0..MaxTries
    BY DEF Hunting, Hunts, HuntRecords
  <1>2. h.size \div 2 \in Nat
    BY <1>1
  <1>3. h.tries + 1 \in 0..MaxTries
    BY <1>1, SearcherAssumption
  <1>4. next \in HuntRecords /\ next.at = "size" /\ next.seen = h.seen
    BY <1>1, <1>2, <1>3 DEF Halved, HuntRecords
  <1> HIDE DEF next
  <1>5. next \in Hunts
    BY <1>1, <1>4 DEF Hunts
  <1> QED BY <1>5 DEF next

(* A bundle is built for the surface the tick is on. *)
LEMMA BuiltFits ==
    ASSUME IInv, NEW h, Hunting(h), NEW q \in Nat, NEW extra \in Nat, Built(h, q, extra).built
    PROVE  Fits(SurfaceOf(h), Built(h, q, extra))
  <1>1. /\ h.seen \in Triangle /\ h.side \in Sides /\ h.size \in Nat
    BY DEF Hunting, Hunts, HuntRecords
  <1>2. /\ market \in Triangle /\ basis \in Nat /\ ratio \in Nat /\ price \in Nat
    BY SearcherAssumption DEF IInv
  <1>3. CASE SurfaceOf(h) = "capture"
    <2>1. Built(h, q, extra) = CaptureBundle(h.size)
      BY <1>3 DEF Built
    <2>2. Built(h, q, extra) \in CaptureBundles
      BY <1>1, <1>2, <2>1, CaptureBuilt
    <2> QED BY <2>2 DEF Fits, PayingBundles, PassingBundles
  <1>4. CASE SurfaceOf(h) \in {"venueA", "venueB"}
    <2>1. Built(h, q, extra) = VenueBundle(h.side, h.size, q, extra)
      BY <1>4 DEF Built
    <2>2. Built(h, q, extra) \in VenueBundles
      BY <1>1, <2>1, VenueBuilt
    <2> QED BY <2>2 DEF Fits, PayingBundles, PassingBundles
  <1>5. CASE SurfaceOf(h) = "crankarb"
    <2>1. Built(h, q, extra) = CrankArbBundle(h.size, q, extra)
      BY <1>5 DEF Built
    <2>2. Built(h, q, extra) \in CrankArbBundles
      BY <1>1, <1>2, <2>1, CrankArbBuilt
    <2> QED BY <2>2 DEF Fits, PayingBundles, PassingBundles
  <1>6. CASE SurfaceOf(h) \notin {"capture", "venueA", "venueB", "crankarb"}
    <2>1. SurfaceOf(h) = "triangle"
      <3>1. h.surface \in 1..5
        BY DEF Hunting, Hunts, HuntRecords
      <3> QED BY <1>6, <3>1 DEF SurfaceOf, Surfaces
    <2>2. Built(h, q, extra) = TriangleBundle(h.seen, h.side, h.size)
      BY <1>6 DEF Built
    <2>3. Built(h, q, extra) \in TriangleBundles
      BY <1>1, <2>2, TriangleBuilt
    <2> QED BY <2>1, <2>3 DEF Fits, PayingBundles
  <1> QED BY <1>3, <1>4, <1>5, <1>6

LEMMA NowIsState ==
    ASSUME IInv
    PROVE  Now \in States /\ Now.ok /\ Now.wallet = wallet /\ price \in Nat
  <1>1. price \in Nat
    BY SearcherAssumption DEF IInv
  <1>2. Now \in States
    BY DEF IInv, Now, States
  <1>3. Now.ok /\ Now.wallet = wallet
    BY DEF Now
  <1> QED BY <1>1, <1>2, <1>3

(* What a bundle of a surface does when it lands. *)
LEMMA BundleExecutes ==
    ASSUME IInv, NEW surface, NEW bundle, Fits(surface, bundle)
    PROVE  /\ Outcome(bundle) \in States
           /\ Outcome(bundle).ok =>
                  /\ Pays(wallet, Outcome(bundle).wallet)
                  /\ surface # "triangle" => Keeps(wallet, Outcome(bundle).wallet)
  <1> DEFINE s == Now
             after == Execute(bundle.third, Execute(bundle.second, Execute(bundle.first, s)))
  <1>1. s \in States /\ s.ok /\ s.wallet = wallet /\ price \in Nat
    BY NowIsState
  <1>2. after = Outcome(bundle)
    BY DEF Outcome
  <1> HIDE DEF s
  <1>3. CASE bundle \in TriangleBundles /\ surface = "triangle"
    <2>1. after \in States /\ (after.ok => Pays(s.wallet, after.wallet))
      BY <1>1, <1>3, TrianglePays
    <2> HIDE DEF after
    <2> QED BY <1>1, <1>2, <1>3, <2>1
  <1>4. CASE bundle \in PassingBundles
    <2>1. /\ after \in States
          /\ after.ok => Pays(s.wallet, after.wallet) /\ Keeps(s.wallet, after.wallet)
      <3>1. CASE bundle \in CaptureBundles
        BY <1>1, <3>1, CapturePays
      <3>2. CASE bundle \in VenueBundles
        BY <1>1, <3>2, VenuePays
      <3>3. CASE bundle \in CrankArbBundles
        BY <1>1, <3>3, CrankArbPays
      <3> QED BY <1>4, <3>1, <3>2, <3>3 DEF PassingBundles
    <2> HIDE DEF after
    <2> QED BY <1>1, <1>2, <2>1
  <1>5. bundle \in PassingBundles \/ (bundle \in TriangleBundles /\ surface = "triangle")
    BY DEF Fits, PayingBundles
  <1> QED BY <1>3, <1>4, <1>5

LEMMA InitIInv == Init => IInv
  <1> SUFFICES ASSUME Init PROVE IInv
    OBVIOUS
  <1>1. market \in Triangle /\ basis \in Nat \ {0} /\ ratio \in Nat \ {0}
        /\ price \in Underlying
    BY SearcherAssumption DEF Init
  <1>2. wallet \in Purses
    BY SearcherAssumption DEF Init, Purses
  <1>3. hunt \in [Ticks -> Hunts]
    BY DoneIsHunt DEF Init
  <1>4. sent = {} /\ events \in 0..MaxEvents
    BY SearcherAssumption DEF Init
  <1> QED BY <1>1, <1>2, <1>3, <1>4 DEF IInv

(* A step of a tick that sends nothing. *)
LEMMA HuntKeeps ==
    ASSUME IInv, NEW t \in Ticks, NEW h \in Hunts, Hunt(t, h),
           UNCHANGED <<chain, sent, events>>
    PROVE  IInv'
  <1>1. hunt' \in [Ticks -> Hunts]
    BY DEF IInv, Hunt
  <1>2. \A b \in sent' : Fits(b.surface, b.bundle)
    BY DEF IInv
  <1> QED BY <1>1, <1>2 DEF IInv, chain

LEMMA BeginKeeps == ASSUME IInv, NEW t \in Ticks, Begin(t) PROVE IInv'
  <1> DEFINE h == hunt[t]
             next == [h EXCEPT !.at = "gate", !.seen = market]
  <1>1. h \in HuntRecords /\ market \in Triangle
    BY DEF IInv, Hunts
  <1>2. Hunt(t, next) /\ UNCHANGED <<chain, sent, events>>
    BY DEF Begin
  <1> HIDE DEF h
  <1>3. next \in HuntRecords /\ next.at = "gate" /\ next.seen = market
    BY <1>1 DEF HuntRecords
  <1> HIDE DEF next
  <1>4. next \in Hunts
    BY <1>1, <1>3 DEF Hunts
  <1> QED BY <1>2, <1>4, HuntKeeps

LEMMA UnreadableKeeps == ASSUME IInv, NEW t \in Ticks, Unreadable(t) PROVE IInv'
  <1>1. Hunt(t, Done) /\ UNCHANGED <<chain, sent, events>>
    BY DEF Unreadable
  <1> QED BY <1>1, DoneIsHunt, HuntKeeps

LEMMA UnderWay ==
    ASSUME IInv, NEW t \in Ticks, hunt[t].at \in {"gate", "size", "sim"}
    PROVE  Hunting(hunt[t])
  BY DEF IInv, Hunting

LEMMA SkipKeeps == ASSUME IInv, NEW t \in Ticks, Skip(t) PROVE IInv'
  <1> DEFINE h == hunt[t]
  <1>1. Hunting(h)
    BY UnderWay DEF Skip
  <1>2. /\ Hunt(t, Leaving(h)) \/ Hunt(t, Failing(h))
        /\ UNCHANGED <<chain, sent, events>>
    BY DEF Skip
  <1> HIDE DEF h
  <1>3. Leaving(h) \in Hunts /\ Failing(h) \in Hunts
    BY <1>1, LeavingIsHunt, FailingIsHunt
  <1> QED BY <1>2, <1>3, HuntKeeps

(* The capture's plan on the reserves the tick has read. *)
LEMMA OraclePlanHasSide ==
    ASSUME IInv, NEW seen \in Triangle, OraclePlan(seen).some
    PROVE  OraclePlan(seen).side \in Sides
  <1>1. basis \in Nat /\ price \in Nat
    BY SearcherAssumption DEF IInv
  <1>2. OraclePlan(seen) = SdkPlan(basis, price, seen, 0, Band)
    BY DEF OraclePlan, ConfigRead, AggregateRead
  <1> QED BY <1>1, <1>2, SdkPlanIsNat

LEMMA GateCaptureKeeps == ASSUME IInv, NEW t \in Ticks, GateCapture(t) PROVE IInv'
  <1> DEFINE h == hunt[t]
             plan == OraclePlan(h.seen)
             reserve == h.seen.pool[plan.side]
  <1>1. Hunting(h)
    BY UnderWay DEF GateCapture
  <1>2. /\ plan.some
        /\ Hunt(t, Sizing(h, plan.side, reserve \div 40, reserve \div 4000))
        /\ UNCHANGED <<chain, sent, events>>
    BY DEF GateCapture
  <1> HIDE DEF h
  <1>4. h.seen \in Triangle
    BY <1>1 DEF Hunting, Hunts
  <1>5. plan.side \in Sides
    BY <1>2, <1>4, OraclePlanHasSide
  <1> HIDE DEF plan
  <1>6. reserve \in Nat
    BY <1>4, <1>5 DEF Triangle
  <1> HIDE DEF reserve
  <1>7. reserve \div 40 \in Nat /\ reserve \div 4000 \in Nat
    <2>1. 40 \in Nat \ {0} /\ 4000 \in Nat \ {0}
      OBVIOUS
    <2> QED BY <1>6, <2>1, DivIsFloor
  <1>8. Sizing(h, plan.side, reserve \div 40, reserve \div 4000) \in Hunts
    BY <1>1, <1>5, <1>7, SizingIsHunt
  <1> QED BY <1>2, <1>8, HuntKeeps

LEMMA GateVenueKeeps == ASSUME IInv, NEW t \in Ticks, GateVenue(t) PROVE IInv'
  <1> DEFINE h == hunt[t]
             side == IF SurfaceOf(h) = "venueB" THEN "B" ELSE "A"
  <1>1. Hunting(h)
    BY UnderWay DEF GateVenue
  <1>2. PICK start \in Starts : Hunt(t, Sizing(h, side, start, Floor))
    BY DEF GateVenue
  <1>3. UNCHANGED <<chain, sent, events>>
    BY DEF GateVenue
  <1>4. side \in Sides /\ start \in Nat /\ Floor \in Nat
    BY SearcherAssumption DEF Sides
  <1> HIDE DEF h, side
  <1>5. Sizing(h, side, start, Floor) \in Hunts
    BY <1>1, <1>4, SizingIsHunt
  <1> QED BY <1>2, <1>3, <1>5, HuntKeeps

LEMMA GateTriangleKeeps == ASSUME IInv, NEW t \in Ticks, GateTriangle(t) PROVE IInv'
  <1> DEFINE h == hunt[t]
  <1>1. Hunting(h)
    BY UnderWay DEF GateTriangle
  <1>2. PICK side \in Sides, start \in Starts : Hunt(t, Sizing(h, side, start, Floor))
    BY DEF GateTriangle
  <1>3. UNCHANGED <<chain, sent, events>>
    BY DEF GateTriangle
  <1>4. start \in Nat /\ Floor \in Nat
    BY SearcherAssumption
  <1> HIDE DEF h
  <1>5. Sizing(h, side, start, Floor) \in Hunts
    BY <1>1, <1>4, SizingIsHunt
  <1> QED BY <1>2, <1>3, <1>5, HuntKeeps

LEMMA HalvingKeeps ==
    ASSUME IInv, NEW t \in Ticks, hunt[t].at \in {"size", "sim"}, hunt[t].tries < MaxTries,
           Hunt(t, Halved(hunt[t])), UNCHANGED <<chain, sent, events>>
    PROVE  IInv'
  <1>1. Hunting(hunt[t])
    BY UnderWay
  <1>2. Halved(hunt[t]) \in Hunts
    BY <1>1, HalvedIsHunt
  <1> QED BY <1>2, HuntKeeps

LEMMA BuildFailsKeeps == ASSUME IInv, NEW t \in Ticks, BuildFails(t) PROVE IInv'
  BY HalvingKeeps DEF BuildFails

LEMMA BuildKeeps == ASSUME IInv, NEW t \in Ticks, Build(t) PROVE IInv'
  <1> DEFINE h == hunt[t]
  <1>1. Hunting(h) /\ h.at = "size" /\ h.tries < MaxTries
    BY UnderWay DEF Build
  <1>2. PICK q \in Quotes, extra \in Extras :
            Hunt(t, IF Built(h, q, extra).built
                    THEN [h EXCEPT !.at = "sim", !.bundle = Built(h, q, extra)]
                    ELSE Halved(h))
    BY DEF Build
  <1>3. UNCHANGED <<chain, sent, events>>
    BY DEF Build
  <1>4. q \in Nat /\ extra \in Nat
    BY SearcherAssumption
  <1> DEFINE b == Built(h, q, extra)
             next == [h EXCEPT !.at = "sim", !.bundle = b]
  <1>5. CASE ~b.built
    <2>1. Hunt(t, Halved(h))
      BY <1>2, <1>5
    <2> QED BY <1>1, <1>3, <2>1, HalvingKeeps
  <1>6. CASE b.built
    <2>1. Hunt(t, next)
      BY <1>2, <1>6
    <2> HIDE DEF h
    <2>2. Fits(SurfaceOf(h), b)
      BY <1>1, <1>4, <1>6, BuiltFits
    <2>3. h \in HuntRecords /\ h.seen \in Triangle
      BY <1>1 DEF Hunting, Hunts
    <2> HIDE DEF b
    <2>4. b \in PayingBundles
      BY <2>2 DEF Fits
    <2>5. /\ next \in HuntRecords /\ next.at = "sim" /\ next.seen = h.seen
          /\ next.tries = h.tries /\ next.bundle = b /\ next.surface = h.surface
      BY <2>3, <2>4 DEF HuntRecords
    <2> HIDE DEF next
    <2>6. SurfaceOf(next) = SurfaceOf(h)
      BY <2>5 DEF SurfaceOf
    <2>7. next \in Hunts
      BY <1>1, <2>2, <2>3, <2>5, <2>6 DEF Hunts
    <2> QED BY <1>3, <2>1, <2>7, HuntKeeps
  <1> QED BY <1>5, <1>6

LEMMA NoSizeKeeps == ASSUME IInv, NEW t \in Ticks, NoSize(t) PROVE IInv'
  <1>1. Hunting(hunt[t])
    BY UnderWay DEF NoSize
  <1>2. Hunt(t, Leaving(hunt[t])) /\ UNCHANGED <<chain, sent, events>>
    BY DEF NoSize
  <1>3. Leaving(hunt[t]) \in Hunts
    BY <1>1, LeavingIsHunt
  <1> QED BY <1>2, <1>3, HuntKeeps

LEMMA SimulationFailsKeeps == ASSUME IInv, NEW t \in Ticks, SimulationFails(t) PROVE IInv'
  <1>1. Hunting(hunt[t])
    BY UnderWay DEF SimulationFails
  <1>2. Hunt(t, Failing(hunt[t])) /\ UNCHANGED <<chain, sent, events>>
    BY DEF SimulationFails
  <1>3. Failing(hunt[t]) \in Hunts
    BY <1>1, FailingIsHunt
  <1> QED BY <1>2, <1>3, HuntKeeps

LEMMA SimulatedFits ==
    ASSUME IInv, NEW t \in Ticks, hunt[t].at = "sim"
    PROVE  hunt[t].tries < MaxTries /\ Fits(SurfaceOf(hunt[t]), hunt[t].bundle)
  BY DEF IInv, Hunts

LEMMA SimulatedRevertsKeeps == ASSUME IInv, NEW t \in Ticks, SimulatedReverts(t) PROVE IInv'
  <1>1. hunt[t].at = "sim" /\ hunt[t].tries < MaxTries
    BY SimulatedFits DEF SimulatedReverts
  <1>2. Hunt(t, Halved(hunt[t])) /\ UNCHANGED <<chain, sent, events>>
    BY DEF SimulatedReverts
  <1> QED BY <1>1, <1>2, HalvingKeeps

LEMMA EventCounts == ASSUME IInv, Event PROVE events' \in 0..MaxEvents
  BY SearcherAssumption DEF IInv, Event

LEMMA SimulatedOkKeeps == ASSUME IInv, NEW t \in Ticks, SimulatedOk(t) PROVE IInv'
  <1> DEFINE h == hunt[t]
  <1>1. h.at = "sim" /\ Hunt(t, Leaving(h)) /\ sent' = sent \cup {Tagged(t, h)} /\ Event
        /\ UNCHANGED chain
    BY DEF SimulatedOk
  <1>2. Leaving(h) \in Hunts
    BY <1>1, UnderWay, LeavingIsHunt
  <1>3. hunt' \in [Ticks -> Hunts]
    BY <1>1, <1>2 DEF IInv, Hunt
  <1>4. Fits(SurfaceOf(h), h.bundle)
    BY <1>1, SimulatedFits
  <1> HIDE DEF h
  <1>5. Tagged(t, h).surface = SurfaceOf(h) /\ Tagged(t, h).bundle = h.bundle
    BY DEF Tagged
  <1>6. \A b \in sent' : Fits(b.surface, b.bundle)
    BY <1>1, <1>4, <1>5 DEF IInv
  <1>7. events' \in 0..MaxEvents
    BY <1>1, EventCounts
  <1> QED BY <1>1, <1>3, <1>6, <1>7 DEF IInv, chain

LEMMA TickStepKeeps == ASSUME IInv, NEW t \in Ticks, TickStep(t) PROVE IInv'
  <1>1. CASE Skip(t)
    BY <1>1, SkipKeeps
  <1>2. CASE GateCapture(t) \/ GateVenue(t) \/ GateTriangle(t)
    BY <1>2, GateCaptureKeeps, GateVenueKeeps, GateTriangleKeeps
  <1>3. CASE BuildFails(t) \/ NoSize(t) \/ Build(t)
    BY <1>3, BuildFailsKeeps, NoSizeKeeps, BuildKeeps
  <1>4. CASE SimulationFails(t) \/ SimulatedOk(t) \/ SimulatedReverts(t)
    BY <1>4, SimulationFailsKeeps, SimulatedOkKeeps, SimulatedRevertsKeeps
  <1> QED BY <1>1, <1>2, <1>3, <1>4 DEF TickStep

(* What a transaction leaves of the chain. *)
LEMMA ApplyKeeps ==
    ASSUME IInv, NEW s \in States, Apply(s)
    PROVE  /\ market' \in Triangle /\ basis' \in Nat \ {0} /\ ratio' \in Nat \ {0}
           /\ price' \in Underlying /\ wallet' \in Purses
  BY DEF IInv, States, Apply

LEMMA LandKeeps == ASSUME IInv, NEW b \in sent, Land(b) PROVE IInv'
  <1>1. Fits(b.surface, b.bundle)
    BY DEF IInv
  <1>2. Outcome(b.bundle) \in States
    BY <1>1, BundleExecutes
  <1>3. Apply(Outcome(b.bundle)) /\ sent' = sent \ {b} /\ UNCHANGED <<hunt, events>>
    BY DEF Land
  <1>4. /\ market' \in Triangle /\ basis' \in Nat \ {0} /\ ratio' \in Nat \ {0}
        /\ price' \in Underlying /\ wallet' \in Purses
    BY <1>2, <1>3, ApplyKeeps
  <1>5. \A c \in sent' : Fits(c.surface, c.bundle)
    BY <1>3 DEF IInv
  <1>6. hunt' \in [Ticks -> Hunts] /\ events' \in 0..MaxEvents
    BY <1>3 DEF IInv
  <1> QED BY <1>4, <1>5, <1>6 DEF IInv

LEMMA ExpireKeeps == ASSUME IInv, NEW b \in sent, Expire(b) PROVE IInv'
  <1>1. \A c \in sent' : Fits(c.surface, c.bundle)
    BY DEF IInv, Expire
  <1>2. hunt' \in [Ticks -> Hunts]
    BY DEF IInv, Expire
  <1> QED BY <1>1, <1>2 DEF IInv, Expire, chain

LEMMA TradeKeeps == ASSUME IInv, Trade PROVE IInv'
  <1>1. PICK give \in Tokens, get \in Tokens, dx \in TradeSizes :
            LET out == AmountOut(dx, ReserveOf(market, give, get),
                                 ReserveOf(market, get, give), Fee)
            IN  /\ give # get
                /\ market' = Shifted(Shifted(market, give, get, dx), get, give, -out)
    BY DEF Trade
  <1> DEFINE out == AmountOut(dx, ReserveOf(market, give, get),
                              ReserveOf(market, get, give), Fee)
  <1>2. give # get /\ market' = Shifted(Shifted(market, give, get, dx), get, give, -out)
    BY <1>1
  <1>3. market \in Triangle
    BY DEF IInv
  <1>4. ReserveOf(market, give, get) \in Nat /\ ReserveOf(market, get, give) \in Nat
    BY <1>2, <1>3, ReservesAreNat
  <1>5. dx \in Nat /\ dx \in Int /\ Fee \in Nat
    BY SearcherAssumption
  <1>6. out \in 0..ReserveOf(market, get, give)
    BY <1>4, <1>5, AmountOutIsPart
  <1> HIDE DEF out
  <1>7. market' \in Triangle
    BY <1>2, <1>3, <1>5, <1>6, SwapKeepsTriangle
  <1>8. events' \in 0..MaxEvents /\ UNCHANGED <<basis, ratio, price, wallet, hunt, sent>>
    BY EventCounts DEF Trade
  <1> QED BY <1>7, <1>8 DEF IInv

LEMMA OracleMovesKeeps == ASSUME IInv, OracleMoves PROVE IInv'
  <1>1. events' \in 0..MaxEvents
    BY EventCounts DEF OracleMoves
  <1> QED BY <1>1 DEF IInv, OracleMoves

LEMMA CrankKeeps == ASSUME IInv, Crank PROVE IInv' /\ wallet' = wallet
  <1>1. DoCrank(Now) \in States /\ DoCrank(Now).wallet = wallet
    BY NowIsState, CrankExecutes
  <1>2. Apply(DoCrank(Now)) /\ Event /\ UNCHANGED <<hunt, sent>>
    BY DEF Crank
  <1>3. /\ market' \in Triangle /\ basis' \in Nat \ {0} /\ ratio' \in Nat \ {0}
        /\ price' \in Underlying /\ wallet' \in Purses
    BY <1>1, <1>2, ApplyKeeps
  <1>4. events' \in 0..MaxEvents
    BY <1>2, EventCounts
  <1>5. hunt' \in [Ticks -> Hunts] /\ \A b \in sent' : Fits(b.surface, b.bundle)
    BY <1>2 DEF IInv
  <1> QED BY <1>1, <1>2, <1>3, <1>4, <1>5 DEF IInv, Apply

LEMMA NextKeeps == IInv /\ [Next]_vars => IInv'
  <1> SUFFICES ASSUME IInv, [Next]_vars PROVE IInv'
    OBVIOUS
  <1>1. ASSUME NEW t \in Ticks, Begin(t) \/ Unreadable(t) \/ TickStep(t) PROVE IInv'
    BY <1>1, BeginKeeps, UnreadableKeeps, TickStepKeeps
  <1>2. ASSUME NEW b \in sent, Land(b) \/ Expire(b) PROVE IInv'
    BY <1>2, LandKeeps, ExpireKeeps
  <1>3. CASE Trade \/ OracleMoves \/ Crank
    BY <1>3, TradeKeeps, OracleMovesKeeps, CrankKeeps
  <1>4. CASE UNCHANGED vars
    <2>1. hunt' \in [Ticks -> Hunts] /\ \A b \in sent' : Fits(b.surface, b.bundle)
      BY <1>4 DEF IInv, vars
    <2> QED BY <1>4, <2>1 DEF IInv, vars
  <1> QED BY <1>1, <1>2, <1>3, <1>4 DEF Next

LEMMA Inductive == Spec => []IInv
  <1> QED BY InitIInv, NextKeeps, PTL DEF Spec

-----------------------------------------------------------------------------
(* For every fee, band, market and price the state keeps its types: the    *)
(* reserves, the bases and the purse stay natural numbers whatever the     *)
(* bundles, traders and cranks swap and mint.                              *)
THEOREM TypeCorrect == Spec => []TypeOK
  <1>1. IInv => TypeOK
    <2> SUFFICES ASSUME IInv PROVE TypeOK
      OBVIOUS
    <2>1. wallet \in [Tokens -> Nat]
      BY DEF IInv, Purses
    <2>2. ASSUME NEW t \in Ticks
          PROVE  /\ hunt[t].surface \in 1..5
                 /\ hunt[t].side \in Sides /\ hunt[t].size \in Nat
                 /\ hunt[t].tries \in 0..MaxTries
      <3>1. hunt[t] \in HuntRecords
        BY DEF IInv, Hunts
      <3> QED BY <3>1 DEF HuntRecords
    <2> QED BY <2>1, <2>2, SurfaceCount DEF IInv, TypeOK
  <1> QED BY <1>1, Inductive, PTL

(* Only a landing changes what the keeper holds. *)
LEMMA OnlyLandingsPay ==
    ASSUME IInv, [Next]_vars, wallet' # wallet
    PROVE  \E b \in sent : Land(b)
  <1>1. ASSUME NEW t \in Ticks, Begin(t) \/ Unreadable(t) PROVE wallet' = wallet
    BY <1>1 DEF Begin, Unreadable, chain
  <1>2. ASSUME NEW t \in Ticks, TickStep(t) PROVE wallet' = wallet
    <2>1. CASE Skip(t) \/ BuildFails(t) \/ NoSize(t)
      BY <2>1 DEF Skip, BuildFails, NoSize, chain
    <2>2. CASE GateCapture(t)
      BY <2>2 DEF GateCapture, chain
    <2>3. CASE GateVenue(t)
      BY <2>3 DEF GateVenue, chain
    <2>4. CASE GateTriangle(t)
      BY <2>4 DEF GateTriangle, chain
    <2>5. CASE Build(t)
      BY <2>5 DEF Build, chain
    <2>6. CASE SimulationFails(t) \/ SimulatedOk(t) \/ SimulatedReverts(t)
      BY <2>6 DEF SimulationFails, SimulatedOk, SimulatedReverts, chain
    <2> QED BY <1>2, <2>1, <2>2, <2>3, <2>4, <2>5, <2>6 DEF TickStep
  <1>3. ASSUME NEW b \in sent, Expire(b) PROVE wallet' = wallet
    BY <1>3 DEF Expire, chain
  <1>4. CASE Trade \/ OracleMoves \/ Crank
    BY <1>4, CrankKeeps DEF Trade, OracleMoves
  <1>5. CASE UNCHANGED vars
    BY <1>5 DEF vars
  <1> QED BY <1>1, <1>2, <1>3, <1>4, <1>5 DEF Next

(* Whatever happened between the reads, the simulation and the landing,    *)
(* and however many ticks hunt the same gap: the bundle that lands brings  *)
(* the keeper MinProfit, for every fee, band, market and quote.            *)
THEOREM LandedBundlesPay == Spec => LandedPays
  <1>1. IInv /\ [Next]_vars =>
            [wallet' # wallet => wallet'["usdc"] >= wallet["usdc"] + MinProfit]_vars
    <2> SUFFICES ASSUME IInv, [Next]_vars, wallet' # wallet
                 PROVE  wallet'["usdc"] >= wallet["usdc"] + MinProfit
      OBVIOUS
    <2>1. PICK b \in sent : Land(b)
      BY OnlyLandingsPay
    <2>2. Fits(b.surface, b.bundle)
      BY DEF IInv
    <2>3. Outcome(b.bundle).ok /\ wallet' = Outcome(b.bundle).wallet
      BY <2>1 DEF Land, Apply
    <2>4. Pays(wallet, Outcome(b.bundle).wallet)
      BY <2>2, <2>3, BundleExecutes
    <2> QED BY <2>3, <2>4 DEF Pays
  <1> QED BY <1>1, Inductive, PTL DEF Spec, LandedPays

(* The bundles that hold a leg only in between leave the keeper as many of *)
(* both legs as before, for every band and every mint of the crank.        *)
THEOREM VenueBundlesKeep == Spec => VenueBundlesKeepInventory
  <1> DEFINE Kept == \A b \in sent \ sent' :
                         wallet' # wallet /\ b.surface # "triangle" =>
                             \A s \in Sides : wallet'[s] >= wallet[s]
  <1>1. IInv /\ [Next]_vars => [Kept]_vars
    <2> SUFFICES ASSUME IInv, [Next]_vars, NEW b \in sent \ sent',
                        wallet' # wallet, b.surface # "triangle"
                 PROVE  \A s \in Sides : wallet'[s] >= wallet[s]
      OBVIOUS
    <2>1. PICK c \in sent : Land(c)
      BY OnlyLandingsPay
    <2>2. b = c
      BY <2>1 DEF Land
    <2>3. Fits(b.surface, b.bundle)
      BY DEF IInv
    <2>4. Outcome(b.bundle).ok /\ wallet' = Outcome(b.bundle).wallet
      BY <2>1, <2>2 DEF Land, Apply
    <2>5. Keeps(wallet, Outcome(b.bundle).wallet)
      BY <2>3, <2>4, BundleExecutes
    <2> QED BY <2>4, <2>5 DEF Keeps
  <1> QED BY <1>1, Inductive, PTL DEF Spec, VenueBundlesKeepInventory, Kept

-----------------------------------------------------------------------------
(* What is left of a tick. *)

(* What a surface takes at most, and the surfaces that are still to come. *)
Span == 2 * MaxTries + 3
Rest(h) == (Len(Surfaces) - h.surface) * Span

LEMMA LeftOf ==
    ASSUME NEW h \in HuntRecords
    PROVE  /\ Span \in Nat /\ Rest(h) \in Nat /\ Rest(h) <= 4 * Span
           /\ Left(h) = CASE h.at = "waiting" -> 6 * Span
                          [] h.at = "gate" -> Rest(h) + Span
                          [] h.at = "size" -> Rest(h) + 2 * (MaxTries - h.tries) + 2
                          [] h.at = "sim"  -> Rest(h) + 2 * (MaxTries - h.tries) + 1
                          [] OTHER -> 0
  <1> DEFINE n == 5 - h.surface
  <1>1. n \in 0..4 /\ Span \in Nat
    BY SearcherAssumption DEF HuntRecords, Span
  <1>2. Rest(h) = n * Span
    BY SurfaceCount DEF Rest
  <1>3. (Len(Surfaces) - h.surface + 1) * (2 * MaxTries + 3) = n * Span + Span
    <2>1. Len(Surfaces) - h.surface + 1 = n + 1
      BY SurfaceCount DEF HuntRecords
    <2> HIDE DEF n
    <2>2. (n + 1) * Span = n * Span + Span
      BY <1>1
    <2> QED BY <2>1, <2>2 DEF Span
  <1>4. Left(h) = CASE h.at = "waiting" -> 6 * Span
                    [] h.at = "gate" -> n * Span + Span
                    [] h.at = "size" -> n * Span + 2 * (MaxTries - h.tries) + 2
                    [] h.at = "sim"  -> n * Span + 2 * (MaxTries - h.tries) + 1
                    [] OTHER -> 0
    BY <1>3, SurfaceCount DEF Left, Span
  <1> HIDE DEF n
  <1>5. n * Span \in Nat /\ n * Span <= 4 * Span
    BY <1>1
  <1> QED BY <1>1, <1>2, <1>4, <1>5

LEMMA NothingLeft == Left(Done) = 0
  <1>1. Done.at = "done"
    BY DEF Done, Waiting
  <1> QED BY <1>1 DEF Left

(* At the gate of a surface it is left with that one and those behind it. *)
LEMMA LeftAtGate ==
    ASSUME NEW seen \in Triangle, NEW surface \in 1..5
    PROVE  Left(AtGate(seen, surface)) = (5 - surface) * Span + Span
  <1> DEFINE next == AtGate(seen, surface)
  <1>1. Waiting \in HuntRecords
    BY DoneIsHunt DEF Hunts
  <1>2. next \in HuntRecords /\ next.at = "gate" /\ next.surface = surface
    BY <1>1 DEF AtGate, HuntRecords
  <1> HIDE DEF next
  <1>3. Left(next) = Rest(next) + Span
    BY <1>2, LeftOf
  <1>4. Rest(next) = (5 - surface) * Span
    BY <1>2, SurfaceCount DEF Rest
  <1> QED BY <1>3, <1>4 DEF next

LEMMA LeavingAdvances ==
    ASSUME NEW h, Hunting(h)
    PROVE  Left(Leaving(h)) = Rest(h)
  <1>1. h \in HuntRecords /\ h.seen \in Triangle /\ h.surface \in 1..5
    BY DEF Hunting, Hunts, HuntRecords
  <1>2. Span \in Nat
    BY SearcherAssumption DEF Span
  <1>3. CASE h.surface = 5
    <2>1. Leaving(h) = Done
      BY <1>3, SurfaceCount DEF Leaving
    <2>2. Rest(h) = 0
      BY <1>2, <1>3, SurfaceCount DEF Rest
    <2> QED BY <2>1, <2>2, NothingLeft
  <1>4. CASE h.surface # 5
    <2>1. h.surface + 1 \in 1..5
      BY <1>1, <1>4
    <2>2. Leaving(h) = AtGate(h.seen, h.surface + 1)
      BY <1>4, SurfaceCount DEF Leaving, AtGate
    <2>3. Left(Leaving(h)) = (5 - (h.surface + 1)) * Span + Span
      BY <1>1, <2>1, <2>2, LeftAtGate
    <2>4. (5 - (h.surface + 1)) * Span + Span = (5 - h.surface) * Span
      <3> DEFINE n == 5 - h.surface
      <3>1. n \in Int /\ 5 - (h.surface + 1) = n - 1
        BY <1>1
      <3> HIDE DEF n
      <3>2. (n - 1) * Span + Span = n * Span
        BY <1>2, <3>1
      <3> QED BY <3>1, <3>2 DEF n
    <2> QED BY <2>3, <2>4, SurfaceCount DEF Rest
  <1> QED BY <1>3, <1>4

LEMMA FailingAdvances ==
    ASSUME NEW h, Hunting(h)
    PROVE  Left(Failing(h)) \in Int /\ Left(Failing(h)) <= Rest(h)
  <1>1. h \in HuntRecords /\ h.seen \in Triangle /\ h.surface \in 1..5
    BY DEF Hunting, Hunts, HuntRecords
  <1>2. Span \in Nat /\ Rest(h) \in Nat
    BY <1>1, LeftOf
  <1>3. CASE SurfaceOf(h) # "venueA"
    BY <1>2, <1>3, LeavingAdvances DEF Failing
  <1>4. CASE SurfaceOf(h) = "venueA"
    <2> DEFINE on == [h EXCEPT !.surface = @ + 1]
    <2>1. h.surface = 2
      BY <1>1, <1>4 DEF SurfaceOf, Surfaces
    <2>2. on.surface = 3 /\ on.seen = h.seen
      BY <1>1, <2>1 DEF HuntRecords
    <2>3. Failing(h) = Leaving(on)
      BY <1>4 DEF Failing
    <2> HIDE DEF on
    <2>4. Leaving(on) = AtGate(h.seen, 4)
      BY <2>2, SurfaceCount DEF Leaving, AtGate
    <2>5. 4 \in 1..5
      OBVIOUS
    <2>6. Left(AtGate(h.seen, 4)) = (5 - 4) * Span + Span
      BY <1>1, <2>5, LeftAtGate
    <2>7. Rest(h) = 3 * Span
      BY <2>1, SurfaceCount DEF Rest
    <2> QED BY <1>2, <2>3, <2>4, <2>6, <2>7
  <1> QED BY <1>3, <1>4

(* Left is a number that every step of a hunt under way makes smaller. *)
LEMMA SizingAdvances ==
    ASSUME NEW h, Hunting(h), h.at = "gate",
           NEW side \in Sides, NEW start \in Nat, NEW floor \in Nat
    PROVE  Left(Sizing(h, side, start, floor)) < Left(h)
  <1> DEFINE next == Sizing(h, side, start, floor)
  <1>1. h \in HuntRecords
    BY DEF Hunting, Hunts
  <1>2. /\ next \in HuntRecords /\ next.at = "size"
        /\ next.surface = h.surface /\ next.tries = h.tries
    BY <1>1 DEF Sizing, HuntRecords
  <1> HIDE DEF next
  <1>3. Rest(next) = Rest(h)
    BY <1>2 DEF Rest
  <1>4. Left(next) = Rest(h) + 2 * (MaxTries - h.tries) + 2
    BY <1>2, <1>3, LeftOf
  <1>5. Left(h) = Rest(h) + Span /\ Rest(h) \in Nat
    BY <1>1, LeftOf
  <1>6. h.tries \in 0..MaxTries
    BY <1>1 DEF HuntRecords
  <1> QED BY <1>4, <1>5, <1>6, SearcherAssumption DEF next, Span

LEMMA HalvingAdvances ==
    ASSUME NEW h, Hunting(h), h.at \in {"size", "sim"}, h.tries < MaxTries
    PROVE  Left(Halved(h)) < Left(h)
  <1> DEFINE next == Halved(h)
  <1>1. h \in HuntRecords /\ h.tries \in 0..MaxTries
    BY DEF Hunting, Hunts, HuntRecords
  <1>2. next \in HuntRecords
    BY HalvedIsHunt DEF Hunts
  <1>3. next.at = "size" /\ next.surface = h.surface /\ next.tries = h.tries + 1
    BY <1>1 DEF Halved, HuntRecords
  <1> HIDE DEF next
  <1>4. Rest(next) = Rest(h)
    BY <1>3 DEF Rest
  <1>5. Left(next) = Rest(h) + 2 * (MaxTries - (h.tries + 1)) + 2
    BY <1>2, <1>3, <1>4, LeftOf
  <1>6. Left(h) >= Rest(h) + 2 * (MaxTries - h.tries) + 1 /\ Rest(h) \in Nat
    <2>1. CASE h.at = "size"
      BY <1>1, <2>1, LeftOf, SearcherAssumption
    <2>2. CASE h.at = "sim"
      BY <1>1, <2>2, LeftOf, SearcherAssumption
    <2> QED BY <2>1, <2>2
  <1>7. Left(h) \in Int
    BY <1>1, LeftOf, SearcherAssumption
  <1> QED BY <1>1, <1>5, <1>6, <1>7, SearcherAssumption DEF next

Advancing == \A t \in Ticks : hunt'[t] # hunt[t] => Left(hunt'[t]) < Left(hunt[t])

LEMMA OneAdvances ==
    ASSUME IInv, NEW t \in Ticks, NEW next, Hunt(t, next), Left(next) < Left(hunt[t])
    PROVE  Advancing
  <1> SUFFICES ASSUME NEW u \in Ticks, hunt'[u] # hunt[u]
               PROVE  Left(hunt'[u]) < Left(hunt[u])
    BY DEF Advancing
  <1>1. hunt' = [hunt EXCEPT ![t] = next] /\ hunt \in [Ticks -> Hunts]
    BY DEF Hunt, IInv
  <1>2. u = t /\ hunt'[u] = next
    BY <1>1
  <1> QED BY <1>2

LEMMA LeavingIsNearer ==
    ASSUME NEW h, Hunting(h)
    PROVE  Left(Leaving(h)) < Left(h) /\ Left(Failing(h)) < Left(h)
  <1>1. h \in HuntRecords /\ h.at \in {"gate", "size", "sim"} /\ h.tries \in 0..MaxTries
    BY DEF Hunting, Hunts, HuntRecords
  <1>2. Rest(h) \in Nat
    BY <1>1, LeftOf
  <1>3. Left(h) \in Int /\ Rest(h) < Left(h)
    <2>1. CASE h.at = "gate"
      <3>1. Left(h) = Rest(h) + Span
        BY <1>1, <2>1, LeftOf
      <3> QED BY <1>2, <3>1, SearcherAssumption DEF Span
    <2>2. CASE h.at = "size"
      <3>1. Left(h) = Rest(h) + 2 * (MaxTries - h.tries) + 2
        BY <1>1, <2>2, LeftOf
      <3> QED BY <1>1, <1>2, <3>1, SearcherAssumption
    <2>3. CASE h.at = "sim"
      <3>1. Left(h) = Rest(h) + 2 * (MaxTries - h.tries) + 1
        BY <1>1, <2>3, LeftOf
      <3> QED BY <1>1, <1>2, <3>1, SearcherAssumption
    <2> QED BY <1>1, <2>1, <2>2, <2>3
  <1>4. Left(Leaving(h)) = Rest(h) /\ Left(Failing(h)) \in Int /\ Left(Failing(h)) <= Rest(h)
    BY LeavingAdvances, FailingAdvances
  <1> QED BY <1>2, <1>3, <1>4

LEMMA StartAdvances ==
    ASSUME IInv, NEW t \in Ticks, Begin(t) \/ Unreadable(t)
    PROVE  Advancing
  <1> DEFINE h == hunt[t]
             next == [h EXCEPT !.at = "gate", !.seen = market]
  <1>1. h \in HuntRecords /\ market \in Triangle /\ h.at = "waiting"
    BY DEF IInv, Hunts, Begin, Unreadable
  <1>2. Hunt(t, next) \/ Hunt(t, Done)
    BY DEF Begin, Unreadable
  <1>3. /\ Span \in Nat \ {0} /\ Rest(h) \in Nat /\ Rest(h) <= 4 * Span
        /\ Left(h) = 6 * Span
    BY <1>1, LeftOf, SearcherAssumption DEF Span
  <1>4. Left(next) < Left(h)
    <2> HIDE DEF h
    <2>1. next \in HuntRecords /\ next.at = "gate" /\ next.surface = h.surface
      BY <1>1 DEF HuntRecords
    <2> HIDE DEF next
    <2>2. Left(next) = Rest(next) + Span /\ Rest(next) = Rest(h)
      BY <2>1, LeftOf DEF Rest
    <2> QED BY <1>3, <2>2
  <1>5. Left(Done) < Left(h)
    BY <1>3, NothingLeft
  <1> HIDE DEF next
  <1> QED BY <1>2, <1>4, <1>5, OneAdvances

LEMMA TickStepAdvances ==
    ASSUME IInv, NEW t \in Ticks, TickStep(t)
    PROVE  Advancing
  <1> DEFINE h == hunt[t]
  <1>1. h.at \in {"gate", "size", "sim"}
    <2>1. CASE Skip(t) \/ GateCapture(t) \/ GateVenue(t) \/ GateTriangle(t)
      <3>1. h.at = "gate"
        BY <2>1 DEF Skip, GateCapture, GateVenue, GateTriangle
      <3> QED BY <3>1
    <2>2. CASE BuildFails(t) \/ NoSize(t) \/ Build(t)
      BY <2>2 DEF BuildFails, NoSize, Build
    <2>3. CASE SimulationFails(t) \/ SimulatedOk(t) \/ SimulatedReverts(t)
      BY <2>3 DEF SimulationFails, SimulatedOk, SimulatedReverts
    <2> QED BY <2>1, <2>2, <2>3 DEF TickStep
  <1>2. Hunting(h)
    BY <1>1, UnderWay
  <1>3. CASE Skip(t) \/ NoSize(t) \/ SimulationFails(t) \/ SimulatedOk(t)
    <2>1. Hunt(t, Leaving(h)) \/ Hunt(t, Failing(h))
      BY <1>3 DEF Skip, NoSize, SimulationFails, SimulatedOk
    <2> QED BY <1>2, <2>1, LeavingIsNearer, OneAdvances
  <1>4. ASSUME NEW next, Hunt(t, next), h.tries < MaxTries, h.at \in {"size", "sim"},
               next = Halved(h)
        PROVE  Advancing
    BY <1>2, <1>4, HalvingAdvances, OneAdvances
  <1>5. CASE BuildFails(t)
    BY <1>4, <1>5 DEF BuildFails
  <1>6. CASE SimulatedReverts(t)
    BY <1>4, <1>6, SimulatedFits DEF SimulatedReverts
  <1>7. CASE Build(t)
    <2>1. h.at = "size" /\ h.tries < MaxTries
      BY <1>7 DEF Build
    <2>2. PICK b :
              Hunt(t, IF b.built THEN [h EXCEPT !.at = "sim", !.bundle = b] ELSE Halved(h))
      BY <1>7 DEF Build
    <2>3. CASE ~b.built
      BY <1>4, <2>1, <2>2, <2>3
    <2>4. CASE b.built
      <3> DEFINE next == [h EXCEPT !.at = "sim", !.bundle = b]
      <3>1. hunt'[t] \in Hunts /\ Hunt(t, next)
        BY <1>7, <2>2, <2>4, BuildKeeps DEF IInv
      <3>2. hunt'[t] = next
        BY <3>1 DEF IInv, Hunt
      <3> HIDE DEF h
      <3>3. h \in HuntRecords /\ next \in HuntRecords
        BY <1>2, <3>1, <3>2 DEF Hunting, Hunts
      <3>4. next.at = "sim" /\ next.surface = h.surface /\ next.tries = h.tries
        BY <3>3 DEF HuntRecords
      <3> HIDE DEF next
      <3>5. Left(next) = Rest(h) + 2 * (MaxTries - h.tries) + 1
        BY <3>3, <3>4, LeftOf DEF Rest
      <3>6. Left(h) = Rest(h) + 2 * (MaxTries - h.tries) + 2
        BY <2>1, <3>3, LeftOf
      <3>7. h.tries \in 0..MaxTries /\ Rest(h) \in Nat
        BY <3>3, LeftOf DEF HuntRecords
      <3>8. Left(next) < Left(h)
        BY <3>5, <3>6, <3>7, SearcherAssumption
      <3> USE DEF h
      <3> QED BY <3>1, <3>8, OneAdvances
    <2> QED BY <2>3, <2>4
  <1>8. CASE GateCapture(t)
    <2> DEFINE plan == OraclePlan(h.seen)
               reserve == h.seen.pool[plan.side]
    <2>1. h.at = "gate" /\ plan.some
          /\ Hunt(t, Sizing(h, plan.side, reserve \div 40, reserve \div 4000))
      BY <1>8 DEF GateCapture
    <2>2. h.seen \in Triangle
      BY <1>2 DEF Hunting, Hunts
    <2>3. plan.side \in Sides
      BY <2>1, <2>2, OraclePlanHasSide
    <2> HIDE DEF plan
    <2>4. reserve \in Nat
      BY <2>2, <2>3 DEF Triangle
    <2> HIDE DEF reserve
    <2>5. reserve \div 40 \in Nat /\ reserve \div 4000 \in Nat
      <3>1. 40 \in Nat \ {0} /\ 4000 \in Nat \ {0}
        OBVIOUS
      <3> QED BY <2>4, <3>1, DivIsFloor
    <2>6. Left(Sizing(h, plan.side, reserve \div 40, reserve \div 4000)) < Left(h)
      BY <1>2, <2>1, <2>3, <2>5, SizingAdvances
    <2> QED BY <2>1, <2>6, OneAdvances
  <1>9. CASE GateVenue(t) \/ GateTriangle(t)
    <2>1. PICK side \in Sides, start \in Starts :
              h.at = "gate" /\ Hunt(t, Sizing(h, side, start, Floor))
      BY <1>9 DEF GateVenue, GateTriangle, Sides
    <2>2. start \in Nat /\ Floor \in Nat
      BY SearcherAssumption
    <2>3. Left(Sizing(h, side, start, Floor)) < Left(h)
      BY <1>2, <2>1, <2>2, SizingAdvances
    <2> QED BY <2>1, <2>3, OneAdvances
  <1> QED BY <1>3, <1>5, <1>6, <1>7, <1>8, <1>9 DEF TickStep

(* Every answer, failure and halving brings a tick nearer to its end, for  *)
(* every number of sizes tried and every market, so that no tick hunts for *)
(* ever.                                                                   *)
THEOREM EveryTickAdvances == Spec => TicksAdvance
  <1>1. IInv /\ [Next]_vars => [Advancing]_vars
    <2> SUFFICES ASSUME IInv, Next PROVE Advancing
      BY DEF Advancing
    <2>1. ASSUME NEW t \in Ticks, Begin(t) \/ Unreadable(t) \/ TickStep(t) PROVE Advancing
      BY <2>1, StartAdvances, TickStepAdvances
    <2>2. ASSUME NEW b \in sent, Land(b) \/ Expire(b) PROVE Advancing
      BY <2>2 DEF Land, Expire, Advancing
    <2>3. CASE Trade \/ OracleMoves \/ Crank
      BY <2>3 DEF Trade, OracleMoves, Crank, Advancing
    <2> QED BY <2>1, <2>2, <2>3 DEF Next
  <1> QED BY <1>1, Inductive, PTL DEF Spec, TicksAdvance, Advancing

-----------------------------------------------------------------------------
(* The port of the economics. *)

LEMMA LeverageIsPorted ==
    ASSUME NEW r \in Triangle, NEW side \in Sides
    PROVE  /\ SdkLeverage(r, side, 0, Band) =
                  PlanLeverage(0, Band.lMin, Band.lMax, r.pair[side], r.supply[side])
           /\ SdkLeverage(r, side, 0, Band) \in Nat
  <1> DEFINE lo == Lesser(Band.lMin, Band.lMax)
             hi == Greater(Band.lMin, Band.lMax)
             whole == r.pair[side] + r.supply[side]
             share == (r.pair[side] * BpsDenom) \div whole
             grown == lo + ((hi - lo) * share) \div BpsDenom
  <1>1. /\ Band.lMin \in Nat /\ Band.lMax \in Nat
        /\ r.pair[side] \in Nat /\ r.supply[side] \in Nat
    BY SearcherAssumption DEF Triangle
  <1>2. SdkLeverage(r, side, 0, Band) =
            Lesser(Clamp(Band.lMax, lo, hi), IF whole = 0 THEN lo ELSE Lesser(grown, hi))
    BY DEF SdkLeverage, SdkElastic
  <1>3. PlanLeverage(0, Band.lMin, Band.lMax, r.pair[side], r.supply[side]) =
            Lesser(Clamp(Band.lMax, lo, hi), IF whole = 0 THEN lo ELSE Lesser(hi, grown))
    BY DEF PlanLeverage, ClampLeverage, ElasticLeverage
  <1>4. lo \in Nat /\ hi \in Nat /\ hi - lo \in Nat /\ whole \in Nat
    BY <1>1 DEF Lesser, Greater
  <1> HIDE DEF lo, hi, whole
  <1>5. whole # 0 => grown \in Nat
    <2> SUFFICES ASSUME whole # 0 PROVE grown \in Nat
      OBVIOUS
    <2>1. r.pair[side] * BpsDenom \in Nat /\ whole \in Nat \ {0} /\ BpsDenom \in Nat \ {0}
      BY <1>1, <1>4, SMT DEF BpsDenom
    <2>2. share \in Nat
      BY <2>1, DivIsFloor
    <2> HIDE DEF share
    <2>3. (hi - lo) * share \in Nat
      BY <1>4, <2>2, SMT
    <2>4. ((hi - lo) * share) \div BpsDenom \in Nat
      BY <2>1, <2>3, DivIsFloor
    <2> QED BY <1>4, <2>4
  <1> HIDE DEF grown
  <1>6. whole # 0 => Lesser(grown, hi) = Lesser(hi, grown)
    BY <1>4, <1>5 DEF Lesser
  <1>7. SdkLeverage(r, side, 0, Band) =
            PlanLeverage(0, Band.lMin, Band.lMax, r.pair[side], r.supply[side])
    BY <1>2, <1>3, <1>6
  <1>8. PlanLeverage(0, Band.lMin, Band.lMax, r.pair[side], r.supply[side]) \in Nat
    BY <1>1, PlanLeverageIsNat
  <1> QED BY <1>7, <1>8

LEMMA MintIsPorted ==
    ASSUME NEW reserve \in Nat, NEW move \in Nat, NEW lev \in Nat
    PROVE  SdkMintAmount(reserve, ClampCrankMove(move), lev, Band.maxMint) =
               LoserMint(reserve, ClampCrankMove(move), lev, Band.maxMint, 0)
  <1> DEFINE sized == ClampCrankMove(move)
             frac == (sized * lev) \div BpsDenom
  <1>1. sized \in Nat \ {0} /\ Band.maxMint \in Nat /\ BpsDenom \in Nat \ {0}
    BY SearcherAssumption, SMT
       DEF ClampCrankMove, Clamp, Lesser, Greater, CrankMoveFloorBps, CrankMoveCapBps, BpsDenom
  <1>2. sized * lev \in Nat
    BY <1>1, SMT
  <1>3. frac \in Nat
    BY <1>1, <1>2, DivIsFloor
  <1>4. CapFraction(frac, Band.maxMint) =
            IF Band.maxMint # 0 THEN Lesser(frac, Band.maxMint) ELSE frac
    <2> HIDE DEF frac
    <2> QED BY <1>1, <1>3 DEF CapFraction, Lesser
  <1> QED BY <1>4 DEF SdkMintAmount, LoserMint, Breaks

(* For every basis, price and reserves the SDK's plan is the program's.    *)
LEMMA PlanIsPorted ==
    ASSUME NEW last \in Nat \ {0}, NEW now \in Nat, NEW r \in Triangle
    PROVE  LET sdk == SdkPlan(last, now, r, 0, Band)
               program == Plan(last, now, r.pair, r.pool, r.supply, 0,
                               Band.lMin, Band.lMax, Band.maxMint, Band.breaker)
           IN  /\ sdk.some <=> ReturnBps(last, now) # 0
               /\ sdk.some => /\ sdk.side = program.side
                              /\ sdk.pair = program.pair /\ sdk.pool = program.pool
  <1> DEFINE sdk == SdkPlan(last, now, r, 0, Band)
             program == Plan(last, now, r.pair, r.pool, r.supply, 0,
                             Band.lMin, Band.lMax, Band.maxMint, Band.breaker)
             move == ReturnBps(last, now)
             side == IF move < 0 THEN "A" ELSE "B"
             lev == SdkLeverage(r, side, 0, Band)
             sized == SdkSized(move)
             tripped == Band.breaker # 0 /\ Magnitude(move) >= Band.breaker
             amount(reserve) == IF tripped THEN 0
                                ELSE SdkMintAmount(reserve, sized, lev, Band.maxMint)
  <1>1. side \in Sides
    BY DEF Sides
  <1>2. SdkReturn(last, now) = move /\ last # 0
    BY DEF SdkReturn, ReturnBps
  <1>3. sdk = IF move = 0 THEN Nothing
              ELSE [some |-> TRUE, side |-> side, tripped |-> tripped, move |-> Magnitude(move),
                    pair |-> amount(r.pair[side]), pool |-> amount(r.pool[side])]
    BY <1>2 DEF SdkPlan
  <1>4. move \in Int
    <2>1. SdkReturn(last, now) \in Int
      BY SMT DEF SdkReturn, Truncated, BpsDenom
    <2> QED BY <1>2, <2>1
  <1>5. sized = ClampCrankMove(Magnitude(move)) /\ Magnitude(move) \in Nat
    BY <1>4 DEF SdkSized, ClampCrankMove, Magnitude
  <1>6. /\ lev = PlanLeverage(0, Band.lMin, Band.lMax, r.pair[side], r.supply[side])
        /\ lev \in Nat
    BY <1>1, LeverageIsPorted
  <1>7. program = [side |-> side,
                   pair |-> PlannedMint(r.pair[side], Magnitude(move), lev,
                                        Band.maxMint, Band.breaker),
                   pool |-> PlannedMint(r.pool[side], Magnitude(move), lev,
                                        Band.maxMint, Band.breaker)]
    BY <1>6 DEF Plan, Loser, AbsMove
  <1> HIDE DEF lev, move
  <1>8. ASSUME NEW reserve \in Nat
        PROVE  amount(reserve) = PlannedMint(reserve, Magnitude(move), lev,
                                             Band.maxMint, Band.breaker)
    <2>1. SdkMintAmount(reserve, sized, lev, Band.maxMint) =
              LoserMint(reserve, ClampCrankMove(Magnitude(move)), lev, Band.maxMint, 0)
      BY <1>5, <1>6, MintIsPorted
    <2> QED BY <2>1 DEF PlannedMint, Breaks
  <1>9. r.pair[side] \in Nat /\ r.pool[side] \in Nat
    BY <1>1 DEF Triangle
  <1>10. /\ amount(r.pair[side]) = PlannedMint(r.pair[side], Magnitude(move), lev,
                                               Band.maxMint, Band.breaker)
         /\ amount(r.pool[side]) = PlannedMint(r.pool[side], Magnitude(move), lev,
                                               Band.maxMint, Band.breaker)
    BY <1>8, <1>9
  <1> HIDE DEF amount, side, tripped, sized
  <1>11. sdk.some <=> move # 0
    BY <1>3 DEF Nothing
  <1>12. sdk.some => sdk.side = side /\ sdk.pair = amount(r.pair[side])
                     /\ sdk.pool = amount(r.pool[side])
    BY <1>3, <1>11
  <1>13. program.side = side /\ program.pair = amount(r.pair[side])
         /\ program.pool = amount(r.pool[side])
    BY <1>7, <1>10
  <1> HIDE DEF sdk, program
  <1>14. /\ sdk.some <=> move # 0
         /\ sdk.some => /\ sdk.side = program.side
                        /\ sdk.pair = program.pair /\ sdk.pool = program.pool
    BY <1>11, <1>12, <1>13
  <1> QED BY <1>14 DEF sdk, program, move

(* In every state, for every basis, price and reserves: the mint the SDK   *)
(* foresees of a crank is the mint the program would make, and the SDK     *)
(* foresees none exactly where the program plans none within its widths.   *)
THEOREM CrankAlwaysPredicted == Spec => []CrankIsPredicted
  <1>1. IInv => CrankIsPredicted
    <2> SUFFICES ASSUME IInv PROVE CrankIsPredicted
      OBVIOUS
    <2> DEFINE sdk == SdkPlan(basis, price, market, 0, Band)
               program == Plan(basis, price, market.pair, market.pool, market.supply, 0,
                               Band.lMin, Band.lMax, Band.maxMint, Band.breaker)
               has == HasPlan(basis, price, market.pair, market.pool, market.supply, 0,
                              Band.lMin, Band.lMax, Band.maxMint, Band.breaker)
    <2>1. basis \in Nat \ {0} /\ price \in Nat /\ market \in Triangle
      BY SearcherAssumption DEF IInv
    <2>2. /\ sdk.some <=> ReturnBps(basis, price) # 0
          /\ sdk.some => /\ sdk.side = program.side
                         /\ sdk.pair = program.pair /\ sdk.pool = program.pool
      BY <2>1, PlanIsPorted
    <2>3. has <=> /\ HasReturn(basis, price) /\ ReturnBps(basis, price) # 0
                  /\ program.pair <= U64Max /\ program.pool <= U64Max
      BY DEF HasPlan, HasMove
    <2> HIDE DEF sdk, program, has
    <2>4. /\ has => /\ sdk.some
                    /\ sdk.side = program.side
                    /\ sdk.pair = program.pair /\ sdk.pool = program.pool
          /\ sdk.some /\ HasReturn(basis, price) /\ sdk.pair <= U64Max /\ sdk.pool <= U64Max
                 => has
      BY <2>2, <2>3
    <2> QED BY <2>4 DEF CrankIsPredicted, sdk, program, has
  <1> QED BY <1>1, Inductive, PTL
=============================================================================
