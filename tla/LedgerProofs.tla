---------------------------- MODULE LedgerProofs ----------------------------
(***************************************************************************)
(* What module Ledger promises for every width, fee, reserve and amount:   *)
(* the proofs of its type invariant, of its safety invariants, and that no *)
(* deposit or withdrawal lowers the worth of an LP token.                  *)
(***************************************************************************)
EXTENDS Ledger, TLAPS

-----------------------------------------------------------------------------
(* Integer division. *)

(* a \div d is the largest multiple of d in a. *)
LEMMA DivIsFloor ==
    ASSUME NEW a \in Nat, NEW d \in Nat \ {0}
    PROVE  /\ a \div d \in Nat
           /\ (a \div d) * d <= a
           /\ a < (a \div d) * d + d
  BY SMT

(* Multiplying by a natural number keeps the order. *)
LEMMA MulKeepsOrder ==
    ASSUME NEW a \in Nat, NEW b \in Nat, NEW c \in Nat, a <= b
    PROVE  a * c <= b * c
  BY SMT

(* A common factor cancels from an inequality. *)
LEMMA MulCancels ==
    ASSUME NEW a \in Nat, NEW b \in Nat, NEW c \in Nat
    PROVE  /\ a * c < b * c => a < b
           /\ c > 0 /\ a * c <= b * c => a <= b
  BY SMT

(* A share of a reserve, rounded down, is part of it; a proper share       *)
(* leaves something of a reserve that is not empty.                        *)
LEMMA ShareIsPart ==
    ASSUME NEW part \in Nat, NEW whole \in Nat \ {0}, part <= whole,
           NEW reserve \in Nat
    PROVE  /\ (part * reserve) \div whole \in 0..reserve
           /\ part < whole /\ reserve > 0 => (part * reserve) \div whole < reserve
  <1> DEFINE q == (part * reserve) \div whole
  <1>1. part * reserve \in Nat
    BY SMT
  <1>2. q \in Nat /\ q * whole <= part * reserve
    BY <1>1, DivIsFloor
  <1>3. part * reserve <= whole * reserve
    BY MulKeepsOrder
  <1>4. q * whole <= reserve * whole
    BY <1>1, <1>2, <1>3, SMT
  <1>5. q <= reserve
    BY <1>2, <1>4, MulCancels, SMT
  <1>6. ASSUME part < whole, reserve > 0
        PROVE  q < reserve
    <2>1. part * reserve < whole * reserve
      BY <1>6, SMT
    <2>2. q * whole < reserve * whole
      BY <1>1, <1>2, <2>1, SMT
    <2> QED BY <1>2, <2>2, MulCancels, SMT
  <1> QED BY <1>2, <1>5, <1>6, SMT

(* Redeeming part of the LP pays out part of a reserve, never all of it,   *)
(* and at most the redeemed share.                                         *)
LEMMA WorthIsPart ==
    ASSUME NEW lp \in Nat, NEW lpTotal \in Nat, lp < lpTotal,
           NEW reserve \in Nat \ {0}
    PROVE  /\ WorthOf(lp, reserve, lpTotal) \in Nat
           /\ WorthOf(lp, reserve, lpTotal) < reserve
           /\ WorthOf(lp, reserve, lpTotal) * lpTotal <= lp * reserve
  <1>1. lpTotal \in Nat \ {0} /\ lp * reserve \in Nat
    BY SMT
  <1>2. (lp * reserve) \div lpTotal \in 0..reserve /\ (lp * reserve) \div lpTotal < reserve
    BY <1>1, ShareIsPart
  <1>3. ((lp * reserve) \div lpTotal) * lpTotal <= lp * reserve
    BY <1>1, DivIsFloor
  <1> QED BY <1>2, <1>3 DEF WorthOf

(* Buying LP costs at least the bought share of a reserve. *)
LEMMA CostCoversShare ==
    ASSUME NEW lp \in Nat, NEW lpTotal \in Nat \ {0}, NEW reserve \in Nat
    PROVE  /\ CostOf(lp, reserve, lpTotal) \in Nat
           /\ CostOf(lp, reserve, lpTotal) * lpTotal >= lp * reserve
  <1> DEFINE n == lp * reserve + lpTotal - 1
  <1>1. lp * reserve \in Nat
    BY SMT
  <1>2. n \in Nat
    BY <1>1, SMT
  <1>3. n \div lpTotal \in Nat /\ n < (n \div lpTotal) * lpTotal + lpTotal
    BY <1>2, DivIsFloor
  <1>4. (n \div lpTotal) * lpTotal \in Nat
    BY <1>3, SMT
  <1>5. (n \div lpTotal) * lpTotal >= lp * reserve
    BY <1>1, <1>3, <1>4, SMT
  <1> QED BY <1>3, <1>5 DEF CostOf, CeilDiv

(* Rounding up stops at the first multiple: whoever can pay the share      *)
(* without rounding can pay it rounded up.                                 *)
LEMMA CostIsLeast ==
    ASSUME NEW lp \in Nat, NEW lpTotal \in Nat \ {0}, NEW reserve \in Nat,
           NEW budget \in Nat, lp * reserve <= budget * lpTotal
    PROVE  CostOf(lp, reserve, lpTotal) <= budget
  <1> DEFINE n == lp * reserve + lpTotal - 1
             q == n \div lpTotal
  <1>1. lp * reserve \in Nat /\ budget * lpTotal \in Nat
    BY SMT
  <1>2. n \in Nat /\ n < budget * lpTotal + lpTotal
    BY <1>1, SMT
  <1>3. q \in Nat /\ q * lpTotal <= n
    BY <1>2, DivIsFloor
  <1>4. q * lpTotal < (budget + 1) * lpTotal
    BY <1>2, <1>3, SMT
  <1>5. q < budget + 1
    BY <1>3, <1>4, MulCancels, SMT
  <1> QED BY <1>3, <1>5, SMT DEF CostOf, CeilDiv

(* A swap never pays out the whole of a reserve. *)
LEMMA SwapOutIsPart ==
    ASSUME NEW x \in Nat, NEW reserveIn \in Nat \ {0}, NEW reserveOut \in Nat \ {0}
    PROVE  /\ SwapOut(x, reserveIn, reserveOut) \in Nat
           /\ SwapOut(x, reserveIn, reserveOut) < reserveOut
  <1>1. reserveIn + x \in Nat \ {0} /\ x < reserveIn + x
    BY SMT
  <1> QED BY <1>1, ShareIsPart, SMT DEF SwapOut

(* The constant product of a pool does not fall in a swap. *)
LEMMA SwapKeepsProduct ==
    ASSUME NEW x \in Nat, NEW reserveIn \in Nat \ {0}, NEW reserveOut \in Nat \ {0}
    PROVE  (reserveIn + x) * (reserveOut - SwapOut(x, reserveIn, reserveOut))
                >= reserveIn * reserveOut
  <1> DEFINE out == (x * reserveOut) \div (reserveIn + x)
  <1>1. reserveIn + x \in Nat \ {0} /\ x * reserveOut \in Nat
    BY SMT
  <1>2. out \in Nat /\ out * (reserveIn + x) <= x * reserveOut
    BY <1>1, DivIsFloor
  <1> HIDE DEF out
  <1>3. (reserveIn + x) * (reserveOut - out)
            = reserveIn * reserveOut + x * reserveOut - out * (reserveIn + x)
    BY <1>2, SMT
  <1>4. (reserveIn + x) * (reserveOut - out) >= reserveIn * reserveOut
    BY <1>1, <1>2, <1>3, SMT
  <1> QED BY <1>4 DEF SwapOut, out

(* If each of two reserves keeps its worth per LP token, so does their     *)
(* product over the square of the LP supply.                               *)
LEMMA ProductKeepsWorth ==
    ASSUME NEW x \in Nat, NEW y \in Nat, NEW l \in Nat,
           NEW x1 \in Nat, NEW y1 \in Nat, NEW l1 \in Nat,
           x1 * l >= x * l1, y1 * l >= y * l1
    PROVE  (x1 * y1) * (l * l) >= (x * y) * (l1 * l1)
  <1>1. x1 * l \in Nat /\ x * l1 \in Nat /\ y1 * l \in Nat /\ y * l1 \in Nat
    BY SMT
  <1>2. (x * l1) * (y * l1) <= (x1 * l) * (y * l1)
    BY <1>1, MulKeepsOrder
  <1>3. (y * l1) * (x1 * l) <= (y1 * l) * (x1 * l)
    BY <1>1, MulKeepsOrder
  <1>4. /\ (x1 * y1) * (l * l) = (y1 * l) * (x1 * l)
        /\ (x * y) * (l1 * l1) = (x * l1) * (y * l1)
        /\ (x1 * l) * (y * l1) = (y * l1) * (x1 * l)
    BY SMT
  <1> QED BY <1>1, <1>2, <1>3, <1>4, SMT

-----------------------------------------------------------------------------
(* The inductive invariant.  Backing alone is not inductive: that redeemed *)
(* LP is a proper part of a pool needs the creator's LP, that what leaves  *)
(* a pool is there needs the reserves positive, and that the synthetics    *)
(* burned were minted needs their conservation.                            *)

ReservesPositive ==
    /\ \A s \in Sides : poolSynth[s] > 0
    /\ pairLp > 0

(* Every synthetic minted is in a pool, in the authority's account or sold. *)
SynthConserved ==
    \A s \in Sides :
        synthSupply[s] = poolSynth[s] + pairSynth[s] + protoSynth[s] + held[s]

FeesInVault == ~SharedFeeVault => feesDue = feeVault

IInv == /\ TypeOK
        /\ ReceiptsBacked
        /\ PoolNeverEmptied
        /\ SynthConserved
        /\ QuoteConserved
        /\ ReservesPositive
        /\ FeesInVault

LEMMA InitIInv == Init => IInv
  <1> SUFFICES ASSUME Init
               PROVE  IInv
    OBVIOUS
  <1>1. U64Max \in Nat /\ InitReserve \in Nat \ {0} /\ 2 * InitReserve <= U64Max /\ InitPurse \in Nat
    BY LedgerAssumption
  <1>2. TypeOK
    <2>1. InitReserve \in 0..U64Max /\ 2 * InitReserve \in 0..U64Max /\ 0 \in 0..U64Max
      BY <1>1, SMT
    <2>2. InitReserve \in Nat /\ 0 \in Nat
      BY <1>1, SMT
    <2> QED BY <1>1, <2>1, <2>2, Zenon DEF Init, TypeOK
  <1>3. ReceiptsBacked /\ PoolNeverEmptied /\ ReservesPositive
    BY <1>1, SMT DEF Init, ReceiptsBacked, PoolNeverEmptied, ReservesPositive, ProtoLpTotal, Sides
  <1>4. SynthConserved
    BY <1>1, SMT DEF Init, SynthConserved
  <1>5. QuoteConserved
    BY <1>1, SMT DEF Init, QuoteConserved, Sides
  <1>6. FeesInVault
    BY SMT DEF Init, FeesInVault
  <1> QED BY <1>2, <1>3, <1>4, <1>5, <1>6 DEF IInv

(* A fee is part of the USDC it is taken from. *)
LEMMA FeeIsPart ==
    ASSUME NEW usdc \in Nat, NEW passed \in BOOLEAN
    PROVE  Fee(usdc, passed) \in 0..usdc
  <1>1. FeeBps \in Nat /\ FeeBps <= BpsDenom /\ BpsDenom \in Nat \ {0}
    BY LedgerAssumption, SMT DEF BpsDenom
  <1>2. (FeeBps * usdc) \div BpsDenom \in 0..usdc
    BY <1>1, ShareIsPart
  <1>3. FeeBps * usdc = usdc * FeeBps
    BY <1>1, SMT
  <1> QED BY <1>2, <1>3, SMT DEF Fee

LEMMA DepositKeepsIInv ==
    ASSUME IInv, NEW side \in Sides, NEW lp \in LpAmounts, NEW usdc \in QuoteAmounts,
           NEW cap \in SynthCaps, NEW passed \in BOOLEAN,
           Deposit(side, lp, usdc, cap, passed)
    PROVE  IInv'
  <1> DEFINE fee == Fee(usdc, passed)
             kept == LeavesAccount(fee)
             cost == QuoteCost(side, lp)
             synth == SynthCost(side, lp)
  <1>1. lp \in Nat /\ usdc \in Nat /\ cap \in Nat /\ U64Max \in Nat
    BY LedgerAssumption
  <1>2. fee \in 0..usdc
    BY <1>1, FeeIsPart
  <1>3. kept \in 0..usdc /\ (SharedFeeVault => kept = 0) /\ (~SharedFeeVault => kept = fee)
    BY <1>1, <1>2, SMT DEF LeavesAccount
  <1>4. lpSupply[side] \in Nat \ {0} /\ poolQuote[side] \in Nat /\ poolSynth[side] \in Nat
    BY SMT DEF IInv, TypeOK, PoolNeverEmptied
  <1>5. cost \in Nat /\ synth \in Nat
    BY <1>1, <1>4, CostCoversShare DEF QuoteCost, SynthCost
  <1> HIDE DEF fee, kept, cost, synth
  <1>6. TypeOK'
    BY <1>1, <1>2, <1>3, <1>5, SMT
       DEF IInv, TypeOK, Deposit, DepositFits, SaturatingSum, ReturnDust, QuoteConserved, pair, fee, kept, cost, synth
  <1>7. ReceiptsBacked'
    BY <1>1, SMT
       DEF IInv, TypeOK, ReceiptsBacked, Deposit, DepositFits, SaturatingSum, ProtoLpTotal, Sides
  <1>8. PoolNeverEmptied' /\ ReservesPositive'
    BY <1>1, <1>5, SMT
       DEF IInv, TypeOK, PoolNeverEmptied, ReservesPositive, Deposit, pair, cost, synth
  <1>9. SynthConserved'
    BY <1>1, <1>5, SMT DEF IInv, TypeOK, SynthConserved, Deposit, pair, synth
  <1>10. QuoteConserved'
    BY <1>1, <1>3, <1>5, SMT DEF IInv, TypeOK, QuoteConserved, Deposit, ReturnDust, Sides, kept, fee, cost
  <1>11. FeesInVault'
    BY <1>2, <1>3, SMT DEF IInv, TypeOK, FeesInVault, Deposit, kept, fee
  <1> QED BY <1>6, <1>7, <1>8, <1>9, <1>10, <1>11 DEF IInv

LEMMA WithdrawKeepsIInv ==
    ASSUME IInv, NEW side \in Sides, NEW amount \in LpAmounts, Withdraw(side, amount)
    PROVE  IInv'
  <1> DEFINE quote == QuoteWorth(side, amount)
             synth == SynthWorth(side, amount)
  <1>1. amount \in Nat /\ U64Max \in Nat
    BY LedgerAssumption
  <1>2. /\ lpSupply[side] \in Nat /\ amount < lpSupply[side]
        /\ poolQuote[side] \in Nat \ {0} /\ poolSynth[side] \in Nat \ {0}
    BY <1>1, SMT
       DEF IInv, TypeOK, PoolNeverEmptied, ReservesPositive, Withdraw, WithdrawFits
  <1>3. /\ quote \in Nat /\ quote < poolQuote[side]
        /\ synth \in Nat /\ synth < poolSynth[side]
    BY <1>1, <1>2, WorthIsPart DEF QuoteWorth, SynthWorth
  <1> HIDE DEF quote, synth
  <1>4. synth <= synthSupply[side]
    BY <1>3, SMT DEF IInv, TypeOK, SynthConserved
  <1>5. TypeOK'
    BY <1>1, <1>3, <1>4, SMT
       DEF IInv, TypeOK, PoolNeverEmptied, Withdraw, WithdrawFits, SaturatingDiff, pair, fees, quote, synth
  <1>6. ReceiptsBacked'
    BY <1>1, SMT
       DEF IInv, TypeOK, ReceiptsBacked, Withdraw, WithdrawFits, SaturatingDiff, ProtoLpTotal, Sides
  <1>7. PoolNeverEmptied' /\ ReservesPositive'
    BY <1>1, <1>3, SMT
       DEF IInv, TypeOK, PoolNeverEmptied, ReservesPositive, Withdraw, WithdrawFits, pair, quote, synth
  <1>8. SynthConserved'
    BY <1>3, <1>4, SMT DEF IInv, TypeOK, SynthConserved, Withdraw, pair, synth
  <1>9. QuoteConserved'
    BY <1>3, SMT DEF IInv, TypeOK, QuoteConserved, Withdraw, fees, Sides, quote
  <1>10. FeesInVault'
    BY SMT DEF IInv, FeesInVault, Withdraw, fees
  <1> QED BY <1>5, <1>6, <1>7, <1>8, <1>9, <1>10 DEF IInv

LEMMA SeedPairKeepsIInv ==
    ASSUME IInv, NEW lp \in LpAmounts, NEW cap \in SynthCaps, SeedPair(lp, cap)
    PROVE  IInv'
  <1> DEFINE cost(s) == CostOf(lp, pairSynth[s], pairLp)
  <1>1. lp \in Nat /\ cap \in Nat /\ U64Max \in Nat
    BY LedgerAssumption
  <1>2. pairLp \in Nat \ {0} /\ \A s \in Sides : pairSynth[s] \in Nat
    BY SMT DEF IInv, TypeOK, ReservesPositive
  <1>3. \A s \in Sides : cost(s) \in Nat
    BY <1>1, <1>2, CostCoversShare
  <1>4. /\ \A s \in Sides : synthSupply[s] + cap <= U64Max /\ cost(s) <= cap
        /\ synthSupply' = [s \in Sides |-> synthSupply[s] + cap]
        /\ pairSynth' = [s \in Sides |-> pairSynth[s] + cost(s)]
        /\ protoSynth' = [s \in Sides |-> protoSynth[s] + cap - cost(s)]
        /\ pairLp' = pairLp + lp
        /\ UNCHANGED <<config, receiptSupply, pools, protoLp, protoQuote, purse, held, fees>>
    BY DEF SeedPair
  <1> HIDE DEF cost
  <1>5. TypeOK'
    BY <1>1, <1>3, <1>4, SMT DEF IInv, TypeOK, config, pools, fees
  <1>6. ReceiptsBacked' /\ PoolNeverEmptied' /\ ReservesPositive'
    BY <1>1, <1>2, <1>4, SMT
       DEF IInv, TypeOK, ReceiptsBacked, PoolNeverEmptied, ReservesPositive, ProtoLpTotal,
           config, pools
  <1>7. SynthConserved'
    BY <1>1, <1>3, <1>4, SMT DEF IInv, TypeOK, SynthConserved, pools
  <1>8. QuoteConserved' /\ FeesInVault'
    BY <1>4, SMT DEF IInv, QuoteConserved, FeesInVault, pools, fees
  <1> QED BY <1>5, <1>6, <1>7, <1>8 DEF IInv

LEMMA CrankKeepsIInv ==
    ASSUME IInv, NEW side \in Sides, NEW inPair \in CrankMints, NEW inPool \in CrankMints,
           Crank(side, inPair, inPool)
    PROVE  IInv'
  <1>1. inPair \in Nat /\ inPool \in Nat /\ U64Max \in Nat
    BY LedgerAssumption
  <1>2. TypeOK'
    BY <1>1, SMT DEF IInv, TypeOK, Crank, config, fees
  <1>3. ReceiptsBacked' /\ PoolNeverEmptied' /\ ReservesPositive'
    BY <1>1, SMT
       DEF IInv, TypeOK, ReceiptsBacked, PoolNeverEmptied, ReservesPositive, ProtoLpTotal,
           Crank, config
  <1>4. SynthConserved'
    BY <1>1, SMT DEF IInv, TypeOK, SynthConserved, Crank
  <1>5. QuoteConserved' /\ FeesInVault'
    BY SMT DEF IInv, QuoteConserved, FeesInVault, Crank, fees
  <1> QED BY <1>2, <1>3, <1>4, <1>5 DEF IInv

LEMMA BuyBurnKeepsIInv ==
    ASSUME IInv, NEW amount \in QuoteAmounts, BuyBurn(amount)
    PROVE  IInv'
  <1>1. amount \in Nat \ {0}
    BY LedgerAssumption
  <1>2. ~SharedFeeVault /\ amount <= feeVault
    BY <1>1, SMT DEF IInv, QuoteConserved, BuyBurn, FeeBalance
  <1>3. TypeOK'
    BY <1>1, <1>2, SMT DEF IInv, TypeOK, BuyBurn, SaturatingDiff, config, pools, pair
  <1>4. ReceiptsBacked' /\ PoolNeverEmptied' /\ ReservesPositive' /\ SynthConserved'
    BY SMT
       DEF IInv, ReceiptsBacked, PoolNeverEmptied, ReservesPositive, SynthConserved,
           ProtoLpTotal, BuyBurn, config, pools, pair
  <1>5. QuoteConserved' /\ FeesInVault'
    BY <1>1, <1>2, SMT
       DEF IInv, TypeOK, QuoteConserved, FeesInVault, BuyBurn, SaturatingDiff, pools, Sides
  <1> QED BY <1>3, <1>4, <1>5 DEF IInv

LEMMA BurnReceiptKeepsIInv ==
    ASSUME IInv, NEW amount \in LpAmounts, BurnReceipt(amount)
    PROVE  IInv'
  <1>1. amount \in Nat /\ U64Max \in Nat
    BY LedgerAssumption
  <1>2. TypeOK'
    BY <1>1, SMT DEF IInv, TypeOK, BurnReceipt, config, pools, pair, fees
  <1>3. ReceiptsBacked' /\ PoolNeverEmptied' /\ ReservesPositive' /\ SynthConserved'
    BY <1>1, SMT
       DEF IInv, TypeOK, ReceiptsBacked, PoolNeverEmptied, ReservesPositive, SynthConserved,
           ProtoLpTotal, BurnReceipt, config, pools, pair
  <1>4. QuoteConserved' /\ FeesInVault'
    BY SMT DEF IInv, QuoteConserved, FeesInVault, BurnReceipt, pools, fees
  <1> QED BY <1>2, <1>3, <1>4 DEF IInv

LEMMA TradeKeepsIInv ==
    ASSUME IInv, NEW side \in Sides, NEW amount \in QuoteAmounts,
           BuySynth(side, amount) \/ SellSynth(side, amount)
    PROVE  IInv'
  <1> DEFINE bought == SwapOut(amount, poolQuote[side], poolSynth[side])
             paid == SwapOut(amount, poolSynth[side], poolQuote[side])
  <1>1. amount \in Nat
    BY LedgerAssumption
  <1>2. poolQuote[side] \in Nat \ {0} /\ poolSynth[side] \in Nat \ {0}
    BY SMT DEF IInv, TypeOK, PoolNeverEmptied, ReservesPositive
  <1>3. /\ bought \in Nat /\ bought < poolSynth[side]
        /\ paid \in Nat /\ paid < poolQuote[side]
    BY <1>1, <1>2, SwapOutIsPart
  <1> HIDE DEF bought, paid
  <1>4. CASE BuySynth(side, amount)
    <2>1. TypeOK'
      BY <1>1, <1>3, <1>4, SMT DEF IInv, TypeOK, BuySynth, config, pair, fees, bought
    <2>2. ReceiptsBacked' /\ PoolNeverEmptied' /\ ReservesPositive'
      BY <1>1, <1>3, <1>4, SMT
         DEF IInv, TypeOK, ReceiptsBacked, PoolNeverEmptied, ReservesPositive, ProtoLpTotal,
             BuySynth, config, pair, bought
    <2>3. SynthConserved'
      BY <1>3, <1>4, SMT DEF IInv, TypeOK, SynthConserved, BuySynth, pair, bought
    <2>4. QuoteConserved' /\ FeesInVault'
      BY <1>1, <1>4, SMT DEF IInv, TypeOK, QuoteConserved, FeesInVault, BuySynth, fees, Sides
    <2> QED BY <2>1, <2>2, <2>3, <2>4 DEF IInv
  <1>5. CASE SellSynth(side, amount)
    <2>1. TypeOK'
      BY <1>1, <1>3, <1>5, SMT DEF IInv, TypeOK, SellSynth, config, pair, fees, paid
    <2>2. ReceiptsBacked' /\ PoolNeverEmptied' /\ ReservesPositive'
      BY <1>1, <1>3, <1>5, SMT
         DEF IInv, TypeOK, ReceiptsBacked, PoolNeverEmptied, ReservesPositive, ProtoLpTotal,
             SellSynth, config, pair, paid
    <2>3. SynthConserved'
      BY <1>1, <1>5, SMT DEF IInv, TypeOK, SynthConserved, SellSynth, pair
    <2>4. QuoteConserved' /\ FeesInVault'
      BY <1>3, <1>5, SMT
         DEF IInv, TypeOK, QuoteConserved, FeesInVault, SellSynth, fees, Sides, paid
    <2> QED BY <2>1, <2>2, <2>3, <2>4 DEF IInv
  <1> QED BY <1>4, <1>5

LEMMA NextKeepsIInv == IInv /\ [Next]_vars => IInv'
  <1> SUFFICES ASSUME IInv, [Next]_vars
               PROVE  IInv'
    OBVIOUS
  <1>1. ASSUME NEW side \in Sides, NEW lp \in LpAmounts, NEW usdc \in QuoteAmounts,
               NEW cap \in SynthCaps, NEW passed \in BOOLEAN,
               Deposit(side, lp, usdc, cap, passed)
        PROVE  IInv'
    BY <1>1, DepositKeepsIInv
  <1>2. ASSUME NEW side \in Sides, NEW amount \in LpAmounts, Withdraw(side, amount)
        PROVE  IInv'
    BY <1>2, WithdrawKeepsIInv
  <1>3. ASSUME NEW want \in BOOLEAN, SetPaused(want)
        PROVE  IInv'
    <2>1. TypeOK'
      BY <1>3 DEF IInv, TypeOK, SetPaused, pools, pair, fees
    <2> QED
      BY <1>3, <2>1
         DEF IInv, ReceiptsBacked, PoolNeverEmptied, SynthConserved, QuoteConserved,
             ReservesPositive, FeesInVault, ProtoLpTotal, SetPaused, pools, pair, fees
  <1>4. ASSUME NEW lp \in LpAmounts, NEW cap \in SynthCaps, SeedPair(lp, cap)
        PROVE  IInv'
    BY <1>4, SeedPairKeepsIInv
  <1>5. ASSUME NEW side \in Sides, NEW inPair \in CrankMints, NEW inPool \in CrankMints,
               Crank(side, inPair, inPool)
        PROVE  IInv'
    BY <1>5, CrankKeepsIInv
  <1>6. ASSUME NEW amount \in QuoteAmounts, BuyBurn(amount)
        PROVE  IInv'
    BY <1>6, BuyBurnKeepsIInv
  <1>7. ASSUME NEW amount \in LpAmounts, BurnReceipt(amount)
        PROVE  IInv'
    BY <1>7, BurnReceiptKeepsIInv
  <1>8. ASSUME NEW side \in Sides, NEW amount \in QuoteAmounts,
               BuySynth(side, amount) \/ SellSynth(side, amount)
        PROVE  IInv'
    BY <1>8, TradeKeepsIInv
  <1>9. CASE UNCHANGED vars
    BY <1>9
       DEF IInv, TypeOK, ReceiptsBacked, PoolNeverEmptied, SynthConserved, QuoteConserved,
           ReservesPositive, FeesInVault, ProtoLpTotal, vars
  <1> QED BY <1>1, <1>2, <1>3, <1>4, <1>5, <1>6, <1>7, <1>8, <1>9 DEF Next

LEMMA SpecIInv == Spec => []IInv
  BY InitIInv, NextKeepsIInv, PTL DEF Spec

-----------------------------------------------------------------------------
(* Arithmetic of the client's plans. *)

(* Two legs burned in proportion to what the protocol has of each do not   *)
(* exceed either, however the first is rounded.                            *)
LEMMA SplitFits ==
    ASSUME NEW a \in Nat, NEW b \in Nat, NEW amount \in Nat, amount <= a + b, a + b > 0
    PROVE  LET burn == (amount * a) \div (a + b)
           IN  /\ burn \in 0..a
               /\ amount - burn \in 0..b
  <1> DEFINE total == a + b
             burn == (amount * a) \div total
  <1>1. total \in Nat \ {0} /\ a <= total /\ amount <= total
    BY SMT
  <1>2. burn \in 0..a
    BY <1>1, ShareIsPart
  <1>3. burn <= amount
    <2>1. (a * amount) \div total \in 0..amount
      BY <1>1, ShareIsPart
    <2>2. a * amount = amount * a
      BY SMT
    <2> QED BY <2>1, <2>2, SMT
  <1>4. amount - burn <= b
    <2>1. amount * a \in Nat /\ amount * b \in Nat
      BY SMT
    <2>2. amount * a < burn * total + total
      BY <1>1, <2>1, DivIsFloor
    <2>3. amount * total = amount * a + amount * b
      BY SMT
    <2>4. amount * b <= total * b
      BY <1>1, MulKeepsOrder
    <2>5. (burn + 1 + b) * total = burn * total + total + total * b
      BY <1>1, <1>2, SMT
    <2>6. amount * total < (burn + 1 + b) * total
      BY <1>1, <1>2, <2>1, <2>2, <2>3, <2>4, <2>5, SMT
    <2>7. amount < burn + 1 + b
      BY <1>1, <1>2, <2>6, MulCancels, SMT
    <2> QED BY <1>2, <2>7, SMT
  <1> QED BY <1>2, <1>3, <1>4, SMT

LEMMA IInvExitOpen == IInv => ExitOpen
  <1> SUFFICES ASSUME IInv, NEW amount \in 1..receiptSupply
               PROVE  /\ ProtoLpTotal > 0
                      /\ \A s \in Sides : WithdrawFits(s, ClientBurn(amount)[s])
    BY DEF ExitOpen
  <1>1. /\ receiptSupply \in Nat /\ protoLp["A"] \in Nat /\ protoLp["B"] \in Nat
        /\ amount \in Nat /\ 0 < amount /\ amount <= receiptSupply
        /\ receiptSupply <= protoLp["A"] + protoLp["B"]
    BY LedgerAssumption, SMT DEF IInv, TypeOK, ReceiptsBacked, ProtoLpTotal, Sides
  <1> DEFINE burnA == (amount * protoLp["A"]) \div (protoLp["A"] + protoLp["B"])
  <1>2. burnA \in 0..protoLp["A"] /\ amount - burnA \in 0..protoLp["B"]
    <2>1. amount <= protoLp["A"] + protoLp["B"] /\ protoLp["A"] + protoLp["B"] > 0
      BY <1>1, SMT
    <2> QED BY <1>1, <2>1, SplitFits
  <1>3. ClientBurn(amount) = [s \in Sides |-> IF s = "A" THEN burnA ELSE amount - burnA]
    BY DEF ClientBurn, ProtoLpTotal
  <1> HIDE DEF burnA
  <1>4. WithdrawFits("A", ClientBurn(amount)["A"])
    BY <1>1, <1>2, <1>3, SMT DEF WithdrawFits, Sides
  <1>5. WithdrawFits("B", ClientBurn(amount)["B"])
    BY <1>1, <1>2, <1>3, SMT DEF WithdrawFits, Sides
  <1> QED BY <1>1, <1>4, <1>5, SMT DEF ProtoLpTotal, Sides

LEMMA IInvFreshDepositLands == IInv => FreshDepositLands
  <1> SUFFICES ASSUME IInv, NEW side \in Sides, NEW usdc \in QuoteAmounts,
                      ~paused, usdc <= purse, ClientLp(side, usdc) > 0,
                      synthSupply[side] + ClientMaxSynth(side, ClientLp(side, usdc)) <= U64Max,
                      lpSupply[side] + ClientLp(side, usdc) <= U64Max,
                      receiptSupply + ClientLp(side, usdc) <= U64Max
               PROVE  ClientDepositFits(side, usdc, FALSE)
    BY DEF FreshDepositLands, ClientDepositLands
  <1> DEFINE lp == ClientLp(side, usdc)
             needed == (poolSynth[side] * lp) \div lpSupply[side]
             cap == ClientMaxSynth(side, lp)
  <1>1. /\ usdc \in Nat /\ SlippageBps \in Nat /\ protoQuote = 0
        /\ lpSupply[side] \in Nat \ {0}
        /\ poolQuote[side] \in Nat \ {0} /\ poolSynth[side] \in Nat
    BY LedgerAssumption, SMT DEF IInv, TypeOK, PoolNeverEmptied, QuoteConserved
  <1>2. lp \in Nat /\ lp * poolQuote[side] <= usdc * lpSupply[side]
    <2>1. usdc * lpSupply[side] \in Nat
      BY <1>1, SMT
    <2> QED BY <1>1, <2>1, DivIsFloor DEF ClientLp
  <1> HIDE DEF lp
  <1>3. QuoteCost(side, lp) <= usdc
    BY <1>1, <1>2, CostIsLeast DEF QuoteCost
  <1>4. needed \in Nat /\ lp * poolSynth[side] <= (needed + 1) * lpSupply[side]
    <2>1. poolSynth[side] * lp \in Nat /\ poolSynth[side] * lp = lp * poolSynth[side]
      BY <1>1, <1>2, SMT
    <2>2. needed \in Nat /\ poolSynth[side] * lp < needed * lpSupply[side] + lpSupply[side]
      BY <1>1, <2>1, DivIsFloor
    <2>3. (needed + 1) * lpSupply[side] = needed * lpSupply[side] + lpSupply[side]
      BY <1>1, <2>2, SMT
    <2> QED BY <1>1, <2>1, <2>2, <2>3, SMT
  <1>5. needed + 1 <= cap /\ cap \in Nat
    <2>1. needed * SlippageBps \in Nat /\ BpsDenom \in Nat \ {0}
      BY <1>1, <1>4, SMT DEF BpsDenom
    <2>2. (needed * SlippageBps) \div BpsDenom \in Nat
      BY <2>1, DivIsFloor
    <2> HIDE DEF needed
    <2>3. cap = needed + (needed * SlippageBps) \div BpsDenom + 1
      BY DEF ClientMaxSynth, needed
    <2> QED BY <1>4, <2>2, <2>3, SMT
  <1>6. SynthCost(side, lp) <= needed + 1
    <2> HIDE DEF needed
    <2> QED BY <1>1, <1>2, <1>4, CostIsLeast, SMT DEF SynthCost
  <1>7. SynthCost(side, lp) \in Nat /\ QuoteCost(side, lp) \in Nat
    BY <1>1, <1>2, CostCoversShare DEF SynthCost, QuoteCost
  <1> HIDE DEF needed, cap
  <1>8. SynthCost(side, lp) <= cap
    BY <1>4, <1>5, <1>6, <1>7, SMT
  <1>9. Fee(usdc, FALSE) = 0 /\ LeavesAccount(0) = 0
    BY DEF Fee, LeavesAccount
  <1>10. /\ synthSupply[side] + cap <= U64Max
         /\ lpSupply[side] + lp <= U64Max
         /\ receiptSupply + lp <= U64Max
    BY DEF cap, lp
  <1>11. DepositFits(side, lp, usdc, cap, 0)
    BY <1>1, <1>3, <1>7, <1>8, <1>9, <1>10, SMT DEF DepositFits
  <1> QED BY <1>9, <1>11 DEF ClientDepositFits, lp, cap

-----------------------------------------------------------------------------
(* The theorems. *)

(* Every account and supply keeps its type: no subtraction of deposit,     *)
(* withdraw, seed_pair or buy_burn ever goes below zero, and no supply     *)
(* exceeds its width.                                                      *)
THEOREM TypeCorrect == Spec => []TypeOK
  <1>1. IInv => TypeOK
    BY DEF IInv
  <1> QED BY <1>1, SpecIInv, PTL

(* Receipts in circulation never exceed total_receipt, nor that the LP the *)
(* protocol owns, whatever the public burns outside the engine.            *)
THEOREM Backed == Spec => []ReceiptsBacked
  <1>1. IInv => ReceiptsBacked
    BY DEF IInv
  <1> QED BY <1>1, SpecIInv, PTL

(* Any amount of receipts can be redeemed along the client's split.        *)
THEOREM AlwaysAnExit == Spec => []ExitOpen
  BY IInvExitOpen, SpecIInv, PTL

(* A withdrawal never empties a pool. *)
THEOREM PoolsStayOpen == Spec => []PoolNeverEmptied
  <1>1. IInv => PoolNeverEmptied
    BY DEF IInv
  <1> QED BY <1>1, SpecIInv, PTL

(* Synthetics and USDC are conserved, and the authority keeps no USDC.     *)
THEOREM Conserved == Spec => [](SynthConserved /\ QuoteConserved)
  <1>1. IInv => SynthConserved /\ QuoteConserved
    BY DEF IInv
  <1> QED BY <1>1, SpecIInv, PTL

(* A deposit sized on the reserves it meets always goes through.           *)
THEOREM FreshDepositsLand == Spec => []FreshDepositLands
  BY IInvFreshDepositLands, SpecIInv, PTL

(* With a fee vault of its own, the fees skimmed are there until buy_burn  *)
(* spends them, and nothing else is.                                       *)
THEOREM FeesStay == Spec => []FeesInVault
  <1>1. IInv => FeesInVault
    BY DEF IInv
  <1> QED BY <1>1, SpecIInv, PTL

(* What backs the LP of one pool does not shrink in a step. *)
Kept(s) ==
    (poolSynth'[s] * poolQuote'[s]) * (lpSupply[s] * lpSupply[s])
        >= (poolSynth[s] * poolQuote[s]) * (lpSupply'[s] * lpSupply'[s])

(* It is enough to look at the pool a step changes, and there at each of   *)
(* the reserves when the LP supply changes.                                *)
LEMMA KeptWhenEachKept ==
    ASSUME IInv, NEW side \in Sides,
           NEW synth \in Nat, NEW quote \in Nat, NEW lp \in Nat,
           poolSynth' = [poolSynth EXCEPT ![side] = synth],
           poolQuote' = [poolQuote EXCEPT ![side] = quote],
           lpSupply' = [lpSupply EXCEPT ![side] = lp],
           synth * lpSupply[side] >= poolSynth[side] * lp,
           quote * lpSupply[side] >= poolQuote[side] * lp
    PROVE  \A s \in Sides : Kept(s)
  <1>1. \A s \in Sides : poolSynth[s] \in Nat /\ poolQuote[s] \in Nat /\ lpSupply[s] \in Nat
    BY LedgerAssumption, SMT DEF IInv, TypeOK
  <1>2. (synth * quote) * (lpSupply[side] * lpSupply[side])
            >= (poolSynth[side] * poolQuote[side]) * (lp * lp)
    BY <1>1, ProductKeepsWorth
  <1>3. poolSynth'[side] = synth /\ poolQuote'[side] = quote /\ lpSupply'[side] = lp
    BY DEF IInv, TypeOK
  <1>4. Kept(side)
    BY <1>2, <1>3 DEF Kept
  <1>5. ASSUME NEW s \in Sides, s # side
        PROVE  Kept(s)
    <2>1. poolSynth'[s] = poolSynth[s] /\ poolQuote'[s] = poolQuote[s] /\ lpSupply'[s] = lpSupply[s]
      BY <1>5 DEF IInv, TypeOK
    <2>2. (poolSynth[s] * poolQuote[s]) * (lpSupply[s] * lpSupply[s]) \in Int
      BY <1>1, <1>5, SMT
    <2> QED BY <2>1, <2>2, SMT DEF Kept
  <1> QED BY <1>4, <1>5

(* A swap in one pool. *)
LEMMA KeptWhenProductKept ==
    ASSUME IInv, NEW side \in Sides, NEW synth \in Nat, NEW quote \in Nat,
           poolSynth' = [poolSynth EXCEPT ![side] = synth],
           poolQuote' = [poolQuote EXCEPT ![side] = quote],
           UNCHANGED lpSupply,
           synth * quote >= poolSynth[side] * poolQuote[side]
    PROVE  \A s \in Sides : Kept(s)
  <1> SUFFICES ASSUME NEW s \in Sides
               PROVE  Kept(s)
    OBVIOUS
  <1>1. poolSynth[s] \in Nat /\ poolQuote[s] \in Nat /\ lpSupply[s] \in Nat
    BY LedgerAssumption, SMT DEF IInv, TypeOK
  <1>2. poolSynth'[s] \in Nat /\ poolQuote'[s] \in Nat
    BY <1>1 DEF IInv, TypeOK
  <1>3. poolSynth[s] * poolQuote[s] <= poolSynth'[s] * poolQuote'[s]
    BY <1>1, SMT DEF IInv, TypeOK
  <1>4. /\ poolSynth[s] * poolQuote[s] \in Nat /\ poolSynth'[s] * poolQuote'[s] \in Nat
        /\ lpSupply[s] * lpSupply[s] \in Nat
    BY <1>1, <1>2, SMT
  <1>5. (poolSynth[s] * poolQuote[s]) * (lpSupply[s] * lpSupply[s])
            <= (poolSynth'[s] * poolQuote'[s]) * (lpSupply[s] * lpSupply[s])
    BY <1>3, <1>4, MulKeepsOrder
  <1> QED BY <1>4, <1>5, SMT DEF Kept

(* Steps that leave the pools alone keep what backs their LP. *)
LEMMA KeptWhenUnchanged ==
    ASSUME IInv, UNCHANGED pools
    PROVE  \A s \in Sides : Kept(s)
  <1>1. \A s \in Sides : poolSynth[s] \in Nat /\ poolQuote[s] \in Nat /\ lpSupply[s] \in Nat
    BY LedgerAssumption, SMT DEF IInv, TypeOK
  <1>2. \A s \in Sides : (poolSynth[s] * poolQuote[s]) * (lpSupply[s] * lpSupply[s]) \in Int
    BY <1>1, SMT
  <1> QED BY <1>2, SMT DEF Kept, pools

LEMMA DepositKeepsWorth ==
    ASSUME IInv, NEW side \in Sides, NEW lp \in LpAmounts, NEW usdc \in QuoteAmounts,
           NEW cap \in SynthCaps, NEW passed \in BOOLEAN,
           Deposit(side, lp, usdc, cap, passed)
    PROVE  \A s \in Sides : Kept(s)
  <1> DEFINE cost == QuoteCost(side, lp)
             synth == SynthCost(side, lp)
  <1>1. /\ lp \in Nat /\ lpSupply[side] \in Nat \ {0}
        /\ poolQuote[side] \in Nat /\ poolSynth[side] \in Nat
    BY LedgerAssumption, SMT DEF IInv, TypeOK, PoolNeverEmptied
  <1>2. cost \in Nat /\ cost * lpSupply[side] >= lp * poolQuote[side]
    BY <1>1, CostCoversShare DEF QuoteCost
  <1>3. synth \in Nat /\ synth * lpSupply[side] >= lp * poolSynth[side]
    BY <1>1, CostCoversShare DEF SynthCost
  <1>4. /\ poolQuote' = [poolQuote EXCEPT ![side] = poolQuote[side] + cost]
        /\ poolSynth' = [poolSynth EXCEPT ![side] = poolSynth[side] + synth]
        /\ lpSupply' = [lpSupply EXCEPT ![side] = lpSupply[side] + lp]
    BY DEF Deposit
  <1> HIDE DEF cost, synth
  <1>5. (poolQuote[side] + cost) * lpSupply[side] >= poolQuote[side] * (lpSupply[side] + lp)
    BY <1>1, <1>2, SMT
  <1>6. (poolSynth[side] + synth) * lpSupply[side] >= poolSynth[side] * (lpSupply[side] + lp)
    BY <1>1, <1>3, SMT
  <1>7. /\ poolQuote[side] + cost \in Nat /\ poolSynth[side] + synth \in Nat
        /\ lpSupply[side] + lp \in Nat
    BY <1>1, <1>2, <1>3, SMT
  <1> QED BY <1>4, <1>5, <1>6, <1>7, KeptWhenEachKept

LEMMA WithdrawKeepsWorth ==
    ASSUME IInv, NEW side \in Sides, NEW amount \in LpAmounts, Withdraw(side, amount)
    PROVE  \A s \in Sides : Kept(s)
  <1> DEFINE quote == QuoteWorth(side, amount)
             synth == SynthWorth(side, amount)
  <1>1. /\ amount \in Nat /\ lpSupply[side] \in Nat /\ amount < lpSupply[side]
        /\ poolQuote[side] \in Nat \ {0} /\ poolSynth[side] \in Nat \ {0}
    BY LedgerAssumption, SMT
       DEF IInv, TypeOK, PoolNeverEmptied, ReservesPositive, Withdraw, WithdrawFits
  <1>2. /\ quote \in Nat /\ quote < poolQuote[side]
        /\ quote * lpSupply[side] <= amount * poolQuote[side]
    BY <1>1, WorthIsPart DEF QuoteWorth
  <1>3. /\ synth \in Nat /\ synth < poolSynth[side]
        /\ synth * lpSupply[side] <= amount * poolSynth[side]
    BY <1>1, WorthIsPart DEF SynthWorth
  <1>4. /\ poolQuote' = [poolQuote EXCEPT ![side] = poolQuote[side] - quote]
        /\ poolSynth' = [poolSynth EXCEPT ![side] = poolSynth[side] - synth]
        /\ lpSupply' = [lpSupply EXCEPT ![side] = lpSupply[side] - amount]
    BY DEF Withdraw
  <1> HIDE DEF quote, synth
  <1>5. (poolQuote[side] - quote) * lpSupply[side] >= poolQuote[side] * (lpSupply[side] - amount)
    BY <1>1, <1>2, SMT
  <1>6. (poolSynth[side] - synth) * lpSupply[side] >= poolSynth[side] * (lpSupply[side] - amount)
    BY <1>1, <1>3, SMT
  <1>7. /\ poolQuote[side] - quote \in Nat /\ poolSynth[side] - synth \in Nat
        /\ lpSupply[side] - amount \in Nat
    BY <1>1, <1>2, <1>3, SMT
  <1> QED BY <1>4, <1>5, <1>6, <1>7, KeptWhenEachKept

LEMMA CrankKeepsWorth ==
    ASSUME IInv, NEW side \in Sides, NEW inPair \in CrankMints, NEW inPool \in CrankMints,
           Crank(side, inPair, inPool)
    PROVE  \A s \in Sides : Kept(s)
  <1>1. inPool \in Nat /\ poolQuote[side] \in Nat /\ poolSynth[side] \in Nat
    BY LedgerAssumption, SMT DEF IInv, TypeOK
  <1>2. /\ poolSynth' = [poolSynth EXCEPT ![side] = poolSynth[side] + inPool]
        /\ poolQuote' = [poolQuote EXCEPT ![side] = poolQuote[side]]
        /\ UNCHANGED lpSupply
    BY DEF Crank, IInv, TypeOK
  <1>3. /\ poolSynth[side] + inPool \in Nat
        /\ (poolSynth[side] + inPool) * poolQuote[side] >= poolSynth[side] * poolQuote[side]
    BY <1>1, SMT
  <1> QED BY <1>1, <1>2, <1>3, KeptWhenProductKept

LEMMA TradeKeepsWorth ==
    ASSUME IInv, NEW side \in Sides, NEW amount \in QuoteAmounts,
           BuySynth(side, amount) \/ SellSynth(side, amount)
    PROVE  \A s \in Sides : Kept(s)
  <1> DEFINE bought == SwapOut(amount, poolQuote[side], poolSynth[side])
             paid == SwapOut(amount, poolSynth[side], poolQuote[side])
  <1>1. amount \in Nat /\ poolQuote[side] \in Nat \ {0} /\ poolSynth[side] \in Nat \ {0}
    BY LedgerAssumption, SMT DEF IInv, TypeOK, PoolNeverEmptied, ReservesPositive
  <1>2. /\ bought \in Nat /\ bought < poolSynth[side]
        /\ paid \in Nat /\ paid < poolQuote[side]
    BY <1>1, SwapOutIsPart
  <1>3. /\ (poolQuote[side] + amount) * (poolSynth[side] - bought)
                >= poolQuote[side] * poolSynth[side]
        /\ (poolSynth[side] + amount) * (poolQuote[side] - paid)
                >= poolSynth[side] * poolQuote[side]
    BY <1>1, SwapKeepsProduct
  <1> HIDE DEF bought, paid
  <1>4. CASE BuySynth(side, amount)
    <2>1. /\ poolSynth' = [poolSynth EXCEPT ![side] = poolSynth[side] - bought]
          /\ poolQuote' = [poolQuote EXCEPT ![side] = poolQuote[side] + amount]
          /\ UNCHANGED lpSupply
      BY <1>4 DEF BuySynth, bought
    <2>2. poolSynth[side] - bought \in Nat /\ poolQuote[side] + amount \in Nat
      BY <1>1, <1>2, SMT
    <2>3. (poolSynth[side] - bought) * (poolQuote[side] + amount)
              >= poolSynth[side] * poolQuote[side]
      BY <1>1, <1>3, <2>2, SMT
    <2> QED BY <2>1, <2>2, <2>3, KeptWhenProductKept
  <1>5. CASE SellSynth(side, amount)
    <2>1. /\ poolSynth' = [poolSynth EXCEPT ![side] = poolSynth[side] + amount]
          /\ poolQuote' = [poolQuote EXCEPT ![side] = poolQuote[side] - paid]
          /\ UNCHANGED lpSupply
      BY <1>5 DEF SellSynth, paid
    <2>2. poolSynth[side] + amount \in Nat /\ poolQuote[side] - paid \in Nat
      BY <1>1, <1>2, SMT
    <2> QED BY <1>3, <2>1, <2>2, KeptWhenProductKept
  <1> QED BY <1>4, <1>5

LEMMA NextKeepsWorth ==
    ASSUME IInv, Next
    PROVE  \A s \in Sides : Kept(s)
  <1>1. ASSUME NEW side \in Sides, NEW lp \in LpAmounts, NEW usdc \in QuoteAmounts,
               NEW cap \in SynthCaps, NEW passed \in BOOLEAN,
               Deposit(side, lp, usdc, cap, passed)
        PROVE  \A s \in Sides : Kept(s)
    BY <1>1, DepositKeepsWorth
  <1>2. ASSUME NEW side \in Sides, NEW amount \in LpAmounts, Withdraw(side, amount)
        PROVE  \A s \in Sides : Kept(s)
    BY <1>2, WithdrawKeepsWorth
  <1>3. ASSUME NEW want \in BOOLEAN, SetPaused(want)
        PROVE  \A s \in Sides : Kept(s)
    BY <1>3, KeptWhenUnchanged DEF SetPaused
  <1>4. ASSUME NEW lp \in LpAmounts, NEW cap \in SynthCaps, SeedPair(lp, cap)
        PROVE  \A s \in Sides : Kept(s)
    BY <1>4, KeptWhenUnchanged DEF SeedPair
  <1>5. ASSUME NEW side \in Sides, NEW inPair \in CrankMints, NEW inPool \in CrankMints,
               Crank(side, inPair, inPool)
        PROVE  \A s \in Sides : Kept(s)
    BY <1>5, CrankKeepsWorth
  <1>6. ASSUME NEW amount \in QuoteAmounts, BuyBurn(amount)
        PROVE  \A s \in Sides : Kept(s)
    BY <1>6, KeptWhenUnchanged DEF BuyBurn
  <1>7. ASSUME NEW amount \in LpAmounts, BurnReceipt(amount)
        PROVE  \A s \in Sides : Kept(s)
    BY <1>7, KeptWhenUnchanged DEF BurnReceipt, pools
  <1>8. ASSUME NEW side \in Sides, NEW amount \in QuoteAmounts,
               BuySynth(side, amount) \/ SellSynth(side, amount)
        PROVE  \A s \in Sides : Kept(s)
    BY <1>8, TradeKeepsWorth
  <1> QED BY <1>1, <1>2, <1>3, <1>4, <1>5, <1>6, <1>7, <1>8 DEF Next

(* No step, of the engine or of the public, shrinks what backs an LP token. *)
THEOREM NoDilution == Spec => LpNeverDiluted
  <1>1. IInv /\ [Next]_vars => [\A s \in Sides : Kept(s)]_vars
    BY NextKeepsWorth
  <1> QED BY <1>1, SpecIInv, PTL DEF Spec, LpNeverDiluted, Kept

(* The worth of LP in each token of its pool, not only in both together.   *)

(* A step that issues or redeems LP of a pool lets whoever stays redeem    *)
(* any amount of it for no less of either token than before.               *)
StayersLoseNothing ==
    [][\A s \in Sides, lp \in Nat : lpSupply'[s] # lpSupply[s] =>
            /\ QuoteWorth(s, lp)' >= QuoteWorth(s, lp)
            /\ SynthWorth(s, lp)' >= SynthWorth(s, lp)]_vars

(* What one depositor pays for LP never comes back as more, of either      *)
(* token, if it is redeemed at once.                                       *)
NoFreeRoundTrip ==
    \A s \in Sides, lp \in Nat :
        /\ WorthOf(lp, poolQuote[s] + QuoteCost(s, lp), lpSupply[s] + lp) <= QuoteCost(s, lp)
        /\ WorthOf(lp, poolSynth[s] + SynthCost(s, lp), lpSupply[s] + lp) <= SynthCost(s, lp)

(* However long the pools are traded in, joined and left, an LP token      *)
(* stands for what its first one stood for: the geometric mean of the      *)
(* reserves is never below the LP supply.                                  *)
LpKeepsItsUnit == \A s \in Sides : poolSynth[s] * poolQuote[s] >= lpSupply[s] * lpSupply[s]

(* Fractions keep their order when they are rounded down. *)
LEMMA DivByCross ==
    ASSUME NEW a \in Nat, NEW b \in Nat \ {0}, NEW c \in Nat, NEW d \in Nat \ {0},
           a * d <= c * b
    PROVE  a \div b <= c \div d
  <1> DEFINE p == a \div b
             q == c \div d
  <1>1. p \in Nat /\ p * b <= a /\ q \in Nat /\ c < (q + 1) * d
    <2>1. p \in Nat /\ p * b <= a /\ q \in Nat /\ c < q * d + d
      BY DivIsFloor
    <2> HIDE DEF p, q
    <2> QED BY <2>1, SMT
  <1> HIDE DEF p, q
  <1>2. (p * b) * d <= a * d
    BY <1>1, MulKeepsOrder, SMT
  <1>3. c * b < ((q + 1) * d) * b
    BY <1>1, SMT
  <1>4. p * (b * d) < (q + 1) * (b * d)
    BY <1>1, <1>2, <1>3, SMT
  <1>5. b * d \in Nat
    BY SMT
  <1>6. p < q + 1
    BY <1>1, <1>4, <1>5, MulCancels, SMT
  <1>7. p <= q
    BY <1>1, <1>6, SMT
  <1> QED BY <1>7 DEF p, q

(* LP of a reserve that grows by more than its LP does is worth no less.   *)
LEMMA WorthGrows ==
    ASSUME NEW lp \in Nat, NEW old \in Nat, NEW new \in Nat,
           NEW lpOld \in Nat \ {0}, NEW lpNew \in Nat \ {0},
           new * lpOld >= old * lpNew
    PROVE  WorthOf(lp, old, lpOld) <= WorthOf(lp, new, lpNew)
  <1> DEFINE a == lp * old
             c == lp * new
  <1>1. a \in Nat /\ c \in Nat
    BY SMT
  <1>2. a * lpNew <= c * lpOld
    <2>1. old * lpNew \in Nat /\ new * lpOld \in Nat
      BY SMT
    <2>2. (old * lpNew) * lp <= (new * lpOld) * lp
      BY <2>1, MulKeepsOrder
    <2> QED BY <2>1, <2>2, SMT
  <1> HIDE DEF a, c
  <1>3. a \div lpOld <= c \div lpNew
    BY <1>1, <1>2, DivByCross
  <1> QED BY <1>3 DEF WorthOf, a, c

(* Each reserve of each pool grows by no less than the LP of the pool.     *)
EachKept(s) ==
    lpSupply'[s] # lpSupply[s] =>
        /\ poolQuote'[s] * lpSupply[s] >= poolQuote[s] * lpSupply'[s]
        /\ poolSynth'[s] * lpSupply[s] >= poolSynth[s] * lpSupply'[s]

LEMMA LpStepKeepsEach ==
    ASSUME IInv, Next
    PROVE  \A s \in Sides : EachKept(s)
  <1>1. ASSUME NEW side \in Sides, NEW lp \in LpAmounts, NEW usdc \in QuoteAmounts,
               NEW cap \in SynthCaps, NEW passed \in BOOLEAN,
               Deposit(side, lp, usdc, cap, passed), NEW s \in Sides
        PROVE  EachKept(s)
    <2> DEFINE cost == QuoteCost(side, lp)
               synth == SynthCost(side, lp)
    <2>1. /\ lp \in Nat /\ lpSupply[side] \in Nat \ {0}
          /\ poolQuote[side] \in Nat /\ poolSynth[side] \in Nat
      BY LedgerAssumption, SMT DEF IInv, TypeOK, PoolNeverEmptied
    <2>2. cost \in Nat /\ cost * lpSupply[side] >= lp * poolQuote[side]
      BY <2>1, CostCoversShare DEF QuoteCost
    <2>3. synth \in Nat /\ synth * lpSupply[side] >= lp * poolSynth[side]
      BY <2>1, CostCoversShare DEF SynthCost
    <2>4. /\ poolQuote' = [poolQuote EXCEPT ![side] = poolQuote[side] + cost]
          /\ poolSynth' = [poolSynth EXCEPT ![side] = poolSynth[side] + synth]
          /\ lpSupply' = [lpSupply EXCEPT ![side] = lpSupply[side] + lp]
      BY <1>1 DEF Deposit
    <2> HIDE DEF cost, synth
    <2>5. (poolQuote[side] + cost) * lpSupply[side] >= poolQuote[side] * (lpSupply[side] + lp)
      BY <2>1, <2>2, SMT
    <2>6. (poolSynth[side] + synth) * lpSupply[side] >= poolSynth[side] * (lpSupply[side] + lp)
      BY <2>1, <2>3, SMT
    <2>7. CASE s = side
      <3>1. /\ poolQuote'[s] = poolQuote[side] + cost
            /\ poolSynth'[s] = poolSynth[side] + synth
            /\ lpSupply'[s] = lpSupply[side] + lp
        BY <2>4, <2>7 DEF IInv, TypeOK
      <3> QED BY <2>5, <2>6, <2>7, <3>1 DEF EachKept
    <2>8. CASE s # side
      BY <2>4, <2>8 DEF EachKept, IInv, TypeOK
    <2> QED BY <2>7, <2>8
  <1>2. ASSUME NEW side \in Sides, NEW amount \in LpAmounts, Withdraw(side, amount),
               NEW s \in Sides
        PROVE  EachKept(s)
    <2> DEFINE quote == QuoteWorth(side, amount)
               synth == SynthWorth(side, amount)
    <2>1. /\ amount \in Nat /\ lpSupply[side] \in Nat /\ amount < lpSupply[side]
          /\ poolQuote[side] \in Nat \ {0} /\ poolSynth[side] \in Nat \ {0}
      BY <1>2, LedgerAssumption, SMT
         DEF IInv, TypeOK, PoolNeverEmptied, ReservesPositive, Withdraw, WithdrawFits
    <2>2. quote \in Nat /\ quote * lpSupply[side] <= amount * poolQuote[side]
      BY <2>1, WorthIsPart DEF QuoteWorth
    <2>3. synth \in Nat /\ synth * lpSupply[side] <= amount * poolSynth[side]
      BY <2>1, WorthIsPart DEF SynthWorth
    <2>4. /\ poolQuote' = [poolQuote EXCEPT ![side] = poolQuote[side] - quote]
          /\ poolSynth' = [poolSynth EXCEPT ![side] = poolSynth[side] - synth]
          /\ lpSupply' = [lpSupply EXCEPT ![side] = lpSupply[side] - amount]
      BY <1>2 DEF Withdraw
    <2> HIDE DEF quote, synth
    <2>5. (poolQuote[side] - quote) * lpSupply[side] >= poolQuote[side] * (lpSupply[side] - amount)
      BY <2>1, <2>2, SMT
    <2>6. (poolSynth[side] - synth) * lpSupply[side] >= poolSynth[side] * (lpSupply[side] - amount)
      BY <2>1, <2>3, SMT
    <2>7. CASE s = side
      <3>1. /\ poolQuote'[s] = poolQuote[side] - quote
            /\ poolSynth'[s] = poolSynth[side] - synth
            /\ lpSupply'[s] = lpSupply[side] - amount
        BY <2>4, <2>7 DEF IInv, TypeOK
      <3> QED BY <2>5, <2>6, <2>7, <3>1 DEF EachKept
    <2>8. CASE s # side
      BY <2>4, <2>8 DEF EachKept, IInv, TypeOK
    <2> QED BY <2>7, <2>8
  <1>3. UNCHANGED lpSupply => \A s \in Sides : EachKept(s)
    BY DEF EachKept
  <1> QED BY <1>1, <1>2, <1>3
          DEF Next, SetPaused, SeedPair, Crank, BuyBurn, BurnReceipt, BuySynth, SellSynth, pools

(* Others' deposits and withdrawals take nothing from an LP token, of its  *)
(* USDC or of its synthetic.                                               *)
THEOREM StayersKeep == Spec => StayersLoseNothing
  <1>1. ASSUME IInv, IInv', Next, NEW s \in Sides, NEW lp \in Nat, lpSupply'[s] # lpSupply[s]
        PROVE  /\ QuoteWorth(s, lp)' >= QuoteWorth(s, lp)
               /\ SynthWorth(s, lp)' >= SynthWorth(s, lp)
    <2>1. /\ poolQuote[s] \in Nat /\ poolSynth[s] \in Nat /\ lpSupply[s] \in Nat \ {0}
          /\ poolQuote'[s] \in Nat /\ poolSynth'[s] \in Nat /\ lpSupply'[s] \in Nat \ {0}
      BY <1>1, LedgerAssumption, SMT DEF IInv, TypeOK, PoolNeverEmptied
    <2>2. /\ poolQuote'[s] * lpSupply[s] >= poolQuote[s] * lpSupply'[s]
          /\ poolSynth'[s] * lpSupply[s] >= poolSynth[s] * lpSupply'[s]
      BY <1>1, LpStepKeepsEach DEF EachKept
    <2>3. /\ WorthOf(lp, poolQuote[s], lpSupply[s]) <= WorthOf(lp, poolQuote'[s], lpSupply'[s])
          /\ WorthOf(lp, poolSynth[s], lpSupply[s]) <= WorthOf(lp, poolSynth'[s], lpSupply'[s])
      BY <2>1, <2>2, WorthGrows
    <2> QED BY <2>3 DEF QuoteWorth, SynthWorth
  <1>2. IInv /\ IInv' /\ [Next]_vars =>
          [\A s \in Sides, lp \in Nat : lpSupply'[s] # lpSupply[s] =>
                /\ QuoteWorth(s, lp)' >= QuoteWorth(s, lp)
                /\ SynthWorth(s, lp)' >= SynthWorth(s, lp)]_vars
    BY <1>1
  <1> QED BY <1>2, SpecIInv, PTL DEF Spec, StayersLoseNothing

(* LP bought at its rounded-up price and redeemed at once. *)
LEMMA RoundTripLoses ==
    ASSUME NEW lp \in Nat, NEW lpTotal \in Nat \ {0}, NEW reserve \in Nat
    PROVE  WorthOf(lp, reserve + CostOf(lp, reserve, lpTotal), lpTotal + lp)
                <= CostOf(lp, reserve, lpTotal)
  <1> DEFINE cost == CostOf(lp, reserve, lpTotal)
  <1>1. cost \in Nat /\ cost * lpTotal >= lp * reserve
    BY CostCoversShare
  <1> HIDE DEF cost
  <1> DEFINE a == lp * (reserve + cost)
             whole == lpTotal + lp
  <1>2. a \in Nat /\ whole \in Nat \ {0} /\ a <= cost * whole
    BY <1>1, SMT
  <1> HIDE DEF a, whole
  <1> DEFINE q == a \div whole
  <1>3. q \in Nat /\ q * whole <= a
    BY <1>2, DivIsFloor
  <1> HIDE DEF q
  <1>4. q * whole <= cost * whole
    BY <1>1, <1>2, <1>3, SMT
  <1>5. q <= cost
    BY <1>1, <1>2, <1>3, <1>4, MulCancels, SMT
  <1> QED BY <1>5 DEF WorthOf, cost, q, a, whole

(* No deposit pays for itself. *)
THEOREM RoundTripsLose == Spec => []NoFreeRoundTrip
  <1>1. ASSUME IInv
        PROVE  NoFreeRoundTrip
    <2>1. \A s \in Sides : /\ poolQuote[s] \in Nat /\ poolSynth[s] \in Nat
                           /\ lpSupply[s] \in Nat \ {0}
      BY <1>1, LedgerAssumption, SMT DEF IInv, TypeOK, PoolNeverEmptied
    <2> QED BY <2>1, RoundTripLoses DEF NoFreeRoundTrip, QuoteCost, SynthCost
  <1> QED BY <1>1, SpecIInv, PTL

(* The first LP of a pool is as many tokens as either of its reserves, and *)
(* nothing is diluted since.                                               *)
THEOREM LpUnitKept == Spec => []LpKeepsItsUnit
  <1>1. Init => LpKeepsItsUnit
    <2>1. InitReserve * InitReserve >= InitReserve * InitReserve
      BY LedgerAssumption, SMT
    <2> QED BY <2>1 DEF Init, LpKeepsItsUnit
  <1>2. ASSUME IInv, IInv', Next, LpKeepsItsUnit
        PROVE  LpKeepsItsUnit'
    <2> SUFFICES ASSUME NEW s \in Sides
                 PROVE  poolSynth'[s] * poolQuote'[s] >= lpSupply'[s] * lpSupply'[s]
      BY DEF LpKeepsItsUnit
    <2> DEFINE lp == lpSupply[s] * lpSupply[s]
               lpNew == lpSupply'[s] * lpSupply'[s]
               backing == poolSynth[s] * poolQuote[s]
               backingNew == poolSynth'[s] * poolQuote'[s]
    <2>1. lp \in Nat \ {0} /\ lpNew \in Nat /\ backing \in Nat /\ backingNew \in Nat
      <3>1. /\ poolQuote[s] \in Nat /\ poolSynth[s] \in Nat /\ lpSupply[s] \in Nat \ {0}
            /\ poolQuote'[s] \in Nat /\ poolSynth'[s] \in Nat /\ lpSupply'[s] \in Nat
        BY <1>2, LedgerAssumption, SMT DEF IInv, TypeOK, PoolNeverEmptied
      <3> QED BY <3>1, SMT
    <2>2. backingNew * lp >= backing * lpNew
      BY <1>2, NextKeepsWorth DEF Kept
    <2>3. backing >= lp
      BY <1>2 DEF LpKeepsItsUnit
    <2> HIDE DEF lp, lpNew, backing, backingNew
    <2>4. lp * lpNew <= backing * lpNew
      BY <2>1, <2>3, MulKeepsOrder
    <2>5. lpNew * lp <= backingNew * lp
      BY <2>1, <2>2, <2>4, SMT
    <2>6. lpNew <= backingNew
      BY <2>1, <2>5, MulCancels, SMT
    <2> QED BY <2>1, <2>6, SMT DEF lpNew, backingNew
  <1>3. IInv /\ IInv' /\ [Next]_vars /\ LpKeepsItsUnit => LpKeepsItsUnit'
    <2>1. UNCHANGED vars /\ LpKeepsItsUnit => LpKeepsItsUnit'
      BY DEF vars, LpKeepsItsUnit
    <2> QED BY <1>2, <2>1
  <1> QED BY <1>1, <1>3, SpecIInv, PTL DEF Spec

-----------------------------------------------------------------------------
(* The refinement.  A deposit is an issue, a withdrawal a redemption, an   *)
(* outside burn a forfeit, a buy-and-burn a spending, a pause a closing;   *)
(* all else is what the funds earn by themselves.                          *)

LEMMA InitIsVaultInit == Init => Vault!Init
  <1> SUFFICES ASSUME Init
               PROVE  Vault!Init
    OBVIOUS
  <1>1. InitReserve \in Nat \ {0} /\ InitReserve * InitReserve \in Nat \ {0}
    BY LedgerAssumption, SMT
  <1>2. lpSupply \in [Sides -> Nat \ {0}]
    BY <1>1 DEF Init
  <1>3. [s \in Sides |-> poolSynth[s] * poolQuote[s]] \in [Sides -> Nat \ {0}]
    BY <1>1 DEF Init
  <1>4. FeeBalance = 0
    BY DEF Init, FeeBalance
  <1> QED BY <1>2, <1>3, <1>4 DEF Init, Vault!Init

LEMMA WorthKeptInVault ==
    ASSUME \A s \in Sides : Kept(s)
    PROVE  Vault!KeepsWorth
  <1> SUFFICES ASSUME NEW s \in Sides
               PROVE  (poolSynth'[s] * poolQuote'[s]) * (lpSupply[s] * lpSupply[s])
                         >= (poolSynth[s] * poolQuote[s]) * (lpSupply'[s] * lpSupply'[s])
    BY DEF Vault!KeepsWorth
  <1> QED BY DEF Kept

LEMMA DepositIsIssue ==
    ASSUME ~SharedFeeVault, IInv, NEW side \in Sides, NEW lp \in LpAmounts,
           NEW usdc \in QuoteAmounts, NEW cap \in SynthCaps, NEW passed \in BOOLEAN,
           Deposit(side, lp, usdc, cap, passed)
    PROVE  Vault!Issue(side, lp, usdc)
  <1>1. ~paused /\ UNCHANGED paused
    BY DEF Deposit, DepositFits
  <1>2. /\ receiptSupply' = receiptSupply + lp
        /\ protoLp' = [protoLp EXCEPT ![side] = @ + lp]
        /\ lpSupply' = [lpSupply EXCEPT ![side] = @ + lp]
    BY DEF Deposit
  <1>3. Fee(usdc, passed) \in {0, Vault!FeeOf(usdc)}
    BY DEF Fee, BpsDenom, Vault!FeeOf
  <1>4. /\ FeeBalance' = FeeBalance + Fee(usdc, passed)
        /\ feesDue' = feesDue + Fee(usdc, passed)
    BY DEF Deposit, LeavesAccount, FeeBalance
  <1> QED BY <1>1, <1>2, <1>3, <1>4 DEF Vault!Issue

LEMMA StepIsVaultStep ==
    ASSUME ~SharedFeeVault, IInv, Next
    PROVE  Vault!Step
  <1>1. ASSUME NEW side \in Sides, NEW lp \in LpAmounts, NEW usdc \in QuoteAmounts,
               NEW cap \in SynthCaps, NEW passed \in BOOLEAN,
               Deposit(side, lp, usdc, cap, passed)
        PROVE  Vault!Step
    BY <1>1, DepositIsIssue DEF Vault!Step
  <1>2. ASSUME NEW side \in Sides, NEW amount \in LpAmounts, Withdraw(side, amount)
        PROVE  Vault!Step
    <2>1. Vault!Redeem(side, amount)
      BY <1>2 DEF Withdraw, WithdrawFits, fees, Vault!Redeem, FeeBalance
    <2> QED BY <2>1 DEF Vault!Step
  <1>3. ASSUME NEW want \in BOOLEAN, SetPaused(want)
        PROVE  Vault!Step
    <2>1. (~paused)' \in BOOLEAN
      BY <1>3 DEF SetPaused
    <2>2. Vault!SetOpen
      BY <1>3, <2>1 DEF SetPaused, pools, fees, Vault!SetOpen, FeeBalance
    <2> QED BY <2>2 DEF Vault!Step
  <1>4. ASSUME NEW lp \in LpAmounts, NEW cap \in SynthCaps, SeedPair(lp, cap)
        PROVE  Vault!Step
    <2>1. Vault!Earn
      BY <1>4 DEF SeedPair, config, pools, fees, Vault!Earn, FeeBalance
    <2> QED BY <2>1 DEF Vault!Step
  <1>5. ASSUME NEW side \in Sides, NEW inPair \in CrankMints, NEW inPool \in CrankMints,
               Crank(side, inPair, inPool)
        PROVE  Vault!Step
    <2>1. Vault!Earn
      BY <1>5 DEF Crank, config, fees, Vault!Earn, FeeBalance
    <2> QED BY <2>1 DEF Vault!Step
  <1>6. ASSUME NEW amount \in QuoteAmounts, BuyBurn(amount)
        PROVE  Vault!Step
    <2>1. amount \in Nat /\ feesDue = feeVault /\ FeeBalance = feeVault /\ feeVault \in Nat
      BY LedgerAssumption DEF IInv, TypeOK, FeesInVault, FeeBalance
    <2>2. amount <= feeVault /\ feeVault' = feeVault - amount
      BY <1>6, <2>1 DEF BuyBurn
    <2>3. feesDue' = feesDue - amount
      BY <1>6, <2>1, <2>2 DEF BuyBurn, SaturatingDiff
    <2>4. FeeBalance' = FeeBalance - amount
      BY <2>2 DEF FeeBalance
    <2>5. UNCHANGED <<~paused, receiptSupply, protoLp, lpSupply>>
      BY <1>6 DEF BuyBurn, config, pools
    <2>6. Vault!Spend(amount)
      BY <2>1, <2>2, <2>3, <2>4, <2>5 DEF Vault!Spend
    <2> QED BY <2>6 DEF Vault!Step
  <1>7. ASSUME NEW amount \in LpAmounts, BurnReceipt(amount)
        PROVE  Vault!Step
    <2>1. Vault!Forfeit(amount)
      BY <1>7 DEF BurnReceipt, config, pools, fees, Vault!Forfeit, FeeBalance
    <2> QED BY <2>1 DEF Vault!Step
  <1>8. ASSUME NEW side \in Sides, NEW amount \in QuoteAmounts,
               BuySynth(side, amount) \/ SellSynth(side, amount)
        PROVE  Vault!Step
    <2>1. Vault!Earn
      BY <1>8 DEF BuySynth, SellSynth, config, fees, Vault!Earn, FeeBalance
    <2> QED BY <2>1 DEF Vault!Step
  <1> QED BY <1>1, <1>2, <1>3, <1>4, <1>5, <1>6, <1>7, <1>8 DEF Next

(* With a fee vault of its own the ledger implements the vault that those  *)
(* who hold receipts are promised.                                         *)
THEOREM ImplementsVault ==
    ASSUME ~SharedFeeVault
    PROVE  Spec => VaultPromise
  <1>1. IInv /\ [Next]_vars => [Vault!Next]_(Vault!vars)
    <2> SUFFICES ASSUME IInv, [Next]_vars
                 PROVE  [Vault!Next]_(Vault!vars)
      OBVIOUS
    <2>1. CASE Next
      BY <2>1, StepIsVaultStep, NextKeepsWorth, WorthKeptInVault DEF Vault!Next
    <2>2. CASE UNCHANGED vars
      BY <2>2 DEF vars, Vault!vars, FeeBalance
    <2> QED BY <2>1, <2>2
  <1> QED BY <1>1, InitIsVaultInit, SpecIInv, PTL DEF Spec, VaultPromise, Vault!Spec
=============================================================================
