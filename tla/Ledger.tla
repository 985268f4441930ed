------------------------------- MODULE Ledger -------------------------------
(***************************************************************************)
(* The money of one triangle: deposits, withdrawals, the pair seeding, the *)
(* fee and its buy-and-burn, over the token accounts of the authority PDA, *)
(* the two anchor pools and the mints.  CP-Swap and the token programs are *)
(* external: they appear as the engine uses them.                          *)
(*                                                                         *)
(* A step is one instruction.  A transaction that sends several of them    *)
(* (the client's two legs) is one of the interleavings.  An instruction    *)
(* that fails leaves no step, since the runtime rolls it back.             *)
(*                                                                         *)
(* Receipts are fungible and any holder may call; the holders are one      *)
(* receiptSupply, and the public's USDC and synthetics one purse.          *)
(***************************************************************************)
EXTENDS Integers

CONSTANTS
    U64Max,
    FeeBps,             \* config.fee_bps
    SharedFeeVault,     \* the fee vault passed is the authority's own quote
                        \* account, the one deposits go through
    LpAmounts,          \* LP a depositor asks for
    QuoteAmounts,       \* USDC a depositor, trader or buy-and-burn spends
    SynthCaps,          \* max_synth of a deposit, max_a and max_b of seed_pair
    CrankMints,         \* what a crank may mint into one vault
    SlippageBps,        \* the client's allowance on max_synth
    InitReserve,        \* first synthetic, USDC and LP amounts of each pool
    InitPurse           \* USDC of the public

ASSUME LedgerAssumption ==
    /\ U64Max \in Nat /\ InitReserve \in Nat \ {0} /\ 2 * InitReserve <= U64Max
    /\ FeeBps \in 0..10000
    /\ SharedFeeVault \in BOOLEAN
    /\ LpAmounts \subseteq Nat /\ QuoteAmounts \subseteq Nat \ {0}
    /\ SynthCaps \subseteq Nat /\ CrankMints \subseteq Nat
    /\ SlippageBps \in Nat
    /\ InitPurse \in Nat

BpsDenom == 10000
Sides == {"A", "B"}

VARIABLES
    paused, totalReceipt,               \* fields of the config
    receiptSupply,                      \* the receipt mint
    synthSupply,                        \* side -> supply of the mint
    poolSynth, poolQuote, lpSupply,     \* side -> its USDC pool and LP mint
    pairSynth, pairLp,                  \* the A/B pool and its LP mint
    protoSynth, protoLp, protoQuote,    \* token accounts of the authority
    feeVault,                           \* fee vault with an account of its own
    purse, held,                        \* the public's USDC and synthetics
    spent,                              \* USDC paid into the MEME pool
    feesDue                             \* history: fees skimmed, less fees spent

config == <<paused, totalReceipt>>
pools == <<poolSynth, poolQuote, lpSupply>>
pair == <<pairSynth, pairLp>>
fees == <<feeVault, spent, feesDue>>
vars == <<paused, totalReceipt, receiptSupply, synthSupply, poolSynth, poolQuote,
          lpSupply, pairSynth, pairLp, protoSynth, protoLp, protoQuote, feeVault,
          purse, held, spent, feesDue>>

TypeOK ==
    /\ paused \in BOOLEAN
    /\ totalReceipt \in 0..U64Max
    /\ receiptSupply \in 0..U64Max
    /\ synthSupply \in [Sides -> 0..U64Max]
    /\ poolSynth \in [Sides -> Nat]
    /\ poolQuote \in [Sides -> Nat]
    /\ lpSupply \in [Sides -> 0..U64Max]
    /\ pairSynth \in [Sides -> Nat]
    /\ pairLp \in Nat
    /\ protoSynth \in [Sides -> Nat]
    /\ protoLp \in [Sides -> Nat]
    /\ protoQuote \in Nat
    /\ feeVault \in Nat
    /\ purse \in Nat
    /\ held \in [Sides -> Nat]
    /\ spent \in Nat
    /\ feesDue \in Nat

(* The pools are created and seeded before the first deposit; their first  *)
(* LP belongs to the creator and is never the protocol's.                  *)
Init ==
    /\ paused = FALSE
    /\ totalReceipt = 0 /\ receiptSupply = 0
    /\ synthSupply = [s \in Sides |-> 2 * InitReserve]
    /\ poolSynth = [s \in Sides |-> InitReserve]
    /\ poolQuote = [s \in Sides |-> InitReserve]
    /\ lpSupply = [s \in Sides |-> InitReserve]
    /\ pairSynth = [s \in Sides |-> InitReserve]
    /\ pairLp = InitReserve
    /\ protoSynth = [s \in Sides |-> 0]
    /\ protoLp = [s \in Sides |-> 0]
    /\ protoQuote = 0 /\ feeVault = 0
    /\ purse = InitPurse
    /\ held = [s \in Sides |-> 0]
    /\ spent = 0 /\ feesDue = 0

-----------------------------------------------------------------------------
(* CP-Swap: lp tokens of a supply are worth a share of a reserve, rounded  *)
(* up when they are bought and down when they are redeemed.                *)

CeilDiv(x, y) == (x + y - 1) \div y

(* Mutant: the depositor's share is rounded down. *)
CostOfRoundedDown(lp, reserve, lpTotal) == (lp * reserve) \div lpTotal

CostOf(lp, reserve, lpTotal) == CeilDiv(lp * reserve, lpTotal)
WorthOf(lp, reserve, lpTotal) == (lp * reserve) \div lpTotal

(* What a swap of x into a reserve pays out of the other one. *)
SwapOut(x, reserveIn, reserveOut) == (x * reserveOut) \div (reserveIn + x)

SynthCost(side, lp) == CostOf(lp, poolSynth[side], lpSupply[side])
QuoteCost(side, lp) == CostOf(lp, poolQuote[side], lpSupply[side])
SynthWorth(side, lp) == WorthOf(lp, poolSynth[side], lpSupply[side])
QuoteWorth(side, lp) == WorthOf(lp, poolQuote[side], lpSupply[side])

-----------------------------------------------------------------------------
(* Deposit into one leg.  The fee is taken out of the USDC that the pool   *)
(* may ask for; paid into the shared account, it stays where it is.        *)

Fee(usdc, feeVaultPassed) ==
    IF feeVaultPassed THEN (usdc * FeeBps) \div BpsDenom ELSE 0

(* Mutant: the fee never leaves the account deposits go through. *)
NothingLeaves(fee) == 0

LeavesAccount(fee) == IF SharedFeeVault THEN 0 ELSE fee

DepositFits(side, lp, usdc, maxSynth, fee) ==
    /\ ~paused
    /\ usdc <= purse
    /\ synthSupply[side] + maxSynth <= U64Max
    /\ SynthCost(side, lp) <= maxSynth
    /\ QuoteCost(side, lp) <= usdc
    /\ QuoteCost(side, lp) <= protoQuote + usdc - LeavesAccount(fee)
    /\ lpSupply[side] + lp <= U64Max
    /\ receiptSupply + lp <= U64Max

(* Mutant: a deposit is not added to the total. *)
SumForgotten(x, y) == x

SaturatingSum(x, y) == IF x + y <= U64Max THEN x + y ELSE U64Max
SaturatingDiff(x, y) == IF x >= y THEN x - y ELSE 0

(* Mutant: what the pool did not take stays in the authority's account. *)
KeepDust(usdc, left) ==
    /\ purse' = purse - usdc
    /\ protoQuote' = left

(* The whole quote account goes back to the depositor. *)
ReturnDust(usdc, left) ==
    /\ purse' = purse - usdc + left
    /\ protoQuote' = 0

(* What is left of the USDC goes back to the depositor; what is left of    *)
(* the synthetic stays in the authority's account.                         *)
Deposit(side, lp, usdc, maxSynth, feeVaultPassed) ==
    LET fee == Fee(usdc, feeVaultPassed)
        cost == QuoteCost(side, lp)
    IN  /\ DepositFits(side, lp, usdc, maxSynth, fee)
        /\ synthSupply' = [synthSupply EXCEPT ![side] = @ + maxSynth]
        /\ protoSynth' = [protoSynth EXCEPT ![side] = @ + maxSynth - SynthCost(side, lp)]
        /\ poolSynth' = [poolSynth EXCEPT ![side] = @ + SynthCost(side, lp)]
        /\ poolQuote' = [poolQuote EXCEPT ![side] = @ + cost]
        /\ lpSupply' = [lpSupply EXCEPT ![side] = @ + lp]
        /\ protoLp' = [protoLp EXCEPT ![side] = @ + lp]
        /\ receiptSupply' = receiptSupply + lp
        /\ ReturnDust(usdc, protoQuote + usdc - LeavesAccount(fee) - cost)
        /\ feeVault' = feeVault + LeavesAccount(fee)
        /\ feesDue' = feesDue + fee
        /\ totalReceipt' = SaturatingSum(totalReceipt, lp)
        /\ UNCHANGED <<paused, pair, held, spent>>

(* Mutant: withdrawals stop when deposits do. *)
WithdrawWhenRunning(side, amount) ==
    /\ ~paused
    /\ amount <= receiptSupply
    /\ amount <= protoLp[side]

(* Mutant: any LP of the pool may be redeemed, the creator's too. *)
WithdrawAnyLp(side, amount) ==
    /\ amount <= receiptSupply
    /\ amount <= lpSupply[side]

(* Redeem receipts against one leg, paused or not. *)
WithdrawFits(side, amount) ==
    /\ amount <= receiptSupply
    /\ amount <= protoLp[side]

Withdraw(side, amount) ==
    /\ WithdrawFits(side, amount)
    /\ receiptSupply' = receiptSupply - amount
    /\ protoLp' = [protoLp EXCEPT ![side] = @ - amount]
    /\ lpSupply' = [lpSupply EXCEPT ![side] = @ - amount]
    /\ poolSynth' = [poolSynth EXCEPT ![side] = @ - SynthWorth(side, amount)]
    /\ poolQuote' = [poolQuote EXCEPT ![side] = @ - QuoteWorth(side, amount)]
    /\ synthSupply' = [synthSupply EXCEPT ![side] = @ - SynthWorth(side, amount)]
    /\ purse' = purse + QuoteWorth(side, amount)
    /\ totalReceipt' = SaturatingDiff(totalReceipt, amount)
    /\ UNCHANGED <<paused, pair, protoSynth, protoQuote, held, fees>>

SetPaused(want) ==
    /\ paused' = want
    /\ UNCHANGED <<totalReceipt, receiptSupply, synthSupply, pools, pair, protoSynth,
                   protoLp, protoQuote, purse, held, fees>>

(* The admin adds house liquidity to the A/B pool, both sides minted. *)
SeedPair(lp, cap) ==
    LET cost(s) == CostOf(lp, pairSynth[s], pairLp)
    IN  /\ \A s \in Sides : synthSupply[s] + cap <= U64Max /\ cost(s) <= cap
        /\ synthSupply' = [s \in Sides |-> synthSupply[s] + cap]
        /\ pairSynth' = [s \in Sides |-> pairSynth[s] + cost(s)]
        /\ protoSynth' = [s \in Sides |-> protoSynth[s] + cap - cost(s)]
        /\ pairLp' = pairLp + lp
        /\ UNCHANGED <<config, receiptSupply, pools, protoLp, protoQuote, purse, held, fees>>

(* A rebalance, whatever amounts it plans: module Rebalance says which. *)
Crank(side, inPair, inPool) ==
    /\ ~paused
    /\ synthSupply[side] + inPair + inPool <= U64Max
    /\ pairSynth' = [pairSynth EXCEPT ![side] = @ + inPair]
    /\ poolSynth' = [poolSynth EXCEPT ![side] = @ + inPool]
    /\ synthSupply' = [synthSupply EXCEPT ![side] = @ + inPair + inPool]
    /\ UNCHANGED <<config, receiptSupply, poolQuote, lpSupply, pairLp, protoSynth,
                   protoLp, protoQuote, purse, held, fees>>

FeeBalance == IF SharedFeeVault THEN protoQuote ELSE feeVault

(* Fees buy MEME, which is burned: only the USDC they cost is modelled. *)
BuyBurn(amount) ==
    /\ amount <= FeeBalance
    /\ IF SharedFeeVault
       THEN protoQuote' = protoQuote - amount /\ UNCHANGED feeVault
       ELSE feeVault' = feeVault - amount /\ UNCHANGED protoQuote
    /\ spent' = spent + amount
    /\ feesDue' = SaturatingDiff(feesDue, amount)
    /\ UNCHANGED <<config, receiptSupply, synthSupply, pools, pair, protoSynth,
                   protoLp, purse, held>>

-----------------------------------------------------------------------------
(* The public: a holder may burn receipts without redeeming them, and      *)
(* anyone may trade in the anchor pools.                                   *)

BurnReceipt(amount) ==
    /\ amount <= receiptSupply
    /\ receiptSupply' = receiptSupply - amount
    /\ UNCHANGED <<config, synthSupply, pools, pair, protoSynth, protoLp, protoQuote,
                   purse, held, fees>>

BuySynth(side, amount) ==
    LET out == SwapOut(amount, poolQuote[side], poolSynth[side])
    IN  /\ amount <= purse
        /\ out > 0
        /\ purse' = purse - amount
        /\ poolQuote' = [poolQuote EXCEPT ![side] = @ + amount]
        /\ poolSynth' = [poolSynth EXCEPT ![side] = @ - out]
        /\ held' = [held EXCEPT ![side] = @ + out]
        /\ UNCHANGED <<config, receiptSupply, synthSupply, lpSupply, pair, protoSynth,
                       protoLp, protoQuote, fees>>

SellSynth(side, amount) ==
    LET out == SwapOut(amount, poolSynth[side], poolQuote[side])
    IN  /\ amount <= held[side]
        /\ out > 0
        /\ purse' = purse + out
        /\ poolQuote' = [poolQuote EXCEPT ![side] = @ - out]
        /\ poolSynth' = [poolSynth EXCEPT ![side] = @ + amount]
        /\ held' = [held EXCEPT ![side] = @ - amount]
        /\ UNCHANGED <<config, receiptSupply, synthSupply, lpSupply, pair, protoSynth,
                       protoLp, protoQuote, fees>>

Next ==
    \/ \E side \in Sides, lp \in LpAmounts, usdc \in QuoteAmounts,
          cap \in SynthCaps, feeVaultPassed \in BOOLEAN :
            Deposit(side, lp, usdc, cap, feeVaultPassed)
    \/ \E side \in Sides, amount \in LpAmounts : Withdraw(side, amount)
    \/ \E want \in BOOLEAN : SetPaused(want)
    \/ \E lp \in LpAmounts, cap \in SynthCaps : SeedPair(lp, cap)
    \/ \E side \in Sides, inPair, inPool \in CrankMints : Crank(side, inPair, inPool)
    \/ \E amount \in QuoteAmounts : BuyBurn(amount)
    \/ \E amount \in LpAmounts : BurnReceipt(amount)
    \/ \E side \in Sides, amount \in QuoteAmounts :
            BuySynth(side, amount) \/ SellSynth(side, amount)

Spec == Init /\ [][Next]_vars

-----------------------------------------------------------------------------
(* The client (site/txbuild.js) reads the accounts and sizes a transaction. *)

ClientLp(side, usdc) == (usdc * lpSupply[side]) \div poolQuote[side]

(* Mutant: no unit is added for the pool's rounding. *)
ClientMaxSynthExact(side, lp) ==
    LET needed == (poolSynth[side] * lp) \div lpSupply[side]
    IN  needed + (needed * SlippageBps) \div BpsDenom

ClientMaxSynth(side, lp) ==
    LET needed == (poolSynth[side] * lp) \div lpSupply[side]
    IN  needed + (needed * SlippageBps) \div BpsDenom + 1

ClientDepositFits(side, usdc, feeVaultPassed) ==
    DepositFits(side, ClientLp(side, usdc), usdc,
                ClientMaxSynth(side, ClientLp(side, usdc)), Fee(usdc, feeVaultPassed))

(* A withdrawal burns in proportion to the protocol's LP of each leg. *)
ProtoLpTotal == protoLp["A"] + protoLp["B"]

ClientBurn(amount) ==
    LET burnA == (amount * protoLp["A"]) \div ProtoLpTotal
    IN  [s \in Sides |-> IF s = "A" THEN burnA ELSE amount - burnA]

-----------------------------------------------------------------------------
(* Properties. *)

(* Every receipt is backed by an LP token of the protocol, and the total   *)
(* the config publishes lies between the two, through burns outside the    *)
(* engine and either saturating operation on the total.                    *)
ReceiptsBacked ==
    /\ receiptSupply <= totalReceipt
    /\ totalReceipt <= ProtoLpTotal

(* The exit is always open, paused or not: for any amount of receipts in   *)
(* circulation, the client's split over the two legs burns no more of      *)
(* either leg than the protocol has.  Receipts are fungible, so a holder   *)
(* may find a leg drained by others; the split follows.                    *)
ExitOpen ==
    \A amount \in 1..receiptSupply :
        /\ ProtoLpTotal > 0
        /\ \A s \in Sides : WithdrawFits(s, ClientBurn(amount)[s])

(* The first LP of a pool is the creator's: the protocol never owns, and   *)
(* so no withdrawal redeems, all of a pool, which would leave it without a *)
(* price and stop the crank for good.                                      *)
PoolNeverEmptied ==
    \A s \in Sides : protoLp[s] < lpSupply[s] /\ poolQuote[s] > 0

(* No USDC is made or lost, and the authority's quote account is a         *)
(* pass-through: no instruction leaves anything of a depositor's in it.    *)
QuoteConserved ==
    /\ InitPurse + 2 * InitReserve =
            purse + poolQuote["A"] + poolQuote["B"] + protoQuote + feeVault + spent
    /\ protoQuote = 0

(* To those who hold receipts the engine is a vault of two funds, whatever *)
(* cranks, trades, house liquidity and burns go on around it: receipts and *)
(* LP come and go together, deposits stop while paused and withdrawals do  *)
(* not, no LP loses worth to another, and the fees skimmed are there until *)
(* buy_burn spends them.                                                   *)
Vault == INSTANCE ReceiptVault WITH
            Legs <- Sides, Amounts <- LpAmounts, Payments <- QuoteAmounts,
            open <- ~paused, receipts <- receiptSupply,
            shares <- protoLp, units <- lpSupply,
            backing <- [s \in Sides |-> poolSynth[s] * poolQuote[s]],
            fees <- FeeBalance, owed <- feesDue

VaultPromise == Vault!Spec

(* What backs an LP token never shrinks: the product of a pool's reserves  *)
(* over the square of its LP supply falls in no step, whether liquidity    *)
(* comes or goes, the crank mints into the pool or the public trades in    *)
(* it.  All rounding is in favour of those who stay.                       *)
LpNeverDiluted ==
    [][\A s \in Sides :
        (poolSynth'[s] * poolQuote'[s]) * (lpSupply[s] * lpSupply[s])
            >= (poolSynth[s] * poolQuote[s]) * (lpSupply'[s] * lpSupply'[s])]_vars

(* A deposit that the client sizes on fresh reserves goes through: the     *)
(* pool asks for no more than the caps sent with it.                       *)
ClientDepositLands(feeVaultPassed) ==
    \A side \in Sides, usdc \in QuoteAmounts :
        LET lp == ClientLp(side, usdc)
        IN  /\ ~paused /\ usdc <= purse /\ lp > 0
            /\ synthSupply[side] + ClientMaxSynth(side, lp) <= U64Max
            /\ lpSupply[side] + lp <= U64Max /\ receiptSupply + lp <= U64Max
            => ClientDepositFits(side, usdc, feeVaultPassed)

FreshDepositLands == ClientDepositLands(FALSE)
=============================================================================
