---------------------------- MODULE ReceiptVault ----------------------------
(***************************************************************************)
(* What the engine promises to those who hold receipts, without how it     *)
(* keeps the promise: a vault that owns units of two funds.  A receipt is  *)
(* issued for a unit and given back for one; those who leave take none of  *)
(* what the others' units are worth; fees are put aside and spent on       *)
(* nothing but their purpose.  Module Ledger implements it.                *)
(***************************************************************************)
EXTENDS Naturals

CONSTANTS Legs,         \* the funds
          Amounts,      \* of receipts
          Payments,     \* of USDC
          FeeBps

VARIABLES open,         \* deposits are taken
          receipts,     \* in circulation
          shares,       \* leg -> units of its fund that the vault owns
          units,        \* leg -> units of its fund
          backing,      \* leg -> what backs them, as a product of two reserves
          fees,         \* what the vault has put aside
          owed          \* fees taken and not yet spent

vars == <<open, receipts, shares, units, backing, fees, owed>>

Init == /\ open = TRUE
        /\ receipts = 0
        /\ shares = [leg \in Legs |-> 0]
        /\ units \in [Legs -> Nat \ {0}]
        /\ backing \in [Legs -> Nat \ {0}]
        /\ fees = 0 /\ owed = 0

FeeOf(paid) == (paid * FeeBps) \div 10000

(* Whoever pays gets receipts, while deposits are taken. *)
Issue(leg, n, paid) ==
    /\ open = TRUE
    /\ receipts' = receipts + n
    /\ shares' = [shares EXCEPT ![leg] = @ + n]
    /\ units' = [units EXCEPT ![leg] = @ + n]
    /\ \E fee \in {0, FeeOf(paid)} : fees' = fees + fee /\ owed' = owed + fee
    /\ UNCHANGED open

(* Whoever holds receipts gets units redeemed, at any time. *)
Redeem(leg, n) ==
    /\ n <= receipts /\ n <= shares[leg]
    /\ receipts' = receipts - n
    /\ shares' = [shares EXCEPT ![leg] = @ - n]
    /\ units' = [units EXCEPT ![leg] = @ - n]
    /\ UNCHANGED <<open, fees, owed>>

(* Receipts may be thrown away. *)
Forfeit(n) ==
    /\ n <= receipts
    /\ receipts' = receipts - n
    /\ UNCHANGED <<open, shares, units, fees, owed>>

Spend(amount) ==
    /\ amount <= fees
    /\ fees' = fees - amount /\ owed' = owed - amount
    /\ UNCHANGED <<open, receipts, shares, units>>

SetOpen == /\ open' \in BOOLEAN
           /\ UNCHANGED <<receipts, shares, units, fees, owed>>

(* What the funds do by themselves is none of the vault's business. *)
Earn == UNCHANGED <<open, receipts, shares, units, fees, owed>>

(* The worth of a unit, as the root of backing over units, never falls. *)
KeepsWorth ==
    \A leg \in Legs : backing'[leg] * (units[leg] * units[leg])
                          >= backing[leg] * (units'[leg] * units'[leg])

Step == \/ \E leg \in Legs, n \in Amounts, paid \in Payments : Issue(leg, n, paid)
        \/ \E leg \in Legs, n \in Amounts : Redeem(leg, n)
        \/ \E n \in Amounts : Forfeit(n)
        \/ \E amount \in Payments : Spend(amount)
        \/ SetOpen
        \/ Earn

Next == Step /\ KeepsWorth

Spec == Init /\ [][Next]_vars
=============================================================================
