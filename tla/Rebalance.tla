------------------------------ MODULE Rebalance ------------------------------
(***************************************************************************)
(* The "mint the loser" crank of the Pinocchio leverage-engine             *)
(* (run_rebalance): it reads the reserves of the triangle and, when the    *)
(* pair has an external price, that price; it mints the losing synthetic   *)
(* into its two pool vaults and advances the stored bases.  Between cranks *)
(* traders move the pools, the external price moves, and the admin pauses  *)
(* the pair or switches its price source.                                  *)
(*                                                                         *)
(* A transaction is atomic: a step is a whole instruction, and one that    *)
(* returns an error is the absence of a step.                              *)
(***************************************************************************)
EXTENDS LeverageMath

CONSTANTS
    LMin, LMax,         \* leverage band, in bps
    MaxMint, Breaker,   \* max_mint_bps and breaker_bps of the config
    UserLeverages,      \* user_leverage_bps a cranker may pass, 0 for the hook
    OracleKinds,        \* subset of {"none", "pumpswap", "crawl"} in use
    QuoteLevels,        \* USDC reserves traders may bring an anchor pool to
    PairLevels,         \* A reserves traders may bring the A/B pool to
    OraclePrices,       \* external prices
    InitReserve,        \* first reserve of every vault
    InitSupply,         \* first supply of each synthetic
    InitOracleLast,     \* first oracle_price_last of the config
    MaxEvents           \* bound on the steps that are not cranks

ASSUME RebalanceAssumption ==
    /\ LMin \in Nat /\ LMax \in Nat /\ MaxMint \in Nat /\ Breaker \in Nat
    /\ UserLeverages \subseteq Nat
    /\ OracleKinds \subseteq {"none", "pumpswap", "crawl"}
    /\ QuoteLevels \subseteq Nat \ {0} /\ PairLevels \subseteq Nat \ {0}
    /\ OraclePrices \subseteq Nat \ {0} /\ OraclePrices # {}
    /\ InitReserve \in Nat \ {0}
    /\ InitSupply \in Nat /\ 2 * InitReserve <= InitSupply /\ InitSupply <= U64Max
    /\ InitOracleLast \subseteq Nat
    /\ MaxEvents \in Nat

NoPrice == -1       \* the venue's accounts are not passed, or its base is empty

VARIABLES
    paused, kind, lastRatio, oracleLast,    \* fields of the config
    pairRes,    \* side -> its reserve in the A/B pool
    poolRes,    \* side -> its reserve in its USDC pool
    quoteRes,   \* side -> the USDC of that pool
    supply,     \* side -> supply of the mint
    oracle,     \* what the external price source reads now
    events      \* steps so far that were not cranks

config == <<paused, kind>>
bases == <<lastRatio, oracleLast>>
market == <<pairRes, poolRes, quoteRes, supply>>
vars == <<paused, kind, lastRatio, oracleLast, pairRes, poolRes, quoteRes,
          supply, oracle, events>>

TypeOK ==
    /\ paused \in BOOLEAN
    /\ kind \in {"none", "pumpswap", "crawl"}
    /\ lastRatio \in Nat
    /\ oracleLast \in Nat
    /\ pairRes \in [Sides -> Nat]
    /\ poolRes \in [Sides -> Nat]
    /\ quoteRes \in [Sides -> Nat]
    /\ supply \in [Sides -> 0..U64Max]
    /\ oracle \in Nat \cup {NoPrice}
    /\ events \in 0..MaxEvents

Init ==
    /\ paused = FALSE
    /\ kind \in OracleKinds
    /\ pairRes = [s \in Sides |-> InitReserve]
    /\ poolRes = [s \in Sides |-> InitReserve]
    /\ quoteRes = [s \in Sides |-> InitReserve]
    /\ supply = [s \in Sides |-> InitSupply]
    /\ lastRatio = MarketRatio(poolRes, quoteRes)
    /\ oracle \in OraclePrices
    /\ oracleLast \in InitOracleLast
    /\ events = 0

-----------------------------------------------------------------------------
(* The crank. *)

External == kind # "none"

(* Otherwise the instruction succeeds and does nothing. *)
Runs ==
    /\ ~paused
    /\ HasMarket(poolRes, quoteRes)
    /\ External => oracle # NoPrice
    /\ kind = "crawl" => oracle # 0

Basis == IF External THEN oracleLast ELSE lastRatio
Reading == IF External THEN oracle ELSE MarketRatio(poolRes, quoteRes)

CrankPlan(user) == Plan(Basis, Reading, pairRes, poolRes, supply, user,
                        LMin, LMax, MaxMint, Breaker)

HasCrankPlan(user) == HasPlan(Basis, Reading, pairRes, poolRes, supply, user,
                              LMin, LMax, MaxMint, Breaker)

(* MintTo into both vaults of the loser; the token program refuses a mint  *)
(* whose supply would not fit.                                             *)
MintLoser(plan) ==
    /\ supply[plan.side] + plan.pair + plan.pool <= U64Max
    /\ pairRes' = [pairRes EXCEPT ![plan.side] = @ + plan.pair]
    /\ poolRes' = [poolRes EXCEPT ![plan.side] = @ + plan.pool]
    /\ supply' = [supply EXCEPT ![plan.side] = @ + plan.pair + plan.pool]

(* Mutant: the oracle basis follows the market's ratio. *)
AdvanceTogether ==
    /\ lastRatio' = PartialAdvance(lastRatio, MarketRatio(poolRes, quoteRes),
                                   CrankAbsorbBps)
    /\ oracleLast' = PartialAdvance(oracleLast, MarketRatio(poolRes, quoteRes),
                                    CrankAbsorbBps)

(* Mutant: a tripped breaker freezes the bases too. *)
AdvanceUnlessTripped ==
    IF HasReturn(Basis, Reading) /\ Breaks(AbsMove(Basis, Reading), Breaker)
    THEN UNCHANGED bases
    ELSE /\ lastRatio' = PartialAdvance(lastRatio, MarketRatio(poolRes, quoteRes),
                                        CrankAbsorbBps)
         /\ oracleLast' = IF External
                          THEN PartialAdvance(oracleLast, oracle, CrankAbsorbBps)
                          ELSE oracleLast

(* Mutant: without a plan the oracle basis is left alone. *)
AdvanceOnMove ==
    /\ lastRatio' = PartialAdvance(lastRatio, MarketRatio(poolRes, quoteRes),
                                   CrankAbsorbBps)
    /\ oracleLast' = IF External /\ HasMove(oracleLast, oracle)
                     THEN PartialAdvance(oracleLast, oracle, CrankAbsorbBps)
                     ELSE oracleLast

(* Both bases advance, plan or no plan; the market ratio is the one read   *)
(* before the mint.                                                        *)
AdvanceBases ==
    /\ lastRatio' = PartialAdvance(lastRatio, MarketRatio(poolRes, quoteRes),
                                   CrankAbsorbBps)
    /\ oracleLast' = IF External
                     THEN PartialAdvance(oracleLast, oracle, CrankAbsorbBps)
                     ELSE oracleLast

Crank(user) ==
    /\ Runs
    /\ IF HasCrankPlan(user) THEN MintLoser(CrankPlan(user))
       ELSE UNCHANGED <<pairRes, poolRes, supply>>
    /\ AdvanceBases
    /\ UNCHANGED <<paused, kind, quoteRes, oracle, events>>

-----------------------------------------------------------------------------
(* The surroundings, MaxEvents steps at most. *)

Event == events < MaxEvents /\ events' = events + 1

(* x / y rounded up: a swap leaves the remainder with the pool. *)
CeilDiv(x, y) == (x + y - 1) \div y

(* A trade in an anchor pool, along its constant product. *)
Trade(side, quote) ==
    /\ Event
    /\ quote # quoteRes[side]
    /\ LET reserve == CeilDiv(poolRes[side] * quoteRes[side], quote)
       IN  /\ reserve + pairRes[side] <= supply[side]
           /\ poolRes' = [poolRes EXCEPT ![side] = reserve]
    /\ quoteRes' = [quoteRes EXCEPT ![side] = quote]
    /\ UNCHANGED <<config, bases, pairRes, supply, oracle>>

(* A trade of A against B. *)
PairTrade(level) ==
    /\ Event
    /\ level # pairRes["A"]
    /\ LET other == CeilDiv(pairRes["A"] * pairRes["B"], level)
       IN  /\ level + poolRes["A"] <= supply["A"]
           /\ other + poolRes["B"] <= supply["B"]
           /\ pairRes' = [s \in Sides |-> IF s = "A" THEN level ELSE other]
    /\ UNCHANGED <<config, bases, poolRes, quoteRes, supply, oracle>>

OracleMoves(price) ==
    /\ Event
    /\ oracle' = price
    /\ price # oracle
    /\ UNCHANGED <<config, bases, market>>

SetPaused(want) ==
    /\ Event
    /\ paused' = want
    /\ UNCHANGED <<kind, bases, market, oracle>>

SetOracleKind(k) ==
    /\ Event
    /\ kind' = k
    /\ UNCHANGED <<paused, bases, market, oracle>>

Surroundings ==
    \/ \E side \in Sides, quote \in QuoteLevels : Trade(side, quote)
    \/ \E level \in PairLevels : PairTrade(level)
    \/ \E price \in OraclePrices \cup {NoPrice} : OracleMoves(price)
    \/ \E want \in BOOLEAN : SetPaused(want)
    \/ \E k \in OracleKinds : SetOracleKind(k)

Next == (\E user \in UserLeverages : Crank(user)) \/ Surroundings

Spec == Init /\ [][Next]_vars

(* Any receipt transfer fires the hook, which cranks with leverage 0: in a *)
(* pair that people use, it keeps being fired.                             *)
FairSpec == Spec /\ WF_vars(Crank(0))

-----------------------------------------------------------------------------
(* Properties. *)

(* A step that leaves the counter of events alone is a crank. *)
Cranked == events' = events

Minted(side) == supply'[side] - supply[side]

(* No crank mints more than max_mint_bps of the reserve it mints into, in  *)
(* either pool, nor both synthetics; and it never touches the quote side,  *)
(* on which the receipts' value rests.                                     *)
MintIsCapped ==
    [][Cranked =>
        /\ \A side \in Sides :
            /\ Minted(side) = 0 \/ Minted(Other(side)) = 0
            /\ MaxMint # 0 =>
                /\ (pairRes'[side] - pairRes[side]) * BpsDenom <= MaxMint * pairRes[side]
                /\ (poolRes'[side] - poolRes[side]) * BpsDenom <= MaxMint * poolRes[side]
        /\ quoteRes' = quoteRes]_vars

(* The circuit breaker: at a move of breaker_bps or more nothing is        *)
(* minted, although move sizes are clamped to 2% before a mint is sized;   *)
(* the bases advance all the same.                                         *)
BreakerStopsMint ==
    [][Cranked /\ Breaker # 0 /\ HasReturn(Basis, Reading)
               /\ AbsMove(Basis, Reading) >= Breaker
        => supply' = supply]_vars

(* A basis never overshoots what it follows: a crank leaves it between     *)
(* where it was and the reading, so that one move of the market is never   *)
(* answered with a mint of the opposite side.                              *)
BasesNeverOvershoot ==
    [][Cranked =>
        /\ Between(lastRatio, lastRatio', MarketRatio(poolRes, quoteRes))
        /\ External => Between(oracleLast, oracleLast', oracle)]_vars

(* The leverage effect: a crank may only cheapen the side that lost        *)
(* against the basis.  The A/B ratio never falls when A outperformed, nor  *)
(* rises when B did.                                                       *)
LoserCheapens ==
    [][Cranked /\ HasMarket(poolRes, quoteRes) /\ HasMarket(poolRes', quoteRes') =>
        LET before == MarketRatio(poolRes, quoteRes)
            after  == MarketRatio(poolRes', quoteRes')
        IN  /\ after < before => Basis > Reading
            /\ after > before => Basis < Reading]_vars

(* A breaker tripped by an external price does not stay tripped: cranks    *)
(* mint nothing but walk the basis toward the price until the move is      *)
(* below breaker_bps.  Without one the crank's own mints move the ratio it *)
(* follows, and the 30% step of a basis of a few units truncates to zero.  *)
Tripped ==
    External /\ Runs /\ HasReturn(Basis, Reading) /\ Breaks(AbsMove(Basis, Reading), Breaker)

BreakerReleases == Tripped ~> ~Tripped

(* With an external price the basis follows it until less than four units  *)
(* of the last place separate them.                                        *)
OracleBasisSettles ==
    <>[](External /\ Runs => Magnitude(oracle - oracleLast) < 4)

(* Nothing is minted for a pair whose prices have not moved. *)
NoMoveNoMint == events = 0 => supply = [s \in Sides |-> InitSupply]
=============================================================================
