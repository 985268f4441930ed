--------------------------- MODULE RebalanceProofs ---------------------------
(***************************************************************************)
(* What module Rebalance promises of the crank for every width, leverage   *)
(* band, cap, breaker and price: the proofs of its type invariant and of   *)
(* what a crank may never do.                                              *)
(***************************************************************************)
EXTENDS Rebalance, LeverageProofs

-----------------------------------------------------------------------------
(* The type invariant is inductive. *)

LEMMA InitTypeOK == Init => TypeOK
  <1> SUFFICES ASSUME Init
               PROVE  TypeOK
    OBVIOUS
  <1>1. /\ InitReserve \in Nat \ {0} /\ InitSupply \in 0..U64Max /\ Wad \in Nat \ {0}
        /\ 0 \in 0..MaxEvents
    BY RebalanceAssumption, WidthAssumption, SMT
  <1>2. poolRes \in [Sides -> Nat] /\ quoteRes \in [Sides -> Nat]
    BY <1>1 DEF Init
  <1>3. HasMarket(poolRes, quoteRes)
    <2>1. (InitReserve * Wad) \div InitReserve # 0
      <3>1. InitReserve * Wad \in Nat
        BY <1>1, SMT
      <3>2. InitReserve * Wad < ((InitReserve * Wad) \div InitReserve) * InitReserve + InitReserve
        BY <1>1, <3>1, DivIsFloor
      <3> DEFINE q == (InitReserve * Wad) \div InitReserve
      <3>3. q # 0
        <4> SUFFICES ASSUME q = 0
                     PROVE  FALSE
          OBVIOUS
        <4>1. InitReserve * Wad < InitReserve
          BY <1>1, <3>2, SMT
        <4> QED BY <1>1, <4>1, SMT
      <3> QED BY <3>3
    <2> QED BY <1>1, <2>1 DEF HasMarket, Price, Init, Sides
  <1>4. lastRatio \in Nat
    BY <1>2, <1>3, RatioIsNat DEF Init
  <1> QED BY <1>1, <1>2, <1>4, RebalanceAssumption DEF Init, TypeOK

(* What a crank mints, if it mints. *)
LEMMA PlanOfCrank ==
    ASSUME TypeOK, Runs, NEW user \in UserLeverages, HasCrankPlan(user)
    PROVE  /\ CrankPlan(user).side = Loser(Basis, Reading)
           /\ CrankPlan(user).side \in Sides
           /\ CrankPlan(user).pair \in Nat /\ CrankPlan(user).pool \in Nat
           /\ MaxMint # 0 =>
                /\ CrankPlan(user).pair * BpsDenom <= MaxMint * pairRes[CrankPlan(user).side]
                /\ CrankPlan(user).pool * BpsDenom <= MaxMint * poolRes[CrankPlan(user).side]
           /\ Breaker # 0 /\ AbsMove(Basis, Reading) >= Breaker =>
                CrankPlan(user).pair = 0 /\ CrankPlan(user).pool = 0
  <1> DEFINE side == Loser(Basis, Reading)
             move == AbsMove(Basis, Reading)
             lev == PlanLeverage(user, LMin, LMax, pairRes[side], supply[side])
  <1>1. Basis \in Nat /\ Reading \in Nat
    <2>1. CASE External
      BY <2>1 DEF External, Basis, Reading, TypeOK, Runs
    <2>2. CASE ~External
      BY <2>2, RatioIsNat DEF Basis, Reading, TypeOK, Runs
    <2> QED BY <2>1, <2>2
  <1>2. HasMove(Basis, Reading)
    BY DEF HasCrankPlan, HasPlan
  <1>3. move \in Nat
    BY <1>1, <1>2, MoveOfReturn
  <1>4. side \in Sides
    BY DEF Loser, Sides
  <1>5. /\ user \in Nat /\ LMin \in Nat /\ LMax \in Nat /\ MaxMint \in Nat /\ Breaker \in Nat
        /\ pairRes[side] \in Nat /\ poolRes[side] \in Nat /\ supply[side] \in Nat
    BY <1>4, RebalanceAssumption, WidthAssumption, SMT DEF TypeOK
  <1>6. CrankPlan(user) =
            [side |-> side,
             pair |-> PlannedMint(pairRes[side], move, lev, MaxMint, Breaker),
             pool |-> PlannedMint(poolRes[side], move, lev, MaxMint, Breaker)]
    BY DEF CrankPlan, Plan
  <1> HIDE DEF side, move
  <1>7. lev \in Nat
    BY <1>5, PlanLeverageIsNat
  <1> HIDE DEF lev
  <1>8. /\ PlannedMint(pairRes[side], move, lev, MaxMint, Breaker) \in Nat
        /\ MaxMint # 0 => PlannedMint(pairRes[side], move, lev, MaxMint, Breaker) * BpsDenom
                            <= MaxMint * pairRes[side]
        /\ Breaker # 0 /\ move >= Breaker =>
                PlannedMint(pairRes[side], move, lev, MaxMint, Breaker) = 0
    <2> DEFINE reserve == pairRes[side]
    <2>1. reserve \in Nat /\ MaxMint \in Nat /\ Breaker \in Nat
      BY <1>5
    <2> HIDE DEF reserve
    <2>2. /\ PlannedMint(reserve, move, lev, MaxMint, Breaker) \in Nat
          /\ MaxMint # 0 => PlannedMint(reserve, move, lev, MaxMint, Breaker) * BpsDenom
                              <= MaxMint * reserve
          /\ Breaker # 0 /\ move >= Breaker =>
                PlannedMint(reserve, move, lev, MaxMint, Breaker) = 0
      BY <1>3, <1>7, <2>1, PlannedMintCapped
    <2> QED BY <2>2 DEF reserve
  <1>9. /\ PlannedMint(poolRes[side], move, lev, MaxMint, Breaker) \in Nat
        /\ MaxMint # 0 => PlannedMint(poolRes[side], move, lev, MaxMint, Breaker) * BpsDenom
                            <= MaxMint * poolRes[side]
        /\ Breaker # 0 /\ move >= Breaker =>
                PlannedMint(poolRes[side], move, lev, MaxMint, Breaker) = 0
    <2> DEFINE reserve == poolRes[side]
    <2>1. reserve \in Nat /\ MaxMint \in Nat /\ Breaker \in Nat
      BY <1>5
    <2> HIDE DEF reserve
    <2>2. /\ PlannedMint(reserve, move, lev, MaxMint, Breaker) \in Nat
          /\ MaxMint # 0 => PlannedMint(reserve, move, lev, MaxMint, Breaker) * BpsDenom
                              <= MaxMint * reserve
          /\ Breaker # 0 /\ move >= Breaker =>
                PlannedMint(reserve, move, lev, MaxMint, Breaker) = 0
      BY <1>3, <1>7, <2>1, PlannedMintCapped
    <2> QED BY <2>2 DEF reserve
  <1>10. side = Loser(Basis, Reading) /\ move = AbsMove(Basis, Reading)
    BY DEF side, move
  <1>11. /\ CrankPlan(user).side = side
         /\ CrankPlan(user).pair = PlannedMint(pairRes[side], move, lev, MaxMint, Breaker)
         /\ CrankPlan(user).pool = PlannedMint(poolRes[side], move, lev, MaxMint, Breaker)
    BY <1>6
  <1> QED BY <1>4, <1>8, <1>9, <1>10, <1>11

LEMMA CrankKeepsTypeOK ==
    ASSUME TypeOK, NEW user \in UserLeverages, Crank(user)
    PROVE  TypeOK'
  <1>1. Runs /\ UNCHANGED <<paused, kind, quoteRes, oracle, events>>
    BY DEF Crank
  <1>2. lastRatio' \in Nat
    <2>1. MarketRatio(poolRes, quoteRes) \in Nat
      BY <1>1, RatioIsNat DEF TypeOK, Runs
    <2> QED BY <2>1, AdvanceIsBetween DEF TypeOK, Crank, AdvanceBases
  <1>3. oracleLast' \in Nat
    <2>1. CASE External
      <3>1. oracle \in Nat /\ oracleLast \in Nat
        BY <1>1, <2>1 DEF TypeOK, Runs
      <3>2. oracleLast' = PartialAdvance(oracleLast, oracle, CrankAbsorbBps)
        BY <2>1 DEF Crank, AdvanceBases
      <3> QED BY <3>1, <3>2, AdvanceIsBetween
    <2>2. CASE ~External
      BY <2>2 DEF TypeOK, Crank, AdvanceBases
    <2> QED BY <2>1, <2>2
  <1>4. /\ pairRes' \in [Sides -> Nat] /\ poolRes' \in [Sides -> Nat]
        /\ supply' \in [Sides -> 0..U64Max]
    <2>1. CASE ~HasCrankPlan(user)
      BY <2>1 DEF TypeOK, Crank
    <2>2. CASE HasCrankPlan(user)
      <3> DEFINE plan == CrankPlan(user)
      <3>1. plan.side \in Sides /\ plan.pair \in Nat /\ plan.pool \in Nat
        BY <1>1, <2>2, PlanOfCrank
      <3>2. MintLoser(plan)
        BY <2>2 DEF Crank
      <3> HIDE DEF plan
      <3>3. U64Max \in Nat
        BY WidthAssumption
      <3> QED BY <3>1, <3>2, <3>3, SMT DEF TypeOK, MintLoser
    <2> QED BY <2>1, <2>2
  <1> QED BY <1>1, <1>2, <1>3, <1>4 DEF TypeOK

(* Trades leave every reserve a natural number. *)
LEMMA CeilDivIsNat ==
    ASSUME NEW x \in Nat, NEW y \in Nat \ {0}
    PROVE  CeilDiv(x, y) \in Nat
  <1>1. x + y - 1 \in Nat
    BY SMT
  <1> QED BY <1>1, DivIsFloor DEF CeilDiv

LEMMA SurroundingsKeepTypeOK ==
    ASSUME TypeOK, Surroundings
    PROVE  TypeOK'
  <1>1. /\ QuoteLevels \subseteq Nat \ {0} /\ PairLevels \subseteq Nat \ {0}
        /\ OraclePrices \subseteq Nat /\ MaxEvents \in Nat
        /\ OracleKinds \subseteq {"none", "pumpswap", "crawl"}
    BY RebalanceAssumption
  <1>2. ASSUME Event
        PROVE  events' \in 0..MaxEvents
    BY <1>1, <1>2, SMT DEF TypeOK, Event
  <1>3. ASSUME NEW side \in Sides, NEW quote \in QuoteLevels, Trade(side, quote)
        PROVE  TypeOK'
    <2> DEFINE reserve == CeilDiv(poolRes[side] * quoteRes[side], quote)
    <2>1. poolRes[side] * quoteRes[side] \in Nat /\ quote \in Nat \ {0}
      <3>1. poolRes[side] \in Nat /\ quoteRes[side] \in Nat
        BY DEF TypeOK
      <3> QED BY <1>1, <3>1, SMT
    <2>2. reserve \in Nat
      BY <2>1, CeilDivIsNat
    <2>3. /\ poolRes' = [poolRes EXCEPT ![side] = reserve]
          /\ quoteRes' = [quoteRes EXCEPT ![side] = quote]
          /\ UNCHANGED <<config, bases, pairRes, supply, oracle>>
          /\ Event
      BY <1>3 DEF Trade
    <2> HIDE DEF reserve
    <2> QED BY <1>2, <2>1, <2>2, <2>3 DEF TypeOK, config, bases
  <1>4. ASSUME NEW level \in PairLevels, PairTrade(level)
        PROVE  TypeOK'
    <2> DEFINE other == CeilDiv(pairRes["A"] * pairRes["B"], level)
    <2>1. pairRes["A"] * pairRes["B"] \in Nat /\ level \in Nat \ {0}
      <3>1. pairRes["A"] \in Nat /\ pairRes["B"] \in Nat
        BY DEF TypeOK, Sides
      <3> QED BY <1>1, <3>1, SMT
    <2>2. other \in Nat
      BY <2>1, CeilDivIsNat
    <2>3. /\ pairRes' = [s \in Sides |-> IF s = "A" THEN level ELSE other]
          /\ UNCHANGED <<config, bases, poolRes, quoteRes, supply, oracle>>
          /\ Event
      BY <1>4 DEF PairTrade
    <2> HIDE DEF other
    <2> QED BY <1>2, <2>1, <2>2, <2>3 DEF TypeOK, config, bases
  <1>5. ASSUME NEW price \in OraclePrices \cup {NoPrice}, OracleMoves(price)
        PROVE  TypeOK'
    <2>1. oracle' \in Nat \cup {NoPrice}
      BY <1>1, <1>5 DEF OracleMoves
    <2> QED BY <1>2, <1>5, <2>1 DEF TypeOK, OracleMoves, config, bases, market
  <1>6. ASSUME NEW want \in BOOLEAN, SetPaused(want)
        PROVE  TypeOK'
    BY <1>2, <1>6 DEF TypeOK, SetPaused, bases, market
  <1>7. ASSUME NEW k \in OracleKinds, SetOracleKind(k)
        PROVE  TypeOK'
    BY <1>1, <1>2, <1>7 DEF TypeOK, SetOracleKind, bases, market
  <1> QED BY <1>3, <1>4, <1>5, <1>6, <1>7 DEF Surroundings

LEMMA NextKeepsTypeOK == TypeOK /\ [Next]_vars => TypeOK'
  <1> SUFFICES ASSUME TypeOK, [Next]_vars
               PROVE  TypeOK'
    OBVIOUS
  <1>1. ASSUME NEW user \in UserLeverages, Crank(user)
        PROVE  TypeOK'
    BY <1>1, CrankKeepsTypeOK
  <1>2. CASE Surroundings
    BY <1>2, SurroundingsKeepTypeOK
  <1>3. CASE UNCHANGED vars
    BY <1>3 DEF TypeOK, vars
  <1> QED BY <1>1, <1>2, <1>3 DEF Next

-----------------------------------------------------------------------------
(* A step that leaves the counter of events alone is a crank, or changes   *)
(* nothing at all.                                                         *)
LEMMA CrankedIsCrank ==
    ASSUME TypeOK, Next, Cranked
    PROVE  \E user \in UserLeverages : Crank(user)
  <1>1. ~Event
    BY SMT DEF Event, Cranked, TypeOK
  <1>2. ~Surroundings
    BY <1>1 DEF Surroundings, Trade, PairTrade, OracleMoves, SetPaused, SetOracleKind
  <1> QED BY <1>2 DEF Next

-----------------------------------------------------------------------------
(* The theorems. *)

(* Every field keeps its type: no basis turns negative, and no supply      *)
(* exceeds its width.                                                      *)
THEOREM TypeCorrect == Spec => []TypeOK
  BY InitTypeOK, NextKeepsTypeOK, PTL DEF Spec

(* A crank mints one side at most, into each of its pools at most          *)
(* max_mint_bps of the reserve there, and leaves the USDC alone.           *)
THEOREM MintsAreCapped == Spec => MintIsCapped
  <1> DEFINE Capped ==
        /\ \A side \in Sides :
            /\ Minted(side) = 0 \/ Minted(Other(side)) = 0
            /\ MaxMint # 0 =>
                /\ (pairRes'[side] - pairRes[side]) * BpsDenom <= MaxMint * pairRes[side]
                /\ (poolRes'[side] - poolRes[side]) * BpsDenom <= MaxMint * poolRes[side]
        /\ quoteRes' = quoteRes
  <1>1. ASSUME TypeOK, NEW user \in UserLeverages, Crank(user)
        PROVE  Capped
    <2>1. Runs /\ quoteRes' = quoteRes
      BY <1>1 DEF Crank
    <2>2. /\ \A s \in Sides : pairRes[s] \in Nat /\ poolRes[s] \in Nat /\ supply[s] \in Nat
          /\ MaxMint \in Nat
      BY <1>1, RebalanceAssumption, WidthAssumption, SMT DEF TypeOK
    <2>3. \A s \in Sides : 0 <= MaxMint * pairRes[s] /\ 0 <= MaxMint * poolRes[s]
      BY <2>2, SMT
    <2>4. CASE ~HasCrankPlan(user)
      <3>1. UNCHANGED <<pairRes, poolRes, supply>>
        BY <1>1, <2>4 DEF Crank
      <3> QED BY <2>1, <2>2, <2>3, <3>1, SMT DEF Minted, BpsDenom, Other, Sides
    <2>5. CASE HasCrankPlan(user)
      <3> DEFINE plan == CrankPlan(user)
      <3>1. /\ plan.side \in Sides /\ plan.pair \in Nat /\ plan.pool \in Nat
            /\ MaxMint # 0 => /\ plan.pair * BpsDenom <= MaxMint * pairRes[plan.side]
                              /\ plan.pool * BpsDenom <= MaxMint * poolRes[plan.side]
        BY <1>1, <2>1, <2>5, PlanOfCrank
      <3>2. MintLoser(plan)
        BY <1>1, <2>5 DEF Crank
      <3> HIDE DEF plan
      <3>3. \A s \in Sides : s # plan.side =>
                /\ pairRes'[s] = pairRes[s] /\ poolRes'[s] = poolRes[s] /\ supply'[s] = supply[s]
        BY <1>1, <3>2 DEF MintLoser, TypeOK
      <3>4. /\ pairRes'[plan.side] = pairRes[plan.side] + plan.pair
            /\ poolRes'[plan.side] = poolRes[plan.side] + plan.pool
        BY <1>1, <3>1, <3>2 DEF MintLoser, TypeOK
      <3>5. ASSUME NEW side \in Sides
            PROVE  Minted(side) = 0 \/ Minted(Other(side)) = 0
        <4>1. side # plan.side \/ Other(side) # plan.side
          BY DEF Other, Sides
        <4>2. Other(side) \in Sides
          BY DEF Other, Sides
        <4> QED BY <2>2, <3>3, <4>1, <4>2, SMT DEF Minted
      <3>6. ASSUME NEW side \in Sides, MaxMint # 0
            PROVE  /\ (pairRes'[side] - pairRes[side]) * BpsDenom <= MaxMint * pairRes[side]
                   /\ (poolRes'[side] - poolRes[side]) * BpsDenom <= MaxMint * poolRes[side]
        <4>1. CASE side = plan.side
          BY <2>2, <3>1, <3>4, <3>6, <4>1, SMT DEF BpsDenom
        <4>2. CASE side # plan.side
          BY <2>2, <2>3, <3>3, <4>2, SMT DEF BpsDenom
        <4> QED BY <4>1, <4>2
      <3> QED BY <2>1, <3>5, <3>6
    <2> QED BY <2>4, <2>5
  <1>2. TypeOK /\ [Next]_vars => [Cranked => Capped]_vars
    BY <1>1, CrankedIsCrank
  <1> QED BY <1>2, TypeCorrect, PTL DEF Spec, MintIsCapped

(* A move of breaker_bps or more mints nothing. *)
THEOREM BreakerWorks == Spec => BreakerStopsMint
  <1> DEFINE Stops == Cranked /\ Breaker # 0 /\ HasReturn(Basis, Reading)
                        /\ AbsMove(Basis, Reading) >= Breaker => supply' = supply
  <1>1. ASSUME TypeOK, NEW user \in UserLeverages, Crank(user),
               Breaker # 0, AbsMove(Basis, Reading) >= Breaker
        PROVE  supply' = supply
    <2>1. Runs
      BY <1>1 DEF Crank
    <2>2. CASE ~HasCrankPlan(user)
      BY <1>1, <2>2 DEF Crank
    <2>3. CASE HasCrankPlan(user)
      <3> DEFINE plan == CrankPlan(user)
      <3>1. plan.side \in Sides /\ plan.pair = 0 /\ plan.pool = 0
        BY <1>1, <2>1, <2>3, PlanOfCrank
      <3>2. MintLoser(plan)
        BY <1>1, <2>3 DEF Crank
      <3> HIDE DEF plan
      <3>3. supply[plan.side] \in Nat
        BY <1>1, <3>1, WidthAssumption, SMT DEF TypeOK
      <3>4. supply[plan.side] + plan.pair + plan.pool = supply[plan.side]
        BY <3>1, <3>3, SMT
      <3>5. supply' = [supply EXCEPT ![plan.side] = supply[plan.side]]
        BY <3>2, <3>4 DEF MintLoser
      <3> QED BY <1>1, <3>5 DEF TypeOK
    <2> QED BY <2>2, <2>3
  <1>2. TypeOK /\ [Next]_vars => [Stops]_vars
    BY <1>1, CrankedIsCrank
  <1> QED BY <1>2, TypeCorrect, PTL DEF Spec, BreakerStopsMint

(* No basis ever overshoots its reading. *)
THEOREM NoOvershoot == Spec => BasesNeverOvershoot
  <1> DEFINE Stays ==
        /\ Between(lastRatio, lastRatio', MarketRatio(poolRes, quoteRes))
        /\ External => Between(oracleLast, oracleLast', oracle)
  <1>1. ASSUME TypeOK, NEW user \in UserLeverages, Crank(user)
        PROVE  Stays
    <2>1. Runs
      BY <1>1 DEF Crank
    <2>2. MarketRatio(poolRes, quoteRes) \in Nat /\ lastRatio \in Nat
      BY <1>1, <2>1, RatioIsNat DEF TypeOK, Runs
    <2>3. Between(lastRatio, lastRatio', MarketRatio(poolRes, quoteRes))
      BY <1>1, <2>2, AdvanceIsBetween DEF Crank, AdvanceBases
    <2>4. External => Between(oracleLast, oracleLast', oracle)
      <3>1. External => oracle \in Nat /\ oracleLast \in Nat
        BY <1>1, <2>1 DEF TypeOK, Runs
      <3>2. External => oracleLast' = PartialAdvance(oracleLast, oracle, CrankAbsorbBps)
        BY <1>1 DEF Crank, AdvanceBases
      <3> QED BY <3>1, <3>2, AdvanceIsBetween
    <2> QED BY <2>3, <2>4
  <1>2. TypeOK /\ [Next]_vars => [Cranked => Stays]_vars
    BY <1>1, CrankedIsCrank
  <1> QED BY <1>2, TypeCorrect, PTL DEF Spec, BasesNeverOvershoot

(* More of the token in its pool never raises its price. *)
LEMMA MintLowersPrice ==
    ASSUME NEW reserve \in Nat \ {0}, NEW minted \in Nat, NEW quote \in Nat
    PROVE  Price(reserve + minted, quote) <= Price(reserve, quote)
  <1>1. quote * Wad \in Nat /\ reserve + minted \in Nat \ {0} /\ reserve <= reserve + minted
    BY WidthAssumption, SMT
  <1> QED BY <1>1, DivByMore DEF Price

(* A crank moves the ratio, if at all, against the side that lost.         *)
THEOREM OnlyLoserCheapens == Spec => LoserCheapens
  <1>1. ASSUME TypeOK, TypeOK', NEW user \in UserLeverages, Crank(user),
               HasMarket(poolRes, quoteRes), HasMarket(poolRes', quoteRes')
        PROVE  /\ MarketRatio(poolRes', quoteRes') < MarketRatio(poolRes, quoteRes)
                        => Basis > Reading
               /\ MarketRatio(poolRes', quoteRes') > MarketRatio(poolRes, quoteRes)
                        => Basis < Reading
    <2> DEFINE before == MarketRatio(poolRes, quoteRes)
               after == MarketRatio(poolRes', quoteRes')
               priceA == Price(poolRes["A"], quoteRes["A"])
               priceB == Price(poolRes["B"], quoteRes["B"])
    <2>1. Runs /\ quoteRes' = quoteRes
      BY <1>1 DEF Crank
    <2>2. /\ before \in Nat /\ priceA \in Nat /\ priceB \in Nat \ {0}
          /\ before = (priceA * Wad) \div priceB
      BY <1>1, RatioIsNat DEF TypeOK, MarketRatio
    <2>3. after \in Nat
      BY <1>1, RatioIsNat DEF TypeOK
    <2>4. CASE ~HasCrankPlan(user)
      <3>1. after = before
        BY <1>1, <2>1, <2>4 DEF Crank
      <3> HIDE DEF after, before
      <3>2. ~(after < before) /\ ~(after > before)
        BY <2>2, <2>3, <3>1, SMT
      <3> QED BY <3>2 DEF after, before
    <2>5. CASE HasCrankPlan(user)
      <3> DEFINE plan == CrankPlan(user)
                 newA == Price(poolRes'["A"], quoteRes["A"])
                 newB == Price(poolRes'["B"], quoteRes["B"])
      <3>1. /\ plan.side = Loser(Basis, Reading) /\ plan.side \in Sides
            /\ plan.pool \in Nat
        BY <1>1, <2>1, <2>5, PlanOfCrank
      <3>2. HasMove(Basis, Reading)
        BY <2>5 DEF HasCrankPlan, HasPlan
      <3>3. Basis \in Nat /\ Reading \in Nat
        <4>1. CASE External
          BY <1>1, <2>1, <4>1 DEF External, Basis, Reading, TypeOK, Runs
        <4>2. CASE ~External
          BY <1>1, <2>2, <4>2 DEF Basis, Reading, TypeOK
        <4> QED BY <4>1, <4>2
      <3>4. MintLoser(plan)
        BY <1>1, <2>5 DEF Crank
      <3> HIDE DEF plan
      <3>5. poolRes' = [poolRes EXCEPT ![plan.side] = @ + plan.pool]
        BY <3>4 DEF MintLoser
      <3>6. /\ poolRes["A"] \in Nat \ {0} /\ poolRes["B"] \in Nat \ {0}
            /\ quoteRes["A"] \in Nat /\ quoteRes["B"] \in Nat /\ Wad \in Nat
        BY <1>1, WidthAssumption DEF TypeOK, HasMarket, Sides
      <3>7. /\ newA \in Nat /\ newB \in Nat \ {0}
            /\ after = (newA * Wad) \div newB
        BY <1>1, <2>1, RatioIsNat DEF TypeOK, MarketRatio
      <3>8. CASE plan.side = "A"
        <4>1. poolRes'["A"] = poolRes["A"] + plan.pool /\ poolRes'["B"] = poolRes["B"]
          BY <1>1, <3>5, <3>8 DEF TypeOK, Sides
        <4>2. newA <= priceA /\ newB = priceB
          BY <3>1, <3>6, <4>1, MintLowersPrice
        <4> HIDE DEF newA, newB, priceA, priceB, before, after
        <4>3. newA * Wad \in Nat /\ priceA * Wad \in Nat /\ newA * Wad <= priceA * Wad
          BY <2>2, <3>6, <3>7, <4>2, MulKeepsOrder, SMT
        <4>4. after <= before
          BY <2>2, <3>7, <4>2, <4>3, DivKeepsOrder
        <4>5. Reading < Basis
          BY <3>1, <3>2, <3>3, <3>8, MoveOfReturn
        <4>6. ~(after > before) /\ Basis > Reading
          BY <2>2, <2>3, <3>3, <4>4, <4>5, SMT
        <4> QED BY <4>6 DEF before, after
      <3>9. CASE plan.side = "B"
        <4>1. poolRes'["B"] = poolRes["B"] + plan.pool /\ poolRes'["A"] = poolRes["A"]
          BY <1>1, <3>5, <3>9 DEF TypeOK, Sides
        <4>2. newB <= priceB /\ newA = priceA
          BY <3>1, <3>6, <4>1, MintLowersPrice
        <4> HIDE DEF newA, newB, priceA, priceB, before, after
        <4>3. priceA * Wad \in Nat
          BY <2>2, <3>6, SMT
        <4>4. before <= after
          BY <2>2, <3>7, <4>2, <4>3, DivByMore
        <4>5. Basis < Reading
          BY <3>1, <3>2, <3>3, <3>9, MoveOfReturn
        <4>6. ~(after < before) /\ Basis < Reading
          BY <2>2, <2>3, <3>3, <4>4, <4>5, SMT
        <4> QED BY <4>6 DEF before, after
      <3> QED BY <3>1, <3>8, <3>9 DEF Sides
    <2> QED BY <2>4, <2>5
  <1>2. TypeOK /\ TypeOK' /\ [Next]_vars => [Cranked /\ HasMarket(poolRes, quoteRes)
            /\ HasMarket(poolRes', quoteRes') =>
            LET before == MarketRatio(poolRes, quoteRes)
                after  == MarketRatio(poolRes', quoteRes')
            IN  /\ after < before => Basis > Reading
                /\ after > before => Basis < Reading]_vars
    BY <1>1, CrankedIsCrank
  <1> QED BY <1>2, TypeCorrect, PTL DEF Spec, LoserCheapens

-----------------------------------------------------------------------------
(* What the liveness of the bases rests on, one crank at a time.           *)

(* Each crank brings each basis nearer to what it follows while four units *)
(* separate them, and takes off at least a sixth of the gap unless the     *)
(* 128-bit product saturates: a price that stays is reached in a number of *)
(* cranks that grows with the logarithm of the gap.                        *)
Closes(last, new, now) ==
    LET gap  == Magnitude(now - last)
        left == Magnitude(now - new)
    IN  gap >= 4 => /\ left < gap
                    /\ FitsI128(gap, CrankAbsorbBps) => 6 * left <= 5 * gap

GapsClose ==
    [][Cranked =>
        /\ Closes(lastRatio, lastRatio', MarketRatio(poolRes, quoteRes))
        /\ External => Closes(oracleLast, oracleLast', oracle)]_vars

(* With an external price a crank does not trip the breaker for the next   *)
(* one: whatever it mints, the next one sees no larger a move.             *)
BreakerStaysReleased ==
    [][Cranked /\ External /\ HasReturn(Basis, Reading) /\ ~Tripped => ~Tripped']_vars

(* A basis converges, where the 128-bit type holds the denominator of a    *)
(* basis point, as it does by far.                                         *)
THEOREM BasesConverge ==
    ASSUME I128Max >= BpsDenom
    PROVE  Spec => GapsClose
  <1> DEFINE Nearer ==
        /\ Closes(lastRatio, lastRatio', MarketRatio(poolRes, quoteRes))
        /\ External => Closes(oracleLast, oracleLast', oracle)
  <1>1. ASSUME TypeOK, NEW user \in UserLeverages, Crank(user)
        PROVE  Nearer
    <2>1. Runs
      BY <1>1 DEF Crank
    <2>2. Closes(lastRatio, lastRatio', MarketRatio(poolRes, quoteRes))
      <3> DEFINE ratio == MarketRatio(poolRes, quoteRes)
      <3>1. ratio \in Nat /\ lastRatio \in Nat
        BY <1>1, <2>1, RatioIsNat DEF TypeOK, Runs
      <3>2. lastRatio' = PartialAdvance(lastRatio, ratio, CrankAbsorbBps)
        BY <1>1 DEF Crank, AdvanceBases
      <3> HIDE DEF ratio
      <3>3. Closes(lastRatio, lastRatio', ratio)
        BY <3>1, <3>2, AdvanceCloses DEF Closes
      <3> QED BY <3>3 DEF ratio
    <2>3. ASSUME External
          PROVE  Closes(oracleLast, oracleLast', oracle)
      <3>1. oracle \in Nat /\ oracleLast \in Nat
        BY <1>1, <2>1, <2>3 DEF TypeOK, Runs
      <3>2. oracleLast' = PartialAdvance(oracleLast, oracle, CrankAbsorbBps)
        BY <1>1, <2>3 DEF Crank, AdvanceBases
      <3> QED BY <3>1, <3>2, AdvanceCloses DEF Closes
    <2> QED BY <2>2, <2>3
  <1>2. TypeOK /\ [Next]_vars => [Cranked => Nearer]_vars
    BY <1>1, CrankedIsCrank
  <1> QED BY <1>2, TypeCorrect, PTL DEF Spec, GapsClose

(* The mints of a crank do not count here: with an external price they do  *)
(* not move the reading.                                                   *)
THEOREM BreakerNotRetripped == Spec => BreakerStaysReleased
  <1>1. ASSUME TypeOK, NEW user \in UserLeverages, Crank(user),
               External, HasReturn(Basis, Reading), ~Tripped
        PROVE  ~Tripped'
    <2>1. Runs /\ oracle \in Nat /\ oracleLast \in Nat /\ Breaker \in Nat
      BY <1>1, RebalanceAssumption DEF Crank, TypeOK, Runs
    <2>2. oracle' = oracle /\ kind' = kind
          /\ oracleLast' = PartialAdvance(oracleLast, oracle, CrankAbsorbBps)
      BY <1>1 DEF Crank, AdvanceBases
    <2>3. /\ HasReturn(oracleLast, oracle) /\ oracleLast \in Nat \ {0}
          /\ ~Breaks(AbsMove(oracleLast, oracle), Breaker)
      BY <1>1, <2>1 DEF Tripped, Basis, Reading, HasReturn
    <2>4. oracleLast' \in Nat \ {0} /\ Between(oracleLast, oracleLast', oracle)
      BY <2>1, <2>2, <2>3, AdvanceIsBetween, AdvanceStaysSet
    <2>5. AbsMove(oracleLast', oracle) <= AbsMove(oracleLast, oracle)
      BY <2>1, <2>3, <2>4, NearerSeesLess
    <2>6. AbsMove(oracleLast', oracle) \in Nat /\ AbsMove(oracleLast, oracle) \in Nat
      BY <2>1, <2>3, <2>4, MoveIsNat
    <2>7. ~Breaks(AbsMove(oracleLast', oracle), Breaker)
      <3> DEFINE x == AbsMove(oracleLast', oracle)
                 y == AbsMove(oracleLast, oracle)
      <3>1. x \in Nat /\ y \in Nat /\ x <= y /\ ~Breaks(y, Breaker)
        BY <2>3, <2>5, <2>6
      <3> HIDE DEF x, y
      <3>2. ~Breaks(x, Breaker)
        BY <2>1, <3>1, SMT DEF Breaks
      <3> QED BY <3>2 DEF x
    <2>8. External' => Basis' = oracleLast' /\ Reading' = oracle
      BY <2>2 DEF External, Basis, Reading
    <2> QED BY <2>7, <2>8 DEF Tripped
  <1>2. TypeOK /\ [Next]_vars =>
          [Cranked /\ External /\ HasReturn(Basis, Reading) /\ ~Tripped => ~Tripped']_vars
    BY <1>1, CrankedIsCrank
  <1> QED BY <1>2, TypeCorrect, PTL DEF Spec, BreakerStaysReleased
=============================================================================
