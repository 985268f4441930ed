-------------------------- MODULE PriceCrawlProofs --------------------------
(***************************************************************************)
(* What module PriceCrawl promises for any number of slots, venues and     *)
(* tables: the proofs that the aggregate is the median of what is stored,  *)
(* that a slot holds a sample of its own venue, and that the hook of a     *)
(* one-venue pair keeps working once advance_crawl has run.                *)
(***************************************************************************)
EXTENDS PriceCrawl, LeverageProofs, MedianCheck

-----------------------------------------------------------------------------
(* The fields, the aggregate apart. *)
FieldsOK ==
    /\ cursor \in Slots
    /\ pass \in 0..U64Max
    /\ layouts \in [Slots -> Venues \cup {"none"}]
    /\ samples \in [Slots -> Nat]
    /\ box \in Pools \cup {NoPool}
    /\ fullSize \in BOOLEAN
    /\ lut \in Seq(Pools)
    /\ tables \in 0..MaxTables
    /\ venue \in [Pools -> Reserves]
    /\ source \in [Slots -> Pools \cup {NoPool}]

(* a \div d is a natural number. *)
LEMMA DivIsNat ==
    ASSUME NEW a \in Nat, NEW d \in Nat \ {0}
    PROVE  a \div d \in Nat
  BY SMT

(* The cursor stays among the slots, and comes back to where it was only   *)
(* if there is but one.                                                    *)
LEMMA CursorMoves ==
    ASSUME cursor \in Slots
    PROVE  /\ NextCursor \in Slots
           /\ NextCursor = cursor => NumEntries = 1
           /\ NumEntries = 1 => NextCursor = cursor
  <1>1. NumEntries \in Nat \ {0}
    BY CrawlAssumption
  <1>2. cursor \in Nat /\ cursor < NumEntries
    BY <1>1, SMT DEF Slots
  <1>3. CASE cursor + 1 = NumEntries
    <2>1. NextCursor = 0
      BY <1>1, <1>2, <1>3, SMT DEF NextCursor
    <2> QED BY <1>1, <1>2, <1>3, <2>1, SMT DEF Slots
  <1>4. CASE cursor + 1 < NumEntries
    <2>1. NextCursor = cursor + 1
      BY <1>1, <1>2, <1>4, SMT DEF NextCursor
    <2> QED BY <1>1, <1>2, <1>4, <2>1, SMT DEF Slots
  <1> QED BY <1>1, <1>2, <1>3, <1>4, SMT

(* A venue that is not thin has a price. *)
LEMMA SpotIsNat ==
    ASSUME FieldsOK, NEW pool \in Pools, ~Thin(pool)
    PROVE  Spot(pool) \in Nat
  <1>1. venue[pool] \in [base : Nat, quote : Nat]
    BY CrawlAssumption DEF FieldsOK
  <1>2. /\ venue[pool].base \in Nat /\ venue[pool].quote \in Nat
        /\ MinBaseReserve \in Nat \ {0} /\ Wad \in Nat
    BY <1>1, CrawlAssumption, WidthAssumption
  <1>3. venue[pool].base \in Nat \ {0} /\ venue[pool].quote * Wad \in Nat
    BY <1>2, SMT DEF Thin
  <1> QED BY <1>3, DivIsNat DEF Spot, Price

(* What a sample changes. *)
LEMMA StoreKeepsFields ==
    ASSUME FieldsOK, NEW pool \in Pools, ~Thin(pool), Store(pool)
    PROVE  /\ cursor' \in Slots
           /\ pass' \in 0..U64Max
           /\ samples' \in [Slots -> Nat]
           /\ source' \in [Slots -> Pools \cup {NoPool}]
           /\ agg' = MedianWad(samples')
  <1>1. cursor' \in Slots
    BY CursorMoves DEF Store, FieldsOK
  <1>2. pass' \in 0..U64Max
    <2>1. U64Max \in Nat
      BY WidthAssumption
    <2> QED BY <2>1, SMT DEF Store, PassAfter, Lesser, FieldsOK
  <1>3. samples' \in [Slots -> Nat]
    BY SpotIsNat DEF Store, FieldsOK
  <1>4. source' \in [Slots -> Pools \cup {NoPool}]
    BY DEF Store, FieldsOK
  <1>5. agg' = MedianWad(samples')
    BY DEF Store, NewAggregate
  <1> QED BY <1>1, <1>2, <1>3, <1>4, <1>5

LEMMA InitFields == Init => FieldsOK
  <1> SUFFICES ASSUME Init
               PROVE  FieldsOK
    OBVIOUS
  <1>1. /\ NumEntries \in Nat \ {0} /\ MaxTables \in Nat /\ U64Max \in Nat
        /\ InitLayouts \subseteq Venues \cup {"none"} /\ Migrated \in BOOLEAN
    BY CrawlAssumption, WidthAssumption
  <1>2. 0 \in Slots /\ 0 \in 0..MaxTables /\ 0 \in 0..U64Max /\ 0 \in Nat
    BY <1>1, SMT DEF Slots
  <1>3. <<>> \in Seq(Pools)
    BY SMT
  <1> QED BY <1>1, <1>2, <1>3 DEF Init, FieldsOK

(* One case per action. *)
LEMMA NextKeepsFields == FieldsOK /\ [Next]_vars => FieldsOK'
  <1> SUFFICES ASSUME FieldsOK, [Next]_vars
               PROVE  FieldsOK'
    OBVIOUS
  <1>1. ASSUME NEW pool \in Pools, AdvanceCrawl(pool)
        PROVE  FieldsOK'
    <2>1. /\ cursor' \in Slots /\ pass' \in 0..U64Max /\ samples' \in [Slots -> Nat]
          /\ source' \in [Slots -> Pools \cup {NoPool}]
      BY <1>1, StoreKeepsFields DEF AdvanceCrawl
    <2>2. box' \in Pools \cup {NoPool}
      BY <1>1 DEF AdvanceCrawl, SeedBox
    <2> QED BY <1>1, <2>1, <2>2 DEF AdvanceCrawl, FieldsOK, table
  <1>2. CASE HookSample
    <2>1. box \in Pools
      BY <1>2 DEF HookSample, HookSucceeds, FieldsOK
    <2>2. /\ cursor' \in Slots /\ pass' \in 0..U64Max /\ samples' \in [Slots -> Nat]
          /\ source' \in [Slots -> Pools \cup {NoPool}]
      BY <1>2, <2>1, StoreKeepsFields DEF HookSample
    <2> QED BY <1>2, <2>2 DEF HookSample, FieldsOK, table
  <1>3. ASSUME NEW slot \in Slots, NEW layout \in Venues, SetCrawlEntry(slot, layout)
        PROVE  FieldsOK'
    BY <1>3 DEF SetCrawlEntry, FieldsOK, table
  <1>4. CASE MigratePriceCrawl
    BY <1>4 DEF MigratePriceCrawl, FieldsOK, table
  <1>5. CASE InitLookupTable
    <2>1. <<>> \in Seq(Pools)
      BY SMT
    <2>2. tables' \in 0..MaxTables
      BY <1>5, CrawlAssumption, SMT DEF InitLookupTable, FieldsOK
    <2> QED BY <1>5, <2>1, <2>2 DEF InitLookupTable, FieldsOK, account
  <1>6. ASSUME NEW pool \in Pools, ExtendLookupTable(pool)
        PROVE  FieldsOK'
    <2>1. Append(lut, pool) \in Seq(Pools)
      BY SMT DEF FieldsOK
    <2> QED BY <1>6, <2>1 DEF ExtendLookupTable, FieldsOK, account
  <1>7. ASSUME NEW pool \in Pools, NEW reserves \in Reserves, VenueMoves(pool, reserves)
        PROVE  FieldsOK'
    BY <1>7 DEF VenueMoves, FieldsOK, account, table
  <1>8. CASE UNCHANGED vars
    BY <1>8 DEF FieldsOK, vars
  <1> QED BY <1>1, <1>2, <1>3, <1>4, <1>5, <1>6, <1>7, <1>8 DEF Next

LEMMA SpecFields == Spec => []FieldsOK
  BY InitFields, NextKeepsFields, PTL DEF Spec

LEMMA SamplesAreFinite ==
    ASSUME NEW f \in [Slots -> Nat]
    PROVE  IsFiniteSet(Slots) /\ MedianWad(f) \in Nat
  <1>1. IsFiniteSet(Slots)
    <2>1. 0 \in Int /\ NumEntries - 1 \in Int
      BY CrawlAssumption
    <2> QED BY <2>1, FS_Interval DEF Slots
  <1> QED BY <1>1, MedianHalves

(* Every field keeps its type, the aggregate too: whatever is sampled and  *)
(* in whatever order, there is a middle sample to store.                   *)
THEOREM CrawlTypeCorrect == Spec => []TypeOK
  <1>1. Init => FieldsOK /\ agg \in Nat
    BY InitFields, CrawlAssumption DEF Init
  <1>2. FieldsOK /\ agg \in Nat /\ [Next]_vars => (agg \in Nat)'
    <2> SUFFICES ASSUME FieldsOK, agg \in Nat, [Next]_vars
                 PROVE  agg' \in Nat
      OBVIOUS
    <2>1. ASSUME NEW pool \in Pools, ~Thin(pool), Store(pool)
          PROVE  agg' \in Nat
      <3>1. samples' \in [Slots -> Nat] /\ agg' = MedianWad(samples')
        BY <2>1, StoreKeepsFields
      <3> QED BY <3>1, SamplesAreFinite
    <2>2. ASSUME NEW pool \in Pools, AdvanceCrawl(pool)
          PROVE  agg' \in Nat
      BY <2>1, <2>2 DEF AdvanceCrawl
    <2>3. CASE HookSample
      <3>1. box \in Pools
        BY <2>3 DEF HookSample, HookSucceeds, FieldsOK
      <3> QED BY <2>1, <2>3, <3>1 DEF HookSample
    <2>4. CASE agg' = agg
      BY <2>4
    <2> QED
      BY <2>2, <2>3, <2>4
         DEF Next, SetCrawlEntry, MigratePriceCrawl, InitLookupTable, ExtendLookupTable,
             VenueMoves, account, vars
  <1>3. FieldsOK /\ agg \in Nat => TypeOK
    BY DEF FieldsOK, TypeOK
  <1> QED BY <1>1, <1>2, <1>3, SpecFields, PTL DEF Spec

-----------------------------------------------------------------------------
(* The aggregate is the median of the stored samples, whichever of the two *)
(* paths stored the last one.                                              *)
THEOREM MedianStored == Spec => []AggregateIsMedian
  <1>1. Init => AggregateIsMedian
    BY SMT DEF Init, AggregateIsMedian
  <1>2. FieldsOK /\ AggregateIsMedian /\ [Next]_vars => AggregateIsMedian'
    <2> SUFFICES ASSUME FieldsOK, AggregateIsMedian, [Next]_vars
                 PROVE  AggregateIsMedian'
      OBVIOUS
    <2>1. ASSUME NEW pool \in Pools, AdvanceCrawl(pool)
          PROVE  AggregateIsMedian'
      BY <2>1, StoreKeepsFields DEF AdvanceCrawl, AggregateIsMedian
    <2>2. CASE HookSample
      <3>1. box \in Pools
        BY <2>2 DEF HookSample, HookSucceeds, FieldsOK
      <3> QED BY <2>2, <3>1, StoreKeepsFields DEF HookSample, AggregateIsMedian
    <2>3. CASE UNCHANGED <<cursor, pass, samples, agg>>
      BY <2>3 DEF AggregateIsMedian
    <2> QED
      BY <2>1, <2>2, <2>3
         DEF Next, SetCrawlEntry, MigratePriceCrawl, InitLookupTable, ExtendLookupTable,
             VenueMoves, account, vars
  <1> QED BY <1>1, <1>2, SpecFields, PTL DEF Spec

(* The aggregate lies where more than half of the slots' samples do.       *)
AggregateOfMajority ==
    pass > 0 \/ cursor > 0 =>
        \A lo, hi \in Nat :
            2 * Cardinality({slot \in Sampled(samples) : samples[slot] \in lo..hi})
                    > Cardinality(Sampled(samples))
                => agg \in lo..hi

(* Venues that are fewer than half of those with a price cannot carry the  *)
(* aggregate away, however far they are moved, in whichever slots they are *)
(* and whoever stores the samples: it stays within the range of the rest.  *)
THEOREM MinorityCannotMove == Spec => []AggregateOfMajority
  <1>1. FieldsOK /\ AggregateIsMedian => AggregateOfMajority
    <2> SUFFICES ASSUME FieldsOK, AggregateIsMedian, pass > 0 \/ cursor > 0,
                        NEW lo \in Nat, NEW hi \in Nat,
                        2 * Cardinality({slot \in Sampled(samples) : samples[slot] \in lo..hi})
                            > Cardinality(Sampled(samples))
                 PROVE  agg \in lo..hi
      BY DEF AggregateOfMajority
    <2>1. samples \in [Slots -> Nat] /\ IsFiniteSet(Slots)
      BY SamplesAreFinite DEF FieldsOK
    <2>2. MedianWad(samples) \in lo..hi
      BY <2>1, MedianOfMajority
    <2> QED BY <2>2 DEF AggregateIsMedian
  <1> QED BY <1>1, SpecFields, MedianStored, PTL

-----------------------------------------------------------------------------
(* No table lists a pool twice. *)
ListsOnce(t) == \A i, j \in 1..Len(t) : t[i] = t[j] => i = j

(* An entry is appended as the admin's plan has it. *)
LEMMA ExtensionListsOnce ==
    ASSUME FieldsOK, \A t \in Tables : ListsOnce(t),
           NEW pool \in Pools, ExtendLookupTable(pool)
    PROVE  ListsOnce(lut')
  <1>1. PICK whole \in Tables :
            /\ Len(lut) < Len(whole)
            /\ lut = SubSeq(whole, 1, Len(lut))
            /\ pool = whole[Len(lut) + 1]
    BY DEF ExtendLookupTable
  <1>2. whole \in Seq(Pools) /\ lut \in Seq(Pools) /\ lut' = Append(lut, pool)
    BY <1>1, CrawlAssumption DEF FieldsOK, ExtendLookupTable
  <1>3. Len(lut) \in Nat /\ Len(whole) \in Nat /\ Len(lut') = Len(lut) + 1
    BY <1>2, SMT
  <1>4. ASSUME NEW i \in 1..Len(lut')
        PROVE  i \in 1..Len(whole) /\ lut'[i] = whole[i]
    <2>1. CASE i = Len(lut) + 1
      BY <1>1, <1>2, <1>3, <2>1, SMT
    <2>2. CASE i \in 1..Len(lut)
      <3>1. lut'[i] = lut[i]
        BY <1>2, <2>2, SMT
      <3>2. SubSeq(whole, 1, Len(lut))[i] = whole[i]
        BY <1>1, <1>2, <1>3, <2>2, SMT
      <3>3. i \in 1..Len(whole)
        BY <1>1, <1>3, <2>2, SMT
      <3> QED BY <1>1, <3>1, <3>2, <3>3
    <2> QED BY <1>3, <2>1, <2>2, SMT
  <1>5. ListsOnce(whole)
    BY <1>1
  <1> QED BY <1>4, <1>5 DEF ListsOnce

(* What the table listed it lists still. *)
LEMMA ExtensionKeepsListed ==
    ASSUME FieldsOK, NEW pool \in Pools, ExtendLookupTable(pool),
           NEW slot \in Slots, NEW other, Listed(slot, other)
    PROVE  Listed(slot, other)'
  <1>1. /\ lut \in Seq(Pools) /\ lut' = Append(lut, pool) /\ slot \in Nat
    BY CrawlAssumption, SMT DEF FieldsOK, ExtendLookupTable, Slots
  <1>2. Len(lut') = Len(lut) + 1 /\ Len(lut) \in Nat
    BY <1>1, SMT
  <1>3. slot + 1 \in 1..Len(lut)
    BY <1>1, <1>2, SMT DEF Listed
  <1>4. lut'[slot + 1] = lut[slot + 1]
    BY <1>1, <1>3, SMT
  <1>5. slot + 1 <= Len(lut')
    BY <1>1, <1>2, <1>3, SMT
  <1> QED BY <1>4, <1>5 DEF Listed

(* Neighbours stay neighbours. *)
LEMMA ExtensionKeepsNeighbours ==
    ASSUME FieldsOK, NEW pool \in Pools, ExtendLookupTable(pool), NEW other, Neighbours(other)
    PROVE  Neighbours(other)'
  <1>1. PICK slot \in Slots : Listed(slot, other) /\ Listed((slot + 1) % NumEntries, other)
    BY DEF Neighbours
  <1>2. (slot + 1) % NumEntries \in Slots
    <2>1. NumEntries \in Nat \ {0} /\ slot \in Nat
      BY CrawlAssumption, SMT DEF Slots
    <2> QED BY <2>1, SMT DEF Slots
  <1>3. Listed(slot, other)' /\ Listed((slot + 1) % NumEntries, other)'
    BY <1>1, <1>2, ExtensionKeepsListed
  <1> QED BY <1>3 DEF Neighbours

(* Until the table is replaced, the boxed vaults are those of a pool in    *)
(* two neighbouring slots.  Without a table nothing is listed, hence       *)
(* nothing boxed and nothing sampled.                                      *)
BoxNeighbours == tables <= 1 /\ box # NoPool => Neighbours(box)

SlotInv ==
    /\ tables = 0 => lut = <<>>
    /\ SampleOfItsSlot
    /\ BoxNeighbours

LEMMA NextKeepsSlotInv ==
    ASSUME FieldsOK, SlotInv, [Next]_vars
    PROVE  SlotInv'
  <1> USE DEF SlotInv
  <1>1. ASSUME NEW pool \in Pools, AdvanceCrawl(pool)
        PROVE  SlotInv'
    <2>1. Listed(cursor, pool) /\ lut' = lut /\ tables' = tables /\ cursor \in Slots
      BY <1>1 DEF AdvanceCrawl, VenueAccepted, table, FieldsOK
    <2>2. source' = [source EXCEPT ![cursor] = pool]
      BY <1>1 DEF AdvanceCrawl, Store
    <2>3. box' # NoPool => box' = pool /\ Listed((cursor + 1) % NumEntries, pool)
      BY <1>1 DEF AdvanceCrawl, SeedBox, NextCursor
    <2>4. SampleOfItsSlot'
      BY <2>1, <2>2 DEF SampleOfItsSlot, Neighbours, Listed, FieldsOK
    <2>5. BoxNeighbours'
      BY <2>1, <2>3 DEF BoxNeighbours, Neighbours, Listed
    <2> QED BY <2>1, <2>4, <2>5
  <1>2. CASE HookSample
    <2>1. box' = box /\ lut' = lut /\ tables' = tables
      BY <1>2 DEF HookSample, table
    <2>2. source' = [source EXCEPT ![cursor] = box] /\ box # NoPool
      BY <1>2 DEF HookSample, HookSucceeds, Store
    <2>3. SampleOfItsSlot'
      BY <2>1, <2>2 DEF SampleOfItsSlot, BoxNeighbours, Neighbours, Listed, FieldsOK
    <2>4. BoxNeighbours'
      BY <2>1 DEF BoxNeighbours, Neighbours, Listed
    <2> QED BY <2>1, <2>3, <2>4
  <1>3. CASE MigratePriceCrawl
    BY <1>3 DEF MigratePriceCrawl, table, BoxNeighbours, Neighbours, SampleOfItsSlot, Listed
  <1>4. CASE InitLookupTable
    <2>1. lut' = <<>> /\ tables' = tables + 1 /\ tables \in Nat
          /\ box' = box /\ source' = source
      BY <1>4, CrawlAssumption, SMT DEF InitLookupTable, account, FieldsOK
    <2>2. CASE tables = 0
      <3>1. lut' = lut /\ tables <= 1
        BY <2>1, <2>2, SMT
      <3>2. tables' # 0
        BY <2>1, SMT
      <3> QED BY <2>1, <3>1, <3>2 DEF SampleOfItsSlot, BoxNeighbours, Neighbours, Listed
    <2>3. CASE tables # 0
      <3>1. ~(tables' <= 1) /\ tables' # 0
        BY <2>1, <2>3, SMT
      <3> QED BY <3>1 DEF SampleOfItsSlot, BoxNeighbours
    <2> QED BY <2>2, <2>3
  <1>5. ASSUME NEW pool \in Pools, ExtendLookupTable(pool)
        PROVE  SlotInv'
    <2>1. tables' = tables /\ tables # 0 /\ box' = box /\ source' = source
      BY <1>5, CrawlAssumption, SMT DEF ExtendLookupTable, account, FieldsOK
    <2>2. SampleOfItsSlot'
      <3> SUFFICES ASSUME tables <= 1, NEW slot \in Slots, source[slot] # NoPool
                   PROVE  Listed(slot, source[slot])' \/ Neighbours(source[slot])'
        BY <2>1 DEF SampleOfItsSlot
      <3>1. Listed(slot, source[slot]) \/ Neighbours(source[slot])
        BY DEF SampleOfItsSlot
      <3>2. Listed(slot, source[slot]) => Listed(slot, source[slot])'
        BY <1>5, <2>1, ExtensionKeepsListed DEF Listed
      <3>3. Neighbours(source[slot]) => Neighbours(source[slot])'
        BY <1>5, <2>1, ExtensionKeepsNeighbours DEF Neighbours, Listed
      <3> QED BY <3>1, <3>2, <3>3
    <2>3. BoxNeighbours'
      BY <1>5, <2>1, ExtensionKeepsNeighbours DEF BoxNeighbours, Neighbours, Listed
    <2> QED BY <2>1, <2>2, <2>3
  <1>6. CASE UNCHANGED <<box, lut, tables, source>>
    BY <1>6 DEF BoxNeighbours, Neighbours, SampleOfItsSlot, Listed
  <1> QED
    BY <1>1, <1>2, <1>3, <1>4, <1>5, <1>6
       DEF Next, SetCrawlEntry, VenueMoves, account, table, vars

(* Whatever tables the admin fills: until the first is replaced, neither   *)
(* the crank nor the hook, which samples the box whatever the cursor,      *)
(* gives a venue the vote of a slot of another, unless the table lists it  *)
(* in two neighbouring slots.                                              *)
THEOREM SlotsOwnSample == Spec => []SampleOfItsSlot
  <1>1. Init => SlotInv
    BY DEF Init, SlotInv, SampleOfItsSlot, BoxNeighbours
  <1>2. FieldsOK /\ SlotInv /\ [Next]_vars => SlotInv'
    BY NextKeepsSlotInv
  <1>3. SlotInv => SampleOfItsSlot
    BY DEF SlotInv
  <1> QED BY <1>1, <1>2, <1>3, SpecFields, PTL DEF Spec

-----------------------------------------------------------------------------
(* A pair of one slot, whose PumpSwap pools trade the pair's A: once       *)
(* advance_crawl has run the hook succeeds for ever, whatever the admin    *)
(* does to tags and tables and the traders to reserves.  With two slots    *)
(* run crawl_bricks shows the contrary.                                    *)
THEOREM OneVenueHookWorks ==
    ASSUME NumEntries = 1, PumpPools \cap Foreign = {}
    PROVE  Spec => []SeededHookWorks
  <1>1. Init => SeededHookWorks
    BY SMT DEF Init, SeededHookWorks
  <1>2. FieldsOK /\ SeededHookWorks /\ [Next]_vars => SeededHookWorks'
    <2> SUFFICES ASSUME FieldsOK, SeededHookWorks, [Next]_vars
                 PROVE  SeededHookWorks'
      OBVIOUS
    <2>1. ASSUME NEW pool \in Pools, AdvanceCrawl(pool)
          PROVE  SeededHookWorks'
      <3>1. cursor' = cursor /\ NextCursor = cursor /\ layouts' = layouts /\ fullSize' = fullSize
        BY <2>1, CursorMoves DEF AdvanceCrawl, Store, FieldsOK
      <3>2. /\ fullSize /\ layouts[cursor] = Tag(pool)
            /\ pool \notin Foreign \ PumpPools /\ Listed(cursor, pool)
        BY <2>1 DEF AdvanceCrawl, VenueAccepted
      <3>3. box' = pool
        BY <2>1, <3>1, <3>2 DEF AdvanceCrawl, SeedBox
      <3>4. pool \notin Foreign \cup {NoPool}
        BY <3>2, CrawlAssumption
      <3>5. layouts[cursor] # "none"
        BY <3>2 DEF Tag
      <3> QED BY <3>1, <3>2, <3>3, <3>4, <3>5 DEF SeededHookWorks, HookSucceeds
    <2>2. CASE HookSample
      <3>1. box \in Pools
        BY <2>2 DEF HookSample, HookSucceeds, FieldsOK
      <3>2. cursor' = cursor /\ UNCHANGED <<box, layouts, fullSize>>
        BY <2>2, CursorMoves DEF HookSample, Store, FieldsOK
      <3> QED BY <2>2, <3>2 DEF HookSample, SeededHookWorks, HookSucceeds
    <2>3. ASSUME NEW slot \in Slots, NEW layout \in Venues, SetCrawlEntry(slot, layout)
          PROVE  SeededHookWorks'
      <3>1. layouts' \in [Slots -> Venues \cup {"none"}]
            /\ (layouts[cursor] # "none" => layouts'[cursor] # "none")
        BY <2>3 DEF SetCrawlEntry, FieldsOK, Venues
      <3> QED BY <2>3, <3>1 DEF SetCrawlEntry, SeededHookWorks, HookSucceeds
    <2>4. CASE MigratePriceCrawl
      BY <2>4 DEF MigratePriceCrawl, SeededHookWorks, HookSucceeds
    <2>5. CASE UNCHANGED <<cursor, pass, layouts, box, fullSize>>
      BY <2>5 DEF SeededHookWorks, HookSucceeds
    <2> QED
      BY <2>1, <2>2, <2>3, <2>4, <2>5
         DEF Next, InitLookupTable, ExtendLookupTable, VenueMoves, account, vars
  <1> QED BY <1>1, <1>2, SpecFields, PTL DEF Spec

-----------------------------------------------------------------------------
(* What the following of the venues rests on, one sample at a time.        *)

(* Slots whose sample is not the price of the table's pool. *)
Stale == {slot \in Slots : samples[slot] # Spot(lut[slot + 1])}

Rests == UNCHANGED <<lut, layouts, venue>>

(* While the table is complete and the venues rest, no sample goes stale,  *)
(* and the cursor leaves a slot only with a sample that is not: whoever    *)
(* samples, crank or hook, a round of the cursor freshens all.             *)
SamplesFreshen ==
    [][Ready /\ Rests =>
        /\ Stale' \subseteq Stale
        /\ cursor' # cursor \/ samples' # samples => cursor \notin Stale' /\ cursor' = NextCursor]_vars

(* With no stale sample the aggregate is the median of the venues' prices. *)
FreshIsMedian ==
    (pass > 0 \/ cursor > 0) /\ Stale = {} =>
        agg = MedianWad([slot \in Slots |-> Spot(lut[slot + 1])])

(* Where it is ready, advance_crawl takes the pool the cursor asks for.    *)
ReadyTakesSample ==
    Ready /\ lut[cursor + 1] \notin Foreign \ PumpPools =>
        /\ VenueAccepted(lut[cursor + 1]) /\ ~Thin(lut[cursor + 1])
        /\ NextCursor + 1 <= Len(lut)

(* Nobody who samples can make it unready: only the admin and the traders. *)
SamplingKeepsReady == [][Ready /\ Rests => Ready']_vars

(* A sample taken of the slot's own pool freshens the slot. *)
LEMMA StoreFreshens ==
    ASSUME FieldsOK, NEW pool, Listed(cursor, pool), Store(pool), UNCHANGED <<lut, venue>>
    PROVE  /\ Stale' \subseteq Stale
           /\ cursor \notin Stale' /\ cursor' = NextCursor
  <1>1. /\ samples' = [samples EXCEPT ![cursor] = Spot(pool)]
        /\ lut[cursor + 1] = pool /\ cursor' = NextCursor
        /\ lut' = lut /\ venue' = venue
    BY DEF Store, Listed
  <1>2. \A x : Spot(x)' = Spot(x)
    BY <1>1 DEF Spot
  <1>3. samples'[cursor] = Spot(pool) /\ \A slot \in Slots \ {cursor} : samples'[slot] = samples[slot]
    BY <1>1 DEF FieldsOK
  <1>4. \A slot \in Slots : slot \in Stale' <=> samples'[slot] # Spot(lut[slot + 1])
    BY <1>1, <1>2 DEF Stale
  <1>5. cursor \notin Stale'
    BY <1>1, <1>3, <1>4 DEF FieldsOK
  <1>6. ASSUME NEW slot \in Stale'
        PROVE  slot \in Stale
    <2>1. slot \in Slots \ {cursor}
      BY <1>5, <1>6 DEF Stale
    <2> QED BY <1>3, <1>4, <1>6, <2>1 DEF Stale
  <1> QED BY <1>1, <1>5, <1>6

THEOREM StaleOnlyShrinks == Spec => SamplesFreshen
  <1>1. ASSUME FieldsOK, Next, Ready, Rests
        PROVE  /\ Stale' \subseteq Stale
               /\ cursor' # cursor \/ samples' # samples => cursor \notin Stale' /\ cursor' = NextCursor
    <2>1. ASSUME NEW pool \in Pools, AdvanceCrawl(pool)
          PROVE  Stale' \subseteq Stale /\ cursor \notin Stale' /\ cursor' = NextCursor
      BY <1>1, <2>1, StoreFreshens DEF AdvanceCrawl, VenueAccepted, Rests
    <2>2. ASSUME HookSample
          PROVE  Stale' \subseteq Stale /\ cursor \notin Stale' /\ cursor' = NextCursor
      <3>1. Listed(cursor, box) /\ Store(box)
        BY <1>1, <2>2 DEF HookSample, HookSucceeds, Ready
      <3> QED BY <1>1, <3>1, StoreFreshens DEF Rests
    <2>3. ASSUME UNCHANGED <<cursor, samples>>
          PROVE  Stale' \subseteq Stale
      BY <1>1, <2>3 DEF Stale, Spot, Rests
    <2> QED
      BY <1>1, <2>1, <2>2, <2>3
         DEF Next, SetCrawlEntry, MigratePriceCrawl, InitLookupTable, ExtendLookupTable,
             VenueMoves, account
  <1>2. FieldsOK /\ [Next]_vars =>
          [Ready /\ Rests =>
            /\ Stale' \subseteq Stale
            /\ cursor' # cursor \/ samples' # samples => cursor \notin Stale' /\ cursor' = NextCursor]_vars
    BY <1>1
  <1> QED BY <1>2, SpecFields, PTL DEF Spec, SamplesFreshen

THEOREM FreshIsFollowed == Spec => []FreshIsMedian
  <1>1. FieldsOK /\ AggregateIsMedian => FreshIsMedian
    <2> SUFFICES ASSUME FieldsOK, AggregateIsMedian, pass > 0 \/ cursor > 0, Stale = {}
                 PROVE  agg = MedianWad([slot \in Slots |-> Spot(lut[slot + 1])])
      BY DEF FreshIsMedian
    <2>1. samples = [slot \in Slots |-> Spot(lut[slot + 1])]
      BY DEF FieldsOK, Stale
    <2> QED BY <2>1 DEF AggregateIsMedian
  <1> QED BY <1>1, SpecFields, MedianStored, PTL

THEOREM CrankGoesThrough == Spec => []ReadyTakesSample
  <1>1. FieldsOK => ReadyTakesSample
    <2> SUFFICES ASSUME FieldsOK, Ready, lut[cursor + 1] \notin Foreign \ PumpPools
                 PROVE  /\ VenueAccepted(lut[cursor + 1]) /\ ~Thin(lut[cursor + 1])
                        /\ NextCursor + 1 <= Len(lut)
      BY DEF ReadyTakesSample
    <2>1. cursor \in Slots /\ NextCursor \in Slots
      BY CursorMoves DEF FieldsOK
    <2>2. Len(lut) = NumEntries /\ NumEntries \in Nat
      BY CrawlAssumption DEF Ready
    <2>3. \A slot \in Slots : slot + 1 <= Len(lut)
      BY <2>2, SMT DEF Slots
    <2>4. box \in {NoPool, lut[cursor + 1]}
      BY DEF Ready, Listed
    <2> QED BY <2>1, <2>3, <2>4 DEF VenueAccepted, Listed, Ready
  <1> QED BY <1>1, SpecFields, PTL

(* Where tables list a pool once, vaults are boxed in a pair of one slot   *)
(* only, whatever tables replace each other.                               *)
BoxOfOneSlot == box # NoPool => NumEntries = 1

LEMMA SpecBoxOfOneSlot ==
    ASSUME \A t \in Tables : ListsOnce(t)
    PROVE  Spec => [](FieldsOK /\ ListsOnce(lut) /\ BoxOfOneSlot)
  <1>1. Init => ListsOnce(lut) /\ BoxOfOneSlot
    <2>1. ListsOnce(<<>>)
      BY SMT DEF ListsOnce
    <2> QED BY <2>1 DEF Init, BoxOfOneSlot
  <1>2. ASSUME FieldsOK, ListsOnce(lut), BoxOfOneSlot, [Next]_vars
        PROVE  ListsOnce(lut)' /\ BoxOfOneSlot'
    <2>1. ListsOnce(lut)'
      <3>1. ASSUME NEW pool \in Pools, ExtendLookupTable(pool)
            PROVE  ListsOnce(lut')
        BY <1>2, <3>1, ExtensionListsOnce
      <3>2. ListsOnce(<<>>)
        BY SMT DEF ListsOnce
      <3>3. lut' = <<>> \/ lut' = lut \/ \E pool \in Pools : ExtendLookupTable(pool)
        BY <1>2 DEF Next, AdvanceCrawl, HookSample, SetCrawlEntry, MigratePriceCrawl,
                    InitLookupTable, VenueMoves, table, vars
      <3>4. ListsOnce(lut')
        BY <1>2, <3>1, <3>2, <3>3
      <3> QED BY <3>4 DEF ListsOnce
    <2>2. ASSUME NEW pool \in Pools, AdvanceCrawl(pool)
          PROVE  BoxOfOneSlot'
      <3> SUFFICES ASSUME box' # NoPool
                   PROVE  NumEntries = 1
        BY DEF BoxOfOneSlot
      <3>1. Listed(NextCursor, pool) /\ Listed(cursor, pool)
        BY <2>2 DEF AdvanceCrawl, SeedBox, VenueAccepted
      <3>2. cursor \in Nat /\ NextCursor \in Nat /\ Len(lut) \in Nat
        BY <1>2, CursorMoves, CrawlAssumption, SMT DEF Slots, FieldsOK
      <3>3. cursor + 1 \in 1..Len(lut) /\ NextCursor + 1 \in 1..Len(lut)
        BY <3>1, <3>2, SMT DEF Listed
      <3>4. cursor + 1 = NextCursor + 1
        BY <1>2, <3>1, <3>3 DEF Listed, ListsOnce
      <3>5. NextCursor = cursor
        BY <3>2, <3>4, SMT
      <3> QED BY <1>2, <3>5, CursorMoves DEF FieldsOK
    <2>3. ASSUME box' \in {box, NoPool}
          PROVE  BoxOfOneSlot'
      BY <1>2, <2>3 DEF BoxOfOneSlot
    <2>4. BoxOfOneSlot'
      BY <1>2, <2>2, <2>3
         DEF Next, HookSample, SetCrawlEntry, MigratePriceCrawl, InitLookupTable,
             ExtendLookupTable, VenueMoves, account, vars
    <2> QED BY <2>1, <2>4
  <1> QED BY <1>1, <1>2, SpecFields, PTL DEF Spec

THEOREM ReadyStays ==
    ASSUME \A t \in Tables : ListsOnce(t)
    PROVE  Spec => SamplingKeepsReady
  <1>1. ASSUME FieldsOK, BoxOfOneSlot, Next, Ready, Rests
        PROVE  Ready'
    <2>1. fullSize'
      BY <1>1 DEF Next, AdvanceCrawl, HookSample, SetCrawlEntry, MigratePriceCrawl,
                  InitLookupTable, ExtendLookupTable, VenueMoves, Ready
    <2>2. /\ Len(lut') = NumEntries
          /\ \A slot \in Slots : layouts'[slot] = Tag(lut[slot + 1]) /\ ~Thin(lut[slot + 1])'
      BY <1>1 DEF Ready, Rests, Thin
    <2>3. ASSUME NEW pool \in Pools, AdvanceCrawl(pool)
          PROVE  box' = NoPool \/ Listed(cursor, box)'
      BY <1>1, <2>3 DEF AdvanceCrawl, SeedBox, Store, Listed, Rests
    <2>4. ASSUME HookSample
          PROVE  Listed(cursor, box)'
      <3>1. box # NoPool /\ box' = box /\ cursor' = NextCursor
        BY <2>4 DEF HookSample, HookSucceeds, Store
      <3>2. cursor' = cursor
        BY <1>1, <3>1, CursorMoves DEF BoxOfOneSlot, FieldsOK
      <3> QED BY <1>1, <3>1, <3>2 DEF Ready, Listed, Rests
    <2>5. ASSUME UNCHANGED <<box, cursor>>
          PROVE  box' = NoPool \/ Listed(cursor, box)'
      BY <1>1, <2>5 DEF Ready, Listed, Rests
    <2>6. box' = NoPool \/ Listed(cursor, box)'
      BY <1>1, <2>3, <2>4, <2>5
         DEF Next, SetCrawlEntry, MigratePriceCrawl, InitLookupTable,
             ExtendLookupTable, VenueMoves, account
    <2>7. lut' = lut
      BY <1>1 DEF Rests
    <2> QED BY <2>1, <2>2, <2>6, <2>7 DEF Ready
  <1>2. FieldsOK /\ BoxOfOneSlot /\ [Next]_vars => [Ready /\ Rests => Ready']_vars
    BY <1>1
  <1> QED BY <1>2, SpecBoxOfOneSlot, PTL DEF Spec, SamplingKeepsReady

-----------------------------------------------------------------------------
(* The median the crate computes, of any number of samples of any size, is *)
(* the middle one of those that are not zero in order, or the average of   *)
(* the two in the middle rounded down once: an unread venue has no vote,   *)
(* and the two halves lose nothing.                                        *)
THEOREM MedianExact == calc \in MedianCalcs => MedianIsExact
  <1> SUFFICES ASSUME calc \in MedianCalcs
               PROVE  MedianWad(calc.samples) = SortedMedian(calc.samples)
    BY DEF MedianIsExact
  <1> DEFINE f == calc.samples
             D == 1..Voters
             n == Cardinality(Priced(f))
  <1>1. f \in [D -> Nat] /\ D \in SUBSET Nat /\ IsFiniteSet(D)
    <2>1. f \in [1..Voters -> Readings]
      BY DEF MedianCalcs
    <2>2. Voters \in Nat /\ Readings \in SUBSET Nat
      BY MedianCheckAssumption
    <2>3. IsFiniteSet(1..Voters)
      BY <2>2, FS_Interval
    <2>4. D \in SUBSET Nat
      BY <2>2
    <2> HIDE DEF f, D
    <2>5. f \in [D -> Nat]
      BY <2>1, <2>2 DEF D
    <2> QED BY <2>3, <2>4, <2>5 DEF D
  <1> HIDE DEF f, D
  <1>2. Sampled(f) = Priced(f)
    <2>1. \A i \in DOMAIN f : f[i] > 0 <=> f[i] # 0
      <3>1. \A i \in DOMAIN f : f[i] \in Nat
        BY <1>1
      <3> QED BY <3>1
    <2> QED BY <2>1 DEF Sampled, Priced
  <1>3. \A p : p \in Sortings(f) <=> Sorts(p, f)
    <2>1. \A p \in Bijection(1..n, Priced(f)) : DOMAIN p = 1..n
      BY DEF Bijection, Injection
    <2> QED BY <1>2, <2>1 DEF Sortings, Sorts
  <1>4. \E p : p \in Sortings(f)
    BY <1>1, <1>3, SortingExists
  <1> DEFINE p == CHOOSE p \in Sortings(f) : TRUE
  <1>5. p \in Sortings(f)
    BY <1>4
  <1>6. SortedMedian(f) =
            IF n = 0 THEN 0
            ELSE IF n % 2 = 1 THEN f[p[(n + 1) \div 2]]
            ELSE (f[p[n \div 2]] + f[p[n \div 2 + 1]]) \div 2
    BY DEF SortedMedian
  <1> HIDE DEF p
  <1>7. Sorts(p, f)
    BY <1>3, <1>5
  <1>8. MedianWad(f) = SortedMedian(f)
    BY <1>1, <1>2, <1>6, <1>7, MedianOfSorted
  <1> QED BY <1>8 DEF f
=============================================================================
