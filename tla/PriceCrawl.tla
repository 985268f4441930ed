------------------------------ MODULE PriceCrawl ------------------------------
(***************************************************************************)
(* The price_crawl account of a pair: a rotating index over venues.  The   *)
(* pair's lookup table names the pool of each slot.  advance_crawl, open   *)
(* to anyone, samples the pool of the cursor's slot, moves the cursor and  *)
(* seeds the "box" with the pool's vaults; the transfer hook samples the   *)
(* vaults in the box, for Token-2022 resolves them from there.  Either     *)
(* stores the median of the samples as the aggregate.                      *)
(*                                                                         *)
(* Slots count from 0 as in the code, tables from 1.  A vault pair and the *)
(* pool it belongs to stand for each other.  What the hook does with the   *)
(* aggregate is module Rebalance.                                          *)
(***************************************************************************)
EXTENDS LeverageMath, Sequences

CONSTANTS
    NumEntries,     \* num_entries
    Pools,          \* venues
    PumpPools,      \* those of PumpSwap; the others are CP-Swap's
    Foreign,        \* those that do not trade the pair's A for its quote
    Tables,         \* lookup tables the admin fills, in their final form
    MaxTables,      \* bound on the tables created
    InitLayouts,    \* layout tags the account may be created with
    Reserves,       \* [base, quote] reserves a venue may have
    MinBaseReserve,
    InitAggregate,
    Migrated        \* FALSE: the account has the legacy size at first

Slots == 0..(NumEntries - 1)
NoPool == "none"
Venues == {"cpswap", "pumpswap"}

ASSUME CrawlAssumption ==
    /\ NumEntries \in Nat \ {0}
    /\ NoPool \notin Pools /\ PumpPools \subseteq Pools /\ Foreign \subseteq Pools
    /\ Tables \subseteq Seq(Pools) /\ MaxTables \in Nat
    /\ InitLayouts \subseteq Venues \cup {"none"}
    /\ Reserves \subseteq [base : Nat, quote : Nat] /\ Reserves # {}
    /\ MinBaseReserve \in Nat \ {0}
    /\ InitAggregate \in Nat
    /\ Migrated \in BOOLEAN

VARIABLES
    cursor, pass, layouts, samples, agg,    \* fields of the account
    box,        \* pool whose vaults are boxed, NoPool for zeroes
    fullSize,   \* the account has its present size
    lut,        \* the pair's lookup table
    tables,     \* tables created so far
    venue,      \* pool -> its reserves
    source      \* history: slot -> the pool last sampled into it

account == <<cursor, pass, layouts, samples, agg, box>>
table == <<lut, tables>>
vars == <<cursor, pass, layouts, samples, agg, box, fullSize, lut, tables, venue, source>>

TypeOK ==
    /\ cursor \in Slots
    /\ pass \in 0..U64Max
    /\ layouts \in [Slots -> Venues \cup {"none"}]
    /\ samples \in [Slots -> Nat]
    /\ agg \in Nat
    /\ box \in Pools \cup {NoPool}
    /\ fullSize \in BOOLEAN
    /\ lut \in Seq(Pools)
    /\ tables \in 0..MaxTables
    /\ venue \in [Pools -> Reserves]
    /\ source \in [Slots -> Pools \cup {NoPool}]

Init ==
    /\ cursor = 0 /\ pass = 0
    /\ layouts \in [Slots -> InitLayouts]
    /\ samples = [i \in Slots |-> 0]
    /\ agg = InitAggregate
    /\ box = NoPool
    /\ fullSize = Migrated
    /\ lut = <<>> /\ tables = 0
    /\ venue \in [Pools -> Reserves]
    /\ source = [i \in Slots |-> NoPool]

-----------------------------------------------------------------------------
(* Sampling. *)

Spot(pool) == Price(venue[pool].base, venue[pool].quote)

Thin(pool) == venue[pool].base < MinBaseReserve

(* Mutant: the median is taken before the sample is stored. *)
AggregateBefore(price) == MedianWad(samples)

NewAggregate(price) == MedianWad([samples EXCEPT ![cursor] = price])

(* Mutant: the last slot is never left. *)
NextCursorStuck == Lesser(cursor + 1, NumEntries - 1)

NextCursor == (cursor + 1) % NumEntries

PassAfter(next) == IF next = 0 THEN Lesser(pass + 1, U64Max) ELSE pass

(* Store a sample of the pool in the cursor's slot and move on. *)
Store(pool) ==
    /\ samples' = [samples EXCEPT ![cursor] = Spot(pool)]
    /\ source' = [source EXCEPT ![cursor] = pool]
    /\ agg' = NewAggregate(Spot(pool))
    /\ cursor' = NextCursor
    /\ pass' = PassAfter(NextCursor)

(* The table has an entry for a slot, and it is the pool. *)
Listed(slot, pool) == slot + 1 <= Len(lut) /\ lut[slot + 1] = pool

Tag(pool) == IF pool \in PumpPools THEN "pumpswap" ELSE "cpswap"

(* The pool is the one of the cursor's slot, tagged as what it is, and no  *)
(* other pool's vaults are boxed.  Only of a CP-Swap pool are the mints    *)
(* looked at.                                                              *)
VenueAccepted(pool) ==
    /\ fullSize
    /\ box \in {NoPool, pool}
    /\ Listed(cursor, pool)
    /\ layouts[cursor] = Tag(pool)
    /\ pool \notin Foreign \ PumpPools

(* Mutant: the box keeps the vaults of the pool just sampled. *)
SeedBoxAlways(pool) == box' = pool

(* The box is for the next slot: kept if that is the same pool's. *)
SeedBox(pool) == box' = IF Listed(NextCursor, pool) THEN pool ELSE NoPool

(* advance_crawl.  A thin pool is not an error, and nothing is stored.     *)
(* The next slot must be in the table too.                                 *)
AdvanceCrawl(pool) ==
    /\ VenueAccepted(pool)
    /\ ~Thin(pool)
    /\ NextCursor + 1 <= Len(lut)
    /\ Store(pool)
    /\ SeedBox(pool)
    /\ UNCHANGED <<layouts, fullSize, table, venue>>

(* The hook's sampling succeeds, though it may store nothing.  An empty    *)
(* box resolves to an account that is no token account.                    *)
HookSucceeds ==
    /\ fullSize
    /\ layouts[cursor] # "none"
    /\ box \notin Foreign \cup {NoPool}

(* crawl_sample_reserves: the boxed vaults, whatever slot it is. *)
HookSample ==
    /\ HookSucceeds
    /\ ~Thin(box)
    /\ Store(box)
    /\ UNCHANGED <<box, layouts, fullSize, table, venue>>

-----------------------------------------------------------------------------
(* The admin. *)

SetCrawlEntry(slot, layout) ==
    /\ fullSize
    /\ layouts' = [layouts EXCEPT ![slot] = layout]
    /\ UNCHANGED <<cursor, pass, samples, agg, box, fullSize, table, venue, source>>

(* The legacy account grows, with an empty box. *)
MigratePriceCrawl ==
    /\ ~fullSize
    /\ fullSize' = TRUE
    /\ box' = NoPool
    /\ UNCHANGED <<cursor, pass, layouts, samples, agg, table, venue, source>>

(* A new table replaces the pair's; the account is not told. *)
InitLookupTable ==
    /\ tables < MaxTables
    /\ tables' = tables + 1
    /\ lut' = <<>>
    /\ UNCHANGED <<account, fullSize, venue, source>>

ExtendLookupTable(pool) ==
    /\ tables > 0
    /\ \E whole \in Tables :
            /\ Len(lut) < Len(whole)
            /\ lut = SubSeq(whole, 1, Len(lut))
            /\ pool = whole[Len(lut) + 1]
    /\ lut' = Append(lut, pool)
    /\ UNCHANGED <<account, fullSize, tables, venue, source>>

(* Traders move the reserves of a venue. *)
VenueMoves(pool, reserves) ==
    /\ venue' = [venue EXCEPT ![pool] = reserves]
    /\ UNCHANGED <<account, fullSize, table, source>>

Next ==
    \/ \E pool \in Pools : AdvanceCrawl(pool)
    \/ HookSample
    \/ \E slot \in Slots, layout \in Venues : SetCrawlEntry(slot, layout)
    \/ MigratePriceCrawl
    \/ InitLookupTable
    \/ \E pool \in Pools : ExtendLookupTable(pool)
    \/ \E pool \in Pools, reserves \in Reserves : VenueMoves(pool, reserves)

Spec == Init /\ [][Next]_vars

(* Anyone may crank, and somebody keeps cranking. *)
FairSpec == Spec /\ WF_vars(\E pool \in Pools : AdvanceCrawl(pool))

-----------------------------------------------------------------------------
(* Properties. *)

(* Once anything was sampled, the aggregate is the median of what the      *)
(* slots hold now, whichever path stored the last sample.                  *)
AggregateIsMedian == pass > 0 \/ cursor > 0 => agg = MedianWad(samples)

(* The table lists the pool in two slots, one after the other round the    *)
(* table: then advance_crawl leaves its vaults in the box.                 *)
Neighbours(pool) ==
    \E slot \in Slots : Listed(slot, pool) /\ Listed((slot + 1) % NumEntries, pool)

(* Until the table is replaced, a venue has the votes of the slots the     *)
(* table gives it and of no others, unless the table lists it in two       *)
(* neighbouring slots: the hook goes on sampling the boxed vaults past     *)
(* those, into slots of other pools.                                       *)
SampleOfItsSlot ==
    tables <= 1 =>
        \A slot \in Slots : source[slot] # NoPool =>
            Listed(slot, source[slot]) \/ Neighbours(source[slot])

(* Once advance_crawl has run, the hook succeeds, whatever the reserves    *)
(* do: a receipt can be transferred.                                       *)
SeededHookWorks == pass > 0 \/ cursor > 0 => HookSucceeds

(* The table is complete, the tags say what the pools are, none is thin,   *)
(* and no vaults are boxed but those of the slot's own pool.               *)
Ready ==
    /\ fullSize
    /\ Len(lut) = NumEntries
    /\ box = NoPool \/ Listed(cursor, box)
    /\ \A slot \in Slots : layouts[slot] = Tag(lut[slot + 1]) /\ ~Thin(lut[slot + 1])

(* Also after the admin replaced the table: a slot is sampled from the     *)
(* pool the table now names for it.                                        *)
SlotFollowsTable ==
    \A slot \in Slots, pool \in Pools :
        Ready /\ Listed(slot, pool)
            ~> source[slot] = pool \/ ~Ready \/ ~Listed(slot, pool)

(* When the reserves come to rest, the aggregate becomes the median of the *)
(* venues' prices: no stale sample stays in it.                            *)
AggregateFollows ==
    <>[]Ready /\ <>[][UNCHANGED venue]_vars
        => <>[](agg = MedianWad([slot \in Slots |->
                    IF slot < Len(lut) THEN Spot(lut[slot + 1]) ELSE 0]))
=============================================================================
