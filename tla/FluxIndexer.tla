------------------------------ MODULE FluxIndexer ------------------------------
(***************************************************************************)
(* The pool index of the flux router service: one Node process whose       *)
(* handlers interleave at their awaits.  A scan pages through all pools,   *)
(* refreshes read the vaults of a list of pools chunk by chunk and write   *)
(* the reserves at the end; several refreshes run at a time.  A cache file *)
(* survives a restart, reserves do not.                                    *)
(*                                                                         *)
(* Amounts are abstracted to versions: the chain's version of a pool grows *)
(* with every swap, which moves both vaults at once, and 0 is "nothing     *)
(* read".  The order of this.pools matters to no property, and is that of  *)
(* InOrder.  What a hook mint's scan finds is only shown, and left out.    *)
(***************************************************************************)
EXTENDS Naturals, Sequences, FiniteSets

CONSTANTS
    AllPools,       \* the pools of the program, in the order of its pages
    Hooked,         \* pools of a mint with a transfer hook
    Seeds,          \* SEED_POOLS
    Warm,           \* pools with a leg in SOL or USDC
    Chunk,          \* RESERVE_CHUNK
    PageSize,       \* gpaPage
    SaveEvery,      \* pages between two saves of a scan
    Traded,         \* bound: the pools that trade
    MaxVersion,     \* bound on the swaps of a pool
    MaxErrors,      \* bound on the RPC's failures and omissions
    MaxRestarts     \* bound on the restarts nobody asked for

Pools == {AllPools[i] : i \in 1..Len(AllPools)}
Hot == Hooked \cup Seeds

ASSUME IndexAssumption ==
    /\ AllPools \in Seq(Pools) /\ \A i, j \in 1..Len(AllPools) : AllPools[i] = AllPools[j] => i = j
    /\ Hooked \subseteq Pools /\ Seeds \subseteq Pools /\ Warm \subseteq Pools
    /\ Traded \subseteq Pools
    /\ Hooked \cup Seeds # {}
    /\ Chunk \in Nat \ {0} /\ PageSize \in Nat \ {0} /\ SaveEvery \in Nat \ {0}
    /\ MaxVersion \in Nat \ {0} /\ MaxErrors \in Nat /\ MaxRestarts \in Nat

VARIABLES
    chain,          \* pool -> version of its reserves on chain
    pools,          \* this.pools
    reserve,        \* pool -> versions of its two vaults in the index
    bootstrapped,
    booting,        \* bootstrapFast waits for the pools it asked for
    gpaBusy, gpaFull,
    page,           \* pages merged by the scan; it is over when there are none left
    reserveBusy,
    jobs,           \* refreshes under way
    cache,          \* the pools in the cache file
    errors, restarts

memory == <<pools, reserve, bootstrapped, booting, gpaBusy, gpaFull, page,
            reserveBusy, jobs>>
bounds == <<errors, restarts>>
vars == <<chain, pools, reserve, bootstrapped, booting, gpaBusy, gpaFull, page,
          reserveBusy, jobs, cache, errors, restarts>>

Empty == [a |-> 0, b |-> 0]
Versions == 0..MaxVersion

(* Who started a refresh.  Only "full" has no target: its list is the live *)
(* array this.pools.                                                       *)
Origins == {"full", "page", "bootstrap", "priority", "warm", "request", "requestBoot"}
Jobs == [by : Origins, list : Seq(Pools), got : Seq(Versions)]

TypeOK ==
    /\ chain \in [Pools -> 1..MaxVersion]
    /\ pools \in SUBSET Pools
    /\ reserve \in [Pools -> [a : Versions, b : Versions]]
    /\ bootstrapped \in BOOLEAN /\ booting \in BOOLEAN
    /\ gpaBusy \in BOOLEAN /\ gpaFull \in BOOLEAN
    /\ page \in Nat
    /\ reserveBusy \in BOOLEAN
    /\ jobs \in SUBSET Jobs
    /\ cache \in SUBSET Pools
    /\ errors \in 0..MaxErrors /\ restarts \in 0..MaxRestarts

-----------------------------------------------------------------------------
(* Refreshes. *)

InOrder(list) ==
    CHOOSE s \in [1..Cardinality(list) -> list] :
        \A p \in list : \E i \in 1..Cardinality(list) : s[i] = p

NewJob(by, list) == [by |-> by, list |-> InOrder(list), got |-> <<>>]

(* A refresh of no pools returns at once. *)
Started(by, list) == IF list = {} THEN {} ELSE {NewJob(by, list)}

(* The pool of the k-th vault a refresh reads. *)
PoolOfVault(list, k) == list[(k + 1) \div 2]

AllRead(job) == Len(job.got) = 2 * Len(job.list)

(* Mutant: a chunk may end between the two vaults of a pool. *)
ChunkSizeOdd(job) == 1

(* Vaults read by the next call of a refresh. *)
ChunkSize(job) ==
    IF Len(job.got) + Chunk <= 2 * Len(job.list) THEN Chunk
    ELSE 2 * Len(job.list) - Len(job.got)

(* The vaults one getMultipleAccounts returns, all of one slot; gone is    *)
(* the one that the answer omits, if any.                                  *)
ChunkOf(job, gone) ==
    [k \in 1..ChunkSize(job) |->
        IF Len(job.got) + k = gone THEN 0
        ELSE chain[PoolOfVault(job.list, Len(job.got) + k)]]

ReadChunk(job) ==
    /\ job \in jobs
    /\ ~AllRead(job)
    /\ \E gone \in {0} \cup (IF errors < MaxErrors THEN 1..(2 * Len(job.list)) ELSE {}) :
        /\ gone # 0 => gone > Len(job.got) /\ gone <= Len(job.got) + Chunk
        /\ jobs' = (jobs \ {job})
                    \cup {[job EXCEPT !.got = @ \o ChunkOf(job, gone)]}
        /\ errors' = IF gone = 0 THEN errors ELSE errors + 1
    /\ UNCHANGED <<chain, pools, reserve, bootstrapped, booting, gpaBusy, gpaFull,
                   page, reserveBusy, cache, restarts>>

(* What was read of a pool. *)
Place(job, p) == CHOOSE i \in 1..Len(job.list) : job.list[i] = p

Listed(job) == {job.list[i] : i \in 1..Len(job.list)}

ReadOf(job, p) ==
    [a |-> job.got[2 * Place(job, p) - 1], b |-> job.got[2 * Place(job, p)]]

(* The reserves after the write.  A full refresh walks this.pools as it is *)
(* by now: the pools merged since it began get nothing.                    *)
Written(job) ==
    [p \in Pools |->
        IF p \in Listed(job) THEN ReadOf(job, p)
        ELSE IF job.by = "full" /\ p \in pools THEN Empty
        ELSE reserve[p]]

(* Mutant: the flag is not cleared when a refresh fails. *)
BusyAfterStuck(job) == reserveBusy

(* finally. *)
BusyAfter(job) == IF job.by = "full" THEN FALSE ELSE reserveBusy

-----------------------------------------------------------------------------
(* The scan and the cache. *)

Scanned == page * PageSize

(* The pools of the next page, and those of them that are new. *)
PageOf == {AllPools[i] : i \in {k \in 1..Len(AllPools) :
                                    Scanned < k /\ k <= Scanned + PageSize}}

Fresh == PageOf \ pools

(* A cache of no pools is not written. *)
Saved(list) == IF list = {} THEN cache ELSE list

(* _refreshGpaBackground, on its timer. *)
StartScan ==
    /\ ~gpaBusy /\ gpaBusy' = TRUE
    /\ gpaFull' = FALSE
    /\ page' = 0
    /\ UNCHANGED <<chain, pools, reserve, bootstrapped, booting, reserveBusy, jobs,
                   cache, bounds>>

(* A page arrived: its new pools are merged, with nothing read, and        *)
(* refreshed in the background.                                            *)
MergePage ==
    /\ gpaBusy /\ Scanned < Len(AllPools)
    /\ pools' = pools \cup Fresh
    /\ page' = page + 1
    /\ jobs' = jobs \cup Started("page", Fresh)
    /\ cache' = IF Fresh # {} /\ (page + 1) % SaveEvery = 0 THEN Saved(pools') ELSE cache
    /\ UNCHANGED <<chain, reserve, bootstrapped, booting, gpaBusy, gpaFull, reserveBusy,
                   bounds>>

(* Mutant: the scan is over after its first page. *)
LastPageEarly == Scanned > 0

LastPage == Scanned >= Len(AllPools)

(* The scan ends when there are no more pages or one could not be had.     *)
FinishScan ==
    /\ gpaBusy
    /\ \/ LastPage /\ UNCHANGED errors
       \/ ~LastPage /\ errors < MaxErrors /\ errors' = errors + 1
    /\ gpaBusy' = FALSE
    /\ gpaFull' = TRUE
    /\ cache' = Saved(pools)
    /\ UNCHANGED <<chain, pools, reserve, bootstrapped, booting, page, reserveBusy, jobs,
                   restarts>>

-----------------------------------------------------------------------------
(* Start-up. *)

(* The timer's refresh of everything, also started by a request that finds *)
(* the last one old.                                                       *)
StartFull ==
    /\ ~reserveBusy /\ pools # {}
    /\ reserveBusy' = TRUE
    /\ jobs' = jobs \cup {NewJob("full", pools)}
    /\ UNCHANGED <<chain, pools, reserve, bootstrapped, booting, gpaBusy, gpaFull,
                   page, cache, bounds>>

(* bootstrapFast got the hot pools. *)
Bootstrap ==
    /\ booting /\ booting' = FALSE
    /\ pools' = pools \cup Hot
    /\ bootstrapped' = TRUE
    /\ jobs' = jobs \cup Started("bootstrap", Hot)
    /\ UNCHANGED <<chain, reserve, gpaBusy, gpaFull, page, reserveBusy, cache, bounds>>

BootstrapFails ==
    /\ booting /\ booting' = FALSE
    /\ errors < MaxErrors /\ errors' = errors + 1
    /\ UNCHANGED <<chain, pools, reserve, bootstrapped, gpaBusy, gpaFull, page,
                   reserveBusy, jobs, cache, restarts>>

(* What start-up does once its refresh is through: the warm pools, if they *)
(* came from the cache, and the first scan.                                *)
AfterStartup(job) ==
    IF job.by \in {"bootstrap", "priority"} /\ ~gpaBusy
    THEN gpaBusy' = TRUE /\ gpaFull' = FALSE /\ page' = 0
    ELSE UNCHANGED <<gpaBusy, gpaFull, page>>

(* A refresh writes what it read. *)
Write(job) ==
    /\ job \in jobs /\ AllRead(job)
    /\ reserve' = Written(job)
    /\ jobs' = (jobs \ {job})
                \cup (IF job.by = "priority" THEN Started("warm", pools \cap Warm) ELSE {})
    /\ reserveBusy' = BusyAfter(job)
    /\ AfterStartup(job)
    /\ UNCHANGED <<chain, pools, bootstrapped, booting, cache, bounds>>

(* A call of it fails: nothing is written, and start-up goes no further.   *)
Fail(job) ==
    /\ job \in jobs
    /\ errors < MaxErrors /\ errors' = errors + 1
    /\ jobs' = jobs \ {job}
    /\ reserveBusy' = BusyAfter(job)
    /\ UNCHANGED <<chain, pools, reserve, bootstrapped, booting, gpaBusy, gpaFull,
                   page, cache, restarts>>

(* The process starts: from the cache file if there is one. *)
Start(saved) ==
    /\ cache' = saved
    /\ pools' = saved
    /\ reserve' = [p \in Pools |-> Empty]
    /\ bootstrapped' = (saved # {})
    /\ booting' = (saved = {})
    /\ gpaBusy' = (saved # {} /\ saved \cap Hot = {})
    /\ gpaFull' = FALSE /\ page' = 0 /\ reserveBusy' = FALSE
    /\ jobs' = IF saved \cap Hot # {} THEN Started("priority", saved \cap Hot)
               ELSE Started("warm", saved \cap Warm)

(* It is restarted, perhaps in the middle of writing the file. *)
Restart ==
    /\ restarts < MaxRestarts /\ restarts' = restarts + 1
    /\ \E saved \in {cache} \cup (IF gpaBusy THEN {{}} ELSE {}) : Start(saved)
    /\ UNCHANGED <<chain, errors>>

(* A swap moves both vaults of a pool. *)
Swap(p) ==
    /\ p \in Traded /\ chain[p] < MaxVersion
    /\ chain' = [chain EXCEPT ![p] = @ + 1]
    /\ UNCHANGED <<memory, cache, bounds>>

IndexInit ==
    /\ chain = [p \in Pools |-> 1]
    /\ pools = {} /\ reserve = [p \in Pools |-> Empty]
    /\ bootstrapped = FALSE /\ booting = TRUE
    /\ gpaBusy = FALSE /\ gpaFull = FALSE /\ page = 0
    /\ reserveBusy = FALSE /\ jobs = {}
    /\ cache = {}
    /\ errors = 0 /\ restarts = 0

Own(job) == job.by \notin {"request", "requestBoot"}

IndexNext ==
    \/ StartScan \/ MergePage \/ FinishScan
    \/ StartFull \/ Bootstrap \/ BootstrapFails
    \/ \E job \in jobs : ReadChunk(job)
    \/ \E job \in {j \in jobs : Own(j)} : Write(job) \/ Fail(job)
    \/ Restart
    \/ \E p \in Pools : Swap(p)

IndexSpec == IndexInit /\ [][IndexNext]_vars

(* The timers go off, and every call is answered or fails. *)
IndexFairness ==
    /\ WF_vars(StartScan) /\ WF_vars(MergePage) /\ WF_vars(FinishScan)
    /\ WF_vars(StartFull)
    /\ WF_vars(Bootstrap \/ BootstrapFails)
    /\ \A by \in Origins :
        /\ WF_vars(\E job \in jobs : job.by = by /\ ReadChunk(job))
        /\ WF_vars(\E job \in jobs : job.by = by /\ Own(job) /\ Write(job))

FairIndexSpec == IndexSpec /\ IndexFairness

-----------------------------------------------------------------------------
(* Properties. *)

(* A pool's two reserves come from one slot, although its vaults are read  *)
(* in chunks while the pool trades, unless one of them was not returned:   *)
(* a quote on vaults of two slots would be off by a whole swap.            *)
ReservesOfOneSlot ==
    \A p \in Pools :
        reserve[p].a = reserve[p].b \/ reserve[p].a = 0 \/ reserve[p].b = 0

(* Where no call failed, a scan that says it was full has found every      *)
(* pool.  After a failed page it says so too.                              *)
FullScanIsFull == gpaFull /\ errors = 0 => pools = Pools

(* When trades, failures and restarts are over, the index has every pool   *)
(* with its present reserves, whatever was lost or overwritten by an older *)
(* refresh before.                                                         *)
IndexCatchesUp ==
    <>[](\A p \in Pools :
            /\ p \in pools
            /\ reserve[p] = [a |-> chain[p], b |-> chain[p]])
=============================================================================
