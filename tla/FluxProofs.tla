----------------------------- MODULE FluxProofs -----------------------------
(***************************************************************************)
(* What the flux router service promises for any number of pools, pages    *)
(* and refreshes: reserves of a pool come from one slot as long as a chunk *)
(* holds whole pools, and a transaction is built on reserves no older than *)
(* its request; left alone, the index loses what was stale in it.  And of  *)
(* its quotes, for any reserves and amounts: no route gives more than the  *)
(* one it finds, and a profit it quotes is real.                           *)
(***************************************************************************)
EXTENDS FluxRouter, QuoteCheck, LeverageProofs, SequenceTheorems

-----------------------------------------------------------------------------
(* Lists of pools. *)

LEMMA PoolsFinite == IsFiniteSet(Pools)
  <1>1. Len(AllPools) \in Nat /\ AllPools \in [1..Len(AllPools) -> Pools]
    BY IndexAssumption
  <1>2. AllPools \in Surjection(1..Len(AllPools), Pools)
    BY <1>1 DEF Surjection, Pools
  <1>3. IsFiniteSet(1..Len(AllPools))
    BY <1>1, FS_Interval
  <1> QED BY <1>2, <1>3, FS_Surjection

(* A set of pools can be put in order. *)
LEMMA InOrderOK ==
    ASSUME NEW S \in SUBSET Pools
    PROVE  /\ InOrder(S) \in Seq(Pools)
           /\ {InOrder(S)[i] : i \in 1..Len(InOrder(S))} = S
  <1> DEFINE n == Cardinality(S)
  <1>1. IsFiniteSet(S)
    BY PoolsFinite, FS_Subset
  <1>2. n \in Nat /\ ExistsBijection(1..n, S)
    BY <1>1, FS_CardinalityType
  <1>3. PICK f \in Bijection(1..n, S) : TRUE
    BY <1>2 DEF ExistsBijection
  <1>4. f \in [1..n -> S] /\ \A p \in S : \E i \in 1..n : f[i] = p
    BY <1>3 DEF Bijection, Injection, Surjection
  <1>5. InOrder(S) \in [1..n -> S] /\ \A p \in S : \E i \in 1..n : InOrder(S)[i] = p
    BY <1>4 DEF InOrder
  <1>6. InOrder(S) \in Seq(Pools) /\ Len(InOrder(S)) = n
    BY <1>2, <1>5
  <1>7. {InOrder(S)[i] : i \in 1..n} = S
    BY <1>5
  <1> QED BY <1>6, <1>7

(* A job that has read nothing of the pools S. *)
IsNew(job, S) ==
    job \in Jobs /\ job.got = <<>> /\ Listed(job) = S

LEMMA NewJobOK ==
    ASSUME NEW by \in Origins, NEW S \in SUBSET Pools
    PROVE  IsNew(NewJob(by, S), S) /\ NewJob(by, S).by = by
  <1>1. NewJob(by, S) = [by |-> by, list |-> InOrder(S), got |-> <<>>]
    BY DEF NewJob
  <1>2. <<>> \in Seq(Versions)
    OBVIOUS
  <1>3. NewJob(by, S) \in Jobs
    BY <1>1, <1>2, InOrderOK DEF Jobs
  <1>4. Listed(NewJob(by, S)) = S
    BY <1>1, InOrderOK DEF Listed
  <1> QED BY <1>1, <1>3, <1>4 DEF IsNew

LEMMA StartedOK ==
    ASSUME NEW by \in Origins, NEW S \in SUBSET Pools, NEW job \in Started(by, S)
    PROVE  IsNew(job, S) /\ job.by = by
  BY NewJobOK DEF Started

-----------------------------------------------------------------------------
(* What a refresh has read. *)

Within(job) == Len(job.got) <= 2 * Len(job.list)

LEMMA Lengths ==
    /\ Chunk \in Nat \ {0} /\ MaxVersion \in Nat \ {0}
    /\ \A job \in Jobs : Len(job.got) \in Nat /\ Len(job.list) \in Nat
  <1>1. Chunk \in Nat \ {0} /\ MaxVersion \in Nat \ {0}
    BY IndexAssumption
  <1>2. \A job \in Jobs : Len(job.got) \in Nat /\ Len(job.list) \in Nat
    BY DEF Jobs
  <1> QED BY <1>1, <1>2

TInv == TypeOK /\ \A job \in jobs : Within(job)

(* The job as it is after one more chunk. *)
Longer(job, gone) == [job EXCEPT !.got = @ \o ChunkOf(job, gone)]

LEMMA ChunkSizeFits ==
    ASSUME NEW job \in Jobs, Within(job), ~AllRead(job)
    PROVE  /\ ChunkSize(job) \in Nat
           /\ Len(job.got) + ChunkSize(job) <= 2 * Len(job.list)
  <1>1. Len(job.got) \in Nat /\ Len(job.list) \in Nat /\ Chunk \in Nat
    BY Lengths
  <1> DEFINE g == Len(job.got)
             n == Len(job.list)
  <1>2. g <= 2 * n /\ g # 2 * n
    BY DEF Within, AllRead
  <1>3. ChunkSize(job) = IF g + Chunk <= 2 * n THEN Chunk ELSE 2 * n - g
    BY DEF ChunkSize
  <1>4. g \in Nat /\ n \in Nat /\ Chunk \in Nat
    BY <1>1
  <1> HIDE DEF g, n
  <1>5. ChunkSize(job) \in Nat /\ g + ChunkSize(job) <= 2 * n
    BY <1>2, <1>3, <1>4, SMT
  <1> QED BY <1>5 DEF g, n

(* A vault of the list belongs to a pool of the list. *)
LEMMA PoolOfVaultOK ==
    ASSUME NEW job \in Jobs, NEW k \in 1..(2 * Len(job.list))
    PROVE  /\ (k + 1) \div 2 \in 1..Len(job.list)
           /\ PoolOfVault(job.list, k) \in Pools
  <1>1. Len(job.list) \in Nat /\ job.list \in [1..Len(job.list) -> Pools]
    BY DEF Jobs
  <1>2. (k + 1) \div 2 \in 1..Len(job.list)
    BY <1>1, SMT
  <1> QED BY <1>1, <1>2 DEF PoolOfVault

LEMMA ChunkOK ==
    ASSUME TypeOK, NEW job \in Jobs, Within(job), ~AllRead(job), NEW gone
    PROVE  /\ ChunkOf(job, gone) \in Seq(Versions)
           /\ Len(ChunkOf(job, gone)) = ChunkSize(job)
  <1>1. ChunkSize(job) \in Nat
        /\ Len(job.got) + ChunkSize(job) <= 2 * Len(job.list)
    BY ChunkSizeFits
  <1>2. Len(job.got) \in Nat /\ Len(job.list) \in Nat /\ MaxVersion \in Nat
    BY Lengths
  <1>3. ASSUME NEW k \in 1..ChunkSize(job)
        PROVE  chain[PoolOfVault(job.list, Len(job.got) + k)] \in Versions
    <2>1. Len(job.got) + k \in 1..(2 * Len(job.list))
      BY <1>1, <1>2, SMT
    <2>2. PoolOfVault(job.list, Len(job.got) + k) \in Pools
      BY <2>1, PoolOfVaultOK
    <2> QED BY <2>2, <1>2 DEF TypeOK, Versions
  <1>4. 0 \in Versions
    BY <1>2 DEF Versions
  <1>5. ChunkOf(job, gone) \in [1..ChunkSize(job) -> Versions]
    BY <1>3, <1>4 DEF ChunkOf
  <1> QED BY <1>1, <1>5

(* The new job in terms of the old one. *)
LEMMA LongerOK ==
    ASSUME TypeOK, NEW job \in Jobs, Within(job), ~AllRead(job), NEW gone
    PROVE  /\ Longer(job, gone) \in Jobs
           /\ Longer(job, gone).by = job.by
           /\ Longer(job, gone).list = job.list
           /\ Len(Longer(job, gone).got) = Len(job.got) + ChunkSize(job)
           /\ Within(Longer(job, gone))
           /\ \A k \in 1..Len(job.got) : Longer(job, gone).got[k] = job.got[k]
           /\ \A k \in 1..ChunkSize(job) :
                Longer(job, gone).got[Len(job.got) + k] = ChunkOf(job, gone)[k]
  <1> DEFINE c == ChunkOf(job, gone)
  <1>1. c \in Seq(Versions) /\ Len(c) = ChunkSize(job)
    BY ChunkOK
  <1>2. job = [by |-> job.by, list |-> job.list, got |-> job.got]
        /\ job.got \in Seq(Versions) /\ job.by \in Origins /\ job.list \in Seq(Pools)
    BY DEF Jobs
  <1> DEFINE h == job.got
  <1>3. Longer(job, gone) = [by |-> job.by, list |-> job.list, got |-> h \o c]
    <2>1. Longer(job, gone) = [job EXCEPT !.got = h \o c]
      BY DEF Longer
    <2> HIDE DEF h, c
    <2> QED BY <1>2, <2>1
  <1>4. /\ h \o c \in Seq(Versions)
        /\ Len(h \o c) = Len(h) + Len(c)
        /\ \A k \in 1..Len(h) : (h \o c)[k] = h[k]
        /\ \A k \in 1..Len(c) : (h \o c)[Len(h) + k] = c[k]
    <2>1. h \in Seq(Versions) /\ c \in Seq(Versions)
      BY <1>1, <1>2
    <2> HIDE DEF h, c
    <2>2. h \o c \in Seq(Versions) /\ Len(h \o c) = Len(h) + Len(c)
      BY <2>1
    <2>3. Len(h) \in Nat /\ Len(c) \in Nat
      BY <2>1
    <2>4. \A i \in 1..(Len(h) + Len(c)) :
            (h \o c)[i] = IF i <= Len(h) THEN h[i] ELSE c[i - Len(h)]
      BY <2>1
    <2>5. ASSUME NEW k \in 1..Len(h) PROVE (h \o c)[k] = h[k]
      BY <2>3, <2>4
    <2>6. ASSUME NEW k \in 1..Len(c) PROVE (h \o c)[Len(h) + k] = c[k]
      <3>1. /\ Len(h) + k \in 1..(Len(h) + Len(c))
            /\ ~(Len(h) + k <= Len(h))
            /\ (Len(h) + k) - Len(h) = k
        BY <2>3
      <3> QED BY <2>4, <3>1
    <2> QED BY <2>2, <2>5, <2>6
  <1>5. Longer(job, gone) \in Jobs
    BY <1>2, <1>3, <1>4 DEF Jobs
  <1>6. Within(Longer(job, gone))
    BY <1>1, <1>3, <1>4, ChunkSizeFits DEF Within
  <1> QED BY <1>1, <1>3, <1>4, <1>5, <1>6 DEF c

(* A refresh that has read all has two versions for each of its pools.     *)
LEMMA ReadOfOK ==
    ASSUME NEW job \in Jobs, AllRead(job), NEW p \in Listed(job)
    PROVE  /\ Place(job, p) \in 1..Len(job.list)
           /\ job.list[Place(job, p)] = p
           /\ 2 * Place(job, p) - 1 \in 1..Len(job.got)
           /\ 2 * Place(job, p) \in 1..Len(job.got)
           /\ p \in Pools
           /\ ReadOf(job, p) \in [a : Versions, b : Versions]
  <1> DEFINE i == Place(job, p)
             n == Len(job.list)
  <1>1. n \in Nat /\ job.list \in [1..n -> Pools]
        /\ job.got \in [1..Len(job.got) -> Versions]
    BY DEF Jobs
  <1>2. i \in 1..n /\ job.list[i] = p
    BY DEF Place, Listed
  <1>3. Len(job.got) = 2 * n
    BY DEF AllRead
  <1>4. ReadOf(job, p) = [a |-> job.got[2 * i - 1], b |-> job.got[2 * i]]
    BY DEF ReadOf
  <1>5. p \in Pools
    BY <1>1, <1>2
  <1> HIDE DEF i, n
  <1>6. 2 * i - 1 \in 1..Len(job.got) /\ 2 * i \in 1..Len(job.got)
    BY <1>1, <1>2, <1>3, SMT
  <1>7. ReadOf(job, p) \in [a : Versions, b : Versions]
    BY <1>1, <1>4, <1>6
  <1> QED BY <1>2, <1>5, <1>6, <1>7 DEF i, n

LEMMA WrittenOK ==
    ASSUME TypeOK, NEW job \in Jobs, AllRead(job)
    PROVE  /\ Written(job) \in [Pools -> [a : Versions, b : Versions]]
           /\ \A p \in Pools :
                \/ Written(job)[p] = reserve[p]
                \/ Written(job)[p] = Empty
                \/ p \in Listed(job) /\ Written(job)[p] = ReadOf(job, p)
           /\ \A p \in Listed(job) : Written(job)[p] = ReadOf(job, p)
  <1>1. Empty \in [a : Versions, b : Versions]
    BY IndexAssumption DEF Empty, Versions
  <1>2. reserve \in [Pools -> [a : Versions, b : Versions]]
    BY DEF TypeOK
  <1>3. \A p \in Listed(job) : p \in Pools /\ ReadOf(job, p) \in [a : Versions, b : Versions]
    BY ReadOfOK
  <1> QED BY <1>1, <1>2, <1>3 DEF Written

-----------------------------------------------------------------------------
(* What a step may do to the refreshes and to the reserves. *)

New(job) == job \in Jobs /\ job.got = <<>>

JobFrom(j) ==
    \/ j \in jobs
    \/ New(j)
    \/ \E job \in jobs : \E gone \in Nat : ~AllRead(job) /\ j = Longer(job, gone)

ReserveFrom(p) ==
    \/ reserve'[p] = reserve[p]
    \/ reserve'[p] = Empty
    \/ \E job \in jobs : AllRead(job) /\ p \in Listed(job) /\ reserve'[p] = ReadOf(job, p)

ReservesTyped == reserve' \in [Pools -> [a : Versions, b : Versions]]

(* What ReadChunk does. *)
LEMMA ReadChunkStep ==
    ASSUME NEW job, ReadChunk(job)
    PROVE  /\ job \in jobs /\ ~AllRead(job)
           /\ \E gone \in Nat : jobs' = (jobs \ {job}) \cup {Longer(job, gone)}
  <1>1. PICK gone \in {0} \cup (IF errors < MaxErrors THEN 1..(2 * Len(job.list)) ELSE {}) :
            jobs' = (jobs \ {job}) \cup {[job EXCEPT !.got = @ \o ChunkOf(job, gone)]}
    BY DEF ReadChunk
  <1>2. gone \in Nat
    BY <1>1
  <1> QED BY <1>1, <1>2 DEF ReadChunk, Longer

(* A start-up begins refreshes of its own. *)
LEMMA StartJobs ==
    ASSUME NEW saved \in SUBSET Pools, Start(saved), NEW j \in jobs'
    PROVE  New(j) /\ Own(j)
  <1>1. j \in Started("priority", saved \cap Hot) \/ j \in Started("warm", saved \cap Warm)
    BY DEF Start
  <1>2. "priority" \in Origins /\ "warm" \in Origins
    BY DEF Origins
  <1> QED BY <1>1, <1>2, StartedOK DEF IsNew, New, Own

LEMMA StartReserves ==
    ASSUME NEW saved \in SUBSET Pools, Start(saved)
    PROVE  ReservesTyped /\ \A p \in Pools : reserve'[p] = Empty
  BY IndexAssumption DEF Start, ReservesTyped, Empty, Versions

(* A refresh the index starts is its own. *)
LEMMA IndexJobs ==
    ASSUME TypeOK, [IndexNext]_vars, NEW j \in jobs'
    PROVE  /\ JobFrom(j)
           /\ j \in jobs \/ Own(j) \/ \E job \in jobs : ReadChunk(job)
  <1>1. \A by \in Origins, S \in SUBSET Pools : \A k \in Started(by, S) :
            New(k) /\ k.by = by
    BY StartedOK DEF IsNew, New
  <1>2. /\ "full" \in Origins /\ "page" \in Origins /\ "bootstrap" \in Origins
        /\ "warm" \in Origins
    BY DEF Origins
  <1>3. pools \in SUBSET Pools /\ Hot \in SUBSET Pools /\ Fresh \in SUBSET Pools
    BY IndexAssumption DEF TypeOK, Hot, Fresh, PageOf, Pools
  <1>4. CASE \E job \in jobs : ReadChunk(job)
    <2>1. PICK job \in jobs : ReadChunk(job)
      BY <1>4
    <2> QED BY <2>1, ReadChunkStep DEF JobFrom
  <1>5. CASE MergePage
    BY <1>1, <1>2, <1>3, <1>5 DEF MergePage, JobFrom, Own
  <1>6. CASE StartFull
    <2>1. New(NewJob("full", pools)) /\ NewJob("full", pools).by = "full"
      BY <1>2, <1>3, NewJobOK DEF IsNew, New
    <2> QED BY <1>6, <2>1 DEF StartFull, JobFrom, Own
  <1>7. CASE Bootstrap
    BY <1>1, <1>2, <1>3, <1>7 DEF Bootstrap, JobFrom, Own
  <1>8. ASSUME NEW job \in jobs, Write(job) PROVE JobFrom(j) /\ (j \in jobs \/ Own(j))
    <2>1. j \in jobs \/ j \in Started("warm", pools \cap Warm)
      BY <1>8 DEF Write
    <2> QED BY <1>1, <1>2, <1>3, <2>1 DEF JobFrom, Own
  <1>9. ASSUME NEW job \in jobs, Fail(job) PROVE j \in jobs
    BY <1>9 DEF Fail
  <1>10. CASE Restart
    <2>1. PICK saved \in {cache} \cup {{}} : Start(saved)
      BY <1>10 DEF Restart
    <2>2. saved \in SUBSET Pools
      BY <2>1 DEF TypeOK
    <2> QED BY <2>1, <2>2, StartJobs DEF JobFrom
  <1>11. CASE StartScan \/ FinishScan \/ BootstrapFails
              \/ (\E p \in Pools : Swap(p)) \/ UNCHANGED vars
    BY <1>11 DEF StartScan, FinishScan, BootstrapFails, Swap, memory, vars, JobFrom
  <1> QED BY <1>4, <1>5, <1>6, <1>7, <1>8, <1>9, <1>10, <1>11 DEF IndexNext, JobFrom

LEMMA IndexReserves ==
    ASSUME TypeOK, [IndexNext]_vars
    PROVE  ReservesTyped /\ \A p \in Pools : ReserveFrom(p)
  <1>1. ASSUME NEW job \in jobs, Write(job)
        PROVE  ReservesTyped /\ \A p \in Pools : ReserveFrom(p)
    <2>1. job \in Jobs /\ AllRead(job) /\ reserve' = Written(job)
      BY <1>1 DEF Write, TypeOK
    <2> QED BY <1>1, <2>1, WrittenOK DEF ReservesTyped, ReserveFrom
  <1>2. CASE Restart
    <2>1. PICK saved \in {cache} \cup {{}} : Start(saved)
      BY <1>2 DEF Restart
    <2>2. saved \in SUBSET Pools
      BY <2>1 DEF TypeOK
    <2> QED BY <2>1, <2>2, StartReserves DEF ReserveFrom
  <1>3. CASE reserve' = reserve
    BY <1>3 DEF TypeOK, ReservesTyped, ReserveFrom
  <1>4. (\E job \in jobs : Write(job)) \/ Restart \/ reserve' = reserve
    BY DEF IndexNext, StartScan, MergePage, FinishScan, StartFull, Bootstrap,
           BootstrapFails, ReadChunk, Fail, Swap, memory, vars
  <1> QED BY <1>1, <1>2, <1>3, <1>4

(* Steps of a request. *)
LEMMA RequestJobs ==
    ASSUME TypeOK, route \in SUBSET Pools, RequestStep, NEW j \in jobs'
    PROVE  JobFrom(j)
  <1>1. "request" \in Origins /\ "requestBoot" \in Origins
    BY DEF Origins
  <1>2. pools \in SUBSET Pools /\ Hot \in SUBSET Pools
    BY IndexAssumption DEF TypeOK, Hot
  <1>3. \A S \in SUBSET Pools : New(NewJob("request", S))
    BY <1>1, NewJobOK DEF IsNew, New
  <1>4. CASE EnsureBoot
    <2>1. \A k \in Started("requestBoot", Hot) : New(k)
      BY <1>1, <1>2, StartedOK DEF IsNew, New
    <2> QED BY <1>4, <2>1 DEF EnsureBoot, JobFrom
  <1>5. CASE EnsureHot
    <2>1. pools \cap Hot \in SUBSET Pools
      BY <1>2
    <2> QED BY <1>3, <1>5, <2>1 DEF EnsureHot, JobFrom
  <1>6. CASE Pick
    <2>1. \A r \in Routes(reserve) : r \in SUBSET Pools
      BY DEF Routes
    <2> QED BY <1>3, <1>6, <2>1 DEF Pick, JobFrom
  <1>7. CASE RefreshPick
    BY <1>3, <1>7 DEF RefreshPick, LastRefresh, JobFrom
  <1>8. ASSUME NEW job \in jobs, RequestWrite(job) PROVE j \in jobs
    BY <1>8 DEF RequestWrite
  <1>9. CASE RequestFails
    <2>1. CASE Start(cache)
      <3>1. cache \in SUBSET Pools
        BY DEF TypeOK
      <3> QED BY <2>1, <3>1, StartJobs DEF JobFrom
    <2>2. CASE jobs' = {k \in jobs : Own(k)}
      BY <2>2 DEF JobFrom
    <2> QED BY <1>9, <2>1, <2>2 DEF RequestFails
  <1>10. CASE Ask \/ NeedBoot \/ EnsureOthers
    BY <1>10 DEF Ask, NeedBoot, EnsureOthers, vars, JobFrom
  <1> QED BY <1>4, <1>5, <1>6, <1>7, <1>8, <1>9, <1>10 DEF RequestStep, JobFrom

LEMMA RequestReserves ==
    ASSUME TypeOK, RequestStep
    PROVE  ReservesTyped /\ \A p \in Pools : ReserveFrom(p)
  <1>1. ASSUME NEW job \in jobs, RequestWrite(job)
        PROVE  ReservesTyped /\ \A p \in Pools : ReserveFrom(p)
    <2>1. job \in Jobs /\ AllRead(job) /\ reserve' = Written(job)
      BY <1>1 DEF RequestWrite, Ready, TypeOK
    <2> QED BY <1>1, <2>1, WrittenOK DEF ReservesTyped, ReserveFrom
  <1>2. CASE Start(cache)
    <2>1. cache \in SUBSET Pools
      BY DEF TypeOK
    <2> QED BY <1>2, <2>1, StartReserves DEF ReserveFrom
  <1>3. CASE reserve' = reserve
    BY <1>3 DEF TypeOK, ReservesTyped, ReserveFrom
  <1>4. (\E job \in jobs : RequestWrite(job)) \/ Start(cache) \/ reserve' = reserve
    BY DEF RequestStep, Ask, NeedBoot, EnsureBoot, EnsureHot, EnsureOthers, Pick,
           RefreshPick, RequestFails, vars
  <1> QED BY <1>1, <1>2, <1>3, <1>4

-----------------------------------------------------------------------------
(* Type correctness. *)

LEMMA JobsTyped ==
    ASSUME TInv, NEW j, JobFrom(j)
    PROVE  j \in Jobs /\ Within(j)
  <1>1. CASE New(j)
    <2>1. Len(j.list) \in Nat /\ Len(j.got) = 0
      BY <1>1 DEF New, Jobs
    <2> QED BY <1>1, <2>1 DEF New, Within
  <1> QED BY <1>1, LongerOK DEF JobFrom, TInv, TypeOK

(* All but the refreshes and reserves. *)
OthersTyped ==
    /\ chain' \in [Pools -> 1..MaxVersion]
    /\ pools' \in SUBSET Pools
    /\ bootstrapped' \in BOOLEAN /\ booting' \in BOOLEAN
    /\ gpaBusy' \in BOOLEAN /\ gpaFull' \in BOOLEAN
    /\ page' \in Nat
    /\ reserveBusy' \in BOOLEAN
    /\ cache' \in SUBSET Pools
    /\ errors' \in 0..MaxErrors /\ restarts' \in 0..MaxRestarts

LEMMA StartTyped ==
    ASSUME TypeOK, NEW saved \in SUBSET Pools, Start(saved)
    PROVE  /\ pools' \in SUBSET Pools /\ cache' \in SUBSET Pools
           /\ bootstrapped' \in BOOLEAN /\ booting' \in BOOLEAN
           /\ gpaBusy' \in BOOLEAN /\ gpaFull' \in BOOLEAN
           /\ page' \in Nat /\ reserveBusy' \in BOOLEAN
  BY DEF Start

LEMMA IndexOthers ==
    ASSUME TypeOK, [IndexNext]_vars
    PROVE  OthersTyped
  <1>1. /\ chain \in [Pools -> 1..MaxVersion]
        /\ pools \in SUBSET Pools
        /\ bootstrapped \in BOOLEAN /\ booting \in BOOLEAN
        /\ gpaBusy \in BOOLEAN /\ gpaFull \in BOOLEAN
        /\ page \in Nat
        /\ reserveBusy \in BOOLEAN
        /\ cache \in SUBSET Pools
        /\ errors \in 0..MaxErrors /\ restarts \in 0..MaxRestarts
    BY DEF TypeOK
  <1>2. MaxErrors \in Nat /\ MaxRestarts \in Nat /\ MaxVersion \in Nat
        /\ Hot \in SUBSET Pools /\ Fresh \in SUBSET Pools
    BY IndexAssumption DEF Hot, Fresh, PageOf, Pools
  <1> USE DEF OthersTyped
  <1>3. CASE StartScan
    BY <1>1, <1>3 DEF StartScan, bounds
  <1>4. CASE MergePage
    <2>1. pools' \in SUBSET Pools /\ cache' \in SUBSET Pools /\ page' \in Nat
      BY <1>1, <1>2, <1>4 DEF MergePage, Saved
    <2>2. UNCHANGED <<chain, bootstrapped, booting, gpaBusy, gpaFull, reserveBusy,
                      errors, restarts>>
      BY <1>4 DEF MergePage, bounds
    <2> QED BY <1>1, <2>1, <2>2
  <1>5. CASE FinishScan
    <2>1. cache' \in SUBSET Pools
      BY <1>1, <1>5 DEF FinishScan, Saved
    <2>2. errors' \in 0..MaxErrors
      BY <1>1, <1>2, <1>5 DEF FinishScan
    <2>3. gpaBusy' \in BOOLEAN /\ gpaFull' \in BOOLEAN
          /\ UNCHANGED <<chain, pools, bootstrapped, booting, page, reserveBusy, restarts>>
      BY <1>5 DEF FinishScan
    <2> QED BY <1>1, <2>1, <2>2, <2>3
  <1>6. CASE StartFull
    <2>1. reserveBusy' \in BOOLEAN
          /\ UNCHANGED <<chain, pools, bootstrapped, booting, gpaBusy, gpaFull, page, cache,
                         errors, restarts>>
      BY <1>6 DEF StartFull, bounds
    <2> QED BY <1>1, <2>1
  <1>7. CASE Bootstrap
    <2>1. pools' \in SUBSET Pools
      BY <1>1, <1>2, <1>7 DEF Bootstrap
    <2>2. booting' \in BOOLEAN /\ bootstrapped' \in BOOLEAN
          /\ UNCHANGED <<chain, gpaBusy, gpaFull, page, reserveBusy, cache, errors, restarts>>
      BY <1>7 DEF Bootstrap, bounds
    <2> QED BY <1>1, <2>1, <2>2
  <1>8. CASE BootstrapFails
    <2>1. errors' \in 0..MaxErrors
      BY <1>1, <1>2, <1>8 DEF BootstrapFails
    <2>2. booting' \in BOOLEAN
          /\ UNCHANGED <<chain, pools, bootstrapped, gpaBusy, gpaFull, page, reserveBusy,
                         cache, restarts>>
      BY <1>8 DEF BootstrapFails
    <2> QED BY <1>1, <2>1, <2>2
  <1>9. ASSUME NEW job \in jobs, ReadChunk(job) PROVE OthersTyped
    <2>1. errors' \in 0..MaxErrors
      BY <1>1, <1>2, <1>9 DEF ReadChunk
    <2>2. UNCHANGED <<chain, pools, bootstrapped, booting, gpaBusy, gpaFull, page,
                      reserveBusy, cache, restarts>>
      BY <1>9 DEF ReadChunk
    <2> QED BY <1>1, <2>1, <2>2
  <1>10. ASSUME NEW job \in jobs, Write(job) PROVE OthersTyped
    <2>1. reserveBusy' \in BOOLEAN
      BY <1>1, <1>10 DEF Write, BusyAfter
    <2>3. gpaBusy' \in BOOLEAN /\ gpaFull' \in BOOLEAN /\ page' \in Nat
      <3>1. \/ gpaBusy' = TRUE /\ gpaFull' = FALSE /\ page' = 0
            \/ UNCHANGED <<gpaBusy, gpaFull, page>>
        BY <1>10, Zenon DEF Write, AfterStartup
      <3>2. CASE gpaBusy' = TRUE /\ gpaFull' = FALSE /\ page' = 0
        BY <3>2
      <3>3. CASE UNCHANGED <<gpaBusy, gpaFull, page>>
        BY <1>1, <3>3
      <3> QED BY <3>1, <3>2, <3>3, Zenon
    <2>2. UNCHANGED <<chain, pools, bootstrapped, booting, cache, errors, restarts>>
      BY <1>10 DEF Write, bounds
    <2> QED BY <1>1, <2>1, <2>2, <2>3
  <1>11. ASSUME NEW job \in jobs, Fail(job) PROVE OthersTyped
    <2>1. errors' \in 0..MaxErrors
      BY <1>1, <1>2, <1>11 DEF Fail
    <2>2. reserveBusy' \in BOOLEAN
      BY <1>1, <1>11 DEF Fail, BusyAfter
    <2>3. UNCHANGED <<chain, pools, bootstrapped, booting, gpaBusy, gpaFull, page, cache,
                      restarts>>
      BY <1>11 DEF Fail
    <2> QED BY <1>1, <2>1, <2>2, <2>3
  <1>12. CASE Restart
    <2>1. PICK saved \in {cache} \cup {{}} : Start(saved)
      BY <1>12 DEF Restart
    <2>2. saved \in SUBSET Pools
      BY <1>1, <2>1
    <2>3. restarts' \in 0..MaxRestarts
      BY <1>1, <1>2, <1>12 DEF Restart
    <2>4. UNCHANGED <<chain, errors>>
      BY <1>12 DEF Restart
    <2> QED BY <1>1, <2>1, <2>2, <2>3, <2>4, StartTyped
  <1>13. ASSUME NEW p \in Pools, Swap(p) PROVE OthersTyped
    <2>1. chain' \in [Pools -> 1..MaxVersion]
      BY <1>1, <1>2, <1>13 DEF Swap
    <2>2. UNCHANGED <<pools, bootstrapped, booting, gpaBusy, gpaFull, page, reserveBusy,
                      cache, errors, restarts>>
      BY <1>13 DEF Swap, memory, bounds
    <2> QED BY <1>1, <2>1, <2>2
  <1>14. CASE UNCHANGED vars
    BY <1>1, <1>14 DEF vars
  <1> QED BY <1>3, <1>4, <1>5, <1>6, <1>7, <1>8, <1>9, <1>10, <1>11, <1>12, <1>13, <1>14
          DEF IndexNext

LEMMA RequestOthers ==
    ASSUME TypeOK, RequestStep
    PROVE  OthersTyped
  <1> USE IndexAssumption DEF TypeOK, OthersTyped
  <1>1. CASE EnsureBoot
    BY <1>1 DEF EnsureBoot, bounds, Hot
  <1>2. CASE Pick \/ EnsureHot \/ RefreshPick
    BY <1>2 DEF Pick, EnsureHot, RefreshPick, bounds
  <1>3. ASSUME NEW job \in jobs, RequestWrite(job) PROVE OthersTyped
    BY <1>3 DEF RequestWrite, bounds
  <1>4. CASE RequestFails
    <2>1. errors' \in 0..MaxErrors /\ chain' = chain /\ restarts' = restarts
      BY <1>4 DEF RequestFails
    <2>2. CASE Start(cache)
      BY <2>1, <2>2, StartTyped
    <2>3. CASE ~Start(cache)
      BY <1>4, <2>1, <2>3 DEF RequestFails
    <2> QED BY <2>2, <2>3
  <1>5. CASE Ask \/ NeedBoot \/ EnsureOthers
    BY <1>5 DEF Ask, NeedBoot, EnsureOthers, vars
  <1> QED BY <1>1, <1>2, <1>3, <1>4, <1>5 DEF RequestStep

(* What the lemmas say together. *)
LEMMA TInvStep ==
    ASSUME TInv, OthersTyped, ReservesTyped, \A j \in jobs' : JobFrom(j)
    PROVE  TInv'
  <1>1. \A j \in jobs' : j \in Jobs /\ Within(j)
    BY JobsTyped
  <1>2. TypeOK'
    BY <1>1 DEF TypeOK, OthersTyped, ReservesTyped
  <1> QED BY <1>1, <1>2 DEF TInv, Within

LEMMA IndexInitTyped == IndexInit => TInv
  <1> SUFFICES ASSUME IndexInit PROVE TInv
    OBVIOUS
  <1>1. 1 \in 1..MaxVersion /\ 0 \in Versions /\ 0 \in 0..MaxErrors /\ 0 \in 0..MaxRestarts
    BY IndexAssumption DEF Versions
  <1>2. chain \in [Pools -> 1..MaxVersion]
    BY <1>1 DEF IndexInit
  <1>3. reserve \in [Pools -> [a : Versions, b : Versions]]
    BY <1>1 DEF IndexInit, Empty
  <1>4. jobs = {} /\ pools = {} /\ cache = {} /\ page = 0 /\ errors = 0 /\ restarts = 0
    BY DEF IndexInit
  <1>5. /\ bootstrapped \in BOOLEAN /\ booting \in BOOLEAN /\ gpaBusy \in BOOLEAN
        /\ gpaFull \in BOOLEAN /\ reserveBusy \in BOOLEAN
    BY DEF IndexInit
  <1> QED BY <1>1, <1>2, <1>3, <1>4, <1>5 DEF TInv, TypeOK

LEMMA IndexStepTyped == TInv /\ [IndexNext]_vars => TInv'
  BY TInvStep, IndexOthers, IndexReserves, IndexJobs DEF TInv

LEMMA RequestStepTyped == TInv /\ route \in SUBSET Pools /\ RequestStep => TInv'
  BY TInvStep, RequestOthers, RequestReserves, RequestJobs DEF TInv

(* Every variable of the index keeps its type. *)
THEOREM TypeCorrect == IndexSpec => []TypeOK
  <1>1. TInv => TypeOK
    BY DEF TInv
  <1> QED BY <1>1, IndexInitTyped, IndexStepTyped, PTL DEF IndexSpec

-----------------------------------------------------------------------------
(* Reserves of one slot. *)

SameSlot(x, y) == x = y \/ x = 0 \/ y = 0

(* Whole pools have been read, each in one slot. *)
Whole(job) ==
    /\ Len(job.got) % 2 = 0
    /\ \A i \in 1..Len(job.list) :
        2 * i <= Len(job.got) => SameSlot(job.got[2 * i - 1], job.got[2 * i])

SlotInv == TInv /\ ReservesOfOneSlot /\ \A job \in jobs : Whole(job)

LEMMA ChunkSizeEven ==
    ASSUME NEW job \in Jobs, Len(job.got) % 2 = 0, Chunk % 2 = 0
    PROVE  ChunkSize(job) % 2 = 0
  <1> DEFINE g == Len(job.got)
             n == Len(job.list)
  <1>1. g \in Nat /\ n \in Nat /\ Chunk \in Nat
    BY Lengths
  <1>2. ChunkSize(job) = IF g + Chunk <= 2 * n THEN Chunk ELSE 2 * n - g
    BY DEF ChunkSize
  <1>3. g % 2 = 0
    OBVIOUS
  <1> HIDE DEF g, n
  <1>4. (2 * n - g) % 2 = 0
    BY <1>1, <1>3, SMT
  <1> QED BY <1>2, <1>4

(* With an even chunk a refresh goes on reading whole pools. *)
LEMMA LongerWhole ==
    ASSUME TypeOK, NEW job \in Jobs, Within(job), ~AllRead(job), Whole(job),
           Chunk % 2 = 0, NEW gone
    PROVE  Whole(Longer(job, gone))
  <1> DEFINE g == Len(job.got)
             n == Len(job.list)
             c == ChunkSize(job)
             new == Longer(job, gone).got
  <1>1. g \in Nat /\ n \in Nat /\ g % 2 = 0 /\ g <= 2 * n
    BY DEF Jobs, Whole, Within
  <1>2. c \in Nat /\ g + c <= 2 * n /\ c % 2 = 0
    BY ChunkSizeFits, ChunkSizeEven DEF Whole
  <1>3. /\ Longer(job, gone).list = job.list /\ Len(new) = g + c
        /\ \A k \in 1..g : new[k] = job.got[k]
        /\ \A k \in 1..c : new[g + k] = ChunkOf(job, gone)[k]
    BY LongerOK
  <1>4. \A k \in 1..c : ChunkOf(job, gone)[k] =
            IF g + k = gone THEN 0 ELSE chain[PoolOfVault(job.list, g + k)]
    BY DEF ChunkOf
  <1>5. ASSUME NEW i \in 1..n, 2 * i <= g + c
        PROVE  SameSlot(new[2 * i - 1], new[2 * i])
    <2>1. CASE 2 * i <= g
      <3>1. 2 * i - 1 \in 1..g /\ 2 * i \in 1..g
        <4> HIDE DEF g, n, c, new
        <4> QED BY <1>1, <1>5, <2>1, SMT
      <3>2. SameSlot(job.got[2 * i - 1], job.got[2 * i])
        BY <2>1 DEF Whole
      <3> QED BY <1>3, <3>1, <3>2
    <2>2. CASE ~(2 * i <= g)
      <3> DEFINE k == 2 * i - g
      <3>1. k - 1 \in 1..c /\ k \in 1..c /\ g + (k - 1) = 2 * i - 1 /\ g + k = 2 * i
        <4> HIDE DEF g, n, c, new
        <4> QED BY <1>1, <1>2, <1>5, <2>2, SMT
      <3>2. PoolOfVault(job.list, 2 * i - 1) = job.list[i]
            /\ PoolOfVault(job.list, 2 * i) = job.list[i]
        <4>1. ((2 * i - 1) + 1) \div 2 = i /\ (2 * i + 1) \div 2 = i
          <5>1. i \in Nat
            BY <1>1
          <5> QED BY <5>1, SMT
        <4> QED BY <4>1 DEF PoolOfVault
      <3>3. new[2 * i - 1] =
                IF 2 * i - 1 = gone THEN 0 ELSE chain[PoolOfVault(job.list, 2 * i - 1)]
        <4> HIDE DEF g, c, new, k
        <4> QED BY <1>3, <1>4, <3>1
      <3>4. new[2 * i] = IF 2 * i = gone THEN 0 ELSE chain[PoolOfVault(job.list, 2 * i)]
        <4> HIDE DEF g, c, new, k
        <4> QED BY <1>3, <1>4, <3>1
      <3> QED BY <3>2, <3>3, <3>4 DEF SameSlot
    <2> QED BY <2>1, <2>2
  <1>6. (g + c) % 2 = 0
    <2> HIDE DEF g, c
    <2> QED BY <1>1, <1>2, SMT
  <1> QED BY <1>3, <1>5, <1>6 DEF Whole

LEMMA SlotInvStep ==
    ASSUME Chunk % 2 = 0, SlotInv, TInv',
           \A j \in jobs' : JobFrom(j), \A p \in Pools : ReserveFrom(p)
    PROVE  SlotInv'
  <1>1. TypeOK /\ \A job \in jobs : job \in Jobs /\ Within(job) /\ Whole(job)
    BY DEF SlotInv, TInv, TypeOK
  <1>2. ASSUME NEW j \in jobs' PROVE Whole(j)
    <2>1. CASE New(j)
      <3>1. Len(j.got) = 0 /\ Len(j.list) \in Nat
        BY <2>1 DEF New, Jobs
      <3> QED BY <3>1, SMT DEF Whole
    <2>2. JobFrom(j)
      OBVIOUS
    <2> QED BY <1>1, <2>1, <2>2, LongerWhole DEF JobFrom
  <1>3. ASSUME NEW p \in Pools PROVE SameSlot(reserve'[p].a, reserve'[p].b)
    <2>1. CASE reserve'[p] = reserve[p]
      BY <2>1 DEF SlotInv, ReservesOfOneSlot, SameSlot
    <2>2. CASE reserve'[p] = Empty
      BY <2>2 DEF Empty, SameSlot
    <2>3. ASSUME NEW job \in jobs, AllRead(job), p \in Listed(job),
                 reserve'[p] = ReadOf(job, p)
          PROVE  SameSlot(reserve'[p].a, reserve'[p].b)
      <3> DEFINE i == Place(job, p)
      <3>1. i \in 1..Len(job.list) /\ 2 * i \in 1..Len(job.got)
        BY <1>1, <2>3, ReadOfOK
      <3>2. Len(job.got) \in Nat
        BY <1>1 DEF Jobs
      <3>3. 2 * i <= Len(job.got)
        BY <3>1, <3>2
      <3>4. SameSlot(job.got[2 * i - 1], job.got[2 * i])
        BY <1>1, <3>1, <3>3 DEF Whole
      <3> QED BY <2>3, <3>4 DEF ReadOf
    <2>4. ReserveFrom(p)
      OBVIOUS
    <2> QED BY <2>1, <2>2, <2>3, <2>4 DEF ReserveFrom
  <1> QED BY <1>2, <1>3 DEF SlotInv, ReservesOfOneSlot, SameSlot, Whole

(* Where a chunk holds whole pools, however refreshes and trades           *)
(* interleave, a pool's two reserves are those of one slot.                *)
THEOREM OneSlot ==
    ASSUME Chunk % 2 = 0
    PROVE  IndexSpec => []ReservesOfOneSlot
  <1>1. IndexInit => SlotInv
    <2>1. IndexInit => ReservesOfOneSlot /\ jobs = {}
      BY DEF IndexInit, ReservesOfOneSlot, Empty
    <2> QED BY <2>1, IndexInitTyped DEF SlotInv
  <1>2. SlotInv /\ [IndexNext]_vars => SlotInv'
    <2> SUFFICES ASSUME SlotInv, [IndexNext]_vars PROVE SlotInv'
      OBVIOUS
    <2>1. TInv /\ TypeOK
      BY DEF SlotInv, TInv
    <2>2. TInv'
      BY <2>1, IndexStepTyped
    <2> QED BY <2>1, <2>2, SlotInvStep, IndexJobs, IndexReserves
  <1>3. SlotInv => ReservesOfOneSlot
    BY DEF SlotInv
  <1> QED BY <1>1, <1>2, <1>3, PTL DEF IndexSpec

-----------------------------------------------------------------------------
(* Requests. *)

(* A refresh of the request has read nothing older than the request, and   *)
(* at the last refresh there is one of the route.                          *)
NoOlder(job) ==
    \A k \in 1..Len(job.got) :
        job.got[k] = 0 \/ job.got[k] >= asked[PoolOfVault(job.list, k)]

RequestInv ==
    /\ TInv
    /\ at \in Places /\ route \in SUBSET Pools
    /\ asked \in [Pools -> 1..MaxVersion]
    /\ \A p \in Pools : asked[p] <= chain[p]
    /\ at \in {"idle", "built", "pick"} => ~Waiting
    /\ \A j1, j2 \in jobs : ~Own(j1) /\ ~Own(j2) => j1 = j2
    /\ \A job \in jobs : ~Own(job) =>
        /\ NoOlder(job)
        /\ at = "final" => Listed(job) = route

(* A chunk read now is no older than the request. *)
LEMMA LongerNoOlder ==
    ASSUME RequestInv, NEW job \in jobs, ~AllRead(job), NoOlder(job), NEW gone
    PROVE  NoOlder(Longer(job, gone))
  <1> DEFINE g == Len(job.got)
             n == Len(job.list)
             c == ChunkSize(job)
             new == Longer(job, gone).got
  <1>1. TypeOK /\ job \in Jobs /\ Within(job)
    BY DEF RequestInv, TInv, TypeOK
  <1>2. g \in Nat /\ n \in Nat /\ c \in Nat /\ g + c <= 2 * n
    BY <1>1, ChunkSizeFits DEF Jobs
  <1>3. /\ Longer(job, gone).list = job.list /\ Len(new) = g + c
        /\ \A k \in 1..g : new[k] = job.got[k]
        /\ \A k \in 1..c : new[g + k] = ChunkOf(job, gone)[k]
    BY <1>1, LongerOK
  <1>4. \A k \in 1..c : ChunkOf(job, gone)[k] =
            IF g + k = gone THEN 0 ELSE chain[PoolOfVault(job.list, g + k)]
    BY DEF ChunkOf
  <1>5. ASSUME NEW k \in 1..(g + c)
        PROVE  new[k] = 0 \/ new[k] >= asked[PoolOfVault(job.list, k)]
    <2>1. CASE k <= g
      <3>1. k \in 1..g
        <4> HIDE DEF g, n, c, new
        <4> QED BY <1>2, <2>1
      <3> QED BY <1>3, <3>1 DEF NoOlder
    <2>2. CASE ~(k <= g)
      <3>1. k - g \in 1..c /\ g + (k - g) = k /\ k \in 1..(2 * n)
        <4> HIDE DEF g, n, c, new
        <4> QED BY <1>2, <2>2, SMT
      <3>2. PoolOfVault(job.list, k) \in Pools
        BY <1>1, <3>1, PoolOfVaultOK
      <3>3. asked[PoolOfVault(job.list, k)] <= chain[PoolOfVault(job.list, k)]
        BY <3>2 DEF RequestInv
      <3>4. new[k] = IF k = gone THEN 0 ELSE chain[PoolOfVault(job.list, k)]
        <4> HIDE DEF g, n, c, new
        <4> QED BY <1>3, <1>4, <3>1
      <3> QED BY <3>3, <3>4
    <2> QED BY <2>1, <2>2
  <1> QED BY <1>3, <1>5 DEF NoOlder

(* A new refresh has read nothing at all. *)
LEMMA NewNoOlder ==
    ASSUME NEW job, New(job)
    PROVE  NoOlder(job)
  <1>1. Len(job.got) = 0
    BY DEF New
  <1> QED BY <1>1 DEF NoOlder

(* Versions only grow. *)
LEMMA ChainGrows ==
    ASSUME TypeOK, [IndexNext]_vars \/ RequestStep, NEW p \in Pools
    PROVE  chain'[p] >= chain[p]
  <1>1. chain[p] \in Nat
    BY DEF TypeOK
  <1>2. CASE \E q \in Pools : Swap(q)
    BY <1>1, <1>2 DEF Swap, TypeOK
  <1>3. CASE chain' = chain
    BY <1>1, <1>3
  <1>4. (\E q \in Pools : Swap(q)) \/ chain' = chain
    BY DEF IndexNext, StartScan, MergePage, FinishScan, StartFull, Bootstrap,
           BootstrapFails, ReadChunk, Write, Fail, Restart, vars, RequestStep, Ask,
           NeedBoot, EnsureBoot, EnsureHot, EnsureOthers, Pick, RefreshPick,
           RequestWrite, RequestFails
  <1> QED BY <1>2, <1>3, <1>4

(* The request and its refreshes after a step, but for the types. *)
NoRefresh == \A j \in jobs' : Own(j)

OneRefresh ==
    /\ at' \notin {"idle", "built", "pick"}
    /\ \E x : \A j \in jobs' : ~Own(j) =>
        /\ j = x
        /\ NoOlder(j)'
        /\ at' = "final" => Listed(j) = route'

RequestTyped ==
    /\ at' \in Places /\ route' \in SUBSET Pools
    /\ asked' \in [Pools -> 1..MaxVersion]
    /\ \A p \in Pools : asked'[p] <= chain'[p]

LEMMA RequestInvStep ==
    ASSUME TInv', RequestTyped, NoRefresh \/ OneRefresh
    PROVE  RequestInv'
  <1>1. CASE NoRefresh
    BY <1>1 DEF NoRefresh, RequestTyped, RequestInv, Waiting
  <1>2. CASE OneRefresh
    <2>1. at' \in {"idle", "built", "pick"} => ~Waiting'
      BY <1>2 DEF OneRefresh
    <2>2. \A j1, j2 \in jobs' : ~Own(j1) /\ ~Own(j2) => j1 = j2
      BY <1>2 DEF OneRefresh
    <2>3. \A j \in jobs' : ~Own(j) => NoOlder(j)' /\ (at' = "final" => Listed(j) = route')
      BY <1>2 DEF OneRefresh
    <2> QED BY <2>1, <2>2, <2>3 DEF RequestTyped, RequestInv
  <1> QED BY <1>1, <1>2

(* The request is left alone, or starts from scratch. *)
LEMMA KeptTyped ==
    ASSUME RequestInv, TInv', asked' = asked, at' \in Places, route' \in SUBSET Pools,
           [IndexNext]_vars \/ RequestStep
    PROVE  RequestTyped
  <1>1. ASSUME NEW p \in Pools PROVE asked'[p] <= chain'[p]
    <2>1. chain'[p] >= chain[p] /\ asked[p] <= chain[p]
      BY ChainGrows DEF RequestInv, TInv
    <2>2. chain'[p] \in Nat /\ chain[p] \in Nat /\ asked[p] \in Nat
      BY DEF RequestInv, TInv, TypeOK
    <2> QED BY <2>1, <2>2
  <1> QED BY <1>1 DEF RequestTyped, RequestInv

LEMMA AnswerTyped ==
    ASSUME TInv', NEW how \in Places, Answer(how)
    PROVE  RequestTyped
  <1>1. MaxVersion \in Nat \ {0}
    BY IndexAssumption
  <1>2. \A p \in Pools : chain'[p] \in 1..MaxVersion
    BY DEF TInv, TypeOK
  <1> QED BY <1>1, <1>2 DEF Answer, RequestTyped

LEMMA IndexStepInv ==
    ASSUME RequestInv, IndexStep
    PROVE  RequestInv'
  <1>1. TInv /\ TypeOK /\ TInv'
    BY IndexStepTyped DEF IndexStep, RequestInv, TInv
  <1>2. CASE Restart
    <2>1. PICK saved \in {cache} \cup {{}} : Start(saved)
      BY <1>2 DEF Restart
    <2>2. saved \in SUBSET Pools
      BY <1>1, <2>1 DEF TypeOK
    <2>3. NoRefresh
      BY <2>1, <2>2, StartJobs DEF NoRefresh
    <2>4. restarts' # restarts
      BY <1>1, <1>2 DEF Restart, TypeOK
    <2>5. Answer("idle")
      BY <2>4 DEF IndexStep
    <2> QED BY <1>1, <2>3, <2>5, AnswerTyped, RequestInvStep DEF Places
  <1>3. CASE ~Restart
    <2>1. restarts' = restarts
      BY <1>3 DEF IndexStep, IndexNext, StartScan, MergePage, FinishScan, StartFull,
                  Bootstrap, BootstrapFails, ReadChunk, Write, Fail, Swap, bounds
    <2>2. at' = at /\ route' = route /\ asked' = asked
      BY <2>1 DEF IndexStep, request
    <2>3. RequestTyped
      BY <1>1, <2>2, KeptTyped DEF IndexStep, RequestInv
    <2>4. CASE \E job \in jobs : ReadChunk(job)
      <3>1. PICK job \in jobs : ReadChunk(job)
        BY <2>4
      <3>2. PICK gone \in Nat : jobs' = (jobs \ {job}) \cup {Longer(job, gone)}
        BY <3>1, ReadChunkStep
      <3>3. ~AllRead(job) /\ job \in Jobs /\ Within(job)
        BY <1>1, <3>1, ReadChunkStep DEF TInv, TypeOK
      <3>4. Longer(job, gone).by = job.by /\ Longer(job, gone).list = job.list
        BY <1>1, <3>3, LongerOK
      <3>5. CASE Own(job)
        <4>1. Own(Longer(job, gone))
          BY <3>4, <3>5 DEF Own
        <4>2. \A j \in jobs' : ~Own(j) => j \in jobs
          BY <3>2, <4>1
        <4>3. NoRefresh \/ OneRefresh
          BY <2>2, <4>2 DEF NoRefresh, OneRefresh, RequestInv, Waiting, NoOlder
        <4> QED BY <1>1, <2>3, <4>3, RequestInvStep
      <3>6. CASE ~Own(job)
        <4> PICK new : new = Longer(job, gone)
          OBVIOUS
        <4>1. \A j \in jobs' : ~Own(j) => j = new
          BY <3>1, <3>2, <3>6 DEF RequestInv
        <4>2. NoOlder(new)
          BY <3>1, <3>3, <3>6, LongerNoOlder DEF RequestInv
        <4>3. NoOlder(new)'
          BY <2>2, <4>2 DEF NoOlder
        <4>4. at \notin {"idle", "built", "pick"}
          BY <3>1, <3>6 DEF RequestInv, Waiting
        <4>5. at = "final" => Listed(new) = route
          BY <3>1, <3>4, <3>6 DEF RequestInv, Listed
        <4>6. OneRefresh
          BY <2>2, <4>1, <4>3, <4>4, <4>5 DEF OneRefresh
        <4> QED BY <1>1, <2>3, <4>6, RequestInvStep
      <3> QED BY <3>5, <3>6
    <2>5. CASE ~\E job \in jobs : ReadChunk(job)
      <3>1. \A j \in jobs' : ~Own(j) => j \in jobs
        BY <1>1, <2>5, IndexJobs DEF IndexStep
      <3>2. NoRefresh \/ OneRefresh
        BY <2>2, <3>1 DEF NoRefresh, OneRefresh, RequestInv, Waiting, NoOlder
      <3> QED BY <1>1, <2>3, <3>2, RequestInvStep
    <2> QED BY <2>4, <2>5
  <1> QED BY <1>2, <1>3

LEMMA RequestStepInv ==
    ASSUME RequestInv, RequestStep
    PROVE  RequestInv'
  <1>1. TInv /\ TypeOK /\ route \in SUBSET Pools
    BY DEF RequestInv, TInv
  <1>2. TInv'
    BY <1>1, RequestStepTyped
  <1>3. "request" \in Origins /\ "requestBoot" \in Origins
    BY DEF Origins
  <1>4. \A S \in SUBSET Pools :
            /\ New(NewJob("request", S)) /\ Listed(NewJob("request", S)) = S
    BY <1>3, NewJobOK DEF IsNew, New
  <1>5. CASE Ask
    <2>1. NoRefresh
      BY <1>5 DEF Ask, vars, NoRefresh, RequestInv, Waiting
    <2>2. RequestTyped
      <3>1. \A p \in Pools : chain[p] <= chain[p]
        BY <1>1 DEF TypeOK
      <3> QED BY <1>1, <1>5, <3>1 DEF Ask, vars, RequestTyped, Places, TypeOK
    <2> QED BY <1>2, <2>1, <2>2, RequestInvStep
  <1>6. CASE NeedBoot \/ EnsureOthers
    <2>1. NoRefresh
      BY <1>6 DEF NeedBoot, EnsureOthers, vars, NoRefresh, Waiting
    <2>2. at' \in Places /\ route' = route /\ asked' = asked
      BY <1>6 DEF NeedBoot, EnsureOthers, Ensured, Places
    <2> QED BY <1>1, <1>2, <2>1, <2>2, KeptTyped, RequestInvStep
  <1>7. CASE EnsureBoot
    <2>1. at' = at /\ route' = route /\ asked' = asked /\ at \in {"boot", "bootAgain"}
      BY <1>7 DEF EnsureBoot, request
    <2>2. \A j \in jobs : Own(j)
      BY <1>7 DEF EnsureBoot, Waiting
    <2>3. \A j \in jobs' : ~Own(j) => j = NewJob("requestBoot", Hot)
      BY <1>7, <2>2 DEF EnsureBoot, Started
    <2>4. Hot \in SUBSET Pools
      BY IndexAssumption DEF Hot
    <2>5. NoOlder(NewJob("requestBoot", Hot))'
      <3>1. NewJob("requestBoot", Hot).got = <<>>
        BY <1>3, <2>4, NewJobOK DEF IsNew
      <3> QED BY <3>1 DEF NoOlder
    <2>6. OneRefresh
      BY <2>1, <2>3, <2>5 DEF OneRefresh
    <2> QED BY <1>1, <1>2, <2>1, <2>6, KeptTyped, RequestInvStep DEF Places
  <1>8. ASSUME NEW S \in SUBSET Pools, \A j \in jobs : Own(j),
               jobs' = jobs \cup {NewJob("request", S)},
               at' \notin {"idle", "built", "pick"}, at' \in Places,
               route' \in SUBSET Pools, asked' = asked, at' = "final" => S = route'
        PROVE  RequestInv'
    <2>1. \A j \in jobs' : ~Own(j) => j = NewJob("request", S)
      BY <1>8
    <2>2. NewJob("request", S).got = <<>>
      BY <1>4 DEF New
    <2>3. NoOlder(NewJob("request", S))'
      BY <2>2 DEF NoOlder
    <2>4. OneRefresh
      BY <1>4, <1>8, <2>1, <2>3 DEF OneRefresh
    <2> QED BY <1>2, <1>8, <2>4, KeptTyped, RequestInvStep
  <1>9. CASE EnsureHot
    <2>1. pools \cap Hot \in SUBSET Pools
      BY <1>1 DEF TypeOK
    <2> QED BY <1>1, <1>8, <1>9, <2>1 DEF EnsureHot, request, Waiting, Places
  <1>10. CASE RefreshPick
    BY <1>1, <1>8, <1>10 DEF RefreshPick, LastRefresh, request, Waiting, Places
  <1>11. CASE Pick
    <2>1. \A j \in jobs : Own(j)
      BY <1>11 DEF Pick, RequestInv, Waiting
    <2>2. CASE Answer("idle") /\ UNCHANGED jobs
      <3>1. NoRefresh
        BY <2>1, <2>2 DEF NoRefresh
      <3> QED BY <1>2, <2>2, <3>1, AnswerTyped, RequestInvStep DEF Places
    <2>3. ASSUME NEW r \in Routes(reserve), at' = "picked", route' = r, asked' = asked,
                 jobs' = jobs \cup {NewJob("request", r)}
          PROVE  RequestInv'
      <3>1. r \in SUBSET Pools
        BY DEF Routes
      <3> QED BY <1>8, <2>1, <2>3, <3>1 DEF Places
    <2> QED BY <1>11, <2>2, <2>3 DEF Pick
  <1>12. ASSUME NEW job \in jobs, RequestWrite(job) PROVE RequestInv'
    <2>1. NoRefresh
      BY <1>12 DEF RequestWrite, Ready, NoRefresh, RequestInv
    <2>2. Continue(job.by)
      BY <1>12 DEF RequestWrite
    <2>3. RequestTyped
      <3>1. CASE asked' = asked
        <4>1. at' \in Places /\ route' \in SUBSET Pools
          BY <1>1, <2>2 DEF Continue, Ensured, Answer, Places, Routes
        <4> QED BY <1>1, <1>2, <3>1, <4>1, KeptTyped
      <3>2. CASE Answer("idle") \/ Answer("built")
        BY <1>2, <3>2, AnswerTyped DEF Places
      <3>3. asked' = asked \/ Answer("idle") \/ Answer("built")
        BY <2>2, Zenon DEF Continue
      <3> QED BY <3>1, <3>2, <3>3
    <2> QED BY <1>2, <2>1, <2>3, RequestInvStep
  <1>13. CASE RequestFails
    <2>1. NoRefresh
      <3>1. CASE Start(cache)
        <4>1. cache \in SUBSET Pools
          BY <1>1 DEF TypeOK
        <4> QED BY <3>1, <4>1, StartJobs DEF NoRefresh
      <3>2. CASE jobs' = {j \in jobs : Own(j)}
        BY <3>2 DEF NoRefresh
      <3> QED BY <1>13, <3>1, <3>2 DEF RequestFails
    <2>2. Answer("idle")
      BY <1>13 DEF RequestFails
    <2> QED BY <1>2, <2>1, <2>2, AnswerTyped, RequestInvStep DEF Places
  <1> QED BY <1>5, <1>6, <1>7, <1>9, <1>10, <1>11, <1>12, <1>13 DEF RequestStep

LEMMA RequestInvAlways == Spec => []RequestInv
  <1>1. Init => RequestInv
    <2> SUFFICES ASSUME Init PROVE RequestInv
      OBVIOUS
    <2>1. TInv /\ jobs = {} /\ chain = [p \in Pools |-> 1]
      BY IndexInitTyped DEF Init, IndexInit
    <2>2. 1 \in 1..MaxVersion
      BY IndexAssumption
    <2> QED BY <2>1, <2>2 DEF Init, RequestInv, Waiting, Places
  <1>2. RequestInv /\ [Next]_routerVars => RequestInv'
    <2>1. CASE UNCHANGED routerVars
      BY <2>1 DEF routerVars, RequestInv, TInv, TypeOK, Waiting, NoOlder
    <2> QED BY <2>1, IndexStepInv, RequestStepInv DEF Next
  <1> QED BY <1>1, <1>2, PTL DEF Spec

(* Every variable of the router keeps its type. *)
THEOREM RouterTypeCorrect == Spec => []RouterTypeOK
  <1>1. RequestInv => RouterTypeOK
    BY DEF RequestInv, TInv, RouterTypeOK
  <1> QED BY <1>1, RequestInvAlways, PTL

(* A transaction is built only when the last refresh has read every pool   *)
(* of its route after the request was made, whatever the index wrote       *)
(* before and whatever it writes meanwhile.                                *)
THEOREM BuiltFresh == Spec => BuiltOnFreshReserves
  <1> DEFINE A == at # "built" /\ at' = "built" =>
                    \A p \in route : reserve'[p].a >= asked[p] /\ reserve'[p].b >= asked[p]
  <1>1. RequestInv /\ [Next]_routerVars => A
    <2> SUFFICES ASSUME RequestInv, Next, at # "built", at' = "built", NEW p \in route
                 PROVE  reserve'[p].a >= asked[p] /\ reserve'[p].b >= asked[p]
      BY DEF routerVars
    <2>1. ~IndexStep
      BY DEF IndexStep, Answer, request
    <2>2. PICK job \in jobs : RequestWrite(job)
      BY <2>1 DEF Next, RequestStep, Ask, NeedBoot, EnsureBoot, EnsureHot, EnsureOthers,
                  Ensured, Pick, RefreshPick, RequestFails, Answer, request
    <2>3. at = "final" /\ Live(reserve', p)
      BY <2>2 DEF RequestWrite, Continue, Ensured, Answer
    <2>4. job \in Jobs /\ AllRead(job) /\ ~Own(job) /\ TypeOK
      BY <2>2 DEF RequestWrite, Ready, RequestInv, TInv, TypeOK
    <2>5. Listed(job) = route /\ NoOlder(job)
      BY <2>2, <2>3, <2>4 DEF RequestInv
    <2> DEFINE i == Place(job, p)
    <2>6. /\ job.list[i] = p
          /\ i \in 1..Len(job.list)
          /\ 2 * i - 1 \in 1..Len(job.got) /\ 2 * i \in 1..Len(job.got)
      BY <2>4, <2>5, ReadOfOK
    <2>7. PoolOfVault(job.list, 2 * i - 1) = p /\ PoolOfVault(job.list, 2 * i) = p
      <3>1. i \in Nat
        BY <2>4, <2>6 DEF Jobs
      <3>2. ((2 * i - 1) + 1) \div 2 = i /\ (2 * i + 1) \div 2 = i
        <4> HIDE DEF i
        <4> QED BY <3>1, SMT
      <3> QED BY <2>6, <3>2 DEF PoolOfVault
    <2>8. reserve'[p] = [a |-> job.got[2 * i - 1], b |-> job.got[2 * i]]
      <3>1. reserve' = Written(job)
        BY <2>2 DEF RequestWrite
      <3> QED BY <2>4, <2>5, <3>1, WrittenOK DEF ReadOf
    <2>9. /\ job.got[2 * i - 1] = 0 \/ job.got[2 * i - 1] >= asked[p]
          /\ job.got[2 * i] = 0 \/ job.got[2 * i] >= asked[p]
      BY <2>5, <2>6, <2>7 DEF NoOlder
    <2>10. reserve'[p].a > 0 /\ reserve'[p].b > 0
      BY <2>3 DEF Live
    <2> HIDE DEF i
    <2> QED BY <2>8, <2>9, <2>10
  <1>2. RequestInv /\ [Next]_routerVars => [A]_routerVars
    BY <1>1
  <1> QED BY <1>2, RequestInvAlways, PTL DEF Spec, BuiltOnFreshReserves

-----------------------------------------------------------------------------
(* A full scan is full.  The pools of the pages merged so far are known,   *)
(* and a scan that ended without an error had merged every page.  Nothing  *)
(* takes a pool out of the index but a restart, which also puts the scan   *)
(* back to its first page.                                                 *)
FirstKnown(n, known) ==
    \A i \in 1..Len(AllPools) : i <= n => AllPools[i] \in known

ScanInv ==
    /\ TInv
    /\ FirstKnown(Scanned, pools)
    /\ gpaFull /\ errors = 0 => Scanned >= Len(AllPools)

(* What a step does to the scan, when it neither merges a page nor ends    *)
(* it: it leaves it, perhaps with more pools, or puts it back.             *)
ScanKept ==
    /\ pools \subseteq pools' /\ page' = page /\ gpaFull' = gpaFull
    /\ errors' = errors \/ errors' = errors + 1

ScanReset == page' = 0 /\ gpaFull' = FALSE

LEMMA ScanKnows ==
    ASSUME FirstKnown(Scanned, pools), pools \in SUBSET Pools, page \in Nat,
           Scanned >= Len(AllPools)
    PROVE  pools = Pools
  <1>1. Len(AllPools) \in Nat /\ Scanned \in Nat
    BY IndexAssumption DEF Scanned
  <1>2. ASSUME NEW p \in Pools PROVE p \in pools
    <2>1. PICK i \in 1..Len(AllPools) : AllPools[i] = p
      BY DEF Pools
    <2>2. i <= Scanned
      BY <1>1
    <2> QED BY <2>1, <2>2 DEF FirstKnown
  <1> QED BY <1>2

LEMMA IndexScan ==
    ASSUME [IndexNext]_vars
    PROVE  MergePage \/ FinishScan \/ ScanKept \/ ScanReset
  <1>1. ASSUME NEW job \in jobs, Write(job) PROVE ScanKept \/ ScanReset
    <2>1. \/ gpaFull' = FALSE /\ page' = 0
          \/ UNCHANGED <<gpaBusy, gpaFull, page>>
      BY <1>1, Zenon DEF Write, AfterStartup
    <2>2. UNCHANGED <<pools, errors>>
      BY <1>1 DEF Write, bounds
    <2> QED BY <2>1, <2>2 DEF ScanKept, ScanReset
  <1>2. CASE Restart
    BY <1>2 DEF Restart, Start, ScanReset
  <1>3. CASE StartScan
    BY <1>3 DEF StartScan, ScanReset
  <1>4. CASE StartFull \/ Bootstrap \/ BootstrapFails \/ (\E p \in Pools : Swap(p))
    BY <1>4 DEF StartFull, Bootstrap, BootstrapFails, Swap, memory, bounds, ScanKept
  <1>5. ASSUME NEW job \in jobs, ReadChunk(job) \/ Fail(job) PROVE ScanKept
    BY <1>5 DEF ReadChunk, Fail, ScanKept
  <1>6. CASE UNCHANGED vars
    BY <1>6 DEF vars, ScanKept
  <1> QED BY <1>1, <1>2, <1>3, <1>4, <1>5, <1>6 DEF IndexNext

LEMMA RequestScan ==
    ASSUME RequestStep
    PROVE  ScanKept \/ ScanReset
  <1>1. CASE Start(cache)
    BY <1>1 DEF Start, ScanReset
  <1>2. ASSUME NEW job \in jobs, RequestWrite(job) PROVE ScanKept
    BY <1>2 DEF RequestWrite, bounds, ScanKept
  <1>3. CASE EnsureBoot \/ EnsureHot \/ Pick \/ RefreshPick
    BY <1>3 DEF EnsureBoot, EnsureHot, Pick, RefreshPick, bounds, ScanKept
  <1>4. CASE Ask \/ NeedBoot \/ EnsureOthers
    BY <1>4 DEF Ask, NeedBoot, EnsureOthers, vars, ScanKept
  <1>5. CASE RequestFails /\ ~Start(cache)
    BY <1>5 DEF RequestFails, ScanKept
  <1> QED BY <1>1, <1>2, <1>3, <1>4, <1>5 DEF RequestStep

LEMMA ScanInvStep ==
    ASSUME ScanInv, TInv', MergePage \/ FinishScan \/ ScanKept \/ ScanReset
    PROVE  ScanInv'
  <1>1. /\ Len(AllPools) \in Nat /\ PageSize \in Nat \ {0} /\ MaxErrors \in Nat
        /\ page \in Nat /\ errors \in Nat
    BY IndexAssumption DEF ScanInv, TInv, TypeOK
  <1>2. CASE MergePage
    <2>1. page' = page + 1 /\ pools' = pools \cup Fresh /\ gpaFull' = gpaFull /\ errors' = errors
      BY <1>2 DEF MergePage, bounds
    <2>2. Scanned \in Nat /\ Scanned' = Scanned + PageSize
      BY <1>1, <2>1 DEF Scanned
    <2>3. ASSUME NEW i \in 1..Len(AllPools), i <= Scanned'
          PROVE  AllPools[i] \in pools'
      <3>1. CASE i <= Scanned
        BY <2>1, <3>1 DEF ScanInv, FirstKnown
      <3>2. CASE Scanned < i /\ i <= Scanned + PageSize
        BY <2>1, <3>2 DEF Fresh, PageOf
      <3> QED BY <1>1, <2>2, <2>3, <3>1, <3>2
    <2>4. gpaFull' /\ errors' = 0 => Scanned' >= Len(AllPools)
      BY <1>1, <2>1, <2>2 DEF ScanInv
    <2> QED BY <2>3, <2>4 DEF ScanInv, FirstKnown
  <1>3. CASE FinishScan
    <2>1. page' = page /\ pools' = pools /\ (LastPage \/ errors' = errors + 1)
      BY <1>3 DEF FinishScan
    <2>2. Scanned' = Scanned
      BY <2>1 DEF Scanned
    <2>3. errors' = 0 => Scanned' >= Len(AllPools)
      BY <1>1, <2>1, <2>2 DEF LastPage
    <2> QED BY <2>1, <2>2, <2>3 DEF ScanInv, FirstKnown
  <1>4. CASE ScanKept
    <2>1. Scanned' = Scanned
      BY <1>4 DEF ScanKept, Scanned
    <2>2. gpaFull' /\ errors' = 0 => gpaFull /\ errors = 0
      BY <1>1, <1>4 DEF ScanKept
    <2> QED BY <1>4, <2>1, <2>2 DEF ScanKept, ScanInv, FirstKnown
  <1>5. CASE ScanReset
    <2>1. Scanned' = 0
      BY <1>1, <1>5 DEF ScanReset, Scanned
    <2> QED BY <1>1, <1>5, <2>1 DEF ScanReset, ScanInv, FirstKnown
  <1> QED BY <1>2, <1>3, <1>4, <1>5

LEMMA ScanInvInit == IndexInit => ScanInv
  <1> SUFFICES ASSUME IndexInit PROVE ScanInv
    OBVIOUS
  <1>1. Scanned = 0 /\ ~gpaFull
    BY IndexAssumption DEF IndexInit, Scanned
  <1>2. FirstKnown(Scanned, pools)
    BY <1>1, IndexAssumption DEF FirstKnown
  <1> QED BY <1>1, <1>2, IndexInitTyped DEF ScanInv

LEMMA ScanInvFull == ScanInv => FullScanIsFull
  BY ScanKnows DEF ScanInv, TInv, TypeOK, FullScanIsFull

(* Where no call failed, a scan that says it was full has found every      *)
(* pool, however many pools and pages there are and however the refreshes, *)
(* saves and restarts fall between its pages.                              *)
THEOREM FullScan == IndexSpec => []FullScanIsFull
  <1>1. ScanInv /\ [IndexNext]_vars => ScanInv'
    BY IndexScan, IndexStepTyped, ScanInvStep DEF ScanInv
  <1> QED BY <1>1, ScanInvInit, ScanInvFull, PTL DEF IndexSpec

(* The same while a swap request is served: what it adds to the index, and *)
(* the restart of a process it ends, leave a full scan full.               *)
THEOREM FullScanServed == Spec => []FullScanIsFull
  <1>1. Init => ScanInv
    BY ScanInvInit DEF Init
  <1>2. RequestInv /\ ScanInv /\ [Next]_routerVars => ScanInv'
    <2> SUFFICES ASSUME RequestInv, ScanInv, [Next]_routerVars PROVE ScanInv'
      OBVIOUS
    <2>1. CASE [IndexNext]_vars
      BY <2>1, IndexScan, IndexStepTyped, ScanInvStep DEF ScanInv
    <2>2. CASE RequestStep
      BY <2>2, RequestScan, RequestStepTyped, ScanInvStep DEF RequestInv, ScanInv
    <2> QED BY <2>1, <2>2 DEF Next, IndexStep, routerVars, vars
  <1> QED BY <1>1, <1>2, RequestInvAlways, ScanInvFull, PTL DEF Spec

-----------------------------------------------------------------------------
(* How the index catches up. *)

(* What a refresh has read is still so, and one of everything has          *)
(* everything on its list.                                                 *)
Fit(job) ==
    /\ \A k \in 1..Len(job.got) : job.got[k] = chain[PoolOfVault(job.list, k)]
    /\ job.by = "full" => Listed(job) = Pools

Unfit == {job \in jobs : ~Fit(job)}

(* The pools whose reserves in the index are not those of the chain. *)
Behind == {p \in Pools : reserve[p] # [a |-> chain[p], b |-> chain[p]]}

(* Nothing trades, fails or is restarted. *)
Undisturbed == UNCHANGED <<chain, errors, restarts>>

(* A refresh goes on where another had come to. *)
GoesOnFrom(j, job) ==
    j.by = job.by /\ j.list = job.list /\ Len(job.got) <= Len(j.got)

(* Once the scan has found every pool and nothing is in the way, no        *)
(* refresh turns stale that was not; with the stale ones gone no write     *)
(* takes a pool back, and the first refresh of everything ends with every  *)
(* pool as it is on the chain.                                             *)
IndexHeals ==
    [][Undisturbed /\ pools = Pools =>
        /\ pools' = Pools
        /\ \A j \in Unfit' : \E job \in Unfit : GoesOnFrom(j, job)
        /\ Unfit = {} =>
            /\ Behind' \subseteq Behind
            /\ \A job \in jobs : job.by = "full" /\ Write(job) => Behind' = {}]_vars

LEMMA NewIsFit ==
    ASSUME NEW by \in Origins, NEW S \in SUBSET Pools, by = "full" => S = Pools
    PROVE  /\ Fit(NewJob(by, S))
           /\ \A job \in Started(by, S) : Fit(job)
  <1>1. ASSUME NEW job, IsNew(job, S), job.by = by PROVE Fit(job)
    <2>1. Len(job.got) = 0
      BY <1>1 DEF IsNew
    <2> QED BY <1>1, <2>1 DEF IsNew, Fit
  <1> QED BY <1>1, NewJobOK, StartedOK

(* A chunk read with nothing left out is as the chain is now. *)
LEMMA LongerFit ==
    ASSUME TypeOK, NEW job \in Jobs, Within(job), ~AllRead(job), Fit(job)
    PROVE  Fit(Longer(job, 0))
  <1> DEFINE g == Len(job.got)
             c == ChunkSize(job)
             new == Longer(job, 0)
  <1>1. /\ new.by = job.by /\ new.list = job.list /\ Len(new.got) = g + c
        /\ \A k \in 1..g : new.got[k] = job.got[k]
        /\ \A k \in 1..c : new.got[g + k] = ChunkOf(job, 0)[k]
    BY LongerOK
  <1>2. g \in Nat /\ c \in Nat
    BY Lengths, ChunkSizeFits
  <1>3. ASSUME NEW k \in 1..(g + c)
        PROVE  new.got[k] = chain[PoolOfVault(job.list, k)]
    <2>1. CASE k <= g
      <3>1. k \in 1..g
        BY <1>2, <2>1
      <3> QED BY <1>1, <3>1 DEF Fit
    <2>2. CASE ~(k <= g)
      <3> DEFINE i == k - g
      <3>1. i \in 1..c /\ g + i = k /\ k # 0
        <4> HIDE DEF g, c
        <4> QED BY <1>2, <2>2
      <3>2. ChunkOf(job, 0)[i] = IF g + i = 0 THEN 0 ELSE chain[PoolOfVault(job.list, g + i)]
        BY <3>1 DEF ChunkOf
      <3> HIDE DEF g, c, new, i
      <3> QED BY <1>1, <3>1, <3>2
    <2> QED BY <2>1, <2>2
  <1>4. Listed(new) = Listed(job)
    BY <1>1 DEF Listed
  <1> QED BY <1>1, <1>3, <1>4 DEF Fit

(* What an undisturbed step does to the refreshes. *)
LEMMA UndisturbedJobs ==
    ASSUME TInv, [IndexNext]_vars, Undisturbed, pools = Pools, NEW j \in jobs'
    PROVE  \/ j \in jobs
           \/ Fit(j)
           \/ \E job \in jobs : ~AllRead(job) /\ j = Longer(job, 0)
  <1>1. /\ "full" \in Origins /\ "page" \in Origins /\ "bootstrap" \in Origins
        /\ "warm" \in Origins
    BY DEF Origins
  <1>2. Hot \in SUBSET Pools /\ Fresh \in SUBSET Pools
    BY IndexAssumption DEF Hot, Fresh, PageOf, Pools
  <1>3. errors \in Nat /\ restarts \in Nat
    BY IndexAssumption DEF TInv, TypeOK
  <1>4. ASSUME NEW job \in jobs, ReadChunk(job)
        PROVE  ~AllRead(job) /\ jobs' = (jobs \ {job}) \cup {Longer(job, 0)}
    <2>1. PICK gone \in {0} \cup (IF errors < MaxErrors THEN 1..(2 * Len(job.list)) ELSE {}) :
            /\ jobs' = (jobs \ {job}) \cup {[job EXCEPT !.got = @ \o ChunkOf(job, gone)]}
            /\ errors' = IF gone = 0 THEN errors ELSE errors + 1
      BY <1>4 DEF ReadChunk
    <2>2. gone = 0
      BY <1>3, <2>1 DEF Undisturbed
    <2> QED BY <1>4, <2>1, <2>2 DEF ReadChunk, Longer
  <1>5. CASE MergePage
    <2>1. jobs' = jobs \cup Started("page", Fresh)
      BY <1>5 DEF MergePage
    <2> QED BY <1>1, <1>2, <2>1, NewIsFit
  <1>6. CASE StartFull
    <2>1. jobs' = jobs \cup {NewJob("full", pools)}
      BY <1>6 DEF StartFull
    <2> QED BY <1>1, <2>1, NewIsFit
  <1>7. CASE Bootstrap
    <2>1. jobs' = jobs \cup Started("bootstrap", Hot)
      BY <1>7 DEF Bootstrap
    <2> QED BY <1>1, <1>2, <2>1, NewIsFit
  <1>8. ASSUME NEW job \in jobs, Write(job)
        PROVE  j \in jobs \/ Fit(j)
    <2>1. j \in jobs \/ j \in Started("warm", pools \cap Warm)
      BY <1>8 DEF Write
    <2>2. pools \cap Warm \in SUBSET Pools
      OBVIOUS
    <2> QED BY <1>1, <2>1, <2>2, NewIsFit
  <1>9. ~Restart /\ \A job \in jobs : ~Fail(job)
    BY <1>3 DEF Undisturbed, Restart, Fail
  <1>10. CASE StartScan \/ FinishScan \/ BootstrapFails
              \/ (\E p \in Pools : Swap(p)) \/ UNCHANGED vars
    BY <1>10 DEF StartScan, FinishScan, BootstrapFails, Swap, memory, vars
  <1> QED BY <1>4, <1>5, <1>6, <1>7, <1>8, <1>9, <1>10 DEF IndexNext

(* The write of a refresh that is fit brings its pools up to date and      *)
(* leaves the others alone.                                                *)
LEMMA FitWrites ==
    ASSUME TypeOK, pools = Pools, NEW job \in Jobs, AllRead(job), Fit(job), NEW p \in Pools
    PROVE  IF p \in Listed(job) THEN Written(job)[p] = [a |-> chain[p], b |-> chain[p]]
           ELSE job.by # "full" /\ Written(job)[p] = reserve[p]
  <1>1. CASE p \in Listed(job)
    <2> DEFINE i == Place(job, p)
    <2>1. /\ i \in 1..Len(job.list) /\ job.list[i] = p
          /\ 2 * i - 1 \in 1..Len(job.got) /\ 2 * i \in 1..Len(job.got)
      BY <1>1, ReadOfOK
    <2>2. i \in Nat
      BY <2>1, Lengths
    <2> HIDE DEF i
    <2>3. ((2 * i - 1) + 1) \div 2 = i /\ (2 * i + 1) \div 2 = i
      BY <2>2, SMT
    <2>4. job.got[2 * i - 1] = chain[p] /\ job.got[2 * i] = chain[p]
      BY <2>1, <2>3 DEF Fit, PoolOfVault
    <2>5. ReadOf(job, p) = [a |-> chain[p], b |-> chain[p]]
      BY <2>4 DEF ReadOf, i
    <2> QED BY <1>1, <2>5, WrittenOK
  <1>2. CASE p \notin Listed(job)
    BY <1>2 DEF Fit, Written
  <1> QED BY <1>1, <1>2

LEMMA IndexHealsStep ==
    ASSUME TInv, [IndexNext]_vars, Undisturbed, pools = Pools
    PROVE  /\ pools' = Pools
           /\ \A j \in Unfit' : \E job \in Unfit : GoesOnFrom(j, job)
           /\ Unfit = {} =>
                /\ Behind' \subseteq Behind
                /\ \A job \in jobs : job.by = "full" /\ Write(job) => Behind' = {}
  <1>1. TypeOK /\ \A job \in jobs : job \in Jobs /\ Within(job)
    BY DEF TInv, TypeOK
  <1>2. chain' = chain /\ errors' = errors /\ restarts' = restarts
    BY DEF Undisturbed
  <1>3. pools' = Pools
    <2>1. restarts \in Nat /\ Hot \in SUBSET Pools /\ Fresh \in SUBSET Pools
      BY <1>1, IndexAssumption DEF TypeOK, Hot, Fresh, PageOf, Pools
    <2>2. CASE MergePage \/ Bootstrap
      BY <2>1, <2>2 DEF MergePage, Bootstrap
    <2>3. ~Restart
      BY <1>2, <2>1 DEF Restart
    <2>4. CASE UNCHANGED pools
      BY <2>4
    <2>5. MergePage \/ Bootstrap \/ Restart \/ UNCHANGED pools
      BY DEF IndexNext, StartScan, FinishScan, StartFull, BootstrapFails, ReadChunk,
             Write, Fail, Swap, memory, vars
    <2> QED BY <2>2, <2>3, <2>4, <2>5
  <1>4. ASSUME NEW j \in Unfit' PROVE \E job \in Unfit : GoesOnFrom(j, job)
    <2>1. j \in jobs' /\ ~Fit(j)
      BY <1>2, <1>4 DEF Unfit, Fit
    <2>2. CASE j \in jobs
      BY <1>1, <2>1, <2>2, Lengths DEF Unfit, GoesOnFrom
    <2>3. ASSUME NEW job \in jobs, ~AllRead(job), j = Longer(job, 0)
          PROVE  job \in Unfit /\ GoesOnFrom(j, job)
      <3>1. ~Fit(job)
        BY <1>1, <2>1, <2>3, LongerFit
      <3>2. j.by = job.by /\ j.list = job.list /\ Len(j.got) = Len(job.got) + ChunkSize(job)
        BY <1>1, <2>3, LongerOK
      <3>3. Len(job.got) \in Nat /\ ChunkSize(job) \in Nat
        BY <1>1, <2>3, Lengths, ChunkSizeFits
      <3> QED BY <3>1, <3>2, <3>3 DEF Unfit, GoesOnFrom
    <2> QED BY <2>1, <2>2, <2>3, UndisturbedJobs
  <1>5. ASSUME Unfit = {}, NEW job \in jobs, Write(job)
        PROVE  Behind' \subseteq Behind /\ (job.by = "full" => Behind' = {})
    <2>1. AllRead(job) /\ reserve' = Written(job) /\ Fit(job)
      BY <1>5 DEF Write, Unfit
    <2>2. \A p \in Pools :
            IF p \in Listed(job) THEN reserve'[p] = [a |-> chain[p], b |-> chain[p]]
            ELSE job.by # "full" /\ reserve'[p] = reserve[p]
      BY <1>1, <2>1, FitWrites
    <2> QED BY <1>2, <2>2 DEF Behind
  <1>6. reserve' = reserve => Behind' \subseteq Behind
    BY <1>2 DEF Behind
  <1>7. (\E job \in jobs : Write(job)) \/ reserve' = reserve
    <2>1. restarts \in Nat
      BY <1>1, IndexAssumption DEF TypeOK
    <2> QED BY <1>2, <2>1
            DEF IndexNext, StartScan, MergePage, FinishScan, StartFull, Bootstrap,
                BootstrapFails, ReadChunk, Fail, Restart, Swap, memory, vars
  <1> QED BY <1>3, <1>4, <1>5, <1>6, <1>7

(* For any number of pools, chunks and refreshes: what IndexCatchesUp      *)
(* rests on.  No step of the index by itself, once it has every pool,      *)
(* makes a refresh stale or takes a pool back to reserves the chain no     *)
(* longer has, except the write of a refresh that was stale already; and   *)
(* when there is none, one refresh of everything catches up.               *)
THEOREM QuietIndexHeals == IndexSpec => IndexHeals
  <1>1. TInv /\ [IndexNext]_vars =>
            [Undisturbed /\ pools = Pools =>
                /\ pools' = Pools
                /\ \A j \in Unfit' : \E job \in Unfit : GoesOnFrom(j, job)
                /\ Unfit = {} =>
                    /\ Behind' \subseteq Behind
                    /\ \A job \in jobs : job.by = "full" /\ Write(job) => Behind' = {}]_vars
    BY IndexHealsStep
  <1> QED BY <1>1, IndexInitTyped, IndexStepTyped, PTL DEF IndexSpec, IndexHeals

-----------------------------------------------------------------------------
(* The quotes of the service. *)

(* What a fee of the swap, rounded up, leaves of an amount. *)
Less(amount, fee) == amount - FeeCeil(amount, fee)

FeeOK(fee) == fee.num \in Nat /\ fee.den \in Nat /\ fee.num <= fee.den

(* A fee takes no more than there is, and more is left of more: the fee on *)
(* the difference, rounded up, is no more than the difference.             *)
LEMMA LessOK ==
    ASSUME NEW a \in Nat, NEW fee, FeeOK(fee)
    PROVE  /\ Less(a, fee) \in Nat
           /\ Less(a, fee) <= a
           /\ \A b \in Nat : a <= b => Less(a, fee) <= Less(b, fee)
  <1> DEFINE n == fee.num
             d == fee.den
             up(x) == (x * n + d - 1) \div d
  <1>1. n \in Nat /\ d \in Nat /\ n <= d
    BY DEF FeeOK
  <1>2. \A x : Less(x, fee) = IF n = 0 \/ d = 0 THEN x - 0 ELSE x - up(x)
    BY DEF Less, FeeCeil
  <1> HIDE DEF n, d
  <1>3. ASSUME NEW x \in Nat, d # 0
        PROVE  up(x) \in Nat /\ x * n <= up(x) * d /\ up(x) * d < x * n + d /\ up(x) <= x
    <2> DEFINE c == up(x)
    <2>1. x * n + d - 1 \in Nat /\ x * n \in Nat /\ d \in Nat \ {0}
      BY <1>1, <1>3, SMT
    <2>2. c \in Nat /\ c * d <= x * n + d - 1 /\ x * n + d - 1 < c * d + d
      BY <2>1, DivIsFloor
    <2> HIDE DEF c
    <2>3. c * d \in Nat
      BY <1>1, <2>2, SMT
    <2>4. x * n <= c * d /\ c * d < x * n + d
      BY <1>1, <2>1, <2>2, <2>3, SMT
    <2>5. x * n <= x * d
      BY <1>1, SMT
    <2>6. (x + 1) * d = x * d + d /\ x * d \in Nat
      BY <1>1, SMT
    <2>7. c * d < (x + 1) * d
      BY <1>1, <2>1, <2>3, <2>4, <2>5, <2>6, SMT
    <2>8. c < x + 1
      BY <1>1, <2>2, <2>7, MulCancels, SMT
    <2> QED BY <2>2, <2>4, <2>8 DEF c
  <1>4. ASSUME NEW b \in Nat, a <= b, d # 0
        PROVE  a - up(a) <= b - up(b)
    <2> DEFINE p == up(a)
               q == up(b)
    <2>1. p \in Nat /\ a * n <= p * d
      BY <1>3, <1>4
    <2>2. q \in Nat /\ q * d < b * n + d
      BY <1>3, <1>4
    <2> HIDE DEF p, q
    <2>3. b - a \in Nat
      BY <1>4
    <2> DEFINE more == b - a
    <2>4. b * n = a * n + more * n /\ more * n <= more * d
      BY <1>1, <2>3, SMT
    <2> HIDE DEF more
    <2>5. more \in Nat
      BY <2>3 DEF more
    <2>6. (p + more + 1) * d = p * d + more * d + d
      BY <1>1, <2>1, <2>5, SMT
    <2>7. /\ a * n \in Nat /\ b * n \in Nat /\ more * n \in Nat /\ more * d \in Nat
          /\ p * d \in Nat /\ q * d \in Nat
      BY <1>1, <2>1, <2>2, <2>5, SMT
    <2>8. q * d < (p + more + 1) * d
      BY <1>1, <2>1, <2>2, <2>4, <2>6, <2>7, SMT
    <2>9. q < p + more + 1
      BY <1>1, <2>1, <2>2, <2>5, <2>8, MulCancels, SMT
    <2>10. a - p <= b - q
      BY <2>1, <2>2, <2>5, <2>9 DEF more
    <2> QED BY <2>10 DEF p, q
  <1> HIDE DEF up
  <1>5. d # 0 => up(a) \in Nat /\ up(a) <= a
    BY <1>3
  <1>6. \A b \in Nat : a <= b /\ d # 0 => a - up(a) <= b - up(b)
    BY <1>4
  <1> QED BY <1>2, <1>5, <1>6

(* The three fees of a pool, one after the other. *)
LessFees(amount, fees) == Less(Less(Less(amount, fees[1]), fees[2]), fees[3])

FeesOK(fees) == \A k \in 1..3 : FeeOK(fees[k])

(* They leave no more than there is, and more of more. *)
LEMMA LessFeesOK ==
    ASSUME NEW a \in Nat, NEW fees, FeesOK(fees)
    PROVE  /\ LessFees(a, fees) \in Nat
           /\ LessFees(a, fees) <= a
           /\ \A b \in Nat : a <= b => LessFees(a, fees) <= LessFees(b, fees)
  <1>1. FeeOK(fees[1]) /\ FeeOK(fees[2]) /\ FeeOK(fees[3])
    BY DEF FeesOK
  <1>2. ASSUME NEW x \in Nat
        PROVE  /\ Less(x, fees[1]) \in Nat /\ Less(x, fees[1]) <= x
               /\ Less(Less(x, fees[1]), fees[2]) \in Nat
               /\ Less(Less(x, fees[1]), fees[2]) <= Less(x, fees[1])
               /\ LessFees(x, fees) \in Nat
               /\ LessFees(x, fees) <= Less(Less(x, fees[1]), fees[2])
    <2>1. Less(x, fees[1]) \in Nat /\ Less(x, fees[1]) <= x
      BY <1>1, LessOK
    <2>2. Less(Less(x, fees[1]), fees[2]) \in Nat
          /\ Less(Less(x, fees[1]), fees[2]) <= Less(x, fees[1])
      BY <1>1, <2>1, LessOK
    <2> QED BY <1>1, <2>1, <2>2, LessOK DEF LessFees
  <1>3. LessFees(a, fees) \in Nat /\ LessFees(a, fees) <= a
    <2> DEFINE x == Less(a, fees[1])
               y == Less(x, fees[2])
               z == LessFees(a, fees)
    <2>1. x \in Nat /\ x <= a /\ y \in Nat /\ y <= x /\ z \in Nat /\ z <= y
      BY <1>2
    <2> HIDE DEF x, y, z
    <2>2. z \in Nat /\ z <= a
      BY <2>1
    <2> QED BY <2>2 DEF z
  <1>4. ASSUME NEW b \in Nat, a <= b
        PROVE  LessFees(a, fees) <= LessFees(b, fees)
    <2>1. Less(a, fees[1]) <= Less(b, fees[1])
      BY <1>1, <1>4, LessOK
    <2>2. Less(Less(a, fees[1]), fees[2]) <= Less(Less(b, fees[1]), fees[2])
      BY <1>1, <1>2, <2>1, LessOK
    <2> QED BY <1>1, <1>2, <2>2, LessOK DEF LessFees
  <1> QED BY <1>3, <1>4

(* The recursive functions of SwapOut and ProgramOut are the three fees.   *)
LEMMA FeesUnfold ==
    ASSUME NEW n, NEW fees
    PROVE  LET less[i \in 0..3] ==
                   IF i = 0 THEN n ELSE less[i - 1] - FeeCeil(less[i - 1], fees[i])
           IN  less[3] = LessFees(n, fees)
  <1> DEFINE l1 == n - FeeCeil(n, fees[1])
             l2 == l1 - FeeCeil(l1, fees[2])
             l3 == l2 - FeeCeil(l2, fees[3])
             Step(l) == [i \in 0..3 |-> IF i = 0 THEN n ELSE l[i - 1] - FeeCeil(l[i - 1], fees[i])]
             w == [i \in 0..3 |-> IF i = 0 THEN n ELSE IF i = 1 THEN l1 ELSE IF i = 2 THEN l2 ELSE l3]
             less == CHOOSE l : l = Step(l)
  <1>1. w[0] = n /\ w[1] = l1 /\ w[2] = l2 /\ w[3] = l3
    BY SMT
  <1>2. w = Step(w)
    <2> HIDE DEF l1, l2, l3
    <2>1. \A i \in 0..3 : w[i] = IF i = 0 THEN n ELSE w[i - 1] - FeeCeil(w[i - 1], fees[i])
      BY SMT DEF l1, l2, l3
    <2> HIDE DEF w
    <2>2. w = [i \in 0..3 |-> w[i]]
      BY DEF w
    <2> QED BY <2>1, <2>2
  <1>3. less = Step(less)
    <2> HIDE DEF Step
    <2> QED BY <1>2
  <1>4. less[3] = LessFees(n, fees)
    <2> HIDE DEF less
    <2>1. \A i \in 0..3 : less[i] = IF i = 0 THEN n ELSE less[i - 1] - FeeCeil(less[i - 1], fees[i])
      BY <1>3
    <2> HIDE DEF Step
    <2>2. /\ less[1] = less[1 - 1] - FeeCeil(less[1 - 1], fees[1])
          /\ less[2] = less[2 - 1] - FeeCeil(less[2 - 1], fees[2])
          /\ less[3] = less[3 - 1] - FeeCeil(less[3 - 1], fees[3])
      BY <2>1
    <2>3. 1 - 1 = 0 /\ 2 - 1 = 1 /\ 3 - 1 = 2
      OBVIOUS
    <2> QED BY <2>1, <2>2, <2>3 DEF LessFees, Less
  <1> QED BY <1>4

(* SwapOut and ProgramOut with the fees written out. *)
LEMMA SwapOutUnfold ==
    ASSUME NEW n, NEW rI, NEW rO, NEW pool
    PROVE  SwapOut(n, rI, rO, pool) =
               IF n <= 0 \/ rI <= 0 \/ rO <= 0 \/ LessFees(n, pool.fees) <= 0 THEN 0
               ELSE (LessFees(n, pool.fees) * rO) \div (rI + LessFees(n, pool.fees))
  BY FeesUnfold DEF SwapOut

LEMMA ProgramOutUnfold ==
    ASSUME NEW n, NEW rI, NEW rO, NEW fees
    PROVE  ProgramOut(n, rI, rO, fees) =
               rO - (rI * rO + (rI + LessFees(n, fees)) - 1) \div (rI + LessFees(n, fees))
  BY FeesUnfold DEF ProgramOut

(* What the curve gives for x against reserves: more for more, and never   *)
(* all there is.                                                           *)
LEMMA CurveOK ==
    ASSUME NEW a \in Nat, NEW rI \in Nat \ {0}, NEW rO \in Nat
    PROVE  /\ (a * rO) \div (rI + a) \in Nat
           /\ ((a * rO) \div (rI + a)) * (rI + a) <= a * rO
           /\ a * rO < ((a * rO) \div (rI + a)) * (rI + a) + (rI + a)
           /\ (a * rO) \div (rI + a) <= rO
           /\ \A b \in Nat : a <= b => (a * rO) \div (rI + a) <= (b * rO) \div (rI + b)
  <1> DEFINE held(x) == rI + x
             q(x) == (x * rO) \div held(x)
  <1>1. ASSUME NEW x \in Nat
        PROVE  /\ held(x) \in Nat \ {0} /\ q(x) \in Nat
               /\ q(x) * held(x) <= x * rO /\ x * rO < q(x) * held(x) + held(x)
               /\ q(x) <= rO
    <2>1. held(x) \in Nat \ {0} /\ x * rO \in Nat
      BY SMT
    <2> DEFINE h == held(x)
               p == q(x)
    <2>2. p \in Nat /\ p * h <= x * rO /\ x * rO < p * h + h
      <3> HIDE DEF h
      <3> QED BY <2>1, DivIsFloor DEF h
    <2>3. x * rO < (rO + 1) * h
      BY SMT
    <2> HIDE DEF p, h
    <2>4. p * h \in Nat /\ (rO + 1) * h \in Nat
      BY <2>1, <2>2, SMT DEF h
    <2>5. p * h < (rO + 1) * h
      BY <2>1, <2>2, <2>3, <2>4, SMT
    <2>6. p < rO + 1
      BY <2>1, <2>2, <2>5, MulCancels, SMT DEF h
    <2>7. p <= rO
      BY <2>2, <2>6
    <2> QED BY <2>1, <2>2, <2>7 DEF p, h
  <1>2. ASSUME NEW b \in Nat, a <= b
        PROVE  q(a) <= q(b)
    <2> DEFINE p == q(a)
               more == b - a
               r == q(b)
    <2>1. more \in Nat /\ b = a + more
      BY <1>2
    <2>2. p \in Nat /\ p * (rI + a) <= a * rO /\ p <= rO
      BY <1>1
    <2>3. r \in Nat /\ b * rO < r * (rI + b) + (rI + b)
      BY <1>1
    <2> HIDE DEF p, r, more
    <2>4. p * more <= rO * more
      BY <2>1, <2>2, MulKeepsOrder
    <2>5. /\ p * (rI + b) = p * (rI + a) + p * more
          /\ b * rO = a * rO + rO * more
          /\ r * (rI + b) + (rI + b) = (r + 1) * (rI + b)
      BY <2>1, <2>2, <2>3, SMT
    <2>6. /\ p * (rI + a) \in Nat /\ p * more \in Nat /\ rO * more \in Nat
          /\ a * rO \in Nat /\ (r + 1) * (rI + b) \in Nat
      BY <2>1, <2>2, <2>3, SMT
    <2>7. p * (rI + b) < (r + 1) * (rI + b)
      BY <2>2, <2>3, <2>4, <2>5, <2>6, SMT
    <2>8. p < r + 1
      BY <2>2, <2>3, <2>7, MulCancels, SMT
    <2>9. p <= r
      BY <2>2, <2>3, <2>8
    <2> QED BY <2>9 DEF p, r
  <1>3. q(a) \in Nat /\ q(a) * held(a) <= a * rO /\ a * rO < q(a) * held(a) + held(a) /\ q(a) <= rO
    BY <1>1
  <1> QED BY <1>2, <1>3

(* A swap is quoted more for more, and no more than the pool has.          *)
LEMMA SwapOutOK ==
    ASSUME NEW a \in Nat, NEW rI \in Nat, NEW rO \in Nat, NEW pool, FeesOK(pool.fees)
    PROVE  /\ SwapOut(a, rI, rO, pool) \in Nat
           /\ \A b \in Nat : a <= b => SwapOut(a, rI, rO, pool) <= SwapOut(b, rI, rO, pool)
  <1> DEFINE x(n) == LessFees(n, pool.fees)
             q(n) == (x(n) * rO) \div (rI + x(n))
  <1>1. \A n \in Nat : /\ x(n) \in Nat /\ x(n) <= n
                       /\ \A m \in Nat : n <= m => x(n) <= x(m)
    BY LessFeesOK
  <1>2. \A n : SwapOut(n, rI, rO, pool) =
                   IF n <= 0 \/ rI <= 0 \/ rO <= 0 \/ x(n) <= 0 THEN 0 ELSE q(n)
    BY SwapOutUnfold
  <1>3. ASSUME NEW n \in Nat, rI # 0
        PROVE  q(n) \in Nat /\ \A m \in Nat : n <= m => q(n) <= q(m)
    <2>1. x(n) \in Nat
      BY <1>1
    <2> HIDE DEF x
    <2>2. (x(n) * rO) \div (rI + x(n)) \in Nat
      BY <1>3, <2>1, CurveOK
    <2>3. ASSUME NEW m \in Nat, n <= m PROVE q(n) <= q(m)
      <3>1. x(m) \in Nat /\ x(n) <= x(m)
        BY <1>1, <2>3
      <3> QED BY <1>3, <2>1, <3>1, CurveOK
    <2> QED BY <2>2, <2>3
  <1> HIDE DEF q, x
  <1>4. ASSUME NEW n \in Nat
        PROVE  SwapOut(n, rI, rO, pool) \in Nat
    BY <1>2, <1>3, SMT
  <1>5. ASSUME NEW b \in Nat, a <= b
        PROVE  SwapOut(a, rI, rO, pool) <= SwapOut(b, rI, rO, pool)
    <2>1. CASE a = 0 \/ rI = 0 \/ rO = 0 \/ x(a) = 0
      <3>1. SwapOut(a, rI, rO, pool) = 0
        BY <1>2, <2>1
      <3> QED BY <1>4, <3>1
    <2>2. CASE ~(a = 0 \/ rI = 0 \/ rO = 0 \/ x(a) = 0)
      <3>1. x(a) \in Nat /\ x(b) \in Nat /\ x(a) <= x(b)
        BY <1>1, <1>5
      <3>2. SwapOut(a, rI, rO, pool) = q(a) /\ SwapOut(b, rI, rO, pool) = q(b)
        BY <1>2, <1>5, <2>2, <3>1
      <3> QED BY <1>3, <1>5, <2>2, <3>2
    <2> QED BY <2>1, <2>2
  <1> QED BY <1>4, <1>5

(* A mint's own fee of at most all, in bps.                                *)
BpsOK(bps) == bps \in Nat /\ bps <= 10000

(* It leaves more of more. *)
LEMMA NetOK ==
    ASSUME NEW a \in Nat, NEW bps, BpsOK(bps)
    PROVE  /\ NetAfterTransferFee(a, bps) \in Nat
           /\ \A b \in Nat : a <= b => NetAfterTransferFee(a, bps) <= NetAfterTransferFee(b, bps)
  <1> DEFINE fee == [num |-> bps, den |-> 10000]
             net(n) == NetAfterTransferFee(n, bps)
  <1>1. FeeOK(fee)
    BY DEF FeeOK, BpsOK
  <1>2. \A n : net(n) = IF bps = 0 \/ n <= 0 THEN n ELSE Less(n, fee)
    BY DEF NetAfterTransferFee, Less
  <1> HIDE DEF fee, net
  <1>3. ASSUME NEW n \in Nat
        PROVE  net(n) \in Nat
    <2>1. Less(n, fee) \in Nat
      BY <1>1, LessOK
    <2> QED BY <1>2, <2>1
  <1>4. ASSUME NEW b \in Nat, a <= b
        PROVE  net(a) <= net(b)
    <2>1. Less(a, fee) <= Less(b, fee) /\ Less(b, fee) \in Nat
      BY <1>1, <1>4, LessOK
    <2> QED BY <1>2, <1>4, <2>1
  <1> QED BY <1>3, <1>4 DEF net

(* An index whose pools and fees are numbers, no fee above its amount.     *)
IndexOK(index, mints) ==
    /\ DOMAIN index.pools \in SUBSET Nat /\ IsFiniteSet(DOMAIN index.pools)
    /\ \A i \in DOMAIN index.pools :
            /\ index.pools[i].reserveA \in Nat /\ index.pools[i].reserveB \in Nat
            /\ FeesOK(index.pools[i].fees)
    /\ \A m \in mints : BpsOK(index.transferFee[m])

(* A hop is quoted more for more.                                          *)
LEMMA QuoteLegOK ==
    ASSUME NEW index, NEW mints, IndexOK(index, mints), NEW i \in DOMAIN index.pools,
           NEW in \in mints, NEW out \in mints, NEW a \in Nat
    PROVE  /\ QuoteLeg(index, i, in, out, a) \in Nat
           /\ \A b \in Nat : a <= b =>
                QuoteLeg(index, i, in, out, a) <= QuoteLeg(index, i, in, out, b)
           /\ QuoteLeg(index, i, in, out, 0) = 0
  <1> DEFINE pool == index.pools[i]
             rI == ReserveIn(pool, in)
             rO == ReserveOut(pool, in)
             feeIn == index.transferFee[in]
             feeOut == index.transferFee[out]
             net(n) == NetAfterTransferFee(n, feeIn)
             swap(n) == SwapOut(net(n), rI, rO, pool)
             got(n) == NetAfterTransferFee(swap(n), feeOut)
  <1>1. /\ rI \in Nat /\ rO \in Nat /\ FeesOK(pool.fees)
        /\ BpsOK(feeIn) /\ BpsOK(feeOut)
    <2>1. /\ pool.reserveA \in Nat /\ pool.reserveB \in Nat /\ FeesOK(pool.fees)
          /\ BpsOK(feeIn) /\ BpsOK(feeOut)
      BY DEF IndexOK
    <2> HIDE DEF pool
    <2> QED BY <2>1 DEF ReserveIn, ReserveOut
  <1>2. \A n : QuoteLeg(index, i, in, out, n) = IF net(n) <= 0 THEN 0 ELSE got(n)
    BY DEF QuoteLeg
  <1>3. net(0) = 0
    BY SMT DEF NetAfterTransferFee
  <1> HIDE DEF pool, rI, rO, feeIn, feeOut
  <1>4. ASSUME NEW n \in Nat
        PROVE  net(n) \in Nat /\ swap(n) \in Nat /\ got(n) \in Nat
    <2>1. net(n) \in Nat
      BY <1>1, NetOK
    <2> HIDE DEF net
    <2>2. swap(n) \in Nat
      BY <1>1, <2>1, SwapOutOK
    <2> HIDE DEF swap
    <2> QED BY <1>1, <2>1, <2>2, NetOK
  <1>5. ASSUME NEW n \in Nat, NEW m \in Nat, n <= m
        PROVE  net(n) <= net(m) /\ got(n) <= got(m)
    <2>1. net(n) \in Nat /\ net(m) \in Nat /\ swap(n) \in Nat /\ swap(m) \in Nat
      BY <1>4
    <2>2. net(n) <= net(m)
      BY <1>1, <1>5, NetOK
    <2> HIDE DEF net
    <2>3. swap(n) <= swap(m)
      BY <1>1, <2>1, <2>2, SwapOutOK
    <2> HIDE DEF swap
    <2>4. got(n) <= got(m)
      BY <1>1, <2>1, <2>3, NetOK
    <2> QED BY <2>2, <2>4
  <1> HIDE DEF net, got
  <1>6. QuoteLeg(index, i, in, out, a) \in Nat /\ QuoteLeg(index, i, in, out, 0) = 0
    BY <1>2, <1>3, <1>4
  <1>7. ASSUME NEW b \in Nat, a <= b
        PROVE  QuoteLeg(index, i, in, out, a) <= QuoteLeg(index, i, in, out, b)
    <2>1. /\ net(a) \in Nat /\ net(b) \in Nat /\ got(a) \in Nat /\ got(b) \in Nat
          /\ net(a) <= net(b) /\ got(a) <= got(b)
      BY <1>4, <1>5, <1>7
    <2> QED BY <1>2, <2>1
  <1> QED BY <1>6, <1>7

Leg(i, in, out, amount, got) ==
    [some |-> TRUE, amountOut |-> got, hops |-> <<Hop(i, in, out, amount, got)>>]

(* The best leg is one of those there are, and none gives more.            *)
LEMMA BestLegOK ==
    ASSUME NEW S \in SUBSET Nat, IsFiniteSet(S), NEW got \in [S -> Nat],
           NEW in, NEW out, NEW amount
    PROVE  /\ \/ BestLeg(got, in, out, amount) = NoQuote
              \/ \E i \in S : /\ got[i] > 0
                              /\ BestLeg(got, in, out, amount) = Leg(i, in, out, amount, got[i])
           /\ OutOf(BestLeg(got, in, out, amount)) \in Nat
           /\ \A i \in S : got[i] <= OutOf(BestLeg(got, in, out, amount))
  <1> DEFINE paying == {i \in S : got[i] > 0}
             First(i) == \A j \in paying : got[j] < got[i] \/ (got[j] = got[i] /\ i <= j)
             best == CHOOSE i \in paying : First(i)
             leg == BestLeg(got, in, out, amount)
  <1>1. DOMAIN got = S
    OBVIOUS
  <1>2. leg = IF paying = {} THEN NoQuote ELSE Leg(best, in, out, amount, got[best])
    BY <1>1 DEF BestLeg, Leg
  <1>3. CASE paying = {}
    <2>1. leg = NoQuote
      BY <1>2, <1>3
    <2>2. OutOf(leg) = 0
      BY <2>1 DEF OutOf, NoQuote
    <2>3. \A i \in S : got[i] \in Nat /\ ~(got[i] > 0)
      BY <1>3
    <2> HIDE DEF leg
    <2>4. \A i \in S : got[i] <= OutOf(leg)
      BY <2>2, <2>3
    <2> QED BY <2>1, <2>2, <2>4 DEF leg
  <1>4. CASE paying # {}
    <2>1. IsFiniteSet(paying) /\ \A i \in paying : got[i] \in Nat
      BY FS_Subset
    <2>2. PICK i \in paying : \A j \in paying : got[j] <= got[i]
      <3> HIDE DEF paying
      <3> QED BY <1>4, <2>1, FiniteHasLargest
    <2> DEFINE top == {j \in paying : got[j] = got[i]}
    <2>3. top \in SUBSET Nat /\ top # {}
      OBVIOUS
    <2>4. PICK k \in top : \A j \in top : k <= j
      <3> HIDE DEF top
      <3> QED BY <2>3, NatHasLeast
    <2>5. k \in paying /\ First(k)
      BY <2>1, <2>2, <2>4
    <2>6. best \in paying /\ First(best)
      <3> HIDE DEF First, paying
      <3> QED BY <2>5
    <2>7. leg = Leg(best, in, out, amount, got[best])
      BY <1>2, <1>4
    <2>8. OutOf(leg) = got[best]
      BY <2>7 DEF OutOf, Leg
    <2>9. \A j \in S : got[j] <= got[best]
      <3>1. \A j \in paying : got[j] <= got[best]
        <4>1. \A j \in paying : got[j] < got[best] \/ got[j] = got[best]
          BY <2>6
        <4>2. \A j \in paying : got[j] \in Nat
          BY <2>1
        <4>3. got[best] \in Nat
          BY <2>6, <4>2
        <4> HIDE DEF paying, best
        <4> QED BY <4>1, <4>2, <4>3
      <3>2. \A j \in S : got[j] \in Nat /\ (j \notin paying => got[j] <= 0)
        OBVIOUS
      <3>3. got[best] \in Nat
        BY <2>1, <2>6
      <3> HIDE DEF paying, best
      <3> QED BY <3>1, <3>2, <3>3
    <2>10. best \in S /\ got[best] > 0 /\ got[best] \in Nat
      BY <2>6
    <2> HIDE DEF leg, best
    <2> QED BY <2>7, <2>8, <2>9, <2>10 DEF leg
  <1> QED BY <1>3, <1>4

(* Of the pools of a hop none gives more than the best.                    *)
LEMMA QuoteBestLegOK ==
    ASSUME NEW index, NEW mints, IndexOK(index, mints),
           NEW in \in mints, NEW out \in mints, NEW a \in Nat
    PROVE  /\ \/ QuoteBestLeg(index, in, out, a) = NoQuote
              \/ \E i \in LivePools(index, in, out) :
                    /\ QuoteLeg(index, i, in, out, a) > 0
                    /\ QuoteBestLeg(index, in, out, a)
                         = Leg(i, in, out, a, QuoteLeg(index, i, in, out, a))
           /\ OutOf(QuoteBestLeg(index, in, out, a)) \in Nat
           /\ \A i \in LivePools(index, in, out) :
                QuoteLeg(index, i, in, out, a) <= OutOf(QuoteBestLeg(index, in, out, a))
  <1> DEFINE S == LivePools(index, in, out)
             got == [i \in S |-> QuoteLeg(index, i, in, out, a)]
  <1>1. S \in SUBSET DOMAIN index.pools
    BY DEF LivePools
  <1>2. S \in SUBSET Nat /\ IsFiniteSet(S)
    BY <1>1, FS_Subset DEF IndexOK
  <1>3. got \in [S -> Nat] /\ \A i \in S : got[i] = QuoteLeg(index, i, in, out, a)
    BY <1>1, QuoteLegOK
  <1>4. QuoteBestLeg(index, in, out, a) = BestLeg(got, in, out, a)
    BY DEF QuoteBestLeg
  <1> HIDE DEF got, S
  <1>5. /\ \/ BestLeg(got, in, out, a) = NoQuote
           \/ \E i \in S : got[i] > 0 /\ BestLeg(got, in, out, a) = Leg(i, in, out, a, got[i])
        /\ OutOf(BestLeg(got, in, out, a)) \in Nat
        /\ \A i \in S : got[i] <= OutOf(BestLeg(got, in, out, a))
    BY <1>2, <1>3, BestLegOK
  <1> QED BY <1>3, <1>4, <1>5 DEF S

(* What a leg is.                                                          *)
LEMMA LegFields ==
    ASSUME NEW i, NEW in, NEW out, NEW amount, NEW got
    PROVE  /\ Leg(i, in, out, amount, got).some
           /\ Leg(i, in, out, amount, got).amountOut = got
           /\ Leg(i, in, out, amount, got).hops = <<Hop(i, in, out, amount, got)>>
           /\ OutOf(Leg(i, in, out, amount, got)) = got
           /\ ~NoQuote.some /\ OutOf(NoQuote) = 0
  BY DEF Leg, OutOf, NoQuote

(* By way of a mint, the best pools hop by hop give the most: more of the  *)
(* mint between never gives less of the last.                              *)
LEMMA QuoteTwoLegsOK ==
    ASSUME NEW index, NEW mints, IndexOK(index, mints),
           NEW in \in mints, NEW mid \in mints, NEW out \in mints, NEW a \in Nat
    PROVE  /\ \/ QuoteTwoLegs(index, in, mid, out, a) = NoQuote
              \/ \E i \in LivePools(index, in, mid), j \in LivePools(index, mid, out) :
                   \E b \in {QuoteLeg(index, i, in, mid, a)} :
                   \E c \in {QuoteLeg(index, j, mid, out, b)} :
                      /\ b > 0 /\ c > 0 /\ b \in Nat /\ c \in Nat
                      /\ QuoteTwoLegs(index, in, mid, out, a)
                           = [some |-> TRUE, amountOut |-> c,
                              hops |-> <<Hop(i, in, mid, a, b)>> \o <<Hop(j, mid, out, b, c)>>]
           /\ OutOf(QuoteTwoLegs(index, in, mid, out, a)) \in Nat
           /\ \A i \in LivePools(index, in, mid), j \in LivePools(index, mid, out) :
                QuoteLeg(index, j, mid, out, QuoteLeg(index, i, in, mid, a))
                    <= OutOf(QuoteTwoLegs(index, in, mid, out, a))
  <1> DEFINE First == LivePools(index, in, mid)
             Second == LivePools(index, mid, out)
             one(i) == QuoteLeg(index, i, in, mid, a)
             two(j, b) == QuoteLeg(index, j, mid, out, b)
             leg1 == QuoteBestLeg(index, in, mid, a)
             taken == QuoteTwoLegs(index, in, mid, out, a)
  <1>1. /\ leg1 = NoQuote \/ \E i \in First : one(i) > 0 /\ leg1 = Leg(i, in, mid, a, one(i))
        /\ \A i \in First : one(i) <= OutOf(leg1)
    BY QuoteBestLegOK
  <1>2. First \in SUBSET DOMAIN index.pools /\ Second \in SUBSET DOMAIN index.pools
    BY DEF LivePools
  <1>3. \A i \in First : one(i) \in Nat
    BY <1>2, QuoteLegOK
  <1>4. ASSUME NEW j \in Second, NEW b \in Nat
        PROVE  two(j, b) \in Nat /\ two(j, 0) = 0 /\ \A c \in Nat : b <= c => two(j, b) <= two(j, c)
    BY <1>2, QuoteLegOK
  <1>5. taken = Onward(index, leg1, mid, out)
    BY DEF QuoteTwoLegs
  <1> HIDE DEF taken, leg1, First, Second, one
  <1>6. CASE leg1 = NoQuote
    <2>1. taken = NoQuote /\ OutOf(leg1) = 0 /\ OutOf(taken) = 0
      BY <1>5, <1>6, LegFields DEF Onward
    <2>2. \A i \in First : one(i) = 0
      BY <1>1, <1>3, <2>1
    <2>3. \A j \in Second : two(j, 0) = 0
      BY <1>4
    <2> HIDE DEF two
    <2>4. \A i \in First, j \in Second : two(j, one(i)) <= OutOf(taken)
      BY <2>1, <2>2, <2>3
    <2> QED BY <2>1, <2>4 DEF taken, one, two, First, Second
  <1>7. ASSUME NEW i \in First, one(i) > 0, leg1 = Leg(i, in, mid, a, one(i))
        PROVE  /\ \/ taken = NoQuote
                  \/ \E j \in Second :
                       \E c \in {two(j, one(i))} :
                          /\ c > 0 /\ c \in Nat
                          /\ taken = [some |-> TRUE, amountOut |-> c,
                                      hops |-> <<Hop(i, in, mid, a, one(i))>>
                                               \o <<Hop(j, mid, out, one(i), c)>>]
               /\ OutOf(taken) \in Nat
               /\ \A k \in First, j \in Second : two(j, one(k)) <= OutOf(taken)
    <2> DEFINE b == one(i)
               leg2 == QuoteBestLeg(index, mid, out, b)
    <2>1. b \in Nat
      BY <1>3
    <2>2. leg1.some /\ leg1.amountOut = b /\ leg1.hops = <<Hop(i, in, mid, a, b)>> /\ OutOf(leg1) = b
      BY <1>7, LegFields
    <2>3. taken = Joined(leg1, leg2)
      BY <1>5, <2>2 DEF Onward
    <2>4. /\ leg2 = NoQuote \/ \E j \in Second : two(j, b) > 0 /\ leg2 = Leg(j, mid, out, b, two(j, b))
          /\ OutOf(leg2) \in Nat
          /\ \A j \in Second : two(j, b) <= OutOf(leg2)
      BY <2>1, QuoteBestLegOK DEF Second
    <2> HIDE DEF leg2, b
    <2>5. OutOf(taken) = OutOf(leg2)
      BY <2>3 DEF Joined, OutOf, NoQuote
    <2>6. ASSUME NEW k \in First, NEW j \in Second
          PROVE  two(j, one(k)) <= OutOf(taken)
      <3>1. one(k) \in Nat /\ one(k) <= b
        BY <1>1, <1>3, <2>2
      <3>2. two(j, one(k)) \in Nat /\ two(j, b) \in Nat /\ two(j, one(k)) <= two(j, b)
        BY <1>4, <2>1, <3>1
      <3> HIDE DEF two
      <3> QED BY <2>4, <2>5, <3>2
    <2>7. CASE leg2 = NoQuote
      <3>1. taken = NoQuote
        BY <2>3, <2>7, LegFields DEF Joined
      <3> QED BY <2>4, <2>5, <2>6, <3>1
    <2>8. ASSUME NEW j \in Second, two(j, b) > 0, leg2 = Leg(j, mid, out, b, two(j, b))
          PROVE  taken = [some |-> TRUE, amountOut |-> two(j, b),
                          hops |-> <<Hop(i, in, mid, a, b)>> \o <<Hop(j, mid, out, b, two(j, b))>>]
      <3> HIDE DEF two
      <3>1. leg2.some /\ leg2.amountOut = two(j, b) /\ leg2.hops = <<Hop(j, mid, out, b, two(j, b))>>
        BY <2>8, LegFields
      <3> QED BY <2>2, <2>3, <3>1 DEF Joined
    <2>9. \A j \in Second : two(j, b) \in Nat
      BY <1>4, <2>1
    <2> HIDE DEF two
    <2> QED BY <2>4, <2>5, <2>6, <2>7, <2>8, <2>9 DEF b
  <1>8. CASE leg1 # NoQuote
    <2>1. PICK i \in First : one(i) > 0 /\ leg1 = Leg(i, in, mid, a, one(i))
      BY <1>1, <1>8
    <2>2. one(i) \in Nat
      BY <1>3
    <2> QED BY <1>7, <2>1, <2>2 DEF taken, one, First, Second
  <1> QED BY <1>6, <1>8

(* The route taken gives no less than any other candidate.                 *)
LEMMA BestRouteOK ==
    ASSUME NEW index, NEW routes, DOMAIN routes = 1..3,
           \A i \in 1..3 : (routes[i].some => routes[i].amountOut \in Nat)
    PROVE  /\ OutOf(BestRoute(index, routes)) \in Nat
           /\ \A i \in 1..3 : OutOf(routes[i]) <= OutOf(BestRoute(index, routes))
  <1> DEFINE found == {i \in DOMAIN routes : routes[i].some}
             hooked(i) == UsesHookPool(index, routes[i])
             ahead(i, j) ==
                \/ routes[i].amountOut > routes[j].amountOut
                \/ /\ routes[i].amountOut = routes[j].amountOut
                   /\ \/ hooked(i) /\ ~hooked(j)
                      \/ hooked(i) = hooked(j) /\ i <= j
             First(i) == \A j \in found : ahead(i, j)
             best == CHOOSE i \in found : First(i)
             taken == BestRoute(index, routes)
  <1>1. taken = IF found = {} THEN NoQuote ELSE routes[best]
    BY DEF BestRoute
  <1>2. /\ found \in SUBSET (1..3) /\ \A i \in found : routes[i].amountOut \in Nat
        /\ \A i \in 1..3 : OutOf(routes[i]) = IF i \in found THEN routes[i].amountOut ELSE 0
    BY DEF OutOf
  <1>3. CASE found = {}
    <2>1. OutOf(taken) = 0
      BY <1>1, <1>3, LegFields
    <2> QED BY <1>2, <1>3, <2>1
  <1>4. CASE found # {}
    <2> DEFINE score(i) == 8 * routes[i].amountOut + (IF hooked(i) THEN 4 ELSE 0) + (3 - i)
               f == [i \in found |-> score(i)]
    <2>1. \A i \in found : f[i] \in Nat /\ f[i] = score(i)
      <3> SUFFICES ASSUME NEW i \in found
                   PROVE  score(i) \in Nat
        OBVIOUS
      <3>1. i \in 1..3 /\ routes[i].amountOut \in Nat
        BY <1>2
      <3> HIDE DEF hooked, found
      <3> QED BY <3>1
    <2>2. IsFiniteSet(found)
      BY <1>2, FS_Interval, FS_Subset
    <2>3. PICK i \in found : \A j \in found : f[j] <= f[i]
      <3> HIDE DEF found, f
      <3> QED BY <1>4, <2>1, <2>2, FiniteHasLargest
    <2>4. First(i)
      <3> SUFFICES ASSUME NEW j \in found
                   PROVE  ahead(i, j)
        OBVIOUS
      <3>1. score(j) <= score(i)
        BY <2>1, <2>3
      <3>2. /\ i \in 1..3 /\ j \in 1..3
            /\ routes[i].amountOut \in Nat /\ routes[j].amountOut \in Nat
        BY <1>2
      <3> HIDE DEF found, f
      <3>3. CASE hooked(i) /\ hooked(j)
        <4>1. 8 * routes[j].amountOut + 4 + (3 - j) <= 8 * routes[i].amountOut + 4 + (3 - i)
          BY <3>1, <3>3
        <4>2. hooked(i) = hooked(j)
          BY <3>3 DEF UsesHookPool
        <4> HIDE DEF hooked
        <4> QED BY <3>2, <4>1, <4>2
      <3>4. CASE hooked(i) /\ ~hooked(j)
        <4>1. 8 * routes[j].amountOut + 0 + (3 - j) <= 8 * routes[i].amountOut + 4 + (3 - i)
          BY <3>1, <3>4
        <4>2. routes[i].amountOut > routes[j].amountOut \/ routes[i].amountOut = routes[j].amountOut
          BY <3>2, <4>1
        <4> QED BY <3>4, <4>2, Zenon
      <3>5. CASE ~hooked(i) /\ hooked(j)
        <4>1. 8 * routes[j].amountOut + 4 + (3 - j) <= 8 * routes[i].amountOut + 0 + (3 - i)
          BY <3>1, <3>5
        <4> HIDE DEF hooked
        <4> QED BY <3>2, <4>1
      <3>6. CASE ~hooked(i) /\ ~hooked(j)
        <4>1. 8 * routes[j].amountOut + 0 + (3 - j) <= 8 * routes[i].amountOut + 0 + (3 - i)
          BY <3>1, <3>6
        <4>2. hooked(i) = hooked(j)
          BY <3>6 DEF UsesHookPool
        <4> HIDE DEF hooked
        <4> QED BY <3>2, <4>1, <4>2
      <3> QED BY <3>3, <3>4, <3>5, <3>6
    <2>5. best \in found /\ First(best)
      <3> HIDE DEF First, found
      <3> QED BY <2>4
    <2>6. taken = routes[best] /\ OutOf(taken) = routes[best].amountOut
      BY <1>1, <1>2, <1>4, <2>5
    <2>7. \A j \in found : routes[j].amountOut <= routes[best].amountOut
      <3>1. \A j \in found : \/ routes[best].amountOut > routes[j].amountOut
                             \/ routes[best].amountOut = routes[j].amountOut
        BY <2>5
      <3>2. routes[best].amountOut \in Nat
        BY <1>2, <2>5
      <3> HIDE DEF best, found
      <3> QED BY <1>2, <3>1, <3>2
    <2>8. routes[best].amountOut \in Nat
      BY <1>2, <2>5
    <2> HIDE DEF best, taken, found
    <2> QED BY <1>2, <2>6, <2>7, <2>8 DEF taken
  <1> QED BY <1>3, <1>4

(* Over any pools, with any fees and any transfer fees of the mints: no    *)
(* choice of one pool, or of two through a hub, gives more than the route  *)
(* the service quotes, which picks pool by pool.                           *)
THEOREM AnyIndexRoutesBest ==
    ASSUME NEW index, NEW mints, IndexOK(index, mints), Wsol \in mints, Usdc \in mints,
           NEW in \in mints, NEW out \in mints, in # out, NEW a \in Nat
    PROVE  /\ OutOf(QuoteRoute(index, in, out, a)) \in Nat
           /\ \A got \in Paths(index, in, out, a) : got <= OutOf(QuoteRoute(index, in, out, a))
  <1> DEFINE direct == QuoteBestLeg(index, in, out, a)
             via(hub) == QuoteViaHub(index, in, out, a, hub)
             routes == <<direct, via(Wsol), via(Usdc)>>
             taken == QuoteRoute(index, in, out, a)
             straight(i) == QuoteLeg(index, i, in, out, a)
             through(hub, i, j) == QuoteLeg(index, j, hub, out, QuoteLeg(index, i, in, hub, a))
  <1>1. /\ DOMAIN routes = 1..3
        /\ routes[1] = direct /\ routes[2] = via(Wsol) /\ routes[3] = via(Usdc)
    <2> HIDE DEF direct, via
    <2> QED BY DEF routes
  <1>2. taken = IF a <= 0 THEN NoQuote ELSE BestRoute(index, routes)
    BY DEF QuoteRoute, Hubs
  <1>3. /\ direct.some => direct.amountOut \in Nat
        /\ OutOf(direct) \in Nat
        /\ \A i \in LivePools(index, in, out) : straight(i) <= OutOf(direct)
    <2>1. OutOf(direct) \in Nat
      BY QuoteBestLegOK
    <2>2. direct.some => direct.amountOut \in Nat
      BY <2>1 DEF OutOf
    <2> QED BY <2>1, <2>2, QuoteBestLegOK
  <1>4. ASSUME NEW hub \in {Wsol, Usdc}
        PROVE  /\ via(hub).some => via(hub).amountOut \in Nat
               /\ OutOf(via(hub)) \in Nat
               /\ hub \notin {in, out} =>
                    \A i \in LivePools(index, in, hub), j \in LivePools(index, hub, out) :
                        through(hub, i, j) <= OutOf(via(hub))
    <2>1. CASE hub \in {in, out}
      <3>1. via(hub) = NoQuote
        BY <2>1 DEF QuoteViaHub
      <3> QED BY <2>1, <3>1, LegFields
    <2>2. CASE hub \notin {in, out}
      <3>1. via(hub) = QuoteTwoLegs(index, in, hub, out, a) /\ hub \in mints
        BY <2>2 DEF QuoteViaHub
      <3>2. OutOf(via(hub)) \in Nat
        BY <3>1, QuoteTwoLegsOK
      <3>3. via(hub).some => via(hub).amountOut \in Nat
        BY <3>2 DEF OutOf
      <3>4. \A i \in LivePools(index, in, hub), j \in LivePools(index, hub, out) :
                through(hub, i, j) <= OutOf(via(hub))
        BY <3>1, QuoteTwoLegsOK
      <3> QED BY <3>2, <3>3, <3>4
    <2> QED BY <2>1, <2>2
  <1>5. ASSUME NEW hub \in {Wsol, Usdc} \ {in, out},
               NEW i \in LivePools(index, in, hub), NEW j \in LivePools(index, hub, out)
        PROVE  through(hub, i, j) \in Nat /\ (a = 0 => through(hub, i, j) = 0)
    <2>1. i \in DOMAIN index.pools /\ j \in DOMAIN index.pools /\ hub \in mints
      BY DEF LivePools
    <2> DEFINE b == QuoteLeg(index, i, in, hub, a)
    <2>2. b \in Nat /\ (a = 0 => b = 0)
      BY <2>1, QuoteLegOK
    <2> HIDE DEF b
    <2>3. QuoteLeg(index, j, hub, out, b) \in Nat /\ QuoteLeg(index, j, hub, out, 0) = 0
      BY <2>1, <2>2, QuoteLegOK
    <2> QED BY <2>2, <2>3 DEF b
  <1>6. ASSUME NEW i \in LivePools(index, in, out)
        PROVE  straight(i) \in Nat /\ (a = 0 => straight(i) = 0)
    <2>1. i \in DOMAIN index.pools
      BY DEF LivePools
    <2> QED BY <2>1, QuoteLegOK
  <1>7. \A got \in Paths(index, in, out, a) :
            \/ \E i \in LivePools(index, in, out) : got = straight(i)
            \/ \E hub \in {Wsol, Usdc} \ {in, out} :
                 \E i \in LivePools(index, in, hub), j \in LivePools(index, hub, out) :
                     got = through(hub, i, j)
    BY DEF Paths
  <1> HIDE DEF direct, via, routes, taken, straight, through
  <1>8. CASE a = 0
    <2>1. OutOf(taken) = 0
      BY <1>2, <1>8, LegFields
    <2> QED BY <1>5, <1>6, <1>7, <1>8, <2>1 DEF taken
  <1>9. CASE a # 0
    <2>1. taken = BestRoute(index, routes)
      BY <1>2, <1>9
    <2>2. \A i \in 1..3 : (routes[i].some => routes[i].amountOut \in Nat)
      <3>1. \A i \in 1..3 : i = 1 \/ i = 2 \/ i = 3
        OBVIOUS
      <3> QED BY <1>1, <1>3, <1>4, <3>1
    <2>3. OutOf(taken) \in Nat /\ \A i \in 1..3 : OutOf(routes[i]) <= OutOf(taken)
      BY <1>1, <2>1, <2>2, BestRouteOK
    <2>4. /\ OutOf(direct) <= OutOf(taken)
          /\ OutOf(via(Wsol)) <= OutOf(taken) /\ OutOf(via(Usdc)) <= OutOf(taken)
      <3>1. 1 \in 1..3 /\ 2 \in 1..3 /\ 3 \in 1..3
        OBVIOUS
      <3> QED BY <1>1, <2>3, <3>1
    <2>5. ASSUME NEW i \in LivePools(index, in, out)
          PROVE  straight(i) <= OutOf(taken)
      BY <1>3, <1>6, <2>3, <2>4
    <2>6. ASSUME NEW hub \in {Wsol, Usdc} \ {in, out},
                 NEW i \in LivePools(index, in, hub), NEW j \in LivePools(index, hub, out)
          PROVE  through(hub, i, j) <= OutOf(taken)
      <3>1. through(hub, i, j) \in Nat
        BY <1>5
      <3>2. OutOf(via(hub)) \in Nat /\ through(hub, i, j) <= OutOf(via(hub))
        BY <1>4
      <3>3. OutOf(via(hub)) <= OutOf(taken)
        BY <2>4
      <3> QED BY <2>3, <3>1, <3>2, <3>3
    <2> QED BY <1>7, <2>3, <2>5, <2>6 DEF taken
  <1> QED BY <1>8, <1>9

(* The index of the calculations is one of those.                          *)
LEMMA IndexIsOK ==
    ASSUME NEW c \in FluxCalcs
    PROVE  IndexOK(Index(c), FluxMints) /\ DOMAIN Index(c).pools = 1..4
  <1>1. /\ c.solToken \in [{1, 2} -> FluxDepths \X FluxDepths]
        /\ c.solUsdc \in Nat /\ c.usdcToken \in Nat
    BY QuoteCheckAssumption DEF FluxCalcs
  <1>2. /\ c.solToken[1][1] \in Nat /\ c.solToken[1][2] \in Nat
        /\ c.solToken[2][1] \in Nat /\ c.solToken[2][2] \in Nat
    BY <1>1, QuoteCheckAssumption
  <1>3. ASSUME NEW x, NEW y, NEW ra \in Nat, NEW rb \in Nat
        PROVE  /\ FluxPool(x, y, ra, rb).reserveA \in Nat
               /\ FluxPool(x, y, ra, rb).reserveB \in Nat
               /\ FeesOK(FluxPool(x, y, ra, rb).fees)
    <2> DEFINE fees == <<[num |-> 25, den |-> 1000], [num |-> 5, den |-> 1000],
                         [num |-> 0, den |-> 0]>>
    <2>1. FeeOK(fees[1]) /\ FeeOK(fees[2]) /\ FeeOK(fees[3])
      BY DEF FeeOK
    <2>2. FeesOK(fees)
      <3>1. \A i \in 1..3 : i = 1 \/ i = 2 \/ i = 3
        OBVIOUS
      <3> HIDE DEF fees
      <3> QED BY <2>1, <3>1 DEF FeesOK
    <2>3. FluxPool(x, y, ra, rb).fees = fees
      BY DEF FluxPool
    <2>4. FluxPool(x, y, ra, rb).reserveA = ra /\ FluxPool(x, y, ra, rb).reserveB = rb
      BY DEF FluxPool
    <2> QED BY <2>2, <2>3, <2>4
  <1> DEFINE p1 == FluxPool(Wsol, Token, c.solToken[1][1], c.solToken[1][2])
             p2 == FluxPool(Token, Wsol, c.solToken[2][1], c.solToken[2][2])
             p3 == FluxPool(Wsol, Usdc, c.solUsdc, 300)
             p4 == FluxPool(Usdc, Token, 300, c.usdcToken)
             OK(p) == p.reserveA \in Nat /\ p.reserveB \in Nat /\ FeesOK(p.fees)
  <1>4. OK(p1) /\ OK(p2) /\ OK(p3) /\ OK(p4)
    BY <1>1, <1>2, <1>3
  <1>5. Index(c).pools = <<p1, p2, p3, p4>>
    BY DEF Index
  <1>6. \A m \in FluxMints : Index(c).transferFee[m] = 0
    BY DEF Index
  <1> HIDE DEF p1, p2, p3, p4
  <1>7. /\ DOMAIN Index(c).pools = 1..4
        /\ Index(c).pools[1] = p1 /\ Index(c).pools[2] = p2
        /\ Index(c).pools[3] = p3 /\ Index(c).pools[4] = p4
    BY <1>5
  <1>8. \A i \in 1..4 : OK(Index(c).pools[i])
    <2>1. \A i \in 1..4 : i = 1 \/ i = 2 \/ i = 3 \/ i = 4
      OBVIOUS
    <2> HIDE DEF OK
    <2> QED BY <1>4, <1>7, <2>1
  <1>9. (1..4) \in SUBSET Nat /\ IsFiniteSet(1..4)
    <2> DEFINE n == 4
    <2>1. n \in Int /\ (1..n) \in SUBSET Nat
      OBVIOUS
    <2> HIDE DEF n
    <2>2. IsFiniteSet(1..n)
      BY <2>1, FS_Interval
    <2> QED BY <2>1, <2>2 DEF n
  <1>10. \A m \in FluxMints : BpsOK(Index(c).transferFee[m])
    BY <1>6 DEF BpsOK
  <1> QED BY <1>7, <1>8, <1>9, <1>10 DEF IndexOK

(* Taking the best pool hop by hop loses nothing, whatever the reserves    *)
(* and the amount, although every fee is rounded up and every output down. *)
THEOREM RoutesBest == calc \in FluxCalcs => GreedyRouteIsBest
  <1> SUFFICES ASSUME calc \in FluxCalcs, NEW in \in FluxMints, NEW out \in FluxMints, in # out
               PROVE  \A got \in Paths(Index(calc), in, out, calc.amount) :
                          got <= OutOf(QuoteRoute(Index(calc), in, out, calc.amount))
    BY DEF GreedyRouteIsBest
  <1>1. calc.amount \in Nat
    BY QuoteCheckAssumption DEF FluxCalcs
  <1>2. Wsol \in FluxMints /\ Usdc \in FluxMints
    BY DEF FluxMints
  <1>3. IndexOK(Index(calc), FluxMints)
    BY IndexIsOK
  <1> QED BY <1>1, <1>2, <1>3, AnyIndexRoutesBest

-----------------------------------------------------------------------------
(* The program's output and the quote of it. *)

(* Between live reserves the program, which keeps the product of the       *)
(* reserves, rounded up, gives what the quote says it does.                *)
LEMMA ProgramAsQuoted ==
    ASSUME NEW a \in Nat \ {0}, NEW rI \in Nat \ {0}, NEW rO \in Nat \ {0},
           NEW pool, FeesOK(pool.fees)
    PROVE  ProgramOut(a, rI, rO, pool.fees) = SwapOut(a, rI, rO, pool)
  <1> DEFINE x == LessFees(a, pool.fees)
             q == (x * rO) \div (rI + x)
             c == (rI * rO + (rI + x) - 1) \div (rI + x)
  <1>1. x \in Nat
    BY LessFeesOK
  <1>2. ProgramOut(a, rI, rO, pool.fees) = rO - c
    BY ProgramOutUnfold
  <1>3. SwapOut(a, rI, rO, pool) = IF x <= 0 THEN 0 ELSE q
    BY SwapOutUnfold
  <1> HIDE DEF x
  <1> DEFINE held == rI + x
  <1>4. /\ q \in Nat /\ q * held <= x * rO /\ x * rO < q * held + held /\ q <= rO
    BY <1>1, CurveOK
  <1>5. held \in Nat \ {0} /\ rI * rO \in Nat /\ x * rO \in Nat
    BY <1>1, SMT
  <1>6. rI * rO + held - 1 \in Nat
    BY <1>5
  <1>7. c \in Nat /\ c * held <= rI * rO + held - 1 /\ rI * rO + held - 1 < c * held + held
    <2> DEFINE n == rI * rO + held - 1
    <2> HIDE DEF held, n
    <2>1. n \in Nat
      BY <1>6 DEF n
    <2>2. n \div held \in Nat /\ (n \div held) * held <= n /\ n < (n \div held) * held + held
      BY <1>5, <2>1, DivIsFloor
    <2> QED BY <2>2 DEF n, held
  <1>8. rO * held = rI * rO + x * rO
    BY <1>1, SMT
  <1> HIDE DEF q, c
  <1>9. x = 0 => q = 0
    <2> SUFFICES ASSUME x = 0 PROVE q = 0
      OBVIOUS
    <2>1. q * held <= 0
      BY <1>4
    <2> HIDE DEF held
    <2>2. q * held < 1 * held
      BY <1>4, <1>5, <2>1
    <2>3. q < 1
      BY <1>4, <1>5, <2>2, MulCancels
    <2> QED BY <1>4, <2>3
  <1> HIDE DEF held
  <1> DEFINE left == rO - q
  <1>10. left \in Nat
    BY <1>4
  <1>11. left * held = rO * held - q * held /\ left * held \in Nat /\ q * held \in Nat /\ c * held \in Nat
    BY <1>4, <1>5, <1>7, SMT
  <1> HIDE DEF left
  <1>12. c * held < (left + 1) * held
    <2>1. (left + 1) * held = left * held + held
      BY <1>5, <1>10, SMT
    <2>2. left * held >= rI * rO
      BY <1>4, <1>5, <1>8, <1>11
    <2>3. c * held < left * held + held
      BY <1>5, <1>7, <1>11, <2>2
    <2> QED BY <2>1, <2>3
  <1>13. left * held < (c + 1) * held
    <2>1. (c + 1) * held = c * held + held
      BY <1>5, <1>7, SMT
    <2>2. left * held < rI * rO + held
      BY <1>4, <1>5, <1>8, <1>11
    <2>3. left * held < c * held + held
      BY <1>5, <1>7, <1>11, <2>2
    <2> QED BY <2>1, <2>3
  <1>14. c < left + 1 /\ left < c + 1
    BY <1>5, <1>7, <1>10, <1>12, <1>13, MulCancels
  <1>15. c = left
    BY <1>7, <1>10, <1>14
  <1> QED BY <1>1, <1>2, <1>3, <1>4, <1>9, <1>15 DEF left

(* There and back through one pool, at the reserves before either swap,    *)
(* returns no more than was put in.                                        *)
LEMMA SamePoolLoses ==
    ASSUME NEW a \in Nat, NEW rI \in Nat \ {0}, NEW rO \in Nat \ {0},
           NEW pool, FeesOK(pool.fees)
    PROVE  SwapOut(SwapOut(a, rI, rO, pool), rO, rI, pool) <= a
  <1> DEFINE x == LessFees(a, pool.fees)
             b == SwapOut(a, rI, rO, pool)
             y == LessFees(b, pool.fees)
             c == SwapOut(b, rO, rI, pool)
             p == (x * rO) \div (rI + x)
             q == (y * rI) \div (rO + y)
  <1>1. x \in Nat /\ x <= a /\ b \in Nat
    BY LessFeesOK, SwapOutOK
  <1>2. y \in Nat /\ y <= b /\ c \in Nat
    BY <1>1, LessFeesOK, SwapOutOK
  <1>3. b = IF a <= 0 \/ x <= 0 THEN 0 ELSE p
    BY SwapOutUnfold
  <1>4. c = IF b <= 0 \/ y <= 0 THEN 0 ELSE q
    BY SwapOutUnfold
  <1> HIDE DEF x, y, b, c
  <1>5. p \in Nat /\ p * (rI + x) <= x * rO
    BY <1>1, CurveOK
  <1>6. q \in Nat /\ q * (rO + y) <= y * rI
    BY <1>2, CurveOK
  <1> HIDE DEF p, q
  <1>7. b * rI <= x * rO
    <2>1. p * (rI + x) = p * rI + p * x /\ p * rI \in Nat /\ p * x \in Nat /\ x * rO \in Nat
      BY <1>1, <1>5, SMT
    <2>2. p * rI <= x * rO /\ 0 <= x * rO
      BY <1>5, <2>1
    <2>3. CASE b = 0
      BY <2>1, <2>2, <2>3, SMT
    <2>4. CASE b = p
      BY <2>2, <2>4
    <2> QED BY <1>3, <2>3, <2>4
  <1>8. c * rO <= y * rI
    <2>1. q * (rO + y) = q * rO + q * y /\ q * rO \in Nat /\ q * y \in Nat /\ y * rI \in Nat
      BY <1>2, <1>6, SMT
    <2>2. q * rO <= y * rI /\ 0 <= y * rI
      BY <1>6, <2>1
    <2>3. CASE c = 0
      BY <2>1, <2>2, <2>3, SMT
    <2>4. CASE c = q
      BY <2>2, <2>4
    <2> QED BY <1>4, <2>3, <2>4
  <1>9. y * rI <= b * rI
    BY <1>1, <1>2, MulKeepsOrder
  <1>10. x * rO < (a + 1) * rO
    <2>1. x * rO <= a * rO
      BY <1>1, MulKeepsOrder
    <2>2. (a + 1) * rO = a * rO + rO /\ a * rO \in Nat /\ x * rO \in Nat
      BY <1>1, SMT
    <2> QED BY <2>1, <2>2
  <1>11. /\ c * rO \in Nat /\ y * rI \in Nat /\ b * rI \in Nat /\ x * rO \in Nat
         /\ (a + 1) * rO \in Nat
    BY <1>1, <1>2, SMT
  <1>12. c * rO < (a + 1) * rO
    BY <1>7, <1>8, <1>9, <1>10, <1>11
  <1>13. c < a + 1
    BY <1>2, <1>12, MulCancels
  <1>14. c <= a
    BY <1>2, <1>13
  <1> QED BY <1>14 DEF c, b

(* Two hops.                                                               *)
Pair(x, y) == <<x>> \o <<y>>

(* They are two. *)
LEMMA PairIs ==
    ASSUME NEW x, NEW y
    PROVE  /\ Len(Pair(x, y)) = 2 /\ DOMAIN Pair(x, y) = 1..2
           /\ Pair(x, y)[1] = x /\ Pair(x, y)[2] = y
  <1> DEFINE S == {x, y}
  <1>1. <<x>> \in Seq(S) /\ <<y>> \in Seq(S) /\ Len(<<x>>) = 1 /\ Len(<<y>>) = 1
        /\ <<x>>[1] = x /\ <<y>>[1] = y
    OBVIOUS
  <1> HIDE DEF S
  <1>2. /\ Pair(x, y) \in Seq(S) /\ Len(Pair(x, y)) = 2
        /\ \A i \in 1..2 : Pair(x, y)[i] = IF i <= 1 THEN <<x>>[i] ELSE <<y>>[i - 1]
    BY <1>1, ConcatProperties DEF Pair
  <1>3. DOMAIN Pair(x, y) = 1..2
    BY <1>2, LenProperties
  <1>4. Pair(x, y)[1] = <<x>>[1] /\ Pair(x, y)[2] = <<y>>[2 - 1]
    BY <1>2
  <1> QED BY <1>1, <1>2, <1>3, <1>4

(* So are those that SwapIxs makes of them. *)
LEMMA LenOfTwo ==
    ASSUME NEW e(_)
    PROVE  Len([i \in 1..2 |-> e(i)]) = 2
  <1> DEFINE s == [i \in 1..2 |-> e(i)]
             S == {e(1), e(2)}
  <1>1. \A i \in 1..2 : i = 1 \/ i = 2
    OBVIOUS
  <1>2. s \in [1..2 -> S]
    BY <1>1
  <1> HIDE DEF S, s
  <1>3. s \in Seq(S)
    <2>1. [1..2 -> S] \in {[1..n -> S] : n \in Nat}
      OBVIOUS
    <2> QED BY <1>2, <2>1, SeqDef
  <1>4. Len(s) \in Nat /\ DOMAIN s = 1..Len(s)
    BY <1>3, LenProperties
  <1>5. DOMAIN s = 1..2
    BY <1>2
  <1> DEFINE l == Len(s)
  <1>6. l \in Nat /\ 1..l = 1..2
    BY <1>4, <1>5
  <1> HIDE DEF l
  <1>7. l = 2
    BY <1>6
  <1> QED BY <1>7 DEF l, s

(* The requoted hops of two hops as they were quoted are the same hops.    *)
LEMMA RequoteTwo ==
    ASSUME NEW index, NEW i, NEW j, NEW x, NEW m, NEW y, NEW a, NEW b, NEW c,
           b = QuoteLeg(index, i, x, m, a), c = QuoteLeg(index, j, m, y, b)
    PROVE  RequoteHops(index, Pair(Hop(i, x, m, a, b), Hop(j, m, y, b, c)), a)
              = [k \in 1..2 |-> IF k = 1 THEN Hop(i, x, m, a, b) ELSE Hop(j, m, y, b, c)]
  <1> DEFINE h1 == Hop(i, x, m, a, b)
             h2 == Hop(j, m, y, b, c)
             hops == Pair(h1, h2)
             Step(f) == [k \in 1..(Len(hops) + 1) |->
                            IF k = 1 THEN a
                            ELSE QuoteLeg(index, hops[k - 1].pool, hops[k - 1].in, hops[k - 1].out, f[k - 1])]
             into == CHOOSE f : f = Step(f)
             w == [k \in 1..3 |-> IF k = 1 THEN a ELSE IF k = 2 THEN b ELSE c]
  <1>1. Len(hops) = 2 /\ DOMAIN hops = 1..2 /\ hops[1] = h1 /\ hops[2] = h2
    BY PairIs
  <1>2. /\ h1.pool = i /\ h1.in = x /\ h1.out = m /\ h1.amountIn = a /\ h1.amountOut = b
        /\ h2.pool = j /\ h2.in = m /\ h2.out = y /\ h2.amountIn = b /\ h2.amountOut = c
    BY DEF Hop
  <1>3. /\ [h1 EXCEPT !.amountIn = a, !.amountOut = b] = h1
        /\ [h2 EXCEPT !.amountIn = b, !.amountOut = c] = h2
    <2> DEFINE f == [h1 EXCEPT !.amountIn = a]
               g == [h2 EXCEPT !.amountIn = b]
    <2>1. f = h1 /\ g = h2
      BY DEF Hop
    <2>2. [h1 EXCEPT !.amountOut = b] = h1 /\ [h2 EXCEPT !.amountOut = c] = h2
      BY DEF Hop
    <2>3. /\ [h1 EXCEPT !.amountIn = a, !.amountOut = b] = [f EXCEPT !.amountOut = b]
          /\ [h2 EXCEPT !.amountIn = b, !.amountOut = c] = [g EXCEPT !.amountOut = c]
      BY DEF Hop
    <2> QED BY <2>1, <2>2, <2>3
  <1>4. RequoteHops(index, hops, a) =
            [k \in DOMAIN hops |-> [hops[k] EXCEPT !.amountIn = into[k], !.amountOut = into[k + 1]]]
    BY DEF RequoteHops
  <1> HIDE DEF h1, h2, hops
  <1>5. w[1] = a /\ w[2] = b /\ w[3] = c
    OBVIOUS
  <1>6. w = Step(w)
    <2>1. \A k \in 1..3 :
            w[k] = IF k = 1 THEN a
                   ELSE QuoteLeg(index, hops[k - 1].pool, hops[k - 1].in, hops[k - 1].out, w[k - 1])
      <3> SUFFICES ASSUME NEW k \in 1..3
                   PROVE  w[k] = IF k = 1 THEN a
                                 ELSE QuoteLeg(index, hops[k - 1].pool, hops[k - 1].in,
                                               hops[k - 1].out, w[k - 1])
        OBVIOUS
      <3>1. k = 1 \/ k = 2 \/ k = 3
        OBVIOUS
      <3>2. CASE k = 1
        BY <1>5, <3>2
      <3>3. CASE k = 2
        <4>1. k - 1 = 1
          BY <3>3
        <4> HIDE DEF w
        <4> QED BY <1>1, <1>2, <1>5, <3>3, <4>1
      <3>4. CASE k = 3
        <4>1. k - 1 = 2
          BY <3>4
        <4> HIDE DEF w
        <4> QED BY <1>1, <1>2, <1>5, <3>4, <4>1
      <3> QED BY <3>1, <3>2, <3>3, <3>4
    <2>2. w = [k \in 1..3 |-> w[k]] /\ Len(hops) + 1 = 3
      BY <1>1
    <2> HIDE DEF w
    <2> QED BY <2>1, <2>2
  <1>7. into = Step(into)
    <2> HIDE DEF Step
    <2> QED BY <1>6
  <1> HIDE DEF into
  <1>8. /\ into[1] = a
        /\ into[2] = QuoteLeg(index, hops[1].pool, hops[1].in, hops[1].out, into[1])
        /\ into[3] = QuoteLeg(index, hops[2].pool, hops[2].in, hops[2].out, into[2])
    <2>1. \A k \in 1..3 :
            into[k] = IF k = 1 THEN a
                      ELSE QuoteLeg(index, hops[k - 1].pool, hops[k - 1].in, hops[k - 1].out, into[k - 1])
      <3>1. Len(hops) + 1 = 3
        BY <1>1
      <3> QED BY <1>7, <3>1
    <2>2. 1 \in 1..3 /\ 2 \in 1..3 /\ 3 \in 1..3 /\ 2 - 1 = 1 /\ 3 - 1 = 2 /\ 2 # 1 /\ 3 # 1
      OBVIOUS
    <2>3. into[1] = a
      BY <2>1, <2>2
    <2>4. into[2] = QuoteLeg(index, hops[2 - 1].pool, hops[2 - 1].in, hops[2 - 1].out, into[2 - 1])
      BY <2>1, <2>2
    <2>5. into[3] = QuoteLeg(index, hops[3 - 1].pool, hops[3 - 1].in, hops[3 - 1].out, into[3 - 1])
      BY <2>1, <2>2
    <2> QED BY <2>2, <2>3, <2>4, <2>5
  <1>9. into[1] = a /\ into[2] = b /\ into[3] = c
    BY <1>1, <1>2, <1>8
  <1> DEFINE fresh(k) == [hops[k] EXCEPT !.amountIn = into[k], !.amountOut = into[k + 1]]
  <1>10. fresh(1) = h1 /\ fresh(2) = h2
    <2>1. 1 + 1 = 2 /\ 2 + 1 = 3
      OBVIOUS
    <2> QED BY <1>1, <1>3, <1>9, <2>1
  <1> HIDE DEF fresh
  <1>11. \A k \in 1..2 : fresh(k) = IF k = 1 THEN h1 ELSE h2
    <2>1. \A k \in 1..2 : k = 1 \/ k = 2
      OBVIOUS
    <2> QED BY <1>10, <2>1
  <1>12. RequoteHops(index, hops, a) = [k \in 1..2 |-> fresh(k)]
    BY <1>1, <1>4 DEF fresh
  <1>13. RequoteHops(index, hops, a) = [k \in 1..2 |-> IF k = 1 THEN h1 ELSE h2]
    BY <1>11, <1>12
  <1> QED BY <1>13 DEF h1, h2, hops

(* A wallet and the pools, no swap having failed. *)
Landing(held, wallet) == [ok |-> TRUE, pools |-> held, wallet |-> wallet]

Fields == {"ok", "pools", "wallet"}

(* Its fields. *)
LEMMA LandingFields ==
    ASSUME NEW held, NEW wallet
    PROVE  /\ Landing(held, wallet).ok = TRUE
           /\ Landing(held, wallet).pools = held
           /\ Landing(held, wallet).wallet = wallet
           /\ Landing(held, wallet) = [x \in Fields |-> Landing(held, wallet)[x]]
  BY DEF Landing, Fields

(* A record with these fields and values is one. *)
LEMMA LandingIs ==
    ASSUME NEW s, NEW held, NEW wallet, s = [x \in Fields |-> s[x]],
           s.ok = TRUE, s.pools = held, s.wallet = wallet
    PROVE  s = Landing(held, wallet)
  BY DEF Landing, Fields

(* A swap of a wallet that has its input, of a pool that gives no less     *)
(* than asked.                                                             *)
LEMMA SwappedOK ==
    ASSUME NEW held, NEW wallet, NEW ix, NEW got,
           ix.in \in DOMAIN wallet, ix.out \in DOMAIN wallet, ix.in # ix.out,
           got = ProgramOut(ix.amountIn, ReserveIn(held[ix.pool], ix.in),
                            ReserveOut(held[ix.pool], ix.in), held[ix.pool].fees),
           ~(wallet[ix.in] < ix.amountIn), ~(got < ix.minOut), got # 0
    PROVE  \E held2, wallet2 :
              /\ Swapped(Landing(held, wallet), ix) = Landing(held2, wallet2)
              /\ \A k \in DOMAIN held : k # ix.pool => held2[k] = held[k]
              /\ DOMAIN wallet2 = DOMAIN wallet
              /\ wallet2[ix.in] = wallet[ix.in] - ix.amountIn
              /\ wallet2[ix.out] = wallet[ix.out] + got
  <1> DEFINE s == Landing(held, wallet)
             pool == held[ix.pool]
             moved == IF pool.mintA = ix.in
                      THEN [pool EXCEPT !.reserveA = @ + ix.amountIn, !.reserveB = @ - got]
                      ELSE [pool EXCEPT !.reserveB = @ + ix.amountIn, !.reserveA = @ - got]
             held2 == [held EXCEPT ![ix.pool] = moved]
             wallet1 == [wallet EXCEPT ![ix.in] = @ - ix.amountIn]
             wallet2 == [wallet1 EXCEPT ![ix.out] = @ + got]
             w == [wallet EXCEPT ![ix.in] = @ - ix.amountIn, ![ix.out] = @ + got]
             t == [s EXCEPT !.pools[ix.pool] = moved, !.wallet = w]
  <1>1. s.ok = TRUE /\ s.pools = held /\ s.wallet = wallet
    BY LandingFields
  <1> HIDE DEF s
  <1>2. Swapped(s, ix) = t
    BY <1>1 DEF Swapped
  <1> HIDE DEF moved
  <1>3. w = wallet2
    OBVIOUS
  <1> HIDE DEF w
  <1> HIDE DEF held2
  <1>4. t = Landing(held2, w)
    <2>1. s = [x \in Fields |-> s[x]]
      BY LandingFields DEF s
    <2>2. t = [x \in Fields |-> t[x]] /\ t.ok = TRUE /\ t.pools = held2 /\ t.wallet = w
      BY <1>1, <2>1 DEF Fields, held2
    <2> HIDE DEF t, w
    <2> QED BY <2>2, LandingIs
  <1>5. \A k \in DOMAIN held : k # ix.pool => held2[k] = held[k]
    BY DEF held2
  <1>6. /\ DOMAIN wallet1 = DOMAIN wallet
        /\ wallet1[ix.in] = wallet[ix.in] - ix.amountIn /\ wallet1[ix.out] = wallet[ix.out]
    OBVIOUS
  <1> HIDE DEF wallet1
  <1>7. /\ DOMAIN wallet2 = DOMAIN wallet
        /\ wallet2[ix.in] = wallet[ix.in] - ix.amountIn
        /\ wallet2[ix.out] = wallet[ix.out] + got
    BY <1>6
  <1> HIDE DEF wallet2, t, w
  <1> QED BY <1>2, <1>3, <1>4, <1>5, <1>7 DEF s

(* Two swaps land one after the other.                                     *)
LEMMA LandTwo ==
    ASSUME NEW index, NEW ixs, NEW wallet, Len(ixs) = 2
    PROVE  LandSwaps(index, ixs, wallet) =
               Swapped(Swapped(Landing(index.pools, wallet), ixs[1]), ixs[2])
  <1> DEFINE s0 == Landing(index.pools, wallet)
             s1 == Swapped(s0, ixs[1])
             s2 == Swapped(s1, ixs[2])
             Step(f) == [i \in 0..Len(ixs) |-> IF i = 0 THEN s0 ELSE Swapped(f[i - 1], ixs[i])]
             after == CHOOSE f : f = Step(f)
             w == [i \in 0..2 |-> IF i = 0 THEN s0 ELSE IF i = 1 THEN s1 ELSE s2]
  <1>1. LandSwaps(index, ixs, wallet) = after[Len(ixs)]
    BY DEF LandSwaps, Landing
  <1> HIDE DEF s0
  <1>2. w[0] = s0 /\ w[1] = s1 /\ w[2] = s2 /\ w = [i \in 0..2 |-> w[i]]
    OBVIOUS
  <1>3. w = Step(w)
    <2> HIDE DEF w
    <2>1. \A i \in 0..2 : w[i] = IF i = 0 THEN s0 ELSE Swapped(w[i - 1], ixs[i])
      <3> SUFFICES ASSUME NEW i \in 0..2
                   PROVE  w[i] = IF i = 0 THEN s0 ELSE Swapped(w[i - 1], ixs[i])
        OBVIOUS
      <3>1. (i = 0) \/ (i = 1 /\ i - 1 = 0) \/ (i = 2 /\ i - 1 = 1)
        OBVIOUS
      <3> QED BY <1>2, <3>1
    <2> QED BY <1>2, <2>1
  <1>4. after = Step(after)
    <2> HIDE DEF Step
    <2> QED BY <1>3
  <1> HIDE DEF after
  <1>5. \A i \in 0..2 : after[i] = IF i = 0 THEN s0 ELSE Swapped(after[i - 1], ixs[i])
    BY <1>4
  <1>6. 0 \in 0..2 /\ 1 \in 0..2 /\ 2 \in 0..2 /\ 1 - 1 = 0 /\ 2 - 1 = 1 /\ 1 # 0 /\ 2 # 0
    OBVIOUS
  <1>7. after[0] = s0
    BY <1>5, <1>6
  <1>8. after[1] = Swapped(after[1 - 1], ixs[1])
    BY <1>5, <1>6
  <1>9. after[2] = Swapped(after[2 - 1], ixs[2])
    BY <1>5, <1>6
  <1> QED BY <1>1, <1>6, <1>7, <1>8, <1>9 DEF s0

(* Two live pools, one into m and another out of it, none of a hook and    *)
(* no mint with a fee: what the hops quote is what they earn when they     *)
(* land, for a wallet that has the input of the first and nothing else.    *)
LEMMA TwoHopsLand ==
    ASSUME NEW index, NEW mints, IndexOK(index, mints), NEW m \in mints, Wsol \in mints, m # Wsol,
           ~MintBlocked(index, m), ~MintBlocked(index, Wsol),
           NEW i \in LivePools(index, Wsol, m), NEW j \in LivePools(index, m, Wsol), i # j,
           ~index.pools[i].thook, ~index.pools[j].thook,
           NEW a \in Nat \ {0}, NEW b, NEW c,
           b = QuoteLeg(index, i, Wsol, m, a), c = QuoteLeg(index, j, m, Wsol, b), b # 0, c # 0,
           NEW hops, hops = Pair(Hop(i, Wsol, m, a, b), Hop(j, m, Wsol, b, c))
    PROVE  LET built == BuildSwaps(index, hops, a, 300)
               after == LandSwaps(index, built.ixs, [x \in mints |-> IF x = Wsol THEN a ELSE 0])
           IN  built.some /\ after.ok /\ after.wallet[Wsol] = c
  <1> DEFINE h1 == Hop(i, Wsol, m, a, b)
             h2 == Hop(j, m, Wsol, b, c)
             fresh == RequoteHops(index, hops, a)
             ixs == SwapIxs(index, fresh, 300)
             built == BuildSwaps(index, hops, a, 300)
             p1 == index.pools[i]
             p2 == index.pools[j]
             w0 == [x \in mints |-> IF x = Wsol THEN a ELSE 0]
  <1>1. /\ h1.pool = i /\ h1.in = Wsol /\ h1.out = m /\ h1.amountIn = a /\ h1.amountOut = b
        /\ h2.pool = j /\ h2.in = m /\ h2.out = Wsol /\ h2.amountIn = b /\ h2.amountOut = c
    BY DEF Hop
  <1>2. i \in DOMAIN index.pools /\ j \in DOMAIN index.pools
    BY DEF LivePools
  <1>3. b \in Nat \ {0} /\ c \in Nat \ {0}
    <2>1. b \in Nat
      BY <1>2, QuoteLegOK
    <2>2. c \in Nat
      BY <1>2, <2>1, QuoteLegOK
    <2> QED BY <2>1, <2>2
  <1>4. DOMAIN hops = 1..2 /\ hops[1] = h1 /\ hops[2] = h2
    BY PairIs
  <1>5. fresh = [k \in 1..2 |-> IF k = 1 THEN h1 ELSE h2]
    BY RequoteTwo
  <1> HIDE DEF h1, h2, fresh
  <1>6. DOMAIN fresh = 1..2 /\ fresh[1] = h1 /\ fresh[2] = h2
    BY <1>5
  <1>7. \A k \in 1..2 : k = 1 \/ k = 2
    OBVIOUS
  <1>8. built = [some |-> TRUE, ixs |-> ixs]
    <2>1. AssertRoutable(index, hops)
      BY <1>1, <1>4, <1>7 DEF AssertRoutable
    <2>2. ~DriedUp(fresh)
      <3>1. \A k \in 1..2 : ~(fresh[k].amountOut <= 0)
        BY <1>1, <1>3, <1>6, <1>7
      <3> QED BY <1>6, <3>1 DEF DriedUp
    <2>3. ~LegNeedsHook(index, h1) /\ ~LegNeedsHook(index, h2)
      BY <1>1 DEF LegNeedsHook, MintBlocked
    <2>4. ~\E k \in DOMAIN fresh : LegNeedsHook(index, fresh[k])
      BY <1>6, <1>7, <2>3
    <2> QED BY <2>1, <2>2, <2>4 DEF BuildSwaps, fresh
  <1>9. built.some /\ built.ixs = ixs
    BY <1>8
  <1> DEFINE ix(k) == [pool |-> fresh[k].pool, in |-> fresh[k].in, out |-> fresh[k].out,
                       amountIn |-> fresh[k].amountIn,
                       minOut |-> fresh[k].amountOut - (fresh[k].amountOut * 300) \div 10000]
  <1>10. ixs = [k \in 1..2 |-> ix(k)]
    BY <1>6 DEF SwapIxs
  <1>11. /\ ix(1).pool = i /\ ix(1).in = Wsol /\ ix(1).out = m /\ ix(1).amountIn = a
         /\ ix(1).minOut = b - (b * 300) \div 10000
         /\ ix(2).pool = j /\ ix(2).in = m /\ ix(2).out = Wsol /\ ix(2).amountIn = b
         /\ ix(2).minOut = c - (c * 300) \div 10000
    BY <1>1, <1>6
  <1> HIDE DEF ix, ixs, built, fresh
  <1>12. ixs[1] = ix(1) /\ ixs[2] = ix(2) /\ Len(ixs) = 2
    BY <1>10, LenOfTwo
  <1>13. ~(b < ix(1).minOut) /\ ~(c < ix(2).minOut)
    <2>1. \A n \in Nat : ~(n < n - (n * 300) \div 10000)
      OBVIOUS
    <2> QED BY <1>3, <1>11, <2>1
  <1>14. index.transferFee[m] = 0 /\ index.transferFee[Wsol] = 0
    <2>1. BpsOK(index.transferFee[m]) /\ BpsOK(index.transferFee[Wsol])
      BY DEF IndexOK
    <2> QED BY <2>1 DEF MintBlocked, BpsOK
  <1>15. /\ p1.reserveA \in Nat \ {0} /\ p1.reserveB \in Nat \ {0} /\ FeesOK(p1.fees)
         /\ p2.reserveA \in Nat \ {0} /\ p2.reserveB \in Nat \ {0} /\ FeesOK(p2.fees)
    BY <1>2 DEF LivePools, IndexOK
  <1> DEFINE in1 == ReserveIn(p1, Wsol)
             out1 == ReserveOut(p1, Wsol)
             in2 == ReserveIn(p2, m)
             out2 == ReserveOut(p2, m)
  <1>16. /\ b = SwapOut(a, in1, out1, p1)
         /\ c = SwapOut(b, in2, out2, p2)
    <2>1. \A n : NetAfterTransferFee(n, 0) = n
      BY DEF NetAfterTransferFee
    <2> QED BY <1>3, <1>14, <2>1 DEF QuoteLeg
  <1> HIDE DEF p1, p2
  <1>17. /\ in1 \in Nat \ {0} /\ out1 \in Nat \ {0}
         /\ in2 \in Nat \ {0} /\ out2 \in Nat \ {0}
    BY <1>15 DEF ReserveIn, ReserveOut
  <1> HIDE DEF in1, out1, in2, out2
  <1>18. /\ b = ProgramOut(a, in1, out1, p1.fees)
         /\ c = ProgramOut(b, in2, out2, p2.fees)
    BY <1>3, <1>15, <1>16, <1>17, ProgramAsQuoted
  <1>19. DOMAIN w0 = mints /\ w0[Wsol] = a /\ w0[m] = 0
    OBVIOUS
  <1> HIDE DEF w0
  <1>20. PICK pools1, w1 :
            /\ Swapped(Landing(index.pools, w0), ix(1)) = Landing(pools1, w1)
            /\ \A k \in DOMAIN index.pools : k # i => pools1[k] = index.pools[k]
            /\ DOMAIN w1 = mints /\ w1[Wsol] = a - a /\ w1[m] = 0 + b
    <2> DEFINE x == ix(1)
    <2>1. /\ x.in \in DOMAIN w0 /\ x.out \in DOMAIN w0 /\ x.in # x.out
          /\ ~(w0[x.in] < x.amountIn) /\ ~(b < x.minOut) /\ b # 0
      BY <1>3, <1>11, <1>13, <1>19
    <2>2. b = ProgramOut(x.amountIn, ReserveIn(index.pools[x.pool], x.in),
                         ReserveOut(index.pools[x.pool], x.in), index.pools[x.pool].fees)
      BY <1>11, <1>18 DEF in1, out1, p1
    <2> HIDE DEF x
    <2>3. \E pools1, w1 :
              /\ Swapped(Landing(index.pools, w0), x) = Landing(pools1, w1)
              /\ \A k \in DOMAIN index.pools : k # x.pool => pools1[k] = index.pools[k]
              /\ DOMAIN w1 = DOMAIN w0
              /\ w1[x.in] = w0[x.in] - x.amountIn
              /\ w1[x.out] = w0[x.out] + b
      BY <2>1, <2>2, SwappedOK
    <2> QED BY <1>11, <1>19, <2>3 DEF x
  <1>21. pools1[j] = p2 /\ w1[Wsol] = 0 /\ w1[m] = b
    BY <1>2, <1>3, <1>20 DEF p2
  <1>22. PICK pools2, w2 :
            /\ Swapped(Landing(pools1, w1), ix(2)) = Landing(pools2, w2)
            /\ w2[Wsol] = 0 + c
    <2> DEFINE x == ix(2)
    <2>1. /\ x.in \in DOMAIN w1 /\ x.out \in DOMAIN w1 /\ x.in # x.out
          /\ ~(w1[x.in] < x.amountIn) /\ ~(c < x.minOut) /\ c # 0
      BY <1>3, <1>11, <1>13, <1>20, <1>21
    <2>2. c = ProgramOut(x.amountIn, ReserveIn(pools1[x.pool], x.in),
                         ReserveOut(pools1[x.pool], x.in), pools1[x.pool].fees)
      BY <1>11, <1>18, <1>21 DEF in2, out2
    <2> HIDE DEF x
    <2>3. \E pools2, w2 :
              /\ Swapped(Landing(pools1, w1), x) = Landing(pools2, w2)
              /\ \A k \in DOMAIN pools1 : k # x.pool => pools2[k] = pools1[k]
              /\ DOMAIN w2 = DOMAIN w1
              /\ w2[x.in] = w1[x.in] - x.amountIn
              /\ w2[x.out] = w1[x.out] + c
      BY <2>1, <2>2, SwappedOK
    <2> QED BY <1>11, <1>21, <2>3 DEF x
  <1> DEFINE after == LandSwaps(index, built.ixs, w0)
  <1>23. after = Landing(pools2, w2)
    BY <1>9, <1>12, <1>20, <1>22, LandTwo
  <1> HIDE DEF after
  <1>24. after.ok /\ after.wallet[Wsol] = c
    <2>1. after.ok = TRUE /\ after.wallet = w2
      BY <1>23, LandingFields
    <2>2. 0 + c = c
      BY <1>3
    <2> QED BY <1>22, <2>1, <2>2
  <1> QED BY <1>9, <1>24 DEF after, built, w0

(* Of the rounds from SOL and back the best is one of them.                *)
LEMMA BestRoundIs ==
    ASSUME NEW round, IsFiniteSet(DOMAIN round), NEW amount,
           \A m \in DOMAIN round : round[m].some => round[m].amountOut \in Nat,
           BestRound(round, amount).some
    PROVE  \E m \in DOMAIN round :
              /\ round[m].some
              /\ BestRound(round, amount).hops = round[m].hops
              /\ BestRound(round, amount).profit = round[m].amountOut - amount
  <1> DEFINE back == {m \in DOMAIN round : round[m].some}
             Most(m) == \A n \in back : round[n].amountOut <= round[m].amountOut
             best == CHOOSE m \in back : Most(m)
             f == [m \in back |-> round[m].amountOut]
  <1>1. back # {}
    <2> SUFFICES ASSUME back = {} PROVE FALSE
      OBVIOUS
    <2>1. BestRound(round, amount) = NoQuote
      BY DEF BestRound
    <2> QED BY <2>1, LegFields
  <1>2. IsFiniteSet(back) /\ \A m \in back : f[m] \in Nat /\ f[m] = round[m].amountOut
    BY FS_Subset
  <1>3. PICK m \in back : \A n \in back : f[n] <= f[m]
    <2> HIDE DEF back, f
    <2> QED BY <1>1, <1>2, FiniteHasLargest
  <1>4. Most(m)
    BY <1>2, <1>3
  <1>5. best \in back
    <2> HIDE DEF Most, back
    <2> QED BY <1>4
  <1>6. BestRound(round, amount) =
            [some |-> TRUE, via |-> best, hops |-> round[best].hops,
             amountOut |-> round[best].amountOut, profit |-> round[best].amountOut - amount]
    BY <1>1 DEF BestRound
  <1> HIDE DEF best
  <1>7. /\ BestRound(round, amount).hops = round[best].hops
        /\ BestRound(round, amount).profit = round[best].amountOut - amount
    BY <1>6
  <1> QED BY <1>5, <1>7

(* There are three mints. *)
LEMMA FluxMintsFinite == IsFiniteSet(FluxMints)
  <1>1. IsFiniteSet({} \cup {Wsol} \cup {Usdc} \cup {Token})
    BY FS_EmptySet, FS_AddElement
  <1>2. FluxMints = {} \cup {Wsol} \cup {Usdc} \cup {Token}
    BY DEF FluxMints
  <1> QED BY <1>1, <1>2

(* Over any pools of the mints, none of a hook: a SOL arbitrage that is    *)
(* quoted a profit is real.                                                *)
THEOREM AnyIndexArbsReal ==
    ASSUME NEW index, IndexOK(index, FluxMints), ~MintBlocked(index, Wsol),
           SolBridgeMints(index) \in SUBSET FluxMints,
           \A i \in DOMAIN index.pools : ~index.pools[i].thook,
           NEW a \in Nat
    PROVE  Real(QuoteSolArb(index, a), index, a)
  <1> DEFINE arb == QuoteSolArb(index, a)
             M == {x \in SolBridgeMints(index) : ~MintBlocked(index, x)}
             round == [m \in M |-> QuoteTwoLegs(index, Wsol, m, Wsol, a)]
  <1> SUFFICES ASSUME arb.some, ~(arb.profit <= 0)
               PROVE  /\ Landed(index, arb.hops, a).ok
                      /\ Landed(index, arb.hops, a).wallet[Wsol] = a + arb.profit
    BY DEF Real
  <1>1. arb = IF a <= 0 THEN NoQuote ELSE BestRound(round, a)
    BY DEF QuoteSolArb
  <1>2. a \in Nat \ {0} /\ arb = BestRound(round, a)
    <2>1. ~(a <= 0)
      <3> HIDE DEF arb
      <3> QED BY <1>1, LegFields
    <2> HIDE DEF arb
    <2> QED BY <1>1, <2>1
  <1>3. /\ M \in SUBSET FluxMints /\ Wsol \in FluxMints
        /\ \A m \in M : m # Wsol /\ ~MintBlocked(index, m)
    BY DEF SolBridgeMints, FluxMints
  <1>4. IsFiniteSet(M)
    BY <1>3, FluxMintsFinite, FS_Subset
  <1> HIDE DEF arb, M
  <1>5. /\ DOMAIN round = M
        /\ \A m \in M : round[m] = QuoteTwoLegs(index, Wsol, m, Wsol, a)
    OBVIOUS
  <1> HIDE DEF round
  <1>6. \A m \in DOMAIN round : round[m].some => round[m].amountOut \in Nat
    <2> SUFFICES ASSUME NEW m \in M, round[m].some
                 PROVE  round[m].amountOut \in Nat
      BY <1>5
    <2>1. m \in FluxMints
      BY <1>3
    <2>2. OutOf(QuoteTwoLegs(index, Wsol, m, Wsol, a)) \in Nat
      BY <1>3, <2>1, QuoteTwoLegsOK
    <2>3. OutOf(round[m]) \in Nat
      BY <1>5, <2>2
    <2> QED BY <2>3 DEF OutOf
  <1>7. PICK m \in M : /\ round[m].some /\ arb.hops = round[m].hops
                       /\ arb.profit = round[m].amountOut - a
    BY <1>2, <1>4, <1>5, <1>6, BestRoundIs
  <1> DEFINE taken == QuoteTwoLegs(index, Wsol, m, Wsol, a)
  <1>8. m \in FluxMints /\ m # Wsol /\ ~MintBlocked(index, m) /\ Wsol \in FluxMints
    BY <1>3
  <1>9. taken.some /\ taken # NoQuote
    BY <1>5, <1>7, LegFields
  <1>10. PICK i \in LivePools(index, Wsol, m), j \in LivePools(index, m, Wsol) :
            \E b \in {QuoteLeg(index, i, Wsol, m, a)} :
            \E c \in {QuoteLeg(index, j, m, Wsol, b)} :
               /\ b > 0 /\ c > 0 /\ b \in Nat /\ c \in Nat
               /\ taken = [some |-> TRUE, amountOut |-> c,
                           hops |-> <<Hop(i, Wsol, m, a, b)>> \o <<Hop(j, m, Wsol, b, c)>>]
    <2>1. \/ taken = NoQuote
          \/ \E i \in LivePools(index, Wsol, m), j \in LivePools(index, m, Wsol) :
               \E b \in {QuoteLeg(index, i, Wsol, m, a)} :
               \E c \in {QuoteLeg(index, j, m, Wsol, b)} :
                  /\ b > 0 /\ c > 0 /\ b \in Nat /\ c \in Nat
                  /\ taken = [some |-> TRUE, amountOut |-> c,
                              hops |-> <<Hop(i, Wsol, m, a, b)>> \o <<Hop(j, m, Wsol, b, c)>>]
      BY <1>8, QuoteTwoLegsOK
    <2> HIDE DEF taken
    <2> QED BY <1>9, <2>1
  <1> DEFINE b == QuoteLeg(index, i, Wsol, m, a)
             c == QuoteLeg(index, j, m, Wsol, b)
             hops == Pair(Hop(i, Wsol, m, a, b), Hop(j, m, Wsol, b, c))
  <1>11. /\ b \in Nat \ {0} /\ c \in Nat \ {0}
         /\ taken = [some |-> TRUE, amountOut |-> c, hops |-> hops]
    BY <1>10 DEF Pair
  <1> HIDE DEF taken, hops, b, c
  <1>12. arb.hops = hops /\ arb.profit = c - a
    <2>1. round[m] = [some |-> TRUE, amountOut |-> c, hops |-> hops]
      BY <1>5, <1>11 DEF taken
    <2>2. round[m].hops = hops /\ round[m].amountOut = c
      BY <2>1
    <2> QED BY <1>7, <2>2
  <1>13. i # j
    <2> SUFFICES ASSUME i = j PROVE FALSE
      OBVIOUS
    <2> DEFINE p == index.pools[i]
               rI == ReserveIn(p, Wsol)
               rO == ReserveOut(p, Wsol)
    <2>1. i \in DOMAIN index.pools /\ {p.mintA, p.mintB} = {Wsol, m}
          /\ p.reserveA > 0 /\ p.reserveB > 0
      BY DEF LivePools
    <2>2. p.reserveA \in Nat \ {0} /\ p.reserveB \in Nat \ {0} /\ FeesOK(p.fees)
      BY <2>1 DEF IndexOK
    <2>3. (p.mintA = Wsol /\ p.mintB = m) \/ (p.mintA = m /\ p.mintB = Wsol)
      BY <2>1
    <2>4. ReserveIn(p, m) = rO /\ ReserveOut(p, m) = rI
      BY <1>8, <2>3 DEF ReserveIn, ReserveOut
    <2>5. rI \in Nat \ {0} /\ rO \in Nat \ {0}
      BY <2>2 DEF ReserveIn, ReserveOut
    <2>6. index.transferFee[m] = 0 /\ index.transferFee[Wsol] = 0
      <3>1. BpsOK(index.transferFee[m]) /\ BpsOK(index.transferFee[Wsol])
        BY <1>8 DEF IndexOK
      <3> QED BY <1>8, <3>1 DEF MintBlocked, BpsOK
    <2>7. \A n : NetAfterTransferFee(n, 0) = n
      BY DEF NetAfterTransferFee
    <2>8. b = SwapOut(a, rI, rO, p)
      BY <1>2, <2>6, <2>7 DEF QuoteLeg, b
    <2>9. c = SwapOut(b, rO, rI, p)
      BY <1>11, <2>4, <2>6, <2>7 DEF QuoteLeg, c
    <2>10. c <= a
      BY <2>2, <2>5, <2>8, <2>9, SamePoolLoses
    <2> QED BY <1>11, <1>12, <2>10
  <1>14. i \in DOMAIN index.pools /\ j \in DOMAIN index.pools
    BY DEF LivePools
  <1>15. LET built == BuildSwaps(index, hops, a, 300)
             after == LandSwaps(index, built.ixs, [x \in FluxMints |-> IF x = Wsol THEN a ELSE 0])
         IN  built.some /\ after.ok /\ after.wallet[Wsol] = c
    <2>1. b # 0 /\ c # 0 /\ ~index.pools[i].thook /\ ~index.pools[j].thook
      BY <1>11, <1>14
    <2>2. hops = Pair(Hop(i, Wsol, m, a, b), Hop(j, m, Wsol, b, c))
      BY DEF hops
    <2>3. b = QuoteLeg(index, i, Wsol, m, a) /\ c = QuoteLeg(index, j, m, Wsol, b)
      BY DEF b, c
    <2> QED BY <1>2, <1>8, <1>13, <2>1, <2>2, <2>3, TwoHopsLand
  <1>16. Landed(index, hops, a).ok /\ Landed(index, hops, a).wallet[Wsol] = c
    BY <1>15 DEF Landed
  <1>17. c = a + (c - a)
    BY <1>11
  <1> QED BY <1>12, <1>16, <1>17

(* The hops of a profitable SOL arbitrage never share a pool, and land on  *)
(* the reserves they were quoted on for what they were quoted, whatever    *)
(* those reserves and the amount are.                                      *)
THEOREM ArbsReal == calc \in FluxCalcs => ArbIsReal
  <1> SUFFICES ASSUME calc \in FluxCalcs
               PROVE  Real(QuoteSolArb(Index(calc), calc.amount), Index(calc), calc.amount)
    BY DEF ArbIsReal
  <1> DEFINE index == Index(calc)
  <1>1. calc.amount \in Nat
    BY QuoteCheckAssumption DEF FluxCalcs
  <1>2. IndexOK(index, FluxMints) /\ DOMAIN index.pools = 1..4
    BY IndexIsOK
  <1>3. index.hooked = {} /\ \A m \in FluxMints : index.transferFee[m] = 0
    BY DEF Index
  <1>4. \A i \in 1..4 : /\ index.pools[i].mintA \in FluxMints /\ index.pools[i].mintB \in FluxMints
                        /\ ~index.pools[i].thook
    <2> DEFINE p1 == FluxPool(Wsol, Token, calc.solToken[1][1], calc.solToken[1][2])
               p2 == FluxPool(Token, Wsol, calc.solToken[2][1], calc.solToken[2][2])
               p3 == FluxPool(Wsol, Usdc, calc.solUsdc, 300)
               p4 == FluxPool(Usdc, Token, 300, calc.usdcToken)
               Good(p) == p.mintA \in FluxMints /\ p.mintB \in FluxMints /\ ~p.thook
    <2>1. Good(p1) /\ Good(p2) /\ Good(p3) /\ Good(p4)
      BY DEF FluxPool, FluxMints
    <2>2. index.pools = <<p1, p2, p3, p4>>
      BY DEF Index
    <2> HIDE DEF p1, p2, p3, p4, index
    <2>3. index.pools[1] = p1 /\ index.pools[2] = p2 /\ index.pools[3] = p3 /\ index.pools[4] = p4
      BY <2>2
    <2>4. \A i \in 1..4 : i = 1 \/ i = 2 \/ i = 3 \/ i = 4
      OBVIOUS
    <2>5. \A i \in 1..4 : Good(index.pools[i])
      <3> HIDE DEF Good
      <3> QED BY <2>1, <2>3, <2>4
    <2> QED BY <2>5
  <1> HIDE DEF index
  <1>5. ~MintBlocked(index, Wsol)
    <2>1. Wsol \in FluxMints
      BY DEF FluxMints
    <2>2. index.transferFee[Wsol] = 0
      BY <1>3, <2>1
    <2> QED BY <1>3, <2>2 DEF MintBlocked
  <1>6. SolBridgeMints(index) \in SUBSET FluxMints
    BY <1>2, <1>4 DEF SolBridgeMints
  <1>7. Real(QuoteSolArb(index, calc.amount), index, calc.amount)
    BY <1>1, <1>2, <1>4, <1>5, <1>6, AnyIndexArbsReal
  <1> QED BY <1>7 DEF index
=============================================================================
