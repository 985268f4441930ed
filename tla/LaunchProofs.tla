---------------------------- MODULE LaunchProofs ----------------------------
(***************************************************************************)
(* Theorems about Launch: types, the order in which steps land, and that   *)
(* no step is ever signed anew while an earlier copy may land.             *)
(***************************************************************************)
EXTENDS Launch, TLAPS

\* What the types say of a few terms; the big assumption stays out of sight.
LEMMA Bounds ==
    /\ LutSteps \in Nat /\ AllSteps \in Nat /\ 1 <= LutSteps /\ LutSteps < AllSteps
    /\ Validity \in Nat /\ Validity >= 1 /\ Behind \in Nat
    /\ MaxRounds \in Nat /\ MaxRounds >= 1
    /\ StaleRounds \in Nat /\ StaleRounds >= 2
    /\ MaxHeight \in Nat
BY LaunchAssumption DEF LaunchAssumption

LEMMA BatchIsSteps == BatchSteps \subseteq Steps
BY Bounds DEF BatchSteps, Steps

-----------------------------------------------------------------------------
(* Types.                                                                  *)

LEMMA HeightRead ==
    ASSUME TypeOK
    PROVE  /\ \A h \in HeightsSeen : h \in Nat /\ h <= height /\ h <= MaxHeight
           /\ GetBlockhash => lastValid' \in 0..(MaxHeight + Validity)
BY Bounds DEF TypeOK, HeightsSeen, GetBlockhash

LEMMA MarkKeepsTypes ==
    ASSUME TypeOK, NEW s \in Undone, MarkDone(s)
    PROVE  done' \subseteq Steps /\ sig' \in Copies \cup {NoSig}
BY BatchIsSteps DEF TypeOK, Undone, MarkDone

LEMMA TypeInit == Init => TypeOK
BY Bounds DEF Init, TypeOK, Places, Copies, Steps

LEMMA TypeStep == TypeOK /\ [Next]_vars => TypeOK'
<1> SUFFICES ASSUME TypeOK, [Next]_vars PROVE TypeOK'
    OBVIOUS
<1>1. CASE UNCHANGED vars
    BY <1>1 DEF TypeOK, vars, page, chain
<1>2. CASE Begin
    BY <1>2, HeightRead, Bounds DEF TypeOK, Begin, Places, chain
<1>3. CASE Approve
    <2>1. done' \subseteq Steps
        BY <1>3, BatchIsSteps DEF TypeOK, Approve, Probes
    <2>2. at' \in Places
        BY <1>3 DEF Approve, Places
    <2> QED
        BY <1>3, <2>1, <2>2 DEF TypeOK, Approve, chain
<1>4. CASE Abort
    BY <1>4 DEF TypeOK, Abort, Places, chain
<1>5. CASE NextRound
    <2>1. round' \in 0..MaxRounds
        BY <1>5, Bounds DEF TypeOK, NextRound
    <2>2. /\ at' \in Places
          /\ lastValid' \in 0..(MaxHeight + Validity)
        BY <1>5, HeightRead DEF TypeOK, NextRound, Places
    <2> QED
        BY <1>5, <2>1, <2>2 DEF TypeOK, NextRound, chain
<1>6. CASE LeaveBatch
    BY <1>6 DEF TypeOK, LeaveBatch, Places, chain
<1>7. CASE FoundDone
    <2>1. done' \subseteq Steps /\ sig' \in Copies \cup {NoSig}
        BY <1>7, MarkKeepsTypes DEF FoundDone
    <2> QED
        BY <1>7, <2>1, Bounds DEF TypeOK, FoundDone, Places, chain
<1>8. CASE Send
    <2>1. PICK s \in Undone :
              IF sig = NoSig
              THEN /\ sent' \in {sent, sent \cup {<<s, lastValid>>}}
                   /\ sig' \in {NoSig, <<s, lastValid>>}
              ELSE UNCHANGED <<sent, sig>>
        BY <1>8 DEF Send
    <2>2. <<s, lastValid>> \in Copies
        BY <2>1, BatchIsSteps DEF TypeOK, Undone, Copies
    <2>3. sent' \subseteq Copies /\ sig' \in Copies \cup {NoSig}
        BY <2>1, <2>2 DEF TypeOK
    <2> QED
        BY <1>8, <2>3 DEF TypeOK, Send, Places
<1>9. CASE PollDone
    <2>1. done' \subseteq Steps /\ sig' \in Copies \cup {NoSig}
        BY <1>9, MarkKeepsTypes DEF PollDone
    <2> QED
        BY <1>9, <2>1, Bounds DEF TypeOK, PollDone, Places, chain
<1>10. CASE PollElse
    <2>1. done' \subseteq Steps /\ sig' \in Copies \cup {NoSig}
        BY <1>10, MarkKeepsTypes DEF PollElse, TypeOK
    <2>2. stale' \in 0..StaleRounds
        BY <1>10, Bounds DEF PollElse, TypeOK
    <2> QED
        BY <1>10, <2>1, <2>2 DEF TypeOK, PollElse, Places, chain
<1>11. CASE NewBlock
    BY <1>11, Bounds DEF TypeOK, NewBlock, page
<1>12. ASSUME NEW c \in sent, Land(c) PROVE TypeOK'
    BY <1>12 DEF TypeOK, Land, page
<1>13. ASSUME NEW c \in sent, Fail(c) PROVE TypeOK'
    BY <1>13 DEF TypeOK, Fail, page
<1> QED
    BY <1>1, <1>2, <1>3, <1>4, <1>5, <1>6, <1>7, <1>8, <1>9, <1>10, <1>11, <1>12, <1>13
    DEF Next, PageStep, ChainStep, Stopped

\* Every variable of the page and of the chain keeps its type, for any steps,
\* validity and lag.
THEOREM TypeCorrect == Spec => []TypeOK
BY TypeInit, TypeStep, PTL DEF Spec

-----------------------------------------------------------------------------
(* Order.  What is marked done landed, and a step is sent when all before  *)
(* it are marked; the copy out is one of the first undone step, so that    *)
(* what becomes of it is put to the right step's account.                  *)

DoneLanded == \A s \in done : Landed(s)
SentInOrder == \A c \in sent : \A r \in 1..(c[1] - 1) : Landed(r)
LutDone == batch = 2 => 1..LutSteps \subseteq done
AllDone == at = "finished" => Steps \subseteq done
SigOfNext == sig # NoSig => IsNext(sig[1])

OrderInv ==
    /\ TypeOK
    /\ landed \subseteq sent
    /\ DoneLanded /\ SentInOrder /\ LutDone /\ AllDone /\ SigOfNext

\* Nothing that landed is undone.
LEMMA LandedStays ==
    ASSUME TypeOK, [Next]_vars
    PROVE  landed \subseteq landed'
BY DEF Next, PageStep, ChainStep, Stopped, Begin, Approve, Abort, NextRound, LeaveBatch,
       FoundDone, Send, PollDone, PollElse, NewBlock, Land, Fail, vars, page, chain

\* All steps before the first undone one landed.
LEMMA BeforeNextLanded ==
    ASSUME OrderInv, NEW s \in Steps, IsNext(s), NEW r \in 1..(s - 1)
    PROVE  Landed(r)
<1>1. r \in Steps /\ r < s
    BY Bounds DEF Steps
<1>2. batch \in 1..2 /\ s \in BatchSteps
    BY DEF OrderInv, TypeOK, IsNext, Undone
<1>3. r \in done
    <2>1. CASE r \in BatchSteps
        <3>1. r \notin Undone
            BY <1>1, Bounds DEF IsNext, Steps
        <3> QED
            BY <2>1, <3>1 DEF Undone
    <2>2. CASE r \notin BatchSteps
        BY <1>1, <1>2, <2>2, Bounds DEF BatchSteps, Steps, OrderInv, LutDone
    <2> QED
        BY <2>1, <2>2
<1> QED
    BY <1>3 DEF OrderInv, DoneLanded

\* Marking the first undone step keeps the invariant, if it landed.
LEMMA MarkKeepsOrder ==
    ASSUME OrderInv, TypeOK', NEW s \in Undone, MarkDone(s), Landed(s),
           batch' = batch, at' # "finished", UNCHANGED chain
    PROVE  OrderInv'
<1>1. done' = done \cup {s} /\ sig' = NoSig
    BY DEF MarkDone
<1>2. DoneLanded'
    BY <1>1 DEF OrderInv, DoneLanded, Landed, chain
<1>3. SentInOrder'
    BY DEF OrderInv, SentInOrder, Landed, chain
<1>4. LutDone' /\ AllDone' /\ SigOfNext'
    BY <1>1 DEF OrderInv, LutDone, AllDone, SigOfNext
<1> QED
    BY <1>2, <1>3, <1>4 DEF OrderInv, chain

LEMMA OrderInit == Init => OrderInv
<1> SUFFICES ASSUME Init PROVE OrderInv
    OBVIOUS
<1>1. DoneLanded /\ SentInOrder /\ LutDone /\ AllDone /\ SigOfNext
    BY DEF Init, DoneLanded, SentInOrder, LutDone, AllDone, SigOfNext
<1> QED
    BY <1>1, TypeInit DEF OrderInv, Init

\* A status is put to the account of the step whose copy is out.
LEMMA ReportIsTrue ==
    ASSUME OrderInv, ReportedDone, NEW s \in Undone, IsNext(s)
    PROVE  Landed(s)
<1>1. sig \in landed
    BY DEF ReportedDone, SeenLanded, BenignDone, ErrorOf
<1>2. sig \in Copies /\ sig # NoSig
    BY <1>1 DEF OrderInv, TypeOK, Copies, Steps, NoSig
<1>3. IsNext(sig[1])
    BY <1>2 DEF OrderInv, SigOfNext
<1>4. sig[1] \in Steps /\ s \in Steps
    BY <1>2, BatchIsSteps DEF Copies, Undone
<1>5. sig[1] <= s /\ s <= sig[1]
    BY <1>3 DEF IsNext
<1>6. sig[1] = s
    BY <1>4, <1>5, Bounds DEF Steps
<1> QED
    BY <1>1, <1>6 DEF Landed

LEMMA OrderStep == OrderInv /\ [Next]_vars => OrderInv'
<1> SUFFICES ASSUME OrderInv, [Next]_vars PROVE OrderInv'
    OBVIOUS
<1>t. TypeOK /\ TypeOK'
    BY TypeStep DEF OrderInv
<1>l. \A s \in Steps : Landed(s) => Landed(s)'
    BY <1>t, LandedStays DEF Landed
<1>1. CASE UNCHANGED vars
    BY <1>1, <1>t DEF OrderInv, vars, page, chain, DoneLanded, SentInOrder, LutDone, AllDone,
        SigOfNext, Landed, IsNext, Undone, BatchSteps
<1>2. CASE Begin
    BY <1>2, <1>t DEF OrderInv, Begin, chain, DoneLanded, SentInOrder, LutDone, AllDone,
        SigOfNext, Landed, IsNext, Undone, BatchSteps
<1>3. CASE Approve
    <2>1. PICK found \in Probes(BatchSteps) \cup {{}} : done' = done \cup found
        BY <1>3 DEF Approve
    <2>2. \A s \in found : Landed(s)
        BY <2>1 DEF Probes
    <2>3. DoneLanded'
        BY <1>3, <2>1, <2>2 DEF OrderInv, DoneLanded, Landed, Approve, chain
    <2>4. SentInOrder'
        BY <1>3 DEF OrderInv, SentInOrder, Landed, Approve, chain
    <2>5. LutDone' /\ AllDone' /\ SigOfNext'
        BY <1>3, <2>1 DEF OrderInv, LutDone, AllDone, SigOfNext, Approve
    <2> QED
        BY <1>t, <1>3, <2>3, <2>4, <2>5 DEF OrderInv, Approve, chain
<1>4. CASE Abort
    BY <1>4, <1>t DEF OrderInv, Abort, chain, DoneLanded, SentInOrder, LutDone, AllDone,
        SigOfNext, Landed, IsNext, Undone, BatchSteps
<1>5. CASE NextRound
    <2>1. at' # "finished" /\ UNCHANGED <<batch, done, sig, chain>>
        BY <1>5 DEF NextRound
    <2> QED
        BY <2>1, <1>t DEF OrderInv, chain, DoneLanded, SentInOrder, LutDone, AllDone,
            SigOfNext, Landed, IsNext, Undone, BatchSteps
<1>6. CASE LeaveBatch
    <2>1. UNCHANGED <<done, sig, height, sent, landed, failed>>
        BY <1>6 DEF LeaveBatch, chain
    <2>2. DoneLanded' /\ SentInOrder'
        BY <2>1 DEF OrderInv, DoneLanded, SentInOrder, Landed
    <2>3. CASE Undone # {}
        <3>1. batch' = batch /\ at' = "failed"
            BY <1>6, <2>3 DEF LeaveBatch
        <3> QED
            BY <2>1, <2>2, <3>1, <1>t DEF OrderInv, LutDone, AllDone, SigOfNext, IsNext, Undone,
                BatchSteps
    <2>4. CASE Undone = {}
        <3>1. batch' = 2 /\ at' = IF batch = 1 THEN "hash" ELSE "finished"
            BY <1>6, <2>4 DEF LeaveBatch
        <3>2. sig' = NoSig
            BY <2>1, <2>4 DEF OrderInv, SigOfNext, IsNext
        <3>3. BatchSteps \subseteq done
            BY <2>4 DEF Undone
        <3>4. 1..LutSteps \subseteq done
            <4>1. batch = 1 \/ batch = 2
                BY <1>t DEF TypeOK
            <4> QED
                BY <4>1, <3>3 DEF BatchSteps, OrderInv, LutDone
        <3>5. LutDone'
            BY <3>4, <2>1 DEF LutDone
        <3>6. AllDone'
            <4>1. ASSUME at' = "finished" PROVE Steps \subseteq done
                <5>1. batch = 2
                    BY <3>1, <4>1, <1>t DEF TypeOK
                <5>2. (LutSteps + 1)..AllSteps \subseteq done
                    BY <5>1, <3>3 DEF BatchSteps
                <5>3. Steps \subseteq 1..LutSteps \cup (LutSteps + 1)..AllSteps
                    BY Bounds DEF Steps
                <5> QED
                    BY <5>2, <5>3, <3>4
            <4> QED
                BY <4>1, <2>1 DEF AllDone
        <3> QED
            BY <1>t, <2>1, <2>2, <3>2, <3>5, <3>6 DEF OrderInv, SigOfNext
    <2> QED
        BY <2>3, <2>4
<1>7. CASE FoundDone
    <2>1. PICK s \in Undone : IsNext(s) /\ {s} \in Probes(Steps) /\ MarkDone(s)
        BY <1>7 DEF FoundDone
    <2>2. Landed(s)
        BY <2>1 DEF Probes
    <2> QED
        BY <1>7, <1>t, <2>1, <2>2, MarkKeepsOrder DEF FoundDone
<1>8. CASE Send
    <2>1. PICK s \in Undone :
              /\ IsNext(s)
              /\ IF sig = NoSig
                 THEN /\ sent' \in {sent, sent \cup {<<s, lastValid>>}}
                      /\ sig' \in {NoSig, <<s, lastValid>>}
                 ELSE UNCHANGED <<sent, sig>>
        BY <1>8 DEF Send
    <2>2. UNCHANGED <<batch, done, landed>> /\ at' = "poll"
        BY <1>8 DEF Send
    <2>3. sent \subseteq sent' /\ sent' \subseteq sent \cup {<<s, lastValid>>}
        BY <2>1
    <2>4. s \in Steps
        BY <2>1, BatchIsSteps DEF Undone
    <2>5. SentInOrder'
        <3>1. ASSUME NEW c \in sent', NEW r \in 1..(c[1] - 1) PROVE Landed(r)
            <4>1. CASE c \in sent
                BY <3>1, <4>1 DEF OrderInv, SentInOrder
            <4>2. CASE c = <<s, lastValid>>
                BY <3>1, <4>2, <2>1, <2>4, BeforeNextLanded
            <4> QED
                BY <4>1, <4>2, <2>3
        <3> QED
            BY <3>1, <2>2 DEF SentInOrder, Landed
    <2>6. SigOfNext'
        BY <2>1, <2>2 DEF OrderInv, SigOfNext, IsNext, Undone, BatchSteps
    <2>7. DoneLanded' /\ LutDone' /\ AllDone'
        BY <2>2 DEF OrderInv, DoneLanded, LutDone, AllDone, Landed
    <2> QED
        BY <1>t, <2>2, <2>3, <2>5, <2>6, <2>7 DEF OrderInv
<1>9. CASE PollDone
    <2>1. PICK s \in Undone : IsNext(s) /\ MarkDone(s)
        BY <1>9 DEF PollDone
    <2>2. Landed(s)
        BY <1>9, <2>1, ReportIsTrue DEF PollDone
    <2> QED
        BY <1>9, <1>t, <2>1, <2>2, MarkKeepsOrder DEF PollDone
<1>10. CASE PollElse
    <2>1. batch' = batch /\ at' = "top" /\ UNCHANGED chain
        BY <1>10 DEF PollElse
    <2>2. CASE \E s \in Undone : IsNext(s) /\ {s} \in Probes(Steps) /\ MarkDone(s)
        <3>1. PICK s \in Undone : IsNext(s) /\ {s} \in Probes(Steps) /\ MarkDone(s)
            BY <2>2
        <3>2. Landed(s)
            BY <3>1 DEF Probes
        <3> QED
            BY <1>t, <2>1, <3>1, <3>2, MarkKeepsOrder
    <2>3. CASE done' = done /\ sig' \in {sig, NoSig}
        BY <1>t, <2>1, <2>3 DEF OrderInv, chain, DoneLanded, SentInOrder, LutDone, AllDone,
            SigOfNext, Landed, IsNext, Undone, BatchSteps
    <2> QED
        BY <1>10, <2>2, <2>3 DEF PollElse
<1>11. CASE NewBlock
    BY <1>11, <1>t DEF OrderInv, NewBlock, page, DoneLanded, SentInOrder, LutDone, AllDone,
        SigOfNext, Landed, IsNext, Undone, BatchSteps
<1>12. ASSUME NEW c \in sent, Land(c) \/ Fail(c) PROVE OrderInv'
    <2>1. UNCHANGED <<batch, at, done, sig, sent>> /\ landed' \subseteq landed \cup {c}
        BY <1>12 DEF Land, Fail, page
    <2>2. landed \subseteq landed'
        BY <1>t, LandedStays
    <2>3. DoneLanded' /\ SentInOrder'
        BY <2>1, <2>2 DEF OrderInv, DoneLanded, SentInOrder, Landed
    <2>4. LutDone' /\ AllDone' /\ SigOfNext'
        BY <2>1 DEF OrderInv, LutDone, AllDone, SigOfNext, IsNext, Undone, BatchSteps
    <2> QED
        BY <1>t, <2>1, <2>3, <2>4 DEF OrderInv
<1> QED
    BY <1>1, <1>2, <1>3, <1>4, <1>5, <1>6, <1>7, <1>8, <1>9, <1>10, <1>11, <1>12
    DEF Next, PageStep, ChainStep, Stopped

\* What the page reports as finished is on the chain in all its parts.
THEOREM FinishedLaunchesLanded == Spec => []FinishedMeansLanded
<1>1. OrderInv => FinishedMeansLanded
    BY DEF OrderInv, AllDone, DoneLanded, FinishedMeansLanded
<1> QED
    BY <1>1, OrderInit, OrderStep, PTL DEF Spec

\* A copy that lands has everything before it on the chain.
LEMMA LandingInOrder ==
    ASSUME OrderInv, [Next]_vars
    PROVE  \A s \in Steps : Landed(s)' /\ ~Landed(s) => \A r \in 1..(s - 1) : Landed(r)
<1> SUFFICES ASSUME NEW s \in Steps, Landed(s)', ~Landed(s), NEW r \in 1..(s - 1)
             PROVE  Landed(r)
    OBVIOUS
<1>1. landed' # landed
    BY DEF Landed
<1>2. PICK c \in sent : Land(c)
    BY <1>1 DEF Next, PageStep, ChainStep, Stopped, Begin, Approve, Abort, NextRound, LeaveBatch,
        FoundDone, Send, PollDone, PollElse, NewBlock, Fail, vars, page, chain
<1>3. landed' = landed \cup {c}
    BY <1>2 DEF Land
<1>4. c[1] = s
    BY <1>3 DEF Landed
<1> QED
    BY <1>2, <1>4 DEF OrderInv, SentInOrder

\* Steps land in the order in which they are listed, whatever the RPC service
\* loses or delays and however often the wallet signs.
THEOREM StepsLandInOrder == Spec => LandsInOrder
<1>1. OrderInv /\ [Next]_vars =>
        [\A s \in Steps : Landed(s)' /\ ~Landed(s) => \A r \in 1..(s - 1) : Landed(r)]_vars
    BY LandingInOrder
<1> QED
    BY <1>1, OrderInit, OrderStep, PTL DEF Spec, LandsInOrder

-----------------------------------------------------------------------------
(* Validity.  The copies of a batch's steps carry the blockhash in use or   *)
(* one that has expired; a batch starts with none.                         *)

SentOfBatch == batch = 1 => \A c \in sent : c[1] <= LutSteps
NoneAtStart == at = "hash" => \A c \in sent : c[1] \notin BatchSteps
OnlyCurrent == \A c \in sent : c[1] \in BatchSteps => c[2] = lastValid \/ c[2] < height

ValidInv == TypeOK /\ SentOfBatch /\ NoneAtStart /\ OnlyCurrent /\ OneValidCopy

LEMMA ValidInit == Init => ValidInv
BY TypeInit DEF Init, ValidInv, SentOfBatch, NoneAtStart, OnlyCurrent, OneValidCopy

\* Steps of the page that neither send nor change the blockhash.
LEMMA QuietKeepsValid ==
    ASSUME ValidInv, TypeOK', UNCHANGED <<batch, lastValid, sent>>,
           height' >= height, at' # "hash"
    PROVE  ValidInv'
<1>1. SentOfBatch' /\ NoneAtStart'
    BY DEF ValidInv, SentOfBatch, NoneAtStart
<1>2. OnlyCurrent'
    BY DEF ValidInv, TypeOK, OnlyCurrent, BatchSteps, Copies
<1>3. OneValidCopy'
    BY DEF ValidInv, TypeOK, OneValidCopy, Copies
<1> QED
    BY <1>1, <1>2, <1>3 DEF ValidInv

\* A new blockhash is had only for a batch with no copies out, or when all
\* copies of it have expired.
LEMMA NewBlockhashKeepsValid ==
    ASSUME ValidInv, TypeOK', UNCHANGED <<batch, chain>>, at' # "hash",
           \A c \in sent : c[1] \in BatchSteps => c[2] < height
    PROVE  ValidInv'
<1>1. SentOfBatch' /\ NoneAtStart'
    BY DEF ValidInv, SentOfBatch, NoneAtStart, chain
<1>2. OnlyCurrent'
    BY DEF OnlyCurrent, BatchSteps, chain
<1>3. OneValidCopy'
    BY DEF ValidInv, OneValidCopy, chain
<1> QED
    BY <1>1, <1>2, <1>3 DEF ValidInv

LEMMA ValidStep == ValidInv /\ [Next]_vars => ValidInv'
<1> SUFFICES ASSUME ValidInv, [Next]_vars PROVE ValidInv'
    OBVIOUS
<1>t. TypeOK /\ TypeOK'
    BY TypeStep DEF ValidInv
<1>h. height \in Nat /\ height <= height
    BY <1>t, Bounds DEF TypeOK
<1>1. CASE UNCHANGED vars
    BY <1>1, <1>t DEF ValidInv, vars, page, chain, SentOfBatch, NoneAtStart, OnlyCurrent,
        OneValidCopy, BatchSteps
<1>2. CASE Begin
    <2>1. \A c \in sent : c[1] \in BatchSteps => c[2] < height
        BY <1>2 DEF Begin, ValidInv, NoneAtStart
    <2> QED
        BY <1>2, <1>t, <2>1, NewBlockhashKeepsValid DEF Begin
<1>3. CASE Approve \/ Abort \/ FoundDone \/ PollDone \/ PollElse
    <2>1. UNCHANGED <<batch, lastValid, sent, height>> /\ at' # "hash"
        BY <1>3 DEF Approve, Abort, FoundDone, PollDone, PollElse, chain
    <2> QED
        BY <1>t, <1>h, <2>1, QuietKeepsValid
<1>4. CASE NextRound
    <2>1. UNCHANGED <<batch, chain>> /\ at' # "hash"
        BY <1>4 DEF NextRound
    <2>2. PICK h \in HeightsSeen \cup {0} :
              IF Expired(h) THEN GetBlockhash /\ at' = "wallet"
                            ELSE at' = "send" /\ UNCHANGED lastValid
        BY <1>4 DEF NextRound
    <2>3. CASE Expired(h)
        <3>1. h <= height /\ h \in Nat
            BY <1>t, <1>h, HeightRead
        <3>2. lastValid < height
            BY <2>3, <3>1, <1>h, <1>t DEF Expired, TypeOK
        <3>3. \A c \in sent : c[1] \in BatchSteps => c[2] < height
            BY <3>2 DEF ValidInv, OnlyCurrent
        <3> QED
            BY <1>t, <2>1, <3>3, NewBlockhashKeepsValid
    <2>4. CASE ~Expired(h)
        BY <1>t, <1>h, <2>1, <2>2, <2>4, QuietKeepsValid DEF chain
    <2> QED
        BY <2>3, <2>4
<1>5. CASE LeaveBatch
    <2>1. UNCHANGED <<lastValid, height, sent>>
        BY <1>5 DEF LeaveBatch, chain
    <2>2. CASE at' # "hash" /\ batch' = batch
        BY <1>t, <1>h, <2>1, <2>2, QuietKeepsValid
    <2>3. CASE batch = 1 /\ batch' = 2
        <3>1. \A c \in sent : c[1] \notin (LutSteps + 1)..AllSteps
            BY <1>t, <2>3, Bounds DEF ValidInv, SentOfBatch, TypeOK, Copies, Steps
        <3>2. \A c \in sent' : c[1] \notin BatchSteps'
            BY <2>1, <2>3, <3>1 DEF BatchSteps
        <3>3. OneValidCopy'
            BY <2>1 DEF ValidInv, OneValidCopy
        <3> QED
            BY <1>t, <2>3, <3>2, <3>3 DEF ValidInv, SentOfBatch, NoneAtStart, OnlyCurrent
    <2> QED
        BY <1>5, <1>t, <2>2, <2>3 DEF LeaveBatch, TypeOK
<1>6. CASE Send
    <2>1. PICK s \in Undone : sent' \in {sent, sent \cup {<<s, lastValid>>}}
        BY <1>6 DEF Send
    <2>2. UNCHANGED <<batch, lastValid, height>> /\ at' = "poll"
        BY <1>6 DEF Send
    <2>3. CASE sent' = sent
        BY <1>t, <1>h, <2>2, <2>3, QuietKeepsValid
    <2>4. CASE sent' = sent \cup {<<s, lastValid>>}
        <3>1. s \in BatchSteps
            BY <2>1 DEF Undone
        <3>2. SentOfBatch'
            BY <2>2, <2>4, <3>1, Bounds DEF ValidInv, SentOfBatch, BatchSteps
        <3>3. OnlyCurrent'
            BY <2>2, <2>4 DEF ValidInv, OnlyCurrent, BatchSteps
        <3>4. ASSUME NEW c \in sent, c[1] = s, height <= c[2] PROVE c = <<s, lastValid>>
            <4>1. c \in Copies
                BY <1>t DEF TypeOK
            <4>2. c[2] = lastValid
                BY <3>1, <3>4, <4>1, <1>h DEF ValidInv, OnlyCurrent, Copies
            <4> QED
                BY <3>4, <4>1, <4>2 DEF Copies
        <3>5. OneValidCopy'
            BY <2>2, <2>4, <3>4 DEF ValidInv, OneValidCopy
        <3> QED
            BY <1>t, <2>2, <3>2, <3>3, <3>5 DEF ValidInv, NoneAtStart
    <2> QED
        BY <2>1, <2>3, <2>4
<1>7. CASE ChainStep
    <2>1. UNCHANGED <<batch, at, lastValid, sent>> /\ height' >= height
        BY <1>7, <1>h DEF ChainStep, NewBlock, Land, Fail, page
    <2>2. CASE at # "hash"
        BY <1>t, <2>1, <2>2, QuietKeepsValid
    <2>3. CASE at = "hash"
        <3>1. \A c \in sent : c[1] \notin BatchSteps
            BY <2>3 DEF ValidInv, NoneAtStart
        <3>2. OneValidCopy'
            BY <1>t, <2>1 DEF ValidInv, TypeOK, OneValidCopy, Copies
        <3> QED
            BY <1>t, <2>1, <3>1, <3>2
            DEF ValidInv, SentOfBatch, NoneAtStart, OnlyCurrent, BatchSteps
    <2> QED
        BY <2>2, <2>3
<1> QED
    BY <1>1, <1>2, <1>3, <1>4, <1>5, <1>6, <1>7 DEF Next, PageStep, Stopped

\* The wallet never signs a step anew while an earlier copy of it could land.
THEOREM NoTwoValidCopies == Spec => []OneValidCopy
<1>1. ValidInv => OneValidCopy
    BY DEF ValidInv
<1> QED
    BY <1>1, ValidInit, ValidStep, PTL DEF Spec

-----------------------------------------------------------------------------
(* Refinement.  A step first sent is one whose predecessors all landed, and *)
(* no later one was sent: what was sent is a beginning of the list, and all *)
(* of it but at most the last landed.                                       *)

SentSteps == {c[1] : c \in sent}
LandedSteps == {c[1] : c \in landed}
Word == IF at \in {"finished", "failed"} THEN at ELSE "working"

LEMMA StepsOK ==
    ASSUME TypeOK
    PROVE  /\ SentSteps \subseteq Steps /\ LandedSteps \subseteq Steps
           /\ \A s \in Steps : Landed(s) <=> s \in LandedSteps
BY DEF TypeOK, SentSteps, LandedSteps, Landed, Copies

\* Of the steps sent all but the last landed.
LEMMA AllButLast ==
    ASSUME OrderInv, NEW s \in SentSteps, NEW r \in 1..(s - 1)
    PROVE  r \in LandedSteps /\ r \in SentSteps
BY DEF OrderInv, SentInOrder, SentSteps, LandedSteps, Landed

\* A step that is next was not sent, or all that were sent end with it.
LEMMA SendingExtends ==
    ASSUME OrderInv, NEW s \in Steps, IsNext(s)
    PROVE  \/ s \in SentSteps
           \/ SentSteps = 1..(s - 1) /\ LandedSteps = SentSteps
<1>1. TypeOK /\ s \in Nat /\ \A n \in Steps : n \in Nat /\ n >= 1
    BY Bounds DEF OrderInv, Steps
<1>2. LandedSteps \subseteq SentSteps
    BY DEF OrderInv, LandedSteps, SentSteps
<1>3. 1..(s - 1) \subseteq LandedSteps
    BY <1>1, BeforeNextLanded DEF Landed, LandedSteps
<1>4. ASSUME s \notin SentSteps, NEW n \in SentSteps PROVE n \in 1..(s - 1)
    <2>1. n \in Steps /\ n \in Nat /\ n >= 1
        BY <1>1, StepsOK
    <2>2. CASE n > s
        BY <1>1, <1>4, <2>1, <2>2, AllButLast DEF Steps
    <2> QED
        BY <1>1, <1>4, <2>1, <2>2
<1> QED
    BY <1>2, <1>3, <1>4

\* The last step sent is the one that lands.
LEMMA LandingCompletes ==
    ASSUME OrderInv, NEW c \in sent, c[1] \notin LandedSteps
    PROVE  LandedSteps \cup {c[1]} = SentSteps
<1>1. TypeOK /\ c[1] \in SentSteps /\ \A n \in SentSteps : n \in Nat /\ n >= 1
    BY StepsOK, Bounds DEF OrderInv, Steps, SentSteps
<1>2. LandedSteps \subseteq SentSteps
    BY DEF OrderInv, LandedSteps, SentSteps
<1>3. ASSUME NEW n \in SentSteps, n # c[1] PROVE n \in LandedSteps
    <2>1. CASE n < c[1]
        BY <1>1, <2>1, AllButLast
    <2>2. CASE c[1] < n
        BY <1>1, <2>2, AllButLast
    <2> QED
        BY <1>1, <1>3, <2>1, <2>2
<1> QED
    BY <1>1, <1>2, <1>3

LEMMA StepwiseMapped ==
    /\ Stepwise!Init <=> SentSteps = {} /\ LandedSteps = {} /\ Word = "working"
    /\ \A s : Stepwise!Begin(s) <=>
            /\ Word = "working"
            /\ SentSteps = 1..(s - 1) /\ LandedSteps = SentSteps
            /\ SentSteps' = 1..s
            /\ LandedSteps' = LandedSteps /\ Word' = Word
    /\ Stepwise!Build <=>
            /\ LandedSteps # SentSteps
            /\ LandedSteps' = SentSteps
            /\ SentSteps' = SentSteps /\ Word' = Word
    /\ Stepwise!Finish <=>
            /\ Word = "working" /\ LandedSteps = Steps
            /\ Word' = "finished"
            /\ SentSteps' = SentSteps /\ LandedSteps' = LandedSteps
    /\ Stepwise!GiveUp <=>
            /\ Word = "working"
            /\ Word' = "failed"
            /\ SentSteps' = SentSteps /\ LandedSteps' = LandedSteps
    /\ (UNCHANGED Stepwise!vars) <=>
            SentSteps' = SentSteps /\ LandedSteps' = LandedSteps /\ Word' = Word
BY DEF Stepwise!Init, Stepwise!Begin, Stepwise!Build, Stepwise!Finish, Stepwise!GiveUp,
       Stepwise!vars, SentSteps, LandedSteps, Word, Steps

LEMMA StepIsStepwise == OrderInv /\ [Next]_vars => [Stepwise!Next]_(Stepwise!vars)
<1> SUFFICES ASSUME OrderInv, [Next]_vars
             PROVE  Stepwise!Next \/ UNCHANGED Stepwise!vars
    OBVIOUS
<1>t. TypeOK /\ OrderInv'
    BY OrderStep DEF OrderInv
<1>1. CASE UNCHANGED vars
    BY <1>1, StepwiseMapped DEF vars, page, chain, SentSteps, LandedSteps, Word
<1>2. CASE Begin \/ Approve \/ NextRound \/ FoundDone \/ PollDone \/ PollElse
    <2>1. UNCHANGED chain /\ Word = "working" /\ Word' = "working"
        BY <1>2 DEF Begin, Approve, NextRound, FoundDone, PollDone, PollElse, Word
    <2> QED
        BY <2>1, StepwiseMapped DEF chain, SentSteps, LandedSteps
<1>3. CASE Abort
    <2>1. UNCHANGED chain /\ Word = "working" /\ Word' = "failed"
        BY <1>3 DEF Abort, Word
    <2> QED
        BY <2>1, StepwiseMapped DEF chain, SentSteps, LandedSteps, Stepwise!Next
<1>4. CASE LeaveBatch
    <2>1. UNCHANGED chain /\ Word = "working"
        BY <1>4 DEF LeaveBatch, Word
    <2>2. SentSteps' = SentSteps /\ LandedSteps' = LandedSteps
        BY <2>1 DEF chain, SentSteps, LandedSteps
    <2>3. CASE at' = "failed"
        BY <2>1, <2>2, <2>3, StepwiseMapped DEF Word, Stepwise!Next
    <2>4. CASE at' = "hash"
        BY <2>1, <2>2, <2>4, StepwiseMapped DEF Word
    <2>5. CASE at' = "finished"
        <3>1. Steps \subseteq LandedSteps
            BY <1>t, <2>2, <2>5 DEF OrderInv, AllDone, DoneLanded, Landed, LandedSteps
        <3>2. LandedSteps = Steps
            BY <1>t, <3>1, StepsOK
        <3> QED
            BY <2>1, <2>2, <2>5, <3>2, StepwiseMapped DEF Word, Stepwise!Next
    <2> QED
        BY <1>4, <2>3, <2>4, <2>5 DEF LeaveBatch
<1>5. CASE Send
    <2>1. PICK s \in Undone :
              /\ IsNext(s)
              /\ sent' \in {sent, sent \cup {<<s, lastValid>>}}
        BY <1>5 DEF Send
    <2>2. UNCHANGED landed /\ Word = "working" /\ Word' = "working" /\ s \in Steps
        BY <1>5, <2>1, BatchIsSteps DEF Send, Word, Undone
    <2>3. LandedSteps' = LandedSteps
        BY <2>2 DEF LandedSteps
    <2>4. CASE sent' = sent
        BY <2>2, <2>3, <2>4, StepwiseMapped DEF SentSteps
    <2>5. CASE sent' = sent \cup {<<s, lastValid>>}
        <3>1. SentSteps' = SentSteps \cup {s}
            <4> DEFINE d == <<s, lastValid>>
            <4>1. d[1] = s
                OBVIOUS
            <4> HIDE DEF d
            <4>2. sent' = sent \cup {d}
                BY <2>5 DEF d
            <4> QED
                BY <4>1, <4>2 DEF SentSteps
        <3>2. CASE s \in SentSteps
            BY <2>2, <2>3, <3>1, <3>2, StepwiseMapped
        <3>3. CASE SentSteps = 1..(s - 1) /\ LandedSteps = SentSteps
            <4>1. s \in Nat /\ s >= 1 /\ s \in 1..AllSteps
                BY <2>2, Bounds DEF Steps
            <4>2. SentSteps' = 1..s
                BY <3>1, <3>3, <4>1
            <4>3. Stepwise!Begin(s)
                BY <2>2, <2>3, <3>3, <4>2, StepwiseMapped
            <4> QED
                BY <4>1, <4>3 DEF Stepwise!Next
        <3> QED
            BY <2>1, <2>2, <3>2, <3>3, SendingExtends
    <2> QED
        BY <2>1, <2>4, <2>5
<1>6. CASE NewBlock \/ \E c \in sent : Fail(c)
    <2>1. UNCHANGED <<page, sent, landed>>
        BY <1>6 DEF NewBlock, Fail
    <2> QED
        BY <2>1, StepwiseMapped DEF page, SentSteps, LandedSteps, Word
<1>7. ASSUME NEW c \in sent, Land(c)
      PROVE  Stepwise!Next \/ UNCHANGED Stepwise!vars
    <2>1. UNCHANGED <<at, sent>> /\ landed' = landed \cup {c}
        BY <1>7 DEF Land, page
    <2>2. LandedSteps' = LandedSteps \cup {c[1]} /\ SentSteps' = SentSteps /\ Word' = Word
        BY <2>1 DEF LandedSteps, SentSteps, Word
    <2>3. CASE c[1] \in LandedSteps
        BY <2>2, <2>3, StepwiseMapped
    <2>4. CASE c[1] \notin LandedSteps
        <3>1. LandedSteps' = SentSteps
            BY <1>7, <2>2, <2>4, LandingCompletes
        <3> QED
            BY <2>2, <2>4, <3>1, StepwiseMapped DEF Stepwise!Next
    <2> QED
        BY <2>3, <2>4
<1> QED
    BY <1>1, <1>2, <1>3, <1>4, <1>5, <1>6, <1>7 DEF Next, PageStep, ChainStep, Stopped

\* Whatever the RPC service loses, delays or shows late, and however often the
\* wallet signs anew, the page builds the pair one step at a time in order,
\* says finished only of a whole one, and begins nothing once it has failed.
THEOREM ImplementsStepwise == Spec => BuildsStepwise
<1>1. Init => Stepwise!Init
    BY StepwiseMapped DEF Init, SentSteps, LandedSteps, Word
<1> QED
    BY <1>1, OrderInit, OrderStep, StepIsStepwise, PTL DEF Spec, BuildsStepwise, Stepwise!Spec

-----------------------------------------------------------------------------
(* Progress.  The rounds to come, and within a round the places to come.    *)

PlaceRank(place) ==
    IF place = "top" THEN 1 ELSE IF place = "poll" THEN 2 ELSE IF place = "send" THEN 3 ELSE 4

StepsLeft ==
    IF at \in {"finished", "failed"} THEN 0
    ELSE (IF batch = 1 THEN 4 * MaxRounds + 6 ELSE 0)
         + (IF at = "hash" THEN 4 * MaxRounds + 5 ELSE 4 * (MaxRounds - round) + PlaceRank(at))

\* No round goes by uncounted: each step of the page brings its end nearer,
\* whatever it is answered, and no step of the chain puts it off.
PageAdvances ==
    [][/\ page' # page => StepsLeft' < StepsLeft
       /\ page' = page => StepsLeft' = StepsLeft
       /\ StepsLeft \in 0..(8 * MaxRounds + 11)]_vars

\* The page takes less than eight steps a round, and stops: what is left to
\* liveness is that its calls return.
THEOREM EveryStepAdvances == Spec => PageAdvances
<1>1. TypeOK /\ [Next]_vars =>
        [/\ page' # page => StepsLeft' < StepsLeft
         /\ page' = page => StepsLeft' = StepsLeft
         /\ StepsLeft \in 0..(8 * MaxRounds + 11)]_vars
    <2> SUFFICES ASSUME TypeOK, Next
                 PROVE  /\ page' # page => StepsLeft' < StepsLeft
                        /\ page' = page => StepsLeft' = StepsLeft
                        /\ StepsLeft \in 0..(8 * MaxRounds + 11)
        OBVIOUS
    <2>t. TypeOK' /\ MaxRounds \in Nat /\ MaxRounds >= 1 /\ round \in Nat /\ round <= MaxRounds
        BY TypeStep, Bounds DEF TypeOK
    <2>1. StepsLeft \in 0..(8 * MaxRounds + 11)
        BY <2>t DEF StepsLeft, PlaceRank, TypeOK
    <2>2. page' = page => StepsLeft' = StepsLeft
        BY DEF page, StepsLeft, PlaceRank
    <2>b. batch \in 1..2 /\ at \in Places /\ round \in Nat /\ MaxRounds - round \in Nat
        BY <2>t DEF TypeOK
    <2>3. CASE Begin
        <3>1. at = "hash" /\ at' = "wallet" /\ round' = 0 /\ batch' = batch
            BY <2>3 DEF Begin
        <3>2. StepsLeft' < StepsLeft
            BY <2>t, <3>1, <2>b DEF StepsLeft, PlaceRank
        <3> QED
            BY <2>1, <2>2, <3>2
    <2>4. CASE Approve
        <3>1. at = "wallet" /\ at' \in {"top", "send"} /\ round' = round /\ batch' = batch
            BY <2>4 DEF Approve
        <3>2. StepsLeft' < StepsLeft
            BY <2>t, <3>1, <2>b DEF StepsLeft, PlaceRank
        <3> QED
            BY <2>1, <2>2, <3>2
    <2>5. CASE Abort
        <3>1. at \in {"hash", "wallet"} /\ at' = "failed"
            BY <2>5 DEF Abort
        <3>2. StepsLeft' < StepsLeft
            BY <2>t, <3>1, <2>b DEF StepsLeft, PlaceRank
        <3> QED
            BY <2>1, <2>2, <3>2
    <2>6. CASE NextRound
        <3>1. at = "top" /\ at' \in {"wallet", "send"} /\ round' = round + 1 /\ round < MaxRounds
              /\ batch' = batch
            BY <2>6 DEF NextRound
        <3>2. StepsLeft' < StepsLeft
            BY <2>t, <3>1, <2>b DEF StepsLeft, PlaceRank
        <3> QED
            BY <2>1, <2>2, <3>2
    <2>7. CASE LeaveBatch
        <3>1. \/ at = "top" /\ at' = "failed"
              \/ at = "top" /\ batch = 1 /\ at' = "hash" /\ batch' = 2
              \/ at = "top" /\ at' = "finished"
            BY <2>7, <2>b DEF LeaveBatch
        <3>2. StepsLeft' < StepsLeft
            BY <2>t, <3>1, <2>b DEF StepsLeft, PlaceRank
        <3> QED
            BY <2>1, <2>2, <3>2
    <2>8. CASE FoundDone \/ Send
        <3>1. at = "send" /\ at' = "poll" /\ batch' = batch /\ round' = round
            BY <2>8 DEF FoundDone, Send
        <3>2. StepsLeft' < StepsLeft
            BY <2>t, <3>1, <2>b DEF StepsLeft, PlaceRank
        <3> QED
            BY <2>1, <2>2, <3>2
    <2>9. CASE PollDone \/ PollElse
        <3>1. at = "poll" /\ at' = "top" /\ batch' = batch /\ round' = round
            BY <2>9 DEF PollDone, PollElse
        <3>2. StepsLeft' < StepsLeft
            BY <2>t, <3>1, <2>b DEF StepsLeft, PlaceRank
        <3> QED
            BY <2>1, <2>2, <3>2
    <2>10. CASE ChainStep
        <3>1. page' = page
            BY <2>10 DEF ChainStep, NewBlock, Land, Fail
        <3> QED
            BY <2>1, <2>2, <3>1
    <2>11. CASE Stopped
        BY <2>1, <2>2, <2>11 DEF Stopped, vars
    <2> QED
        BY <2>1, <2>2, <2>3, <2>4, <2>5, <2>6, <2>7, <2>8, <2>9, <2>10, <2>11
        DEF Next, PageStep
<1> QED
    BY <1>1, TypeInit, TypeStep, PTL DEF Spec, PageAdvances
=============================================================================
