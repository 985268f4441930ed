------------------------------- MODULE Launch -------------------------------
(***************************************************************************)
(* The browser's launch flow: a pair is created by a list of transactions, *)
(* the steps, signed in two batches (the lookup table, then the rest).     *)
(* landBatch sends the first step that is not done, asks what became of    *)
(* it, and goes on; when the blockhash expires it has the wallet sign what *)
(* remains anew.  Below it is an RPC service that loses, delays and lags,  *)
(* and a chain that executes a signed transaction at most once and only    *)
(* while its blockhash is valid.                                           *)
(*                                                                         *)
(* The steps are numbered as they are listed.  A signed copy of a step is  *)
(* <<step, last valid block height>>: the blockhash and the instructions   *)
(* determine the bytes, and the signature with them.                       *)
(***************************************************************************)
EXTENDS Integers, FiniteSets

CONSTANTS
    LutSteps,       \* steps of the first batch
    AllSteps,       \* steps of both
    Needs,          \* Needs[s]: the steps whose effects s builds on
    Probed,         \* steps stepAlreadyDone can look up
    Repeatable,     \* steps the programs execute again: extending, minting
    Validity,       \* blocks a blockhash is valid for
    Behind,         \* blocks an RPC node may be behind
    MaxRounds,      \* rounds of a batch (60 in the code)
    StaleRounds,    \* rounds without progress before a probe (12 in the code)
    MaxHeight       \* bound on the block height explored

Steps == 1..AllSteps
Copies == Steps \X (0..(MaxHeight + Validity))

ASSUME LaunchAssumption ==
    /\ LutSteps \in Nat /\ AllSteps \in Nat /\ LutSteps \in 1..(AllSteps - 1)
    /\ Needs \in [Steps -> SUBSET Steps]
    /\ Probed \subseteq Steps /\ Repeatable \subseteq Steps
    /\ Validity \in Nat \ {0} /\ Behind \in Nat
    /\ MaxRounds \in Nat \ {0} /\ StaleRounds \in Nat \ {0, 1}
    /\ MaxHeight \in Nat

VARIABLES
    batch,      \* the page: 1 or 2
    at,         \*   where landBatch is
    done,       \*   steps marked done
    sig,        \*   the copy of the first undone step that was sent, or NoSig
    lastValid,  \*   last block height of the blockhash in use
    round,
    stale,      \*   rounds without progress, counted up to StaleRounds
    height,     \* the chain: height of the last block
    sent,       \*   copies that reached it
    landed,     \*   copies executed with success
    failed      \*   copies executed with an error

page == <<batch, at, done, sig, lastValid, round, stale>>
chain == <<height, sent, landed, failed>>
vars == <<page, chain>>

NoSig == <<0, 0>>
Places == {"hash", "wallet", "top", "send", "poll", "finished", "failed"}

TypeOK ==
    /\ batch \in 1..2 /\ at \in Places
    /\ done \subseteq Steps /\ sig \in Copies \cup {NoSig}
    /\ lastValid \in 0..(MaxHeight + Validity)
    /\ round \in 0..MaxRounds /\ stale \in 0..StaleRounds
    /\ height \in 0..MaxHeight
    /\ sent \subseteq Copies /\ landed \subseteq Copies /\ failed \subseteq Copies

Init ==
    /\ batch = 1 /\ at = "hash" /\ done = {} /\ sig = NoSig
    /\ lastValid = 0 /\ round = 0 /\ stale = 0
    /\ height = 0 /\ sent = {} /\ landed = {} /\ failed = {}

-----------------------------------------------------------------------------
(* The chain.                                                              *)

Landed(s) == \E c \in landed : c[1] = s

Flying == sent \ (landed \cup failed)
\* The next block takes a copy while the last is not past its height.
MayExecute(c) == c \in Flying /\ height <= c[2]

\* The accounts of a step exist once: only minting and extending repeat.
Applies(s) ==
    /\ \A n \in Needs[s] : Landed(n)
    /\ s \in Repeatable \/ ~Landed(s)

Land(c) ==
    /\ MayExecute(c) /\ Applies(c[1])
    /\ landed' = landed \cup {c}
    /\ UNCHANGED <<page, height, sent, failed>>

\* Also a step that applies may fail, for want of SOL or compute units.
Fail(c) ==
    /\ MayExecute(c)
    /\ failed' = failed \cup {c}
    /\ UNCHANGED <<page, height, sent, landed>>

NewBlock ==
    /\ height < MaxHeight
    /\ height' = height + 1
    /\ UNCHANGED <<page, sent, landed, failed>>

\* Programs report "account already in use" as a custom code, in which
\* errIsBenignDone does not find the text it looks for.
ErrorOf(c) == "Custom"

-----------------------------------------------------------------------------
(* The page.                                                               *)

BatchSteps == IF batch = 1 THEN 1..LutSteps ELSE (LutSteps + 1)..AllSteps
Undone == BatchSteps \ done
IsNext(s) == s \in Undone /\ \A r \in Undone : s <= r

\* What an RPC node that is behind may answer.
HeightsSeen == {h \in 0..height : height <= h + Behind}

\* Steps a look at the chain finds done; a look that fails finds nothing.
Probes(steps) == SUBSET {s \in steps \cap Probed : Landed(s)}

\* Mutant: the custom code counts as done, whatever it stands for.
BenignCustom(err) == err \in {"AlreadyInUse", "Custom"}

BenignDone(err) == err = "AlreadyInUse"

\* Mutant: the last valid height counts as expired.
ExpiredEarly(h) == h >= lastValid

Expired(h) == h > lastValid

\* getLatestBlockhash for a batch, or for what remains of one
GetBlockhash ==
    \E h \in HeightsSeen : lastValid' = h + Validity

Begin ==
    /\ at = "hash"
    /\ GetBlockhash
    /\ at' = "wallet"
    /\ round' = 0 /\ stale' = 0
    /\ UNCHANGED <<batch, done, sig, chain>>

\* Signing a batch is followed by a look at each step, signing the rest of
\* one by the sending that the round was about to do.
Approve ==
    /\ at = "wallet"
    /\ sig' = NoSig
    /\ IF round = 0
       THEN \E found \in Probes(BatchSteps) : done' = done \cup found
       ELSE done' = done
    /\ at' = IF round = 0 THEN "top" ELSE "send"
    /\ UNCHANGED <<batch, lastValid, round, stale, chain>>

\* The wallet declines, or the blockhash cannot be had.
Abort ==
    /\ at \in {"hash", "wallet"}
    /\ at' = "failed"
    /\ UNCHANGED <<batch, done, sig, lastValid, round, stale, chain>>

\* Mutant: a round whose height could not be had is not counted.
NextRoundUncounted ==
    /\ at = "top" /\ Undone # {} /\ round < MaxRounds
    /\ \E h \in HeightsSeen \cup {0} :
          /\ round' = IF h = 0 THEN round ELSE round + 1
          /\ IF Expired(h) THEN GetBlockhash /\ at' = "wallet"
                           ELSE at' = "send" /\ UNCHANGED lastValid
    /\ UNCHANGED <<batch, done, sig, stale, chain>>

\* A height that could not be had counts as 0: not expired.
NextRound ==
    /\ at = "top" /\ Undone # {} /\ round < MaxRounds
    /\ round' = round + 1
    /\ \E h \in HeightsSeen \cup {0} :
          IF Expired(h) THEN GetBlockhash /\ at' = "wallet"
                        ELSE at' = "send" /\ UNCHANGED lastValid
    /\ UNCHANGED <<batch, done, sig, stale, chain>>

LeaveBatch ==
    /\ at = "top"
    /\ IF Undone # {}
       THEN /\ round = MaxRounds
            /\ at' = "failed" /\ UNCHANGED batch
       ELSE /\ at' = IF batch = 1 THEN "hash" ELSE "finished"
            /\ batch' = 2
    /\ UNCHANGED <<done, sig, lastValid, round, stale, chain>>

\* Marks the first undone step done; the next one has no copy out.
MarkDone(s) == done' = done \cup {s} /\ sig' = NoSig

FoundDone ==
    /\ at = "send"
    /\ \E s \in Undone :
          /\ IsNext(s) /\ {s} \in Probes(Steps)
          /\ MarkDone(s)
    /\ at' = "poll"
    /\ stale' = 0
    /\ UNCHANGED <<batch, lastValid, round, chain>>

\* Sends the first undone step unless a copy is out.  The answer may be an
\* error whether or not the copy arrives.
Send ==
    /\ at = "send"
    /\ \E s \in Undone :
          /\ IsNext(s)
          /\ IF sig = NoSig
             THEN /\ sent' \in {sent, sent \cup {<<s, lastValid>>}}
                  /\ sig' \in {NoSig, <<s, lastValid>>}
             ELSE UNCHANGED <<sent, sig>>
    /\ at' = "poll"
    /\ UNCHANGED <<batch, done, lastValid, round, stale, height, landed, failed>>

\* The status of the copy, by either of two calls: it landed, or it failed
\* with an error taken for done.
SeenLanded == sig \in landed
SeenFailed == sig \in failed

\* Mutant: a status without an error counts, confirmed or not.
ReportedNoError == sig \in sent /\ ~SeenFailed

ReportedDone == SeenLanded \/ (SeenFailed /\ BenignDone(ErrorOf(sig)))

PollDone ==
    /\ at = "poll"
    /\ ReportedDone
    /\ \E s \in Undone : IsNext(s) /\ MarkDone(s)
    /\ at' = "top" /\ stale' = 0
    /\ UNCHANGED <<batch, lastValid, round, chain>>

\* No answer, or an error: the step counts as not sent and goes out again.
\* After StaleRounds without progress the step is looked up once more.
PollElse ==
    /\ at = "poll"
    /\ stale' = IF stale < StaleRounds THEN stale + 1 ELSE StaleRounds
    /\ \/ /\ stale' = StaleRounds
          /\ \E s \in Undone : IsNext(s) /\ {s} \in Probes(Steps) /\ MarkDone(s)
       \/ /\ SeenFailed /\ ~ReportedDone
          /\ sig' = NoSig /\ UNCHANGED done
       \/ UNCHANGED <<sig, done>>
    /\ at' = "top"
    /\ UNCHANGED <<batch, lastValid, round, chain>>

PageStep ==
    \/ Begin \/ Approve \/ Abort \/ NextRound \/ LeaveBatch
    \/ FoundDone \/ Send \/ PollDone \/ PollElse

ChainStep ==
    \/ NewBlock
    \/ \E c \in sent : Land(c) \/ Fail(c)

Stopped == at \in {"finished", "failed"} /\ UNCHANGED vars

Next == PageStep \/ ChainStep \/ Stopped

\* The page's calls are answered or fail, and the wallet answers.
Spec == Init /\ [][Next]_vars /\ WF_vars(PageStep)

-----------------------------------------------------------------------------
(* Properties.                                                             *)

\* A step takes effect only after all steps listed before it did, whatever
\* is lost, late or signed anew: the pools are created with the table and the
\* seeds in place, and minting is handed over when nothing is left to mint.
LandsInOrder ==
    [][\A s \in Steps : Landed(s)' /\ ~Landed(s) => \A r \in 1..(s - 1) : Landed(r)]_vars

\* A launch reported as finished is on the chain in all its parts.
FinishedMeansLanded == at = "finished" => \A s \in Steps : Landed(s)

\* The wallet signs a step anew only when no earlier copy can land any more:
\* of two copies of a step at most one is ever valid.
OneValidCopy ==
    \A c, d \in sent : c[1] = d[1] /\ height <= c[2] /\ height <= d[2] => c = d

\* However often copies are lost, expire and are signed anew, a launch builds
\* its steps one at a time in their order, says finished only of a whole pair,
\* and begins nothing after it has failed.
Stepwise == INSTANCE StepwiseLaunch WITH
                Parts <- AllSteps,
                begun <- {c[1] : c \in sent},
                built <- {c[1] : c \in landed},
                said <- IF at \in {"finished", "failed"} THEN at ELSE "working"

BuildsStepwise == Stepwise!Spec

\* The page always comes to an end, finished or failed.
LaunchEnds == <>(at \in {"finished", "failed"})
=============================================================================
