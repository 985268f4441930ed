--------------------------- MODULE StepwiseLaunch ---------------------------
(***************************************************************************)
(* What a launch promises to whoever pays for it, without how the page and *)
(* the RPC service go about it: a pair is built step by step, each in its  *)
(* turn, and no step is begun before the last one begun is there.  The     *)
(* launch is called finished only when it is whole; after it was given up  *)
(* nothing new is begun, so that at most the step begun last is still      *)
(* built.  Module Launch implements it.                                    *)
(***************************************************************************)
EXTENDS Naturals

CONSTANT Parts      \* the steps of a launch are 1..Parts

VARIABLES begun,    \* steps that may be on their way to the chain, or there
          built,    \* steps on the chain
          said      \* what the page says: "working", "finished", "failed"

vars == <<begun, built, said>>

Init == begun = {} /\ built = {} /\ said = "working"

Begin(s) ==
    /\ said = "working"
    /\ begun = 1..(s - 1) /\ built = begun
    /\ begun' = 1..s
    /\ UNCHANGED <<built, said>>

Build ==
    /\ built # begun
    /\ built' = begun
    /\ UNCHANGED <<begun, said>>

Finish ==
    /\ said = "working" /\ built = 1..Parts
    /\ said' = "finished"
    /\ UNCHANGED <<begun, built>>

GiveUp ==
    /\ said = "working"
    /\ said' = "failed"
    /\ UNCHANGED <<begun, built>>

Next == (\E s \in 1..Parts : Begin(s)) \/ Build \/ Finish \/ GiveUp

Spec == Init /\ [][Next]_vars
=============================================================================
