------------------------------- MODULE Answer -------------------------------
(***************************************************************************)
(* What a handler promises of one answer: the upstream produces outputs    *)
(* until it has finished, the client is shown a prefix of them, and in the *)
(* end the client either has the whole answer or an answer cut short.  A   *)
(* stream cut short is counted, once; a client that can still be told of   *)
(* the cut is told.                                                        *)
(***************************************************************************)
EXTENDS Naturals

VARIABLES
    produced, finished,     \* outputs the upstream sent, and whether it said they are all
    shown,                  \* outputs the client was sent
    fate,                   \* open, whole, told (that it was cut) or dropped
    counted,                \* cuts counted
    obliged,                \* a cut must be counted
    reachable               \* the client can be told

answerVars == <<produced, finished, shown, fate, counted>>

AnswerInit ==
    /\ produced = 0 /\ finished = FALSE /\ shown = 0
    /\ fate = "open" /\ counted = 0

Produce ==
    /\ produced' = produced + 1
    /\ UNCHANGED <<finished, shown, fate, counted>>

Finish ==
    /\ finished' = TRUE
    /\ UNCHANGED <<produced, shown, fate, counted>>

Show ==
    /\ fate = "open" /\ counted = 0
    /\ shown' \in shown .. produced
    /\ UNCHANGED <<produced, finished, fate, counted>>

\* The whole answer, and nothing was counted against it.
Complete ==
    /\ fate = "open" /\ counted = 0 /\ finished
    /\ fate' = "whole" /\ shown' = produced
    /\ UNCHANGED <<produced, finished, counted>>

Count ==
    /\ fate = "open" /\ counted = 0 /\ counted' = 1
    /\ UNCHANGED <<produced, finished, shown, fate>>

Cut ==
    /\ fate = "open" /\ obliged => counted = 1
    /\ fate' \in {"told", "dropped"}
    /\ fate' = "dropped" => ~reachable
    /\ UNCHANGED <<produced, finished, shown, counted>>

AnswerNext == Produce \/ Finish \/ Show \/ Complete \/ Count \/ Cut

Answering == AnswerInit /\ [][AnswerNext]_answerVars
=============================================================================
