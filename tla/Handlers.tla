------------------------------ MODULE Handlers ------------------------------
(***************************************************************************)
(* A request that calls the upstream, whichever handler serves it, and the *)
(* answer it promises its client.                                          *)
(***************************************************************************)
EXTENDS Inference, Passthrough

vars == <<requestVars, assembly>>

TypeOK == RequestTypeOK /\ AssemblyTypeOK

Init == RequestInit /\ AssemblyInit

Relaying == mode = "relay"

\* The handler's own steps, its client's pace apart.
Handler ==
    \/ Around /\ UNCHANGED assembly
    \/ ~Relaying /\ Infers
    \/ Relaying /\ Passes /\ UNCHANGED assembly

\* The client takes what is written.
Takers ==
    \/ ~Relaying /\ Writes
    \/ Relaying /\ Relayed /\ UNCHANGED assembly

Runs == TimerRuns /\ UNCHANGED assembly
TimePasses == Tick /\ UNCHANGED assembly
Returned == pc = "returned" /\ UNCHANGED vars

Next ==
    \/ Handler \/ Takers \/ Runs \/ TimePasses
    \/ Environment /\ UNCHANGED assembly
    \/ Returned

Spec == Init /\ [][Next]_vars

\* The goroutines run, time passes, and an attempt ends (the transport has
\* connect and header timeouts).
FairSpec == Spec /\ WF_vars(Handler) /\ WF_vars(Runs) /\ WF_vars(TimePasses)
----------------------------------------------------------------------------
\* Whether the upstream's answer is all there: a relay and a JSON answer end with
\* the body, a decoded stream says so.
Finished ==
    IF mode \in {"json", "relay"} THEN "eof" \in marks
    ELSE "done" \in marks \/ {"finish", "eof"} \subseteq marks

\* Streams are accounted for.  A response the client asked for whole is not when
\* it fails as it is written.
Obliged ==
    \/ Relaying /\ outcome = "sse"
    \/ outcome \in {"sse", "json"} /\ (mode = "stream" \/ (mode = "aggregate" /\ writing # "done"))

\* The client's connection works, and the answer was not one whose bytes are
\* passed on without a frame in which an error could be told.
Reachable == ~broken /\ ~(Relaying /\ outcome # "sse" /\ written)

Fate ==
    CASE ending = "done" -> "whole"
      [] ending # "done" /\ pc = "returned" -> IF ending = "none" THEN "dropped" ELSE "told"
      [] OTHER -> "open"

Promise == INSTANCE Answer WITH
    produced <- received, finished <- Finished, shown <- out, fate <- Fate, counted <- aborts,
    obliged <- Obliged, reachable <- Reachable

\* A handler keeps the promise of module Answer: a response that says done is the
\* whole answer of an upstream that had finished; a stream cut short is counted
\* once and never afterwards completed; and a client that can be told is told.
ImplementsAnswer == Promise!Answering

\* Every request ends, whatever the upstream and the client do, and however far
\* away the call's total deadline is: an upstream that trickles bytes and a
\* client that never reads are both given up.
AlwaysReturns == <>(pc = "returned")
=============================================================================
