----------------------------- MODULE Lifecycle -----------------------------
(***************************************************************************)
(* The life of the process: main's goroutine that takes the signals        *)
(* (cmd/ollame/main.go), Server.Run with its graceful shutdown             *)
(* (internal/server/server.go) and the admission of inference requests     *)
(* under a limit that a reload may change (internal/server/admission.go).  *)
(*                                                                         *)
(* Requests are cut down to the slot they hold: what happens while one is  *)
(* served is in Handlers, what a reload publishes in Publication.  Time    *)
(* passes in seconds from the moment the server starts to drain.  A        *)
(* request may take for ever, also after it was told to stop: a handler    *)
(* that reads its body does not notice.                                    *)
(***************************************************************************)
EXTENDS Integers, Sequences, FiniteSets

CONSTANTS
    Requests,       \* the inference requests of a behaviour
    Limits,         \* the values of server.max_inflight, 0 for none
    DrainDelay,     \* server.drain_delay
    ShutdownGrace,  \* server.shutdown_grace
    Capacity,       \* of the channel of signals
    MaxSignals,     \* bound: the signals sent to the process
    MaxReloads      \* bound: the configurations published

ASSUME LifecycleAssumption ==
    /\ IsFiniteSet(Requests) /\ Limits \subseteq Nat
    /\ DrainDelay \in Nat /\ ShutdownGrace \in Nat
    /\ Capacity \in Nat /\ MaxSignals \in Nat /\ MaxReloads \in Nat

FinalErrors == 2    \* the terminal Shutdown's time
TraceFlush == 2     \* tracing.Close's time
Margin == 5         \* what the documentation adds to the two periods

VARIABLES
    notices,        \* the channel of signals not yet taken
    terminating,    \* a signal to terminate was taken, ctx is cancelled
    reload,         \* the channel of one reload request
    sent,           \* bound: the signals sent so far
    limit,          \* the published configuration's max_inflight
    published,      \* bound: the configurations published so far
    phase,          \* of Run
    listening,      \* the API's listener accepts connections
    failed,         \* a listener has failed
    wait,           \* the time left to the timer of the phase
    elapsed,        \* the time since the server drains
    inflight,       \* Server.inflight
    request,        \* request -> [at, limit, seen]
    place,          \* history: request -> how many were running with it when it was admitted
    told,           \* the requests whose context is cancelled
    severed         \* the requests whose connection is closed under them

signalVars == <<notices, terminating, reload, sent>>
runVars == <<phase, listening, failed, wait, elapsed>>
slotVars == <<inflight, request, place>>
cutVars == <<told, severed>>
vars == <<signalVars, limit, published, runVars, slotVars, cutVars>>

At(states) == {r \in Requests : request[r].at \in states}
Running == At({"running"})
\* The requests that keep their connections from being idle.
Active == At({"arrived", "loaded", "running"}) \ severed

Init ==
    /\ notices = <<>> /\ terminating = FALSE /\ reload = FALSE /\ sent = 0
    /\ limit \in Limits /\ published = 0
    /\ phase = "starting" /\ listening = FALSE /\ failed = FALSE /\ wait = 0 /\ elapsed = 0
    /\ inflight = 0 /\ place = [r \in Requests |-> 0]
    /\ request = [r \in Requests |-> [at |-> "unsent", limit |-> 0, seen |-> 0]]
    /\ told = {} /\ severed = {}
----------------------------------------------------------------------------
(* Signals                                                                  *)

\* signal.Notify drops what the channel has no room for.
Signal(notice) ==
    /\ phase # "exited" /\ sent < MaxSignals
    /\ sent' = sent + 1
    /\ notices' = IF Len(notices) < Capacity THEN Append(notices, notice) ELSE notices
    /\ UNCHANGED <<terminating, reload, limit, published, runVars, slotVars, cutVars>>

\* A hangup asks for a reload, unless one is asked for already.
TakeHangup ==
    /\ notices # <<>> /\ Head(notices) = "hangup" /\ notices' = Tail(notices)
    /\ reload' = IF terminating THEN reload ELSE TRUE
    /\ UNCHANGED <<terminating, sent, limit, published, runVars, slotVars, cutVars>>

\* Variant: the requests' contexts derive from the one that the signal cancels.
StopAll ==
    /\ notices # <<>> /\ Head(notices) = "terminate" /\ ~terminating
    /\ notices' = Tail(notices) /\ terminating' = TRUE
    /\ told' = Active
    /\ UNCHANGED <<reload, sent, limit, published, runVars, slotVars, severed>>

\* The first signal to terminate cancels ctx.
Stop ==
    /\ notices # <<>> /\ Head(notices) = "terminate" /\ ~terminating
    /\ notices' = Tail(notices) /\ terminating' = TRUE
    /\ UNCHANGED <<reload, sent, limit, published, runVars, slotVars, cutVars>>

\* Variant: once terminating, no signal is heeded.
KillIgnored ==
    /\ notices # <<>> /\ Head(notices) = "terminate" /\ terminating
    /\ notices' = Tail(notices)
    /\ UNCHANGED <<terminating, reload, sent, limit, published, runVars, slotVars, cutVars>>

\* The second one exits at once.
Kill ==
    /\ notices # <<>> /\ Head(notices) = "terminate" /\ terminating
    /\ notices' = Tail(notices) /\ phase' = "exited" /\ listening' = FALSE
    /\ severed' = severed \cup Active
    /\ UNCHANGED <<terminating, reload, sent, limit, published, failed, wait, elapsed, slotVars,
                   told>>

TakeNotice == phase # "exited" /\ (TakeHangup \/ Stop \/ Kill)

\* The reload loop publishes another limit, when asked to or by its own timer.
Publish ==
    /\ phase = "serving" /\ published < MaxReloads
    /\ published' = published + 1 /\ reload' = FALSE
    /\ limit' \in Limits
    /\ UNCHANGED <<notices, terminating, sent, runVars, slotVars, cutVars>>
----------------------------------------------------------------------------
(* Server.Run                                                               *)

Runs(next, timer) == phase' = next /\ wait' = timer

Listen ==
    /\ phase = "starting" /\ Runs("serving", 0) /\ listening' = TRUE
    /\ UNCHANGED <<signalVars, limit, published, failed, elapsed, slotVars, cutVars>>

\* An address that cannot be listened on: only the deferred calls are left.
ListenFails ==
    /\ phase = "starting" /\ Runs("closing", TraceFlush) /\ failed' = TRUE
    /\ UNCHANGED <<signalVars, limit, published, listening, elapsed, slotVars, cutVars>>

\* Serve returns an error, the API's or that of the admin's listener.
ServeFails ==
    /\ phase \in {"serving", "draining"} /\ ~failed /\ failed' = TRUE
    /\ listening' \in {listening, FALSE}
    /\ UNCHANGED <<signalVars, limit, published, phase, wait, elapsed, slotVars, cutVars>>

BeginDrain ==
    /\ phase = "serving" /\ (terminating \/ failed)
    /\ Runs("draining", DrainDelay)
    /\ UNCHANGED <<signalVars, limit, published, listening, failed, elapsed, slotVars, cutVars>>

BeginShutdown ==
    /\ phase = "draining" /\ wait = 0
    /\ Runs("waiting", ShutdownGrace) /\ listening' = FALSE
    /\ UNCHANGED <<signalVars, limit, published, failed, elapsed, slotVars, cutVars>>

\* Shutdown finds every connection idle.
AllIdle ==
    /\ phase \in {"waiting", "telling"} /\ Active = {}
    /\ Runs("closing", TraceFlush)
    /\ UNCHANGED <<signalVars, limit, published, listening, failed, elapsed, slotVars, cutVars>>

\* Variant: the terminal Shutdown gets the grace once more.
GraceTwice ==
    /\ phase = "waiting" /\ wait = 0
    /\ Runs("telling", ShutdownGrace + FinalErrors) /\ told' = told \cup Active
    /\ UNCHANGED <<signalVars, limit, published, listening, failed, elapsed, slotVars, severed>>

\* Variant: the connections are closed at once.
GraceSevers ==
    /\ phase = "waiting" /\ wait = 0
    /\ Runs("closing", TraceFlush) /\ told' = told \cup Active
    /\ severed' = severed \cup Active
    /\ UNCHANGED <<signalVars, limit, published, listening, failed, elapsed, slotVars>>

\* The grace is over: cancelRequests, and a second Shutdown for their last words.
GraceExpires ==
    /\ phase = "waiting" /\ wait = 0
    /\ Runs("telling", FinalErrors) /\ told' = told \cup Active
    /\ UNCHANGED <<signalVars, limit, published, listening, failed, elapsed, slotVars, severed>>

\* Variant: the terminal Shutdown has no deadline.
WaitsForAll ==
    /\ phase = "telling" /\ wait = 0 /\ Active = {}
    /\ Runs("closing", TraceFlush)
    /\ UNCHANGED <<signalVars, limit, published, listening, failed, elapsed, slotVars, cutVars>>

\* api.Close ends the connections that are left.
CloseAll ==
    /\ phase = "telling" /\ wait = 0
    /\ Runs("closing", TraceFlush) /\ severed' = severed \cup Active
    /\ UNCHANGED <<signalVars, limit, published, listening, failed, elapsed, slotVars, told>>

\* Run's deferred calls are done or out of time, and main exits.
Exit ==
    /\ phase = "closing"
    /\ Runs("exited", 0)
    /\ UNCHANGED <<signalVars, limit, published, listening, failed, elapsed, slotVars, cutVars>>

Run ==
    \/ Listen \/ ListenFails \/ BeginDrain \/ BeginShutdown
    \/ AllIdle \/ GraceExpires \/ CloseAll \/ Exit

\* Only Run's timers count, and none is passed by.
Tick ==
    /\ phase \in {"draining", "waiting", "telling", "closing"} /\ wait > 0
    /\ wait' = wait - 1 /\ elapsed' = elapsed + 1
    /\ UNCHANGED <<signalVars, limit, published, phase, listening, failed, slotVars, cutVars>>
----------------------------------------------------------------------------
(* Admission                                                                *)

Moves(r, to) == request' = [request EXCEPT ![r].at = to]

\* A request keeps the limit of the snapshot it starts with.  One that comes on a
\* connection accepted before the listener closed is left out.
Arrive(r) ==
    /\ listening /\ request[r].at = "unsent"
    /\ request' = [request EXCEPT ![r] = [at |-> "arrived", limit |-> limit, seen |-> 0]]
    /\ UNCHANGED <<signalVars, limit, published, runVars, inflight, place, cutVars>>

Full(r) == request[r].limit > 0 /\ inflight >= request[r].limit

\* Variant: the slot is given back in a call deferred before the admission.
RefuseReleasing(r) ==
    /\ request[r].at = "arrived" /\ Full(r) /\ Moves(r, "refused")
    /\ inflight' = inflight - 1
    /\ UNCHANGED <<signalVars, limit, published, runVars, place, cutVars>>

Refuse(r) ==
    /\ request[r].at = "arrived" /\ Full(r) /\ Moves(r, "refused")
    /\ UNCHANGED <<signalVars, limit, published, runVars, inflight, place, cutVars>>

Load(r) ==
    /\ request[r].at = "arrived" /\ ~Full(r)
    /\ request' = [request EXCEPT ![r].at = "loaded", ![r].seen = inflight]
    /\ UNCHANGED <<signalVars, limit, published, runVars, inflight, place, cutVars>>

\* Variant: the counter is stored without a look at what it has become.
Store(r) ==
    /\ request[r].at = "loaded"
    /\ Moves(r, "running") /\ inflight' = request[r].seen + 1
    /\ place' = [place EXCEPT ![r] = Cardinality(Running \cup {r})]
    /\ UNCHANGED <<signalVars, limit, published, runVars, cutVars>>

\* Variant: only limited requests are counted.
SwapLimited(r) ==
    /\ request[r].at = "loaded" /\ inflight = request[r].seen
    /\ Moves(r, "running")
    /\ inflight' = IF request[r].limit > 0 THEN inflight + 1 ELSE inflight
    /\ place' = [place EXCEPT ![r] = Cardinality(Running \cup {r})]
    /\ UNCHANGED <<signalVars, limit, published, runVars, cutVars>>

Swap(r) ==
    /\ request[r].at = "loaded" /\ inflight = request[r].seen
    /\ Moves(r, "running") /\ inflight' = inflight + 1
    /\ place' = [place EXCEPT ![r] = Cardinality(Running \cup {r})]
    /\ UNCHANGED <<signalVars, limit, published, runVars, cutVars>>

\* CompareAndSwap fails: another request came or went in between.
SwapFails(r) ==
    /\ request[r].at = "loaded" /\ inflight # request[r].seen /\ Moves(r, "arrived")
    /\ UNCHANGED <<signalVars, limit, published, runVars, inflight, place, cutVars>>

Leave(r) ==
    /\ request[r].at = "running" /\ Moves(r, "left") /\ inflight' = inflight - 1
    /\ UNCHANGED <<signalVars, limit, published, runVars, place, cutVars>>

Handle(r) ==
    /\ phase # "exited"
    /\ Arrive(r) \/ Refuse(r) \/ Load(r) \/ Swap(r) \/ SwapFails(r) \/ Leave(r)
----------------------------------------------------------------------------
Next ==
    \/ \E notice \in {"hangup", "terminate"} : Signal(notice)
    \/ TakeNotice \/ Publish \/ ServeFails \/ Run \/ Tick
    \/ \E r \in Requests : Handle(r)

\* The two goroutines of the process run and time passes; nothing is asked of the
\* requests, the listeners and whoever sends signals.
Spec == Init /\ [][Next]_vars /\ WF_vars(TakeNotice) /\ WF_vars(Run) /\ WF_vars(Tick)
----------------------------------------------------------------------------
SignalTypeOK ==
    /\ notices \in Seq({"hangup", "terminate"}) /\ Len(notices) <= Capacity
    /\ terminating \in BOOLEAN /\ reload \in BOOLEAN /\ sent \in 0 .. MaxSignals
RunTypeOK ==
    /\ phase \in {"starting", "serving", "draining", "waiting", "telling", "closing", "exited"}
    /\ listening \in BOOLEAN /\ failed \in BOOLEAN /\ wait \in Nat /\ elapsed \in Nat
SlotTypeOK ==
    /\ inflight \in Nat
    /\ request \in [Requests ->
            [at : {"unsent", "arrived", "loaded", "refused", "running", "left"},
             limit : Limits \cup {0}, seen : Nat]]
    /\ place \in [Requests -> Nat]
TypeOK ==
    /\ SignalTypeOK /\ RunTypeOK /\ SlotTypeOK
    /\ published \in 0 .. MaxReloads /\ limit \in Limits
    /\ severed \subseteq Requests /\ told \subseteq Requests

\* The counter is the number of requests that run, whatever their limits were, so a
\* request under a limit was admitted as one of at most that many, also when the
\* limit came with a reload while others were running (the comment in admit).
SlotsCounted ==
    /\ inflight = Cardinality(Running)
    /\ \A r \in Running : request[r].limit > 0 => place[r] <= request[r].limit

TakesTerminate == notices # <<>> /\ Head(notices) = "terminate" /\ notices' = Tail(notices)
\* Another signal to terminate, after the one that was heeded, ends the process.
SignalledAgain == terminating /\ TakesTerminate /\ phase' = "exited"

\* A termination takes nothing from the requests before its time: connections are
\* accepted for the drain delay, a context is cancelled only after the grace, a
\* connection is closed only if its request could say so for two seconds, and the
\* process exits under a request only then, unless it was signalled again: that
\* ends it in the same step, whatever it was waiting for.
EndsInOrder ==
    /\ listening /\ ~listening' =>
        elapsed >= DrainDelay \/ (failed' /\ ~failed) \/ SignalledAgain
    /\ told' # told => elapsed >= DrainDelay + ShutdownGrace
    /\ severed' # severed =>
        \/ elapsed >= DrainDelay + ShutdownGrace + FinalErrors /\ severed' \subseteq told
        \/ SignalledAgain
    /\ phase # "exited" /\ phase' = "exited" => Active' = {}
    /\ terminating /\ TakesTerminate => phase' = "exited"
NothingCutEarly == [][EndsInOrder]_vars

\* The process leaves within the time the documentation allows for.
ExitsInTime == elapsed <= DrainDelay + ShutdownGrace + Margin

\* A process that is told to terminate, or cannot serve, exits, even under requests
\* that never end.
ProcessEnds == (terminating \/ failed) ~> (phase = "exited")
=============================================================================
