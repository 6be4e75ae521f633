----------------------------- MODULE Downstream -----------------------------
(***************************************************************************)
(* The other half of a request that calls the upstream: the response the   *)
(* handler writes to a client that may be slow or gone, the deadline of    *)
(* each write, the request's context, and the accounting of streams that   *)
(* were cut short (internal/server/abort.go).  The handlers (Inference,    *)
(* Passthrough) extend this module with what they do in between.           *)
(***************************************************************************)
EXTENDS UpstreamCall

CONSTANTS
    Modes,          \* the modes a request may have
    StallTicks,     \* server.write_stall_timeout
    Shutdowns       \* whether Run may cancel the requests

\* stream: both sides stream.  aggregate: only the upstream does (stream_mode
\* "always").  json: neither.  relay: the passthrough copies what arrives.
AllModes == {"stream", "aggregate", "json", "relay"}

ASSUME ModesAssumption ==
    Modes \subseteq AllModes /\ StallTicks \in Nat \ {0} /\ Shutdowns \in BOOLEAN

VARIABLES
    mode,
    buf, readErr,   \* items read and not yet used, and the error that ends them
    writing,        \* what the handler is writing: outputs, or a last record
    stall,          \* ticks until the write deadline
    written,        \* `written`: a record was started
    client,         \* the client: present or gone
    broken,         \* a write to the connection failed
    out,            \* outputs written, including those in the final record
    ending,         \* how the downstream response ended
    aborted, reason, aborts,    \* details.aborted, abortReason; the abort counter
    received,       \* history: outputs the upstream sent before its [DONE]
    marks,          \* history: how the upstream ended its answer
    waited,         \* history: ticks in writes since the last event was taken
    quiet           \* history: the upstream was silent when the timer first fired

unread == <<buf, readErr>>
downstream == <<writing, stall, written, client, broken, out, ending>>
accounting == <<aborted, reason, aborts>>
history == <<received, marks, waited, quiet>>
own == <<mode, unread, downstream, accounting>>
requestVars == <<callVars, own, history>>

RequestTypeOK ==
    /\ CallTypeOK
    /\ mode \in AllModes
    /\ buf \in Seq(Kinds)
    /\ writing \in {"none", "text", "held", "done", "error", "status"}
    /\ stall \in 0 .. StallTicks /\ written \in BOOLEAN
    /\ client \in {"present", "gone"} /\ broken \in BOOLEAN
    /\ out \in Nat
    /\ ending \in {"none", "done", "error", "status"}
    /\ aborted \in BOOLEAN /\ reason \in {"none", "shutdown", "client", "idle", "upstream"}
    /\ aborts \in Nat
    /\ received \in Nat /\ marks \subseteq {"finish", "done", "eof"}
    /\ waited \in 0 .. IdleTicks
    /\ quiet \in BOOLEAN

RequestInit ==
    /\ CallInit
    /\ mode \in Modes
    /\ buf = <<>> /\ readErr = "none"
    /\ writing = "none" /\ stall = 0 /\ written = FALSE
    /\ client = "present" /\ broken = FALSE /\ out = 0 /\ ending = "none"
    /\ aborted = FALSE /\ reason = "none" /\ aborts = 0
    /\ received = 0 /\ marks = {} /\ waited = 0
    /\ quiet = TRUE

Goto(label) == pc' = label
IsOutput(item) == item \in {"text", "held"}
Refusal == outcome \in {"busy", "refused"}
----------------------------------------------------------------------------
\* abortReason.
AbortReason(e, down, ctx) ==
    IF ctx = "shutdown" THEN "shutdown"
    ELSE IF down \/ ctx = "left" THEN "client"
    ELSE IF e = "idle" THEN "idle" ELSE "upstream"

\* recordAbort: the first failure counts and is attributed.
RecordAbort(e, down, ctx) ==
    IF aborted THEN UNCHANGED accounting
    ELSE /\ aborted' = TRUE /\ aborts' = aborts + 1
         /\ reason' = AbortReason(e, down, ctx)

\* PostJSON failed: nothing was written, the client is told the status.
Refused ==
    /\ pc = "failed" /\ Goto("respond")
    /\ writing' = "status"
    /\ UNCHANGED <<contexts, call, body, upstream, mode, unread, stall, written, client, broken,
                   out, ending, accounting, history>>

\* A write to the connection fails: the client is gone, the deadline passes, or
\* Close drops the connection after a shutdown.  net/http then cancels the
\* request's context.
Breaks ==
    /\ broken \/ client = "gone" \/ stall = 0 \/ reqCtx = "shutdown"
    /\ broken' = TRUE
    /\ reqCtx' = IF reqCtx = "live" THEN "left" ELSE reqCtx
    /\ callCtx' = Cancelled

\* writeJSON of an error: one response, whose failure nobody looks at.
TellsStatus ==
    /\ pc = "respond" /\ writing = "status" /\ Goto("leave")
    /\ \/ ~broken /\ ending' = writing /\ UNCHANGED broken
       \/ /\ broken \/ client = "gone" \/ reqCtx = "shutdown"
          /\ broken' = TRUE /\ UNCHANGED ending
    /\ UNCHANGED <<contexts, call, body, upstream, mode, unread, writing, stall, written, client,
                   out, accounting, history>>

\* The deferred calls: the body is closed and the context cancelled.
Leaves ==
    /\ pc = "leave" /\ Goto("returned")
    /\ Closed
    /\ UNCHANGED <<reqCtx, call, taken, left, firing, timedOut, upstream, own, history>>

Calls == Post /\ UNCHANGED <<own, history>>

\* What every handler does around its own loop.
Around == Calls \/ Refused \/ TellsStatus \/ Leaves
----------------------------------------------------------------------------
\* The upstream has sent no event for IdleTicks, the ticks the handler spent
\* writing apart.  A relay also writes bytes that complete no event, and cannot
\* take the event that arrives meanwhile.
Silent == gap + waited >= IdleTicks \/ (mode = "relay" /\ waited > 0)

\* What matters is the first firing: an event taken before its callback has
\* cancelled the call arms the timer again.
TimerRuns ==
    /\ Timer
    /\ quiet' = IF timer /\ ~timer' /\ ~timedOut THEN Silent ELSE quiet
    /\ UNCHANGED <<own, received, marks, waited>>

\* Who does not decode an answer cannot tell more of its items apart.
Distinct ==
    IF mode = "relay" THEN {"text", "bytes"}
    ELSE IF Refusal THEN {"bytes"}
    ELSE IF mode = "json" THEN {"text", "finish", "bytes"} ELSE Kinds

\* An output of the answer.  A relay copies every item.
Counts(item) == mode = "relay" \/ (IsOutput(item) /\ "done" \notin marks)

Sends(item) ==
    /\ item \in Distinct /\ UpstreamSends(item)
    /\ received' = received + (IF Counts(item) THEN 1 ELSE 0)
    /\ marks' = marks \cup ({item} \cap {"finish", "done"})
    /\ UNCHANGED <<own, waited, quiet>>
Ends(how) ==
    /\ UpstreamEnds(how)
    /\ marks' = marks \cup ({how} \cap {"eof"})
    /\ UNCHANGED <<own, received, waited, quiet>>

TotalDeadline == pc # "returned" /\ DeadlinePasses /\ UNCHANGED <<own, history>>

ClientGoes ==
    /\ pc # "returned" /\ client = "present" /\ client' = "gone"
    /\ UNCHANGED <<callVars, mode, unread, writing, stall, written, broken, out, ending,
                   accounting, history>>

\* net/http sees the connection closed.
Disconnected ==
    /\ pc # "returned" /\ client = "gone"
    /\ RequestCancelled("left")
    /\ UNCHANGED <<pc, call, body, upstream, own, history>>

\* Run cancels the requests that outlived the grace.
ShutDown ==
    /\ pc # "returned" /\ Shutdowns
    /\ RequestCancelled("shutdown")
    /\ UNCHANGED <<pc, call, body, upstream, own, history>>

\* Nothing to do until the upstream sends.
AwaitsUpstream ==
    /\ pc = "slurp" \/ (pc \in {"next", "relay"} /\ buf = <<>>)
    /\ readErr = "none" /\ Blocked

\* Time passes while the handler waits for the upstream or for the client; what
\* is due - the timer's callback, the write deadline - happens first.
Tick ==
    /\ ~firing /\ ~Due
    /\ \/ AwaitsUpstream /\ UNCHANGED <<stall, waited>>
       \/ /\ pc = "write" /\ stall > 0 /\ stall' = stall - 1
          /\ waited' = IF timer /\ Unbounded /\ waited < IdleTicks THEN waited + 1 ELSE waited
    /\ left' = IF timer THEN left - 1 ELSE left
    /\ gap' = IF timer /\ Unbounded /\ gap < IdleTicks THEN gap + 1 ELSE gap
    /\ trickled' = FALSE
    /\ UNCHANGED <<pc, contexts, call, open, taken, timer, firing, timedOut, wire, wireEnd, sent,
                   mode, unread, writing, written, client, broken, out, ending, accounting,
                   received, marks, quiet>>

Environment ==
    \/ \E item \in Kinds : Sends(item)
    \/ \E how \in {"eof", "reset"} : Ends(how)
    \/ TotalDeadline \/ ClientGoes \/ Disconnected \/ ShutDown
----------------------------------------------------------------------------
\* An upstream connection is never held for nothing: not while the next attempt
\* is made, not by a timer left armed, not after the handler has returned.
NothingHeld ==
    /\ pc \in {"send", "await", "backoff", "failed", "returned"} => open = 0
    /\ timer => open = 1

\* Whom the abort is blamed on had a part in it.  In particular the call's own
\* cancellation, by the timer's callback, is never taken for the upstream's; and
\* an answer given up as idle had no event to show for IdleTicks, the time the
\* handler spent writing included (see Silent).  (Once the call's own deadline has passed the
\* timer is no longer reset, and "idle" may name what the deadline did.)
BlameIsFair ==
    /\ reason = "shutdown" => reqCtx = "shutdown"
    /\ reason = "client" => client = "gone" \/ broken
    /\ reason = "idle" => timedOut /\ Unbounded
    /\ reason = "idle" /\ callCtx # "deadline" => quiet
    /\ reason = "upstream" => err \notin {"canceled", "write", "idle"}
=============================================================================
