---------------------------- MODULE UpstreamCall ----------------------------
(***************************************************************************)
(* One call of upstream.Client.post and the response body it returns       *)
(* (internal/upstream/inference.go): the attempts and their retries, the   *)
(* context of the call, and the idle or total timer whose callback runs in *)
(* a goroutine of its own beside the handler that reads the body.          *)
(*                                                                         *)
(* The handler's control is `pc`; module Downstream and the handlers extend *)
(* this one and add what happens between "posted" or "failed" and         *)
(* "returned".  What the upstream sends is a sequence of items: an SSE     *)
(* event, or bytes that complete none.                                     *)
(***************************************************************************)
EXTENDS Naturals, Sequences

CONSTANTS
    Retries,            \* upstream.retries
    IdleTicks,          \* upstream.idle_timeout
    BodyTicks,          \* upstream.body_timeout
    BodyLimit,          \* limits.max_upstream_json_bytes, in items
    Outcomes,           \* how an attempt may end
    Kinds,              \* the items the upstream may send
    MaxEvents, MaxWire  \* bounds: events sent, items on the wire

Answers == {"sse", "json", "busy", "refused"}   \* busy: 502-504; refused: other non-2xx
Errors == {"dial", "reset", "late", "timeout", "other"}  \* late: after the first byte
Events == {"text", "held", "ignored", "finish", "done", "bad", "error", "over"}

ASSUME TimesAssumption == IdleTicks \in Nat \ {0} /\ BodyTicks \in Nat \ {0}
ASSUME LimitsAssumption ==
    /\ Retries \in Nat /\ BodyLimit \in Nat \ {0}
    /\ MaxEvents \in Nat /\ MaxWire \in Nat
ASSUME ChoicesAssumption ==
    Outcomes \subseteq Answers \cup Errors /\ Kinds \subseteq Events \cup {"bytes"}

VARIABLES
    pc,         \* the handler
    reqCtx,     \* r.Context(): live, or cancelled by the client or by the shutdown
    callCtx,    \* requestCtx: live, "canceled" or past its "deadline"
    attempt, outcome, err,
    open,       \* response bodies nobody has closed
    taken,      \* items read from a bounded body
    timer,      \* the body's timer is armed
    left,       \* ticks until it fires
    firing,     \* its callback has set timedOut and not yet cancelled the call
    timedOut,
    wire, wireEnd, sent,    \* the upstream's side of the response
    trickled,   \* bytes that complete no event arrived in this tick
    gap         \* history: ticks since the upstream last sent an event

contexts == <<reqCtx, callCtx>>
call == <<attempt, outcome, err>>
body == <<open, taken, timer, left, firing, timedOut>>
upstream == <<wire, wireEnd, sent, trickled, gap>>
callVars == <<pc, contexts, call, body, upstream>>

Unbounded == outcome = "sse"
Cancelled == IF callCtx = "live" THEN "canceled" ELSE callCtx

CallTypeOK ==
    /\ reqCtx \in {"live", "left", "shutdown"}
    /\ callCtx \in {"live", "canceled", "deadline"}
    /\ attempt \in 0 .. Retries
    /\ outcome \in Answers \cup Errors \cup {"none", "cancelled"}
    /\ open \in 0 .. 1 /\ taken \in 0 .. BodyLimit
    /\ timer \in BOOLEAN /\ firing \in BOOLEAN /\ timedOut \in BOOLEAN
    /\ left \in Nat /\ left <= IF Unbounded THEN IdleTicks ELSE BodyTicks
    /\ wire \in Seq(Kinds) /\ Len(wire) <= MaxWire
    /\ wireEnd \in {"open", "eof", "reset"}
    /\ sent \in 0 .. MaxEvents /\ trickled \in BOOLEAN /\ gap \in 0 .. IdleTicks

CallInit ==
    /\ pc = "send"
    /\ reqCtx = "live" /\ callCtx = "live"
    /\ attempt = 0 /\ outcome = "none" /\ err = "none"
    /\ open = 0 /\ taken = 0
    /\ timer = FALSE /\ left = 0 /\ firing = FALSE /\ timedOut = FALSE
    /\ wire = <<>> /\ wireEnd = "open" /\ sent = 0 /\ trickled = FALSE /\ gap = 0
----------------------------------------------------------------------------
\* The attempt's Do is running.
Send ==
    /\ pc = "send" /\ pc' = "await"
    /\ UNCHANGED <<contexts, call, body, upstream>>

\* Do returns.
Answered ==
    /\ pc = "await" /\ pc' = "decide"
    /\ \/ outcome' \in Outcomes
       \/ callCtx # "live" /\ outcome' = "cancelled"
    /\ open' = IF outcome' \in Answers THEN 1 ELSE 0
    /\ UNCHANGED <<contexts, attempt, err, taken, timer, left, firing, timedOut, upstream>>

Retryable == outcome \in {"dial", "reset", "busy"}
\* Variant: the attempts are counted from one.
RetriesOnceMore == Retryable /\ attempt <= Retries /\ callCtx = "live"
MayRetry == Retryable /\ attempt < Retries /\ callCtx = "live"

\* Variant: the refused response is left open.
RetriesOpen ==
    /\ pc = "decide" /\ MayRetry /\ pc' = "backoff"
    /\ UNCHANGED <<contexts, call, body, upstream>>

\* The deadline leaves time for the delay.
RetriesLater ==
    /\ pc = "decide" /\ MayRetry /\ pc' = "backoff"
    /\ open' = 0
    /\ UNCHANGED <<contexts, call, taken, timer, left, firing, timedOut, upstream>>

BackoffEnds ==
    /\ pc = "backoff" /\ pc' = "send"
    /\ attempt' = attempt + 1
    /\ UNCHANGED <<contexts, outcome, err, body, upstream>>

BackoffCancelled ==
    /\ pc = "backoff" /\ callCtx # "live" /\ pc' = "failed"
    /\ err' = callCtx
    /\ attempt' = 0
    /\ UNCHANGED <<contexts, outcome, body, upstream>>

\* No retry is due, or the deadline is nearer than its delay.
CallFails ==
    /\ pc = "decide" /\ outcome \notin Answers /\ pc' = "failed"
    /\ err' = IF callCtx # "live" THEN callCtx
              ELSE IF outcome = "timeout" THEN "deadline" ELSE "unavailable"
    /\ callCtx' = Cancelled
    /\ attempt' = 0
    /\ UNCHANGED <<reqCtx, outcome, body, upstream>>

\* Variant: only an event stream is timed.
TimesStreams ==
    /\ pc = "decide" /\ outcome \in Answers /\ pc' = "posted"
    /\ attempt' = 0
    /\ timer' = Unbounded /\ left' = IF Unbounded THEN IdleTicks ELSE 0
    /\ gap' = 0
    /\ UNCHANGED <<contexts, outcome, err, open, taken, firing, timedOut, wire, wireEnd, sent,
                   trickled>>

\* The loop, and with it its counter, is left.
CallAnswers ==
    /\ pc = "decide" /\ outcome \in Answers /\ pc' = "posted"
    /\ attempt' = 0
    /\ timer' = TRUE
    /\ left' = IF Unbounded THEN IdleTicks ELSE BodyTicks
    /\ gap' = 0
    /\ UNCHANGED <<contexts, outcome, err, open, taken, firing, timedOut, wire, wireEnd, sent,
                   trickled>>

Post ==
    \/ Send \/ Answered \/ RetriesLater \/ BackoffEnds \/ BackoffCancelled
    \/ CallFails \/ CallAnswers
----------------------------------------------------------------------------
\* Variant: the callback cancels the call before it says why.
CancelsFirst ==
    \/ /\ timer /\ left = 0
       /\ timer' = FALSE /\ firing' = TRUE /\ callCtx' = Cancelled
       /\ UNCHANGED <<pc, reqCtx, call, open, taken, left, timedOut, upstream>>
    \/ /\ firing
       /\ firing' = FALSE /\ timedOut' = TRUE
       /\ UNCHANGED <<pc, contexts, call, open, taken, timer, left, upstream>>

\* The timer fires; its callback sets timedOut, then cancels the call.
Due == timer /\ left = 0
Timer ==
    \/ /\ Due
       /\ timer' = FALSE /\ firing' = TRUE /\ timedOut' = TRUE
       /\ UNCHANGED <<pc, contexts, call, open, taken, left, upstream>>
    \/ /\ firing
       /\ firing' = FALSE /\ callCtx' = Cancelled
       /\ UNCHANGED <<pc, reqCtx, call, open, taken, timer, left, timedOut, upstream>>

\* EventReceived, called by the SSE reader for each complete event.
EventReceived ==
    IF Unbounded /\ callCtx = "live"
      THEN timer' = TRUE /\ left' = IdleTicks
      ELSE UNCHANGED <<timer, left>>

\* readError: why a Read that itself returned `raw` failed.
ReadError(raw) ==
    IF timedOut THEN IF Unbounded THEN "idle" ELSE "deadline"
    ELSE IF callCtx # "live" THEN callCtx ELSE raw

\* Nothing makes Read return.
Blocked == wire = <<>> /\ wireEnd = "open" /\ callCtx = "live"

\* Close: the timer is stopped, the call cancelled, the connection released.
Closed ==
    /\ timer' = FALSE /\ callCtx' = Cancelled /\ open' = 0

\* A Read returns the first n items of the wire and the error e.
Takes(n, e) ==
    /\ wire' = SubSeq(wire, n + 1, Len(wire))
    /\ taken' = IF Unbounded THEN taken ELSE taken + n
    /\ IF e = "none" THEN UNCHANGED <<timer, callCtx, open>> ELSE Closed
    /\ UNCHANGED <<reqCtx, left, firing, timedOut, wireEnd, sent, trickled, gap>>

RawError(n) == IF n > 0 THEN "none" ELSE IF callCtx # "live" THEN callCtx ELSE wireEnd

\* The results a Read can have now.  A cancelled call may still find bytes that
\* had arrived.  A bounded body never yields more than its limit.
ReadResults ==
    LET room == IF Unbounded THEN Len(wire) ELSE BodyLimit - taken
    IN  {<<n, ReadError(RawError(n))>> :
            n \in {k \in 0 .. Len(wire) :
                     /\ k <= room
                     /\ k = 0 => callCtx # "live" \/ (wire = <<>> /\ wireEnd # "open")}}
        \cup (IF room = 0 /\ wire # <<>> THEN {<<0, "limit">>} ELSE {})
----------------------------------------------------------------------------
\* The upstream, the client and the clock.  What is sent at the instant the
\* timer is due comes too late.  What comes before the call has decided is not told
\* from what comes next, and a response that is retried is not read.
UpstreamSends(item) ==
    /\ open = 1 /\ pc # "decide" /\ ~Due /\ wireEnd = "open" /\ Len(wire) < MaxWire
    /\ wire' = Append(wire, item)
    /\ \/ /\ item \in Events /\ sent < MaxEvents
          /\ sent' = sent + 1 /\ gap' = 0 /\ UNCHANGED trickled
       \/ /\ item = "bytes" /\ ~trickled
          /\ trickled' = TRUE /\ UNCHANGED <<sent, gap>>
    /\ UNCHANGED <<pc, contexts, call, body, wireEnd>>

UpstreamEnds(how) ==
    /\ open = 1 /\ pc # "decide" /\ wireEnd = "open"
    /\ wireEnd' = how
    /\ UNCHANGED <<pc, contexts, call, body, wire, sent, trickled, gap>>

\* upstream.request_timeout: the total deadline of the call.
DeadlinePasses ==
    /\ callCtx = "live" /\ callCtx' = "deadline"
    /\ UNCHANGED <<pc, reqCtx, call, body, upstream>>

\* The request's context is cancelled, and with it the call's.
RequestCancelled(cause) ==
    /\ reqCtx = "live" /\ reqCtx' = cause
    /\ callCtx' = Cancelled
=============================================================================
