---------------------------- MODULE Passthrough ----------------------------
(***************************************************************************)
(* The /v1 routes (internal/server/passthrough.go) from the upstream call  *)
(* to the last byte copied: every answer, refusals included, is relayed as *)
(* it arrives.  An item is what one event, or part of one, contributes to  *)
(* a Read; only an event stream is watched for events and told of an error.*)
(***************************************************************************)
EXTENDS Downstream

\* The deadline of the error event, 2 seconds: a tick, the shortest there is.
ErrorTicks == 1

IsSSE == outcome = "sse"

\* The headers are copied, and the loop begins.
Relays ==
    /\ pc = "posted" /\ Goto("relay")
    /\ UNCHANGED <<contexts, call, body, upstream, own, history>>

\* response.Body.Read: bytes, an error, or both.
Copies ==
    /\ pc = "relay" /\ buf = <<>> /\ readErr = "none" /\ ~Blocked
    /\ \E result \in ReadResults :
          /\ Takes(result[1], result[2])
          /\ buf' = SubSeq(wire, 1, result[1])
          /\ readErr' = result[2]
    /\ UNCHANGED <<pc, call, mode, downstream, accounting, history>>

\* eventProgress.Feed: whether a chunk completes an event.
CompletesEvent(chunk) == \E i \in DOMAIN chunk : chunk[i] \in Events

\* The chunk is watched for events, and its write begins.
Feeds ==
    /\ pc = "relay" /\ buf # <<>> /\ Goto("write")
    /\ IF IsSSE /\ CompletesEvent(buf)
         THEN EventReceived /\ waited' = 0 ELSE UNCHANGED <<timer, left, waited>>
    /\ writing' = "text" /\ stall' = StallTicks /\ written' = TRUE
    /\ UNCHANGED <<contexts, call, open, taken, firing, timedOut, upstream, mode, unread, client,
                   broken, out, ending, accounting, received, marks, quiet>>

\* Write and Flush return before their deadline.
Relayed ==
    /\ pc = "write" /\ ~broken
    /\ IF writing = "text"
         THEN out' = out + Len(buf) /\ UNCHANGED ending /\ Goto("relay")
         ELSE ending' = "error" /\ UNCHANGED out /\ Goto("leave")
    /\ buf' = <<>>
    /\ UNCHANGED <<contexts, call, body, upstream, mode, readErr, writing, stall, written, client,
                   broken, accounting, history>>

\* They fail: only a stream's answer is counted.  A failed error event is not
\* looked at.
RelayBreaks ==
    /\ pc = "write" /\ Breaks /\ Goto("leave")
    /\ IF IsSSE /\ writing = "text"
         THEN RecordAbort("write", TRUE, reqCtx') ELSE UNCHANGED accounting
    /\ UNCHANGED <<call, body, upstream, mode, unread, writing, stall, written, client, out, ending,
                   history>>

\* Variant: any error is taken for the end of the body.
StopsAnyhow ==
    /\ pc = "relay" /\ buf = <<>> /\ readErr # "none" /\ Goto("leave")
    /\ ending' = "done"
    /\ UNCHANGED <<contexts, call, body, upstream, mode, unread, writing, stall, written, client,
                   broken, out, accounting, history>>

\* The body ended.
RelayEnds ==
    /\ pc = "relay" /\ buf = <<>> /\ readErr = "eof" /\ Goto("leave")
    /\ ending' = "done"
    /\ UNCHANGED <<contexts, call, body, upstream, mode, unread, writing, stall, written, client,
                   broken, out, accounting, history>>

\* It failed: the call is cancelled, and the client told by a status, or by an
\* event when the stream has begun.  Another answer just stops.
RelayFails ==
    /\ pc = "relay" /\ buf = <<>> /\ readErr \notin {"none", "eof"}
    /\ IF IsSSE THEN RecordAbort(readErr, FALSE, reqCtx) ELSE UNCHANGED accounting
    /\ callCtx' = Cancelled
    /\ err' = readErr
    /\ \/ ~written /\ Goto("respond") /\ writing' = "status" /\ UNCHANGED stall
       \/ written /\ IsSSE /\ Goto("write") /\ writing' = "error" /\ stall' = ErrorTicks
       \/ written /\ ~IsSSE /\ Goto("leave") /\ UNCHANGED <<writing, stall>>
    /\ UNCHANGED <<reqCtx, attempt, outcome, body, upstream, mode, unread, written, client, broken,
                   out, ending, history>>

\* What the handler does without waiting for its client.
Passes == Relays \/ Copies \/ Feeds \/ RelayBreaks \/ RelayEnds \/ RelayFails
=============================================================================
