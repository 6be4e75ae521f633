----------------------------- MODULE Inference -----------------------------
(***************************************************************************)
(* /api/chat and /api/generate (internal/server/chat.go) from the upstream *)
(* call to the last byte written: decoding and assembling the response and *)
(* writing NDJSON records.                                                 *)
(*                                                                         *)
(* A "text" item is an event whose output is written at once, a "held" one *)
(* an event whose output waits for the end (a tool call's fragments, text  *)
(* that may be the beginning of a think tag).  "over" exceeds a limit.     *)
(***************************************************************************)
EXTENDS Downstream, FiniteSets

VARIABLES
    finish,         \* the decoder saw a finish_reason
    held            \* outputs the assembler keeps for the end

assembly == <<finish, held>>
decoder == <<unread, assembly>>

AssemblyTypeOK == finish \in BOOLEAN /\ held \in Nat
AssemblyInit == finish = FALSE /\ held = 0

Streams == mode # "json"

\* The status decides; a refusal's body is read whole, as a JSON answer is.
Posted ==
    /\ pc = "posted"
    /\ Goto(IF Refusal \/ mode = "json" THEN "slurp" ELSE "next")
    /\ UNCHANGED <<contexts, call, body, upstream, mode, decoder, downstream, accounting, history>>
----------------------------------------------------------------------------
\* decoder.Next needs more bytes: the scanner reads the body.
Reads ==
    /\ pc = "next" /\ buf = <<>> /\ readErr = "none" /\ ~Blocked
    /\ \E result \in ReadResults :
          /\ Takes(result[1], result[2])
          /\ buf' = SubSeq(wire, 1, result[1])
          /\ readErr' = result[2]
    /\ UNCHANGED <<pc, call, mode, finish, held, downstream, accounting, history>>

\* Bytes that complete no event.
SkipsBytes ==
    /\ pc = "next" /\ buf # <<>> /\ Head(buf) = "bytes"
    /\ buf' = Tail(buf)
    /\ UNCHANGED <<pc, contexts, call, body, upstream, mode, readErr, finish, held, downstream,
                   accounting, history>>

\* Where an event takes the handler: on, to a write, to the end or to an abort.
AfterEvent(item) ==
    CASE item = "text" /\ mode = "stream" -> "write"
      [] item = "done" -> "finishing"
      [] item \in {"bad", "error", "over"} -> "abort"
      [] OTHER -> "next"
EventError(item) ==
    CASE item = "bad" -> "malformed" [] item = "error" -> "remote" [] item = "over" -> "limit"
      [] OTHER -> err

\* The next complete event is dispatched, decoded and fed to the assembler.
TakesEvent ==
    /\ pc = "next" /\ buf # <<>> /\ Head(buf) \in Events
    /\ LET item == Head(buf)
           holds == item = "held" \/ (item = "text" /\ mode = "aggregate")
           writes == item = "text" /\ mode = "stream"
       IN  /\ Goto(AfterEvent(item))
           /\ err' = EventError(item)
           /\ finish' = (finish \/ item = "finish")
           /\ held' = IF holds THEN held + 1 ELSE held
           /\ writing' = IF writes THEN "text" ELSE writing
           /\ stall' = IF writes THEN StallTicks ELSE stall
           /\ written' = (written \/ writes)
    /\ buf' = Tail(buf)
    /\ EventReceived
    /\ waited' = 0
    /\ UNCHANGED <<contexts, attempt, outcome, open, taken, firing, timedOut, upstream, mode,
                   readErr, client, broken, out, ending, accounting, received, marks, quiet>>

\* Variant: the end of the body is taken for the end of the answer.
EndsAnyhow ==
    /\ pc = "next" /\ buf = <<>> /\ readErr = "eof"
    /\ Goto("finishing")
    /\ UNCHANGED <<contexts, call, body, upstream, mode, decoder, downstream, accounting, history>>

\* The body ended.  Only an answer that named its finish_reason is complete.
StreamEnds ==
    /\ pc = "next" /\ buf = <<>> /\ readErr = "eof"
    /\ Goto(IF finish THEN "finishing" ELSE "abort")
    /\ err' = IF finish THEN err ELSE "unexpected"
    /\ UNCHANGED <<contexts, attempt, outcome, body, upstream, mode, decoder, downstream,
                   accounting, history>>

StreamFails ==
    /\ pc = "next" /\ buf = <<>> /\ readErr \notin {"none", "eof"}
    /\ Goto("abort") /\ err' = readErr
    /\ UNCHANGED <<contexts, attempt, outcome, body, upstream, mode, decoder, downstream,
                   accounting, history>>

\* io.ReadAll of a JSON answer or of a refusal.
Slurps ==
    /\ pc = "slurp" /\ readErr = "none" /\ ~Blocked
    /\ \E result \in ReadResults :
          /\ Takes(result[1], result[2])
          /\ buf' = buf \o SubSeq(wire, 1, result[1])
          /\ readErr' = result[2]
    /\ UNCHANGED <<pc, call, mode, finish, held, downstream, accounting, history>>

\* DecodeAggregate wants one JSON answer; upstreamError takes anything.
Parses == buf # <<>> /\ \A i \in DOMAIN buf : IsOutput(buf[i]) \/ buf[i] = "finish"

Outputs(items) == Cardinality({i \in DOMAIN items : IsOutput(items[i])})

Slurped ==
    /\ pc = "slurp" /\ readErr # "none"
    /\ Goto(IF Refusal THEN "respond"
            ELSE IF readErr = "eof" /\ Parses THEN "finishing" ELSE "abort")
    /\ writing' = IF Refusal THEN "status" ELSE writing
    /\ err' = IF readErr # "eof" THEN readErr ELSE IF Parses THEN err ELSE "malformed"
    /\ held' = IF Refusal THEN held ELSE Outputs(buf)
    /\ UNCHANGED <<contexts, attempt, outcome, body, upstream, mode, buf, readErr, finish, stall,
                   written, client, broken, out, ending, accounting, history>>
----------------------------------------------------------------------------
\* assembly.Finish: what was held is written in streaming mode and stays for the
\* final record otherwise; then a tool call's arguments may not parse.
Finishes ==
    /\ pc = "finishing"
    /\ \/ /\ held > 0 /\ mode = "stream" /\ Goto("write")
          /\ writing' = "held" /\ stall' = StallTicks /\ written' = TRUE /\ UNCHANGED err
       \/ /\ held > 0 \/ writing = "held"
          /\ Goto("abort") /\ err' = "tools" /\ UNCHANGED <<writing, stall, written>>
       \/ /\ held = 0 \/ mode # "stream"
          /\ Goto("final") /\ UNCHANGED <<err, writing, stall, written>>
    /\ UNCHANGED <<contexts, attempt, outcome, body, upstream, mode, decoder, client, broken, out,
                   ending, accounting, history>>

\* The record that says done.
Final ==
    /\ pc = "final"
    /\ Goto(IF mode = "stream" THEN "write" ELSE "respond")
    /\ writing' = "done" /\ stall' = StallTicks /\ written' = (written \/ mode = "stream")
    /\ UNCHANGED <<contexts, call, body, upstream, mode, decoder, client, broken, out, ending,
                   accounting, history>>

\* emit: the record goes out before its write deadline.
Writes ==
    /\ pc = "write" /\ ~broken
    /\ out' = CASE writing = "text" -> out + 1 [] writing = "held" -> out + held [] OTHER -> out
    /\ held' = IF writing = "held" THEN 0 ELSE held
    /\ ending' = IF writing \in {"done", "error"} THEN writing ELSE ending
    /\ Goto(CASE writing = "text" -> "next" [] writing = "held" -> "finishing" [] OTHER -> "leave")
    /\ UNCHANGED <<contexts, call, body, upstream, mode, buf, readErr, finish, writing, stall,
                   written, client, broken, accounting, history>>

WriteFails ==
    /\ pc = "write" /\ Breaks
    /\ RecordAbort("write", TRUE, reqCtx')
    /\ IF writing \in {"text", "held"}
         THEN Goto("abort") /\ err' = "write" ELSE Goto("leave") /\ UNCHANGED err
    /\ UNCHANGED <<attempt, outcome, body, upstream, mode, decoder, writing, stall, written, client,
                   out, ending, history>>

\* The abort is recorded, the call cancelled, the client told if it can be.
Aborts ==
    /\ pc = "abort"
    /\ IF Streams THEN RecordAbort(err, FALSE, reqCtx) ELSE UNCHANGED accounting
    /\ callCtx' = Cancelled
    /\ Goto(IF written THEN "write" ELSE "respond")
    /\ writing' = IF written THEN "error" ELSE "status"
    /\ stall' = StallTicks
    /\ UNCHANGED <<reqCtx, call, body, upstream, mode, decoder, written, client, broken, out,
                   ending, history>>

\* writeJSON of the whole answer; nobody looks at its failure.
Delivers ==
    /\ pc = "respond" /\ writing = "done" /\ Goto("leave")
    /\ \/ ~broken /\ ending' = "done" /\ out' = out + held /\ UNCHANGED broken
       \/ broken' = TRUE /\ UNCHANGED <<ending, out>>
    /\ UNCHANGED <<contexts, call, body, upstream, mode, decoder, writing, stall, written, client,
                   accounting, history>>
----------------------------------------------------------------------------
\* What the handler does without waiting for its client.
Infers ==
    \/ Posted \/ Reads \/ SkipsBytes \/ TakesEvent \/ StreamEnds \/ StreamFails
    \/ Slurps \/ Slurped \/ Finishes \/ Final \/ WriteFails \/ Aborts \/ Delivers
=============================================================================
