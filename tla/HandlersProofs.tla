---------------------------- MODULE HandlersProofs ----------------------------
(***************************************************************************)
(* Proofs about a request that calls the upstream (module Handlers), for   *)
(* every number of retries, every timeout and every bound on what the      *)
(* upstream sends.                                                         *)
(***************************************************************************)
EXTENDS Handlers, FiniteSetTheorems, FunctionTheorems, SequenceTheorems, TLAPS

\* The handler's places before it has an answer, and all of them.
Calling == {"send", "await", "decide", "backoff", "failed"}
Labels == Calling \cup {"posted", "next", "slurp", "relay", "finishing", "final", "write",
                        "abort", "respond", "leave", "returned"}
ReadErrors == {"none", "idle", "deadline", "canceled", "eof", "reset", "limit"}

\* The type invariant, by the kind of value.
WordsOK ==
    /\ pc \in Labels /\ readErr \in ReadErrors
    /\ reqCtx \in {"live", "left", "shutdown"}
    /\ callCtx \in {"live", "canceled", "deadline"}
    /\ outcome \in Answers \cup Errors \cup {"none", "cancelled"}
    /\ wireEnd \in {"open", "eof", "reset"}
    /\ mode \in AllModes
    /\ writing \in {"none", "text", "held", "done", "error", "status"}
    /\ client \in {"present", "gone"}
    /\ ending \in {"none", "done", "error", "status"}
    /\ reason \in {"none", "shutdown", "client", "idle", "upstream"}
    /\ marks \subseteq {"finish", "done", "eof"}

FlagsOK ==
    /\ timer \in BOOLEAN /\ firing \in BOOLEAN /\ timedOut \in BOOLEAN
    /\ trickled \in BOOLEAN /\ written \in BOOLEAN /\ broken \in BOOLEAN
    /\ aborted \in BOOLEAN /\ quiet \in BOOLEAN /\ finish \in BOOLEAN

ItemsOK == buf \in Seq(Kinds) /\ wire \in Seq(Kinds) /\ Len(wire) <= MaxWire

CountsOK ==
    /\ out \in Nat /\ aborts \in Nat /\ received \in Nat /\ held \in Nat
    /\ attempt \in 0 .. Retries
    /\ pc = "backoff" => attempt < Retries
    /\ open \in 0 .. 1 /\ taken \in 0 .. BodyLimit /\ sent \in 0 .. MaxEvents

TimesOK ==
    /\ left \in Nat /\ left <= IF Unbounded THEN IdleTicks ELSE BodyTicks
    /\ pc \in Calling => left = 0
    /\ gap \in 0 .. IdleTicks /\ stall \in 0 .. StallTicks /\ waited \in 0 .. IdleTicks

\* A step of the call alone.
CallOnly == UNCHANGED <<own, history, assembly>>

TypeInv == WordsOK /\ FlagsOK /\ ItemsOK /\ CountsOK /\ TimesOK
----------------------------------------------------------------------------
USE DEF contexts, call, body, upstream, callVars, unread, downstream, accounting, history, own,
        requestVars, assembly, decoder, vars, CallOnly, Goto

\* A Read takes a prefix of the wire, and no more than the body may yield.
LEMMA ReadTypes ==
    ASSUME TypeInv, NEW result \in ReadResults
    PROVE  /\ result[1] \in 0 .. Len(wire)
           /\ result[2] \in ReadErrors
           /\ Unbounded \/ taken + result[1] \in 0 .. BodyLimit
<1> USE LimitsAssumption DEF TypeInv, WordsOK, CountsOK, ItemsOK
<1> DEFINE room == IF Unbounded THEN Len(wire) ELSE BodyLimit - taken
<1>1. CASE room = 0 /\ result = <<0, "limit">>
  BY <1>1 DEF ReadErrors
<1>2. ASSUME NEW n \in 0 .. Len(wire), n <= room,
             n = 0 => callCtx # "live" \/ (wire = <<>> /\ wireEnd # "open"),
             result = <<n, ReadError(RawError(n))>>
      PROVE  /\ result[1] \in 0 .. Len(wire)
             /\ result[2] \in ReadErrors
             /\ Unbounded \/ taken + result[1] \in 0 .. BodyLimit
  <2>1. ReadError(RawError(n)) \in ReadErrors
    BY <1>2 DEF ReadErrors, ReadError, RawError
  <2>2. QED BY <1>2, <2>1
<1>3. QED BY <1>1, <1>2 DEF ReadResults

\* Every step is one of these.
LEMMA StepCases ==
    ASSUME [Next]_vars
    PROVE
        \/ Send /\ CallOnly
        \/ Answered /\ CallOnly
        \/ RetriesLater /\ CallOnly
        \/ BackoffEnds /\ CallOnly
        \/ BackoffCancelled /\ CallOnly
        \/ CallFails /\ CallOnly
        \/ CallAnswers /\ CallOnly
        \/ Refused /\ UNCHANGED assembly
        \/ TellsStatus /\ UNCHANGED assembly
        \/ Leaves /\ UNCHANGED assembly
        \/ Posted /\ mode # "relay"
        \/ Reads /\ mode # "relay"
        \/ SkipsBytes /\ mode # "relay"
        \/ TakesEvent /\ mode # "relay"
        \/ StreamEnds /\ mode # "relay"
        \/ StreamFails /\ mode # "relay"
        \/ Slurps /\ mode # "relay"
        \/ Slurped /\ mode # "relay"
        \/ Finishes /\ mode # "relay"
        \/ Final /\ mode # "relay"
        \/ WriteFails /\ mode # "relay"
        \/ Aborts /\ mode # "relay"
        \/ Delivers /\ mode # "relay"
        \/ Writes /\ mode # "relay"
        \/ Relays /\ mode = "relay" /\ UNCHANGED assembly
        \/ Copies /\ mode = "relay" /\ UNCHANGED assembly
        \/ Feeds /\ mode = "relay" /\ UNCHANGED assembly
        \/ RelayBreaks /\ mode = "relay" /\ UNCHANGED assembly
        \/ RelayEnds /\ mode = "relay" /\ UNCHANGED assembly
        \/ RelayFails /\ mode = "relay" /\ UNCHANGED assembly
        \/ Relayed /\ mode = "relay" /\ UNCHANGED assembly
        \/ TimerRuns /\ UNCHANGED assembly
        \/ Tick /\ UNCHANGED assembly
        \/ TotalDeadline /\ UNCHANGED assembly
        \/ ClientGoes /\ UNCHANGED assembly
        \/ Disconnected /\ UNCHANGED assembly
        \/ ShutDown /\ UNCHANGED assembly
        \/ \E item \in Kinds : Sends(item) /\ UNCHANGED assembly
        \/ \E how \in {"eof", "reset"} : Ends(how) /\ UNCHANGED assembly
        \/ UNCHANGED vars
<1> USE DEF CallOnly, Relaying
<1>1. CASE Handler
  BY <1>1 DEF Handler, Around, Calls, Post, Infers, Passes, own, history, assembly
<1>2. CASE Takers \/ Runs \/ TimePasses
  BY <1>2 DEF Takers, Runs, TimePasses
<1>3. CASE Environment /\ UNCHANGED assembly
  BY <1>3 DEF Environment
<1>4. CASE Returned \/ UNCHANGED vars
  BY <1>4 DEF Returned
<1>5. QED BY <1>1, <1>2, <1>3, <1>4 DEF Next

\* Flags stay flags.
LEMMA FlagsStep == ASSUME FlagsOK, [Next]_vars PROVE FlagsOK'
<1> USE DEF FlagsOK
<1>1. CASE Send /\ CallOnly BY <1>1 DEF Send
<1>2. CASE Answered /\ CallOnly BY <1>2 DEF Answered
<1>3. CASE RetriesLater /\ CallOnly BY <1>3 DEF RetriesLater
<1>4. CASE BackoffEnds /\ CallOnly BY <1>4 DEF BackoffEnds
<1>5. CASE BackoffCancelled /\ CallOnly BY <1>5 DEF BackoffCancelled
<1>6. CASE CallFails /\ CallOnly BY <1>6 DEF CallFails
<1>7. CASE CallAnswers /\ CallOnly BY <1>7 DEF CallAnswers
<1>8. CASE Refused /\ UNCHANGED assembly BY <1>8 DEF Refused
<1>9. CASE TellsStatus /\ UNCHANGED assembly BY <1>9 DEF TellsStatus
<1>10. CASE Leaves /\ UNCHANGED assembly BY <1>10 DEF Leaves, Closed
<1>11. CASE Posted /\ mode # "relay" BY <1>11 DEF Posted
<1>12. CASE Reads /\ mode # "relay" BY <1>12 DEF Reads, Takes, Closed
<1>13. CASE SkipsBytes /\ mode # "relay" BY <1>13 DEF SkipsBytes
<1>14. CASE TakesEvent /\ mode # "relay" BY <1>14 DEF TakesEvent, EventReceived
<1>15. CASE StreamEnds /\ mode # "relay" BY <1>15 DEF StreamEnds
<1>16. CASE StreamFails /\ mode # "relay" BY <1>16 DEF StreamFails
<1>17. CASE Slurps /\ mode # "relay" BY <1>17 DEF Slurps, Takes, Closed
<1>18. CASE Slurped /\ mode # "relay" BY <1>18 DEF Slurped
<1>19. CASE Finishes /\ mode # "relay" BY <1>19 DEF Finishes
<1>20. CASE Final /\ mode # "relay" BY <1>20 DEF Final
<1>21. CASE WriteFails /\ mode # "relay" BY <1>21 DEF WriteFails, Breaks, RecordAbort
<1>22. CASE Aborts /\ mode # "relay" BY <1>22 DEF Aborts, RecordAbort
<1>23. CASE Delivers /\ mode # "relay" BY <1>23 DEF Delivers
<1>24. CASE Writes /\ mode # "relay" BY <1>24 DEF Writes
<1>25. CASE Relays /\ mode = "relay" /\ UNCHANGED assembly BY <1>25 DEF Relays
<1>26. CASE Copies /\ mode = "relay" /\ UNCHANGED assembly BY <1>26 DEF Copies, Takes, Closed
<1>27. CASE Feeds /\ mode = "relay" /\ UNCHANGED assembly BY <1>27 DEF Feeds, EventReceived
<1>28. CASE RelayBreaks /\ mode = "relay" /\ UNCHANGED assembly
  BY <1>28 DEF RelayBreaks, Breaks, RecordAbort
<1>29. CASE RelayEnds /\ mode = "relay" /\ UNCHANGED assembly BY <1>29 DEF RelayEnds
<1>30. CASE RelayFails /\ mode = "relay" /\ UNCHANGED assembly BY <1>30 DEF RelayFails, RecordAbort
<1>31. CASE Relayed /\ mode = "relay" /\ UNCHANGED assembly BY <1>31 DEF Relayed
<1>32. CASE TimerRuns /\ UNCHANGED assembly BY <1>32 DEF TimerRuns, Timer, Silent
<1>33. CASE Tick /\ UNCHANGED assembly BY <1>33 DEF Tick
<1>34. CASE TotalDeadline /\ UNCHANGED assembly BY <1>34 DEF TotalDeadline, DeadlinePasses
<1>35. CASE ClientGoes /\ UNCHANGED assembly BY <1>35 DEF ClientGoes
<1>36. CASE Disconnected /\ UNCHANGED assembly BY <1>36 DEF Disconnected, RequestCancelled
<1>37. CASE ShutDown /\ UNCHANGED assembly BY <1>37 DEF ShutDown, RequestCancelled
<1>38. ASSUME NEW item \in Kinds, Sends(item), UNCHANGED assembly
     PROVE  FlagsOK'
  BY <1>38 DEF Sends, UpstreamSends
<1>39. ASSUME NEW how \in {"eof", "reset"}, Ends(how), UNCHANGED assembly
     PROVE  FlagsOK'
  BY <1>39 DEF Ends, UpstreamEnds
<1>40. CASE UNCHANGED vars BY <1>40
<1>41. QED
  BY StepCases, <1>1, <1>2, <1>3, <1>4, <1>5, <1>6, <1>7, <1>8, <1>9, <1>10, <1>11, <1>12, <1>13,
     <1>14, <1>15, <1>16, <1>17, <1>18, <1>19, <1>20, <1>21, <1>22, <1>23, <1>24, <1>25, <1>26,
     <1>27, <1>28, <1>29, <1>30, <1>31, <1>32, <1>33, <1>34, <1>35, <1>36, <1>37, <1>38, <1>39,
     <1>40

\* Words stay in their vocabularies.
LEMMA WordsStep == ASSUME TypeInv, [Next]_vars PROVE WordsOK'
<1> USE DEF TypeInv, WordsOK, Labels, Calling, Cancelled
<1>1. CASE Send /\ CallOnly BY <1>1 DEF Send
<1>2. CASE Answered /\ CallOnly 
  <2>1. outcome' \in Answers \cup Errors \cup {"none", "cancelled"}
    BY <1>2, ChoicesAssumption DEF Answered
  <2>2. QED BY <1>2, <2>1 DEF Answered
<1>3. CASE RetriesLater /\ CallOnly BY <1>3 DEF RetriesLater
<1>4. CASE BackoffEnds /\ CallOnly BY <1>4 DEF BackoffEnds
<1>5. CASE BackoffCancelled /\ CallOnly BY <1>5 DEF BackoffCancelled
<1>6. CASE CallFails /\ CallOnly BY <1>6 DEF CallFails
<1>7. CASE CallAnswers /\ CallOnly BY <1>7 DEF CallAnswers
<1>8. CASE Refused /\ UNCHANGED assembly BY <1>8 DEF Refused
<1>9. CASE TellsStatus /\ UNCHANGED assembly BY <1>9 DEF TellsStatus
<1>10. CASE Leaves /\ UNCHANGED assembly BY <1>10 DEF Leaves, Closed
<1>11. CASE Posted /\ mode # "relay" BY <1>11 DEF Posted, Refusal
<1>12. CASE Reads /\ mode # "relay"
  <2>1. PICK result \in ReadResults : Takes(result[1], result[2]) /\ readErr' = result[2]
    BY <1>12 DEF Reads
  <2>2. readErr' \in ReadErrors BY <2>1, ReadTypes DEF TypeInv, WordsOK
  <2>3. QED BY <1>12, <2>1, <2>2 DEF Reads, Takes, Closed
<1>13. CASE SkipsBytes /\ mode # "relay" BY <1>13 DEF SkipsBytes
<1>14. CASE TakesEvent /\ mode # "relay" BY <1>14 DEF TakesEvent, EventReceived, AfterEvent
<1>15. CASE StreamEnds /\ mode # "relay" BY <1>15 DEF StreamEnds
<1>16. CASE StreamFails /\ mode # "relay" BY <1>16 DEF StreamFails
<1>17. CASE Slurps /\ mode # "relay"
  <2>1. PICK result \in ReadResults : Takes(result[1], result[2]) /\ readErr' = result[2]
    BY <1>17 DEF Slurps
  <2>2. readErr' \in ReadErrors BY <2>1, ReadTypes DEF TypeInv, WordsOK
  <2>3. QED BY <1>17, <2>1, <2>2 DEF Slurps, Takes, Closed
<1>18. CASE Slurped /\ mode # "relay" BY <1>18 DEF Slurped
<1>19. CASE Finishes /\ mode # "relay" BY <1>19 DEF Finishes
<1>20. CASE Final /\ mode # "relay" BY <1>20 DEF Final
<1>21. CASE WriteFails /\ mode # "relay" BY <1>21 DEF WriteFails, Breaks, RecordAbort, AbortReason
<1>22. CASE Aborts /\ mode # "relay" BY <1>22 DEF Aborts, RecordAbort, AbortReason
<1>23. CASE Delivers /\ mode # "relay" BY <1>23 DEF Delivers
<1>24. CASE Writes /\ mode # "relay" BY <1>24 DEF Writes
<1>25. CASE Relays /\ mode = "relay" /\ UNCHANGED assembly BY <1>25 DEF Relays
<1>26. CASE Copies /\ mode = "relay" /\ UNCHANGED assembly
  <2>1. PICK result \in ReadResults : Takes(result[1], result[2]) /\ readErr' = result[2]
    BY <1>26 DEF Copies
  <2>2. readErr' \in ReadErrors BY <2>1, ReadTypes DEF TypeInv, WordsOK
  <2>3. QED BY <1>26, <2>1, <2>2 DEF Copies, Takes, Closed
<1>27. CASE Feeds /\ mode = "relay" /\ UNCHANGED assembly BY <1>27 DEF Feeds, EventReceived
<1>28. CASE RelayBreaks /\ mode = "relay" /\ UNCHANGED assembly
  BY <1>28 DEF RelayBreaks, Breaks, RecordAbort, AbortReason
<1>29. CASE RelayEnds /\ mode = "relay" /\ UNCHANGED assembly BY <1>29 DEF RelayEnds
<1>30. CASE RelayFails /\ mode = "relay" /\ UNCHANGED assembly
  BY <1>30 DEF RelayFails, RecordAbort, AbortReason
<1>31. CASE Relayed /\ mode = "relay" /\ UNCHANGED assembly BY <1>31 DEF Relayed
<1>32. CASE TimerRuns /\ UNCHANGED assembly BY <1>32 DEF TimerRuns, Timer
<1>33. CASE Tick /\ UNCHANGED assembly BY <1>33 DEF Tick
<1>34. CASE TotalDeadline /\ UNCHANGED assembly BY <1>34 DEF TotalDeadline, DeadlinePasses
<1>35. CASE ClientGoes /\ UNCHANGED assembly BY <1>35 DEF ClientGoes
<1>36. CASE Disconnected /\ UNCHANGED assembly BY <1>36 DEF Disconnected, RequestCancelled
<1>37. CASE ShutDown /\ UNCHANGED assembly BY <1>37 DEF ShutDown, RequestCancelled
<1>38. ASSUME NEW item \in Kinds, Sends(item), UNCHANGED assembly
     PROVE  WordsOK'
  BY <1>38 DEF Sends, UpstreamSends
<1>39. ASSUME NEW how \in {"eof", "reset"}, Ends(how), UNCHANGED assembly
     PROVE  WordsOK'
  BY <1>39 DEF Ends, UpstreamEnds
<1>40. CASE UNCHANGED vars BY <1>40
<1>41. QED
  BY StepCases, <1>1, <1>2, <1>3, <1>4, <1>5, <1>6, <1>7, <1>8, <1>9, <1>10, <1>11, <1>12, <1>13,
     <1>14, <1>15, <1>16, <1>17, <1>18, <1>19, <1>20, <1>21, <1>22, <1>23, <1>24, <1>25, <1>26,
     <1>27, <1>28, <1>29, <1>30, <1>31, <1>32, <1>33, <1>34, <1>35, <1>36, <1>37, <1>38, <1>39,
     <1>40

\* Who touches what was sent: the upstream appends to the wire, reads move it to
\* the handler, and the handler takes it item by item, or the lot.
LEMMA ItemsFrame ==
    ASSUME [Next]_vars
    PROVE  \/ UNCHANGED <<buf, wire>>
           \/ Reads \/ Copies \/ Slurps
           \/ (SkipsBytes \/ TakesEvent) /\ wire' = wire
           \/ Relayed /\ wire' = wire
           \/ \E item \in Kinds : Sends(item)
<1>1. CASE Around
  BY <1>1 DEF Around, Calls, Post, Send, Answered, RetriesLater, BackoffEnds, BackoffCancelled,
              CallFails, CallAnswers, Refused, TellsStatus, Leaves
<1>2. CASE Infers
  <2>1. CASE Posted \/ StreamEnds \/ StreamFails \/ Slurped
    BY <2>1 DEF Posted, StreamEnds, StreamFails, Slurped
  <2>2. CASE Finishes \/ Final \/ WriteFails \/ Aborts \/ Delivers
    BY <2>2 DEF Finishes, Final, WriteFails, Aborts, Delivers
  <2>3. CASE SkipsBytes \/ TakesEvent
    BY <2>3 DEF SkipsBytes, TakesEvent
  <2>4. QED BY <1>2, <2>1, <2>2, <2>3 DEF Infers
<1>3. CASE Passes
  BY <1>3 DEF Passes, Relays, Feeds, RelayBreaks, RelayEnds, RelayFails
<1>4. CASE Takers
  BY <1>4 DEF Takers, Writes, Relayed
<1>5. CASE Runs \/ TimePasses \/ UNCHANGED vars
  BY <1>5 DEF Runs, TimerRuns, Timer, TimePasses, Tick
<1>6. CASE Environment
  BY <1>6 DEF Environment, Ends, UpstreamEnds, TotalDeadline, DeadlinePasses, ClientGoes,
              Disconnected, ShutDown, RequestCancelled
<1>7. QED BY <1>1, <1>2, <1>3, <1>4, <1>5, <1>6 DEF Next, Handler, Returned

\* Items are moved, never made up.
LEMMA ItemsStep == ASSUME TypeInv, [Next]_vars PROVE ItemsOK'
<1> USE DEF TypeInv, ItemsOK
<1>1. CASE UNCHANGED <<buf, wire>>
  BY <1>1
<1>2. CASE Reads \/ Copies \/ Slurps
  <2>1. PICK result \in ReadResults :
           /\ Takes(result[1], result[2])
           /\ buf' \in {SubSeq(wire, 1, result[1]), buf \o SubSeq(wire, 1, result[1])}
    BY <1>2 DEF Reads, Copies, Slurps
  <2>2. result[1] \in 0 .. Len(wire) BY <2>1, ReadTypes
  <2>3. SubSeq(wire, 1, result[1]) \in Seq(Kinds)
    BY <2>2, SubSeqProperties
  <2>4. buf \o SubSeq(wire, 1, result[1]) \in Seq(Kinds)
    BY <2>3, ConcatProperties
  <2>5. /\ SubSeq(wire, result[1] + 1, Len(wire)) \in Seq(Kinds)
        /\ Len(SubSeq(wire, result[1] + 1, Len(wire))) <= MaxWire
    BY <2>2, SubSeqProperties, LimitsAssumption
  <2>6. QED BY <2>1, <2>3, <2>4, <2>5 DEF Takes
<1>3. CASE (SkipsBytes \/ TakesEvent) /\ wire' = wire
  <2>1. buf # <<>> /\ buf' = Tail(buf) BY <1>3 DEF SkipsBytes, TakesEvent
  <2>2. QED BY <1>3, <2>1, HeadTailProperties
<1>4. CASE Relayed /\ wire' = wire
  BY <1>4 DEF Relayed
<1>5. ASSUME NEW item \in Kinds, Sends(item) PROVE ItemsOK'
  <2>1. wire' = Append(wire, item) /\ Len(wire) < MaxWire /\ buf' = buf
    BY <1>5 DEF Sends, UpstreamSends
  <2>2. QED BY <2>1, AppendProperties, LimitsAssumption
<1>6. QED BY ItemsFrame, <1>1, <1>2, <1>3, <1>4, <1>5

\* A set of places of a sequence can be counted.
LEMMA PlacesFinite ==
    ASSUME NEW s \in Seq(Kinds), NEW T \in SUBSET DOMAIN s
    PROVE  IsFiniteSet(T) /\ Cardinality(T) \in Nat
<1>1. IsFiniteSet(1 .. Len(s)) BY FS_Interval
<1>2. IsFiniteSet(T) BY <1>1, FS_Subset
<1>3. QED BY <1>2, FS_CardinalityType

\* Counters stay within what bounds them.
LEMMA CountsStep == ASSUME TypeInv, [Next]_vars PROVE CountsOK'
<1> USE LimitsAssumption DEF TypeInv, WordsOK, CountsOK, ItemsOK, Calling
<1>1. CASE Send /\ CallOnly BY <1>1 DEF Send
<1>2. CASE Answered /\ CallOnly BY <1>2 DEF Answered
<1>3. CASE RetriesLater /\ CallOnly BY <1>3 DEF RetriesLater, MayRetry
<1>4. CASE BackoffEnds /\ CallOnly BY <1>4 DEF BackoffEnds
<1>5. CASE BackoffCancelled /\ CallOnly BY <1>5 DEF BackoffCancelled
<1>6. CASE CallFails /\ CallOnly BY <1>6 DEF CallFails
<1>7. CASE CallAnswers /\ CallOnly BY <1>7 DEF CallAnswers
<1>8. CASE Refused /\ UNCHANGED assembly BY <1>8 DEF Refused
<1>9. CASE TellsStatus /\ UNCHANGED assembly BY <1>9 DEF TellsStatus
<1>10. CASE Leaves /\ UNCHANGED assembly BY <1>10 DEF Leaves, Closed
<1>11. CASE Posted /\ mode # "relay" BY <1>11 DEF Posted, Unbounded
<1>12. CASE Reads /\ mode # "relay"
  <2>1. PICK result \in ReadResults : Takes(result[1], result[2])
    BY <1>12 DEF Reads
  <2>2. taken' \in 0 .. BodyLimit
    BY <2>1, ReadTypes DEF Takes
  <2>3. open' \in 0 .. 1
    BY <2>1 DEF Takes, Closed
  <2>4. QED BY <1>12, <2>1, <2>2, <2>3 DEF Reads, Takes
<1>13. CASE SkipsBytes /\ mode # "relay" BY <1>13 DEF SkipsBytes
<1>14. CASE TakesEvent /\ mode # "relay"
  <2>1. held' \in {held, held + 1}
    BY <1>14 DEF TakesEvent
  <2>2. held' \in Nat
    BY <2>1
  <2>3. UNCHANGED <<out, aborts, received, attempt, open, taken, sent>> /\ pc' # "backoff"
    BY <1>14 DEF TakesEvent, AfterEvent
  <2>4. QED BY <2>2, <2>3
<1>15. CASE StreamEnds /\ mode # "relay" BY <1>15 DEF StreamEnds
<1>16. CASE StreamFails /\ mode # "relay" BY <1>16 DEF StreamFails
<1>17. CASE Slurps /\ mode # "relay"
  <2>1. PICK result \in ReadResults : Takes(result[1], result[2])
    BY <1>17 DEF Slurps
  <2>2. taken' \in 0 .. BodyLimit
    BY <2>1, ReadTypes DEF Takes
  <2>3. open' \in 0 .. 1
    BY <2>1 DEF Takes, Closed
  <2>4. QED BY <1>17, <2>1, <2>2, <2>3 DEF Slurps, Takes
<1>18. CASE Slurped /\ mode # "relay"
  <2>1. Outputs(buf) \in Nat
    BY PlacesFinite DEF Outputs, ItemsOK
  <2>2. held' \in Nat
    BY <1>18, <2>1 DEF Slurped
  <2>3. UNCHANGED <<out, aborts, received, attempt, open, taken, sent>> /\ pc' # "backoff"
    BY <1>18 DEF Slurped
  <2>4. QED BY <2>2, <2>3
<1>19. CASE Finishes /\ mode # "relay" BY <1>19 DEF Finishes
<1>20. CASE Final /\ mode # "relay" BY <1>20 DEF Final
<1>21. CASE WriteFails /\ mode # "relay"
  <2>1. aborts' \in {aborts, aborts + 1}
    BY <1>21 DEF WriteFails, Breaks, RecordAbort
  <2>2. aborts' \in Nat
    BY <2>1
  <2>3. UNCHANGED <<out, received, held, attempt, open, taken, sent>> /\ pc' # "backoff"
    BY <1>21 DEF WriteFails, Breaks, RecordAbort
  <2>4. QED BY <2>2, <2>3
<1>22. CASE Aborts /\ mode # "relay"
  <2>1. aborts' \in {aborts, aborts + 1}
    BY <1>22 DEF Aborts, RecordAbort
  <2>2. aborts' \in Nat
    BY <2>1
  <2>3. UNCHANGED <<out, received, held, attempt, open, taken, sent>> /\ pc' # "backoff"
    BY <1>22 DEF Aborts, RecordAbort
  <2>4. QED BY <2>2, <2>3
<1>23. CASE Delivers /\ mode # "relay" BY <1>23 DEF Delivers
<1>24. CASE Writes /\ mode # "relay" BY <1>24 DEF Writes
<1>25. CASE Relays /\ mode = "relay" /\ UNCHANGED assembly BY <1>25 DEF Relays
<1>26. CASE Copies /\ mode = "relay" /\ UNCHANGED assembly
  <2>1. PICK result \in ReadResults : Takes(result[1], result[2])
    BY <1>26 DEF Copies
  <2>2. taken' \in 0 .. BodyLimit
    BY <2>1, ReadTypes DEF Takes
  <2>3. open' \in 0 .. 1
    BY <2>1 DEF Takes, Closed
  <2>4. QED BY <1>26, <2>1, <2>2, <2>3 DEF Copies, Takes
<1>27. CASE Feeds /\ mode = "relay" /\ UNCHANGED assembly BY <1>27 DEF Feeds, EventReceived
<1>28. CASE RelayBreaks /\ mode = "relay" /\ UNCHANGED assembly
  <2>1. aborts' \in {aborts, aborts + 1}
    BY <1>28 DEF RelayBreaks, Breaks, RecordAbort
  <2>2. aborts' \in Nat
    BY <2>1
  <2>3. UNCHANGED <<out, received, held, attempt, open, taken, sent>> /\ pc' # "backoff"
    BY <1>28 DEF RelayBreaks, Breaks, RecordAbort
  <2>4. QED BY <2>2, <2>3
<1>29. CASE RelayEnds /\ mode = "relay" /\ UNCHANGED assembly BY <1>29 DEF RelayEnds
<1>30. CASE RelayFails /\ mode = "relay" /\ UNCHANGED assembly
  <2>1. aborts' \in {aborts, aborts + 1}
    BY <1>30 DEF RelayFails, RecordAbort
  <2>2. aborts' \in Nat
    BY <2>1
  <2>3. UNCHANGED <<out, received, held, attempt, open, taken, sent>> /\ pc' # "backoff"
    BY <1>30 DEF RelayFails, RecordAbort
  <2>4. QED BY <2>2, <2>3
<1>31. CASE Relayed /\ mode = "relay" /\ UNCHANGED assembly BY <1>31 DEF Relayed
<1>32. CASE TimerRuns /\ UNCHANGED assembly BY <1>32 DEF TimerRuns, Timer
<1>33. CASE Tick /\ UNCHANGED assembly BY <1>33 DEF Tick
<1>34. CASE TotalDeadline /\ UNCHANGED assembly BY <1>34 DEF TotalDeadline, DeadlinePasses
<1>35. CASE ClientGoes /\ UNCHANGED assembly BY <1>35 DEF ClientGoes
<1>36. CASE Disconnected /\ UNCHANGED assembly BY <1>36 DEF Disconnected, RequestCancelled
<1>37. CASE ShutDown /\ UNCHANGED assembly BY <1>37 DEF ShutDown, RequestCancelled
<1>38. ASSUME NEW item \in Kinds, Sends(item), UNCHANGED assembly
     PROVE  CountsOK'
  BY <1>38 DEF Sends, UpstreamSends
<1>39. ASSUME NEW how \in {"eof", "reset"}, Ends(how), UNCHANGED assembly
     PROVE  CountsOK'
  BY <1>39 DEF Ends, UpstreamEnds
<1>40. CASE UNCHANGED vars BY <1>40
<1>41. QED
  BY StepCases, <1>1, <1>2, <1>3, <1>4, <1>5, <1>6, <1>7, <1>8, <1>9, <1>10, <1>11, <1>12, <1>13,
     <1>14, <1>15, <1>16, <1>17, <1>18, <1>19, <1>20, <1>21, <1>22, <1>23, <1>24, <1>25, <1>26,
     <1>27, <1>28, <1>29, <1>30, <1>31, <1>32, <1>33, <1>34, <1>35, <1>36, <1>37, <1>38, <1>39,
     <1>40

\* The clocks never run past what they were set to.
LEMMA TimesStep == ASSUME TypeInv, [Next]_vars PROVE TimesOK'
<1> USE TimesAssumption, ModesAssumption DEF TypeInv, WordsOK, TimesOK, Unbounded, Calling
<1>1. CASE Send /\ CallOnly BY <1>1 DEF Send
<1>2. CASE Answered /\ CallOnly BY <1>2 DEF Answered
<1>3. CASE RetriesLater /\ CallOnly BY <1>3 DEF RetriesLater
<1>4. CASE BackoffEnds /\ CallOnly BY <1>4 DEF BackoffEnds
<1>5. CASE BackoffCancelled /\ CallOnly BY <1>5 DEF BackoffCancelled
<1>6. CASE CallFails /\ CallOnly BY <1>6 DEF CallFails
<1>7. CASE CallAnswers /\ CallOnly BY <1>7 DEF CallAnswers
<1>8. CASE Refused /\ UNCHANGED assembly BY <1>8 DEF Refused
<1>9. CASE TellsStatus /\ UNCHANGED assembly BY <1>9 DEF TellsStatus
<1>10. CASE Leaves /\ UNCHANGED assembly BY <1>10 DEF Leaves, Closed
<1>11. CASE Posted /\ mode # "relay" BY <1>11 DEF Posted
<1>12. CASE Reads /\ mode # "relay" BY <1>12 DEF Reads, Takes, Closed
<1>13. CASE SkipsBytes /\ mode # "relay" BY <1>13 DEF SkipsBytes
<1>14. CASE TakesEvent /\ mode # "relay" BY <1>14 DEF TakesEvent, EventReceived, AfterEvent
<1>15. CASE StreamEnds /\ mode # "relay" BY <1>15 DEF StreamEnds
<1>16. CASE StreamFails /\ mode # "relay" BY <1>16 DEF StreamFails
<1>17. CASE Slurps /\ mode # "relay" BY <1>17 DEF Slurps, Takes, Closed
<1>18. CASE Slurped /\ mode # "relay" BY <1>18 DEF Slurped
<1>19. CASE Finishes /\ mode # "relay" BY <1>19 DEF Finishes
<1>20. CASE Final /\ mode # "relay" BY <1>20 DEF Final
<1>21. CASE WriteFails /\ mode # "relay" BY <1>21 DEF WriteFails, Breaks, RecordAbort
<1>22. CASE Aborts /\ mode # "relay" BY <1>22 DEF Aborts, RecordAbort
<1>23. CASE Delivers /\ mode # "relay" BY <1>23 DEF Delivers
<1>24. CASE Writes /\ mode # "relay" BY <1>24 DEF Writes
<1>25. CASE Relays /\ mode = "relay" /\ UNCHANGED assembly BY <1>25 DEF Relays
<1>26. CASE Copies /\ mode = "relay" /\ UNCHANGED assembly BY <1>26 DEF Copies, Takes, Closed
<1>27. CASE Feeds /\ mode = "relay" /\ UNCHANGED assembly BY <1>27 DEF Feeds, EventReceived
<1>28. CASE RelayBreaks /\ mode = "relay" /\ UNCHANGED assembly
  BY <1>28 DEF RelayBreaks, Breaks, RecordAbort
<1>29. CASE RelayEnds /\ mode = "relay" /\ UNCHANGED assembly BY <1>29 DEF RelayEnds
<1>30. CASE RelayFails /\ mode = "relay" /\ UNCHANGED assembly
  BY <1>30 DEF RelayFails, RecordAbort, ErrorTicks
<1>31. CASE Relayed /\ mode = "relay" /\ UNCHANGED assembly BY <1>31 DEF Relayed
<1>32. CASE TimerRuns /\ UNCHANGED assembly BY <1>32 DEF TimerRuns, Timer
<1>33. CASE Tick /\ UNCHANGED assembly BY <1>33 DEF Tick, Due
<1>34. CASE TotalDeadline /\ UNCHANGED assembly BY <1>34 DEF TotalDeadline, DeadlinePasses
<1>35. CASE ClientGoes /\ UNCHANGED assembly BY <1>35 DEF ClientGoes
<1>36. CASE Disconnected /\ UNCHANGED assembly BY <1>36 DEF Disconnected, RequestCancelled
<1>37. CASE ShutDown /\ UNCHANGED assembly BY <1>37 DEF ShutDown, RequestCancelled
<1>38. ASSUME NEW item \in Kinds, Sends(item), UNCHANGED assembly
     PROVE  TimesOK'
  BY <1>38 DEF Sends, UpstreamSends
<1>39. ASSUME NEW how \in {"eof", "reset"}, Ends(how), UNCHANGED assembly
     PROVE  TimesOK'
  BY <1>39 DEF Ends, UpstreamEnds
<1>40. CASE UNCHANGED vars BY <1>40
<1>41. QED
  BY StepCases, <1>1, <1>2, <1>3, <1>4, <1>5, <1>6, <1>7, <1>8, <1>9, <1>10, <1>11, <1>12, <1>13,
     <1>14, <1>15, <1>16, <1>17, <1>18, <1>19, <1>20, <1>21, <1>22, <1>23, <1>24, <1>25, <1>26,
     <1>27, <1>28, <1>29, <1>30, <1>31, <1>32, <1>33, <1>34, <1>35, <1>36, <1>37, <1>38, <1>39,
     <1>40

\* The types hold at first, are kept by every step, and so hold always.
LEMMA TypesHold == Init => TypeInv
<1> SUFFICES ASSUME Init PROVE TypeInv
  OBVIOUS
<1> USE TimesAssumption, LimitsAssumption, ModesAssumption DEF Init, RequestInit, CallInit, AssemblyInit
<1>1. WordsOK BY DEF WordsOK, Labels, Calling, ReadErrors
<1>2. FlagsOK BY DEF FlagsOK
<1>3. ItemsOK BY DEF ItemsOK
<1>4. CountsOK BY DEF CountsOK
<1>5. TimesOK BY DEF TimesOK
<1>6. QED BY <1>1, <1>2, <1>3, <1>4, <1>5 DEF TypeInv

LEMMA TypesStep == ASSUME TypeInv, [Next]_vars PROVE TypeInv'
BY FlagsStep, WordsStep, ItemsStep, CountsStep, TimesStep DEF TypeInv

LEMMA Types == Spec => []TypeInv
BY TypesHold, TypesStep, PTL DEF Spec

\* Every variable keeps its type, whatever the numbers of the configuration: in
\* particular no attempt beyond the retries is made, no body yields more than its
\* limit, and no timer or write deadline is longer than it was set.
THEOREM TypeCorrect == Spec => []TypeOK
<1>1. ASSUME TypeInv PROVE CallTypeOK
  BY <1>1 DEF TypeInv, WordsOK, FlagsOK, ItemsOK, CountsOK, TimesOK, CallTypeOK
<1>2. ASSUME TypeInv PROVE RequestTypeOK
  BY <1>1, <1>2 DEF TypeInv, WordsOK, FlagsOK, ItemsOK, CountsOK, TimesOK, RequestTypeOK
<1>3. TypeInv => TypeOK
  BY <1>1, <1>2 DEF TypeOK, AssemblyTypeOK, TypeInv, FlagsOK, CountsOK
<1>4. QED BY Types, <1>3, PTL
----------------------------------------------------------------------------
\* The answer is one a chat handler decodes, as a stream or whole.
Decoded == outcome \in {"sse", "json"}

\* Nothing has been read, assembled or written.
Blank ==
    /\ buf = <<>> /\ readErr = "none" /\ ~finish /\ held = 0
    /\ writing = "none" /\ ~written /\ out = 0 /\ ending = "none"

\* No timer was ever armed.
Unarmed == ~timer /\ left = 0 /\ ~firing /\ ~timedOut

\* What holds at each place of the handlers.
PlaceInv ==
    /\ pc \in Calling \cup {"posted"} => Blank
    /\ pc \in Calling => Unarmed
    /\ pc = "failed" => callCtx # "live"
    /\ pc \in {"send", "backoff", "failed"} => ~Decoded
    /\ pc \in {"posted", "relay"} => outcome \in Answers
    /\ pc = "relay" => mode = "relay"
    /\ pc = "next" => mode \in {"stream", "aggregate"} /\ Decoded /\ writing \in {"none", "text"}
    /\ pc = "slurp" =>
         /\ (Refusal /\ mode # "relay") \/ (mode = "json" /\ Decoded)
         /\ held = 0 /\ out = 0 /\ ~written /\ writing = "none"
    /\ pc \in {"finishing", "final", "abort"} => mode # "relay" /\ Decoded
    /\ pc = "write" =>
         written /\ ((mode = "stream" /\ Decoded) \/ (mode = "relay" /\ outcome \in Answers))
    /\ written => mode \in {"stream", "relay"}

\* Where the answer is still neither cut short nor delivered.
Undecided == Calling \cup {"posted", "next", "slurp", "relay", "finishing", "final"}

\* How an answer is cut short: counted once, before the last thing is written, and
\* before the handler leaves a client that was not told.
VerdictInv ==
    /\ aborts = (IF aborted THEN 1 ELSE 0)
    /\ aborted <=> reason # "none"
    /\ pc \in Undecided => ~aborted
    /\ pc = "write" =>
         \/ writing = "text" /\ ~aborted
         \/ writing \in {"held", "done"} /\ mode = "stream" /\ ~aborted
         \/ writing = "error" /\ aborted /\ (mode = "relay" => buf = <<>> /\ IsSSE)
    /\ pc = "respond" =>
         \/ writing = "status" /\ (Obliged => aborted)
         \/ writing = "done" /\ mode \in {"aggregate", "json"} /\ ~aborted
    /\ ending # "none" => pc \in {"leave", "returned"}
    /\ ending = "done" => ~aborted
    /\ pc = "leave" /\ ending # "done" =>
         (Obliged => aborted) /\ (ending = "none" => ~Reachable)

\* Who holds the connection.
HoldInv ==
    /\ pc \in {"send", "await", "backoff", "failed", "returned"} => open = 0
    /\ pc = "decide" => (open = 1 <=> outcome \in Answers)
    /\ callCtx = "live" /\ pc \notin Calling => open = 1
    /\ timer => open = 1

ControlInv == PlaceInv /\ VerdictInv /\ HoldInv

LEMMA ControlHolds == Init => ControlInv
BY DEF Init, RequestInit, CallInit, AssemblyInit, ControlInv, PlaceInv, VerdictInv, HoldInv, Blank,
       Unarmed, Decoded, Calling, Undecided

\* Each step takes the handler from a place to the next, and keeps what holds there.
LEMMA ControlStep == ASSUME TypeInv, ControlInv, [Next]_vars PROVE ControlInv'
<1> USE DEF TypeInv, WordsOK, Labels, Calling, ControlInv, PlaceInv, VerdictInv, HoldInv, Blank, Unarmed,
            Decoded, Answers, Undecided, Obliged, Relaying, IsSSE, Reachable, Cancelled, Refusal,
            Retryable, AllModes
<1>1. CASE Send /\ CallOnly BY <1>1 DEF Send
<1>2. CASE Answered /\ CallOnly BY <1>2 DEF Answered
<1>3. CASE RetriesLater /\ CallOnly BY <1>3 DEF RetriesLater, MayRetry
<1>4. CASE BackoffEnds /\ CallOnly BY <1>4 DEF BackoffEnds
<1>5. CASE BackoffCancelled /\ CallOnly BY <1>5 DEF BackoffCancelled
<1>6. CASE CallFails /\ CallOnly
  <2>1. PlaceInv' BY <1>6 DEF CallFails
  <2>2. VerdictInv' BY <1>6 DEF CallFails
  <2>3. open = 0 BY <1>6 DEF CallFails, CountsOK
  <2>4. HoldInv' BY <1>6, <2>3 DEF CallFails
  <2>5. QED BY <2>1, <2>2, <2>4
<1>7. CASE CallAnswers /\ CallOnly BY <1>7 DEF CallAnswers
<1>8. CASE Refused /\ UNCHANGED assembly BY <1>8 DEF Refused
<1>9. CASE TellsStatus /\ UNCHANGED assembly BY <1>9 DEF TellsStatus
<1>10. CASE Leaves /\ UNCHANGED assembly BY <1>10 DEF Leaves, Closed
<1>11. CASE Posted /\ mode # "relay" BY <1>11 DEF Posted
<1>12. CASE Reads /\ mode # "relay" BY <1>12 DEF Reads, Takes, Closed
<1>13. CASE SkipsBytes /\ mode # "relay" BY <1>13 DEF SkipsBytes
<1>14. CASE TakesEvent /\ mode # "relay"
  <2>1. PlaceInv' BY <1>14 DEF TakesEvent, EventReceived, AfterEvent, Events
  <2>2. VerdictInv' BY <1>14 DEF TakesEvent, EventReceived, AfterEvent, Events, EventError
  <2>3. HoldInv' BY <1>14 DEF TakesEvent, EventReceived, AfterEvent, Events
  <2>4. QED BY <2>1, <2>2, <2>3
<1>15. CASE StreamEnds /\ mode # "relay" BY <1>15 DEF StreamEnds
<1>16. CASE StreamFails /\ mode # "relay" BY <1>16 DEF StreamFails
<1>17. CASE Slurps /\ mode # "relay" BY <1>17 DEF Slurps, Takes, Closed
<1>18. CASE Slurped /\ mode # "relay"
  <2>1. (Refusal /\ pc' = "respond") \/ (~Refusal /\ pc' \in {"finishing", "abort"})
    BY <1>18 DEF Slurped
  <2>2. UNCHANGED <<mode, outcome, written, callCtx>>
    BY <1>18 DEF Slurped
  <2>3. PlaceInv' BY <1>18, <2>1, <2>2 DEF Slurped
  <2>4. VerdictInv' BY <1>18 DEF Slurped
  <2>5. HoldInv' BY <1>18 DEF Slurped
  <2>6. QED BY <2>3, <2>4, <2>5
<1>19. CASE Finishes /\ mode # "relay" BY <1>19 DEF Finishes
<1>20. CASE Final /\ mode # "relay" BY <1>20 DEF Final
<1>21. CASE WriteFails /\ mode # "relay" BY <1>21 DEF WriteFails, Breaks, RecordAbort, AbortReason
<1>22. CASE Aborts /\ mode # "relay" BY <1>22 DEF Aborts, RecordAbort, AbortReason, Streams
<1>23. CASE Delivers /\ mode # "relay" BY <1>23 DEF Delivers
<1>24. CASE Writes /\ mode # "relay" BY <1>24 DEF Writes
<1>25. CASE Relays /\ mode = "relay" /\ UNCHANGED assembly BY <1>25 DEF Relays
<1>26. CASE Copies /\ mode = "relay" /\ UNCHANGED assembly BY <1>26 DEF Copies, Takes, Closed
<1>27. CASE Feeds /\ mode = "relay" /\ UNCHANGED assembly BY <1>27 DEF Feeds, EventReceived
<1>28. CASE RelayBreaks /\ mode = "relay" /\ UNCHANGED assembly
  BY <1>28 DEF RelayBreaks, Breaks, RecordAbort, AbortReason
<1>29. CASE RelayEnds /\ mode = "relay" /\ UNCHANGED assembly BY <1>29 DEF RelayEnds
<1>30. CASE RelayFails /\ mode = "relay" /\ UNCHANGED assembly
  BY <1>30 DEF RelayFails, RecordAbort, AbortReason, ErrorTicks
<1>31. CASE Relayed /\ mode = "relay" /\ UNCHANGED assembly BY <1>31 DEF Relayed
<1>32. CASE TimerRuns /\ UNCHANGED assembly BY <1>32 DEF TimerRuns, Timer, Due
<1>33. CASE Tick /\ UNCHANGED assembly BY <1>33 DEF Tick
<1>34. CASE TotalDeadline /\ UNCHANGED assembly BY <1>34 DEF TotalDeadline, DeadlinePasses
<1>35. CASE ClientGoes /\ UNCHANGED assembly BY <1>35 DEF ClientGoes
<1>36. CASE Disconnected /\ UNCHANGED assembly BY <1>36 DEF Disconnected, RequestCancelled
<1>37. CASE ShutDown /\ UNCHANGED assembly BY <1>37 DEF ShutDown, RequestCancelled
<1>38. ASSUME NEW item \in Kinds, Sends(item), UNCHANGED assembly
     PROVE  ControlInv'
  BY <1>38 DEF Sends, UpstreamSends
<1>39. ASSUME NEW how \in {"eof", "reset"}, Ends(how), UNCHANGED assembly
     PROVE  ControlInv'
  BY <1>39 DEF Ends, UpstreamEnds
<1>40. CASE UNCHANGED vars BY <1>40
<1>41. QED
  BY StepCases, <1>1, <1>2, <1>3, <1>4, <1>5, <1>6, <1>7, <1>8, <1>9, <1>10, <1>11, <1>12, <1>13,
     <1>14, <1>15, <1>16, <1>17, <1>18, <1>19, <1>20, <1>21, <1>22, <1>23, <1>24, <1>25, <1>26,
     <1>27, <1>28, <1>29, <1>30, <1>31, <1>32, <1>33, <1>34, <1>35, <1>36, <1>37, <1>38, <1>39,
     <1>40

LEMMA Control == Spec => []ControlInv
<1>1. TypeInv /\ ControlInv /\ [Next]_vars => ControlInv' BY ControlStep
<1>2. QED BY Types, ControlHolds, <1>1, PTL DEF Spec

\* No connection to the upstream is held while the next attempt is made, by an
\* armed timer alone, or after the handler has returned.
THEOREM ConnectionsReleased == Spec => []NothingHeld
<1>1. ControlInv => NothingHeld BY DEF ControlInv, HoldInv, NothingHeld
<1>2. QED BY Control, <1>1, PTL
----------------------------------------------------------------------------
\* What the upstream sent and the handler has not used.
Rest == buf \o wire

LEMMA RestType == ASSUME TypeInv PROVE Rest \in Seq(Kinds) /\ Len(Rest) = Len(buf) + Len(wire)
BY ConcatProperties DEF Rest, TypeInv, ItemsOK

\* What is moved from the front of one sequence to the end of another is not lost.
LEMMA MovedOver ==
    ASSUME NEW s \in Seq(Kinds), NEW t \in Seq(Kinds), NEW n \in 0 .. Len(t)
    PROVE  (s \o SubSeq(t, 1, n)) \o SubSeq(t, n + 1, Len(t)) = s \o t
<1>1. SubSeq(t, 1, n) \in Seq(Kinds) /\ SubSeq(t, n + 1, Len(t)) \in Seq(Kinds)
  BY SubSeqProperties
<1>2. SubSeq(t, 1, n) \o SubSeq(t, n + 1, Len(t)) = t
  <2>1. Len(t) \in Nat /\ 1 \in 1 .. Len(t) + 1 /\ n \in 1 - 1 .. Len(t) /\ Len(t) \in n .. Len(t)
    OBVIOUS
  <2>2. SubSeq(t, 1, n) \o SubSeq(t, n + 1, Len(t)) = SubSeq(t, 1, Len(t))
    BY <2>1, ConcatAdjacentSubSeq
  <2>3. QED BY <2>2, SubSeqFull
<1>3. ASSUME NEW a \in Seq(Kinds), NEW b \in Seq(Kinds), a \o b = t
      PROVE  (s \o a) \o b = s \o t
  <2>1. (s \o a) \o b = s \o (a \o b) BY ConcatAssociative
  <2>2. QED BY <1>3, <2>1, Zenon
<1>4. QED BY <1>1, <1>2, <1>3, Zenon

\* A read loses and adds nothing.
LEMMA ReadKeepsRest == ASSUME TypeInv, Reads \/ Copies \/ Slurps PROVE Rest' = Rest
<1> USE DEF TypeInv, ItemsOK, Rest
<1>1. PICK result \in ReadResults :
         /\ Takes(result[1], result[2])
         /\ \/ buf' = buf \o SubSeq(wire, 1, result[1])
            \/ buf = <<>> /\ buf' = SubSeq(wire, 1, result[1])
  BY DEF Reads, Copies, Slurps
<1>2. result[1] \in 0 .. Len(wire) /\ wire' = SubSeq(wire, result[1] + 1, Len(wire))
  BY <1>1, ReadTypes DEF Takes
<1>3. SubSeq(wire, 1, result[1]) \in Seq(Kinds)
  BY <1>2, SubSeqProperties
<1>4. buf' = buf \o SubSeq(wire, 1, result[1])
  BY <1>1, <1>3, ConcatEmptySeq
<1>5. QED BY <1>2, <1>4, MovedOver

\* The handler takes the first item.
LEMMA TakesFirst ==
    ASSUME TypeInv, SkipsBytes \/ TakesEvent
    PROVE  /\ Rest # <<>> /\ Rest[1] = Head(buf)
           /\ Rest' = Tail(Rest)
<1> USE DEF TypeInv, ItemsOK, Rest
<1>1. buf # <<>> /\ buf' = Tail(buf) /\ wire' = wire
  BY DEF SkipsBytes, TakesEvent
<1>2. /\ Tail(buf) \in Seq(Kinds) /\ Len(Tail(buf)) = Len(buf) - 1 /\ Len(buf) > 0
      /\ \A i \in 1 .. Len(Tail(buf)) : Tail(buf)[i] = buf[i + 1]
  BY <1>1, HeadTailProperties
<1>3. Rest \in Seq(Kinds) /\ Len(Rest) = Len(buf) + Len(wire) /\ Rest # <<>>
  BY <1>1, <1>2, ConcatProperties
<1>4. /\ Tail(Rest) \in Seq(Kinds) /\ Len(Tail(Rest)) = Len(Rest) - 1
      /\ \A i \in 1 .. Len(Tail(Rest)) : Tail(Rest)[i] = Rest[i + 1]
  BY <1>3, HeadTailProperties
<1>5. Tail(buf) \o wire \in Seq(Kinds) /\ Len(Tail(buf) \o wire) = Len(Tail(Rest))
  BY <1>2, <1>3, <1>4, ConcatProperties
<1>6. ASSUME NEW i \in 1 .. Len(Tail(Rest)) PROVE (Tail(buf) \o wire)[i] = Tail(Rest)[i]
  <2>1. Tail(Rest)[i] = Rest[i + 1] /\ i + 1 \in 1 .. Len(Rest)
    BY <1>4, <1>3
  <2>2. Rest[i + 1] = IF i + 1 <= Len(buf) THEN buf[i + 1] ELSE wire[i + 1 - Len(buf)]
    BY <2>1, <1>3, ConcatProperties
  <2>3. (Tail(buf) \o wire)[i] = IF i <= Len(Tail(buf)) THEN Tail(buf)[i] ELSE wire[i - Len(Tail(buf))]
    BY <1>2, <1>3, <1>4, ConcatProperties
  <2>4. CASE i <= Len(Tail(buf))
    BY <2>1, <2>2, <2>3, <2>4, <1>2
  <2>5. CASE i > Len(Tail(buf))
    <3>1. i - Len(Tail(buf)) = i + 1 - Len(buf) BY <1>2
    <3>2. QED BY <2>1, <2>2, <2>3, <2>5, <1>2, <3>1
  <2>6. QED BY <2>4, <2>5, <1>2
<1>7. Rest' = Tail(Rest)
  BY <1>1, <1>4, <1>5, <1>6, SeqEqual
<1>8. Rest[1] = Head(buf)
  BY <1>1, <1>2, <1>3, ConcatProperties
<1>9. QED BY <1>3, <1>7, <1>8

\* The upstream adds a last one.
LEMMA SendsLast ==
    ASSUME TypeInv, NEW item \in Kinds, Sends(item)
    PROVE  Rest' = Append(Rest, item)
<1> USE DEF TypeInv, ItemsOK, Rest
<1>1. buf' = buf /\ wire' = Append(wire, item)
  BY DEF Sends, UpstreamSends
<1>2. wire' = wire \o <<item>> /\ <<item>> \in Seq(Kinds)
  BY <1>1, AppendIsConcat
<1>3. Rest' = Rest \o <<item>>
  BY <1>1, <1>2, ConcatAssociative
<1>4. QED BY <1>3, RestType, AppendIsConcat
----------------------------------------------------------------------------
\* The body's timer beside the handler: its callback says why before it cancels, a
\* read that fails closes the body, an abort cancels the call, and what else
\* cancels it is the end of the request.
TimerInv ==
    /\ firing => timedOut
    /\ readErr # "none" => callCtx # "live" /\ ~timer
    /\ aborted => callCtx # "live"
    /\ callCtx = "canceled" /\ timer /\ ~timedOut /\ Unbounded /\ mode # "json" =>
         reqCtx # "live" \/ aborted
    /\ callCtx = "canceled" /\ pc \in {"send", "await", "decide", "backoff"} => reqCtx # "live"

LEMMA TimerHolds == Init => TimerInv
BY DEF Init, RequestInit, CallInit, TimerInv

\* No step breaks that order.
LEMMA TimerStep == ASSUME TypeInv, ControlInv, TimerInv, [Next]_vars PROVE TimerInv'
<1> USE DEF TypeInv, WordsOK, Labels, Calling, ControlInv, PlaceInv, VerdictInv, Blank, Unarmed,
            Undecided, TimerInv, Cancelled, Unbounded
<1>1. CASE Send /\ CallOnly BY <1>1 DEF Send
<1>2. CASE Answered /\ CallOnly BY <1>2 DEF Answered
<1>3. CASE RetriesLater /\ CallOnly BY <1>3 DEF RetriesLater
<1>4. CASE BackoffEnds /\ CallOnly BY <1>4 DEF BackoffEnds
<1>5. CASE BackoffCancelled /\ CallOnly BY <1>5 DEF BackoffCancelled
<1>6. CASE CallFails /\ CallOnly BY <1>6 DEF CallFails
<1>7. CASE CallAnswers /\ CallOnly BY <1>7 DEF CallAnswers
<1>8. CASE Refused /\ UNCHANGED assembly BY <1>8 DEF Refused
<1>9. CASE TellsStatus /\ UNCHANGED assembly BY <1>9 DEF TellsStatus
<1>10. CASE Leaves /\ UNCHANGED assembly BY <1>10 DEF Leaves, Closed
<1>11. CASE Posted /\ mode # "relay" BY <1>11 DEF Posted
<1>12. CASE Reads /\ mode # "relay" BY <1>12 DEF Reads, Takes, Closed
<1>13. CASE SkipsBytes /\ mode # "relay" BY <1>13 DEF SkipsBytes
<1>14. CASE TakesEvent /\ mode # "relay" BY <1>14 DEF TakesEvent, EventReceived, AfterEvent
<1>15. CASE StreamEnds /\ mode # "relay" BY <1>15 DEF StreamEnds
<1>16. CASE StreamFails /\ mode # "relay" BY <1>16 DEF StreamFails
<1>17. CASE Slurps /\ mode # "relay" BY <1>17 DEF Slurps, Takes, Closed
<1>18. CASE Slurped /\ mode # "relay" BY <1>18 DEF Slurped
<1>19. CASE Finishes /\ mode # "relay" BY <1>19 DEF Finishes
<1>20. CASE Final /\ mode # "relay" BY <1>20 DEF Final
<1>21. CASE WriteFails /\ mode # "relay" BY <1>21 DEF WriteFails, Breaks, RecordAbort
<1>22. CASE Aborts /\ mode # "relay" BY <1>22 DEF Aborts, RecordAbort, Streams
<1>23. CASE Delivers /\ mode # "relay" BY <1>23 DEF Delivers
<1>24. CASE Writes /\ mode # "relay" BY <1>24 DEF Writes
<1>25. CASE Relays /\ mode = "relay" /\ UNCHANGED assembly BY <1>25 DEF Relays
<1>26. CASE Copies /\ mode = "relay" /\ UNCHANGED assembly BY <1>26 DEF Copies, Takes, Closed
<1>27. CASE Feeds /\ mode = "relay" /\ UNCHANGED assembly BY <1>27 DEF Feeds, EventReceived
<1>28. CASE RelayBreaks /\ mode = "relay" /\ UNCHANGED assembly
  BY <1>28 DEF RelayBreaks, Breaks, RecordAbort
<1>29. CASE RelayEnds /\ mode = "relay" /\ UNCHANGED assembly BY <1>29 DEF RelayEnds
<1>30. CASE RelayFails /\ mode = "relay" /\ UNCHANGED assembly BY <1>30 DEF RelayFails, RecordAbort
<1>31. CASE Relayed /\ mode = "relay" /\ UNCHANGED assembly BY <1>31 DEF Relayed
<1>32. CASE TimerRuns /\ UNCHANGED assembly BY <1>32 DEF TimerRuns, Timer
<1>33. CASE Tick /\ UNCHANGED assembly BY <1>33 DEF Tick
<1>34. CASE TotalDeadline /\ UNCHANGED assembly BY <1>34 DEF TotalDeadline, DeadlinePasses
<1>35. CASE ClientGoes /\ UNCHANGED assembly BY <1>35 DEF ClientGoes
<1>36. CASE Disconnected /\ UNCHANGED assembly BY <1>36 DEF Disconnected, RequestCancelled
<1>37. CASE ShutDown /\ UNCHANGED assembly BY <1>37 DEF ShutDown, RequestCancelled
<1>38. ASSUME NEW item \in Kinds, Sends(item), UNCHANGED assembly
     PROVE  TimerInv'
  BY <1>38 DEF Sends, UpstreamSends
<1>39. ASSUME NEW how \in {"eof", "reset"}, Ends(how), UNCHANGED assembly
     PROVE  TimerInv'
  BY <1>39 DEF Ends, UpstreamEnds
<1>40. CASE UNCHANGED vars BY <1>40
<1>41. QED
  BY StepCases, <1>1, <1>2, <1>3, <1>4, <1>5, <1>6, <1>7, <1>8, <1>9, <1>10, <1>11, <1>12, <1>13,
     <1>14, <1>15, <1>16, <1>17, <1>18, <1>19, <1>20, <1>21, <1>22, <1>23, <1>24, <1>25, <1>26,
     <1>27, <1>28, <1>29, <1>30, <1>31, <1>32, <1>33, <1>34, <1>35, <1>36, <1>37, <1>38, <1>39,
     <1>40

\* An event nobody has taken.
Untaken(items) == \E i \in DOMAIN items : items[i] \in Events

\* The idle timer can still end the call.
Clocked == timer /\ ~timedOut /\ Unbounded /\ mode # "json" /\ callCtx = "live"

\* The timer runs no faster than the silence it measures.  When an event has come
\* for a handler that waits, no time passes until it is taken.
OnTime ==
    \/ gap + waited + left >= IdleTicks
    \/ mode = "relay" /\ waited > 0
    \/ left > 0 /\ pc \in {"next", "relay"} /\ Untaken(Rest)
    \/ left > 0 /\ pc = "write" /\ mode = "relay" /\ Untaken(wire)

\* Where a chat handler has taken an event since it last waited.
Busy == {"write", "finishing", "final", "abort", "respond", "leave"}

ClockInv ==
    Clocked =>
      /\ OnTime
      /\ pc = "posted" => left = IdleTicks
      /\ mode = "relay" => pc \in {"posted", "relay", "write"}
      /\ mode # "relay" => pc \in Busy \cup {"posted", "next"}
      /\ mode # "relay" /\ pc \in Busy => waited + left >= IdleTicks

LEMMA ClockHolds == Init => ClockInv
BY DEF Init, RequestInit, CallInit, ClockInv, Clocked

LEMMA UntakenTail ==
    ASSUME NEW s \in Seq(Kinds), s # <<>>, s[1] \notin Events, Untaken(s)
    PROVE  Untaken(Tail(s))
<1>1. PICK i \in 1 .. Len(s) : s[i] \in Events BY DEF Untaken
<1>2. i - 1 \in 1 .. Len(Tail(s)) /\ Tail(s)[i - 1] = s[i]
  BY <1>1, HeadTailProperties
<1>3. DOMAIN Tail(s) = 1 .. Len(Tail(s)) BY HeadTailProperties
<1>4. QED BY <1>1, <1>2, <1>3 DEF Untaken

LEMMA UntakenAppend ==
    ASSUME NEW s \in Seq(Kinds), NEW item \in Kinds, Untaken(s) \/ item \in Events
    PROVE  Untaken(Append(s, item))
<1>1. DOMAIN Append(s, item) = 1 .. Len(s) + 1
  BY AppendProperties
<1>2. CASE item \in Events
  BY <1>1, <1>2, AppendProperties DEF Untaken
<1>3. CASE Untaken(s)
  BY <1>1, <1>3, AppendProperties DEF Untaken
<1>4. QED BY <1>2, <1>3

LEMMA UntakenConcat ==
    ASSUME NEW s \in Seq(Kinds), NEW t \in Seq(Kinds), Untaken(s \o t), ~Untaken(s)
    PROVE  Untaken(t)
<1>1. PICK i \in 1 .. Len(s) + Len(t) : (s \o t)[i] \in Events
  BY ConcatProperties DEF Untaken
<1>2. i > Len(s)
  BY <1>1, ConcatProperties DEF Untaken
<1>3. i - Len(s) \in 1 .. Len(t) /\ t[i - Len(s)] \in Events
  BY <1>1, <1>2, ConcatProperties
<1>4. QED BY <1>3 DEF Untaken

\* No step makes the timer run ahead.
LEMMA ClockStep == ASSUME TypeInv, ControlInv, TimerInv, ClockInv, [Next]_vars PROVE ClockInv'
<1> USE TimesAssumption
    DEF TypeInv, WordsOK, Labels, Calling, TimesOK, ControlInv, PlaceInv, VerdictInv, Blank, Unarmed,
        Undecided, TimerInv, Unbounded, ClockInv, Clocked, OnTime, Busy, Rest, Cancelled, IsSSE,
        Decoded, Refusal
<1>1. CASE Send /\ CallOnly BY <1>1 DEF Send
<1>2. CASE Answered /\ CallOnly BY <1>2 DEF Answered
<1>3. CASE RetriesLater /\ CallOnly BY <1>3 DEF RetriesLater
<1>4. CASE BackoffEnds /\ CallOnly BY <1>4 DEF BackoffEnds
<1>5. CASE BackoffCancelled /\ CallOnly BY <1>5 DEF BackoffCancelled
<1>6. CASE CallFails /\ CallOnly BY <1>6 DEF CallFails
<1>7. CASE CallAnswers /\ CallOnly BY <1>7 DEF CallAnswers
<1>8. CASE Refused /\ UNCHANGED assembly BY <1>8 DEF Refused
<1>9. CASE TellsStatus /\ UNCHANGED assembly BY <1>9 DEF TellsStatus
<1>10. CASE Leaves /\ UNCHANGED assembly BY <1>10 DEF Leaves, Closed
<1>11. CASE Posted /\ mode # "relay" BY <1>11 DEF Posted
<1>12. CASE Reads /\ mode # "relay"
  <2>1. Rest' = Rest BY <1>12, ReadKeepsRest
  <2>2. UNCHANGED <<gap, waited, left, pc, mode>> /\ (Clocked' => Clocked)
    BY <1>12 DEF Reads, Takes, Closed
  <2> HIDE DEF Rest
  <2>3. QED BY <1>12, <2>1, <2>2 DEF Reads
<1>13. CASE SkipsBytes /\ mode # "relay"
  <2>1. Untaken(Rest) => Untaken(Rest')
    <3> HIDE DEF Rest
    <3>1. Rest \in Seq(Kinds) /\ Rest # <<>> /\ Rest[1] \notin Events /\ Rest' = Tail(Rest)
      BY <1>13, RestType, TakesFirst DEF SkipsBytes, Events
    <3>2. QED BY <3>1, UntakenTail
  <2>2. UNCHANGED <<gap, waited, left, pc, mode>> /\ (Clocked' => Clocked)
    BY <1>13 DEF SkipsBytes
  <2> HIDE DEF Rest
  <2>3. QED BY <1>13, <2>1, <2>2 DEF SkipsBytes
<1>14. CASE TakesEvent /\ mode # "relay" BY <1>14 DEF TakesEvent, EventReceived, AfterEvent, Events
<1>15. CASE StreamEnds /\ mode # "relay" BY <1>15 DEF StreamEnds
<1>16. CASE StreamFails /\ mode # "relay" BY <1>16 DEF StreamFails
<1>17. CASE Slurps /\ mode # "relay" BY <1>17 DEF Slurps, Takes, Closed
<1>18. CASE Slurped /\ mode # "relay" BY <1>18 DEF Slurped
<1>19. CASE Finishes /\ mode # "relay" BY <1>19 DEF Finishes
<1>20. CASE Final /\ mode # "relay" BY <1>20 DEF Final
<1>21. CASE WriteFails /\ mode # "relay" BY <1>21 DEF WriteFails, Breaks, RecordAbort
<1>22. CASE Aborts /\ mode # "relay" BY <1>22 DEF Aborts, RecordAbort
<1>23. CASE Delivers /\ mode # "relay" BY <1>23 DEF Delivers
<1>24. CASE Writes /\ mode # "relay" BY <1>24 DEF Writes
<1>25. CASE Relays /\ mode = "relay" /\ UNCHANGED assembly BY <1>25 DEF Relays
<1>26. CASE Copies /\ mode = "relay" /\ UNCHANGED assembly
  <2>1. Rest' = Rest BY <1>26, ReadKeepsRest
  <2>2. UNCHANGED <<gap, waited, left, pc, mode>> /\ (Clocked' => Clocked)
    BY <1>26 DEF Copies, Takes, Closed
  <2> HIDE DEF Rest
  <2>3. QED BY <1>26, <2>1, <2>2 DEF Copies
<1>27. CASE Feeds /\ mode = "relay" /\ UNCHANGED assembly
  <2> SUFFICES ASSUME Clocked' PROVE ClockInv'
    OBVIOUS
  <2>1. Unbounded /\ callCtx = "live" BY <1>27 DEF Feeds
  <2>2. CASE CompletesEvent(buf)
    <3>1. left' = IdleTicks /\ waited' = 0 /\ gap' = gap /\ pc' = "write"
      BY <1>27, <2>1, <2>2 DEF Feeds, EventReceived
    <3>2. QED BY <1>27, <3>1 DEF Feeds
  <2>3. CASE ~CompletesEvent(buf)
    <3>1. UNCHANGED <<left, waited, gap, wire, mode>> /\ pc' = "write" /\ pc = "relay"
      BY <1>27, <2>3 DEF Feeds
    <3>2. ~Untaken(buf) BY <2>3 DEF CompletesEvent, Untaken
    <3>3. Untaken(Rest) => Untaken(wire)
      BY <3>2, UntakenConcat DEF ItemsOK
    <3> HIDE DEF Rest
    <3>4. OnTime BY <1>27, <2>3 DEF Feeds
    <3>5. OnTime' BY <1>27, <3>1, <3>3, <3>4
    <3>6. QED BY <1>27, <3>1, <3>5
  <2>4. QED BY <2>2, <2>3
<1>28. CASE RelayBreaks /\ mode = "relay" /\ UNCHANGED assembly
  BY <1>28 DEF RelayBreaks, Breaks, RecordAbort
<1>29. CASE RelayEnds /\ mode = "relay" /\ UNCHANGED assembly BY <1>29 DEF RelayEnds
<1>30. CASE RelayFails /\ mode = "relay" /\ UNCHANGED assembly BY <1>30 DEF RelayFails, RecordAbort
<1>31. CASE Relayed /\ mode = "relay" /\ UNCHANGED assembly BY <1>31 DEF Relayed
<1>32. CASE TimerRuns /\ UNCHANGED assembly BY <1>32 DEF TimerRuns, Timer
<1>33. CASE Tick /\ UNCHANGED assembly
  <2> SUFFICES ASSUME Clocked' PROVE ClockInv'
    OBVIOUS
  <2>1. Clocked /\ left' = left - 1 /\ left > 0 /\ UNCHANGED <<pc, mode, wire, buf>>
    BY <1>33 DEF Tick, Due
  <2>2. gap' = IF gap < IdleTicks THEN gap + 1 ELSE gap
    BY <1>33, <2>1 DEF Tick
  <2>3. CASE AwaitsUpstream /\ UNCHANGED waited
    <3>1. pc \in {"next", "relay"} /\ wire = <<>> /\ buf = <<>>
      BY <2>1, <2>3 DEF AwaitsUpstream, Blocked
    <3>2. Rest = <<>> BY <3>1
    <3>3. ~Untaken(Rest) BY <3>2 DEF Untaken
    <3>4. gap + waited + left >= IdleTicks \/ (mode = "relay" /\ waited > 0)
      BY <2>1, <3>1, <3>3
    <3>5. OnTime' BY <2>1, <2>2, <2>3, <3>4
    <3>6. QED BY <2>1, <3>1, <3>5
  <2>4. CASE pc = "write" /\ waited' = IF waited < IdleTicks THEN waited + 1 ELSE waited
    <3>1. mode = "relay" => waited' > 0 BY <2>4
    <3>2. mode # "relay" => waited' + left' >= IdleTicks BY <2>1, <2>4
    <3>3. gap' \in Nat BY <2>2
    <3>4. waited' \in Nat /\ left' \in Nat BY <2>1, <2>4
    <3>5. CASE mode = "relay" BY <2>1, <2>4, <3>1, <3>5
    <3>6. CASE mode # "relay"
      <4>1. \A g, w, l \in Nat : w + l >= IdleTicks => g + w + l >= IdleTicks
        OBVIOUS
      <4>2. gap' + waited' + left' >= IdleTicks BY <3>2, <3>3, <3>4, <3>6, <4>1
      <4>3. QED BY <2>1, <2>4, <3>2, <3>6, <4>2
    <3>7. QED BY <3>5, <3>6
  <2>5. QED BY <1>33, <2>1, <2>3, <2>4 DEF Tick
<1>34. CASE TotalDeadline /\ UNCHANGED assembly BY <1>34 DEF TotalDeadline, DeadlinePasses
<1>35. CASE ClientGoes /\ UNCHANGED assembly BY <1>35 DEF ClientGoes
<1>36. CASE Disconnected /\ UNCHANGED assembly BY <1>36 DEF Disconnected, RequestCancelled
<1>37. CASE ShutDown /\ UNCHANGED assembly BY <1>37 DEF ShutDown, RequestCancelled
<1>38. ASSUME NEW item \in Kinds, Sends(item), UNCHANGED assembly
     PROVE  ClockInv'
  <2> SUFFICES ASSUME Clocked' PROVE ClockInv'
    OBVIOUS
  <2>1. Clocked /\ left > 0 /\ UNCHANGED <<left, waited, pc, mode>> /\ wire' = Append(wire, item)
    BY <1>38 DEF Sends, UpstreamSends, Due
  <2>2. Rest' = Append(Rest, item) BY <1>38, SendsLast
  <2>3. Untaken(wire) \/ item \in Events => Untaken(wire')
    BY <2>1, UntakenAppend DEF ItemsOK
  <2> HIDE DEF Rest
  <2>4. Untaken(Rest) \/ item \in Events => Untaken(Rest')
    BY <2>2, RestType, UntakenAppend
  <2>5. CASE item \in Events /\ gap' = 0
    <3>1. OnTime' BY <2>1, <2>3, <2>4, <2>5
    <3>2. QED BY <2>1, <3>1
  <2>6. CASE UNCHANGED gap
    <3>1. OnTime' BY <2>1, <2>3, <2>4, <2>6
    <3>2. QED BY <2>1, <3>1
  <2>7. QED BY <1>38, <2>5, <2>6 DEF Sends, UpstreamSends
<1>39. ASSUME NEW how \in {"eof", "reset"}, Ends(how), UNCHANGED assembly
     PROVE  ClockInv'
  BY <1>39 DEF Ends, UpstreamEnds
<1>40. CASE UNCHANGED vars BY <1>40
<1>41. QED
  BY StepCases, <1>1, <1>2, <1>3, <1>4, <1>5, <1>6, <1>7, <1>8, <1>9, <1>10, <1>11, <1>12, <1>13,
     <1>14, <1>15, <1>16, <1>17, <1>18, <1>19, <1>20, <1>21, <1>22, <1>23, <1>24, <1>25, <1>26,
     <1>27, <1>28, <1>29, <1>30, <1>31, <1>32, <1>33, <1>34, <1>35, <1>36, <1>37, <1>38, <1>39,
     <1>40

\* When the idle timer has fired the upstream was silent, unless the call was over
\* for another reason.
QuietInv ==
    timedOut /\ Unbounded /\ mode # "json" =>
      quiet \/ callCtx = "deadline" \/ reqCtx # "live" \/ aborted

LEMMA QuietHolds == Init => QuietInv
BY DEF Init, RequestInit, CallInit, QuietInv

\* It is the first firing that says so, and nothing takes it back.
LEMMA QuietStep == ASSUME TypeInv, ControlInv, TimerInv, ClockInv, QuietInv, [Next]_vars PROVE QuietInv'
<1> USE DEF TypeInv, WordsOK, Labels, Calling, ControlInv, PlaceInv, Unarmed, QuietInv, Unbounded, Cancelled
<1>1. CASE Send /\ CallOnly BY <1>1 DEF Send
<1>2. CASE Answered /\ CallOnly BY <1>2 DEF Answered
<1>3. CASE RetriesLater /\ CallOnly BY <1>3 DEF RetriesLater
<1>4. CASE BackoffEnds /\ CallOnly BY <1>4 DEF BackoffEnds
<1>5. CASE BackoffCancelled /\ CallOnly BY <1>5 DEF BackoffCancelled
<1>6. CASE CallFails /\ CallOnly BY <1>6 DEF CallFails
<1>7. CASE CallAnswers /\ CallOnly BY <1>7 DEF CallAnswers
<1>8. CASE Refused /\ UNCHANGED assembly BY <1>8 DEF Refused
<1>9. CASE TellsStatus /\ UNCHANGED assembly BY <1>9 DEF TellsStatus
<1>10. CASE Leaves /\ UNCHANGED assembly BY <1>10 DEF Leaves, Closed
<1>11. CASE Posted /\ mode # "relay" BY <1>11 DEF Posted
<1>12. CASE Reads /\ mode # "relay" BY <1>12 DEF Reads, Takes, Closed
<1>13. CASE SkipsBytes /\ mode # "relay" BY <1>13 DEF SkipsBytes
<1>14. CASE TakesEvent /\ mode # "relay" BY <1>14 DEF TakesEvent, EventReceived
<1>15. CASE StreamEnds /\ mode # "relay" BY <1>15 DEF StreamEnds
<1>16. CASE StreamFails /\ mode # "relay" BY <1>16 DEF StreamFails
<1>17. CASE Slurps /\ mode # "relay" BY <1>17 DEF Slurps, Takes, Closed
<1>18. CASE Slurped /\ mode # "relay" BY <1>18 DEF Slurped
<1>19. CASE Finishes /\ mode # "relay" BY <1>19 DEF Finishes
<1>20. CASE Final /\ mode # "relay" BY <1>20 DEF Final
<1>21. CASE WriteFails /\ mode # "relay" BY <1>21 DEF WriteFails, Breaks, RecordAbort
<1>22. CASE Aborts /\ mode # "relay" BY <1>22 DEF Aborts, RecordAbort
<1>23. CASE Delivers /\ mode # "relay" BY <1>23 DEF Delivers
<1>24. CASE Writes /\ mode # "relay" BY <1>24 DEF Writes
<1>25. CASE Relays /\ mode = "relay" /\ UNCHANGED assembly BY <1>25 DEF Relays
<1>26. CASE Copies /\ mode = "relay" /\ UNCHANGED assembly BY <1>26 DEF Copies, Takes, Closed
<1>27. CASE Feeds /\ mode = "relay" /\ UNCHANGED assembly BY <1>27 DEF Feeds, EventReceived
<1>28. CASE RelayBreaks /\ mode = "relay" /\ UNCHANGED assembly
  BY <1>28 DEF RelayBreaks, Breaks, RecordAbort
<1>29. CASE RelayEnds /\ mode = "relay" /\ UNCHANGED assembly BY <1>29 DEF RelayEnds
<1>30. CASE RelayFails /\ mode = "relay" /\ UNCHANGED assembly BY <1>30 DEF RelayFails, RecordAbort
<1>31. CASE Relayed /\ mode = "relay" /\ UNCHANGED assembly BY <1>31 DEF Relayed
<1>32. CASE TimerRuns /\ UNCHANGED assembly
  <2>1. CASE timer /\ ~timer' /\ ~timedOut
    <3>1. left = 0 /\ quiet' = Silent /\ UNCHANGED <<callCtx, reqCtx, aborted, mode, outcome>>
      BY <1>32, <2>1 DEF TimerRuns, Timer, Due
    <3>2. Clocked => Silent
      BY <3>1 DEF ClockInv, OnTime, Silent, TimesOK
    <3>3. Unbounded /\ mode # "json" => Clocked \/ callCtx = "deadline" \/ reqCtx # "live" \/ aborted
      BY <2>1 DEF Clocked, TimerInv
    <3>4. QED BY <3>1, <3>2, <3>3
  <2>2. CASE ~(timer /\ ~timer' /\ ~timedOut)
    <3>1. UNCHANGED <<quiet, timedOut, reqCtx, aborted, mode, outcome>>
      BY <1>32, <2>2 DEF TimerRuns, Timer, Due, TimerInv, FlagsOK
    <3>2. callCtx = "deadline" => callCtx' = "deadline"
      BY <1>32 DEF TimerRuns, Timer
    <3>3. QED BY <3>1, <3>2
  <2>3. QED BY <2>1, <2>2
<1>33. CASE Tick /\ UNCHANGED assembly BY <1>33 DEF Tick
<1>34. CASE TotalDeadline /\ UNCHANGED assembly BY <1>34 DEF TotalDeadline, DeadlinePasses
<1>35. CASE ClientGoes /\ UNCHANGED assembly BY <1>35 DEF ClientGoes
<1>36. CASE Disconnected /\ UNCHANGED assembly BY <1>36 DEF Disconnected, RequestCancelled
<1>37. CASE ShutDown /\ UNCHANGED assembly BY <1>37 DEF ShutDown, RequestCancelled
<1>38. ASSUME NEW item \in Kinds, Sends(item), UNCHANGED assembly
     PROVE  QuietInv'
  BY <1>38 DEF Sends, UpstreamSends
<1>39. ASSUME NEW how \in {"eof", "reset"}, Ends(how), UNCHANGED assembly
     PROVE  QuietInv'
  BY <1>39 DEF Ends, UpstreamEnds
<1>40. CASE UNCHANGED vars BY <1>40
<1>41. QED
  BY StepCases, <1>1, <1>2, <1>3, <1>4, <1>5, <1>6, <1>7, <1>8, <1>9, <1>10, <1>11, <1>12, <1>13,
     <1>14, <1>15, <1>16, <1>17, <1>18, <1>19, <1>20, <1>21, <1>22, <1>23, <1>24, <1>25, <1>26,
     <1>27, <1>28, <1>29, <1>30, <1>31, <1>32, <1>33, <1>34, <1>35, <1>36, <1>37, <1>38, <1>39,
     <1>40

\* Where a failed read, a write or an end of the request takes the blame.
CauseInv ==
    /\ reqCtx = "left" => client = "gone" \/ broken
    /\ readErr = "idle" => timedOut /\ Unbounded
    /\ callCtx = "canceled" /\ ~timedOut /\ readErr = "none" /\ ~aborted
         /\ pc \in {"posted", "next", "relay", "slurp", "finishing", "final", "write"} =>
         reqCtx # "live"
    /\ readErr = "canceled" => reqCtx # "live"
    /\ pc = "abort" /\ ~aborted =>
         /\ err = "idle" => readErr = "idle"
         /\ reqCtx = "live" => err \notin {"canceled", "write"}

BlameInv == CauseInv /\ BlameIsFair

LEMMA BlameHolds == Init => BlameInv
BY DEF Init, RequestInit, CallInit, BlameInv, CauseInv, BlameIsFair, Calling

\* What the error of a Read says.
LEMMA ReadSays ==
    ASSUME TypeInv, NEW result \in ReadResults
    PROVE  /\ result[2] = "idle" => timedOut /\ Unbounded
           /\ result[2] = "canceled" => callCtx = "canceled" /\ ~timedOut
           /\ result[2] = "eof" => result[1] = 0 /\ wire = <<>> /\ wireEnd = "eof"
BY DEF TypeInv, WordsOK, ReadResults, ReadError, RawError, Unbounded

\* Each step that gives the answer up blames who had a part in it.
LEMMA BlameStep == ASSUME TypeInv, ControlInv, TimerInv, QuietInv, BlameInv, [Next]_vars PROVE BlameInv'
<1> USE DEF TypeInv, WordsOK, Labels, Calling, ControlInv, PlaceInv, VerdictInv, Blank, Unarmed,
            Undecided, TimerInv, QuietInv, BlameInv, CauseInv, BlameIsFair, Unbounded, Cancelled,
            AbortReason, IsSSE
<1>1. CASE Send /\ CallOnly BY <1>1 DEF Send
<1>2. CASE Answered /\ CallOnly BY <1>2 DEF Answered
<1>3. CASE RetriesLater /\ CallOnly BY <1>3 DEF RetriesLater
<1>4. CASE BackoffEnds /\ CallOnly BY <1>4 DEF BackoffEnds
<1>5. CASE BackoffCancelled /\ CallOnly BY <1>5 DEF BackoffCancelled
<1>6. CASE CallFails /\ CallOnly BY <1>6 DEF CallFails
<1>7. CASE CallAnswers /\ CallOnly BY <1>7 DEF CallAnswers
<1>8. CASE Refused /\ UNCHANGED assembly BY <1>8 DEF Refused
<1>9. CASE TellsStatus /\ UNCHANGED assembly BY <1>9 DEF TellsStatus
<1>10. CASE Leaves /\ UNCHANGED assembly BY <1>10 DEF Leaves, Closed
<1>11. CASE Posted /\ mode # "relay" BY <1>11 DEF Posted
<1>12. CASE Reads /\ mode # "relay"
  <2>1. PICK result \in ReadResults : Takes(result[1], result[2]) /\ readErr' = result[2]
    BY <1>12 DEF Reads
  <2>2. /\ readErr' = "idle" => timedOut /\ Unbounded
        /\ readErr' = "canceled" => callCtx = "canceled" /\ ~timedOut
    BY <2>1, ReadSays
  <2>3. readErr' = "none" => UNCHANGED callCtx
    BY <2>1 DEF Takes
  <2>4. QED BY <1>12, <2>1, <2>2, <2>3 DEF Reads, Takes
<1>13. CASE SkipsBytes /\ mode # "relay" BY <1>13 DEF SkipsBytes
<1>14. CASE TakesEvent /\ mode # "relay"
  BY <1>14 DEF TakesEvent, EventReceived, AfterEvent, EventError
<1>15. CASE StreamEnds /\ mode # "relay" BY <1>15 DEF StreamEnds
<1>16. CASE StreamFails /\ mode # "relay" BY <1>16 DEF StreamFails, ReadErrors
<1>17. CASE Slurps /\ mode # "relay"
  <2>1. PICK result \in ReadResults : Takes(result[1], result[2]) /\ readErr' = result[2]
    BY <1>17 DEF Slurps
  <2>2. /\ readErr' = "idle" => timedOut /\ Unbounded
        /\ readErr' = "canceled" => callCtx = "canceled" /\ ~timedOut
    BY <2>1, ReadSays
  <2>3. readErr' = "none" => UNCHANGED callCtx
    BY <2>1 DEF Takes
  <2>4. QED BY <1>17, <2>1, <2>2, <2>3 DEF Slurps, Takes
<1>18. CASE Slurped /\ mode # "relay" BY <1>18 DEF Slurped, ReadErrors
<1>19. CASE Finishes /\ mode # "relay" BY <1>19 DEF Finishes
<1>20. CASE Final /\ mode # "relay" BY <1>20 DEF Final
<1>21. CASE WriteFails /\ mode # "relay" BY <1>21 DEF WriteFails, Breaks, RecordAbort
<1>22. CASE Aborts /\ mode # "relay" BY <1>22 DEF Aborts, RecordAbort, Streams
<1>23. CASE Delivers /\ mode # "relay" BY <1>23 DEF Delivers
<1>24. CASE Writes /\ mode # "relay" BY <1>24 DEF Writes
<1>25. CASE Relays /\ mode = "relay" /\ UNCHANGED assembly BY <1>25 DEF Relays
<1>26. CASE Copies /\ mode = "relay" /\ UNCHANGED assembly
  <2>1. PICK result \in ReadResults : Takes(result[1], result[2]) /\ readErr' = result[2]
    BY <1>26 DEF Copies
  <2>2. /\ readErr' = "idle" => timedOut /\ Unbounded
        /\ readErr' = "canceled" => callCtx = "canceled" /\ ~timedOut
    BY <2>1, ReadSays
  <2>3. readErr' = "none" => UNCHANGED callCtx
    BY <2>1 DEF Takes
  <2>4. QED BY <1>26, <2>1, <2>2, <2>3 DEF Copies, Takes
<1>27. CASE Feeds /\ mode = "relay" /\ UNCHANGED assembly BY <1>27 DEF Feeds, EventReceived
<1>28. CASE RelayBreaks /\ mode = "relay" /\ UNCHANGED assembly
  BY <1>28 DEF RelayBreaks, Breaks, RecordAbort
<1>29. CASE RelayEnds /\ mode = "relay" /\ UNCHANGED assembly BY <1>29 DEF RelayEnds
<1>30. CASE RelayFails /\ mode = "relay" /\ UNCHANGED assembly
  BY <1>30 DEF RelayFails, RecordAbort, ReadErrors
<1>31. CASE Relayed /\ mode = "relay" /\ UNCHANGED assembly BY <1>31 DEF Relayed
<1>32. CASE TimerRuns /\ UNCHANGED assembly BY <1>32 DEF TimerRuns, Timer
<1>33. CASE Tick /\ UNCHANGED assembly BY <1>33 DEF Tick
<1>34. CASE TotalDeadline /\ UNCHANGED assembly BY <1>34 DEF TotalDeadline, DeadlinePasses
<1>35. CASE ClientGoes /\ UNCHANGED assembly BY <1>35 DEF ClientGoes
<1>36. CASE Disconnected /\ UNCHANGED assembly BY <1>36 DEF Disconnected, RequestCancelled
<1>37. CASE ShutDown /\ UNCHANGED assembly BY <1>37 DEF ShutDown, RequestCancelled
<1>38. ASSUME NEW item \in Kinds, Sends(item), UNCHANGED assembly
     PROVE  BlameInv'
  BY <1>38 DEF Sends, UpstreamSends
<1>39. ASSUME NEW how \in {"eof", "reset"}, Ends(how), UNCHANGED assembly
     PROVE  BlameInv'
  BY <1>39 DEF Ends, UpstreamEnds
<1>40. CASE UNCHANGED vars BY <1>40
<1>41. QED
  BY StepCases, <1>1, <1>2, <1>3, <1>4, <1>5, <1>6, <1>7, <1>8, <1>9, <1>10, <1>11, <1>12, <1>13,
     <1>14, <1>15, <1>16, <1>17, <1>18, <1>19, <1>20, <1>21, <1>22, <1>23, <1>24, <1>25, <1>26,
     <1>27, <1>28, <1>29, <1>30, <1>31, <1>32, <1>33, <1>34, <1>35, <1>36, <1>37, <1>38, <1>39,
     <1>40

LEMMA Blame == Spec => []BlameInv
<1>1. /\ TypeInv /\ ControlInv /\ TimerInv /\ [Next]_vars => TimerInv'
      /\ TypeInv /\ ControlInv /\ TimerInv /\ ClockInv /\ [Next]_vars => ClockInv'
      /\ TypeInv /\ ControlInv /\ TimerInv /\ ClockInv /\ QuietInv /\ [Next]_vars => QuietInv'
      /\ TypeInv /\ ControlInv /\ TimerInv /\ QuietInv /\ BlameInv /\ [Next]_vars => BlameInv'
  BY TimerStep, ClockStep, QuietStep, BlameStep
<1>2. QED
  BY Types, Control, TimerHolds, ClockHolds, QuietHolds, BlameHolds, <1>1, PTL DEF Spec

\* An answer cut short is blamed on who had a part in it: the shutdown, a client
\* that is gone or whose connection broke, an upstream that was silent for
\* IdleTicks; never on the upstream for what the call's own timer, or the handler's
\* own write, has done.
THEOREM BlamedFairly == Spec => []BlameIsFair
<1>1. BlameInv => BlameIsFair BY DEF BlameInv
<1>2. QED BY Blame, <1>1, PTL
----------------------------------------------------------------------------
\* Whether an item is in a sequence, and the places of the outputs that come before
\* its first [DONE]: those the answer still owes its client.
Has(items, item) == \E i \in 1 .. Len(items) : items[i] = item
Pending(items) ==
    {i \in 1 .. Len(items) : IsOutput(items[i]) /\ \A j \in 1 .. i - 1 : items[j] # "done"}

LEMMA HasTail ==
    ASSUME NEW s \in Seq(Kinds), s # <<>>, NEW item
    PROVE  Has(s, item) <=> s[1] = item \/ Has(Tail(s), item)
<1> USE HeadTailProperties DEF Has
<1>1. Len(s) > 0 /\ Len(Tail(s)) = Len(s) - 1 /\ \A i \in 1 .. Len(Tail(s)) : Tail(s)[i] = s[i + 1]
  OBVIOUS
<1>2. ASSUME NEW i \in 1 .. Len(s), s[i] = item PROVE s[1] = item \/ Has(Tail(s), item)
  <2>1. CASE i = 1 BY <1>2, <2>1
  <2>2. CASE i # 1
    <3>1. i - 1 \in 1 .. Len(Tail(s)) /\ Tail(s)[i - 1] = s[i] BY <1>1, <2>2
    <3>2. QED BY <1>2, <3>1
  <2>3. QED BY <2>1, <2>2
<1>3. ASSUME NEW i \in 1 .. Len(Tail(s)), Tail(s)[i] = item PROVE Has(s, item)
  <2>1. i + 1 \in 1 .. Len(s) /\ s[i + 1] = item BY <1>1, <1>3
  <2>2. QED BY <2>1
<1>4. QED BY <1>1, <1>2, <1>3

LEMMA HasAppend ==
    ASSUME NEW s \in Seq(Kinds), NEW x \in Kinds, NEW item
    PROVE  Has(Append(s, x), item) <=> Has(s, item) \/ x = item
<1>1. /\ Len(Append(s, x)) = Len(s) + 1 /\ Append(s, x)[Len(s) + 1] = x
      /\ \A i \in 1 .. Len(s) : Append(s, x)[i] = s[i]
  BY AppendProperties
<1>2. ASSUME NEW i \in 1 .. Len(s) + 1, Append(s, x)[i] = item PROVE Has(s, item) \/ x = item
  BY <1>1, <1>2 DEF Has
<1>3. QED BY <1>1, <1>2 DEF Has

LEMMA PendingFinite ==
    ASSUME NEW s \in Seq(Kinds)
    PROVE  IsFiniteSet(Pending(s)) /\ Cardinality(Pending(s)) \in Nat
<1>1. Pending(s) \in SUBSET DOMAIN s BY DEF Pending
<1>2. QED BY <1>1, PlacesFinite

\* Taking the first item takes it from what is owed.
LEMMA PendingTail ==
    ASSUME NEW s \in Seq(Kinds), s # <<>>, s[1] # "done"
    PROVE  Cardinality(Pending(s)) = Cardinality(Pending(Tail(s))) + (IF IsOutput(s[1]) THEN 1 ELSE 0)
<1>1. /\ Len(s) > 0 /\ Tail(s) \in Seq(Kinds) /\ Len(Tail(s)) = Len(s) - 1
      /\ \A i \in 1 .. Len(Tail(s)) : Tail(s)[i] = s[i + 1]
  BY HeadTailProperties
<1> DEFINE later == Pending(s) \ {1}
           shift == [i \in later |-> i - 1]
<1>2. ASSUME NEW i \in later PROVE i - 1 \in Pending(Tail(s))
  <2>1. i \in 2 .. Len(s) /\ IsOutput(s[i]) /\ \A j \in 1 .. i - 1 : s[j] # "done"
    BY DEF Pending
  <2>2. i - 1 \in 1 .. Len(Tail(s)) /\ Tail(s)[i - 1] = s[i]
    BY <1>1, <2>1
  <2>3. ASSUME NEW j \in 1 .. (i - 1) - 1 PROVE Tail(s)[j] # "done"
    <3>1. j \in 1 .. Len(Tail(s)) /\ j + 1 \in 1 .. i - 1 BY <2>1, <1>1
    <3>2. QED BY <1>1, <2>1, <3>1
  <2>4. QED BY <2>1, <2>2, <2>3 DEF Pending
<1>3. ASSUME NEW k \in Pending(Tail(s)) PROVE k + 1 \in later /\ shift[k + 1] = k
  <2>1. /\ k \in 1 .. Len(Tail(s)) /\ IsOutput(Tail(s)[k])
        /\ \A j \in 1 .. k - 1 : Tail(s)[j] # "done"
    BY DEF Pending
  <2>2. k + 1 \in 2 .. Len(s) /\ IsOutput(s[k + 1])
    BY <1>1, <2>1
  <2>3. ASSUME NEW j \in 1 .. (k + 1) - 1 PROVE s[j] # "done"
    <3>1. CASE j = 1 BY <3>1
    <3>2. CASE j # 1
      <4>1. j - 1 \in 1 .. k - 1 /\ j - 1 \in 1 .. Len(Tail(s)) /\ Tail(s)[j - 1] = s[j]
        BY <1>1, <2>1, <3>2
      <4>2. QED BY <2>1, <4>1
    <3>3. QED BY <3>1, <3>2
  <2>4. k + 1 \in later BY <2>2, <2>3 DEF Pending
  <2>5. QED BY <2>1, <2>4
<1>4. shift \in [later -> Pending(Tail(s))]
  BY <1>2
<1>5. ASSUME NEW a \in later, NEW b \in later, shift[a] = shift[b] PROVE a = b
  <2>1. a \in Int /\ b \in Int BY DEF Pending
  <2>2. QED BY <1>5, <2>1
<1>6. shift \in Bijection(later, Pending(Tail(s)))
  BY <1>3, <1>4, <1>5, Fun_IsBij
<1>7. IsFiniteSet(later) /\ Cardinality(later) = IF 1 \in Pending(s) THEN Cardinality(Pending(s)) - 1 ELSE Cardinality(Pending(s))
  BY PendingFinite, FS_RemoveElement
<1>8. Cardinality(Pending(Tail(s))) = Cardinality(later)
  BY <1>6, <1>7, FS_Bijection, Fun_ExistsBij
<1>9. 1 \in Pending(s) <=> IsOutput(s[1])
  BY <1>1 DEF Pending
<1>10. QED BY <1>7, <1>8, <1>9, PendingFinite

\* An item sent is owed if it is an output and comes before [DONE].
LEMMA PendingAppend ==
    ASSUME NEW s \in Seq(Kinds), NEW item \in Kinds
    PROVE  Cardinality(Pending(Append(s, item)))
             = Cardinality(Pending(s)) + (IF IsOutput(item) /\ ~Has(s, "done") THEN 1 ELSE 0)
<1>1. /\ Len(Append(s, item)) = Len(s) + 1 /\ Append(s, item)[Len(s) + 1] = item
      /\ \A i \in 1 .. Len(s) : Append(s, item)[i] = s[i]
  BY AppendProperties
<1>2. ASSUME NEW i \in 1 .. Len(s) PROVE i \in Pending(Append(s, item)) <=> i \in Pending(s)
  <2>1. \A j \in 1 .. i : Append(s, item)[j] = s[j] BY <1>1
  <2>2. QED BY <1>1, <2>1 DEF Pending
<1>3. Len(s) + 1 \in Pending(Append(s, item)) <=> IsOutput(item) /\ ~Has(s, "done")
  BY <1>1 DEF Pending, Has
<1>4. Pending(Append(s, item)) \subseteq 1 .. Len(s) + 1 /\ Pending(s) \subseteq 1 .. Len(s)
  BY <1>1 DEF Pending
<1>5. 1 .. Len(s) + 1 = (1 .. Len(s)) \cup {Len(s) + 1} /\ Len(s) + 1 \notin 1 .. Len(s)
  OBVIOUS
<1>6. CASE IsOutput(item) /\ ~Has(s, "done")
  <2>1. Pending(Append(s, item)) = Pending(s) \cup {Len(s) + 1} /\ Len(s) + 1 \notin Pending(s)
    BY <1>2, <1>3, <1>4, <1>6, <1>5, Zenon
  <2>2. QED BY <1>6, <2>1, PendingFinite, FS_AddElement
<1>7. CASE ~(IsOutput(item) /\ ~Has(s, "done"))
  <2>1. Pending(Append(s, item)) = Pending(s)
    BY <1>2, <1>3, <1>4, <1>7, <1>5, Zenon
  <2>2. QED BY <1>7, <2>1, PendingFinite
<1>8. QED BY <1>6, <1>7

\* Nothing is owed once [DONE] is next, or nothing is left; in an answer without one
\* every output is.
LEMMA PendingEdges ==
    ASSUME NEW s \in Seq(Kinds)
    PROVE  /\ s = <<>> => Cardinality(Pending(s)) = 0
           /\ s # <<>> /\ s[1] = "done" => Cardinality(Pending(s)) = 0
           /\ ~Has(s, "done") => Cardinality(Pending(s)) = Outputs(s)
<1>1. CASE s = <<>>
  <2>1. Pending(s) = {} BY <1>1 DEF Pending
  <2>2. {i \in DOMAIN s : IsOutput(s[i])} = {} BY <1>1
  <2>3. QED BY <1>1, <2>1, <2>2, FS_EmptySet DEF Outputs
<1>2. CASE s # <<>>
  <2>1. s[1] = "done" => Pending(s) = {}
    BY DEF Pending, IsOutput
  <2>2. ~Has(s, "done") => Pending(s) = {i \in DOMAIN s : IsOutput(s[i])}
    BY DEF Pending, Has
  <2>3. QED BY <1>2, <2>1, <2>2, FS_EmptySet DEF Outputs
<1>3. QED BY <1>1, <1>2
----------------------------------------------------------------------------
\* What the end of the upstream's body has told.
EndInv ==
    /\ readErr = "eof" => wire = <<>> /\ wireEnd = "eof"
    /\ wireEnd = "eof" => "eof" \in marks

\* A relay writes all that arrived, in the end.
RelayInv == mode = "relay" => received = out + Len(buf) + Len(wire)

\* The decoder has seen, or will, only a finish_reason that was sent.
FinishInv ==
    mode # "relay" =>
      /\ finish => "finish" \in marks
      /\ Has(Rest, "finish") => "finish" \in marks

\* Where a chat handler still takes events, and where it puts the end of an answer
\* together that is all there.
Reading == pc \in Calling \cup {"posted", "next", "slurp"} \/ (pc = "write" /\ writing = "text")
Wrapping ==
    \/ pc \in {"finishing", "final"}
    \/ pc = "write" /\ writing \in {"held", "done"}
    \/ pc = "respond" /\ writing = "done"

InFlight == IF pc = "write" THEN 1 ELSE 0
Owed == Cardinality(Pending(Rest))

\* Every output the upstream sent before its [DONE] is written, being written, kept
\* for the end or still to be read; none is left over when the end is written.
ReadingInv ==
    mode # "relay" /\ Reading =>
      /\ received = out + held + InFlight + Owed
      /\ "done" \in marks <=> Has(Rest, "done")
WrappingInv ==
    mode # "relay" /\ Wrapping =>
      /\ received = out + held /\ Finished
      /\ "done" \in marks \/ wireEnd = "eof"
      /\ (pc = "final" /\ mode = "stream") \/ (pc = "write" /\ writing = "done") => held = 0

AccountInv == EndInv /\ RelayInv /\ FinishInv /\ ReadingInv /\ WrappingInv

LEMMA AccountHolds == Init => AccountInv
<1> SUFFICES ASSUME Init PROVE AccountInv
  OBVIOUS
<1> USE DEF Init, RequestInit, CallInit, AssemblyInit
<1>1. Rest = <<>> /\ Rest \in Seq(Kinds) BY DEF Rest
<1>2. ~Has(Rest, "done") /\ ~Has(Rest, "finish") BY <1>1 DEF Has
<1>3. Owed = 0 BY <1>1, PendingEdges DEF Owed
<1>4. QED
  BY <1>2, <1>3 DEF AccountInv, EndInv, RelayInv, FinishInv, ReadingInv, WrappingInv, Reading,
     Wrapping, InFlight, Calling

\* A body is at its end once all of it was read.
LEMMA EndStep == ASSUME TypeInv, EndInv, [Next]_vars PROVE EndInv'
<1> USE DEF TypeInv, WordsOK, EndInv
<1>1. CASE Send /\ CallOnly BY <1>1 DEF Send
<1>2. CASE Answered /\ CallOnly BY <1>2 DEF Answered
<1>3. CASE RetriesLater /\ CallOnly BY <1>3 DEF RetriesLater
<1>4. CASE BackoffEnds /\ CallOnly BY <1>4 DEF BackoffEnds
<1>5. CASE BackoffCancelled /\ CallOnly BY <1>5 DEF BackoffCancelled
<1>6. CASE CallFails /\ CallOnly BY <1>6 DEF CallFails
<1>7. CASE CallAnswers /\ CallOnly BY <1>7 DEF CallAnswers
<1>8. CASE Refused /\ UNCHANGED assembly BY <1>8 DEF Refused
<1>9. CASE TellsStatus /\ UNCHANGED assembly BY <1>9 DEF TellsStatus
<1>10. CASE Leaves /\ UNCHANGED assembly BY <1>10 DEF Leaves, Closed
<1>11. CASE Posted /\ mode # "relay" BY <1>11 DEF Posted
<1>12. CASE Reads /\ mode # "relay"
  <2>1. PICK result \in ReadResults : Takes(result[1], result[2]) /\ readErr' = result[2]
    BY <1>12 DEF Reads, Takes, Closed
  <2>2. readErr' = "eof" => result[1] = 0 /\ wire = <<>> /\ wireEnd = "eof"
    BY <2>1, ReadSays
  <2>3. wire = <<>> /\ result[1] = 0 => wire' = <<>>
    BY <2>1 DEF Takes
  <2>4. QED BY <1>12, <2>1, <2>2, <2>3 DEF Reads, Takes, Closed
<1>13. CASE SkipsBytes /\ mode # "relay" BY <1>13 DEF SkipsBytes
<1>14. CASE TakesEvent /\ mode # "relay" BY <1>14 DEF TakesEvent, EventReceived
<1>15. CASE StreamEnds /\ mode # "relay" BY <1>15 DEF StreamEnds
<1>16. CASE StreamFails /\ mode # "relay" BY <1>16 DEF StreamFails
<1>17. CASE Slurps /\ mode # "relay"
  <2>1. PICK result \in ReadResults : Takes(result[1], result[2]) /\ readErr' = result[2]
    BY <1>17 DEF Slurps, Takes, Closed
  <2>2. readErr' = "eof" => result[1] = 0 /\ wire = <<>> /\ wireEnd = "eof"
    BY <2>1, ReadSays
  <2>3. wire = <<>> /\ result[1] = 0 => wire' = <<>>
    BY <2>1 DEF Takes
  <2>4. QED BY <1>17, <2>1, <2>2, <2>3 DEF Slurps, Takes, Closed
<1>18. CASE Slurped /\ mode # "relay" BY <1>18 DEF Slurped
<1>19. CASE Finishes /\ mode # "relay" BY <1>19 DEF Finishes
<1>20. CASE Final /\ mode # "relay" BY <1>20 DEF Final
<1>21. CASE WriteFails /\ mode # "relay" BY <1>21 DEF WriteFails, Breaks, RecordAbort
<1>22. CASE Aborts /\ mode # "relay" BY <1>22 DEF Aborts, RecordAbort
<1>23. CASE Delivers /\ mode # "relay" BY <1>23 DEF Delivers
<1>24. CASE Writes /\ mode # "relay" BY <1>24 DEF Writes
<1>25. CASE Relays /\ mode = "relay" /\ UNCHANGED assembly BY <1>25 DEF Relays
<1>26. CASE Copies /\ mode = "relay" /\ UNCHANGED assembly
  <2>1. PICK result \in ReadResults : Takes(result[1], result[2]) /\ readErr' = result[2]
    BY <1>26 DEF Copies, Takes, Closed
  <2>2. readErr' = "eof" => result[1] = 0 /\ wire = <<>> /\ wireEnd = "eof"
    BY <2>1, ReadSays
  <2>3. wire = <<>> /\ result[1] = 0 => wire' = <<>>
    BY <2>1 DEF Takes
  <2>4. QED BY <1>26, <2>1, <2>2, <2>3 DEF Copies, Takes, Closed
<1>27. CASE Feeds /\ mode = "relay" /\ UNCHANGED assembly BY <1>27 DEF Feeds, EventReceived
<1>28. CASE RelayBreaks /\ mode = "relay" /\ UNCHANGED assembly
  BY <1>28 DEF RelayBreaks, Breaks, RecordAbort
<1>29. CASE RelayEnds /\ mode = "relay" /\ UNCHANGED assembly BY <1>29 DEF RelayEnds
<1>30. CASE RelayFails /\ mode = "relay" /\ UNCHANGED assembly BY <1>30 DEF RelayFails, RecordAbort
<1>31. CASE Relayed /\ mode = "relay" /\ UNCHANGED assembly BY <1>31 DEF Relayed
<1>32. CASE TimerRuns /\ UNCHANGED assembly BY <1>32 DEF TimerRuns, Timer
<1>33. CASE Tick /\ UNCHANGED assembly BY <1>33 DEF Tick
<1>34. CASE TotalDeadline /\ UNCHANGED assembly BY <1>34 DEF TotalDeadline, DeadlinePasses
<1>35. CASE ClientGoes /\ UNCHANGED assembly BY <1>35 DEF ClientGoes
<1>36. CASE Disconnected /\ UNCHANGED assembly BY <1>36 DEF Disconnected, RequestCancelled
<1>37. CASE ShutDown /\ UNCHANGED assembly BY <1>37 DEF ShutDown, RequestCancelled
<1>38. ASSUME NEW item \in Kinds, Sends(item), UNCHANGED assembly
     PROVE  EndInv'
  BY <1>38 DEF Sends, UpstreamSends
<1>39. ASSUME NEW how \in {"eof", "reset"}, Ends(how), UNCHANGED assembly
     PROVE  EndInv'
  BY <1>39 DEF Ends, UpstreamEnds
<1>40. CASE UNCHANGED vars BY <1>40
<1>41. QED
  BY StepCases, <1>1, <1>2, <1>3, <1>4, <1>5, <1>6, <1>7, <1>8, <1>9, <1>10, <1>11, <1>12, <1>13,
     <1>14, <1>15, <1>16, <1>17, <1>18, <1>19, <1>20, <1>21, <1>22, <1>23, <1>24, <1>25, <1>26,
     <1>27, <1>28, <1>29, <1>30, <1>31, <1>32, <1>33, <1>34, <1>35, <1>36, <1>37, <1>38, <1>39,
     <1>40

\* What is copied is what arrived.
LEMMA RelayStep == ASSUME TypeInv, ControlInv, RelayInv, [Next]_vars PROVE RelayInv'
<1> USE DEF TypeInv, ItemsOK, CountsOK, ControlInv, VerdictInv, RelayInv
<1>1. CASE Send /\ CallOnly BY <1>1 DEF Send
<1>2. CASE Answered /\ CallOnly BY <1>2 DEF Answered
<1>3. CASE RetriesLater /\ CallOnly BY <1>3 DEF RetriesLater
<1>4. CASE BackoffEnds /\ CallOnly BY <1>4 DEF BackoffEnds
<1>5. CASE BackoffCancelled /\ CallOnly BY <1>5 DEF BackoffCancelled
<1>6. CASE CallFails /\ CallOnly BY <1>6 DEF CallFails
<1>7. CASE CallAnswers /\ CallOnly BY <1>7 DEF CallAnswers
<1>8. CASE Refused /\ UNCHANGED assembly BY <1>8 DEF Refused
<1>9. CASE TellsStatus /\ UNCHANGED assembly BY <1>9 DEF TellsStatus
<1>10. CASE Leaves /\ UNCHANGED assembly BY <1>10 DEF Leaves, Closed
<1>11. CASE Posted /\ mode # "relay" BY <1>11 DEF Posted
<1>12. CASE Reads /\ mode # "relay" BY <1>12 DEF Reads, Takes, Closed
<1>13. CASE SkipsBytes /\ mode # "relay" BY <1>13 DEF SkipsBytes
<1>14. CASE TakesEvent /\ mode # "relay" BY <1>14 DEF TakesEvent, EventReceived
<1>15. CASE StreamEnds /\ mode # "relay" BY <1>15 DEF StreamEnds
<1>16. CASE StreamFails /\ mode # "relay" BY <1>16 DEF StreamFails
<1>17. CASE Slurps /\ mode # "relay" BY <1>17 DEF Slurps, Takes, Closed
<1>18. CASE Slurped /\ mode # "relay" BY <1>18 DEF Slurped
<1>19. CASE Finishes /\ mode # "relay" BY <1>19 DEF Finishes
<1>20. CASE Final /\ mode # "relay" BY <1>20 DEF Final
<1>21. CASE WriteFails /\ mode # "relay" BY <1>21 DEF WriteFails, Breaks, RecordAbort
<1>22. CASE Aborts /\ mode # "relay" BY <1>22 DEF Aborts, RecordAbort
<1>23. CASE Delivers /\ mode # "relay" BY <1>23 DEF Delivers
<1>24. CASE Writes /\ mode # "relay" BY <1>24 DEF Writes
<1>25. CASE Relays /\ mode = "relay" /\ UNCHANGED assembly BY <1>25 DEF Relays
<1>26. CASE Copies /\ mode = "relay" /\ UNCHANGED assembly
  <2>1. PICK result \in ReadResults : Takes(result[1], result[2]) /\ buf' = SubSeq(wire, 1, result[1])
    BY <1>26 DEF Copies
  <2>2. result[1] \in 0 .. Len(wire) /\ wire' = SubSeq(wire, result[1] + 1, Len(wire))
    BY <2>1, ReadTypes DEF Takes
  <2>3. ASSUME NEW n \in 0 .. Len(wire)
        PROVE  Len(SubSeq(wire, 1, n)) = n /\ Len(SubSeq(wire, n + 1, Len(wire))) = Len(wire) - n
    BY SubSeqProperties
  <2>4. buf = <<>> /\ UNCHANGED <<received, out, mode>>
    BY <1>26 DEF Copies
  <2>5. Len(buf') = result[1] /\ Len(wire') = Len(wire) - result[1]
    BY <2>1, <2>2, <2>3
  <2>6. Len(wire) \in Nat /\ Len(buf) = 0 /\ result[1] \in Nat
    BY <2>2, <2>4
  <2>7. QED BY <2>4, <2>5, <2>6
<1>27. CASE Feeds /\ mode = "relay" /\ UNCHANGED assembly BY <1>27 DEF Feeds, EventReceived
<1>28. CASE RelayBreaks /\ mode = "relay" /\ UNCHANGED assembly
  BY <1>28 DEF RelayBreaks, Breaks, RecordAbort
<1>29. CASE RelayEnds /\ mode = "relay" /\ UNCHANGED assembly BY <1>29 DEF RelayEnds
<1>30. CASE RelayFails /\ mode = "relay" /\ UNCHANGED assembly BY <1>30 DEF RelayFails, RecordAbort
<1>31. CASE Relayed /\ mode = "relay" /\ UNCHANGED assembly BY <1>31 DEF Relayed
<1>32. CASE TimerRuns /\ UNCHANGED assembly BY <1>32 DEF TimerRuns, Timer
<1>33. CASE Tick /\ UNCHANGED assembly BY <1>33 DEF Tick
<1>34. CASE TotalDeadline /\ UNCHANGED assembly BY <1>34 DEF TotalDeadline, DeadlinePasses
<1>35. CASE ClientGoes /\ UNCHANGED assembly BY <1>35 DEF ClientGoes
<1>36. CASE Disconnected /\ UNCHANGED assembly BY <1>36 DEF Disconnected, RequestCancelled
<1>37. CASE ShutDown /\ UNCHANGED assembly BY <1>37 DEF ShutDown, RequestCancelled
<1>38. ASSUME NEW item \in Kinds, Sends(item), UNCHANGED assembly
     PROVE  RelayInv'
  <2>1. wire' = Append(wire, item) /\ UNCHANGED <<buf, out, mode>>
    BY <1>38 DEF Sends, UpstreamSends
  <2>2. Len(wire') = Len(wire) + 1
    BY <2>1, AppendProperties
  <2>3. mode = "relay" => received' = received + 1
    BY <1>38 DEF Sends, Counts
  <2>4. QED BY <2>1, <2>2, <2>3
<1>39. ASSUME NEW how \in {"eof", "reset"}, Ends(how), UNCHANGED assembly
     PROVE  RelayInv'
  BY <1>39 DEF Ends, UpstreamEnds
<1>40. CASE UNCHANGED vars BY <1>40
<1>41. QED
  BY StepCases, <1>1, <1>2, <1>3, <1>4, <1>5, <1>6, <1>7, <1>8, <1>9, <1>10, <1>11, <1>12, <1>13,
     <1>14, <1>15, <1>16, <1>17, <1>18, <1>19, <1>20, <1>21, <1>22, <1>23, <1>24, <1>25, <1>26,
     <1>27, <1>28, <1>29, <1>30, <1>31, <1>32, <1>33, <1>34, <1>35, <1>36, <1>37, <1>38, <1>39,
     <1>40

\* Where nothing is sent, read or used, nothing changes in what is still to be used.
LEMMA RestKept == ASSUME UNCHANGED <<buf, wire>> PROVE Rest' = Rest
BY DEF Rest

\* A finish_reason is seen because one was sent.
LEMMA FinishStep == ASSUME TypeInv, FinishInv, [Next]_vars PROVE FinishInv'
<1> USE DEF FinishInv
<1>1. CASE Send /\ CallOnly BY <1>1, RestKept DEF Send
<1>2. CASE Answered /\ CallOnly BY <1>2, RestKept DEF Answered
<1>3. CASE RetriesLater /\ CallOnly BY <1>3, RestKept DEF RetriesLater
<1>4. CASE BackoffEnds /\ CallOnly BY <1>4, RestKept DEF BackoffEnds
<1>5. CASE BackoffCancelled /\ CallOnly BY <1>5, RestKept DEF BackoffCancelled
<1>6. CASE CallFails /\ CallOnly BY <1>6, RestKept DEF CallFails
<1>7. CASE CallAnswers /\ CallOnly BY <1>7, RestKept DEF CallAnswers
<1>8. CASE Refused /\ UNCHANGED assembly BY <1>8, RestKept DEF Refused
<1>9. CASE TellsStatus /\ UNCHANGED assembly BY <1>9, RestKept DEF TellsStatus
<1>10. CASE Leaves /\ UNCHANGED assembly BY <1>10, RestKept DEF Leaves, Closed
<1>11. CASE Posted /\ mode # "relay" BY <1>11, RestKept DEF Posted
<1>12. CASE Reads /\ mode # "relay"
  <2>1. Rest' = Rest BY <1>12, ReadKeepsRest
  <2>2. QED BY <1>12, <2>1 DEF Reads, Takes, Closed, Takes
<1>13. CASE SkipsBytes /\ mode # "relay"
  <2>1. Has(Rest, "finish") <=> Head(buf) = "finish" \/ Has(Rest', "finish")
    BY <1>13, RestType, TakesFirst, HasTail
  <2>2. QED BY <1>13, <2>1 DEF SkipsBytes
<1>14. CASE TakesEvent /\ mode # "relay"
  <2>1. Has(Rest, "finish") <=> Head(buf) = "finish" \/ Has(Rest', "finish")
    BY <1>14, RestType, TakesFirst, HasTail
  <2>2. QED BY <1>14, <2>1 DEF TakesEvent, EventReceived
<1>15. CASE StreamEnds /\ mode # "relay" BY <1>15, RestKept DEF StreamEnds
<1>16. CASE StreamFails /\ mode # "relay" BY <1>16, RestKept DEF StreamFails
<1>17. CASE Slurps /\ mode # "relay"
  <2>1. Rest' = Rest BY <1>17, ReadKeepsRest
  <2>2. QED BY <1>17, <2>1 DEF Slurps, Takes, Closed, Takes
<1>18. CASE Slurped /\ mode # "relay" BY <1>18, RestKept DEF Slurped
<1>19. CASE Finishes /\ mode # "relay" BY <1>19, RestKept DEF Finishes
<1>20. CASE Final /\ mode # "relay" BY <1>20, RestKept DEF Final
<1>21. CASE WriteFails /\ mode # "relay" BY <1>21, RestKept DEF WriteFails, Breaks, RecordAbort
<1>22. CASE Aborts /\ mode # "relay" BY <1>22, RestKept DEF Aborts, RecordAbort
<1>23. CASE Delivers /\ mode # "relay" BY <1>23, RestKept DEF Delivers
<1>24. CASE Writes /\ mode # "relay" BY <1>24, RestKept DEF Writes
<1>25. CASE Relays /\ mode = "relay" /\ UNCHANGED assembly BY <1>25, RestKept DEF Relays
<1>26. CASE Copies /\ mode = "relay" /\ UNCHANGED assembly
  <2> SUFFICES mode' = mode /\ mode = "relay"
    BY DEF FinishInv
  <2>1. QED BY <1>26 DEF Copies, Takes, Closed
<1>27. CASE Feeds /\ mode = "relay" /\ UNCHANGED assembly
  BY <1>27, RestKept DEF Feeds, EventReceived
<1>28. CASE RelayBreaks /\ mode = "relay" /\ UNCHANGED assembly
  BY <1>28, RestKept DEF RelayBreaks, Breaks, RecordAbort
<1>29. CASE RelayEnds /\ mode = "relay" /\ UNCHANGED assembly BY <1>29, RestKept DEF RelayEnds
<1>30. CASE RelayFails /\ mode = "relay" /\ UNCHANGED assembly
  BY <1>30, RestKept DEF RelayFails, RecordAbort
<1>31. CASE Relayed /\ mode = "relay" /\ UNCHANGED assembly
  <2> SUFFICES mode' = mode /\ mode = "relay"
    BY DEF FinishInv
  <2>1. QED BY <1>31 DEF Relayed
<1>32. CASE TimerRuns /\ UNCHANGED assembly BY <1>32, RestKept DEF TimerRuns, Timer
<1>33. CASE Tick /\ UNCHANGED assembly BY <1>33, RestKept DEF Tick
<1>34. CASE TotalDeadline /\ UNCHANGED assembly BY <1>34, RestKept DEF TotalDeadline, DeadlinePasses
<1>35. CASE ClientGoes /\ UNCHANGED assembly BY <1>35, RestKept DEF ClientGoes
<1>36. CASE Disconnected /\ UNCHANGED assembly BY <1>36, RestKept DEF Disconnected, RequestCancelled
<1>37. CASE ShutDown /\ UNCHANGED assembly BY <1>37, RestKept DEF ShutDown, RequestCancelled
<1>38. ASSUME NEW item \in Kinds, Sends(item), UNCHANGED assembly
     PROVE  FinishInv'
  <2>1. Has(Append(Rest, item), "finish") <=> Has(Rest, "finish") \/ item = "finish"
    BY RestType, HasAppend
  <2>2. Has(Rest', "finish") <=> Has(Rest, "finish") \/ item = "finish"
    BY <1>38, <2>1, SendsLast
  <2>3. QED BY <1>38, <2>2 DEF Sends, UpstreamSends
<1>39. ASSUME NEW how \in {"eof", "reset"}, Ends(how), UNCHANGED assembly
     PROVE  FinishInv'
  BY <1>39, RestKept DEF Ends, UpstreamEnds
<1>40. CASE UNCHANGED vars BY <1>40, RestKept
<1>41. QED
  BY StepCases, <1>1, <1>2, <1>3, <1>4, <1>5, <1>6, <1>7, <1>8, <1>9, <1>10, <1>11, <1>12, <1>13,
     <1>14, <1>15, <1>16, <1>17, <1>18, <1>19, <1>20, <1>21, <1>22, <1>23, <1>24, <1>25, <1>26,
     <1>27, <1>28, <1>29, <1>30, <1>31, <1>32, <1>33, <1>34, <1>35, <1>36, <1>37, <1>38, <1>39,
     <1>40

\* What taking, sending and using up the items does to what is owed.
LEMMA OwedTaken ==
    ASSUME TypeInv, SkipsBytes \/ TakesEvent
    PROVE  /\ Head(buf) # "done" => Owed = Owed' + (IF IsOutput(Head(buf)) THEN 1 ELSE 0)
           /\ Head(buf) = "done" => Owed = 0
           /\ Has(Rest, "done") <=> Head(buf) = "done" \/ Has(Rest', "done")
           /\ Owed' \in Nat
<1>1. Rest \in Seq(Kinds) /\ Rest # <<>> /\ Rest[1] = Head(buf) /\ Rest' = Tail(Rest)
  BY RestType, TakesFirst
<1>2. Owed' = Cardinality(Pending(Tail(Rest)))
  BY <1>1 DEF Owed
<1>3. Has(Rest, "done") <=> Rest[1] = "done" \/ Has(Tail(Rest), "done")
  BY <1>1, HasTail
<1>4. Rest[1] # "done" => Owed = Owed' + (IF IsOutput(Rest[1]) THEN 1 ELSE 0)
  BY <1>1, <1>2, PendingTail DEF Owed
<1>5. Rest[1] = "done" => Owed = 0
  BY <1>1, PendingEdges DEF Owed
<1>6. Tail(Rest) \in Seq(Kinds) BY <1>1, HeadTailProperties
<1>7. Owed' \in Nat BY <1>2, <1>6, PendingFinite
<1>8. QED BY <1>1, <1>3, <1>4, <1>5, <1>7

LEMMA OwedSent ==
    ASSUME TypeInv, NEW item \in Kinds, Sends(item)
    PROVE  /\ Owed' = Owed + (IF IsOutput(item) /\ ~Has(Rest, "done") THEN 1 ELSE 0)
           /\ Has(Rest', "done") <=> Has(Rest, "done") \/ item = "done"
<1>1. Rest \in Seq(Kinds) /\ Rest' = Append(Rest, item)
  BY RestType, SendsLast
<1>2. Owed' = Cardinality(Pending(Append(Rest, item)))
  BY <1>1 DEF Owed
<1>3. Has(Append(Rest, item), "done") <=> Has(Rest, "done") \/ item = "done"
  BY <1>1, HasAppend
<1>4. Cardinality(Pending(Append(Rest, item)))
        = Owed + (IF IsOutput(item) /\ ~Has(Rest, "done") THEN 1 ELSE 0)
  BY <1>1, PendingAppend DEF Owed
<1>5. QED BY <1>1, <1>2, <1>3, <1>4

LEMMA OwedCounts == ASSUME TypeInv PROVE Owed \in Nat
BY RestType, PendingFinite DEF Owed

\* While events are taken none is lost, and none made up.
LEMMA ReadingStep == ASSUME TypeInv, ControlInv, ReadingInv, [Next]_vars PROVE ReadingInv'
<1> USE DEF TypeInv, WordsOK, CountsOK, ReadingInv, Reading, Calling, InFlight
<1>1. CASE Send /\ CallOnly
  <2>1. UNCHANGED <<buf, wire>> BY <1>1 DEF Send
  <2>2. Owed' = Owed /\ Rest' = Rest BY <2>1, RestKept DEF Owed
  <2>3. QED BY <1>1, <2>2 DEF Send
<1>2. CASE Answered /\ CallOnly
  <2>1. UNCHANGED <<buf, wire>> BY <1>2 DEF Answered
  <2>2. Owed' = Owed /\ Rest' = Rest BY <2>1, RestKept DEF Owed
  <2>3. QED BY <1>2, <2>2 DEF Answered
<1>3. CASE RetriesLater /\ CallOnly
  <2>1. UNCHANGED <<buf, wire>> BY <1>3 DEF RetriesLater
  <2>2. Owed' = Owed /\ Rest' = Rest BY <2>1, RestKept DEF Owed
  <2>3. QED BY <1>3, <2>2 DEF RetriesLater
<1>4. CASE BackoffEnds /\ CallOnly
  <2>1. UNCHANGED <<buf, wire>> BY <1>4 DEF BackoffEnds
  <2>2. Owed' = Owed /\ Rest' = Rest BY <2>1, RestKept DEF Owed
  <2>3. QED BY <1>4, <2>2 DEF BackoffEnds
<1>5. CASE BackoffCancelled /\ CallOnly
  <2>1. UNCHANGED <<buf, wire>> BY <1>5 DEF BackoffCancelled
  <2>2. Owed' = Owed /\ Rest' = Rest BY <2>1, RestKept DEF Owed
  <2>3. QED BY <1>5, <2>2 DEF BackoffCancelled
<1>6. CASE CallFails /\ CallOnly
  <2>1. UNCHANGED <<buf, wire>> BY <1>6 DEF CallFails
  <2>2. Owed' = Owed /\ Rest' = Rest BY <2>1, RestKept DEF Owed
  <2>3. QED BY <1>6, <2>2 DEF CallFails
<1>7. CASE CallAnswers /\ CallOnly
  <2>1. UNCHANGED <<buf, wire>> BY <1>7 DEF CallAnswers
  <2>2. Owed' = Owed /\ Rest' = Rest BY <2>1, RestKept DEF Owed
  <2>3. QED BY <1>7, <2>2 DEF CallAnswers
<1>8. CASE Refused /\ UNCHANGED assembly
  <2>1. ~Reading' BY <1>8 DEF Refused
  <2>2. QED BY <2>1
<1>9. CASE TellsStatus /\ UNCHANGED assembly
  <2>1. ~Reading' BY <1>9 DEF TellsStatus
  <2>2. QED BY <2>1
<1>10. CASE Leaves /\ UNCHANGED assembly
  <2>1. ~Reading' BY <1>10 DEF Leaves, Closed
  <2>2. QED BY <2>1
<1>11. CASE Posted /\ mode # "relay"
  <2>1. UNCHANGED <<buf, wire>> BY <1>11 DEF Posted
  <2>2. Owed' = Owed /\ Rest' = Rest BY <2>1, RestKept DEF Owed
  <2>3. QED BY <1>11, <2>2 DEF Posted
<1>12. CASE Reads /\ mode # "relay"
  <2>1. Rest' = Rest BY <1>12, ReadKeepsRest
  <2>2. Owed' = Owed BY <2>1 DEF Owed
  <2>3. UNCHANGED <<pc, mode, writing, received, out, held, marks>>
    BY <1>12 DEF Reads, Takes, Closed
  <2>4. QED BY <2>1, <2>2, <2>3
<1>13. CASE SkipsBytes /\ mode # "relay"
  <2>1. Owed' = Owed /\ (Has(Rest', "done") <=> Has(Rest, "done"))
    BY <1>13, OwedTaken, OwedCounts DEF SkipsBytes, IsOutput
  <2>2. UNCHANGED <<pc, mode, writing, received, out, held, marks>>
    BY <1>13 DEF SkipsBytes
  <2>3. QED BY <2>1, <2>2
<1>14. CASE TakesEvent /\ mode # "relay"
  <2> SUFFICES ASSUME Reading' PROVE ReadingInv'
    OBVIOUS
  <2>1. pc = "next" /\ UNCHANGED <<mode, received, out, marks>>
    BY <1>14 DEF TakesEvent
  <2>2. Head(buf) \notin {"done", "bad", "error", "over"}
    BY <1>14 DEF TakesEvent, AfterEvent
  <2>3. /\ Owed = Owed' + (IF IsOutput(Head(buf)) THEN 1 ELSE 0)
        /\ Has(Rest', "done") <=> Has(Rest, "done")
    BY <1>14, <2>2, OwedTaken
  <2>4. received = out + held + Owed
    BY <2>1, <1>14
  <2>5. held' + InFlight' = held + (IF IsOutput(Head(buf)) THEN 1 ELSE 0)
    <3>1. mode \in {"stream", "aggregate"} BY <2>1 DEF ControlInv, PlaceInv
    <3>2. CASE Head(buf) = "text" /\ mode = "stream"
      BY <1>14, <3>2 DEF TakesEvent, AfterEvent, IsOutput
    <3>3. CASE Head(buf) = "held" \/ (Head(buf) = "text" /\ mode = "aggregate")
      BY <1>14, <3>3 DEF TakesEvent, AfterEvent, IsOutput
    <3>4. CASE ~IsOutput(Head(buf))
      BY <1>14, <3>4 DEF TakesEvent, AfterEvent, IsOutput
    <3>5. QED BY <3>1, <3>2, <3>3, <3>4 DEF IsOutput
  <2>6. held' \in Nat /\ InFlight' \in 0 .. 1 /\ Owed' \in Nat
    BY <1>14, OwedTaken DEF TakesEvent
  <2>7. received = out + held' + InFlight' + Owed'
    <3> DEFINE one == IF IsOutput(Head(buf)) THEN 1 ELSE 0
    <3>1. one \in Nat /\ Owed = Owed' + one /\ held' + InFlight' = held + one
      BY <2>3, <2>5
    <3> HIDE DEF one, InFlight
    <3>2. received = out + (held + one) + Owed' BY <2>4, <2>6, <3>1
    <3>3. received = out + (held' + InFlight') + Owed' BY <3>1, <3>2, Zenon
    <3>4. out \in Int /\ held' \in Int /\ InFlight' \in Int /\ Owed' \in Int
      BY <2>6
    <3>5. QED BY <3>3, <3>4
  <2>8. QED BY <2>1, <2>3, <2>7
<1>15. CASE StreamEnds /\ mode # "relay"
  <2>1. ~Reading' BY <1>15 DEF StreamEnds
  <2>2. QED BY <2>1
<1>16. CASE StreamFails /\ mode # "relay"
  <2>1. ~Reading' BY <1>16 DEF StreamFails
  <2>2. QED BY <2>1
<1>17. CASE Slurps /\ mode # "relay"
  <2>1. Rest' = Rest BY <1>17, ReadKeepsRest
  <2>2. Owed' = Owed BY <2>1 DEF Owed
  <2>3. UNCHANGED <<pc, mode, writing, received, out, held, marks>>
    BY <1>17 DEF Slurps, Takes, Closed
  <2>4. QED BY <2>1, <2>2, <2>3
<1>18. CASE Slurped /\ mode # "relay"
  <2>1. ~Reading' BY <1>18 DEF Slurped
  <2>2. QED BY <2>1
<1>19. CASE Finishes /\ mode # "relay"
  <2>1. ~Reading' BY <1>19 DEF Finishes
  <2>2. QED BY <2>1
<1>20. CASE Final /\ mode # "relay"
  <2>1. ~Reading' BY <1>20 DEF Final
  <2>2. QED BY <2>1
<1>21. CASE WriteFails /\ mode # "relay"
  <2>1. ~Reading' BY <1>21 DEF WriteFails, Breaks, RecordAbort
  <2>2. QED BY <2>1
<1>22. CASE Aborts /\ mode # "relay"
  <2>1. ~Reading' BY <1>22 DEF Aborts, RecordAbort
  <2>2. QED BY <2>1
<1>23. CASE Delivers /\ mode # "relay"
  <2>1. ~Reading' BY <1>23 DEF Delivers
  <2>2. QED BY <2>1
<1>24. CASE Writes /\ mode # "relay"
  <2> SUFFICES ASSUME Reading' PROVE ReadingInv'
    OBVIOUS
  <2>1. Owed' = Owed /\ Rest' = Rest BY <1>24, RestKept DEF Writes, Owed
  <2>2. pc = "write" /\ writing = "text" /\ pc' = "next" /\ out' = out + 1
    BY <1>24 DEF Writes
  <2>3. UNCHANGED <<mode, received, held, marks>> BY <1>24, <2>2 DEF Writes
  <2>4. received = out + held + 1 + Owed BY <1>24, <2>2
  <2>5. received = (out + 1) + held + 0 + Owed BY <2>4, OwedCounts
  <2>6. QED BY <2>1, <2>2, <2>3, <2>5
<1>25. CASE Relays /\ mode = "relay" /\ UNCHANGED assembly
  <2> SUFFICES mode' = mode /\ mode = "relay"
    BY DEF ReadingInv
  <2>1. QED BY <1>25 DEF Relays
<1>26. CASE Copies /\ mode = "relay" /\ UNCHANGED assembly
  <2> SUFFICES mode' = mode /\ mode = "relay"
    BY DEF ReadingInv
  <2>1. QED BY <1>26 DEF Copies, Takes, Closed
<1>27. CASE Feeds /\ mode = "relay" /\ UNCHANGED assembly
  <2> SUFFICES mode' = mode /\ mode = "relay"
    BY DEF ReadingInv
  <2>1. QED BY <1>27 DEF Feeds, EventReceived
<1>28. CASE RelayBreaks /\ mode = "relay" /\ UNCHANGED assembly
  <2> SUFFICES mode' = mode /\ mode = "relay"
    BY DEF ReadingInv
  <2>1. QED BY <1>28 DEF RelayBreaks, Breaks, RecordAbort
<1>29. CASE RelayEnds /\ mode = "relay" /\ UNCHANGED assembly
  <2> SUFFICES mode' = mode /\ mode = "relay"
    BY DEF ReadingInv
  <2>1. QED BY <1>29 DEF RelayEnds
<1>30. CASE RelayFails /\ mode = "relay" /\ UNCHANGED assembly
  <2> SUFFICES mode' = mode /\ mode = "relay"
    BY DEF ReadingInv
  <2>1. QED BY <1>30 DEF RelayFails, RecordAbort
<1>31. CASE Relayed /\ mode = "relay" /\ UNCHANGED assembly
  <2> SUFFICES mode' = mode /\ mode = "relay"
    BY DEF ReadingInv
  <2>1. QED BY <1>31 DEF Relayed
<1>32. CASE TimerRuns /\ UNCHANGED assembly
  <2>1. UNCHANGED <<buf, wire>> BY <1>32 DEF TimerRuns, Timer
  <2>2. Owed' = Owed /\ Rest' = Rest BY <2>1, RestKept DEF Owed
  <2>3. QED BY <1>32, <2>2 DEF TimerRuns, Timer
<1>33. CASE Tick /\ UNCHANGED assembly
  <2>1. UNCHANGED <<buf, wire>> BY <1>33 DEF Tick
  <2>2. Owed' = Owed /\ Rest' = Rest BY <2>1, RestKept DEF Owed
  <2>3. QED BY <1>33, <2>2 DEF Tick
<1>34. CASE TotalDeadline /\ UNCHANGED assembly
  <2>1. UNCHANGED <<buf, wire>> BY <1>34 DEF TotalDeadline, DeadlinePasses
  <2>2. Owed' = Owed /\ Rest' = Rest BY <2>1, RestKept DEF Owed
  <2>3. QED BY <1>34, <2>2 DEF TotalDeadline, DeadlinePasses
<1>35. CASE ClientGoes /\ UNCHANGED assembly
  <2>1. UNCHANGED <<buf, wire>> BY <1>35 DEF ClientGoes
  <2>2. Owed' = Owed /\ Rest' = Rest BY <2>1, RestKept DEF Owed
  <2>3. QED BY <1>35, <2>2 DEF ClientGoes
<1>36. CASE Disconnected /\ UNCHANGED assembly
  <2>1. UNCHANGED <<buf, wire>> BY <1>36 DEF Disconnected, RequestCancelled
  <2>2. Owed' = Owed /\ Rest' = Rest BY <2>1, RestKept DEF Owed
  <2>3. QED BY <1>36, <2>2 DEF Disconnected, RequestCancelled
<1>37. CASE ShutDown /\ UNCHANGED assembly
  <2>1. UNCHANGED <<buf, wire>> BY <1>37 DEF ShutDown, RequestCancelled
  <2>2. Owed' = Owed /\ Rest' = Rest BY <2>1, RestKept DEF Owed
  <2>3. QED BY <1>37, <2>2 DEF ShutDown, RequestCancelled
<1>38. ASSUME NEW item \in Kinds, Sends(item), UNCHANGED assembly
     PROVE  ReadingInv'
  <2> SUFFICES ASSUME mode # "relay", Reading PROVE ReadingInv'
    BY <1>38 DEF Sends, UpstreamSends
  <2>1. UNCHANGED <<pc, mode, writing, out, held>> /\ marks' = marks \cup ({item} \cap {"finish", "done"})
    BY <1>38 DEF Sends, UpstreamSends
  <2>2. /\ Owed' = Owed + (IF IsOutput(item) /\ ~Has(Rest, "done") THEN 1 ELSE 0)
        /\ Has(Rest', "done") <=> Has(Rest, "done") \/ item = "done"
    BY <1>38, OwedSent
  <2>3. received' = received + (IF IsOutput(item) /\ ~Has(Rest, "done") THEN 1 ELSE 0)
    BY <1>38 DEF Sends, Counts
  <2>4. received' = out + held + InFlight + Owed'
    BY <2>2, <2>3, OwedCounts
  <2>5. QED BY <2>1, <2>2, <2>4
<1>39. ASSUME NEW how \in {"eof", "reset"}, Ends(how), UNCHANGED assembly
     PROVE  ReadingInv'
  <2>1. UNCHANGED <<buf, wire>> BY <1>39 DEF Ends, UpstreamEnds
  <2>2. Owed' = Owed /\ Rest' = Rest BY <2>1, RestKept DEF Owed
  <2>3. QED BY <1>39, <2>2 DEF Ends, UpstreamEnds
<1>40. CASE UNCHANGED vars
  <2>1. UNCHANGED <<buf, wire>> BY <1>40
  <2>2. Owed' = Owed /\ Rest' = Rest BY <2>1, RestKept DEF Owed
  <2>3. QED BY <1>40, <2>2
<1>41. QED
  BY StepCases, <1>1, <1>2, <1>3, <1>4, <1>5, <1>6, <1>7, <1>8, <1>9, <1>10, <1>11, <1>12, <1>13,
     <1>14, <1>15, <1>16, <1>17, <1>18, <1>19, <1>20, <1>21, <1>22, <1>23, <1>24, <1>25, <1>26,
     <1>27, <1>28, <1>29, <1>30, <1>31, <1>32, <1>33, <1>34, <1>35, <1>36, <1>37, <1>38, <1>39,
     <1>40

\* An answer is put together from all that was owed.
LEMMA WrappingStep == ASSUME TypeInv, ControlInv, EndInv, FinishInv, ReadingInv, WrappingInv, [Next]_vars PROVE WrappingInv'
<1> USE DEF TypeInv, WordsOK, CountsOK, ControlInv, PlaceInv, Decoded, Blank, Calling, WrappingInv,
            Wrapping, Finished
<1>1. CASE Send /\ CallOnly
  <2>1. ~Wrapping' BY <1>1 DEF Send
  <2>2. QED BY <2>1
<1>2. CASE Answered /\ CallOnly
  <2>1. ~Wrapping' BY <1>2 DEF Answered
  <2>2. QED BY <2>1
<1>3. CASE RetriesLater /\ CallOnly
  <2>1. ~Wrapping' BY <1>3 DEF RetriesLater
  <2>2. QED BY <2>1
<1>4. CASE BackoffEnds /\ CallOnly
  <2>1. ~Wrapping' BY <1>4 DEF BackoffEnds
  <2>2. QED BY <2>1
<1>5. CASE BackoffCancelled /\ CallOnly
  <2>1. ~Wrapping' BY <1>5 DEF BackoffCancelled
  <2>2. QED BY <2>1
<1>6. CASE CallFails /\ CallOnly
  <2>1. ~Wrapping' BY <1>6 DEF CallFails
  <2>2. QED BY <2>1
<1>7. CASE CallAnswers /\ CallOnly
  <2>1. ~Wrapping' BY <1>7 DEF CallAnswers
  <2>2. QED BY <2>1
<1>8. CASE Refused /\ UNCHANGED assembly
  <2>1. ~Wrapping' BY <1>8 DEF Refused
  <2>2. QED BY <2>1
<1>9. CASE TellsStatus /\ UNCHANGED assembly
  <2>1. ~Wrapping' BY <1>9 DEF TellsStatus
  <2>2. QED BY <2>1
<1>10. CASE Leaves /\ UNCHANGED assembly
  <2>1. ~Wrapping' BY <1>10 DEF Leaves, Closed
  <2>2. QED BY <2>1
<1>11. CASE Posted /\ mode # "relay"
  <2>1. ~Wrapping' BY <1>11 DEF Posted
  <2>2. QED BY <2>1
<1>12. CASE Reads /\ mode # "relay"
  <2>1. ~Wrapping' BY <1>12 DEF Reads, Takes, Closed
  <2>2. QED BY <2>1
<1>13. CASE SkipsBytes /\ mode # "relay"
  <2>1. ~Wrapping' BY <1>13 DEF SkipsBytes
  <2>2. QED BY <2>1
<1>14. CASE TakesEvent /\ mode # "relay"
  <2> SUFFICES ASSUME Wrapping' PROVE WrappingInv'
    OBVIOUS
  <2>1. pc = "next" /\ pc' = "finishing" /\ Head(buf) = "done"
    BY <1>14 DEF TakesEvent, AfterEvent
  <2>2. mode \in {"stream", "aggregate"} /\ UNCHANGED <<mode, received, out, held, marks, wireEnd>>
    BY <1>14, <2>1 DEF TakesEvent
  <2>3. Owed = 0 /\ Has(Rest, "done")
    BY <1>14, <2>1, OwedTaken
  <2>4. received = out + held /\ "done" \in marks
    BY <2>1, <2>2, <2>3 DEF ReadingInv, Reading, InFlight
  <2>5. QED BY <2>1, <2>2, <2>4
<1>15. CASE StreamEnds /\ mode # "relay"
  <2> SUFFICES ASSUME Wrapping' PROVE WrappingInv'
    OBVIOUS
  <2>1. pc = "next" /\ pc' = "finishing" /\ finish /\ buf = <<>> /\ readErr = "eof"
    BY <1>15 DEF StreamEnds
  <2>2. mode \in {"stream", "aggregate"} /\ UNCHANGED <<mode, received, out, held, marks, wireEnd>>
    BY <1>15, <2>1 DEF StreamEnds
  <2>3. Rest = <<>> /\ wireEnd = "eof" /\ {"finish", "eof"} \subseteq marks
    BY <2>1, <2>2, ConcatEmptySeq DEF EndInv, FinishInv, Rest, ItemsOK
  <2>4. Owed = 0
    BY <2>3, RestType, PendingEdges DEF Owed
  <2>5. received = out + held
    BY <2>1, <2>2, <2>4 DEF ReadingInv, Reading, InFlight
  <2>6. QED BY <2>1, <2>2, <2>3, <2>5
<1>16. CASE StreamFails /\ mode # "relay"
  <2>1. ~Wrapping' BY <1>16 DEF StreamFails
  <2>2. QED BY <2>1
<1>17. CASE Slurps /\ mode # "relay"
  <2>1. ~Wrapping' BY <1>17 DEF Slurps, Takes, Closed
  <2>2. QED BY <2>1
<1>18. CASE Slurped /\ mode # "relay"
  <2> SUFFICES ASSUME Wrapping' PROVE WrappingInv'
    OBVIOUS
  <2>1. pc = "slurp" /\ pc' = "finishing" /\ ~Refusal /\ Parses /\ readErr = "eof"
    BY <1>18 DEF Slurped, Parses, Wrapping
  <2>2. mode = "json" /\ out = 0 /\ held = 0
    BY <2>1
  <2>3. UNCHANGED <<mode, received, out, marks, wireEnd, writing>> /\ held' = Outputs(buf)
    BY <1>18, <2>1 DEF Slurped
  <2>4. wire = <<>> /\ wireEnd = "eof" /\ "eof" \in marks
    BY <2>1 DEF EndInv
  <2>5. Rest = buf
    BY <2>4, ConcatEmptySeq DEF Rest, ItemsOK
  <2>6. ~Has(Rest, "done")
    BY <2>1, <2>5 DEF Parses, Has, ItemsOK, IsOutput
  <2>7. Owed = Outputs(buf)
    BY <2>5, <2>6, RestType, PendingEdges DEF Owed
  <2>8. received = 0 + 0 + 0 + Owed /\ Owed \in Nat
    BY <2>1, <2>2, OwedCounts DEF ReadingInv, Reading, InFlight
  <2>9. received' = out' + held'
    BY <2>2, <2>3, <2>7, <2>8
  <2>10. QED BY <2>1, <2>2, <2>3, <2>4, <2>9
<1>19. CASE Finishes /\ mode # "relay" BY <1>19 DEF Finishes
<1>20. CASE Final /\ mode # "relay" BY <1>20 DEF Final
<1>21. CASE WriteFails /\ mode # "relay"
  <2>1. ~Wrapping' BY <1>21 DEF WriteFails, Breaks, RecordAbort
  <2>2. QED BY <2>1
<1>22. CASE Aborts /\ mode # "relay"
  <2>1. ~Wrapping' BY <1>22 DEF Aborts, RecordAbort
  <2>2. QED BY <2>1
<1>23. CASE Delivers /\ mode # "relay"
  <2>1. ~Wrapping' BY <1>23 DEF Delivers
  <2>2. QED BY <2>1
<1>24. CASE Writes /\ mode # "relay"
  <2> SUFFICES ASSUME Wrapping' PROVE WrappingInv'
    OBVIOUS
  <2>1. pc = "write" /\ writing = "held" /\ pc' = "finishing" /\ out' = out + held /\ held' = 0
    BY <1>24 DEF Writes
  <2>2. Wrapping /\ UNCHANGED <<mode, received, marks, wireEnd, writing>>
    BY <1>24, <2>1 DEF Writes
  <2>3. QED BY <2>1, <2>2
<1>25. CASE Relays /\ mode = "relay" /\ UNCHANGED assembly
  <2> SUFFICES mode' = mode /\ mode = "relay"
    BY DEF WrappingInv
  <2>1. QED BY <1>25 DEF Relays
<1>26. CASE Copies /\ mode = "relay" /\ UNCHANGED assembly
  <2> SUFFICES mode' = mode /\ mode = "relay"
    BY DEF WrappingInv
  <2>1. QED BY <1>26 DEF Copies, Takes, Closed
<1>27. CASE Feeds /\ mode = "relay" /\ UNCHANGED assembly
  <2> SUFFICES mode' = mode /\ mode = "relay"
    BY DEF WrappingInv
  <2>1. QED BY <1>27 DEF Feeds, EventReceived
<1>28. CASE RelayBreaks /\ mode = "relay" /\ UNCHANGED assembly
  <2> SUFFICES mode' = mode /\ mode = "relay"
    BY DEF WrappingInv
  <2>1. QED BY <1>28 DEF RelayBreaks, Breaks, RecordAbort
<1>29. CASE RelayEnds /\ mode = "relay" /\ UNCHANGED assembly
  <2> SUFFICES mode' = mode /\ mode = "relay"
    BY DEF WrappingInv
  <2>1. QED BY <1>29 DEF RelayEnds
<1>30. CASE RelayFails /\ mode = "relay" /\ UNCHANGED assembly
  <2> SUFFICES mode' = mode /\ mode = "relay"
    BY DEF WrappingInv
  <2>1. QED BY <1>30 DEF RelayFails, RecordAbort
<1>31. CASE Relayed /\ mode = "relay" /\ UNCHANGED assembly
  <2> SUFFICES mode' = mode /\ mode = "relay"
    BY DEF WrappingInv
  <2>1. QED BY <1>31 DEF Relayed
<1>32. CASE TimerRuns /\ UNCHANGED assembly BY <1>32 DEF TimerRuns, Timer
<1>33. CASE Tick /\ UNCHANGED assembly BY <1>33 DEF Tick
<1>34. CASE TotalDeadline /\ UNCHANGED assembly BY <1>34 DEF TotalDeadline, DeadlinePasses
<1>35. CASE ClientGoes /\ UNCHANGED assembly BY <1>35 DEF ClientGoes
<1>36. CASE Disconnected /\ UNCHANGED assembly BY <1>36 DEF Disconnected, RequestCancelled
<1>37. CASE ShutDown /\ UNCHANGED assembly BY <1>37 DEF ShutDown, RequestCancelled
<1>38. ASSUME NEW item \in Kinds, Sends(item), UNCHANGED assembly
     PROVE  WrappingInv'
  <2> SUFFICES ASSUME mode # "relay", Wrapping PROVE WrappingInv'
    BY <1>38 DEF Sends, UpstreamSends
  <2>1. "done" \in marks /\ marks \subseteq marks'
    BY <1>38 DEF Sends, UpstreamSends
  <2>2. UNCHANGED <<pc, mode, writing, out, held, wireEnd, received>>
    BY <1>38, <2>1 DEF Sends, UpstreamSends, Counts
  <2>3. QED BY <2>1, <2>2
<1>39. ASSUME NEW how \in {"eof", "reset"}, Ends(how), UNCHANGED assembly
     PROVE  WrappingInv'
  <2> SUFFICES ASSUME mode # "relay", Wrapping PROVE WrappingInv'
    BY <1>39 DEF Ends, UpstreamEnds
  <2>1. "done" \in marks /\ marks \subseteq marks'
    BY <1>39 DEF Ends, UpstreamEnds
  <2>2. UNCHANGED <<pc, mode, writing, out, held, received>>
    BY <1>39 DEF Ends, UpstreamEnds
  <2>3. QED BY <2>1, <2>2
<1>40. CASE UNCHANGED vars BY <1>40
<1>41. QED
  BY StepCases, <1>1, <1>2, <1>3, <1>4, <1>5, <1>6, <1>7, <1>8, <1>9, <1>10, <1>11, <1>12, <1>13,
     <1>14, <1>15, <1>16, <1>17, <1>18, <1>19, <1>20, <1>21, <1>22, <1>23, <1>24, <1>25, <1>26,
     <1>27, <1>28, <1>29, <1>30, <1>31, <1>32, <1>33, <1>34, <1>35, <1>36, <1>37, <1>38, <1>39,
     <1>40

LEMMA Account == Spec => []AccountInv
<1>1. TypeInv /\ ControlInv /\ AccountInv /\ [Next]_vars => AccountInv'
  BY EndStep, RelayStep, FinishStep, ReadingStep, WrappingStep DEF AccountInv
<1>2. QED BY Types, Control, AccountHolds, <1>1, PTL DEF Spec
----------------------------------------------------------------------------
\* While the handler is at work the answer's fate is open, and nothing is decided
\* before the last step of writing.
LEMMA Open ==
    ASSUME TypeInv, ControlInv
    PROVE  /\ pc \notin {"leave", "returned"} => Fate = "open"
           /\ pc = "leave" => Fate = IF ending = "done" THEN "whole" ELSE "open"
BY DEF ControlInv, VerdictInv, Fate

\* Each step of a handler is one the promise allows, or none it speaks of.
LEMMA PromiseStep == ASSUME TypeInv, ControlInv, AccountInv, [Next]_vars PROVE [Promise!AnswerNext]_(Promise!answerVars)
<1> USE DEF TypeInv, WordsOK, Calling, Undecided, AbortReason, AfterEvent,
            Promise!AnswerNext, Promise!answerVars
<1>1. CASE Send /\ CallOnly
  <2>1. UNCHANGED <<received, out, aborts, ending, mode, marks>> /\ pc # "returned" /\ pc' # "returned"
    BY <1>1 DEF Send
  <2>2. UNCHANGED <<Finished, Fate>> BY <2>1 DEF Finished, Fate
  <2>3. QED BY <2>1, <2>2
<1>2. CASE Answered /\ CallOnly
  <2>1. UNCHANGED <<received, out, aborts, ending, mode, marks>> /\ pc # "returned" /\ pc' # "returned"
    BY <1>2 DEF Answered
  <2>2. UNCHANGED <<Finished, Fate>> BY <2>1 DEF Finished, Fate
  <2>3. QED BY <2>1, <2>2
<1>3. CASE RetriesLater /\ CallOnly
  <2>1. UNCHANGED <<received, out, aborts, ending, mode, marks>> /\ pc # "returned" /\ pc' # "returned"
    BY <1>3 DEF RetriesLater
  <2>2. UNCHANGED <<Finished, Fate>> BY <2>1 DEF Finished, Fate
  <2>3. QED BY <2>1, <2>2
<1>4. CASE BackoffEnds /\ CallOnly
  <2>1. UNCHANGED <<received, out, aborts, ending, mode, marks>> /\ pc # "returned" /\ pc' # "returned"
    BY <1>4 DEF BackoffEnds
  <2>2. UNCHANGED <<Finished, Fate>> BY <2>1 DEF Finished, Fate
  <2>3. QED BY <2>1, <2>2
<1>5. CASE BackoffCancelled /\ CallOnly
  <2>1. UNCHANGED <<received, out, aborts, ending, mode, marks>> /\ pc # "returned" /\ pc' # "returned"
    BY <1>5 DEF BackoffCancelled
  <2>2. UNCHANGED <<Finished, Fate>> BY <2>1 DEF Finished, Fate
  <2>3. QED BY <2>1, <2>2
<1>6. CASE CallFails /\ CallOnly
  <2>1. UNCHANGED <<received, out, aborts, ending, mode, marks>> /\ pc # "returned" /\ pc' # "returned"
    BY <1>6 DEF CallFails
  <2>2. UNCHANGED <<Finished, Fate>> BY <2>1 DEF Finished, Fate
  <2>3. QED BY <2>1, <2>2
<1>7. CASE CallAnswers /\ CallOnly
  <2>1. UNCHANGED <<received, out, aborts, ending, mode, marks>> /\ pc # "returned" /\ pc' # "returned"
    BY <1>7 DEF CallAnswers
  <2>2. UNCHANGED <<Finished, Fate>> BY <2>1 DEF Finished, Fate
  <2>3. QED BY <2>1, <2>2
<1>8. CASE Refused /\ UNCHANGED assembly
  <2>1. UNCHANGED <<received, out, aborts, ending, mode, marks>> /\ pc # "returned" /\ pc' # "returned"
    BY <1>8 DEF Refused
  <2>2. UNCHANGED <<Finished, Fate>> BY <2>1 DEF Finished, Fate
  <2>3. QED BY <2>1, <2>2
<1>9. CASE TellsStatus /\ UNCHANGED assembly
  <2>1. UNCHANGED <<received, out, aborts, mode, marks>> /\ pc # "returned" /\ pc' # "returned"
    BY <1>9 DEF TellsStatus
  <2>2. ending # "done" /\ ending' # "done"
    BY <1>9 DEF TellsStatus, ControlInv, VerdictInv
  <2>3. UNCHANGED <<Finished, Fate>> BY <2>1, <2>2 DEF Finished, Fate
  <2>4. QED BY <2>1, <2>3
<1>10. CASE Leaves /\ UNCHANGED assembly
  <2>1. UNCHANGED <<received, out, aborts, aborted, ending, mode, marks>> /\ pc = "leave" /\ pc' = "returned"
    BY <1>10 DEF Leaves, Closed
  <2>2. UNCHANGED Finished BY <2>1 DEF Finished
  <2>3. CASE ending = "done"
    <3>1. UNCHANGED Fate BY <2>1, <2>3 DEF Fate
    <3>2. QED BY <2>1, <2>2, <3>1
  <2>4. CASE ending # "done"
    <3>1. Fate = "open" /\ Fate' = (IF ending = "none" THEN "dropped" ELSE "told")
      BY <2>1, <2>4 DEF Fate
    <3>2. (Obliged => aborts = 1) /\ (ending = "none" => ~Reachable)
      BY <2>1, <2>4 DEF ControlInv, VerdictInv
    <3>3. Promise!Cut BY <2>1, <2>2, <3>1, <3>2 DEF Promise!Cut
    <3>4. QED BY <3>3
  <2>5. QED BY <2>3, <2>4
<1>11. CASE Posted /\ mode # "relay"
  <2>1. UNCHANGED <<received, out, aborts, ending, mode, marks>> /\ pc # "returned" /\ pc' # "returned"
    BY <1>11 DEF Posted
  <2>2. UNCHANGED <<Finished, Fate>> BY <2>1 DEF Finished, Fate
  <2>3. QED BY <2>1, <2>2
<1>12. CASE Reads /\ mode # "relay"
  <2>1. UNCHANGED <<received, out, aborts, ending, mode, marks>> /\ pc # "returned" /\ pc' # "returned"
    BY <1>12 DEF Reads, Takes, Closed
  <2>2. UNCHANGED <<Finished, Fate>> BY <2>1 DEF Finished, Fate
  <2>3. QED BY <2>1, <2>2
<1>13. CASE SkipsBytes /\ mode # "relay"
  <2>1. UNCHANGED <<received, out, aborts, ending, mode, marks>> /\ pc # "returned" /\ pc' # "returned"
    BY <1>13 DEF SkipsBytes
  <2>2. UNCHANGED <<Finished, Fate>> BY <2>1 DEF Finished, Fate
  <2>3. QED BY <2>1, <2>2
<1>14. CASE TakesEvent /\ mode # "relay"
  <2>1. UNCHANGED <<received, out, aborts, ending, mode, marks>> /\ pc # "returned" /\ pc' # "returned"
    BY <1>14 DEF TakesEvent, EventReceived
  <2>2. UNCHANGED <<Finished, Fate>> BY <2>1 DEF Finished, Fate
  <2>3. QED BY <2>1, <2>2
<1>15. CASE StreamEnds /\ mode # "relay"
  <2>1. UNCHANGED <<received, out, aborts, ending, mode, marks>> /\ pc # "returned" /\ pc' # "returned"
    BY <1>15 DEF StreamEnds
  <2>2. UNCHANGED <<Finished, Fate>> BY <2>1 DEF Finished, Fate
  <2>3. QED BY <2>1, <2>2
<1>16. CASE StreamFails /\ mode # "relay"
  <2>1. UNCHANGED <<received, out, aborts, ending, mode, marks>> /\ pc # "returned" /\ pc' # "returned"
    BY <1>16 DEF StreamFails
  <2>2. UNCHANGED <<Finished, Fate>> BY <2>1 DEF Finished, Fate
  <2>3. QED BY <2>1, <2>2
<1>17. CASE Slurps /\ mode # "relay"
  <2>1. UNCHANGED <<received, out, aborts, ending, mode, marks>> /\ pc # "returned" /\ pc' # "returned"
    BY <1>17 DEF Slurps, Takes, Closed
  <2>2. UNCHANGED <<Finished, Fate>> BY <2>1 DEF Finished, Fate
  <2>3. QED BY <2>1, <2>2
<1>18. CASE Slurped /\ mode # "relay"
  <2>1. UNCHANGED <<received, out, aborts, ending, mode, marks>> /\ pc # "returned" /\ pc' # "returned"
    BY <1>18 DEF Slurped
  <2>2. UNCHANGED <<Finished, Fate>> BY <2>1 DEF Finished, Fate
  <2>3. QED BY <2>1, <2>2
<1>19. CASE Finishes /\ mode # "relay"
  <2>1. UNCHANGED <<received, out, aborts, ending, mode, marks>> /\ pc # "returned" /\ pc' # "returned"
    BY <1>19 DEF Finishes
  <2>2. UNCHANGED <<Finished, Fate>> BY <2>1 DEF Finished, Fate
  <2>3. QED BY <2>1, <2>2
<1>20. CASE Final /\ mode # "relay"
  <2>1. UNCHANGED <<received, out, aborts, ending, mode, marks>> /\ pc # "returned" /\ pc' # "returned"
    BY <1>20 DEF Final
  <2>2. UNCHANGED <<Finished, Fate>> BY <2>1 DEF Finished, Fate
  <2>3. QED BY <2>1, <2>2
<1>21. CASE WriteFails /\ mode # "relay"
  <2>1. UNCHANGED <<received, out, ending, mode, marks>> /\ pc \notin {"leave", "returned"} /\ pc' # "returned"
    BY <1>21 DEF WriteFails, Breaks, RecordAbort
  <2>2. UNCHANGED <<Finished, Fate>> /\ Fate = "open"
    BY <2>1, Open DEF Finished, Fate
  <2>3. UNCHANGED aborts \/ (aborts = 0 /\ aborts' = 1)
    BY <1>21 DEF WriteFails, Breaks, RecordAbort, ControlInv, VerdictInv
  <2>4. UNCHANGED aborts \/ Promise!Count
    BY <2>1, <2>2, <2>3 DEF Promise!Count
  <2>5. QED BY <2>1, <2>2, <2>4
<1>22. CASE Aborts /\ mode # "relay"
  <2>1. UNCHANGED <<received, out, ending, mode, marks>> /\ pc \notin {"leave", "returned"} /\ pc' # "returned"
    BY <1>22 DEF Aborts, RecordAbort
  <2>2. UNCHANGED <<Finished, Fate>> /\ Fate = "open"
    BY <2>1, Open DEF Finished, Fate
  <2>3. UNCHANGED aborts \/ (aborts = 0 /\ aborts' = 1)
    BY <1>22 DEF Aborts, RecordAbort, ControlInv, VerdictInv
  <2>4. UNCHANGED aborts \/ Promise!Count
    BY <2>1, <2>2, <2>3 DEF Promise!Count
  <2>5. QED BY <2>1, <2>2, <2>4
<1>23. CASE Delivers /\ mode # "relay"
  <2>1. UNCHANGED <<received, aborts, mode, marks>> /\ pc = "respond" /\ writing = "done" /\ pc' # "returned"
    BY <1>23 DEF Delivers
  <2>2. UNCHANGED Finished /\ Fate = "open" BY <2>1, Open DEF Finished
  <2>3. CASE ending' = "done" /\ out' = out + held
    <3>1. Finished /\ aborts = 0 /\ received = out + held
      BY <1>23, <2>1 DEF ControlInv, VerdictInv, AccountInv, WrappingInv, Wrapping
    <3>2. Fate' = "whole" BY <2>3 DEF Fate
    <3>3. Promise!Complete BY <2>1, <2>2, <2>3, <3>1, <3>2 DEF Promise!Complete
    <3>4. QED BY <3>3
  <2>4. CASE UNCHANGED <<ending, out>>
    <3>1. UNCHANGED Fate BY <2>1, <2>4 DEF Fate
    <3>2. QED BY <2>1, <2>2, <2>4, <3>1
  <2>5. QED BY <1>23, <2>3, <2>4 DEF Delivers
<1>24. CASE Writes /\ mode # "relay"
  <2>1. UNCHANGED <<received, aborts, mode, marks>> /\ pc = "write" /\ pc' # "returned"
    BY <1>24 DEF Writes
  <2>2. UNCHANGED Finished /\ Fate = "open" BY <2>1, Open DEF Finished
  <2>3. CASE writing \in {"text", "held"}
    <3>1. aborts = 0 /\ UNCHANGED Fate
      BY <1>24, <2>1, <2>3 DEF Writes, ControlInv, VerdictInv, Fate
    <3>2. out' \in out .. received
      <4>1. CASE writing = "text"
        <5>1. out' = out + 1 /\ received = out + held + 1 + Owed
          BY <1>24, <2>1, <4>1 DEF Writes, AccountInv, ReadingInv, Reading, InFlight
        <5>2. QED BY <5>1, OwedCounts DEF CountsOK
      <4>2. CASE writing = "held"
        <5>1. out' = out + held /\ received = out + held
          BY <1>24, <2>1, <4>2 DEF Writes, AccountInv, WrappingInv, Wrapping
        <5>2. QED BY <5>1 DEF CountsOK
      <4>3. QED BY <2>3, <4>1, <4>2
    <3>3. Promise!Show BY <2>1, <2>2, <3>1, <3>2 DEF Promise!Show
    <3>4. QED BY <3>3
  <2>4. CASE writing = "done"
    <3>1. ending' = "done" /\ out' = out
      BY <1>24, <2>4 DEF Writes
    <3>2. Finished /\ aborts = 0 /\ out = received
      BY <1>24, <2>1, <2>4 DEF ControlInv, VerdictInv, AccountInv, WrappingInv, Wrapping, CountsOK
    <3>3. Fate' = "whole" BY <3>1 DEF Fate
    <3>4. Promise!Complete BY <2>1, <2>2, <3>1, <3>2, <3>3 DEF Promise!Complete
    <3>5. QED BY <3>4
  <2>5. CASE writing = "error"
    <3>1. ending' = "error" /\ out' = out
      BY <1>24, <2>5 DEF Writes
    <3>2. UNCHANGED Fate BY <2>1, <2>2, <3>1 DEF Fate
    <3>3. QED BY <2>1, <2>2, <3>1, <3>2
  <2>6. QED BY <2>1, <2>3, <2>4, <2>5 DEF ControlInv, VerdictInv
<1>25. CASE Relays /\ mode = "relay" /\ UNCHANGED assembly
  <2>1. UNCHANGED <<received, out, aborts, ending, mode, marks>> /\ pc # "returned" /\ pc' # "returned"
    BY <1>25 DEF Relays
  <2>2. UNCHANGED <<Finished, Fate>> BY <2>1 DEF Finished, Fate
  <2>3. QED BY <2>1, <2>2
<1>26. CASE Copies /\ mode = "relay" /\ UNCHANGED assembly
  <2>1. UNCHANGED <<received, out, aborts, ending, mode, marks>> /\ pc # "returned" /\ pc' # "returned"
    BY <1>26 DEF Copies, Takes, Closed
  <2>2. UNCHANGED <<Finished, Fate>> BY <2>1 DEF Finished, Fate
  <2>3. QED BY <2>1, <2>2
<1>27. CASE Feeds /\ mode = "relay" /\ UNCHANGED assembly
  <2>1. UNCHANGED <<received, out, aborts, ending, mode, marks>> /\ pc # "returned" /\ pc' # "returned"
    BY <1>27 DEF Feeds, EventReceived
  <2>2. UNCHANGED <<Finished, Fate>> BY <2>1 DEF Finished, Fate
  <2>3. QED BY <2>1, <2>2
<1>28. CASE RelayBreaks /\ mode = "relay" /\ UNCHANGED assembly
  <2>1. UNCHANGED <<received, out, ending, mode, marks>> /\ pc \notin {"leave", "returned"} /\ pc' # "returned"
    BY <1>28 DEF RelayBreaks, Breaks, RecordAbort
  <2>2. UNCHANGED <<Finished, Fate>> /\ Fate = "open"
    BY <2>1, Open DEF Finished, Fate
  <2>3. UNCHANGED aborts \/ (aborts = 0 /\ aborts' = 1)
    BY <1>28 DEF RelayBreaks, Breaks, RecordAbort, ControlInv, VerdictInv
  <2>4. UNCHANGED aborts \/ Promise!Count
    BY <2>1, <2>2, <2>3 DEF Promise!Count
  <2>5. QED BY <2>1, <2>2, <2>4
<1>29. CASE RelayEnds /\ mode = "relay" /\ UNCHANGED assembly
  <2>1. UNCHANGED <<received, out, aborts, mode, marks>> /\ pc = "relay" /\ ending' = "done"
    BY <1>29 DEF RelayEnds
  <2>2. UNCHANGED Finished /\ Fate = "open" BY <2>1, Open DEF Finished
  <2>3. buf = <<>> /\ readErr = "eof" BY <1>29 DEF RelayEnds
  <2>4. wire = <<>> /\ "eof" \in marks BY <2>3 DEF AccountInv, EndInv
  <2>5. out = received BY <1>29, <2>3, <2>4 DEF AccountInv, RelayInv, CountsOK
  <2>6. Finished /\ aborts = 0 /\ Fate' = "whole"
    BY <1>29, <2>1, <2>4 DEF Finished, ControlInv, VerdictInv, Undecided, Fate
  <2>7. Promise!Complete BY <2>1, <2>2, <2>5, <2>6 DEF Promise!Complete
  <2>8. QED BY <2>7
<1>30. CASE RelayFails /\ mode = "relay" /\ UNCHANGED assembly
  <2>1. UNCHANGED <<received, out, ending, mode, marks>> /\ pc \notin {"leave", "returned"} /\ pc' # "returned"
    BY <1>30 DEF RelayFails, RecordAbort
  <2>2. UNCHANGED <<Finished, Fate>> /\ Fate = "open"
    BY <2>1, Open DEF Finished, Fate
  <2>3. UNCHANGED aborts \/ (aborts = 0 /\ aborts' = 1)
    BY <1>30 DEF RelayFails, RecordAbort, ControlInv, VerdictInv
  <2>4. UNCHANGED aborts \/ Promise!Count
    BY <2>1, <2>2, <2>3 DEF Promise!Count
  <2>5. QED BY <2>1, <2>2, <2>4
<1>31. CASE Relayed /\ mode = "relay" /\ UNCHANGED assembly
  <2>1. UNCHANGED <<received, aborts, mode, marks>> /\ pc = "write" /\ pc' # "returned"
    BY <1>31 DEF Relayed
  <2>2. UNCHANGED Finished /\ Fate = "open" BY <2>1, Open DEF Finished
  <2>3. CASE writing = "text"
    <3>1. aborts = 0 /\ UNCHANGED Fate
      BY <1>31, <2>1, <2>3 DEF Relayed, ControlInv, VerdictInv, Fate
    <3>2. out' = out + Len(buf) /\ received = out + Len(buf) + Len(wire)
      BY <1>31, <2>3 DEF Relayed, AccountInv, RelayInv
    <3>3. out' \in out .. received BY <3>2 DEF CountsOK, ItemsOK
    <3>4. Promise!Show BY <2>1, <2>2, <3>1, <3>3 DEF Promise!Show
    <3>5. QED BY <3>4
  <2>4. CASE writing # "text"
    <3>1. ending' = "error" /\ out' = out
      BY <1>31, <2>4 DEF Relayed
    <3>2. UNCHANGED Fate BY <2>1, <2>2, <3>1 DEF Fate
    <3>3. QED BY <2>1, <2>2, <3>1, <3>2
  <2>5. QED BY <2>3, <2>4
<1>32. CASE TimerRuns /\ UNCHANGED assembly
  <2>1. UNCHANGED <<received, out, aborts, ending, mode, marks, pc>> BY <1>32 DEF TimerRuns, Timer
  <2>2. UNCHANGED <<Finished, Fate>> BY <2>1 DEF Finished, Fate
  <2>3. QED BY <2>1, <2>2
<1>33. CASE Tick /\ UNCHANGED assembly
  <2>1. UNCHANGED <<received, out, aborts, ending, mode, marks, pc>> BY <1>33 DEF Tick
  <2>2. UNCHANGED <<Finished, Fate>> BY <2>1 DEF Finished, Fate
  <2>3. QED BY <2>1, <2>2
<1>34. CASE TotalDeadline /\ UNCHANGED assembly
  <2>1. UNCHANGED <<received, out, aborts, ending, mode, marks, pc>> BY <1>34 DEF TotalDeadline, DeadlinePasses
  <2>2. UNCHANGED <<Finished, Fate>> BY <2>1 DEF Finished, Fate
  <2>3. QED BY <2>1, <2>2
<1>35. CASE ClientGoes /\ UNCHANGED assembly
  <2>1. UNCHANGED <<received, out, aborts, ending, mode, marks, pc>> BY <1>35 DEF ClientGoes
  <2>2. UNCHANGED <<Finished, Fate>> BY <2>1 DEF Finished, Fate
  <2>3. QED BY <2>1, <2>2
<1>36. CASE Disconnected /\ UNCHANGED assembly
  <2>1. UNCHANGED <<received, out, aborts, ending, mode, marks, pc>> BY <1>36 DEF Disconnected, RequestCancelled
  <2>2. UNCHANGED <<Finished, Fate>> BY <2>1 DEF Finished, Fate
  <2>3. QED BY <2>1, <2>2
<1>37. CASE ShutDown /\ UNCHANGED assembly
  <2>1. UNCHANGED <<received, out, aborts, ending, mode, marks, pc>> BY <1>37 DEF ShutDown, RequestCancelled
  <2>2. UNCHANGED <<Finished, Fate>> BY <2>1 DEF Finished, Fate
  <2>3. QED BY <2>1, <2>2
<1>38. ASSUME NEW item \in Kinds, Sends(item), UNCHANGED assembly
     PROVE  [Promise!AnswerNext]_(Promise!answerVars)
  <2>1. UNCHANGED <<out, aborts, ending, mode, pc>>
    BY <1>38 DEF Sends, UpstreamSends
  <2>2. UNCHANGED Fate BY <2>1 DEF Fate
  <2>3. CASE Counts(item)
    <3>1. received' = received + 1 BY <1>38, <2>3 DEF Sends
    <3>2. mode # "relay" => marks' = marks
      BY <1>38, <2>3 DEF Sends, Counts, IsOutput
    <3>3. "eof" \in marks' <=> "eof" \in marks
      BY <1>38 DEF Sends
    <3>4. UNCHANGED Finished BY <2>1, <3>2, <3>3 DEF Finished
    <3>5. Promise!Produce BY <2>1, <2>2, <3>1, <3>4 DEF Promise!Produce
    <3>6. QED BY <3>5
  <2>4. CASE ~Counts(item)
    <3>1. received' = received BY <1>38, <2>4 DEF Sends, CountsOK
    <3>2. Finished => Finished'
      BY <1>38, <2>1 DEF Sends, Finished
    <3>3. UNCHANGED Finished \/ (~Finished /\ Finished')
      BY <3>2 DEF Finished
    <3>4. CASE ~Finished /\ Finished'
      <4>1. Promise!Finish BY <2>1, <2>2, <3>1, <3>4 DEF Promise!Finish, Finished
      <4>2. QED BY <4>1
    <3>5. CASE UNCHANGED Finished
      BY <2>1, <2>2, <3>1, <3>5
    <3>6. QED BY <3>3, <3>4, <3>5
  <2>5. QED BY <2>3, <2>4
<1>39. ASSUME NEW how \in {"eof", "reset"}, Ends(how), UNCHANGED assembly
     PROVE  [Promise!AnswerNext]_(Promise!answerVars)
  <2>1. UNCHANGED <<received, out, aborts, ending, mode, pc>>
    BY <1>39 DEF Ends, UpstreamEnds
  <2>2. UNCHANGED Fate BY <2>1 DEF Fate
  <2>3. Finished => Finished'
    BY <1>39, <2>1 DEF Ends, UpstreamEnds, Finished
  <2>4. UNCHANGED Finished \/ (~Finished /\ Finished')
    BY <2>3 DEF Finished
  <2>5. CASE ~Finished /\ Finished'
    <3>1. Promise!Finish BY <2>1, <2>2, <2>5 DEF Promise!Finish, Finished
    <3>2. QED BY <3>1
  <2>6. CASE UNCHANGED Finished
    BY <2>1, <2>2, <2>6
  <2>7. QED BY <2>4, <2>5, <2>6
<1>40. CASE UNCHANGED vars
  <2>1. UNCHANGED <<received, out, aborts, ending, mode, marks, pc>> BY <1>40
  <2>2. UNCHANGED <<Finished, Fate>> BY <2>1 DEF Finished, Fate
  <2>3. QED BY <2>1, <2>2
<1>41. QED
  BY StepCases, <1>1, <1>2, <1>3, <1>4, <1>5, <1>6, <1>7, <1>8, <1>9, <1>10, <1>11, <1>12, <1>13,
     <1>14, <1>15, <1>16, <1>17, <1>18, <1>19, <1>20, <1>21, <1>22, <1>23, <1>24, <1>25, <1>26,
     <1>27, <1>28, <1>29, <1>30, <1>31, <1>32, <1>33, <1>34, <1>35, <1>36, <1>37, <1>38, <1>39,
     <1>40

\* Every handler keeps the promise of module Answer, whatever the upstream sends and
\* however its client behaves: a response that says it is done is the whole answer of
\* an upstream that had finished, a stream cut short is counted once and never
\* completed afterwards, and a client that can be told is told.
THEOREM PromiseKept == Spec => ImplementsAnswer
<1>1. Init => Promise!AnswerInit
  BY DEF Init, RequestInit, CallInit, Promise!AnswerInit, Finished, Fate
<1>2. TypeInv /\ ControlInv /\ AccountInv /\ [Next]_vars => [Promise!AnswerNext]_(Promise!answerVars)
  BY PromiseStep
<1>3. QED BY Types, Control, Account, <1>1, <1>2, PTL DEF Spec, ImplementsAnswer, Promise!Answering
=============================================================================
