------------------------------ MODULE Framing ------------------------------
(***************************************************************************)
(* Two readers of one stream of server-sent events: stream.Reader          *)
(* (internal/stream/sse.go), which the chat handler reads events with, and *)
(* eventProgress (internal/server/passthrough.go), which only watches the  *)
(* bytes it relays.  Both tell the idle timer of the events that are       *)
(* complete, the one per event and the other per chunk.                    *)
(*                                                                         *)
(* A byte is an end of line, a colon, the field name "data" as one letter, *)
(* the byte order mark as one, or any other; the prefix that eventProgress *)
(* keeps is two letters instead of five bytes.  A value's leading space    *)
(* and the size of the event's type are left out.                          *)
(***************************************************************************)
EXTENDS Integers, Sequences

CONSTANT MaxEvent   \* Reader.max: the longest line and the longest event

ASSUME MaxEventAssumption == MaxEvent \in Nat \ {0}

Ends == {"cr", "lf"}
Bytes == Ends \cup {":", "data", "mark", "other"}

VARIABLES
    line, first, readerSkips,   \* Reader: the line so far, the first one, a CR was last
    haveData, held,             \* Reader: the event so far, and its size
    tooLarge,                   \* Reader: ErrLimit was returned
    prefix, data, progressSkips,\* eventProgress
    dispatched, complete,       \* of this chunk: Reader returned an event; Feed saw one
    marked                      \* history: a byte order mark still sets the two apart

readerVars == <<line, first, readerSkips, haveData, held, tooLarge, dispatched>>
progressVars == <<prefix, data, progressSkips, complete>>
framingVars == <<readerVars, progressVars, marked>>

FramingInit ==
    /\ line = <<>> /\ first = TRUE /\ readerSkips = FALSE
    /\ haveData = FALSE /\ held = 0 /\ tooLarge = FALSE /\ dispatched = FALSE
    /\ prefix = <<>> /\ data = FALSE /\ progressSkips = FALSE /\ complete = FALSE
    /\ marked = FALSE
----------------------------------------------------------------------------
(* Reader.Next                                                              *)

\* The line without the byte order mark that may begin the first one.
Unmarked == IF first /\ line # <<>> /\ line[1] = "mark" THEN Tail(line) ELSE line

IsData(text) == text = <<"data">> \/ (Len(text) >= 2 /\ text[1] = "data" /\ text[2] = ":")
ValueSize(text) == IF Len(text) > 2 THEN Len(text) - 2 ELSE 0

\* The event grows by a data line: its value, and a newline between two.
NewSize(text) == held + ValueSize(text) + (IF haveData THEN 1 ELSE 0)

LineEnds ==
    /\ line' = <<>> /\ first' = FALSE
    /\ \/ /\ Len(Unmarked) > MaxEvent
          /\ tooLarge' = TRUE /\ UNCHANGED <<haveData, held, dispatched>>
       \/ /\ Unmarked = <<>>
          /\ dispatched' = (dispatched \/ haveData)
          /\ haveData' = FALSE /\ held' = 0 /\ UNCHANGED tooLarge
       \/ /\ Len(Unmarked) <= MaxEvent /\ IsData(Unmarked)
          /\ IF NewSize(Unmarked) > MaxEvent
             THEN tooLarge' = TRUE /\ UNCHANGED <<haveData, held>>
             ELSE haveData' = TRUE /\ held' = NewSize(Unmarked) /\ UNCHANGED tooLarge
          /\ UNCHANGED dispatched
       \/ /\ Len(Unmarked) <= MaxEvent /\ Unmarked # <<>> /\ ~IsData(Unmarked)
          /\ UNCHANGED <<haveData, held, tooLarge, dispatched>>

\* The scanner's buffer holds two bytes more than a line may.
LineGrows(b) ==
    /\ line' = Append(line, b)
    /\ tooLarge' = (Len(line) + 1 >= MaxEvent + 2)
    /\ UNCHANGED <<first, haveData, held, dispatched>>

ReaderTakes(b) ==
    \/ tooLarge /\ UNCHANGED readerVars
    \/ /\ ~tooLarge /\ readerSkips /\ b = "lf"
       /\ readerSkips' = FALSE
       /\ UNCHANGED <<line, first, haveData, held, tooLarge, dispatched>>
    \/ /\ ~tooLarge /\ b \in Ends /\ ~(readerSkips /\ b = "lf")
       /\ readerSkips' = (b = "cr") /\ LineEnds
    \/ /\ ~tooLarge /\ b \notin Ends
       /\ readerSkips' = FALSE /\ LineGrows(b)
----------------------------------------------------------------------------
(* eventProgress.Feed                                                       *)

\* Variant: every blank line is an event, also those that end a comment.
BlankCompletes ==
    IF prefix = <<>> THEN complete' = TRUE /\ data' = FALSE
    ELSE data' = (data \/ IsData(prefix)) /\ UNCHANGED complete

PrefixEnds ==
    IF prefix = <<>> THEN complete' = (complete \/ data) /\ data' = FALSE
    ELSE data' = (data \/ IsData(prefix)) /\ UNCHANGED complete

ProgressTakes(b) ==
    \/ /\ progressSkips /\ b = "lf"
       /\ progressSkips' = FALSE /\ UNCHANGED <<prefix, data, complete>>
    \/ /\ b \in Ends /\ ~(progressSkips /\ b = "lf")
       /\ progressSkips' = (b = "cr") /\ prefix' = <<>> /\ PrefixEnds
    \/ /\ b \notin Ends
       /\ progressSkips' = FALSE
       /\ prefix' = (IF Len(prefix) < 2 THEN Append(prefix, b) ELSE prefix)
       /\ UNCHANGED <<data, complete>>
----------------------------------------------------------------------------
\* A byte of the chunk goes to both.
Byte(b) ==
    /\ ReaderTakes(b) /\ ProgressTakes(b)
    /\ marked' = (marked \/ (first /\ line = <<>> /\ b = "mark"))

\* The chunk ends anywhere; the timer has been told.
NextChunk ==
    /\ dispatched' = FALSE /\ complete' = FALSE
    /\ marked' = (marked /\ (first \/ haveData # data))
    /\ UNCHANGED <<line, first, readerSkips, haveData, held, tooLarge, prefix, data, progressSkips>>

FramingNext == (\E b \in Bytes : Byte(b)) \/ NextChunk

FramingSpec == FramingInit /\ [][FramingNext]_framingVars
----------------------------------------------------------------------------
FramingTypeOK ==
    /\ line \in Seq(Bytes) /\ prefix \in Seq(Bytes) /\ held \in 0 .. MaxEvent
    /\ first \in BOOLEAN /\ readerSkips \in BOOLEAN /\ haveData \in BOOLEAN
    /\ tooLarge \in BOOLEAN /\ dispatched \in BOOLEAN
    /\ data \in BOOLEAN /\ progressSkips \in BOOLEAN /\ complete \in BOOLEAN
    /\ marked \in BOOLEAN

\* However the bytes are cut into chunks, the passthrough handler tells the idle
\* timer of a chunk's events exactly if the chat handler would: until an event is
\* larger than Reader takes, and save the first event after a byte order mark.
SameProgress == tooLarge \/ marked \/ (complete <=> dispatched)
=============================================================================
