---------------------------- MODULE AnswersProofs ----------------------------
(***************************************************************************)
(* Proofs about what comes back from the upstream: the two readers of a    *)
(* stream (module Framing), for every limit and every way to cut it into   *)
(* chunks, and the collection of embeddings (module Embedding), for any    *)
(* number of inputs, any batches and any limits.                           *)
(***************************************************************************)
EXTENDS Framing, Embedding, FiniteSetTheorems, FunctionTheorems, NaturalsInduction,
        SequenceTheorems, WellFoundedInduction, TLAPS

(***************************************************************************)
(* Framing.  eventProgress keeps the start of Reader's line, and both have *)
(* seen the same ends of lines; so at the end of a line they decide alike  *)
(* whether it was a data line, and at a blank one whether an event is      *)
(* complete.                                                               *)
(***************************************************************************)
Start(s) == IF Len(s) <= 2 THEN s ELSE <<s[1], s[2]>>

Agree ==
    /\ prefix = Start(line) /\ progressSkips = readerSkips
    /\ first /\ line # <<>> /\ line[1] = "mark" => marked
    /\ marked \/ (data = haveData /\ complete = dispatched)

FramingInv == FramingTypeOK /\ (tooLarge \/ Agree)
----------------------------------------------------------------------------
(* Lines                                                                    *)

LEMMA StartOfData ==
    ASSUME NEW s \in Seq(Bytes)
    PROVE  IsData(Start(s)) <=> IsData(s)
  <1>1. CASE Len(s) <= 2
    BY <1>1 DEF Start
  <1>2. CASE Len(s) > 2
    <2>1. Start(s) = <<s[1], s[2]>>
      BY <1>2 DEF Start
    <2>2. Len(<<s[1], s[2]>>) = 2 /\ <<s[1], s[2]>>[1] = s[1] /\ <<s[1], s[2]>>[2] = s[2]
      OBVIOUS
    <2>3. \A t : t = <<"data">> => Len(t) = 1
      OBVIOUS
    <2>4. Len(s) # 1
      <3>1. Len(s) \in Int
        OBVIOUS
      <3>2. \A n \in Int : n > 2 => n # 1
        OBVIOUS
      <3> QED
        BY <1>2, <3>1, <3>2
    <2>5. Len(Start(s)) # 1
      BY <2>1, <2>2
    <2>6. s # <<"data">> /\ Start(s) # <<"data">>
      BY <2>3, <2>4, <2>5
    <2> QED
      BY <1>2, <2>1, <2>2, <2>6 DEF IsData
  <1> QED
    BY <1>1, <1>2

LEMMA StartOfBlank ==
    ASSUME NEW s \in Seq(Bytes)
    PROVE  Start(s) = <<>> <=> s = <<>>
  BY DEF Start

LEMMA StartGrows ==
    ASSUME NEW s \in Seq(Bytes), NEW b \in Bytes
    PROVE  Start(Append(s, b)) = (IF Len(Start(s)) < 2 THEN Append(Start(s), b) ELSE Start(s))
  BY DEF Start
----------------------------------------------------------------------------
(* Types                                                                    *)

LEMMA InitTypes == FramingInit => FramingTypeOK
  <1> SUFFICES ASSUME FramingInit PROVE FramingTypeOK
    OBVIOUS
  <1>1. line \in Seq(Bytes) /\ prefix \in Seq(Bytes) /\ held \in 0 .. MaxEvent
    BY MaxEventAssumption DEF FramingInit
  <1>2. /\ first \in BOOLEAN /\ readerSkips \in BOOLEAN /\ haveData \in BOOLEAN
        /\ tooLarge \in BOOLEAN /\ dispatched \in BOOLEAN
        /\ data \in BOOLEAN /\ progressSkips \in BOOLEAN /\ complete \in BOOLEAN
        /\ marked \in BOOLEAN
    BY DEF FramingInit
  <1> QED
    BY <1>1, <1>2 DEF FramingTypeOK

LEMMA ProgressTypes ==
    ASSUME FramingTypeOK, NEW b \in Bytes, ProgressTakes(b)
    PROVE  /\ prefix' \in Seq(Bytes)
           /\ data' \in BOOLEAN /\ progressSkips' \in BOOLEAN /\ complete' \in BOOLEAN
  <1>1. /\ prefix \in Seq(Bytes)
        /\ data \in BOOLEAN /\ complete \in BOOLEAN
    BY DEF FramingTypeOK
  <1>2. prefix' \in Seq(Bytes)
    <2>1. prefix' = prefix \/ prefix' = <<>> \/ prefix' = Append(prefix, b)
      <3>1. \/ prefix' = prefix \/ prefix' = <<>>
            \/ prefix' = (IF Len(prefix) < 2 THEN Append(prefix, b) ELSE prefix)
        BY DEF ProgressTakes
      <3> QED
        BY <3>1
    <2>2. <<>> \in Seq(Bytes) /\ Append(prefix, b) \in Seq(Bytes)
      BY <1>1
    <2> QED
      BY <1>1, <2>1, <2>2
  <1>3. data' \in BOOLEAN /\ complete' \in BOOLEAN
    <2>1. CASE PrefixEnds
      BY <1>1, <2>1 DEF PrefixEnds
    <2>2. CASE data' = data /\ complete' = complete
      BY <1>1, <2>2
    <2> QED
      BY <2>1, <2>2 DEF ProgressTakes
  <1>4. progressSkips' \in BOOLEAN
    BY DEF ProgressTakes
  <1> QED
    BY <1>2, <1>3, <1>4

LEMMA LineTypes ==
    ASSUME FramingTypeOK, LineEnds
    PROVE  /\ line' \in Seq(Bytes) /\ held' \in 0 .. MaxEvent
           /\ first' \in BOOLEAN /\ haveData' \in BOOLEAN
           /\ tooLarge' \in BOOLEAN /\ dispatched' \in BOOLEAN
  <1>1. line' = <<>> /\ first' = FALSE
    BY DEF LineEnds
  <1>2. held \in 0 .. MaxEvent /\ haveData \in BOOLEAN /\ tooLarge \in BOOLEAN /\ dispatched \in BOOLEAN
        /\ Len(Unmarked) \in Nat
    BY DEF FramingTypeOK, Unmarked
  <1>3. held' \in 0 .. MaxEvent
    <2>1. NewSize(Unmarked) \in Nat
      <3>1. ValueSize(Unmarked) \in Nat
        BY <1>2 DEF ValueSize
      <3>2. (IF haveData THEN 1 ELSE 0) \in Nat
        OBVIOUS
      <3> QED
        BY <1>2, <3>1, <3>2 DEF NewSize
    <2>2. held' \in {held, 0} \/ (held' = NewSize(Unmarked) /\ ~(NewSize(Unmarked) > MaxEvent))
      BY DEF LineEnds
    <2> QED
      BY <1>2, <2>1, <2>2, MaxEventAssumption
  <1>4. haveData' \in BOOLEAN /\ tooLarge' \in BOOLEAN /\ dispatched' \in BOOLEAN
    BY <1>2 DEF LineEnds
  <1>5. line' \in Seq(Bytes)
    BY <1>1
  <1>6. first' \in BOOLEAN
    BY <1>1
  <1> QED
    BY <1>3, <1>4, <1>5, <1>6

LEMMA ReaderTypes ==
    ASSUME FramingTypeOK, NEW b \in Bytes, ReaderTakes(b)
    PROVE  /\ line' \in Seq(Bytes) /\ held' \in 0 .. MaxEvent
           /\ first' \in BOOLEAN /\ readerSkips' \in BOOLEAN /\ haveData' \in BOOLEAN
           /\ tooLarge' \in BOOLEAN /\ dispatched' \in BOOLEAN
  <1>1. CASE UNCHANGED <<line, first, haveData, held, tooLarge, dispatched>> /\ readerSkips' \in {readerSkips, FALSE}
    BY <1>1 DEF FramingTypeOK
  <1>2. CASE LineEnds /\ readerSkips' = (b = "cr")
    BY <1>2, LineTypes
  <1>3. CASE ~tooLarge /\ LineGrows(b) /\ readerSkips' = FALSE
    <2>1. line' = Append(line, b) /\ tooLarge' = (Len(line) + 1 >= MaxEvent + 2)
          /\ UNCHANGED <<first, haveData, held, dispatched>>
      BY <1>3 DEF LineGrows
    <2>2. line' \in Seq(Bytes)
      BY <2>1 DEF FramingTypeOK
    <2>3. readerSkips' \in BOOLEAN
      BY <1>3
    <2>4. tooLarge' \in BOOLEAN
      BY <2>1
    <2>5. /\ held' \in 0 .. MaxEvent /\ first' \in BOOLEAN
          /\ haveData' \in BOOLEAN /\ dispatched' \in BOOLEAN
      BY <2>1 DEF FramingTypeOK
    <2> QED
      BY <2>2, <2>3, <2>5, <2>4
  <1> QED
    BY <1>1, <1>2, <1>3 DEF ReaderTakes, readerVars

LEMMA ByteTypes ==
    ASSUME FramingTypeOK, NEW b \in Bytes, Byte(b)
    PROVE  FramingTypeOK'
  <1>1. marked' \in BOOLEAN
    BY DEF Byte, FramingTypeOK
  <1> QED
    BY <1>1, ReaderTypes, ProgressTypes DEF Byte, FramingTypeOK

LEMMA ChunkTypes ==
    ASSUME FramingTypeOK, NextChunk
    PROVE  FramingTypeOK'
  <1>1. dispatched' \in BOOLEAN /\ complete' \in BOOLEAN
    BY DEF NextChunk
  <1>2. marked' \in BOOLEAN
    BY DEF NextChunk, FramingTypeOK
  <1> QED
    BY <1>1, <1>2 DEF NextChunk, FramingTypeOK
----------------------------------------------------------------------------
(* Agreement                                                                *)

LEMMA InitAgree == FramingInit => Agree
  <1> SUFFICES ASSUME FramingInit PROVE Agree
    OBVIOUS
  <1>1. prefix = <<>> /\ line = <<>>
    BY DEF FramingInit
  <1>2. prefix = Start(line)
    BY <1>1 DEF Start
  <1>3. progressSkips = readerSkips /\ data = haveData /\ complete = dispatched
    BY DEF FramingInit
  <1> QED
    BY <1>1, <1>2, <1>3 DEF Agree

\* A line feed that ends a CR LF is skipped by both.
LEMMA SkipAgree ==
    ASSUME FramingTypeOK, Agree, ~tooLarge, Byte("lf"), readerSkips
    PROVE  Agree'
  <1>1. progressSkips
    BY DEF Agree
  <1>2. /\ readerSkips' = FALSE
        /\ UNCHANGED <<line, first, haveData, dispatched>>
    BY DEF Byte, ReaderTakes, Ends
  <1>3. progressSkips' = FALSE /\ UNCHANGED <<prefix, data, complete>>
    BY <1>1 DEF Byte, ProgressTakes, Ends
  <1>4. marked' = marked
    BY DEF Byte, FramingTypeOK
  <1> QED
    BY <1>2, <1>3, <1>4 DEF Agree

\* At the end of a line both know whether it was data, or blank after data.
LEMMA EndAgree ==
    ASSUME FramingTypeOK, Agree, ~tooLarge, ~tooLarge', NEW b \in Ends, Byte(b),
           ~(readerSkips /\ b = "lf")
    PROVE  Agree'
  <1>1. readerSkips' = (b = "cr") /\ LineEnds
    BY DEF Byte, ReaderTakes
  <1>2. progressSkips' = (b = "cr") /\ prefix' = <<>> /\ PrefixEnds
    BY DEF Byte, ProgressTakes, Agree
  <1>3. line' = <<>> /\ first' = FALSE
    BY <1>1 DEF LineEnds
  <1>4. prefix' = Start(line')
    BY <1>2, <1>3 DEF Start
  <1>5. marked' = marked
    BY DEF Byte, FramingTypeOK, Ends
  <1>6. ASSUME ~marked
        PROVE  data' = haveData' /\ complete' = dispatched'
    <2>1. data = haveData /\ complete = dispatched /\ prefix = Start(line)
      BY <1>6 DEF Agree
    <2>2. Unmarked = line
      BY <1>6 DEF Agree, Unmarked
    <2>3. (prefix = <<>> <=> line = <<>>) /\ (IsData(prefix) <=> IsData(line))
      BY <2>1, StartOfBlank, StartOfData DEF FramingTypeOK
    <2>4. CASE line = <<>>
      <3>1. ~IsData(line) /\ ~(Len(line) > MaxEvent)
        BY <2>4, MaxEventAssumption DEF IsData
      <3>2. dispatched' = (dispatched \/ haveData) /\ haveData' = FALSE
        BY <1>1, <2>2, <2>4, <3>1 DEF LineEnds
      <3>3. complete' = (complete \/ data) /\ data' = FALSE
        BY <1>2, <2>3, <2>4 DEF PrefixEnds
      <3> QED
        BY <2>1, <3>2, <3>3
    <2>5. CASE line # <<>>
      <3>1. data' = (data \/ IsData(line)) /\ complete' = complete
        BY <1>2, <2>3, <2>5 DEF PrefixEnds
      <3>2. dispatched' = dispatched
        BY <1>1, <2>2, <2>5 DEF LineEnds
      <3>3. CASE IsData(line)
        <4>1. haveData' = TRUE
          BY <1>1, <2>2, <2>5, <3>3 DEF LineEnds
        <4> QED
          BY <2>1, <3>1, <3>2, <3>3, <4>1
      <3>4. CASE ~IsData(line)
        <4>1. haveData' = haveData
          BY <1>1, <2>2, <2>5, <3>4 DEF LineEnds
        <4> QED
          BY <2>1, <3>1, <3>2, <3>4, <4>1 DEF FramingTypeOK
      <3> QED
        BY <3>3, <3>4
    <2> QED
      BY <2>4, <2>5
  <1> QED
    BY <1>1, <1>2, <1>3, <1>4, <1>5, <1>6 DEF Agree

\* A byte of a line grows the prefix as long as it is the whole line.
LEMMA GrowAgree ==
    ASSUME FramingTypeOK, Agree, ~tooLarge, NEW b \in Bytes \ Ends, Byte(b)
    PROVE  Agree'
  <1>1. /\ readerSkips' = FALSE /\ line' = Append(line, b)
        /\ UNCHANGED <<first, haveData, dispatched>>
    <2>1. readerSkips' = FALSE /\ LineGrows(b)
      BY DEF Byte, ReaderTakes, Ends
    <2> QED
      BY <2>1 DEF LineGrows
  <1>2. /\ progressSkips' = FALSE
        /\ prefix' = (IF Len(prefix) < 2 THEN Append(prefix, b) ELSE prefix)
        /\ UNCHANGED <<data, complete>>
    BY DEF Byte, ProgressTakes, Ends
  <1>3. prefix' = Start(line')
    BY <1>1, <1>2, StartGrows DEF Agree, FramingTypeOK
  <1>4. marked => marked'
    BY DEF Byte
  <1>5. first' /\ line' # <<>> /\ line'[1] = "mark" => marked'
    <2>1. CASE line = <<>>
      <3>1. line'[1] = b
        BY <1>1, <2>1
      <3> QED
        BY <1>1, <2>1, <3>1 DEF Byte
    <2>2. CASE line # <<>>
      <3>1. line'[1] = line[1]
        BY <1>1, <2>2 DEF FramingTypeOK
      <3> QED
        BY <1>1, <1>4, <2>2, <3>1 DEF Agree
    <2> QED
      BY <2>1, <2>2
  <1>6. marked' \/ (data' = haveData' /\ complete' = dispatched')
    BY <1>1, <1>2, <1>4 DEF Agree
  <1> QED
    BY <1>1, <1>2, <1>3, <1>5, <1>6 DEF Agree

LEMMA ChunkAgree ==
    ASSUME FramingTypeOK, Agree, NextChunk
    PROVE  Agree'
  <1>1. /\ UNCHANGED <<line, first, readerSkips, haveData, prefix, data, progressSkips>>
        /\ dispatched' = FALSE /\ complete' = FALSE
        /\ marked' = (marked /\ (first \/ haveData # data))
    BY DEF NextChunk
  <1>2. first' /\ line' # <<>> /\ line'[1] = "mark" => marked'
    BY <1>1 DEF Agree
  <1>3. marked' \/ data' = haveData'
    BY <1>1 DEF Agree
  <1> QED
    BY <1>1, <1>2, <1>3 DEF Agree
----------------------------------------------------------------------------
LEMMA AlwaysAgree == FramingSpec => []FramingInv
  <1>1. FramingInit => FramingInv
    BY InitTypes, InitAgree DEF FramingInv
  <1>2. FramingInv /\ [FramingNext]_framingVars => FramingInv'
    <2> SUFFICES ASSUME FramingInv, [FramingNext]_framingVars
                 PROVE  FramingInv'
      OBVIOUS
    <2>1. ASSUME NEW b \in Bytes, Byte(b)
          PROVE  FramingInv'
      <3>1. FramingTypeOK'
        BY <2>1, ByteTypes DEF FramingInv
      <3>2. CASE tooLarge
        <4>1. tooLarge'
          BY <2>1, <3>2 DEF Byte, ReaderTakes, readerVars
        <4> QED
          BY <3>1, <4>1 DEF FramingInv
      <3>3. CASE ~tooLarge /\ ~tooLarge'
        <4>1. CASE b \notin Ends
          BY <2>1, <3>1, <3>3, <4>1, GrowAgree DEF FramingInv
        <4>2. CASE b \in Ends /\ ~(readerSkips /\ b = "lf")
          BY <2>1, <3>1, <3>3, <4>2, EndAgree DEF FramingInv
        <4>3. CASE readerSkips /\ b = "lf"
          BY <2>1, <3>1, <3>3, <4>3, SkipAgree DEF FramingInv
        <4> QED
          BY <4>1, <4>2, <4>3
      <3> QED
        BY <3>1, <3>2, <3>3 DEF FramingInv
    <2>2. CASE NextChunk
      <3>1. tooLarge' = tooLarge
        BY <2>2 DEF NextChunk
      <3> QED
        BY <2>2, <3>1, ChunkTypes, ChunkAgree DEF FramingInv
    <2>3. CASE UNCHANGED framingVars
      BY <2>3 DEF framingVars, readerVars, progressVars, FramingInv, FramingTypeOK, Agree
    <2> QED
      BY <2>1, <2>2, <2>3 DEF FramingNext
  <1> QED
    BY <1>1, <1>2, PTL DEF FramingSpec

\* For every stream, every way to cut it into chunks and every limit, the idle
\* timer is told of a chunk's events by both handlers or by neither.
THEOREM ReadersAgree == FramingSpec => []SameProgress
  <1>1. FramingInv => SameProgress
    BY DEF FramingInv, Agree, SameProgress
  <1> QED
    BY <1>1, AlwaysAgree, PTL

\* For every stream: the readers' limits, lines and events have their types.
THEOREM FramingTypeCorrect == FramingSpec => []FramingTypeOK
  <1>1. FramingInv => FramingTypeOK
    BY DEF FramingInv
  <1> QED
    BY <1>1, AlwaysAgree, PTL
----------------------------------------------------------------------------
(* Embedding *)

(* Induction, and what a sum over a sequence is                             *)

\* The least number that is missing from S has no predecessor.
LEMMA NatInclusion ==
    ASSUME NEW S, 0 \in S, \A n \in Nat : n \in S => n + 1 \in S
    PROVE  Nat \subseteq S
<1> DEFINE Missed == Nat \ S
           R == OpToRel(<, Nat)
<1>1. IsWellFoundedOn(R, Nat)
  BY NatLessThanWellFounded
<1>2. \A x, y \in Nat : <<x, y>> \in R <=> x < y
  BY DEF OpToRel
<1> HIDE DEF R
<1> SUFFICES ASSUME Missed # {} PROVE FALSE
  OBVIOUS
<1>3. PICK n \in Missed : \A m \in Missed : ~(<<m, n>> \in R)
  <2>1. Missed \subseteq Nat OBVIOUS
  <2> HIDE DEF Missed
  <2>2. QED BY <1>1, <2>1, WFMin
<1>4. n - 1 \in Nat /\ n - 1 < n /\ n - 1 + 1 = n
  OBVIOUS
<1>5. n - 1 \in S
  BY <1>2, <1>3, <1>4
<1>6. QED BY <1>4, <1>5

\* The sums of the first n elements.
Partial(s, n, sum) ==
    /\ sum \in [0 .. n -> Int] /\ sum[0] = 0
    /\ \A k \in 1 .. n : sum[k] = sum[k - 1] + s[k]

LEMMA PartialExists ==
    ASSUME NEW s \in Seq(Int)
    PROVE  \A n \in 0 .. Len(s) : \E sum : Partial(s, n, sum)
<1> DEFINE S == {n \in Nat : n <= Len(s) => \E sum : Partial(s, n, sum)}
<1>1. 0 \in S
  <2>1. Partial(s, 0, [k \in 0 .. 0 |-> 0]) BY DEF Partial
  <2>2. QED BY <2>1
<1>2. ASSUME NEW n \in Nat, n \in S PROVE n + 1 \in S
  <2> SUFFICES ASSUME n + 1 <= Len(s) PROVE \E sum : Partial(s, n + 1, sum)
    OBVIOUS
  <2>1. PICK sum : Partial(s, n, sum) BY <1>2
  <2> DEFINE next == [k \in 0 .. n + 1 |-> IF k = n + 1 THEN sum[n] + s[n + 1] ELSE sum[k]]
  <2>2. s[n + 1] \in Int /\ sum[n] \in Int BY <2>1 DEF Partial
  <2>3. next \in [0 .. n + 1 -> Int] /\ next[0] = 0 BY <2>1, <2>2 DEF Partial
  <2>4. ASSUME NEW k \in 1 .. n + 1 PROVE next[k] = next[k - 1] + s[k]
    <3>1. CASE k = n + 1 BY <2>1, <3>1 DEF Partial
    <3>2. CASE k # n + 1
      <4>1. k \in 1 .. n /\ k - 1 \in 0 .. n BY <3>2
      <4>2. QED BY <2>1, <3>2, <4>1 DEF Partial
    <3>3. QED BY <3>1, <3>2
  <2>5. Partial(s, n + 1, next) BY <2>3, <2>4 DEF Partial
  <2>6. QED BY <2>5
<1> HIDE DEF S
<1>3. Nat \subseteq S BY <1>1, <1>2, NatInclusion
<1>4. QED BY <1>3 DEF S

\* There is only one.
LEMMA PartialUnique ==
    ASSUME NEW s \in Seq(Int), NEW t \in Seq(Int), NEW n \in 0 .. Len(s), n <= Len(t),
           \A k \in 1 .. n : s[k] = t[k],
           NEW f, NEW g, NEW m \in Nat, n <= m, Partial(s, n, f), Partial(t, m, g)
    PROVE  \A k \in 0 .. n : f[k] = g[k]
<1> DEFINE S == {k \in Nat : k <= n => f[k] = g[k]}
<1>1. 0 \in S BY DEF Partial
<1>2. ASSUME NEW k \in Nat, k \in S PROVE k + 1 \in S
  <2> SUFFICES ASSUME k + 1 <= n PROVE f[k + 1] = g[k + 1]
    OBVIOUS
  <2>1. k + 1 \in 1 .. n /\ k + 1 \in 1 .. m /\ (k + 1) - 1 = k OBVIOUS
  <2>2. f[k] = g[k] BY <1>2
  <2>3. QED BY <2>1, <2>2 DEF Partial
<1> HIDE DEF S
<1>3. Nat \subseteq S BY <1>1, <1>2, NatInclusion
<1>4. QED BY <1>3 DEF S

LEMMA SumIsPartial ==
    ASSUME NEW s \in Seq(Int)
    PROVE  \E sum : Partial(s, Len(s), sum) /\ SumOf(s) = sum[Len(s)]
<1> DEFINE total == CHOOSE sum : sum = [n \in 0 .. Len(s) |-> IF n = 0 THEN 0 ELSE sum[n - 1] + s[n]]
<1>1. PICK f : Partial(s, Len(s), f) BY PartialExists
<1>2. f = [n \in 0 .. Len(s) |-> IF n = 0 THEN 0 ELSE f[n - 1] + s[n]] BY <1>1 DEF Partial
<1>3. total = [n \in 0 .. Len(s) |-> IF n = 0 THEN 0 ELSE total[n - 1] + s[n]] BY <1>2
<1>4. SumOf(s) = total[Len(s)] BY DEF SumOf
<1> HIDE DEF total
<1>5. total[0] = 0 BY <1>3
<1>6. \A k \in 1 .. Len(s) : total[k] = total[k - 1] + s[k]
  <2> TAKE k \in 1 .. Len(s)
  <2>1. k \in 0 .. Len(s) /\ k # 0 OBVIOUS
  <2> DEFINE body(n) == IF n = 0 THEN 0 ELSE total[n - 1] + s[n]
  <2>2. total[k] = body(k)
    <3> HIDE DEF body
    <3>1. total = [n \in 0 .. Len(s) |-> body(n)] BY <1>3 DEF body
    <3>2. QED BY <2>1, <3>1
  <2>3. QED BY <2>1, <2>2
<1>7. \A k \in 0 .. Len(s) : total[k] \in Int
  <2> DEFINE S == {k \in Nat : k <= Len(s) => total[k] \in Int}
  <2>1. 0 \in S BY <1>5
  <2>2. ASSUME NEW k \in Nat, k \in S PROVE k + 1 \in S
    <3> SUFFICES ASSUME k + 1 <= Len(s) PROVE total[k + 1] \in Int
      OBVIOUS
    <3>1. total[k + 1] = total[(k + 1) - 1] + s[k + 1] /\ (k + 1) - 1 = k BY <1>6
    <3>2. QED BY <2>2, <3>1
  <2> HIDE DEF S
  <2>3. Nat \subseteq S BY <2>1, <2>2, NatInclusion
  <2>4. QED BY <2>3 DEF S
<1>8. Partial(s, Len(s), total) BY <1>3, <1>5, <1>6, <1>7 DEF Partial
<1>9. QED BY <1>4, <1>8

\* What SumOf computes, one element at a time.
LEMMA SumGrows ==
    /\ SumOf(<<>>) = 0
    /\ \A s \in Seq(Int), x \in Int :
          /\ SumOf(s) \in Int
          /\ SumOf(Append(s, x)) = SumOf(s) + x
<1>1. SumOf(<<>>) = 0
  <2>1. <<>> \in Seq(Int) /\ Len(<<>>) = 0 OBVIOUS
  <2>2. QED BY <2>1, SumIsPartial DEF Partial
<1>2. ASSUME NEW s \in Seq(Int), NEW x \in Int
      PROVE  SumOf(s) \in Int /\ SumOf(Append(s, x)) = SumOf(s) + x
  <2> DEFINE n == Len(s)
             t == Append(s, x)
  <2>1. t \in Seq(Int) /\ Len(t) = n + 1 /\ n \in Nat /\ t[n + 1] = x
        /\ \A k \in 1 .. n : t[k] = s[k]
    OBVIOUS
  <2> HIDE DEF n, t
  <2>2. PICK f : Partial(s, n, f) /\ SumOf(s) = f[n] BY SumIsPartial DEF n
  <2>3. PICK g : Partial(t, n + 1, g) /\ SumOf(t) = g[n + 1]
    <3>1. PICK g : Partial(t, Len(t), g) /\ SumOf(t) = g[Len(t)] BY <2>1, SumIsPartial
    <3>2. Len(t) = n + 1 BY <2>1
    <3>3. QED BY <3>1, <3>2
  <2>4. f[n] = g[n]
    <3>1. n \in 0 .. Len(s) /\ n <= Len(t) /\ n + 1 \in Nat /\ n <= n + 1 BY <2>1 DEF n
    <3>2. t \in Seq(Int) /\ \A k \in 1 .. n : s[k] = t[k] BY <2>1
    <3>3. Partial(s, n, f) /\ Partial(t, n + 1, g) BY <2>2, <2>3
    <3>4. \A k \in 0 .. n : f[k] = g[k] BY <3>1, <3>2, <3>3, PartialUnique, SMTT(60)
    <3>5. QED BY <2>1, <3>4
  <2>5. g[n + 1] = g[(n + 1) - 1] + t[n + 1] /\ (n + 1) - 1 = n BY <2>1, <2>3 DEF Partial
  <2>6. f[n] \in Int BY <2>1, <2>2 DEF Partial
  <2>7. QED BY <2>1, <2>2, <2>3, <2>4, <2>5, <2>6 DEF t
<1>3. QED BY <1>1, <1>2
----------------------------------------------------------------------------
(* What a decoded batch is                                                  *)

\* A numbering without repetition of as many entries as places leaves no place out.
LEMMA EveryPlaceTaken ==
    ASSUME NEW n \in Nat, NEW f \in [1 .. n -> 0 .. n - 1],
           \A p, q \in 1 .. n : p # q => f[p] # f[q]
    PROVE  \A i \in 1 .. n : \E p \in 1 .. n : f[p] = i - 1
<1>1. f \in Injection(1 .. n, 0 .. n - 1)
  BY DEF Injection, IsInjective
<1>2. /\ IsFiniteSet(1 .. n) /\ Cardinality(1 .. n) = n
      /\ IsFiniteSet(0 .. n - 1) /\ Cardinality(0 .. n - 1) = n
  <2>1. 1 \in Int /\ 0 \in Int /\ n \in Int /\ n - 1 \in Int OBVIOUS
  <2>2. /\ IsFiniteSet(1 .. n) /\ Cardinality(1 .. n) = IF 1 > n THEN 0 ELSE n - 1 + 1
        /\ IsFiniteSet(0 .. n - 1)
        /\ Cardinality(0 .. n - 1) = IF 0 > n - 1 THEN 0 ELSE (n - 1) - 0 + 1
    BY <2>1, FS_Interval
  <2>3. QED BY <2>2
<1>3. f \in Surjection(1 .. n, 0 .. n - 1)
  BY <1>1, <1>2, FS_Injection
<1>4. QED BY <1>3 DEF Surjection

LEMMA ProductNat == \A m, n \in Nat : m * n \in Nat
  OBVIOUS

Requests ==
    [inputs : 0 .. MaxInputs + 1, batchSize : BatchSizes, dimensions : Dimensions,
     legacy : BOOLEAN, estimate : BOOLEAN, malformed : BOOLEAN, able : BOOLEAN]
Vectors == [for : Int, width : Int]

\* The width that is kept of a vector that is wide enough.
LEMMA RetainedWidth ==
    ASSUME request \in Requests, NEW width \in Nat, width >= request.dimensions
    PROVE  /\ Retained(width) \in Nat
           /\ request.dimensions > 0 => Retained(width) = request.dimensions
<1>1. request.dimensions \in Nat BY EmbeddingAssumption DEF Requests
<1>2. QED BY <1>1 DEF Retained, MinOf

\* There is at least one input in a batch, and not more than are left.
LEMMA BatchIsNotEmpty ==
    ASSUME request \in Requests, start \in Nat, start < request.inputs
    PROVE  /\ BatchSize \in Nat \ {0} /\ BatchCount \in Nat \ {0}
           /\ BatchCount = MinOf(BatchSize, request.inputs - start)
<1>1. request.inputs \in Nat /\ request.batchSize \in Nat
  <2>1. request.inputs \in 0 .. MaxInputs + 1 /\ request.batchSize \in BatchSizes
    BY DEF Requests
  <2>2. MaxInputs \in Nat /\ BatchSizes \subseteq Nat BY EmbeddingAssumption
  <2>3. request.inputs \in Nat BY <2>1, <2>2
  <2>4. request.batchSize \in Nat BY <2>1, <2>2
  <2>5. QED BY <2>3, <2>4
<1>2. QED BY <1>1 DEF BatchSize, BatchCount, MinOf

\* A valid batch is decoded to the vectors of its inputs, in their order.
LEMMA DecodedInOrder ==
    ASSUME request \in Requests, start \in Nat, start < request.inputs,
           NEW entries \in [1 .. BatchCount -> Entries], Valid(entries)
    PROVE  /\ Decoded(entries) \in Seq(Vectors) /\ Len(Decoded(entries)) = BatchCount
           /\ entries[1].width \in Nat /\ entries[1].width >= request.dimensions
           /\ \A i \in 1 .. BatchCount :
                 /\ Decoded(entries)[i].for = start + i
                 /\ Decoded(entries)[i].width = Retained(entries[1].width)
<1> DEFINE n == BatchCount
<1>1. n \in Nat \ {0} BY BatchIsNotEmpty
<1> HIDE DEF n
<1>2. DOMAIN entries = 1 .. n /\ 1 \in 1 .. n /\ Len(entries) = n
  BY <1>1 DEF Valid, n
<1>3. \A p \in 1 .. n : entries[p] \in Entries BY DEF n
<1>4. \A p \in 1 .. n : entries[p].width \in Widths \cup {Missing} BY <1>3 DEF Entries
<1>5. /\ \A p \in 1 .. n : entries[p].width # Missing /\ entries[p].width = entries[1].width
      /\ entries[1].width >= request.dimensions
  BY <1>2 DEF Valid
<1>6. entries[1].width \in Nat BY <1>2, <1>4, <1>5, EmbeddingAssumption
<1>7. Retained(entries[1].width) \in Nat BY <1>5, <1>6, RetainedWidth
<1>8. \A p \in 1 .. n : entries[p].index \in Int
  <2>1. \A p \in 1 .. n : entries[p].index \in 0 .. MaxInputs \cup {Unindexed}
    BY <1>3 DEF Entries
  <2>2. QED BY <2>1, EmbeddingAssumption DEF Unindexed
<1>9. ASSUME NEW p \in 1 .. n
      PROVE  /\ VectorOf(entries, p).for = start + Place(entries, p) + 1
             /\ VectorOf(entries, p).width = Retained(entries[1].width)
  <2>1. (entries[p].index # Unindexed) <=> IsIndexed(entries)
    BY <1>2 DEF Valid
  <2>2. entries[p].width = entries[1].width /\ entries[p].index \in Int BY <1>5, <1>8
  <2>3. CASE IsIndexed(entries) BY <2>1, <2>2, <2>3 DEF VectorOf, Place
  <2>4. CASE ~IsIndexed(entries) BY <2>1, <2>2, <2>4 DEF VectorOf, Place
  <2>5. QED BY <2>3, <2>4
<1>10. \A i \in 1 .. n : \E p \in 1 .. n : Place(entries, p) = i - 1
  <2> DEFINE f == [p \in 1 .. n |-> Place(entries, p)]
  <2>1. \A p \in 1 .. n : Place(entries, p) \in 0 .. n - 1
    BY <1>2 DEF Valid, n
  <2>2. \A p, q \in 1 .. n : p # q => Place(entries, p) # Place(entries, q)
    BY <1>2 DEF Valid
  <2>3. f \in [1 .. n -> 0 .. n - 1] BY <2>1
  <2>4. \A p, q \in 1 .. n : p # q => f[p] # f[q] BY <2>2
  <2>5. \A p \in 1 .. n : f[p] = Place(entries, p) OBVIOUS
  <2> HIDE DEF f
  <2>6. \A i \in 1 .. n : \E p \in 1 .. n : f[p] = i - 1
    BY <1>1, <2>3, <2>4, EveryPlaceTaken
  <2>7. QED BY <2>5, <2>6
<1> DEFINE chosen(i) == CHOOSE p \in DOMAIN entries : Place(entries, p) = i - 1
<1>11. \A i \in 1 .. n : chosen(i) \in 1 .. n /\ Place(entries, chosen(i)) = i - 1
  BY <1>2, <1>10
<1>12. Decoded(entries) = [i \in 1 .. n |-> VectorOf(entries, chosen(i))]
  BY <1>2 DEF Decoded
<1> HIDE DEF chosen
<1>13. \A i \in 1 .. n : VectorOf(entries, chosen(i)).for = start + i
  BY <1>9, <1>11
<1>14. \A i \in 1 .. n : VectorOf(entries, chosen(i)).width = Retained(entries[1].width)
  BY <1>9, <1>11
<1>15. \A i \in 1 .. n : VectorOf(entries, chosen(i)) \in Vectors
  <2>1. \A p : VectorOf(entries, p) = [for |-> VectorOf(entries, p).for, width |-> VectorOf(entries, p).width]
    BY DEF VectorOf
  <2> TAKE i \in 1 .. n
  <2>2. VectorOf(entries, chosen(i)).for \in Int /\ VectorOf(entries, chosen(i)).width \in Int
    BY <1>7, <1>13, <1>14
  <2>3. QED BY <2>1, <2>2 DEF Vectors
<1>16. Decoded(entries) \in Seq(Vectors) /\ Len(Decoded(entries)) = n
  BY <1>1, <1>12, <1>15
<1>17. QED BY <1>5, <1>6, <1>12, <1>13, <1>14, <1>16 DEF n
----------------------------------------------------------------------------
(* What is counted                                                          *)

Collections ==
    [vectors : Seq(Vectors), width : Int, size : 0 .. MaxCollected, usage : 0 .. MaxInt,
     known : BOOLEAN, estimated : BOOLEAN, failed : BOOLEAN]

\* A count is added to the sum or makes it unknown, and changes nothing else.
LEMMA CountedIsCollection ==
    ASSUME NEW c \in Collections, NEW tokens \in Int, NEW estimated \in BOOLEAN
    PROVE  /\ Counted(c, tokens, estimated) \in Collections
           /\ Counted(c, tokens, estimated).vectors = c.vectors
           /\ Counted(c, tokens, estimated).width = c.width
           /\ Counted(c, tokens, estimated).size = c.size
           /\ Counted(c, tokens, estimated).failed = c.failed
           /\ IF IsCount(tokens) /\ tokens <= MaxInt - c.usage
              THEN /\ Counted(c, tokens, estimated).usage = c.usage + tokens
                   /\ Counted(c, tokens, estimated).known = c.known
              ELSE /\ Counted(c, tokens, estimated).usage = c.usage
                   /\ Counted(c, tokens, estimated).known = FALSE
<1>1. MaxInt \in Nat /\ c.usage \in 0 .. MaxInt
  BY EmbeddingAssumption DEF Collections
<1>2. CASE IsCount(tokens) /\ tokens <= MaxInt - c.usage
  <2>1. Counted(c, tokens, estimated)
          = [c EXCEPT !.usage = c.usage + tokens, !.estimated = c.estimated \/ estimated]
    BY <1>2 DEF Counted, IsCount
  <2>2. c.usage + tokens \in 0 .. MaxInt BY <1>1, <1>2 DEF IsCount
  <2>3. (c.estimated \/ estimated) \in BOOLEAN OBVIOUS
  <2>4. Counted(c, tokens, estimated) \in Collections BY <2>1, <2>2, <2>3 DEF Collections
  <2>5. QED BY <1>2, <2>1, <2>4 DEF Collections
<1>3. CASE ~(IsCount(tokens) /\ tokens <= MaxInt - c.usage)
  <2>1. Counted(c, tokens, estimated) = [c EXCEPT !.known = FALSE]
    BY <1>3 DEF Counted, IsCount
  <2>2. QED BY <1>3, <2>1 DEF Collections
<1>4. QED BY <1>2, <1>3

\* What the metrics count of one more batch.
LEMMA CountableGrows ==
    ASSUME reported \in Seq(Int), NEW used \in Int, reported' = Append(reported, used)
    PROVE  /\ Countable \in Seq(Int) /\ Countable' = Append(Countable, Metered(used))
           /\ AllKnown' <=> (AllKnown /\ IsCount(used))
           /\ Metered(used) \in Nat
           /\ SumOf(Countable') = SumOf(Countable) + Metered(used)
<1> DEFINE n == Len(reported)
           tail == IF IsCount(used) THEN used ELSE 0
<1>1. n \in Nat /\ DOMAIN reported = 1 .. n /\ \A k \in 1 .. n : reported[k] \in Int
  OBVIOUS
<1>2. /\ DOMAIN reported' = 1 .. n + 1 /\ reported'[n + 1] = used
      /\ \A k \in 1 .. n : reported'[k] = reported[k]
  OBVIOUS
<1>3. Metered(used) = tail /\ tail \in Nat BY DEF Metered, IsCount
<1> HIDE DEF n, tail
<1>4. /\ Countable \in Seq(Int) /\ Len(Countable) = n
      /\ \A k \in 1 .. n : Countable[k] = IF IsCount(reported[k]) THEN reported[k] ELSE 0
  BY <1>1 DEF Countable
<1>5. Countable' = [k \in 1 .. n + 1 |-> IF IsCount(reported'[k]) THEN reported'[k] ELSE 0]
  BY <1>2 DEF Countable
<1>6. Countable' = Append(Countable, tail)
  <2>1. Append(Countable, tail) \in Seq(Int) /\ Len(Append(Countable, tail)) = n + 1
        /\ Append(Countable, tail)[n + 1] = tail
        /\ \A k \in 1 .. n : Append(Countable, tail)[k] = Countable[k]
    BY <1>1, <1>3, <1>4
  <2>2. DOMAIN Append(Countable, tail) = 1 .. n + 1 BY <2>1
  <2>3. Countable'[n + 1] = tail BY <1>1, <1>2, <1>5 DEF tail
  <2>4. \A k \in 1 .. n : Countable'[k] = Countable[k] BY <1>1, <1>2, <1>4, <1>5
  <2>5. Append(Countable, tail) = [k \in 1 .. n + 1 |-> Append(Countable, tail)[k]]
    <3> DEFINE t == Append(Countable, tail)
    <3>1. t \in Seq(Int) /\ DOMAIN t = 1 .. n + 1 BY <2>1, <2>2
    <3> HIDE DEF t
    <3>2. t = [k \in DOMAIN t |-> t[k]] BY <3>1
    <3>3. QED BY <3>1, <3>2 DEF t
  <2>6. \A k \in 1 .. n + 1 : k \in 1 .. n \/ k = n + 1 BY <1>1
  <2>7. Countable' = [k \in 1 .. n + 1 |-> Countable'[k]] BY <1>5
  <2>8. \A k \in 1 .. n + 1 : Countable'[k] = Append(Countable, tail)[k]
    BY <2>1, <2>3, <2>4, <2>6
  <2>9. QED BY <2>5, <2>7, <2>8
<1>7. AllKnown' <=> (AllKnown /\ IsCount(used))
  <2>1. AllKnown <=> \A k \in 1 .. n : IsCount(reported[k]) BY <1>1 DEF AllKnown
  <2>2. AllKnown' <=> \A k \in 1 .. n + 1 : IsCount(reported'[k]) BY <1>2 DEF AllKnown
  <2>3. \A k \in 1 .. n + 1 : k \in 1 .. n \/ k = n + 1 BY <1>1
  <2>4. n + 1 \in 1 .. n + 1 /\ \A k \in 1 .. n : k \in 1 .. n + 1 BY <1>1
  <2>5. QED BY <1>2, <2>1, <2>2, <2>3, <2>4
<1>8. SumOf(Countable') = SumOf(Countable) + tail BY <1>3, <1>4, <1>6, SumGrows
<1>9. QED BY <1>3, <1>4, <1>6, <1>7, <1>8

\* If every report is a count, all of it is counted.
LEMMA AllKnownCountable ==
    ASSUME reported \in Seq(Int), AllKnown
    PROVE  Countable = reported
<1>1. \A k \in DOMAIN reported : IsCount(reported[k]) BY DEF AllKnown
<1>2. reported = [k \in DOMAIN reported |-> reported[k]] OBVIOUS
<1>3. QED BY <1>1, <1>2 DEF Countable

\* A batch that fits is appended; one that does not leaves no vectors at all.
LEMMA AddedToCollection ==
    ASSUME request \in Requests, NEW c \in Collections, ~c.failed,
           NEW batch \in Seq(Vectors), NEW width \in Nat, width >= request.dimensions,
           NEW tokens \in Int, NEW estimated \in BOOLEAN,
           NEW added, added = AddBatch(c, batch, width, tokens, estimated)
    PROVE  /\ added \in Collections
           /\ added.usage = Counted(c, tokens, estimated).usage
           /\ added.known = Counted(c, tokens, estimated).known
           /\ added.failed => added.vectors = <<>>
           /\ ~added.failed =>
                /\ added.vectors = c.vectors \o batch /\ added.width = width
                /\ c.vectors # <<>> => width = c.width
<1> DEFINE counted == Counted(c, tokens, estimated)
           larger == c.size + Len(batch) * Retained(width)
<1>1. counted \in Collections /\ counted.vectors = c.vectors /\ counted.size = c.size
  BY CountedIsCollection
<1>2. counted.failed = c.failed
  BY CountedIsCollection
<1> HIDE DEF counted
<1>3. CASE Fits(c, batch, width)
  <2>1. Retained(width) \in Nat BY RetainedWidth
  <2>2. Len(batch) \in Nat OBVIOUS
  <2>3. Len(batch) * Retained(width) \in Nat BY <2>1, <2>2, ProductNat
  <2>4. Len(batch) * Retained(width) <= MaxCollected - c.size BY <1>3 DEF Fits
  <2>5. MaxCollected \in Nat /\ c.size \in 0 .. MaxCollected
    BY EmbeddingAssumption DEF Collections
  <2>6. larger \in 0 .. MaxCollected BY <2>3, <2>4, <2>5
  <2>7. added = [counted EXCEPT !.width = width, !.size = larger, !.vectors = c.vectors \o batch]
    BY <1>1, <1>3 DEF AddBatch, counted
  <2> HIDE DEF larger
  <2>8. c.vectors \in Seq(Vectors) BY DEF Collections
  <2>9. c.vectors \o batch \in Seq(Vectors) BY <2>8
  <2>10. added \in Collections
    <3> DEFINE both == c.vectors \o batch
    <3>1. both \in Seq(Vectors) /\ width \in Int BY <2>9
    <3>2. added = [counted EXCEPT !.width = width, !.size = larger, !.vectors = both]
      BY <2>7
    <3> HIDE DEF both
    <3>3. QED BY <1>1, <2>6, <3>1, <3>2 DEF Collections
  <2>11. added.usage = counted.usage /\ added.width = width /\ added.vectors = c.vectors \o batch
    BY <1>1, <2>7 DEF Collections
  <2>12. added.known = counted.known /\ added.failed = counted.failed
    BY <1>1, <2>7 DEF Collections
  <2>13. c.vectors # <<>> => width = c.width BY <1>3 DEF Fits
  <2>14. QED BY <1>2, <2>10, <2>11, <2>12, <2>13 DEF counted
<1>4. CASE ~Fits(c, batch, width)
  <2>1. added = [counted EXCEPT !.failed = TRUE, !.vectors = <<>>]
    BY <1>4 DEF AddBatch, Fail, counted
  <2>2. <<>> \in Seq(Vectors) OBVIOUS
  <2>3. added \in Collections BY <1>1, <2>1, <2>2 DEF Collections
  <2>4. added.usage = counted.usage /\ added.vectors = <<>> BY <1>1, <2>1 DEF Collections
  <2>5. added.known = counted.known /\ added.failed = TRUE BY <1>1, <2>1 DEF Collections
  <2>6. QED BY <2>3, <2>4, <2>5 DEF counted
<1>5. QED BY <1>3, <1>4
----------------------------------------------------------------------------
(* The inductive invariant                                                  *)

Types ==
    /\ request \in Requests
    /\ start \in Nat
    /\ answer \in {"none", "failed", "vectors"}
    /\ collected \in Collections
    /\ collected.failed => collected.vectors = <<>>
    /\ count \in Nat \cup {Unknown}
    /\ logged \in Nat \cup {Unknown}
    /\ metered \in Nat
    /\ reported \in Seq(Int)

\* What has been collected before there is an answer: the vectors of all inputs
\* that were sent, each at its place, and of the one width that is kept.
Collecting(c, next) ==
    /\ ~c.failed
    /\ Len(c.vectors) = MinOf(next, request.inputs)
    /\ \A i \in 1 .. Len(c.vectors) :
          c.vectors[i].for = i /\ c.vectors[i].width = Retained(c.width)
    /\ c.vectors # <<>> /\ request.dimensions > 0 => Retained(c.width) = request.dimensions

\* The handler's sum is what the metrics have counted until it becomes unknown, which
\* it does with the first report that is, or when it would pass the largest int.
SumKnown ==
    /\ metered = SumOf(Countable)
    /\ collected.known => collected.usage = metered /\ AllKnown
    /\ metered <= MaxInt => collected.usage = metered /\ (AllKnown => collected.known)

IInv ==
    /\ Types
    /\ answer = "none" => Collecting(collected, start) /\ vectors = <<>>
    /\ SumKnown
    /\ BatchesAddUp

\* What is logged, and answered, of a sum.
LEMMA SumIsTold ==
    ASSUME Types, SumKnown
    PROVE  /\ Logged(collected) \in Nat \cup {Unknown}
           /\ metered <= MaxInt =>
                Logged(collected) = (IF AllKnown \/ metered > 0 THEN metered ELSE Unknown)
           /\ (IF collected.known THEN collected.usage ELSE Unknown)
                = (IF AllKnown /\ SumOf(reported) <= MaxInt THEN SumOf(reported) ELSE Unknown)
<1>1. collected.usage \in 0 .. MaxInt /\ MaxInt \in Nat /\ metered \in Nat
  BY EmbeddingAssumption DEF Types, Collections
<1>2. AllKnown => SumOf(reported) = metered
  BY AllKnownCountable DEF Types, SumKnown
<1>3. CASE collected.known
  <2>1. collected.usage = metered /\ AllKnown BY <1>3 DEF SumKnown
  <2>2. QED BY <1>1, <1>2, <1>3, <2>1 DEF Logged
<1>4. CASE ~collected.known
  <2>1. metered <= MaxInt => collected.usage = metered /\ ~AllKnown
    BY <1>4 DEF SumKnown
  <2>2. Logged(collected) = IF collected.usage > 0 THEN collected.usage ELSE Unknown
    BY <1>4 DEF Logged
  <2>3. ~(AllKnown /\ SumOf(reported) <= MaxInt) BY <1>2, <2>1
  <2>4. QED BY <1>1, <1>4, <2>1, <2>2, <2>3
<1>5. QED BY <1>3, <1>4

\* One more batch is counted by the metrics and by the collection alike.
LEMMA SumStaysKnown ==
    ASSUME Types, SumKnown, NEW used \in Int, NEW estimated \in BOOLEAN,
           reported' = Append(reported, used), metered' = metered + Metered(used),
           collected'.usage = Counted(collected, used, estimated).usage,
           collected'.known = Counted(collected, used, estimated).known
    PROVE  SumKnown' /\ metered' \in Nat
<1>1. /\ Countable \in Seq(Int) /\ SumOf(Countable') = SumOf(Countable) + Metered(used)
      /\ Metered(used) \in Nat
  BY CountableGrows DEF Types
<1>2. AllKnown' <=> (AllKnown /\ IsCount(used))
  BY CountableGrows DEF Types
<1>3. Metered(used) = IF IsCount(used) THEN used ELSE 0 BY DEF Metered, IsCount
<1>4. collected.usage \in 0 .. MaxInt /\ MaxInt \in Nat /\ metered \in Nat
  BY EmbeddingAssumption DEF Types, Collections
<1>5. metered' = SumOf(Countable') /\ metered' \in Nat /\ metered <= metered'
  BY <1>1, <1>4 DEF SumKnown
<1> DEFINE counts == IsCount(used) /\ used <= MaxInt - collected.usage
<1>6. /\ counts => collected'.usage = collected.usage + used
      /\ ~counts => collected'.usage = collected.usage
  BY CountedIsCollection DEF Types
<1>7. /\ counts => (collected'.known <=> collected.known)
      /\ ~counts => ~collected'.known
  BY CountedIsCollection DEF Types
<1>8. CASE counts
  <2>1. collected'.known => collected'.usage = metered' /\ AllKnown'
    BY <1>2, <1>3, <1>6, <1>7, <1>8 DEF SumKnown
  <2>2. metered' <= MaxInt => collected'.usage = metered' /\ (AllKnown' => collected'.known)
    <3>1. SUFFICES ASSUME metered' <= MaxInt
                   PROVE  collected'.usage = metered' /\ (AllKnown' => collected'.known)
      OBVIOUS
    <3>2. metered <= MaxInt BY <1>4, <1>5, <3>1
    <3>3. collected.usage = metered /\ (AllKnown => collected.known) BY <3>2 DEF SumKnown
    <3>4. collected'.usage = metered' BY <1>3, <1>6, <1>8, <3>3
    <3>5. AllKnown' => collected'.known BY <1>2, <1>7, <1>8, <3>3
    <3>6. QED BY <3>4, <3>5
  <2>3. QED BY <1>5, <2>1, <2>2 DEF SumKnown
<1>9. CASE ~counts
  <2>1. ~collected'.known BY <1>7, <1>9
  <2>2. metered' <= MaxInt => collected'.usage = metered' /\ (AllKnown' => collected'.known)
    <3>1. SUFFICES ASSUME metered' <= MaxInt
                   PROVE  collected'.usage = metered' /\ ~AllKnown'
      OBVIOUS
    <3>2. metered <= MaxInt BY <1>4, <1>5, <3>1
    <3>3. collected.usage = metered BY <3>2 DEF SumKnown
    <3>4. ~IsCount(used)
      <4>1. SUFFICES ASSUME IsCount(used) PROVE FALSE OBVIOUS
      <4>2. Metered(used) = used BY <1>3, <4>1
      <4>3. ~(used <= MaxInt - collected.usage) BY <1>9, <4>1
      <4>4. QED BY <1>4, <3>1, <3>3, <4>2, <4>3
    <3>5. Metered(used) = 0 BY <1>3, <3>4
    <3>6. collected'.usage = metered' BY <1>4, <1>6, <1>9, <3>3, <3>5
    <3>7. QED BY <1>2, <3>4, <3>6
  <2>3. QED BY <1>5, <2>1, <2>2 DEF SumKnown
<1>10. QED BY <1>8, <1>9

\* A batch that fits adds its inputs to those already collected.
LEMMA BatchIsCollected ==
    ASSUME Types, Collecting(collected, start), start < request.inputs,
           NEW entries \in [1 .. BatchCount -> Entries], Valid(entries),
           NEW c \in Collections, ~c.failed, c.width = entries[1].width,
           c.vectors = collected.vectors \o Decoded(entries),
           collected.vectors # <<>> => c.width = collected.width
    PROVE  Collecting(c, start + BatchSize)
<1> DEFINE old == collected.vectors
           batch == Decoded(entries)
           m == Len(old)
           n == BatchCount
<1>1. request \in Requests /\ start \in Nat /\ request.inputs \in Nat
  <2>1. request \in Requests /\ start \in Nat BY DEF Types
  <2>2. request.inputs \in 0 .. MaxInputs + 1 /\ MaxInputs \in Nat
    BY <2>1, EmbeddingAssumption DEF Requests
  <2>3. request.inputs \in Nat BY <2>2
  <2>4. QED BY <2>1, <2>3
<1>2. /\ BatchSize \in Nat \ {0} /\ n \in Nat \ {0}
      /\ n = MinOf(BatchSize, request.inputs - start)
  BY <1>1, BatchIsNotEmpty
<1>3. /\ batch \in Seq(Vectors) /\ Len(batch) = n
      /\ \A i \in 1 .. n : batch[i].for = start + i /\ batch[i].width = Retained(c.width)
  BY <1>1, DecodedInOrder
<1>4. c.width \in Nat /\ c.width >= request.dimensions
  BY <1>1, DecodedInOrder
<1>5. old \in Seq(Vectors) BY DEF Types, Collections
<1>6. m = start
  <2>1. m = MinOf(start, request.inputs) BY DEF Collecting
  <2>2. QED BY <1>1, <2>1 DEF MinOf
<1>7. \A i \in 1 .. m : old[i].for = i /\ old[i].width = Retained(collected.width)
  BY DEF Collecting
<1> HIDE DEF batch, n
<1>8. c.vectors = old \o batch /\ Len(c.vectors) = m + n
  <2>1. c.vectors = old \o batch BY DEF batch
  <2> HIDE DEF old
  <2>2. Len(old \o batch) = Len(old) + Len(batch) BY <1>3, <1>5, ConcatProperties
  <2>3. QED BY <1>3, <2>1, <2>2
<1>9. m + n = MinOf(start + BatchSize, request.inputs)
  BY <1>1, <1>2, <1>6 DEF MinOf
<1>10. ASSUME NEW i \in 1 .. m + n
       PROVE  c.vectors[i].for = i /\ c.vectors[i].width = Retained(c.width)
  <2>1. c.vectors = old \o batch BY <1>8
  <2>2. CASE i \in 1 .. m
    <3>1. c.vectors[i] = old[i] BY <1>3, <1>5, <2>1, <2>2
    <3>2. c.width = collected.width
      <4>1. old # <<>> BY <1>5, <2>2
      <4>2. QED BY <4>1
    <3>3. QED BY <1>7, <2>2, <3>1, <3>2
  <2>3. CASE ~(i \in 1 .. m)
    <3>1. i - m \in 1 .. n /\ start + (i - m) = i BY <1>1, <1>2, <1>6, <2>3
    <3>2. c.vectors[i] = batch[i - m]
      <4> HIDE DEF old
      <4>1. i \in Len(old) + 1 .. Len(old) + Len(batch) BY <1>1, <1>2, <1>3, <1>6, <2>3
      <4>2. (old \o batch)[i] = batch[i - Len(old)] BY <1>3, <1>5, <4>1
      <4>3. QED BY <2>1, <4>2
    <3>3. QED BY <1>3, <3>1, <3>2
  <2>4. QED BY <2>2, <2>3
<1>11. request.dimensions > 0 => Retained(c.width) = request.dimensions
  BY <1>1, <1>4, RetainedWidth
<1>12. QED BY <1>8, <1>9, <1>10, <1>11 DEF Collecting
----------------------------------------------------------------------------
(* The steps                                                                *)

LEMMA InvInit == EmbeddingInit => IInv
<1> SUFFICES ASSUME EmbeddingInit PROVE IInv
  OBVIOUS
<1>1. request \in Requests BY DEF EmbeddingInit, Requests
<1>2. MaxInt \in Nat /\ MaxCollected \in Nat BY EmbeddingAssumption
<1>3. collected \in Collections BY <1>2 DEF EmbeddingInit, Collections
<1>4. Types BY <1>1, <1>3 DEF EmbeddingInit, Types
<1>5. request.inputs \in Nat
  <2>1. request.inputs \in 0 .. MaxInputs + 1 /\ MaxInputs \in Nat
    BY <1>1, EmbeddingAssumption DEF Requests
  <2>2. QED BY <2>1
<1>6. Collecting(collected, start) /\ vectors = <<>>
  <2>1. collected.vectors = <<>> /\ ~collected.failed /\ start = 0 /\ vectors = <<>>
    BY DEF EmbeddingInit
  <2>2. QED BY <1>5, <2>1 DEF Collecting, MinOf
<1>7. SumOf(Countable) = 0 /\ AllKnown
  <2>1. reported = <<>> BY DEF EmbeddingInit
  <2>2. Countable = <<>> BY <2>1 DEF Countable
  <2>3. QED BY <2>1, <2>2, SumGrows DEF AllKnown
<1>8. SumKnown BY <1>7 DEF EmbeddingInit, SumKnown
<1>9. BatchesAddUp
  <2>1. answer = "none" /\ vectors = <<>> /\ reported = <<>> /\ logged = Unknown
    BY DEF EmbeddingInit
  <2>2. metered = SumOf(Countable) BY <1>8 DEF SumKnown
  <2>3. QED BY <2>1, <2>2 DEF BatchesAddUp, VectorsMatchInputs, CountedOnce
<1>10. QED BY <1>4, <1>6, <1>8, <1>9 DEF IInv

\* The answer is none or failed, and so has no vectors.
LEMMA InvRefuse ==
    ASSUME IInv, answer = "none", Collects, NEW c, Refuse(c), Types', SumKnown'
    PROVE  IInv'
<1>1. answer' = "failed" /\ vectors' = <<>> /\ collected' = c /\ logged' = Logged(c)
  BY DEF IInv, Refuse
<1>2. Collects' <=> Collects BY DEF Refuse, Collects, Accepted
<1>3. logged' = Logged(collected)' BY <1>1 DEF Logged
<1>4. (metered <= MaxInt =>
        Logged(collected) = (IF AllKnown \/ metered > 0 THEN metered ELSE Unknown))'
  <2>1. Types' /\ SumKnown' OBVIOUS
  <2>2. QED BY <2>1, SumIsTold, PTL
<1>5. QED BY <1>1, <1>2, <1>3, <1>4
      DEF IInv, SumKnown, BatchesAddUp, VectorsMatchInputs, CountedOnce

\* What is known of the sum, of the same counts.
LEMMA SameSum ==
    ASSUME SumKnown, UNCHANGED <<metered, reported>>,
           collected'.usage = collected.usage, collected'.known = collected.known
    PROVE  SumKnown'
<1>1. SumOf(Countable)' = SumOf(Countable) /\ (AllKnown' <=> AllKnown)
  BY DEF Countable, AllKnown, SumOf
<1>2. QED BY <1>1 DEF SumKnown

LEMMA InvBatch ==
    ASSUME IInv, NEW entries \in [1 .. BatchCount -> Entries],
           NEW tokens \in TokenCounts \cup {Unknown}, Batch(entries, tokens)
    PROVE  IInv'
<1>1. /\ answer = "none" /\ Collects /\ start < request.inputs /\ Valid(entries)
      /\ request \in Requests /\ start \in Nat /\ collected \in Collections
      /\ Collecting(collected, start) /\ vectors = <<>>
  BY DEF Batch, IInv, Types
<1>2. PICK used : used = Tokens(tokens) OBVIOUS
<1>3. used \in Int
  <2>1. BatchCount \in Nat BY <1>1, BatchIsNotEmpty
  <2>2. TokenCounts \subseteq Int /\ Unknown \in Int BY EmbeddingAssumption DEF Unknown
  <2>3. tokens \in Int BY <2>2
  <2>4. QED BY <1>2, <2>1, <2>3 DEF Tokens
<1>4. PICK estimated \in BOOLEAN : estimated = (used # tokens) OBVIOUS
<1>5. PICK c : c = AddBatch(collected, Decoded(entries), entries[1].width, used, estimated) OBVIOUS
<1>6. /\ metered' = metered + Metered(used) /\ reported' = Append(reported, used)
      /\ c.failed => Refuse(c)
      /\ ~c.failed => /\ collected' = c /\ start' = start + BatchSize
                      /\ UNCHANGED <<request, answer, vectors, count, logged>>
  BY <1>2, <1>4, <1>5 DEF Batch
<1>7. Decoded(entries) \in Seq(Vectors) /\ entries[1].width \in Nat
      /\ entries[1].width >= request.dimensions
  BY <1>1, DecodedInOrder
<1>8. /\ c \in Collections
      /\ c.usage = Counted(collected, used, estimated).usage
      /\ c.known = Counted(collected, used, estimated).known
      /\ c.failed => c.vectors = <<>>
      /\ ~c.failed =>
           /\ c.vectors = collected.vectors \o Decoded(entries) /\ c.width = entries[1].width
           /\ collected.vectors # <<>> => entries[1].width = collected.width
  <2>1. ~collected.failed BY <1>1 DEF Collecting
  <2>2. PICK old, batch, width : old = collected /\ batch = Decoded(entries) /\ width = entries[1].width
    OBVIOUS
  <2>3. c = AddBatch(old, batch, width, used, estimated) BY <1>5, <2>2
  <2>4. /\ old \in Collections /\ ~old.failed /\ batch \in Seq(Vectors) /\ width \in Nat
        /\ width >= request.dimensions /\ request \in Requests
    BY <1>1, <1>7, <2>1, <2>2
  <2>5. /\ c \in Collections
        /\ c.usage = Counted(old, used, estimated).usage
        /\ c.known = Counted(old, used, estimated).known
        /\ c.failed => c.vectors = <<>>
        /\ ~c.failed =>
             /\ c.vectors = old.vectors \o batch /\ c.width = width
             /\ old.vectors # <<>> => width = old.width
    BY <1>3, <2>3, <2>4, AddedToCollection
  <2>6. QED BY <2>2, <2>5
<1>9. collected' = c /\ request' = request /\ count' = count
  BY <1>6 DEF Refuse
<1>10. SumKnown' /\ metered' \in Nat
  <2>1. Types /\ SumKnown BY DEF IInv
  <2>2. QED BY <1>3, <1>6, <1>8, <1>9, <2>1, SumStaysKnown
<1>11. reported' \in Seq(Int)
  BY <1>3, <1>6 DEF IInv, Types
<1>12. start' \in Nat /\ answer' \in {"none", "failed", "vectors"}
  <2>1. BatchSize \in Nat BY <1>1, BatchIsNotEmpty
  <2>2. QED BY <1>1, <1>6, <2>1 DEF Refuse
<1>13. logged' \in Nat \cup {Unknown}
  <2>1. c.usage \in Nat
    <3>1. c.usage \in 0 .. MaxInt /\ MaxInt \in Nat
      BY <1>8, EmbeddingAssumption DEF Collections
    <3>2. QED BY <3>1
  <2>2. Logged(c) \in Nat \cup {Unknown} BY <2>1 DEF Logged
  <2>3. QED BY <1>6, <2>2 DEF Refuse, IInv, Types
<1>14. Types'
  BY <1>1, <1>8, <1>9, <1>10, <1>11, <1>12, <1>13 DEF IInv, Types
<1>15. CASE c.failed
  BY <1>1, <1>6, <1>10, <1>14, <1>15, InvRefuse
<1>16. CASE ~c.failed
  <2>1. Collecting(c, start + BatchSize)
    <3>1. Types BY DEF IInv
    <3>2. QED BY <1>1, <1>8, <1>16, <3>1, BatchIsCollected
  <2>2. Collecting(collected, start)'
    BY <1>6, <1>9, <1>16, <2>1 DEF Collecting, Retained, MinOf
  <2>3. answer' = "none" /\ vectors' = <<>> BY <1>1, <1>6, <1>16
  <2>4. Collects' BY <1>1, <1>9 DEF Collects, Accepted
  <2>5. BatchesAddUp'
    BY <1>10, <2>3, <2>4 DEF BatchesAddUp, VectorsMatchInputs, CountedOnce, SumKnown
  <2>6. QED BY <1>10, <1>14, <2>2, <2>3, <2>5 DEF IInv
<1>17. QED BY <1>15, <1>16

LEMMA InvAnswer == IInv /\ Answer => IInv'
<1> SUFFICES ASSUME IInv, Answer PROVE IInv'
  OBVIOUS
<1>1. /\ answer = "none" /\ Collects /\ start >= request.inputs
      /\ Types /\ SumKnown /\ Collecting(collected, start) /\ vectors = <<>>
      /\ metered' = metered /\ reported' = reported
  BY DEF Answer, IInv
<1>2. request.inputs \in Nat /\ start \in Nat
  <2>1. request.inputs \in 0 .. MaxInputs + 1 /\ MaxInputs \in Nat /\ start \in Nat
    BY <1>1, EmbeddingAssumption DEF Types, Requests
  <2>2. QED BY <2>1
<1>3. Len(collected.vectors) = request.inputs
  <2>1. Len(collected.vectors) = MinOf(start, request.inputs) BY <1>1 DEF Collecting
  <2>2. QED BY <1>1, <1>2, <2>1 DEF MinOf
<1>4. Complete(collected) BY <1>3 DEF Complete
<1>5. /\ answer' = "vectors" /\ vectors' = collected.vectors /\ logged' = Logged(collected)
      /\ count' = (IF collected.known /\ ~request.legacy THEN collected.usage ELSE Unknown)
      /\ UNCHANGED <<request, start, collected>>
  BY <1>4 DEF Answer
<1>6. SumKnown' BY <1>1, <1>5, SameSum
<1>7. /\ Logged(collected) \in Nat \cup {Unknown}
      /\ metered <= MaxInt =>
           Logged(collected) = (IF AllKnown \/ metered > 0 THEN metered ELSE Unknown)
      /\ (IF collected.known THEN collected.usage ELSE Unknown)
           = (IF AllKnown /\ SumOf(reported) <= MaxInt THEN SumOf(reported) ELSE Unknown)
  BY <1>1, SumIsTold
<1>8. Types'
  <2>1. collected.usage \in Nat
    <3>1. collected.usage \in 0 .. MaxInt /\ MaxInt \in Nat
      BY <1>1, EmbeddingAssumption DEF Types, Collections
    <3>2. QED BY <3>1
  <2>2. count' \in Nat \cup {Unknown} BY <1>5, <2>1
  <2>3. QED BY <1>1, <1>5, <1>7, <2>2 DEF Types
<1>9. VectorsMatchInputs'
  <2>1. collected.vectors \in Seq(Vectors) BY <1>1 DEF Types, Collections
  <2>2. DOMAIN collected.vectors = 1 .. request.inputs BY <1>2, <1>3, <2>1
  <2>3. \A i \in 1 .. request.inputs :
           /\ collected.vectors[i].for = i
           /\ collected.vectors[i].width = Retained(collected.width)
    BY <1>1, <1>3 DEF Collecting
  <2>4. ASSUME NEW i \in 1 .. request.inputs, request.dimensions > 0
        PROVE  Retained(collected.width) = request.dimensions
    <3>1. collected.vectors # <<>> BY <1>2, <1>3
    <3>2. QED BY <1>1, <2>4, <3>1 DEF Collecting
  <2>5. \A i \in 1 .. request.inputs : 1 \in 1 .. request.inputs BY <1>2
  <2>6. \A i \in DOMAIN collected.vectors :
           /\ collected.vectors[i].for = i
           /\ collected.vectors[i].width = collected.vectors[1].width
           /\ request.dimensions > 0 => collected.vectors[i].width = request.dimensions
    BY <2>2, <2>3, <2>4, <2>5
  <2>7. QED BY <1>3, <1>5, <2>6 DEF VectorsMatchInputs
<1>10. CountedOnce'
  <2>1. Collects' BY <1>1, <1>5 DEF Collects, Accepted
  <2>2. SumOf(reported)' = SumOf(reported) /\ (AllKnown' <=> AllKnown)
    BY <1>1 DEF SumOf, AllKnown
  <2>3. metered' = SumOf(Countable)' BY <1>6 DEF SumKnown
  <2>4. ~request.legacy =>
           count' = (IF AllKnown /\ SumOf(reported) <= MaxInt THEN SumOf(reported) ELSE Unknown)
    BY <1>5, <1>7
  <2>5. metered <= MaxInt => logged' = (IF AllKnown \/ metered > 0 THEN metered ELSE Unknown)
    BY <1>5, <1>7
  <2>6. QED BY <1>1, <1>5, <2>1, <2>2, <2>3, <2>4, <2>5 DEF CountedOnce
<1>11. QED BY <1>5, <1>6, <1>8, <1>9, <1>10 DEF IInv, BatchesAddUp

LEMMA InvRest ==
    IInv /\ (RefuseRequest \/ AnswerNothing \/ BatchFails \/ UNCHANGED embeddingVars) => IInv'
<1> SUFFICES ASSUME IInv,
                    RefuseRequest \/ AnswerNothing \/ BatchFails \/ UNCHANGED embeddingVars
             PROVE  IInv'
  OBVIOUS
<1>1. /\ UNCHANGED <<request, start, collected, metered, reported>>
      /\ answer' \in {"none", "failed", "vectors"}
  BY DEF IInv, Types, RefuseRequest, AnswerNothing, BatchFails, Refuse, embeddingVars
<1>2. SumKnown' BY <1>1, SameSum DEF IInv
<1>3. count' = count
  BY DEF RefuseRequest, AnswerNothing, BatchFails, Refuse, embeddingVars
<1>4. logged' \in Nat \cup {Unknown}
  <2>1. Types /\ SumKnown BY DEF IInv
  <2>2. Logged(collected) \in Nat \cup {Unknown} BY <2>1, SumIsTold
  <2>3. logged' = logged \/ logged' = Logged(collected)
    BY DEF RefuseRequest, AnswerNothing, BatchFails, Refuse, embeddingVars
  <2>4. QED BY <2>1, <2>2, <2>3 DEF Types
<1>5. Types' BY <1>1, <1>3, <1>4 DEF IInv, Types
<1>6. (Collects' <=> Collects) /\ SumOf(reported)' = SumOf(reported)
      /\ (AllKnown' <=> AllKnown) /\ metered' = SumOf(Countable)'
  BY <1>1, <1>2 DEF Collects, Accepted, SumOf, AllKnown, SumKnown
<1>7. CASE RefuseRequest
  <2>1. answer' = "failed" /\ vectors' = <<>> /\ logged' = logged /\ ~Collects
    BY <1>7 DEF RefuseRequest, IInv, Collects
  <2>2. QED BY <1>1, <1>2, <1>5, <1>6, <2>1
            DEF IInv, BatchesAddUp, VectorsMatchInputs, CountedOnce
<1>8. CASE AnswerNothing
  <2>1. /\ answer' = "vectors" /\ vectors' = <<>> /\ logged' = logged /\ ~Collects
        /\ request.inputs = 0
    BY <1>8 DEF AnswerNothing, Collects
  <2>2. QED BY <1>1, <1>2, <1>5, <1>6, <2>1
            DEF IInv, BatchesAddUp, VectorsMatchInputs, CountedOnce
<1>9. CASE BatchFails
  BY <1>2, <1>5, <1>9, InvRefuse DEF BatchFails
<1>10. CASE UNCHANGED embeddingVars
  <2>1. UNCHANGED <<answer, vectors, logged>> BY <1>10 DEF embeddingVars
  <2>2. Collecting(collected, start)' <=> Collecting(collected, start)
    BY <1>1 DEF Collecting, Retained, MinOf
  <2>3. VectorsMatchInputs' <=> VectorsMatchInputs BY <1>1, <2>1 DEF VectorsMatchInputs
  <2>4. CountedOnce' BY <1>1, <1>3, <1>6, <2>1 DEF IInv, BatchesAddUp, CountedOnce
  <2>5. QED BY <1>2, <1>5, <2>1, <2>2, <2>3, <2>4 DEF IInv, BatchesAddUp
<1>11. QED BY <1>7, <1>8, <1>9, <1>10

LEMMA InvStep == IInv /\ [EmbeddingNext]_embeddingVars => IInv'
<1>1. ASSUME IInv, NEW entries \in [1 .. BatchCount -> Entries],
             NEW tokens \in TokenCounts \cup {Unknown}, Batch(entries, tokens)
      PROVE  IInv'
  BY <1>1, InvBatch
<1>2. QED BY <1>1, InvAnswer, InvRest DEF EmbeddingNext

LEMMA Invariant == EmbeddingSpec => []IInv
BY InvInit, InvStep, PTL DEF EmbeddingSpec

\* Type correctness: no sum passes the largest int and no collection its limit, for
\* any batches of any upstream (translate/embedding_batches.go).
THEOREM TypeCorrect == EmbeddingSpec => []EmbeddingTypeOK
<1>1. IInv => EmbeddingTypeOK
  <2> SUFFICES ASSUME Types PROVE EmbeddingTypeOK
    BY DEF IInv
  <2>1. request.inputs \in 0 .. MaxInputs + 1 /\ request.batchSize \in BatchSizes
    BY DEF Types, Requests
  <2>2. collected.usage \in 0 .. MaxInt /\ collected.size \in 0 .. MaxCollected
    BY DEF Types, Collections
  <2>3. collected.known \in BOOLEAN /\ collected.estimated \in BOOLEAN
    BY DEF Types, Collections
  <2>4. QED BY <2>1, <2>2, <2>3 DEF Types, EmbeddingTypeOK
<1>2. QED BY <1>1, Invariant, PTL

\* Whatever the upstream reorders and however the inputs are batched: an answer has
\* the vectors of its inputs in their order and of one width, the count of an answer
\* is the sum of its batches or absent, and the access log and the metrics agree.
THEOREM EmbeddingsAddUp == EmbeddingSpec => []BatchesAddUp
BY Invariant, PTL DEF IInv
=============================================================================
