----------------------------- MODULE Embedding -----------------------------
(***************************************************************************)
(* One embedding request (internal/server/embed.go): the inputs go         *)
(* upstream in batches, each answer is decoded as a whole                  *)
(* (translate/embeddings.go) and collected (translate/embedding_batches.go)*)
(* and only a complete collection is answered.  The tokens of a batch are  *)
(* counted even if a later one fails.                                      *)
(*                                                                         *)
(* A vector is the input the upstream computed it for and its width; its   *)
(* numbers, their normalisation and the bytes of the body are left out.    *)
(* Sizes are counted in numbers instead of eight bytes.  Authorisation and *)
(* the model's resolution are in Publication and Catalog; here they are    *)
(* one reason among others to refuse the request.                          *)
(***************************************************************************)
EXTENDS Integers, Sequences, FiniteSets

CONSTANTS
    MaxInputs,      \* limits.max_embed_inputs
    BatchSizes,     \* embed.batch_size, 0 for one batch
    Dimensions,     \* the dimensions a request asks for, 0 for all
    Widths,         \* the widths of the upstream's vectors
    TokenCounts,    \* the usage a batch may report
    MaxBatch,       \* limits.max_upstream_json_bytes, in numbers
    MaxCollected,   \* limits.max_aggregate_bytes, in numbers
    MaxInt          \* the largest int

ASSUME EmbeddingAssumption ==
    /\ MaxInputs \in Nat \ {0} /\ BatchSizes \subseteq Nat /\ Dimensions \subseteq Nat
    /\ Widths \subseteq Nat /\ TokenCounts \subseteq Int
    /\ {MaxBatch, MaxCollected, MaxInt} \subseteq Nat

Unindexed == -1     \* an entry without index
Missing == -1       \* an entry without a vector of finite numbers
Unknown == -1000    \* no usage reported

VARIABLES
    request,        \* [inputs, batchSize, dimensions, legacy, estimate, malformed, able]
    start,          \* the loop's first input not yet sent
    collected,      \* EmbeddingBatches
    answer,         \* what the client gets: "none" yet, "failed" or "vectors"
    vectors, count, \* of an answer with vectors: prompt_eval_count, or Unknown
    logged,         \* details.promptTokens of the access log, at the end
    metered,        \* the tokens that metrics.Usage has counted
    reported        \* history: what each decoded batch reported

embeddingVars == <<request, start, collected, answer, vectors, count, logged, metered, reported>>

EmbeddingInit ==
    /\ request \in [inputs : 0 .. MaxInputs + 1, batchSize : BatchSizes, dimensions : Dimensions,
                    legacy : BOOLEAN, estimate : BOOLEAN, malformed : BOOLEAN, able : BOOLEAN]
    /\ request.legacy => request.inputs <= 1 /\ request.dimensions = 0
    /\ start = 0 /\ answer = "none" /\ vectors = <<>> /\ count = Unknown
    /\ logged = Unknown /\ metered = 0 /\ reported = <<>>
    /\ collected = [vectors |-> <<>>, width |-> 0, size |-> 0, usage |-> 0, known |-> TRUE,
                    estimated |-> FALSE, failed |-> FALSE]
----------------------------------------------------------------------------
\* translate.EmbeddingInputs takes a string or a list of strings that is not too
\* long; `malformed` stands for all else in the request that is refused.
Accepted == ~request.malformed /\ (request.legacy \/ request.inputs <= MaxInputs)

\* Nothing is sent for no inputs, nor for a model known not to embed.
Collects == Accepted /\ request.inputs > 0 /\ request.able
----------------------------------------------------------------------------
(* translate.DecodeEmbeddings                                               *)

MinOf(m, n) == IF m < n THEN m ELSE n
BatchSize == IF request.batchSize = 0 THEN request.inputs ELSE request.batchSize
BatchCount == MinOf(BatchSize, request.inputs - start)

Retained(width) ==
    IF request.dimensions > 0 THEN MinOf(width, request.dimensions) ELSE width

IsIndexed(data) == data[1].index # Unindexed

\* Variant: the entries are taken in the order in which they come.
PlaceByPosition(data, p) == p - 1

\* The place of the p-th entry in the batch.
Place(data, p) == IF IsIndexed(data) THEN data[p].index ELSE p - 1

\* A batch is exposed as a whole: every place once, one width, nothing missing,
\* nothing shorter than was asked for.
Valid(data) ==
    /\ Len(data) = BatchCount
    /\ \A p \in DOMAIN data :
         /\ (data[p].index # Unindexed) <=> IsIndexed(data)
         /\ Place(data, p) \in 0 .. BatchCount - 1
         /\ data[p].width # Missing /\ data[p].width = data[1].width
         /\ data[p].width >= request.dimensions
    /\ \A p, q \in DOMAIN data : p # q => Place(data, p) # Place(data, q)
    /\ Len(data) * Retained(data[1].width) <= MaxBatch

\* The vector of an entry: the upstream computed it for the input at its index
\* or, without one, at its position.
VectorOf(data, p) ==
    [for |-> start + (IF data[p].index = Unindexed THEN p ELSE data[p].index + 1),
     width |-> Retained(data[p].width)]

Decoded(data) ==
    [i \in 1 .. Len(data) |-> VectorOf(data, CHOOSE p \in DOMAIN data : Place(data, p) = i - 1)]
----------------------------------------------------------------------------
(* EmbeddingBatches                                                         *)

\* Variant: the sum may pass the largest int.
CountedUnchecked(c, tokens, estimated) ==
    IF tokens # Unknown /\ tokens >= 0
    THEN [c EXCEPT !.usage = @ + tokens, !.estimated = @ \/ estimated]
    ELSE [c EXCEPT !.known = FALSE]

\* A count that is unknown, negative or too large makes the sum unknown for good.
Counted(c, tokens, estimated) ==
    IF tokens # Unknown /\ tokens >= 0 /\ tokens <= MaxInt - c.usage
    THEN [c EXCEPT !.usage = @ + tokens, !.estimated = @ \/ estimated]
    ELSE [c EXCEPT !.known = FALSE]

Fits(c, batch, width) ==
    /\ c.vectors # <<>> => width = c.width
    /\ Len(batch) <= request.inputs - Len(c.vectors)
    /\ Len(batch) * Retained(width) <= MaxCollected - c.size

Fail(c) == [c EXCEPT !.failed = TRUE, !.vectors = <<>>]

\* Variant: only batches that fit are counted.
AddThenCount(c, batch, width, tokens, estimated) ==
    IF Fits(c, batch, width)
    THEN [Counted(c, tokens, estimated) EXCEPT
            !.width = width, !.size = @ + Len(batch) * Retained(width), !.vectors = @ \o batch]
    ELSE Fail(c)

AddBatch(c, batch, width, tokens, estimated) ==
    LET counted == Counted(c, tokens, estimated)
    IN IF Fits(c, batch, width)
       THEN [counted EXCEPT
               !.width = width, !.size = @ + Len(batch) * Retained(width), !.vectors = @ \o batch]
       ELSE Fail(counted)
----------------------------------------------------------------------------
(* The handler                                                              *)

\* The deferred function: a count that is known, or more than nothing, is logged.
Logged(c) == IF c.known \/ c.usage > 0 THEN c.usage ELSE Unknown

Refuse(c) ==
    /\ collected' = c /\ answer' = "failed" /\ logged' = Logged(c)
    /\ UNCHANGED <<request, start, vectors, count>>

\* Refused before there is anything to collect, and to log.
RefuseRequest ==
    /\ answer = "none" /\ (~Accepted \/ (request.inputs > 0 /\ ~request.able))
    /\ answer' = "failed"
    /\ UNCHANGED <<request, start, collected, vectors, count, logged, metered, reported>>

\* Nothing to embed: an empty answer.
AnswerNothing ==
    /\ answer = "none" /\ Accepted /\ request.inputs = 0
    /\ answer' = "vectors" /\ vectors' = <<>>
    /\ UNCHANGED <<request, start, collected, count, logged, metered, reported>>

\* The call, its status or its body fails, or DecodeEmbeddings refuses the answer.
BatchFails ==
    /\ answer = "none" /\ Collects /\ start < request.inputs
    /\ Refuse(collected) /\ UNCHANGED <<metered, reported>>

\* EmbeddingBatch.EstimateUsage: a token for each input, if nothing is reported.
Tokens(tokens) == IF tokens = Unknown /\ request.estimate THEN BatchCount ELSE tokens

\* Metrics.Usage counts what is known and not negative.
Metered(tokens) == IF tokens # Unknown /\ tokens >= 0 THEN tokens ELSE 0

Batch(data, tokens) ==
    /\ answer = "none" /\ Collects /\ start < request.inputs
    /\ Valid(data)
    /\ LET used == Tokens(tokens)
           c == AddBatch(collected, Decoded(data), data[1].width, used, used # tokens)
       IN /\ metered' = metered + Metered(used)
          /\ reported' = Append(reported, used)
          /\ IF c.failed THEN Refuse(c)
             ELSE /\ collected' = c /\ start' = start + BatchSize
                  /\ UNCHANGED <<request, answer, vectors, count, logged>>

Complete(c) == Len(c.vectors) = request.inputs

\* EmbeddingBatches.Finish; the legacy endpoint answers the one vector, and no count.
Answer ==
    /\ answer = "none" /\ Collects /\ start >= request.inputs
    /\ IF ~Complete(collected)
       THEN Refuse(Fail(collected))
       ELSE /\ answer' = "vectors" /\ vectors' = collected.vectors
            /\ count' = (IF collected.known /\ ~request.legacy THEN collected.usage ELSE Unknown)
            /\ logged' = Logged(collected)
            /\ UNCHANGED <<request, start, collected>>
    /\ UNCHANGED <<metered, reported>>

\* What the upstream may answer: entries in any order, with or without indexes.
Entries == [index : 0 .. MaxInputs \cup {Unindexed}, width : Widths \cup {Missing}]

EmbeddingNext ==
    \/ RefuseRequest \/ AnswerNothing \/ BatchFails \/ Answer
    \/ \E data \in [1 .. BatchCount -> Entries], tokens \in TokenCounts \cup {Unknown} :
         Batch(data, tokens)

EmbeddingSpec == EmbeddingInit /\ [][EmbeddingNext]_embeddingVars
----------------------------------------------------------------------------
EmbeddingTypeOK ==
    /\ request.inputs \in 0 .. MaxInputs + 1 /\ request.batchSize \in BatchSizes
    /\ start \in Nat /\ answer \in {"none", "failed", "vectors"}
    /\ collected.usage \in 0 .. MaxInt /\ collected.size \in 0 .. MaxCollected
    /\ collected.known \in BOOLEAN /\ collected.estimated \in BOOLEAN
    /\ collected.failed => collected.vectors = <<>>
    /\ metered \in Nat /\ count \in Nat \cup {Unknown} /\ logged \in Nat \cup {Unknown}

\* An answer has exactly the vectors of its inputs in the order of the request, all
\* of one width and of the dimensions asked for, however the upstream ordered and
\* the handler batched them; every other answer has none.
VectorsMatchInputs ==
    IF answer = "vectors"
    THEN /\ Len(vectors) = request.inputs
         /\ \A i \in DOMAIN vectors :
              /\ vectors[i].for = i /\ vectors[i].width = vectors[1].width
              /\ request.dimensions > 0 => vectors[i].width = request.dimensions
    ELSE vectors = <<>>

SumOf(s) ==
    LET sum[n \in 0 .. Len(s)] == IF n = 0 THEN 0 ELSE sum[n - 1] + s[n]
    IN sum[Len(s)]
IsCount(n) == n # Unknown /\ n >= 0
AllKnown == \A k \in DOMAIN reported : IsCount(reported[k])
Countable == [k \in DOMAIN reported |-> IF IsCount(reported[k]) THEN reported[k] ELSE 0]

\* No batch is counted twice or forgotten: a count in the answer is the sum of all
\* its batches and absent if one of them is unknown or the sum is too large; the
\* access log has the same tokens as the metrics, also of an answer that failed,
\* and neither has any of a request that sent nothing.
CountedOnce ==
    /\ answer = "vectors" /\ Collects /\ ~request.legacy =>
         count = (IF AllKnown /\ SumOf(reported) <= MaxInt THEN SumOf(reported) ELSE Unknown)
    /\ metered = SumOf(Countable)
    /\ answer # "none" /\ Collects /\ metered <= MaxInt =>
         logged = (IF AllKnown \/ metered > 0 THEN metered ELSE Unknown)
    /\ ~Collects => reported = <<>> /\ logged = Unknown

\* An answer of several batches is all there, in order and counted, or it is none.
BatchesAddUp == VectorsMatchInputs /\ CountedOnce
=============================================================================
