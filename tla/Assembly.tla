------------------------------ MODULE Assembly ------------------------------
(***************************************************************************)
(* What stream.Assembler makes of the chunks of one answer                 *)
(* (internal/stream: assemble.go, think.go, tools.go): the text is split   *)
(* at the tags of one thinking block, the fragments of tool calls are      *)
(* joined by their upstream index, and everything kept is bounded.  The    *)
(* upstream cuts the answer into chunks wherever it likes.                 *)
(*                                                                         *)
(* A tag is two or three letters, which are also ordinary text; an         *)
(* argument is a sequence of three letters of which "{", blanks and "}"    *)
(* make an object; one label stands for a call's ID and its name, which    *)
(* are bounded and joined alike.  Log probabilities, times, choices other  *)
(* than the first and counts of 2^63 bytes are left out; a failing client  *)
(* is in Inference.                                                        *)
(***************************************************************************)
EXTENDS Integers, SequencesExt, FiniteSetsExt

CONSTANTS
    Assemblies,     \* the options: [aggregate, visible, thinkTags, thinkInitial, wrap, maxToolCalls]
    Fragments,      \* the fragments of calls that come: [index, label, arguments]
    Counts,         \* the usage an event may report
    MaxAggregate,   \* limits.max_aggregate_bytes
    MaxToolBytes,   \* limits.max_tool_call_bytes
    MaxAnswer       \* bound of the model: the size of an answer

Absent == -1
ASSUME AssemblyAssumption ==
    /\ {MaxAggregate, MaxToolBytes, MaxAnswer} \subseteq Nat /\ Counts \subseteq Nat
    /\ \A f \in Fragments :
        f.index \in Int /\ f.label \in Seq({"n"}) /\ f.arguments \in Seq({"{", "}", " "})
    /\ \A o \in Assemblies :
        /\ {o.aggregate, o.visible, o.thinkTags, o.thinkInitial, o.wrap} \subseteq BOOLEAN
        /\ o.maxToolCalls \in Nat \ {0}

OpenTag == <<"<", "t">>
CloseTag == <<"<", "/", "t">>
Letters == {"<", "/", "t"}
Reasons == {"null", "stop", "length", "content_filter"}

VARIABLES
    options, assembler,
    calls,          \* what Finish returned
    phase,          \* "feeding", "finished" or "failed"
    fed             \* history: the answer as if it had come in one piece

assemblyVars == <<options, assembler, calls, phase, fed>>

AssemblyInit ==
    /\ options \in Assemblies
    /\ assembler = [content |-> <<>>, thinking |-> <<>>, textBytes |-> 0, failed |-> "no",
                    inside |-> options.thinkInitial, extracted |-> FALSE, pending |-> <<>>,
                    parts |-> <<>>, usage |-> Absent, reason |-> "stop", filtered |-> FALSE]
    /\ calls = <<>> /\ phase = "feeding"
    /\ fed = [text |-> <<>>, reasoning |-> 0, parts |-> <<>>, usage |-> Absent, events |-> 0]

\* What a list makes of something, element by element (FoldLeft, written as a function).
Through(Take(_, _), base, list) ==
    LET upTo[n \in 0 .. Len(list)] == IF n = 0 THEN base ELSE Take(upTo[n - 1], list[n])
    IN  upTo[Len(list)]
----------------------------------------------------------------------------
\* Assembler.output: the text is counted, then kept (aggregate) or written.
Output(a, content, thinking) ==
    LET shown == IF options.visible THEN thinking ELSE <<>>
        retained == Len(a.content) + Len(a.thinking)
        counted == [a EXCEPT !.textBytes = @ + Len(content) + Len(thinking)]
    IN IF a.failed # "no" THEN a
       ELSE IF options.aggregate /\ Len(content) + Len(shown) > MaxAggregate - retained
            THEN [counted EXCEPT !.failed = "limit"]
            ELSE [counted EXCEPT !.content = @ \o content, !.thinking = @ \o shown]

\* strings.Index: where the tag begins, or 0.
Find(text, tag) ==
    LET at == {i \in 1 .. Len(text) - Len(tag) + 1 : SubSeq(text, i, i + Len(tag) - 1) = tag}
    IN IF at = {} THEN 0 ELSE Min(at)

Before(text, at) == SubSeq(text, 1, at - 1)
After(text, at, tag) == SubSeq(text, at + Len(tag), Len(text))

SplitterOutput(a, text) ==
    IF a.inside THEN Output(a, <<>>, text) ELSE Output(a, text, <<>>)

\* Variant: nothing is held, as if tags never were cut.
HoldNothing(a, text, tag) == SplitterOutput(a, text)

\* The end of the text that may begin the tag is kept for the next chunk.
HoldBack(a, text, tag) ==
    LET hold == Max({n \in 0 .. Len(tag) - 1 : IsSuffix(SubSeq(tag, 1, n), text)})
    IN SplitterOutput([a EXCEPT !.pending = SubSeq(text, Len(text) - hold + 1, Len(text))],
                      SubSeq(text, 1, Len(text) - hold))

FeedInside(a, text) ==
    LET at == Find(text, CloseTag)
    IN IF at = 0 THEN HoldBack(a, text, CloseTag)
       ELSE Output([SplitterOutput(a, Before(text, at)) EXCEPT !.inside = FALSE, !.extracted = TRUE],
                   After(text, at, CloseTag), <<>>)

FeedOutside(a, text) ==
    LET at == Find(text, OpenTag)
    IN IF at = 0 THEN HoldBack(a, text, OpenTag)
       ELSE FeedInside([SplitterOutput(a, Before(text, at)) EXCEPT !.inside = TRUE],
                       After(text, at, OpenTag))

SplitterFeed(a, content) ==
    LET text == a.pending \o content
        b == [a EXCEPT !.pending = <<>>]
    IN IF b.extracted THEN Output(b, text, <<>>)
       ELSE IF b.inside THEN FeedInside(b, text) ELSE FeedOutside(b, text)

SplitterFinish(a) == SplitterOutput([a EXCEPT !.pending = <<>>], a.pending)
----------------------------------------------------------------------------
(* ToolAccumulator                                                          *)

NoCall == [label |-> <<>>, arguments |-> <<>>]
Join(call, part) ==
    [label |-> call.label \o part.label, arguments |-> call.arguments \o part.arguments]

Put(f, key, value) == [x \in DOMAIN f \cup {key} |-> IF x = key THEN value ELSE f[x]]
ToolsFail(a, why) == [a EXCEPT !.failed = why, !.parts = <<>>]

AddFragment(a, fragment) ==
    LET i == fragment.index
        known == i \in DOMAIN a.parts
        new == Join(IF known THEN a.parts[i] ELSE NoCall, fragment)
        counted == [a EXCEPT !.textBytes = @ + Len(fragment.arguments)]
    IN IF a.failed # "no" THEN a
       ELSE IF i < 0 THEN ToolsFail(counted, "malformed")
       ELSE IF \/ ~known /\ Cardinality(DOMAIN a.parts) >= options.maxToolCalls
               \/ Len(new.label) > MaxToolBytes \/ Len(new.arguments) > MaxToolBytes
            THEN ToolsFail(counted, "limit")
       ELSE [counted EXCEPT !.parts = Put(a.parts, i, new)]

\* json.Compact, and what stands for an object.
Compact(text) == SelectSeq(text, LAMBDA c : c # " ")
IsObject(text) == Compact(text) = <<"{", "}">>

\* The arguments as they are returned: none is the empty object, and the wrapped
\* ones are longer than they came.
Arguments(text) ==
    IF text = <<>> THEN <<"{", "}">>
    ELSE IF IsObject(text) THEN Compact(text) ELSE <<"_raw">> \o text

Problem(text) ==
    IF text # <<>> /\ ~IsObject(text) /\ ~options.wrap THEN "arguments"
    ELSE IF Len(Arguments(text)) > MaxToolBytes THEN "limit" ELSE "no"

CallOf(i, parts) ==
    [index |-> i, label |-> parts[i].label, arguments |-> Arguments(parts[i].arguments)]

\* Variant: the calls in the order of a map.
CallsDownwards(parts) ==
    LET indexes == SetToSortSeq(DOMAIN parts, >)
    IN [k \in 1 .. Len(indexes) |-> CallOf(indexes[k], parts)]

\* sort.Ints.
Ascending(S) ==
    CHOOSE s \in [1 .. Cardinality(S) -> S] : \A j, k \in DOMAIN s : j < k => s[j] < s[k]

CallsInOrder(parts) ==
    LET indexes == Ascending(DOMAIN parts)
    IN [k \in 1 .. Len(indexes) |-> CallOf(indexes[k], parts)]

\* Variant: what wrapping adds is not measured.
ToolsFinishUnmeasured(a) ==
    LET bad == {i \in DOMAIN a.parts : Problem(a.parts[i].arguments) = "arguments"}
    IN IF a.failed # "no" \/ bad = {} THEN a ELSE ToolsFail(a, "arguments")

\* Every call is validated before any is returned.
ToolsFinish(a) ==
    LET bad == {i \in DOMAIN a.parts : Problem(a.parts[i].arguments) # "no"}
    IN IF a.failed # "no" \/ bad = {} THEN a
       ELSE ToolsFail(a, Problem(a.parts[Min(bad)].arguments))
----------------------------------------------------------------------------
\* What an event says of the answer as a whole.
Noted(a, e) ==
    LET b == IF e.usage = Absent THEN a ELSE [a EXCEPT !.usage = e.usage]
    IN IF e.finish = "null" THEN b
       ELSE [b EXCEPT !.reason = IF e.finish = "length" THEN "length" ELSE "stop",
                      !.filtered = @ \/ e.finish = "content_filter"]

AddAll(a, parts) == Through(AddFragment, a, parts)

Fed(a, e) ==
    LET b == Output(Noted(a, e), <<>>, [i \in 1 .. e.reasoning |-> "r"])
        c == IF options.thinkTags THEN SplitterFeed(b, e.content) ELSE Output(b, e.content, <<>>)
    IN AddAll(c, e.parts)

\* The events of which the answer is made; the bound of the model.
Size(e) == Len(e.content) + e.reasoning + 2 * Len(e.parts)
SizeFed == Len(fed.text) + fed.reasoning + 2 * Len(fed.parts) + 2 * fed.events
Pieces(n) ==
    [content : [1 .. n -> Letters], reasoning : 0 .. 1, finish : {"null"}, usage : {Absent},
     parts : BoundedSeq(Fragments, Min({2, (MaxAnswer - SizeFed - n) \div 2}))]
Remarks ==
    [content : {<<>>}, reasoning : {0}, parts : {<<>>}, finish : Reasons, usage : Counts \cup {Absent}]
Events ==
    {e \in UNION {Pieces(n) : n \in 0 .. MaxAnswer - SizeFed} : Size(e) \in 1 .. MaxAnswer - SizeFed}
    \cup {e \in Remarks : SizeFed + 2 <= MaxAnswer /\ (e.finish # "null" \/ e.usage # Absent)}

Feed(e) ==
    /\ phase = "feeding"
    /\ assembler' = Fed(assembler, e)
    /\ phase' = (IF assembler'.failed = "no" THEN "feeding" ELSE "failed")
    /\ fed' = [text |-> fed.text \o e.content, reasoning |-> fed.reasoning + e.reasoning,
               parts |-> fed.parts \o e.parts,
               usage |-> IF e.usage = Absent THEN fed.usage ELSE e.usage,
               events |-> fed.events + (IF Size(e) = 0 THEN 1 ELSE 0)]
    /\ UNCHANGED <<options, calls>>

\* Assembler.EstimateUsage, after a whole answer only.
Estimated(a) ==
    IF a.failed # "no" \/ a.usage # Absent THEN a
    ELSE [a EXCEPT !.usage = (a.textBytes \div 4) + (IF a.textBytes % 4 = 0 THEN 0 ELSE 1)]

Finish ==
    /\ phase = "feeding"
    /\ LET flushed == IF options.thinkTags THEN SplitterFinish(assembler) ELSE assembler
           done == ToolsFinish(flushed)
       IN /\ assembler' = [Estimated(done) EXCEPT !.parts = <<>>]
          /\ phase' = (IF done.failed = "no" THEN "finished" ELSE "failed")
          /\ calls' = (IF done.failed = "no" THEN CallsInOrder(done.parts) ELSE <<>>)
    /\ UNCHANGED <<options, fed>>

AssemblyNext == (\E e \in Events : Feed(e)) \/ Finish

AssemblySpec == AssemblyInit /\ [][AssemblyNext]_assemblyVars
----------------------------------------------------------------------------
AssemblyTypeOK ==
    /\ options \in Assemblies /\ phase \in {"feeding", "finished", "failed"}
    /\ assembler.content \in Seq(Letters) /\ assembler.thinking \in Seq(Letters \cup {"r"})
    /\ assembler.pending \in Seq(Letters) /\ assembler.textBytes \in Nat
    /\ assembler.failed \in {"no", "limit", "malformed", "arguments"}
    /\ (assembler.failed # "no") <=> (phase = "failed")
    /\ assembler.reason \in {"stop", "length"} /\ assembler.usage \in Nat \cup {Absent}
    /\ Len(assembler.pending) < Len(CloseTag)

\* The reference: the whole text at once, before, inside and after the one block.
WholeContent ==
    LET open == Find(fed.text, OpenTag)
        from == IF options.thinkInitial THEN 1 ELSE open + Len(OpenTag)
        close == Find(SubSeq(fed.text, from, Len(fed.text)), CloseTag)
    IN IF ~options.thinkTags \/ (open = 0 /\ ~options.thinkInitial) THEN fed.text
       ELSE (IF options.thinkInitial THEN <<>> ELSE Before(fed.text, open)) \o
            (IF close = 0 THEN <<>> ELSE After(fed.text, from + close - 1, CloseTag))

WholeThinking ==
    LET open == Find(fed.text, OpenTag)
        from == IF options.thinkInitial THEN 1 ELSE open + Len(OpenTag)
        rest == SubSeq(fed.text, from, Len(fed.text))
        close == Find(rest, CloseTag)
    IN IF ~options.thinkTags \/ (open = 0 /\ ~options.thinkInitial) THEN <<>>
       ELSE IF close = 0 THEN rest ELSE Before(rest, close)

TextSize == Len(WholeContent) + Len(WholeThinking) + fed.reasoning
            + Through(LAMBDA n, p : n + Len(p.arguments), 0, fed.parts)

Split == Through(LAMBDA text, c : IF c = "r" THEN text ELSE Append(text, c),
                 <<>>, assembler.thinking)
Held(wanted) == IF assembler.inside = wanted THEN assembler.pending ELSE <<>>

\* However the answer is cut into chunks, the text given out so far and the part
\* held are those of the whole text split at once; what is held may still become
\* the tag; a failure gives out no text the whole would not; and the estimate of
\* the usage, which the provider's count replaces, depends on the text alone.
SplitAsWhole ==
    /\ IsPrefix(assembler.content, WholeContent)
    /\ phase # "failed" =>
        /\ assembler.content \o Held(FALSE) = WholeContent
        /\ options.visible => /\ Split \o Held(TRUE) = WholeThinking
                              /\ Len(assembler.thinking) = Len(Split) + fed.reasoning
        /\ IsStrictPrefix(assembler.pending, IF assembler.inside THEN CloseTag ELSE OpenTag)
        /\ assembler.textBytes + Len(assembler.pending) = TextSize
    /\ phase = "finished" =>
        assembler.usage = IF fed.usage = Absent THEN (TextSize + 3) \div 4 ELSE fed.usage

Indexes == {fed.parts[k].index : k \in DOMAIN fed.parts}
Joined(i) ==
    Through(LAMBDA call, p : IF p.index = i THEN Join(call, p) ELSE call, NoCall, fed.parts)

\* The calls are returned all together, after the last chunk, in the order of the
\* upstream's indexes, each with its own fragments in the order they came; a failed
\* answer returns none of them.
CallsWhole ==
    IF phase = "finished"
    THEN /\ {calls[k].index : k \in DOMAIN calls} = Indexes
         /\ \A j, k \in DOMAIN calls : j < k => calls[j].index < calls[k].index
         /\ \A k \in DOMAIN calls :
              LET whole == Joined(calls[k].index)
              IN /\ calls[k].label = whole.label
                 /\ calls[k].arguments = Arguments(whole.arguments)
    ELSE calls = <<>>

TooLarge ==
    \/ options.aggregate
       /\ Len(WholeContent) + (IF options.visible THEN Len(WholeThinking) + fed.reasoning ELSE 0)
            > MaxAggregate
    \/ Cardinality(Indexes) > options.maxToolCalls \/ \E i \in Indexes : i < 0
    \/ \E i \in Indexes : Len(Joined(i).label) > MaxToolBytes \/ Len(Joined(i).arguments) > MaxToolBytes
Unusable == \E i \in Indexes : Problem(Joined(i).arguments) # "no"

\* An answer is refused for what it is and not for how it was cut: only when it is
\* too large or its calls are unusable, and then always.
RefusedOnMerit ==
    /\ phase = "failed" => TooLarge \/ Unusable
    /\ phase = "finished" => ~TooLarge /\ ~Unusable
=============================================================================
