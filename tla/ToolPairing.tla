---------------------------- MODULE ToolPairing ----------------------------
(***************************************************************************)
(* The messages of a chat on their way upstream (translate.Messages): the  *)
(* upstream wants every tool call of an assistant turn answered, by its    *)
(* id, right after the turn; Ollama's clients may leave out ids, results   *)
(* or whole turns, repeat a result, or put a system message in between.    *)
(*                                                                         *)
(* One action maps one message.  Texts, arguments and images are left out: *)
(* a result's content is an opaque value, and `malformed` stands for tool  *)
(* arguments that are no object and for images that are refused.           *)
(***************************************************************************)
EXTENDS Naturals, Sequences, FiniteSets, SequencesExt

CONSTANTS
    MaxMessages,    \* bound: the messages of one chat
    CallLists,      \* the tool calls of an assistant message: [id, name] each
    Results,        \* the tool messages: [id, name, content]
    Policies        \* [sort, synthesize, orphanError, system]

ASSUME PairingAssumption ==
    MaxMessages \in Nat /\ \A calls \in CallLists : calls \in Seq(ToSet(calls))

NoId == <<>>        \* ids are sequences: <<label>> from the client, longer if generated
NoName == ""

VARIABLES
    policy,         \* compat.*, and whether the model's entry has a system text
    hasSystem,      \* what the first loop over the input found
    input,          \* the messages mapped so far
    output,         \* result.Messages; `from` is the position in input, 0 for none
    pending,        \* the calls of the last assistant turn
    consumed,       \* id of an answered call -> the content that answered it
    allIDs,         \* every call's id
    mapping         \* "going", "done" or "refused"

pairingVars == <<policy, hasSystem, input, output, pending, consumed, allIDs, mapping>>

Outgoing(role, id, content, from, calls) ==
    [role |-> role, id |-> id, content |-> content, from |-> from, calls |-> calls]
Plain(role, from) == Outgoing(role, NoId, "text", from, <<>>)

PairingInit ==
    /\ policy \in Policies /\ hasSystem \in BOOLEAN
    /\ input = <<>> /\ pending = <<>> /\ consumed = <<>> /\ allIDs = {} /\ mapping = "going"
    /\ output = IF (policy.sort /\ hasSystem) \/ (~hasSystem /\ policy.system)
                THEN <<Plain("system", 0)>> ELSE <<>>
----------------------------------------------------------------------------
Free(call) == call.id \notin DOMAIN consumed

Placeholder(call) == Outgoing("tool", call.id, "no result", 0, <<>>)

\* Variant: the calls that are answered already get a placeholder too.
FlushesAll == [k \in DOMAIN pending |-> Placeholder(pending[k])]

\* flush: what is appended for the calls left without a result.
Flushed ==
    LET upTo[n \in 0 .. Len(pending)] ==
            IF n = 0 THEN <<>>
            ELSE IF Free(pending[n]) THEN Append(upTo[n - 1], Placeholder(pending[n]))
            ELSE upTo[n - 1]
    IN  IF policy.synthesize THEN upTo[Len(pending)] ELSE <<>>

\* Variant: a result takes the first open call, whatever it names.
FirstOpen(result) == SelectInSeq(pending, Free)

\* Variant: the name counts more than the id.
NameFirst(result) ==
    LET byName == SelectInSeq(pending,
                              LAMBDA c : Free(c) /\ result.name # NoName /\ c.name = result.name)
        byId == SelectInSeq(pending, LAMBDA c : Free(c) /\ result.id # NoId /\ c.id = result.id)
    IN  IF byName # 0 THEN byName ELSE IF byId # 0 THEN byId ELSE SelectInSeq(pending, Free)

\* The position of the call that a result answers, 0 for none: the one of its id,
\* else the first of its name, else the first, of those still open.
Chosen(result) ==
    LET byId == SelectInSeq(pending, LAMBDA c : Free(c) /\ result.id # NoId /\ c.id = result.id)
        byName == SelectInSeq(pending,
                              LAMBDA c : Free(c) /\ result.name # NoName /\ c.name = result.name)
    IN  IF byId # 0 THEN byId ELSE IF byName # 0 THEN byName ELSE SelectInSeq(pending, Free)

\* Variant: any second result for a call counts as a repetition.
RepeatsId(result) == result.id # NoId /\ result.id \in DOMAIN consumed

Repeats(result) ==
    /\ result.id # NoId /\ result.id \in DOMAIN consumed
    /\ consumed[result.id] = result.content

\* toolID: a client's call without an id gets one from its place and its name.
WithIds(calls, index) ==
    [k \in DOMAIN calls |->
        [id |-> IF calls[k].id = NoId THEN <<index, k, calls[k].name>> ELSE calls[k].id,
         name |-> calls[k].name]]

\* An id that an earlier call has, of this message or another, is refused.
IdsAreNew(calls) ==
    /\ \A k \in DOMAIN calls : calls[k].id \notin allIDs
    /\ \A j, k \in DOMAIN calls : calls[j].id = calls[k].id => j = k
----------------------------------------------------------------------------
RefuseChat(message) ==
    /\ mapping' = "refused" /\ input' = Append(input, message)
    /\ UNCHANGED <<output, pending, consumed, allIDs>>

\* Variant: the mapping of a system message ends the turn, even one that is moved.
MapSystemAndFlush(message) ==
    /\ message.role = "system" /\ policy.sort
    /\ output' = output \o Flushed /\ pending' = <<>>
    /\ input' = Append(input, message)
    /\ UNCHANGED <<consumed, allIDs, mapping>>

\* With sort_model_messages the system texts already stand at the front.
MapSystem(message) ==
    /\ message.role = "system" /\ policy.sort
    /\ input' = Append(input, message)
    /\ UNCHANGED <<output, pending, consumed, allIDs, mapping>>

MapText(message) ==
    /\ message.role = "user" \/ (message.role = "system" /\ ~policy.sort)
    /\ IF message.malformed THEN RefuseChat(message)
       ELSE /\ output' = output \o Append(Flushed, Plain(message.role, Len(input) + 1))
            /\ pending' = <<>>
            /\ input' = Append(input, message)
            /\ UNCHANGED <<consumed, allIDs, mapping>>

MapAssistant(message) ==
    /\ message.role = "assistant"
    /\ LET index == Len(input) + 1
           calls == WithIds(message.calls, index)
       IN  IF message.malformed \/ ~IdsAreNew(calls) THEN RefuseChat(message)
           ELSE /\ output' = output \o
                        Append(Flushed, Outgoing("assistant", NoId, "text", index, calls))
                /\ pending' = calls
                /\ allIDs' = allIDs \cup {calls[k].id : k \in DOMAIN calls}
                /\ input' = Append(input, message)
                /\ UNCHANGED <<consumed, mapping>>

\* The same result once more is dropped.
DropRepeated(message) ==
    /\ message.role = "tool" /\ Repeats(message)
    /\ input' = Append(input, message)
    /\ UNCHANGED <<output, pending, consumed, allIDs, mapping>>

MapResult(message) ==
    /\ message.role = "tool" /\ ~Repeats(message) /\ Chosen(message) # 0
    /\ LET id == pending[Chosen(message)].id
       IN  /\ output' = Append(output,
                               Outgoing("tool", id, message.content, Len(input) + 1, <<>>))
           /\ consumed' = [x \in DOMAIN consumed \cup {id} |->
                              IF x = id THEN message.content ELSE consumed[x]]
    /\ input' = Append(input, message)
    /\ UNCHANGED <<pending, allIDs, mapping>>

\* A result without a call becomes the user's words, or refuses the chat.
MapOrphan(message) ==
    /\ message.role = "tool" /\ ~Repeats(message) /\ Chosen(message) = 0
    /\ IF policy.orphanError THEN RefuseChat(message)
       ELSE /\ output' = Append(output,
                                Outgoing("user", NoId, message.content, Len(input) + 1, <<>>))
            /\ input' = Append(input, message)
            /\ UNCHANGED <<pending, consumed, allIDs, mapping>>

\* Variant: the calls of the last turn stay open.
FinishOpen ==
    /\ mapping = "going" /\ mapping' = "done"
    /\ (hasSystem => \E k \in DOMAIN input : input[k].role = "system")
    /\ UNCHANGED <<policy, hasSystem, input, output, pending, consumed, allIDs>>

\* The input ends; it had a system message if the first loop saw one.
FinishMapping ==
    /\ mapping = "going" /\ mapping' = "done"
    /\ (hasSystem => \E k \in DOMAIN input : input[k].role = "system")
    /\ output' = output \o Flushed /\ pending' = <<>>
    /\ UNCHANGED <<policy, hasSystem, input, consumed, allIDs>>

Message(role, id, name, content, calls, malformed) ==
    [role |-> role, id |-> id, name |-> name, content |-> content, calls |-> calls,
     malformed |-> malformed]
Incoming ==
    {Message("user", NoId, NoName, "text", <<>>, malformed) : malformed \in BOOLEAN}
    \cup {Message("assistant", NoId, NoName, "text", calls, FALSE) : calls \in CallLists}
    \cup {Message("assistant", NoId, NoName, "text", calls, TRUE) : calls \in CallLists \ {<<>>}}
    \cup {Message("tool", r.id, r.name, r.content, <<>>, FALSE) : r \in Results}
    \cup (IF hasSystem THEN {Message("system", NoId, NoName, "text", <<>>, FALSE)} ELSE {})

MapMessage ==
    /\ mapping = "going" /\ Len(input) < MaxMessages
    /\ \E message \in Incoming :
        \/ MapSystem(message) \/ MapText(message) \/ MapAssistant(message)
        \/ DropRepeated(message) \/ MapResult(message) \/ MapOrphan(message)
    /\ UNCHANGED <<policy, hasSystem>>

PairingNext == MapMessage \/ FinishMapping

PairingSpec == PairingInit /\ [][PairingNext]_pairingVars
----------------------------------------------------------------------------
PairingTypeOK ==
    /\ policy \in Policies /\ hasSystem \in BOOLEAN /\ mapping \in {"going", "done", "refused"}
    /\ Len(input) <= MaxMessages
    /\ \A k \in DOMAIN output :
        /\ output[k].role \in {"system", "user", "assistant", "tool"}
        /\ output[k].from \in 0 .. Len(input)
    /\ {pending[k].id : k \in DOMAIN pending} \cup DOMAIN consumed \subseteq allIDs

IdsOf(calls) == {calls[k].id : k \in DOMAIN calls}

\* The tool messages right after the turn at position p of the output.
AnswersAfter(p) ==
    {q \in p + 1 .. Len(output) : \A r \in p + 1 .. q : output[r].role = "tool"}

\* Every turn is followed by at most one answer for each of its calls, by exactly
\* one if missing results are made up, and answers stand nowhere else.
TurnsAnswered ==
    /\ \A p \in DOMAIN output : output[p].role = "assistant" =>
        /\ \A q \in AnswersAfter(p) : output[q].id \in IdsOf(output[p].calls)
        /\ \A q, r \in AnswersAfter(p) : output[q].id = output[r].id => q = r
        /\ policy.synthesize => Cardinality(AnswersAfter(p)) = Len(output[p].calls)
    /\ \A q \in DOMAIN output : output[q].role = "tool" =>
        q > 1 /\ output[q - 1].role \in {"assistant", "tool"}

\* Every result goes out once and in its order, or its call carries the same already.
ResultsKept ==
    /\ \A k \in DOMAIN input : input[k].role = "tool" =>
        LET sent == {q \in DOMAIN output : output[q].from = k}
        IN  \/ Cardinality(sent) = 1 /\ \A q \in sent : output[q].content = input[k].content
            \/ /\ sent = {}
               /\ \E q \in DOMAIN output :
                    /\ output[q].from \in 1 .. k - 1
                    /\ output[q].id = input[k].id /\ output[q].content = input[k].content
    /\ \A q, r \in DOMAIN output :
        q < r /\ output[q].from # 0 /\ output[r].from # 0 => output[q].from < output[r].from

\* The results that follow the turn at position p of the input; system messages
\* that are moved to the front do not come between them.
ResultsAfter(p) ==
    {k \in p + 1 .. Len(input) :
        /\ input[k].role = "tool"
        /\ \A j \in p + 1 .. k :
            input[j].role = "tool" \/ (input[j].role = "system" /\ policy.sort)}

\* A result belongs to the call it names by its id rather than to another, then to
\* a call of the name it carries, then to an earlier one.
Rather(result, calls, h, i) ==
    LET byId(c) == result.id # NoId /\ calls[c].id = result.id
        byName(c) == result.name # NoName /\ calls[c].name = result.name
    IN  \/ byId(h) /\ ~byId(i)
        \/ (byId(h) <=> byId(i)) /\ byName(h) /\ ~byName(i)
        \/ (byId(h) <=> byId(i)) /\ (byName(h) <=> byName(i)) /\ h < i

\* The calls that results behind the turn at position p and before position k took.
TakenBefore(p, k) ==
    {output[q].id : q \in {r \in DOMAIN output :
        output[r].role = "tool" /\ output[r].from \in p + 1 .. k - 1}}

\* Whether a result was sent to the call it belongs to before all others that were
\* not taken; it becomes the user's words only if they all were.
Belongs(result, calls, message, taken) ==
    \/ message.role = "user" /\ IdsOf(calls) \subseteq taken
    \/ /\ message.role = "tool"
       /\ \E i \in DOMAIN calls :
            /\ message.id = calls[i].id
            /\ \A h \in DOMAIN calls : Rather(result, calls, h, i) => calls[h].id \in taken

ResultsGoHome ==
    \A p \in DOMAIN input : input[p].role = "assistant" =>
        \A k \in ResultsAfter(p) : \A q \in DOMAIN output : output[q].from = k =>
            Belongs(input[k], WithIds(input[p].calls, p), output[q], TakenBefore(p, k))

\* What goes upstream is a chat it accepts: each turn's calls are answered right
\* after it, at most once and, where missing results are made up, exactly once; every
\* result of the client is sent once, or is the same that its call was answered with
\* already; and it goes to the call it names, else to the first of its name, else to
\* the first, of those that the results before it left open, also across a system
\* message that is moved to the front.  A result without an id may take the call
\* that a later one names: the code does not look ahead.
CallsAnswered == mapping = "done" => TurnsAnswered /\ ResultsKept /\ ResultsGoHome
=============================================================================
