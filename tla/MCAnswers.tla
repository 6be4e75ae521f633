----------------------------- MODULE MCAnswers -----------------------------
(***************************************************************************)
(* What is translated between the client and the upstream, side by side:   *)
(* the framing of a stream, the assembly of its chunks, the collection of  *)
(* embeddings, the messages of a chat and the body of a call.  They share  *)
(* no state; a behaviour is one of them.                                   *)
(***************************************************************************)
EXTENDS Framing, Assembly, Embedding, ToolPairing, RequestBody

\* Every mode with the tags of a thinking block, and both policies without them.
MCAssemblies ==
    [aggregate : BOOLEAN, visible : BOOLEAN, thinkTags : {TRUE}, thinkInitial : BOOLEAN,
     wrap : {TRUE}, maxToolCalls : {1}]
    \cup
    [aggregate : {TRUE}, visible : {TRUE}, thinkTags : {FALSE}, thinkInitial : {FALSE},
     wrap : BOOLEAN, maxToolCalls : {2}]

\* Two calls and an illegal index; an object in two fragments, with a blank.
MCFragments ==
    [index : {-1, 0, 1}, label : {<<>>}, arguments : {<<"{">>, <<"}">>, <<" ">>}]
    \cup [index : {0, 1}, label : {<<"n">>}, arguments : {<<>>}]

\* Two batches of two exceed MaxInt = 3, and no batch may report less than none.
MCTokenCounts == {-2, 1, 2}

\* No calls, one or two, with and without ids; of the same name and of two.
MCCallLists ==
    LET f == [id |-> <<>>, name |-> "f"]
        af == [id |-> <<"a">>, name |-> "f"]
        bg == [id |-> <<"b">>, name |-> "g"]
    IN  {<<>>, <<af>>, <<af, bg>>, <<f, bg>>, <<f, f>>}

\* By id, by name, by both, which may disagree, and by neither; with two contents.
MCResults ==
    [id : {<<>>, <<"a">>, <<"b">>}, name : {"", "f", "g"}, content : {"x"}]
    \cup [id : {<<"a">>}, name : {""}, content : {"y"}]

\* The defaults (no sorting); all of it the other way; and the defaults with sorting.
MCPolicies ==
    {[sort |-> FALSE, synthesize |-> TRUE, orphanError |-> FALSE, system |-> FALSE],
     [sort |-> TRUE, synthesize |-> FALSE, orphanError |-> TRUE, system |-> TRUE],
     [sort |-> TRUE, synthesize |-> TRUE, orphanError |-> FALSE, system |-> FALSE]}

\* Each kind of request with what its translation looks at: options one by one and
\* together, every selection of relayed keys, forms of up to three parts.
Asking(kind, choices) ==
    [kind |-> kind, exposed |-> TRUE, options |-> <<>>, keys |-> {}, parts |-> <<>>,
     streams |-> FALSE, choices |-> choices]
MCChats ==
    {[Asking(kind, TRUE) EXCEPT !.options = o, !.keys = k, !.streams = s] :
        kind \in {"chat", "completions"}, k \in {{}, {"response_format"}}, s \in BOOLEAN,
        o \in [{"temperature"} -> {"valid", "malformed"}]
              \cup [{"num_predict"} -> {"valid", "malformed", "unlimited"}]
              \cup [{"temperature", "top_k", "num_predict"} -> {"valid"}]
              \cup [{"repeat_penalty"} -> {"valid", "malformed"}]
              \cup [{"num_ctx"} -> {"valid"}]}
MCRelays ==
    {[Asking("relay", c) EXCEPT !.keys = {"model", "input"} \cup k] : c \in BOOLEAN,
        k \in SUBSET {"temperature", "n", "user", "metadata", "fallbacks", "extra_body"}}
MCUploads ==
    LET parts == {Part(n, FALSE, "client") : n \in {"", "model", "file", "user", "extra_body"}}
                 \cup {Part("model", TRUE, "client")}
    IN  {[Asking("upload", FALSE) EXCEPT !.parts = p] :
            p \in BoundedSeq(parts, 3) \cup {[k \in 1 .. 5 |-> Part("model", FALSE, "client")]}}
MCAsks ==
    MCChats \cup MCRelays \cup MCUploads \cup {Asking("embeddings", FALSE)}
    \cup {[Asking(k, FALSE) EXCEPT !.exposed = FALSE] : k \in {"chat", "relay"}}

\* The alias's options, and extras that touch each of the others' fields.
MCBehaviors ==
    [options : {<<>>, [temperature |-> "valid", num_predict |-> "valid"],
                [top_k |-> "valid"], [unheard |-> "valid"]},
     extra : {<<>>, [metadata |-> Object("operator"), response_format |-> Object("operator")],
              [metadata |-> Scalar("operator")],
              [temperature |-> Scalar("operator"), encoding_format |-> Scalar("operator"),
               fallbacks |-> Object("operator")],
              [extra_body |-> Object("operator"), max_tokens |-> Scalar("operator")]},
     drops : {{}, {"model", "stream", "temperature"}, {"metadata", "extra_body", "encoding_format"}},
     samplers : BOOLEAN, strict : {TRUE}]

MCSilent == [forwardUser |-> FALSE, tags |-> FALSE, alwaysStreams |-> FALSE]
MCUpstreams ==
    [forwardUser : BOOLEAN, tags : BOOLEAN, alwaysStreams : {FALSE}]
    \cup {[MCSilent EXCEPT !.alwaysStreams = TRUE]}

VARIABLE part
vars == <<part, framingVars, assemblyVars, embeddingVars, pairingVars, bodyVars>>

Init ==
    /\ part \in {"framing", "assembly", "embedding", "pairing", "body"}
    /\ FramingInit
    /\ IF part = "assembly" THEN AssemblyInit
       ELSE AssemblyInit /\ options = CHOOSE o \in Assemblies : TRUE
    /\ IF part = "embedding" THEN EmbeddingInit
       ELSE /\ EmbeddingInit /\ request.inputs = 0 /\ ~request.legacy /\ ~request.estimate
            /\ ~request.malformed /\ request.able
            /\ request.batchSize = 0 /\ request.dimensions = 0
    /\ IF part = "pairing" THEN PairingInit
       ELSE PairingInit /\ policy = (CHOOSE p \in Policies : TRUE) /\ ~hasSystem
    /\ IF part = "body" THEN BodyInit
       ELSE BodyInit /\ ask.kind = "upload" /\ ask.parts = <<>> /\ upstream = MCSilent

Next ==
    /\ UNCHANGED part
    /\ \/ /\ part = "framing" /\ FramingNext
          /\ UNCHANGED <<assemblyVars, embeddingVars, pairingVars, bodyVars>>
       \/ /\ part = "assembly" /\ AssemblyNext
          /\ UNCHANGED <<framingVars, embeddingVars, pairingVars, bodyVars>>
       \/ /\ part = "embedding" /\ EmbeddingNext
          /\ UNCHANGED <<framingVars, assemblyVars, pairingVars, bodyVars>>
       \/ /\ part = "pairing" /\ PairingNext
          /\ UNCHANGED <<framingVars, assemblyVars, embeddingVars, bodyVars>>
       \/ /\ part = "body" /\ BodyNext
          /\ UNCHANGED <<framingVars, assemblyVars, embeddingVars, pairingVars>>

Spec == Init /\ [][Next]_vars

\* Each part has the types of its module.
TypeOK ==
    /\ FramingTypeOK /\ AssemblyTypeOK /\ EmbeddingTypeOK /\ PairingTypeOK /\ BodyTypeOK
=============================================================================
