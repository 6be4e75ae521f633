---------------------------- MODULE RequestBody ----------------------------
(***************************************************************************)
(* The body of a call on its way upstream: what the client asks, what the  *)
(* operator configured for the model and what the server decides itself    *)
(* meet in one JSON object (translate.Chat, Generate, Finalize and the     *)
(* embedding handler; translate.Passthrough) or in one form                *)
(* (translate.Multipart), which the sender checks again on its own         *)
(* (upstream.PostJSON, PostMultipart).                                     *)
(*                                                                         *)
(* A field is who made it and whether it is an object.  A key stands for   *)
(* those treated alike: "input" for messages and prompt, "fallbacks" for   *)
(* every routing control, "response_format" for what formats, tools,       *)
(* thinking and log probabilities become.  Left out are the fields that    *)
(* only completions or embeddings have, and the refusal of metadata.tags   *)
(* that are no strings.                                                    *)
(***************************************************************************)
EXTENDS Naturals, Sequences, FiniteSets, SequencesExt

CONSTANTS
    Asks,       \* [kind, exposed, options, keys, parts, streams, choices]
    Behaviors,  \* of the model's entry: [options, extra, drops, samplers, strict]
    Upstreams,  \* [forwardUser, tags, alwaysStreams]
    MaxUpload   \* max_body_bytes: the parts a form may have

VARIABLES
    ask,        \* the client's request; `keys` are its fields that are no options
    behavior, upstream,
    fields,     \* the JSON body: key -> [object, from]
    form,       \* the parts of the form: [name, file, from]
    sending     \* "asked", "refused", "translated", then "sent" or "rejected"

bodyVars == <<ask, behavior, upstream, fields, form, sending>>

Translated == {"chat", "completions", "embeddings"}
Protected == {"model", "input", "stream", "stream_options", "n", "user"}
Routing == {"fallbacks"}
Forbidden == Routing \cup {"extra_body"}
Controlled == Forbidden \cup {"metadata", "user"}     \* a client's are not relayed

Scalar(source) == [object |-> FALSE, from |-> {source}]
Object(source) == [object |-> TRUE, from |-> {source}]
Server(keys) == [key \in keys |-> Scalar("server")]

\* What a request may be, and who makes an entry's extra_body.
ASSUME BodyAssumption ==
    /\ MaxUpload \in Nat
    /\ \A a \in Asks :
        /\ a.kind \in Translated \cup {"relay", "upload"}
        /\ a.kind = "chat" => a.keys \subseteq {"response_format"}
        /\ a.kind = "embeddings" => ~a.choices
        /\ a.parts \in Seq(ToSet(a.parts)) /\ \A p \in ToSet(a.parts) : p.from = "client"
    /\ \A b \in Behaviors : \A key \in DOMAIN b.extra :
        b.extra[key] \in {Scalar("operator"), Object("operator")}

\* Two maps as one, in which the first prevails; one of some fields of another.
upper ++ lower ==
    [key \in DOMAIN upper \cup DOMAIN lower |->
        IF key \in DOMAIN upper THEN upper[key] ELSE lower[key]]
Without(body, keys) == Restrict(body, DOMAIN body \ keys)

\* Nothing configured for a model applies to what is relayed.
Plainly == [options |-> <<>>, extra |-> <<>>, drops |-> {}, samplers |-> FALSE, strict |-> FALSE]

BodyInit ==
    /\ ask \in Asks /\ upstream \in Upstreams
    /\ behavior \in IF ask.kind \in Translated THEN Behaviors ELSE {Plainly}
    /\ fields = <<>> /\ form = <<>> /\ sending = "asked"
----------------------------------------------------------------------------
\* Options: the client's override the alias's, one by one.
Upward == [temperature |-> "temperature", num_predict |-> "max_tokens", top_k |-> "top_k",
           repeat_penalty |-> "repetition_penalty"]
Ignored == {"num_ctx"}
Samplers == {"top_k", "repeat_penalty"}

Effective == ask.options ++ behavior.options
OptionSource(k) == IF k \in DOMAIN ask.options THEN "client" ELSE "alias"

OptionFails(k) ==
    \/ k \notin DOMAIN Upward \cup Ignored /\ behavior.strict
    \/ /\ Effective[k] = "malformed" /\ k \in DOMAIN Upward
       /\ k = "repeat_penalty" => behavior.samplers

\* Variant: a limit the client lifts falls back on the alias's.
OptionIsSentOrInherited(k) ==
    /\ k \in DOMAIN Upward
    /\ k \in Samplers => behavior.samplers
    /\ k = "num_predict" => (Effective[k] # "unlimited" \/ k \in DOMAIN behavior.options)

OptionIsSent(k) ==
    /\ k \in DOMAIN Upward
    /\ k \in Samplers => behavior.samplers
    /\ k = "num_predict" => Effective[k] # "unlimited"

Options ==
    LET sent == {k \in DOMAIN Effective : OptionIsSent(k)}
        For(key) == CHOOSE k \in sent : Upward[k] = key
    IN  [key \in {Upward[k] : k \in sent} |-> Scalar(OptionSource(For(key)))]

\* The fields of a request before Finalize, and those the server protects.
ClientFields ==
    CASE ask.kind = "embeddings" -> Server({"encoding_format"})
      [] ask.kind = "chat" -> [key \in ask.keys |-> Object("client")] ++ Options
      [] OTHER -> Options

Streams == ask.streams \/ upstream.alwaysStreams
OwnFields ==
    IF ask.kind = "embeddings" THEN Server({"input"})
    ELSE Server({"n", "input", "stream"} \cup (IF Streams THEN {"stream_options"} ELSE {}))
----------------------------------------------------------------------------
\* mergeJSON: objects merge, anything else is replaced.
Merged(base, update) ==
    IF base.object /\ update.object THEN [object |-> TRUE, from |-> base.from \cup update.from]
    ELSE update

\* Variant: the operator's fields are defaults, which a request overrides.
ExtendedBelow(body) == body ++ behavior.extra

Extended(body) ==
    LET extra == behavior.extra
        both == DOMAIN body \cap DOMAIN extra
    IN  [key \in both |-> Merged(body[key], extra[key])] ++ extra ++ body

\* Variant: the drops come last.
AssembledThenDropped(body, own) ==
    LET kept == Without(Extended(body), Protected \cup Routing)
        user == IF upstream.forwardUser THEN {"user"} ELSE {}
    IN  Without(Server({"model"} \cup user) ++ own ++ kept, behavior.drops)

\* Finalize until the tags: extras, drops, and the protected fields over both.
Assembled(body, own) ==
    LET kept == Without(Extended(body), behavior.drops \cup Protected \cup Routing)
        user == IF upstream.forwardUser THEN {"user"} ELSE {}
    IN  Server({"model"} \cup user) ++ own ++ kept

TagsFail(body) == upstream.tags /\ "metadata" \in DOMAIN body /\ ~body["metadata"].object

Tagged(body) ==
    IF ~upstream.tags THEN body
    ELSE LET metadata == IF "metadata" \in DOMAIN body THEN Merged(body["metadata"], Object("server"))
                         ELSE Object("server")
         IN  [key \in {"metadata"} |-> metadata] ++ body

\* The embedding handler restores the encoding that its decoder requires.
Restored(body) ==
    IF ask.kind = "embeddings" THEN Server({"encoding_format"}) ++ body ELSE body

RefuseBody ==
    /\ sending' = "refused"
    /\ UNCHANGED <<ask, behavior, upstream, fields, form>>

Ready ==
    /\ sending' = "translated"
    /\ UNCHANGED <<ask, behavior, upstream>>

Translate ==
    /\ sending = "asked" /\ ask.kind \in Translated
    /\ LET assembled == Assembled(ClientFields, OwnFields)
       IN  IF \/ ~ask.exposed
              \/ ask.kind # "embeddings" /\ \E k \in DOMAIN Effective : OptionFails(k)
              \/ DOMAIN behavior.extra \cap Protected # {}
              \/ TagsFail(assembled)
           THEN RefuseBody
           ELSE /\ fields' = Restored(Tagged(assembled))
                /\ UNCHANGED form
                /\ Ready

\* translate.Passthrough: what the server sets in a relayed body.
Attributes ==
    LET user == IF upstream.forwardUser THEN {"user"} ELSE {}
        choices == IF ask.choices THEN {"n"} ELSE {}
    IN  Server({"model"} \cup user \cup choices) ++ [key \in {"metadata"} |-> Object("server")]

Relay ==
    /\ sending = "asked" /\ ask.kind = "relay"
    /\ IF ~ask.exposed THEN RefuseBody
       ELSE /\ fields' = Attributes ++ [key \in ask.keys \ Controlled |-> Object("client")]
            /\ UNCHANGED form
            /\ Ready
----------------------------------------------------------------------------
Part(name, file, from) == [name |-> name, file |-> file, from |-> from]

\* The parts that are kept, in their order.
Among(parts, kept) ==
    LET upTo[n \in 0 .. Len(parts)] ==
            IF n = 0 THEN <<>>
            ELSE IF parts[n] \in kept THEN Append(upTo[n - 1], parts[n]) ELSE upTo[n - 1]
    IN  upTo[Len(parts)]

ModelsOf(parts) == Among(parts, {p \in ToSet(parts) : p.name = "model"})
OneModel(parts) ==
    /\ Len(ModelsOf(parts)) = 1 /\ ~ModelsOf(parts)[1].file
    /\ \A p \in ToSet(parts) : p.name # ""

\* Variant: a form keeps a part of its own called extra_body.
Dropped(part) == part.name \in Routing \cup {"model", "metadata", "user"}

IsControlled(part) == part.name \in Controlled \cup {"model"}

\* translate.Multipart: the client's parts in their order, then the server's.
Rewritten ==
    Among(ask.parts, {p \in ToSet(ask.parts) : ~IsControlled(p)})
    \o <<Part("model", FALSE, "server"), Part("metadata", FALSE, "server")>>
    \o (IF upstream.forwardUser THEN <<Part("user", FALSE, "server")>> ELSE <<>>)

Rewrite ==
    /\ sending = "asked" /\ ask.kind = "upload"
    /\ IF Len(ask.parts) > MaxUpload \/ ~OneModel(ask.parts) \/ ~ask.exposed
          \/ Len(Rewritten) > MaxUpload
       THEN RefuseBody
       ELSE /\ form' = Rewritten
            /\ UNCHANGED fields
            /\ Ready

\* What PostJSON and PostMultipart require, whoever made the body.
Acceptable ==
    IF ask.kind = "upload"
    THEN /\ Len(form) <= MaxUpload /\ OneModel(form)
         /\ \A p \in ToSet(form) : p.name \notin Forbidden
    ELSE "model" \in DOMAIN fields /\ DOMAIN fields \cap Forbidden = {}

Send ==
    /\ sending = "translated"
    /\ sending' = IF Acceptable THEN "sent" ELSE "rejected"
    /\ UNCHANGED <<ask, behavior, upstream, fields, form>>

BodyNext == Translate \/ Relay \/ Rewrite \/ Send

BodySpec == BodyInit /\ [][BodyNext]_bodyVars
----------------------------------------------------------------------------
\* The body's types; what it is made from never changes.
BodyTypeOK ==
    /\ \A key \in DOMAIN fields :
          fields[key].from \subseteq {"client", "alias", "operator", "server"}
    /\ Len(form) <= MaxUpload
    /\ sending \in {"asked", "refused", "translated", "sent", "rejected"}

From(key) == IF key \in DOMAIN fields THEN fields[key].from ELSE {}
OperatorsKeys == DOMAIN behavior.extra \ behavior.drops

\* The model, the attribution and, where the server builds the request, all that
\* carries or multiplies the answer are the server's; no tag is the client's.
ServerDecides ==
    /\ From("model") = {"server"}
    /\ From("user") = IF upstream.forwardUser THEN {"server"} ELSE {}
    /\ "client" \notin From("metadata") /\ (upstream.tags => "server" \in From("metadata"))
    /\ ask.choices => From("n") = {"server"}
    /\ ask.kind \in Translated =>
          /\ \A key \in Protected : From(key) \subseteq {"server"}
          /\ "stream_options" \in DOMAIN fields <=> ask.kind # "embeddings" /\ Streams
    /\ ask.kind = "embeddings" => From("encoding_format") = {"server"}

\* What the operator adds prevails over the client, what it drops is dropped, the
\* client's options prevail over the alias's; and a limit the client lifts is off.
OperatorThenClient ==
    /\ \A key \in OperatorsKeys \ {"encoding_format"} : "operator" \in From(key) \/ key \in Routing
    /\ \A key \in behavior.drops \ {"encoding_format", "metadata"} : From(key) \subseteq {"server"}
    /\ \A k \in DOMAIN Upward :
          LET lifted == k = "num_predict" /\ k \in DOMAIN ask.options /\ ask.options[k] = "unlimited"
          IN  /\ "alias" \in From(Upward[k]) => k \notin DOMAIN ask.options
              /\ lifted => From(Upward[k]) \subseteq {"operator"}

\* A relayed call keeps every other field or part, in its order.
RelayedAsSent ==
    /\ ask.kind = "relay" =>
          \A key \in ask.keys \ (Controlled \cup DOMAIN Attributes) : From(key) = {"client"}
    /\ ask.kind = "upload" =>
          /\ Among(form, {p \in ToSet(form) : p.from = "client"})
             = Among(ask.parts, {p \in ToSet(ask.parts) : p.name \notin Controlled \cup {"model"}})
          /\ {p.name : p \in {q \in ToSet(form) : q.from = "server"}}
             = {"model", "metadata"} \cup (IF upstream.forwardUser THEN {"user"} ELSE {})

\* Three owners of one body: each decides what is its own, on every path, and the
\* sender, which checks the body with rules of its own, never refuses what the
\* translation made of a request - unless the operator's extra_body has a key
\* "extra_body", which Finalize lets through and PostJSON does not.
OwnersDecide ==
    /\ sending = "sent" =>
          /\ ask.kind # "upload" => ServerDecides
          /\ ask.kind \in Translated => OperatorThenClient
          /\ RelayedAsSent
    /\ sending = "rejected" => ask.kind \in Translated /\ "extra_body" \in OperatorsKeys
=============================================================================
