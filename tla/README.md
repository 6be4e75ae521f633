# Ollame, verified

TLA+ models of [ollame](../src), a gateway that takes Ollama requests and sends
them to a LiteLLM upstream; the TLC runs that check them; and TLAPS proofs about
them. `PROJECT.json` maps every definition to the lines it models and lists the
runs, their properties, the mutant that breaks each property, the hazards they
are aimed at, and the theorems.

    tlc -workers 2 -config PublicationRequests.cfg Publication   # a run
    tlapm PublicationProofs.tla                                  # proofs

## 1. The system

One process. `cmd/ollame/main.go` parses flags and calls `server.Run`, which
starts three workers, serves HTTP, and drains when its context ends.

| component | state | operations | hard part |
|---|---|---|---|
| snapshot publication (`server/server.go`, `auth_reload.go`, `config_reload.go`, `snapshot.go`) | `active` (an atomic pointer to an immutable snapshot: configuration, key, tokens, client, catalog, generation), `authState`, `loaded`, `draining`, `lastMiss`; `refreshMu`, `authMu`, `publishMu`; a one-slot wake-up channel | `refresh`, `reloadTokens`, `reloadConfig`, `show` (refresh on a miss), the drain steps of `Run` | workers and requests compute from one snapshot and replace another |
| token sources (`auth/tokens.go`) | per source: last-good entries and the time it began to fail | `ReadSources`, `State.Update`, `NewSet` | overrides, sources that fail, ambiguous merges |
| catalog (`catalog/catalog.go`, `upstream/catalog.go`) | names, spellings, targets, first-seen dates | `Build`, `Resolve`, `Discover` | names that collide, aliases that displace or hide models, filters |
| upstream call (`upstream/inference.go`) | attempts; the body, its timer, `timedOut` | `post`, `Read`, `EventReceived`, `Close`, the timer's callback | the callback runs beside the handler; retries |
| chat and generate (`server/chat.go`, `abort.go`, `stream/decode.go`) | decoder, records written, abort | one goroutine per request | slow and departed clients, streams cut short, who is to blame |
| stream framing (`stream/sse.go`, `eventProgress` in `server/passthrough.go`) | unfinished line, unfinished event | `Reader.Next`, `Feed` | line ends and events cut by reads |
| assembly (`stream/assemble.go`, `think.go`, `tools.go`) | text, the held piece of a tag, fragments of calls, sizes | `Feed`, `Add`, `Finish` | tags cut by events, calls that interleave, limits |
| embeddings (`server/embed.go`, `translate/embeddings.go`, `embedding_batches.go`) | vectors, width, bytes, usage | one upstream call per batch | order by index, failure of one batch of several, usage |
| passthrough (`server/passthrough.go`) | bytes relayed | relay of `/v1` calls | as chat; an answer that is no event stream has no end but its last byte |
| tool pairing (`translate/messages.go`) | calls without a result, ids in use | one loop over the messages of a chat | results without ids, repeated or missing; generated ids |
| request body (`translate/chat.go`, `generate.go`, `options.go`, `body.go`, `passthrough.go`, `multipart.go`; `server/embed.go`; the checks of `upstream/inference.go`) | none that outlives a request | `Chat`, `Generate`, `Finalize`, `Passthrough`, `Multipart`, then the sender's own checks | three parties set fields of one object |
| the rest of request translation (`translate/*.go`) | none | conversions between JSON formats | - |
| admission, shutdown (`server/admission.go`, `server.go`, `main.go`) | `inflight`, `waitAdmitted`, the drain delay, signals | `admit`, `Run`, `main`'s goroutine | a limit that reloads change, requests that race with the shutdown, signals while it runs |
| recently used models (`chat.go`, `/api/ps`) | a map under a mutex | `recordUse`, `ps` | expiry |
| configuration (`config/*.go`, `server/provenance.go`) | what is in force and where it came from, in the snapshot | `Load`, `Validate`, `mergeAliases`; what `reloadTokens` and `reloadConfig` keep of it | four layers, and two workers that publish parts of one file at different times |
| access, errors, management, observability, command line | none that outlives a call, but for counters | - | - |

How they interact. The workers read files and call the upstream, compute a
snapshot, and store it under `publishMu`. A request captures `active` once and
uses its tokens, catalog and client; only `show` captures it again. A handler
calls `upstream.Client.post`, whose body carries a timer: `stream.Reader` (chat)
or `eventProgress` (passthrough) tells it of every complete event, and its
callback cancels the call. Events go through the decoder into the assembler and
out as records, in the same goroutine. Shutdown cancels the workers' context
first, and the requests' after the grace.

What makes each correct:

* publication: snapshots are never mixed, a revoked token never comes back, what
  was edited last is published in the end, a busy upstream blocks neither
  revocations nor the drain, and nothing is published after it;
* token sources: one owner per token, overrides by source order, no token
  outlives the grace of a failing source;
* catalog: no request reaches a filtered or hidden model, the raw spelling of a
  model reaches that model, dates survive;
* calls and handlers: every connection is released, every request ends, the client is
  shown a prefix of the upstream's answer, "done" means all of it, a cut is counted
  once, told to a client that can still be told, and blamed on who made it;
* admission and shutdown: no slot is lost or given twice, no request is ended before
  the drain delay and the grace are over or a second signal came, and the process
  exits within the margin the documentation gives;
* tool pairing: a turn's calls are answered right after it, none twice and, where missing
  results are made up, all; a result is sent once, or is the same that its call was
  answered with already; it goes to the call it names, else to the first of its name,
  else to the first, of those that the results before it left open;
* request body: what the server decides nobody overrides, the operator wins over the
  client, the sender's second check rejects nothing the first let through;
* configuration: every setting is that of the highest layer in the file whose word counts
  for it and says so, and overrides and aliases prevail for a model in their order;
* framing, assembly, embeddings: the result is that of the whole input, however
  it is cut; limits are on totals; all or nothing; tokens are counted once.

## 2. Modules

Each models a component with one action per step of a goroutine; the comment at
its head says what is left out.

| module | models | how it relates |
|---|---|---|
| `SnapshotStore` | what the server promises about the published snapshot: a token reload replaces the tokens only, a refresh the catalog only (through the published client, never from an older listing), a configuration reload replaces configuration, key, client and catalog together, keeps the tokens and opens a generation; no revoked token version returns; the server is ready only with a catalog; nothing is stored once closed | abstract |
| `Publication` | the workers, requests and `Run`, between any two points where another goroutine can be noticed | implements `SnapshotStore` (`ImplementsStore`) |
| `TokenSources` (`MCTokenSources`) | the contents that `Publication` sees as versions: what a reload makes of what it reads | refines the data of `Publication`'s token reload |
| `Catalog` (`MCCatalog`) | which names `Build` makes of a model list and what `Resolve` finds under them | refines the data of `Publication`'s `catalog` |
| `UpstreamCall` | `post` and the body it returns, timer and callback | extended by `Downstream` |
| `Downstream` | the client's side of such a request: writes with their deadline, the request's context, the accounting of cuts | extends `UpstreamCall`, extended by the two handlers |
| `Inference` | what chat and generate do between call and write | extends `Downstream` |
| `Passthrough` | what the relay does there | extends `Downstream` |
| `Handlers` | a request that either of the two serves | composes them, implements `Answer` |
| `Answer` | what a handler promises of one answer: shown is a prefix of what was produced; whole, told of the cut, or dropped; counted once | abstract |
| `Lifecycle` | `main`'s signals, `Run` with its shutdown, `admit` | a request is the slot it holds; what goes on while it has it is `Handlers` |
| `Framing` | `stream.Reader` and `eventProgress` fed the same bytes | data of the items "text" and "bytes" of `UpstreamCall` |
| `Assembly` | the assembler, the splitter and the accumulator | data of `Inference`'s "text" and "held" |
| `Embedding` | the embedding handler's loop and the two types it uses; every refusal before the first batch is one action | - |
| `ToolPairing` | `translate.Messages` | - |
| `RequestBody` | the body of a call, as JSON or as a form, from the client's request to the sender's checks | what `UpstreamCall`'s call sends |
| `MCAnswers` | the previous five side by side, for one run | a behaviour is one of the five |
| `Settings` | `config.Load` and its layers, what either reload takes of the file, and what overrides and aliases make of the settings for one model | the data of `Publication`'s configuration; beside `Catalog` in `MCCatalog`, each with the catalog's other half |
| `PublicationProofs`, `TokenSourcesProofs`, `HandlersProofs`, `LifecycleProofs`, `AssemblyProofs` | theorems | each extends its module |
| `CatalogProofs` | theorems about a configuration and the models it is applied to (`Catalog`, `Settings`) | extends both |
| `AnswersProofs`, `RequestProofs` | theorems about what comes from the upstream (`Framing`, `Embedding`) and what goes there (`ToolPairing`, `RequestBody`) | each extends its modules |

**Publication.** `pc[t]` is where goroutine `t` is; labels are named for what it does
next ("lock", "discover", "publish", "compare", "store", "wake"). Contents are numbers:
an edit of the configuration, of a token source, of the key file or of the upstream's
list raises one. `latest` is the local variable of that name; `refreshJob`, `authJob`
and `configJob` are the other locals that live across a step. `clients` holds the
upstream clients nobody has closed. `newest`, `seen` and `seenKey` are history;
`SnapshotStore`'s `remembered` and `ready` are `authState` and `loaded`. The mutexes are
the variables of their names. Taking `publishMu` and loading `latest` is one step, since
`active` is stored under `publishMu` only; everything unlocked is a step of its own.

**TokenSources.** `state` is `auth.State`; a reload reads all sources, then either
publishes, is rejected as ambiguous, or is overtaken by a configuration reload
(the generation check). `forgotten` is history: sources whose first failure was
seen by a reload that published nothing.

**Catalog.** An ID is a small record; `Lower`, tags and derivation are the code's.
`Build` is one operator with a named part per stage (eligibility, winners of a
name, aliases, hidden targets, dates, limits).

**UpstreamCall, Downstream, Inference, Passthrough, Handlers.** `pc` is the
handler's. `Timer` is the callback and has two steps (it sets `timedOut`, then
cancels), `Tick` is the clock; an item on the wire is an event or bytes that complete
none. A write may stall until its deadline, and while it does the body's timer runs.
`mode` says which handler serves the request: "stream", "aggregate" and "json" are
chat's, "relay" is the passthrough's. What the two share is `Downstream`'s; `Handlers`
chooses by `mode` and leaves alone what belongs to the other. `received`, `marks`,
`waited` and `quiet` are history, from which the properties and the refinement read
what the upstream said and who was waiting for whom; `quiet` is taken at the timer's
first firing, for an event read before its callback has cancelled the call arms it
again. What a response that is given up for another attempt still had on its way reaches
nobody.

**Lifecycle.** `phase` is where `Run` is: "draining" is the drain delay, "waiting" the
first `Shutdown`, "telling" the one after the requests are cancelled, "closing" the
deferred calls. `notices` is the channel of signals, `Capacity` long, which drops what
does not fit. `inflight` is the counter, `request[r].at` where a request is; loading the
counter and swapping it are two steps, for other requests may come between. `wait` is
the timer of the phase and `elapsed` the time since the drain began. A request may take
for ever, also after its context was cancelled. A request arrives while the listener is
open: one that comes on a connection accepted before it closed is left out (none is told,
severed or counted differently for that).

**ToolPairing.** One action maps one message, as one turn of the loop does; the last
one closes the last turn. Contents are opaque values. An id is a
sequence: one element from a client, and place and name for the ones the code
generates, which hashes those (a collision of hashes is left out). `ResultsGoHome` finds
from input and output alone where each result belonged when it came (`Rather`,
`TakenBefore`), without the code's `pending` and `consumed`. Its policies are the
defaults (no sorting, missing results made up, orphans as the user's words), the same with
sorting, and sorting with both other policies and a system text of the entry.

**RequestBody.** A field is who set it ("client", "operator", "server") and whether it
is an object, for objects are merged and the rest is replaced. A key stands for all
keys the code treats alike. Three steps: asked, translated or refused, sent or
rejected by the sender. The fields only completions or only embeddings have ("suffix",
"echo", "dimensions") and the refusal of a client's `metadata.tags` that are no strings
are left out.

**Settings.** A key stands for all keys treated alike: "listen" needs a restart, "auth"
belongs to the token reload, "tag" completes names, the rest are defaults that a model may
override. `file` is what is on disk, `static` the layers captured at startup. A token reload
is one step, a configuration reload two (`ReadConfig`, then `PublishConfig` or
`DropCandidate`), for an edit and a token reload may come between. `started`,
`restFrom` and `authFrom` are history: the file whose word counts for each part.

**Framing, Assembly, Embedding.** Next to the code's state each keeps the input as
if it had come in one piece (`fed`, `reported`, `marked`), which the properties
compare the outcome with.

## 3. Runs

| run | question | what it shows |
|---|---|---|
| `publication_requests` | a request beside the workers | no mixture of generations (`SnapshotCoherent`); the answer comes from a snapshot that admits its token (`AnswerAuthorized`) |
| `publication_reloads` | edits of every source, and unreadable or invalid ones, at any moment | every store is a step of `SnapshotStore` (`ImplementsStore`): revocations stick, ready means a catalog, nothing is stored after the drain; no token reload is lost (`TokenReloadKept`), no candidate superseded (`NotSuperseded`), clients are published or closed (`ClientsAccounted`) |
| `publication_slow_upstream` | discovery never answers, the rest of the configuration is invalid | revocations are applied (`RevocationApplied`) and the drain begins (`DrainBegins`) all the same |
| `publication_live` | failures end | the last valid configuration is published (`ConfigApplied`); workers end (`WorkersExit`) |
| `publication_catalog` | configuration reloads overtake refreshes | the last model list is published (`CatalogApplied`) |
| `publication_snapshot_kept` | *violation* | see Findings |
| `token_sources` | rotations, overrides, clashes, failures | one owner per token and overrides by source order (`OwnersHold`), grace (`RetainedWithinGrace`) |
| `token_sources_grace` | *violation* | see Findings |
| `catalog` | listings, modes and configurations that change; beside it, edits of a file that two workers publish in parts | the boundary, hidden models, exact spellings, listed names, dates; what is in force is what the layers give and comes from where it is said to (`SettingsInForce`) |
| `handlers` | an answer in three modes of chat and as a relay: all orders of events, trickled bytes, timer, client, deadline and shutdown, over two attempts | every connection is released (`NothingHeld`), the blame is right (`BlameIsFair`), the client has what `Answer` promises (`ImplementsAnswer`), every request ends (`AlwaysReturns`) |
| `answers` | the same input cut differently; chats with calls and results in any order; requests whose fields three parties set | framing, assembly and embeddings (`BatchesAddUp`) give what the whole gives; calls and results find each other (`CallsAnswered`); owners decide (`OwnersDecide`) |
| `lifecycle` | signals, failing listeners, reloads of the limit, requests that race or never end | the counter is right (`SlotsCounted`), nothing is cut before its time (`NothingCutEarly`), a second signal ends it at once (also `NothingCutEarly`), the process ends (`ProcessEnds`) and does so in time (`ExitsInTime`) |

Bounds, and why they are enough:

* `Publication`: two versions of what a run is about and one of the rest. Every
  race here is between two publishers, one of which is overtaken once, so two
  versions show old and new, and a third party's second edit shows "overtaken
  again". One request: requests only share `refreshMu` and `lastMiss`.
  `publication_live` has edits of the configuration and the external sources,
  `publication_catalog` of the model list. Failures are divided among the runs: an
  unreadable configuration or an invalid inline source in `publication_reloads`, the
  rest of a configuration invalid or an external source unreadable in
  `publication_slow_upstream`, ambiguous sources and outages of the upstream in
  `publication_live`.
* `TokenSources`: two names and two values; an inline source whose value rotates and a
  directory that adds a name, overrides one or clashes with one, and that may fail;
  three configurations (one shortens the grace, one drops the directory); three points
  in time, which reach either grace. The proofs have all five sources.
* `Catalog`: three IDs that derive one name (by case, by "-", by ":"), and four
  configurations: nothing special, filters with a tight limit, an alias that hides, and
  aliases that take a spelling and a derived name.
  For `Settings`: two edits, so either worker may publish a part that the other has
  passed over; seven files and four startup layers, in which each pair of layers sets the
  same key, alias or override, and of which some are refused by the load, by validation or
  by the build.
* `handlers`: one retry, so there is a last attempt and one that is not; two ticks, so a
  timer can be re-armed half way, and one for a write, so the write deadline may come
  before or after the idle timer; two events, so there are a first and a last; one item on the wire at a time, since the reader takes all there are. A JSON
  body's limit is one item: one that fits and one that does not. The `Outcomes` and
  `Kinds` left out of the `.cfg` take the branch of one that is in it.
* `answers`: events of up to two letters (four kinds of bytes and two line ends make
  every field, comment and blank line the readers tell apart; the proof needs no
  bound); answers up to seven letters, which hold a whole block and text on
  both sides of it, fragments up to two calls and an illegal index; three inputs in
  batches of one to three, with widths and counts on both sides of each limit; four
  messages, so that a turn with two calls has its two results and one message more, or two turns
  meet; for bodies, every pair of owners meets on a key they share, and a form of four
  parts is one that fits until the server adds its own.
* `lifecycle`: two requests and a limit of none or one, which a reload may change once
  while one request runs and the other has loaded the counter; a delay of one and a
  grace of two seconds, both passed; a channel of two signals (four in the code) and
  three signals, so one is dropped. `FinalErrors`, `TraceFlush` and `Margin` are the
  code's and the documentation's numbers.

The deadlock check is off for `Publication`, `answers` and `lifecycle`, which really
stop: after a shutdown every worker has exited and every request is answered; a
finished answer, chat or body takes no more steps; an exited process has none. It is on
elsewhere.

Between them the runs fire every action, and every property has a mutant: a `Variant`
operator beside the definition it replaces, which is a plausible bug, and which breaks
the property.

**Fairness.** The Go scheduler runs every goroutine that can run, timers fire,
`sync.Mutex` hands over to a waiter that starves, `select` picks at random among
ready cases: workers are strongly fair, for each round of a loop may find a lock
taken. Discovery ends, since `fetch_timeout` bounds it, but `SlowUpstreamSpec` does
without that. In `Handlers` the handler's own steps (`Handler`), the callback (`Runs`)
and the clock (`TimePasses`) are weakly fair: none of them can be disabled by another but by
doing its work. That a client takes what is written (`Takers`) is not assumed; its
deadline ends the write. In `Lifecycle` `main`'s goroutine, `Run` and the clock are
weakly fair, and requests are not: one that never ends is one of the cases. Nothing is
assumed of the upstream, the client, the files, the listeners or whoever sends signals.

## 4. Proofs

| theorem | module | establishes |
|---|---|---|
| `TypeCorrect` | `PublicationProofs` | types, and the labels of each goroutine |
| `NothingPublishedAfterDrain` | | once draining, `active` never changes |
| `RevokedNeverReturns` | | what is published of each source is no tokens or the newest version ever published: a replaced one is never accepted again |
| `AuthStateAgrees` | | `authState` and the published tokens agree at all times |
| `ReadyHasCatalog` | | a server that says it is ready has a catalog |
| `NoTokenReloadLost` | | the generation check never drops a token reload |
| `SnapshotsCoherent` | | no snapshot, published or captured, mixes generations |
| `SupersededNeverPublished` | | a configuration is published only as the file had it after its discovery |
| `NoClientLeaks` | | every open upstream client is the published one or a candidate's |
| `AnswersAreAuthorized` | | a request is answered from a snapshot that admits it |
| `Refinement` | | `Publication` implements `SnapshotStore` |
| `TypeCorrect`, `OwnersAreRight`, `TokensWithinGrace` | `TokenSourcesProofs` | the three invariants of the run |
| `BoundaryHolds`, `HiddenStaysHidden`, `SpellingIsExact`, `ListedNamesReached`, `DatesSurvive`, `CatalogTypeCorrect` | `CatalogProofs` | all properties of the run about the catalog |
| `SettingsTypeCorrect`, `LayersAreTold` | | shape and origin of the settings that are published |
| `SettingsAreInForce` | | all of `SettingsInForce`: layers, overrides and aliases prevail in their order, and nothing is in force by halves |
| `TypeCorrect` | `HandlersProofs` | types, of both handlers |
| `ConnectionsReleased` | | no connection is held for nothing |
| `BlamedFairly` | | whom a cut is blamed on had a part in it |
| `PromiseKept` | | `Handlers` implements `Answer` |
| `TypeCorrect`, `NoSlotLost`, `RequestsGetTheirTime`, `MarginSuffices` | `LifecycleProofs` | all safety properties of the run |
| `SplitsAsWhole` | `AssemblyProofs` | the text of an answer is split at its thinking block as if it had come in one piece |
| `CallsAreWhole` | | a finished answer's calls are its fragments, joined by index and in order; others have none |
| `RefusedOnlyOnMerit` | | an answer fails for what it is as a whole, never for how it was cut |
| `AssemblyTypeCorrect` | | types of the assembler |
| `ReadersAgree`, `FramingTypeCorrect` | `AnswersProofs` | both readers report the same progress; their types |
| `TypeCorrect`, `EmbeddingsAddUp` | | vectors and counts of an embedding request, in whatever batches |
| `CallsAreAnswered` | `RequestProofs` | a turn's calls are answered right behind it, at most once and exactly once where missing results are made up; every result goes to the call it belongs to of those left open |
| `EveryOwnerDecides` | | what the server and the operator set in a body stays, and the sender rejects nothing that was let through |
| `PairingTypeCorrect`, `BodyTypeCorrect` | | types of both, in refused chats and requests too |

All hold for every value of the constants: any set of requests and any bounds; any
names, digests, offers, configurations and clock; any IDs, filters, aliases and
modes; any number of retries, of events and of items on the wire, any timeouts; any limit
on the size of an event; answers of any length, in any chunks, with any fragments of calls,
options and limits; any finite set of requests and limits, any drain delay and grace,
and a channel of any size; any contents of the configuration file, environment and flags;
any inputs and batches of embeddings; chats of any length with any calls, ids and results;
any client's request, operator's settings and upstream's options.
The assumptions are the `ASSUME`s of the modules: the requests differ from the workers,
bounds are natural numbers, as are widths and dimensions, the kinds and offers are among
those that exist, a configuration's limits are natural numbers, a layer sets keys that
exist; a fragment's index is an integer and its texts are sequences of their letters, an
assembler's switches are Booleans and it may have at least one call; the aliases, overrides and behaviors of a layer have the shape the decoder gives
them, names being one part or two; the calls of a turn and the parts of a form are a finite
sequence; an operator sets objects and scalars, and a client's parts come from the client;
a request for embeddings names no choices and a chat no keys but those the decoder knows.

*Publication.* The inductive invariant `IndInv` has five parts, each needed by the
next. `TypeOK` has the labels, without which "at a label" means little. `LockInv` says
who holds each mutex at which label. With it `PublishInv`: while a publisher compares
and stores, its `latest` is `active`, and at the store draining has not begun.
`VersionInv` says no copy is newer than the file it was read from. `JobInv` is about
the copies in flight. A refresh's generation is at most the published one and, if it is
equal, its client is the published one and its listing not older. While the token
reloader holds `authMu` no generation opens, and what it has read is not a revoked
version. What the configuration reloader set out from is what is published, since only
it replaces configuration, key and client, and its candidate is not older. `JobInv` has
the properties too: `Coherent(active)`, `RevokedStayRevoked` and `AuthStatePublished`.
None is inductive alone: a refresh or a configuration stores the tokens of its own
`latest`, which only `PublishInv` says are the published ones, and `PublishInv` needs
`LockInv`. The refinement maps `active` to `store`, `draining` to `closed`, `authState` to
`remembered` and `loaded` to `ready`; each store is one step of `SnapshotStore`,
as is becoming ready, and everything else is a stutter.
Three properties need an invariant more each, on top of `IndInv`. `SeenInv` follows the
versions that a candidate's discovery saw from label to label: what was compared with them
once can only have grown. That no client leaks is inductive with `JobInv`, which says that
the client a reload sets out from is the published one. `AnswerInv` says that a request
that was let through keeps the snapshot that let it.

*TokenSources.* `Inv` has four parts: the types; `SetInv`, the published set is
`NewSet` of the sources as accepted and is unambiguous; `GraceInv`, a source with
entries holds its last good read and, if it fails, is within the grace of its recorded
failure; `RecordInv`, a failure that is not recorded, or was recorded later than it
began, was seen by a reload that published nothing. Without the last, `GraceInv` bounds
the recorded time only and not the time the property is about. That the last override
wins follows because the ranks of finitely many sources have a maximum.

*Catalog.* `IInv` has two parts: `IsBuilt`, the catalog is empty or what `Build` makes
of the configuration and the models in `built`, and `Listed`, those models are among
the upstream's. What an entry can be (`AliasBuilt`, `ModelBuilt`) and how a request finds it
(`ResolveCases`) are lemmas about `Build` and `Resolve` without any state; the
theorems follow by cases.
A listed name is reached in any case (`ListedNamesReached`): every name in a catalog is
written as a request for it is looked up (`NamesLower`), and lowering what is lowered
changes nothing (`LowerTwice`).

*Handlers.* The invariants come in layers, each a step lemma with one case per action
that may use the layers below. `TypeInv` has the types. `ControlInv` is what holds at each
place of the handlers: what has been read and written (`PlaceInv`), how an answer is cut
short (`VerdictInv`), who holds the connection (`HoldInv`, which contains `NothingHeld`).
`TimerInv` is the order of timer, callback and cancellation. `ClockInv` says the timer runs
no faster than the silence it measures: on the clock, `gap + waited + left` reaches the
idle time, unless an event has come that the handler will take before any time passes.
With it `QuietInv`: if the timer fired, the upstream was silent or the call was over for
another reason; and `BlameInv`, who is behind each error a read or a write returns.
`AccountInv` counts: every output the upstream sent before its `[DONE]` is written, being
written, kept for the end or still to be read (`ReadingInv`), and at the end nothing is left
over (`WrappingInv`); for a relay, bytes received are bytes written, buffered or on the
wire. The refinement maps `received` to `produced`, `out` to `shown`, `aborts` to `counted`:
taking an item off the wire is a stutter, its arrival is `Produce`, a write that ends is
`Show`, the last one `Complete`, and `Complete` needs exactly that the count came out even.

*Settings.* `SettingsInv` is `LayersTold` with the shape of what is published and
`CandidateFits`: what waits between the two steps of a configuration reload is valid with
the authentication in force, which a token reload may change meanwhile but only to what is
valid. Without it the published configuration need not be. For the rest of
`SettingsInForce` there is `EntriesInv`: the aliases and overrides in force are those of the
file that counts for them (`RestTaken`), and the catalog's entries are what `Build` makes of
the configuration in force (`EntriesBuilt`). What a list of overrides then gives for a model
is had by induction along the list: for each field, what has been settled so far is what
the last override says that matches the model and speaks of the field (`Settled`,
`OverridesSettle`), also where the list was written out as YAML and read again
(`Reencoded`). Aliases are taken over one by one from three layers: behind each list the
names are those of all so far, and each has what its last layer says (`TwoLayers`).

*Framing.* `Agree` ties the two readers: the prefix is the beginning of the line (up
to the mark), the skip flags are equal, `data` is `haveData`, and what the chunk has
completed is what was dispatched; it is preserved by each byte unless an event is too
large or a mark sets them apart.

*Assembly.* `AssemblyInv` compares the assembler with `fed`, the answer as if it had come
in one piece. `Splits`: what was given out and the part held back are the split of the text
so far, in each of the splitter's states: outside the block, inside, and behind it. It
needs to say exactly what is held. `Scanned`: the text looked through has no tag, and
the part held is the longest of its ends that a tag begins with. Less would lose a tag that
is cut in two, for the next chunk is searched from there; more would find one that begins
later than the whole text's first (`Searching`). `Gathered`: the calls kept are the
fragments so far joined by index, and there are no more, nor longer ones, than allowed. An
answer that has failed is, as a whole, over a bound or has a useless call (`Over`,
`Useless`), which is monotonic in what is fed: so it is known as soon as it happens and
holds still at the end. What goes along a list or a text is had by induction over its
length (`NatInclusion`, `SeqInclusion`).

*Lifecycle.* `InvOK` has four parts. `TypeOK` is the run's. `SlotsOK`: `inflight` is the
number of running requests, and who was admitted under a limit found room; a request
that has loaded the counter saw less than its limit, which with the comparison at `Swap`
gives the place. `TimeOK` says what `elapsed` and the timer of the phase add up to:
exactly the periods so far while a phase ends with its timer only, at most those
afterwards; "before its time" needs the first, the margin the second. `CutOK`: the
listener is closed outside the phases that serve, nothing is severed before "closing",
whoever is active while the terminal `Shutdown` runs was told, and nobody is active in
"closing", so an exit from there cuts nobody off. `Margin` is not less than the two
periods the code adds, so the documented bound follows.

*Embedding.* `IInv` says that until there is an answer the collection holds the vectors of
all inputs sent so far, each at its place and of the width that is kept (`Collecting`), and
that the handler's sum is what the metrics have counted, until a report makes it unknown
(`SumKnown`). A valid batch leaves no place out, since as many entries as there are places
and no place twice are all places (`EveryPlaceTaken`), so `Decoded` takes one of each
(`DecodedInOrder`). What the recursive sum computes (`SumGrows`) needs induction, which is
had from the least number that a set lacks (`NatInclusion`), the library's induction
theorems being out of the provers' reach.

*ToolPairing.* `PairingInv` says of the messages sent so far, of which `CallsAnswered` tells
only when the chat is mapped, that every turn but the last has its answers behind it,
one for each call and in no gap (`Turns`), that input and output have the same order and
nothing is sent twice (`Kept`), that each result went to the call it belonged to of those
not taken before it (`AllHome`), and that the code's bookkeeping says the same as input and
output: the calls waiting for answers are those of the last turn, and each one consumed
was taken by a result behind it (`AllWaiting`). `Choice` says what the code's three loops
find. The turns need
the ids: one consumed is never free again, and an id of a new turn is none of an older
one, so an answer never belongs to two turns. The placeholders of a turn left open are
had by induction over its calls (`FlushCloses`).

*RequestBody.* `BodyInv` is what is known of a body between its translation and the
sender's checks: `ServerDecides`, `OperatorThenClient`, `RelayedAsSent`, and that the
sender accepts it, unless an operator's `extra_body` has that very key; then "rejected" is
never reached with a body the first check let through. By cases over the kinds of
request; what the form's rewriting keeps is had by induction over its parts
(`AmongByStep`).

Only model-checked:

* liveness (`RevocationApplied`, `DrainBegins`, `ConfigApplied`, `CatalogApplied`,
  `WorkersExit`, `AlwaysReturns`, `ProcessEnds`), `ENABLED` being out of the prover's reach;
* `MCAnswers!TypeOK` as one formula. Each of its five parts is a theorem about its module
  (`FramingTypeCorrect`, `AssemblyTypeCorrect`, `AnswersProofs!TypeCorrect`,
  `PairingTypeCorrect`, `BodyTypeCorrect`), and `MCAnswers` only puts the five side by side.

What the proof attempts changed in the models. `BlameIsFair` was true within the bounds of
its run and false beyond: with an idle time of three ticks a relay may be writing bytes of
an unfinished event when the next arrives, and an event taken between the timer's firing
and its callback arms the timer again, whose second firing then counted; hence `Silent`
and the first firing. Bytes of a response that was given up could arrive in the next
attempt, which no type invariant of an attempt survives. `Settings` and `RequestBody` merge
with operators of their own, since no prover expands `@@`; what goes through a list is a
recursive function in `Settings`, `RequestBody`, `ToolPairing`, `Embedding` and `Assembly`
(`Through`), and what sorts a set is the ascending list of it (`Ascending`), since none
expands the folds and filters of the libraries; and what those modules took for granted
of their constants, such as that a layer's aliases are pairs, is an assumption now, which
the runs check.

## 5. Findings

Two runs end in a violation, each of one sentence in the repository.

* `SnapshotKept`. `show` replaces its snapshot after a refresh on a miss; the comment
  on `requestSnapshot` says every stage uses the same one. The second snapshot
  authorises anew (`AnswerAuthorized` holds), so only the sentence is wrong.
* `GraceEnds`. A reload that is rejected as ambiguous records no failure: a source
  that fails meanwhile keeps its tokens past `stale_grace`. If its first failure and
  the ambiguity come together and last, its tokens stay for as long.

Noted while modelling, and left without a property since nothing in the repository
says otherwise:

* a model whose metadata could not be fetched has an unknown mode and passes the
  filter of modes;
* the raw ID `m` resolves to the model `M` if `M` won the name both derive;
* `reloadConfig` starts from the first-seen dates it read before discovery, so those
  a refresh adds meanwhile start again (`DatesKept` exempts it);
* a byte order mark hides the first event of a relayed stream from the idle timer;
* a relayed body that is not a stream and is cut upstream after bytes were written
  ends like a complete one;
* an empty `finish_reason` resets `Assembler.Reason` to "stop", while the decoder
  ignores it;
* the idle timer runs while the handler waits for its client, up to
  `write_stall_timeout` per record, so an upstream that never paused can be given up
  as idle (`Silent`, and with it `BlameIsFair`, counts that time as silence, and a relay
  that writes bytes of an unfinished event does not see the one that arrives meanwhile); and after the call's total
  deadline a stream with events still buffered may be reported as idle;
* an operator's `extra_body` with a key `extra_body` passes the validation of the
  configuration and `Finalize`, whose routing keys do not include it, and is then refused
  by `PostJSON` on every request (`OwnersDecide` exempts it); an operator's `metadata`
  that is no object refuses every request when tags are configured;
* the pairing of results is greedy: a result without an id may take the call a later
  result names, which then goes to the next open call by name or place, or to the user's
  words, or is dropped if what was taken for its call's answer has the same content
  (`CallsAnswered` allows this: a result belongs to a call only if no earlier one took it);
* an override from `OLLAME_MODELS_OVERRIDES` with an empty `drop_params` does not clear the
  drops of an earlier one, as it would in the file: encoding the merged configuration
  omits the empty list (`Reencoded`);
* what `provenance` says is of the file that was last published, not of the one on disk:
  outside authentication, an edit that only moves a value to the file, and changes none,
  is not published;
* an override that leaves `think_initial` without `think_tags` is found when a model that
  it matches is listed, and every `Build` fails from then on;
* a `default_tag` in the file may complete two aliases of the environment or of the
  flags to one name: then every load fails, that of a token reload included, and the
  file's own tokens count as a failing source until it is edited again;
* a signal that finds the channel of four full is dropped, as `signal.Notify` documents: a
  termination after four hangups that nobody has taken yet is lost;
* `/api/ps` may list a recently used model that a later configuration no longer
  exposes, until it expires.

## 6. Not modelled, and why

* Recently used models: a map under one mutex, and each operation is one step of one
  goroutine, so there is nothing between two steps to go wrong.
* What the handlers copy or compose without control: headers, the contents of records,
  `/v1/models`, requests answered locally (`keep_alive` without a prompt).
* The rest of request translation: the choice of a thinking parameter, the templates
  of generate, texts, images and schemas, estimates of tokens: conversions of one
  value.
* Formats of token files, globs, matching of `Authorization`, the forms of values and most
  rules of validation, redaction, CORS, the shapes of errors: sequential and stateless.
  `Settings` has the precedence and the rules that reloads or overrides can break,
  `Publication` what a failed read or validation does to the workers.
* The command line: one thread, no state that outlives a call. Management, provenance and
  profiling endpoints: views of the published snapshot, or refusals.
* Log probabilities, normalisation of vectors, times, traces, log lines, metrics other
  than aborts and tokens; counts of 2^63 bytes in memory.
* The HTTP libraries, the file system and the clock, as far as `PROJECT.json` marks a
  definition external. `http.Server.Shutdown` and `Close` are in `Lifecycle` as the code
  uses them.

## 7. Plan

Done, in this order: `SnapshotStore` and `Publication` with their proofs, since every
request depends on the snapshot; `TokenSources` and `Catalog`, the data inside it;
`UpstreamCall` and the handlers (`Downstream`, `Inference`, `Passthrough`, `Handlers`) with
their promise (`Answer`); `Framing`, `Assembly` and `Embedding`; `Lifecycle` with its
proofs; `ToolPairing` and `RequestBody`; `Settings`.

Then the proofs beyond the first invariants: the rest of `Publication`'s, all safety of
`Handlers` with its refinement, `ListedNamesReached`, all of `Settings`, `Embedding`,
`ToolPairing`, `RequestBody` and `Assembly`: every safety property of the runs that pass is
now a theorem.

Left: the parts of section 6, and proofs of liveness if a prover for `ENABLED` is at hand.
