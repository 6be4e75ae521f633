---------------------------- MODULE Publication ----------------------------
(***************************************************************************)
(* How internal/server publishes snapshots.  Three workers (catalog        *)
(* refresher, token reloader, configuration reloader), the requests that   *)
(* miss a model and refresh the catalog themselves, and Run, which begins  *)
(* draining, share `active`, an atomic pointer to an immutable snapshot.   *)
(* A step is what one goroutine does between two points where another can  *)
(* be noticed: a lock, an unlocked read, a read of a file or a call to the *)
(* upstream.                                                               *)
(*                                                                         *)
(* Contents are versions: an edit of the configuration file, a token       *)
(* source or the key file, and a change of the upstream's model list,      *)
(* raise a number.  Version 0 is "none" (a dropped token source, the empty *)
(* catalog New starts with).                                               *)
(***************************************************************************)
EXTENDS Naturals

CONSTANTS
    Requests,       \* /api/show requests
    SourceKinds,    \* the kinds an edit may leave the configuration file in
    ExternalKinds,  \* the kinds an edit may leave the other token sources in
    MaxConfig, MaxAuth, MaxExternal, MaxKey, MaxListing,    \* bounds on edits
    Outages         \* whether the upstream can become unavailable

\* "unreadable": Source.Load fails. "badConfig"/"badAuth": Validate rejects the
\* non-auth/auth part (or, which has the same effect as the former, upstream.New
\* cannot read its CA bundle). "badInline": valid, but the secret file of an
\* inline token cannot be read.
AllSourceKinds == {"good", "unreadable", "badConfig", "badAuth", "badInline"}

\* "clash": two of the sources hold one token under different names.
AllExternalKinds == {"good", "unreadable", "clash"}

Refresher == "refresher"
Refreshers == {Refresher} \cup Requests
Publishers == Refreshers \cup {"auth", "config"}
Threads == Publishers \cup {"main"}
None == "none"

ASSUME RequestsAssumption == Requests \cap {Refresher, "auth", "config", "main", None} = {}
ASSUME KindsAssumption ==
    SourceKinds \subseteq AllSourceKinds /\ ExternalKinds \subseteq AllExternalKinds
ASSUME BoundsAssumption ==
    /\ MaxConfig \in Nat /\ MaxAuth \in Nat /\ MaxExternal \in Nat
    /\ MaxKey \in Nat /\ MaxListing \in Nat /\ Outages \in BOOLEAN

VARIABLES
    active,         \* the published snapshot
    authState,      \* last-good token version per source; guarded by authMu
    loaded,         \* a catalog has been published since the start
    draining,       \* set under publishMu, read without it
    ctxDone,        \* refreshCtx, the workers' context, is cancelled
    candidates,     \* the one-slot wake-up channel of the configuration reloader
    missRecent,     \* lastMiss is less than 10s ago
    refreshMu, authMu, publishMu,   \* holder of each mutex, or None
    pc,             \* where each goroutine is
    latest,         \* `latest`: the snapshot a publisher loaded under publishMu
    refreshJob,     \* per refresher: what it took from `current`, and the listing
    authJob,        \* the token reloader's reads
    configJob,      \* the configuration reloader's reads
    clients,        \* upstream clients with connections that nobody closed
    view,           \* the snapshot a request works with
    answer,         \* what a request was answered
    source, external, keyFile, listing,     \* the environment: files, model list
    upstreamUp,     \* the upstream answers, with a list Build accepts
    newest          \* history: newest token version published, per source

published    == <<active, loaded, newest>>
stopping     == <<draining, ctxDone>>
publishing   == <<publishMu, latest>>
refreshing   == <<refreshMu, missRecent, refreshJob>>
tokenReload  == <<authState, authJob>>
configReload == <<configJob, clients>>
requests     == <<view, answer>>
environment  == <<source, external, keyFile, listing, upstreamUp>>

vars == <<published, stopping, publishing, refreshing, tokenReload, configReload, authMu,
          candidates, requests, environment, pc>>

Store == INSTANCE SnapshotStore
            WITH store <- active, remembered <- authState, ready <- loaded, closed <- draining

NoSnapshot ==
    LET client == [cfg |-> 0, key |-> 0]
    IN  [cfg |-> 0, key |-> 0, auth |-> 0, tokens |-> [inline |-> 0, external |-> 0],
         client |-> client, catalog |-> [client |-> client, listing |-> 0], gen |-> 0]
NoRefreshJob == [gen |-> 0, client |-> NoSnapshot.client, listing |-> 0]
NoAuthJob == [gen |-> 0, auth |-> 0, inline |-> 0, tokens |-> NoSnapshot.tokens]
\* `candidate` is loaded.Config; seen and seenKey are history: the configuration
\* and the key file at the moment discovery answered.
NoConfigJob == [gen |-> 0, cfg |-> 0, key |-> 0, client |-> NoSnapshot.client,
                candidate |-> [cfg |-> 0, auth |-> 0, kind |-> "good"],
                newKey |-> 0, listing |-> 0, seen |-> 0, seenKey |-> 0]
----------------------------------------------------------------------------
\* New has read every source once and Run has started the workers; the catalog
\* is still the empty one.
Init ==
    /\ active = Store!FirstSnapshot
    /\ authState = active.tokens /\ newest = active.tokens
    /\ clients = {active.client}
    /\ loaded = FALSE /\ draining = FALSE /\ ctxDone = FALSE
    /\ candidates = FALSE /\ missRecent = FALSE
    /\ refreshMu = None /\ authMu = None /\ publishMu = None
    /\ pc = [t \in Threads |-> IF t = Refresher THEN "lock"
                               ELSE IF t \in Requests THEN "new" ELSE "idle"]
    /\ latest = [t \in Publishers |-> NoSnapshot]
    /\ refreshJob = [t \in Refreshers |-> NoRefreshJob]
    /\ authJob = NoAuthJob /\ configJob = NoConfigJob
    /\ view = [r \in Requests |-> NoSnapshot] /\ answer = [r \in Requests |-> None]
    /\ source = [cfg |-> 1, auth |-> 1, kind |-> "good"]
    /\ external = [version |-> 1, kind |-> "good"]
    /\ keyFile = [version |-> 1, readable |-> TRUE]
    /\ listing = 1 /\ upstreamUp = TRUE

Goto(t, label) == pc' = [pc EXCEPT ![t] = label]
At(t, label) == pc[t] = label

\* Variant: publishMu is not taken.
EnterUnlocked(t) ==
    /\ At(t, "publish")
    /\ publishMu' = t
    /\ latest' = [latest EXCEPT ![t] = active]
    /\ Goto(t, "compare")

\* A publisher takes publishMu and loads `latest`.
EnterPublish(t) ==
    /\ At(t, "publish") /\ publishMu = None
    /\ publishMu' = t
    /\ latest' = [latest EXCEPT ![t] = active]
    /\ Goto(t, "compare")

\* Variant: publishMu is not released.
LeaveLocked(t) ==
    /\ publishMu' = publishMu
    /\ latest' = [latest EXCEPT ![t] = NoSnapshot]

LeavePublish(t) ==
    /\ publishMu' = None
    /\ latest' = [latest EXCEPT ![t] = NoSnapshot]

\* Variant: the generations are not compared.
AnyGeneration(t, generation) == ~draining

\* The check every publisher makes under publishMu: not draining, and
\* latest.generation = current.generation.
MayPublish(t, generation) == ~draining /\ latest[t].gen = generation

\* The check passes: the publisher goes on to store, still under publishMu.
Passes(t, generation) ==
    /\ At(t, "compare") /\ MayPublish(t, generation)
    /\ Goto(t, "store")
----------------------------------------------------------------------------
(* refresh(ctx, miss): the periodic refresher, and requests that miss.      *)

besideRefresh == <<stopping, authMu, candidates, tokenReload, configReload, requests, environment>>

\* refreshLoop's timer.
RefreshTimer ==
    /\ At(Refresher, "idle")
    /\ Goto(Refresher, "lock")
    /\ UNCHANGED <<published, publishing, refreshing, besideRefresh>>

RefresherExits ==
    /\ At(Refresher, "idle") /\ ctxDone
    /\ Goto(Refresher, "exited")
    /\ UNCHANGED <<published, publishing, refreshing, besideRefresh>>

\* Variant: every caller goes on as the periodic refresher does.
RefreshReturnsIdle(t) ==
    /\ refreshMu' = None
    /\ refreshJob' = [refreshJob EXCEPT ![t] = NoRefreshJob]
    /\ Goto(t, "idle")

\* refresh returns: refreshMu is released and the caller goes on.
RefreshReturns(t) ==
    /\ refreshMu' = None
    /\ refreshJob' = [refreshJob EXCEPT ![t] = NoRefreshJob]
    /\ Goto(t, IF t = Refresher THEN "idle" ELSE "recapture")

Throttled(t) == t \in Requests /\ missRecent

RefreshSkips(t) ==
    /\ At(t, "lock") /\ refreshMu = None
    /\ draining \/ Throttled(t)
    /\ RefreshReturns(t)
    /\ UNCHANGED <<published, publishing, missRecent, besideRefresh>>

RefreshBegins(t) ==
    /\ At(t, "lock") /\ refreshMu = None
    /\ ~draining /\ ~Throttled(t)
    /\ refreshMu' = t
    /\ missRecent' = (missRecent \/ t \in Requests)
    /\ refreshJob' = [refreshJob EXCEPT ![t].gen = active.gen, ![t].client = active.client]
    /\ Goto(t, "discover")
    /\ UNCHANGED <<published, publishing, besideRefresh>>

\* Discover answered and Build accepted the list.
RefreshDiscovers(t) ==
    /\ At(t, "discover") /\ upstreamUp
    /\ t = Refresher => ~ctxDone
    /\ refreshJob' = [refreshJob EXCEPT ![t].listing = listing]
    /\ Goto(t, "recheck")
    /\ UNCHANGED <<published, publishing, refreshMu, missRecent, besideRefresh>>

\* Variant: a failed refresh counts as loaded.
RefreshFailsLoaded(t) ==
    /\ At(t, "discover")
    /\ ~upstreamUp \/ t \in Requests \/ ctxDone
    /\ loaded' = TRUE
    /\ RefreshReturns(t)
    /\ UNCHANGED <<active, newest, publishing, missRecent, besideRefresh>>

\* Discover or Build failed, or the caller's context is done (a request's client
\* may leave at any time).
RefreshFails(t) ==
    /\ At(t, "discover")
    /\ ~upstreamUp \/ t \in Requests \/ ctxDone
    /\ RefreshReturns(t)
    /\ UNCHANGED <<published, publishing, missRecent, besideRefresh>>

\* The unlocked check of draining between Build and publishMu.
RefreshRechecks(t) ==
    /\ At(t, "recheck")
    /\ \/ draining /\ RefreshReturns(t)
       \/ ~draining /\ Goto(t, "publish") /\ UNCHANGED <<refreshMu, refreshJob>>
    /\ UNCHANGED <<published, publishing, missRecent, besideRefresh>>

RefreshEnters(t) ==
    /\ EnterPublish(t)
    /\ UNCHANGED <<published, refreshing, besideRefresh>>

\* Variant: a candidate that is dropped ends the worker.
RefreshDropsForGood(t) ==
    /\ At(t, "compare") /\ ~MayPublish(t, refreshJob[t].gen)
    /\ LeavePublish(t) /\ refreshMu' = None
    /\ Goto(t, "exited")
    /\ UNCHANGED <<published, missRecent, refreshJob, besideRefresh>>

RefreshDrops(t) ==
    /\ At(t, "compare") /\ ~MayPublish(t, refreshJob[t].gen)
    /\ LeavePublish(t) /\ RefreshReturns(t)
    /\ UNCHANGED <<published, missRecent, besideRefresh>>

RefreshCompares(t) ==
    /\ Passes(t, refreshJob[t].gen)
    /\ UNCHANGED <<published, publishing, refreshing, besideRefresh>>

RefreshPublishes(t) ==
    /\ At(t, "store")
    /\ active' = [latest[t] EXCEPT !.catalog =
                    [client |-> refreshJob[t].client, listing |-> refreshJob[t].listing]]
    /\ Goto(t, "loaded")
    /\ UNCHANGED <<loaded, newest, publishing, refreshing, besideRefresh>>

\* loaded is stored after active, still under both locks.
RefreshLoaded(t) ==
    /\ At(t, "loaded")
    /\ loaded' = TRUE
    /\ LeavePublish(t) /\ RefreshReturns(t)
    /\ UNCHANGED <<active, newest, missRecent, besideRefresh>>

\* Ten seconds have passed since the last miss.
MissWindowPasses ==
    /\ missRecent /\ missRecent' = FALSE
    /\ UNCHANGED <<published, publishing, refreshMu, refreshJob, besideRefresh, pc>>

Refresh(t) ==
    \/ RefreshSkips(t) \/ RefreshBegins(t) \/ RefreshDiscovers(t) \/ RefreshFails(t)
    \/ RefreshRechecks(t) \/ RefreshEnters(t) \/ RefreshDrops(t)
    \/ RefreshCompares(t) \/ RefreshPublishes(t) \/ RefreshLoaded(t)
----------------------------------------------------------------------------
(* reloadTokens(now): the token reloader, woken by its timer or by SIGHUP.  *)

besideTokens == <<stopping, refreshing, configReload, requests, environment>>

TokensWake ==
    /\ At("auth", "idle")
    /\ Goto("auth", "lock")
    /\ UNCHANGED <<published, publishing, tokenReload, authMu, candidates, besideTokens>>

\* Variant: the loop does not watch its context.
TokensNeverExit == FALSE /\ UNCHANGED vars

TokensExit ==
    /\ At("auth", "idle") /\ ctxDone
    /\ Goto("auth", "exited")
    /\ UNCHANGED <<published, publishing, tokenReload, authMu, candidates, besideTokens>>

\* reloadTokens returns: authMu is released, then the deferred wake-up runs.
TokensReturn ==
    /\ authMu' = None
    /\ authJob' = NoAuthJob
    /\ Goto("auth", "wake")

TokensSkip ==
    /\ At("auth", "lock") /\ authMu = None /\ draining
    /\ TokensReturn
    /\ UNCHANGED <<published, publishing, authState, candidates, besideTokens>>

TokensBegin ==
    /\ At("auth", "lock") /\ authMu = None /\ ~draining
    /\ authMu' = "auth"
    /\ authJob' = [authJob EXCEPT !.gen = active.gen, !.auth = active.auth]
    /\ Goto("auth", "load")
    /\ UNCHANGED <<published, publishing, authState, candidates, besideTokens>>

\* Variant: a file that is not valid as a whole ends the reload.
TokensLoadWhole ==
    /\ At("auth", "load")
    /\ IF source.kind # "good"
       THEN TokensReturn
       ELSE /\ authJob' = [authJob EXCEPT !.auth = source.auth, !.inline = source.auth]
            /\ Goto("auth", "read") /\ UNCHANGED authMu
    /\ UNCHANGED <<published, publishing, authState, candidates, besideTokens>>

\* The file's auth part is taken when it loads and validates against the
\* published rest; the inline tokens count as read (inline # 0) only if their
\* own secret files can be read too.
TokensLoad ==
    /\ At("auth", "load")
    /\ authJob' = [authJob EXCEPT
            !.auth   = IF source.kind \in {"unreadable", "badAuth"} THEN @ ELSE source.auth,
            !.inline = IF source.kind \in {"good", "badConfig"} THEN source.auth ELSE 0]
    /\ Goto("auth", "read")
    /\ UNCHANGED <<published, publishing, authState, authMu, candidates, besideTokens>>

\* Update, per source: a good read replaces, a failed one retains the last-good
\* tokens or, once stale_grace has passed, drops them.
Effective(prior, version, readable) == IF readable THEN {version} ELSE {prior, 0}

\* Variant: authState is replaced when it is computed, not when it is published.
TokensReadEarly ==
    /\ At("auth", "read") /\ external.kind # "clash"
    /\ \E i \in Effective(authState.inline, authJob.inline, authJob.inline # 0),
          e \in Effective(authState.external, external.version, external.kind = "good") :
            /\ authJob' = [authJob EXCEPT !.tokens = [inline |-> i, external |-> e]]
            /\ authState' = [inline |-> i, external |-> e]
    /\ Goto("auth", "publish")
    /\ UNCHANGED <<published, publishing, authMu, candidates, besideTokens>>

\* ReadSources and State.Update.
TokensRead ==
    /\ At("auth", "read") /\ external.kind # "clash"
    /\ \E i \in Effective(authState.inline, authJob.inline, authJob.inline # 0),
          e \in Effective(authState.external, external.version, external.kind = "good") :
            authJob' = [authJob EXCEPT !.tokens = [inline |-> i, external |-> e]]
    /\ Goto("auth", "publish")
    /\ UNCHANGED <<published, publishing, authState, authMu, candidates, besideTokens>>

\* Variant: a rejected reload does not wake the configuration reloader.
TokensRejectedQuietly ==
    /\ At("auth", "read") /\ external.kind = "clash"
    /\ authMu' = None /\ authJob' = NoAuthJob
    /\ Goto("auth", "idle")
    /\ UNCHANGED <<published, publishing, authState, candidates, besideTokens>>

\* Update refuses an ambiguous set: the reload is rejected as a whole.
TokensRejected ==
    /\ At("auth", "read") /\ external.kind = "clash"
    /\ TokensReturn
    /\ UNCHANGED <<published, publishing, authState, candidates, besideTokens>>

TokensEnter ==
    /\ EnterPublish("auth")
    /\ UNCHANGED <<published, tokenReload, authMu, candidates, besideTokens>>

TokensDrop ==
    /\ At("auth", "compare") /\ ~MayPublish("auth", authJob.gen)
    /\ LeavePublish("auth") /\ TokensReturn
    /\ UNCHANGED <<published, authState, candidates, besideTokens>>

TokensCompare ==
    /\ Passes("auth", authJob.gen)
    /\ UNCHANGED <<published, publishing, tokenReload, authMu, candidates, besideTokens>>

TokensPublish ==
    /\ At("auth", "store")
    /\ active' = [latest["auth"] EXCEPT !.auth = authJob.auth, !.tokens = authJob.tokens]
    /\ authState' = authJob.tokens
    /\ newest' = [inline   |-> Store!Seen(authJob.tokens.inline, newest.inline),
                  external |-> Store!Seen(authJob.tokens.external, newest.external)]
    /\ LeavePublish("auth") /\ TokensReturn
    /\ UNCHANGED <<loaded, candidates, besideTokens>>

\* The deferred non-blocking send.
TokensWakeConfig ==
    /\ At("auth", "wake")
    /\ candidates' = TRUE
    /\ Goto("auth", "idle")
    /\ UNCHANGED <<published, publishing, tokenReload, authMu, besideTokens>>

ReloadTokens ==
    \/ TokensSkip \/ TokensBegin \/ TokensLoad \/ TokensRead \/ TokensRejected
    \/ TokensEnter \/ TokensDrop \/ TokensCompare \/ TokensPublish \/ TokensWakeConfig
----------------------------------------------------------------------------
(* reloadConfig: the configuration reloader, woken through candidates.      *)

besideConfig == <<stopping, refreshing, authState, authJob, requests, environment>>

ConfigExits ==
    /\ At("config", "idle") /\ ctxDone
    /\ Goto("config", "exited")
    /\ UNCHANGED <<published, publishing, configReload, authMu, candidates, besideConfig>>

\* Variant: the client is left open.
GivesUpOpen(made) ==
    /\ clients' = clients
    /\ configJob' = NoConfigJob
    /\ Goto("config", "idle")

\* reloadConfig gives up: a client it made is closed by the deferred call.
ConfigGivesUp(made) ==
    /\ clients' = clients \ made
    /\ configJob' = NoConfigJob
    /\ Goto("config", "idle")

NewClient == [cfg |-> configJob.candidate.cfg, key |-> configJob.newKey]

ConfigWakes ==
    /\ At("config", "idle") /\ candidates
    /\ candidates' = FALSE
    /\ IF ctxDone \/ draining
       THEN UNCHANGED <<pc, configJob>>
       ELSE /\ configJob' = [configJob EXCEPT !.gen = active.gen, !.cfg = active.cfg,
                                              !.key = active.key, !.client = active.client]
            /\ Goto("config", "load")
    /\ UNCHANGED <<published, publishing, clients, authMu, besideConfig>>

\* The candidate keeps the published auth part, so only the rest is validated.
ConfigLoads ==
    /\ At("config", "load")
    /\ IF source.kind \in {"unreadable", "badConfig"}
       THEN ConfigGivesUp({})
       ELSE /\ configJob' = [configJob EXCEPT !.candidate = source]
            /\ Goto("config", "key") /\ UNCHANGED clients
    /\ UNCHANGED <<published, publishing, authMu, candidates, besideConfig>>

\* ReadKey, retaining the published key on failure; then the client is made.
ConfigReadsKey ==
    /\ At("config", "key")
    /\ LET key == IF keyFile.readable THEN keyFile.version ELSE configJob.key
       IN  IF configJob.candidate.cfg = configJob.cfg /\ key = configJob.key
           THEN ConfigGivesUp({})
           ELSE /\ configJob' = [configJob EXCEPT !.newKey = key]
                /\ clients' = clients \cup {[cfg |-> configJob.candidate.cfg, key |-> key]}
                /\ Goto("config", "discover")
    /\ UNCHANGED <<published, publishing, authMu, candidates, besideConfig>>

\* Discover through the new client answered and Build accepted the list.
ConfigDiscovers ==
    /\ At("config", "discover") /\ upstreamUp /\ ~ctxDone
    /\ configJob' = [configJob EXCEPT !.listing = listing, !.seen = source.cfg,
                                      !.seenKey = keyFile.version]
    /\ Goto("config", "source")
    /\ UNCHANGED <<published, publishing, clients, authMu, candidates, besideConfig>>

ConfigFails ==
    /\ At("config", "discover")
    /\ ~upstreamUp \/ ctxDone
    /\ ConfigGivesUp({NewClient})
    /\ UNCHANGED <<published, publishing, authMu, candidates, besideConfig>>

\* Variant: only that the source still loads is checked.
SupersededIfUnreadable == source.kind = "unreadable"

\* The concrete source is read again: the candidate must still be all of it.
Superseded == source.kind = "unreadable" \/ source # configJob.candidate

ConfigRechecksSource ==
    /\ At("config", "source")
    /\ IF Superseded
       THEN ConfigGivesUp({NewClient})
       ELSE Goto("config", "keyAgain") /\ UNCHANGED configReload
    /\ UNCHANGED <<published, publishing, authMu, candidates, besideConfig>>

KeySuperseded ==
    \/ keyFile.readable /\ keyFile.version # configJob.newKey
    \/ ~keyFile.readable /\ configJob.newKey # configJob.key

ConfigRechecksKey ==
    /\ At("config", "keyAgain")
    /\ IF KeySuperseded
       THEN ConfigGivesUp({NewClient})
       ELSE Goto("config", "lock") /\ UNCHANGED configReload
    /\ UNCHANGED <<published, publishing, authMu, candidates, besideConfig>>

\* Variant: authMu is not taken.
ConfigSkipsLock ==
    /\ At("config", "lock")
    /\ Goto("config", "publish")
    /\ UNCHANGED <<published, publishing, configReload, authMu, candidates, besideConfig>>

ConfigLocks ==
    /\ At("config", "lock") /\ authMu = None
    /\ authMu' = "config"
    /\ Goto("config", "publish")
    /\ UNCHANGED <<published, publishing, configReload, candidates, besideConfig>>

ConfigEnters ==
    /\ EnterPublish("config")
    /\ UNCHANGED <<published, configReload, authMu, candidates, besideConfig>>

ConfigDrops ==
    /\ At("config", "compare")
    /\ ctxDone \/ ~MayPublish("config", configJob.gen)
    /\ LeavePublish("config") /\ authMu' = None /\ ConfigGivesUp({NewClient})
    /\ UNCHANGED <<published, candidates, besideConfig>>

ConfigCompares ==
    /\ ~ctxDone /\ Passes("config", configJob.gen)
    /\ UNCHANGED <<published, publishing, configReload, authMu, candidates, besideConfig>>

ConfigPublishes ==
    /\ At("config", "store")
    /\ active' = [cfg     |-> configJob.candidate.cfg,
                  key     |-> configJob.newKey,
                  auth    |-> latest["config"].auth,
                  tokens  |-> latest["config"].tokens,
                  client  |-> NewClient,
                  catalog |-> [client |-> NewClient, listing |-> configJob.listing],
                  gen     |-> latest["config"].gen + 1]
    /\ Goto("config", "loaded")
    /\ UNCHANGED <<loaded, newest, publishing, configReload, authMu, candidates, besideConfig>>

\* loaded is stored, the previous client closed, both locks released.
ConfigLoaded ==
    /\ At("config", "loaded")
    /\ loaded' = TRUE
    /\ LeavePublish("config") /\ authMu' = None /\ ConfigGivesUp({configJob.client})
    /\ UNCHANGED <<active, newest, candidates, besideConfig>>

ReloadConfig ==
    \/ ConfigLoads \/ ConfigReadsKey \/ ConfigDiscovers \/ ConfigFails
    \/ ConfigRechecksSource \/ ConfigRechecksKey \/ ConfigLocks \/ ConfigEnters
    \/ ConfigDrops \/ ConfigCompares \/ ConfigPublishes \/ ConfigLoaded
----------------------------------------------------------------------------
(* Run's shutdown, as far as publication sees it.                           *)

besideRun == <<published, latest, refreshing, tokenReload, configReload, authMu, candidates,
               requests, environment>>

\* A termination signal cancels the parent context; a failed listener does not.
RunStops ==
    /\ At("main", "idle")
    /\ ctxDone' \in {ctxDone, TRUE}
    /\ Goto("main", "drain")
    /\ UNCHANGED <<draining, publishMu, besideRun>>

\* Variant: publishMu is not waited for.
RunLocksNothing ==
    /\ At("main", "drain")
    /\ Goto("main", "set")
    /\ UNCHANGED <<publishMu, stopping, besideRun>>

RunLocks ==
    /\ At("main", "drain") /\ publishMu = None
    /\ publishMu' = "main"
    /\ Goto("main", "set")
    /\ UNCHANGED <<stopping, besideRun>>

RunDrains ==
    /\ At("main", "set")
    /\ draining' = TRUE /\ publishMu' = None
    /\ Goto("main", "cancel")
    /\ UNCHANGED <<ctxDone, besideRun>>

RunCancels ==
    /\ At("main", "cancel")
    /\ ctxDone' = TRUE
    /\ Goto("main", "exited")
    /\ UNCHANGED <<draining, publishMu, besideRun>>

Run == RunLocks \/ RunDrains \/ RunCancels
----------------------------------------------------------------------------
(* A show request.  Its credential is the external token of version 1, and  *)
(* its model is one the upstream lists only from the last listing on.       *)

besideShow == <<published, stopping, publishing, refreshing, tokenReload, configReload, authMu,
                candidates, environment>>

Authorized(snapshot) == snapshot.tokens.external = 1
Resolves(snapshot) == snapshot.catalog.listing >= MaxListing

ShowCaptures(r) ==
    /\ At(r, "new")
    /\ view' = [view EXCEPT ![r] = active]
    /\ Goto(r, "resolve")
    /\ UNCHANGED <<answer, besideShow>>

\* Variant: the credential is not looked at again.
AnswersUnchecked(r, snapshot) ==
    /\ answer' = [answer EXCEPT ![r] = IF Resolves(snapshot) THEN "found" ELSE "notFound"]
    /\ Goto(r, "done")

Answers(r, snapshot) ==
    /\ answer' = [answer EXCEPT ![r] = IF ~Authorized(snapshot) THEN "unauthorized"
                                       ELSE IF Resolves(snapshot) THEN "found" ELSE "notFound"]
    /\ Goto(r, "done")

\* Authorised but not found: refresh_on_miss.
Misses(snapshot) == Authorized(snapshot) /\ ~Resolves(snapshot)

ShowResolves(r) ==
    /\ At(r, "resolve")
    /\ IF Misses(view[r])
       THEN Goto(r, "lock") /\ UNCHANGED answer
       ELSE Answers(r, view[r])
    /\ UNCHANGED <<view, besideShow>>

\* After its refresh the request takes the published snapshot, and is
\* authorised and resolved again by it.
ShowRecaptures(r) ==
    /\ At(r, "recapture")
    /\ view' = [view EXCEPT ![r] = active]
    /\ Answers(r, active)
    /\ UNCHANGED besideShow

Show(r) == ShowCaptures(r) \/ ShowResolves(r) \/ ShowRecaptures(r)
----------------------------------------------------------------------------
(* The environment: files are edited, the upstream's list changes, the      *)
(* upstream comes and goes.                                                 *)

beforeFiles == <<published, stopping, publishing, refreshing, tokenReload, configReload, authMu,
                 candidates, requests, pc>>

EditSource ==
    /\ \E c, a \in {0, 1}, kind \in SourceKinds :
        /\ c + a > 0
        /\ source.cfg + c <= MaxConfig /\ source.auth + a <= MaxAuth
        /\ source' = [cfg |-> source.cfg + c, auth |-> source.auth + a, kind |-> kind]
    /\ UNCHANGED <<external, keyFile, listing, upstreamUp, beforeFiles>>

EditExternal ==
    /\ external.version < MaxExternal
    /\ \E kind \in ExternalKinds : external' = [version |-> external.version + 1, kind |-> kind]
    /\ UNCHANGED <<source, keyFile, listing, upstreamUp, beforeFiles>>

EditKey ==
    /\ keyFile.version < MaxKey
    /\ keyFile' \in [version : {keyFile.version + 1}, readable : BOOLEAN]
    /\ UNCHANGED <<source, external, listing, upstreamUp, beforeFiles>>

ListingChanges ==
    /\ listing < MaxListing
    /\ listing' = listing + 1
    /\ UNCHANGED <<source, external, keyFile, upstreamUp, beforeFiles>>

UpstreamToggles ==
    /\ Outages /\ upstreamUp' = ~upstreamUp
    /\ UNCHANGED <<source, external, keyFile, listing, beforeFiles>>

Environment == EditSource \/ EditExternal \/ EditKey \/ ListingChanges \/ UpstreamToggles
----------------------------------------------------------------------------
Next ==
    \/ RefreshTimer \/ RefresherExits \/ MissWindowPasses \/ (\E t \in Refreshers : Refresh(t))
    \/ TokensWake \/ TokensExit \/ ReloadTokens
    \/ ConfigWakes \/ ConfigExits \/ ReloadConfig
    \/ RunStops \/ Run
    \/ \E r \in Requests : Show(r)
    \/ Environment

Spec == Init /\ [][Next]_vars

(***************************************************************************)
(* Fairness.  The Go scheduler runs every goroutine that can take a step,  *)
(* timers fire, a sync.Mutex in starvation mode hands over to the waiter,  *)
(* and select picks at random among its ready cases: so each worker is     *)
(* strongly fair, and so is its exit.  Discovery ends because              *)
(* fetch_timeout bounds it, but SlowUpstreamSpec does not assume that.     *)
(***************************************************************************)
LocalRefresh(t) == ~At(t, "discover") /\ Refresh(t)
LocalReload == ~At("config", "discover") /\ ReloadConfig

FairEnough ==
    /\ SF_vars(TokensWake \/ ReloadTokens)
    /\ SF_vars(RefresherExits) /\ SF_vars(TokensExit) /\ SF_vars(ConfigExits)
    /\ SF_vars(Run)

SlowUpstreamSpec ==
    /\ Spec /\ FairEnough
    /\ SF_vars(RefreshTimer \/ LocalRefresh(Refresher)) /\ SF_vars(ConfigWakes \/ LocalReload)
    /\ \A r \in Requests : SF_vars(LocalRefresh(r))

FairSpec ==
    /\ Spec /\ FairEnough
    /\ SF_vars(RefreshTimer \/ Refresh(Refresher)) /\ SF_vars(ConfigWakes \/ ReloadConfig)
    /\ \A r \in Requests : SF_vars(Refresh(r))
----------------------------------------------------------------------------
(* Types                                                                    *)

Clients == [cfg : Nat, key : Nat]
Tokens == [inline : Nat, external : Nat]
Catalogs == [client : Clients, listing : Nat]
Snapshots == [cfg : Nat, key : Nat, auth : Nat, tokens : Tokens, client : Clients,
              catalog : Catalogs, gen : Nat]

\* Where each goroutine can be.
RefreshLabels == {"lock", "discover", "recheck", "publish", "compare", "store", "loaded"}
RefresherLabels == RefreshLabels \cup {"idle", "exited"}
ShowLabels == RefreshLabels \cup {"new", "resolve", "recapture", "done"}
TokensLabels == {"idle", "lock", "load", "read", "publish", "compare", "store", "wake", "exited"}
ConfigLabels == {"idle", "load", "key", "discover", "source", "keyAgain", "lock", "publish",
                 "compare", "store", "loaded", "exited"}
RunLabels == {"idle", "drain", "set", "cancel", "exited"}

PCTypeOK ==
    /\ pc \in [Threads -> RefresherLabels \cup ShowLabels \cup TokensLabels \cup ConfigLabels
                          \cup RunLabels]
    /\ pc[Refresher] \in RefresherLabels
    /\ \A r \in Requests : pc[r] \in ShowLabels
    /\ pc["auth"] \in TokensLabels
    /\ pc["config"] \in ConfigLabels
    /\ pc["main"] \in RunLabels

RefreshJobs == [gen : Nat, client : Clients, listing : Nat]
AuthJobs == [gen : Nat, auth : Nat, inline : Nat, tokens : Tokens]
Configs == [cfg : Nat, auth : Nat, kind : AllSourceKinds]
ConfigJobs == [gen : Nat, cfg : Nat, key : Nat, client : Clients, candidate : Configs,
               newKey : Nat, listing : Nat, seen : Nat, seenKey : Nat]

DataTypeOK ==
    /\ active \in Snapshots /\ authState \in Tokens /\ newest \in Tokens
    /\ loaded \in BOOLEAN /\ draining \in BOOLEAN /\ ctxDone \in BOOLEAN
    /\ candidates \in BOOLEAN /\ missRecent \in BOOLEAN
    /\ refreshMu \in Refreshers \cup {None}
    /\ authMu \in {"auth", "config", None}
    /\ publishMu \in Publishers \cup {"main", None}
    /\ latest \in [Publishers -> Snapshots]
    /\ refreshJob \in [Refreshers -> RefreshJobs]
    /\ authJob \in AuthJobs
    /\ configJob \in ConfigJobs
    /\ clients \subseteq Clients
    /\ view \in [Requests -> Snapshots]
    /\ answer \in [Requests -> {None, "unauthorized", "found", "notFound"}]
    /\ source \in Configs
    /\ external \in [version : Nat, kind : AllExternalKinds]
    /\ keyFile \in [version : Nat, readable : BOOLEAN]
    /\ listing \in Nat /\ upstreamUp \in BOOLEAN

\* The type of every variable.
TypeOK == DataTypeOK /\ PCTypeOK
----------------------------------------------------------------------------
(* Safety                                                                   *)

Coherent(snapshot) ==
    /\ snapshot.client = [cfg |-> snapshot.cfg, key |-> snapshot.key]
    /\ snapshot.catalog.client = snapshot.client

\* A snapshot never mixes generations: the published one, and every one a
\* request works with, has a client made from its own configuration and key and
\* a catalog discovered through that client (server.go refresh, reloadConfig).
SnapshotCoherent == Coherent(active) /\ \A r \in Requests : Coherent(view[r])

\* A token version that a later read replaced is never accepted again, whichever
\* publisher writes last: publishing copies the latest tokens, not its own.
RevokedStayRevoked ==
    /\ active.tokens.inline \in {0, newest.inline}
    /\ active.tokens.external \in {0, newest.external}

\* authState, which the next reload falls back on, and the published tokens are
\* the same sets, although they are guarded by different locks.
AuthStatePublished == authState = active.tokens

\* The generation check never discards a token reload: only a configuration
\* reload opens a generation, and it holds authMu to do so (auth_reload.go 96).
TokenReloadKept ==
    At("auth", "compare") /\ ~draining => latest["auth"].gen = authJob.gen

\* A configuration about to be published was still the file's, and its key still
\* the key file's or the published one, after its discovery had answered
\* (config_reload.go 95-104).
NotSuperseded ==
    At("config", "store") =>
        /\ configJob.candidate.cfg >= configJob.seen
        /\ configJob.newKey >= configJob.seenKey \/ configJob.newKey = active.key

\* /readyz can only be satisfied by `loaded` once a discovered catalog is what
\* requests start from.
ReadyMeansCatalog == loaded => active.catalog.listing > 0

\* Whatever path reloadConfig leaves by, only the published client and, while a
\* candidate is being tried or has just replaced it, one more are unclosed.
ClientsAccounted ==
    clients \subseteq {active.client} \cup
        (CASE pc["config"] \in {"discover", "source", "keyAgain", "lock", "publish", "compare", "store"} ->
                {NewClient}
           [] At("config", "loaded") -> {configJob.client}
           [] OTHER -> {})

\* A show request answered after a refresh was authorised by the snapshot it was
\* answered from, not by the one it arrived with.
AnswerAuthorized == \A r \in Requests : answer[r] \in {"found", "notFound"} => Authorized(view[r])

\* Nothing is published once draining is set (it is set under publishMu).
NothingAfterDrain == [][draining => UNCHANGED active]_vars

\* Every step is a step of SnapshotStore or leaves it alone: each publisher changes
\* its own part of the snapshot and no other, no revoked token version comes back,
\* authState and the published tokens change together although different locks
\* guard them, ready means a catalog, and nothing is published once draining.
ImplementsStore == Store!StoreSpec

\* snapshot.go 7-8: "Every stage uses that same snapshot even if a reload
\* publishes while the request is running."  (The show handler does not.)
SnapshotKept == [][\A r \in Requests : view[r] # NoSnapshot => view'[r] = view[r]]_vars
----------------------------------------------------------------------------
(* Liveness                                                                 *)

\* Readable token sources are in force in the end, whatever state the rest of the
\* configuration and the upstream are in: no token reload waits for discovery.
RevocationApplied ==
    <>[]~draining =>
        <>[](external.kind # "clash" =>
                /\ external.kind = "good" => active.tokens.external = external.version
                /\ source.kind \in {"good", "badConfig"} => active.tokens.inline = source.auth)

\* Draining begins once Run has been told to stop, however slow the upstream is.
DrainBegins == At("main", "drain") ~> draining

\* A valid configuration and a readable key are in force in the end: a wake-up
\* that finds the reloader busy, or a candidate dropped as superseded, is made
\* good by a later one.
ConfigApplied ==
    <>[](~draining /\ upstreamUp) =>
        <>[](source.kind \notin {"unreadable", "badConfig"} /\ keyFile.readable =>
                active.cfg = source.cfg /\ active.key = keyFile.version)

\* The upstream's last listing is published in the end.
CatalogApplied == <>[](~draining /\ upstreamUp) => <>[](active.catalog.listing = listing)

\* Every worker ends once Run has cancelled its context.
WorkersExit ==
    At("main", "exited") ~> \A t \in {Refresher, "auth", "config"} : At(t, "exited")
=============================================================================
