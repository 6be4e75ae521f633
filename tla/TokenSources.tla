---------------------------- MODULE TokenSources ----------------------------
(***************************************************************************)
(* What a token reload makes of the sources it reads (internal/auth and    *)
(* its callers New and reloadTokens): names are resolved in source order,  *)
(* a source that cannot be read keeps its last-good tokens for             *)
(* stale_grace, and a reload whose result is ambiguous changes nothing.    *)
(*                                                                         *)
(* A reload is one step here: one goroutine runs it under authMu.  What    *)
(* happens between its reads and its publication is in Publication, which  *)
(* sees the contents only as versions.  A token value is its digest; time  *)
(* is counted in ticks.                                                    *)
(***************************************************************************)
EXTENDS Integers

CONSTANTS
    Names, Digests,
    Offers,         \* what each source may be edited to hold
    Fragile,        \* the sources that may become unreadable or invalid
    Configs,        \* the auth configurations that may be written
    Overtakes,      \* whether a configuration may be published during a reload
    MaxTime,        \* bound on the clock
    Unreadable      \* a source that cannot be read, or whose content is invalid

\* ReadSources appends the results in this order: a later one overrides.
SourceIds == {"inline", "file", "directory", "env", "flags"}
Optional == {"file", "directory"}
Rank == [s \in SourceIds |-> CASE s = "inline" -> 1 [] s = "file" -> 2
                               [] s = "directory" -> 3 [] s = "env" -> 4 [] OTHER -> 5]

\* A source holds each name at most once: a repeated name makes it invalid.
Contents == UNION {[N -> Digests] : N \in SUBSET Names}
NoEntries == [n \in {} |-> n]
AuthConfigs == [optional : SUBSET Optional, grace : Nat]
NoTime == -1
Times == 0 .. MaxTime

ASSUME OffersAssumption == Offers \in [SourceIds -> SUBSET Contents]
ASSUME UnreadableAssumption == Unreadable \notin Contents
ASSUME FragileAssumption == Fragile \subseteq SourceIds
ASSUME ConfigsAssumption == Configs \subseteq AuthConfigs
ASSUME TimeAssumption == MaxTime \in Nat /\ Overtakes \in BOOLEAN

VARIABLES
    files,          \* environment: what each source holds
    configReadable, \* environment: the configuration loads and its auth part validates
    configured,     \* environment: its auth part
    clock,
    authConfig,     \* config.Auth of the published snapshot
    sources,        \* State.sources
    tokens,         \* Set.byDigest of the published snapshot, as pairs
    lastGood,       \* history: the last good read of each source that was published
    failingSince,   \* history: when the reads of a source began to fail
    forgotten,      \* history: sources whose first failure was not recorded
    acceptedAt, reloadedAt  \* history: last published reload, last reload

environment == <<files, configReadable, configured>>
state == <<authConfig, sources, tokens>>
history == <<lastGood, failingSince, forgotten, acceptedAt, reloadedAt>>
vars == <<environment, clock, state, history>>

Fresh(content) == [entries |-> content, failed |-> FALSE, failedAt |-> 0]
ZeroSource == Fresh(NoEntries)
SourceStates == [entries : Contents, failed : BOOLEAN, failedAt : Times]

TypeOK ==
    /\ files \in [SourceIds -> Contents \cup {Unreadable}]
    /\ configReadable \in BOOLEAN
    /\ configured \in Configs /\ authConfig \in Configs
    /\ clock \in Times
    /\ sources \in [SourceIds -> SourceStates]
    /\ tokens \subseteq Digests \X Names
    /\ lastGood \in [SourceIds -> Contents]
    /\ failingSince \in [SourceIds -> Times \cup {NoTime}]
    /\ forgotten \subseteq SourceIds
    /\ acceptedAt \in Times /\ reloadedAt \in Times
----------------------------------------------------------------------------
Holders(entries, n) == {s \in SourceIds : n \in DOMAIN entries[s]}
\* Variant: the first source wins.
FirstWinner(entries, n) ==
    CHOOSE s \in Holders(entries, n) : \A t \in Holders(entries, n) : Rank[s] <= Rank[t]

Winner(entries, n) ==
    CHOOSE s \in Holders(entries, n) : \A t \in Holders(entries, n) : Rank[t] <= Rank[s]

\* byName: each name with the digest its last source gives it.
ByName(entries) ==
    {<<entries[Winner(entries, n)][n], n>> : n \in UNION {DOMAIN entries[s] : s \in SourceIds}}

\* Variant: one value under two names is let through.
NeverAmbiguous(set) == FALSE

\* ErrAmbiguousToken: one value under two names.
Ambiguous(set) == \E p, q \in set : p[1] = q[1] /\ p[2] # q[2]

Entries(states) == [s \in SourceIds |-> states[s].entries]
NewSet(states) == ByName(Entries(states))
----------------------------------------------------------------------------
\* reloadTokens keeps the published auth configuration when the new one cannot
\* be used, and then counts the inline source as failed.
Candidate == IF configReadable THEN configured ELSE authConfig
ReadSources(cfg) == {"inline", "env", "flags"} \cup cfg.optional
Result(s) == IF s = "inline" /\ ~configReadable THEN Unreadable ELSE files[s]
Readable(s) == Result(s) # Unreadable

\* Variant: a failing source's clock restarts at each failure.
Restarts(s, cfg) ==
    [entries |-> IF cfg.grace <= 0 THEN NoEntries ELSE sources[s].entries,
     failed |-> TRUE, failedAt |-> clock]

\* Variant: the moment the grace ends is stored instead of its start.
StoresEnd(s, cfg) ==
    LET end == IF sources[s].failed THEN sources[s].failedAt ELSE clock + cfg.grace
    IN  [entries |-> IF clock >= end THEN NoEntries ELSE sources[s].entries,
         failed |-> TRUE, failedAt |-> end]

\* A failed read: the tokens stay until the grace that began at the first
\* recorded failure is over.
Failed(s, cfg) ==
    LET since == IF sources[s].failed THEN sources[s].failedAt ELSE clock
    IN  [entries |-> IF clock - since >= cfg.grace THEN NoEntries ELSE sources[s].entries,
         failed |-> TRUE, failedAt |-> since]

\* Variant: a source that is not read keeps what it had.
Remembers(cfg) ==
    [s \in SourceIds |->
        IF s \notin ReadSources(cfg) THEN sources[s]
        ELSE IF Readable(s) THEN Fresh(Result(s))
        ELSE Failed(s, cfg)]

\* Update: the next state of every source; one that is not read is forgotten.
NextSources(cfg) ==
    [s \in SourceIds |->
        IF s \notin ReadSources(cfg) THEN ZeroSource
        ELSE IF Readable(s) THEN Fresh(Result(s))
        ELSE Failed(s, cfg)]

\* The history every reload leaves, whatever becomes of it.
Failing(cfg) == {s \in ReadSources(cfg) : ~Readable(s)}
NoteReads(cfg) ==
    /\ reloadedAt' = clock
    /\ failingSince' = [s \in SourceIds |->
          IF s \notin Failing(cfg) THEN NoTime
          ELSE IF failingSince[s] = NoTime THEN clock ELSE failingSince[s]]

Publish(cfg) ==
    /\ authConfig' = cfg
    /\ sources' = NextSources(cfg)
    /\ tokens' = NewSet(sources')
    /\ lastGood' = [s \in SourceIds |->
          IF s \notin ReadSources(cfg) THEN NoEntries
          ELSE IF Readable(s) THEN Result(s) ELSE lastGood[s]]
    /\ forgotten' = forgotten \cap Failing(cfg)
    /\ acceptedAt' = clock

\* Nothing is published, and the failures just seen are not recorded either.
Discard(cfg) ==
    /\ forgotten' = forgotten \cup {s \in Failing(cfg) : ~sources[s].failed}
    /\ UNCHANGED <<state, lastGood, acceptedAt>>

ReloadAccepted ==
    /\ ~Ambiguous(NewSet(NextSources(Candidate)))
    /\ NoteReads(Candidate) /\ Publish(Candidate)
    /\ UNCHANGED <<environment, clock>>

\* Update returns the prior state and the reload ends.
ReloadRejected ==
    /\ Ambiguous(NewSet(NextSources(Candidate)))
    /\ NoteReads(Candidate) /\ Discard(Candidate)
    /\ UNCHANGED <<environment, clock>>

\* A configuration was published since the reload began.
ReloadOvertaken ==
    /\ Overtakes
    /\ ~Ambiguous(NewSet(NextSources(Candidate)))
    /\ NoteReads(Candidate) /\ Discard(Candidate)
    /\ UNCHANGED <<environment, clock>>
----------------------------------------------------------------------------
\* New requires every source to be good and unambiguous.
Init ==
    /\ files \in [SourceIds -> Contents]
    /\ \A s \in SourceIds : files[s] \in Offers[s]
    /\ configReadable = TRUE
    /\ configured \in Configs /\ authConfig = configured
    /\ clock = 0
    /\ sources = [s \in SourceIds |->
                    IF s \in ReadSources(configured)
                      THEN Fresh(files[s]) ELSE ZeroSource]
    /\ tokens = NewSet(sources) /\ ~Ambiguous(tokens)
    /\ lastGood = Entries(sources)
    /\ failingSince = [s \in SourceIds |-> NoTime]
    /\ forgotten = {} /\ acceptedAt = 0 /\ reloadedAt = 0

EditSource(s) ==
    /\ \/ \E content \in Offers[s] : files' = [files EXCEPT ![s] = content]
       \/ s \in Fragile /\ files' = [files EXCEPT ![s] = Unreadable]
    /\ UNCHANGED <<configReadable, configured, clock, state, history>>

EditConfig ==
    /\ configReadable' \in BOOLEAN
    /\ configured' \in Configs
    /\ UNCHANGED <<files, clock, state, history>>

Tick ==
    /\ clock < MaxTime
    /\ clock' = clock + 1
    /\ UNCHANGED <<environment, state, history>>

Reload == ReloadAccepted \/ ReloadRejected \/ ReloadOvertaken

Next ==
    \/ Reload
    \/ \E s \in SourceIds : EditSource(s)
    \/ EditConfig
    \/ Tick

Spec == Init /\ [][Next]_vars
----------------------------------------------------------------------------
Pairs(entries) == {<<entries[n], n>> : n \in DOMAIN entries}
Overdue(s, time) == failingSince[s] # NoTime /\ time - failingSince[s] >= authConfig.grace

\* A token value belongs to one name and a name to one value, whatever mixture
\* of fresh and retained tokens the sources were published with.
OneOwner == \A p, q \in tokens : p[1] = q[1] <=> p[2] = q[2]

\* Every published token is in the last good read of a source, and that source
\* had not been failing for stale_grace when the set was published - unless the
\* reload that first saw it fail was rejected or overtaken (NewSet's error and
\* the generation check of reloadTokens), which starts its grace late.
RetainedWithinGrace ==
    \A p \in tokens :
        \E s \in ReadSources(authConfig) :
            p \in Pairs(lastGood[s]) /\ (Overdue(s, acceptedAt) => s \in forgotten)

\* A published value comes from the last source that gives its name one (NewSet's
\* override), counting the tokens a failing source keeps: while its grace lasts,
\* it still hides the value a lower source has for the name.
OverrideHolds ==
    \A p \in tokens :
        \E s \in ReadSources(authConfig) :
            /\ p \in Pairs(sources[s].entries)
            /\ \A t \in SourceIds : Rank[t] > Rank[s] => p[2] \notin DOMAIN sources[t].entries

\* Both, of every published mixture.
OwnersHold == OneOwner /\ OverrideHolds

\* What OPERATIONAL.md promises without exception: no reload leaves a source's
\* tokens in force once it has been failing for stale_grace.
GraceEnds ==
    \A p \in tokens :
        \E s \in ReadSources(authConfig) : p \in Pairs(lastGood[s]) /\ ~Overdue(s, reloadedAt)
=============================================================================
