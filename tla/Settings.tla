------------------------------ MODULE Settings ------------------------------
(***************************************************************************)
(* Which settings are in force, and who is said to have made them: the     *)
(* layers of the configuration (config.Load), the two reloads that publish *)
(* parts of it at different times (reloadTokens and reloadConfig, with     *)
(* provenance.go), and what overrides and aliases make of the global       *)
(* settings for one model (baseEntry, apply, finish, cloneEntry).          *)
(*                                                                         *)
(* A key stands for those treated alike: "listen" needs a restart, "auth"  *)
(* belongs to the token reload, "tag" is models.default_tag, "thinkTags",  *)
(* "thinkInitial" and "fim" are the defaults of fields a model may         *)
(* override.  Which names collide and what aliases hide is in Catalog, the *)
(* locks and the discovery between the steps in Publication.               *)
(***************************************************************************)
EXTENDS Naturals, Sequences, FiniteSets, SequencesExt

CONSTANTS
    Files,      \* contents of the configuration file
    Statics,    \* [env, flags]: the layers captured at startup
    ModelIds,   \* the upstream's models
    Evidence,   \* what the upstream says of their tools: yes, no or unknown
    MaxEdits    \* bound: edits of the file

Keys == {"listen", "auth", "tag", "thinkTags", "thinkInitial", "fim"}
Defaults == [listen |-> "default", auth |-> "default", tag |-> "latest", thinkTags |-> FALSE,
             thinkInitial |-> FALSE, fim |-> "off"]
Layers == {"default", "toml", "env", "flag"}

\* A behavior, of an override or an alias, sets some fields, may replace the list
\* of drops, adds to the extra body and knows something of capabilities.
Fields == {"thinkTags", "thinkInitial", "fim"}
Capabilities == {"tools", "insert"}
Unset == {"nil"}
NoBehavior == [sets |-> <<>>, drops |-> Unset, extra |-> <<>>, only |-> Unset, add |-> {},
               remove |-> {}]

\* What the layers hold: lists, names with or without a tag, behaviors.
IsList(list) == list \in Seq(ToSet(list))
IsName(name) == IsList(name) /\ Len(name) \in {1, 2}
IsBehavior(b) ==
    /\ b = [sets |-> b.sets, drops |-> b.drops, extra |-> b.extra, only |-> b.only,
            add |-> b.add, remove |-> b.remove]
    /\ DOMAIN b.sets \subseteq Fields
AreOverrides(list) ==
    /\ IsList(list)
    /\ \A o \in ToSet(list) : o = [match |-> o.match, behavior |-> o.behavior] /\ IsBehavior(o.behavior)
ArePairs(list) == IsList(list) /\ \A a \in ToSet(list) : IsName(a.name)

ASSUME LayersAssumption ==
    /\ \A source \in Files :
        /\ DOMAIN source.sets \subseteq Keys /\ source.tokens \in BOOLEAN
        /\ AreOverrides(source.overrides) /\ ArePairs(source.aliases)
        /\ \A a \in ToSet(source.aliases) :
            /\ a = [name |-> a.name, target |-> a.target, behavior |-> a.behavior]
            /\ IsBehavior(a.behavior)
    /\ \A s \in Statics :
        /\ DOMAIN s.env.sets \cup DOMAIN s.flags.sets \subseteq Keys
        /\ ArePairs(s.env.aliases) /\ ArePairs(s.flags.aliases)
        /\ s.env.overrides = <<>> \/ AreOverrides(s.env.overrides[1])
    /\ MaxEdits \in Nat

VARIABLES
    static,             \* the environment and the flags
    file,               \* the file now; `readable` if it can be read and decoded
    edits,              \* bound: edits so far
    config, provenance, \* of the published snapshot: what is in force, and from where
    entries,            \* its catalog: name -> what applies to a model or an alias
    listed,             \* the upstream's models as the catalog has them
    candidate,          \* of reloadConfig, between its reads of the file
    started, restFrom, authFrom     \* history: the file of the start, of the last
                                    \* configuration and of the last token reload

settingsVars == <<static, file, edits, config, provenance, entries, listed, candidate,
                  started, restFrom, authFrom>>
----------------------------------------------------------------------------
(* config.Load                                                              *)

\* A layer hides what those below it say of the same key.
Over(layer, below) ==
    [k \in DOMAIN layer \cup DOMAIN below |-> IF k \in DOMAIN layer THEN layer[k] ELSE below[k]]

\* Variant: the environment is read after the flags.
LayeredEnvLast(source) ==
    Over(static.env.sets, Over(static.flags.sets, Over(source.sets, Defaults)))

Layered(source) ==
    Over(static.flags.sets, Over(static.env.sets, Over(source.sets, Defaults)))

\* NormalizeAlias: a name without a tag gets the default one.
FullName(name, tag) == IF Len(name) = 1 THEN Append(name, tag) ELSE name

\* mergeAliases: a simple alias takes over the target of the one with its name.
Take(list, pair, tag) ==
    LET name == FullName(pair.name, tag)
        i == SelectInSeq(list, LAMBDA a : FullName(a.name, tag) = name)
    IN  IF i # 0 THEN [list EXCEPT ![i].target = pair.target]
        ELSE Append(list, [name |-> name, target |-> pair.target, behavior |-> NoBehavior])

TakeOver(aliases, pairs, tag) ==
    LET upTo[n \in 0 .. Len(pairs)] ==
            IF n = 0 THEN aliases ELSE Take(upTo[n - 1], pairs[n], tag)
    IN  upTo[Len(pairs)]

NamedTwice(aliases, tag) ==
    \E i, j \in DOMAIN aliases :
        i # j /\ FullName(aliases[i].name, tag) = FullName(aliases[j].name, tag)

\* Variant: names are completed with the tag of the file.
TagOfFile(source) == Over(source.sets, Defaults).tag

TagFor(source) == Layered(source).tag

\* The environment's list of overrides, if there is one, replaces the file's.  It is
\* encoded once more on the way, which omits a list of drops that is empty.
Reencoded(overrides) ==
    [k \in DOMAIN overrides |->
        [overrides[k] EXCEPT !.behavior.drops = IF @ = {} THEN Unset ELSE @]]
OverridesOf(source) ==
    IF static.env.overrides = <<>> THEN source.overrides ELSE Reencoded(static.env.overrides[1])

Loaded(source) ==
    LET tag == TagFor(source)
    IN  [values |-> Layered(source), tokens |-> source.tokens, overrides |-> OverridesOf(source),
         aliases |-> TakeOver(TakeOver(source.aliases, static.env.aliases, tag),
                              static.flags.aliases, tag)]

\* A file that cannot be read, or whose default tag makes two of the environment's or
\* of the flags' aliases one.
LoadFails(source) ==
    \/ ~source.readable
    \/ \E pairs \in {static.env.aliases, static.flags.aliases} :
          NamedTwice(pairs, TagFor(source))

\* Tokens, aliases and overrides have no default and no provenance before they are set.
Told(source) ==
    LET lists == [auth_token |-> IF source.tokens THEN "toml" ELSE "none",
                  aliases |-> IF static.flags.aliases # <<>> THEN "flag"
                              ELSE IF static.env.aliases # <<>> THEN "env"
                              ELSE IF source.aliases # <<>> THEN "toml" ELSE "none",
                  overrides |-> IF static.env.overrides # <<>> THEN "env"
                                ELSE IF source.overrides # <<>> THEN "toml" ELSE "none"]
        From(layer, sets) == [k \in DOMAIN sets |-> layer]
    IN  Over(From("flag", static.flags.sets),
             Over(From("env", static.env.sets),
                  Over(From("toml", source.sets),
                       Over(From("default", Defaults),
                            Restrict(lists, {k \in DOMAIN lists : lists[k] # "none"})))))

\* Validate: bad authentication, and thinking from the start without tags.
Validates(c) ==
    /\ c.values.auth # "bad" /\ (c.values.thinkInitial => c.values.thinkTags)
    /\ ~NamedTwice(c.aliases, c.values.tag)
----------------------------------------------------------------------------
(* The catalog's entries                                                    *)

\* The global settings, and what the upstream says; nothing is known of insert.
BaseEntry(c, id) ==
    [target |-> id, sets |-> Restrict(c.values, Fields), drops |-> Unset, extra |-> <<>>,
     knows |-> [tools |-> Evidence[id], insert |-> "unknown"], explicit |-> FALSE]

\* Variant: the extra body is replaced as the drops are.
ExtraReplaced(entry, b) == IF b.extra = <<>> THEN entry.extra ELSE b.extra

ExtraMerged(entry, b) == Over(b.extra, entry.extra)

\* Variant: what was known before outlives a list of the capabilities.
StillKnown(entry, b, c) ==
    CASE c \in b.remove -> "no"
      [] c \in b.add \ b.remove -> "yes"
      [] c \notin b.add \cup b.remove -> IF c \in b.only THEN "yes" ELSE entry.knows[c]

Known(entry, b, c) ==
    CASE c \in b.remove -> "no"
      [] c \in b.add \ b.remove -> "yes"
      [] c \notin b.add \cup b.remove ->
            IF b.only = Unset THEN entry.knows[c] ELSE IF c \in b.only THEN "yes" ELSE "no"

Apply(entry, b) ==
    [entry EXCEPT
        !.sets = Over(b.sets, entry.sets),
        !.drops = IF b.drops = Unset THEN entry.drops ELSE b.drops,
        !.extra = ExtraMerged(entry, b),
        !.knows = [c \in Capabilities |-> Known(entry, b, c)],
        !.explicit = entry.explicit \/ b.only # Unset \/ "insert" \in b.add \cup b.remove]

\* finish: insert follows from the way to fill in, unless somebody said so.
FinishEntry(entry) ==
    IF entry.explicit THEN entry
    ELSE [entry EXCEPT !.knows.insert = IF entry.sets.fim = "off" THEN "unknown" ELSE "yes"]
Unfit(entry) == entry.sets.thinkInitial /\ ~entry.sets.thinkTags

\* The overrides that match, one upon the other.
Override(entry, o, id) == IF id \in o.match THEN Apply(entry, o.behavior) ELSE entry
Overridden(entry, overrides, id) ==
    LET upTo[n \in 0 .. Len(overrides)] ==
            IF n = 0 THEN entry ELSE Override(upTo[n - 1], overrides[n], id)
    IN  upTo[Len(overrides)]

ForModel(c, id) == FinishEntry(Overridden(BaseEntry(c, id), c.overrides, id))
ForAlias(c, alias) == FinishEntry(Apply(ForModel(c, alias.target), alias.behavior))
\* Only aliases of models that are listed.
LiveAliases(c, ids) == {a \in ToSet(c.aliases) : a.target \in ids}

\* One unfit entry is enough to make Build fail.
BuildFails(c, ids) ==
    \/ \E id \in ids : Unfit(ForModel(c, id))
    \/ \E a \in LiveAliases(c, ids) : Unfit(ForAlias(c, a))
Built(c, ids) ==
    LET aliases == LiveAliases(c, ids)
        Full(a) == FullName(a.name, c.values.tag)
        For(name) == CHOOSE a \in aliases : Full(a) = name
    IN  Over([name \in {Full(a) : a \in aliases} |-> ForAlias(c, For(name))],
             [name \in {<<id>> : id \in ids} |-> ForModel(c, name[1])])
----------------------------------------------------------------------------
(* The server                                                               *)

NoCandidate == <<>>
AuthKeys == {"auth", "auth_token"}

\* mergeAuthProvenance.  Variant: the old provenance of authentication stays.
WithAuthKept(base, auth) == Over(Restrict(auth, DOMAIN auth \cap AuthKeys), base)

WithAuth(base, auth) ==
    Over(Restrict(auth, DOMAIN auth \cap AuthKeys), Restrict(base, DOMAIN base \ AuthKeys))

\* New builds a catalog of no models.
SettingsInit ==
    /\ static \in Statics /\ file \in Files /\ ~LoadFails(file) /\ edits = 0
    /\ config = Loaded(file) /\ Validates(config) /\ provenance = Told(file)
    /\ entries = <<>> /\ listed = {}
    /\ candidate = NoCandidate
    /\ started = file /\ restFrom = file /\ authFrom = file

EditFile ==
    /\ edits < MaxEdits /\ edits' = edits + 1
    /\ file' \in Files
    /\ UNCHANGED <<static, config, provenance, entries, listed, candidate, started, restFrom,
                   authFrom>>

\* reloadTokens: the file's authentication beside the rest that is in force.  What
\* it reads and publishes under authMu is one step: only another edit could come
\* between, as it could right after.
ReloadAuth ==
    LET loaded == Loaded(file)
        updated == [config EXCEPT !.values.auth = loaded.values.auth, !.tokens = loaded.tokens]
    IN  /\ ~LoadFails(file) /\ Validates(updated)
        /\ config' = updated /\ provenance' = WithAuth(provenance, Told(file))
        /\ authFrom' = file
        /\ UNCHANGED <<static, file, edits, entries, listed, candidate, started, restFrom>>

\* What reloadConfig makes of the file: authentication and the listeners are kept.
Kept(loaded) ==
    [loaded EXCEPT !.values.auth = config.values.auth, !.values.listen = config.values.listen,
                   !.tokens = config.tokens]

ReadConfig ==
    /\ candidate = NoCandidate /\ ~LoadFails(file)
    /\ Validates(Kept(Loaded(file))) /\ Kept(Loaded(file)) # config
    /\ candidate' = <<file>>
    /\ UNCHANGED <<static, file, edits, config, provenance, entries, listed, started, restFrom,
                   authFrom>>

\* Discovery or the catalog fails, or the file is not what it was.
DropCandidate ==
    /\ candidate # NoCandidate /\ candidate' = NoCandidate
    /\ UNCHANGED <<static, file, edits, config, provenance, entries, listed, started, restFrom,
                   authFrom>>

\* Variant: the provenance of the listeners is the candidate's.
ToldAsLoaded(source) == WithAuth(Told(source), provenance)

ToldWithKept(source) == [WithAuth(Told(source), provenance) EXCEPT !.listen = provenance.listen]

\* The models are discovered, the file is what it was, and the authentication
\* that is published is the one in force now.
PublishConfig ==
    /\ candidate # NoCandidate
    /\ ~LoadFails(file) /\ Loaded(file) = Loaded(candidate[1])
    /\ \E ids \in SUBSET ModelIds :
          LET next == Kept(Loaded(candidate[1]))
          IN  /\ ~BuildFails(next, ids)
              /\ config' = next /\ entries' = Built(next, ids) /\ listed' = ids
    /\ provenance' = ToldWithKept(candidate[1])
    /\ restFrom' = candidate[1] /\ candidate' = NoCandidate
    /\ UNCHANGED <<static, file, edits, started, authFrom>>

\* refresh: another list of models, under the configuration in force.
RefreshEntries ==
    /\ \E ids \in SUBSET ModelIds :
          /\ ~BuildFails(config, ids)
          /\ entries' = Built(config, ids) /\ listed' = ids
    /\ UNCHANGED <<static, file, edits, config, provenance, candidate, started, restFrom,
                   authFrom>>

SettingsNext ==
    EditFile \/ ReloadAuth \/ ReadConfig \/ DropCandidate \/ PublishConfig \/ RefreshEntries

SettingsSpec == SettingsInit /\ [][SettingsNext]_settingsVars
----------------------------------------------------------------------------
\* What is in force is a configuration that Validate accepts, with a source for
\* every setting.
SettingsTypeOK ==
    /\ static \in Statics /\ {file, started, restFrom, authFrom} \subseteq Files
    /\ edits \in 0 .. MaxEdits /\ listed \subseteq ModelIds
    /\ DOMAIN config.values = Keys /\ Validates(config)
    /\ Keys \subseteq DOMAIN provenance
    /\ \A k \in DOMAIN provenance : provenance[k] \in Layers

\* The file whose word counts for a key.
FileFor(k) == CASE k = "listen" -> started [] k \in AuthKeys -> authFrom [] OTHER -> restFrom

\* What a file, beside the environment and the flags, says of a key: the value is
\* that of layer `who`, and no layer above says anything.
FromLayer(source, k, value, who) ==
    LET says == [flag |-> static.flags.sets, env |-> static.env.sets,
                 toml |-> source.sets, default |-> Defaults]
        above == CASE who = "flag" -> {} [] who = "env" -> {"flag"}
                   [] who = "toml" -> {"flag", "env"}
                   [] who = "default" -> {"flag", "env", "toml"}
    IN  /\ k \in DOMAIN says[who] /\ value = says[who][k]
        /\ \A layer \in above : k \notin DOMAIN says[layer]

\* A setting is that of its highest layer, in the file whose word counts for it,
\* and that layer is the one it is said to come from; startup's flags and
\* environment prevail whatever the file says later.
LayersTold ==
    /\ \A k \in Keys : FromLayer(FileFor(k), k, config.values[k], provenance[k])
    /\ config.tokens = authFrom.tokens /\ ("auth_token" \in DOMAIN provenance <=> config.tokens)

\* The aliases in force under a name: the flag's target, else the environment's, else
\* the file's, which also says how it behaves.  Names are compared as they will be
\* called, with the default tag in force.
AliasesLayered ==
    LET tag == config.values.tag
        Named(list, name) == {k \in DOMAIN list : FullName(list[k].name, tag) = name}
        lists == <<static.flags.aliases, static.env.aliases, restFrom.aliases>>
        names == UNION {{FullName(lists[i][k].name, tag) : k \in DOMAIN lists[i]} : i \in 1 .. 3}
    IN  /\ {FullName(a.name, tag) : a \in ToSet(config.aliases)} = names
        /\ \A k \in DOMAIN config.aliases :
              LET alias == config.aliases[k]
                  name == FullName(alias.name, tag)
              IN  /\ \A i \in 1 .. 3 :
                        Named(lists[i], name) # {} /\ (\A j \in 1 .. i - 1 : Named(lists[j], name) = {})
                        => \E m \in Named(lists[i], name) : lists[i][m].target = alias.target
                  /\ IF Named(lists[3], name) = {} THEN alias.behavior = NoBehavior
                     ELSE \E m \in Named(lists[3], name) : lists[3][m].behavior = alias.behavior

\* The behaviors that apply to a name, in their order: the overrides, of the environment
\* if it has any, of which those that do not match the model say nothing, and the alias's
\* own.  From the environment an empty list of drops says nothing.
ChainOf(name, target) ==
    LET ofEnv == static.env.overrides # <<>>
        overrides == IF ofEnv THEN static.env.overrides[1] ELSE restFrom.overrides
        Said(b) == [b EXCEPT !.drops = IF ofEnv /\ @ = {} THEN Unset ELSE @]
        own == {a \in ToSet(config.aliases) :
                   Len(name) = 2 /\ FullName(a.name, config.values.tag) = name}
    IN  [k \in DOMAIN overrides |->
            IF target \in overrides[k].match THEN Said(overrides[k].behavior) ELSE NoBehavior]
        \o (IF own = {} THEN <<>> ELSE <<(CHOOSE a \in own : TRUE).behavior>>)

LastOf(places) == IF places = {} THEN 0 ELSE Max(places)

\* The last that has something to say prevails: on a field over the global setting,
\* on a key of the extra body over nothing, on a capability over the upstream.
LastPrevails(entry, chain, values) ==
    LET Setting(f) == {k \in DOMAIN chain : f \in DOMAIN chain[k].sets}
        Adding(x) == {k \in DOMAIN chain : x \in DOMAIN chain[k].extra}
        Speaking(c) ==
            {k \in DOMAIN chain : chain[k].only # Unset \/ c \in chain[k].add \cup chain[k].remove}
        Grants(b, c) == c \notin b.remove /\ (c \in b.add \/ c \in b.only)
        dropper == LastOf({k \in DOMAIN chain : chain[k].drops # Unset})
    IN  /\ \A f \in Fields :
              LET p == LastOf(Setting(f))
              IN  entry.sets[f] = IF p = 0 THEN values[f] ELSE chain[p].sets[f]
        /\ DOMAIN entry.extra = UNION {DOMAIN chain[k].extra : k \in DOMAIN chain}
        /\ \A x \in DOMAIN entry.extra : entry.extra[x] = chain[LastOf(Adding(x))].extra[x]
        /\ entry.drops = IF dropper = 0 THEN Unset ELSE chain[dropper].drops
        /\ \A c \in Capabilities :
              LET p == LastOf(Speaking(c))
              IN  entry.knows[c] = IF p # 0 THEN IF Grants(chain[p], c) THEN "yes" ELSE "no"
                                   ELSE IF c = "tools" THEN Evidence[entry.target]
                                   ELSE IF entry.sets.fim = "off" THEN "unknown" ELSE "yes"

EntriesSettled ==
    \A name \in DOMAIN entries :
        /\ entries[name].target \in listed /\ ~Unfit(entries[name])
        /\ LastPrevails(entries[name], ChainOf(name, entries[name].target), config.values)

\* What is in force is what the documentation's rules of precedence give, after
\* any edits and reloads: between the layers, between simple aliases and the
\* file's, and for a model between the global settings, its overrides in their
\* order and an alias's own; and what each setting is said to come from is true.
SettingsInForce == SettingsTypeOK /\ LayersTold /\ AliasesLayered /\ EntriesSettled
=============================================================================
