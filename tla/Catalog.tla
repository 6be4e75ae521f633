------------------------------ MODULE Catalog ------------------------------
(***************************************************************************)
(* The exposed models and the only names that reach them:                  *)
(* internal/catalog/catalog.go (Build, Resolve) and what Discover          *)
(* (internal/upstream/catalog.go) hands to Build.                          *)
(*                                                                         *)
(* A string is a sequence of tokens: a word, a separator or the default    *)
(* tag.  An entry's behaviour and capabilities, here only what finish may  *)
(* refuse, are in Settings; its details are left out.  The published       *)
(* catalog is replaced by a whole one or kept; Publication models by whom  *)
(* and when.                                                               *)
(***************************************************************************)
EXTENDS Integers, Sequences, FiniteSets

CONSTANTS
    Ids,            \* every upstream ID, in the order Build sorts them
    Tag,            \* models.default_tag
    LowerOf,        \* the lower-case word of each word
    Requests,       \* what clients ask for
    Configs,        \* the configurations the operator may write
    Infos,          \* what discovery may say of each model: its date and its mode
    MaxTime         \* bound: the clock

Strings == Seq(DOMAIN LowerOf)
UpstreamIds == {Ids[k] : k \in DOMAIN Ids}
NoMode == "unknown"
Listings == {models \in UNION {[S -> UNION {Infos[id] : id \in UpstreamIds}] : S \in SUBSET UpstreamIds} :
                \A id \in DOMAIN models : models[id] \in Infos[id]}

ASSUME StringsAssumption ==
    /\ Ids \in Seq(Strings) /\ Requests \subseteq Strings
    /\ \A j, k \in DOMAIN Ids : Ids[j] = Ids[k] => j = k
    /\ <<>> \notin UpstreamIds       \* Build refuses an empty ID
ASSUME TokensAssumption ==
    /\ {":", "-", Tag} \subseteq DOMAIN LowerOf
    /\ LowerOf[":"] = ":" /\ LowerOf["-"] = "-" /\ LowerOf[Tag] = Tag
    /\ \A w \in DOMAIN LowerOf : LowerOf[w] \in DOMAIN LowerOf /\ LowerOf[LowerOf[w]] = LowerOf[w]
ASSUME ConfigsAssumption ==
    \A c \in Configs :
        /\ c.allowed \subseteq UpstreamIds      \* include and exclude
        /\ c.refused \subseteq UpstreamIds      \* overrides that finish refuses
        /\ c.aliases \in Seq([name : Strings, target : UpstreamIds, hide : BOOLEAN,
                              refused : BOOLEAN])
        /\ c.limit \in Nat
ASSUME InfosAssumption ==
    \A id \in UpstreamIds : \A info \in Infos[id] : info.created \in Nat
ASSUME BoundAssumption == MaxTime \in Nat

VARIABLES
    cfg,        \* the configuration in force
    catalog,    \* the published catalog
    reloading,  \* the first-seen dates a reload set out with
    now,
    built       \* history: the configuration and models the catalog was built from

vars == <<cfg, catalog, reloading, now, built>>
----------------------------------------------------------------------------
(* Strings                                                                  *)

Lower(s) == [k \in DOMAIN s |-> LowerOf[s[k]]]
HasTag(s) == \E k \in DOMAIN s : s[k] = ":"
Tagged(s) == s \o <<":", Tag>>
EndsInTag(s) == Len(s) >= 2 /\ SubSeq(s, Len(s) - 1, Len(s)) = <<":", Tag>>
Untagged(s) == SubSeq(s, 1, Len(s) - 2)

\* Variant: the case of the ID is kept.
DerivedAsSpelled(id) == Tagged([k \in DOMAIN id |-> IF id[k] = ":" THEN "-" ELSE id[k]])

\* The name of a model that no alias names.
Derived(id) == Tagged(Lower([k \in DOMAIN id |-> IF id[k] = ":" THEN "-" ELSE id[k]]))

\* NormalizeAlias, of a valid name.
Normalized(name) == IF HasTag(name) THEN Lower(name) ELSE Tagged(Lower(name))
----------------------------------------------------------------------------
(* Build                                                                    *)

\* The models that pass the filters; an unknown mode passes.
Eligible(c, models) ==
    {id \in DOMAIN models : id \in c.allowed /\ models[id].mode \in c.modes \cup {NoMode}}

Position(id) == CHOOSE k \in DOMAIN Ids : Ids[k] = id

\* Of the models that derive one name the first in order has it.
Wins(id, ids) == \A other \in ids : Derived(other) = Derived(id) => Position(id) <= Position(other)

\* Variant: an alias brings a filtered target back.
LiveListed(c, models) == {k \in DOMAIN c.aliases : c.aliases[k].target \in DOMAIN models}

\* The aliases whose target is eligible; the others are only warned about.
Live(c, models) == {k \in DOMAIN c.aliases : c.aliases[k].target \in Eligible(c, models)}
Hidden(c, models) == {c.aliases[k].target : k \in {j \in Live(c, models) : c.aliases[j].hide}}
AliasNames(c, models) == {Normalized(c.aliases[k].name) : k \in Live(c, models)}

AliasEntry(c, models, name) ==
    LET k == CHOOSE j \in Live(c, models) : Normalized(c.aliases[j].name) = name
    IN  [name |-> name, target |-> c.aliases[k].target, alias |-> TRUE]

\* Variants: a model keeps its raw spelling whoever has its name; hide_target is
\* ignored.
Undisplaced(c, models) ==
    {id \in Eligible(c, models) : Wins(id, Eligible(c, models)) /\ id \notin Hidden(c, models)}
Unhidden(c, models) ==
    {id \in Eligible(c, models) :
        Wins(id, Eligible(c, models)) /\ Derived(id) \notin AliasNames(c, models)}

\* The models exposed under their derived names: first in order, neither hidden
\* nor displaced by an alias.
Underived(c, models) ==
    {id \in Eligible(c, models) :
        /\ Wins(id, Eligible(c, models)) /\ id \notin Hidden(c, models)
        /\ Derived(id) \notin AliasNames(c, models)}

ModelEntry(c, models, name) ==
    LET id == CHOOSE i \in Underived(c, models) : Derived(i) = name
    IN  [name |-> name, target |-> id, alias |-> FALSE]

ByName(c, models) ==
    [name \in {Derived(id) : id \in Underived(c, models)} \cup AliasNames(c, models) |->
        IF name \in AliasNames(c, models) THEN AliasEntry(c, models, name)
        ELSE ModelEntry(c, models, name)]

\* Variants: a filtered model is forgotten; a model that is gone is not.
EligibleSeen(c, models, previous, time) ==
    [id \in {i \in Eligible(c, models) : models[i].created = 0} |->
        IF id \in DOMAIN previous THEN previous[id] ELSE time]
EverSeen(c, models, previous, time) ==
    [id \in DOMAIN previous \cup {i \in Eligible(c, models) : models[i].created = 0} |->
        IF id \in DOMAIN previous THEN previous[id] ELSE time]

\* When the models that have no date of their own were first eligible.  A date is
\* kept while its model is listed, filtered or not.
FirstSeen(c, models, previous, time) ==
    [id \in (DOMAIN previous \cap DOMAIN models)
              \cup {i \in Eligible(c, models) : models[i].created = 0} |->
        IF id \in DOMAIN previous THEN previous[id] ELSE time]

Build(c, models, seen, time) ==
    LET entries == ByName(c, models)
    IN  [byName |-> entries,
         raw |-> [id \in Underived(c, models) |-> Derived(id)],
         targets |-> {entries[name].target : name \in DOMAIN entries},
         firstSeen |-> FirstSeen(c, models, seen, time)]

\* What makes Build return an error instead.
Invalid(c, models) ==
    \/ Cardinality(DOMAIN models) > c.limit
    \/ c.refused \cap Eligible(c, models) # {}
    \/ \E j, k \in DOMAIN c.aliases :
          j # k /\ Normalized(c.aliases[j].name) = Normalized(c.aliases[k].name)
    \/ \E k \in Live(c, models) : c.aliases[k].refused
    \/ Cardinality(DOMAIN ByName(c, models)) > c.limit
----------------------------------------------------------------------------
(* Resolve                                                                  *)

NotFound == [name |-> <<>>, target |-> <<>>, alias |-> FALSE]

Resolve(cat, input) ==
    CASE Lower(input) \in DOMAIN cat.byName -> cat.byName[Lower(input)]
      [] /\ Lower(input) \notin DOMAIN cat.byName
         /\ ~HasTag(input) /\ Tagged(Lower(input)) \in DOMAIN cat.byName ->
            cat.byName[Tagged(Lower(input))]
      [] OTHER ->
            IF EndsInTag(input) /\ Untagged(input) \in DOMAIN cat.raw
              THEN cat.byName[cat.raw[Untagged(input)]]
            ELSE IF input \in DOMAIN cat.raw THEN cat.byName[cat.raw[input]]
            ELSE NotFound
----------------------------------------------------------------------------
(* The published catalog                                                    *)

NoReload == [on |-> FALSE, seen |-> <<>>]
NoCatalog == [byName |-> <<>>, raw |-> <<>>, targets |-> {}, firstSeen |-> <<>>]

Init ==
    /\ cfg \in Configs
    /\ catalog = NoCatalog /\ reloading = NoReload /\ now = 0
    /\ built = [cfg |-> cfg, models |-> <<>>]

\* A catalog that cannot be built leaves the old one, and its configuration, in
\* force.
Publish(c, models, seen) ==
    /\ ~Invalid(c, models)
    /\ cfg' = c
    /\ catalog' = Build(c, models, seen, now)
    /\ built' = [cfg |-> c, models |-> models]
    /\ UNCHANGED now

\* What Discover returned is anything: models come and go, and with the optional
\* metadata the modes do.
Refresh == (\E models \in Listings : Publish(cfg, models, catalog.firstSeen)) /\ UNCHANGED reloading

\* reloadConfig loads the snapshot before it discovers; a refresh may be published
\* meanwhile, under the same generation.
ReloadBegins ==
    /\ ~reloading.on
    /\ reloading' = [on |-> TRUE, seen |-> catalog.firstSeen]
    /\ UNCHANGED <<cfg, catalog, now, built>>

ReloadEnds ==
    /\ reloading.on
    /\ \E c \in Configs \ {cfg}, models \in Listings : Publish(c, models, reloading.seen)
    /\ reloading' = NoReload

ReloadFails ==
    /\ reloading.on /\ reloading' = NoReload
    /\ UNCHANGED <<cfg, catalog, now, built>>

Tick == now < MaxTime /\ now' = now + 1 /\ UNCHANGED <<cfg, catalog, reloading, built>>

Next == Refresh \/ ReloadBegins \/ ReloadEnds \/ ReloadFails \/ Tick

Spec == Init /\ [][Next]_vars
----------------------------------------------------------------------------
\* The maps of the catalog agree with each other: every entry is stored under its
\* name, every raw spelling leads to its own model, and the first-seen dates are
\* those of listed models only.
TypeOK ==
    /\ cfg \in Configs /\ built.models \in Listings /\ now \in 0 .. MaxTime
    /\ \A name \in DOMAIN catalog.byName : catalog.byName[name].name = name
    /\ catalog.targets = {catalog.byName[name].target : name \in DOMAIN catalog.byName}
    /\ DOMAIN catalog.raw \subseteq catalog.targets
    /\ DOMAIN catalog.firstSeen \subseteq DOMAIN built.models

\* No spelling reaches a model that the filters refuse, and what it reaches may be
\* sent upstream.
WithinBoundary ==
    \A request \in Requests :
        LET entry == Resolve(catalog, request)
        IN  entry # NotFound =>
                /\ entry.target \in Eligible(built.cfg, built.models)
                /\ entry.target \in catalog.targets

\* A hidden model is reached through its aliases only.
HiddenBehindAlias ==
    \A request \in Requests :
        LET entry == Resolve(catalog, request)
        IN  entry.target \in Hidden(built.cfg, built.models) => entry.alias

\* A request that is no entry's name reaches, if anything, the model it spells: a
\* model that lost its name to another or to an alias is not found, and no other
\* is found in its place.
RawIsExact ==
    \A request \in Requests :
        LET entry == Resolve(catalog, request)
        IN  entry # NotFound /\ entry.name \notin {Lower(request), Tagged(Lower(request))} =>
                /\ ~entry.alias
                /\ entry.target = request \/ Tagged(entry.target) = request

\* Every listed name reaches its own entry, in any case.
ListedNamesResolve ==
    \A name \in DOMAIN catalog.byName : \A request \in Requests :
        Lower(request) = Lower(name) => Resolve(catalog, request) = catalog.byName[name]

\* A model keeps the date it was first seen at while it is listed, through
\* filters that come and go; only a reload that set out with another date for it
\* changes it.
DatesKept ==
    [][\A id \in DOMAIN catalog.firstSeen \cap DOMAIN built'.models :
          \/ /\ id \in DOMAIN catalog'.firstSeen
             /\ catalog'.firstSeen[id] = catalog.firstSeen[id]
          \/ /\ cfg' # cfg
             /\ id \in DOMAIN reloading.seen => reloading.seen[id] # catalog.firstSeen[id]]_vars
=============================================================================
