--------------------------- MODULE CatalogProofs ---------------------------
(***************************************************************************)
(* Proofs about what a snapshot holds: what every catalog resolves (module *)
(* Catalog), for all IDs, configurations and listings, and the settings in *)
(* force (module Settings), for all contents of the configuration file,    *)
(* every environment and all flags.                                        *)
(***************************************************************************)
EXTENDS Catalog, Settings, NaturalsInduction, SequenceTheorems, WellFoundedInduction, TLAPS

(***************************************************************************)
(* Catalog.  The invariant is that the published catalog is the empty one  *)
(* or what Build makes of the configuration and the models last built      *)
(* from; all else is about Build and Resolve alone.                        *)
(***************************************************************************)

\* The published catalog is Build's.
IsBuilt ==
    \/ catalog = NoCatalog
    \/ \E seen, time : catalog = Build(built.cfg, built.models, seen, time)

Listed == DOMAIN built.models \subseteq UpstreamIds

IInv == IsBuilt /\ Listed
----------------------------------------------------------------------------
(* Build                                                                    *)

LEMMA EligibleListed ==
    ASSUME NEW c, NEW models, NEW id \in Eligible(c, models)
    PROVE  id \in DOMAIN models
  BY DEF Eligible

\* The names in a catalog.
LEMMA NamesBuilt ==
    ASSUME NEW c, NEW models
    PROVE  DOMAIN ByName(c, models) =
               {Derived(id) : id \in Underived(c, models)} \cup AliasNames(c, models)
  BY DEF ByName

\* An alias leads to an eligible model.
LEMMA AliasBuilt ==
    ASSUME NEW c, NEW models, NEW name \in AliasNames(c, models)
    PROVE  /\ ByName(c, models)[name].name = name
           /\ ByName(c, models)[name].alias
           /\ ByName(c, models)[name].target \in Eligible(c, models)
  <1> DEFINE k == CHOOSE j \in Live(c, models) : Normalized(c.aliases[j].name) = name
  <1>1. \E j \in Live(c, models) : Normalized(c.aliases[j].name) = name
    BY DEF AliasNames
  <1>2. k \in Live(c, models)
    BY <1>1
  <1>3. c.aliases[k].target \in Eligible(c, models)
    BY <1>2 DEF Live
  <1>4. ByName(c, models)[name] = [name |-> name, target |-> c.aliases[k].target, alias |-> TRUE]
    BY DEF ByName, AliasEntry
  <1> QED
    BY <1>3, <1>4

\* A name that is no alias's leads to the one model exposed under it.
LEMMA ModelBuilt ==
    ASSUME NEW c, NEW models, NEW name \in {Derived(id) : id \in Underived(c, models)}
    PROVE  /\ name \notin AliasNames(c, models)
           /\ ByName(c, models)[name].name = name
           /\ ~ByName(c, models)[name].alias
           /\ ByName(c, models)[name].target \in Underived(c, models)
           /\ Derived(ByName(c, models)[name].target) = name
  <1> DEFINE id == CHOOSE i \in Underived(c, models) : Derived(i) = name
  <1>1. \E i \in Underived(c, models) : Derived(i) = name
    OBVIOUS
  <1>2. id \in Underived(c, models) /\ Derived(id) = name
    BY <1>1
  <1>3. name \notin AliasNames(c, models)
    BY <1>2 DEF Underived
  <1>4. ByName(c, models)[name] = [name |-> name, target |-> id, alias |-> FALSE]
    BY <1>3 DEF ByName, ModelEntry
  <1> QED
    BY <1>2, <1>3, <1>4

\* Two exposed models never derive one name: each would have to come first.
LEMMA DerivedOnce ==
    ASSUME NEW c, NEW models, DOMAIN models \subseteq UpstreamIds,
           NEW id \in Underived(c, models), NEW other \in Underived(c, models),
           Derived(id) = Derived(other)
    PROVE  id = other
  <1>1. id \in Eligible(c, models) /\ other \in Eligible(c, models)
    BY DEF Underived
  <1>2. id \in UpstreamIds /\ other \in UpstreamIds
    BY <1>1, EligibleListed
  <1>3. \A i \in UpstreamIds : Position(i) \in DOMAIN Ids /\ Ids[Position(i)] = i
    BY DEF Position, UpstreamIds
  <1>4. DOMAIN Ids \subseteq Int
    BY StringsAssumption
  <1>5. Position(id) <= Position(other) /\ Position(other) <= Position(id)
    BY <1>1 DEF Underived, Wins
  <1>6. Position(id) = Position(other)
    BY <1>2, <1>3, <1>4, <1>5
  <1> QED
    BY <1>2, <1>3, <1>6
----------------------------------------------------------------------------
(* Resolve                                                                  *)

\* A request finds the entry of its own name, tagged or not, or the entry of the
\* exposed model it spells, tagged or not.
ByItsName(entry, c, models, input) ==
    \E name \in {Lower(input), Tagged(Lower(input))} \cap DOMAIN ByName(c, models) :
        entry = ByName(c, models)[name]

ByItsSpelling(entry, c, models, input) ==
    \E id \in Underived(c, models) :
        /\ id = input \/ (EndsInTag(input) /\ id = Untagged(input))
        /\ entry = ByName(c, models)[Derived(id)]

LEMMA ResolveCases ==
    ASSUME NEW c, NEW models, NEW cat, NEW input,
           cat.byName = ByName(c, models),
           cat.raw = [id \in Underived(c, models) |-> Derived(id)]
    PROVE  \/ Resolve(cat, input) = NotFound
           \/ ByItsName(Resolve(cat, input), c, models, input)
           \/ ByItsSpelling(Resolve(cat, input), c, models, input)
  <1> DEFINE entry == Resolve(cat, input)
  <1>3. CASE Lower(input) \in DOMAIN cat.byName
    <2>1. entry = cat.byName[Lower(input)]
      BY <1>3 DEF Resolve
    <2> QED
      BY <1>3, <2>1 DEF ByItsName
  <1>4. CASE /\ Lower(input) \notin DOMAIN cat.byName
             /\ ~HasTag(input) /\ Tagged(Lower(input)) \in DOMAIN cat.byName
    <2>1. entry = cat.byName[Tagged(Lower(input))]
      BY <1>4 DEF Resolve
    <2> QED
      BY <1>4, <2>1 DEF ByItsName
  <1>5. CASE /\ Lower(input) \notin DOMAIN cat.byName
             /\ ~(~HasTag(input) /\ Tagged(Lower(input)) \in DOMAIN cat.byName)
    <2>1. entry = IF EndsInTag(input) /\ Untagged(input) \in DOMAIN cat.raw
                    THEN cat.byName[cat.raw[Untagged(input)]]
                  ELSE IF input \in DOMAIN cat.raw THEN cat.byName[cat.raw[input]]
                  ELSE NotFound
      BY <1>5 DEF Resolve
    <2>2. \A id \in DOMAIN cat.raw :
             id \in Underived(c, models) /\ cat.byName[cat.raw[id]] = ByName(c, models)[Derived(id)]
      OBVIOUS
    <2>3. CASE EndsInTag(input) /\ Untagged(input) \in DOMAIN cat.raw
      BY <2>1, <2>2, <2>3 DEF ByItsSpelling
    <2>4. CASE ~(EndsInTag(input) /\ Untagged(input) \in DOMAIN cat.raw) /\ input \in DOMAIN cat.raw
      BY <2>1, <2>2, <2>4 DEF ByItsSpelling
    <2>5. CASE ~(EndsInTag(input) /\ Untagged(input) \in DOMAIN cat.raw) /\ input \notin DOMAIN cat.raw
      BY <2>1, <2>5
    <2> QED
      BY <2>3, <2>4, <2>5
  <1> QED
    BY <1>3, <1>4, <1>5
----------------------------------------------------------------------------
(* The invariant                                                            *)

LEMMA InitBuilt == Init => IInv
  BY DEF Init, IInv, IsBuilt, Listed

LEMMA ListingsListed ==
    ASSUME NEW models \in Listings
    PROVE  DOMAIN models \subseteq UpstreamIds
  BY DEF Listings

LEMMA PublishBuilt ==
    ASSUME NEW c, NEW models \in Listings, NEW seen, Publish(c, models, seen)
    PROVE  IInv'
  <1>1. catalog' = Build(c, models, seen, now) /\ built' = [cfg |-> c, models |-> models]
    BY DEF Publish
  <1>2. built'.cfg = c /\ built'.models = models
    BY <1>1
  <1>3. catalog' = Build(built'.cfg, built'.models, seen, now)
    BY <1>1, <1>2
  <1> QED
    BY <1>2, <1>3, ListingsListed DEF IInv, IsBuilt, Listed

LEMMA NextBuilt == IInv /\ [Next]_vars => IInv'
  <1> SUFFICES ASSUME IInv, [Next]_vars
               PROVE  IInv'
    OBVIOUS
  <1>1. CASE Refresh
    BY <1>1, PublishBuilt DEF Refresh
  <1>2. CASE ReloadEnds
    BY <1>2, PublishBuilt DEF ReloadEnds
  <1>3. CASE UNCHANGED <<catalog, built>>
    BY <1>3 DEF IInv, IsBuilt, Listed
  <1> QED
    BY <1>1, <1>2, <1>3 DEF Next, ReloadBegins, ReloadFails, Tick, vars

LEMMA AlwaysBuilt == Spec => []IInv
  BY InitBuilt, NextBuilt, PTL DEF Spec

\* What a request finds in any catalog.
LEMMA FoundCases ==
    ASSUME IInv, NEW input
    PROVE  \/ Resolve(catalog, input) = NotFound
           \/ /\ catalog.targets = {ByName(built.cfg, built.models)[name].target :
                                       name \in DOMAIN ByName(built.cfg, built.models)}
              /\ \/ ByItsName(Resolve(catalog, input), built.cfg, built.models, input)
                 \/ ByItsSpelling(Resolve(catalog, input), built.cfg, built.models, input)
  <1>1. CASE catalog = NoCatalog
    <2>1. DOMAIN catalog.byName = {} /\ DOMAIN catalog.raw = {}
      BY <1>1 DEF NoCatalog
    <2>2. Resolve(catalog, input) = NotFound
      BY <2>1 DEF Resolve
    <2> QED
      BY <2>2
  <1>2. CASE \E seen, time : catalog = Build(built.cfg, built.models, seen, time)
    <2>1. /\ catalog.byName = ByName(built.cfg, built.models)
          /\ catalog.raw = [id \in Underived(built.cfg, built.models) |-> Derived(id)]
          /\ catalog.targets = {ByName(built.cfg, built.models)[name].target :
                                   name \in DOMAIN ByName(built.cfg, built.models)}
      BY <1>2 DEF Build
    <2> QED
      BY <2>1, ResolveCases
  <1> QED
    BY <1>1, <1>2 DEF IInv, IsBuilt

\* Every entry is an alias of an eligible model or an exposed model.
LEMMA CatalogBuilt ==
    ASSUME NEW c, NEW models, NEW name \in DOMAIN ByName(c, models)
    PROVE  /\ ByName(c, models)[name].target \in Eligible(c, models)
           /\ \/ ByName(c, models)[name].alias
              \/ ByName(c, models)[name].target \in Underived(c, models)
           /\ ByName(c, models)[name].name = name
  <1>1. CASE name \in AliasNames(c, models)
    BY <1>1, AliasBuilt
  <1>2. CASE name \in {Derived(id) : id \in Underived(c, models)}
    BY <1>2, ModelBuilt DEF Underived
  <1> QED
    BY <1>1, <1>2, NamesBuilt

\* The entry that a spelling finds is the model's own.
LEMMA SpellingFindsModel ==
    ASSUME NEW c, NEW models, DOMAIN models \subseteq UpstreamIds,
           NEW id \in Underived(c, models)
    PROVE  /\ Derived(id) \in DOMAIN ByName(c, models)
           /\ ByName(c, models)[Derived(id)].target = id
           /\ ~ByName(c, models)[Derived(id)].alias
  <1>1. Derived(id) \in {Derived(i) : i \in Underived(c, models)}
    OBVIOUS
  <1>2. /\ ~ByName(c, models)[Derived(id)].alias
        /\ ByName(c, models)[Derived(id)].target \in Underived(c, models)
        /\ Derived(ByName(c, models)[Derived(id)].target) = Derived(id)
    BY <1>1, ModelBuilt
  <1>3. ByName(c, models)[Derived(id)].target = id
    BY <1>2, DerivedOnce
  <1>4. Derived(id) \in DOMAIN ByName(c, models)
    BY <1>1, NamesBuilt
  <1> QED
    BY <1>2, <1>3, <1>4
----------------------------------------------------------------------------
(* The theorems                                                             *)

\* Whatever the filters, modes and aliases, no request reaches a model that the
\* filters refuse, and what it reaches is among the allowed targets.
THEOREM BoundaryHolds == Spec => []WithinBoundary
  <1>1. ASSUME IInv, NEW request, Resolve(catalog, request) # NotFound
        PROVE  /\ Resolve(catalog, request).target \in Eligible(built.cfg, built.models)
               /\ Resolve(catalog, request).target \in catalog.targets
    <2> DEFINE c == built.cfg
    <2> DEFINE models == built.models
    <2>1. \E name \in DOMAIN ByName(c, models) : Resolve(catalog, request) = ByName(c, models)[name]
      BY <1>1, FoundCases, SpellingFindsModel DEF ByItsName, ByItsSpelling, IInv, Listed
    <2>2. \A name \in DOMAIN ByName(c, models) :
             ByName(c, models)[name].target \in Eligible(c, models)
      BY CatalogBuilt
    <2>3. catalog.targets = {ByName(c, models)[name].target : name \in DOMAIN ByName(c, models)}
      BY <1>1, FoundCases
    <2> QED
      BY <2>1, <2>2, <2>3
  <1>2. IInv => WithinBoundary
    BY <1>1 DEF WithinBoundary
  <1> QED
    BY <1>2, AlwaysBuilt, PTL

\* A hidden model is reached through its aliases only.
THEOREM HiddenStaysHidden == Spec => []HiddenBehindAlias
  <1>1. ASSUME IInv, NEW request, Resolve(catalog, request) # NotFound,
               Resolve(catalog, request).target \in Hidden(built.cfg, built.models)
        PROVE  Resolve(catalog, request).alias
    <2> DEFINE c == built.cfg
    <2> DEFINE models == built.models
    <2>1. \E name \in DOMAIN ByName(c, models) : Resolve(catalog, request) = ByName(c, models)[name]
      BY <1>1, FoundCases, SpellingFindsModel DEF ByItsName, ByItsSpelling, IInv, Listed
    <2>2. \A name \in DOMAIN ByName(c, models) :
             \/ ByName(c, models)[name].alias
             \/ ByName(c, models)[name].target \in Underived(c, models)
      BY CatalogBuilt
    <2>3. \A id \in Underived(c, models) : id \notin Hidden(c, models)
      BY DEF Underived
    <2> QED
      BY <1>1, <2>1, <2>2, <2>3
  <1>2. ASSUME IInv, NEW request, Resolve(catalog, request).target \in Hidden(built.cfg, built.models)
        PROVE  Resolve(catalog, request) # NotFound
    <2>1. Hidden(built.cfg, built.models) \subseteq Eligible(built.cfg, built.models)
      BY DEF Hidden, Live
    <2>2. Hidden(built.cfg, built.models) \subseteq UpstreamIds
      BY <1>2, <2>1, EligibleListed DEF IInv, Listed
    <2> QED
      BY <1>2, <2>2, StringsAssumption DEF NotFound
  <1>3. IInv => HiddenBehindAlias
    BY <1>1, <1>2 DEF HiddenBehindAlias
  <1> QED
    BY <1>3, AlwaysBuilt, PTL

\* Cutting the default tag off and putting it back gives the string itself.
LEMMA TaggedUntagged ==
    ASSUME NEW s \in Strings, EndsInTag(s)
    PROVE  Tagged(Untagged(s)) = s
  <1> DEFINE n == Len(s)
  <1>1. n \in Nat /\ n >= 2 /\ SubSeq(s, n - 1, n) = <<":", Tag>>
    BY DEF EndsInTag, Strings
  <1> DEFINE W == DOMAIN LowerOf
  <1> DEFINE cut == SubSeq(s, 1, n - 2)
  <1> DEFINE tail == SubSeq(s, n - 1, n)
  <1>w. \A k \in 1 .. n : s[k] \in W
    BY DEF Strings
  <1>2. s[n - 1] = ":" /\ s[n] = Tag
    <2>1. n \in Int /\ n - 1 \in Int /\ \A k \in n - 1 .. n : s[k] \in W
      BY <1>1, <1>w
    <2>2. \A k \in 1 .. n - (n - 1) + 1 : tail[k] = s[(n - 1) + k - 1]
      BY <2>1, SubSeqProperties
    <2>3. tail[1] = s[n - 1] /\ tail[2] = s[n]
      <3> HIDE DEF tail
      <3> QED
        BY <1>1, <2>2
    <2>4. tail = <<":", Tag>>
      BY <1>1
    <2>5. tail[1] = ":" /\ tail[2] = Tag
      <3> HIDE DEF tail
      <3> QED
        BY <2>4
    <2> QED
      BY <2>3, <2>5
  <1>3. Untagged(s) \in Strings /\ Len(Untagged(s)) = n - 2
        /\ \A k \in 1 .. n - 2 : Untagged(s)[k] = s[k]
    <2>1. n - 2 \in Int /\ 1 \in Int /\ \A k \in 1 .. n - 2 : s[k] \in W
      BY <1>1, <1>w
    <2>2. /\ cut \in Seq(W)
          /\ Len(cut) = IF 1 <= n - 2 THEN (n - 2) - 1 + 1 ELSE 0
          /\ \A k \in 1 .. (n - 2) - 1 + 1 : cut[k] = s[1 + k - 1]
      BY <2>1, SubSeqProperties
    <2>3. cut \in Seq(W) /\ Len(cut) = n - 2 /\ \A k \in 1 .. n - 2 : cut[k] = s[k]
      <3> HIDE DEF cut, n
      <3>1. n \in Nat /\ n >= 2 /\ (n - 2) - 1 + 1 = n - 2 /\ \A k \in Int : 1 + k - 1 = k
        BY <1>1
      <3>2. Len(cut) = n - 2
        BY <2>2, <3>1
      <3>3. \A k \in 1 .. n - 2 : cut[k] = s[k]
        BY <2>2, <3>1
      <3> QED
        BY <2>2, <3>2, <3>3
    <2> QED
      BY <2>3 DEF Untagged, Strings
  <1>4. <<":", Tag>> \in Strings
    BY TokensAssumption DEF Strings
  <1>5. Tagged(Untagged(s)) \in Strings /\ Len(Tagged(Untagged(s))) = n
    BY <1>1, <1>3, <1>4 DEF Tagged, Strings
  <1>6. ASSUME NEW k \in 1 .. n
        PROVE  Tagged(Untagged(s))[k] = s[k]
    <2>1. CASE k <= n - 2
      BY <1>1, <1>3, <1>4, <2>1 DEF Tagged, Strings
    <2>2. CASE k = n - 1
      BY <1>1, <1>2, <1>3, <1>4, <2>2 DEF Tagged, Strings
    <2>3. CASE k = n
      BY <1>1, <1>2, <1>3, <1>4, <2>3 DEF Tagged, Strings
    <2> QED
      BY <1>1, <2>1, <2>2, <2>3
  <1> QED
    BY <1>5, <1>6 DEF Strings

\* A request that is no entry's name reaches the exposed model it spells or nothing.
THEOREM SpellingIsExact == Spec => []RawIsExact
  <1>1. ASSUME IInv, NEW request \in Requests, Resolve(catalog, request) # NotFound,
               Resolve(catalog, request).name \notin {Lower(request), Tagged(Lower(request))}
        PROVE  /\ ~Resolve(catalog, request).alias
               /\ \/ Resolve(catalog, request).target = request
                  \/ Tagged(Resolve(catalog, request).target) = request
    <2> DEFINE c == built.cfg
    <2> DEFINE models == built.models
    <2>1. ~ByItsName(Resolve(catalog, request), c, models, request)
      BY <1>1, CatalogBuilt DEF ByItsName
    <2>2. ByItsSpelling(Resolve(catalog, request), c, models, request)
      BY <1>1, <2>1, FoundCases
    <2>3. PICK id \in Underived(c, models) :
             /\ id = request \/ (EndsInTag(request) /\ id = Untagged(request))
             /\ Resolve(catalog, request) = ByName(c, models)[Derived(id)]
      BY <2>2 DEF ByItsSpelling
    <2>4. ~Resolve(catalog, request).alias /\ Resolve(catalog, request).target = id
      BY <1>1, <2>3, SpellingFindsModel DEF IInv, Listed
    <2>5. EndsInTag(request) => Tagged(Untagged(request)) = request
      BY TaggedUntagged, StringsAssumption
    <2> QED
      BY <2>3, <2>4, <2>5
  <1>2. IInv => RawIsExact
    BY <1>1 DEF RawIsExact
  <1> QED
    BY <1>2, AlwaysBuilt, PTL

\* Lower-case letters, the separators and the tag stay as they are.
LEMMA LowerTwice ==
    ASSUME NEW s \in Strings
    PROVE  /\ Lower(s) \in Strings /\ Lower(Lower(s)) = Lower(s)
           /\ Tagged(Lower(s)) \in Strings /\ Lower(Tagged(Lower(s))) = Tagged(Lower(s))
  <1> DEFINE W == DOMAIN LowerOf
  <1> DEFINE n == Len(s)
  <1>1. s \in Seq(W) /\ n \in Nat /\ DOMAIN s = 1 .. n /\ \A k \in 1 .. n : s[k] \in W
    BY DEF Strings
  <1>2. ASSUME NEW t \in Seq(W)
        PROVE  /\ Lower(t) \in Seq(W) /\ DOMAIN Lower(t) = DOMAIN t /\ Len(Lower(t)) = Len(t)
               /\ \A k \in 1 .. Len(t) : Lower(t)[k] = LowerOf[t[k]]
    <2>1. Lower(t) \in [1 .. Len(t) -> W]
      BY TokensAssumption DEF Lower
    <2> QED
      BY <2>1 DEF Lower
  <1>3. Lower(s) \in Seq(W) /\ Len(Lower(s)) = n /\ \A k \in 1 .. n : Lower(s)[k] = LowerOf[s[k]]
    BY <1>1, <1>2
  <1>4. Lower(Lower(s)) = Lower(s)
    <2>1. Lower(Lower(s)) \in Seq(W) /\ Len(Lower(Lower(s))) = n
          /\ \A k \in 1 .. n : Lower(Lower(s))[k] = LowerOf[Lower(s)[k]]
      BY <1>2, <1>3
    <2>2. \A k \in 1 .. n : Lower(Lower(s))[k] = Lower(s)[k]
      BY <1>1, <1>3, <2>1, TokensAssumption
    <2> QED
      BY <1>3, <2>1, <2>2, SeqEqual
  <1>5. <<":", Tag>> \in Seq(W)
    BY TokensAssumption
  <1> DEFINE t == Tagged(Lower(s))
  <1>6. /\ t \in Seq(W) /\ Len(t) = n + 2
        /\ \A k \in 1 .. n : t[k] = Lower(s)[k]
        /\ t[n + 1] = ":" /\ t[n + 2] = Tag
    BY <1>1, <1>3, <1>5 DEF Tagged
  <1>7. Lower(t) = t
    <2> HIDE DEF t
    <2>1. Lower(t) \in Seq(W) /\ Len(Lower(t)) = n + 2
          /\ \A k \in 1 .. n + 2 : Lower(t)[k] = LowerOf[t[k]]
      BY <1>2, <1>6
    <2>2. ASSUME NEW k \in 1 .. n + 2
          PROVE  Lower(t)[k] = t[k]
      <3>1. CASE k \in 1 .. n
        BY <1>1, <1>3, <1>6, <2>1, <3>1, TokensAssumption
      <3>2. CASE k \in {n + 1, n + 2}
        BY <1>6, <2>1, <3>2, TokensAssumption
      <3> QED
        BY <1>1, <3>1, <3>2
    <2> QED
      BY <1>6, <2>1, <2>2, SeqEqual
  <1> QED
    BY <1>3, <1>4, <1>6, <1>7 DEF Strings

\* The configurations are the operator's.
Configured == {cfg, built.cfg} \subseteq Configs

LEMMA AlwaysConfigured == Spec => []Configured
  <1>1. Init => Configured
    BY DEF Init, Configured
  <1>2. Configured /\ [Next]_vars => Configured'
    <2> SUFFICES ASSUME Configured, [Next]_vars PROVE Configured'
      OBVIOUS
    <2>1. ASSUME NEW c \in Configs, NEW models, NEW seen, Publish(c, models, seen)
          PROVE  Configured'
      BY <2>1 DEF Publish, Configured
    <2>2. CASE Refresh
      BY <2>1, <2>2 DEF Refresh, Configured
    <2>3. CASE ReloadEnds
      BY <2>1, <2>3 DEF ReloadEnds
    <2>4. CASE UNCHANGED <<cfg, built>>
      BY <2>4 DEF Configured
    <2> QED
      BY <2>2, <2>3, <2>4 DEF Next, ReloadBegins, ReloadFails, Tick, vars
  <1> QED
    BY <1>1, <1>2, PTL DEF Spec

\* A name in a catalog is written as a request for it is looked up.
LEMMA NamesLower ==
    ASSUME NEW c \in Configs, NEW models, DOMAIN models \subseteq UpstreamIds,
           NEW name \in DOMAIN ByName(c, models)
    PROVE  Lower(name) = name
  <1>1. CASE name \in {Derived(id) : id \in Underived(c, models)}
    <2>1. PICK id \in Underived(c, models) : name = Derived(id)
      BY <1>1
    <2>2. id \in Strings
      <3>1. id \in UpstreamIds
        BY <2>1, EligibleListed DEF Underived
      <3> QED
        BY <3>1, StringsAssumption DEF UpstreamIds
    <2> DEFINE dashed == [k \in DOMAIN id |-> IF id[k] = ":" THEN "-" ELSE id[k]]
    <2>3. dashed \in Strings
      <3>1. dashed \in [1 .. Len(id) -> DOMAIN LowerOf]
        BY <2>2, TokensAssumption DEF Strings
      <3> QED
        BY <2>2, <3>1 DEF Strings
    <2>4. name = Tagged(Lower(dashed))
      BY <2>1 DEF Derived
    <2> QED
      BY <2>3, <2>4, LowerTwice
  <1>2. CASE name \in AliasNames(c, models)
    <2>1. PICK k \in Live(c, models) : name = Normalized(c.aliases[k].name)
      BY <1>2 DEF AliasNames
    <2> DEFINE R == [name : Strings, target : UpstreamIds, hide : BOOLEAN, refused : BOOLEAN]
    <2>2. c.aliases[k].name \in Strings
      <3>1. c.aliases \in Seq(R) /\ k \in DOMAIN c.aliases
        BY <2>1, ConfigsAssumption DEF Live
      <3>2. c.aliases[k] \in R
        <4> HIDE DEF R
        <4> QED
          BY <3>1
      <3> QED
        BY <3>2
    <2> QED
      BY <2>1, <2>2, LowerTwice DEF Normalized
  <1> QED
    BY <1>1, <1>2, NamesBuilt

\* Every name that is listed reaches its own entry, in any case: no model that is
\* shown can be unreachable, whatever else its name spells.
THEOREM ListedNamesReached == Spec => []ListedNamesResolve
  <1>1. ASSUME IInv, Configured, NEW name \in DOMAIN catalog.byName, NEW request,
               Lower(request) = Lower(name)
        PROVE  Resolve(catalog, request) = catalog.byName[name]
    <2>1. catalog # NoCatalog
      BY <1>1 DEF NoCatalog
    <2>2. catalog.byName = ByName(built.cfg, built.models)
      BY <1>1, <2>1 DEF IInv, IsBuilt, Build
    <2>3. Lower(name) = name
      BY <1>1, <2>2, NamesLower DEF IInv, Listed, Configured
    <2> QED
      BY <1>1, <2>3 DEF Resolve
  <1>2. IInv /\ Configured => ListedNamesResolve
    BY <1>1 DEF ListedNamesResolve
  <1> QED
    BY <1>2, AlwaysBuilt, AlwaysConfigured, PTL

\* Dates survive every refresh, and every reload that set out with the same ones.
THEOREM DatesSurvive == Spec => DatesKept
  <1> DEFINE CatalogKept(id) ==
        \/ /\ id \in DOMAIN catalog'.firstSeen
           /\ catalog'.firstSeen[id] = catalog.firstSeen[id]
        \/ /\ cfg' # cfg
           /\ id \in DOMAIN reloading.seen => reloading.seen[id] # catalog.firstSeen[id]
  <1>1. ASSUME NEW c, NEW models, NEW seen, Publish(c, models, seen)
        PROVE  /\ cfg' = c /\ built'.models = models
               /\ \A id \in DOMAIN seen \cap DOMAIN models :
                     id \in DOMAIN catalog'.firstSeen /\ catalog'.firstSeen[id] = seen[id]
    <2>1. cfg' = c /\ built'.models = models /\ catalog'.firstSeen = FirstSeen(c, models, seen, now)
      BY <1>1 DEF Publish, Build
    <2> QED
      BY <2>1 DEF FirstSeen
  <1>2. ASSUME [Next]_vars, NEW id \in DOMAIN catalog.firstSeen \cap DOMAIN built'.models
        PROVE  CatalogKept(id)
    <2>1. CASE Refresh
      <3>1. PICK models \in Listings : Publish(cfg, models, catalog.firstSeen)
        BY <2>1 DEF Refresh
      <3> QED
        BY <1>1, <1>2, <3>1
    <2>2. CASE ReloadEnds
      <3>1. PICK c \in Configs \ {cfg}, models \in Listings : Publish(c, models, reloading.seen)
        BY <2>2 DEF ReloadEnds
      <3>2. cfg' # cfg /\ built'.models = models
        BY <1>1, <3>1
      <3>3. CASE id \in DOMAIN reloading.seen
        BY <1>1, <1>2, <3>1, <3>2, <3>3
      <3> QED
        BY <3>2, <3>3
    <2>3. CASE UNCHANGED <<catalog, built>>
      BY <1>2, <2>3
    <2> QED
      BY <1>2, <2>1, <2>2, <2>3 DEF Next, ReloadBegins, ReloadFails, Tick, vars
  <1>3. [Next]_vars =>
            [\A id \in DOMAIN catalog.firstSeen \cap DOMAIN built'.models :
                \/ /\ id \in DOMAIN catalog'.firstSeen
                   /\ catalog'.firstSeen[id] = catalog.firstSeen[id]
                \/ /\ cfg' # cfg
                   /\ id \in DOMAIN reloading.seen => reloading.seen[id] # catalog.firstSeen[id]]_vars
    BY <1>2
  <1> QED
    BY <1>3, PTL DEF Spec, DatesKept

\* The maps of every published catalog agree with each other.
THEOREM CatalogTypeCorrect == Spec => []TypeOK
  <1>1. Init => TypeOK
    <2> SUFFICES ASSUME Init PROVE TypeOK
      OBVIOUS
    <2>1. cfg \in Configs /\ now \in 0 .. MaxTime
      BY BoundAssumption DEF Init
    <2>2. built.models = <<>> /\ built.models \in Listings
      <3>1. {} \in SUBSET UpstreamIds
        OBVIOUS
      <3>2. built.models \in [{} -> UNION {Infos[id] : id \in UpstreamIds}]
        BY DEF Init
      <3>3. DOMAIN built.models = {}
        BY <3>2
      <3> QED
        BY <3>1, <3>2, <3>3 DEF Listings, Init
    <2>3. catalog = NoCatalog
      BY DEF Init
    <2> QED
      BY <2>1, <2>2, <2>3 DEF TypeOK, NoCatalog
  <1>2. ASSUME TypeOK, NEW c \in Configs, NEW models \in Listings, NEW seen, Publish(c, models, seen)
        PROVE  TypeOK'
    <2>1. /\ catalog' = Build(c, models, seen, now)
          /\ cfg' = c /\ now' = now /\ built'.models = models
      BY <1>2 DEF Publish
    <2>2. /\ catalog'.byName = ByName(c, models)
          /\ catalog'.raw = [id \in Underived(c, models) |-> Derived(id)]
          /\ catalog'.targets = {ByName(c, models)[name].target : name \in DOMAIN ByName(c, models)}
          /\ catalog'.firstSeen = FirstSeen(c, models, seen, now)
      BY <2>1 DEF Build
    <2>3. \A name \in DOMAIN ByName(c, models) : ByName(c, models)[name].name = name
      BY CatalogBuilt
    <2>4. DOMAIN catalog'.raw \subseteq catalog'.targets
      BY <2>2, ListingsListed, SpellingFindsModel
    <2>5. DOMAIN catalog'.firstSeen \subseteq DOMAIN models
      BY <2>2, EligibleListed DEF FirstSeen
    <2> QED
      BY <1>2, <2>1, <2>2, <2>3, <2>4, <2>5 DEF TypeOK
  <1>3. TypeOK /\ [Next]_vars => TypeOK'
    <2> SUFFICES ASSUME TypeOK, [Next]_vars PROVE TypeOK'
      OBVIOUS
    <2>1. CASE Refresh
      BY <1>2, <2>1 DEF Refresh, TypeOK
    <2>2. CASE ReloadEnds
      BY <1>2, <2>2 DEF ReloadEnds
    <2>3. CASE UNCHANGED <<cfg, catalog, built>> /\ now' \in {now, now + 1} /\ now' \in 0 .. MaxTime
      BY <2>3 DEF TypeOK
    <2>4. CASE Tick
      BY <2>3, <2>4, BoundAssumption DEF Tick, TypeOK
    <2>5. CASE ReloadBegins \/ ReloadFails \/ UNCHANGED vars
      BY <2>3, <2>5 DEF ReloadBegins, ReloadFails, vars, TypeOK
    <2> QED
      BY <2>1, <2>2, <2>4, <2>5 DEF Next
  <1> QED
    BY <1>1, <1>3, PTL DEF Spec

(***************************************************************************)
(* Settings.  The invariant is that the configuration in force is told,    *)
(* layer by layer, from the files its parts were taken from, that one that *)
(* waits for its publication stays valid (SettingsInv), and that the       *)
(* entries published beside it are those built of it (EntriesInv).         *)
(***************************************************************************)

\* What is captured and read is what there is to capture and read.
SourcesOK ==
    /\ static \in Statics /\ {file, started, restFrom, authFrom} \subseteq Files
    /\ edits \in 0 .. MaxEdits /\ listed \subseteq ModelIds
    /\ candidate = NoCandidate \/ \E source \in Files : candidate = <<source>>

\* A published configuration has a value for every key and tells where it is from.
ShapeOK ==
    /\ {"values", "tokens", "aliases"} \subseteq DOMAIN config
    /\ DOMAIN config.values = Keys /\ Keys \subseteq DOMAIN provenance
    /\ \A k \in DOMAIN provenance : provenance[k] \in Layers

\* A configuration that waits for its publication stays valid: what is taken from the
\* one in force meanwhile, authentication and listeners, is valid there.
CandidateFits ==
    candidate # NoCandidate => Validates(Kept(Loaded(candidate[1])))

SettingsInv == SourcesOK /\ ShapeOK /\ Validates(config) /\ CandidateFits /\ LayersTold
----------------------------------------------------------------------------
(* Induction, sequences, and what is built step by step                     *)

LEMMA Least ==
    ASSUME NEW S \in SUBSET Nat, S # {}
    PROVE  \E n \in S : \A m \in S : n <= m
<1> DEFINE R == OpToRel(<, Nat)
<1>1. IsWellFoundedOn(R, Nat)
  BY NatLessThanWellFounded
<1>2. \A x, y \in Nat : <<x, y>> \in R <=> x < y
  BY DEF OpToRel
<1> HIDE DEF R
<1>3. PICK n \in S : \A m \in S : ~(<<m, n>> \in R)
  BY <1>1, WFMin
<1>4. \A m \in S : n <= m
  <2> TAKE m \in S
  <2>1. m \in Nat /\ n \in Nat /\ ~(m < n) BY <1>2, <1>3
  <2>2. QED BY <2>1
<1>5. QED BY <1>4

\* A set of numbers with 0 and with every successor has them all.
LEMMA NatInclusion ==
    ASSUME NEW S, 0 \in S, \A n \in Nat : n \in S => n + 1 \in S
    PROVE  Nat \subseteq S
<1> SUFFICES ASSUME Nat \ S # {} PROVE FALSE
  OBVIOUS
<1>1. PICK n \in Nat \ S : \A m \in Nat \ S : n <= m
  <2>1. Nat \ S \in SUBSET Nat OBVIOUS
  <2>2. QED BY <2>1, Least
<1>2. n - 1 \in Nat /\ n - 1 + 1 = n /\ ~(n <= n - 1)
  OBVIOUS
<1>3. n - 1 \in S
  BY <1>1, <1>2
<1>4. QED BY <1>2, <1>3

LEMMA ListFacts ==
    ASSUME NEW s, IsList(s)
    PROVE  Len(s) \in Nat /\ DOMAIN s = 1 .. Len(s) /\ \A k \in 1 .. Len(s) : s[k] \in ToSet(s)
<1>1. Len(s) \in Nat /\ DOMAIN s = 1 .. Len(s) BY DEF IsList
<1>2. QED BY <1>1 DEF ToSet

LEMMA AppendFacts ==
    ASSUME NEW s, IsList(s), NEW x
    PROVE  /\ IsList(Append(s, x)) /\ Len(Append(s, x)) = Len(s) + 1
           /\ DOMAIN Append(s, x) = 1 .. Len(s) + 1
           /\ Append(s, x)[Len(s) + 1] = x
           /\ \A k \in 1 .. Len(s) : Append(s, x)[k] = s[k]
<1> DEFINE S == ToSet(s) \cup {x}
<1>1. s \in Seq(S)
  <2>1. Len(s) \in Nat /\ s \in [1 .. Len(s) -> ToSet(s)] BY DEF IsList
  <2>2. s \in [1 .. Len(s) -> S] BY <2>1
  <2>3. QED BY <2>1, <2>2
<1>2. x \in S OBVIOUS
<1> HIDE DEF S
<1>3. /\ Append(s, x) \in Seq(S) /\ Len(Append(s, x)) = Len(s) + 1
      /\ Append(s, x)[Len(s) + 1] = x
      /\ \A k \in 1 .. Len(s) : Append(s, x)[k] = s[k]
  BY <1>1, <1>2
<1>4. Len(s) \in Nat BY <1>1
<1> DEFINE t == Append(s, x)
<1>5. DOMAIN t = 1 .. Len(s) + 1 BY <1>3, <1>4
<1>6. t \in [1 .. Len(t) -> ToSet(t)] /\ Len(t) \in Nat
  <2> HIDE DEF t
  <2>1. t \in Seq(S) BY <1>3 DEF t
  <2>2. Len(t) \in Nat /\ t = [k \in 1 .. Len(t) |-> t[k]] /\ DOMAIN t = 1 .. Len(t) BY <2>1
  <2>3. \A k \in 1 .. Len(t) : t[k] \in ToSet(t) BY <2>2 DEF ToSet
  <2>4. QED BY <2>2, <2>3
<1> HIDE DEF t
<1>7. IsList(t) BY <1>6 DEF IsList
<1>8. QED BY <1>3, <1>5, <1>7 DEF t

\* A simple alias taken over, or an override laid on: what a list does to a thing, one
\* after the other.
StepOf(kind, thing, x, with) ==
    IF kind = "take" THEN Take(thing, x, with) ELSE Override(thing, x, with)
StepsOf(kind, thing, list, with, n, f) ==
    f[0] = thing /\ \A k \in 1 .. n : f[k] = StepOf(kind, f[k - 1], list[k], with)

Upto(f, n) == f = [k \in 0 .. n |-> f[k]]

LEMMA StepsExist ==
    ASSUME NEW kind, NEW thing, NEW list, NEW with, NEW last \in Nat
    PROVE  \E f : StepsOf(kind, thing, list, with, last, f) /\ Upto(f, last)
<1> DEFINE S == {n \in Nat : \E f : StepsOf(kind, thing, list, with, n, f) /\ Upto(f, n)}
<1>1. 0 \in S
  <2> DEFINE f == [k \in 0 .. 0 |-> thing]
  <2>1. StepsOf(kind, thing, list, with, 0, f) /\ Upto(f, 0) BY DEF StepsOf, Upto
  <2>2. QED BY <2>1
<1>2. ASSUME NEW n \in Nat, n \in S PROVE n + 1 \in S
  <2>1. PICK f : StepsOf(kind, thing, list, with, n, f) /\ Upto(f, n) BY <1>2
  <2> DEFINE new == StepOf(kind, f[n], list[n + 1], with)
             next == [k \in 0 .. n + 1 |-> IF k = n + 1 THEN new ELSE f[k]]
  <2> HIDE DEF new
  <2>2. next[0] = thing BY <2>1 DEF StepsOf
  <2>3. ASSUME NEW k \in 1 .. n + 1 PROVE next[k] = StepOf(kind, next[k - 1], list[k], with)
    <3>1. CASE k = n + 1
      <4>1. next[k - 1] = f[n] /\ next[k] = new BY <3>1
      <4>2. QED BY <3>1, <4>1 DEF new
    <3>2. CASE k # n + 1
      <4>1. k \in 1 .. n /\ next[k] = f[k] /\ next[k - 1] = f[k - 1] BY <3>2
      <4>2. QED BY <2>1, <4>1 DEF StepsOf
    <3>3. QED BY <3>1, <3>2
  <2>4. Upto(next, n + 1) BY DEF Upto
  <2> HIDE DEF next
  <2>5. StepsOf(kind, thing, list, with, n + 1, next) BY <2>2, <2>3 DEF StepsOf
  <2>6. QED BY <2>4, <2>5
<1> HIDE DEF S
<1>3. Nat \subseteq S BY <1>1, <1>2, NatInclusion
<1>4. last \in S BY <1>3
<1>5. QED BY <1>4 DEF S

\* What is defined by those steps is what they lead to.
LEMMA StepsChosen ==
    ASSUME NEW kind, NEW thing, NEW list, NEW with, NEW last \in Nat
    PROVE  LET f == CHOOSE g : g = [n \in 0 .. last |->
                        IF n = 0 THEN thing ELSE StepOf(kind, g[n - 1], list[n], with)]
           IN  StepsOf(kind, thing, list, with, last, f)
<1> DEFINE body(g, n) == IF n = 0 THEN thing ELSE StepOf(kind, g[n - 1], list[n], with)
           f == CHOOSE g : g = [n \in 0 .. last |-> body(g, n)]
<1>1. PICK g : StepsOf(kind, thing, list, with, last, g) /\ Upto(g, last)
  BY StepsExist
<1>2. \E h : h = [n \in 0 .. last |-> body(h, n)]
  <2>1. \A n \in 0 .. last : g[n] = body(g, n)
    <3> TAKE n \in 0 .. last
    <3>1. CASE n = 0 BY <1>1, <3>1 DEF StepsOf
    <3>2. CASE n # 0
      <4>1. n \in 1 .. last BY <3>2
      <4>2. QED BY <1>1, <3>2, <4>1 DEF StepsOf
    <3>3. QED BY <3>1, <3>2
  <2> HIDE DEF body
  <2>2. g = [n \in 0 .. last |-> body(g, n)] BY <1>1, <2>1 DEF Upto
  <2>3. QED BY <2>2
<1>3. f = [n \in 0 .. last |-> body(f, n)] BY <1>2
<1> HIDE DEF f
<1>4. ASSUME NEW n \in 0 .. last PROVE f[n] = body(f, n)
  <2> HIDE DEF body
  <2>1. QED BY <1>3
<1>5. StepsOf(kind, thing, list, with, last, f)
  <2>1. f[0] = thing BY <1>4
  <2>2. \A n \in 1 .. last : n \in 0 .. last /\ n # 0 OBVIOUS
  <2>3. QED BY <1>4, <2>1, <2>2 DEF StepsOf
<1>6. QED BY <1>5 DEF f

LEMMA TakeOverByStep ==
    ASSUME NEW aliases, NEW pairs, IsList(pairs), NEW tag
    PROVE  \E f : /\ StepsOf("take", aliases, pairs, tag, Len(pairs), f)
                  /\ TakeOver(aliases, pairs, tag) = f[Len(pairs)]
<1> DEFINE f == CHOOSE g : g = [n \in 0 .. Len(pairs) |->
                    IF n = 0 THEN aliases ELSE StepOf("take", g[n - 1], pairs[n], tag)]
<1>1. TakeOver(aliases, pairs, tag) = f[Len(pairs)] BY DEF TakeOver, StepOf
<1>2. Len(pairs) \in Nat BY ListFacts
<1>3. StepsOf("take", aliases, pairs, tag, Len(pairs), f) BY <1>2, StepsChosen
<1> HIDE DEF f
<1>4. QED BY <1>1, <1>3

LEMMA OverriddenByStep ==
    ASSUME NEW entry, NEW overrides, IsList(overrides), NEW id
    PROVE  \E f : /\ StepsOf("override", entry, overrides, id, Len(overrides), f)
                  /\ Overridden(entry, overrides, id) = f[Len(overrides)]
<1> DEFINE f == CHOOSE g : g = [n \in 0 .. Len(overrides) |->
                    IF n = 0 THEN entry ELSE StepOf("override", g[n - 1], overrides[n], id)]
<1>1. Overridden(entry, overrides, id) = f[Len(overrides)] BY DEF Overridden, StepOf
<1>2. Len(overrides) \in Nat BY ListFacts
<1>3. StepsOf("override", entry, overrides, id, Len(overrides), f) BY <1>2, StepsChosen
<1> HIDE DEF f
<1>4. QED BY <1>1, <1>3
----------------------------------------------------------------------------
(* What behaviors make of an entry                                          *)

\* The places of a chain, of its first n, that say something of a thing.
SettingIn(chain, n, f) == {k \in 1 .. n : f \in DOMAIN chain[k].sets}
AddingIn(chain, n, x) == {k \in 1 .. n : x \in DOMAIN chain[k].extra}
DroppingIn(chain, n) == {k \in 1 .. n : chain[k].drops # Unset}
SpeakingIn(chain, n, c) ==
    {k \in 1 .. n : chain[k].only # Unset \/ c \in chain[k].add \cup chain[k].remove}
Granted(b, c) == c \notin b.remove /\ (c \in b.add \/ c \in b.only)

IsEntry(e) ==
    /\ e = [target |-> e.target, sets |-> e.sets, drops |-> e.drops, extra |-> e.extra,
            knows |-> e.knows, explicit |-> e.explicit]
    /\ DOMAIN e.sets = Fields /\ e.knows = [c \in Capabilities |-> e.knows[c]]

\* What an entry is after the first n behaviors of a chain, above values v.
SetsSettled(e, chain, n, v) ==
    \A f \in Fields :
        e.sets[f] = IF LastOf(SettingIn(chain, n, f)) = 0 THEN v[f]
                    ELSE chain[LastOf(SettingIn(chain, n, f))].sets[f]
ExtraSettled(e, chain, n) ==
    /\ \A x : x \in DOMAIN e.extra <=> \E k \in 1 .. n : x \in DOMAIN chain[k].extra
    /\ \A x \in DOMAIN e.extra : e.extra[x] = chain[LastOf(AddingIn(chain, n, x))].extra[x]
DropsSettled(e, chain, n) ==
    e.drops = IF LastOf(DroppingIn(chain, n)) = 0 THEN Unset
              ELSE chain[LastOf(DroppingIn(chain, n))].drops
KnownSettled(e, chain, n, id) ==
    /\ \A c \in Capabilities :
          LastOf(SpeakingIn(chain, n, c)) # 0 =>
             e.knows[c] = IF Granted(chain[LastOf(SpeakingIn(chain, n, c))], c) THEN "yes" ELSE "no"
    /\ LastOf(SpeakingIn(chain, n, "tools")) = 0 => e.knows["tools"] = Evidence[id]
ExplicitSettled(e, chain, n) == e.explicit <=> LastOf(SpeakingIn(chain, n, "insert")) # 0

Settled(e, chain, n, v, id) ==
    /\ IsEntry(e) /\ e.target = id
    /\ SetsSettled(e, chain, n, v) /\ ExtraSettled(e, chain, n) /\ DropsSettled(e, chain, n)
    /\ KnownSettled(e, chain, n, id) /\ ExplicitSettled(e, chain, n)

LEMMA LastOfNext ==
    ASSUME NEW n \in Nat, NEW S, S \subseteq 1 .. n
    PROVE  LastOf(S \cup {n + 1}) = n + 1
<1> DEFINE T == S \cup {n + 1}
<1>1. n + 1 \in T /\ \A k \in T : k \in Nat /\ n + 1 >= k OBVIOUS
<1> HIDE DEF T
<1>2. ASSUME NEW x \in T, \A y \in T : x >= y PROVE x = n + 1
  <2>1. x \in Nat /\ x >= n + 1 /\ n + 1 >= x BY <1>1, <1>2
  <2>2. QED BY <2>1
<1>3. Max(T) \in T /\ \A y \in T : Max(T) >= y BY <1>1 DEF Max
<1>4. Max(T) = n + 1 BY <1>2, <1>3
<1>5. LastOf(T) = n + 1 BY <1>1, <1>4 DEF LastOf
<1>6. QED BY <1>5 DEF T

\* The next behavior is the last place of what it speaks of, and of nothing else.
LEMMA NextPlace ==
    ASSUME NEW chain, NEW n \in Nat
    PROVE  /\ \A f : LastOf(SettingIn(chain, n + 1, f)) =
                 IF f \in DOMAIN chain[n + 1].sets THEN n + 1 ELSE LastOf(SettingIn(chain, n, f))
           /\ \A x : LastOf(AddingIn(chain, n + 1, x)) =
                 IF x \in DOMAIN chain[n + 1].extra THEN n + 1 ELSE LastOf(AddingIn(chain, n, x))
           /\ LastOf(DroppingIn(chain, n + 1)) =
                 IF chain[n + 1].drops # Unset THEN n + 1 ELSE LastOf(DroppingIn(chain, n))
           /\ \A c : LastOf(SpeakingIn(chain, n + 1, c)) =
                 IF chain[n + 1].only # Unset \/ c \in chain[n + 1].add \cup chain[n + 1].remove THEN n + 1
                 ELSE LastOf(SpeakingIn(chain, n, c))
<1>1. \A k : k \in 1 .. n + 1 <=> k \in 1 .. n \/ k = n + 1 OBVIOUS
<1>2. ASSUME NEW f
      PROVE  LastOf(SettingIn(chain, n + 1, f)) =
                 IF f \in DOMAIN chain[n + 1].sets THEN n + 1 ELSE LastOf(SettingIn(chain, n, f))
  <2>1. SettingIn(chain, n, f) \subseteq 1 .. n BY DEF SettingIn
  <2>2. CASE f \in DOMAIN chain[n + 1].sets
    <3>1. SettingIn(chain, n + 1, f) = SettingIn(chain, n, f) \cup {n + 1}
      BY <1>1, <2>2 DEF SettingIn
    <3>2. QED BY <2>1, <2>2, <3>1, LastOfNext
  <2>3. CASE f \notin DOMAIN chain[n + 1].sets
    <3>1. SettingIn(chain, n + 1, f) = SettingIn(chain, n, f) BY <1>1, <2>3 DEF SettingIn
    <3>2. QED BY <2>3, <3>1
  <2>4. QED BY <2>2, <2>3
<1>3. ASSUME NEW x
      PROVE  LastOf(AddingIn(chain, n + 1, x)) =
                 IF x \in DOMAIN chain[n + 1].extra THEN n + 1 ELSE LastOf(AddingIn(chain, n, x))
  <2>1. AddingIn(chain, n, x) \subseteq 1 .. n BY DEF AddingIn
  <2>2. CASE x \in DOMAIN chain[n + 1].extra
    <3>1. AddingIn(chain, n + 1, x) = AddingIn(chain, n, x) \cup {n + 1}
      BY <1>1, <2>2 DEF AddingIn
    <3>2. QED BY <2>1, <2>2, <3>1, LastOfNext
  <2>3. CASE x \notin DOMAIN chain[n + 1].extra
    <3>1. AddingIn(chain, n + 1, x) = AddingIn(chain, n, x) BY <1>1, <2>3 DEF AddingIn
    <3>2. QED BY <2>3, <3>1
  <2>4. QED BY <2>2, <2>3
<1>4. LastOf(DroppingIn(chain, n + 1)) =
         IF chain[n + 1].drops # Unset THEN n + 1 ELSE LastOf(DroppingIn(chain, n))
  <2>1. DroppingIn(chain, n) \subseteq 1 .. n BY DEF DroppingIn
  <2>2. CASE chain[n + 1].drops # Unset
    <3>1. DroppingIn(chain, n + 1) = DroppingIn(chain, n) \cup {n + 1}
      BY <1>1, <2>2 DEF DroppingIn
    <3>2. QED BY <2>1, <2>2, <3>1, LastOfNext
  <2>3. CASE chain[n + 1].drops = Unset
    <3>1. DroppingIn(chain, n + 1) = DroppingIn(chain, n) BY <1>1, <2>3 DEF DroppingIn
    <3>2. QED BY <2>3, <3>1
  <2>4. QED BY <2>2, <2>3
<1>5. ASSUME NEW c
      PROVE  LastOf(SpeakingIn(chain, n + 1, c)) =
                 IF chain[n + 1].only # Unset \/ c \in chain[n + 1].add \cup chain[n + 1].remove THEN n + 1
                 ELSE LastOf(SpeakingIn(chain, n, c))
  <2>1. SpeakingIn(chain, n, c) \subseteq 1 .. n BY DEF SpeakingIn
  <2>2. CASE chain[n + 1].only # Unset \/ c \in chain[n + 1].add \cup chain[n + 1].remove
    <3>1. SpeakingIn(chain, n + 1, c) = SpeakingIn(chain, n, c) \cup {n + 1}
      BY <1>1, <2>2 DEF SpeakingIn
    <3>2. QED BY <2>1, <2>2, <3>1, LastOfNext
  <2>3. CASE ~(chain[n + 1].only # Unset \/ c \in chain[n + 1].add \cup chain[n + 1].remove)
    <3>1. SpeakingIn(chain, n + 1, c) = SpeakingIn(chain, n, c) BY <1>1, <2>3 DEF SpeakingIn
    <3>2. QED BY <2>3, <3>1
  <2>4. QED BY <2>2, <2>3
<1>6. QED BY <1>2, <1>3, <1>4, <1>5

\* A behavior that is applied settles what it speaks of and leaves the rest as it was.
LEMMA ApplySettles ==
    ASSUME NEW chain, NEW n \in Nat, NEW b, chain[n + 1] = b, IsBehavior(b), NEW v, NEW id,
           NEW e, Settled(e, chain, n, v, id)
    PROVE  Settled(Apply(e, b), chain, n + 1, v, id)
<1> DEFINE a == Apply(e, b)
<1>1. /\ IsEntry(e) /\ e.target = id /\ SetsSettled(e, chain, n, v) /\ ExtraSettled(e, chain, n)
      /\ DropsSettled(e, chain, n) /\ KnownSettled(e, chain, n, id) /\ ExplicitSettled(e, chain, n)
  BY DEF Settled
<1>2. DOMAIN b.sets \subseteq Fields BY DEF IsBehavior
<1>3. /\ a.target = e.target /\ a.sets = Over(b.sets, e.sets)
      /\ a.drops = (IF b.drops = Unset THEN e.drops ELSE b.drops)
      /\ a.extra = Over(b.extra, e.extra)
      /\ a.knows = [c \in Capabilities |-> Known(e, b, c)]
      /\ a = [target |-> a.target, sets |-> a.sets, drops |-> a.drops, extra |-> a.extra,
              knows |-> a.knows, explicit |-> a.explicit]
  <2> DEFINE sets == Over(b.sets, e.sets)
             drops == IF b.drops = Unset THEN e.drops ELSE b.drops
             extra == Over(b.extra, e.extra)
             knows == [c \in Capabilities |-> Known(e, b, c)]
             explicit == e.explicit \/ b.only # Unset \/ "insert" \in b.add \cup b.remove
  <2>1. DOMAIN e = {"target", "sets", "drops", "extra", "knows", "explicit"} BY <1>1 DEF IsEntry
  <2>2. a = [e EXCEPT !.sets = sets, !.drops = drops, !.extra = extra, !.knows = knows,
                      !.explicit = explicit]
    BY DEF Apply, ExtraMerged
  <2> HIDE DEF a, sets, drops, extra, knows, explicit
  <2>3. /\ a.target = e.target /\ a.sets = sets /\ a.drops = drops /\ a.extra = extra
        /\ a.knows = knows
    BY <2>1, <2>2
  <2>4. a = [target |-> a.target, sets |-> a.sets, drops |-> a.drops, extra |-> a.extra,
             knows |-> a.knows, explicit |-> a.explicit]
    BY <2>1, <2>2
  <2>5. QED BY <2>3, <2>4 DEF sets, drops, extra, knows
<1>4. a.explicit = (e.explicit \/ b.only # Unset \/ "insert" \in b.add \cup b.remove)
  BY <1>1 DEF Apply, IsEntry
<1> HIDE DEF a
<1>5. /\ \A f : LastOf(SettingIn(chain, n + 1, f)) =
                IF f \in DOMAIN b.sets THEN n + 1 ELSE LastOf(SettingIn(chain, n, f))
      /\ \A x : LastOf(AddingIn(chain, n + 1, x)) =
                IF x \in DOMAIN b.extra THEN n + 1 ELSE LastOf(AddingIn(chain, n, x))
      /\ LastOf(DroppingIn(chain, n + 1)) =
                IF b.drops # Unset THEN n + 1 ELSE LastOf(DroppingIn(chain, n))
      /\ \A c : LastOf(SpeakingIn(chain, n + 1, c)) =
                IF b.only # Unset \/ c \in b.add \cup b.remove THEN n + 1
                ELSE LastOf(SpeakingIn(chain, n, c))
  <2>1. /\ \A f : LastOf(SettingIn(chain, n + 1, f)) =
                  IF f \in DOMAIN chain[n + 1].sets THEN n + 1 ELSE LastOf(SettingIn(chain, n, f))
        /\ \A x : LastOf(AddingIn(chain, n + 1, x)) =
                  IF x \in DOMAIN chain[n + 1].extra THEN n + 1 ELSE LastOf(AddingIn(chain, n, x))
        /\ LastOf(DroppingIn(chain, n + 1)) =
                  IF chain[n + 1].drops # Unset THEN n + 1 ELSE LastOf(DroppingIn(chain, n))
        /\ \A c : LastOf(SpeakingIn(chain, n + 1, c)) =
                  IF chain[n + 1].only # Unset \/ c \in chain[n + 1].add \cup chain[n + 1].remove THEN n + 1
                  ELSE LastOf(SpeakingIn(chain, n, c))
    BY NextPlace
  <2>2. QED BY <2>1
<1>6. IsEntry(a)
  <2>1. DOMAIN a.sets = Fields BY <1>1, <1>2, <1>3 DEF Over, IsEntry
  <2>2. a.knows = [c \in Capabilities |-> a.knows[c]] BY <1>3
  <2>3. QED BY <1>3, <2>1, <2>2 DEF IsEntry
<1>7. SetsSettled(a, chain, n + 1, v)
  <2> SUFFICES ASSUME NEW f \in Fields
               PROVE  a.sets[f] = IF LastOf(SettingIn(chain, n + 1, f)) = 0 THEN v[f]
                                  ELSE chain[LastOf(SettingIn(chain, n + 1, f))].sets[f]
    BY DEF SetsSettled
  <2>1. a.sets[f] = IF f \in DOMAIN b.sets THEN b.sets[f] ELSE e.sets[f]
    BY <1>1, <1>2, <1>3 DEF Over, IsEntry
  <2>2. LastOf(SettingIn(chain, n + 1, f)) =
          IF f \in DOMAIN b.sets THEN n + 1 ELSE LastOf(SettingIn(chain, n, f))
    BY <1>5
  <2>3. n + 1 # 0 OBVIOUS
  <2>4. QED BY <1>1, <2>1, <2>2, <2>3 DEF SetsSettled
<1>8. ExtraSettled(a, chain, n + 1)
  <2>1. \A k : k \in 1 .. n + 1 <=> k \in 1 .. n \/ k = n + 1 OBVIOUS
  <2>2. ASSUME NEW x
        PROVE  x \in DOMAIN a.extra <=> \E k \in 1 .. n + 1 : x \in DOMAIN chain[k].extra
    <3>1. x \in DOMAIN a.extra <=> x \in DOMAIN b.extra \/ x \in DOMAIN e.extra
      BY <1>3 DEF Over
    <3>2. QED BY <1>1, <2>1, <3>1 DEF ExtraSettled
  <2>3. ASSUME NEW x \in DOMAIN a.extra
        PROVE  a.extra[x] = chain[LastOf(AddingIn(chain, n + 1, x))].extra[x]
    <3>1. /\ x \in DOMAIN b.extra \/ x \in DOMAIN e.extra
          /\ a.extra[x] = IF x \in DOMAIN b.extra THEN b.extra[x] ELSE e.extra[x]
      BY <1>3, <2>3 DEF Over
    <3>2. LastOf(AddingIn(chain, n + 1, x)) =
            IF x \in DOMAIN b.extra THEN n + 1 ELSE LastOf(AddingIn(chain, n, x))
      BY <1>5
    <3>3. QED BY <1>1, <3>1, <3>2 DEF ExtraSettled
  <2>4. QED BY <2>2, <2>3 DEF ExtraSettled
<1>9. DropsSettled(a, chain, n + 1)
  <2>1. LastOf(DroppingIn(chain, n + 1)) =
          IF b.drops # Unset THEN n + 1 ELSE LastOf(DroppingIn(chain, n))
    BY <1>5
  <2>2. n + 1 # 0 OBVIOUS
  <2>3. QED BY <1>1, <1>3, <2>1, <2>2 DEF DropsSettled
<1>10. KnownSettled(a, chain, n + 1, id)
  <2>1. \A c : LastOf(SpeakingIn(chain, n + 1, c)) =
           IF b.only # Unset \/ c \in b.add \cup b.remove THEN n + 1
           ELSE LastOf(SpeakingIn(chain, n, c))
    BY <1>5
  <2>2. n + 1 # 0 /\ "tools" \in Capabilities BY DEF Capabilities
  <2>3. ASSUME NEW c \in Capabilities, b.only # Unset \/ c \in b.add \cup b.remove
        PROVE  a.knows[c] = IF Granted(b, c) THEN "yes" ELSE "no"
    <3>1. a.knows[c] = Known(e, b, c) BY <1>3
    <3>2. c \notin Unset BY DEF Capabilities, Unset
    <3>3. QED BY <2>3, <3>1, <3>2 DEF Known, Granted
  <2>4. ASSUME NEW c \in Capabilities, ~(b.only # Unset \/ c \in b.add \cup b.remove)
        PROVE  a.knows[c] = e.knows[c]
    BY <1>3, <2>4 DEF Known
  <2>5. ASSUME NEW c \in Capabilities, LastOf(SpeakingIn(chain, n + 1, c)) # 0
        PROVE  a.knows[c] =
                 IF Granted(chain[LastOf(SpeakingIn(chain, n + 1, c))], c) THEN "yes" ELSE "no"
    <3>1. CASE b.only # Unset \/ c \in b.add \cup b.remove
      <4>1. LastOf(SpeakingIn(chain, n + 1, c)) = n + 1 BY <2>1, <3>1
      <4>2. QED BY <2>3, <3>1, <4>1
    <3>2. CASE ~(b.only # Unset \/ c \in b.add \cup b.remove)
      <4>1. LastOf(SpeakingIn(chain, n + 1, c)) = LastOf(SpeakingIn(chain, n, c)) BY <2>1, <3>2
      <4>2. a.knows[c] = e.knows[c] BY <2>4, <3>2
      <4>3. QED BY <1>1, <2>5, <4>1, <4>2 DEF KnownSettled
    <3>3. QED BY <3>1, <3>2
  <2>6. ASSUME LastOf(SpeakingIn(chain, n + 1, "tools")) = 0 PROVE a.knows["tools"] = Evidence[id]
    <3>1. ~(b.only # Unset \/ "tools" \in b.add \cup b.remove) BY <2>1, <2>2, <2>6
    <3>2. LastOf(SpeakingIn(chain, n, "tools")) = 0 BY <2>1, <2>6, <3>1
    <3>3. QED BY <1>1, <2>2, <2>4, <3>1, <3>2 DEF KnownSettled
  <2>7. QED BY <2>5, <2>6 DEF KnownSettled
<1>11. ExplicitSettled(a, chain, n + 1)
  <2> DEFINE speaks == b.only # Unset \/ "insert" \in b.add \cup b.remove
             was == LastOf(SpeakingIn(chain, n, "insert"))
             is == LastOf(SpeakingIn(chain, n + 1, "insert"))
  <2>1. is = (IF speaks THEN n + 1 ELSE was) BY <1>5
  <2>2. n + 1 # 0 OBVIOUS
  <2>3. a.explicit <=> e.explicit \/ speaks BY <1>4
  <2>4. e.explicit <=> was # 0 BY <1>1 DEF ExplicitSettled
  <2> HIDE DEF speaks, was, is
  <2>5. a.explicit <=> is # 0 BY <2>1, <2>2, <2>3, <2>4
  <2>6. QED BY <2>5 DEF ExplicitSettled, is
<1>12. QED BY <1>1, <1>3, <1>6, <1>7, <1>8, <1>9, <1>10, <1>11 DEF Settled, a

\* A behavior that says nothing changes nothing.
LEMMA NothingSettles ==
    ASSUME NEW chain, NEW n \in Nat, chain[n + 1] = NoBehavior, NEW v, NEW id,
           NEW e, Settled(e, chain, n, v, id)
    PROVE  Settled(e, chain, n + 1, v, id)
<1>1. /\ chain[n + 1].sets = <<>> /\ chain[n + 1].extra = <<>> /\ chain[n + 1].drops = Unset
      /\ chain[n + 1].only = Unset /\ chain[n + 1].add = {} /\ chain[n + 1].remove = {}
      /\ DOMAIN <<>> = {}
  BY DEF NoBehavior
<1>2. /\ \A f : LastOf(SettingIn(chain, n + 1, f)) =
              IF f \in DOMAIN chain[n + 1].sets THEN n + 1 ELSE LastOf(SettingIn(chain, n, f))
      /\ \A x : LastOf(AddingIn(chain, n + 1, x)) =
              IF x \in DOMAIN chain[n + 1].extra THEN n + 1 ELSE LastOf(AddingIn(chain, n, x))
      /\ LastOf(DroppingIn(chain, n + 1)) =
              IF chain[n + 1].drops # Unset THEN n + 1 ELSE LastOf(DroppingIn(chain, n))
      /\ \A c : LastOf(SpeakingIn(chain, n + 1, c)) =
              IF chain[n + 1].only # Unset \/ c \in chain[n + 1].add \cup chain[n + 1].remove
              THEN n + 1 ELSE LastOf(SpeakingIn(chain, n, c))
  BY NextPlace
<1>3. /\ \A f : LastOf(SettingIn(chain, n + 1, f)) = LastOf(SettingIn(chain, n, f))
      /\ \A x : LastOf(AddingIn(chain, n + 1, x)) = LastOf(AddingIn(chain, n, x))
      /\ LastOf(DroppingIn(chain, n + 1)) = LastOf(DroppingIn(chain, n))
      /\ \A c : LastOf(SpeakingIn(chain, n + 1, c)) = LastOf(SpeakingIn(chain, n, c))
  BY <1>1, <1>2
<1>4. /\ IsEntry(e) /\ e.target = id /\ SetsSettled(e, chain, n, v) /\ ExtraSettled(e, chain, n)
      /\ DropsSettled(e, chain, n) /\ KnownSettled(e, chain, n, id) /\ ExplicitSettled(e, chain, n)
  BY DEF Settled
<1>5. \A k : k \in 1 .. n + 1 <=> k \in 1 .. n \/ k = n + 1 OBVIOUS
<1>6. \A x : (\E k \in 1 .. n + 1 : x \in DOMAIN chain[k].extra)
             <=> (\E k \in 1 .. n : x \in DOMAIN chain[k].extra)
  BY <1>1, <1>5
<1>7. SetsSettled(e, chain, n + 1, v) BY <1>3, <1>4 DEF SetsSettled
<1>8. ExtraSettled(e, chain, n + 1)
  <2>1. \A x : x \in DOMAIN e.extra <=> \E k \in 1 .. n + 1 : x \in DOMAIN chain[k].extra
    BY <1>4, <1>6 DEF ExtraSettled
  <2>2. \A x \in DOMAIN e.extra : e.extra[x] = chain[LastOf(AddingIn(chain, n + 1, x))].extra[x]
    BY <1>3, <1>4 DEF ExtraSettled
  <2>3. QED BY <2>1, <2>2 DEF ExtraSettled
<1>9. DropsSettled(e, chain, n + 1) BY <1>3, <1>4 DEF DropsSettled
<1>10. KnownSettled(e, chain, n + 1, id) BY <1>3, <1>4 DEF KnownSettled
<1>11. ExplicitSettled(e, chain, n + 1) BY <1>3, <1>4 DEF ExplicitSettled
<1>12. QED BY <1>4, <1>7, <1>8, <1>9, <1>10, <1>11 DEF Settled

\* Nothing is said of an entry before the first behavior.
LEMMA BaseSettles ==
    ASSUME NEW c, NEW id, DOMAIN c.values = Keys, NEW chain
    PROVE  Settled(BaseEntry(c, id), chain, 0, c.values, id)
<1> DEFINE e == BaseEntry(c, id)
<1>1. /\ e.target = id /\ e.sets = Restrict(c.values, Fields) /\ e.drops = Unset /\ e.extra = <<>>
      /\ e.knows = [tools |-> Evidence[id], insert |-> "unknown"] /\ ~e.explicit
      /\ e = [target |-> e.target, sets |-> e.sets, drops |-> e.drops, extra |-> e.extra,
              knows |-> e.knows, explicit |-> e.explicit]
  BY DEF BaseEntry
<1> HIDE DEF e
<1>2. Fields \subseteq Keys BY DEF Fields, Keys
<1>3. DOMAIN e.sets = Fields /\ \A f \in Fields : e.sets[f] = c.values[f]
  BY <1>1, <1>2 DEF Restrict
<1>4. e.knows = [k \in Capabilities |-> e.knows[k]] /\ e.knows["tools"] = Evidence[id]
  BY <1>1 DEF Capabilities
<1>5. IsEntry(e) BY <1>1, <1>3, <1>4 DEF IsEntry
<1>6. 1 .. 0 = {} OBVIOUS
<1>7. LastOf({}) = 0 BY DEF LastOf
<1>8. /\ \A f : LastOf(SettingIn(chain, 0, f)) = 0
      /\ LastOf(DroppingIn(chain, 0)) = 0
      /\ \A k : LastOf(SpeakingIn(chain, 0, k)) = 0
  <2>1. \A f : SettingIn(chain, 0, f) = {} BY <1>6 DEF SettingIn
  <2>2. DroppingIn(chain, 0) = {} BY <1>6 DEF DroppingIn
  <2>3. \A k : SpeakingIn(chain, 0, k) = {} BY <1>6 DEF SpeakingIn
  <2>4. QED BY <1>7, <2>1, <2>2, <2>3
<1>9. SetsSettled(e, chain, 0, c.values) BY <1>3, <1>8 DEF SetsSettled
<1>10. ExtraSettled(e, chain, 0)
  <2>1. DOMAIN e.extra = {} BY <1>1
  <2>2. QED BY <1>6, <2>1 DEF ExtraSettled
<1>11. DropsSettled(e, chain, 0) BY <1>1, <1>8 DEF DropsSettled
<1>12. KnownSettled(e, chain, 0, id) BY <1>4, <1>8 DEF KnownSettled
<1>13. ExplicitSettled(e, chain, 0) BY <1>1, <1>8 DEF ExplicitSettled
<1>14. QED BY <1>1, <1>5, <1>9, <1>10, <1>11, <1>12, <1>13 DEF Settled, e

\* What finish adds is what follows from the way to fill in.
LEMMA FinishSettles ==
    ASSUME NEW chain, NEW n \in Nat, NEW v, NEW id, NEW e, Settled(e, chain, n, v, id)
    PROVE  /\ Settled(FinishEntry(e), chain, n, v, id)
           /\ LastOf(SpeakingIn(chain, n, "insert")) = 0 =>
                FinishEntry(e).knows["insert"] =
                   IF FinishEntry(e).sets["fim"] = "off" THEN "unknown" ELSE "yes"
<1> DEFINE f == FinishEntry(e)
<1>1. /\ IsEntry(e) /\ e.target = id /\ SetsSettled(e, chain, n, v) /\ ExtraSettled(e, chain, n)
      /\ DropsSettled(e, chain, n) /\ KnownSettled(e, chain, n, id) /\ ExplicitSettled(e, chain, n)
  BY DEF Settled
<1>2. CASE e.explicit
  <2>1. f = e BY <1>2 DEF FinishEntry
  <2>2. LastOf(SpeakingIn(chain, n, "insert")) # 0 BY <1>1, <1>2 DEF ExplicitSettled
  <2> HIDE DEF f
  <2>3. Settled(f, chain, n, v, id) BY <2>1
  <2>4. QED BY <2>2, <2>3 DEF f
<1>3. CASE ~e.explicit
  <2> DEFINE way == IF e.sets.fim = "off" THEN "unknown" ELSE "yes"
  <2>1. f = [e EXCEPT !.knows.insert = way] BY <1>3 DEF FinishEntry
  <2> HIDE DEF f, way
  <2>2. /\ DOMAIN e = {"target", "sets", "drops", "extra", "knows", "explicit"}
        /\ DOMAIN e.knows = Capabilities /\ DOMAIN e.sets = Fields
    BY <1>1 DEF IsEntry
  <2>3. /\ f.target = e.target /\ f.sets = e.sets /\ f.drops = e.drops /\ f.extra = e.extra
        /\ f = [target |-> f.target, sets |-> f.sets, drops |-> f.drops, extra |-> f.extra,
                knows |-> f.knows, explicit |-> f.explicit]
    BY <2>1, <2>2
  <2>4. f.explicit = e.explicit BY <2>1, <2>2
  <2>5. f.knows = [e.knows EXCEPT !["insert"] = way] BY <2>1, <2>2
  <2>6. /\ f.knows = [c \in Capabilities |-> f.knows[c]]
        /\ f.knows["insert"] = way /\ f.knows["tools"] = e.knows["tools"]
    BY <2>2, <2>5 DEF Capabilities
  <2>7. IsEntry(f) BY <2>2, <2>3, <2>6 DEF IsEntry
  <2>8. SetsSettled(f, chain, n, v) BY <1>1, <2>3 DEF SetsSettled
  <2>9. ExtraSettled(f, chain, n) BY <1>1, <2>3 DEF ExtraSettled
  <2>10. DropsSettled(f, chain, n) BY <1>1, <2>3 DEF DropsSettled
  <2>11. LastOf(SpeakingIn(chain, n, "insert")) = 0 BY <1>1, <1>3 DEF ExplicitSettled
  <2>12. KnownSettled(f, chain, n, id)
    <3>1. \A c \in Capabilities : c = "insert" \/ f.knows[c] = e.knows[c]
      BY <2>6 DEF Capabilities
    <3>2. QED BY <1>1, <2>6, <2>11, <3>1 DEF KnownSettled
  <2>13. ExplicitSettled(f, chain, n)
    <3>1. ~f.explicit BY <1>3, <2>4
    <3>2. QED BY <2>11, <3>1 DEF ExplicitSettled
  <2>14. Settled(f, chain, n, v, id)
    BY <1>1, <2>3, <2>7, <2>8, <2>9, <2>10, <2>12, <2>13 DEF Settled
  <2>15. f.knows["insert"] = IF f.sets["fim"] = "off" THEN "unknown" ELSE "yes"
    BY <2>3, <2>6 DEF way
  <2>16. QED BY <2>14, <2>15 DEF f
<1>4. QED BY <1>2, <1>3

\* The overrides, of which those that do not match are as good as none.
LEMMA OverridesSettle ==
    ASSUME NEW c, NEW id, DOMAIN c.values = Keys, AreOverrides(c.overrides), NEW chain,
           \A k \in 1 .. Len(c.overrides) :
              chain[k] = IF id \in c.overrides[k].match THEN c.overrides[k].behavior ELSE NoBehavior
    PROVE  /\ Settled(ForModel(c, id), chain, Len(c.overrides), c.values, id)
           /\ LastOf(SpeakingIn(chain, Len(c.overrides), "insert")) = 0 =>
                ForModel(c, id).knows["insert"] =
                   IF ForModel(c, id).sets["fim"] = "off" THEN "unknown" ELSE "yes"
<1> DEFINE list == c.overrides
           base == BaseEntry(c, id)
           last == Len(c.overrides)
<1>1. IsList(list) /\ last \in Nat /\ \A k \in 1 .. last : IsBehavior(list[k].behavior)
  BY ListFacts DEF AreOverrides
<1>2. PICK f : StepsOf("override", base, list, id, last, f) /\ Overridden(base, list, id) = f[last]
  BY <1>1, OverriddenByStep
<1> DEFINE S == {n \in Nat : n <= last => Settled(f[n], chain, n, c.values, id)}
<1>3. f[0] = base /\ \A k \in 1 .. last : f[k] = Override(f[k - 1], list[k], id)
  BY <1>2 DEF StepsOf, StepOf
<1>4. Settled(base, chain, 0, c.values, id) BY BaseSettles
<1>5. \A k \in 1 .. last :
         chain[k] = IF id \in list[k].match THEN list[k].behavior ELSE NoBehavior
  OBVIOUS
<1>6. ForModel(c, id) = FinishEntry(Overridden(base, list, id)) BY DEF ForModel
<1> HIDE DEF base, list, last
<1>7. 0 \in S BY <1>3, <1>4
<1>8. ASSUME NEW n \in Nat, n \in S PROVE n + 1 \in S
  <2> SUFFICES ASSUME n + 1 <= last PROVE Settled(f[n + 1], chain, n + 1, c.values, id)
    OBVIOUS
  <2>1. n + 1 \in 1 .. last /\ (n + 1) - 1 = n /\ n <= last BY <1>1
  <2>2. Settled(f[n], chain, n, c.values, id) BY <1>8, <2>1
  <2>3. f[n + 1] = Override(f[n], list[n + 1], id) BY <1>3, <2>1
  <2>4. CASE id \in list[n + 1].match
    <3>1. f[n + 1] = Apply(f[n], list[n + 1].behavior) BY <2>3, <2>4 DEF Override
    <3>2. chain[n + 1] = list[n + 1].behavior BY <1>5, <2>1, <2>4
    <3>3. IsBehavior(list[n + 1].behavior) BY <1>1, <2>1
    <3> DEFINE b == list[n + 1].behavior
               e == f[n]
               v == c.values
    <3>4. chain[n + 1] = b /\ IsBehavior(b) /\ Settled(e, chain, n, v, id) /\ f[n + 1] = Apply(e, b)
      BY <2>2, <3>1, <3>2, <3>3
    <3> HIDE DEF b, e, v
    <3>5. Settled(Apply(e, b), chain, n + 1, v, id) BY <3>4, ApplySettles
    <3>6. QED BY <3>4, <3>5 DEF v
  <2>5. CASE id \notin list[n + 1].match
    <3>1. f[n + 1] = f[n] BY <2>3, <2>5 DEF Override
    <3>2. chain[n + 1] = NoBehavior BY <1>5, <2>1, <2>5
    <3> DEFINE e == f[n]
               v == c.values
    <3>3. Settled(e, chain, n, v, id) /\ f[n + 1] = e BY <2>2, <3>1
    <3> HIDE DEF e, v
    <3>4. Settled(e, chain, n + 1, v, id) BY <3>2, <3>3, NothingSettles
    <3>5. QED BY <3>3, <3>4 DEF v
  <2>6. QED BY <2>4, <2>5
<1> HIDE DEF S
<1>9. Nat \subseteq S BY <1>7, <1>8, NatInclusion
<1>10. Settled(f[last], chain, last, c.values, id)
  <2>1. last \in S /\ last <= last BY <1>1, <1>9
  <2>2. QED BY <2>1 DEF S
<1> DEFINE e == f[last]
           v == c.values
<1>11. Settled(e, chain, last, v, id) /\ ForModel(c, id) = FinishEntry(e) BY <1>2, <1>6, <1>10
<1> HIDE DEF e, v
<1>12. /\ Settled(FinishEntry(e), chain, last, v, id)
       /\ LastOf(SpeakingIn(chain, last, "insert")) = 0 =>
             FinishEntry(e).knows["insert"] =
                IF FinishEntry(e).sets["fim"] = "off" THEN "unknown" ELSE "yes"
  BY <1>1, <1>11, FinishSettles
<1>13. QED BY <1>11, <1>12 DEF last, v

\* What is settled is what the last behavior says.
LEMMA SettledPrevails ==
    ASSUME NEW e, NEW chain, NEW n \in Nat, DOMAIN chain = 1 .. n, NEW v, NEW id,
           Settled(e, chain, n, v, id),
           LastOf(SpeakingIn(chain, n, "insert")) = 0 =>
              e.knows["insert"] = IF e.sets["fim"] = "off" THEN "unknown" ELSE "yes"
    PROVE  LastPrevails(e, chain, v)
<1>1. /\ e.target = id /\ SetsSettled(e, chain, n, v) /\ ExtraSettled(e, chain, n)
      /\ DropsSettled(e, chain, n) /\ KnownSettled(e, chain, n, id)
  BY DEF Settled
<1>2. \A f : {k \in DOMAIN chain : f \in DOMAIN chain[k].sets} = SettingIn(chain, n, f)
  BY DEF SettingIn
<1>3. \A x : {k \in DOMAIN chain : x \in DOMAIN chain[k].extra} = AddingIn(chain, n, x)
  BY DEF AddingIn
<1>4. {k \in DOMAIN chain : chain[k].drops # Unset} = DroppingIn(chain, n)
  BY DEF DroppingIn
<1>5. \A c : {k \in DOMAIN chain : chain[k].only # Unset \/ c \in chain[k].add \cup chain[k].remove}
             = SpeakingIn(chain, n, c)
  BY DEF SpeakingIn
<1>6. \A f \in Fields :
        LET p == LastOf({k \in DOMAIN chain : f \in DOMAIN chain[k].sets})
        IN  e.sets[f] = IF p = 0 THEN v[f] ELSE chain[p].sets[f]
  BY <1>1, <1>2 DEF SetsSettled
<1>7. DOMAIN e.extra = UNION {DOMAIN chain[k].extra : k \in DOMAIN chain}
  <2>1. \A x : x \in DOMAIN e.extra <=> \E k \in DOMAIN chain : x \in DOMAIN chain[k].extra
    BY <1>1 DEF ExtraSettled
  <2>2. QED BY <2>1
<1>8. \A x \in DOMAIN e.extra :
         e.extra[x] = chain[LastOf({k \in DOMAIN chain : x \in DOMAIN chain[k].extra})].extra[x]
  BY <1>1, <1>3 DEF ExtraSettled
<1>9. LET dropper == LastOf({k \in DOMAIN chain : chain[k].drops # Unset})
      IN  e.drops = IF dropper = 0 THEN Unset ELSE chain[dropper].drops
  BY <1>1, <1>4 DEF DropsSettled
<1>10. ASSUME NEW c \in Capabilities
       PROVE  LET p == LastOf({k \in DOMAIN chain :
                          chain[k].only # Unset \/ c \in chain[k].add \cup chain[k].remove})
              IN  e.knows[c] = IF p # 0 THEN IF Granted(chain[p], c) THEN "yes" ELSE "no"
                               ELSE IF c = "tools" THEN Evidence[e.target]
                               ELSE IF e.sets.fim = "off" THEN "unknown" ELSE "yes"
  <2> DEFINE p == LastOf(SpeakingIn(chain, n, c))
  <2>1. c = "tools" \/ c = "insert" BY DEF Capabilities
  <2>2. CASE p # 0
    <3>1. e.knows[c] = IF Granted(chain[p], c) THEN "yes" ELSE "no" BY <1>1, <2>2 DEF KnownSettled
    <3>2. QED BY <1>5, <2>2, <3>1
  <2>3. CASE p = 0 /\ c = "tools"
    <3>1. e.knows[c] = Evidence[id] BY <1>1, <2>3 DEF KnownSettled
    <3>2. QED BY <1>1, <1>5, <2>3, <3>1
  <2>4. CASE p = 0 /\ c = "insert"
    <3>1. e.knows[c] = IF e.sets["fim"] = "off" THEN "unknown" ELSE "yes" BY <2>4
    <3>2. QED BY <1>5, <2>4, <3>1
  <2>5. QED BY <2>1, <2>2, <2>3, <2>4
<1>11. QED BY <1>6, <1>7, <1>8, <1>9, <1>10 DEF LastPrevails, Granted
----------------------------------------------------------------------------
(* Simple aliases                                                           *)

LEMMA FullFacts ==
    ASSUME NEW name, IsName(name), NEW tag
    PROVE  /\ IsName(FullName(name, tag)) /\ Len(FullName(name, tag)) = 2
           /\ FullName(FullName(name, tag), tag) = FullName(name, tag)
<1> DEFINE full == FullName(name, tag)
<1>1. IsName(full) /\ Len(full) = 2
  <2>1. CASE Len(name) = 1
    <3>1. full = Append(name, tag) BY <2>1 DEF FullName
    <3>2. IsList(name) BY DEF IsName
    <3>3. IsList(Append(name, tag)) /\ Len(Append(name, tag)) = Len(name) + 1
      BY <3>2, AppendFacts
    <3>4. IsList(full) /\ Len(full) = 2 BY <2>1, <3>1, <3>3
    <3>5. QED BY <3>4 DEF IsName
  <2>2. CASE Len(name) = 2
    <3>1. full = name BY <2>2 DEF FullName
    <3>2. QED BY <2>2, <3>1
  <2>3. QED BY <2>1, <2>2 DEF IsName
<1>2. FullName(full, tag) = full
  <2> HIDE DEF full
  <2>1. QED BY <1>1 DEF FullName
<1>3. QED BY <1>1, <1>2

\* The name in full of the k-th alias or pair of a list, and who has a name.
NameAt(list, k, tag) == FullName(list[k].name, tag)
Naming(list, name, tag) == {k \in 1 .. Len(list) : NameAt(list, k, tag) = name}

IsAlias(a) ==
    /\ a = [name |-> a.name, target |-> a.target, behavior |-> a.behavior]
    /\ IsName(a.name) /\ IsBehavior(a.behavior)
AreAliases(list) == IsList(list) /\ \A k \in 1 .. Len(list) : IsAlias(list[k])

\* What the first n pairs make of some aliases: these stay, with their behavior, behind
\* them stand new ones, and a pair decides the target of the alias of its name, or of
\* another one of that name.
NamesKept(aliases, list) ==
    /\ Len(aliases) <= Len(list)
    /\ \A k \in 1 .. Len(aliases) :
          list[k].name = aliases[k].name /\ list[k].behavior = aliases[k].behavior
NewBehind(aliases, list, pairs, n, tag) ==
    \A k \in 1 .. Len(list) : k > Len(aliases) =>
        /\ list[k].behavior = NoBehavior
        /\ \A j \in 1 .. Len(aliases) : NameAt(aliases, j, tag) # NameAt(list, k, tag)
        /\ \E m \in 1 .. n : NameAt(pairs, m, tag) = NameAt(list, k, tag)
PairsNamed(list, pairs, n, tag) ==
    \A m \in 1 .. n : \E k \in 1 .. Len(list) : NameAt(list, k, tag) = NameAt(pairs, m, tag)
FromPair(list, k, pairs, n, tag) ==
    \E m \in 1 .. n :
        NameAt(pairs, m, tag) = NameAt(list, k, tag) /\ list[k].target = pairs[m].target
FromAlias(aliases, list, k, pairs, n, tag) ==
    /\ k <= Len(aliases) /\ list[k].target = aliases[k].target
    /\ \/ \A m \in 1 .. n : NameAt(pairs, m, tag) # NameAt(list, k, tag)
       \/ \E j \in 1 .. Len(list) : j # k /\ NameAt(list, j, tag) = NameAt(list, k, tag)
Targeted(aliases, list, pairs, n, tag) ==
    \A k \in 1 .. Len(list) :
        FromPair(list, k, pairs, n, tag) \/ FromAlias(aliases, list, k, pairs, n, tag)

TakenOver(aliases, list, pairs, n, tag) ==
    /\ AreAliases(list) /\ NamesKept(aliases, list) /\ NewBehind(aliases, list, pairs, n, tag)
    /\ PairsNamed(list, pairs, n, tag) /\ Targeted(aliases, list, pairs, n, tag)

FirstNamed(list, name, tag) == SelectInSeq(list, LAMBDA a : FullName(a.name, tag) = name)

LEMMA SelectFacts ==
    ASSUME NEW list, IsList(list), NEW name, NEW tag
    PROVE  /\ FirstNamed(list, name, tag) # 0 =>
                 /\ FirstNamed(list, name, tag) \in 1 .. Len(list)
                 /\ NameAt(list, FirstNamed(list, name, tag), tag) = name
           /\ FirstNamed(list, name, tag) = 0 =>
                 \A k \in 1 .. Len(list) : NameAt(list, k, tag) # name
<1> DEFINE i == FirstNamed(list, name, tag)
           places == Naming(list, name, tag)
<1>1. i = IF places # {} THEN Min(places) ELSE 0
  BY DEF FirstNamed, SelectInSeq, Naming, NameAt
<1>2. places \subseteq 1 .. Len(list) /\ \A k \in places : NameAt(list, k, tag) = name
  BY DEF Naming
<1>3. \A k \in 1 .. Len(list) : NameAt(list, k, tag) = name => k \in places BY DEF Naming
<1>4. Len(list) \in Nat BY ListFacts
<1> HIDE DEF i, places
<1>5. CASE places # {}
  <2>1. places \in SUBSET Nat BY <1>2, <1>4
  <2>2. \E x \in places : \A y \in places : x <= y BY <1>5, <2>1, Least
  <2>3. Min(places) \in places BY <2>2 DEF Min
  <2>4. i \in 1 .. Len(list) /\ NameAt(list, i, tag) = name BY <1>1, <1>2, <1>5, <2>3
  <2>5. i # 0 BY <1>4, <2>4
  <2>6. QED BY <2>4, <2>5 DEF i
<1>6. CASE places = {}
  <2>1. i = 0 /\ \A k \in 1 .. Len(list) : NameAt(list, k, tag) # name BY <1>1, <1>3, <1>6
  <2>2. QED BY <2>1 DEF i
<1>7. QED BY <1>5, <1>6

LEMMA EmptyBehavior == IsBehavior(NoBehavior)
BY DEF IsBehavior, NoBehavior

\* One more pair.
LEMMA TakeNext ==
    ASSUME NEW aliases, Len(aliases) \in Nat, NEW list, NEW pairs, NEW n \in Nat, NEW tag,
           TakenOver(aliases, list, pairs, n, tag), IsName(pairs[n + 1].name)
    PROVE  TakenOver(aliases, Take(list, pairs[n + 1], tag), pairs, n + 1, tag)
<1> DEFINE pair == pairs[n + 1]
           name == FullName(pair.name, tag)
           i == FirstNamed(list, name, tag)
           fresh == [name |-> name, target |-> pair.target, behavior |-> NoBehavior]
           last == Len(list)
           new == Take(list, pair, tag)
<1>1. new = IF i # 0 THEN [list EXCEPT ![i].target = pair.target] ELSE Append(list, fresh)
  BY DEF Take, FirstNamed
<1>2. /\ IsList(list) /\ last \in Nat /\ DOMAIN list = 1 .. last
      /\ \A k \in 1 .. last : IsAlias(list[k])
  BY ListFacts DEF TakenOver, AreAliases
<1>3. /\ i # 0 => i \in 1 .. last /\ NameAt(list, i, tag) = name
      /\ i = 0 => \A k \in 1 .. last : NameAt(list, k, tag) # name
  BY <1>2, SelectFacts
<1>4. IsName(name) /\ FullName(name, tag) = name /\ NameAt(pairs, n + 1, tag) = name
  BY FullFacts DEF NameAt
<1>5. \A m : m \in 1 .. n + 1 <=> m \in 1 .. n \/ m = n + 1 OBVIOUS
<1>6. /\ NamesKept(aliases, list) /\ NewBehind(aliases, list, pairs, n, tag)
      /\ PairsNamed(list, pairs, n, tag) /\ Targeted(aliases, list, pairs, n, tag)
  BY DEF TakenOver
<1>7. pairs[n + 1].target = pair.target OBVIOUS
<1> HIDE DEF i, last, name, pair
<1>8. CASE i # 0
  <2> DEFINE target == pair.target
  <2>0. i \in 1 .. last /\ NameAt(list, i, tag) = name BY <1>3, <1>8
  <2>1. new = [list EXCEPT ![i] = [list[i] EXCEPT !.target = target]]
    BY <1>1, <1>8
  <2>2. list[i] = [name |-> list[i].name, target |-> list[i].target, behavior |-> list[i].behavior]
    BY <1>2, <2>0 DEF IsAlias
  <2> DEFINE changed == [list[i] EXCEPT !.target = target]
  <2>3. /\ changed.name = list[i].name /\ changed.behavior = list[i].behavior
        /\ changed.target = target
        /\ changed = [name |-> changed.name, target |-> changed.target,
                      behavior |-> changed.behavior]
    BY <2>2
  <2> HIDE DEF new, changed
  <2>4. /\ DOMAIN new = 1 .. last /\ new[i] = changed
        /\ \A k \in 1 .. last : k # i => new[k] = list[k]
        /\ new = [k \in 1 .. last |-> new[k]]
    BY <1>2, <2>0, <2>1 DEF changed
  <2>5. IsList(new) /\ Len(new) = last
    <3>1. \A k \in 1 .. last : new[k] \in ToSet(new) BY <2>4 DEF ToSet
    <3>2. new \in [1 .. last -> ToSet(new)] BY <2>4, <3>1
    <3>3. new \in Seq(ToSet(new)) BY <1>2, <3>2
    <3>4. Len(new) = last BY <1>2, <2>4, <3>3
    <3>5. QED BY <3>3, <3>4 DEF IsList
  <2>6. \A k \in 1 .. last : new[k].name = list[k].name /\ new[k].behavior = list[k].behavior
    BY <2>3, <2>4
  <2>7. \A k \in 1 .. last : NameAt(new, k, tag) = NameAt(list, k, tag)
    BY <2>6 DEF NameAt
  <2>8. AreAliases(new)
    <3>1. ASSUME NEW k \in 1 .. last PROVE IsAlias(new[k])
      <4>1. IsAlias(list[k]) BY <1>2
      <4>2. CASE k = i BY <2>3, <2>4, <4>1, <4>2 DEF IsAlias
      <4>3. CASE k # i BY <2>4, <4>1, <4>3
      <4>4. QED BY <4>2, <4>3
    <3>2. QED BY <2>5, <3>1 DEF AreAliases
  <2>9. NamesKept(aliases, new)
    <3>1. Len(aliases) <= last BY <1>6 DEF NamesKept, last
    <3>2. \A k \in 1 .. Len(aliases) : k \in 1 .. last BY <1>2, <3>1
    <3>3. QED BY <1>6, <2>5, <2>6, <3>1, <3>2 DEF NamesKept
  <2>10. NewBehind(aliases, new, pairs, n + 1, tag)
    <3> SUFFICES ASSUME NEW k \in 1 .. last, k > Len(aliases)
                 PROVE  /\ new[k].behavior = NoBehavior
                        /\ \A j \in 1 .. Len(aliases) : NameAt(aliases, j, tag) # NameAt(new, k, tag)
                        /\ \E m \in 1 .. n + 1 : NameAt(pairs, m, tag) = NameAt(new, k, tag)
      BY <2>5 DEF NewBehind
    <3>1. /\ list[k].behavior = NoBehavior
          /\ \A j \in 1 .. Len(aliases) : NameAt(aliases, j, tag) # NameAt(list, k, tag)
          /\ \E m \in 1 .. n : NameAt(pairs, m, tag) = NameAt(list, k, tag)
      BY <1>6 DEF NewBehind, last
    <3>2. QED BY <1>5, <2>6, <2>7, <3>1
  <2>11. PairsNamed(new, pairs, n + 1, tag)
    <3> SUFFICES ASSUME NEW m \in 1 .. n + 1
                 PROVE  \E k \in 1 .. last : NameAt(new, k, tag) = NameAt(pairs, m, tag)
      BY <2>5 DEF PairsNamed
    <3>1. CASE m = n + 1 BY <1>4, <2>0, <2>7, <3>1
    <3>2. CASE m \in 1 .. n
      <4>1. \E k \in 1 .. last : NameAt(list, k, tag) = NameAt(pairs, m, tag)
        BY <1>6, <3>2 DEF PairsNamed, last
      <4>2. QED BY <2>7, <4>1
    <3>3. QED BY <1>5, <3>1, <3>2
  <2>12. Targeted(aliases, new, pairs, n + 1, tag)
    <3> SUFFICES ASSUME NEW k \in 1 .. last
                 PROVE  FromPair(new, k, pairs, n + 1, tag) \/ FromAlias(aliases, new, k, pairs, n + 1, tag)
      BY <2>5 DEF Targeted
    <3>1. CASE k = i
      <4>1. new[k].target = pairs[n + 1].target BY <1>7, <2>3, <2>4, <3>1
      <4>2. NameAt(pairs, n + 1, tag) = NameAt(new, k, tag) BY <1>4, <2>0, <2>7, <3>1
      <4>3. QED BY <1>5, <4>1, <4>2 DEF FromPair
    <3>2. CASE k # i
      <4>1. new[k].target = list[k].target BY <2>4, <3>2
      <4>2. CASE FromPair(list, k, pairs, n, tag)
        <5>1. FromPair(new, k, pairs, n + 1, tag) BY <1>5, <2>7, <4>1, <4>2 DEF FromPair
        <5>2. QED BY <5>1
      <4>3. CASE FromAlias(aliases, list, k, pairs, n, tag)
        <5>1. CASE NameAt(list, k, tag) = name
          <6>1. i # k /\ NameAt(new, i, tag) = NameAt(new, k, tag) /\ i \in 1 .. Len(new)
            BY <2>0, <2>5, <2>7, <3>2, <5>1
          <6>2. FromAlias(aliases, new, k, pairs, n + 1, tag)
            BY <4>1, <4>3, <6>1 DEF FromAlias
          <6>3. QED BY <6>2
        <5>2. CASE NameAt(list, k, tag) # name
          <6>1. CASE \A m \in 1 .. n : NameAt(pairs, m, tag) # NameAt(list, k, tag)
            <7>1. \A m \in 1 .. n + 1 : NameAt(pairs, m, tag) # NameAt(new, k, tag)
              BY <1>4, <1>5, <2>7, <5>2, <6>1
            <7>2. FromAlias(aliases, new, k, pairs, n + 1, tag) BY <4>1, <4>3, <7>1 DEF FromAlias
            <7>3. QED BY <7>2
          <6>2. CASE \E j \in 1 .. Len(list) : j # k /\ NameAt(list, j, tag) = NameAt(list, k, tag)
            <7>1. \E j \in 1 .. Len(new) : j # k /\ NameAt(new, j, tag) = NameAt(new, k, tag)
              BY <2>5, <2>7, <6>2 DEF last
            <7>2. FromAlias(aliases, new, k, pairs, n + 1, tag) BY <4>1, <4>3, <7>1 DEF FromAlias
            <7>3. QED BY <7>2
          <6>3. QED BY <4>3, <6>1, <6>2 DEF FromAlias
        <5>3. QED BY <5>1, <5>2
      <4>4. QED BY <1>6, <4>2, <4>3 DEF Targeted, last
    <3>3. QED BY <3>1, <3>2
  <2>13. TakenOver(aliases, new, pairs, n + 1, tag)
    BY <2>8, <2>9, <2>10, <2>11, <2>12 DEF TakenOver
  <2>14. QED BY <2>13 DEF new, pair
<1>9. CASE i = 0
  <2>1. new = Append(list, fresh) BY <1>1, <1>9
  <2>2. /\ fresh.name = name /\ fresh.target = pair.target /\ fresh.behavior = NoBehavior
        /\ IsAlias(fresh)
    BY <1>4, EmptyBehavior DEF IsAlias
  <2> HIDE DEF fresh, new
  <2>3. /\ IsList(new) /\ Len(new) = last + 1 /\ new[last + 1] = fresh
        /\ \A k \in 1 .. last : new[k] = list[k]
    BY <1>2, <2>1, AppendFacts DEF last
  <2>4. \A k : k \in 1 .. last + 1 <=> k \in 1 .. last \/ k = last + 1 BY <1>2
  <2>5. \A k \in 1 .. last : NameAt(new, k, tag) = NameAt(list, k, tag) BY <2>3 DEF NameAt
  <2>6. NameAt(new, last + 1, tag) = name BY <1>4, <2>2, <2>3 DEF NameAt
  <2>7. AreAliases(new) BY <1>2, <2>2, <2>3, <2>4 DEF AreAliases
  <2>8. NamesKept(aliases, new)
    <3>1. Len(aliases) <= last BY <1>6 DEF NamesKept, last
    <3>2. \A k \in 1 .. Len(aliases) : k \in 1 .. last BY <1>2, <3>1
    <3>3. Len(aliases) <= last + 1 BY <1>2, <3>1
    <3>4. QED BY <1>6, <2>3, <3>2, <3>3 DEF NamesKept
  <2>9. NewBehind(aliases, new, pairs, n + 1, tag)
    <3> SUFFICES ASSUME NEW k \in 1 .. last + 1, k > Len(aliases)
                 PROVE  /\ new[k].behavior = NoBehavior
                        /\ \A j \in 1 .. Len(aliases) : NameAt(aliases, j, tag) # NameAt(new, k, tag)
                        /\ \E m \in 1 .. n + 1 : NameAt(pairs, m, tag) = NameAt(new, k, tag)
      BY <2>3 DEF NewBehind
    <3>1. CASE k \in 1 .. last
      <4>1. /\ list[k].behavior = NoBehavior
            /\ \A j \in 1 .. Len(aliases) : NameAt(aliases, j, tag) # NameAt(list, k, tag)
            /\ \E m \in 1 .. n : NameAt(pairs, m, tag) = NameAt(list, k, tag)
        BY <1>6, <3>1 DEF NewBehind, last
      <4>2. QED BY <1>5, <2>3, <2>5, <3>1, <4>1
    <3>2. CASE k = last + 1
      <4>1. Len(aliases) <= last BY <1>6 DEF NamesKept, last
      <4>2. ASSUME NEW j \in 1 .. Len(aliases) PROVE NameAt(aliases, j, tag) # name
        <5>1. j \in 1 .. last BY <1>2, <4>1
        <5>2. NameAt(aliases, j, tag) = NameAt(list, j, tag) BY <1>6 DEF NamesKept, NameAt
        <5>3. QED BY <1>3, <1>9, <5>1, <5>2
      <4>3. QED BY <1>4, <1>5, <2>2, <2>3, <2>6, <3>2, <4>2
    <3>3. QED BY <2>4, <3>1, <3>2
  <2>10. PairsNamed(new, pairs, n + 1, tag)
    <3> SUFFICES ASSUME NEW m \in 1 .. n + 1
                 PROVE  \E k \in 1 .. last + 1 : NameAt(new, k, tag) = NameAt(pairs, m, tag)
      BY <2>3 DEF PairsNamed
    <3>1. CASE m = n + 1 BY <1>4, <2>4, <2>6, <3>1
    <3>2. CASE m \in 1 .. n
      <4>1. \E k \in 1 .. last : NameAt(list, k, tag) = NameAt(pairs, m, tag)
        BY <1>6, <3>2 DEF PairsNamed, last
      <4>2. QED BY <2>4, <2>5, <4>1
    <3>3. QED BY <1>5, <3>1, <3>2
  <2>11. Targeted(aliases, new, pairs, n + 1, tag)
    <3> SUFFICES ASSUME NEW k \in 1 .. last + 1
                 PROVE  FromPair(new, k, pairs, n + 1, tag) \/ FromAlias(aliases, new, k, pairs, n + 1, tag)
      BY <2>3 DEF Targeted
    <3>1. CASE k = last + 1
      <4>1. new[k].target = pairs[n + 1].target BY <1>7, <2>2, <2>3, <3>1
      <4>2. NameAt(pairs, n + 1, tag) = NameAt(new, k, tag) BY <1>4, <2>6, <3>1
      <4>3. QED BY <1>5, <4>1, <4>2 DEF FromPair
    <3>2. CASE k \in 1 .. last
      <4>1. new[k].target = list[k].target BY <2>3, <3>2
      <4>2. CASE FromPair(list, k, pairs, n, tag)
        <5>1. FromPair(new, k, pairs, n + 1, tag) BY <1>5, <2>5, <3>2, <4>1, <4>2 DEF FromPair
        <5>2. QED BY <5>1
      <4>3. CASE FromAlias(aliases, list, k, pairs, n, tag)
        <5>1. CASE \A m \in 1 .. n : NameAt(pairs, m, tag) # NameAt(list, k, tag)
          <6>1. \A m \in 1 .. n + 1 : NameAt(pairs, m, tag) # NameAt(new, k, tag)
            BY <1>3, <1>4, <1>5, <1>9, <2>5, <3>2, <5>1
          <6>2. FromAlias(aliases, new, k, pairs, n + 1, tag) BY <4>1, <4>3, <6>1 DEF FromAlias
          <6>3. QED BY <6>2
        <5>2. CASE \E j \in 1 .. Len(list) : j # k /\ NameAt(list, j, tag) = NameAt(list, k, tag)
          <6>1. \E j \in 1 .. Len(new) : j # k /\ NameAt(new, j, tag) = NameAt(new, k, tag)
            BY <2>3, <2>4, <2>5, <3>2, <5>2 DEF last
          <6>2. FromAlias(aliases, new, k, pairs, n + 1, tag) BY <4>1, <4>3, <6>1 DEF FromAlias
          <6>3. QED BY <6>2
        <5>3. QED BY <4>3, <5>1, <5>2 DEF FromAlias
      <4>4. QED BY <1>6, <3>2, <4>2, <4>3 DEF Targeted, last
    <3>3. QED BY <2>4, <3>1, <3>2
  <2>12. TakenOver(aliases, new, pairs, n + 1, tag)
    BY <2>7, <2>8, <2>9, <2>10, <2>11 DEF TakenOver
  <2>13. QED BY <2>12 DEF new, pair
<1>10. QED BY <1>8, <1>9

LEMMA TakeStart ==
    ASSUME NEW aliases, AreAliases(aliases), NEW pairs, NEW tag
    PROVE  TakenOver(aliases, aliases, pairs, 0, tag)
<1>1. Len(aliases) \in Nat BY ListFacts DEF AreAliases
<1>2. 1 .. 0 = {} OBVIOUS
<1>3. NamesKept(aliases, aliases) BY <1>1 DEF NamesKept
<1>4. NewBehind(aliases, aliases, pairs, 0, tag) BY <1>1 DEF NewBehind
<1>5. PairsNamed(aliases, pairs, 0, tag) BY <1>2 DEF PairsNamed
<1>6. Targeted(aliases, aliases, pairs, 0, tag) BY <1>1, <1>2 DEF Targeted, FromAlias
<1>7. QED BY <1>3, <1>4, <1>5, <1>6 DEF TakenOver

LEMMA TakeAll ==
    ASSUME NEW aliases, AreAliases(aliases), NEW pairs, ArePairs(pairs), NEW tag
    PROVE  TakenOver(aliases, TakeOver(aliases, pairs, tag), pairs, Len(pairs), tag)
<1> DEFINE last == Len(pairs)
<1>1. IsList(pairs) /\ last \in Nat /\ \A k \in 1 .. last : IsName(pairs[k].name)
  BY ListFacts DEF ArePairs
<1>2. PICK f : /\ StepsOf("take", aliases, pairs, tag, last, f)
               /\ TakeOver(aliases, pairs, tag) = f[last]
  BY <1>1, TakeOverByStep
<1>3. f[0] = aliases /\ \A k \in 1 .. last : f[k] = Take(f[k - 1], pairs[k], tag)
  BY <1>2 DEF StepsOf, StepOf
<1>4. TakenOver(aliases, aliases, pairs, 0, tag) BY TakeStart
<1>5. Len(aliases) \in Nat BY ListFacts DEF AreAliases
<1> HIDE DEF last
<1> DEFINE S == {n \in Nat : n <= last => TakenOver(aliases, f[n], pairs, n, tag)}
<1>6. 0 \in S BY <1>3, <1>4
<1>7. ASSUME NEW n \in Nat, n \in S PROVE n + 1 \in S
  <2> SUFFICES ASSUME n + 1 <= last PROVE TakenOver(aliases, f[n + 1], pairs, n + 1, tag)
    OBVIOUS
  <2>1. n + 1 \in 1 .. last /\ (n + 1) - 1 = n /\ n <= last BY <1>1
  <2>2. f[n + 1] = Take(f[n], pairs[n + 1], tag) /\ IsName(pairs[n + 1].name)
    BY <1>1, <1>3, <2>1
  <2> DEFINE list == f[n]
  <2>3. TakenOver(aliases, list, pairs, n, tag) /\ f[n + 1] = Take(list, pairs[n + 1], tag)
    BY <1>7, <2>1, <2>2
  <2> HIDE DEF list
  <2>4. TakenOver(aliases, Take(list, pairs[n + 1], tag), pairs, n + 1, tag)
    BY <1>5, <2>2, <2>3, TakeNext
  <2>5. QED BY <2>3, <2>4
<1> HIDE DEF S
<1>8. Nat \subseteq S BY <1>6, <1>7, NatInclusion
<1>9. last \in S /\ last <= last BY <1>1, <1>8
<1>10. TakenOver(aliases, f[last], pairs, last, tag) BY <1>9 DEF S
<1>11. QED BY <1>2, <1>10 DEF last

\* Two layers of pairs over the aliases of a file, where no name is there twice: the
\* upper layer that has a name decides its target, the file its behavior.
\* The names of a list are those of three, and each of its aliases has the target of the
\* highest list that has its name, and the behavior of the lowest.
NamesOfThree(list, high, low, aliases, tag) ==
    \A name : Naming(list, name, tag) # {} <=>
        \/ Naming(high, name, tag) # {} \/ Naming(low, name, tag) # {}
        \/ Naming(aliases, name, tag) # {}
HighestPrevails(alias, name, high, low, aliases, tag) ==
    /\ Naming(high, name, tag) # {} =>
          \E m \in Naming(high, name, tag) : high[m].target = alias.target
    /\ Naming(high, name, tag) = {} /\ Naming(low, name, tag) # {} =>
          \E m \in Naming(low, name, tag) : low[m].target = alias.target
    /\ /\ Naming(high, name, tag) = {} /\ Naming(low, name, tag) = {}
       /\ Naming(aliases, name, tag) # {}
       => \E m \in Naming(aliases, name, tag) : aliases[m].target = alias.target
    /\ Naming(aliases, name, tag) = {} => alias.behavior = NoBehavior
    /\ Naming(aliases, name, tag) # {} =>
          \E m \in Naming(aliases, name, tag) : aliases[m].behavior = alias.behavior

LEMMA TwoLayers ==
    ASSUME NEW tag, NEW aliases, AreAliases(aliases), NEW low, ArePairs(low), NEW high, ArePairs(high),
           NEW mid, mid = TakeOver(aliases, low, tag), NEW list, list = TakeOver(mid, high, tag),
           \A i, j \in 1 .. Len(list) : NameAt(list, i, tag) = NameAt(list, j, tag) => i = j
    PROVE  /\ AreAliases(list) /\ NamesOfThree(list, high, low, aliases, tag)
           /\ \A k \in 1 .. Len(list) :
                 HighestPrevails(list[k], NameAt(list, k, tag), high, low, aliases, tag)
<1>1. TakenOver(aliases, mid, low, Len(low), tag) BY TakeAll
<1>2. AreAliases(mid) BY <1>1 DEF TakenOver
<1>3. TakenOver(mid, list, high, Len(high), tag) BY <1>2, TakeAll
<1>4. /\ AreAliases(list) /\ Len(list) \in Nat /\ Len(mid) \in Nat /\ Len(aliases) \in Nat
      /\ Len(aliases) <= Len(mid) /\ Len(mid) <= Len(list)
  BY <1>1, <1>2, <1>3, ListFacts DEF TakenOver, AreAliases, NamesKept
<1>5. /\ \A k \in 1 .. Len(mid) :
            /\ k \in 1 .. Len(list) /\ NameAt(list, k, tag) = NameAt(mid, k, tag)
            /\ list[k].behavior = mid[k].behavior
      /\ \A k \in 1 .. Len(aliases) :
            /\ k \in 1 .. Len(mid) /\ NameAt(mid, k, tag) = NameAt(aliases, k, tag)
            /\ mid[k].behavior = aliases[k].behavior
  <2>1. NamesKept(mid, list) /\ NamesKept(aliases, mid) BY <1>1, <1>3 DEF TakenOver
  <2>2. \A k \in 1 .. Len(mid) : k \in 1 .. Len(list) BY <1>4
  <2>3. \A k \in 1 .. Len(aliases) : k \in 1 .. Len(mid) BY <1>4
  <2>4. QED BY <2>1, <2>2, <2>3 DEF NamesKept, NameAt
<1>6. \A i, j \in 1 .. Len(mid) : NameAt(mid, i, tag) = NameAt(mid, j, tag) => i = j
  BY <1>5
<1>7. \A k \in 1 .. Len(list) : k \in 1 .. Len(mid) \/ k > Len(mid) BY <1>4
<1>8. \A k \in 1 .. Len(mid) : k \in 1 .. Len(aliases) \/ k > Len(aliases) BY <1>4
<1>9. /\ NewBehind(aliases, mid, low, Len(low), tag) /\ NewBehind(mid, list, high, Len(high), tag)
      /\ PairsNamed(mid, low, Len(low), tag) /\ PairsNamed(list, high, Len(high), tag)
      /\ Targeted(aliases, mid, low, Len(low), tag) /\ Targeted(mid, list, high, Len(high), tag)
  BY <1>1, <1>3 DEF TakenOver
<1>10. ASSUME NEW name
       PROVE  Naming(list, name, tag) # {} <=>
                 \/ Naming(high, name, tag) # {} \/ Naming(low, name, tag) # {}
                 \/ Naming(aliases, name, tag) # {}
  <2>1. ASSUME NEW k \in Naming(list, name, tag)
        PROVE  \/ Naming(high, name, tag) # {} \/ Naming(low, name, tag) # {}
               \/ Naming(aliases, name, tag) # {}
    <3>1. k \in 1 .. Len(list) /\ NameAt(list, k, tag) = name BY <2>1 DEF Naming
    <3>2. CASE k > Len(mid)
      <4>1. \E m \in 1 .. Len(high) : NameAt(high, m, tag) = name BY <1>9, <3>1, <3>2 DEF NewBehind
      <4>2. QED BY <4>1 DEF Naming
    <3>3. CASE k \in 1 .. Len(mid)
      <4>1. NameAt(mid, k, tag) = name BY <1>5, <3>1, <3>3
      <4>2. CASE k > Len(aliases)
        <5>1. \E m \in 1 .. Len(low) : NameAt(low, m, tag) = name
          BY <1>9, <3>3, <4>1, <4>2 DEF NewBehind
        <5>2. QED BY <5>1 DEF Naming
      <4>3. CASE k \in 1 .. Len(aliases)
        <5>1. NameAt(aliases, k, tag) = name BY <1>5, <4>1, <4>3
        <5>2. QED BY <4>3, <5>1 DEF Naming
      <4>4. QED BY <1>8, <3>3, <4>2, <4>3
    <3>4. QED BY <1>7, <3>1, <3>2, <3>3
  <2>2. ASSUME NEW m \in Naming(high, name, tag) PROVE Naming(list, name, tag) # {}
    <3>1. m \in 1 .. Len(high) /\ NameAt(high, m, tag) = name BY <2>2 DEF Naming
    <3>2. \E k \in 1 .. Len(list) : NameAt(list, k, tag) = name BY <1>9, <3>1 DEF PairsNamed
    <3>3. QED BY <3>2 DEF Naming
  <2>3. ASSUME NEW m \in Naming(low, name, tag) PROVE Naming(list, name, tag) # {}
    <3>1. m \in 1 .. Len(low) /\ NameAt(low, m, tag) = name BY <2>3 DEF Naming
    <3>2. \E k \in 1 .. Len(mid) : NameAt(mid, k, tag) = name BY <1>9, <3>1 DEF PairsNamed
    <3>3. \E k \in 1 .. Len(list) : NameAt(list, k, tag) = name BY <1>5, <3>2
    <3>4. QED BY <3>3 DEF Naming
  <2>4. ASSUME NEW m \in Naming(aliases, name, tag) PROVE Naming(list, name, tag) # {}
    <3>1. m \in 1 .. Len(aliases) /\ NameAt(aliases, m, tag) = name BY <2>4 DEF Naming
    <3>2. m \in 1 .. Len(list) /\ NameAt(list, m, tag) = name BY <1>5, <3>1
    <3>3. QED BY <3>2 DEF Naming
  <2>5. QED BY <2>1, <2>2, <2>3, <2>4
<1>11. ASSUME NEW k \in 1 .. Len(list)
       PROVE  HighestPrevails(list[k], NameAt(list, k, tag), high, low, aliases, tag)
  <2> DEFINE name == NameAt(list, k, tag)
  <2>1. NameAt(list, k, tag) = name OBVIOUS
  <2> HIDE DEF name
  <2>2. \/ \E m \in Naming(high, name, tag) : high[m].target = list[k].target
        \/ k \in 1 .. Len(mid) /\ list[k].target = mid[k].target /\ Naming(high, name, tag) = {}
    <3>1. CASE FromPair(list, k, high, Len(high), tag)
      BY <2>1, <3>1 DEF FromPair, Naming
    <3>2. CASE FromAlias(mid, list, k, high, Len(high), tag)
      <4>1. k \in 1 .. Len(mid) /\ list[k].target = mid[k].target BY <1>4, <3>2 DEF FromAlias
      <4>2. \A m \in 1 .. Len(high) : NameAt(high, m, tag) # name BY <2>1, <3>2 DEF FromAlias
      <4>3. QED BY <4>1, <4>2 DEF Naming
    <3>3. QED BY <1>9, <3>1, <3>2 DEF Targeted
  <2>3. k \in 1 .. Len(mid) =>
          \/ \E m \in Naming(low, name, tag) : low[m].target = mid[k].target
          \/ k \in 1 .. Len(aliases) /\ mid[k].target = aliases[k].target /\ Naming(low, name, tag) = {}
    <3> SUFFICES ASSUME k \in 1 .. Len(mid)
                 PROVE  \/ \E m \in Naming(low, name, tag) : low[m].target = mid[k].target
                        \/ k \in 1 .. Len(aliases) /\ mid[k].target = aliases[k].target
                           /\ Naming(low, name, tag) = {}
      OBVIOUS
    <3>1. NameAt(mid, k, tag) = name BY <1>5, <2>1
    <3>2. CASE FromPair(mid, k, low, Len(low), tag)
      BY <3>1, <3>2 DEF FromPair, Naming
    <3>3. CASE FromAlias(aliases, mid, k, low, Len(low), tag)
      <4>1. k \in 1 .. Len(aliases) /\ mid[k].target = aliases[k].target BY <1>4, <3>3 DEF FromAlias
      <4>2. \A m \in 1 .. Len(low) : NameAt(low, m, tag) # name BY <1>6, <3>1, <3>3 DEF FromAlias
      <4>3. QED BY <4>1, <4>2 DEF Naming
    <3>4. QED BY <1>9, <3>2, <3>3 DEF Targeted
  <2>4. k \in 1 .. Len(aliases) =>
          /\ k \in Naming(aliases, name, tag) /\ list[k].behavior = aliases[k].behavior
    BY <1>5, <2>1 DEF Naming
  <2>5. k \notin 1 .. Len(aliases) =>
          list[k].behavior = NoBehavior /\ Naming(aliases, name, tag) = {}
    <3> SUFFICES ASSUME k \notin 1 .. Len(aliases)
                 PROVE  list[k].behavior = NoBehavior /\ Naming(aliases, name, tag) = {}
      OBVIOUS
    <3>1. CASE k \in 1 .. Len(mid)
      <4>1. /\ mid[k].behavior = NoBehavior
            /\ \A j \in 1 .. Len(aliases) : NameAt(aliases, j, tag) # NameAt(mid, k, tag)
        BY <1>8, <1>9, <3>1 DEF NewBehind
      <4>2. list[k].behavior = mid[k].behavior /\ NameAt(mid, k, tag) = name BY <1>5, <2>1, <3>1
      <4>3. QED BY <4>1, <4>2 DEF Naming
    <3>2. CASE k > Len(mid)
      <4>1. /\ list[k].behavior = NoBehavior
            /\ \A j \in 1 .. Len(mid) : NameAt(mid, j, tag) # name
        BY <1>9, <2>1, <3>2 DEF NewBehind
      <4>2. \A j \in 1 .. Len(aliases) : NameAt(aliases, j, tag) # name BY <1>5, <4>1
      <4>3. QED BY <4>1, <4>2 DEF Naming
    <3>3. QED BY <1>7, <3>1, <3>2
  <2>6. /\ Naming(high, name, tag) # {} =>
              \E m \in Naming(high, name, tag) : high[m].target = list[k].target
        /\ Naming(high, name, tag) = {} /\ Naming(low, name, tag) # {} =>
              \E m \in Naming(low, name, tag) : low[m].target = list[k].target
    BY <2>2, <2>3
  <2>7. /\ Naming(high, name, tag) = {} /\ Naming(low, name, tag) = {}
        /\ Naming(aliases, name, tag) # {}
        => \E m \in Naming(aliases, name, tag) : aliases[m].target = list[k].target
    BY <2>2, <2>3, <2>4
  <2>8. /\ Naming(aliases, name, tag) = {} => list[k].behavior = NoBehavior
        /\ Naming(aliases, name, tag) # {} =>
              \E m \in Naming(aliases, name, tag) : aliases[m].behavior = list[k].behavior
    BY <2>4, <2>5
  <2>9. HighestPrevails(list[k], name, high, low, aliases, tag)
    BY <2>6, <2>7, <2>8 DEF HighestPrevails
  <2>10. QED BY <2>9 DEF name
<1>12. NamesOfThree(list, high, low, aliases, tag) BY <1>10 DEF NamesOfThree
<1>13. QED BY <1>4, <1>11, <1>12
----------------------------------------------------------------------------
(* Layers                                                                   *)

LEMMA OverLayers ==
    ASSUME NEW layer, NEW below
    PROVE  /\ DOMAIN Over(layer, below) = DOMAIN layer \cup DOMAIN below
           /\ \A k \in DOMAIN layer \cup DOMAIN below :
                 Over(layer, below)[k] = IF k \in DOMAIN layer THEN layer[k] ELSE below[k]
BY DEF Over

\* A loaded file has every key, and each from the highest layer that sets it.
LEMMA LoadedLayers ==
    ASSUME static \in Statics, NEW source \in Files
    PROVE  /\ DOMAIN Layered(source) = Keys
           /\ \A k \in Keys :
                 Layered(source)[k] =
                   IF k \in DOMAIN static.flags.sets THEN static.flags.sets[k]
                   ELSE IF k \in DOMAIN static.env.sets THEN static.env.sets[k]
                   ELSE IF k \in DOMAIN source.sets THEN source.sets[k] ELSE Defaults[k]
<1> DEFINE F == static.flags.sets
           E == static.env.sets
           S == source.sets
<1>1. DOMAIN Defaults = Keys BY DEF Defaults, Keys
<1>2. DOMAIN F \subseteq Keys /\ DOMAIN E \subseteq Keys /\ DOMAIN S \subseteq Keys
  BY LayersAssumption
<1>3. Layered(source) = Over(F, Over(E, Over(S, Defaults)))
  BY DEF Layered
<1> HIDE DEF F, E, S
<1>4. DOMAIN Over(S, Defaults) = Keys
      /\ \A k \in Keys : Over(S, Defaults)[k] = IF k \in DOMAIN S THEN S[k] ELSE Defaults[k]
  BY <1>1, <1>2 DEF Over
<1>5. DOMAIN Over(E, Over(S, Defaults)) = Keys
      /\ \A k \in Keys : Over(E, Over(S, Defaults))[k] =
            IF k \in DOMAIN E THEN E[k] ELSE Over(S, Defaults)[k]
  BY <1>2, <1>4 DEF Over
<1>6. DOMAIN Layered(source) = Keys
      /\ \A k \in Keys : Layered(source)[k] =
            IF k \in DOMAIN F THEN F[k] ELSE Over(E, Over(S, Defaults))[k]
  BY <1>2, <1>3, <1>5 DEF Over
<1>7. QED BY <1>4, <1>5, <1>6 DEF F, E, S

\* What is told of a file names that layer, and its tokens.
LEMMA ToldLayers ==
    ASSUME static \in Statics, NEW source \in Files
    PROVE  /\ Keys \subseteq DOMAIN Told(source)
           /\ \A k \in DOMAIN Told(source) : Told(source)[k] \in Layers
           /\ "auth_token" \in DOMAIN Told(source) <=> source.tokens
           /\ \A k \in Keys :
                 Told(source)[k] =
                   IF k \in DOMAIN static.flags.sets THEN "flag"
                   ELSE IF k \in DOMAIN static.env.sets THEN "env"
                   ELSE IF k \in DOMAIN source.sets THEN "toml" ELSE "default"
<1> DEFINE F == [k \in DOMAIN static.flags.sets |-> "flag"]
           E == [k \in DOMAIN static.env.sets |-> "env"]
           S == [k \in DOMAIN source.sets |-> "toml"]
           D == [k \in DOMAIN Defaults |-> "default"]
           lists == [auth_token |-> IF source.tokens THEN "toml" ELSE "none",
                     aliases |-> IF static.flags.aliases # <<>> THEN "flag"
                                 ELSE IF static.env.aliases # <<>> THEN "env"
                                 ELSE IF source.aliases # <<>> THEN "toml" ELSE "none",
                     overrides |-> IF static.env.overrides # <<>> THEN "env"
                                   ELSE IF source.overrides # <<>> THEN "toml" ELSE "none"]
           R == Restrict(lists, {k \in DOMAIN lists : lists[k] # "none"})
<1>1. Told(source) = Over(F, Over(E, Over(S, Over(D, R))))
  BY DEF Told
<1>2. /\ DOMAIN R \subseteq {"auth_token", "aliases", "overrides"}
      /\ "auth_token" \in DOMAIN R <=> source.tokens
      /\ \A k \in DOMAIN R : R[k] \in Layers
  BY DEF Restrict, Layers
<1>3. /\ DOMAIN F = DOMAIN static.flags.sets /\ DOMAIN F \subseteq Keys
      /\ DOMAIN E = DOMAIN static.env.sets /\ DOMAIN E \subseteq Keys
      /\ DOMAIN S = DOMAIN source.sets /\ DOMAIN S \subseteq Keys
      /\ DOMAIN D = Keys
  BY LayersAssumption DEF Defaults, Keys
<1>4. /\ \A k \in DOMAIN F : F[k] = "flag"
      /\ \A k \in DOMAIN E : E[k] = "env"
      /\ \A k \in DOMAIN S : S[k] = "toml"
      /\ \A k \in DOMAIN D : D[k] = "default"
  OBVIOUS
<1> HIDE DEF F, E, S, D, R
<1>5. /\ DOMAIN Over(D, R) = Keys \cup DOMAIN R
      /\ \A k \in Keys : Over(D, R)[k] = "default"
      /\ \A k \in DOMAIN R \ Keys : Over(D, R)[k] = R[k]
  BY <1>3, <1>4 DEF Over
<1>6. /\ DOMAIN Over(S, Over(D, R)) = Keys \cup DOMAIN R
      /\ \A k \in Keys : Over(S, Over(D, R))[k] = IF k \in DOMAIN S THEN "toml" ELSE "default"
      /\ \A k \in DOMAIN R \ Keys : Over(S, Over(D, R))[k] = R[k]
  BY <1>3, <1>4, <1>5 DEF Over
<1>7. /\ DOMAIN Over(E, Over(S, Over(D, R))) = Keys \cup DOMAIN R
      /\ \A k \in Keys : Over(E, Over(S, Over(D, R)))[k] =
            IF k \in DOMAIN E THEN "env" ELSE IF k \in DOMAIN S THEN "toml" ELSE "default"
      /\ \A k \in DOMAIN R \ Keys : Over(E, Over(S, Over(D, R)))[k] = R[k]
  BY <1>3, <1>4, <1>6 DEF Over
<1>8. /\ DOMAIN Told(source) = Keys \cup DOMAIN R
      /\ \A k \in Keys : Told(source)[k] =
            IF k \in DOMAIN F THEN "flag" ELSE IF k \in DOMAIN E THEN "env"
            ELSE IF k \in DOMAIN S THEN "toml" ELSE "default"
      /\ \A k \in DOMAIN R \ Keys : Told(source)[k] = R[k]
  <2> DEFINE lower == Over(E, Over(S, Over(D, R)))
             all == Over(F, lower)
  <2>1. /\ DOMAIN lower = Keys \cup DOMAIN R
        /\ \A k \in Keys : lower[k] =
              IF k \in DOMAIN E THEN "env" ELSE IF k \in DOMAIN S THEN "toml" ELSE "default"
        /\ \A k \in DOMAIN R \ Keys : lower[k] = R[k]
    BY <1>7
  <2> HIDE DEF lower
  <2>2. /\ DOMAIN all = DOMAIN F \cup DOMAIN lower
        /\ \A k \in DOMAIN F : all[k] = F[k]
        /\ \A k \in DOMAIN lower \ DOMAIN F : all[k] = lower[k]
    BY DEF Over
  <2>3. Told(source) = all BY <1>1 DEF lower
  <2> HIDE DEF all
  <2>4. DOMAIN all = Keys \cup DOMAIN R /\ \A k \in DOMAIN R \ Keys : all[k] = R[k]
    BY <1>3, <2>1, <2>2
  <2>5. \A k \in Keys : all[k] = IF k \in DOMAIN F THEN "flag" ELSE lower[k]
    BY <1>4, <2>1, <2>2
  <2>6. QED BY <2>1, <2>3, <2>4, <2>5
<1>9. "auth_token" \notin Keys BY DEF Keys
<1>10. QED BY <1>2, <1>3, <1>8, <1>9 DEF Layers

\* So the two agree.
LEMMA FileSays ==
    ASSUME static \in Statics, NEW source \in Files, NEW k \in Keys
    PROVE  FromLayer(source, k, Layered(source)[k], Told(source)[k])
<1>1. k \in DOMAIN Defaults BY DEF Defaults, Keys
<1>2. QED BY <1>1, LoadedLayers, ToldLayers DEF FromLayer

\* Whose provenance is told after a reload.
LEMMA WithAuthLayers ==
    ASSUME NEW base, NEW auth
    PROVE  /\ DOMAIN WithAuth(base, auth) = (DOMAIN auth \cap AuthKeys) \cup (DOMAIN base \ AuthKeys)
           /\ \A k \in DOMAIN auth \cap AuthKeys : WithAuth(base, auth)[k] = auth[k]
           /\ \A k \in DOMAIN base \ AuthKeys : WithAuth(base, auth)[k] = base[k]
BY DEF WithAuth, Over, Restrict

\* What the reload publishes of a file: its settings, but for the authentication and the
\* listeners in force.
LEMMA KeptLayers ==
    ASSUME static \in Statics, NEW source \in Files
    PROVE  LET kept == Kept(Loaded(source))
           IN  /\ {"values", "tokens", "aliases"} \subseteq DOMAIN kept
               /\ DOMAIN kept.values = Keys
               /\ kept.values["auth"] = config.values.auth
               /\ kept.values["listen"] = config.values.listen
               /\ \A k \in Keys \ {"auth", "listen"} : kept.values[k] = Layered(source)[k]
               /\ kept.tokens = config.tokens
               /\ kept.aliases = Loaded(source).aliases
<1>1. DOMAIN Layered(source) = Keys BY LoadedLayers
<1>2. QED BY <1>1 DEF Kept, Loaded, Keys

\* What waits for publication is read as before: nothing but what was captured at
\* startup counts.
LEMMA CandidateLater ==
    ASSUME static' = static, candidate' = candidate
    PROVE  /\ Layered(candidate[1])' = Layered(candidate[1])
           /\ (Loaded(candidate[1]).aliases)' = Loaded(candidate[1]).aliases
<1>1. Layered(candidate[1])' = Layered(candidate[1]) BY DEF Layered
<1>2. TagFor(candidate[1])' = TagFor(candidate[1]) BY <1>1 DEF TagFor
<1>3. QED BY <1>1, <1>2 DEF Loaded

\* Validity looks at these alone.
LEMMA ValidKept ==
    ASSUME static \in Statics, NEW source \in Files
    PROVE  Validates(Kept(Loaded(source))) <=>
              /\ config.values.auth # "bad"
              /\ Layered(source)["thinkInitial"] => Layered(source)["thinkTags"]
              /\ ~NamedTwice(Loaded(source).aliases, Layered(source)["tag"])
<1>1. {"auth", "tag", "thinkTags", "thinkInitial"} \subseteq Keys BY DEF Keys
<1>2. QED BY <1>1, KeptLayers DEF Validates, Keys
----------------------------------------------------------------------------
(* The invariant                                                            *)

\* At the start everything comes from one file.
LEMMA SettingsStart == SettingsInit => SettingsInv
<1> SUFFICES ASSUME SettingsInit PROVE SettingsInv
  OBVIOUS
<1>1. static \in Statics /\ file \in Files /\ config = Loaded(file) /\ provenance = Told(file)
  BY DEF SettingsInit
<1>2. SourcesOK
  BY LayersAssumption DEF SettingsInit, SourcesOK
<1>3. ShapeOK
  BY <1>1, LoadedLayers, ToldLayers DEF ShapeOK, Loaded
<1>4. LayersTold
  <2>1. ASSUME NEW k \in Keys
        PROVE  FromLayer(FileFor(k), k, config.values[k], provenance[k])
    BY <1>1, FileSays DEF FileFor, SettingsInit, Loaded
  <2>2. config.tokens = authFrom.tokens /\ ("auth_token" \in DOMAIN provenance <=> config.tokens)
    BY <1>1, ToldLayers DEF SettingsInit, Loaded
  <2>3. QED BY <2>1, <2>2 DEF LayersTold
<1>5. Validates(config) /\ CandidateFits
  BY DEF SettingsInit, CandidateFits
<1>6. QED BY <1>2, <1>3, <1>4, <1>5 DEF SettingsInv

\* A setting that is told the same of the same file stays told.
LEMMA StillTold ==
    ASSUME LayersTold, static' = static, NEW k \in Keys,
           FileFor(k)' = FileFor(k), (config.values[k])' = config.values[k],
           (provenance[k])' = provenance[k]
    PROVE  FromLayer(FileFor(k), k, config.values[k], provenance[k])'
<1>1. FromLayer(FileFor(k), k, config.values[k], provenance[k]) BY DEF LayersTold
<1>2. QED BY <1>1 DEF FromLayer

\* What reloadTokens publishes.
LEMMA AuthStep == SettingsInv /\ ReloadAuth => SettingsInv'
<1> SUFFICES ASSUME SettingsInv, ReloadAuth PROVE SettingsInv'
  OBVIOUS
<1> DEFINE updated == [config EXCEPT !.values.auth = Loaded(file).values.auth,
                                     !.tokens = Loaded(file).tokens]
<1>1. /\ Validates(updated) /\ config' = updated
      /\ provenance' = WithAuth(provenance, Told(file)) /\ authFrom' = file
      /\ UNCHANGED <<static, file, edits, entries, listed, candidate, started, restFrom>>
  BY DEF ReloadAuth
<1>2. static \in Statics /\ file \in Files
  BY DEF SettingsInv, SourcesOK
<1>3. SourcesOK'
  BY <1>1, <1>2 DEF SettingsInv, SourcesOK, NoCandidate
<1>4. /\ config'.values["auth"] = Layered(file)["auth"]
      /\ \A k \in Keys \ {"auth"} : config'.values[k] = config.values[k]
      /\ {"values", "tokens", "aliases"} \subseteq DOMAIN config' /\ DOMAIN config'.values = Keys
  BY <1>1 DEF SettingsInv, ShapeOK, Loaded, Keys
<1>5. /\ "auth" \in DOMAIN Told(file) /\ "auth" \in AuthKeys /\ "auth_token" \in AuthKeys
      /\ \A k \in Keys \ {"auth"} : k \notin AuthKeys
  BY <1>2, ToldLayers DEF Keys, AuthKeys
<1> DEFINE told == Told(file)
<1>6. provenance' = WithAuth(provenance, told)
  BY <1>1
<1>7. /\ DOMAIN provenance' = (DOMAIN told \cap AuthKeys) \cup (DOMAIN provenance \ AuthKeys)
      /\ \A k \in DOMAIN told \cap AuthKeys : provenance'[k] = told[k]
      /\ \A k \in DOMAIN provenance \ AuthKeys : provenance'[k] = provenance[k]
  BY <1>6 DEF WithAuth, Over, Restrict
<1>8. /\ \A k \in DOMAIN told : told[k] \in Layers
      /\ "auth_token" \in DOMAIN told <=> file.tokens
  BY <1>2, ToldLayers
<1> HIDE DEF told
<1>9. /\ Keys \subseteq DOMAIN provenance /\ \A k \in DOMAIN provenance : provenance[k] \in Layers
  BY DEF SettingsInv, ShapeOK
<1>10. "auth" \in DOMAIN told
  BY <1>5 DEF told
<1>11. /\ provenance'["auth"] = told["auth"]
       /\ \A k \in Keys \ {"auth"} : provenance'[k] = provenance[k]
       /\ "auth_token" \in DOMAIN provenance' <=> "auth_token" \in DOMAIN told
  <2>1. provenance'["auth"] = told["auth"]
    BY <1>5, <1>7, <1>10
  <2>2. ASSUME NEW k \in Keys \ {"auth"} PROVE provenance'[k] = provenance[k]
    BY <1>5, <1>7, <1>9
  <2>3. "auth_token" \in DOMAIN provenance' <=> "auth_token" \in DOMAIN told
    BY <1>5, <1>7
  <2>4. QED BY <2>1, <2>2, <2>3
<1>12. ShapeOK'
  <2>1. Keys \subseteq DOMAIN provenance'
    BY <1>5, <1>7, <1>9, <1>10
  <2>2. ASSUME NEW k \in DOMAIN provenance' PROVE provenance'[k] \in Layers
    <3>1. CASE k \in DOMAIN told \cap AuthKeys
      <4>1. provenance'[k] = told[k] BY <1>7, <3>1
      <4>2. QED BY <1>8, <3>1, <4>1
    <3>2. CASE k \in DOMAIN provenance \ AuthKeys
      <4>1. provenance'[k] = provenance[k] BY <1>7, <3>2
      <4>2. QED BY <1>9, <3>2, <4>1
    <3>3. QED BY <1>7, <3>1, <3>2
  <2>3. QED BY <1>4, <2>1, <2>2 DEF ShapeOK
<1>13. LayersTold'
  <2>1. ASSUME NEW k \in Keys
        PROVE  FromLayer(FileFor(k), k, config.values[k], provenance[k])'
    <3>1. CASE k = "auth"
      <4>1. FromLayer(file, k, Layered(file)[k], Told(file)[k])
        BY <1>2, FileSays
      <4>2. FileFor(k)' = file
        BY <1>1, <3>1 DEF FileFor, AuthKeys
      <4>3. QED BY <1>1, <1>4, <1>11, <3>1, <4>1, <4>2 DEF FromLayer, told
    <3>2. CASE k # "auth"
      <4>1. FileFor(k)' = FileFor(k)
        BY <1>1, <1>5, <3>2 DEF FileFor
      <4>2. (config.values[k])' = config.values[k] /\ (provenance[k])' = provenance[k]
        BY <1>4, <1>11, <3>2
      <4>3. static' = static /\ LayersTold
        BY <1>1 DEF SettingsInv
      <4>4. QED BY <4>1, <4>2, <4>3, StillTold
    <3>3. QED BY <3>1, <3>2
  <2>2. config'.tokens = authFrom'.tokens
    BY <1>1 DEF SettingsInv, ShapeOK, Loaded
  <2>3. "auth_token" \in DOMAIN provenance' <=> config'.tokens
    <3>1. "auth_token" \in DOMAIN provenance' <=> file.tokens
      BY <1>8, <1>11
    <3>2. authFrom' = file
      BY <1>1
    <3>3. QED BY <2>2, <3>1, <3>2
  <2>4. QED BY <2>1, <2>2, <2>3 DEF LayersTold
<1>14. Validates(config)'
  BY <1>1 DEF Validates
<1>15. CandidateFits'
  <2> SUFFICES ASSUME candidate # NoCandidate
               PROVE  Validates(Kept(Loaded(candidate[1])))'
    BY <1>1 DEF CandidateFits
  <2>1. candidate[1] \in Files
    BY DEF SettingsInv, SourcesOK
  <2>2. Validates(Kept(Loaded(candidate[1])))
    BY DEF SettingsInv, CandidateFits
  <2>3. /\ Layered(candidate[1])["thinkInitial"] => Layered(candidate[1])["thinkTags"]
        /\ ~NamedTwice(Loaded(candidate[1]).aliases, Layered(candidate[1])["tag"])
    BY <1>2, <2>1, <2>2, ValidKept
  <2>4. config'.values["auth"] # "bad"
    BY <1>1 DEF Validates
  <2>5. /\ Layered(candidate[1])' = Layered(candidate[1])
        /\ (Loaded(candidate[1]).aliases)' = Loaded(candidate[1]).aliases
    BY <1>1, CandidateLater
  <2>6. DOMAIN Layered(candidate[1]) = Keys
    BY <1>2, <2>1, LoadedLayers
  <2>7. /\ (Kept(Loaded(candidate[1])).values["auth"])' = config'.values["auth"]
        /\ \A k \in {"tag", "thinkTags", "thinkInitial"} :
              (Kept(Loaded(candidate[1])).values[k])' = Layered(candidate[1])[k]
        /\ (Kept(Loaded(candidate[1])).aliases)' = Loaded(candidate[1]).aliases
    BY <2>5, <2>6 DEF Kept, Loaded, Keys
  <2>8. QED BY <2>3, <2>4, <2>7 DEF Validates
<1>16. QED BY <1>3, <1>12, <1>13, <1>14, <1>15 DEF SettingsInv

\* What reloadConfig publishes, with what is in force of authentication by then.
LEMMA ConfigStep == SettingsInv /\ PublishConfig => SettingsInv'
<1> SUFFICES ASSUME SettingsInv, PublishConfig PROVE SettingsInv'
  OBVIOUS
<1> DEFINE source == candidate[1]
           told == Told(source)
           base == WithAuth(told, provenance)
<1>1. /\ candidate # NoCandidate /\ config' = Kept(Loaded(source)) /\ listed' \subseteq ModelIds
      /\ provenance' = [base EXCEPT !.listen = provenance.listen]
      /\ restFrom' = source /\ candidate' = NoCandidate
      /\ UNCHANGED <<static, file, edits, started, authFrom>>
  BY DEF PublishConfig, ToldWithKept
<1>2. static \in Statics /\ source \in Files
  BY <1>1 DEF SettingsInv, SourcesOK
<1> HIDE DEF source
<1>3. SourcesOK'
  BY <1>1, <1>2 DEF SettingsInv, SourcesOK
<1>4. /\ \A k \in DOMAIN told : told[k] \in Layers
      /\ Keys \subseteq DOMAIN told
  BY <1>2, ToldLayers
<1> HIDE DEF told
<1>5. /\ DOMAIN base = (DOMAIN provenance \cap AuthKeys) \cup (DOMAIN told \ AuthKeys)
      /\ \A k \in DOMAIN provenance \cap AuthKeys : base[k] = provenance[k]
      /\ \A k \in DOMAIN told \ AuthKeys : base[k] = told[k]
  BY DEF WithAuth, Over, Restrict
<1> HIDE DEF base
<1>6. /\ Keys \subseteq DOMAIN provenance /\ \A k \in DOMAIN provenance : provenance[k] \in Layers
  BY DEF SettingsInv, ShapeOK
<1>7. /\ "auth" \in Keys /\ "listen" \in Keys /\ "listen" \notin AuthKeys
      /\ {"auth", "auth_token"} = AuthKeys /\ Keys \cap AuthKeys = {"auth"}
  BY DEF Keys, AuthKeys
<1>8. /\ Keys \subseteq DOMAIN provenance'
      /\ \A k \in DOMAIN provenance' : provenance'[k] \in Layers
      /\ \A k \in {"auth", "listen"} : provenance'[k] = provenance[k]
      /\ \A k \in Keys \ {"auth", "listen"} : provenance'[k] = told[k]
      /\ "auth_token" \in DOMAIN provenance' <=> "auth_token" \in DOMAIN provenance
  <2>1. DOMAIN provenance' = DOMAIN base
    BY <1>1
  <2>2. \A k \in DOMAIN base \ {"listen"} : provenance'[k] = base[k]
    BY <1>1
  <2>3. "listen" \in DOMAIN base
    BY <1>4, <1>5, <1>7
  <2>4. provenance'["listen"] = provenance["listen"]
    BY <1>1, <2>3
  <2>5. QED BY <1>4, <1>5, <1>6, <1>7, <2>1, <2>2, <2>3, <2>4
<1>9. /\ {"values", "tokens", "aliases"} \subseteq DOMAIN config'
      /\ DOMAIN config'.values = Keys
      /\ \A k \in {"auth", "listen"} : config'.values[k] = config.values[k]
      /\ \A k \in Keys \ {"auth", "listen"} : config'.values[k] = Layered(source)[k]
      /\ config'.tokens = config.tokens
  BY <1>1, <1>2, KeptLayers
<1>10. ShapeOK'
  BY <1>8, <1>9 DEF ShapeOK
<1>11. LayersTold'
  <2>1. ASSUME NEW k \in Keys
        PROVE  FromLayer(FileFor(k), k, config.values[k], provenance[k])'
    <3>1. CASE k \in {"auth", "listen"}
      <4>1. FileFor(k)' = FileFor(k)
        BY <1>1, <1>7, <3>1 DEF FileFor
      <4>2. QED BY <1>1, <1>8, <1>9, <3>1, <4>1, StillTold DEF SettingsInv
    <3>2. CASE k \notin {"auth", "listen"}
      <4>1. FromLayer(source, k, Layered(source)[k], told[k])
        BY <1>2, FileSays DEF told
      <4>2. FileFor(k)' = source
        BY <1>1, <1>7, <3>2 DEF FileFor
      <4>3. QED BY <1>1, <1>8, <1>9, <3>2, <4>1, <4>2 DEF FromLayer
    <3>3. QED BY <3>1, <3>2
  <2>2. QED BY <1>1, <1>8, <1>9, <2>1 DEF LayersTold, SettingsInv
<1>12. Validates(config)'
  BY <1>1 DEF Validates, SettingsInv, CandidateFits, source
<1>13. CandidateFits'
  BY <1>1 DEF CandidateFits
<1>14. QED BY <1>3, <1>10, <1>11, <1>12, <1>13 DEF SettingsInv

\* Everything else leaves what is published alone.
LEMMA QuietStep ==
    ASSUME SettingsInv, SourcesOK',
           UNCHANGED <<static, config, provenance, started, restFrom, authFrom>>,
           candidate' # NoCandidate =>
              candidate' = candidate \/ Validates(Kept(Loaded(candidate'[1])))
    PROVE  SettingsInv'
<1>1. ShapeOK'
  BY DEF SettingsInv, ShapeOK
<1>2. LayersTold'
  <2>1. \A k : FileFor(k)' = FileFor(k)
    BY DEF FileFor
  <2>2. ASSUME NEW k \in Keys
        PROVE  FromLayer(FileFor(k), k, config.values[k], provenance[k])'
    BY <2>1, StillTold DEF SettingsInv
  <2>3. QED BY <2>2 DEF LayersTold, SettingsInv
<1>3. Validates(config)'
  BY DEF Validates, SettingsInv
<1>4. CandidateFits'
  <2> SUFFICES ASSUME candidate' # NoCandidate
               PROVE  Validates(Kept(Loaded(candidate[1])))'
    BY DEF CandidateFits, NoCandidate
  <2>1. Validates(Kept(Loaded(candidate'[1])))
    BY DEF SettingsInv, CandidateFits
  <2>2. /\ Layered(candidate[1])' = Layered(candidate'[1])
        /\ Loaded(candidate[1])' = Loaded(candidate'[1])
    BY DEF Loaded, Layered, TagFor, OverridesOf
  <2>3. Kept(Loaded(candidate[1]))' = Kept(Loaded(candidate'[1]))
    BY <2>2 DEF Kept
  <2>4. QED BY <2>1, <2>3 DEF Validates
<1>5. QED BY <1>1, <1>2, <1>3, <1>4 DEF SettingsInv

\* Every step of an edit, a reload or a refresh.
LEMMA SettingsStep == SettingsInv /\ [SettingsNext]_settingsVars => SettingsInv'
<1> SUFFICES ASSUME SettingsInv, [SettingsNext]_settingsVars PROVE SettingsInv'
  OBVIOUS
<1>1. CASE EditFile
  <2>1. SourcesOK'
    BY <1>1, LayersAssumption DEF EditFile, SettingsInv, SourcesOK, NoCandidate
  <2>2. QED BY <1>1, <2>1, QuietStep DEF EditFile
<1>2. CASE ReloadAuth
  BY <1>2, AuthStep
<1>3. CASE ReadConfig
  <2>1. candidate' = <<file>> /\ Validates(Kept(Loaded(file))) /\ candidate'[1] = file
    BY <1>3 DEF ReadConfig
  <2>2. SourcesOK'
    BY <1>3, <2>1 DEF ReadConfig, SettingsInv, SourcesOK
  <2>3. Validates(Kept(Loaded(candidate'[1])))
    BY <2>1
  <2>4. QED BY <1>3, <2>2, <2>3, QuietStep DEF ReadConfig
<1>4. CASE DropCandidate
  <2>1. SourcesOK'
    BY <1>4 DEF DropCandidate, SettingsInv, SourcesOK
  <2>2. QED BY <1>4, <2>1, QuietStep DEF DropCandidate
<1>5. CASE PublishConfig
  BY <1>5, ConfigStep
<1>6. CASE RefreshEntries
  <2>1. SourcesOK'
    BY <1>6 DEF RefreshEntries, SettingsInv, SourcesOK, NoCandidate
  <2>2. QED BY <1>6, <2>1, QuietStep DEF RefreshEntries
<1>7. CASE UNCHANGED settingsVars
  <2>1. SourcesOK'
    BY <1>7 DEF settingsVars, SettingsInv, SourcesOK, NoCandidate
  <2>2. QED BY <1>7, <2>1, QuietStep DEF settingsVars
<1>8. QED BY <1>1, <1>2, <1>3, <1>4, <1>5, <1>6, <1>7 DEF SettingsNext

THEOREM SettingsInvariant == SettingsSpec => []SettingsInv
BY SettingsStart, SettingsStep, PTL DEF SettingsSpec
----------------------------------------------------------------------------
(* What is published beside the settings                                    *)

\* Aliases and overrides are those of the file of the last configuration, and the
\* catalog's entries what the configuration in force makes of them.
RestTaken ==
    /\ "overrides" \in DOMAIN config /\ config.overrides = OverridesOf(restFrom)
    /\ config.aliases = Loaded(restFrom).aliases
    /\ config.values["tag"] = TagFor(restFrom)
EntriesBuilt ==
    \/ entries = <<>>
    \/ entries = Built(config, listed) /\ ~BuildFails(config, listed)
EntriesInv == RestTaken /\ EntriesBuilt

\* A catalog depends on these parts of a configuration only.
LEMMA BuiltSame ==
    ASSUME NEW c, NEW d, c.overrides = d.overrides, c.aliases = d.aliases,
           Restrict(c.values, Fields) = Restrict(d.values, Fields), c.values.tag = d.values.tag,
           NEW ids
    PROVE  Built(c, ids) = Built(d, ids) /\ (BuildFails(c, ids) <=> BuildFails(d, ids))
<1>1. \A id : BaseEntry(c, id) = BaseEntry(d, id) BY DEF BaseEntry
<1>2. \A id : ForModel(c, id) = ForModel(d, id) BY <1>1 DEF ForModel
<1>3. \A a : ForAlias(c, a) = ForAlias(d, a) BY <1>2 DEF ForAlias
<1>4. LiveAliases(c, ids) = LiveAliases(d, ids) BY DEF LiveAliases
<1>5. BuildFails(c, ids) <=> BuildFails(d, ids) BY <1>2, <1>3, <1>4 DEF BuildFails
<1> DEFINE aliases == LiveAliases(c, ids)
           tag == c.values.tag
           For(name) == CHOOSE a \in aliases : FullName(a.name, tag) = name
           names == {FullName(a.name, tag) : a \in aliases}
           models == {<<id>> : id \in ids}
<1>6. Built(c, ids) = Over([name \in names |-> ForAlias(c, For(name))],
                           [name \in models |-> ForModel(c, name[1])])
  BY DEF Built
<1>7. Built(d, ids) = Over([name \in names |-> ForAlias(d, For(name))],
                           [name \in models |-> ForModel(d, name[1])])
  BY <1>4 DEF Built
<1> HIDE DEF aliases, tag, For, names, models
<1>8. [name \in names |-> ForAlias(c, For(name))] = [name \in names |-> ForAlias(d, For(name))]
  BY <1>3
<1>9. [name \in models |-> ForModel(c, name[1])] = [name \in models |-> ForModel(d, name[1])]
  BY <1>2
<1>10. QED BY <1>5, <1>6, <1>7, <1>8, <1>9

LEMMA EntriesStart == SettingsInit => EntriesInv
<1> SUFFICES ASSUME SettingsInit PROVE EntriesInv
  OBVIOUS
<1>1. config = Loaded(file) /\ restFrom = file /\ entries = <<>> BY DEF SettingsInit
<1>2. /\ Loaded(file).overrides = OverridesOf(file)
      /\ DOMAIN Loaded(file) = {"values", "tokens", "overrides", "aliases"}
      /\ Loaded(file).values["tag"] = TagFor(file)
  BY DEF Loaded, TagFor
<1>3. RestTaken BY <1>1, <1>2 DEF RestTaken
<1>4. QED BY <1>1, <1>3 DEF EntriesInv, EntriesBuilt

LEMMA EntriesStep == SettingsInv /\ EntriesInv /\ [SettingsNext]_settingsVars => EntriesInv'
<1> SUFFICES ASSUME SettingsInv, EntriesInv, [SettingsNext]_settingsVars PROVE EntriesInv'
  OBVIOUS
<1>1. RestTaken /\ EntriesBuilt BY DEF EntriesInv
<1>2. static \in Statics /\ restFrom \in Files BY DEF SettingsInv, SourcesOK
<1>3. static' = static /\ restFrom' = restFrom =>
        /\ OverridesOf(restFrom)' = OverridesOf(restFrom)
        /\ (Loaded(restFrom).aliases)' = Loaded(restFrom).aliases
        /\ TagFor(restFrom)' = TagFor(restFrom)
  BY DEF OverridesOf, Loaded, TagFor, Layered
<1>4. ASSUME UNCHANGED <<static, config, restFrom, entries, listed>> PROVE EntriesInv'
  <2>1. RestTaken' BY <1>1, <1>3, <1>4 DEF RestTaken
  <2>2. EntriesBuilt' BY <1>1, <1>4 DEF EntriesBuilt
  <2>3. QED BY <2>1, <2>2 DEF EntriesInv
<1>5. CASE ReloadAuth
  <2> DEFINE auth == Loaded(file).values.auth
             tokens == Loaded(file).tokens
  <2>1. /\ config' = [config EXCEPT !.values.auth = auth, !.tokens = tokens]
        /\ UNCHANGED <<static, restFrom, entries, listed>>
    BY <1>5 DEF ReloadAuth
  <2> HIDE DEF auth, tokens
  <2>2. /\ {"values", "tokens", "aliases", "overrides"} \subseteq DOMAIN config
        /\ DOMAIN config.values = Keys
    BY <1>1 DEF SettingsInv, ShapeOK, RestTaken
  <2>3. /\ config'.overrides = config.overrides /\ config'.aliases = config.aliases
        /\ config'.values = [config.values EXCEPT !["auth"] = auth]
        /\ "overrides" \in DOMAIN config'
    BY <2>1, <2>2
  <2>4. config'.values["tag"] = config.values["tag"]
        /\ Restrict(config'.values, Fields) = Restrict(config.values, Fields)
    BY <2>2, <2>3 DEF Restrict, Fields, Keys
  <2>5. RestTaken' BY <1>1, <1>3, <2>1, <2>3, <2>4 DEF RestTaken
  <2>6. EntriesBuilt'
    <3> DEFINE c == config'
               d == config
    <3>1. /\ c.overrides = d.overrides /\ c.aliases = d.aliases
          /\ Restrict(c.values, Fields) = Restrict(d.values, Fields) /\ c.values.tag = d.values.tag
      BY <2>3, <2>4
    <3>2. entries' = entries /\ listed' = listed BY <2>1
    <3>3. EntriesBuilt' <=>
             \/ entries' = <<>>
             \/ entries' = Built(c, listed') /\ ~BuildFails(c, listed')
      BY DEF EntriesBuilt
    <3>4. \/ entries = <<>>
          \/ entries = Built(d, listed) /\ ~BuildFails(d, listed)
      BY <1>1 DEF EntriesBuilt
    <3> HIDE DEF c, d
    <3>5. Built(c, listed) = Built(d, listed) /\ (BuildFails(c, listed) <=> BuildFails(d, listed))
      BY <3>1, BuiltSame
    <3>6. QED BY <3>2, <3>3, <3>4, <3>5
  <2>7. QED BY <2>5, <2>6 DEF EntriesInv
<1>6. CASE PublishConfig
  <2> DEFINE source == candidate[1]
  <2>1. /\ candidate # NoCandidate /\ config' = Kept(Loaded(source)) /\ restFrom' = source
        /\ static' = static
        /\ entries' = Built(config', listed') /\ ~BuildFails(config', listed')
    BY <1>6 DEF PublishConfig
  <2>2. source \in Files BY <2>1 DEF SettingsInv, SourcesOK
  <2> HIDE DEF source
  <2>3. /\ OverridesOf(restFrom)' = OverridesOf(source) /\ TagFor(restFrom)' = TagFor(source)
        /\ (Loaded(restFrom).aliases)' = Loaded(source).aliases
    BY <2>1 DEF OverridesOf, Loaded, TagFor, Layered
  <2>4. /\ Loaded(source).overrides = OverridesOf(source)
        /\ DOMAIN Loaded(source) = {"values", "tokens", "overrides", "aliases"}
        /\ Loaded(source).values["tag"] = TagFor(source) /\ DOMAIN Loaded(source).values = Keys
    BY <1>2, <2>2, LoadedLayers DEF Loaded, TagFor
  <2>5. /\ "overrides" \in DOMAIN config' /\ config'.overrides = OverridesOf(source)
        /\ config'.aliases = Loaded(source).aliases /\ config'.values["tag"] = TagFor(source)
    BY <2>1, <2>4 DEF Kept, Keys
  <2>6. RestTaken' BY <2>3, <2>5 DEF RestTaken
  <2>7. EntriesBuilt' BY <2>1 DEF EntriesBuilt
  <2>8. QED BY <2>6, <2>7 DEF EntriesInv
<1>7. CASE RefreshEntries
  <2>1. /\ UNCHANGED <<static, config, restFrom>>
        /\ entries' = Built(config, listed') /\ ~BuildFails(config, listed')
    BY <1>7 DEF RefreshEntries
  <2>2. RestTaken' BY <1>1, <1>3, <2>1 DEF RestTaken
  <2>3. EntriesBuilt' BY <2>1 DEF EntriesBuilt
  <2>4. QED BY <2>2, <2>3 DEF EntriesInv
<1>8. CASE EditFile BY <1>4, <1>8 DEF EditFile
<1>9. CASE ReadConfig BY <1>4, <1>9 DEF ReadConfig
<1>10. CASE DropCandidate BY <1>4, <1>10 DEF DropCandidate
<1>11. CASE UNCHANGED settingsVars BY <1>4, <1>11 DEF settingsVars
<1>12. QED BY <1>5, <1>6, <1>7, <1>8, <1>9, <1>10, <1>11 DEF SettingsNext

\* The aliases in force, with a flag's target over the environment's over the file's.
LEMMA TakenLayers ==
    ASSUME SettingsInv, EntriesInv
    PROVE  LET tag == config.values.tag
               mid == TakeOver(restFrom.aliases, static.env.aliases, tag)
           IN  /\ AreAliases(restFrom.aliases) /\ ArePairs(static.env.aliases)
               /\ ArePairs(static.flags.aliases)
               /\ config.aliases = TakeOver(mid, static.flags.aliases, tag)
               /\ AreAliases(config.aliases)
               /\ \A i, j \in 1 .. Len(config.aliases) :
                     NameAt(config.aliases, i, tag) = NameAt(config.aliases, j, tag) => i = j
<1> DEFINE tag == config.values.tag
           mid == TakeOver(restFrom.aliases, static.env.aliases, tag)
<1>1. static \in Statics /\ restFrom \in Files /\ RestTaken /\ Validates(config)
  BY DEF SettingsInv, SourcesOK, EntriesInv
<1>2. /\ ArePairs(restFrom.aliases) /\ ArePairs(static.env.aliases) /\ ArePairs(static.flags.aliases)
      /\ \A a \in ToSet(restFrom.aliases) :
            /\ a = [name |-> a.name, target |-> a.target, behavior |-> a.behavior]
            /\ IsBehavior(a.behavior)
  BY <1>1, LayersAssumption
<1>3. AreAliases(restFrom.aliases)
  <2>1. IsList(restFrom.aliases) /\ \A a \in ToSet(restFrom.aliases) : IsAlias(a)
    BY <1>2 DEF ArePairs, IsAlias
  <2>2. QED BY <2>1, ListFacts DEF AreAliases
<1>4. config.aliases = TakeOver(mid, static.flags.aliases, tag)
  BY <1>1 DEF RestTaken, Loaded
<1> HIDE DEF tag
<1>5. AreAliases(mid) BY <1>2, <1>3, TakeAll DEF TakenOver
<1> HIDE DEF mid
<1>6. AreAliases(config.aliases) BY <1>2, <1>4, <1>5, TakeAll DEF TakenOver
<1>7. ~NamedTwice(config.aliases, tag) BY <1>1 DEF Validates, tag
<1>8. DOMAIN config.aliases = 1 .. Len(config.aliases) BY <1>6, ListFacts DEF AreAliases
<1>9. \A i, j \in 1 .. Len(config.aliases) :
         NameAt(config.aliases, i, tag) = NameAt(config.aliases, j, tag) => i = j
  BY <1>7, <1>8 DEF NamedTwice, NameAt
<1>10. QED BY <1>2, <1>3, <1>4, <1>6, <1>9 DEF tag, mid

LEMMA AliasesSettle == SettingsInv /\ EntriesInv => AliasesLayered
<1> SUFFICES ASSUME SettingsInv, EntriesInv PROVE AliasesLayered
  OBVIOUS
<1> DEFINE tag == config.values.tag
           high == static.flags.aliases
           low == static.env.aliases
           aliases == restFrom.aliases
           list == config.aliases
           mid == TakeOver(aliases, low, tag)
           Named(l, name) == {k \in DOMAIN l : FullName(l[k].name, tag) = name}
           lists == <<high, low, aliases>>
           names == UNION {{FullName(lists[i][k].name, tag) : k \in DOMAIN lists[i]} : i \in 1 .. 3}
<1>1. /\ AreAliases(aliases) /\ ArePairs(low) /\ ArePairs(high)
      /\ list = TakeOver(mid, high, tag)
      /\ \A i, j \in 1 .. Len(list) : NameAt(list, i, tag) = NameAt(list, j, tag) => i = j
  BY TakenLayers
<1>2. AliasesLayered <=>
        /\ {FullName(a.name, tag) : a \in ToSet(list)} = names
        /\ \A k \in DOMAIN list :
              LET alias == list[k]
                  name == FullName(alias.name, tag)
              IN  /\ \A i \in 1 .. 3 :
                        Named(lists[i], name) # {} /\ (\A j \in 1 .. i - 1 : Named(lists[j], name) = {})
                        => \E m \in Named(lists[i], name) : lists[i][m].target = alias.target
                  /\ IF Named(lists[3], name) = {} THEN alias.behavior = NoBehavior
                     ELSE \E m \in Named(lists[3], name) : lists[3][m].behavior = alias.behavior
  BY DEF AliasesLayered
<1>3. lists[1] = high /\ lists[2] = low /\ lists[3] = aliases OBVIOUS
<1> HIDE DEF tag, high, low, aliases, list, mid, lists
<1>4. /\ AreAliases(list) /\ NamesOfThree(list, high, low, aliases, tag)
      /\ \A k \in 1 .. Len(list) :
            HighestPrevails(list[k], NameAt(list, k, tag), high, low, aliases, tag)
  <2>1. mid = TakeOver(aliases, low, tag) BY DEF mid
  <2>2. QED BY <1>1, <2>1, TwoLayers
<1>5. /\ DOMAIN high = 1 .. Len(high) /\ DOMAIN low = 1 .. Len(low)
      /\ DOMAIN aliases = 1 .. Len(aliases) /\ DOMAIN list = 1 .. Len(list)
  BY <1>1, <1>4, ListFacts DEF ArePairs, AreAliases
<1>6. \A name : /\ Named(high, name) = Naming(high, name, tag)
                /\ Named(low, name) = Naming(low, name, tag)
                /\ Named(aliases, name) = Naming(aliases, name, tag)
                /\ Named(list, name) = Naming(list, name, tag)
  BY <1>5 DEF Naming, NameAt
<1>7. {FullName(a.name, tag) : a \in ToSet(list)} = names
  <2>1. \A x : x \in {FullName(a.name, tag) : a \in ToSet(list)} <=> Named(list, x) # {}
    BY DEF ToSet
  <2>2. \A x : x \in names <=> \E i \in 1 .. 3 : Named(lists[i], x) # {}
    OBVIOUS
  <2>3. \A i : i \in 1 .. 3 <=> i = 1 \/ i = 2 \/ i = 3 OBVIOUS
  <2> HIDE DEF Named, names
  <2>4. \A x : x \in names <=> Named(high, x) # {} \/ Named(low, x) # {} \/ Named(aliases, x) # {}
    BY <1>3, <2>2, <2>3
  <2>5. \A x : x \in {FullName(a.name, tag) : a \in ToSet(list)} <=> x \in names
    BY <1>4, <1>6, <2>1, <2>4 DEF NamesOfThree
  <2>6. QED BY <2>5
<1>8. ASSUME NEW k \in DOMAIN list
      PROVE  LET alias == list[k]
                 name == FullName(alias.name, tag)
             IN  /\ \A i \in 1 .. 3 :
                        Named(lists[i], name) # {} /\ (\A j \in 1 .. i - 1 : Named(lists[j], name) = {})
                        => \E m \in Named(lists[i], name) : lists[i][m].target = alias.target
                 /\ IF Named(lists[3], name) = {} THEN alias.behavior = NoBehavior
                     ELSE \E m \in Named(lists[3], name) : lists[3][m].behavior = alias.behavior
  <2> DEFINE name == FullName(list[k].name, tag)
  <2>1. NameAt(list, k, tag) = name BY DEF NameAt
  <2> HIDE DEF name, Named
  <2>2. /\ Named(high, name) # {} => \E m \in Named(high, name) : high[m].target = list[k].target
        /\ Named(high, name) = {} /\ Named(low, name) # {} =>
              \E m \in Named(low, name) : low[m].target = list[k].target
        /\ Named(high, name) = {} /\ Named(low, name) = {} /\ Named(aliases, name) # {} =>
              \E m \in Named(aliases, name) : aliases[m].target = list[k].target
        /\ Named(aliases, name) = {} => list[k].behavior = NoBehavior
        /\ Named(aliases, name) # {} =>
              \E m \in Named(aliases, name) : aliases[m].behavior = list[k].behavior
    <3>1. HighestPrevails(list[k], name, high, low, aliases, tag) BY <1>4, <1>5, <2>1
    <3>2. QED BY <1>6, <3>1 DEF HighestPrevails
  <2>3. ASSUME NEW i \in 1 .. 3, Named(lists[i], name) # {},
               \A j \in 1 .. i - 1 : Named(lists[j], name) = {}
        PROVE  \E m \in Named(lists[i], name) : lists[i][m].target = list[k].target
    <3>1. CASE i = 1 BY <1>3, <2>2, <2>3, <3>1
    <3>2. CASE i = 2
      <4>1. 1 \in 1 .. i - 1 BY <3>2
      <4>2. QED BY <1>3, <2>2, <2>3, <3>2, <4>1
    <3>3. CASE i = 3
      <4>1. 1 \in 1 .. i - 1 /\ 2 \in 1 .. i - 1 BY <3>3
      <4>2. QED BY <1>3, <2>2, <2>3, <3>3, <4>1
    <3>4. QED BY <3>1, <3>2, <3>3
  <2>4. QED BY <1>3, <2>2, <2>3 DEF name
<1>9. QED BY <1>2, <1>7, <1>8
----------------------------------------------------------------------------
(* The theorems                                                             *)

\* What is encoded once more.
LEMMA ReencodedFacts ==
    ASSUME NEW list, AreOverrides(list)
    PROVE  /\ AreOverrides(Reencoded(list)) /\ Len(Reencoded(list)) = Len(list)
           /\ \A k \in 1 .. Len(list) :
                 /\ Reencoded(list)[k].match = list[k].match
                 /\ Reencoded(list)[k].behavior =
                      [list[k].behavior EXCEPT !.drops = IF @ = {} THEN Unset ELSE @]
<1> DEFINE new == Reencoded(list)
           again(b) == [b EXCEPT !.drops = IF @ = {} THEN Unset ELSE @]
<1>1. /\ Len(list) \in Nat /\ DOMAIN list = 1 .. Len(list)
      /\ \A k \in 1 .. Len(list) : list[k] \in ToSet(list)
  BY ListFacts DEF AreOverrides
<1>2. ASSUME NEW k \in 1 .. Len(list)
      PROVE  /\ list[k] = [match |-> list[k].match, behavior |-> list[k].behavior]
             /\ IsBehavior(list[k].behavior)
  BY <1>1 DEF AreOverrides
<1>3. new = [k \in 1 .. Len(list) |-> new[k]]
  BY <1>1 DEF Reencoded
<1>4. ASSUME NEW k \in 1 .. Len(list)
      PROVE  /\ new[k] = [match |-> list[k].match, behavior |-> again(list[k].behavior)]
             /\ IsBehavior(again(list[k].behavior))
  <2> DEFINE o == list[k]
             b == list[k].behavior
             drops == IF b.drops = {} THEN Unset ELSE b.drops
  <2>1. new[k] = [o EXCEPT !.behavior = [b EXCEPT !.drops = drops]] BY <1>1 DEF Reencoded
  <2>2. again(b) = [b EXCEPT !.drops = drops] OBVIOUS
  <2>3. o = [match |-> o.match, behavior |-> b] /\ IsBehavior(b) BY <1>2
  <2> HIDE DEF new, o, b, drops, again
  <2>4. new[k] = [match |-> o.match, behavior |-> again(b)] BY <2>1, <2>2, <2>3
  <2>5. IsBehavior(again(b))
    <3> DEFINE a == again(b)
    <3>1. a = [b EXCEPT !.drops = drops] BY <2>2
    <3>2. /\ DOMAIN b = {"sets", "drops", "extra", "only", "add", "remove"}
          /\ DOMAIN b.sets \subseteq Fields
      BY <2>3 DEF IsBehavior
    <3> HIDE DEF a
    <3>3. /\ a.sets = b.sets
          /\ a = [sets |-> a.sets, drops |-> a.drops, extra |-> a.extra, only |-> a.only,
                  add |-> a.add, remove |-> a.remove]
      BY <3>1, <3>2
    <3>4. IsBehavior(a) BY <3>2, <3>3 DEF IsBehavior
    <3>5. QED BY <3>4 DEF a
  <2>6. QED BY <2>4, <2>5 DEF o, b
<1> HIDE DEF new, again
<1>5. IsList(new) /\ Len(new) = Len(list) /\ DOMAIN new = 1 .. Len(list)
  <2>1. DOMAIN new = 1 .. Len(list) BY <1>3
  <2>2. \A k \in 1 .. Len(list) : new[k] \in ToSet(new) BY <2>1 DEF ToSet
  <2>3. new \in [1 .. Len(list) -> ToSet(new)] BY <1>3, <2>2
  <2>4. new \in Seq(ToSet(new)) BY <1>1, <2>3
  <2>5. Len(new) = Len(list) BY <1>1, <2>1, <2>4
  <2>6. QED BY <2>1, <2>4, <2>5 DEF IsList
<1>6. ASSUME NEW k \in 1 .. Len(list)
      PROVE  /\ new[k].match = list[k].match /\ new[k].behavior = again(list[k].behavior)
             /\ new[k] = [match |-> new[k].match, behavior |-> new[k].behavior]
             /\ IsBehavior(new[k].behavior)
  <2> DEFINE o == new[k]
             m == list[k].match
             b == again(list[k].behavior)
  <2>1. o = [match |-> m, behavior |-> b] /\ IsBehavior(b) BY <1>4
  <2> HIDE DEF o, m, b
  <2>2. o.match = m /\ o.behavior = b /\ o = [match |-> o.match, behavior |-> o.behavior] BY <2>1
  <2>3. QED BY <2>1, <2>2 DEF o, m, b
<1>7. \A o \in ToSet(new) : \E k \in 1 .. Len(list) : o = new[k] BY <1>5 DEF ToSet
<1>8. AreOverrides(new) BY <1>5, <1>6, <1>7 DEF AreOverrides
<1>9. QED BY <1>5, <1>6, <1>8 DEF new, again

\* The overrides that were given, and what each says as it is kept.
GivenOverrides ==
    IF static.env.overrides # <<>> THEN static.env.overrides[1] ELSE restFrom.overrides
Said(b) == [b EXCEPT !.drops = IF static.env.overrides # <<>> /\ @ = {} THEN Unset ELSE @]

LEMMA OverridesKept ==
    ASSUME SettingsInv, EntriesInv
    PROVE  /\ AreOverrides(GivenOverrides) /\ AreOverrides(config.overrides)
           /\ Len(config.overrides) = Len(GivenOverrides)
           /\ \A k \in 1 .. Len(GivenOverrides) :
                 /\ config.overrides[k].match = GivenOverrides[k].match
                 /\ config.overrides[k].behavior = Said(GivenOverrides[k].behavior)
<1>1. static \in Statics /\ restFrom \in Files /\ config.overrides = OverridesOf(restFrom)
  BY DEF SettingsInv, SourcesOK, EntriesInv, RestTaken
<1> DEFINE given == GivenOverrides
<1>2. CASE static.env.overrides # <<>>
  <2>1. given = static.env.overrides[1] /\ config.overrides = Reencoded(given)
    BY <1>1, <1>2 DEF GivenOverrides, OverridesOf
  <2>2. AreOverrides(given) BY <1>1, <1>2, <2>1, LayersAssumption
  <2>3. \A b : Said(b) = [b EXCEPT !.drops = IF @ = {} THEN Unset ELSE @] BY <1>2 DEF Said
  <2> HIDE DEF given
  <2>4. /\ AreOverrides(Reencoded(given)) /\ Len(Reencoded(given)) = Len(given)
        /\ \A k \in 1 .. Len(given) :
              /\ Reencoded(given)[k].match = given[k].match
              /\ Reencoded(given)[k].behavior =
                   [given[k].behavior EXCEPT !.drops = IF @ = {} THEN Unset ELSE @]
    BY <2>2, ReencodedFacts
  <2>5. \A k \in 1 .. Len(given) : Reencoded(given)[k].behavior = Said(given[k].behavior)
    <3> TAKE k \in 1 .. Len(given)
    <3> DEFINE b == given[k].behavior
    <3>1. Reencoded(given)[k].behavior = [b EXCEPT !.drops = IF @ = {} THEN Unset ELSE @]
      BY <2>4
    <3> HIDE DEF b
    <3>2. Said(b) = [b EXCEPT !.drops = IF @ = {} THEN Unset ELSE @] BY <2>3
    <3>3. QED BY <3>1, <3>2 DEF b
  <2> DEFINE kept == Reencoded(given)
  <2>6. /\ config.overrides = kept /\ AreOverrides(kept) /\ Len(kept) = Len(given)
        /\ \A k \in 1 .. Len(given) : kept[k].match = given[k].match
        /\ \A k \in 1 .. Len(given) : kept[k].behavior = Said(given[k].behavior)
    BY <2>1, <2>4, <2>5
  <2> HIDE DEF kept
  <2>7. \A k \in 1 .. Len(given) :
          /\ config.overrides[k].match = given[k].match
          /\ config.overrides[k].behavior = Said(given[k].behavior)
    BY <2>6
  <2>8. AreOverrides(config.overrides) /\ Len(config.overrides) = Len(given) BY <2>6
  <2>9. QED BY <2>2, <2>7, <2>8 DEF given
<1>3. CASE static.env.overrides = <<>>
  <2>1. given = restFrom.overrides /\ config.overrides = given
    BY <1>1, <1>3 DEF GivenOverrides, OverridesOf
  <2>2. AreOverrides(given) BY <1>1, <2>1, LayersAssumption
  <2> HIDE DEF given
  <2>3. ASSUME NEW k \in 1 .. Len(given) PROVE Said(given[k].behavior) = given[k].behavior
    <3> DEFINE b == given[k].behavior
    <3>1. given[k] \in ToSet(given) BY <2>2, ListFacts DEF AreOverrides
    <3>2. IsBehavior(b) BY <2>2, <3>1 DEF AreOverrides
    <3>3. Said(b) = [b EXCEPT !.drops = b.drops] BY <1>3 DEF Said
    <3> HIDE DEF b
    <3>4. Said(b) = b BY <3>2, <3>3 DEF IsBehavior
    <3>5. QED BY <3>4 DEF b
  <2>4. QED BY <2>1, <2>2, <2>3 DEF given
<1>4. QED BY <1>2, <1>3

\* The chain of a name: what the overrides say of the model, and then what the one alias
\* of that name says.
OwnOf(name) ==
    {a \in ToSet(config.aliases) : Len(name) = 2 /\ FullName(a.name, config.values.tag) = name}

LEMMA ChainFacts ==
    ASSUME SettingsInv, EntriesInv, NEW name, NEW target
    PROVE  LET chain == ChainOf(name, target)
               last == Len(config.overrides)
           IN  /\ \A k \in 1 .. last :
                     chain[k] = IF target \in config.overrides[k].match
                                THEN config.overrides[k].behavior ELSE NoBehavior
               /\ OwnOf(name) = {} => DOMAIN chain = 1 .. last
               /\ \A a : OwnOf(name) = {a} =>
                     DOMAIN chain = 1 .. last + 1 /\ chain[last + 1] = a.behavior
<1> DEFINE chain == ChainOf(name, target)
           last == Len(config.overrides)
           given == GivenOverrides
           own == OwnOf(name)
           said == [k \in DOMAIN given |->
                      IF target \in given[k].match THEN Said(given[k].behavior) ELSE NoBehavior]
<1>1. chain = said \o (IF own = {} THEN <<>> ELSE <<(CHOOSE a \in own : TRUE).behavior>>)
  BY DEF ChainOf, GivenOverrides, Said, OwnOf
<1>2. /\ AreOverrides(given) /\ last = Len(given)
      /\ \A k \in 1 .. Len(given) :
            /\ config.overrides[k].match = given[k].match
            /\ config.overrides[k].behavior = Said(given[k].behavior)
  BY OverridesKept
<1>3. last \in Nat /\ DOMAIN given = 1 .. last BY <1>2, ListFacts DEF AreOverrides
<1>4. \A k \in 1 .. last :
         said[k] = IF target \in config.overrides[k].match
                   THEN config.overrides[k].behavior ELSE NoBehavior
  BY <1>2, <1>3
<1>5. DOMAIN said = 1 .. last /\ said = [k \in 1 .. last |-> said[k]] BY <1>3
<1> HIDE DEF chain, last, given, own, said
<1>6. IsList(said) /\ Len(said) = last
  <2>1. \A k \in 1 .. last : said[k] \in ToSet(said) BY <1>5 DEF ToSet
  <2>2. said \in [1 .. last -> ToSet(said)] BY <1>5, <2>1
  <2>3. said \in Seq(ToSet(said)) BY <1>3, <2>2
  <2>4. Len(said) = last BY <1>3, <1>5, <2>3
  <2>5. QED BY <2>3, <2>4 DEF IsList
<1>7. CASE own = {}
  <2>1. chain = said \o <<>> BY <1>1, <1>7
  <2>2. chain = said BY <1>6, <2>1, ConcatEmptySeq DEF IsList
  <2>3. \A a : own # {a} BY <1>7
  <2>4. QED BY <1>4, <1>5, <2>2, <2>3 DEF chain, last, own
<1>8. CASE own # {}
  <2> DEFINE b == (CHOOSE a \in own : TRUE).behavior
  <2>1. chain = said \o <<b>> BY <1>1, <1>8
  <2>2. \A a : own = {a} => b = a.behavior OBVIOUS
  <2> HIDE DEF b
  <2>3. chain = Append(said, b)
    <3> DEFINE S == ToSet(said) \cup {b}
    <3>1. said \in Seq(S)
      <4>1. said \in [1 .. last -> S] BY <1>5 DEF ToSet
      <4>2. QED BY <1>3, <4>1
    <3>2. b \in S OBVIOUS
    <3> HIDE DEF S
    <3>3. QED BY <2>1, <3>1, <3>2, AppendIsConcat
  <2>4. /\ DOMAIN chain = 1 .. last + 1 /\ chain[last + 1] = b
        /\ \A k \in 1 .. last : chain[k] = said[k]
    BY <1>6, <2>3, AppendFacts
  <2>5. QED BY <1>4, <1>8, <2>2, <2>4 DEF chain, last, own
<1>9. QED BY <1>7, <1>8

\* An entry of the catalog is that of the one alias of its name, or of a model.
LEMMA EntryFacts ==
    ASSUME SettingsInv, EntriesInv, NEW name \in DOMAIN entries
    PROVE  \/ \E id \in listed :
                 /\ entries[name] = ForModel(config, id) /\ ~Unfit(ForModel(config, id))
                 /\ OwnOf(name) = {}
           \/ \E a \in ToSet(config.aliases) :
                 /\ a.target \in listed /\ IsBehavior(a.behavior)
                 /\ entries[name] = ForAlias(config, a) /\ ~Unfit(ForAlias(config, a))
                 /\ OwnOf(name) = {a}
<1> DEFINE tag == config.values.tag
           live == LiveAliases(config, listed)
           For(x) == CHOOSE a \in live : FullName(a.name, tag) = x
           names == {FullName(a.name, tag) : a \in live}
           models == {<<id>> : id \in listed}
           ofAliases == [x \in names |-> ForAlias(config, For(x))]
           ofModels == [x \in models |-> ForModel(config, x[1])]
<1>1. DOMAIN <<>> = {} OBVIOUS
<1>2. entries = Built(config, listed) /\ ~BuildFails(config, listed)
  BY <1>1 DEF EntriesInv, EntriesBuilt
<1>3. entries = Over(ofAliases, ofModels) BY <1>2 DEF Built
<1>4. /\ DOMAIN ofAliases = names /\ \A x \in names : ofAliases[x] = ForAlias(config, For(x))
      /\ DOMAIN ofModels = models /\ \A x \in models : ofModels[x] = ForModel(config, x[1])
  OBVIOUS
<1>5. /\ \A id \in listed : ~Unfit(ForModel(config, id))
      /\ \A a \in live : ~Unfit(ForAlias(config, a))
  BY <1>2 DEF BuildFails
<1>6. live \subseteq ToSet(config.aliases) /\ \A a \in live : a.target \in listed
  BY DEF LiveAliases
<1>7. /\ AreAliases(config.aliases)
      /\ \A i, j \in 1 .. Len(config.aliases) :
            NameAt(config.aliases, i, tag) = NameAt(config.aliases, j, tag) => i = j
  BY TakenLayers
<1>8. DOMAIN config.aliases = 1 .. Len(config.aliases) BY <1>7, ListFacts DEF AreAliases
<1>9. \A a \in ToSet(config.aliases) :
         \E k \in 1 .. Len(config.aliases) : a = config.aliases[k] /\ IsAlias(a)
  BY <1>7, <1>8 DEF AreAliases, ToSet
<1>10. \A a, b \in ToSet(config.aliases) : FullName(a.name, tag) = FullName(b.name, tag) => a = b
  BY <1>7, <1>9 DEF NameAt
<1>11. OwnOf(name) = {a \in ToSet(config.aliases) : Len(name) = 2 /\ FullName(a.name, tag) = name}
  BY DEF OwnOf
<1> HIDE DEF tag, live, ofAliases, ofModels
<1>12. \A x \in names : For(x) \in live /\ FullName(For(x).name, tag) = x OBVIOUS
<1>13. DOMAIN entries = names \cup models
       /\ \A x \in names \cup models :
             entries[x] = IF x \in names THEN ofAliases[x] ELSE ofModels[x]
  BY <1>3, <1>4 DEF Over
<1>14. CASE name \in names
  <2> DEFINE a == For(name)
  <2>1. a \in live /\ FullName(a.name, tag) = name BY <1>12, <1>14
  <2>2. entries[name] = ForAlias(config, a) BY <1>4, <1>13, <1>14
  <2> HIDE DEF a
  <2>3. a \in ToSet(config.aliases) /\ a.target \in listed BY <1>6, <2>1
  <2>4. IsName(a.name) /\ IsBehavior(a.behavior) BY <1>9, <2>3 DEF IsAlias
  <2>5. Len(name) = 2 BY <2>1, <2>4, FullFacts
  <2>6. OwnOf(name) = {a} BY <1>10, <1>11, <2>1, <2>3, <2>5
  <2>7. QED BY <1>5, <2>1, <2>2, <2>3, <2>4, <2>6
<1>15. CASE name \notin names
  <2>1. PICK id \in listed : name = <<id>> BY <1>13, <1>15
  <2>2. Len(name) = 1 /\ name[1] = id BY <2>1
  <2>3. name \in models BY <2>1
  <2>4. entries[name] = ForModel(config, id) BY <1>4, <1>13, <1>15, <2>2, <2>3
  <2>5. OwnOf(name) = {} BY <1>11, <2>2
  <2>6. QED BY <1>5, <2>4, <2>5
<1>16. QED BY <1>14, <1>15

LEMMA EntriesSettle == SettingsInv /\ EntriesInv => EntriesSettled
<1> SUFFICES ASSUME SettingsInv, EntriesInv, NEW name \in DOMAIN entries
             PROVE  /\ entries[name].target \in listed /\ ~Unfit(entries[name])
                    /\ LastPrevails(entries[name], ChainOf(name, entries[name].target), config.values)
  BY DEF EntriesSettled
<1> DEFINE c == config
           v == config.values
           last == Len(config.overrides)
           entry == entries[name]
<1>1. DOMAIN v = Keys BY DEF SettingsInv, ShapeOK
<1>2. AreOverrides(c.overrides) BY OverridesKept
<1>3. last \in Nat BY <1>2, ListFacts DEF AreOverrides
<1>4. CASE \E id \in listed :
             /\ entries[name] = ForModel(config, id) /\ ~Unfit(ForModel(config, id))
             /\ OwnOf(name) = {}
  <2>1. PICK id \in listed :
          entry = ForModel(c, id) /\ ~Unfit(ForModel(c, id)) /\ OwnOf(name) = {}
    BY <1>4
  <2> DEFINE chain == ChainOf(name, id)
  <2>2. /\ \A k \in 1 .. Len(c.overrides) :
              chain[k] = IF id \in c.overrides[k].match THEN c.overrides[k].behavior ELSE NoBehavior
        /\ DOMAIN chain = 1 .. last
    BY <2>1, ChainFacts
  <2>3. last = Len(c.overrides) /\ v = c.values OBVIOUS
  <2> HIDE DEF c, v, last, entry, chain
  <2>4. /\ Settled(ForModel(c, id), chain, last, v, id)
        /\ LastOf(SpeakingIn(chain, last, "insert")) = 0 =>
              ForModel(c, id).knows["insert"] =
                 IF ForModel(c, id).sets["fim"] = "off" THEN "unknown" ELSE "yes"
    BY <1>1, <1>2, <2>2, <2>3, OverridesSettle
  <2>5. LastPrevails(entry, chain, v) BY <1>3, <2>1, <2>2, <2>4, SettledPrevails
  <2>6. entry.target = id /\ ~Unfit(entry) BY <2>1, <2>4 DEF Settled
  <2>7. QED BY <2>5, <2>6 DEF entry, chain, v
<1>5. CASE \E a \in ToSet(config.aliases) :
             /\ a.target \in listed /\ IsBehavior(a.behavior)
             /\ entries[name] = ForAlias(config, a) /\ ~Unfit(ForAlias(config, a))
             /\ OwnOf(name) = {a}
  <2>1. PICK a : /\ a.target \in listed /\ IsBehavior(a.behavior)
                 /\ entry = ForAlias(c, a) /\ ~Unfit(ForAlias(c, a)) /\ OwnOf(name) = {a}
    BY <1>5
  <2> DEFINE id == a.target
             b == a.behavior
             chain == ChainOf(name, id)
             model == ForModel(c, id)
             applied == Apply(model, b)
  <2>2. /\ \A k \in 1 .. Len(c.overrides) :
              chain[k] = IF id \in c.overrides[k].match THEN c.overrides[k].behavior ELSE NoBehavior
        /\ DOMAIN chain = 1 .. last + 1 /\ chain[last + 1] = b
    BY <2>1, ChainFacts
  <2>3. last = Len(c.overrides) /\ v = c.values OBVIOUS
  <2>4. entry = FinishEntry(applied) BY <2>1 DEF ForAlias
  <2>5. IsBehavior(b) /\ id \in listed /\ ~Unfit(entry) BY <2>1
  <2> HIDE DEF c, v, last, entry, id, b, chain
  <2>6. Settled(model, chain, last, v, id) BY <1>1, <1>2, <2>2, <2>3, OverridesSettle
  <2> HIDE DEF model
  <2>7. Settled(applied, chain, last + 1, v, id) BY <1>3, <2>2, <2>5, <2>6, ApplySettles
  <2> HIDE DEF applied
  <2>8. last + 1 \in Nat BY <1>3
  <2>9. /\ Settled(entry, chain, last + 1, v, id)
        /\ LastOf(SpeakingIn(chain, last + 1, "insert")) = 0 =>
              entry.knows["insert"] = IF entry.sets["fim"] = "off" THEN "unknown" ELSE "yes"
    BY <2>4, <2>7, <2>8, FinishSettles
  <2>10. LastPrevails(entry, chain, v) BY <2>2, <2>8, <2>9, SettledPrevails
  <2>11. entry.target = id BY <2>9 DEF Settled
  <2>12. QED BY <2>5, <2>10, <2>11 DEF entry, chain, v
<1>6. QED BY <1>4, <1>5, EntryFacts

LEMMA EntriesInvariant == SettingsSpec => []EntriesInv
BY EntriesStart, EntriesStep, SettingsInvariant, PTL DEF SettingsSpec
----------------------------------------------------------------------------
\* Whatever is edited and reloaded, what is in force is a configuration that Validate
\* accepts, with a source for every setting (server.go, reloadTokens and reloadConfig).
THEOREM SettingsTypeCorrect == SettingsSpec => []SettingsTypeOK
<1>1. SettingsInv => SettingsTypeOK
  BY DEF SettingsInv, SourcesOK, ShapeOK, SettingsTypeOK
<1>2. QED BY <1>1, SettingsInvariant, PTL

\* Every setting in force is that of the highest layer that sets it, in the file whose
\* word counts for it, and is said to come from there (config.Load, provenance.go).
THEOREM LayersAreTold == SettingsSpec => []LayersTold
<1>1. SettingsInv => LayersTold
  BY DEF SettingsInv
<1>2. QED BY <1>1, SettingsInvariant, PTL

\* The whole of what the documentation's rules of precedence promise: between the layers,
\* between the simple aliases and the file's, and for every entry of the catalog between
\* the global settings, the overrides in their order and an alias's own behavior; and that
\* what each setting is said to come from is true (config.Load, mergeAliases, provenance.go,
\* catalog.Build).
THEOREM SettingsAreInForce == SettingsSpec => []SettingsInForce
<1>1. SettingsInv => SettingsTypeOK /\ LayersTold
  BY DEF SettingsInv, SourcesOK, ShapeOK, SettingsTypeOK
<1>2. SettingsInv /\ EntriesInv => AliasesLayered /\ EntriesSettled
  BY AliasesSettle, EntriesSettle
<1>3. SettingsInv /\ EntriesInv => SettingsInForce
  BY <1>1, <1>2 DEF SettingsInForce
<1>4. QED BY <1>3, SettingsInvariant, EntriesInvariant, PTL
=============================================================================
