------------------------------ MODULE MCCatalog ------------------------------
(***************************************************************************)
(* Catalog on IDs that derive one name by case, by separator and by tag,   *)
(* and on aliases that displace, hide or restore a model; beside it the    *)
(* settings a catalog is built under.  Each models the catalog for its own *)
(* questions, and a behaviour is one of the two.                           *)
(***************************************************************************)
EXTENDS Catalog, Settings

MCTag == "latest"
MCLowerOf ==
    [w \in {"m", "M", "n", ":", "-", MCTag} |-> IF w = "M" THEN "m" ELSE w]
MCIds == << <<"M">>, <<"m", "-", MCTag>>, <<"m", ":", MCTag>> >>
MCRequests ==
    LET words == {<<"m">>, <<"M">>, <<"n">>}
        more == words \cup {w \o <<s, MCTag>> : w \in words, s \in {":", "-"}}
    IN  more \cup {r \o <<":", MCTag>> : r \in more}

Alias(name, target, hide, refused) ==
    [name |-> name, target |-> target, hide |-> hide, refused |-> refused]
Config(allowed, refused, aliases, limit) ==
    [allowed |-> allowed, modes |-> {"chat"}, refused |-> refused, aliases |-> aliases, limit |-> limit]
MCConfigs ==
    {Config(UpstreamIds, {}, <<>>, 3),
     Config(UpstreamIds \ {<<"M">>}, {<<"m", "-", MCTag>>}, <<Alias(<<"n">>, <<"M">>, TRUE, FALSE)>>, 2),
     Config(UpstreamIds, {}, <<Alias(<<"n">>, <<"M">>, TRUE, FALSE)>>, 3),
     Config(UpstreamIds, {}, <<Alias(<<"M">>, <<"m", ":", MCTag>>, FALSE, FALSE),
                               Alias(<<"m", "-", MCTag>>, <<"M">>, FALSE, FALSE)>>, 3)}
Info(created, mode) == [created |-> created, mode |-> mode]
MCInfos ==
    [id \in UpstreamIds |->
        CASE id = <<"M">> -> {Info(0, "chat"), Info(0, "image")}
          [] id = <<"m", "-", MCTag>> -> {Info(0, "chat"), Info(1, NoMode)}
          [] OTHER -> {Info(0, NoMode)}]

\* Files that a start, a token reload or a configuration reload may take, or not: by
\* authentication that is bad, aliases that a default tag makes one, overrides that
\* leave a model unfit; what they set meets in every pair of layers.
Behaving(sets, extra) == [NoBehavior EXCEPT !.sets = sets, !.extra = extra]
Matching(ids, behaves) == [match |-> ids, behavior |-> behaves]
MCFile(sets, aliases, overrides, tokens) ==
    [sets |-> sets, aliases |-> aliases, overrides |-> overrides, tokens |-> tokens,
     readable |-> TRUE]
MCFileAlias(name, behaves) == [name |-> name, target |-> "m", behavior |-> behaves]
MCFiles ==
    LET plain == MCFile(<<>>, <<>>, <<>>, FALSE)
        both == Matching({"m", "n"}, [Behaving(<<>>, [x |-> 1]) EXCEPT
                    !.drops = {"p"}, !.add = {"tools", "insert"}])
        one == Matching({"m"}, [Behaving([fim |-> "off"], [x |-> 2, y |-> 1]) EXCEPT !.only = {}])
    IN  {plain, [plain EXCEPT !.readable = FALSE], MCFile([tag |-> "v1"], <<>>, <<>>, FALSE),
         MCFile([tag |-> "v1", listen |-> "toml", auth |-> "toml"],
                <<MCFileAlias(<<"a">>, [NoBehavior EXCEPT !.remove = {"tools"}])>>,
                <<both, one>>, TRUE),
         MCFile([auth |-> "bad", fim |-> "template"], <<>>, <<one, both>>, TRUE),
         MCFile([tag |-> "v1", thinkTags |-> TRUE, thinkInitial |-> TRUE],
                <<MCFileAlias(<<"a">>, NoBehavior), MCFileAlias(<<"a", "v1">>, NoBehavior)>>,
                <<>>, FALSE),
         MCFile([thinkTags |-> TRUE, thinkInitial |-> TRUE],
                <<MCFileAlias(<<"a">>, Behaving([fim |-> "template"], <<>>)),
                  MCFileAlias(<<"a", "v1">>, [NoBehavior EXCEPT !.drops = {}])>>,
                <<Matching({"n"}, Behaving([thinkTags |-> FALSE], <<>>)), both>>, FALSE)}

\* Nothing; tags and aliases in both layers; overrides; aliases that a tag makes one.
MCNone == [sets |-> <<>>, aliases |-> <<>>, overrides |-> <<>>]
MCStatic == [env |-> MCNone, flags |-> MCNone]
MCStatics ==
    LET To(name, target) == [name |-> name, target |-> target]
        nothing == Matching({"m"}, [Behaving([fim |-> "template"], <<>>) EXCEPT !.drops = {}])
        some == Matching({"m", "n"}, [NoBehavior EXCEPT !.drops = {"q"}])
    IN  {MCStatic,
         [env |-> [MCNone EXCEPT !.sets = [tag |-> "v1", listen |-> "env"],
                               !.aliases = <<To(<<"a">>, "n"), To(<<"b">>, "m")>>],
          flags |-> [MCNone EXCEPT !.sets = [tag |-> "latest", auth |-> "flag"],
                                 !.aliases = <<To(<<"a", "latest">>, "m")>>]],
         [env |-> [MCNone EXCEPT !.sets = [listen |-> "env", auth |-> "env"],
                               !.overrides = <<<<some, nothing>>>>],
          flags |-> [MCNone EXCEPT !.sets = [listen |-> "flag"]]],
         [env |-> [MCNone EXCEPT !.aliases = <<To(<<"a">>, "n"), To(<<"a", "v1">>, "m")>>],
          flags |-> MCNone]}

MCEvidence == [m |-> "unknown", n |-> "yes"]

VARIABLE part
allVars == <<part, vars, settingsVars>>

MCInit ==
    /\ part \in {"catalog", "settings"}
    /\ Init /\ (part = "catalog" \/ cfg = Config(UpstreamIds, {}, <<>>, 3))
    /\ SettingsInit
    /\ \/ part = "settings"
       \/ file = MCFile(<<>>, <<>>, <<>>, FALSE) /\ static = MCStatic

MCNext ==
    /\ UNCHANGED part
    /\ \/ part = "catalog" /\ Next /\ UNCHANGED settingsVars
       \/ part = "settings" /\ SettingsNext /\ UNCHANGED vars

MCSpec == MCInit /\ [][MCNext]_allVars
=============================================================================
