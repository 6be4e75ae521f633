--------------------------- MODULE MCTokenSources ---------------------------
(***************************************************************************)
(* TokenSources on two names and two values: an inline source whose value  *)
(* can be rotated, and a directory that adds a name, overrides one or      *)
(* clashes with one.                                                       *)
(***************************************************************************)
EXTENDS TokenSources, TLC

CONSTANTS a, b, x, y

MCNames == {a, b}
MCDigests == {x, y}
MCOffers ==
    [s \in SourceIds |->
        CASE s = "inline" -> {a :> x, a :> y}
          [] s = "directory" -> {a :> y, b :> x}
          [] OTHER -> {NoEntries}]

\* The operator may shorten the grace, and drop the directory and restore it.
MCConfigs ==
    {[optional |-> {"directory"}, grace |-> 2], [optional |-> {"directory"}, grace |-> 1],
     [optional |-> {}, grace |-> 2]}

MCOneConfig == {[optional |-> {"directory"}, grace |-> 2]}
=============================================================================
