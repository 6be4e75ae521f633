------------------------- MODULE TokenSourcesProofs -------------------------
(***************************************************************************)
(* Proofs about TokenSources, for any names, values, offers and graces.    *)
(*                                                                         *)
(* The inductive invariant says that the published set is what NewSet      *)
(* makes of State.sources (SetInv), that a source holds nothing but its    *)
(* last good read, and only within the grace of its recorded failure       *)
(* (GraceInv), and that a failure that is not recorded, or recorded late,  *)
(* was seen by a reload that published nothing (RecordInv).                *)
(***************************************************************************)
EXTENDS TokenSources, TLAPS

SetInv == tokens = NewSet(sources) /\ ~Ambiguous(tokens)
GraceInv ==
    \A s \in SourceIds :
        DOMAIN sources[s].entries # {} =>
            /\ s \in ReadSources(authConfig)
            /\ sources[s].entries = lastGood[s]
            /\ sources[s].failed => acceptedAt - sources[s].failedAt < authConfig.grace
RecordInv ==
    \A s \in SourceIds :
        /\ sources[s].failed => sources[s].failedAt <= clock
        /\ failingSince[s] # NoTime /\ s \notin forgotten =>
              sources[s].failed /\ sources[s].failedAt <= failingSince[s]
Inv == TypeOK /\ SetInv /\ GraceInv /\ RecordInv

----------------------------------------------------------------------------
\* Some source with a name has the highest rank.
LEMMA HighestExists ==
    ASSUME NEW S \in SUBSET SourceIds, S # {}
    PROVE  \E s \in S : \A t \in S : Rank[t] <= Rank[s]
<1>1. Rank["inline"] = 1 /\ Rank["file"] = 2 /\ Rank["directory"] = 3
      /\ Rank["env"] = 4 /\ Rank["flags"] = 5
  BY DEF Rank, SourceIds
<1>2. CASE "flags" \in S BY <1>1, <1>2 DEF SourceIds
<1>3. CASE "flags" \notin S /\ "env" \in S BY <1>1, <1>3 DEF SourceIds
<1>4. CASE "flags" \notin S /\ "env" \notin S /\ "directory" \in S BY <1>1, <1>4 DEF SourceIds
<1>5. CASE "flags" \notin S /\ "env" \notin S /\ "directory" \notin S /\ "file" \in S
  BY <1>1, <1>5 DEF SourceIds
<1>6. CASE S = {"inline"}
  <2>1. Rank["inline"] <= Rank["inline"] BY <1>1
  <2>2. QED BY <2>1, <1>6
<1>7. QED BY <1>2, <1>3, <1>4, <1>5, <1>6 DEF SourceIds

\* The winner of a name holds it, and no source above it does.
LEMMA WinnerHolds ==
    ASSUME NEW entries, NEW n, Holders(entries, n) # {}
    PROVE  /\ Winner(entries, n) \in Holders(entries, n)
           /\ \A t \in Holders(entries, n) : Rank[t] <= Rank[Winner(entries, n)]
<1>1. Holders(entries, n) \in SUBSET SourceIds BY DEF Holders
<1>2. \E s \in Holders(entries, n) : \A t \in Holders(entries, n) : Rank[t] <= Rank[s]
  BY <1>1, HighestExists
<1>3. QED BY <1>2 DEF Winner

\* Where a pair of NewSet comes from.
LEMMA NewSetPair ==
    ASSUME NEW states \in [SourceIds -> SourceStates], NEW p \in NewSet(states)
    PROVE  \E s \in SourceIds :
              /\ p[2] \in DOMAIN states[s].entries
              /\ p = <<states[s].entries[p[2]], p[2]>>
              /\ s = Winner(Entries(states), p[2])
              /\ \A t \in SourceIds : Rank[t] > Rank[s] => p[2] \notin DOMAIN states[t].entries
<1> DEFINE E == Entries(states)
<1>1. PICK n \in UNION {DOMAIN E[s] : s \in SourceIds} : p = <<E[Winner(E, n)][n], n>>
  BY DEF NewSet, ByName
<1>2. Holders(E, n) # {} BY <1>1 DEF Holders
<1>3. /\ Winner(E, n) \in Holders(E, n)
      /\ \A t \in Holders(E, n) : Rank[t] <= Rank[Winner(E, n)]
  BY <1>2, WinnerHolds
<1>4. p[2] = n /\ Winner(E, n) \in SourceIds /\ n \in DOMAIN E[Winner(E, n)]
  BY <1>1, <1>3 DEF Holders
<1>5. \A s \in SourceIds : E[s] = states[s].entries BY DEF Entries
<1>6. \A s \in SourceIds : Rank[s] \in Nat BY DEF Rank, SourceIds
<1>7. ASSUME NEW t \in SourceIds, Rank[t] > Rank[Winner(E, n)]
      PROVE  n \notin DOMAIN states[t].entries
  BY <1>3, <1>4, <1>5, <1>6, <1>7 DEF Holders
<1>8. QED BY <1>1, <1>4, <1>5, <1>7

\* A name has one value in NewSet.
LEMMA NewSetFunctional ==
    ASSUME NEW states \in [SourceIds -> SourceStates],
           NEW p \in NewSet(states), NEW q \in NewSet(states), p[2] = q[2]
    PROVE  p = q
BY NewSetPair

LEMMA NewSetType ==
    ASSUME NEW states \in [SourceIds -> SourceStates]
    PROVE  NewSet(states) \subseteq Digests \X Names
<1> SUFFICES ASSUME NEW p \in NewSet(states) PROVE p \in Digests \X Names
  OBVIOUS
<1>1. PICK s \in SourceIds : /\ p[2] \in DOMAIN states[s].entries
                             /\ p = <<states[s].entries[p[2]], p[2]>>
  BY NewSetPair
<1>2. states[s].entries \in Contents BY DEF SourceStates
<1>3. PICK N \in SUBSET Names : states[s].entries \in [N -> Digests]
  BY <1>2 DEF Contents
<1>4. p[2] \in Names /\ states[s].entries[p[2]] \in Digests BY <1>1, <1>3
<1>5. QED BY <1>1, <1>4

LEMMA NoEntriesContent == NoEntries \in Contents /\ DOMAIN NoEntries = {}
<1>1. NoEntries \in [{} -> Digests] BY DEF NoEntries
<1>2. QED BY <1>1 DEF Contents, NoEntries

\* What a good read makes of a source.
LEMMA FreshSource ==
    ASSUME NEW content \in Contents
    PROVE  Fresh(content) \in SourceStates
<1>1. 0 \in Times BY TimeAssumption DEF Times
<1>2. QED BY <1>1 DEF Fresh, SourceStates

\* Update returns source states.
LEMMA NextSourcesType ==
    ASSUME TypeOK, NEW cfg \in AuthConfigs
    PROVE  NextSources(cfg) \in [SourceIds -> SourceStates]
<1> SUFFICES ASSUME NEW s \in SourceIds
             PROVE  NextSources(cfg)[s] \in SourceStates
  BY DEF NextSources
<1>1. ZeroSource \in SourceStates BY NoEntriesContent, FreshSource DEF ZeroSource
<1>2. sources[s] \in SourceStates /\ clock \in Times BY DEF TypeOK
<1>3. CASE s \notin ReadSources(cfg) BY <1>1, <1>3 DEF NextSources
<1>4. CASE s \in ReadSources(cfg) /\ Readable(s)
  <2>1. Result(s) \in Contents BY <1>4 DEF Readable, Result, TypeOK
  <2>2. NextSources(cfg)[s] = Fresh(Result(s)) BY <1>4 DEF NextSources
  <2>3. QED BY <2>1, <2>2, FreshSource
<1>5. CASE s \in ReadSources(cfg) /\ ~Readable(s)
  <2>1. NextSources(cfg)[s] = Failed(s, cfg) BY <1>5 DEF NextSources
  <2>2. sources[s].entries \in Contents /\ sources[s].failedAt \in Times
    BY <1>2 DEF SourceStates
  <2>3. Failed(s, cfg).entries \in Contents
    BY <2>2, NoEntriesContent DEF Failed
  <2>4. Failed(s, cfg).failedAt \in Times BY <1>2, <2>2 DEF Failed
  <2>5. QED BY <2>1, <2>3, <2>4 DEF Failed, SourceStates
<1>6. QED BY <1>3, <1>4, <1>5

LEMMA CandidateType ==
    ASSUME TypeOK PROVE Candidate \in Configs /\ Candidate \in AuthConfigs
BY ConfigsAssumption DEF TypeOK, Candidate
----------------------------------------------------------------------------
LEMMA InitInv == Init => Inv
<1> SUFFICES ASSUME Init PROVE Inv
  OBVIOUS
<1> USE DEF Init
<1>1. \A s \in SourceIds :
        /\ sources[s].entries = IF s \in ReadSources(configured) THEN files[s] ELSE NoEntries
        /\ sources[s].failed = FALSE /\ sources[s].failedAt = 0
  BY DEF ZeroSource, Fresh
<1>2. sources \in [SourceIds -> SourceStates]
  <2> SUFFICES ASSUME NEW s \in SourceIds
               PROVE  (IF s \in ReadSources(configured)
                         THEN Fresh(files[s]) ELSE ZeroSource) \in SourceStates
    OBVIOUS
  <2>1. ZeroSource \in SourceStates BY NoEntriesContent, FreshSource DEF ZeroSource
  <2>2. Fresh(files[s]) \in SourceStates BY FreshSource
  <2>3. QED BY <2>1, <2>2
<1>3. TypeOK
  <2>1. lastGood \in [SourceIds -> Contents]
    BY <1>2 DEF Entries, SourceStates
  <2>2. tokens \subseteq Digests \X Names BY <1>2, NewSetType
  <2>3. 0 \in Times BY TimeAssumption DEF Times
  <2>4. QED BY <1>2, <2>1, <2>2, <2>3 DEF TypeOK
<1>4. SetInv BY DEF SetInv
<1>5. GraceInv BY <1>1, NoEntriesContent DEF GraceInv, Entries
<1>6. RecordInv BY <1>1 DEF RecordInv
<1>7. QED BY <1>3, <1>4, <1>5, <1>6 DEF Inv

\* What a reload notes of its reads has the right type.
LEMMA NoteReadsType ==
    ASSUME TypeOK, NEW cfg, NoteReads(cfg)
    PROVE  reloadedAt' \in Times /\ failingSince' \in [SourceIds -> Times \cup {NoTime}]
BY DEF TypeOK, NoteReads

\* A reload that publishes.
LEMMA AcceptedKeeps ==
    ASSUME Inv, ReloadAccepted
    PROVE  Inv'
<1> DEFINE cfg == Candidate
<1>1. cfg \in Configs /\ cfg \in AuthConfigs BY CandidateType DEF Inv
<1>2. /\ authConfig' = cfg /\ sources' = NextSources(cfg) /\ tokens' = NewSet(NextSources(cfg))
      /\ forgotten' = forgotten \cap Failing(cfg) /\ acceptedAt' = clock
      /\ ~Ambiguous(NewSet(NextSources(cfg))) /\ UNCHANGED <<environment, clock>>
      /\ NoteReads(cfg)
  BY DEF ReloadAccepted, Publish
<1>3. lastGood' = [s \in SourceIds |->
          IF s \notin ReadSources(cfg) THEN NoEntries
          ELSE IF Readable(s) THEN Result(s) ELSE lastGood[s]]
  BY DEF ReloadAccepted, Publish
<1>4. NextSources(cfg) \in [SourceIds -> SourceStates] BY <1>1, NextSourcesType DEF Inv
<1>5. clock \in Nat /\ cfg.grace \in Nat
  BY <1>1 DEF Inv, TypeOK, Times, AuthConfigs
<1>6. TypeOK'
  <2>1. lastGood' \in [SourceIds -> Contents]
    BY <1>3, NoEntriesContent DEF Readable, Result, Inv, TypeOK
  <2>2. tokens' \subseteq Digests \X Names BY <1>2, <1>4, NewSetType
  <2>3. reloadedAt' \in Times /\ failingSince' \in [SourceIds -> Times \cup {NoTime}]
    BY <1>2, NoteReadsType DEF Inv
  <2>4. files' = files /\ configReadable' = configReadable /\ configured' = configured
        /\ clock' = clock
    BY <1>2 DEF environment
  <2>5. QED BY <1>1, <1>2, <1>4, <2>1, <2>2, <2>3, <2>4 DEF Inv, TypeOK
<1>7. SetInv' BY <1>2 DEF SetInv
<1>8. ASSUME NEW s \in SourceIds
      PROVE  /\ DOMAIN sources'[s].entries # {} =>
                  /\ s \in ReadSources(cfg)
                  /\ sources'[s].entries = lastGood'[s]
                  /\ sources'[s].failed => clock - sources'[s].failedAt < cfg.grace
             /\ sources'[s].failed => sources'[s].failedAt <= clock
             /\ failingSince'[s] # NoTime /\ s \notin forgotten' =>
                  sources'[s].failed /\ sources'[s].failedAt <= failingSince'[s]
  <2>0. failingSince'[s] = IF s \notin Failing(cfg) THEN NoTime
                           ELSE IF failingSince[s] = NoTime THEN clock ELSE failingSince[s]
    BY <1>2 DEF NoteReads
  <2>1. CASE s \notin ReadSources(cfg)
    <3>1. sources'[s] = ZeroSource BY <1>2, <2>1 DEF NextSources
    <3>2. failingSince'[s] = NoTime BY <2>0, <2>1 DEF Failing
    <3>3. QED BY <3>1, <3>2, NoEntriesContent DEF ZeroSource, Fresh
  <2>2. CASE s \in ReadSources(cfg) /\ Readable(s)
    <3>1. sources'[s].entries = Result(s) /\ sources'[s].failed = FALSE
      BY <1>2, <2>2 DEF NextSources, Fresh
    <3>2. lastGood'[s] = Result(s) BY <1>3, <2>2
    <3>3. failingSince'[s] = NoTime BY <2>0, <2>2 DEF Failing
    <3>4. QED BY <2>2, <3>1, <3>2, <3>3
  <2>3. CASE s \in ReadSources(cfg) /\ ~Readable(s)
    <3> DEFINE since == IF sources[s].failed THEN sources[s].failedAt ELSE clock
    <3>1. sources'[s] = Failed(s, cfg) BY <1>2, <2>3 DEF NextSources
    <3>2. /\ sources'[s].failed /\ sources'[s].failedAt = since
          /\ sources'[s].entries =
                IF clock - since >= cfg.grace THEN NoEntries ELSE sources[s].entries
      BY <3>1 DEF Failed
    <3>3. lastGood'[s] = lastGood[s] BY <1>3, <2>3
    <3>4. sources[s].failedAt \in Nat BY DEF Inv, TypeOK, SourceStates, Times
    <3>5. since \in Nat /\ since <= clock BY <1>5, <3>4 DEF Inv, RecordInv
    <3>6. DOMAIN sources'[s].entries # {} => sources[s].entries = lastGood[s]
      BY <3>2, NoEntriesContent DEF Inv, GraceInv
    <3>7. DOMAIN sources'[s].entries # {} =>
            sources'[s].entries = sources[s].entries /\ clock - since < cfg.grace
      BY <1>5, <3>2, <3>5, NoEntriesContent
    <3>8. s \notin forgotten' => s \notin forgotten BY <1>2, <2>3 DEF Failing
    <3>9. failingSince'[s] = IF failingSince[s] = NoTime THEN clock ELSE failingSince[s]
      BY <2>0, <2>3 DEF Failing
    <3>10. s \notin forgotten => since <= failingSince'[s]
      BY <3>4, <3>5, <3>9, <1>5 DEF Inv, RecordInv
    <3>11. QED BY <2>3, <3>2, <3>3, <3>5, <3>6, <3>7, <3>8, <3>10
  <2>4. QED BY <2>1, <2>2, <2>3
<1>9. GraceInv' /\ RecordInv' BY <1>2, <1>8 DEF GraceInv, RecordInv, ReadSources
<1>10. QED BY <1>6, <1>7, <1>9 DEF Inv

\* A reload that publishes nothing.
LEMMA DiscardKeeps ==
    ASSUME Inv, ReloadRejected \/ ReloadOvertaken
    PROVE  Inv'
<1> DEFINE cfg == Candidate
<1>1. /\ forgotten' = forgotten \cup {s \in Failing(cfg) : ~sources[s].failed}
      /\ UNCHANGED <<state, lastGood, acceptedAt, environment, clock>>
      /\ NoteReads(cfg)
  BY DEF ReloadRejected, ReloadOvertaken, Discard
<1>2. Failing(cfg) \subseteq SourceIds
  <2>1. cfg.optional \subseteq Optional BY CandidateType DEF Inv, AuthConfigs
  <2>2. QED BY <2>1 DEF Failing, ReadSources, SourceIds, Optional
<1>3. UNCHANGED <<authConfig, sources, tokens, lastGood, acceptedAt, files, configReadable,
                  configured, clock>>
  BY <1>1 DEF state, environment
<1>4. TypeOK'
  <2>1. reloadedAt' \in Times /\ failingSince' \in [SourceIds -> Times \cup {NoTime}]
    BY <1>1, NoteReadsType DEF Inv
  <2>2. forgotten' \subseteq SourceIds BY <1>1, <1>2 DEF Inv, TypeOK
  <2>3. QED BY <1>3, <2>1, <2>2 DEF Inv, TypeOK
<1>5. SetInv' BY <1>3 DEF Inv, SetInv, NewSet, Ambiguous
<1>6. GraceInv' BY <1>3 DEF Inv, GraceInv, ReadSources
<1>7. RecordInv'
  <2> SUFFICES ASSUME NEW s \in SourceIds
               PROVE  failingSince'[s] # NoTime /\ s \notin forgotten' =>
                        sources[s].failed /\ sources[s].failedAt <= failingSince'[s]
    BY <1>3 DEF Inv, RecordInv
  <2>1. failingSince'[s] = IF s \notin Failing(cfg) THEN NoTime
                           ELSE IF failingSince[s] = NoTime THEN clock ELSE failingSince[s]
    BY <1>1 DEF NoteReads
  <2>2. CASE s \notin Failing(cfg) BY <2>1, <2>2
  <2>3. CASE s \in Failing(cfg) /\ ~sources[s].failed BY <1>1, <2>3
  <2>4. CASE s \in Failing(cfg) /\ sources[s].failed
    <3>1. s \notin forgotten' => s \notin forgotten BY <1>1
    <3>2. sources[s].failedAt <= clock BY <2>4 DEF Inv, RecordInv
    <3>3. QED BY <2>1, <2>4, <3>1, <3>2 DEF Inv, RecordInv
  <2>5. QED BY <2>2, <2>3, <2>4
<1>8. QED BY <1>4, <1>5, <1>6, <1>7 DEF Inv

\* The environment and the clock.
LEMMA EnvironmentKeeps ==
    ASSUME Inv, EditConfig \/ Tick \/ \E s \in SourceIds : EditSource(s)
    PROVE  Inv'
<1>1. UNCHANGED <<authConfig, sources, tokens, lastGood, failingSince, forgotten, acceptedAt,
                  reloadedAt>>
  BY DEF EditConfig, Tick, EditSource, state, history
<1>2. clock' \in Times /\ clock <= clock'
  <2>1. clock \in 0 .. MaxTime BY DEF Inv, TypeOK, Times
  <2>2. clock' = clock \/ (clock < MaxTime /\ clock' = clock + 1)
    BY DEF EditConfig, Tick, EditSource
  <2>3. QED BY <2>1, <2>2, TimeAssumption DEF Times
<1>3. /\ files' \in [SourceIds -> Contents \cup {Unreadable}]
      /\ configReadable' \in BOOLEAN /\ configured' \in Configs
  <2>1. CASE EditConfig BY <2>1 DEF EditConfig, Inv, TypeOK
  <2>2. CASE Tick BY <2>2 DEF Tick, environment, Inv, TypeOK
  <2>3. CASE \E s \in SourceIds : EditSource(s)
    <3>1. PICK s \in SourceIds : EditSource(s) BY <2>3
    <3>2. PICK content \in Contents \cup {Unreadable} : files' = [files EXCEPT ![s] = content]
      BY <3>1, OffersAssumption DEF EditSource
    <3>3. QED BY <3>1, <3>2 DEF EditSource, Inv, TypeOK
  <2>4. QED BY <2>1, <2>2, <2>3
<1>4. TypeOK' BY <1>1, <1>2, <1>3 DEF Inv, TypeOK
<1>5. SetInv' /\ GraceInv'
  BY <1>1 DEF Inv, SetInv, NewSet, Ambiguous, GraceInv, ReadSources
<1>6. RecordInv'
  <2>1. \A s \in SourceIds : sources[s].failedAt \in Nat
    BY DEF Inv, TypeOK, SourceStates, Times
  <2>2. clock \in Nat /\ clock' \in Nat BY <1>2 DEF Inv, TypeOK, Times
  <2>3. QED BY <1>1, <1>2, <2>1, <2>2 DEF Inv, RecordInv
<1>7. QED BY <1>4, <1>5, <1>6 DEF Inv

THEOREM Invariant == Spec => []Inv
<1>1. Inv /\ [Next]_vars => Inv'
  <2> SUFFICES ASSUME Inv, [Next]_vars PROVE Inv'
    OBVIOUS
  <2>1. CASE Next BY <2>1, AcceptedKeeps, DiscardKeeps, EnvironmentKeeps DEF Next, Reload
  <2>2. CASE UNCHANGED vars
    <3>1. UNCHANGED <<files, configReadable, configured, clock, authConfig, sources, tokens,
                      lastGood, failingSince, forgotten, acceptedAt, reloadedAt>>
      BY <2>2 DEF vars, environment, state, history
    <3>2. QED BY <3>1 DEF Inv, TypeOK, SetInv, NewSet, Ambiguous, GraceInv, RecordInv, ReadSources
  <2>3. QED BY <2>1, <2>2
<1>2. QED BY <1>1, InitInv, PTL DEF Spec
----------------------------------------------------------------------------
\* Every variable keeps its type.
THEOREM TypeCorrect == Spec => []TypeOK
<1>1. Inv => TypeOK BY DEF Inv
<1>2. QED BY <1>1, Invariant, PTL

\* A token value belongs to one name, and a name has one value, in every
\* published set (NewSet, State.Update).
THEOREM TokensHaveOneOwner == Spec => []OneOwner
<1>1. Inv => OneOwner
  <2> SUFFICES ASSUME Inv, NEW p \in tokens, NEW q \in tokens PROVE p[1] = q[1] <=> p[2] = q[2]
    BY DEF OneOwner
  <2>1. tokens = NewSet(sources) /\ sources \in [SourceIds -> SourceStates]
    BY DEF Inv, SetInv, TypeOK
  <2>2. p[1] = q[1] => p[2] = q[2] BY DEF Inv, SetInv, Ambiguous
  <2>3. p[2] = q[2] => p = q BY <2>1, NewSetFunctional
  <2>4. QED BY <2>2, <2>3
<1>2. QED BY <1>1, Invariant, PTL

\* A published value is the one of the last source that has its name.
THEOREM LaterSourceOverrides == Spec => []OverrideHolds
<1>1. Inv => OverrideHolds
  <2> SUFFICES ASSUME Inv, NEW p \in tokens
               PROVE  \E s \in ReadSources(authConfig) :
                         /\ p \in Pairs(sources[s].entries)
                         /\ \A t \in SourceIds :
                               Rank[t] > Rank[s] => p[2] \notin DOMAIN sources[t].entries
    BY DEF OverrideHolds
  <2>1. p \in NewSet(sources) /\ sources \in [SourceIds -> SourceStates]
    BY DEF Inv, SetInv, TypeOK
  <2>2. PICK s \in SourceIds :
          /\ p[2] \in DOMAIN sources[s].entries /\ p = <<sources[s].entries[p[2]], p[2]>>
          /\ \A t \in SourceIds : Rank[t] > Rank[s] => p[2] \notin DOMAIN sources[t].entries
    BY <2>1, NewSetPair
  <2>3. s \in ReadSources(authConfig) BY <2>2 DEF Inv, GraceInv
  <2>4. QED BY <2>2, <2>3 DEF Pairs
<1>2. QED BY <1>1, Invariant, PTL

\* Whatever mixture of fresh and retained tokens is published, every value has
\* one owner and is that of the last source that has its name.
THEOREM OwnersAreRight == Spec => []OwnersHold
<1>1. OneOwner /\ OverrideHolds => OwnersHold BY DEF OwnersHold
<1>2. QED BY <1>1, TokensHaveOneOwner, LaterSourceOverrides, PTL

\* No token outlives the grace of the source it was read from, counted from the
\* first failed read that a published reload saw (State.Update, reloadTokens).
THEOREM TokensWithinGrace == Spec => []RetainedWithinGrace
<1>1. Inv => RetainedWithinGrace
  <2> SUFFICES ASSUME Inv, NEW p \in tokens
               PROVE  \E s \in ReadSources(authConfig) :
                         p \in Pairs(lastGood[s]) /\ (Overdue(s, acceptedAt) => s \in forgotten)
    BY DEF RetainedWithinGrace
  <2>1. p \in NewSet(sources) /\ sources \in [SourceIds -> SourceStates]
    BY DEF Inv, SetInv, TypeOK
  <2>2. PICK s \in SourceIds :
          p[2] \in DOMAIN sources[s].entries /\ p = <<sources[s].entries[p[2]], p[2]>>
    BY <2>1, NewSetPair
  <2>3. /\ s \in ReadSources(authConfig) /\ sources[s].entries = lastGood[s]
        /\ sources[s].failed => acceptedAt - sources[s].failedAt < authConfig.grace
    BY <2>2 DEF Inv, GraceInv
  <2>4. Overdue(s, acceptedAt) => s \in forgotten
    <3> SUFFICES ASSUME Overdue(s, acceptedAt), s \notin forgotten PROVE FALSE
      OBVIOUS
    <3>1. failingSince[s] # NoTime /\ acceptedAt - failingSince[s] >= authConfig.grace
      BY DEF Overdue
    <3>2. sources[s].failed /\ sources[s].failedAt <= failingSince[s]
      BY <3>1 DEF Inv, RecordInv
    <3>3. sources[s].failedAt \in Nat /\ failingSince[s] \in Nat /\ acceptedAt \in Nat
      BY <3>1, TimeAssumption DEF Inv, TypeOK, SourceStates, Times
    <3>4. authConfig.grace \in Nat BY ConfigsAssumption DEF Inv, TypeOK, AuthConfigs
    <3>5. QED BY <2>3, <3>1, <3>2, <3>3, <3>4
  <2>5. QED BY <2>2, <2>3, <2>4 DEF Pairs
<1>2. QED BY <1>1, Invariant, PTL
=============================================================================
